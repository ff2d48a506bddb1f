-------------------------- MODULE RemoteSyncProofs ---------------------------
(***************************************************************************)
(* The safety of RemoteSyncReconciler, for every set of specs, of Secrets  *)
(* and of revisions, every way of shortening a revision, and every number  *)
(* of RemoteSync of a name, of edits and of faults: TypeOK, the invariant *)
(* IInv, hence ObjectsSettle.                                              *)
(*                                                                         *)
(* The argument is that of PipelineProofs: a write that changes anything   *)
(* puts a new version behind the cached one, and taking it away again      *)
(* queues the key.  The Application is left out of the invariant, since    *)
(* its watch queues nothing.                                               *)
(***************************************************************************)
EXTENDS RemoteSyncReconciler, InformerProofs

Accounts == Account \union {NoObject}
Images == [Name -> Image \union {NoObject}]
Deployable == Revision \union {NoRevision, NoObject}
Revisions == Revision \union {NoRevision}

-----------------------------------------------------------------------------
(* Type correctness                                                        *)

\* The parts of TypeOK: the flags, the other plain variables and the views.
Flags ==
  /\ dirty \in BOOLEAN /\ retry \in BOOLEAN
  /\ fresh \in BOOLEAN /\ pending \in BOOLEAN /\ failed \in BOOLEAN

Plain ==
  /\ github.head \in Revision /\ github.merge \in Revision
  /\ pc \in {"idle", "account", "github", "pull", "list", "images", "application",
            "status", "error"}
  /\ uid \in IF pc = "idle" THEN {NoObject} ELSE 1..MaxUid
  /\ spec \in IF pc = "idle" THEN {NoObject} ELSE Sources
  /\ revision \in Revisions /\ latestImage \in Revisions /\ resolved \in Revisions
  /\ pc \in {"pull", "list", "images", "application"} => revision \in Revision
  /\ doomed \subseteq Name
  /\ edits \in Nat /\ faults \in Nat

GitHub == github \in [head : Revision, merge : Revision, mergeable : BOOLEAN]

Views ==
  /\ Versions(remoteSync, RemoteSync)
  /\ Versions(serviceAccount, Accounts)
  /\ Versions(images, Images)
  /\ Versions(application, Deployable)

LEMMA TypeParts ==
  /\ TypeOK <=> Flags /\ Plain /\ GitHub /\ Views
  /\ TypeOK' <=> Flags' /\ Plain' /\ GitHub' /\ Views'
BY DEF TypeOK, Flags, Plain, GitHub, Views, Accounts, Images, Deployable, Revisions

\* A revision's short name is a name.
LEMMA ShortNames == \A r \in Revision : Short[r] \in Name
BY DEF Name

\* The initial state is typed.
LEMMA InitTypes == Init => TypeOK
<1> SUFFICES ASSUME Init PROVE TypeOK
  OBVIOUS
<1>1. Versions(remoteSync, RemoteSync)
  <2>1. PICK s \in Sources : remoteSync = <<NewRemoteSync(1, s)>>
    BY DEF Init
  <2>2. NewRemoteSync(1, s) \in RemoteSync
    BY LimitAssumption DEF NewRemoteSync, RemoteSync, Message
  <2> QED
    BY <2>1, <2>2, Refilled
<1>2. Versions(serviceAccount, Accounts)
  <2>1. NoObject \in Accounts
    BY DEF Accounts
  <2> QED
    BY <2>1, Refilled DEF Init
<1>3. Versions(images, Images)
  <2>1. [n \in Name |-> NoObject] \in Images
    BY DEF Images
  <2> QED
    BY <2>1, Refilled DEF Init
<1>4. Versions(application, Deployable)
  <2>1. NoObject \in Deployable /\ NoRevision \in Deployable
    BY DEF Deployable
  <2> QED
    BY <2>1, Refilled DEF Init
<1>5. Flags /\ Plain /\ GitHub
  <2>1. 1 \in Revision
    BY SourceAssumption DEF Revision
  <2> QED
    BY <2>1 DEF Init, Flags, Plain, GitHub, Revisions
<1> QED
  BY <1>1, <1>2, <1>3, <1>4, <1>5, TypeParts DEF Views

\* Writes to the Image of name n.
LEMMA ImageStored ==
  ASSUME Versions(images, Images), NEW n \in Name, NEW object \in Image \union {NoObject}
  PROVE  Versions(Write(images, [Live(images) EXCEPT ![n] = object]), Images)
<1>1. Live(images) \in Images
  BY Ends
<1>2. [Live(images) EXCEPT ![n] = object] \in Images
  BY <1>1 DEF Images
<1> QED
  BY <1>2, Written

\* A RemoteSync created after the live one, under the next uid, is a RemoteSync.
LEMMA NextRemoteSyncType ==
  ASSUME Live(remoteSync) \in RemoteSync, NEW s \in Sources,
         Live(remoteSync).uid < MaxUid
  PROVE  NewRemoteSync(Live(remoteSync).uid + 1, s) \in RemoteSync
<1>0. MaxUid \in Nat
  BY LimitAssumption
<1>1. Live(remoteSync).uid \in 1..MaxUid
  BY DEF RemoteSync
<1>2. Live(remoteSync).uid + 1 \in 1..MaxUid
  BY <1>0, <1>1
<1>3. "" \in Message
  BY DEF Message
<1> QED
  BY <1>2, <1>3 DEF NewRemoteSync, RemoteSync

\* What patchImage makes of an Image, or of none.
LEMMA WantedType ==
  ASSUME NEW cached \in Image \union {NoObject}, NEW live \in Image \union {NoObject},
         uid \in 1..MaxUid, revision \in Revision
  PROVE  /\ Wanted(cached, live) \in Image
         /\ Wanted(cached, live).owner = uid
         /\ live = cached => Wanted(cached, live).revision = revision
<1>1. CASE live = NoObject
  BY <1>1 DEF Wanted, Image
<1>2. CASE live # NoObject
  <2> DEFINE r == IF cached.revision = revision THEN live.revision ELSE revision
  <2>1. live \in Image /\ r \in Revision
    BY <1>2 DEF Image
  <2>2. Wanted(cached, live) = [live EXCEPT !.owner = uid, !.revision = r]
    BY <1>2 DEF Wanted
  <2>3. [live EXCEPT !.owner = uid, !.revision = r] \in Image
    BY <2>1 DEF Image
  <2>4. /\ [live EXCEPT !.owner = uid, !.revision = r].owner = uid
        /\ [live EXCEPT !.owner = uid, !.revision = r].revision = r
    BY <2>1 DEF Image
  <2> QED
    BY <2>2, <2>3, <2>4
<1> QED
  BY <1>1, <1>2

\* The status of the RemoteSync.
LEMMA MessageStored ==
  ASSUME Versions(remoteSync, RemoteSync), NEW message \in Message, StoreMessage(message)
  PROVE  /\ Versions(remoteSync, RemoteSync)'
         /\ Grows(remoteSync, remoteSync')
         /\ fresh /\ UpToDate(remoteSync)' =>
              remoteSync' = remoteSync /\ Live(remoteSync).message = message
<1>1. CASE fresh
  <2> DEFINE stored == [Live(remoteSync) EXCEPT !.message = message]
  <2>1. Live(remoteSync) \in RemoteSync
    BY Ends
  <2>2. stored \in RemoteSync /\ stored.message = message
    BY <2>1 DEF RemoteSync
  <2>3. remoteSync' = Write(remoteSync, stored)
    BY <1>1 DEF StoreMessage
  <2> HIDE DEF stored
  <2>4. /\ Versions(Write(remoteSync, stored), RemoteSync)
        /\ Grows(remoteSync, Write(remoteSync, stored))
        /\ UpToDate(Write(remoteSync, stored)) =>
             Write(remoteSync, stored) = remoteSync /\ Live(remoteSync) = stored
    BY <2>2, Written
  <2> QED
    BY <2>2, <2>3, <2>4 DEF Versions, UpToDate
<1>2. CASE ~fresh
  <2>1. remoteSync' = remoteSync
    BY <1>2 DEF StoreMessage
  <2> QED
    BY <1>2, <2>1, Stays
<1> QED
  BY <1>1, <1>2

\* The messages that Reconcile stores.
LEMMA StatusMessages ==
  /\ "error" \in Message
  /\ (IF pending THEN "merge status is pending" ELSE "") \in Message
BY DEF Message

\* Every step keeps the types.
LEMMA NextTypes == TypeOK /\ [Next]_vars => TypeOK'
<1> SUFFICES ASSUME TypeOK, [Next]_vars PROVE TypeOK'
  OBVIOUS
<1>0. Flags /\ Plain /\ GitHub /\ Views
  BY TypeParts
<1>l. /\ Live(remoteSync) \in RemoteSync /\ Live(serviceAccount) \in Accounts
      /\ Live(images) \in Images /\ Live(application) \in Deployable
      /\ Cached(remoteSync) \in RemoteSync /\ Cached(images) \in Images
  BY <1>0, Ends DEF Views
<1>g. SUFFICES Flags' /\ Plain' /\ GitHub' /\ Views'
  BY TypeParts
<1>1. ASSUME NEW r \in Revision, Push(r) PROVE Flags' /\ Plain' /\ GitHub' /\ Views'
  <2>1. Flags'
    BY <1>0, <1>1, Zenon DEF Push, SpendEdit, objects, queue, locals, cleanup, Flags
  <2>2. Plain'
    BY <1>0, <1>1 DEF Push, SpendEdit, objects, queue, locals, cleanup, Plain
  <2>3. GitHub'
    BY <1>0, <1>1 DEF Push, SpendEdit, objects, queue, locals, cleanup, GitHub
  <2>4. Views'
    BY <1>0, <1>1 DEF Push, SpendEdit, objects, queue, locals, cleanup, Views, Versions
  <2> QED
    BY <2>1, <2>2, <2>3, <2>4
<1>2. CASE ComputeMerge
  <2>1. Flags'
    BY <1>0, <1>2, Zenon DEF ComputeMerge, objects, queue, locals, cleanup, budget, Flags
  <2>2. Plain'
    BY <1>0, <1>2 DEF ComputeMerge, objects, queue, locals, cleanup, budget, Plain
  <2>3. GitHub'
    BY <1>0, <1>2 DEF ComputeMerge, objects, queue, locals, cleanup, budget, GitHub
  <2>4. Views'
    BY <1>0, <1>2 DEF ComputeMerge, objects, queue, locals, cleanup, budget, Views, Versions
  <2> QED
    BY <2>1, <2>2, <2>3, <2>4
<1>3. ASSUME NEW n \in Name, Build(n) PROVE Flags' /\ Plain' /\ GitHub' /\ Views'
  <2>1. PICK object \in Image : images' = Write(images, [Live(images) EXCEPT ![n] = object])
    <3>1. Live(images)[n] \in Image
      BY <1>l, <1>3 DEF Build, Images
    <3>2. [Live(images)[n] EXCEPT !.built = Live(images)[n].revision] \in Image
      BY <3>1 DEF Image
    <3> QED
      BY <1>3, <3>2 DEF Build
  <2>2. Flags'
    BY <1>0, <1>3, Zenon DEF Build, queue, locals, cleanup, budget, Flags
  <2>3. Plain'
    BY <1>0, <1>3, <2>1 DEF Build, queue, locals, cleanup, budget, Plain
  <2>4. GitHub'
    BY <1>0, <1>3 DEF Build, queue, locals, cleanup, budget, GitHub
  <2>5. Views'
    BY <1>0, <1>3, <2>1, ImageStored DEF Build, queue, locals, cleanup, budget, Views, Versions
  <2> QED
    BY <2>2, <2>3, <2>4, <2>5
<1>4. ASSUME NEW s \in Sources, Edit(s) PROVE Flags' /\ Plain' /\ GitHub' /\ Views'
  <2>1. [Live(remoteSync) EXCEPT !.spec = s] \in RemoteSync
    BY <1>l DEF RemoteSync
  <2>2. Flags'
    BY <1>0, <1>4, Zenon DEF Edit, SpendEdit, queue, cleanup, Flags
  <2>3. Plain'
    BY <1>0, <1>4, <2>1 DEF Edit, SpendEdit, queue, cleanup, Plain
  <2>4. GitHub'
    BY <1>0, <1>4 DEF Edit, SpendEdit, queue, cleanup, GitHub
  <2>5. Views'
    BY <1>0, <1>4, <2>1, Appended DEF Edit, SpendEdit, queue, cleanup, Views, Versions
  <2> QED
    BY <2>2, <2>3, <2>4, <2>5
<1>4d. CASE DeleteRemoteSync
  <2>1. [Live(remoteSync) EXCEPT !.alive = FALSE] \in RemoteSync
    BY <1>l DEF RemoteSync
  <2>2. Flags'
    BY <1>0, <1>4d, Zenon DEF DeleteRemoteSync, SpendEdit, queue, cleanup, Flags
  <2>3. Plain'
    BY <1>0, <1>4d, <2>1 DEF DeleteRemoteSync, SpendEdit, queue, cleanup, Plain
  <2>4. GitHub'
    BY <1>0, <1>4d DEF DeleteRemoteSync, SpendEdit, queue, cleanup, GitHub
  <2>5. Views'
    BY <1>0, <1>4d, <2>1, Appended
    DEF DeleteRemoteSync, SpendEdit, queue, cleanup, Views, Versions
  <2> QED
    BY <2>2, <2>3, <2>4, <2>5
<1>4r. ASSUME NEW s \in Sources, RecreateRemoteSync(s)
       PROVE  Flags' /\ Plain' /\ GitHub' /\ Views'
  <2>1. NewRemoteSync(Live(remoteSync).uid + 1, s) \in RemoteSync
    BY <1>l, <1>4r, NextRemoteSyncType DEF RecreateRemoteSync
  <2>2. Flags'
    BY <1>0, <1>4r, Zenon DEF RecreateRemoteSync, queue, locals, cleanup, budget, Flags
  <2>3. Plain'
    BY <1>0, <1>4r, <2>1 DEF RecreateRemoteSync, queue, locals, cleanup, budget, Plain
  <2>4. GitHub'
    BY <1>0, <1>4r DEF RecreateRemoteSync, queue, locals, cleanup, budget, GitHub
  <2>5. Views'
    BY <1>0, <1>4r, <2>1, Appended
    DEF RecreateRemoteSync, queue, locals, cleanup, budget, Views, Versions
  <2> QED
    BY <2>2, <2>3, <2>4, <2>5
<1>4a. CASE CollectServiceAccount
  <2>1. NoObject \in Accounts
    BY DEF Accounts
  <2>2. Flags'
    BY <1>0, <1>4a, Zenon DEF CollectServiceAccount, queue, locals, cleanup, budget, Flags
  <2>3. Plain'
    BY <1>0, <1>4a, <2>1 DEF CollectServiceAccount, queue, locals, cleanup, budget, Plain
  <2>4. GitHub'
    BY <1>0, <1>4a DEF CollectServiceAccount, queue, locals, cleanup, budget, GitHub
  <2>5. Views'
    BY <1>0, <1>4a, <2>1, Written
    DEF CollectServiceAccount, queue, locals, cleanup, budget, Views, Versions
  <2> QED
    BY <2>2, <2>3, <2>4, <2>5
<1>4i. ASSUME NEW n \in Name, CollectImage(n) PROVE Flags' /\ Plain' /\ GitHub' /\ Views'
  <2>1. Flags'
    BY <1>0, <1>4i, Zenon DEF CollectImage, queue, locals, cleanup, budget, Flags
  <2>2. Plain'
    BY <1>0, <1>4i DEF CollectImage, queue, locals, cleanup, budget, Plain
  <2>3. GitHub'
    BY <1>0, <1>4i DEF CollectImage, queue, locals, cleanup, budget, GitHub
  <2>4. Views'
    BY <1>0, <1>4i, ImageStored
    DEF CollectImage, queue, locals, cleanup, budget, Views, Versions
  <2> QED
    BY <2>1, <2>2, <2>3, <2>4
<1>5d. CASE DeleteApplication
  <2>1. NoObject \in Deployable
    BY DEF Deployable
  <2>2. Flags'
    BY <1>0, <1>5d, Zenon DEF DeleteApplication, SpendFault, queue, locals, cleanup, Flags
  <2>3. Plain'
    BY <1>0, <1>5d, <2>1 DEF DeleteApplication, SpendFault, queue, locals, cleanup, Plain
  <2>4. GitHub'
    BY <1>0, <1>5d DEF DeleteApplication, SpendFault, queue, locals, cleanup, GitHub
  <2>5. Views'
    BY <1>0, <1>5d, <2>1, Written
    DEF DeleteApplication, SpendFault, queue, locals, cleanup, Views, Versions
  <2> QED
    BY <2>2, <2>3, <2>4, <2>5
<1>5. CASE CreateApplication
  <2>1. NoRevision \in Deployable
    BY DEF Deployable
  <2>2. Flags'
    BY <1>0, <1>5, Zenon DEF CreateApplication, queue, locals, cleanup, budget, Flags
  <2>3. Plain'
    BY <1>0, <1>5, <2>1 DEF CreateApplication, queue, locals, cleanup, budget, Plain
  <2>4. GitHub'
    BY <1>0, <1>5 DEF CreateApplication, queue, locals, cleanup, budget, GitHub
  <2>5. Views'
    BY <1>0, <1>5, <2>1, Written DEF CreateApplication, queue, locals, cleanup, budget, Views, Versions
  <2> QED
    BY <2>2, <2>3, <2>4, <2>5
<1>6. CASE DeleteServiceAccount
  <2>1. NoObject \in Accounts
    BY DEF Accounts
  <2>2. Flags'
    BY <1>0, <1>6, Zenon DEF DeleteServiceAccount, SpendFault, queue, locals, cleanup, Flags
  <2>3. Plain'
    BY <1>0, <1>6, <2>1 DEF DeleteServiceAccount, SpendFault, queue, locals, cleanup, Plain
  <2>4. GitHub'
    BY <1>0, <1>6 DEF DeleteServiceAccount, SpendFault, queue, locals, cleanup, GitHub
  <2>5. Views'
    BY <1>0, <1>6, <2>1, Written DEF DeleteServiceAccount, SpendFault, queue, locals, cleanup, Views, Versions
  <2> QED
    BY <2>2, <2>3, <2>4, <2>5
<1>7. ASSUME NEW n \in Name, DeleteImage(n) PROVE Flags' /\ Plain' /\ GitHub' /\ Views'
  <2>1. Flags'
    BY <1>0, <1>7, Zenon DEF DeleteImage, SpendFault, queue, locals, cleanup, Flags
  <2>2. Plain'
    BY <1>0, <1>7 DEF DeleteImage, SpendFault, queue, locals, cleanup, Plain
  <2>3. GitHub'
    BY <1>0, <1>7 DEF DeleteImage, SpendFault, queue, locals, cleanup, GitHub
  <2>4. Views'
    BY <1>0, <1>7, ImageStored DEF DeleteImage, SpendFault, queue, locals, cleanup, Views, Versions
  <2> QED
    BY <2>1, <2>2, <2>3, <2>4
<1>8. CASE Watch
  <2>1. Flags'
    BY <1>0, <1>8, Zenon DEF Watch, WatchRemoteSync, WatchServiceAccount, WatchImages,
      WatchApplication, queue, locals, cleanup, budget, Flags
  <2>2. Plain'
    BY <1>0, <1>8 DEF Watch, WatchRemoteSync, WatchServiceAccount, WatchImages,
      WatchApplication, queue, locals, cleanup, budget, Plain
  <2>3. GitHub'
    BY <1>0, <1>8 DEF Watch, WatchRemoteSync, WatchServiceAccount, WatchImages,
      WatchApplication, queue, locals, cleanup, budget, GitHub
  <2>4. Views'
    BY <1>0, <1>8, Delivered DEF Watch, WatchRemoteSync, WatchServiceAccount, WatchImages,
      WatchApplication, queue, locals, cleanup, budget, Views, Versions
  <2> QED
    BY <2>1, <2>2, <2>3, <2>4
<1>9. CASE Resync \/ RetryTimer
  <2>1. Flags'
    BY <1>0, <1>9, Zenon DEF Resync, RetryTimer, objects, locals, cleanup, budget, Flags
  <2>2. Plain'
    BY <1>0, <1>9 DEF Resync, RetryTimer, objects, locals, cleanup, budget, Plain
  <2>3. GitHub'
    BY <1>0, <1>9 DEF Resync, RetryTimer, objects, locals, cleanup, budget, GitHub
  <2>4. Views'
    BY <1>0, <1>9 DEF Resync, RetryTimer, objects, locals, cleanup, budget, Views, Versions
  <2> QED
    BY <2>1, <2>2, <2>3, <2>4
<1>10. CASE Reconcile
  <2>1. Cached(remoteSync).spec \in Sources /\ Cached(remoteSync).uid \in 1..MaxUid
    BY <1>l DEF RemoteSync
  <2>2. Flags'
    BY <1>0, <1>10, Zenon DEF Reconcile, UpToDate, objects, cleanup, budget, Flags
  <2>3. Plain'
    BY <1>0, <1>10, <2>1 DEF Reconcile, UpToDate, objects, cleanup, budget, Plain
  <2>4. GitHub'
    BY <1>0, <1>10 DEF Reconcile, UpToDate, objects, cleanup, budget, GitHub
  <2>5. Views'
    BY <1>0, <1>10, <2>1 DEF Reconcile, UpToDate, objects, cleanup, budget, Views, Versions
  <2> QED
    BY <2>2, <2>3, <2>4, <2>5
<1>11. CASE PrepareServiceAccount
  <2> DEFINE wanted == [owner |-> uid, secrets |-> spec.secrets]
  <2>1. wanted \in Accounts
    BY <1>0, <1>11, SourceAssumption DEF PrepareServiceAccount, Plain, Accounts, Account
  <2>2. Flags'
    BY <1>0, <1>11, Zenon DEF PrepareServiceAccount, AccountReady, Fail, ReplyLost, SpendFault,
      queue, cleanup, budget, Flags
  <2>3. Plain'
    BY <1>0, <1>11, <2>1 DEF PrepareServiceAccount, AccountReady, Fail, ReplyLost, SpendFault,
      queue, cleanup, budget, Plain
  <2>4. GitHub'
    BY <1>0, <1>11 DEF PrepareServiceAccount, AccountReady, Fail, ReplyLost, SpendFault,
      queue, cleanup, budget, GitHub
  <2>5. Views'
    <3>1. \/ UNCHANGED serviceAccount
          \/ serviceAccount' = Write(serviceAccount, wanted)
      BY <1>11 DEF PrepareServiceAccount
    <3>2. Versions(serviceAccount, Accounts) /\ Versions(Write(serviceAccount, wanted), Accounts)
      BY <1>0, <2>1, Written DEF Views
    <3>3. Versions(serviceAccount, Accounts)'
      BY <3>1, <3>2 DEF Versions
    <3> QED
      BY <1>0, <1>11, <3>3 DEF PrepareServiceAccount, Views, Versions
  <2> QED
    BY <2>2, <2>3, <2>4, <2>5
<1>12. CASE Resolve
  <2>1. revision' \in Revision
    <3>1. spec \in Sources
      BY <1>0, <1>12 DEF Plain, Resolve, Answer
    <3>2. spec.kind \in {"sha", "branch", "pull"} /\ spec.sha \in Revision
      BY <3>1, SourceAssumption
    <3> QED
      BY <1>0, <1>12, <3>2 DEF Resolve, Answer, Plain
  <2>2. Flags'
    BY <1>0, <1>12, Zenon DEF Resolve, objects, queue, cleanup, budget, Flags
  <2>3. Plain'
    <3>1. /\ pc = "github" /\ pc' \in {"pull", "list"}
          /\ UNCHANGED <<github, uid, spec, latestImage, resolved, doomed, edits, faults>>
      BY <1>12 DEF Resolve, cleanup, budget
    <3> QED
      BY <1>0, <2>1, <3>1 DEF Plain, Revisions
  <2>4. GitHub'
    BY <1>0, <1>12 DEF Resolve, objects, queue, cleanup, budget, GitHub
  <2>5. Views'
    BY <1>0, <1>12, <2>1 DEF Resolve, objects, queue, cleanup, budget, Views, Versions
  <2> QED
    BY <2>2, <2>3, <2>4, <2>5
<1>13. CASE GetPullRequest
  <2>1. Flags'
    BY <1>0, <1>13, Zenon DEF GetPullRequest, objects, queue, cleanup, budget, GitHub, Flags
  <2>2. Plain'
    BY <1>0, <1>13 DEF GetPullRequest, objects, queue, cleanup, budget, GitHub, Plain
  <2>3. GitHub'
    BY <1>0, <1>13 DEF GetPullRequest, objects, queue, cleanup, budget, GitHub, GitHub
  <2>4. Views'
    BY <1>0, <1>13 DEF GetPullRequest, objects, queue, cleanup, budget, GitHub, Views, Versions
  <2> QED
    BY <2>1, <2>2, <2>3, <2>4
<1>14. CASE ListOldImages
  <2>1. Flags'
    BY <1>0, <1>14, Zenon DEF ListOldImages, objects, queue, budget, Flags
  <2>2. Plain'
    BY <1>0, <1>14 DEF ListOldImages, objects, queue, budget, Plain
  <2>3. GitHub'
    BY <1>0, <1>14 DEF ListOldImages, objects, queue, budget, GitHub
  <2>4. Views'
    BY <1>0, <1>14 DEF ListOldImages, objects, queue, budget, Views, Versions
  <2> QED
    BY <2>1, <2>2, <2>3, <2>4
<1>15. ASSUME NEW n \in Name, DeleteOldImage(n) PROVE Flags' /\ Plain' /\ GitHub' /\ Views'
  <2>1. Flags'
    BY <1>0, <1>15, Zenon DEF DeleteOldImage, SpendFault, queue, budget, Flags
  <2>2. Plain'
    BY <1>0, <1>15 DEF DeleteOldImage, SpendFault, queue, budget, Plain
  <2>3. GitHub'
    BY <1>0, <1>15 DEF DeleteOldImage, SpendFault, queue, budget, GitHub
  <2>4. Views'
    BY <1>0, <1>15, ImageStored DEF DeleteOldImage, SpendFault, queue, budget, Views, Versions
  <2> QED
    BY <2>1, <2>2, <2>3, <2>4
<1>16. CASE CleanupFails
  <2>1. Flags'
    BY <1>0, <1>16, Zenon DEF CleanupFails, Fail, objects, queue, cleanup, budget, Flags
  <2>2. Plain'
    BY <1>0, <1>16 DEF CleanupFails, Fail, objects, queue, cleanup, budget, Plain
  <2>3. GitHub'
    BY <1>0, <1>16 DEF CleanupFails, Fail, objects, queue, cleanup, budget, GitHub
  <2>4. Views'
    BY <1>0, <1>16 DEF CleanupFails, Fail, objects, queue, cleanup, budget, Views, Versions
  <2> QED
    BY <2>1, <2>2, <2>3, <2>4
<1>17. CASE PrepareImage
  <2>1. Short[revision] \in Name
    BY <1>0, <1>17, ShortNames DEF Plain, PrepareImage
  <2>2. \/ Cached(images)[Short[revision]] = NoObject
        \/ Cached(images)[Short[revision]].built \in Revisions
    BY <1>l, <2>1 DEF Images, Image, Revisions
  <2>3. \/ UNCHANGED images
        \/ \E object \in Image :
             images' = Write(images, [Live(images) EXCEPT ![Short[revision]] = object])
    <3>1. Wanted(Cached(images)[Short[revision]], Live(images)[Short[revision]]) \in Image
      BY <1>0, <1>l, <1>17, <2>1, WantedType DEF Plain, PrepareImage, Images
    <3> QED
      BY <1>17, <3>1 DEF PrepareImage
  <2>4. Flags'
    BY <1>0, <1>17, Zenon DEF PrepareImage, ImageReady, Fail, ReplyLost, SpendFault,
      queue, cleanup, budget, Flags
  <2>5. Plain'
    <3>1. /\ pc = "images" /\ pc' \in {"application", "status", "error"}
          /\ UNCHANGED <<github, uid, spec, revision, doomed>>
          /\ UNCHANGED <<edits, faults>> \/ SpendFault
          /\ \/ UNCHANGED <<latestImage, resolved>>
             \/ /\ resolved' = revision
                /\ latestImage' = IF Cached(images)[Short[revision]] = NoObject THEN NoRevision
                                  ELSE Cached(images)[Short[revision]].built
      BY <1>17 DEF PrepareImage, ImageReady, Fail, ReplyLost, SpendFault, cleanup, budget
    <3>2. latestImage' \in Revisions /\ resolved' \in Revisions
      BY <1>0, <2>2, <3>1 DEF Plain, Revisions
    <3> QED
      BY <1>0, <3>1, <3>2 DEF Plain, SpendFault
  <2>6. GitHub'
    BY <1>0, <1>17 DEF PrepareImage, ImageReady, Fail, ReplyLost, SpendFault,
      queue, cleanup, budget, GitHub
  <2>7. Views'
    BY <1>0, <1>17, <2>1, <2>2, <2>3, ImageStored DEF PrepareImage, ImageReady, Fail, ReplyLost, SpendFault,
      queue, cleanup, budget, Views, Versions
  <2> QED
    BY <2>4, <2>5, <2>6, <2>7
<1>18. CASE UpdateApplication
  <2>1. latestImage \in Deployable
    BY <1>0 DEF Plain, Revisions, Deployable
  <2>2. Flags'
    BY <1>0, <1>18, Zenon DEF UpdateApplication, Deployed, Fail, ReplyLost, SpendFault,
      queue, cleanup, budget, Flags
  <2>3. Plain'
    BY <1>0, <1>18, <2>1 DEF UpdateApplication, Deployed, Fail, ReplyLost, SpendFault,
      queue, cleanup, budget, Plain
  <2>4. GitHub'
    BY <1>0, <1>18 DEF UpdateApplication, Deployed, Fail, ReplyLost, SpendFault,
      queue, cleanup, budget, GitHub
  <2>5. Views'
    <3>1. UNCHANGED application \/ application' = Write(application, latestImage)
      BY <1>18 DEF UpdateApplication
    <3>2. Versions(application, Deployable) /\ Versions(Write(application, latestImage), Deployable)
      BY <1>0, <2>1, Written DEF Views
    <3>3. Versions(application, Deployable)'
      BY <3>1, <3>2 DEF Versions
    <3> QED
      BY <1>0, <1>18, <3>3 DEF UpdateApplication, Views, Versions
  <2> QED
    BY <2>2, <2>3, <2>4, <2>5
<1>19. CASE UpdateStatus
  <2>1. Flags'
    BY <1>0, <1>19, Zenon DEF UpdateStatus, Forget, Fail, SpendFault, queue, cleanup, budget, Flags
  <2>2. Plain'
    <3>1. /\ pc = "status" /\ UNCHANGED <<github, resolved>>
          /\ UNCHANGED <<edits, faults>> \/ SpendFault
          /\ \/ /\ pc' = "idle" /\ uid' = NoObject /\ spec' = NoObject /\ revision' = NoRevision
                /\ doomed' = {} /\ latestImage' = NoRevision
             \/ pc' = "error" /\ UNCHANGED <<uid, spec, revision, doomed, latestImage>>
      BY <1>19, Zenon DEF UpdateStatus, Forget, Fail, cleanup, budget
    <3> QED
      BY <1>0, <3>1 DEF SpendFault, Plain, Revisions
  <2>3. GitHub'
    BY <1>0, <1>19 DEF UpdateStatus, Forget, Fail, SpendFault, queue, cleanup, budget, GitHub
  <2>4. Views'
    BY <1>0, <1>19, MessageStored, StatusMessages DEF UpdateStatus, Forget, Fail, SpendFault, queue, cleanup, budget, Views, Versions
  <2> QED
    BY <2>1, <2>2, <2>3, <2>4
<1>20. CASE StoreError
  <2>1. Flags'
    BY <1>0, <1>20, Zenon DEF StoreError, Forget, SpendFault, budget, Flags
  <2>2. Plain'
    <3>1. /\ UNCHANGED <<github, resolved>>
          /\ UNCHANGED <<edits, faults>> \/ SpendFault
          /\ pc' = "idle" /\ uid' = NoObject /\ spec' = NoObject /\ revision' = NoRevision
          /\ doomed' = {} /\ latestImage' = NoRevision
      BY <1>20, Zenon DEF StoreError, Forget, cleanup, budget
    <3> QED
      BY <1>0, <3>1 DEF SpendFault, Plain, Revisions
  <2>3. GitHub'
    BY <1>0, <1>20 DEF StoreError, Forget, SpendFault, budget, GitHub
  <2>4. Views'
    BY <1>0, <1>20, MessageStored, StatusMessages DEF StoreError, Forget, SpendFault, budget, Views, Versions
  <2> QED
    BY <2>1, <2>2, <2>3, <2>4
<1>21. CASE CallFails
  <2>1. Flags'
    BY <1>0, <1>21, Zenon DEF CallFails, Fail, SpendFault, objects, queue, cleanup, Flags
  <2>2. Plain'
    BY <1>0, <1>21 DEF CallFails, Fail, SpendFault, objects, queue, cleanup, Plain
  <2>3. GitHub'
    BY <1>0, <1>21 DEF CallFails, Fail, SpendFault, objects, queue, cleanup, GitHub
  <2>4. Views'
    BY <1>0, <1>21 DEF CallFails, Fail, SpendFault, objects, queue, cleanup, Views, Versions
  <2> QED
    BY <2>1, <2>2, <2>3, <2>4
<1>22. CASE Restart
  <2>1. Flags'
    BY <1>0, <1>22, Zenon DEF Restart, Forget, SpendFault, Flags
  <2>2. Plain'
    <3>1. /\ UNCHANGED <<github, resolved>>
          /\ UNCHANGED <<edits, faults>> \/ SpendFault
          /\ pc' = "idle" /\ uid' = NoObject /\ spec' = NoObject /\ revision' = NoRevision
          /\ doomed' = {} /\ latestImage' = NoRevision
      BY <1>22, Zenon DEF Restart, Forget, cleanup, budget
    <3> QED
      BY <1>0, <3>1 DEF SpendFault, Plain, Revisions
  <2>3. GitHub'
    BY <1>0, <1>22 DEF Restart, Forget, SpendFault, GitHub
  <2>4. Views'
    BY <1>0, <1>22, <1>l, Refilled DEF Restart, Forget, SpendFault, Views, Versions
  <2> QED
    BY <2>1, <2>2, <2>3, <2>4
<1>23. CASE UNCHANGED vars
  <2>1. Flags'
    BY <1>0, <1>23, Zenon DEF vars, objects, queue, locals, cleanup, budget, Flags
  <2>2. Plain'
    BY <1>0, <1>23 DEF vars, objects, queue, locals, cleanup, budget, Plain
  <2>3. GitHub'
    BY <1>0, <1>23 DEF vars, objects, queue, locals, cleanup, budget, GitHub
  <2>4. Views'
    BY <1>0, <1>23 DEF vars, objects, queue, locals, cleanup, budget, Views, Versions
  <2> QED
    BY <2>1, <2>2, <2>3, <2>4
<1> QED
  BY <1>1, <1>2, <1>3, <1>4, <1>4d, <1>4r, <1>4a, <1>4i, <1>5, <1>5d, <1>6, <1>7, <1>8, <1>9,
     <1>10, <1>11, <1>12, <1>13, <1>14, <1>15, <1>16, <1>17, <1>18, <1>19, <1>20, <1>21, <1>22,
     <1>23
  DEF Next, Worker

\* Type correctness holds in every reachable state.
THEOREM TypeCorrect == Spec => []TypeOK
<1>1. Init => TypeOK
  BY InitTypes
<1>2. TypeOK /\ [Next]_vars => TypeOK'
  BY NextTypes
<1> QED
  BY <1>1, <1>2, PTL DEF Spec

-----------------------------------------------------------------------------
(* The invariant                                                           *)

\* Steps of others: they queue the key or put a new version behind the cached
\* one.
LEMMA EnvironmentKeeps ==
  ASSUME IInv, TypeOK', UNCHANGED <<pc, uid, spec, revision, doomed, failed, resolved>>,
         \/ dirty'
         \/ /\ dirty' = dirty /\ retry' = retry
            /\ Grows(remoteSync, remoteSync')
            /\ Grows(serviceAccount, serviceAccount')
            /\ Grows(images, images')
  PROVE  IInv'
<1>1. CASE dirty'
  BY <1>1 DEF IInv, ReadInv, AccountInv, ImagesInv, AtRest
<1>2. CASE /\ dirty' = dirty /\ retry' = retry
           /\ Grows(remoteSync, remoteSync')
           /\ Grows(serviceAccount, serviceAccount')
           /\ Grows(images, images')
  <2>1. ReadInv'
    BY <1>2 DEF IInv, ReadInv, Grows, Cached
  <2>2. AccountInv'
    <3>1. CASE UpToDate(serviceAccount')
      <4>1. UNCHANGED <<pc, dirty, serviceAccount, spec>>
        BY <1>2, <3>1 DEF Grows
      <4> QED
        BY <4>1 DEF IInv, AccountInv, HasSecrets, UpToDate, Cached
    <3>2. CASE ~UpToDate(serviceAccount')
      BY <3>2 DEF AccountInv, UpToDate
    <3> QED
      BY <3>1, <3>2
  <2>3. ImagesInv'
    <3>1. CASE UpToDate(images')
      <4>1. UNCHANGED <<pc, dirty, images, doomed, failed, revision, uid>>
        BY <1>2, <3>1 DEF Grows
      <4> QED
        BY <4>1 DEF IInv, ImagesInv, OnlyImage, UpToDate, Cached
    <3>2. CASE ~UpToDate(images')
      BY <3>2 DEF ImagesInv, UpToDate
    <3> QED
      BY <3>1, <3>2
  <2>4. (AtRest /\ Live(remoteSync).alive => Settled)'
    <3>1. CASE UpToDate(remoteSync') /\ UpToDate(serviceAccount') /\ UpToDate(images')
      <4>1. UNCHANGED <<pc, dirty, retry, remoteSync, serviceAccount, images, resolved>>
        BY <1>2, <3>1 DEF Grows
      <4> QED
        BY <4>1 DEF IInv, AtRest, Settled, OnlyImage, UpToDate, Live
    <3>2. CASE ~(UpToDate(remoteSync') /\ UpToDate(serviceAccount') /\ UpToDate(images'))
      BY <3>2 DEF AtRest, UpToDate
    <3> QED
      BY <3>1, <3>2
  <2> QED
    BY <2>1, <2>2, <2>3, <2>4 DEF IInv
<1> QED
  BY <1>1, <1>2

\* Calls that fail.
LEMMA ErrorKeeps ==
  ASSUME IInv, TypeOK', pc # "idle", pc' = "error", dirty' = dirty, uid' = uid, spec' = spec,
         Grows(remoteSync, remoteSync')
  PROVE  IInv'
<1>1. ReadInv'
  BY DEF IInv, ReadInv, Grows, Cached
<1>2. AccountInv' /\ ImagesInv' /\ ~AtRest'
  BY DEF AccountInv, ImagesInv, AtRest
<1> QED
  BY <1>1, <1>2 DEF IInv

\* The ends of a run that are not the end of the work.
LEMMA IdleKeeps ==
  ASSUME TypeOK', pc' = "idle", dirty' \/ retry'
  PROVE  IInv'
BY DEF IInv, ReadInv, AccountInv, ImagesInv, AtRest

\* From one call to the next: only the program counter moves.
LEMMA MovesKeep ==
  ASSUME IInv, TypeOK', pc = "application", pc' = "status",
         UNCHANGED <<remoteSync, serviceAccount, images, dirty, uid, spec, revision, resolved>>
  PROVE  IInv'
<1>1. ReadInv' /\ ~AtRest'
  BY DEF IInv, ReadInv, AtRest, Cached
<1>2. AccountInv'
  BY DEF IInv, AccountInv, HasSecrets, UpToDate, Cached
<1>3. ImagesInv'
  BY DEF IInv, ImagesInv, OnlyImage, UpToDate, Cached
<1> QED
  BY <1>1, <1>2, <1>3 DEF IInv

\* A step of others queues the key, or puts new versions behind the cached ones.
LEMMA EnvironmentGrows ==
  ASSUME TypeOK,
         \/ \E r \in Revision : Push(r)
         \/ ComputeMerge
         \/ \E n \in Name : Build(n) \/ DeleteImage(n) \/ CollectImage(n)
         \/ \E s \in Sources : Edit(s) \/ RecreateRemoteSync(s)
         \/ DeleteRemoteSync \/ CollectServiceAccount
         \/ CreateApplication \/ DeleteApplication \/ DeleteServiceAccount
         \/ Watch \/ Resync \/ RetryTimer \/ UNCHANGED vars
  PROVE  /\ UNCHANGED <<pc, uid, spec, revision, pending, doomed, failed, latestImage, resolved>>
         /\ \/ dirty'
            \/ /\ dirty' = dirty /\ retry' = retry
               /\ Grows(remoteSync, remoteSync')
               /\ Grows(serviceAccount, serviceAccount')
               /\ Grows(images, images')
<1> DEFINE Waits ==
      /\ UNCHANGED <<pc, uid, spec, revision, pending, doomed, failed, latestImage, resolved>>
      /\ \/ dirty'
         \/ /\ dirty' = dirty /\ retry' = retry
            /\ Grows(remoteSync, remoteSync')
            /\ Grows(serviceAccount, serviceAccount')
            /\ Grows(images, images')
<1> SUFFICES Waits
  OBVIOUS
<1>0. Views
  BY TypeParts
<1>w. /\ \A object : Grows(remoteSync, Write(remoteSync, object))
      /\ \A object : Grows(serviceAccount, Write(serviceAccount, object))
      /\ \A object : Grows(images, Write(images, object))
  BY <1>0, WriteGrows DEF Views
<1>s. /\ Grows(remoteSync, remoteSync)
      /\ Grows(serviceAccount, serviceAccount)
      /\ Grows(images, images)
  BY Stays
<1>1. ASSUME NEW r \in Revision, Push(r) PROVE Waits
  BY <1>1, <1>s DEF Push, objects, queue, locals, cleanup
<1>2. CASE ComputeMerge
  BY <1>2, <1>s DEF ComputeMerge, objects, queue, locals, cleanup
<1>3. ASSUME NEW n \in Name, Build(n) \/ DeleteImage(n) \/ CollectImage(n) PROVE Waits
  BY <1>3, <1>w, <1>s
  DEF Build, DeleteImage, CollectImage, queue, locals, cleanup
<1>4. ASSUME NEW s \in Sources, Edit(s) PROVE Waits
  <2>1. [Live(remoteSync) EXCEPT !.spec = s] \in RemoteSync
    BY <1>0, Ends DEF Views, RemoteSync
  <2>2. Grows(remoteSync, remoteSync')
    BY <1>0, <1>4, <2>1, Appended DEF Edit, Views
  <2> QED
    BY <1>4, <1>s, <2>2 DEF Edit, queue, cleanup
<1>4d. CASE DeleteRemoteSync
  <2>1. [Live(remoteSync) EXCEPT !.alive = FALSE] \in RemoteSync
    BY <1>0, Ends DEF Views, RemoteSync
  <2>2. Grows(remoteSync, remoteSync')
    BY <1>0, <1>4d, <2>1, Appended DEF DeleteRemoteSync, Views
  <2> QED
    BY <1>4d, <1>s, <2>2 DEF DeleteRemoteSync, queue, cleanup
<1>4r. ASSUME NEW s \in Sources, RecreateRemoteSync(s) PROVE Waits
  <2>0. Live(remoteSync) \in RemoteSync
    BY <1>0, Ends DEF Views
  <2>1. NewRemoteSync(Live(remoteSync).uid + 1, s) \in RemoteSync
    BY <2>0, <1>4r, NextRemoteSyncType DEF RecreateRemoteSync
  <2>2. Grows(remoteSync, remoteSync')
    BY <1>0, <1>4r, <2>1, Appended DEF RecreateRemoteSync, Views
  <2> QED
    BY <1>4r, <1>s, <2>2 DEF RecreateRemoteSync, queue, locals, cleanup
<1>5. CASE CreateApplication \/ DeleteApplication
  BY <1>5, <1>s
  DEF CreateApplication, DeleteApplication, queue, locals, cleanup
<1>6. CASE DeleteServiceAccount \/ CollectServiceAccount
  BY <1>6, <1>w, <1>s
  DEF DeleteServiceAccount, CollectServiceAccount, queue, locals, cleanup
<1>7. CASE WatchApplication
  BY <1>7, <1>s DEF WatchApplication, queue, locals, cleanup
<1>8. CASE WatchRemoteSync \/ WatchServiceAccount \/ WatchImages \/ Resync \/ RetryTimer
  BY <1>8
  DEF WatchRemoteSync, WatchServiceAccount, WatchImages, Resync, RetryTimer, locals, cleanup
<1>9. CASE UNCHANGED vars
  BY <1>9, <1>s DEF vars, objects, queue, locals, cleanup
<1> QED
  BY <1>1, <1>2, <1>3, <1>4, <1>4d, <1>4r, <1>5, <1>6, <1>7, <1>8, <1>9 DEF Watch

\* Every step of the environment keeps the invariant.
LEMMA EnvironmentSteps ==
  ASSUME IInv, TypeOK',
         \/ \E r \in Revision : Push(r)
         \/ ComputeMerge
         \/ \E n \in Name : Build(n) \/ DeleteImage(n) \/ CollectImage(n)
         \/ \E s \in Sources : Edit(s) \/ RecreateRemoteSync(s)
         \/ DeleteRemoteSync \/ CollectServiceAccount
         \/ CreateApplication \/ DeleteApplication \/ DeleteServiceAccount
         \/ Watch \/ Resync \/ RetryTimer \/ UNCHANGED vars
  PROVE  IInv'
BY EnvironmentGrows, EnvironmentKeeps DEF IInv

\* Every step of the worker keeps the invariant.
LEMMA WorkerSteps ==
  ASSUME IInv, TypeOK', Worker \/ CallFails \/ Restart
  PROVE  IInv'
<1>0. TypeOK /\ Views /\ Flags /\ Plain
  BY TypeParts DEF IInv
<1>w. /\ \A object : /\ Grows(serviceAccount, Write(serviceAccount, object))
                     /\ UpToDate(Write(serviceAccount, object)) => Live(serviceAccount) = object
      /\ \A object : /\ Grows(images, Write(images, object))
                     /\ UpToDate(Write(images, object)) => Live(images) = object
  BY <1>0, WriteGrows DEF Views
<1>s. Grows(remoteSync, remoteSync)
  BY Stays
<1>e. /\ Live(images) \in Images /\ Cached(images) \in Images
      /\ UpToDate(remoteSync) => Cached(remoteSync) = Live(remoteSync)
      /\ UpToDate(serviceAccount) => Cached(serviceAccount) = Live(serviceAccount)
      /\ UpToDate(images) => Cached(images) = Live(images)
  BY <1>0, Ends DEF Views
<1>1. CASE Reconcile
  <2>1. CASE Cached(remoteSync).alive
    BY <1>1, <2>1
    DEF Reconcile, objects, IInv, ReadInv, AccountInv, ImagesInv, AtRest, Cached
  <2>2. CASE ~Cached(remoteSync).alive
    <3>1. pc' = "idle" /\ UNCHANGED remoteSync
      BY <1>1, <2>2 DEF Reconcile, objects
    <3>2. UpToDate(remoteSync)' => ~Live(remoteSync)'.alive
      BY <1>e, <2>2, <3>1 DEF UpToDate, Live
    <3> QED
      BY <3>1, <3>2 DEF IInv, ReadInv, AccountInv, ImagesInv, AtRest
  <2> QED
    BY <2>1, <2>2
<1>2. CASE PrepareServiceAccount
  <2> DEFINE wanted == [owner |-> uid, secrets |-> spec.secrets]
  <2>1. CASE Fail /\ UNCHANGED remoteSync
    BY <1>2, <1>s, <2>1, ErrorKeeps DEF Fail, PrepareServiceAccount, queue
  <2>2. CASE AccountReady /\ UNCHANGED remoteSync
    <3>1. ReadInv' /\ ImagesInv' /\ ~AtRest'
      BY <1>2, <2>2
      DEF PrepareServiceAccount, AccountReady, queue, IInv, ReadInv, ImagesInv, AtRest, Cached
    <3>2. AccountInv'
      <4>1. CASE dirty \/ ~UpToDate(serviceAccount')
        BY <2>2, <4>1 DEF AccountReady, queue, AccountInv, UpToDate
      <4>2. CASE ~dirty /\ UpToDate(serviceAccount')
        <5>1. CASE HasSecrets(Cached(serviceAccount)) /\ UNCHANGED serviceAccount
          BY <2>2, <5>1 DEF AccountReady, AccountInv, HasSecrets, Cached
        <5>2. CASE /\ ~HasSecrets(Cached(serviceAccount))
                   /\ serviceAccount' = Write(serviceAccount, wanted)
          <6>1. serviceAccount' = serviceAccount /\ Live(serviceAccount) = wanted
            BY <1>w, <4>2, <5>2 DEF Grows
          <6>2. Cached(serviceAccount) = wanted
            BY <1>e, <4>2, <6>1
          <6>3. wanted # NoObject
            BY <1>0, <1>2, SourceAssumption, ObjectAssumption
            DEF Plain, PrepareServiceAccount, Account
          <6> QED
            BY <5>2, <6>2, <6>3 DEF HasSecrets
        <5>3. \/ HasSecrets(Cached(serviceAccount)) /\ UNCHANGED serviceAccount
              \/ /\ ~HasSecrets(Cached(serviceAccount))
                 /\ serviceAccount' = Write(serviceAccount, wanted)
              \/ Fail
          BY <1>2 DEF PrepareServiceAccount
        <5>4. ~Fail
          BY <1>2, <2>2 DEF AccountReady, Fail, PrepareServiceAccount
        <5> QED
          BY <5>1, <5>2, <5>3, <5>4
      <4> QED
        BY <4>1, <4>2
    <3> QED
      BY <3>1, <3>2 DEF IInv
  <2> QED
    BY <1>2, <2>1, <2>2 DEF PrepareServiceAccount, ReplyLost
<1>3. CASE Resolve
  <2>1. spec.kind = "sha" => revision' = spec.sha
    BY <1>3 DEF Resolve, Answer
  <2>2. ReadInv' /\ ImagesInv' /\ ~AtRest'
    BY <1>3, <2>1
    DEF Resolve, objects, queue, IInv, ReadInv, ImagesInv, AtRest, Cached
  <2>3. AccountInv'
    BY <1>3 DEF Resolve, objects, queue, IInv, AccountInv, HasSecrets, UpToDate, Cached
  <2> QED
    BY <2>2, <2>3 DEF IInv
<1>4. CASE GetPullRequest
  <2>1. ReadInv' /\ ImagesInv' /\ ~AtRest'
    BY <1>4
    DEF GetPullRequest, objects, queue, IInv, ReadInv, ImagesInv, AtRest, Cached
  <2>2. AccountInv'
    BY <1>4 DEF GetPullRequest, objects, queue, IInv, AccountInv, HasSecrets, UpToDate, Cached
  <2> QED
    BY <2>1, <2>2 DEF IInv
<1>5. CASE ListOldImages
  <2>1. ReadInv' /\ ~AtRest'
    BY <1>5 DEF ListOldImages, objects, queue, IInv, ReadInv, AtRest, Cached
  <2>2. ImagesInv'
    BY <1>5 DEF ListOldImages, objects, queue, ImagesInv, Cached
  <2>3. AccountInv'
    BY <1>5 DEF ListOldImages, objects, queue, IInv, AccountInv, HasSecrets, UpToDate, Cached
  <2> QED
    BY <2>1, <2>2, <2>3 DEF IInv
<1>6. ASSUME NEW n \in Name, DeleteOldImage(n) PROVE IInv'
  <2>1. ReadInv' /\ ~AtRest'
    BY <1>6 DEF DeleteOldImage, queue, IInv, ReadInv, AtRest, Cached
  <2>2. AccountInv'
    BY <1>6 DEF DeleteOldImage, queue, IInv, AccountInv, HasSecrets, UpToDate, Cached
  <2>3. ImagesInv'
    <3>1. CASE dirty \/ ~UpToDate(images')
      BY <1>6, <3>1 DEF DeleteOldImage, queue, ImagesInv, UpToDate
    <3>2. CASE ~dirty /\ UpToDate(images')
      <4>1. CASE failed'
        BY <1>6, <4>1 DEF DeleteOldImage, ImagesInv
      <4>2. CASE ~failed'
        <5>1. /\ Live(images)[n] # NoObject
              /\ images' = Write(images, [Live(images) EXCEPT ![n] = NoObject])
          BY <1>6, <4>2 DEF DeleteOldImage
        <5>2. Live(images) = [Live(images) EXCEPT ![n] = NoObject]
          BY <1>w, <3>2, <5>1
        <5>3. Live(images)[n] = NoObject
          BY <1>e, <5>2 DEF Images
        <5> QED
          BY <5>1, <5>3
      <4> QED
        BY <4>1, <4>2
    <3> QED
      BY <3>1, <3>2
  <2> QED
    BY <2>1, <2>2, <2>3 DEF IInv
<1>7. CASE CleanupFails
  BY <1>7, <1>s, ErrorKeeps DEF CleanupFails, Fail, objects, queue
<1>8. CASE PrepareImage
  <2> DEFINE n == Short[revision]
             cached == Cached(images)[n]
             live == Live(images)[n]
             wanted == Wanted(cached, live)
  <2>0. n \in Name /\ revision \in Revision
    BY <1>0, <1>8, ShortNames DEF Plain, PrepareImage
  <2>1. CASE Fail /\ UNCHANGED remoteSync
    BY <1>8, <1>s, <2>1, ErrorKeeps DEF Fail, PrepareImage, queue
  <2>2. CASE ImageReady(cached) /\ UNCHANGED remoteSync
    <3>0. /\ pc' \in {"application", "status"} /\ resolved' = revision
          /\ UNCHANGED <<queue, uid, spec, revision, doomed, failed, remoteSync,
                         serviceAccount>>
          /\ pc = "images" /\ doomed = {} /\ ~failed
      BY <1>8, <2>2 DEF PrepareImage, ImageReady, cleanup
    <3>1. ReadInv' /\ ~AtRest'
      BY <2>0, <3>0 DEF queue, IInv, ReadInv, AtRest, Cached
    <3>2. AccountInv'
      BY <3>0 DEF queue, IInv, AccountInv, HasSecrets, UpToDate, Cached
    <3>3. ImagesInv'
      <4>1. CASE dirty \/ ~UpToDate(images')
        BY <3>0, <4>1 DEF queue, ImagesInv, UpToDate
      <4>2. CASE ~dirty /\ UpToDate(images')
        <5>1. /\ images' = images /\ cached # NoObject
              /\ cached.revision = revision /\ cached.owner = uid
          <6>1. CASE /\ cached # NoObject /\ cached.owner = uid /\ cached.revision = revision
                     /\ UNCHANGED images
            BY <6>1
          <6>2. CASE images' = Write(images, [Live(images) EXCEPT ![n] = wanted])
            <7>1. images' = images /\ Live(images) = [Live(images) EXCEPT ![n] = wanted]
              BY <1>w, <4>2, <6>2 DEF Grows
            <7>2. Live(images)[n] = wanted
              BY <1>e, <2>0, <7>1 DEF Images
            <7>3. cached = live /\ live = wanted /\ live \in Image \union {NoObject}
              BY <1>e, <2>0, <4>2, <7>1, <7>2 DEF Images
            <7>4. wanted \in Image /\ wanted.owner = uid /\ wanted.revision = revision
              BY <1>0, <2>0, <3>0, <7>3, WantedType DEF Plain
            <7> QED
              BY <7>1, <7>3, <7>4, ObjectAssumption
          <6>3. \/ /\ cached # NoObject /\ cached.owner = uid /\ cached.revision = revision
                   /\ UNCHANGED images
                \/ images' = Write(images, [Live(images) EXCEPT ![n] = wanted])
                \/ Fail
            BY <1>8 DEF PrepareImage
          <6>4. ~Fail
            BY <3>0 DEF Fail
          <6> QED
            BY <6>1, <6>2, <6>3, <6>4
        <5>2. {m \in Name : Cached(images)[m] # NoObject} \subseteq {n}
          BY <3>0, <4>2, <5>1 DEF IInv, ImagesInv
        <5>3. OnlyImage(Cached(images), revision, uid)
          BY <2>0, <5>1, <5>2 DEF OnlyImage
        <5> QED
          BY <3>0, <5>1, <5>3 DEF ImagesInv, OnlyImage, Cached
      <4> QED
        BY <4>1, <4>2
    <3> QED
      BY <3>1, <3>2, <3>3 DEF IInv
  <2> QED
    BY <1>8, <2>1, <2>2 DEF PrepareImage, ReplyLost
<1>9. CASE UpdateApplication
  <2>1. CASE Fail
    <3>1. CASE pending
      BY <1>9, <2>1, <3>1, MovesKeep DEF UpdateApplication, Fail, queue
    <3>2. CASE ~pending
      BY <1>9, <1>s, <2>1, <3>2, ErrorKeeps DEF UpdateApplication, Fail, queue
    <3> QED
      BY <3>1, <3>2
  <2>2. CASE Deployed
    BY <1>9, <2>2, MovesKeep DEF UpdateApplication, Deployed, queue
  <2> QED
    BY <1>9, <2>1, <2>2 DEF UpdateApplication, ReplyLost
<1>10. CASE UpdateStatus
  <2>1. /\ Grows(remoteSync, remoteSync')
        /\ fresh /\ UpToDate(remoteSync') =>
             /\ remoteSync' = remoteSync
             /\ Live(remoteSync).message = IF pending THEN "merge status is pending" ELSE ""
    BY <1>0, <1>10, MessageStored, StatusMessages DEF UpdateStatus, Views, UpToDate
  <2>2. CASE pc' = "error" /\ UNCHANGED <<dirty, uid, spec>>
    BY <1>10, <2>1, <2>2, ErrorKeeps DEF UpdateStatus
  <2>3. CASE fresh /\ Forget /\ retry' = (retry \/ pending) /\ UNCHANGED dirty
    <3>1. pc' = "idle"
      BY <2>3 DEF Forget
    <3>2. (AtRest /\ Live(remoteSync).alive => Settled)'
      <4>1. CASE AtRest'
        <5>1. ~retry'
          BY <4>1 DEF AtRest
        <5>2. ~pending
          BY <2>3, <5>1
        <5>3. /\ ~dirty /\ pc = "status"
              /\ remoteSync' = remoteSync /\ Live(remoteSync).message = ""
              /\ UNCHANGED <<serviceAccount, images, resolved>>
              /\ UpToDate(remoteSync) /\ UpToDate(serviceAccount) /\ UpToDate(images)
          BY <1>10, <2>1, <2>3, <4>1, <5>2 DEF UpdateStatus, AtRest, UpToDate
        <5>4. /\ spec = Live(remoteSync).spec /\ uid = Live(remoteSync).uid
              /\ spec.kind = "sha" => resolved = spec.sha
              /\ resolved \in Revision
              /\ HasSecrets(Live(serviceAccount))
              /\ OnlyImage(Live(images), resolved, uid)
          BY <1>e, <5>3 DEF IInv, ReadInv, AccountInv, ImagesInv
        <5>5. Settled
          BY <5>3, <5>4 DEF Settled, HasSecrets
        <5> QED
          BY <5>3, <5>5 DEF Settled, OnlyImage, Live
      <4> QED
        BY <4>1
    <3> QED
      BY <3>1, <3>2 DEF IInv, ReadInv, AccountInv, ImagesInv
  <2> QED
    BY <1>10, <2>2, <2>3 DEF UpdateStatus, Fail, queue
<1>11. CASE StoreError
  BY <1>11, IdleKeeps DEF StoreError, Forget
<1>12. CASE CallFails
  <2>1. CASE pc = "application" /\ pending
    BY <1>12, <2>1, MovesKeep DEF CallFails, Fail, objects, queue
  <2>2. CASE ~(pc = "application" /\ pending)
    BY <1>12, <1>s, <2>2, ErrorKeeps DEF CallFails, Fail, objects, queue
  <2> QED
    BY <2>1, <2>2
<1>13. CASE Restart
  BY <1>13, IdleKeeps DEF Restart, Forget
<1> QED
  BY <1>1, <1>2, <1>3, <1>4, <1>5, <1>6, <1>7, <1>8, <1>9, <1>10, <1>11, <1>12, <1>13
  DEF Worker

\* In every reachable state the invariant holds.
THEOREM InvariantHolds == Spec => []IInv
<1>1. Init => IInv
  BY InitTypes DEF Init, IInv, ReadInv, AccountInv, ImagesInv, AtRest
<1>2. IInv /\ [Next]_vars => IInv'
  <2> SUFFICES ASSUME IInv, [Next]_vars PROVE IInv'
    OBVIOUS
  <2>1. TypeOK'
    BY NextTypes DEF IInv
  <2> QED
    BY <2>1, EnvironmentSteps, WorkerSteps DEF Next
<1> QED
  BY <1>1, <1>2, PTL DEF Spec

\* At rest, the account and the Images are those of the live RemoteSync.
THEOREM ObjectsAreSettled == Spec => []ObjectsSettle
<1>1. IInv => ObjectsSettle
  BY DEF IInv, ObjectsSettle, Quiet
<1> QED
  BY <1>1, InvariantHolds, PTL
=============================================================================
