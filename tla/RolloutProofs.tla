---------------------------- MODULE RolloutProofs ----------------------------
(***************************************************************************)
(* What RemoteSyncReconciler does to the Application, for every set of     *)
(* specs and revisions and every number of RemoteSyncs, edits and faults,  *)
(* as long as the revisions have one order (Linear): the image is never    *)
(* taken back, the controller implements Rollout, and what kpack has built *)
(* is deployed when the controller is at rest.                             *)
(*                                                                         *)
(* The order is carried from GitHub to the Application: what GitHub names  *)
(* only grows, an Image never changes its revision, and Run takes a        *)
(* revision that is no older than any it has deployed before.              *)
(***************************************************************************)
EXTENDS RemoteSyncProofs

Working == {"pull", "list", "images", "application"}

\* The parts of OrderInv that take a proof of their own.
ImagesOrdered ==
  \A objs \in Held(images), n \in Name : objs[n] # NoObject => ImageOf(objs[n], n)

WorkOrdered == pc \in Working => revision <= Named /\ Reached(revision)

BuildTaken == pc = "application" => latestImage = revision

LEMMA OrderParts ==
  /\ OrderInv <=> /\ github.merge <= github.head
                  /\ ImagesOrdered /\ Reached(Named) /\ WorkOrdered /\ BuildTaken
  /\ OrderInv' <=> /\ github'.merge <= github'.head
                   /\ ImagesOrdered' /\ Reached(Named)' /\ WorkOrdered' /\ BuildTaken'
BY DEF OrderInv, ImagesOrdered, WorkOrdered, BuildTaken, Working

-----------------------------------------------------------------------------
(* What GitHub names                                                       *)

\* Revisions are integers.
LEMMA RevisionOrder == Revision \subseteq Int
BY SourceAssumption DEF Revision

\* All specs stand for the same revision.
LEMMA NamedByAll ==
  ASSUME Linear, TypeOK
  PROVE  Named \in Revision /\ \A s \in Sources : Answer(s) = Named
<1>1. Live(remoteSync).spec \in Sources
  <2>1. Live(remoteSync) \in RemoteSync
    BY TypeParts, Ends DEF Views
  <2> QED
    BY <2>1 DEF RemoteSync
<1>2. github.head \in Revision /\ github.merge \in Revision
  BY TypeParts DEF Plain
<1>3. \A s \in Sources : s.kind \in {"sha", "branch", "pull"} /\ s.sha \in Revision
  BY SourceAssumption
<1> DEFINE s == Live(remoteSync).spec
<1>4. Answer(s) \in Revision
  BY <1>1, <1>2, <1>3 DEF Answer
<1>5. ASSUME NEW t \in Sources PROVE Answer(t) = Answer(s)
  <2>1. t.kind = s.kind /\ (t.kind = "sha" => t.sha = s.sha)
    BY <1>1 DEF Linear
  <2>2. t.kind \in {"sha", "branch", "pull"}
    BY <1>3
  <2> QED
    BY <2>1, <2>2 DEF Answer
<1> QED
  BY <1>4, <1>5 DEF Named

\* GitHub answers otherwise only after a push or with a new test merge.
LEMMA GitHubChange ==
  ASSUME [Next]_vars
  PROVE  UNCHANGED github \/ (\E r \in Revision : Push(r)) \/ ComputeMerge
<1>1. CASE \/ \E n \in Name : Build(n) \/ CollectImage(n) \/ DeleteImage(n)
           \/ \E s \in Sources : Edit(s) \/ RecreateRemoteSync(s)
           \/ DeleteRemoteSync \/ CollectServiceAccount \/ CreateApplication
           \/ DeleteApplication \/ DeleteServiceAccount
  BY <1>1
  DEF Build, CollectImage, DeleteImage, Edit, RecreateRemoteSync, DeleteRemoteSync,
      CollectServiceAccount, CreateApplication, DeleteApplication, DeleteServiceAccount
<1>2. CASE Watch \/ Resync \/ RetryTimer \/ CallFails \/ Restart \/ UNCHANGED vars
  BY <1>2
  DEF Watch, WatchRemoteSync, WatchServiceAccount, WatchImages, WatchApplication,
      Resync, RetryTimer, CallFails, Restart, vars
<1>3. CASE Worker
  BY <1>3
  DEF Worker, Reconcile, PrepareServiceAccount, Resolve, GetPullRequest,
      ListOldImages, DeleteOldImage, CleanupFails, PrepareImage,
      UpdateApplication, UpdateStatus, StoreError
<1> QED
  BY <1>1, <1>2, <1>3 DEF Next

\* What GitHub names is never older than what it named before.
LEMMA NamedGrows ==
  ASSUME Linear, TypeOK, TypeOK', github.merge <= github.head, [Next]_vars
  PROVE  /\ Named \in Revision /\ Named' \in Revision /\ Named <= Named'
         /\ github'.merge <= github'.head
<1>1. Live(remoteSync).spec \in Sources /\ Live(remoteSync)'.spec \in Sources
  <2>1. Live(remoteSync) \in RemoteSync
    BY TypeParts, Ends DEF Views
  <2>2. Versions(remoteSync', RemoteSync)
    BY TypeParts DEF Views, Versions
  <2>3. Live(remoteSync') \in RemoteSync
    BY <2>2, Ends
  <2> QED
    BY <2>1, <2>3 DEF RemoteSync, Live
<1>2. /\ github.head \in Revision /\ github.merge \in Revision
      /\ github'.head \in Revision /\ github'.merge \in Revision
  BY TypeParts DEF Plain
<1>i. /\ github.head \in Int /\ github.merge \in Int
      /\ github'.head \in Int /\ github'.merge \in Int
  BY <1>2, RevisionOrder
<1> DEFINE NoOlder == /\ github.head <= github'.head /\ github.merge <= github'.merge
                      /\ github'.merge <= github'.head
<1>3. NoOlder
  <2>g. github \in [head : Revision, merge : Revision, mergeable : BOOLEAN]
    BY TypeParts DEF GitHub
  <2>1. CASE github' = github
    BY <1>i, <2>1
  <2>2. ASSUME NEW r \in Revision, Push(r) PROVE NoOlder
    <3>1. github'.head = r /\ github'.merge = github.merge /\ r > github.head
      BY <2>2, <2>g DEF Push, Linear
    <3> QED
      BY <1>i, <3>1
  <2>3. CASE ComputeMerge
    <3>1. github'.head = github.head /\ github'.merge = github.head
      BY <2>3, <2>g DEF ComputeMerge
    <3> QED
      BY <1>i, <3>1
  <2> QED
    BY <2>1, <2>2, <2>3, GitHubChange
<1>4. \A s \in Sources : s.kind \in {"sha", "branch", "pull"} /\ s.sha \in Revision
  BY SourceAssumption
<1> DEFINE s == Live(remoteSync).spec
           t == Live(remoteSync)'.spec
<1>5. s.kind = t.kind /\ (s.kind = "sha" => s.sha = t.sha)
  BY <1>1 DEF Linear
<1>6. CASE s.kind = "sha"
  BY <1>1, <1>3, <1>4, <1>5, <1>6, RevisionOrder DEF Named, Answer
<1>7. CASE s.kind = "pull"
  BY <1>1, <1>2, <1>3, <1>5, <1>7 DEF Named, Answer
<1>8. CASE s.kind = "branch"
  BY <1>1, <1>2, <1>3, <1>5, <1>8 DEF Named, Answer
<1> QED
  BY <1>1, <1>3, <1>4, <1>6, <1>7, <1>8

-----------------------------------------------------------------------------
(* Images                                                                  *)

\* The types of what the invariant is about.
LEMMA HeldTypes ==
  ASSUME TypeOK
  PROVE  /\ Held(images) \subseteq Images /\ Cached(images) \in Held(images)
         /\ Live(images) \in Held(images)
         /\ Held(application) \subseteq Deployable /\ Cached(application) \in Held(application)
         /\ Live(application) \in Held(application)
BY TypeParts, HeldEnds DEF Views

\* An Image stays in order when GitHub names a later revision.
LEMMA ImageStays ==
  ASSUME NEW image \in Image, NEW n \in Name, ImageOf(image, n),
         Named \in Revision, Named' \in Revision, Named <= Named'
  PROVE  ImageOf(image, n)'
<1>1. Named \in Int /\ Named' \in Int /\ image.revision \in Int
  BY RevisionOrder DEF Image
<1>2. image.revision <= Named'
  BY <1>1 DEF ImageOf
<1> QED
  BY <1>2 DEF ImageOf

\* An Image that is stored has no other build than the live one.
BuildKept(image, n) ==
  \/ image.built = NoRevision
  \/ Live(images)[n] # NoObject /\ image.built = Live(images)[n].built

\* patchImage leaves an Image of the revision that Run works on.
LEMMA WantedOrdered ==
  ASSUME Linear, TypeOK, OrderInv, pc = "images"
  PROVE  LET n == Short[revision]
             wanted == Wanted(Cached(images)[n], Live(images)[n])
         IN  n \in Name /\ wanted \in Image /\ ImageOf(wanted, n) /\ BuildKept(wanted, n)
<1> DEFINE n == Short[revision]
           cached == Cached(images)[n]
           live == Live(images)[n]
           wanted == Wanted(cached, live)
<1>1. revision \in Revision /\ n \in Name /\ uid \in 1..MaxUid /\ revision <= Named
  BY TypeParts, OrderParts, ShortNames DEF Plain, WorkOrdered, Working
<1>2. cached \in Image \union {NoObject} /\ live \in Image \union {NoObject}
  BY <1>1, HeldTypes DEF Images
<1>3. wanted \in Image
  BY <1>1, <1>2, WantedType
<1>4. ASSUME live = NoObject PROVE ImageOf(wanted, n) /\ BuildKept(wanted, n)
  <2>1. wanted = [owner |-> uid, revision |-> revision, built |-> NoRevision]
    BY <1>4 DEF Wanted
  <2> QED
    BY <1>1, <2>1 DEF ImageOf, BuildKept
<1>5. ASSUME live # NoObject PROVE ImageOf(wanted, n) /\ BuildKept(wanted, n)
  <2>1. live \in Image /\ ImageOf(live, n)
    BY <1>1, <1>2, <1>5, HeldTypes, OrderParts DEF ImagesOrdered
  <2>2. live.revision = revision
    BY <1>1, <2>1 DEF Linear, ImageOf, Image
  <2>3. wanted = [live EXCEPT !.owner = uid, !.revision = revision]
    BY <1>5, <2>2 DEF Wanted
  <2>4. wanted.revision = revision /\ wanted.built = live.built
    BY <2>1, <2>3 DEF Image
  <2> QED
    BY <1>1, <1>5, <2>1, <2>2, <2>4 DEF ImageOf, BuildKept
<1> QED
  BY <1>1, <1>3, <1>4, <1>5

\* A step stores at most one new version of the Images, which differs from
\* the live one in one Image that is in order, or gone.
LEMMA ImagesChange ==
  ASSUME Linear, TypeOK, OrderInv, [Next]_vars
  PROVE  \/ Held(images') \subseteq Held(images)
         \/ \E m \in Name : \E image \in Image \union {NoObject} :
              /\ image # NoObject => ImageOf(image, m) /\ (BuildKept(image, m) \/ Build(m))
              /\ images' = Write(images, [Live(images) EXCEPT ![m] = image])
<1> DEFINE Stored(m, image) ==
             /\ image \in Image \union {NoObject}
             /\ image # NoObject => ImageOf(image, m) /\ (BuildKept(image, m) \/ Build(m))
             /\ images' = Write(images, [Live(images) EXCEPT ![m] = image])
           Kept == Held(images') \subseteq Held(images)
<1> SUFFICES Kept \/ \E m \in Name : \E image : Stored(m, image)
  OBVIOUS
<1>1. ASSUME NEW n \in Name, Build(n) PROVE \E image : Stored(n, image)
  <2> DEFINE image == Live(images)[n]
             builtImage == [image EXCEPT !.built = image.revision]
  <2>1. image \in Image /\ ImageOf(image, n)
    BY <1>1, HeldTypes, OrderParts DEF Build, Images, ImagesOrdered
  <2>2. /\ builtImage \in Image
        /\ builtImage.revision = image.revision /\ builtImage.built = image.revision
    BY <2>1 DEF Image
  <2>3. ImageOf(builtImage, n)
    BY <2>1, <2>2 DEF ImageOf
  <2>4. images' = Write(images, [Live(images) EXCEPT ![n] = builtImage])
    BY <1>1 DEF Build
  <2> QED
    BY <1>1, <2>2, <2>3, <2>4
<1>2. ASSUME NEW n \in Name, DeleteImage(n) \/ CollectImage(n) PROVE Stored(n, NoObject)
  BY <1>2 DEF DeleteImage, CollectImage
<1>3. ASSUME NEW n \in Name, DeleteOldImage(n) PROVE Kept \/ Stored(n, NoObject)
  BY <1>3 DEF DeleteOldImage
<1>4. ASSUME PrepareImage PROVE Kept \/ \E n \in Name : \E image : Stored(n, image)
  <2> DEFINE n == Short[revision]
             wanted == Wanted(Cached(images)[n], Live(images)[n])
  <2>1. n \in Name /\ wanted \in Image /\ ImageOf(wanted, n) /\ BuildKept(wanted, n)
    BY <1>4, WantedOrdered DEF PrepareImage
  <2>2. UNCHANGED images \/ images' = Write(images, [Live(images) EXCEPT ![n] = wanted])
    BY <1>4 DEF PrepareImage
  <2> QED
    BY <2>1, <2>2
<1>5. CASE WatchImages \/ Restart
  <2>1. Versions(images, Images)
    BY TypeParts DEF Views
  <2>2. CASE WatchImages
    BY <2>1, <2>2, HeldDelivered DEF WatchImages
  <2>3. CASE Restart
    BY <2>1, <2>3, HeldRefilled, HeldTypes DEF Restart
  <2> QED
    BY <1>5, <2>2, <2>3
<1>6. CASE \/ \E r \in Revision : Push(r)
           \/ \E s \in Sources : Edit(s) \/ RecreateRemoteSync(s)
           \/ ComputeMerge \/ DeleteRemoteSync \/ CollectServiceAccount
           \/ CreateApplication \/ DeleteApplication \/ DeleteServiceAccount
           \/ WatchRemoteSync \/ WatchServiceAccount \/ WatchApplication
           \/ Resync \/ RetryTimer \/ CallFails \/ UNCHANGED vars
  <2>1. UNCHANGED images
    BY <1>6
    DEF Push, Edit, RecreateRemoteSync, ComputeMerge, DeleteRemoteSync,
        CollectServiceAccount, CreateApplication, DeleteApplication, DeleteServiceAccount,
        WatchRemoteSync, WatchServiceAccount, WatchApplication, Resync, RetryTimer,
        CallFails, vars, objects
  <2> QED
    BY <2>1
<1>7. CASE \/ Reconcile \/ PrepareServiceAccount \/ Resolve \/ GetPullRequest
           \/ ListOldImages \/ CleanupFails \/ UpdateApplication \/ UpdateStatus
           \/ StoreError
  <2>1. UNCHANGED images
    BY <1>7
    DEF Reconcile, PrepareServiceAccount, Resolve, GetPullRequest, ListOldImages,
        CleanupFails, UpdateApplication, UpdateStatus, StoreError, objects
  <2> QED
    BY <2>1
<1> QED
  BY <1>1, <1>2, <1>3, <1>4, <1>5, <1>6, <1>7 DEF Next, Worker, Watch

\* Every step keeps the Images in order.
LEMMA ImagesStep ==
  ASSUME Linear, TypeOK, TypeOK', OrderInv, [Next]_vars
  PROVE  ImagesOrdered'
<1>1. Named \in Revision /\ Named' \in Revision /\ Named <= Named'
  BY NamedGrows, OrderParts
<1>2. ImagesOrdered
  BY OrderParts
<1>3. ASSUME NEW objs \in Images, NEW n \in Name, objs[n] # NoObject, ImageOf(objs[n], n)
      PROVE  ImageOf(objs[n], n)'
  <2>1. objs[n] \in Image
    BY <1>3 DEF Images
  <2> QED
    BY <1>1, <1>3, <2>1, ImageStays
<1>4. CASE Held(images') \subseteq Held(images)
  <2> SUFFICES ASSUME NEW objs \in Held(images'), NEW n \in Name, objs[n] # NoObject
               PROVE  ImageOf(objs[n], n)'
    BY DEF ImagesOrdered
  <2> QED
    BY <1>2, <1>3, <1>4, HeldTypes DEF ImagesOrdered
<1>5. ASSUME NEW m \in Name, NEW image \in Image \union {NoObject},
             image # NoObject => ImageOf(image, m),
             images' = Write(images, [Live(images) EXCEPT ![m] = image])
      PROVE  ImagesOrdered'
  <2> DEFINE stored == [Live(images) EXCEPT ![m] = image]
  <2>1. Live(images) \in Images /\ stored \in Images
    BY HeldTypes DEF Images
  <2>2. Held(images') = Held(images) \union {stored}
    BY <1>5, TypeParts, HeldWritten DEF Views
  <2>3. \A n \in Name : stored[n] # NoObject => ImageOf(stored[n], n)
    BY <1>2, <1>5, <2>1, HeldTypes DEF Images, ImagesOrdered
  <2> HIDE DEF stored
  <2> SUFFICES ASSUME NEW objs \in Held(images'), NEW n \in Name, objs[n] # NoObject
               PROVE  ImageOf(objs[n], n)'
    BY DEF ImagesOrdered
  <2>4. objs \in Images /\ ImageOf(objs[n], n)
    BY <1>2, <2>1, <2>2, <2>3, HeldTypes DEF ImagesOrdered
  <2> QED
    BY <1>3, <2>4
<1> QED
  BY <1>4, <1>5, ImagesChange

-----------------------------------------------------------------------------
(* Run and the Application                                                 *)

\* What a step may do to the Application.
ApplicationKept ==
  Held(application') \subseteq Held(application) /\ Live(application') = Live(application)

ApplicationDeployed ==
  /\ pc = "application" /\ Cached(application) # latestImage
  /\ Live(application) # NoObject
  /\ application' = Write(application, latestImage)
  /\ UNCHANGED <<remoteSync, images, github, latestImage>>

LEMMA ApplicationChange ==
  ASSUME TypeOK, [Next]_vars
  PROVE  \/ ApplicationKept
         \/ CreateApplication
         \/ DeleteApplication
         \/ ApplicationDeployed
<1>1. Versions(application, Deployable)
  BY TypeParts DEF Views
<1>2. CASE WatchApplication \/ Restart
  <2>1. CASE WatchApplication
    BY <1>1, <2>1, Delivered, HeldDelivered DEF WatchApplication, ApplicationKept
  <2>2. CASE Restart
    <3>1. Live(<<Live(application)>>) = Live(application)
      BY HeldTypes, Refilled
    <3> QED
      BY <2>2, <3>1, HeldRefilled, HeldTypes DEF Restart, ApplicationKept
  <2> QED
    BY <1>2, <2>1, <2>2
<1>3. CASE UpdateApplication
  <2>1. CASE UNCHANGED application
    BY <2>1 DEF ApplicationKept
  <2>2. CASE /\ Cached(application) # latestImage /\ Patches(application)
             /\ application' = Write(application, latestImage)
             /\ Deployed \/ Fail
    BY <1>3, <2>2 DEF UpdateApplication, Deployed, Fail, Patches, ApplicationDeployed
  <2> QED
    BY <1>3, <2>1, <2>2 DEF UpdateApplication, ReplyLost
<1>4. CASE \/ \E r \in Revision : Push(r)
           \/ \E s \in Sources : Edit(s) \/ RecreateRemoteSync(s)
           \/ \E n \in Name : Build(n) \/ DeleteImage(n) \/ CollectImage(n)
           \/ ComputeMerge \/ DeleteRemoteSync \/ CollectServiceAccount
           \/ DeleteServiceAccount
           \/ WatchRemoteSync \/ WatchServiceAccount \/ WatchImages
           \/ Resync \/ RetryTimer \/ CallFails \/ UNCHANGED vars
  <2>1. UNCHANGED application
    BY <1>4
    DEF Push, Edit, RecreateRemoteSync, Build, DeleteImage, CollectImage, ComputeMerge,
        DeleteRemoteSync, CollectServiceAccount, DeleteServiceAccount, WatchRemoteSync,
        WatchServiceAccount, WatchImages, Resync, RetryTimer, CallFails, vars, objects
  <2> QED
    BY <2>1 DEF ApplicationKept
<1>5. CASE \/ Reconcile \/ PrepareServiceAccount \/ Resolve \/ GetPullRequest
           \/ ListOldImages \/ CleanupFails \/ PrepareImage \/ UpdateStatus \/ StoreError
           \/ \E n \in Name : DeleteOldImage(n)
  <2>1. UNCHANGED application
    BY <1>5
    DEF Reconcile, PrepareServiceAccount, Resolve, GetPullRequest, ListOldImages,
        CleanupFails, PrepareImage, UpdateStatus, StoreError, DeleteOldImage, objects
  <2> QED
    BY <2>1 DEF ApplicationKept
<1> QED
  BY <1>2, <1>3, <1>4, <1>5 DEF Next, Worker, Watch

\* How Run comes to work on a revision.
LEMMA RunChange ==
  ASSUME TypeOK, [Next]_vars, pc' \in Working
  PROVE  \/ pc = "github" /\ revision' = Answer(spec) /\ UNCHANGED application
         \/ pc \in Working /\ revision' = revision
<1>1. CASE Resolve
  BY <1>1 DEF Resolve, objects
<1>2. CASE \/ \E r \in Revision : Push(r)
           \/ \E s \in Sources : Edit(s) \/ RecreateRemoteSync(s)
           \/ \E n \in Name : Build(n) \/ DeleteImage(n) \/ CollectImage(n)
           \/ ComputeMerge \/ DeleteRemoteSync \/ CollectServiceAccount
           \/ CreateApplication \/ DeleteApplication \/ DeleteServiceAccount
           \/ Watch \/ Resync \/ RetryTimer \/ UNCHANGED vars
  <2>1. UNCHANGED <<pc, revision>>
    BY <1>2
    DEF Push, Edit, RecreateRemoteSync, Build, DeleteImage, CollectImage, ComputeMerge,
        DeleteRemoteSync, CollectServiceAccount, CreateApplication, DeleteApplication,
        DeleteServiceAccount, Watch, WatchRemoteSync, WatchServiceAccount, WatchImages,
        WatchApplication, Resync, RetryTimer, vars, locals
  <2> QED
    BY <2>1
<1>3. CASE \/ GetPullRequest \/ ListOldImages \/ PrepareImage
           \/ \E n \in Name : DeleteOldImage(n)
  BY <1>3
  DEF GetPullRequest, ListOldImages, PrepareImage, ImageReady, ReplyLost, Fail,
      DeleteOldImage, Working
<1>4. CASE \/ Reconcile \/ PrepareServiceAccount \/ CleanupFails \/ UpdateApplication
           \/ UpdateStatus \/ StoreError \/ CallFails \/ Restart
  <2>1. pc' \in {"idle", "account", "github", "status", "error"}
    BY <1>4
    DEF Reconcile, PrepareServiceAccount, AccountReady, CleanupFails, UpdateApplication,
        Deployed, ReplyLost, UpdateStatus, StoreError, CallFails, Restart, Forget, Fail
  <2> QED
    BY <2>1 DEF Working
<1> QED
  BY <1>1, <1>2, <1>3, <1>4 DEF Next, Worker

\* A build that Run takes is one of the revision it works on.
LEMMA TakenStep ==
  ASSUME Linear, TypeOK, OrderInv, [Next]_vars
  PROVE  BuildTaken'
<1> SUFFICES ASSUME pc' = "application" PROVE latestImage' = revision'
  BY DEF BuildTaken
<1>1. CASE PrepareImage
  <2> DEFINE n == Short[revision]
             cached == Cached(images)[n]
  <2>1. /\ pc = "images" /\ revision' = revision
        /\ latestImage' = IF cached = NoObject THEN NoRevision ELSE cached.built
        /\ latestImage' # NoRevision
    BY <1>1 DEF PrepareImage, ImageReady, ReplyLost, Fail
  <2>2. revision \in Revision /\ n \in Name
    BY <2>1, TypeParts, ShortNames DEF Plain
  <2>3. cached # NoObject /\ cached \in Image
    BY <2>1, <2>2, HeldTypes DEF Images
  <2>4. ImageOf(cached, n)
    BY <2>2, <2>3, HeldTypes, OrderParts DEF ImagesOrdered
  <2>5. cached.revision \in Revision /\ Short[cached.revision] = Short[revision]
    BY <2>3, <2>4 DEF Image, ImageOf
  <2>6. cached.revision = revision
    BY <2>2, <2>5 DEF Linear
  <2> QED
    BY <2>1, <2>3, <2>4, <2>6 DEF ImageOf
<1>2. CASE \/ \E r \in Revision : Push(r)
           \/ \E s \in Sources : Edit(s) \/ RecreateRemoteSync(s)
           \/ \E n \in Name : Build(n) \/ DeleteImage(n) \/ CollectImage(n)
           \/ ComputeMerge \/ DeleteRemoteSync \/ CollectServiceAccount
           \/ CreateApplication \/ DeleteApplication \/ DeleteServiceAccount
           \/ Watch \/ Resync \/ RetryTimer \/ UNCHANGED vars
  <2>1. UNCHANGED <<pc, revision, latestImage>>
    BY <1>2
    DEF Push, Edit, RecreateRemoteSync, Build, DeleteImage, CollectImage, ComputeMerge,
        DeleteRemoteSync, CollectServiceAccount, CreateApplication, DeleteApplication,
        DeleteServiceAccount, Watch, WatchRemoteSync, WatchServiceAccount, WatchImages,
        WatchApplication, Resync, RetryTimer, vars, locals
  <2> QED
    BY <2>1, OrderParts DEF BuildTaken
<1>3. CASE \/ Reconcile \/ PrepareServiceAccount \/ CleanupFails \/ UpdateApplication
           \/ UpdateStatus \/ StoreError \/ CallFails \/ Restart \/ Resolve \/ GetPullRequest
           \/ ListOldImages \/ \E n \in Name : DeleteOldImage(n)
  <2>1. pc' # "application"
    BY <1>3
    DEF Reconcile, PrepareServiceAccount, AccountReady, CleanupFails, UpdateApplication,
        Deployed, ReplyLost, UpdateStatus, StoreError, CallFails, Restart, Forget, Fail,
        Resolve, GetPullRequest, ListOldImages, DeleteOldImage
  <2> QED
    BY <2>1
<1> QED
  BY <1>1, <1>2, <1>3 DEF Next, Worker

\* No version of the Application that a step adds runs a revision that is
\* later than those that were reached before.
LEMMA ReachedStep ==
  ASSUME TypeOK, [Next]_vars, WorkOrdered, BuildTaken,
         NEW r \in Int, Reached(r), pc = "application" => revision <= r
  PROVE  Reached(r)'
<1>1. Reached(r)' <=> \A app \in Held(application') : app \in Revision => app <= r
  BY DEF Reached
<1>2. Versions(application, Deployable)
  BY TypeParts DEF Views
<1>3. CASE ApplicationKept
  BY <1>1, <1>3 DEF ApplicationKept, Reached
<1>4. CASE CreateApplication \/ DeleteApplication
  <2>1. \/ Held(application') = Held(application) \union {NoRevision}
        \/ Held(application') = Held(application) \union {NoObject}
    BY <1>2, <1>4, HeldWritten DEF CreateApplication, DeleteApplication
  <2>2. NoRevision \notin Revision /\ NoObject \notin Revision
    BY SourceAssumption, ObjectAssumption
  <2> QED
    BY <1>1, <2>1, <2>2 DEF Reached
<1>5. CASE ApplicationDeployed
  <2>1. Held(application') = Held(application) \union {revision}
    BY <1>2, <1>5, HeldWritten DEF ApplicationDeployed, BuildTaken
  <2>2. revision <= r
    BY <1>5 DEF ApplicationDeployed
  <2> QED
    BY <1>1, <2>1, <2>2 DEF Reached
<1> QED
  BY <1>3, <1>4, <1>5, ApplicationChange

\* The invariant is inductive.
LEMMA OrderStep ==
  ASSUME Linear, TypeOK, TypeOK', OrderInv, [Next]_vars
  PROVE  OrderInv'
<1>0. /\ github.merge <= github.head /\ ImagesOrdered /\ Reached(Named)
      /\ WorkOrdered /\ BuildTaken
  BY OrderParts
<1>1. /\ Named \in Revision /\ Named' \in Revision /\ Named <= Named'
      /\ github'.merge <= github'.head
  BY <1>0, NamedGrows
<1>2. Named \in Int /\ Named' \in Int
  BY <1>1, RevisionOrder
<1>3. Reached(Named)'
  <2>1. ASSUME NEW r \in Int, r = Named' PROVE Reached(r)
    <3>1. \A app \in Revision : app <= Named => app <= r
      BY <1>1, <1>2, <2>1, RevisionOrder
    <3> QED
      BY <1>0, <3>1 DEF Reached
  <2>2. pc = "application" => revision <= Named'
    <3> SUFFICES ASSUME pc = "application" PROVE revision <= Named'
      OBVIOUS
    <3>1. revision \in Revision /\ revision <= Named
      BY <1>0, TypeParts DEF Plain, WorkOrdered, Working
    <3>2. revision \in Int
      BY <3>1, RevisionOrder
    <3> QED
      BY <1>1, <1>2, <3>1, <3>2
  <2>3. ASSUME NEW r \in Int, r = Named' PROVE Reached(r)'
    BY <1>0, <2>1, <2>2, <2>3, ReachedStep
  <2>4. \A app \in Held(application') : app \in Revision => app <= Named'
    BY <1>2, <2>3 DEF Reached
  <2> QED
    BY <2>4 DEF Reached
<1>4. WorkOrdered'
  <2> SUFFICES ASSUME pc' \in Working PROVE revision' <= Named' /\ Reached(revision)'
    BY DEF WorkOrdered
  <2>1. CASE pc = "github" /\ revision' = Answer(spec) /\ UNCHANGED application
    <3>1. spec \in Sources
      BY <2>1, TypeParts DEF Plain
    <3>2. revision' = Named
      BY <2>1, <3>1, NamedByAll
    <3> QED
      BY <1>0, <1>1, <2>1, <3>2 DEF Reached
  <2>2. CASE pc \in Working /\ revision' = revision
    <3>1. revision \in Revision /\ revision <= Named /\ Reached(revision)
      BY <1>0, <2>2, TypeParts DEF Plain, WorkOrdered, Working
    <3>2. revision \in Int /\ revision <= revision
      BY <3>1, RevisionOrder
    <3>3. revision <= Named'
      BY <1>1, <1>2, <3>1, <3>2
    <3>4. ASSUME NEW r \in Int, r = revision PROVE Reached(r)'
      BY <1>0, <3>1, <3>2, <3>4, ReachedStep DEF Reached
    <3>5. \A app \in Held(application') : app \in Revision => app <= revision
      BY <3>2, <3>4 DEF Reached
    <3> QED
      BY <2>2, <3>3, <3>5 DEF Reached
  <2> QED
    BY <2>1, <2>2, RunChange
<1>5. ImagesOrdered' /\ BuildTaken'
  BY ImagesStep, TakenStep
<1> QED
  BY <1>1, <1>3, <1>4, <1>5, OrderParts

\* At first nothing is built or deployed.
LEMMA OrderInit ==
  ASSUME Linear, Init
  PROVE  OrderInv
<1>0. TypeOK
  BY InitTypes
<1>1. Held(images) = {[n \in Name |-> NoObject]}
  BY HeldRefilled DEF Init
<1>2. ImagesOrdered
  BY <1>1 DEF ImagesOrdered
<1>3. Reached(Named)
  <2>1. Held(application) \subseteq {NoObject, NoRevision}
    BY HeldRefilled DEF Init
  <2> QED
    BY <2>1, SourceAssumption, ObjectAssumption DEF Reached
<1>4. github.merge <= github.head /\ WorkOrdered /\ BuildTaken
  BY DEF Init, WorkOrdered, Working, BuildTaken
<1> QED
  BY <1>2, <1>3, <1>4, OrderParts

\* Nothing that kpack builds, Run works on or the Application runs is ahead of
\* what GitHub names, and Run never works on a revision that is older than one
\* that it has deployed (OrderInv).
THEOREM OrderHolds ==
  ASSUME Linear
  PROVE  Spec => []OrderInv
<1>1. Init => OrderInv
  BY OrderInit
<1>2. TypeOK /\ TypeOK' /\ OrderInv /\ [Next]_vars => OrderInv'
  BY OrderStep
<1> QED
  BY <1>1, <1>2, TypeCorrect, PTL DEF Spec

\* The Application is never moved back to an older revision.
THEOREM ImagesGoForward ==
  ASSUME Linear
  PROVE  Spec => NeverRollsBack
<1>1. ASSUME TypeOK, OrderInv, [Next]_vars, Live(application) \in Revision
      PROVE  \/ Live(application)' = NoObject
             \/ Live(application)' \in Revision /\ Live(application)' >= Live(application)
  <2>0. Versions(application, Deployable) /\ Live(application) \in Int
    BY <1>1, RevisionOrder, TypeParts DEF Views
  <2>l. Live(application)' = Live(application')
    BY DEF Live
  <2>1. CASE ApplicationKept
    BY <1>1, <2>0, <2>1, <2>l DEF ApplicationKept
  <2>2. CASE CreateApplication
    BY <1>1, <2>2, ObjectAssumption DEF CreateApplication
  <2>3. CASE DeleteApplication
    BY <2>0, <2>3, <2>l, WriteGrows DEF DeleteApplication
  <2>4. CASE ApplicationDeployed
    <3>1. latestImage = revision /\ Reached(revision) /\ revision \in Revision
      BY <1>1, <2>4, OrderParts, TypeParts
      DEF ApplicationDeployed, BuildTaken, WorkOrdered, Working, Plain
    <3>2. Live(application') = revision
      BY <2>0, <2>4, <3>1, WriteGrows DEF ApplicationDeployed
    <3>3. Live(application) <= revision /\ revision \in Int
      BY <1>1, <3>1, HeldTypes, RevisionOrder DEF Reached
    <3> QED
      BY <2>0, <2>l, <3>1, <3>2, <3>3
  <2> QED
    BY <1>1, <2>1, <2>2, <2>3, <2>4, ApplicationChange
<1>2. TypeOK /\ OrderInv /\ [Next]_vars =>
        [Live(application) \in Revision =>
           \/ Live(application)' = NoObject
           \/ Live(application)' \in Revision /\ Live(application)' >= Live(application)]_vars
  BY <1>1
<1> QED
  BY <1>2, OrderHolds, TypeCorrect, PTL DEF Spec, NeverRollsBack

-----------------------------------------------------------------------------
(* Rollout                                                                 *)

\* The build that Run has found is that of a cached Image.
LEMMA LatestChange ==
  ASSUME TypeOK, [Next]_vars
  PROVE  \/ latestImage' \in {latestImage, NoRevision}
         \/ \E n \in Name : /\ Cached(images)[n] # NoObject
                            /\ latestImage' = Cached(images)[n].built
<1>1. CASE PrepareImage
  <2> DEFINE n == Short[revision]
             cached == Cached(images)[n]
  <2>1. n \in Name
    BY <1>1, TypeParts, ShortNames DEF PrepareImage, Plain
  <2>2. \/ latestImage' = latestImage
        \/ latestImage' = IF cached = NoObject THEN NoRevision ELSE cached.built
    BY <1>1 DEF PrepareImage, ImageReady, ReplyLost, Fail
  <2> QED
    BY <2>1, <2>2
<1>2. CASE \/ \E r \in Revision : Push(r)
           \/ \E s \in Sources : Edit(s) \/ RecreateRemoteSync(s)
           \/ \E n \in Name : Build(n) \/ DeleteImage(n) \/ CollectImage(n)
           \/ ComputeMerge \/ DeleteRemoteSync \/ CollectServiceAccount
           \/ CreateApplication \/ DeleteApplication \/ DeleteServiceAccount
           \/ Watch \/ Resync \/ RetryTimer \/ UNCHANGED vars
  <2>1. latestImage' = latestImage
    BY <1>2
    DEF Push, Edit, RecreateRemoteSync, Build, DeleteImage, CollectImage, ComputeMerge,
        DeleteRemoteSync, CollectServiceAccount, CreateApplication, DeleteApplication,
        DeleteServiceAccount, Watch, WatchRemoteSync, WatchServiceAccount, WatchImages,
        WatchApplication, Resync, RetryTimer, vars, locals
  <2> QED
    BY <2>1
<1>3. CASE \/ Reconcile \/ PrepareServiceAccount \/ CleanupFails \/ UpdateApplication
           \/ UpdateStatus \/ StoreError \/ CallFails \/ Restart \/ Resolve \/ GetPullRequest
           \/ ListOldImages \/ \E n \in Name : DeleteOldImage(n)
  <2>1. latestImage' \in {latestImage, NoRevision}
    BY <1>3
    DEF Reconcile, PrepareServiceAccount, AccountReady, CleanupFails, UpdateApplication,
        Deployed, ReplyLost, UpdateStatus, StoreError, CallFails, Restart, Forget, Fail,
        Resolve, GetPullRequest, ListOldImages, DeleteOldImage
  <2> QED
    BY <2>1
<1> QED
  BY <1>1, <1>2, <1>3 DEF Next, Worker

\* Only kpack makes a build known.
LEMMA BuildsKnown ==
  ASSUME Linear, TypeOK, OrderInv, [Next]_vars,
         \A n \in Name : ~Build(n)
  PROVE  KnownBuilds' \subseteq KnownBuilds
<1> DEFINE AllKnown(objs) == \A n \in Name :
             objs[n] # NoObject /\ objs[n].built \in Revision => objs[n].built \in KnownBuilds
<1>1. \A objs \in Held(images) : AllKnown(objs)
  BY DEF KnownBuilds
<1>2. latestImage' \in Revision => latestImage' \in KnownBuilds
  <2>1. latestImage \in Revision => latestImage \in KnownBuilds
    BY DEF KnownBuilds
  <2> QED
    BY <1>1, <2>1, LatestChange, HeldTypes, SourceAssumption
<1>3. \A objs \in Held(images') : AllKnown(objs)
  <2>1. CASE Held(images') \subseteq Held(images)
    BY <1>1, <2>1
  <2>2. ASSUME NEW m \in Name, NEW image \in Image \union {NoObject},
               image # NoObject => BuildKept(image, m),
               images' = Write(images, [Live(images) EXCEPT ![m] = image])
        PROVE  \A objs \in Held(images') : AllKnown(objs)
    <3> DEFINE stored == [Live(images) EXCEPT ![m] = image]
    <3>1. Live(images) \in Images /\ Live(images) \in Held(images)
      BY HeldTypes
    <3>2. Held(images') = Held(images) \union {stored}
      BY <2>2, TypeParts, HeldWritten DEF Views
    <3>3. AllKnown(stored)
      BY <1>1, <2>2, <3>1, SourceAssumption DEF Images, BuildKept
    <3> HIDE DEF stored
    <3> QED
      BY <1>1, <3>2, <3>3
  <2> QED
    BY <2>1, <2>2, ImagesChange
<1> QED
  BY <1>2, <1>3 DEF KnownBuilds

\* Without an answer of GitHub, and of whatever spec, the revision stays.
LEMMA NamedStays ==
  ASSUME Linear, TypeOK, TypeOK', UNCHANGED github
  PROVE  Named' = Named
<1> DEFINE s == Live(remoteSync).spec
           t == Live(remoteSync)'.spec
<1>1. s \in Sources /\ t \in Sources
  <2>1. Live(remoteSync) \in RemoteSync
    BY TypeParts, Ends DEF Views
  <2>2. Versions(remoteSync', RemoteSync)
    BY TypeParts DEF Views, Versions
  <2>3. Live(remoteSync') \in RemoteSync
    BY <2>2, Ends
  <2> QED
    BY <2>1, <2>3 DEF RemoteSync, Live
<1>2. s.kind \in {"sha", "branch", "pull"}
  BY <1>1, SourceAssumption
<1>3. s.kind = t.kind /\ (s.kind = "sha" => s.sha = t.sha)
  BY <1>1 DEF Linear
<1> QED
  BY <1>2, <1>3 DEF Named, Answer

\* GitHub names a later revision.
LEMMA AdvanceRolls ==
  ASSUME Linear, TypeOK, TypeOK', OrderInv, [Next]_vars,
         UNCHANGED <<images, application, latestImage>>
  PROVE  [Roll!Next]_(Roll!vars)
<1>1. KnownBuilds' = KnownBuilds /\ Live(application)' = Live(application)
  BY DEF KnownBuilds, Live
<1>2. Named \in Int /\ Named' \in Revision /\ Named' \in Int /\ Named <= Named'
  BY NamedGrows, OrderParts, RevisionOrder
<1>3. CASE Named' = Named
  BY <1>1, <1>3 DEF Roll!vars
<1>4. CASE Named' # Named
  <2>1. Named' > Named
    BY <1>2, <1>4
  <2>2. Roll!Advance
    BY <1>1, <1>2, <2>1 DEF Roll!Advance
  <2> QED
    BY <2>2 DEF Roll!Next
<1> QED
  BY <1>3, <1>4

\* kpack builds a revision that GitHub has named.
LEMMA BuildRolls ==
  ASSUME Linear, TypeOK, TypeOK', OrderInv, NEW n \in Name, Build(n)
  PROVE  [Roll!Next]_(Roll!vars)
<1> DEFINE image == Live(images)[n]
           r == image.revision
           stored == [Live(images) EXCEPT ![n].built = r]
<1>1. /\ UNCHANGED <<github, application, latestImage>>
      /\ image # NoObject /\ images' = Write(images, stored)
  BY DEF Build, locals
<1>2. image \in Image /\ ImageOf(image, n)
  BY <1>1, HeldTypes, OrderParts DEF Images, ImagesOrdered
<1>3. r \in Revision /\ r <= Named
  BY <1>2 DEF Image, ImageOf
<1>4. Named' = Named /\ Live(application)' = Live(application)
  BY <1>1, NamedStays DEF Live
<1>5. KnownBuilds' = KnownBuilds \union {r}
  <2>1. Held(images') = Held(images) \union {stored}
    BY <1>1, TypeParts, HeldWritten DEF Views
  <2>2. Live(images) \in Images /\ Live(images) \in Held(images)
    BY HeldTypes
  <2>3. stored[n].built = r /\ stored[n] # NoObject
    BY <1>2, <1>3, <2>2, ObjectAssumption DEF Images, Image
  <2>4. \A m \in Name \ {n} : stored[m] = Live(images)[m]
    BY <2>2 DEF Images
  <2> HIDE DEF stored
  <2>5. \A q \in Revision :
          (\E objs \in Held(images'), m \in Name : objs[m] # NoObject /\ objs[m].built = q)
          <=> \/ q = r
              \/ \E objs \in Held(images), m \in Name : objs[m] # NoObject /\ objs[m].built = q
    BY <2>1, <2>2, <2>3, <2>4
  <2> QED
    BY <1>1, <1>3, <2>5 DEF KnownBuilds
<1>6. Roll!Build(r)
  BY <1>3, <1>4, <1>5 DEF Roll!Build
<1> QED
  BY <1>3, <1>6 DEF Roll!Next

\* Run deploys a build that is known, and no older one than there is.
LEMMA DeployRolls ==
  ASSUME Linear, TypeOK, TypeOK', OrderInv, ApplicationDeployed
  PROVE  [Roll!Next]_(Roll!vars)
<1>1. UNCHANGED <<remoteSync, images, github, latestImage>>
  BY DEF ApplicationDeployed
<1>2. Named' = Named /\ KnownBuilds' = KnownBuilds
  BY <1>1, NamedStays DEF KnownBuilds
<1>3. latestImage = revision /\ revision \in Revision /\ Reached(revision)
  BY OrderParts, TypeParts
  DEF ApplicationDeployed, BuildTaken, WorkOrdered, Working, Plain
<1>4. Live(application)' = revision
  <2>1. Versions(application, Deployable)
    BY TypeParts DEF Views
  <2>2. Live(application') = latestImage
    BY <2>1, WriteGrows DEF ApplicationDeployed
  <2> QED
    BY <1>3, <2>2 DEF Live
<1>5. /\ revision \in KnownBuilds
      /\ Live(application) # NoObject
      /\ Live(application) \in Revision => Live(application) <= revision
  BY <1>3, HeldTypes DEF KnownBuilds, ApplicationDeployed, Reached
<1>6. Roll!Deploy(revision)
  BY <1>2, <1>4, <1>5 DEF Roll!Deploy
<1> QED
  BY <1>3, <1>6 DEF Roll!Next

\* Every step is one of Rollout, or changes nothing there.
LEMMA NextRolls ==
  ASSUME Linear, TypeOK, TypeOK', OrderInv, [Next]_vars
  PROVE  [Roll!Next]_(Roll!vars)
<1>1. CASE (\E r \in Revision : Push(r)) \/ ComputeMerge
  <2>1. UNCHANGED <<images, application, latestImage>>
    BY <1>1 DEF Push, ComputeMerge, objects, locals
  <2> QED
    BY <2>1, AdvanceRolls
<1>2. CASE \E n \in Name : Build(n)
  BY <1>2, BuildRolls
<1>3. CASE ApplicationDeployed
  BY <1>3, DeployRolls
<1>4. CASE CreateApplication \/ DeleteApplication
  <2>1. UNCHANGED <<github, images, latestImage>>
    BY <1>4 DEF CreateApplication, DeleteApplication, locals
  <2>2. Named' = Named /\ KnownBuilds' = KnownBuilds
    BY <2>1, NamedStays DEF KnownBuilds
  <2>3. Versions(application, Deployable)
    BY TypeParts DEF Views
  <2>4. CASE CreateApplication
    <3>1. Live(application) = NoObject /\ Live(application') = NoRevision
      BY <2>3, <2>4, WriteGrows DEF CreateApplication
    <3>2. Roll!Create
      BY <2>2, <3>1 DEF Roll!Create, Live
    <3> QED
      BY <3>2 DEF Roll!Next
  <2>5. CASE DeleteApplication
    <3>1. Live(application') = NoObject
      BY <2>3, <2>5, WriteGrows DEF DeleteApplication
    <3>2. Roll!Delete
      BY <2>2, <3>1 DEF Roll!Delete, Live
    <3> QED
      BY <3>2 DEF Roll!Next
  <2> QED
    BY <1>4, <2>4, <2>5
<1>5. CASE UNCHANGED github /\ (\A n \in Name : ~Build(n)) /\ ApplicationKept
  <2>1. Named' = Named /\ Live(application)' = Live(application)
    BY <1>5, NamedStays DEF ApplicationKept, Live
  <2>2. KnownBuilds' \subseteq KnownBuilds
    BY <1>5, BuildsKnown
  <2>3. Roll!Forget
    BY <2>1, <2>2 DEF Roll!Forget
  <2> QED
    BY <2>3 DEF Roll!Next
<1> QED
  BY <1>1, <1>2, <1>3, <1>4, <1>5, GitHubChange, ApplicationChange

\* The controller starts like Rollout.
LEMMA InitRolls ==
  ASSUME Linear, Init
  PROVE  Roll!Init
<1>0. TypeOK
  BY InitTypes
<1>1. Named \in Revision
  BY <1>0, NamedByAll
<1>2. KnownBuilds = {}
  <2>1. Held(images) = {[n \in Name |-> NoObject]} /\ latestImage \notin Revision
    BY HeldRefilled, SourceAssumption DEF Init
  <2> QED
    BY <2>1 DEF KnownBuilds
<1>3. Live(application) \in {NoObject, NoRevision}
  <2>1. Live(application) \in Held(application)
    BY <1>0, HeldTypes
  <2> QED
    BY <2>1, HeldRefilled DEF Init
<1> QED
  BY <1>1, <1>2, <1>3 DEF Roll!Init

\* The controller, its caches, retries and crashes, and the Images and
\* RemoteSyncs that come and go, implement Rollout (Refines).
THEOREM RolloutImplemented ==
  ASSUME Linear
  PROVE  Spec => Refines
<1>1. Init => Roll!Init
  BY InitRolls
<1>2. TypeOK /\ TypeOK' /\ OrderInv /\ [Next]_vars => [Roll!Next]_(Roll!vars)
  BY NextRolls
<1> QED
  BY <1>1, <1>2, OrderHolds, TypeCorrect, PTL DEF Spec, Refines, Roll!Spec

-----------------------------------------------------------------------------
(* What is built is deployed                                               *)

\* The Application is not deleted in this step.
ApplicationRemains == Live(application) # NoObject => Live(application)' # NoObject

\* The parts of DeployInv.
Newest ==
  \A app \in Held(application) : app \in Revision =>
    Live(application) \in Revision /\ app <= Live(application)

FoundIsDeployed ==
  pc = "status" /\ ~pending /\ ~dirty /\ UpToDate(images) =>
    (Cached(images)[Short[revision]].built = revision => Live(application) = revision)

RestIsDeployed ==
  AtRest /\ Live(remoteSync).alive =>
    (Live(images)[Short[resolved]].built = resolved => Live(application) = resolved)

LEMMA DeployParts ==
  /\ DeployInv <=> Newest /\ FoundIsDeployed /\ RestIsDeployed
  /\ DeployInv' <=> Newest' /\ FoundIsDeployed' /\ RestIsDeployed'
BY DEF DeployInv, Newest, FoundIsDeployed, RestIsDeployed

\* What Run deploys is what it has resolved.
LEMMA DeployedRevision ==
  ASSUME TypeOK, OrderInv, pc = "application"
  PROVE  latestImage = revision /\ revision \in Revision /\ Reached(revision)
BY OrderParts, TypeParts DEF BuildTaken, WorkOrdered, Working, Plain

\* The live version stays the newest.
LEMMA NewestStep ==
  ASSUME TypeOK, OrderInv, Newest, [Next]_vars, ApplicationRemains
  PROVE  Newest'
<1> USE DEF Newest
<1>0. Versions(application, Deployable) /\ Live(application)' = Live(application')
  BY TypeParts DEF Views, Live
<1>1. CASE ApplicationKept
  BY <1>0, <1>1 DEF ApplicationKept
<1>2. CASE CreateApplication
  <2>1. Live(application) = NoObject /\ application' = Write(application, NoRevision)
    BY <1>2 DEF CreateApplication
  <2>2. Held(application') = Held(application) \union {NoRevision}
    BY <1>0, <2>1, HeldWritten
  <2>3. NoObject \notin Revision /\ NoRevision \notin Revision
    BY SourceAssumption, ObjectAssumption
  <2> QED
    BY <2>1, <2>2, <2>3
<1>3. CASE DeleteApplication
  BY <1>0, <1>3, WriteGrows DEF DeleteApplication, ApplicationRemains
<1>4. CASE ApplicationDeployed
  <2>1. latestImage = revision /\ revision \in Revision /\ Reached(revision)
    BY <1>4, DeployedRevision DEF ApplicationDeployed
  <2>2. Live(application') = revision /\ Held(application') = Held(application) \union {revision}
    BY <1>0, <1>4, <2>1, WriteGrows, HeldWritten DEF ApplicationDeployed
  <2>3. revision <= revision
    BY <2>1, RevisionOrder
  <2> QED
    BY <1>0, <2>1, <2>2, <2>3 DEF Reached
<1> QED
  BY <1>1, <1>2, <1>3, <1>4, ApplicationChange

\* Only UpdateApplication changes the image of an Application that remains.
LEMMA ImageSteady ==
  ASSUME TypeOK, [Next]_vars, ApplicationRemains, pc # "application",
         Live(application) \in Revision
  PROVE  Live(application)' = Live(application)
<1>0. Versions(application, Deployable) /\ Live(application)' = Live(application')
  BY TypeParts DEF Views, Live
<1>1. CASE ApplicationKept
  BY <1>0, <1>1 DEF ApplicationKept
<1>2. CASE CreateApplication
  BY <1>2, ObjectAssumption DEF CreateApplication
<1>3. CASE DeleteApplication
  BY <1>0, <1>3, WriteGrows DEF DeleteApplication, ApplicationRemains
<1> QED
  BY <1>1, <1>2, <1>3, ApplicationChange DEF ApplicationDeployed

\* UpdateApplication leaves the Application with the revision.
LEMMA UpdateDeploys ==
  ASSUME TypeOK, OrderInv, Newest, UpdateApplication, pc' = "status", ~pending'
  PROVE  Live(application)' = revision
<1>0. Versions(application, Deployable) /\ Live(application)' = Live(application')
  BY TypeParts DEF Views, Live
<1>1. latestImage = revision /\ revision \in Revision /\ Reached(revision)
  BY DeployedRevision DEF UpdateApplication
<1>2. ~Fail
  BY DEF Fail
<1>3. CASE Cached(application) = latestImage /\ UNCHANGED application
  <2>1. Cached(application) = revision /\ Live(application) \in Revision
        /\ revision <= Live(application) /\ Live(application) <= revision
    BY <1>1, <1>3, HeldTypes DEF Newest, Reached
  <2>2. ASSUME NEW r \in Int, NEW q \in Int, r <= q, q <= r PROVE q = r
    BY <2>2
  <2>3. Live(application) = revision
    BY <1>1, <2>1, <2>2, RevisionOrder
  <2> QED
    BY <1>0, <1>3, <2>3
<1>4. CASE application' = Write(application, latestImage)
  BY <1>0, <1>1, <1>4, WriteGrows
<1> QED
  BY <1>2, <1>3, <1>4 DEF UpdateApplication

\* An Image that PrepareImage has left alone has the build that it has found.
LEMMA FoundBuild ==
  ASSUME TypeOK, PrepareImage, pc' = "status", UpToDate(images')
  PROVE  images' = images /\ Cached(images)[Short[revision]].built = NoRevision
<1> DEFINE n == Short[revision]
           cached == Cached(images)[n]
           live == Live(images)[n]
           wanted == Wanted(cached, live)
<1>1. revision \in Revision /\ n \in Name /\ uid \in 1..MaxUid
  BY TypeParts, ShortNames DEF Plain, PrepareImage
<1>2. cached \in Image \union {NoObject} /\ live \in Image \union {NoObject}
  BY <1>1, HeldTypes DEF Images
<1>3. /\ pc = "images" /\ ~Fail
      /\ NoRevision = IF cached = NoObject THEN NoRevision ELSE cached.built
  BY DEF PrepareImage, ImageReady, Fail, ReplyLost
<1>4. images' = images /\ cached # NoObject
  <2>1. CASE cached # NoObject /\ UNCHANGED images
    BY <2>1
  <2>2. CASE images' = Write(images, [Live(images) EXCEPT ![n] = wanted])
    <3>0. Versions(images, Images)
      BY TypeParts DEF Views
    <3>1. images' = images /\ Live(images) = [Live(images) EXCEPT ![n] = wanted]
      BY <2>2, <3>0, WriteGrows DEF Grows
    <3>2. Live(images) \in Images /\ Cached(images) = Live(images)
      BY <3>0, <3>1, Ends
    <3>3. cached = wanted
      BY <1>1, <3>1, <3>2 DEF Images
    <3> QED
      BY <1>1, <1>2, <3>1, <3>3, WantedType, ObjectAssumption
  <2> QED
    BY <1>3, <2>1, <2>2 DEF PrepareImage
<1> QED
  BY <1>3, <1>4

\* A Reconcile that meets no event has deployed the build that it has found.
LEMMA FoundStep ==
  ASSUME IInv, TypeOK', OrderInv, DeployInv, [Next]_vars, ApplicationRemains
  PROVE  FoundIsDeployed'
<1> DEFINE Quiescent == pc = "status" /\ ~pending /\ ~dirty /\ UpToDate(images)
           Found == Cached(images)[Short[revision]].built = revision
<1>0. TypeOK /\ Newest /\ FoundIsDeployed /\ ReadInv
  BY DeployParts DEF IInv
<1>d. /\ FoundIsDeployed <=> (Quiescent /\ Found => Live(application) = revision)
      /\ FoundIsDeployed' <=> (Quiescent' /\ Found' => Live(application)' = revision')
  BY DEF FoundIsDeployed
<1> SUFFICES ASSUME Quiescent', Found' PROVE Live(application)' = revision'
  BY <1>d
<1>1. CASE \/ \E r \in Revision : Push(r)
           \/ ComputeMerge
           \/ \E n \in Name : Build(n) \/ DeleteImage(n) \/ CollectImage(n)
           \/ \E s \in Sources : Edit(s) \/ RecreateRemoteSync(s)
           \/ DeleteRemoteSync \/ CollectServiceAccount
           \/ CreateApplication \/ DeleteApplication \/ DeleteServiceAccount
           \/ Watch \/ Resync \/ RetryTimer \/ UNCHANGED vars
  <2>1. UNCHANGED <<pc, revision, pending, dirty>> /\ Grows(images, images')
    BY <1>0, <1>1, EnvironmentGrows
  <2>2. images' = images
    BY <2>1 DEF Grows, UpToDate
  <2>3. Live(application) = revision
    BY <1>0, <1>d, <2>1, <2>2
  <2>4. revision \in Revision /\ pc # "application"
    BY <1>0, <2>1 DEF ReadInv
  <2> QED
    BY <1>0, <2>1, <2>3, <2>4, ImageSteady
<1>2. CASE PrepareImage
  <2>1. UNCHANGED revision /\ revision \in Revision
    BY <1>0, <1>2, TypeParts DEF PrepareImage, ImageReady, ReplyLost, Fail, Plain
  <2>2. UpToDate(images')
    BY DEF UpToDate
  <2>3. Cached(images)'[Short[revision]].built = NoRevision
    BY <1>0, <1>2, <2>2, FoundBuild DEF Cached
  <2> QED
    BY <2>1, <2>3, SourceAssumption
<1>3. CASE UpdateApplication
  <2>1. revision' = revision
    BY <1>3 DEF UpdateApplication, Deployed, ReplyLost, Fail
  <2> QED
    BY <1>0, <1>3, <2>1, UpdateDeploys
<1>4. CASE CallFails
  BY <1>4 DEF CallFails, Fail
<1>5. CASE \/ Reconcile \/ PrepareServiceAccount \/ CleanupFails \/ UpdateStatus
           \/ StoreError \/ Restart \/ Resolve \/ GetPullRequest
           \/ ListOldImages \/ \E n \in Name : DeleteOldImage(n)
  <2>1. pc' # "status"
    BY <1>5
    DEF Reconcile, PrepareServiceAccount, AccountReady, CleanupFails, ReplyLost,
        UpdateStatus, StoreError, Restart, Forget, Fail, Resolve, GetPullRequest,
        ListOldImages, DeleteOldImage
  <2> QED
    BY <2>1
<1> QED
  BY <1>1, <1>2, <1>3, <1>4, <1>5 DEF Next, Worker

\* The controller comes to rest with the build of the resolved revision
\* deployed, and stays so.
LEMMA RestStep ==
  ASSUME IInv, IInv', OrderInv, DeployInv, [Next]_vars, ApplicationRemains
  PROVE  RestIsDeployed'
<1> DEFINE Resting == AtRest /\ Live(remoteSync).alive
           Built == Live(images)[Short[resolved]].built = resolved
<1>0. /\ TypeOK /\ FoundIsDeployed /\ RestIsDeployed /\ ReadInv
      /\ AtRest /\ Live(remoteSync).alive => Settled
  BY DeployParts DEF IInv
<1>d. /\ RestIsDeployed <=> (Resting /\ Built => Live(application) = resolved)
      /\ RestIsDeployed' <=> (Resting' /\ Built' => Live(application)' = resolved')
  BY DEF RestIsDeployed
<1> SUFFICES ASSUME Resting', Built' PROVE Live(application)' = resolved'
  BY <1>d
<1>r. /\ pc' = "idle" /\ ~dirty' /\ ~retry'
      /\ UpToDate(remoteSync') /\ UpToDate(serviceAccount') /\ UpToDate(images')
  BY DEF AtRest, UpToDate
<1>e. /\ UpToDate(remoteSync) => Cached(remoteSync) = Live(remoteSync)
      /\ UpToDate(images) => Cached(images) = Live(images)
      /\ Versions(remoteSync, RemoteSync)
  BY <1>0, TypeParts, Ends DEF Views
<1>1. CASE \/ \E r \in Revision : Push(r)
           \/ ComputeMerge
           \/ \E n \in Name : Build(n) \/ DeleteImage(n) \/ CollectImage(n)
           \/ \E s \in Sources : Edit(s) \/ RecreateRemoteSync(s)
           \/ DeleteRemoteSync \/ CollectServiceAccount
           \/ CreateApplication \/ DeleteApplication \/ DeleteServiceAccount
           \/ Watch \/ Resync \/ RetryTimer \/ UNCHANGED vars
  <2>1. /\ UNCHANGED <<pc, resolved, dirty, retry>>
        /\ UNCHANGED <<remoteSync, serviceAccount, images>>
    BY <1>0, <1>1, <1>r, EnvironmentGrows DEF Grows
  <2>2. Resting /\ Built
    BY <1>r, <2>1 DEF AtRest, Live
  <2>3. Live(application) = resolved /\ resolved \in Revision /\ pc # "application"
    BY <1>0, <1>d, <2>2 DEF Settled, AtRest
  <2> QED
    BY <1>0, <2>1, <2>3, ImageSteady
<1>2. CASE UpdateStatus
  <2>1. /\ pc = "status" /\ fresh /\ ~pending /\ ~dirty
        /\ UNCHANGED <<images, application, resolved>>
    <3>1. /\ pc = "status" /\ fresh /\ retry' = (retry \/ pending)
          /\ UNCHANGED <<dirty, images, application, resolved>>
      BY <1>2, <1>r DEF UpdateStatus, Fail
    <3>2. ~pending /\ ~dirty
      BY <1>r, <3>1
    <3> QED
      BY <3>1, <3>2
  <2>2. UpToDate(images) /\ resolved = revision
    BY <1>0, <1>r, <2>1 DEF ReadInv, UpToDate
  <2>3. Cached(images)[Short[revision]].built = revision
    BY <1>e, <2>1, <2>2 DEF Live
  <2>4. Live(application) = revision
    BY <1>0, <2>1, <2>2, <2>3 DEF FoundIsDeployed
  <2> QED
    BY <2>1, <2>2, <2>4 DEF Live
<1>3. CASE Reconcile
  <2>1. ~Cached(remoteSync).alive /\ UNCHANGED remoteSync
    BY <1>3, <1>r DEF Reconcile, objects
  <2> QED
    BY <1>e, <1>r, <2>1 DEF Live
<1>4. CASE StoreError \/ Restart
  BY <1>4, <1>r DEF StoreError, Restart
<1>5. CASE \/ PrepareServiceAccount \/ CleanupFails \/ CallFails \/ Resolve
           \/ GetPullRequest \/ ListOldImages \/ PrepareImage \/ UpdateApplication
           \/ \E n \in Name : DeleteOldImage(n)
  <2>1. pc' # "idle"
    BY <1>5
    DEF PrepareServiceAccount, AccountReady, CleanupFails, ReplyLost, CallFails, Fail,
        Resolve, GetPullRequest, ListOldImages, PrepareImage, ImageReady,
        UpdateApplication, Deployed, DeleteOldImage
  <2> QED
    BY <1>r, <2>1
<1> QED
  BY <1>1, <1>2, <1>3, <1>4, <1>5 DEF Next, Worker

\* As long as nobody deletes the Application, its live version is the newest
\* that was ever stored, and a Reconcile that meets no event deploys the build
\* that it finds (DeployInv).
THEOREM DeployHolds ==
  ASSUME Linear
  PROVE  Spec /\ ApplicationStays => []DeployInv
<1>1. Init => DeployInv
  <2> SUFFICES ASSUME Init PROVE DeployInv
    OBVIOUS
  <2>1. Held(application) \subseteq {NoObject, NoRevision}
    BY HeldRefilled DEF Init
  <2>2. Newest
    BY <2>1, SourceAssumption, ObjectAssumption DEF Newest
  <2>3. FoundIsDeployed /\ RestIsDeployed
    BY DEF Init, FoundIsDeployed, RestIsDeployed, AtRest
  <2> QED
    BY <2>2, <2>3, DeployParts
<1>2. ASSUME IInv, IInv', OrderInv, DeployInv, [Next]_vars, [ApplicationRemains]_vars
      PROVE  DeployInv'
  <2>1. ApplicationRemains
    <3>1. CASE UNCHANGED vars
      BY <3>1 DEF vars, objects, ApplicationRemains, Live
    <3> QED
      BY <1>2, <3>1
  <2>2. TypeOK /\ TypeOK'
    BY <1>2 DEF IInv
  <2> QED
    BY <1>2, <2>1, <2>2, NewestStep, FoundStep, RestStep, DeployParts
<1>3. ApplicationStays <=> [][ApplicationRemains]_vars
  BY DEF ApplicationStays, ApplicationRemains
<1>4. IInv /\ IInv' /\ OrderInv /\ DeployInv /\ [Next]_vars /\ [ApplicationRemains]_vars
        => DeployInv'
  BY <1>2
<1> QED
  BY <1>1, <1>3, <1>4, OrderHolds, InvariantHolds, PTL DEF Spec

\* At rest, the Application runs the image of the resolved revision if kpack
\* has built it, as long as nobody deletes the Application.
THEOREM BuildsAreDeployed ==
  ASSUME Linear
  PROVE  Spec /\ ApplicationStays => []ImageIsDeployed
<1>1. DeployInv => ImageIsDeployed
  BY DEF DeployInv, ImageIsDeployed, Quiet
<1> QED
  BY <1>1, DeployHolds, PTL
=============================================================================
