------------------------ MODULE RemoteSyncReconciler -------------------------
(***************************************************************************)
(* The RemoteSync controller (controllers/remotesync_controller.go) and    *)
(* the kpack builder it runs (pkg/kpackbuilder): the RemoteSyncs of one    *)
(* name, the ServiceAccount and the kpack Images they own, the Application *)
(* they deploy to, and the GitHub branch or pull request they follow.      *)
(*                                                                         *)
(* Every Get and List is answered by an informer cache (module Informer).  *)
(* A cached read and the write that follows it are one step: an event      *)
(* delivered between the two could as well be delivered after them.        *)
(***************************************************************************)
EXTENDS Informer

CONSTANTS
  Sources,      \* values of RemoteSync.spec: [kind, sha, secrets]
  Secret,       \* names of Secrets
  Commits,      \* revisions 1..Commits; a larger one is a newer commit
  Short,        \* Short[r]: the seven characters of r that name its Image
  NoObject,     \* an object that does not exist
  NoRevision,   \* no revision: an empty LatestImage or spec.image
  Rewind,       \* the branch may be reset to an earlier commit
  MaxUid,       \* RemoteSyncs of the name, one after the other
  MaxLag,       \* versions that the collector may run ahead of the cache
  MaxEdits,     \* pushes, edits, refreshes and deletions of the RemoteSync
  MaxFaults     \* failed calls, deletions by others and crashes

Revision == 1..Commits
Name == {Short[r] : r \in Revision}

ASSUME SourceAssumption ==
  /\ Sources \subseteq [kind : {"sha", "branch", "pull"},
                        sha : Revision, secrets : SUBSET Secret]
  /\ Commits \in Nat \ {0}
  /\ Short \in [Revision -> Name]
  /\ NoRevision \notin Revision

ASSUME LimitAssumption ==
  /\ MaxUid \in Nat \ {0} /\ MaxLag \in Nat
  /\ MaxEdits \in Nat /\ MaxFaults \in Nat /\ Rewind \in BOOLEAN

VARIABLES
  remoteSync,     \* view of the RemoteSync of the name
  serviceAccount, \* view of the ServiceAccount
  images,         \* view of the labelled Images
  application,    \* view of the Application: the image it runs
  github,         \* what GitHub answers
  dirty,          \* the key waits in the work queue
  retry,          \* a delayed re-add of the key is scheduled
  pc,             \* the call Reconcile is about to make
  uid, spec,      \* the RemoteSync Reconcile works on
  fresh,          \* the version Reconcile has read is still the live one
  revision,       \* the revision GitHub has answered
  pending,        \* the pull request's mergeability is unknown
  doomed,         \* cached Images still to be deleted
  failed,         \* one of the deletions failed
  latestImage,    \* the build found in the Image, else NoRevision
  resolved,       \* history: the last revision an Image was prepared for
  edits, faults   \* spent so far

objects == <<remoteSync, serviceAccount, images, application>>
queue == <<dirty, retry>>
cleanup == <<doomed, failed>>
locals == <<uid, spec, fresh, revision, pending, cleanup, latestImage>>
budget == <<edits, faults>>
vars == <<objects, github, queue, pc, locals, resolved, budget>>

-----------------------------------------------------------------------------
(* Data                                                                    *)

Message == {"", "merge status is pending", "error"}

\* Of a RemoteSync that is gone, the cluster remembers the uid.
RemoteSync == [uid : 1..MaxUid, alive : BOOLEAN, spec : Sources, message : Message]
NewRemoteSync(id, s) == [uid |-> id, alive |-> TRUE, spec |-> s, message |-> ""]

\* owner is the uid in the controller reference.  An Image builds a revision;
\* built is status.latestImage, identified with the revision it was built from.
Account == [owner : 1..MaxUid, secrets : SUBSET Secret]
Image == [owner : 1..MaxUid, revision : Revision, built : Revision \union {NoRevision}]

ASSUME ObjectAssumption ==
  NoObject \notin Image \union Account \union Revision \union {NoRevision}

SpendEdit == edits < MaxEdits /\ edits' = edits + 1 /\ UNCHANGED faults
SpendFault == faults < MaxFaults /\ faults' = faults + 1 /\ UNCHANGED edits

-----------------------------------------------------------------------------
Init ==
  /\ \E s \in Sources : remoteSync = <<NewRemoteSync(1, s)>>
  /\ serviceAccount = <<NoObject>>
  /\ images = <<[n \in Name |-> NoObject]>>
  /\ application \in {<<NoObject>>, <<NoRevision>>}
  /\ github = [head |-> 1, merge |-> 1, mergeable |-> TRUE]
  /\ dirty = TRUE
  /\ retry = FALSE
  /\ pc = "idle"
  /\ uid = NoObject
  /\ spec = NoObject
  /\ fresh = FALSE
  /\ revision = NoRevision
  /\ pending = FALSE
  /\ doomed = {}
  /\ failed = FALSE
  /\ latestImage = NoRevision
  /\ resolved = NoRevision
  /\ edits = 0
  /\ faults = 0

-----------------------------------------------------------------------------
(* GitHub, kpack, users and the watches                                    *)

\* A push moves the branch, or the head of the pull request, whose test
\* merge and mergeability are then unknown for a while.
Push(r) ==
  /\ r # github.head
  /\ Rewind \/ r > github.head
  /\ SpendEdit
  /\ github' = [github EXCEPT !.head = r, !.mergeable = FALSE]
  /\ UNCHANGED <<objects, queue, pc, locals, resolved>>

\* GitHub updates pull/N/merge and answers "mergeable" again.
ComputeMerge ==
  /\ ~github.mergeable
  /\ github' = [github EXCEPT !.merge = github.head, !.mergeable = TRUE]
  /\ UNCHANGED <<objects, queue, pc, locals, resolved, budget>>

\* kpack has built the Image's revision.
Build(n) ==
  LET now == Live(images) IN
  /\ now[n] # NoObject
  /\ now[n].built # now[n].revision
  /\ images' = Write(images, [now EXCEPT ![n].built = now[n].revision])
  /\ UNCHANGED <<remoteSync, serviceAccount, application, github, queue, pc,
                 locals, resolved, budget>>

\* A user changes the spec, or the webhook server refreshes the RemoteSync.
Edit(s) ==
  /\ Live(remoteSync).alive
  /\ SpendEdit
  /\ remoteSync' = Append(remoteSync, [Live(remoteSync) EXCEPT !.spec = s])
  /\ fresh' = FALSE
  /\ UNCHANGED <<serviceAccount, images, application, github, queue, pc, uid, spec,
                 revision, pending, cleanup, latestImage, resolved>>

\* The AppPipeline deletes the RemoteSync when the pull request is closed, ...
DeleteRemoteSync ==
  /\ Live(remoteSync).alive
  /\ SpendEdit
  /\ remoteSync' = Append(remoteSync, [Live(remoteSync) EXCEPT !.alive = FALSE])
  /\ fresh' = FALSE
  /\ UNCHANGED <<serviceAccount, images, application, github, queue, pc, uid, spec,
                 revision, pending, cleanup, latestImage, resolved>>

\* ... and creates another of the same name when it is reopened.
RecreateRemoteSync(s) ==
  /\ ~Live(remoteSync).alive
  /\ Live(remoteSync).uid < MaxUid
  /\ remoteSync' = Append(remoteSync, NewRemoteSync(Live(remoteSync).uid + 1, s))
  /\ UNCHANGED <<serviceAccount, images, application, github, queue, pc, locals,
                 resolved, budget>>

\* The owner is gone: the garbage collector deletes the object.
Orphan(object) == ~(Live(remoteSync).alive /\ object.owner = Live(remoteSync).uid)

CollectServiceAccount ==
  /\ Live(serviceAccount) # NoObject /\ Len(serviceAccount) <= MaxLag
  /\ Orphan(Live(serviceAccount))
  /\ serviceAccount' = Write(serviceAccount, NoObject)
  /\ UNCHANGED <<remoteSync, images, application, github, queue, pc, locals,
                 resolved, budget>>

CollectImage(n) ==
  /\ Live(images)[n] # NoObject /\ Len(images) <= MaxLag
  /\ Orphan(Live(images)[n])
  /\ images' = Write(images, [Live(images) EXCEPT ![n] = NoObject])
  /\ UNCHANGED <<remoteSync, serviceAccount, application, github, queue, pc, locals,
                 resolved, budget>>

CreateApplication ==
  /\ Live(application) = NoObject
  /\ application' = Write(application, NoRevision)
  /\ UNCHANGED <<remoteSync, serviceAccount, images, github, queue, pc, locals,
                 resolved, budget>>

\* Somebody else deletes the Application, the ServiceAccount or an Image.
DeleteApplication ==
  /\ Live(application) # NoObject
  /\ SpendFault
  /\ application' = Write(application, NoObject)
  /\ UNCHANGED <<remoteSync, serviceAccount, images, github, queue, pc, locals, resolved>>

DeleteServiceAccount ==
  /\ Live(serviceAccount) # NoObject
  /\ SpendFault
  /\ serviceAccount' = Write(serviceAccount, NoObject)
  /\ UNCHANGED <<remoteSync, images, application, github, queue, pc, locals, resolved>>

DeleteImage(n) ==
  /\ Live(images)[n] # NoObject
  /\ SpendFault
  /\ images' = Write(images, [Live(images) EXCEPT ![n] = NoObject])
  /\ UNCHANGED <<remoteSync, serviceAccount, application, github, queue, pc, locals,
                 resolved>>

\* The watch of the RemoteSync, or of an object it owns, delivers the next
\* version and adds the key.  The Application is not owned.
WatchRemoteSync ==
  /\ ~UpToDate(remoteSync)
  /\ remoteSync' = Tail(remoteSync)
  /\ dirty' = TRUE
  /\ UNCHANGED <<serviceAccount, images, application, github, retry, pc, locals,
                 resolved, budget>>

WatchServiceAccount ==
  /\ ~UpToDate(serviceAccount)
  /\ serviceAccount' = Tail(serviceAccount)
  /\ dirty' = TRUE
  /\ UNCHANGED <<remoteSync, images, application, github, retry, pc, locals,
                 resolved, budget>>

\* Mutant: the controller does not own Images.
WatchImagesUnowned ==
  /\ ~UpToDate(images)
  /\ images' = Tail(images)
  /\ UNCHANGED <<remoteSync, serviceAccount, application, github, queue, pc, locals,
                 resolved, budget>>

WatchImages ==
  /\ ~UpToDate(images)
  /\ images' = Tail(images)
  /\ dirty' = TRUE
  /\ UNCHANGED <<remoteSync, serviceAccount, application, github, retry, pc, locals,
                 resolved, budget>>

WatchApplication ==
  /\ ~UpToDate(application)
  /\ application' = Tail(application)
  /\ UNCHANGED <<remoteSync, serviceAccount, images, github, queue, pc, locals,
                 resolved, budget>>

Resync ==
  /\ dirty' = TRUE
  /\ UNCHANGED <<objects, github, retry, pc, locals, resolved, budget>>

RetryTimer ==
  /\ retry
  /\ retry' = FALSE
  /\ dirty' = TRUE
  /\ UNCHANGED <<objects, github, pc, locals, resolved, budget>>

-----------------------------------------------------------------------------
(* Reconcile                                                               *)

\* Mutant: a RemoteSync that is gone is reconciled, too.
ReconcileGone ==
  /\ pc = "idle"
  /\ dirty
  /\ dirty' = FALSE
  /\ pc' = "account"
  /\ uid' = Cached(remoteSync).uid
  /\ spec' = Cached(remoteSync).spec
  /\ fresh' = UpToDate(remoteSync)
  /\ UNCHANGED <<objects, github, retry, revision, pending, cleanup, latestImage,
                 resolved, budget>>

\* The worker takes the key and reads the RemoteSync from the cache.
\* IgnoreNotFound: without one there is nothing to do.
Reconcile ==
  /\ pc = "idle"
  /\ dirty
  /\ dirty' = FALSE
  /\ IF Cached(remoteSync).alive
     THEN /\ pc' = "account"
          /\ uid' = Cached(remoteSync).uid
          /\ spec' = Cached(remoteSync).spec
          /\ fresh' = UpToDate(remoteSync)
     ELSE UNCHANGED <<pc, uid, spec, fresh>>
  /\ UNCHANGED <<objects, github, retry, revision, pending, cleanup, latestImage,
                 resolved, budget>>

\* The goroutine is done and its locals are gone.
Forget ==
  /\ pc' = "idle"
  /\ uid' = NoObject
  /\ spec' = NoObject
  /\ fresh' = FALSE
  /\ revision' = NoRevision
  /\ pending' = FALSE
  /\ doomed' = {}
  /\ failed' = FALSE
  /\ latestImage' = NoRevision

\* An error goes to Reconcile's deferred handler.  While the pull request is
\* pending, Run's own deferred function hides the errors of its last part.
Fail ==
  /\ pc' = IF pc = "application" /\ pending THEN "status" ELSE "error"
  /\ UNCHANGED <<queue, uid, spec, fresh, revision, pending, cleanup, latestImage>>

\* The reply of a write reached the controller, or was lost.
ReplyLost == SpendFault /\ Fail

\* Reads of a cached object and the write that follows from it.  Create
\* fails when the object exists, Patch fails when it does not, and Patch
\* sends nothing when the cached object is as wanted.
Creates(view) == Cached(view) = NoObject /\ Live(view) = NoObject
Patches(view) == Cached(view) # NoObject /\ Live(view) # NoObject
Refused(view) == (Cached(view) = NoObject) # (Live(view) = NoObject)

-----------------------------------------------------------------------------
(* prepareServiceAccount                                                   *)

\* An account that lists the secrets is left alone, whoever owns it.
HasSecrets(account) == account # NoObject /\ spec.secrets \subseteq account.secrets

AccountReady ==
  /\ pc' = "github"
  /\ UNCHANGED <<queue, uid, spec, fresh, revision, pending, cleanup, latestImage>>

PrepareServiceAccount ==
  /\ pc = "account"
  /\ \/ /\ HasSecrets(Cached(serviceAccount))
        /\ AccountReady
        /\ UNCHANGED <<serviceAccount, budget>>
     \/ /\ ~HasSecrets(Cached(serviceAccount))
        /\ Creates(serviceAccount) \/ Patches(serviceAccount)
        /\ serviceAccount' = Write(serviceAccount, [owner |-> uid, secrets |-> spec.secrets])
        /\ (AccountReady /\ UNCHANGED budget) \/ ReplyLost
     \/ /\ ~HasSecrets(Cached(serviceAccount))
        /\ Refused(serviceAccount)
        /\ Fail
        /\ UNCHANGED <<serviceAccount, budget>>
  /\ UNCHANGED <<remoteSync, images, application, github, resolved>>

-----------------------------------------------------------------------------
(* prepareImage                                                            *)

\* The revision that a spec stands for now.
Answer(s) ==
  CASE s.kind = "sha" -> s.sha
    [] s.kind = "pull" -> github.merge
    [] s.kind = "branch" -> github.head

\* Mutant: the head of a pull request is built instead of its test merge.
ResolveHead ==
  /\ pc = "github"
  /\ revision' = IF spec.kind = "pull" THEN github.head ELSE Answer(spec)
  /\ pc' = IF spec.kind = "pull" THEN "pull" ELSE "list"
  /\ UNCHANGED <<objects, github, queue, uid, spec, fresh, pending, cleanup, latestImage,
                 resolved, budget>>

\* Which revision to build.  A pull request takes two calls: the reference
\* of its test merge, then the pull request itself.
Resolve ==
  /\ pc = "github"
  /\ revision' = Answer(spec)
  /\ pc' = IF spec.kind = "pull" THEN "pull" ELSE "list"
  /\ UNCHANGED <<objects, github, queue, uid, spec, fresh, pending, cleanup, latestImage,
                 resolved, budget>>

GetPullRequest ==
  /\ pc = "pull"
  /\ pending' = ~github.mergeable
  /\ pc' = "list"
  /\ UNCHANGED <<objects, github, queue, uid, spec, fresh, revision, cleanup, latestImage,
                 resolved, budget>>

\* cleanupOldImages: every cached Image of another name is deleted; the loop
\* goes on after a failure, and so does a deletion somebody else has made.
ListOldImages ==
  /\ pc = "list"
  /\ pc' = "images"
  /\ doomed' = {n \in Name \ {Short[revision]} : Cached(images)[n] # NoObject}
  /\ UNCHANGED <<objects, github, queue, uid, spec, fresh, revision, pending, failed,
                 latestImage, resolved, budget>>

DeleteOldImage(n) ==
  /\ pc = "images"
  /\ n \in doomed
  /\ doomed' = doomed \ {n}
  /\ \/ /\ Live(images)[n] # NoObject
        /\ images' = Write(images, [Live(images) EXCEPT ![n] = NoObject])
        /\ UNCHANGED failed /\ UNCHANGED budget
     \/ /\ Live(images)[n] = NoObject
        /\ failed' = TRUE
        /\ UNCHANGED <<images, budget>>
     \/ /\ SpendFault
        /\ failed' = TRUE
        /\ UNCHANGED images
  /\ UNCHANGED <<remoteSync, serviceAccount, application, github, queue, pc, uid, spec,
                 fresh, revision, pending, latestImage, resolved>>

\* Mutant: the failure of a deletion is forgotten.
CleanupFailsForgotten ==
  /\ pc = "images"
  /\ doomed = {}
  /\ failed
  /\ failed' = FALSE
  /\ UNCHANGED <<objects, github, queue, pc, uid, spec, fresh, revision, pending, doomed,
                 latestImage, resolved, budget>>

CleanupFails ==
  /\ pc = "images"
  /\ doomed = {}
  /\ failed
  /\ Fail
  /\ UNCHANGED <<objects, github, resolved, budget>>

\* Mutant: the missing Image is read all the same.
ImageReadyMissing(cached) ==
  /\ latestImage' = IF cached = NoObject THEN NoObject ELSE cached.built
  /\ pc' = IF latestImage' = NoRevision THEN "status" ELSE "application"
  /\ resolved' = revision
  /\ UNCHANGED <<queue, uid, spec, fresh, revision, pending, cleanup>>

\* Mutant: an Image without a build is deployed, too.
ImageReadyEmpty(cached) ==
  /\ latestImage' = IF cached = NoObject THEN NoRevision ELSE cached.built
  /\ pc' = "application"
  /\ resolved' = revision
  /\ UNCHANGED <<queue, uid, spec, fresh, revision, pending, cleanup>>

\* The build is read from the cached Image, also after a Patch.  Without a
\* build there is nothing to deploy yet.
ImageReady(cached) ==
  /\ latestImage' = IF cached = NoObject THEN NoRevision ELSE cached.built
  /\ pc' = IF latestImage' = NoRevision THEN "status" ELSE "application"
  /\ resolved' = revision
  /\ UNCHANGED <<queue, uid, spec, fresh, revision, pending, cleanup>>

\* Mutant: an Image that builds the revision keeps its owner.
WantedOwned(cached, live) ==
  [owner |-> IF live = NoObject \/ cached.revision # revision THEN uid ELSE live.owner,
   revision |-> IF live = NoObject \/ cached.revision # revision THEN revision ELSE live.revision,
   built |-> IF live = NoObject THEN NoRevision ELSE live.built]

\* patchImage: SetControllerReference takes the Image over from an earlier
\* RemoteSync of the name.  A Patch sends what differs from the cached Image.
Wanted(cached, live) ==
  IF live = NoObject
  THEN [owner |-> uid, revision |-> revision, built |-> NoRevision]
  ELSE [live EXCEPT !.owner = uid,
                    !.revision = IF cached.revision = revision THEN @ ELSE revision]

\* findImage, and Create or Patch.
PrepareImage ==
  LET n == Short[revision]
      cached == Cached(images)[n]
      live == Live(images)[n]
      upToDate == cached # NoObject /\ cached.owner = uid /\ cached.revision = revision
  IN
  /\ pc = "images"
  /\ doomed = {}
  /\ ~failed
  /\ \/ /\ upToDate
        /\ ImageReady(cached)
        /\ UNCHANGED <<images, budget>>
     \/ /\ ~upToDate
        /\ (cached = NoObject) = (live = NoObject)
        /\ images' = Write(images, [Live(images) EXCEPT ![n] = Wanted(cached, live)])
        /\ \/ ImageReady(cached) /\ UNCHANGED budget
           \/ ReplyLost /\ UNCHANGED resolved
     \/ /\ ~upToDate
        /\ (cached = NoObject) # (live = NoObject)
        /\ Fail
        /\ UNCHANGED <<images, resolved, budget>>
  /\ UNCHANGED <<remoteSync, serviceAccount, application, github>>

-----------------------------------------------------------------------------
(* The rest of Run, and Reconcile                                          *)

Deployed ==
  /\ pc' = "status"
  /\ UNCHANGED <<queue, uid, spec, fresh, revision, pending, cleanup, latestImage>>

\* Mutant: only the first image is deployed.
UpdateApplicationOnce ==
  /\ pc = "application"
  /\ IF Cached(application) = NoRevision /\ Patches(application)
     THEN application' = Write(application, latestImage)
     ELSE UNCHANGED application
  /\ Deployed
  /\ UNCHANGED <<remoteSync, serviceAccount, images, github, resolved, budget>>

UpdateApplication ==
  /\ pc = "application"
  /\ \/ /\ Cached(application) = latestImage
        /\ Deployed
        /\ UNCHANGED <<application, budget>>
     \/ /\ Cached(application) # latestImage
        /\ Patches(application)
        /\ application' = Write(application, latestImage)
        /\ (Deployed /\ UNCHANGED budget) \/ ReplyLost
     \/ /\ Cached(application) # latestImage
        /\ ~Patches(application)
        /\ Fail
        /\ UNCHANGED <<application, budget>>
  /\ UNCHANGED <<remoteSync, serviceAccount, images, github, resolved>>

\* Status().Update: a stale copy conflicts, an unchanged one stores nothing.
StoreMessage(message) ==
  IF fresh
  THEN remoteSync' = Write(remoteSync, [Live(remoteSync) EXCEPT !.message = message])
  ELSE UNCHANGED remoteSync

\* A pending pull request is looked at again after eight seconds.
UpdateStatus ==
  /\ pc = "status"
  /\ StoreMessage(IF pending THEN "merge status is pending" ELSE "")
  /\ \/ /\ fresh
        /\ Forget
        /\ retry' = (retry \/ pending)
        /\ UNCHANGED <<dirty, budget>>
     \/ /\ fresh
        /\ SpendFault
        /\ pc' = "error"
        /\ fresh' = (remoteSync' = remoteSync)
        /\ UNCHANGED <<queue, uid, spec, revision, pending, cleanup, latestImage>>
     \/ /\ ~fresh
        /\ Fail
        /\ UNCHANGED budget
  /\ UNCHANGED <<serviceAccount, images, application, github, resolved>>

\* The deferred handler stores the error, or fails to, and Reconcile returns
\* it: the key is re-added with a delay.
StoreError ==
  /\ pc = "error"
  /\ \/ StoreMessage("error") /\ UNCHANGED budget
     \/ UNCHANGED remoteSync /\ SpendFault
  /\ Forget
  /\ retry' = TRUE
  /\ UNCHANGED <<dirty, serviceAccount, images, application, github, resolved>>

\* A call fails without effect; one to the token's Secret or to GitHub too.
CallFails ==
  /\ \/ pc \in {"account", "github", "pull", "application", "status"}
     \/ pc = "images" /\ doomed = {}
  /\ SpendFault
  /\ Fail
  /\ UNCHANGED <<objects, github, resolved>>

\* The operator dies and starts again with fresh caches and a full queue.
Restart ==
  /\ SpendFault
  /\ remoteSync' = <<Live(remoteSync)>>
  /\ serviceAccount' = <<Live(serviceAccount)>>
  /\ images' = <<Live(images)>>
  /\ application' = <<Live(application)>>
  /\ dirty' = TRUE
  /\ retry' = FALSE
  /\ Forget
  /\ UNCHANGED <<github, resolved>>

Worker ==
  \/ Reconcile
  \/ PrepareServiceAccount
  \/ Resolve
  \/ GetPullRequest
  \/ ListOldImages
  \/ \E n \in Name : DeleteOldImage(n)
  \/ CleanupFails
  \/ PrepareImage
  \/ UpdateApplication
  \/ UpdateStatus
  \/ StoreError

Watch == WatchRemoteSync \/ WatchServiceAccount \/ WatchImages \/ WatchApplication

Next ==
  \/ \E r \in Revision : Push(r)
  \/ ComputeMerge
  \/ \E n \in Name : Build(n)
  \/ \E s \in Sources : Edit(s) \/ RecreateRemoteSync(s)
  \/ DeleteRemoteSync
  \/ CollectServiceAccount
  \/ \E n \in Name : CollectImage(n)
  \/ CreateApplication
  \/ DeleteApplication
  \/ DeleteServiceAccount
  \/ \E n \in Name : DeleteImage(n)
  \/ Watch
  \/ Resync
  \/ RetryTimer
  \/ Worker
  \/ CallFails
  \/ Restart

Spec == Init /\ [][Next]_vars

\* GitHub and kpack answer, the Application is created, orphans are collected,
\* the watches deliver, the timers fire (the resync every ten hours) and the
\* worker runs.
Fairness ==
  /\ WF_vars(ComputeMerge)
  /\ \A n \in Name : WF_vars(Build(n))
  /\ WF_vars(CreateApplication)
  /\ WF_vars(CollectServiceAccount \/ \E n \in Name : CollectImage(n))
  /\ WF_vars(WatchRemoteSync) /\ WF_vars(WatchServiceAccount)
  /\ WF_vars(WatchImages) /\ WF_vars(WatchApplication)
  /\ WF_vars(Resync)
  /\ WF_vars(RetryTimer)
  /\ WF_vars(Worker)

FairSpec == Spec /\ Fairness

-----------------------------------------------------------------------------
(* Properties                                                              *)

\* Every variable stays in its type, and a view always has a live version.
TypeOK ==
  /\ Versions(remoteSync, RemoteSync)
  /\ Versions(serviceAccount, Account \union {NoObject})
  /\ Versions(images, [Name -> Image \union {NoObject}])
  /\ Versions(application, Revision \union {NoRevision, NoObject})
  /\ github \in [head : Revision, merge : Revision, mergeable : BOOLEAN]
  /\ dirty \in BOOLEAN /\ retry \in BOOLEAN
  /\ pc \in {"idle", "account", "github", "pull", "list", "images", "application",
            "status", "error"}
  /\ uid \in IF pc = "idle" THEN {NoObject} ELSE 1..MaxUid
  /\ spec \in IF pc = "idle" THEN {NoObject} ELSE Sources
  /\ fresh \in BOOLEAN /\ pending \in BOOLEAN /\ failed \in BOOLEAN
  /\ {revision, latestImage, resolved} \subseteq Revision \union {NoRevision}
  /\ pc \in {"pull", "list", "images", "application"} => revision \in Revision
  /\ doomed \subseteq Name
  /\ edits \in Nat /\ faults \in Nat

\* Nothing is running, queued, scheduled or on its way from a watch of an
\* object that queues the key; or from any watch.
AtRest ==
  /\ pc = "idle" /\ ~dirty /\ ~retry
  /\ UpToDate(remoteSync) /\ UpToDate(serviceAccount) /\ UpToDate(images)

Quiet == AtRest /\ UpToDate(application)

\* The Image of revision r, owned by id, and nothing else.
OnlyImage(objs, r, id) ==
  /\ {m \in Name : objs[m] # NoObject} = {Short[r]}
  /\ objs[Short[r]].revision = r /\ objs[Short[r]].owner = id

Settled ==
  LET wanted == Live(remoteSync).spec
  IN  /\ Live(remoteSync).message = ""
      /\ Live(serviceAccount) # NoObject
      /\ wanted.secrets \subseteq Live(serviceAccount).secrets
      /\ wanted.kind = "sha" => resolved = wanted.sha
      /\ resolved \in Revision /\ OnlyImage(Live(images), resolved, Live(remoteSync).uid)

\* Whatever was deleted, edited, stale or failed, and whatever an earlier
\* RemoteSync of the name has left behind: once the controller is at rest,
\* the builder account has the secrets of the live spec, the only Image left
\* is the one of the resolved revision, which is not about to be collected,
\* and no stale message is shown.
ObjectsSettle == Quiet /\ Live(remoteSync).alive => Settled

\* While no watch has delivered anything since Reconcile began, it works on
\* the cached RemoteSync, and the revision is the one that it names.
ReadInv ==
  /\ pc # "idle" /\ ~dirty =>
       /\ Cached(remoteSync).alive
       /\ uid = Cached(remoteSync).uid /\ spec = Cached(remoteSync).spec
  /\ pc \in {"pull", "list", "images", "application", "status"} =>
       (spec.kind = "sha" => revision = spec.sha)
  /\ pc \in {"application", "status"} => resolved = revision /\ revision \in Revision

\* And while nothing has been written either, what Run has passed is as it
\* wants it.
AccountInv ==
  ~dirty /\ UpToDate(serviceAccount) =>
    (pc \in {"github", "pull", "list", "images", "application", "status"}
       => HasSecrets(Cached(serviceAccount)))

ImagesInv ==
  ~dirty /\ UpToDate(images) =>
    /\ pc = "images" /\ ~failed =>
         {m \in Name : Cached(images)[m] # NoObject} \subseteq doomed \union {Short[revision]}
    /\ pc \in {"application", "status"} => OnlyImage(Cached(images), revision, uid)

\* The strengthening of ObjectsSettle that every step preserves.
IInv ==
  /\ TypeOK
  /\ ReadInv /\ AccountInv /\ ImagesInv
  /\ AtRest /\ Live(remoteSync).alive => Settled

\* "... then deploying the image to Application": at rest, the Application
\* runs the image of the resolved revision if kpack has built it.
ImageIsDeployed ==
  Quiet /\ Live(remoteSync).alive =>
    LET built == Live(images)[Short[resolved]].built
    IN  built = resolved => Live(application) = resolved

\* An Application that follows a pull request (or a branch that is never
\* reset) is never moved back to an older revision, although the builds of
\* old Images linger in the cache and its own version is read from one; nor
\* does an image of it become an empty one.
NeverRollsBack ==
  [][Live(application) \in Revision =>
       \/ Live(application)' = NoObject
       \/ Live(application)' \in Revision /\ Live(application)' >= Live(application)]_vars

\* What the order of deployments rests on: the RemoteSync always follows the
\* same branch, pull request or commit, a branch is not reset, and no two
\* revisions share the Image of one short name.
Linear ==
  /\ ~Rewind
  /\ \A s, t \in Sources : s.kind = t.kind /\ (s.kind = "sha" => s.sha = t.sha)
  /\ \A r, q \in Revision : Short[r] = Short[q] => r = q

\* The revision that GitHub names for the RemoteSync.
Named == Answer(Live(remoteSync).spec)

\* No version of the Application, stored or on its way to the cache, runs a
\* later revision.
Reached(r) == \A app \in Held(application) : app \in Revision => app <= r

\* An Image builds the one revision of its name, which GitHub has named.
ImageOf(image, n) ==
  /\ Short[image.revision] = n /\ image.revision <= Named
  /\ image.built \in {NoRevision, image.revision}

\* The strengthening of NeverRollsBack: what Images build, and what Run works
\* on, is no later than what GitHub names and no older than what was deployed.
OrderInv ==
  /\ github.merge <= github.head
  /\ \A objs \in Held(images), n \in Name : objs[n] # NoObject => ImageOf(objs[n], n)
  /\ Reached(Named)
  /\ pc \in {"pull", "list", "images", "application"} =>
       revision <= Named /\ Reached(revision)
  /\ pc = "application" => latestImage = revision

\* Nobody deletes the Application.
ApplicationStays == [][Live(application) # NoObject => Live(application)' # NoObject]_vars

\* The strengthening of ImageIsDeployed, for an Application that stays: once
\* it has an image, it keeps one, and a Reconcile that meets no event has
\* deployed the build it has found.
DeployInv ==
  /\ \A app \in Held(application) : app \in Revision =>
       Live(application) \in Revision /\ app <= Live(application)
  /\ pc = "status" /\ ~pending /\ ~dirty /\ UpToDate(images) =>
       (Cached(images)[Short[revision]].built = revision => Live(application) = revision)
  /\ AtRest /\ Live(remoteSync).alive =>
       (Live(images)[Short[resolved]].built = resolved => Live(application) = resolved)

\* The revisions of which a build is stored, cached or in Reconcile's hands.
KnownBuilds == {r \in Revision :
  \/ r = latestImage
  \/ \E objs \in Held(images), n \in Name : objs[n] # NoObject /\ objs[n].built = r}

Roll == INSTANCE Rollout
  WITH named <- Named, builds <- KnownBuilds, running <- Live(application)

\* Stale caches, retries, crashes, and Images and RemoteSyncs that are deleted
\* and made again, only ever move the Application from one build to a later
\* one, made of a revision that GitHub has named.
Refines == Roll!Spec

Target ==
  LET wanted == Live(remoteSync).spec
  IN  IF wanted.kind = "sha" THEN wanted.sha ELSE github.head

\* Once pushes, edits and faults are over, the Application runs the image of
\* the revision the RemoteSync follows, and keeps it.
HeadIsDeployed == <>[](Live(remoteSync).alive => Live(application) = Target)

\* What a deleted RemoteSync owned goes, also what a Reconcile that had still
\* read it from the cache created afterwards.
NothingIsLeft ==
  <>[](Live(remoteSync).alive
         \/ (Live(serviceAccount) = NoObject /\ Live(images) = [n \in Name |-> NoObject]))
=============================================================================
