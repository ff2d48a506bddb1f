--------------------------- MODULE GitHubPipeline ----------------------------
(***************************************************************************)
(* The AppPipeline controller (controllers/apppipeline_controller.go) and  *)
(* the pipeline it runs (pkg/pipeline/github): for one AppPipeline, an     *)
(* Application and a RemoteSync for every open pull request of a           *)
(* repository.                                                             *)
(*                                                                         *)
(* Objects are read through informers (module Informer).  CreateOrUpdate   *)
(* reads the cached object and creates or updates the live one in one      *)
(* step, as in RemoteSyncReconciler.                                       *)
(***************************************************************************)
EXTENDS Informer, FiniteSets

CONSTANTS
  PullRequests,  \* numbers of pull requests
  PageSize,      \* length of a page of PullRequests.List
  Field,         \* command, args and the keys of attributes
  Value,         \* values of those fields
  Unset,         \* an empty field
  Base,          \* domainBase, base.github and image: what is always copied
  Specs,         \* values of AppPipeline.spec: [template, base]
  NoObject,      \* an object that does not exist
  MaxUid,        \* AppPipelines of the name, one after the other
  MaxLag,        \* versions of the previews that the collector may run ahead of the cache
  MaxEvents,     \* pull requests opened or closed, edits, deletions
  MaxFaults      \* writes by others, failed calls and crashes

ASSUME PipelineAssumption ==
  /\ PullRequests \subseteq Nat /\ IsFiniteSet(PullRequests)
  /\ PageSize \in Nat \ {0}
  /\ Specs \subseteq [template : [Field -> Value \union {Unset}], base : Base]
  /\ Unset \notin Value

ASSUME LimitAssumption == 
  /\ MaxUid \in Nat \ {0} /\ MaxLag \in Nat /\ MaxEvents \in Nat /\ MaxFaults \in Nat

VARIABLES
  open,         \* the open pull requests
  pipeline,     \* view of the AppPipeline of the name
  applications, \* view of the Applications labelled with it
  remoteSyncs,  \* view of the RemoteSyncs labelled with it
  dirty,        \* the key waits in the work queue
  retry,        \* a delayed re-add of the key is scheduled
  pc,           \* the call Reconcile is about to make
  pl,           \* the AppPipeline Reconcile works on
  fresh,        \* the version Reconcile has read is still the live one
  list,         \* the pull requests that GitHub answered
  todo,         \* those the running loop has not reached yet
  failed,       \* one of the deletions failed
  listed,       \* history: the last list whose loops all succeeded
  events, faults

objects == <<pipeline, applications, remoteSyncs>>
queue == <<dirty, retry>>
locals == <<pl, fresh, list, todo, failed>>
budget == <<events, faults>>
vars == <<open, objects, queue, pc, locals, listed, budget>>

-----------------------------------------------------------------------------
(* Data                                                                    *)

Message == {"", "error"}

\* Of an AppPipeline that is gone, the cluster remembers the uid.
AppPipeline == [uid : 1..MaxUid, alive : BOOLEAN, spec : Specs, message : Message]
NewPipeline(uid, s) == [uid |-> uid, alive |-> TRUE, spec |-> s, message |-> ""]

\* What the pipeline writes into an Application and a RemoteSync: owner is
\* the uid in the controller reference, 0 for none, and others a version of
\* what the other controllers write into it.
Application == [owner : 0..MaxUid, fields : [Field -> Value \union {Unset}],
                base : Base \union {Unset}, others : {0, 1}]
RemoteSync == [owner : 0..MaxUid, base : Base \union {Unset}, others : {0, 1}]

ASSUME ObjectAssumption ==
  /\ NoObject \notin Application \union RemoteSync \union [uid : 1..MaxUid, spec : Specs]
  /\ \A prs \in SUBSET PullRequests : NoObject # prs

NewApplication == [owner |-> 0, fields |-> [f \in Field |-> Unset], base |-> Unset, others |-> 0]

\* Mutant: the new RemoteSync has no place for its base.
NewRemoteSyncBare == [owner |-> 0, others |-> 0]

NewRemoteSync == [owner |-> 0, base |-> Unset, others |-> 0]

\* Mutant: the spec is built anew.
MutateApplicationAnew(object) ==
  [NewApplication EXCEPT !.owner = pl.uid, !.base = pl.spec.base, !.fields = pl.spec.template]

\* Mutant: an object that has an owner keeps it.
MutateApplicationOwned(object) ==
  [object EXCEPT
     !.owner = IF @ = 0 THEN pl.uid ELSE @,
     !.base = pl.spec.base,
     !.fields = [f \in Field |->
       IF pl.spec.template[f] # Unset THEN pl.spec.template[f] ELSE object.fields[f]]]

\* mutateApplication: an empty field of the template leaves the old value; the
\* domain is always written.  SetControllerReference takes the object over from
\* an earlier AppPipeline of the name.
MutateApplication(object) ==
  [object EXCEPT
     !.owner = pl.uid,
     !.base = pl.spec.base,
     !.fields = [f \in Field |->
       IF pl.spec.template[f] # Unset THEN pl.spec.template[f] ELSE object.fields[f]]]

\* mutateRemoteSync: the pull request's number goes with the name.  The
\* pipeline's subPath is not copied.
MutateRemoteSync(object) == [object EXCEPT !.owner = pl.uid, !.base = pl.spec.base]

\* The first page: GitHub answers the newest pull requests first.
FirstPage(prs) == {n \in prs : Cardinality({m \in prs : m > n}) < PageSize}

Existing(objs) == {n \in PullRequests : objs[n] # NoObject}

\* CreateOrUpdate: Create fails on an object the cache has not seen yet, and
\* Update on a version the cache has not seen yet.
Conflict(view, n) ==
  IF Cached(view)[n] = NoObject
  THEN Live(view)[n] # NoObject
  ELSE \E i \in 1..Len(view) : view[i][n] # Cached(view)[n]

Without(view, n) == Write(view, [Live(view) EXCEPT ![n] = NoObject])

SpendEvent == events < MaxEvents /\ events' = events + 1 /\ UNCHANGED faults
SpendFault == faults < MaxFaults /\ faults' = faults + 1 /\ UNCHANGED events

-----------------------------------------------------------------------------
Init ==
  /\ open \in SUBSET PullRequests
  /\ \E s \in Specs : pipeline = <<NewPipeline(1, s)>>
  /\ applications = <<[n \in PullRequests |-> NoObject]>>
  /\ remoteSyncs = <<[n \in PullRequests |-> NoObject]>>
  /\ dirty = TRUE
  /\ retry = FALSE
  /\ pc = "idle"
  /\ pl = NoObject
  /\ fresh = FALSE
  /\ list = {}
  /\ todo = {}
  /\ failed = FALSE
  /\ listed = {}
  /\ events = 0
  /\ faults = 0

-----------------------------------------------------------------------------
(* GitHub, users, other controllers and the watches                        *)

Open(n) ==
  /\ SpendEvent
  /\ n \notin open
  /\ open' = open \union {n}
  /\ UNCHANGED <<objects, queue, pc, locals, listed>>

Close(n) ==
  /\ SpendEvent
  /\ n \in open
  /\ open' = open \ {n}
  /\ UNCHANGED <<objects, queue, pc, locals, listed>>

\* A user changes the spec, or the webhook server refreshes the AppPipeline.
Edit(s) ==
  /\ Live(pipeline).alive
  /\ SpendEvent
  /\ pipeline' = Append(pipeline, [Live(pipeline) EXCEPT !.spec = s])
  /\ fresh' = FALSE
  /\ UNCHANGED <<open, applications, remoteSyncs, queue, pc, pl, list, todo,
                 failed, listed>>

DeletePipeline ==
  /\ Live(pipeline).alive
  /\ SpendEvent
  /\ pipeline' = Append(pipeline, [Live(pipeline) EXCEPT !.alive = FALSE])
  /\ fresh' = FALSE
  /\ UNCHANGED <<open, applications, remoteSyncs, queue, pc, pl, list, todo,
                 failed, listed>>

\* Another AppPipeline of the same name.
RecreatePipeline(s) ==
  /\ ~Live(pipeline).alive
  /\ Live(pipeline).uid < MaxUid
  /\ pipeline' = Append(pipeline, NewPipeline(Live(pipeline).uid + 1, s))
  /\ UNCHANGED <<open, applications, remoteSyncs, queue, pc, locals, listed, budget>>

\* The owner is gone.
Orphan(object) == ~(Live(pipeline).alive /\ object.owner = Live(pipeline).uid)

CollectApplication(n) ==
  /\ Live(applications)[n] # NoObject /\ Len(applications) <= MaxLag
  /\ Orphan(Live(applications)[n])
  /\ applications' = Without(applications, n)
  /\ UNCHANGED <<open, pipeline, remoteSyncs, queue, pc, locals, listed, budget>>

CollectRemoteSync(n) ==
  /\ Live(remoteSyncs)[n] # NoObject /\ Len(remoteSyncs) <= MaxLag
  /\ Orphan(Live(remoteSyncs)[n])
  /\ remoteSyncs' = Without(remoteSyncs, n)
  /\ UNCHANGED <<open, pipeline, applications, queue, pc, locals, listed, budget>>

\* The other controllers store an image or a status.
TouchApplication(n) ==
  /\ Live(applications)[n] # NoObject
  /\ SpendFault
  /\ applications' = Write(applications, [Live(applications) EXCEPT ![n].others = 1 - @])
  /\ UNCHANGED <<open, pipeline, remoteSyncs, queue, pc, locals, listed>>

TouchRemoteSync(n) ==
  /\ Live(remoteSyncs)[n] # NoObject
  /\ SpendFault
  /\ remoteSyncs' = Write(remoteSyncs, [Live(remoteSyncs) EXCEPT ![n].others = 1 - @])
  /\ UNCHANGED <<open, pipeline, applications, queue, pc, locals, listed>>

\* A user, or the collector with an old copy, deletes one object of a preview,
\* or edits it.
DeletePreview(n) ==
  /\ SpendFault
  /\ \/ /\ Live(applications)[n] # NoObject
        /\ applications' = Without(applications, n)
        /\ UNCHANGED remoteSyncs
     \/ /\ Live(remoteSyncs)[n] # NoObject
        /\ remoteSyncs' = Without(remoteSyncs, n)
        /\ UNCHANGED applications
  /\ UNCHANGED <<open, pipeline, queue, pc, locals, listed>>

EditPreview(n) ==
  /\ SpendFault
  /\ \/ /\ Live(applications)[n] # NoObject
        /\ \/ \E f \in Field, v \in Value :
                applications' = Write(applications, [Live(applications) EXCEPT ![n].fields[f] = v])
           \/ \E b \in Base :
                applications' = Write(applications, [Live(applications) EXCEPT ![n].base = b])
        /\ applications' # applications
        /\ UNCHANGED remoteSyncs
     \/ /\ Live(remoteSyncs)[n] # NoObject
        /\ \E b \in Base :
             remoteSyncs' = Write(remoteSyncs, [Live(remoteSyncs) EXCEPT ![n].base = b])
        /\ remoteSyncs' # remoteSyncs
        /\ UNCHANGED applications
  /\ UNCHANGED <<open, pipeline, queue, pc, locals, listed>>

\* Every event of the AppPipeline or of an object it owns adds its key.
WatchPipeline ==
  /\ ~UpToDate(pipeline)
  /\ pipeline' = Tail(pipeline)
  /\ dirty' = TRUE
  /\ UNCHANGED <<open, applications, remoteSyncs, retry, pc, locals, listed, budget>>

WatchApplications ==
  /\ ~UpToDate(applications)
  /\ applications' = Tail(applications)
  /\ dirty' = TRUE
  /\ UNCHANGED <<open, pipeline, remoteSyncs, retry, pc, locals, listed, budget>>

\* Mutant: the controller does not own RemoteSyncs.
WatchRemoteSyncsUnowned ==
  /\ ~UpToDate(remoteSyncs)
  /\ remoteSyncs' = Tail(remoteSyncs)
  /\ UNCHANGED <<open, pipeline, applications, queue, pc, locals, listed, budget>>

WatchRemoteSyncs ==
  /\ ~UpToDate(remoteSyncs)
  /\ remoteSyncs' = Tail(remoteSyncs)
  /\ dirty' = TRUE
  /\ UNCHANGED <<open, pipeline, applications, retry, pc, locals, listed, budget>>

Resync ==
  /\ dirty' = TRUE
  /\ UNCHANGED <<open, objects, retry, pc, locals, listed, budget>>

RetryTimer ==
  /\ retry
  /\ retry' = FALSE
  /\ dirty' = TRUE
  /\ UNCHANGED <<open, objects, pc, locals, listed, budget>>

-----------------------------------------------------------------------------
(* Reconcile                                                               *)

Forget ==
  /\ pc' = "idle"
  /\ pl' = NoObject
  /\ fresh' = FALSE
  /\ list' = {}
  /\ todo' = {}
  /\ failed' = FALSE

Fail ==
  /\ pc' = "error"
  /\ UNCHANGED <<queue, pl, fresh, list, todo, failed>>

ReplyLost == SpendFault /\ Fail

\* IgnoreNotFound: without the AppPipeline there is nothing to do.
Reconcile ==
  /\ pc = "idle"
  /\ dirty
  /\ dirty' = FALSE
  /\ IF Cached(pipeline).alive
     THEN /\ pc' = "list"
          /\ pl' = [uid |-> Cached(pipeline).uid, spec |-> Cached(pipeline).spec]
          /\ fresh' = UpToDate(pipeline)
     ELSE UNCHANGED <<pc, pl, fresh>>
  /\ UNCHANGED <<open, objects, retry, list, todo, failed, listed, budget>>

\* PullRequests.List without a page: the answer is the first page.
ListPullRequests ==
  /\ pc = "list"
  /\ list' = FirstPage(open)
  /\ todo' = FirstPage(open)
  /\ pc' = "applications"
  /\ UNCHANGED <<open, objects, queue, pl, fresh, failed, listed, budget>>

\* One pull request of a loop is done; its order is GitHub's.
Done(n) ==
  /\ todo' = todo \ {n}
  /\ UNCHANGED <<queue, pc, pl, fresh, list, failed>>

\* CreateOrUpdate and the wish of a mutate function: nothing is sent when the
\* cached object is as wanted.
PrepareApplication(n) ==
  LET cached == Cached(applications)[n]
      wanted == MutateApplication(IF cached = NoObject THEN NewApplication ELSE cached)
  IN
  /\ pc = "applications"
  /\ n \in todo
  /\ \/ /\ wanted = cached
        /\ Done(n)
        /\ UNCHANGED <<applications, budget>>
     \/ /\ wanted # cached
        /\ ~Conflict(applications, n)
        /\ applications' = Write(applications, [Live(applications) EXCEPT ![n] = wanted])
        /\ (Done(n) /\ UNCHANGED budget) \/ ReplyLost
     \/ /\ wanted # cached
        /\ Conflict(applications, n)
        /\ Fail
        /\ UNCHANGED <<applications, budget>>
  /\ UNCHANGED <<open, pipeline, remoteSyncs, listed>>

PrepareRemoteSync(n) ==
  LET cached == Cached(remoteSyncs)[n]
      wanted == MutateRemoteSync(IF cached = NoObject THEN NewRemoteSync ELSE cached)
  IN
  /\ pc = "remoteSyncs"
  /\ n \in todo
  /\ \/ /\ wanted = cached
        /\ Done(n)
        /\ UNCHANGED <<remoteSyncs, budget>>
     \/ /\ wanted # cached
        /\ ~Conflict(remoteSyncs, n)
        /\ remoteSyncs' = Write(remoteSyncs, [Live(remoteSyncs) EXCEPT ![n] = wanted])
        /\ (Done(n) /\ UNCHANGED budget) \/ ReplyLost
     \/ /\ wanted # cached
        /\ Conflict(remoteSyncs, n)
        /\ Fail
        /\ UNCHANGED <<remoteSyncs, budget>>
  /\ UNCHANGED <<open, pipeline, applications, listed>>

\* Mutant: every cached object is obsolete.
ListObsoleteAppsAll ==
  /\ pc = "applications"
  /\ todo = {}
  /\ pc' = "deleteApps"
  /\ todo' = Existing(Cached(applications))
  /\ UNCHANGED <<open, objects, queue, pl, fresh, list, failed, listed, budget>>

\* The loop is over; the cached objects of pull requests that are not in the
\* list are to be deleted.
ListObsoleteApps ==
  /\ pc = "applications"
  /\ todo = {}
  /\ pc' = "deleteApps"
  /\ todo' = Existing(Cached(applications)) \ list
  /\ UNCHANGED <<open, objects, queue, pl, fresh, list, failed, listed, budget>>

\* Mutant: obsolete RemoteSyncs are not looked for.
ListObsoleteRemoteSyncsNone ==
  /\ pc = "remoteSyncs"
  /\ todo = {}
  /\ pc' = "deleteRemoteSyncs"
  /\ UNCHANGED <<open, objects, queue, pl, fresh, list, todo, failed, listed, budget>>

ListObsoleteRemoteSyncs ==
  /\ pc = "remoteSyncs"
  /\ todo = {}
  /\ pc' = "deleteRemoteSyncs"
  /\ todo' = Existing(Cached(remoteSyncs)) \ list
  /\ UNCHANGED <<open, objects, queue, pl, fresh, list, failed, listed, budget>>

\* A deletion that fails is remembered and the loop goes on; that the object
\* is gone already is no failure.
DeleteApp(n) ==
  /\ pc = "deleteApps"
  /\ n \in todo
  /\ todo' = todo \ {n}
  /\ \/ /\ applications' = Without(applications, n)
        /\ UNCHANGED <<failed, budget>>
     \/ /\ SpendFault
        /\ failed' = TRUE
        /\ applications' \in {applications, Without(applications, n)}
  /\ UNCHANGED <<open, pipeline, remoteSyncs, queue, pc, pl, fresh, list, listed>>

DeleteRemoteSync(n) ==
  /\ pc = "deleteRemoteSyncs"
  /\ n \in todo
  /\ todo' = todo \ {n}
  /\ \/ /\ remoteSyncs' = Without(remoteSyncs, n)
        /\ UNCHANGED <<failed, budget>>
     \/ /\ SpendFault
        /\ failed' = TRUE
        /\ remoteSyncs' \in {remoteSyncs, Without(remoteSyncs, n)}
  /\ UNCHANGED <<open, pipeline, applications, queue, pc, pl, fresh, list, listed>>

\* Mutant: a failed deletion does not stop the pipeline.
AppsPreparedAnyway ==
  /\ pc = "deleteApps"
  /\ todo = {}
  /\ pc' = "remoteSyncs"
  /\ todo' = list
  /\ UNCHANGED <<open, objects, queue, pl, fresh, list, failed, listed, budget>>

\* prepareRemoteSyncs only runs when prepareApplications has not failed.
AppsPrepared ==
  /\ pc = "deleteApps"
  /\ todo = {}
  /\ IF failed
     THEN Fail
     ELSE /\ pc' = "remoteSyncs"
          /\ todo' = list
          /\ UNCHANGED <<queue, pl, fresh, list, failed>>
  /\ UNCHANGED <<open, objects, listed, budget>>

RemoteSyncsPrepared ==
  /\ pc = "deleteRemoteSyncs"
  /\ todo = {}
  /\ IF failed
     THEN Fail /\ UNCHANGED listed
     ELSE /\ pc' = "status"
          /\ listed' = list
          /\ UNCHANGED <<queue, pl, fresh, list, todo, failed>>
  /\ UNCHANGED <<open, objects, budget>>

\* Status().Update: a stale copy conflicts, an unchanged one stores nothing.
StoreMessage(message) ==
  IF fresh
  THEN pipeline' = Write(pipeline, [Live(pipeline) EXCEPT !.message = message])
  ELSE UNCHANGED pipeline

UpdateStatus ==
  /\ pc = "status"
  /\ StoreMessage("")
  /\ \/ /\ fresh
        /\ Forget
        /\ UNCHANGED <<queue, budget>>
     \/ /\ fresh
        /\ SpendFault
        /\ pc' = "error"
        /\ fresh' = (pipeline' = pipeline)
        /\ UNCHANGED <<queue, pl, list, todo, failed>>
     \/ /\ ~fresh
        /\ Fail
        /\ UNCHANGED budget
  /\ UNCHANGED <<open, applications, remoteSyncs, listed>>

\* The deferred handler stores the error, or fails to, and Reconcile returns
\* it: the key is re-added with a delay.
StoreError ==
  /\ pc = "error"
  /\ \/ StoreMessage("error") /\ UNCHANGED budget
     \/ UNCHANGED pipeline /\ SpendFault
  /\ Forget
  /\ retry' = TRUE
  /\ UNCHANGED <<dirty, open, applications, remoteSyncs, listed>>

\* A call other than Delete fails without effect: GitHub, the token's
\* Secret, CreateOrUpdate or the status.
CallFails ==
  /\ \/ pc \in {"list", "status"}
     \/ pc \in {"applications", "remoteSyncs"} /\ todo # {}
  /\ SpendFault
  /\ Fail
  /\ UNCHANGED <<open, objects, listed>>

\* The operator dies and starts again with fresh caches and a full queue.
Restart ==
  /\ SpendFault
  /\ pipeline' = <<Live(pipeline)>>
  /\ applications' = <<Live(applications)>>
  /\ remoteSyncs' = <<Live(remoteSyncs)>>
  /\ dirty' = TRUE
  /\ retry' = FALSE
  /\ Forget
  /\ UNCHANGED <<open, listed>>

Worker ==
  \/ Reconcile
  \/ ListPullRequests
  \/ \E n \in PullRequests :
        \/ PrepareApplication(n)
        \/ DeleteApp(n)
        \/ PrepareRemoteSync(n)
        \/ DeleteRemoteSync(n)
  \/ ListObsoleteApps
  \/ AppsPrepared
  \/ ListObsoleteRemoteSyncs
  \/ RemoteSyncsPrepared
  \/ UpdateStatus
  \/ StoreError

Next ==
  \/ \E n \in PullRequests :
        \/ Open(n)
        \/ Close(n)
        \/ TouchApplication(n)
        \/ TouchRemoteSync(n)
        \/ DeletePreview(n)
        \/ EditPreview(n)
        \/ CollectApplication(n)
        \/ CollectRemoteSync(n)
  \/ \E s \in Specs : Edit(s) \/ RecreatePipeline(s)
  \/ DeletePipeline
  \/ WatchPipeline
  \/ WatchApplications
  \/ WatchRemoteSyncs
  \/ Resync
  \/ RetryTimer
  \/ Worker
  \/ CallFails
  \/ Restart

Spec == Init /\ [][Next]_vars

\* Each watch delivers, the timers fire (the resync every ten hours) and the
\* worker runs; the garbage collector gets to every orphan.
Fairness ==
  /\ WF_vars(WatchPipeline) /\ WF_vars(WatchApplications) /\ WF_vars(WatchRemoteSyncs)
  /\ WF_vars(Resync) /\ WF_vars(RetryTimer) /\ WF_vars(Worker)
  /\ WF_vars(\E n \in PullRequests : CollectApplication(n) \/ CollectRemoteSync(n))

FairSpec == Spec /\ Fairness

-----------------------------------------------------------------------------
(* Properties                                                              *)

\* Every variable stays in its type, and a view always has a live version.
TypeOK ==
  /\ open \subseteq PullRequests
  /\ Versions(pipeline, AppPipeline)
  /\ Versions(applications, [PullRequests -> Application \union {NoObject}])
  /\ Versions(remoteSyncs, [PullRequests -> RemoteSync \union {NoObject}])
  /\ dirty \in BOOLEAN /\ retry \in BOOLEAN
  /\ pc \in {"idle", "list", "applications", "deleteApps", "remoteSyncs",
            "deleteRemoteSyncs", "status", "error"}
  /\ pl \in IF pc = "idle" THEN {NoObject} ELSE [uid : 1..MaxUid, spec : Specs]
  /\ fresh \in BOOLEAN /\ failed \in BOOLEAN
  /\ list \subseteq PullRequests /\ todo \subseteq PullRequests
  /\ listed \subseteq PullRequests
  /\ events \in Nat /\ faults \in Nat

\* Nothing is running, queued, scheduled or on its way from a watch.
Quiet ==
  /\ pc = "idle" /\ ~dirty /\ ~retry
  /\ UpToDate(pipeline) /\ UpToDate(applications) /\ UpToDate(remoteSyncs)

\* The cached Application and RemoteSync of pull request n are as the
\* AppPipeline p has them.
AppAgrees(p, n) ==
  LET app == Cached(applications)[n] IN
  /\ app # NoObject
  /\ app.owner = p.uid /\ app.base = p.spec.base
  /\ \A f \in Field : p.spec.template[f] # Unset => app.fields[f] = p.spec.template[f]

SyncAgrees(p, n) ==
  LET sync == Cached(remoteSyncs)[n]
  IN  sync # NoObject /\ sync.owner = p.uid /\ sync.base = p.spec.base

\* Once the controller is at rest, the pull requests it has seen have one
\* Application and one RemoteSync each, no other preview is left, both agree
\* with the live AppPipeline, and its message is not stale: in spite of
\* conflicts with the other controllers, of calls that failed half way
\* through the four loops, of previews that users deleted or edited, and of
\* those that an earlier AppPipeline of the name has left behind.
PreviewsSettle ==
  Quiet /\ Live(pipeline).alive =>
    /\ Existing(Live(applications)) = listed /\ Existing(Live(remoteSyncs)) = listed
    /\ \A n \in listed : AppAgrees(Live(pipeline), n) /\ SyncAgrees(Live(pipeline), n)
    /\ Live(pipeline).message = ""

\* While no watch has delivered anything since Reconcile began, it works on
\* the cached AppPipeline.
ReadInv ==
  pc # "idle" /\ ~dirty =>
    /\ Cached(pipeline).alive
    /\ pl = [uid |-> Cached(pipeline).uid, spec |-> Cached(pipeline).spec]

\* And while nothing has been written either, what its loops have passed is
\* as they want it.
AppsInv ==
  pc # "idle" /\ ~dirty /\ UpToDate(applications) =>
    /\ pc = "applications" => \A n \in list \ todo : AppAgrees(pl, n)
    /\ pc \in {"deleteApps", "remoteSyncs", "deleteRemoteSyncs", "status"} =>
         \A n \in list : AppAgrees(pl, n)
    /\ pc = "deleteApps" /\ ~failed => Existing(Cached(applications)) \subseteq list \union todo
    /\ pc \in {"remoteSyncs", "deleteRemoteSyncs", "status"} =>
         Existing(Cached(applications)) \subseteq list

SyncsInv ==
  pc # "idle" /\ ~dirty /\ UpToDate(remoteSyncs) =>
    /\ pc = "remoteSyncs" => \A n \in list \ todo : SyncAgrees(pl, n)
    /\ pc \in {"deleteRemoteSyncs", "status"} => \A n \in list : SyncAgrees(pl, n)
    /\ pc = "deleteRemoteSyncs" /\ ~failed =>
         Existing(Cached(remoteSyncs)) \subseteq list \union todo
    /\ pc = "status" => Existing(Cached(remoteSyncs)) \subseteq list

\* The strengthening of PreviewsSettle that every step preserves.
IInv ==
  /\ TypeOK
  /\ ReadInv /\ AppsInv /\ SyncsInv
  /\ pc = "status" => listed = list
  /\ PreviewsSettle

OthersKept(before, after) ==
  before # NoObject /\ after # NoObject => after.others = before.others

\* What another controller has stored in a preview survives every write of
\* the pipeline, which works on a cached copy: a step of the worker that
\* leaves the object there never changes it.
NoLostUpdate ==
  [][\A n \in PullRequests :
       \/ UNCHANGED <<pc, todo>>
       \/ /\ OthersKept(Live(applications)[n], Live(applications)'[n])
          /\ OthersKept(Live(remoteSyncs)[n], Live(remoteSyncs)'[n])]_vars

Prev == INSTANCE Previews
  WITH upcoming <- pipeline,
       following <- IF pc \in {"idle", "error"} THEN NoObject ELSE pl,
       list <- IF pc \in {"idle", "list", "error"} THEN NoObject ELSE list,
       apps <- Live(applications),
       syncs <- Live(remoteSyncs)

\* Stale caches, conflicts, lost replies, crashes and AppPipelines that come
\* and go do not show in the previews, if no user writes them: each changes
\* only by the whole template of the AppPipeline that is followed, written
\* over its live version, or goes because its pull request was not open or
\* its owner is gone.
Refines == Prev!Spec

\* With users: even so, a preview comes into being, or changes hands, only as
\* the AppPipeline followed and the list of pull requests have it.
RefinesWithUsers == Prev!SpecWithUsers

\* No user writes previews.
LeftAlone == [][\A n \in PullRequests : ~DeletePreview(n) /\ ~EditPreview(n)]_vars

\* Once pull requests are opened and closed no more, exactly the open ones
\* have a preview, and it stays; or none has, when the AppPipeline is gone.
PreviewsFollow ==
  <>[](LET wanted == IF Live(pipeline).alive THEN open ELSE {}
       IN  Existing(Live(applications)) = wanted /\ Existing(Live(remoteSyncs)) = wanted)
=============================================================================
