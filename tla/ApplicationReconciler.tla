------------------------ MODULE ApplicationReconciler ------------------------
(***************************************************************************)
(* The Application controller (controllers/application_controller.go): one *)
(* Application object in the API server, the informer cache and work queue *)
(* in front of the controller, the steps of Reconcile between its calls to *)
(* the API server, and the child objects it applies.                       *)
(*                                                                         *)
(* The API server keeps every version of the Application in "log"; the     *)
(* resource version of an entry is its index.  The controller reads the    *)
(* Application from its cache, which is the entry "seen" of that log, and  *)
(* reads and writes the children directly.                                 *)
(***************************************************************************)
EXTENDS Naturals, Sequences

CONSTANTS
  Specs,        \* values of Application.spec
  Broken,       \* the specs for which the generator exits with an error
  Resource,     \* identities (GVK, namespace, name) of child objects
  Content,      \* generated manifests of one child, up to equality
  NoObject,     \* "no such child", outside Content
  Foreign,      \* a child that carries no last-applied annotation
  Manifest,     \* Manifest[s][r]: what the chart generates for r from s
  Domains,      \* Domains[s]: spec.domains of s
  NoDomains,    \* status.domains of a new Application
  MaxVersions,  \* users stop editing once the log has this many versions
  MaxUid,       \* how many times the name may be created
  MaxFaults     \* failed calls, lost replies and crashes in a behaviour

ASSUME ManifestAssumption ==
  /\ Broken \subseteq Specs
  /\ Manifest \in [Specs -> [Resource -> Content \union {NoObject}]]
  /\ NoObject \notin Content
  /\ Foreign \notin Content
  /\ Foreign # NoObject

ASSUME BoundsAssumption ==
  MaxVersions \in Nat /\ MaxUid \in Nat /\ MaxFaults \in Nat

VARIABLES
  log,      \* versions of the Application: <<oldest, ..., live>>
  seen,     \* version in the informer cache, 0 before the first event
  dirty,    \* the key waits in the work queue
  retry,    \* a rate-limited re-add of the key is scheduled
  pc,       \* the call Reconcile is about to make
  rv,       \* version of the Application that Reconcile works on
  todo,     \* generated objects that the loop has not dealt with yet
  cur,      \* the object between its Get and its Create or Patch, else NoObject
  kept,     \* the local "resources": objects found and brought up to date
  applied,  \* applied[r]: last-applied content of child r
  owner,    \* owner[r]: uid in the controller reference of r, 0 for none
  faults    \* faults spent so far

queue == <<dirty, retry>>
locals == <<rv, todo, cur, kept>>
children == <<applied, owner>>
vars == <<log, seen, queue, pc, locals, children, faults>>

-----------------------------------------------------------------------------
(* Data                                                                    *)

\* The objects the generator prints for spec s.
Gen(s) == {r \in Resource : Manifest[s][r] # NoObject}

\* ApplicationStatus.  The deferred handler would store "failed".
Status == [phase : {"", "deployed", "failed"},
           domains : {Domains[s] : s \in Specs} \union {NoDomains},
           resources : SUBSET Resource]

NoStatus == [phase |-> "", domains |-> NoDomains, resources |-> {}]

\* One version of the object; alive is FALSE in the version that records
\* its deletion.
Application == [uid : Nat, alive : BOOLEAN, spec : Specs, status : Status]

Live == log[Len(log)]
Cached == log[seen]
app == log[rv]

NewApplication(uid, s) ==
  [uid |-> uid, alive |-> TRUE, spec |-> s, status |-> NoStatus]

\* FilterApplicationResource: the elements of src that are not in target.
FilterApplicationResource(src, target) == src \ target

-----------------------------------------------------------------------------
\* A user has created the Application; children that somebody else made
\* under the generated names may be there already.
Init ==
  /\ \E s \in Specs : log = <<NewApplication(1, s)>>
  /\ seen = 0
  /\ dirty = FALSE
  /\ retry = FALSE
  /\ pc = "idle"
  /\ rv = 0
  /\ todo = {}
  /\ cur = NoObject
  /\ kept = {}
  /\ applied \in [Resource -> {NoObject, Foreign}]
  /\ owner = [r \in Resource |-> 0]
  /\ faults = 0

-----------------------------------------------------------------------------
(* Users, the garbage collector and the watch                              *)

\* A user, the AppPipeline controller or the RemoteSync controller changes
\* the spec.
Edit(s) ==
  /\ Live.alive
  /\ Len(log) < MaxVersions
  /\ s # Live.spec
  /\ log' = Append(log, [Live EXCEPT !.spec = s])
  /\ UNCHANGED <<seen, queue, pc, locals, children, faults>>

DeleteApplication ==
  /\ Live.alive
  /\ Len(log) < MaxVersions
  /\ log' = Append(log, [Live EXCEPT !.alive = FALSE])
  /\ UNCHANGED <<seen, queue, pc, locals, children, faults>>

\* The same name is created again, as a new object with a new uid.
RecreateApplication(s) ==
  /\ ~Live.alive
  /\ Live.uid < MaxUid
  /\ log' = Append(log, NewApplication(Live.uid + 1, s))
  /\ UNCHANGED <<seen, queue, pc, locals, children, faults>>

\* The cluster removes a child whose controller reference names an object
\* that no longer exists.
GarbageCollect(r) ==
  /\ owner[r] # 0
  /\ ~(Live.alive /\ Live.uid = owner[r])
  /\ applied' = [applied EXCEPT ![r] = NoObject]
  /\ owner' = [owner EXCEPT ![r] = 0]
  /\ UNCHANGED <<log, seen, queue, pc, locals, faults>>

\* The informer stores a newer version and its event handler adds the key.
\* A reconnecting watch may skip versions.
WatchEvent ==
  /\ \E n \in (seen + 1)..Len(log) : seen' = n
  /\ dirty' = TRUE
  /\ UNCHANGED <<log, retry, pc, locals, children, faults>>

\* The periodic resync adds every cached key.
Resync ==
  /\ seen # 0
  /\ dirty' = TRUE
  /\ UNCHANGED <<log, seen, retry, pc, locals, children, faults>>

\* The delay of a rate-limited re-add is over.
RetryTimer ==
  /\ retry
  /\ retry' = FALSE
  /\ dirty' = TRUE
  /\ UNCHANGED <<log, seen, pc, locals, children, faults>>

-----------------------------------------------------------------------------
(* Reconcile                                                               *)

\* Reconcile returns nil: the key is forgotten.
Return ==
  /\ pc' = "idle"
  /\ rv' = 0
  /\ todo' = {}
  /\ cur' = NoObject
  /\ kept' = {}
  /\ UNCHANGED <<dirty, retry>>

\* Mutant: the error is logged and not returned.
ReturnErrorDropped ==
  /\ pc' = "idle"
  /\ rv' = 0
  /\ todo' = {}
  /\ cur' = NoObject
  /\ kept' = {}
  /\ UNCHANGED <<dirty, retry>>

\* Reconcile returns an error, whatever Result goes with it: the key is
\* re-added with a delay.  The deferred handler's Status().Update runs after
\* the deferred cancel(), on the cancelled context, so it stores nothing.
ReturnError ==
  /\ pc' = "idle"
  /\ rv' = 0
  /\ todo' = {}
  /\ cur' = NoObject
  /\ kept' = {}
  /\ retry' = TRUE
  /\ UNCHANGED dirty

SpendFault == faults < MaxFaults /\ faults' = faults + 1

\* Mutant: a deleted Application is reconciled like any other.
ReconcileDeleted ==
  /\ pc = "idle"
  /\ dirty
  /\ dirty' = FALSE
  /\ pc' = "generate"
  /\ rv' = seen
  /\ UNCHANGED <<log, seen, retry, todo, cur, kept, children, faults>>

\* The worker takes the key and reads the Application from the cache.
Reconcile ==
  /\ pc = "idle"
  /\ dirty
  /\ dirty' = FALSE
  /\ IF Cached.alive
     THEN pc' = "generate" /\ rv' = seen
     ELSE UNCHANGED <<pc, rv>>
  /\ UNCHANGED <<log, seen, retry, todo, cur, kept, children, faults>>

Generate ==
  /\ pc = "generate"
  /\ IF app.spec \in Broken
     THEN ReturnError
     ELSE /\ pc' = "apply"
          /\ todo' = Gen(app.spec)
          /\ UNCHANGED <<queue, rv, cur, kept>>
  /\ UNCHANGED <<log, seen, children, faults>>

\* Mutant: a child that exists is taken for up to date.
GetChildUnchecked(r) ==
  /\ pc = "apply"
  /\ r \in todo
  /\ \/ /\ applied[r] = NoObject
        /\ pc' = "create"
        /\ cur' = r
        /\ UNCHANGED <<todo, kept>>
     \/ /\ applied[r] # NoObject
        /\ todo' = todo \ {r}
        /\ kept' = kept \union {r}
        /\ UNCHANGED <<pc, cur>>
  /\ UNCHANGED <<log, seen, queue, rv, children, faults>>

\* One turn of the loop up to the first write: Get the child and, when it
\* exists, compare its last-applied content with the generated one.  The
\* controller reference is set on both sides, so it is never in the diff.
GetChild(r) ==
  /\ pc = "apply"
  /\ r \in todo
  /\ \/ /\ applied[r] = NoObject
        /\ pc' = "create"
        /\ cur' = r
        /\ UNCHANGED <<todo, kept>>
     \/ /\ applied[r] \notin {NoObject, Manifest[app.spec][r]}
        /\ pc' = "patch"
        /\ cur' = r
        /\ UNCHANGED <<todo, kept>>
     \/ /\ applied[r] = Manifest[app.spec][r]
        /\ todo' = todo \ {r}
        /\ kept' = kept \union {r}
        /\ UNCHANGED <<pc, cur>>
  /\ UNCHANGED <<log, seen, queue, rv, children, faults>>

\* The reply of a write reached the controller, or was lost.
Replied(resources) ==
  /\ pc' = "apply"
  /\ todo' = todo \ {cur}
  /\ cur' = NoObject
  /\ kept' = resources
  /\ UNCHANGED <<queue, rv, faults>>

ReplyLost == SpendFault /\ ReturnError

\* Create, then "continue": a created object is not appended to resources.
\* Nobody else creates the child between the Get and the Create.
CreateChild ==
  /\ pc = "create"
  /\ applied[cur] = NoObject
  /\ applied' = [applied EXCEPT ![cur] = Manifest[app.spec][cur]]
  /\ owner' = [owner EXCEPT ![cur] = app.uid]
  /\ Replied(kept) \/ ReplyLost
  /\ UNCHANGED <<log, seen>>

\* The merge patch replaces the generated fields.  It carries the controller
\* reference only when the child had no last-applied annotation.
PatchChild ==
  /\ pc = "patch"
  /\ applied[cur] # NoObject
  /\ applied' = [applied EXCEPT ![cur] = Manifest[app.spec][cur]]
  /\ owner' = IF applied[cur] = Foreign THEN [owner EXCEPT ![cur] = app.uid] ELSE owner
  /\ Replied(kept \union {cur}) \/ ReplyLost
  /\ UNCHANGED <<log, seen>>

\* The child was collected after the Get: the patch fails with NotFound.
PatchMissing ==
  /\ pc = "patch"
  /\ applied[cur] = NoObject
  /\ ReturnError
  /\ UNCHANGED <<log, seen, children, faults>>

\* Mutant: a failed Delete is ignored.
DeleteObsoleteIgnored ==
  /\ pc = "apply"
  /\ todo = {}
  /\ pc' = "status"
  /\ UNCHANGED <<queue, locals, log, seen, children, faults>>

\* Recorded resources that are no longer among "resources".  The object
\* given to Delete has a kind but no name, so the client rejects the call.
DeleteObsolete ==
  /\ pc = "apply"
  /\ todo = {}
  /\ IF FilterApplicationResource(app.status.resources, kept) = {}
     THEN pc' = "status" /\ UNCHANGED <<queue, locals>>
     ELSE ReturnError
  /\ UNCHANGED <<log, seen, children, faults>>

\* Mutant: the domains are left out.
NewStatusWithoutDomains == [phase |-> "deployed", resources |-> kept]

\* The status of a finished reconciliation.
NewStatus ==
  [phase |-> "deployed", domains |-> Domains[app.spec], resources |-> kept]

\* Mutant: a merge patch, without the version that was read.
UpdateStatusUnversioned ==
  /\ pc = "status"
  /\ log' = IF Live.status = NewStatus THEN log
            ELSE Append(log, [Live EXCEPT !.status = NewStatus])
  /\ \/ Return /\ UNCHANGED faults
     \/ ReplyLost
  /\ UNCHANGED <<seen, children>>

\* Status().Update carries the version that was read: a stale one conflicts,
\* and an update that changes nothing makes no new version.
UpdateStatus ==
  /\ pc = "status"
  /\ IF rv = Len(log)
     THEN /\ log' = IF Live.status = NewStatus THEN log
                    ELSE Append(log, [Live EXCEPT !.status = NewStatus])
          /\ \/ Return /\ UNCHANGED faults
             \/ ReplyLost
     ELSE ReturnError /\ UNCHANGED <<log, faults>>
  /\ UNCHANGED <<seen, children>>

\* A call of Reconcile fails without effect (or its minute is over).
CallFails ==
  /\ pc # "idle"
  /\ SpendFault
  /\ ReturnError
  /\ UNCHANGED <<log, seen, children>>

\* The operator dies and starts again with a fresh cache and queue.
Restart ==
  /\ SpendFault
  /\ seen' = Len(log)
  /\ dirty' = Live.alive
  /\ retry' = FALSE
  /\ pc' = "idle"
  /\ rv' = 0
  /\ todo' = {}
  /\ cur' = NoObject
  /\ kept' = {}
  /\ UNCHANGED <<log, children>>

Worker ==
  \/ Reconcile
  \/ Generate
  \/ \E r \in Resource : GetChild(r)
  \/ CreateChild
  \/ PatchChild
  \/ PatchMissing
  \/ DeleteObsolete
  \/ UpdateStatus

Next ==
  \/ \E s \in Specs : Edit(s)
  \/ DeleteApplication
  \/ \E s \in Specs : RecreateApplication(s)
  \/ \E r \in Resource : GarbageCollect(r)
  \/ WatchEvent
  \/ Resync
  \/ RetryTimer
  \/ Worker
  \/ CallFails
  \/ Restart

Spec == Init /\ [][Next]_vars

\* The watch, the delay timer and the worker goroutine make progress.
Fairness == WF_vars(WatchEvent) /\ WF_vars(RetryTimer) /\ WF_vars(Worker)

FairSpec == Spec /\ Fairness

-----------------------------------------------------------------------------
(* Properties                                                              *)

\* Every variable stays in its type; the cache and the version being
\* reconciled never run ahead of the API server.
TypeOK ==
  /\ log \in Seq(Application) /\ Len(log) >= 1
  /\ seen \in 0..Len(log)
  /\ dirty \in BOOLEAN
  /\ retry \in BOOLEAN
  /\ pc \in {"idle", "generate", "apply", "create", "patch", "status"}
  /\ rv \in 0..seen
  /\ todo \in SUBSET Resource
  /\ cur \in Resource \union {NoObject}
  /\ kept \in SUBSET Resource
  /\ applied \in [Resource -> Content \union {NoObject, Foreign}]
  /\ owner \in [Resource -> Nat]
  /\ faults \in Nat

\* The first object of this name, not deleted.
First == Live.alive /\ Live.uid = 1

Applied(s) == \A r \in Gen(s) : applied[r] = Manifest[s][r]

\* The live spec is applied and reported.
Converged ==
  /\ Applied(Live.spec)
  /\ Live.status.phase = "deployed"
  /\ Live.status.domains = Domains[Live.spec]

\* Nothing is running, queued, scheduled or on its way from the watch.
Quiet == pc = "idle" /\ ~dirty /\ ~retry /\ seen = Len(log)

\* The controller never comes to rest on unfinished work: whatever failed,
\* crashed or changed underneath it, once nothing is left to trigger another
\* reconciliation the live spec is applied and reported deployed.
NoLostWork == Quiet /\ First => Converged

\* "deployed means all updated specs are applied": a status is only stored
\* when every object of the spec that is live at that moment carries it,
\* although the spec is read from a stale cache many calls earlier.
TruthfulStatus ==
  [][First' /\ Live'.status # Live.status => Converged']_vars

\* An object of the same uid is never dropped from the recorded inventory,
\* since its Delete would have to succeed first.
InventoryNeverForgets ==
  [][(Live'.uid = Live.uid)
       => Live.status.resources \subseteq Live'.status.resources]_vars

\* The recorded inventory asks for a deletion, or the generator rejects the
\* spec: two conditions no retry gets past.
Blocked ==
  \/ Live.spec \in Broken
  \/ ~(Live.status.resources \subseteq Gen(Live.spec))

\* Once users stop editing and the faults are over, the first Application of
\* the name converges and stays so, unless it is blocked.
Converges == <>[](First => Converged \/ Blocked)

-----------------------------------------------------------------------------
(* Refinement                                                              *)

\* DesiredState sees the specs without their status, ...
Version(e) == [uid |-> e.uid, alive |-> e.alive, spec |-> e.spec]
Wanted == [i \in 1..Len(log) |-> Version(log[i])]

\* ... the version that Reconcile works on, or would take next, ...
Following == IF pc = "idle" THEN seen ELSE rv

\* ... what it reports, and the content of the children.
Reported == [phase |-> Live.status.phase, domains |-> Live.status.domains]

Desired == INSTANCE DesiredState
  WITH wanted <- Wanted, following <- Following, objects <- applied, report <- Reported

\* Stale caches, lost replies, retries and restarts never take the children
\* back to a version older than one already followed, never touch them for a
\* deleted version, and never make a report that is not true of the newest.
Refines == Desired!Spec

-----------------------------------------------------------------------------
(* The inductive invariant behind NoLostWork and TruthfulStatus            *)

\* A key is only ever queued after its first watch event.
QueueInv == dirty \/ retry => seen >= 1

\* Reconcile works on a cached version in which the object existed.
VersionInv == pc # "idle" => rv >= 1 /\ app.alive

\* Uids count up, and the first object is not deleted and alive again.
HistoryInv ==
  \A i \in 1..Len(log) :
    /\ log[i].uid \in 1..Live.uid
    /\ First => log[i].alive

\* Children are owned by objects that existed.
OwnerInv == \A r \in Resource : owner[r] <= Live.uid

Applying == pc \in {"apply", "create", "patch", "status"}

\* The bookkeeping of the loop over the generated objects.
LoopInv ==
  /\ Applying => todo \subseteq Gen(app.spec)
  /\ pc \in {"create", "patch"} => cur \in todo
  /\ pc = "status" => todo = {} /\ app.status.resources \subseteq kept

\* What the loop has dealt with stays applied while the object exists.
AppliedInv ==
  First /\ Applying =>
    \A r \in Gen(app.spec) \ todo : applied[r] = Manifest[app.spec][r]

\* The strengthening of NoLostWork that every step preserves: the log, the
\* queue and the loop of Reconcile stay consistent with one another.
IInv ==
  /\ TypeOK
  /\ QueueInv
  /\ VersionInv
  /\ HistoryInv
  /\ OwnerInv
  /\ LoopInv
  /\ AppliedInv
  /\ NoLostWork

-----------------------------------------------------------------------------
(* Statements of the sources that the code does not keep                   *)

\* "failed: means deployment failed": an Application the generator rejects
\* is eventually reported failed.
FailureReported ==
  (First /\ Live.spec \in Broken)
    ~> (Live.status.phase = "failed" \/ ~(First /\ Live.spec \in Broken))

\* An Application at rest that is reported deployed has its objects, also
\* when its name was used before.
DeployedIsApplied ==
  Quiet /\ Live.alive /\ Live.status.phase = "deployed" => Applied(Live.spec)
=============================================================================
