-------------------------- MODULE ApplicationProofs --------------------------
(* Theorems about ApplicationReconciler, for every value of its constants. *)
EXTENDS ApplicationReconciler, SequenceTheorems, TLAPS

-----------------------------------------------------------------------------
(* The log                                                                 *)

\* Appending to a log of Applications keeps its older versions and makes the
\* new one live.
LEMMA AppendVersion ==
  ASSUME NEW l \in Seq(Application), NEW e \in Application
  PROVE  /\ Append(l, e) \in Seq(Application)
         /\ Len(Append(l, e)) = Len(l) + 1
         /\ Append(l, e)[Len(l) + 1] = e
         /\ \A i \in 1..Len(l) : Append(l, e)[i] = l[i]
  OBVIOUS

\* The live version and every version at a valid index are Applications.
LEMMA VersionType ==
  ASSUME TypeOK
  PROVE  /\ Live \in Application
         /\ \A i \in 1..Len(log) : log[i] \in Application
         /\ Len(log) \in Nat
  BY DEF TypeOK, Live

\* A step leaves the log alone or appends one version, of the live object
\* (while it is alive) or of its successor (once it is deleted).
LEMMA LogStep ==
  ASSUME TypeOK, VersionInv, [Next]_vars
  PROVE  \/ log' = log
         \/ \E e \in Application :
              /\ log' = Append(log, e)
              /\ \/ e.uid = Live.uid /\ Live.alive
                 \/ e.uid = Live.uid + 1 /\ ~Live.alive
<1> USE DEF TypeOK
<1>0. Live \in Application /\ Live = log[Len(log)] /\ Len(log) \in Nat /\ log \in Seq(Application)
  BY VersionType DEF Live
<1>1. ASSUME NEW s \in Specs, Edit(s)
      PROVE  \E e \in Application :
               log' = Append(log, e) /\ e.uid = Live.uid /\ Live.alive
  <2>1. [Live EXCEPT !.spec = s] \in Application /\ [Live EXCEPT !.spec = s].uid = Live.uid
    BY <1>0 DEF Application
  <2>2. QED BY <1>1, <2>1 DEF Edit
<1>2. ASSUME DeleteApplication
      PROVE  \E e \in Application :
               log' = Append(log, e) /\ e.uid = Live.uid /\ Live.alive
  <2>1. [Live EXCEPT !.alive = FALSE] \in Application /\ [Live EXCEPT !.alive = FALSE].uid = Live.uid
    BY <1>0 DEF Application
  <2>2. QED BY <1>2, <2>1 DEF DeleteApplication
<1>3. ASSUME NEW s \in Specs, RecreateApplication(s)
      PROVE  \E e \in Application :
               log' = Append(log, e) /\ e.uid = Live.uid + 1 /\ ~Live.alive
  <2>1. Live.uid + 1 \in Nat
    BY <1>0 DEF Application
  <2>2. NoStatus \in Status
    BY DEF NoStatus, Status
  <2>3. NewApplication(Live.uid + 1, s) \in Application
    BY <2>1, <2>2 DEF NewApplication, Application
  <2>4. NewApplication(Live.uid + 1, s).uid = Live.uid + 1
    BY DEF NewApplication
  <2>5. QED BY <1>3, <2>3, <2>4 DEF RecreateApplication
<1>4. ASSUME UpdateStatus
      PROVE  \/ log' = log
             \/ \E e \in Application :
                  log' = Append(log, e) /\ e.uid = Live.uid /\ Live.alive
  <2>1. CASE rv # Len(log)
    BY <1>4, <2>1 DEF UpdateStatus
  <2>2. CASE rv = Len(log)
    <3>1. app = Live /\ Live.alive
      BY <1>4, <2>2 DEF UpdateStatus, VersionInv, app, Live
    <3>2. NewStatus \in Status
      BY <3>1, <1>0 DEF NewStatus, Status, Application
    <3>3. /\ [Live EXCEPT !.status = NewStatus] \in Application
          /\ [Live EXCEPT !.status = NewStatus].uid = Live.uid
      BY <3>2, <1>0 DEF Application
    <3>4. QED BY <1>4, <2>2, <3>1, <3>3 DEF UpdateStatus
  <2>3. QED BY <2>1, <2>2
<1>5. ASSUME WatchEvent \/ Resync \/ RetryTimer \/ Reconcile \/ Generate
              \/ CreateChild \/ PatchChild \/ PatchMissing \/ DeleteObsolete
              \/ CallFails \/ Restart
      PROVE  log' = log
  BY <1>5 DEF WatchEvent, Resync, RetryTimer, Reconcile, Generate, CreateChild,
              PatchChild, PatchMissing, DeleteObsolete, CallFails, Restart
<1>6. ASSUME NEW r \in Resource, GetChild(r) \/ GarbageCollect(r)
      PROVE  log' = log
  BY <1>6 DEF GetChild, GarbageCollect
<1>7. CASE UNCHANGED vars
  BY <1>7 DEF vars
<1>8. QED
  BY <1>1, <1>2, <1>3, <1>4, <1>5, <1>6, <1>7 DEF Next, Worker
-----------------------------------------------------------------------------
(* The inductive invariant                                                 *)

\* The log only grows, a step keeps every version it finds there, and an
\* object that is the first one of its name was so before the step.
LEMMA LogGrows ==
  ASSUME TypeOK, VersionInv, HistoryInv, [Next]_vars
  PROVE  /\ log' \in Seq(Application)
         /\ Len(log) \in Nat \ {0} /\ Len(log') \in Nat
         /\ Len(log) <= Len(log')
         /\ \A i \in 1..Len(log) : log'[i] = log[i]
         /\ Live \in Application /\ Live' \in Application
         /\ Live.uid >= 1 /\ Live.uid <= Live'.uid
         /\ First' => First
         /\ HistoryInv'
<1>0. /\ Live \in Application /\ Live = log[Len(log)]
      /\ Len(log) \in Nat \ {0} /\ log \in Seq(Application)
      /\ Live.uid \in Nat /\ Live.alive \in BOOLEAN
  BY VersionType DEF Live, TypeOK, Application
<1>1. Live.uid >= 1
  BY <1>0 DEF HistoryInv
<1>2. CASE log' = log
  <2>1. Live' = Live /\ (First' <=> First) /\ (HistoryInv' <=> HistoryInv)
    BY <1>2 DEF Live, First, HistoryInv
  <2>2. QED BY <1>0, <1>1, <1>2, <2>1
<1>3. ASSUME NEW e \in Application, log' = Append(log, e),
             \/ e.uid = Live.uid /\ Live.alive
             \/ e.uid = Live.uid + 1 /\ ~Live.alive
      PROVE  /\ log' \in Seq(Application)
             /\ Len(log') \in Nat
             /\ Len(log) <= Len(log')
             /\ \A i \in 1..Len(log) : log'[i] = log[i]
             /\ Live' \in Application
             /\ Live.uid <= Live'.uid
             /\ First' => First
             /\ HistoryInv'
  <2>1. /\ log' \in Seq(Application)
        /\ Len(log') = Len(log) + 1
        /\ log'[Len(log) + 1] = e
        /\ \A i \in 1..Len(log) : log'[i] = log[i]
    BY <1>0, <1>3, AppendVersion
  <2>2. Live' = e
    BY <2>1 DEF Live
  <2>3. First' => First
    BY <1>0, <1>1, <1>3, <2>2 DEF First
  <2>4. Live.uid <= Live'.uid
    BY <1>0, <1>3, <2>2
  <2>5. ASSUME NEW i \in 1..Len(log')
        PROVE  log'[i].uid \in 1..Live'.uid /\ (First' => log'[i].alive)
    <3>1. CASE i = Len(log) + 1
      BY <1>0, <1>1, <1>3, <2>1, <2>2, <3>1 DEF First, Application
    <3>2. CASE i # Len(log) + 1
      <4>1. i \in 1..Len(log) /\ log'[i] = log[i]
        BY <1>0, <2>1, <3>2
      <4>2. log[i].uid \in 1..Live.uid /\ (First => log[i].alive)
        BY <4>1 DEF HistoryInv
      <4>3. Live'.uid \in Nat
        BY <2>2 DEF Application
      <4>4. QED BY <1>0, <2>3, <2>4, <4>1, <4>2, <4>3
    <3>3. QED BY <3>1, <3>2
  <2>6. QED BY <1>0, <2>1, <2>2, <2>3, <2>4, <2>5 DEF HistoryInv
<1>4. QED BY <1>0, <1>1, <1>2, <1>3, LogStep

\* While Reconcile works on a version, that version does not change.
LEMMA AppFixed ==
  ASSUME TypeOK, VersionInv, HistoryInv, [Next]_vars, pc # "idle"
  PROVE  /\ rv \in 1..Len(log) /\ app \in Application
         /\ rv' = rv => app' = app
<1>1. rv \in 1..Len(log)
  BY DEF TypeOK, VersionInv
<1>2. app \in Application
  BY <1>1, VersionType DEF app
<1>3. QED BY <1>1, <1>2, LogGrows DEF app

\* The types of the variables that do not refer to the log.
DataType ==
  /\ dirty \in BOOLEAN /\ retry \in BOOLEAN
  /\ pc \in {"idle", "generate", "apply", "create", "patch", "status"}
  /\ todo \in SUBSET Resource
  /\ cur \in Resource \union {NoObject}
  /\ kept \in SUBSET Resource
  /\ applied \in [Resource -> Content \union {NoObject, Foreign}]
  /\ owner \in [Resource -> Nat]
  /\ faults \in Nat

\* A step keeps the positions in the log in order.
LEMMA PositionStep ==
  ASSUME TypeOK, VersionInv, HistoryInv, [Next]_vars
  PROVE  seen' \in 0..Len(log') /\ rv' \in 0..seen'
<1>0. /\ Len(log) \in Nat /\ Len(log') \in Nat /\ Len(log) <= Len(log')
      /\ seen \in 0..Len(log) /\ rv \in 0..seen
  BY LogGrows DEF TypeOK
<1>1. CASE seen' = seen /\ rv' \in {rv, 0, seen}
  BY <1>0, <1>1
<1>2. CASE seen' \in (seen + 1)..Len(log) /\ rv' = rv
  BY <1>0, <1>2
<1>3. CASE seen' = Len(log) /\ rv' = 0
  BY <1>0, <1>3
<1>4. ASSUME WatchEvent
      PROVE  seen' \in (seen + 1)..Len(log) /\ rv' = rv
  BY <1>4 DEF WatchEvent, locals
<1>5. ASSUME Restart
      PROVE  seen' = Len(log) /\ rv' = 0
  BY <1>5 DEF Restart
<1>6. ASSUME NEW s, Edit(s) \/ RecreateApplication(s) \/ DeleteApplication
      PROVE  seen' = seen /\ rv' = rv
  BY <1>6 DEF Edit, RecreateApplication, DeleteApplication, locals
<1>7. ASSUME NEW r, GarbageCollect(r) \/ GetChild(r)
      PROVE  seen' = seen /\ rv' = rv
  BY <1>7 DEF GarbageCollect, GetChild, locals
<1>8. ASSUME Resync \/ RetryTimer \/ Reconcile \/ CallFails
      PROVE  seen' = seen /\ rv' \in {rv, 0, seen}
  BY <1>8 DEF Resync, RetryTimer, Reconcile, CallFails, ReturnError, locals
<1>9. ASSUME Generate \/ CreateChild \/ PatchChild \/ PatchMissing \/ DeleteObsolete
      PROVE  seen' = seen /\ rv' \in {rv, 0, seen}
  BY <1>9 DEF Generate, CreateChild, PatchChild, PatchMissing, DeleteObsolete,
              Replied, ReplyLost, ReturnError, locals
<1>10. ASSUME UpdateStatus
       PROVE  seen' = seen /\ rv' \in {rv, 0, seen}
  BY <1>10 DEF UpdateStatus, ReplyLost, Return, ReturnError
<1>11. ASSUME UNCHANGED vars
       PROVE  seen' = seen /\ rv' = rv
  BY <1>11 DEF vars, locals
<1>12. QED
  BY <1>1, <1>2, <1>3, <1>4, <1>5, <1>6, <1>7, <1>8, <1>9, <1>10, <1>11
     DEF Next, Worker

\* Appending a version to a typed log is all a step does to it, and it
\* assigns values of the right type to the other variables.
LEMMA TypeStep ==
  ASSUME IInv, [Next]_vars
  PROVE  TypeOK'
<1>0. /\ TypeOK /\ VersionInv /\ HistoryInv /\ LoopInv /\ DataType
      /\ log' \in Seq(Application) /\ Len(log') >= 1
  BY LogGrows DEF IInv, TypeOK, DataType
<1>1. SUFFICES DataType'
  BY <1>0, PositionStep DEF TypeOK, DataType
<1>2. ASSUME UNCHANGED vars
      PROVE  DataType'
  BY <1>0, <1>2 DEF DataType, vars, queue, locals, children
<1>3. ASSUME NEW s, Edit(s) \/ RecreateApplication(s) \/ DeleteApplication
      PROVE  DataType'
  BY <1>0, <1>3
     DEF DataType, Edit, RecreateApplication, DeleteApplication, queue, locals, children
<1>4. ASSUME NEW r \in Resource, GarbageCollect(r)
      PROVE  DataType'
  BY <1>0, <1>4 DEF DataType, GarbageCollect, queue, locals
<1>5. ASSUME WatchEvent \/ Resync \/ RetryTimer
      PROVE  DataType'
  BY <1>0, <1>5 DEF DataType, WatchEvent, Resync, RetryTimer, locals, children
<1>6. ASSUME Reconcile
      PROVE  DataType'
  BY <1>0, <1>6 DEF DataType, Reconcile, children
<1>7. ASSUME Restart
      PROVE  DataType'
  <2>1. Live.alive \in BOOLEAN
    BY <1>0, VersionType DEF Application
  <2>2. dirty' \in BOOLEAN
    BY <1>7, <2>1, Zenon DEF Restart
  <2>3. faults' \in Nat
    BY <1>0, <1>7 DEF DataType, Restart, SpendFault
  <2>4. /\ retry' = FALSE /\ pc' = "idle" /\ todo' = {} /\ cur' = NoObject /\ kept' = {}
        /\ UNCHANGED <<applied, owner>>
    BY <1>7 DEF Restart, children
  <2>5. DataType
    BY <1>0
  <2>6. QED
    BY <2>2, <2>3, <2>4, <2>5 DEF DataType
<1>8. ASSUME Generate \/ DeleteObsolete \/ CallFails \/ PatchMissing
      PROVE  DataType'
  <2>1. DataType
    BY <1>0
  <2>2. CASE Generate
    BY <2>1, <2>2 DEF DataType, Generate, ReturnError, Gen, queue, children
  <2>3. CASE DeleteObsolete
    BY <2>1, <2>3 DEF DataType, DeleteObsolete, ReturnError, queue, locals, children
  <2>4. CASE CallFails
    BY <2>1, <2>4 DEF DataType, CallFails, ReturnError, SpendFault, children
  <2>5. CASE PatchMissing
    BY <2>1, <2>5 DEF DataType, PatchMissing, ReturnError, children
  <2>6. QED BY <1>8, <2>2, <2>3, <2>4, <2>5
<1>9. ASSUME UpdateStatus
      PROVE  DataType'
  <2>1. DataType
    BY <1>0
  <2>2. \/ Return /\ UNCHANGED faults
        \/ ReplyLost
        \/ ReturnError /\ UNCHANGED faults
    BY <1>9 DEF UpdateStatus
  <2>3. UNCHANGED children
    BY <1>9 DEF UpdateStatus
  <2>4. CASE Return /\ UNCHANGED faults
    BY <2>1, <2>3, <2>4 DEF DataType, Return, children
  <2>5. CASE ReplyLost
    BY <2>1, <2>3, <2>5 DEF DataType, ReturnError, ReplyLost, SpendFault, children
  <2>6. CASE ReturnError /\ UNCHANGED faults
    BY <2>1, <2>3, <2>6 DEF DataType, ReturnError, children
  <2>7. QED BY <2>2, <2>4, <2>5, <2>6
<1>10. ASSUME NEW r \in Resource, GetChild(r)
       PROVE  DataType'
  BY <1>0, <1>10 DEF DataType, GetChild, queue, children
<1>11. ASSUME CreateChild \/ PatchChild
       PROVE  DataType'
  <2>1. cur \in Resource
    BY <1>11, <1>0 DEF CreateChild, PatchChild, LoopInv, DataType
  <2>2. app.spec \in Specs /\ app.uid \in Nat
    BY <1>0, <1>11, AppFixed DEF CreateChild, PatchChild, Application
  <2>3. Manifest[app.spec][cur] \in Content \union {NoObject}
    BY <2>1, <2>2, ManifestAssumption
  <2>4. /\ applied' \in [Resource -> Content \union {NoObject, Foreign}]
        /\ owner' \in [Resource -> Nat]
    BY <1>0, <1>11, <2>2, <2>3 DEF DataType, CreateChild, PatchChild
  <2>5. CASE ReplyLost
    BY <1>0, <2>4, <2>5 DEF DataType, ReplyLost, ReturnError, SpendFault
  <2>6. CASE Replied(kept) \/ Replied(kept \union {cur})
    BY <1>0, <2>1, <2>4, <2>6 DEF DataType, Replied, queue
  <2>7. QED BY <1>11, <2>5, <2>6 DEF CreateChild, PatchChild
<1>12. QED
  BY <1>2, <1>3, <1>4, <1>5, <1>6, <1>7, <1>8, <1>9, <1>10, <1>11 DEF Next, Worker

\* Users, the collector and the watch do not touch what Reconcile holds.
LEMMA Environment ==
  ASSUME \/ \E s \in Specs : Edit(s) \/ RecreateApplication(s)
         \/ \E r \in Resource : GarbageCollect(r)
         \/ DeleteApplication \/ WatchEvent \/ Resync \/ RetryTimer
         \/ UNCHANGED vars
  PROVE  UNCHANGED <<pc, rv, todo, cur, kept>>
BY DEF Edit, RecreateApplication, GarbageCollect, DeleteApplication, WatchEvent,
       Resync, RetryTimer, vars, locals

\* A key is queued only after the first watch event.
LEMMA QueueStep ==
  ASSUME IInv, [Next]_vars
  PROVE  QueueInv'
<1>0. /\ seen \in Nat /\ Len(log) \in Nat \ {0} /\ (dirty \/ retry => seen >= 1)
      /\ (pc # "idle" => seen >= 1)
  BY DEF IInv, TypeOK, QueueInv, VersionInv
<1>1. CASE seen' = seen /\ (dirty' \/ retry' => dirty \/ retry \/ pc # "idle")
  BY <1>0, <1>1 DEF QueueInv
<1>2. ASSUME WatchEvent \/ Restart \/ Resync
      PROVE  QueueInv'
  BY <1>0, <1>2 DEF WatchEvent, Restart, Resync, QueueInv
<1>3. ASSUME NEW s, Edit(s) \/ RecreateApplication(s) \/ DeleteApplication \/ UNCHANGED vars
      PROVE  UNCHANGED <<seen, dirty, retry>>
  BY <1>3 DEF Edit, RecreateApplication, DeleteApplication, vars, queue
<1>4. ASSUME NEW r, GarbageCollect(r) \/ GetChild(r)
      PROVE  UNCHANGED <<seen, dirty, retry>>
  BY <1>4 DEF GarbageCollect, GetChild, queue
<1>5. ASSUME RetryTimer \/ Reconcile
      PROVE  seen' = seen /\ (dirty' \/ retry' => dirty \/ retry \/ pc # "idle")
  BY <1>5 DEF RetryTimer, Reconcile
<1>6. ASSUME Generate \/ CreateChild \/ PatchChild \/ PatchMissing \/ DeleteObsolete
             \/ UpdateStatus \/ CallFails
      PROVE  seen' = seen /\ (dirty' \/ retry' => dirty \/ retry \/ pc # "idle")
  BY <1>6 DEF Generate, CreateChild, PatchChild, PatchMissing, DeleteObsolete,
              UpdateStatus, CallFails, Return, ReturnError, Replied, ReplyLost, queue
<1>7. QED
  BY <1>1, <1>2, <1>3, <1>4, <1>5, <1>6 DEF Next, Worker

\* A reconciliation goes on working on a version of an object that was alive.
LEMMA VersionStep ==
  ASSUME IInv, [Next]_vars
  PROVE  VersionInv'
<1>0. TypeOK /\ VersionInv /\ HistoryInv /\ QueueInv /\ rv \in Nat
  BY DEF IInv, TypeOK
<1>1. CASE pc' = "idle"
  BY <1>1 DEF VersionInv
<1>2. CASE rv' = rv /\ pc # "idle"
  <2>1. app' = app
    BY <1>0, <1>2, AppFixed
  <2>2. QED BY <1>0, <1>2, <2>1 DEF VersionInv
<1>3. CASE rv' = rv /\ pc' = pc
  BY <1>1, <1>2, <1>3
<1>4. ASSUME Reconcile, pc' # "idle"
      PROVE  VersionInv'
  <2>1. seen \in 1..Len(log) /\ rv' = seen /\ log[seen].alive
    BY <1>0, <1>4 DEF Reconcile, Cached, QueueInv, TypeOK
  <2>2. log' = log
    BY <1>4 DEF Reconcile
  <2>3. QED BY <2>1, <2>2 DEF VersionInv, app
<1>5. ASSUME Restart
      PROVE  pc' = "idle"
  BY <1>5 DEF Restart
<1>6. ASSUME Generate \/ CreateChild \/ PatchChild \/ PatchMissing \/ DeleteObsolete
             \/ UpdateStatus \/ CallFails
      PROVE  pc' = "idle" \/ (rv' = rv /\ pc # "idle")
  BY <1>6 DEF Generate, CreateChild, PatchChild, PatchMissing, DeleteObsolete,
              UpdateStatus, CallFails, Return, ReturnError, Replied, ReplyLost, locals
<1>7. ASSUME NEW r, GetChild(r)
      PROVE  rv' = rv /\ pc # "idle"
  BY <1>7 DEF GetChild
<1>8. QED
  BY <1>1, <1>2, <1>3, <1>4, <1>5, <1>6, <1>7, Environment DEF Next, Worker

\* A child is given the uid of the version being reconciled, never a later one.
LEMMA OwnerStep ==
  ASSUME IInv, [Next]_vars
  PROVE  OwnerInv'
<1>0. /\ TypeOK /\ VersionInv /\ HistoryInv /\ OwnerInv
      /\ owner \in [Resource -> Nat]
      /\ Live.uid \in Nat /\ Live'.uid \in Nat /\ Live.uid <= Live'.uid
  BY LogGrows DEF IInv, TypeOK, Application
<1>1. SUFFICES \A r \in Resource : owner'[r] <= Live.uid
  <2>1. owner' \in [Resource -> Nat]
    BY TypeStep DEF TypeOK
  <2>2. QED BY <1>0, <2>1 DEF OwnerInv
<1>2. ASSUME CreateChild \/ PatchChild
      PROVE  \A r \in Resource : owner'[r] <= Live.uid
  <2>1. app.uid \in 1..Live.uid
    BY <1>0, <1>2, AppFixed DEF CreateChild, PatchChild, HistoryInv, app
  <2>2. \A r \in Resource : owner'[r] \in {owner[r], app.uid}
    BY <1>0, <1>2 DEF CreateChild, PatchChild
  <2>3. QED BY <1>0, <2>1, <2>2 DEF OwnerInv
<1>3. ASSUME NEW r \in Resource, GarbageCollect(r)
      PROVE  \A q \in Resource : owner'[q] <= Live.uid
  BY <1>0, <1>3 DEF GarbageCollect, OwnerInv
<1>4. ASSUME NEW s, Edit(s) \/ RecreateApplication(s) \/ DeleteApplication \/ UNCHANGED vars
      PROVE  owner' = owner
  BY <1>4 DEF Edit, RecreateApplication, DeleteApplication, vars, children
<1>5. ASSUME WatchEvent \/ Resync \/ RetryTimer \/ Reconcile \/ Generate \/ PatchMissing
             \/ DeleteObsolete \/ UpdateStatus \/ CallFails \/ Restart
      PROVE  owner' = owner
  BY <1>5 DEF WatchEvent, Resync, RetryTimer, Reconcile, Generate, PatchMissing,
              DeleteObsolete, UpdateStatus, CallFails, Restart, children
<1>6. ASSUME NEW r, GetChild(r)
      PROVE  owner' = owner
  BY <1>6 DEF GetChild, children
<1>7. CASE owner' = owner
  BY <1>0, <1>7 DEF OwnerInv
<1>8. QED
  BY <1>2, <1>3, <1>4, <1>5, <1>6, <1>7 DEF Next, Worker

\* The loop over the generated objects keeps its books: what is left was
\* generated, and the loop ends only when no recorded object is obsolete.
LEMMA LoopStep ==
  ASSUME IInv, [Next]_vars
  PROVE  LoopInv'
<1>0. TypeOK /\ VersionInv /\ HistoryInv /\ LoopInv
  BY DEF IInv
<1>1. CASE pc' \in {"idle", "generate"}
  BY <1>1 DEF LoopInv, Applying
<1>2. CASE UNCHANGED <<pc, rv, todo, cur, kept>> /\ pc # "idle"
  <2>1. app' = app
    BY <1>0, <1>2, AppFixed
  <2>2. QED BY <1>0, <1>2, <2>1 DEF LoopInv, Applying
<1>3. CASE UNCHANGED <<pc, rv, todo, cur, kept>>
  BY <1>1, <1>2, <1>3
<1>4. ASSUME rv' = rv, Applying, todo' \subseteq todo,
             \/ pc' = "apply"
             \/ pc' \in {"create", "patch"} /\ cur' \in todo'
             \/ pc' = "status" /\ todo' = {} /\ app.status.resources \subseteq kept'
      PROVE  LoopInv'
  <2>1. app' = app
    BY <1>0, <1>4, AppFixed DEF Applying
  <2>2. todo' \subseteq Gen(app'.spec)
    BY <1>0, <1>4, <2>1 DEF LoopInv
  <2>3. QED BY <1>4, <2>1, <2>2 DEF LoopInv, Applying
<1>5. ASSUME Generate
      PROVE  LoopInv'
  <2>1. CASE app.spec \in Broken
    BY <1>1, <1>5, <2>1 DEF Generate, ReturnError
  <2>2. CASE app.spec \notin Broken
    <3>1. pc' = "apply" /\ todo' = Gen(app.spec) /\ rv' = rv /\ pc # "idle"
      BY <1>5, <2>2 DEF Generate
    <3>2. app' = app
      BY <1>0, <3>1, AppFixed
    <3>3. QED BY <3>1, <3>2 DEF LoopInv, Applying
  <2>3. QED BY <2>1, <2>2
<1>6. ASSUME NEW r \in Resource, GetChild(r)
      PROVE  LoopInv'
  BY <1>4, <1>6 DEF GetChild, Applying
<1>7. ASSUME CreateChild \/ PatchChild
      PROVE  LoopInv'
  BY <1>1, <1>4, <1>7
     DEF CreateChild, PatchChild, Replied, ReplyLost, ReturnError, Applying
<1>8. ASSUME DeleteObsolete
      PROVE  LoopInv'
  BY <1>1, <1>4, <1>8
     DEF DeleteObsolete, ReturnError, FilterApplicationResource, Applying, locals
<1>9. ASSUME UpdateStatus \/ PatchMissing \/ CallFails \/ Restart
      PROVE  pc' = "idle"
  BY <1>9 DEF UpdateStatus, PatchMissing, CallFails, Restart, Return, ReturnError, ReplyLost
<1>10. ASSUME Reconcile
       PROVE  pc' \in {"idle", "generate"}
  BY <1>10 DEF Reconcile
<1>11. QED
  BY <1>1, <1>3, <1>5, <1>6, <1>7, <1>8, <1>9, <1>10, Environment DEF Next, Worker

\* While the first object of the name lives, the collector finds no child
\* whose owner is gone.
LEMMA NothingToCollect ==
  ASSUME TypeOK, HistoryInv, OwnerInv, First, NEW r \in Resource
  PROVE  ~GarbageCollect(r)
<1>1. owner[r] \in Nat /\ owner[r] <= 1 /\ Live.alive /\ Live.uid = 1
  BY DEF TypeOK, OwnerInv, First
<1>2. QED BY <1>1 DEF GarbageCollect

\* While the first object of the name lives, what the loop has dealt with
\* stays applied.
LEMMA AppliedStep ==
  ASSUME IInv, [Next]_vars
  PROVE  AppliedInv'
<1>0. TypeOK /\ VersionInv /\ HistoryInv /\ LoopInv /\ OwnerInv /\ AppliedInv /\ (First' => First)
  BY LogGrows DEF IInv
<1>1. SUFFICES ASSUME First, Applying'
               PROVE  \A r \in Gen(app'.spec) \ todo' : applied'[r] = Manifest[app'.spec][r]
  BY <1>0 DEF AppliedInv
<1> DEFINE Kept(a, t) == \A r \in Gen(app.spec) \ t : a[r] = Manifest[app.spec][r]
<1>2. ASSUME pc # "idle", rv' = rv, Kept(applied', todo')
      PROVE  \A r \in Gen(app'.spec) \ todo' : applied'[r] = Manifest[app'.spec][r]
  BY <1>0, <1>2, AppFixed
<1>3. ASSUME Applying
      PROVE  Kept(applied, todo) /\ pc # "idle"
  BY <1>0, <1>1, <1>3 DEF AppliedInv, Applying
<1>4. CASE UNCHANGED <<pc, rv, todo, applied>>
  <2>1. Applying
    BY <1>1, <1>4 DEF Applying
  <2>2. QED BY <1>2, <1>3, <1>4, <2>1
<1>5. ASSUME NEW r \in Resource, GarbageCollect(r)
      PROVE  FALSE
  BY <1>0, <1>1, <1>5, NothingToCollect
<1>6. ASSUME Generate
      PROVE  pc # "idle" /\ rv' = rv /\ Kept(applied', todo')
  BY <1>1, <1>6 DEF Generate, ReturnError, Applying
<1>7. ASSUME NEW r \in Resource, GetChild(r)
      PROVE  pc # "idle" /\ rv' = rv /\ Kept(applied', todo')
  BY <1>3, <1>7 DEF GetChild, Applying, children
<1>8. ASSUME CreateChild \/ PatchChild
      PROVE  pc # "idle" /\ rv' = rv /\ Kept(applied', todo')
  <2>1. Kept(applied, todo) /\ pc # "idle"
    BY <1>3, <1>8 DEF CreateChild, PatchChild, Applying
  <2>2. rv' = rv /\ todo' = todo \ {cur}
    BY <1>1, <1>8 DEF CreateChild, PatchChild, Replied, ReplyLost, ReturnError, Applying
  <2>3. /\ applied \in [Resource -> Content \union {NoObject, Foreign}]
        /\ Gen(app.spec) \subseteq Resource
        /\ applied' = [applied EXCEPT ![cur] = Manifest[app.spec][cur]]
    BY <1>0, <1>8 DEF TypeOK, Gen, CreateChild, PatchChild
  <2>4. QED BY <2>1, <2>2, <2>3
<1>9. ASSUME DeleteObsolete
      PROVE  pc # "idle" /\ rv' = rv /\ Kept(applied', todo')
  BY <1>1, <1>3, <1>9 DEF DeleteObsolete, ReturnError, Applying, locals, children
<1>10. ASSUME UpdateStatus \/ PatchMissing \/ CallFails \/ Restart
       PROVE  FALSE
  BY <1>1, <1>10
     DEF UpdateStatus, PatchMissing, CallFails, Restart, Return, ReturnError, ReplyLost, Applying
<1>11. ASSUME Reconcile
       PROVE  FALSE
  BY <1>1, <1>11 DEF Reconcile, Applying
<1>12. ASSUME NEW s, Edit(s) \/ RecreateApplication(s) \/ DeleteApplication \/ UNCHANGED vars
       PROVE  UNCHANGED <<pc, rv, todo, applied>>
  BY <1>12 DEF Edit, RecreateApplication, DeleteApplication, vars, locals, children
<1>13. ASSUME WatchEvent \/ Resync \/ RetryTimer
       PROVE  UNCHANGED <<pc, rv, todo, applied>>
  BY <1>13 DEF WatchEvent, Resync, RetryTimer, locals, children
<1>14. QED
  BY <1>2, <1>4, <1>5, <1>6, <1>7, <1>8, <1>9, <1>10, <1>11, <1>12, <1>13 DEF Next, Worker

\* A successful status update finds the live spec applied, and leaves the
\* live version with that spec and the new status.
LEMMA StatusUpdate ==
  ASSUME IInv, [Next]_vars, UpdateStatus, rv = Len(log)
  PROVE  /\ First => Applied(Live.spec)
         /\ UNCHANGED applied
         /\ Live' = [Live EXCEPT !.status = NewStatus]
         /\ NewStatus.phase = "deployed" /\ NewStatus.domains = Domains[Live.spec]
<1>0. TypeOK /\ VersionInv /\ HistoryInv /\ LoopInv /\ AppliedInv
  BY DEF IInv
<1>1. app = Live /\ pc = "status" /\ todo = {}
  BY <1>0 DEF app, Live, UpdateStatus, LoopInv
<1>2. First => Applied(Live.spec)
  BY <1>0, <1>1 DEF AppliedInv, Applying, Applied
<1>3. UNCHANGED applied
  BY DEF UpdateStatus, children
<1>4. Live' = [Live EXCEPT !.status = NewStatus]
  <2>1. Live \in Application
    BY <1>0, VersionType
  <2>2. CASE Live.status = NewStatus
    <3>1. Live' = Live
      BY <2>2 DEF UpdateStatus, Live
    <3>2. [Live EXCEPT !.status = NewStatus] = Live
      BY <2>1, <2>2 DEF Application
    <3>3. QED BY <3>1, <3>2
  <2>3. CASE Live.status # NewStatus
    <3>1. log' = Append(log, [Live EXCEPT !.status = NewStatus])
      BY <2>3 DEF UpdateStatus
    <3>2. NewStatus \in Status
      BY <1>0, <1>1, <2>1 DEF NewStatus, Status, Application, TypeOK
    <3>3. [Live EXCEPT !.status = NewStatus] \in Application
      BY <2>1, <3>2 DEF Application
    <3>4. log' \in Seq(Application) /\ Len(log') = Len(log) + 1
          /\ log'[Len(log) + 1] = [Live EXCEPT !.status = NewStatus]
      BY <1>0, <3>1, <3>3, AppendVersion DEF TypeOK
    <3>5. QED BY <3>4 DEF Live
  <2>4. QED BY <2>2, <2>3
<1>5. QED
  BY <1>1, <1>2, <1>3, <1>4 DEF NewStatus

\* The log changes only by a user's step or by a status update.
LEMMA OtherSteps ==
  ASSUME [Next]_vars, log' # log
  PROVE  \/ \E s \in Specs : Edit(s) \/ RecreateApplication(s)
         \/ DeleteApplication
         \/ UpdateStatus /\ rv = Len(log)
<1>1. ASSUME NEW r, GarbageCollect(r) \/ GetChild(r)
      PROVE  log' = log
  BY <1>1 DEF GarbageCollect, GetChild
<1>2. ASSUME WatchEvent \/ Resync \/ RetryTimer \/ Reconcile \/ Generate \/ CreateChild
             \/ PatchChild \/ PatchMissing \/ DeleteObsolete \/ CallFails \/ Restart
             \/ UNCHANGED vars
      PROVE  log' = log
  BY <1>2 DEF WatchEvent, Resync, RetryTimer, Reconcile, Generate, CreateChild, PatchChild,
              PatchMissing, DeleteObsolete, CallFails, Restart, vars
<1>3. ASSUME UpdateStatus
      PROVE  rv = Len(log)
  BY <1>3 DEF UpdateStatus
<1>4. QED BY <1>1, <1>2, <1>3 DEF Next, Worker

\* A user's step does not change the status of an object that is there.
LEMMA UserStatus ==
  ASSUME TypeOK, VersionInv, HistoryInv, [Next]_vars,
         \/ \E s \in Specs : Edit(s) \/ RecreateApplication(s)
         \/ DeleteApplication
  PROVE  /\ Live'.uid = Live.uid => Live'.status = Live.status
         /\ Len(log') = Len(log) + 1 /\ UNCHANGED <<seen, applied>>
<1>0. /\ Live \in Application /\ Live.uid \in Nat /\ log \in Seq(Application)
      /\ Len(log) \in Nat
  BY LogGrows DEF Application, TypeOK
<1>1. PICK e : log' = Append(log, e) /\ (e.uid = Live.uid => e.status = Live.status)
  <2>1. ASSUME NEW s \in Specs, Edit(s)
        PROVE  /\ log' = Append(log, [Live EXCEPT !.spec = s])
               /\ [Live EXCEPT !.spec = s].status = Live.status
    BY <1>0, <2>1 DEF Edit, Application
  <2>2. ASSUME DeleteApplication
        PROVE  /\ log' = Append(log, [Live EXCEPT !.alive = FALSE])
               /\ [Live EXCEPT !.alive = FALSE].status = Live.status
    BY <1>0, <2>2 DEF DeleteApplication, Application
  <2>3. ASSUME NEW s \in Specs, RecreateApplication(s)
        PROVE  /\ log' = Append(log, NewApplication(Live.uid + 1, s))
               /\ NewApplication(Live.uid + 1, s).uid # Live.uid
    BY <1>0, <2>3 DEF RecreateApplication, NewApplication
  <2>4. QED BY <2>1, <2>2, <2>3
<1>2. Len(log') = Len(log) + 1 /\ Live' = e
  BY <1>0, <1>1 DEF Live
<1>3. UNCHANGED <<seen, applied>>
  BY DEF Edit, RecreateApplication, DeleteApplication, children
<1>4. QED BY <1>1, <1>2, <1>3

\* A step that brings the controller to rest leaves the spec applied.
LEMMA QuietStep ==
  ASSUME IInv, [Next]_vars
  PROVE  NoLostWork'
<1>0. /\ TypeOK /\ VersionInv /\ HistoryInv /\ (First' => First)
      /\ seen \in 0..Len(log) /\ Len(log) \in Nat
  BY LogGrows DEF IInv, TypeOK
<1>1. SUFFICES ASSUME Quiet', First', First
               PROVE  Converged'
  BY <1>0 DEF NoLostWork
<1>2. CASE UNCHANGED vars
  <2>1. Quiet /\ UNCHANGED <<log, applied>>
    BY <1>1, <1>2 DEF Quiet, vars, queue, children
  <2>2. Converged
    BY <1>1, <2>1 DEF IInv, NoLostWork
  <2>3. Live' = Live
    BY <2>1 DEF Live
  <2>4. QED BY <2>1, <2>2, <2>3 DEF Converged, Applied
<1>3. ASSUME \/ \E s \in Specs : Edit(s) \/ RecreateApplication(s)
             \/ DeleteApplication
      PROVE  FALSE
  BY <1>0, <1>1, <1>3, UserStatus DEF Quiet
<1>4. ASSUME NEW r \in Resource, GarbageCollect(r)
      PROVE  FALSE
  BY <1>1, <1>4, NothingToCollect DEF IInv
<1>5. ASSUME WatchEvent \/ Resync \/ RetryTimer
      PROVE  FALSE
  BY <1>1, <1>5 DEF WatchEvent, Resync, RetryTimer, Quiet
<1>6. ASSUME Reconcile
      PROVE  FALSE
  <2>1. log' = log /\ seen' = seen /\ seen = Len(log) /\ pc' = "idle"
    BY <1>1, <1>6 DEF Reconcile, Quiet
  <2>2. Cached.alive
    BY <1>1, <2>1 DEF First, Live, Cached
  <2>3. QED BY <1>6, <2>1, <2>2 DEF Reconcile
<1>7. ASSUME Generate \/ CreateChild \/ PatchChild \/ PatchMissing \/ DeleteObsolete \/ CallFails
      PROVE  FALSE
  BY <1>1, <1>7
     DEF Generate, CreateChild, PatchChild, PatchMissing, DeleteObsolete, CallFails,
         Replied, ReplyLost, ReturnError, Quiet
<1>8. ASSUME NEW r \in Resource, GetChild(r)
      PROVE  FALSE
  BY <1>1, <1>8 DEF GetChild, Quiet
<1>9. ASSUME Restart
      PROVE  FALSE
  BY <1>1, <1>9 DEF Restart, Quiet, First
<1>10. ASSUME UpdateStatus
       PROVE  Converged'
  <2>1. rv = Len(log)
    BY <1>1, <1>10 DEF UpdateStatus, ReturnError, Quiet
  <2>2. /\ Applied(Live.spec) /\ UNCHANGED applied
        /\ Live' = [Live EXCEPT !.status = NewStatus]
        /\ NewStatus.phase = "deployed" /\ NewStatus.domains = Domains[Live.spec]
        /\ Live \in Application
    BY <1>0, <1>1, <1>10, <2>1, StatusUpdate, VersionType
  <2>3. Live'.spec = Live.spec /\ Live'.status = NewStatus
    BY <2>2 DEF Application
  <2>4. QED BY <2>2, <2>3 DEF Converged, Applied
<1>11. QED
  BY <1>2, <1>3, <1>4, <1>5, <1>6, <1>7, <1>8, <1>9, <1>10 DEF Next, Worker

-----------------------------------------------------------------------------
(* The theorems                                                            *)

\* The inductive invariant holds initially.
LEMMA InitInv == Init => IInv
<1> SUFFICES ASSUME Init PROVE IInv
  OBVIOUS
<1>1. PICK s \in Specs : log = <<NewApplication(1, s)>>
  BY DEF Init
<1>2. NoStatus \in Status
  BY DEF NoStatus, Status
<1>3. NewApplication(1, s) \in Application
  BY <1>2 DEF NewApplication, Application
<1>4. /\ log \in Seq(Application) /\ Len(log) = 1 /\ log[1] = NewApplication(1, s)
      /\ Live = NewApplication(1, s)
  BY <1>1, <1>3 DEF Live
<1>5. TypeOK
  <2>1. DataType
    BY DEF Init, DataType
  <2>2. log \in Seq(Application) /\ Len(log) >= 1 /\ seen \in 0..Len(log) /\ rv \in 0..seen
    BY <1>4 DEF Init
  <2>3. QED BY <2>1, <2>2 DEF TypeOK, DataType
<1>6. HistoryInv
  BY <1>4 DEF HistoryInv, NewApplication
<1>7. OwnerInv
  BY <1>4 DEF Init, OwnerInv, NewApplication
<1>8. QueueInv /\ VersionInv /\ LoopInv /\ AppliedInv
  BY DEF Init, QueueInv, VersionInv, LoopInv, AppliedInv, Applying
<1>9. NoLostWork
  BY <1>4 DEF Init, NoLostWork, Quiet
<1>10. QED BY <1>5, <1>6, <1>7, <1>8, <1>9 DEF IInv

\* Every step preserves the inductive invariant.
LEMMA NextInv == IInv /\ [Next]_vars => IInv'
<1> SUFFICES ASSUME IInv, [Next]_vars PROVE IInv'
  OBVIOUS
<1>1. HistoryInv'
  BY LogGrows DEF IInv
<1>2. QED
  BY <1>1, TypeStep, QueueStep, VersionStep, OwnerStep, LoopStep, AppliedStep, QuietStep
     DEF IInv

\* The log, the queue and the loop of Reconcile stay consistent with one
\* another, for every chart, every number of versions and of faults.
THEOREM Invariant == Spec => []IInv
<1>1. Init => IInv
  BY InitInv
<1>2. IInv /\ [Next]_vars => IInv'
  BY NextInv
<1>3. QED BY <1>1, <1>2, PTL DEF Spec

\* Every variable stays in its type, and the controller's cache never runs
\* ahead of the API server.
THEOREM TypeCorrect == Spec => []TypeOK
<1>1. IInv => TypeOK
  BY DEF IInv
<1>2. QED BY <1>1, Invariant, PTL

\* The Application controller never comes to rest on unfinished work.
THEOREM WorkIsFinished == Spec => []NoLostWork
<1>1. IInv => NoLostWork
  BY DEF IInv
<1>2. QED BY <1>1, Invariant, PTL

\* A status is stored only when the live spec is applied.
THEOREM StatusIsTruthful == Spec => TruthfulStatus
<1>1. ASSUME IInv, [Next]_vars
      PROVE  First' /\ Live'.status # Live.status => Converged'
  <2>1. SUFFICES ASSUME First', Live'.status # Live.status
                 PROVE  Converged'
    OBVIOUS
  <2>2. TypeOK /\ VersionInv /\ HistoryInv /\ First /\ Live \in Application
    BY <1>1, <2>1, LogGrows DEF IInv
  <2>3. log' # log
    BY <2>1 DEF Live
  <2>4. Live'.uid = Live.uid
    BY <2>1, <2>2 DEF First
  <2>5. UpdateStatus /\ rv = Len(log)
    BY <1>1, <2>1, <2>2, <2>3, <2>4, OtherSteps, UserStatus
  <2>6. /\ Applied(Live.spec) /\ UNCHANGED applied
        /\ Live' = [Live EXCEPT !.status = NewStatus]
        /\ NewStatus.phase = "deployed" /\ NewStatus.domains = Domains[Live.spec]
    BY <1>1, <2>2, <2>5, StatusUpdate
  <2>7. Live'.spec = Live.spec /\ Live'.status = NewStatus
    BY <2>2, <2>6 DEF Application
  <2>8. QED BY <2>6, <2>7 DEF Converged, Applied
<1>2. QED BY <1>1, Invariant, PTL DEF Spec, TruthfulStatus

\* The inventory of an object never shrinks.
THEOREM InventoryGrows == Spec => InventoryNeverForgets
<1>1. ASSUME IInv, [Next]_vars
      PROVE  Live'.uid = Live.uid => Live.status.resources \subseteq Live'.status.resources
  <2>1. SUFFICES ASSUME Live'.uid = Live.uid, Live'.status # Live.status
                 PROVE  Live.status.resources \subseteq Live'.status.resources
    OBVIOUS
  <2>2. TypeOK /\ VersionInv /\ HistoryInv /\ LoopInv /\ Live \in Application
    BY <1>1, LogGrows DEF IInv
  <2>3. log' # log
    BY <2>1 DEF Live
  <2>4. UpdateStatus /\ rv = Len(log)
    BY <1>1, <2>1, <2>2, <2>3, OtherSteps, UserStatus
  <2>5. Live' = [Live EXCEPT !.status = NewStatus]
    BY <1>1, <2>4, StatusUpdate
  <2>6. app = Live /\ app.status.resources \subseteq kept
    BY <2>2, <2>4 DEF UpdateStatus, LoopInv, app, Live
  <2>7. Live'.status.resources = kept
    BY <2>2, <2>5 DEF Application, NewStatus
  <2>8. QED BY <2>6, <2>7
<1>2. QED BY <1>1, Invariant, PTL DEF Spec, InventoryNeverForgets

-----------------------------------------------------------------------------
(* The refinement                                                          *)

\* The mapped log, seen by its length, its newest version and a new version.
LEMMA WantedLog ==
  ASSUME TypeOK
  PROVE  /\ Wanted \in Seq([uid : Nat, alive : BOOLEAN, spec : Specs])
         /\ Len(Wanted) = Len(log) /\ Len(log) \in Nat \ {0}
         /\ \A i \in 1..Len(log) : Wanted[i] = Version(log[i])
         /\ Wanted[Len(Wanted)] = Version(Live)
         /\ \A e \in Application :
              log' = Append(log, e) => Wanted' = Append(Wanted, Version(e))
<1>1. /\ Len(log) \in Nat \ {0} /\ log \in Seq(Application)
      /\ \A i \in 1..Len(log) : log[i] \in Application
  BY DEF TypeOK
<1>2. \A e \in Application : Version(e) \in [uid : Nat, alive : BOOLEAN, spec : Specs]
  BY DEF Application, Version
<1>3. /\ Wanted \in Seq([uid : Nat, alive : BOOLEAN, spec : Specs])
      /\ Len(Wanted) = Len(log)
      /\ \A i \in 1..Len(log) : Wanted[i] = Version(log[i])
  BY <1>1, <1>2 DEF Wanted
<1>4. ASSUME NEW e \in Application, log' = Append(log, e)
      PROVE  Wanted' = Append(Wanted, Version(e))
  <2>1. /\ Len(log') = Len(log) + 1 /\ log'[Len(log) + 1] = e
        /\ \A i \in 1..Len(log) : log'[i] = log[i]
    BY <1>1, <1>4, AppendVersion
  <2>2. Wanted' = [i \in 1..(Len(log) + 1) |-> Version(log'[i])]
    BY <2>1 DEF Wanted
  <2>3. Version(e) \in [uid : Nat, alive : BOOLEAN, spec : Specs]
    BY <1>2
  <2>4. /\ Append(Wanted, Version(e)) \in Seq([uid : Nat, alive : BOOLEAN, spec : Specs])
        /\ Len(Append(Wanted, Version(e))) = Len(log) + 1
        /\ \A i \in 1..(Len(log) + 1) : Append(Wanted, Version(e))[i] = Version(log'[i])
    BY <1>1, <1>3, <2>1, <2>3
  <2>5. Wanted' \in Seq([uid : Nat, alive : BOOLEAN, spec : Specs]) /\ Len(Wanted') = Len(log) + 1
    <3>1. \A i \in 1..(Len(log) + 1) : log'[i] \in Application
      BY <1>1, <1>4, AppendVersion
    <3> QED
      BY <1>1, <1>2, <2>2, <3>1
  <2>6. \A i \in 1..(Len(log) + 1) : Wanted'[i] = Append(Wanted, Version(e))[i]
    BY <2>2, <2>4
  <2> HIDE DEF Wanted
  <2> QED
    BY <2>4, <2>5, <2>6, SeqEqual
<1> QED
  BY <1>1, <1>3, <1>4 DEF Live

\* The controller never goes back to an older version.
LEMMA FollowingStep ==
  ASSUME IInv, [Next]_vars
  PROVE  /\ Following \in Nat /\ Following' \in Following..Len(log')
         /\ UNCHANGED <<pc, seen, rv>> => UNCHANGED Following
<1>0. /\ TypeOK /\ VersionInv /\ HistoryInv
      /\ seen \in 0..Len(log) /\ rv \in 0..seen /\ Len(log) \in Nat /\ Len(log') \in Nat
      /\ seen' \in 0..Len(log') /\ rv' \in 0..seen'
  BY LogGrows, PositionStep DEF IInv, TypeOK
<1>1. seen <= seen' /\ (pc' # "idle" => rv' = Following)
  <2>1. ASSUME \/ \E s \in Specs : Edit(s) \/ RecreateApplication(s)
               \/ \E r \in Resource : GarbageCollect(r)
               \/ DeleteApplication \/ WatchEvent \/ Resync \/ RetryTimer
               \/ UNCHANGED vars
        PROVE  seen <= seen' /\ UNCHANGED <<pc, rv>>
    <3>1. UNCHANGED seen \/ WatchEvent
      BY <2>1 DEF Edit, RecreateApplication, GarbageCollect, DeleteApplication, Resync,
                  RetryTimer, vars
    <3>2. ASSUME WatchEvent PROVE seen < seen'
      BY <1>0, <3>2 DEF WatchEvent
    <3> QED
      BY <1>0, <2>1, <3>1, <3>2, Environment
  <2>2. ASSUME Reconcile
        PROVE  seen' = seen /\ pc = "idle" /\ (pc' # "idle" => rv' = seen)
    BY <2>2 DEF Reconcile
  <2>3. ASSUME Generate \/ PatchMissing \/ DeleteObsolete \/ CallFails
        PROVE  seen' = seen /\ (pc' # "idle" => rv' = rv /\ pc # "idle")
    BY <2>3 DEF Generate, PatchMissing, DeleteObsolete, CallFails, ReturnError, locals
  <2>4. ASSUME NEW r \in Resource, GetChild(r)
        PROVE  seen' = seen /\ rv' = rv /\ pc # "idle"
    BY <2>4 DEF GetChild
  <2>5. ASSUME CreateChild \/ PatchChild \/ UpdateStatus
        PROVE  seen' = seen /\ (pc' # "idle" => rv' = rv /\ pc # "idle")
    BY <2>5 DEF CreateChild, PatchChild, UpdateStatus, Replied, ReplyLost, Return, ReturnError
  <2>6. ASSUME Restart
        PROVE  seen' = Len(log) /\ pc' = "idle"
    BY <2>6 DEF Restart
  <2> QED
    BY <1>0, <2>1, <2>2, <2>3, <2>4, <2>5, <2>6 DEF Next, Worker, Following
<1> QED
  BY <1>0, <1>1 DEF Following

\* A step of the controller that leaves log and children alone.
LEMMA FollowStep ==
  ASSUME IInv, [Next]_vars, UNCHANGED <<log, applied>>
  PROVE  Desired!Next
<1>1. UNCHANGED <<Wanted, Reported>>
  BY DEF Wanted, Reported, Live
<1>2. Len(Wanted') = Len(log')
  BY <1>1, WantedLog DEF IInv
<1>3. Desired!Follow
  BY <1>1, <1>2, FollowingStep DEF Desired!Follow, Desired!GoOn
<1> QED
  BY <1>3 DEF Desired!Next

\* Users ask for new versions.
LEMMA WantStep ==
  ASSUME IInv, [Next]_vars,
         \/ \E s \in Specs : Edit(s) \/ RecreateApplication(s)
         \/ DeleteApplication
  PROVE  Desired!Next
<1>0. TypeOK /\ VersionInv /\ HistoryInv /\ Live \in Application /\ Live.uid \in Nat
  BY LogGrows DEF IInv, Application
<1>1. UNCHANGED <<Following, applied>>
  BY FollowingStep DEF Edit, RecreateApplication, DeleteApplication, locals, children
<1>2. Wanted[Len(Wanted)] = Version(Live)
  BY <1>0, WantedLog
<1>3. ASSUME NEW e \in Application, log' = Append(log, e)
      PROVE  Wanted' = Append(Wanted, Version(e)) /\ Live' = e
  BY <1>0, <1>3, WantedLog, AppendVersion DEF TypeOK, Live
<1>4. ASSUME NEW s \in Specs, Edit(s)
      PROVE  Desired!Want
  <2> DEFINE e == [Live EXCEPT !.spec = s]
  <2>1. e \in Application /\ e.status = Live.status
    BY <1>0 DEF Application
  <2>2. Version(e) = [uid |-> Version(Live).uid, alive |-> TRUE, spec |-> s]
    <3>1. e.uid = Live.uid /\ e.alive = TRUE /\ e.spec = s
      BY <1>0, <1>4 DEF Application, Edit
    <3> HIDE DEF e
    <3> QED
      BY <3>1 DEF Version
  <2>3. Live.alive /\ log' = Append(log, e)
    BY <1>4 DEF Edit
  <2>4. Wanted' = Append(Wanted, Version(e)) /\ UNCHANGED Reported
    BY <1>3, <2>1, <2>3 DEF Reported
  <2>5. Version(Live).alive /\ Version(Live).spec \in Specs
    BY <1>0, <2>3 DEF Application, Version
  <2> QED
    BY <1>1, <1>2, <2>2, <2>4, <2>5 DEF Desired!Want, Desired!Newest
<1>5. ASSUME DeleteApplication
      PROVE  Desired!Want
  <2> DEFINE e == [Live EXCEPT !.alive = FALSE]
  <2>1. e \in Application /\ e.status = Live.status
    BY <1>0 DEF Application
  <2>2. Version(e) = [uid |-> Version(Live).uid, alive |-> FALSE, spec |-> Version(Live).spec]
    <3>1. e.uid = Live.uid /\ e.alive = FALSE /\ e.spec = Live.spec
      BY <1>0 DEF Application
    <3> HIDE DEF e
    <3> QED
      BY <3>1 DEF Version
  <2>3. Live.alive /\ log' = Append(log, e)
    BY <1>5 DEF DeleteApplication
  <2>4. Wanted' = Append(Wanted, Version(e)) /\ UNCHANGED Reported
    BY <1>3, <2>1, <2>3 DEF Reported
  <2>5. Version(Live).alive /\ Version(Live).spec \in Specs
    BY <1>0, <2>3 DEF Application, Version
  <2> QED
    BY <1>1, <1>2, <2>2, <2>4, <2>5 DEF Desired!Want, Desired!Newest
<1>6. ASSUME NEW s \in Specs, RecreateApplication(s)
      PROVE  Desired!Want
  <2> DEFINE e == NewApplication(Live.uid + 1, s)
  <2>1. e \in Application
    <3>1. NoStatus \in Status
      BY DEF NoStatus, Status
    <3>2. Live.uid + 1 \in Nat
      BY <1>0
    <3> QED
      BY <3>1, <3>2 DEF NewApplication, Application
  <2>2. /\ Version(e) = [uid |-> Version(Live).uid + 1, alive |-> TRUE, spec |-> s]
        /\ e.status = NoStatus
    BY DEF NewApplication, Version
  <2>3. ~Live.alive /\ log' = Append(log, e)
    BY <1>6 DEF RecreateApplication
  <2>4. Wanted' = Append(Wanted, Version(e)) /\ Reported' = Desired!NothingReported
    <3>1. Wanted' = Append(Wanted, Version(e)) /\ Live' = e
      BY <1>3, <2>1, <2>3
    <3> HIDE DEF e
    <3>2. Reported' = [phase |-> NoStatus.phase, domains |-> NoStatus.domains]
      BY <2>2, <3>1 DEF Reported
    <3> QED
      BY <3>1, <3>2 DEF NoStatus, Desired!NothingReported
  <2>5. ~Version(Live).alive
    BY <2>3 DEF Version
  <2> QED
    BY <1>1, <1>2, <2>2, <2>4, <2>5 DEF Desired!Want, Desired!Newest
<1> QED
  BY <1>4, <1>5, <1>6 DEF Desired!Next

\* The collector has work only when the first object of the name is gone.
LEMMA LoseStep ==
  ASSUME IInv, [Next]_vars, NEW r \in Resource, GarbageCollect(r)
  PROVE  Desired!Next
<1>1. TypeOK /\ HistoryInv /\ OwnerInv
  BY DEF IInv
<1>2. ~First
  BY <1>1, NothingToCollect
<1>3. Desired!Newest = Version(Live)
  BY <1>1, WantedLog DEF Desired!Newest
<1>4. ~Desired!FirstOfName
  BY <1>2, <1>3 DEF Desired!FirstOfName, First, Version
<1>5. /\ UNCHANGED <<log, Following>>
      /\ applied' = [applied EXCEPT ![r] = NoObject]
  BY FollowingStep DEF GarbageCollect, locals
<1>6. UNCHANGED <<Wanted, Reported>>
  BY <1>5 DEF Wanted, Reported, Live
<1>7. Desired!Lose(r)
  BY <1>4, <1>5, <1>6 DEF Desired!Lose
<1> QED
  BY <1>7 DEF Desired!Next

\* The loop brings about objects of the version that Reconcile works on.
LEMMA BringStep ==
  ASSUME IInv, [Next]_vars, CreateChild \/ PatchChild
  PROVE  Desired!Next
<1>0. TypeOK /\ VersionInv /\ HistoryInv /\ LoopInv
  BY DEF IInv
<1>1. pc \in {"create", "patch"} /\ Following = rv
  BY DEF CreateChild, PatchChild, Following
<1>2. /\ rv \in 1..Len(log) /\ app.alive /\ app = log[rv]
      /\ Wanted[rv] = Version(app)
  BY <1>0, <1>1, AppFixed, WantedLog DEF VersionInv, app
<1>3. cur \in Gen(app.spec)
  BY <1>0, <1>1 DEF LoopInv, Applying
<1>4. cur \in Resource /\ Manifest[app.spec][cur] # NoObject
  BY <1>3 DEF Gen
<1>5. /\ UNCHANGED log
      /\ applied' = [applied EXCEPT ![cur] = Manifest[app.spec][cur]]
  BY DEF CreateChild, PatchChild
<1>6. UNCHANGED <<Wanted, Reported>> /\ Len(Wanted') = Len(log')
  BY <1>0, <1>5, WantedLog DEF Wanted, Reported, Live
<1>7. Following' \in Following..Len(log')
  BY FollowingStep
<1>8. Version(app).alive /\ Version(app).spec = app.spec
  BY <1>2 DEF Version
<1>9. Desired!Bring(cur)
  BY <1>1, <1>2, <1>4, <1>5, <1>6, <1>7, <1>8 DEF Desired!Bring, Desired!GoOn
<1> QED
  BY <1>4, <1>9 DEF Desired!Next

\* A status is stored for the newest version only, when it is complete.
LEMMA ReportStep ==
  ASSUME IInv, [Next]_vars, UpdateStatus
  PROVE  Desired!Next
<1>0. TypeOK /\ VersionInv /\ HistoryInv /\ Live \in Application
  BY VersionType DEF IInv
<1>1. CASE log' = log
  BY <1>1, FollowStep DEF UpdateStatus, children
<1>2. CASE log' # log
  <2>1. rv = Len(log) /\ log' = Append(log, [Live EXCEPT !.status = NewStatus])
    BY <1>2 DEF UpdateStatus
  <2>2. /\ First => Applied(Live.spec)
        /\ UNCHANGED applied
        /\ Live' = [Live EXCEPT !.status = NewStatus]
        /\ NewStatus.phase = "deployed" /\ NewStatus.domains = Domains[Live.spec]
    BY <2>1, StatusUpdate
  <2>3. Following = Len(log) /\ app = Live /\ Live.alive
    BY <1>0, <2>1 DEF Following, UpdateStatus, VersionInv, app, Live
  <2>4. [Live EXCEPT !.status = NewStatus] \in Application
    <3>1. NewStatus \in Status
      BY <1>0, <2>3 DEF NewStatus, Status, Application, TypeOK
    <3> QED
      BY <1>0, <3>1 DEF Application
  <2>5. Version([Live EXCEPT !.status = NewStatus]) = Version(Live)
    BY <1>0 DEF Application, Version
  <2>6. Wanted' = Append(Wanted, Version(Live))
    BY <1>0, <2>1, <2>4, <2>5, WantedLog
  <2>7. Len(Wanted') = Len(log')
    <3>1. Len(log') = Len(log) + 1
      BY <1>0, <2>1, <2>4, AppendVersion DEF TypeOK
    <3> QED
      BY <1>0, <2>6, <3>1, WantedLog
  <2>8. Reported' = [phase |-> "deployed", domains |-> Domains[Version(Live).spec]]
    BY <1>0, <2>2 DEF Reported, Application, Version
  <2>9. Desired!FirstOfName => Desired!Complete
    <3>1. Desired!Newest = Version(Live)
      BY <1>0, WantedLog DEF Desired!Newest
    <3> QED
      BY <2>2, <3>1
         DEF Desired!FirstOfName, Desired!Complete, First, Applied, Gen, Version
  <2>10. Version(Live).alive
    BY <2>3 DEF Version
  <2>11. Desired!Report
    BY <1>0, <2>2, <2>3, <2>6, <2>7, <2>8, <2>9, <2>10, FollowingStep, WantedLog
       DEF Desired!Report, Desired!Newest, Desired!GoOn
  <2> QED
    BY <2>11 DEF Desired!Next
<1> QED
  BY <1>1, <1>2

\* The controller, with its cache, its queue and its faults, does what
\* DesiredState promises.
THEOREM Implements == Spec => Refines
<1>1. Init => Desired!Init
  <2> SUFFICES ASSUME Init PROVE Desired!Init
    OBVIOUS
  <2>1. PICK s \in Specs : log = <<NewApplication(1, s)>>
    BY DEF Init
  <2>2. Live = NewApplication(1, s)
    BY <2>1 DEF Live
  <2>3. Reported = Desired!NothingReported
    BY <2>2 DEF Reported, NewApplication, NoStatus, Desired!NothingReported
  <2>4. Wanted = <<[uid |-> 1, alive |-> TRUE, spec |-> s]>>
    <3> DEFINE v == [uid |-> 1, alive |-> TRUE, spec |-> s]
    <3>1. Len(log) = 1 /\ Version(log[1]) = v
      BY <2>1 DEF Version, NewApplication
    <3> HIDE DEF v
    <3>2. Wanted = [i \in 1..1 |-> v]
      BY <3>1 DEF Wanted
    <3>3. @ = <<v>>
      OBVIOUS
    <3> QED
      BY <3>2, <3>3 DEF v
  <2>5. Following = 0
    BY DEF Init, Following
  <2> QED
    BY <2>3, <2>4, <2>5 DEF Init, Desired!Init
<1>2. IInv /\ [Next]_vars => [Desired!Next]_(Desired!vars)
  <2> SUFFICES ASSUME IInv, [Next]_vars
               PROVE  Desired!Next \/ UNCHANGED Desired!vars
    OBVIOUS
  <2>1. CASE UNCHANGED vars
    BY <2>1, FollowStep DEF vars, children
  <2>2. CASE \/ \E s \in Specs : Edit(s) \/ RecreateApplication(s)
             \/ DeleteApplication
    BY <2>2, WantStep
  <2>3. ASSUME NEW r \in Resource, GarbageCollect(r)
        PROVE  Desired!Next
    BY <2>3, LoseStep
  <2>4. ASSUME \/ WatchEvent \/ Resync \/ RetryTimer \/ Reconcile \/ Generate
               \/ PatchMissing \/ DeleteObsolete \/ CallFails \/ Restart
        PROVE  UNCHANGED <<log, applied>>
    BY <2>4 DEF WatchEvent, Resync, RetryTimer, Reconcile, Generate, PatchMissing,
                DeleteObsolete, CallFails, Restart, children
  <2>5. ASSUME NEW r \in Resource, GetChild(r)
        PROVE  UNCHANGED <<log, applied>>
    BY <2>5 DEF GetChild, children
  <2> QED
    BY <2>1, <2>2, <2>3, <2>4, <2>5, FollowStep, BringStep, ReportStep DEF Next, Worker
<1> QED
  BY <1>1, <1>2, Invariant, PTL DEF Spec, Refines, Desired!Spec
=============================================================================
