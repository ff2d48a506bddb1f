---------------------------- MODULE WebhookProofs ----------------------------
(***************************************************************************)
(* The safety of WebhookRefresh, for every set of targets and sources and  *)
(* every number of events, seconds and faults: TypeOK always, and the      *)
(* invariant IInv, hence ChangesAreSeen, when nothing happens on GitHub in *)
(* the second of a refresh (SlowEvents) or to an unknown object            *)
(* (~LateCache).                                                           *)
(***************************************************************************)
EXTENDS WebhookRefresh, SequenceTheorems, TLAPS

\* A new event is the last one, and leaves the others where they are.
LEMMA SentGrows ==
  ASSUME TypeOK, NEW e \in Event
  PROVE  LET longer == Append(sent, e) IN
         /\ longer \in Seq(Event)
         /\ Len(longer) = Len(sent) + 1
         /\ longer[Len(sent) + 1] = e
         /\ \A i \in 1..Len(sent) : longer[i] = sent[i]
  BY AppendProperties DEF TypeOK

\* Handlers refresh targets.
LEMMA RefreshedTargets ==
  ASSUME NEW h \in Handler, NEW e
  PROVE  Refreshed(h, e) \subseteq Target
  BY DEF Refreshed

\* Every event that concerns an object reaches a handler that refreshes it.
LEMMA EventReachesHandler ==
  ASSUME NEW e \in Event, NEW t \in Target, Concerns(e, t)
  PROVE  \E h \in Handler : Accepts(h, e) /\ t \in Refreshed(h, e)
<1>1. CASE e.name = "push" /\ Kind[t] = "branch" /\ Follows[t] = e.source
  <2>1. Accepts("remoteSync", e) /\ t \in Refreshed("remoteSync", e)
    BY <1>1 DEF Accepts, Refreshed
  <2> QED
    BY <2>1 DEF Handler
<1>2. CASE /\ e.action \in {"synchronize", "opened", "edited", "reopened"}
           /\ Kind[t] = "pull" /\ Follows[t] = e.source
  <2>1. e.name # "push"
    BY <1>2 DEF Event
  <2>2. Accepts("remoteSync", e) /\ t \in Refreshed("remoteSync", e)
    BY <1>2, <2>1 DEF Accepts, Refreshed
  <2> QED
    BY <2>2 DEF Handler
<1>3. CASE e.action \in {"opened", "closed", "reopened"} /\ Kind[t] = "pipeline"
  <2>1. e.name = "pull_request"
    BY <1>3 DEF Event
  <2>2. Accepts("appPipeline", e) /\ t \in Refreshed("appPipeline", e)
    BY <1>3, <2>1 DEF Accepts, Refreshed
  <2> QED
    BY <2>2 DEF Handler
<1> QED
  BY <1>1, <1>2, <1>3 DEF Concerns

-----------------------------------------------------------------------------
(* Type correctness                                                        *)

\* The initial state is typed.
LEMMA InitTypes == Init => TypeOK
<1> SUFFICES ASSUME Init PROVE TypeOK
  OBVIOUS
<1>1. sent \in Seq(Event)
  BY DEF Init
<1> QED
  BY <1>1, WebhookAssumption DEF Init, TypeOK

\* Every step keeps the types.
LEMMA NextTypes == TypeOK /\ [Next]_vars => TypeOK'
<1> SUFFICES ASSUME TypeOK, [Next]_vars PROVE TypeOK'
  OBVIOUS
<1> USE DEF TypeOK, handlers, operator
<1>1. ASSUME NEW e \in Event, Happen(e) PROVE TypeOK'
  <2>1. sent' \in Seq(Event) /\ Len(sent') = Len(sent) + 1 /\ Len(sent) \in Nat
    BY <1>1, SentGrows, LenProperties DEF Happen
  <2>2. travelling' \subseteq 1..Len(sent')
    <3>1. travelling \subseteq 1..Len(sent) /\ travelling' = travelling \union {Len(sent) + 1}
      BY <1>1 DEF Happen
    <3>2. 1..Len(sent') = 1..Len(sent) \union {Len(sent) + 1}
      BY ONLY <2>1
    <3> QED
      BY ONLY <3>1, <3>2
  <2>3. waiting' \subseteq Handler \X (1..Len(sent'))
    BY <1>1, <2>1 DEF Happen
  <2>4. news' \subseteq Target /\ lost' \subseteq Target
    BY <1>1 DEF Happen
  <2> QED
    BY <1>1, <2>1, <2>2, <2>3, <2>4 DEF Happen
<1>2. ASSUME NEW i \in 1..Len(sent), LoseRequest(i) PROVE TypeOK'
  BY <1>2, WebhookAssumption DEF LoseRequest, SpendFault
<1>3. ASSUME NEW i \in 1..Len(sent), Call(i) PROVE TypeOK'
  BY <1>3 DEF Call
<1>4. ASSUME NEW h \in Handler, NEW i \in 1..Len(sent), Lock(h, i) PROVE TypeOK'
  <2>1. todo' \in [Handler -> SUBSET Target]
    BY <1>4 DEF Lock
  <2>2. \A g \in Handler \ busy' : todo'[g] = {}
    BY <1>4 DEF Lock
  <2>3. lost' \subseteq Target /\ faults' \in Nat
    BY <1>4, RefreshedTargets, WebhookAssumption DEF Lock, SpendFault
  <2> QED
    BY <1>4, <2>1, <2>2, <2>3 DEF Lock
<1>5. ASSUME NEW h \in Handler, NEW t \in Target, Refresh(h, t) PROVE TypeOK'
  <2>1. todo' \in [Handler -> SUBSET Target] /\ \A g \in Handler \ busy' : todo'[g] = {}
    BY <1>5 DEF Refresh, Through
  <2>2. refreshedAt' \in [Target -> 0..clock']
    BY <1>5 DEF Refresh
  <2>3. faults' \in Nat
    BY <1>5, WebhookAssumption DEF Refresh, SpendFault
  <2> QED
    BY <1>5, <2>1, <2>2, <2>3 DEF Refresh
<1>6. ASSUME NEW h \in Handler, Unlock(h) PROVE TypeOK'
  BY <1>6 DEF Unlock
<1>7. ASSUME NEW h \in Handler, NEW t \in Target, GiveUp(h, t) PROVE TypeOK'
  <2>1. todo' \in [Handler -> SUBSET Target] /\ \A g \in Handler \ busy' : todo'[g] = {}
    BY <1>7 DEF GiveUp, Through
  <2> QED
    BY <1>7, <2>1, WebhookAssumption DEF GiveUp, SpendFault
<1>8. ASSUME NEW h \in Handler, TimeIsUp(h) PROVE TypeOK'
  BY <1>8, WebhookAssumption DEF TimeIsUp, SpendFault
<1>9. ASSUME Restart PROVE TypeOK'
  BY <1>9, WebhookAssumption DEF Restart, SpendFault
<1>10. ASSUME NEW t \in Target, Reconcile(t) PROVE TypeOK'
  BY <1>10 DEF Reconcile
<1>11. ASSUME NEW t \in Target, Discover(t) PROVE TypeOK'
  BY <1>11 DEF Discover
<1>12. ASSUME Tick PROVE TypeOK'
  BY <1>12 DEF Tick
<1>13. CASE UNCHANGED vars
  BY <1>13 DEF vars
<1> QED
  BY <1>1, <1>2, <1>3, <1>4, <1>5, <1>6, <1>7, <1>8, <1>9, <1>10, <1>11, <1>12,
     <1>13 DEF Next, Serve, Fault

\* Every variable of the webhook server's model keeps its type; in particular
\* only the goroutine that holds a handler's mutex has refreshes to make.
THEOREM TypeCorrect == Spec => []TypeOK
<1> QED
  BY InitTypes, NextTypes, PTL DEF Spec

-----------------------------------------------------------------------------
(* No change is missed                                                     *)

\* Covered(t): what IInv promises of news of t.
Covered(t) == t \in queued \/ (Pending(t) /\ refreshedAt[t] < clock)

\* There is no news at first.
LEMMA InitInvariant == Init => IInv
  BY InitTypes DEF Init, IInv

\* An event comes after the last refresh of what it concerns.
LEMMA HappenCovers ==
  ASSUME IInv, SlowEvents, ~LateCache, NEW e \in Event, Happen(e)
  PROVE  news' \subseteq known' /\ \A t \in news' \ lost' : Covered(t)'
<1> USE DEF IInv, handlers, operator
<1>1. \A i \in 1..Len(sent) : sent'[i] = sent[i]
  BY SentGrows DEF Happen
<1>2. sent'[Len(sent) + 1] = e
  BY SentGrows DEF Happen
<1>3. news' \subseteq known'
  BY DEF Happen, TypeOK
<1>4. ASSUME NEW t \in news' \ lost' PROVE Covered(t)'
  <2>1. CASE t \in Target /\ Concerns(e, t)
    <3>1. refreshedAt'[t] < clock'
      BY <2>1 DEF Happen
    <3>2. Pending(t)'
      BY <1>2, <2>1 DEF Pending, Happen
    <3> QED
      BY <3>1, <3>2 DEF Covered
  <2>2. CASE ~ (t \in Target /\ Concerns(e, t))
    <3>1. t \in news \ lost
      BY <1>4, <2>2 DEF Happen
    <3>2. Pending(t) => Pending(t)'
      BY <1>1 DEF Pending, InMemory, Happen, TypeOK
    <3> QED
      BY <3>1, <3>2 DEF Covered, Happen
  <2> QED
    BY <2>1, <2>2
<1> QED
  BY <1>3, <1>4

\* The server passes a refresh on from the request to the goroutine, to the
\* list of its objects and to the operator's queue, and drops none.
LEMMA ServeCovers ==
  ASSUME IInv, Serve
  PROVE  news' \subseteq known' /\ \A t \in news' \ lost' : Covered(t)'
<1> USE DEF IInv, handlers, operator
<1>1. ASSUME NEW i \in 1..Len(sent), Call(i), NEW t \in news' \ lost' PROVE Covered(t)'
  <2>1. t \in news \ lost /\ t \in Target
    BY <1>1 DEF Call, TypeOK
  <2>2. ASSUME Concerns(sent[i], t) PROVE Pending(t)'
    <3>1. sent[i] \in Event
      BY DEF TypeOK
    <3>2. PICK h \in Handler : Accepts(h, sent[i]) /\ t \in Refreshed(h, sent[i])
      BY <2>1, <2>2, <3>1, EventReachesHandler
    <3>3. <<h, i>> \in waiting' /\ sent' = sent
      BY <1>1, <3>2 DEF Call
    <3> QED
      BY <3>2, <3>3 DEF Pending, InMemory
  <2>3. Pending(t) => Pending(t)'
    BY <1>1, <2>2 DEF Pending, InMemory, Call
  <2> QED
    BY <1>1, <2>1, <2>3 DEF Covered, Call
<1>2. ASSUME NEW h \in Handler, NEW i \in 1..Len(sent), Lock(h, i), NEW t \in news' \ lost'
      PROVE  Covered(t)'
  <2>1. t \in news \ lost /\ t \in known
    BY <1>2 DEF Lock
  <2>2. ASSUME t \in Refreshed(h, sent[i]) PROVE Pending(t)'
    BY <1>2, <2>1, <2>2 DEF Pending, InMemory, Lock, TypeOK
  <2>3. todo[h] = {}
    BY <1>2 DEF Lock, TypeOK
  <2>4. \A g \in Handler : g # h => todo'[g] = todo[g]
    BY <1>2 DEF Lock, TypeOK
  <2>5. ASSUME Pending(t) PROVE Pending(t)'
    <3>1. CASE \E j \in travelling : Concerns(sent[j], t)
      BY <1>2, <3>1 DEF Pending, Lock
    <3>2. CASE \E w \in waiting : t \in Refreshed(w[1], sent[w[2]])
      <4>1. PICK w \in waiting : t \in Refreshed(w[1], sent[w[2]])
        BY <3>2
      <4>2. CASE w = <<h, i>>
        BY <2>2, <4>1, <4>2
      <4>3. CASE w # <<h, i>>
        BY <1>2, <4>1, <4>3 DEF Pending, InMemory, Lock
      <4> QED
        BY <4>2, <4>3
    <3>3. CASE \E g \in Handler : t \in todo[g]
      BY <2>3, <2>4, <3>3 DEF Pending, InMemory
    <3> QED
      BY <2>5, <3>1, <3>2, <3>3 DEF Pending, InMemory
  <2> QED
    BY <1>2, <2>1, <2>5 DEF Covered, Lock
<1>3. ASSUME NEW h \in Handler, NEW r \in Target, Refresh(h, r), NEW t \in news' \ lost'
      PROVE  Covered(t)'
  <2>1. t \in news \ lost /\ t \in Target
    BY <1>3 DEF Refresh, TypeOK
  <2>2. CASE t = r
    BY <1>3, <2>1, <2>2 DEF Covered, Refresh, TypeOK
  <2>3. CASE t # r
    <3>1. refreshedAt'[t] = refreshedAt[t]
      BY <1>3, <2>1, <2>3 DEF Refresh, TypeOK
    <3>2. \A g \in Handler : t \in todo[g] => t \in todo'[g]
      BY <1>3, <2>3 DEF Refresh, Through, TypeOK
    <3>3. Pending(t) => Pending(t)'
      BY <1>3, <3>2 DEF Pending, InMemory, Refresh
    <3> QED
      BY <1>3, <2>1, <3>1, <3>3 DEF Covered, Refresh
  <2> QED
    BY <2>2, <2>3
<1>4. ASSUME NEW h \in Handler, Unlock(h), NEW t \in news' \ lost' PROVE Covered(t)'
  BY <1>4 DEF Covered, Pending, InMemory, Unlock
<1>5. news' \subseteq known'
  BY DEF Serve, Call, Lock, Refresh, Unlock
<1> QED
  BY <1>1, <1>2, <1>3, <1>4, <1>5 DEF Serve

\* What a fault takes is noted as lost.
LEMMA FaultCovers ==
  ASSUME IInv, Fault
  PROVE  news' \subseteq known' /\ \A t \in news' \ lost' : Covered(t)'
<1> USE DEF IInv, handlers, operator
<1>1. ASSUME NEW i \in 1..Len(sent), LoseRequest(i), NEW t \in news' \ lost' PROVE Covered(t)'
  <2>1. t \in news \ lost /\ t \in Target
    BY <1>1 DEF LoseRequest, TypeOK
  <2>2. Pending(t) => Pending(t)'
    BY <1>1, <2>1 DEF Pending, InMemory, LoseRequest
  <2> QED
    BY <1>1, <2>1, <2>2 DEF Covered, LoseRequest
<1>2. ASSUME NEW h \in Handler, NEW r \in Target, GiveUp(h, r), NEW t \in news' \ lost'
      PROVE  Covered(t)'
  <2>1. t \in news \ lost /\ t # r
    BY <1>2 DEF GiveUp
  <2>2. \A g \in Handler : t \in todo[g] => t \in todo'[g]
    BY <1>2, <2>1 DEF GiveUp, Through, TypeOK
  <2>3. Pending(t) => Pending(t)'
    BY <1>2, <2>2 DEF Pending, InMemory, GiveUp
  <2> QED
    BY <1>2, <2>1, <2>3 DEF Covered, GiveUp
<1>3. ASSUME NEW h \in Handler, TimeIsUp(h), NEW t \in news' \ lost' PROVE Covered(t)'
  <2>1. t \in news \ lost /\ t \notin todo[h]
    BY <1>3 DEF TimeIsUp
  <2>2. \A g \in Handler : t \in todo[g] => t \in todo'[g]
    BY <1>3, <2>1 DEF TimeIsUp, TypeOK
  <2>3. Pending(t) => Pending(t)'
    BY <1>3, <2>2 DEF Pending, InMemory, TimeIsUp
  <2> QED
    BY <1>3, <2>1, <2>3 DEF Covered, TimeIsUp
<1>4. ASSUME Restart, NEW t \in news' \ lost' PROVE Covered(t)'
  <2>1. t \in news \ lost /\ ~ InMemory(t)
    BY <1>4 DEF Restart, TypeOK
  <2> QED
    BY <1>4, <2>1 DEF Covered, Pending, Restart
<1>5. news' \subseteq known'
  BY DEF Fault, LoseRequest, GiveUp, TimeIsUp, Restart, TypeOK
<1> QED
  BY <1>1, <1>2, <1>3, <1>4, <1>5 DEF Fault

\* The operator, the informers and the clock leave refreshes on their way.
LEMMA OthersCover ==
  ASSUME IInv,
         \/ \E t \in Target : Reconcile(t) \/ Discover(t)
         \/ Tick
         \/ UNCHANGED vars
  PROVE  news' \subseteq known' /\ \A t \in news' \ lost' : Covered(t)'
<1> USE DEF IInv, handlers, operator
<1>1. ASSUME NEW r \in Target, Reconcile(r), NEW t \in news' \ lost' PROVE Covered(t)'
  BY <1>1 DEF Covered, Pending, InMemory, Reconcile
<1>2. ASSUME NEW r \in Target, Discover(r), NEW t \in news' \ lost' PROVE Covered(t)'
  BY <1>2 DEF Covered, Pending, InMemory, Discover
<1>3. ASSUME Tick, NEW t \in news' \ lost' PROVE Covered(t)'
  <2>1. refreshedAt[t] < clock => refreshedAt'[t] < clock'
    BY <1>3 DEF Tick, TypeOK
  <2>2. Pending(t) => Pending(t)'
    BY <1>3 DEF Tick, Pending, InMemory
  <2> QED
    BY <1>3, <2>1, <2>2 DEF Covered, Tick
<1>4. ASSUME UNCHANGED vars, NEW t \in news' \ lost' PROVE Covered(t)'
  BY <1>4 DEF Covered, Pending, InMemory, vars
<1>5. news' \subseteq known'
  BY DEF Reconcile, Discover, Tick, vars
<1> QED
  BY <1>1, <1>2, <1>3, <1>4, <1>5

\* Every step preserves the invariant.
LEMMA NextInvariant ==
  ASSUME SlowEvents, ~LateCache
  PROVE  IInv /\ [Next]_vars => IInv'
<1> SUFFICES ASSUME IInv, [Next]_vars PROVE IInv'
  OBVIOUS
<1>1. TypeOK'
  BY NextTypes DEF IInv
<1>2. news' \subseteq known' /\ \A t \in news' \ lost' : Covered(t)'
  <2>1. CASE \E e \in Event : Happen(e)
    BY <2>1, HappenCovers
  <2>2. CASE Serve
    BY <2>2, ServeCovers
  <2>3. CASE Fault
    BY <2>3, FaultCovers
  <2>4. CASE \/ \E t \in Target : Reconcile(t) \/ Discover(t)
             \/ Tick
             \/ UNCHANGED vars
    BY <2>4, OthersCover
  <2> QED
    BY <2>1, <2>2, <2>3, <2>4 DEF Next
<1> QED
  BY <1>1, <1>2 DEF IInv, Covered

\* At rest no refresh is on its way.
LEMMA InvariantSuffices == IInv => ChangesAreSeen
<1> SUFFICES ASSUME IInv, Rest, NEW t \in news \ lost PROVE FALSE
  BY DEF ChangesAreSeen
<1>1. ~ Pending(t)
  BY DEF IInv, TypeOK, Rest, Pending, InMemory
<1> QED
  BY <1>1 DEF IInv, Rest

\* With events slower than the clock and a cache that knows their objects, news
\* that no fault took is always queued or on its way to change an annotation.
THEOREM InvariantHolds ==
  ASSUME SlowEvents, ~LateCache
  PROVE  Spec => []IInv
<1>1. Init => IInv
  BY InitInvariant
<1>2. IInv /\ [Next]_vars => IInv'
  BY NextInvariant
<1> QED
  BY <1>1, <1>2, PTL DEF Spec

\* The webhook server comes to rest only when the operator has reconciled every
\* object that GitHub's events concern, or a fault destroyed its refresh.
THEOREM NothingMissed ==
  ASSUME SlowEvents, ~LateCache
  PROVE  Spec => []ChangesAreSeen
<1>1. Spec => []IInv
  BY InvariantHolds
<1> QED
  BY <1>1, InvariantSuffices, PTL
=============================================================================
