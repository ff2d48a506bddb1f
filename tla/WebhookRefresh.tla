--------------------------- MODULE WebhookRefresh ----------------------------
(***************************************************************************)
(* The webhook server (pkg/webhook, webhook/main.go): GitHub's events of   *)
(* one repository, the goroutine per registered handler that each of them  *)
(* starts, the mutex of a handler, and the refresh patch with which a      *)
(* handler makes the operator reconcile the RemoteSyncs and AppPipelines   *)
(* that an event concerns.                                                 *)
(*                                                                         *)
(* What the server has not yet done is in its memory: when it dies, or     *)
(* gives up, the refresh is lost, which the history variable "lost" notes. *)
(***************************************************************************)
EXTENDS Naturals, Sequences

CONSTANTS
  Target,      \* RemoteSyncs and AppPipelines of the repository
  Kind,        \* Kind[t]: "branch", "pull", "sha" or "pipeline"
  Source,      \* branches and pull requests
  Follows,     \* Follows[t]: the branch ("master" by default) or pull request
  SlowEvents,  \* nothing happens on GitHub in the second of a refresh
  LateCache,   \* things happen to objects the server's cache does not know yet
  MaxTime,     \* seconds of a behaviour
  MaxEvents,   \* events of a behaviour
  MaxFaults    \* failed or lost calls and crashes

Event == [name : {"push"}, source : Source, action : {"none"}]
           \union [name : {"pull_request"}, source : Source,
                   action : {"synchronize", "opened", "edited", "closed", "reopened",
                             "labeled"}]

Handler == {"remoteSync", "appPipeline"}

ASSUME WebhookAssumption ==
  /\ Kind \in [Target -> {"branch", "pull", "sha", "pipeline"}]
  /\ Follows \in [Target -> Source]
  /\ SlowEvents \in BOOLEAN /\ LateCache \in BOOLEAN
  /\ MaxTime \in Nat /\ MaxEvents \in Nat /\ MaxFaults \in Nat

VARIABLES
  sent,        \* the events, in the order GitHub sent them
  travelling,  \* indexes of events on their way to the server
  waiting,     \* <<h, i>>: a goroutine of handler h waits for the mutex
  busy,        \* handlers whose mutex is held
  todo,        \* todo[h]: objects that the holder has yet to refresh
  known,       \* the objects in the server's cache
  clock,       \* seconds
  refreshedAt, \* refreshedAt[t]: the annotation of the patch, 0 for none
  queued,      \* targets whose key is in the operator's work queue
  news,        \* targets for which GitHub changed since they were reconciled
  lost,        \* targets whose refresh fell victim to a fault
  faults

handlers == <<waiting, busy, todo>>
operator == <<refreshedAt, queued, news>>
vars == <<sent, travelling, handlers, known, clock, operator, lost, faults>>

SpendFault == faults < MaxFaults /\ faults' = faults + 1

-----------------------------------------------------------------------------
(* What an event is about, and what the handlers make of it                *)

\* The answers of GitHub that the controllers of t ask for change with e: the
\* head of a branch, the test merge of a pull request (an edit may change its
\* base), or the list of open pull requests.
Concerns(e, t) ==
  \/ e.name = "push" /\ Kind[t] = "branch" /\ Follows[t] = e.source
  \/ /\ e.action \in {"synchronize", "opened", "edited", "reopened"}
     /\ Kind[t] = "pull" /\ Follows[t] = e.source
  \/ e.action \in {"opened", "closed", "reopened"} /\ Kind[t] = "pipeline"

\* Mutant: the filter of appPipeline lets the wrong events through.
AcceptsPush(h, e) == h = "remoteSync" \/ e.name = "push"

\* Filter of a handler.
Accepts(h, e) == h = "remoteSync" \/ e.name = "pull_request"

\* Mutant: the pull request's action is forgotten.
ForgottenAction(h, e) ==
  IF h = "remoteSync"
  THEN IF e.name = "push"
       THEN {t \in Target : Kind[t] = "branch" /\ Follows[t] = e.source}
       ELSE IF e.action \in {"synchronize", "opened", "edited", "closed", "reopened"}
            THEN {t \in Target : Kind[t] = "pull" /\ Follows[t] = e.source}
            ELSE {}
  ELSE IF e.action \in {"opened", "closed"}
       THEN {t \in Target : Kind[t] = "pipeline"}
       ELSE {}

\* The objects that the operation of a handler refreshes: those that follow
\* the pushed branch or the pull request, and every AppPipeline when a pull
\* request appears or goes.
Refreshed(h, e) ==
  IF h = "remoteSync"
  THEN IF e.name = "push"
       THEN {t \in Target : Kind[t] = "branch" /\ Follows[t] = e.source}
       ELSE IF e.action \in {"synchronize", "opened", "edited", "closed", "reopened"}
            THEN {t \in Target : Kind[t] = "pull" /\ Follows[t] = e.source}
            ELSE {}
  ELSE IF e.action \in {"opened", "closed", "reopened"}
       THEN {t \in Target : Kind[t] = "pipeline"}
       ELSE {}

-----------------------------------------------------------------------------
Init ==
  /\ sent = <<>>
  /\ travelling = {}
  /\ waiting = {}
  /\ busy = {}
  /\ todo = [h \in Handler |-> {}]
  /\ known \in SUBSET Target
  /\ clock = 1
  /\ refreshedAt = [t \in Target |-> 0]
  /\ queued = {}
  /\ news = {}
  /\ lost = {}
  /\ faults = 0

\* Something happens on GitHub, and its event sets out.
Happen(e) ==
  LET concerned == {t \in Target : Concerns(e, t)} IN
  /\ Len(sent) < MaxEvents
  /\ SlowEvents => \A t \in Target : refreshedAt[t] < clock
  /\ LateCache \/ concerned \subseteq known
  /\ sent' = Append(sent, e)
  /\ travelling' = travelling \union {Len(sent) + 1}
  /\ news' = news \union concerned
  /\ lost' = lost \ concerned
  /\ UNCHANGED <<handlers, known, clock, refreshedAt, queued, faults>>

\* The request fails, perhaps because the server is down: GitHub does not
\* try again.
LoseRequest(i) ==
  /\ i \in travelling
  /\ SpendFault
  /\ travelling' = travelling \ {i}
  /\ lost' = lost \union {t \in Target : Concerns(sent[i], t)}
  /\ UNCHANGED <<sent, handlers, known, clock, operator>>

\* The request of an event arrives, in any order: NewHandler, call, and a
\* goroutine for every handler whose filter accepts the event.
Call(i) ==
  /\ i \in travelling
  /\ travelling' = travelling \ {i}
  /\ waiting' = waiting \union {<<h, i>> : h \in {g \in Handler : Accepts(g, sent[i])}}
  /\ UNCHANGED <<sent, busy, todo, known, clock, operator, lost, faults>>

\* A goroutine gets the mutex of its handler and lists the cached objects.
\* When List fails, the operation goes on with an empty list.
Lock(h, i) ==
  /\ <<h, i>> \in waiting
  /\ h \notin busy
  /\ waiting' = waiting \ {<<h, i>>}
  /\ busy' = busy \union {h}
  /\ \/ /\ todo' = [todo EXCEPT ![h] = known \intersect Refreshed(h, sent[i])]
        /\ UNCHANGED <<lost, faults>>
     \/ /\ SpendFault
        /\ lost' = lost \union Refreshed(h, sent[i])
        /\ UNCHANGED todo
  /\ UNCHANGED <<sent, travelling, known, clock, operator>>

\* The goroutine is through with t.
Through(h, t) == todo' = [todo EXCEPT ![h] = @ \ {t}]

\* Mutant: the time of the patch is rounded up.
RefreshRoundedUp(h, t) ==
  /\ t \in todo[h]
  /\ refreshedAt' = [refreshedAt EXCEPT ![t] = clock + 1]
  /\ queued' = IF refreshedAt[t] = clock + 1 THEN queued ELSE queued \union {t}
  /\ Through(h, t)
  /\ UNCHANGED <<sent, travelling, waiting, busy, known, clock, news, lost, faults>>

\* RefreshPatch stores the time in seconds.  A patch that changes nothing
\* makes no event; the operator's watch adds the key for any other.  When
\* the reply is lost, the patch is sent again.
Refresh(h, t) ==
  /\ t \in todo[h]
  /\ refreshedAt' = [refreshedAt EXCEPT ![t] = clock]
  /\ queued' = IF refreshedAt[t] = clock THEN queued ELSE queued \union {t}
  /\ \/ Through(h, t) /\ UNCHANGED faults
     \/ SpendFault /\ UNCHANGED todo
  /\ UNCHANGED <<sent, travelling, waiting, busy, known, clock, news, lost>>

\* The patch fails for the fifth time.  An earlier failure changes nothing.
GiveUp(h, t) ==
  /\ t \in todo[h]
  /\ SpendFault
  /\ Through(h, t)
  /\ lost' = lost \union {t}
  /\ UNCHANGED <<sent, travelling, waiting, busy, known, clock, operator>>

\* The operation's minute is over: every patch that is left fails.
TimeIsUp(h) ==
  /\ todo[h] # {}
  /\ SpendFault
  /\ todo' = [todo EXCEPT ![h] = {}]
  /\ lost' = lost \union todo[h]
  /\ UNCHANGED <<sent, travelling, waiting, busy, known, clock, operator>>

\* Mutant: the mutex is released only after a refresh.
UnlockAfterRefresh(h) ==
  /\ h \in busy
  /\ todo[h] = {}
  /\ \E t \in Target : refreshedAt[t] = clock
  /\ busy' = busy \ {h}
  /\ UNCHANGED <<sent, travelling, waiting, todo, known, clock, operator, lost, faults>>

Unlock(h) ==
  /\ h \in busy
  /\ todo[h] = {}
  /\ busy' = busy \ {h}
  /\ UNCHANGED <<sent, travelling, waiting, todo, known, clock, operator, lost, faults>>

\* The refreshes that the server has accepted and not made.
InMemory(t) ==
  \/ \E w \in waiting : t \in Refreshed(w[1], sent[w[2]])
  \/ \E h \in Handler : t \in todo[h]

\* The server dies and starts again, with a fresh cache.
Restart ==
  /\ SpendFault
  /\ waiting' = {}
  /\ busy' = {}
  /\ todo' = [h \in Handler |-> {}]
  /\ known' = Target
  /\ lost' = lost \union {t \in Target : InMemory(t)}
  /\ UNCHANGED <<sent, travelling, clock, operator>>

\* The operator reconciles t, asking GitHub.
Reconcile(t) ==
  /\ t \in queued
  /\ queued' = queued \ {t}
  /\ news' = news \ {t}
  /\ lost' = lost \ {t}
  /\ UNCHANGED <<sent, travelling, handlers, known, clock, refreshedAt, faults>>

\* The server's informers deliver a new object.
Discover(t) ==
  /\ t \notin known
  /\ known' = known \union {t}
  /\ UNCHANGED <<sent, travelling, handlers, clock, operator, lost, faults>>

Tick ==
  /\ clock < MaxTime
  /\ clock' = clock + 1
  /\ UNCHANGED <<sent, travelling, handlers, known, operator, lost, faults>>

Serve ==
  \/ \E i \in 1..Len(sent) : Call(i)
  \/ \E h \in Handler :
       \/ \E i \in 1..Len(sent) : Lock(h, i)
       \/ \E t \in Target : Refresh(h, t)
       \/ Unlock(h)

Fault ==
  \/ \E i \in 1..Len(sent) : LoseRequest(i)
  \/ \E h \in Handler :
       \/ \E t \in Target : GiveUp(h, t)
       \/ TimeIsUp(h)
  \/ Restart

Next ==
  \/ \E e \in Event : Happen(e)
  \/ Serve
  \/ Fault
  \/ \E t \in Target : Reconcile(t) \/ Discover(t)
  \/ Tick

Spec == Init /\ [][Next]_vars

\* Requests, goroutines and the operator's worker make progress.
Fairness == WF_vars(Serve) /\ WF_vars(\E t \in Target : Reconcile(t))

FairSpec == Spec /\ Fairness

-----------------------------------------------------------------------------
(* Properties                                                              *)

\* Every variable stays in its type; an annotation is never in the future,
\* and only a goroutine that holds the mutex has something to refresh.
TypeOK ==
  /\ sent \in Seq(Event)
  /\ travelling \subseteq 1..Len(sent)
  /\ waiting \subseteq Handler \X (1..Len(sent))
  /\ busy \subseteq Handler
  /\ todo \in [Handler -> SUBSET Target]
  /\ \A h \in Handler \ busy : todo[h] = {}
  /\ known \subseteq Target
  /\ clock \in Nat
  /\ refreshedAt \in [Target -> 0..clock]
  /\ queued \subseteq Target /\ news \subseteq Target /\ lost \subseteq Target
  /\ faults \in Nat

\* Every event has been handled and every refresh reconciled.
Rest == travelling = {} /\ waiting = {} /\ busy = {} /\ queued = {}

\* "RefreshPatch is a patch to trigger reconciliation": when the server and
\* the operator are at rest, an object has missed what happened on GitHub
\* only where a fault destroyed the refresh, in whatever order events arrive
\* and goroutines run.
ChangesAreSeen == Rest => news \subseteq lost

\* A refresh of t is on its way.
Pending(t) ==
  \/ \E i \in travelling : Concerns(sent[i], t)
  \/ InMemory(t)

\* The strengthening of ChangesAreSeen that every step preserves: news of t
\* that no fault took is in the operator's queue, or a refresh of t is on its
\* way that will change the annotation, since none has come since the news.
IInv ==
  /\ TypeOK
  /\ news \subseteq known
  /\ \A t \in news \ lost : t \in queued \/ (Pending(t) /\ refreshedAt[t] < clock)

\* Under fair scheduling that rest is reached: no goroutine waits for a mutex
\* for ever, and every change is reconciled unless a fault took its refresh.
ChangesArrive == <>[](news \subseteq lost)
=============================================================================
