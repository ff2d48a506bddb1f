------------------------------ MODULE Previews -------------------------------
(***************************************************************************)
(* What the AppPipeline controller promises, without caches of previews,   *)
(* conflicts, retries and crashes: it follows the AppPipelines of a name   *)
(* in their order, takes a list of the pull requests that are open, and    *)
(* then, as long as it holds that list, brings a preview of a listed one   *)
(* to the template that it follows, or drops a preview of another.         *)
(***************************************************************************)
EXTENDS Naturals, Sequences, FiniteSets

CONSTANTS PullRequests, PageSize, Field, Value, Unset, Base, Specs, NoObject

VARIABLES
  open,       \* the open pull requests
  upcoming,   \* the AppPipelines from the oldest it may still follow to the newest
  following,  \* the one it follows
  list,       \* the pull requests it holds for open
  apps,       \* the previews
  syncs

work == <<following, list>>
previews == <<apps, syncs>>
vars == <<open, upcoming, work, previews>>

Newest == upcoming[Len(upcoming)]
Created(uid, s) == [uid |-> uid, alive |-> TRUE, spec |-> s, message |-> ""]

Init ==
  /\ open \in SUBSET PullRequests
  /\ \E s \in Specs : upcoming = <<Created(1, s)>>
  /\ following = NoObject
  /\ list = NoObject
  /\ apps = [n \in PullRequests |-> NoObject]
  /\ syncs = [n \in PullRequests |-> NoObject]

-----------------------------------------------------------------------------
(* GitHub and the users                                                    *)

OpenOrClose ==
  /\ open' \in SUBSET PullRequests
  /\ UNCHANGED <<upcoming, work, previews>>

\* A user changes, deletes or creates the AppPipeline.
Want ==
  /\ \E s \in Specs :
       \/ /\ Newest.alive
          /\ \E alive \in BOOLEAN :
               upcoming' = Append(upcoming, [Newest EXCEPT !.alive = alive, !.spec = s])
       \/ /\ ~Newest.alive
          /\ upcoming' = Append(upcoming, Created(Newest.uid + 1, s))
  /\ UNCHANGED <<open, work, previews>>

-----------------------------------------------------------------------------
(* The controller                                                          *)

\* What it has not followed, it never will.
CatchUp ==
  /\ Len(upcoming) > 1
  /\ upcoming' = Tail(upcoming)
  /\ UNCHANGED <<open, work, previews>>

Follow ==
  /\ following = NoObject
  /\ upcoming[1].alive
  /\ following' = [uid |-> upcoming[1].uid, spec |-> upcoming[1].spec]
  /\ UNCHANGED <<open, upcoming, list, previews>>

\* All open pull requests, if they fit on a page.
List ==
  /\ following # NoObject
  /\ \E page \in SUBSET open :
       (Cardinality(open) <= PageSize => page = open) /\ list' = page
  /\ UNCHANGED <<open, upcoming, following, previews>>

Stop == following' = NoObject /\ list' = NoObject

\* It reports how it went.
Finish ==
  /\ Stop
  /\ \/ UNCHANGED upcoming
     \/ \E m \in {"", "error"} : upcoming' = Append(upcoming, [Newest EXCEPT !.message = m])
  /\ UNCHANGED <<open, previews>>

Restart ==
  /\ Stop
  /\ upcoming' = <<Newest>>
  /\ UNCHANGED <<open, previews>>

\* One object of one preview changes.
App(n, object) == apps' = [apps EXCEPT ![n] = object] /\ UNCHANGED syncs
Sync(n, object) == syncs' = [syncs EXCEPT ![n] = object] /\ UNCHANGED apps

\* The template over what is there; others is theirs.
AppFor(app) ==
  LET template == following.spec.template
      old == IF app = NoObject THEN [f \in Field |-> Unset] ELSE app.fields
  IN  [owner |-> following.uid,
       fields |-> [f \in Field |-> IF template[f] # Unset THEN template[f] ELSE old[f]],
       base |-> following.spec.base,
       others |-> IF app = NoObject THEN 0 ELSE app.others]

SyncFor(sync) ==
  [owner |-> following.uid,
   base |-> following.spec.base,
   others |-> IF sync = NoObject THEN 0 ELSE sync.others]

\* A call that fails afterwards makes it stop.
Bring(n) ==
  /\ list # NoObject /\ n \in list
  /\ App(n, AppFor(apps[n])) \/ Sync(n, SyncFor(syncs[n]))
  /\ UNCHANGED work \/ Stop
  /\ UNCHANGED <<open, upcoming>>

Drop(n) ==
  /\ list # NoObject /\ n \notin list
  /\ App(n, NoObject) \/ Sync(n, NoObject)
  /\ UNCHANGED <<open, upcoming, work>>

-----------------------------------------------------------------------------
(* Others                                                                  *)

Orphan(object) == object # NoObject /\ ~(Newest.alive /\ object.owner = Newest.uid)

Collect(n) ==
  /\ \/ Orphan(apps[n]) /\ App(n, NoObject)
     \/ Orphan(syncs[n]) /\ Sync(n, NoObject)
  /\ UNCHANGED <<open, upcoming, work>>

\* The other controllers write their part.
Touch(n) ==
  /\ \/ apps[n] # NoObject /\ App(n, [apps[n] EXCEPT !.others = 1 - @])
     \/ syncs[n] # NoObject /\ Sync(n, [syncs[n] EXCEPT !.others = 1 - @])
  /\ UNCHANGED <<open, upcoming, work>>

\* Users delete previews, or edit them.
Meddle(n) ==
  /\ \/ App(n, NoObject)
     \/ Sync(n, NoObject)
     \/ /\ apps[n] # NoObject
        /\ \E f \in Field, v \in Value : App(n, [apps[n] EXCEPT !.fields[f] = v])
     \/ apps[n] # NoObject /\ \E b \in Base : App(n, [apps[n] EXCEPT !.base = b])
     \/ syncs[n] # NoObject /\ \E b \in Base : Sync(n, [syncs[n] EXCEPT !.base = b])
  /\ UNCHANGED <<open, upcoming, work>>

Next ==
  \/ OpenOrClose
  \/ Want
  \/ CatchUp
  \/ Follow
  \/ List
  \/ Finish
  \/ Restart
  \/ \E n \in PullRequests : Bring(n) \/ Drop(n) \/ Collect(n) \/ Touch(n)

Spec == Init /\ [][Next]_vars

\* Users write previews, too.
SpecWithUsers == Init /\ [][Next \/ \E n \in PullRequests : Meddle(n)]_vars
=============================================================================
