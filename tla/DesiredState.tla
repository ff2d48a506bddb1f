---------------------------- MODULE DesiredState -----------------------------
(***************************************************************************)
(* What the Application controller promises, without caches, queues, calls *)
(* and crashes: users say what they want, the controller follows at its    *)
(* own pace but never back, brings about one object after another of the   *)
(* version it follows, and reports "deployed" only when all objects of the *)
(* newest version are there.                                               *)
(*                                                                         *)
(* The last promise is for the first Application of a name.  Objects that  *)
(* the cluster removes with a deleted Application may be missed later.     *)
(***************************************************************************)
EXTENDS Naturals, Sequences

CONSTANTS Specs, Resource, NoObject, Foreign, Manifest, Domains, NoDomains

VARIABLES
  wanted,     \* the versions that users asked for
  following,  \* the version that the controller follows
  objects,    \* content of the child objects
  report      \* what the controller reports about the newest version

vars == <<wanted, following, objects, report>>

Newest == wanted[Len(wanted)]
FirstOfName == Newest.alive /\ Newest.uid = 1

Complete == \A r \in Resource :
  Manifest[Newest.spec][r] # NoObject => objects[r] = Manifest[Newest.spec][r]

NothingReported == [phase |-> "", domains |-> NoDomains]

Init ==
  /\ \E s \in Specs : wanted = <<[uid |-> 1, alive |-> TRUE, spec |-> s]>>
  /\ following = 0
  /\ objects \in [Resource -> {NoObject, Foreign}]
  /\ report = NothingReported

\* A user changes, deletes or creates the Application.
Want ==
  /\ \/ /\ Newest.alive
        /\ \E alive \in BOOLEAN, s \in Specs :
             wanted' = Append(wanted, [uid |-> Newest.uid, alive |-> alive, spec |-> s])
        /\ UNCHANGED report
     \/ /\ ~Newest.alive
        /\ \E s \in Specs :
             wanted' = Append(wanted, [uid |-> Newest.uid + 1, alive |-> TRUE, spec |-> s])
        /\ report' = NothingReported
  /\ UNCHANGED <<following, objects>>

GoOn == following' \in following..Len(wanted')

Follow == GoOn /\ UNCHANGED <<wanted, objects, report>>

\* Only for a version in which the Application exists.
Bring(r) ==
  /\ following # 0
  /\ LET version == wanted[following] IN
     /\ version.alive
     /\ Manifest[version.spec][r] # NoObject
     /\ objects' = [objects EXCEPT ![r] = Manifest[version.spec][r]]
  /\ GoOn
  /\ UNCHANGED <<wanted, report>>

\* A report makes a version of its own.
Report ==
  /\ following = Len(wanted)
  /\ Newest.alive
  /\ FirstOfName => Complete
  /\ report' = [phase |-> "deployed", domains |-> Domains[Newest.spec]]
  /\ wanted' = Append(wanted, Newest)
  /\ GoOn
  /\ UNCHANGED objects

Lose(r) ==
  /\ ~FirstOfName
  /\ objects' = [objects EXCEPT ![r] = NoObject]
  /\ UNCHANGED <<wanted, following, report>>

Next ==
  \/ Want
  \/ Follow
  \/ \E r \in Resource : Bring(r) \/ Lose(r)
  \/ Report

Spec == Init /\ [][Next]_vars
=============================================================================
