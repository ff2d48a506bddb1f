------------------------------- MODULE Rollout -------------------------------
(***************************************************************************)
(* What the RemoteSync controller promises, without caches, calls, retries *)
(* and crashes, and without the Images and RemoteSyncs that come and go:   *)
(* GitHub names one revision after the other, kpack builds some of those   *)
(* named, and the Application is moved from one build to a later one.      *)
(***************************************************************************)
EXTENDS Naturals

CONSTANTS Revision, NoRevision, NoObject

VARIABLES
  named,    \* the revision that GitHub names now
  builds,   \* the revisions of which a build is known somewhere
  running   \* what the Application runs

vars == <<named, builds, running>>

Init ==
  /\ named \in Revision
  /\ builds = {}
  /\ running \in {NoObject, NoRevision}

Advance ==
  /\ \E r \in Revision : r > named /\ named' = r
  /\ UNCHANGED <<builds, running>>

Build(r) ==
  /\ r <= named
  /\ builds' = builds \union {r}
  /\ UNCHANGED <<named, running>>

\* The Image of a build is deleted.
Forget ==
  /\ builds' \in SUBSET builds
  /\ UNCHANGED <<named, running>>

Deploy(r) ==
  /\ r \in builds
  /\ running # NoObject
  /\ running \in Revision => running <= r
  /\ running' = r
  /\ UNCHANGED <<named, builds>>

\* Others create and delete the Application.
Create == running = NoObject /\ running' = NoRevision /\ UNCHANGED <<named, builds>>
Delete == running' = NoObject /\ UNCHANGED <<named, builds>>

Next ==
  \/ Advance
  \/ \E r \in Revision : Build(r) \/ Deploy(r)
  \/ Forget
  \/ Create
  \/ Delete

Spec == Init /\ [][Next]_vars
=============================================================================
