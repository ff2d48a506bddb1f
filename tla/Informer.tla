------------------------------ MODULE Informer -------------------------------
(***************************************************************************)
(* An API object, or all objects of one kind, as a controller of this      *)
(* operator sees it: through an informer cache that lags behind the API    *)
(* server.  A "view" is the sequence of the versions from the cached one   *)
(* to the live one.  The watch delivers the next version with Tail.        *)
(***************************************************************************)
EXTENDS Naturals, Sequences

\* What client.Get and client.List answer, and what is stored.
Cached(view) == view[1]
Live(view) == view[Len(view)]

\* The versions from the cached one to the live one.
Held(view) == {view[i] : i \in 1..Len(view)}

\* The API server makes no new version of an object that does not change.
Write(view, object) == IF object = Live(view) THEN view ELSE Append(view, object)

\* The cache has every version.
UpToDate(view) == Len(view) = 1

\* A view of versions in S; it always holds a live version.
Versions(view, S) == view \in Seq(S) /\ Len(view) >= 1
=============================================================================
