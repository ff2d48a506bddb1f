---------------------------- MODULE MCRemoteSync -----------------------------
(* Small instances of RemoteSyncReconciler.                                *)
EXTENDS RemoteSyncReconciler

Source(kind, sha, secrets) == [kind |-> kind, sha |-> sha, secrets |-> secrets]

BranchOnly == {Source("branch", 1, {"git", "pull"})}
PullOnly == {Source("pull", 1, {"git", "pull"})}
BranchOrSHA == {Source("branch", 1, {"git", "pull"}), Source("sha", 1, {"git", "new"})}

\* Every revision has a short name of its own, or 1 and 3 share one.
Distinct == [r \in 1..Commits |-> <<"a", "b", "c">>[r]]
Colliding == [r \in 1..Commits |-> <<"a", "b", "a">>[r]]
=============================================================================
