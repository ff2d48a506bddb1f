----------------------------- MODULE MCPipeline ------------------------------
(* A small instance of GitHubPipeline: a template that sets the command,   *)
(* one that leaves it alone, and a pipeline that moves to another          *)
(* repository.                                                             *)
EXTENDS GitHubPipeline

MCField == {"command"}

Configured == [template |-> [f \in MCField |-> "v1"], base |-> "r1"]
Bare == [template |-> [f \in MCField |-> Unset], base |-> "r2"]

OneSpec == {Configured}
TwoSpecs == {Configured, Bare}
=============================================================================
