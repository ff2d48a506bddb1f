------------------------------ MODULE MCWebhook ------------------------------
(* A small instance of WebhookRefresh: a RemoteSync of a branch, one of a  *)
(* pull request, and an AppPipeline.                                       *)
EXTENDS WebhookRefresh

MCTarget == {"main", "preview", "pipeline"}
MCKind ==
  [t \in MCTarget |-> CASE t = "main" -> "branch"
                        [] t = "preview" -> "pull"
                        [] t = "pipeline" -> "pipeline"]
MCFollows == [t \in MCTarget |-> IF t = "preview" THEN "7" ELSE "master"]
=============================================================================
