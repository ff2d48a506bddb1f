---------------------------- MODULE MCApplication ----------------------------
(* A small instance of ApplicationReconciler: a Deployment and an Ingress, *)
(* a spec without routing, two with it, and one the generator rejects.     *)
EXTENDS ApplicationReconciler

MCSpecs == {"plain", "routed", "edited", "bad"}
\* Without "routed", for the temporal properties.
MCFewSpecs == {"plain", "edited", "bad"}
MCBroken == {"bad"}
MCResource == {"deployment", "ingress"}
MCContent == {"v1", "v2"}

MCManifest ==
  [s \in Specs |->
     CASE s = "plain"  -> [r \in MCResource |-> IF r = "ingress" THEN "none" ELSE "v1"]
       [] s = "edited" -> [r \in MCResource |-> IF r = "ingress" THEN "v1" ELSE "v2"]
       [] OTHER        -> [r \in MCResource |-> "v1"]]

\* Only "edited" asks for other domains.
MCDomains == [s \in Specs |-> IF s = "edited" THEN "d2" ELSE "d1"]
=============================================================================
