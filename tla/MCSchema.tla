------------------------------ MODULE MCSchema ------------------------------
(* Instances of Schema.                                                     *)
EXTENDS Schema

CONSTANTS t1, t2, a, b, c

\* A server, an app started without preflight, and a migration.
Deployment == [p \in Procs |->
                 CASE p = a -> "serve" [] p = b -> "boot" [] p = c -> "migrate"]
=============================================================================
