---------------------------- MODULE MCCatalogMap ----------------------------
(* Instances of CatalogMap: what three calls were given.                     *)
EXTENDS CatalogMap, TLC

CONSTANTS n1, n2, c1, c2, c3

Given(p, q, r) == (c1 :> p) @@ (c2 :> q) @@ (c3 :> r)

\* Calls that rank the natives they share alike, as one provider ranks one
\* end-user's memories.  With three of two natives one call inserts, one revives
\* what is deleted in between, and an erasure by scope meets the third.
Alike == {Given(<<n1, n2>>, <<n1, n2>>, <<n1, n2>>)}

\* Calls of searches that rank the same memories differently.
Crossed == {Given(<<n1, n2>>, <<n2, n1>>, <<n1>>)}

MCWorkloads == Alike \cup Crossed

MCGids == 1..5
=============================================================================
