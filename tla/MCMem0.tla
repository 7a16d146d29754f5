-------------------------------- MODULE MCMem0 --------------------------------
(* One end-user, an erasure of all that is held of it, and beside it any    *)
(* other verb or a second erasure.                                          *)
EXTENDS Mem0

CONSTANTS t1, u1, s1, n1, n2, n3, n4, w1, w2

S(session) == [tenant |-> t1, subject |-> u1, session |-> session, label |-> None]

BySession == {S(None), S(s1)}
BySubject == {S(None)}

\* A page of it, written with and without a session.
FullPageStored == [n \in Natives |-> CASE n = n2 -> S(s1) [] n \in {n3, n4} -> None [] OTHER -> S(None)]

Roles == [w \in Workers |->
            IF w = w1 THEN {"delete_scope"}
                      ELSE {"ingest", "upsert", "update", "delete", "delete_scope"}]
===============================================================================
