-------------------------------- MODULE MCZep --------------------------------
(* Two processes and an end-user: writes and erasures of one of them, and   *)
(* in the other the same next to a self test.                               *)
EXTENDS Zep

CONSTANTS p1, p2, w1, w2, w3

Placed == [w \in Workers |-> IF w = w3 THEN p2 ELSE p1]

Roles == [w \in Workers |->
            CASE w = w1 -> {"upsert", "delete_scope"}
              [] w = w2 -> {"upsert", "self_test"}
              [] OTHER -> {"delete_scope"}]
==============================================================================
