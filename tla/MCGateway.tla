------------------------------ MODULE MCGateway ------------------------------
(* Instances of Gateway.                                                    *)
EXTENDS Gateway, TLC

CONSTANTS t1, t2, u1, s1, l1, p1, p2, n1, n2, w1, w2

\* Filters: the whole end-user, and narrower.
S(t, session, label) ==
  [tenant |-> t, subject |-> u1, session |-> session, label |-> label]

BySubject == {S(t1, None, None)}
BySession == {S(t1, None, None), S(t1, s1, None)}
ByLabel == {S(t1, None, None), S(t1, None, l1)}
\* Two tenants that call an end-user by the same name.
SharedName == {S(t1, None, None), S(t1, s1, None), S(t2, None, None)}

\* Every worker runs with the same settings, or a deploy has changed them.
SameDefault == [w \in Workers |-> p1]
RollingDeploy == [w \in Workers |-> IF w = w1 THEN p1 ELSE p2]

AllCaps == [p \in Providers |-> Features]
\* pgvector without an extractor next to Zep: no ingest at one, neither
\* sessions, labels nor updates at the other.
MixedCaps == [p \in Providers |->
                IF p = p1 THEN Features \ {"ingest"}
                          ELSE Features \ {"session", "label", "update"}]

NativeSymmetry == Permutations(Natives)
=============================================================================
