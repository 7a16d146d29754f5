-------------------------- MODULE CatalogMapProofs --------------------------
(***************************************************************************)
(* Proofs about CatalogMap, for any numbers of calls, memories and ids and *)
(* any pages: it implements IdMap, the ids it answers with are those that  *)
(* are stored, a lost attempt is paid for by a committed row, nothing is   *)
(* lost behind the gate, only writes revive, and whoever waits for a row   *)
(* waits, in the end, for somebody who can go on.                          *)
(***************************************************************************)
EXTENDS CatalogMap, FiniteSetTheorems, WellFoundedInduction, TLAPS

-----------------------------------------------------------------------------
(* Deletions.                                                               *)

\* mark_deleted and every statement of mark_scope_deleted leave the ids and the
\* calls alone, and only ever hide rows.
LEMMA DeletionsHide ==
  ASSUME Deletion
  PROVE  UNCHANGED <<gid, callVars>> /\ live' \subseteq live
  BY DEF Deletion, MarkDeleted, FindScope, Sweep, SweepRow, CommitSweep, AbortSweep

-----------------------------------------------------------------------------
(* The page of a call.                                                      *)

\* A call works off positions of its page and is never at a statement with
\* none left.
Positions ==
  \A c \in Calls :
    /\ todo[c] \subseteq DOMAIN page[c]
    /\ pc[c] \in {"insert", "revive"} => todo[c] # {}

\* A call that has not ended has an attempt left.
Attempts ==
  \A c \in Calls : pc[c] = "begin" \/ InTransaction(c) => attempt[c] < Retries

Typed == TypeOK /\ Positions /\ Attempts

Position(c) == CHOOSE i \in todo[c] : \A j \in todo[c] : i <= j

LEMMA LeastExists ==
  ASSUME NEW S, S \subseteq Nat, S # {}
  PROVE  \E i \in S : \A j \in S : i <= j
<1>1. PICK i \in S : \A j \in S : ~(<<j, i>> \in OpToRel(<, Nat))
  BY NatLessThanWellFounded, WFMin, Zenon
<1>2. \A j \in S : i <= j
  <2> SUFFICES ASSUME NEW j \in S PROVE i <= j
    OBVIOUS
  <2>1. ~(j < i)
    <3>1. ASSUME j < i PROVE <<j, i>> \in OpToRel(<, Nat)
      <4>1. <<j, i>> \in Nat \X Nat
        OBVIOUS
      <4> QED
        BY <4>1, <3>1 DEF OpToRel
    <3> QED
      BY <1>1, <3>1
  <2> QED
    BY <2>1
<1> QED
  BY <1>2

LEMMA Pages ==
  ASSUME TypeOK, NEW c \in Calls
  PROVE  /\ DOMAIN page[c] \subseteq Nat
         /\ \A i \in DOMAIN page[c] : page[c][i] \in Keys
         /\ \A i, j \in DOMAIN page[c] : page[c][i] = page[c][j] => i = j
         /\ PageKeys(c) \subseteq Keys
         /\ IsFiniteSet(PageKeys(c) \cap Committed)
<1>1. page[c] \in Seq(Keys) /\ \A i, j \in DOMAIN page[c] : page[c][i] = page[c][j] => i = j
  BY CatalogMapAssumption DEF TypeOK
<1>2. DOMAIN page[c] \subseteq Nat /\ \A i \in DOMAIN page[c] : page[c][i] \in Keys
  BY <1>1
<1>3. PageKeys(c) \subseteq Keys
  BY <1>2 DEF PageKeys
<1>4. IsFiniteSet(PageKeys(c) \cap Committed)
  BY <1>3, CatalogMapAssumption, FS_Subset
<1> QED
  BY <1>1, <1>2, <1>3, <1>4

LEMMA CurrentIsOnThePage ==
  ASSUME Typed, NEW c \in Calls, todo[c] # {}
  PROVE  /\ Position(c) \in todo[c]
         /\ Position(c) \in DOMAIN page[c]
         /\ Current(c) = page[c][Position(c)]
         /\ Current(c) \in PageKeys(c)
         /\ Current(c) \in Keys
         /\ Rest(c) = todo[c] \ {Position(c)}
         /\ \A i \in Rest(c) : page[c][i] # Current(c)
<1>1. todo[c] \subseteq DOMAIN page[c] /\ todo[c] \subseteq Nat
  BY Pages DEF Typed, Positions
<1>2. \E i \in todo[c] : \A j \in todo[c] : i <= j
  BY <1>1, LeastExists, Zenon
<1>3. Position(c) \in todo[c]
  BY <1>2, Zenon DEF Position
<1>4. Current(c) = page[c][Position(c)] /\ Rest(c) = todo[c] \ {Position(c)}
  BY Zenon DEF Current, Rest, Position
<1>5. Current(c) \in PageKeys(c)
  BY <1>1, <1>3, <1>4 DEF PageKeys
<1>6. Current(c) \in Keys
  BY <1>5, Pages DEF Typed
<1>7. \A i \in Rest(c) : page[c][i] # Current(c)
  BY <1>1, <1>3, <1>4, Pages DEF Typed
<1> QED
  BY <1>1, <1>3, <1>4, <1>5, <1>6, <1>7

-----------------------------------------------------------------------------
(* Types.                                                                   *)

LEMMA FreshGidType ==
  ASSUME FreshGids # {}
  PROVE  /\ FreshGid \in Gids
         /\ \A k \in Keys : gid[k] # FreshGid
         /\ \A c \in Calls, k \in Keys : known[c][k] # FreshGid
<1>1. FreshGid \in FreshGids
  BY Zenon DEF FreshGid
<1> QED
  BY <1>1 DEF FreshGids

\* The statement after the inserts of a call.
LEMMA AfterInsertsMoves ==
  ASSUME TypeOK, NEW c \in Calls, NEW dead, AfterInserts(c, dead)
  PROVE  /\ \/ /\ revive[c]
               /\ pc' = [pc EXCEPT ![c] = "revive"]
               /\ todo'[c] # {}
            \/ /\ pc' = [pc EXCEPT ![c] = "commit"]
               /\ todo'[c] = {}
         /\ pc'[c] \in {"revive", "commit"}
         /\ todo' = [todo EXCEPT ![c] = todo'[c]]
         /\ todo'[c] \subseteq DOMAIN page[c]
         /\ \A i \in todo'[c] : page[c][i] \in dead
  BY DEF AfterInserts, TypeOK

LEMMA InitTyped == Init => Typed
<1> SUFFICES ASSUME Init PROVE Typed
  OBVIOUS
<1>1. Nothing \in [Keys -> Gids \cup {NoGid}]
  BY DEF Nothing
<1>2. TypeOK
  BY <1>1 DEF Init, TypeOK, Retries
<1>3. Positions /\ Attempts
  BY DEF Init, Positions, Attempts, InTransaction, Retries
<1> QED
  BY <1>2, <1>3 DEF Typed

LEMMA TypedFind ==
  ASSUME Typed, NEW c \in Calls, Find(c) PROVE Typed'
<1> DEFINE missing == {i \in DOMAIN page[c] : gid[page[c][i]] = NoGid}
           dead == (PageKeys(c) \cap Committed) \ live
           seen == [k \in Keys |-> IF k \in PageKeys(c) THEN gid[k] ELSE NoGid]
<1> USE DEF Typed
<1>1. seen \in [Keys -> Gids \cup {NoGid}] /\ dead \in SUBSET Keys
  BY Pages DEF TypeOK, Committed
<1>2. /\ todo' = [todo EXCEPT ![c] = todo'[c]] /\ todo'[c] \subseteq DOMAIN page[c]
      /\ \/ pc' = [pc EXCEPT ![c] = "insert"] /\ todo'[c] # {}
         \/ pc' = [pc EXCEPT ![c] = "revive"] /\ todo'[c] # {}
         \/ pc' = [pc EXCEPT ![c] = "commit"]
  <2>1. CASE missing # {} /\ pc' = [pc EXCEPT ![c] = "insert"] /\ todo' = [todo EXCEPT ![c] = missing]
    BY <2>1 DEF TypeOK
  <2>2. CASE AfterInserts(c, dead)
    BY <2>2, AfterInsertsMoves
  <2> QED
    BY <2>1, <2>2 DEF Find
<1>3. todo'[c] \in SUBSET Nat
  BY <1>2, Pages
<1>4. TypeOK'
  BY <1>1, <1>2, <1>3 DEF Find, TypeOK
<1>5. Positions'
  BY <1>2 DEF Find, TypeOK, Positions
<1>6. Attempts'
  BY <1>2 DEF Find, TypeOK, Attempts, InTransaction
<1> QED
  BY <1>4, <1>5, <1>6

LEMMA TypedInsertRow ==
  ASSUME Typed, NEW c \in Calls, InsertRow(c) PROVE Typed'
<1> USE DEF Typed
<1>1. Current(c) \in Keys /\ Rest(c) \subseteq todo[c] /\ FreshGid \in Gids
  BY CurrentIsOnThePage, FreshGidType DEF InsertRow, Positions
<1>2. /\ todo' = [todo EXCEPT ![c] = todo'[c]] /\ todo'[c] \subseteq DOMAIN page[c]
      /\ \/ pc' = pc /\ todo'[c] # {}
         \/ pc' = [pc EXCEPT ![c] = "revive"] /\ todo'[c] # {}
         \/ pc' = [pc EXCEPT ![c] = "commit"]
  <2>1. CASE Rest(c) # {} /\ pc' = pc /\ todo' = [todo EXCEPT ![c] = Rest(c)]
    BY <1>1, <2>1 DEF TypeOK, Positions
  <2>2. CASE AfterInserts(c, gone[c])
    BY <2>2, AfterInsertsMoves
  <2> QED
    BY <2>1, <2>2 DEF InsertRow
<1>3. todo'[c] \in SUBSET Nat
  BY <1>2, Pages
<1>4. \A d \in Calls : d # c => Current(c) \notin mine[d]
  BY DEF InsertRow, Blocked, WaitsFor
<1>5. /\ mine' \in [Calls -> SUBSET Keys]
      /\ \A d, e \in Calls : d # e => mine'[d] \cap mine'[e] = {}
  BY <1>1, <1>4 DEF InsertRow, TypeOK
<1>6. TypeOK'
  BY <1>1, <1>2, <1>3, <1>5 DEF InsertRow, TypeOK
<1>7. Positions'
  BY <1>2 DEF InsertRow, TypeOK, Positions
<1>8. Attempts'
  BY <1>2 DEF InsertRow, TypeOK, Attempts, InTransaction
<1> QED
  BY <1>6, <1>7, <1>8

LEMMA TypedRollback ==
  ASSUME Typed, NEW c \in Calls, NEW to \in {"begin", "conflict", "deadlock", "aborted"},
         Rollback(c, to),
         \/ UNCHANGED attempt /\ to # "begin"
         \/ /\ attempt[c] < Retries
            /\ attempt' = [attempt EXCEPT ![c] = @ + 1]
            /\ to = IF attempt[c] = Retries - 1 THEN "conflict" ELSE "begin"
  PROVE  Typed'
<1> USE DEF Typed
<1>1. Nothing \in [Keys -> Gids \cup {NoGid}]
  BY DEF Nothing
<1>2. attempt' \in [Calls -> 0..Retries]
  <2>1. CASE UNCHANGED attempt
    BY <2>1 DEF TypeOK
  <2>2. CASE attempt[c] < Retries /\ attempt' = [attempt EXCEPT ![c] = @ + 1]
    <3>1. attempt \in [Calls -> 0..Retries]
      BY DEF TypeOK
    <3>2. attempt[c] \in 0..Retries
      BY <3>1
    <3>3. attempt[c] + 1 \in 0..Retries
      BY <2>2, <3>2 DEF Retries
    <3> QED
      BY <2>2, <3>1, <3>3
  <2> QED
    BY <2>1, <2>2
<1>3. TypeOK'
  BY <1>1, <1>2 DEF Rollback, TypeOK
<1>4. Positions'
  <2>1. page' = page /\ todo' = [todo EXCEPT ![c] = {}] /\ pc' = [pc EXCEPT ![c] = to]
    BY DEF Rollback
  <2>2. pc \in [Calls -> {"begin", "insert", "revive", "commit", "done",
                         "conflict", "deadlock", "aborted"}]
        /\ todo \in [Calls -> SUBSET Nat]
    BY DEF TypeOK
  <2>3. ASSUME NEW d \in Calls
        PROVE  todo'[d] \subseteq DOMAIN page'[d] /\ (pc'[d] \in {"insert", "revive"} => todo'[d] # {})
    <3>1. CASE d = c
      BY <2>1, <2>2, <3>1
    <3>2. CASE d # c
      BY <2>1, <2>2, <3>2 DEF Positions
    <3> QED
      BY <3>1, <3>2
  <2> QED
    BY <2>3 DEF Positions
<1>5. ASSUME NEW d \in Calls, pc'[d] = "begin" \/ InTransaction(d)'
      PROVE  attempt'[d] < Retries
  <2>1. /\ pc' = [pc EXCEPT ![c] = to]
        /\ pc \in [Calls -> {"begin", "insert", "revive", "commit", "done",
                            "conflict", "deadlock", "aborted"}]
        /\ attempt \in [Calls -> 0..Retries]
    BY DEF Rollback, TypeOK
  <2>2. CASE d = c
    <3>1. to = "begin"
      BY <1>5, <2>1, <2>2 DEF InTransaction
    <3>2. attempt' = [attempt EXCEPT ![c] = @ + 1] /\ attempt[c] # Retries - 1
      BY <3>1
    <3>3. attempt'[c] = attempt[c] + 1 /\ attempt[c] \in 0..Retries /\ attempt[c] < Retries
      BY <2>1, <3>1, <3>2
    <3> QED
      BY <2>2, <3>2, <3>3 DEF Retries
  <2>3. CASE d # c
    BY <1>5, <2>1, <2>3 DEF Attempts, InTransaction
  <2> QED
    BY <2>2, <2>3
<1> QED
  BY <1>3, <1>4, <1>5 DEF Attempts

LEMMA TypedReviveRow ==
  ASSUME Typed, NEW c \in Calls, ReviveRow(c) PROVE Typed'
<1> USE DEF Typed
<1>1. Current(c) \in Keys /\ Rest(c) \subseteq todo[c]
  BY CurrentIsOnThePage DEF ReviveRow, Positions
<1>2. TypeOK'
  BY <1>1 DEF ReviveRow, TypeOK
<1>3. Positions'
  BY <1>1 DEF ReviveRow, TypeOK, Positions
<1>4. Attempts'
  BY DEF ReviveRow, TypeOK, Attempts, InTransaction
<1> QED
  BY <1>2, <1>3, <1>4

LEMMA TypedCommit ==
  ASSUME Typed, NEW c \in Calls, Commit(c) PROVE Typed'
<1> USE DEF Typed
<1>0. Nothing \in [Keys -> Gids \cup {NoGid}]
  BY DEF Nothing
<1>1. TypeOK'
  BY <1>0 DEF Commit, TypeOK
<1>2. Positions'
  BY DEF Commit, TypeOK, Positions
<1>3. Attempts'
  BY DEF Commit, TypeOK, Attempts, InTransaction
<1> QED
  BY <1>1, <1>2, <1>3

\* The three ways a transaction is rolled back.
RollsBack(c) == LoseRace(c) \/ BreakDeadlock(c) \/ Abort(c)

LEMMA RollbackWhere ==
  ASSUME Typed, NEW c \in Calls, RollsBack(c)
  PROVE  \E to \in {"begin", "conflict", "deadlock", "aborted"} :
           /\ Rollback(c, to)
           /\ \/ UNCHANGED attempt /\ to # "begin"
              \/ /\ LoseRace(c)
                 /\ attempt[c] < Retries
                 /\ attempt' = [attempt EXCEPT ![c] = @ + 1]
                 /\ to = IF attempt[c] = Retries - 1 THEN "conflict" ELSE "begin"
<1>1. CASE LoseRace(c)
  <2>1. attempt[c] < Retries
    BY <1>1 DEF LoseRace, Typed, Attempts, InTransaction
  <2> QED
    BY <1>1, <2>1 DEF LoseRace
<1>2. CASE BreakDeadlock(c)
  BY <1>2 DEF BreakDeadlock
<1>3. CASE Abort(c)
  BY <1>3 DEF Abort
<1> QED
  BY <1>1, <1>2, <1>3 DEF RollsBack

LEMMA NextTyped == Typed /\ [Next]_vars => Typed'
<1> SUFFICES ASSUME Typed, [Next]_vars PROVE Typed'
  OBVIOUS
<1>1. CASE UNCHANGED vars
  BY <1>1 DEF Typed, TypeOK, Positions, Attempts, InTransaction, vars, callVars
<1>2. ASSUME NEW c \in Calls, Find(c) PROVE Typed'
  BY <1>2, TypedFind
<1>3. ASSUME NEW c \in Calls, InsertRow(c) PROVE Typed'
  BY <1>3, TypedInsertRow
<1>4. ASSUME NEW c \in Calls, RollsBack(c) PROVE Typed'
  BY <1>4, RollbackWhere, TypedRollback
<1>5. ASSUME NEW c \in Calls, ReviveRow(c) PROVE Typed'
  BY <1>5, TypedReviveRow
<1>6. ASSUME NEW c \in Calls, Commit(c) PROVE Typed'
  BY <1>6, TypedCommit
<1>7. CASE Deletion
  <2>1. gid' = gid /\ UNCHANGED callVars /\ live' \subseteq live
    BY <1>7, DeletionsHide
  <2>2. sweep' \subseteq Keys /\ swept' \subseteq Keys
    BY <1>7 DEF Deletion, MarkDeleted, FindScope, Sweep, SweepRow, CommitSweep, AbortSweep,
       Typed, TypeOK
  <2> QED
    BY <2>1, <2>2 DEF Typed, TypeOK, Positions, Attempts, InTransaction, callVars
<1> QED
  BY <1>1, <1>2, <1>3, <1>4, <1>5, <1>6, <1>7 DEF Next, Step, RollsBack, Finished

\* The rows and the locals of every call keep their types, and no two open
\* transactions hold the same unique key (_map).
THEOREM TypeCorrect == Spec => []TypeOK
<1>1. Typed => TypeOK
  BY DEF Typed
<1> QED
  BY <1>1, InitTyped, NextTyped, PTL DEF Spec
-----------------------------------------------------------------------------
(* What a transaction knows.                                                *)

\* Outside a transaction nothing is uncommitted.  Inside one, an id it knows is
\* stored, or was minted for a row of its own; such a row nobody committed.
Reads ==
  \A c \in Calls :
    /\ ~InTransaction(c) => mine[c] = {} /\ revived[c] = {}
    /\ \A k \in mine[c] : gid[k] = NoGid /\ known[c][k] \in Gids
    /\ InTransaction(c) =>
         \A k \in Keys : known[c][k] # NoGid => k \in mine[c] \/ gid[k] = known[c][k]

\* An id minted for a row that is not committed is known to its call alone.
MintedIdsAreFresh ==
  \A c \in Calls : \A k \in mine[c] :
    /\ \A l \in Keys : gid[l] # known[c][k]
    /\ \A d \in Calls, l \in Keys : known[d][l] = known[c][k] => d = c /\ l = k

Known == Typed /\ Reads /\ MintedIdsAreFresh /\ AnswersAreTheStoredIds

LEMMA InitKnown == Init => Known
<1> SUFFICES ASSUME Init PROVE Known
  OBVIOUS
<1>1. Reads /\ MintedIdsAreFresh
  BY DEF Init, Reads, MintedIdsAreFresh, InTransaction
<1>2. AnswersAreTheStoredIds
  BY DEF Init, AnswersAreTheStoredIds, Nothing
<1> QED
  BY <1>1, <1>2, InitTyped DEF Known

LEMMA KnownFind ==
  ASSUME Known, Typed', NEW c \in Calls, Find(c) PROVE Known'
<1> USE DEF Known
<1>1. /\ ~InTransaction(c) /\ mine[c] = {}
      /\ gid' = gid /\ mine' = mine /\ revived' = revived /\ answer' = answer
      /\ \A d \in Calls : d # c => known'[d] = known[d] /\ (InTransaction(d)' <=> InTransaction(d))
      /\ \A k \in Keys : known'[c][k] \in {gid[k], NoGid}
  <2>1. ~InTransaction(c)
    BY DEF Find, InTransaction
  <2>2. pc' = [pc EXCEPT ![c] = pc'[c]]
    BY DEF Find, AfterInserts, Typed, TypeOK
  <2>3. known' = [known EXCEPT ![c] = [k \in Keys |-> IF k \in PageKeys(c) THEN gid[k] ELSE NoGid]]
    BY DEF Find
  <2>4. known \in [Calls -> [Keys -> Gids \cup {NoGid}]] /\ pc = [d \in Calls |-> pc[d]]
    BY DEF Typed, TypeOK
  <2>5. \A k \in Keys : known'[c][k] \in {gid[k], NoGid}
    BY <2>3, <2>4
  <2>6. \A d \in Calls : d # c => known'[d] = known[d] /\ (InTransaction(d)' <=> InTransaction(d))
    BY <2>2, <2>3, <2>4 DEF InTransaction
  <2> QED
    BY <2>1, <2>5, <2>6 DEF Find, Reads
<1>2. revived[c] = {}
  BY <1>1 DEF Reads
<1>3. Reads'
  BY <1>1, <1>2 DEF Reads
<1>4. MintedIdsAreFresh'
  <2>1. \A d \in Calls : \A k \in mine[d] : d # c /\ known[d][k] # NoGid /\ k \in Keys
    BY <1>1, CatalogMapAssumption DEF Reads, Typed, TypeOK
  <2> QED
    BY <1>1, <2>1 DEF MintedIdsAreFresh
<1> QED
  BY <1>1, <1>3, <1>4 DEF AnswersAreTheStoredIds

LEMMA KnownInsertRow ==
  ASSUME Known, Typed', NEW c \in Calls, InsertRow(c) PROVE Known'
<1> USE DEF Known
<1> DEFINE k0 == Current(c)
<1>1. k0 \in Keys /\ k0 \notin mine[c] /\ gid[k0] = NoGid
  <2>1. k0 \in Keys
    BY CurrentIsOnThePage DEF InsertRow, Typed, Positions
  <2> QED
    BY <2>1 DEF InsertRow, Conflicts, Committed
<1>2. \A d \in Calls : d # c => k0 \notin mine[d]
  BY DEF InsertRow, Blocked, WaitsFor
<1>3. /\ FreshGid \in Gids
      /\ \A k \in Keys : gid[k] # FreshGid
      /\ \A d \in Calls, k \in Keys : known[d][k] # FreshGid
  BY FreshGidType DEF InsertRow
<1>4. /\ gid' = gid /\ revived' = revived /\ answer' = answer
      /\ mine' = [mine EXCEPT ![c] = @ \cup {k0}]
      /\ known' = [known EXCEPT ![c][k0] = FreshGid]
      /\ InTransaction(c)
      /\ \A d \in Calls : InTransaction(d)' <=> InTransaction(d)
  <2>1. InTransaction(c)
    BY DEF InsertRow, InTransaction
  <2>2. pc' = pc \/ (pc' = [pc EXCEPT ![c] = pc'[c]] /\ pc'[c] \in {"revive", "commit"})
    BY DEF InsertRow, AfterInserts, Typed, TypeOK
  <2> QED
    BY <2>1, <2>2 DEF InsertRow, InTransaction, Typed, TypeOK
<1>5. /\ mine'[c] = mine[c] \cup {k0}
      /\ \A d \in Calls : d # c => mine'[d] = mine[d] /\ known'[d] = known[d]
      /\ known'[c][k0] = FreshGid
      /\ \A k \in Keys : k # k0 => known'[c][k] = known[c][k]
      /\ \A d \in Calls : mine[d] \subseteq Keys
  BY <1>1, <1>4 DEF Typed, TypeOK
<1>6. Reads'
  BY <1>1, <1>2, <1>3, <1>4, <1>5 DEF Reads
<1>7. MintedIdsAreFresh'
  <2> SUFFICES ASSUME NEW d \in Calls, NEW k \in mine'[d]
               PROVE  /\ \A l \in Keys : gid'[l] # known'[d][k]
                      /\ \A e \in Calls, l \in Keys : known'[e][l] = known'[d][k] => e = d /\ l = k
    BY DEF MintedIdsAreFresh
  <2>1. CASE d = c /\ k = k0
    BY <1>1, <1>3, <1>4, <1>5, <2>1
  <2>2. CASE ~(d = c /\ k = k0)
    <3>1. k \in mine[d] /\ k \in Keys /\ known'[d][k] = known[d][k]
      BY <1>5, <2>2
    <3>2. known[d][k] # FreshGid
      BY <1>3, <3>1
    <3> QED
      BY <1>4, <1>5, <3>1, <3>2 DEF MintedIdsAreFresh
  <2> QED
    BY <2>1, <2>2
<1> QED
  BY <1>4, <1>6, <1>7 DEF AnswersAreTheStoredIds

LEMMA KnownRollback ==
  ASSUME Known, Typed', NEW c \in Calls, RollsBack(c) PROVE Known'
<1> USE DEF Known
<1>1. PICK to \in {"begin", "conflict", "deadlock", "aborted"} : Rollback(c, to)
  BY RollbackWhere
<1>2. /\ gid' = gid /\ answer' = answer
      /\ mine'[c] = {} /\ revived'[c] = {} /\ ~InTransaction(c)'
      /\ \A k \in Keys : known'[c][k] = NoGid
      /\ \A d \in Calls : d # c => /\ mine'[d] = mine[d] /\ revived'[d] = revived[d]
                                   /\ known'[d] = known[d]
                                   /\ (InTransaction(d)' <=> InTransaction(d))
  BY <1>1 DEF Rollback, InTransaction, Nothing, Typed, TypeOK
<1>3. Reads'
  BY <1>2 DEF Reads
<1>4. MintedIdsAreFresh'
  <2>1. \A d \in Calls : \A k \in mine[d] : known[d][k] # NoGid
    BY CatalogMapAssumption DEF Reads
  <2> QED
    BY <1>2, <2>1 DEF MintedIdsAreFresh
<1> QED
  BY <1>2, <1>3, <1>4 DEF AnswersAreTheStoredIds

LEMMA KnownReviveRow ==
  ASSUME Known, Typed', NEW c \in Calls, ReviveRow(c) PROVE Known'
<1> USE DEF Known
<1>1. /\ gid' = gid /\ answer' = answer /\ mine' = mine /\ known' = known
      /\ InTransaction(c)
      /\ \A d \in Calls : InTransaction(d)' <=> InTransaction(d)
      /\ \A d \in Calls : d # c => revived'[d] = revived[d]
  BY DEF ReviveRow, InTransaction, Typed, TypeOK
<1>2. Reads'
  BY <1>1 DEF Reads
<1> QED
  BY <1>1, <1>2 DEF MintedIdsAreFresh, AnswersAreTheStoredIds

\* A commit adds the rows of its transaction and changes no other.
LEMMA CommitGids ==
  ASSUME Known, NEW c \in Calls, Commit(c)
  PROVE  /\ mine[c] \subseteq Keys
         /\ \A k \in mine[c] : gid[k] = NoGid /\ gid'[k] = known[c][k] /\ gid'[k] \in Gids
         /\ \A k \in Keys : k \notin mine[c] => gid'[k] = gid[k]
         /\ \A k \in Keys : gid[k] # NoGid => gid'[k] = gid[k]
  BY DEF Commit, Known, Reads, Typed, TypeOK

LEMMA KnownCommit ==
  ASSUME Known, Typed', NEW c \in Calls, Commit(c) PROVE Known'
<1> USE DEF Known
<1>1. /\ mine'[c] = {} /\ revived'[c] = {}
      /\ InTransaction(c) /\ ~InTransaction(c)'
      /\ \A k \in Keys : known'[c][k] = NoGid
      /\ \A d \in Calls : d # c => /\ mine'[d] = mine[d] /\ revived'[d] = revived[d]
                                   /\ known'[d] = known[d]
                                   /\ (InTransaction(d)' <=> InTransaction(d))
  BY DEF Commit, InTransaction, Nothing, Typed, TypeOK
<1>2. \A d \in Calls : d # c => mine[c] \cap mine[d] = {}
  BY DEF Typed, TypeOK
<1>3. \A d \in Calls : mine[d] \subseteq Keys
  BY DEF Typed, TypeOK
<1>4. Reads'
  BY <1>1, <1>2, <1>3, CommitGids DEF Reads
<1>5. MintedIdsAreFresh'
  <2> SUFFICES ASSUME NEW d \in Calls, NEW k \in mine'[d]
               PROVE  /\ \A l \in Keys : gid'[l] # known'[d][k]
                      /\ \A e \in Calls, l \in Keys : known'[e][l] = known'[d][k] => e = d /\ l = k
    BY DEF MintedIdsAreFresh
  <2>1. d # c /\ k \in mine[d] /\ known'[d] = known[d] /\ known[d][k] # NoGid
    BY <1>1, CatalogMapAssumption DEF Reads
  <2>2. ASSUME NEW l \in Keys PROVE gid'[l] # known[d][k]
    <3>1. CASE l \in mine[c]
      BY <2>1, <3>1, CommitGids DEF MintedIdsAreFresh
    <3>2. CASE l \notin mine[c]
      BY <2>1, <3>2, CommitGids DEF MintedIdsAreFresh
    <3> QED
      BY <3>1, <3>2
  <2> QED
    BY <1>1, <2>1, <2>2 DEF MintedIdsAreFresh
<1>6. AnswersAreTheStoredIds'
  <2> SUFFICES ASSUME NEW d \in Calls, NEW k \in Keys, answer'[d][k] # NoGid
               PROVE  answer'[d][k] = gid'[k]
    BY DEF AnswersAreTheStoredIds
  <2>1. CASE d = c
    <3>1. answer'[c][k] \in {known[c][k], NoGid}
      BY DEF Commit, Typed, TypeOK
    <3>2. k \in mine[c] \/ gid[k] = known[c][k]
      BY <1>1, <2>1, <3>1 DEF Reads
    <3> QED
      BY <2>1, <3>1, <3>2, CommitGids
  <2>2. CASE d # c
    <3>1. answer'[d] = answer[d]
      BY <2>2 DEF Commit, Typed, TypeOK
    <3> QED
      BY <3>1, CommitGids DEF AnswersAreTheStoredIds
  <2> QED
    BY <2>1, <2>2
<1> QED
  BY <1>4, <1>5, <1>6

LEMMA NextKnown == Known /\ [Next]_vars => Known'
<1> SUFFICES ASSUME Known, [Next]_vars PROVE Known'
  OBVIOUS
<1> USE DEF Known
<1>t. Typed'
  BY NextTyped
<1>1. CASE UNCHANGED vars
  BY <1>1, <1>t DEF Reads, MintedIdsAreFresh, AnswersAreTheStoredIds, InTransaction, vars, callVars
<1>2. ASSUME NEW c \in Calls, Find(c) PROVE Known'
  BY <1>2, <1>t, KnownFind
<1>3. ASSUME NEW c \in Calls, InsertRow(c) PROVE Known'
  BY <1>3, <1>t, KnownInsertRow
<1>4. ASSUME NEW c \in Calls, RollsBack(c) PROVE Known'
  BY <1>4, <1>t, KnownRollback
<1>5. ASSUME NEW c \in Calls, ReviveRow(c) PROVE Known'
  BY <1>5, <1>t, KnownReviveRow
<1>6. ASSUME NEW c \in Calls, Commit(c) PROVE Known'
  BY <1>6, <1>t, KnownCommit
<1>7. CASE Deletion
  BY <1>7, <1>t, DeletionsHide DEF Reads, MintedIdsAreFresh, AnswersAreTheStoredIds,
     InTransaction, callVars
<1> QED
  BY <1>1, <1>2, <1>3, <1>4, <1>5, <1>6, <1>7 DEF Next, Step, RollsBack, Finished

\* Whatever calls raced, an id a caller was given is the id of that memory
\* (_map; test_concurrent_mapping_of_one_native_id_yields_one_gateway_id).
THEOREM AnswersAreStored == Spec => []AnswersAreTheStoredIds
<1>1. Known => AnswersAreTheStoredIds
  BY DEF Known
<1> QED
  BY <1>1, InitKnown, NextKnown, PTL DEF Spec
-----------------------------------------------------------------------------
(* Revivals.                                                                *)

\* Only a call of the write path revives, and only what it read as deleted;
\* what it read as deleted is on its page and has a row.
Revivals ==
  \A c \in Calls :
    /\ gone[c] \subseteq PageKeys(c) \cap Committed
    /\ revived[c] \subseteq gone[c]
    /\ revived[c] # {} => revive[c]
    /\ pc[c] = "revive" => revive[c] /\ \A i \in todo[c] : page[c][i] \in gone[c]

RevivalInv == Known /\ Revivals

LEMMA InitRevival == Init => RevivalInv
  BY InitKnown DEF Init, RevivalInv, Revivals

\* No step takes a row away or gives it another id.
LEMMA RowsStay ==
  ASSUME Known, [Next]_vars
  PROVE  /\ page' = page /\ revive' = revive /\ gated' = gated
         /\ \A c \in Calls : PageKeys(c)' = PageKeys(c)
         /\ Committed \subseteq Committed'
<1>1. page' = page /\ revive' = revive /\ gated' = gated
  BY DeletionsHide DEF Next, Step, Find, InsertRow, LoseRace, ReviveRow, Commit, BreakDeadlock,
     Abort, Rollback, Finished, vars, callVars
<1>2. \A k \in Keys : gid[k] # NoGid => gid'[k] # NoGid
  <2>1. CASE gid' = gid
    BY <2>1
  <2>2. CASE \E c \in Calls : Commit(c)
    BY <2>2, CommitGids
  <2> QED
    BY <2>1, <2>2, DeletionsHide DEF Next, Step, Find, InsertRow, LoseRace, ReviveRow,
       BreakDeadlock, Abort, Rollback, Finished, vars, callVars
<1> QED
  BY <1>1, <1>2 DEF PageKeys, Committed

LEMMA RevivalNext == RevivalInv /\ [Next]_vars => RevivalInv'
<1> SUFFICES ASSUME RevivalInv, [Next]_vars PROVE Revivals'
  BY NextKnown DEF RevivalInv
<1> USE DEF RevivalInv, Known
<1>r. /\ page' = page /\ revive' = revive
      /\ \A c \in Calls : PageKeys(c)' = PageKeys(c)
      /\ Committed \subseteq Committed'
  BY RowsStay
<1>1. CASE UNCHANGED vars \/ Deletion
  <2>1. gone' = gone /\ revived' = revived /\ pc' = pc /\ todo' = todo
    BY <1>1, DeletionsHide DEF vars, callVars
  <2> QED
    BY <1>r, <2>1 DEF Revivals
<1>2. ASSUME NEW c \in Calls, Find(c) PROVE Revivals'
  <2> DEFINE dead == (PageKeys(c) \cap Committed) \ live
  <2>1. revived' = revived /\ revived[c] = {} /\ gone' = [gone EXCEPT ![c] = dead]
    BY <1>2 DEF Find, Reads, InTransaction
  <2>2. /\ pc' = [pc EXCEPT ![c] = pc'[c]] /\ todo' = [todo EXCEPT ![c] = todo'[c]]
        /\ pc'[c] = "revive" => revive[c] /\ \A i \in todo'[c] : page[c][i] \in dead
    <3>1. CASE pc' = [pc EXCEPT ![c] = "insert"]
               /\ todo' = [todo EXCEPT ![c] = {i \in DOMAIN page[c] : gid[page[c][i]] = NoGid}]
      BY <3>1 DEF Typed, TypeOK
    <3>2. CASE AfterInserts(c, dead)
      <4>1. TypeOK
        BY DEF Typed
      <4>2. pc = [d \in Calls |-> pc[d]] /\ todo = [d \in Calls |-> todo[d]]
        BY DEF Typed, TypeOK
      <4> QED
        BY <3>2, <4>1, <4>2, AfterInsertsMoves
    <3> QED
      BY <1>2, <3>1, <3>2 DEF Find
  <2> QED
    BY <1>r, <2>1, <2>2 DEF Revivals, Typed, TypeOK
<1>3. ASSUME NEW c \in Calls, InsertRow(c) PROVE Revivals'
  <2>1. revived' = revived /\ gone' = gone
    BY <1>3 DEF InsertRow
  <2>2. /\ pc' = [pc EXCEPT ![c] = pc'[c]] /\ todo' = [todo EXCEPT ![c] = todo'[c]]
        /\ pc'[c] = "revive" => revive[c] /\ \A i \in todo'[c] : page[c][i] \in gone[c]
    <3>1. CASE pc' = pc /\ todo' = [todo EXCEPT ![c] = Rest(c)]
      BY <1>3, <3>1 DEF InsertRow, Typed, TypeOK
    <3>2. CASE AfterInserts(c, gone[c])
      BY <3>2, AfterInsertsMoves DEF Typed, TypeOK
    <3> QED
      BY <1>3, <3>1, <3>2 DEF InsertRow
  <2> QED
    BY <1>r, <2>1, <2>2 DEF Revivals, Typed, TypeOK
<1>4. ASSUME NEW c \in Calls, RollsBack(c) PROVE Revivals'
  <2>1. PICK to \in {"begin", "conflict", "deadlock", "aborted"} : Rollback(c, to)
    BY <1>4, RollbackWhere
  <2> QED
    BY <1>r, <2>1 DEF Rollback, Revivals, Typed, TypeOK
<1>5. ASSUME NEW c \in Calls, ReviveRow(c) PROVE Revivals'
  <2>1. pc[c] = "revive" /\ todo[c] # {}
    BY <1>5 DEF ReviveRow, Typed, Positions
  <2>2. Current(c) \in gone[c] /\ Rest(c) \subseteq todo[c] /\ revive[c]
    BY <2>1, CurrentIsOnThePage DEF Revivals
  <2>3. /\ gone' = gone
        /\ \A d \in Calls : d # c => revived'[d] = revived[d] /\ pc'[d] = pc[d] /\ todo'[d] = todo[d]
        /\ revived'[c] = revived[c] \cup {Current(c)} /\ todo'[c] = Rest(c)
    BY <1>5 DEF ReviveRow, Typed, TypeOK
  <2>4. ASSUME NEW d \in Calls
        PROVE  /\ gone'[d] \subseteq (PageKeys(d) \cap Committed)'
               /\ revived'[d] \subseteq gone'[d]
               /\ revived'[d] # {} => revive'[d]
               /\ pc'[d] = "revive" => revive'[d] /\ \A i \in todo'[d] : page'[d][i] \in gone'[d]
    <3>1. CASE d = c
      BY <1>r, <2>1, <2>2, <2>3, <3>1 DEF Revivals
    <3>2. CASE d # c
      BY <1>r, <2>3, <3>2 DEF Revivals
    <3> QED
      BY <3>1, <3>2
  <2> QED
    BY <2>4 DEF Revivals
<1>6. ASSUME NEW c \in Calls, Commit(c) PROVE Revivals'
  <2>1. /\ todo' = todo
        /\ \A d \in Calls : d # c => revived'[d] = revived[d] /\ pc'[d] = pc[d] /\ gone'[d] = gone[d]
        /\ revived'[c] = {} /\ pc'[c] = "done" /\ gone'[c] = {}
    BY <1>6 DEF Commit, Typed, TypeOK
  <2> QED
    BY <1>r, <2>1 DEF Revivals
<1> QED
  BY <1>1, <1>2, <1>3, <1>4, <1>5, <1>6 DEF Next, Step, RollsBack, Finished

\* A read never brings a deleted memory back (ensure_many): whatever it races
\* with, a row is un-deleted by the commit of a call of the write path.
THEOREM ReadsReviveNothing == Spec => OnlyWritesRevive
<1> DEFINE Revived(k) == \E c \in Calls : /\ revive[c]
                                         /\ k \in PageKeys(c)
                                         /\ pc[c] = "commit" /\ pc'[c] = "done"
<1>1. ASSUME RevivalInv, [Next]_vars, NEW k \in Keys, k \in Committed \ live, k \in live'
      PROVE  Revived(k)
  <2>1. PICK c \in Calls : Commit(c)
    BY <1>1, DeletionsHide DEF Next, Step, Find, InsertRow, LoseRace, ReviveRow, BreakDeadlock,
       Abort, Rollback, Finished, vars, callVars
  <2>2. k \in mine[c] \cup revived[c]
    BY <1>1, <2>1 DEF Commit
  <2>3. k \notin mine[c]
    BY <1>1 DEF RevivalInv, Known, Reads, Committed
  <2>4. revive[c] /\ k \in PageKeys(c)
    BY <1>1, <2>2, <2>3 DEF RevivalInv, Revivals
  <2>5. pc[c] = "commit" /\ pc'[c] = "done"
    BY <1>1, <2>1 DEF Commit, RevivalInv, Known, Typed, TypeOK
  <2> QED
    BY <2>4, <2>5
<1>2. RevivalInv /\ [Next]_vars =>
        [\A k \in Keys : (k \in Committed \ live /\ k \in live') =>
           \E c \in Calls : /\ revive[c]
                            /\ k \in PageKeys(c)
                            /\ pc[c] = "commit" /\ pc'[c] = "done"]_vars
  BY <1>1
<1> QED
  BY <1>2, InitRevival, RevivalNext, PTL DEF Spec, OnlyWritesRevive

-----------------------------------------------------------------------------
(* The refinement.                                                          *)

\* What mark_scope_deleted has marked is live until it commits.
MarkedAreLive == swept \subseteq live

LEMMA MarkedNext == MarkedAreLive /\ [Next]_vars => MarkedAreLive'
<1> SUFFICES ASSUME MarkedAreLive, [Next]_vars PROVE MarkedAreLive'
  OBVIOUS
<1>1. CASE Deletion
  BY <1>1 DEF Deletion, MarkDeleted, FindScope, Sweep, SweepRow, CommitSweep, AbortSweep,
     MarkedAreLive
<1>2. CASE swept' = swept /\ live \subseteq live'
  BY <1>2 DEF MarkedAreLive
<1> QED
  BY <1>1, <1>2 DEF Next, Step, Find, InsertRow, LoseRace, ReviveRow, Commit, BreakDeadlock, Abort,
     Rollback, Finished, vars, callVars

\* All the calls and the deletions together look like IdMap: a commit publishes
\* its rows, mark_deleted buries one and mark_scope_deleted many, and nothing
\* else shows (_map).
THEOREM ImplementsIdMap == Spec => RefinesIdMap
<1>1. Init => Map!Init
  BY DEF Init, Map!Init, Nothing
<1>2. ASSUME RevivalInv, MarkedAreLive, [Next]_vars PROVE [Map!Next]_(Map!idVars)
  <2> USE <1>2 DEF RevivalInv, Known
  <2>0. Map!Issued = Committed
    BY DEF Map!Issued, Committed
  <2>1. ASSUME NEW c \in Calls, Commit(c) PROVE Map!Next
    <3>1. mine[c] \in SUBSET (Keys \ Map!Issued) /\ revived[c] \in SUBSET Map!Issued
      BY <2>0 DEF Reads, Revivals, Committed, Typed, TypeOK
    <3>2. gid' \in [Keys -> Gids \cup {NoGid}]
      BY NextTyped DEF Typed, TypeOK
    <3>3. \A k \in Keys : IF k \in mine[c] THEN gid'[k] \in Gids ELSE gid'[k] = gid[k]
      BY <2>1, CommitGids
    <3>4. ASSUME NEW k \in mine[c], NEW l \in Keys, gid'[k] = gid'[l] PROVE k = l
      <4>1. gid'[k] = known[c][k]
        BY <2>1, CommitGids
      <4>0. /\ \A m \in Keys : gid[m] # known[c][k]
            /\ \A m \in Keys : known[c][m] = known[c][k] => m = k
        BY DEF MintedIdsAreFresh
      <4>2. CASE l \in mine[c]
        <5>1. gid'[l] = known[c][l]
          BY <2>1, <4>2, CommitGids
        <5> QED
          BY <3>4, <4>0, <4>1, <5>1
      <4>3. CASE l \notin mine[c]
        <5>1. gid'[l] = gid[l]
          BY <2>1, <4>3, CommitGids
        <5> QED
          BY <3>4, <4>0, <4>1, <5>1
      <4> QED
        BY <4>2, <4>3
    <3>5. live' = live \cup mine[c] \cup revived[c]
      BY <2>1 DEF Commit
    <3>6. Map!Publish(mine[c], revived[c])
      BY <3>1, <3>2, <3>3, <3>4, <3>5 DEF Map!Publish
    <3> QED
      BY <3>1, <3>6 DEF Map!Next
  <2>2. CASE Deletion
    <3>1. ASSUME NEW k \in Keys, MarkDeleted(k) PROVE Map!Bury({k})
      BY <3>1 DEF MarkDeleted, Map!Bury
    <3>2. ASSUME CommitSweep PROVE Map!Bury(swept)
      BY <3>2, <1>2 DEF CommitSweep, MarkedAreLive, Map!Bury
    <3>3. \A dead : Map!Bury(dead) => Map!Next
      BY DEF Map!Bury, Map!Next
    <3>4. CASE ~(\E k \in Keys : MarkDeleted(k)) /\ ~CommitSweep
      BY <2>2, <3>4 DEF Deletion, FindScope, Sweep, SweepRow, AbortSweep, Map!idVars
    <3> QED
      BY <3>1, <3>2, <3>3, <3>4
  <2>3. CASE ~(\E c \in Calls : Commit(c)) /\ ~Deletion
    BY <2>3 DEF Next, Step, Find, InsertRow, LoseRace, ReviveRow, BreakDeadlock, Abort, Rollback,
       Finished, vars, callVars, Map!idVars
  <2> QED
    BY <2>1, <2>2, <2>3
<1>3. Init => MarkedAreLive
  BY DEF Init, MarkedAreLive
<1> QED
  BY <1>1, <1>2, <1>3, MarkedNext, InitRevival, RevivalNext, PTL DEF Spec, RefinesIdMap, Map!Spec
-----------------------------------------------------------------------------
(* Lost attempts.                                                           *)

\* The committed rows of its page a transaction knows.
Seen(c) == {k \in PageKeys(c) \cap Committed : known[c][k] # NoGid}

\* A transaction knows as many committed rows as attempts were lost before it,
\* and has still to insert only what it does not know.
Losses ==
  \A c \in Calls :
    /\ attempt[c] <= Cardinality(PageKeys(c) \cap Committed)
    /\ InTransaction(c) => attempt[c] <= Cardinality(Seen(c))
    /\ pc[c] = "insert" => \A i \in todo[c] : known[c][page[c][i]] = NoGid

LossInv == Known /\ Losses

LEMMA InitLoss == Init => LossInv
<1> SUFFICES ASSUME Init PROVE LossInv
  OBVIOUS
<1>1. Known
  BY InitKnown
<1>2. \A c \in Calls : Cardinality(PageKeys(c) \cap Committed) \in Nat
  BY <1>1, Pages, FS_CardinalityType DEF Known, Typed
<1> QED
  BY <1>1, <1>2 DEF Init, LossInv, Losses, InTransaction

\* What a call is to insert conflicts, if at all, with a row that somebody else
\* committed after the call had looked.
LEMMA ConflictIsNews ==
  ASSUME LossInv, NEW c \in Calls, LoseRace(c)
  PROVE  Current(c) \in (PageKeys(c) \cap Committed) \ Seen(c)
<1>1. pc[c] = "insert" /\ todo[c] # {}
  BY DEF LoseRace, LossInv, Known, Typed, Positions
<1>2. Current(c) \in PageKeys(c) /\ Position(c) \in todo[c] /\ Current(c) = page[c][Position(c)]
  BY <1>1, CurrentIsOnThePage DEF LossInv, Known
<1>3. known[c][Current(c)] = NoGid
  BY <1>1, <1>2 DEF LossInv, Losses
<1>4. Current(c) \notin mine[c]
  BY <1>3, CatalogMapAssumption DEF LossInv, Known, Reads
<1> QED
  BY <1>2, <1>3, <1>4 DEF LoseRace, Conflicts, Seen

\* The committed rows of a page only become more.
LEMMA RowsGrow ==
  ASSUME Known, [Next]_vars, NEW c \in Calls
  PROVE  /\ IsFiniteSet((PageKeys(c) \cap Committed)')
         /\ Cardinality(PageKeys(c) \cap Committed) \in Nat
         /\ Cardinality(PageKeys(c) \cap Committed) <= Cardinality((PageKeys(c) \cap Committed)')
         /\ Cardinality((PageKeys(c) \cap Committed)') \in Nat
         /\ PageKeys(c) \cap Committed \subseteq (PageKeys(c) \cap Committed)'
<1>1. PageKeys(c) \cap Committed \subseteq (PageKeys(c) \cap Committed)'
  BY RowsStay
<1>2. IsFiniteSet((PageKeys(c) \cap Committed)')
  <2>1. (PageKeys(c) \cap Committed)' \subseteq Keys
    BY DEF Committed
  <2> QED
    BY <2>1, CatalogMapAssumption, FS_Subset
<1> QED
  BY <1>1, <1>2, FS_Subset, FS_CardinalityType

\* A call of which this holds goes on with its losses paid.
PaidFor(c) ==
  /\ attempt[c] <= Cardinality(PageKeys(c) \cap Committed)
  /\ InTransaction(c) => attempt[c] <= Cardinality(Seen(c))
  /\ pc[c] = "insert" => \A i \in todo[c] : known[c][page[c][i]] = NoGid

\* A step that lets a transaction know no less, and asks nothing new of it,
\* leaves its losses paid.
LEMMA StaysPaid ==
  ASSUME LossInv, Known', [Next]_vars, NEW c \in Calls, attempt'[c] = attempt[c],
         InTransaction(c)' => /\ InTransaction(c)
                              /\ \A k \in Keys : known[c][k] # NoGid => known'[c][k] # NoGid,
         pc'[c] = "insert" => \A i \in todo'[c] : known'[c][page[c][i]] = NoGid
  PROVE  PaidFor(c)'
<1> USE DEF LossInv
<1>1. attempt[c] \in Nat
  BY DEF Known, Typed, TypeOK
<1>2. attempt'[c] <= Cardinality((PageKeys(c) \cap Committed)')
  <2>1. attempt[c] <= Cardinality(PageKeys(c) \cap Committed)
    BY DEF Losses
  <2>2. /\ Cardinality(PageKeys(c) \cap Committed) \in Nat
        /\ Cardinality((PageKeys(c) \cap Committed)') \in Nat
        /\ Cardinality(PageKeys(c) \cap Committed) <= Cardinality((PageKeys(c) \cap Committed)')
    BY RowsGrow
  <2> QED
    BY <1>1, <2>1, <2>2
<1>3. ASSUME InTransaction(c)' PROVE attempt'[c] <= Cardinality(Seen(c)')
  <2>1. Seen(c) \subseteq Seen(c)'
    BY <1>3, RowsGrow, Pages DEF Seen, Known, Typed
  <2>2. IsFiniteSet(Seen(c)')
    <3>1. Seen(c)' \subseteq (PageKeys(c) \cap Committed)'
      BY DEF Seen
    <3> QED
      BY <3>1, RowsGrow, FS_Subset
  <2>3. /\ Cardinality(Seen(c)) \in Nat /\ Cardinality(Seen(c)') \in Nat
        /\ Cardinality(Seen(c)) <= Cardinality(Seen(c)')
    BY <2>1, <2>2, FS_Subset, FS_CardinalityType
  <2>4. attempt[c] <= Cardinality(Seen(c))
    BY <1>3 DEF Losses
  <2> QED
    BY <1>1, <2>3, <2>4
<1>4. page' = page
  BY RowsStay
<1> QED
  BY <1>2, <1>3, <1>4 DEF PaidFor

LEMMA PaidFind ==
  ASSUME LossInv, Known', NEW c \in Calls, Find(c) PROVE PaidFor(c)'
<1> USE DEF LossInv
<1>0. TypeOK /\ [Next]_vars
  BY DEF Known, Typed, Next, Step
<1>1. /\ attempt' = attempt /\ page' = page /\ gid' = gid
      /\ PageKeys(c)' = PageKeys(c) /\ Committed' = Committed
      /\ \A k \in PageKeys(c) : known'[c][k] = gid[k]
  <2>1. attempt' = attempt /\ page' = page /\ gid' = gid
    BY DEF Find
  <2>2. PageKeys(c) \subseteq Keys
    BY <1>0, Pages
  <2>3. known' = [known EXCEPT ![c] = [k \in Keys |-> IF k \in PageKeys(c) THEN gid[k] ELSE NoGid]]
        /\ known = [d \in Calls |-> known[d]]
    BY <1>0 DEF Find, TypeOK
  <2>4. \A k \in PageKeys(c) : known'[c][k] = gid[k]
    BY <2>2, <2>3
  <2> QED
    BY <2>1, <2>4 DEF PageKeys, Committed
<1>2. Seen(c)' = (PageKeys(c) \cap Committed)'
  BY <1>1 DEF Seen, Committed
<1>3. attempt'[c] <= Cardinality((PageKeys(c) \cap Committed)')
  BY <1>1 DEF Losses
<1>4. ASSUME pc'[c] = "insert", NEW i \in todo'[c] PROVE known'[c][page'[c][i]] = NoGid
  <2>1. i \in DOMAIN page[c] /\ gid[page[c][i]] = NoGid
    <3>1. CASE AfterInserts(c, (PageKeys(c) \cap Committed) \ live)
      BY <1>0, <1>4, <3>1, AfterInsertsMoves
    <3>2. CASE todo' = [todo EXCEPT ![c] = {j \in DOMAIN page[c] : gid[page[c][j]] = NoGid}]
      BY <1>0, <1>4, <3>2 DEF TypeOK
    <3> QED
      BY <3>1, <3>2 DEF Find
  <2> QED
    BY <1>1, <2>1 DEF PageKeys
<1> QED
  BY <1>2, <1>3, <1>4 DEF PaidFor

LEMMA PaidInsertRow ==
  ASSUME LossInv, Known', NEW c \in Calls, InsertRow(c) PROVE PaidFor(c)'
<1> USE DEF LossInv
<1>0. Typed /\ TypeOK /\ [Next]_vars
  BY DEF Known, Typed, Next, Step
<1>1. attempt'[c] = attempt[c] /\ InTransaction(c) /\ todo[c] # {} /\ pc[c] = "insert"
  BY <1>0 DEF InsertRow, InTransaction, Typed, Positions
<1>2. /\ known'[c][Current(c)] # NoGid
      /\ \A k \in Keys : k # Current(c) => known'[c][k] = known[c][k]
  <2>1. FreshGid # NoGid
    BY FreshGidType, CatalogMapAssumption DEF InsertRow
  <2>2. Current(c) \in Keys
    BY <1>0, <1>1, CurrentIsOnThePage
  <2> QED
    BY <1>0, <2>1, <2>2 DEF InsertRow, TypeOK
<1>3. ASSUME pc'[c] = "insert", NEW i \in todo'[c] PROVE known'[c][page[c][i]] = NoGid
  <2>1. i \in Rest(c)
    <3>1. CASE AfterInserts(c, gone[c])
      BY <1>0, <1>3, <3>1, AfterInsertsMoves
    <3>2. CASE todo' = [todo EXCEPT ![c] = Rest(c)]
      BY <1>0, <1>3, <3>2 DEF TypeOK
    <3> QED
      BY <3>1, <3>2 DEF InsertRow
  <2>2. i \in todo[c] /\ page[c][i] # Current(c) /\ i \in DOMAIN page[c]
    BY <1>0, <1>1, <2>1, CurrentIsOnThePage DEF Typed, Positions
  <2>3. page[c][i] \in Keys
    BY <1>0, <2>2, Pages
  <2> QED
    BY <1>1, <1>2, <2>2, <2>3 DEF Losses
<1> QED
  BY <1>0, <1>1, <1>2, <1>3, StaysPaid

LEMMA PaidLoseRace ==
  ASSUME LossInv, Known', NEW c \in Calls, LoseRace(c) PROVE PaidFor(c)'
<1> USE DEF LossInv
<1>0. Typed /\ TypeOK /\ [Next]_vars
  BY DEF Known, Typed, Next, Step
<1> DEFINE Rows == PageKeys(c) \cap Committed
<1>1. InTransaction(c) /\ attempt[c] \in Nat /\ attempt'[c] = attempt[c] + 1
  BY <1>0 DEF LoseRace, InTransaction, TypeOK
<1>2. Seen(c) \subseteq Rows /\ Current(c) \in Rows \ Seen(c)
  BY ConflictIsNews DEF Seen
<1>3. IsFiniteSet(Rows)
  BY <1>0, Pages
<1>4. IsFiniteSet(Seen(c)) /\ Cardinality(Seen(c)) \in Nat /\ Cardinality(Rows) \in Nat
  BY <1>2, <1>3, FS_Subset, FS_CardinalityType
<1>5. Cardinality(Seen(c) \cup {Current(c)}) = Cardinality(Seen(c)) + 1
  BY <1>2, <1>4, FS_AddElement
<1>6. Cardinality(Seen(c) \cup {Current(c)}) <= Cardinality(Rows)
  BY <1>2, <1>3, FS_Subset
<1>7. attempt'[c] <= Cardinality(Rows)
  <2>1. attempt[c] <= Cardinality(Seen(c))
    BY <1>1 DEF Losses
  <2> QED
    BY <1>1, <1>4, <1>5, <1>6, <2>1
<1>8. attempt'[c] <= Cardinality(Rows')
  <2>1. Cardinality(Rows) <= Cardinality(Rows') /\ Cardinality(Rows') \in Nat
    BY <1>0, RowsGrow
  <2> QED
    BY <1>1, <1>4, <1>7, <2>1
<1>9. pc'[c] \in {"conflict", "begin"}
  BY <1>0 DEF LoseRace, Rollback, TypeOK
<1> QED
  BY <1>8, <1>9 DEF PaidFor, InTransaction

LEMMA LossNext == LossInv /\ [Next]_vars => LossInv'
<1> SUFFICES ASSUME LossInv, [Next]_vars PROVE LossInv'
  OBVIOUS
<1> USE DEF LossInv
<1>k. Known'
  BY NextKnown
<1>t. TypeOK
  BY DEF Known, Typed
<1> SUFFICES ASSUME NEW d \in Calls PROVE PaidFor(d)'
  BY <1>k DEF Losses, PaidFor
<1>1. CASE UNCHANGED vars \/ Deletion
  <2>1. UNCHANGED <<attempt, pc, known, todo, page>>
    BY <1>1, DeletionsHide DEF vars, callVars
  <2> QED
    BY <1>k, <2>1, StaysPaid DEF Losses, InTransaction
\* A call's step leaves the locals of the others alone.
<1>2. ASSUME NEW c \in Calls, c # d,
             Find(c) \/ InsertRow(c) \/ RollsBack(c) \/ ReviveRow(c) \/ Commit(c)
      PROVE  PaidFor(d)'
  <2>1. attempt'[d] = attempt[d] /\ pc'[d] = pc[d] /\ known'[d] = known[d] /\ todo'[d] = todo[d]
    <3>1. CASE Find(c) \/ InsertRow(c)
      BY <1>2, <1>t, <3>1 DEF Find, InsertRow, AfterInserts, TypeOK
    <3>2. CASE RollsBack(c)
      BY <1>2, <1>t, <3>2 DEF RollsBack, LoseRace, BreakDeadlock, Abort, Rollback, TypeOK
    <3>3. CASE ReviveRow(c) \/ Commit(c)
      BY <1>2, <1>t, <3>3 DEF ReviveRow, Commit, TypeOK
    <3> QED
      BY <1>2, <3>1, <3>2, <3>3
  <2> QED
    BY <1>k, <2>1, StaysPaid DEF Losses, InTransaction
<1>3. CASE Find(d)
  BY <1>3, <1>k, PaidFind
<1>4. CASE InsertRow(d)
  BY <1>4, <1>k, PaidInsertRow
<1>5. CASE LoseRace(d)
  BY <1>5, <1>k, PaidLoseRace
<1>6. CASE BreakDeadlock(d) \/ Abort(d)
  <2>1. attempt'[d] = attempt[d] /\ pc'[d] \in {"deadlock", "aborted"}
    BY <1>6, <1>t DEF BreakDeadlock, Abort, Rollback, TypeOK
  <2> QED
    BY <1>k, <2>1, StaysPaid DEF InTransaction
<1>7. CASE ReviveRow(d) \/ Commit(d)
  <2>1. /\ attempt'[d] = attempt[d] /\ pc'[d] # "insert"
        /\ InTransaction(d)' => known' = known /\ InTransaction(d)
    BY <1>7, <1>t DEF ReviveRow, Commit, InTransaction, TypeOK
  <2> QED
    BY <1>k, <2>1, StaysPaid
<1> QED
  BY <1>1, <1>2, <1>3, <1>4, <1>5, <1>6, <1>7 DEF Next, Step, RollsBack, Finished

\* A lost attempt is paid for by a row that somebody committed, however many
\* calls race (_map): the retry always finds more than the attempt before.
THEOREM LossesArePaidFor == Spec => []LostOnlyToCommittedRows
<1>1. LossInv => LostOnlyToCommittedRows
  BY DEF LossInv, Losses, LostOnlyToCommittedRows
<1> QED
  BY <1>1, InitLoss, LossNext, PTL DEF Spec

\* A call raises for a lost race only when it has lost every attempt.
Exhausted == \A c \in Calls : pc[c] = "conflict" => attempt[c] = Retries

LEMMA ExhaustedNext == Typed /\ Exhausted /\ [Next]_vars => Exhausted'
<1> SUFFICES ASSUME Typed, Exhausted, [Next]_vars PROVE Exhausted'
  OBVIOUS
<1>t. TypeOK
  BY DEF Typed
<1>1. CASE UNCHANGED vars \/ Deletion
  BY <1>1, DeletionsHide DEF vars, callVars, Exhausted
<1>2. ASSUME NEW c \in Calls, LoseRace(c) PROVE Exhausted'
  <2>1. attempt' = [attempt EXCEPT ![c] = @ + 1] /\ attempt[c] \in 0..Retries
    BY <1>2, <1>t DEF LoseRace, TypeOK
  <2>2. pc' = [pc EXCEPT ![c] = IF attempt[c] = Retries - 1 THEN "conflict" ELSE "begin"]
    BY <1>2 DEF LoseRace, Rollback
  <2>3. attempt'[c] = attempt[c] + 1 /\ \A d \in Calls : d # c => attempt'[d] = attempt[d]
    BY <2>1, <1>t DEF TypeOK
  <2>4. pc'[c] = "conflict" => attempt[c] = Retries - 1
    BY <2>2, <1>t DEF TypeOK
  <2>5. \A d \in Calls : d # c => pc'[d] = pc[d]
    BY <2>2, <1>t DEF TypeOK
  <2> QED
    BY <2>3, <2>4, <2>5 DEF Exhausted, Retries
<1>3. ASSUME NEW c \in Calls,
             Find(c) \/ InsertRow(c) \/ ReviveRow(c) \/ Commit(c) \/ BreakDeadlock(c) \/ Abort(c)
      PROVE  Exhausted'
  <2>1. /\ attempt' = attempt
        /\ \A d \in Calls : pc'[d] = pc[d] \/ pc'[d] # "conflict"
    BY <1>3, <1>t DEF Find, InsertRow, AfterInserts, ReviveRow, Commit, BreakDeadlock, Abort, Rollback,
       TypeOK
  <2> QED
    BY <2>1 DEF Exhausted
<1> QED
  BY <1>1, <1>2, <1>3 DEF Next, Step, Finished

LEMMA PageSize ==
  ASSUME TypeOK, NEW c \in Calls
  PROVE  /\ Len(page[c]) \in Nat
         /\ Cardinality(PageKeys(c) \cap Committed) \in Nat
         /\ Cardinality(PageKeys(c) \cap Committed) <= Len(page[c])
<1>1. page[c] \in Seq(Keys)
  BY CatalogMapAssumption DEF TypeOK
<1>2. Len(page[c]) \in Nat /\ DOMAIN page[c] = 1..Len(page[c])
  BY <1>1
<1>3. IsFiniteSet(DOMAIN page[c]) /\ Cardinality(DOMAIN page[c]) = Len(page[c])
  BY <1>2, FS_Interval
<1> DEFINE at == [i \in DOMAIN page[c] |-> page[c][i]]
<1>4. at \in Surjection(DOMAIN page[c], PageKeys(c))
  BY DEF Surjection, PageKeys
<1>5. IsFiniteSet(PageKeys(c)) /\ Cardinality(PageKeys(c)) <= Len(page[c])
  BY <1>3, <1>4, FS_Surjection
<1>6. /\ Cardinality(PageKeys(c)) \in Nat /\ Cardinality(PageKeys(c) \cap Committed) \in Nat
      /\ Cardinality(PageKeys(c) \cap Committed) <= Cardinality(PageKeys(c))
  BY <1>5, FS_Subset, FS_CardinalityType
<1> QED
  BY <1>2, <1>5, <1>6

\* "Losing that race is ordinary ... and must not reach the caller" (_map): of
\* a call whose page is shorter than the number of attempts it never does,
\* whatever races.
THEOREM ShortPagesGetThrough ==
  Spec => [](\A c \in Calls : pc[c] = "conflict" => Len(page[c]) >= Retries)
<1>1. Init => Exhausted
  BY DEF Init, Exhausted
<1>2. ASSUME LossInv, Exhausted, NEW c \in Calls, pc[c] = "conflict"
      PROVE  Len(page[c]) >= Retries
  <2>1. /\ attempt[c] = Retries
        /\ attempt[c] <= Cardinality(PageKeys(c) \cap Committed)
    BY <1>2 DEF Exhausted, LossInv, Losses
  <2>2. TypeOK
    BY <1>2 DEF LossInv, Known, Typed
  <2>3. /\ Len(page[c]) \in Nat
        /\ Cardinality(PageKeys(c) \cap Committed) \in Nat
        /\ Cardinality(PageKeys(c) \cap Committed) <= Len(page[c])
    BY <2>2, PageSize
  <2> QED
    BY <2>1, <2>3 DEF Retries
<1>3. LossInv /\ Exhausted => \A c \in Calls : pc[c] = "conflict" => Len(page[c]) >= Retries
  BY <1>2
<1>4. LossInv /\ Exhausted /\ [Next]_vars => (LossInv /\ Exhausted)'
  BY LossNext, ExhaustedNext DEF LossInv, Known
<1> QED
  BY <1>1, <1>3, <1>4, InitLoss, PTL DEF Spec

-----------------------------------------------------------------------------
(* The gate.                                                                *)

\* Behind the gate there is one transaction at a time, none has been lost, and
\* what it is to insert nobody has committed.
Gate ==
  gated =>
    /\ \A c \in Calls : attempt[c] = 0
    /\ \A c, d \in Calls : InTransaction(c) /\ InTransaction(d) => c = d
    /\ \A c \in Calls : pc[c] = "insert" => \A i \in todo[c] : page[c][i] \notin Committed

GateInv == LossInv /\ Gate

LEMMA InitGate == Init => GateInv
  BY InitLoss DEF Init, GateInv, Gate, InTransaction

LEMMA GateNext == GateInv /\ [Next]_vars => GateInv'
<1> SUFFICES ASSUME GateInv, [Next]_vars PROVE Gate'
  BY LossNext DEF GateInv
<1> USE DEF GateInv, LossInv
<1>t. Typed /\ TypeOK
  BY DEF Known, Typed
<1>r. page' = page /\ gated' = gated
  BY RowsStay
<1> SUFFICES ASSUME gated PROVE Gate'
  BY <1>r DEF Gate
<1>1. CASE UNCHANGED vars \/ Deletion
  <2>1. UNCHANGED <<attempt, pc, todo, gid>>
    BY <1>1, DeletionsHide DEF vars, callVars
  <2> QED
    BY <1>r, <2>1 DEF Gate, InTransaction, Committed
<1>2. ASSUME NEW c \in Calls, Find(c) PROVE Gate'
  <2>1. \A d \in Calls : ~InTransaction(d)
    BY <1>2 DEF Find, GateIsFree
  <2>2. /\ attempt' = attempt /\ gid' = gid
        /\ \A d \in Calls : d # c => pc'[d] = pc[d]
    BY <1>2, <1>t DEF Find, AfterInserts, TypeOK
  <2>3. ASSUME pc'[c] = "insert", NEW i \in todo'[c] PROVE page[c][i] \notin Committed
    <3>1. CASE AfterInserts(c, (PageKeys(c) \cap Committed) \ live)
      BY <1>t, <2>3, <3>1, AfterInsertsMoves
    <3>2. CASE todo' = [todo EXCEPT ![c] = {j \in DOMAIN page[c] : gid[page[c][j]] = NoGid}]
      BY <1>t, <2>3, <3>2 DEF TypeOK, Committed
    <3> QED
      BY <1>2, <3>1, <3>2 DEF Find
  <2>4. \A d \in Calls : d # c => ~InTransaction(d)' /\ pc'[d] # "insert"
    BY <2>1, <2>2 DEF InTransaction
  <2>5. Committed' = Committed
    BY <2>2 DEF Committed
  <2> QED
    BY <1>r, <2>2, <2>3, <2>4, <2>5 DEF Gate
<1>3. ASSUME NEW c \in Calls, InsertRow(c) PROVE Gate'
  <2>1. InTransaction(c) /\ pc[c] = "insert" /\ todo[c] # {}
    BY <1>3, <1>t DEF InsertRow, InTransaction, Typed, Positions
  <2>2. attempt' = attempt /\ Committed' = Committed
    BY <1>3 DEF InsertRow, Committed
  <2>3. \A d \in Calls : d # c => ~InTransaction(d) /\ pc'[d] = pc[d]
    BY <1>3, <1>t, <2>1 DEF Gate, InsertRow, AfterInserts, TypeOK
  <2>4. ASSUME pc'[c] = "insert", NEW i \in todo'[c] PROVE page[c][i] \notin Committed
    <3>1. CASE AfterInserts(c, gone[c])
      BY <1>t, <2>4, <3>1, AfterInsertsMoves
    <3>2. CASE todo' = [todo EXCEPT ![c] = Rest(c)]
      <4>1. i \in todo[c]
        BY <1>t, <2>1, <2>4, <3>2, CurrentIsOnThePage DEF TypeOK
      <4> QED
        BY <2>1, <4>1 DEF Gate
    <3> QED
      BY <1>3, <3>1, <3>2 DEF InsertRow
  <2>5. \A d \in Calls : d # c => ~InTransaction(d)' /\ pc'[d] # "insert"
    BY <2>3 DEF InTransaction
  <2> QED
    BY <1>r, <2>2, <2>4, <2>5 DEF Gate
<1>4. ASSUME NEW c \in Calls, LoseRace(c) PROVE FALSE
  <2>1. pc[c] = "insert" /\ todo[c] # {}
    BY <1>4, <1>t DEF LoseRace, Typed, Positions
  <2>2. Current(c) \in Committed
    BY <1>4, ConflictIsNews
  <2>3. Position(c) \in todo[c] /\ Current(c) = page[c][Position(c)]
    BY <1>t, <2>1, CurrentIsOnThePage
  <2> QED
    BY <2>1, <2>2, <2>3 DEF Gate
<1>5. ASSUME NEW c \in Calls, BreakDeadlock(c) \/ Abort(c) \/ ReviveRow(c) PROVE Gate'
  <2>1. /\ attempt' = attempt /\ gid' = gid
        /\ \A d \in Calls : d # c => pc'[d] = pc[d] /\ todo'[d] = todo[d]
        /\ pc'[c] # "insert"
        /\ InTransaction(c)' => InTransaction(c)
    BY <1>5, <1>t DEF BreakDeadlock, Abort, Rollback, ReviveRow, InTransaction, TypeOK
  <2>2. \A d \in Calls : InTransaction(d)' => InTransaction(d)
    BY <2>1 DEF InTransaction
  <2>3. Committed' = Committed
    BY <2>1 DEF Committed
  <2> QED
    BY <1>r, <2>1, <2>2, <2>3 DEF Gate
<1>6. ASSUME NEW c \in Calls, Commit(c) PROVE Gate'
  <2>1. /\ attempt' = attempt /\ InTransaction(c)
        /\ \A d \in Calls : d # c => pc'[d] = pc[d]
        /\ pc'[c] = "done"
    BY <1>6, <1>t DEF Commit, InTransaction, TypeOK
  <2>2. \A d \in Calls : ~InTransaction(d)' /\ pc'[d] # "insert"
    BY <2>1 DEF Gate, InTransaction
  <2> QED
    BY <2>1, <2>2 DEF Gate
<1> QED
  BY <1>1, <1>2, <1>3, <1>4, <1>5, <1>6 DEF Next, Step, Finished

\* Behind the gate of the in-memory catalog no call ever loses the unique
\* constraint to another, however many there are (Catalog.__init__).
THEOREM NothingIsLostBehindTheGate == Spec => []GateLosesNoRace
<1>1. GateInv => GateLosesNoRace
  BY DEF GateInv, Gate, GateLosesNoRace
<1> QED
  BY <1>1, InitGate, GateNext, PTL DEF Spec
-----------------------------------------------------------------------------
(* Waiting.                                                                 *)

\* What a call holds stands on its page before all it has still to do there.
StandBefore(c, holds, rest) ==
  \A k \in holds : \E i \in DOMAIN page[c] : page[c][i] = k /\ \A j \in rest : i < j

\* Inserts and updates follow the page, and no update comes before the inserts.
InPageOrder ==
  \A c \in Calls :
    /\ pc[c] = "insert" => revived[c] = {} /\ StandBefore(c, mine[c], todo[c])
    /\ pc[c] = "revive" => StandBefore(c, revived[c], todo[c])

OrderInv == Known /\ InPageOrder

LEMMA InitOrder == Init => OrderInv
  BY InitKnown DEF Init, OrderInv, InPageOrder

\* The row a call has just written stands before the rest.
LEMMA NextInOrder ==
  ASSUME Typed, NEW c \in Calls, todo[c] # {}, NEW STATE holds, StandBefore(c, holds, todo[c])
  PROVE  StandBefore(c, holds \cup {Current(c)}, Rest(c))
<1>1. /\ Position(c) \in DOMAIN page[c] /\ Current(c) = page[c][Position(c)]
      /\ Rest(c) = todo[c] \ {Position(c)}
  BY CurrentIsOnThePage
<1>2. todo[c] \subseteq Nat
  BY DEF Typed, TypeOK
<1>3. Position(c) \in todo[c] /\ \A j \in todo[c] : Position(c) <= j
  <2>1. \E i \in todo[c] : \A j \in todo[c] : i <= j
    BY <1>2, LeastExists, Zenon
  <2> QED
    BY <2>1, Zenon DEF Position
<1>4. \A j \in Rest(c) : Position(c) < j
  BY <1>1, <1>2, <1>3
<1>5. Rest(c) \subseteq todo[c]
  BY <1>1
<1> QED
  BY <1>1, <1>4, <1>5 DEF StandBefore

LEMMA OrderNext == OrderInv /\ [Next]_vars => OrderInv'
<1> SUFFICES ASSUME OrderInv, [Next]_vars PROVE InPageOrder'
  BY NextKnown DEF OrderInv
<1> USE DEF OrderInv
<1>t. Typed /\ TypeOK
  BY DEF Known, Typed
<1>r. page' = page
  BY RowsStay
<1> DEFINE Ordered(c) == /\ pc[c] = "insert" => revived[c] = {} /\ StandBefore(c, mine[c], todo[c])
                         /\ pc[c] = "revive" => StandBefore(c, revived[c], todo[c])
           Same(d) == UNCHANGED <<pc[d], todo[d], mine[d], revived[d]>>
<1> SUFFICES ASSUME NEW d \in Calls PROVE Ordered(d)'
  BY DEF InPageOrder
<1>0. ASSUME Same(d) PROVE Ordered(d)'
  BY <1>0, <1>r DEF InPageOrder, StandBefore
<1>1. CASE UNCHANGED vars \/ Deletion
  BY <1>0, <1>1, DeletionsHide DEF vars, callVars
<1>2. ASSUME NEW c \in Calls, c # d,
             Find(c) \/ InsertRow(c) \/ RollsBack(c) \/ ReviveRow(c) \/ Commit(c)
      PROVE  Same(d)
  <2>1. CASE Find(c) \/ InsertRow(c)
    BY <1>2, <1>t, <2>1 DEF Find, InsertRow, AfterInserts, TypeOK
  <2>2. CASE RollsBack(c)
    BY <1>2, <1>t, <2>2 DEF RollsBack, LoseRace, BreakDeadlock, Abort, Rollback, TypeOK
  <2>3. CASE ReviveRow(c) \/ Commit(c)
    BY <1>2, <1>t, <2>3 DEF ReviveRow, Commit, TypeOK
  <2> QED
    BY <1>2, <2>1, <2>2, <2>3
<1>3. CASE Find(d)
  <2>1. mine'[d] = {} /\ revived'[d] = {}
    BY <1>3 DEF Find, Known, Reads, InTransaction
  <2> QED
    BY <2>1 DEF StandBefore
<1>4. CASE InsertRow(d)
  <2>1. /\ pc[d] = "insert" /\ todo[d] # {} /\ revived[d] = {} /\ StandBefore(d, mine[d], todo[d])
        /\ revived' = revived /\ mine'[d] = mine[d] \cup {Current(d)}
    BY <1>4, <1>t DEF InsertRow, InPageOrder, Typed, TypeOK, Positions
  <2>2. CASE todo' = [todo EXCEPT ![d] = Rest(d)] /\ pc' = pc
    <3>1. todo'[d] = Rest(d) /\ pc'[d] = "insert"
      BY <1>t, <2>1, <2>2 DEF TypeOK
    <3>2. StandBefore(d, mine[d] \cup {Current(d)}, Rest(d))
      BY <1>t, <2>1, NextInOrder
    <3> QED
      BY <1>r, <2>1, <3>1, <3>2 DEF StandBefore
  <2>3. CASE AfterInserts(d, gone[d])
    <3>1. pc'[d] \in {"revive", "commit"}
      BY <1>t, <2>3, AfterInsertsMoves
    <3> QED
      BY <2>1, <3>1 DEF StandBefore
  <2> QED
    BY <1>4, <2>2, <2>3 DEF InsertRow
<1>5. CASE ReviveRow(d)
  <2>1. /\ pc[d] = "revive" /\ todo[d] # {} /\ StandBefore(d, revived[d], todo[d])
        /\ pc'[d] \in {"revive", "commit"} /\ todo'[d] = Rest(d)
        /\ revived'[d] = revived[d] \cup {Current(d)}
    BY <1>5, <1>t DEF ReviveRow, InPageOrder, Typed, TypeOK, Positions
  <2>2. StandBefore(d, revived[d] \cup {Current(d)}, Rest(d))
    BY <1>t, <2>1, NextInOrder
  <2> QED
    BY <1>r, <2>1, <2>2 DEF StandBefore
<1>6. CASE RollsBack(d) \/ Commit(d)
  <2>1. pc'[d] \notin {"insert", "revive"}
    BY <1>6, <1>t DEF RollsBack, LoseRace, BreakDeadlock, Abort, Rollback, Commit, TypeOK
  <2> QED
    BY <2>1
<1> QED
  BY <1>0, <1>1, <1>2, <1>3, <1>4, <1>5, <1>6 DEF Next, Step, RollsBack, Finished

\* Who is waited for by a call holds what that call is about to write: if both
\* insert or both update, the one that holds it is further along the ranking.
LEMMA WaitsGoUp ==
  ASSUME OrderInv, NEW c \in Calls, NEW d \in Calls, WaitsFor(c, d),
         todo[d] # {}, pc[d] \in {"insert", "revive"}, pc[c] = pc[d] \/ pc[d] = "insert",
         NEW rank \in [Keys -> 1..Cardinality(Keys)],
         \A i, j \in DOMAIN page[d] : i < j => rank[page[d][i]] < rank[page[d][j]]
  PROVE  pc[c] = pc[d] /\ rank[Current(c)] < rank[Current(d)]
<1> USE DEF OrderInv
<1>1. /\ Position(d) \in todo[d] /\ Position(d) \in DOMAIN page[d]
      /\ Current(d) = page[d][Position(d)]
  BY CurrentIsOnThePage DEF Known
<1>2. CASE pc[d] = "insert"
  <2>1. pc[c] = "insert" /\ Current(c) \in mine[d] /\ StandBefore(d, mine[d], todo[d])
    BY <1>2 DEF WaitsFor, InPageOrder
  <2>2. PICK i \in DOMAIN page[d] : page[d][i] = Current(c) /\ \A j \in todo[d] : i < j
    BY <2>1 DEF StandBefore
  <2> QED
    BY <1>1, <1>2, <2>1, <2>2
<1>3. CASE pc[d] = "revive"
  <2>1. pc[c] = "revive" /\ Current(c) \in revived[d] /\ StandBefore(d, revived[d], todo[d])
    BY <1>3 DEF WaitsFor, InPageOrder
  <2>2. PICK i \in DOMAIN page[d] : page[d][i] = Current(c) /\ \A j \in todo[d] : i < j
    BY <2>1 DEF StandBefore
  <2> QED
    BY <1>1, <1>3, <2>1, <2>2
<1> QED
  BY <1>2, <1>3

\* Nothing goes up and stays below a bound for ever.
LEMMA NoEndlessAscent ==
  ASSUME NEW N \in Nat, NEW T, T \subseteq 1..N, T # {}, \A x \in T : \E y \in T : x < y
  PROVE  FALSE
<1> DEFINE below == {n \in Nat : \E x \in T : n = N - x}
<1>1. PICK x0 \in T : TRUE
  OBVIOUS
<1>2. N - x0 \in below
  BY <1>1
<1>3. PICK n \in below : \A m \in below : n <= m
  BY <1>2, LeastExists
<1>4. PICK x \in T : n = N - x
  BY <1>3
<1>5. PICK y \in T : x < y
  BY <1>4
<1>6. N - y \in below /\ N - y < n
  BY <1>4, <1>5
<1> QED
  BY <1>3, <1>6

\* Where pages rank what they share alike, a set of calls that all wait for one
\* another is empty: of those that update none waits for one that inserts.
LEMMA NobodyWaitsInACircle ==
  ASSUME OrderInv, RankedAlike, NEW S \in SUBSET Calls, S # {},
         \A c \in S : \E d \in S : WaitsFor(c, d)
  PROVE  FALSE
<1> USE DEF OrderInv
<1>t. Typed /\ TypeOK /\ Positions
  BY DEF Known, Typed
<1>1. PICK rank \in [Keys -> 1..Cardinality(Keys)] :
        \A c \in Calls : \A i, j \in DOMAIN page[c] :
          i < j => rank[page[c][i]] < rank[page[c][j]]
  BY DEF RankedAlike
<1>2. Cardinality(Keys) \in Nat
  BY CatalogMapAssumption, FS_CardinalityType
<1>3. \A c \in S : pc[c] \in {"insert", "revive"} /\ todo[c] # {}
  BY <1>t DEF WaitsFor, Positions
<1>4. \A c \in S : rank[Current(c)] \in 1..Cardinality(Keys)
  BY <1>t, <1>1, <1>3, CurrentIsOnThePage
<1>5. ASSUME NEW R \in SUBSET S, R # {},
             \A c \in R : \E d \in R : WaitsFor(c, d) /\ (pc[c] = pc[d] \/ pc[d] = "insert")
      PROVE  FALSE
  <2> DEFINE T == {rank[Current(c)] : c \in R}
  <2>1. T \subseteq 1..Cardinality(Keys) /\ T # {}
    BY <1>4, <1>5
  <2>2. ASSUME NEW x \in T PROVE \E y \in T : x < y
    <3>1. PICK c \in R : x = rank[Current(c)]
      OBVIOUS
    <3>2. PICK d \in R : WaitsFor(c, d) /\ (pc[c] = pc[d] \/ pc[d] = "insert")
      BY <1>5
    <3>3. \A i, j \in DOMAIN page[d] : i < j => rank[page[d][i]] < rank[page[d][j]]
      BY <1>1
    <3>4. c \in Calls /\ d \in Calls /\ todo[d] # {} /\ pc[d] \in {"insert", "revive"}
      BY <1>3
    <3>5. rank[Current(c)] < rank[Current(d)]
      BY <3>2, <3>3, <3>4, WaitsGoUp
    <3> QED
      BY <3>1, <3>5
  <2> QED
    BY <1>2, <2>1, <2>2, NoEndlessAscent
<1> DEFINE Updating == {c \in S : pc[c] = "revive"}
<1>6. \A c \in Updating : \E d \in Updating : WaitsFor(c, d)
  BY <1>3 DEF WaitsFor, InPageOrder
<1>7. CASE Updating # {}
  BY <1>5, <1>6, <1>7
<1>8. CASE Updating = {}
  <2>1. \A c \in S : \E d \in S : WaitsFor(c, d) /\ pc[d] = "insert"
    BY <1>3, <1>8
  <2> QED
    BY <1>5, <2>1
<1> QED
  BY <1>7, <1>8

\* Where pages rank what they share alike, whoever waits waits in the end for
\* somebody who does not, however many calls there are: waits do not need
\* PostgreSQL's deadlock detection to end, unless for mark_scope_deleted.
THEOREM WaitsEnd == Spec => []SomebodyGoesOn
<1>1. ASSUME OrderInv, RankedAlike, \E c \in Calls : Blocked(c),
             \A c \in Calls : ~WaitsForSweep(c) /\ (InTransaction(c) => Blocked(c))
      PROVE  FALSE
  <2> DEFINE S == {c \in Calls : Blocked(c)}
  <2>1. ASSUME NEW c \in S PROVE \E d \in S : WaitsFor(c, d)
    <3>1. PICK d \in Calls : WaitsFor(c, d)
      BY <1>1 DEF Blocked
    <3>2. InTransaction(d)
      BY <1>1, <3>1 DEF WaitsFor, OrderInv, Known, Reads
    <3> QED
      BY <1>1, <3>1, <3>2
  <2> QED
    BY <1>1, <2>1, NobodyWaitsInACircle
<1>2. OrderInv => SomebodyGoesOn
  BY <1>1 DEF SomebodyGoesOn
<1> QED
  BY <1>2, InitOrder, OrderNext, PTL DEF Spec

\* A call is chosen to break a deadlock only where pages are crossed or somebody
\* waits for mark_scope_deleted.
LEMMA DeadlockNeedsACrossing ==
  ASSUME OrderInv, NEW c \in Calls, BreakDeadlock(c), RankedAlike
  PROVE  \E d \in Calls : WaitsForSweep(d)
<1>1. PICK S \in SUBSET Calls :
        c \in S /\ \A d \in S : \E e \in S : WaitsFor(d, e) \/ WaitsThroughSweep(d, e)
  BY DEF BreakDeadlock
<1> QED
  BY <1>1, NobodyWaitsInACircle DEF WaitsThroughSweep

\* No other step makes a call one that a deadlock ended.
LEMMA OtherStepsBreakNone ==
  ASSUME TypeOK, NEW c \in Calls, pc'[c] = "deadlock", pc[c] # "deadlock", [Next]_vars
  PROVE  BreakDeadlock(c)
<1>1. ASSUME NEW d \in Calls,
             Find(d) \/ InsertRow(d) \/ LoseRace(d) \/ Abort(d) \/ ReviveRow(d) \/ Commit(d)
      PROVE  FALSE
  <2>1. CASE Find(d) \/ InsertRow(d)
    BY <2>1 DEF Find, InsertRow, AfterInserts, TypeOK
  <2>2. CASE LoseRace(d) \/ Abort(d)
    BY <2>2 DEF LoseRace, Abort, Rollback, TypeOK
  <2>3. CASE ReviveRow(d) \/ Commit(d)
    BY <2>3 DEF ReviveRow, Commit, TypeOK
  <2> QED
    BY <1>1, <2>1, <2>2, <2>3
<1>2. ASSUME NEW d \in Calls, BreakDeadlock(d) PROVE d = c
  BY <1>2 DEF BreakDeadlock, Rollback, TypeOK
<1>3. CASE UNCHANGED vars \/ Deletion
  BY <1>3, DeletionsHide DEF vars, callVars
<1> QED
  BY <1>1, <1>2, <1>3 DEF Next, Step, Finished

\* "Losing that race is ordinary, not exceptional, and must not reach the
\* caller" (_map), for any number of calls: it reaches the caller only of a page
\* as long as there are attempts, and a deadlock only where pages are crossed or
\* somebody waits for mark_scope_deleted.
THEOREM RacesStayInside == Spec => RaceStaysInside
<1> DEFINE Shorts == \A c \in Calls : pc[c] = "conflict" => Len(page[c]) >= Retries
           Stays == \A c \in Calls : pc'[c] # pc[c] =>
                      /\ pc'[c] = "conflict" => Len(page[c]) >= Retries
                      /\ pc'[c] = "deadlock" => ~RankedAlike \/ \E d \in Calls : WaitsForSweep(d)
<1>1. ASSUME OrderInv, Shorts', [Next]_vars PROVE Stays
  <2> SUFFICES ASSUME NEW c \in Calls, pc'[c] # pc[c]
               PROVE  /\ pc'[c] = "conflict" => Len(page[c]) >= Retries
                      /\ pc'[c] = "deadlock" => ~RankedAlike \/ \E d \in Calls : WaitsForSweep(d)
    OBVIOUS
  <2>1. Known /\ TypeOK
    BY <1>1 DEF OrderInv, Known, Typed
  <2>2. page' = page
    BY <1>1, <2>1, RowsStay
  <2>3. pc'[c] = "conflict" => Len(page[c]) >= Retries
    BY <1>1, <2>2
  <2>4. ASSUME pc'[c] = "deadlock", RankedAlike PROVE \E d \in Calls : WaitsForSweep(d)
    <3>1. BreakDeadlock(c)
      BY <1>1, <2>1, <2>4, OtherStepsBreakNone
    <3> QED
      BY <1>1, <2>4, <3>1, DeadlockNeedsACrossing
  <2> QED
    BY <2>3, <2>4
<1>2. OrderInv /\ Shorts' /\ [Next]_vars => [Stays]_vars
  BY <1>1
<1> QED
  BY <1>2, InitOrder, OrderNext, ShortPagesGetThrough, PTL DEF Spec, RaceStaysInside
=============================================================================
