------------------------------ MODULE Mem0Proofs ------------------------------
(***************************************************************************)
(* For a Mem0 of any size, any length of its pages and any number of verbs *)
(* at once: an erasure over a listing that shows what is held drains its   *)
(* scope and counts only what has gone, and an update that is answered     *)
(* changed its memory.                                                     *)
(***************************************************************************)
EXTENDS Mem0, FiniteSetTheorems, TLAPS

Labelled == {"idle", "add", "get", "list", "delete", "answered", "updated", "erased", "failed"}

\* What the steps of a write rely on.
Steps ==
  \A w \in Workers :
    /\ pc[w] = "add" => scope[w] \in Filters /\ facts[w] > 0
    /\ pc[w] = "get" => target[w] \in Natives \ Unissued /\ (applied[w] \/ target[w] \notin held)
    /\ pc[w] = "idle" => removed[w] = 0

Typed == TypeOK /\ Steps

LEMMA InitTyped == Init => Typed
  BY Mem0Assumption, ScopesAssumption DEF Init, Typed, TypeOK, Steps, Unissued

\* What a set of memories holds is finite.
LEMMA Finite ==
  ASSUME NEW S \in SUBSET Natives
  PROVE  IsFiniteSet(S) /\ Cardinality(S) \in Nat
  BY Mem0Assumption, ScopesAssumption, FS_Subset, FS_CardinalityType

LEMMA Larger ==
  ASSUME NEW S \in SUBSET Natives, NEW T \in SUBSET S
  PROVE  Cardinality(T) <= Cardinality(S)
  BY Finite, FS_Subset

\* A page is part of the listing, and short only if it is all of it.
LEMMA PageOfListing ==
  ASSUME TypeOK, NEW s, NEW P \in Pages(s)
  PROVE  /\ P \subseteq {n \in listed : Matches(s, scopeOf[n])}
         /\ P \in SUBSET Natives
         /\ Cardinality(P) <= PAGE
         /\ Cardinality(P) < PAGE => P = {n \in listed : Matches(s, scopeOf[n])}
         /\ Length(P) \in 0..PAGE
         /\ Length(P) = Cardinality(P \ blank)
<1> DEFINE all == {n \in listed : Matches(s, scopeOf[n])}
<1>1. /\ P \in SUBSET all
      /\ Cardinality(P) = PAGE \/ (P = all /\ Cardinality(P) < PAGE)
  BY DEF Pages
<1>2. P \in SUBSET Natives /\ P \ blank \in SUBSET P /\ P \ blank \in SUBSET Natives
  BY <1>1 DEF TypeOK
<1>3. Cardinality(P) \in Nat /\ Cardinality(P \ blank) \in Nat
  BY <1>2, Finite
<1>4. Cardinality(P \ blank) <= Cardinality(P)
  BY <1>2, Larger
<1> HIDE DEF all
<1>5. Cardinality(P) <= PAGE /\ (Cardinality(P) < PAGE => P = all)
  BY <1>1, <1>3, Mem0Assumption, ScopesAssumption
<1>6. Cardinality(P \ blank) \in 0..PAGE
  BY <1>3, <1>4, <1>5, Mem0Assumption, ScopesAssumption
<1> QED
  BY <1>1, <1>2, <1>5, <1>6 DEF Length, all

\* What a write does to what Mem0 holds.
LEMMA StoreTyped ==
  ASSUME Typed, NEW N \in SUBSET Unissued, NEW s \in Scope, NEW empty, Store(N, s, empty),
         UNCHANGED eventual
  PROVE  /\ held' = held \cup N /\ N \in SUBSET Natives /\ N \cap held = {}
         /\ listed' \subseteq Natives /\ blank' \subseteq Natives
         /\ scopeOf' \in [Natives -> Scope \cup {None}]
         /\ \A n \in Natives \ N : scopeOf'[n] = scopeOf[n]
         /\ \A n \in N : scopeOf'[n] = s
         /\ Unissued' = Unissued \ N
         /\ held' \subseteq Natives /\ held' \cap Unissued' = {}
         /\ passed' \in [Workers -> SUBSET Natives]
         /\ eventual' \/ listed' = held'
  BY Mem0Assumption, ScopesAssumption DEF Typed, TypeOK, Store, Unissued

LEMMA RemoveTyped ==
  ASSUME Typed, NEW n \in Natives, Remove(n), UNCHANGED eventual
  PROVE  /\ held' = held \ {n} /\ held' \subseteq Natives /\ listed' \subseteq Natives
         /\ eventual' \/ listed' = held'
  BY DEF Typed, TypeOK, Remove

LEMMA NextTyped == Typed /\ [Next]_vars => Typed'
<1> SUFFICES ASSUME Typed, [Next]_vars PROVE Typed'
  OBVIOUS
<1> USE Mem0Assumption, ScopesAssumption DEF Typed, provider, erasure, locals
<1>1. CASE UNCHANGED vars
  BY <1>1 DEF vars, TypeOK, Steps, Unissued
<1>2. CASE Settle
  BY <1>2 DEF Settle, TypeOK, Steps, Unissued
<1>3. CASE Finished
  BY <1>3 DEF Finished, vars, TypeOK, Steps, Unissued
<1>4. ASSUME NEW w \in Workers, Ingest(w) PROVE Typed'
  <2>1. PICK s \in Filters, N \in SUBSET Unissued : Store(N, s, FALSE)
    BY <1>4 DEF Ingest
  <2>2. /\ UNCHANGED <<eventual, scope, facts, target, applied, page, size, removed, began, hidden>>
        /\ pc' \in [Workers -> Labelled]
        /\ pc'[w] = "answered" /\ \A v \in Workers \ {w} : pc'[v] = pc[v]
    BY <1>4 DEF Ingest, Goto, TypeOK, Labelled
  <2>3. s \in Scope
    OBVIOUS
  <2>4. /\ held' = held \cup N /\ N \in SUBSET Natives /\ N \cap held = {} /\ N \in SUBSET Unissued
        /\ listed' \subseteq Natives /\ blank' \subseteq Natives
        /\ scopeOf' \in [Natives -> Scope \cup {None}]
        /\ Unissued' = Unissued \ N
        /\ held' \subseteq Natives /\ held' \cap Unissued' = {}
        /\ passed' \in [Workers -> SUBSET Natives]
        /\ eventual' \/ listed' = held'
    BY <2>1, <2>2, <2>3, StoreTyped
  <2>5. TypeOK'
    BY <2>2, <2>4 DEF TypeOK, Labelled
  <2>6. Steps'
    BY <2>2, <2>4 DEF Steps
  <2> QED
    BY <2>5, <2>6
<1>5. ASSUME NEW w \in Workers, Upsert(w) PROVE Typed'
  BY <1>5 DEF Upsert, Called, Goto, TypeOK, Steps, Unissued
<1>6. ASSUME NEW w \in Workers, AddFact(w) PROVE Typed'
  <2>1. PICK s \in Filters, N \in SUBSET Unissued, empty \in BOOLEAN : Store(N, s, empty)
    <3>1. PICK n \in Unissued, empty \in BOOLEAN : Store({n}, scope[w], empty)
      BY <1>6 DEF AddFact
    <3>2. {n} \in SUBSET Unissued /\ scope[w] \in Filters
      BY <1>6 DEF AddFact, Steps
    <3> QED
      BY <3>1, <3>2
  <2>2. /\ UNCHANGED <<eventual, scope, target, applied, page, size, removed, began, hidden>>
        /\ pc[w] = "add" /\ pc' \in [Workers -> Labelled]
        /\ pc'[w] = IF LastFact(w) THEN "answered" ELSE "add"
        /\ \A v \in Workers \ {w} : pc'[v] = pc[v]
        /\ facts' = [facts EXCEPT ![w] = @ - 1]
    BY <1>6 DEF AddFact, Goto, TypeOK, Labelled
  <2>3. s \in Scope /\ scope[w] \in Filters
    BY <2>2 DEF Steps
  <2>4. facts[w] > 0 /\ facts' \in [Workers -> Nat]
        /\ (facts[w] # 1 => facts'[w] > 0) /\ \A v \in Workers \ {w} : facts'[v] = facts[v]
    BY <2>2 DEF Steps, TypeOK
  <2>5. /\ held' = held \cup N /\ N \in SUBSET Natives /\ N \cap held = {} /\ N \in SUBSET Unissued
        /\ listed' \subseteq Natives /\ blank' \subseteq Natives
        /\ scopeOf' \in [Natives -> Scope \cup {None}]
        /\ Unissued' = Unissued \ N
        /\ held' \subseteq Natives /\ held' \cap Unissued' = {}
        /\ passed' \in [Workers -> SUBSET Natives]
        /\ eventual' \/ listed' = held'
    BY <2>1, <2>2, <2>3, StoreTyped
  <2>6. TypeOK'
    BY <2>2, <2>4, <2>5 DEF TypeOK, Labelled
  <2>7. Steps'
    BY <2>2, <2>3, <2>4, <2>5 DEF Steps, LastFact
  <2> QED
    BY <2>6, <2>7
<1>7. ASSUME NEW w \in Workers, Update(w) PROVE Typed'
  <2>1. PICK n \in Natives \ Unissued, empty \in BOOLEAN :
          /\ target' = [target EXCEPT ![w] = n]
          /\ applied' = [applied EXCEPT ![w] = n \in held]
          /\ blank' = IF empty /\ n \in held THEN blank \cup {n} ELSE blank \ (held \cap {n})
    BY <1>7 DEF Update
  <2>2. /\ UNCHANGED <<eventual, held, listed, scopeOf, scope, facts, page, size, removed, began,
                       passed, hidden>>
        /\ pc' \in [Workers -> Labelled]
        /\ pc'[w] = "get" /\ \A v \in Workers \ {w} : pc'[v] = pc[v]
    BY <1>7 DEF Update, Goto, TypeOK, Labelled
  <2>3. target' \in [Workers -> Natives \cup {None}] /\ applied' \in [Workers -> BOOLEAN]
    BY <2>1 DEF TypeOK
  <2>4. blank' \subseteq Natives
    BY <2>1 DEF TypeOK
  <2>5. TypeOK'
    BY <2>2, <2>3, <2>4 DEF TypeOK, Unissued, Labelled
  <2>6. /\ target'[w] = n /\ (applied'[w] <=> n \in held)
        /\ \A v \in Workers \ {w} : target'[v] = target[v] /\ applied'[v] = applied[v]
    BY <2>1 DEF TypeOK
  <2>7. Steps'
    BY <2>2, <2>6 DEF Steps, Unissued
  <2> QED
    BY <2>5, <2>7
<1>8. ASSUME NEW w \in Workers, GetBack(w) PROVE Typed'
  BY <1>8 DEF GetBack, Goto, TypeOK, Steps, Unissued
<1>9. ASSUME NEW w \in Workers, Delete(w) PROVE Typed'
  <2>1. PICK n \in Natives : Remove(n)
    BY <1>9 DEF Delete
  <2>2. /\ UNCHANGED <<eventual, blank, scopeOf, scope, facts, target, applied, page, size, removed,
                       began, passed, hidden>>
        /\ pc' \in [Workers -> Labelled]
        /\ pc'[w] = "answered" /\ \A v \in Workers \ {w} : pc'[v] = pc[v]
    BY <1>9 DEF Delete, Goto, TypeOK, Labelled
  <2> QED
    BY <2>1, <2>2, RemoveTyped DEF TypeOK, Steps, Unissued, Labelled
<1>10. ASSUME NEW w \in Workers, DeleteScope(w) PROVE Typed'
  BY <1>10 DEF DeleteScope, Called, Goto, Selected, TypeOK, Steps, Unissued
<1>11. ASSUME NEW w \in Workers, List(w) PROVE Typed'
  <2>1. PICK P \in Pages(scope[w]) :
          /\ page' = [page EXCEPT ![w] = P \ blank]
          /\ size' = [size EXCEPT ![w] = Length(P)]
          /\ hidden' = [hidden EXCEPT ![w] = @ \/ P \cap blank # {}]
          /\ Goto(w, IF Length(P) = 0 THEN "erased" ELSE "delete")
    BY <1>11 DEF List
  <2>2. P \in SUBSET Natives /\ Length(P) \in 0..PAGE
    BY PageOfListing
  <2>3. /\ page' \in [Workers -> SUBSET Natives]
        /\ size' \in [Workers -> 0..PAGE]
        /\ hidden' \in [Workers -> BOOLEAN]
    BY <2>1, <2>2 DEF TypeOK
  <2>4. pc' \in [Workers -> Labelled] /\ pc'[w] \in {"erased", "delete"}
        /\ \A v \in Workers \ {w} : pc'[v] = pc[v]
    BY <2>1 DEF Goto, TypeOK, Labelled
  <2>5. UNCHANGED <<provider, scope, facts, target, applied, removed, began, passed>>
    BY <1>11 DEF List
  <2> QED
    BY <2>3, <2>4, <2>5 DEF TypeOK, Steps, Unissued, Labelled
<1>12. ASSUME NEW w \in Workers, DeleteNext(w) PROVE Typed'
  <2>1. PICK n \in page[w] : Remove(n) /\ page' = [page EXCEPT ![w] = @ \ {n}]
    BY <1>12 DEF DeleteNext
  <2>2. n \in Natives /\ page' \in [Workers -> SUBSET Natives]
    BY <2>1 DEF TypeOK
  <2>3. removed' \in [Workers -> 0..CountCap]
    <3>1. Capped(removed[w] + Counted(w)) \in 0..CountCap
      BY DEF Capped, Counted, TypeOK
    <3> QED
      BY <1>12, <3>1 DEF DeleteNext, TypeOK
  <2>4. pc[w] = "delete" /\ pc' \in [Workers -> Labelled] /\ pc'[w] \in {"delete", "list", "erased"}
        /\ \A v \in Workers \ {w} : pc'[v] = pc[v]
    BY <1>12 DEF DeleteNext, Goto, TypeOK, Labelled
  <2>5. \A v \in Workers \ {w} : removed'[v] = removed[v]
    BY <1>12 DEF DeleteNext, TypeOK
  <2>6. UNCHANGED <<eventual, blank, scopeOf, scope, facts, target, applied, size, began, passed, hidden>>
    BY <1>12 DEF DeleteNext
  <2> QED
    BY <2>1, <2>2, <2>3, <2>4, <2>5, <2>6, RemoveTyped DEF TypeOK, Steps, Unissued, Labelled
<1>13. ASSUME NEW w \in Workers, Fail(w) PROVE Typed'
  BY <1>13 DEF Fail, Goto, TypeOK, Steps, Unissued
<1> QED
  BY <1>1, <1>2, <1>3, <1>4, <1>5, <1>6, <1>7, <1>8, <1>9, <1>10, <1>11, <1>12, <1>13
  DEF Next, Begin, Step

\* The types, for any number of memories and verbs (mem0.py).
THEOREM TypeCorrect == Spec => []TypeOK
<1>1. Typed => TypeOK
  BY DEF Typed
<1> QED
  BY <1>1, InitTyped, NextTyped, PTL DEF Spec

-----------------------------------------------------------------------------
(* An update that is answered.                                              *)

Confirmed == Typed /\ AnsweredUpdateWasApplied

LEMMA NextConfirmed == Confirmed /\ [Next]_vars => Confirmed'
<1> SUFFICES ASSUME Confirmed, [Next]_vars, NEW w \in Workers, pc'[w] = "updated"
             PROVE  applied'[w]
  BY NextTyped DEF Confirmed, AnsweredUpdateWasApplied
<1> USE DEF Confirmed, Typed, TypeOK, provider, locals, erasure
<1>1. CASE GetBack(w)
  BY <1>1 DEF GetBack, Goto, StillThere, Steps
<1>2. CASE pc[w] = "updated"
  <2>1. applied[w]
    BY <1>2 DEF AnsweredUpdateWasApplied
  <2>2. CASE UNCHANGED vars \/ Settle \/ Finished
    BY <2>1, <2>2 DEF vars, Settle, Finished
  <2>3. ASSUME NEW v \in Workers, Update(v) PROVE applied'[w]
    BY <1>2, <2>1, <2>3 DEF Update, Called
  <2>4. ASSUME NEW v \in Workers,
               Ingest(v) \/ Upsert(v) \/ Delete(v) \/ DeleteScope(v) \/ Step(v) \/ Fail(v)
        PROVE  applied'[w]
    BY <2>1, <2>4 DEF Ingest, Upsert, Delete, DeleteScope, Step, AddFact, GetBack, List, DeleteNext, Fail
  <2> QED
    BY <2>2, <2>3, <2>4 DEF Next, Begin
<1>3. CASE pc[w] # "updated" /\ ~GetBack(w)
  <2>1. CASE UNCHANGED vars \/ Settle \/ Finished
    BY <1>3, <2>1 DEF vars, Settle, Finished
  <2>2. ASSUME NEW v \in Workers, Begin(v) \/ AddFact(v) \/ Fail(v) PROVE FALSE
    BY <1>3, <2>2 DEF Begin, Ingest, Upsert, Update, Delete, DeleteScope, AddFact, Fail, Goto
  <2>3. ASSUME NEW v \in Workers, List(v) \/ DeleteNext(v) PROVE FALSE
    BY <1>3, <2>3 DEF List, DeleteNext, Goto
  <2>4. ASSUME NEW v \in Workers \ {w}, GetBack(v) PROVE FALSE
    BY <1>3, <2>4 DEF GetBack, Goto
  <2> QED
    BY <1>3, <2>1, <2>2, <2>3, <2>4 DEF Next, Step
<1> QED
  BY <1>1, <1>2, <1>3

\* No update is answered that changed nothing, whoever deletes its memory and
\* when: an id is never issued twice, so a memory read back was there (update).
THEOREM AnsweredUpdatesWereApplied == Spec => []AnsweredUpdateWasApplied
<1>1. Init => Confirmed
  BY InitTyped DEF Init, Confirmed, AnsweredUpdateWasApplied
<1>2. Confirmed => AnsweredUpdateWasApplied
  BY DEF Confirmed
<1> QED
  BY <1>1, <1>2, NextConfirmed, PTL DEF Spec

-----------------------------------------------------------------------------
(* An erasure.                                                              *)

UnderWay(w) == pc[w] \in {"list", "delete", "erased"}

\* What an erasure found when it began is what is left of its page, or still to
\* be listed, or gone.
Drains(w) ==
  /\ UnderWay(w) => \A n \in began[w] : scopeOf[n] # None /\ SelectsRow(scope[w], scopeOf[n])
  /\ ~eventual /\ ~hidden[w] /\ pc[w] = "delete" /\ size[w] < PAGE => began[w] \cap held \subseteq page[w]
  /\ ~eventual /\ ~hidden[w] /\ pc[w] = "erased" => began[w] \cap held = {}

\* The memories of its scope that have gone while it went on.
Gone(w) == passed[w] \ held

\* What it has counted has gone, and a page is counted when the last of it has.
Counts(w) ==
  /\ UnderWay(w) => \A n \in passed[w] : scopeOf[n] # None
  /\ ~eventual /\ Erasing(w) => Selected(scope[w]) \subseteq passed[w]
  /\ ~eventual /\ pc[w] = "delete" =>
       /\ page[w] \subseteq passed[w]
       /\ removed[w] + size[w] <= Cardinality(Gone(w) \cup page[w])
  /\ ~eventual /\ pc[w] \in {"list", "erased"} => removed[w] <= Cardinality(Gone(w))

Sound(w) == Drains(w) /\ Counts(w)

ErasureInv == Typed /\ \A w \in Workers : Sound(w)

Same(w) ==
  /\ pc'[w] = pc[w] /\ scope'[w] = scope[w] /\ page'[w] = page[w] /\ size'[w] = size[w]
  /\ removed'[w] = removed[w] /\ began'[w] = began[w] /\ hidden'[w] = hidden[w]

\* An erasure is not disturbed by memories that go.
LEMMA OthersRemove ==
  ASSUME Typed, Typed', NEW w \in Workers, Sound(w), Same(w), passed'[w] = passed[w],
         held' \subseteq held, UNCHANGED <<scopeOf, eventual>>
  PROVE  Sound(w)'
<1>1. Drains(w)'
  BY DEF Sound, Drains, Same, UnderWay
<1>2. /\ Gone(w) \in SUBSET Gone(w)' /\ Gone(w)' \in SUBSET Natives
      /\ Gone(w) \cup page[w] \in SUBSET (Gone(w)' \cup page[w])
      /\ Gone(w)' \cup page[w] \in SUBSET Natives
      /\ Gone(w) \in SUBSET Natives /\ Gone(w) \cup page[w] \in SUBSET Natives
  BY DEF Gone, Typed, TypeOK
<1>3. /\ Cardinality(Gone(w)) <= Cardinality(Gone(w)')
      /\ Cardinality(Gone(w) \cup page[w]) <= Cardinality(Gone(w)' \cup page[w])
  BY <1>2, Larger
<1>4. /\ Cardinality(Gone(w)) \in Nat /\ Cardinality(Gone(w)') \in Nat
      /\ Cardinality(Gone(w) \cup page[w]) \in Nat /\ Cardinality(Gone(w)' \cup page[w]) \in Nat
  BY <1>2, Finite
<1>5. removed[w] \in Nat /\ size[w] \in Nat
  BY Mem0Assumption, ScopesAssumption DEF Typed, TypeOK
<1>6. Selected(scope[w])' \subseteq Selected(scope[w])
  BY DEF Selected, Same
<1>7. \A k \in Nat, c \in Nat, d \in Nat : k <= c /\ c <= d => k <= d
  OBVIOUS
<1>8. Counts(w)'
  <2>1. /\ UnderWay(w)' => \A n \in passed'[w] : scopeOf'[n] # None
        /\ ~eventual' /\ Erasing(w)' => Selected(scope[w])' \subseteq passed'[w]
    BY <1>6 DEF Sound, Counts, UnderWay, Erasing, Same
  <2>2. ~eventual' /\ pc'[w] = "delete" =>
          /\ page'[w] \subseteq passed'[w]
          /\ removed'[w] + size'[w] <= Cardinality(Gone(w)' \cup page'[w])
    BY <1>3, <1>4, <1>5 DEF Sound, Counts, Same
  <2>3. ~eventual' /\ pc'[w] \in {"list", "erased"} => removed'[w] <= Cardinality(Gone(w)')
    BY <1>3, <1>4, <1>5 DEF Sound, Counts, Same
  <2> QED
    BY <2>1, <2>2, <2>3 DEF Counts
<1> QED
  BY <1>1, <1>8 DEF Sound

\* Nor by memories that are written: they are new.
LEMMA OthersStore ==
  ASSUME Typed, NEW w \in Workers, Sound(w), Same(w), UNCHANGED eventual,
         NEW s \in Scope, NEW N \in SUBSET Unissued, NEW empty, Store(N, s, empty)
  PROVE  Sound(w)'
<1>1. /\ held' = held \cup N /\ N \cap held = {} /\ N \in SUBSET Natives
      /\ \A n \in Natives \ N : scopeOf'[n] = scopeOf[n]
      /\ \A n \in N : scopeOf'[n] = s /\ scopeOf[n] = None
  BY StoreTyped DEF Unissued
<1>2. passed'[w] = IF Erasing(w) /\ SelectsRow(scope[w], s) THEN passed[w] \cup N ELSE passed[w]
  BY DEF Store
<1>3. passed[w] \subseteq Natives /\ began[w] \subseteq Natives /\ held \subseteq Natives
  BY DEF Typed, TypeOK
<1>4. s # None
  BY Mem0Assumption, ScopesAssumption
<1>5. UnderWay(w) => N \cap passed[w] = {} /\ N \cap began[w] = {}
  BY <1>1 DEF Sound, Drains, Counts
<1>6. Drains(w)'
  BY <1>1, <1>3, <1>5 DEF Sound, Drains, Same, UnderWay
<1>7. UnderWay(w) => Gone(w)' = Gone(w)
  BY <1>1, <1>2, <1>5 DEF Gone
<1>8. Counts(w)'
  <2>1. UnderWay(w)' => \A n \in passed'[w] : scopeOf'[n] # None
    BY <1>1, <1>2, <1>3, <1>4, <1>5 DEF Sound, Counts, UnderWay, Same
  <2>2. ASSUME ~eventual', Erasing(w)' PROVE Selected(scope[w])' \subseteq passed'[w]
    <3>1. Selected(scope[w]) \subseteq passed[w] /\ Erasing(w)
      BY <2>2 DEF Sound, Counts, Erasing, Same
    <3>2. SUFFICES ASSUME NEW n \in held', SelectsRow(scope[w], scopeOf'[n]) PROVE n \in passed'[w]
      BY DEF Selected, Same
    <3>3. CASE n \in N
      BY <1>1, <1>2, <3>1, <3>2, <3>3
    <3>4. CASE n \in held
      BY <1>1, <1>2, <1>3, <3>1, <3>2, <3>4 DEF Selected
    <3> QED
      BY <1>1, <3>3, <3>4
  <2>3. ~eventual' /\ pc'[w] = "delete" =>
          /\ page'[w] \subseteq passed'[w]
          /\ removed'[w] + size'[w] <= Cardinality(Gone(w)' \cup page'[w])
    BY <1>2, <1>7 DEF Sound, Counts, UnderWay, Same
  <2>4. ~eventual' /\ pc'[w] \in {"list", "erased"} => removed'[w] <= Cardinality(Gone(w)')
    BY <1>7 DEF Sound, Counts, UnderWay, Same
  <2> QED
    BY <2>1, <2>2, <2>3, <2>4 DEF Counts
<1> QED
  BY <1>6, <1>8 DEF Sound

LEMMA ListSound ==
  ASSUME Typed, NEW w \in Workers, Sound(w), List(w)
  PROVE  Sound(w)'
<1>1. PICK P \in Pages(scope[w]) :
        /\ page' = [page EXCEPT ![w] = P \ blank]
        /\ size' = [size EXCEPT ![w] = Length(P)]
        /\ hidden' = [hidden EXCEPT ![w] = @ \/ P \cap blank # {}]
        /\ Goto(w, IF Length(P) = 0 THEN "erased" ELSE "delete")
  BY DEF List
<1>2. /\ pc[w] = "list"
      /\ UNCHANGED <<provider, scope, facts, target, applied, removed, began, passed>>
  BY DEF List
<1>3. /\ pc'[w] = IF Length(P) = 0 THEN "erased" ELSE "delete"
      /\ page'[w] = P \ blank /\ size'[w] = Length(P)
      /\ ~hidden'[w] => ~hidden[w] /\ P \cap blank = {}
  BY <1>1 DEF Goto, Typed, TypeOK
<1>4. /\ P \in SUBSET Natives /\ Length(P) \in Nat /\ Length(P) = Cardinality(P \ blank)
      /\ P \subseteq {n \in listed : Matches(scope[w], scopeOf[n])}
      /\ Cardinality(P) < PAGE => P = {n \in listed : Matches(scope[w], scopeOf[n])}
  BY PageOfListing DEF Typed
<1>5. ASSUME ~eventual
      PROVE  /\ P \subseteq Selected(scope[w])
             /\ Cardinality(P) < PAGE => P = Selected(scope[w])
  BY <1>4, <1>5 DEF Selected, Matches, Typed, TypeOK
<1>6. ASSUME ~eventual, ~hidden'[w], Length(P) < PAGE PROVE began[w] \cap held \subseteq P \ blank
  <2>1. P \ blank = P
    BY <1>3, <1>6
  <2>2. P = Selected(scope[w])
    BY <1>4, <1>5, <1>6, <2>1
  <2>3. \A n \in began[w] : SelectsRow(scope[w], scopeOf[n])
    BY <1>2 DEF Sound, Drains, UnderWay
  <2> QED
    BY <2>1, <2>2, <2>3 DEF Selected
<1>7. Length(P) = 0 => P \ blank = {}
  BY <1>4, Finite, FS_EmptySet
<1>8. Drains(w)'
  <2>1. UnderWay(w)' => \A n \in began'[w] : scopeOf'[n] # None /\ SelectsRow(scope'[w], scopeOf'[n])
    BY <1>2 DEF Sound, Drains, UnderWay, provider
  <2>2. ~eventual' /\ ~hidden'[w] /\ pc'[w] = "delete" /\ size'[w] < PAGE
          => began'[w] \cap held' \subseteq page'[w]
    BY <1>2, <1>3, <1>6 DEF provider
  <2>3. ~eventual' /\ ~hidden'[w] /\ pc'[w] = "erased" => began'[w] \cap held' = {}
    BY <1>2, <1>3, <1>6, <1>7, Mem0Assumption, ScopesAssumption DEF provider
  <2> QED
    BY <2>1, <2>2, <2>3 DEF Drains
<1>9. Counts(w)'
  <2>1. UNCHANGED <<Gone(w), passed[w], removed[w], Selected(scope[w])>>
    BY <1>2 DEF provider, Gone, Selected
  <2>2. /\ UnderWay(w)' => \A n \in passed'[w] : scopeOf'[n] # None
        /\ ~eventual' /\ Erasing(w)' => Selected(scope[w])' \subseteq passed'[w]
    BY <1>2, <2>1 DEF provider, Sound, Counts, UnderWay, Erasing
  <2>3. ~eventual' /\ pc'[w] = "erased" => removed'[w] <= Cardinality(Gone(w)')
    BY <1>2, <2>1 DEF provider, Sound, Counts
  <2>4. ASSUME ~eventual', pc'[w] = "delete"
        PROVE  /\ page'[w] \subseteq passed'[w]
               /\ removed'[w] + size'[w] <= Cardinality(Gone(w)' \cup page'[w])
    <3>1. removed[w] <= Cardinality(Gone(w)) /\ Selected(scope[w]) \subseteq passed[w] /\ ~eventual
      BY <1>2, <2>4 DEF provider, Sound, Counts, Erasing
    <3>2. P \ blank \subseteq Selected(scope[w])
      BY <1>5, <3>1
    <3>3. Gone(w) \cap (P \ blank) = {} /\ Gone(w) \in SUBSET Natives /\ P \ blank \in SUBSET Natives
      BY <1>4, <3>2 DEF Gone, Selected, Typed, TypeOK
    <3>4. Cardinality(Gone(w) \cup (P \ blank)) = Cardinality(Gone(w)) + Cardinality(P \ blank)
      <4>1. /\ IsFiniteSet(Gone(w)) /\ IsFiniteSet(P \ blank)
            /\ Cardinality(Gone(w)) \in Nat /\ Cardinality(P \ blank) \in Nat
        BY <3>3, Finite
      <4>2. Cardinality(Gone(w) \cap (P \ blank)) = 0
        BY <3>3, FS_EmptySet
      <4>3. Cardinality(Gone(w) \cup (P \ blank))
              = Cardinality(Gone(w)) + Cardinality(P \ blank) - Cardinality(Gone(w) \cap (P \ blank))
        BY <4>1, FS_Union
      <4> QED
        BY <4>1, <4>2, <4>3
    <3>5. Cardinality(Gone(w)) \in Nat /\ removed[w] \in Nat
      BY <3>3, Finite, Mem0Assumption, ScopesAssumption DEF Typed, TypeOK
    <3>6. /\ page'[w] = P \ blank /\ size'[w] = Cardinality(P \ blank)
          /\ removed'[w] = removed[w] /\ passed'[w] = passed[w] /\ Gone(w)' = Gone(w)
      BY <1>2, <1>3, <1>4, <2>1
    <3>7. removed[w] + Cardinality(P \ blank) <= Cardinality(Gone(w) \cup (P \ blank))
      <4>1. Cardinality(P \ blank) \in Nat
        BY <1>4
      <4> QED
        BY <3>1, <3>4, <3>5, <4>1
    <3>8. page'[w] \subseteq passed'[w]
      BY <3>1, <3>2, <3>6
    <3>9. Cardinality(Gone(w)' \cup page'[w]) = Cardinality(Gone(w) \cup (P \ blank))
      BY <3>6
    <3>10. removed'[w] + size'[w] = removed[w] + Cardinality(P \ blank)
      BY <3>6
    <3>11. removed'[w] + size'[w] <= Cardinality(Gone(w)' \cup page'[w])
      BY <3>7, <3>9, <3>10
    <3> QED
      BY <3>8, <3>11
  <2> QED
    BY <1>3, <2>2, <2>3, <2>4 DEF Counts
<1> QED
  BY <1>8, <1>9 DEF Sound

LEMMA DeleteNextSound ==
  ASSUME Typed, NEW w \in Workers, Sound(w), DeleteNext(w)
  PROVE  Sound(w)'
<1>1. PICK n \in page[w] : Remove(n) /\ page' = [page EXCEPT ![w] = @ \ {n}]
  BY DEF DeleteNext
<1>2. /\ pc[w] = "delete" /\ held' = held \ {n} /\ page'[w] = page[w] \ {n}
      /\ UNCHANGED <<eventual, scopeOf, scope, size, began, passed, hidden>>
  BY <1>1 DEF DeleteNext, Remove, Typed, TypeOK
<1>3. \/ page'[w] # {} /\ removed'[w] = removed[w] /\ pc'[w] = pc[w]
      \/ /\ page'[w] = {} /\ removed'[w] = Capped(removed[w] + size[w])
         /\ pc'[w] = IF size[w] < PAGE THEN "erased" ELSE "list"
  BY DEF DeleteNext, Goto, Counted, LastPage, Typed, TypeOK
<1>4. Drains(w)'
  BY <1>2, <1>3 DEF Sound, Drains, UnderWay
<1>5. Counts(w)'
  <2>1. /\ UnderWay(w)' => \A m \in passed'[w] : scopeOf'[m] # None
        /\ ~eventual' /\ Erasing(w)' => Selected(scope[w])' \subseteq passed'[w]
    BY <1>2 DEF Sound, Counts, UnderWay, Erasing, Selected
  <2>2. ASSUME ~eventual
        PROVE  /\ page[w] \subseteq passed[w]
               /\ removed[w] + size[w] <= Cardinality(Gone(w)' \cup page'[w])
    <3>1. page[w] \subseteq passed[w] /\ removed[w] + size[w] <= Cardinality(Gone(w) \cup page[w])
      BY <1>2, <2>2 DEF Sound, Counts
    <3>2. /\ Gone(w) \cup page[w] \in SUBSET (Gone(w)' \cup page'[w])
          /\ Gone(w)' \cup page'[w] \in SUBSET Natives /\ Gone(w) \cup page[w] \in SUBSET Natives
      BY <1>2, <3>1 DEF Gone, Typed, TypeOK
    <3>3. Cardinality(Gone(w) \cup page[w]) <= Cardinality(Gone(w)' \cup page'[w])
      BY <3>2, Larger
    <3>4. /\ Cardinality(Gone(w) \cup page[w]) \in Nat /\ Cardinality(Gone(w)' \cup page'[w]) \in Nat
          /\ removed[w] \in Nat /\ size[w] \in Nat
      BY <3>2, Finite, Mem0Assumption, ScopesAssumption DEF Typed, TypeOK
    <3> QED
      BY <3>1, <3>3, <3>4
  <2>3. ASSUME ~eventual, page'[w] = {} PROVE Capped(removed[w] + size[w]) <= Cardinality(Gone(w)')
    <3>1. removed[w] + size[w] <= Cardinality(Gone(w)')
      BY <2>2, <2>3
    <3>2. /\ Gone(w)' \in SUBSET Natives
      BY <1>2 DEF Gone, Typed, TypeOK
    <3>3. Cardinality(Gone(w)') \in Nat /\ removed[w] \in Nat /\ size[w] \in Nat
      BY <3>2, Finite, Mem0Assumption, ScopesAssumption DEF Typed, TypeOK
    <3> QED
      BY <3>1, <3>3, Mem0Assumption, ScopesAssumption DEF Capped
  <2> QED
    BY <1>2, <1>3, <2>1, <2>2, <2>3 DEF Counts
<1> QED
  BY <1>4, <1>5 DEF Sound

LEMMA DeleteScopeSound ==
  ASSUME Typed, NEW w \in Workers, DeleteScope(w)
  PROVE  Sound(w)'
<1>1. PICK s \in Erasures :
        /\ scope' = [scope EXCEPT ![w] = s]
        /\ began' = [began EXCEPT ![w] = Selected(s)]
        /\ passed' = [passed EXCEPT ![w] = Selected(s)]
  BY DEF DeleteScope
<1>2. /\ pc[w] = "idle" /\ pc'[w] = "list" /\ removed[w] = 0
      /\ UNCHANGED <<eventual, held, scopeOf, removed, hidden, size, page>>
  BY DEF DeleteScope, Called, Goto, provider, Typed, TypeOK, Steps
<1>3. scope'[w] = s /\ began'[w] = Selected(s) /\ passed'[w] = Selected(s)
  BY <1>1 DEF Typed, TypeOK
<1>4. \A n \in Selected(s) : scopeOf[n] # None /\ SelectsRow(s, scopeOf[n])
  BY DEF Selected, Unissued, Typed, TypeOK
<1>5. Drains(w)'
  BY <1>2, <1>3, <1>4 DEF Drains
<1>6. Selected(scope[w])' = Selected(s)
  BY <1>2, <1>3 DEF Selected
<1>7. Gone(w)' \in SUBSET Natives
  BY <1>2, <1>3 DEF Gone, Selected, Typed, TypeOK
<1>8. removed'[w] <= Cardinality(Gone(w)')
  <2>1. Cardinality(Gone(w)') \in Nat
    BY <1>7, Finite
  <2> QED
    BY <1>2, <2>1
<1> QED
  BY <1>2, <1>3, <1>4, <1>5, <1>6, <1>8 DEF Sound, Counts

LEMMA NextErasure == ErasureInv /\ [Next]_vars => ErasureInv'
<1> SUFFICES ASSUME ErasureInv, [Next]_vars, NEW x \in Workers PROVE Sound(x)'
  BY NextTyped DEF ErasureInv
<1>t. Typed /\ Typed' /\ TypeOK /\ Sound(x)
  BY NextTyped DEF ErasureInv, Typed
\* A verb that is no erasure has nothing to be sound about.
<1>n. pc'[x] \notin {"list", "delete", "erased"} => Sound(x)'
  BY DEF Sound, Drains, Counts, UnderWay, Erasing
<1>1. CASE UNCHANGED vars \/ Settle \/ Finished
  <2>1. Same(x) /\ UNCHANGED <<held, passed, scopeOf, eventual>>
    BY <1>1 DEF Settle, Finished, vars, provider, locals, erasure, Same
  <2> QED
    BY <1>t, <2>1, OthersRemove
<1>2. ASSUME NEW w \in Workers, Ingest(w) PROVE Sound(x)'
  <2>1. PICK s \in Filters, N \in SUBSET Unissued : Store(N, s, FALSE)
    BY <1>2 DEF Ingest
  <2>2. /\ UNCHANGED <<eventual, scope, page, size, removed, began, hidden>>
        /\ pc'[w] = "answered" /\ \A v \in Workers \ {w} : pc'[v] = pc[v]
    BY <1>t, <1>2 DEF Ingest, Goto, TypeOK
  <2>3. x # w => Same(x)
    BY <2>2 DEF Same
  <2>4. s \in Scope /\ UNCHANGED eventual
    BY <2>2, Mem0Assumption, ScopesAssumption
  <2> QED
    BY <1>t, <1>n, <2>1, <2>2, <2>3, <2>4, OthersStore
<1>3. ASSUME NEW w \in Workers, AddFact(w) PROVE Sound(x)'
  <2>1. PICK s \in Scope, N \in SUBSET Unissued, empty \in BOOLEAN : Store(N, s, empty)
    <3>1. PICK n \in Unissued, empty \in BOOLEAN : Store({n}, scope[w], empty)
      BY <1>3 DEF AddFact
    <3>2. {n} \in SUBSET Unissued /\ scope[w] \in Scope
      BY <1>t, <1>3, Mem0Assumption, ScopesAssumption DEF AddFact, Typed, Steps
    <3> QED
      BY <3>1, <3>2
  <2>2. /\ UNCHANGED <<eventual, scope, page, size, removed, began, hidden>>
        /\ pc'[w] \in {"answered", "add"} /\ \A v \in Workers \ {w} : pc'[v] = pc[v]
    BY <1>t, <1>3 DEF AddFact, Goto, TypeOK
  <2>3. x # w => Same(x)
    BY <2>2 DEF Same
  <2> QED
    BY <1>t, <1>n, <2>1, <2>2, <2>3, OthersStore
<1>4. ASSUME NEW w \in Workers, Upsert(w) \/ Update(w) \/ GetBack(w) \/ Delete(w) \/ Fail(w)
      PROVE  Sound(x)'
  <2>1. /\ pc'[w] \notin {"list", "delete", "erased"} /\ \A v \in Workers \ {w} : pc'[v] = pc[v]
        /\ held' \subseteq held /\ UNCHANGED <<eventual, scopeOf>>
    BY <1>t, <1>4 DEF Upsert, Update, GetBack, Delete, Fail, Goto, Remove, provider, TypeOK
  <2>2. x # w => Same(x) /\ passed'[x] = passed[x]
    BY <1>t, <1>4, <2>1 DEF Upsert, Update, GetBack, Delete, Fail, locals, erasure, TypeOK, Same
  <2> QED
    BY <1>t, <1>n, <2>1, <2>2, OthersRemove
<1>5. ASSUME NEW w \in Workers, DeleteScope(w) PROVE Sound(x)'
  <2>1. x # w => Same(x) /\ passed'[x] = passed[x] /\ UNCHANGED <<held, eventual, scopeOf>>
    BY <1>t, <1>5 DEF DeleteScope, Goto, provider, TypeOK, Same
  <2> QED
    BY <1>t, <1>5, <2>1, OthersRemove, DeleteScopeSound
<1>6. ASSUME NEW w \in Workers, List(w) PROVE Sound(x)'
  <2>1. x # w => Same(x) /\ passed'[x] = passed[x] /\ UNCHANGED <<held, eventual, scopeOf>>
    BY <1>t, <1>6 DEF List, Goto, provider, TypeOK, Same
  <2> QED
    BY <1>t, <1>6, <2>1, OthersRemove, ListSound
<1>7. ASSUME NEW w \in Workers, DeleteNext(w) PROVE Sound(x)'
  <2>1. x # w => /\ Same(x) /\ passed'[x] = passed[x]
                 /\ held' \subseteq held /\ UNCHANGED <<eventual, scopeOf>>
    BY <1>t, <1>7 DEF DeleteNext, Remove, Goto, TypeOK, Same
  <2> QED
    BY <1>t, <1>7, <2>1, OthersRemove, DeleteNextSound
<1> QED
  BY <1>1, <1>2, <1>3, <1>4, <1>5, <1>6, <1>7 DEF Next, Begin, Step

LEMMA InitErasure == Init => ErasureInv
  BY InitTyped DEF Init, ErasureInv, Sound, Drains, Counts, UnderWay, Erasing

\* Over a listing that shows what is held, an erasure that answers has removed
\* all its scope held when it began, however many pages that was and whatever
\* was written, updated and erased meanwhile (delete_scope).
THEOREM ErasuresDrain == Spec => []ErasureDrains
<1>1. ErasureInv => ErasureDrains
  BY DEF ErasureInv, Sound, Drains, ErasureDrains
<1> QED
  BY <1>1, InitErasure, NextErasure, PTL DEF Spec

\* And it counts no memory twice and none that has not gone (delete_scope).
THEOREM CountsAreOfWhatWent == Spec => []CountsOnlyWhatWent
<1>1. ErasureInv => CountsOnlyWhatWent
  BY DEF ErasureInv, Sound, Counts, Gone, CountsOnlyWhatWent
<1> QED
  BY <1>1, InitErasure, NextErasure, PTL DEF Spec
===============================================================================
