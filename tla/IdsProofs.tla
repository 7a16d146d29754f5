------------------------------ MODULE IdsProofs ------------------------------
(***************************************************************************)
(* Ids minted by one process are in chronological order but for a clock    *)
(* that was set back between them, for every clock, every seed and every   *)
(* number of mints, as long as a burst does not exhaust the random part.   *)
(***************************************************************************)
EXTENDS Ids, TLAPS

\* The newest id is the one the globals hold, and the random part has room for
\* the mints that are left.
NewestIsRemembered ==
  IF minted = <<>>
  THEN last_ms = 0
  ELSE /\ minted[Len(minted)] = [ms |-> last_ms, rand |-> last_rand]
       /\ last_rand + (MaxMints - Len(minted)) < RandSize

IdsInv ==
  /\ TypeOK
  /\ 0 < clock
  /\ Len(minted) <= MaxMints
  /\ NewestIsRemembered
  /\ Chronological

\* Room for the mints that are left, whatever seed a fresh millisecond draws.
LEMMA SeedFits ==
  ASSUME NEW s \in Seeds, NEW n \in Nat
  PROVE  s \in Nat /\ s + (MaxMints - (n + 1)) < RandSize
  BY IdsAssumption

LEMMA SmallModulo ==
  ASSUME NEW a \in Nat, NEW b \in Nat, a < b
  PROVE  a % b = a
  OBVIOUS

LEMMA BeforeIsTransitive ==
  ASSUME NEW a \in Id, NEW b \in Id, NEW c \in Id, Before(a, b), Before(b, c)
  PROVE  Before(a, c)
  BY DEF Before, Id

\* What a mint makes of the globals: a number that fits the random part, and
\* with the clock a pair after the newest id.
LEMMA MintIsNewest ==
  ASSUME IdsInv, NewId
  PROVE  /\ last_rand' \in Nat
         /\ last_rand' + (MaxMints - (Len(minted) + 1)) < RandSize
         /\ Printed(clock, last_rand') = [ms |-> clock, rand |-> last_rand']
         /\ minted # <<>> /\ minted[Len(minted)].ms <= clock =>
              Before(minted[Len(minted)], Printed(clock, last_rand'))
<1>a. Len(minted) \in Nat /\ RandSize \in Nat /\ MaxMints \in Nat
  BY IdsAssumption DEF IdsInv, TypeOK
<1>1. /\ last_rand' \in Nat
      /\ last_rand' + (MaxMints - (Len(minted) + 1)) < RandSize
  <2>1. CASE clock = last_ms
    <3>1. minted # <<>>
      BY <2>1 DEF IdsInv, NewestIsRemembered
    <3> QED
      BY <2>1, <3>1, <1>a, IdsAssumption
      DEF IdsInv, TypeOK, NewId, NewestIsRemembered
  <2>2. CASE clock # last_ms
    <3>1. last_rand' \in Seeds
      BY <2>2 DEF NewId
    <3> QED
      BY <3>1, <1>a, SeedFits
  <2> QED
    BY <2>1, <2>2
<1>2. Len(minted) + 1 <= MaxMints
  BY <1>a, IdsAssumption DEF NewId
<1>3. last_rand' < RandSize
  BY <1>1, <1>2, <1>a
<1>4. Printed(clock, last_rand') = [ms |-> clock, rand |-> last_rand']
  <2>1. last_rand' % RandSize = last_rand'
    BY <1>1, <1>3, <1>a, SmallModulo
  <2> QED
    BY <2>1 DEF Printed
<1>5. minted # <<>> /\ minted[Len(minted)].ms <= clock =>
        Before(minted[Len(minted)], Printed(clock, last_rand'))
  BY <1>4, IdsAssumption DEF IdsInv, TypeOK, NewId, NewestIsRemembered, Before
<1> QED
  BY <1>1, <1>4, <1>5

LEMMA MintKeepsOrder ==
  ASSUME IdsInv, NewId
  PROVE  Chronological'
<1> DEFINE new == Printed(clock, last_rand')
<1>1. /\ minted \in Seq(Id)
      /\ minted' = Append(minted, new)
  BY DEF IdsInv, TypeOK, NewId
<1>2. new \in Id
  BY MintIsNewest DEF Id, IdsInv, TypeOK
<1>e. new.ms = clock
  BY DEF Printed
<1> HIDE DEF new
<1>3. ASSUME NEW i \in 1..Len(minted), NotSetBack(i, Len(minted)),
             minted[Len(minted)].ms <= new.ms
      PROVE  Before(minted[i], new)
  <2>1. minted # <<>> /\ Before(minted[Len(minted)], new)
    BY <1>1, <1>e, <1>3, MintIsNewest DEF new
  <2>2. CASE i = Len(minted)
    BY <2>1, <2>2
  <2>3. CASE i # Len(minted)
    <3>1. Before(minted[i], minted[Len(minted)])
      BY <2>3, <1>1, <1>3 DEF IdsInv, Chronological
    <3> QED
      BY <3>1, <2>1, <1>1, <1>2, BeforeIsTransitive
  <2> QED
    BY <2>2, <2>3
<1>4. ASSUME NEW i \in 1..Len(minted'), NEW j \in 1..Len(minted'), i < j,
             \A k \in i..(j - 1) : minted'[k].ms <= minted'[k + 1].ms
      PROVE  Before(minted'[i], minted'[j])
  <2>1. i \in 1..Len(minted) /\ minted'[i] = minted[i]
    BY <1>1, <1>2, <1>4
  <2>2. CASE j = Len(minted) + 1
    <3>1. minted'[j] = new
      BY <2>2, <1>1, <1>2
    <3>2. NotSetBack(i, Len(minted))
      BY <2>1, <2>2, <1>1, <1>2, <1>4 DEF NotSetBack
    <3>3. minted[Len(minted)].ms <= new.ms
      BY <2>1, <2>2, <1>1, <1>2, <1>4
    <3> QED
      BY <2>1, <3>1, <3>2, <3>3, <1>3
  <2>3. CASE j # Len(minted) + 1
    <3>1. j \in 1..Len(minted) /\ minted'[j] = minted[j]
      BY <2>3, <1>1, <1>2
    <3>2. NotSetBack(i, j)
      BY <2>1, <3>1, <1>1, <1>2, <1>4 DEF NotSetBack
    <3> QED
      BY <2>1, <3>1, <3>2, <1>4 DEF IdsInv, Chronological
  <2> QED
    BY <2>2, <2>3
<1> QED
  BY <1>4 DEF Chronological, NotSetBack

LEMMA NewIdStep ==
  ASSUME IdsInv, NewId
  PROVE  IdsInv'
<1> DEFINE new == Printed(clock, last_rand')
<1>1. /\ minted \in Seq(Id)
      /\ minted' = Append(minted, new)
      /\ last_ms' = clock
      /\ clock' = clock
  BY DEF IdsInv, TypeOK, NewId
<1>2. new = [ms |-> clock, rand |-> last_rand'] /\ new \in Id
  BY MintIsNewest DEF Id, IdsInv, TypeOK
<1> HIDE DEF new
<1>3. TypeOK'
  BY <1>1, <1>2, MintIsNewest DEF IdsInv, TypeOK
<1>4. NewestIsRemembered'
  BY <1>1, <1>2, MintIsNewest DEF NewestIsRemembered
<1>5. Len(minted') <= MaxMints
  BY <1>1, <1>2, IdsAssumption DEF NewId
<1> QED
  BY <1>1, <1>3, <1>4, <1>5, MintKeepsOrder DEF IdsInv, TypeOK

LEMMA InitIds == Init => IdsInv
<1> SUFFICES ASSUME Init PROVE IdsInv
  OBVIOUS
<1>1. minted = <<>> /\ Len(minted) = 0 /\ clock \in 1..MaxClock
  BY DEF Init
<1> QED
  BY <1>1, IdsAssumption
  DEF Init, IdsInv, TypeOK, NewestIsRemembered, Chronological

LEMMA NextIds == IdsInv /\ [Next]_vars => IdsInv'
<1> SUFFICES ASSUME IdsInv, [Next]_vars PROVE IdsInv'
  OBVIOUS
<1>1. CASE NewId
  BY <1>1, NewIdStep
<1>2. CASE Tick
  BY <1>2, IdsAssumption
  DEF Tick, IdsInv, TypeOK, NewestIsRemembered, Chronological, NotSetBack, Before
<1>3. CASE UNCHANGED vars
  BY <1>3
  DEF vars, IdsInv, TypeOK, NewestIsRemembered, Chronological, NotSetBack, Before
<1> QED
  BY <1>1, <1>2, <1>3 DEF Next

\* "A monotonic ULID" (new_id): an id sorts before every id the process mints
\* after it, unless the clock had been set back when one of them was minted.
THEOREM IdsAreChronological == Spec => []Chronological
<1>1. IdsInv => Chronological
  BY DEF IdsInv
<1> QED
  BY <1>1, InitIds, NextIds, PTL DEF Spec
=============================================================================
