-------------------------------- MODULE Ids --------------------------------
(***************************************************************************)
(* new_id (catalog.py): a ULID is the wall clock in milliseconds followed  *)
(* by a random part, compared in that order.  Inside one millisecond the   *)
(* random part of the previous id is incremented instead of redrawn, so    *)
(* that ids sort in the order they were minted.                            *)
(*                                                                         *)
(* The state is that of one process: every mint happens under _id_lock, so *)
(* it is one atomic action whatever thread runs it.  Crockford's alphabet  *)
(* is in ASCII order and both parts are padded, so comparing two id        *)
(* strings is comparing the two numbers; an id is modelled as the pair.    *)
(***************************************************************************)
EXTENDS Integers, Sequences

CONSTANTS
  RandSize,      (* the random part is taken modulo RandSize: 2^80 in the code *)
  Seeds,         (* the values secrets.randbits(80) may return                 *)
  MaxClock,      (* bound: the last millisecond of a behaviour                 *)
  MaxMints       (* bound: ids minted in a behaviour                           *)

\* A seed is a value of the random part, and a burst of MaxMints ids inside one
\* millisecond does not run past the end of it: with 80 random bits this fails
\* with probability MaxMints / 2^80.
ASSUME IdsAssumption ==
  /\ RandSize \in Nat
  /\ MaxClock \in Nat
  /\ MaxMints \in Nat
  /\ Seeds \subseteq Nat
  /\ \A s \in Seeds : s + MaxMints < RandSize

VARIABLES
  clock,     (* int(time.time() * 1000)                    *)
  last_ms,   (* the globals of catalog.py                  *)
  last_rand,
  minted     (* history: every id returned, oldest first   *)

vars == <<clock, last_ms, last_rand, minted>>

Id == [ms : Nat, rand : Nat]

\* String order of two ids.
Before(a, b) == a.ms < b.ms \/ (a.ms = b.ms /\ a.rand < b.rand)

\* Mutant: a digit of the random part is lost.
PrintedShort(ms, rand) == [ms |-> ms, rand |-> rand % (RandSize \div 2)]

\* _b32 keeps only the low digits of the number it prints.
Printed(ms, rand) == [ms |-> ms, rand |-> rand % RandSize]

Init ==
  /\ clock \in 1..MaxClock
  /\ last_ms = 0
  /\ last_rand = 0
  /\ minted = <<>>

\* One call of new_id, whole: the lock is held from the read of the clock to
\* the read of the random part.
NewId ==
  /\ Len(minted) < MaxMints
  /\ \/ /\ clock = last_ms
        /\ last_rand' = last_rand + 1
     \/ /\ clock # last_ms
        /\ last_rand' \in Seeds
  /\ last_ms' = clock
  /\ minted' = Append(minted, Printed(clock, last_rand'))
  /\ UNCHANGED clock

\* The wall clock is the operating system's: it advances by any amount, and may
\* be set back, as NTP does.
Tick ==
  /\ clock' \in 1..MaxClock
  /\ clock' # clock
  /\ UNCHANGED <<last_ms, last_rand, minted>>

Next == NewId \/ Tick

Spec == Init /\ [][Next]_vars

-----------------------------------------------------------------------------

\* The types of the clock, of the module globals and of the ids returned.
TypeOK ==
  /\ clock \in Nat
  /\ last_ms \in Nat
  /\ last_rand \in Nat
  /\ minted \in Seq(Id)

\* No id from the i-th to the j-th was minted in an earlier millisecond than the
\* one before it.
NotSetBack(i, j) == \A k \in i..(j - 1) : minted[k].ms <= minted[k + 1].ms

\* "a stable chronology" (new_id): an id sorts before every id minted after it, so
\* ORDER BY gateway_id is creation order and no id is issued twice -- unless the
\* clock had been set back when one of those between them was minted.
Chronological ==
  \A i, j \in 1..Len(minted) :
    i < j /\ NotSetBack(i, j) => Before(minted[i], minted[j])

=============================================================================
