--------------------------------- MODULE Mem0 ---------------------------------
(***************************************************************************)
(* The Mem0 adapter (adapters/mem0.py): what its verbs do to a Mem0 that   *)
(* stores one memory at a call, deletes one at a call and lists no more    *)
(* than a page, so that a write of several facts and an erasure are        *)
(* sequences of calls that interleave with those of others and may fail    *)
(* after any.                                                              *)
(*                                                                         *)
(* Mem0 itself is external.  Its listing is immediate or, as the adapter   *)
(* declares it, eventual; a memory is deleted by its id at once.  A memory *)
(* may have no text: an update writes whatever the caller sent.            *)
(***************************************************************************)
EXTENDS Scopes, Naturals, FiniteSets

CONSTANTS
  Natives,     (* bound: the ids Mem0 can issue                        *)
  Stored,      (* the scopes of those there are to begin with, else None *)
  Workers,     (* bound: verbs served in a behaviour, all at once if need be *)
  Verbs,       (* the verbs each may serve                             *)
  Filters,     (* the scopes they are called with                      *)
  PAGE,        (* what one listing returns at most                     *)
  Erasures,    (* and those that are erased                            *)
  MaxFacts,    (* bound: memories one write creates                    *)
  CountCap     (* bound: the counter of an erasure stops here          *)

ASSUME Mem0Assumption ==
  /\ Stored \in [Natives -> Scope \cup {None}]
  /\ Verbs \in [Workers -> SUBSET {"ingest", "upsert", "update", "delete", "delete_scope"}]
  /\ Filters \subseteq Scope /\ Erasures \subseteq Scope
  /\ PAGE \in Nat \ {0}
  /\ MaxFacts \in Nat
  /\ CountCap \in Nat
  /\ IsFiniteSet(Natives)
  /\ None \notin Natives

VARIABLES
  eventual,    (* whether the listing lags behind; it never changes          *)
  held,        (* the memories Mem0 holds                                    *)
  listed,      (* the memories its listing shows                             *)
  blank,       (* those that have no text                                    *)
  scopeOf,     (* the scope a memory was written with; None: not yet issued  *)
  pc,          (* the call a worker makes next                               *)
  scope,       (* the scope of its verb                                      *)
  facts,       (* upsert: the facts still to be added                        *)
  target,      (* update: the memory it is about                             *)
  page, size,  (* delete_scope: what is left of the page, and what it was    *)
  removed,     (* delete_scope: the count                                    *)
  began,       (* history: what the scope held when the erasure began        *)
  passed,      (* history: that, and what was written to the scope since     *)
  hidden,      (* history: a memory without text was on a page of it         *)
  applied      (* history: the update changed its memory                     *)

provider == <<eventual, held, listed, blank, scopeOf>>
erasure == <<page, size, removed, began, passed, hidden>>
locals == <<scope, facts, target, applied, erasure>>
vars == <<provider, pc, locals>>

Init ==
  /\ eventual \in BOOLEAN
  /\ scopeOf = Stored
  /\ held = {n \in Natives : scopeOf[n] # None}
  /\ listed = held
  /\ blank = {}
  /\ pc = [w \in Workers |-> "idle"]
  /\ scope = [w \in Workers |-> None]
  /\ facts = [w \in Workers |-> 0]
  /\ target = [w \in Workers |-> None]
  /\ page = [w \in Workers |-> {}]
  /\ size = [w \in Workers |-> 0]
  /\ removed = [w \in Workers |-> 0]
  /\ began = [w \in Workers |-> {}]
  /\ passed = [w \in Workers |-> {}]
  /\ hidden = [w \in Workers |-> FALSE]
  /\ applied = [w \in Workers |-> FALSE]

Called(w, verb) == pc[w] = "idle" /\ verb \in Verbs[w]

Goto(w, label) == pc' = [pc EXCEPT ![w] = label]

\* What a scope is the scope of, labels apart.
Selected(s) == {n \in held : SelectsRow(s, scopeOf[n])}

Erasing(w) == pc[w] \in {"list", "delete"}

-----------------------------------------------------------------------------
(* Mem0, as the adapter uses it.                                            *)

\* Memories N are stored, with no text if it was empty.  write_ids names the
\* dimensions that are set.
Store(N, s, empty) ==
  /\ held' = held \cup N
  /\ blank' = IF empty THEN blank \cup N ELSE blank
  /\ scopeOf' = [n \in Natives |-> IF n \in N THEN s ELSE scopeOf[n]]
  /\ listed' = IF eventual THEN listed ELSE held'
  /\ passed' = [w \in Workers |->
                  IF Erasing(w) /\ SelectsRow(scope[w], s) THEN passed[w] \cup N ELSE passed[w]]

\* Mutant: the id is read from a field that is not there, and Mem0 does not
\* mind an id it does not know.
RemoveUnknown(n) == UNCHANGED <<held, listed>>

Remove(n) ==
  /\ held' = held \ {n}
  /\ listed' = IF eventual THEN listed ELSE held'

\* The listing catches up with one memory.
Settle ==
  /\ \E n \in Natives :
       \/ n \in held \ listed /\ listed' = listed \cup {n}
       \/ n \in listed \ held /\ listed' = listed \ {n}
  /\ UNCHANGED <<eventual, held, blank, scopeOf, pc, locals>>

Unissued == {n \in Natives : scopeOf[n] = None}

-----------------------------------------------------------------------------
(* Writes.                                                                  *)

\* ingest: Mem0 extracts what it likes from the conversation, in one call.
Ingest(w) ==
  /\ Called(w, "ingest")
  /\ \E s \in Filters, N \in SUBSET Unissued :
       /\ Cardinality(N) <= MaxFacts
       /\ Store(N, s, FALSE)
  /\ Goto(w, "answered")
  /\ UNCHANGED <<eventual, scope, facts, target, applied, page, size, removed, began, hidden>>

\* upsert: a call for each fact.
Upsert(w) ==
  /\ Called(w, "upsert")
  /\ \E s \in Filters, k \in 1..MaxFacts :
       /\ scope' = [scope EXCEPT ![w] = s]
       /\ facts' = [facts EXCEPT ![w] = k]
  /\ Goto(w, "add")
  /\ UNCHANGED <<provider, target, applied, erasure>>

LastFact(w) == facts[w] = 1

AddFact(w) ==
  /\ pc[w] = "add"
  /\ \E n \in Unissued, empty \in BOOLEAN : Store({n}, scope[w], empty)
  /\ facts' = [facts EXCEPT ![w] = @ - 1]
  /\ Goto(w, IF LastFact(w) THEN "answered" ELSE "add")
  /\ UNCHANGED <<eventual, scope, target, applied, page, size, removed, began, hidden>>

\* update: what Mem0 does with an id it does not know is its own affair; that
\* it complains is one of the failures of Fail.
Update(w) ==
  /\ Called(w, "update")
  /\ \E n \in Natives \ Unissued, empty \in BOOLEAN :
       /\ target' = [target EXCEPT ![w] = n]
       /\ applied' = [applied EXCEPT ![w] = n \in held]
       /\ blank' = IF empty /\ n \in held THEN blank \cup {n} ELSE blank \ (held \cap {n})
  /\ Goto(w, "get")
  /\ UNCHANGED <<eventual, held, listed, scopeOf, scope, facts, erasure>>

\* Mutant: an update answers with what it was given.
Unverified(w) == TRUE

\* "mem0 lost ... during update"
StillThere(w) == target[w] \in held

GetBack(w) ==
  /\ pc[w] = "get"
  /\ Goto(w, IF StillThere(w) THEN "updated" ELSE "failed")
  /\ UNCHANGED <<provider, locals>>

-----------------------------------------------------------------------------
(* Deletions.                                                               *)

Delete(w) ==
  /\ Called(w, "delete")
  /\ \E n \in Natives \ Unissued : Remove(n)
  /\ Goto(w, "answered")
  /\ UNCHANGED <<eventual, blank, scopeOf, locals>>

DeleteScope(w) ==
  /\ Called(w, "delete_scope")
  /\ \E s \in Erasures :
       /\ scope' = [scope EXCEPT ![w] = s]
       /\ began' = [began EXCEPT ![w] = Selected(s)]
       /\ passed' = [passed EXCEPT ![w] = Selected(s)]
  /\ Goto(w, "list")
  /\ UNCHANGED <<provider, facts, target, applied, page, size, removed, hidden>>

\* Mutant: a dimension that is not set must be null.
MatchesNull(s, t) == Owner(t) = Owner(s) /\ t.session = s.session

\* build_filters: a dimension that is not set is the wildcard, and labels are
\* not part of the filter.
Matches(s, t) == SelectsRow(s, t)

\* What get_all may return: all there is, or a full page of it.
Pages(s) ==
  LET all == {n \in listed : Matches(s, scopeOf[n])}
  IN  {P \in SUBSET all :
         \/ Cardinality(P) = PAGE
         \/ P = all /\ Cardinality(P) < PAGE}

\* _to_memories drops what has no text.
Length(P) == Cardinality(P \ blank)

List(w) ==
  /\ pc[w] = "list"
  /\ \E P \in Pages(scope[w]) :
       /\ page' = [page EXCEPT ![w] = P \ blank]
       /\ size' = [size EXCEPT ![w] = Length(P)]
       /\ hidden' = [hidden EXCEPT ![w] = @ \/ P \cap blank # {}]
       /\ Goto(w, IF Length(P) = 0 THEN "erased" ELSE "delete")
  /\ UNCHANGED <<provider, scope, facts, target, applied, removed, began, passed>>

\* Mutants: one page is all there is; every page counts as a full one.
OnePage(w) == TRUE
FullPage(w) == PAGE

LastPage(w) == size[w] < PAGE
Counted(w) == size[w]

Capped(k) == IF k > CountCap THEN CountCap ELSE k

\* The page is deleted one by one, and counted with the last.
DeleteNext(w) ==
  /\ pc[w] = "delete"
  /\ \E n \in page[w] :
       /\ Remove(n)
       /\ page' = [page EXCEPT ![w] = @ \ {n}]
  /\ IF page'[w] # {}
     THEN UNCHANGED <<removed, pc>>
     ELSE /\ removed' = [removed EXCEPT ![w] = Capped(@ + Counted(w))]
          /\ Goto(w, IF LastPage(w) THEN "erased" ELSE "list")
  /\ UNCHANGED <<eventual, blank, scopeOf, scope, facts, target, applied,
                 size, began, passed, hidden>>

-----------------------------------------------------------------------------

\* A call is refused, or its answer is lost: the verb raises, and what it did
\* so far stays done.
Fail(w) ==
  /\ pc[w] \in {"add", "get", "list", "delete"}
  /\ Goto(w, "failed")
  /\ page' = [page EXCEPT ![w] = {}]
  /\ size' = [size EXCEPT ![w] = 0]
  /\ removed' = [removed EXCEPT ![w] = 0]
  /\ began' = [began EXCEPT ![w] = {}]
  /\ passed' = [passed EXCEPT ![w] = {}]
  /\ hidden' = [hidden EXCEPT ![w] = FALSE]
  /\ UNCHANGED <<provider, scope, facts, target, applied>>

\* Every verb has returned or raised.
Finished ==
  /\ \A w \in Workers : pc[w] \in {"answered", "updated", "erased", "failed"}
  /\ UNCHANGED vars

Begin(w) == Ingest(w) \/ Upsert(w) \/ Update(w) \/ Delete(w) \/ DeleteScope(w)

Step(w) ==
  AddFact(w) \/ GetBack(w) \/ List(w) \/ DeleteNext(w)

Next == Settle \/ Finished \/ \E w \in Workers : Begin(w) \/ Step(w) \/ Fail(w)

Spec == Init /\ [][Next]_vars

\* Calls are answered, the event loop resumes who waits for them, and the
\* listing catches up with what is no longer changed.
FairSpec == Spec /\ WF_vars(Settle) /\ \A w \in Workers : WF_vars(Step(w))

-----------------------------------------------------------------------------
(* Properties.                                                              *)

\* The types; a listing that does not lag shows what is held.
TypeOK ==
  /\ eventual \in BOOLEAN
  /\ held \subseteq Natives /\ listed \subseteq Natives /\ blank \subseteq Natives
  /\ scopeOf \in [Natives -> Scope \cup {None}]
  /\ pc \in [Workers -> {"idle", "add", "get", "list", "delete",
                         "answered", "updated", "erased", "failed"}]
  /\ scope \in [Workers -> Filters \cup Erasures \cup {None}]
  /\ facts \in [Workers -> Nat]
  /\ target \in [Workers -> Natives \cup {None}]
  /\ page \in [Workers -> SUBSET Natives]
  /\ size \in [Workers -> 0..PAGE]
  /\ removed \in [Workers -> 0..CountCap]
  /\ began \in [Workers -> SUBSET Natives] /\ passed \in [Workers -> SUBSET Natives]
  /\ hidden \in [Workers -> BOOLEAN] /\ applied \in [Workers -> BOOLEAN]
  /\ held \cap Unissued = {}
  /\ eventual \/ listed = held

\* "an erasure that stops at the first page reports success and leaves the
\* rest" (PAGE): where the listing shows what is held and every memory on the
\* pages had a text, an erasure that answers has removed all its scope held
\* when it began, whatever is written and erased meanwhile.
ErasureDrains ==
  \A w \in Workers :
    pc[w] = "erased" /\ ~eventual /\ ~hidden[w] => began[w] \cap held = {}

\* "two decisions here, both about not lying" (delete_scope): where the listing
\* does not lag, the count it answers with is of memories of its scope that
\* have gone since it began, none counted twice however many erase at once.
CountsOnlyWhatWent ==
  \A w \in Workers :
    pc[w] = "erased" /\ ~eventual => removed[w] <= Cardinality(passed[w] \ held)

\* An update that is answered has changed its memory: one that was gone before,
\* or goes in between, is an error (update).
AnsweredUpdateWasApplied == \A w \in Workers : pc[w] = "updated" => applied[w]

\* The loop of an erasure ends, on a listing that lags as well, with memories
\* on it that have no text, and while others write.
EveryErasureEnds == \A w \in Workers : pc[w] = "list" ~> pc[w] \in {"erased", "failed"}
===============================================================================
