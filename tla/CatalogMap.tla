----------------------------- MODULE CatalogMap -----------------------------
(***************************************************************************)
(* Catalog._map (catalog.py) statement by statement: look a page of native *)
(* ids up, insert the missing ones, revive the deleted ones if the call is *)
(* a write, commit; on a lost unique constraint roll back and try again.   *)
(*                                                                         *)
(* Several calls run at once, each in a transaction of its own connection  *)
(* (PostgreSQL, READ COMMITTED), or one after the other under the gate of  *)
(* the in-memory catalog.  mark_deleted, an update of one row, and         *)
(* mark_scope_deleted, an update of many, run beside them.  Module IdMap   *)
(* is what all of them together must look like.                            *)
(***************************************************************************)
EXTENDS Integers, Sequences, FiniteSets

CONSTANTS
  Keys,    (* (tenant, provider, native_id)                              *)
  Gids,    (* gateway ids new_id may mint                                *)
  NoGid,   (* no row, or no id known yet                                 *)
  Calls,   (* the _map calls of a behaviour                              *)
  Workloads (* the pages of native ids they may have been given           *)

\* Attempts at the transaction (catalog.py, _RETRIES).
Retries == 3

\* No provider answers with the same memory twice.
ASSUME CatalogMapAssumption ==
  /\ NoGid \notin Gids
  /\ \A f \in Workloads :
       /\ f \in [Calls -> Seq(Keys)]
       /\ \A c \in Calls : \A i, j \in DOMAIN f[c] : f[c][i] = f[c][j] => i = j
  /\ IsFiniteSet(Keys)

VARIABLES
  gid, live,   (* the committed rows of memory_index, as in IdMap        *)
  sweep,       (* the rows mark_scope_deleted found and has not reached  *)
  swept,       (* the rows it has marked, not committed yet              *)
  gated,       (* the catalog is ":memory:": one connection and a lock   *)
  page,        (* the natives of a call, in the provider's ranking       *)
  revive,      (* record_many (TRUE) or ensure_many (FALSE)              *)
  pc,          (* where the call is                                      *)
  attempt,     (* transactions this call has lost                        *)
  known,       (* the ids the transaction has read or minted             *)
  gone,        (* the natives it read as _GONE                           *)
  todo,        (* positions of the page still to insert or revive        *)
  mine,        (* rows it inserted, not committed yet                    *)
  revived,     (* rows it un-deleted, not committed yet                  *)
  answer       (* what the call returned                                 *)

callVars == <<gated, page, revive, pc, attempt, known, gone, todo, mine, revived, answer>>
vars == <<gid, live, sweep, swept, callVars>>

Nothing == [k \in Keys |-> NoGid]
PageKeys(c) == {page[c][i] : i \in DOMAIN page[c]}
Committed == {k \in Keys : gid[k] # NoGid}
InTransaction(c) == pc[c] \in {"insert", "revive", "commit"}
Sweeping == sweep \cup swept # {}

\* The native a call inserts or revives next: executemany and the loop of
\* _revive both follow the page.
Current(c) == page[c][CHOOSE i \in todo[c] : \A j \in todo[c] : i <= j]
Rest(c) == todo[c] \ {CHOOSE i \in todo[c] : \A j \in todo[c] : i <= j}

Init ==
  /\ gid = Nothing
  /\ live = {}
  /\ sweep = {}
  /\ swept = {}
  /\ gated \in BOOLEAN
  /\ page \in Workloads
  /\ revive \in [Calls -> BOOLEAN]
  /\ pc = [c \in Calls |-> "begin"]
  /\ attempt = [c \in Calls |-> 0]
  /\ known = [c \in Calls |-> Nothing]
  /\ gone = [c \in Calls |-> {}]
  /\ todo = [c \in Calls |-> {}]
  /\ mine = [c \in Calls |-> {}]
  /\ revived = [c \in Calls |-> {}]
  /\ answer = [c \in Calls |-> Nothing]

\* Mutant: no gate.
GateIsAlwaysFree == TRUE

\* With the in-memory catalog every transaction holds the gate throughout.
GateIsFree == gated => ~Sweeping /\ \A c \in Calls : ~InTransaction(c)

\* Mutant: reads revive too.
AfterInsertsOfAny(c, dead) ==
  LET doomed == {i \in DOMAIN page[c] : page[c][i] \in dead}
  IN  IF doomed # {}
      THEN pc' = [pc EXCEPT ![c] = "revive"] /\ todo' = [todo EXCEPT ![c] = doomed]
      ELSE pc' = [pc EXCEPT ![c] = "commit"] /\ todo' = [todo EXCEPT ![c] = {}]

\* The statement after the inserts: the updates of _revive, or the commit.
AfterInserts(c, dead) ==
  LET doomed == {i \in DOMAIN page[c] : page[c][i] \in dead}
  IN  IF revive[c] /\ doomed # {}
      THEN pc' = [pc EXCEPT ![c] = "revive"] /\ todo' = [todo EXCEPT ![c] = doomed]
      ELSE pc' = [pc EXCEPT ![c] = "commit"] /\ todo' = [todo EXCEPT ![c] = {}]

\* _find_by_native: the first statement of the transaction.
Find(c) ==
  LET missing == {i \in DOMAIN page[c] : gid[page[c][i]] = NoGid}
      dead == (PageKeys(c) \cap Committed) \ live
  IN  /\ pc[c] = "begin"
      /\ GateIsFree
      /\ known' = [known EXCEPT ![c] =
                     [k \in Keys |-> IF k \in PageKeys(c) THEN gid[k] ELSE NoGid]]
      /\ gone' = [gone EXCEPT ![c] = dead]
      /\ \/ /\ missing # {}
            /\ pc' = [pc EXCEPT ![c] = "insert"]
            /\ todo' = [todo EXCEPT ![c] = missing]
         \/ /\ missing = {}
            /\ AfterInserts(c, dead)
      /\ UNCHANGED <<gid, live, sweep, swept, gated, page, revive, attempt, mine, revived, answer>>

\* Mutant: inserts of the same key do not wait for each other.
WaitsForUpdates(c, d) == c # d /\ pc[c] = "revive" /\ Current(c) \in revived[d]

\* PostgreSQL makes an insert wait for the transaction that has written the
\* same unique key, and an update for the one that has updated the row.
WaitsFor(c, d) ==
  /\ c # d
  /\ \/ pc[c] = "insert" /\ Current(c) \in mine[d] \cup revived[d]
     \/ pc[c] = "revive" /\ Current(c) \in revived[d]

\* Both wait for mark_scope_deleted as well, and it waits for the calls that
\* have updated a row it has still to reach.
WaitsForSweep(c) == pc[c] \in {"insert", "revive"} /\ Current(c) \in swept
WaitsThroughSweep(c, d) == WaitsForSweep(c) /\ sweep \cap revived[d] # {}

Blocked(c) == WaitsForSweep(c) \/ \E d \in Calls : WaitsFor(c, d)

\* Mutant: no unique constraint, the later row replaces the earlier.
ConflictsWithOwn(c) == Current(c) \in mine[c]

\* The unique constraint on (tenant_id, provider, native_id).
Conflicts(c) == Current(c) \in Committed \cup mine[c]

\* new_id answers with an id nobody holds (module Ids).
FreshGids ==
  {g \in Gids : /\ \A k \in Keys : gid[k] # g
                /\ \A c \in Calls, k \in Keys : known[c][k] # g}
FreshGid == CHOOSE g \in FreshGids : TRUE

\* One row of _insert.
InsertRow(c) ==
  /\ pc[c] = "insert"
  /\ ~Blocked(c)
  /\ ~Conflicts(c)
  /\ FreshGids # {}      \* bound: Gids
  /\ known' = [known EXCEPT ![c][Current(c)] = FreshGid]
  /\ mine' = [mine EXCEPT ![c] = @ \cup {Current(c)}]
  /\ \/ /\ Rest(c) # {}
        /\ todo' = [todo EXCEPT ![c] = Rest(c)]
        /\ UNCHANGED pc
     \/ /\ Rest(c) = {}
        /\ AfterInserts(c, gone[c])
  /\ UNCHANGED <<gid, live, sweep, swept, gated, page, revive, attempt, gone, revived, answer>>

\* Mutant: the inserts of the lost transaction stay open.
RollbackLater(c, to) ==
  /\ pc' = [pc EXCEPT ![c] = to]
  /\ known' = [known EXCEPT ![c] = Nothing]
  /\ gone' = [gone EXCEPT ![c] = {}]
  /\ todo' = [todo EXCEPT ![c] = {}]
  /\ UNCHANGED <<gid, live, sweep, swept, gated, page, revive, mine, revived, answer>>

Rollback(c, to) ==
  /\ pc' = [pc EXCEPT ![c] = to]
  /\ known' = [known EXCEPT ![c] = Nothing]
  /\ gone' = [gone EXCEPT ![c] = {}]
  /\ todo' = [todo EXCEPT ![c] = {}]
  /\ mine' = [mine EXCEPT ![c] = {}]
  /\ revived' = [revived EXCEPT ![c] = {}]
  /\ UNCHANGED <<gid, live, sweep, swept, gated, page, revive, answer>>

\* IntegrityError: roll back and go round, or raise on the last attempt.
LoseRace(c) ==
  /\ pc[c] = "insert"
  /\ ~Blocked(c)
  /\ Conflicts(c)
  /\ attempt' = [attempt EXCEPT ![c] = @ + 1]
  /\ Rollback(c, IF attempt[c] = Retries - 1 THEN "conflict" ELSE "begin")

\* One update of _revive, and after the last the second _find_by_native, which
\* reads this transaction's own updates.
ReviveRow(c) ==
  /\ pc[c] = "revive"
  /\ ~Blocked(c)
  /\ revived' = [revived EXCEPT ![c] = @ \cup {Current(c)}]
  /\ todo' = [todo EXCEPT ![c] = Rest(c)]
  /\ pc' = [pc EXCEPT ![c] = IF Rest(c) = {} THEN "commit" ELSE "revive"]
  /\ UNCHANGED <<gid, live, sweep, swept, gated, page, revive, attempt, known, gone, mine, answer>>

\* Leaving the transaction: the rows become visible and the call answers with
\* the natives it knows to be live; its locals are gone.
Commit(c) ==
  LET kept == PageKeys(c) \ (gone[c] \ revived[c])
  IN  /\ pc[c] = "commit"
      /\ gid' = [k \in Keys |-> IF k \in mine[c] THEN known[c][k] ELSE gid[k]]
      /\ live' = live \cup mine[c] \cup revived[c]
      /\ answer' = [answer EXCEPT ![c] =
                      [k \in Keys |-> IF k \in kept THEN known[c][k] ELSE NoGid]]
      /\ pc' = [pc EXCEPT ![c] = "done"]
      /\ mine' = [mine EXCEPT ![c] = {}]
      /\ revived' = [revived EXCEPT ![c] = {}]
      /\ known' = [known EXCEPT ![c] = Nothing]
      /\ gone' = [gone EXCEPT ![c] = {}]
      /\ UNCHANGED <<sweep, swept, gated, page, revive, attempt, todo>>

\* PostgreSQL breaks a cycle of waiting transactions by aborting one of them.
\* The error it raises is not an IntegrityError, so _map does not retry.
BreakDeadlock(c) ==
  /\ Blocked(c)
  /\ \E S \in SUBSET Calls :
       /\ c \in S
       /\ \A d \in S : /\ \E e \in S : WaitsFor(d, e) \/ WaitsThroughSweep(d, e)
                       /\ \E e \in S : WaitsFor(e, d) \/ WaitsThroughSweep(e, d)
  /\ UNCHANGED attempt
  /\ Rollback(c, "deadlock")

\* The request dies between two statements, and its transaction with it.
Abort(c) ==
  /\ pc[c] = "begin" \/ InTransaction(c)
  /\ UNCHANGED attempt
  /\ Rollback(c, "aborted")

\* mark_deleted: one update, which waits for a transaction that holds the row.
MarkDeleted(k) ==
  /\ GateIsFree
  /\ k \in live \ swept
  /\ \A c \in Calls : k \notin revived[c]
  /\ live' = live \ {k}
  /\ UNCHANGED <<gid, sweep, swept, callVars>>

\* mark_scope_deleted: one update of the rows it finds live, which it reaches
\* in whatever order the database finds them.
FindScope ==
  /\ GateIsFree
  /\ ~Sweeping      \* bound: one erasure at a time
  /\ sweep' \in SUBSET live
  /\ UNCHANGED <<gid, live, swept, callVars>>

\* It waits for a transaction that holds the row, and looks at it again.
SweepRow(k) ==
  /\ k \in sweep
  /\ \A c \in Calls : k \notin revived[c]
  /\ sweep' = sweep \ {k}
  /\ swept' = swept \cup ({k} \cap live)
  /\ UNCHANGED <<gid, live, callVars>>

CommitSweep ==
  /\ sweep = {} /\ swept # {}
  /\ live' = live \ swept
  /\ swept' = {}
  /\ UNCHANGED <<gid, sweep, callVars>>

\* The request dies, or PostgreSQL aborts it to break a deadlock.
AbortSweep ==
  /\ Sweeping
  /\ sweep' = {}
  /\ swept' = {}
  /\ UNCHANGED <<gid, live, callVars>>

Sweep == (\E k \in Keys : SweepRow(k)) \/ CommitSweep

Deletion ==
  \/ \E k \in Keys : MarkDeleted(k)
  \/ FindScope
  \/ Sweep
  \/ AbortSweep

Ended(c) == pc[c] \in {"done", "conflict", "deadlock", "aborted"}

\* Every call has been answered: nothing more happens.
Finished ==
  /\ \A c \in Calls : Ended(c)
  /\ UNCHANGED vars

\* The statements of a call, and the database's verdict on a deadlock.
Step(c) ==
  \/ Find(c)
  \/ InsertRow(c)
  \/ LoseRace(c)
  \/ ReviveRow(c)
  \/ Commit(c)
  \/ BreakDeadlock(c)

Next ==
  \/ \E c \in Calls : Step(c)
  \/ \E c \in Calls : Abort(c)
  \/ Deletion
  \/ Finished

Spec == Init /\ [][Next]_vars

\* The event loop and the database go on serving a call they have begun, and
\* PostgreSQL looks for deadlocks and queues those who wait for a row, so that
\* whoever waits gets it in the end; nothing makes a request die.
FairSpec == Spec /\ (\A c \in Calls : SF_vars(Step(c))) /\ WF_vars(Sweep)

-----------------------------------------------------------------------------

\* The types of the rows and of the locals of every call; two open transactions
\* never hold the same unique key.
TypeOK ==
  /\ gid \in [Keys -> Gids \cup {NoGid}]
  /\ live \subseteq Keys
  /\ sweep \subseteq Keys
  /\ swept \subseteq Keys
  /\ gated \in BOOLEAN
  /\ page \in Workloads
  /\ revive \in [Calls -> BOOLEAN]
  /\ pc \in [Calls -> {"begin", "insert", "revive", "commit", "done",
                       "conflict", "deadlock", "aborted"}]
  /\ attempt \in [Calls -> 0..Retries]
  /\ known \in [Calls -> [Keys -> Gids \cup {NoGid}]]
  /\ gone \in [Calls -> SUBSET Keys]
  /\ todo \in [Calls -> SUBSET Nat]
  /\ mine \in [Calls -> SUBSET Keys]
  /\ revived \in [Calls -> SUBSET Keys]
  /\ answer \in [Calls -> [Keys -> Gids \cup {NoGid}]]
  /\ \A c, d \in Calls : c # d => mine[c] \cap mine[d] = {}

\* All the calls and the deletions together look like IdMap: one id per
\* memory, issued once and kept, deletion only hides (catalog.py, _map).
Map == INSTANCE IdMap WITH gid <- gid, live <- live
RefinesIdMap == Map!Spec

\* test_concurrent_mapping_of_one_native_id_yields_one_gateway_id: whatever
\* calls raced, an id a caller was given is the id of that memory.
AnswersAreTheStoredIds ==
  \A c \in Calls, k \in Keys : answer[c][k] # NoGid => answer[c][k] = gid[k]

\* A read never brings a deleted memory back (ensure_many); only a call of the
\* write path does (record_many).
OnlyWritesRevive ==
  [][\A k \in Keys : (k \in Committed \ live /\ k \in live') =>
       \E c \in Calls : /\ revive[c]
                        /\ k \in PageKeys(c)
                        /\ pc[c] = "commit" /\ pc'[c] = "done"]_vars

\* A lost transaction is paid for by a row that somebody committed: a call has
\* lost at most as many attempts as its page has committed rows, which is why
\* the second pass gets further than the first.
LostOnlyToCommittedRows ==
  \A c \in Calls : attempt[c] <= Cardinality(PageKeys(c) \cap Committed)

\* There is one order of the natives that every page follows.
RankedAlike ==
  \E rank \in [Keys -> 1..Cardinality(Keys)] :
    \A c \in Calls : \A i, j \in DOMAIN page[c] :
      i < j => rank[page[c][i]] < rank[page[c][j]]

\* "Losing that race is ordinary, not exceptional, and must not reach the
\* caller as a 500" (_map).  How far that is true: a call whose page has fewer
\* natives than there are attempts always gets through in the end, and no call
\* is chosen to break a deadlock as long as all pages rank what they share
\* alike and nobody waits for mark_scope_deleted.
RaceStaysInside ==
  [][\A c \in Calls : pc'[c] # pc[c] =>
       /\ pc'[c] = "conflict" => Len(page[c]) >= Retries
       /\ pc'[c] = "deadlock" => ~RankedAlike \/ \E d \in Calls : WaitsForSweep(d)]_vars

\* A call that waits for a row waits, in the end, for a transaction that can go
\* on: pages that rank what they share alike never make everyone wait, unless
\* somebody waits for mark_scope_deleted, which follows no page.
SomebodyGoesOn ==
  RankedAlike /\ (\E c \in Calls : Blocked(c)) =>
    \E c \in Calls : WaitsForSweep(c) \/ (InTransaction(c) /\ ~Blocked(c))

\* "Serialising is what makes that pool safe" (Catalog.__init__): behind the
\* gate no transaction ever loses the unique constraint to another.
GateLosesNoRace == gated => \A c \in Calls : attempt[c] = 0

\* Every mapping call ends: the waits and the retries cannot go on for ever.
EveryCallEnds == \A c \in Calls : <>Ended(c)
=============================================================================
