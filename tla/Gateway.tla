------------------------------- MODULE Gateway -------------------------------
(***************************************************************************)
(* MemoryCore (core.py) over the catalog (catalog.py) and the providers.   *)
(*                                                                         *)
(* A verb is a coroutine: between two awaits nothing else runs, at every   *)
(* await anything may.  Its awaits are calls of a provider, which answers  *)
(* or fails, and transactions of the catalog, each atomic (CatalogMap      *)
(* shows it of the largest).  Requests are served by workers, which are    *)
(* coroutines of one process or of several that share the catalog, each    *)
(* with the default provider of its own settings.  A request may die at    *)
(* any await: its process stops, or the database goes away.                *)
(*                                                                         *)
(* A memory is the pair of its provider and its native id.  Its gateway id *)
(* is not shown: CatalogMap establishes that it is one to one with it.     *)
(***************************************************************************)
EXTENDS Scopes, Naturals, FiniteSets

CONSTANTS
  Providers,
  Natives,          (* bound: the native ids a provider can issue             *)
  Workers,          (* bound: requests being served at once                   *)
  Default,          (* the default provider of each worker's settings         *)
  Caps,             (* what each provider declares it can do                  *)
  Reuses,           (* providers that may answer a write with a native id     *)
                    (* they had used before: those that deduplicate           *)
  Lags,             (* providers that may serve a memory they deleted         *)
  JournalEnabled,
  Verbs,            (* the verbs clients use in a behaviour                   *)
  Filters,          (* the scopes they use                                    *)
  MaxFacts          (* bound: memories one write creates                      *)

ScopeVerbs == {"ingest", "upsert", "search", "list_scope", "delete_scope"}
IdVerbs == {"get", "update", "delete"}
Writes == {"ingest", "upsert"}

\* The fields of Capabilities the core consults.
Features == ScopeVerbs \cup IdVerbs \cup {"session", "label"}

Memories == Providers \X Natives

ASSUME GatewayAssumption ==
  /\ None \notin Providers \cup Memories
  /\ Default \in [Workers -> Providers \cup {None}]
  /\ Caps \in [Providers -> SUBSET Features]
  /\ Reuses \subseteq Providers
  /\ Lags \subseteq Providers
  /\ JournalEnabled \in BOOLEAN
  /\ Verbs \subseteq ScopeVerbs \cup IdVerbs \cup {"rebind"}
  /\ Filters \subseteq Scope
  /\ MaxFacts \in Nat
  /\ IsFiniteSet(Memories)

VARIABLES
  binding,   (* scope_binding: the provider of each end-user               *)
  live,      (* memory_index: rows that are not marked deleted             *)
  buried,    (* memory_index: rows marked deleted                          *)
  rowScope,  (* memory_index: the scope of each row                        *)
  journal,   (* episode_journal: raw episodes and the memories they became *)
  held,      (* the memories the providers hold                            *)
  gone,      (* the memories they held and deleted                         *)
  memScope,  (* the scope each memory was last written with                *)
  pc,        (* the await each worker's request is at                      *)
  req,       (* its local variables                                        *)
  swept,     (* history: what finished delete_scope calls removed and no   *)
             (* later write brought back                                   *)
  beside     (* history: the verbs each request has overlapped so far that *)
             (* may change what it read of its end-user                    *)

catalogVars == <<binding, live, buried, rowScope, journal>>
providerVars == <<held, gone, memScope>>
vars == <<catalogVars, providerVars, pc, req, swept, beside>>

Episode == [scope : RowScope, mems : SUBSET Memories]

\* The locals of a verb that outlive an await.  mems is what the provider
\* answered, or the one memory an id names; previous and orphans are rebind's,
\* named is the provider the responses of list and delete speak of.
Request ==
  [verb : Verbs, tenant : Tenants, scope : Scope, provider : Providers,
   mems : SUBSET Memories, previous : Providers \cup {None}, orphans : Nat,
   named : Providers \cup {None}]

At(p) == {m \in Memories : m[1] = p}

Init ==
  /\ binding = [o \in Owners |-> None]
  /\ live = {}
  /\ buried = {}
  /\ rowScope = [m \in Memories |-> None]
  /\ journal = {}
  /\ held = {}
  /\ gone = {}
  /\ memScope = [m \in Memories |-> None]
  /\ pc = [w \in Workers |-> "idle"]
  /\ req = [w \in Workers |-> None]
  /\ swept = {}
  /\ beside = [w \in Workers |-> {}]

InFlight == {w \in Workers : pc[w] # "idle"}

\* The request of v may change what that of w has read: the provider of its
\* end-user, and for a rebind also the number of their rows.
Disturbs(v, w) ==
  /\ Owner(req[v].scope) = Owner(req[w].scope)
  /\ \/ req[v].verb = "rebind"
     \/ req[v].verb \in Writes /\ Default[v] # Default[w]
     \/ req[w].verb = "rebind" /\ req[v].verb # "get"

\* The verbs in flight beside w that do.
Company(w) == {req[v].verb : v \in {v \in InFlight \ {w} : Disturbs(v, w)}}

\* The next await of worker w, and what its locals are there.
Goto(w, label, locals) ==
  /\ pc' = [pc EXCEPT ![w] = label]
  /\ req' = [req EXCEPT ![w] = locals]
  /\ beside' = [v \in Workers |-> IF v \in InFlight' THEN beside[v] \cup Company(v)' ELSE {}]

Leave(w) == Goto(w, "idle", None)

-----------------------------------------------------------------------------
(* How a request begins: what is read before the first call.  A request     *)
(* that is refused changes nothing, so only those that go on are steps.     *)

\* Mutant: the default wins over the binding.
ResolvedByDefault(w, o) == Default[w]

\* resolve_provider (router.py): the binding, else the default.
Resolved(w, o) == IF binding[o] # None THEN binding[o] ELSE Default[w]

\* A provider the caller names is checked against the resolved one, not obeyed.
Asserts(asserted, p) == asserted \in {None, p}

\* assert_scope_supported (degrade.py), and the capability the verb needs.
CanServe(p, verb, s) ==
  /\ s.session # None => "session" \in Caps[p]
  /\ s.label # None => "label" \in Caps[p]
  /\ verb # "search" => verb \in Caps[p]

\* _prepare, and the checks of the verb before it calls the provider.
Prepare(w, verb, s, asserted) ==
  LET p == Resolved(w, Owner(s))
  IN  /\ pc[w] = "idle"
      /\ p # None
      /\ Asserts(asserted, p)
      /\ CanServe(p, verb, s)
      /\ Goto(w, "call", [verb |-> verb, tenant |-> s.tenant, scope |-> s,
                          provider |-> p, mems |-> {}, previous |-> None,
                          orphans |-> 0, named |-> None])
      /\ UNCHANGED <<catalogVars, providerVars, swept>>

\* Mutant: the tenant is left out of the lookup.
VisibleToAll(t, m) == m \in live

\* resolve_gateway_id: the rows a tenant's gateway ids lead to.
VisibleTo(t, m) == m \in live /\ rowScope[m].tenant = t

\* _row: a gateway id of the caller's own tenant whose row is not deleted.
\* The row is read once, and the verb goes on with what it read.
FetchRow(w, verb, t, m) ==
  /\ pc[w] = "idle"
  /\ VisibleTo(t, m)
  /\ verb # "get" => verb \in Caps[m[1]]
  /\ Goto(w, "call", [verb |-> verb, tenant |-> t, scope |-> rowScope[m],
                      provider |-> m[1], mems |-> {m}, previous |-> None,
                      orphans |-> 0, named |-> None])
  /\ UNCHANGED <<catalogVars, providerVars, swept>>

\* Catalog.rebind, first transaction: the binding there was.  Only then are
\* the rows counted, and only if there is something to leave behind.
RebindRead(w, o, p) ==
  LET previous == binding[o]
  IN  /\ pc[w] = "idle"
      /\ Goto(w, IF previous \notin {None, p} THEN "count" ELSE "swap",
              [verb |-> "rebind", tenant |-> o[1], scope |-> Everything(o),
               provider |-> p, mems |-> {}, previous |-> previous, orphans |-> 0, named |-> None])
      /\ UNCHANGED <<catalogVars, providerVars, swept>>

Begin(w) ==
  \/ \E verb \in Verbs \cap ScopeVerbs, s \in Filters, a \in Providers \cup {None} :
       Prepare(w, verb, s, a)
  \/ \E verb \in Verbs \cap IdVerbs, t \in Tenants, m \in Memories :
       FetchRow(w, verb, t, m)
  \/ \E o \in Owners, p \in Providers : "rebind" \in Verbs /\ RebindRead(w, o, p)

-----------------------------------------------------------------------------
(* The call of the provider.                                                *)

Calling(w, verbs) == pc[w] = "call" /\ req[w].verb \in verbs

\* The native ids a provider may answer a write with: new ones, and where it
\* deduplicates, those it holds that were written with the very same scope (it
\* compares with what its own filter of the write finds), or once held for the
\* same end-user.
Issuable(p, s) ==
  {m \in At(p) :
     \/ m \notin held \cup gone
     \/ /\ p \in Reuses
        /\ \/ m \in held /\ memScope[m] = s
           \/ m \in gone /\ Owner(memScope[m]) = Owner(s)}

Store(M, s) ==
  /\ held' = held \cup M
  /\ gone' = gone \ M
  /\ memScope' = [m \in Memories |-> IF m \in M THEN s ELSE memScope[m]]
  /\ swept' = swept \ M

\* Mutant: a deletion that is acknowledged and not committed.
ForgetUncommitted(M) ==
  /\ gone' = gone \cup (M \cap held)
  /\ UNCHANGED <<held, memScope, swept>>

Forget(M) ==
  /\ held' = held \ M
  /\ gone' = gone \cup (M \cap held)
  /\ UNCHANGED <<memScope, swept>>

\* Mutant: a deletion by scope removes what was filed under exactly that scope.
DoomedExactly(r) ==
  IF r.verb = "delete"
  THEN r.mems
  ELSE {m \in held \cap At(r.provider) : memScope[m] = r.scope}

\* What a deletion is about to remove from the provider.
Doomed(r) ==
  IF r.verb = "delete"
  THEN r.mems
  ELSE {m \in held \cap At(r.provider) : Selects(r.scope, memScope[m])}

\* adapter.ingest may keep nothing; adapter.upsert keeps every fact.
WriteCall(w) ==
  /\ Calling(w, Writes)
  /\ \E M \in SUBSET Issuable(req[w].provider, req[w].scope) :
       /\ Cardinality(M) <= MaxFacts
       /\ req[w].verb = "upsert" => M # {}
       /\ Store(M, req[w].scope)
       /\ Goto(w, "record", [req[w] EXCEPT !.mems = M])
  /\ UNCHANGED catalogVars

\* adapter.update: the provider refuses an id it does not hold.
UpdateCall(w) ==
  /\ Calling(w, {"update"})
  /\ req[w].mems \subseteq held
  /\ Goto(w, "record", req[w])
  /\ UNCHANGED <<catalogVars, providerVars, swept>>

\* What a search or a listing may find: what the provider holds in the scope,
\* and where it lags, what it has deleted there.
Findable(r) ==
  LET served == held \cup (IF r.provider \in Lags THEN gone ELSE {})
  IN  {m \in served \cap At(r.provider) : Selects(r.scope, memScope[m])}

\* adapter.search and adapter.list_scope: the best of them, up to a limit.
ReadCall(w) ==
  /\ Calling(w, {"search", "list_scope"})
  /\ \E hits \in SUBSET Findable(req[w]) :
       Goto(w, "map", [req[w] EXCEPT !.mems = hits])
  /\ UNCHANGED <<catalogVars, providerVars, swept>>

\* adapter.get: a memory that is no longer there is a 404.
GetCall(w) ==
  /\ Calling(w, {"get"})
  /\ req[w].mems \subseteq held
  /\ Goto(w, "done", req[w])
  /\ UNCHANGED <<catalogVars, providerVars, swept>>

\* adapter.delete and adapter.delete_scope.
DeleteCall(w) ==
  /\ Calling(w, {"delete", "delete_scope"})
  /\ Forget(Doomed(req[w]))
  /\ Goto(w, "mark", [req[w] EXCEPT !.mems = Doomed(req[w])])
  /\ UNCHANGED catalogVars

\* The provider fails, or its answer is lost: _call and search raise to the
\* caller (a search that fails open answers with nothing).  Facts are stored,
\* and pages deleted, one call at a time, so part of the work may be done.
CallFails(w) ==
  /\ pc[w] = "call"
  /\ \/ /\ req[w].verb \in Writes
        /\ \E M \in SUBSET Issuable(req[w].provider, req[w].scope) :
             Cardinality(M) <= MaxFacts /\ Store(M, req[w].scope)
     \/ /\ req[w].verb \in {"delete", "delete_scope"}
        /\ \E M \in SUBSET Doomed(req[w]) : Forget(M)
     \/ /\ req[w].verb \notin Writes \cup {"delete", "delete_scope"}
        /\ UNCHANGED <<providerVars, swept>>
  /\ Leave(w)
  /\ UNCHANGED catalogVars

-----------------------------------------------------------------------------
(* The transactions of the catalog that follow.                             *)

\* Mutants: reads revive too; not even writes do.
RewrittenByReads(M, revive) == M \ live
RewrittenOnce(M, revive) == M \ (live \cup buried)

\* The rows Catalog._map writes for the memories M: those that are missing, and
\* for a write the deleted ones too.
Rewritten(M, revive) ==
  (M \ (live \cup buried)) \cup (IF revive THEN M \cap buried ELSE {})

\* They take the scope of the caller; the scope of a live row is kept.
MapRows(M, s, revive) ==
  LET written == Rewritten(M, revive)
  IN  /\ live' = live \cup written
      /\ buried' = buried \ written
      /\ rowScope' = [m \in Memories |->
                        IF m \in written THEN OnRow(s) ELSE rowScope[m]]

\* Mutant: nothing is bound for a write that kept nothing.
AfterRecordOfSome(r) == IF r.verb \in Writes /\ r.mems # {} THEN "bind" ELSE "done"

AfterRecord(r) == IF r.verb \in Writes THEN "bind" ELSE "done"

\* record_many after a write, record after an update.
Record(w) ==
  /\ pc[w] = "record"
  /\ MapRows(req[w].mems, req[w].scope, TRUE)
  /\ Goto(w, AfterRecord(req[w]), req[w])
  /\ UNCHANGED <<binding, journal, providerVars, swept>>

\* Mutant: the last write wins.
BoundToLast(o, p) == p

\* Catalog.bind: insert, and leave a binding that is already there alone.
BoundTo(o, p) == IF binding[o] = None THEN p ELSE binding[o]

AfterBind(r) == IF r.verb = "ingest" /\ JournalEnabled THEN "journal" ELSE "done"

\* The binding that was there instead is not looked at by the verb.
Bind(w) ==
  LET o == Owner(req[w].scope)
  IN  /\ pc[w] = "bind"
      /\ binding' = [binding EXCEPT ![o] = BoundTo(o, req[w].provider)]
      /\ Goto(w, AfterBind(req[w]), req[w])
      /\ UNCHANGED <<live, buried, rowScope, journal, providerVars, swept>>

\* Catalog.journal: the raw episode, filed under its scope.
Journal(w) ==
  /\ pc[w] = "journal"
  /\ journal' = journal \cup {[scope |-> OnRow(req[w].scope), mems |-> req[w].mems]}
  /\ Goto(w, "done", req[w])
  /\ UNCHANGED <<binding, live, buried, rowScope, providerVars, swept>>

\* ensure_many after a read (_map_hits): hits the catalog has buried are
\* dropped from the answer.
MapHits(w) ==
  /\ pc[w] = "map"
  /\ MapRows(req[w].mems, req[w].scope, FALSE)
  /\ Goto(w, IF req[w].verb = "list_scope" THEN "name" ELSE "done",
          [req[w] EXCEPT !.mems = @ \ buried])
  /\ UNCHANGED <<binding, journal, providerVars, swept>>

\* Mutants: the rows of what the provider says it removed; every row of the
\* scope of the one that was to go.
DeadByAnswer(r) == r.mems \cap live
DeadByScope(r) == {m \in live \cap At(r.provider) : SelectsRow(r.scope, rowScope[m])}

\* The row of the id, or the rows of the scope at the provider.
Dead(r) ==
  IF r.verb = "delete"
  THEN r.mems \cap live
  ELSE {m \in live \cap At(r.provider) : SelectsRow(r.scope, rowScope[m])}

\* Mutant: rows of deleted memories are removed.
MarkRemoving(w) ==
  /\ pc[w] = "mark"
  /\ live' = live \ Dead(req[w])
  /\ buried' = buried \ Dead(req[w])
  /\ Goto(w, IF req[w].verb = "delete" THEN "done" ELSE "erase", req[w])
  /\ UNCHANGED <<binding, rowScope, journal, providerVars, swept>>

\* mark_deleted and mark_scope_deleted.
Mark(w) ==
  /\ pc[w] = "mark"
  /\ live' = live \ Dead(req[w])
  /\ buried' = buried \cup Dead(req[w])
  /\ Goto(w, IF req[w].verb = "delete" THEN "done" ELSE "erase", req[w])
  /\ UNCHANGED <<binding, rowScope, journal, providerVars, swept>>

\* Mutant: the episodes filed under exactly that scope.
EpisodesExactly(s) == {e \in journal : e.scope = OnRow(s)}

\* The raw episodes of a scope, wherever they were ingested.
Episodes(s) == {e \in journal : SelectsRow(s, e.scope)}

\* delete_journal.
EraseJournal(w) ==
  /\ pc[w] = "erase"
  /\ journal' = journal \ Episodes(req[w].scope)
  /\ swept' = swept \cup req[w].mems
  /\ Goto(w, "name", req[w])
  /\ UNCHANGED <<binding, live, buried, rowScope, providerVars>>

\* Mutant: an end-user without a binding is served by nobody.
NamedByBinding(w, o) == binding[o]

\* The provider a response names is looked up again once the verb is done.
NamedFor(w, o) == IF binding[o] # None THEN binding[o] ELSE Default[w]

\* The endpoints of list and delete read the binding for their response.
NameProvider(w) ==
  /\ pc[w] = "name"
  /\ Goto(w, "done", [req[w] EXCEPT !.named = NamedFor(w, Owner(req[w].scope))])
  /\ UNCHANGED <<catalogVars, providerVars, swept>>

\* Mutant: the deleted rows are counted too.
AllCount(o, p) == Cardinality({m \in (live \cup buried) \cap At(p) : Owner(rowScope[m]) = o})

\* live_count: what the response of rebind will say is left behind.
LiveCount(o, p) == Cardinality({m \in live \cap At(p) : Owner(rowScope[m]) = o})

CountOrphans(w) ==
  /\ pc[w] = "count"
  /\ Goto(w, "swap",
          [req[w] EXCEPT !.orphans = LiveCount(Owner(req[w].scope), req[w].previous)])
  /\ UNCHANGED <<catalogVars, providerVars, swept>>

\* The last transaction of Catalog.rebind: delete and insert together.
SwapBinding(w) ==
  /\ pc[w] = "swap"
  /\ binding' = [binding EXCEPT ![Owner(req[w].scope)] = req[w].provider]
  /\ Goto(w, "done", req[w])
  /\ UNCHANGED <<live, buried, rowScope, journal, providerVars, swept>>

\* The response is sent.
Reply(w) ==
  /\ pc[w] = "done"
  /\ Leave(w)
  /\ UNCHANGED <<catalogVars, providerVars, swept>>

\* The request dies at an await: what is done stays done, the rest is not.
Abort(w) ==
  /\ pc[w] \notin {"idle", "done"}
  /\ Leave(w)
  /\ UNCHANGED <<catalogVars, providerVars, swept>>

-----------------------------------------------------------------------------

\* What the event loop does next for a request that has begun.
Progress(w) ==
  \/ WriteCall(w) \/ UpdateCall(w) \/ ReadCall(w) \/ GetCall(w) \/ DeleteCall(w)
  \/ CallFails(w)
  \/ Record(w) \/ Bind(w) \/ Journal(w) \/ MapHits(w) \/ Mark(w) \/ EraseJournal(w)
  \/ NameProvider(w) \/ CountOrphans(w) \/ SwapBinding(w)
  \/ Reply(w)

Next == \E w \in Workers : Begin(w) \/ Progress(w) \/ Abort(w)

Spec == Init /\ [][Next]_vars

(* What clients have to keep apart.  The core serves overlapping requests   *)
(* about one end-user as they come; some of its promises hold only where    *)
(* certain verbs do not overlap.                                            *)

\* No two requests about one end-user overlap whose verbs are one of the pairs.
Apart(pairs) ==
  \A v, w \in Workers :
    /\ v # w /\ pc[v] # "idle" /\ pc[w] # "idle"
    /\ <<req[v].verb, req[w].verb>> \in pairs
    => Owner(req[v].scope) # Owner(req[w].scope)

\* An erasure by scope, and whatever stores memories or files rows for them; a
\* deletion by id, and whatever stores memories or revives rows.
ErasuresApart ==
  Apart(({"delete_scope"} \X (Writes \cup {"update", "search", "list_scope"}))
        \cup ({"delete"} \X (Writes \cup {"update"})))

ErasuresApartSpec == Init /\ [][Next /\ ErasuresApart']_vars

-----------------------------------------------------------------------------
(* Properties.                                                              *)

PcLabels == {"idle", "call", "record", "bind", "journal", "map",
             "mark", "erase", "name", "count", "swap", "done"}

CatalogTypeOK ==
  /\ binding \in [Owners -> Providers \cup {None}]
  /\ live \subseteq Memories
  /\ buried \subseteq Memories
  /\ live \cap buried = {}
  /\ rowScope \in [Memories -> RowScope \cup {None}]
  /\ \A m \in live \cup buried : rowScope[m] \in RowScope
  /\ journal \subseteq Episode

ProviderTypeOK ==
  /\ held \subseteq Memories
  /\ gone \subseteq Memories
  /\ held \cap gone = {}
  /\ memScope \in [Memories -> Scope \cup {None}]
  /\ \A m \in held \cup gone : memScope[m] \in Scope

RequestTypeOK ==
  /\ pc \in [Workers -> PcLabels]
  /\ req \in [Workers -> Request \cup {None}]
  /\ \A w \in Workers : pc[w] # "idle" => req[w] \in Request
  /\ beside \in [Workers -> SUBSET Verbs]

\* The types of the tables, of the stores and of a request at each await; a
\* row is live or deleted, a memory held or gone, never both.
TypeOK ==
  /\ CatalogTypeOK
  /\ ProviderTypeOK
  /\ RequestTypeOK
  /\ swept \subseteq Memories

Acked(w, verbs) == pc[w] = "done" /\ req[w].verb \in verbs

\* The step that touches a binding is the last of a write or of a rebind.
MovedOnlyByRebind(o) ==
  \E w \in Workers :
    /\ pc[w] # "idle" /\ pc'[w] # pc[w]
    /\ Owner(req[w].scope) = o
    /\ req[w].provider = binding'[o]
    /\ req[w].verb \in (IF binding[o] = None THEN Writes \cup {"rebind"} ELSE {"rebind"})

\* The binding is set by a write or by rebind, to the provider that request
\* used, is never cleared, and only rebind moves one that is there (bind:
\* "Never moves an existing binding -- that is rebind").
BindingMovesOnlyByRebind ==
  [][\A o \in Owners : binding'[o] # binding[o] => MovedOnlyByRebind(o)]_vars

\* Once a write is acknowledged its end-user is pinned to a provider, also when
\* extraction kept nothing, another write bound first or a rebind came between.
AckedWriteIsBound ==
  \A w \in Workers : Acked(w, Writes) => binding[Owner(req[w].scope)] # None

\* An acknowledged write went to the provider its end-user's reads will go to
\* ("ingesting to one backend and recalling from another returns an empty
\* result with no error", README).
AckedWriteIsWhereReadsLook ==
  \A w \in Workers :
    Acked(w, Writes) => binding[Owner(req[w].scope)] = req[w].provider

\* A row is filed under the scope of its memory or a wider one of the same
\* end-user: deleting by a scope never tombstones a row whose memory the
\* provider's own filter leaves alone because of tenant, subject or session.
RowScopeCoversMemory ==
  \A m \in live \cup buried :
    memScope[m] # None /\ SelectsRow(rowScope[m], memScope[m])

\* "dropping it would lose a write the caller just made" (_records): the
\* memories of an acknowledged write can be read by their gateway ids.
AckedWriteIsLive ==
  \A w \in Workers : Acked(w, Writes) => req[w].mems \subseteq live

\* "Deleted means gone from reads" (ensure_many): a read never un-deletes a
\* row, whatever the provider still serves.
OnlyWritesRevive ==
  [][\A m \in buried \ buried' :
       \E w \in Workers : /\ pc[w] = "record" /\ pc'[w] # "record"
                          /\ m \in req[w].mems]_vars

\* A row is un-deleted only for a memory that "is genuinely back" at its
\* provider (record_many).
RevivedMeansBack == [][buried \ buried' \subseteq held']_vars

\* What the verbs do to memory_index is what IdMap says the catalog does (module
\* CatalogMap: so does _map): rows appear once, are hidden and shown again, and
\* none is ever removed ("Reads drop it; a re-write revives it", _GONE).
Rows == INSTANCE IdMap
          WITH Keys <- Memories, Gids <- Memories, NoGid <- None,
               gid <- [m \in Memories |-> IF m \in live \cup buried THEN m ELSE None],
               live <- live
RowsFollowIdMap == Rows!Spec

\* Providers that never answer a write with an id they had deleted.
Fresh == {m \in Memories : m[1] \notin Reuses}

\* The gateway hides nothing a provider still holds: a tombstone stands for a
\* memory that was removed.  (One that deduplicates brings a memory back in a
\* call whose row is revived a step later, or never if the request dies.)
TombstoneMeansGone == Fresh \cap buried \cap held = {}

\* An acknowledged erasure left nothing behind in its scope: no memory at the
\* provider, no row, no raw episode -- also when it finishes the work of an
\* earlier one that died half way ("a promise the gateway does not keep",
\* delete_journal).
ErasureIsComplete ==
  \A w \in Workers :
    LET r == req[w]
    IN  /\ Acked(w, {"delete_scope"}) =>
             /\ \A m \in held \cap At(r.provider) : ~Selects(r.scope, memScope[m])
             /\ \A m \in live \cap At(r.provider) : ~SelectsRow(r.scope, rowScope[m])
             /\ \A e \in journal : ~SelectsRow(r.scope, e.scope)
        /\ Acked(w, {"delete"}) => r.mems \cap (held \cup live) = {}

\* "the raw transcript outlived the erasure it was supposed to honour"
\* (test_delete_scope_also_erases_the_raw_episodes): once the memories of an
\* episode are erased by scope, the journal does not hold the episode.  (A
\* deduplicated memory may have moved to another scope than its episode's.)
NoTranscriptOutlivesErasure ==
  \A e \in journal : Fresh \cap e.mems \cap swept = {}

\* The request of w has overlapped one of these verbs (a write, unless w is a
\* rebind, only where its process has another default).
Met(w, verbs) == beside[w] \cap verbs # {}

\* What binds an end-user to a provider.
Binders == Writes \cup {"rebind"}

\* However requests overlap, the memories of an acknowledged write are where the
\* reads of its end-user look, unless a rebind or a write of another default
\* was in flight beside it: the provider is resolved once, before the first
\* await, and what bind answers is not looked at (resolve_provider, bind).
WritesSplitOnlyBesideBinders ==
  \A w \in Workers :
    Acked(w, Writes) => \/ binding[Owner(req[w].scope)] = req[w].provider
                        \/ Met(w, Binders)

\* Nor does the response of a listing or an erasure, which reads the binding a
\* second time, name another provider than the one that was asked, unless one
\* of those was in flight (list_memories, delete_memories).
MisnamedOnlyBesideBinders ==
  \A w \in Workers :
    Acked(w, {"list_scope", "delete_scope"}) => \/ req[w].named = req[w].provider
                                                \/ Met(w, Binders)

Stranded(o, p) == {m \in live : m[1] = p /\ Owner(rowScope[m]) = o}

\* What files or revives rows, and what buries them.
Fills == Writes \cup {"update", "search", "list_scope"}
Buries == {"delete", "delete_scope"}

\* "the response says how many were stranded" (README, rebind).  Its three
\* transactions take effect as one but for what is in flight beside it: it
\* replaces another binding than it read only beside a write or a rebind, it
\* counts too few only beside what files rows and too many only beside a
\* deletion (Catalog.rebind).
MiscountedOnlyBesideOthers ==
  [][\A w \in Workers : (pc[w] = "swap" /\ pc'[w] = "done") =>
       LET o == Owner(req[w].scope)
           stranded == Cardinality(Stranded(o, binding[o]))
       IN  /\ binding[o] # req[w].previous => Met(w, Binders)
           /\ binding[o] \notin {None, req[w].provider} =>
                /\ req[w].orphans < stranded => Met(w, Fills \cup {"rebind"})
                /\ req[w].orphans > stranded => Met(w, Buries \cup {"rebind"})]_vars

\* No request touches or returns a memory of another tenant: neither a gateway
\* id, nor a hit, nor a deduplicated write, nor an erasure reaches across.
RequestsStayInTheirTenant ==
  \A w \in Workers : pc[w] # "idle" =>
    \A m \in req[w].mems : memScope[m].tenant = req[w].tenant
=============================================================================
