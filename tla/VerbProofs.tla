------------------------------ MODULE VerbProofs ------------------------------
(***************************************************************************)
(* Whose memories a request of Gateway can come by, and what its rows say  *)
(* of them, whatever is in flight beside it; what writes and erasures      *)
(* promise an end-user, from what must not overlap them and beside all     *)
(* else; where writes go, whom responses name and what rebinds count, and  *)
(* which overlaps alone can make that go wrong.  All of it for any numbers *)
(* of tenants, end-users, requests, providers and memories, with providers *)
(* that lag, deduplicate and fail and requests that die.                   *)
(***************************************************************************)
EXTENDS GatewayProofs

\* The memories a provider has ever told anybody of.
Issued == held \cup gone

\* A memory is filed within a scope: under the same end-user, and where its
\* provider writes no old memory anew, under no wider scope.
Fits(s, m) ==
  /\ Owner(memScope[m]) = Owner(s)
  /\ m[1] \notin Reuses => SelectsRow(s, memScope[m])

RequestsFit ==
  \A w \in Workers : pc[w] # "idle" =>
    /\ req[w].tenant = req[w].scope.tenant
    /\ req[w].mems \subseteq Issued
    /\ \A m \in req[w].mems : Fits(req[w].scope, m)

RowsFit == \A m \in live \cup buried : m \in Issued /\ Fits(rowScope[m], m)

TenancyInv == TypeOK /\ RequestsFit /\ RowsFit

-----------------------------------------------------------------------------
(* What becomes of the memories there are.                                  *)

\* A row drops the labels of a scope, and nothing else.
LEMMA RowFits ==
  ASSUME NEW s \in Scope, NEW m, Fits(s, m)
  PROVE  Fits(OnRow(s), m)
  BY DEF Fits, OnRow, Scope, Owner, SelectsRow

LEMMA SelectedFits ==
  ASSUME NEW s, NEW m, Selects(s, memScope[m])
  PROVE  Fits(s, m)
  BY DEF Fits, Selects, SelectsRow

\* What a write stores is new, or was the same end-user's before.
LEMMA StoreKeeps ==
  ASSUME TypeOK, NEW p \in Providers, NEW s \in Scope,
         NEW M \in SUBSET Issuable(p, s), Store(M, s)
  PROVE  /\ Issued \subseteq Issued' /\ M \subseteq Issued'
         /\ \A m \in M : memScope'[m] = s
         /\ \A m \in Issued : Owner(memScope'[m]) = Owner(memScope[m])
         /\ \A m \in Issued : m[1] \notin Reuses => memScope'[m] = memScope[m]
         /\ \A m \in Fresh \cap Issued : m \in held' => m \in held
<1>1. M \subseteq Memories
  BY DEF Issuable, At
<1>2. /\ held' = held \cup M /\ gone' = gone \ M
      /\ \A m \in Memories : memScope'[m] = IF m \in M THEN s ELSE memScope[m]
  BY DEF Store
<1>3. Issued \subseteq Memories
  BY DEF Issued, TypeOK, ProviderTypeOK
<1>4. \A m \in M \cap Issued : p \in Reuses /\ m[1] = p /\ Owner(memScope[m]) = Owner(s)
  BY DEF Issuable, Issued, At
<1>5. \A m \in Issued : Owner(memScope'[m]) = Owner(memScope[m])
  BY <1>2, <1>3, <1>4
<1>6. \A m \in Fresh \cap Issued : m \notin M
  BY <1>4 DEF Fresh
<1> QED
  BY <1>1, <1>2, <1>3, <1>4, <1>5, <1>6 DEF Issued

\* No step takes a memory away from its end-user, and a memory of a provider
\* that issues no id twice does not come back.
LEMMA StepKeeps ==
  ASSUME TypeOK, NEW w \in Workers, ServesStep(w)
  PROVE  /\ Issued \subseteq Issued'
         /\ \A m \in Issued : Owner(memScope'[m]) = Owner(memScope[m])
         /\ \A m \in Issued : m[1] \notin Reuses => memScope'[m] = memScope[m]
         /\ \A m \in Fresh \cap Issued : m \in held' => m \in held
<1>1. CASE UNCHANGED providerVars
  BY <1>1 DEF providerVars, Issued
<1>2. CASE \E M : Forget(M)
  BY <1>2 DEF Forget, Issued
<1>3. CASE /\ pc[w] = "call"
           /\ \E M \in SUBSET Issuable(req[w].provider, req[w].scope) : Store(M, req[w].scope)
  <2>1. req[w].provider \in Providers /\ req[w].scope \in Scope
    BY <1>3 DEF TypeOK, RequestTypeOK, Request
  <2> QED
    BY <1>3, <2>1, StoreKeeps
<1>4. CASE WriteCall(w) \/ DeleteCall(w) \/ CallFails(w)
  BY <1>1, <1>2, <1>3, <1>4 DEF WriteCall, DeleteCall, CallFails, Calling, providerVars
<1>5. CASE ~(WriteCall(w) \/ DeleteCall(w) \/ CallFails(w))
  <2>1. UNCHANGED providerVars
    BY <1>5 DEF ServesStep, Begin, Prepare, FetchRow, RebindRead, Progress, UpdateCall, ReadCall,
       GetCall, Record, Bind, Journal, MapHits, Mark, EraseJournal, NameProvider, CountOrphans,
       SwapBinding, Reply, Abort, providerVars
  <2> QED
    BY <1>1, <2>1
<1> QED
  BY <1>4, <1>5

LEMMA FitsStays ==
  ASSUME TypeOK, NEW w \in Workers, ServesStep(w), NEW s, NEW m \in Issued, Fits(s, m)
  PROVE  m \in Issued' /\ Fits(s, m)'
  BY StepKeeps DEF Fits, SelectsRow

-----------------------------------------------------------------------------
(* The request that takes the step.                                         *)

Fitting(w) ==
  /\ req[w].tenant = req[w].scope.tenant
  /\ req[w].mems \subseteq Issued
  /\ \A m \in req[w].mems : Fits(req[w].scope, m)

LEMMA BeginFits ==
  ASSUME TenancyInv, NEW w \in Workers, Begin(w)
  PROVE  Fitting(w)'
<1> USE DEF TenancyInv
<1>1. ServesStep(w)
  BY DEF ServesStep
<1>2. ASSUME NEW verb \in Verbs \cap ScopeVerbs, NEW s \in Filters,
             NEW a \in Providers \cup {None}, Prepare(w, verb, s, a)
      PROVE  Fitting(w)'
  BY <1>2 DEF Prepare, Goto, Fitting, TypeOK, RequestTypeOK
<1>3. ASSUME NEW verb \in Verbs \cap IdVerbs, NEW t \in Tenants, NEW m \in Memories,
             FetchRow(w, verb, t, m)
      PROVE  Fitting(w)'
  <2>1. m \in Issued /\ Fits(rowScope[m], m) /\ rowScope[m].tenant = t
    BY <1>3 DEF FetchRow, VisibleTo, RowsFit
  <2>2. m \in Issued' /\ Fits(rowScope[m], m)'
    BY <1>3, <2>1 DEF FetchRow, providerVars, catalogVars, Issued, Fits
  <2>3. /\ req'[w].tenant = t /\ req'[w].scope = rowScope[m] /\ req'[w].mems = {m}
        /\ rowScope' = rowScope
    BY <1>3 DEF FetchRow, Goto, catalogVars, TypeOK, RequestTypeOK
  <2> QED
    BY <2>1, <2>2, <2>3 DEF Fitting, Fits
<1>4. ASSUME NEW o \in Owners, NEW p \in Providers, RebindRead(w, o, p)
      PROVE  Fitting(w)'
  BY <1>4 DEF RebindRead, Goto, Fitting, Everything, TypeOK, RequestTypeOK
<1> QED
  BY <1>2, <1>3, <1>4 DEF Begin

LEMMA CallFits ==
  ASSUME TenancyInv, NEW w \in Workers, pc[w] = "call", ServesStep(w),
         WriteCall(w) \/ UpdateCall(w) \/ ReadCall(w) \/ GetCall(w) \/ DeleteCall(w)
  PROVE  Fitting(w)'
<1> USE DEF TenancyInv
<1>1. /\ req[w] \in Request /\ req[w].scope \in Scope /\ req[w].provider \in Providers
      /\ Fitting(w)
  BY DEF TypeOK, RequestTypeOK, Request, RequestsFit, Fitting
<1>2. CASE WriteCall(w)
  <2>1. PICK M \in SUBSET Issuable(req[w].provider, req[w].scope) :
          /\ Store(M, req[w].scope)
          /\ Goto(w, "record", [req[w] EXCEPT !.mems = M])
    BY <1>2 DEF WriteCall
  <2>2. M \subseteq Issued' /\ \A m \in M : memScope'[m] = req[w].scope
    BY <1>1, <2>1, StoreKeeps
  <2>3. \A s \in Scope : SelectsRow(s, s)
    BY DEF SelectsRow
  <2>4. \A m \in M : Fits(req[w].scope, m)'
    <3> SUFFICES ASSUME NEW m \in M
                 PROVE  /\ Owner(memScope'[m]) = Owner(req[w].scope)'
                        /\ m[1] \notin Reuses => SelectsRow(req[w].scope, memScope[m])'
      BY DEF Fits
    <3>1. memScope'[m] = req[w].scope
      BY <2>2
    <3>2. req'[w].scope = req[w].scope
      BY <1>1, <2>1 DEF Goto, TypeOK, RequestTypeOK, Request
    <3> QED
      BY <1>1, <2>3, <3>1, <3>2 DEF SelectsRow
  <2>5. req'[w] = [req[w] EXCEPT !.mems = M]
    BY <2>1 DEF Goto, TypeOK, RequestTypeOK
  <2>6. req'[w].mems = M /\ req'[w].scope = req[w].scope /\ req'[w].tenant = req[w].tenant
    BY <1>1, <2>5 DEF Request
  <2> QED
    BY <1>1, <2>2, <2>4, <2>6 DEF Fitting
<1>3. CASE UpdateCall(w) \/ GetCall(w)
  <2>1. req'[w] = req[w] /\ UNCHANGED <<held, gone, memScope>>
    BY <1>3 DEF UpdateCall, GetCall, Goto, providerVars, TypeOK, RequestTypeOK
  <2> QED
    BY <1>1, <2>1 DEF Fitting, Fits, Issued
<1>4. CASE ReadCall(w)
  <2>1. PICK M \in SUBSET Findable(req[w]) : Goto(w, "map", [req[w] EXCEPT !.mems = M])
    BY <1>4 DEF ReadCall
  <2>2. /\ req'[w] = [req[w] EXCEPT !.mems = M] /\ UNCHANGED <<held, gone, memScope>>
    BY <1>4, <2>1 DEF ReadCall, Goto, providerVars, TypeOK, RequestTypeOK
  <2>3. M \subseteq Issued /\ \A m \in M : Fits(req[w].scope, m)
    BY SelectedFits DEF Findable, Issued
  <2>4. req'[w].mems = M /\ req'[w].scope = req[w].scope /\ req'[w].tenant = req[w].tenant
    BY <1>1, <2>2 DEF Request
  <2> QED
    BY <1>1, <2>2, <2>3, <2>4 DEF Fitting, Fits, Issued
<1>5. CASE DeleteCall(w)
  <2>1. /\ req'[w] = [req[w] EXCEPT !.mems = Doomed(req[w])] /\ Forget(Doomed(req[w]))
    BY <1>5 DEF DeleteCall, Goto, TypeOK, RequestTypeOK
  <2>2. Issued \subseteq Issued' /\ UNCHANGED memScope
    BY <2>1 DEF Forget, Issued
  <2>3. Doomed(req[w]) \subseteq Issued /\ \A m \in Doomed(req[w]) : Fits(req[w].scope, m)
    BY <1>1, SelectedFits DEF Doomed, Fitting, Issued
  <2>4. /\ req'[w].mems = Doomed(req[w]) /\ req'[w].scope = req[w].scope
        /\ req'[w].tenant = req[w].tenant
    BY <1>1, <2>1 DEF Request
  <2> QED
    BY <1>1, <2>2, <2>3, <2>4 DEF Fitting, Fits
<1> QED
  BY <1>2, <1>3, <1>4, <1>5

LEMMA TransactionFits ==
  ASSUME TenancyInv, NEW w \in Workers,
         Record(w) \/ Bind(w) \/ Journal(w) \/ MapHits(w) \/ Mark(w)
           \/ EraseJournal(w) \/ NameProvider(w) \/ CountOrphans(w) \/ SwapBinding(w)
  PROVE  Fitting(w)'
<1>1. req[w] \in Request /\ Fitting(w)
  BY DEF Record, Bind, Journal, MapHits, Mark, EraseJournal, NameProvider, CountOrphans,
     SwapBinding, TenancyInv, TypeOK, RequestTypeOK, RequestsFit, Fitting
<1>2. UNCHANGED <<held, gone, memScope>>
  BY DEF Record, Bind, Journal, MapHits, Mark, EraseJournal, NameProvider, CountOrphans,
     SwapBinding, providerVars
<1>3. \/ req'[w] = req[w]
      \/ req'[w] = [req[w] EXCEPT !.mems = @ \ buried]
      \/ \E n : req'[w] = [req[w] EXCEPT !.orphans = n]
      \/ \E p : req'[w] = [req[w] EXCEPT !.named = p]
  BY DEF Record, Bind, Journal, MapHits, Mark, EraseJournal, NameProvider, CountOrphans,
     SwapBinding, Goto, TenancyInv, TypeOK, RequestTypeOK
<1>4. /\ req'[w].tenant = req[w].tenant /\ req'[w].scope = req[w].scope
      /\ req'[w].mems \subseteq req[w].mems
  BY <1>1, <1>3 DEF Request
<1> QED
  BY <1>1, <1>2, <1>4 DEF Fitting, Fits, Issued

LEMMA RequestsStep ==
  ASSUME TenancyInv, NEW w \in Workers, ServesStep(w)
  PROVE  RequestsFit'
<1>1. ASSUME NEW v \in Workers \ {w}, pc'[v] # "idle" PROVE Fitting(v)'
  <2>1. pc[v] # "idle" /\ req'[v] = req[v]
    BY <1>1, OthersStay DEF TenancyInv
  <2>2. Fitting(v)
    BY <2>1 DEF TenancyInv, RequestsFit, Fitting
  <2>3. \A m \in req[v].mems : m \in Issued' /\ Fits(req[v].scope, m)'
    BY <2>1, <2>2, FitsStays DEF Fitting, Fits, TenancyInv
  <2> QED
    BY <2>1, <2>2, <2>3 DEF Fitting, Fits
<1>2. ASSUME pc'[w] # "idle" PROVE Fitting(w)'
  <2>1. ~(CallFails(w) \/ Reply(w) \/ Abort(w))
    BY <1>2 DEF CallFails, Reply, Abort, Leave, Goto, TenancyInv, TypeOK, RequestTypeOK
  <2> QED
    BY <2>1, BeginFits, CallFits, TransactionFits, CallsAreAtCall DEF ServesStep, Progress
<1> QED
  BY <1>1, <1>2 DEF RequestsFit, Fitting

LEMMA RowsStep ==
  ASSUME TenancyInv, NEW w \in Workers, ServesStep(w)
  PROVE  RowsFit'
<1> USE DEF TenancyInv
<1>1. ASSUME NEW m \in live \cup buried, rowScope'[m] = rowScope[m]
      PROVE  m \in Issued' /\ Fits(rowScope[m], m)'
  BY <1>1, FitsStays DEF RowsFit, Fits
<1>2. CASE live' \cup buried' \subseteq live \cup buried /\ UNCHANGED rowScope
  BY <1>1, <1>2 DEF RowsFit
<1>3. ASSUME NEW M, NEW revive, M = req[w].mems, pc[w] # "idle",
             MapRows(M, req[w].scope, revive), UNCHANGED providerVars
      PROVE  RowsFit'
  <2>1. req[w].scope \in Scope /\ M \subseteq Issued /\ M \subseteq Memories
    BY <1>3 DEF RequestsFit, TypeOK, RequestTypeOK, Request
  <2>2. \A m \in M : Fits(OnRow(req[w].scope), m)
    BY <1>3, <2>1, RowFits DEF RequestsFit
  <2>3. /\ live' \cup buried' \subseteq live \cup buried \cup M
        /\ Rewritten(M, revive) \subseteq M
        /\ \A m \in Memories : rowScope'[m] = IF m \in Rewritten(M, revive)
                                              THEN OnRow(req[w].scope) ELSE rowScope[m]
        /\ live' \cup buried' \subseteq live \cup buried \cup Rewritten(M, revive)
    BY <1>3 DEF MapRows, Rewritten
  <2>4. live \cup buried \subseteq Memories
    BY DEF TypeOK, CatalogTypeOK
  <2>5. Issued' = Issued /\ memScope' = memScope
    BY <1>3 DEF providerVars, Issued
  <2>6. ASSUME NEW m \in live' \cup buried'
        PROVE  m \in Issued /\ Fits(rowScope'[m], m)
    <3>1. CASE m \in Rewritten(M, revive)
      BY <2>1, <2>2, <2>3, <3>1
    <3>2. CASE m \notin Rewritten(M, revive)
      BY <2>3, <2>4, <2>6, <3>2 DEF RowsFit
    <3> QED
      BY <3>1, <3>2
  <2> QED
    BY <2>5, <2>6 DEF RowsFit, Fits
<1>4. CASE Record(w) \/ MapHits(w)
  BY <1>3, <1>4 DEF Record, MapHits
<1>5. CASE ~(Record(w) \/ MapHits(w))
  <2>1. live' \cup buried' \subseteq live \cup buried /\ UNCHANGED rowScope
    BY <1>5 DEF ServesStep, Begin, Prepare, FetchRow, RebindRead, Progress, WriteCall, UpdateCall,
       ReadCall, GetCall, DeleteCall, CallFails, Bind, Journal, Mark, Dead, EraseJournal,
       NameProvider, CountOrphans, SwapBinding, Reply, Abort, catalogVars
  <2> QED
    BY <1>2, <2>1
<1> QED
  BY <1>4, <1>5

LEMMA InitTenancy == Init => TenancyInv
  BY InitType DEF TenancyInv, Init, RequestsFit, RowsFit

LEMMA NextTenancy == TenancyInv /\ [Next]_vars => TenancyInv'
<1> SUFFICES ASSUME TenancyInv, [Next]_vars PROVE TenancyInv'
  OBVIOUS
<1>1. CASE UNCHANGED vars
  BY <1>1, NextType DEF TenancyInv, RequestsFit, RowsFit, Fits, Issued, vars, catalogVars,
     providerVars
<1>2. ASSUME NEW w \in Workers, ServesStep(w) PROVE TenancyInv'
  BY <1>2, NextType, RequestsStep, RowsStep DEF TenancyInv
<1> QED
  BY <1>1, <1>2 DEF Next, ServesStep

\* No interleaving of requests, failures, lagging reads and deduplicated writes
\* brings a request to a memory of another tenant (Scope.under, resolve_gateway_id).
THEOREM TenantsStayApart == Spec => []RequestsStayInTheirTenant
<1>1. TenancyInv => RequestsStayInTheirTenant
  BY DEF TenancyInv, RequestsFit, Fits, Owner, RequestsStayInTheirTenant
<1> QED
  BY <1>1, InitTenancy, NextTenancy, PTL DEF Spec

\* Where no provider writes an old memory anew, a row is filed no narrower than
\* its memory: whichever request recorded it first (_records, _map_hits).
THEOREM RowsCoverTheirMemories ==
  ASSUME Reuses = {}
  PROVE  Spec => []RowScopeCoversMemory
<1>1. TenancyInv => RowScopeCoversMemory
  <2> SUFFICES ASSUME TenancyInv, NEW m \in live \cup buried
               PROVE  memScope[m] # None /\ SelectsRow(rowScope[m], memScope[m])
    BY DEF RowScopeCoversMemory
  <2>1. m \in Issued /\ Fits(rowScope[m], m)
    BY DEF TenancyInv, RowsFit
  <2>2. memScope[m] \in Scope
    BY <2>1 DEF TenancyInv, TypeOK, ProviderTypeOK, Issued
  <2> QED
    BY <2>1, <2>2, ScopesAssumption DEF Fits
<1> QED
  BY <1>1, InitTenancy, NextTenancy, PTL DEF Spec

-----------------------------------------------------------------------------
(* Tombstones.                                                              *)

\* A memory about to be marked deleted has gone, and so have those that are.
MarkedAreGone ==
  /\ \A w \in Workers : pc[w] = "mark" => Fresh \cap req[w].mems \cap held = {}
  /\ TombstoneMeansGone

TombstoneInv == TenancyInv /\ VerbsAreAtTheirAwaits /\ MarkedAreGone

LEMMA NextTombstone ==
  ASSUME "delete_scope" \notin Verbs
  PROVE  TombstoneInv /\ [Next]_vars => TombstoneInv'
<1> SUFFICES ASSUME TombstoneInv, [Next]_vars PROVE TombstoneInv'
  OBVIOUS
<1>t. TenancyInv /\ TypeOK /\ TenancyInv'
  BY NextTenancy DEF TombstoneInv, TenancyInv
<1>1. CASE UNCHANGED vars
  BY <1>1, <1>t DEF TombstoneInv, VerbsAreAtTheirAwaits, MarkedAreGone, TombstoneMeansGone, vars,
     catalogVars, providerVars
<1>2. ASSUME NEW w \in Workers, ServesStep(w) PROVE TombstoneInv'
  <2>1. \A m \in Fresh \cap Issued : m \in held' => m \in held
    BY <1>t, <1>2, StepKeeps
  <2>2. ASSUME NEW v \in Workers \ {w}, pc'[v] = "mark"
        PROVE  Fresh \cap req'[v].mems \cap held' = {}
    <3>1. pc[v] = "mark" /\ req'[v] = req[v]
      BY <1>t, <1>2, <2>2, OthersStay
    <3>2. req[v].mems \subseteq Issued
      BY <1>t, <3>1 DEF TenancyInv, RequestsFit
    <3> QED
      BY <2>1, <3>1, <3>2 DEF TombstoneInv, MarkedAreGone
  <2>3. ASSUME pc'[w] = "mark" PROVE Fresh \cap req'[w].mems \cap held' = {}
    <3>1. DeleteCall(w)
      BY <1>t, <1>2, <2>3 DEF ServesStep, Begin, Prepare, FetchRow, RebindRead, Progress, WriteCall,
         UpdateCall, ReadCall, GetCall, CallFails, Record, AfterRecord, Bind, AfterBind, Journal,
         MapHits, Mark, EraseJournal, NameProvider, CountOrphans, SwapBinding, Reply, Abort, Leave,
         Goto, TypeOK, RequestTypeOK
    <3>2. req[w] \in Request /\ req'[w] = [req[w] EXCEPT !.mems = Doomed(req[w])]
      BY <1>t, <3>1 DEF DeleteCall, Calling, Goto, TypeOK, RequestTypeOK
    <3>3. req'[w].mems = Doomed(req[w])
      BY <3>2 DEF Request
    <3> QED
      BY <3>1, <3>3 DEF DeleteCall, Forget
  <2>4. TombstoneMeansGone'
    <3>1. CASE Mark(w)
      <4>1. req[w] \in Request /\ req[w].verb = "delete"
        BY <1>t, <3>1, GatewayAssumption DEF Mark, TombstoneInv, VerbsAreAtTheirAwaits, VerbsAt,
           TypeOK, RequestTypeOK, Request
      <4>2. buried' = buried \cup (req[w].mems \cap live) /\ held' = held
        BY <3>1, <4>1 DEF Mark, Dead, providerVars
      <4>3. Fresh \cap req[w].mems \cap held = {}
        BY <3>1 DEF Mark, TombstoneInv, MarkedAreGone
      <4> QED
        BY <4>2, <4>3 DEF TombstoneInv, MarkedAreGone, TombstoneMeansGone, Fresh
    <3>2. CASE ~Mark(w)
      <4>1. buried' \subseteq buried
        BY <1>2, <3>2 DEF ServesStep, Begin, Prepare, FetchRow, RebindRead, Progress, WriteCall,
           UpdateCall, ReadCall, GetCall, DeleteCall, CallFails, Record, MapHits, MapRows, Bind,
           Journal, EraseJournal, NameProvider, CountOrphans, SwapBinding, Reply, Abort, catalogVars
      <4>2. buried \subseteq Issued
        BY <1>t DEF TenancyInv, RowsFit
      <4> QED
        BY <2>1, <4>1, <4>2 DEF TombstoneInv, MarkedAreGone, TombstoneMeansGone, Fresh
    <3> QED
      BY <3>1, <3>2
  <2>5. VerbsAreAtTheirAwaits'
    BY <1>t, <1>2, VerbsStep DEF TombstoneInv
  <2> QED
    BY <1>t, <2>2, <2>3, <2>4, <2>5 DEF TombstoneInv, MarkedAreGone
<1> QED
  BY <1>1, <1>2 DEF Next, ServesStep

\* As long as nobody erases by scope, a tombstone stands for a memory that was
\* removed, whatever deletions, updates and lagging reads it raced with (delete).
THEOREM TombstonesMeanGone ==
  ASSUME "delete_scope" \notin Verbs
  PROVE  Spec => []TombstoneMeansGone
<1>1. Init => TombstoneInv
  BY InitTenancy, InitBinding DEF Init, TombstoneInv, BindingInv, MarkedAreGone, TombstoneMeansGone
<1>2. TombstoneInv => TombstoneMeansGone
  BY DEF TombstoneInv, MarkedAreGone
<1> QED
  BY <1>1, <1>2, NextTombstone, PTL DEF Spec

\* A row is un-deleted by the catalog's part of a write or an update alone:
\* never by a read, however stale what the provider served (ensure_many).
THEOREM ReadsReviveNothing == Spec => OnlyWritesRevive
<1>1. ASSUME TypeOK, [Next]_vars, NEW m \in buried \ buried'
      PROVE  \E w \in Workers : /\ pc[w] = "record" /\ pc'[w] # "record"
                                /\ m \in req[w].mems
  <2>1. PICK w \in Workers : ServesStep(w)
    BY <1>1 DEF Next, ServesStep, vars, catalogVars
  <2>2. CASE Record(w)
    <3>1. pc[w] = "record" /\ pc'[w] # "record"
      BY <1>1, <2>2 DEF Record, AfterRecord, Goto, TypeOK, RequestTypeOK
    <3>2. m \in req[w].mems
      BY <1>1, <2>2 DEF Record, MapRows, Rewritten
    <3> QED
      BY <3>1, <3>2
  <2>3. CASE MapHits(w)
    BY <1>1, <2>3 DEF MapHits, MapRows, Rewritten
  <2>4. CASE ~(Record(w) \/ MapHits(w))
    BY <1>1, <2>1, <2>4 DEF ServesStep, Begin, Prepare, FetchRow, RebindRead, Progress, WriteCall,
       UpdateCall, ReadCall, GetCall, DeleteCall, CallFails, Bind, Journal, Mark, EraseJournal,
       NameProvider, CountOrphans, SwapBinding, Reply, Abort, catalogVars
  <2> QED
    BY <2>2, <2>3, <2>4
<1>2. TypeOK /\ [Next]_vars =>
        [\A m \in buried \ buried' :
           \E w \in Workers : /\ pc[w] = "record" /\ pc'[w] # "record"
                              /\ m \in req[w].mems]_vars
  BY <1>1
<1> QED
  BY <1>2, TypeCorrect, PTL DEF Spec, OnlyWritesRevive
-----------------------------------------------------------------------------
(* The promises that other requests about the same end-user can break in    *)
(* between, and that nothing else breaks: no request about another          *)
(* end-user, no failure, no death half way and no provider.  First, what a  *)
(* verb has achieved at each of its awaits.                                 *)

\* What a write has in its hands is held, then has its rows; and until it has
\* been journalled nobody has erased it or written it otherwise.
WriteSoFar(w) ==
  /\ pc[w] = "record" => req[w].mems \subseteq held
  /\ pc[w] \in {"bind", "journal", "done"} /\ req[w].verb \in Writes => req[w].mems \subseteq live
  /\ pc[w] \in {"record", "bind", "journal"} /\ req[w].verb \in Writes =>
       /\ req[w].mems \cap swept = {}
       /\ \A m \in Fresh \cap req[w].mems : memScope[m] = req[w].scope

\* The provider's part of an erasure, the rows' and the journal's, each once
\* it is done.
ErasureSoFar(w) ==
  /\ pc[w] \in {"mark", "done"} /\ req[w].verb = "delete" => req[w].mems \cap held = {}
  /\ pc[w] = "done" /\ req[w].verb = "delete" => req[w].mems \cap live = {}
  /\ pc[w] \in {"mark", "erase", "name", "done"} /\ req[w].verb = "delete_scope" =>
       \A m \in held \cap At(req[w].provider) : ~Selects(req[w].scope, memScope[m])
  /\ pc[w] \in {"erase", "name", "done"} /\ req[w].verb = "delete_scope" =>
       \A m \in live \cap At(req[w].provider) : ~SelectsRow(req[w].scope, rowScope[m])
  /\ pc[w] \in {"name", "done"} /\ req[w].verb = "delete_scope" =>
       \A e \in journal : ~SelectsRow(req[w].scope, e.scope)
  /\ pc[w] \in {"mark", "erase"} /\ req[w].verb = "delete_scope" =>
       \A m \in req[w].mems : Selects(req[w].scope, memScope[m])

\* An episode is filed where its memories were written.
EpisodesFit ==
  \A e \in journal : \A m \in Fresh \cap e.mems : m \in Issued /\ OnRow(memScope[m]) = e.scope

\* What an id named had a row, and no row is ever removed.
IdsHaveRows ==
  \A w \in Workers : pc[w] # "idle" /\ req[w].verb \in IdVerbs =>
    req[w].mems \subseteq live \cup buried

ErasureInv ==
  /\ TenancyInv
  /\ BindingInv
  /\ \A w \in Workers : WriteSoFar(w) /\ ErasureSoFar(w)
  /\ IdsHaveRows
  /\ EpisodesFit
  /\ NoTranscriptOutlivesErasure

\* By which steps a request comes to each of its awaits.
LEMMA Arrivals ==
  ASSUME TypeOK, NEW w \in Workers, ServesStep(w)
  PROVE  /\ pc'[w] = "record" => WriteCall(w) \/ UpdateCall(w)
         /\ pc'[w] = "bind" => Record(w)
         /\ pc'[w] = "journal" => Bind(w)
         /\ pc'[w] = "map" => ReadCall(w)
         /\ pc'[w] = "mark" => DeleteCall(w)
         /\ pc'[w] = "erase" => Mark(w)
         /\ pc'[w] = "name" => MapHits(w) \/ EraseJournal(w)
         /\ pc'[w] = "count" => Begin(w)
         /\ pc'[w] = "swap" => Begin(w) \/ CountOrphans(w)
         /\ pc'[w] = "done" => \/ GetCall(w) \/ Record(w) \/ Bind(w) \/ Journal(w) \/ MapHits(w)
                               \/ Mark(w) \/ NameProvider(w) \/ SwapBinding(w)
<1>1. CASE Begin(w)
  BY <1>1 DEF Begin, Prepare, FetchRow, RebindRead, Goto, TypeOK, RequestTypeOK
<1>2. CASE CallFails(w) \/ Reply(w) \/ Abort(w)
  BY <1>2 DEF CallFails, Reply, Abort, Leave, Goto, TypeOK, RequestTypeOK
<1>3. CASE WriteCall(w) \/ UpdateCall(w) \/ ReadCall(w) \/ GetCall(w) \/ DeleteCall(w)
  BY <1>3 DEF WriteCall, UpdateCall, ReadCall, GetCall, DeleteCall, Goto, TypeOK, RequestTypeOK
<1>4. CASE Record(w) \/ Bind(w) \/ Journal(w) \/ MapHits(w) \/ Mark(w)
  BY <1>4 DEF Record, AfterRecord, Bind, AfterBind, Journal, MapHits, Mark, Goto, TypeOK,
     RequestTypeOK
<1>5. CASE EraseJournal(w) \/ NameProvider(w) \/ CountOrphans(w) \/ SwapBinding(w)
  BY <1>5 DEF EraseJournal, NameProvider, CountOrphans, SwapBinding, Goto, TypeOK, RequestTypeOK
<1> QED
  BY <1>1, <1>2, <1>3, <1>4, <1>5 DEF ServesStep, Progress

\* What a request is about stays the same until it is answered.
LEMMA SameRequest ==
  ASSUME TypeOK, NEW w \in Workers, Progress(w), pc'[w] # "idle"
  PROVE  /\ pc[w] # "idle" /\ req[w] \in Request
         /\ req'[w].verb = req[w].verb /\ req'[w].scope = req[w].scope
         /\ req'[w].provider = req[w].provider /\ req'[w].previous = req[w].previous
<1>1. ~(CallFails(w) \/ Reply(w))
  BY DEF CallFails, Reply, Leave, Goto, TypeOK, RequestTypeOK
<1>2. pc[w] # "idle" /\ req[w] \in Request
  BY <1>1 DEF Progress, WriteCall, UpdateCall, ReadCall, GetCall, DeleteCall, Calling, Record, Bind,
     Journal, MapHits, Mark, EraseJournal, NameProvider, CountOrphans, SwapBinding, TypeOK,
     RequestTypeOK
<1>3. \/ req'[w] = req[w]
      \/ \E M : req'[w] = [req[w] EXCEPT !.mems = M]
      \/ \E n : req'[w] = [req[w] EXCEPT !.orphans = n]
      \/ \E q : req'[w] = [req[w] EXCEPT !.named = q]
  BY <1>1 DEF Progress, WriteCall, UpdateCall, ReadCall, GetCall, DeleteCall, Record, Bind, Journal,
     MapHits, Mark, EraseJournal, NameProvider, CountOrphans, SwapBinding, Goto, TypeOK,
     RequestTypeOK
<1> QED
  BY <1>2, <1>3 DEF Request

LEMMA WriteSoFarStep ==
  ASSUME BindingInv, NEW w \in Workers, ServesStep(w), WriteSoFar(w)
  PROVE  WriteSoFar(w)'
<1>t. TypeOK /\ VerbsAreAtTheirAwaits
  BY DEF BindingInv
<1>1. CASE pc'[w] = "record"
  <2>1. CASE WriteCall(w)
    <3>1. PICK M \in SUBSET Issuable(req[w].provider, req[w].scope) :
            Store(M, req[w].scope) /\ Goto(w, "record", [req[w] EXCEPT !.mems = M])
      BY <2>1 DEF WriteCall
    <3>2. req'[w].mems = M /\ req'[w].scope = req[w].scope /\ M \subseteq Memories
      BY <1>t, <2>1, <3>1 DEF WriteCall, Calling, Goto, Issuable, At, TypeOK, RequestTypeOK, Request
    <3> QED
      BY <1>1, <3>1, <3>2 DEF Store, WriteSoFar
  <2>2. CASE UpdateCall(w)
    <3>1. req'[w] = req[w] /\ req[w].verb = "update" /\ req[w].mems \subseteq held /\ held' = held
      BY <1>t, <2>2 DEF UpdateCall, Calling, Goto, providerVars, TypeOK, RequestTypeOK
    <3> QED
      BY <1>1, <3>1 DEF WriteSoFar, Writes
  <2> QED
    BY <1>1, <1>t, <2>1, <2>2, Arrivals
<1>2. CASE pc'[w] \in {"bind", "journal", "done"} /\ req'[w].verb \in Writes
  <2>1. CASE Record(w)
    <3>1. /\ pc[w] = "record" /\ req'[w] = req[w]
          /\ live' = live \cup Rewritten(req[w].mems, TRUE)
          /\ UNCHANGED <<held, gone, memScope, swept>>
      BY <1>t, <2>1 DEF Record, MapRows, Goto, providerVars, TypeOK, RequestTypeOK
    <3>2. req[w].mems \subseteq live'
      BY <3>1 DEF Rewritten
    <3> QED
      BY <1>2, <3>1, <3>2 DEF WriteSoFar
  <2>2. CASE Bind(w) \/ Journal(w)
    <3>1. /\ pc[w] \in {"bind", "journal"} /\ req'[w] = req[w]
          /\ UNCHANGED <<live, held, gone, memScope, swept>>
      BY <1>t, <2>2 DEF Bind, Journal, Goto, providerVars, TypeOK, RequestTypeOK
    <3> QED
      BY <1>2, <3>1 DEF WriteSoFar
  <2>3. pc'[w] = "done" => Bind(w) \/ Journal(w)
    <3>1. pc[w] = "journal" => Journal(w) \/ Abort(w)
      BY <1>t DEF ServesStep, Begin, Prepare, FetchRow, RebindRead, Progress, WriteCall, UpdateCall,
         ReadCall, GetCall, DeleteCall, CallFails, Calling, Record, Bind, MapHits, Mark, EraseJournal,
         NameProvider, CountOrphans, SwapBinding, Reply
    <3>2. pc'[w] = "done" => ~Abort(w)
      BY <1>t DEF Abort, Leave, Goto, TypeOK, RequestTypeOK
    <3> QED
      BY <1>2, <1>t, <3>1, <3>2, WriteIsBoundByBind
  <2> QED
    BY <1>2, <1>t, <2>1, <2>2, <2>3, Arrivals
<1>3. CASE /\ pc'[w] # "record"
           /\ ~(pc'[w] \in {"bind", "journal", "done"} /\ req'[w].verb \in Writes)
  BY <1>3 DEF WriteSoFar
<1> QED
  BY <1>1, <1>2, <1>3

\* What a deletion leaves at the provider is not what it was asked to delete.
LEMMA DeleteCallErases ==
  ASSUME TypeOK, NEW w \in Workers, DeleteCall(w)
  PROVE  ErasureSoFar(w)'
<1>1. /\ req[w] \in Request /\ req'[w] = [req[w] EXCEPT !.mems = Doomed(req[w])]
      /\ pc'[w] = "mark" /\ held' = held \ Doomed(req[w]) /\ memScope' = memScope
  BY DEF DeleteCall, Calling, Forget, Goto, TypeOK, RequestTypeOK
<1>2. /\ req'[w].mems = Doomed(req[w]) /\ req'[w].scope = req[w].scope
      /\ req'[w].verb = req[w].verb /\ req'[w].provider = req[w].provider
  BY <1>1 DEF Request
<1>3. req[w].verb = "delete_scope" =>
        Doomed(req[w]) = {m \in held \cap At(req[w].provider) : Selects(req[w].scope, memScope[m])}
  BY DEF Doomed
<1>4. req'[w].verb = "delete_scope" =>
        /\ \A m \in held' \cap At(req[w].provider) : ~Selects(req[w].scope, memScope[m])
        /\ \A m \in req'[w].mems : Selects(req[w].scope, memScope[m])
  BY <1>1, <1>2, <1>3
<1> QED
  BY <1>1, <1>2, <1>4 DEF ErasureSoFar

LEMMA MarkErases ==
  ASSUME TypeOK, NEW w \in Workers, Mark(w), ErasureSoFar(w)
  PROVE  ErasureSoFar(w)'
<1>1. /\ pc[w] = "mark" /\ req[w] \in Request /\ req'[w] = req[w]
      /\ pc'[w] = IF req[w].verb = "delete" THEN "done" ELSE "erase"
      /\ live' = live \ Dead(req[w])
      /\ UNCHANGED <<rowScope, held, memScope>>
  BY DEF Mark, Goto, providerVars, TypeOK, RequestTypeOK
<1>2. req[w].verb = "delete" => req[w].mems \cap live' = {}
  BY <1>1 DEF Dead
<1>3. req[w].verb = "delete_scope" =>
        \A m \in live' \cap At(req[w].provider) : ~SelectsRow(req[w].scope, rowScope[m])
  BY <1>1 DEF Dead
<1> QED
  BY <1>1, <1>2, <1>3 DEF ErasureSoFar

LEMMA ErasureSoFarStep ==
  ASSUME BindingInv, NEW w \in Workers, ServesStep(w), ErasureSoFar(w)
  PROVE  ErasureSoFar(w)'
<1>t. TypeOK /\ VerbsAreAtTheirAwaits /\ VerbsAreAtTheirAwaits'
  BY VerbsStep DEF BindingInv
<1>1. CASE DeleteCall(w)
  BY <1>1, <1>t, DeleteCallErases
<1>2. CASE Mark(w)
  BY <1>2, <1>t, MarkErases
<1>3. CASE EraseJournal(w)
  <2>1. /\ pc[w] = "erase" /\ pc'[w] = "name" /\ req'[w] = req[w]
        /\ UNCHANGED <<live, rowScope, held, memScope>>
        /\ \A e \in journal' : ~SelectsRow(req[w].scope, e.scope)
    BY <1>t, <1>3 DEF EraseJournal, Episodes, Goto, providerVars, TypeOK, RequestTypeOK
  <2>2. req[w].verb = "delete_scope"
    BY <1>t, <2>1 DEF VerbsAreAtTheirAwaits, VerbsAt
  <2> QED
    BY <2>1, <2>2 DEF ErasureSoFar
<1>4. CASE NameProvider(w)
  <2>1. /\ pc[w] = "name" /\ pc'[w] = "done" /\ req[w] \in Request
        /\ req'[w] = [req[w] EXCEPT !.named = NamedFor(w, Owner(req[w].scope))]
        /\ UNCHANGED <<live, rowScope, journal, held, memScope>>
    BY <1>t, <1>4 DEF NameProvider, Goto, catalogVars, providerVars, TypeOK, RequestTypeOK
  <2>2. /\ req'[w].verb = req[w].verb /\ req'[w].mems = req[w].mems
        /\ req'[w].scope = req[w].scope /\ req'[w].provider = req[w].provider
    BY <2>1 DEF Request
  <2>3. req[w].verb # "delete"
    BY <1>t, <2>1 DEF VerbsAreAtTheirAwaits, VerbsAt
  <2> QED
    BY <2>1, <2>2, <2>3 DEF ErasureSoFar
<1>5. CASE ~(DeleteCall(w) \/ Mark(w) \/ EraseJournal(w) \/ NameProvider(w))
  <2>1. pc'[w] \notin {"mark", "erase"}
    BY <1>t, <1>5, Arrivals
  <2>2. ASSUME pc'[w] \in {"name", "done"} PROVE req'[w].verb \notin {"delete", "delete_scope"}
    <3>1. GetCall(w) \/ Record(w) \/ Bind(w) \/ Journal(w) \/ MapHits(w) \/ SwapBinding(w)
      BY <1>t, <1>5, <2>2, Arrivals
    <3>2. req[w].verb \notin {"delete", "delete_scope"}
      BY <1>t, <3>1 DEF GetCall, Calling, Record, Bind, Journal, MapHits, SwapBinding,
         VerbsAreAtTheirAwaits, VerbsAt, Writes
    <3>3. req'[w].verb = req[w].verb
      BY <1>t, <2>2, <3>1, SameRequest DEF Progress
    <3> QED
      BY <3>2, <3>3
  <2> QED
    BY <2>1, <2>2 DEF ErasureSoFar
<1> QED
  BY <1>1, <1>2, <1>3, <1>4, <1>5

LEMMA EpisodesFitStep ==
  ASSUME TenancyInv, BindingInv, EpisodesFit, NEW w \in Workers, ServesStep(w), WriteSoFar(w)
  PROVE  EpisodesFit'
<1>t. TypeOK /\ VerbsAreAtTheirAwaits
  BY DEF BindingInv
<1>k. \A m \in Fresh \cap Issued : m \in Issued' /\ memScope'[m] = memScope[m]
  BY <1>t, StepKeeps DEF Fresh
<1>1. CASE Journal(w)
  <2>1. /\ pc[w] = "journal" /\ UNCHANGED <<held, gone, memScope>>
        /\ journal' = journal \cup {[scope |-> OnRow(req[w].scope), mems |-> req[w].mems]}
    BY <1>1 DEF Journal, providerVars
  <2>2. \A m \in Fresh \cap req[w].mems : m \in Issued /\ memScope[m] = req[w].scope
    BY <1>t, <2>1 DEF TenancyInv, RequestsFit, WriteSoFar, VerbsAreAtTheirAwaits, VerbsAt, Writes
  <2> QED
    BY <2>1, <2>2 DEF EpisodesFit, Issued
<1>2. CASE ~Journal(w)
  <2>1. journal' \subseteq journal
    BY <1>2 DEF ServesStep, Begin, Prepare, FetchRow, RebindRead, Progress, WriteCall, UpdateCall,
       ReadCall, GetCall, DeleteCall, CallFails, Record, Bind, MapHits, Mark, EraseJournal,
       NameProvider, CountOrphans, SwapBinding, Reply, Abort, catalogVars
  <2> QED
    BY <2>1, <1>k DEF EpisodesFit
<1> QED
  BY <1>1, <1>2

LEMMA TranscriptStep ==
  ASSUME TenancyInv, BindingInv, EpisodesFit, NoTranscriptOutlivesErasure,
         NEW w \in Workers, ServesStep(w), WriteSoFar(w), ErasureSoFar(w)
  PROVE  NoTranscriptOutlivesErasure'
<1>t. TypeOK /\ VerbsAreAtTheirAwaits
  BY DEF BindingInv
<1>1. CASE Journal(w)
  <2>1. /\ pc[w] = "journal" /\ swept' = swept
        /\ journal' = journal \cup {[scope |-> OnRow(req[w].scope), mems |-> req[w].mems]}
    BY <1>1 DEF Journal
  <2>2. req[w].mems \cap swept = {}
    BY <1>t, <2>1 DEF WriteSoFar, VerbsAreAtTheirAwaits, VerbsAt, Writes
  <2> QED
    BY <2>1, <2>2 DEF NoTranscriptOutlivesErasure, Fresh
<1>2. CASE EraseJournal(w)
  <2>1. /\ pc[w] = "erase" /\ swept' = swept \cup req[w].mems
        /\ journal' = journal \ Episodes(req[w].scope)
    BY <1>2 DEF EraseJournal
  <2>2. \A m \in req[w].mems : Selects(req[w].scope, memScope[m])
    BY <1>t, <2>1 DEF ErasureSoFar, VerbsAreAtTheirAwaits, VerbsAt
  <2>3. ASSUME NEW e \in journal', NEW m \in Fresh \cap e.mems PROVE m \notin req[w].mems
    <3>1. e \in journal /\ ~SelectsRow(req[w].scope, e.scope)
      BY <2>1, <2>3 DEF Episodes
    <3>2. memScope[m] \in Scope /\ OnRow(memScope[m]) = e.scope
      BY <1>t, <2>3, <3>1 DEF EpisodesFit, Issued, TypeOK, ProviderTypeOK
    <3>3. SelectsRow(req[w].scope, memScope[m]) => SelectsRow(req[w].scope, e.scope)
      BY <3>2 DEF SelectsRow, OnRow, Owner, Scope
    <3> QED
      BY <2>2, <3>1, <3>3 DEF Selects
  <2> QED
    BY <2>1, <2>3 DEF NoTranscriptOutlivesErasure, Fresh
<1>3. CASE ~(Journal(w) \/ EraseJournal(w))
  <2>1. journal' = journal /\ swept' \subseteq swept
    BY <1>3 DEF ServesStep, Begin, Prepare, FetchRow, RebindRead, Progress, WriteCall, UpdateCall,
       ReadCall, GetCall, DeleteCall, CallFails, Store, Forget, Record, Bind, MapHits, Mark,
       NameProvider, CountOrphans, SwapBinding, Reply, Abort, catalogVars
  <2> QED
    BY <2>1 DEF NoTranscriptOutlivesErasure, Fresh
<1> QED
  BY <1>1, <1>2, <1>3

\* No step takes a row away.
LEMMA RowsRemain ==
  ASSUME NEW w \in Workers, ServesStep(w)
  PROVE  live \cup buried \subseteq live' \cup buried'
<1>1. CASE Record(w) \/ MapHits(w)
  BY <1>1 DEF Record, MapHits, MapRows
<1>2. CASE Mark(w)
  BY <1>2 DEF Mark
<1>3. CASE ~(Record(w) \/ MapHits(w) \/ Mark(w))
  BY <1>3 DEF ServesStep, Begin, Prepare, FetchRow, RebindRead, Progress, WriteCall, UpdateCall,
     ReadCall, GetCall, DeleteCall, CallFails, Bind, Journal, EraseJournal, NameProvider,
     CountOrphans, SwapBinding, Reply, Abort, catalogVars
<1> QED
  BY <1>1, <1>2, <1>3

LEMMA IdsHaveRowsStep ==
  ASSUME BindingInv, IdsHaveRows, NEW w \in Workers, ServesStep(w)
  PROVE  IdsHaveRows'
<1>t. TypeOK /\ VerbsAreAtTheirAwaits /\ live \cup buried \subseteq live' \cup buried'
  BY RowsRemain DEF BindingInv
<1>1. ASSUME NEW v \in Workers \ {w}, pc'[v] # "idle", req'[v].verb \in IdVerbs
      PROVE  req'[v].mems \subseteq live' \cup buried'
  BY <1>1, <1>t, OthersStay DEF IdsHaveRows
<1>2. ASSUME pc'[w] # "idle", req'[w].verb \in IdVerbs
      PROVE  req'[w].mems \subseteq live' \cup buried'
  <2>1. CASE Begin(w)
    <3>1. PICK verb \in Verbs \cap IdVerbs, t \in Tenants, m \in Memories : FetchRow(w, verb, t, m)
      BY <1>2, <1>t, <2>1 DEF Begin, Prepare, RebindRead, Goto, ScopeVerbs, IdVerbs, TypeOK,
         RequestTypeOK
    <3>2. m \in live /\ req'[w].mems = {m}
      BY <1>t, <3>1 DEF FetchRow, VisibleTo, Goto, TypeOK, RequestTypeOK
    <3> QED
      BY <1>t, <3>2
  <2>2. CASE Progress(w)
    <3>1. /\ pc[w] # "idle" /\ req[w] \in Request /\ req[w].verb \in IdVerbs
      BY <1>2, <1>t, <2>2, SameRequest
    <3>2. \/ req'[w] = req[w]
          \/ \E M \in SUBSET req[w].mems : req'[w] = [req[w] EXCEPT !.mems = M]
          \/ \E n : req'[w] = [req[w] EXCEPT !.orphans = n]
          \/ \E q : req'[w] = [req[w] EXCEPT !.named = q]
      <4>1. ~(WriteCall(w) \/ ReadCall(w))
        BY <3>1 DEF WriteCall, ReadCall, Calling, Writes, IdVerbs
      <4>2. ~(CallFails(w) \/ Reply(w))
        BY <1>2, <1>t DEF CallFails, Reply, Leave, Goto, TypeOK, RequestTypeOK
      <4>3. DeleteCall(w) => Doomed(req[w]) = req[w].mems
        BY <3>1 DEF DeleteCall, Calling, Doomed, IdVerbs
      <4> QED
        BY <1>t, <2>2, <4>1, <4>2, <4>3 DEF Progress, UpdateCall, GetCall, DeleteCall, Record, Bind,
           Journal, MapHits, Mark, EraseJournal, NameProvider, CountOrphans, SwapBinding, Goto,
           TypeOK, RequestTypeOK
    <3>3. req'[w].mems \subseteq req[w].mems
      BY <3>1, <3>2 DEF Request
    <3> QED
      BY <1>t, <3>1, <3>3 DEF IdsHaveRows
  <2>3. ~Abort(w)
    BY <1>2, <1>t DEF Abort, Leave, Goto, TypeOK, RequestTypeOK
  <2> QED
    BY <2>1, <2>2, <2>3 DEF ServesStep
<1> QED
  BY <1>1, <1>2 DEF IdsHaveRows

-----------------------------------------------------------------------------
(* What a step does to others.                                              *)

\* What a request about the end-user o relies on stays: o's binding, memories
\* and rows; nothing is stored or journalled for o, and nothing of o is swept.
Untouched(o) ==
  /\ binding'[o] = binding[o]
  /\ \A m \in Issued : Owner(memScope[m]) = o =>
       /\ memScope'[m] = memScope[m]
       /\ m \in held <=> m \in held'
       /\ m \in swept' => m \in swept
  /\ \A m \in held' : Owner(memScope'[m]) = o => m \in held /\ memScope'[m] = memScope[m]
  /\ \A m \in live : Owner(rowScope[m]) = o => m \in live' /\ rowScope'[m] = rowScope[m]
  /\ \A e \in journal' : Owner(e.scope) = o => e \in journal

\* No row of o appears.
NoNewRows(o) ==
  \A m \in live' : Owner(rowScope'[m]) = o => m \in live /\ rowScope'[m] = rowScope[m]

Nowhere == UNCHANGED <<catalogVars, providerVars, swept>>

LEMMA NowhereIsUntouched ==
  ASSUME Nowhere, NEW o
  PROVE  Untouched(o) /\ NoNewRows(o)
  BY DEF Nowhere, catalogVars, providerVars, Untouched, NoNewRows

\* The provider's part of a request about another end-user.
LEMMA CallsTouchTheirOwn ==
  ASSUME TenancyInv, NEW w \in Workers, pc[w] = "call", NEW o, o # Owner(req[w].scope),
         WriteCall(w) \/ DeleteCall(w) \/ CallFails(w)
  PROVE  Untouched(o) /\ NoNewRows(o)
<1> DEFINE r == req[w]
<1>t. TypeOK /\ r \in Request /\ r.provider \in Providers /\ r.scope \in Scope
  BY DEF TenancyInv, TypeOK, RequestTypeOK, Request
<1>c. UNCHANGED <<binding, live, buried, rowScope, journal>>
  BY DEF WriteCall, DeleteCall, CallFails, catalogVars
<1>1. ASSUME NEW M \in SUBSET Issuable(r.provider, r.scope), Store(M, r.scope)
      PROVE  Untouched(o) /\ NoNewRows(o)
  <2>1. M \subseteq Memories /\ held \cup gone \subseteq Memories
    BY <1>t DEF Issuable, At, TypeOK, ProviderTypeOK
  <2>2. \A m \in M \cap Issued : Owner(memScope[m]) # o
    BY DEF Issuable, Issued
  <2>3. /\ held' = held \cup M /\ swept' \subseteq swept
        /\ \A m \in Memories : memScope'[m] = IF m \in M THEN r.scope ELSE memScope[m]
    BY <1>1 DEF Store
  <2> QED
    BY <1>c, <2>1, <2>2, <2>3 DEF Untouched, NoNewRows, Issued
<1>2. ASSUME NEW M \in SUBSET Doomed(r), Forget(M)
      PROVE  Untouched(o) /\ NoNewRows(o)
  <2>1. \A m \in Doomed(r) : Owner(memScope[m]) = Owner(r.scope)
    BY DEF Doomed, TenancyInv, RequestsFit, Fits, Selects, SelectsRow
  <2>2. held' = held \ M /\ UNCHANGED <<memScope, swept>>
    BY <1>2 DEF Forget
  <2> QED
    BY <1>c, <2>1, <2>2 DEF Untouched, NoNewRows
<1>3. CASE UNCHANGED <<providerVars, swept>>
  BY <1>3, <1>c DEF providerVars, Untouched, NoNewRows
<1> QED
  BY <1>1, <1>2, <1>3 DEF WriteCall, DeleteCall, CallFails

\* The transactions of a request about another end-user.
LEMMA TransactionsTouchTheirOwn ==
  ASSUME TenancyInv, NEW w \in Workers, pc[w] # "idle", NEW o, o # Owner(req[w].scope),
         \/ Record(w) \/ Bind(w) \/ Journal(w) \/ MapHits(w) \/ Mark(w) \/ EraseJournal(w)
         \/ SwapBinding(w)
  PROVE  Untouched(o) /\ NoNewRows(o)
<1> DEFINE r == req[w]
<1>t. /\ TypeOK /\ r \in Request /\ r.scope \in Scope /\ r.mems \subseteq Issued
      /\ \A m \in r.mems : Owner(memScope[m]) = Owner(r.scope)
      /\ Owner(OnRow(r.scope)) = Owner(r.scope)
  BY OnRowIsScope DEF TenancyInv, TypeOK, RequestTypeOK, Request, RequestsFit, Fits
<1>p. UNCHANGED <<held, gone, memScope>>
  BY DEF Record, Bind, Journal, MapHits, Mark, EraseJournal, SwapBinding, providerVars
<1>1. CASE Record(w) \/ MapHits(w)
  <2>1. PICK revive \in BOOLEAN : MapRows(r.mems, r.scope, revive)
    BY <1>1 DEF Record, MapHits
  <2>2. live \cup buried \cup r.mems \subseteq Memories
    BY <1>t DEF TypeOK, CatalogTypeOK, Request
  <2>3. /\ live' = live \cup Rewritten(r.mems, revive) /\ Rewritten(r.mems, revive) \cap live = {}
        /\ \A m \in Memories : rowScope'[m] = IF m \in Rewritten(r.mems, revive)
                                              THEN OnRow(r.scope) ELSE rowScope[m]
    BY <1>t, <2>1 DEF MapRows, Rewritten, TypeOK, CatalogTypeOK
  <2>4. Rewritten(r.mems, revive) \subseteq Memories
    BY <2>2 DEF Rewritten
  <2>5. UNCHANGED <<binding, journal, swept>>
    BY <1>1 DEF Record, MapHits
  <2> QED
    BY <1>t, <1>p, <2>2, <2>3, <2>4, <2>5 DEF Untouched, NoNewRows
<1>2. CASE Mark(w)
  <2>1. \A m \in Dead(r) : Owner(rowScope[m]) = Owner(r.scope)
    BY <1>t DEF Dead, SelectsRow, TenancyInv, RowsFit, Fits
  <2>2. live' = live \ Dead(r) /\ UNCHANGED <<binding, journal, rowScope, swept>>
    BY <1>2 DEF Mark
  <2> QED
    BY <1>p, <2>1, <2>2 DEF Untouched, NoNewRows
<1>3. CASE Bind(w) \/ SwapBinding(w)
  <2>1. \E q : binding' = [binding EXCEPT ![Owner(r.scope)] = q]
    BY <1>3 DEF Bind, SwapBinding
  <2>2. UNCHANGED <<journal, live, rowScope, swept>>
    BY <1>3 DEF Bind, SwapBinding
  <2>3. binding'[o] = binding[o]
    BY <1>t, <2>1 DEF TypeOK, CatalogTypeOK
  <2> QED
    BY <1>p, <2>2, <2>3 DEF Untouched, NoNewRows
<1>4. CASE Journal(w)
  <2>1. /\ journal' = journal \cup {[scope |-> OnRow(r.scope), mems |-> r.mems]}
        /\ UNCHANGED <<binding, live, rowScope, swept>>
    BY <1>4 DEF Journal
  <2> QED
    BY <1>t, <1>p, <2>1 DEF Untouched, NoNewRows
<1>5. CASE EraseJournal(w)
  <2>1. /\ journal' \subseteq journal /\ swept' = swept \cup r.mems
        /\ UNCHANGED <<binding, live, rowScope>>
    BY <1>5 DEF EraseJournal
  <2> QED
    BY <1>t, <1>p, <2>1 DEF Untouched, NoNewRows
<1> QED
  BY <1>1, <1>2, <1>3, <1>4, <1>5

\* A request about one end-user leaves what is another's alone.
LEMMA OthersUntouched ==
  ASSUME TenancyInv, NEW w \in Workers, ServesStep(w), NEW o,
         Begin(w) \/ o # Owner(req[w].scope)
  PROVE  Untouched(o) /\ NoNewRows(o)
<1>1. CASE Begin(w) \/ Reply(w) \/ Abort(w) \/ UpdateCall(w) \/ ReadCall(w) \/ GetCall(w)
             \/ NameProvider(w) \/ CountOrphans(w)
  <2>1. Nowhere
    BY <1>1 DEF Nowhere, Begin, Prepare, FetchRow, RebindRead, Reply, Abort, UpdateCall, ReadCall,
       GetCall, NameProvider, CountOrphans
  <2> QED
    BY <2>1, NowhereIsUntouched
<1>2. CASE ~Begin(w) /\ (WriteCall(w) \/ DeleteCall(w) \/ CallFails(w))
  <2>1. pc[w] = "call"
    BY <1>2 DEF WriteCall, DeleteCall, CallFails, Calling
  <2> QED
    BY <1>2, <2>1, CallsTouchTheirOwn
<1>3. CASE ~Begin(w) /\ (\/ Record(w) \/ Bind(w) \/ Journal(w) \/ MapHits(w) \/ Mark(w)
                         \/ EraseJournal(w) \/ SwapBinding(w))
  <2>1. pc[w] # "idle"
    BY <1>3 DEF Record, Bind, Journal, MapHits, Mark, EraseJournal, SwapBinding
  <2> QED
    BY <1>3, <2>1, TransactionsTouchTheirOwn
<1> QED
  BY <1>1, <1>2, <1>3 DEF ServesStep, Progress

-----------------------------------------------------------------------------
(* Erasures apart: nothing of an end-user is stored or filed while an        *)
(* erasure is about them; all else overlaps.                                 *)

\* What is at work for one end-user, or is about to begin.
Starts(w) == pc[w] = "idle" /\ Begin(w)

LEMMA WhoIsAtWork ==
  ASSUME NEW w \in Workers, ServesStep(w)
  PROVE  pc[w] # "idle" \/ Starts(w)
  BY DEF ServesStep, Starts, Begin, Prepare, FetchRow, RebindRead, Progress, WriteCall, UpdateCall,
     ReadCall, GetCall, DeleteCall, Calling, CallFails, Record, Bind, Journal, MapHits, Mark,
     EraseJournal, NameProvider, CountOrphans, SwapBinding, Reply, Abort

\* Memories and rows that are there go by deletions only.
LEMMA OnlyDeletionsTakeAway ==
  ASSUME VerbsAreAtTheirAwaits, NEW w \in Workers, ServesStep(w), pc[w] # "idle",
         req[w].verb \notin {"delete", "delete_scope"}
  PROVE  held \subseteq held' /\ live \subseteq live' /\ swept' \subseteq swept
<1>1. CASE WriteCall(w) \/ CallFails(w)
  <2>1. \/ \E M, s : Store(M, s)
        \/ UNCHANGED <<providerVars, swept>>
    BY <1>1 DEF WriteCall, CallFails
  <2>2. live' = live
    BY <1>1 DEF WriteCall, CallFails, catalogVars
  <2> QED
    BY <2>1, <2>2 DEF Store, providerVars
<1>2. CASE Record(w) \/ MapHits(w)
  BY <1>2 DEF Record, MapHits, MapRows, providerVars
<1>3. CASE ~(WriteCall(w) \/ CallFails(w) \/ Record(w) \/ MapHits(w))
  <2>1. ~(DeleteCall(w) \/ Mark(w) \/ EraseJournal(w))
    BY DEF DeleteCall, Calling, Mark, EraseJournal, VerbsAreAtTheirAwaits, VerbsAt
  <2> QED
    BY <1>3, <2>1 DEF ServesStep, Begin, Prepare, FetchRow, RebindRead, Progress, UpdateCall,
       ReadCall, GetCall, Bind, Journal, NameProvider, CountOrphans, SwapBinding, Reply, Abort,
       catalogVars, providerVars
<1> QED
  BY <1>1, <1>2, <1>3

\* Memories come, and rows that were marked deleted come back, by writes and
\* updates only.
LEMMA OnlyWritesRestore ==
  ASSUME TypeOK, VerbsAreAtTheirAwaits, NEW w \in Workers, ServesStep(w), pc[w] # "idle",
         req[w].verb \notin Writes \cup {"update"}
  PROVE  held' \subseteq held /\ live' \cap buried = {} /\ memScope' = memScope
<1>t. live \cap buried = {}
  BY DEF TypeOK, CatalogTypeOK
<1>1. CASE DeleteCall(w) \/ CallFails(w)
  <2>1. \/ \E M : Forget(M)
        \/ UNCHANGED <<providerVars, swept>>
    BY <1>1 DEF DeleteCall, CallFails
  <2>2. live' = live
    BY <1>1 DEF DeleteCall, CallFails, catalogVars
  <2> QED
    BY <1>t, <2>1, <2>2 DEF Forget, providerVars
<1>2. CASE MapHits(w)
  BY <1>t, <1>2 DEF MapHits, MapRows, Rewritten, providerVars
<1>3. CASE Mark(w)
  BY <1>t, <1>3 DEF Mark, providerVars
<1>4. CASE ~(DeleteCall(w) \/ CallFails(w) \/ MapHits(w) \/ Mark(w))
  <2>1. ~(WriteCall(w) \/ Record(w))
    BY DEF WriteCall, Calling, Record, VerbsAreAtTheirAwaits, VerbsAt
  <2> QED
    BY <1>t, <1>4, <2>1 DEF ServesStep, Begin, Prepare, FetchRow, RebindRead, Progress, UpdateCall,
       ReadCall, GetCall, Bind, Journal, EraseJournal, NameProvider, CountOrphans, SwapBinding, Reply,
       Abort, catalogVars, providerVars
<1> QED
  BY <1>1, <1>2, <1>3, <1>4

\* Lookups, deletions and rebinds add nothing.
LEMMA TheRestAddsNothing ==
  ASSUME TypeOK, VerbsAreAtTheirAwaits, NEW w \in Workers, ServesStep(w), pc[w] # "idle",
         req[w].verb \in {"get", "delete", "delete_scope", "rebind"}
  PROVE  /\ held' \subseteq held /\ memScope' = memScope
         /\ live' \subseteq live /\ rowScope' = rowScope
         /\ journal' \subseteq journal
<1>1. held' \subseteq held /\ memScope' = memScope
  BY OnlyWritesRestore DEF Writes
<1>2. ~(Record(w) \/ MapHits(w) \/ Journal(w))
  BY DEF Record, MapHits, Journal, VerbsAreAtTheirAwaits, VerbsAt, Writes
<1>3. live' \subseteq live /\ rowScope' = rowScope /\ journal' \subseteq journal
  BY <1>2 DEF ServesStep, Begin, Prepare, FetchRow, RebindRead, Progress, WriteCall, UpdateCall,
     ReadCall, GetCall, DeleteCall, CallFails, Bind, Mark, EraseJournal, NameProvider, CountOrphans,
     SwapBinding, Reply, Abort, catalogVars
<1> QED
  BY <1>1, <1>3

\* A write keeps its memories, rows and place in the journal while no deletion
\* is about its end-user.
LEMMA WriteStays ==
  ASSUME ErasureInv, NEW w \in Workers, ServesStep(w), NEW v \in Workers \ {w},
         pc[v] # "idle", req[v].verb \in Writes \cup {"update"},
         \/ Starts(w)
         \/ Owner(req[v].scope) # Owner(req[w].scope)
         \/ pc[w] # "idle" /\ req[w].verb \notin {"delete", "delete_scope"}
  PROVE  WriteSoFar(v)'
<1> DEFINE r == req[v]
           o == Owner(r.scope)
<1>t. /\ TypeOK /\ VerbsAreAtTheirAwaits /\ TenancyInv /\ WriteSoFar(v)
      /\ pc'[v] = pc[v] /\ req'[v] = r
      /\ r.mems \subseteq Issued /\ \A m \in r.mems : Owner(memScope[m]) = o
      /\ RowsFit
  BY OthersStay DEF ErasureInv, BindingInv, TenancyInv, RequestsFit, Fits
<1>1. \A m \in r.mems : /\ m \in held => m \in held'
                        /\ m \in live => m \in live'
                        /\ m \in swept' => m \in swept
  <2>1. CASE Starts(w) \/ o # Owner(req[w].scope)
    <3>1. Untouched(o)
      BY <1>t, <2>1, OthersUntouched DEF Starts
    <3> QED
      BY <1>t, <3>1 DEF Untouched, RowsFit, Fits
  <2>2. CASE pc[w] # "idle" /\ req[w].verb \notin {"delete", "delete_scope"}
    BY <1>t, <2>2, OnlyDeletionsTakeAway
  <2> QED
    BY <2>1, <2>2
<1>2. \A m \in Fresh \cap r.mems : memScope'[m] = memScope[m]
  BY <1>t, StepKeeps DEF Fresh
<1> QED
  BY <1>t, <1>1, <1>2 DEF WriteSoFar, Fresh

\* What a deletion by id has removed and marked stays so while nobody stores
\* or updates anything of its end-user.
LEMMA DeletionStays ==
  ASSUME ErasureInv, RowsFit', NEW w \in Workers, ServesStep(w), NEW v \in Workers \ {w},
         pc[v] # "idle", req[v].verb = "delete",
         \/ Starts(w)
         \/ Owner(req[v].scope) # Owner(req[w].scope)
         \/ pc[w] # "idle" /\ req[w].verb \notin Writes \cup {"update"}
  PROVE  ErasureSoFar(v)'
<1> DEFINE r == req[v]
           o == Owner(r.scope)
<1>t. /\ TypeOK /\ VerbsAreAtTheirAwaits /\ TenancyInv /\ ErasureSoFar(v)
      /\ pc'[v] = pc[v] /\ req'[v] = r
      /\ r.mems \subseteq Issued /\ \A m \in r.mems : Owner(memScope[m]) = o
      /\ r.mems \subseteq live \cup buried
  BY OthersStay DEF ErasureInv, BindingInv, TenancyInv, RequestsFit, Fits, IdsHaveRows, IdVerbs
<1>1. CASE Starts(w) \/ o # Owner(req[w].scope)
  <2>1. Untouched(o) /\ NoNewRows(o)
    BY <1>t, <1>1, OthersUntouched DEF Starts
  <2>2. \A m \in r.mems : (m \in held <=> m \in held') /\ memScope'[m] = memScope[m]
    BY <1>t, <2>1 DEF Untouched
  <2>3. \A m \in r.mems \cap live' : m \in live
    BY <1>t, <2>1, <2>2 DEF NoNewRows, RowsFit, Fits
  <2> QED
    BY <1>t, <2>2, <2>3 DEF ErasureSoFar
<1>2. CASE pc[w] # "idle" /\ req[w].verb \notin Writes \cup {"update"}
  BY <1>t, <1>2, OnlyWritesRestore DEF ErasureSoFar
<1> QED
  BY <1>1, <1>2

\* And what an erasure by scope has, while nobody files a row of it either.
LEMMA ErasureStays ==
  ASSUME ErasureInv, NEW w \in Workers, ServesStep(w), NEW v \in Workers \ {w},
         pc[v] # "idle", req[v].verb = "delete_scope",
         \/ Starts(w)
         \/ Owner(req[v].scope) # Owner(req[w].scope)
         \/ pc[w] # "idle" /\ req[w].verb \in {"get", "delete", "delete_scope", "rebind"}
  PROVE  ErasureSoFar(v)'
<1> DEFINE r == req[v]
           o == Owner(r.scope)
<1>t. /\ TypeOK /\ VerbsAreAtTheirAwaits /\ TenancyInv /\ ErasureSoFar(v)
      /\ pc'[v] = pc[v] /\ req'[v] = r
      /\ r.mems \subseteq Issued /\ \A m \in r.mems : Owner(memScope[m]) = o
  BY OthersStay DEF ErasureInv, BindingInv, TenancyInv, RequestsFit, Fits
<1>1. /\ \A m \in r.mems : memScope'[m] = memScope[m]
      /\ \A m \in held' : Selects(r.scope, memScope'[m]) => m \in held /\ memScope'[m] = memScope[m]
      /\ \A m \in live' : SelectsRow(r.scope, rowScope'[m]) => m \in live /\ rowScope'[m] = rowScope[m]
      /\ \A e \in journal' : SelectsRow(r.scope, e.scope) => e \in journal
  <2>1. CASE Starts(w) \/ o # Owner(req[w].scope)
    <3>1. Untouched(o) /\ NoNewRows(o)
      BY <1>t, <2>1, OthersUntouched DEF Starts
    <3>2. \A m \in r.mems : memScope'[m] = memScope[m]
      BY <1>t, <3>1 DEF Untouched
    <3>3. \A m \in held' : Selects(r.scope, memScope'[m]) => m \in held /\ memScope'[m] = memScope[m]
      <4>1. \A m : Selects(r.scope, memScope'[m]) => Owner(memScope'[m]) = o
        BY DEF Selects, SelectsRow
      <4>2. \A m \in held' : Owner(memScope'[m]) = o => m \in held /\ memScope'[m] = memScope[m]
        BY <3>1 DEF Untouched, Issued
      <4> QED
        BY <4>1, <4>2
    <3>4. \A m \in live' : SelectsRow(r.scope, rowScope'[m]) => m \in live /\ rowScope'[m] = rowScope[m]
      BY <3>1 DEF NoNewRows, SelectsRow
    <3>5. \A e \in journal' : SelectsRow(r.scope, e.scope) => e \in journal
      BY <3>1 DEF Untouched, SelectsRow
    <3> QED
      BY <3>2, <3>3, <3>4, <3>5
  <2>2. CASE pc[w] # "idle" /\ req[w].verb \in {"get", "delete", "delete_scope", "rebind"}
    BY <1>t, <2>2, TheRestAddsNothing
  <2> QED
    BY <2>1, <2>2
<1> QED
  BY <1>t, <1>1 DEF ErasureSoFar

LEMMA OthersKeepWhatTheyHave ==
  ASSUME ErasureInv, ErasuresApart, TenancyInv', BindingInv', NEW w \in Workers, ServesStep(w),
         NEW v \in Workers \ {w}
  PROVE  WriteSoFar(v)' /\ ErasureSoFar(v)'
<1>t. TypeOK /\ VerbsAreAtTheirAwaits /\ VerbsAreAtTheirAwaits'
  BY DEF ErasureInv, BindingInv
<1>s. pc'[v] = pc[v] /\ req'[v] = req[v]
  BY <1>t, OthersStay
<1>w. pc[w] # "idle" \/ Starts(w)
  BY WhoIsAtWork
<1>v. pc[w] # "idle" => req[w].verb \in ScopeVerbs \cup IdVerbs \cup {"rebind"}
  BY <1>t DEF VerbsAreAtTheirAwaits, VerbsAt, Writes, ScopeVerbs, IdVerbs
<1>1. CASE pc[v] = "idle"
  BY <1>s, <1>1 DEF WriteSoFar, ErasureSoFar
<1>2. CASE pc[v] # "idle" /\ req[v].verb \in Writes \cup {"update"}
  <2>1. \/ Starts(w)
        \/ Owner(req[v].scope) # Owner(req[w].scope)
        \/ pc[w] # "idle" /\ req[w].verb \notin {"delete", "delete_scope"}
    BY <1>w, <1>2 DEF ErasuresApart, Apart
  <2>2. WriteSoFar(v)'
    BY <1>2, <2>1, WriteStays
  <2>3. ErasureSoFar(v)'
    BY <1>s, <1>2 DEF ErasureSoFar, Writes
  <2> QED
    BY <2>2, <2>3
<1>3. CASE pc[v] # "idle" /\ req[v].verb \in {"delete", "delete_scope"}
  <2>1. ASSUME req[v].verb = "delete" PROVE ErasureSoFar(v)'
    <3>1. \/ Starts(w)
          \/ Owner(req[v].scope) # Owner(req[w].scope)
          \/ pc[w] # "idle" /\ req[w].verb \notin Writes \cup {"update"}
      BY <1>w, <1>3, <2>1 DEF ErasuresApart, Apart
    <3> QED
      BY <1>3, <2>1, <3>1, DeletionStays DEF TenancyInv
  <2>2. ASSUME req[v].verb = "delete_scope" PROVE ErasureSoFar(v)'
    <3>1. \/ Starts(w)
          \/ Owner(req[v].scope) # Owner(req[w].scope)
          \/ pc[w] # "idle" /\ req[w].verb \in {"get", "delete", "delete_scope", "rebind"}
      BY <1>w, <1>v, <1>3, <2>2 DEF ErasuresApart, Apart, ScopeVerbs, IdVerbs, Writes
    <3> QED
      BY <1>3, <2>2, <3>1, ErasureStays
  <2>3. WriteSoFar(v)'
    BY <1>t, <1>s, <1>3 DEF WriteSoFar, VerbsAreAtTheirAwaits, VerbsAt, Writes
  <2> QED
    BY <1>3, <2>1, <2>2, <2>3
<1>4. CASE pc[v] # "idle" /\ req[v].verb \notin Writes \cup {"update", "delete", "delete_scope"}
  BY <1>t, <1>s, <1>4 DEF WriteSoFar, ErasureSoFar, VerbsAreAtTheirAwaits, VerbsAt
<1> QED
  BY <1>1, <1>2, <1>3, <1>4

Erasable == ErasureInv /\ ErasuresApart

LEMMA InitErasable == Init => Erasable
  BY InitTenancy, InitBinding DEF Init, Erasable, ErasureInv, WriteSoFar, ErasureSoFar, IdsHaveRows,
     EpisodesFit, NoTranscriptOutlivesErasure, ErasuresApart, Apart

LEMMA NextErasable == Erasable /\ [Next /\ ErasuresApart']_vars => Erasable'
<1> SUFFICES ASSUME Erasable, [Next /\ ErasuresApart']_vars PROVE Erasable'
  OBVIOUS
<1>t. TenancyInv' /\ BindingInv'
  BY NextTenancy, NextBinding DEF Erasable, ErasureInv
<1>1. CASE UNCHANGED vars
  <2>1. UNCHANGED <<binding, live, buried, rowScope, journal, held, gone, memScope, pc, req, swept>>
    BY <1>1 DEF vars, catalogVars, providerVars
  <2>2. \A w \in Workers : WriteSoFar(w)' /\ ErasureSoFar(w)'
    BY <2>1 DEF Erasable, ErasureInv, WriteSoFar, ErasureSoFar, Fresh
  <2>3. IdsHaveRows' /\ EpisodesFit' /\ NoTranscriptOutlivesErasure' /\ ErasuresApart'
    BY <2>1 DEF Erasable, ErasureInv, IdsHaveRows, EpisodesFit, NoTranscriptOutlivesErasure, Issued,
       Fresh, ErasuresApart, Apart
  <2> QED
    BY <1>t, <2>2, <2>3 DEF Erasable, ErasureInv
<1>2. ASSUME NEW w \in Workers, ServesStep(w), ErasuresApart' PROVE Erasable'
  <2>1. WriteSoFar(w)' /\ ErasureSoFar(w)'
    BY <1>2, WriteSoFarStep, ErasureSoFarStep DEF Erasable, ErasureInv
  <2>2. \A v \in Workers \ {w} : WriteSoFar(v)' /\ ErasureSoFar(v)'
    BY <1>t, <1>2, OthersKeepWhatTheyHave DEF Erasable
  <2>3. IdsHaveRows' /\ EpisodesFit' /\ NoTranscriptOutlivesErasure'
    BY <1>2, IdsHaveRowsStep, EpisodesFitStep, TranscriptStep DEF Erasable, ErasureInv
  <2> QED
    BY <1>t, <1>2, <2>1, <2>2, <2>3 DEF Erasable, ErasureInv
<1> QED
  BY <1>1, <1>2 DEF Next, ServesStep

\* The memories a write was acknowledged with can be read by their ids, also
\* those the provider deduplicated to ones that had been deleted (_records).
THEOREM WritesAreLive == ErasuresApartSpec => []AckedWriteIsLive
<1>1. Erasable => AckedWriteIsLive
  BY DEF Erasable, ErasureInv, WriteSoFar, AckedWriteIsLive, Acked
<1> QED
  BY <1>1, InitErasable, NextErasable, PTL DEF ErasuresApartSpec

\* An acknowledged erasure is complete, whatever died or failed half way before
\* it (delete, delete_scope).
THEOREM ErasuresAreComplete == ErasuresApartSpec => []ErasureIsComplete
<1>1. Erasable => ErasureIsComplete
  BY DEF Erasable, ErasureInv, ErasureSoFar, ErasureIsComplete, Acked
<1> QED
  BY <1>1, InitErasable, NextErasable, PTL DEF ErasuresApartSpec

\* No raw episode outlives the erasure of its memories (delete_journal).
THEOREM TranscriptsGoWithTheirMemories == ErasuresApartSpec => []NoTranscriptOutlivesErasure
<1>1. Erasable => NoTranscriptOutlivesErasure
  BY DEF Erasable, ErasureInv
<1> QED
  BY <1>1, InitErasable, NextErasable, PTL DEF ErasuresApartSpec

\* A row comes back only with its memory (record_many): nothing deletes between
\* the provider's part of a write or an update and the catalog's.
THEOREM RowsComeBackWithMemories == ErasuresApartSpec => RevivedMeansBack
<1>1. ASSUME ErasureInv, [Next]_vars, NEW m \in buried \ buried'
      PROVE  m \in held'
  <2>1. PICK w \in Workers : ServesStep(w)
    BY <1>1 DEF Next, ServesStep, vars, catalogVars
  <2>2. CASE Record(w)
    <3>1. pc[w] = "record" /\ held' = held /\ m \in req[w].mems
      BY <1>1, <2>2 DEF Record, MapRows, Rewritten, providerVars
    <3> QED
      BY <1>1, <3>1 DEF ErasureInv, WriteSoFar
  <2>3. CASE MapHits(w)
    BY <1>1, <2>3 DEF MapHits, MapRows, Rewritten
  <2>4. CASE ~(Record(w) \/ MapHits(w))
    BY <1>1, <2>1, <2>4 DEF ServesStep, Begin, Prepare, FetchRow, RebindRead, Progress, WriteCall,
       UpdateCall, ReadCall, GetCall, DeleteCall, CallFails, Bind, Journal, Mark, EraseJournal,
       NameProvider, CountOrphans, SwapBinding, Reply, Abort, catalogVars
  <2> QED
    BY <2>2, <2>3, <2>4
<1>2. Erasable /\ [Next /\ ErasuresApart']_vars => [buried \ buried' \subseteq held']_vars
  BY <1>1 DEF Erasable
<1> QED
  BY <1>2, InitErasable, NextErasable, PTL DEF ErasuresApartSpec, RevivedMeansBack

-----------------------------------------------------------------------------
(* What a request has met.                                                   *)

\* Whoever may disturb a request in flight is among those it has met.
Accompanied == \A v \in InFlight : Company(v) \subseteq beside[v]

LEMMA StepIsNoted ==
  ASSUME TypeOK, NEW w \in Workers, ServesStep(w), NEW v \in Workers, pc'[v] # "idle"
  PROVE  beside'[v] = beside[v] \cup Company(v)'
<1>1. \E label, locals : Goto(w, label, locals)
  BY DEF ServesStep, Begin, Prepare, FetchRow, RebindRead, Progress, WriteCall, UpdateCall, ReadCall,
     GetCall, DeleteCall, CallFails, Record, Bind, Journal, MapHits, Mark, EraseJournal, NameProvider,
     CountOrphans, SwapBinding, Reply, Abort, Leave
<1> QED
  BY <1>1 DEF Goto, InFlight

LEMMA MetStays ==
  ASSUME TypeOK, NEW w \in Workers, ServesStep(w), NEW v \in Workers, pc'[v] # "idle", NEW verbs,
         Met(v, verbs)
  PROVE  Met(v, verbs)'
  BY StepIsNoted DEF Met

LEMMA DisturbersAreMet ==
  ASSUME TypeOK, Accompanied, NEW w \in Workers, NEW v \in Workers \ {w},
         pc[w] # "idle", pc[v] # "idle", Disturbs(w, v)
  PROVE  req[w].verb \in beside[v]
  BY DEF Accompanied, InFlight, Company

Meeting == TenancyInv /\ BindingInv /\ Accompanied

LEMMA InitMeeting == Init => Meeting
  BY InitTenancy, InitBinding DEF Init, Meeting, Accompanied, InFlight

LEMMA NextMeeting == Meeting /\ [Next]_vars => Meeting'
<1> SUFFICES ASSUME Meeting, [Next]_vars PROVE Meeting'
  OBVIOUS
<1>1. TenancyInv' /\ BindingInv'
  BY NextTenancy, NextBinding DEF Meeting
<1>2. CASE UNCHANGED vars
  <2>1. pc' = pc /\ req' = req /\ beside' = beside
    BY <1>2 DEF vars
  <2>2. \A v : Company(v)' = Company(v)
    BY <2>1 DEF Company, InFlight, Disturbs
  <2> QED
    BY <1>1, <2>1, <2>2 DEF Meeting, Accompanied, InFlight
<1>3. ASSUME NEW w \in Workers, ServesStep(w) PROVE Accompanied'
  <2>1. \A v \in Workers : pc'[v] # "idle" => Company(v)' \subseteq beside'[v]
    BY <1>3, StepIsNoted DEF Meeting, BindingInv
  <2> QED
    BY <2>1 DEF Accompanied, InFlight
<1> QED
  BY <1>1, <1>2, <1>3 DEF Next, ServesStep, Meeting

-----------------------------------------------------------------------------
(* Where verbs go.                                                           *)

\* Nobody has resolved anything but their default for an unbound end-user.
UnboundByDefault(w) ==
  /\ pc[w] # "idle" /\ req[w].verb \in ScopeVerbs
  /\ binding[Owner(req[w].scope)] = None
  => req[w].provider = Default[w]

\* A request goes to the provider its end-user's reads go to, and is answered
\* in its name, as long as it has met no other binder.
WhereReadsLook(w) ==
  /\ pc[w] # "idle" /\ req[w].verb \in ScopeVerbs =>
       req[w].provider = Resolved(w, Owner(req[w].scope)) \/ Met(w, Binders)
  /\ pc[w] = "done" /\ req[w].verb \in {"list_scope", "delete_scope"} =>
       req[w].named = req[w].provider \/ Met(w, Binders)

Looking == Meeting /\ \A w \in Workers : UnboundByDefault(w) /\ WhereReadsLook(w)

LEMMA UnboundStep ==
  ASSUME Looking, NEW w \in Workers, ServesStep(w), NEW v \in Workers
  PROVE  UnboundByDefault(v)'
<1>t. TypeOK
  BY DEF Looking, Meeting, BindingInv
<1> SUFFICES ASSUME pc'[v] # "idle", req'[v].verb \in ScopeVerbs,
                    binding'[Owner(req'[v].scope)] = None
             PROVE  req'[v].provider = Default[v]
  BY DEF UnboundByDefault
<1>1. CASE v = w /\ Begin(w)
  BY <1>1, <1>t DEF Begin, Prepare, FetchRow, RebindRead, Resolved, Goto, catalogVars, ScopeVerbs,
     IdVerbs, TypeOK, RequestTypeOK
<1>2. CASE v # w \/ Progress(w)
  <2>1. /\ pc[v] # "idle" /\ req[v] \in Request
        /\ req'[v].verb = req[v].verb /\ req'[v].scope = req[v].scope
        /\ req'[v].provider = req[v].provider
    BY <1>2, <1>t, OthersStay, SameRequest DEF TypeOK, RequestTypeOK
  <2>2. Owner(req[v].scope) \in Owners
    BY <2>1, OwnerType DEF Request
  <2>3. binding[Owner(req[v].scope)] = None
    BY <1>t, <2>1, <2>2, BindingIsNeverCleared
  <2> QED
    BY <2>1, <2>3 DEF Looking, UnboundByDefault
<1>3. ~(v = w /\ Abort(w))
  BY <1>t DEF Abort, Leave, Goto, TypeOK, RequestTypeOK
<1> QED
  BY <1>1, <1>2, <1>3 DEF ServesStep

\* A step leaves the binding of an end-user alone, or is the last of a rebind,
\* or binds an unbound one to the default of the write that takes it.
LEMMA BinderSteps ==
  ASSUME Looking, NEW w \in Workers, ServesStep(w), NEW o \in Owners, binding'[o] # binding[o]
  PROVE  /\ pc[w] # "idle" /\ Owner(req[w].scope) = o
         /\ \/ req[w].verb = "rebind"
            \/ /\ req[w].verb \in Writes /\ binding[o] = None
               /\ binding'[o] = Default[w]
<1>t. /\ TypeOK /\ VerbsAreAtTheirAwaits
      /\ binding \in [Owners -> Providers \cup {None}] /\ None \notin Providers
  BY GatewayAssumption DEF Looking, Meeting, BindingInv, TypeOK, CatalogTypeOK
<1>1. Bind(w) \/ SwapBinding(w)
  BY <1>t, BindingStep
<1>2. pc[w] # "idle" /\ \E q : binding' = [binding EXCEPT ![Owner(req[w].scope)] = q]
  BY <1>1 DEF Bind, SwapBinding
<1>3. Owner(req[w].scope) = o
  BY <1>t, <1>2
<1>4. CASE SwapBinding(w)
  BY <1>2, <1>3, <1>4, <1>t DEF SwapBinding, VerbsAreAtTheirAwaits, VerbsAt
<1>5. CASE Bind(w)
  <2>1. req[w].verb \in Writes /\ binding' = [binding EXCEPT ![o] = BoundTo(o, req[w].provider)]
    BY <1>3, <1>5, <1>t DEF Bind, VerbsAreAtTheirAwaits, VerbsAt
  <2>2. binding[o] = None /\ binding'[o] = req[w].provider
    BY <1>t, <2>1 DEF BoundTo
  <2>3. req[w].provider = Default[w]
    BY <1>2, <1>3, <2>1, <2>2 DEF Looking, UnboundByDefault, Writes, ScopeVerbs
  <2> QED
    BY <1>2, <1>3, <2>1, <2>2, <2>3
<1> QED
  BY <1>1, <1>4, <1>5

\* What a verb goes by changes only for one that has met a binder.
LEMMA ResolutionStays ==
  ASSUME Looking, NEW w \in Workers, ServesStep(w), NEW v \in Workers, pc[v] # "idle",
         pc'[v] # "idle", req[v].verb \in ScopeVerbs,
         req[v].provider = Resolved(v, Owner(req[v].scope))
  PROVE  \/ req[v].provider = Resolved(v, Owner(req[v].scope))'
         \/ Met(v, Binders)'
<1> DEFINE o == Owner(req[v].scope)
<1>t. TypeOK /\ Accompanied /\ o \in Owners /\ None \notin Providers
  BY OwnerType, GatewayAssumption
  DEF Looking, Meeting, BindingInv, TypeOK, RequestTypeOK, Request
<1>p. Owner(req'[v].scope) = o
  <2>1. CASE v # w
    BY <1>t, <2>1, OthersStay
  <2>2. CASE v = w
    <3>1. ~Begin(w) /\ ~Abort(w)
      BY <1>t, <2>2 DEF Begin, Prepare, FetchRow, RebindRead, Abort, Leave, Goto, TypeOK, RequestTypeOK
    <3> QED
      BY <1>t, <2>2, <3>1, SameRequest DEF ServesStep
  <2> QED
    BY <2>1, <2>2
<1>1. CASE binding'[o] = binding[o]
  BY <1>1, <1>p DEF Resolved
<1>2. CASE binding'[o] # binding[o] /\ v # w
  <2>1. /\ pc[w] # "idle" /\ Owner(req[w].scope) = o
        /\ \/ req[w].verb = "rebind"
           \/ /\ req[w].verb \in Writes /\ binding[o] = None
              /\ binding'[o] = Default[w]
    BY <1>2, <1>t, BinderSteps
  <2>2. CASE Disturbs(w, v)
    <3>1. req[w].verb \in beside[v]
      BY <1>2, <1>t, <2>1, <2>2, DisturbersAreMet
    <3>2. Met(v, Binders)
      BY <2>1, <3>1 DEF Met, Binders
    <3> QED
      BY <1>t, <3>2, MetStays
  <2>3. CASE ~Disturbs(w, v)
    <3>1. binding[o] = None /\ binding'[o] = Default[v]
      BY <2>1, <2>3 DEF Disturbs
    <3>2. req[v].provider = Default[v]
      BY <3>1 DEF Resolved
    <3> QED
      BY <1>p, <3>1, <3>2 DEF Resolved
  <2> QED
    BY <2>2, <2>3
<1>3. CASE binding'[o] # binding[o] /\ v = w
  <2>1. binding[o] = None /\ binding'[o] = Default[v]
    BY <1>3, <1>t, BinderSteps DEF ScopeVerbs
  <2>2. req[v].provider = Default[v]
    BY <2>1 DEF Resolved
  <2> QED
    BY <1>p, <2>1, <2>2 DEF Resolved
<1> QED
  BY <1>1, <1>2, <1>3

LEMMA OthersLook ==
  ASSUME Looking, NEW w \in Workers, ServesStep(w), NEW v \in Workers \ {w}
  PROVE  WhereReadsLook(v)'
<1>t. TypeOK /\ pc'[v] = pc[v] /\ req'[v] = req[v] /\ WhereReadsLook(v)
  BY OthersStay DEF Looking, Meeting, BindingInv
<1>1. CASE pc[v] = "idle"
  BY <1>t, <1>1 DEF WhereReadsLook
<1>2. CASE pc[v] # "idle" /\ Met(v, Binders)
  BY <1>t, <1>2, MetStays DEF WhereReadsLook
<1>3. CASE pc[v] # "idle" /\ ~Met(v, Binders)
  <2>1. req[v].verb \in ScopeVerbs =>
          req[v].provider = Resolved(v, Owner(req[v].scope))' \/ Met(v, Binders)'
    BY <1>t, <1>3, ResolutionStays DEF WhereReadsLook
  <2>2. pc[v] = "done" /\ req[v].verb \in {"list_scope", "delete_scope"} =>
          req[v].named = req[v].provider
    BY <1>t, <1>3 DEF WhereReadsLook
  <2> QED
    BY <1>t, <2>1, <2>2 DEF WhereReadsLook
<1> QED
  BY <1>1, <1>2, <1>3

\* The step of the request itself: it resolves, keeps what it resolved, and
\* names what the binding says then.
LEMMA OwnLook ==
  ASSUME Looking, NEW w \in Workers, ServesStep(w)
  PROVE  WhereReadsLook(w)'
<1>t. TypeOK /\ VerbsAreAtTheirAwaits /\ WhereReadsLook(w)
  BY DEF Looking, Meeting, BindingInv
<1>1. CASE pc'[w] = "idle"
  BY <1>1 DEF WhereReadsLook
<1>2. CASE pc'[w] # "idle" /\ Begin(w)
  <2>1. pc'[w] # "done" /\ binding' = binding
    BY <1>t, <1>2 DEF Begin, Prepare, FetchRow, RebindRead, Goto, catalogVars, TypeOK, RequestTypeOK
  <2>2. req'[w].verb \in ScopeVerbs => req'[w].provider = Resolved(w, Owner(req'[w].scope))
    BY <1>t, <1>2 DEF Begin, Prepare, FetchRow, RebindRead, Goto, ScopeVerbs, IdVerbs, TypeOK,
       RequestTypeOK
  <2> QED
    BY <2>1, <2>2 DEF WhereReadsLook, Resolved
<1>3. CASE pc'[w] # "idle" /\ Progress(w) /\ Met(w, Binders)
  BY <1>3, <1>t, MetStays DEF WhereReadsLook
<1>4. CASE pc'[w] # "idle" /\ Progress(w) /\ ~Met(w, Binders)
  <2>1. /\ pc[w] # "idle" /\ req[w] \in Request
        /\ req'[w].verb = req[w].verb /\ req'[w].scope = req[w].scope
        /\ req'[w].provider = req[w].provider
    BY <1>4, <1>t, SameRequest
  <2>2. req[w].verb \in ScopeVerbs => req[w].provider = Resolved(w, Owner(req[w].scope))
    BY <1>4, <1>t, <2>1 DEF WhereReadsLook
  <2>3. req[w].verb \in ScopeVerbs =>
          req'[w].provider = Resolved(w, Owner(req[w].scope))' \/ Met(w, Binders)'
    BY <1>4, <2>1, <2>2, ResolutionStays
  <2>4. ASSUME pc'[w] = "done", req[w].verb \in {"list_scope", "delete_scope"}
        PROVE  req'[w].named = req[w].provider
    <3>1. NameProvider(w)
      <4>1. \/ GetCall(w) \/ Record(w) \/ Bind(w) \/ Journal(w) \/ MapHits(w)
            \/ Mark(w) \/ NameProvider(w) \/ SwapBinding(w)
        BY <1>4, <1>t, <2>4, Arrivals DEF ServesStep
      <4>2. ~(GetCall(w) \/ Record(w) \/ Bind(w) \/ Journal(w) \/ SwapBinding(w))
        BY <1>t, <2>4 DEF GetCall, Calling, Record, Bind, Journal, SwapBinding,
           VerbsAreAtTheirAwaits, VerbsAt, Writes
      <4>3. ~(MapHits(w) \/ Mark(w))
        BY <1>t, <2>4 DEF MapHits, Mark, Goto, VerbsAreAtTheirAwaits, VerbsAt, TypeOK, RequestTypeOK
      <4> QED
        BY <4>1, <4>2, <4>3
    <3>2. req'[w].named = Resolved(w, Owner(req[w].scope))
      BY <1>t, <2>1, <3>1 DEF NameProvider, NamedFor, Resolved, Goto, TypeOK, RequestTypeOK, Request
    <3> QED
      BY <2>2, <2>4, <3>2 DEF ScopeVerbs
  <2> QED
    BY <2>1, <2>3, <2>4 DEF WhereReadsLook
<1>5. ~Abort(w) \/ pc'[w] = "idle"
  BY <1>t DEF Abort, Leave, Goto, TypeOK, RequestTypeOK
<1> QED
  BY <1>1, <1>2, <1>3, <1>4, <1>5 DEF ServesStep

LEMMA InitLooking == Init => Looking
  BY InitMeeting DEF Init, Looking, UnboundByDefault, WhereReadsLook

LEMMA NextLooking == Looking /\ [Next]_vars => Looking'
<1> SUFFICES ASSUME Looking, [Next]_vars PROVE Looking'
  OBVIOUS
<1>t. Meeting'
  BY NextMeeting DEF Looking
<1>1. CASE UNCHANGED vars
  BY <1>t, <1>1 DEF Looking, UnboundByDefault, WhereReadsLook, Resolved, Met, vars, catalogVars
<1>2. ASSUME NEW w \in Workers, ServesStep(w) PROVE Looking'
  <2>1. \A v \in Workers : UnboundByDefault(v)'
    BY <1>2, UnboundStep
  <2>2. \A v \in Workers : WhereReadsLook(v)'
    BY <1>2, OwnLook, OthersLook
  <2> QED
    BY <1>t, <2>1, <2>2 DEF Looking
<1> QED
  BY <1>1, <1>2 DEF Next, ServesStep

\* "The nastiest failure in this system" (README) takes a deploy that changes
\* the default while first writes overlap, or a rebind under way: whatever else
\* overlaps, fails or dies, acknowledged writes are where reads look
\* (resolve_provider, bind).
THEOREM WritesAreWhereReadsLook == Spec => []WritesSplitOnlyBesideBinders
<1>1. ASSUME Looking, NEW w \in Workers, Acked(w, Writes)
      PROVE  binding[Owner(req[w].scope)] = req[w].provider \/ Met(w, Binders)
  <2>1. pc[w] = "done" /\ req[w].verb \in ScopeVerbs /\ req[w].verb \in Writes
    BY <1>1 DEF Acked, Writes, ScopeVerbs
  <2>2. binding[Owner(req[w].scope)] # None
    BY <1>1, <2>1 DEF Looking, Meeting, BindingInv, WritesAreBound
  <2> QED
    BY <1>1, <2>1, <2>2 DEF Looking, WhereReadsLook, Resolved
<1>2. Looking => WritesSplitOnlyBesideBinders
  BY <1>1 DEF WritesSplitOnlyBesideBinders
<1> QED
  BY <1>2, InitLooking, NextLooking, PTL DEF Spec

\* And the second read of the binding, for the response, names the provider
\* that was asked (list_memories, delete_memories).
THEOREM ResponsesNameTheProvider == Spec => []MisnamedOnlyBesideBinders
<1>1. Looking => MisnamedOnlyBesideBinders
  BY DEF Looking, WhereReadsLook, MisnamedOnlyBesideBinders, Acked
<1> QED
  BY <1>1, InitLooking, NextLooking, PTL DEF Spec

-----------------------------------------------------------------------------
(* What rebind counts.                                                       *)

\* The rows live_count counts.
Counted(o, p) == {m \in live \cap At(p) : Owner(rowScope[m]) = o}

LEMMA CountedAreFew ==
  ASSUME NEW o, NEW p
  PROVE  IsFiniteSet(Counted(o, p)) /\ LiveCount(o, p) = Cardinality(Counted(o, p))
<1>1. Counted(o, p) \subseteq Memories
  BY DEF Counted, At
<1> QED
  BY <1>1, GatewayAssumption, FS_Subset DEF LiveCount, Counted

\* Until it swaps, what a rebind has read is so but for the binders it has met,
\* and what it has counted but for what files rows and what buries them.
RebindSoFar(w) ==
  LET o == Owner(req[w].scope)
      old == req[w].previous
  IN  /\ pc[w] \in {"count", "swap"} =>
           \/ old = binding[o]
           \/ Met(w, {"rebind"})
           \/ old = None /\ Met(w, Writes)
      /\ pc[w] = "count" => old \notin {None, req[w].provider}
      /\ pc[w] = "swap" /\ old \in {None, req[w].provider} => req[w].orphans = 0
      /\ pc[w] = "swap" /\ old \notin {None, req[w].provider} =>
           /\ LiveCount(o, old) <= req[w].orphans \/ Met(w, Fills)
           /\ req[w].orphans <= LiveCount(o, old) \/ Met(w, Buries)

Counting == Looking /\ \A w \in Workers : RebindSoFar(w)

LEMMA OwnCount ==
  ASSUME Counting, NEW w \in Workers, ServesStep(w)
  PROVE  RebindSoFar(w)'
<1>t. TypeOK /\ RebindSoFar(w)
  BY DEF Counting, Looking, Meeting, BindingInv
<1>1. CASE pc'[w] \notin {"count", "swap"}
  BY <1>1 DEF RebindSoFar
<1>2. CASE pc'[w] \in {"count", "swap"} /\ Begin(w)
  <2>1. PICK o \in Owners, p \in Providers : RebindRead(w, o, p)
    BY <1>t, <1>2 DEF Begin, Prepare, FetchRow, Goto, TypeOK, RequestTypeOK
  <2>2. /\ req'[w].previous = binding[o] /\ req'[w].provider = p /\ req'[w].orphans = 0
        /\ req'[w].scope = Everything(o) /\ binding' = binding
        /\ pc'[w] = IF binding[o] \notin {None, p} THEN "count" ELSE "swap"
    BY <1>t, <2>1 DEF RebindRead, Goto, catalogVars, TypeOK, RequestTypeOK
  <2> QED
    BY <2>2, EverythingIsScope DEF RebindSoFar
<1>3. CASE pc'[w] \in {"count", "swap"} /\ CountOrphans(w)
  <2>1. /\ pc[w] = "count" /\ req[w] \in Request /\ UNCHANGED <<binding, live, rowScope>>
        /\ req'[w] = [req[w] EXCEPT !.orphans = LiveCount(Owner(req[w].scope), req[w].previous)]
        /\ pc'[w] = "swap"
    BY <1>t, <1>3 DEF CountOrphans, Goto, catalogVars, TypeOK, RequestTypeOK
  <2>2. /\ req'[w].previous = req[w].previous /\ req'[w].provider = req[w].provider
        /\ req'[w].scope = req[w].scope
        /\ req'[w].orphans = LiveCount(Owner(req[w].scope), req[w].previous)
    BY <2>1 DEF Request
  <2>3. LiveCount(Owner(req[w].scope), req[w].previous)' = req'[w].orphans
    BY <2>1, <2>2 DEF LiveCount
  <2>4. req'[w].orphans \in Nat
    BY <2>2, LiveCountType
  <2>5. /\ Met(w, {"rebind"}) => Met(w, {"rebind"})'
        /\ Met(w, Writes) => Met(w, Writes)'
    BY <1>t, <1>3, MetStays
  <2>6. req[w].previous \notin {None, req[w].provider}
    BY <1>t, <2>1 DEF RebindSoFar
  <2> QED
    BY <1>t, <2>1, <2>2, <2>3, <2>4, <2>5, <2>6 DEF RebindSoFar
<1> QED
  BY <1>t, <1>1, <1>2, <1>3, Arrivals

\* Rows of an end-user appear by verbs that file rows for them, and go by their
\* deletions.
LEMMA RowsComeAndGo ==
  ASSUME Counting, NEW w \in Workers, ServesStep(w), NEW o, NEW p
  PROVE  /\ \/ Counted(o, p)' \subseteq Counted(o, p)
            \/ pc[w] # "idle" /\ Owner(req[w].scope) = o /\ req[w].verb \in Fills
         /\ \/ Counted(o, p) \subseteq Counted(o, p)'
            \/ pc[w] # "idle" /\ Owner(req[w].scope) = o /\ req[w].verb \in Buries
<1>t. TypeOK /\ VerbsAreAtTheirAwaits /\ TenancyInv
  BY DEF Counting, Looking, Meeting, BindingInv
<1>1. CASE Begin(w) \/ o # Owner(req[w].scope)
  BY <1>t, <1>1, OthersUntouched DEF Untouched, NoNewRows, Counted
<1>2. CASE o = Owner(req[w].scope) /\ (Record(w) \/ MapHits(w))
  <2>1. pc[w] # "idle" /\ req[w].verb \in Fills
    BY <1>t, <1>2 DEF Record, MapHits, VerbsAreAtTheirAwaits, VerbsAt, Fills
  <2>2. PICK M, revive : M \subseteq Memories /\ MapRows(M, req[w].scope, revive)
    BY <1>t, <1>2 DEF Record, MapHits, TypeOK, RequestTypeOK, Request
  <2>3. /\ live' = live \cup Rewritten(M, revive) /\ Rewritten(M, revive) \cap live = {}
        /\ \A m \in Memories : m \notin Rewritten(M, revive) => rowScope'[m] = rowScope[m]
    BY <1>t, <2>2 DEF MapRows, Rewritten, TypeOK, CatalogTypeOK
  <2>4. Counted(o, p) \subseteq Counted(o, p)'
    BY <2>3 DEF Counted, At
  <2> QED
    BY <1>2, <2>1, <2>4
<1>3. CASE o = Owner(req[w].scope) /\ Mark(w)
  <2>1. pc[w] # "idle" /\ req[w].verb \in Buries
    BY <1>t, <1>3 DEF Mark, VerbsAreAtTheirAwaits, VerbsAt, Buries
  <2>2. live' \subseteq live /\ rowScope' = rowScope
    BY <1>3 DEF Mark
  <2>3. Counted(o, p)' \subseteq Counted(o, p)
    BY <2>2 DEF Counted
  <2> QED
    BY <1>3, <2>1, <2>3
<1>4. CASE ~(Begin(w) \/ Record(w) \/ MapHits(w) \/ Mark(w))
  <2>1. live' = live /\ rowScope' = rowScope
    BY <1>4 DEF ServesStep, Progress, WriteCall, UpdateCall, ReadCall, GetCall, DeleteCall,
       CallFails, Bind, Journal, EraseJournal, NameProvider, CountOrphans, SwapBinding, Reply,
       Abort, catalogVars
  <2> QED
    BY <2>1 DEF Counted
<1> QED
  BY <1>1, <1>2, <1>3, <1>4

LEMMA CountStays ==
  ASSUME Counting, NEW w \in Workers, ServesStep(w), NEW v \in Workers \ {w},
         pc[v] = "swap", req[v].previous \notin {None, req[v].provider}
  PROVE  LET o == Owner(req[v].scope)
             old == req[v].previous
         IN  /\ LiveCount(o, old)' <= req[v].orphans \/ Met(v, Fills)'
             /\ req[v].orphans <= LiveCount(o, old)' \/ Met(v, Buries)'
<1> DEFINE o == Owner(req[v].scope)
           old == req[v].previous
<1>t. /\ TypeOK /\ VerbsAreAtTheirAwaits /\ Accompanied /\ RebindSoFar(v)
      /\ pc'[v] = pc[v] /\ req'[v] = req[v] /\ req[v].orphans \in Nat /\ req[v].verb = "rebind"
  BY OthersStay DEF Counting, Looking, Meeting, BindingInv, TypeOK, RequestTypeOK, Request,
     VerbsAreAtTheirAwaits, VerbsAt
<1>1. /\ LiveCount(o, old) <= req[v].orphans \/ Met(v, Fills)
      /\ req[v].orphans <= LiveCount(o, old) \/ Met(v, Buries)
  BY <1>t DEF RebindSoFar
<1>2. LiveCount(o, old) \in Nat /\ LiveCount(o, old)' \in Nat
  <2>1. Counted(o, old)' \subseteq Memories
    BY <1>t DEF Counted, At
  <2>2. Cardinality(Counted(o, old)') \in Nat
    BY <2>1, GatewayAssumption, FS_Subset, FS_CardinalityType
  <2> QED
    BY <1>t, <2>2, LiveCountType DEF LiveCount, Counted
<1>3. \/ ~(pc[w] # "idle" /\ Owner(req[w].scope) = o /\ req[w].verb \in Fills \cup Buries)
      \/ req[w].verb \in beside[v]
  <2> SUFFICES ASSUME pc[w] # "idle", Owner(req[w].scope) = o, req[w].verb \in Fills \cup Buries
               PROVE  req[w].verb \in beside[v]
    OBVIOUS
  <2>1. Disturbs(w, v)
    BY <1>t DEF Disturbs, Fills, Buries, Writes
  <2> QED
    BY <1>t, <2>1, DisturbersAreMet
<1>4. \A verbs : Met(v, verbs) => Met(v, verbs)'
  BY <1>t, MetStays
<1>r. /\ \/ Counted(o, old)' \subseteq Counted(o, old)
         \/ pc[w] # "idle" /\ Owner(req[w].scope) = o /\ req[w].verb \in Fills
      /\ \/ Counted(o, old) \subseteq Counted(o, old)'
         \/ pc[w] # "idle" /\ Owner(req[w].scope) = o /\ req[w].verb \in Buries
  <2>1. PICK a, b : a = o /\ b = old
    OBVIOUS
  <2>2. Counted(o, old) = Counted(a, b) /\ Counted(o, old)' = Counted(a, b)'
    BY <1>t, <2>1 DEF Counted
  <2> QED
    BY <2>1, <2>2, RowsComeAndGo
<1>5. \/ LiveCount(o, old)' <= LiveCount(o, old)
      \/ Met(v, Fills)
  <2>1. CASE Counted(o, old)' \subseteq Counted(o, old)
    <3>1. Cardinality(Counted(o, old)') <= Cardinality(Counted(o, old))
      BY <2>1, CountedAreFew, FS_Subset
    <3> QED
      BY <1>t, <3>1, CountedAreFew DEF LiveCount, Counted
  <2>2. CASE ~(Counted(o, old)' \subseteq Counted(o, old))
    BY <2>2, <1>3, <1>r DEF Met
  <2> QED
    BY <2>1, <2>2
<1>6. \/ LiveCount(o, old) <= LiveCount(o, old)'
      \/ Met(v, Buries)
  <2>1. CASE Counted(o, old) \subseteq Counted(o, old)'
    <3>1. Counted(o, old)' \subseteq Memories
      BY <1>t DEF Counted, At
    <3>2. IsFiniteSet(Counted(o, old)')
      BY <3>1, GatewayAssumption, FS_Subset
    <3>3. Cardinality(Counted(o, old)) <= Cardinality(Counted(o, old)')
      BY <2>1, <3>2, FS_Subset
    <3> QED
      BY <1>t, <3>3, CountedAreFew DEF LiveCount, Counted
  <2>2. CASE ~(Counted(o, old) \subseteq Counted(o, old)')
    BY <2>2, <1>3, <1>r DEF Met
  <2> QED
    BY <2>1, <2>2
<1> QED
  BY <1>t, <1>1, <1>2, <1>4, <1>5, <1>6

LEMMA OthersCount ==
  ASSUME Counting, NEW w \in Workers, ServesStep(w), NEW v \in Workers \ {w}
  PROVE  RebindSoFar(v)'
<1> DEFINE o == Owner(req[v].scope)
           old == req[v].previous
<1>t. /\ TypeOK /\ VerbsAreAtTheirAwaits /\ Accompanied /\ RebindSoFar(v)
      /\ pc'[v] = pc[v] /\ req'[v] = req[v]
  BY OthersStay DEF Counting, Looking, Meeting, BindingInv
<1>1. CASE pc[v] \notin {"count", "swap"}
  BY <1>t, <1>1 DEF RebindSoFar
<1>2. CASE pc[v] \in {"count", "swap"}
  <2>1. req[v].verb = "rebind" /\ o \in Owners
    BY <1>t, <1>2, OwnerType
    DEF VerbsAreAtTheirAwaits, VerbsAt, TypeOK, RequestTypeOK, Request
  <2>2. Met(v, {"rebind"}) => Met(v, {"rebind"})'
    BY <1>t, <1>2, MetStays
  <2>3. Met(v, Writes) => Met(v, Writes)'
    BY <1>t, <1>2, MetStays
  <2>4. \/ old = binding'[o]
        \/ Met(v, {"rebind"})'
        \/ old = None /\ Met(v, Writes)'
    <3>1. CASE binding'[o] = binding[o]
      BY <1>t, <1>2, <2>2, <2>3, <3>1 DEF RebindSoFar
    <3>2. CASE binding'[o] # binding[o]
      <4>1. /\ pc[w] # "idle" /\ Owner(req[w].scope) = o
            /\ req[w].verb = "rebind" \/ (req[w].verb \in Writes /\ binding[o] = None)
        BY <2>1, <3>2, BinderSteps DEF Counting
      <4>2. Disturbs(w, v)
        BY <2>1, <4>1 DEF Disturbs, Writes
      <4>3. req[w].verb \in beside[v]
        BY <1>t, <1>2, <4>1, <4>2, DisturbersAreMet
      <4>4. CASE req[w].verb = "rebind"
        BY <2>2, <4>3, <4>4 DEF Met
      <4>5. CASE req[w].verb \in Writes /\ binding[o] = None
        <5>1. Met(v, Writes)
          BY <4>3, <4>5 DEF Met
        <5>2. old = None \/ Met(v, {"rebind"})
          BY <1>t, <1>2, <4>5 DEF RebindSoFar
        <5> QED
          BY <2>2, <2>3, <5>1, <5>2
      <4> QED
        BY <4>1, <4>4, <4>5
    <3> QED
      BY <3>1, <3>2
  <2>5. CASE pc[v] = "count" \/ old \in {None, req[v].provider}
    BY <1>t, <1>2, <2>4, <2>5 DEF RebindSoFar
  <2>6. CASE pc[v] = "swap" /\ old \notin {None, req[v].provider}
    <3>1. /\ LiveCount(o, old)' <= req[v].orphans \/ Met(v, Fills)'
          /\ req[v].orphans <= LiveCount(o, old)' \/ Met(v, Buries)'
      BY <2>6, CountStays
    <3> QED
      BY <1>t, <1>2, <2>4, <2>6, <3>1 DEF RebindSoFar
  <2> QED
    BY <1>2, <2>5, <2>6
<1> QED
  BY <1>1, <1>2

LEMMA InitCounting == Init => Counting
  BY InitLooking DEF Init, Counting, RebindSoFar

LEMMA NextCounting == Counting /\ [Next]_vars => Counting'
<1> SUFFICES ASSUME Counting, [Next]_vars PROVE Counting'
  OBVIOUS
<1>t. Looking'
  BY NextLooking DEF Counting
<1>1. CASE UNCHANGED vars
  BY <1>t, <1>1 DEF Counting, RebindSoFar, LiveCount, Met, vars, catalogVars
<1>2. ASSUME NEW w \in Workers, ServesStep(w) PROVE Counting'
  BY <1>t, <1>2, OwnCount, OthersCount DEF Counting
<1> QED
  BY <1>1, <1>2 DEF Next, ServesStep

\* What rebind answers is wrong only beside others: never about the binding but
\* beside a write or a rebind, never too few but beside what files rows, never
\* too many but beside a deletion (Catalog.rebind).
THEOREM RebindsCountTheStranded == Spec => MiscountedOnlyBesideOthers
<1> DEFINE Right(w) ==
      (pc[w] = "swap" /\ pc'[w] = "done") =>
        LET o == Owner(req[w].scope)
            stranded == Cardinality(Stranded(o, binding[o]))
        IN  /\ binding[o] # req[w].previous => Met(w, Binders)
            /\ binding[o] \notin {None, req[w].provider} =>
                 /\ req[w].orphans < stranded => Met(w, Fills \cup {"rebind"})
                 /\ req[w].orphans > stranded => Met(w, Buries \cup {"rebind"})
<1>1. ASSUME Counting, NEW w \in Workers, pc[w] = "swap"
      PROVE  Right(w)
  <2> DEFINE o == Owner(req[w].scope)
  <2>1. live \subseteq Memories
    BY <1>1 DEF Counting, Looking, Meeting, BindingInv, TypeOK, CatalogTypeOK
  <2>2. Stranded(o, binding[o]) = Counted(o, binding[o])
    BY <2>1 DEF Stranded, Counted, At
  <2>3. /\ Cardinality(Stranded(o, binding[o])) = LiveCount(o, binding[o])
        /\ LiveCount(o, binding[o]) \in Nat /\ req[w].orphans \in Nat
    BY <1>1, <2>2, CountedAreFew, LiveCountType
    DEF Counting, Looking, Meeting, BindingInv, TypeOK, RequestTypeOK, Request
  <2>4. RebindSoFar(w)
    BY <1>1 DEF Counting
  <2>5. CASE Met(w, {"rebind"})
    BY <2>5 DEF Met, Binders
  <2>6. CASE req[w].previous = None /\ Met(w, Writes)
    <3>1. req[w].orphans = 0
      BY <1>1, <2>4, <2>6 DEF RebindSoFar
    <3>2. Met(w, Binders) /\ Met(w, Fills \cup {"rebind"})
      BY <2>6 DEF Met, Binders, Fills
    <3> QED
      BY <2>3, <3>1, <3>2
  <2>7. CASE req[w].previous = binding[o]
    <3>1. binding[o] \notin {None, req[w].provider} =>
            /\ LiveCount(o, binding[o]) <= req[w].orphans \/ Met(w, Fills)
            /\ req[w].orphans <= LiveCount(o, binding[o]) \/ Met(w, Buries)
      BY <1>1, <2>4, <2>7 DEF RebindSoFar
    <3>2. \A verbs : Met(w, verbs) => Met(w, verbs \cup {"rebind"})
      BY DEF Met
    <3> QED
      BY <2>3, <2>7, <3>1, <3>2
  <2> QED
    BY <1>1, <2>4, <2>5, <2>6, <2>7 DEF RebindSoFar
<1>2. Counting /\ [Next]_vars => [\A w \in Workers : Right(w)]_vars
  BY <1>1
<1> QED
  BY <1>2, InitCounting, NextCounting, PTL DEF Spec, MiscountedOnlyBesideOthers

-----------------------------------------------------------------------------
(* Tombstones of erasures by scope.                                          *)

\* An erasure by scope is called with a scope clients use.
ScopesAreFilters ==
  \A w \in Workers : pc[w] # "idle" /\ req[w].verb \in ScopeVerbs => req[w].scope \in Filters

LEMMA FiltersStep ==
  ASSUME TypeOK, ScopesAreFilters, NEW w \in Workers, ServesStep(w)
  PROVE  ScopesAreFilters'
<1>1. ASSUME NEW v \in Workers \ {w}, pc'[v] # "idle", req'[v].verb \in ScopeVerbs
      PROVE  req'[v].scope \in Filters
  BY <1>1, OthersStay DEF ScopesAreFilters
<1>2. ASSUME pc'[w] # "idle", req'[w].verb \in ScopeVerbs PROVE req'[w].scope \in Filters
  <2>1. CASE Begin(w)
    BY <1>2, <2>1 DEF Begin, Prepare, FetchRow, RebindRead, Goto, ScopeVerbs, IdVerbs, TypeOK,
       RequestTypeOK
  <2>2. CASE Progress(w)
    BY <1>2, <2>2, SameRequest DEF ScopesAreFilters
  <2>3. ~Abort(w)
    BY <1>2 DEF Abort, Leave, Goto, TypeOK, RequestTypeOK
  <2> QED
    BY <2>1, <2>2, <2>3 DEF ServesStep
<1> QED
  BY <1>1, <1>2 DEF ScopesAreFilters

\* Without labels the rows an erasure marks are those of the memories it removed.
LEMMA MarkedByScopeAreGone ==
  ASSUME ErasureInv, ScopesAreFilters, \A s \in Filters : s.label = None,
         NEW w \in Workers, pc[w] = "mark"
  PROVE  Fresh \cap Dead(req[w]) \cap held = {}
<1>t. /\ TypeOK /\ req[w] \in Request
      /\ req[w].verb \in {"delete", "delete_scope"}
  BY DEF ErasureInv, BindingInv, TypeOK, RequestTypeOK, VerbsAreAtTheirAwaits, VerbsAt
<1>1. CASE req[w].verb = "delete"
  BY <1>1 DEF Dead, ErasureInv, ErasureSoFar
<1>2. CASE req[w].verb = "delete_scope"
  <2> SUFFICES ASSUME NEW m \in Fresh \cap held, m \in Dead(req[w]) PROVE FALSE
    OBVIOUS
  <2>1. /\ m \in live /\ m \in At(req[w].provider) /\ m[1] \notin Reuses
        /\ SelectsRow(req[w].scope, rowScope[m])
    BY <1>2 DEF Dead, Fresh
  <2>2. ~Selects(req[w].scope, memScope[m])
    BY <1>2, <2>1 DEF ErasureInv, ErasureSoFar
  <2>3. Owner(memScope[m]) = Owner(rowScope[m]) /\ SelectsRow(rowScope[m], memScope[m])
    BY <2>1 DEF ErasureInv, TenancyInv, RowsFit, Fits
  <2>4. req[w].scope.label = None
    BY <1>2 DEF ScopesAreFilters, ScopeVerbs
  <2>5. SelectsRow(req[w].scope, memScope[m])
    BY <2>1, <2>3 DEF SelectsRow
  <2> QED
    BY <2>2, <2>4, <2>5 DEF Selects
<1> QED
  BY <1>t, <1>1, <1>2

\* Where no scope names a label, erasures and deletions that are kept apart from
\* writes never hide a memory that is held (mark_scope_deleted).
THEOREM TombstonesMeanGoneWithoutLabels ==
  ASSUME \A s \in Filters : s.label = None
  PROVE  ErasuresApartSpec => []TombstoneMeansGone
<1> DEFINE Inv == Erasable /\ ScopesAreFilters /\ TombstoneMeansGone
<1>1. Init => Inv
  BY InitErasable DEF Init, ScopesAreFilters, TombstoneMeansGone
<1>2. ASSUME Inv, NEW w \in Workers, ServesStep(w) PROVE TombstoneMeansGone'
  <2>1. \A m \in Fresh \cap Issued : m \in held' => m \in held
    BY <1>2, StepKeeps DEF Erasable, ErasureInv, BindingInv
  <2>2. buried \subseteq Issued
    BY <1>2 DEF Erasable, ErasureInv, TenancyInv, RowsFit
  <2>3. CASE Mark(w)
    BY <1>2, <2>3, MarkedByScopeAreGone DEF Erasable, Mark, providerVars, TombstoneMeansGone, Fresh
  <2>4. CASE ~Mark(w)
    <3>1. buried' \subseteq buried
      BY <1>2, <2>4 DEF ServesStep, Begin, Prepare, FetchRow, RebindRead, Progress, WriteCall,
         UpdateCall, ReadCall, GetCall, DeleteCall, CallFails, Record, MapHits, MapRows, Bind,
         Journal, EraseJournal, NameProvider, CountOrphans, SwapBinding, Reply, Abort, catalogVars
    <3> QED
      BY <1>2, <2>1, <2>2, <3>1 DEF TombstoneMeansGone, Fresh
  <2> QED
    BY <2>3, <2>4
<1>3. Inv /\ [Next /\ ErasuresApart']_vars => Inv'
  <2> SUFFICES ASSUME Inv, [Next /\ ErasuresApart']_vars PROVE Inv'
    OBVIOUS
  <2>1. Erasable'
    BY NextErasable
  <2>2. CASE UNCHANGED vars
    BY <2>1, <2>2 DEF ScopesAreFilters, TombstoneMeansGone, Fresh, vars, catalogVars, providerVars
  <2>3. ASSUME NEW w \in Workers, ServesStep(w) PROVE Inv'
    BY <1>2, <2>1, <2>3, FiltersStep DEF Erasable, ErasureInv, BindingInv
  <2> QED
    BY <2>2, <2>3 DEF Next, ServesStep
<1>4. Inv => TombstoneMeansGone
  OBVIOUS
<1> QED
  BY <1>1, <1>3, <1>4, PTL DEF ErasuresApartSpec
==============================================================================
