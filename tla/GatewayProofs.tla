---------------------------- MODULE GatewayProofs ----------------------------
(***************************************************************************)
(* What the verbs of MemoryCore guarantee for any number of providers,     *)
(* end-users, memories and requests in flight, with requests that die at   *)
(* any await and providers that fail, lag and deduplicate: bindings are    *)
(* made and moved as promised, and the rows of memories as IdMap says.     *)
(***************************************************************************)
EXTENDS Gateway, FiniteSetTheorems, TLAPS

(* Scopes. *)

LEMMA OnRowIsScope ==
  ASSUME NEW s \in Scope
  PROVE  OnRow(s) \in Scope /\ OnRow(s) \in RowScope /\ Owner(OnRow(s)) = Owner(s)
  BY DEF OnRow, Scope, RowScope, Owner

LEMMA RowScopeIsScope == RowScope \subseteq Scope
  BY OnRowIsScope DEF RowScope

LEMMA OwnerType ==
  ASSUME NEW s \in Scope
  PROVE  Owner(s) \in Owners
  BY DEF Scope, Owner, Owners

LEMMA EverythingIsScope ==
  ASSUME NEW o \in Owners
  PROVE  Everything(o) \in Scope /\ Owner(Everything(o)) = o
  BY DEF Everything, Scope, Owners, Owner

LEMMA AtType ==
  ASSUME NEW p, NEW m \in At(p)
  PROVE  m \in Memories
  BY DEF At

-----------------------------------------------------------------------------
(* Moving a request to its next await. *)

LEMMA GotoType ==
  ASSUME RequestTypeOK, NEW w \in Workers, NEW label \in PcLabels \ {"idle"},
         NEW locals \in Request, Goto(w, label, locals)
  PROVE  RequestTypeOK'
<1>1. /\ pc' \in [Workers -> PcLabels] /\ req' \in [Workers -> Request \cup {None}]
      /\ \A v \in Workers : pc'[v] # "idle" => req'[v] \in Request
  BY DEF RequestTypeOK, Goto
<1>2. \A v \in Workers : Company(v)' \subseteq Verbs
  BY <1>1 DEF InFlight, Company, Request
<1> QED
  BY <1>1, <1>2 DEF RequestTypeOK, Goto

LEMMA LeaveType ==
  ASSUME RequestTypeOK, NEW w \in Workers, Leave(w)
  PROVE  RequestTypeOK'
<1>1. /\ pc' \in [Workers -> PcLabels] /\ req' \in [Workers -> Request \cup {None}]
      /\ \A v \in Workers : pc'[v] # "idle" => req'[v] \in Request
  BY DEF RequestTypeOK, Leave, Goto, PcLabels
<1>2. \A v \in Workers : Company(v)' \subseteq Verbs
  BY <1>1 DEF InFlight, Company, Request
<1> QED
  BY <1>1, <1>2 DEF RequestTypeOK, Leave, Goto

LEMMA MemsType ==
  ASSUME NEW r \in Request, NEW M \in SUBSET Memories
  PROVE  [r EXCEPT !.mems = M] \in Request
  BY DEF Request

LEMMA DoomedType ==
  ASSUME ProviderTypeOK, NEW r \in Request
  PROVE  Doomed(r) \in SUBSET Memories
  BY DEF Doomed, Request, ProviderTypeOK

LEMMA StoreType ==
  ASSUME ProviderTypeOK, NEW M \in SUBSET Memories, NEW s \in Scope, Store(M, s)
  PROVE  ProviderTypeOK'
  BY DEF ProviderTypeOK, Store

LEMMA ForgetType ==
  ASSUME ProviderTypeOK, NEW M \in SUBSET Memories, Forget(M)
  PROVE  ProviderTypeOK'
  BY DEF ProviderTypeOK, Forget

LEMMA LiveCountType ==
  ASSUME NEW o, NEW p
  PROVE  LiveCount(o, p) \in Nat
<1>1. {m \in live \cap At(p) : Owner(rowScope[m]) = o} \subseteq Memories
  BY DEF At
<1> QED
  BY <1>1, GatewayAssumption, FS_Subset, FS_CardinalityType DEF LiveCount

LEMMA MapRowsType ==
  ASSUME CatalogTypeOK, NEW M \in SUBSET Memories, NEW s \in Scope,
         NEW revive \in BOOLEAN, MapRows(M, s, revive),
         UNCHANGED <<binding, journal>>
  PROVE  CatalogTypeOK'
<1>1. OnRow(s) \in RowScope
  BY OnRowIsScope
<1> QED
  BY <1>1 DEF CatalogTypeOK, MapRows, Rewritten

-----------------------------------------------------------------------------
(* Type correctness. *)

LEMMA BeginType ==
  ASSUME TypeOK, NEW w \in Workers, Begin(w)
  PROVE  TypeOK'
<1>1. CatalogTypeOK' /\ ProviderTypeOK' /\ swept' \subseteq Memories
  BY DEF Begin, Prepare, FetchRow, RebindRead, TypeOK, CatalogTypeOK,
         ProviderTypeOK, catalogVars, providerVars
<1>2. RequestTypeOK'
  <2>1. ASSUME NEW verb \in Verbs \cap ScopeVerbs, NEW s \in Filters,
               NEW a \in Providers \cup {None}, Prepare(w, verb, s, a)
        PROVE  RequestTypeOK'
    <3>1. s \in Scope /\ s.tenant \in Tenants
      BY GatewayAssumption DEF Scope
    <3>2. Resolved(w, Owner(s)) \in Providers
      BY <2>1, <3>1, OwnerType, GatewayAssumption
      DEF Prepare, Resolved, TypeOK, CatalogTypeOK
    <3>3. [verb |-> verb, tenant |-> s.tenant, scope |-> s,
           provider |-> Resolved(w, Owner(s)), mems |-> {}, previous |-> None,
           orphans |-> 0, named |-> None] \in Request
      BY <3>1, <3>2 DEF Request
    <3>4. "call" \in PcLabels \ {"idle"}
      BY DEF PcLabels
    <3> QED
      BY <2>1, <3>3, <3>4, GotoType DEF Prepare, TypeOK
  <2>2. ASSUME NEW verb \in Verbs \cap IdVerbs, NEW t \in Tenants, NEW m \in Memories,
               FetchRow(w, verb, t, m)
        PROVE  RequestTypeOK'
    <3>1. rowScope[m] \in Scope
      BY <2>2, RowScopeIsScope DEF FetchRow, VisibleTo, TypeOK, CatalogTypeOK
    <3>2. m[1] \in Providers
      BY DEF Memories
    <3>3. [verb |-> verb, tenant |-> t, scope |-> rowScope[m],
           provider |-> m[1], mems |-> {m}, previous |-> None,
           orphans |-> 0, named |-> None] \in Request
      BY <3>1, <3>2 DEF Request
    <3>4. "call" \in PcLabels \ {"idle"}
      BY DEF PcLabels
    <3> QED
      BY <2>2, <3>3, <3>4, GotoType DEF FetchRow, TypeOK
  <2>3. ASSUME NEW o \in Owners, NEW p \in Providers, "rebind" \in Verbs,
               RebindRead(w, o, p)
        PROVE  RequestTypeOK'
    <3>1. [verb |-> "rebind", tenant |-> o[1], scope |-> Everything(o),
           provider |-> p, mems |-> {}, previous |-> binding[o],
           orphans |-> 0, named |-> None] \in Request
      BY <2>3, EverythingIsScope DEF Request, TypeOK, CatalogTypeOK, Owners
    <3>2. "count" \in PcLabels \ {"idle"} /\ "swap" \in PcLabels \ {"idle"}
      BY DEF PcLabels
    <3> QED
      BY <2>3, <3>1, <3>2, GotoType DEF RebindRead, TypeOK
  <2> QED
    BY <2>1, <2>2, <2>3 DEF Begin
<1> QED
  BY <1>1, <1>2 DEF TypeOK

LEMMA CallType ==
  ASSUME TypeOK, NEW w \in Workers, pc[w] = "call",
         WriteCall(w) \/ UpdateCall(w) \/ ReadCall(w) \/ GetCall(w)
           \/ DeleteCall(w) \/ CallFails(w)
  PROVE  TypeOK'
<1>1. req[w] \in Request /\ req[w].scope \in Scope /\ req[w].provider \in Providers
  BY DEF TypeOK, RequestTypeOK, Request
<1>2. {"record", "map", "mark", "done"} \subseteq PcLabels \ {"idle"}
  BY DEF PcLabels
<1>3. CatalogTypeOK' /\ swept' \subseteq Memories
  <2>1. UNCHANGED catalogVars
    BY DEF WriteCall, UpdateCall, ReadCall, GetCall, DeleteCall, CallFails
  <2>2. swept' \subseteq swept
    BY DEF WriteCall, UpdateCall, ReadCall, GetCall, DeleteCall, CallFails,
           Store, Forget
  <2> QED
    BY <2>1, <2>2 DEF TypeOK, CatalogTypeOK, catalogVars
<1>4. Issuable(req[w].provider, req[w].scope) \subseteq Memories
  BY DEF Issuable, At
<1>5. Doomed(req[w]) \in SUBSET Memories
  BY <1>1, DoomedType DEF TypeOK
<1>6. ProviderTypeOK'
  <2>1. CASE WriteCall(w)
    BY <2>1, <1>1, <1>4, StoreType DEF WriteCall, TypeOK
  <2>2. CASE UpdateCall(w) \/ ReadCall(w) \/ GetCall(w)
    BY <2>2 DEF UpdateCall, ReadCall, GetCall, TypeOK, ProviderTypeOK, providerVars
  <2>3. CASE DeleteCall(w)
    BY <2>3, <1>5, ForgetType DEF DeleteCall, TypeOK
  <2>4. CASE CallFails(w)
    <3>1. CASE \E M \in SUBSET Issuable(req[w].provider, req[w].scope) :
                 Store(M, req[w].scope)
      BY <3>1, <1>1, <1>4, StoreType DEF TypeOK
    <3>2. CASE \E M \in SUBSET Doomed(req[w]) : Forget(M)
      BY <3>2, <1>5, ForgetType DEF TypeOK
    <3>3. CASE UNCHANGED providerVars
      BY <3>3 DEF TypeOK, ProviderTypeOK, providerVars
    <3> QED
      BY <2>4, <3>1, <3>2, <3>3 DEF CallFails
  <2> QED
    BY <2>1, <2>2, <2>3, <2>4
<1>7. RequestTypeOK'
  <2>1. CASE WriteCall(w)
    <3>1. PICK M \in SUBSET Issuable(req[w].provider, req[w].scope) :
            Goto(w, "record", [req[w] EXCEPT !.mems = M])
      BY <2>1 DEF WriteCall
    <3>2. [req[w] EXCEPT !.mems = M] \in Request
      BY <1>1, <1>4, MemsType
    <3> QED
      BY <3>1, <3>2, <1>2, GotoType DEF TypeOK
  <2>2. CASE UpdateCall(w)
    BY <2>2, <1>1, <1>2, GotoType DEF UpdateCall, TypeOK
  <2>3. CASE GetCall(w)
    BY <2>3, <1>1, <1>2, GotoType DEF GetCall, TypeOK
  <2>4. CASE ReadCall(w)
    <3>1. PICK hits \in SUBSET Memories :
            Goto(w, "map", [req[w] EXCEPT !.mems = hits])
      BY <2>4, AtType DEF ReadCall, Findable
    <3>2. [req[w] EXCEPT !.mems = hits] \in Request
      BY <1>1, MemsType
    <3> QED
      BY <3>1, <3>2, <1>2, GotoType DEF TypeOK
  <2>5. CASE DeleteCall(w)
    <3>1. [req[w] EXCEPT !.mems = Doomed(req[w])] \in Request
      BY <1>1, <1>5, MemsType
    <3> QED
      BY <2>5, <3>1, <1>2, GotoType DEF DeleteCall, TypeOK
  <2>6. CASE CallFails(w)
    BY <2>6, LeaveType DEF CallFails, TypeOK
  <2> QED
    BY <2>1, <2>2, <2>3, <2>4, <2>5, <2>6
<1> QED
  BY <1>3, <1>6, <1>7 DEF TypeOK

LEMMA TransactionType ==
  ASSUME TypeOK, NEW w \in Workers,
         Record(w) \/ Bind(w) \/ Journal(w) \/ MapHits(w) \/ Mark(w)
           \/ EraseJournal(w) \/ NameProvider(w) \/ CountOrphans(w) \/ SwapBinding(w)
  PROVE  TypeOK'
<1>1. req[w] \in Request
  BY DEF TypeOK, RequestTypeOK, Record, Bind, Journal, MapHits, Mark,
         EraseJournal, NameProvider, CountOrphans, SwapBinding
<1>2. /\ req[w].scope \in Scope
      /\ req[w].provider \in Providers
      /\ req[w].mems \in SUBSET Memories
  BY <1>1 DEF Request
<1>3. {"bind", "journal", "erase", "name", "swap", "done"} \subseteq PcLabels \ {"idle"}
  BY DEF PcLabels
<1>4. ProviderTypeOK'
  BY DEF TypeOK, ProviderTypeOK, providerVars, Record, Bind, Journal, MapHits,
         Mark, EraseJournal, NameProvider, CountOrphans, SwapBinding
<1>5. swept' \subseteq Memories
  BY <1>2 DEF TypeOK, Record, Bind, Journal, MapHits, Mark, EraseJournal,
              NameProvider, CountOrphans, SwapBinding
<1>6. CatalogTypeOK'
  <2>1. CASE Record(w)
    BY <2>1, <1>2, MapRowsType DEF Record, TypeOK
  <2>2. CASE MapHits(w)
    BY <2>2, <1>2, MapRowsType DEF MapHits, TypeOK
  <2>3. CASE Bind(w)
    BY <2>3, <1>2 DEF Bind, BoundTo, TypeOK, CatalogTypeOK
  <2>4. CASE Journal(w)
    BY <2>4, <1>2, OnRowIsScope DEF Journal, TypeOK, CatalogTypeOK, Episode
  <2>5. CASE Mark(w)
    BY <2>5, <1>2 DEF Mark, Dead, TypeOK, CatalogTypeOK
  <2>6. CASE EraseJournal(w)
    BY <2>6 DEF EraseJournal, TypeOK, CatalogTypeOK
  <2>7. CASE NameProvider(w) \/ CountOrphans(w)
    BY <2>7 DEF NameProvider, CountOrphans, TypeOK, CatalogTypeOK, catalogVars
  <2>8. CASE SwapBinding(w)
    BY <2>8, <1>2 DEF SwapBinding, TypeOK, CatalogTypeOK
  <2> QED
    BY <2>1, <2>2, <2>3, <2>4, <2>5, <2>6, <2>7, <2>8
<1>7. RequestTypeOK'
  <2>1. CASE CountOrphans(w)
    <3>1. LiveCount(Owner(req[w].scope), req[w].previous) \in Nat
      BY LiveCountType
    <3>2. [req[w] EXCEPT !.orphans = LiveCount(Owner(req[w].scope), req[w].previous)]
            \in Request
      BY <1>1, <3>1 DEF Request
    <3> QED
      BY <2>1, <3>2, <1>3, GotoType DEF CountOrphans, TypeOK
  <2>2. CASE MapHits(w)
    <3>1. [req[w] EXCEPT !.mems = @ \ buried] \in Request
      BY <1>1 DEF Request
    <3> QED
      BY <2>2, <3>1, <1>3, GotoType DEF MapHits, TypeOK
  <2>3. CASE Record(w)
    BY <2>3, <1>1, <1>3, GotoType DEF Record, AfterRecord, TypeOK
  <2>4. CASE Bind(w)
    BY <2>4, <1>1, <1>3, GotoType DEF Bind, AfterBind, TypeOK
  <2>5. CASE Mark(w)
    BY <2>5, <1>1, <1>3, GotoType DEF Mark, TypeOK
  <2>6. CASE Journal(w) \/ EraseJournal(w) \/ SwapBinding(w)
    BY <2>6, <1>1, <1>3, GotoType DEF Journal, EraseJournal, SwapBinding, TypeOK
  <2>7. CASE NameProvider(w)
    <3>1. NamedFor(w, Owner(req[w].scope)) \in Providers \cup {None}
      BY <1>2, OwnerType, GatewayAssumption DEF NamedFor, TypeOK, CatalogTypeOK
    <3>2. [req[w] EXCEPT !.named = NamedFor(w, Owner(req[w].scope))] \in Request
      BY <1>1, <3>1 DEF Request
    <3> QED
      BY <2>7, <3>2, <1>3, GotoType DEF NameProvider, TypeOK
  <2> QED
    BY <2>1, <2>2, <2>3, <2>4, <2>5, <2>6, <2>7
<1> QED
  BY <1>4, <1>5, <1>6, <1>7 DEF TypeOK

LEMMA ReplyOrAbortType ==
  ASSUME TypeOK, NEW w \in Workers, Reply(w) \/ Abort(w)
  PROVE  TypeOK'
<1>1. RequestTypeOK'
  BY LeaveType DEF Reply, Abort, TypeOK
<1> QED
  BY <1>1 DEF Reply, Abort, TypeOK, CatalogTypeOK, ProviderTypeOK,
              catalogVars, providerVars

\* A call of a provider is made by a request that is at one.
LEMMA CallsAreAtCall ==
  ASSUME NEW w \in Workers,
         WriteCall(w) \/ UpdateCall(w) \/ ReadCall(w) \/ GetCall(w)
           \/ DeleteCall(w) \/ CallFails(w)
  PROVE  pc[w] = "call"
  BY DEF WriteCall, UpdateCall, ReadCall, GetCall, DeleteCall, CallFails, Calling

LEMMA InitType == Init => TypeOK
<1> SUFFICES ASSUME Init PROVE TypeOK
  OBVIOUS
<1>1. "idle" \in PcLabels
  BY DEF PcLabels
<1> QED
  BY <1>1 DEF Init, TypeOK, CatalogTypeOK, ProviderTypeOK, RequestTypeOK

LEMMA NextType == TypeOK /\ [Next]_vars => TypeOK'
<1> SUFFICES ASSUME TypeOK, [Next]_vars PROVE TypeOK'
  OBVIOUS
<1>1. CASE UNCHANGED vars
  BY <1>1 DEF vars, catalogVars, providerVars, TypeOK, CatalogTypeOK,
              ProviderTypeOK, RequestTypeOK
<1>2. ASSUME NEW w \in Workers, Begin(w) \/ Progress(w) \/ Abort(w)
      PROVE  TypeOK'
  BY <1>2, BeginType, CallsAreAtCall, CallType, TransactionType, ReplyOrAbortType
  DEF Progress
<1> QED
  BY <1>1, <1>2 DEF Next

\* The tables, the stores and the requests keep their types; a row is never
\* both live and deleted, a memory never both held and gone.
THEOREM TypeCorrect == Spec => []TypeOK
  BY InitType, NextType, PTL DEF Spec

-----------------------------------------------------------------------------
(* Bindings. *)

ServesStep(w) == Begin(w) \/ Progress(w) \/ Abort(w)

\* A step of one request leaves the others where they are.
LEMMA OthersStay ==
  ASSUME TypeOK, NEW w \in Workers, ServesStep(w), NEW v \in Workers \ {w}
  PROVE  pc'[v] = pc[v] /\ req'[v] = req[v]
<1>1. \E label, locals : Goto(w, label, locals)
  BY DEF ServesStep, Begin, Prepare, FetchRow, RebindRead, Progress, WriteCall,
         UpdateCall, ReadCall, GetCall, DeleteCall, CallFails, Record, Bind,
         Journal, MapHits, Mark, EraseJournal, NameProvider, CountOrphans, SwapBinding, Reply,
         Abort, Leave
<1> QED
  BY <1>1 DEF Goto, TypeOK, RequestTypeOK

\* Only the last transaction of a write or of a rebind touches a binding.
LEMMA BindingStep ==
  ASSUME TypeOK, NEW w \in Workers, ServesStep(w), binding' # binding
  PROVE  Bind(w) \/ SwapBinding(w)
  BY DEF ServesStep, Begin, Prepare, FetchRow, RebindRead, Progress, WriteCall,
         UpdateCall, ReadCall, GetCall, DeleteCall, CallFails, Record,
         Journal, MapHits, Mark, EraseJournal, NameProvider, CountOrphans, Reply, Abort,
         catalogVars

LEMMA BindingIsNeverCleared ==
  ASSUME TypeOK, NEW w \in Workers, ServesStep(w), NEW o \in Owners,
         binding[o] # None
  PROVE  binding'[o] # None
<1>1. CASE Bind(w)
  BY <1>1, GatewayAssumption DEF Bind, BoundTo, TypeOK, CatalogTypeOK, RequestTypeOK
<1>2. CASE SwapBinding(w)
  <2>1. req[w].provider \in Providers
    BY <1>2 DEF SwapBinding, TypeOK, RequestTypeOK, Request
  <2> QED
    BY <1>2, <2>1, GatewayAssumption DEF SwapBinding, TypeOK, CatalogTypeOK
<1> QED
  BY <1>1, <1>2, BindingStep

\* A write past its bind has a binding, and so has an acknowledged one.
WritesAreBound ==
  \A w \in Workers :
    pc[w] \in {"journal", "done"} /\ req[w].verb \in Writes
      => binding[Owner(req[w].scope)] # None

\* Which verbs come to which await.
VerbsAt(label) ==
  CASE label = "call" -> ScopeVerbs \cup IdVerbs
    [] label = "record" -> Writes \cup {"update"}
    [] label = "bind" -> Writes
    [] label = "journal" -> {"ingest"}
    [] label = "map" -> {"search", "list_scope"}
    [] label = "mark" -> {"delete", "delete_scope"}
    [] label = "erase" -> {"delete_scope"}
    [] label = "name" -> {"list_scope", "delete_scope"}
    [] label \in {"count", "swap"} -> {"rebind"}
    [] OTHER -> ScopeVerbs \cup IdVerbs \cup {"rebind"}

VerbsAreAtTheirAwaits ==
  \A w \in Workers : pc[w] # "idle" => req[w].verb \in VerbsAt(pc[w])

LEMMA VerbsStep ==
  ASSUME TypeOK, VerbsAreAtTheirAwaits, NEW w \in Workers, ServesStep(w)
  PROVE  VerbsAreAtTheirAwaits'
<1>1. ASSUME NEW v \in Workers \ {w}, pc'[v] # "idle"
      PROVE  req'[v].verb \in VerbsAt(pc'[v])
  BY <1>1, OthersStay DEF VerbsAreAtTheirAwaits
<1>2. ASSUME pc'[w] # "idle"
      PROVE  req'[w].verb \in VerbsAt(pc'[w])
  <2>1. CASE Begin(w)
    BY <2>1 DEF Begin, Prepare, FetchRow, RebindRead, Goto, VerbsAt, TypeOK,
                RequestTypeOK
  <2>2. CASE pc[w] = "call" /\ Progress(w)
    <3>1. \E M \in SUBSET Memories, label \in {"record", "map", "mark", "done"} :
             /\ pc'[w] = label
             /\ req'[w] = [req[w] EXCEPT !.mems = M] \/ req'[w] = req[w]
             /\ req[w].verb \in VerbsAt(label)
      <4>1. CASE WriteCall(w)
        BY <4>1 DEF WriteCall, Calling, Goto, VerbsAt, TypeOK, RequestTypeOK,
                    Issuable, At, Writes
      <4>2. CASE UpdateCall(w) \/ GetCall(w)
        BY <4>2 DEF UpdateCall, GetCall, Calling, Goto, VerbsAt, TypeOK,
                    RequestTypeOK, IdVerbs
      <4>3. CASE ReadCall(w)
        BY <4>3 DEF ReadCall, Findable, Calling, Goto, VerbsAt, TypeOK, RequestTypeOK, At
      <4>4. CASE DeleteCall(w)
        <5>1. Doomed(req[w]) \in SUBSET Memories
          BY <2>2, DoomedType DEF TypeOK, RequestTypeOK
        <5> QED
          BY <4>4, <5>1 DEF DeleteCall, Calling, Goto, VerbsAt, TypeOK, RequestTypeOK
      <4>5. ~CallFails(w)
        BY <1>2 DEF CallFails, Leave, Goto, TypeOK, RequestTypeOK
      <4> QED
        BY <2>2, <4>1, <4>2, <4>3, <4>4, <4>5
        DEF Progress, Record, Bind, Journal, MapHits, Mark, EraseJournal,
            NameProvider, CountOrphans, SwapBinding, Reply
    <3>2. req[w] \in Request
      BY <2>2 DEF TypeOK, RequestTypeOK
    <3> QED
      BY <3>1, <3>2 DEF Request
  <2>3. CASE pc[w] # "call" /\ Progress(w)
    <3>1. \/ Record(w) \/ Bind(w) \/ Journal(w) \/ MapHits(w) \/ Mark(w)
          \/ EraseJournal(w) \/ NameProvider(w) \/ CountOrphans(w) \/ SwapBinding(w)
      <4>1. ~Reply(w)
        BY <1>2 DEF Reply, Leave, Goto, TypeOK, RequestTypeOK
      <4> QED
        BY <2>3, <4>1, CallsAreAtCall DEF Progress
    <3>2. req[w] \in Request /\ req[w].verb \in VerbsAt(pc[w])
      BY <3>1 DEF Record, Bind, Journal, MapHits, Mark, EraseJournal, NameProvider, CountOrphans,
           SwapBinding, VerbsAreAtTheirAwaits, TypeOK, RequestTypeOK
    <3>3. \/ req'[w] = req[w]
          \/ req'[w] = [req[w] EXCEPT !.mems = @ \ buried]
          \/ \E n : req'[w] = [req[w] EXCEPT !.orphans = n]
          \/ \E p : req'[w] = [req[w] EXCEPT !.named = p]
      BY <3>1 DEF Record, Bind, Journal, MapHits, Mark, EraseJournal, NameProvider, CountOrphans,
           SwapBinding, Goto, TypeOK, RequestTypeOK
    <3>4. req'[w].verb = req[w].verb
      BY <3>2, <3>3 DEF Request
    <3> QED
      BY <3>1, <3>2, <3>4 DEF TypeOK, RequestTypeOK, Record, Bind, Journal, MapHits,
           Mark, EraseJournal, NameProvider, CountOrphans, SwapBinding, Goto, AfterRecord, AfterBind,
           VerbsAt, Writes, ScopeVerbs, IdVerbs
  <2>4. ~Abort(w)
    BY <1>2 DEF Abort, Leave, Goto, TypeOK, RequestTypeOK
  <2> QED
    BY <2>1, <2>2, <2>3, <2>4 DEF ServesStep
<1> QED
  BY <1>1, <1>2 DEF VerbsAreAtTheirAwaits

\* A request is past its bind, as a write, only by the bind itself or by the
\* journal entry that follows it.
LEMMA WriteIsBoundByBind ==
  ASSUME TypeOK, VerbsAreAtTheirAwaits, NEW w \in Workers, ServesStep(w),
         pc'[w] \in {"journal", "done"}, req'[w].verb \in Writes
  PROVE  Bind(w) \/ (pc[w] = "journal" /\ req'[w] = req[w])
<1>1. ~(Begin(w) \/ Reply(w) \/ Abort(w) \/ CallFails(w))
  BY DEF Begin, Prepare, FetchRow, RebindRead, Reply, Abort, CallFails, Leave,
         Goto, TypeOK, RequestTypeOK
<1>2. ~(WriteCall(w) \/ UpdateCall(w) \/ ReadCall(w) \/ DeleteCall(w) \/ CountOrphans(w))
  BY DEF WriteCall, UpdateCall, ReadCall, DeleteCall, CountOrphans, Goto,
         TypeOK, RequestTypeOK
<1>3. ~(GetCall(w) \/ Record(w))
  BY DEF GetCall, Calling, Record, AfterRecord, Goto, TypeOK, RequestTypeOK, Writes
<1>4. ~(MapHits(w) \/ Mark(w) \/ EraseJournal(w) \/ NameProvider(w) \/ SwapBinding(w))
  <2>1. ASSUME MapHits(w) \/ Mark(w) \/ EraseJournal(w) \/ NameProvider(w) \/ SwapBinding(w)
        PROVE  FALSE
    <3>1. req[w] \in Request /\ req[w].verb \notin Writes
      BY <2>1 DEF MapHits, Mark, EraseJournal, NameProvider, SwapBinding, VerbsAreAtTheirAwaits,
                  VerbsAt, TypeOK, RequestTypeOK, Writes
    <3>r. \/ req'[w] = req[w]
          \/ req'[w] = [req[w] EXCEPT !.mems = @ \ buried]
          \/ \E p : req'[w] = [req[w] EXCEPT !.named = p]
      BY <2>1 DEF MapHits, Mark, EraseJournal, NameProvider, SwapBinding, Goto, TypeOK,
                  RequestTypeOK
    <3>2. req'[w].verb = req[w].verb
      BY <3>1, <3>r DEF Request
    <3> QED
      BY <3>1, <3>2
  <2> QED
    BY <2>1
<1>5. CASE Journal(w)
  BY <1>5 DEF Journal, Goto, TypeOK, RequestTypeOK
<1> QED
  BY <1>1, <1>2, <1>3, <1>4, <1>5 DEF ServesStep, Progress

LEMMA WritesAreBoundStep ==
  ASSUME TypeOK, VerbsAreAtTheirAwaits, WritesAreBound, NEW w \in Workers,
         ServesStep(w)
  PROVE  WritesAreBound'
<1>1. ASSUME NEW v \in Workers, pc'[v] \in {"journal", "done"}, req'[v].verb \in Writes
      PROVE  binding'[Owner(req'[v].scope)] # None
  <2>1. CASE v = w /\ Bind(w)
    <3>1. req[w] \in Request /\ req'[w] = req[w]
      BY <2>1 DEF Bind, Goto, TypeOK, RequestTypeOK
    <3>2. Owner(req[w].scope) \in Owners /\ req[w].provider \in Providers
      BY <3>1, OwnerType DEF Request
    <3> QED
      BY <2>1, <3>1, <3>2, GatewayAssumption DEF Bind, BoundTo, TypeOK, CatalogTypeOK
  <2>2. CASE pc[v] \in {"journal", "done"} /\ req'[v] = req[v]
    <3>1. Owner(req[v].scope) \in Owners
      BY <2>2, OwnerType DEF TypeOK, RequestTypeOK, Request
    <3> QED
      BY <2>2, <3>1, <1>1, BindingIsNeverCleared DEF WritesAreBound
  <2> QED
    BY <1>1, <2>1, <2>2, OthersStay, WriteIsBoundByBind
<1> QED
  BY <1>1 DEF WritesAreBound

BindingInv == TypeOK /\ VerbsAreAtTheirAwaits /\ WritesAreBound

LEMMA InitBinding == Init => BindingInv
  BY InitType DEF BindingInv, Init, VerbsAreAtTheirAwaits, WritesAreBound

LEMMA NextBinding == BindingInv /\ [Next]_vars => BindingInv'
<1> SUFFICES ASSUME BindingInv, [Next]_vars PROVE BindingInv'
  OBVIOUS
<1>1. CASE UNCHANGED vars
  BY <1>1, NextType DEF BindingInv, VerbsAreAtTheirAwaits, WritesAreBound, vars,
                        catalogVars
<1>2. ASSUME NEW w \in Workers, ServesStep(w)
      PROVE  BindingInv'
  BY <1>2, NextType, VerbsStep, WritesAreBoundStep DEF BindingInv
<1> QED
  BY <1>1, <1>2 DEF Next, ServesStep

\* An acknowledged write left its end-user bound, whatever it raced with.
THEOREM AckedWritesAreBound == Spec => []AckedWriteIsBound
<1>1. BindingInv => AckedWriteIsBound
  BY DEF BindingInv, WritesAreBound, AckedWriteIsBound, Acked
<1> QED
  BY <1>1, InitBinding, NextBinding, PTL DEF Spec

\* No interleaving of writes and rebinds moves an existing binding but the
\* last transaction of a rebind, and none is ever cleared.
THEOREM BindingsMoveOnlyByRebind == Spec => BindingMovesOnlyByRebind
<1>1. ASSUME BindingInv, [Next]_vars, NEW o \in Owners, binding'[o] # binding[o]
      PROVE  MovedOnlyByRebind(o)
  <2>1. PICK w \in Workers : Bind(w) \/ SwapBinding(w)
    BY <1>1, BindingStep DEF Next, ServesStep, BindingInv, vars, catalogVars
  <2>2. pc'[w] # pc[w] /\ pc[w] # "idle"
    BY <2>1, <1>1 DEF Bind, SwapBinding, AfterBind, Goto, BindingInv, TypeOK, RequestTypeOK
  <2>3. Owner(req[w].scope) = o /\ req[w].provider = binding'[o]
    BY <2>1, <1>1 DEF Bind, BoundTo, SwapBinding, BindingInv, TypeOK, CatalogTypeOK
  <2>4. CASE Bind(w)
    <3>1. binding[o] = None
      BY <2>4, <2>3, <1>1 DEF Bind, BoundTo, BindingInv, TypeOK, CatalogTypeOK
    <3>2. req[w].verb \in Writes
      BY <2>4, <1>1 DEF Bind, BindingInv, VerbsAreAtTheirAwaits, VerbsAt
    <3> QED
      BY <3>1, <3>2, <2>2, <2>3 DEF MovedOnlyByRebind
  <2>5. CASE SwapBinding(w)
    <3>1. req[w].verb = "rebind"
      BY <2>5, <1>1 DEF SwapBinding, BindingInv, VerbsAreAtTheirAwaits, VerbsAt
    <3> QED
      BY <3>1, <2>2, <2>3 DEF MovedOnlyByRebind
  <2> QED
    BY <2>1, <2>4, <2>5
<1>2. BindingInv /\ [Next]_vars =>
        [\A o \in Owners : binding'[o] # binding[o] => MovedOnlyByRebind(o)]_vars
  BY <1>1
<1> QED
  BY <1>2, InitBinding, NextBinding, PTL DEF Spec, BindingMovesOnlyByRebind
-----------------------------------------------------------------------------
(* Rows. *)

LEMMA RowsIssued ==
  ASSUME CatalogTypeOK
  PROVE  Rows!Issued = live \cup buried
  BY GatewayAssumption DEF CatalogTypeOK, Rows!Issued

\* A mapping transaction publishes: rows there were none of, and for a write
\* those that were marked deleted.
LEMMA MapRowsPublishes ==
  ASSUME CatalogTypeOK, NEW M \in SUBSET Memories, NEW s, NEW revive \in BOOLEAN,
         MapRows(M, s, revive)
  PROVE  Rows!Next
<1> DEFINE new == M \ (live \cup buried)
           back == IF revive THEN M \cap buried ELSE {}
           id == [m \in Memories |-> IF m \in live \cup buried THEN m ELSE None]
<1>1. new \in SUBSET (Memories \ Rows!Issued) /\ back \in SUBSET Rows!Issued
  BY RowsIssued
<1>2. /\ live' = live \cup new \cup back
      /\ live' \cup buried' = live \cup buried \cup new
  BY DEF MapRows, Rewritten
<1>3. live \cup buried \subseteq Memories
  BY DEF CatalogTypeOK
<1>4. /\ id' \in [Memories -> Memories \cup {None}]
      /\ \A m \in Memories : IF m \in new THEN id'[m] \in Memories ELSE id'[m] = id[m]
      /\ \A m \in new, n \in Memories : id'[m] = id'[n] => m = n
  BY <1>2, <1>3, GatewayAssumption
<1>5. PICK n \in SUBSET (Memories \ Rows!Issued), b \in SUBSET Rows!Issued : n = new /\ b = back
  BY <1>1
<1>6. Rows!Publish(n, b)
  BY <1>1, <1>2, <1>4, <1>5 DEF Rows!Publish
<1> QED
  BY <1>6 DEF Rows!Next

\* Marking rows buries them.
LEMMA MarkBuries ==
  ASSUME NEW w \in Workers, Mark(w)
  PROVE  Rows!Next
<1>1. Dead(req[w]) \in SUBSET live
  BY DEF Dead
<1>2. live' = live \ Dead(req[w]) /\ live' \cup buried' = live \cup buried
  BY <1>1 DEF Mark
<1>3. Rows!Bury(Dead(req[w]))
  BY <1>1, <1>2 DEF Rows!Bury
<1> QED
  BY <1>1, <1>3 DEF Rows!Next

\* Whatever the verbs, their failures and their deaths do to memory_index, they
\* do by the steps of IdMap (record_many, ensure_many, mark_scope_deleted).
THEOREM RowsImplementIdMap == Spec => RowsFollowIdMap
<1>1. Init => Rows!Init
  BY DEF Init, Rows!Init
<1>2. ASSUME TypeOK, [Next]_vars PROVE [Rows!Next]_(Rows!idVars)
  <2>1. CASE UNCHANGED <<live, buried>>
    BY <2>1 DEF Rows!idVars
  <2>2. ASSUME NEW w \in Workers, Record(w) \/ MapHits(w) PROVE Rows!Next
    <3>1. req[w].mems \in SUBSET Memories
      BY <1>2, <2>2 DEF Record, MapHits, TypeOK, RequestTypeOK, Request
    <3>2. \E revive \in BOOLEAN : MapRows(req[w].mems, req[w].scope, revive)
      BY <2>2 DEF Record, MapHits
    <3> QED
      BY <1>2, <3>1, <3>2, MapRowsPublishes DEF TypeOK
  <2>3. ASSUME NEW w \in Workers, ServesStep(w), ~(Record(w) \/ MapHits(w) \/ Mark(w))
        PROVE  UNCHANGED <<live, buried>>
    BY <2>3 DEF ServesStep, Begin, Prepare, FetchRow, RebindRead, Progress, WriteCall, UpdateCall,
       ReadCall, GetCall, DeleteCall, CallFails, Bind, Journal, EraseJournal, NameProvider,
       CountOrphans, SwapBinding, Reply, Abort, catalogVars
  <2> QED
    BY <1>2, <2>1, <2>2, <2>3, MarkBuries DEF Next, ServesStep, vars, catalogVars
<1> QED
  BY <1>1, <1>2, TypeCorrect, PTL DEF Spec, RowsFollowIdMap, Rows!Spec
=============================================================================
