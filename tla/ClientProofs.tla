---------------------------- MODULE ClientProofs ----------------------------
(***************************************************************************)
(* What the start lock of the client library guarantees for any number of  *)
(* verbs and closes: verbs that start between two closes share one core,   *)
(* and no engine is lost as long as closes do not overlap verbs.           *)
(***************************************************************************)
EXTENDS Client, TLAPS

LEMMA GotoType ==
  ASSUME TypeOK, NEW p \in Calls \cup Closers,
         NEW label \in {"idle", "queue", "adapter", "catalog", "serve",
                        "close_catalog", "close_adapter", "failed", "done"},
         Goto(p, label)
  PROVE  /\ pc' \in [Calls \cup Closers -> {"idle", "queue", "adapter", "catalog", "serve",
                                    "close_catalog", "close_adapter", "failed", "done"}]
         /\ pc'[p] = label
         /\ \A q \in (Calls \cup Closers) \ {p} : pc'[q] = pc[q]
  BY DEF TypeOK, Goto

\* Inside the lock the verb finds a core or becomes the one that builds.
LEMMA EnterType ==
  ASSUME TypeOK, NEW c \in Calls, lock = None, pc[c] \in {"idle", "queue"}, Enter(c)
  PROVE  /\ lock' \in Calls \cup {None}
         /\ pc' \in [Calls \cup Closers -> {"idle", "queue", "adapter", "catalog", "serve",
                                    "close_catalog", "close_adapter", "failed", "done"}]
         /\ engine' \in [Calls \cup Closers -> Calls \cup {None}]
         /\ openAdapters' \subseteq Calls
         /\ since' \in [Calls -> Nat]
         /\ \A d \in Calls : (pc'[d] \in {"adapter", "catalog"}) <=> lock' = d
         /\ \A d \in Calls : pc'[d] = "serve" => engine'[d] # None
         /\ \A k \in Closers : pc'[k] = pc[k] /\ engine'[k] = engine[k]
<1>1. CASE SomebodyBuiltIt /\ Take(c, core) /\ UNCHANGED <<lock, openAdapters>>
  BY <1>1, ClientAssumption DEF Take, SomebodyBuiltIt, Goto, TypeOK, Building, Closing
<1>2. CASE Build(c)
  BY <1>2, ClientAssumption DEF Build, Goto, TypeOK, Building, Closing
<1> QED
  BY <1>1, <1>2 DEF Enter

LEMMA InitType == Init => TypeOK
<1> SUFFICES ASSUME Init PROVE TypeOK
  OBVIOUS
<1>1. /\ pc \in [Calls \cup Closers -> {"idle"}]
      /\ engine \in [Calls \cup Closers -> {None}]
      /\ since \in [Calls -> {0}]
  BY DEF Init
<1>2. queue \in Seq(Calls)
  BY DEF Init
<1> QED
  BY <1>1, <1>2, ClientAssumption DEF Init, TypeOK, Building, Closing

LEMMA NextType == TypeOK /\ [Next]_vars => TypeOK'
<1> SUFFICES ASSUME TypeOK, [Next]_vars PROVE TypeOK'
  OBVIOUS
<1>1. CASE UNCHANGED vars
  BY <1>1 DEF vars, attributes, pools, history, TypeOK, Building, Closing
<1>2. ASSUME NEW c \in Calls, Start(c) PROVE TypeOK'
  <2>1. CASE core # None /\ Take(c, core) /\ UNCHANGED <<lock, queue, openAdapters>>
    BY <1>2, <2>1, ClientAssumption
    DEF Start, Take, Goto, TypeOK, Building, Closing, attributes
  <2>2. CASE lock = None /\ queue = <<>> /\ Enter(c) /\ UNCHANGED queue
    BY <1>2, <2>2, EnterType DEF Start, TypeOK, Building, Closing, attributes
  <2>3. CASE /\ queue' = Append(queue, c)
             /\ Goto(c, "queue")
             /\ UNCHANGED <<lock, engine, since, openAdapters>>
    BY <1>2, <2>3, ClientAssumption DEF Start, Goto, TypeOK, Building, Closing, attributes
  <2> QED
    BY <1>2, <2>1, <2>2, <2>3 DEF Start
<1>3. ASSUME NEW c \in Calls, Acquire(c) PROVE TypeOK'
  <2>1. Tail(queue) \in Seq(Calls)
    BY <1>3 DEF Acquire, TypeOK
  <2> QED
    BY <1>3, <2>1, EnterType DEF Acquire, TypeOK, Building, Closing, attributes
<1>4. ASSUME NEW c \in Calls, InitAdapter(c) PROVE TypeOK'
  BY <1>4, ClientAssumption DEF InitAdapter, Goto, TypeOK, Building, Closing, attributes, history
<1>5. ASSUME NEW c \in Calls, InitCatalog(c) PROVE TypeOK'
  BY <1>5, ClientAssumption DEF InitCatalog, Take, Goto, TypeOK, Building, Closing, pools
<1>6. ASSUME NEW c \in Calls, FailStart(c) PROVE TypeOK'
  BY <1>6, ClientAssumption DEF FailStart, Released, Goto, TypeOK, Building, Closing, attributes, pools
<1>7. ASSUME NEW c \in Calls, GiveUp(c) PROVE TypeOK'
  <2>1. queue' \in Seq(Calls)
    BY <1>7 DEF GiveUp, TypeOK
  <2> QED
    BY <1>7, <2>1, ClientAssumption DEF GiveUp, Goto, TypeOK, Building, Closing, attributes, pools, history
<1>8. ASSUME NEW c \in Calls, Serve(c) PROVE TypeOK'
  <2>1. engine[c] \in Calls \cup {None}
    BY DEF TypeOK
  <2> QED
    BY <1>8, <2>1, ClientAssumption DEF Serve, Goto, TypeOK, Building, Closing, attributes, history
<1>9. ASSUME NEW k \in Closers, Close(k) \/ CloseStep(k) PROVE TypeOK'
  <2>1. k \notin Calls
    BY ClientAssumption
  <2>2. CASE Close(k)
    <3>1. overlapped' \in BOOLEAN
      BY <2>2 DEF Close, TypeOK
    <3>2. \/ Goto(k, "close_catalog") /\ engine' = [engine EXCEPT ![k] = core] /\ core # None
          \/ Goto(k, "close_adapter") /\ engine' = [engine EXCEPT ![k] = adapter] /\ adapter # None
          \/ Goto(k, "done") /\ UNCHANGED engine
      BY <2>2 DEF Close, ThenAdapter
    <3>3. UNCHANGED <<attributes, lock, queue, pools, epoch, since, failed, unclosed>>
      BY <2>2 DEF Close
    <3> QED
      BY <2>1, <3>1, <3>2, <3>3 DEF Goto, TypeOK, Building, Closing, attributes, pools
  <2>3. CASE CloseCatalog(k)
    <3>1. \/ Goto(k, "close_adapter") /\ engine' = [engine EXCEPT ![k] = adapter] /\ adapter # None
          \/ Goto(k, "done") /\ UNCHANGED engine
      BY <2>3 DEF CloseCatalog, ThenAdapter
    <3>2. /\ core' = None /\ openCatalogs' \subseteq openCatalogs
          /\ epoch' \in Nat
          /\ UNCHANGED <<adapter, lock, queue, openAdapters, since, failed, unclosed, overlapped>>
      BY <2>3 DEF CloseCatalog, TypeOK
    <3>3. /\ pc' \in [Calls \cup Closers -> {"idle", "queue", "adapter", "catalog", "serve",
                                    "close_catalog", "close_adapter", "failed", "done"}]
          /\ engine' \in [Calls \cup Closers -> Calls \cup {None}]
      <4>1. k \in Calls \cup Closers
        OBVIOUS
      <4>2. Goto(k, "close_adapter") \/ Goto(k, "done")
        BY <3>1
      <4>3. pc' \in [Calls \cup Closers -> {"idle", "queue", "adapter", "catalog", "serve",
                                    "close_catalog", "close_adapter", "failed", "done"}]
        BY <4>1, <4>2, GotoType
      <4>4. engine' \in [Calls \cup Closers -> Calls \cup {None}]
        BY <3>1, <4>1 DEF TypeOK
      <4> QED
        BY <4>3, <4>4
    <3>4. \A c \in Calls : pc'[c] = pc[c] /\ engine'[c] = engine[c]
      BY <2>1, <3>1 DEF Goto, TypeOK
    <3>5. \A j \in Closers : Closing(j)' => engine'[j] # None
      BY <3>1 DEF Goto, TypeOK, Closing
    <3> QED
      BY <3>2, <3>3, <3>4, <3>5 DEF TypeOK, Building
  <2>4. CASE CloseAdapter(k)
    BY <2>1, <2>4 DEF CloseAdapter, Goto, TypeOK, Building, Closing, history
  <2>5. CASE FailClose(k)
    <3>1. engine[k] \in Calls
      BY <2>5 DEF FailClose, TypeOK, Closing
    <3>2. openAdapters' \subseteq Calls /\ openCatalogs' \subseteq Calls /\ unclosed' \subseteq Calls
      BY <2>5, <3>1 DEF FailClose, TypeOK
    <3> QED
      BY <2>1, <2>5, <3>2 DEF FailClose, Goto, TypeOK, Building, Closing, attributes
  <2> QED
    BY <1>9, <2>2, <2>3, <2>4, <2>5 DEF CloseStep
<1>10. CASE Finished
  BY <1>1, <1>10 DEF Finished
<1> QED
  BY <1>1, <1>2, <1>3, <1>4, <1>5, <1>6, <1>7, <1>8, <1>9, <1>10
  DEF Next, CallStep, CloseStep

\* The lock is held by the start that builds, and only by it.
THEOREM TypeCorrect == Spec => []TypeOK
  BY InitType, NextType, PTL DEF Spec

-----------------------------------------------------------------------------
(* One core between two closes. *)

\* Whoever holds the lock has found no core, and the verbs of this epoch run on
\* the core there is.
OneCoreInv ==
  /\ TypeOK
  /\ lock # None => core = None
  /\ \A c \in Calls : since[c] <= epoch
  /\ \A c \in Calls : engine[c] # None /\ since[c] = epoch => engine[c] = core
  /\ OneCoreBetweenCloses

LEMMA InitOneCore == Init => OneCoreInv
<1> SUFFICES ASSUME Init PROVE OneCoreInv
  OBVIOUS
<1>1. \A c \in Calls : engine[c] = None /\ since[c] = 0
  BY DEF Init
<1> QED
  BY <1>1, InitType DEF Init, OneCoreInv, OneCoreBetweenCloses

\* A verb that takes the core there is.
LEMMA TakeKeepsOneCore ==
  ASSUME OneCoreInv, TypeOK', NEW c \in Calls, core # None, Take(c, core),
         UNCHANGED <<core, lock, epoch>>
  PROVE  OneCoreInv'
  BY DEF Take, OneCoreInv, OneCoreBetweenCloses, TypeOK

\* A step that gives nobody a core.
LEMMA OthersKeepOneCore ==
  ASSUME OneCoreInv, TypeOK', \A c \in Calls : engine'[c] = engine[c],
         UNCHANGED <<core, epoch, since>>, lock' # None => core = None
  PROVE  OneCoreInv'
  BY DEF OneCoreInv, OneCoreBetweenCloses, TypeOK

LEMMA EnterKeepsOneCore ==
  ASSUME OneCoreInv, TypeOK', NEW c \in Calls, lock = None, Enter(c),
         UNCHANGED <<core, epoch>>
  PROVE  OneCoreInv'
<1>1. CASE SomebodyBuiltIt /\ Take(c, core) /\ UNCHANGED <<lock, openAdapters>>
  BY <1>1, TakeKeepsOneCore DEF SomebodyBuiltIt
<1>2. CASE ~SomebodyBuiltIt /\ Build(c)
  BY <1>2, OthersKeepOneCore DEF Build, SomebodyBuiltIt
<1> QED
  BY <1>1, <1>2 DEF Enter

LEMMA NextOneCore == OneCoreInv /\ [Next]_vars => OneCoreInv'
<1> SUFFICES ASSUME OneCoreInv, [Next]_vars PROVE OneCoreInv'
  OBVIOUS
<1>1. TypeOK /\ TypeOK'
  BY NextType DEF OneCoreInv
<1>2. CASE UNCHANGED vars
  BY <1>1, <1>2, OthersKeepOneCore DEF vars, attributes, history, OneCoreInv
<1>3. ASSUME NEW c \in Calls, Start(c) PROVE OneCoreInv'
  <2>1. CASE core # None /\ Take(c, core) /\ UNCHANGED <<lock, queue, openAdapters>>
    BY <1>1, <1>3, <2>1, TakeKeepsOneCore DEF Start, attributes
  <2>2. CASE lock = None /\ queue = <<>> /\ Enter(c) /\ UNCHANGED queue
    BY <1>1, <1>3, <2>2, EnterKeepsOneCore DEF Start, attributes
  <2>3. CASE UNCHANGED <<lock, engine, since, openAdapters>>
    BY <1>1, <1>3, <2>3, OthersKeepOneCore DEF Start, attributes, OneCoreInv
  <2> QED
    BY <1>3, <2>1, <2>2, <2>3 DEF Start
<1>4. ASSUME NEW c \in Calls, Acquire(c) PROVE OneCoreInv'
  BY <1>1, <1>4, EnterKeepsOneCore DEF Acquire, attributes
<1>5. ASSUME NEW c \in Calls, InitCatalog(c) PROVE OneCoreInv'
  <2>1. core = None
    BY <1>1, <1>5, ClientAssumption DEF InitCatalog, Building, TypeOK, OneCoreInv
  <2>2. \A d \in Calls : engine[d] # None => since[d] # epoch
    BY <2>1 DEF OneCoreInv
  <2>3. /\ core' = c /\ lock' = None /\ epoch' = epoch
        /\ engine'[c] = c /\ since'[c] = epoch
        /\ \A d \in Calls \ {c} : engine'[d] = engine[d] /\ since'[d] = since[d]
    BY <1>1, <1>5 DEF InitCatalog, Take, TypeOK
  <2>4. ASSUME NEW d \in Calls PROVE since'[d] <= epoch'
    <3>1. since[d] <= epoch /\ epoch \in Nat
      BY <1>1 DEF OneCoreInv, TypeOK
    <3> QED
      BY <2>3, <3>1
  <2>5. \A d \in Calls : engine'[d] # None /\ since'[d] = epoch' => engine'[d] = core'
    BY <2>2, <2>3
  <2>6. OneCoreBetweenCloses'
    <3>1. ASSUME NEW d \in Calls, NEW e \in Calls, engine'[d] # None, engine'[e] # None,
                 since'[d] = since'[e]
          PROVE  engine'[d] = engine'[e]
      <4>1. CASE d = c \/ e = c
        BY <3>1, <4>1, <2>2, <2>3
      <4>2. CASE d # c /\ e # c
        BY <3>1, <4>2, <2>3 DEF OneCoreInv, OneCoreBetweenCloses
      <4> QED
        BY <4>1, <4>2
    <3> QED
      BY <3>1 DEF OneCoreBetweenCloses
  <2> QED
    BY <1>1, <2>3, <2>4, <2>5, <2>6 DEF OneCoreInv
<1>6. ASSUME NEW c \in Calls,
             InitAdapter(c) \/ FailStart(c) \/ GiveUp(c) \/ Serve(c)
      PROVE  OneCoreInv'
  BY <1>1, <1>6, OthersKeepOneCore
  DEF InitAdapter, FailStart, Released, GiveUp, Serve, attributes, history, OneCoreInv
<1>7. ASSUME NEW k \in Closers, Close(k) \/ CloseAdapter(k) \/ FailClose(k) PROVE OneCoreInv'
  <2>1. \A c \in Calls : engine'[c] = engine[c]
    BY <1>1, <1>7, ClientAssumption DEF Close, CloseAdapter, FailClose, ThenAdapter, TypeOK
  <2> QED
    BY <1>1, <1>7, <2>1, OthersKeepOneCore
    DEF Close, CloseAdapter, FailClose, attributes, history, OneCoreInv
<1>8. ASSUME NEW k \in Closers, CloseCatalog(k) PROVE OneCoreInv'
  <2>1. \A c \in Calls : engine'[c] = engine[c]
    BY <1>1, <1>8, ClientAssumption DEF CloseCatalog, ThenAdapter, TypeOK
  <2>2. core' = None /\ since' = since
    BY <1>8 DEF CloseCatalog
  <2>3. CASE core = None
    BY <1>1, <1>8, <2>1, <2>3, OthersKeepOneCore DEF CloseCatalog
  <2>4. CASE core # None
    <3>1. epoch' = epoch + 1
      BY <1>8, <2>4 DEF CloseCatalog
    <3>2. \A c \in Calls : since'[c] < epoch'
      BY <1>1, <2>2, <3>1 DEF OneCoreInv, TypeOK
    <3> QED
      BY <1>1, <2>1, <2>2, <3>1, <3>2 DEF OneCoreInv, OneCoreBetweenCloses, TypeOK
  <2> QED
    BY <2>3, <2>4
<1>9. CASE Finished
  BY <1>2, <1>9 DEF Finished
<1> QED
  BY <1>2, <1>3, <1>4, <1>5, <1>6, <1>7, <1>8, <1>9 DEF Next, CallStep, CloseStep

\* Verbs that start with no close in between share one core, however many of
\* them race, fail or are cancelled.
THEOREM OneCore == Spec => []OneCoreBetweenCloses
<1>1. OneCoreInv => OneCoreBetweenCloses
  BY DEF OneCoreInv
<1> QED
  BY <1>1, InitOneCore, NextOneCore, PTL DEF Spec

-----------------------------------------------------------------------------
(* No engine is lost. *)

\* What a close that overlaps nothing finds and leaves: the core and the
\* adapter belong together, except while the close is between the two and
\* after it has failed there.
Tidy ==
  /\ \A k \in Closers : Closing(k) => \A c \in Calls : ~Started(c)
  /\ \A j, k \in Closers : Closing(j) /\ Closing(k) => j = k
  /\ \A k \in Closers : pc[k] = "close_catalog" =>
       engine[k] = core /\ core = adapter /\ core # None
  /\ \A k \in Closers : pc[k] = "close_adapter" =>
       engine[k] = adapter /\ core = None /\ adapter # None
  /\ (\A k \in Closers : ~Closing(k)) => core = adapter \/ (core = None /\ adapter \in unclosed)
  /\ \A c \in Calls : pc[c] = "serve" => engine[c] = core
  /\ \A e \in openAdapters \cup openCatalogs :
       \/ /\ e \in openAdapters => e = adapter \/ e \in unclosed
          /\ e \in openCatalogs => e = core
       \/ Building(e)
       \/ e \in failed

TidyInv == OneCoreInv /\ (~overlapped => Tidy)

LEMMA InitTidy == Init => TidyInv
<1> SUFFICES ASSUME Init PROVE TidyInv
  OBVIOUS
<1>1. \A p \in Calls \cup Closers : pc[p] = "idle"
  BY DEF Init
<1>2. Tidy
  BY <1>1 DEF Init, Tidy, Closing
<1> QED
  BY <1>2, InitOneCore DEF TidyInv

LEMMA NextTidy == TidyInv /\ [Next]_vars => TidyInv'
<1> SUFFICES ASSUME TidyInv, [Next]_vars, ~overlapped' PROVE Tidy'
  BY NextOneCore DEF TidyInv
<1>1. TypeOK /\ TypeOK' /\ OneCoreInv
  BY NextType DEF TidyInv, OneCoreInv
<1>2. ~overlapped
  BY <1>1 DEF Next, Start, CallStep, CloseStep, Acquire, InitAdapter, InitCatalog,
       FailStart, GiveUp, Serve, Close, CloseCatalog, CloseAdapter, FailClose, Finished, history, vars
<1>3. Tidy
  BY <1>2 DEF TidyInv
<1>4. \A c \in Calls : c \notin Closers
  BY ClientAssumption
<1>5. CASE UNCHANGED vars
  BY <1>3, <1>5 DEF vars, attributes, pools, history, Tidy, Closing, Started, Building
<1>6. ASSUME NEW c \in Calls, Start(c) PROVE Tidy'
  <2>1. \A k \in Closers : ~Closing(k)
    BY <1>6, <1>2 DEF Start
  <2>2. /\ core = adapter \/ (core = None /\ adapter \in unclosed)
        /\ UNCHANGED <<attributes, openCatalogs, failed, unclosed>>
    BY <1>3, <1>6, <2>1 DEF Start, Tidy
  <2>3. \A p \in (Calls \cup Closers) \ {c} : pc'[p] = pc[p] /\ engine'[p] = engine[p]
    BY <1>1, <1>6 DEF Start, Take, Enter, Build, Goto, TypeOK
  <2>4. CASE core # None /\ Take(c, core) /\ openAdapters' = openAdapters
    BY <1>1, <1>3, <1>4, <1>6, <2>1, <2>2, <2>3, <2>4
    DEF Start, Take, Goto, Tidy, TypeOK, Closing, Building, attributes
  <2>5. CASE Build(c)
    BY <1>1, <1>3, <1>4, <1>6, <2>1, <2>2, <2>3, <2>5
    DEF Start, Build, Goto, Tidy, TypeOK, Closing, Building, attributes
  <2>6. CASE Goto(c, "queue") /\ openAdapters' = openAdapters
    BY <1>1, <1>3, <1>4, <1>6, <2>1, <2>2, <2>3, <2>6
    DEF Start, Goto, Tidy, TypeOK, Closing, Building, attributes
  <2> QED
    BY <1>6, <2>4, <2>5, <2>6 DEF Start, Enter, SomebodyBuiltIt
<1>7. ASSUME NEW c \in Calls, Started(c) PROVE \A k \in Closers : ~Closing(k)
  BY <1>3, <1>7 DEF Tidy
<1>8. ASSUME NEW c \in Calls, Acquire(c) PROVE Tidy'
  <2>1. \A k \in Closers : ~Closing(k)
    BY <1>7, <1>8 DEF Acquire, Started
  <2>2. /\ core = adapter \/ (core = None /\ adapter \in unclosed)
        /\ UNCHANGED <<attributes, openCatalogs, failed, unclosed>>
    BY <1>3, <1>8, <2>1 DEF Acquire, Tidy
  <2>3. \A p \in (Calls \cup Closers) \ {c} : pc'[p] = pc[p] /\ engine'[p] = engine[p]
    BY <1>1, <1>8 DEF Acquire, Take, Enter, Build, Goto, TypeOK
  <2>4. CASE core # None /\ Take(c, core) /\ openAdapters' = openAdapters
    BY <1>1, <1>3, <1>4, <1>8, <2>1, <2>2, <2>3, <2>4
    DEF Acquire, Take, Goto, Tidy, TypeOK, Closing, Building, attributes
  <2>5. CASE Build(c)
    BY <1>1, <1>3, <1>4, <1>8, <2>1, <2>2, <2>3, <2>5
    DEF Acquire, Build, Goto, Tidy, TypeOK, Closing, Building, attributes
  <2> QED
    BY <1>8, <2>4, <2>5 DEF Acquire, Enter, SomebodyBuiltIt
<1>9. ASSUME NEW c \in Calls, InitAdapter(c) PROVE Tidy'
  <2>1. \A k \in Closers : ~Closing(k)
    BY <1>7, <1>9 DEF InitAdapter, Started, Building
  <2> QED
    BY <1>1, <1>3, <1>4, <1>9, <2>1
    DEF InitAdapter, Goto, Tidy, TypeOK, Closing, Building, attributes, history
<1>10. ASSUME NEW c \in Calls, InitCatalog(c) PROVE Tidy'
  <2>1. \A k \in Closers : ~Closing(k)
    BY <1>7, <1>10 DEF InitCatalog, Started, Building
  <2>2. core = None /\ (adapter = None \/ adapter \in unclosed) /\ lock = c
    BY <1>1, <1>3, <1>10, <2>1, ClientAssumption
    DEF InitCatalog, Building, TypeOK, OneCoreInv, Tidy
  <2>3. \A d \in Calls \ {c} : pc[d] # "serve"
    BY <1>1, <1>3, <2>2 DEF Tidy, TypeOK
  <2>4. \A e \in openAdapters \cup openCatalogs :
          e = c \/ e \in failed \/ (e \in unclosed /\ e \notin openCatalogs)
    BY <1>1, <1>3, <2>2, ClientAssumption DEF Tidy, TypeOK
  <2>5. /\ core' = c /\ adapter' = c /\ UNCHANGED <<pools, failed, unclosed>>
        /\ pc'[c] = "serve" /\ engine'[c] = c
        /\ \A p \in (Calls \cup Closers) \ {c} : pc'[p] = pc[p] /\ engine'[p] = engine[p]
    BY <1>1, <1>10 DEF InitCatalog, Take, Goto, TypeOK
  <2> QED
    BY <1>4, <2>1, <2>3, <2>4, <2>5 DEF Tidy, Closing, pools
<1>11. ASSUME NEW c \in Calls, FailStart(c) \/ GiveUp(c) PROVE Tidy'
  <2>1. \A k \in Closers : ~Closing(k)
    BY <1>7, <1>11 DEF FailStart, GiveUp, Started
  <2>2. UNCHANGED <<attributes, engine, pools, unclosed>>
    BY <1>11 DEF FailStart, GiveUp, history
  <2>3. /\ pc'[c] = "failed"
        /\ \A p \in (Calls \cup Closers) \ {c} : pc'[p] = pc[p]
        /\ failed \subseteq failed'
        /\ Building(c) => c \in failed'
    BY <1>1, <1>11 DEF FailStart, GiveUp, Goto, TypeOK, Building, Closing, history
  <2> QED
    BY <1>1, <1>3, <1>4, <2>1, <2>2, <2>3
    DEF Tidy, TypeOK, Closing, Building, attributes, pools
<1>12. ASSUME NEW c \in Calls, Serve(c) PROVE Tidy'
  <2>1. \A k \in Closers : ~Closing(k)
    BY <1>7, <1>12 DEF Serve, Started
  <2>2. engine[c] = core /\ core = adapter
    BY <1>1, <1>3, <1>12, <2>1 DEF Serve, Tidy, TypeOK
  <2> QED
    BY <1>1, <1>3, <1>4, <1>12, <2>1, <2>2
    DEF Serve, Goto, Tidy, TypeOK, Closing, Building, attributes, history
<1>13. ASSUME NEW k \in Closers, Close(k) PROVE Tidy'
  <2>1. (\A c \in Calls : ~Started(c)) /\ \A j \in Closers : ~Closing(j)
    BY <1>13, <1>2 DEF Close
  <2>2. core = adapter \/ (core = None /\ adapter \in unclosed)
    BY <1>3, <2>1 DEF Tidy
  <2>3. UNCHANGED <<attributes, pools, failed, unclosed>>
    BY <1>13 DEF Close
  <2>4. /\ \A p \in (Calls \cup Closers) \ {k} : pc'[p] = pc[p] /\ engine'[p] = engine[p]
        /\ \/ pc'[k] = "close_catalog" /\ engine'[k] = core /\ core # None
           \/ pc'[k] = "close_adapter" /\ engine'[k] = adapter /\ core = None /\ adapter # None
           \/ pc'[k] = "done" /\ core = None /\ adapter = None
    BY <1>1, <1>13, <2>2 DEF Close, ThenAdapter, Goto, TypeOK
  <2>5. \A c \in Calls : pc'[c] = pc[c] /\ engine'[c] = engine[c]
    BY <1>4, <1>13, <2>4
  <2>6. \A j \in Closers : Closing(j)' => j = k /\ pc'[k] \in {"close_catalog", "close_adapter"}
    BY <2>1, <2>4 DEF Closing
  <2>7. \A c \in Calls : ~Started(c)' /\ (Building(c)' <=> Building(c))
    BY <2>1, <2>5 DEF Started, Building
  <2>8. \A e \in openAdapters' \cup openCatalogs' :
          \/ /\ e \in openAdapters' => e = adapter' \/ e \in unclosed'
             /\ e \in openCatalogs' => e = core'
          \/ Building(e)'
          \/ e \in failed'
    <3>1. \A e \in openAdapters \cup openCatalogs : e \in Calls
      BY <1>1 DEF TypeOK
    <3> QED
      BY <1>3, <2>3, <2>7, <3>1 DEF Tidy, attributes, pools
  <2> QED
    BY <2>2, <2>3, <2>4, <2>5, <2>6, <2>7, <2>8, <1>1, <1>3
    DEF Tidy, Started, Closing, attributes
<1>14. ASSUME NEW k \in Closers, CloseStep(k) PROVE Tidy'
  <2>1. (\A c \in Calls : ~Started(c)) /\ \A j \in Closers \ {k} : ~Closing(j)
    BY <1>3, <1>14 DEF CloseStep, CloseCatalog, CloseAdapter, FailClose, Tidy, Closing
  <2>2. \A p \in (Calls \cup Closers) \ {k} : pc'[p] = pc[p] /\ engine'[p] = engine[p]
    BY <1>1, <1>14 DEF CloseStep, CloseCatalog, CloseAdapter, FailClose, ThenAdapter, Goto, TypeOK
  <2>3. \A c \in Calls : pc'[c] = pc[c] /\ engine'[c] = engine[c]
    BY <1>4, <1>14, <2>2
  <2>4. \A c \in Calls : ~Started(c)' /\ ~Building(c) /\ ~Building(c)' /\ pc'[c] # "serve"
    BY <2>1, <2>3 DEF Started, Building
  <2>5. \A e \in openAdapters \cup openCatalogs :
          \/ /\ e \in openAdapters => e = adapter \/ e \in unclosed
             /\ e \in openCatalogs => e = core
          \/ e \in failed
    BY <1>1, <1>3, <2>4 DEF Tidy, TypeOK
  <2>6. \A j \in Closers : Closing(j)' => j = k
    BY <2>1, <2>2 DEF Closing
  <2>7. CASE CloseCatalog(k)
    <3>1. engine[k] = core /\ core = adapter /\ core # None
      BY <1>3, <2>7 DEF CloseCatalog, Tidy
    <3>2. /\ pc'[k] = "close_adapter" /\ engine'[k] = adapter
          /\ core' = None /\ adapter' = adapter
          /\ openCatalogs' = openCatalogs \ {core}
          /\ UNCHANGED <<openAdapters, failed, unclosed>>
      BY <1>1, <2>7, <3>1 DEF CloseCatalog, ThenAdapter, Goto, TypeOK
    <3>3. Closing(k)'
      BY <3>2 DEF Closing
    <3>4. \A j \in Closers : pc'[j] # "close_catalog" /\ (pc'[j] = "close_adapter" => j = k)
      BY <2>6, <3>2 DEF Closing
    <3> QED
      BY <2>4, <2>5, <2>6, <3>1, <3>2, <3>3, <3>4 DEF Tidy
  <2>8. CASE CloseAdapter(k)
    <3>1. engine[k] = adapter /\ core = None /\ adapter # None
      BY <1>3, <2>8 DEF CloseAdapter, Tidy
    <3>2. /\ pc'[k] = "done"
          /\ core' = None /\ adapter' = None
          /\ openAdapters' = openAdapters \ {adapter} /\ unclosed' = unclosed \ {adapter}
          /\ UNCHANGED <<openCatalogs, failed>>
      BY <1>1, <2>8, <3>1 DEF CloseAdapter, Goto, TypeOK, history
    <3>3. \A j \in Closers : ~Closing(j)'
      BY <2>6, <3>2 DEF Closing
    <3>4. \A j \in Closers : pc'[j] # "close_catalog" /\ pc'[j] # "close_adapter"
      BY <3>3 DEF Closing
    <3> QED
      BY <2>4, <2>5, <2>6, <3>1, <3>2, <3>3, <3>4 DEF Tidy
  <2>9. CASE FailClose(k)
    <3>1. /\ pc'[k] = "failed" /\ UNCHANGED <<core, adapter, failed>>
          /\ openAdapters' \subseteq openAdapters /\ openCatalogs' \subseteq openCatalogs
          /\ unclosed \subseteq unclosed'
      BY <1>1, <2>9 DEF FailClose, Goto, TypeOK, attributes
    <3>2. \A j \in Closers : pc'[j] # "close_catalog" /\ pc'[j] # "close_adapter"
      BY <2>6, <3>1 DEF Closing
    <3>3. core = adapter \/ (core = None /\ adapter \in unclosed')
      BY <1>3, <2>9 DEF FailClose, Tidy
    <3>4. \A e \in openAdapters' \cup openCatalogs' :
            \/ /\ e \in openAdapters' => e = adapter' \/ e \in unclosed'
               /\ e \in openCatalogs' => e = core'
            \/ e \in failed'
      BY <2>5, <3>1
    <3> QED
      BY <2>4, <3>1, <3>2, <3>3, <3>4 DEF Tidy, Closing
  <2> QED
    BY <1>14, <2>7, <2>8, <2>9 DEF CloseStep
<1>15. CASE Finished
  BY <1>5, <1>15 DEF Finished
<1> QED
  BY <1>5, <1>6, <1>8, <1>9, <1>10, <1>11, <1>12, <1>13, <1>14, <1>15
  DEF Next, CallStep, CloseStep

\* As long as no close overlaps a verb, every engine with open connections can
\* still be closed, is being built, or belongs to a start or to a close of its
\* adapter that failed.
THEOREM NoEngineLost == Spec => []NoEngineIsLost
<1>1. TidyInv => NoEngineIsLost
  BY DEF TidyInv, Tidy, NoEngineIsLost
<1> QED
  BY <1>1, InitTidy, NextTidy, PTL DEF Spec
=============================================================================
