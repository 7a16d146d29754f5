------------------------------- MODULE Client -------------------------------
(***************************************************************************)
(* The lazy start of the client library in embedded mode (client.py):      *)
(* every verb begins with _started, which builds the adapter and the       *)
(* catalog the first time, under a lock; close disposes of both, without   *)
(* it.  All are coroutines of one event loop, so a step is what runs       *)
(* between two awaits.  A start or a close may fail, and a coroutine be    *)
(* cancelled, at any of its awaits.                                        *)
(*                                                                         *)
(* An engine -- an adapter with its catalog and the core over both -- is   *)
(* named by the call that built it.                                        *)
(***************************************************************************)
EXTENDS Naturals, Sequences, FiniteSets

CONSTANTS
  Calls,     (* verbs called on one client                          *)
  Closers,   (* calls of its close                                  *)
  None

ASSUME ClientAssumption == None \notin Calls /\ Calls \cap Closers = {}

VARIABLES
  core, adapter,          (* _core and _adapter                              *)
  lock, queue,            (* _start_lock: who holds it, and who waits        *)
  pc,                     (* the await a coroutine is at                     *)
  engine,                 (* the engine a verb runs on, or a close disposes of *)
  openAdapters, openCatalogs,   (* engines with connections of either kind   *)
  epoch,                  (* history: how often close forgot the core        *)
  since,                  (* history: the epoch in which a verb got its core *)
  failed,                 (* history: the starts that failed                 *)
  unclosed,               (* history: engines whose adapter failed to close  *)
  overlapped              (* history: a close ran beside something else      *)

attributes == <<core, adapter>>
pools == <<openAdapters, openCatalogs>>
history == <<epoch, since, failed, unclosed, overlapped>>
vars == <<attributes, lock, queue, pc, engine, pools, history>>

Building(c) == pc[c] \in {"adapter", "catalog"}
Closing(k) == pc[k] \in {"close_catalog", "close_adapter"}
Started(c) == Building(c) \/ pc[c] \in {"queue", "serve"}

Init ==
  /\ core = None /\ adapter = None
  /\ lock = None /\ queue = <<>>
  /\ pc = [p \in Calls \cup Closers |-> "idle"]
  /\ engine = [p \in Calls \cup Closers |-> None]
  /\ openAdapters = {} /\ openCatalogs = {}
  /\ epoch = 0
  /\ since = [c \in Calls |-> 0]
  /\ failed = {} /\ unclosed = {}
  /\ overlapped = FALSE

Goto(p, label) == pc' = [pc EXCEPT ![p] = label]

-----------------------------------------------------------------------------
(* _started.                                                                *)

\* The verb goes on with the core there is.
Take(c, e) ==
  /\ Goto(c, "serve")
  /\ engine' = [engine EXCEPT ![c] = e]
  /\ since' = [since EXCEPT ![c] = epoch]

\* adapters.build creates the engine of the adapter; its init is awaited.
Build(c) ==
  /\ Goto(c, "adapter")
  /\ lock' = c
  /\ openAdapters' = openAdapters \cup {c}
  /\ UNCHANGED <<engine, since>>

\* Mutant: who has waited for the lock does not look again.
NobodyLooksAgain == FALSE

\* "somebody built it while we waited"
SomebodyBuiltIt == core # None

\* Inside the lock.
Enter(c) ==
  \/ SomebodyBuiltIt /\ Take(c, core) /\ UNCHANGED <<lock, openAdapters>>
  \/ ~SomebodyBuiltIt /\ Build(c)

\* A verb is called.  A lock that is free and wanted by nobody is taken
\* without giving way to others.
Start(c) ==
  /\ pc[c] = "idle"
  /\ overlapped' = (overlapped \/ \E k \in Closers : Closing(k))
  /\ \/ core # None /\ Take(c, core) /\ UNCHANGED <<lock, queue, openAdapters>>
     \/ /\ core = None
        /\ \/ lock = None /\ queue = <<>> /\ Enter(c) /\ UNCHANGED queue
           \/ /\ lock # None \/ queue # <<>>
              /\ queue' = Append(queue, c)
              /\ Goto(c, "queue")
              /\ UNCHANGED <<lock, engine, since, openAdapters>>
  /\ UNCHANGED <<attributes, openCatalogs, epoch, failed, unclosed>>

\* The lock goes to whoever has waited longest.
Acquire(c) ==
  /\ pc[c] = "queue"
  /\ lock = None
  /\ queue # <<>>
  /\ Head(queue) = c
  /\ queue' = Tail(queue)
  /\ Enter(c)
  /\ UNCHANGED <<attributes, openCatalogs, epoch, failed, unclosed, overlapped>>

\* adapter.init is done; the catalog's engine is created and its init awaited.
InitAdapter(c) ==
  /\ pc[c] = "adapter"
  /\ Goto(c, "catalog")
  /\ openCatalogs' = openCatalogs \cup {c}
  /\ UNCHANGED <<attributes, lock, queue, engine, openAdapters, history>>

\* Mutant: a start that raises keeps the lock.
Unreleased == UNCHANGED lock

Released == lock' = None

\* catalog.init is done: the core is there for everybody.
InitCatalog(c) ==
  /\ pc[c] = "catalog"
  /\ adapter' = c
  /\ core' = c
  /\ Take(c, c)
  /\ lock' = None
  /\ UNCHANGED <<queue, pools, epoch, failed, unclosed, overlapped>>

\* The adapter or the catalog does not come up, or the coroutine is cancelled:
\* the lock is released on the way out, and nothing is closed.
FailStart(c) ==
  /\ Building(c)
  /\ Released
  /\ Goto(c, "failed")
  /\ failed' = failed \cup {c}
  /\ UNCHANGED <<attributes, queue, engine, pools, epoch, since, unclosed, overlapped>>

\* Cancelled while it waits for the lock.
GiveUp(c) ==
  /\ pc[c] = "queue"
  /\ \E i \in 1..Len(queue) :
       /\ queue[i] = c
       /\ queue' = SubSeq(queue, 1, i - 1) \o SubSeq(queue, i + 1, Len(queue))
  /\ Goto(c, "failed")
  /\ UNCHANGED <<attributes, lock, engine, pools, history>>

\* The verb runs; the pool of a disposed engine opens new connections.
Serve(c) ==
  /\ pc[c] = "serve"
  /\ openAdapters' = openAdapters \cup {engine[c]}
  /\ openCatalogs' = openCatalogs \cup {engine[c]}
  /\ Goto(c, "done")
  /\ UNCHANGED <<attributes, lock, queue, engine, history>>

-----------------------------------------------------------------------------
(* close.                                                                   *)

\* Mutant: the catalog alone is closed.
ThenNothing(k) == Goto(k, "done") /\ UNCHANGED engine

\* What comes after the catalog: the adapter there is now, if there is one.
ThenAdapter(k) ==
  IF adapter # None
  THEN Goto(k, "close_adapter") /\ engine' = [engine EXCEPT ![k] = adapter]
  ELSE Goto(k, "done") /\ UNCHANGED engine

Close(k) ==
  /\ pc[k] = "idle"
  /\ overlapped' = (overlapped \/ (\E c \in Calls : Started(c)) \/ \E j \in Closers : Closing(j))
  /\ \/ /\ core # None
        /\ Goto(k, "close_catalog")
        /\ engine' = [engine EXCEPT ![k] = core]
     \/ core = None /\ ThenAdapter(k)
  /\ UNCHANGED <<attributes, lock, queue, pools, epoch, since, failed, unclosed>>

\* catalog.close returns; whatever core is there now is forgotten.
CloseCatalog(k) ==
  /\ pc[k] = "close_catalog"
  /\ openCatalogs' = openCatalogs \ {engine[k]}
  /\ core' = None
  /\ epoch' = IF core = None THEN epoch ELSE epoch + 1
  /\ ThenAdapter(k)
  /\ UNCHANGED <<adapter, lock, queue, openAdapters, since, failed, unclosed, overlapped>>

\* adapter.close returns; whatever adapter is there now is forgotten.
CloseAdapter(k) ==
  /\ pc[k] = "close_adapter"
  /\ openAdapters' = openAdapters \ {engine[k]}
  /\ unclosed' = unclosed \ {engine[k]}
  /\ adapter' = None
  /\ Goto(k, "done")
  /\ UNCHANGED <<core, lock, queue, engine, openCatalogs, epoch, since, failed, overlapped>>

\* Either of the two raises, or is cancelled, with its connections closed or not:
\* close ends there, and the attribute is not reset.  After the catalog both are
\* as they were; after the adapter the core is forgotten and the adapter is not,
\* and the next start overwrites it.
FailClose(k) ==
  /\ \/ /\ pc[k] = "close_catalog"
        /\ openCatalogs' \in {openCatalogs, openCatalogs \ {engine[k]}}
        /\ UNCHANGED <<openAdapters, unclosed>>
     \/ /\ pc[k] = "close_adapter"
        /\ openAdapters' \in {openAdapters, openAdapters \ {engine[k]}}
        /\ unclosed' = unclosed \cup {engine[k]}
        /\ UNCHANGED openCatalogs
  /\ Goto(k, "failed")
  /\ UNCHANGED <<attributes, lock, queue, engine, epoch, since, failed, overlapped>>

-----------------------------------------------------------------------------

CallStep(c) ==
  Acquire(c) \/ InitAdapter(c) \/ InitCatalog(c) \/ FailStart(c) \/ Serve(c)

CloseStep(k) == CloseCatalog(k) \/ CloseAdapter(k) \/ FailClose(k)

\* Every coroutine has returned: nothing more happens.
Finished ==
  /\ \A p \in Calls \cup Closers : pc[p] \in {"done", "failed"}
  /\ UNCHANGED vars

Next ==
  \/ \E c \in Calls : Start(c) \/ CallStep(c) \/ GiveUp(c)
  \/ \E k \in Closers : Close(k) \/ CloseStep(k)
  \/ Finished

Spec == Init /\ [][Next]_vars

\* An init or a disposal succeeds or raises in the end, and the event loop
\* resumes whoever waits for it or for the lock; nobody has to cancel anything.
FairSpec ==
  /\ Spec
  /\ \A c \in Calls : WF_vars(CallStep(c))
  /\ \A k \in Closers : WF_vars(CloseStep(k))

-----------------------------------------------------------------------------
(* Properties.                                                              *)

\* The types; the lock is held by the start that builds, and only by it, a verb
\* that goes on has a core, and a close something to close.
TypeOK ==
  /\ core \in Calls \cup {None} /\ adapter \in Calls \cup {None}
  /\ lock \in Calls \cup {None}
  /\ queue \in Seq(Calls)
  /\ pc \in [Calls \cup Closers -> {"idle", "queue", "adapter", "catalog", "serve",
                                    "close_catalog", "close_adapter", "failed", "done"}]
  /\ engine \in [Calls \cup Closers -> Calls \cup {None}]
  /\ openAdapters \subseteq Calls /\ openCatalogs \subseteq Calls
  /\ epoch \in Nat /\ since \in [Calls -> Nat]
  /\ failed \subseteq Calls /\ unclosed \subseteq Calls
  /\ overlapped \in BOOLEAN
  /\ \A c \in Calls : Building(c) <=> lock = c
  /\ \A c \in Calls : pc[c] = "serve" => engine[c] # None
  /\ \A k \in Closers : Closing(k) => engine[k] # None

\* test_concurrent_first_calls_build_exactly_one_core: verbs that got their
\* core with no close in between run on the same one, whichever of them failed
\* to start or were cancelled.
OneCoreBetweenCloses ==
  \A c, d \in Calls :
    engine[c] # None /\ engine[d] # None /\ since[c] = since[d] => engine[c] = engine[d]

\* "two engines, two connection pools" (Memory.__init__): as long as no close
\* overlaps a verb, an engine with open connections is the client's own, is
\* being built or being closed, or belongs to a start that failed -- or is an
\* adapter whose close failed, and which nobody has closed since.
NoEngineIsLost ==
  \/ overlapped
  \/ \A e \in openAdapters \cup openCatalogs :
       \/ /\ e \in openAdapters => e = adapter \/ e \in unclosed
          /\ e \in openCatalogs => e = core
       \/ Building(e)
       \/ e \in failed

\* Every verb gets a core or an error: no start that fails or is cancelled
\* leaves the others waiting for the lock.
EveryVerbGoesOn ==
  \A c \in Calls : pc[c] = "queue" ~> pc[c] \in {"serve", "adapter", "failed", "done"}
=============================================================================
