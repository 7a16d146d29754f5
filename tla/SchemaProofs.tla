---------------------------- MODULE SchemaProofs ----------------------------
(***************************************************************************)
(* Whoever serves does so over the schema, for any tables, any number of   *)
(* processes and any number of deaths, as long as nobody builds an adapter *)
(* before the catalog is open: no client library and no doctor --probe.    *)
(***************************************************************************)
EXTENDS Schema, TLAPS

CatalogFirst == \A p \in Procs : Command[p] \notin {"probe", "embed"}

\* A process past Catalog.init has seen the revision in place.
Opened == {"check", "adapter", "build", "serving"}
OpenedIsStamped == \A p \in Procs : pc[p] \in Opened => stamped

\* Where DDL is transactional there are all tables or none, and none only while
\* nobody has stamped, built an adapter or found the database not empty.
AllOrNone ==
  /\ tables \in {{}, Tables}
  /\ tables = {} =>
       /\ ~stamped
       /\ ~(shared /\ foreign)
       /\ \A p \in Procs : pc[p] \notin {"versioned", "stamp", "insert"}
  /\ \A p \in Procs : pc[p] = "create" => todo[p] = Tables

\* The jobs that build an adapter first have not been started.
JobsOpenFirst == \A p \in Procs : job[p] \notin {"probe", "embed"}

SchemaInv ==
  /\ TypeOK
  /\ JobsOpenFirst
  /\ OpenedIsStamped
  /\ transactional => AllOrNone

LEMMA InitTypes == Init => TypeOK
<1> SUFFICES ASSUME Init PROVE TypeOK
  OBVIOUS
<1>1. foreign \in BOOLEAN /\ stamped \in BOOLEAN
  BY Zenon DEF Init
<1>2. tables \subseteq Tables
  BY DEF Init
<1>3. 0 \in 0..MaxFailures
  BY SchemaAssumption
<1> QED  BY <1>1, <1>2, <1>3, SchemaAssumption DEF Init, TypeOK, PcLabels

LEMMA InitSchema == ASSUME CatalogFirst, Init PROVE SchemaInv
<1>1. TypeOK
  BY InitTypes
<1>2. JobsOpenFirst
  BY DEF CatalogFirst, Init, JobsOpenFirst
<1>3. OpenedIsStamped
  BY DEF Init, OpenedIsStamped, Opened
<1>4. AllOrNone
  BY SchemaAssumption DEF Init, AllOrNone
<1> QED  BY <1>1, <1>2, <1>3, <1>4 DEF SchemaInv

\* Every step keeps the types.
LEMMA StepTypes == ASSUME TypeOK, [Next]_vars PROVE TypeOK'
<1> USE SchemaAssumption DEF TypeOK, Commands, PcLabels, Goto, Raise, First, AfterInit, AfterAdapter,
        settingVars, databaseVars
<1>1. CASE UNCHANGED vars  BY <1>1 DEF vars
<1>2. ASSUME NEW p \in Procs, Launch(p) PROVE TypeOK'  BY <1>2 DEF Launch
<1>3. ASSUME NEW p \in Procs, Step(p) PROVE TypeOK'
  <2>1. CASE IsEmpty(p)         BY <2>1 DEF IsEmpty
  <2>2. CASE Plan(p)            BY <2>2 DEF Plan
  <2>3. CASE CreateAll(p)       BY <2>3 DEF CreateAll
  <2>4. CASE CreateOne(p)       BY <2>4 DEF CreateOne
  <2>5. CASE IsVersioned(p)     BY <2>5 DEF IsVersioned
  <2>6. CASE Stamp(p)           BY <2>6 DEF Stamp
  <2>7. CASE InsertRevision(p)  BY <2>7 DEF InsertRevision
  <2>8. CASE Check(p)           BY <2>8 DEF Check
  <2>9. CASE BuildAdapter(p)    BY <2>9 DEF BuildAdapter, AfterAdapter
  <2>12. CASE CreateAdapter(p)  BY <2>12 DEF CreateAdapter
  <2>10. CASE SchemaState(p)    BY <2>10 DEF SchemaState
  <2>11. CASE Upgrade(p)        BY <2>11 DEF Upgrade
  <2> QED  BY <1>3, <2>1, <2>2, <2>3, <2>4, <2>5, <2>6, <2>7, <2>8, <2>9, <2>10, <2>11, <2>12
           DEF Step
<1>4. ASSUME NEW p \in Procs, Fail(p) PROVE TypeOK'  BY <1>4 DEF Fail
<1> QED  BY <1>1, <1>2, <1>3, <1>4 DEF Next

\* The database and the processes keep their types, and whoever is about to make
\* tables found some missing (create_all), whatever is started on the database.
THEOREM TypeCorrect == Spec => []TypeOK
<1>1. TypeOK /\ [Next]_vars => TypeOK'  BY StepTypes
<1> QED  BY <1>1, InitTypes, PTL DEF Spec

\* No step makes a job out of one that opens the catalog late.
LEMMA StepJobs ==
  ASSUME CatalogFirst, TypeOK, JobsOpenFirst, [Next]_vars PROVE JobsOpenFirst'
<1> USE DEF TypeOK, JobsOpenFirst
<1>1. CASE UNCHANGED vars  BY <1>1 DEF vars
<1>2. ASSUME NEW p \in Procs, Launch(p) PROVE JobsOpenFirst'
  BY <1>2 DEF Launch, CatalogFirst
<1>3. ASSUME NEW p \in Procs, Step(p) PROVE JobsOpenFirst'
  <2>1. CASE Check(p)  BY <2>1 DEF Check
  <2>2. CASE UNCHANGED job  BY <2>2
  <2> QED  BY <1>3, <2>1, <2>2
           DEF Step, IsEmpty, Plan, CreateAll, CreateOne, IsVersioned, Stamp,
               InsertRevision, BuildAdapter, CreateAdapter, SchemaState, Upgrade
<1>4. ASSUME NEW p \in Procs, Fail(p) PROVE JobsOpenFirst'  BY <1>4 DEF Fail
<1> QED  BY <1>1, <1>2, <1>3, <1>4 DEF Next

\* A raise leads back to the start: only doctor --probe goes on.
LEMMA RaiseEnds ==
  ASSUME JobsOpenFirst, NEW p \in Procs, Raise(p) PROVE Goto(p, "idle")
  BY DEF JobsOpenFirst, Raise

\* Catalog.init returns only to a database that is stamped.
LEMMA StepOpened ==
  ASSUME CatalogFirst, TypeOK, JobsOpenFirst, OpenedIsStamped, [Next]_vars
  PROVE  OpenedIsStamped'
<1> USE DEF TypeOK, OpenedIsStamped, Opened, Goto
<1>1. CASE UNCHANGED vars  BY <1>1 DEF vars, databaseVars
<1>2. ASSUME NEW p \in Procs, Launch(p) PROVE OpenedIsStamped'
  BY <1>2 DEF CatalogFirst, Launch, First, databaseVars
<1>3. ASSUME NEW p \in Procs, Step(p) PROVE OpenedIsStamped'
  <2> USE DEF settingVars, databaseVars
  <2>1. CASE IsEmpty(p)         BY <2>1 DEF IsEmpty
  <2>2. CASE Plan(p)            BY <2>2 DEF Plan
  <2>3. CASE CreateAll(p)
    <3>1. CASE Raise(p) /\ UNCHANGED stamped
      BY <3>1, RaiseEnds
    <3>2. CASE stamped' = (stamped \/ job[p] = "migrate")
               /\ Goto(p, IF job[p] = "migrate" THEN "idle" ELSE "stamp")
      BY <3>2
    <3> QED  BY <2>3, <3>1, <3>2 DEF CreateAll
  <2>4. CASE CreateOne(p)
    <3>1. CASE Raise(p)
      BY <2>4, <3>1, RaiseEnds DEF CreateOne
    <3>2. CASE pc' = [pc EXCEPT ![p] = "create"] \/ pc' = [pc EXCEPT ![p] = "insert"]
               \/ pc' = [pc EXCEPT ![p] = "stamp"]
      BY <2>4, <3>2 DEF CreateOne
    <3> QED  BY <2>4, <3>1, <3>2 DEF CreateOne
  <2>5. CASE IsVersioned(p)     BY <2>5 DEF IsVersioned
  <2>6. CASE Stamp(p)           BY <2>6 DEF Stamp
  <2>7. CASE InsertRevision(p)  BY <2>7 DEF InsertRevision
  <2>8. CASE Check(p)           BY <2>8 DEF Check
  <2>9. CASE BuildAdapter(p)    BY <2>9 DEF BuildAdapter, AfterAdapter
  <2>12. CASE CreateAdapter(p)
    <3>1. CASE Raise(p)   BY <2>12, <3>1, RaiseEnds DEF CreateAdapter
    <3>2. CASE ~Raise(p)  BY <2>12, <3>2 DEF CreateAdapter, AfterAdapter
    <3> QED  BY <3>1, <3>2
  <2>10. CASE SchemaState(p)    BY <2>10 DEF SchemaState
  <2>11. CASE Upgrade(p)        BY <2>11 DEF Upgrade
  <2> QED  BY <1>3, <2>1, <2>2, <2>3, <2>4, <2>5, <2>6, <2>7, <2>8, <2>9, <2>10, <2>11, <2>12
           DEF Step
<1>4. ASSUME NEW p \in Procs, Fail(p) PROVE OpenedIsStamped'
  <2>1. Goto(p, "idle")  BY <1>4, RaiseEnds DEF Fail
  <2> QED  BY <1>4, <2>1 DEF Fail, databaseVars
<1> QED  BY <1>1, <1>2, <1>3, <1>4 DEF Next

\* A database with transactional DDL never shows a part of the schema.
LEMMA StepAllOrNone ==
  ASSUME SchemaInv, transactional, [Next]_vars PROVE AllOrNone'
<1> USE SchemaAssumption DEF SchemaInv, TypeOK, AllOrNone, OpenedIsStamped, Opened,
        Goto, settingVars, databaseVars
<1>1. CASE UNCHANGED vars  BY <1>1 DEF vars
<1>2. ASSUME NEW p \in Procs, Launch(p) PROVE AllOrNone'
  <2>1. First(Command[p]) \notin {"versioned", "stamp", "insert", "create"}
    BY DEF First
  <2> QED  BY <1>2, <2>1 DEF Launch
<1>3. ASSUME NEW p \in Procs, Step(p) PROVE AllOrNone'
  <2>1. CASE IsEmpty(p)         BY <2>1 DEF IsEmpty
  <2>2. CASE Plan(p)            BY <2>2 DEF Plan
  <2>3. CASE CreateAll(p)
    <3>1. CASE Raise(p) /\ UNCHANGED <<tables, stamped>>
      BY <2>3, <3>1, RaiseEnds DEF CreateAll
    <3>2. CASE ~(Raise(p) /\ UNCHANGED <<tables, stamped>>)
      <4>1. todo[p] = Tables /\ todo[p] \cap tables = {} /\ tables' = tables \cup todo[p]
        BY <2>3, <3>2 DEF CreateAll
      <4>2. tables' = Tables /\ Tables # {}
        BY <4>1
      <4>3. \A q \in Procs : pc'[q] = "create" => pc[q] = "create" /\ todo'[q] = todo[q]
        BY <2>3, <3>2 DEF CreateAll
      <4> QED  BY <4>2, <4>3
    <3> QED  BY <3>1, <3>2
  <2>4. CASE CreateOne(p)       BY <2>4 DEF CreateOne
  <2>5. CASE IsVersioned(p)     BY <2>5 DEF IsVersioned, AfterInit
  <2>6. CASE Stamp(p)           BY <2>6 DEF Stamp, AfterInit
  <2>7. CASE InsertRevision(p)
    <3>1. tables = Tables /\ tables' = Tables
      BY <2>7 DEF InsertRevision
    <3>2. \A q \in Procs : pc'[q] = "create" => pc[q] = "create" /\ todo'[q] = todo[q]
      <4>1. CASE Raise(p)  BY <2>7, <4>1, RaiseEnds DEF InsertRevision
      <4>2. CASE ~Raise(p) BY <2>7, <4>2 DEF InsertRevision, AfterInit
      <4> QED  BY <4>1, <4>2
    <3> QED  BY <3>1, <3>2
  <2>8. CASE Check(p)           BY <2>8 DEF Check
  <2>9. CASE BuildAdapter(p)    BY <2>9 DEF BuildAdapter, AfterAdapter
  <2>12. CASE CreateAdapter(p)
    <3>1. CASE Raise(p)   BY <2>12, <3>1, RaiseEnds DEF CreateAdapter
    <3>2. CASE ~Raise(p)  BY <2>12, <3>2 DEF CreateAdapter, AfterAdapter
    <3> QED  BY <3>1, <3>2
  <2>10. CASE SchemaState(p)    BY <2>10 DEF SchemaState
  <2>11. CASE Upgrade(p)        BY <2>11 DEF Upgrade
  <2> QED  BY <1>3, <2>1, <2>2, <2>3, <2>4, <2>5, <2>6, <2>7, <2>8, <2>9, <2>10, <2>11, <2>12
           DEF Step
<1>4. ASSUME NEW p \in Procs, Fail(p) PROVE AllOrNone'
  <2>1. Goto(p, "idle")  BY <1>4, RaiseEnds DEF Fail
  <2> QED  BY <1>4, <2>1 DEF Fail
<1> QED  BY <1>1, <1>2, <1>3, <1>4 DEF Next

LEMMA SettingsStay ==
  ASSUME [Next]_vars PROVE transactional' = transactional
  BY DEF Next, Launch, Step, IsEmpty, Plan, CreateAll, CreateOne, IsVersioned, Stamp,
         InsertRevision, Check, BuildAdapter, CreateAdapter, SchemaState, Upgrade, Fail, settingVars, vars

LEMMA StepSchema == ASSUME CatalogFirst, SchemaInv, [Next]_vars PROVE SchemaInv'
<1>1. TypeOK'           BY StepTypes DEF SchemaInv
<1>2. JobsOpenFirst'    BY StepJobs DEF SchemaInv
<1>3. OpenedIsStamped'  BY StepOpened DEF SchemaInv
<1>4. transactional' => AllOrNone'
  BY StepAllOrNone, SettingsStay
<1> QED  BY <1>1, <1>2, <1>3, <1>4 DEF SchemaInv

\* Whatever servers, migrations and checks raced or died, and on any database, a
\* process serves only at head and only over all the tables head stands for.
THEOREM ServersFindTheSchema ==
  ASSUME CatalogFirst PROVE Spec => []ServesOnlyOverTheSchema
<1>1. Init => SchemaInv  BY InitSchema
<1>2. SchemaInv /\ [Next]_vars => SchemaInv'  BY StepSchema
<1>3. SchemaInv => ServesOnlyOverTheSchema
  BY SchemaAssumption
  DEF SchemaInv, OpenedIsStamped, Opened, AllOrNone, ServesOnlyOverTheSchema
<1> QED  BY <1>1, <1>2, <1>3, PTL DEF Spec
=============================================================================
