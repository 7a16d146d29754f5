------------------------------- MODULE Schema -------------------------------
(***************************************************************************)
(* How the catalog's schema comes to be: Catalog.init and upgrade          *)
(* (catalog.py) as the commands of cli.py, the server's lifespan and the   *)
(* embedded client call them, several processes at once on one database.   *)
(* The catalog may share that database with the table of the pgvector      *)
(* adapter, as docker-compose.yml has it.                                  *)
(*                                                                         *)
(* Each step is one transaction, or one statement where the database does  *)
(* not put DDL in transactions.  There is one revision at this commit, so  *)
(* a database is at it or at none.                                         *)
(***************************************************************************)
EXTENDS Naturals

CONSTANTS
  Tables,        (* the tables of catalog.metadata, and of revision 0001     *)
  Procs,         (* processes started on the database                        *)
  Command,       (* what each of them is started as                          *)
  MaxFailures    (* bound: processes that die, or find no database           *)

\* "serve" checks the configuration and then boots; "boot" is the app factory
\* without the check; "probe" is doctor --probe; "embed" is the client library.
Commands == {"serve", "boot", "doctor", "probe", "embed", "migrate"}

ASSUME SchemaAssumption ==
  /\ Tables # {}
  /\ Command \in [Procs -> Commands]
  /\ MaxFailures \in Nat

VARIABLES
  transactional,  (* DDL is part of a transaction (PostgreSQL; not SQLite)   *)
  shared,         (* the adapter's table goes to the same database           *)
  tables,         (* the catalog's tables that exist                         *)
  foreign,        (* the adapter's table exists, here or in its own database *)
  stamped,        (* alembic_version holds the head revision                 *)
  job, pc,        (* what each process is doing, and where it is             *)
  todo,           (* the tables it found missing                             *)
  failures        (* how many processes have died                            *)

databaseVars == <<tables, foreign, stamped>>
settingVars == <<transactional, shared>>
vars == <<settingVars, databaseVars, job, pc, todo, failures>>

\* A database is new, from before migrations, or at head.
Init ==
  /\ transactional \in BOOLEAN
  /\ shared \in BOOLEAN
  /\ \/ tables = {} /\ foreign \in {FALSE, ~shared} /\ stamped = FALSE
     \/ tables = Tables /\ foreign \in BOOLEAN /\ stamped \in BOOLEAN
  /\ job = [p \in Procs |-> Command[p]]
  /\ pc = [p \in Procs |-> "idle"]
  /\ todo = [p \in Procs |-> {}]
  /\ failures = 0

Goto(p, label) == pc' = [pc EXCEPT ![p] = label]

InAdapter(p) == pc[p] \in {"adapter", "build"}

\* Mutant: the server starts without a catalog, as it does without a provider.
RaiseLater(p) ==
  IF job[p] \in {"probe", "boot"} /\ ~InAdapter(p)
  THEN Goto(p, "adapter") ELSE Goto(p, "idle")

\* doctor reports a catalog it cannot open and goes on to the probes; every
\* other process ends.
Raise(p) ==
  IF job[p] = "probe" /\ ~InAdapter(p) THEN Goto(p, "adapter") ELSE Goto(p, "idle")

\* Where a process first touches the database: Memory._started builds its
\* adapter before its catalog, everybody else the catalog first.
First(j) ==
  IF j = "migrate" THEN "state" ELSE IF j = "embed" THEN "adapter" ELSE "empty"

\* Where it goes when Catalog.init returns.
AfterInit(j) ==
  CASE j = "embed" -> "serving"
    [] j = "boot"  -> "adapter"
    [] OTHER       -> "check"

Launch(p) ==
  /\ pc[p] = "idle"
  /\ job' = [job EXCEPT ![p] = Command[p]]
  /\ Goto(p, First(Command[p]))
  /\ todo' = [todo EXCEPT ![p] = {}]
  /\ UNCHANGED <<settingVars, databaseVars, failures>>

\* _is_empty: any table but alembic_version makes a database an existing one.
IsEmpty(p) ==
  /\ pc[p] = "empty"
  /\ Goto(p, IF tables = {} /\ ~(shared /\ foreign) THEN "plan" ELSE "versioned")
  /\ UNCHANGED <<settingVars, databaseVars, job, todo, failures>>

\* create_all looks which tables are missing before it makes the first.
Plan(p) ==
  /\ pc[p] = "plan"
  /\ todo' = [todo EXCEPT ![p] = Tables \ tables]
  /\ Goto(p, IF Tables \subseteq tables THEN "stamp" ELSE "create")
  /\ UNCHANGED <<settingVars, databaseVars, job, failures>>

\* Its transaction commits, unless another process made one of them first.  A
\* migration records its revision in the same transaction.
CreateAll(p) ==
  /\ pc[p] = "create"
  /\ transactional
  /\ \/ /\ todo[p] \cap tables # {} \/ (job[p] = "migrate" /\ stamped)
        /\ Raise(p)
        /\ UNCHANGED <<tables, stamped>>
     \/ /\ todo[p] \cap tables = {}
        /\ ~(job[p] = "migrate" /\ stamped)
        /\ tables' = tables \cup todo[p]
        /\ stamped' = (stamped \/ job[p] = "migrate")
        /\ Goto(p, IF job[p] = "migrate" THEN "idle" ELSE "stamp")
  /\ UNCHANGED <<settingVars, foreign, job, todo, failures>>

\* Without transactions every table is there as soon as it is made.
CreateOne(p) ==
  /\ pc[p] = "create"
  /\ ~transactional
  /\ \E t \in todo[p] :
       \/ /\ t \in tables
          /\ Raise(p)
          /\ UNCHANGED <<tables, todo>>
       \/ /\ t \notin tables
          /\ tables' = tables \cup {t}
          /\ todo' = [todo EXCEPT ![p] = @ \ {t}]
          /\ Goto(p, CASE todo[p] # {t}        -> "create"
                       [] job[p] = "migrate"   -> "insert"
                       [] OTHER                -> "stamp")
  /\ UNCHANGED <<settingVars, foreign, stamped, job, failures>>

\* Mutant: a database from before migrations is left to memgw migrate.
LeftToMigrate(p) ==
  /\ pc[p] = "versioned"
  /\ Goto(p, IF stamped THEN AfterInit(job[p]) ELSE "idle")
  /\ UNCHANGED <<settingVars, databaseVars, job, todo, failures>>

\* A database that has tables and no revision is taken to be at head.
IsVersioned(p) ==
  /\ pc[p] = "versioned"
  /\ Goto(p, IF stamped THEN AfterInit(job[p]) ELSE "stamp")
  /\ UNCHANGED <<settingVars, databaseVars, job, todo, failures>>

\* alembic reads the revision, and writes it if it is not there.
Stamp(p) ==
  /\ pc[p] = "stamp"
  /\ Goto(p, IF stamped THEN AfterInit(job[p]) ELSE "insert")
  /\ UNCHANGED <<settingVars, databaseVars, job, todo, failures>>

\* The primary key of alembic_version lets one of several writers win.
InsertRevision(p) ==
  /\ pc[p] = "insert"
  /\ \/ stamped /\ Raise(p)
     \/ /\ ~stamped
        /\ Goto(p, IF job[p] = "migrate" THEN "idle" ELSE AfterInit(job[p]))
  /\ stamped' = TRUE
  /\ UNCHANGED <<settingVars, tables, foreign, job, todo, failures>>

\* The schema check of doctor.  serve refuses to go on unless it passes, and
\* then boots: the application opens the catalog again.
Check(p) ==
  /\ pc[p] = "check"
  /\ job' = [job EXCEPT ![p] = IF @ = "serve" THEN "boot" ELSE @]
  /\ Goto(p, CASE job[p] = "probe"             -> "adapter"
               [] job[p] = "serve" /\ stamped  -> "empty"
               [] OTHER                        -> "idle")
  /\ UNCHANGED <<settingVars, databaseVars, todo, failures>>

\* Where a process goes when its adapter is there.
AfterAdapter(j) ==
  CASE j = "boot"  -> "serving"
    [] j = "embed" -> "empty"
    [] OTHER       -> "idle"

\* PgvectorAdapter.init looks for its table, ...
BuildAdapter(p) ==
  /\ pc[p] = "adapter"
  /\ Goto(p, IF foreign THEN AfterAdapter(job[p]) ELSE "build")
  /\ UNCHANGED <<settingVars, databaseVars, job, todo, failures>>

\* ... and makes it, unless another process has made it since.  The extension it
\* needs on PostgreSQL is made right before, and lost, in the same way.
CreateAdapter(p) ==
  /\ pc[p] = "build"
  /\ \/ foreign /\ Raise(p)
     \/ ~foreign /\ Goto(p, AfterAdapter(job[p]))
  /\ foreign' = TRUE
  /\ UNCHANGED <<settingVars, tables, stamped, job, todo, failures>>

\* _migrate: nothing to do at head, else every migration is run.
SchemaState(p) ==
  /\ pc[p] = "state"
  /\ Goto(p, IF stamped THEN "idle" ELSE "upgrade")
  /\ UNCHANGED <<settingVars, databaseVars, job, todo, failures>>

Upgrade(p) ==
  /\ pc[p] = "upgrade"
  /\ todo' = [todo EXCEPT ![p] = Tables]
  /\ Goto(p, IF stamped THEN "idle" ELSE "create")
  /\ UNCHANGED <<settingVars, databaseVars, job, failures>>

\* A process dies, or the database does not answer it.
Fail(p) ==
  /\ pc[p] # "idle"
  /\ failures < MaxFailures
  /\ failures' = failures + 1
  /\ \/ Goto(p, "idle")
     \/ pc[p] # "serving" /\ Raise(p)
  /\ UNCHANGED <<settingVars, databaseVars, job, todo>>

Step(p) ==
  \/ IsEmpty(p) \/ Plan(p) \/ CreateAll(p) \/ CreateOne(p)
  \/ IsVersioned(p) \/ Stamp(p) \/ InsertRevision(p)
  \/ Check(p) \/ BuildAdapter(p) \/ CreateAdapter(p)
  \/ SchemaState(p) \/ Upgrade(p)

Next == \E p \in Procs : Launch(p) \/ Step(p) \/ Fail(p)

Spec == Init /\ [][Next]_vars

\* The database answers, and whoever runs the servers starts them again.
Servers == {p \in Procs : Command[p] \in {"serve", "boot", "embed"}}
FairSpec ==
  /\ Spec
  /\ \A p \in Procs : WF_vars(Step(p))
  /\ \A p \in Servers : WF_vars(Launch(p))

-----------------------------------------------------------------------------

PcLabels == {"idle", "empty", "plan", "create", "versioned", "stamp", "insert",
             "check", "adapter", "build", "state", "upgrade", "serving"}

\* The types of the database and of the processes; whoever is about to make
\* tables found some missing.
TypeOK ==
  /\ transactional \in BOOLEAN
  /\ shared \in BOOLEAN
  /\ tables \subseteq Tables
  /\ foreign \in BOOLEAN
  /\ stamped \in BOOLEAN
  /\ job \in [Procs -> Commands]
  /\ pc \in [Procs -> PcLabels]
  /\ todo \in [Procs -> SUBSET Tables]
  /\ failures \in 0..MaxFailures
  /\ \A p \in Procs : pc[p] = "create" => todo[p] # {}

\* Whoever serves does so over the schema the code expects: at head ("a behind
\* schema is a failed check", test_migrations.py), and, where DDL is
\* transactional, with every table that head stands for ("They match the first
\* revision", Catalog.init) -- whatever processes raced or died on the way.
ServesOnlyOverTheSchema ==
  \A p \in Procs :
    pc[p] = "serving" => stamped /\ (transactional => tables = Tables)

\* Servers started together on any database, each started again when it loses a
\* race or dies, all come to serve: no half-done start locks the others out.
EveryServerStarts == \A p \in Servers : <>[](pc[p] = "serving")
=============================================================================
