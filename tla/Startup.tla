------------------------------ MODULE Startup ------------------------------
(***************************************************************************)
(* The life of the application process around its migrations: main         *)
(* connects, brings the schema up to date, serves, and stops.  The schema  *)
(* and the migration table (one version and a dirty flag) are in MySQL and *)
(* survive the process; the container restarts a process that failed.      *)
(***************************************************************************)
EXTENDS Integers, FiniteSets

CONSTANTS
  NumMigrations,  \* the files 000001 ... in migrations/
  Requires,       \* migration -> those whose tables it alters
  MaxFaults       \* bound on crashes and failing statements

Versions == 1..NumMigrations

ASSUME StartupAssumption ==
  /\ NumMigrations \in Nat
  /\ Requires \in [Versions -> SUBSET Versions]
  /\ \A v \in Versions : \A u \in Requires[v] : u < v
  /\ MaxFaults \in Nat

VARIABLES
  applied,  \* migrations whose statement the schema has had
  version,  \* schema_migrations.version, 0 while it has no row
  dirty,    \* schema_migrations.dirty
  boot,     \* where the process is
  faults    \* ghost: crashes and failing statements so far

vars == <<applied, version, dirty, boot, faults>>

BootSteps == {"connect", "up", "force", "run", "clean"}

TypeOK ==
  /\ applied \subseteq Versions
  /\ version \in 0..NumMigrations
  /\ dirty \in BOOLEAN
  /\ boot \in BootSteps \cup {"off", "failed", "serving"}
  /\ faults \in Nat

Init ==
  /\ applied = {} /\ version = 0 /\ dirty = FALSE
  /\ boot = "off"
  /\ faults = 0

Fault ==
  /\ faults < MaxFaults
  /\ faults' = faults + 1

dbVars == <<applied, version, dirty>>

-----------------------------------------------------------------------------

Start ==
  /\ boot = "off"
  /\ boot' = "connect"
  /\ UNCHANGED <<dbVars, faults>>

\* log.Fatalf ends the process with status 1; "restart: on-failure".
Restart ==
  /\ boot = "failed"
  /\ boot' = "connect"
  /\ UNCHANGED <<dbVars, faults>>

Connect ==
  /\ boot = "connect"
  /\ \/ boot' = "up" /\ UNCHANGED faults
     \/ Fault /\ boot' = "failed"
  /\ UNCHANGED dbVars

-----------------------------------------------------------------------------
(* Up of the migration library: each pending migration is marked dirty,    *)
(* run, and marked clean; a dirty table is an error of its own.  Only a    *)
(* process that ended in between leaves it dirty, so the second Up, after  *)
(* the Force, never finds it so and continues like the first.              *)

\* Faulty variant: Up does not see the end of the list.
MarkNextUnbounded ==
  /\ version' = version + 1
  /\ dirty' = TRUE
  /\ boot' = "run"
  /\ UNCHANGED <<applied, faults>>

\* Faulty variant: the newest migration is marked, as if it held the others.
MarkNewest ==
  /\ version < NumMigrations
  /\ version' = NumMigrations
  /\ dirty' = TRUE
  /\ boot' = "run"
  /\ UNCHANGED <<applied, faults>>

MarkNext ==
  /\ version < NumMigrations
  /\ version' = version + 1
  /\ dirty' = TRUE
  /\ boot' = "run"
  /\ UNCHANGED <<applied, faults>>

Up ==
  /\ boot = "up"
  /\ \/ ~dirty /\ MarkNext
     \/ ~dirty /\ version = NumMigrations /\ boot' = "serving" /\ UNCHANGED <<dbVars, faults>>
     \/ dirty /\ boot' = "force" /\ UNCHANGED <<dbVars, faults>>

\* An error of the statement is returned by Migrate and is fatal in main.
RunStatement ==
  /\ boot = "run"
  /\ \/ /\ Requires[version] \subseteq applied
        /\ applied' = applied \cup {version}
        /\ boot' = "clean" /\ UNCHANGED faults
     \/ /\ ~(Requires[version] \subseteq applied)
        /\ boot' = "failed" /\ UNCHANGED <<applied, faults>>
     \/ Fault /\ boot' = "failed" /\ UNCHANGED applied
  /\ UNCHANGED <<version, dirty>>

MarkClean ==
  /\ boot = "clean"
  /\ dirty' = FALSE
  /\ boot' = "up"
  /\ UNCHANGED <<applied, version, faults>>

\* Faulty variant: Force to the version before, so that Up runs it again.
ForceBack ==
  /\ boot = "force"
  /\ dirty' = FALSE
  /\ version' = version - 1
  /\ boot' = "up"
  /\ UNCHANGED <<applied, faults>>

\* Faulty variant: a dirty table is reported like any other error.
ForceNever ==
  /\ boot = "force"
  /\ boot' = "failed"
  /\ UNCHANGED <<dbVars, faults>>

ForceVersion ==
  /\ boot = "force"
  /\ dirty' = FALSE
  /\ boot' = "up"
  /\ UNCHANGED <<applied, version, faults>>

-----------------------------------------------------------------------------

\* SIGTERM, or an error of the HTTP server: main returns with status 0, which
\* is not a failure.
Shutdown ==
  /\ boot = "serving"
  /\ boot' = "off"
  /\ UNCHANGED <<dbVars, faults>>

Crash ==
  /\ boot \in BootSteps \cup {"serving"}
  /\ Fault
  /\ boot' = "failed"
  /\ UNCHANGED dbVars

BootStep == Restart \/ Connect \/ Up \/ RunStatement \/ MarkClean \/ ForceVersion

Next == Start \/ BootStep \/ Shutdown \/ Crash

\* A process that was started runs and a failed one is restarted.
Spec == Init /\ [][Next]_vars /\ WF_vars(BootStep)

-----------------------------------------------------------------------------

(* No statement is run on a schema that has had it: ADD COLUMN would fail   *)
(* a second time, at every start from then on.                              *)
NothingRunsTwice ==
  [][boot = "run" /\ boot' = "clean" => version \notin applied]_vars

(* A migration that the table counts as done and the schema has not had is  *)
(* the doing of one crash or failing statement, or needs such a migration:  *)
(* an undisturbed start never skips one.                                    *)
Missing == {v \in 1..version : v \notin applied}

Skipped ==
  {v \in Missing : Requires[v] \subseteq applied /\ ~(dirty /\ v = version)}

SkippedOnlyByFaults == Cardinality(Skipped) <= faults

(* Whatever a crash leaves behind, a started process gets to serve.         *)
StartsInTheEnd == boot # "off" ~> boot \in {"serving", "off"}

-----------------------------------------------------------------------------
(* A statement of the repository that the code does not keep.              *)

(* infra/migrate.go: a dirty flag can be forced clear and the migration run *)
(* again, so that a serving process has the whole schema.                   *)
ServesWholeSchema == boot = "serving" => applied = Versions
=============================================================================
