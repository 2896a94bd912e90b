------------------------------ MODULE Migration ------------------------------
(***************************************************************************)
(* db:migrate and the readiness check (scripts/persistence/migrate.mjs,    *)
(* lib/database-readiness.mjs).  The migration files of a release are a    *)
(* prefix of all the files, in the order of their names; file i is         *)
(* number i.  Migrators of several releases may run at once, and each may  *)
(* be killed or lose its connection between any two statements.            *)
(***************************************************************************)
EXTENDS Integers

CONSTANTS
  Migrator,
  Files      \* number of migration files of the newest release

ASSUME MigrationConstants == Files \in Nat \ {0}

Version == 1..Files

VARIABLES
  tracked,  \* does harness.schema_migrations exist
  applied,  \* the versions in it
  ran,      \* history: how often the SQL of a version has been committed
  mig,      \* the migrators: the files of their release, the file they are at
  runs      \* number of migrators started

migrationVars == <<tracked, applied, ran, mig, runs>>

NotStarted == [pc |-> "none", release |-> 0, at |-> 0]
Ended == [NotStarted EXCEPT !.pc = "ended"]  \* complete or failed

\* An empty database, or one that some release has left.
MigrationInit ==
  \E n \in 0..Files :
    /\ tracked = (n > 0) /\ applied = 1..n
    /\ ran = [v \in Version |-> IF v <= n THEN 1 ELSE 0]
    /\ mig = [m \in Migrator |-> NotStarted] /\ runs = 0

StartMigrator(m) ==
  /\ mig[m].pc = "none" /\ runs' = runs + 1
  /\ \E n \in Version : mig' = [mig EXCEPT ![m] = [pc |-> "tracking", release |-> n, at |-> 1]]
  /\ UNCHANGED <<tracked, applied, ran>>

\* CREATE ... IF NOT EXISTS, outside of any transaction: two that create the
\* same object at once may both try, and one of them fails.
CreateTracking(m) ==
  /\ mig[m].pc = "tracking"
  /\ \/ tracked' = TRUE /\ mig' = [mig EXCEPT ![m].pc = "next"]
     \/ /\ ~tracked /\ \E o \in Migrator \ {m} : mig[o].pc = "tracking"
        /\ tracked' = tracked /\ mig' = [mig EXCEPT ![m] = Ended]
  /\ UNCHANGED <<applied, ran, runs>>

AfterFile(s) ==
  IF s.at = s.release THEN Ended
  ELSE [pc |-> "next", release |-> s.release, at |-> s.at + 1]

Advance(m) == mig' = [mig EXCEPT ![m] = AfterFile(mig[m])]

\* BEGIN, pg_advisory_xact_lock, and whether the version is there.
LockAndLook(m) ==
  /\ mig[m].pc = "next"
  /\ \A o \in Migrator : mig[o].pc \notin {"sql", "recorded"}
  /\ IF mig[m].at \in applied THEN Advance(m) ELSE mig' = [mig EXCEPT ![m].pc = "sql"]
  /\ UNCHANGED <<tracked, applied, ran, runs>>

\* Mutant: the file is executed outside of the transaction.
ExecuteCommitted(m) ==
  /\ mig[m].pc = "sql" /\ mig' = [mig EXCEPT ![m].pc = "recorded"]
  /\ ran' = [ran EXCEPT ![mig[m].at] = @ + 1]
  /\ UNCHANGED <<tracked, applied, runs>>

\* The file, and the INSERT that records it; nobody sees them before COMMIT.
Execute(m) ==
  /\ mig[m].pc = "sql" /\ mig' = [mig EXCEPT ![m].pc = "recorded"]
  /\ UNCHANGED <<tracked, applied, ran, runs>>

\* "heard" is false when the connection breaks before COMMIT has answered.
CommitMigration(m, heard) ==
  /\ mig[m].pc = "recorded"
  /\ applied' = applied \cup {mig[m].at}
  /\ ran' = [ran EXCEPT ![mig[m].at] = @ + 1]
  /\ IF heard THEN Advance(m) ELSE mig' = [mig EXCEPT ![m] = Ended]
  /\ UNCHANGED <<tracked, runs>>

MigratorFails(m) ==
  /\ mig[m].pc \in {"tracking", "next", "sql", "recorded"}
  /\ mig' = [mig EXCEPT ![m] = Ended]
  /\ UNCHANGED <<tracked, applied, ran, runs>>

Migrate ==
  \E m \in Migrator :
    \/ StartMigrator(m) \/ CreateTracking(m) \/ LockAndLook(m) \/ Execute(m)
    \/ (\E heard \in BOOLEAN : CommitMigration(m, heard)) \/ MigratorFails(m)

\* Mutant: the tracking table is enough.
ReadyIfTracked(release) == tracked

\* checkDatabaseReadiness of a server of a release.
Ready(release) == tracked /\ 1..release \subseteq applied

-----------------------------------------------------------------------------
(* The schema is what schema_migrations says: every version recorded was   *)
(* executed, once, after all earlier ones, and none was executed that is   *)
(* not recorded, whatever migrators overlap or are killed (migrate.mjs     *)
(* 14-30).                                                                 *)
SchemaIsWhole ==
  \A v \in Version :
    /\ ran[v] = IF v \in applied THEN 1 ELSE 0
    /\ v \in applied => 1..v \subseteq applied
=============================================================================
