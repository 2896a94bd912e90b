------------------------------ MODULE Database ------------------------------
(***************************************************************************)
(* Migration and Coordination over one database: the tables of leases and  *)
(* idempotency keys come with the last migration file                      *)
(* (003_runtime_coordination.sql), and a release serves only after its     *)
(* readiness check has said so (docs/control-plane/production-readiness.md,*)
(* "apply migrations, verify /ready, then shift traffic").                 *)
(***************************************************************************)
EXTENDS Coordination, Migration

CONSTANT MaxActivity  \* bound: calls and migrators together

ASSUME DatabaseConstants == MaxActivity \in Nat

VARIABLE traffic  \* has a readiness check let the newest release have its traffic

databaseVars == <<vars, migrationVars, traffic>>

DatabaseInit == Init /\ MigrationInit /\ traffic = FALSE

\* /ready answers 200.  Nobody asks again before a call.
ShiftTraffic ==
  /\ ~traffic /\ Ready(Files) /\ traffic' = TRUE
  /\ UNCHANGED <<vars, migrationVars>>

\* Processes of the newest release, which uses the tables.
Serve ==
  /\ Next
  /\ calls' > calls => traffic /\ calls + runs < MaxActivity
  /\ UNCHANGED <<migrationVars, traffic>>

Migrating ==
  /\ Migrate
  /\ runs' > runs => calls + runs < MaxActivity
  /\ UNCHANGED <<vars, traffic>>

DatabaseNext == ShiftTraffic \/ Serve \/ Migrating

DatabaseSpec == DatabaseInit /\ [][DatabaseNext]_databaseVars

-----------------------------------------------------------------------------
(* No call of a release meets a table that is missing: the readiness check *)
(* that gave it its traffic was asked once, and is not asked again while   *)
(* migrators of older and newer releases run (database-readiness.mjs       *)
(* 25-53).                                                                 *)
TablesAreThere == \A p \in Proc : tx[p] # Idle => ran[Files] > 0
=============================================================================
