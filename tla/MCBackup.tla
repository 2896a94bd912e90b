------------------------------ MODULE MCBackup ------------------------------
(***************************************************************************)
(* The documents an operator may have encrypted: only the database URL,    *)
(* and the three keys of control-plane.json.example.  Environments: the    *)
(* unit's, with the secrets file; an operator's, with the URL.             *)
(***************************************************************************)
EXTENDS Backup, TLC

Procs == Permutations(Proc)

SecretDocuments ==
  {[keys |-> {"HARNESS_DATABASE_URL"}, blank |-> {}],
   [keys |-> CONTROL_PLANE_SECRET_KEYS, blank |-> {}]}

ExampleDocument == {[keys |-> CONTROL_PLANE_SECRET_KEYS, blank |-> {}]}

Unit == {{"HARNESS_DATABASE_SECRETS_FILE"}}

Started == Unit \cup {{"HARNESS_DATABASE_URL"}}
=============================================================================
