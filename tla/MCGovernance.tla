---------------------------- MODULE MCGovernance ----------------------------
(***************************************************************************)
(* policy.json as it is in the repository, and one impact of each kind the *)
(* evaluation tells apart.                                                 *)
(***************************************************************************)
EXTENDS Governance, TLC

Procs == Permutations(Proc)

Modes == [l \in Level \ {"unknown"} |->
  CASE l = "low" -> "auto" [] l = "medium" -> "auto-with-gates"
    [] l = "high" -> "approval-required" [] l = "critical" -> "manual-only"]

RequiredFor == Signal \ {"protectedPathChange"}

Written ==
  {[signals |-> {"protectedPathChange"}, risk |-> "low"],
   [signals |-> {"productionDeployment"}, risk |-> None],
   [signals |-> {"destructiveDatabaseChange", "secretOrCredentialChange"}, risk |-> "low"]}
=============================================================================
