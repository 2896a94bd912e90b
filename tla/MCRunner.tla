------------------------------ MODULE MCRunner ------------------------------
(***************************************************************************)
(* A workflow of three stages with what makes workflow.json hard: a stage  *)
(* behind @checkpoint that writes a report, a mutable and conditional stage*)
(* that repairs what the report complains of, and a last stage behind the  *)
(* report and @harness_verify.                                             *)
(***************************************************************************)
EXTENDS CodexRunner, TLC

Order == <<"review", "fix", "pr">>

RequiresOf == [s \in {Order[i] : i \in 1..Len(Order)} |->
  CASE s = "review" -> {"@checkpoint"}
    [] s = "fix" -> {"report"}
    [] s = "pr" -> {"report", "@harness_verify"}]

ProducesOf == [s \in {Order[i] : i \in 1..Len(Order)} |->
  CASE s = "review" -> {"report"} [] s = "fix" -> {"fixed"} [] s = "pr" -> {"summary"}]

(* task:create and run:init of one task and run:init of the other have been *)
(* carried out: a state of CodexInit and Next, from which the bound on      *)
(* commands reaches further.                                                *)
CONSTANTS t1, t2

MCInit ==
  /\ queue = (t1 :> "proposed" @@ t2 :> None)
  /\ run = (t1 :> [state |-> "planning", tree |-> None, log |-> {Entry(2)}] @@
            t2 :> [state |-> "planning", tree |-> None, log |-> {Entry(3)}])
  /\ commands = 3 /\ had = [t \in Task |-> {"planning"}]
  /\ files = [t \in Task |-> {}] /\ failing = [t \in Task |-> {}]
  /\ request = [t \in Task |-> {}]
  /\ passed = [t \in Task |-> {}]
  /\ trees = {} /\ proc = [p \in Proc |-> Idle] /\ vouched = [t \in Task |-> {}]
  /\ overlapped = {}
  /\ threads = [q \in Task \X Stage |-> None]
  /\ session = [p \in Proc |-> NoSession]

MCSpec == MCInit /\ [][Next]_vars /\ \A p \in Proc : WF_vars(Progress(p))
=============================================================================
