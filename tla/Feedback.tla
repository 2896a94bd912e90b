------------------------------ MODULE Feedback ------------------------------
(***************************************************************************)
(* The feedback loop beside the scheduler: feedback:loop may run at any    *)
(* moment of a task.  When the recorded failures are transient or unknown  *)
(* the workflow stays as it is (DynamicDag!Recompile adds nothing), and    *)
(* the last script of the loop, feedback-reset-nodes, opens review and pr  *)
(* again in dag.json; a node that is running is left alone.                *)
(***************************************************************************)
EXTENDS Scheduler

CONSTANTS
  LifecycleEnd,  \* the nodes with the ids "review" and "pr"
  MaxResets      \* bound: how often feedback:loop is run

ASSUME FeedbackAssumption == LifecycleEnd \subseteq Node /\ MaxResets \in Nat

VARIABLE resets  \* how often the loop has run

fvars == <<vars, resets>>

FeedbackInit == Init /\ resets = 0

Closed(n) == dag.status[n] \in {"passed", "blocked", "failed"}

ClosedEnd == {n \in LifecycleEnd : Closed(n)}

Reopen(N) ==
  [dag EXCEPT !.status = [n \in Node |-> IF n \in N THEN "pending" ELSE dag.status[n]]]

\* Mutants: every closed node is opened again; the requests of the opened
\* nodes are taken off the record.
ResetNodesAll ==
  /\ resets < MaxResets
  /\ dag' = Reopen({n \in Node : Closed(n)})
  /\ resets' = resets + 1
  /\ UNCHANGED <<issued, impact, run>>

ResetNodesForgets ==
  /\ resets < MaxResets
  /\ dag' = [Reopen(ClosedEnd) EXCEPT
               !.attempt = [n \in Node |-> IF n \in ClosedEnd THEN 0 ELSE @[n]],
               !.requests = [q \in {r \in DOMAIN @ : r[1] \notin ClosedEnd} |-> @[q]]]
  /\ resets' = resets + 1
  /\ UNCHANGED <<issued, impact, run>>

\* requestId and attemptId stay as they are, and so does "requests".
ResetNodes ==
  /\ resets < MaxResets
  /\ dag' = Reopen(ClosedEnd)
  /\ resets' = resets + 1
  /\ UNCHANGED <<issued, impact, run>>

SchedulerStep == Next /\ UNCHANGED resets

FeedbackNext == SchedulerStep \/ ResetNodes

FeedbackSpec == FeedbackInit /\ [][FeedbackNext]_fvars

-----------------------------------------------------------------------------
(* The loop takes back nothing but the end of the life cycle: the work     *)
(* upstream that has passed or was skipped, and its evidence, survive any  *)
(* number of loops in any state of the task (feedback-reset-nodes).        *)
FeedbackKeepsUpstream ==
  [][\A n \in Node \ LifecycleEnd :
       dag.status[n] \in {"passed", "skipped"} /\ run' = run =>
         /\ dag'.status[n] = dag.status[n]
         /\ dag'.evidence[n] = dag.evidence[n]]_fvars

(* Opening nodes again never gives a node an attempt it has had before: a  *)
(* request identity is sent out once per initialisation, loop or no loop,  *)
(* although an opened node keeps its old request (getRunnableNodes and     *)
(* hasDuplicateRequest are the two guards).                                *)
RequestsAreSentOnce ==
  [][\A n \in Node :
       dag.status[n] # "running" /\ dag'.status[n] = "running" =>
         <<n, dag'.attempt[n], run>> \notin issued]_fvars
=============================================================================
