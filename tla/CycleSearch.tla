---------------------------- MODULE CycleSearch -----------------------------
(***************************************************************************)
(* cycleErrors of lib/workflow.mjs: the depth-first search with which      *)
(* validateWorkflow refuses a workflow file that has a dependency cycle.   *)
(* One "visiting" and one "visited" set serve all the roots, and a search  *)
(* that has found a cycle is abandoned where it stands.                    *)
(*                                                                         *)
(* The table is any table over the nodes, cyclic ones included: this is    *)
(* the code that justifies IsAcyclic(DependsOn) in ValidWorkflow.          *)
(***************************************************************************)
EXTENDS Workflow, Sequences

CONSTANT Tables     \* the dependency tables tried

ASSUME TablesAssumption == Tables \subseteq [Node -> SUBSET Node]

VARIABLES
  dependsOn,    \* the dependencies the workflow file declares
  calls,        \* the calls of visit under way, the outermost first
  left,         \* node -> dependencies its call has yet to look at
  visiting,
  visited,
  verdict       \* "searching", or what validateWorkflow is told

searchVars == <<dependsOn, calls, left, visiting, visited, verdict>>

SearchInit ==
  /\ dependsOn \in Tables
  /\ calls = <<>>
  /\ left = [n \in Node |-> {}]
  /\ visiting = {}
  /\ visited = {}
  /\ verdict = "searching"

\* cycleErrors is called anew for the same table.
RestartSearch ==
  /\ calls' = <<>>
  /\ left' = [n \in Node |-> {}]
  /\ visiting' = {}
  /\ visited' = {}
  /\ verdict' = "searching"
  /\ UNCHANGED dependsOn

Current == calls[Len(calls)]

\* visit(n), past its two tests; rest is what the calls under way have left.
Enter(n, rest) ==
  /\ calls' = Append(calls, n)
  /\ visiting' = visiting \cup {n}
  /\ left' = [rest EXCEPT ![n] = dependsOn[n]]
  /\ UNCHANGED <<dependsOn, visited, verdict>>

\* The loop over Object.keys(nodesById): the next root.
VisitRoot(n) ==
  /\ calls = <<>>
  /\ n \notin visited
  /\ \A m \in Node : Before(m, n) => m \in visited
  /\ Enter(n, left)

\* The loop over dependsOn calls visit(d): a dependency that is being
\* visited ends the search, one that was visited is passed over.
VisitDependency(d) ==
  /\ calls # <<>>
  /\ d \in left[Current]
  /\ \/ /\ d \in visiting
        /\ verdict' = "cycle"
        /\ UNCHANGED <<dependsOn, calls, left, visiting, visited>>
     \/ /\ d \in visited \ visiting
        /\ left' = [left EXCEPT ![Current] = @ \ {d}]
        /\ UNCHANGED <<dependsOn, calls, visiting, visited, verdict>>
     \/ /\ d \notin visiting \cup visited
        /\ Enter(d, [left EXCEPT ![Current] = @ \ {d}])

\* Mutant: visiting.delete(id) is forgotten.
LeaveVisiting ==
  /\ calls # <<>>
  /\ left[Current] = {}
  /\ visited' = visited \cup {Current}
  /\ calls' = SubSeq(calls, 1, Len(calls) - 1)
  /\ UNCHANGED <<dependsOn, left, visiting, verdict>>

\* All dependencies were looked at: visit returns true.
Leave ==
  /\ calls # <<>>
  /\ left[Current] = {}
  /\ visiting' = visiting \ {Current}
  /\ visited' = visited \cup {Current}
  /\ calls' = SubSeq(calls, 1, Len(calls) - 1)
  /\ UNCHANGED <<dependsOn, left, verdict>>

\* Every root was visited: no error.
Accept ==
  /\ calls = <<>>
  /\ Node \subseteq visited
  /\ verdict' = "acyclic"
  /\ UNCHANGED <<dependsOn, calls, left, visiting, visited>>

SearchStep ==
  /\ verdict = "searching"
  /\ \/ \E n \in Node : VisitRoot(n) \/ VisitDependency(n)
     \/ Leave
     \/ Accept

-----------------------------------------------------------------------------
(* The search finds a cycle exactly when there is one: it never refuses a  *)
(* table because two branches meet in a node, and no root order hides a    *)
(* cycle from it (cycleErrors).                                            *)
CycleSearchIsExact ==
  /\ verdict = "cycle" => ~ IsAcyclic(dependsOn)
  /\ verdict = "acyclic" => IsAcyclic(dependsOn)
=============================================================================
