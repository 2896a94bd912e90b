--------------------------- MODULE SchedulerLoops ---------------------------
(***************************************************************************)
(* runScheduler pass by pass.  Scheduler.tla makes a scheduler run one     *)
(* step with the outcome DagState defines for it; here the run searches    *)
(* the workflow for a cycle, sweeps over the nodes to propagate blocks,    *)
(* walks them once to choose the runnable ones with the counters of        *)
(* getRunnableNodes, and sends them one at a time, on a document in the    *)
(* memory of the process that reaches dag.json at the end.                 *)
(*                                                                         *)
(* The constants of Workflow describe the table DependsOn: a run on any    *)
(* other of the tables tried ends with the verdict of the search.  One     *)
(* command runs at a time, as in Scheduler.tla.                            *)
(***************************************************************************)
EXTENDS Scheduler, CycleSearch

VARIABLES
  phase,      \* the loop the run is in, or "idle" between two commands
  who,        \* its owner
  work,       \* the document in memory
  index,      \* the position the loop has come to
  changed,    \* propagateDependencyBlocks: this sweep blocked a node
  usage,      \* getRunnableNodes: what the pool counts
  runnable,   \* the nodes it has taken
  requests    \* the requests the run has made

runVars == <<phase, who, work, index, changed, usage, runnable, requests>>

loopVars == <<vars, searchVars, runVars>>

Phase == {"idle", "validate", "blocks", "choose", "dispatch", "stopped"}

NoUsage == [global |-> 0, mutable |-> 0, readOnly |-> 0,
            role |-> [a \in {Agent[n] : n \in Node} |-> 0]]

\* What the process has in memory is gone when it is not running.
Memory(p) ==
  /\ phase' = p
  /\ who' = None
  /\ work' = InitialDocument
  /\ index' = 1
  /\ changed' = FALSE
  /\ usage' = NoUsage
  /\ runnable' = {}
  /\ requests' = {}

LoopInit ==
  /\ Init
  /\ SearchInit
  /\ phase = "idle"
  /\ who = None
  /\ work = InitialDocument
  /\ index = 1
  /\ changed = FALSE
  /\ usage = NoUsage
  /\ runnable = {}
  /\ requests = {}

-----------------------------------------------------------------------------
(* runScheduler, up to the lock. *)

BeginRun ==
  /\ phase = "idle"
  /\ RestartSearch
  /\ Memory("validate")
  /\ UNCHANGED vars

ValidateRun ==
  /\ phase = "validate"
  /\ SearchStep
  /\ UNCHANGED <<vars, runVars>>

\* A workflow with a cycle, or the task lock of another owner.
RefuseRun ==
  /\ phase = "validate"
  /\ \/ verdict = "cycle"
     \/ verdict = "acyclic" /\ \E owner \in Owner : ~ LockAvailable(dag, owner)
  /\ Memory("idle")
  /\ UNCHANGED <<vars, searchVars>>

\* markConditionalNodes and acquireTaskLock.
LockTask(owner) ==
  /\ phase = "validate"
  /\ verdict = "acyclic"
  /\ dependsOn = DependsOn
  /\ LockAvailable(dag, owner)
  /\ phase' = "blocks"
  /\ who' = owner
  /\ work' = [MarkConditionalNodes(dag, DatabaseChangeRequired) EXCEPT !.lock = owner]
  /\ UNCHANGED <<vars, searchVars, index, changed, usage, runnable, requests>>

-----------------------------------------------------------------------------
(* propagateDependencyBlocks: a sweep sees the blocks it has made itself,  *)
(* and the sweeps go on until one changes nothing.                         *)

MustBlock(n) == work.status[n] = "pending" /\ HasFailedDependency(n, work.status)

BlockOrPass(n) ==
  /\ phase = "blocks"
  /\ Position[n] = index
  /\ work' = IF MustBlock(n) THEN [work EXCEPT !.status[n] = "blocked"] ELSE work
  /\ changed' = (changed \/ MustBlock(n))
  /\ index' = index + 1
  /\ UNCHANGED <<vars, searchVars, phase, who, usage, runnable, requests>>

SweepAgain ==
  /\ phase = "blocks"
  /\ index > Cardinality(Node)
  /\ changed
  /\ index' = 1
  /\ changed' = FALSE
  /\ UNCHANGED <<vars, searchVars, phase, who, work, usage, runnable, requests>>

-----------------------------------------------------------------------------
(* getRunnableNodes: the counters start from the running nodes and go up   *)
(* with every node taken; a full pool ends the loop ("break"), a full kind *)
(* or role passes over the node ("continue").                              *)

InitialUsage(status) ==
  LET busy == RunningNodes(status)
      mutable == Cardinality(busy \cap Mutable)
  IN  [global   |-> Cardinality(busy),
       mutable  |-> mutable,
       readOnly |-> Cardinality(busy) - mutable,
       role     |-> [a \in {Agent[n] : n \in Node} |->
                       Cardinality({m \in busy : Agent[m] = a})]]

SweepDone ==
  /\ phase = "blocks"
  /\ index > Cardinality(Node)
  /\ ~ changed
  /\ phase' = "choose"
  /\ index' = 1
  /\ usage' = InitialUsage(work.status)
  /\ UNCHANGED <<vars, searchVars, who, work, changed, runnable, requests>>

Candidate(n) == n \in ReadyNodes(work.status, work.attempt)

KindOrRoleFull(n) ==
  \/ n \in Mutable /\ usage.mutable >= MutableLimit
  \/ n \notin Mutable /\ usage.readOnly >= ReadOnlyLimit
  \/ usage.role[Agent[n]] >= RoleLimit[Agent[n]]

CountNode(n) ==
  [usage EXCEPT !.global = @ + 1,
                !.mutable = IF n \in Mutable THEN @ + 1 ELSE @,
                !.readOnly = IF n \in Mutable THEN @ ELSE @ + 1,
                !.role[Agent[n]] = @ + 1]

PassOver(n) ==
  /\ phase = "choose"
  /\ Position[n] = index
  /\ Candidate(n) => usage.global < GlobalLimit /\ KindOrRoleFull(n)
  /\ index' = index + 1
  /\ UNCHANGED <<vars, searchVars, phase, who, work, changed, usage, runnable, requests>>

Take(n) ==
  /\ phase = "choose"
  /\ Position[n] = index
  /\ Candidate(n)
  /\ usage.global < GlobalLimit
  /\ ~ KindOrRoleFull(n)
  /\ runnable' = runnable \cup {n}
  /\ usage' = CountNode(n)
  /\ index' = index + 1
  /\ UNCHANGED <<vars, searchVars, phase, who, work, changed, requests>>

\* The end of the table, or a ready node and a pool that is full.
ChooseDone ==
  /\ phase = "choose"
  /\ \/ index > Cardinality(Node)
     \/ usage.global >= GlobalLimit
        /\ \E n \in Node : Position[n] = index /\ Candidate(n)
  /\ phase' = "dispatch"
  /\ index' = 1
  /\ UNCHANGED <<vars, searchVars, who, work, changed, usage, runnable, requests>>

-----------------------------------------------------------------------------
(* The loop of scheduleRunnableNodes over the runnable nodes: give the     *)
(* node a worktree, return at the first conflict, leave out a duplicate,   *)
(* send the request.                                                       *)

IsNextRunnable(n) ==
  /\ n \in runnable
  /\ index <= Position[n]
  /\ \A m \in runnable : Before(m, n) => Position[m] < index

WithWorktree(n) == AllocateWorktrees(work, {n})

\* Mutant: a conflict passes over the node instead of ending the run.
StopAtConflictGoesOn(n) ==
  /\ phase = "dispatch"
  /\ IsNextRunnable(n)
  /\ WorktreeConflict(WithWorktree(n))
  /\ work' = WithWorktree(n)
  /\ index' = Position[n] + 1
  /\ UNCHANGED <<vars, searchVars, phase, who, changed, usage, runnable, requests>>

StopAtConflict(n) ==
  /\ phase = "dispatch"
  /\ IsNextRunnable(n)
  /\ WorktreeConflict(WithWorktree(n))
  /\ phase' = "stopped"
  /\ work' = WithWorktree(n)
  /\ index' = Position[n] + 1
  /\ UNCHANGED <<vars, searchVars, who, changed, usage, runnable, requests>>

Send(n) ==
  /\ phase = "dispatch"
  /\ IsNextRunnable(n)
  /\ ~ WorktreeConflict(WithWorktree(n))
  /\ LET D == {n} \ {m \in Node : DuplicateRequest(work, m)}
     IN  /\ work' = Dispatch(WithWorktree(n), D)
         /\ requests' = requests \cup NewRequests(work, D)
  /\ index' = Position[n] + 1
  /\ UNCHANGED <<vars, searchVars, phase, who, changed, usage, runnable>>

\* The request files and dag.json; a run that was stopped without a request
\* writes nothing.
WriteState ==
  /\ \/ phase = "dispatch" /\ \A n \in runnable : Position[n] < index
     \/ phase = "stopped" /\ requests # {}
  /\ dag' = work
  /\ issued' = issued \cup {<<q[1], q[2], run>> : q \in requests}
  /\ Memory("idle")
  /\ UNCHANGED <<impact, run, searchVars>>

GiveUp ==
  /\ phase = "stopped"
  /\ requests = {}
  /\ Memory("idle")
  /\ UNCHANGED <<vars, searchVars>>

-----------------------------------------------------------------------------
\* The commands that are one step in Scheduler.tla are one step here.
OtherCommand ==
  /\ phase = "idle"
  /\ \/ ParallelInit
     \/ \E n \in Node : ApplyResult(n) \/ Retry(n)
     \/ WriteImpact
  /\ UNCHANGED <<searchVars, runVars>>

LoopNext ==
  \/ BeginRun \/ ValidateRun \/ RefuseRun
  \/ \E owner \in Owner : LockTask(owner)
  \/ \E n \in Node :
       BlockOrPass(n) \/ PassOver(n) \/ Take(n) \/ StopAtConflict(n) \/ Send(n)
  \/ SweepAgain \/ SweepDone \/ ChooseDone \/ WriteState \/ GiveUp
  \/ OtherCommand

LoopSpec == LoopInit /\ [][LoopNext]_loopVars

-----------------------------------------------------------------------------
(* However the loops go - blocks against the file order, a pool that fills *)
(* up in the middle, a conflict or a duplicate among the runnable nodes -  *)
(* a run writes an outcome that DagState defines for it, and nothing else  *)
(* is ever written: the loops implement the scheduler of Scheduler.tla.    *)
RunHasTheDefinedOutcome == Spec
=============================================================================
