------------------------------- MODULE Runner -------------------------------
(***************************************************************************)
(* The sequential runner (harness:run, runner.mjs) and the commands around *)
(* it: task:create, run:init, transition, worktree:create.  Every task has *)
(* its run.json, artifacts, requests and results; the queue tasks.json is  *)
(* one file for all tasks.  A runner is cut where it reads or writes a file*)
(* that others write, so runners of several tasks, or of one, interleave,  *)
(* and a process may be killed between any two files.                      *)
(*                                                                         *)
(* A stage's state in workflow.json is identified with the stage.  A       *)
(* request's attempt number is always 1 (invoke.mjs never increments it),  *)
(* so a request is the pair of task and stage.                             *)
(***************************************************************************)
EXTENDS FiniteSetsExt, Naturals, Sequences

CONSTANTS
  Task, Proc,
  Stages,       \* the stage ids in the order of workflow.json
  Mutable,      \* stages with mutable: true
  Conditional,  \* stages that run only if a report says failed
  Requires,     \* stage -> artifacts, "@checkpoint", "@handoff", "@harness_verify"
  Produces,     \* stage -> artifacts
  Reports,      \* test-report.json and review-report.json
  MaxCommands,  \* bound: commands started in all
  None

Stage == {Stages[i] : i \in 1..Len(Stages)}
State == Stage \cup {"planning", "blocked", "completed"}
Artifact == UNION {Produces[s] : s \in Stage}
\* The marks that some stage requires.
Mark == {"@checkpoint", "@handoff"} \cap UNION {Requires[s] : s \in Stage}

ASSUME RunnerConstants ==
  /\ Stages \in Seq(Stage)
  /\ \A i, j \in 1..Len(Stages) : Stages[i] = Stages[j] => i = j
  /\ Mutable \cup Conditional \subseteq Stage /\ Reports \subseteq Artifact
  /\ MaxCommands \in Nat /\ None \notin State \cup {"proposed"}

VARIABLES
  queue,      \* tasks.json: the state of each task in it, or None
  run,        \* run.json of each task, or None
  files,      \* the artifacts and marks of each task that exist
  failing,    \* the reports of each task that say failed
  request,    \* the stages of each task with a request file
  passed,     \* the stages of each task whose result file is valid and says so
  trees,      \* the worktrees that exist
  proc,       \* what each process is doing
  commands,   \* number of commands started; numbers their history entries
  had,        \* history: the states run.json of each task has shown
  vouched,    \* history: the stages whose agent has answered "passed"
  overlapped  \* history: tasks on which two commands were at work at once

runVars == <<queue, run, files, failing, request, passed, trees, proc,
             commands, had, vouched, overlapped>>

Idle == [pc |-> "idle"]

Init ==
  /\ queue = [t \in Task |-> None] /\ run = [t \in Task |-> None]
  /\ files = [t \in Task |-> {}] /\ failing = [t \in Task |-> {}]
  /\ request = [t \in Task |-> {}]
  /\ passed = [t \in Task |-> {}]
  /\ trees = {} /\ proc = [p \in Proc |-> Idle] /\ commands = 0
  /\ had = [t \in Task |-> {}] /\ vouched = [t \in Task |-> {}]
  /\ overlapped = {}

-----------------------------------------------------------------------------
(* Commands.  A native runner that awaits its Codex session is not at      *)
(* work: it holds no copy of run.json that it will write.                  *)

AtWork == {"decide", "tree", "saveRun", "saveQueue", "request"}

Busy(t) == \E p \in Proc : proc[p].pc \in AtWork /\ proc[p].task = t

Command == commands < MaxCommands /\ commands' = commands + 1

\* A command that reads or writes run.json.
TouchRun(t) == overlapped' = IF Busy(t) THEN overlapped \cup {t} ELSE overlapped

StartCommand(t) == Command /\ TouchRun(t)

\* Entries of a history: what a command adds at first, and the outcome that a
\* native runner adds after its session.
Entry(id) == <<id, "command">>
Outcome(id) == <<id, "outcome">>

\* A process at work, with the run.json and the stage it works on.
Working(me, pc, r, s) ==
  [pc |-> pc, native |-> me.native, task |-> me.task, id |-> me.id,
   queue |-> me.queue, run |-> r, stage |-> s]

RunInit(t) ==
  /\ StartCommand(t)
  /\ run' = [run EXCEPT ![t] = [state |-> "planning", tree |-> None, log |-> {Entry(commands')}]]
  /\ had' = [had EXCEPT ![t] = @ \cup {"planning"}]
  /\ UNCHANGED <<queue, files, failing, request, passed, trees, proc, vouched>>

Transition(t) ==
  /\ StartCommand(t) /\ run[t] # None
  /\ run' = [run EXCEPT ![t] =
       [state |-> "blocked", tree |-> run[t].tree, log |-> run[t].log \cup {Entry(commands')}]]
  /\ had' = [had EXCEPT ![t] = @ \cup {"blocked"}]
  /\ UNCHANGED <<queue, files, failing, request, passed, trees, proc, vouched>>

\* worktree:create, by hand: fails where the worktree exists.
WorktreeCreate(t) ==
  /\ StartCommand(t) /\ <<t, "task">> \notin trees
  /\ trees' = trees \cup {<<t, "task">>}
  /\ run' = IF run[t] = None THEN run
            ELSE [run EXCEPT ![t] =
                    [state |-> run[t].state, tree |-> "task",
                     log |-> run[t].log \cup {Entry(commands')}]]
  /\ UNCHANGED <<queue, files, failing, request, passed, proc, had, vouched>>

\* task-create reads tasks.json, adds the task and writes the file.
TaskCreate(p, t) ==
  /\ proc[p] = Idle /\ queue[t] = None /\ Command
  /\ proc' = [proc EXCEPT ![p] = [pc |-> "append", task |-> t, queue |-> queue]]
  /\ UNCHANGED <<queue, run, files, failing, request, passed, trees, had, vouched,
                 overlapped>>

AppendTask(p) ==
  /\ proc[p].pc = "append"
  /\ queue' = [proc[p].queue EXCEPT ![proc[p].task] = "proposed"]
  /\ proc' = [proc EXCEPT ![p] = Idle]
  /\ UNCHANGED <<run, files, failing, request, passed, trees, commands, had,
                 vouched, overlapped>>

\* runner.mjs and native-runner.mjs load run.json and the queue first.
LoadAs(p, t, native) ==
  /\ proc[p] = Idle /\ run[t] # None /\ queue[t] # None
  /\ StartCommand(t)
  /\ proc' = [proc EXCEPT ![p] =
       [pc |-> "decide", native |-> native, task |-> t, id |-> commands',
        queue |-> queue, run |-> run[t], stage |-> None]]
  /\ UNCHANGED <<queue, run, files, failing, request, passed, trees, had, vouched>>

Load(p, t) == LoadAs(p, t, FALSE)

-----------------------------------------------------------------------------
(* The next stage and its requirements. *)

\* A request is valid as long as it is there: workflow.json does not change.
RequestIsValid(t, s) == s \in request[t]

\* Mutant: the artifacts are enough, whatever the result says.
CompletedByFiles(t, s) == Produces[s] \subseteq files[t]

StageCompleted(t, s) ==
  /\ RequestIsValid(t, s) /\ s \in passed[t]
  /\ Produces[s] \subseteq files[t]

\* native-runner asks for the artifacts only.
Done(t, native) ==
  {s \in Stage : IF native THEN Produces[s] \subseteq files[t] ELSE StageCompleted(t, s)}

ShouldRun(t, s) == s \in Conditional => failing[t] # {}

NextStage(t, native) ==
  LET open == {i \in 1..Len(Stages) :
                 Stages[i] \notin Done(t, native) /\ ShouldRun(t, Stages[i])}
  IN IF open = {} THEN None ELSE Stages[Min(open)]

UnmetRequirements(t, s, verified) ==
  {r \in Requires[s] : IF r = "@harness_verify" THEN ~verified ELSE r \notin files[t]}

\* "verified" is the exit status of harness:verify, or the flag that skips it.
\* runner.mjs reads run.json again, native-runner keeps what it has loaded.
Decide(p, verified) ==
  LET me == proc[p]  t == me.task  s == NextStage(t, me.native)
      now == IF me.native THEN me.run ELSE run[t]
  IN /\ me.pc = "decide"
     /\ proc' = [proc EXCEPT ![p] =
          IF s # None /\ UnmetRequirements(t, s, verified) # {} THEN Idle
          ELSE Working(me, IF s \in Mutable THEN "tree" ELSE "saveRun", now, s)]
     /\ UNCHANGED <<queue, run, files, failing, request, passed, trees, commands,
                    had, vouched, overlapped>>

\* Mutant: the state is only put into the run, to be saved with the request.
EnsureWorktreeOnly(p) ==
  LET me == proc[p]  t == me.task
  IN /\ me.pc = "tree"
     /\ trees' = trees \cup {<<t, me.stage>>}
     /\ run' = [run EXCEPT ![t].tree = me.stage]
     /\ proc' = [proc EXCEPT ![p].pc = "saveQueue",
                             ![p].run.tree = me.stage, ![p].run.state = me.stage]
     /\ UNCHANGED <<queue, files, failing, request, passed, commands, had,
                    vouched, overlapped>>

\* ensureNodeWorktree (runner.mjs): a worktree of the stage; run.json is
\* saved with it.  ensureWorktree (native): the worktree run.json names if
\* it exists, else one of the task; run.json is read, saved and read again.
EnsureWorktree(p) ==
  LET me == proc[p]  t == me.task  old == run[t]
      kept == me.native /\ old.tree # None /\ <<t, old.tree>> \in trees
      tree == IF ~me.native THEN me.stage ELSE IF kept THEN old.tree ELSE "task"
      saved == IF me.native
                 THEN IF kept THEN old
                      ELSE [state |-> old.state, tree |-> tree,
                            log |-> old.log \cup {Entry(me.id)}]
                 ELSE [state |-> me.run.state, tree |-> tree, log |-> me.run.log]
  IN /\ me.pc = "tree"
     /\ trees' = trees \cup {<<t, tree>>}
     /\ run' = [run EXCEPT ![t] = saved]
     /\ proc' = [proc EXCEPT ![p] = Working(me, "saveRun", saved, me.stage)]
     /\ UNCHANGED <<queue, files, failing, request, passed, commands, had,
                    vouched, overlapped>>

\* git worktree add fails and ends the command; also a kill at any point.
Leave(p) ==
  /\ proc[p] # Idle
  /\ proc' = [proc EXCEPT ![p] = Idle]
  /\ UNCHANGED <<queue, run, files, failing, request, passed, trees, commands,
                 had, vouched, overlapped>>

NewState(me) == IF me.stage = None THEN "completed" ELSE me.stage

SaveRun(p) ==
  LET me == proc[p]
      saved == [state |-> NewState(me), tree |-> me.run.tree,
                log |-> me.run.log \cup {Entry(me.id)}]
  IN /\ me.pc = "saveRun"
     /\ run' = [run EXCEPT ![me.task] = saved]
     /\ had' = [had EXCEPT ![me.task] = @ \cup {NewState(me)}]
     /\ proc' = [proc EXCEPT ![p] = Working(me, "saveQueue", saved, me.stage)]
     /\ UNCHANGED <<queue, files, failing, request, passed, trees, commands,
                    vouched, overlapped>>

\* The whole queue as it was read when the command began.
SaveQueue(p) ==
  LET me == proc[p]
  IN /\ me.pc = "saveQueue"
     /\ queue' = [me.queue EXCEPT ![me.task] = NewState(me)]
     /\ proc' = [proc EXCEPT ![p] =
          IF me.stage = None THEN Idle
          ELSE Working(me, IF me.native THEN "spawn" ELSE "request", me.run, me.stage)]
     /\ UNCHANGED <<run, files, failing, request, passed, trees, commands, had,
                    vouched, overlapped>>

\* writeInvocationRequest, and run.json once more.
WriteRequest(p) ==
  LET me == proc[p]
  IN /\ me.pc = "request"
     /\ request' = [request EXCEPT ![me.task] = @ \cup {me.stage}]
     /\ run' = [run EXCEPT ![me.task] = me.run]
     /\ proc' = [proc EXCEPT ![p] = Idle]
     /\ UNCHANGED <<queue, files, failing, passed, trees, commands, had, vouched,
                    overlapped>>

-----------------------------------------------------------------------------
(* Agents and people: artifacts and result of a requested stage, in any    *)
(* order and again, and the files of checkpoint and handoff.               *)

Produce(t, s, bad) ==
  /\ files' = [files EXCEPT ![t] = @ \cup Produces[s]]
  /\ failing' = [failing EXCEPT ![t] =
                   IF bad THEN @ \cup (Produces[s] \cap Reports) ELSE @ \ Produces[s]]

AgentProduces(t, s) ==
  /\ s \in request[t]
  /\ \E bad \in BOOLEAN : Produce(t, s, bad)
  /\ UNCHANGED <<queue, run, request, passed, trees, proc, commands, had, vouched,
                 overlapped>>

AgentAnswers(t, s) ==
  /\ s \in request[t]
  /\ \/ /\ passed' = [passed EXCEPT ![t] = @ \cup {s}]
        /\ vouched' = [vouched EXCEPT ![t] = @ \cup {s}]
     \/ passed' = [passed EXCEPT ![t] = @ \ {s}] /\ vouched' = vouched
  /\ UNCHANGED <<queue, run, files, failing, request, trees, proc, commands, had,
                 overlapped>>

PutMark(t, mark) ==
  /\ files' = [files EXCEPT ![t] = @ \cup {mark}]
  /\ UNCHANGED <<queue, run, failing, request, passed, trees, proc, commands, had,
                 vouched, overlapped>>

RunnerStep(p) ==
  \/ \E t \in Task : TaskCreate(p, t)
  \/ AppendTask(p)
  \/ \E verified \in BOOLEAN : Decide(p, verified)
  \/ EnsureWorktree(p)
  \/ SaveRun(p)
  \/ SaveQueue(p)
  \/ WriteRequest(p)
  \/ Leave(p)

Outside ==
  \E t \in Task :
    \/ RunInit(t) \/ Transition(t) \/ WorktreeCreate(t) \/ \E m \in Mark : PutMark(t, m)
    \/ \E s \in Stage : AgentProduces(t, s) \/ AgentAnswers(t, s)

-----------------------------------------------------------------------------
(* A stage is requested only after the agent of every earlier unconditional*)
(* stage has answered "passed", at whatever moments the artifacts and      *)
(* results arrive, are replaced, or are left over from an earlier run      *)
(* (nextStage and stageCompleted of runner.mjs).                           *)
RequestsFollowEvidence ==
  \A t \in Task, i, j \in 1..Len(Stages) :
    i < j /\ Stages[j] \in request[t] /\ Stages[i] \notin Conditional
      => Stages[i] \in vouched[t]

(* tasks.json never runs ahead of run.json: what it says of a task is      *)
(* "proposed" or a state its run.json has shown, also after a kill between *)
(* the two files and after another task's runner has written back its old  *)
(* copy (runner.mjs 143-152, native-runner.mjs 84-100).                    *)
QueueNeverAhead ==
  \A t \in Task : queue[t] \in {None, "proposed"} \cup had[t]

(* The history of run.json grows: unless two commands were at work on the  *)
(* task at once, no entry and so no transition is ever written over, also  *)
(* not by a native runner that awaits a Codex turn while others transition *)
(* the task (native-runner.mjs 109 and 126 read the file again).           *)
HistoryIsKept ==
  [][\A t \in Task : run[t] # None /\ t \notin overlapped' =>
       run[t].log \subseteq run'[t].log \/ run'[t].log = {Entry(commands')}]_runVars
=============================================================================
