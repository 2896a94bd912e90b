----------------------------- MODULE CodexRunner -----------------------------
(***************************************************************************)
(* The native runner (harness:run:codex) and codex-stage beside Runner: a  *)
(* stage is carried out by a turn of a Codex app server, a child process   *)
(* that is asked over JSON-RPC.  A session has one request open at a time: *)
(* the child answers it with a result or an error, or exits, and then      *)
(* nothing settles the pending promise.                                    *)
(***************************************************************************)
EXTENDS Runner

CONSTANT Thread  \* thread ids the app server may give

VARIABLES
  threads,  \* threads.json: the thread of each task and stage, or None
  session   \* of each process: is its child alive, which threads has it
            \* loaded, is it in a turn; the thread the session works with,
            \* and its copy of threads.json

vars == <<runVars, threads, session>>

NoSession == [alive |-> FALSE, loaded |-> {}, turn |-> FALSE, thread |-> None,
              copy |-> None]

CodexInit ==
  /\ Init
  /\ threads = [q \in Task \X Stage |-> None]
  /\ session = [p \in Proc |-> NoSession]

Keep == UNCHANGED <<queue, files, failing, request, passed, trees, commands,
                    had, vouched>>

Work(p) == <<proc[p].task, proc[p].stage>>
Goto(p, pc) == proc' = [proc EXCEPT ![p].pc = pc]

LoadNative(p, t) == LoadAs(p, t, TRUE)

\* codex-stage: any stage of a task with a run, no gate and no queue.
CodexStage(p, t, s) ==
  /\ proc[p] = Idle /\ run[t] # None /\ Command
  /\ proc' = [proc EXCEPT ![p] =
       [pc |-> "spawn", native |-> FALSE, task |-> t, id |-> commands', stage |-> s]]
  /\ UNCHANGED <<queue, run, files, failing, request, passed, trees, had, vouched,
                 overlapped, threads, session>>

-----------------------------------------------------------------------------
(* What the app server does for the requests of CodexAppServer. *)

StartThread(p, id) ==
  session' = [session EXCEPT ![p] =
    [alive |-> TRUE, loaded |-> session[p].loaded \cup {id}, turn |-> FALSE,
     thread |-> id, copy |-> threads]]

ResumeThread(p) ==
  session' = [session EXCEPT ![p].loaded = @ \cup {session[p].thread}]

StartTurn(p) ==
  \E started \in BOOLEAN : session' = [session EXCEPT ![p].turn = started]

\* The child is killed, and with it a turn that has just begun.
Stop(p) == session' = [session EXCEPT ![p] = NoSession]

-----------------------------------------------------------------------------
\* server.start, up to the request "initialize".
Spawn(p) ==
  /\ proc[p].pc = "spawn"
  /\ session' = [session EXCEPT ![p] = [NoSession EXCEPT !.alive = TRUE]]
  /\ Goto(p, "initialize")
  /\ Keep /\ UNCHANGED <<run, overlapped, threads>>

Answered(p, pc) == proc[p].pc = pc /\ session[p].alive

\* "initialize": its error is thrown outside the try block, so the child is
\* not stopped.  getThread decides what is asked next.
Initialized(p) ==
  /\ Answered(p, "initialize")
  /\ \/ /\ session' = [session EXCEPT ![p].thread = threads[Work(p)]]
        /\ Goto(p, IF threads[Work(p)] # None THEN "resume" ELSE "start")
     \/ Goto(p, "failed") /\ session' = session
  /\ Keep /\ UNCHANGED <<run, overlapped, threads>>

\* Mutant: after a failed resume the session goes on with the old thread.
ResumedAnyway(p) ==
  /\ Answered(p, "resume")
  /\ \/ ResumeThread(p)
     \/ session' = session
  /\ Goto(p, "turn")
  /\ Keep /\ UNCHANGED <<run, overlapped, threads>>

\* thread/resume: its error is caught and a new thread is started.
Resumed(p) ==
  /\ Answered(p, "resume")
  /\ \/ /\ ResumeThread(p)
        /\ Goto(p, "turn")
     \/ /\ session' = [session EXCEPT ![p].thread = None]
        /\ Goto(p, "start")
  /\ Keep /\ UNCHANGED <<run, overlapped, threads>>

\* thread/start: an answer without an id, like an error, ends the session;
\* with one, setThread reads threads.json.
Started(p) ==
  /\ Answered(p, "start")
  /\ \/ \E id \in Thread :
          /\ StartThread(p, id)
          /\ Goto(p, "setThread")
     \/ Goto(p, "stop") /\ session' = session
  /\ Keep /\ UNCHANGED <<run, overlapped, threads>>

\* setThread writes the whole file; then turn/start is asked.
SetThread(p) ==
  /\ proc[p].pc = "setThread"
  /\ threads' = [session[p].copy EXCEPT ![Work(p)] = session[p].thread]
  /\ session' = [session EXCEPT ![p].copy = None]
  /\ Goto(p, "turn")
  /\ Keep /\ UNCHANGED <<run, overlapped>>

\* turn/start: answered when the turn has begun.
TurnStarted(p) ==
  /\ Answered(p, "turn")
  /\ StartTurn(p)
  /\ Goto(p, "stop")
  /\ Keep /\ UNCHANGED <<run, overlapped, threads>>

\* The turn does its stage's work, if it gets so far.
TurnEnds(p) ==
  /\ session[p].turn
  /\ \E bad \in BOOLEAN : Produce(proc[p].task, proc[p].stage, bad)
  /\ session' = [session EXCEPT ![p].turn = FALSE]
  /\ UNCHANGED <<queue, run, request, passed, trees, proc, commands, had, vouched,
                 overlapped, threads>>

\* server.stop; native-runner reads run.json again, adds the outcome, success
\* or error, saves and exits; codex-stage only prints.
SaveOutcome(p) ==
  LET t == proc[p].task  old == run[t]
  IN IF proc[p].native
       THEN /\ run' = [run EXCEPT ![t] =
                 [state |-> old.state, tree |-> old.tree,
                  log |-> old.log \cup {Outcome(proc[p].id)}]]
            /\ TouchRun(t)
       ELSE UNCHANGED <<run, overlapped>>

\* Mutants: the run is not read again after the session; the process waits
\* for a child that an error of "initialize" has left behind.
FinishStale(p) ==
  /\ proc[p].pc \in {"stop", "failed"}
  /\ IF proc[p].native THEN /\ run' = [run EXCEPT ![proc[p].task] = proc[p].run]
                            /\ TouchRun(proc[p].task)
     ELSE UNCHANGED <<run, overlapped>>
  /\ proc' = [proc EXCEPT ![p] = Idle]
  /\ Stop(p)
  /\ Keep /\ UNCHANGED threads

FinishWaiting(p) ==
  /\ proc[p].pc \in {"stop", "failed"}
  /\ proc[p].pc = "failed" => ~session[p].alive
  /\ SaveOutcome(p)
  /\ proc' = [proc EXCEPT ![p] = Idle]
  /\ Stop(p)
  /\ Keep /\ UNCHANGED threads

Finish(p) ==
  /\ proc[p].pc \in {"stop", "failed"}
  /\ SaveOutcome(p)
  /\ proc' = [proc EXCEPT ![p] = Idle]
  /\ Stop(p)
  /\ Keep /\ UNCHANGED threads

\* The child exits; after the last answer that changes nothing any more.
ChildExits(p) ==
  /\ session[p].alive /\ proc[p].pc \in {"initialize", "resume", "start", "setThread", "turn"}
  /\ session' = [session EXCEPT ![p].alive = FALSE]
  /\ Keep /\ UNCHANGED <<run, proc, overlapped, threads>>

\* A request to a child that has exited is never settled: nothing keeps the
\* event loop alive, and the process ends without its catch or finally.
Vanish(p) ==
  /\ proc[p].pc \in {"initialize", "resume", "start", "turn"} /\ ~session[p].alive
  /\ proc' = [proc EXCEPT ![p] = Idle]
  /\ Stop(p)
  /\ Keep /\ UNCHANGED <<run, overlapped, threads>>

SessionStep(p) ==
  \/ Spawn(p) \/ Initialized(p) \/ Resumed(p) \/ Started(p) \/ SetThread(p)
  \/ TurnStarted(p) \/ Finish(p) \/ Vanish(p)

Next ==
  \/ \E p \in Proc :
       \/ /\ RunnerStep(p)
          /\ IF proc'[p] = Idle THEN Stop(p) ELSE UNCHANGED session
          /\ UNCHANGED threads
       \/ \E t \in Task :
            (Load(p, t) \/ LoadNative(p, t)) /\ UNCHANGED <<threads, session>>
       \/ \E t \in Task, s \in Stage : CodexStage(p, t, s)
       \/ SessionStep(p) \/ TurnEnds(p) \/ ChildExits(p)
  \/ Outside /\ UNCHANGED <<threads, session>>

Spec == CodexInit /\ [][Next]_vars

\* The runner's own steps are taken, and the app server answers a request or
\* exits: there is no timeout (turnTimeoutMs of codex.json is not read), so a
\* child that stays silent is the one thing that is not survived.
Progress(p) ==
  \/ (AppendTask(p) \/ (\E v \in BOOLEAN : Decide(p, v)) \/ EnsureWorktree(p)
       \/ SaveRun(p) \/ SaveQueue(p) \/ WriteRequest(p))
     /\ UNCHANGED <<threads, session>>
  \/ SessionStep(p)

FairSpec == Spec /\ \A p \in Proc : WF_vars(Progress(p))

-----------------------------------------------------------------------------
Session == {"spawn", "initialize", "resume", "start", "setThread", "turn", "stop",
            "failed"}

RunFile == [state : State, tree : Stage \cup {"task", None},
            log : SUBSET (Nat \X {"command", "outcome"})]
Queue == [Task -> State \cup {"proposed", None}]
Threads == [Task \X Stage -> Thread \cup {None}]

Appending == [pc : {"append"}, task : Task, queue : Queue]
Carrying == [pc : AtWork \cup Session, native : BOOLEAN, task : Task, id : Nat,
             queue : Queue, run : RunFile, stage : Stage \cup {None}]
Staging == [pc : Session, native : {FALSE}, task : Task, id : Nat, stage : Stage]
Child == [alive : BOOLEAN, loaded : SUBSET (Thread \cup {None}), turn : BOOLEAN,
          thread : Thread \cup {None}, copy : Threads \cup {None}]

TypeOK ==
  /\ queue \in Queue /\ run \in [Task -> RunFile \cup {None}] /\ commands \in Nat
  /\ files \in [Task -> SUBSET (Artifact \cup Mark)]
  /\ failing \in [Task -> SUBSET Artifact]
  /\ request \in [Task -> SUBSET Stage] /\ passed \in [Task -> SUBSET Stage]
  /\ vouched \in [Task -> SUBSET Stage] /\ had \in [Task -> SUBSET State]
  /\ threads \in Threads
  /\ proc \in [Proc -> {Idle} \cup Appending \cup Carrying \cup Staging]
  /\ session \in [Proc -> Child]
  /\ \A p \in Proc :
       /\ proc[p].pc \in AtWork \cup Session => run[proc[p].task] \in RunFile
       /\ proc[p].pc \in {"tree", "request"} \cup Session => proc[p].stage \in Stage
       /\ proc[p].pc = "setThread" => session[p].copy \in Threads
       /\ session[p].turn => proc[p].pc = "stop"

(* A turn is only asked for on a thread this app server has started or     *)
(* resumed itself: an id from threads.json that the server does not know   *)
(* any more is replaced before it is used (codex-execute.mjs 31-51).       *)
TurnOnLoadedThread ==
  \A p \in Proc : proc[p].pc = "turn" => session[p].thread \in session[p].loaded

(* Every command ends, whatever the child answers, and also when it exits  *)
(* with a request open (codex-execute.mjs, native-runner.mjs).             *)
CommandsEnd == \A p \in Proc : proc[p] # Idle ~> proc[p] = Idle

=============================================================================
