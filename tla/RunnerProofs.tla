---------------------------- MODULE RunnerProofs ----------------------------
(***************************************************************************)
(* Proofs about Runner and CodexRunner, for any workflow, any number of    *)
(* tasks, processes and threads, and any number of commands.               *)
(***************************************************************************)
EXTENDS CodexRunner, WellFoundedInduction, TLAPS

-----------------------------------------------------------------------------
(* Types. *)

LEMMA StageFacts ==
  /\ Len(Stages) \in Nat /\ Stage \subseteq State /\ None \notin Stage
  /\ \A i \in 1..Len(Stages) : Stages[i] \in Stage
  /\ {"planning", "blocked", "completed"} \subseteq State
  BY RunnerConstants DEF Stage, State

\* The next stage is the first that is open.
LEMMA NextStageFirst ==
  ASSUME NEW t \in Task, NEW native \in BOOLEAN, NextStage(t, native) # None
  PROVE  \E i \in 1..Len(Stages) :
           /\ Stages[i] = NextStage(t, native)
           /\ \A j \in 1..Len(Stages) : j < i =>
                Stages[j] \in Done(t, native) \cup Conditional
<1> DEFINE open == {i \in 1..Len(Stages) :
                      Stages[i] \notin Done(t, native) /\ ShouldRun(t, Stages[i])}
<1>1. NextStage(t, native) = Stages[Min(open)]
  BY DEF NextStage
<1>2. open \subseteq Nat /\ open # {}
  BY StageFacts DEF NextStage
<1>3. \E x \in open : \A y \in open : ~ (<<y, x>> \in OpToRel(<, Nat))
  <2> HIDE DEF open
  <2> QED
    BY <1>2, NatLessThanWellFounded, WFMin
<1>4. PICK i \in open : \A y \in open : ~ (<<y, i>> \in OpToRel(<, Nat))
  BY <1>3
<1>5. \A y \in open : ~ (y < i)
  BY <1>2, <1>4 DEF OpToRel
<1>6. \A y \in open : i =< y
  BY <1>2, <1>5
<1>7. Min(open) \in open /\ \A y \in open : Min(open) =< y
  BY <1>6 DEF Min
<1>8. \A j \in 1..Len(Stages) : j < Min(open) => j \notin open
  BY <1>2, <1>7, StageFacts
<1>9. \A j \in 1..Len(Stages) : j < Min(open) =>
        Stages[j] \in Done(t, native) \cup Conditional
  BY <1>8 DEF ShouldRun
<1>10. QED
  BY <1>1, <1>7, <1>9

LEMMA NextStageType ==
  ASSUME NEW t \in Task, NEW native \in BOOLEAN
  PROVE  NextStage(t, native) \in Stage \cup {None}
  BY NextStageFirst, StageFacts

\* What a process at a pc holds.
LEMMA Holds ==
  ASSUME TypeOK, NEW p \in Proc
  PROVE  /\ proc[p] \in {Idle} \cup Appending \cup Carrying \cup Staging
         /\ proc[p].pc = "append" => proc[p] \in Appending
         /\ proc[p].pc \in AtWork => proc[p] \in Carrying
         /\ proc[p].pc \in Session => proc[p] \in Carrying \cup Staging
         /\ proc[p].pc \in AtWork \cup Session =>
              /\ proc[p].task \in Task /\ proc[p].id \in Nat
              /\ proc[p].native \in BOOLEAN
<1>1. proc[p] \in {Idle} \cup Appending \cup Carrying \cup Staging
  BY DEF TypeOK
<1>2. proc[p] \in {Idle} => proc[p].pc = "idle"
  BY DEF Idle
<1>3. proc[p] \in Appending => proc[p].pc = "append"
  BY DEF Appending
<1>4. proc[p] \in Carrying =>
        /\ proc[p].pc \in AtWork \cup Session /\ proc[p].task \in Task
        /\ proc[p].id \in Nat /\ proc[p].native \in BOOLEAN
  BY DEF Carrying
<1>5. proc[p] \in Staging =>
        /\ proc[p].pc \in Session /\ proc[p].task \in Task
        /\ proc[p].id \in Nat /\ proc[p].native \in BOOLEAN
  BY DEF Staging
<1>6. /\ "idle" \notin AtWork \cup Session \cup {"append"}
      /\ "append" \notin AtWork \cup Session /\ AtWork \cap Session = {}
  BY DEF AtWork, Session
<1>7. QED
  BY <1>1, <1>2, <1>3, <1>4, <1>5, <1>6

LEMMA TypeInit == CodexInit => TypeOK
  BY DEF CodexInit, Init, TypeOK, Queue, Threads, Child, NoSession, Idle, AtWork, Session

\* What a command that is carried out at once, an agent or a person does.
LEMMA TypeOutside ==
  ASSUME TypeOK, Outside, UNCHANGED <<threads, session>>
  PROVE  TypeOK'
<1>1. ASSUME NEW t \in Task, RunInit(t) \/ Transition(t) \/ WorktreeCreate(t)
      PROVE  TypeOK'
  <2>1. /\ commands' \in Nat /\ run' \in [Task -> RunFile \cup {None}]
        /\ had' \in [Task -> SUBSET State]
        /\ \A u \in Task : run[u] \in RunFile => run'[u] \in RunFile
    <3>1. commands \in Nat /\ commands' = commands + 1 /\ had \in [Task -> SUBSET State]
      BY <1>1 DEF RunInit, Transition, WorktreeCreate, StartCommand, Command, TypeOK
    <3>2. run \in [Task -> RunFile \cup {None}] /\ Entry(commands') \in Nat \X {"command", "outcome"}
      BY <3>1 DEF TypeOK, Entry
    <3>3. had' \in [Task -> SUBSET State]
      BY <1>1, <3>1, StageFacts DEF RunInit, Transition, WorktreeCreate
    <3>4. CASE RunInit(t)
      <4> DEFINE r == [state |-> "planning", tree |-> None, log |-> {Entry(commands')}]
      <4>1. r \in RunFile
        BY <3>2, StageFacts DEF RunFile
      <4>2. run' = [run EXCEPT ![t] = r]
        BY <3>4 DEF RunInit
      <4> HIDE DEF r
      <4>3. QED
        BY <3>1, <3>2, <3>3, <4>1, <4>2
    <3>5. CASE Transition(t)
      <4> DEFINE r == [state |-> "blocked", tree |-> run[t].tree,
                       log |-> run[t].log \cup {Entry(commands')}]
      <4>1. run[t] \in RunFile
        BY <3>2, <3>5 DEF Transition
      <4>2. r \in RunFile
        BY <3>2, <4>1, StageFacts DEF RunFile
      <4>3. run' = [run EXCEPT ![t] = r]
        BY <3>5 DEF Transition
      <4> HIDE DEF r
      <4>4. QED
        BY <3>1, <3>2, <3>3, <4>2, <4>3
    <3>6. CASE WorktreeCreate(t) /\ run[t] = None
      BY <3>1, <3>2, <3>3, <3>6 DEF WorktreeCreate
    <3>7. CASE WorktreeCreate(t) /\ run[t] # None
      <4> DEFINE r == [state |-> run[t].state, tree |-> "task",
                       log |-> run[t].log \cup {Entry(commands')}]
      <4>1. r \in RunFile
        BY <3>2, <3>7 DEF RunFile
      <4>2. run' = [run EXCEPT ![t] = r]
        BY <3>7 DEF WorktreeCreate
      <4> HIDE DEF r
      <4>3. QED
        BY <3>1, <3>2, <3>3, <4>1, <4>2
    <3>8. QED
      BY <1>1, <3>4, <3>5, <3>6, <3>7
  <2>2. UNCHANGED <<queue, files, failing, request, passed, proc, vouched, threads, session>>
    BY <1>1 DEF RunInit, Transition, WorktreeCreate
  <2>3. \A p \in Proc : proc[p].pc \in AtWork \cup Session => proc[p].task \in Task
    BY Holds
  <2>4. QED
    BY <2>1, <2>2, <2>3 DEF TypeOK
<1>2. ASSUME NEW t \in Task, \E m \in Mark : PutMark(t, m)
      PROVE  TypeOK'
  BY <1>2 DEF PutMark, TypeOK
<1>3. ASSUME NEW t \in Task, NEW s \in Stage, AgentProduces(t, s) \/ AgentAnswers(t, s)
      PROVE  TypeOK'
  BY <1>3 DEF AgentProduces, AgentAnswers, Produce, TypeOK, Artifact
<1>4. QED
  BY <1>1, <1>2, <1>3 DEF Outside

\* A step of process p: what TypeOK says of p and of the files is enough.
LEMMA ProcessType ==
  ASSUME TypeOK, NEW p \in Proc,
         proc' = [proc EXCEPT ![p] = proc'[p]],
         session' = [session EXCEPT ![p] = session'[p]],
         proc'[p] \in {Idle} \cup Appending \cup Carrying \cup Staging,
         session'[p] \in Child,
         proc'[p].pc \in AtWork \cup Session => run'[proc'[p].task] \in RunFile,
         proc'[p].pc \in {"tree", "request"} \cup Session => proc'[p].stage \in Stage,
         proc'[p].pc = "setThread" => session'[p].copy \in Threads,
         session'[p].turn => proc'[p].pc = "stop",
         queue' \in Queue, run' \in [Task -> RunFile \cup {None}], commands' \in Nat,
         \A u \in Task : run[u] \in RunFile => run'[u] \in RunFile,
         files' \in [Task -> SUBSET (Artifact \cup Mark)],
         failing' \in [Task -> SUBSET Artifact], request' \in [Task -> SUBSET Stage],
         passed' \in [Task -> SUBSET Stage], vouched' \in [Task -> SUBSET Stage],
         had' \in [Task -> SUBSET State], threads' \in Threads
  PROVE  TypeOK'
<1>1. \A q \in Proc \ {p} : proc'[q] = proc[q] /\ session'[q] = session[q]
  BY DEF TypeOK
<1>2. /\ proc' \in [Proc -> {Idle} \cup Appending \cup Carrying \cup Staging]
      /\ session' \in [Proc -> Child]
  BY DEF TypeOK
<1>3. ASSUME NEW q \in Proc \ {p}
      PROVE  /\ proc'[q].pc \in AtWork \cup Session => run'[proc'[q].task] \in RunFile
             /\ proc'[q].pc \in {"tree", "request"} \cup Session => proc'[q].stage \in Stage
             /\ proc'[q].pc = "setThread" => session'[q].copy \in Threads
             /\ session'[q].turn => proc'[q].pc = "stop"
  BY <1>1, <1>3, Holds DEF TypeOK
<1>4. QED
  BY <1>2, <1>3 DEF TypeOK

\* The child of a process: stopped, left alone, or in its next state.
LEMMA ChildType ==
  ASSUME TypeOK, NEW p \in Proc,
         \/ Stop(p)
         \/ UNCHANGED session
  PROVE  /\ session' = [session EXCEPT ![p] = session'[p]]
         /\ session'[p] \in Child
         /\ session'[p].turn => session[p].turn
<1>1. NoSession \in Child /\ ~NoSession.turn
  BY DEF NoSession, Child
<1>2. QED
  BY <1>1 DEF Stop, TypeOK

LEMMA TypeRunner ==
  ASSUME TypeOK, NEW p \in Proc, RunnerStep(p), UNCHANGED threads,
         IF proc'[p] = Idle THEN Stop(p) ELSE UNCHANGED session
  PROVE  TypeOK'
<1> USE ChildType
<1>1. Idle.pc \notin AtWork \cup Session \cup {"tree", "request", "setThread", "stop"}
  BY DEF Idle, AtWork, Session
<1>2. /\ session' = [session EXCEPT ![p] = session'[p]] /\ session'[p] \in Child
      /\ session'[p].turn => proc[p].pc = "stop"
      /\ proc'[p] = Idle => ~session'[p].turn
  BY DEF TypeOK, Stop, NoSession
<1>3. threads' \in Threads /\ proc \in [Proc -> {Idle} \cup Appending \cup Carrying \cup Staging]
  BY DEF TypeOK
<1>4. ASSUME NEW t \in Task, TaskCreate(p, t)
      PROVE  TypeOK'
  <2> DEFINE r == [pc |-> "append", task |-> t, queue |-> queue]
  <2>1. r \in Appending /\ r.pc = "append"
    BY DEF Appending, TypeOK
  <2>2. proc' = [proc EXCEPT ![p] = r] /\ commands' = commands + 1
    BY <1>4 DEF TaskCreate, Command
  <2>3. proc'[p] = r /\ proc[p].pc # "stop"
    BY <1>1, <1>3, <1>4, <2>2 DEF TaskCreate
  <2>4. "append" \notin AtWork \cup Session \cup {"tree", "request", "setThread", "stop"}
    BY DEF AtWork, Session
  <2>5. UNCHANGED <<queue, run, files, failing, request, passed, had, vouched>>
    BY <1>4 DEF TaskCreate
  <2> HIDE DEF r
  <2>6. commands' \in Nat
    BY <2>2 DEF TypeOK
  <2>7. /\ proc'[p].pc \notin AtWork \cup Session
        /\ proc'[p].pc \notin {"tree", "request"} \cup Session
        /\ proc'[p].pc # "setThread" /\ ~session'[p].turn
        /\ proc'[p] \in {Idle} \cup Appending \cup Carrying \cup Staging
    BY <1>2, <2>1, <2>3, <2>4
  <2>8. proc' = [proc EXCEPT ![p] = proc'[p]]
    BY <2>2, <2>3
  <2>9. QED
    BY <1>2, <1>3, <2>5, <2>6, <2>7, <2>8, ProcessType DEF TypeOK
<1>5. ASSUME proc' = [proc EXCEPT ![p] = Idle], queue' \in Queue,
             UNCHANGED <<run, files, failing, request, passed, commands, had, vouched>>
      PROVE  TypeOK'
  <2>1. proc'[p] = Idle
    BY <1>3, <1>5
  <2>2. QED
    BY <1>1, <1>2, <1>3, <1>5, <2>1, ProcessType DEF TypeOK
<1>6. CASE AppendTask(p)
  <2>1. proc[p] \in Appending
    BY <1>6, Holds DEF AppendTask
  <2>2. queue' \in Queue
    BY <1>6, <2>1 DEF AppendTask, Appending, Queue
  <2>3. QED
    BY <1>5, <1>6, <2>2 DEF AppendTask
<1>7. ASSUME NEW verified \in BOOLEAN, Decide(p, verified)
      PROVE  TypeOK'
  <2> DEFINE me == proc[p]
             next == NextStage(me.task, me.native)
             now == IF me.native THEN me.run ELSE run[me.task]
             r == Working(me, IF next \in Mutable THEN "tree" ELSE "saveRun", now, next)
  <2>1. me \in Carrying /\ run[me.task] \in RunFile /\ me.pc = "decide"
    BY <1>7, Holds DEF Decide, AtWork, TypeOK
  <2>2. next \in Stage \cup {None} /\ (next \in Mutable => next \in Stage)
    BY <2>1, NextStageType, RunnerConstants DEF Carrying
  <2>3. r \in Carrying /\ r.pc \in {"tree", "saveRun"} /\ r.task = me.task
        /\ (r.pc = "tree" => r.stage \in Stage)
    BY <2>1, <2>2 DEF Working, Carrying, AtWork
  <2>4. UNCHANGED <<queue, run, files, failing, request, passed, commands, had, vouched>>
    BY <1>7 DEF Decide
  <2>5. CASE proc' = [proc EXCEPT ![p] = Idle]
    BY <1>5, <2>4, <2>5 DEF TypeOK
  <2>6. CASE proc' = [proc EXCEPT ![p] = r]
    <3> HIDE DEF r, me
    <3>1. proc'[p] = r
      BY <1>3, <2>6
    <3>2. r.pc \notin Session \cup {"request", "setThread"} /\ me.pc # "stop"
      BY <2>1, <2>3 DEF Session
    <3>3. QED
      BY <1>2, <1>3, <2>1, <2>3, <2>4, <2>6, <3>1, <3>2, ProcessType DEF TypeOK, me
  <2>7. QED
    BY <1>7, <2>5, <2>6 DEF Decide
<1>8. CASE EnsureWorktree(p)
  <2> DEFINE me == proc[p]
             kept == me.native /\ run[me.task].tree # None /\ <<me.task, run[me.task].tree>> \in trees
             saved == run'[me.task]
             r == Working(me, "saveRun", saved, me.stage)
  <2>1. me \in Carrying /\ run[me.task] \in RunFile /\ me.stage \in Stage /\ me.pc = "tree"
    BY <1>8, Holds DEF EnsureWorktree, AtWork, TypeOK
  <2>2. /\ run' = [run EXCEPT ![me.task] = saved] /\ proc' = [proc EXCEPT ![p] = r]
        /\ \/ saved = run[me.task]
           \/ saved = [state |-> run[me.task].state, tree |-> "task",
                       log |-> run[me.task].log \cup {Entry(me.id)}]
           \/ saved = [state |-> me.run.state, tree |-> me.stage, log |-> me.run.log]
    BY <1>8, <2>1 DEF EnsureWorktree, TypeOK, Carrying
  <2>3. saved \in RunFile
    BY <2>1, <2>2 DEF RunFile, Carrying, Entry
  <2>4. r \in Carrying /\ r.pc = "saveRun" /\ r.task = me.task
    BY <2>1, <2>3 DEF Working, Carrying, AtWork
  <2>5. UNCHANGED <<queue, files, failing, request, passed, commands, had, vouched>>
    BY <1>8 DEF EnsureWorktree
  <2>6. me.task \in Task
    BY <2>1 DEF Carrying
  <2> HIDE DEF r, saved
  <2>7. /\ run' \in [Task -> RunFile \cup {None}] /\ run'[me.task] \in RunFile
        /\ \A u \in Task : run[u] \in RunFile => run'[u] \in RunFile
    BY <2>2, <2>3, <2>6 DEF TypeOK
  <2>8. r.pc \notin Session \cup {"tree", "request", "setThread"} /\ me.pc # "stop"
    BY <2>1, <2>4 DEF Session
  <2>9. proc'[p] = r
    BY <1>3, <2>2
  <2>10. QED
    BY <1>2, <1>3, <2>2, <2>4, <2>5, <2>7, <2>8, <2>9, ProcessType DEF TypeOK
<1>9. CASE SaveRun(p)
  <2> DEFINE me == proc[p]
             saved == [state |-> NewState(me), tree |-> me.run.tree,
                       log |-> me.run.log \cup {Entry(me.id)}]
             r == Working(me, "saveQueue", saved, me.stage)
  <2>1. me \in Carrying /\ run[me.task] \in RunFile /\ me.pc = "saveRun"
    BY <1>9, Holds DEF SaveRun, AtWork, TypeOK
  <2>2. /\ run' = [run EXCEPT ![me.task] = saved] /\ proc' = [proc EXCEPT ![p] = r]
        /\ had' = [had EXCEPT ![me.task] = @ \cup {NewState(me)}]
    BY <1>9 DEF SaveRun
  <2>3. NewState(me) \in State /\ me.task \in Task
    BY <2>1, StageFacts DEF NewState, Carrying
  <2>4. saved \in RunFile
    BY <2>1, <2>3 DEF RunFile, Carrying, Entry
  <2>5. r \in Carrying /\ r.pc = "saveQueue" /\ r.task = me.task
    BY <2>1, <2>4 DEF Working, Carrying, AtWork
  <2>6. UNCHANGED <<queue, files, failing, request, passed, commands, vouched>>
    BY <1>9 DEF SaveRun
  <2>7. had' \in [Task -> SUBSET State]
    BY <2>2, <2>3 DEF TypeOK
  <2> HIDE DEF r, saved
  <2>8. /\ run' \in [Task -> RunFile \cup {None}] /\ run'[me.task] \in RunFile
        /\ \A u \in Task : run[u] \in RunFile => run'[u] \in RunFile
    BY <2>2, <2>3, <2>4 DEF TypeOK
  <2>9. r.pc \notin Session \cup {"tree", "request", "setThread"} /\ me.pc # "stop"
    BY <2>1, <2>5 DEF Session
  <2>10. proc'[p] = r
    BY <1>3, <2>2
  <2>11. QED
    BY <1>2, <1>3, <2>2, <2>5, <2>6, <2>7, <2>8, <2>9, <2>10, ProcessType DEF TypeOK
<1>10. CASE SaveQueue(p)
  <2> DEFINE me == proc[p]
             r == Working(me, IF me.native THEN "spawn" ELSE "request", me.run, me.stage)
  <2>1. me \in Carrying /\ run[me.task] \in RunFile /\ me.pc = "saveQueue"
    BY <1>10, Holds DEF SaveQueue, AtWork, TypeOK
  <2>2. queue' = [me.queue EXCEPT ![me.task] = NewState(me)]
    BY <1>10 DEF SaveQueue
  <2>3. NewState(me) \in State /\ me.task \in Task /\ me.queue \in Queue
    BY <2>1, StageFacts DEF NewState, Carrying
  <2>4. queue' \in Queue
    BY <2>2, <2>3 DEF Queue
  <2>5. UNCHANGED <<run, files, failing, request, passed, commands, had, vouched>>
    BY <1>10 DEF SaveQueue
  <2>6. CASE proc' = [proc EXCEPT ![p] = Idle]
    BY <1>5, <2>4, <2>5, <2>6
  <2>7. CASE me.stage # None /\ proc' = [proc EXCEPT ![p] = r]
    <3>1. r \in Carrying /\ r.pc \in {"spawn", "request"} /\ r.task = me.task
          /\ r.stage \in Stage
      BY <2>1, <2>7 DEF Working, Carrying, AtWork, Session
    <3> HIDE DEF r
    <3>2. r.pc \notin {"setThread"} /\ me.pc # "stop"
      BY <2>1, <3>1
    <3>3. proc'[p] = r
      BY <1>3, <2>7
    <3>4. QED
      BY <1>2, <1>3, <2>1, <2>4, <2>5, <2>7, <3>1, <3>2, <3>3, ProcessType DEF TypeOK
  <2>8. QED
    BY <1>10, <2>6, <2>7 DEF SaveQueue
<1>11. CASE WriteRequest(p)
  <2> DEFINE me == proc[p]
  <2>1. me \in Carrying /\ run[me.task] \in RunFile /\ me.stage \in Stage
    BY <1>11, Holds DEF WriteRequest, AtWork, TypeOK
  <2>2. me.task \in Task /\ me.run \in RunFile
    BY <2>1 DEF Carrying
  <2>3. /\ run' = [run EXCEPT ![me.task] = me.run] /\ proc' = [proc EXCEPT ![p] = Idle]
        /\ request' = [request EXCEPT ![me.task] = @ \cup {me.stage}]
        /\ UNCHANGED <<queue, files, failing, passed, commands, had, vouched>>
    BY <1>11 DEF WriteRequest
  <2>4. request' \in [Task -> SUBSET Stage]
    BY <2>1, <2>2, <2>3 DEF TypeOK
  <2>5. /\ run' \in [Task -> RunFile \cup {None}]
        /\ \A u \in Task : run[u] \in RunFile => run'[u] \in RunFile
    BY <2>2, <2>3 DEF TypeOK
  <2>6. proc'[p] = Idle /\ ~session'[p].turn
    BY <1>2, <1>3, <2>3
  <2>7. QED
    BY <1>1, <1>2, <1>3, <2>3, <2>4, <2>5, <2>6, ProcessType DEF TypeOK
<1>12. CASE Leave(p)
  BY <1>5, <1>12 DEF Leave, TypeOK
<1>13. QED
  BY <1>4, <1>6, <1>7, <1>8, <1>9, <1>10, <1>11, <1>12 DEF RunnerStep

LEMMA TypeLoad ==
  ASSUME TypeOK, NEW p \in Proc, NEW t \in Task, NEW native \in BOOLEAN,
         LoadAs(p, t, native), UNCHANGED <<threads, session>>
  PROVE  TypeOK'
<1> DEFINE r == [pc |-> "decide", native |-> native, task |-> t, id |-> commands',
                 queue |-> queue, run |-> run[t], stage |-> None]
<1>1. /\ commands' \in Nat /\ proc' = [proc EXCEPT ![p] = r] /\ proc[p] = Idle
      /\ UNCHANGED <<queue, run, files, failing, request, passed, had, vouched>>
  BY DEF LoadAs, StartCommand, Command, TypeOK
<1>2. run[t] \in RunFile
  BY DEF LoadAs, TypeOK
<1>3. r \in Carrying /\ r.pc = "decide" /\ r.task = t
  BY <1>1, <1>2 DEF Carrying, AtWork, TypeOK
<1> HIDE DEF r
<1>4. r.pc \notin Session \cup {"tree", "request", "setThread"} /\ Idle.pc # "stop"
  BY <1>3 DEF Session, Idle
<1>5. proc'[p] = r /\ ~session[p].turn
  BY <1>1, <1>4 DEF TypeOK
<1>6. /\ session' = [session EXCEPT ![p] = session'[p]] /\ session'[p] \in Child
  BY ChildType
<1>7. QED
  BY <1>1, <1>2, <1>3, <1>4, <1>5, <1>6, ProcessType DEF TypeOK

\* A session that goes on to its next request.
LEMMA GotoType ==
  ASSUME TypeOK, NEW p \in Proc, proc[p].pc \in Session, NEW pc \in Session, Goto(p, pc)
  PROVE  /\ proc' = [proc EXCEPT ![p] = proc'[p]]
         /\ proc'[p] \in Carrying \cup Staging /\ proc'[p].pc = pc
         /\ proc'[p].task = proc[p].task /\ proc'[p].stage = proc[p].stage
         /\ proc'[p].native = proc[p].native /\ proc'[p].id = proc[p].id
<1> DEFINE r == [proc[p] EXCEPT !.pc = pc]
<1>1. proc' = [proc EXCEPT ![p] = r] /\ proc'[p] = r
  BY DEF Goto, TypeOK
<1>2. CASE proc[p] \in Carrying
  <2>1. r \in Carrying /\ r.pc = pc
        /\ r.task = proc[p].task /\ r.stage = proc[p].stage
        /\ r.native = proc[p].native /\ r.id = proc[p].id
    BY <1>2 DEF Carrying
  <2>2. QED
    BY <1>1, <2>1
<1>3. CASE proc[p] \in Staging
  <2>1. r \in Staging /\ r.pc = pc
        /\ r.task = proc[p].task /\ r.stage = proc[p].stage
        /\ r.native = proc[p].native /\ r.id = proc[p].id
    BY <1>3 DEF Staging
  <2>2. QED
    BY <1>1, <2>1
<1>4. QED
  BY <1>2, <1>3, Holds

LEMMA SessionGoesOn ==
  ASSUME TypeOK, NEW p \in Proc, proc[p].pc \in Session, NEW pc \in Session, Goto(p, pc),
         session' = [session EXCEPT ![p] = session'[p]], session'[p] \in Child,
         session'[p].turn => pc = "stop",
         pc = "setThread" => session'[p].copy \in Threads,
         threads' \in Threads, Keep, UNCHANGED run
  PROVE  TypeOK'
<1>1. /\ proc[p].stage \in Stage /\ run[proc[p].task] \in RunFile
  BY DEF TypeOK
<1>2. QED
  BY <1>1, GotoType, ProcessType DEF TypeOK, Keep

LEMMA TypeSession ==
  ASSUME TypeOK, NEW p \in Proc, SessionStep(p) \/ ChildExits(p)
  PROVE  TypeOK'
<1> DEFINE mine == session[p]
<1>1. mine \in Child /\ threads \in Threads /\ session \in [Proc -> Child]
      /\ proc \in [Proc -> {Idle} \cup Appending \cup Carrying \cup Staging]
      /\ (proc[p].pc # "stop" => ~mine.turn)
  BY DEF TypeOK
<1>2. ASSUME NEW pc, proc[p].pc = pc, pc \in Session
      PROVE  Work(p) \in Task \X Stage
  BY <1>2, Holds DEF TypeOK, Work
<1>3. CASE Spawn(p)
  <2>1. [NoSession EXCEPT !.alive = TRUE] \in Child
        /\ ~[NoSession EXCEPT !.alive = TRUE].turn
    BY DEF NoSession, Child
  <2>2. /\ session' = [session EXCEPT ![p] = session'[p]]
        /\ session'[p] \in Child /\ ~session'[p].turn
    BY <1>1, <1>3, <2>1 DEF Spawn
  <2>3. proc[p].pc \in Session /\ "initialize" \in Session
    BY <1>3 DEF Spawn, Session
  <2>4. QED
    BY <1>1, <1>3, <2>2, <2>3, SessionGoesOn DEF Spawn
<1>4. CASE Initialized(p)
  <2>1. proc[p].pc \in Session /\ {"resume", "start", "failed"} \subseteq Session /\ ~mine.turn
    BY <1>1, <1>4 DEF Initialized, Answered, Session
  <2>2. threads[Work(p)] \in Thread \cup {None}
    BY <1>1, <1>2, <2>1 DEF Threads
  <2>3. /\ session' = [session EXCEPT ![p] = session'[p]]
        /\ session'[p] \in Child /\ ~session'[p].turn
    BY <1>1, <1>4, <2>1, <2>2 DEF Initialized, Child
  <2>4. \E pc \in {"resume", "start", "failed"} : Goto(p, pc)
    BY <1>4 DEF Initialized
  <2>5. QED
    BY <1>1, <1>4, <2>1, <2>3, <2>4, SessionGoesOn DEF Initialized
<1>5. CASE Resumed(p)
  <2>1. proc[p].pc \in Session /\ {"turn", "start"} \subseteq Session /\ ~mine.turn
    BY <1>1, <1>5 DEF Resumed, Answered, Session
  <2>2. /\ session' = [session EXCEPT ![p] = session'[p]]
        /\ session'[p] \in Child /\ ~session'[p].turn
    BY <1>1, <1>5, <2>1 DEF Resumed, ResumeThread, Child
  <2>3. \E pc \in {"turn", "start"} : Goto(p, pc)
    BY <1>5 DEF Resumed
  <2>4. QED
    BY <1>1, <1>5, <2>1, <2>2, <2>3, SessionGoesOn DEF Resumed
<1>6. CASE Started(p)
  <2>1. proc[p].pc \in Session /\ {"setThread", "stop"} \subseteq Session /\ ~mine.turn
    BY <1>1, <1>6 DEF Started, Answered, Session
  <2>2. CASE Goto(p, "stop") /\ session' = session
    BY <1>1, <1>6, <2>1, <2>2, ChildType, SessionGoesOn DEF Started
  <2>3. ASSUME NEW id \in Thread, StartThread(p, id), Goto(p, "setThread")
        PROVE  TypeOK'
    <3> DEFINE r == [alive |-> TRUE, loaded |-> mine.loaded \cup {id}, turn |-> FALSE,
                     thread |-> id, copy |-> threads]
    <3>1. r \in Child /\ ~r.turn /\ r.copy \in Threads
      BY <1>1 DEF Child
    <3>2. session' = [session EXCEPT ![p] = r]
      BY <2>3 DEF StartThread
    <3> HIDE DEF r
    <3>3. session'[p] = r
      BY <1>1, <3>2
    <3>4. QED
      BY <1>1, <1>6, <2>1, <2>3, <3>1, <3>2, <3>3, SessionGoesOn DEF Started
  <2>4. QED
    BY <1>6, <2>2, <2>3 DEF Started
<1>7. CASE SetThread(p)
  <2>1. proc[p].pc = "setThread" /\ proc[p].pc \in Session /\ "turn" \in Session /\ ~mine.turn
    BY <1>1, <1>7 DEF SetThread, Session
  <2>2. mine.copy \in Threads /\ mine.thread \in Thread \cup {None} /\ Work(p) \in Task \X Stage
    BY <1>1, <1>2, <2>1 DEF TypeOK, Child
  <2>3. threads' \in Threads
    BY <1>7, <2>2 DEF SetThread, Threads
  <2>4. /\ session' = [session EXCEPT ![p] = session'[p]]
        /\ session'[p] \in Child /\ ~session'[p].turn
    BY <1>1, <1>7, <2>1 DEF SetThread, Child
  <2>5. QED
    BY <1>7, <2>1, <2>3, <2>4, SessionGoesOn DEF SetThread
<1>8. CASE TurnStarted(p)
  <2>1. proc[p].pc \in Session /\ "stop" \in Session
    BY <1>8 DEF TurnStarted, Answered, Session
  <2>2. session' = [session EXCEPT ![p] = session'[p]] /\ session'[p] \in Child
    BY <1>1, <1>8 DEF TurnStarted, StartTurn, Child
  <2>3. QED
    BY <1>1, <1>8, <2>1, <2>2, SessionGoesOn DEF TurnStarted
<1>9. ASSUME proc' = [proc EXCEPT ![p] = Idle], Stop(p), Keep, UNCHANGED threads,
             run' \in [Task -> RunFile \cup {None}],
             \A u \in Task : run[u] \in RunFile => run'[u] \in RunFile
      PROVE  TypeOK'
  <2>1. /\ session' = [session EXCEPT ![p] = session'[p]] /\ session'[p] \in Child
        /\ ~session'[p].turn
    BY <1>1, <1>9, ChildType DEF Stop, NoSession
  <2>2. proc'[p] = Idle
    BY <1>1, <1>9
  <2>3. Idle.pc \notin AtWork \cup Session \cup {"tree", "request", "setThread", "stop"}
    BY DEF Idle, AtWork, Session
  <2>4. QED
    BY <1>1, <1>9, <2>1, <2>2, <2>3, ProcessType DEF TypeOK, Keep
<1>10. CASE Finish(p)
  <2> DEFINE r == [state |-> run[proc[p].task].state, tree |-> run[proc[p].task].tree,
                   log |-> run[proc[p].task].log \cup {Outcome(proc[p].id)}]
  <2>1. proc[p].task \in Task /\ run[proc[p].task] \in RunFile /\ proc[p].id \in Nat
    BY <1>10, Holds DEF Finish, Session, TypeOK
  <2>2. r \in RunFile
    BY <2>1 DEF RunFile, Outcome
  <2>3. UNCHANGED run \/ run' = [run EXCEPT ![proc[p].task] = r]
    BY <1>10 DEF Finish, SaveOutcome
  <2> HIDE DEF r
  <2>4. /\ run' \in [Task -> RunFile \cup {None}]
        /\ \A u \in Task : run[u] \in RunFile => run'[u] \in RunFile
    BY <2>1, <2>2, <2>3 DEF TypeOK
  <2>5. QED
    BY <1>9, <1>10, <2>4 DEF Finish
<1>11. CASE Vanish(p)
  BY <1>9, <1>11 DEF Vanish, TypeOK
<1>12. CASE ChildExits(p)
  <2>1. /\ session' = [session EXCEPT ![p] = session'[p]] /\ session'[p] \in Child
        /\ session'[p].turn = mine.turn /\ session'[p].copy = mine.copy
    BY <1>1, <1>12 DEF ChildExits, Child
  <2>2. QED
    BY <1>1, <1>12, <2>1, ProcessType DEF ChildExits, Keep, TypeOK
<1>13. QED
  BY <1>3, <1>4, <1>5, <1>6, <1>7, <1>8, <1>10, <1>11, <1>12 DEF SessionStep

LEMMA TypeTurnEnds ==
  ASSUME TypeOK, NEW p \in Proc, TurnEnds(p)
  PROVE  TypeOK'
<1> DEFINE mine == session[p]
<1>1. mine \in Child /\ mine.turn /\ proc[p].pc = "stop"
  BY DEF TypeOK, TurnEnds
<1>2. proc[p].task \in Task /\ proc[p].stage \in Stage
  BY <1>1, Holds DEF Session, TypeOK
<1>3. files' \in [Task -> SUBSET (Artifact \cup Mark)] /\ failing' \in [Task -> SUBSET Artifact]
  BY <1>2 DEF TurnEnds, Produce, TypeOK, Artifact
<1>4. /\ session' = [session EXCEPT ![p] = session'[p]] /\ session'[p] \in Child
      /\ ~session'[p].turn /\ session'[p].copy = mine.copy
  BY <1>1 DEF TurnEnds, Child, TypeOK
<1>5. UNCHANGED <<queue, run, request, passed, proc, commands, had, vouched, threads>>
  BY DEF TurnEnds
<1>6. QED
  BY <1>3, <1>4, <1>5, ProcessType DEF TypeOK

LEMMA TypeStage ==
  ASSUME TypeOK, NEW p \in Proc, NEW t \in Task, NEW s \in Stage, CodexStage(p, t, s)
  PROVE  TypeOK'
<1> DEFINE r == [pc |-> "spawn", native |-> FALSE, task |-> t, id |-> commands', stage |-> s]
<1>1. /\ commands' \in Nat /\ proc' = [proc EXCEPT ![p] = r] /\ proc[p] = Idle
      /\ UNCHANGED <<queue, run, files, failing, request, passed, had, vouched, threads, session>>
  BY DEF CodexStage, Command, TypeOK
<1>2. run[t] \in RunFile
  BY DEF CodexStage, TypeOK
<1>3. r \in Staging /\ r.pc = "spawn" /\ r.task = t /\ r.stage = s
  BY <1>1 DEF Staging, Session, TypeOK
<1> HIDE DEF r
<1>4. Idle.pc # "stop"
  BY DEF Idle
<1>5. proc'[p] = r /\ ~session[p].turn
  BY <1>1, <1>4 DEF TypeOK
<1>6. session' = [session EXCEPT ![p] = session'[p]] /\ session'[p] \in Child
  BY <1>1, ChildType
<1>7. QED
  BY <1>1, <1>2, <1>3, <1>5, <1>6, ProcessType DEF TypeOK

LEMMA TypeNext == TypeOK /\ [Next]_vars => TypeOK'
<1> SUFFICES ASSUME TypeOK, [Next]_vars
             PROVE  TypeOK'
  OBVIOUS
<1>1. CASE Next
  <2>1. ASSUME NEW p \in Proc, RunnerStep(p), UNCHANGED threads,
               IF proc'[p] = Idle THEN Stop(p) ELSE UNCHANGED session
        PROVE  TypeOK'
    BY <2>1, TypeRunner
  <2>2. ASSUME NEW p \in Proc, NEW t \in Task, Load(p, t) \/ LoadNative(p, t),
               UNCHANGED <<threads, session>>
        PROVE  TypeOK'
    BY <2>2, TypeLoad DEF Load, LoadNative
  <2>3. QED
    BY <1>1, <2>1, <2>2, TypeOutside, TypeSession, TypeTurnEnds, TypeStage DEF Next
<1>2. CASE UNCHANGED vars
  BY <1>2 DEF TypeOK, vars, runVars
<1>3. QED
  BY <1>1, <1>2

\* The files, processes and sessions of the runner stay well formed.
THEOREM TypeCorrect == Spec => []TypeOK
  BY TypeInit, TypeNext, PTL DEF Spec

-----------------------------------------------------------------------------
(* Which steps touch which files and which processes.                      *)

Writing == AtWork \cup {"append"}

\* A session's steps do not touch what the proofs below speak of, except that
\* the outcome is added to run.json.
LEMMA SessionFrame ==
  ASSUME TypeOK, NEW p \in Proc,
         \/ SessionStep(p) \/ ChildExits(p) \/ TurnEnds(p)
         \/ \E t \in Task, s \in Stage : CodexStage(p, t, s)
  PROVE  /\ \A q \in Proc \ {p} : proc'[q] = proc[q]
         /\ proc[p].pc \notin Writing /\ proc'[p].pc \notin Writing
         /\ UNCHANGED <<queue, request, passed, had, vouched>>
         /\ Finish(p) \/ UNCHANGED <<run, overlapped>>
<1>1. /\ proc \in [Proc -> {Idle} \cup Appending \cup Carrying \cup Staging]
      /\ (session[p].turn => proc[p].pc = "stop")
  BY DEF TypeOK
<1>2. /\ Idle.pc \notin Writing /\ Session \cap Writing = {}
  BY DEF Idle, Session, Writing, AtWork
<1>3. ASSUME SessionStep(p)
      PROVE  /\ \/ proc' = [proc EXCEPT ![p] = Idle]
                \/ \E pc \in Session : Goto(p, pc)
             /\ proc[p].pc \in Session /\ Keep
             /\ Finish(p) \/ UNCHANGED <<run, overlapped>>
  BY <1>3 DEF SessionStep, Spawn, Initialized, Resumed, Started, SetThread, TurnStarted,
     Finish, Vanish, Answered, Session
<1>4. CASE SessionStep(p)
  <2>1. ASSUME NEW pc \in Session, Goto(p, pc)
        PROVE  (\A q \in Proc \ {p} : proc'[q] = proc[q]) /\ proc'[p].pc \in Session
    BY <1>1, <1>3, <1>4, <2>1, GotoType
  <2>2. ASSUME proc' = [proc EXCEPT ![p] = Idle]
        PROVE  (\A q \in Proc \ {p} : proc'[q] = proc[q]) /\ proc'[p] = Idle
    BY <1>1, <2>2
  <2>3. QED
    BY <1>2, <1>3, <1>4, <2>1, <2>2 DEF Keep
<1>5. CASE ChildExits(p) \/ TurnEnds(p)
  <2>1. UNCHANGED <<proc, queue, run, overlapped, request, passed, had, vouched>>
    BY <1>5 DEF ChildExits, TurnEnds, Keep
  <2>2. proc[p].pc \in Session
    BY <1>1, <1>5 DEF ChildExits, TurnEnds, Session
  <2>3. QED
    BY <1>2, <2>1, <2>2
<1>6. ASSUME NEW t \in Task, NEW s \in Stage, CodexStage(p, t, s)
      PROVE  /\ \A q \in Proc \ {p} : proc'[q] = proc[q]
             /\ proc[p].pc \notin Writing /\ proc'[p].pc \notin Writing
             /\ UNCHANGED <<queue, request, passed, had, vouched, run, overlapped>>
  <2>1. proc'[p].pc = "spawn"
    BY <1>1, <1>6 DEF CodexStage
  <2>2. QED
    BY <1>1, <1>2, <1>6, <2>1 DEF CodexStage, Session
<1>7. QED
  BY <1>4, <1>5, <1>6

-----------------------------------------------------------------------------
(* Requests follow evidence.                                               *)

Backed(t, s) ==
  \A i, j \in 1..Len(Stages) :
    i < j /\ Stages[j] = s /\ Stages[i] \notin Conditional => Stages[i] \in vouched[t]

Chosen(me) ==
  /\ me.pc \in {"tree", "saveRun", "saveQueue", "request"} /\ ~me.native /\ me.stage # None
       => Backed(me.task, me.stage)
  /\ me.pc = "request" => ~me.native /\ me.stage # None

EvidenceInv ==
  /\ \A t \in Task : passed[t] \subseteq vouched[t]
  /\ \A t \in Task : \A s \in request[t] : Backed(t, s)
  /\ \A p \in Proc : Chosen(proc[p])

LEMMA EvidenceInit == CodexInit => EvidenceInv
  BY DEF CodexInit, Init, EvidenceInv, Chosen, Idle

\* A step of one process.
LEMMA EvidenceStep ==
  ASSUME EvidenceInv, NEW p \in Proc, UNCHANGED <<passed, vouched>>,
         \A q \in Proc \ {p} : proc'[q] = proc[q],
         \A t \in Task : \A s \in request'[t] : s \in request[t] \/ Backed(t, s),
         proc'[p].pc \in {"tree", "saveRun", "saveQueue", "request"}
           /\ ~proc'[p].native /\ proc'[p].stage # None
           => Backed(proc'[p].task, proc'[p].stage),
         proc'[p].pc = "request" => ~proc'[p].native /\ proc'[p].stage # None
  PROVE  EvidenceInv'
  BY DEF EvidenceInv, Chosen, Backed

\* The next stage of runner.mjs comes after passed and conditional stages.
LEMMA NextIsBacked ==
  ASSUME EvidenceInv, NEW t \in Task, NextStage(t, FALSE) # None
  PROVE  Backed(t, NextStage(t, FALSE))
<1>1. PICK k \in 1..Len(Stages) :
        /\ Stages[k] = NextStage(t, FALSE)
        /\ \A j \in 1..Len(Stages) : j < k => Stages[j] \in Done(t, FALSE) \cup Conditional
  BY NextStageFirst
<1>2. Done(t, FALSE) \subseteq vouched[t]
  BY DEF Done, StageCompleted, EvidenceInv
<1>3. QED
  BY <1>1, <1>2, RunnerConstants DEF Backed

-----------------------------------------------------------------------------
(* The queue and its copies.                                               *)

Shown(t) == {None, "proposed"} \cup had[t]

Copied(me) ==
  /\ me.pc \in Writing => \A t \in Task : me.queue[t] \in Shown(t)
  /\ me.pc = "saveQueue" => NewState(me) \in had[me.task]

QueueInv ==
  /\ \A t \in Task : queue[t] \in Shown(t)
  /\ \A p \in Proc : Copied(proc[p])

LEMMA QueueInit == CodexInit => QueueInv
  BY DEF CodexInit, Init, QueueInv, Copied, Shown, Idle, Writing, AtWork

LEMMA QueueStep ==
  ASSUME TypeOK, QueueInv, NEW p \in Proc,
         \A q \in Proc \ {p} : proc'[q] = proc[q],
         \A t \in Task : had[t] \subseteq had'[t],
         \A t \in Task : queue'[t] \in Shown(t),
         proc'[p].pc \in Writing => \A t \in Task : proc'[p].queue[t] \in Shown(t),
         proc'[p].pc = "saveQueue" => NewState(proc'[p]) \in had'[proc'[p].task]
  PROVE  QueueInv'
<1>1. \A t \in Task : Shown(t) \subseteq Shown(t)'
  BY DEF Shown
<1>2. \A q \in Proc : proc[q].pc = "saveQueue" => proc[q].task \in Task
  BY Holds DEF AtWork
<1>3. \A q \in Proc \ {p} : Copied(proc[q])'
  BY <1>1, <1>2 DEF QueueInv, Copied, NewState
<1>4. Copied(proc[p])'
  BY <1>1 DEF Copied, NewState
<1>5. QED
  BY <1>1, <1>3, <1>4 DEF QueueInv

-----------------------------------------------------------------------------
(* The history of run.json.  A process at work on a task that nobody else  *)
(* works on has all of it in its copy.                                     *)

UpToDate(me) ==
  me.pc \in AtWork /\ me.task \notin overlapped => run[me.task].log \subseteq me.run.log

HistoryInv ==
  /\ \A p \in Proc : UpToDate(proc[p])
  /\ \A p, q \in Proc :
       p # q /\ proc[p].pc \in AtWork /\ proc[q].pc \in AtWork
         /\ proc[p].task = proc[q].task => proc[p].task \in overlapped

Kept ==
  \A t \in Task : run[t] # None /\ t \notin overlapped' =>
    run[t].log \subseteq run'[t].log \/ run'[t].log = {Entry(commands')}

LEMMA HistoryInit == CodexInit => HistoryInv
  BY DEF CodexInit, Init, HistoryInv, UpToDate, Idle, AtWork

\* A step of a process that is at work.
LEMMA HistoryStep ==
  ASSUME TypeOK, HistoryInv, NEW p \in Proc, proc[p].pc \in AtWork, UNCHANGED overlapped,
         \A q \in Proc \ {p} : proc'[q] = proc[q],
         \A t \in Task \ {proc[p].task} : run'[t] = run[t],
         proc'[p].pc \in AtWork => proc'[p].task = proc[p].task,
         proc[p].task \notin overlapped =>
           /\ run[proc[p].task].log \subseteq run'[proc[p].task].log
           /\ proc'[p].pc \in AtWork => run'[proc[p].task].log \subseteq proc'[p].run.log
  PROVE  HistoryInv' /\ Kept
<1>1. \A q \in Proc : proc[q].pc \in AtWork => proc[q].task \in Task
  BY Holds
<1>2. \A q \in Proc \ {p} : UpToDate(proc[q])'
  BY <1>1 DEF HistoryInv, UpToDate
<1>3. UpToDate(proc[p])'
  BY DEF UpToDate
<1>4. \A q, r \in Proc :
        q # r /\ proc'[q].pc \in AtWork /\ proc'[r].pc \in AtWork
          /\ proc'[q].task = proc'[r].task => proc'[q].task \in overlapped'
  BY DEF HistoryInv
<1>5. Kept
  BY DEF Kept
<1>6. QED
  BY <1>2, <1>3, <1>4, <1>5 DEF HistoryInv

IInv == TypeOK /\ EvidenceInv /\ QueueInv /\ HistoryInv

LEMMA RunnerKeeps ==
  ASSUME IInv, NEW p \in Proc, RunnerStep(p)
  PROVE  EvidenceInv' /\ QueueInv' /\ HistoryInv' /\ Kept
<1> DEFINE me == proc[p]
<1> USE DEF IInv
<1>1. /\ Idle.pc \notin Writing /\ Idle.pc \notin AtWork /\ AtWork \subseteq Writing
      /\ Idle.pc \notin {"tree", "saveRun", "saveQueue", "request"} /\ Session \cap Writing = {}
  BY DEF Idle, Writing, AtWork, Session
<1>2. /\ proc \in [Proc -> {Idle} \cup Appending \cup Carrying \cup Staging]
      /\ run \in [Task -> RunFile \cup {None}] /\ had \in [Task -> SUBSET State]
      /\ queue \in Queue
  BY DEF TypeOK
\* A process that comes to its end and changes at most the queue.
<1>3. ASSUME proc' = [proc EXCEPT ![p] = Idle],
             UNCHANGED <<run, request, passed, had, vouched, overlapped>>,
             \A t \in Task : queue'[t] \in Shown(t)
      PROVE  EvidenceInv' /\ QueueInv' /\ HistoryInv' /\ Kept
  <2>1. proc'[p] = Idle /\ \A q \in Proc \ {p} : proc'[q] = proc[q]
    BY <1>2, <1>3
  <2>2. EvidenceInv' /\ QueueInv'
    BY <1>1, <1>3, <2>1, EvidenceStep, QueueStep
  <2>3. HistoryInv' /\ Kept
    BY <1>1, <1>3, <2>1 DEF HistoryInv, UpToDate, Kept
  <2>4. QED
    BY <2>2, <2>3
<1>4. CASE Leave(p)
  BY <1>3, <1>4 DEF Leave, QueueInv
<1>5. ASSUME NEW t \in Task, TaskCreate(p, t)
      PROVE  EvidenceInv' /\ QueueInv' /\ HistoryInv' /\ Kept
  <2>1. /\ proc'[p].pc = "append" /\ proc'[p].queue = queue
        /\ \A q \in Proc \ {p} : proc'[q] = proc[q]
        /\ UNCHANGED <<queue, run, request, passed, had, vouched, overlapped>>
    BY <1>2, <1>5 DEF TaskCreate
  <2>2. "append" \notin AtWork \cup {"tree", "saveRun", "saveQueue", "request"}
    BY DEF AtWork
  <2>3. EvidenceInv' /\ QueueInv'
    BY <2>1, <2>2, EvidenceStep, QueueStep DEF QueueInv
  <2>4. HistoryInv' /\ Kept
    BY <2>1, <2>2 DEF HistoryInv, UpToDate, Kept
  <2>5. QED
    BY <2>3, <2>4
<1>6. CASE AppendTask(p)
  <2>1. me \in Appending /\ me.pc \in Writing
    BY <1>6, Holds DEF AppendTask, Writing
  <2>2. me.queue \in Queue /\ me.task \in Task
    BY <2>1 DEF Appending
  <2>3. \A t \in Task : queue'[t] = "proposed" \/ queue'[t] = me.queue[t]
    BY <1>6, <2>2 DEF AppendTask, Queue
  <2>4. \A t \in Task : queue'[t] \in Shown(t)
    BY <2>1, <2>3 DEF QueueInv, Copied, Shown
  <2>5. QED
    BY <1>3, <1>6, <2>4 DEF AppendTask
<1>7. ASSUME NEW verified \in BOOLEAN, Decide(p, verified)
      PROVE  EvidenceInv' /\ QueueInv' /\ HistoryInv' /\ Kept
  <2> DEFINE next == NextStage(me.task, me.native)
             now == IF me.native THEN me.run ELSE run[me.task]
             pc == IF next \in Mutable THEN "tree" ELSE "saveRun"
             r == Working(me, pc, now, next)
  <2>1. me \in Carrying /\ me.pc \in AtWork /\ me.pc \in Writing
    BY <1>1, <1>7, Holds DEF Decide, AtWork
  <2>2. me.task \in Task /\ me.native \in BOOLEAN
    BY <2>1 DEF Carrying
  <2>3. UNCHANGED <<queue, run, request, passed, had, vouched, overlapped>>
    BY <1>7 DEF Decide
  <2>4. CASE proc' = [proc EXCEPT ![p] = Idle]
    BY <1>3, <2>3, <2>4 DEF QueueInv
  <2>5. CASE proc' = [proc EXCEPT ![p] = r]
    <3>1. /\ r.pc \in {"tree", "saveRun"} /\ r.task = me.task /\ r.queue = me.queue
          /\ r.native = me.native /\ r.stage = next /\ r.run = now
      BY DEF Working
    <3>2. r.pc \in AtWork
      BY <3>1 DEF AtWork
    <3> HIDE DEF r, me, next
    <3>3. proc'[p] = r /\ \A q \in Proc \ {p} : proc'[q] = proc[q]
      BY <1>2, <2>5
    <3>4. ~me.native /\ next # None => Backed(me.task, next)
      <4>1. ~me.native => me.native = FALSE
        BY <2>2
      <4>2. QED
        BY <2>2, <4>1, NextIsBacked DEF next
    <3>5. EvidenceInv'
      BY <2>3, <3>1, <3>3, <3>4, EvidenceStep
    <3>6. QueueInv'
      BY <2>1, <2>3, <3>1, <3>3, QueueStep DEF QueueInv, Copied, me
    <3>7. me.task \notin overlapped => run[me.task].log \subseteq now.log
      BY <2>1 DEF HistoryInv, UpToDate, me
    <3>8. HistoryInv' /\ Kept
      BY <2>1, <2>3, <3>1, <3>3, <3>7, HistoryStep DEF me
    <3>9. QED
      BY <3>5, <3>6, <3>8
  <2>6. QED
    BY <1>7, <2>4, <2>5 DEF Decide
<1>8. CASE EnsureWorktree(p)
  <2> DEFINE saved == run'[me.task]
             r == Working(me, "saveRun", saved, me.stage)
  <2>1. me \in Carrying /\ me.pc = "tree" /\ me.pc \in AtWork /\ me.pc \in Writing
        /\ run[me.task] \in RunFile
    BY <1>1, <1>8, Holds DEF EnsureWorktree, AtWork, TypeOK
  <2>2. me.task \in Task
    BY <2>1 DEF Carrying
  <2>3. /\ run' = [run EXCEPT ![me.task] = saved] /\ proc' = [proc EXCEPT ![p] = r]
        /\ \/ saved.log = run[me.task].log
           \/ saved.log = run[me.task].log \cup {Entry(me.id)}
           \/ saved.log = me.run.log
    BY <1>8, <1>2, <2>2 DEF EnsureWorktree
  <2>4. UNCHANGED <<queue, request, passed, had, vouched, overlapped>>
    BY <1>8 DEF EnsureWorktree
  <2>5. /\ r.pc = "saveRun" /\ r.task = me.task /\ r.queue = me.queue
        /\ r.native = me.native /\ r.stage = me.stage /\ r.run = saved
    BY DEF Working
  <2>6. "saveRun" \in AtWork
    BY DEF AtWork
  <2> HIDE DEF r, saved
  <2>7. /\ proc'[p] = r /\ \A q \in Proc \ {p} : proc'[q] = proc[q]
        /\ \A t \in Task \ {me.task} : run'[t] = run[t]
    BY <1>2, <2>3
  <2>8. EvidenceInv'
    BY <2>1, <2>4, <2>5, <2>7, EvidenceStep DEF EvidenceInv, Chosen
  <2>9. QueueInv'
    BY <2>1, <2>4, <2>5, <2>7, QueueStep DEF QueueInv, Copied
  <2>10. me.task \notin overlapped => run[me.task].log \subseteq saved.log
    BY <2>1, <2>3 DEF HistoryInv, UpToDate
  <2>11. HistoryInv' /\ Kept
    BY <2>1, <2>4, <2>5, <2>7, <2>10, HistoryStep DEF saved
  <2>12. QED
    BY <2>8, <2>9, <2>11
<1>9. CASE SaveRun(p)
  <2> DEFINE saved == [state |-> NewState(me), tree |-> me.run.tree,
                       log |-> me.run.log \cup {Entry(me.id)}]
             r == Working(me, "saveQueue", saved, me.stage)
  <2>1. me \in Carrying /\ me.pc = "saveRun" /\ me.pc \in AtWork /\ me.pc \in Writing
    BY <1>1, <1>9, Holds DEF SaveRun, AtWork
  <2>2. me.task \in Task
    BY <2>1 DEF Carrying
  <2>3. /\ run' = [run EXCEPT ![me.task] = saved] /\ proc' = [proc EXCEPT ![p] = r]
        /\ had' = [had EXCEPT ![me.task] = @ \cup {NewState(me)}]
        /\ UNCHANGED <<queue, request, passed, vouched, overlapped>>
    BY <1>9 DEF SaveRun
  <2>4. /\ r.pc = "saveQueue" /\ r.task = me.task /\ r.queue = me.queue
        /\ r.native = me.native /\ r.stage = me.stage /\ r.run = saved
        /\ NewState(r) = NewState(me) /\ me.run.log \subseteq saved.log
    BY DEF Working, NewState
  <2> HIDE DEF r, saved
  <2>5. /\ proc'[p] = r /\ \A q \in Proc \ {p} : proc'[q] = proc[q]
        /\ run'[me.task] = saved /\ \A t \in Task \ {me.task} : run'[t] = run[t]
        /\ NewState(me) \in had'[me.task] /\ \A t \in Task : had[t] \subseteq had'[t]
    BY <1>2, <2>2, <2>3
  <2>6. EvidenceInv'
    BY <2>1, <2>3, <2>4, <2>5, EvidenceStep DEF EvidenceInv, Chosen
  <2>7. QueueInv'
    BY <2>1, <2>3, <2>4, <2>5, QueueStep DEF QueueInv, Copied
  <2>8. me.task \notin overlapped => run[me.task].log \subseteq saved.log
    BY <2>1, <2>4 DEF HistoryInv, UpToDate
  <2>9. HistoryInv' /\ Kept
    BY <2>1, <2>3, <2>4, <2>5, <2>8, HistoryStep
  <2>10. QED
    BY <2>6, <2>7, <2>9
<1>10. CASE SaveQueue(p)
  <2> DEFINE r == Working(me, IF me.native THEN "spawn" ELSE "request", me.run, me.stage)
  <2>1. me \in Carrying /\ me.pc = "saveQueue" /\ me.pc \in AtWork /\ me.pc \in Writing
    BY <1>1, <1>10, Holds DEF SaveQueue, AtWork
  <2>2. me.task \in Task /\ me.queue \in Queue /\ me.native \in BOOLEAN
    BY <2>1 DEF Carrying
  <2>3. \A t \in Task : queue'[t] = me.queue[t] \/ (t = me.task /\ queue'[t] = NewState(me))
    BY <1>10, <2>2 DEF SaveQueue, Queue
  <2>4. \A t \in Task : queue'[t] \in Shown(t)
    BY <2>1, <2>3 DEF QueueInv, Copied, Shown
  <2>5. UNCHANGED <<run, request, passed, had, vouched, overlapped>>
    BY <1>10 DEF SaveQueue
  <2>6. CASE proc' = [proc EXCEPT ![p] = Idle]
    BY <1>3, <2>4, <2>5, <2>6
  <2>7. CASE me.stage # None /\ proc' = [proc EXCEPT ![p] = r]
    <3>1. /\ r.pc = (IF me.native THEN "spawn" ELSE "request") /\ r.task = me.task
          /\ r.queue = me.queue /\ r.native = me.native /\ r.stage = me.stage /\ r.run = me.run
      BY DEF Working
    <3>2. "spawn" \notin AtWork
      BY DEF AtWork
    <3> HIDE DEF r
    <3>3. proc'[p] = r /\ \A q \in Proc \ {p} : proc'[q] = proc[q]
      BY <1>2, <2>7
    <3>4. EvidenceInv'
      BY <2>1, <2>5, <2>7, <3>1, <3>3, EvidenceStep DEF EvidenceInv, Chosen
    <3>5. QueueInv'
      BY <2>1, <2>4, <2>5, <3>1, <3>3, QueueStep DEF QueueInv, Copied
    <3>6. HistoryInv' /\ Kept
      BY <2>1, <2>5, <3>1, <3>2, <3>3, HistoryStep DEF HistoryInv, UpToDate
    <3>7. QED
      BY <3>4, <3>5, <3>6
  <2>8. QED
    BY <1>10, <2>6, <2>7 DEF SaveQueue
<1>11. CASE WriteRequest(p)
  <2>1. me \in Carrying /\ me.pc = "request" /\ me.pc \in AtWork /\ me.pc \in Writing
    BY <1>1, <1>11, Holds DEF WriteRequest, AtWork
  <2>2. me.task \in Task
    BY <2>1 DEF Carrying
  <2>3. /\ run' = [run EXCEPT ![me.task] = me.run] /\ proc' = [proc EXCEPT ![p] = Idle]
        /\ request' = [request EXCEPT ![me.task] = @ \cup {me.stage}]
        /\ UNCHANGED <<queue, passed, had, vouched, overlapped>>
    BY <1>11 DEF WriteRequest
  <2>4. /\ proc'[p] = Idle /\ \A q \in Proc \ {p} : proc'[q] = proc[q]
        /\ run'[me.task] = me.run /\ \A t \in Task \ {me.task} : run'[t] = run[t]
    BY <1>2, <2>2, <2>3
  <2>5. \A t \in Task : \A s \in request'[t] :
          s \in request[t] \/ (t = me.task /\ s = me.stage)
    BY <2>2, <2>3 DEF TypeOK
  <2>6. Backed(me.task, me.stage)
    BY <2>1 DEF EvidenceInv, Chosen
  <2>7. EvidenceInv' /\ QueueInv'
    BY <1>1, <2>3, <2>4, <2>5, <2>6, EvidenceStep, QueueStep DEF QueueInv
  <2>8. HistoryInv' /\ Kept
    BY <1>1, <2>1, <2>3, <2>4, HistoryStep DEF HistoryInv, UpToDate
  <2>9. QED
    BY <2>7, <2>8
<1>12. QED
  BY <1>4, <1>5, <1>6, <1>7, <1>8, <1>9, <1>10, <1>11 DEF RunnerStep

\* A runner that loads its files has all of the history in its copy.
LEMMA LoadKeeps ==
  ASSUME IInv, NEW p \in Proc, NEW t \in Task, NEW native \in BOOLEAN, LoadAs(p, t, native)
  PROVE  EvidenceInv' /\ QueueInv' /\ HistoryInv' /\ Kept
<1> USE DEF IInv
<1>1. /\ proc'[p].pc = "decide" /\ proc'[p].queue = queue /\ proc'[p].task = t
      /\ proc'[p].run = run[t] /\ \A q \in Proc \ {p} : proc'[q] = proc[q]
      /\ UNCHANGED <<queue, run, request, passed, had, vouched>>
  BY DEF LoadAs, TypeOK
<1>2. EvidenceInv' /\ QueueInv'
  BY <1>1, EvidenceStep, QueueStep DEF QueueInv
<1>3. /\ overlapped \subseteq overlapped' /\ (Busy(t) => t \in overlapped')
  BY DEF LoadAs, StartCommand, TouchRun
<1>4. \A q \in Proc \ {p} : proc[q].pc \in AtWork /\ proc[q].task = t => t \in overlapped'
  BY <1>3 DEF Busy
<1>5. HistoryInv' /\ Kept
  BY <1>1, <1>3, <1>4 DEF HistoryInv, UpToDate, Kept
<1>6. QED
  BY <1>2, <1>5

LEMMA SessionKeeps ==
  ASSUME IInv, NEW p \in Proc,
         \/ SessionStep(p) \/ ChildExits(p) \/ TurnEnds(p)
         \/ \E t \in Task, s \in Stage : CodexStage(p, t, s)
  PROVE  EvidenceInv' /\ QueueInv' /\ HistoryInv' /\ Kept
<1> USE DEF IInv
<1>1. /\ \A q \in Proc \ {p} : proc'[q] = proc[q]
      /\ proc[p].pc \notin Writing /\ proc'[p].pc \notin Writing
      /\ UNCHANGED <<queue, request, passed, had, vouched>>
      /\ Finish(p) \/ UNCHANGED <<run, overlapped>>
  BY SessionFrame
<1>2. proc'[p].pc \notin AtWork \cup {"tree", "saveRun", "saveQueue", "request"}
  BY <1>1 DEF Writing, AtWork
<1>3. EvidenceInv' /\ QueueInv'
  BY <1>1, <1>2, EvidenceStep, QueueStep DEF QueueInv
<1>4. CASE UNCHANGED <<run, overlapped>>
  BY <1>1, <1>2, <1>3, <1>4 DEF HistoryInv, UpToDate, Kept
<1>5. CASE Finish(p) /\ proc[p].native
  <2> DEFINE t == proc[p].task
             r == [state |-> run[t].state, tree |-> run[t].tree,
                   log |-> run[t].log \cup {Outcome(proc[p].id)}]
  <2>1. t \in Task /\ run \in [Task -> RunFile \cup {None}]
    BY <1>5, Holds DEF Finish, Session, TypeOK
  <2>2. /\ run' = [run EXCEPT ![t] = r] /\ TouchRun(t) /\ run[t].log \subseteq r.log
    BY <1>5 DEF Finish, SaveOutcome
  <2> HIDE DEF r
  <2>3. /\ run[t].log \subseteq run'[t].log
        /\ \A u \in Task \ {t} : run'[u] = run[u]
    BY <2>1, <2>2
  <2>4. /\ overlapped \subseteq overlapped' /\ (Busy(t) => t \in overlapped')
    BY <2>2 DEF TouchRun
  <2>5. \A q \in Proc : proc[q].pc \in AtWork => proc[q].task \in Task
    BY Holds
  <2>6. \A q \in Proc : proc'[q].pc \in AtWork =>
          /\ q # p /\ proc'[q] = proc[q]
          /\ proc[q].task = t => t \in overlapped'
    BY <1>1, <1>2, <2>4 DEF Busy
  <2>7. \A q \in Proc : UpToDate(proc[q])'
    BY <2>3, <2>4, <2>5, <2>6 DEF HistoryInv, UpToDate
  <2>8. HistoryInv'
    BY <2>4, <2>6, <2>7 DEF HistoryInv
  <2>9. Kept
    BY <2>3 DEF Kept
  <2>10. QED
    BY <1>3, <2>8, <2>9
<1>6. CASE Finish(p) /\ ~proc[p].native
  BY <1>4, <1>6 DEF Finish, SaveOutcome
<1>7. QED
  BY <1>1, <1>4, <1>5, <1>6

LEMMA OutsideKeeps ==
  ASSUME IInv, Outside
  PROVE  EvidenceInv' /\ QueueInv' /\ HistoryInv' /\ Kept
<1> USE DEF IInv
<1>1. ASSUME NEW t \in Task, RunInit(t) \/ Transition(t) \/ WorktreeCreate(t)
      PROVE  EvidenceInv' /\ QueueInv' /\ HistoryInv' /\ Kept
  <2>1. /\ UNCHANGED <<queue, request, passed, proc, vouched>> /\ TouchRun(t)
        /\ run \in [Task -> RunFile \cup {None}] /\ had \in [Task -> SUBSET State]
    BY <1>1 DEF RunInit, Transition, WorktreeCreate, StartCommand, TypeOK
  <2>2. /\ \A u \in Task : had[u] \subseteq had'[u]
        /\ \A u \in Task \ {t} : run'[u] = run[u]
    BY <1>1, <2>1 DEF RunInit, Transition, WorktreeCreate
  <2>3. run[t] # None => run[t].log \subseteq run'[t].log \/ run'[t].log = {Entry(commands')}
    BY <1>1, <2>1 DEF RunInit, Transition, WorktreeCreate
  <2>4. EvidenceInv'
    BY <2>1 DEF EvidenceInv, Chosen, Backed
  <2>5. \A q \in Proc : proc[q].pc = "saveQueue" => proc[q].task \in Task
    BY Holds DEF AtWork
  <2>6. QueueInv'
    BY <2>1, <2>2, <2>5 DEF QueueInv, Copied, Shown, NewState
  <2>7. /\ overlapped \subseteq overlapped' /\ (Busy(t) => t \in overlapped')
    BY <2>1 DEF TouchRun
  <2>8. \A q \in Proc : proc[q].pc \in AtWork =>
          proc[q].task \in Task /\ (proc[q].task = t => t \in overlapped')
    BY <2>7, Holds DEF Busy
  <2>9. HistoryInv'
    BY <2>1, <2>2, <2>7, <2>8 DEF HistoryInv, UpToDate
  <2>10. Kept
    BY <2>2, <2>3 DEF Kept
  <2>11. QED
    BY <2>4, <2>6, <2>9, <2>10
<1>2. ASSUME NEW t \in Task, \E m \in Mark : PutMark(t, m)
      PROVE  EvidenceInv' /\ QueueInv' /\ HistoryInv' /\ Kept
  BY <1>2 DEF PutMark, EvidenceInv, Chosen, Backed, QueueInv, Copied, Shown, NewState,
     HistoryInv, UpToDate, Kept
<1>3. ASSUME NEW t \in Task, NEW s \in Stage, AgentProduces(t, s) \/ AgentAnswers(t, s)
      PROVE  EvidenceInv' /\ QueueInv' /\ HistoryInv' /\ Kept
  <2>1. UNCHANGED <<queue, run, request, proc, had, overlapped>>
    BY <1>3 DEF AgentProduces, AgentAnswers
  <2>2. QueueInv' /\ HistoryInv' /\ Kept
    BY <2>1 DEF QueueInv, Copied, Shown, NewState, HistoryInv, UpToDate, Kept
  <2>3. \A u \in Task : vouched[u] \subseteq vouched'[u] /\ passed'[u] \subseteq vouched'[u]
    BY <1>3 DEF AgentProduces, AgentAnswers, EvidenceInv, TypeOK
  <2>4. \A q \in Proc : proc[q].pc \in {"tree", "saveRun", "saveQueue", "request"} =>
          proc[q].task \in Task
    BY Holds DEF AtWork
  <2>5. EvidenceInv'
    BY <2>1, <2>3, <2>4 DEF EvidenceInv, Chosen, Backed
  <2>6. QED
    BY <2>2, <2>5
<1>4. QED
  BY <1>1, <1>2, <1>3 DEF Outside

LEMMA StepKeeps ==
  ASSUME IInv, [Next]_vars
  PROVE  IInv' /\ Kept
<1>1. TypeOK'
  BY TypeNext DEF IInv
<1>2. CASE Next
  <2>1. ASSUME NEW p \in Proc, NEW t \in Task, Load(p, t) \/ LoadNative(p, t)
        PROVE  EvidenceInv' /\ QueueInv' /\ HistoryInv' /\ Kept
    BY <2>1, LoadKeeps DEF Load, LoadNative
  <2>2. QED
    BY <1>1, <1>2, <2>1, RunnerKeeps, SessionKeeps, OutsideKeeps DEF Next, IInv
<1>3. CASE UNCHANGED vars
  BY <1>1, <1>3 DEF vars, runVars, IInv, EvidenceInv, Chosen, Backed, QueueInv, Copied,
     Shown, NewState, HistoryInv, UpToDate, Kept
<1>4. QED
  BY <1>2, <1>3

LEMMA InvAlways == Spec => []IInv
<1>1. CodexInit => IInv
  BY TypeInit, EvidenceInit, QueueInit, HistoryInit DEF IInv
<1>2. IInv /\ [Next]_vars => IInv'
  BY StepKeeps
<1>3. QED
  BY <1>1, <1>2, PTL DEF Spec

-----------------------------------------------------------------------------
(* The properties.                                                         *)

\* runner.mjs requests a stage only after the agents of all earlier
\* unconditional stages have answered "passed" (nextStage, stageCompleted).
THEOREM EvidenceFirst == Spec => []RequestsFollowEvidence
<1>1. IInv => RequestsFollowEvidence
  BY DEF IInv, EvidenceInv, Backed, RequestsFollowEvidence
<1>2. QED
  BY <1>1, InvAlways, PTL

\* tasks.json never shows a state that run.json of the task has not shown.
THEOREM QueueStaysBehind == Spec => []QueueNeverAhead
<1>1. IInv => QueueNeverAhead
  BY DEF IInv, QueueInv, Shown, QueueNeverAhead
<1>2. QED
  BY <1>1, InvAlways, PTL

\* No entry of run.json is written over unless two commands were at work on
\* the task at once, whatever happens during a Codex turn.
THEOREM NoEntryIsLost == Spec => HistoryIsKept
<1>1. IInv /\ [Next]_vars =>
        [\A t \in Task : run[t] # None /\ t \notin overlapped' =>
          run[t].log \subseteq run'[t].log \/ run'[t].log = {Entry(commands')}]_runVars
  BY StepKeeps DEF Kept
<1>2. QED
  BY <1>1, InvAlways, PTL DEF Spec, HistoryIsKept

-----------------------------------------------------------------------------
(* Turns run on threads the app server knows.                              *)

ThreadInv ==
  \A p \in Proc : proc[p].pc \in {"setThread", "turn"} => session[p].thread \in session[p].loaded

\* A runner's step outside of its session leaves the pcs of a session alone.
LEMMA RunnerPc ==
  ASSUME TypeOK, NEW p \in Proc, RunnerStep(p)
  PROVE  /\ \A q \in Proc \ {p} : proc'[q] = proc[q]
         /\ proc'[p].pc \notin {"setThread", "turn"}
<1>1. proc \in [Proc -> {Idle} \cup Appending \cup Carrying \cup Staging]
  BY DEF TypeOK
<1>2. Idle.pc \notin {"setThread", "turn"}
  BY DEF Idle
<1>3. \A pc, r, s : Working(proc[p], pc, r, s).pc = pc
  BY DEF Working
<1>4. \A q \in Proc \ {p} : proc'[q] = proc[q]
  BY <1>1 DEF RunnerStep, TaskCreate, AppendTask, Decide, EnsureWorktree, SaveRun, SaveQueue,
     WriteRequest, Leave
<1>5. ASSUME NEW t \in Task, TaskCreate(p, t)
      PROVE  proc'[p].pc = "append"
  BY <1>1, <1>5 DEF TaskCreate
<1>6. CASE AppendTask(p) \/ WriteRequest(p) \/ Leave(p)
  BY <1>1, <1>2, <1>4, <1>6 DEF AppendTask, WriteRequest, Leave
<1>7. ASSUME NEW verified \in BOOLEAN, Decide(p, verified)
      PROVE  proc'[p] = Idle \/ proc'[p].pc \in {"tree", "saveRun"}
  <2> DEFINE me == proc[p]
             next == NextStage(me.task, me.native)
             r == Working(me, IF next \in Mutable THEN "tree" ELSE "saveRun",
                          IF me.native THEN me.run ELSE run[me.task], next)
  <2>1. r.pc \in {"tree", "saveRun"}
    BY <1>3
  <2>2. proc' = [proc EXCEPT ![p] = Idle] \/ proc' = [proc EXCEPT ![p] = r]
    BY <1>7 DEF Decide
  <2> HIDE DEF r
  <2>3. QED
    BY <1>1, <2>1, <2>2
<1>8. CASE EnsureWorktree(p) \/ SaveRun(p)
  <2>1. \E pc \in {"saveRun", "saveQueue"} : \E r, s : proc'[p] = Working(proc[p], pc, r, s)
    BY <1>1, <1>8 DEF EnsureWorktree, SaveRun
  <2>2. QED
    BY <1>3, <1>4, <2>1
<1>9. CASE SaveQueue(p)
  <2>1. \/ proc'[p] = Idle
        \/ proc'[p] = Working(proc[p], IF proc[p].native THEN "spawn" ELSE "request",
                              proc[p].run, proc[p].stage)
    BY <1>1, <1>9 DEF SaveQueue
  <2>2. QED
    BY <1>2, <1>3, <1>4, <2>1
<1>10. QED
  BY <1>2, <1>4, <1>5, <1>6, <1>7, <1>8, <1>9 DEF RunnerStep

\* A step of one process, after which its thread is loaded if it has to be.
LEMMA ThreadStep ==
  ASSUME ThreadInv, NEW p \in Proc,
         \A q \in Proc \ {p} : proc'[q] = proc[q] /\ session'[q] = session[q],
         proc'[p].pc \in {"setThread", "turn"} => session'[p].thread \in session'[p].loaded
  PROVE  ThreadInv'
  BY DEF ThreadInv

LEMMA ThreadSession ==
  ASSUME TypeOK, ThreadInv, NEW p \in Proc, SessionStep(p)
  PROVE  ThreadInv'
<1>1. /\ session \in [Proc -> Child] /\ proc[p].pc \in Session
      /\ proc \in [Proc -> {Idle} \cup Appending \cup Carrying \cup Staging]
  BY DEF TypeOK, SessionStep, Spawn, Initialized, Resumed, Started, SetThread, TurnStarted,
     Finish, Vanish, Answered, Session
<1>2. \A q \in Proc \ {p} : proc'[q] = proc[q] /\ session'[q] = session[q]
  <2>1. \A q \in Proc \ {p} : proc'[q] = proc[q]
    BY SessionFrame
  <2>2. \A q \in Proc \ {p} : session'[q] = session[q]
    BY <1>1 DEF SessionStep, Spawn, Initialized, Resumed, ResumeThread, Started, StartThread,
       SetThread, TurnStarted, StartTurn, Finish, Vanish, Stop
  <2>3. QED
    BY <2>1, <2>2
<1>3. ASSUME NEW pc \in Session, Goto(p, pc)
      PROVE  proc'[p].pc = pc
  BY <1>1, <1>3, GotoType
<1>4. "turn" \in Session /\ "setThread" \in Session
  BY DEF Session
<1>5. ASSUME \E pc \in Session \ {"turn", "setThread"} : Goto(p, pc)
      PROVE  ThreadInv'
  BY <1>2, <1>3, <1>5, ThreadStep
<1>6. CASE Resumed(p)
  <2>1. CASE Goto(p, "turn") /\ ResumeThread(p)
    <3>1. session'[p].thread \in session'[p].loaded
      BY <1>1, <2>1 DEF ResumeThread, Child
    <3>2. QED
      BY <1>2, <3>1, ThreadStep
  <2>2. CASE Goto(p, "start")
    BY <1>5, <2>2 DEF Session
  <2>3. QED
    BY <1>6, <2>1, <2>2 DEF Resumed
<1>7. CASE Started(p)
  <2>1. ASSUME NEW id \in Thread, StartThread(p, id)
        PROVE  session'[p].thread \in session'[p].loaded
    <3> DEFINE r == [alive |-> TRUE, loaded |-> session[p].loaded \cup {id}, turn |-> FALSE,
                     thread |-> id, copy |-> threads]
    <3>1. session'[p] = r
      BY <1>1, <2>1 DEF StartThread
    <3>2. r.thread \in r.loaded
      OBVIOUS
    <3>3. QED
      BY <3>1, <3>2
  <2>2. CASE Goto(p, "stop")
    BY <1>5, <2>2 DEF Session
  <2>3. QED
    BY <1>2, <1>7, <2>1, <2>2, ThreadStep DEF Started
<1>8. CASE SetThread(p)
  <2>1. session'[p].thread = session[p].thread /\ session'[p].loaded = session[p].loaded
    BY <1>1, <1>8 DEF SetThread, Child
  <2>2. session[p].thread \in session[p].loaded
    BY <1>8 DEF SetThread, ThreadInv
  <2>3. QED
    BY <1>2, <2>1, <2>2, ThreadStep
<1>9. CASE Finish(p) \/ Vanish(p)
  <2>1. proc'[p] = Idle
    BY <1>1, <1>9 DEF Finish, Vanish
  <2>2. Idle.pc \notin {"setThread", "turn"}
    BY DEF Idle
  <2>3. QED
    BY <1>2, <2>1, <2>2, ThreadStep
<1>10. CASE Spawn(p) \/ Initialized(p) \/ TurnStarted(p)
  <2>1. \E pc \in {"initialize", "resume", "start", "failed", "stop"} : Goto(p, pc)
    BY <1>10 DEF Spawn, Initialized, TurnStarted
  <2>2. QED
    BY <1>5, <2>1 DEF Session
<1>11. QED
  BY <1>6, <1>7, <1>8, <1>9, <1>10 DEF SessionStep

LEMMA ThreadNext == TypeOK /\ ThreadInv /\ [Next]_vars => ThreadInv'
<1> SUFFICES ASSUME TypeOK, ThreadInv, [Next]_vars
             PROVE  ThreadInv'
  OBVIOUS
<1>1. session \in [Proc -> Child]
      /\ proc \in [Proc -> {Idle} \cup Appending \cup Carrying \cup Staging]
  BY DEF TypeOK
<1>2. ASSUME NEW p \in Proc, RunnerStep(p),
             IF proc'[p] = Idle THEN Stop(p) ELSE UNCHANGED session
      PROVE  ThreadInv'
  <2>1. \A q \in Proc \ {p} : session'[q] = session[q]
    BY <1>1, <1>2 DEF Stop
  <2>2. QED
    BY <1>2, <2>1, RunnerPc, ThreadStep
<1>3. ASSUME NEW p \in Proc, NEW t \in Task, Load(p, t) \/ LoadNative(p, t),
             UNCHANGED session
      PROVE  ThreadInv'
  <2>1. proc'[p].pc = "decide" /\ \A q \in Proc \ {p} : proc'[q] = proc[q]
    BY <1>1, <1>3 DEF Load, LoadNative, LoadAs
  <2>2. QED
    BY <1>3, <2>1, ThreadStep
<1>4. ASSUME NEW p \in Proc, NEW t \in Task, NEW s \in Stage, CodexStage(p, t, s)
      PROVE  ThreadInv'
  <2>1. proc'[p].pc = "spawn" /\ \A q \in Proc \ {p} : proc'[q] = proc[q]
    BY <1>1, <1>4 DEF CodexStage
  <2>2. QED
    BY <1>4, <2>1, ThreadStep DEF CodexStage
<1>5. ASSUME NEW p \in Proc, TurnEnds(p) \/ ChildExits(p)
      PROVE  ThreadInv'
  <2>1. /\ UNCHANGED proc /\ \A q \in Proc \ {p} : session'[q] = session[q]
        /\ session'[p].thread = session[p].thread /\ session'[p].loaded = session[p].loaded
    BY <1>1, <1>5 DEF TurnEnds, ChildExits, Child
  <2>2. QED
    BY <2>1 DEF ThreadInv
<1>6. CASE Outside /\ UNCHANGED session
  <2>1. UNCHANGED proc
    BY <1>6 DEF Outside, RunInit, Transition, WorktreeCreate, PutMark, AgentProduces,
       AgentAnswers
  <2>2. QED
    BY <1>6, <2>1 DEF ThreadInv
<1>7. CASE UNCHANGED vars
  BY <1>7 DEF vars, runVars, ThreadInv
<1>8. QED
  BY <1>2, <1>3, <1>4, <1>5, <1>6, <1>7, ThreadSession DEF Next

\* A turn is asked for only on a thread that this app server has started or
\* resumed, whatever threads.json says (codex-execute.mjs 31-51).
THEOREM TurnsHaveTheirThread == Spec => []TurnOnLoadedThread
<1>1. CodexInit => ThreadInv
  BY DEF CodexInit, Init, ThreadInv, Idle
<1>2. ThreadInv => TurnOnLoadedThread
  BY DEF ThreadInv, TurnOnLoadedThread
<1>3. QED
  BY <1>1, <1>2, ThreadNext, TypeCorrect, PTL DEF Spec
=============================================================================
