------------------------------ MODULE DagFile -------------------------------
(***************************************************************************)
(* The commands on runs/<task>/dag.json as they really execute: several    *)
(* processes, each of which reads the file, computes the next document in  *)
(* memory, writes its request files and then writes dag.json - in place,   *)
(* with fs.writeFileSync, which empties the file before it fills it.  The  *)
(* task lock is a field of the document, not a lock on the file, and any   *)
(* process may be killed at any point.                                     *)
(***************************************************************************)
EXTENDS DagState

CONSTANTS
  Proc,          \* the processes (terminals, scripts, agents)
  MaxCrashes,    \* bound, for each value of serial: commands killed half-way
  MaxInits       \* bound, for each value of serial: runs of parallel:init

ASSUME FileAssumption ==
  /\ MaxCrashes \in [BOOLEAN -> Nat]
  /\ MaxInits \in [BOOLEAN -> Nat]

VARIABLES
  file,       \* the document last written in full
  serial,     \* the users never start a command while another one runs
  torn,       \* dag.json is empty or mangled at the moment
  issued,     \* the request files <<node, attempt, owner that wrote it>>
  pc,         \* where each process is in its command
  command,    \* which command that is
  owner,      \* the scheduler owner of the process
  next,       \* the document it is going to write
  todo,       \* the request files it has still to write
  answer,     \* the request its stage result answers, <<node, attempt>>
  accepted,   \* history: the answers reported as accepted in this run
  inits,      \* history: number of parallel:init commands
  crashes     \* history: number of commands killed

vars == <<file, serial, torn, issued, pc, command, owner, next, todo, answer,
          accepted, inits, crashes>>

local == <<command, owner, next, todo, answer>>

Command == {"init", "run", "complete", "retry"}

\* "overlapping": the file was emptied by this process and filled by another.
Step == {"idle", "requests", "truncated", "overlapping"}

Init ==
  /\ file = InitialDocument
  /\ serial \in BOOLEAN
  /\ torn = FALSE
  /\ issued = {}
  /\ pc = [p \in Proc |-> "idle"]
  /\ command = [p \in Proc |-> "init"]
  /\ owner \in [Proc -> Owner]
  /\ next = [p \in Proc |-> InitialDocument]
  /\ todo = [p \in Proc |-> {}]
  /\ answer = [p \in Proc |-> <<>>]
  /\ accepted = {}
  /\ inits = 0
  /\ crashes = 0

\* The memory of process p is gone when its command has ended.
Forget(p) ==
  /\ command' = [command EXCEPT ![p] = "init"]
  /\ next' = [next EXCEPT ![p] = InitialDocument]
  /\ todo' = [todo EXCEPT ![p] = {}]
  /\ answer' = [answer EXCEPT ![p] = <<>>]
  /\ UNCHANGED owner

\* Process p has computed document d and goes on to write it.
Begin(p, name, d, requests, reply) ==
  /\ pc[p] = "idle"
  /\ serial => \A q \in Proc : pc[q] = "idle"
  /\ pc' = [pc EXCEPT ![p] = "requests"]
  /\ command' = [command EXCEPT ![p] = name]
  /\ next' = [next EXCEPT ![p] = d]
  /\ todo' = [todo EXCEPT ![p] = requests]
  /\ answer' = [answer EXCEPT ![p] = reply]
  /\ UNCHANGED <<file, serial, torn, issued, owner, accepted, crashes>>

\* parallel:init does not read the old file.
InitTask(p) ==
  /\ inits < MaxInits[serial]
  /\ Begin(p, "init", InitialDocument, {}, <<>>)
  /\ inits' = inits + 1

\* runScheduler up to line 112.  A torn file makes JSON.parse throw, in this
\* and in the next two commands, and the command ends without a trace.
LoadForRun(p) ==
  /\ ~ torn
  /\ \E change \in BOOLEAN : \E o \in ScheduleRunnableNodes(file, owner[p], change) :
       Begin(p, "run", o.document, o.requests, <<>>)
  /\ UNCHANGED inits

\* applyResultFile up to line 134
LoadForComplete(p) ==
  /\ ~ torn
  /\ \E q \in issued, status \in ResultStatus, sound, retryable \in BOOLEAN :
       LET r == [node |-> q[1], attempt |-> q[2], status |-> status,
                 sound |-> sound, retryable |-> retryable]
       IN  /\ ValidateStageResult(file, r)
           /\ Begin(p, "complete", ApplyStageResult(file, r), {}, <<q[1], q[2]>>)
  /\ UNCHANGED inits

\* retryNode up to line 144
LoadForRetry(p) ==
  /\ ~ torn
  /\ \E n \in Node : /\ CanRetry(file, n)
                     /\ Begin(p, "retry", PrepareRetry(file, n), {}, <<>>)
  /\ UNCHANGED inits

\* One request file, runScheduler line 113.  A file of an earlier dispatch of
\* the same request is replaced.
WriteRequest(p) ==
  /\ pc[p] = "requests"
  /\ \E q \in todo[p] : /\ issued' = issued \cup {<<q[1], q[2], owner[p]>>}
                        /\ todo' = [todo EXCEPT ![p] = @ \ {q}]
  /\ UNCHANGED <<file, serial, torn, pc, command, owner, next, answer, accepted, inits, crashes>>

\* Mutant: dag.json is written before the request files.
TruncateEarly(p) ==
  /\ pc[p] = "requests"
  /\ torn' = TRUE
  /\ pc' = [q \in Proc |-> IF q = p \/ pc[q] = "overlapping" THEN "truncated" ELSE pc[q]]
  /\ UNCHANGED <<file, serial, issued, local, accepted, inits, crashes>>

\* writeJson opens dag.json with the flag "w": its content is gone.
Truncate(p) ==
  /\ pc[p] = "requests"
  /\ todo[p] = {}
  /\ torn' = TRUE
  /\ pc' = [q \in Proc |-> IF q = p \/ pc[q] = "overlapping" THEN "truncated" ELSE pc[q]]
  /\ UNCHANGED <<file, serial, issued, local, accepted, inits, crashes>>

\* writeJson fills it, the command ends and reports success.  Where another
\* process has filled the file meanwhile and wrote more, its tail remains.
Fill(p) ==
  /\ pc[p] \in {"truncated", "overlapping"}
  /\ file' = next[p]
  /\ torn' \in (IF pc[p] = "overlapping" THEN BOOLEAN ELSE {FALSE})
  /\ pc' = [q \in Proc |-> IF q = p THEN "idle"
                           ELSE IF pc[q] = "truncated" THEN "overlapping" ELSE pc[q]]
  /\ accepted' = CASE command[p] = "init" -> {}
                   [] command[p] = "complete" -> accepted \cup {answer[p]}
                   [] OTHER -> accepted
  /\ Forget(p)
  /\ UNCHANGED <<serial, issued, inits, crashes>>

\* The process is killed; the file stays as it is.
Crash(p) ==
  /\ pc[p] # "idle"
  /\ crashes < MaxCrashes[serial]
  /\ crashes' = crashes + 1
  /\ pc' = [pc EXCEPT ![p] = "idle"]
  /\ Forget(p)
  /\ UNCHANGED <<file, serial, torn, issued, accepted, inits>>

Next ==
  \E p \in Proc :
    \/ InitTask(p) \/ LoadForRun(p) \/ LoadForComplete(p) \/ LoadForRetry(p)
    \/ WriteRequest(p) \/ Truncate(p) \/ Fill(p) \/ Crash(p)

Spec == Init /\ [][Next]_vars

-----------------------------------------------------------------------------
\* The type invariant: what the file and the memory of the commands can hold.
TypeOK ==
  /\ IsDocument(file)
  /\ serial \in BOOLEAN /\ torn \in BOOLEAN
  /\ issued \subseteq Node \X Nat \X Owner
  /\ pc \in [Proc -> Step]
  /\ command \in [Proc -> Command]
  /\ owner \in [Proc -> Owner]
  /\ DOMAIN next = Proc /\ \A p \in Proc : IsDocument(next[p])
  /\ todo \in [Proc -> SUBSET (Node \X Nat)]
  /\ answer \in [Proc -> {<<>>} \cup Node \X Nat]
  /\ accepted \subseteq Node \X Nat
  /\ inits \in Nat /\ crashes \in Nat

(* Whatever the commands do to each other - overwritten documents, killed  *)
(* processes, stale copies written late - a dag.json that can be parsed is *)
(* a legal document: dependency order, pool limits, request ledger, retry  *)
(* budget and worktree isolation hold in it.                               *)
FileLegal == ~ torn => DocumentInv(file)

(* No request is lost: a request that dag.json has on record, which the    *)
(* scheduler will never send again, has its request file, because          *)
(* runScheduler writes the request files first; and no interleaving gets a *)
(* node more request identities than its retry limit allows.               *)
NoRequestLost ==
  /\ ~ torn => \A q \in DOMAIN file.requests :
                 \E o \in Owner : <<q[1], q[2], o>> \in issued
  /\ \A q \in issued : q[2] <= MaxRetries[q[1]] + 1

(* Accepted results are kept: once parallel:complete has reported a result *)
(* as accepted, dag.json does not show the request as open any more, up to *)
(* the next parallel:init.  Killed processes do not change that, but it    *)
(* takes users who run one command at a time: otherwise a command that has *)
(* read the file before writes its old copy back.                          *)
AcceptedIsKept ==
  serial /\ ~ torn => \A q \in accepted :
              q \in DOMAIN file.requests /\ file.requests[q] # "queued"

(* For such users the file is the log of requests that the schedulers take *)
(* it for: no write of dag.json drops, reopens or resends a request, and   *)
(* only parallel:init starts it anew.                                      *)
Log == INSTANCE RequestLog WITH
         requests <- file.requests, run <- inits, Answer <- ResultStatus

InitIsWritten == \E p \in Proc : command[p] = "init" /\ Fill(p)

SerialLog ==
  /\ Log!Init
  /\ [][serial /\ file'.requests # file.requests =>
          IF InitIsWritten THEN file'.requests = Log!NoRequest
          ELSE Log!Follows(file.requests, file'.requests)]_vars

(* And for them the commands are atomic: the document in dag.json is only  *)
(* ever replaced by one that a command computes from it, as if reading,    *)
(* computing and writing were one step and a killed command had not been   *)
(* run at all - the granularity Scheduler.tla assumes of runScheduler,     *)
(* applyResultFile, retryNode and parallel-init.                           *)
CommandFrom(s, d) ==
  \/ d = InitialDocument
  \/ \E o \in Owner, change \in BOOLEAN :
       \E outcome \in ScheduleRunnableNodes(s, o, change) : d = outcome.document
  \/ \E n \in Node, status \in ResultStatus, sound, retryable \in BOOLEAN :
       LET r == [node |-> n, attempt |-> s.attempt[n], status |-> status,
                 sound |-> sound, retryable |-> retryable]
       IN  ValidateStageResult(s, r) /\ d = ApplyStageResult(s, r)
  \/ \E n \in Node : CanRetry(s, n) /\ d = PrepareRetry(s, n)

SerialCommandsAreAtomic == [][serial => UNCHANGED file \/ CommandFrom(file, file')]_vars
=============================================================================
