---------------------------- MODULE ControlPlane ----------------------------
(***************************************************************************)
(* The HTTP server of the control plane (server.mjs) over the approvals of *)
(* one task.  A handler is a sequence of steps between the points where it *)
(* awaits something; the server, the clients and the child processes move  *)
(* between them.                                                           *)
(***************************************************************************)
EXTENDS Approvals

CONSTANTS MaxOutside   \* bound on runs of approval-request and later starts of the server

ASSUME ServerConstants ==
  /\ MaxOutside \in Nat
  /\ Decision \cap {"run", "stream", "read"} = {}

VARIABLES
  phase,       \* serving, draining, ending (pool.end under way), closed, down
  restarts,
  kind,        \* what a request asks for
  pc,          \* where its handler is
  link,        \* its connection: none, open, gone
  answer,      \* what its client was answered
  sse,         \* sseClients
  audit        \* the audit file: <<request, "requested" or "decided">>

serverVars == <<phase, restarts, kind, pc, link, answer, sse, audit>>
vars == <<approvalVars, serverVars>>

Request == Process

Kinds == Decision \cup {"run", "stream", "read"}

\* Handlers that are still to do something; "lost" waits for a body whose
\* client left before the handler began to listen.
Handling == {"loading", "body", "child", "rereading"}

Alive == phase # "down"

-----------------------------------------------------------------------------
Init ==
  /\ InitApprovals
  /\ phase = "serving"
  /\ restarts = 0
  /\ kind = [r \in Request |-> None]
  /\ pc = [r \in Request |-> "idle"]
  /\ link = [r \in Request |-> "none"]
  /\ answer = [r \in Request |-> "none"]
  /\ sse = {}
  /\ audit = {}

\* send: nobody hears it when the connection is gone.
Send(r, a) ==
  /\ pc' = [pc EXCEPT ![r] = "finished"]
  /\ link' = [link EXCEPT ![r] = "none"]
  /\ answer' = [answer EXCEPT ![r] = IF link[r] = "open" THEN a ELSE @]

Continue(r, where) ==
  /\ pc' = [pc EXCEPT ![r] = where]
  /\ UNCHANGED <<link, answer>>

\* The synchronous start of a handler, for a request that passes the checks of
\* origin and token.
Arrive(r, k) ==
  /\ phase = "serving"
  /\ pc[r] = "idle"
  /\ kind' = [kind EXCEPT ![r] = k]
  /\ link' = [link EXCEPT ![r] = "open"]
  /\ pc' = [pc EXCEPT ![r] = IF k = "stream" THEN "streaming" ELSE "loading"]
  /\ sse' = IF k = "stream" THEN sse \cup {r} ELSE sse
  /\ UNCHANGED <<approvalVars, phase, restarts, answer, audit>>

\* A request refused at once: origin, token, task id, or a draining server.
Refuse(r) ==
  /\ phase \in {"serving", "draining"}
  /\ pc[r] = "idle"
  /\ pc' = [pc EXCEPT ![r] = "finished"]
  /\ answer' = [answer EXCEPT ![r] = "refused"]
  /\ UNCHANGED <<approvalVars, phase, restarts, kind, link, sse, audit>>

\* A query fails for ever while the pool is being ended, and any time by itself.
QueryMayWork == phase # "ending" \/ store = "filesystem"

-----------------------------------------------------------------------------
\* The read model answers: task found, not found, or the query fails.
LoadFails(r) ==
  /\ Alive /\ pc[r] = "loading"
  /\ Send(r, "failed")
  /\ UNCHANGED <<approvalVars, phase, restarts, kind, sse, audit>>

LoadRead(r) ==
  /\ Alive /\ pc[r] = "loading"
  /\ QueryMayWork
  /\ Send(r, "refused") \/ (kind[r] = "read" /\ Send(r, "ok"))
  /\ UNCHANGED <<approvalVars, phase, restarts, kind, sse, audit>>

\* POST run: audit record, detached child, 202.
LoadRun(r) ==
  /\ Alive /\ pc[r] = "loading"
  /\ QueryMayWork
  /\ kind[r] = "run"
  /\ audit' = audit \cup {<<r, "requested">>}
  /\ proc' = [proc EXCEPT ![r] = Child("scheduling", None, 0)]
  /\ Send(r, "ok")
  /\ UNCHANGED <<store, file, rows, events, asking, asks, phase, restarts, kind, sse>>

\* POST approvals: now the handler listens for the body.
LoadApproval(r) ==
  /\ Alive /\ pc[r] = "loading"
  /\ QueryMayWork
  /\ kind[r] \in Decision
  /\ IF link[r] = "open" THEN Continue(r, "body")
                         ELSE Continue(r, "body") \/ Continue(r, "lost")
  /\ UNCHANGED <<approvalVars, phase, restarts, kind, sse, audit>>

\* A body that is invalid, too large or broken off; or the audit append fails.
BodyFails(r) ==
  /\ Alive /\ pc[r] = "body"
  /\ Send(r, "refused") \/ Send(r, "failed")
  /\ UNCHANGED <<approvalVars, phase, restarts, kind, sse, audit>>

\* Mutant: the child is spawned although the audit record was not written.
BodyReadUnaudited(r) ==
  /\ Alive /\ pc[r] = "body"
  /\ link[r] = "open"
  /\ audit' \in {audit, audit \cup {<<r, "requested">>}}
  /\ proc' = [proc EXCEPT ![r] = Child("deciding", kind[r], 0)]
  /\ Continue(r, "child")
  /\ UNCHANGED <<store, file, rows, events, asking, asks, phase, restarts, kind, sse>>

BodyRead(r) ==
  /\ Alive /\ pc[r] = "body"
  /\ link[r] = "open"
  /\ audit' = audit \cup {<<r, "requested">>}
  /\ proc' = [proc EXCEPT ![r] = Child("deciding", kind[r], 0)]
  /\ Continue(r, "child")
  /\ UNCHANGED <<store, file, rows, events, asking, asks, phase, restarts, kind, sse>>

\* Mutant: the exit code of the child is not looked at.
ChildClosedAnyCode(r) ==
  /\ Alive /\ pc[r] = "child"
  /\ Ended(r)
  /\ Continue(r, "rereading")
  /\ UNCHANGED <<approvalVars, phase, restarts, kind, sse, audit>>

\* Mutant: a child that fails is not reacted to.
ChildClosedOnSuccess(r) ==
  /\ Alive /\ pc[r] = "child"
  /\ proc[r].pc = "done"
  /\ Continue(r, "rereading")
  /\ UNCHANGED <<approvalVars, phase, restarts, kind, sse, audit>>

ChildClosed(r) ==
  /\ Alive /\ pc[r] = "child"
  /\ Ended(r)
  /\ IF proc[r].pc = "done" THEN Continue(r, "rereading") ELSE Send(r, "failed")
  /\ UNCHANGED <<approvalVars, phase, restarts, kind, sse, audit>>

\* The task is read again; outcome record, event to the streams, 200.
Reread(r) ==
  /\ Alive /\ pc[r] = "rereading"
  /\ QueryMayWork
  /\ audit' = audit \cup {<<r, "decided">>}
  /\ Send(r, "ok")
  /\ UNCHANGED <<approvalVars, phase, restarts, kind, sse>>

-----------------------------------------------------------------------------
\* A client goes away, or requestTimeout breaks off a request without its body.
HangUp(r) ==
  /\ link[r] = "open"
  /\ link' = [link EXCEPT ![r] = "gone"]
  /\ pc' = [pc EXCEPT ![r] = IF @ = "streaming" THEN "finished" ELSE @]
  /\ sse' = sse \ {r}
  /\ UNCHANGED <<approvalVars, phase, restarts, kind, answer, audit>>

\* shutdown: the streams are ended, the server takes no new connection.
Shutdown ==
  /\ phase = "serving"
  /\ phase' = "draining"
  /\ sse' = {}
  /\ pc' = [r \in Request |-> IF pc[r] = "streaming" THEN "finished" ELSE pc[r]]
  /\ link' = [r \in Request |-> IF pc[r] = "streaming" THEN "none" ELSE link[r]]
  /\ UNCHANGED <<approvalVars, restarts, kind, answer, audit>>

\* All connections have ended by themselves.
ServerClosed ==
  /\ phase = "draining"
  /\ \A r \in Request : link[r] # "open"
  /\ phase' = "ending"
  /\ UNCHANGED <<approvalVars, restarts, kind, pc, link, answer, sse, audit>>

\* shutdownTimeoutMs: the connections are closed under the handlers.
\* Mutant: without the timer.
TimerNever == FALSE /\ UNCHANGED vars

Timer ==
  /\ phase = "draining"
  /\ phase' = "ending"
  /\ link' = [r \in Request |-> IF link[r] = "open" THEN "gone" ELSE link[r]]
  /\ UNCHANGED <<approvalVars, restarts, kind, pc, answer, sse, audit>>

PoolEnded ==
  /\ phase = "ending"
  /\ phase' = "closed"
  /\ UNCHANGED <<approvalVars, restarts, kind, pc, link, answer, sse, audit>>

\* The process ends: nothing left to do, killed, or a rejection nobody handles
\* (Reread).  The supervisor may take the children along.
Down(killed) ==
  /\ phase' = "down"
  /\ pc' = [r \in Request |-> IF pc[r] = "idle" THEN "idle" ELSE "finished"]
  /\ link' = [r \in Request |-> "none"]
  /\ sse' = {}
  /\ proc' = [p \in Process |-> IF p \in killed /\ Running(p)
                                THEN [proc[p] EXCEPT !.pc = "failed"] ELSE proc[p]]
  /\ UNCHANGED <<store, file, rows, events, asking, asks, restarts, kind, answer, audit>>

ProcessEnds ==
  /\ phase = "closed"
  /\ \A r \in Request : pc[r] \notin Handling
  /\ Down({})

Crash == Alive /\ \E killed \in SUBSET Process : Down(killed)

\* child.on("close", async ...): its rejection is unhandled and ends the process.
RereadFails(r) ==
  /\ Alive /\ pc[r] = "rereading"
  /\ Down({})

Restart ==
  /\ phase = "down"
  /\ asks + restarts < MaxOutside
  /\ restarts' = restarts + 1
  /\ phase' = "serving"
  /\ UNCHANGED <<approvalVars, kind, pc, link, answer, sse, audit>>

-----------------------------------------------------------------------------
Handle(r) ==
  \/ LoadFails(r) \/ LoadRead(r) \/ LoadRun(r) \/ LoadApproval(r)
  \/ BodyFails(r) \/ BodyRead(r)
  \/ ChildClosed(r) \/ Reread(r) \/ RereadFails(r)

Approving ==
  /\ (Ask /\ asks + restarts < MaxOutside) \/ AskEnds \/ \E p \in Process : ChildStep(p)
  /\ UNCHANGED serverVars

Next ==
  \/ \E r \in Request, k \in Kinds : Arrive(r, k)
  \/ \E r \in Request : Refuse(r) \/ Handle(r) \/ HangUp(r)
  \/ Shutdown \/ ServerClosed \/ Timer \/ PoolEnded \/ ProcessEnds \/ Crash \/ Restart
  \/ Approving

Spec == Init /\ [][Next]_vars

-----------------------------------------------------------------------------
TypeOK ==
  /\ store \in {"filesystem", "postgres"}
  /\ file \in Approval \cup {None, Torn}
  /\ rows \in Seq(Approval) /\ events \in Seq(Approval)
  /\ asking \in BOOLEAN /\ asks \in Nat
  /\ proc \in [Process -> [pc : DecideSteps \cup RunSteps \cup {"none", "done", "failed"},
                           decision : Decision \cup {"pending", None},
                           row : Nat]]
  /\ \A p \in Process : proc[p].pc \in {"updating", "updated"} => proc[p].row \in 1..Len(rows)
  /\ phase \in {"serving", "draining", "ending", "closed", "down"}
  /\ restarts \in Nat
  /\ kind \in [Request -> Kinds \cup {None}]
  /\ pc \in [Request -> Handling \cup {"idle", "streaming", "lost", "finished"}]
  /\ link \in [Request -> {"none", "open", "gone"}]
  /\ answer \in [Request -> {"none", "ok", "refused", "failed"}]
  /\ sse \subseteq Request
  /\ audit \subseteq Request \X {"requested", "decided"}

\* "every run and approval mutation writes a credential-free JSONL audit event"
\* (docs/control-plane/security.md:21): whatever a child does was announced
\* before, and a decision is only reported when its child succeeded.
AuditTrail ==
  \A r \in Request :
    /\ proc[r].pc # "none" => <<r, "requested">> \in audit
    /\ <<r, "decided">> \in audit => proc[r].pc = "done" /\ kind[r] \in Decision

\* A client that reads 200 has decided: in postgres a row holds its decision and
\* no other, however many decided at once.
AnsweredMeansDecided ==
  \A r \in Request :
    answer[r] = "ok" /\ kind[r] \in Decision =>
      /\ <<r, "decided">> \in audit
      /\ store = "postgres" =>
           \E i \in 1..Len(rows) : rows[i] = [decision |-> kind[r], by |-> r]

\* Table and event log agree on the decisions made here, even when children are
\* killed: one transaction writes both.
DecisionsAreRecorded ==
  /\ \A i \in 1..Len(rows) :
       rows[i].by # None => \E j \in 1..Len(events) : events[j] = rows[i]
  /\ \A j \in 1..Len(events) :
       events[j].by # None => \E i \in 1..Len(rows) : rows[i] = events[j]

\* The server writes to the streams that are open and to no other, and a server
\* that is shutting down has none left that could hold it.
StreamsAreLive ==
  /\ sse = {r \in Request : pc[r] = "streaming"}
  /\ phase # "serving" => sse = {}

\* Rounds are decided at most once, whatever processes overlap: the table
\* implements the abstract ledger.
Ledger == INSTANCE ApprovalLedger WITH ledger <- rows
LedgerSpec == Ledger!Spec

-----------------------------------------------------------------------------
(* The database answers or refuses, Node's timers fire.  Nothing is assumed *)
(* of clients or of children, which have no timeout.                        *)
Fairness ==
  /\ \A r \in Request :
       /\ WF_vars(LoadFails(r) \/ LoadRead(r) \/ LoadRun(r) \/ LoadApproval(r))
       /\ WF_vars(pc[r] = "body" /\ HangUp(r))
       /\ WF_vars(link[r] = "gone" /\ BodyFails(r))
       /\ WF_vars(ChildClosed(r))
       /\ WF_vars(Reread(r) \/ RereadFails(r))
  /\ WF_vars(Timer)
  /\ WF_vars(PoolEnded)

FairSpec == Spec /\ Fairness

\* shutdown ends, whatever clients and children do: the timer does not wait.
ShutdownCompletes == phase = "draining" ~> phase \in {"closed", "down"}

\* A handler never rests half-way: it answers, or its client has left, or its
\* child is still running.
HandlersSettle ==
  \A r \in Request :
    (pc[r] \in {"loading", "body", "rereading"} \/ (pc[r] = "child" /\ Ended(r)))
      ~> (pc[r] \in {"finished", "lost"} \/ (pc[r] = "child" /\ Running(r)))
=============================================================================
