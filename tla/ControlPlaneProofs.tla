------------------------- MODULE ControlPlaneProofs -------------------------
(***************************************************************************)
(* Proofs about ControlPlane, for any number of requests, any decisions    *)
(* and any number of restarts and new rounds.                              *)
(***************************************************************************)
EXTENDS ControlPlane, SequenceTheorems, TLAPS

\* What the handler of a request knows of its child.
HandlerInv ==
  \A r \in Request :
    /\ pc[r] \in {"idle", "loading", "body", "lost", "streaming"} => proc[r].pc = "none"
    /\ pc[r] \in {"body", "child", "rereading"} => kind[r] \in Decision
    /\ pc[r] = "rereading" => proc[r].pc = "done"
    /\ proc[r].pc # "none" => <<r, "requested">> \in audit
    /\ <<r, "decided">> \in audit => proc[r].pc = "done" /\ kind[r] \in Decision
    /\ answer[r] = "ok" /\ kind[r] \in Decision => <<r, "decided">> \in audit
    /\ answer[r] # "none" => pc[r] = "finished"

\* What a child in the middle of its work relies on.
ChildInv ==
  \A p \in Process :
    /\ proc[p].pc \in DecideSteps => kind[p] \in Decision /\ proc[p].decision = kind[p]
    /\ proc[p].pc \in RunSteps => kind[p] = "run"
    /\ proc[p].pc \in {"read", "writing"} => store = "filesystem"
    /\ proc[p].pc \in {"updating", "updated", "committed", "importing", "imported"}
         => store = "postgres"
    /\ proc[p].pc = "imported" => proc[p].decision \in Decision \cup {"pending"}
    /\ proc[p].pc = "updated" => rows[proc[p].row].decision = "pending"
    /\ \A q \in Process \ {p} :
         proc[p].pc = "updated" /\ proc[q].pc = "updated" => proc[p].row # proc[q].row

\* Who is named in a row, and that a decision that was committed is still there.
RowInv ==
  /\ store = "postgres" /\ Readable(file) => file.by = None
  /\ \A i \in 1..Len(rows) :
       /\ rows[i].decision = "pending" => rows[i].by = None
       /\ rows[i].by # None => proc[rows[i].by].pc \in {"committed", "done", "failed"}
  /\ \A p \in Process :
       store = "postgres" /\ kind[p] \in Decision /\ proc[p].pc \in {"committed", "done"}
         => \E i \in 1..Len(rows) : rows[i] = [decision |-> kind[p], by |-> p]

IInv ==
  /\ TypeOK /\ HandlerInv /\ ChildInv /\ RowInv
  /\ DecisionsAreRecorded /\ StreamsAreLive

\* The rows of the table and the events are approvals.
LEMMA RowTyped ==
  ASSUME TypeOK
  PROVE  /\ \A i \in 1..Len(rows) : rows[i] \in Approval /\ rows[i].by \in Process \cup {None}
         /\ \A j \in 1..Len(events) : events[j] \in Approval
<1>1. rows \in Seq(Approval) /\ events \in Seq(Approval)
  BY DEF TypeOK
<1>2. \A i \in 1..Len(rows) : rows[i] \in Approval
  BY <1>1, ElementOfSeq
<1>3. \A j \in 1..Len(events) : events[j] \in Approval
  BY <1>1, ElementOfSeq
<1> QED
  BY <1>2, <1>3 DEF Approval

-----------------------------------------------------------------------------
(* The steps of Next, by what they touch. *)

ServerStep(r) ==
  \/ \E k \in Kinds : Arrive(r, k)
  \/ Refuse(r) \/ LoadFails(r) \/ LoadRead(r) \/ LoadApproval(r) \/ BodyFails(r)
  \/ ChildClosed(r) \/ Reread(r) \/ HangUp(r)

PhaseStep == Shutdown \/ ServerClosed \/ Timer \/ PoolEnded \/ Restart

LEMMA NextCases ==
  ASSUME Next
  PROVE  \/ \E r \in Request : ServerStep(r) \/ LoadRun(r) \/ BodyRead(r)
         \/ PhaseStep
         \/ \E killed \in SUBSET Process : Down(killed)
         \/ Approving
BY DEF Next, Handle, ServerStep, PhaseStep, RereadFails, ProcessEnds, Crash

\* The initial states satisfy the invariant.
LEMMA InitIInv == Init => IInv
<1> SUFFICES ASSUME Init PROVE IInv
  OBVIOUS
<1> USE DEF Init, InitApprovals
<1>1. Pending \in Approval /\ Pending.by = None
  BY DEF Pending, Approval
<1>2. file \in Approval \cup {None, Torn} /\ (Readable(file) => file.by = None)
  BY <1>1 DEF Approval, Readable
<1>3. rows = <<>> \/ (Readable(file) /\ rows = <<file>>)
  OBVIOUS
<1>4. rows \in Seq(Approval) /\ events = rows /\ \A i \in 1..Len(rows) : rows[i].by = None
  <2>1. CASE rows = <<>>
    BY <2>1
  <2>2. CASE Readable(file) /\ rows = <<file>>
    <3>1. file \in Approval /\ file.by = None
      BY <1>2, <2>2 DEF Readable
    <3> QED
      BY <2>2, <3>1
  <2> QED
    BY <1>3, <2>1, <2>2
<1>5. TypeOK
  BY <1>2, <1>4 DEF TypeOK, NoChild, Child, Handling
<1>6. HandlerInv /\ ChildInv
  BY DEF HandlerInv, ChildInv, NoChild, Child, DecideSteps, RunSteps, Request
<1>7. RowInv /\ DecisionsAreRecorded
  BY <1>2, <1>4 DEF RowInv, DecisionsAreRecorded, NoChild, Child
<1>8. StreamsAreLive
  BY DEF StreamsAreLive
<1> QED
  BY <1>5, <1>6, <1>7, <1>8 DEF IInv

-----------------------------------------------------------------------------
(* Steps of the server that leave the approvals alone. *)

LEMMA ServerKeepsType ==
  ASSUME TypeOK, NEW r \in Request, ServerStep(r)
  PROVE  TypeOK'
<1>1. UNCHANGED approvalVars
  BY DEF ServerStep, Arrive, Refuse, LoadFails, LoadRead, LoadApproval, BodyFails,
         ChildClosed, Reread, HangUp
<1>2. kind' \in [Request -> Kinds \cup {None}] /\ phase' = phase /\ restarts' = restarts
  BY DEF TypeOK, ServerStep, Arrive, Refuse, LoadFails, LoadRead, LoadApproval, BodyFails,
         ChildClosed, Reread, HangUp
<1>3. /\ pc' \in [Request -> Handling \cup {"idle", "streaming", "lost", "finished"}]
      /\ link' \in [Request -> {"none", "open", "gone"}]
      /\ answer' \in [Request -> {"none", "ok", "refused", "failed"}]
  BY DEF TypeOK, ServerStep, Arrive, Refuse, LoadFails, LoadRead, LoadApproval, BodyFails,
         ChildClosed, Reread, HangUp, Send, Continue, Handling
<1>4. sse' \subseteq Request /\ audit' \subseteq Request \X {"requested", "decided"}
  BY DEF TypeOK, ServerStep, Arrive, Refuse, LoadFails, LoadRead, LoadApproval, BodyFails,
         ChildClosed, Reread, HangUp
<1> QED
  BY <1>1, <1>2, <1>3, <1>4 DEF TypeOK, approvalVars

LEMMA ServerKeepsHandlers ==
  ASSUME TypeOK, HandlerInv, NEW r \in Request, ServerStep(r)
  PROVE  HandlerInv'
<1> USE DEF TypeOK
<1>1. proc' = proc
  BY DEF ServerStep, Arrive, Refuse, LoadFails, LoadRead, LoadApproval, BodyFails,
         ChildClosed, Reread, HangUp, approvalVars
<1> SUFFICES ASSUME NEW q \in Request
             PROVE  HandlerInv!(q)'
  BY DEF HandlerInv
<1>2. HandlerInv!(q) /\ HandlerInv!(r)
  BY DEF HandlerInv
<1>3. ASSUME NEW k \in Kinds, Arrive(r, k) PROVE HandlerInv!(q)'
  BY <1>1, <1>2, <1>3 DEF Arrive
<1>4. CASE Refuse(r)
  BY <1>1, <1>2, <1>4 DEF Refuse
<1>5. CASE LoadFails(r) \/ BodyFails(r)
  BY <1>1, <1>2, <1>5 DEF LoadFails, BodyFails, Send
<1>6. CASE LoadRead(r)
  BY <1>1, <1>2, <1>6, ServerConstants DEF LoadRead, Send
<1>7. CASE LoadApproval(r)
  BY <1>1, <1>2, <1>7 DEF LoadApproval, Continue
<1>8. CASE ChildClosed(r)
  BY <1>1, <1>2, <1>8 DEF ChildClosed, Continue, Send
<1>9. CASE Reread(r)
  BY <1>1, <1>2, <1>9 DEF Reread, Send
<1>10. CASE HangUp(r)
  BY <1>1, <1>2, <1>10 DEF HangUp
<1> QED
  BY <1>3, <1>4, <1>5, <1>6, <1>7, <1>8, <1>9, <1>10 DEF ServerStep

LEMMA ServerKeepsStreams ==
  ASSUME TypeOK, StreamsAreLive, NEW r \in Request, ServerStep(r)
  PROVE  StreamsAreLive'
<1> USE DEF TypeOK, StreamsAreLive
<1>1. ASSUME NEW k \in Kinds, Arrive(r, k) PROVE StreamsAreLive'
  BY <1>1 DEF Arrive
<1>2. CASE Refuse(r)
  BY <1>2 DEF Refuse
<1>3. CASE LoadFails(r) \/ LoadRead(r) \/ BodyFails(r) \/ Reread(r)
  BY <1>3 DEF LoadFails, LoadRead, BodyFails, Reread, Send
<1>4. CASE LoadApproval(r)
  BY <1>4 DEF LoadApproval, Continue
<1>5. CASE ChildClosed(r)
  BY <1>5 DEF ChildClosed, Continue, Send
<1>6. CASE HangUp(r)
  BY <1>6 DEF HangUp
<1> QED
  BY <1>1, <1>2, <1>3, <1>4, <1>5, <1>6 DEF ServerStep

\* A request that changes its kind is idle and has no child yet.
LEMMA ServerKeepsStore ==
  ASSUME TypeOK, HandlerInv, ChildInv, RowInv, DecisionsAreRecorded,
         NEW r \in Request, ServerStep(r)
  PROVE  ChildInv' /\ RowInv' /\ DecisionsAreRecorded'
<1>1. UNCHANGED approvalVars
  BY DEF ServerStep, Arrive, Refuse, LoadFails, LoadRead, LoadApproval, BodyFails,
         ChildClosed, Reread, HangUp
<1>2. \A q \in Process : kind'[q] = kind[q] \/ proc[q].pc = "none"
  BY DEF TypeOK, HandlerInv, ServerStep, Arrive, Refuse, LoadFails, LoadRead,
         LoadApproval, BodyFails, ChildClosed, Reread, HangUp, Request
<1>3. ChildInv'
  BY <1>1, <1>2 DEF ChildInv, approvalVars, DecideSteps, RunSteps, Request
<1>4. RowInv'
  BY <1>1, <1>2 DEF RowInv, approvalVars
<1>5. DecisionsAreRecorded'
  BY <1>1 DEF DecisionsAreRecorded, approvalVars
<1> QED
  BY <1>3, <1>4, <1>5

LEMMA ServerKeepsIInv ==
  ASSUME IInv, NEW r \in Request, ServerStep(r)
  PROVE  IInv'
BY ServerKeepsType, ServerKeepsHandlers, ServerKeepsStreams, ServerKeepsStore DEF IInv

\* Shutdown, its end, and the next start.
LEMMA PhaseKeepsIInv ==
  ASSUME IInv, PhaseStep
  PROVE  IInv'
<1> USE DEF PhaseStep, Shutdown, ServerClosed, Timer, PoolEnded, Restart
<1>1. UNCHANGED approvalVars /\ UNCHANGED <<kind, answer, audit>>
  OBVIOUS
<1>2. TypeOK'
  <2>1. /\ phase' \in {"serving", "draining", "ending", "closed", "down"}
        /\ restarts' \in Nat
        /\ sse' \subseteq Request
    BY DEF IInv, TypeOK
  <2>2. /\ pc' \in [Request -> Handling \cup {"idle", "streaming", "lost", "finished"}]
        /\ link' \in [Request -> {"none", "open", "gone"}]
    BY DEF IInv, TypeOK
  <2> QED
    BY <1>1, <2>1, <2>2 DEF IInv, TypeOK, approvalVars
<1>3. \A r \in Request : pc'[r] = pc[r] \/ (pc[r] = "streaming" /\ pc'[r] = "finished")
  BY DEF IInv, TypeOK
<1>4. HandlerInv'
  BY <1>1, <1>3 DEF IInv, HandlerInv, approvalVars
<1>5. ChildInv' /\ RowInv' /\ DecisionsAreRecorded'
  BY <1>1 DEF IInv, ChildInv, RowInv, DecisionsAreRecorded, approvalVars
<1>6. StreamsAreLive'
  BY DEF IInv, TypeOK, StreamsAreLive
<1> QED
  BY <1>2, <1>4, <1>5, <1>6 DEF IInv

\* The process ends: every handler is over, and some children may be killed.
LEMMA DownKeepsIInv ==
  ASSUME IInv, NEW killed \in SUBSET Process, Down(killed)
  PROVE  IInv'
<1> USE DEF Down
<1>1. UNCHANGED <<store, file, rows, events, asking, asks, restarts, kind, answer, audit>>
  OBVIOUS
<1>2. \A p \in Process :
        \/ proc'[p] = proc[p]
        \/ Running(p) /\ proc'[p] = [proc[p] EXCEPT !.pc = "failed"]
  OBVIOUS
<1>3. TypeOK'
  <2>1. proc' \in [Process -> [pc : DecideSteps \cup RunSteps \cup {"none", "done", "failed"},
                               decision : Decision \cup {"pending", None},
                               row : Nat]]
    BY DEF IInv, TypeOK
  <2> QED
    BY <1>1, <1>2, <2>1 DEF IInv, TypeOK
<1>4. \A p \in Process :
        \/ proc'[p] = proc[p]
        \/ proc[p].pc \in DecideSteps \cup RunSteps /\ proc'[p].pc = "failed"
  BY <1>2 DEF IInv, TypeOK, Running
<1>5. HandlerInv'
  BY <1>1, <1>4 DEF IInv, TypeOK, HandlerInv, DecideSteps, RunSteps, Request
<1>6. ChildInv'
  BY <1>1, <1>4 DEF IInv, ChildInv, DecideSteps, RunSteps
<1>7. RowInv'
  <2>1. ASSUME NEW i \in 1..Len(rows), rows[i].by # None
        PROVE  proc'[rows[i].by].pc \in {"committed", "done", "failed"}
    <3>1. rows[i].by \in Process
      BY <2>1, RowTyped DEF IInv
    <3> QED
      BY <1>4, <2>1, <3>1 DEF IInv, RowInv
  <2>2. \A p \in Process : proc'[p].pc \in {"committed", "done"} => proc'[p].pc = proc[p].pc
    BY <1>4
  <2> QED
    BY <1>1, <2>1, <2>2 DEF IInv, RowInv, Readable
<1>8. DecisionsAreRecorded' /\ StreamsAreLive'
  BY <1>1 DEF IInv, DecisionsAreRecorded, StreamsAreLive
<1> QED
  BY <1>3, <1>5, <1>6, <1>7, <1>8 DEF IInv

-----------------------------------------------------------------------------
(* A request spawns its child: after the audit record, and once. *)

LEMMA SpawnKeepsIInv ==
  ASSUME IInv, NEW r \in Request, LoadRun(r) \/ BodyRead(r)
  PROVE  IInv'
<1> USE DEF Request
<1>1. /\ UNCHANGED <<store, file, rows, events, asking, asks, phase, restarts, kind, sse>>
      /\ audit' = audit \cup {<<r, "requested">>}
      /\ pc[r] \in {"loading", "body"} /\ proc[r].pc = "none"
  BY DEF IInv, HandlerInv, LoadRun, BodyRead
<1>2. \/ kind[r] = "run" /\ proc' = [proc EXCEPT ![r] = Child("scheduling", None, 0)]
      \/ kind[r] \in Decision /\ proc' = [proc EXCEPT ![r] = Child("deciding", kind[r], 0)]
  BY DEF IInv, HandlerInv, LoadRun, BodyRead
<1>3. \/ pc' = [pc EXCEPT ![r] = "finished"] /\ kind[r] = "run"
      \/ pc' = [pc EXCEPT ![r] = "child"] /\ kind[r] \in Decision /\ answer' = answer
  BY DEF IInv, HandlerInv, LoadRun, BodyRead, Send, Continue
<1>4. /\ \A q \in Request \ {r} : answer'[q] = answer[q]
      /\ answer' \in [Request -> {"none", "ok", "refused", "failed"}]
      /\ link' \in [Request -> {"none", "open", "gone"}]
  BY DEF IInv, TypeOK, LoadRun, BodyRead, Send, Continue
<1>5. proc' \in [Process -> [pc : DecideSteps \cup RunSteps \cup {"none", "done", "failed"},
                             decision : Decision \cup {"pending", None},
                             row : Nat]]
  <2>1. \A c \in {Child("scheduling", None, 0), Child("deciding", kind[r], 0)} :
          kind[r] \in Decision \/ c = Child("scheduling", None, 0) =>
            c \in [pc : DecideSteps \cup RunSteps \cup {"none", "done", "failed"},
                  decision : Decision \cup {"pending", None},
                  row : Nat]
    BY DEF Child, DecideSteps, RunSteps
  <2> QED
    BY <1>2, <2>1 DEF IInv, TypeOK
<1>6. /\ \A p \in Process \ {r} : proc'[p] = proc[p]
      /\ \/ kind[r] = "run" /\ proc'[r].pc = "scheduling"
         \/ kind[r] \in Decision /\ proc'[r].pc = "deciding" /\ proc'[r].decision = kind[r]
  BY <1>2 DEF IInv, TypeOK, Child
<1>7. TypeOK'
  <2>1. pc' \in [Request -> Handling \cup {"idle", "streaming", "lost", "finished"}]
    BY <1>3 DEF IInv, TypeOK, Handling
  <2>2. \A p \in Process : proc'[p].pc \in {"updating", "updated"} => proc'[p].row \in 1..Len(rows)
    BY <1>6 DEF IInv, TypeOK
  <2> QED
    BY <1>1, <1>4, <1>5, <2>1, <2>2 DEF IInv, TypeOK
<1>8. HandlerInv'
  <2> SUFFICES ASSUME NEW q \in Request
               PROVE  HandlerInv!(q)'
    BY DEF HandlerInv
  <2>1. HandlerInv!(q)
    BY DEF IInv, HandlerInv
  <2>2. CASE q = r
    BY <1>1, <1>3, <1>6, <2>1, <2>2, ServerConstants DEF IInv, TypeOK
  <2>3. CASE q # r
    BY <1>1, <1>3, <1>4, <1>6, <2>1, <2>3 DEF IInv, TypeOK
  <2> QED
    BY <2>2, <2>3
<1>9. ChildInv'
  BY <1>1, <1>6, ServerConstants DEF IInv, ChildInv, DecideSteps, RunSteps
<1>10. RowInv'
  <2>1. \A p \in Process : /\ proc'[p].pc \in {"committed", "done"} => p # r
                           /\ proc[p].pc \in {"committed", "done", "failed"} => p # r
    BY <1>1, <1>6
  <2>2. \A i \in 1..Len(rows) : rows[i].by \in Process \cup {None}
    BY RowTyped DEF IInv
  <2> QED
    BY <1>1, <1>6, <2>1, <2>2 DEF IInv, RowInv, Readable
<1>11. DecisionsAreRecorded' /\ StreamsAreLive'
  <2>1. \A q \in Request : pc'[q] = "streaming" <=> pc[q] = "streaming"
    BY <1>1, <1>3 DEF IInv, TypeOK
  <2> QED
    BY <1>1, <2>1 DEF IInv, DecisionsAreRecorded, StreamsAreLive
<1> QED
  BY <1>7, <1>8, <1>9, <1>10, <1>11 DEF IInv

-----------------------------------------------------------------------------
(* Steps of the stores and the children. *)

\* What a child is moved to: the next step of the same work, or its end.
Advances(p) ==
  /\ Running(p)
  /\ \A q \in Process \ {p} : proc'[q] = proc[q]
  /\ proc'[p].pc \in {"done", "failed"} \cup (IF proc[p].pc \in DecideSteps THEN DecideSteps
                                                                         ELSE RunSteps)

LEMMA ChildAdvances ==
  ASSUME TypeOK, NEW p \in Process, ChildStep(p)
  PROVE  Advances(p)
BY DEF TypeOK, ChildStep, ReadFile, TruncateFile, WriteFile, StartUpdate, UpdateRow, Commit,
       Exit, EndScheduler, ImportRow, ImportEvent, Die, Moves, Child, Running, Advances,
       DecideSteps, RunSteps

\* Handlers and streams do not notice: a child that has ended does not move.
LEMMA StoreKeepsHandlers ==
  ASSUME IInv, Approving
  PROVE  HandlerInv' /\ StreamsAreLive'
<1>1. UNCHANGED serverVars
  BY DEF Approving
<1>2. \A q \in Process :
        \/ proc'[q] = proc[q]
        \/ proc[q].pc \in DecideSteps \cup RunSteps /\ proc'[q].pc # "none"
  <2>1. CASE Ask \/ AskEnds
    BY <2>1 DEF Ask, AskEnds
  <2>2. ASSUME NEW p \in Process, ChildStep(p)
        PROVE  <1>2
    BY <2>2, ChildAdvances DEF IInv, Advances, Running, DecideSteps, RunSteps
  <2> QED
    BY <2>1, <2>2 DEF Approving
<1>3. \A r \in Request : proc[r].pc # "none" => <<r, "requested">> \in audit
  BY DEF IInv, HandlerInv
<1>4. HandlerInv'
  BY <1>1, <1>2, <1>3 DEF IInv, HandlerInv, serverVars, Request, DecideSteps, RunSteps
<1>5. StreamsAreLive'
  BY <1>1 DEF IInv, StreamsAreLive, serverVars
<1> QED
  BY <1>4, <1>5

ChildType == [pc : DecideSteps \cup RunSteps \cup {"none", "done", "failed"},
              decision : Decision \cup {"pending", None},
              row : Nat]

\* What TypeOK says of the stores and of the children.
StoresTyped ==
  /\ store \in {"filesystem", "postgres"}
  /\ file \in Approval \cup {None, Torn}
  /\ rows \in Seq(Approval) /\ events \in Seq(Approval)
  /\ asking \in BOOLEAN /\ asks \in Nat

ChildrenTyped ==
  /\ proc \in [Process -> ChildType]
  /\ \A p \in Process : proc[p].pc \in {"updating", "updated"} => proc[p].row \in 1..Len(rows)

\* A child that goes on to a step with no row of its own, or keeps its row.
LEMMA MovesTyped ==
  ASSUME ChildrenTyped, NEW p \in Process, NEW from, NEW to, Moves(p, from, to),
         to \in DecideSteps \cup RunSteps \cup {"none", "done", "failed"},
         to # "updating", to = "updated" => from = "updating",
         Len(rows) \in Nat, Len(rows') \in Nat, Len(rows') >= Len(rows)
  PROVE  ChildrenTyped'
<1>1. proc' = [proc EXCEPT ![p] = [proc[p] EXCEPT !.pc = to]] /\ proc[p].pc = from
  BY DEF Moves, ChildrenTyped
<1>2. [proc[p] EXCEPT !.pc = to] \in ChildType
  BY DEF ChildrenTyped, ChildType
<1>3. proc' \in [Process -> ChildType]
  BY <1>1, <1>2 DEF ChildrenTyped
<1>4. ASSUME NEW q \in Process, proc'[q].pc \in {"updating", "updated"}
      PROVE  proc'[q].row \in 1..Len(rows')
  <2>1. proc[q].pc \in {"updating", "updated"} /\ proc'[q].row = proc[q].row
    BY <1>1, <1>4 DEF ChildrenTyped, ChildType
  <2>2. proc[q].row \in 1..Len(rows)
    BY <2>1 DEF ChildrenTyped
  <2> QED
    BY <2>1, <2>2
<1> QED
  BY <1>3, <1>4 DEF ChildrenTyped

LEMMA StoreKeepsType ==
  ASSUME IInv, Approving
  PROVE  TypeOK'
<1>1. StoresTyped /\ ChildrenTyped /\ UNCHANGED serverVars
  BY DEF IInv, TypeOK, Approving, StoresTyped, ChildrenTyped, ChildType
<1>2. Pending \in Approval /\ Len(rows) \in Nat
  BY <1>1, LenProperties DEF Pending, Approval, StoresTyped
<1>3. ASSUME Ask \/ AskEnds
      PROVE  StoresTyped' /\ ChildrenTyped'
  <2>1. file' \in Approval \cup {None, Torn} /\ asking' \in BOOLEAN /\ asks' \in Nat
    <3>1. CASE Ask
      BY <1>1, <3>1 DEF Ask, StoresTyped
    <3>2. CASE AskEnds
      <4>1. file' \in {Pending, Torn} \/ file' = file
        BY <3>2 DEF AskEnds, Fill
      <4> QED
        BY <1>1, <1>2, <3>2, <4>1 DEF AskEnds, StoresTyped
    <3> QED
      BY <1>3, <3>1, <3>2
  <2>2. UNCHANGED <<store, rows, events, proc>>
    BY <1>3 DEF Ask, AskEnds
  <2> QED
    BY <1>1, <2>1, <2>2 DEF StoresTyped, ChildrenTyped
<1>4. ASSUME NEW p \in Process, ChildStep(p)
      PROVE  StoresTyped' /\ ChildrenTyped'
  <2>1. proc[p] \in ChildType
    BY <1>1 DEF ChildrenTyped
  <2>2. CASE ReadFile(p) \/ TruncateFile(p)
    <3>1. ChildrenTyped'
      BY <1>1, <1>2, <2>2, MovesTyped DEF ReadFile, TruncateFile, DecideSteps
    <3> QED
      BY <1>1, <2>2, <3>1 DEF ReadFile, TruncateFile, StoresTyped
  <2>3. CASE WriteFile(p)
    <3>1. [decision |-> proc[p].decision, by |-> p] \in Approval
      BY <2>1, <2>3 DEF WriteFile, Moves, IInv, ChildInv, DecideSteps, Approval
    <3>2. ChildrenTyped'
      BY <1>1, <1>2, <2>3, MovesTyped DEF WriteFile
    <3> QED
      BY <1>1, <2>3, <3>1, <3>2 DEF WriteFile, Fill, StoresTyped
  <2>4. CASE StartUpdate(p)
    <3>1. rows # <<>> => Len(rows) \in 1..Len(rows)
      BY <1>1, <1>2, EmptySeq DEF StoresTyped
    <3>2. ChildrenTyped'
      BY <1>1, <1>2, <2>1, <2>4, <3>1
      DEF StartUpdate, Child, ChildrenTyped, ChildType, DecideSteps
    <3> QED
      BY <1>1, <2>4, <3>2 DEF StartUpdate, StoresTyped
  <2>5. CASE UpdateRow(p)
    <3>1. ChildrenTyped'
      BY <1>1, <1>2, <2>5, MovesTyped DEF UpdateRow, DecideSteps
    <3> QED
      BY <1>1, <2>5, <3>1 DEF UpdateRow, StoresTyped
  <2>6. CASE Commit(p)
    <3> DEFINE decided == [decision |-> proc[p].decision, by |-> p]
    <3>1. decided \in Approval
      BY <2>1, <2>6 DEF Commit, Moves, IInv, ChildInv, DecideSteps, Approval
    <3>2. proc[p].row \in 1..Len(rows)
      BY <1>1, <2>6 DEF Commit, Moves, ChildrenTyped
    <3>3. rows' \in Seq(Approval) /\ Len(rows') = Len(rows)
      BY <1>1, <2>6, <3>1, <3>2, ExceptSeq DEF Commit, StoresTyped
    <3>4. events' \in Seq(Approval)
      BY <1>1, <2>6, <3>1, AppendProperties DEF Commit, StoresTyped
    <3>5. ChildrenTyped'
      BY <1>1, <1>2, <2>6, <3>3, MovesTyped DEF Commit, DecideSteps
    <3> QED
      BY <1>1, <2>6, <3>3, <3>4, <3>5 DEF Commit, StoresTyped
  <2>7. CASE Exit(p) \/ EndScheduler(p)
    <3>1. ChildrenTyped'
      BY <1>1, <1>2, <2>7, MovesTyped DEF Exit, EndScheduler, RunSteps
    <3> QED
      BY <1>1, <2>7, <3>1 DEF Exit, EndScheduler, StoresTyped
  <2>8. CASE ImportRow(p)
    <3>1. rows' \in Seq(Approval) /\ Len(rows') \in Nat /\ Len(rows') >= Len(rows)
      BY <1>1, <1>2, <2>8, AppendProperties, LenProperties DEF ImportRow, Readable, StoresTyped
    <3>2. 1..Len(rows) \subseteq 1..Len(rows')
      BY <1>2, <3>1
    <3>3. Readable(file) => file.decision \in Decision \cup {"pending"}
      BY <1>1 DEF Readable, StoresTyped, Approval
    <3>4. ChildrenTyped'
      BY <1>1, <2>1, <2>8, <3>2, <3>3 DEF ImportRow, Child, ChildrenTyped, ChildType, RunSteps
    <3> QED
      BY <1>1, <2>8, <3>1, <3>4 DEF ImportRow, StoresTyped
  <2>9. CASE ImportEvent(p)
    <3>1. [decision |-> proc[p].decision, by |-> None] \in Approval
      BY <2>9 DEF ImportEvent, Moves, IInv, ChildInv, Approval
    <3>2. events' \in Seq(Approval)
      BY <1>1, <2>9, <3>1, AppendProperties DEF ImportEvent, StoresTyped
    <3>3. ChildrenTyped'
      BY <1>1, <1>2, <2>9, MovesTyped DEF ImportEvent
    <3> QED
      BY <1>1, <2>9, <3>2, <3>3 DEF ImportEvent, StoresTyped
  <2>10. CASE Die(p)
    <3>1. Moves(p, proc[p].pc, "failed") /\ rows' = rows
      BY <2>10 DEF Die, Moves
    <3>2. ChildrenTyped'
      BY <1>1, <1>2, <3>1, MovesTyped
    <3> QED
      BY <1>1, <2>10, <3>2 DEF Die, StoresTyped
  <2> QED
    BY <1>4, <2>2, <2>3, <2>4, <2>5, <2>6, <2>7, <2>8, <2>9, <2>10 DEF ChildStep
<1>5. StoresTyped' /\ ChildrenTyped'
  BY <1>3, <1>4 DEF Approving, Ask, AskEnds
<1> QED
  BY <1>1, <1>5 DEF IInv, TypeOK, StoresTyped, ChildrenTyped, ChildType, serverVars

\* What ChildInv says of one child p that makes a step, while the others rest.
LEMMA StoreKeepsChildren ==
  ASSUME IInv, Approving
  PROVE  ChildInv'
<1>1. TypeOK /\ ChildInv /\ kind' = kind /\ store' = store
  BY DEF IInv, Approving, serverVars, Ask, AskEnds, ChildStep, ReadFile, TruncateFile,
         WriteFile, StartUpdate, UpdateRow, Commit, Exit, EndScheduler, ImportRow,
         ImportEvent, Die
<1>2. CASE Ask \/ AskEnds
  BY <1>1, <1>2 DEF Ask, AskEnds, ChildInv
<1>3. ASSUME NEW p \in Process, ChildStep(p)
      PROVE  ChildInv'
  <2>1. \A q \in Process \ {p} : proc'[q] = proc[q]
    BY <1>1, <1>3, ChildAdvances DEF Advances
  <2>2. \A q \in Process : proc[q].pc = "updated" => proc[q].row \in 1..Len(rows)
    BY <1>1 DEF TypeOK
  <2>3. \A q \in Process \ {p} : proc[q].pc = "updated" => rows'[proc[q].row] = rows[proc[q].row]
    <3>1. CASE rows' = rows
      BY <3>1
    <3>2. CASE Commit(p)
      BY <1>1, <2>2, <3>2, LenProperties DEF Commit, Moves, ChildInv, TypeOK
    <3>3. CASE ImportRow(p)
      <4>1. Readable(file) => file \in Approval
        BY <1>1 DEF TypeOK, Readable
      <4> QED
        BY <1>1, <2>2, <3>3, <4>1, AppendProperties DEF ImportRow, TypeOK
    <3> QED
      BY <1>3, <3>1, <3>2, <3>3
      DEF ChildStep, ReadFile, TruncateFile, WriteFile, StartUpdate, UpdateRow, Exit,
          EndScheduler, ImportEvent, Die
  <2>4. /\ proc'[p].pc \in DecideSteps => kind[p] \in Decision /\ proc'[p].decision = kind[p]
        /\ proc'[p].pc \in RunSteps => kind[p] = "run"
    BY <1>1, <1>3 DEF ChildInv, TypeOK, ChildStep, ReadFile, TruncateFile, WriteFile, StartUpdate,
       UpdateRow, Commit, Exit, EndScheduler, ImportRow, ImportEvent, Die, Moves, Child,
       DecideSteps, RunSteps
  <2>5. /\ proc'[p].pc \in {"read", "writing"} => store = "filesystem"
        /\ proc'[p].pc \in {"updating", "updated", "committed", "importing", "imported"}
             => store = "postgres"
    BY <1>1, <1>3 DEF ChildInv, TypeOK, ChildStep, ReadFile, TruncateFile, WriteFile, StartUpdate,
       UpdateRow, Commit, Exit, EndScheduler, ImportRow, ImportEvent, Die, Moves, Child
  <2>6. proc'[p].pc = "imported" => proc'[p].decision \in Decision \cup {"pending"}
    BY <1>1, <1>3 DEF ChildInv, TypeOK, Approval, Readable, ChildStep, ReadFile, TruncateFile,
       WriteFile, StartUpdate, UpdateRow, Commit, Exit, EndScheduler, ImportRow, ImportEvent,
       Die, Moves, Child
  <2>7. proc'[p].pc = "updated" => /\ UpdateRow(p)
                                   /\ proc'[p].row = proc[p].row
                                   /\ rows[proc[p].row].decision = "pending"
    BY <1>1, <1>3 DEF TypeOK, ChildStep, ReadFile, TruncateFile, WriteFile, StartUpdate,
       UpdateRow, Commit, Exit, EndScheduler, ImportRow, ImportEvent, Die, Moves, Child
  <2>8. \A q \in Process \ {p} :
          proc'[p].pc = "updated" /\ proc[q].pc = "updated" => proc'[p].row # proc[q].row
    BY <2>7 DEF UpdateRow, Holder
  <2>9. proc'[p].pc = "updated" => rows' = rows
    BY <2>7 DEF UpdateRow
  <2> QED
    BY <1>1, <2>1, <2>3, <2>4, <2>5, <2>6, <2>7, <2>8, <2>9 DEF ChildInv
<1> QED
  BY <1>2, <1>3 DEF Approving

\* The table changes in two ways only, and each is one the ledger allows.
RowsKept == rows' = rows

RowDecided(p) ==
  /\ Commit(p)
  /\ store = "postgres" /\ kind[p] \in Decision /\ proc[p].decision = kind[p]
  /\ proc[p].row \in 1..Len(rows)
  /\ rows[proc[p].row].decision = "pending" /\ rows[proc[p].row].by = None
  /\ \A i \in 1..Len(rows) : rows[i].by # p

RowOpened ==
  /\ Readable(file) /\ file \in Approval /\ file.by = None
  /\ rows' = Append(rows, file)

\* Whoever commits has found a pending row, and no row is named after it yet.
LEMMA CommitDecides ==
  ASSUME IInv, NEW p \in Process, Commit(p)
  PROVE  RowDecided(p)
<1>1. proc[p].pc = "updated"
  BY DEF Commit, Moves
<1>2. /\ store = "postgres" /\ kind[p] \in Decision /\ proc[p].decision = kind[p]
      /\ proc[p].row \in 1..Len(rows) /\ rows[proc[p].row].decision = "pending"
  BY <1>1 DEF IInv, TypeOK, ChildInv, DecideSteps
<1>3. \A i \in 1..Len(rows) : rows[i].by # p
  BY <1>1, ApprovalConstants DEF IInv, RowInv
<1> QED
  BY <1>2, <1>3 DEF RowDecided, IInv, RowInv

LEMMA RowChange ==
  ASSUME IInv, Approving
  PROVE  RowsKept \/ RowOpened \/ \E p \in Process : RowDecided(p)
<1>1. ASSUME NEW p \in Process, Commit(p)
      PROVE  RowDecided(p)
  BY <1>1, CommitDecides
<1>2. ASSUME NEW p \in Process, ImportRow(p)
      PROVE  RowsKept \/ RowOpened
  <2>1. store = "postgres"
    BY <1>2 DEF ImportRow, IInv, ChildInv
  <2>2. Readable(file) => file \in Approval /\ file.by = None
    BY <2>1 DEF IInv, TypeOK, RowInv, Readable
  <2> QED
    BY <1>2, <2>2 DEF ImportRow, RowsKept, RowOpened
<1> QED
  BY <1>1, <1>2
  DEF Approving, Ask, AskEnds, ChildStep, ReadFile, TruncateFile, WriteFile, StartUpdate,
      UpdateRow, Exit, EndScheduler, ImportEvent, Die, RowsKept

\* What a change of the table does to its rows.
LEMMA DecidedRow ==
  ASSUME IInv, NEW p \in Process, RowDecided(p)
  PROVE  LET decided == [decision |-> kind[p], by |-> p]
         IN  /\ Len(rows') = Len(rows)
             /\ rows'[proc[p].row] = decided
             /\ \A i \in 1..Len(rows) : i # proc[p].row => rows'[i] = rows[i]
             /\ Len(events') = Len(events) + 1 /\ Len(events) \in Nat
             /\ events'[Len(events) + 1] = decided
             /\ \A j \in 1..Len(events) : events'[j] = events[j]
<1> DEFINE decided == [decision |-> kind[p], by |-> p]
<1>1. decided \in Approval
  BY DEF RowDecided, Approval
<1>2. rows \in Seq(Approval) /\ events \in Seq(Approval)
  BY DEF IInv, TypeOK
<1>3. rows' = [rows EXCEPT ![proc[p].row] = decided] /\ events' = Append(events, decided)
  BY DEF RowDecided, Commit
<1>4. proc[p].row \in 1..Len(rows)
  BY DEF RowDecided
<1> HIDE DEF decided
<1>5. /\ Len(rows') = Len(rows)
      /\ \A i \in 1..Len(rows) : rows'[i] = IF i = proc[p].row THEN decided ELSE rows[i]
  BY <1>1, <1>2, <1>3, <1>4, ExceptSeq
<1>6. /\ Len(events') = Len(events) + 1 /\ events'[Len(events) + 1] = decided
      /\ \A j \in 1..Len(events) : events'[j] = events[j]
  BY <1>1, <1>2, <1>3, AppendProperties
<1> QED
  BY <1>2, <1>4, <1>5, <1>6, LenProperties DEF decided

LEMMA OpenedRow ==
  ASSUME IInv, RowOpened
  PROVE  /\ Len(rows) \in Nat /\ Len(rows') = Len(rows) + 1
         /\ rows'[Len(rows) + 1] = file
         /\ \A i \in 1..Len(rows) : rows'[i] = rows[i]
BY AppendProperties, LenProperties DEF IInv, TypeOK, RowOpened

\* The events only grow, and what is not a decision of a child names nobody.
LEMMA EventChange ==
  ASSUME IInv, Approving, \A p \in Process : ~ RowDecided(p)
  PROVE  /\ Len(events') >= Len(events) /\ Len(events) \in Nat /\ Len(events') \in Nat
         /\ \A j \in 1..Len(events) : events'[j] = events[j]
         /\ \A j \in 1..Len(events') : j \notin 1..Len(events) => events'[j].by = None
<1>1. events \in Seq(Approval) /\ Len(events) \in Nat
  BY LenProperties DEF IInv, TypeOK
<1>2. CASE events' = events
  BY <1>1, <1>2
<1>3. ASSUME NEW p \in Process, ImportEvent(p)
      PROVE  /\ Len(events') = Len(events) + 1
             /\ \A j \in 1..Len(events) : events'[j] = events[j]
             /\ events'[Len(events) + 1].by = None
  <2> DEFINE event == [decision |-> proc[p].decision, by |-> None]
  <2>1. event \in Approval /\ events' = Append(events, event) /\ event.by = None
    BY <1>3 DEF ImportEvent, Moves, IInv, ChildInv, Approval
  <2> HIDE DEF event
  <2> QED
    BY <1>1, <2>1, AppendProperties
<1>4. ASSUME NEW p \in Process, Commit(p)
      PROVE  FALSE
  BY <1>4, CommitDecides
<1>5. events' = events \/ \E p \in Process : ImportEvent(p)
  BY <1>4
  DEF Approving, Ask, AskEnds, ChildStep, ReadFile, TruncateFile, WriteFile, StartUpdate,
      UpdateRow, Exit, EndScheduler, ImportRow, Die
<1> QED
  BY <1>1, <1>2, <1>3, <1>5

\* A committed decision stays in the table, and a row names whoever committed it.
LEMMA StoreKeepsRows ==
  ASSUME IInv, Approving
  PROVE  RowInv'
<1>1. TypeOK /\ ChildInv /\ RowInv /\ kind' = kind /\ store' = store
  BY DEF IInv, Approving, serverVars, Ask, AskEnds, ChildStep, ReadFile, TruncateFile,
         WriteFile, StartUpdate, UpdateRow, Commit, Exit, EndScheduler, ImportRow,
         ImportEvent, Die
<1>2. store = "postgres" /\ Readable(file') => file'.by = None
  <2>1. \A p \in Process : TruncateFile(p) \/ WriteFile(p) => store = "filesystem"
    BY <1>1 DEF TruncateFile, WriteFile, Moves, ChildInv
  <2>2. \/ store = "filesystem"
        \/ file' \in {Torn, Pending} \/ file' = file
    BY <2>1 DEF Approving, Ask, AskEnds, Fill, ChildStep, ReadFile, StartUpdate, UpdateRow,
       Commit, Exit, EndScheduler, ImportRow, ImportEvent, Die
  <2> QED
    BY <1>1, <2>2 DEF RowInv, Readable, Pending
<1>3. \A q \in Process :
        /\ proc[q].pc \in {"committed", "done", "failed"}
             => proc'[q].pc \in {"committed", "done", "failed"}
        /\ store = "postgres" /\ kind[q] \in Decision /\ proc'[q].pc \in {"committed", "done"}
             => Commit(q) \/ proc[q].pc \in {"committed", "done"}
  <2>1. CASE Ask \/ AskEnds
    BY <2>1 DEF Ask, AskEnds
  <2>2. ASSUME NEW p \in Process, ChildStep(p), NEW q \in Process
        PROVE  <1>3!(q)
    <3>1. CASE q # p
      BY <1>1, <2>2, <3>1, ChildAdvances DEF Advances
    <3>2. CASE q = p
      <4>1. proc[p].pc \in RunSteps => kind[p] = "run"
        BY <1>1 DEF ChildInv
      <4> QED
        BY <1>1, <2>2, <3>2, <4>1, ServerConstants
        DEF TypeOK, ChildInv, ChildStep, ReadFile, TruncateFile, WriteFile, StartUpdate, UpdateRow,
            Commit, Exit, EndScheduler, ImportRow, ImportEvent, Die, Moves, Child, Running,
            DecideSteps, RunSteps
    <3> QED
      BY <3>1, <3>2
  <2> QED
    BY <2>1, <2>2 DEF Approving
<1>4. \A i \in 1..Len(rows) : rows[i].by \in Process \cup {None}
  BY <1>1, RowTyped
<1>5. CASE RowsKept
  <2>1. \A q \in Process : ~ Commit(q)
    <3> SUFFICES ASSUME NEW q \in Process, Commit(q)
                 PROVE  FALSE
      OBVIOUS
    <3>1. RowDecided(q)
      BY CommitDecides
    <3>2. rows'[proc[q].row] = [decision |-> kind[q], by |-> q]
      BY <3>1, DecidedRow
    <3>3. rows[proc[q].row].by = None
      BY <3>1 DEF RowDecided
    <3> QED
      BY <1>5, <3>2, <3>3, ApprovalConstants DEF RowsKept
  <2> QED
    BY <1>1, <1>2, <1>3, <1>4, <1>5, <2>1 DEF RowInv, RowsKept
<1>6. CASE RowOpened
  <2>1. \A q \in Process : ~ Commit(q)
    <3> SUFFICES ASSUME NEW q \in Process, Commit(q)
                 PROVE  FALSE
      OBVIOUS
    <3>1. RowDecided(q)
      BY CommitDecides
    <3>2. Len(rows') = Len(rows)
      BY <3>1, DecidedRow
    <3>3. Len(rows) \in Nat /\ Len(rows') = Len(rows) + 1
      BY <1>6, OpenedRow
    <3> QED
      BY <3>2, <3>3
  <2>2. \A i \in 1..Len(rows') : i \in 1..Len(rows) \/ rows'[i].by = None
    BY <1>6, OpenedRow DEF RowOpened
  <2>3. 1..Len(rows) \subseteq 1..Len(rows') /\ \A i \in 1..Len(rows) : rows'[i] = rows[i]
    BY <1>6, OpenedRow
  <2>4. \A i \in 1..Len(rows') :
          /\ rows'[i].decision = "pending" => rows'[i].by = None
          /\ rows'[i].by # None => proc'[rows'[i].by].pc \in {"committed", "done", "failed"}
    BY <1>1, <1>3, <1>4, <2>2, <2>3 DEF RowInv
  <2>5. \A p \in Process :
          store = "postgres" /\ kind[p] \in Decision /\ proc'[p].pc \in {"committed", "done"}
            => \E i \in 1..Len(rows') : rows'[i] = [decision |-> kind[p], by |-> p]
    BY <1>1, <1>3, <2>1, <2>3 DEF RowInv
  <2> QED
    BY <1>1, <1>2, <2>4, <2>5 DEF RowInv
<1>7. ASSUME NEW p \in Process, RowDecided(p)
      PROVE  RowInv'
  <2> DEFINE decided == [decision |-> kind[p], by |-> p]
  <2>1. /\ Len(rows') = Len(rows) /\ rows'[proc[p].row] = decided
        /\ proc[p].row \in 1..Len(rows) /\ rows[proc[p].row].decision = "pending"
        /\ \A i \in 1..Len(rows) : i # proc[p].row => rows'[i] = rows[i]
    BY <1>7, DecidedRow DEF RowDecided
  <2>2. proc'[p].pc = "committed" /\ \A q \in Process \ {p} : proc'[q] = proc[q]
    BY <1>1, <1>7 DEF RowDecided, Commit, Moves, TypeOK
  <2>3. decided.decision # "pending" /\ decided.decision = kind[p] /\ decided.by = p
    BY <1>7, ApprovalConstants DEF RowDecided
  <2> HIDE DEF decided
  <2>4. \A i \in 1..Len(rows') :
          /\ rows'[i].decision = "pending" => rows'[i].by = None
          /\ rows'[i].by # None => proc'[rows'[i].by].pc \in {"committed", "done", "failed"}
    <3> SUFFICES ASSUME NEW i \in 1..Len(rows)
                 PROVE  <2>4!(i)
      BY <2>1
    <3>1. CASE i = proc[p].row
      BY <2>1, <2>2, <2>3, <3>1
    <3>2. CASE i # proc[p].row
      BY <1>1, <1>3, <1>4, <2>1, <3>2 DEF RowInv
    <3> QED
      BY <3>1, <3>2
  <2>5. ASSUME NEW q \in Process, store = "postgres", kind[q] \in Decision,
               proc'[q].pc \in {"committed", "done"}
        PROVE  \E i \in 1..Len(rows') : rows'[i] = [decision |-> kind[q], by |-> q]
    <3>1. CASE q = p
      BY <2>1, <3>1 DEF decided
    <3>2. CASE q # p
      <4>1. PICK i \in 1..Len(rows) : rows[i] = [decision |-> kind[q], by |-> q]
        BY <1>1, <2>2, <2>5, <3>2 DEF RowInv
      <4>2. i # proc[p].row
        BY <2>1, <2>5, <4>1, ApprovalConstants
      <4> QED
        BY <2>1, <4>1, <4>2
    <3> QED
      BY <3>1, <3>2
  <2> QED
    BY <1>1, <1>2, <2>4, <2>5 DEF RowInv
<1> QED
  BY <1>5, <1>6, <1>7, RowChange

\* Every decision in the table has its event, and the other way round.
LEMMA StoreKeepsRecords ==
  ASSUME IInv, Approving
  PROVE  DecisionsAreRecorded'
<1>1. /\ \A i \in 1..Len(rows) :
           rows[i].by # None => \E j \in 1..Len(events) : events[j] = rows[i]
      /\ \A j \in 1..Len(events) :
           events[j].by # None => \E i \in 1..Len(rows) : rows[i] = events[j]
  BY DEF IInv, DecisionsAreRecorded
<1>2. ASSUME NEW p \in Process, RowDecided(p)
      PROVE  DecisionsAreRecorded'
  <2> DEFINE decided == [decision |-> kind[p], by |-> p]
  <2>1. /\ Len(rows') = Len(rows) /\ rows'[proc[p].row] = decided
        /\ proc[p].row \in 1..Len(rows) /\ rows[proc[p].row].by = None
        /\ \A i \in 1..Len(rows) : i # proc[p].row => rows'[i] = rows[i]
    BY <1>2, DecidedRow DEF RowDecided
  <2>2. /\ Len(events') = Len(events) + 1 /\ Len(events) \in Nat
        /\ events'[Len(events) + 1] = decided
        /\ \A j \in 1..Len(events) : events'[j] = events[j]
    BY <1>2, DecidedRow
  <2> HIDE DEF decided
  <2>3. ASSUME NEW i \in 1..Len(rows'), rows'[i].by # None
        PROVE  \E j \in 1..Len(events') : events'[j] = rows'[i]
    <3>1. CASE i = proc[p].row
      <4>1. Len(events) + 1 \in 1..Len(events')
        BY <2>2
      <4> QED
        BY <2>1, <2>2, <3>1, <4>1
    <3>2. CASE i # proc[p].row
      <4>1. PICK j \in 1..Len(events) : events[j] = rows[i]
        BY <1>1, <2>1, <2>3, <3>2
      <4> QED
        BY <2>1, <2>2, <2>3, <3>2, <4>1
    <3> QED
      BY <3>1, <3>2
  <2>4. ASSUME NEW j \in 1..Len(events'), events'[j].by # None
        PROVE  \E i \in 1..Len(rows') : rows'[i] = events'[j]
    <3>1. CASE j = Len(events) + 1
      BY <2>1, <2>2, <3>1
    <3>2. CASE j # Len(events) + 1
      <4>1. j \in 1..Len(events) /\ events'[j] = events[j]
        BY <2>2, <3>2
      <4>2. PICK i \in 1..Len(rows) : rows[i] = events[j]
        BY <1>1, <2>4, <4>1
      <4>3. i # proc[p].row
        BY <2>1, <2>4, <4>1, <4>2
      <4> QED
        BY <2>1, <4>1, <4>2, <4>3
    <3> QED
      BY <3>1, <3>2
  <2> QED
    BY <2>3, <2>4 DEF DecisionsAreRecorded
<1>3. ASSUME \A p \in Process : ~ RowDecided(p)
      PROVE  DecisionsAreRecorded'
  <2>1. /\ \A j \in 1..Len(events) : j \in 1..Len(events') /\ events'[j] = events[j]
        /\ \A j \in 1..Len(events') : j \notin 1..Len(events) => events'[j].by = None
    BY <1>3, EventChange
  <2>2. /\ \A i \in 1..Len(rows) : i \in 1..Len(rows') /\ rows'[i] = rows[i]
        /\ \A i \in 1..Len(rows') : i \notin 1..Len(rows) => rows'[i].by = None
    <3>1. CASE RowsKept
      BY <3>1 DEF RowsKept
    <3>2. CASE RowOpened
      <4>1. /\ Len(rows) \in Nat /\ Len(rows') = Len(rows) + 1
            /\ rows'[Len(rows) + 1] = file
            /\ \A i \in 1..Len(rows) : rows'[i] = rows[i]
        BY <3>2, OpenedRow
      <4>2. \A i \in 1..Len(rows') : i \in 1..Len(rows) \/ i = Len(rows) + 1
        BY <4>1
      <4>3. \A i \in 1..Len(rows) : i \in 1..Len(rows')
        BY <4>1
      <4> QED
        BY <3>2, <4>1, <4>2, <4>3 DEF RowOpened
    <3> QED
      BY <1>3, <3>1, <3>2, RowChange
  <2>3. ASSUME NEW i \in 1..Len(rows'), rows'[i].by # None
        PROVE  \E j \in 1..Len(events') : events'[j] = rows'[i]
    <3>1. i \in 1..Len(rows) /\ rows[i].by # None /\ rows'[i] = rows[i]
      BY <2>2, <2>3
    <3>2. PICK j \in 1..Len(events) : events[j] = rows[i]
      BY <1>1, <3>1
    <3> QED
      BY <2>1, <3>1, <3>2
  <2>4. ASSUME NEW j \in 1..Len(events'), events'[j].by # None
        PROVE  \E i \in 1..Len(rows') : rows'[i] = events'[j]
    <3>1. j \in 1..Len(events) /\ events[j].by # None /\ events'[j] = events[j]
      BY <2>1, <2>4
    <3>2. PICK i \in 1..Len(rows) : rows[i] = events[j]
      BY <1>1, <3>1
    <3> QED
      BY <2>2, <3>1, <3>2
  <2> QED
    BY <2>3, <2>4 DEF DecisionsAreRecorded
<1> QED
  BY <1>2, <1>3

-----------------------------------------------------------------------------
(* The invariant, and what follows from it. *)

LEMMA StoreKeepsIInv ==
  ASSUME IInv, Approving
  PROVE  IInv'
BY StoreKeepsType, StoreKeepsHandlers, StoreKeepsChildren, StoreKeepsRows,
   StoreKeepsRecords DEF IInv

LEMMA NextKeepsIInv == IInv /\ [Next]_vars => IInv'
<1> SUFFICES ASSUME IInv, [Next]_vars
             PROVE  IInv'
  OBVIOUS
<1>1. CASE UNCHANGED vars
  <2>1. UNCHANGED approvalVars /\ UNCHANGED serverVars
    BY <1>1 DEF vars
  <2>2. TypeOK' /\ HandlerInv' /\ StreamsAreLive'
    BY <2>1 DEF IInv, TypeOK, HandlerInv, StreamsAreLive, approvalVars, serverVars
  <2>3. ChildInv' /\ RowInv' /\ DecisionsAreRecorded'
    BY <2>1 DEF IInv, ChildInv, RowInv, DecisionsAreRecorded, approvalVars, serverVars
  <2> QED
    BY <2>2, <2>3 DEF IInv
<1>2. CASE Next
  BY <1>2, NextCases, ServerKeepsIInv, SpawnKeepsIInv, PhaseKeepsIInv, DownKeepsIInv,
     StoreKeepsIInv
<1> QED
  BY <1>1, <1>2

LEMMA Invariance == Spec => []IInv
<1>1. Init => IInv
  BY InitIInv
<1>2. IInv /\ [Next]_vars => IInv'
  BY NextKeepsIInv
<1> QED
  BY <1>1, <1>2, PTL DEF Spec

\* In every reachable state the variables have their types, and a transaction that
\* has picked a row of harness.approvals has picked one that exists.
THEOREM TypeCorrect == Spec => []TypeOK
<1>1. IInv => TypeOK
  BY DEF IInv
<1> QED
  BY <1>1, Invariance, PTL

\* Whatever a child process of the server does was announced in the audit file,
\* and an outcome is only recorded for a decision whose child succeeded.
THEOREM Audited == Spec => []AuditTrail
<1>1. IInv => AuditTrail
  BY DEF IInv, HandlerInv, AuditTrail
<1> QED
  BY <1>1, Invariance, PTL

\* A client that was answered 200 to its decision has decided: with postgres a
\* row holds its decision for ever, however many clients decided at once.
THEOREM Answered == Spec => []AnsweredMeansDecided
<1>1. IInv => AnsweredMeansDecided
  BY DEF IInv, HandlerInv, RowInv, AnsweredMeansDecided, Request
<1> QED
  BY <1>1, Invariance, PTL

\* The table and the event log agree on every decision, whatever child is killed
\* at whatever step.
THEOREM Recorded == Spec => []DecisionsAreRecorded
<1>1. IInv => DecisionsAreRecorded
  BY DEF IInv
<1> QED
  BY <1>1, Invariance, PTL

\* The server knows exactly the streams that are open, and none of them outlives
\* the start of a shutdown.
THEOREM Streams == Spec => []StreamsAreLive
<1>1. IInv => StreamsAreLive
  BY DEF IInv
<1> QED
  BY <1>1, Invariance, PTL

-----------------------------------------------------------------------------
(* The table implements the abstract ledger: what is not a step of the      *)
(* stores keeps the rows, and RowChange names the steps that do not.        *)

LEMMA InitRefines == Init => Ledger!Init
<1> SUFFICES ASSUME Init
             PROVE  Ledger!Init
  OBVIOUS
<1>1. CASE rows = <<>>
  BY <1>1 DEF Ledger!Init
<1>2. CASE rows # <<>>
  <2>1. rows = <<file>> /\ Readable(file)
    BY <1>2 DEF Init, InitApprovals
  <2>2. file \in Ledger!Imported
    BY <2>1 DEF Init, InitApprovals, Readable, Pending, Ledger!Imported
  <2> QED
    BY <2>1, <2>2 DEF Ledger!Init
<1> QED
  BY <1>1, <1>2

LEMMA StepRefines == IInv /\ [Next]_vars => [Ledger!Next]_rows
<1> SUFFICES ASSUME IInv, [Next]_vars
             PROVE  Ledger!Next \/ rows' = rows
  OBVIOUS
<1>1. CASE Approving
  <2>1. CASE RowsKept
    BY <2>1 DEF RowsKept
  <2>2. CASE RowOpened
    <3>1. file \in Ledger!Imported
      BY <2>2 DEF RowOpened, Approval, Ledger!Imported
    <3> QED
      BY <2>2, <3>1 DEF RowOpened, Ledger!Next, Ledger!OpenRound
  <2>3. ASSUME NEW p \in Process, RowDecided(p)
        PROVE  Ledger!DecideRound(p, kind[p])
    <3>1. rows' = [rows EXCEPT ![proc[p].row] = [decision |-> kind[p], by |-> p]]
      BY <2>3 DEF RowDecided, Commit
    <3> QED
      BY <2>3, <3>1 DEF RowDecided, Ledger!DecideRound
  <2>4. ASSUME NEW p \in Process, RowDecided(p)
        PROVE  Ledger!Next
    BY <2>3, <2>4 DEF RowDecided, Ledger!Next
  <2> QED
    BY <1>1, <2>1, <2>2, <2>4, RowChange
<1>2. CASE UNCHANGED vars
  BY <1>2 DEF vars, approvalVars
<1>3. CASE Next /\ ~ Approving
  <2>1. ASSUME NEW r \in Request, ServerStep(r) \/ LoadRun(r) \/ BodyRead(r)
        PROVE  rows' = rows
    BY <2>1 DEF ServerStep, Arrive, Refuse, LoadFails, LoadRead, LoadApproval, BodyFails,
       ChildClosed, Reread, HangUp, LoadRun, BodyRead, approvalVars
  <2>2. CASE PhaseStep
    BY <2>2 DEF PhaseStep, Shutdown, ServerClosed, Timer, PoolEnded, Restart, approvalVars
  <2>3. ASSUME NEW killed \in SUBSET Process, Down(killed)
        PROVE  rows' = rows
    BY <2>3 DEF Down
  <2> QED
    BY <1>3, <2>1, <2>2, <2>3, NextCases
<1> QED
  BY <1>1, <1>2, <1>3

\* harness.approvals implements the abstract ledger: rounds are appended, an open
\* round is decided at most once, by one process, and is never touched again, for
\* any number of concurrent decisions, imports and crashes.
THEOREM LedgerImplemented == Spec => LedgerSpec
<1>1. Init => Ledger!Init
  BY InitRefines
<1>2. IInv /\ [Next]_vars => [Ledger!Next]_rows
  BY StepRefines
<1> QED
  BY <1>1, <1>2, Invariance, PTL DEF Spec, LedgerSpec, Ledger!Spec
=============================================================================
