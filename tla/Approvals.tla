------------------------------ MODULE Approvals ------------------------------
(***************************************************************************)
(* The approval of one task: the file approval.json, the table             *)
(* harness.approvals with the event log, and the processes that change     *)
(* them: approval-request, approval-decide and the snapshot that follows a *)
(* run.  Which store decisions go to is the configuration `store`.         *)
(***************************************************************************)
EXTENDS Naturals, Sequences

CONSTANTS
  Process,     \* child processes, one for each request that spawns one
  Decision,    \* {"approved", "rejected"}
  None,        \* no file; no process
  Torn         \* a file that does not parse: truncated, or mixed from two writers

ASSUME ApprovalConstants ==
  /\ "pending" \notin Decision
  /\ None \notin Process

VARIABLES
  store,       \* "filesystem" or "postgres", chosen once
  file,        \* approval.json: None, Torn or an approval
  rows,        \* harness.approvals of the task, in id order
  events,      \* the approval.* events, in sequence order
  asking,      \* approval-request is between truncating and filling the file
  asks,        \* how often it has run
  proc         \* [Process -> what the child is doing, for which decision and row]

approvalVars == <<store, file, rows, events, asking, asks, proc>>

-----------------------------------------------------------------------------
Approval == [decision : Decision \cup {"pending"}, by : Process \cup {None}]

Pending == [decision |-> "pending", by |-> None]

Readable(f) == f \notin {None, Torn}

Child(step, d, row) == [pc |-> step, decision |-> d, row |-> row]

NoChild == Child("none", None, 0)

DecideSteps == {"deciding", "read", "writing", "updating", "updated", "committed"}
RunSteps == {"scheduling", "importing", "imported"}

Running(p) == proc[p].pc \in DecideSteps \cup RunSteps

Ended(p) == proc[p].pc \in {"done", "failed"}

Moves(p, from, to) ==
  /\ proc[p].pc = from
  /\ proc' = [proc EXCEPT ![p].pc = to]

\* The task may have been decided before the store was switched, and it may
\* have been imported already.
InitApprovals ==
  /\ store \in {"filesystem", "postgres"}
  /\ file \in {None, Pending} \cup {[decision |-> d, by |-> None] : d \in Decision}
  /\ rows \in {<<>>} \cup (IF store = "postgres" /\ Readable(file) THEN {<<file>>} ELSE {})
  /\ events = rows
  /\ asking = FALSE
  /\ asks = 0
  /\ proc = [p \in Process |-> NoChild]

-----------------------------------------------------------------------------
(* writeFileSync truncates the file and then fills it.  A writer that fills *)
(* a file somebody else has filled meanwhile may leave a mixture.           *)
Fill(approval) == file' \in {approval} \cup (IF file = Torn THEN {} ELSE {Torn})

\* approval-request: a human opens a new round.
Ask ==
  /\ ~ asking
  /\ asking' = TRUE
  /\ asks' = asks + 1
  /\ file' = Torn
  /\ UNCHANGED <<store, rows, events, proc>>

AskEnds ==
  /\ asking
  /\ asking' = FALSE
  /\ Fill(Pending) \/ UNCHANGED file
  /\ UNCHANGED <<store, rows, events, asks, proc>>

-----------------------------------------------------------------------------
(* approval-decide, filesystem: read, change in memory, write back.         *)
ReadFile(p) ==
  /\ store = "filesystem"
  /\ Moves(p, "deciding", IF Readable(file) THEN "read" ELSE "failed")
  /\ UNCHANGED <<store, file, rows, events, asking, asks>>

TruncateFile(p) ==
  /\ Moves(p, "read", "writing")
  /\ file' = Torn
  /\ UNCHANGED <<store, rows, events, asking, asks>>

WriteFile(p) ==
  /\ Moves(p, "writing", "done")
  /\ Fill([decision |-> proc[p].decision, by |-> p])
  /\ UNCHANGED <<store, rows, events, asking, asks>>

-----------------------------------------------------------------------------
(* approval-decide, postgres: one transaction.  The UPDATE picks the latest *)
(* row when it starts and waits while another transaction holds that row;   *)
(* what it then changes nobody sees before the COMMIT.                      *)
Holder(row, p) == \E q \in Process \ {p} : proc[q].pc = "updated" /\ proc[q].row = row

StartUpdate(p) ==
  /\ store = "postgres"
  /\ proc[p].pc = "deciding"
  /\ proc' = [proc EXCEPT ![p] = Child(IF rows = <<>> THEN "failed" ELSE "updating",
                                       proc[p].decision, Len(rows))]
  /\ UNCHANGED <<store, file, rows, events, asking, asks>>

\* Mutant: without the condition "decision = 'pending'".
UpdateRowDecided(p) ==
  /\ ~ Holder(proc[p].row, p)
  /\ Moves(p, "updating", "updated")
  /\ UNCHANGED <<store, file, rows, events, asking, asks>>

UpdateRow(p) ==
  /\ ~ Holder(proc[p].row, p)
  /\ Moves(p, "updating",
           IF rows[proc[p].row].decision = "pending" THEN "updated" ELSE "failed")
  /\ UNCHANGED <<store, file, rows, events, asking, asks>>

\* Mutant: the event is written after the transaction, and may be lost.
CommitRowOnly(p) ==
  LET decided == [decision |-> proc[p].decision, by |-> p]
  IN  /\ Moves(p, "updated", "committed")
      /\ rows' = [rows EXCEPT ![proc[p].row] = decided]
      /\ events' \in {events, Append(events, decided)}
      /\ UNCHANGED <<store, file, asking, asks>>

Commit(p) ==
  LET decided == [decision |-> proc[p].decision, by |-> p]
  IN  /\ Moves(p, "updated", "committed")
      /\ rows' = [rows EXCEPT ![proc[p].row] = decided]
      /\ events' = Append(events, decided)
      /\ UNCHANGED <<store, file, asking, asks>>

\* The process ends when the idle connection of its pool is closed.
Exit(p) ==
  /\ Moves(p, "committed", "done")
  /\ UNCHANGED <<store, file, rows, events, asking, asks>>

-----------------------------------------------------------------------------
(* runtime-run: the scheduler, then (postgres) the snapshot, which inserts  *)
(* the approval file as a new row and appends the event in another          *)
(* transaction.                                                             *)
EndScheduler(p) ==
  /\ Moves(p, "scheduling", IF store = "postgres" THEN "importing" ELSE "done")
  /\ UNCHANGED <<store, file, rows, events, asking, asks>>

ImportRow(p) ==
  LET step == IF file = None THEN "done" ELSE IF file = Torn THEN "failed" ELSE "imported"
  IN  /\ proc[p].pc = "importing"
      /\ proc' = [proc EXCEPT ![p] = Child(step, IF Readable(file) THEN file.decision ELSE None, 0)]
      /\ rows' = IF Readable(file) THEN Append(rows, file) ELSE rows
      /\ UNCHANGED <<store, file, events, asking, asks>>

ImportEvent(p) ==
  /\ Moves(p, "imported", "done")
  /\ events' = Append(events, [decision |-> proc[p].decision, by |-> None])
  /\ UNCHANGED <<store, file, rows, asking, asks>>

\* A child is killed or loses the database; an open transaction is rolled back.
Die(p) ==
  /\ Running(p)
  /\ proc' = [proc EXCEPT ![p].pc = "failed"]
  /\ UNCHANGED <<store, file, rows, events, asking, asks>>

ChildStep(p) ==
  \/ ReadFile(p) \/ TruncateFile(p) \/ WriteFile(p)
  \/ StartUpdate(p) \/ UpdateRow(p) \/ Commit(p) \/ Exit(p)
  \/ EndScheduler(p) \/ ImportRow(p) \/ ImportEvent(p)
  \/ Die(p)
=============================================================================
