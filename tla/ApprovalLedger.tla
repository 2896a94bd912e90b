--------------------------- MODULE ApprovalLedger ---------------------------
(***************************************************************************)
(* What the table harness.approvals promises of one task: rounds are only  *)
(* appended; a round that is open is decided at most once and then never   *)
(* changes; no process decides two rounds.  Approvals implements it.       *)
(***************************************************************************)
EXTENDS Naturals, Sequences

CONSTANTS Process, Decision, None

VARIABLE ledger

\* A round that comes in from outside carries no process of this system.
Imported == [decision : Decision \cup {"pending"}, by : {None}]

Init == \/ ledger = <<>>
        \/ \E round \in Imported : ledger = <<round>>

OpenRound == \E round \in Imported : ledger' = Append(ledger, round)

DecideRound(p, d) ==
  \E i \in 1..Len(ledger) :
    /\ ledger[i].decision = "pending"
    /\ \A j \in 1..Len(ledger) : ledger[j].by # p
    /\ ledger' = [ledger EXCEPT ![i] = [decision |-> d, by |-> p]]

Next == OpenRound \/ \E p \in Process, d \in Decision : DecideRound(p, d)

Spec == Init /\ [][Next]_ledger
=============================================================================
