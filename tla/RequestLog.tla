---------------------------- MODULE RequestLog ------------------------------
(***************************************************************************)
(* What the field "requests" of dag.json promises to whoever has sent an   *)
(* agent to work: a request that was sent stays on record, waiting until   *)
(* exactly one result settles it, and a settled request is never opened,   *)
(* settled or sent again - until parallel:init starts the task anew.       *)
(* Scheduler implements it, with and without the feedback loop; so does    *)
(* DagFile where the users run one command at a time.                      *)
(***************************************************************************)
EXTENDS Naturals

CONSTANT Answer       \* what a result can make of a request

VARIABLES
  requests,    \* request identity -> "queued", or the answer
  run          \* number of the run: how often the task was started

NoRequest == [q \in {} |-> "queued"]

\* A scheduler run adds requests, or none.
Sent(old, new) ==
  /\ DOMAIN old \subseteq DOMAIN new
  /\ new = [q \in DOMAIN new |-> IF q \in DOMAIN old THEN old[q] ELSE "queued"]

\* A result settles a request that waits for it.
Settled(old, new) ==
  \E q \in DOMAIN old, answer \in Answer :
    /\ old[q] = "queued"
    /\ new = [old EXCEPT ![q] = answer]

Follows(old, new) == Sent(old, new) \/ Settled(old, new)

Init == requests = NoRequest /\ run \in Nat

Work == run' = run /\ Follows(requests, requests')

StartAnew == run' = run + 1 /\ requests' = NoRequest

Next == Work \/ StartAnew

Spec == Init /\ [][Next]_<<requests, run>>
=============================================================================
