---------------------------- MODULE Coordination ----------------------------
(***************************************************************************)
(* Runtime coordination: one task lease and one idempotency key in         *)
(* PostgreSQL, used by any number of client processes                      *)
(* (scripts/persistence/lib/runtime-coordination.mjs over the helper       *)
(* "transaction" of lib/db.mjs).                                           *)
(*                                                                         *)
(* A call is a transaction in three steps: BEGIN, which fixes the value of *)
(* now() for its statements; the statements, which wait for the row lock   *)
(* of another transaction and then look at the row as it is (READ          *)
(* COMMITTED); and COMMIT, which makes the rows visible and answers the    *)
(* caller.  The answer may be lost, and the connection before it.          *)
(***************************************************************************)
EXTENDS Naturals

CONSTANTS
  Proc,          \* client processes
  Owner,         \* values of "owner"; several processes may use the same one
  LeaseSeconds,  \* leaseSeconds and ttlSeconds of every call, in clock units
  TtlSeconds,
  MaxClock,      \* bound: the clock stops here
  MaxCalls,      \* bound: calls in all
  None

Lease == [owner : Owner, token : Nat, expires : Nat]
KeyRow == [response : Nat, expires : Nat]

ASSUME CoordinationConstants ==
  /\ LeaseSeconds \in Nat \ {0} /\ TtlSeconds \in Nat \ {0}
  /\ MaxClock \in Nat /\ MaxCalls \in Nat
  /\ None \notin Lease \cup KeyRow

VARIABLES
  clock,   \* the database's clock
  owner,   \* the owner each process calls itself; never changes
  lease,   \* the row of harness.task_leases for the task, or None
  key,     \* the row of harness.idempotency_keys, or None
  tx,      \* the call each process is in
  held,    \* the lease a process was granted and has not released, or None
  calls,   \* number of calls begun; numbers the lease tokens and responses
  last,    \* history: the token of the last lease that was committed
  answers  \* history: the answers callers of rememberIdempotency have got

vars == <<clock, owner, lease, key, tx, held, calls, last, answers>>

Idle == [pc |-> "idle"]

Init ==
  /\ clock = 0
  /\ owner \in [Proc -> Owner]
  /\ lease = None /\ key = None
  /\ tx = [p \in Proc |-> Idle]
  /\ held = [p \in Proc |-> None]
  /\ calls = 0 /\ last = 0 /\ answers = {}

-----------------------------------------------------------------------------
(* The transaction helper.  "token" is the fresh lease token or the        *)
(* response of the call; a release carries the token it was granted, and   *)
(* the process stops relying on the lease when it asks for the release.    *)

Free(p, pcs) == \A q \in Proc \ {p} : tx[q].pc \notin pcs

Begin(p, op) ==
  /\ tx[p] = Idle /\ calls < MaxCalls
  /\ calls' = calls + 1
  /\ IF op = "release"
       THEN /\ held[p] # None
            /\ tx' = [tx EXCEPT ![p] = [pc |-> op, at |-> clock, token |-> held[p].token]]
            /\ held' = [held EXCEPT ![p] = None]
       ELSE /\ tx' = [tx EXCEPT ![p] = [pc |-> op, at |-> clock, token |-> calls + 1]]
            /\ held' = held
  /\ UNCHANGED <<clock, owner, lease, key, last, answers>>

\* A transaction with its statements done: "lease" or "key" says which row
\* it has locked, "new" what the row will be.
LeaseWriters == {"leased", "refused", "released"}
KeyWriters == {"claimed"}

NewLease(p) ==
  [owner |-> owner[p], token |-> tx[p].token, expires |-> tx[p].at + LeaseSeconds]

\* Mutant: a lease can be taken over one unit before it expires.
MayTakeEarly(p) ==
  lease = None \/ lease.expires <= tx[p].at + 1 \/ lease.owner = owner[p]

MayTake(p) ==
  lease = None \/ lease.expires <= tx[p].at \/ lease.owner = owner[p]

\* INSERT ... ON CONFLICT DO UPDATE ... WHERE; a refused update has still
\* locked the row.
AcquireTaskLease(p) ==
  /\ tx[p].pc = "acquire" /\ Free(p, LeaseWriters)
  /\ tx' = [tx EXCEPT ![p] =
       IF MayTake(p) THEN [pc |-> "leased", new |-> NewLease(p)]
                     ELSE [pc |-> "refused", new |-> lease]]
  /\ UNCHANGED <<clock, owner, lease, key, held, calls, last, answers>>

\* Mutant: DELETE without the comparison of the token.
OwnsAny(p) == lease # None /\ lease.owner = owner[p]

OwnsLease(p) ==
  lease # None /\ lease.owner = owner[p] /\ lease.token = tx[p].token

\* DELETE: waits only for a row its snapshot shows to be its own.
ReleaseTaskLease(p) ==
  /\ tx[p].pc = "release"
  /\ OwnsLease(p) => Free(p, LeaseWriters)
  /\ tx' = [tx EXCEPT ![p] =
              IF OwnsLease(p) THEN [pc |-> "released", new |-> None] ELSE Idle]
  /\ UNCHANGED <<clock, owner, lease, key, held, calls, last, answers>>

\* INSERT ... ON CONFLICT DO NOTHING, then SELECT; a key that is there but
\* has expired is an error (IDEMPOTENCY_EXPIRED) and rolls back.
Replay(p) == answers \cup (IF key.expires > tx[p].at
                            THEN {[response |-> key.response, replayed |-> TRUE]} ELSE {})

\* Mutant: the claim writes over a row that is there.
RememberIdempotencyAnew(p) ==
  /\ tx[p].pc = "remember" /\ Free(p, KeyWriters)
  /\ tx' = [tx EXCEPT ![p] = [pc |-> "claimed",
         new |-> [response |-> tx[p].token, expires |-> tx[p].at + TtlSeconds]]]
  /\ UNCHANGED <<clock, owner, lease, key, held, calls, last, answers>>

RememberIdempotency(p) ==
  /\ tx[p].pc = "remember" /\ Free(p, KeyWriters)
  /\ IF key = None
       THEN /\ tx' = [tx EXCEPT ![p] = [pc |-> "claimed",
                new |-> [response |-> tx[p].token, expires |-> tx[p].at + TtlSeconds]]]
            /\ answers' = answers
       ELSE /\ tx' = [tx EXCEPT ![p] = Idle]
            /\ answers' = Replay(p)
  /\ UNCHANGED <<clock, owner, lease, key, held, calls, last>>

\* COMMIT.  "heard" is false when the connection breaks after the commit and
\* before its answer: the call throws although its rows are there.
Commit(p, heard) ==
  /\ tx' = [tx EXCEPT ![p] = Idle]
  /\ \/ /\ tx[p].pc = "leased"
        /\ lease' = tx[p].new /\ last' = tx[p].new.token
        /\ held' = IF heard THEN [held EXCEPT ![p] = tx[p].new] ELSE held
        /\ UNCHANGED <<key, answers>>
     \/ /\ tx[p].pc \in {"refused", "released"}
        /\ lease' = tx[p].new
        /\ UNCHANGED <<key, held, last, answers>>
     \/ /\ tx[p].pc = "claimed"
        /\ key' = tx[p].new
        /\ answers' = IF heard
             THEN answers \cup {[response |-> tx[p].new.response, replayed |-> FALSE]}
             ELSE answers
        /\ UNCHANGED <<lease, held, last>>
  /\ UNCHANGED <<clock, owner, calls>>

\* ROLLBACK after an error, or a process or connection that is gone.
Rollback(p) ==
  /\ tx[p] # Idle
  /\ tx' = [tx EXCEPT ![p] = Idle]
  /\ UNCHANGED <<clock, owner, lease, key, held, calls, last, answers>>

\* Time before the first call makes no difference.
Tick ==
  /\ calls > 0 /\ clock < MaxClock /\ clock' = clock + 1
  /\ UNCHANGED <<owner, lease, key, tx, held, calls, last, answers>>

Next ==
  \/ \E p \in Proc :
       \/ \E op \in {"acquire", "release", "remember"} : Begin(p, op)
       \/ AcquireTaskLease(p)
       \/ ReleaseTaskLease(p)
       \/ RememberIdempotency(p)
       \/ \E heard \in BOOLEAN : Commit(p, heard)
       \/ Rollback(p)
  \/ Tick

Spec == Init /\ [][Next]_vars

-----------------------------------------------------------------------------
Call == [pc : {"acquire", "release", "remember"}, at : Nat, token : Nat]
Leased == [pc : {"leased"}, new : Lease]
Unleased == [pc : {"refused", "released"}, new : Lease \cup {None}]
Claimed == [pc : {"claimed"}, new : KeyRow]

TypeOK ==
  /\ clock \in Nat /\ calls \in Nat /\ last \in Nat
  /\ owner \in [Proc -> Owner]
  /\ lease \in Lease \cup {None}
  /\ key \in KeyRow \cup {None}
  /\ held \in [Proc -> Lease \cup {None}]
  /\ answers \subseteq [response : Nat, replayed : BOOLEAN]
  /\ tx \in [Proc -> {Idle} \cup Call \cup Leased \cup Unleased \cup Claimed]

(* The last lease that was granted is the lease of the table until its     *)
(* holder asks to release it: no late release, by whatever token, and no   *)
(* refused or aborted transaction takes it away (runtime-coordination      *)
(* 26-33 and 63-64).                                                       *)
LatestGrantStands ==
  \A p \in Proc : held[p] # None /\ held[p].token = last => lease = held[p]

(* Two owners never rely on the task at the same time, although expiry is  *)
(* compared with the time at which a transaction began, which may be long  *)
(* before it gets the row lock.  It needs one process per owner: a second  *)
(* process of the same owner may take the lease again and release it while *)
(* the first still counts on it (the WHERE clause of acquireTaskLease).    *)
Sole(p) == \A q \in Proc : owner[q] = owner[p] => q = p

Relies(p) == held[p] # None /\ clock < held[p].expires

OwnersExclude ==
  \A p, q \in Proc : Sole(p) /\ Sole(q) /\ Relies(p) /\ Relies(q) => p = q

(* A key has one answer: whoever claims it, however often, after lost      *)
(* answers and aborted claims, is given the same response, and at most one *)
(* caller is told that it is the first (rememberIdempotency).              *)
OneAnswerPerKey ==
  /\ \A a, b \in answers : a.response = b.response
  /\ answers # {} => key # None
=============================================================================
