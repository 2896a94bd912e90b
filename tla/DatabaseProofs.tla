--------------------------- MODULE DatabaseProofs ---------------------------
(***************************************************************************)
(* Proofs about Coordination and Database.  First the leases and keys, for *)
(* any number of processes, owners and calls and any length of leases.     *)
(* Then the database: leases and keys behave as Coordination says while    *)
(* migrators run, the schema is whole, and no call meets a missing table;  *)
(* for any number of migrators, releases and migration files.              *)
(***************************************************************************)
EXTENDS Database, TLAPS

USE CoordinationConstants

-----------------------------------------------------------------------------
(* Types. *)

\* What the type of tx says of a process in each of its steps.
LEMMA TxType ==
  ASSUME TypeOK, NEW p \in Proc
  PROVE  /\ tx[p].pc \in {"acquire", "release", "remember"} =>
              /\ tx[p] = [pc |-> tx[p].pc, at |-> tx[p].at, token |-> tx[p].token]
              /\ tx[p].at \in Nat /\ tx[p].token \in Nat
         /\ tx[p].pc = "leased" => tx[p].new \in Lease
         /\ tx[p].pc \in {"refused", "released"} => tx[p].new \in Lease \cup {None}
         /\ tx[p].pc = "claimed" => tx[p].new \in KeyRow
         /\ tx[p].pc = "idle" => tx[p] = Idle
<1>1. tx[p] \in {Idle} \cup Call \cup Leased \cup Unleased \cup Claimed
  BY DEF TypeOK
<1>2. CASE tx[p] = Idle
  BY <1>2 DEF Idle
<1>3. CASE tx[p] \in Call
  BY <1>3 DEF Call
<1>4. CASE tx[p] \in Leased
  BY <1>4 DEF Leased
<1>5. CASE tx[p] \in Unleased
  BY <1>5 DEF Unleased
<1>6. CASE tx[p] \in Claimed
  BY <1>6 DEF Claimed
<1>7. QED
  BY <1>1, <1>2, <1>3, <1>4, <1>5, <1>6

LEMMA TypeInit == Init => TypeOK
  BY DEF Init, TypeOK, Idle

LEMMA TypeNext == TypeOK /\ [Next]_vars => TypeOK'
<1> SUFFICES ASSUME TypeOK, [Next]_vars
             PROVE  TypeOK'
  OBVIOUS
<1>1. ASSUME NEW p \in Proc, NEW op \in {"acquire", "release", "remember"}, Begin(p, op)
      PROVE  TypeOK'
  <2>1. CASE op = "release"
    <3>1. held[p] \in Lease
      BY <1>1, <2>1 DEF TypeOK, Begin
    <3>2. [pc |-> op, at |-> clock, token |-> held[p].token] \in Call
      BY <3>1 DEF TypeOK, Call, Lease
    <3>3. QED
      BY <1>1, <2>1, <3>2 DEF TypeOK, Begin
  <2>2. CASE op # "release"
    <3>1. [pc |-> op, at |-> clock, token |-> calls + 1] \in Call
      BY DEF TypeOK, Call
    <3>2. QED
      BY <1>1, <2>2, <3>1 DEF TypeOK, Begin
  <2>3. QED
    BY <2>1, <2>2
<1>2. ASSUME NEW p \in Proc, AcquireTaskLease(p)
      PROVE  TypeOK'
  <2>1. NewLease(p) \in Lease
    BY <1>2, TxType DEF TypeOK, AcquireTaskLease, NewLease, Lease
  <2>2. /\ [pc |-> "leased", new |-> NewLease(p)] \in Leased
        /\ [pc |-> "refused", new |-> lease] \in Unleased
    BY <2>1 DEF TypeOK, Leased, Unleased
  <2>3. QED
    BY <1>2, <2>2 DEF TypeOK, AcquireTaskLease
<1>3. ASSUME NEW p \in Proc, ReleaseTaskLease(p)
      PROVE  TypeOK'
  <2>1. [pc |-> "released", new |-> None] \in Unleased
    BY DEF Unleased
  <2>2. QED
    BY <1>3, <2>1 DEF TypeOK, ReleaseTaskLease
<1>4. ASSUME NEW p \in Proc, RememberIdempotency(p)
      PROVE  TypeOK'
  <2>1. tx[p].at \in Nat /\ tx[p].token \in Nat
    BY <1>4, TxType DEF RememberIdempotency
  <2>2. [pc |-> "claimed", new |-> [response |-> tx[p].token, expires |-> tx[p].at + TtlSeconds]]
          \in Claimed
    BY <2>1 DEF Claimed, KeyRow
  <2>3. ASSUME key # None
        PROVE  Replay(p) \subseteq [response : Nat, replayed : BOOLEAN]
    <3>1. key \in KeyRow
      BY <2>3 DEF TypeOK
    <3>2. key.response \in Nat
      BY <3>1 DEF KeyRow
    <3>3. [response |-> key.response, replayed |-> TRUE] \in [response : Nat, replayed : BOOLEAN]
      BY <3>2
    <3>4. QED
      BY <3>3 DEF TypeOK, Replay
  <2>4. QED
    BY <1>4, <2>2, <2>3 DEF TypeOK, RememberIdempotency
<1>5. ASSUME NEW p \in Proc, NEW heard \in BOOLEAN, Commit(p, heard)
      PROVE  TypeOK'
  <2>1. CASE tx[p].pc = "leased"
    <3>1. tx[p].new \in Lease /\ tx[p].new.token \in Nat
      BY <2>1, TxType DEF Lease
    <3>2. QED
      BY <1>5, <2>1, <3>1 DEF TypeOK, Commit
  <2>2. CASE tx[p].pc \in {"refused", "released"}
    BY <1>5, <2>2, TxType DEF TypeOK, Commit
  <2>3. CASE tx[p].pc = "claimed"
    <3>1. tx[p].new \in KeyRow /\ tx[p].new.response \in Nat
      BY <2>3, TxType DEF KeyRow
    <3>2. [response |-> tx[p].new.response, replayed |-> FALSE] \in [response : Nat, replayed : BOOLEAN]
      BY <3>1
    <3>3. answers' \subseteq [response : Nat, replayed : BOOLEAN]
      BY <1>5, <2>3, <3>2 DEF TypeOK, Commit
    <3>4. QED
      BY <1>5, <2>3, <3>1, <3>3 DEF TypeOK, Commit
  <2>4. QED
    BY <1>5, <2>1, <2>2, <2>3 DEF Commit
<1>6. ASSUME NEW p \in Proc, Rollback(p)
      PROVE  TypeOK'
  BY <1>6 DEF TypeOK, Rollback
<1>7. CASE Tick
  BY <1>7 DEF TypeOK, Tick
<1>8. CASE UNCHANGED vars
  BY <1>8 DEF TypeOK, vars
<1>9. QED
  BY <1>1, <1>2, <1>3, <1>4, <1>5, <1>6, <1>7, <1>8 DEF Next

\* The rows, the calls and what the callers hold are of the kinds the code
\* makes, in every state (runtime-coordination.mjs).
THEOREM TypeCorrect == Spec => []TypeOK
  BY TypeInit, TypeNext, PTL DEF Spec

\* What the proofs below need of the type of tx.
LEMMA TxFunction ==
  ASSUME TypeOK
  PROVE  /\ tx = [p \in Proc |-> tx[p]] /\ held = [p \in Proc |-> held[p]]
         /\ clock \in Nat /\ calls \in Nat
         /\ owner \in [Proc -> Owner]
  BY DEF TypeOK

-----------------------------------------------------------------------------
(* The idempotency key.  Of the transactions that want to insert it one    *)
(* holds the lock, and while it does there is no row.                      *)

KeyInv ==
  /\ \A p, q \in Proc : tx[p].pc = "claimed" /\ tx[q].pc = "claimed" => p = q
  /\ \A p \in Proc : tx[p].pc = "claimed" => key = None
  /\ \A a \in answers : key # None /\ a.response = key.response

LEMMA KeyNext ==
  TypeOK /\ KeyInv /\ [Next]_vars => KeyInv'
<1> SUFFICES ASSUME TypeOK, KeyInv, [Next]_vars
             PROVE  KeyInv'
  OBVIOUS
<1> USE TxFunction
<1>1. ASSUME NEW p \in Proc, NEW op \in {"acquire", "release", "remember"}, Begin(p, op)
      PROVE  KeyInv'
  BY <1>1 DEF KeyInv, Begin
<1>2. ASSUME NEW p \in Proc, AcquireTaskLease(p)
      PROVE  KeyInv'
  BY <1>2 DEF KeyInv, AcquireTaskLease
<1>3. ASSUME NEW p \in Proc, ReleaseTaskLease(p)
      PROVE  KeyInv'
  BY <1>3 DEF KeyInv, ReleaseTaskLease, Idle
<1>4. ASSUME NEW p \in Proc, RememberIdempotency(p)
      PROVE  KeyInv'
  <2>1. CASE key = None
    BY <1>4, <2>1 DEF KeyInv, RememberIdempotency, Free, KeyWriters
  <2>2. CASE key # None
    BY <1>4, <2>2 DEF KeyInv, RememberIdempotency, Replay, Idle
  <2>3. QED
    BY <2>1, <2>2
<1>5. ASSUME NEW p \in Proc, NEW heard \in BOOLEAN, Commit(p, heard)
      PROVE  KeyInv'
  <2>1. CASE tx[p].pc = "claimed"
    <3>1. tx[p].new # None
      BY <2>1, TxType DEF TypeOK
    <3>2. answers = {}
      BY <2>1 DEF KeyInv
    <3>3. QED
      BY <1>5, <2>1, <3>1, <3>2 DEF KeyInv, Commit, Idle
  <2>2. CASE tx[p].pc # "claimed"
    BY <1>5, <2>2 DEF KeyInv, Commit, Idle
  <2>3. QED
    BY <2>1, <2>2
<1>6. ASSUME NEW p \in Proc, Rollback(p)
      PROVE  KeyInv'
  BY <1>6 DEF KeyInv, Rollback, Idle
<1>7. CASE Tick
  BY <1>7 DEF KeyInv, Tick
<1>8. CASE UNCHANGED vars
  BY <1>8 DEF KeyInv, vars
<1>9. QED
  BY <1>1, <1>2, <1>3, <1>4, <1>5, <1>6, <1>7, <1>8 DEF Next

\* Everyone who is given an answer for the key is given the same one
\* (rememberIdempotency).
THEOREM OneAnswer == Spec => []OneAnswerPerKey
<1>1. Init => KeyInv
  BY DEF Init, KeyInv, Idle
<1>2. KeyInv => OneAnswerPerKey
  BY DEF KeyInv, OneAnswerPerKey
<1>3. QED
  BY <1>1, <1>2, TypeInit, TypeNext, KeyNext, PTL DEF Spec

-----------------------------------------------------------------------------
(* The lease: the row lock, and what a transaction that holds it has       *)
(* staged.  Nobody changes the row between the statement and its COMMIT.   *)

LockInv ==
  \A p, q \in Proc : tx[p].pc \in LeaseWriters /\ tx[q].pc \in LeaseWriters => p = q

StagedInv ==
  \A p \in Proc :
    /\ tx[p].pc \in {"release", "released"} => held[p] = None
    /\ tx[p].pc = "refused" => tx[p].new = lease
    /\ tx[p].pc = "released" =>
         tx[p].new = None /\ lease # None /\ lease.owner = owner[p]

LEMMA LockNext ==
  TypeOK /\ LockInv /\ StagedInv /\ [Next]_vars => LockInv' /\ StagedInv'
<1> SUFFICES ASSUME TypeOK, LockInv, StagedInv, [Next]_vars
             PROVE  (LockInv /\ StagedInv)'
  OBVIOUS
<1> USE TxFunction DEF LeaseWriters
<1>1. ASSUME NEW p \in Proc, NEW op \in {"acquire", "release", "remember"}, Begin(p, op)
      PROVE  (LockInv /\ StagedInv)'
  BY <1>1 DEF LockInv, StagedInv, Begin, Idle
<1>2. ASSUME NEW p \in Proc, AcquireTaskLease(p)
      PROVE  (LockInv /\ StagedInv)'
  BY <1>2 DEF LockInv, StagedInv, AcquireTaskLease, Free
<1>3. ASSUME NEW p \in Proc, ReleaseTaskLease(p)
      PROVE  (LockInv /\ StagedInv)'
  <2>1. CASE OwnsLease(p)
    BY <1>3, <2>1 DEF LockInv, StagedInv, ReleaseTaskLease, Free, OwnsLease
  <2>2. CASE ~OwnsLease(p)
    BY <1>3, <2>2 DEF LockInv, StagedInv, ReleaseTaskLease, Idle
  <2>3. QED
    BY <2>1, <2>2
<1>4. ASSUME NEW p \in Proc, RememberIdempotency(p)
      PROVE  (LockInv /\ StagedInv)'
  BY <1>4 DEF LockInv, StagedInv, RememberIdempotency, Idle
<1>5. ASSUME NEW p \in Proc, NEW heard \in BOOLEAN, Commit(p, heard)
      PROVE  (LockInv /\ StagedInv)'
  <2>1. CASE tx[p].pc \in LeaseWriters
    BY <1>5, <2>1 DEF LockInv, StagedInv, Commit, Idle
  <2>2. CASE tx[p].pc \notin LeaseWriters
    BY <1>5, <2>2 DEF LockInv, StagedInv, Commit, Idle
  <2>3. QED
    BY <2>1, <2>2
<1>6. ASSUME NEW p \in Proc, Rollback(p)
      PROVE  (LockInv /\ StagedInv)'
  BY <1>6 DEF LockInv, StagedInv, Rollback, Idle
<1>7. CASE Tick
  BY <1>7 DEF LockInv, StagedInv, Tick
<1>8. CASE UNCHANGED vars
  BY <1>8 DEF LockInv, StagedInv, vars
<1>9. QED
  BY <1>1, <1>2, <1>3, <1>4, <1>5, <1>6, <1>7, <1>8 DEF Next

-----------------------------------------------------------------------------
(* Tokens: those granted and kept, and those in the hands of calls, are    *)
(* all different.                                                          *)

Carries(p) == tx[p].pc \in {"acquire", "release", "leased"}

Carried(p) == IF tx[p].pc = "leased" THEN tx[p].new.token ELSE tx[p].token

TokenInv ==
  /\ \A p \in Proc : held[p] # None => held[p].token <= calls
  /\ \A p \in Proc : Carries(p) => Carried(p) <= calls
  /\ \A p, q \in Proc : Carries(p) /\ held[q] # None => Carried(p) # held[q].token
  /\ \A p, q \in Proc : held[p] # None /\ held[q] # None /\ held[p].token = held[q].token => p = q
  /\ \A p, q \in Proc : Carries(p) /\ Carries(q) /\ Carried(p) = Carried(q) => p = q

\* A call that does not touch the tokens, or lets one go.
LEMMA TokenDropped ==
  ASSUME TokenInv, held' = held, calls' = calls, NEW p \in Proc,
         \A q \in Proc \ {p} : tx'[q] = tx[q],
         Carries(p)' => Carries(p) /\ Carried(p)' = Carried(p)
  PROVE  TokenInv'
<1>1. \A q \in Proc : Carries(q)' => Carries(q) /\ Carried(q)' = Carried(q)
  BY DEF Carries, Carried
<1>2. QED
  BY <1>1 DEF TokenInv

LEMMA TokenNext == TypeOK /\ TokenInv /\ [Next]_vars => TokenInv'
<1> SUFFICES ASSUME TypeOK, TokenInv, [Next]_vars
             PROVE  TokenInv'
  OBVIOUS
<1> USE TxFunction
<1>1. ASSUME NEW p \in Proc, NEW op \in {"acquire", "release", "remember"}, Begin(p, op)
      PROVE  TokenInv'
  <2>1. \A q \in Proc \ {p} : tx'[q] = tx[q] /\ held'[q] = held[q]
    BY <1>1 DEF Begin
  <2>2. \A q \in Proc \ {p} : Carries(q)' = Carries(q) /\ Carried(q)' = Carried(q)
    BY <2>1 DEF Carries, Carried
  <2>3. \A q \in Proc : held[q] # None => held[q].token \in Nat
    BY DEF TypeOK, Lease
  <2>4. \A q \in Proc : Carries(q) => Carried(q) \in Nat
    BY TxType DEF Carries, Carried, Lease
  <2>5. CASE op = "release"
    <3>1. held[p] # None /\ held'[p] = None /\ Carried(p)' = held[p].token /\ calls' = calls + 1
      BY <1>1, <2>5 DEF Begin, Carried
    <3>2. QED
      BY <2>1, <2>2, <2>3, <2>4, <3>1 DEF TokenInv
  <2>6. CASE op # "release"
    <3>1. held' = held /\ calls' = calls + 1 /\ Carried(p)' = calls + 1
      BY <1>1, <2>6 DEF Begin, Carried
    <3>2. QED
      BY <2>2, <2>3, <2>4, <3>1 DEF TokenInv
  <2>7. QED
    BY <2>5, <2>6
<1>2. ASSUME NEW p \in Proc, AcquireTaskLease(p)
      PROVE  TokenInv'
  BY <1>2, TokenDropped DEF AcquireTaskLease, Carries, Carried, NewLease
<1>3. ASSUME NEW p \in Proc, ReleaseTaskLease(p)
      PROVE  TokenInv'
  BY <1>3, TokenDropped DEF ReleaseTaskLease, Carries, Carried, Idle
<1>4. ASSUME NEW p \in Proc, RememberIdempotency(p)
      PROVE  TokenInv'
  BY <1>4, TokenDropped DEF RememberIdempotency, Carries, Carried, Idle
<1>5. ASSUME NEW p \in Proc, NEW heard \in BOOLEAN, Commit(p, heard)
      PROVE  TokenInv'
  <2>1. CASE tx[p].pc = "leased" /\ heard
    <3>1. tx[p].new # None /\ held' = [held EXCEPT ![p] = tx[p].new] /\ calls' = calls
      BY <1>5, <2>1, TxType DEF Commit
    <3>2. Carries(p) /\ Carried(p) = tx[p].new.token /\ ~Carries(p)'
      BY <1>5, <2>1 DEF Commit, Carries, Carried, Idle
    <3>3. \A q \in Proc \ {p} : Carries(q)' = Carries(q) /\ Carried(q)' = Carried(q)
      BY <1>5 DEF Commit, Carries, Carried
    <3>4. QED
      BY <3>1, <3>2, <3>3 DEF TokenInv
  <2>2. CASE ~(tx[p].pc = "leased" /\ heard)
    <3>1. held' = held /\ calls' = calls /\ ~Carries(p)'
      BY <1>5, <2>2 DEF Commit, Carries, Idle
    <3>2. QED
      BY <1>5, <3>1, TokenDropped DEF Commit
  <2>3. QED
    BY <2>1, <2>2
<1>6. ASSUME NEW p \in Proc, Rollback(p)
      PROVE  TokenInv'
  BY <1>6, TokenDropped DEF Rollback, Carries, Idle
<1>7. CASE Tick
  BY <1>7 DEF TokenInv, Carries, Carried, Tick
<1>8. CASE UNCHANGED vars
  BY <1>8 DEF TokenInv, Carries, Carried, vars
<1>9. QED
  BY <1>1, <1>2, <1>3, <1>4, <1>5, <1>6, <1>7, <1>8 DEF Next

-----------------------------------------------------------------------------
(* The last lease granted.                                                 *)

\* A DELETE that has found its row took it from nobody who relies on it.
LatestInv ==
  /\ LatestGrantStands
  /\ \A p, q \in Proc :
       tx[p].pc = "released" /\ held[q] # None => held[q] # lease

LEMMA LatestNext ==
  /\ TypeOK /\ LockInv /\ StagedInv /\ TokenInv /\ LatestInv /\ [Next]_vars
  => LatestInv'
<1> SUFFICES ASSUME TypeOK, LockInv, StagedInv, TokenInv, LatestInv, [Next]_vars
             PROVE  LatestInv'
  OBVIOUS
<1> USE TxFunction DEF LatestInv, LatestGrantStands
<1>1. ASSUME NEW p \in Proc, NEW op \in {"acquire", "release", "remember"}, Begin(p, op)
      PROVE  LatestInv'
  BY <1>1 DEF Begin
<1>2. ASSUME NEW p \in Proc, AcquireTaskLease(p)
      PROVE  LatestInv'
  BY <1>2 DEF AcquireTaskLease
<1>3. ASSUME NEW p \in Proc, ReleaseTaskLease(p)
      PROVE  LatestInv'
  <2>1. CASE OwnsLease(p)
    <3>1. Carries(p) /\ Carried(p) = tx[p].token
      BY <1>3 DEF ReleaseTaskLease, Carries, Carried
    <3>2. \A q \in Proc : held[q] # None => held[q] # lease
      BY <2>1, <3>1 DEF OwnsLease, TokenInv
    <3>3. QED
      BY <1>3, <3>2 DEF ReleaseTaskLease
  <2>2. CASE ~OwnsLease(p)
    BY <1>3, <2>2 DEF ReleaseTaskLease, Idle
  <2>3. QED
    BY <2>1, <2>2
<1>4. ASSUME NEW p \in Proc, RememberIdempotency(p)
      PROVE  LatestInv'
  BY <1>4 DEF RememberIdempotency, Idle
<1>5. ASSUME NEW p \in Proc, NEW heard \in BOOLEAN, Commit(p, heard)
      PROVE  LatestInv'
  <2>1. CASE tx[p].pc = "leased"
    <3>1. /\ lease' = tx[p].new /\ last' = tx[p].new.token
          /\ held' = IF heard THEN [held EXCEPT ![p] = tx[p].new] ELSE held
      BY <1>5, <2>1 DEF Commit
    <3>2. \A q \in Proc : held[q] # None => held[q].token # tx[p].new.token
      BY <2>1 DEF TokenInv, Carries, Carried
    <3>3. \A q \in Proc : tx'[q].pc # "released"
      BY <1>5, <2>1 DEF Commit, LockInv, LeaseWriters, Idle
    <3>4. QED
      BY <3>1, <3>2, <3>3
  <2>2. CASE tx[p].pc = "refused"
    <3>1. lease' = lease
      BY <1>5, <2>2 DEF Commit, StagedInv
    <3>2. QED
      BY <1>5, <2>2, <3>1 DEF Commit, Idle
  <2>3. CASE tx[p].pc = "released"
    <3>1. \A q \in Proc : held[q] # None => held[q].token # last
      BY <2>3
    <3>2. \A q \in Proc : tx'[q].pc # "released"
      BY <1>5, <2>3 DEF Commit, LockInv, LeaseWriters, Idle
    <3>3. QED
      BY <1>5, <2>3, <3>1, <3>2 DEF Commit
  <2>4. CASE tx[p].pc = "claimed"
    BY <1>5, <2>4 DEF Commit, Idle
  <2>5. QED
    BY <1>5, <2>1, <2>2, <2>3, <2>4 DEF Commit
<1>6. ASSUME NEW p \in Proc, Rollback(p)
      PROVE  LatestInv'
  BY <1>6 DEF Rollback, Idle
<1>7. CASE Tick
  BY <1>7 DEF Tick
<1>8. CASE UNCHANGED vars
  BY <1>8 DEF vars
<1>9. QED
  BY <1>1, <1>2, <1>3, <1>4, <1>5, <1>6, <1>7, <1>8 DEF Next

\* The lease granted last stays in the table until its holder asks to
\* release it (acquireTaskLease and releaseTaskLease).
THEOREM LatestStands == Spec => []LatestGrantStands
<1>1. Init => LockInv /\ StagedInv /\ TokenInv /\ LatestInv
  BY DEF Init, LockInv, StagedInv, TokenInv, LatestInv, LatestGrantStands, Idle,
         LeaseWriters, Carries
<1>2. LatestInv => LatestGrantStands
  BY DEF LatestInv
<1>3. QED
  BY <1>1, <1>2, TypeInit, TypeNext, LockNext, TokenNext, LatestNext, PTL DEF Spec

-----------------------------------------------------------------------------
(* Owners.  A lease is taken from another owner only after it has expired, *)
(* by the time of a transaction that began earlier still.                  *)

TimeInv ==
  \A p \in Proc :
    /\ held[p] # None => held[p].expires <= clock + LeaseSeconds
    /\ tx[p].pc \in {"acquire", "release", "remember"} => tx[p].at <= clock
    /\ tx[p].pc = "acquire" /\ held[p] # None =>
         held[p].expires <= tx[p].at + LeaseSeconds
    /\ tx[p].pc = "leased" =>
         /\ tx[p].new.owner = owner[p]
         /\ tx[p].new.expires <= clock + LeaseSeconds
         /\ held[p] # None => held[p].expires <= tx[p].new.expires
         /\ lease = None \/ lease.expires <= clock \/ lease.owner = owner[p]

LEMMA TimeNext ==
  TypeOK /\ LockInv /\ TimeInv /\ [Next]_vars => TimeInv'
<1> SUFFICES ASSUME TypeOK, LockInv, TimeInv, [Next]_vars
             PROVE  TimeInv'
  OBVIOUS
<1> USE TxFunction DEF TimeInv
<1>1. ASSUME NEW p \in Proc, NEW op \in {"acquire", "release", "remember"}, Begin(p, op)
      PROVE  TimeInv'
  BY <1>1 DEF Begin
<1>2. ASSUME NEW p \in Proc, AcquireTaskLease(p)
      PROVE  TimeInv'
  <2>1. tx[p].at \in Nat /\ tx[p].at <= clock
    BY <1>2, TxType DEF AcquireTaskLease
  <2>2. lease # None => lease.expires \in Nat
    BY DEF TypeOK, Lease
  <2>3. CASE MayTake(p)
    <3>1. /\ NewLease(p).owner = owner[p]
          /\ NewLease(p).expires = tx[p].at + LeaseSeconds
      BY DEF NewLease
    <3>2. tx' = [tx EXCEPT ![p] = [pc |-> "leased", new |-> NewLease(p)]]
      BY <1>2, <2>3 DEF AcquireTaskLease
    <3>3. lease = None \/ lease.expires <= clock \/ lease.owner = owner[p]
      BY <2>1, <2>2, <2>3 DEF MayTake
    <3>4. QED
      BY <1>2, <2>1, <3>1, <3>2, <3>3 DEF AcquireTaskLease
  <2>4. CASE ~MayTake(p)
    BY <1>2, <2>4 DEF AcquireTaskLease
  <2>5. QED
    BY <2>3, <2>4
<1>3. ASSUME NEW p \in Proc, ReleaseTaskLease(p)
      PROVE  TimeInv'
  BY <1>3 DEF ReleaseTaskLease, Idle
<1>4. ASSUME NEW p \in Proc, RememberIdempotency(p)
      PROVE  TimeInv'
  BY <1>4 DEF RememberIdempotency, Idle
<1>5. ASSUME NEW p \in Proc, NEW heard \in BOOLEAN, Commit(p, heard)
      PROVE  TimeInv'
  <2>1. CASE tx[p].pc \in LeaseWriters
    <3>1. \A q \in Proc : tx'[q].pc # "leased"
      BY <1>5, <2>1 DEF Commit, LockInv, LeaseWriters, Idle
    <3>2. \A q \in Proc \ {p} : tx'[q] = tx[q] /\ held'[q] = held[q]
      BY <1>5 DEF Commit
    <3>3. tx'[p] = Idle /\ (held'[p] = held[p] \/ (tx[p].pc = "leased" /\ held'[p] = tx[p].new))
      BY <1>5 DEF Commit
    <3>4. clock' = clock /\ owner' = owner
      BY <1>5 DEF Commit
    <3>5. QED
      BY <3>1, <3>2, <3>3, <3>4 DEF Idle
  <2>2. CASE tx[p].pc \notin LeaseWriters
    BY <1>5, <2>2 DEF Commit, Idle, LeaseWriters
  <2>3. QED
    BY <2>1, <2>2
<1>6. ASSUME NEW p \in Proc, Rollback(p)
      PROVE  TimeInv'
  BY <1>6 DEF Rollback, Idle
<1>7. CASE Tick
  <2>1. \A p \in Proc :
          /\ held[p] # None => held[p].expires \in Nat
          /\ tx[p].pc = "leased" => tx[p].new.expires \in Nat
          /\ tx[p].pc \in {"acquire", "release", "remember"} => tx[p].at \in Nat
    BY TxType DEF TypeOK, Lease
  <2>2. lease # None => lease.expires \in Nat
    BY DEF TypeOK, Lease
  <2>3. QED
    BY <1>7, <2>1, <2>2 DEF Tick
<1>8. CASE UNCHANGED vars
  BY <1>8 DEF vars
<1>9. QED
  BY <1>1, <1>2, <1>3, <1>4, <1>5, <1>6, <1>7, <1>8 DEF Next

\* While the only process of an owner relies on its lease, the table holds
\* a lease of that owner which lasts at least as long.
SoleInv ==
  \A p \in Proc : Sole(p) /\ Relies(p) =>
    lease # None /\ lease.owner = owner[p] /\ held[p].expires <= lease.expires

LEMMA SoleNext ==
  /\ TypeOK /\ StagedInv /\ TimeInv /\ SoleInv /\ [Next]_vars
  => SoleInv'
<1> SUFFICES ASSUME TypeOK, StagedInv, TimeInv, SoleInv, [Next]_vars
             PROVE  SoleInv'
  OBVIOUS
<1> USE TxFunction DEF SoleInv, Sole, Relies
<1>1. ASSUME NEW p \in Proc, NEW op \in {"acquire", "release", "remember"}, Begin(p, op)
      PROVE  SoleInv'
  BY <1>1 DEF Begin
<1>2. ASSUME NEW p \in Proc, AcquireTaskLease(p)
      PROVE  SoleInv'
  BY <1>2 DEF AcquireTaskLease
<1>3. ASSUME NEW p \in Proc, ReleaseTaskLease(p)
      PROVE  SoleInv'
  BY <1>3 DEF ReleaseTaskLease
<1>4. ASSUME NEW p \in Proc, RememberIdempotency(p)
      PROVE  SoleInv'
  BY <1>4 DEF RememberIdempotency
<1>5. ASSUME NEW p \in Proc, NEW heard \in BOOLEAN, Commit(p, heard)
      PROVE  SoleInv'
  <2>1. CASE tx[p].pc = "leased"
    <3>1. /\ lease' = tx[p].new /\ tx[p].new \in Lease /\ owner' = owner /\ clock' = clock
          /\ held' = IF heard THEN [held EXCEPT ![p] = tx[p].new] ELSE held
          /\ tx[p].new.owner = owner[p]
      BY <1>5, <2>1, TxType DEF Commit, TimeInv
    <3>2. ASSUME NEW q \in Proc \ {p}, Sole(q), Relies(q)
          PROVE  FALSE
      <4>1. lease # None /\ lease.owner = owner[q] /\ held[q].expires <= lease.expires
        BY <3>2
      <4>2. lease.expires <= clock
        BY <2>1, <3>2, <4>1 DEF TimeInv
      <4>3. lease.expires \in Nat /\ held[q].expires \in Nat
        BY <3>2, <4>1 DEF TypeOK, Lease
      <4>4. QED
        BY <3>2, <4>1, <4>2, <4>3
    <3>3. tx[p].new # None /\ tx[p].new.expires \in Nat
      BY <3>1 DEF Lease
    <3>4. held[p] # None => held[p].expires <= tx[p].new.expires
      BY <2>1 DEF TimeInv
    <3>5. QED
      BY <3>1, <3>2, <3>3, <3>4
  <2>2. CASE tx[p].pc = "refused"
    <3>1. lease' = lease
      BY <1>5, <2>2 DEF Commit, StagedInv
    <3>2. QED
      BY <1>5, <2>2, <3>1 DEF Commit
  <2>3. CASE tx[p].pc = "released"
    <3>1. lease # None /\ lease.owner = owner[p] /\ held[p] = None
      BY <2>3 DEF StagedInv
    <3>2. \A q \in Proc : ~(Sole(q) /\ Relies(q))
      BY <3>1
    <3>3. QED
      BY <1>5, <2>3, <3>2 DEF Commit
  <2>4. CASE tx[p].pc = "claimed"
    BY <1>5, <2>4 DEF Commit
  <2>5. QED
    BY <1>5, <2>1, <2>2, <2>3, <2>4 DEF Commit
<1>6. ASSUME NEW p \in Proc, Rollback(p)
      PROVE  SoleInv'
  BY <1>6 DEF Rollback
<1>7. CASE Tick
  <2>1. \A p \in Proc : held[p] # None => held[p].expires \in Nat
    BY DEF TypeOK, Lease
  <2>2. \A p \in Proc : Relies(p)' => Relies(p)
    BY <1>7, <2>1 DEF Tick
  <2>3. QED
    BY <1>7, <2>2 DEF Tick
<1>8. CASE UNCHANGED vars
  BY <1>8 DEF vars
<1>9. QED
  BY <1>1, <1>2, <1>3, <1>4, <1>5, <1>6, <1>7, <1>8 DEF Next

\* Two owners, each one process, never rely on the lease at the same time
\* (acquireTaskLease).
THEOREM OneOwner == Spec => []OwnersExclude
<1>1. Init => LockInv /\ StagedInv /\ TimeInv /\ SoleInv
  BY DEF Init, LockInv, StagedInv, TimeInv, SoleInv, Relies, Idle, LeaseWriters
<1>2. SoleInv => OwnersExclude
  BY DEF SoleInv, OwnersExclude, Sole
<1>3. QED
  BY <1>1, <1>2, TypeInit, TypeNext, LockNext, TimeNext, SoleNext, PTL DEF Spec

USE MigrationConstants DEF Version

-----------------------------------------------------------------------------
(* The schema. *)

Held == {"sql", "recorded"}  \* the steps that hold the advisory lock

MigrationInv ==
  /\ tracked \in BOOLEAN /\ applied \subseteq Version /\ ran \in [Version -> Nat]
  /\ mig \in [Migrator -> [pc : {"none", "tracking", "next", "sql", "recorded", "ended"},
                           release : 0..Files, at : 0..Files]]
  /\ runs \in Nat
  /\ SchemaIsWhole
  /\ \A m \in Migrator :
       mig[m].pc \in {"tracking", "next", "sql", "recorded"} =>
         /\ 1 <= mig[m].at /\ mig[m].at <= mig[m].release
         /\ 1..(mig[m].at - 1) \subseteq applied
  /\ \A m \in Migrator : mig[m].pc \in Held => mig[m].at \notin applied
  /\ \A m, o \in Migrator : mig[m].pc \in Held /\ mig[o].pc \in Held => m = o

LEMMA MigrationInvInit == MigrationInit => MigrationInv
<1> SUFFICES ASSUME MigrationInit
             PROVE  MigrationInv
  OBVIOUS
<1>1. PICK n \in 0..Files :
        /\ tracked = (n > 0) /\ applied = 1..n
        /\ ran = [v \in Version |-> IF v <= n THEN 1 ELSE 0]
        /\ mig = [m \in Migrator |-> NotStarted] /\ runs = 0
  BY DEF MigrationInit
<1>2. SchemaIsWhole
  BY <1>1 DEF SchemaIsWhole
<1>3. QED
  BY <1>1, <1>2 DEF MigrationInv, NotStarted, Held

\* A migrator that goes on to the next file, or ends, has its file applied.
LEMMA AdvanceKeeps ==
  ASSUME MigrationInv, NEW m \in Migrator, Advance(m),
         mig[m].pc \in {"next", "recorded"},
         applied' = applied \cup {mig[m].at}, runs' = runs, tracked' = tracked,
         ran' \in [Version -> Nat], SchemaIsWhole',
         \A o \in Migrator \ {m} : mig[o].pc \in Held => mig[o].at \notin applied'
  PROVE  MigrationInv'
<1> DEFINE a == mig[m].at
<1>1. a \in 1..Files /\ mig[m].release \in 0..Files /\ a <= mig[m].release
      /\ 1..(a - 1) \subseteq applied
  BY DEF MigrationInv
<1>2. \A o \in Migrator \ {m} : mig'[o] = mig[o]
  BY DEF MigrationInv, Advance
<1>3. mig'[m] = IF a = mig[m].release THEN Ended
                ELSE [pc |-> "next", release |-> mig[m].release, at |-> a + 1]
  BY DEF MigrationInv, Advance, AfterFile
<1>4. 1..a \subseteq applied'
  BY <1>1
<1>5. mig' \in [Migrator -> [pc : {"none", "tracking", "next", "sql", "recorded", "ended"},
                            release : 0..Files, at : 0..Files]]
  <2>1. mig'[m] \in [pc : {"none", "tracking", "next", "sql", "recorded", "ended"},
                     release : 0..Files, at : 0..Files]
    <3>1. CASE a = mig[m].release
      BY <1>3, <3>1 DEF Ended, NotStarted
    <3>2. CASE a # mig[m].release
      <4>1. a + 1 \in 0..Files
        BY <1>1, <3>2
      <4>2. QED
        BY <1>1, <1>3, <3>2, <4>1
    <3>3. QED
      BY <3>1, <3>2
  <2>2. QED
    BY <2>1, <1>2 DEF MigrationInv, Advance
<1>6. mig'[m].pc \notin Held /\ mig'[m].pc # "tracking"
  BY <1>3 DEF MigrationInv, Ended, NotStarted, Held
<1>7. mig'[m].pc = "next" =>
        /\ 1 <= mig'[m].at /\ mig'[m].at <= mig'[m].release
        /\ 1..(mig'[m].at - 1) \subseteq applied'
  <2>1. CASE a = mig[m].release
    BY <1>3, <2>1 DEF Ended, NotStarted
  <2>2. CASE a # mig[m].release
    <3>1. mig'[m].at = a + 1 /\ mig'[m].release = mig[m].release
      BY <1>3, <2>2 DEF MigrationInv
    <3>2. QED
      BY <1>1, <1>4, <2>2, <3>1
  <2>3. QED
    BY <2>1, <2>2
<1>8. applied' \subseteq Version
  BY <1>1 DEF MigrationInv
<1>9. \A o \in Migrator :
        mig'[o].pc \in {"tracking", "next", "sql", "recorded"} =>
          /\ 1 <= mig'[o].at /\ mig'[o].at <= mig'[o].release
          /\ 1..(mig'[o].at - 1) \subseteq applied'
  <2>1. ASSUME NEW o \in Migrator \ {m}, mig[o].pc \in {"tracking", "next", "sql", "recorded"}
        PROVE  /\ 1 <= mig[o].at /\ mig[o].at <= mig[o].release
               /\ 1..(mig[o].at - 1) \subseteq applied'
    BY <2>1 DEF MigrationInv
  <2>2. QED
    BY <1>2, <1>6, <1>7, <2>1 DEF Held
<1>10. /\ \A o \in Migrator : mig'[o].pc \in Held => mig'[o].at \notin applied'
       /\ \A o, n \in Migrator : mig'[o].pc \in Held /\ mig'[n].pc \in Held => o = n
  BY <1>2, <1>6 DEF MigrationInv
<1>11. tracked' \in BOOLEAN /\ runs' \in Nat
  BY DEF MigrationInv
<1>12. QED
  BY <1>5, <1>8, <1>9, <1>10, <1>11 DEF MigrationInv

\* A migrator that stays at its file, with or without the lock.
LEMMA StepKeeps ==
  ASSUME MigrationInv, NEW m \in Migrator, NEW pc \in {"next", "sql", "recorded"},
         mig[m].pc \in {"tracking", "next", "sql"},
         mig' = [mig EXCEPT ![m].pc = pc], applied' = applied, ran' = ran, runs' = runs,
         tracked' \in BOOLEAN,
         pc \in Held => /\ mig[m].at \notin applied
                        /\ \A o \in Migrator \ {m} : mig[o].pc \notin Held
  PROVE  MigrationInv'
<1>1. \A o \in Migrator \ {m} : mig'[o] = mig[o]
  BY DEF MigrationInv
<1>2. mig'[m].pc = pc /\ mig'[m].at = mig[m].at /\ mig'[m].release = mig[m].release
  BY DEF MigrationInv
<1>3. SchemaIsWhole'
  BY DEF MigrationInv, SchemaIsWhole
<1>4. QED
  BY <1>1, <1>2, <1>3 DEF MigrationInv

\* A migrator that ends where it is.
LEMMA EndKeeps ==
  ASSUME MigrationInv, NEW m \in Migrator, mig' = [mig EXCEPT ![m] = Ended],
         applied' = applied, ran' = ran, runs' = runs, tracked' = tracked
  PROVE  MigrationInv'
<1>1. SchemaIsWhole'
  BY DEF MigrationInv, SchemaIsWhole
<1>2. QED
  BY <1>1 DEF MigrationInv, Ended, NotStarted, Held

LEMMA MigrationInvNext ==
  MigrationInv /\ Migrate => MigrationInv'
<1> SUFFICES ASSUME MigrationInv, NEW m \in Migrator,
                    \/ StartMigrator(m) \/ CreateTracking(m) \/ LockAndLook(m) \/ Execute(m)
                    \/ (\E heard \in BOOLEAN : CommitMigration(m, heard)) \/ MigratorFails(m)
             PROVE  MigrationInv'
  BY DEF Migrate
<1>1. CASE StartMigrator(m)
  <2>1. PICK n \in Version :
          mig' = [mig EXCEPT ![m] = [pc |-> "tracking", release |-> n, at |-> 1]]
    BY <1>1 DEF StartMigrator
  <2>2. SchemaIsWhole'
    BY <1>1 DEF StartMigrator, MigrationInv, SchemaIsWhole
  <2>3. 1..(1 - 1) = {}
    OBVIOUS
  <2>4. QED
    BY <1>1, <2>1, <2>2, <2>3 DEF StartMigrator, MigrationInv, Held
<1>2. CASE CreateTracking(m)
  BY <1>2, StepKeeps, EndKeeps DEF CreateTracking, Held, MigrationInv
<1>3. CASE LockAndLook(m)
  <2>1. CASE mig[m].at \in applied
    <3>1. SchemaIsWhole' /\ ran' \in [Version -> Nat]
      BY <1>3 DEF LockAndLook, MigrationInv, SchemaIsWhole
    <3>2. QED
      BY <1>3, <2>1, <3>1, AdvanceKeeps DEF LockAndLook, Held
  <2>2. CASE mig[m].at \notin applied
    BY <1>3, <2>2, StepKeeps DEF LockAndLook, Held, MigrationInv
  <2>3. QED
    BY <2>1, <2>2
<1>4. CASE Execute(m)
  BY <1>4, StepKeeps DEF Execute, Held, MigrationInv
<1>5. ASSUME NEW heard \in BOOLEAN, CommitMigration(m, heard)
      PROVE  MigrationInv'
  <2> DEFINE a == mig[m].at
  <2>1. /\ a \in Version /\ a \notin applied /\ 1..(a - 1) \subseteq applied
        /\ \A o \in Migrator \ {m} : mig[o].pc \notin Held
    BY <1>5 DEF CommitMigration, MigrationInv, Held
  <2>2. applied' = applied \cup {a} /\ ran' = [ran EXCEPT ![a] = @ + 1]
    BY <1>5 DEF CommitMigration
  <2>3. ran' \in [Version -> Nat]
    BY <2>1, <2>2 DEF MigrationInv
  <2>4. SchemaIsWhole'
    <3>1. ran[a] = 0
      BY <2>1 DEF MigrationInv, SchemaIsWhole
    <3>2. \A v \in Version : ran'[v] = IF v \in applied' THEN 1 ELSE 0
      BY <2>1, <2>2, <3>1 DEF MigrationInv, SchemaIsWhole
    <3>3. \A v \in Version : v \in applied' => 1..v \subseteq applied'
      BY <2>1, <2>2 DEF MigrationInv, SchemaIsWhole
    <3>4. QED
      BY <3>2, <3>3 DEF SchemaIsWhole
  <2>5. CASE heard
    BY <1>5, <2>1, <2>2, <2>3, <2>4, <2>5, AdvanceKeeps DEF CommitMigration
  <2>6. CASE ~heard
    <3>1. mig' = [mig EXCEPT ![m] = Ended] /\ runs' = runs /\ tracked' = tracked
      BY <1>5, <2>6 DEF CommitMigration
    <3>2. applied' \subseteq Version
      BY <2>1, <2>2 DEF MigrationInv
    <3>3. QED
      BY <2>1, <2>2, <2>3, <2>4, <3>1, <3>2 DEF MigrationInv, Ended, NotStarted, Held
  <2>7. QED
    BY <2>5, <2>6
<1>6. CASE MigratorFails(m)
  BY <1>6, EndKeeps DEF MigratorFails
<1>7. QED
  BY <1>1, <1>2, <1>3, <1>4, <1>5, <1>6

LEMMA MigrationInvAlways == DatabaseSpec => []MigrationInv
<1>1. MigrationInv /\ UNCHANGED migrationVars => MigrationInv'
  BY DEF MigrationInv, migrationVars, SchemaIsWhole
<1>2. MigrationInv /\ [DatabaseNext]_databaseVars => MigrationInv'
  BY <1>1, MigrationInvNext DEF DatabaseNext, databaseVars, ShiftTraffic, Serve, Migrating
<1>3. QED
  BY <1>2, MigrationInvInit, PTL DEF DatabaseSpec, DatabaseInit

\* Whatever migrators overlap, fail or are killed: what schema_migrations
\* records was executed, once and in order (migrate.mjs).
THEOREM SchemaStaysWhole == DatabaseSpec => []SchemaIsWhole
<1>1. MigrationInv => SchemaIsWhole
  BY DEF MigrationInv
<1>2. QED
  BY <1>1, MigrationInvAlways, PTL

-----------------------------------------------------------------------------
(* The leases and keys over the same database. *)

\* Migrators leave the coordination tables alone: a step of Database is a
\* step of Coordination or a stutter.
THEOREM Coordinates == DatabaseSpec => Spec
<1>1. [DatabaseNext]_databaseVars => [Next]_vars
  BY DEF DatabaseNext, databaseVars, ShiftTraffic, Serve, Migrating
<1>2. QED
  BY <1>1, PTL DEF DatabaseSpec, DatabaseInit, Spec

\* So leases exclude each other, the last one stands and a key has one
\* answer while migrators run (runtime-coordination.mjs, migrate.mjs).
THEOREM CoordinationHolds ==
  DatabaseSpec => [](LatestGrantStands /\ OwnersExclude /\ OneAnswerPerKey)
  BY Coordinates, LatestStands, OneOwner, OneAnswer, PTL

-----------------------------------------------------------------------------
(* Readiness. *)

\* Only a call that begins gives a process a transaction.
LEMMA TxBegins ==
  ASSUME TypeOK, [Next]_vars, NEW p \in Proc, tx[p] = Idle, tx'[p] # Idle
  PROVE  calls' > calls
<1> USE TxFunction
<1>1. ASSUME NEW q \in Proc, NEW op \in {"acquire", "release", "remember"}, Begin(q, op)
      PROVE  calls' > calls
  BY <1>1 DEF Begin
<1>2. ASSUME NEW q \in Proc,
             \/ AcquireTaskLease(q) \/ ReleaseTaskLease(q) \/ RememberIdempotency(q)
      PROVE  FALSE
  BY <1>2 DEF AcquireTaskLease, ReleaseTaskLease, RememberIdempotency, Idle
<1>3. ASSUME NEW q \in Proc, NEW heard \in BOOLEAN, Commit(q, heard)
      PROVE  FALSE
  BY <1>3 DEF Commit, Idle
<1>4. ASSUME NEW q \in Proc, Rollback(q)
      PROVE  FALSE
  BY <1>4 DEF Rollback, Idle
<1>5. CASE Tick \/ UNCHANGED vars
  BY <1>5 DEF Tick, vars
<1>6. QED
  BY <1>1, <1>2, <1>3, <1>4, <1>5 DEF Next

\* A version once executed stays executed.
LEMMA RanGrows ==
  ASSUME MigrationInv, Migrate
  PROVE  \A v \in Version : ran'[v] >= ran[v]
<1>1. ASSUME NEW m \in Migrator, NEW heard \in BOOLEAN, CommitMigration(m, heard)
      PROVE  \A v \in Version : ran'[v] >= ran[v]
  BY <1>1 DEF CommitMigration, MigrationInv
<1>2. ASSUME ran' = ran
      PROVE  \A v \in Version : ran'[v] >= ran[v]
  BY <1>2 DEF MigrationInv
<1>3. QED
  BY <1>1, <1>2 DEF Migrate, StartMigrator, CreateTracking, LockAndLook, Execute, MigratorFails

\* Calls come with the traffic, and the traffic with the last migration.
TrafficInv ==
  /\ traffic => ran[Files] > 0
  /\ \A p \in Proc : tx[p] # Idle => traffic

\* Readiness is asked once, and no later call meets a missing table
\* (database-readiness, and its caller checkRuntimeReadiness).
THEOREM ReadyStaysReady == DatabaseSpec => []TablesAreThere
<1>1. DatabaseInit => TrafficInv
  BY DEF DatabaseInit, Init, TrafficInv
<1>2. TypeOK /\ MigrationInv /\ TrafficInv /\ [DatabaseNext]_databaseVars => TrafficInv'
  <2> SUFFICES ASSUME TypeOK, MigrationInv, TrafficInv, [DatabaseNext]_databaseVars
               PROVE  TrafficInv'
    OBVIOUS
  <2>0. Files \in Version /\ ran[Files] \in Nat
    BY DEF MigrationInv
  <2>1. CASE ShiftTraffic
    <3>1. ran[Files] = 1
      BY <2>0, <2>1 DEF ShiftTraffic, Ready, MigrationInv, SchemaIsWhole
    <3>2. QED
      BY <2>1, <3>1 DEF ShiftTraffic, TrafficInv, vars, migrationVars
  <2>2. CASE Serve
    <3>1. ASSUME NEW p \in Proc, tx'[p] # Idle PROVE traffic
      BY <2>2, <3>1, TxBegins DEF Serve, TrafficInv
    <3>2. QED
      BY <2>2, <3>1 DEF Serve, TrafficInv, migrationVars
  <2>3. CASE Migrating
    <3>1. ran'[Files] >= ran[Files] /\ ran'[Files] \in Nat
      BY <2>0, <2>3, RanGrows, MigrationInvNext DEF Migrating, MigrationInv
    <3>2. QED
      BY <2>0, <2>3, <3>1 DEF Migrating, TrafficInv, vars
  <2>4. CASE UNCHANGED databaseVars
    BY <2>4 DEF TrafficInv, databaseVars, vars, migrationVars
  <2>5. QED
    BY <2>1, <2>2, <2>3, <2>4 DEF DatabaseNext
<1>3. TrafficInv => TablesAreThere
  BY DEF TrafficInv, TablesAreThere
<1>4. DatabaseSpec => []TypeOK
  BY Coordinates, TypeCorrect, PTL
<1>5. QED
  BY <1>1, <1>2, <1>3, <1>4, MigrationInvAlways, PTL DEF DatabaseSpec
=============================================================================
