--------------------------- MODULE DagFileProofs ----------------------------
(***************************************************************************)
(* Theorems about DagFile: what survives any interleaving of any number of *)
(* processes, owners and crashes.                                          *)
(***************************************************************************)
EXTENDS DagFile, DagStateProofs

\* The request file of q has been written.
OnDisk(q) == \E o \in Owner : <<q[1], q[2], o>> \in issued

InBudget(q) == q[2] <= MaxRetries[q[1]] + 1

(***************************************************************************)
(* The inductive invariant.  It says of the documents in the memory of the *)
(* processes what the theorems say of the file, since any of them may      *)
(* become the file; and that what such a document records is on disk or    *)
(* still to be written by its process, which has written it all before it  *)
(* touches dag.json.                                                       *)
(***************************************************************************)
Types ==
  /\ serial \in BOOLEAN /\ torn \in BOOLEAN
  /\ issued \subseteq Node \X (Nat \ {0}) \X Owner
  /\ pc \in [Proc -> Step]
  /\ command \in [Proc -> Command]
  /\ owner \in [Proc -> Owner]
  /\ DOMAIN next = Proc
  /\ todo \in [Proc -> SUBSET (Node \X (Nat \ {0}))]
  /\ answer \in [Proc -> {<<>>} \cup Node \X Nat]
  /\ accepted \subseteq Node \X Nat
  /\ inits \in Nat /\ crashes \in Nat

IInv ==
  /\ Types
  /\ DocumentInv(file)
  /\ \A p \in Proc : DocumentInv(next[p])
  /\ \A q \in issued : InBudget(q)
  /\ \A p \in Proc : \A q \in todo[p] : InBudget(q)
  /\ \A q \in DOMAIN file.requests : OnDisk(q)
  /\ \A p \in Proc : \A q \in DOMAIN next[p].requests : q \in todo[p] \/ OnDisk(q)
  /\ \A p \in Proc : pc[p] \in {"truncated", "overlapping"} => todo[p] = {}
  /\ \A p \in Proc : command[p] = "complete" => answer[p] \in Node \X Nat

-----------------------------------------------------------------------------
(* The steps *)

\* The initial states satisfy the invariant.
LEMMA InitIInv == Init => IInv
<1> SUFFICES ASSUME Init PROVE IInv
  OBVIOUS
<1>1. DocumentInv(InitialDocument) /\ DOMAIN InitialDocument.requests = {}
  BY InitialDocumentInv DEF InitialDocument
<1>2. Types
  BY FileAssumption DEF Types, Init, Step, Command
<1> HIDE DEF InitialDocument
<1> QED
  BY <1>1, <1>2 DEF IInv, Init

\* A command that has computed a legal document whose records are on disk or
\* in its list of request files keeps the invariant.
LEMMA BeginIInv ==
  ASSUME IInv, NEW p \in Proc, NEW name \in Command, NEW d, DocumentInv(d),
         NEW requests \in SUBSET (Node \X (Nat \ {0})),
         \A q \in requests : InBudget(q),
         \A q \in DOMAIN d.requests : q \in requests \/ OnDisk(q),
         NEW reply \in {<<>>} \cup Node \X Nat,
         name = "complete" => reply \in Node \X Nat,
         Begin(p, name, d, requests, reply), inits' \in Nat
  PROVE  IInv'
<1>1. Types'
  <2>1. DOMAIN next' = Proc
    BY DEF IInv, Types, Begin
  <2>2. /\ pc' \in [Proc -> Step] /\ command' \in [Proc -> Command]
        /\ todo' \in [Proc -> SUBSET (Node \X (Nat \ {0}))]
        /\ answer' \in [Proc -> {<<>>} \cup Node \X Nat]
    <3>1. "requests" \in Step
      BY DEF Step
    <3> QED
      BY <3>1 DEF IInv, Types, Begin
  <2> QED
    BY <2>1, <2>2 DEF IInv, Types, Begin
<1>2. /\ file' = file /\ issued' = issued
      /\ \A q : OnDisk(q)' <=> OnDisk(q)
      /\ \A q : InBudget(q)' <=> InBudget(q)
  BY DEF Begin, OnDisk, InBudget
<1>3. \A k \in Proc :
        /\ next'[k] = IF k = p THEN d ELSE next[k]
        /\ todo'[k] = IF k = p THEN requests ELSE todo[k]
        /\ pc'[k] = IF k = p THEN "requests" ELSE pc[k]
        /\ command'[k] = IF k = p THEN name ELSE command[k]
        /\ answer'[k] = IF k = p THEN reply ELSE answer[k]
  BY DEF Begin, IInv, Types
<1>4. \A k \in Proc : DocumentInv(next'[k])
  BY <1>3 DEF IInv
<1>5. \A k \in Proc : \A q \in todo'[k] : InBudget(q)
  BY <1>3 DEF IInv
<1>6. \A k \in Proc : \A q \in DOMAIN next'[k].requests : q \in todo'[k] \/ OnDisk(q)
  BY <1>3 DEF IInv
<1>7. \A k \in Proc : pc'[k] \in {"truncated", "overlapping"} => todo'[k] = {}
  BY <1>3 DEF IInv
<1>8. \A k \in Proc : command'[k] = "complete" => answer'[k] \in Node \X Nat
  BY <1>3 DEF IInv
<1> QED
  BY <1>1, <1>2, <1>4, <1>5, <1>6, <1>7, <1>8 DEF IInv

\* A command that has ended or was killed leaves nothing in memory.
LEMMA ForgetIInv ==
  ASSUME IInv, NEW p \in Proc, Forget(p),
         serial' \in BOOLEAN, torn' \in BOOLEAN, accepted' \subseteq Node \X Nat,
         inits' \in Nat, crashes' \in Nat, issued' = issued,
         pc' \in [Proc -> Step],
         \A k \in Proc \ {p} : pc'[k] \in {"truncated", "overlapping"} =>
                                 pc[k] \in {"truncated", "overlapping"},
         DocumentInv(file'),
         \A q \in DOMAIN file'.requests : OnDisk(q)
  PROVE  IInv'
<1>1. "init" \in Command /\ DocumentInv(InitialDocument)
      /\ DOMAIN InitialDocument.requests = {}
  BY InitialDocumentInv DEF Command, InitialDocument
<1>2. Types'
  BY <1>1 DEF IInv, Types, Forget
<1>3. \A k \in Proc :
        /\ next'[k] = IF k = p THEN InitialDocument ELSE next[k]
        /\ todo'[k] = IF k = p THEN {} ELSE todo[k]
        /\ command'[k] = IF k = p THEN "init" ELSE command[k]
        /\ answer'[k] = IF k = p THEN <<>> ELSE answer[k]
  BY DEF Forget, IInv, Types
<1>4. \A q : (OnDisk(q)' <=> OnDisk(q)) /\ (InBudget(q)' <=> InBudget(q))
  BY DEF OnDisk, InBudget
<1>5. \A k \in Proc : DocumentInv(next'[k])
  BY <1>1, <1>3 DEF IInv
<1>6. \A k \in Proc : \A q \in DOMAIN next'[k].requests : q \in todo'[k] \/ OnDisk(q)
  BY <1>1, <1>3 DEF IInv
<1>7. \A k \in Proc : pc'[k] \in {"truncated", "overlapping"} => todo'[k] = {}
  BY <1>3 DEF IInv
<1>8. \A k \in Proc : command'[k] = "complete" => answer'[k] \in Node \X Nat
  BY <1>3 DEF IInv
<1>9. \A k \in Proc : \A q \in todo'[k] : InBudget(q)
  BY <1>3 DEF IInv
<1> QED
  BY <1>2, <1>4, <1>5, <1>6, <1>7, <1>8, <1>9 DEF IInv

\* runScheduler reads the file.
LEMMA LoadForRunIInv ==
  ASSUME IInv, NEW p \in Proc, LoadForRun(p)
  PROVE  IInv'
<1>0. PICK change \in BOOLEAN :
        \E o \in ScheduleRunnableNodes(file, owner[p], change) :
          Begin(p, "run", o.document, o.requests, <<>>)
  BY DEF LoadForRun
<1>1. PICK o \in ScheduleRunnableNodes(file, owner[p], change) :
        Begin(p, "run", o.document, o.requests, <<>>)
  BY <1>0
<1>2. DocumentInv(file) /\ IsDocument(file) /\ owner[p] \in Owner
  BY DEF IInv, Types, DocumentInv
<1>3. DocumentInv(o.document)
  BY <1>2, ScheduleInv
<1>4. /\ DOMAIN o.document.requests = DOMAIN file.requests \cup o.requests
      /\ \A q \in o.requests : q[1] \in Node /\ q = <<q[1], file.retry[q[1]] + 1>>
  BY <1>2, ScheduleFields
<1>5. \A n \in Node : file.retry[n] \in Nat /\ file.retry[n] <= MaxRetries[n]
                      /\ MaxRetries[n] \in Nat
  BY <1>2, ValidWorkflow DEF IsDocument, DocumentInv, RetryBudget, RetryAssumption
<1>6. \A q \in o.requests : q \in Node \X (Nat \ {0}) /\ InBudget(q)
  BY <1>4, <1>5 DEF InBudget
<1>7. \A q \in DOMAIN o.document.requests : q \in o.requests \/ OnDisk(q)
  BY <1>4 DEF IInv
<1>8. inits' \in Nat /\ "run" \in Command
  BY DEF LoadForRun, IInv, Types, Command
<1> QED
  BY <1>1, <1>3, <1>6, <1>7, <1>8, BeginIInv

\* applyResultFile reads the file and the answer to a request file.
LEMMA LoadForCompleteIInv ==
  ASSUME IInv, NEW p \in Proc, LoadForComplete(p)
  PROVE  IInv'
<1>1. PICK q \in issued, status \in ResultStatus, sound \in BOOLEAN, retryable \in BOOLEAN :
        LET r == [node |-> q[1], attempt |-> q[2], status |-> status,
                  sound |-> sound, retryable |-> retryable]
        IN  /\ ValidateStageResult(file, r)
            /\ Begin(p, "complete", ApplyStageResult(file, r), {}, <<q[1], q[2]>>)
  BY DEF LoadForComplete
<1> DEFINE r == [node |-> q[1], attempt |-> q[2], status |-> status,
                 sound |-> sound, retryable |-> retryable]
           d == ApplyStageResult(file, r)
<1>2. r \in Result /\ <<q[1], q[2]>> \in Node \X Nat
  BY DEF IInv, Types, Result
<1>3. /\ ValidateStageResult(file, r)
      /\ Begin(p, "complete", d, {}, <<q[1], q[2]>>)
  BY <1>1
<1> HIDE DEF r
<1>4. DocumentInv(d)
  BY <1>2, <1>3, ApplyStageResultInv DEF IInv
<1>5. DOMAIN d.requests = DOMAIN file.requests
  BY <1>2 DEF ApplyStageResult, IInv, DocumentInv, IsDocument
<1>6. \A k \in DOMAIN d.requests : OnDisk(k)
  BY <1>5 DEF IInv
<1>7. inits' \in Nat /\ "complete" \in Command
  BY DEF LoadForComplete, IInv, Types, Command
<1> HIDE DEF d
<1> QED
  BY <1>2, <1>3, <1>4, <1>6, <1>7, BeginIInv

\* retryNode reads the file.
LEMMA LoadForRetryIInv ==
  ASSUME IInv, NEW p \in Proc, LoadForRetry(p)
  PROVE  IInv'
<1>1. PICK n \in Node : CanRetry(file, n)
                        /\ Begin(p, "retry", PrepareRetry(file, n), {}, <<>>)
  BY DEF LoadForRetry
<1> DEFINE d == PrepareRetry(file, n)
<1>2. DocumentInv(d)
  BY <1>1, PrepareRetryInv DEF IInv
<1>3. d.requests = file.requests
  BY DEF PrepareRetry, IInv, DocumentInv, IsDocument
<1>4. \A q \in DOMAIN d.requests : OnDisk(q)
  BY <1>3 DEF IInv
<1>5. inits' \in Nat /\ "retry" \in Command
  BY DEF LoadForRetry, IInv, Types, Command
<1> HIDE DEF d
<1> QED
  BY <1>1, <1>2, <1>4, <1>5, BeginIInv DEF d

\* parallel:init computes the document of a fresh run.
LEMMA InitTaskIInv ==
  ASSUME IInv, NEW p \in Proc, InitTask(p)
  PROVE  IInv'
<1>1. DocumentInv(InitialDocument) /\ DOMAIN InitialDocument.requests = {}
  BY InitialDocumentInv DEF InitialDocument
<1>2. Begin(p, "init", InitialDocument, {}, <<>>) /\ inits' \in Nat /\ "init" \in Command
  BY DEF InitTask, IInv, Types, Command
<1> QED
  BY <1>1, <1>2, BeginIInv

\* A request file moves from the list of a process to the disk.
LEMMA WriteRequestIInv ==
  ASSUME IInv, NEW p \in Proc, WriteRequest(p)
  PROVE  IInv'
<1>1. PICK q \in todo[p] : /\ issued' = issued \cup {<<q[1], q[2], owner[p]>>}
                           /\ todo' = [todo EXCEPT ![p] = @ \ {q}]
  BY DEF WriteRequest
<1>2. q \in Node \X (Nat \ {0}) /\ owner[p] \in Owner /\ InBudget(q)
  BY DEF IInv, Types
<1>3. /\ UNCHANGED <<file, serial, torn, pc, command, owner, next, answer, accepted, inits, crashes>>
  BY DEF WriteRequest
<1>4. Types'
  BY <1>1, <1>2, <1>3 DEF IInv, Types
<1>5. \A k \in Proc : todo'[k] = IF k = p THEN todo[p] \ {q} ELSE todo[k]
  BY <1>1 DEF IInv, Types
<1>6. /\ \A k : OnDisk(k) => OnDisk(k)'
      /\ OnDisk(q)'
      /\ \A k : InBudget(k)' <=> InBudget(k)
  BY <1>1, <1>2 DEF OnDisk, InBudget
<1>7. \A k \in issued' : InBudget(k)
  BY <1>1, <1>2 DEF IInv, InBudget
<1>8. \A k \in Proc : \A j \in DOMAIN next[k].requests : j \in todo'[k] \/ OnDisk(j)'
  BY <1>5, <1>6 DEF IInv
<1>9. \A k \in Proc : todo'[k] \subseteq todo[k]
  BY <1>5
<1>10. \A k \in Proc : \A j \in todo'[k] : InBudget(j)
  BY <1>9 DEF IInv
<1>11. \A k \in Proc : pc[k] \in {"truncated", "overlapping"} => todo'[k] = {}
  BY <1>9 DEF IInv
<1> QED
  BY <1>3, <1>4, <1>6, <1>7, <1>8, <1>10, <1>11 DEF IInv

\* Emptying the file changes no document.
LEMMA TruncateIInv ==
  ASSUME IInv, NEW p \in Proc, Truncate(p)
  PROVE  IInv'
<1>1. /\ UNCHANGED <<file, serial, issued, command, owner, next, todo, answer, accepted, inits, crashes>>
      /\ torn' = TRUE /\ todo[p] = {}
      /\ pc' = [q \in Proc |-> IF q = p \/ pc[q] = "overlapping" THEN "truncated" ELSE pc[q]]
  BY DEF Truncate, local
<1>2. Types'
  BY <1>1 DEF IInv, Types, Step
<1>3. \A q : (OnDisk(q)' <=> OnDisk(q)) /\ (InBudget(q)' <=> InBudget(q))
  BY <1>1 DEF OnDisk, InBudget
<1>4. \A k \in Proc : pc'[k] \in {"truncated", "overlapping"} => todo[k] = {}
  BY <1>1 DEF IInv
<1> QED
  BY <1>1, <1>2, <1>3, <1>4 DEF IInv

\* The document that becomes the file has all its records on disk.
LEMMA FillIInv ==
  ASSUME IInv, NEW p \in Proc, Fill(p)
  PROVE  IInv'
<1>1. /\ file' = next[p] /\ issued' = issued /\ inits' = inits /\ crashes' = crashes
      /\ torn' \in BOOLEAN /\ Forget(p)
      /\ pc' = [q \in Proc |-> IF q = p THEN "idle"
                               ELSE IF pc[q] = "truncated" THEN "overlapping" ELSE pc[q]]
  BY DEF Fill
<1>2. todo[p] = {}
  BY DEF Fill, IInv
<1>3. DocumentInv(file') /\ \A q \in DOMAIN file'.requests : OnDisk(q)
  BY <1>1, <1>2 DEF IInv
<1>4. accepted' \subseteq Node \X Nat
  BY DEF Fill, IInv, Types
<1>5. pc' \in [Proc -> Step]
  BY <1>1 DEF IInv, Types, Step
<1>6. \A k \in Proc \ {p} : pc'[k] \in {"truncated", "overlapping"} =>
                              pc[k] \in {"truncated", "overlapping"}
  BY <1>1
<1>7. inits' \in Nat /\ crashes' \in Nat /\ serial' \in BOOLEAN
  BY <1>1 DEF Fill, IInv, Types
<1> QED
  BY <1>1, <1>3, <1>4, <1>5, <1>6, <1>7, ForgetIInv

\* A killed process leaves the file as it is.
LEMMA CrashIInv ==
  ASSUME IInv, NEW p \in Proc, Crash(p)
  PROVE  IInv'
<1>1. /\ UNCHANGED <<file, serial, torn, issued, accepted, inits>> /\ crashes' = crashes + 1
      /\ Forget(p) /\ pc' = [pc EXCEPT ![p] = "idle"]
  BY DEF Crash
<1>2. pc' \in [Proc -> Step] /\ \A k \in Proc \ {p} : pc'[k] = pc[k]
  BY <1>1 DEF IInv, Types, Step
<1>3. /\ torn' \in BOOLEAN /\ serial' \in BOOLEAN /\ accepted' \subseteq Node \X Nat
      /\ inits' \in Nat /\ crashes' \in Nat
      /\ DocumentInv(file') /\ \A q \in DOMAIN file'.requests : OnDisk(q)
  BY <1>1 DEF IInv, Types
<1> QED
  BY <1>1, <1>2, <1>3, ForgetIInv

\* The invariant is inductive.
LEMMA NextIInv == IInv /\ [Next]_vars => IInv'
<1>1. ASSUME IInv, UNCHANGED vars PROVE IInv'
  <2>1. /\ UNCHANGED <<file, serial, torn, issued, pc, command, owner, next, todo, answer,
                       accepted, inits, crashes>>
    BY <1>1 DEF vars
  <2> QED
    BY <1>1, <2>1 DEF IInv, Types, OnDisk, InBudget
<1>2. ASSUME IInv, NEW p \in Proc,
             \/ InitTask(p) \/ LoadForRun(p) \/ LoadForComplete(p) \/ LoadForRetry(p)
             \/ WriteRequest(p) \/ Truncate(p) \/ Fill(p) \/ Crash(p)
      PROVE  IInv'
  BY <1>2, InitTaskIInv, LoadForRunIInv, LoadForCompleteIInv, LoadForRetryIInv,
     WriteRequestIInv, TruncateIInv, FillIInv, CrashIInv
<1> QED
  BY <1>1, <1>2 DEF Next

\* Every reachable state satisfies the invariant.
LEMMA SpecIInv == Spec => []IInv
BY InitIInv, NextIInv, PTL DEF Spec

-----------------------------------------------------------------------------
(* The theorems *)

\* The file and the memory of the commands always have their types.
THEOREM FileTypeCorrect == Spec => []TypeOK
<1>1. IInv => TypeOK
  BY DEF IInv, Types, TypeOK, DocumentInv
<1> QED
  BY <1>1, SpecIInv, PTL

\* A dag.json that can be parsed is a legal document, whatever the commands
\* of any number of processes have overwritten (runScheduler,
\* applyResultFile, retryNode).
THEOREM FileStaysLegal == Spec => []FileLegal
<1>1. IInv => FileLegal
  BY DEF IInv, FileLegal
<1> QED
  BY <1>1, SpecIInv, PTL

\* A recorded request always has its request file, and no interleaving or
\* crash gets a node more identities than its retry limit allows
\* (runScheduler writes the request files before the document).
THEOREM RequestsStayOnDisk == Spec => []NoRequestLost
<1>1. IInv => NoRequestLost
  BY DEF IInv, NoRequestLost, OnDisk, InBudget
<1> QED
  BY <1>1, SpecIInv, PTL

-----------------------------------------------------------------------------
(***************************************************************************)
(* Users who run one command at a time.  A command that is under way has   *)
(* the file as it read it behind it, so that the document in its memory    *)
(* follows the file in the log of requests; and it has the answers that    *)
(* were accepted before, and the one it is about to accept, on record.     *)
(***************************************************************************)
Closed(d, q) == q \in DOMAIN d.requests /\ d.requests[q] # "queued"

Continues(name, old, new) ==
  IF name = "init" THEN new.requests = Log!NoRequest
  ELSE Log!Follows(old.requests, new.requests)

OneAtATime ==
  serial =>
    /\ \A p, q \in Proc : pc[p] # "idle" /\ pc[q] # "idle" => p = q
    /\ \A q \in accepted : Closed(file, q)
    /\ \A p \in Proc : pc[p] # "idle" =>
         /\ Continues(command[p], file, next[p])
         /\ command[p] # "init" => \A q \in accepted : Closed(next[p], q)
         /\ command[p] = "complete" => Closed(next[p], answer[p])

\* A command that starts from the file keeps it that way.
LEMMA BeginOneAtATime ==
  ASSUME IInv, OneAtATime, NEW p \in Proc, NEW name, NEW d, NEW requests, NEW reply,
         Begin(p, name, d, requests, reply),
         Continues(name, file, d),
         name # "init" => \A q : Closed(file, q) => Closed(d, q),
         name = "complete" => Closed(d, reply)
  PROVE  OneAtATime'
<1> SUFFICES ASSUME serial' PROVE OneAtATime'
  BY DEF OneAtATime
<1>1. /\ serial /\ file' = file /\ accepted' = accepted
      /\ \A q \in Proc : pc[q] = "idle"
  BY DEF Begin
<1>2. \A k \in Proc :
        /\ pc'[k] # "idle" => k = p
        /\ k = p => next'[k] = d /\ command'[k] = name /\ answer'[k] = reply
  BY <1>1 DEF Begin, IInv, Types
<1>3. \A q \in accepted : Closed(file, q)
  BY <1>1 DEF OneAtATime
<1>4. ASSUME NEW k \in Proc, pc'[k] # "idle"
      PROVE  /\ Continues(command'[k], file', next'[k])
             /\ command'[k] # "init" => \A q \in accepted' : Closed(next'[k], q)
             /\ command'[k] = "complete" => Closed(next'[k], answer'[k])
  BY <1>1, <1>2, <1>3, <1>4
<1> QED
  BY <1>1, <1>2, <1>3, <1>4 DEF OneAtATime, Closed

\* A scheduler run adds waiting requests, a result settles one that waits, a retry
\* leaves them alone.
LEMMA LoadForRunOneAtATime ==
  ASSUME IInv, OneAtATime, NEW p \in Proc, LoadForRun(p)
  PROVE  OneAtATime'
<1>1. PICK change \in BOOLEAN :
        \E o \in ScheduleRunnableNodes(file, owner[p], change) :
          Begin(p, "run", o.document, o.requests, <<>>)
  BY DEF LoadForRun
<1>2. PICK o \in ScheduleRunnableNodes(file, owner[p], change) :
        Begin(p, "run", o.document, o.requests, <<>>)
  BY <1>1
<1>3. IsDocument(file) /\ owner[p] \in Owner
  BY DEF IInv, Types, DocumentInv
<1> DEFINE d == o.document
           old == file.requests
           new == d.requests
<1>4. /\ DOMAIN old \subseteq DOMAIN new
      /\ new = [q \in DOMAIN new |-> IF q \in DOMAIN old THEN old[q] ELSE "queued"]
  BY <1>3, ScheduleExtends
<1>5. Log!Follows(old, new)
  <2> HIDE DEF old, new
  <2> QED
    BY <1>4 DEF Log!Follows, Log!Sent
<1>6. \A q : Closed(file, q) => Closed(d, q)
  BY <1>3, ScheduleFields DEF Closed
<1> QED
  BY <1>2, <1>5, <1>6, BeginOneAtATime DEF Continues

LEMMA LoadForCompleteOneAtATime ==
  ASSUME IInv, OneAtATime, NEW p \in Proc, LoadForComplete(p)
  PROVE  OneAtATime'
<1>1. PICK q \in issued, status \in ResultStatus, sound \in BOOLEAN, retryable \in BOOLEAN :
        LET r == [node |-> q[1], attempt |-> q[2], status |-> status,
                  sound |-> sound, retryable |-> retryable]
        IN  /\ ValidateStageResult(file, r)
            /\ Begin(p, "complete", ApplyStageResult(file, r), {}, <<q[1], q[2]>>)
  BY DEF LoadForComplete
<1> DEFINE r == [node |-> q[1], attempt |-> q[2], status |-> status,
                 sound |-> sound, retryable |-> retryable]
           d == ApplyStageResult(file, r)
           k == <<r.node, r.attempt>>
           old == file.requests
           new == d.requests
<1>2. r \in Result /\ k = <<q[1], q[2]>> /\ r.status \in ResultStatus
  BY DEF IInv, Types, Result
<1>3. ValidateStageResult(file, r) /\ Begin(p, "complete", d, {}, <<q[1], q[2]>>)
  BY <1>1
<1> HIDE DEF r
<1>4. k \in DOMAIN old /\ old[k] = "queued"
  BY <1>2, <1>3, RunningIsQueued DEF IInv, DocumentInv
<1>5. new = [old EXCEPT ![k] = r.status]
  BY <1>2, <1>4, ResultSettles DEF IInv, DocumentInv
<1> HIDE DEF k, old, new
<1>6. Log!Follows(old, new)
  BY <1>2, <1>4, <1>5 DEF Log!Follows, Log!Settled
<1>7. \A j : (j \in DOMAIN old /\ old[j] # "queued") \/ j = k =>
                j \in DOMAIN new /\ new[j] # "queued"
  BY <1>2, <1>4, <1>5 DEF ResultStatus
<1>8. (\A j : Closed(file, j) => Closed(d, j)) /\ Closed(d, k)
  BY <1>7 DEF Closed, old, new
<1>9. Log!Follows(file.requests, d.requests)
  BY <1>6 DEF old, new
<1> HIDE DEF d
<1> QED
  BY <1>2, <1>3, <1>8, <1>9, BeginOneAtATime DEF Continues

LEMMA LoadForRetryOneAtATime ==
  ASSUME IInv, OneAtATime, NEW p \in Proc, LoadForRetry(p)
  PROVE  OneAtATime'
<1>1. PICK n \in Node : CanRetry(file, n)
                        /\ Begin(p, "retry", PrepareRetry(file, n), {}, <<>>)
  BY DEF LoadForRetry
<1> DEFINE d == PrepareRetry(file, n)
           old == file.requests
<1>2. d.requests = old /\ old \in [DOMAIN old -> RequestStatus]
  BY RetryFields DEF IInv, DocumentInv, IsDocument
<1> HIDE DEF d
<1>3. Log!Follows(old, old)
  <2>1. old = [q \in DOMAIN old |-> IF q \in DOMAIN old THEN old[q] ELSE "queued"]
    BY <1>2
  <2> HIDE DEF old
  <2> QED
    BY <2>1 DEF Log!Follows, Log!Sent
<1>4. /\ Log!Follows(file.requests, d.requests)
      /\ \A q : Closed(file, q) => Closed(d, q)
  BY <1>2, <1>3 DEF Closed
<1> QED
  BY <1>1, <1>4, BeginOneAtATime DEF d, Continues

\* parallel:init starts the log anew.
LEMMA InitTaskOneAtATime ==
  ASSUME IInv, OneAtATime, NEW p \in Proc, InitTask(p)
  PROVE  OneAtATime'
<1>1. Continues("init", file, InitialDocument)
  BY DEF Continues, Log!NoRequest, InitialDocument
<1> QED
  BY <1>1, BeginOneAtATime DEF InitTask

\* Writing request files and emptying dag.json leave the documents alone.
LEMMA WriteOneAtATime ==
  ASSUME IInv, OneAtATime, NEW p \in Proc, WriteRequest(p) \/ Truncate(p)
  PROVE  OneAtATime'
<1>1. /\ UNCHANGED <<file, serial, command, next, answer, accepted>>
      /\ \A k \in Proc : pc'[k] # "idle" => pc[k] # "idle"
  BY DEF WriteRequest, Truncate, local, IInv, Types
<1> QED
  BY <1>1 DEF OneAtATime, Closed, Continues

\* Filling it makes the document in memory the file, and no other is left.
LEMMA FillOneAtATime ==
  ASSUME IInv, OneAtATime, NEW p \in Proc, Fill(p)
  PROVE  OneAtATime'
<1> SUFFICES ASSUME serial' PROVE OneAtATime'
  BY DEF OneAtATime
<1>1. serial /\ file' = next[p] /\ pc[p] # "idle"
  BY DEF Fill
<1>2. \A k \in Proc : pc'[k] = "idle"
  BY <1>1 DEF Fill, OneAtATime
<1>3. ASSUME NEW q \in accepted' PROVE Closed(next[p], q)
  <2>1. \/ command[p] # "init" /\ q \in accepted
        \/ command[p] = "complete" /\ q = answer[p]
    BY <1>3 DEF Fill
  <2> QED
    BY <1>1, <2>1 DEF OneAtATime
<1> QED
  BY <1>1, <1>2, <1>3 DEF OneAtATime, Closed

\* A killed process leaves the file behind, and nothing else.
LEMMA CrashOneAtATime ==
  ASSUME IInv, OneAtATime, NEW p \in Proc, Crash(p)
  PROVE  OneAtATime'
<1>1. /\ UNCHANGED <<file, serial, accepted>>
      /\ \A k \in Proc : pc'[k] # "idle" =>
           /\ pc[k] # "idle"
           /\ next'[k] = next[k] /\ command'[k] = command[k] /\ answer'[k] = answer[k]
  BY DEF Crash, Forget, IInv, Types
<1> QED
  BY <1>1 DEF OneAtATime, Closed, Continues

\* Every reachable state satisfies it.
LEMMA SpecOneAtATime == Spec => []OneAtATime
<1>1. Init => OneAtATime
  BY DEF Init, OneAtATime
<1>2. ASSUME IInv, OneAtATime, UNCHANGED vars PROVE OneAtATime'
  BY <1>2 DEF vars, OneAtATime, Closed, Continues
<1>3. IInv /\ OneAtATime /\ [Next]_vars => OneAtATime'
  BY <1>2, InitTaskOneAtATime, LoadForRunOneAtATime, LoadForCompleteOneAtATime,
     LoadForRetryOneAtATime, WriteOneAtATime, FillOneAtATime, CrashOneAtATime DEF Next
<1> QED
  BY <1>1, <1>3, SpecIInv, PTL DEF Spec

\* For users who run one command at a time, an accepted result is not open in
\* dag.json any more, whatever commands are killed (applyResultFile).
THEOREM AcceptedStays == Spec => []AcceptedIsKept
<1>1. OneAtATime => AcceptedIsKept
  BY DEF OneAtATime, AcceptedIsKept, Closed
<1> QED
  BY <1>1, SpecOneAtATime, PTL

\* For them the file implements the log of requests: no command drops, reopens or
\* resends a request, and only parallel:init starts it anew (writeJson).
THEOREM FileImplementsLog == Spec => SerialLog
<1>1. Init => Log!Init
  BY DEF Init, InitialDocument, Log!Init, Log!NoRequest
<1> DEFINE Logged == IF InitIsWritten THEN file'.requests = Log!NoRequest
                   ELSE Log!Follows(file.requests, file'.requests)
<1>2. ASSUME IInv, OneAtATime, serial, Next
      PROVE  Logged \/ UNCHANGED file.requests
  <2>1. ASSUME NEW p \in Proc, Fill(p) PROVE Logged
    <3>1. pc[p] # "idle" /\ file' = next[p]
      BY <2>1 DEF Fill
    <3>2. Continues(command[p], file, next[p])
      BY <1>2, <3>1 DEF OneAtATime
    <3>3. InitIsWritten <=> command[p] = "init"
      <4>1. ASSUME NEW q \in Proc, Fill(q) PROVE q = p
        BY <1>2, <3>1, <4>1 DEF Fill, OneAtATime
      <4> QED
        BY <2>1, <4>1 DEF InitIsWritten
    <3> QED
      BY <3>1, <3>2, <3>3 DEF Continues
  <2>2. ASSUME NEW p \in Proc,
               \/ InitTask(p) \/ LoadForRun(p) \/ LoadForComplete(p) \/ LoadForRetry(p)
               \/ WriteRequest(p) \/ Truncate(p) \/ Crash(p)
        PROVE  file' = file
    BY <2>2 DEF InitTask, LoadForRun, LoadForComplete, LoadForRetry, Begin,
       WriteRequest, Truncate, Crash
  <2> QED
    BY <1>2, <2>1, <2>2 DEF Next
<1>3. IInv /\ OneAtATime /\ [Next]_vars =>
        [serial /\ file'.requests # file.requests => Logged]_vars
  BY <1>2
<1> QED
  BY <1>1, <1>3, SpecIInv, SpecOneAtATime, PTL DEF Spec, SerialLog

-----------------------------------------------------------------------------
(***************************************************************************)
(* For the same users the commands are atomic: nobody else writes between  *)
(* what a command reads and what it writes, so the document it is going to *)
(* write is still one that a command computes from the file.               *)
(***************************************************************************)
FromTheFile == serial => \A p \in Proc : pc[p] # "idle" => CommandFrom(file, next[p])

\* A command that starts computes its document from the file.
LEMMA BeginFromTheFile ==
  ASSUME IInv, NEW p \in Proc, NEW name, NEW d, NEW requests, NEW reply,
         Begin(p, name, d, requests, reply), CommandFrom(file, d)
  PROVE  FromTheFile'
<1> SUFFICES ASSUME serial' PROVE FromTheFile'
  BY DEF FromTheFile
<1>1. file' = file /\ \A q \in Proc : pc[q] = "idle"
  BY DEF Begin
<1>2. \A k \in Proc : pc'[k] # "idle" => k = p /\ next'[k] = d
  BY <1>1 DEF Begin, IInv, Types
<1> QED
  BY <1>1, <1>2 DEF FromTheFile

\* The four commands.
LEMMA LoadFromTheFile ==
  ASSUME IInv, NEW p \in Proc,
         InitTask(p) \/ LoadForRun(p) \/ LoadForComplete(p) \/ LoadForRetry(p)
  PROVE  FromTheFile'
<1>1. CASE InitTask(p)
  BY <1>1, BeginFromTheFile DEF InitTask, CommandFrom
<1>2. CASE LoadForRun(p)
  <2>1. PICK change \in BOOLEAN :
          \E o \in ScheduleRunnableNodes(file, owner[p], change) :
            Begin(p, "run", o.document, o.requests, <<>>)
    BY <1>2 DEF LoadForRun
  <2>2. PICK o \in ScheduleRunnableNodes(file, owner[p], change) :
          Begin(p, "run", o.document, o.requests, <<>>)
    BY <2>1
  <2>3. owner[p] \in Owner
    BY DEF IInv, Types
  <2>4. CommandFrom(file, o.document)
    BY <2>2, <2>3 DEF CommandFrom
  <2> QED
    BY <2>2, <2>4, BeginFromTheFile
<1>3. CASE LoadForComplete(p)
  <2>1. PICK q \in issued, status \in ResultStatus, sound \in BOOLEAN, retryable \in BOOLEAN :
          LET r == [node |-> q[1], attempt |-> q[2], status |-> status,
                    sound |-> sound, retryable |-> retryable]
          IN  /\ ValidateStageResult(file, r)
              /\ Begin(p, "complete", ApplyStageResult(file, r), {}, <<q[1], q[2]>>)
    BY <1>3 DEF LoadForComplete
  <2> DEFINE r == [node |-> q[1], attempt |-> q[2], status |-> status,
                   sound |-> sound, retryable |-> retryable]
  <2>2. r \in Result /\ r.attempt = q[2] /\ r.node = q[1] /\ q[1] \in Node
    BY DEF IInv, Types, Result
  <2>3. ValidateStageResult(file, r)
    BY <2>1
  <2>4. q[2] = file.attempt[q[1]]
    <3> HIDE DEF r
    <3> QED
      BY <2>2, <2>3, RunningIsQueued DEF IInv
  <2>5. CommandFrom(file, ApplyStageResult(file, r))
    BY <2>2, <2>3, <2>4 DEF CommandFrom
  <2> HIDE DEF r
  <2>6. Begin(p, "complete", ApplyStageResult(file, r), {}, <<q[1], q[2]>>)
    BY <2>1 DEF r
  <2> QED
    BY <2>5, <2>6, BeginFromTheFile
<1>4. CASE LoadForRetry(p)
  <2>1. PICK n \in Node : CanRetry(file, n)
                          /\ Begin(p, "retry", PrepareRetry(file, n), {}, <<>>)
    BY <1>4 DEF LoadForRetry
  <2>2. CommandFrom(file, PrepareRetry(file, n))
    BY <2>1 DEF CommandFrom
  <2> QED
    BY <2>1, <2>2, BeginFromTheFile
<1> QED
  BY <1>1, <1>2, <1>3, <1>4

\* The other steps leave the documents alone, or leave no command under way.
LEMMA OtherFromTheFile ==
  ASSUME IInv, OneAtATime, FromTheFile, NEW p \in Proc,
         WriteRequest(p) \/ Truncate(p) \/ Fill(p) \/ Crash(p)
  PROVE  FromTheFile'
<1>1. CASE WriteRequest(p) \/ Truncate(p)
  <2>1. /\ UNCHANGED <<file, serial, next>>
        /\ \A k \in Proc : pc'[k] # "idle" => pc[k] # "idle"
    BY <1>1 DEF WriteRequest, Truncate, local, IInv, Types
  <2> QED
    BY <2>1 DEF FromTheFile
<1>2. CASE Fill(p)
  <2>1. serial' => \A k \in Proc : pc'[k] = "idle"
    BY <1>2 DEF Fill, OneAtATime
  <2> QED
    BY <2>1 DEF FromTheFile
<1>3. CASE Crash(p)
  <2>1. /\ UNCHANGED <<file, serial>>
        /\ \A k \in Proc : pc'[k] # "idle" => pc[k] # "idle" /\ next'[k] = next[k]
    BY <1>3 DEF Crash, Forget, IInv, Types
  <2> QED
    BY <2>1 DEF FromTheFile
<1> QED
  BY <1>1, <1>2, <1>3

\* Reading, computing, writing request files, emptying dag.json and filling it
\* are one step for users who run one command at a time; a killed command has
\* not been run (runScheduler, applyResultFile, retryNode, writeJson).
THEOREM CommandsAreAtomic == Spec => SerialCommandsAreAtomic
<1>1. Init => FromTheFile
  BY DEF Init, FromTheFile
<1>2. ASSUME IInv, OneAtATime, FromTheFile, [Next]_vars PROVE FromTheFile'
  <2>1. CASE UNCHANGED vars
    BY <1>2, <2>1 DEF vars, FromTheFile
  <2>2. CASE Next
    BY <1>2, <2>2, LoadFromTheFile, OtherFromTheFile DEF Next
  <2> QED
    BY <1>2, <2>1, <2>2
<1>3. ASSUME FromTheFile, Next, serial
      PROVE  UNCHANGED file \/ CommandFrom(file, file')
  <2>1. ASSUME NEW p \in Proc, Fill(p) PROVE CommandFrom(file, file')
    <3>1. file' = next[p] /\ pc[p] # "idle"
      BY <2>1 DEF Fill
    <3> QED
      BY <1>3, <3>1 DEF FromTheFile
  <2>2. ASSUME NEW p \in Proc,
               \/ InitTask(p) \/ LoadForRun(p) \/ LoadForComplete(p) \/ LoadForRetry(p)
               \/ WriteRequest(p) \/ Truncate(p) \/ Crash(p)
        PROVE  file' = file
    BY <2>2 DEF InitTask, LoadForRun, LoadForComplete, LoadForRetry, Begin,
       WriteRequest, Truncate, Crash
  <2> QED
    BY <1>3, <2>1, <2>2 DEF Next
<1>4. FromTheFile /\ [Next]_vars => [serial => UNCHANGED file \/ CommandFrom(file, file')]_vars
  BY <1>3
<1> QED
  BY <1>1, <1>2, <1>4, SpecIInv, SpecOneAtATime, PTL DEF Spec, SerialCommandsAreAtomic
=============================================================================
