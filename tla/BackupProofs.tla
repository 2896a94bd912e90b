---------------------------- MODULE BackupProofs ----------------------------
(***************************************************************************)
(* Proofs about Backup, for any number of processes and commands, any      *)
(* clock, any secret documents and any environments.                       *)
(***************************************************************************)
EXTENDS Backup, Integers, TLAPS

\* The steps of one process.
Step(p) ==
  \/ StartBackup(p) \/ StartRestore(p) \/ StartResticBackup(p)
  \/ StartResticRestore(p) \/ Resolve(p) \/ FillPassfile(p) \/ Dumping(p) \/ DumpEnds(p)
  \/ Rename(p) \/ Hash(p) \/ OpenSum(p) \/ WriteSum(p) \/ RemovePartial(p)
  \/ RemovePassfile(p) \/ ReadSum(p) \/ Compare(p) \/ PgRestore(p) \/ ResticReads(p)
  \/ ResticSaves(p) \/ ResticExtracts(p) \/ ResticFills(p) \/ Kill(p)

-----------------------------------------------------------------------------
(* Types. *)

\* The stamp of a moment: division by a positive number is monotone.
LEMMA StampType == \A at \in 0..MaxClock : BackupFilePath(at) \in Stamp
<1> SUFFICES ASSUME NEW at \in 0..MaxClock
             PROVE  BackupFilePath(at) \in Stamp
  OBVIOUS
<1> DEFINE T == TicksPerSecond  a == at \div T  b == MaxClock \div T
<1>1. T \in Nat \ {0} /\ at \in Nat /\ MaxClock \in Nat /\ at <= MaxClock
  BY BackupConstants
<1>2. /\ a \in Int /\ b \in Int /\ T * a <= at /\ at < T * a + T
      /\ T * b <= MaxClock /\ MaxClock < T * b + T
  BY <1>1
<1> HIDE DEF T, a, b
<1>3. 0 <= a
  <2>1. SUFFICES ASSUME a <= -1 PROVE FALSE
    BY <1>2
  <2>2. T * a <= T * (-1)
    BY <1>1, <1>2, <2>1
  <2>3. QED
    BY <1>1, <1>2, <2>2
<1>4. a <= b
  <2>1. SUFFICES ASSUME b + 1 <= a PROVE FALSE
    BY <1>2
  <2>2. T * (b + 1) <= T * a
    BY <1>1, <1>2, <2>1
  <2>3. T * (b + 1) = T * b + T
    BY <1>1, <1>2
  <2>4. QED
    BY <1>1, <1>2, <2>2, <2>3
<1>5. QED
  BY <1>2, <1>3, <1>4 DEF Stamp, BackupFilePath, a, b, T

\* What the type of proc says of a process in each of its steps.
LEMMA ProcType ==
  ASSUME TypeOK, NEW p \in Proc
  PROVE  /\ proc[p].pc \in {"backup", "dump", "rename", "hash", "sum", "write", "cleanup"}
              => proc[p] \in BackingUp
         /\ proc[p].pc \in {"verify", "compare", "restore"} => proc[p] \in PuttingBack
         /\ proc[p].pc \in {"secrets", "passfile", "release"}
              => proc[p] \in BackingUp \cup PuttingBack
         /\ proc[p].pc = "read" => proc[p] \in Copying
         /\ proc[p].pc \in {"extract", "fill"} => proc[p] \in Extracting
         /\ proc[p].pc = "idle" => proc[p] = Idle
<1>1. proc[p] \in {Idle} \cup BackingUp \cup PuttingBack \cup Copying \cup Extracting
  BY DEF TypeOK
<1>2. CASE proc[p] = Idle
  BY <1>2 DEF Idle
<1>3. CASE proc[p] \in BackingUp
  BY <1>3 DEF BackingUp
<1>4. CASE proc[p] \in PuttingBack
  BY <1>4 DEF PuttingBack
<1>5. CASE proc[p] \in Copying
  BY <1>5 DEF Copying
<1>6. CASE proc[p] \in Extracting
  BY <1>6 DEF Extracting
<1>7. QED
  BY <1>1, <1>2, <1>3, <1>4, <1>5, <1>6

LEMMA TypeInit == Init => TypeOK
  BY BackupConstants, StampType DEF Init, TypeOK, Idle, NoFiles, Directory, Stamp, Dir

Doing == {Idle} \cup BackingUp \cup PuttingBack \cup Copying \cup Extracting

\* One process changes what it does, to something of the right form.
LEMMA OneMoves ==
  ASSUME TypeOK, NEW p \in Proc,
         \E x \in Doing : /\ proc' = [proc EXCEPT ![p] = x]
                          /\ x.pc \in {"extract", "fill"} => snapshot # None,
         snapshot' = snapshot \/ snapshot' # None
  PROVE  /\ proc' \in [Proc -> Doing]
         /\ \A q \in Proc : proc'[q].pc \in {"extract", "fill"} => snapshot' # None
  BY DEF TypeOK, Doing

\* What an action makes of the process that takes it.
Becomes(p, x) ==
  /\ x \in Doing /\ proc' = [proc EXCEPT ![p] = x]
  /\ x.pc \in {"extract", "fill"} => snapshot # None

LEMMA StartBecomes ==
  ASSUME NEW p \in Proc, NEW x \in Doing, Start(p, x),
         x.pc \in {"extract", "fill"} => snapshot # None
  PROVE  Becomes(p, x)
  BY DEF Start, Becomes

LEMMA EndBecomes ==
  ASSUME NEW p \in Proc, End(p)
  PROVE  Becomes(p, Idle)
  BY DEF End, Becomes, Doing, Idle

LEMMA GotoBecomes ==
  ASSUME TypeOK, NEW p \in Proc, NEW pc, Goto(p, pc),
         \/ /\ proc[p] \in BackingUp
            /\ pc \in {"secrets", "passfile", "backup", "dump", "rename", "hash", "sum",
                      "write", "cleanup", "release"}
         \/ /\ proc[p] \in PuttingBack
            /\ pc \in {"verify", "compare", "secrets", "passfile", "restore", "release"}
         \/ proc[p] \in Extracting /\ pc \in {"extract", "fill"}
  PROVE  Becomes(p, [proc[p] EXCEPT !.pc = pc])
<1> DEFINE x == [proc[p] EXCEPT !.pc = pc]
<1>1. proc' = [proc EXCEPT ![p] = x]
  BY DEF Goto
<1>2. CASE /\ proc[p] \in BackingUp
           /\ pc \in {"secrets", "passfile", "backup", "dump", "rename", "hash", "sum",
                     "write", "cleanup", "release"}
  <2>1. x \in BackingUp /\ x.pc = pc
    BY <1>2 DEF BackingUp
  <2>2. QED
    BY <1>1, <1>2, <2>1 DEF Becomes, Doing
<1>3. CASE /\ proc[p] \in PuttingBack
           /\ pc \in {"verify", "compare", "secrets", "passfile", "restore", "release"}
  <2>1. x \in PuttingBack /\ x.pc = pc
    BY <1>3 DEF PuttingBack
  <2>2. QED
    BY <1>1, <1>3, <2>1 DEF Becomes, Doing
<1>4. CASE proc[p] \in Extracting /\ pc \in {"extract", "fill"}
  <2>1. x \in Extracting /\ x.pc = pc
    BY <1>4 DEF Extracting
  <2>2. snapshot # None
    BY <1>4 DEF TypeOK, Extracting
  <2>3. QED
    BY <1>1, <2>1, <2>2 DEF Becomes, Doing
<1>5. QED
  BY <1>2, <1>3, <1>4

LEMMA ProcNext ==
  ASSUME TypeOK, NEW p \in Proc,
         Step(p)
  PROVE  \E x : Becomes(p, x)
<1> USE ProcType
<1>1. CASE StartBackup(p)
  <2>1. commands' \in 1..MaxCommands
    BY <1>1, BackupConstants DEF StartBackup, Start, TypeOK
  <2> DEFINE x == [pc |-> "secrets", kind |-> "backup", id |-> commands',
                   stamp |-> BackupFilePath(clock), checksum |-> None, done |-> FALSE]
  <2>2. x \in BackingUp
    BY <2>1, StampType DEF BackingUp, TypeOK
  <2>3. x \in Doing /\ x.pc = "secrets"
    BY <2>2 DEF Doing
  <2> HIDE DEF x
  <2>4. QED
    BY <1>1, <2>3, StartBecomes DEF StartBackup, x
<1>2. CASE StartRestore(p)
  <2>1. commands' \in 1..MaxCommands
    BY <1>2, BackupConstants DEF StartRestore, Start, TypeOK
  <2>2. PICK d \in Dir, s \in Stamp :
          Start(p, [pc |-> "verify", kind |-> "restore", id |-> commands',
                    dir |-> d, stamp |-> s, expected |-> None])
    BY <1>2 DEF StartRestore
  <2> DEFINE x == [pc |-> "verify", kind |-> "restore", id |-> commands',
                   dir |-> d, stamp |-> s, expected |-> None]
  <2>3. x \in Doing /\ x.pc = "verify"
    BY <2>1 DEF PuttingBack, Doing
  <2> HIDE DEF x
  <2>4. QED
    BY <2>2, <2>3, StartBecomes DEF x
<1>3. CASE StartResticBackup(p)
  <2> DEFINE x == [pc |-> "read", kind |-> "restic", dumps |-> None, sums |-> None]
  <2>1. x \in Doing /\ x.pc = "read"
    BY DEF Copying, Doing
  <2> HIDE DEF x
  <2>2. QED
    BY <1>3, <2>1, StartBecomes DEF StartResticBackup, x
<1>4. CASE StartResticRestore(p)
  <2> DEFINE x == [pc |-> "extract", kind |-> "resticRestore"]
  <2>1. x \in Doing
    BY DEF Extracting, Doing
  <2> HIDE DEF x
  <2>2. QED
    BY <1>4, <2>1, StartBecomes DEF StartResticRestore, x
<1>5. CASE Resolve(p)
  <2>1. proc[p] \in BackingUp \cup PuttingBack /\ (Goto(p, "passfile") \/ End(p))
    BY <1>5 DEF Resolve, At
  <2>2. QED
    BY <2>1, GotoBecomes, EndBecomes
<1>6. CASE FillPassfile(p)
  <2>1. proc[p] \in BackingUp \cup PuttingBack /\ (Goto(p, proc[p].kind) \/ End(p))
    BY <1>6 DEF FillPassfile, At
  <2>2. /\ proc[p] \in BackingUp => proc[p].kind = "backup"
        /\ proc[p] \in PuttingBack => proc[p].kind = "restore"
    BY DEF BackingUp, PuttingBack
  <2>3. QED
    BY <2>1, <2>2, GotoBecomes, EndBecomes
<1>7. CASE Dumping(p) \/ DumpEnds(p)
  BY <1>7, GotoBecomes DEF Dumping, DumpEnds, At
<1>8. CASE Rename(p) \/ OpenSum(p)
  BY <1>8, GotoBecomes DEF Rename, OpenSum, At
<1>9. CASE Hash(p)
  <2>1. proc[p] \in BackingUp /\ dumps["backups"][proc[p].stamp] \in Dump \cup {None}
    BY <1>9 DEF Hash, At, TypeOK, Dir, Directory, BackingUp
  <2>2. [proc[p] EXCEPT !.pc = "sum", !.checksum = dumps["backups"][proc[p].stamp]]
          \in BackingUp
    BY <2>1 DEF BackingUp
  <2>3. CASE Goto(p, "cleanup")
    BY <2>1, <2>3, GotoBecomes
  <2>4. CASE ~Goto(p, "cleanup")
    BY <1>9, <2>2, <2>4 DEF Hash, Becomes, Doing, BackingUp
  <2>5. QED
    BY <2>3, <2>4
<1>10. CASE WriteSum(p)
  <2>1. proc[p] \in BackingUp
    BY <1>10 DEF WriteSum, At
  <2>2. [proc[p] EXCEPT !.pc = "cleanup", !.done = TRUE] \in BackingUp
    BY <2>1 DEF BackingUp
  <2>3. CASE Goto(p, "cleanup")
    BY <2>1, <2>3, GotoBecomes
  <2>4. CASE ~Goto(p, "cleanup")
    BY <1>10, <2>2, <2>4 DEF WriteSum, Becomes, Doing, BackingUp
  <2>5. QED
    BY <2>3, <2>4
<1>11. CASE RemovePartial(p) \/ RemovePassfile(p)
  BY <1>11, GotoBecomes, EndBecomes DEF RemovePartial, RemovePassfile, At
<1>12. CASE ReadSum(p)
  <2>1. CASE End(p)
    BY <2>1, EndBecomes
  <2>2. CASE ~End(p)
    <3> DEFINE e == sums[proc[p].dir][proc[p].stamp]
               x == [proc[p] EXCEPT !.pc = "compare", !.expected = e]
    <3>1. proc[p] \in PuttingBack /\ e \in Dump \cup {None}
      BY <1>12 DEF ReadSum, At, TypeOK, Directory, PuttingBack
    <3>2. x \in PuttingBack
      BY <3>1 DEF PuttingBack
    <3>3. proc' = [proc EXCEPT ![p] = x]
      BY <1>12, <2>2 DEF ReadSum
    <3>4. QED
      BY <3>2, <3>3 DEF Becomes, Doing, PuttingBack
  <2>3. QED
    BY <2>1, <2>2
<1>13. CASE Compare(p)
  BY <1>13, GotoBecomes, EndBecomes DEF Compare, At
<1>14. CASE PgRestore(p)
  BY <1>14, GotoBecomes DEF PgRestore, At
<1>15. CASE ResticReads(p)
  <2>1. proc[p] \in Copying /\ dumps["backups"] \in Directory /\ sums["backups"] \in Directory
    BY <1>15 DEF ResticReads, At, TypeOK, Dir
  <2>2. /\ [proc[p] EXCEPT !.dumps = dumps["backups"]] \in Copying
        /\ [proc[p] EXCEPT !.sums = sums["backups"]] \in Copying
    BY <2>1 DEF Copying
  <2>3. QED
    BY <1>15, <2>2 DEF ResticReads, Becomes, Doing, Copying
<1>16. CASE ResticSaves(p)
  BY <1>16, EndBecomes DEF ResticSaves
<1>17. CASE ResticExtracts(p)
  BY <1>17, GotoBecomes DEF ResticExtracts, At
<1>18. CASE ResticFills(p)
  BY <1>18, EndBecomes DEF ResticFills
<1>19. CASE Kill(p)
  BY <1>19, EndBecomes DEF Kill
<1>20. QED
  BY <1>1, <1>2, <1>3, <1>4, <1>5, <1>6, <1>7, <1>8, <1>9, <1>10, <1>11, <1>12, <1>13,
     <1>14, <1>15, <1>16, <1>17, <1>18, <1>19 DEF Step

LEMMA TypeNext == TypeOK /\ [Next]_vars => TypeOK'
<1> SUFFICES ASSUME TypeOK, [Next]_vars
             PROVE  TypeOK'
  OBVIOUS
<1>1. CASE UNCHANGED vars
  BY <1>1 DEF TypeOK, vars
<1>2. CASE Tick
  BY <1>2, BackupConstants DEF Tick, TypeOK, Files, History
<1>3. CASE RunControlPlane
  BY <1>3 DEF RunControlPlane, TypeOK, Files
<1>4. ASSUME NEW p \in Proc, NEW x, Becomes(p, x), UNCHANGED snapshot
      PROVE  /\ proc' \in [Proc -> Doing]
             /\ \A q \in Proc : proc'[q].pc \in {"extract", "fill"} => snapshot' # None
  BY <1>4, OneMoves DEF Becomes
<1> USE DEF TypeOK, Files, History, Doing
<1>5. ASSUME NEW p \in Proc, StartBackup(p) PROVE TypeOK'
  <2>1. commands' \in 1..MaxCommands /\ UNCHANGED snapshot
    BY <1>5, BackupConstants DEF StartBackup, Start
  <2>2. started' \subseteq [id : 1..MaxCommands, at : 0..MaxClock]
    BY <1>5, <2>1 DEF StartBackup
  <2>3. /\ proc' \in [Proc -> Doing]
        /\ \A q \in Proc : proc'[q].pc \in {"extract", "fill"} => snapshot' # None
    BY <1>4, <1>5, <2>1, ProcNext DEF Step
  <2>4. UNCHANGED <<clock, document, Files, pgpass, snapshot, finished, restored,
                    cutShort, served, refused>>
    BY <1>5 DEF StartBackup, Start
  <2>5. commands' \in 0..MaxCommands
    BY <2>1, BackupConstants
  <2>6. QED
    BY <2>2, <2>3, <2>4, <2>5
<1>6. ASSUME NEW p \in Proc, StartRestore(p) \/ StartResticBackup(p) \/ StartResticRestore(p)
      PROVE  TypeOK'
  <2>1. commands' \in 0..MaxCommands /\ UNCHANGED snapshot
    BY <1>6, BackupConstants DEF StartRestore, StartResticBackup, StartResticRestore, Start
  <2>2. QED
    BY <1>4, <1>6, <2>1, ProcNext
       DEF StartRestore, StartResticBackup, StartResticRestore, Start, Step
<1>7. ASSUME NEW p \in Proc, Resolve(p) PROVE TypeOK'
  <2>1. proc[p].id \in 1..MaxCommands
    BY <1>7, ProcType DEF Resolve, At, BackingUp, PuttingBack
  <2>2. pgpass' \subseteq 1..MaxCommands /\ refused' \subseteq Documents
    BY <1>7, <2>1 DEF Resolve
  <2>3. QED
    BY <1>4, <1>7, <2>2, ProcNext DEF Resolve, Step
<1>8. ASSUME NEW p \in Proc, Dumping(p) \/ DumpEnds(p) PROVE TypeOK'
  <2>1. proc[p] \in BackingUp
    BY <1>8, ProcType DEF Dumping, DumpEnds, At
  <2>2. Torn(proc[p].id) \in Dump /\ Own(proc[p].id) \in Dump
    BY <2>1 DEF BackingUp, Dump, Torn, Own
  <2>3. partials' \subseteq Dump
    BY <1>8, <2>2 DEF Dumping, DumpEnds
  <2>4. QED
    BY <1>4, <1>8, <2>3, ProcNext DEF Dumping, DumpEnds, Step
<1>9. ASSUME NEW p \in Proc, Rename(p) PROVE TypeOK'
  <2>1. proc[p] \in BackingUp
    BY <1>9, ProcType DEF Rename, At
  <2>2. Own(proc[p].id) \in Dump
    BY <2>1 DEF BackingUp, Dump, Own
  <2>3. dumps' \in [Dir -> Directory]
    BY <1>9, <2>1, <2>2 DEF Rename, Directory
  <2>4. QED
    BY <1>4, <1>9, <2>3, ProcNext DEF Rename, Step
<1>10. ASSUME NEW p \in Proc, OpenSum(p) \/ WriteSum(p) PROVE TypeOK'
  <2>1. proc[p] \in BackingUp
    BY <1>10, ProcType DEF OpenSum, WriteSum, At
  <2>2. Torn(proc[p].id) \in Dump /\ proc[p].checksum \in Dump \cup {None}
    BY <2>1 DEF BackingUp, Dump, Torn
  <2>3. sums' \in [Dir -> Directory]
    BY <1>10, <2>1, <2>2 DEF OpenSum, WriteSum, Directory
  <2>4. QED
    BY <1>4, <1>10, <2>3, ProcNext DEF OpenSum, WriteSum, Step
<1>11. ASSUME NEW p \in Proc, Hash(p) \/ ReadSum(p) \/ Compare(p) \/ ResticReads(p)
       PROVE  TypeOK'
  <2>1. UNCHANGED <<clock, document, Files, pgpass, snapshot, commands, cutShort, History>>
    BY <1>11 DEF Hash, ReadSum, Compare, ResticReads
  <2>2. QED
    BY <1>4, <1>11, <2>1, ProcNext DEF Step
<1>15. ASSUME NEW p \in Proc,
              FillPassfile(p) \/ RemovePartial(p) \/ RemovePassfile(p) \/ Kill(p)
       PROVE  TypeOK'
  <2>1. /\ UNCHANGED <<clock, document, dumps, sums, snapshot, commands, started, restored,
                       served, refused>>
        /\ partials' \subseteq partials /\ pgpass' \subseteq pgpass
    BY <1>15 DEF FillPassfile, RemovePartial, RemovePassfile, Kill
  <2>2. cutShort' \subseteq 1..MaxCommands
    <3>1. cutShort' = cutShort \/ proc[p] \in BackingUp \cup PuttingBack
      <4>1. CASE FillPassfile(p) \/ RemovePartial(p) \/ RemovePassfile(p)
        BY <4>1, ProcType DEF FillPassfile, RemovePartial, RemovePassfile, At
      <4>2. CASE Kill(p)
        <5>1. \A x : /\ x \in Copying => x.kind = "restic"
                     /\ x \in Extracting => x.kind = "resticRestore"
          BY DEF Copying, Extracting
        <5>2. CASE proc[p].kind \in {"backup", "restore"}
          BY <4>2, <5>1, <5>2 DEF Kill
        <5>3. QED
          BY <4>2, <5>2 DEF Kill
      <4>3. QED
        BY <1>15, <4>1, <4>2
    <3>2. proc[p] \in BackingUp \cup PuttingBack => proc[p].id \in 1..MaxCommands
      BY DEF BackingUp, PuttingBack
    <3>3. cutShort' = cutShort \/ cutShort' = cutShort \cup {proc[p].id}
      BY <1>15 DEF FillPassfile, RemovePartial, RemovePassfile, Kill, CutShort
    <3>4. QED
      BY <3>1, <3>2, <3>3
  <2>3. finished' \subseteq [id : 1..MaxCommands, stamp : Stamp]
    <3>1. CASE RemovePassfile(p)
      <4>1. proc[p] \in BackingUp \cup PuttingBack
        BY <3>1, ProcType DEF RemovePassfile, At
      <4>2. proc[p].id \in 1..MaxCommands /\ proc[p].stamp \in Stamp
        BY <4>1 DEF BackingUp, PuttingBack
      <4>3. QED
        BY <3>1, <4>2 DEF RemovePassfile
    <3>2. CASE ~RemovePassfile(p)
      BY <1>15, <3>2 DEF FillPassfile, RemovePartial, Kill
    <3>3. QED
      BY <3>1, <3>2
  <2>4. QED
    BY <1>4, <1>15, <2>1, <2>2, <2>3, ProcNext DEF Step
<1>12. ASSUME NEW p \in Proc, PgRestore(p) PROVE TypeOK'
  <2>1. proc[p] \in PuttingBack
    BY <1>12, ProcType DEF PgRestore, At
  <2>2. dumps[proc[p].dir][proc[p].stamp] \in Dump \cup {None}
    BY <2>1 DEF PuttingBack, Directory
  <2>3. restored' \subseteq [read : Dump \cup {None}, vouched : Dump \cup {None},
                             dir : Dir, stamp : Stamp]
    BY <1>12, <2>1, <2>2 DEF PgRestore, PuttingBack
  <2>4. QED
    BY <1>4, <1>12, <2>3, ProcNext DEF PgRestore, Step
<1>13. ASSUME NEW p \in Proc, ResticSaves(p) PROVE TypeOK'
  <2>1. proc[p] \in Copying
    BY <1>13, ProcType DEF ResticSaves, At
  <2>2. snapshot' \in Snapshot
    BY <1>13, <2>1 DEF ResticSaves, Copying, Snapshot
  <2>3. snapshot' # None
    BY <2>2, BackupConstants
  <2>4. QED
    BY <1>13, <2>2, <2>3, ProcNext, OneMoves DEF ResticSaves, Becomes, Step
<1>14. ASSUME NEW p \in Proc, ResticExtracts(p) \/ ResticFills(p) PROVE TypeOK'
  <2>1. snapshot \in Snapshot
    BY <1>14 DEF ResticExtracts, ResticFills, At
  <2>2. ASSUME NEW s \in Stamp, snapshot.dumps[s] # None
        PROVE  [snapshot.dumps[s] EXCEPT !.whole = FALSE] \in Dump
    BY <2>1, <2>2 DEF Snapshot, Directory, Dump
  <2>3. dumps' \in [Dir -> Directory] /\ sums' \in [Dir -> Directory]
    <3>1. \A s \in Stamp : /\ snapshot.dumps[s] \in Dump \cup {None}
                           /\ snapshot.sums[s] \in Dump \cup {None}
                           /\ dumps["restore"][s] \in Dump \cup {None}
                           /\ sums["restore"][s] \in Dump \cup {None}
      BY <2>1 DEF Snapshot, Directory, Dir
    <3>2. CASE ResticExtracts(p)
      <4> DEFINE ds == [s \in Stamp |-> IF snapshot.dumps[s] = None THEN dumps["restore"][s]
                                       ELSE [snapshot.dumps[s] EXCEPT !.whole = FALSE]]
                 ss == [s \in Stamp |-> IF snapshot.sums[s] = None THEN sums["restore"][s]
                                       ELSE snapshot.sums[s]]
      <4>1. ds \in Directory /\ ss \in Directory
        BY <2>2, <3>1 DEF Directory
      <4>2. /\ dumps' = [dumps EXCEPT !["restore"] = ds]
            /\ sums' = [sums EXCEPT !["restore"] = ss]
        BY <3>2 DEF ResticExtracts
      <4> HIDE DEF ds, ss
      <4>3. QED
        BY <4>1, <4>2
    <3>3. CASE ResticFills(p)
      <4> DEFINE ds == [s \in Stamp |-> IF snapshot.dumps[s] = None THEN dumps["restore"][s]
                                       ELSE snapshot.dumps[s]]
      <4>1. ds \in Directory
        BY <3>1 DEF Directory
      <4>2. dumps' = [dumps EXCEPT !["restore"] = ds] /\ sums' = sums
        BY <3>3 DEF ResticFills
      <4> HIDE DEF ds
      <4>3. QED
        BY <4>1, <4>2
    <3>4. QED
      BY <1>14, <3>2, <3>3
  <2>4. QED
    BY <1>4, <1>14, <2>3, ProcNext DEF ResticExtracts, ResticFills, Step
<1>20. QED
  BY <1>1, <1>2, <1>3, <1>5, <1>6, <1>7, <1>8, <1>9, <1>10, <1>11, <1>12, <1>13, <1>14,
     <1>15 DEF Next

(* Every process holds what its command needs at that point, and dumps,    *)
(* checksums, passfiles and snapshots keep their types (postgres-backup.mjs *)
(* 85-266, restic-backup.mjs 83-131, secret-runtime.mjs).                   *)
THEOREM TypeCorrect == Spec => []TypeOK
<1>1. Init => TypeOK
  BY TypeInit
<1>2. TypeOK /\ [Next]_vars => TypeOK'
  BY TypeNext
<1>3. QED
  BY <1>1, <1>2, PTL DEF Spec

-----------------------------------------------------------------------------
(* Where a file comes from.  S is a set of starts: what has a name was     *)
(* made by a backup that started in the second the name tells, and a dump  *)
(* with a final name is whole.  A checksum file may be torn; one that is   *)
(* not is the checksum of a whole dump.                                    *)

Named(S, id, stamp) == \E a \in S : a.id = id /\ BackupFilePath(a.at) = stamp

WholeAt(S, f, stamp) == f # None => f.whole /\ Named(S, f.of, stamp)

AllWhole(S, directory) == \A s \in Stamp : WholeAt(S, directory[s], s)

AllNamed(S, directory) ==
  \A s \in Stamp : directory[s] # None => Named(S, directory[s].of, s)

Sourced(S, x) ==
  /\ x \in BackingUp => Named(S, x.id, x.stamp) /\ WholeAt(S, x.checksum, x.stamp)
  /\ x \in PuttingBack => WholeAt(S, x.expected, x.stamp)
  /\ x \in Copying /\ x.dumps # None => AllWhole(S, x.dumps)
  /\ x \in Copying /\ x.sums # None => AllNamed(S, x.sums)

NameInv ==
  /\ AllWhole(started, dumps["backups"])
  /\ \A d \in Dir : AllNamed(started, sums[d])
  /\ snapshot # None => AllWhole(started, snapshot.dumps) /\ AllNamed(started, snapshot.sums)
  /\ \A b \in finished : Named(started, b.id, b.stamp)
  /\ \A p \in Proc : Sourced(started, proc[p])

LEMMA StartedGrows == [Next]_vars => started \subseteq started'
  BY DEF Next, vars, Tick, RunControlPlane, StartBackup, StartRestore, StartResticBackup,
         StartResticRestore, Resolve, FillPassfile, Dumping, DumpEnds, Rename, Hash,
         OpenSum, WriteSum, RemovePartial, RemovePassfile, ReadSum, Compare, PgRestore,
         ResticReads, ResticSaves, ResticExtracts, ResticFills, Kill, History

LEMMA SourcesStay ==
  ASSUME NEW S, NEW T, S \subseteq T
  PROVE  /\ \A id, stamp : Named(S, id, stamp) => Named(T, id, stamp)
         /\ \A f, stamp : WholeAt(S, f, stamp) => WholeAt(T, f, stamp)
         /\ \A directory : AllWhole(S, directory) => AllWhole(T, directory)
         /\ \A directory : AllNamed(S, directory) => AllNamed(T, directory)
         /\ \A x : Sourced(S, x) => Sourced(T, x)
<1>1. \A id, stamp : Named(S, id, stamp) => Named(T, id, stamp)
  BY DEF Named
<1>2. \A f, stamp : WholeAt(S, f, stamp) => WholeAt(T, f, stamp)
  BY <1>1 DEF WholeAt
<1>3. \A directory : AllWhole(S, directory) => AllWhole(T, directory)
  BY <1>2 DEF AllWhole
<1>6. \A directory : AllNamed(S, directory) => AllNamed(T, directory)
  BY <1>1 DEF AllNamed
<1>4. ASSUME NEW x, Sourced(S, x) PROVE Sourced(T, x)
  <2>1. x \in BackingUp => Named(T, x.id, x.stamp) /\ WholeAt(T, x.checksum, x.stamp)
    BY <1>1, <1>2, <1>4 DEF Sourced
  <2>2. x \in PuttingBack => WholeAt(T, x.expected, x.stamp)
    BY <1>2, <1>4 DEF Sourced
  <2>3. ASSUME x \in Copying
        PROVE  /\ x.dumps # None => AllWhole(T, x.dumps)
               /\ x.sums # None => AllNamed(T, x.sums)
    <3>1. /\ x.dumps # None => AllWhole(S, x.dumps)
          /\ x.sums # None => AllNamed(S, x.sums)
      BY <1>4, <2>3 DEF Sourced
    <3>2. QED
      BY <1>3, <1>6, <3>1
  <2>4. QED
    BY <2>1, <2>2, <2>3 DEF Sourced
<1>5. QED
  BY <1>1, <1>2, <1>3, <1>4, <1>6

\* What a process turns into has the sources the process had.
LEMMA GotoSourced ==
  ASSUME NEW S, NEW x, NEW pc, x \in BackingUp \cup PuttingBack \cup Extracting, Sourced(S, x)
  PROVE  Sourced(S, [x EXCEPT !.pc = pc])
<1> DEFINE y == [x EXCEPT !.pc = pc]
<1>1. CASE x \in BackingUp
  <2>1. y.kind = "backup" /\ y.id = x.id /\ y.stamp = x.stamp /\ y.checksum = x.checksum
    BY <1>1 DEF BackingUp
  <2>2. y \notin PuttingBack /\ y \notin Copying
    BY <2>1 DEF PuttingBack, Copying
  <2>3. QED
    BY <1>1, <2>1, <2>2 DEF Sourced
<1>2. CASE x \in PuttingBack
  <2>1. y.kind = "restore" /\ y.stamp = x.stamp /\ y.expected = x.expected
    BY <1>2 DEF PuttingBack
  <2>2. y \notin BackingUp /\ y \notin Copying
    BY <2>1 DEF BackingUp, Copying
  <2>3. QED
    BY <1>2, <2>1, <2>2 DEF Sourced
<1>3. CASE x \in Extracting
  <2>1. y.kind = "resticRestore"
    BY <1>3 DEF Extracting
  <2>2. y \notin BackingUp /\ y \notin PuttingBack /\ y \notin Copying
    BY <2>1 DEF BackingUp, PuttingBack, Copying
  <2>3. QED
    BY <2>2 DEF Sourced
<1>4. QED
  BY <1>1, <1>2, <1>3

LEMMA IdleSourced == \A S : Sourced(S, Idle)
<1>1. Idle.pc = "idle"
  BY DEF Idle
<1>2. Idle \notin BackingUp /\ Idle \notin PuttingBack /\ Idle \notin Copying
  <2>1. ASSUME NEW x \in BackingUp \cup PuttingBack \cup Copying PROVE x.pc # "idle"
    BY DEF BackingUp, PuttingBack, Copying
  <2>2. QED
    BY <1>1, <2>1
<1>3. QED
  BY <1>2 DEF Sourced

\* The processes are left with the sources they had when one of them moves.
LEMMA SourcedMoves ==
  ASSUME TypeOK, NameInv, started \subseteq started',
         NEW p \in Proc, NEW x, Sourced(started', x), proc' = [proc EXCEPT ![p] = x]
  PROVE  \A q \in Proc : Sourced(started', proc'[q])
<1> TAKE q \in Proc
<1>1. Sourced(started', proc[q])
  BY SourcesStay DEF NameInv
<1>2. proc'[q] = IF q = p THEN x ELSE proc[q]
  BY DEF TypeOK
<1>3. QED
  BY <1>1, <1>2

LEMMA NameProc ==
  ASSUME TypeOK, NameInv, started \subseteq started', NEW p \in Proc,
         Step(p)
  PROVE  \A q \in Proc : Sourced(started', proc'[q])
<1> USE ProcType
<1>0. Sourced(started', proc[p])
  BY SourcesStay DEF NameInv
<1>1. ASSUME End(p) PROVE \A q \in Proc : Sourced(started', proc'[q])
  BY <1>1, SourcedMoves, IdleSourced DEF End
<1>2. ASSUME NEW pc, Goto(p, pc), proc[p] \in BackingUp \cup PuttingBack \cup Extracting
      PROVE  \A q \in Proc : Sourced(started', proc'[q])
  <2>1. Sourced(started', [proc[p] EXCEPT !.pc = pc])
    BY <1>0, <1>2, GotoSourced
  <2>2. QED
    BY <1>2, <2>1, SourcedMoves DEF Goto
<1>3. ASSUME NEW x, Start(p, x), Sourced(started', x)
      PROVE  \A q \in Proc : Sourced(started', proc'[q])
  BY <1>3, SourcedMoves DEF Start
<1>4. CASE StartBackup(p)
  <2> DEFINE x == [pc |-> "secrets", kind |-> "backup", id |-> commands',
                   stamp |-> BackupFilePath(clock), checksum |-> None, done |-> FALSE]
  <2>1. /\ x.kind = "backup" /\ x.id = commands' /\ x.stamp = BackupFilePath(clock)
        /\ x.checksum = None
    OBVIOUS
  <2>2. [id |-> commands', at |-> clock] \in started'
    BY <1>4 DEF StartBackup
  <2>3. Start(p, x)
    BY <1>4 DEF StartBackup
  <2> HIDE DEF x
  <2>4. x \notin PuttingBack /\ x \notin Copying
    BY <2>1 DEF PuttingBack, Copying
  <2>5. Sourced(started', x)
    BY <2>1, <2>2, <2>4 DEF Sourced, Named, WholeAt
  <2>6. QED
    BY <1>3, <2>3, <2>5
<1>5. CASE StartRestore(p)
  <2>1. PICK d \in Dir, s \in Stamp :
          Start(p, [pc |-> "verify", kind |-> "restore", id |-> commands',
                    dir |-> d, stamp |-> s, expected |-> None])
    BY <1>5 DEF StartRestore
  <2> DEFINE x == [pc |-> "verify", kind |-> "restore", id |-> commands',
                   dir |-> d, stamp |-> s, expected |-> None]
  <2>2. x.kind = "restore" /\ x.expected = None
    OBVIOUS
  <2>3. Start(p, x)
    BY <2>1
  <2> HIDE DEF x
  <2>4. x \notin BackingUp /\ x \notin Copying
    BY <2>2 DEF BackingUp, Copying
  <2>5. QED
    BY <1>3, <2>2, <2>3, <2>4 DEF Sourced, WholeAt
<1>6. CASE StartResticBackup(p)
  <2> DEFINE x == [pc |-> "read", kind |-> "restic", dumps |-> None, sums |-> None]
  <2>2. x.kind = "restic" /\ x.dumps = None /\ x.sums = None
    OBVIOUS
  <2>3. Start(p, x)
    BY <1>6 DEF StartResticBackup
  <2> HIDE DEF x
  <2>4. x \notin BackingUp /\ x \notin PuttingBack
    BY <2>2 DEF BackingUp, PuttingBack
  <2>5. QED
    BY <1>3, <2>2, <2>3, <2>4 DEF Sourced
<1>7. CASE StartResticRestore(p)
  <2> DEFINE x == [pc |-> "extract", kind |-> "resticRestore"]
  <2>2. x.kind = "resticRestore"
    OBVIOUS
  <2>3. Start(p, x)
    BY <1>7 DEF StartResticRestore
  <2> HIDE DEF x
  <2>4. x \notin BackingUp /\ x \notin PuttingBack /\ x \notin Copying
    BY <2>2 DEF BackingUp, PuttingBack, Copying
  <2>5. QED
    BY <1>3, <2>3, <2>4 DEF Sourced
<1>8. CASE Resolve(p) \/ FillPassfile(p) \/ RemovePartial(p) \/ RemovePassfile(p)
  BY <1>1, <1>2, <1>8 DEF Resolve, FillPassfile, RemovePartial, RemovePassfile, At
<1>9. CASE Dumping(p) \/ DumpEnds(p)
  BY <1>2, <1>9 DEF Dumping, DumpEnds, At
<1>10. CASE Rename(p)
  BY <1>2, <1>10 DEF Rename, At
<1>11. CASE OpenSum(p)
  BY <1>2, <1>11 DEF OpenSum, At
<1>12. CASE Hash(p)
  <2> DEFINE e == dumps["backups"][proc[p].stamp]
             x == [proc[p] EXCEPT !.pc = "sum", !.checksum = e]
  <2>1. proc[p] \in BackingUp /\ (proc' = [proc EXCEPT ![p] = x] \/ Goto(p, "cleanup"))
    BY <1>12 DEF Hash, At
  <2>2. proc[p].stamp \in Stamp /\ AllWhole(started', dumps["backups"])
    BY <2>1, SourcesStay DEF BackingUp, NameInv
  <2>3. WholeAt(started', e, proc[p].stamp)
    BY <2>2 DEF AllWhole
  <2>4. x.kind = "backup" /\ x.id = proc[p].id /\ x.stamp = proc[p].stamp /\ x.checksum = e
    BY <2>1 DEF BackingUp
  <2> HIDE DEF x, e
  <2>5. x \notin PuttingBack /\ x \notin Copying
    BY <2>4 DEF PuttingBack, Copying
  <2>6. Sourced(started', x)
    BY <1>0, <2>1, <2>3, <2>4, <2>5 DEF Sourced
  <2>7. QED
    BY <1>2, <2>1, <2>6, SourcedMoves
<1>13. CASE WriteSum(p)
  <2> DEFINE x == [proc[p] EXCEPT !.pc = "cleanup", !.done = TRUE]
  <2>1. proc[p] \in BackingUp /\ (proc' = [proc EXCEPT ![p] = x] \/ Goto(p, "cleanup"))
    BY <1>13 DEF WriteSum, At
  <2>2. /\ x.kind = "backup" /\ x.id = proc[p].id /\ x.stamp = proc[p].stamp
        /\ x.checksum = proc[p].checksum
    BY <2>1 DEF BackingUp
  <2> HIDE DEF x
  <2>3. x \notin PuttingBack /\ x \notin Copying
    BY <2>2 DEF PuttingBack, Copying
  <2>4. Sourced(started', x)
    BY <1>0, <2>1, <2>2, <2>3 DEF Sourced
  <2>5. QED
    BY <1>2, <2>1, <2>4, SourcedMoves
<1>15. CASE ReadSum(p)
  <2>1. CASE End(p)
    BY <1>1, <2>1
  <2>2. CASE ~End(p)
    <3> DEFINE e == sums[proc[p].dir][proc[p].stamp]
               x == [proc[p] EXCEPT !.pc = "compare", !.expected = e]
    <3>1. proc[p] \in PuttingBack /\ proc' = [proc EXCEPT ![p] = x] /\ e.whole
      BY <1>15, <2>2 DEF ReadSum, At
    <3>2. proc[p].stamp \in Stamp /\ AllNamed(started', sums[proc[p].dir])
      BY <3>1, SourcesStay DEF PuttingBack, NameInv
    <3>3. WholeAt(started', e, proc[p].stamp)
      BY <3>1, <3>2 DEF AllNamed, WholeAt
    <3>4. x.kind = "restore" /\ x.stamp = proc[p].stamp /\ x.expected = e
      BY <3>1 DEF PuttingBack
    <3> HIDE DEF x, e
    <3>5. x \notin BackingUp /\ x \notin Copying
      BY <3>4 DEF BackingUp, Copying
    <3>6. Sourced(started', x)
      BY <3>3, <3>4, <3>5 DEF Sourced
    <3>7. QED
      BY <3>1, <3>6, SourcedMoves
  <2>3. QED
    BY <2>1, <2>2
<1>16. CASE Compare(p)
  BY <1>1, <1>2, <1>16 DEF Compare, At
<1>17. CASE PgRestore(p)
  BY <1>2, <1>17 DEF PgRestore, At
<1>18. CASE ResticReads(p)
  <2>1. proc[p] \in Copying
    BY <1>18 DEF ResticReads, At
  <2>2. AllWhole(started', dumps["backups"]) /\ AllNamed(started', sums["backups"])
    BY SourcesStay DEF NameInv, Dir
  <2>3. PICK x \in {[proc[p] EXCEPT !.dumps = dumps["backups"]],
                    [proc[p] EXCEPT !.sums = sums["backups"]]} :
          proc' = [proc EXCEPT ![p] = x]
    BY <1>18 DEF ResticReads
  <2>4. /\ x.kind = "restic" /\ x.dumps \in {proc[p].dumps, dumps["backups"]}
        /\ x.sums \in {proc[p].sums, sums["backups"]}
    BY <2>1 DEF Copying
  <2>5. x \notin BackingUp /\ x \notin PuttingBack
    BY <2>4 DEF BackingUp, PuttingBack
  <2>6. /\ proc[p].dumps # None => AllWhole(started', proc[p].dumps)
        /\ proc[p].sums # None => AllNamed(started', proc[p].sums)
    BY <1>0, <2>1 DEF Sourced
  <2>7. /\ x.dumps # None => AllWhole(started', x.dumps)
        /\ x.sums # None => AllNamed(started', x.sums)
    BY <2>2, <2>4, <2>6
  <2>8. Sourced(started', x)
    BY <2>5, <2>7 DEF Sourced
  <2>9. QED
    BY <2>3, <2>8, SourcedMoves
<1>19. CASE ResticSaves(p)
  BY <1>1, <1>19 DEF ResticSaves
<1>20. CASE ResticExtracts(p)
  BY <1>2, <1>20 DEF ResticExtracts, At
<1>21. CASE ResticFills(p)
  BY <1>1, <1>21 DEF ResticFills
<1>22. CASE Kill(p)
  BY <1>1, <1>22 DEF Kill
<1>23. QED
  BY <1>4, <1>5, <1>6, <1>7, <1>8, <1>9, <1>10, <1>11, <1>12, <1>13, <1>15, <1>16,
     <1>17, <1>18, <1>19, <1>20, <1>21, <1>22 DEF Step

LEMMA NameInit == Init => NameInv
<1> SUFFICES ASSUME Init PROVE NameInv
  OBVIOUS
<1>1. AllWhole(started, dumps["backups"]) /\ \A d \in Dir : AllNamed(started, sums[d])
  BY DEF Init, NoFiles, AllWhole, AllNamed, WholeAt, Dir
<1>2. \A p \in Proc : Sourced(started, proc[p])
  BY IdleSourced DEF Init
<1>3. QED
  BY <1>1, <1>2 DEF NameInv, Init

LEMMA NameNext == TypeOK /\ NameInv /\ [Next]_vars => NameInv'
<1> SUFFICES ASSUME TypeOK, NameInv, [Next]_vars PROVE NameInv'
  OBVIOUS
<1> DEFINE S == started'
<1>0. started \subseteq S
  BY StartedGrows
<1>1. /\ AllWhole(S, dumps["backups"]) /\ \A d \in Dir : AllNamed(S, sums[d])
      /\ snapshot # None => AllWhole(S, snapshot.dumps) /\ AllNamed(S, snapshot.sums)
      /\ \A b \in finished : Named(S, b.id, b.stamp)
      /\ \A p \in Proc : Sourced(S, proc[p])
  BY <1>0, SourcesStay DEF NameInv
<1> USE DEF Files, History
<1> HIDE DEF S
<1>2. CASE UNCHANGED vars \/ Tick \/ RunControlPlane
  BY <1>1, <1>2 DEF S, NameInv, vars, Tick, RunControlPlane
<1>3. ASSUME NEW p \in Proc,
             \/ StartBackup(p) \/ StartRestore(p) \/ StartResticBackup(p)
             \/ StartResticRestore(p) \/ Resolve(p) \/ FillPassfile(p) \/ Dumping(p)
             \/ DumpEnds(p) \/ Hash(p) \/ RemovePartial(p) \/ ReadSum(p) \/ Compare(p)
             \/ PgRestore(p) \/ ResticReads(p) \/ Kill(p)
      PROVE  NameInv'
  <2>1. \A q \in Proc : Sourced(S, proc'[q])
    BY <1>0, <1>3, NameProc DEF S, Step
  <2>2. UNCHANGED <<dumps, sums, snapshot, finished>>
    BY <1>3 DEF StartBackup, StartRestore, StartResticBackup, StartResticRestore, Start,
         Resolve, FillPassfile, Dumping, DumpEnds, Hash, RemovePartial, ReadSum, Compare,
         PgRestore, ResticReads, Kill
  <2>3. QED
    BY <1>1, <2>1, <2>2 DEF S, NameInv
<1>4. ASSUME NEW p \in Proc, Rename(p) PROVE NameInv'
  <2>1. \A q \in Proc : Sourced(S, proc'[q])
    BY <1>0, <1>4, NameProc DEF S, Step
  <2>2. proc[p] \in BackingUp /\ proc[p].stamp \in Stamp
    BY <1>4, ProcType DEF Rename, At, BackingUp
  <2>3. WholeAt(S, Own(proc[p].id), proc[p].stamp)
    BY <1>1, <2>2 DEF Sourced, WholeAt, Own
  <2>4. /\ \/ dumps'["backups"] = [dumps["backups"] EXCEPT ![proc[p].stamp] = Own(proc[p].id)]
           \/ dumps'["backups"] = dumps["backups"]
        /\ dumps["backups"] \in Directory
    BY <1>4 DEF Rename, TypeOK, Dir
  <2>5. AllWhole(S, dumps'["backups"])
    BY <1>1, <2>2, <2>3, <2>4 DEF AllWhole, Directory
  <2>6. QED
    BY <1>1, <1>4, <2>1, <2>5 DEF S, NameInv, Rename
<1>5. ASSUME NEW p \in Proc, OpenSum(p) \/ WriteSum(p) PROVE NameInv'
  <2>1. \A q \in Proc : Sourced(S, proc'[q])
    BY <1>0, <1>5, NameProc DEF S, Step
  <2>2. proc[p] \in BackingUp /\ proc[p].stamp \in Stamp
    BY <1>5, ProcType DEF OpenSum, WriteSum, At, BackingUp
  <2>3. /\ Named(S, proc[p].id, proc[p].stamp)
        /\ proc[p].checksum # None => Named(S, proc[p].checksum.of, proc[p].stamp)
    BY <1>1, <2>2 DEF Sourced, WholeAt
  <2>4. PICK c \in {Torn(proc[p].id), proc[p].checksum} :
          \/ sums' = [sums EXCEPT !["backups"] = [@ EXCEPT ![proc[p].stamp] = c]]
          \/ sums' = sums
    BY <1>5 DEF OpenSum, WriteSum
  <2>5. c # None => Named(S, c.of, proc[p].stamp)
    BY <2>3, <2>4 DEF Torn
  <2>6. \A d \in Dir : AllNamed(S, sums'[d])
    BY <1>1, <2>2, <2>4, <2>5 DEF AllNamed, TypeOK, Directory
  <2>7. QED
    BY <1>1, <1>5, <2>1, <2>6 DEF S, NameInv, OpenSum, WriteSum
<1>10. ASSUME NEW p \in Proc, RemovePassfile(p) PROVE NameInv'
  <2>1. \A q \in Proc : Sourced(S, proc'[q])
    BY <1>0, <1>10, NameProc DEF S, Step
  <2>2. /\ proc[p] \in PuttingBack => proc[p].kind = "restore"
        /\ proc[p] \in BackingUp \cup PuttingBack
    BY <1>10, ProcType DEF RemovePassfile, At, PuttingBack
  <2>3. Succeeded(p) => Named(S, proc[p].id, proc[p].stamp)
    BY <1>1, <2>2 DEF Succeeded, Sourced
  <2>4. \A b \in finished' : Named(S, b.id, b.stamp)
    BY <1>1, <1>10, <2>3 DEF RemovePassfile
  <2>5. QED
    BY <1>1, <1>10, <2>1, <2>4 DEF S, NameInv, RemovePassfile
<1>6. ASSUME NEW p \in Proc, ResticSaves(p) PROVE NameInv'
  <2>1. \A q \in Proc : Sourced(S, proc'[q])
    BY <1>0, <1>6, NameProc DEF S, Step
  <2>2. proc[p] \in Copying /\ proc[p].dumps # None /\ proc[p].sums # None
    BY <1>6, ProcType DEF ResticSaves, At
  <2>3. AllWhole(S, proc[p].dumps) /\ AllNamed(S, proc[p].sums)
    BY <1>1, <2>2 DEF Sourced
  <2>4. snapshot'.dumps = proc[p].dumps /\ snapshot'.sums = proc[p].sums
    BY <1>6 DEF ResticSaves
  <2>5. QED
    BY <1>1, <1>6, <2>1, <2>3, <2>4 DEF S, NameInv, ResticSaves
<1>7. ASSUME NEW p \in Proc, ResticExtracts(p) PROVE NameInv'
  <2>1. \A q \in Proc : Sourced(S, proc'[q])
    BY <1>0, <1>7, NameProc DEF S, Step
  <2>2. snapshot # None
    BY <1>7 DEF ResticExtracts, At, TypeOK
  <2> DEFINE ss == [s \in Stamp |-> IF snapshot.sums[s] = None THEN sums["restore"][s]
                                   ELSE snapshot.sums[s]]
  <2>3. AllNamed(S, ss)
    BY <1>1, <2>2 DEF AllNamed, Dir
  <2>4. sums' = [sums EXCEPT !["restore"] = ss] /\ sums \in [Dir -> Directory]
    BY <1>7 DEF ResticExtracts, TypeOK
  <2> HIDE DEF ss
  <2>5. \A d \in Dir : AllNamed(S, sums'[d])
    BY <1>1, <2>3, <2>4
  <2>6. dumps'["backups"] = dumps["backups"]
    BY <1>7 DEF ResticExtracts, TypeOK, Dir
  <2>7. QED
    BY <1>1, <1>7, <2>1, <2>5, <2>6 DEF S, NameInv, ResticExtracts
<1>8. ASSUME NEW p \in Proc, ResticFills(p) PROVE NameInv'
  <2>1. \A q \in Proc : Sourced(S, proc'[q])
    BY <1>0, <1>8, NameProc DEF S, Step
  <2>2. dumps'["backups"] = dumps["backups"]
    BY <1>8 DEF ResticFills, TypeOK, Dir
  <2>3. QED
    BY <1>1, <1>8, <2>1, <2>2 DEF S, NameInv, ResticFills
<1>9. QED
  BY <1>2, <1>3, <1>4, <1>5, <1>6, <1>7, <1>8, <1>10 DEF Next

-----------------------------------------------------------------------------
(* How a process goes on: it starts, keeps its command and its names, or   *)
(* ends.  The other processes stay where they are.                         *)

Starting(p) ==
  StartBackup(p) \/ StartRestore(p) \/ StartResticBackup(p) \/ StartResticRestore(p)

LEMMA Alone ==
  ASSUME TypeOK, NEW p \in Proc, Step(p)
  PROVE  \A q \in Proc \ {p} : proc'[q] = proc[q]
  BY ProcNext DEF Becomes, TypeOK

LEMMA Kinds ==
  ASSUME NEW x
  PROVE  /\ x \in BackingUp => x.kind = "backup" /\ x.pc # "idle"
         /\ x \in PuttingBack => x.kind = "restore" /\ x.pc # "idle"
         /\ x \in Copying => x.kind = "restic" /\ x.pc # "idle"
         /\ x \in Extracting => x.kind = "resticRestore" /\ x.pc # "idle"
         /\ x = Idle => x.pc = "idle"
  BY DEF BackingUp, PuttingBack, Copying, Extracting, Idle

LEMMA GotoKeeps ==
  ASSUME TypeOK, NEW p \in Proc, NEW pc, Goto(p, pc)
  PROVE  /\ proc[p] \in BackingUp =>
              /\ proc'[p].pc = pc /\ proc'[p].id = proc[p].id
              /\ proc'[p].stamp = proc[p].stamp /\ proc'[p].checksum = proc[p].checksum
              /\ proc'[p].kind = "backup" /\ proc'[p].done = proc[p].done
         /\ proc[p] \in PuttingBack =>
              /\ proc'[p].pc = pc /\ proc'[p].id = proc[p].id /\ proc'[p].dir = proc[p].dir
              /\ proc'[p].stamp = proc[p].stamp /\ proc'[p].expected = proc[p].expected
              /\ proc'[p].kind = "restore"
         /\ proc[p] \in Extracting => proc'[p].pc = pc /\ proc'[p].kind = "resticRestore"
<1>1. proc'[p] = [proc[p] EXCEPT !.pc = pc]
  BY DEF Goto, TypeOK
<1>2. CASE proc[p] \in BackingUp
  BY <1>1, <1>2 DEF BackingUp, PuttingBack, Extracting
<1>3. CASE proc[p] \in PuttingBack
  BY <1>1, <1>3 DEF BackingUp, PuttingBack, Extracting
<1>4. CASE proc[p] \in Extracting
  BY <1>1, <1>4 DEF BackingUp, PuttingBack, Extracting
<1>5. QED
  BY <1>2, <1>3, <1>4

LEMMA EndIdle ==
  ASSUME TypeOK, NEW p \in Proc, End(p)
  PROVE  proc'[p] = Idle /\ proc'[p].pc = "idle"
  BY DEF End, Idle, TypeOK

\* The steps that change more of a process than where it is.
LEMMA HashKeeps ==
  ASSUME TypeOK, NEW p \in Proc, Hash(p), ~Goto(p, "cleanup")
  PROVE  /\ proc[p] \in BackingUp /\ proc[p].pc = "hash" /\ proc'[p].pc = "sum"
         /\ proc'[p].id = proc[p].id /\ proc'[p].stamp = proc[p].stamp
         /\ proc'[p].checksum = dumps["backups"][proc[p].stamp]
         /\ proc'[p].kind = "backup" /\ proc'[p].done = proc[p].done
<1>1. proc[p] \in BackingUp /\ proc[p].pc = "hash"
  BY ProcType DEF Hash, At
<1> DEFINE e == dumps["backups"][proc[p].stamp]
<1>2. proc'[p] = [proc[p] EXCEPT !.pc = "sum", !.checksum = e]
  BY DEF Hash, TypeOK
<1> HIDE DEF e
<1>3. /\ proc'[p].pc = "sum" /\ proc'[p].checksum = e /\ proc'[p].id = proc[p].id
      /\ proc'[p].stamp = proc[p].stamp /\ proc'[p].kind = proc[p].kind
      /\ proc'[p].done = proc[p].done
  BY <1>1, <1>2 DEF BackingUp
<1>4. QED
  BY <1>1, <1>3, Kinds DEF e

LEMMA WriteKeeps ==
  ASSUME TypeOK, NEW p \in Proc, WriteSum(p), ~Goto(p, "cleanup")
  PROVE  /\ proc[p] \in BackingUp /\ proc[p].pc = "write" /\ proc'[p].pc = "cleanup"
         /\ proc'[p].id = proc[p].id /\ proc'[p].stamp = proc[p].stamp
         /\ proc'[p].checksum = proc[p].checksum
         /\ proc'[p].kind = "backup" /\ proc'[p].done
<1>1. proc[p] \in BackingUp /\ proc[p].pc = "write"
  BY ProcType DEF WriteSum, At
<1>2. proc'[p] = [proc[p] EXCEPT !.pc = "cleanup", !.done = TRUE]
  BY DEF WriteSum, TypeOK
<1>3. QED
  BY <1>1, <1>2 DEF BackingUp

LEMMA ReadKeeps ==
  ASSUME TypeOK, NEW p \in Proc, ReadSum(p), ~End(p)
  PROVE  /\ proc[p] \in PuttingBack /\ proc'[p].pc = "compare"
         /\ proc'[p].id = proc[p].id /\ proc'[p].stamp = proc[p].stamp
         /\ proc'[p].dir = proc[p].dir /\ proc'[p].kind = "restore"
         /\ proc'[p].expected # None
<1>1. proc[p] \in PuttingBack
  BY ProcType DEF ReadSum, At
<1> DEFINE e == sums[proc[p].dir][proc[p].stamp]
<1>2. proc'[p] = [proc[p] EXCEPT !.pc = "compare", !.expected = e] /\ e # None
  BY DEF ReadSum, TypeOK
<1> HIDE DEF e
<1>3. QED
  BY <1>1, <1>2 DEF PuttingBack

\* Where a step takes the process.
LEMMA PcNext ==
  ASSUME TypeOK, NEW p \in Proc
  PROVE  /\ StartBackup(p) => /\ proc'[p].pc = "secrets" /\ proc'[p].kind = "backup"
                              /\ proc'[p].id = commands' /\ ~proc'[p].done
         /\ StartRestore(p) => /\ proc'[p].pc = "verify" /\ proc'[p].kind = "restore"
                               /\ proc'[p].id = commands'
         /\ StartResticBackup(p) => proc'[p].pc = "read" /\ proc'[p].kind = "restic"
         /\ StartResticRestore(p) => proc'[p].pc = "extract" /\ proc'[p].kind = "resticRestore"
         /\ Resolve(p) => proc'[p].pc \in {"idle", "passfile"}
         /\ FillPassfile(p) => proc'[p].pc \in {"idle", "backup", "restore"}
         /\ ResticReads(p) => proc'[p].pc = "read" /\ proc'[p].kind = "restic"
         /\ ReadSum(p) => proc'[p].pc \in {"idle", "compare"}
<1> USE DEF TypeOK
<1>1. StartBackup(p) => /\ proc'[p].pc = "secrets" /\ proc'[p].kind = "backup"
                        /\ proc'[p].id = commands' /\ ~proc'[p].done
  BY DEF StartBackup, Start
<1>2. StartRestore(p) => /\ proc'[p].pc = "verify" /\ proc'[p].kind = "restore"
                         /\ proc'[p].id = commands'
  BY DEF StartRestore, Start
<1>3. StartResticBackup(p) => proc'[p].pc = "read" /\ proc'[p].kind = "restic"
  BY DEF StartResticBackup, Start
<1>4. StartResticRestore(p) => proc'[p].pc = "extract" /\ proc'[p].kind = "resticRestore"
  BY DEF StartResticRestore, Start
<1>5. Resolve(p) => proc'[p].pc \in {"idle", "passfile"}
  BY ProcType, GotoKeeps, EndIdle DEF Resolve, At
<1>6. FillPassfile(p) => proc'[p].pc \in {"idle", "backup", "restore"}
  BY ProcType, Kinds, GotoKeeps, EndIdle DEF FillPassfile, At
<1>7. ASSUME ResticReads(p) PROVE proc'[p].pc = "read" /\ proc'[p].kind = "restic"
  <2>1. proc[p] \in Copying
    BY <1>7, ProcType DEF ResticReads, At
  <2>2. QED
    BY <1>7, <2>1 DEF ResticReads, Copying
<1>8. ReadSum(p) => proc'[p].pc \in {"idle", "compare"}
  BY ReadKeeps, EndIdle
<1>9. QED
  BY <1>1, <1>2, <1>3, <1>4, <1>5, <1>6, <1>7, <1>8

\* A process that has started stays what it is until it ends.
LEMMA Goes ==
  ASSUME TypeOK, NEW p \in Proc, Step(p), ~Starting(p)
  PROVE  \/ proc'[p] = Idle
         \/ /\ proc[p] \in BackingUp /\ proc'[p] \in BackingUp
            /\ proc'[p].id = proc[p].id /\ proc'[p].stamp = proc[p].stamp
         \/ /\ proc[p] \in PuttingBack /\ proc'[p] \in PuttingBack
            /\ proc'[p].id = proc[p].id /\ proc'[p].stamp = proc[p].stamp
            /\ proc'[p].dir = proc[p].dir
         \/ proc[p] \in Copying /\ proc'[p] \in Copying
         \/ proc[p] \in Extracting /\ proc'[p] \in Extracting
<1> USE ProcType, GotoKeeps, EndIdle, Kinds
<1>0. proc'[p] \in Doing
  BY ProcNext DEF Becomes, TypeOK
<1>1. \/ proc'[p] = Idle
      \/ /\ proc[p] \in BackingUp /\ proc'[p].kind = "backup"
         /\ proc'[p].id = proc[p].id /\ proc'[p].stamp = proc[p].stamp
      \/ /\ proc[p] \in PuttingBack /\ proc'[p].kind = "restore"
         /\ proc'[p].id = proc[p].id /\ proc'[p].stamp = proc[p].stamp
         /\ proc'[p].dir = proc[p].dir
      \/ proc[p] \in Copying /\ proc'[p].kind = "restic"
      \/ proc[p] \in Extracting /\ proc'[p].kind = "resticRestore"
  <2>1. CASE Resolve(p) \/ FillPassfile(p) \/ RemovePartial(p) \/ RemovePassfile(p)
    BY <2>1 DEF Resolve, FillPassfile, RemovePartial, RemovePassfile, At
  <2>2. CASE Dumping(p) \/ DumpEnds(p) \/ Rename(p) \/ OpenSum(p)
    BY <2>2 DEF Dumping, DumpEnds, Rename, OpenSum, At
  <2>3. CASE Hash(p)
    BY <2>3, HashKeeps DEF Hash, At
  <2>4. CASE WriteSum(p)
    BY <2>4, WriteKeeps DEF WriteSum, At
  <2>5. CASE ReadSum(p)
    BY <2>5, ReadKeeps
  <2>6. CASE Compare(p) \/ PgRestore(p) \/ ResticExtracts(p)
    BY <2>6 DEF Compare, PgRestore, ResticExtracts, At
  <2>7. CASE ResticReads(p)
    BY <2>7, PcNext DEF ResticReads, At
  <2>8. CASE ResticSaves(p) \/ ResticFills(p) \/ Kill(p)
    BY <2>8 DEF ResticSaves, ResticFills, Kill
  <2>9. QED
    BY <2>1, <2>2, <2>3, <2>4, <2>5, <2>6, <2>7, <2>8 DEF Step, Starting
<1>2. QED
  BY <1>0, <1>1 DEF Doing

-----------------------------------------------------------------------------
(* Every backup and every restore has an id of its own.                    *)

HasId(p) == proc[p] \in BackingUp \cup PuttingBack

IdInv ==
  /\ \A p \in Proc : HasId(p) => proc[p].id <= commands
  /\ \A p, q \in Proc : HasId(p) /\ HasId(q) /\ p # q => proc[p].id # proc[q].id
  /\ \A b \in finished : b.id <= commands
  /\ \A b \in finished, p \in Proc : HasId(p) => proc[p].id # b.id

LEMMA IdleHasNoId ==
  ASSUME NEW p \in Proc, proc[p] = Idle
  PROVE  ~HasId(p)
  BY Kinds DEF HasId

LEMMA IdNext == TypeOK /\ IdInv /\ [Next]_vars => IdInv'
<1> SUFFICES ASSUME TypeOK, IdInv, [Next]_vars PROVE IdInv'
  OBVIOUS
<1> USE DEF History
<1>1. CASE UNCHANGED vars \/ Tick \/ RunControlPlane
  BY <1>1 DEF IdInv, HasId, vars, Tick, RunControlPlane
<1>2. ASSUME NEW p \in Proc, Starting(p) PROVE IdInv'
  <2>1. /\ commands \in Int /\ commands' = commands + 1 /\ finished' = finished
        /\ Step(p)
    BY <1>2 DEF Starting, StartBackup, StartRestore, StartResticBackup, StartResticRestore,
         Start, Step, TypeOK
  <2>2. \A q \in Proc \ {p} : proc'[q] = proc[q]
    BY <2>1, Alone
  <2>3. HasId(p)' => proc'[p].id = commands'
    BY <1>2, PcNext, Kinds DEF Starting, HasId
  <2>4. /\ \A q \in Proc : HasId(q) => proc[q].id \in Int
        /\ \A b \in finished : b.id \in Int
    BY DEF HasId, BackingUp, PuttingBack, TypeOK
  <2>5. \A q \in Proc \ {p} : (HasId(q)' <=> HasId(q)) /\ (HasId(q) => proc[q].id < commands')
    BY <2>1, <2>2, <2>4 DEF HasId, IdInv
  <2>6. \A b \in finished : b.id < commands'
    BY <2>1, <2>4 DEF IdInv
  <2>7. \A q \in Proc : HasId(q)' => proc'[q].id <= commands'
    BY <2>1, <2>2, <2>3, <2>4, <2>5
  <2>8. \A q, r \in Proc : HasId(q)' /\ HasId(r)' /\ q # r => proc'[q].id # proc'[r].id
    BY <2>1, <2>2, <2>3, <2>4, <2>5 DEF IdInv
  <2>9. \A b \in finished', q \in Proc : HasId(q)' => proc'[q].id # b.id
    BY <2>1, <2>2, <2>3, <2>4, <2>5, <2>6 DEF IdInv
  <2>10. QED
    BY <2>1, <2>4, <2>6, <2>7, <2>8, <2>9 DEF IdInv
<1>3. ASSUME NEW p \in Proc, Step(p), ~Starting(p) PROVE IdInv'
  <2>1. \A q \in Proc \ {p} : proc'[q] = proc[q]
    BY <1>3, Alone
  <2>2. HasId(p)' => HasId(p) /\ proc'[p].id = proc[p].id
    BY <1>3, Goes, Kinds DEF HasId
  <2>3. commands' = commands
    BY <1>3 DEF Step, Starting, Resolve, FillPassfile, Dumping, DumpEnds, Rename, Hash,
         OpenSum, WriteSum, RemovePartial, RemovePassfile, ReadSum, Compare, PgRestore,
         ResticReads, ResticSaves, ResticExtracts, ResticFills, Kill
  <2>4. CASE finished' = finished
    BY <2>1, <2>2, <2>3, <2>4 DEF IdInv, HasId
  <2>5. CASE finished' # finished
    <3>1. RemovePassfile(p)
      BY <1>3, <2>5 DEF Step, Starting, Resolve, FillPassfile, Dumping, DumpEnds, Rename,
         Hash, OpenSum, WriteSum, RemovePartial, ReadSum, Compare, PgRestore,
         ResticReads, ResticSaves, ResticExtracts, ResticFills, Kill
    <3>2. HasId(p) /\ ~HasId(p)'
      BY <3>1, ProcType, EndIdle, Kinds DEF RemovePassfile, At, HasId
    <3>3. finished' = finished \cup {[id |-> proc[p].id, stamp |-> proc[p].stamp]}
      BY <2>5, <3>1 DEF RemovePassfile
    <3>4. QED
      BY <2>1, <2>2, <2>3, <3>2, <3>3 DEF IdInv, HasId
  <2>6. QED
    BY <2>4, <2>5
<1>4. QED
  BY <1>1, <1>2, <1>3 DEF Next, Step

-----------------------------------------------------------------------------
(* A backup that has reported success stays.  The dump a backup renames,   *)
(* hashes and vouches for is its own, and so is the checksum beside it     *)
(* from its write to the report, unless another one has its name.          *)

InPlace(p) ==
  proc[p] \in BackingUp =>
    /\ proc[p].done => proc[p].pc \in {"cleanup", "release"}
    /\ ~Shared(proc[p].id) =>
         /\ proc[p].done \/ proc[p].pc \in {"hash", "sum", "write"} =>
              dumps["backups"][proc[p].stamp] = Own(proc[p].id)
         /\ proc[p].pc \in {"sum", "write"} => proc[p].checksum = Own(proc[p].id)
         /\ proc[p].done => sums["backups"][proc[p].stamp] = Own(proc[p].id)

FinishInv == FinishedBackupStays /\ \A p \in Proc : InPlace(p)

\* Two backups of one name started in one second.
LEMMA OneName ==
  ASSUME NEW a, NEW b, NEW s, Named(started, a, s), Named(started, b, s), a # b
  PROVE  Shared(a)
  BY DEF Named, Shared, BackupFilePath

LEMMA SharedStays ==
  ASSUME NEW id, started \subseteq started', Shared(id)
  PROVE  Shared(id)'
  BY DEF Shared

\* A step touches the two files of its own name only.
LEMMA Touches ==
  ASSUME TypeOK, NEW p \in Proc, Step(p), NEW s \in Stamp,
         \/ dumps'["backups"][s] # dumps["backups"][s]
         \/ sums'["backups"][s] # sums["backups"][s]
  PROVE  proc[p] \in BackingUp /\ s = proc[p].stamp
<1> USE DEF Files, History
<1>1. CASE Rename(p) \/ OpenSum(p) \/ WriteSum(p)
  <2>1. proc[p] \in BackingUp
    BY <1>1, ProcType DEF Rename, OpenSum, WriteSum, At
  <2>2. dumps["backups"] \in Directory /\ sums["backups"] \in Directory
    BY DEF TypeOK, Dir
  <2>3. /\ \A t \in Stamp : t # proc[p].stamp => dumps'["backups"][t] = dumps["backups"][t]
        /\ \A t \in Stamp : t # proc[p].stamp => sums'["backups"][t] = sums["backups"][t]
    BY <1>1, <2>2 DEF Rename, OpenSum, WriteSum, TypeOK, Dir, Directory
  <2>4. QED
    BY <2>1, <2>3
<1>2. CASE ResticExtracts(p) \/ ResticFills(p)
  BY <1>2 DEF ResticExtracts, ResticFills, TypeOK, Dir
<1>3. CASE ~(\/ Rename(p) \/ OpenSum(p) \/ WriteSum(p) \/ ResticExtracts(p) \/ ResticFills(p))
  BY <1>3 DEF Step, StartBackup, StartRestore, StartResticBackup, StartResticRestore, Start,
       Resolve, FillPassfile, Dumping, DumpEnds, Hash, RemovePartial, RemovePassfile,
       ReadSum, Compare, PgRestore, ResticReads, ResticSaves, Kill
<1>4. QED
  BY <1>1, <1>2, <1>3

\* The process that takes the step.
LEMMA OwnInPlace ==
  ASSUME TypeOK, FinishInv, started \subseteq started', NEW p \in Proc, Step(p)
  PROVE  InPlace(p)'
<1> USE ProcType, Kinds DEF Files, History
<1>0. \A id : ~Shared(id)' => ~Shared(id)
  BY SharedStays
<1>1. CASE Starting(p)
  <2>1. proc'[p].kind # "backup" \/ (proc'[p].pc = "secrets" /\ ~proc'[p].done)
    BY <1>1, PcNext DEF Starting
  <2>2. QED
    BY <2>1 DEF InPlace
<1>2. CASE proc[p] \in PuttingBack \cup Copying \cup Extracting /\ ~Starting(p)
  <2>1. proc'[p] \notin BackingUp
    BY <1>2, Goes
  <2>2. QED
    BY <2>1 DEF InPlace
<1>3. ASSUME proc[p] \in BackingUp, NEW pc, Goto(p, pc),
             dumps' = dumps /\ sums' = sums,
             proc[p].done => pc \in {"cleanup", "release"},
             pc \in {"hash", "sum", "write"} =>
               proc[p].pc \in {"hash", "sum", "write"},
             pc \in {"sum", "write"} => proc[p].pc \in {"sum", "write"}
      PROVE  InPlace(p)'
  <2>1. /\ proc'[p].pc = pc /\ proc'[p].id = proc[p].id /\ proc'[p].stamp = proc[p].stamp
        /\ proc'[p].checksum = proc[p].checksum /\ proc'[p].done = proc[p].done
    BY <1>3, GotoKeeps
  <2>2. QED
    BY <1>0, <1>3, <2>1 DEF FinishInv, InPlace
<1>4. CASE End(p)
  BY <1>4, EndIdle DEF InPlace
<1>5. ASSUME proc[p] \in BackingUp
      PROVE  proc[p].done => proc[p].pc \in {"cleanup", "release"}
  BY <1>5 DEF FinishInv, InPlace
<1>6. CASE Rename(p)
  <2>1. CASE Goto(p, "cleanup") /\ dumps' = dumps
    BY <1>3, <1>5, <1>6, <2>1 DEF Rename, At
  <2>2. CASE /\ Goto(p, "hash")
             /\ dumps' = [dumps EXCEPT !["backups"][proc[p].stamp] = Own(proc[p].id)]
    <3>1. /\ proc[p] \in BackingUp /\ proc[p].stamp \in Stamp /\ proc[p].pc = "rename"
          /\ proc'[p].pc = "hash" /\ proc'[p].id = proc[p].id
          /\ proc'[p].stamp = proc[p].stamp /\ proc'[p].done = proc[p].done
      BY <1>6, <2>2, GotoKeeps DEF Rename, At, BackingUp
    <3>2. dumps'["backups"][proc[p].stamp] = Own(proc[p].id)
      BY <2>2, <3>1 DEF TypeOK, Dir, Directory
    <3>3. QED
      BY <1>5, <3>1, <3>2 DEF InPlace
  <2>3. QED
    BY <1>6, <2>1, <2>2 DEF Rename
<1>7. CASE Hash(p)
  <2>1. CASE Goto(p, "cleanup")
    BY <1>3, <1>5, <1>7, <2>1 DEF Hash, At
  <2>2. CASE ~Goto(p, "cleanup")
    <3>1. /\ proc[p] \in BackingUp /\ proc[p].pc = "hash" /\ proc'[p].pc = "sum"
          /\ proc'[p].id = proc[p].id /\ proc'[p].stamp = proc[p].stamp
          /\ proc'[p].checksum = dumps["backups"][proc[p].stamp]
          /\ proc'[p].done = proc[p].done
      BY <1>7, <2>2, HashKeeps
    <3>2. dumps' = dumps
      BY <1>7 DEF Hash
    <3>3. QED
      BY <1>0, <1>5, <3>1, <3>2 DEF FinishInv, InPlace
  <2>3. QED
    BY <2>1, <2>2
<1>8. CASE OpenSum(p)
  <2>1. /\ proc[p] \in BackingUp /\ proc[p].pc = "sum" /\ ~proc[p].done
    BY <1>5, <1>8 DEF OpenSum, At
  <2>2. /\ proc'[p].pc \in {"write", "cleanup"} /\ proc'[p].id = proc[p].id
        /\ proc'[p].stamp = proc[p].stamp /\ proc'[p].checksum = proc[p].checksum
        /\ proc'[p].done = proc[p].done /\ dumps' = dumps
    BY <1>8, <2>1, GotoKeeps DEF OpenSum
  <2>3. QED
    BY <1>0, <2>1, <2>2 DEF FinishInv, InPlace
<1>9. CASE WriteSum(p)
  <2>1. CASE Goto(p, "cleanup")
    <3>1. proc[p] \in BackingUp /\ proc[p].pc = "write" /\ ~proc[p].done
      BY <1>5, <1>9 DEF WriteSum, At
    <3>2. proc'[p].pc = "cleanup" /\ proc'[p].done = proc[p].done
      BY <2>1, <3>1, GotoKeeps
    <3>3. QED
      BY <3>1, <3>2 DEF InPlace
  <2>2. CASE ~Goto(p, "cleanup")
    <3>1. /\ proc[p] \in BackingUp /\ proc[p].pc = "write" /\ proc'[p].pc = "cleanup"
          /\ proc'[p].id = proc[p].id /\ proc'[p].stamp = proc[p].stamp
      BY <1>9, <2>2, WriteKeeps
    <3>2. proc[p].stamp \in Stamp
      BY <3>1 DEF BackingUp
    <3>3. dumps' = dumps /\ sums'["backups"][proc[p].stamp] = proc[p].checksum
      BY <1>9, <2>2, <3>2 DEF WriteSum, TypeOK, Dir, Directory
    <3>4. QED
      BY <1>0, <3>1, <3>3 DEF FinishInv, InPlace
  <2>3. QED
    BY <2>1, <2>2
<1>10. CASE /\ proc[p] \in BackingUp
            /\ Resolve(p) \/ FillPassfile(p) \/ Dumping(p) \/ DumpEnds(p)
  <2>1. ~proc[p].done
    BY <1>5, <1>10 DEF Resolve, FillPassfile, Dumping, DumpEnds, At
  <2>2. PICK pc \in {"passfile", "backup", "dump", "rename", "cleanup"} :
          Goto(p, pc) \/ End(p)
    BY <1>10 DEF Resolve, FillPassfile, Dumping, DumpEnds
  <2>3. dumps' = dumps /\ sums' = sums
    BY <1>10 DEF Resolve, FillPassfile, Dumping, DumpEnds
  <2>4. QED
    BY <1>3, <1>4, <1>10, <2>1, <2>2, <2>3
<1>15. CASE RemovePartial(p)
  <2>1. proc[p] \in BackingUp /\ dumps' = dumps /\ sums' = sums
        /\ (Goto(p, "release") \/ End(p))
    BY <1>15 DEF RemovePartial, At
  <2>2. QED
    BY <1>3, <1>4, <2>1
<1>11. CASE proc[p] \in BackingUp /\ (RemovePassfile(p) \/ Kill(p))
  BY <1>4, <1>11 DEF RemovePassfile, Kill
<1>12. CASE proc[p] = Idle /\ ~Starting(p)
  <2>1. proc'[p] = Idle
    BY <1>12, Goes
  <2>2. QED
    BY <2>1 DEF InPlace
<1>13. CASE proc[p] \in BackingUp /\ ~Starting(p)
  <2>1. \/ Rename(p) \/ Hash(p) \/ OpenSum(p) \/ WriteSum(p) \/ Resolve(p) \/ FillPassfile(p)
        \/ Dumping(p) \/ DumpEnds(p) \/ RemovePartial(p) \/ RemovePassfile(p) \/ Kill(p)
    <3>1. proc[p].pc \notin {"verify", "compare", "restore", "read", "extract", "fill"}
      BY <1>13 DEF BackingUp
    <3>2. QED
      BY <1>13, <3>1 DEF Step, Starting, ReadSum, Compare, PgRestore, ResticReads,
           ResticSaves, ResticExtracts, ResticFills, At
  <2>2. QED
    BY <1>6, <1>7, <1>8, <1>9, <1>10, <1>11, <1>13, <1>15, <2>1
<1>14. QED
  BY <1>1, <1>2, <1>12, <1>13 DEF TypeOK

LEMMA FinishNext == TypeOK /\ NameInv /\ IdInv /\ FinishInv /\ [Next]_vars => FinishInv'
<1> SUFFICES ASSUME TypeOK, NameInv, IdInv, FinishInv, [Next]_vars PROVE FinishInv'
  OBVIOUS
<1>0. started \subseteq started'
  BY StartedGrows
<1>1. \A id : ~Shared(id)' => ~Shared(id)
  BY <1>0, SharedStays
<1> USE DEF Files, History
<1>2. CASE UNCHANGED vars \/ Tick \/ RunControlPlane
  <2>1. UNCHANGED <<dumps, sums, proc, started, finished>>
    BY <1>2 DEF vars, Tick, RunControlPlane
  <2>2. QED
    BY <2>1 DEF FinishInv, FinishedBackupStays, InPlace, Shared
<1>3. ASSUME NEW p \in Proc, Step(p) PROVE FinishInv'
  <2>1. ASSUME NEW id, NEW s \in Stamp, Named(started, id, s), ~Shared(id),
               HasId(p) => id # proc[p].id
        PROVE  /\ dumps'["backups"][s] = dumps["backups"][s]
               /\ sums'["backups"][s] = sums["backups"][s]
    <3>1. proc[p] \in BackingUp => s # proc[p].stamp
      <4>1. SUFFICES ASSUME proc[p] \in BackingUp, s = proc[p].stamp PROVE FALSE
        OBVIOUS
      <4>2. Named(started, proc[p].id, s)
        BY <4>1 DEF NameInv, Sourced
      <4>3. id # proc[p].id
        BY <2>1, <4>1 DEF HasId
      <4>4. QED
        BY <2>1, <4>2, <4>3, OneName
    <3>2. QED
      BY <1>3, <3>1, Touches
  <2>2. ASSUME NEW b \in finished, ~Shared(b.id)
        PROVE  dumps'["backups"][b.stamp] = Own(b.id) /\ sums'["backups"][b.stamp] = Own(b.id)
    <3>1. Named(started, b.id, b.stamp) /\ b.stamp \in Stamp
      BY DEF NameInv, TypeOK
    <3>2. HasId(p) => b.id # proc[p].id
      BY DEF IdInv
    <3>3. QED
      BY <2>1, <2>2, <3>1, <3>2 DEF FinishInv, FinishedBackupStays
  <2>3. ASSUME NEW b \in finished', b \notin finished, ~Shared(b.id)
        PROVE  dumps'["backups"][b.stamp] = Own(b.id) /\ sums'["backups"][b.stamp] = Own(b.id)
    <3>1. RemovePassfile(p)
      BY <1>3, <2>3 DEF Step, StartBackup, StartRestore, StartResticBackup,
           StartResticRestore, Start, Resolve, FillPassfile, Dumping, DumpEnds, Rename, Hash,
           OpenSum, WriteSum, RemovePartial, ReadSum, Compare, PgRestore, ResticReads,
           ResticSaves, ResticExtracts, ResticFills, Kill
    <3>2. /\ Succeeded(p) /\ b.id = proc[p].id /\ b.stamp = proc[p].stamp
          /\ dumps' = dumps /\ sums' = sums
      BY <2>3, <3>1 DEF RemovePassfile
    <3>3. proc[p] \in BackingUp
      BY <3>1, <3>2, ProcType, Kinds DEF RemovePassfile, At, Succeeded
    <3>4. QED
      BY <2>3, <3>2, <3>3 DEF FinishInv, InPlace, Succeeded
  <2>4. FinishedBackupStays'
    BY <1>1, <2>2, <2>3 DEF FinishedBackupStays
  <2>5. ASSUME NEW q \in Proc, q # p PROVE InPlace(q)'
    <3>1. proc'[q] = proc[q]
      BY <1>3, <2>5, Alone
    <3>2. CASE proc[q] \in BackingUp /\ ~Shared(proc[q].id)
      <4>1. Named(started, proc[q].id, proc[q].stamp) /\ proc[q].stamp \in Stamp
        BY <3>2 DEF NameInv, Sourced, BackingUp
      <4>2. HasId(p) => proc[q].id # proc[p].id
        BY <2>5, <3>2 DEF IdInv, HasId
      <4>3. QED
        BY <2>1, <3>1, <3>2, <4>1, <4>2 DEF FinishInv, InPlace
    <3>3. CASE ~(proc[q] \in BackingUp /\ ~Shared(proc[q].id))
      BY <1>1, <3>1, <3>3 DEF FinishInv, InPlace
    <3>4. QED
      BY <3>2, <3>3
  <2>6. InPlace(p)'
    BY <1>0, <1>3, OwnInPlace
  <2>7. QED
    BY <2>4, <2>5, <2>6 DEF FinishInv
<1>4. QED
  BY <1>2, <1>3 DEF Next, Step

-----------------------------------------------------------------------------
(* Only whole dumps are restored.  From the comparison on, the file is     *)
(* there; in the restored directory it is the one compared, because no     *)
(* snapshot is extracted meanwhile.                                        *)

Exclusive == \A p, q \in Proc : proc[p] \in PuttingBack => proc[q] \notin Extracting

Compared(directories, x) ==
  x \in PuttingBack /\ x.pc \in {"compare", "secrets", "passfile", "restore"} =>
    /\ x.expected # None
    /\ x.pc # "compare" => directories[x.dir][x.stamp] # None
    /\ x.pc # "compare" /\ x.dir = "restore" => directories["restore"][x.stamp] = x.expected

RestoreInv == RestoredIsWhole /\ Exclusive /\ \A p \in Proc : Compared(dumps, proc[p])

LEMMA ExclusiveNext == TypeOK /\ Exclusive /\ [Next]_vars => Exclusive'
<1> SUFFICES ASSUME TypeOK, Exclusive, [Next]_vars PROVE Exclusive'
  OBVIOUS
<1>1. CASE UNCHANGED vars \/ Tick \/ RunControlPlane
  BY <1>1 DEF Exclusive, vars, Tick, RunControlPlane
<1>2. ASSUME NEW p \in Proc, StartRestore(p) PROVE Exclusive'
  <2>1. \A q \in Proc : proc[q] \notin Extracting
    <3>1. \A q \in Proc : proc[q] # Idle => proc[q].kind # "resticRestore"
      BY <1>2 DEF StartRestore, Restoring
    <3>2. QED
      BY <3>1, Kinds
  <2>2. proc'[p].kind = "restore" /\ \A q \in Proc \ {p} : proc'[q] = proc[q]
    BY <1>2, PcNext, Alone DEF Step
  <2>3. \A q \in Proc : proc'[q] \notin Extracting
    BY <2>1, <2>2, Kinds
  <2>4. QED
    BY <2>3 DEF Exclusive
<1>3. ASSUME NEW p \in Proc, StartResticRestore(p) PROVE Exclusive'
  <2>1. \A q \in Proc : proc[q] \notin PuttingBack
    <3>1. \A q \in Proc : proc[q] # Idle => proc[q].kind # "restore"
      BY <1>3 DEF StartResticRestore, Restoring
    <3>2. QED
      BY <3>1, Kinds
  <2>2. proc'[p].kind = "resticRestore" /\ \A q \in Proc \ {p} : proc'[q] = proc[q]
    BY <1>3, PcNext, Alone DEF Step
  <2>3. \A q \in Proc : proc'[q] \notin PuttingBack
    BY <2>1, <2>2, Kinds
  <2>4. QED
    BY <2>3 DEF Exclusive
<1>4. ASSUME NEW p \in Proc, StartBackup(p) \/ StartResticBackup(p) PROVE Exclusive'
  <2>1. proc'[p].kind \in {"backup", "restic"} /\ \A q \in Proc \ {p} : proc'[q] = proc[q]
    BY <1>4, PcNext, Alone DEF Step
  <2>2. proc'[p] \notin PuttingBack /\ proc'[p] \notin Extracting
    BY <2>1, Kinds
  <2>3. QED
    BY <2>1, <2>2 DEF Exclusive
<1>5. ASSUME NEW p \in Proc, Step(p), ~Starting(p) PROVE Exclusive'
  <2>1. \A q \in Proc \ {p} : proc'[q] = proc[q]
    BY <1>5, Alone
  <2>2. /\ proc'[p] \in PuttingBack => proc[p] \in PuttingBack
        /\ proc'[p] \in Extracting => proc[p] \in Extracting
    BY <1>5, Goes, Kinds
  <2>3. QED
    BY <2>1, <2>2 DEF Exclusive
<1>6. QED
  BY <1>1, <1>2, <1>3, <1>4, <1>5 DEF Next, Step, Starting

\* A dump stays where it is while somebody restores.
LEMMA DumpsStay ==
  ASSUME TypeOK, Exclusive, [Next]_vars, NEW p \in Proc, proc[p] \in PuttingBack
  PROVE  /\ \A d \in Dir, s \in Stamp : dumps[d][s] # None => dumps'[d][s] # None
         /\ dumps'["restore"] = dumps["restore"]
<1> USE DEF Files, History
<1>1. \A q \in Proc : ~At(q, "extract") /\ ~At(q, "fill")
  BY ProcType DEF Exclusive, At
<1>2. ASSUME NEW q \in Proc, Rename(q)
      PROVE  /\ \A d \in Dir, s \in Stamp : dumps[d][s] # None => dumps'[d][s] # None
             /\ dumps'["restore"] = dumps["restore"]
  <2>1. proc[q].stamp \in Stamp /\ proc[q].id \in 1..MaxCommands
    BY <1>2, ProcType DEF Rename, At, BackingUp
  <2>2. Own(proc[q].id) # None
    <3>1. Own(proc[q].id) \in Dump
      BY <2>1 DEF Own, Dump
    <3>2. QED
      BY <3>1, BackupConstants
  <2>3. QED
    BY <1>2, <2>1, <2>2 DEF Rename, TypeOK, Dir, Directory
<1>3. CASE ~\E q \in Proc : Rename(q)
  <2>1. dumps' = dumps
    BY <1>1, <1>3 DEF Next, vars, Tick, RunControlPlane, StartBackup, StartRestore,
         StartResticBackup, StartResticRestore, Start, Resolve, FillPassfile, Dumping,
         DumpEnds, Hash, OpenSum, WriteSum, RemovePartial, RemovePassfile, ReadSum, Compare,
         PgRestore, ResticReads, ResticSaves, ResticExtracts, ResticFills, Kill
  <2>2. QED
    BY <2>1
<1>4. QED
  BY <1>2, <1>3

LEMMA SameDump ==
  ASSUME NEW f \in Dump, NEW g \in Dump, f.of = g.of, f.whole, g.whole
  PROVE  f = g
  BY DEF Dump

LEMMA ComparedNext ==
  TypeOK /\ RestoreInv /\ [Next]_vars => \A p \in Proc : Compared(dumps', proc'[p])
<1> SUFFICES ASSUME TypeOK, RestoreInv, [Next]_vars, NEW p \in Proc
             PROVE  Compared(dumps', proc'[p])
  OBVIOUS
<1> USE DEF Files, History
<1>1. ASSUME proc'[p] = proc[p] PROVE Compared(dumps', proc'[p])
  <2>1. CASE proc[p] \in PuttingBack
    <3>1. /\ \A d \in Dir, s \in Stamp : dumps[d][s] # None => dumps'[d][s] # None
          /\ dumps'["restore"] = dumps["restore"]
      BY <2>1, DumpsStay DEF RestoreInv
    <3>2. proc[p].dir \in Dir /\ proc[p].stamp \in Stamp
      BY <2>1 DEF PuttingBack
    <3>3. QED
      BY <1>1, <3>1, <3>2 DEF RestoreInv, Compared
  <2>2. QED
    BY <1>1, <2>1 DEF Compared
<1>2. CASE UNCHANGED vars \/ Tick \/ RunControlPlane
  BY <1>1, <1>2 DEF vars, Tick, RunControlPlane
<1>3. ASSUME NEW q \in Proc \ {p}, Step(q) PROVE Compared(dumps', proc'[p])
  BY <1>1, <1>3, Alone
<1>4. CASE Starting(p)
  <2>1. \/ proc'[p].kind \in {"backup", "restic", "resticRestore"}
        \/ proc'[p].pc = "verify"
    BY <1>4, PcNext DEF Starting
  <2>2. QED
    BY <2>1, Kinds DEF Compared
<1>5. CASE Step(p) /\ ~Starting(p) /\ proc[p] \notin PuttingBack
  <2>1. proc'[p] \notin PuttingBack
    BY <1>5, Goes, Kinds
  <2>2. QED
    BY <2>1 DEF Compared
<1>6. ASSUME End(p) PROVE Compared(dumps', proc'[p])
  BY <1>6, EndIdle DEF Compared
<1>7. CASE PgRestore(p)
  <2>1. proc'[p].pc = "release"
    BY <1>7, ProcType, GotoKeeps DEF PgRestore, At
  <2>2. QED
    BY <2>1 DEF Compared
<1>8. CASE ReadSum(p)
  <2>1. CASE End(p)
    BY <1>6, <2>1
  <2>2. CASE ~End(p)
    BY <1>8, <2>2, ReadKeeps DEF Compared
  <2>3. QED
    BY <2>1, <2>2
<1>9. CASE Compare(p)
  <2>1. CASE End(p)
    BY <1>6, <2>1
  <2>2. CASE ~End(p)
    <3>1. /\ proc[p] \in PuttingBack /\ proc[p].pc = "compare" /\ Goto(p, "secrets")
          /\ dumps' = dumps /\ dumps[proc[p].dir][proc[p].stamp] = proc[p].expected
      BY <1>9, <2>2, ProcType DEF Compare, At
    <3>2. /\ proc'[p].dir = proc[p].dir /\ proc'[p].stamp = proc[p].stamp
          /\ proc'[p].expected = proc[p].expected
      BY <3>1, GotoKeeps
    <3>3. proc[p].expected # None
      BY <3>1 DEF RestoreInv, Compared
    <3>4. QED
      BY <3>1, <3>2, <3>3 DEF Compared
  <2>3. QED
    BY <2>1, <2>2
<1>10. CASE (Resolve(p) \/ FillPassfile(p)) /\ proc[p] \in PuttingBack
  <2>1. CASE End(p)
    BY <1>6, <2>1
  <2>2. CASE ~End(p)
    <3>1. PICK pc : Goto(p, pc)
      BY <1>10, <2>2 DEF Resolve, FillPassfile
    <3>2. proc[p].pc \in {"secrets", "passfile"} /\ dumps' = dumps
      BY <1>10 DEF Resolve, FillPassfile, At
    <3>3. /\ proc'[p].dir = proc[p].dir /\ proc'[p].stamp = proc[p].stamp
          /\ proc'[p].expected = proc[p].expected
      BY <1>10, <3>1, GotoKeeps
    <3>4. QED
      BY <1>10, <3>2, <3>3 DEF RestoreInv, Compared
  <2>3. QED
    BY <2>1, <2>2
<1>11. CASE Kill(p) \/ RemovePassfile(p)
  BY <1>6, <1>11 DEF Kill, RemovePassfile
<1>12. CASE Step(p) /\ ~Starting(p) /\ proc[p] \in PuttingBack
  <2>1. /\ ~Dumping(p) /\ ~DumpEnds(p) /\ ~Rename(p) /\ ~Hash(p) /\ ~OpenSum(p) /\ ~WriteSum(p)
        /\ ~RemovePartial(p) /\ ~ResticReads(p) /\ ~ResticSaves(p) /\ ~ResticExtracts(p)
        /\ ~ResticFills(p)
    BY <1>12 DEF PuttingBack, Dumping, DumpEnds, Rename, Hash, OpenSum, WriteSum,
       RemovePartial, ResticReads, ResticSaves, ResticExtracts, ResticFills, At
  <2>2. QED
    BY <1>7, <1>8, <1>9, <1>10, <1>11, <1>12, <2>1 DEF Step, Starting
<1>13. QED
  BY <1>2, <1>3, <1>4, <1>5, <1>12 DEF Next, Step

LEMMA RestoredNext == TypeOK /\ NameInv /\ RestoreInv /\ [Next]_vars => RestoredIsWhole'
<1> SUFFICES ASSUME TypeOK, NameInv, RestoreInv, [Next]_vars PROVE RestoredIsWhole'
  OBVIOUS
<1> USE DEF Files, History
<1>0. \A id : ~Shared(id)' => ~Shared(id)
  BY StartedGrows, SharedStays
<1>1. CASE restored' = restored
  BY <1>0, <1>1 DEF RestoreInv, RestoredIsWhole
<1>2. ASSUME NEW p \in Proc, PgRestore(p) PROVE RestoredIsWhole'
  <2> DEFINE found == dumps[proc[p].dir][proc[p].stamp]
             vouched == proc[p].expected
  <2>1. /\ proc[p] \in PuttingBack /\ proc[p].pc = "restore"
        /\ proc[p].dir \in Dir /\ proc[p].stamp \in Stamp /\ vouched \in Dump \cup {None}
    BY <1>2, ProcType DEF PgRestore, At, PuttingBack
  <2>2. /\ vouched # None /\ found # None
        /\ proc[p].dir = "restore" => found = vouched
    BY <2>1 DEF RestoreInv, Compared
  <2>3. vouched.whole /\ Named(started, vouched.of, proc[p].stamp)
    BY <2>1, <2>2 DEF NameInv, Sourced, WholeAt
  <2>4. CASE proc[p].dir = "backups"
    <3>1. found.whole /\ Named(started, found.of, proc[p].stamp)
      BY <2>1, <2>2, <2>4 DEF NameInv, AllWhole, WholeAt
    <3>2. found \in Dump /\ vouched \in Dump
      BY <2>1, <2>2 DEF TypeOK, Directory
    <3>3. ~Shared(found.of) => found.of = vouched.of
      BY <2>3, <3>1, OneName
    <3>4. ~Shared(found.of) => found = vouched
      BY <2>3, <3>1, <3>2, <3>3, SameDump
    <3>5. QED
      BY <1>0, <1>2, <2>2, <3>1, <3>4 DEF PgRestore, RestoreInv, RestoredIsWhole
  <2>5. CASE proc[p].dir = "restore"
    BY <1>0, <1>2, <2>2, <2>3, <2>5 DEF PgRestore, RestoreInv, RestoredIsWhole
  <2>6. QED
    BY <2>1, <2>4, <2>5 DEF Dir
<1>3. CASE ~\E p \in Proc : PgRestore(p)
  <2>1. restored' = restored
    BY <1>3 DEF Next, vars, Tick, RunControlPlane, StartBackup, StartRestore,
         StartResticBackup, StartResticRestore, Start, Resolve, FillPassfile, Dumping,
         DumpEnds, Rename, Hash, OpenSum, WriteSum, RemovePartial, RemovePassfile, ReadSum,
         Compare, ResticReads, ResticSaves, ResticExtracts, ResticFills, Kill
  <2>2. QED
    BY <1>1, <2>1
<1>4. QED
  BY <1>2, <1>3

LEMMA RestoreNext == TypeOK /\ NameInv /\ RestoreInv /\ [Next]_vars => RestoreInv'
<1> SUFFICES ASSUME TypeOK, NameInv, RestoreInv, [Next]_vars PROVE RestoreInv'
  OBVIOUS
<1>1. Exclusive'
  BY ExclusiveNext DEF RestoreInv
<1>2. \A p \in Proc : Compared(dumps', proc'[p])
  BY ComparedNext
<1>3. QED
  BY <1>1, <1>2, RestoredNext DEF RestoreInv, Compared

-----------------------------------------------------------------------------
(* The password.  A passfile belongs to a command that still has it to     *)
(* remove, or that was cut short; a backup has removed its partial file    *)
(* before its passfile.                                                    *)

Holding == {"passfile", "backup", "dump", "rename", "hash", "sum", "write", "cleanup",
            "release", "restore"}

Held(id) == \E p \in Proc : HasId(p) /\ proc[p].id = id /\ proc[p].pc \in Holding

NoPartial(files, id) == \A f \in files : f.of # id

PassInv ==
  /\ \A id \in pgpass : id \in cutShort \/ Held(id)
  /\ \A p \in Proc : proc[p] \in BackingUp /\ proc[p].pc = "release"
                     => NoPartial(partials, proc[p].id)
  /\ \A b \in finished : b.id \notin pgpass /\ NoPartial(partials, b.id)

\* A step adds files of its own command only.
LEMMA OwnFiles ==
  ASSUME TypeOK, NEW p \in Proc, Step(p)
  PROVE  /\ \A id \in pgpass' \ pgpass :
              HasId(p) /\ id = proc[p].id /\ HasId(p)' /\ proc'[p].id = id
              /\ proc'[p].pc \in Holding
         /\ \A f \in partials' \ partials : HasId(p) /\ f.of = proc[p].id
<1> USE DEF Files, History
<1>1. CASE Resolve(p)
  <2>1. HasId(p)
    BY <1>1, ProcType DEF Resolve, At, HasId
  <2>2. CASE pgpass' = pgpass
    BY <1>1, <2>2 DEF Resolve
  <2>3. CASE Goto(p, "passfile") /\ pgpass' = pgpass \cup {proc[p].id}
    <3>1. /\ proc'[p].pc = "passfile" /\ proc'[p].id = proc[p].id
          /\ proc'[p].kind \in {"backup", "restore"}
      BY <2>1, <2>3, GotoKeeps DEF HasId
    <3>2. HasId(p)'
      BY <1>1, <2>1, <3>1, Goes, Kinds DEF HasId, Step, Starting, StartBackup, StartRestore,
           StartResticBackup, StartResticRestore, Start
    <3>3. QED
      BY <1>1, <2>1, <2>3, <3>1, <3>2 DEF Resolve, Holding
  <2>4. QED
    BY <1>1, <2>2, <2>3 DEF Resolve
<1>2. CASE Dumping(p) \/ DumpEnds(p)
  BY <1>2, ProcType DEF Dumping, DumpEnds, At, HasId, Own, Torn
<1>3. CASE ~Resolve(p) /\ ~Dumping(p) /\ ~DumpEnds(p)
  <2>1. pgpass' \subseteq pgpass /\ partials' \subseteq partials
    BY <1>3 DEF Step, StartBackup, StartRestore, StartResticBackup, StartResticRestore, Start,
         FillPassfile, Rename, Hash, OpenSum, WriteSum, RemovePartial, RemovePassfile,
         ReadSum, Compare, PgRestore, ResticReads, ResticSaves, ResticExtracts, ResticFills,
         Kill
  <2>2. QED
    BY <2>1
<1>4. QED
  BY <1>1, <1>2, <1>3

\* A command that has a passfile goes on with it, removes it or is cut short.
LEMMA KeepsHold ==
  ASSUME TypeOK, NEW p \in Proc, Step(p), HasId(p), proc[p].pc \in Holding
  PROVE  \/ HasId(p)' /\ proc'[p].id = proc[p].id /\ proc'[p].pc \in Holding
         \/ proc[p].id \in cutShort'
         \/ proc[p].id \notin pgpass'
<1>0. proc[p] # Idle /\ ~Starting(p)
  BY Kinds DEF HasId, Starting, StartBackup, StartRestore, StartResticBackup,
     StartResticRestore, Start
<1>1. ASSUME proc'[p].pc \in Holding
      PROVE  HasId(p)' /\ proc'[p].id = proc[p].id
  <2>1. proc'[p] # Idle
    BY <1>1, Kinds DEF Holding
  <2>2. QED
    BY <1>0, <2>1, Goes, Kinds DEF HasId
<1>2. CASE FillPassfile(p)
  <2>1. CASE CutShort(p)
    BY <2>1 DEF CutShort
  <2>2. CASE Goto(p, proc[p].kind)
    BY <1>1, <2>2, GotoKeeps, Kinds DEF HasId, Holding
  <2>3. QED
    BY <1>2, <2>1, <2>2 DEF FillPassfile
<1>3. CASE Dumping(p) \/ DumpEnds(p) \/ Rename(p) \/ OpenSum(p) \/ PgRestore(p)
  BY <1>1, <1>3, ProcType, GotoKeeps DEF Dumping, DumpEnds, Rename, OpenSum, PgRestore, At,
     Holding
<1>4. CASE Hash(p)
  BY <1>1, <1>4, ProcType, GotoKeeps, HashKeeps DEF Hash, At, Holding
<1>5. CASE WriteSum(p)
  BY <1>1, <1>5, ProcType, GotoKeeps, WriteKeeps DEF WriteSum, At, Holding
<1>6. CASE RemovePartial(p)
  BY <1>1, <1>6, ProcType, GotoKeeps DEF RemovePartial, At, Holding, CutShort
<1>7. CASE RemovePassfile(p)
  BY <1>7 DEF RemovePassfile, CutShort
<1>8. CASE Kill(p)
  BY <1>8, Kinds DEF Kill, CutShort, HasId
<1>9. QED
  <2>1. /\ proc[p].pc \notin {"secrets", "verify", "compare", "read", "extract", "fill"}
    BY DEF Holding
  <2>2. QED
    BY <1>0, <1>2, <1>3, <1>4, <1>5, <1>6, <1>7, <1>8, <2>1
       DEF Step, Starting, Resolve, ReadSum, Compare, ResticReads, ResticSaves,
           ResticExtracts, ResticFills, At

LEMMA PassNext == TypeOK /\ IdInv /\ PassInv /\ [Next]_vars => PassInv'
<1> SUFFICES ASSUME TypeOK, IdInv, PassInv, [Next]_vars PROVE PassInv'
  OBVIOUS
<1> USE DEF Files, History
<1>1. CASE UNCHANGED vars \/ Tick \/ RunControlPlane
  <2>1. UNCHANGED <<proc, pgpass, partials, cutShort, finished>>
    BY <1>1 DEF vars, Tick, RunControlPlane
  <2>2. QED
    BY <2>1 DEF PassInv, Held, HasId, NoPartial
<1>2. ASSUME NEW p \in Proc, Step(p) PROVE PassInv'
  <2>1. \A q \in Proc \ {p} : proc'[q] = proc[q]
    BY <1>2, Alone
  <2>2. cutShort \subseteq cutShort'
    BY <1>2 DEF Step, StartBackup, StartRestore, StartResticBackup, StartResticRestore, Start,
         Resolve, FillPassfile, Dumping, DumpEnds, Rename, Hash, OpenSum, WriteSum,
         RemovePartial, RemovePassfile, ReadSum, Compare, PgRestore, ResticReads,
         ResticSaves, ResticExtracts, ResticFills, Kill, CutShort
  <2>3. ASSUME NEW id \in pgpass', id \notin cutShort' PROVE Held(id)'
    <3>1. CASE id \notin pgpass
      BY <1>2, <3>1, OwnFiles DEF Held
    <3>2. CASE id \in pgpass
      <4>1. PICK q \in Proc : HasId(q) /\ proc[q].id = id /\ proc[q].pc \in Holding
        BY <2>2, <2>3, <3>2 DEF PassInv, Held
      <4>2. CASE q # p
        BY <2>1, <4>1, <4>2 DEF Held, HasId
      <4>3. CASE q = p
        BY <1>2, <2>3, <4>1, <4>3, KeepsHold DEF Held
      <4>4. QED
        BY <4>2, <4>3
    <3>3. QED
      BY <3>1, <3>2
  <2>4. ASSUME NEW q \in Proc, proc'[q] \in BackingUp, proc'[q].pc = "release"
        PROVE  NoPartial(partials', proc'[q].id)
    <3>1. CASE q # p
      <4>1. proc'[q] = proc[q] /\ HasId(q)
        BY <2>1, <2>4, <3>1 DEF HasId
      <4>2. NoPartial(partials, proc[q].id)
        BY <2>4, <4>1 DEF PassInv
      <4>3. HasId(p) => proc[p].id # proc[q].id
        BY <3>1, <4>1 DEF IdInv
      <4>4. QED
        BY <1>2, <4>1, <4>2, <4>3, OwnFiles DEF NoPartial
    <3>2. CASE q = p
      <4>1. RemovePartial(p) /\ ~End(p)
        <5>1. proc'[p] # Idle /\ proc'[p].pc = "release" /\ proc'[p] \in BackingUp
          BY <2>4, <3>2, Kinds
        <5>2. ~Starting(p)
          BY <5>1, PcNext, Kinds DEF Starting
        <5>3. proc[p] \in BackingUp
          BY <1>2, <5>1, <5>2, Goes, Kinds
        <5>4. /\ ~Resolve(p) /\ ~FillPassfile(p) /\ ~Dumping(p) /\ ~DumpEnds(p)
              /\ ~Rename(p) /\ ~OpenSum(p) /\ ~End(p)
          BY <5>1, <5>3, PcNext, GotoKeeps, EndIdle DEF Dumping, DumpEnds, Rename, OpenSum
        <5>5. ~Hash(p) /\ ~WriteSum(p)
          BY <5>1, <5>3, GotoKeeps, HashKeeps, WriteKeeps
        <5>6. proc[p].pc \notin {"verify", "compare", "restore", "read", "extract", "fill"}
          BY <5>3 DEF BackingUp
        <5>7. QED
          BY <1>2, <5>2, <5>4, <5>5, <5>6 DEF Step, Starting, RemovePassfile, ReadSum, Compare,
             PgRestore, ResticReads, ResticSaves, ResticExtracts, ResticFills, Kill, At
      <4>2. /\ partials' = {f \in partials : f.of # proc[p].id} /\ Goto(p, "release")
            /\ proc[p] \in BackingUp
        BY <4>1, ProcType DEF RemovePartial, At
      <4>3. proc'[p].id = proc[p].id
        BY <4>2, GotoKeeps
      <4>4. QED
        BY <3>2, <4>2, <4>3 DEF NoPartial
    <3>3. QED
      BY <3>1, <3>2
  <2>5. ASSUME NEW b \in finished' PROVE b.id \notin pgpass' /\ NoPartial(partials', b.id)
    <3>1. CASE b \in finished
      <4>1. HasId(p) => proc[p].id # b.id
        BY <3>1 DEF IdInv
      <4>2. b.id \notin pgpass /\ NoPartial(partials, b.id)
        BY <3>1 DEF PassInv
      <4>3. QED
        BY <1>2, <4>1, <4>2, OwnFiles DEF NoPartial
    <3>2. CASE b \notin finished
      <4>1. RemovePassfile(p)
        BY <1>2, <2>5, <3>2 DEF Step, StartBackup, StartRestore, StartResticBackup,
             StartResticRestore, Start, Resolve, FillPassfile, Dumping, DumpEnds, Rename,
             Hash, OpenSum, WriteSum, RemovePartial, ReadSum, Compare, PgRestore,
             ResticReads, ResticSaves, ResticExtracts, ResticFills, Kill
      <4>2. /\ Succeeded(p) /\ b.id = proc[p].id /\ pgpass' = pgpass \ {proc[p].id}
            /\ partials' = partials /\ proc[p].pc = "release"
        BY <2>5, <3>2, <4>1 DEF RemovePassfile, At
      <4>3. proc[p] \in BackingUp
        BY <4>1, <4>2, ProcType, Kinds DEF RemovePassfile, At, Succeeded
      <4>4. QED
        BY <4>2, <4>3 DEF PassInv, NoPartial
    <3>3. QED
      BY <3>1, <3>2
  <2>6. QED
    BY <2>3, <2>4, <2>5 DEF PassInv
<1>3. QED
  BY <1>1, <1>2 DEF Next, Step

-----------------------------------------------------------------------------
(* The theorems. *)

IInv == TypeOK /\ NameInv /\ IdInv /\ FinishInv /\ RestoreInv /\ PassInv

LEMMA IInvInit == Init => IInv
<1> SUFFICES ASSUME Init PROVE IInv
  OBVIOUS
<1>1. TypeOK /\ NameInv
  BY TypeInit, NameInit
<1>2. \A p \in Proc : /\ proc[p].pc = "idle" /\ ~HasId(p)
                      /\ proc[p] \notin BackingUp /\ proc[p] \notin PuttingBack
                      /\ proc[p] \notin Extracting
  BY Kinds DEF Init, HasId
<1>3. IdInv
  BY <1>2 DEF Init, IdInv
<1>4. FinishInv
  BY <1>2 DEF Init, FinishInv, FinishedBackupStays, InPlace
<1>5. RestoreInv
  BY <1>2 DEF Init, RestoreInv, RestoredIsWhole, Exclusive, Compared
<1>6. PassInv
  BY <1>2 DEF Init, PassInv
<1>7. QED
  BY <1>1, <1>3, <1>4, <1>5, <1>6 DEF IInv

LEMMA IInvNext == IInv /\ [Next]_vars => IInv'
  BY TypeNext, NameNext, IdNext, FinishNext, RestoreNext, PassNext DEF IInv

LEMMA IInvHolds == Spec => []IInv
<1>1. QED
  BY IInvInit, IInvNext, PTL DEF Spec

(* A backup that has reported success stays restorable, unless another one *)
(* was started in the same second (postgres-backup.mjs 108-113, 215-231).  *)
THEOREM FinishedStays == Spec => []FinishedBackupStays
<1>1. IInv => FinishedBackupStays
  BY DEF IInv, FinishInv
<1>2. QED
  BY <1>1, IInvHolds, PTL

(* Only whole dumps whose checksum was read are restored                   *)
(* (postgres-backup.mjs 170-197, 234-266, restic-backup.mjs 98-131).       *)
THEOREM OnlyWholeIsRestored == Spec => []RestoredIsWhole
<1>1. IInv => RestoredIsWhole
  BY DEF IInv, RestoreInv
<1>2. QED
  BY <1>1, IInvHolds, PTL

(* The passfile goes with its command, whichever of pg_dump, rename, hash, *)
(* checksum and pg_restore fails, unless that command was killed or could  *)
(* not create or remove a temporary file; after a backup that reports      *)
(* success neither passfile nor partial file is left                       *)
(* (postgres-backup.mjs 163-168, 213-231, 249-265).                        *)
THEOREM PassfileTemporary == Spec => []PassfileIsTemporary
<1>1. IInv => PassfileIsTemporary
  <2> SUFFICES ASSUME IInv PROVE PassfileIsTemporary
    OBVIOUS
  <2>1. \A id : Held(id) => Running(id)
    BY Kinds DEF Held, HasId, Running
  <2>2. QED
    BY <2>1 DEF IInv, PassInv, NoPartial, PassfileIsTemporary
<1>2. QED
  BY <1>1, IInvHolds, PTL

=============================================================================
