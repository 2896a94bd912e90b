------------------------------- MODULE Backup -------------------------------
(***************************************************************************)
(* deploy/ubuntu/bin: the database backup and restore (postgres-backup),   *)
(* the off-site copy (restic-backup), the secret documents both and the    *)
(* control plane start from (secret-runtime), and the directories they     *)
(* share.  Every await is a step, and a process may be killed between any  *)
(* two; pg_dump, pg_restore, restic and sops are external children that    *)
(* succeed or fail, and so does every call on a file a backup writes.      *)
(*                                                                         *)
(* A dump is [of, whole]: the command whose pg_dump made it, and whether   *)
(* all of it is there.  A checksum is the dump it was computed from, and   *)
(* torn when the file holds less than a checksum.  An environment is the   *)
(* set of the variables in it.                                             *)
(***************************************************************************)
EXTENDS Naturals, FiniteSets

CONSTANTS
  Proc,
  Documents,       \* what control-plane.json.enc may hold: a set of [keys, blank]
  Environments,    \* the environments commands are started in
  TicksPerSecond, MaxClock,
  MaxCommands, MaxBackups,  \* bounds: commands started, backups among them
  MaxCutShort,     \* bound: commands killed, or with a temporary file they could not
                   \* create or remove
  None

CONTROL_PLANE_SECRET_KEYS ==
  {"HARNESS_CONTROL_PLANE_TOKEN", "HARNESS_CONTROL_PLANE_ORIGINS", "HARNESS_DATABASE_URL"}

Stamp == 0..(MaxClock \div TicksPerSecond)
Dir == {"backups", "restore"}
Dump == [of : 1..MaxCommands, whole : BOOLEAN]
Directory == [Stamp -> Dump \cup {None}]
Snapshot == [dumps : Directory, sums : Directory]

\* A file of a command: all of it, or a part.
Own(id) == [of |-> id, whole |-> TRUE]
Torn(id) == [of |-> id, whole |-> FALSE]

ASSUME BackupConstants ==
  /\ TicksPerSecond \in Nat \ {0} /\ MaxClock \in Nat /\ MaxCommands \in Nat
  /\ MaxBackups \in Nat /\ MaxCutShort \in Nat
  /\ None \notin Dump \cup Snapshot

VARIABLES
  clock,     \* milliseconds, in ticks
  document,  \* control-plane.json.enc
  dumps,     \* directory -> stamp -> the .dump file, or None
  sums,      \* directory -> stamp -> the .sha256 file, or None
  partials,  \* the .partial files
  pgpass,    \* the commands whose passfile exists
  snapshot,  \* the latest restic snapshot of the backup directory, or None
  proc,      \* what each process is doing
  commands,  \* number of commands started
  started,   \* history: the start of each backup
  finished,  \* history: backups that reported success
  restored,  \* history: restores, [read, vouched]
  cutShort,  \* history: commands that were killed, or that could not create or
             \* remove a temporary file
  served, refused  \* history: documents the control plane came up with, and
                   \* documents a backup was refused for

vars == <<clock, document, dumps, sums, partials, pgpass, snapshot, proc,
          commands, started, finished, restored, cutShort, served, refused>>

Idle == [pc |-> "idle"]
NoFiles == [s \in Stamp |-> None]

Init ==
  /\ clock = 0 /\ document \in Documents
  /\ dumps = [d \in Dir |-> NoFiles] /\ sums = [d \in Dir |-> NoFiles]
  /\ partials = {} /\ pgpass = {} /\ snapshot = None
  /\ proc = [p \in Proc |-> Idle] /\ commands = 0
  /\ started = {} /\ finished = {} /\ restored = {} /\ cutShort = {}
  /\ served = {} /\ refused = {}

-----------------------------------------------------------------------------
(* Names, secrets and environments. *)

\* Mutant: the seconds are left out of the stamp.
BackupFilePathByMinute(at) == at \div (2 * TicksPerSecond)

\* The milliseconds are left out.
BackupFilePath(at) == at \div TicksPerSecond

ValidSecretDocument(d, required, allowed) ==
  d.keys \subseteq allowed /\ required \subseteq d.keys \ d.blank

Database == {"HARNESS_DATABASE_URL"}

\* The environment, or None where resolveDatabaseEnvironment throws.
DatabaseEnvironment(env) ==
  IF "HARNESS_DATABASE_URL" \in env THEN env
  ELSE IF /\ "HARNESS_DATABASE_SECRETS_FILE" \in env
          /\ ValidSecretDocument(document, Database, Database)
    THEN env \cup document.keys
  ELSE None

-----------------------------------------------------------------------------
(* Commands. *)

Files == <<dumps, sums, partials>>
History == <<started, finished, restored, served, refused>>

Start(p, command) ==
  /\ proc[p] = Idle
  /\ commands < MaxCommands /\ commands' = commands + 1
  /\ proc' = [proc EXCEPT ![p] = command]
  /\ UNCHANGED <<clock, document, Files, pgpass, snapshot, finished, restored,
                 cutShort, served, refused>>

StartBackup(p) ==
  /\ Cardinality(started) < MaxBackups
  /\ Start(p, [pc |-> "secrets", kind |-> "backup", id |-> commands',
               stamp |-> BackupFilePath(clock), checksum |-> None, done |-> FALSE])
  /\ started' = started \cup {[id |-> commands', at |-> clock]}

\* The runbook restores a snapshot first and then a dump of it.
Restoring(kinds) == \E q \in Proc : proc[q] # Idle /\ proc[q].kind \in kinds

StartRestore(p) ==
  /\ ~Restoring({"resticRestore"})
  /\ \E d \in Dir, s \in Stamp :
       Start(p, [pc |-> "verify", kind |-> "restore", id |-> commands',
                 dir |-> d, stamp |-> s, expected |-> None])
  /\ UNCHANGED started

StartResticBackup(p) ==
  /\ Start(p, [pc |-> "read", kind |-> "restic", dumps |-> None, sums |-> None])
  /\ UNCHANGED started

StartResticRestore(p) ==
  /\ snapshot # None /\ ~Restoring({"restore", "resticRestore"})
  /\ Start(p, [pc |-> "extract", kind |-> "resticRestore"])
  /\ UNCHANGED started

\* run-control-plane: the server is started with all of its secrets.
RunControlPlane ==
  /\ ValidSecretDocument(document, CONTROL_PLANE_SECRET_KEYS, CONTROL_PLANE_SECRET_KEYS)
  /\ served' = served \cup {document}
  /\ UNCHANGED <<clock, document, Files, pgpass, snapshot, proc, commands, started,
                 finished, restored, cutShort, refused>>

At(p, pc) == proc[p].pc = pc
Goto(p, pc) == proc' = [proc EXCEPT ![p].pc = pc]
End(p) == proc' = [proc EXCEPT ![p] = Idle]

CutShort(p) ==
  /\ Cardinality(cutShort) < MaxCutShort
  /\ cutShort' = cutShort \cup {proc[p].id}

\* resolveDatabaseEnvironment, which sops may fail, mkdir, and createPgpassFile up to
\* the open of the file.  The environment is the one the process was started in.
Resolve(p) ==
  /\ At(p, "secrets")
  /\ \E given \in Environments :
       \/ /\ DatabaseEnvironment(given) # None
          /\ Goto(p, "passfile") /\ pgpass' = pgpass \cup {proc[p].id}
          /\ UNCHANGED refused
       \/ /\ End(p) /\ UNCHANGED pgpass
          /\ refused' = IF DatabaseEnvironment(given) = None THEN refused \cup {document}
                        ELSE refused
  /\ UNCHANGED <<clock, document, Files, snapshot, commands, started, finished,
                 restored, cutShort, served>>

\* The rest of createPgpassFile, which no try surrounds: a write or a chmod that fails
\* ends the command and leaves the file.
FillPassfile(p) ==
  /\ At(p, "passfile")
  /\ \/ Goto(p, proc[p].kind) /\ UNCHANGED cutShort
     \/ End(p) /\ CutShort(p)
  /\ UNCHANGED <<clock, document, Files, pgpass, snapshot, commands, History>>

\* pg_dump starts to write the partial file.
Dumping(p) ==
  /\ At(p, "backup") /\ Goto(p, "dump")
  /\ partials' = partials \cup {Torn(proc[p].id)}
  /\ UNCHANGED <<clock, document, dumps, sums, pgpass, snapshot, commands, cutShort,
                 History>>

DumpEnds(p) ==
  /\ At(p, "dump")
  /\ \/ /\ Goto(p, "rename")
        /\ partials' = (partials \ {Torn(proc[p].id)}) \cup {Own(proc[p].id)}
     \/ Goto(p, "cleanup") /\ UNCHANGED partials
  /\ UNCHANGED <<clock, document, dumps, sums, pgpass, snapshot, commands, cutShort,
                 History>>

\* From here on a call that fails leads to the finally block.
Rename(p) ==
  /\ At(p, "rename")
  /\ \/ /\ Goto(p, "hash")
        /\ partials' = partials \ {Own(proc[p].id)}
        /\ dumps' = [dumps EXCEPT !["backups"][proc[p].stamp] = Own(proc[p].id)]
     \/ Goto(p, "cleanup") /\ UNCHANGED <<partials, dumps>>
  /\ UNCHANGED <<clock, document, sums, pgpass, snapshot, commands, cutShort, History>>

\* sha256File of what has the name now.
Hash(p) ==
  /\ At(p, "hash")
  /\ \/ proc' = [proc EXCEPT ![p] = [@ EXCEPT !.pc = "sum",
                                              !.checksum = dumps["backups"][proc[p].stamp]]]
     \/ Goto(p, "cleanup")
  /\ UNCHANGED <<clock, document, Files, pgpass, snapshot, commands, cutShort, History>>

\* writeFile of the checksum empties the file first; the stat comes after it.
OpenSum(p) ==
  /\ At(p, "sum")
  /\ \/ /\ Goto(p, "write")
        /\ sums' = [sums EXCEPT !["backups"][proc[p].stamp] = Torn(proc[p].id)]
     \/ Goto(p, "cleanup") /\ UNCHANGED sums
  /\ UNCHANGED <<clock, document, dumps, partials, pgpass, snapshot, commands, cutShort,
                 History>>

WriteSum(p) ==
  LET written == [sums EXCEPT !["backups"][proc[p].stamp] = proc[p].checksum]
  IN /\ At(p, "write")
     /\ \/ /\ sums' = written
           /\ proc' = [proc EXCEPT ![p] = [@ EXCEPT !.pc = "cleanup", !.done = TRUE]]
        \/ sums' \in {sums, written} /\ Goto(p, "cleanup")
     /\ UNCHANGED <<clock, document, dumps, partials, pgpass, snapshot, commands,
                    cutShort, History>>

\* The finally block of a backup: a partial that cannot be removed ends it, and
\* the passfile stays.
RemovePartial(p) ==
  /\ At(p, "cleanup")
  /\ \/ /\ Goto(p, "release") /\ UNCHANGED cutShort
        /\ partials' = {f \in partials : f.of # proc[p].id}
     \/ /\ End(p) /\ UNCHANGED partials
        /\ CutShort(p)
  /\ UNCHANGED <<clock, document, dumps, sums, pgpass, snapshot, commands, History>>

Succeeded(p) == proc[p].kind = "backup" /\ proc[p].done

\* Mutant: the passfile is removed at the end of the try.
RemovePassfileAfterSuccess(p) ==
  /\ At(p, "release") /\ End(p) /\ UNCHANGED cutShort
  /\ IF Succeeded(p)
     THEN /\ pgpass' = pgpass \ {proc[p].id}
          /\ finished' = finished \cup {[id |-> proc[p].id, stamp |-> proc[p].stamp]}
     ELSE UNCHANGED <<pgpass, finished>>
  /\ UNCHANGED <<clock, document, Files, snapshot, commands, started, restored, served,
                 refused>>

\* The last call of both finally blocks; then the command has ended, and a backup
\* with a dump and its checksum reports success.
RemovePassfile(p) ==
  /\ At(p, "release") /\ End(p)
  /\ \/ /\ pgpass' = pgpass \ {proc[p].id} /\ UNCHANGED cutShort
        /\ finished' = IF Succeeded(p)
             THEN finished \cup {[id |-> proc[p].id, stamp |-> proc[p].stamp]} ELSE finished
     \/ /\ CutShort(p) /\ UNCHANGED <<pgpass, finished>>
  /\ UNCHANGED <<clock, document, Files, snapshot, commands, started, restored, served,
                 refused>>

-----------------------------------------------------------------------------
(* Restores and the off-site copy. *)

\* A checksum that is not there, or is no checksum, ends the restore.
ReadSum(p) ==
  LET expected == sums[proc[p].dir][proc[p].stamp]
  IN /\ At(p, "verify")
     /\ IF expected = None \/ ~expected.whole THEN End(p)
        ELSE proc' = [proc EXCEPT ![p] = [@ EXCEPT !.pc = "compare", !.expected = expected]]
     /\ UNCHANGED <<clock, document, Files, pgpass, snapshot, commands, cutShort, History>>

\* Mutant: a checksum must be there, and is not compared.
CompareNothing(p) ==
  /\ At(p, "compare")
  /\ IF dumps[proc[p].dir][proc[p].stamp] # None THEN Goto(p, "secrets") ELSE End(p)
  /\ UNCHANGED <<clock, document, Files, pgpass, snapshot, commands, cutShort, History>>

Compare(p) ==
  /\ At(p, "compare")
  /\ IF dumps[proc[p].dir][proc[p].stamp] = proc[p].expected THEN Goto(p, "secrets")
     ELSE End(p)
  /\ UNCHANGED <<clock, document, Files, pgpass, snapshot, commands, cutShort, History>>

\* pg_restore opens the file when it runs; it restores it or fails.
PgRestore(p) ==
  LET found == dumps[proc[p].dir][proc[p].stamp]
  IN /\ At(p, "restore") /\ Goto(p, "release")
     /\ \/ restored' = restored \cup {[read |-> found, vouched |-> proc[p].expected,
                                       dir |-> proc[p].dir, stamp |-> proc[p].stamp]}
        \/ UNCHANGED restored
     /\ UNCHANGED <<clock, document, Files, pgpass, snapshot, commands, started, finished,
                    cutShort, served, refused>>

\* restic reads the dumps and the checksums one after the other, in any order.
ResticReads(p) ==
  /\ At(p, "read")
  /\ \/ proc[p].dumps = None /\ proc' = [proc EXCEPT ![p].dumps = dumps["backups"]]
     \/ proc[p].sums = None /\ proc' = [proc EXCEPT ![p].sums = sums["backups"]]
  /\ UNCHANGED <<clock, document, Files, pgpass, snapshot, commands, cutShort, History>>

ResticSaves(p) ==
  /\ At(p, "read") /\ proc[p].dumps # None /\ proc[p].sums # None /\ End(p)
  /\ snapshot' = [dumps |-> proc[p].dumps, sums |-> proc[p].sums]
  /\ UNCHANGED <<clock, document, Files, pgpass, commands, cutShort, History>>

\* A restored file is incomplete until restic has written all of it.
ResticExtracts(p) ==
  /\ At(p, "extract") /\ Goto(p, "fill")
  /\ dumps' = [dumps EXCEPT !["restore"] =
       [s \in Stamp |-> IF snapshot.dumps[s] = None THEN @[s]
                        ELSE [snapshot.dumps[s] EXCEPT !.whole = FALSE]]]
  /\ sums' = [sums EXCEPT !["restore"] =
       [s \in Stamp |-> IF snapshot.sums[s] = None THEN @[s] ELSE snapshot.sums[s]]]
  /\ UNCHANGED <<clock, document, partials, pgpass, snapshot, commands, cutShort, History>>

ResticFills(p) ==
  /\ At(p, "fill") /\ End(p)
  /\ dumps' = [dumps EXCEPT !["restore"] =
       [s \in Stamp |-> IF snapshot.dumps[s] = None THEN @[s] ELSE snapshot.dumps[s]]]
  /\ UNCHANGED <<clock, document, sums, partials, pgpass, snapshot, commands, cutShort,
                 History>>

Kill(p) ==
  /\ proc[p] # Idle /\ End(p)
  /\ IF proc[p].kind \in {"backup", "restore"} THEN CutShort(p) ELSE UNCHANGED cutShort
  /\ UNCHANGED <<clock, document, Files, pgpass, snapshot, commands, History>>

Tick ==
  /\ clock < MaxClock /\ clock' = clock + 1
  /\ UNCHANGED <<document, Files, pgpass, snapshot, proc, commands, cutShort, History>>

Next ==
  \/ Tick \/ RunControlPlane
  \/ \E p \in Proc :
       \/ StartBackup(p) \/ StartRestore(p) \/ StartResticBackup(p)
       \/ StartResticRestore(p) \/ Resolve(p) \/ FillPassfile(p)
       \/ Dumping(p) \/ DumpEnds(p) \/ Rename(p) \/ Hash(p) \/ OpenSum(p)
       \/ WriteSum(p) \/ RemovePartial(p) \/ RemovePassfile(p)
       \/ ReadSum(p) \/ Compare(p) \/ PgRestore(p) \/ ResticReads(p) \/ ResticSaves(p)
       \/ ResticExtracts(p) \/ ResticFills(p) \/ Kill(p)

Spec == Init /\ [][Next]_vars

-----------------------------------------------------------------------------
BackingUp ==
  [pc : {"secrets", "passfile", "backup", "dump", "rename", "hash", "sum",
         "write", "cleanup", "release"},
   kind : {"backup"}, id : 1..MaxCommands, stamp : Stamp, checksum : Dump \cup {None},
   done : BOOLEAN]
PuttingBack ==
  [pc : {"verify", "compare", "secrets", "passfile", "restore", "release"},
   kind : {"restore"}, id : 1..MaxCommands, dir : Dir, stamp : Stamp,
   expected : Dump \cup {None}]
Copying ==
  [pc : {"read"}, kind : {"restic"}, dumps : Directory \cup {None},
   sums : Directory \cup {None}]
Extracting == [pc : {"extract", "fill"}, kind : {"resticRestore"}]

TypeOK ==
  /\ clock \in 0..MaxClock /\ document \in Documents
  /\ dumps \in [Dir -> Directory] /\ sums \in [Dir -> Directory]
  /\ partials \subseteq Dump /\ pgpass \subseteq 1..MaxCommands
  /\ snapshot \in Snapshot \cup {None}
  /\ proc \in [Proc -> {Idle} \cup BackingUp \cup PuttingBack \cup Copying \cup Extracting]
  /\ commands \in 0..MaxCommands
  /\ started \subseteq [id : 1..MaxCommands, at : 0..MaxClock]
  /\ finished \subseteq [id : 1..MaxCommands, stamp : Stamp]
  /\ restored \subseteq [read : Dump \cup {None}, vouched : Dump \cup {None},
                         dir : Dir, stamp : Stamp]
  /\ cutShort \subseteq 1..MaxCommands
  /\ served \subseteq Documents /\ refused \subseteq Documents
  /\ \A p \in Proc : proc[p].pc \in {"extract", "fill"} => snapshot # None

-----------------------------------------------------------------------------
(* Two backups that start in one second have one name. *)
Shared(id) ==
  \E a, b \in started : a.id = id /\ b.id # id
                        /\ a.at \div TicksPerSecond = b.at \div TicksPerSecond

(* A backup that has reported success stays restorable: its file is its    *)
(* own whole dump and the checksum beside it is that dump's, whatever is   *)
(* backed up, killed or copied later; only a backup started in the same    *)
(* second takes its name (postgres-backup.mjs 108-113, 215-231).           *)
FinishedBackupStays ==
  \A b \in finished : ~Shared(b.id) =>
    dumps["backups"][b.stamp] = Own(b.id) /\ sums["backups"][b.stamp] = Own(b.id)

(* The database is only ever restored from a whole dump, the one whose     *)
(* checksum was read: not from what a killed dump, an unfinished copy or a *)
(* snapshot taken during a backup has left (postgres-backup.mjs 170-197,   *)
(* 234-266, restic-backup.mjs 98-131).                                     *)
RestoredIsWhole ==
  \A r \in restored :
    r.read # None /\ r.read.whole /\ (~Shared(r.read.of) => r.read = r.vouched)

Running(id) == \E p \in Proc : proc[p].pc # "idle" /\ proc[p].kind \in {"backup", "restore"}
                               /\ proc[p].id = id

(* The passfile is temporary: whichever of pg_dump, rename, hash, checksum *)
(* and pg_restore fails, it goes away with its command, unless that was    *)
(* killed or could not create or remove a temporary file; and a backup     *)
(* that reports success has left neither passfile nor partial file         *)
(* (postgres-backup.mjs 163-168, 213-231, 249-265).                        *)
PassfileIsTemporary ==
  /\ \A id \in pgpass : Running(id) \/ id \in cutShort
  /\ \A b \in finished : b.id \notin pgpass /\ \A f \in partials : f.of # b.id

-----------------------------------------------------------------------------
(* A statement of the documentation the code does not keep. *)

(* "The daily systemd timer runs pg_dump": the backup unit is given the    *)
(* encrypted document of the control plane, so a document the control      *)
(* plane has come up with is one the backup accepts.                       *)
DailyBackupRuns == served \cap refused = {}
=============================================================================
