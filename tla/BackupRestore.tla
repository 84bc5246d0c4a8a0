--------------------------- MODULE BackupRestore ---------------------------
(***************************************************************************)
(* Backup and restore of the workbench's database: BackupService and       *)
(* BackupManager, called on the UI thread by the backup page and the daily *)
(* scheduler, while other threads commit to the same database.  StartUp    *)
(* adds the program's start, at which it is called too.                    *)
(*                                                                         *)
(* A database is the facts it holds, its own backup_record table and its   *)
(* schema version; a backup file is a snapshot of one.  Backups are        *)
(* numbered in the order in which they are made.                           *)
(***************************************************************************)
EXTENDS Naturals, FiniteSets

CONSTANTS
    Facts,        \* rows of the business tables
    MaxBackups,   \* bound: backups ever started
    MaxUpgrades,  \* bound: schema revisions after the first
    MaxDamage,    \* bound: files altered on disk after they were digested
    MaxCrashes    \* bound: times the process dies inside an operation

ASSUME BackupAssumption ==
    /\ MaxBackups \in Nat
    /\ MaxUpgrades \in Nat
    /\ MaxDamage \in Nat
    /\ MaxCrashes \in Nat

Backups == 1..MaxBackups
Schemas == 0..MaxUpgrades

VARIABLES
    db,         \* the current database file
    files,      \* the backup files
    svc,        \* the UI thread inside BackupService
    made,       \* backups started so far (uuid4: an id is never used twice)
    crashes,    \* crashes so far
    written,    \* history: facts ever committed
    late,       \* history: facts committed between a restore's safety snapshot
                \* and the end of its replacement
    cut,        \* history: backups in hand at a crash, or when a write to
                \* backup_record failed
    displaced,  \* history: backups whose record a restore replaced
    unvouched   \* history: a restore took an altered file that no checksum
                \* vouched for: it has no record, or it was altered after
                \* the two were compared

serviceVars == <<db, files, svc, made, crashes, written, late, cut, displaced,
                 unvouched>>

Records == [Backups -> {"ABSENT", "CREATED", "VERIFIED", "FAILED"}]

Database == [facts   : SUBSET Facts,
             records : Records,
             schema  : Schemas,
             sound   : BOOLEAN,   \* integrity_check and key tables pass
             genuine : BOOLEAN]   \* it holds what the program put there

\* altered: the bytes are no longer those of the registered SHA-256.
File == [present : BOOLEAN, altered : BOOLEAN, copy : Database]

PCs == {"idle", "copy", "snapshot", "register", "verify", "mark", "failCreate",
        "failMark", "replace", "reRegister"}

Service == [pc        : PCs,
            id        : Backups \union {0},   \* the backup being made
            restoring : BOOLEAN,              \* a restore makes a safety backup
            source    : Backups \union {0},   \* the file it is about to copy
            tmp       : Database]             \* the restore's temporary copy

NoDatabase == [facts |-> {}, records |-> [b \in Backups |-> "ABSENT"],
               schema |-> 0, sound |-> TRUE, genuine |-> TRUE]

Idle == [pc |-> "idle", id |-> 0, restoring |-> FALSE, source |-> 0,
         tmp |-> NoDatabase]

ServiceTypeOK ==
    /\ db \in Database
    /\ files \in [Backups -> File]
    /\ svc \in Service
    /\ made \in 0..MaxBackups
    /\ crashes \in 0..MaxCrashes
    /\ written \in SUBSET Facts
    /\ late \in SUBSET Facts
    /\ cut \in SUBSET Backups
    /\ displaced \in SUBSET Backups
    /\ unvouched \in BOOLEAN

ServiceInit ==
    /\ db = NoDatabase
    /\ files = [b \in Backups |->
                  [present |-> FALSE, altered |-> FALSE, copy |-> NoDatabase]]
    /\ svc = Idle
    /\ made = 0
    /\ crashes = 0
    /\ written = {}
    /\ late = {}
    /\ cut = {}
    /\ displaced = {}
    /\ unvouched = FALSE

-----------------------------------------------------------------------------
(***************************************************************************)
(* Helpers                                                                 *)
(***************************************************************************)

Goto(pc) == svc' = [svc EXCEPT !.pc = pc]

SetRecord(b, status) == db' = [db EXCEPT !.records[b] = status]

\* Mutation: a restore goes on whatever became of its safety backup.
EndBackupAnyway(verified) ==
    svc' = IF svc.restoring THEN [svc EXCEPT !.pc = "replace"] ELSE Idle

\* How backup() ends: it returns to its caller, and a restore goes on only if
\* its safety backup was VERIFIED.
EndBackup(verified) ==
    svc' = IF svc.restoring /\ verified THEN [svc EXCEPT !.pc = "replace"]
                                        ELSE Idle

-----------------------------------------------------------------------------
(***************************************************************************)
(* backup                                                                  *)
(***************************************************************************)

\* run_manual_backup, or the scheduler's daily backup.
StartBackup ==
    /\ svc.pc = "idle" /\ made < MaxBackups
    /\ svc' = [Idle EXCEPT !.pc = "snapshot", !.id = made + 1]
    /\ made' = made + 1
    /\ UNCHANGED <<db, files, crashes, written, late, cut, displaced, unvouched>>

\* VACUUM INTO; what the disk holds afterwards need not be readable.
Snapshot(sound) ==
    /\ svc.pc = "snapshot"
    /\ files' = [files EXCEPT ![svc.id] =
         [present |-> TRUE, altered |-> FALSE,
          copy |-> [db EXCEPT !.sound = sound]]]
    /\ Goto("register")
    /\ UNCHANGED <<db, made, crashes, written, late, cut, displaced, unvouched>>

\* It fails, and may leave a part of the file.
SnapshotFails ==
    /\ svc.pc = "snapshot"
    /\ \/ UNCHANGED files
       \/ files' = [files EXCEPT ![svc.id] =
            [present |-> TRUE, altered |-> FALSE,
             copy |-> [NoDatabase EXCEPT !.sound = FALSE]]]
    /\ Goto("failCreate")
    /\ UNCHANGED <<db, made, crashes, written, late, cut, displaced, unvouched>>

\* create with status CREATED
Register ==
    /\ svc.pc = "register"
    /\ SetRecord(svc.id, "CREATED")
    /\ Goto("verify")
    /\ UNCHANGED <<files, made, crashes, written, late, cut, displaced, unvouched>>

\* Mutation: a file that opens is taken for a sound one.
VerifyOpensOnly ==
    /\ svc.pc = "verify"
    /\ Goto("mark")
    /\ UNCHANGED <<db, files, made, crashes, written, late, cut,
                   displaced, unvouched>>

\* Reading the file back: integrity_check and the key tables.
Verify ==
    /\ svc.pc = "verify"
    /\ Goto(IF files[svc.id].copy.sound THEN "mark" ELSE "failCreate")
    /\ UNCHANGED <<db, files, made, crashes, written, late, cut,
                   displaced, unvouched>>

MarkVerified ==
    /\ svc.pc = "mark"
    /\ SetRecord(svc.id, "VERIFIED")
    /\ EndBackup(TRUE)
    /\ UNCHANGED <<files, made, crashes, written, late, cut, displaced, unvouched>>

\* _record_failed: create fails on uq_backup_record_backup_id when the record
\* exists, and the exception is swallowed before mark_failed.
FailCreate ==
    /\ svc.pc = "failCreate"
    /\ IF db.records[svc.id] = "ABSENT"
       THEN /\ SetRecord(svc.id, "CREATED")
            /\ Goto("failMark")
       ELSE /\ EndBackup(FALSE)
            /\ UNCHANGED db
    /\ UNCHANGED <<files, made, crashes, written, late, cut, displaced, unvouched>>

FailMark ==
    /\ svc.pc = "failMark"
    /\ SetRecord(svc.id, "FAILED")
    /\ EndBackup(FALSE)
    /\ UNCHANGED <<files, made, crashes, written, late, cut, displaced, unvouched>>

-----------------------------------------------------------------------------
(***************************************************************************)
(* restore                                                                 *)
(***************************************************************************)

\* Mutation: the file has only to exist.
VouchedUnread(b) == files[b].present

\* Step 1 of restore: the file exists, its SHA-256 is the registered one.
Vouched(b) == files[b].present /\ ~files[b].altered

\* Step 2: what _validate_restored asks of the copy.
Readable(b) == files[b].copy.sound /\ files[b].copy.schema = db.schema

\* The restore's temporary copy.  An altered file may be a sound database,
\* but nobody vouches for what is in it.
CopyOf(b) == [files[b].copy EXCEPT !.genuine = @ /\ ~files[b].altered]

\* Any listed backup may be chosen, whatever its status.
StartRestore(b) ==
    /\ svc.pc = "idle" /\ made < MaxBackups
    /\ db.records[b] # "ABSENT"
    /\ Vouched(b)
    /\ svc' = [Idle EXCEPT !.pc = "copy", !.restoring = TRUE, !.source = b]
    /\ UNCHANGED <<db, files, made, crashes, written, late, cut, displaced, unvouched>>

\* The file is read a second time, to be copied; then either the safety backup
\* is begun, or the restore was called without one.
Copy ==
    /\ svc.pc = "copy"
    /\ Readable(svc.source)
    /\ LET copied == [svc EXCEPT !.source = 0, !.tmp = CopyOf(svc.source)]
       IN  IF svc.restoring
           THEN /\ svc' = [copied EXCEPT !.pc = "snapshot", !.id = made + 1]
                /\ made < MaxBackups /\ made' = made + 1
           ELSE /\ svc' = [copied EXCEPT !.pc = "replace"]
                /\ UNCHANGED made
    /\ unvouched' = (unvouched \/ (/\ db.records[svc.source] = "ABSENT"
                                   /\ files[svc.source].altered))
    /\ UNCHANGED <<db, files, crashes, written, late, cut, displaced>>

\* It cannot be copied, or the copy does not pass.
CopyFails ==
    /\ svc.pc = "copy"
    /\ svc' = Idle
    /\ UNCHANGED <<db, files, made, crashes, written, late, cut,
                   displaced, unvouched>>

\* _atomic_replace: checkpoint, unlink -wal and -shm, os.replace.  A restore
\* without a safety backup has nothing to register.
Replace ==
    /\ svc.pc = "replace"
    /\ db' = svc.tmp
    /\ displaced' = displaced \union
         {b \in Backups \ {svc.id} : /\ db.records[b] # "ABSENT"
                                     /\ svc.tmp.records[b] = "ABSENT"}
    /\ IF svc.id = 0 THEN svc' = Idle ELSE Goto("reRegister")
    /\ UNCHANGED <<files, made, crashes, written, late, cut, unvouched>>

\* The checkpoint or os.replace fails (another thread holds the file).
ReplaceFails ==
    /\ svc.pc = "replace"
    /\ svc' = Idle
    /\ UNCHANGED <<db, files, made, crashes, written, late, cut,
                   displaced, unvouched>>

\* Mutation: the safety backup is not registered again.
ReRegisterNothing ==
    /\ svc.pc = "reRegister"
    /\ svc' = Idle
    /\ UNCHANGED <<db, files, made, crashes, written, late, cut,
                   displaced, unvouched>>

\* _re_register_safety
ReRegister ==
    /\ svc.pc = "reRegister"
    /\ IF db.records[svc.id] = "ABSENT" THEN SetRecord(svc.id, "VERIFIED")
                                        ELSE UNCHANGED db
    /\ svc' = Idle
    /\ UNCHANGED <<files, made, crashes, written, late, cut, displaced, unvouched>>

\* A write to backup_record fails (the database is locked, the disk is full),
\* or the file cannot be hashed for it.  backup() lets the error out,
\* _record_failed and _re_register_safety swallow it; a restore whose safety
\* backup is not VERIFIED does not go on.
RecordFails ==
    /\ svc.pc \in {"register", "mark", "failCreate", "failMark", "reRegister"}
    /\ svc' = Idle
    /\ cut' = cut \union {svc.id}
    /\ UNCHANGED <<db, files, made, crashes, written, late, displaced, unvouched>>

-----------------------------------------------------------------------------
(***************************************************************************)
(* Everything around the service                                           *)
(***************************************************************************)

\* Between a restore's safety snapshot and the end of its replacement.
Exposed == svc.restoring /\ svc.pc \notin {"idle", "copy", "snapshot"}

\* Another thread commits a new fact to the current database.
Commit(x) ==
    /\ x \notin written
    /\ db' = [db EXCEPT !.facts = @ \union {x}]
    /\ written' = written \union {x}
    /\ late' = IF Exposed THEN late \union {x} ELSE late
    /\ UNCHANGED <<files, svc, made, crashes, cut, displaced, unvouched>>

\* It commits through a connection opened before the replacement, to the file
\* that os.replace unlinked.
CommitToReplaced(x) ==
    /\ svc.pc = "reRegister" /\ x \notin written
    /\ written' = written \union {x}
    /\ late' = late \union {x}
    /\ UNCHANGED <<db, files, svc, made, crashes, cut, displaced, unvouched>>

\* A backup file is altered or damaged on disk, and is still a database.  The
\* moment between VACUUM INTO and the hash that is registered is left out.
Alter(b) ==
    /\ files[b].present /\ ~files[b].altered
    /\ Cardinality({c \in Backups : files[c].altered}) < MaxDamage
    /\ files' = [files EXCEPT ![b].altered = TRUE]
    /\ unvouched' = (unvouched \/ (svc.pc = "copy" /\ svc.source = b))
    /\ UNCHANGED <<db, svc, made, crashes, written, late, cut, displaced>>

\* The process dies; a temporary copy it leaves is never read again.
ServiceCrash ==
    /\ svc.pc # "idle" /\ crashes < MaxCrashes
    /\ crashes' = crashes + 1
    /\ svc' = Idle
    /\ cut' = cut \union ({svc.id} \ {0})
    /\ UNCHANGED <<db, files, made, written, late, displaced, unvouched>>

\* What the UI thread does inside backup() and restore().
ServiceStep ==
    \/ \E sound \in BOOLEAN : Snapshot(sound)
    \/ SnapshotFails \/ Register \/ Verify \/ MarkVerified
    \/ FailCreate \/ FailMark
    \/ Copy \/ CopyFails \/ Replace \/ ReplaceFails \/ ReRegister
    \/ RecordFails

-----------------------------------------------------------------------------
(***************************************************************************)
(* Properties                                                              *)
(***************************************************************************)

\* VERIFIED is never written before the file was read back, in the database
\* that was backed up or in the one a restore put in its place.
VerifiedIsReadable ==
    \A b \in Backups :
        db.records[b] = "VERIFIED" => files[b].present /\ files[b].copy.sound

\* backup_service.py: a record is CREATED first, then VERIFIED or, when the
\* read-back fails, FAILED; unless the process dies or a write to backup_record
\* fails.
JudgedWhenDone ==
    \A b \in Backups :
        db.records[b] = "CREATED" =>
            (svc.pc # "idle" /\ svc.id = b) \/ b \in cut

=============================================================================
