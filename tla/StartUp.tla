------------------------------ MODULE StartUp ------------------------------
(***************************************************************************)
(* The start of the workbench and its safe mode, around the backups:       *)
(* create_session_factory takes a snapshot of the database, makes a        *)
(* registered backup if another version of the program ran last, and       *)
(* migrates.  When that fails twice in a row, SafeModeDialog restores a    *)
(* file, opens the database as it is, or gives up.                         *)
(*                                                                         *)
(* SQLite commits the migrations one revision at a time.  The warehouse    *)
(* row that each start makes sure of is left out, as is the first start,   *)
(* which finds no database.                                                *)
(***************************************************************************)
EXTENDS BackupRestore

VARIABLES
    app,         \* where the process is
    level,       \* the schema version of the installed program
    lastRun,     \* the version that app_meta.json names
    snaps,       \* history: start-up snapshots; they are never registered
    unsaved      \* history: facts that a safe mode restore replaced although
                 \* no snapshot of that start held them

startVars == <<app, level, lastRun, snaps, unsaved>>
vars == <<serviceVars, startVars>>

Phases == {"closed", "snapshot", "register", "upgradeBackup", "migrate",
           "dialog", "running", "readonly"}

App == [phase : Phases,
        try   : 1..2,                   \* create_session_factory is called twice
        snap  : Backups \union {0},     \* the snapshot of the last call
        moved : BOOLEAN]                \* that call committed a revision

TypeOK ==
    /\ ServiceTypeOK
    /\ app \in App
    /\ level \in Schemas
    /\ lastRun \in Schemas
    /\ snaps \in SUBSET Backups
    /\ unsaved \in SUBSET Facts

At(phase) == [phase |-> phase, try |-> 1, snap |-> 0, moved |-> FALSE]

\* After the first start of the first version.
Init ==
    /\ ServiceInit
    /\ app = At("running")
    /\ level = 0 /\ lastRun = 0
    /\ snaps = {} /\ unsaved = {}

-----------------------------------------------------------------------------
(***************************************************************************)
(* Start                                                                   *)
(***************************************************************************)

\* A newer version of the program is installed.
Install(v) ==
    /\ app.phase = "closed" /\ v > level
    /\ level' = v
    /\ UNCHANGED <<serviceVars, app, lastRun, snaps, unsaved>>

Launch ==
    /\ app.phase = "closed"
    /\ app' = At("snapshot")
    /\ UNCHANGED <<serviceVars, level, lastRun, snaps, unsaved>>

\* The first failure is answered by a second call, the next by the dialog.
StartFails(snap, moved) ==
    app' = IF app.try = 1 THEN [At("snapshot") EXCEPT !.try = 2]
           ELSE [At("dialog") EXCEPT !.snap = snap, !.moved = moved]

\* Mutation: the snapshot is not read back.
TakeSnapshotUnread ==
    /\ app.phase = "snapshot" /\ made < MaxBackups
    /\ LET b == made + 1
       IN  /\ \E sound \in BOOLEAN : files' = [files EXCEPT ![b] =
                [present |-> TRUE, altered |-> FALSE,
                 copy |-> [db EXCEPT !.sound = sound]]]
           /\ snaps' = snaps \union {b}
           /\ app' = [app EXCEPT !.phase = "register", !.snap = b]
    /\ made' = made + 1
    /\ UNCHANGED <<db, svc, crashes, written, late, cut, displaced,
                   unvouched, level, lastRun, unsaved>>

\* backup_pre_upgrade_snapshot, at every start; it was read back.
TakeSnapshot ==
    /\ app.phase = "snapshot" /\ made < MaxBackups
    /\ LET b == made + 1
       IN  /\ files' = [files EXCEPT ![b] =
                [present |-> TRUE, altered |-> FALSE, copy |-> db]]
           /\ snaps' = snaps \union {b}
           /\ app' = [app EXCEPT !.phase = "register", !.snap = b]
    /\ made' = made + 1
    /\ UNCHANGED <<db, svc, crashes, written, late, cut, displaced,
                   unvouched, level, lastRun, unsaved>>

\* It fails, what there was of the file is removed, nothing is migrated.
NoSnapshot ==
    /\ app.phase = "snapshot"
    /\ StartFails(0, FALSE)
    /\ UNCHANGED <<serviceVars, level, lastRun, snaps, unsaved>>

\* prepare_upgrade_backup: only if the version changed.
UpgradeBackup ==
    /\ app.phase = "register" /\ lastRun # level
    /\ StartBackup
    /\ app' = [app EXCEPT !.phase = "upgradeBackup"]
    /\ UNCHANGED <<level, lastRun, snaps, unsaved>>

\* It is over, well or not; or it was not asked for; or it could not begin,
\* for want of the table or of a connection.
UpgradeBackupEnds ==
    /\ app.phase \in {"register", "upgradeBackup"} /\ svc.pc = "idle"
    /\ app' = [app EXCEPT !.phase = "migrate"]
    /\ UNCHANGED <<serviceVars, level, lastRun, snaps, unsaved>>

\* alembic upgrade head, one revision.
MigrateOne ==
    /\ app.phase = "migrate" /\ db.schema < level
    /\ db' = [db EXCEPT !.schema = @ + 1]
    /\ app' = [app EXCEPT !.moved = TRUE]
    /\ UNCHANGED <<files, svc, made, crashes, written, late, cut, displaced,
                   unvouched, level, lastRun, snaps, unsaved>>

MigrateFails ==
    /\ app.phase = "migrate"
    /\ StartFails(app.snap, app.moved)
    /\ UNCHANGED <<serviceVars, level, lastRun, snaps, unsaved>>

\* The database is at head: the version is written, if the disk lets it be.
Opened ==
    /\ app.phase = "migrate" /\ db.schema = level
    /\ lastRun' \in {lastRun, level}
    /\ app' = At("running")
    /\ UNCHANGED <<serviceVars, level, snaps, unsaved>>

-----------------------------------------------------------------------------
(***************************************************************************)
(* Safe mode                                                               *)
(***************************************************************************)

\* Any file of the backup directory may be chosen; one without a record is not
\* compared with a checksum.  No safety backup is made.
RestoreInSafeMode(b) ==
    /\ app.phase = "dialog" /\ svc.pc = "idle"
    /\ files[b].present
    /\ Vouched(b) \/ db.records[b] = "ABSENT"
    /\ svc' = [Idle EXCEPT !.pc = "copy", !.source = b]
    /\ UNCHANGED <<db, files, made, crashes, written, late, cut, displaced,
                   unvouched, startVars>>

\* The file is copied, or the restore fails and the dialog stays open.
CopyInSafeMode ==
    /\ app.phase = "dialog"
    /\ Copy \/ CopyFails
    /\ UNCHANGED startVars

\* After a restore the user is told to start the program again.
ReplaceInSafeMode ==
    /\ app.phase = "dialog"
    /\ Replace
    /\ unsaved' = unsaved \union
         {x \in db.facts : app.snap = 0 \/ x \notin files[app.snap].copy.facts}
    /\ app' = At("closed")
    /\ UNCHANGED <<level, lastRun, snaps>>

\* The restore failed: the dialog stays open.
ReplaceFailsInSafeMode ==
    /\ app.phase = "dialog"
    /\ ReplaceFails
    /\ UNCHANGED startVars

\* The database is opened without migrating it.
ContinueReadOnly ==
    /\ app.phase = "dialog" /\ svc.pc = "idle"
    /\ app' = At("readonly")
    /\ UNCHANGED <<serviceVars, level, lastRun, snaps, unsaved>>

-----------------------------------------------------------------------------
(***************************************************************************)
(* The running program and its end                                         *)
(***************************************************************************)

\* The backup page, or the scheduler's daily backup; neither works while the
\* program is read-only.
Backup ==
    /\ app.phase = "running"
    /\ StartBackup \/ (\E b \in Backups : StartRestore(b))
    /\ UNCHANGED startVars

UpgradeStep ==
    /\ app.phase \in {"running", "upgradeBackup"}
    /\ ServiceStep
    /\ UNCHANGED startVars

\* The SyncWorker writes, even when the program is read-only.
OthersWrite ==
    /\ \/ app.phase \in {"running", "readonly"} /\ \E x \in Facts : Commit(x)
       \/ app.phase = "running" /\ \E x \in Facts : CommitToReplaced(x)
    /\ UNCHANGED startVars

Damage ==
    /\ \E b \in Backups : Alter(b)
    /\ UNCHANGED startVars

\* The user quits or gives up in the dialog, or the process is ended.
Close ==
    /\ app.phase # "closed" /\ svc.pc = "idle"
    /\ app' = At("closed")
    /\ UNCHANGED <<serviceVars, level, lastRun, snaps, unsaved>>

Crash ==
    /\ ServiceCrash
    /\ app' = At("closed")
    /\ UNCHANGED <<level, lastRun, snaps, unsaved>>

Next ==
    \/ \E v \in Schemas : Install(v)
    \/ Launch \/ TakeSnapshot \/ NoSnapshot
    \/ UpgradeBackup \/ UpgradeBackupEnds
    \/ MigrateOne \/ MigrateFails \/ Opened
    \/ \E b \in Backups : RestoreInSafeMode(b)
    \/ CopyInSafeMode \/ ReplaceInSafeMode \/ ReplaceFailsInSafeMode
    \/ ContinueReadOnly
    \/ Backup \/ UpgradeStep \/ OthersWrite \/ Damage
    \/ Close \/ Crash

Spec == Init /\ [][Next]_vars

-----------------------------------------------------------------------------
(***************************************************************************)
(* Properties                                                              *)
(***************************************************************************)

\* The current database is readable and never of a schema above the program's;
\* an open program has its own schema and data that it wrote itself, unless
\* a restore took an altered file past the checksum: in safe mode one that has
\* no record, or anywhere one altered after it was hashed and before it was
\* copied.
CurrentIsUsable ==
    /\ db.sound
    /\ db.schema <= level
    /\ app.phase = "running" => db.schema = level
    /\ db.genuine \/ unvouched

\* Nothing is lost: each fact ever committed is in the current database or in
\* a readable backup file, except what other threads commit between a safety
\* snapshot and the end of the replacement, and what was in a database that
\* safe mode replaced after no snapshot of it could be taken.
NothingLostByRestore ==
    \A x \in written :
        \/ x \in db.facts \union late \union unsaved
        \/ \E b \in Backups : /\ files[b].present /\ files[b].copy.sound
                              /\ x \in files[b].copy.facts

\* A backup file, a safety backup included, has a record or a reason to have
\* none: it is a start-up snapshot; its backup, or the restore it was made for,
\* is under way, was cut by a crash or could not write to backup_record; or a
\* later restore put an older table in place of the one with its record.
UnlistedIsExplained ==
    \A b \in Backups :
        files[b].present /\ db.records[b] = "ABSENT" =>
            \/ svc.pc # "idle" /\ svc.id = b
            \/ b \in cut \union displaced \union snaps

\* In safe mode the snapshot of this start can be put back, unless it was
\* altered or the failed migration had committed a revision before it failed.
SnapshotIsWayBack ==
    app.phase = "dialog" /\ app.snap # 0 /\ ~files[app.snap].altered =>
        Readable(app.snap) \/ app.moved
=============================================================================
