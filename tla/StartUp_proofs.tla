--------------------------- MODULE StartUp_proofs ---------------------------
(***************************************************************************)
(* Proofs about backup, restore, start and safe mode, for any facts, any   *)
(* number of backups, schema revisions, altered files and crashes.         *)
(*                                                                         *)
(* A backup file, once present, is never written again, because its number *)
(* is new when its backup begins (Unheard).  That keeps what was read back *)
(* readable, wherever the record of it went: into the table, into a copy   *)
(* of the table in another backup, and back by a restore (Reads).  A       *)
(* restore replaces a database whose facts are in its own safety backup or *)
(* came late (HandInv), by a copy that is sound and of the same schema     *)
(* (TmpInv), made of a file whose record vouched for it when it was hashed *)
(* (SourceInv).                                                            *)
(*                                                                         *)
(* The last part is about the scheduler of the daily backup.               *)
(***************************************************************************)
EXTENDS StartUp, DailyBackup, TLAPS

Kept(b) == files[b].present /\ files[b].copy.sound

\* The verdicts of a backup_record table, current or copied, can be relied on.
Reads(records) == \A b \in Backups : records[b] = "VERIFIED" => Kept(b)

\* No table has a record of b, and there is no file of it.
Unheard(b) ==
    /\ ~files[b].present
    /\ db.records[b] = "ABSENT"
    /\ svc.tmp.records[b] = "ABSENT"
    /\ \A c \in Backups : files[c].copy.records[b] = "ABSENT"

NewInv ==
    /\ \A b \in Backups : b > made => Unheard(b)
    /\ svc.id <= made
    /\ svc.pc = "snapshot" => Unheard(svc.id)

ReadInv ==
    /\ Reads(db.records)
    /\ Reads(svc.tmp.records)
    /\ \A c \in Backups : Reads(files[c].copy.records)

\* Where the process is, and what the service may be doing then.
PhaseInv ==
    /\ svc.pc = "idle" => svc = Idle
    /\ svc.pc # "idle" => app.phase \in {"dialog", "upgradeBackup", "running"}
    /\ svc.pc # "idle" /\ app.phase = "dialog" =>
         svc.pc \in {"copy", "replace"} /\ svc.id = 0 /\ ~svc.restoring
    /\ svc.pc # "idle" /\ app.phase # "dialog" =>
         /\ svc.pc \in {"copy", "replace", "reRegister"} => svc.restoring
         /\ svc.pc = "copy" <=> svc.id = 0

\* The backup in hand, its file and its record.
HandInv ==
    svc.id # 0 =>
        /\ svc.pc \in {"register", "verify"} => files[svc.id].present
        /\ svc.pc \in {"mark", "replace", "reRegister"} => Kept(svc.id)
        /\ svc.pc \in {"verify", "mark", "failMark", "replace"} =>
             db.records[svc.id] # "ABSENT"
        /\ svc.restoring /\ svc.pc \in {"register", "verify", "mark", "replace"} =>
             db.facts \subseteq files[svc.id].copy.facts \union late

\* The copy that is to replace the database.
TmpInv ==
    /\ svc.restoring \/ svc.pc = "replace"
    /\ svc.pc \notin {"idle", "copy", "reRegister"}
    => /\ svc.tmp.sound /\ svc.tmp.schema = db.schema
       /\ svc.tmp.genuine \/ unvouched

\* The file about to be copied: its record vouched for it, or it had none.
SourceInv ==
    svc.pc = "copy" =>
        /\ svc.source \in Backups
        /\ files[svc.source].altered => \/ db.records[svc.source] = "ABSENT"
                                       \/ unvouched

SnapInv ==
    app.snap # 0 =>
        /\ Kept(app.snap)
        /\ app.moved \/ files[app.snap].copy.schema = db.schema

GenuineInv == \A b \in Backups : files[b].copy.genuine \/ unvouched

IInv ==
    /\ TypeOK /\ NewInv /\ ReadInv /\ PhaseInv /\ HandInv /\ TmpInv
    /\ SourceInv /\ SnapInv /\ GenuineInv
    /\ CurrentIsUsable /\ NothingLostByRestore /\ UnlistedIsExplained

-----------------------------------------------------------------------------
(***************************************************************************)
(* Facts about data                                                        *)
(***************************************************************************)

LEMMA NoDatabaseFacts ==
    /\ NoDatabase \in Database
    /\ NoDatabase.facts = {} /\ NoDatabase.schema = 0
    /\ NoDatabase.sound /\ NoDatabase.genuine
    /\ \A b \in Backups : NoDatabase.records[b] = "ABSENT"
BY BackupAssumption DEF NoDatabase, Database, Records, Schemas, BackupAssumption

LEMMA IdleFacts ==
    /\ Idle \in Service
    /\ Idle.pc = "idle" /\ Idle.id = 0 /\ Idle.restoring = FALSE
    /\ Idle.source = 0 /\ Idle.tmp = NoDatabase
BY NoDatabaseFacts DEF Idle, Service, PCs

LEMMA AtFacts ==
    ASSUME NEW phase \in Phases
    PROVE  /\ At(phase) \in App /\ At(phase).phase = phase
           /\ At(phase).try = 1 /\ At(phase).snap = 0 /\ At(phase).moved = FALSE
BY DEF At, App

LEMMA SvcFacts ==
    ASSUME TypeOK
    PROVE  /\ svc \in Service /\ svc.pc \in PCs /\ svc.id \in Backups \union {0}
           /\ svc.restoring \in BOOLEAN /\ svc.tmp \in Database
           /\ svc.source \in Backups \union {0}
           /\ made \in Nat /\ svc.id \in Nat
BY DEF TypeOK, ServiceTypeOK, Service, Backups

LEMMA DbFacts ==
    ASSUME NEW d \in Database
    PROVE  /\ d.facts \in SUBSET Facts /\ d.schema \in Schemas
           /\ d.sound \in BOOLEAN /\ d.genuine \in BOOLEAN
           /\ d.records \in Records
BY DEF Database

LEMMA FileFacts ==
    ASSUME TypeOK, NEW b \in Backups
    PROVE  /\ files[b] \in File /\ files[b].present \in BOOLEAN
           /\ files[b].altered \in BOOLEAN /\ files[b].copy \in Database
BY DEF TypeOK, ServiceTypeOK, File

LEMMA GoesTo ==
    ASSUME TypeOK, NEW p \in PCs, Goto(p)
    PROVE  /\ svc' \in Service /\ svc'.pc = p /\ svc'.id = svc.id
           /\ svc'.restoring = svc.restoring /\ svc'.tmp = svc.tmp
           /\ svc'.source = svc.source
BY SvcFacts DEF Goto, Service

LEMMA EndsBackup ==
    ASSUME TypeOK, NEW verified \in BOOLEAN, EndBackup(verified)
    PROVE  /\ svc' \in Service
           /\ \/ /\ svc.restoring /\ verified
                 /\ svc'.pc = "replace" /\ svc'.id = svc.id
                 /\ svc'.restoring = svc.restoring /\ svc'.tmp = svc.tmp
              \/ svc' = Idle
<1>1. "replace" \in PCs
  BY DEF PCs
<1>2. CASE svc.restoring /\ verified
  <2>1. Goto("replace")
    BY <1>2 DEF EndBackup, Goto
  <2>2. QED
    BY <1>1, <1>2, <2>1, GoesTo
<1>3. CASE ~(svc.restoring /\ verified)
  BY <1>3, IdleFacts DEF EndBackup
<1>4. QED
  BY <1>2, <1>3

LEMMA SetsRecord ==
    ASSUME TypeOK, NEW b \in Backups,
           NEW status \in {"CREATED", "VERIFIED", "FAILED"},
           SetRecord(b, status)
    PROVE  /\ db' \in Database /\ db'.facts = db.facts /\ db'.schema = db.schema
           /\ db'.sound = db.sound /\ db'.genuine = db.genuine
           /\ db'.records[b] = status
           /\ \A c \in Backups \ {b} : db'.records[c] = db.records[c]
<1>1. db \in Database /\ db.records \in Records
  BY DbFacts DEF TypeOK, ServiceTypeOK
<1>2. db' = [db EXCEPT !.records = [db.records EXCEPT ![b] = status]]
  BY DEF SetRecord
<1>3. [db.records EXCEPT ![b] = status] \in Records
  BY <1>1 DEF Records
<1>4. QED
  BY <1>1, <1>2, <1>3 DEF Database, Records

-----------------------------------------------------------------------------
(***************************************************************************)
(* The process, while the service rests                                    *)
(***************************************************************************)

LEMMA OnlyApp ==
    ASSUME IInv, svc.pc = "idle" \/ app'.phase = app.phase,
           UNCHANGED <<serviceVars, snaps, unsaved>>,
           app' \in App, level' \in Schemas, lastRun' \in Schemas,
           app'.snap = 0 \/ (app'.snap = app.snap /\ app'.moved = app.moved),
           level <= level', app'.phase = "running" => db.schema = level'
    PROVE  IInv'
<1> USE DEF IInv, serviceVars
<1>1. TypeOK'
  BY DEF TypeOK, ServiceTypeOK
<1>2. NewInv' /\ ReadInv'
  BY DEF NewInv, ReadInv, Unheard, Reads, Kept
<1>3. PhaseInv'
  BY DEF PhaseInv
<1>4. HandInv' /\ TmpInv' /\ SourceInv' /\ GenuineInv'
  BY DEF HandInv, TmpInv, SourceInv, GenuineInv, Kept
<1>5. SnapInv'
  BY DEF SnapInv, Kept
<1>6. CurrentIsUsable'
  <2>1. db.schema \in Nat /\ level \in Nat /\ level' \in Nat
    BY DbFacts, BackupAssumption DEF TypeOK, ServiceTypeOK, Schemas, BackupAssumption
  <2>2. QED
    BY <2>1 DEF CurrentIsUsable
<1>7. NothingLostByRestore' /\ UnlistedIsExplained'
  BY DEF NothingLostByRestore, UnlistedIsExplained
<1>8. QED
  BY <1>1, <1>2, <1>3, <1>4, <1>5, <1>6, <1>7


LEMMA Starting ==
    ASSUME IInv,
           \/ \E v \in Schemas : Install(v)
           \/ Launch \/ NoSnapshot \/ UpgradeBackupEnds \/ MigrateFails
           \/ Opened \/ ContinueReadOnly \/ Close
    PROVE  IInv'
<1>1. /\ app \in App /\ level \in Schemas /\ lastRun \in Schemas
      /\ level \in Nat
      /\ app.phase = "running" => db.schema = level
  BY BackupAssumption DEF IInv, TypeOK, CurrentIsUsable, Schemas, BackupAssumption
<1>2. level <= level
  BY <1>1
<1>3. /\ "snapshot" \in Phases /\ "closed" \in Phases /\ "running" \in Phases
      /\ "readonly" \in Phases /\ "dialog" \in Phases
  BY DEF Phases
<1>4. CASE \E v \in Schemas : Install(v)
  <2>1. PICK v \in Schemas : Install(v)
    BY <1>4
  <2>2. /\ level' \in Schemas /\ level <= level' /\ app' = app /\ app.phase = "closed"
        /\ UNCHANGED <<serviceVars, lastRun, snaps, unsaved>>
    BY <1>1, <2>1, BackupAssumption DEF Install, Schemas, BackupAssumption
  <2>3. QED
    BY <1>1, <2>2, OnlyApp
<1>5. CASE Launch
  <2>1. svc.pc = "idle"
    BY <1>5 DEF Launch, IInv, PhaseInv
  <2>2. /\ app' = At("snapshot") /\ lastRun' = lastRun
        /\ UNCHANGED <<serviceVars, level, snaps, unsaved>>
    BY <1>5 DEF Launch
  <2>3. QED
    BY <1>1, <1>2, <1>3, <2>1, <2>2, AtFacts, OnlyApp
<1>6. ASSUME NEW snap, NEW moved \in BOOLEAN, StartFails(snap, moved),
             \/ snap = 0
             \/ snap = app.snap /\ moved = app.moved
      PROVE  /\ app' \in App /\ app'.phase \in {"snapshot", "dialog"}
             /\ app'.snap = 0 \/ (app'.snap = app.snap /\ app'.moved = app.moved)
  <2>1. snap \in Backups \union {0}
    BY <1>1, <1>6 DEF App
  <2>2. CASE app.try = 1
    <3>1. app' = [At("snapshot") EXCEPT !.try = 2]
      BY <1>6, <2>2 DEF StartFails
    <3>2. At("snapshot") \in App /\ At("snapshot").phase = "snapshot"
          /\ At("snapshot").snap = 0
      BY <1>3, AtFacts
    <3>3. QED
      BY <3>1, <3>2 DEF App
  <2>3. CASE app.try # 1
    <3>1. app' = [At("dialog") EXCEPT !.snap = snap, !.moved = moved]
      BY <1>6, <2>3 DEF StartFails
    <3>2. At("dialog") \in App /\ At("dialog").phase = "dialog"
      BY <1>3, AtFacts
    <3>3. app' \in App /\ app'.phase = "dialog" /\ app'.snap = snap /\ app'.moved = moved
      BY <2>1, <3>1, <3>2 DEF App
    <3>4. QED
      BY <1>6, <3>3
  <2>4. QED
    BY <2>2, <2>3
<1>7. CASE NoSnapshot
  <2>1. svc.pc = "idle" /\ StartFails(0, FALSE)
    BY <1>7 DEF NoSnapshot, IInv, PhaseInv
  <2>2. /\ app' \in App /\ app'.phase \in {"snapshot", "dialog"}
        /\ app'.snap = 0 \/ (app'.snap = app.snap /\ app'.moved = app.moved)
    BY <1>6, <2>1
  <2>3. QED
    BY <1>1, <1>2, <1>7, <2>1, <2>2, OnlyApp DEF NoSnapshot
<1>8. CASE MigrateFails
  <2>1. svc.pc = "idle" /\ StartFails(app.snap, app.moved) /\ app.moved \in BOOLEAN
    BY <1>1, <1>8 DEF MigrateFails, IInv, PhaseInv, App
  <2>2. /\ app' \in App /\ app'.phase \in {"snapshot", "dialog"}
        /\ app'.snap = 0 \/ (app'.snap = app.snap /\ app'.moved = app.moved)
    BY <1>6, <2>1
  <2>3. QED
    BY <1>1, <1>2, <1>8, <2>1, <2>2, OnlyApp DEF MigrateFails
<1>9. CASE UpgradeBackupEnds
  <2>1. svc.pc = "idle" /\ app' = [app EXCEPT !.phase = "migrate"]
    BY <1>9 DEF UpgradeBackupEnds
  <2>2. /\ app' \in App /\ app'.phase = "migrate"
        /\ app'.snap = app.snap /\ app'.moved = app.moved
    BY <1>1, <2>1 DEF App, Phases
  <2>3. QED
    BY <1>1, <1>2, <1>9, <2>1, <2>2, OnlyApp DEF UpgradeBackupEnds
<1>10. CASE Opened
  <2>1. svc.pc = "idle" /\ db.schema = level
    BY <1>10 DEF Opened, IInv, PhaseInv
  <2>2. /\ app' = At("running") /\ lastRun' \in Schemas
        /\ UNCHANGED <<serviceVars, level, snaps, unsaved>>
    BY <1>1, <1>10 DEF Opened
  <2>3. QED
    BY <1>1, <1>2, <1>3, <2>1, <2>2, AtFacts, OnlyApp
<1>11. CASE ContinueReadOnly
  <2>1. /\ svc.pc = "idle" /\ app' = At("readonly") /\ lastRun' = lastRun
        /\ UNCHANGED <<serviceVars, level, snaps, unsaved>>
    BY <1>11 DEF ContinueReadOnly
  <2>2. QED
    BY <1>1, <1>2, <1>3, <2>1, AtFacts, OnlyApp
<1>12. CASE Close
  <2>1. /\ svc.pc = "idle" /\ app' = At("closed") /\ lastRun' = lastRun
        /\ UNCHANGED <<serviceVars, level, snaps, unsaved>>
    BY <1>12 DEF Close
  <2>2. QED
    BY <1>1, <1>2, <1>3, <2>1, AtFacts, OnlyApp
<1>13. QED
  BY <1>4, <1>5, <1>7, <1>8, <1>9, <1>10, <1>11, <1>12

-----------------------------------------------------------------------------
(***************************************************************************)
(* Steps of the service that leave the database and the files alone        *)
(***************************************************************************)

LEMMA Moves ==
    ASSUME IInv,
           UNCHANGED <<db, files, written, late, displaced, level, lastRun,
                       snaps, unsaved>>,
           svc' \in Service, made' \in made..MaxBackups, crashes' \in 0..MaxCrashes,
           cut \subseteq cut', cut' \in SUBSET Backups,
           unvouched' \in BOOLEAN, unvouched => unvouched',
           app' \in App, app'.phase = "running" => db.schema = level,
           app'.snap = 0 \/ (app'.snap = app.snap /\ app'.moved = app.moved),
           PhaseInv', HandInv', TmpInv', SourceInv',
           svc'.id <= made',
           svc'.pc = "snapshot" => \/ svc'.id \in Backups /\ svc'.id > made
                                   \/ svc.pc = "snapshot" /\ svc'.id = svc.id,
           \/ svc'.tmp = svc.tmp \/ svc'.tmp = NoDatabase
           \/ \E c \in Backups : svc'.tmp.records = files[c].copy.records,
           svc.pc # "idle" /\ svc.id # 0 =>
              \/ svc'.pc # "idle" /\ svc'.id = svc.id
              \/ db.records[svc.id] # "ABSENT"
              \/ svc.id \in cut'
    PROVE  IInv'
<1> USE DEF IInv
<1>1. /\ made \in Nat /\ made' \in Nat /\ made <= made' /\ made' \in 0..MaxBackups
      /\ svc.id \in Backups \union {0} /\ svc.id \in Nat
  BY SvcFacts, BackupAssumption DEF TypeOK, ServiceTypeOK, BackupAssumption
<1>2. TypeOK'
  BY <1>1 DEF TypeOK, ServiceTypeOK
<1>3. ASSUME NEW b \in Backups, Unheard(b)
      PROVE  Unheard(b)'
  BY <1>3, NoDatabaseFacts DEF Unheard
<1>4. NewInv'
  <2>1. ASSUME NEW b \in Backups, b > made'
        PROVE  Unheard(b)'
    <3>1. b > made
      BY <1>1, <2>1 DEF Backups
    <3>2. QED
      BY <1>3, <3>1 DEF NewInv
  <2>2. ASSUME svc'.pc = "snapshot"
        PROVE  Unheard(svc.id)'
    <3>1. CASE svc'.id \in Backups /\ svc'.id > made
      <4>1. Unheard(svc'.id)
        BY <3>1 DEF NewInv
      <4>2. UNCHANGED <<db, files>>
        OBVIOUS
      <4>3. QED
        BY <3>1, <4>1, <4>2, NoDatabaseFacts DEF Unheard
    <3>2. CASE svc.pc = "snapshot" /\ svc'.id = svc.id
      <4>1. Unheard(svc.id) /\ svc.id \in Backups
        BY <1>1, <3>2, IdleFacts DEF NewInv, PhaseInv
      <4>2. QED
        BY <3>2, <4>1, NoDatabaseFacts DEF Unheard
    <3>3. QED
      BY <2>2, <3>1, <3>2
  <2>3. QED
    BY <2>1, <2>2 DEF NewInv
<1>5. ReadInv'
  BY NoDatabaseFacts DEF ReadInv, Reads, Kept
<1>6. SnapInv' /\ GenuineInv'
  BY DEF SnapInv, GenuineInv, Kept
<1>7. CurrentIsUsable'
  BY DEF CurrentIsUsable
<1>8. NothingLostByRestore'
  BY DEF NothingLostByRestore
<1>9. UnlistedIsExplained'
  <2> SUFFICES ASSUME NEW b \in Backups, files[b].present, db.records[b] = "ABSENT"
               PROVE  \/ svc'.pc # "idle" /\ svc'.id = b
                      \/ b \in cut' \union displaced \union snaps
    BY DEF UnlistedIsExplained
  <2>1. \/ svc.pc # "idle" /\ svc.id = b
        \/ b \in cut \union displaced \union snaps
    BY DEF UnlistedIsExplained
  <2>2. b # 0
    BY DEF Backups
  <2>3. QED
    BY <2>1, <2>2
<1>10. QED
  BY <1>2, <1>4, <1>5, <1>6, <1>7, <1>8, <1>9

LEMMA StartsBackup ==
    ASSUME IInv, StartBackup, app' \in App, app'.phase \in {"running", "upgradeBackup"},
           app'.phase = "running" => app.phase = "running",
           app'.snap = app.snap /\ app'.moved = app.moved,
           UNCHANGED <<level, lastRun, snaps, unsaved>>
    PROVE  IInv'
<1> USE DEF IInv
<1>1. /\ svc.pc = "idle" /\ made < MaxBackups /\ made' = made + 1
      /\ svc' = [Idle EXCEPT !.pc = "snapshot", !.id = made + 1]
      /\ UNCHANGED <<db, files, crashes, written, late, cut, displaced, unvouched>>
  BY DEF StartBackup
<1>2. /\ made \in Nat /\ made + 1 \in Backups /\ made' \in made..MaxBackups
      /\ made + 1 > made /\ made + 1 # 0
  BY <1>1, SvcFacts, BackupAssumption DEF Backups, BackupAssumption
<1>3. "snapshot" \in PCs
  BY DEF PCs
<1>4. /\ svc' \in Service /\ svc'.pc = "snapshot" /\ svc'.id = made + 1
      /\ svc'.restoring = FALSE /\ svc'.tmp = NoDatabase
  BY <1>1, <1>2, <1>3, IdleFacts DEF Service
<1>5. PhaseInv' /\ HandInv' /\ TmpInv' /\ SourceInv'
  BY <1>2, <1>4 DEF PhaseInv, HandInv, TmpInv, SourceInv
<1>6. /\ crashes' \in 0..MaxCrashes /\ cut' = cut /\ cut \in SUBSET Backups
      /\ unvouched \in BOOLEAN
      /\ app'.phase = "running" => db.schema = level
  BY <1>1 DEF TypeOK, ServiceTypeOK, CurrentIsUsable
<1>7. svc'.id <= made'
  BY <1>1, <1>2, <1>4
<1>8. QED
  BY <1>1, <1>2, <1>4, <1>5, <1>6, <1>7, Moves

\* The copy of a readable file is sound, of this schema, and genuine unless it
\* was altered.
LEMMA CopyFacts ==
    ASSUME IInv, NEW b \in Backups, Readable(b)
    PROVE  /\ CopyOf(b) \in Database
           /\ CopyOf(b).records = files[b].copy.records
           /\ CopyOf(b).sound /\ CopyOf(b).schema = db.schema
           /\ CopyOf(b).genuine \/ unvouched \/ files[b].altered
<1> DEFINE g == files[b].copy.genuine /\ ~files[b].altered
<1>1. files[b].copy \in Database /\ g \in BOOLEAN
  BY FileFacts, DbFacts DEF IInv
<1>2. CopyOf(b) = [files[b].copy EXCEPT !.genuine = g]
  BY DEF CopyOf
<1>3. g \/ unvouched \/ files[b].altered
  BY <1>1, FileFacts DEF IInv, GenuineInv
<1> HIDE DEF g
<1>4. QED
  BY <1>1, <1>2, <1>3 DEF Database, Readable

\* A restore is called, from the backup page or in safe mode.
LEMMA CallsRestore ==
    ASSUME IInv, NEW b \in Backups, svc.pc = "idle",
           NEW restoring \in BOOLEAN,
           svc' = [Idle EXCEPT !.pc = "copy", !.restoring = restoring, !.source = b],
           files[b].altered => db.records[b] = "ABSENT",
           app.phase = IF restoring THEN "running" ELSE "dialog",
           UNCHANGED <<db, files, made, crashes, written, late, cut, displaced,
                       unvouched, startVars>>
    PROVE  IInv'
<1> USE DEF IInv
<1>1. "copy" \in PCs
  BY DEF PCs
<1>2. /\ svc' \in Service /\ svc'.pc = "copy" /\ svc'.id = 0
      /\ svc'.restoring = restoring /\ svc'.source = b /\ svc'.tmp = NoDatabase
  BY <1>1, IdleFacts DEF Service
<1>3. made \in Nat /\ made' \in made..MaxBackups /\ svc'.id <= made'
  BY <1>2, SvcFacts, BackupAssumption
     DEF TypeOK, ServiceTypeOK, BackupAssumption
<1>4. PhaseInv' /\ HandInv' /\ TmpInv' /\ SourceInv'
  BY <1>2 DEF PhaseInv, HandInv, TmpInv, SourceInv, startVars
<1>5. /\ crashes' \in 0..MaxCrashes /\ cut' = cut /\ cut \in SUBSET Backups
      /\ app' = app /\ app' \in App /\ unvouched' = unvouched
      /\ unvouched \in BOOLEAN
      /\ app'.phase = "running" => db.schema = level
      /\ UNCHANGED <<level, lastRun, snaps, unsaved>>
  BY DEF TypeOK, ServiceTypeOK, CurrentIsUsable, startVars
<1>6. QED
  BY <1>2, <1>3, <1>4, <1>5, Moves

LEMMA StartsRestore ==
    ASSUME IInv, NEW b \in Backups, StartRestore(b), app.phase = "running",
           UNCHANGED startVars
    PROVE  IInv'
<1>1. /\ svc.pc = "idle" /\ ~files[b].altered
      /\ svc' = [Idle EXCEPT !.pc = "copy", !.restoring = TRUE, !.source = b]
      /\ UNCHANGED <<db, files, made, crashes, written, late, cut, displaced,
                     unvouched>>
  BY DEF StartRestore, Vouched
<1>2. QED
  BY <1>1, CallsRestore

LEMMA RestoresInSafeMode ==
    ASSUME IInv, NEW b \in Backups, RestoreInSafeMode(b)
    PROVE  IInv'
<1>1. /\ svc.pc = "idle" /\ app.phase = "dialog"
      /\ files[b].altered => db.records[b] = "ABSENT"
      /\ svc' = [Idle EXCEPT !.pc = "copy", !.source = b]
      /\ UNCHANGED <<db, files, made, crashes, written, late, cut, displaced,
                     unvouched, startVars>>
  BY DEF RestoreInSafeMode, Vouched
<1>2. svc' = [Idle EXCEPT !.pc = "copy", !.restoring = FALSE, !.source = b]
  BY <1>1, IdleFacts DEF Service
<1>3. QED
  BY <1>1, <1>2, CallsRestore

LEMMA Copies ==
    ASSUME IInv, Copy, UNCHANGED startVars
    PROVE  IInv'
<1> USE DEF IInv
<1> DEFINE copy == CopyOf(svc.source)
           next == IF svc.restoring THEN "snapshot" ELSE "replace"
           hand == IF svc.restoring THEN made + 1 ELSE 0
<1>1. /\ svc.pc = "copy" /\ Readable(svc.source)
      /\ UNCHANGED <<db, files, crashes, written, late, cut, displaced>>
  BY DEF Copy
<1>2. unvouched' = (unvouched \/ (/\ db.records[svc.source] = "ABSENT"
                                  /\ files[svc.source].altered))
  BY DEF Copy
<1>3. /\ svc.source \in Backups /\ svc.id = 0 /\ svc \in Service
      /\ svc.restoring \in BOOLEAN /\ made \in Nat
      /\ files[svc.source].altered => \/ db.records[svc.source] = "ABSENT"
                                     \/ unvouched
  BY <1>1, SvcFacts DEF SourceInv, PhaseInv
<1>4. unvouched \in BOOLEAN /\ unvouched' \in BOOLEAN /\ (unvouched => unvouched')
  BY <1>2 DEF TypeOK, ServiceTypeOK
<1>5. /\ copy \in Database /\ copy.records = files[svc.source].copy.records
      /\ copy.sound /\ copy.schema = db.schema
      /\ copy.genuine \/ unvouched \/ files[svc.source].altered
  BY <1>1, <1>3, CopyFacts
<1>6. copy.genuine \/ unvouched'
  BY <1>2, <1>3, <1>5
<1>7. /\ made' \in made..MaxBackups /\ hand <= made' /\ hand \in Backups \union {0}
      /\ svc.restoring => hand \in Backups /\ hand > made /\ hand # 0
  <2>1. CASE svc.restoring
    BY <1>3, <2>1, BackupAssumption DEF Copy, Backups, BackupAssumption
  <2>2. CASE ~svc.restoring
    BY <1>3, <2>2, BackupAssumption
       DEF Copy, BackupAssumption, TypeOK, ServiceTypeOK
  <2>3. QED
    BY <1>3, <2>1, <2>2
<1>8. svc' = [svc EXCEPT !.pc = next, !.id = hand, !.source = 0, !.tmp = copy]
  <2>1. CASE svc.restoring
    BY <2>1 DEF Copy
  <2>2. CASE ~svc.restoring
    BY <1>3, <2>2 DEF Copy, Service
  <2>3. QED
    BY <1>3, <2>1, <2>2
<1> HIDE DEF copy, hand
<1>9. /\ svc' \in Service /\ svc'.pc = next /\ svc'.id = hand
      /\ svc'.restoring = svc.restoring /\ svc'.tmp = copy
  <2>1. next \in PCs
    BY DEF PCs
  <2>2. QED
    BY <1>3, <1>5, <1>7, <1>8, <2>1 DEF Service
<1>10. svc.restoring <=> app.phase # "dialog"
  BY <1>1 DEF PhaseInv
<1>11. PhaseInv' /\ HandInv' /\ TmpInv' /\ SourceInv'
  <2>1. UNCHANGED app /\ app.phase \in {"dialog", "upgradeBackup", "running"}
    BY <1>1 DEF PhaseInv, startVars
  <2>2. CASE svc.restoring
    BY <1>1, <1>5, <1>6, <1>7, <1>9, <1>10, <2>1, <2>2
       DEF PhaseInv, HandInv, TmpInv, SourceInv
  <2>3. CASE ~svc.restoring
    BY <1>1, <1>5, <1>6, <1>9, <1>10, <2>1, <2>3
       DEF PhaseInv, HandInv, TmpInv, SourceInv, hand
  <2>4. QED
    BY <1>3, <2>2, <2>3
<1>12. /\ crashes' \in 0..MaxCrashes /\ cut' = cut /\ cut \in SUBSET Backups
       /\ app' = app /\ app' \in App
       /\ app'.phase = "running" => db.schema = level
       /\ UNCHANGED <<level, lastRun, snaps, unsaved>>
  BY <1>1 DEF TypeOK, ServiceTypeOK, CurrentIsUsable, startVars
<1>13. \/ svc'.tmp = svc.tmp \/ svc'.tmp = NoDatabase
       \/ \E c \in Backups : svc'.tmp.records = files[c].copy.records
  BY <1>3, <1>5, <1>9
<1>14. svc'.pc = "snapshot" => svc'.id \in Backups /\ svc'.id > made
  BY <1>7, <1>9
<1>15. svc'.id <= made'
  BY <1>7, <1>9
<1>16. QED
  BY <1>1, <1>3, <1>4, <1>7, <1>9, <1>11, <1>12, <1>13, <1>14, <1>15, Moves

\* The read-back of the backup in hand has its outcome.
LEMMA Judges ==
    ASSUME IInv, NEW p \in {"mark", "failCreate"}, svc.pc = "verify", Goto(p),
           UNCHANGED startVars,
           UNCHANGED <<db, files, made, crashes, written, late, cut, displaced, unvouched>>,
           p = "mark" => Kept(svc.id)
    PROVE  IInv'
<1> USE DEF IInv
<1>1. /\ svc' \in Service /\ svc'.pc = p /\ svc'.id = svc.id
      /\ svc'.restoring = svc.restoring /\ svc'.tmp = svc.tmp
  <2>1. p \in PCs
    BY DEF PCs
  <2>2. QED
    BY <2>1, GoesTo
<1>2. PhaseInv' /\ HandInv' /\ TmpInv' /\ SourceInv'
  BY <1>1 DEF PhaseInv, HandInv, TmpInv, SourceInv, Kept, startVars
<1>3. made \in Nat /\ made' \in made..MaxBackups
  BY SvcFacts, BackupAssumption DEF TypeOK, ServiceTypeOK, BackupAssumption
<1>4. /\ crashes' \in 0..MaxCrashes /\ cut' = cut /\ cut \in SUBSET Backups
      /\ app' = app /\ app' \in App /\ unvouched' = unvouched /\ unvouched \in BOOLEAN
      /\ app'.phase = "running" => db.schema = level
      /\ UNCHANGED <<level, lastRun, snaps, unsaved>>
  BY DEF TypeOK, ServiceTypeOK, CurrentIsUsable, startVars
<1>5. svc'.id <= made'
  BY <1>1 DEF NewInv
<1>6. QED
  BY <1>1, <1>2, <1>3, <1>4, <1>5, Moves

LEMMA Verifies ==
    ASSUME IInv, Verify, UNCHANGED startVars
    PROVE  IInv'
<1>1. /\ svc.pc = "verify"
      /\ Goto(IF files[svc.id].copy.sound THEN "mark" ELSE "failCreate")
      /\ UNCHANGED <<db, files, made, crashes, written, late, cut, displaced, unvouched>>
  BY DEF Verify
<1>2. files[svc.id].copy.sound => Kept(svc.id)
  BY <1>1 DEF IInv, PhaseInv, HandInv, Kept
<1>3. "mark" \in PCs /\ "failCreate" \in PCs
  BY DEF PCs
<1>4. CASE files[svc.id].copy.sound
  <2>1. Goto("mark")
    BY <1>1, <1>4
  <2>2. QED
    BY <1>1, <1>2, <1>3, <1>4, <2>1, Judges
<1>5. CASE ~files[svc.id].copy.sound
  <2>1. Goto("failCreate")
    BY <1>1, <1>5
  <2>2. QED
    BY <1>1, <1>3, <2>1, Judges
<1>6. QED
  BY <1>4, <1>5

\* The service comes to rest; its backup has a record or was cut by a crash.
LEMMA Rests ==
    ASSUME IInv, svc' = Idle,
           UNCHANGED <<db, files, made, written, late, displaced, level, lastRun,
                       snaps, unsaved, unvouched>>,
           crashes' \in 0..MaxCrashes, cut \subseteq cut', cut' \in SUBSET Backups,
           svc.pc # "idle" /\ svc.id # 0 =>
              svc.id \in cut' \/ db.records[svc.id] # "ABSENT",
           app' = app \/ app' = At("closed")
    PROVE  IInv'
<1> USE DEF IInv
<1>1. /\ svc' \in Service /\ svc'.pc = "idle" /\ svc'.id = 0
      /\ svc'.restoring = FALSE /\ svc'.tmp = NoDatabase
  BY IdleFacts
<1>2. PhaseInv' /\ HandInv' /\ TmpInv' /\ SourceInv'
  BY <1>1 DEF PhaseInv, HandInv, TmpInv, SourceInv
<1>3. /\ made \in Nat /\ made' \in made..MaxBackups /\ 0 <= made
  BY SvcFacts, BackupAssumption DEF TypeOK, ServiceTypeOK, BackupAssumption
<1>4. "closed" \in Phases
  BY DEF Phases
<1>5. /\ app' \in App /\ unvouched \in BOOLEAN
      /\ app'.snap = 0 \/ (app'.snap = app.snap /\ app'.moved = app.moved)
      /\ app'.phase = "running" => db.schema = level
  BY <1>4, AtFacts DEF TypeOK, ServiceTypeOK, CurrentIsUsable
<1>6. svc'.id <= made'
  BY <1>1, <1>3
<1>7. QED
  BY <1>1, <1>2, <1>3, <1>5, <1>6, Moves

LEMMA InHand ==
    ASSUME IInv, svc.pc \notin {"idle", "copy", "replace"}
    PROVE  svc.id \in Backups /\ app.phase \in {"running", "upgradeBackup"}
BY SvcFacts DEF IInv, PhaseInv

LEMMA ReplacementFails ==
    ASSUME IInv, ReplaceFails, UNCHANGED startVars
    PROVE  IInv'
<1>1. /\ svc.pc = "replace" /\ svc' = Idle
      /\ UNCHANGED <<db, files, made, crashes, written, late, cut, displaced, unvouched>>
      /\ UNCHANGED <<app, level, lastRun, snaps, unsaved>>
  BY DEF ReplaceFails, startVars
<1>2. svc.id # 0 => db.records[svc.id] # "ABSENT"
  BY <1>1 DEF IInv, HandInv
<1>3. crashes' \in 0..MaxCrashes /\ cut' = cut /\ cut \in SUBSET Backups
  BY <1>1 DEF IInv, TypeOK, ServiceTypeOK
<1>4. QED
  BY <1>1, <1>2, <1>3, Rests

LEMMA CopyFailing ==
    ASSUME IInv, CopyFails, UNCHANGED startVars
    PROVE  IInv'
<1>1. /\ svc.pc = "copy" /\ svc' = Idle
      /\ UNCHANGED <<db, files, made, crashes, written, late, cut, displaced,
                     unvouched>>
      /\ UNCHANGED <<app, level, lastRun, snaps, unsaved>>
  BY DEF CopyFails, startVars
<1>2. svc.id = 0
  BY <1>1 DEF IInv, PhaseInv
<1>3. crashes' \in 0..MaxCrashes /\ cut' = cut /\ cut \in SUBSET Backups
  BY <1>1 DEF IInv, TypeOK, ServiceTypeOK
<1>4. QED
  BY <1>1, <1>2, <1>3, Rests

\* A write to backup_record failed: the backup in hand is among the cut ones.
LEMMA RecordFailing ==
    ASSUME IInv, RecordFails, UNCHANGED startVars
    PROVE  IInv'
<1>1. /\ svc.pc \notin {"idle", "copy", "replace"} /\ svc' = Idle
      /\ cut' = cut \union {svc.id}
      /\ UNCHANGED <<db, files, made, crashes, written, late, displaced, unvouched>>
      /\ UNCHANGED <<app, level, lastRun, snaps, unsaved>>
  BY DEF RecordFails, startVars
<1>2. svc.id \in Backups
  BY <1>1, InHand
<1>3. /\ crashes' \in 0..MaxCrashes /\ cut \subseteq cut' /\ cut' \in SUBSET Backups
      /\ svc.id \in cut'
  BY <1>1, <1>2 DEF IInv, TypeOK, ServiceTypeOK
<1>4. QED
  BY <1>1, <1>3, Rests

LEMMA Crashes ==
    ASSUME IInv, Crash
    PROVE  IInv'
<1>1. /\ svc' = Idle /\ crashes < MaxCrashes /\ crashes' = crashes + 1
      /\ cut' = cut \union ({svc.id} \ {0}) /\ app' = At("closed")
      /\ UNCHANGED <<db, files, made, written, late, displaced, level, lastRun,
                     snaps, unsaved, unvouched>>
  BY DEF Crash, ServiceCrash
<1>2. /\ crashes' \in 0..MaxCrashes /\ cut \subseteq cut' /\ cut' \in SUBSET Backups
      /\ svc.id # 0 => svc.id \in cut'
  BY <1>1, SvcFacts, BackupAssumption DEF IInv, TypeOK, ServiceTypeOK, BackupAssumption
<1>3. QED
  BY <1>1, <1>2, Rests

-----------------------------------------------------------------------------
(***************************************************************************)
(* Steps that write the record of the backup in hand                       *)
(***************************************************************************)

LEMMA WritesRecord ==
    ASSUME IInv, NEW status \in {"CREATED", "VERIFIED", "FAILED"},
           svc.id \in Backups, SetRecord(svc.id, status), UNCHANGED startVars,
           UNCHANGED <<files, made, crashes, written, late, cut, displaced, unvouched>>,
           svc.pc \notin {"idle", "snapshot"},
           status = "VERIFIED" => Kept(svc.id),
           svc' \in Service,
           \/ svc' = Idle
           \/ /\ svc'.pc \notin {"idle", "snapshot"} /\ svc'.id = svc.id
              /\ svc'.tmp = svc.tmp,
           PhaseInv', HandInv', TmpInv', SourceInv'
    PROVE  IInv'
<1> USE DEF IInv
<1>1. /\ db' \in Database /\ db'.facts = db.facts /\ db'.schema = db.schema
      /\ db'.sound = db.sound /\ db'.genuine = db.genuine
      /\ db'.records[svc.id] = status
      /\ \A c \in Backups \ {svc.id} : db'.records[c] = db.records[c]
  BY SetsRecord
<1>2. UNCHANGED <<app, level, lastRun, snaps, unsaved>>
  BY DEF startVars
<1>3. TypeOK'
  BY <1>1, <1>2 DEF TypeOK, ServiceTypeOK
<1>4. made \in Nat /\ svc.id <= made /\ svc.id \in Nat
  BY SvcFacts DEF NewInv
<1>5. NewInv'
  <2>1. ASSUME NEW b \in Backups, b > made
        PROVE  Unheard(b)'
    <3>1. Unheard(b) /\ b # svc.id
      BY <1>4, <2>1 DEF NewInv, Backups
    <3>2. QED
      BY <1>1, <3>1, IdleFacts, NoDatabaseFacts DEF Unheard
  <2>2. svc'.id <= made /\ svc'.pc # "snapshot"
    BY <1>4, IdleFacts
  <2>3. QED
    BY <2>1, <2>2 DEF NewInv
<1>6. ReadInv'
  BY <1>1, IdleFacts, NoDatabaseFacts DEF ReadInv, Reads, Kept
<1>7. SnapInv' /\ GenuineInv'
  BY <1>1, <1>2 DEF SnapInv, GenuineInv, Kept
<1>8. CurrentIsUsable' /\ NothingLostByRestore'
  BY <1>1, <1>2 DEF CurrentIsUsable, NothingLostByRestore
<1>9. UnlistedIsExplained'
  <2> SUFFICES ASSUME NEW b \in Backups, files[b].present, db'.records[b] = "ABSENT"
               PROVE  b \in cut \union displaced \union snaps
    BY <1>2 DEF UnlistedIsExplained
  <2>1. b # svc.id /\ db.records[b] = "ABSENT"
    BY <1>1
  <2>2. QED
    BY <2>1 DEF UnlistedIsExplained
<1>10. QED
  BY <1>3, <1>5, <1>6, <1>7, <1>8, <1>9

LEMMA Registers ==
    ASSUME IInv, Register, UNCHANGED startVars
    PROVE  IInv'
<1>1. /\ svc.pc = "register" /\ SetRecord(svc.id, "CREATED") /\ Goto("verify")
      /\ UNCHANGED <<files, made, crashes, written, late, cut, displaced, unvouched>>
  BY DEF Register
<1>2. svc.id \in Backups /\ TypeOK
  BY <1>1, InHand DEF IInv
<1>3. "verify" \in PCs
  BY DEF PCs
<1>4. /\ svc' \in Service /\ svc'.pc = "verify" /\ svc'.id = svc.id
      /\ svc'.restoring = svc.restoring /\ svc'.tmp = svc.tmp
  BY <1>1, <1>2, <1>3, GoesTo
<1>5. /\ db'.facts = db.facts /\ db'.schema = db.schema
      /\ db'.records[svc.id] = "CREATED"
  BY <1>1, <1>2, SetsRecord
<1>6. PhaseInv' /\ HandInv' /\ TmpInv' /\ SourceInv'
  BY <1>1, <1>4, <1>5 DEF IInv, PhaseInv, HandInv, TmpInv, SourceInv, Kept, startVars
<1>7. QED
  BY <1>1, <1>2, <1>4, <1>6, WritesRecord

LEMMA MarksVerified ==
    ASSUME IInv, MarkVerified, UNCHANGED startVars
    PROVE  IInv'
<1>1. /\ svc.pc = "mark" /\ SetRecord(svc.id, "VERIFIED") /\ EndBackup(TRUE)
      /\ UNCHANGED <<files, made, crashes, written, late, cut, displaced, unvouched>>
  BY DEF MarkVerified
<1>2. svc.id \in Backups /\ TypeOK
  BY <1>1, InHand DEF IInv
<1>3. Kept(svc.id) /\ svc.id # 0
  BY <1>1, <1>2 DEF IInv, HandInv, Backups
<1>4. /\ svc' \in Service
      /\ \/ /\ svc.restoring
            /\ svc'.pc = "replace" /\ svc'.id = svc.id
            /\ svc'.restoring = svc.restoring /\ svc'.tmp = svc.tmp
         \/ svc' = Idle
  BY <1>1, <1>2, EndsBackup
<1>5. /\ db'.facts = db.facts /\ db'.schema = db.schema
      /\ db'.records[svc.id] = "VERIFIED"
  BY <1>1, <1>2, SetsRecord
<1>6. PhaseInv' /\ HandInv' /\ TmpInv' /\ SourceInv'
  BY <1>1, <1>3, <1>4, <1>5, IdleFacts
     DEF IInv, PhaseInv, HandInv, TmpInv, SourceInv, Kept, startVars
<1>7. QED
  BY <1>1, <1>2, <1>3, <1>4, <1>6, WritesRecord

LEMMA FailsToCreate ==
    ASSUME IInv, FailCreate, UNCHANGED startVars
    PROVE  IInv'
<1>1. /\ svc.pc = "failCreate"
      /\ UNCHANGED <<files, made, crashes, written, late, cut, displaced, unvouched>>
  BY DEF FailCreate
<1>2. svc.id \in Backups /\ TypeOK /\ svc.id # 0
  BY <1>1, InHand DEF IInv, Backups
<1>3. CASE db.records[svc.id] = "ABSENT"
  <2>1. SetRecord(svc.id, "CREATED") /\ Goto("failMark")
    BY <1>3 DEF FailCreate
  <2>2. "failMark" \in PCs
    BY DEF PCs
  <2>3. /\ svc' \in Service /\ svc'.pc = "failMark" /\ svc'.id = svc.id
        /\ svc'.restoring = svc.restoring /\ svc'.tmp = svc.tmp
    BY <1>2, <2>1, <2>2, GoesTo
  <2>4. /\ db'.facts = db.facts /\ db'.schema = db.schema
        /\ db'.records[svc.id] = "CREATED"
    BY <1>2, <2>1, SetsRecord
  <2>5. PhaseInv' /\ HandInv' /\ TmpInv' /\ SourceInv'
    BY <1>1, <2>3, <2>4 DEF IInv, PhaseInv, HandInv, TmpInv, SourceInv, Kept, startVars
  <2>6. QED
    BY <1>1, <1>2, <2>1, <2>3, <2>5, WritesRecord
<1>4. CASE db.records[svc.id] # "ABSENT"
  <2>1. EndBackup(FALSE) /\ UNCHANGED db
    BY <1>4 DEF FailCreate
  <2>2. svc' = Idle
    BY <2>1 DEF EndBackup
  <2>3. crashes' \in 0..MaxCrashes /\ cut' = cut /\ cut \in SUBSET Backups
    BY <1>1, <1>2 DEF TypeOK, ServiceTypeOK
  <2>4. QED
    BY <1>1, <1>4, <2>1, <2>2, <2>3, Rests DEF startVars
<1>5. QED
  BY <1>3, <1>4

LEMMA MarksFailed ==
    ASSUME IInv, FailMark, UNCHANGED startVars
    PROVE  IInv'
<1>1. /\ svc.pc = "failMark" /\ SetRecord(svc.id, "FAILED") /\ EndBackup(FALSE)
      /\ UNCHANGED <<files, made, crashes, written, late, cut, displaced, unvouched>>
  BY DEF FailMark
<1>2. svc.id \in Backups
  BY <1>1, InHand
<1>3. svc' = Idle /\ svc' \in Service
  BY <1>1, IdleFacts DEF EndBackup
<1>4. PhaseInv' /\ HandInv' /\ TmpInv' /\ SourceInv'
  BY <1>3, IdleFacts DEF PhaseInv, HandInv, TmpInv, SourceInv
<1>5. QED
  BY <1>1, <1>2, <1>3, <1>4, WritesRecord

LEMMA ReRegisters ==
    ASSUME IInv, ReRegister, UNCHANGED startVars
    PROVE  IInv'
<1>1. /\ svc.pc = "reRegister" /\ svc' = Idle
      /\ UNCHANGED <<files, made, crashes, written, late, cut, displaced, unvouched>>
  BY DEF ReRegister
<1>2. svc.id \in Backups /\ svc.id # 0
  BY <1>1, InHand DEF Backups
<1>3. Kept(svc.id)
  BY <1>1, <1>2 DEF IInv, HandInv
<1>4. PhaseInv' /\ HandInv' /\ TmpInv' /\ SourceInv' /\ svc' \in Service
  BY <1>1, IdleFacts DEF PhaseInv, HandInv, TmpInv, SourceInv
<1>5. CASE db.records[svc.id] = "ABSENT"
  <2>1. SetRecord(svc.id, "VERIFIED")
    BY <1>5 DEF ReRegister
  <2>2. QED
    BY <1>1, <1>2, <1>3, <1>4, <2>1, WritesRecord
<1>6. CASE db.records[svc.id] # "ABSENT"
  <2>1. crashes' \in 0..MaxCrashes /\ cut' = cut /\ cut \in SUBSET Backups
    BY <1>1 DEF IInv, TypeOK, ServiceTypeOK
  <2>2. UNCHANGED db
    BY <1>6 DEF ReRegister
  <2>3. QED
    BY <1>1, <1>6, <2>1, <2>2, Rests DEF startVars
<1>7. QED
  BY <1>5, <1>6

-----------------------------------------------------------------------------
(***************************************************************************)
(* Steps that write a backup file                                          *)
(***************************************************************************)

LEMMA WritesFile ==
    ASSUME IInv, NEW b \in Backups, Unheard(b), NEW new \in File,
           files' = [files EXCEPT ![b] = new],
           \/ new.copy.records = db.records
           \/ \A c \in Backups : new.copy.records[c] = "ABSENT",
           new.copy.genuine \/ unvouched, svc'.tmp = svc.tmp,
           app'.phase = "running" => app.phase = "running",
           UNCHANGED <<db, written, late, unsaved, unvouched, level>>
    PROVE  /\ files' \in [Backups -> File] /\ files'[b] = new
           /\ \A c \in Backups \ {b} : files'[c] = files[c]
           /\ \A c \in Backups : Kept(c) => Kept(c)' /\ files'[c] = files[c]
           /\ \A c \in Backups \ {b} : Unheard(c) => Unheard(c)'
           /\ ReadInv' /\ GenuineInv' /\ CurrentIsUsable' /\ NothingLostByRestore'
<1> USE DEF IInv
<1>1. /\ files' \in [Backups -> File] /\ files'[b] = new
      /\ \A c \in Backups \ {b} : files'[c] = files[c]
  BY DEF TypeOK, ServiceTypeOK
<1>2. \A c \in Backups : Kept(c) => Kept(c)' /\ files'[c] = files[c]
  BY <1>1 DEF Kept, Unheard
<1>3. \A c \in Backups \ {b} : Unheard(c) => Unheard(c)'
  BY <1>1 DEF Unheard
<1>4. ReadInv'
  <2>1. Reads(db.records)' /\ Reads(svc.tmp.records)'
    BY <1>2 DEF ReadInv, Reads
  <2>2. ASSUME NEW c \in Backups
        PROVE  Reads(files[c].copy.records)'
    <3>1. CASE c = b
      BY <1>1, <1>2, <3>1 DEF ReadInv, Reads
    <3>2. CASE c # b
      BY <1>1, <1>2, <3>2 DEF ReadInv, Reads
    <3>3. QED
      BY <3>1, <3>2
  <2>3. QED
    BY <2>1, <2>2 DEF ReadInv
<1>5. GenuineInv'
  BY <1>1 DEF GenuineInv
<1>6. CurrentIsUsable'
  BY DEF CurrentIsUsable
<1>7. NothingLostByRestore'
  <2> SUFFICES ASSUME NEW x \in written
               PROVE  \/ x \in db.facts \union late \union unsaved
                      \/ \E c \in Backups : /\ files'[c].present
                                            /\ files'[c].copy.sound
                                            /\ x \in files'[c].copy.facts
    BY DEF NothingLostByRestore
  <2>1. \/ x \in db.facts \union late \union unsaved
        \/ \E c \in Backups : Kept(c) /\ x \in files[c].copy.facts
    BY DEF NothingLostByRestore, Kept
  <2>2. QED
    BY <1>2, <2>1 DEF Kept
<1>8. QED
  BY <1>1, <1>2, <1>3, <1>4, <1>5, <1>6, <1>7

\* A copy of the database, and a file of it.
LEMMA SnapshotOf ==
    ASSUME IInv, NEW sound \in BOOLEAN
    PROVE  LET copy == [db EXCEPT !.sound = sound]
           IN  /\ copy \in Database /\ copy.facts = db.facts
               /\ copy.records = db.records /\ copy.schema = db.schema
               /\ copy.sound = sound /\ copy.genuine = db.genuine
BY DEF IInv, TypeOK, ServiceTypeOK, Database

\* VACUUM INTO has ended, well or not.
LEMMA Vacuums ==
    ASSUME IInv, svc.pc = "snapshot", NEW copy \in Database, NEW p \in PCs,
           files' = [files EXCEPT ![svc.id] =
             [present |-> TRUE, altered |-> FALSE, copy |-> copy]],
           copy.genuine \/ unvouched,
           \/ copy.records = db.records /\ copy.facts = db.facts
           \/ /\ \A c \in Backups : copy.records[c] = "ABSENT"
              /\ p = "failCreate",
           p \in {"register", "failCreate"}, Goto(p), UNCHANGED startVars,
           UNCHANGED <<db, made, crashes, written, late, cut, displaced, unvouched>>
    PROVE  IInv'
<1> USE DEF IInv
<1> DEFINE b == svc.id
           new == [present |-> TRUE, altered |-> FALSE, copy |-> copy]
<1>1. b \in Backups /\ Unheard(b)
  BY InHand DEF NewInv
<1>2. new \in File /\ new.copy = copy /\ new.present = TRUE
  BY DEF File
<1>3. /\ svc' \in Service /\ svc'.pc = p /\ svc'.id = b
      /\ svc'.restoring = svc.restoring /\ svc'.tmp = svc.tmp
  BY GoesTo
<1>4. UNCHANGED <<app, level, lastRun, snaps, unsaved>>
  BY DEF startVars
<1>5. files' = [files EXCEPT ![b] = new]
  OBVIOUS
<1> HIDE DEF new
<1>6. /\ files' \in [Backups -> File] /\ files'[b] = new
      /\ \A c \in Backups \ {b} : files'[c] = files[c]
      /\ \A c \in Backups : Kept(c) => Kept(c)' /\ files'[c] = files[c]
      /\ \A c \in Backups \ {b} : Unheard(c) => Unheard(c)'
      /\ ReadInv' /\ GenuineInv' /\ CurrentIsUsable' /\ NothingLostByRestore'
  <2> HIDE DEF b
  <2>1. /\ \/ new.copy.records = db.records
           \/ \A c \in Backups : new.copy.records[c] = "ABSENT"
        /\ new.copy.genuine \/ unvouched
        /\ app'.phase = "running" => app.phase = "running"
        /\ UNCHANGED <<db, written, late, unsaved, unvouched, level>>
    BY <1>2, <1>4
  <2>2. b \in Backups /\ Unheard(b) /\ new \in File /\ files' = [files EXCEPT ![b] = new]
        /\ svc'.tmp = svc.tmp
    BY <1>1, <1>2, <1>3, <1>5
  <2>3. QED
    BY <2>1, <2>2, WritesFile, Zenon
<1>7. TypeOK'
  BY <1>3, <1>4, <1>6 DEF TypeOK, ServiceTypeOK
<1>8. NewInv'
  <2>1. b \in Nat /\ made \in Nat /\ b <= made
    BY SvcFacts DEF NewInv
  <2>2. \A c \in Backups : c > made => c # b
    BY <2>1 DEF Backups
  <2>3. QED
    BY <1>3, <1>6, <2>1, <2>2 DEF NewInv
<1>9. PhaseInv' /\ TmpInv' /\ SourceInv'
  BY <1>3, <1>4 DEF PhaseInv, TmpInv, SourceInv
<1>10. HandInv'
  BY <1>2, <1>3, <1>6 DEF HandInv
<1>11. SnapInv'
  <2>1. app \in App /\ app.snap \in Backups \union {0}
    BY DEF TypeOK, App
  <2>2. QED
    BY <1>4, <1>6, <2>1 DEF SnapInv
<1>12. UnlistedIsExplained'
  BY <1>3, <1>4, <1>6 DEF UnlistedIsExplained
<1>13. QED
  BY <1>6, <1>7, <1>8, <1>9, <1>10, <1>11, <1>12

LEMMA Snapshots ==
    ASSUME IInv, NEW sound \in BOOLEAN, Snapshot(sound), UNCHANGED startVars
    PROVE  IInv'
<1> DEFINE copy == [db EXCEPT !.sound = sound]
<1>1. /\ svc.pc = "snapshot" /\ Goto("register")
      /\ files' = [files EXCEPT ![svc.id] =
           [present |-> TRUE, altered |-> FALSE, copy |-> copy]]
      /\ UNCHANGED <<db, made, crashes, written, late, cut, displaced, unvouched>>
  BY DEF Snapshot
<1>2. /\ copy \in Database /\ copy.facts = db.facts /\ copy.records = db.records
      /\ copy.genuine = db.genuine
  BY SnapshotOf
<1>3. db.genuine \/ unvouched
  BY DEF IInv, CurrentIsUsable
<1>4. "register" \in PCs
  BY DEF PCs
<1> HIDE DEF copy
<1>5. QED
  BY <1>1, <1>2, <1>3, <1>4, Vacuums

LEMMA SnapshotFailing ==
    ASSUME IInv, SnapshotFails, UNCHANGED startVars
    PROVE  IInv'
<1> DEFINE copy == [NoDatabase EXCEPT !.sound = FALSE]
<1>1. /\ svc.pc = "snapshot" /\ Goto("failCreate")
      /\ UNCHANGED <<db, made, crashes, written, late, cut, displaced, unvouched>>
      /\ \/ UNCHANGED files
         \/ files' = [files EXCEPT ![svc.id] =
              [present |-> TRUE, altered |-> FALSE, copy |-> copy]]
  BY DEF SnapshotFails
<1>2. "failCreate" \in PCs
  BY DEF PCs
<1>3. /\ copy \in Database /\ copy.genuine
      /\ \A c \in Backups : copy.records[c] = "ABSENT"
  BY NoDatabaseFacts DEF Database
<1> HIDE DEF copy
<1>4. CASE files' = [files EXCEPT ![svc.id] =
              [present |-> TRUE, altered |-> FALSE, copy |-> copy]]
  BY <1>1, <1>2, <1>3, <1>4, Vacuums
<1>5. CASE UNCHANGED files
  <2> USE DEF IInv
  <2>1. /\ svc' \in Service /\ svc'.pc = "failCreate" /\ svc'.id = svc.id
        /\ svc'.restoring = svc.restoring /\ svc'.tmp = svc.tmp
    BY <1>1, <1>2, GoesTo
  <2>2. PhaseInv' /\ HandInv' /\ TmpInv' /\ SourceInv'
    BY <1>1, <2>1 DEF PhaseInv, HandInv, TmpInv, SourceInv, startVars
  <2>3. made \in Nat /\ made' \in made..MaxBackups /\ svc'.id <= made'
    BY <1>1, <2>1, SvcFacts, BackupAssumption
       DEF TypeOK, ServiceTypeOK, BackupAssumption, NewInv
  <2>4. /\ crashes' \in 0..MaxCrashes /\ cut' = cut /\ cut \in SUBSET Backups
        /\ app' = app /\ app' \in App /\ unvouched' = unvouched
        /\ unvouched \in BOOLEAN
        /\ app'.phase = "running" => db.schema = level
        /\ UNCHANGED <<level, lastRun, snaps, unsaved>>
    BY <1>1 DEF TypeOK, ServiceTypeOK, CurrentIsUsable, startVars
  <2>5. QED
    BY <1>1, <1>5, <2>1, <2>2, <2>3, <2>4, Moves
<1>6. QED
  BY <1>1, <1>4, <1>5

\* The snapshot of a start, which was read back.
LEMMA TakesSnapshot ==
    ASSUME IInv, TakeSnapshot
    PROVE  IInv'
<1> USE DEF IInv
<1> DEFINE b == made + 1
           new == [present |-> TRUE, altered |-> FALSE, copy |-> db]
<1>1. /\ app.phase = "snapshot" /\ made < MaxBackups /\ made' = b
      /\ files' = [files EXCEPT ![b] = new]
      /\ snaps' = snaps \union {b}
      /\ app' = [app EXCEPT !.phase = "register", !.snap = b]
      /\ UNCHANGED <<db, svc, crashes, written, late, cut, displaced, level,
                     lastRun, unsaved, unvouched>>
  BY DEF TakeSnapshot
<1>2. svc.pc = "idle"
  BY <1>1 DEF PhaseInv
<1>3. /\ made \in Nat /\ b \in Backups /\ b \in 0..MaxBackups /\ b > made
      /\ b \in Nat /\ 0 <= b
  BY <1>1, SvcFacts, BackupAssumption DEF Backups, BackupAssumption
<1>4. Unheard(b)
  BY <1>3 DEF NewInv
<1>5. /\ new \in File /\ new.present = TRUE /\ new.copy = db
      /\ db.genuine \/ unvouched
  BY DEF File, TypeOK, ServiceTypeOK, CurrentIsUsable
<1> HIDE DEF new, b
<1>6. /\ app' \in App /\ app'.phase = "register" /\ app'.snap = b
  BY <1>1, <1>3 DEF TypeOK, App, Phases
<1>7. /\ files' \in [Backups -> File] /\ files'[b] = new
      /\ \A c \in Backups \ {b} : files'[c] = files[c]
      /\ \A c \in Backups : Kept(c) => Kept(c)' /\ files'[c] = files[c]
      /\ \A c \in Backups \ {b} : Unheard(c) => Unheard(c)'
      /\ ReadInv' /\ GenuineInv' /\ CurrentIsUsable' /\ NothingLostByRestore'
  BY <1>1, <1>3, <1>4, <1>5, <1>6, WritesFile
<1>8. TypeOK'
  BY <1>1, <1>3, <1>6, <1>7 DEF TypeOK, ServiceTypeOK
<1>9. NewInv'
  <2>1. svc.id = 0 /\ b \in Nat /\ 0 <= b
    BY <1>2, <1>3, IdleFacts DEF PhaseInv
  <2>2. ASSUME NEW c \in Backups, c > b
        PROVE  Unheard(c)'
    <3>1. c > made /\ c # b
      BY <1>3, <2>1, <2>2 DEF Backups
    <3>2. QED
      BY <1>7, <3>1 DEF NewInv
  <2>3. QED
    BY <1>1, <1>2, <2>1, <2>2 DEF NewInv
<1>10. PhaseInv' /\ TmpInv' /\ SourceInv' /\ HandInv'
  BY <1>1, <1>2, IdleFacts DEF PhaseInv, TmpInv, SourceInv, HandInv
<1>11. SnapInv'
  BY <1>1, <1>5, <1>6, <1>7 DEF SnapInv, Kept, CurrentIsUsable
<1>12. UnlistedIsExplained'
  BY <1>1, <1>2, <1>7 DEF UnlistedIsExplained
<1>13. QED
  BY <1>7, <1>8, <1>9, <1>10, <1>11, <1>12

-----------------------------------------------------------------------------
(***************************************************************************)
(* Steps that write the database                                           *)
(***************************************************************************)

\* The facts of the replaced database are in its safety backup or came late,
\* or, in safe mode, are in the snapshot of the start or given up.
LEMMA Replaces ==
    ASSUME IInv, Replace,
           UNCHANGED <<level, lastRun, snaps>>,
           \/ /\ app.phase # "dialog" /\ UNCHANGED <<app, unsaved>>
           \/ /\ app.phase = "dialog" /\ app' = At("closed")
              /\ unsaved' = unsaved \union
                   {x \in db.facts : app.snap = 0 \/ x \notin files[app.snap].copy.facts}
    PROVE  IInv'
<1> USE DEF IInv
<1>1. /\ svc.pc = "replace" /\ db' = svc.tmp
      /\ displaced' = displaced \union
           {b \in Backups \ {svc.id} : /\ db.records[b] # "ABSENT"
                                       /\ svc.tmp.records[b] = "ABSENT"}
      /\ UNCHANGED <<files, made, crashes, written, late, cut, unvouched>>
  BY DEF Replace
<1>2. "reRegister" \in PCs /\ "closed" \in Phases
  BY DEF PCs, Phases
<1>3. /\ svc' \in Service
      /\ IF svc.id = 0 THEN svc' = Idle
         ELSE /\ svc'.pc = "reRegister" /\ svc'.id = svc.id
              /\ svc'.restoring = svc.restoring /\ svc'.tmp = svc.tmp
  BY <1>2, GoesTo, IdleFacts DEF Replace
<1>4. /\ app' \in App
      /\ app'.phase = "running" => app' = app
      /\ app'.snap = 0 \/ app' = app
  BY <1>2, AtFacts DEF TypeOK
<1>5. /\ db'.sound /\ db'.schema = db.schema
      /\ db'.genuine \/ unvouched
      /\ db' \in Database
  BY <1>1, SvcFacts DEF TmpInv
<1>6. unsaved' \in SUBSET Facts /\ unsaved \subseteq unsaved'
  BY DbFacts DEF TypeOK, ServiceTypeOK
<1>7. TypeOK'
  <2>1. displaced' \in SUBSET Backups
    BY <1>1 DEF TypeOK, ServiceTypeOK
  <2>2. ServiceTypeOK'
    BY <1>1, <1>3, <1>5, <2>1 DEF TypeOK, ServiceTypeOK
  <2>3. QED
    BY <1>4, <1>6, <2>2 DEF TypeOK
<1>8. NewInv'
  <2>1. \A b \in Backups : Unheard(b) => Unheard(b)'
    BY <1>1, <1>3, IdleFacts, NoDatabaseFacts DEF Unheard
  <2>2. svc'.id <= made /\ svc'.pc # "snapshot"
    <3>1. 0 <= made
      BY SvcFacts
    <3>2. QED
      BY <1>3, <3>1, IdleFacts DEF NewInv
  <2>3. QED
    BY <1>1, <2>1, <2>2 DEF NewInv
<1>9. ReadInv'
  BY <1>1, <1>3, IdleFacts, NoDatabaseFacts DEF ReadInv, Reads, Kept
<1>10. PhaseInv'
  <2>1. CASE app.phase = "dialog"
    BY <1>1, <1>3, <2>1, IdleFacts DEF PhaseInv
  <2>2. CASE app.phase # "dialog"
    BY <1>1, <1>3, <2>2 DEF PhaseInv
  <2>3. QED
    BY <2>1, <2>2
<1>11. HandInv'
  BY <1>1, <1>3, IdleFacts DEF HandInv, Kept
<1>12. TmpInv' /\ SourceInv'
  BY <1>3, IdleFacts DEF TmpInv, SourceInv
<1>13. SnapInv' /\ GenuineInv'
  BY <1>1, <1>4, <1>5 DEF SnapInv, GenuineInv, Kept
<1>14. CurrentIsUsable'
  BY <1>1, <1>4, <1>5 DEF CurrentIsUsable
<1>15. NothingLostByRestore'
  <2> SUFFICES ASSUME NEW x \in written
               PROVE  \/ x \in db'.facts \union late \union unsaved'
                      \/ \E b \in Backups : /\ files[b].present
                                            /\ files[b].copy.sound
                                            /\ x \in files[b].copy.facts
    BY <1>1 DEF NothingLostByRestore
  <2>1. CASE x \notin db.facts
    BY <1>6, <2>1 DEF NothingLostByRestore
  <2>2. CASE x \in db.facts /\ app.phase = "dialog"
    <3>1. CASE x \in unsaved'
      BY <3>1
    <3>2. CASE app.snap # 0 /\ x \in files[app.snap].copy.facts
      <4>1. app.snap \in Backups /\ Kept(app.snap)
        BY <3>2 DEF SnapInv, TypeOK, App
      <4>2. QED
        BY <3>2, <4>1 DEF Kept
    <3>3. QED
      BY <2>2, <3>1, <3>2
  <2>3. CASE x \in db.facts /\ app.phase # "dialog"
    <3>1. svc.id # 0 /\ svc.restoring /\ svc.id \in Backups
      BY <1>1, <2>3, SvcFacts DEF PhaseInv
    <3>2. Kept(svc.id) /\ db.facts \subseteq files[svc.id].copy.facts \union late
      BY <1>1, <3>1 DEF HandInv
    <3>3. QED
      BY <2>3, <3>1, <3>2 DEF Kept
  <2>4. QED
    BY <2>1, <2>2, <2>3
<1>16. UnlistedIsExplained'
  <2> SUFFICES ASSUME NEW b \in Backups, files[b].present, db'.records[b] = "ABSENT"
               PROVE  \/ svc'.pc # "idle" /\ svc'.id = b
                      \/ b \in cut \union displaced' \union snaps
    BY <1>1 DEF UnlistedIsExplained
  <2>1. b # 0
    BY DEF Backups
  <2>2. CASE b = svc.id
    BY <1>3, <2>1, <2>2
  <2>3. CASE b # svc.id /\ db.records[b] = "ABSENT"
    BY <1>1, <2>3 DEF UnlistedIsExplained
  <2>4. CASE b # svc.id /\ db.records[b] # "ABSENT"
    BY <1>1, <2>4
  <2>5. QED
    BY <2>2, <2>3, <2>4
<1>17. QED
  BY <1>7, <1>8, <1>9, <1>10, <1>11, <1>12, <1>13, <1>14, <1>15, <1>16

\* Facts are added and the schema goes up; the rest of the database stays.
LEMMA WritesDatabase ==
    ASSUME IInv, db' \in Database, db.facts \subseteq db'.facts,
           db'.records = db.records, db'.sound = db.sound, db'.genuine = db.genuine,
           db'.schema <= level, db'.schema \in Nat,
           db'.schema = db.schema \/ (svc.pc = "idle" /\ app'.moved),
           app' \in App, app'.phase = app.phase, app'.snap = app.snap,
           app'.moved = app.moved \/ app'.moved,
           app.phase = "running" => db'.schema = level,
           written' \in SUBSET Facts,
           written' \subseteq written \union db'.facts \union late',
           late \subseteq late', late' \in SUBSET Facts,
           Exposed => db'.facts \ db.facts \subseteq late',
           UNCHANGED <<files, svc, made, crashes, cut, displaced, level, lastRun,
                       snaps, unsaved, unvouched>>
    PROVE  IInv'
<1> USE DEF IInv
<1>1. TypeOK'
  BY DEF TypeOK, ServiceTypeOK
<1>2. NewInv' /\ ReadInv' /\ PhaseInv' /\ GenuineInv'
  <2>1. NewInv'
    BY DEF NewInv, Unheard
  <2>2. \A records : Reads(records) => Reads(records)'
    BY DEF Reads, Kept
  <2>3. ReadInv'
    BY <2>2 DEF ReadInv, Kept
  <2>4. PhaseInv' /\ GenuineInv'
    BY DEF PhaseInv, GenuineInv, Kept
  <2>5. QED
    BY <2>1, <2>3, <2>4
<1>3. HandInv'
  BY DEF HandInv, Kept, Exposed
<1>4. TmpInv' /\ SourceInv'
  BY DEF TmpInv, SourceInv
<1>5. SnapInv'
  BY DEF SnapInv, Kept
<1>6. CurrentIsUsable'
  BY DEF CurrentIsUsable
<1>7. NothingLostByRestore'
  BY DEF NothingLostByRestore
<1>8. UnlistedIsExplained'
  BY DEF UnlistedIsExplained
<1>9. QED
  BY <1>1, <1>2, <1>3, <1>4, <1>5, <1>6, <1>7, <1>8

LEMMA Commits ==
    ASSUME IInv, NEW x \in Facts, Commit(x) \/ CommitToReplaced(x),
           UNCHANGED startVars
    PROVE  IInv'
<1> USE DEF IInv
<1>1. /\ app \in App /\ db \in Database /\ db.schema \in Nat /\ db.schema <= level
      /\ app.phase = "running" => db.schema = level
      /\ written \in SUBSET Facts /\ late \in SUBSET Facts
      /\ db.facts \in SUBSET Facts
  BY DbFacts, BackupAssumption
     DEF TypeOK, ServiceTypeOK, CurrentIsUsable, Schemas, BackupAssumption
<1>2. UNCHANGED <<app, level, lastRun, snaps, unsaved>>
  BY DEF startVars
<1>3. CASE Commit(x)
  <2>1. /\ db' = [db EXCEPT !.facts = db.facts \union {x}]
        /\ written' = written \union {x}
        /\ late' = IF Exposed THEN late \union {x} ELSE late
        /\ UNCHANGED <<files, svc, made, crashes, cut, displaced, unvouched>>
    BY <1>3 DEF Commit
  <2>2. /\ db' \in Database /\ db'.facts = db.facts \union {x}
        /\ db'.records = db.records /\ db'.sound = db.sound
        /\ db'.genuine = db.genuine /\ db'.schema = db.schema
    BY <1>1, <2>1 DEF Database
  <2>3. /\ late \subseteq late' /\ late' \in SUBSET Facts
        /\ Exposed => db'.facts \ db.facts \subseteq late'
    BY <1>1, <2>1, <2>2
  <2>4. /\ written' \in SUBSET Facts
        /\ written' \subseteq written \union db'.facts \union late'
        /\ db.facts \subseteq db'.facts
    BY <1>1, <2>1, <2>2
  <2>5. QED
    BY <1>1, <1>2, <2>1, <2>2, <2>3, <2>4, WritesDatabase
<1>4. CASE CommitToReplaced(x)
  <2>1. /\ written' = written \union {x} /\ late' = late \union {x}
        /\ UNCHANGED <<db, files, svc, made, crashes, cut, displaced, unvouched>>
    BY <1>4 DEF CommitToReplaced
  <2>2. QED
    BY <1>1, <1>2, <2>1, WritesDatabase
<1>5. QED
  BY <1>3, <1>4

LEMMA Migrates ==
    ASSUME IInv, MigrateOne
    PROVE  IInv'
<1> USE DEF IInv
<1>1. /\ app.phase = "migrate" /\ db.schema < level
      /\ db' = [db EXCEPT !.schema = db.schema + 1]
      /\ app' = [app EXCEPT !.moved = TRUE]
      /\ UNCHANGED <<files, svc, made, crashes, written, late, cut, displaced,
                     level, lastRun, snaps, unsaved, unvouched>>
  BY DEF MigrateOne
<1>2. /\ app \in App /\ db \in Database /\ db.schema \in Schemas /\ level \in Schemas
      /\ written \in SUBSET Facts /\ late \in SUBSET Facts
  BY DbFacts DEF TypeOK, ServiceTypeOK
<1>3. /\ db.schema + 1 \in Schemas /\ db.schema + 1 <= level /\ db.schema + 1 \in Nat
  BY <1>1, <1>2, BackupAssumption DEF Schemas, BackupAssumption
<1>4. /\ db' \in Database /\ db'.facts = db.facts /\ db'.records = db.records
      /\ db'.sound = db.sound /\ db'.genuine = db.genuine
      /\ db'.schema = db.schema + 1
  BY <1>1, <1>2, <1>3 DEF Database
<1>5. /\ app' \in App /\ app'.phase = app.phase /\ app'.snap = app.snap
      /\ app'.moved = TRUE
  BY <1>1, <1>2 DEF App
<1>6. svc.pc = "idle" /\ ~Exposed
  BY <1>1 DEF PhaseInv, Exposed
<1>7. QED
  BY <1>1, <1>2, <1>3, <1>4, <1>5, <1>6, WritesDatabase

LEMMA Damages ==
    ASSUME IInv, NEW b \in Backups, Alter(b), UNCHANGED startVars
    PROVE  IInv'
<1> USE DEF IInv
<1>1. /\ files' = [files EXCEPT ![b] = [files[b] EXCEPT !.altered = TRUE]]
      /\ UNCHANGED <<db, svc, made, crashes, written, late, cut, displaced>>
      /\ unvouched' = (unvouched \/ (svc.pc = "copy" /\ svc.source = b))
  BY DEF Alter
<1>2. /\ UNCHANGED <<app, level, lastRun, snaps, unsaved>>
      /\ unvouched \in BOOLEAN /\ unvouched' \in BOOLEAN /\ (unvouched => unvouched')
  BY <1>1 DEF startVars, TypeOK, ServiceTypeOK
<1>3. /\ [files[b] EXCEPT !.altered = TRUE] \in File
      /\ [files[b] EXCEPT !.altered = TRUE].present = files[b].present
      /\ [files[b] EXCEPT !.altered = TRUE].copy = files[b].copy
  BY FileFacts DEF File
<1>4. /\ files' \in [Backups -> File]
      /\ \A c \in Backups : /\ files'[c].present = files[c].present
                            /\ files'[c].copy = files[c].copy
  BY <1>1, <1>3 DEF TypeOK, ServiceTypeOK
<1>5. TypeOK'
  BY <1>1, <1>2, <1>4 DEF TypeOK, ServiceTypeOK
<1>6. \A c \in Backups : Kept(c)' = Kept(c) /\ Unheard(c)' = Unheard(c)
  BY <1>1, <1>4 DEF Kept, Unheard
<1>7. NewInv'
  BY <1>1, <1>6, InHand DEF NewInv
<1>8. ReadInv' /\ GenuineInv'
  BY <1>1, <1>2, <1>4, <1>6 DEF ReadInv, Reads, GenuineInv
<1>9. PhaseInv' /\ TmpInv'
  BY <1>1, <1>2 DEF PhaseInv, TmpInv
<1>10. HandInv'
  <2>1. svc.id # 0 => svc.id \in Backups
    BY SvcFacts
  <2>2. QED
    BY <1>1, <1>4, <1>6, <2>1 DEF HandInv
<1>11. SnapInv'
  <2>1. app.snap # 0 => app.snap \in Backups
    BY DEF TypeOK, App
  <2>2. QED
    BY <1>1, <1>2, <1>4, <1>6, <2>1 DEF SnapInv
<1>12. CurrentIsUsable'
  BY <1>1, <1>2 DEF CurrentIsUsable
<1>13. NothingLostByRestore' /\ UnlistedIsExplained'
  BY <1>1, <1>2, <1>4 DEF NothingLostByRestore, UnlistedIsExplained
<1>14. SourceInv'
  <2> SUFFICES ASSUME svc.pc = "copy", files'[svc.source].altered
               PROVE  /\ svc.source \in Backups
                      /\ db.records[svc.source] = "ABSENT" \/ unvouched'
    BY <1>1 DEF SourceInv
  <2>1. svc.source \in Backups
    BY DEF SourceInv
  <2>2. CASE svc.source = b
    BY <1>1, <2>1, <2>2
  <2>3. CASE svc.source # b
    <3>1. files'[svc.source] = files[svc.source]
      BY <1>1, <2>1, <2>3 DEF TypeOK, ServiceTypeOK
    <3>2. QED
      BY <1>1, <1>2, <2>1, <3>1 DEF SourceInv
  <2>4. QED
    BY <2>2, <2>3
<1>15. QED
  BY <1>5, <1>7, <1>8, <1>9, <1>10, <1>11, <1>12, <1>13, <1>14

-----------------------------------------------------------------------------
(***************************************************************************)
(* The specification                                                       *)
(***************************************************************************)

LEMMA Serves ==
    ASSUME IInv, ServiceStep, app.phase # "dialog", UNCHANGED startVars
    PROVE  IInv'
<1>1. UNCHANGED <<app, level, lastRun, snaps, unsaved>>
  BY DEF startVars
<1>2. CASE \E sound \in BOOLEAN : Snapshot(sound)
  BY <1>2, Snapshots
<1>3. CASE SnapshotFails
  BY <1>3, SnapshotFailing
<1>4. CASE Register
  BY <1>4, Registers
<1>5. CASE Verify
  BY <1>5, Verifies
<1>6. CASE MarkVerified
  BY <1>6, MarksVerified
<1>7. CASE FailCreate
  BY <1>7, FailsToCreate
<1>8. CASE FailMark
  BY <1>8, MarksFailed
<1>9. CASE Replace
  BY <1>1, <1>9, Replaces
<1>10. CASE ReplaceFails
  BY <1>10, ReplacementFails
<1>11. CASE ReRegister
  BY <1>11, ReRegisters
<1>12. CASE Copy
  BY <1>12, Copies
<1>13. CASE CopyFails
  BY <1>13, CopyFailing
<1>14. CASE RecordFails
  BY <1>14, RecordFailing
<1>15. QED
  BY <1>2, <1>3, <1>4, <1>5, <1>6, <1>7, <1>8, <1>9, <1>10, <1>11, <1>12, <1>13,
     <1>14 DEF ServiceStep

LEMMA StepKeeps ==
    ASSUME IInv, [Next]_vars
    PROVE  IInv'
<1>1. CASE \/ \E v \in Schemas : Install(v)
           \/ Launch \/ NoSnapshot \/ UpgradeBackupEnds \/ MigrateFails
           \/ Opened \/ ContinueReadOnly \/ Close
  BY <1>1, Starting
<1>2. CASE TakeSnapshot
  BY <1>2, TakesSnapshot
<1>3. CASE UpgradeBackup
  <2>1. /\ StartBackup /\ app' = [app EXCEPT !.phase = "upgradeBackup"]
        /\ UNCHANGED <<level, lastRun, snaps, unsaved>>
    BY <1>3 DEF UpgradeBackup
  <2>2. /\ app' \in App /\ app'.phase = "upgradeBackup"
        /\ app'.snap = app.snap /\ app'.moved = app.moved
    BY <2>1 DEF IInv, TypeOK, App, Phases
  <2>3. QED
    BY <2>1, <2>2, StartsBackup
<1>4. CASE MigrateOne
  BY <1>4, Migrates
<1>5. CASE \E b \in Backups : RestoreInSafeMode(b)
  BY <1>5, RestoresInSafeMode
<1>6. CASE ReplaceInSafeMode
  BY <1>6, Replaces DEF ReplaceInSafeMode
<1>7. CASE ReplaceFailsInSafeMode
  BY <1>7, ReplacementFails DEF ReplaceFailsInSafeMode
<1>8. CASE Backup
  <2>1. /\ app.phase = "running" /\ UNCHANGED startVars
        /\ UNCHANGED <<app, level, lastRun, snaps, unsaved>>
        /\ app' \in App
    BY <1>8 DEF Backup, startVars, IInv, TypeOK
  <2>2. CASE StartBackup
    BY <2>1, <2>2, StartsBackup
  <2>3. CASE \E b \in Backups : StartRestore(b)
    BY <2>1, <2>3, StartsRestore
  <2>4. QED
    BY <1>8, <2>2, <2>3 DEF Backup
<1>9. CASE UpgradeStep
  BY <1>9, Serves DEF UpgradeStep
<1>10. CASE OthersWrite
  BY <1>10, Commits DEF OthersWrite
<1>11. CASE Damage
  BY <1>11, Damages DEF Damage
<1>12. CASE Crash
  BY <1>12, Crashes
<1>13. CASE UNCHANGED vars
  <2>1. /\ UNCHANGED <<serviceVars, app, level, lastRun, snaps, unsaved>>
        /\ app' \in App /\ level' \in Schemas /\ lastRun' \in Schemas
        /\ app'.phase = "running" => db.schema = level'
        /\ level <= level'
    BY <1>13, BackupAssumption
       DEF vars, startVars, IInv, TypeOK, CurrentIsUsable, Schemas, BackupAssumption
  <2>2. QED
    BY <2>1, OnlyApp
<1>14. CASE CopyInSafeMode
  BY <1>14, Copies, CopyFailing DEF CopyInSafeMode
<1>15. QED
  BY <1>1, <1>2, <1>3, <1>4, <1>5, <1>6, <1>7, <1>8, <1>9, <1>10, <1>11, <1>12,
     <1>13, <1>14 DEF Next

\* The inductive invariant holds from the end of the first start on.
THEOREM Invariance == Spec => []IInv
<1>1. Init => IInv
  <2> SUFFICES ASSUME Init PROVE IInv
    OBVIOUS
  <2>1. /\ db = NoDatabase /\ svc = Idle /\ made = 0 /\ crashes = 0 /\ written = {}
        /\ late = {} /\ cut = {} /\ displaced = {} /\ app = At("running")
        /\ level = 0 /\ lastRun = 0 /\ snaps = {} /\ unsaved = {}
        /\ unvouched = FALSE
        /\ files = [b \in Backups |->
              [present |-> FALSE, altered |-> FALSE, copy |-> NoDatabase]]
    BY DEF Init, ServiceInit
  <2>2. \A b \in Backups : ~files[b].present /\ files[b].copy = NoDatabase
    BY <2>1
  <2>3. "running" \in Phases /\ 0 \in Schemas /\ 0 \in 0..MaxBackups
        /\ 0 \in 0..MaxCrashes
    BY BackupAssumption DEF Phases, Schemas, BackupAssumption
  <2>4. TypeOK
    <3>1. files \in [Backups -> File]
      BY <2>1, NoDatabaseFacts DEF File
    <3>2. QED
      BY <2>1, <2>3, <3>1, NoDatabaseFacts, IdleFacts, AtFacts
         DEF TypeOK, ServiceTypeOK
  <2>5. NewInv
    BY <2>1, <2>2, NoDatabaseFacts, IdleFacts DEF NewInv, Unheard
  <2>6. ReadInv /\ GenuineInv
    BY <2>1, <2>2, NoDatabaseFacts, IdleFacts DEF ReadInv, Reads, GenuineInv
  <2>7. PhaseInv /\ HandInv /\ TmpInv /\ SourceInv
    BY <2>1, IdleFacts DEF PhaseInv, HandInv, TmpInv, SourceInv
  <2>8. SnapInv
    BY <2>1, <2>3, AtFacts DEF SnapInv
  <2>9. CurrentIsUsable
    BY <2>1, <2>3, NoDatabaseFacts DEF CurrentIsUsable
  <2>10. NothingLostByRestore /\ UnlistedIsExplained
    BY <2>1, <2>2 DEF NothingLostByRestore, UnlistedIsExplained
  <2>11. QED
    BY <2>4, <2>5, <2>6, <2>7, <2>8, <2>9, <2>10 DEF IInv
<1>2. IInv /\ [Next]_vars => IInv'
  BY StepKeeps
<1>3. QED
  BY <1>1, <1>2, PTL DEF Spec

\* Every variable keeps its type.
THEOREM StartUpTypeCorrect == Spec => []TypeOK
<1>1. IInv => TypeOK
  BY DEF IInv
<1>2. QED
  BY <1>1, Invariance, PTL

\* A backup listed as VERIFIED has a file that was read back, in whatever
\* database the list is in.
THEOREM VerdictsHold == Spec => []VerifiedIsReadable
<1>1. IInv => VerifiedIsReadable
  BY DEF IInv, ReadInv, Reads, Kept, VerifiedIsReadable
<1>2. QED
  BY <1>1, Invariance, PTL

\* The program never opens a database that is unreadable or of another schema
\* than its own, nor one that it did not write, unless a restore took a file
\* that was altered after it was hashed or, in safe mode, one without a record.
THEOREM DatabaseUsable == Spec => []CurrentIsUsable
<1>1. IInv => CurrentIsUsable
  BY DEF IInv
<1>2. QED
  BY <1>1, Invariance, PTL

\* Whatever is restored, no fact is lost but those that came while it was
\* replaced or that safe mode gave up.
THEOREM NothingIsLost == Spec => []NothingLostByRestore
<1>1. IInv => NothingLostByRestore
  BY DEF IInv
<1>2. QED
  BY <1>1, Invariance, PTL

\* Each backup file without a record has its reason, failed writes to
\* backup_record among them.
THEOREM UnlistedExplained == Spec => []UnlistedIsExplained
<1>1. IInv => UnlistedIsExplained
  BY DEF IInv
<1>2. QED
  BY <1>1, Invariance, PTL

\* The start-up snapshot can be put back by safe mode, unless it was altered
\* or a revision had been committed since.
THEOREM SnapshotHelps == Spec => []SnapshotIsWayBack
<1>1. IInv => SnapshotIsWayBack
  BY DEF IInv, SnapInv, Kept, SnapshotIsWayBack, Readable
<1>2. QED
  BY <1>1, Invariance, PTL

-----------------------------------------------------------------------------
(***************************************************************************)
(* The daily backup.  EachDayOnce is not inductive: that a day is not      *)
(* backed up twice hangs on the note, and the note is overwritten, kept or *)
(* spoilt by faults. NotedInv says what the note and the last check that   *)
(* was due tell about each day that is not excused.                        *)
(***************************************************************************)

Noting == pc \in {"noting", "backup"}

NotedInv ==
    /\ at <= clock
    /\ noted # Missing => noted <= clock
    /\ \A d \in Days \ excused :
         /\ tries[d] = 1 =>
              \/ d < Day(at)
              \/ d = Day(at) /\ ~Noting /\ noted # Missing /\ Day(noted) = d
         /\ d > Day(at) => tries[d] = 0
         /\ pc = "backup" /\ d = Day(at) => noted = at
         /\ noted # Missing /\ Day(noted) = d =>
              tries[d] = 1 \/ (pc = "backup" /\ d = Day(at))

DailyIInv == DailyTypeOK /\ NotedInv /\ EachDayOnce

-----------------------------------------------------------------------------

LEMMA TimeFacts ==
    /\ Times \subseteq Nat /\ Days \subseteq Nat
    /\ \A t \in Nat : Day(t) \in Nat
    /\ \A t \in Times : Day(t) \in Days
    /\ Missing \in Nat /\ Missing \notin Times
    /\ \A t, u \in Nat : t <= u => Day(t) <= Day(u)
    /\ \A t, u \in Nat : u >= t + 2 => Day(u) > Day(t)
<1> USE DailyAssumption DEF DailyAssumption
<1>1. \A t \in Nat : Day(t) \in Nat
  BY DEF Day
<1>2. Times \subseteq Nat /\ Missing \in Nat /\ Missing \notin Times
  BY DEF Times, Missing
<1>3. Days \subseteq Nat /\ \A t \in Times : Day(t) \in Days
  BY <1>1, <1>2 DEF Days
<1>4. /\ \A t, u \in Nat : t <= u => Day(t) <= Day(u)
      /\ \A t, u \in Nat : u >= t + 2 => Day(u) > Day(t)
  BY DEF Day
<1>5. QED
  BY <1>1, <1>2, <1>3, <1>4

\* A check that finds a backup due is of a day without one.
LEMMA DailyCheckStep ==
    ASSUME DailyIInv, pc \in {"off", "waiting"}, Check,
           readonly' \in BOOLEAN, UNCHANGED <<clock, noted, faults, tries, excused>>
    PROVE  DailyIInv'
<1> USE DEF DailyIInv, DailyTypeOK
<1>1. DailyTypeOK'
  BY TimeFacts DEF Check, SchedulerPCs
<1>2. /\ Day(clock) \in Days /\ Days \subseteq Nat /\ Day(at) \in Days
      /\ Day(at) <= Day(clock) /\ ~Noting
      /\ clock \in Nat /\ at \in Nat /\ noted \in Nat /\ Day(noted) \in Nat
  BY TimeFacts DEF NotedInv, Noting
<1>3. ASSUME NEW d \in Days \ excused, Due(clock), d >= Day(clock)
      PROVE  /\ tries[d] = 0
             /\ ~(noted # Missing /\ Day(noted) = d)
  <2>1. noted # Missing => Day(noted) <= Day(clock)
    BY <1>2, TimeFacts DEF NotedInv
  <2>2. ~(noted # Missing /\ Day(noted) = Day(clock))
    <3>1. CASE Overdue(clock)
      BY <1>2, <3>1, TimeFacts DEF Overdue
    <3>2. CASE ~NotedToday(clock)
      BY <3>2 DEF NotedToday
    <3>3. QED
      BY <1>3, <3>1, <3>2 DEF Due
  <2>3. ~(noted # Missing /\ Day(noted) = d)
    <3>1. d \in Nat /\ Day(clock) \in Nat /\ Day(noted) \in Nat /\ d >= Day(clock)
      BY <1>2, <1>3
    <3>2. QED
      BY <2>1, <2>2, <3>1
  <2>4. tries[d] # 1
    <3>1. tries[d] = 1 => d < Day(at) \/ (noted # Missing /\ Day(noted) = d)
      BY <1>3 DEF NotedInv
    <3>2. d \in Nat /\ Day(clock) \in Nat /\ Day(at) \in Nat
          /\ Day(at) <= Day(clock) /\ d >= Day(clock)
      BY <1>2, <1>3
    <3>3. QED
      BY <2>3, <3>1, <3>2
  <2>5. tries[d] \in Nat /\ tries[d] <= 1
    BY <1>3, DailyAssumption DEF EachDayOnce, DailyAssumption
  <2>6. QED
    BY <2>3, <2>4, <2>5
<1>4. CASE Due(clock)
  <2>1. pc' = "noting" /\ at' = clock
    BY <1>4 DEF Check
  <2>2. NotedInv'
    <3> SUFFICES ASSUME NEW d \in Days \ excused
                 PROVE  /\ tries[d] = 1 => d < Day(clock)
                        /\ d > Day(clock) => tries[d] = 0
                        /\ noted # Missing /\ Day(noted) = d => tries[d] = 1
      BY <1>2, <2>1 DEF NotedInv, Noting
    <3> d \in Nat /\ Day(clock) \in Nat
      BY <1>2
    <3>1. tries[d] = 1 => d < Day(clock)
      BY <1>3, <1>4
    <3>2. d > Day(clock) => tries[d] = 0
      BY <1>3, <1>4
    <3>3. noted # Missing /\ Day(noted) = d => tries[d] = 1
      BY <1>2 DEF NotedInv, Noting
    <3>4. QED
      BY <3>1, <3>2, <3>3
  <2>3. EachDayOnce'
    BY <1>2, <2>1 DEF EachDayOnce, Check, Noting
  <2>4. QED
    BY <1>1, <2>2, <2>3
<1>5. CASE ~Due(clock)
  <2>1. pc' = "waiting" /\ at' = at
    BY <1>5 DEF Check
  <2>2. NotedInv'
    BY <1>2, <2>1 DEF NotedInv, Noting
  <2>3. AfterHour(clock) /\ Day(clock) \notin excused => tries[Day(clock)] = 1
    BY <1>2, <1>5 DEF Due, NotedToday, NotedInv, Noting
  <2>4. EachDayOnce'
    BY <1>2, <2>1, <2>3 DEF EachDayOnce, Check, Noting
  <2>5. QED
    BY <1>1, <2>2, <2>4
<1>6. QED
  BY <1>4, <1>5

LEMMA DailyNoteStep == ASSUME DailyIInv, Note PROVE DailyIInv'
<1> USE DEF DailyIInv, Note
<1>0. /\ Day(at) \in Nat /\ Days \subseteq Nat /\ at \in Nat /\ at # Missing
      /\ noted \in Nat /\ clock \in Nat
  BY TimeFacts DEF DailyTypeOK
<1>1. DailyTypeOK'
  BY DEF DailyTypeOK, SchedulerPCs
<1>2. NotedInv'
  <2> SUFFICES ASSUME NEW d \in Days \ excused'
               PROVE  /\ tries[d] = 1 =>
                           \/ d < Day(at)
                           \/ d = Day(at) /\ ~Noting' /\ noted' # Missing /\ Day(noted') = d
                      /\ d > Day(at) => tries[d] = 0
                      /\ pc' = "backup" /\ d = Day(at) => noted' = at
                      /\ noted' # Missing /\ Day(noted') = d =>
                           tries[d] = 1 \/ (pc' = "backup" /\ d = Day(at))
    BY <1>0 DEF NotedInv
  <2>1. d \in Nat /\ d \in Days \ excused
    BY <1>0
  <2>2. QED
    BY <1>0, <2>1 DEF NotedInv, Noting
<1>3. EachDayOnce'
  BY DEF EachDayOnce
<1>4. QED
  BY <1>1, <1>2, <1>3

\* A spoilt note excuses its day; other days with a backup lie before it.
LEMMA DailyNoteFailsStep == ASSUME DailyIInv, NoteFails PROVE DailyIInv'
<1> USE DEF DailyIInv, NoteFails
<1>0. /\ Day(at) \in Nat /\ Days \subseteq Nat /\ at \in Nat /\ at # Missing
      /\ noted \in Nat /\ clock \in Nat
  BY TimeFacts DEF DailyTypeOK
<1>1. DailyTypeOK'
  <2>1. faults' \in 0..MaxFaults
    BY DailyAssumption DEF DailyTypeOK, DailyAssumption
  <2>2. excused' \in SUBSET Days
    BY TimeFacts DEF DailyTypeOK
  <2>3. QED
    BY <2>1, <2>2 DEF DailyTypeOK, SchedulerPCs
<1>2. NotedInv'
  <2> SUFFICES ASSUME NEW d \in Days \ excused'
               PROVE  /\ tries[d] = 1 =>
                           \/ d < Day(at)
                           \/ d = Day(at) /\ ~Noting' /\ noted' # Missing /\ Day(noted') = d
                      /\ d > Day(at) => tries[d] = 0
                      /\ pc' = "backup" /\ d = Day(at) => noted' = at
                      /\ noted' # Missing /\ Day(noted') = d =>
                           tries[d] = 1 \/ (pc' = "backup" /\ d = Day(at))
    BY <1>0 DEF NotedInv
  <2>1. d \in Nat /\ d \in Days \ excused
    BY <1>0
  <2>2. QED
    BY <1>0, <2>1 DEF NotedInv, Noting
<1>3. EachDayOnce'
  BY DEF EachDayOnce
<1>4. QED
  BY <1>1, <1>2, <1>3

LEMMA DailyCrashStep == ASSUME DailyIInv, CrashInBackup PROVE DailyIInv'
<1> USE DEF DailyIInv, CrashInBackup
<1>0. /\ Day(at) \in Nat /\ Days \subseteq Nat /\ at \in Nat /\ at # Missing
      /\ noted \in Nat /\ clock \in Nat
  BY TimeFacts DEF DailyTypeOK
<1>1. DailyTypeOK'
  <2>1. faults' \in 0..MaxFaults
    BY DailyAssumption DEF DailyTypeOK, DailyAssumption
  <2>2. excused' \in SUBSET Days
    BY TimeFacts DEF DailyTypeOK
  <2>3. QED
    BY <2>1, <2>2 DEF DailyTypeOK, SchedulerPCs
<1>2. NotedInv'
  <2> SUFFICES ASSUME NEW d \in Days \ excused'
               PROVE  /\ tries[d] = 1 =>
                           \/ d < Day(at)
                           \/ d = Day(at) /\ ~Noting' /\ noted' # Missing /\ Day(noted') = d
                      /\ d > Day(at) => tries[d] = 0
                      /\ pc' = "backup" /\ d = Day(at) => noted' = at
                      /\ noted' # Missing /\ Day(noted') = d =>
                           tries[d] = 1 \/ (pc' = "backup" /\ d = Day(at))
    BY <1>0 DEF NotedInv
  <2>1. d \in Nat /\ d \in Days \ excused
    BY <1>0
  <2>2. QED
    BY <1>0, <2>1 DEF NotedInv, Noting
<1>3. EachDayOnce'
  BY DEF EachDayOnce
<1>4. QED
  BY <1>1, <1>2, <1>3

LEMMA DailyRunBackupStep == ASSUME DailyIInv, RunBackup PROVE DailyIInv'
<1> USE DEF DailyIInv, RunBackup
<1>1. /\ Day(at) \in Days /\ Day(at) \in Nat /\ Days \subseteq Nat
      /\ at \in Nat /\ noted \in Nat
      /\ tries \in [Days -> 0..MaxTries] /\ MaxTries \in Nat
      /\ at # Missing
  BY TimeFacts, DailyAssumption DEF DailyTypeOK, DailyAssumption
<1>2. CASE readonly
  <2>1. DailyTypeOK'
    BY <1>1, <1>2 DEF DailyTypeOK, SchedulerPCs
  <2>2. NotedInv'
    BY <1>1, <1>2 DEF NotedInv, Noting
  <2>3. EachDayOnce'
    BY <1>2 DEF EachDayOnce
  <2>4. QED
    BY <2>1, <2>2, <2>3
<1>3. CASE ~readonly
  <2>0. \A d \in Days : tries[d] \in Nat /\ tries[d] <= MaxTries
    BY <1>1
  <2>1. /\ tries' = [tries EXCEPT ![Day(at)] = @ + 1]
        /\ tries[Day(at)] < MaxTries /\ excused' = excused
    BY <1>3
  <2>2. /\ tries'[Day(at)] = tries[Day(at)] + 1
        /\ \A d \in Days \ {Day(at)} : tries'[d] = tries[d]
    BY <1>1, <2>1
  <2>3. DailyTypeOK'
    <3>1. tries[Day(at)] + 1 \in 0..MaxTries
      <4>1. tries[Day(at)] \in Nat /\ tries[Day(at)] < MaxTries /\ MaxTries \in Nat
        BY <1>1, <2>0, <2>1
      <4>2. QED
        BY <4>1
    <3>2. tries' \in [Days -> 0..MaxTries]
      BY <1>1, <2>1, <3>1
    <3>3. QED
      BY <2>1, <3>2 DEF DailyTypeOK, SchedulerPCs
  <2>4. Day(at) \notin excused => tries[Day(at)] = 0 /\ noted = at
    <3>1. tries[Day(at)] \in Nat
      BY <1>1, <2>0
    <3>2. ASSUME Day(at) \notin excused
          PROVE  tries[Day(at)] # 1 /\ tries[Day(at)] <= 1 /\ noted = at
      <4>1. Day(at) \in Days \ excused /\ ~(Day(at) < Day(at))
        BY <1>1, <3>2
      <4>2. tries[Day(at)] # 1 /\ noted = at
        BY <4>1 DEF NotedInv, Noting
      <4>3. tries[Day(at)] <= 1
        BY <4>1 DEF EachDayOnce
      <4>4. QED
        BY <4>2, <4>3
    <3>3. QED
      BY <3>1, <3>2
  <2>5. NotedInv'
    BY <1>1, <2>1, <2>2, <2>4 DEF NotedInv, Noting
  <2>6. EachDayOnce'
    BY <1>1, <2>1, <2>2, <2>4 DEF EachDayOnce
  <2>7. QED
    BY <2>3, <2>5, <2>6
<1>4. QED
  BY <1>2, <1>3

LEMMA DailyStarts == DailyInit => DailyIInv
<1> SUFFICES ASSUME DailyInit PROVE DailyIInv
  OBVIOUS
<1> USE DailyAssumption, TimeFacts DEF DailyAssumption, DailyInit
<1>1. DailyTypeOK
  <2>1. 0 \in Times /\ 0 \in 0..MaxFaults /\ 0 \in 0..MaxTries
    BY DEF Times
  <2>2. tries \in [Days -> 0..MaxTries]
    BY <2>1
  <2>3. QED
    BY <2>1, <2>2 DEF DailyTypeOK, SchedulerPCs
<1>2. NotedInv
  BY DEF NotedInv
<1>3. EachDayOnce
  BY DEF EachDayOnce
<1>4. QED
  BY <1>1, <1>2, <1>3 DEF DailyIInv

LEMMA DailyStep == DailyIInv /\ [DailyNext]_dailyVars => DailyIInv'
<1> SUFFICES ASSUME DailyIInv, [DailyNext]_dailyVars PROVE DailyIInv'
  OBVIOUS
<1>1. CASE UNCHANGED dailyVars
  BY <1>1 DEF dailyVars, DailyIInv, DailyTypeOK, NotedInv, EachDayOnce, Noting
<1>2. CASE TimePasses
  <2>1. DailyTypeOK'
    BY <1>2, DailyAssumption
    DEF TimePasses, DailyIInv, DailyTypeOK, Times, DailyAssumption
  <2>2. clock' = clock + 1 /\ clock \in Nat /\ at \in Nat /\ noted \in Nat
    BY <1>2, TimeFacts DEF TimePasses, DailyIInv, DailyTypeOK
  <2>3. NotedInv' /\ EachDayOnce'
    BY <1>2, <2>2 DEF TimePasses, DailyIInv, NotedInv, EachDayOnce, Noting
  <2>4. QED
    BY <2>1, <2>3 DEF DailyIInv
<1>3. CASE QuitProgram
  BY <1>3
  DEF QuitProgram, DailyIInv, DailyTypeOK, NotedInv, EachDayOnce, Noting, SchedulerPCs
<1>4. CASE TimerTick
  BY <1>4, DailyCheckStep DEF TimerTick, DailyIInv, DailyTypeOK
<1>5. ASSUME NEW safe \in BOOLEAN, StartProgram(safe)
      PROVE  DailyIInv'
  BY <1>5, DailyCheckStep DEF StartProgram
<1>6. QED
  BY <1>1, <1>2, <1>3, <1>4, <1>5, DailyNoteStep, DailyNoteFailsStep, DailyRunBackupStep, DailyCrashStep
  DEF DailyNext

-----------------------------------------------------------------------------

\* auto_backup_scheduler.py: times, notes and counts stay in range.
THEOREM DailyTypeCorrect == DailySpec => []DailyTypeOK
<1>1. DailyIInv => DailyTypeOK
  BY DEF DailyIInv
<1>2. QED
  BY DailyStarts, DailyStep, <1>1, PTL DEF DailySpec

\* check_and_backup: each day on which the scheduler looked after the hour is
\* backed up, and none twice, but for the days excused.
THEOREM OneBackupADay == DailySpec => []EachDayOnce
<1>1. DailyIInv => EachDayOnce
  BY DEF DailyIInv
<1>2. QED
  BY DailyStarts, DailyStep, <1>1, PTL DEF DailySpec
=============================================================================
