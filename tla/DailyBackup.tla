---------------------------- MODULE DailyBackup ----------------------------
(***************************************************************************)
(* AutoBackupScheduler: a timer of the workbench's UI thread that makes a  *)
(* backup once a day, and the file last_auto_backup.json in which it notes *)
(* the day.  The backup itself is BackupRestore's.                         *)
(*                                                                         *)
(* A day has two halves, before and after backup_hour, so 24 hours are two *)
(* units of time.  The program runs in one mode from its start to its end; *)
(* read-only, its scheduler is given a callback that does nothing.         *)
(***************************************************************************)
EXTENDS Naturals

CONSTANTS
    LastTime,    \* bound: half days that pass
    MaxFaults,   \* bound: state files that cannot be written, and crashes
    MaxTries     \* bound: backups of one day

ASSUME DailyAssumption ==
    /\ LastTime \in Nat
    /\ MaxFaults \in Nat
    /\ MaxTries \in Nat

Times == 0..LastTime
Day(t) == t \div 2
Days == {Day(t) : t \in Times}
AfterHour(t) == t % 2 = 1

\* Contents of the state file that are no time.
Missing == LastTime + 1    \* no file, or one that cannot be parsed

VARIABLES
    clock,     \* the local time
    pc,        \* the scheduler
    readonly,  \* the program is in safe mode
    at,        \* the time read by the check that is under way
    noted,     \* the state file: last_backup_at, whose date is the last date
    faults,    \* faults so far
    tries,     \* history: backups started for each day
    looked,    \* history: days on which a check fell after the hour
    excused    \* history: days whose note was cut off from its backup by a
               \* crash, or made by a read-only program, or is missing

dailyVars == <<clock, pc, readonly, at, noted, faults, tries, looked, excused>>

SchedulerPCs == {"off", "waiting", "noting", "backup"}

DailyTypeOK ==
    /\ clock \in Times
    /\ pc \in SchedulerPCs
    /\ readonly \in BOOLEAN
    /\ at \in Times
    /\ noted \in Times \union {Missing}
    /\ faults \in 0..MaxFaults
    /\ tries \in [Days -> 0..MaxTries]
    /\ looked \in SUBSET Days
    /\ excused \in SUBSET Days

DailyInit ==
    /\ clock = 0 /\ pc = "off" /\ readonly = FALSE /\ at = 0
    /\ noted = Missing /\ faults = 0
    /\ tries = [d \in Days |-> 0]
    /\ looked = {} /\ excused = {}

-----------------------------------------------------------------------------

\* _is_overdue: 24 hours since the time noted.
Overdue(t) == noted # Missing /\ t >= noted + 2

NotedToday(t) == noted # Missing /\ Day(noted) = Day(t)

\* Mutation: the day noted is not looked at.
DueWheneverLate(t) == Overdue(t) \/ AfterHour(t)

Due(t) == Overdue(t) \/ (AfterHour(t) /\ ~NotedToday(t))

\* check_and_backup, at the start of the scheduler and on each tick.
Check ==
    /\ looked' = IF AfterHour(clock) THEN looked \union {Day(clock)} ELSE looked
    /\ IF Due(clock) THEN pc' = "noting" /\ at' = clock
                     ELSE pc' = "waiting" /\ UNCHANGED at

StartProgram(safe) ==
    /\ pc = "off"
    /\ readonly' = safe
    /\ Check
    /\ UNCHANGED <<clock, noted, faults, tries, excused>>

TimerTick ==
    /\ pc = "waiting"
    /\ Check
    /\ UNCHANGED <<clock, readonly, noted, faults, tries, excused>>

\* _record_backup_started: the note is made before the backup.
Note ==
    /\ pc = "noting"
    /\ noted' = at
    /\ pc' = "backup"
    /\ UNCHANGED <<clock, readonly, at, faults, tries, looked, excused>>

\* It cannot be written, which is swallowed: the file is as it was, or what
\* is left of it cannot be parsed.
NoteFails ==
    /\ pc = "noting" /\ faults < MaxFaults
    /\ faults' = faults + 1
    /\ noted' \in {noted, Missing}
    /\ pc' = "backup"
    /\ excused' = excused \union {Day(at)}
    /\ UNCHANGED <<clock, readonly, at, tries, looked>>

\* _execute_backup: whatever its result, it is not repeated.
RunBackup ==
    /\ pc = "backup"
    /\ IF readonly
         THEN excused' = excused \union {Day(at)} /\ UNCHANGED tries
         ELSE /\ tries[Day(at)] < MaxTries
              /\ tries' = [tries EXCEPT ![Day(at)] = @ + 1]
              /\ UNCHANGED excused
    /\ pc' = "waiting"
    /\ UNCHANGED <<clock, readonly, at, noted, faults, looked>>

\* Time passes; a tick never falls within a check, but a backup takes time.
TimePasses ==
    /\ clock < LastTime
    /\ clock' = clock + 1
    /\ UNCHANGED <<pc, readonly, at, noted, faults, tries, looked, excused>>

QuitProgram ==
    /\ pc = "waiting"
    /\ pc' = "off"
    /\ UNCHANGED <<clock, readonly, at, noted, faults, tries, looked, excused>>

\* The process dies between the note and the end of the backup, or while the
\* note is written.
CrashInBackup ==
    /\ pc \in {"noting", "backup"} /\ faults < MaxFaults
    /\ faults' = faults + 1
    /\ noted' \in IF pc = "noting" THEN {noted, at, Missing} ELSE {noted}
    /\ excused' = excused \union {Day(at)}
    /\ pc' = "off"
    /\ UNCHANGED <<clock, readonly, at, tries, looked>>

DailyNext ==
    \/ \E safe \in BOOLEAN : StartProgram(safe)
    \/ TimerTick \/ Note \/ NoteFails \/ RunBackup
    \/ TimePasses \/ QuitProgram \/ CrashInBackup

DailySpec == DailyInit /\ [][DailyNext]_dailyVars

-----------------------------------------------------------------------------

\* Each day on which the scheduler looked after the hour gets one backup,
\* and no day more than one, however the program is closed and opened; except
\* days on which a crash, an unwritable note or a read-only program came
\* between.
EachDayOnce ==
    \A d \in Days \ excused :
        /\ tries[d] <= 1
        /\ d \in looked =>
              tries[d] = 1 \/ (pc \in {"noting", "backup"} /\ Day(at) = d)
=============================================================================
