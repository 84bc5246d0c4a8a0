-------------------------- MODULE MCBackupRestore --------------------------
(* The files and the daily schedule share no state, so a behaviour follows  *)
(* one of them: `part` says which.  A scheduled backup is a Backup of       *)
(* StartUp like any other.                                                  *)
EXTENDS StartUp, DailyBackup

VARIABLE part

mcVars == <<vars, dailyVars, part>>

MCInit == part \in {"files", "schedule"} /\ Init /\ DailyInit

MCNext ==
    \/ part = "files"    /\ Next      /\ UNCHANGED <<dailyVars, part>>
    \/ part = "schedule" /\ DailyNext /\ UNCHANGED <<vars, part>>

MCSpec == MCInit /\ [][MCNext]_mcVars
=============================================================================
