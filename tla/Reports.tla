------------------------------- MODULE Reports ------------------------------
(***************************************************************************)
(* What becomes of an analysis: the saved runs (AnalysisRepository) and    *)
(* ReportExporter._export, a step at a time: look the run up, write the    *)
(* file, hash it, register the hash (ReportArtifactRepository.upsert).     *)
(*                                                                         *)
(* Nothing keeps a second workbench from being opened on the same          *)
(* database and reports directory, so there are windows.  Runs are         *)
(* numbered in the order in which they are made; the id of a run is never  *)
(* given again, not even after a restore has taken the run away.  A hash   *)
(* stands for the content it is of.                                        *)
(***************************************************************************)
EXTENDS Amounts, Sequences, FiniteSets

CONSTANTS
    Windows,      \* the workbench processes
    ListLimit,    \* 50: the runs list_runs returns
    MaxRuns,      \* bound: runs made
    MaxRenders,   \* bound: reports written
    Torn          \* the content of a file whose writing was cut short

Formats == {"HTML", "CSV"}
Report  == (1..MaxRuns) \X Formats

\* A report that was written whole: the run it is of, and the time it bears.
Printed == [run : 1..MaxRuns, time : Nat]

\* An export under way: what it found, wrote and hashed; alone: no other export
\* of the same report has overlapped it.
Job == [report : Report, step : {"found", "written", "hashed"},
        hash : Printed \union {None, Torn}, alone : BOOLEAN]

ASSUME ReportsAssumption ==
    /\ ListLimit \in Nat \ {0} /\ MaxRuns \in Nat /\ MaxRenders \in Nat
    /\ None \notin Job \union Printed \union {Torn}

VARIABLES
    made,       \* how many runs there ever were
    saved,      \* analysis_run with its result, the newest last
    artifact,   \* report_artifact: the hash of a report, or None
    files,      \* the reports directory
    rendered,   \* how many reports were written: the time an HTML bears
    kept,       \* the rows a backup holds, or None
    job,        \* by window: the export under way, or None
    suspect     \* history: reports whose last export was disturbed

reports == <<made, saved, artifact, files, rendered, kept, job, suspect>>

InSaved(r) == r \in {saved[i] : i \in DOMAIN saved}

\* AnalysisRepository.list_runs
Recent == [i \in 1..Smaller(Len(saved), ListLimit) |-> saved[Len(saved) + 1 - i]]

ReportsInit ==
    /\ made = 0 /\ saved = << >> /\ rendered = 0 /\ kept = None
    /\ artifact = [k \in Report |-> None]
    /\ files = [k \in Report |-> None]
    /\ job = [w \in Windows |-> None]
    /\ suspect = {}

----------------------------------------------------------------------------
(* The database                                                             *)

\* save_result: the run and its result in one transaction.
SaveRun ==
    /\ made < MaxRuns
    /\ made' = made + 1
    /\ saved' = Append(saved, made + 1)

AddRun == SaveRun /\ UNCHANGED <<artifact, files, rendered, kept, job, suspect>>

BackUp ==
    /\ kept' = [saved |-> saved, artifact |-> artifact]
    /\ UNCHANGED <<made, saved, artifact, files, rendered, job, suspect>>

\* The rows go back to those of the backup; the reports directory does not.
RestoreRows ==
    /\ kept # None
    /\ saved' = kept.saved
    /\ artifact' = kept.artifact
    /\ suspect' = suspect \union {k \in Report : artifact[k] # kept.artifact[k]}
    /\ UNCHANGED <<made, files, rendered, kept, job>>

----------------------------------------------------------------------------
(* ReportExporter._export                                                   *)

At(w, step) == job[w] # None /\ job[w].step = step

OthersOn(k, w) == {v \in Windows \ {w} : job[v] # None /\ job[v].report = k}

\* The run of the current row of the report page, whose table may be older
\* than the database, and whose rows move when it is refreshed: any run there
\* ever was.  Of a run that is gone the page only says so.
StartExport(w, r, format) ==
    LET k == <<r, format>>
    IN  /\ job[w] = None
        /\ InSaved(r)
        /\ job' = [v \in Windows |->
                      IF v = w THEN [report |-> k, step |-> "found", hash |-> None,
                                     alone |-> OthersOn(k, w) = {}]
                      ELSE IF v \in OthersOn(k, w) THEN [job[v] EXCEPT !.alone = FALSE]
                      ELSE job[v]]
        /\ suspect' = IF OthersOn(k, w) # {} THEN suspect \union {k} ELSE suspect
        /\ UNCHANGED <<made, saved, artifact, files, rendered, kept>>

\* _render_html puts the time into the report, _render_csv does not.
Content(k) == [run |-> k[1], time |-> IF k[2] = "HTML" THEN rendered ELSE 0]

Render(w) ==
    /\ At(w, "found")
    /\ rendered < MaxRenders
    /\ rendered' = rendered + 1
    /\ files' = [files EXCEPT ![job[w].report] = Content(job[w].report)]
    /\ job' = [job EXCEPT ![w].step = "written"]
    /\ UNCHANGED <<made, saved, artifact, kept, suspect>>

\* Mutation: a report that is registered keeps its hash.
HashOnce(w) ==
    /\ At(w, "written")
    /\ job' = [job EXCEPT ![w].step = "hashed",
                          ![w].hash = IF artifact[job[w].report] = None
                                      THEN files[job[w].report]
                                      ELSE artifact[job[w].report]]
    /\ UNCHANGED <<made, saved, artifact, files, rendered, kept, suspect>>

\* _sha256_file reads the file again.
Hash(w) ==
    /\ At(w, "written")
    /\ job' = [job EXCEPT ![w].step = "hashed", ![w].hash = files[job[w].report]]
    /\ UNCHANGED <<made, saved, artifact, files, rendered, kept, suspect>>

\* upsert: insert or update; the row refers to the run's.
Register(w) ==
    /\ At(w, "hashed")
    /\ InSaved(job[w].report[1])
    /\ artifact' = [artifact EXCEPT ![job[w].report] = job[w].hash]
    /\ suspect' = IF job[w].alone THEN suspect \ {job[w].report} ELSE suspect
    /\ job' = [job EXCEPT ![w] = None]
    /\ UNCHANGED <<made, saved, files, rendered, kept>>

\* The process ends, or an error other than ReportExportError is raised (the
\* file cannot be written; the database is busy; the run is gone).
CutShort(w) ==
    /\ job[w] # None
    /\ LET k == job[w].report
       IN  /\ files' \in {files} \union
                (IF At(w, "found") THEN {[files EXCEPT ![k] = Torn]} ELSE {})
           /\ suspect' = suspect \union {k}
    /\ job' = [job EXCEPT ![w] = None]
    /\ UNCHANGED <<made, saved, artifact, rendered, kept>>

ReportsNext ==
    \/ AddRun \/ BackUp \/ RestoreRows
    \/ \E w \in Windows :
          \/ \E r \in 1..made, format \in Formats : StartExport(w, r, format)
          \/ Render(w) \/ Hash(w) \/ Register(w) \/ CutShort(w)

ReportsSpec == ReportsInit /\ [][ReportsNext]_reports

----------------------------------------------------------------------------
\* ReportArtifactRepository: "report_artifact is always that of the latest
\* export".  So it is for a report whose last export ran alone to its end,
\* whatever was cut short, overlapped or restored before; and a CSV, which says
\* the same each time, agrees with its row through all of that unless the file
\* is torn.  Every report is of the run it is registered for.
ReportMatchesFile ==
    \A k \in Report : artifact[k] # None =>
        /\ artifact[k] # Torn => artifact[k].run = k[1]
        /\ k \notin suspect /\ (\A w \in Windows : job[w] # None => job[w].report # k)
              => files[k] = artifact[k]
        /\ k[2] = "CSV" /\ Torn \notin {artifact[k], files[k]}
              => files[k] = artifact[k]
=============================================================================
