---------------------------- MODULE AnalysisPage ----------------------------
(***************************************************************************)
(* The analysis page of one workbench: the result area (run id, metrics,   *)
(* warnings, issue list) and the table of earlier runs, while runs come    *)
(* and go in the database.  Of a result the model keeps the run it is of.  *)
(***************************************************************************)
EXTENDS Reports

VARIABLES
    page,      \* the result area
    history    \* the runs in the table, as of its last refresh

analysisPage == <<page, history>>

\* A table is empty (None) or filled from the result of a run.
Empty == [meta |-> None, metrics |-> None, warnings |-> None,
          issues |-> {}, visible |-> FALSE]

PageInit == page = Empty /\ history = << >>

----------------------------------------------------------------------------
\* _show_result
Shows(r) == [meta |-> r, metrics |-> r, warnings |-> r, issues |-> {}, visible |-> FALSE]

\* _clear_result_tables, and the issue list made visible with one more entry.
Complains(p, entry) ==
    [p EXCEPT !.metrics = None, !.warnings = None,
              !.issues = @ \union {entry}, !.visible = TRUE]

Wiped(p) == [p EXCEPT !.issues = {}]

----------------------------------------------------------------------------
(* _run_analysis                                                            *)

RunSucceeds ==
    /\ SaveRun
    /\ page' = Shows(made + 1)
    /\ history' = Recent'
    /\ UNCHANGED <<artifact, files, rendered, kept, job, suspect>>

RunWithoutData ==
    /\ page' = [Complains(Wiped(page), <<"no data", 0>>) EXCEPT !.meta = None]
    /\ UNCHANGED <<reports, history>>

\* The new id is shown, but nothing is saved under it.
RunInvalid ==
    /\ made < MaxRuns
    /\ made' = made + 1
    /\ page' = [Complains(Wiped(page), <<"invalid", made + 1>>) EXCEPT !.meta = made + 1]
    /\ UNCHANGED <<saved, artifact, files, rendered, kept, job,
                   suspect, history>>

\* The use case raises: the issue list has been cleared by then.
RunRaises == page' = Wiped(page) /\ UNCHANGED <<reports, history>>

----------------------------------------------------------------------------
(* Earlier runs                                                             *)

\* Mutation: the tables of the earlier result stay.
ViewRunKeepsTables(r) ==
    /\ page' = IF InSaved(r) THEN Shows(r)
               ELSE [page EXCEPT !.issues = @ \union {<<"unknown", r>>}, !.visible = TRUE]
    /\ UNCHANGED <<reports, history>>

\* _view_run, for whatever was typed; it does not clear the issue list, and the
\* run id of the earlier result stays.
ViewRun(r) ==
    /\ page' = IF InSaved(r) THEN Shows(r) ELSE Complains(page, <<"unknown", r>>)
    /\ UNCHANGED <<reports, history>>

\* _load_run_id, by the button, for the current row.
LoadRow(i) ==
    /\ i \in DOMAIN history
    /\ page' = IF InSaved(history[i]) THEN Shows(history[i])
               ELSE Complains(Wiped(page), <<"unknown", history[i]>>)
    /\ UNCHANGED <<reports, history>>

\* _load_run_from_item takes the text of the cell for a run id; only that of the
\* first column is one.
DoubleClick(i, column) ==
    IF column = 1 THEN LoadRow(i)
    ELSE /\ i \in DOMAIN history
         /\ page' = Complains(Wiped(page), <<"unknown", 0>>)
         /\ UNCHANGED <<reports, history>>

\* _on_tab_changed / refresh_history
OpenHistory == history' = Recent /\ UNCHANGED <<reports, page>>

PageNext ==
    \/ RunSucceeds \/ RunWithoutData \/ RunInvalid \/ RunRaises
    \/ \E r \in 0..made : ViewRun(r)
    \/ \E i \in DOMAIN history :
          LoadRow(i) \/ \E column \in 1..2 : DoubleClick(i, column)
    \/ OpenHistory
    \/ (AddRun \/ BackUp \/ RestoreRows) /\ UNCHANGED analysisPage

PageSpec ==
    /\ ReportsInit /\ PageInit
    /\ [][PageNext]_<<reports, analysisPage>>

----------------------------------------------------------------------------
\* The figures on the page are those of one run, the one whose id stands above
\* them: whatever was run, looked up in vain, restored away or interrupted by
\* an error in between, metrics and warnings are both that run's or both empty,
\* and a complaint is never shown over the figures of another run.
ShownIsOneRun ==
    /\ page.metrics = page.warnings
    /\ page.metrics # None =>
          page.meta = page.metrics /\ page.issues = {} /\ ~page.visible
=============================================================================
