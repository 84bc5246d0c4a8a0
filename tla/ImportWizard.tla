---------------------------- MODULE ImportWizard ----------------------------
(***************************************************************************)
(* The import wizard and the page that opens it.  The wizard reads a file  *)
(* when it is chosen and run_import reads it again, hashes it and files a  *)
(* batch; other programs may rewrite or remove the file at any time.  Of a *)
(* file the model keeps its content, as a whole, and its header line; how  *)
(* rows are validated and stored is the subject of ImportPipeline, so a    *)
(* batch here ends in one step.                                            *)
(***************************************************************************)
EXTENDS Naturals, Sequences

CONSTANTS
    Paths,       \* files on disk
    Contents,    \* what a file may hold
    Gone,        \* in place of a content: no such file, or no right to read it
    Header,      \* the header line of each content, or Gone if unreadable
    Suggests,    \* <<kind, header>>: suggest_column finds every required field
    Hopeless,    \* contents in which every row has its error
    Poisoned,    \* contents of which the database refuses a row
    Nothing,     \* no batch, no snapshot, no mapping
    MaxEdits,    \* bound: times a file is rewritten
    MaxImports   \* bound: batches started

ASSUME WizardAssumption ==
    /\ Gone \notin Contents /\ Nothing \notin Paths \union Contents
    /\ Hopeless \subseteq Contents /\ Poisoned \subseteq Contents
    /\ DOMAIN Header = Contents
    /\ MaxEdits \in Nat /\ MaxImports \in Nat

Kinds == {"master", "events"}

VARIABLES
    disk,      \* the content of each path
    edits,     \* rewrites so far
    ledger,    \* import_batch: path, hash (the content hashed) and status; and,
               \* as a history, the content the rows were read from
    wizard,    \* the wizard's pages and shared state
    reading,   \* the content run_import has read and not yet hashed
    rewritten, \* history: batches whose file changed between those two
    recent     \* the import page's label: the batch of the last import

importWizard == <<disk, edits, ledger, wizard, reading, rewritten, recent>>

\* path: path_edit; source, preview: the snapshot; mapping: the header whose
\* columns are mapped, once all required fields are; ready: the Next button of
\* the execute page, as of the last completeChanged; result: import_result.
NewWizard == [page |-> "closed", path |-> Nothing, source |-> Nothing,
              preview |-> Nothing, kind |-> "master", mapping |-> Nothing,
              ready |-> FALSE, result |-> Nothing, refusedAs |-> Nothing,
              summary |-> Nothing, table |-> Nothing]

WizardInit ==
    /\ disk \in [Paths -> Contents]
    /\ edits = 0
    /\ ledger = << >>
    /\ wizard = NewWizard
    /\ reading = Nothing
    /\ rewritten = {}
    /\ recent = Nothing

Readable(c) == c # Gone /\ Header[c] # Gone

OnPage(name) == wizard.page = name /\ reading = Nothing

Elsewhere == UNCHANGED <<disk, edits, ledger, reading, rewritten, recent>>

----------------------------------------------------------------------------
(* The first three pages                                                    *)

\* ImportPage._open_wizard: each time a new wizard.
OpenWizard ==
    /\ OnPage("closed")
    /\ wizard' = [NewWizard EXCEPT !.page = "file"]
    /\ Elsewhere

\* set_file; a file that cannot be opened raises after the path was shown.
SetFile(p) ==
    /\ OnPage("file")
    /\ LET c == disk[p] IN
       wizard' = CASE c = Gone    -> [wizard EXCEPT !.path = p]
                   [] Readable(c) -> [wizard EXCEPT !.path = p, !.source = p,
                                                    !.preview = c]
                   [] OTHER       -> [wizard EXCEPT !.path = p, !.preview = Nothing,
                                                    !.source = Nothing]
    /\ Elsewhere

\* _rebuild_fields: the default columns.
Suggested(w) ==
    [w EXCEPT !.mapping = IF <<w.kind, Header[w.preview]>> \in Suggests
                          THEN Header[w.preview] ELSE Nothing]

ToMapping ==
    /\ OnPage("file") /\ wizard.preview # Nothing
    /\ wizard' = Suggested([wizard EXCEPT !.page = "mapping"])
    /\ Elsewhere

ChooseKind(k) ==
    /\ OnPage("mapping") /\ k # wizard.kind
    /\ wizard' = Suggested([wizard EXCEPT !.kind = k])
    /\ Elsewhere

\* The user fills every required combo box, or empties one.
MapFields ==
    /\ OnPage("mapping")
    /\ \E mapping \in {Header[wizard.preview], Nothing} :
         wizard' = [wizard EXCEPT !.mapping = mapping]
    /\ Elsewhere

ToPreview ==
    /\ OnPage("mapping") /\ wizard.mapping # Nothing
    /\ wizard' = [wizard EXCEPT !.page = "preview"]
    /\ Elsewhere

\* ExecutePage.initializePage
ToExecute ==
    /\ OnPage("preview")
    /\ wizard' = [wizard EXCEPT !.page = "execute", !.result = Nothing,
                                !.refusedAs = Nothing, !.summary = Nothing,
                                !.ready = FALSE]
    /\ Elsewhere

\* Back does not initialise the page it returns to.
Before == [mapping |-> "file", preview |-> "mapping", execute |-> "preview",
           errors |-> "execute"]

Back ==
    /\ reading = Nothing /\ wizard.page \in DOMAIN Before
    /\ wizard' = [wizard EXCEPT !.page = Before[@],
                                !.ready = wizard.result # Nothing]
    /\ Elsewhere

----------------------------------------------------------------------------
(* The execute page                                                         *)

KnownSkus ==
    \E b \in DOMAIN ledger : ledger[b].kind = "master" /\ ledger[b].stored

\* _run_import up to read_csv and _require_columns; every failure leaves the
\* outcome of an earlier click on the page.
ClickRun ==
    /\ OnPage("execute") /\ Len(ledger) < MaxImports
    /\ wizard.kind = "events" => KnownSkus
    /\ Readable(disk[wizard.source])
    /\ Header[disk[wizard.source]] = wizard.mapping
    /\ reading' = disk[wizard.source]
    /\ UNCHANGED <<disk, edits, ledger, wizard, rewritten, recent>>

Committed(c) ==
    {b \in DOMAIN ledger : ledger[b].status = "COMPLETED" /\ ledger[b].hash = c}

\* Mutation: the file's hash is taken of the snapshot in the wizard.
HashedPreview == wizard.preview

\* _file_sha256: the file is opened a second time.
Hashed == disk[wizard.source]

\* Only upsert_events lets an IntegrityError out; _commit_master catches it.
Refusable == wizard.kind = "events" /\ reading \in Poisoned

NewBatch(status, stored) ==
    ledger' = Append(ledger, [path |-> wizard.source, hash |-> Hashed,
                              read |-> reading, kind |-> wizard.kind,
                              status |-> status, stored |-> stored])

RunImports ==
    /\ reading # Nothing /\ Hashed # Gone
    /\ Committed(Hashed) = {} /\ ~Refusable
    /\ IF reading \in Hopeless THEN NewBatch("FAILED", FALSE)
                               ELSE NewBatch("COMPLETED", TRUE)
    /\ wizard' = [wizard EXCEPT !.result = Len(ledger) + 1, !.refusedAs = Nothing,
                                !.summary = Len(ledger) + 1, !.ready = TRUE]
    /\ reading' = Nothing
    /\ UNCHANGED <<disk, edits, rewritten, recent>>

\* DuplicateImportFound: the summary of an earlier click stays, and the Next
\* button is not told.
RunRefuses ==
    /\ reading # Nothing
    /\ \E b \in Committed(Hashed) :
         wizard' = [wizard EXCEPT !.result = Nothing, !.refusedAs = b]
    /\ reading' = Nothing
    /\ UNCHANGED <<disk, edits, ledger, rewritten, recent>>

\* The file has gone, or the database refuses a row: nobody catches it.
RunRaises ==
    /\ reading # Nothing
    /\ \/ Hashed = Gone /\ UNCHANGED ledger
       \/ /\ Hashed # Gone /\ Committed(Hashed) = {} /\ Refusable
          /\ NewBatch("RUNNING", FALSE)
    /\ reading' = Nothing
    /\ UNCHANGED <<disk, edits, wizard, rewritten, recent>>

----------------------------------------------------------------------------
(* The error page and the end                                               *)

\* ErrorPage.initializePage: last_batch_id names the batch.
ToErrors ==
    /\ OnPage("execute") /\ wizard.ready
    /\ wizard' = [wizard EXCEPT !.page = "errors", !.table = wizard.result]
    /\ Elsewhere

\* The import page shows the result of a wizard that was accepted.
Finish ==
    /\ OnPage("errors")
    /\ recent' = IF wizard.result = Nothing THEN recent ELSE wizard.result
    /\ wizard' = NewWizard
    /\ UNCHANGED <<disk, edits, ledger, reading, rewritten>>

Cancel ==
    /\ reading = Nothing /\ wizard.page # "closed"
    /\ wizard' = NewWizard
    /\ Elsewhere

\* Another program.
Edit(p) ==
    /\ edits < MaxEdits
    /\ edits' = edits + 1
    /\ \E c \in (Contents \union {Gone}) \ {disk[p]} : disk' = [disk EXCEPT ![p] = c]
    /\ rewritten' = IF reading # Nothing /\ p = wizard.source
                    THEN rewritten \union {Len(ledger) + 1} ELSE rewritten
    /\ UNCHANGED <<ledger, wizard, reading, recent>>

WizardNext ==
    \/ OpenWizard
    \/ \E p \in Paths : SetFile(p)
    \/ ToMapping
    \/ \E k \in Kinds : ChooseKind(k)
    \/ MapFields
    \/ ToPreview
    \/ ToExecute
    \/ Back
    \/ ClickRun
    \/ RunImports
    \/ RunRefuses
    \/ RunRaises
    \/ ToErrors
    \/ Finish
    \/ Cancel
    \/ \E p \in Paths : Edit(p)

WizardSpec == WizardInit /\ [][WizardNext]_importWizard

----------------------------------------------------------------------------
(* Properties                                                               *)

\* The error page lists the errors of the batch whose summary was shown, and
\* that batch is of the file chosen in this wizard, however the user went back
\* and forth and chose other files.
ErrorsOfChosenFile ==
    wizard.page = "errors" /\ wizard.table # Nothing =>
        /\ wizard.table = wizard.summary
        /\ ledger[wizard.table].path = wizard.source

\* A file refused because it was imported before has had its rows read by the
\* batch named, unless it was rewritten while that batch was reading it.
RefusedWasRead ==
    wizard.refusedAs # Nothing =>
        LET b == wizard.refusedAs IN
        ledger[b].read = ledger[b].hash \/ b \in rewritten

\* What the wizard says of an import is true of it.
WizardTellsTruth == ErrorsOfChosenFile /\ RefusedWasRead

=============================================================================
