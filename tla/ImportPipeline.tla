--------------------------- MODULE ImportPipeline ---------------------------
(***************************************************************************)
(* The CSV import of the workbench (CsvImportManager.run_import, run on    *)
(* the UI thread) over the tables sku, inventory_event, inventory_balance, *)
(* import_batch and import_error, while the SyncWorker thread stores       *)
(* events of its own through the same upsert_events.                       *)
(*                                                                         *)
(* Every repository call is a transaction and one step here, except        *)
(* upsert_events, which is two: SQLite opens the write transaction at the  *)
(* first INSERT, so the SELECT of the existing ids is outside it.          *)
(*                                                                         *)
(* The warehouse of a row is folded into its problems: the workbench seeds *)
(* one warehouse at first start and has no operation that adds another.    *)
(***************************************************************************)
EXTENDS Naturals, FiniteSets, Sequences

CONSTANTS
    Skus,         \* sku_id values
    Events,       \* event_id values
    None,         \* a blank cell
    Files,        \* CSV files, identified by their hash
    MasterFiles,  \* the files imported as master data; the others hold events
    Content,      \* the data rows of each file
    MaxBatches,   \* bound: import batches ever started
    MaxCrashes    \* bound: times the process dies or run_import raises

\* problems: cells that fail a check other than the SKU's existence.
\* poison: passes every check of the importer but not ck_..._quantity_positive
\* (a positive Decimal that SQLite casts to 0.0).
Row == [event : Events \union {None}, sku : Skus \union {None},
        problems : Nat, poison : BOOLEAN]

ASSUME ImportAssumption ==
    /\ None \notin Skus \union Events
    /\ MasterFiles \subseteq Files
    /\ Content \in [Files -> Seq(Row)]
    /\ \A f \in Files : \A r \in DOMAIN Content[f] :
         Content[f][r].problems = 0 =>
             /\ Content[f][r].sku \in Skus
             /\ f \notin MasterFiles => Content[f][r].event \in Events
    /\ MaxBatches \in Nat
    /\ MaxCrashes \in Nat

BatchIds == 1..MaxBatches
RowNos   == UNION {DOMAIN Content[f] : f \in Files}

VARIABLES
    skus,       \* sku
    inventory,  \* event_ids of inventory_event
    balance,    \* inventory_balance: the events the last rebuild replayed
    batches,    \* import_batch
    errorRows,  \* import_error
    importer,   \* the UI thread inside run_import
    syncer,     \* the SyncWorker thread inside upsert_events
    crashes,    \* crashes so far
    synced,     \* history: events stored by the SyncWorker
    cut,        \* history: events stored by an import that then crashed
    abandoned,  \* history: batches whose run_import did not return
    collided    \* history: events on which an INSERT hit uq_..._event_id

vars == <<skus, inventory, balance, batches, errorRows, importer, syncer,
          crashes, synced, cut, abandoned, collided>>

Batch == [status : {"ABSENT", "RUNNING", "COMPLETED", "FAILED"},
          file   : Files \union {None},
          rows   : Nat,
          errors : Nat]

Codes == {"FIELD", "SKU_NOT_FOUND", "SKU_DUPLICATE"}

\* An ErrorRecord; nth tells a row's field errors apart.
Error == [row : RowNos, code : Codes, nth : Nat]

ErrorRow == [batch : BatchIds, error : Error]

PCs == {"idle", "validate", "addSku", "check", "insert", "rebuild",
        "addError", "complete", "fail"}

Importer == [pc     : PCs,
             batch  : BatchIds \union {0},
             drafts : SUBSET RowNos,   \* accepted rows still to commit
             seen   : SUBSET Events,   \* existing_ids of upsert_events
             errors : SUBSET Error,    \* every ErrorRecord so far
             unsaved: SUBSET Error]    \* those add_error has still to write

Syncer == [event : Events \union {None}, exists : BOOLEAN]

TypeOK ==
    /\ skus \in SUBSET Skus
    /\ inventory \in SUBSET Events
    /\ balance \in SUBSET Events
    /\ batches \in [BatchIds -> Batch]
    /\ errorRows \in SUBSET ErrorRow
    /\ importer \in Importer
    /\ syncer \in Syncer
    /\ crashes \in 0..MaxCrashes
    /\ synced \in SUBSET Events
    /\ cut \in SUBSET Events
    /\ abandoned \in SUBSET BatchIds
    /\ collided \in SUBSET Events

Idle == [pc |-> "idle", batch |-> 0, drafts |-> {}, seen |-> {},
         errors |-> {}, unsaved |-> {}]

NoSync == [event |-> None, exists |-> FALSE]

Init ==
    /\ skus = {}
    /\ inventory = {}
    /\ balance = {}
    /\ batches = [b \in BatchIds |->
                    [status |-> "ABSENT", file |-> None, rows |-> 0, errors |-> 0]]
    /\ errorRows = {}
    /\ importer = Idle
    /\ syncer = NoSync
    /\ crashes = 0
    /\ synced = {}
    /\ cut = {}
    /\ abandoned = {}
    /\ collided = {}

-----------------------------------------------------------------------------
(***************************************************************************)
(* Helpers                                                                 *)
(***************************************************************************)

File == batches[importer.batch].file
Rows == Content[File]

IsFirst(i, S) == i \in S /\ \A j \in S : i <= j

\* find_completed_by_file_hash
Imported(f) ==
    \E b \in BatchIds : batches[b].status = "COMPLETED" /\ batches[b].file = f

\* The rows with nothing wrong in their own cells.
Clean(rows) == {r \in DOMAIN rows : rows[r].problems = 0}

FieldErrors(rows) ==
    UNION {{[row |-> r, code |-> "FIELD", nth |-> n] : n \in 1..rows[r].problems} :
           r \in DOMAIN rows}

\* The rows of an event file whose SKU is not in the master data.
Unknown(rows) == {r \in DOMAIN rows : rows[r].sku \notin skus \union {None}}

NotFoundErrors(rows) ==
    {[row |-> r, code |-> "SKU_NOT_FOUND", nth |-> 1] : r \in Unknown(rows)}

\* The rows upsert_events inserts: of rows with one event_id the first counts.
Inserted ==
    {r \in importer.drafts :
        /\ Rows[r].event \notin importer.seen
        /\ \A q \in importer.drafts : q < r => Rows[q].event # Rows[r].event}

Fresh == {Rows[r].event : r \in Inserted}

-----------------------------------------------------------------------------
(***************************************************************************)
(* run_import, step by step                                                *)
(***************************************************************************)

\* The wizard asks for master data first; a file whose batch is COMPLETED is
\* refused; otherwise start_batch.
StartImport(f) ==
    /\ importer.pc = "idle"
    /\ f \in MasterFiles \/ skus # {}
    /\ ~Imported(f)
    /\ \E b \in BatchIds :
         /\ IsFirst(b, {c \in BatchIds : batches[c].status = "ABSENT"})
         /\ batches' = [batches EXCEPT ![b] =
              [status |-> "RUNNING", file |-> f, rows |-> 0, errors |-> 0]]
         /\ importer' = [Idle EXCEPT !.pc = "validate", !.batch = b]
    /\ UNCHANGED <<skus, inventory, balance, errorRows, syncer, crashes,
                   synced, cut, abandoned, collided>>

\* _validate_master_rows
ValidateMaster ==
    /\ importer.pc = "validate" /\ File \in MasterFiles
    /\ importer' = [importer EXCEPT !.pc = "addSku", !.drafts = Clean(Rows),
                                    !.errors = FieldErrors(Rows)]
    /\ UNCHANGED <<skus, inventory, balance, batches, errorRows, syncer,
                   crashes, synced, cut, abandoned, collided>>

\* Mutation: a row of an unknown SKU is dropped without an error.
ValidateEventsSilently ==
    /\ importer.pc = "validate" /\ File \notin MasterFiles
    /\ importer' = [importer EXCEPT !.pc = "check",
                                    !.drafts = Clean(Rows) \ Unknown(Rows),
                                    !.errors = FieldErrors(Rows)]
    /\ UNCHANGED <<skus, inventory, balance, batches, errorRows, syncer,
                   crashes, synced, cut, abandoned, collided>>

\* _validate_event_rows: cell checks, then the SKU's existence.
ValidateEvents ==
    /\ importer.pc = "validate" /\ File \notin MasterFiles
    /\ importer' = [importer EXCEPT
         !.pc = "check",
         !.drafts = Clean(Rows) \ Unknown(Rows),
         !.errors = FieldErrors(Rows) \union NotFoundErrors(Rows)]
    /\ UNCHANGED <<skus, inventory, balance, batches, errorRows, syncer,
                   crashes, synced, cut, abandoned, collided>>

\* _commit_master: one transaction per draft, a duplicate becomes an error.
AddSku ==
    /\ importer.pc = "addSku"
    /\ \E r \in importer.drafts :
         /\ IsFirst(r, importer.drafts)
         /\ IF Rows[r].sku \in skus
            THEN /\ importer' = [importer EXCEPT
                      !.drafts = @ \ {r},
                      !.errors = @ \union
                          {[row |-> r, code |-> "SKU_DUPLICATE", nth |-> 1]}]
                 /\ UNCHANGED skus
            ELSE /\ importer' = [importer EXCEPT !.drafts = @ \ {r}]
                 /\ skus' = skus \union {Rows[r].sku}
    /\ UNCHANGED <<inventory, balance, batches, errorRows, syncer, crashes,
                   synced, cut, abandoned, collided>>

ReportErrors ==
    importer' = [importer EXCEPT !.pc = "addError", !.drafts = {}, !.seen = {},
                                 !.unsaved = importer.errors]

\* _commit_master returns.
EndMaster ==
    /\ importer.pc = "addSku" /\ importer.drafts = {}
    /\ ReportErrors
    /\ UNCHANGED <<skus, inventory, balance, batches, errorRows, syncer,
                   crashes, synced, cut, abandoned, collided>>

\* The SELECT of upsert_events; without accepted rows it is not called.
CheckExisting ==
    /\ importer.pc = "check"
    /\ IF importer.drafts = {}
       THEN ReportErrors
       ELSE importer' = [importer EXCEPT
              !.pc = "insert",
              !.seen = {Rows[r].event : r \in importer.drafts} \intersect inventory]
    /\ UNCHANGED <<skus, inventory, balance, batches, errorRows, syncer,
                   crashes, synced, cut, abandoned, collided>>

\* Mutation: the projection is rebuilt when nothing was skipped.
NeedsRebuildIfNoneSkipped == importer.seen = {}

\* _commit_events: result.inserted > 0
NeedsRebuild == Fresh # {}

\* The INSERTs of upsert_events and their commit.
InsertEvents ==
    /\ importer.pc = "insert"
    /\ Fresh \intersect inventory = {}
    /\ \A r \in Inserted : ~Rows[r].poison
    /\ inventory' = inventory \union Fresh
    /\ IF NeedsRebuild THEN importer' = [importer EXCEPT !.pc = "rebuild"]
                       ELSE ReportErrors
    /\ UNCHANGED <<skus, balance, batches, errorRows, syncer, crashes,
                   synced, cut, abandoned, collided>>

\* An IntegrityError rolls the whole file back and leaves run_import, which
\* does not catch it.
InsertRefused ==
    /\ importer.pc = "insert"
    /\ \/ /\ \E r \in Inserted : Rows[r].poison
          /\ UNCHANGED collided
       \/ /\ Fresh \intersect inventory # {}
          /\ collided' = collided \union (Fresh \intersect inventory)
    /\ importer' = Idle
    /\ abandoned' = abandoned \union {importer.batch}
    /\ UNCHANGED <<skus, inventory, balance, batches, errorRows, syncer,
                   crashes, synced, cut>>

\* BalanceProjectionService.rebuild: its DELETE takes the write lock, so the
\* events it reads are those of the table when it commits.
Rebuild ==
    /\ importer.pc = "rebuild"
    /\ balance' = inventory
    /\ ReportErrors
    /\ UNCHANGED <<skus, inventory, batches, errorRows, syncer, crashes,
                   synced, cut, abandoned, collided>>

\* errors + commit_errors: what the validation found, by rows, and then what
\* the commit found.
Precedes(x, y) ==
    LET late(z) == z.code = "SKU_DUPLICATE"
    IN IF late(x) # late(y) THEN late(y)
       ELSE x.row < y.row \/ (x.row = y.row /\ x.nth < y.nth)

\* Mutation: one import_error row is written per CSV row.
AddErrorPerRow ==
    /\ importer.pc = "addError"
    /\ \E x \in importer.unsaved :
         /\ errorRows' = errorRows \union {[batch |-> importer.batch, error |-> x]}
         /\ importer' = [importer EXCEPT !.unsaved = {y \in @ : y.row # x.row}]
    /\ UNCHANGED <<skus, inventory, balance, batches, syncer, crashes,
                   synced, cut, abandoned, collided>>

\* add_error, one transaction per record, in the order of the list.
AddError ==
    /\ importer.pc = "addError"
    /\ \E x \in importer.unsaved :
         /\ \A y \in importer.unsaved : ~Precedes(y, x)
         /\ errorRows' = errorRows \union {[batch |-> importer.batch, error |-> x]}
         /\ importer' = [importer EXCEPT !.unsaved = @ \ {x}]
    /\ UNCHANGED <<skus, inventory, balance, batches, syncer, crashes,
                   synced, cut, abandoned, collided>>

ErrorCount == Cardinality(importer.errors)

AllFailed == Len(Rows) > 0 /\ ErrorCount = Len(Rows)

\* Mutation: a file of bad rows only returns before its status is set.
CompleteBatchUnlessFailed ==
    /\ importer.pc = "addError" /\ importer.unsaved = {}
    /\ IF AllFailed
       THEN UNCHANGED <<batches, importer>>
       ELSE /\ batches' = [batches EXCEPT ![importer.batch] =
                 [@ EXCEPT !.status = "COMPLETED", !.rows = Len(Rows),
                           !.errors = ErrorCount]]
            /\ importer' = Idle
    /\ UNCHANGED <<skus, inventory, balance, errorRows, syncer, crashes,
                   synced, cut, abandoned, collided>>

\* complete_batch, after the last add_error.
CompleteBatch ==
    /\ importer.pc = "addError" /\ importer.unsaved = {}
    /\ batches' = [batches EXCEPT ![importer.batch] =
         [@ EXCEPT !.status = "COMPLETED", !.rows = Len(Rows),
                   !.errors = ErrorCount]]
    /\ importer' = IF AllFailed THEN [importer EXCEPT !.pc = "fail"] ELSE Idle
    /\ UNCHANGED <<skus, inventory, balance, errorRows, syncer, crashes,
                   synced, cut, abandoned, collided>>

\* fail_batch
FailBatch ==
    /\ importer.pc = "fail"
    /\ batches' = [batches EXCEPT ![importer.batch].status = "FAILED"]
    /\ importer' = Idle
    /\ UNCHANGED <<skus, inventory, balance, errorRows, syncer, crashes,
                   synced, cut, abandoned, collided>>

-----------------------------------------------------------------------------
(***************************************************************************)
(* The SyncWorker's upsert_events([event]), and the end of the process     *)
(***************************************************************************)

SyncCheck(e) ==
    /\ syncer = NoSync
    /\ syncer' = [event |-> e, exists |-> e \in inventory]
    /\ UNCHANGED <<skus, inventory, balance, batches, errorRows, importer,
                   crashes, synced, cut, abandoned, collided>>

\* The event's SKU is any; the foreign key asks for one that is known.
SyncInsert(sku) ==
    /\ syncer.event # None /\ ~syncer.exists
    /\ \/ /\ syncer.event \in inventory
          /\ collided' = collided \union {syncer.event}
          /\ UNCHANGED <<inventory, synced>>
       \/ /\ syncer.event \notin inventory
          /\ IF sku \in skus
             THEN /\ inventory' = inventory \union {syncer.event}
                  /\ synced' = synced \union {syncer.event}
             ELSE UNCHANGED <<inventory, synced>>
          /\ UNCHANGED collided
    /\ syncer' = NoSync
    /\ UNCHANGED <<skus, balance, batches, errorRows, importer, crashes, cut,
                   abandoned>>

SyncSkip ==
    /\ syncer.event # None /\ syncer.exists
    /\ syncer' = NoSync
    /\ UNCHANGED <<skus, inventory, balance, batches, errorRows, importer,
                   crashes, synced, cut, abandoned, collided>>

\* The process dies, or run_import raises what nobody catches (a locked or a
\* full database), which leaves the SyncWorker alone.
Crash ==
    /\ crashes < MaxCrashes
    /\ crashes' = crashes + 1
    /\ importer' = Idle
    /\ syncer' \in {syncer, NoSync}
    /\ cut' = IF importer.pc = "rebuild" THEN cut \union Fresh ELSE cut
    /\ abandoned' = IF importer.pc = "idle" THEN abandoned
                    ELSE abandoned \union {importer.batch}
    /\ UNCHANGED <<skus, inventory, balance, batches, errorRows, synced,
                   collided>>

-----------------------------------------------------------------------------
(***************************************************************************)
(* Specification                                                           *)
(***************************************************************************)

ImportStep ==
    \/ ValidateMaster \/ ValidateEvents \/ AddSku \/ EndMaster
    \/ CheckExisting \/ InsertEvents \/ InsertRefused \/ Rebuild
    \/ AddError \/ CompleteBatch \/ FailBatch

SyncStep ==
    \/ \E e \in Events : SyncCheck(e)
    \/ \E sku \in Skus : SyncInsert(sku)
    \/ SyncSkip

Next ==
    \/ \E f \in Files : StartImport(f)
    \/ ImportStep
    \/ SyncStep
    \/ Crash

Spec == Init /\ [][Next]_vars

\* run_import is a call on the UI thread: once begun it runs to its end.
FairSpec == Spec /\ WF_vars(ImportStep)

-----------------------------------------------------------------------------
(***************************************************************************)
(* Properties                                                              *)
(***************************************************************************)

Ended(b) == batches[b].status \in {"COMPLETED", "FAILED"}

Stored(f, row) == IF f \in MasterFiles THEN row.sku \in skus
                                       ELSE row.event \in inventory

ErrorsOf(b) == {x \in errorRows : x.batch = b}

\* 错误隔离: when a batch has ended, each row of the file is either stored or
\* has an import_error row of this batch; no row gets lost between validation,
\* the database's own checks and the SyncWorker's concurrent inserts.
ErrorIsolation ==
    \A b \in BatchIds : Ended(b) =>
        \A r \in DOMAIN Content[batches[b].file] :
            \/ Stored(batches[b].file, Content[batches[b].file][r])
            \/ \E x \in ErrorsOf(b) : x.error.row = r

\* The counts shown for a batch that has ended are those of the file and of
\* the errors that were really written.
CountsMatchRows ==
    \A b \in BatchIds : Ended(b) =>
        /\ batches[b].rows = Len(Content[batches[b].file])
        /\ batches[b].errors = Cardinality(ErrorsOf(b))

\* A file is committed at most once: two batches of one file are never both
\* COMPLETED, whatever crashed or failed in between.
CompletedOnce ==
    \A b, c \in BatchIds :
        (/\ batches[b].status = "COMPLETED" /\ batches[c].status = "COMPLETED"
         /\ batches[b].file = batches[c].file) => b = c

\* inventory_balance misses an event only if the SyncWorker stored it, a crash
\* struck before the rebuild, or the import that stored it is about to rebuild.
StaleOnlyBySyncOrCrash ==
    inventory \ balance \subseteq
        synced \union cut \union (IF importer.pc = "rebuild" THEN Fresh ELSE {})

\* A batch without its final status (still RUNNING, or COMPLETED although the
\* rule of run_import makes it FAILED) is in run_import's hands or was
\* abandoned by a crash or an IntegrityError.
UnfinishedHasOwner ==
    \A b \in BatchIds :
        \/ batches[b].status = "RUNNING"
        \/ /\ batches[b].status = "COMPLETED"
           /\ batches[b].rows > 0 /\ batches[b].errors = batches[b].rows
        => importer.batch = b \/ b \in abandoned

\* An import that is neither cut by a crash nor refused by the database gives
\* its batch a final status.
BatchEnds ==
    \A b \in BatchIds :
        batches[b].status = "RUNNING" ~> Ended(b) \/ b \in abandoned

\* import_manager.py and the wizard: FAILED is for a file none of whose rows
\* passed, so that each of its rows has an error to repair.
FailedMeansEveryRowFailed ==
    \A b \in BatchIds : batches[b].status = "FAILED" =>
        \A r \in DOMAIN Content[batches[b].file] :
            \E x \in ErrorsOf(b) : x.error.row = r

\* upsert_events: a single writer, so its check-then-insert never meets a
\* concurrent insert of the same event_id.
NoConcurrentInsert == collided = {}

=============================================================================
