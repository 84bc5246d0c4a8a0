-------------------------- MODULE MCImportPipeline --------------------------
(* Instances of ImportPipeline and ImportWizard for TLC.  `part' says which *)
(* of the two a behaviour is of; the other one stays in its initial state.  *)
EXTENDS ImportPipeline, ImportWizard

CONSTANTS s1, s2, e1, e2,
          skuFile, moreSkus, badFile, eventFile, mixedFile, poisonFile,
          here, there, skuCsv, skuCsvNew, eventCsv, binary,
          skuHeader, eventHeader

VARIABLE part

Line(event, sku, problems, poison) ==
    [event |-> event, sku |-> sku, problems |-> problems, poison |-> poison]

Sku(sku) == Line(None, sku, 0, FALSE)
Event(event, sku) == Line(event, sku, 0, FALSE)

\* skuFile names one SKU twice and has a bad row; moreSkus may repeat a SKU of
\* skuFile; the only row of badFile has two errors;
\* eventFile needs a SKU that may be unknown and repeats an event; mixedFile
\* has one row with two errors and one good row.
MCContent ==
    [f \in Files |->
        CASE f = skuFile    -> <<Sku(s1), Line(None, s2, 1, FALSE), Sku(s1)>>
          [] f = moreSkus   -> <<Sku(s2), Sku(s1)>>
          [] f = badFile    -> <<Line(None, None, 2, FALSE)>>
          [] f = eventFile  -> <<Event(e1, s1), Event(e2, s2), Event(e1, s1)>>
          [] f = mixedFile  -> <<Line(e1, s1, 2, FALSE), Event(e2, s1)>>
          [] f = poisonFile -> <<Event(e1, s1), Line(e2, s1, 0, TRUE)>>]

\* The two SKU files, one with bad rows only, have one header; the file of
\* events and the one the database refuses have another; binary has none.
MCHeader ==
    [c \in Contents |-> CASE c \in {skuCsv, skuCsvNew} -> skuHeader
                          [] c = eventCsv -> eventHeader
                          [] OTHER -> Gone]

MCSuggests == {<<"master", skuHeader>>, <<"events", eventHeader>>}

MCInit ==
    /\ Init /\ WizardInit
    /\ \/ part = "wizard"
       \/ part = "pipeline" /\ disk = [p \in Paths |-> binary]

MCNext ==
    \/ part = "pipeline" /\ Next /\ UNCHANGED <<importWizard, part>>
    \/ part = "wizard" /\ WizardNext /\ UNCHANGED <<vars, part>>

MCSpec == MCInit /\ [][MCNext]_<<vars, importWizard, part>> /\ WF_vars(ImportStep)

=============================================================================
