-------------------------- MODULE MCStockMetrics ---------------------------
(* Instances of the analysis modules for TLC: the replay of a ledger, the   *)
(* calculators over outcomes of a replay, the exports of two workbenches,   *)
(* or the analysis page of one.  The cfg files give the other values.       *)
EXTENDS StockMetrics, Analytics, AnalysisPage

CONSTANTS s1, w1, w2, l1,
          Parts   \* of the instances below

VARIABLE part   \* the instance of this behaviour

MCRow(move, sku, wh, lot, qty, cost) ==
    [move |-> move, sku |-> sku, wh |-> wh, lot |-> lot, qty |-> qty, cost |-> cost]

MCMenu == {
    MCRow("INBOUND",     s1, w1, None, 2, 1),
    MCRow("INBOUND",     s1, w1, l1,   1, 3),
    MCRow("INBOUND",     s1, w2, None, 1, None),
    MCRow("OUTBOUND",    s1, w1, None, 1, None),
    MCRow("SCRAP",       s1, w1, l1,   2, None),
    MCRow("RETURN",      s1, w1, None, 1, 2),
    MCRow("ADJUSTMENT",  s1, w1, None, 3, None),
    MCRow("TRANSFER_IN", s1, w2, None, 1, None),
    MCRow("REVERSAL",    s1, w1, None, 1, None)}

\* A period after some history, the same in one warehouse, and an empty one.
MCRequests == {
    [start |-> 1, end |-> 2, scope |-> {}],
    [start |-> 1, end |-> 2, scope |-> {w1}],
    [start |-> 0, end |-> 1, scope |-> {}]}

----------------------------------------------------------------------------
\* A SKU that sells n on the first day of the period, one a piece.
MCSells(n) ==
    [replayed |-> TRUE, touched |-> TRUE, costless |-> FALSE,
     opening |-> n + 2, closing |-> 2, cogs |-> n,
     daily |-> [d \in 0..5 |-> IF d = 0 THEN n ELSE 0], cost |-> 1,
     snapshot |-> None, stock |-> <<[qty |-> 2, age |-> 3]>>,
     lastOut |-> 5, firstIn |-> 9, lead |-> 2]

\* Amounts that reach 80 and 95 percent exactly; stock without a date or a
\* cost, with a snapshot or not; a SKU below zero, one that stands still and
\* one that only a snapshot names.
MCSheets == {
    MCSells(16),
    [MCSells(3) EXCEPT !.closing = 0, !.opening = 3, !.stock = << >>],
    [MCSells(1) EXCEPT !.stock = << >>, !.firstIn = None, !.lead = None],
    [MCSells(2) EXCEPT !.cost = None, !.costless = TRUE, !.cogs = 0, !.lead = None],
    [MCSells(0) EXCEPT !.opening = 1, !.closing = -2, !.cost = 2, !.stock = << >>,
                       !.daily[1] = -1, !.daily[4] = 3],
    [MCSells(0) EXCEPT !.touched = FALSE, !.snapshot = 6, !.cost = None,
                       !.lastOut = None],
    [MCSells(0) EXCEPT !.touched = FALSE, !.cost = None],
    [MCSells(0) EXCEPT !.touched = FALSE, !.cost = 2, !.lastOut = 8],
    [MCSells(0) EXCEPT !.replayed = FALSE, !.touched = FALSE, !.opening = 0,
                       !.closing = 0, !.cost = None, !.snapshot = 7, !.stock = << >>,
                       !.lastOut = None, !.firstIn = None, !.lead = None]}

MCBenchmark(about, version, source, value) ==
    [complete |-> TRUE, fits |-> TRUE, about |-> about, version |-> version,
     source |-> source, value |-> value]

MCQuestion(days, start, split, lead) ==
    [days |-> days, start |-> start, split |-> split, lead |-> lead,
     stopped |-> {}, benchmarks |-> {}]

\* Whole weeks and cut ones, a split before, in and after the period, an
\* empty period; benchmarks that are older, void, zero or about null figures.
MCQuestions == {
    MCQuestion(6, 0, 4, None),
    [MCQuestion(6, 1, 3, 3) EXCEPT !.stopped = {2},
        !.benchmarks = {MCBenchmark("OUT_QTY", 1, 2, 5), MCBenchmark("OUT_QTY", 1, 1, 0),
                        MCBenchmark("TURNOVER", 1, 1, 3)}],
    [MCQuestion(2, 0, 0, None) EXCEPT
        !.benchmarks = {[MCBenchmark("OUT_QTY", 1, 1, 5) EXCEPT !.complete = FALSE],
                        [MCBenchmark("COGS", 1, 1, 5) EXCEPT !.fits = FALSE]}],
    [MCQuestion(4, 1, -9, 1) EXCEPT
        !.benchmarks = {MCBenchmark("COVERAGE_DAYS", 2, 1, 5),
                        MCBenchmark("COVERAGE_DAYS", 1, 1, 0)}],
    MCQuestion(0, 0, 0, None)}

----------------------------------------------------------------------------
MCInit ==
    /\ part \in Parts
    /\ Init /\ ReportsInit /\ PageInit
    /\ IF part = "analytics" THEN AnalyticsInit
       ELSE sheets = << >> /\ asked = None /\ stage = "none" /\ figures = << >>
            /\ warned = {}

\* The reports of one run are enough: those of another are apart.
MCNext ==
    /\ UNCHANGED part
    /\ \/ part = "replay" /\ Next /\ UNCHANGED <<analytics, reports, analysisPage>>
       \/ part = "analytics" /\ AnalyticsNext /\ UNCHANGED <<vars, reports, analysisPage>>
       \/ /\ part = "reports"
          /\ ReportsNext /\ made' <= 1
          /\ UNCHANGED <<vars, analytics, analysisPage>>
       \/ part = "page" /\ PageNext /\ UNCHANGED <<vars, analytics>>

MCSpec == MCInit /\ [][MCNext]_<<part, vars, analytics, reports, analysisPage>>
=============================================================================
