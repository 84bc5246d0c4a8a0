------------------------------ MODULE Analytics -----------------------------
(***************************************************************************)
(* WarehouseEngine.analyze after its replay: the calculators for KPIs, ABC *)
(* classes, ages and stale stock, replenishment, forecast and industry     *)
(* benchmark, one step each, over what a replay leaves of each SKU (a      *)
(* sheet; StockReplay and StockMetrics say how it comes about).            *)
(*                                                                         *)
(* SKUs are numbered in the order of their ids.  Of a figure the model     *)
(* keeps whether it is null, its sample count and its reason; the amounts  *)
(* stay where one of these, or a class, depends on them.  z, the standard  *)
(* deviation and the root of the lead time only scale figures that are     *)
(* given, and are left out, as are rounding and texts.                     *)
(***************************************************************************)
EXTENDS Amounts, FiniteSets, Sequences

CONSTANTS
    Sheets,        \* what a replay may leave of a SKU
    SkuCount,      \* bound: SKUs of a dataset
    Questions,     \* the requests, with the benchmarks injected into them
    LongestPeriod, \* bound: days of a period
    WeekDays,      \* 7
    AverageWeeks,  \* MOVING_AVERAGE_WEEKS
    MinSamples,    \* MIN_SAMPLES
    ThresholdA, ThresholdB,   \* abc_threshold_a, abc_threshold_b, in percent
    StaleAfter,    \* stale_window_days
    StockFloor,    \* min_stock_qty
    Grace          \* new_inbound_grace_days

\* replayed: the SKU has a bucket; otherwise it has a snapshot only.
\* touched: a movement of the SKU itself is dated in the period.  costless:
\* something went out before any cost was known.  stock: the entries of
\* _aging_rows_for_sku.  lead: of dataset.replenishment.
Sheet == [replayed : BOOLEAN, touched : BOOLEAN, costless : BOOLEAN,
          opening : Int, closing : Int, cogs : Nat,
          daily : [0..LongestPeriod - 1 -> Int],
          cost : Nat \union {None}, snapshot : Nat \union {None},
          stock : Seq([qty : Nat \ {0}, age : Nat]),
          lastOut : Nat \union {None}, firstIn : Nat \union {None},
          lead : Nat \union {None}]

\* start: the weekday of start_date.  split: the day of the period on which
\* split_date falls.  fits: the record's industry and region are those asked.
Question == [days : 0..LongestPeriod, start : 0..WeekDays - 1, split : Int,
             lead : Nat \union {None}, stopped : SUBSET Nat,
             benchmarks : SUBSET [complete : BOOLEAN, fits : BOOLEAN,
                                  about : STRING, version : Nat, source : Nat,
                                  value : Int]]

\* The reasons the calculators give of a null figure.
Reasons == {"empty_dataset", "avg_inventory_value_nonpositive", "turnover_nonpositive",
            "nonpositive_closing", "zero_period_days", "no_outflow", "zero_total_amount",
            "no_closing_stock", "param_missing", "empty_forecast_window",
            "zero_actual_demand", "benchmark_unavailable", "zero_benchmark_value"}

ASSUME AnalyticsAssumption ==
    /\ None \notin Int \union Reasons
    /\ Sheets \subseteq Sheet /\ Questions \subseteq Question
    /\ \A x \in Sheets : x.replayed \/ x.snapshot # None
    /\ {SkuCount, LongestPeriod, ThresholdA, StaleAfter, StockFloor, Grace} \subseteq Nat
    /\ {WeekDays, AverageWeeks, MinSamples} \subseteq Nat \ {0}
    /\ ThresholdB \in Nat /\ ThresholdA <= ThresholdB

VARIABLES
    sheets,   \* the outcome of the replay, by SKU
    asked,    \* the AnalysisRequest
    stage,    \* how far analyze has come
    figures,  \* the metrics so far, by name
    warned    \* the warnings so far: code and SKU, or 0 for the dataset

analytics == <<sheets, asked, stage, figures, warned>>

----------------------------------------------------------------------------
KpiNames == {"OPENING_QTY", "CLOSING_QTY", "OUT_QTY", "ACTIVE_RATIO",
             "INVENTORY_VALUE", "COGS", "TURNOVER", "TURNOVER_DAYS", "COVERAGE_DAYS"}
ReplNames == {"SAFETY_STOCK", "REORDER_POINT", "SUGGESTED_QTY"}
Names     == KpiNames \union ReplNames \union {"CLASSIFIED", "AVG_AGE", "STALE_AMOUNT",
                "NEXT_WEEK", "MAPE", "DEVIATION"}

Given(n)     == [null |-> FALSE, count |-> n, reason |-> None]
Null(n, why) == [null |-> TRUE, count |-> n, reason |-> why]

\* The figure is null for the first of the reasons whose condition holds.
Unless(n, bars) ==
    LET hit == {i \in DOMAIN bars : bars[i].holds}
    IN  IF hit = {} THEN Given(n) ELSE Null(bars[Least(hit)].n, bars[Least(hit)].why)

Bar(holds, n, why) == [holds |-> holds, n |-> n, why |-> why]

SkuIds     == DOMAIN sheets
Period0    == 0..asked.days - 1
Sum(g(_))  == Total([s \in SkuIds |-> g(s)], SkuIds)
OutQty(s)  == Total(sheets[s].daily, Period0)
InStock(s) == sheets[s].closing > 0

----------------------------------------------------------------------------
(* inventory_kpi                                                            *)

\* _apply_inventory_value
ValueOf(s) ==
    IF sheets[s].closing = 0 THEN 0
    ELSE IF sheets[s].cost # None THEN sheets[s].closing * sheets[s].cost
    ELSE sheets[s].snapshot

Unpriced == {s \in SkuIds : sheets[s].closing # 0 /\ sheets[s].cost = None}

ClosingValue == Sum(LAMBDA s : IF ValueOf(s) = None THEN 0 ELSE ValueOf(s))
OpeningValue == Sum(LAMBDA s : IF sheets[s].cost = None THEN 0
                               ELSE sheets[s].opening * sheets[s].cost)
CogsTotal    == Sum(LAMBDA s : sheets[s].cogs)
ClosingTotal == Sum(LAMBDA s : sheets[s].closing)
OutTotal     == Sum(OutQty)

\* F-KPI-004: in stock, or moved in the period.
ActiveBase == {s \in SkuIds : InStock(s) \/ sheets[s].touched}

KpiFigures ==
    LET n == Len(sheets)
        turnover == Unless(n,
            <<Bar(OpeningValue + ClosingValue <= 0, n, "avg_inventory_value_nonpositive"),
              Bar(CogsTotal <= 0, n, "turnover_nonpositive")>>)
    IN  [f \in KpiNames |->
          CASE f = "ACTIVE_RATIO" ->
                 Unless(Cardinality(ActiveBase),
                        <<Bar(ActiveBase = {}, 0, "empty_dataset")>>)
            [] f \in {"TURNOVER", "TURNOVER_DAYS"} -> turnover
            [] f = "COVERAGE_DAYS" ->
                 Unless(n, <<Bar(ClosingTotal <= 0, n, "nonpositive_closing"),
                             Bar(asked.days = 0, n, "zero_period_days"),
                             Bar(OutTotal <= 0, n, "no_outflow")>>)
            [] OTHER -> Given(n)]

\* Mutation: only the SKUs whose outbound had no cost are reported.
CostWarnedForOutbound == {s \in SkuIds : sheets[s].costless}

CostWarned == Unpriced \union {s \in SkuIds : sheets[s].costless}

----------------------------------------------------------------------------
(* abc_aging                                                                *)

Amount(s) == IF sheets[s].cost = None THEN 0
             ELSE Positive(OutQty(s)) * sheets[s].cost
AmountTotal == Sum(Amount)

\* _classify_abc: by amount, the largest first, and then by id.
Ahead(t, s) == Amount(t) > Amount(s) \/ (Amount(t) = Amount(s) /\ t < s)

\* Mutation: the SKUs are taken in the order of their ids.
RunningById(s) == Total([t \in SkuIds |-> Amount(t)], {t \in SkuIds : t <= s})

Running(s) == Total([t \in SkuIds |-> Amount(t)],
                    {t \in SkuIds : t = s \/ Ahead(t, s)})

AbcClass(s) ==
    IF Amount(s) = 0 THEN "C"
    ELSE IF 100 * Running(s) <= ThresholdA * AmountTotal THEN "A"
    ELSE IF 100 * Running(s) <= ThresholdB * AmountTotal THEN "B"
    ELSE "C"

Aged    == {s \in SkuIds : InStock(s) /\ sheets[s].stock # << >>}
Undated == {s \in SkuIds : InStock(s) /\ sheets[s].stock = << >>}
AgingRows == Sum(LAMBDA s : IF s \in Aged THEN Len(sheets[s].stock) ELSE 0)

\* _no_outflow_days; both dates are kept as days before end_date.
QuietDays(s) == IF sheets[s].lastOut # None THEN sheets[s].lastOut ELSE sheets[s].firstIn

NotStale(s) ==
    \/ s \in asked.stopped
    \/ sheets[s].firstIn # None /\ sheets[s].firstIn < StaleAfter + Grace
    \/ sheets[s].closing <= StockFloor
    \/ QuietDays(s) = None
    \/ QuietDays(s) <= StaleAfter

AbcAgingFigures ==
    [CLASSIFIED |-> [Given(Len(sheets)) EXCEPT
                        !.reason = IF AmountTotal = 0 /\ sheets # << >>
                                   THEN "zero_total_amount" ELSE None],
     AVG_AGE |-> Unless(AgingRows, <<Bar(Aged = {}, 0, "no_closing_stock")>>),
     STALE_AMOUNT |-> Given(Cardinality({s \in SkuIds : ~NotStale(s)}))]

----------------------------------------------------------------------------
(* replenishment                                                            *)

\* _sku_parameters: the SKU's own record, then the request; there is no
\* default lead time.
LeadTime(s) == IF sheets[s].lead # None THEN sheets[s].lead ELSE asked.lead

Unparameterised == {s \in SkuIds : LeadTime(s) = None}

\* Without a SKU nothing gives a reason, and the null figure has none.
ReplFigures ==
    LET computed == IF asked.days = 0 THEN {} ELSE SkuIds \ Unparameterised
    IN  [f \in ReplNames |->
            Unless(Cardinality(computed),
                   <<Bar(SkuIds = {}, 0, None),
                     Bar(asked.days = 0, 0, "zero_period_days"),
                     Bar(computed = {}, 0, "param_missing")>>)]

----------------------------------------------------------------------------
(* forecasting                                                              *)

\* week_start_of and weekly_series: the weeks the period touches, whole or not.
WeekOf(d) == (asked.start + d) \div WeekDays
Weeks     == {WeekOf(d) : d \in Period0}
Forecast  == {s \in SkuIds : sheets[s].replayed /\ Weeks # {}}

Demand(s, w) == Total([d \in Period0 |-> Positive(sheets[s].daily[d])],
                      {d \in Period0 : WeekOf(d) = w})

\* _moving_average before week w: of four weeks, or of those there are.
Past(w)    == {v \in Weeks : w - AverageWeeks <= v /\ v < w}
WeekBegins(w) == w * WeekDays - asked.start

\* The (SKU, week) pairs whose error is pooled, and those that enter MAPE.
Pooled == {x \in Forecast \X Weeks : WeekBegins(x[2]) >= asked.split /\ Past(x[2]) # {}}
Scored == {x \in Pooled : Demand(x[1], x[2]) > 0}

FewSamples == IF Cardinality(Weeks) < MinSamples THEN Forecast ELSE {}

ForecastFigures ==
    [NEXT_WEEK |-> Unless(Cardinality(Forecast),
                          <<Bar(Forecast = {}, 0, "empty_dataset")>>),
     MAPE |-> Unless(Cardinality(Scored),
                     <<Bar(Pooled = {}, 0, "empty_forecast_window"),
                       Bar(Scored = {}, 0, "zero_actual_demand")>>)]

----------------------------------------------------------------------------
(* benchmark_compare                                                        *)

\* parse_benchmarks drops a record that lacks a field; the rest are found by
\* industry, region and metric.
Applicable(f) == {r \in asked.benchmarks : r.complete /\ r.fits /\ r.about = f}

\* _select_latest: the newest, and of equally new ones the first by source.
Selected(f) ==
    CHOOSE r \in Applicable(f) : \A q \in Applicable(f) :
        r.version > q.version \/ (r.version = q.version /\ r.source <= q.source)

Compared == {f \in KpiNames : Applicable(f) # {} /\ ~figures[f].null}
Deviating == {f \in Compared : Selected(f).value # 0}

BenchmarkFigure ==
    Unless(Cardinality(Deviating),
           <<Bar(Compared = {}, 0, "benchmark_unavailable"),
             Bar(Deviating = {}, 0, "zero_benchmark_value")>>)

----------------------------------------------------------------------------
(* WarehouseEngine.analyze                                                  *)

\* An empty period leaves nothing moved, sold or charged.
Still(x) == ~x.touched /\ ~x.costless /\ x.opening = x.closing /\ x.cogs = 0

AnalyticsInit ==
    /\ \E n \in 0..SkuCount : sheets \in [1..n -> Sheets]
    /\ asked \in Questions
    /\ asked.days = 0 => \A s \in SkuIds : Still(sheets[s])
    /\ stage = "replayed"
    /\ figures = << >>
    /\ warned = {}

Conclude(from, to, new, found) ==
    /\ stage = from
    /\ stage' = to
    /\ figures' = [f \in DOMAIN figures \union DOMAIN new |->
                      IF f \in DOMAIN new THEN new[f] ELSE figures[f]]
    /\ warned' = warned \union found
    /\ UNCHANGED <<sheets, asked>>

Naming(code, S) == {<<code, s>> : s \in S}

Kpi == Conclude("replayed", "kpi", KpiFigures, Naming("UNIT_COST_MISSING", CostWarned))

AbcAging ==
    Conclude("kpi", "abc", AbcAgingFigures,
             Naming("NO_OUTFLOW", {s \in SkuIds : Amount(s) = 0})
               \union Naming("DATE_MISSING", Undated))

Replenish == Conclude("abc", "repl", ReplFigures, Naming("PARAM_MISSING", Unparameterised))

ForecastDemand ==
    Conclude("repl", "fcst", ForecastFigures, Naming("INSUFFICIENT_SAMPLES", FewSamples))

Compare ==
    Conclude("fcst", "done", [DEVIATION |-> BenchmarkFigure],
             IF BenchmarkFigure.null THEN {<<"BENCHMARK_UNAVAILABLE", 0>>} ELSE {})

\* The result is returned; the next analysis is another initial state.
Deliver == stage = "done" /\ UNCHANGED analytics

AnalyticsNext ==
    \/ Kpi \/ AbcAging \/ Replenish \/ ForecastDemand \/ Compare \/ Deliver

AnalyticsSpec == AnalyticsInit /\ [][AnalyticsNext]_analytics

----------------------------------------------------------------------------
(* Properties                                                               *)

Worse == [A |-> 1, B |-> 2, C |-> 3]

AmountOf(S) == Total([s \in SkuIds |-> Amount(s)], S)

\* formula-spec 4: no SKU is in a worse class than one that sells for less;
\* the A SKUs, and the A and B SKUs, stay within their shares of all sales;
\* and they are as many as the shares allow: with any of the best sellers left
\* out the share would be passed.
AbcRanksByAmount ==
    stage = "abc" =>
        LET A == {s \in SkuIds : AbcClass(s) = "A"}
            AB == {s \in SkuIds : AbcClass(s) \in {"A", "B"}}
            sold == {s \in SkuIds : Amount(s) > 0}
            Fills(S, percent) ==
                /\ 100 * AmountOf(S) <= percent * AmountTotal
                /\ \A s \in sold \ S :
                      (\A t \in sold \ S : Amount(t) <= Amount(s))
                         => 100 * (AmountOf(S) + Amount(s)) > percent * AmountTotal
        IN  /\ \A s, t \in SkuIds : Amount(s) > Amount(t)
                  => Worse[AbcClass(s)] <= Worse[AbcClass(t)]
            /\ AB \subseteq sold
            /\ Fills(A, ThresholdA) /\ Fills(AB, ThresholdB)

Named(code) == {s \in SkuIds : <<code, s>> \in warned}

\* Whatever is missing - costs, dates, lead times, a period, every SKU - a
\* finished analysis says what it left out.  A null figure has a reason, but for
\* the replenishment of no SKU at all.  A SKU without a value is named for its
\* cost; one in stock is in the sample of the ages or named for its dates, also
\* when other SKUs make AVG_AGE a number; one of a period is in the replenishment
\* or named for its parameters; the classes are called void when every SKU is
\* named for having no sales.  What the forecast leaves out are the SKUs that
\* have only a snapshot, and no others.  These it does not name: a gap of the
\* code against formula-spec.md:240 that the property does not deny.
\* The figures and the warnings are drawn up apart, often by two calculators.
LeftOutIsNamed ==
    stage = "done" =>
        /\ \A f \in Names :
              figures[f].null /\ figures[f].reason = None
                 => f \in ReplNames /\ sheets = << >>
        /\ \A s \in SkuIds : ValueOf(s) = None => s \in Named("UNIT_COST_MISSING")
        /\ LET sample == {s \in SkuIds : InStock(s)} \ Named("DATE_MISSING")
           IN  /\ \A s \in sample : sheets[s].stock # << >>
               /\ figures.AVG_AGE.count =
                     Sum(LAMBDA s : IF s \in sample THEN Len(sheets[s].stock) ELSE 0)
        /\ asked.days > 0 =>
              /\ figures.SUGGESTED_QTY.count + Cardinality(Named("PARAM_MISSING"))
                    = Len(sheets)
              /\ figures.NEXT_WEEK.count
                    = Len(sheets) - Cardinality({s \in SkuIds : ~sheets[s].replayed})
        /\ figures.CLASSIFIED.reason # None
              <=> Named("NO_OUTFLOW") = SkuIds /\ sheets # << >>
        /\ figures.DEVIATION.null <=> <<"BENCHMARK_UNAVAILABLE", 0>> \in warned
=============================================================================
