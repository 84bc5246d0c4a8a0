--------------------------- MODULE StockMetrics ----------------------------
(***************************************************************************)
(* What the calculators draw from a finished replay - the roll-up of       *)
(* inventory_kpi, the ages and the stale stock of abc_aging - and the      *)
(* properties of the replay and of these results.                          *)
(***************************************************************************)
EXTENDS StockReplay

CONSTANTS
    StaleWindow,   \* stale_window_days
    MinStock,      \* min_stock_qty
    GraceDays      \* new_inbound_grace_days

ASSUME MetricsAssumption ==
    /\ StaleWindow \in Nat /\ MinStock \in Nat /\ GraceDays \in Nat

----------------------------------------------------------------------------
(* inventory_kpi: _rollup_sku and _apply_inventory_value                    *)

BucketsOf(s) == {k \in Keys : k[1] = s /\ buckets[k].live}

Rolled(s, field) == Total([k \in Keys |-> buckets[k][field]], BucketsOf(s))

Rated == {s \in Skus : BucketsOf(s) # {}}   \* per_sku

Closing(s) == Rolled(s, "balance")

----------------------------------------------------------------------------
(* abc_aging: _aging_rows_for_sku                                           *)

SlicesOf(s) == UNION {{<<k, i>> : i \in DOMAIN buckets[k].slices} : k \in BucketsOf(s)}
Slice(x)    == buckets[x[1]].slices[x[2]]
LotStock(s) == {x \in SlicesOf(s) : Slice(x).lot # None /\ Slice(x).qty > 0}
Residual(s) == {x \in SlicesOf(s) : Slice(x).lot = None /\ Slice(x).qty > 0}

QtyIn(S) == Total([x \in S |-> Slice(x).qty], S)

\* The basis of the ages, first of: the lots in stock, the inbounds left by
\* FIFO when they make up the stock, all inbounds ever.
AgeBasis(s) ==
    CASE LotStock(s) # {} -> "lot"
      [] LotStock(s) = {} /\ Residual(s) # {} /\ QtyIn(Residual(s)) = Closing(s)
            -> "constituent"
      [] OTHER -> IF Rolled(s, "allQty") > 0 THEN "all_history" ELSE "missing"

\* The ages of a SKU's stock, as fractions of days.
Ages(s) ==
    CASE Closing(s) <= 0 -> {}
      [] Closing(s) > 0 /\ AgeBasis(s) = "lot" ->
            {Whole(request.end - Slice(x).day) : x \in LotStock(s)}
      [] Closing(s) > 0 /\ AgeBasis(s) = "constituent" ->
            {Whole(request.end - Slice(x).day) : x \in Residual(s)}
      [] Closing(s) > 0 /\ AgeBasis(s) = "all_history" ->
            {Over(Whole(request.end * Rolled(s, "allQty") - Rolled(s, "allWeighted")),
                  Rolled(s, "allQty"))}
      [] OTHER -> {}

----------------------------------------------------------------------------
(* abc_aging: F-STALE-001                                                   *)

LastOut(s) == LET days == {buckets[k].lastOut : k \in BucketsOf(s)} \ {None}
              IN  IF days = {} THEN None ELSE Largest(days)
FirstIn(s) == LET days == {buckets[k].firstIn : k \in BucketsOf(s)} \ {None}
              IN  IF days = {} THEN None ELSE Least(days)

NoOutflowDays(s) == IF LastOut(s) # None THEN request.end - LastOut(s)
                    ELSE IF FirstIn(s) # None THEN request.end - FirstIn(s)
                    ELSE None

\* No SKU is discontinued here.
IsStale(s) ==
    /\ ~(FirstIn(s) # None /\ FirstIn(s) > request.end - (StaleWindow + GraceDays))
    /\ Closing(s) > MinStock
    /\ NoOutflowDays(s) # None
    /\ NoOutflowDays(s) > StaleWindow

----------------------------------------------------------------------------
(* Properties                                                               *)

Bucket == [live : BOOLEAN, balance : Int, avg : [num : Int, den : Nat \ {0}] \union {None},
           captured : BOOLEAN, opening : Int, out : Int,
           cogs : [num : Int, den : Nat \ {0}],
           negative : BOOLEAN,
           firstNegative : [day : Days, value : Int] \union {None},
           pre : [Ids -> Int \union {None}], daily : [Days -> Int],
           slices : Seq([lot : Lots \union {None}, day : Days, qty : Nat]),
           lastOut : Days \union {None}, firstIn : Days \union {None},
           allQty : Int, allWeighted : Int]

\* Every variable stays within its type, a slice is never overdrawn, and a
\* record refers to itself or to an earlier one.
TypeOK ==
    /\ \A i \in DOMAIN ledger : ledger[i].rev \in 1..i \union {None}
    /\ pc \in {"idle", "asked", "loaded", "refused", "replay", "done"}
    /\ local \in BOOLEAN
    /\ request \in Period \union {None}
    /\ DOMAIN dataset \subseteq DOMAIN ledger
    /\ pending \subseteq DOMAIN dataset
    /\ buckets \in [Keys -> Bucket]
    /\ lastCost \in [Skus -> Nat \union {None}]
    /\ missingCost \subseteq Skus

----------------------------------------------------------------------------
Horizon == {i \in DOMAIN dataset : InHorizon(dataset[i]) /\ InHorizon(dataset[Origin(i)])}
Touching(k) == {i \in Horizon : KeyOf(i) = k}

Reverses(i) == dataset[i].move = "REVERSAL"
Direction(e) == IF e.move \in Inbound THEN 1 ELSE IF e.move \in Outbound THEN -1 ELSE 0

\* How often each event stands when those of S are replayed: once if it is one
\* of them, less as often as the events that reverse it stand.
Standing(S) ==
    LET net[i \in DOMAIN dataset] ==
            (IF i \in S THEN 1 ELSE 0)
            - Total(net, {j \in DOMAIN dataset : Reverses(j) /\ dataset[j].rev = i})
    IN  net

NetMoved(k, S) ==
    Total([i \in DOMAIN dataset |-> Direction(dataset[i]) * dataset[i].qty * Standing(S)[i]],
          {i \in DOMAIN dataset : /\ <<dataset[i].sku, dataset[i].wh>> = k
                                  /\ InHorizon(dataset[i])})

\* The balance the events of S leave in bucket k: what the last stocktake
\* counted, and every movement after it.
Reference(k, S) ==
    LET counts == {i \in S : /\ dataset[i].move = "STOCKTAKE"
                             /\ <<dataset[i].sku, dataset[i].wh>> = k}
        last   == CHOOSE i \in counts : \A j \in counts \ {i} :
                        Precedes(dataset[j], j, dataset[i], i)
    IN  IF counts = {} THEN NetMoved(k, S)
        ELSE dataset[last].qty
             + NetMoved(k, {i \in S : Precedes(dataset[last], last, dataset[i], i)})

StocktakeUndone(k) == \E i \in Touching(k) :
                         Reverses(i) /\ dataset[Origin(i)].move = "STOCKTAKE"

\* formula-spec 3.1 and 3.2, the conservation test_conservation.py samples for
\* inbounds and outbounds: whatever the order in which events, backdated
\* reversals, reversals of reversals and stocktakes are replayed, opening and
\* closing are what the events before the period and before its end leave, and
\* daily_out adds up to period_out_qty, as apply_and_track promises.
QuantitiesReconcile ==
    pc = "done" =>
        \A k \in Keys : buckets[k].live =>
            /\ ~StocktakeUndone(k) =>
                  /\ buckets[k].balance = Reference(k, Horizon)
                  /\ buckets[k].opening =
                        Reference(k, {i \in Horizon : dataset[i].day < request.start})
            /\ Total(buckets[k].daily, Days) = buckets[k].out

\* The lot book behind the ages never holds less than the balance while no
\* outbound is undone and nothing is counted; it holds exactly the balance
\* while, besides, nothing at all is undone and stock was never negative.
\* abc_aging relies on this when it takes the residual slices for the stock.
SlicesCoverBalance ==
    pc \in {"replay", "done"} =>
        \A k \in Keys :
            LET b == buckets[k]
                held == Held(b.slices, DOMAIN b.slices)
                undone == {i \in Touching(k) : Reverses(i)}
                counted == \E i \in Touching(k) : dataset[Origin(i)].move = "STOCKTAKE"
            IN  /\ ~counted /\ (\A i \in undone : dataset[Origin(i)].move \in Inbound)
                      => held >= b.balance
                /\ ~counted /\ undone = {} /\ b.firstNegative = None
                      => held = b.balance

\* formula-spec 3.6: while stock was never negative and nothing is undone, the
\* moving average is within the costs it averages, and so is the period's
\* cost of goods when nothing is returned.
AvgWithinCosts ==
    pc \in {"replay", "done"} =>
        \A k \in Keys :
            LET b == buckets[k]
                undone == \E i \in Touching(k) : Reverses(i)
                returned == \E i \in Touching(k) : dataset[i].move = "RETURN"
                costs == {dataset[i].cost : i \in {j \in Touching(k) \ pending :
                              dataset[j].move \in Inbound}} \ {None}
            IN  ~undone /\ b.firstNegative = None /\ b.avg # None =>
                  /\ AtMost(Whole(Least(costs)), b.avg)
                  /\ AtMost(b.avg, Whole(Largest(costs)))
                  /\ ~returned => AtMost(b.cogs, Whole(b.out * Largest(costs)))
                  /\ ~returned /\ k[1] \notin missingCost
                        => AtMost(Whole(b.out * Least(costs)), b.cogs)

\* The balances shown on the desktop and the closing quantities of an
\* analysis of the same database are the same, though rebuild adds up signed
\* deltas for each lot and the engine runs a state machine for each warehouse,
\* as long as the period reaches past the last event, no transfer is recorded
\* and a counted warehouse has one lot of the SKU.
ProjectionMatchesEngine ==
    /\ pc = "done" /\ local
    /\ DOMAIN dataset = DOMAIN ledger
    /\ \A i \in DOMAIN ledger :
          ledger[i].day < request.end /\ Movement(ledger[i]).move # "TRANSFER"
    /\ \A i, j \in DOMAIN ledger :
          /\ ledger[i].move = "ADJUSTMENT"
          /\ ledger[i].sku = ledger[j].sku /\ ledger[i].wh = ledger[j].wh
          => ledger[i].lot = ledger[j].lot
    => \A k \in Keys :
          buckets[k].balance = Total(Rebuilt,
                           {b \in BalanceKeys : <<b[1], b[2]>> = k})

\* formula-spec 5 and 6, whichever of the three populations an age is taken
\* from: as long as no event is undone more often than it stands, no age is
\* older than the first inbound of its SKU or younger than the last; and stock
\* called stale has seen no outbound inside the window in any warehouse asked
\* for, not even one that a reversal undid.
DatesAreWitnessed ==
    pc = "done" =>
        \A s \in Rated :
            LET days(moves) == {dataset[Origin(i)].day :
                                  i \in {j \in Horizon : /\ dataset[Origin(j)].sku = s
                                                         /\ dataset[Origin(j)].move \in moves}}
                signs == [i \in Horizon |-> SignOf(i)]
                stands(i) == Total(signs, {j \in Horizon : Origin(j) = i}) >= 0
            IN  /\ (\A i \in DOMAIN dataset : stands(i)) => \A age \in Ages(s) :
                      /\ AtMost(Whole(request.end - Largest(days(Inbound))), age)
                      /\ AtMost(age, Whole(request.end - Least(days(Inbound))))
                /\ IsStale(s) =>
                      \A i \in Horizon :
                          dataset[i].sku = s /\ dataset[i].move \in Outbound
                              => dataset[i].day < request.end - StaleWindow

\* dataset_adapter.py:124: the period of the default request covers every
\* event of the database, so an analysis of rows that did not change between
\* its two reads replays them all.
DefaultPeriodCoversLedger ==
    pc = "replay" /\ local /\ DOMAIN dataset = DOMAIN ledger
        => \A i \in DOMAIN dataset : dataset[i].day < request.end
=============================================================================
