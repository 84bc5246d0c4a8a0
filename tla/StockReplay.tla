---------------------------- MODULE StockReplay ----------------------------
(***************************************************************************)
(* What the inventory events are worth: the workbench's balance projection *)
(* (BalanceProjectionService), the adapter that turns the local ledger     *)
(* into the engine's dataset (SqliteDatasetAdapter) and the engine's       *)
(* replay kernel (replay_movements), one action per event replayed.        *)
(*                                                                         *)
(* The ledger is inventory_event in the order of insertion: an event's id  *)
(* is its position, and events of one day are ordered by it, as            *)
(* (occurred_at, event_id) orders them.  A reversal refers to an event     *)
(* that is already there (a foreign key), but may be dated before it.      *)
(***************************************************************************)
EXTENDS Amounts, Sequences, FiniteSets

CONSTANTS
    Skus, Warehouses,
    Lots,          \* the table lot, a finite one
    MaxDay,        \* bound: the days of occurrence are 0..MaxDay
    MaxEvents,     \* bound: rows of inventory_event
    Menu,          \* the rows an import may bring, but for day and reversal_of
    SnapshotDays,  \* the dates of stock_snapshot, up to a day later
    Requests       \* the periods and warehouses asked for with a ready dataset

Days   == 0..MaxDay
Ids    == 1..MaxEvents
Keys   == Skus \X Warehouses

LocalMoves == {"INBOUND", "OUTBOUND", "RETURN", "SCRAP", "ADJUSTMENT",
               "TRANSFER_IN", "TRANSFER_OUT", "REVERSAL"}

Row == [move : LocalMoves, sku : Skus, wh : Warehouses, lot : Lots \union {None},
        qty : Nat \ {0}, cost : Nat \union {None}]

Period == [start : 0..MaxDay + 1, end : 0..MaxDay + 1, scope : SUBSET Warehouses]

ASSUME StockAssumption ==
    /\ MaxDay \in Nat /\ MaxEvents \in Nat /\ IsFiniteSet(Lots)
    /\ None \notin Nat \union Lots
    /\ None \notin [num : Int, den : Nat \ {0}] \union [day : Days, value : Int]
    /\ Menu \subseteq Row
    /\ SnapshotDays \subseteq 0..MaxDay + 1
    /\ Requests \subseteq Period
    /\ \A q \in Requests : q.start <= q.end

VARIABLES
    ledger,      \* inventory_event
    pc,          \* where RunAnalysisUseCase.run stands
    local,       \* the dataset comes from the local database
    request,     \* the AnalysisRequest
    dataset,     \* the movements handed to the engine, by event id
    pending,     \* the events the replay has still to take
    buckets,     \* one _BucketState for each (sku, warehouse)
    lastCost,    \* last_cost_by_sku
    missingCost  \* missing_cost_skus

engine == <<pc, local, request, dataset, pending, buckets, lastCost, missingCost>>
vars   == <<ledger, engine>>

----------------------------------------------------------------------------
(* The projection                                                           *)

MoveSign(move) ==
    IF move \in {"INBOUND", "RETURN", "TRANSFER_IN"} THEN 1
    ELSE IF move \in {"OUTBOUND", "SCRAP", "TRANSFER_OUT"} THEN -1
    ELSE 0   \* unknown to _DIRECTION_SIGNS: a warning and no effect

Precedes(e, i, f, j) == e.day < f.day \/ (e.day = f.day /\ i < j)

BalanceKey(e) == <<e.sku, e.wh, e.lot>>
BalanceKeys   == Skus \X Warehouses \X (Lots \union {None})

\* Mutation: the counted quantity is taken for a difference.
EventDeltaCountIsDifference(e, current) ==
    CASE e.move = "ADJUSTMENT" -> e.qty
      [] e.move = "REVERSAL"   -> IF e.rev = None THEN 0
                                  ELSE -MoveSign(ledger[e.rev].move) * ledger[e.rev].qty
      [] OTHER                 -> MoveSign(e.move) * e.qty

\* _event_delta, current being what the event's own key holds.
EventDelta(e, current) ==
    CASE e.move = "ADJUSTMENT" -> e.qty - current
      [] e.move = "REVERSAL"   -> IF e.rev = None THEN 0
                                  ELSE -MoveSign(ledger[e.rev].move) * ledger[e.rev].qty
      [] OTHER                 -> MoveSign(e.move) * e.qty

\* rebuild, in one transaction: a function of the ledger and of nothing else.
Rebuilt ==
    LET all == DOMAIN ledger
        before(i) == {j \in all : Precedes(ledger[j], j, ledger[i], i)}
        nth(k) == CHOOSE i \in all : Cardinality(before(i)) = k - 1
        after[k \in 0..Len(ledger)] ==
            IF k = 0 THEN [b \in BalanceKeys |-> 0]
            ELSE [after[k - 1] EXCEPT
                    ![BalanceKey(ledger[nth(k)])] = @ + EventDelta(ledger[nth(k)], @)]
    IN  after[Len(ledger)]

----------------------------------------------------------------------------
(* The adapter and the validation                                           *)

MoveType(move) ==
    CASE move = "ADJUSTMENT" -> "STOCKTAKE"
      [] move \in {"TRANSFER_IN", "TRANSFER_OUT"} -> "TRANSFER"
      [] OTHER -> move

Movement(e) == [e EXCEPT !.move = MoveType(e.move)]

LedgerDays == {ledger[i].day : i \in DOMAIN ledger} \union SnapshotDays

DefaultRequest == [start |-> Least(LedgerDays),
                   end   |-> Largest(LedgerDays),
                   scope |-> Warehouses]

InScope(e, q) == q.scope = {} \/ e.wh \in q.scope

\* The adapter's period is closed at both ends, and it sets no reversal_of.
AdapterDataset ==
    LET taken == {i \in DOMAIN ledger : /\ ledger[i].day \in request.start..request.end
                                        /\ InScope(ledger[i], request)}
    IN  [i \in taken |-> [Movement(ledger[i]) EXCEPT !.rev = None]]

ContractDataset == [i \in DOMAIN ledger |-> Movement(ledger[i])]

\* The reversals from event i down to the event they are about.
Chain(i) ==
    LET at[k \in 0..MaxEvents] ==
            IF k = 0 THEN i
            ELSE IF at[k - 1] # None /\ at[k - 1] \in DOMAIN dataset
                 THEN IF dataset[at[k - 1]].move = "REVERSAL"
                      THEN dataset[at[k - 1]].rev ELSE at[k - 1]
                 ELSE None
    IN  at

Origin(i)  == Chain(i)[MaxEvents]
Layers(i)  == {k \in 0..MaxEvents - 1 : dataset[Chain(i)[k]].move = "REVERSAL"}
\* Mutation: every reversal undoes, whatever it reverses.
SignOfIgnoresChain(i) == IF dataset[i].move = "REVERSAL" THEN -1 ELSE 1
SignOf(i)  == IF Cardinality(Layers(i)) % 2 = 0 THEN 1 ELSE -1

\* apply_dataset_rules: every chain of reversals ends at an event.  The
\* other rules hold of rows the ledger's constraints have accepted.
ReversalsResolve ==
    \A i \in DOMAIN dataset :
        /\ Origin(i) \in DOMAIN dataset
        /\ dataset[Origin(i)].move # "REVERSAL"

----------------------------------------------------------------------------
(* The bucket                                                               *)

Inbound  == {"INBOUND", "RETURN"}
Outbound == {"OUTBOUND", "SCRAP"}

NewBucket ==
    [live |-> FALSE, balance |-> 0, avg |-> None,
     captured |-> FALSE, opening |-> 0, out |-> 0, cogs |-> Whole(0),
     negative |-> FALSE, firstNegative |-> None,
     pre |-> [i \in Ids |-> None], daily |-> [d \in Days |-> 0],
     slices |-> << >>, lastOut |-> None, firstIn |-> None,
     allQty |-> 0, allWeighted |-> 0]

\* capture_opening_if_needed
Captured(b) ==
    IF b.captured THEN b
    ELSE [b EXCEPT !.captured = TRUE, !.opening = b.balance,
                   !.negative = @ \/ b.balance < 0]

\* _track_negative
Tracked(b, day, inPeriod) ==
    IF b.balance >= 0 THEN b
    ELSE [b EXCEPT
            !.firstNegative = IF @ = None THEN [day |-> day, value |-> b.balance] ELSE @,
            !.negative = @ \/ inPeriod]

\* Mutation: the incoming quantity is left out of the weight.
NewAvgUnweighted(b, e, sign) ==
    IF e.cost = None THEN b.avg
    ELSE IF b.avg = None THEN IF sign = 1 THEN Whole(e.cost) ELSE None
    ELSE IF b.balance = 0 THEN b.avg
    ELSE Over(Plus(Times(b.balance, b.avg), Whole(sign * e.qty * e.cost)), b.balance)

\* _update_avg_inbound
NewAvg(b, e, sign) ==
    IF e.cost = None THEN b.avg
    ELSE IF b.avg = None THEN IF sign = 1 THEN Whole(e.cost) ELSE None
    ELSE IF b.balance + sign * e.qty = 0 THEN b.avg
    ELSE Over(Plus(Times(b.balance, b.avg), Whole(sign * e.qty * e.cost)),
              b.balance + sign * e.qty)

\* _drain: take n from the slices of the set `from`, those of the set
\* `ahead[i]` being emptied before slice i.
Drain(slices, from, ahead, n) ==
    LET held == [i \in DOMAIN slices |-> slices[i].qty]
        left(i) == Positive(n - Total(held, from \intersect ahead[i]))
    IN  [i \in DOMAIN slices |->
            IF i \in from
            THEN [slices[i] EXCEPT !.qty = @ - Smaller(@, left(i))]
            ELSE slices[i]]

OfLot(slices, lot) == {i \in DOMAIN slices : slices[i].lot = lot}
Held(slices, S)    == Total([i \in DOMAIN slices |-> slices[i].qty], S)

\* _add_lot_slice: a lot has one slice, with the date of its latest inbound.
AddSlice(slices, e) ==
    IF e.lot # None /\ OfLot(slices, e.lot) # {}
    THEN LET own == Least(OfLot(slices, e.lot))
         IN  [slices EXCEPT ![own].qty = @ + e.qty,
                            ![own].day = IF e.day > @ THEN e.day ELSE @]
    ELSE Append(slices, [lot |-> e.lot, day |-> e.day, qty |-> e.qty])

\* Mutation: what the event's own lot lacks is not taken from the others.
ConsumeOwnLot(slices, e) ==
    LET own == IF e.lot = None THEN {} ELSE OfLot(slices, e.lot)
        older == [i \in DOMAIN slices |-> 1..i - 1]
    IN  Drain(slices, own, older, e.qty)

\* _consume_lot_slice: the event's own lot first, then the oldest slices.
ConsumeSlices(slices, e) ==
    LET own   == IF e.lot = None THEN {} ELSE OfLot(slices, e.lot)
        older == [i \in DOMAIN slices |-> 1..i - 1]
        first == Drain(slices, own, older, e.qty)
    IN  Drain(first, DOMAIN slices, older, Positive(e.qty - Held(slices, own)))

\* _remove_lot_slice: the slices of the lot, the newest first.
RemoveSlices(slices, e) ==
    LET own == IF e.lot = None THEN DOMAIN slices ELSE OfLot(slices, e.lot)
        newer == [i \in DOMAIN slices |-> i + 1..Len(slices)]
    IN  Drain(slices, own, newer, e.qty)

\* What the event adds to the period's outgoing quantity, if its base event
\* counts in the period.
OutDelta(e, sign, counts) ==
    IF ~counts THEN 0
    ELSE IF e.move \in Outbound THEN sign * e.qty
    ELSE IF e.move = "RETURN" THEN -(sign * e.qty)
    ELSE 0

\* period_cogs, period_out_qty and daily_out follow the same delta.
Charged(b, delta, day) ==
    [b EXCEPT !.out   = @ + delta,
              !.cogs  = IF b.avg = None THEN @ ELSE Plus(@, Times(delta, b.avg)),
              !.daily[day] = @ + delta]

\* Mutation: an undone inbound keeps its weight in the date average.
ReceivedKeepsWeight(b, e, sign) ==
    [b EXCEPT !.avg = NewAvg(b, e, sign),
              !.balance = @ + sign * e.qty,
              !.allQty = @ + sign * e.qty,
              !.allWeighted = @ + e.qty * e.day,
              !.slices = IF sign = 1 THEN AddSlice(@, e) ELSE RemoveSlices(@, e),
              !.firstIn = IF sign = 1 /\ (@ = None \/ e.day < @) THEN e.day ELSE @]

Received(b, e, sign) ==
    [b EXCEPT !.avg = NewAvg(b, e, sign),
              !.balance = @ + sign * e.qty,
              !.allQty = @ + sign * e.qty,
              !.allWeighted = @ + sign * e.qty * e.day,
              !.slices = IF sign = 1 THEN AddSlice(@, e) ELSE RemoveSlices(@, e),
              !.firstIn = IF sign = 1 /\ (@ = None \/ e.day < @) THEN e.day ELSE @]

Issued(b, e, sign) ==
    [b EXCEPT !.balance = @ - sign * e.qty,
              !.slices = IF sign = 1 THEN ConsumeSlices(@, e) ELSE @,
              !.lastOut = IF sign = 1 /\ (@ = None \/ e.day > @) THEN e.day ELSE @]

Counted(b, i, e, sign) ==
    IF sign = 1
    THEN [b EXCEPT !.pre[i] = b.balance, !.balance = e.qty, !.slices = << >>]
    ELSE IF b.pre[i] = None THEN b
    ELSE [b EXCEPT !.balance = @ - (e.qty - b.pre[i])]

----------------------------------------------------------------------------
Init ==
    /\ ledger = << >>
    /\ pc = "idle"
    /\ local = FALSE
    /\ request = None
    /\ dataset = << >>
    /\ pending = {}
    /\ buckets = [k \in Keys |-> NewBucket]
    /\ lastCost = [s \in Skus |-> None]
    /\ missingCost = {}

----------------------------------------------------------------------------
(* The local database                                                       *)

\* InventoryEventRepository.upsert_events, for an id not yet there; an import
\* may commit while an analysis reads.
Record(row, day, rev) ==
    /\ pc \in {"idle", "asked"}
    /\ Len(ledger) < MaxEvents
    /\ row.move # "REVERSAL" => rev = None
    /\ ledger' = Append(ledger, [move |-> row.move, sku |-> row.sku, wh |-> row.wh,
                                 lot |-> row.lot, qty |-> row.qty, cost |-> row.cost,
                                 day |-> day, rev |-> rev])
    /\ UNCHANGED engine

----------------------------------------------------------------------------
(* RunAnalysisUseCase.run, up to the replay                                 *)

\* _default_request reads the period in a session of its own.
AskLocal ==
    /\ pc = "idle"
    /\ LedgerDays # {}
    /\ pc' = "asked"
    /\ local' = TRUE
    /\ request' = DefaultRequest
    /\ UNCHANGED <<ledger, dataset, pending, buckets, lastCost, missingCost>>

\* build reads the rows in the next one.
LoadLocal ==
    /\ pc = "asked"
    /\ pc' = "loaded"
    /\ dataset' = AdapterDataset
    /\ UNCHANGED <<ledger, local, request, pending, buckets, lastCost,
                   missingCost>>

\* A provider of contract records: every field, and a request of its own.
LoadContract(q) ==
    /\ pc = "idle"
    /\ pc' = "loaded"
    /\ local' = FALSE
    /\ request' = q
    /\ dataset' = ContractDataset
    /\ UNCHANGED <<ledger, pending, buckets, lastCost, missingCost>>

\* Neither movements nor snapshots (no period leaves out a snapshot).
NoData == DOMAIN dataset = {} /\ SnapshotDays = {}

\* No data, or a blocking issue: the run ends without a result.
Refuse ==
    /\ pc = "loaded"
    /\ NoData \/ ~ReversalsResolve
    /\ pc' = "refused"
    /\ UNCHANGED <<ledger, local, request, dataset, pending, buckets,
                   lastCost, missingCost>>

InHorizon(e) == e.day < request.end /\ InScope(e, request)

StartReplay ==
    /\ pc = "loaded"
    /\ ~NoData /\ ReversalsResolve
    /\ pc' = "replay"
    /\ pending' = {i \in DOMAIN dataset : InHorizon(dataset[i])}
    /\ UNCHANGED <<ledger, local, request, dataset, buckets, lastCost,
                   missingCost>>

----------------------------------------------------------------------------
(* The loop of replay_movements                                             *)

InPeriod(e) == request.start <= e.day /\ e.day < request.end

\* The bucket of event i: that of the event a reversal is about.
KeyOf(i) == <<dataset[Origin(i)].sku, dataset[Origin(i)].wh>>

Turn(i) ==
    /\ pc = "replay"
    /\ i \in pending
    /\ \A j \in pending \ {i} : Precedes(dataset[i], i, dataset[j], j)

\* The tail of an iteration, `after` being the bucket apply has left.
Advance(i, after, delta) ==
    LET e == dataset[i]
        b == [Charged(after, delta, e.day) EXCEPT !.live = TRUE]
    IN  /\ buckets' = [buckets EXCEPT ![KeyOf(i)] = Tracked(b, e.day, InPeriod(e))]
        /\ lastCost' = IF e.move \in Inbound /\ e.cost # None
                       THEN [lastCost EXCEPT ![e.sku] = e.cost] ELSE lastCost
        /\ pending' = pending \ {i}
        /\ UNCHANGED <<ledger, pc, local, request, dataset>>

\* The bucket before apply, its opening captured when the period begins.
Opened(i) == IF InPeriod(dataset[i]) THEN Captured(buckets[KeyOf(i)])
                                     ELSE buckets[KeyOf(i)]

ReplayInbound(i) ==
    LET base == dataset[Origin(i)]
    IN  /\ Turn(i)
        /\ InHorizon(base) /\ base.move \in Inbound
        /\ Advance(i, Received(Opened(i), base, SignOf(i)),
                   OutDelta(base, SignOf(i), InPeriod(base)))
        /\ UNCHANGED missingCost

ReplayOutbound(i) ==
    LET base == dataset[Origin(i)]
    IN  /\ Turn(i)
        /\ InHorizon(base) /\ base.move \in Outbound
        /\ Advance(i, Issued(Opened(i), base, SignOf(i)),
                   OutDelta(base, SignOf(i), InPeriod(base)))
        /\ missingCost' =
              IF InPeriod(base) /\ SignOf(i) = 1 /\ buckets[KeyOf(i)].avg = None
              THEN missingCost \union {base.sku} ELSE missingCost

ReplayStocktake(i) ==
    LET base == dataset[Origin(i)]
    IN  /\ Turn(i)
        /\ InHorizon(base) /\ base.move = "STOCKTAKE"
        /\ Advance(i, Counted(Opened(i), Origin(i), base, SignOf(i)), 0)
        /\ UNCHANGED missingCost

\* A single transfer record has no direction.
ReplayTransfer(i) ==
    LET base == dataset[Origin(i)]
    IN  /\ Turn(i)
        /\ InHorizon(base) /\ base.move = "TRANSFER"
        /\ Advance(i, Opened(i), 0)
        /\ UNCHANGED missingCost

\* A reversal of an event that is not replayed has nothing to undo.
SkipReversal(i) ==
    /\ Turn(i)
    /\ ~InHorizon(dataset[Origin(i)])
    /\ pending' = pending \ {i}
    /\ UNCHANGED <<ledger, pc, local, request, dataset, buckets, lastCost,
                   missingCost>>

\* After the loop: the buckets without an event of the period.
FinishReplay ==
    /\ pc = "replay"
    /\ pending = {}
    /\ pc' = "done"
    /\ buckets' = [k \in Keys |-> IF buckets[k].live THEN Captured(buckets[k])
                                                     ELSE buckets[k]]
    /\ UNCHANGED <<ledger, local, request, dataset, pending, lastCost,
                   missingCost>>

----------------------------------------------------------------------------
\* The outcome is returned; a later run starts from nothing.
Return ==
    /\ pc \in {"done", "refused"}
    /\ pc' = "idle"
    /\ local' = FALSE
    /\ request' = None
    /\ dataset' = << >>
    /\ buckets' = [k \in Keys |-> NewBucket]
    /\ lastCost' = [s \in Skus |-> None]
    /\ missingCost' = {}
    /\ UNCHANGED <<ledger, pending>>

Next ==
    \/ \E row \in Menu, day \in Days, rev \in 1..Len(ledger) + 1 \union {None} :
          Record(row, day, rev)
    \/ AskLocal
    \/ LoadLocal
    \/ \E q \in Requests : LoadContract(q)
    \/ Refuse
    \/ StartReplay
    \/ \E i \in pending :
          \/ ReplayInbound(i)
          \/ ReplayOutbound(i)
          \/ ReplayStocktake(i)
          \/ ReplayTransfer(i)
          \/ SkipReversal(i)
    \/ FinishReplay
    \/ Return

Spec == Init /\ [][Next]_vars
=============================================================================
