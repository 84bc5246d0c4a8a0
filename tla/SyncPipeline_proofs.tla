------------------------- MODULE SyncPipeline_proofs -------------------------
(***************************************************************************)
(* Proofs about SyncPipeline, for every set of events and every bound.     *)
(*                                                                         *)
(* The safety invariants of the module are not inductive: that the cloud's *)
(* ACK implies a stored event depends on where the worker thread stands    *)
(* between the transactions.  HandInv says what the thread's locals imply  *)
(* about the tables at each program point, TableInv what the tables imply  *)
(* about each other.                                                       *)
(***************************************************************************)
EXTENDS SyncPipeline, TLAPS

\* Program points at which the thread holds an envelope.
Busy == Handling \union {"sendAck", "markAcked", "resendMark"}

HandInv ==
    /\ worker.pc \in Busy => worker.cur \in Envelopes /\ CurEvent \in Events
    /\ \A i \in worker.batch : cloud[i].event \in Events
    /\ \A i \in worker.resend : outbox[i] # "ABSENT"
    /\ worker.pc \in {"open", "store", "markApplied"} => inbox[CurEvent] = "RECEIVED"
    /\ worker.pc = "markApplied" => CurEvent \in inventory
    /\ worker.pc = "recordAck" =>
         /\ inbox[CurEvent] = "APPLIED"
         /\ \A j \in Envelopes : outbox[j] # "ABSENT" => cloud[j].event # CurEvent
    /\ worker.pc \in {"sendAck", "markAcked", "resendMark"} => outbox[worker.cur] # "ABSENT"
    /\ worker.pc \in {"markAcked", "resendMark"} => cloud[worker.cur].status = "ACKED"

TableInv ==
    /\ \A i \in Envelopes : cloud[i].status = "ABSENT" <=> cloud[i].event = NoEvent
    /\ \A i \in Envelopes : outbox[i] # "ABSENT" =>
         /\ cloud[i].event \in Events
         /\ inbox[cloud[i].event] = "APPLIED"
    /\ \A i, j \in Envelopes :
         (outbox[i] # "ABSENT" /\ outbox[j] # "ABSENT" /\ cloud[i].event = cloud[j].event)
         => i = j
    /\ \A i \in Envelopes : cloud[i].status = "ACKED" => outbox[i] # "ABSENT"
    /\ \A i \in Envelopes : outbox[i] = "ACKED" => cloud[i].status = "ACKED"
    /\ \A e \in Events : inbox[e] = "APPLIED" => e \in inventory

IInv == TypeOK /\ HandInv /\ TableInv /\ OnlyCrashLosesEvents

-----------------------------------------------------------------------------
(***************************************************************************)
(* What the cloud's operations leave alone                                 *)
(***************************************************************************)

\* delete_expired changes no event and no status, only whether the row exists.
LEMMA PurgeKeeps ==
    ASSUME TypeOK
    PROVE  /\ DeleteExpired \in [Envelopes -> Row]
           /\ \A j \in Envelopes : /\ DeleteExpired[j].event = cloud[j].event
                                   /\ DeleteExpired[j].status = cloud[j].status
BY DEF TypeOK, DeleteExpired, InTable, Row

\* An ack call changes no event and at most its own envelope's status, to
\* ACKED; an answered one leaves that envelope ACKED.
LEMMA AckKeeps ==
    ASSUME TypeOK, NEW i \in Envelopes, NEW answered \in BOOLEAN, AckCall(i, answered)
    PROVE  /\ cloud' \in [Envelopes -> Row]
           /\ \A j \in Envelopes : cloud'[j].event = cloud[j].event
           /\ \A j \in Envelopes : j # i => cloud'[j].status = cloud[j].status
           /\ cloud'[i].status \in {cloud[i].status, "ACKED"}
           /\ answered => cloud'[i].status = "ACKED"
<1> USE DEF TypeOK, Row
<1>1. CASE cloud' = cloud /\ ~answered
  BY <1>1
<1>2. CASE cloud' = [cloud EXCEPT ![i].status = "ACKED"]
  BY <1>2
<1>3. QED
  BY <1>1, <1>2 DEF AckCall, AckAtCloud, InTable

-----------------------------------------------------------------------------
(***************************************************************************)
(* One lemma per action: it preserves the inductive invariant              *)
(***************************************************************************)

\* The initial state satisfies the inductive invariant.
LEMMA InitIInv == Init => IInv
<1> SUFFICES ASSUME Init PROVE IInv
  OBVIOUS
<1> USE SyncAssumption DEF SyncAssumption, Init
<1>1. cloud \in [Envelopes -> Row]
  BY DEF Row, Payloads
<1>2. inbox \in [Events -> InboxStates] /\ outbox \in [Envelopes -> OutboxStates]
  BY DEF InboxStates, OutboxStates
<1>3. worker \in Worker /\ crashes \in 0..MaxCrashes
  BY DEF Worker, PCs, Parked
<1>4. TypeOK
  BY <1>1, <1>2, <1>3 DEF TypeOK
<1>5. HandInv
  BY DEF HandInv, Busy, Handling, Parked
<1>6. TableInv /\ OnlyCrashLosesEvents
  BY DEF TableInv, OnlyCrashLosesEvents
<1>7. QED
  BY <1>4, <1>5, <1>6 DEF IInv

\* A fresh row takes an absent envelope, which no table mentions yet.
LEMMA InjectStep == ASSUME IInv, NEW e \in Events, NEW p \in Payloads, Inject(e, p) PROVE IInv'
<1> USE DEF IInv, TypeOK
<1>1. cloud' \in [Envelopes -> Row]
  BY DEF Inject, Row
<1>2. PICK k \in Envelopes :
        /\ cloud[k].status = "ABSENT"
        /\ cloud' = [cloud EXCEPT ![k] =
                       [status |-> "ENQUEUED", event |-> e, payload |-> p,
                        expired |-> FALSE, purged |-> FALSE]]
  BY DEF Inject, IsFirst
<1>3. /\ e # NoEvent
      /\ cloud'[k].status = "ENQUEUED" /\ cloud'[k].event = e
      /\ \A j \in Envelopes : j # k => cloud'[j] = cloud[j]
      /\ cloud[k].event = NoEvent /\ outbox[k] = "ABSENT"
      /\ NoEvent \notin Events
  BY <1>2, SyncAssumption DEF SyncAssumption, TableInv
<1>4. TypeOK'
  BY <1>1 DEF Inject
<1>5. HandInv'
  BY <1>2, <1>3 DEF HandInv, TableInv, Inject, Busy, Handling, CurEvent, Worker, PCs, Parked
<1>6. TableInv'
  BY <1>2, <1>3 DEF TableInv, Inject
<1>7. OnlyCrashLosesEvents'
  BY <1>2, <1>3 DEF OnlyCrashLosesEvents, HandInv, TableInv, Inject, Busy, Handling, CurEvent, Worker, PCs, Parked
<1>8. QED
  BY <1>4, <1>5, <1>6, <1>7

\* Time passing an expires_at changes no table the invariant reads.
LEMMA ExpireStep == ASSUME IInv, NEW i \in Envelopes, Expire(i) PROVE IInv'
<1> USE DEF IInv, TypeOK, Expire
<1>1. /\ cloud' \in [Envelopes -> Row]
      /\ \A j \in Envelopes : cloud'[j].event = cloud[j].event /\ cloud'[j].status = cloud[j].status
  <2>1. cloud[i] \in Row /\ cloud' = [cloud EXCEPT ![i] = [cloud[i] EXCEPT !.expired = TRUE]]
    BY Zenon
  <2>2. /\ [cloud[i] EXCEPT !.expired = TRUE] \in Row
        /\ [cloud[i] EXCEPT !.expired = TRUE].event = cloud[i].event
        /\ [cloud[i] EXCEPT !.expired = TRUE].status = cloud[i].status
    BY <2>1 DEF Row
  <2>3. QED
    BY <2>1, <2>2
<1>2. TypeOK'
  BY <1>1
<1>3. HandInv'
  BY <1>1 DEF HandInv, Busy, Handling, CurEvent, Worker, PCs, Parked
<1>4. TableInv'
  BY <1>1 DEF TableInv
<1>5. OnlyCrashLosesEvents'
  BY <1>1 DEF OnlyCrashLosesEvents, HandInv, Busy, Handling, CurEvent, Worker, PCs, Parked
<1>6. QED
  BY <1>2, <1>3, <1>4, <1>5

\* A clean-up by another device keeps every event and status.
LEMMA PurgeByOthersStep == ASSUME IInv, PurgeByOthers PROVE IInv'
<1> USE DEF IInv, TypeOK, PurgeByOthers
<1>1. /\ cloud' \in [Envelopes -> Row]
      /\ \A j \in Envelopes : cloud'[j].event = cloud[j].event /\ cloud'[j].status = cloud[j].status
  BY PurgeKeeps
<1>2. TypeOK'
  BY <1>1
<1>3. HandInv'
  BY <1>1 DEF HandInv, Busy, Handling, CurEvent, Worker, PCs, Parked
<1>4. TableInv'
  BY <1>1 DEF TableInv
<1>5. OnlyCrashLosesEvents'
  BY <1>1 DEF OnlyCrashLosesEvents, HandInv, Busy, Handling, CurEvent, Worker, PCs, Parked
<1>6. QED
  BY <1>2, <1>3, <1>4, <1>5

\* Master data only widens what can be stored.
LEMMA LearnMasterStep == ASSUME IInv, NEW e \in Events, LearnMaster(e) PROVE IInv'
<1> USE DEF IInv, TypeOK, LearnMaster
<1>1. TypeOK'
  OBVIOUS
<1>2. HandInv'
  BY DEF HandInv, Busy, Handling, CurEvent, Worker, PCs, Parked
<1>3. TableInv'
  BY DEF TableInv
<1>4. OnlyCrashLosesEvents'
  BY DEF OnlyCrashLosesEvents, Busy, Handling, CurEvent, Worker, PCs, Parked
<1>5. QED
  BY <1>1, <1>2, <1>3, <1>4

\* A stop request is a flag the thread has yet to read.
LEMMA RequestStopStep == ASSUME IInv, RequestStop PROVE IInv'
<1> USE DEF IInv, TypeOK, RequestStop
<1>1. TypeOK'
  OBVIOUS
<1>2. HandInv'
  BY DEF HandInv, Busy, Handling, CurEvent, Worker, PCs, Parked
<1>3. TableInv'
  BY DEF TableInv
<1>4. OnlyCrashLosesEvents'
  BY DEF OnlyCrashLosesEvents, Busy, Handling, CurEvent, Worker, PCs, Parked
<1>5. QED
  BY <1>1, <1>2, <1>3, <1>4

\* A crash drops the locals; the event in hand is the one it cuts.
LEMMA CrashStep == ASSUME IInv, Crash PROVE IInv'
<1> USE DEF IInv, TypeOK, Crash
<1>1. TypeOK'
  BY SyncAssumption DEF SyncAssumption, HandInv, Busy, Handling, CurEvent, Worker, PCs, Parked
<1>2. HandInv'
  BY DEF HandInv, Busy, Handling, CurEvent, Worker, PCs, Parked
<1>3. TableInv'
  BY DEF TableInv
<1>4. OnlyCrashLosesEvents'
  BY DEF OnlyCrashLosesEvents, Busy, Handling, CurEvent, Worker, PCs, Parked
<1>5. QED
  BY <1>1, <1>2, <1>3, <1>4

\* A fresh thread holds nothing.
LEMMA StartStep == ASSUME IInv, Start PROVE IInv'
<1> USE DEF IInv, TypeOK, Start
<1>1. TypeOK'
  BY DEF Worker, PCs, Parked
<1>2. HandInv'
  BY DEF HandInv, Busy, Handling, CurEvent, Worker, PCs, Parked
<1>3. TableInv'
  BY DEF TableInv
<1>4. OnlyCrashLosesEvents'
  BY DEF OnlyCrashLosesEvents, Busy, Handling, CurEvent, Worker, PCs, Parked
<1>5. QED
  BY <1>1, <1>2, <1>3, <1>4

\* The thread leaves only between cycles, with nothing in hand.
LEMMA ExitStep == ASSUME IInv, Exit PROVE IInv'
<1> USE DEF IInv, TypeOK, Exit
<1>1. TypeOK'
  BY DEF Worker, PCs, Parked
<1>2. HandInv'
  BY DEF HandInv, Busy, Handling, CurEvent, Worker, PCs, Parked
<1>3. TableInv'
  BY DEF TableInv
<1>4. OnlyCrashLosesEvents'
  BY DEF OnlyCrashLosesEvents, Busy, Handling, CurEvent, Worker, PCs, Parked
<1>5. QED
  BY <1>1, <1>2, <1>3, <1>4

\* The resend list is read from the outbox.
LEMMA BeginCycleStep == ASSUME IInv, BeginCycle PROVE IInv'
<1> USE DEF IInv, TypeOK, BeginCycle, PendingAcks
<1>1. TypeOK'
  BY DEF Worker, PCs, Parked
<1>2. HandInv'
  BY DEF HandInv, Busy, Handling, CurEvent, Worker, PCs, Parked
<1>3. TableInv'
  BY DEF TableInv
<1>4. OnlyCrashLosesEvents'
  BY DEF OnlyCrashLosesEvents, Busy, Handling, CurEvent, Worker, PCs, Parked
<1>5. QED
  BY <1>1, <1>2, <1>3, <1>4

\* Leaving the resend loop drops the list.
LEMMA EndResendStep == ASSUME IInv, EndResend PROVE IInv'
<1> USE DEF IInv, TypeOK, EndResend
<1>1. TypeOK'
  BY DEF Worker, PCs, Parked
<1>2. HandInv'
  BY DEF HandInv, Busy, Handling, CurEvent, Worker, PCs, Parked
<1>3. TableInv'
  BY DEF TableInv
<1>4. OnlyCrashLosesEvents'
  BY DEF OnlyCrashLosesEvents, Busy, Handling, CurEvent, Worker, PCs, Parked
<1>5. QED
  BY <1>1, <1>2, <1>3, <1>4

\* A resent ack is for a row of the outbox, so the cloud may count it.
LEMMA ResendStep == ASSUME IInv, NEW answered \in BOOLEAN, Resend(answered) PROVE IInv'
<1> USE DEF IInv, TypeOK, Resend
<1>1. PICK i \in Envelopes : i \in worker.resend /\ AckCall(i, answered)
        /\ worker' = IF answered
                     THEN [worker EXCEPT !.pc = "resendMark", !.cur = i]
                     ELSE Parked("pull")
  BY DEF Resend, IsFirst
<1>2. outbox[i] # "ABSENT"
  BY <1>1 DEF HandInv
<1>3. /\ cloud' \in [Envelopes -> Row]
      /\ \A j \in Envelopes : cloud'[j].event = cloud[j].event
      /\ \A j \in Envelopes : j # i => cloud'[j].status = cloud[j].status
      /\ cloud'[i].status \in {cloud[i].status, "ACKED"}
      /\ answered => cloud'[i].status = "ACKED"
  BY <1>1, AckKeeps
<1>4. TypeOK'
  <2>1. worker' \in Worker
    BY <1>1 DEF Worker, PCs, Parked
  <2>2. QED
    BY <1>3, <2>1
<1>5. HandInv'
  <2>1. CASE answered
    <3>1. /\ worker'.pc = "resendMark" /\ worker'.cur = i
          /\ worker'.batch = worker.batch /\ worker'.resend = worker.resend
      BY <1>1, <2>1 DEF Worker
    <3>2. cloud[i].event \in Events
      BY <1>2 DEF TableInv
    <3>3. UNCHANGED outbox /\ cloud'[i].status = "ACKED" /\ cloud'[i].event \in Events
      BY <1>3, <2>1, <3>2
    <3>4. \A j \in worker'.batch : cloud'[j].event \in Events
      BY <1>3, <3>1 DEF HandInv, Worker
    <3>5. \A j \in worker'.resend : outbox'[j] # "ABSENT"
      BY <3>1, <3>3 DEF HandInv
    <3>6. QED
      BY <1>2, <3>1, <3>3, <3>4, <3>5 DEF HandInv, Busy, Handling, CurEvent
  <2>2. CASE ~answered
    <3>1. worker'.pc = "pull" /\ worker'.batch = {} /\ worker'.resend = {}
      BY <1>1, <2>2 DEF Parked
    <3>2. QED
      BY <3>1 DEF HandInv, Busy, Handling
  <2>3. QED
    BY <2>1, <2>2
<1>6. TableInv'
  BY <1>1, <1>2, <1>3, SyncAssumption DEF TableInv, SyncAssumption
<1>7. OnlyCrashLosesEvents'
  BY <1>1, <1>3 DEF OnlyCrashLosesEvents, HandInv, Busy, Handling, CurEvent, Worker, PCs, Parked
<1>8. QED
  BY <1>4, <1>5, <1>6, <1>7

\* mark_acked after a resend the cloud answered.
LEMMA ResendMarkStep == ASSUME IInv, ResendMark PROVE IInv'
<1> USE DEF IInv, TypeOK, ResendMark
<1>1. TypeOK'
  BY DEF HandInv, Worker, PCs, Parked, Busy, Handling, CurEvent, OutboxStates
<1>2. HandInv'
  BY DEF HandInv, Busy, Handling, CurEvent, Worker, PCs, Parked
<1>3. TableInv'
  BY DEF TableInv, HandInv, Busy, Handling, CurEvent, Worker, PCs, Parked
<1>4. OnlyCrashLosesEvents'
  BY DEF OnlyCrashLosesEvents, Busy, Handling, CurEvent, Worker, PCs, Parked
<1>5. QED
  BY <1>1, <1>2, <1>3, <1>4

\* The pulled batch is made of rows of the cloud's table.
LEMMA PullStep == ASSUME IInv, Pull PROVE IInv'
<1> USE DEF IInv, TypeOK, Pull
<1>1. /\ cloud' \in [Envelopes -> Row]
      /\ \A j \in Envelopes : cloud'[j].event = cloud[j].event /\ cloud'[j].status = cloud[j].status
  BY PurgeKeeps
<1>2. /\ Oldest(Enqueued(cloud), Limit) \subseteq Envelopes
      /\ \A i \in Oldest(Enqueued(cloud), Limit) : cloud[i].event \in Events
  BY DEF Oldest, Enqueued, TableInv, Row
<1>3. TypeOK'
  BY <1>1, <1>2 DEF Worker, PCs, Parked
<1>4. HandInv'
  BY <1>1, <1>2 DEF HandInv, TableInv, Busy, Handling, CurEvent, Worker, PCs, Parked
<1>5. TableInv'
  BY <1>1 DEF TableInv
<1>6. OnlyCrashLosesEvents'
  BY <1>1 DEF OnlyCrashLosesEvents, HandInv, Busy, Handling, CurEvent, Worker, PCs, Parked
<1>7. QED
  BY <1>3, <1>4, <1>5, <1>6

\* A failed pull may still have cleaned up expired rows.
LEMMA PullFailsStep == ASSUME IInv, PullFails PROVE IInv'
<1> USE DEF IInv, TypeOK, PullFails
<1>1. /\ cloud' \in [Envelopes -> Row]
      /\ \A j \in Envelopes : cloud'[j].event = cloud[j].event /\ cloud'[j].status = cloud[j].status
  BY PurgeKeeps
<1>2. TypeOK'
  BY <1>1 DEF Worker, PCs, Parked
<1>3. HandInv'
  BY <1>1 DEF HandInv, Busy, Handling, CurEvent, Worker, PCs, Parked
<1>4. TableInv'
  BY <1>1 DEF TableInv
<1>5. OnlyCrashLosesEvents'
  BY <1>1 DEF OnlyCrashLosesEvents, HandInv, Busy, Handling, CurEvent, Worker, PCs, Parked
<1>6. QED
  BY <1>2, <1>3, <1>4, <1>5

\* The cycle ends with nothing in hand.
LEMMA EndCycleStep == ASSUME IInv, EndCycle PROVE IInv'
<1> USE DEF IInv, TypeOK, EndCycle
<1>1. TypeOK'
  BY DEF Worker, PCs, Parked
<1>2. HandInv'
  BY DEF HandInv, Busy, Handling, CurEvent, Worker, PCs, Parked
<1>3. TableInv'
  BY DEF TableInv
<1>4. OnlyCrashLosesEvents'
  BY DEF OnlyCrashLosesEvents, Busy, Handling, CurEvent, Worker, PCs, Parked
<1>5. QED
  BY <1>1, <1>2, <1>3, <1>4

\* Only an event without an inbox row is taken in hand.
LEMMA RecordEnvelopeStep == ASSUME IInv, RecordEnvelope PROVE IInv'
<1> USE DEF IInv, TypeOK
<1>0. UNCHANGED <<cloud, known, inventory, outbox, stop, crashes, cut>> /\ worker.pc = "process"
  BY DEF RecordEnvelope
<1>1. PICK i \in Envelopes : i \in worker.batch /\
        IF inbox[cloud[i].event] = "ABSENT"
        THEN /\ inbox' = [inbox EXCEPT ![cloud[i].event] = "RECEIVED"]
             /\ worker' = [worker EXCEPT !.pc = "open", !.cur = i, !.batch = @ \ {i}]
        ELSE /\ worker' = [worker EXCEPT !.batch = @ \ {i}]
             /\ UNCHANGED inbox
  BY DEF RecordEnvelope, IsFirst
<1>2. cloud[i].event \in Events /\ i \in Envelopes
  BY <1>1 DEF HandInv, Worker
<1>3. CASE inbox[cloud[i].event] = "ABSENT"
  <2>0. /\ inbox' = [inbox EXCEPT ![cloud[i].event] = "RECEIVED"]
        /\ worker' = [worker EXCEPT !.pc = "open", !.cur = i, !.batch = @ \ {i}]
    BY <1>1, <1>3
  <2>1. TypeOK'
    BY <1>0, <1>2, <1>3, <2>0 DEF Worker, PCs, InboxStates
  <2>2. HandInv'
    BY <1>0, <1>2, <1>3, <2>0 DEF HandInv, Busy, Handling, CurEvent, Worker
  <2>3. TableInv'
    BY <1>0, <1>2, <1>3, <2>0 DEF TableInv
  <2>4. OnlyCrashLosesEvents'
    BY <1>0, <1>2, <1>3, <2>0 DEF OnlyCrashLosesEvents, Handling, CurEvent, Worker
  <2>5. QED
    BY <2>1, <2>2, <2>3, <2>4
<1>4. CASE inbox[cloud[i].event] # "ABSENT"
  <2>0. worker' = [worker EXCEPT !.batch = @ \ {i}] /\ UNCHANGED inbox
    BY <1>1, <1>4
  <2>1. TypeOK'
    BY <1>0, <1>2, <1>4, <2>0 DEF Worker, PCs
  <2>2. HandInv'
    BY <1>0, <1>2, <1>4, <2>0 DEF HandInv, Busy, Handling, CurEvent, Worker
  <2>3. TableInv' /\ OnlyCrashLosesEvents'
    BY <1>0, <1>2, <1>4, <2>0 DEF TableInv, OnlyCrashLosesEvents, Handling, CurEvent, Worker
  <2>4. QED
    BY <2>1, <2>2, <2>3
<1>5. QED
  BY <1>3, <1>4

\* An unreadable payload gets its verdict in the same step.
LEMMA OpenEnvelopeStep == ASSUME IInv, OpenEnvelope PROVE IInv'
<1> USE DEF IInv, TypeOK, OpenEnvelope, Goto, Fail
<1>1. TypeOK'
  BY DEF HandInv, Busy, Handling, CurEvent, Worker, PCs, Parked, InboxStates
<1>2. HandInv'
  <2>1. CASE cloud[worker.cur].payload = "good"
    BY <2>1 DEF HandInv, Busy, Handling, CurEvent, Worker
  <2>2. CASE cloud[worker.cur].payload # "good"
    <3>1. worker' = [worker EXCEPT !.pc = "process", !.cur = 0] /\ UNCHANGED <<cloud, outbox>>
      BY <2>2
    <3>2. QED
      BY <3>1 DEF HandInv, Busy, Handling, Worker
  <2>3. QED
    BY <2>1, <2>2
<1>3. TableInv'
  BY DEF TableInv, HandInv, Busy, Handling, CurEvent, Worker, PCs, Parked
<1>4. OnlyCrashLosesEvents'
  BY DEF OnlyCrashLosesEvents, HandInv, Busy, Handling, CurEvent, Worker, PCs, Parked, InboxStates
<1>5. QED
  BY <1>1, <1>2, <1>3, <1>4

\* The event is stored before the thread moves on to mark_applied.
LEMMA StoreEventStep == ASSUME IInv, StoreEvent PROVE IInv'
<1> USE DEF IInv, TypeOK, StoreEvent, Goto, Fail
<1>1. TypeOK'
  BY DEF HandInv, Busy, Handling, CurEvent, Worker, PCs, Parked, InboxStates
<1>2. HandInv'
  <2>1. CASE CurEvent \in known \union inventory
    BY <2>1 DEF HandInv, Busy, Handling, CurEvent, Worker
  <2>2. CASE CurEvent \notin known \union inventory
    <3>1. worker' = [worker EXCEPT !.pc = "process", !.cur = 0] /\ UNCHANGED <<cloud, outbox>>
      BY <2>2
    <3>2. QED
      BY <3>1 DEF HandInv, Busy, Handling, Worker
  <2>3. QED
    BY <2>1, <2>2
<1>3. TableInv'
  BY DEF TableInv, HandInv, Busy, Handling, CurEvent, Worker, PCs, Parked
<1>4. OnlyCrashLosesEvents'
  BY DEF OnlyCrashLosesEvents, HandInv, Busy, Handling, CurEvent, Worker, PCs, Parked, InboxStates
<1>5. QED
  BY <1>1, <1>2, <1>3, <1>4

\* mark_applied follows the store, and no ACK is registered yet.
LEMMA MarkAppliedStep == ASSUME IInv, MarkApplied PROVE IInv'
<1> USE DEF IInv, TypeOK, MarkApplied, Goto
<1>1. TypeOK'
  BY DEF HandInv, Busy, Handling, CurEvent, Worker, PCs, Parked, InboxStates
<1>2. HandInv'
  BY DEF HandInv, TableInv, Busy, Handling, CurEvent, Worker, PCs, Parked
<1>3. TableInv'
  BY DEF TableInv, HandInv, Busy, Handling, CurEvent, Worker, PCs, Parked
<1>4. OnlyCrashLosesEvents'
  BY DEF OnlyCrashLosesEvents, HandInv, Busy, Handling, CurEvent, Worker, PCs, Parked
<1>5. QED
  BY <1>1, <1>2, <1>3, <1>4

\* The ACK registered is the first of its event.
LEMMA RecordAckStep == ASSUME IInv, RecordAck PROVE IInv'
<1> USE DEF IInv, TypeOK, RecordAck, Goto
<1>1. TypeOK'
  BY DEF HandInv, Busy, Handling, CurEvent, Worker, PCs, Parked, OutboxStates
<1>2. HandInv'
  BY DEF HandInv, TableInv, Busy, Handling, CurEvent, Worker, PCs, Parked
<1>3. TableInv'
  BY DEF TableInv, HandInv, Busy, Handling, CurEvent, Worker, PCs, Parked
<1>4. OnlyCrashLosesEvents'
  BY DEF OnlyCrashLosesEvents, HandInv, Busy, Handling, CurEvent, Worker, PCs, Parked
<1>5. QED
  BY <1>1, <1>2, <1>3, <1>4

\* An ACK is only sent for a row of the outbox.
LEMMA SendAckStep == ASSUME IInv, NEW answered \in BOOLEAN, SendAck(answered) PROVE IInv'
<1> USE DEF IInv, TypeOK, SendAck
<1>1. worker.cur \in Envelopes /\ outbox[worker.cur] # "ABSENT" /\ worker.pc = "sendAck"
  BY DEF HandInv, Busy
<1>2. /\ cloud' \in [Envelopes -> Row]
      /\ \A j \in Envelopes : cloud'[j].event = cloud[j].event
      /\ \A j \in Envelopes : j # worker.cur => cloud'[j].status = cloud[j].status
      /\ cloud'[worker.cur].status \in {cloud[worker.cur].status, "ACKED"}
      /\ answered => cloud'[worker.cur].status = "ACKED"
  BY <1>1, AckKeeps
<1>3. TypeOK'
  BY <1>1, <1>2 DEF Worker, PCs, Parked
<1>4. HandInv'
  BY <1>1, <1>2 DEF HandInv, TableInv, Busy, Handling, CurEvent, Worker, PCs, Parked
<1>5. TableInv'
  BY <1>1, <1>2, SyncAssumption DEF TableInv, SyncAssumption
<1>6. OnlyCrashLosesEvents'
  BY <1>1, <1>2 DEF OnlyCrashLosesEvents, HandInv, Busy, Handling, CurEvent, Worker, PCs, Parked
<1>7. QED
  BY <1>3, <1>4, <1>5, <1>6

\* mark_acked after an answer of the cloud.
LEMMA MarkAckedStep == ASSUME IInv, MarkAcked PROVE IInv'
<1> USE DEF IInv, TypeOK, MarkAcked
<1>1. TypeOK'
  BY DEF HandInv, Worker, PCs, Parked, Busy, Handling, CurEvent, OutboxStates
<1>2. HandInv'
  BY DEF HandInv, Busy, Handling, CurEvent, Worker, PCs, Parked
<1>3. TableInv'
  BY DEF TableInv, HandInv, Busy, Handling, CurEvent, Worker, PCs, Parked
<1>4. OnlyCrashLosesEvents'
  BY DEF OnlyCrashLosesEvents, Busy, Handling, CurEvent, Worker, PCs, Parked
<1>5. QED
  BY <1>1, <1>2, <1>3, <1>4

\* No step of the cloud, the thread or the environment breaks the inductive
\* invariant.
LEMMA StepIInv == IInv /\ [Next]_vars => IInv'
<1> SUFFICES ASSUME IInv, [Next]_vars PROVE IInv'
  OBVIOUS
<1>1. CASE UNCHANGED vars
  BY <1>1 DEF vars, IInv, TypeOK, HandInv, TableInv, OnlyCrashLosesEvents,
     Busy, Handling, CurEvent
<1>2. CASE Environment
  BY <1>2, InjectStep, ExpireStep, PurgeByOthersStep, LearnMasterStep,
     RequestStopStep, CrashStep DEF Environment
<1>3. CASE LocalStep
  BY <1>3, BeginCycleStep, EndResendStep, ResendMarkStep, EndCycleStep,
     RecordEnvelopeStep, OpenEnvelopeStep, StoreEventStep, MarkAppliedStep,
     RecordAckStep, MarkAckedStep, ExitStep DEF LocalStep
<1>4. CASE NetworkStep
  BY <1>4, ResendStep, SendAckStep, PullStep, PullFailsStep DEF NetworkStep
<1>5. QED
  BY <1>1, <1>2, <1>3, <1>4, StartStep DEF Next

\* The inductive invariant holds in every state of every behaviour.
THEOREM Invariance == Spec => []IInv
BY InitIInv, StepIInv, PTL DEF Spec

-----------------------------------------------------------------------------
(***************************************************************************)
(* The results                                                             *)
(***************************************************************************)

\* The tables and the thread's locals only ever hold the values the code
\* writes to them.
THEOREM TypeCorrect == Spec => []TypeOK
<1>1. IInv => TypeOK
  BY DEF IInv
<1>2. QED
  BY <1>1, Invariance, PTL

\* The cloud never counts an event as ACKED that the workbench has not stored,
\* whatever crashes, lost answers and TTL clean-ups happen.
THEOREM AckAfterStore == Spec => []NoAckBeforeStore
<1>1. IInv => NoAckBeforeStore
  BY DEF IInv, TypeOK, TableInv, NoAckBeforeStore
<1>2. QED
  BY <1>1, Invariance, PTL

\* A row of sync_outbox belongs to an applied event, and each event has at most
\* one, even when an event is injected again after its envelope was purged.
THEOREM OutboxSound == Spec => []OutboxOnlyAfterApply
<1>1. IInv => OutboxOnlyAfterApply
  BY DEF IInv, TypeOK, TableInv, OutboxOnlyAfterApply
<1>2. QED
  BY <1>1, Invariance, PTL

\* An ACKED row of sync_outbox is an ACK that the cloud took.
THEOREM ReceiptSound == Spec => []LocalAckIsCloudAck
<1>1. IInv => LocalAckIsCloudAck
  BY DEF IInv, TableInv, LocalAckIsCloudAck
<1>2. QED
  BY <1>1, Invariance, PTL

\* An event without a verdict is in the thread's hands or was when it crashed.
THEOREM OnlyCrashes == Spec => []OnlyCrashLosesEvents
<1>1. IInv => OnlyCrashLosesEvents
  BY DEF IInv
<1>2. QED
  BY <1>1, Invariance, PTL

-----------------------------------------------------------------------------
(***************************************************************************)
(* Refinement                                                              *)
(***************************************************************************)

Released  == {cloud[i].event : i \in {j \in Envelopes : cloud[j].status = "ACKED"}}
Confirmed == {cloud[i].event : i \in {j \in Envelopes : outbox[j] = "ACKED"}}

\* A step that keeps the events and the ACKED rows of both tables is invisible
\* to the receipts.
LEMMA SameReceipts ==
    ASSUME \A i \in Envelopes :
             /\ (cloud[i].status = "ACKED") <=> (cloud'[i].status = "ACKED")
             /\ (outbox[i] = "ACKED") <=> (outbox'[i] = "ACKED")
             /\ cloud[i].status = "ACKED" \/ outbox[i] = "ACKED"
                  => cloud'[i].event = cloud[i].event
    PROVE  Released' = Released /\ Confirmed' = Confirmed
<1>1. {j \in Envelopes : cloud'[j].status = "ACKED"} = {j \in Envelopes : cloud[j].status = "ACKED"}
  OBVIOUS
<1>2. {j \in Envelopes : outbox'[j] = "ACKED"} = {j \in Envelopes : outbox[j] = "ACKED"}
  OBVIOUS
<1>3. QED
  BY <1>1, <1>2 DEF Released, Confirmed

\* An ack call adds the envelope's event to the released ones, or nothing.
LEMMA AckReleases ==
    ASSUME TypeOK, NEW i \in Envelopes, NEW answered \in BOOLEAN, AckCall(i, answered),
           UNCHANGED outbox
    PROVE  /\ Released' \in {Released, Released \union {cloud[i].event}}
           /\ Confirmed' = Confirmed
<1>1. /\ \A j \in Envelopes : cloud'[j].event = cloud[j].event
      /\ \A j \in Envelopes : j # i => cloud'[j].status = cloud[j].status
      /\ cloud'[i].status \in {cloud[i].status, "ACKED"}
  BY AckKeeps
<1>2. CASE cloud'[i].status = "ACKED"
  BY <1>1, <1>2 DEF Released, Confirmed
<1>3. CASE cloud'[i].status # "ACKED"
  BY <1>1, <1>3 DEF Released, Confirmed
<1>4. QED
  BY <1>2, <1>3

\* mark_acked of an envelope the cloud has ACKED adds its event to the confirmed.
LEMMA MarkConfirms ==
    ASSUME TypeOK, worker.cur \in Envelopes, UNCHANGED cloud,
           outbox' = [outbox EXCEPT ![worker.cur] = "ACKED"]
    PROVE  Released' = Released /\ Confirmed' = Confirmed \union {CurEvent}
BY DEF TypeOK, Released, Confirmed, CurEvent

\* Every step of the pipeline is a step of EventDelivery or leaves its
\* variables alone.
LEMMA StepRefines == IInv /\ [Next]_vars => [Delivery!Next]_(Delivery!vars)
<1> SUFFICES ASSUME IInv, [Next]_vars PROVE [Delivery!Next]_<<inventory, Released, Confirmed>>
  BY DEF Delivery!vars, Released, Confirmed
<1> USE DEF IInv
<1> DEFINE Same == UNCHANGED <<inventory, Released, Confirmed>>
<1>1. ASSUME UNCHANGED <<inventory, outbox>>,
             \A i \in Envelopes : /\ cloud'[i].event = cloud[i].event
                                 /\ cloud'[i].status = cloud[i].status
      PROVE  Same
  BY <1>1, SameReceipts
<1>2. ASSUME NEW i \in Envelopes, NEW answered \in BOOLEAN, AckCall(i, answered),
             UNCHANGED <<inventory, outbox>>, outbox[i] # "ABSENT"
      PROVE  Delivery!Next \/ Same
  <2>1. cloud[i].event \in Events /\ cloud[i].event \in inventory
    BY <1>2 DEF TableInv
  <2>2. Released' \in {Released, Released \union {cloud[i].event}} /\ Confirmed' = Confirmed
    BY <1>2, AckReleases
  <2>3. PICK e \in Events : e = cloud[i].event
    BY <2>1
  <2>4. Same \/ Delivery!Release(e)
    BY <1>2, <2>1, <2>2, <2>3 DEF Delivery!Release, Released, Confirmed
  <2>5. QED
    BY <2>4 DEF Delivery!Next
<1>3. ASSUME worker.pc \in {"markAcked", "resendMark"}, UNCHANGED <<inventory, cloud>>,
             outbox' = [outbox EXCEPT ![worker.cur] = "ACKED"]
      PROVE  Delivery!Next
  <2>1. worker.cur \in Envelopes /\ CurEvent \in Events /\ cloud[worker.cur].status = "ACKED"
    BY <1>3 DEF HandInv, Busy
  <2>2. Released' = Released /\ Confirmed' = Confirmed \union {CurEvent}
    BY <1>3, <2>1, MarkConfirms
  <2>3. CurEvent \in Released
    BY <2>1 DEF Released, CurEvent
  <2>4. PICK e \in Events : e = CurEvent
    BY <2>1
  <2>5. Delivery!Confirm(e)
    BY <1>3, <2>2, <2>3, <2>4 DEF Delivery!Confirm, Released, Confirmed
  <2>6. QED
    BY <2>5 DEF Delivery!Next
<1>4. CASE Environment
  <2>1. ASSUME NEW e \in Events, NEW p \in Payloads, Inject(e, p) PROVE Same
    <3>1. PICK k \in Envelopes :
            /\ cloud[k].status = "ABSENT"
            /\ cloud' = [cloud EXCEPT ![k] =
                           [status |-> "ENQUEUED", event |-> e, payload |-> p,
                            expired |-> FALSE, purged |-> FALSE]]
      BY <2>1 DEF Inject, IsFirst
    <3>2. cloud'[k].status = "ENQUEUED" /\ outbox[k] # "ACKED"
      BY <3>1 DEF TypeOK, TableInv
    <3>3. \A j \in Envelopes : j # k => cloud'[j] = cloud[j]
      BY <3>1 DEF TypeOK
    <3>4. QED
      BY <2>1, <3>1, <3>2, <3>3, SameReceipts DEF Inject
  <2>2. ASSUME NEW i \in Envelopes, Expire(i) PROVE Same
    BY <2>2, <1>1 DEF Expire, TypeOK, Row
  <2>3. CASE PurgeByOthers
    BY <2>3, <1>1, PurgeKeeps DEF PurgeByOthers
  <2>4. ASSUME NEW e \in Events, LearnMaster(e) PROVE Same
    BY <2>4, <1>1 DEF LearnMaster
  <2>5. CASE RequestStop \/ Crash
    BY <2>5, <1>1 DEF RequestStop, Crash
  <2>6. QED
    BY <1>4, <2>1, <2>2, <2>3, <2>4, <2>5 DEF Environment
<1>5. CASE Start
  BY <1>5, <1>1 DEF Start
<1>6. CASE LocalStep
  <2>1. CASE ResendMark \/ MarkAcked
    BY <2>1, <1>3 DEF ResendMark, MarkAcked
  <2>2. CASE StoreEvent
    <3>1. CASE UNCHANGED inventory
      BY <2>2, <3>1, <1>1 DEF StoreEvent
    <3>2. CASE inventory' = inventory \union {CurEvent}
      <4>1. CurEvent \in Events
        BY <2>2 DEF StoreEvent, HandInv, Busy, Handling
      <4>2. Released' = Released /\ Confirmed' = Confirmed
        BY <2>2, SameReceipts DEF StoreEvent
      <4>3. PICK e \in Events : e = CurEvent
        BY <4>1
      <4>4. Delivery!Store(e)
        BY <3>2, <4>2, <4>3 DEF Delivery!Store, Released, Confirmed
      <4>5. QED
        BY <4>4 DEF Delivery!Next
    <3>3. QED
      BY <2>2, <3>1, <3>2 DEF StoreEvent
  <2>3. CASE RecordAck
    <3>1. worker.cur \in Envelopes
      BY <2>3 DEF RecordAck, HandInv, Busy, Handling
    <3>2. \A i \in Envelopes : (outbox[i] = "ACKED") <=> (outbox'[i] = "ACKED")
      BY <2>3, <3>1 DEF RecordAck, TypeOK
    <3>3. QED
      BY <2>3, <3>2, SameReceipts DEF RecordAck
  <2>4. CASE BeginCycle \/ EndResend \/ EndCycle \/ RecordEnvelope \/ OpenEnvelope
             \/ MarkApplied \/ Exit
    BY <2>4, <1>1 DEF BeginCycle, EndResend, EndCycle, RecordEnvelope, OpenEnvelope,
       MarkApplied, Exit
  <2>5. QED
    BY <1>6, <2>1, <2>2, <2>3, <2>4 DEF LocalStep
<1>7. CASE NetworkStep
  <2>1. ASSUME NEW answered \in BOOLEAN, Resend(answered) PROVE Delivery!Next \/ Same
    <3>1. PICK i \in Envelopes : i \in worker.resend /\ AckCall(i, answered)
      BY <2>1 DEF Resend, IsFirst
    <3>2. outbox[i] # "ABSENT"
      BY <3>1 DEF HandInv
    <3>3. QED
      BY <2>1, <3>1, <3>2, <1>2 DEF Resend
  <2>2. ASSUME NEW answered \in BOOLEAN, SendAck(answered) PROVE Delivery!Next \/ Same
    <3>1. worker.cur \in Envelopes /\ outbox[worker.cur] # "ABSENT"
      BY <2>2 DEF SendAck, HandInv, Busy
    <3>2. QED
      BY <2>2, <3>1, <1>2 DEF SendAck
  <2>3. CASE Pull \/ PullFails
    BY <2>3, <1>1, PurgeKeeps DEF Pull, PullFails
  <2>4. QED
    BY <1>7, <2>1, <2>2, <2>3 DEF NetworkStep
<1>8. CASE UNCHANGED vars
  BY <1>8, <1>1 DEF vars
<1>9. QED
  BY <1>4, <1>5, <1>6, <1>7, <1>8 DEF Next

\* The pipeline implements EventDelivery under the refinement mapping of the
\* Delivery instance.
THEOREM Refinement == Spec => DeliverySpec
<1>1. Init => Delivery!Init
  BY DEF Init, Delivery!Init
<1>2. QED
  BY <1>1, Invariance, StepRefines, PTL DEF Spec, DeliverySpec, Delivery!Spec

=============================================================================
