---------------------------- MODULE SyncPipeline ----------------------------
(***************************************************************************)
(* The mini-program event channel: the control plane's sync_envelope table *)
(* (SyncService over PostgresSyncEnvelopeRepository), the workbench's      *)
(* SyncWorker thread, and the local tables it writes in one transaction    *)
(* per step: sync_inbox, inventory_event and sync_outbox.                  *)
(*                                                                         *)
(* Envelopes are numbered in created_at order, which is the order in which *)
(* the cloud lists them and in which their ACKs are registered.            *)
(***************************************************************************)
EXTENDS Naturals, FiniteSets

CONSTANTS
    Events,        \* event_id values
    MaxEnvelopes,  \* bound: envelopes the cloud ever accepts
    Limit,         \* the worker's pull limit (DEFAULT_PULL_LIMIT)
    MaxCrashes,    \* bound: abrupt ends of the worker thread or its process
    MaxExpiries,   \* bound: envelopes whose TTL runs out
    NoEvent        \* event of an envelope that was never injected

ASSUME SyncAssumption ==
    /\ MaxEnvelopes \in Nat
    /\ Limit \in Nat \ {0}
    /\ MaxCrashes \in Nat
    /\ MaxExpiries \in Nat
    /\ NoEvent \notin Events

Envelopes == 1..MaxEnvelopes

\* What the worker finds in a ciphertext: a payload it can build an event
\* from, one it cannot decrypt, or one that does not match the envelope.
Payloads == {"good", "garbled", "mismatched"}

VARIABLES
    cloud,      \* sync_envelope: one row per envelope
    known,      \* events whose SKU and warehouse are in the local master data
    inbox,      \* sync_inbox: what each event's row says
    inventory,  \* event_ids of inventory_event
    outbox,     \* sync_outbox: status of each registered ACK
    worker,     \* the SyncWorker thread's program counter and locals
    stop,       \* SyncWorker._stop
    crashes,    \* crashes so far
    cut         \* history: events in the worker's hands when it crashed

vars == <<cloud, known, inbox, inventory, outbox, worker, stop, crashes, cut>>

Row == [status  : {"ABSENT", "ENQUEUED", "ACKED"},
        event   : Events \union {NoEvent},
        payload : Payloads,
        expired : BOOLEAN,   \* expires_at <= now
        purged  : BOOLEAN]   \* row deleted; the other fields are its last values

InboxStates  == {"ABSENT", "RECEIVED", "APPLIED", "DECRYPT_FAILED", "APPLY_FAILED"}
OutboxStates == {"ABSENT", "PENDING", "ACKED"}

PCs == {"off", "idle", "resend", "resendMark", "pull", "process", "open",
        "store", "markApplied", "recordAck", "sendAck", "markAcked"}

\* Program points between record_envelope and record_ack.
Handling == {"open", "store", "markApplied", "recordAck"}

Worker == [pc     : PCs,
           resend : SUBSET Envelopes,        \* PENDING acks still to resend
           batch  : SUBSET Envelopes,        \* pulled envelopes still to process
           cur    : Envelopes \union {0}]    \* envelope being handled

TypeOK ==
    /\ cloud \in [Envelopes -> Row]
    /\ known \in SUBSET Events
    /\ inbox \in [Events -> InboxStates]
    /\ inventory \in SUBSET Events
    /\ outbox \in [Envelopes -> OutboxStates]
    /\ worker \in Worker
    /\ stop \in BOOLEAN
    /\ crashes \in 0..MaxCrashes
    /\ cut \in SUBSET Events

Parked(pc) == [pc |-> pc, resend |-> {}, batch |-> {}, cur |-> 0]

Init ==
    /\ cloud = [i \in Envelopes |->
                  [status |-> "ABSENT", event |-> NoEvent, payload |-> "good",
                   expired |-> FALSE, purged |-> FALSE]]
    /\ known \in SUBSET Events
    /\ inbox = [e \in Events |-> "ABSENT"]
    /\ inventory = {}
    /\ outbox = [i \in Envelopes |-> "ABSENT"]
    /\ worker = Parked("off")
    /\ stop = FALSE
    /\ crashes = 0
    /\ cut = {}

-----------------------------------------------------------------------------
(***************************************************************************)
(* Helpers                                                                 *)
(***************************************************************************)

InTable(i) == cloud[i].status # "ABSENT" /\ ~cloud[i].purged

\* Mutation: the limit is off by one.
OldestButOne(S, n) == {i \in S : Cardinality({j \in S : j <= i}) < n}

\* list_enqueued: the oldest Limit rows of a set of envelopes.
Oldest(S, n) == {i \in S : Cardinality({j \in S : j <= i}) <= n}

Enqueued(table) ==
    {i \in Envelopes : /\ table[i].status = "ENQUEUED"
                       /\ ~table[i].expired
                       /\ ~table[i].purged}

\* delete_expired: every expired row of every tenant, whatever its status.
DeleteExpired ==
    [i \in Envelopes |->
        [cloud[i] EXCEPT !.purged = cloud[i].purged \/ (InTable(i) /\ cloud[i].expired)]]

\* Mutation: the query selects the final status.
AckedAcks == {i \in Envelopes : outbox[i] = "ACKED"}

\* list_pending_acks
PendingAcks == {i \in Envelopes : outbox[i] = "PENDING"}

IsFirst(i, S) == i \in S /\ \A j \in S : i <= j

Goto(pc) == worker' = [worker EXCEPT !.pc = pc]

\* The event of the envelope in the worker's hands.
CurEvent == cloud[worker.cur].event

-----------------------------------------------------------------------------
(***************************************************************************)
(* The cloud                                                               *)
(***************************************************************************)

\* SyncService.inject: event_id is unique among the rows still in the table.
Inject(e, p) ==
    /\ \A j \in Envelopes : InTable(j) => cloud[j].event # e
    /\ \E i \in Envelopes :
         /\ IsFirst(i, {j \in Envelopes : cloud[j].status = "ABSENT"})
         /\ cloud' = [cloud EXCEPT ![i] =
                        [status |-> "ENQUEUED", event |-> e, payload |-> p,
                         expired |-> FALSE, purged |-> FALSE]]
    /\ UNCHANGED <<known, inbox, inventory, outbox, worker, stop, crashes, cut>>

\* Time passes an envelope's expires_at.
Expire(i) ==
    /\ InTable(i) /\ ~cloud[i].expired
    /\ Cardinality({j \in Envelopes : cloud[j].expired}) < MaxExpiries
    /\ cloud' = [cloud EXCEPT ![i].expired = TRUE]
    /\ UNCHANGED <<known, inbox, inventory, outbox, worker, stop, crashes, cut>>

\* Another device's pull cleans up expired rows of all tenants.
PurgeByOthers ==
    /\ cloud' = DeleteExpired
    /\ UNCHANGED <<known, inbox, inventory, outbox, worker, stop, crashes, cut>>

\* SyncService.ack on the table: idempotent, refuses a row that is gone.
AckAtCloud(i) ==
    cloud' = IF InTable(i) THEN [cloud EXCEPT ![i].status = "ACKED"] ELSE cloud

\* HTTP outcomes of ack_sync_events: the client gets None unless the request
\* arrived, the cloud accepted it and the answer came back.
AckCall(i, answered) ==
    \/ /\ answered
       /\ InTable(i)
       /\ AckAtCloud(i)
    \/ /\ ~answered
       /\ \/ AckAtCloud(i)        \* refused, or accepted and the answer lost
          \/ cloud' = cloud       \* the request was lost

-----------------------------------------------------------------------------
(***************************************************************************)
(* Workbench: master data and thread life cycle                            *)
(***************************************************************************)

\* An import adds the SKU or warehouse an event refers to.
LearnMaster(e) ==
    /\ e \notin known
    /\ known' = known \union {e}
    /\ UNCHANGED <<cloud, inbox, inventory, outbox, worker, stop, crashes, cut>>

Start ==
    /\ worker.pc = "off"
    /\ worker' = Parked("idle")
    /\ stop' = FALSE
    /\ UNCHANGED <<cloud, known, inbox, inventory, outbox, crashes, cut>>

RequestStop ==
    /\ worker.pc # "off" /\ ~stop
    /\ stop' = TRUE
    /\ UNCHANGED <<cloud, known, inbox, inventory, outbox, worker, crashes, cut>>

\* The process dies, or an exception run() does not catch ends the thread
\* (OperationalError, malformed JSON): locals are gone, tables stay.
Crash ==
    /\ worker.pc # "off"
    /\ crashes < MaxCrashes
    /\ crashes' = crashes + 1
    /\ worker' = Parked("off")
    /\ cut' = IF worker.pc \in Handling THEN cut \union {CurEvent} ELSE cut
    /\ UNCHANGED <<cloud, known, inbox, inventory, outbox, stop>>

Exit ==
    /\ worker.pc = "idle" /\ stop
    /\ worker' = Parked("off")
    /\ UNCHANGED <<cloud, known, inbox, inventory, outbox, stop, crashes, cut>>

-----------------------------------------------------------------------------
(***************************************************************************)
(* One cycle: resend PENDING acks, pull, process each envelope             *)
(***************************************************************************)

BeginCycle ==
    /\ worker.pc = "idle" /\ ~stop
    /\ worker' = [Parked("resend") EXCEPT !.resend = PendingAcks]
    /\ UNCHANGED <<cloud, known, inbox, inventory, outbox, stop, crashes, cut>>

EndResend ==
    /\ worker.pc = "resend"
    /\ worker.resend = {} \/ stop
    /\ worker' = Parked("pull")
    /\ UNCHANGED <<cloud, known, inbox, inventory, outbox, stop, crashes, cut>>

\* Mutation: a resend counts as confirmed whatever the call returned.
ResendIgnoresAnswer(answered) ==
    /\ worker.pc = "resend" /\ ~stop
    /\ \E i \in Envelopes :
         /\ IsFirst(i, worker.resend)
         /\ AckCall(i, answered)
         /\ worker' = [worker EXCEPT !.pc = "resendMark", !.cur = i]
    /\ UNCHANGED <<known, inbox, inventory, outbox, stop, crashes, cut>>

\* The first unanswered resend ends the resend loop, whatever follows it.
Resend(answered) ==
    /\ worker.pc = "resend" /\ ~stop
    /\ \E i \in Envelopes :
         /\ IsFirst(i, worker.resend)
         /\ AckCall(i, answered)
         /\ worker' = IF answered
                      THEN [worker EXCEPT !.pc = "resendMark", !.cur = i]
                      ELSE Parked("pull")
    /\ UNCHANGED <<known, inbox, inventory, outbox, stop, crashes, cut>>

ResendMark ==
    /\ worker.pc = "resendMark"
    /\ outbox' = [outbox EXCEPT ![worker.cur] = "ACKED"]
    /\ worker' = [worker EXCEPT !.pc = "resend", !.cur = 0,
                                !.resend = @ \ {worker.cur}]
    /\ UNCHANGED <<cloud, known, inbox, inventory, stop, crashes, cut>>

\* SyncService.pull cleans up, then lists; the answer may be lost on the way.
Pull ==
    /\ worker.pc = "pull"
    /\ cloud' = DeleteExpired
    /\ worker' = [Parked("process") EXCEPT !.batch = Oldest(Enqueued(cloud), Limit)]
    /\ UNCHANGED <<known, inbox, inventory, outbox, stop, crashes, cut>>

PullFails ==
    /\ worker.pc = "pull"
    /\ cloud' \in {cloud, DeleteExpired}
    /\ worker' = Parked("idle")
    /\ UNCHANGED <<known, inbox, inventory, outbox, stop, crashes, cut>>

EndCycle ==
    /\ worker.pc = "process"
    /\ worker.batch = {} \/ stop
    /\ worker' = Parked("idle")
    /\ UNCHANGED <<cloud, known, inbox, inventory, outbox, stop, crashes, cut>>

\* Mutation: no existence check, every delivery is handled as a new one.
RecordEnvelopeAgain ==
    /\ worker.pc = "process" /\ ~stop
    /\ \E i \in Envelopes :
         /\ IsFirst(i, worker.batch)
         /\ inbox' = [inbox EXCEPT ![cloud[i].event] = "RECEIVED"]
         /\ worker' = [worker EXCEPT !.pc = "open", !.cur = i, !.batch = @ \ {i}]
    /\ UNCHANGED <<cloud, known, inventory, outbox, stop, crashes, cut>>

\* record_envelope: an event that already has a row is skipped for good.
RecordEnvelope ==
    /\ worker.pc = "process" /\ ~stop
    /\ \E i \in Envelopes :
         LET e == cloud[i].event
         IN /\ IsFirst(i, worker.batch)
            /\ IF inbox[e] = "ABSENT"
               THEN /\ inbox' = [inbox EXCEPT ![e] = "RECEIVED"]
                    /\ worker' = [worker EXCEPT !.pc = "open", !.cur = i,
                                                !.batch = @ \ {i}]
               ELSE /\ worker' = [worker EXCEPT !.batch = @ \ {i}]
                    /\ UNCHANGED inbox
    /\ UNCHANGED <<cloud, known, inventory, outbox, stop, crashes, cut>>

\* mark_failed, then back to the loop over the batch.
Fail(code) ==
    /\ inbox' = [inbox EXCEPT ![CurEvent] = code]
    /\ worker' = [worker EXCEPT !.pc = "process", !.cur = 0]

\* Mutation: a stop request is honoured in the middle of an envelope.
OpenEnvelopeUnlessStopped ==
    /\ worker.pc = "open"
    /\ IF stop THEN worker' = [worker EXCEPT !.pc = "process", !.cur = 0]
               ELSE Goto("store")
    /\ UNCHANGED <<cloud, known, inbox, inventory, outbox, stop, crashes, cut>>

\* _decrypt and _build_event
OpenEnvelope ==
    /\ worker.pc = "open"
    /\ \/ /\ cloud[worker.cur].payload = "good"
          /\ Goto("store")
          /\ UNCHANGED inbox
       \/ /\ cloud[worker.cur].payload = "garbled"
          /\ Fail("DECRYPT_FAILED")
       \/ /\ cloud[worker.cur].payload = "mismatched"
          /\ Fail("APPLY_FAILED")
    /\ UNCHANGED <<cloud, known, inventory, outbox, stop, crashes, cut>>

\* Mutation: an IntegrityError is taken for a duplicate and passed over.
StoreEventSwallowsError ==
    /\ worker.pc = "store"
    /\ inventory' = IF CurEvent \in known THEN inventory \union {CurEvent}
                                          ELSE inventory
    /\ Goto("markApplied")
    /\ UNCHANGED <<cloud, known, inbox, outbox, stop, crashes, cut>>

\* upsert_events; a missing foreign key is an IntegrityError.
StoreEvent ==
    /\ worker.pc = "store"
    /\ \/ /\ CurEvent \in known \union inventory
          /\ inventory' = inventory \union {CurEvent}
          /\ Goto("markApplied")
          /\ UNCHANGED inbox
       \/ /\ CurEvent \notin known \union inventory
          /\ Fail("APPLY_FAILED")
          /\ UNCHANGED inventory
    /\ UNCHANGED <<cloud, known, outbox, stop, crashes, cut>>

MarkApplied ==
    /\ worker.pc = "markApplied"
    /\ inbox' = [inbox EXCEPT ![CurEvent] = "APPLIED"]
    /\ Goto("recordAck")
    /\ UNCHANGED <<cloud, known, inventory, outbox, stop, crashes, cut>>

\* record_ack: nothing is sent for an ACK that is already registered.
RecordAck ==
    /\ worker.pc = "recordAck"
    /\ IF outbox[worker.cur] = "ABSENT"
       THEN /\ outbox' = [outbox EXCEPT ![worker.cur] = "PENDING"]
            /\ Goto("sendAck")
       ELSE /\ worker' = [worker EXCEPT !.pc = "process", !.cur = 0]
            /\ UNCHANGED outbox
    /\ UNCHANGED <<cloud, known, inbox, inventory, stop, crashes, cut>>

\* Mutation: the result of the call is not tested before mark_acked.
SendAckIgnoresAnswer(answered) ==
    /\ worker.pc = "sendAck"
    /\ AckCall(worker.cur, answered)
    /\ Goto("markAcked")
    /\ UNCHANGED <<known, inbox, inventory, outbox, stop, crashes, cut>>

SendAck(answered) ==
    /\ worker.pc = "sendAck"
    /\ AckCall(worker.cur, answered)
    /\ worker' = IF answered THEN [worker EXCEPT !.pc = "markAcked"]
                             ELSE [worker EXCEPT !.pc = "process", !.cur = 0]
    /\ UNCHANGED <<known, inbox, inventory, outbox, stop, crashes, cut>>

MarkAcked ==
    /\ worker.pc = "markAcked"
    /\ outbox' = [outbox EXCEPT ![worker.cur] = "ACKED"]
    /\ worker' = [worker EXCEPT !.pc = "process", !.cur = 0]
    /\ UNCHANGED <<cloud, known, inbox, inventory, stop, crashes, cut>>

-----------------------------------------------------------------------------
(***************************************************************************)
(* Specification                                                           *)
(***************************************************************************)

Environment ==
    \/ \E e \in Events, p \in Payloads : Inject(e, p)
    \/ \E i \in Envelopes : Expire(i)
    \/ PurgeByOthers
    \/ \E e \in Events : LearnMaster(e)
    \/ RequestStop
    \/ Crash

\* Steps of the thread that wait for nothing but the processor or the disk.
LocalStep ==
    \/ BeginCycle \/ EndResend \/ ResendMark \/ EndCycle \/ RecordEnvelope
    \/ OpenEnvelope \/ StoreEvent \/ MarkApplied \/ RecordAck \/ MarkAcked
    \/ Exit

\* Steps that end an HTTP call, with or without an answer.
NetworkStep ==
    \/ \E answered \in BOOLEAN : Resend(answered) \/ SendAck(answered)
    \/ Pull
    \/ PullFails

Next == Environment \/ Start \/ LocalStep \/ NetworkStep

Spec == Init /\ [][Next]_vars

(***************************************************************************)
(* Fairness.  The operating system schedules the thread and every HTTP     *)
(* call ends (http_client has a timeout); the network is not down for      *)
(* ever, so a call made again and again is answered some time; the user    *)
(* reopens the workbench.  Nothing is assumed of the cloud's producers, of *)
(* the clock, of imports or of crashes; that the workbench is left open in *)
(* the end is a premise of each liveness property (LeftOpen).              *)
(***************************************************************************)
Fairness ==
    /\ WF_vars(Start)
    /\ WF_vars(LocalStep)
    /\ WF_vars(NetworkStep)
    /\ SF_vars(Pull)
    /\ SF_vars(Resend(TRUE))

FairSpec == Spec /\ Fairness

-----------------------------------------------------------------------------
(***************************************************************************)
(* Properties                                                              *)
(***************************************************************************)

\* The cloud counts an envelope as ACKED only when the event is a row of
\* inventory_event and its inbox row says so: 落库成功为准.  An ACK that ran
\* ahead of the store, in any interleaving with a crash, would lose the event.
NoAckBeforeStore ==
    \A i \in Envelopes :
        cloud[i].status = "ACKED" => /\ cloud[i].event \in inventory
                                     /\ inbox[cloud[i].event] = "APPLIED"

\* Every row of sync_outbox belongs to an applied event (the foreign key to
\* sync_inbox only asks for a received one), and no event has two ACKs.
OutboxOnlyAfterApply ==
    \A i \in Envelopes : outbox[i] # "ABSENT" =>
        /\ inbox[cloud[i].event] = "APPLIED"
        /\ \A j \in Envelopes :
             (outbox[j] # "ABSENT" /\ cloud[j].event = cloud[i].event) => j = i

\* ACKED in sync_outbox means that the cloud took the ACK: no lost answer,
\* purge or crash leaves the workbench with a receipt the cloud never gave.
LocalAckIsCloudAck ==
    \A i \in Envelopes : outbox[i] = "ACKED" => cloud[i].status = "ACKED"

\* An inbox row with no verdict is either in the worker's hands or was there
\* when a crash struck: a stop request never abandons an envelope half way.
OnlyCrashLosesEvents ==
    \A e \in Events : inbox[e] = "RECEIVED" =>
        e \in cut \/ (worker.pc \in Handling /\ CurEvent = e)

Delivery == INSTANCE EventDelivery WITH
    stored    <- inventory,
    released  <- {cloud[i].event : i \in {j \in Envelopes : cloud[j].status = "ACKED"}},
    confirmed <- {cloud[i].event : i \in {j \in Envelopes : outbox[j] = "ACKED"}}

\* The pipeline implements EventDelivery: store, then release, then confirm,
\* with no stage skipped or undone.
DeliverySpec == Delivery!Spec

\* From some time on the user does not ask the worker to stop any more.
LeftOpen == <>[]~stop

\* An envelope the worker can read, of an event whose SKU it knows.
Deliverable(i, e) ==
    /\ cloud[i].status = "ENQUEUED" /\ cloud[i].payload = "good"
    /\ cloud[i].event = e /\ e \in known

\* A readable envelope of a known SKU ends up in the inventory, unless its TTL
\* runs out or an earlier attempt at the event was cut by a crash or failed.
GoodEnvelopeIsStored ==
    LeftOpen => \A i \in Envelopes, e \in Events :
        Deliverable(i, e)
        ~> \/ e \in inventory \union cut
           \/ cloud[i].expired
           \/ inbox[e] \in {"DECRYPT_FAILED", "APPLY_FAILED"}

\* A PENDING ack becomes ACKED, unless it or one registered before it is for
\* an expired envelope: resending stops at the first ack the cloud refuses.
PendingAckIsConfirmed ==
    LeftOpen => \A i \in Envelopes :
        outbox[i] = "PENDING"
        ~> \/ outbox[i] = "ACKED"
           \/ \E j \in 1..i : outbox[j] = "PENDING" /\ cloud[j].expired

\* sync_worker.py: an event that could not be stored is not acknowledged, the
\* cloud delivers the envelope again on the next pull, and it is then applied.
RedeliveredUntilStored ==
    LeftOpen => \A i \in Envelopes, e \in Events :
        Deliverable(i, e) ~> (e \in inventory \/ cloud[i].expired)

=============================================================================
