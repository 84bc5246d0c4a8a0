--------------------------- MODULE StatusStream ---------------------------
(***************************************************************************)
(* The status stream: RealtimeHub and the generator that serves one SSE    *)
(* connection, and its reader: the StatusStreamWorker of a workbench, with *)
(* its fallback to polling and the device count on the StatusCard, or the  *)
(* hook useStatusStream of the web dashboard.                              *)
(*                                                                         *)
(* The generator runs on the control plane's event loop, so requests that  *)
(* publish fall between two frames only.  A frame reaches the client as it *)
(* is yielded.  The generator also serves clients that resume with         *)
(* Last-Event-ID, as the route documents; neither reader does: the hook    *)
(* closes its EventSource before the browser could.                        *)
(***************************************************************************)
EXTENDS DeviceRegistry, Sequences, SequencesExt

CONSTANTS
    NoDevice,      \* an event that names no new device
    BufferSize,    \* DEFAULT_BUFFER_SIZE
    QueueSize,     \* SUBSCRIBER_QUEUE_SIZE
    MaxEvents      \* bound: events published by one run of the control plane

ASSUME StreamAssumption ==
    /\ NoDevice \notin Devices
    /\ BufferSize \in Nat \ {0}
    /\ QueueSize \in Nat \ {0}
    /\ MaxEvents \in Nat

VARIABLES
    lastId,    \* event ids given by this process
    buffer,    \* the ring buffer of recent events
    conn,      \* the generator of the client's connection
    client,    \* the reader of it, and what it was told
    card       \* the device count it shows (_registered_count)

streamVars == <<lastId, buffer, conn, client, card>>
varsOfStream == <<registryVars, streamVars>>

Event == [id : 1..MaxEvents, dev : Devices \union {NoDevice}]

Conn == [state : {"none", "replay", "live"},
         todo  : Seq(Event),       \* read from buffer or queue, not yet yielded
         queue : Seq(Event),       \* Subscriber.queue
         dropped : BOOLEAN]        \* history: the queue lost an event

Channels == {"off", "connecting", "sse", "polling", "offline"}

Client == [channel : Channels,
           web  : BOOLEAN,             \* it is the dashboard's hook
           last : 0..MaxEvents,        \* the id of the last frame
           known : SUBSET Devices]     \* the devices that a client which
                                       \* understands every frame knows of

StreamTypeOK ==
    /\ RegistryTypeOK
    /\ lastId \in 0..MaxEvents
    /\ buffer \in Seq(Event) /\ Len(buffer) <= BufferSize
    /\ conn \in Conn /\ Len(conn.queue) <= QueueSize
    /\ client \in Client
    /\ card \in 0..Cardinality(Devices)

NoClient == [channel |-> "off", web |-> FALSE, last |-> 0, known |-> {}]

NoConn == [state |-> "none", todo |-> <<>>, queue |-> <<>>, dropped |-> FALSE]

StreamInit ==
    /\ RegistryInit
    /\ lastId = 0 /\ buffer = <<>> /\ conn = NoConn
    /\ client = NoClient
    /\ card = 0

-----------------------------------------------------------------------------
(***************************************************************************)
(* The hub                                                                 *)
(***************************************************************************)

LastN(s, n) == SubSeq(s, Len(s) - Min({n, Len(s)}) + 1, Len(s))

HubPublish(dev) ==
    LET e == [id |-> lastId + 1, dev |-> dev]
    IN  /\ lastId < MaxEvents
        /\ lastId' = e.id
        /\ buffer' = LastN(Append(buffer, e), BufferSize)
        /\ conn' = IF conn.state = "none" THEN conn
                   ELSE [conn EXCEPT !.queue = LastN(Append(@, e), QueueSize),
                              !.dropped = @ \/ Len(conn.queue) = QueueSize]

EventsSince(id) ==
    IF id = 0 THEN <<>> ELSE SelectSeq(buffer, LAMBDA e : e.id > id)

LatestId == IF buffer = <<>> THEN 0 ELSE Last(buffer).id

\* Mutation: a registration is not published.
RegisterSilently(d) ==
    /\ RegisterNew(d)
    /\ UNCHANGED <<lastId, buffer, conn>>

\* DeviceService.register publishes a new device, and nothing else.
RegisterAndPublish(d) ==
    /\ RegisterNew(d)
    /\ HubPublish(d)

RegisterOnly(d) ==
    /\ RegisterAgain(d) \/ RegisterDenied(d)
    /\ UNCHANGED <<lastId, buffer, conn>>

\* A heartbeat, or a login: an event that names no new device.
ReportAndPublish(d) ==
    /\ Report(d)
    /\ HubPublish(NoDevice)

\* The control plane restarts: ids count from 1 again.
RestartControlPlane ==
    /\ lastId' = 0 /\ buffer' = <<>> /\ conn' = NoConn
    /\ UNCHANGED registryVars

ServerStep ==
    /\ \/ \E d \in Devices : RegisterAndPublish(d)
       \/ \E d \in Devices : RegisterOnly(d)
       \/ \E d \in Devices : ReportAndPublish(d)
       \/ RestartControlPlane
       \/ Operators /\ UNCHANGED <<lastId, buffer, conn>>
    /\ UNCHANGED <<client, card>>

-----------------------------------------------------------------------------
(***************************************************************************)
(* Frames                                                                  *)
(***************************************************************************)

\* update_snapshot counts data["devices"].
CardShows(n) == card' = n

Snapshot(id, channel) ==
    /\ client' = [client EXCEPT !.channel = channel, !.last = id,
                                !.known = Rows]
    /\ CardShows(Cardinality(Rows))

\* Only a snapshot has data["devices"], but the worker hands every frame to
\* update_snapshot, whatever its event type; the hook listens to snapshots only.
EventFrame(e) ==
    /\ client' = [client EXCEPT !.last = e.id,
                    !.known = IF e.dev = NoDevice THEN @ ELSE @ \union {e.dev}]
    /\ IF client.web THEN UNCHANGED card ELSE CardShows(0)

\* A connection is accepted.  With nothing to replay the snapshot comes in
\* the same step; `from` is 0 for a client that does not resume.
StreamOpens(from) ==
    /\ client.channel = "connecting"
    /\ IF EventsSince(from) = <<>>
         THEN /\ conn' = [NoConn EXCEPT !.state = "live"]
              /\ Snapshot(LatestId, "sse")
         ELSE /\ conn' = [NoConn EXCEPT !.state = "replay",
                                         !.todo = EventsSince(from)]
              /\ client' = [client EXCEPT !.channel = "sse"]
              /\ UNCHANGED card
    /\ UNCHANGED <<registryVars, lastId, buffer>>

SendReplayed ==
    /\ conn.state = "replay" /\ conn.todo # <<>>
    /\ EventFrame(Head(conn.todo))
    /\ conn' = [conn EXCEPT !.todo = Tail(@)]
    /\ UNCHANGED <<registryVars, lastId, buffer>>

SendSnapshot ==
    /\ conn.state = "replay" /\ conn.todo = <<>>
    /\ Snapshot(LatestId, "sse")
    /\ conn' = [conn EXCEPT !.state = "live"]
    /\ UNCHANGED <<registryVars, lastId, buffer>>

\* Mutation: what arrives while drained events are sent is cleared away.
SendAndClear ==
    /\ conn.state = "live"
    /\ LET pending == IF conn.todo = <<>> THEN conn.queue ELSE conn.todo
       IN  /\ pending # <<>>
           /\ EventFrame(Head(pending))
           /\ conn' = [conn EXCEPT !.todo = Tail(pending), !.queue = <<>>]
    /\ UNCHANGED <<registryVars, lastId, buffer>>

\* The queue is drained as a whole and sent frame by frame.
SendEvent ==
    /\ conn.state = "live"
    /\ LET pending == IF conn.todo = <<>> THEN conn.queue ELSE conn.todo
       IN  /\ pending # <<>>
           /\ EventFrame(Head(pending))
           /\ conn' = [conn EXCEPT
                         !.todo = Tail(pending),
                         !.queue = IF conn.todo = <<>> THEN <<>> ELSE @]
    /\ UNCHANGED <<registryVars, lastId, buffer>>

-----------------------------------------------------------------------------
(***************************************************************************)
(* The readers                                                             *)
(***************************************************************************)

Become(from, to) ==
    /\ client.channel \in from
    /\ client' = [client EXCEPT !.channel = to, !.known = {}]
    /\ conn' = NoConn
    /\ UNCHANGED <<registryVars, lastId, buffer, card>>

\* At login refresh_status of the workbench lists the devices.
StartWorker ==
    /\ client.channel = "off"
    /\ client' = [client EXCEPT !.channel = "connecting"]
    /\ \/ Allowed /\ CardShows(Cardinality(Rows))    \* list_devices
       \/ UNCHANGED card                             \* refused or failed
    /\ UNCHANGED <<registryVars, lastId, buffer, conn>>

\* The dashboard is opened.
StartHook ==
    /\ client.channel = "off"
    /\ client' = [client EXCEPT !.channel = "connecting", !.web = TRUE]
    /\ UNCHANGED <<registryVars, lastId, buffer, conn, card>>

\* The workbench or the page is closed, and its card with it.
StopWorker ==
    /\ client.channel # "off"
    /\ client' = NoClient
    /\ card' = 0
    /\ conn' = NoConn
    /\ UNCHANGED <<registryVars, lastId, buffer>>

\* The stream cannot be opened, or it ends: the reader goes over to polling.
StreamEnds == Become({"connecting", "sse"}, "polling")

\* While polling succeeds the reader polls on; the hook does in any case.
Poll ==
    /\ client.channel = "polling"
    /\ Snapshot(LatestId, "polling")
    /\ UNCHANGED <<registryVars, lastId, buffer, conn>>

PollFails == ~client.web /\ Become({"polling"}, "offline")

RetryStream == Become({"offline"}, "connecting")

\* The hook opens a stream again only when the user refreshes.
RefreshPage ==
    client.web /\ Become({"connecting", "sse", "polling"}, "connecting")

ClientStep ==
    \/ StartWorker \/ StartHook \/ StopWorker
    \/ StreamEnds \/ Poll \/ PollFails \/ RetryStream \/ RefreshPage
    \/ \E from \in {0, client.last} : StreamOpens(from)

SendStep == SendReplayed \/ SendSnapshot \/ SendEvent

StreamNext == ServerStep \/ ClientStep \/ SendStep

StreamSpec == StreamInit /\ [][StreamNext]_varsOfStream

NoticeEnd == client.channel = "sse" /\ conn.state = "none" /\ StreamEnds

\* The generator wakes every poll_interval; a reader notices that its stream
\* was closed, by the close or by its read timeout.
StreamFairness == WF_varsOfStream(SendStep) /\ WF_varsOfStream(NoticeEnd)

FairStreamSpec == StreamSpec /\ StreamFairness

-----------------------------------------------------------------------------
(***************************************************************************)
(* Properties                                                              *)
(***************************************************************************)

Settled == conn.state = "live" /\ conn.todo = <<>> /\ conn.queue = <<>>

\* When a connection has nothing left to send, a client that understands
\* every frame knows every device of the tenant, whatever was published
\* during the replay or between two frames, and however often the hub has
\* restarted, unless the connection's queue overflowed.
StreamKeepsUp == Settled /\ ~conn.dropped => client.known = Rows

\* The client of a stream that lasts catches up with the device table,
\* unless its queue overflows.
DevicesBecomeKnown ==
    client.channel = "sse"
        ~> client.known = Rows \/ client.channel # "sse" \/ conn.dropped
=============================================================================
