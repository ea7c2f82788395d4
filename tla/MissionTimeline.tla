--------------------------- MODULE MissionTimeline ---------------------------
(***************************************************************************)
(* The mission timeline: rows appended to mission_timeline_events by the   *)
(* runtime, the SSE stream that polls them for one mission, and the        *)
(* dashboard that follows the stream with an EventSource.  A row is named  *)
(* by its position in the table (timeline_id); an event id names one row   *)
(* (UNIQUE).  The stream starts once the mission has its row.              *)
(* A connection may break at any time, also because the runtime restarts;  *)
(* what is on the wire is lost then, and the EventSource reconnects with   *)
(* the id of the last event it dispatched.                                 *)
(***************************************************************************)
EXTENDS Integers, Sequences

CONSTANTS
  Missions,        \* mission ids
  Watched,         \* the mission the dashboard shows
  HeartbeatTicks,  \* polls without a write after which a heartbeat is due
  MaxRows,         \* bound on the rows of the table
  MaxBreaks,       \* bound on the number of broken connections
  MaxWire          \* bound on the chunks on the wire

ASSUME MissionTimelineAssumption ==
  /\ Watched \in Missions
  /\ HeartbeatTicks \in Nat \ {0}
  /\ MaxRows \in Nat
  /\ MaxBreaks \in Nat
  /\ MaxWire \in Nat

VARIABLES
  log,         \* the mission of each row
  stream,      \* "open" from the connection to its end
  cursor,      \* the stream's lastEventId, 0 if it has none
  quiet,       \* polls since lastHeartbeatAt
  wire,        \* what was written and has not been received
  idBuffer,    \* the EventSource's last event id buffer
  dataBuffer,  \* the EventSource's data buffer: the row of each data line
  lastEventId, \* the id of the last dispatch, sent when reconnecting, or 0
  received,    \* the rows whose lines ever reached the browser
  shown,       \* the rows merged into the dashboard's timeline
  breaks

server == <<log, stream, cursor, quiet>>
client == <<idBuffer, dataBuffer, lastEventId, received, shown>>
vars == <<server, wire, client, breaks>>

Init ==
  /\ log = <<>>
  /\ stream = "closed"
  /\ cursor = 0
  /\ quiet = 0
  /\ wire = <<>>
  /\ idBuffer = 0
  /\ dataBuffer = <<>>
  /\ lastEventId = 0
  /\ received = {}
  /\ shown = {}
  /\ breaks = 0

(***************************************************************************)
(* recordMissionTimelineEvent                                              *)
(***************************************************************************)
RecordMissionTimelineEvent(m) ==
  /\ Len(log) < MaxRows
  /\ log' = Append(log, m)
  /\ UNCHANGED <<stream, cursor, quiet, wire, client, breaks>>
-----------------------------------------------------------------------------
(***************************************************************************)
(* readMissionTimelineEvents: the rows of the mission after the cursor, in *)
(* the order of the table.                                                 *)
(***************************************************************************)
Rows == 1..Len(log)

InTableOrder(S) ==
  LET upTo[n \in 0..Len(log)] ==
        IF n = 0 THEN <<>>
        ELSE IF n \in S THEN Append(upTo[n - 1], n)
        ELSE upTo[n - 1]
  IN upTo[Len(log)]

RowsFrom(c) ==  \* mutation: the row of the cursor again
  InTableOrder({i \in Rows : log[i] = Watched /\ i >= c})

RowsBeyond(c) ==  \* mutation: passes over one row
  InTableOrder({i \in Rows : log[i] = Watched /\ i > c + 1})

RowsAfter(c) == InTableOrder({i \in Rows : log[i] = Watched /\ i > c})

(***************************************************************************)
(* What the serializers write.  The id, event and data lines of a row, one *)
(* element here, end in a single newline, so that the lines of the next    *)
(* row follow at once; a comment ends in two, so that a blank line follows *)
(* it.                                                                     *)
(***************************************************************************)
Blank == [line |-> "blank", row |-> 0]

LinesOf(i) == [line |-> "row", row |-> i]

Batch(events) == [j \in 1..Len(events) |-> LinesOf(events[j])]

BareHeartbeat == <<>>  \* mutation: a comment without the blank line

Heartbeat == <<Blank>>

DeliverEvents(c) ==
  LET events == RowsAfter(c) IN
  IF events = <<>> THEN c ELSE events[Len(events)]

(***************************************************************************)
(* startMissionTimelineStream up to setInterval: a comment, then the rows  *)
(* after the Last-Event-ID the browser sent.  The last event id buffer of  *)
(* a new connection starts empty or, in some browsers, as it was.          *)
(***************************************************************************)
Connect ==
  /\ stream = "closed"
  /\ stream' = "open"
  /\ cursor' = DeliverEvents(lastEventId)
  /\ quiet' = 0
  /\ wire' = <<Blank>> \o Batch(RowsAfter(lastEventId))
  /\ idBuffer' \in {0, lastEventId}
  /\ dataBuffer' = <<>>
  /\ UNCHANGED <<log, lastEventId, received, shown, breaks>>

(***************************************************************************)
(* tick: new rows, or a heartbeat when none were written for long enough.  *)
(***************************************************************************)
TickWithoutDelivery ==  \* mutation: rows only when the stream starts
  /\ stream = "open"
  /\ Len(wire) < MaxWire
  /\ IF quiet = HeartbeatTicks
       THEN wire' = wire \o Heartbeat /\ quiet' = 0
       ELSE quiet' = quiet + 1 /\ UNCHANGED wire
  /\ UNCHANGED <<log, stream, cursor, client, breaks>>

TickWithoutReset ==  \* mutation: lastHeartbeatAt stays after a heartbeat
  /\ stream = "open"
  /\ Len(wire) < MaxWire
  /\ quiet' = quiet + 1
  /\ wire' = wire \o (IF quiet >= HeartbeatTicks THEN Heartbeat ELSE <<>>)
  /\ UNCHANGED <<log, stream, cursor, client, breaks>>

Tick ==
  /\ stream = "open"
  /\ Len(wire) < MaxWire
  /\ cursor' = DeliverEvents(cursor)
  /\ \/ /\ RowsAfter(cursor) # <<>>
        /\ wire' = wire \o Batch(RowsAfter(cursor))
        /\ quiet' = 0
     \/ /\ RowsAfter(cursor) = <<>>
        /\ quiet = HeartbeatTicks
        /\ wire' = wire \o Heartbeat
        /\ quiet' = 0
     \/ /\ RowsAfter(cursor) = <<>>
        /\ quiet < HeartbeatTicks
        /\ quiet' = quiet + 1
        /\ UNCHANGED wire
  /\ UNCHANGED <<log, stream, client, breaks>>

(***************************************************************************)
(* The connection ends; the stream's close handler stops its timer.        *)
(***************************************************************************)
Break ==
  /\ stream = "open"
  /\ breaks < MaxBreaks
  /\ stream' = "closed"
  /\ wire' = <<>>
  /\ breaks' = breaks + 1
  /\ UNCHANGED <<log, cursor, quiet, client>>
-----------------------------------------------------------------------------
(***************************************************************************)
(* The EventSource, external: the lines of a row add to its buffers; a     *)
(* blank line dispatches what they hold.                                   *)
(***************************************************************************)
ReceiveRow ==
  /\ wire # <<>>
  /\ wire[1] # Blank
  /\ wire' = Tail(wire)
  /\ idBuffer' = wire[1].row
  /\ dataBuffer' = Append(dataBuffer, wire[1].row)
  /\ received' = received \cup {wire[1].row}
  /\ UNCHANGED <<server, lastEventId, shown, breaks>>

(***************************************************************************)
(* handleRuntimeTimelineEvent: the data of one row is a JSON document and  *)
(* is merged by its id; the data of several is not, and is ignored.        *)
(***************************************************************************)
Merged(data) == IF Len(data) = 1 THEN {data[1]} ELSE {}

Dispatch ==
  /\ wire # <<>>
  /\ wire[1] = Blank
  /\ wire' = Tail(wire)
  /\ lastEventId' = idBuffer
  /\ shown' = shown \cup Merged(dataBuffer)
  /\ dataBuffer' = <<>>
  /\ UNCHANGED <<server, idBuffer, received, breaks>>

Next ==
  \/ \E m \in Missions : RecordMissionTimelineEvent(m)
  \/ Connect
  \/ Tick
  \/ Break
  \/ ReceiveRow
  \/ Dispatch

Spec == Init /\ [][Next]_vars

(***************************************************************************)
(* The interval timer fires, the network delivers while the connection     *)
(* stands, and the EventSource reconnects.                                 *)
(***************************************************************************)
FairSpec ==
  /\ Spec
  /\ WF_vars(Connect)
  /\ WF_vars(Tick)
  /\ WF_vars(ReceiveRow \/ Dispatch)
-----------------------------------------------------------------------------
(***************************************************************************)
(* Type invariant.                                                         *)
(***************************************************************************)
TypeOK ==
  /\ log \in Seq(Missions)
  /\ stream \in {"open", "closed"}
  /\ cursor \in Rows \cup {0}
  /\ quiet \in 0..HeartbeatTicks
  /\ wire \in Seq({LinesOf(i) : i \in Rows} \cup {Blank})
  /\ idBuffer \in Rows \cup {0}
  /\ dataBuffer \in Seq(Rows)
  /\ lastEventId \in Rows \cup {0}
  /\ received \in SUBSET Rows
  /\ shown \in SUBSET received
  /\ breaks \in 0..MaxBreaks

RowsOnWire == {i \in Rows : \E j \in 1..Len(wire) : wire[j] = LinesOf(i)}

(***************************************************************************)
(* No row is passed over: a row of the mission up to the stream's cursor   *)
(* was received or is on the wire, and one up to the id that the browser   *)
(* will send when it reconnects was received.  No broken connection,       *)
(* replay or row of another mission changes that.                          *)
(***************************************************************************)
NothingSkipped ==
  \A i \in Rows :
    log[i] = Watched =>
      /\ stream = "open" /\ i <= cursor => i \in received \cup RowsOnWire
      /\ i <= lastEventId => i \in received

(***************************************************************************)
(* On one connection rows of the mission alone arrive, in the order they   *)
(* were recorded, each once: what is on the wire is newer than what was    *)
(* received, increases, and is older than what the next poll will read.    *)
(***************************************************************************)
EachRowOnceInOrder ==
  stream = "open" =>
    /\ \A r \in RowsOnWire : log[r] = Watched /\ idBuffer < r /\ r <= cursor
    /\ \A i, j \in 1..Len(wire) :
         i < j /\ wire[i] # Blank /\ wire[j] # Blank => wire[i].row < wire[j].row

(***************************************************************************)
(* Every row of the mission reaches the browser in the end, whatever       *)
(* connections broke before.                                               *)
(***************************************************************************)
EveryRowArrives ==
  \A i \in 1..MaxRows :
    (i <= Len(log) /\ log[i] = Watched) ~> (i \in received)

(***************************************************************************)
(* A row received alone is shown once a heartbeat follows it, unless       *)
(* another row or the end of the connection comes first.                   *)
(***************************************************************************)
LoneRowIsShown ==
  \A i \in 1..MaxRows :
    (dataBuffer = <<i>>) ~> (i \in shown \/ dataBuffer # <<i>>)

(***************************************************************************)
(* Every event the stream has given the dashboard an id for is in its      *)
(* timeline.  The code breaks this: rows written together, or within one   *)
(* heartbeat interval, are dispatched as one event whose data is not JSON. *)
(***************************************************************************)
AcknowledgedIsShown ==
  \A i \in Rows : log[i] = Watched /\ i <= lastEventId => i \in shown
=============================================================================
