------------------------------ MODULE EventStream ------------------------------
(***************************************************************************)
(* The follow stream of one run or one conversation operation, from the    *)
(* log in the store to the Dashboard that follows it.                      *)
(*                                                                         *)
(* A writer appends events and at last ends the row: an operation with its *)
(* last event in one transaction, a run in three writes (event,            *)
(* checkpoint, row).  The server answers a request with a replay and then  *)
(* polls events and row; the replay of a run puts its checkpoint in the    *)
(* place of the events it covers.  The Dashboard reconnects with the last  *)
(* sequence it has seen until it is told a terminal event.                 *)
(*                                                                         *)
(* One action is one read or write of the store, or one frame received.    *)
(***************************************************************************)
EXTENDS Integers, Sequences, FiniteSetsExt

CONSTANTS
    Sources,        \* the kinds of source followed: "run", "operation"
    PageSize,       \* events a poll returns (100)
    MaxLog,         \* bound: events a writer appends before it ends
    MaxDrops,       \* bound: connections lost, restarts included
    MaxFaults       \* bound: reads of the store that fail

ASSUME StreamAssumption ==
    /\ Sources \subseteq {"run", "operation"}
    /\ PageSize \in Nat \ {0}
    /\ MaxLog \in Nat /\ MaxDrops \in Nat /\ MaxFaults \in Nat

VARIABLES
    source,         \* what is followed
    log,            \* kinds of the events, by sequence number
    checkpoints,    \* sequences the checkpoints of a run have covered; the last is stored
    row,            \* the source's row
    writer,         \* what the writer still has to do
    server,         \* the handler's stream: phase, cursor, what it has read
    wire,           \* frames sent and not received
    client,         \* streamDurableEvents: phase and cursor
    seen,           \* identities the Dashboard's EventCursor has accepted
    told,           \* history: what the listeners were told, in order
    drops,          \* history: connections lost
    readFaults      \* history: reads that have failed

storedVars == <<source, log, checkpoints, row, writer>>
counters == <<drops, readFaults>>
streamVars == <<source, log, checkpoints, row, writer, server, wire, client, seen, told,
                drops, readFaults>>

EventKinds == {"step", "end"}
Frames == [id : Nat, kind : EventKinds \cup {"snapshot"}] \cup [kind : {"error"}]
Stream(phase, cursor) == [phase |-> phase, cursor |-> cursor, covers |-> 0, ended |-> FALSE]
NoStream == Stream("none", 0)

StreamTypeOK ==
    /\ source \in Sources
    /\ log \in Seq(EventKinds)
    /\ checkpoints \subseteq 0..Len(log)
    /\ row \in {"open", "ended", "gone"}
    /\ writer \in {"idle", "cover", "settle"}
    /\ server \in [phase : {"none", "row", "snapshot", "follow", "check", "closing"},
                   cursor : Nat, covers : Nat, ended : BOOLEAN]
    /\ wire \in Seq(Frames)
    /\ client \in [phase : {"idle", "connecting", "reading", "done", "failed"}, cursor : Nat]
    /\ seen \subseteq [id : Nat, kind : EventKinds \cup {"snapshot"}]
    /\ told \in Seq(Nat \X (EventKinds \cup {"snapshot"}))

Covered == IF checkpoints = {} THEN 0 ELSE Max(checkpoints)

StreamInit ==
    /\ source \in Sources
    /\ log = <<"step">>
    /\ checkpoints = {}
    /\ row = "open"
    /\ writer = "idle"
    /\ server = NoStream
    /\ wire = <<>>
    /\ client = [phase |-> "idle", cursor |-> 0]
    /\ seen = {}
    /\ told = <<>>
    /\ drops = 0
    /\ readFaults = 0

-----------------------------------------------------------------------------
(* The writer *)

WriterOnly == UNCHANGED <<source, server, wire, client, seen, told, drops, readFaults>>

\* append_event, insert_event
WriteEvent ==
    /\ row = "open" /\ writer = "idle"
    /\ Len(log) < MaxLog
    /\ source = "operation" => "end" \notin {log[i] : i \in DOMAIN log}
    /\ log' = Append(log, "step")
    /\ WriterOnly
    /\ UNCHANGED <<checkpoints, row, writer>>

\* save_snapshot_cas of a running run
SaveCheckpoint ==
    /\ source = "run" /\ row = "open" /\ writer = "idle"
    /\ checkpoints' = checkpoints \cup {Len(log)}
    /\ WriterOnly
    /\ UNCHANGED <<log, row, writer>>

\* transition_operation to an end: its event and its row in one transaction.
EndOperation ==
    /\ source = "operation" /\ row = "open"
    /\ log' = Append(log, "end")
    /\ row' = "ended"
    /\ WriterOnly
    /\ UNCHANGED <<checkpoints, writer>>

\* finish: run.completed or run.stopped, ...; a run nobody advances is cancelled
\* by a handler, which saves no checkpoint.
WriteEnd ==
    /\ source = "run" /\ row = "open" /\ writer = "idle"
    /\ Len(log) =< MaxLog
    /\ log' = Append(log, "end")
    /\ writer' \in {"cover", "settle"}
    /\ WriterOnly
    /\ UNCHANGED <<checkpoints, row>>

\* ... the checkpoint that covers it, ...
CoverEnd ==
    /\ writer = "cover"
    /\ checkpoints' = checkpoints \cup {Len(log)}
    /\ writer' = "settle"
    /\ WriterOnly
    /\ UNCHANGED <<log, row>>

\* ... and the row: the run has ended, or can be retried or decided.
SettleRow ==
    /\ writer = "settle"
    /\ row' \in {"open", "ended"}
    /\ writer' = "idle"
    /\ WriterOnly
    /\ UNCHANGED <<log, checkpoints>>

\* The session of an operation is deleted, and its events with it.
DeleteSource ==
    /\ source = "operation"
    /\ row' = "gone"
    /\ WriterOnly
    /\ UNCHANGED <<log, checkpoints, writer>>

-----------------------------------------------------------------------------
(* The server's stream *)

Frame(i) == [id |-> i, kind |-> log[i]]
Gone == row = "gone"
Page(after, limit) ==
    IF Gone THEN <<>>
    ELSE [i \in 1..Min({limit, Len(log) - after}) |-> Frame(after + i)]
CursorAfter(frames, cursor) == IF frames = <<>> THEN cursor ELSE frames[Len(frames)].id
ServerOnly == UNCHANGED <<storedVars, client, seen, told, counters>>

\* conversation_operation_events reads the row before the events.
ReadRow ==
    /\ server.phase = "row" /\ ~Gone
    /\ server' = [server EXCEPT !.phase = "snapshot", !.ended = (row = "ended")]
    /\ ServerOnly
    /\ UNCHANGED wire

\* replay_window: the checkpoint, if it covers more than the follower has.
ReadSnapshot ==
    /\ server.phase = "row" /\ source = "run"
    /\ server' = [server EXCEPT !.phase = "snapshot",
                                !.covers = IF Covered > server.cursor THEN Covered ELSE 0]
    /\ ServerOnly
    /\ UNCHANGED wire

SnapshotFrame ==
    IF server.covers = 0 THEN <<>> ELSE <<[id |-> server.covers, kind |-> "snapshot"]>>

\* Mutant: the cursor moves to the end of the log, not to the last event sent.
ReplayToEnd ==
    LET events == Page(CursorAfter(SnapshotFrame, server.cursor), PageSize)
    IN  /\ server.phase = "snapshot"
        /\ wire' = SnapshotFrame \o events
        /\ server' = Stream(IF server.ended THEN "closing" ELSE "follow", Len(log))
        /\ ServerOnly

\* The events after it; an operation that had ended is not followed.
Replay ==
    LET events == Page(CursorAfter(SnapshotFrame, server.cursor), PageSize)
        frames == SnapshotFrame \o events
    IN  /\ server.phase = "snapshot"
        /\ wire' = frames
        /\ server' = Stream(IF server.ended THEN "closing" ELSE "follow",
                            CursorAfter(frames, server.cursor))
        /\ ServerOnly

\* The follow loop reads events, ...
FollowEvents ==
    LET events == Page(server.cursor, PageSize)
    IN  /\ server.phase = "follow"
        /\ wire' = wire \o events
        /\ server' = [server EXCEPT !.phase = IF events = <<>> THEN "check" ELSE "follow",
                                    !.cursor = CursorAfter(events, @)]
        /\ ServerOnly

\* ... and when there is none, the row; then it sleeps or ends the body.
CheckRow ==
    /\ server.phase = "check"
    /\ server' = [server EXCEPT !.phase = IF row = "open" THEN "follow" ELSE "closing"]
    /\ ServerOnly
    /\ UNCHANGED wire

-----------------------------------------------------------------------------
(* The Dashboard *)

Following == client.phase \in {"connecting", "reading"}
ClientOnly == UNCHANGED <<storedVars, counters>>

\* A run or an operation that is shown as active is followed.
Follow ==
    /\ ~Following /\ row = "open"
    /\ client' = [client EXCEPT !.phase = "connecting"]
    /\ server' = NoStream /\ wire' = <<>>
    /\ ClientOnly
    /\ UNCHANGED <<seen, told>>

\* streamDurableEvents opens the stream after the last sequence it has seen.
Connect ==
    /\ client.phase = "connecting" /\ ~(source = "operation" /\ Gone)
    /\ client' = [client EXCEPT !.phase = "reading"]
    /\ server' = Stream("row", client.cursor)
    /\ wire' = <<>>
    /\ ClientOnly
    /\ UNCHANGED <<seen, told>>

\* 404 is not transient.
NotFound ==
    /\ Gone
    /\ client.phase = "connecting" \/ server.phase = "row"
    /\ client' = [client EXCEPT !.phase = "failed"]
    /\ server' = NoStream
    /\ ClientOnly
    /\ UNCHANGED <<wire, seen, told>>

\* terminalTypes
IsTerminal(frame) == frame.kind = "end"

\* A frame is decoded; acceptEvents drops what it has seen, keeps the highest
\* sequence, and a terminal event ends the following.
ReceiveEvent ==
    /\ client.phase = "reading" /\ wire # <<>> /\ Head(wire).kind # "error"
    /\ LET frame == Head(wire)
       IN  IF frame \in seen
           THEN UNCHANGED <<client, seen, told>>
           ELSE /\ seen' = seen \cup {frame}
                /\ told' = Append(told, <<frame.id, frame.kind>>)
                /\ client' = [phase |-> IF IsTerminal(frame) THEN "done" ELSE "reading",
                              cursor |-> Max({client.cursor, frame.id})]
    /\ wire' = Tail(wire)
    /\ ClientOnly
    /\ UNCHANGED server

\* A runtime.error frame has no id, which the decoder refuses.
ReceiveError ==
    /\ client.phase = "reading" /\ wire # <<>> /\ Head(wire).kind = "error"
    /\ client' = [client EXCEPT !.phase = "failed"]
    /\ wire' = Tail(wire)
    /\ ClientOnly
    /\ UNCHANGED <<server, seen, told>>

\* Mutant: the end of the body ends the following.
EndOfBodyFinal ==
    /\ client.phase = "reading" /\ wire = <<>> /\ server.phase = "closing"
    /\ client' = [client EXCEPT !.phase = "done"]
    /\ server' = NoStream
    /\ ClientOnly
    /\ UNCHANGED <<wire, seen, told>>

\* The body ends without a terminal event: wait and connect again.
EndOfBody ==
    /\ client.phase = "reading" /\ wire = <<>> /\ server.phase = "closing"
    /\ client' = [client EXCEPT !.phase = "connecting"]
    /\ server' = NoStream
    /\ ClientOnly
    /\ UNCHANGED <<wire, seen, told>>

\* The view is left: stopEventStream aborts.
Abort ==
    /\ Following
    /\ client' = [client EXCEPT !.phase = "idle"]
    /\ server' = NoStream /\ wire' = <<>>
    /\ ClientOnly
    /\ UNCHANGED <<seen, told>>

-----------------------------------------------------------------------------
(* Failures *)

\* The connection is lost, with some of what was sent on it.
LoseConnection ==
    /\ drops < MaxDrops /\ client.phase = "reading"
    /\ client' = [client EXCEPT !.phase = "connecting"]
    /\ server' = NoStream /\ wire' = <<>>
    /\ drops' = drops + 1
    /\ UNCHANGED <<storedVars, seen, told, readFaults>>

\* Core stops and starts; an open operation is failed before requests are served.
RestartCore ==
    /\ drops < MaxDrops
    /\ IF source = "operation" /\ row = "open"
       THEN log' = Append(log, "end") /\ row' = "ended"
       ELSE UNCHANGED <<log, row>>
    /\ writer' = "idle"
    /\ client' = [client EXCEPT !.phase = IF @ = "reading" THEN "connecting" ELSE @]
    /\ server' = NoStream /\ wire' = <<>>
    /\ drops' = drops + 1
    /\ UNCHANGED <<source, checkpoints, seen, told, readFaults>>

\* A read fails: before the stream has begun with a 500, which is retried; later
\* with an error frame.
ReadFails ==
    /\ readFaults < MaxFaults /\ client.phase = "reading"
    /\ \/ /\ server.phase \in {"row", "snapshot"}
          /\ client' = [client EXCEPT !.phase = "connecting"]
          /\ server' = NoStream
          /\ UNCHANGED wire
       \/ /\ server.phase \in {"follow", "check"}
          /\ server' = [server EXCEPT !.phase = "closing"]
          /\ wire' = Append(wire, [kind |-> "error"])
          /\ UNCHANGED client
    /\ readFaults' = readFaults + 1
    /\ UNCHANGED <<storedVars, seen, told, drops>>

-----------------------------------------------------------------------------
Write == WriteEvent \/ SaveCheckpoint \/ EndOperation \/ WriteEnd \/ CoverEnd \/ SettleRow
Serve == (ReadRow /\ source = "operation") \/ ReadSnapshot \/ Replay \/ FollowEvents \/ CheckRow
Listen == Connect \/ NotFound \/ ReceiveEvent \/ ReceiveError \/ EndOfBody

StreamNext ==
    \/ Write \/ DeleteSource
    \/ Serve
    \/ Listen \/ Follow \/ Abort
    \/ LoseConnection \/ RestartCore \/ ReadFails

StreamSpec == StreamInit /\ [][StreamNext]_streamVars

\* The stream is polled while the follower reads it, and the follower waits for it.
StreamFairness ==
    /\ WF_streamVars(Serve)
    /\ WF_streamVars(Listen)
    /\ WF_streamVars(CoverEnd \/ SettleRow)

StreamFairSpec == StreamSpec /\ StreamFairness

-----------------------------------------------------------------------------
(* Properties *)

Feed == INSTANCE EventFeed WITH
    length <- Len(log),
    told <- [i \in DOMAIN told |-> told[i][1]]

\* Across reconnections, restarts and concurrent writes the listeners are told
\* the events in order, none twice and none left out but for a checkpoint that
\* covers it: streamDurableEvents, EventCursor and run_events together.
FeedRefined == Feed!FeedSpec

LastTold == told # <<>> /\ told[Len(told)][2] = "end"
CaughtUp == client.cursor = Len(log) \/ LastTold

\* Whoever follows a source that has ended is told what was logged, up to the
\* end, or stops: no event is lost between the replay and the polls.
FollowerCatchesUp ==
    (row = "ended" /\ Following) ~> (CaughtUp \/ client.phase \in {"idle", "failed"})

\* A follower of an operation learns that it has ended and stops reconnecting.
OperationFollowerStops ==
    (source = "operation" /\ row = "ended" /\ Following) ~> ~Following
=============================================================================
