----------------------------- MODULE ToolProcess -----------------------------
(***************************************************************************)
(* One call of a program outside Core: an MCP server that is initialized   *)
(* and called over its standard streams, or a capability worker that       *)
(* answers one framed request.  Core owns the process, bounds what it      *)
(* reads, and leaves at the first error, at the deadline, or when whoever  *)
(* called is gone.                                                         *)
(*                                                                         *)
(* A line is one unit of output, or more than is allowed.  The program may *)
(* start processes of its own, which share the process group Core created. *)
(***************************************************************************)
EXTENDS Naturals

CONSTANT MaxOutput      \* SandboxPolicy.max_output_bytes, max_response_bytes

ASSUME ProcessAssumption == MaxOutput \in Nat \ {0}

VARIABLES
    program,        \* what is called
    exchange,       \* where the exchange is
    leader,         \* the process Core has spawned
    family,         \* processes the leader has spawned are there
    consumed,       \* output that was read
    ready,          \* the program has answered initialize
    ended           \* what the call has come to

processVars == <<program, exchange, leader, family, consumed, ready, ended>>

Programs == {"mcp", "worker"}
Failures == {"protocol", "oversized", "server", "crash", "mismatch", "timeout", "dropped"}

ProcessTypeOK ==
    /\ program \in Programs
    /\ exchange \in {"spawn", "initialize", "initialized", "call", "answer", "request", "header", "frame", "wait", "over"}
    /\ leader \in {"none", "up", "succeeded", "failed", "killed"} /\ family \in BOOLEAN
    /\ consumed \in 0 .. MaxOutput + 1 /\ ready \in BOOLEAN
    /\ ended \in {"no", "spawn failed", "ok"} \cup Failures

ProcessInit ==
    /\ program \in Programs
    /\ exchange = "spawn" /\ leader = "none" /\ family = FALSE
    /\ consumed = 0 /\ ready = FALSE /\ ended = "no"

-----------------------------------------------------------------------------
(* Ends *)

\* terminate: the group is killed, and the leader reaped.
Terminate == leader' = "killed" /\ family' = FALSE

\* The handle is dropped, and kill_on_drop kills the leader alone.
DropChild == leader' = IF leader = "up" THEN "killed" ELSE leader

End(how) == ended' = how /\ exchange' = "over"

\* An error that `?` hands on.
Leave(how) == End(how) /\ DropChild /\ UNCHANGED <<program, family, consumed, ready>>

To(step) == exchange' = step /\ UNCHANGED <<program, leader, family, ended>>

-----------------------------------------------------------------------------
(* The exchange with an MCP server *)

\* execute_stdio_mcp and WorkerCommand::execute
Spawn ==
    /\ exchange = "spawn"
    /\ \/ /\ leader' = "up" /\ UNCHANGED ended
          /\ exchange' = IF program = "mcp" THEN "initialize" ELSE "request"
       \/ End("spawn failed") /\ UNCHANGED leader
    /\ UNCHANGED <<program, family, consumed, ready>>

\* write_message; the pipe of a process that is gone is broken.
WriteBack(from, to) ==
    /\ exchange = from
    /\ \/ To(to) /\ UNCHANGED <<consumed, ready>>
       \/ leader # "up" /\ Leave("protocol")

\* Mutant: the bound is not looked at.
ReadUnbounded(size) == consumed' = consumed + size

\* A line is read, if what is left of the bound admits it.
Read(size) ==
    /\ consumed' = consumed + size
    /\ consumed' <= MaxOutput

\* read_response hands back the line with the id that is expected.
ReadLine ==
    /\ exchange \in {"initialized", "answer"}
    /\ \/ /\ Read(1)            \* a notification, or the answer to something else
          /\ UNCHANGED <<program, exchange, leader, family, ready, ended>>
       \/ /\ exchange = "initialized" /\ Read(1)
          /\ ready' = TRUE /\ To("call")
       \/ /\ exchange = "answer" /\ Read(1)
          /\ End("ok") /\ Terminate /\ UNCHANGED <<program, ready>>
       \/ /\ Read(1)            \* an answer with an error
          /\ End("server") /\ Terminate /\ UNCHANGED <<program, ready>>

\* The bound is used up, or a line is longer than what is left of it.
ReadTooMuch ==
    /\ exchange \in {"initialized", "answer"}
    /\ End("oversized") /\ DropChild
    /\ consumed' \in {consumed, MaxOutput + 1}
    /\ consumed' >= MaxOutput
    /\ UNCHANGED <<program, family, ready>>

\* A line that is no JSON, an answer without a result, or the end of the output.
ReadNonsense == exchange \in {"initialized", "answer"} /\ Leave("protocol")

-----------------------------------------------------------------------------
(* The exchange with a capability worker *)

WriteRequest ==
    /\ exchange = "request"
    /\ \/ To("header") /\ UNCHANGED <<consumed, ready>>
       \/ leader # "up" /\ Leave("crash")

\* The announced length is zero or too much.
ReadHeader ==
    /\ exchange = "header"
    /\ \/ To("frame") /\ UNCHANGED <<consumed, ready>>
       \/ End("oversized") /\ Terminate /\ UNCHANGED <<program, consumed, ready>>
       \/ Leave("protocol")

ReadFrame ==
    /\ exchange = "frame"
    /\ \/ \E size \in 1 .. MaxOutput :
              consumed' = size /\ To("wait") /\ UNCHANGED ready
       \/ Leave("protocol")

\* The worker has to exit in peace before its frame is parsed and validated.
AwaitWorker ==
    /\ exchange = "wait" /\ leader \in {"succeeded", "failed"}
    /\ \E how \in IF leader = "failed" THEN {"crash"} ELSE {"protocol", "mismatch", "ok"} : End(how)
    /\ UNCHANGED <<program, leader, family, consumed, ready>>

-----------------------------------------------------------------------------
(* The deadline, the caller and the program *)

Busy == exchange \notin {"spawn", "over"}

\* max_runtime_ms, timeout_ms
Timeout ==
    /\ Busy /\ End("timeout") /\ Terminate
    /\ UNCHANGED <<program, consumed, ready>>

\* The future is dropped: the run is cancelled, its deadline is over, or the
\* request that made the call is gone.
CallerLeaves == Busy /\ Leave("dropped")

StartChild ==
    /\ leader = "up" /\ ~family /\ family' = TRUE
    /\ UNCHANGED <<program, exchange, leader, consumed, ready, ended>>

Exit ==
    /\ leader = "up" /\ leader' \in {"succeeded", "failed"}
    /\ UNCHANGED <<program, exchange, family, consumed, ready, ended>>

ProcessNext ==
    \/ Spawn \/ WriteBack("initialize", "initialized") \/ WriteBack("call", "answer")
    \/ ReadLine \/ ReadTooMuch \/ ReadNonsense
    \/ WriteRequest \/ ReadHeader \/ ReadFrame \/ AwaitWorker
    \/ Timeout \/ CallerLeaves \/ StartChild \/ Exit

ProcessSpec == ProcessInit /\ [][ProcessNext]_processVars

-----------------------------------------------------------------------------
(* Properties *)

\* However a call ends, the process it has started is gone, and when an MCP server
\* has answered or run into its deadline so are the processes it has started; and
\* an answer was read within the bound, from a server that was initialized or a
\* worker that exited in peace.
ProcessIsEnded ==
    /\ exchange = "over" => leader # "up"
    /\ program = "mcp" /\ ended \in {"ok", "server", "timeout"} => ~family
    /\ ended = "ok" => /\ consumed \in 1 .. MaxOutput
                       /\ IF program = "mcp" THEN ready /\ consumed >= 2 ELSE leader = "succeeded"
=============================================================================
