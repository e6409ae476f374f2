--------------------------- MODULE ProviderStream ---------------------------
(***************************************************************************)
(* The streamed reply of a model: the body arrives in pieces that have     *)
(* nothing to do with its frames, the frames are cut out of a buffer and   *)
(* parsed, tool calls are put together from fragments, and the agent's     *)
(* loop collects the answer and logs what it shows.                        *)
(*                                                                         *)
(* A frame is two bytes here, so that it can be cut; what it says is its   *)
(* place in the script of the reply.                                       *)
(***************************************************************************)
EXTENDS Integers, FiniteSets, SequencesExt

CONSTANTS
    Replies,            \* what a model may answer, by protocol: sequences of kinds
    BufferLimit,        \* 4_000_000 bytes
    MaxStreamFaults     \* bound: ends too early, errors of the body and of storage

Protocols == {"openai", "ollama"}
Kinds == {"text", "fragment", "calls", "comment", "stop", "length", "done"}
Ends == {"stop", "length"}

\* What a model answers: all it has to say, the calls in one piece or in fragments, and
\* then why it stops.
IsReply(kinds) ==
    \E last \in DOMAIN kinds :
        /\ kinds[last] \in Ends
        /\ \A i \in 1 .. last - 1 : kinds[i] \in {"text", "fragment", "calls", "comment"}
        /\ \A i \in last + 1 .. Len(kinds) : kinds[i] \in {"comment", "done"}
        /\ \A i, j \in 1 .. last - 1 : kinds[i] = "calls" /\ kinds[j] \in {"calls", "fragment"} => i = j

ASSUME StreamAssumption ==
    /\ Replies \in [Protocols -> SUBSET Seq(Kinds)]
    /\ \A p \in Protocols : \A kinds \in Replies[p] : IsReply(kinds)
    /\ BufferLimit \in Nat /\ MaxStreamFaults \in Nat

VARIABLES
    protocol, script,   \* of this reply
    newline,            \* how the server ends a line of an event: "lf" or "crlf"
    wire,               \* bytes that have not arrived
    body,               \* "open", "cut" by a clean end before the last byte, or "over"
    buffer,             \* ChatStreamState.buffer
    fragments,          \* ChatStreamState.tool_calls: the fragments put together
    collected,          \* what complete_model has
    outcome,            \* of complete_model
    shown,              \* assistant.delta events of the run
    streamFaults        \* bound

providerVars == <<protocol, script, newline, wire, body, buffer, fragments, collected, outcome,
                  shown, streamFaults>>

Byte(frame, b) == [frame |-> frame, byte |-> b]
LF == Byte(0, "lf")
CR == Byte(0, "cr")

\* The end of an event stream's frame, or of a line of newline-delimited JSON.
Delimiter(p, n) ==
    IF p = "ollama" THEN <<LF>>
    ELSE IF n = "lf" THEN <<LF, LF>>
    ELSE <<CR, LF, CR, LF>>

Width(p, n) == 2 + Len(Delimiter(p, n))

\* Each kind is a frame of its own: the byte at `place` of a frame is of its head, its tail,
\* or the delimiter.
Encoded(p, n, kinds) ==
    [k \in 1 .. Len(kinds) * Width(p, n) |->
        LET i == 1 + ((k - 1) \div Width(p, n))
            place == 1 + ((k - 1) % Width(p, n))
        IN  (<<Byte(i, "head"), Byte(i, "tail")>> \o Delimiter(p, n))[place]]

\* The last line end of a reply may be missing, or half of it.
Bodies(p, n, kinds) ==
    LET whole == Encoded(p, n, kinds)
        width == Len(Delimiter(p, n))
    IN  {SubSeq(whole, 1, Len(whole) - k) : k \in {0, width \div 2, width}}

ProviderTypeOK ==
    /\ protocol \in Protocols /\ script \in Replies[protocol] /\ newline \in {"lf", "crlf"}
    /\ \E bytes \in Bodies(protocol, newline, script) : IsSuffix(wire, bytes)
    /\ body \in {"open", "cut", "over"}
    /\ Range(buffer) \subseteq [frame : 0 .. Len(script), byte : {"head", "tail", "lf", "cr"}]
    /\ fragments \subseteq 1 .. Len(script)
    /\ collected \in [content : Seq(1 .. Len(script)), calls : SUBSET (1 .. Len(script)),
                      finish : Ends \cup {"none"}, finished : BOOLEAN]
    /\ shown \in Seq(1 .. Len(script))
    /\ outcome \in {"none", "answer", "invalid", "transport", "storage"}

ProviderInit ==
    /\ protocol \in Protocols /\ script \in Replies[protocol] /\ newline \in {"lf", "crlf"}
    /\ protocol = "ollama" => newline = "lf"
    /\ wire \in Bodies(protocol, newline, script) /\ body = "open"
    /\ buffer = <<>> /\ fragments = {}
    /\ collected = [content |-> <<>>, calls |-> {}, finish |-> "none", finished |-> FALSE]
    /\ outcome = "none" /\ shown = <<>> /\ streamFaults = 0

StreamFault == streamFaults < MaxStreamFaults /\ streamFaults' = streamFaults + 1

-----------------------------------------------------------------------------
(* Frames *)

\* Where `pattern` begins in `bytes`.
PositionsOf(pattern, bytes) ==
    {i \in 1 .. Len(bytes) - Len(pattern) + 1 : SubSeq(bytes, i, i + Len(pattern) - 1) = pattern}

First(places) == CHOOSE i \in places : \A j \in places : i <= j

\* Where the first frame ends and how wide its delimiter is; two line feeds are
\* looked for first.
FrameEnds(bytes) ==
    LET patterns == IF protocol = "ollama" THEN <<<<LF>>>> ELSE <<<<LF, LF>>, <<CR, LF, CR, LF>>>>
        found == {k \in DOMAIN patterns : PositionsOf(patterns[k], bytes) # {}}
    IN  IF found = {} THEN {}
        ELSE {<<First(PositionsOf(patterns[First(found)], bytes)), Len(patterns[First(found)])>>}

\* What parsing a frame can come to. Half an event may end before "data:", and
\* then says nothing; half a line of JSON is an error.
ParsedFrame(frame) ==
    LET said == {b \in Range(frame) : b.byte \in {"head", "tail"}}
        whole == {i \in 1 .. Len(script) : said = {Byte(i, "head"), Byte(i, "tail")}}
    IN  CASE said = {} -> {0}
          [] whole # {} -> whole
          [] protocol = "openai" /\ Cardinality(said) = 1 -> {0, -1}
          [] OTHER -> {-1}

\* complete_stream_tool_calls when the last chunk arrives: arguments with a
\* fragment missing are no JSON.
AllFragments == {i \in 1 .. Len(script) : script[i] = "fragment"}

-----------------------------------------------------------------------------
(* The stream and its collector *)

Reply(o) == outcome' = o /\ UNCHANGED <<fragments, collected, shown, streamFaults>>
Goes == outcome = "none" /\ ~collected.finished

\* A chunk of text is logged before the next one is read.
Show(i) ==
    \/ /\ shown' = Append(shown, i)
       /\ collected' = [collected EXCEPT !.content = Append(@, i)]
       /\ UNCHANGED <<outcome, fragments, streamFaults>>
    \/ /\ StreamFault /\ outcome' = "storage"
       /\ UNCHANGED <<collected, fragments, shown>>

\* A fragment is put to its call, and hands out nothing.
AddFragment(i) ==
    /\ fragments' = fragments \cup {i}
    /\ UNCHANGED <<collected, outcome, shown, streamFaults>>

\* The chunk with the reason why the model has stopped.
Finish(i) ==
    IF fragments \notin {{}, AllFragments} THEN Reply("invalid")
    ELSE /\ collected' = [collected EXCEPT
                !.finish = script[i],
                !.calls = IF fragments = {} THEN @ ELSE fragments,
                !.finished = protocol = "ollama"]
         /\ UNCHANGED <<fragments, outcome, shown, streamFaults>>

\* parse_openai_stream_frame, parse_ollama_stream_frame and complete_model's loop.
CollectFrame(i) ==
    CASE script[i] = "comment" -> Reply("none")
      [] script[i] = "text" -> Show(i)
      [] script[i] = "fragment" -> AddFragment(i)
      [] script[i] = "calls" ->
             collected' = [collected EXCEPT !.calls = {i}] /\ UNCHANGED <<fragments, outcome, shown, streamFaults>>
      [] script[i] = "done" ->
             collected' = [collected EXCEPT !.finished = TRUE] /\ UNCHANGED <<fragments, outcome, shown, streamFaults>>
      [] OTHER -> Finish(i)

Collect(i) ==
    CASE i = -1 -> Reply("invalid")
      [] i = 0 -> Reply("none")
      [] OTHER -> CollectFrame(i)

\* take_stream_frame finds a frame in the buffer.
NextFrame ==
    /\ Goes
    /\ \E e \in FrameEnds(buffer) :
           /\ buffer' = SubSeq(buffer, e[1] + e[2], Len(buffer))
           /\ \E i \in ParsedFrame(SubSeq(buffer, 1, e[1] - 1)) : Collect(i)
    /\ UNCHANGED <<protocol, script, newline, wire, body>>

Awaits == Goes /\ FrameEnds(buffer) = {}
Same == UNCHANGED <<protocol, script, newline, fragments, collected, shown>>

\* n more bytes arrive.
Receive(n) ==
    /\ Awaits /\ body = "open" /\ n <= Len(wire)
    /\ wire' = SubSeq(wire, n + 1, Len(wire))
    /\ IF Len(buffer) + n > BufferLimit
       THEN outcome' = "invalid" /\ UNCHANGED buffer
       ELSE buffer' = buffer \o SubSeq(wire, 1, n) /\ UNCHANGED outcome
    /\ Same /\ UNCHANGED <<body, streamFaults>>

\* The connection is closed although there is more to come: cleanly, which a
\* body that ends with its connection allows, or with an error or a timeout.
Cut ==
    /\ Awaits /\ body = "open" /\ wire # <<>> /\ StreamFault
    /\ \/ body' = "cut" /\ UNCHANGED outcome
       \/ outcome' = "transport" /\ UNCHANGED body
    /\ Same /\ UNCHANGED <<wire, buffer>>

CloseBody ==
    /\ Awaits /\ body = "open" /\ wire = <<>> /\ body' = "over"
    /\ Same /\ UNCHANGED <<wire, buffer, outcome, streamFaults>>

\* The body has ended: what is left is made a frame by one line feed after another.
AtEnd ==
    /\ Awaits /\ body # "open"
    /\ IF buffer = <<>> THEN outcome' = "answer" /\ UNCHANGED buffer
       ELSE buffer' = Append(buffer, LF) /\ UNCHANGED outcome
    /\ Same /\ UNCHANGED <<wire, body, streamFaults>>

\* The stream was finished by the model's last frame.
AtFinish ==
    /\ outcome = "none" /\ collected.finished /\ outcome' = "answer"
    /\ Same /\ UNCHANGED <<wire, body, buffer, streamFaults>>

ProviderNext ==
    \/ NextFrame \/ (\E n \in 1 .. Len(wire) : Receive(n))
    \/ Cut \/ CloseBody \/ AtEnd \/ AtFinish

ProviderSpec == ProviderInit /\ [][ProviderNext]_providerVars

-----------------------------------------------------------------------------
(* Properties *)

TextsTo(i) == {j \in 1 .. i : script[j] = "text"}
Calls == {i \in 1 .. Len(script) : script[i] \in {"fragment", "calls"}}

\* However the network splits the reply, the answer holds its text in order and
\* without a gap, what was shown is what was collected, a tool call is whole or
\* not there; and a reply that has told why it stopped, or was not cut, is whole.
AnswerIsOfReply ==
    /\ \A n \in DOMAIN collected.content :
           LET i == collected.content[n] IN script[i] = "text" /\ Cardinality(TextsTo(i)) = n
    /\ shown = collected.content
    /\ collected.calls \in {{}, Calls}
    /\ outcome = "answer" /\ (body = "over" \/ collected.finish # "none") =>
           /\ Len(collected.content) = Cardinality(TextsTo(Len(script))) /\ collected.calls = Calls
           /\ collected.finish \in Ends
=============================================================================
