----------------------------- MODULE RunContext -----------------------------
(***************************************************************************)
(* The messages a durable run sends to its model: the goal, the replies    *)
(* with the tool calls they ask for, and the results of the calls.         *)
(*                                                                         *)
(* A checkpoint keeps them, without the reasoning of the model, and a run  *)
(* that stops goes on from it.  A context that grows too large is cut: its *)
(* oldest messages become one summary.  The four protocols write the same  *)
(* messages differently, and all but one refuse a result whose call is not *)
(* in the reply before it.                                                 *)
(***************************************************************************)
EXTENDS Integers, Sequences, SequencesExt, FiniteSets, FiniteSetsExt

CONSTANTS
    GroupSizes,         \* numbers of tool calls a reply may hold
    MaxReplies,         \* bounds.maximum_iterations
    MaxContextStops     \* bound: times the run stops and goes on

ASSUME ContextAssumption == GroupSizes \subseteq Nat \ {0} /\ {MaxReplies, MaxContextStops} \subseteq Nat

VARIABLES
    context,            \* the messages in memory, and the replies they stand for
    keptContext,        \* those of the checkpoint
    openCalls,          \* calls of the last reply that are not looked at yet
    waiting,            \* the call that waits for its approval, or NoId
    contextPc,          \* what the run does next
    contextStops        \* history: times it has stopped

contextVars == <<context, keptContext, openCalls, waiting, contextPc, contextStops>>

-----------------------------------------------------------------------------
(* Messages *)

\* The id of a call: the reply it is of, and its place there.
NoId == <<0, 0>>
Ids(reply, n) == [place \in 1 .. n |-> <<reply, place>>]

Message(role, calls, of, reasoning) == [role |-> role, calls |-> calls, of |-> of, reasoning |-> reasoning]
Text(role) == Message(role, <<>>, NoId, "none")
Result(id) == Message("tool", <<>>, id, "none")

IsResult(m) == m.of # NoId

\* The messages at `places`, in their order
Only(messages, places) ==
    [k \in 1 .. Cardinality(places) |->
        messages[CHOOSE i \in places : Cardinality({j \in places : j <= i}) = k]]

\* AgentCheckpoint::redacted
Redacted(messages) == [i \in DOMAIN messages |-> [messages[i] EXCEPT !.reasoning = "none"]]

\* compaction_split_index: the first message that stays, if there is one.  A cut between a
\* reply and its results moves behind them, or, if nothing follows, before the reply.
Split(messages) ==
    LET wanted == Len(messages) - 5
        outside == {i \in DOMAIN messages : messages[i].role # "tool"}
        after == {i \in outside : i >= wanted}
        before == {i \in outside : i < wanted}
    IN IF after # {} THEN {Min(after)} ELSE {Max(before)} \ {1, 2}

\* compact_if_needed, of a context too large
Compacted(messages) ==
    IF Len(messages) <= 8 \/ Split(messages) = {} THEN messages
    ELSE LET first == CHOOSE i \in Split(messages) : TRUE
         IN <<messages[1], Text("user")>> \o SubSeq(messages, first, Len(messages))

\* The reply the message at i would be a result of: the nearest message that is none.
ReplyOf(messages, i) == Max({j \in 1 .. i - 1 : ~IsResult(messages[j])} \cup {0})

\* remove_orphaned_tool_messages: results of a call the reply before them does not hold
Repaired(messages) ==
    LET Declared(i) == messages[i].of \in Range(messages[ReplyOf(messages, i)].calls)
    IN Only(messages, {i \in DOMAIN messages : IsResult(messages[i]) => Declared(i)})

\* normalize_compaction_summaries: a summary an older Core wrote as a second system message
Normalized(messages) ==
    [i \in DOMAIN messages |-> IF i > 1 /\ messages[i].role = "system" THEN Text("user") ELSE messages[i]]

-----------------------------------------------------------------------------
(* The run *)

Started == <<Text("system"), Text("user")>>

\* What an older Core cut between a reply and its results
CutByOlderCore ==
    LET cut == <<Text("system"), Text("system"), Result(<<MaxReplies + 1, 1>>)>>
        call == <<MaxReplies + 2, 1>>
    IN {cut, cut \o <<Message("assistant", <<call>>, NoId, "none"), Result(call)>>}

ContextTypeOK ==
    /\ \A c \in {context, keptContext} :
        /\ c.replies \in 0 .. MaxReplies
        /\ \A m \in Range(c.messages) : m.role \in {"system", "user", "assistant", "tool"} /\ m.reasoning \in {"none", "whole"}
    /\ contextPc \in {"stopped", "resume", "loop", "model", "calls", "ended"}
    /\ contextStops \in 0 .. MaxContextStops

ContextInit ==
    /\ keptContext \in [messages : {Started} \cup CutByOlderCore, replies : {0}]
    /\ context = keptContext
    /\ openCalls = <<>> /\ waiting = NoId /\ contextPc = "stopped" /\ contextStops = 0

Keep(c) == keptContext' = [c EXCEPT !.messages = Redacted(@)]

\* The checkpoint is read and repaired, and what was repaired is kept.
LoadContext ==
    /\ contextPc = "stopped"
    /\ context' = [keptContext EXCEPT !.messages = Normalized(Repaired(@))]
    /\ Keep(context')
    /\ contextPc' = IF waiting = NoId THEN "loop" ELSE "resume"
    /\ UNCHANGED <<openCalls, waiting, contextStops>>

TellResult(id) == context' = [context EXCEPT !.messages = Append(@, Result(id))]

\* The approved call is run, and whatever came of it is a result.
ResumeCall ==
    /\ contextPc = "resume"
    /\ TellResult(waiting) /\ Keep(context') /\ waiting' = NoId
    /\ contextPc' = "loop"
    /\ UNCHANGED <<openCalls, contextStops>>

DenyCall ==
    /\ contextPc = "resume" /\ contextPc' = "ended"
    /\ UNCHANGED <<context, keptContext, openCalls, waiting, contextStops>>

\* Top of the loop
FitContext ==
    /\ contextPc = "loop"
    /\ \/ UNCHANGED context
       \/ context' = [context EXCEPT !.messages = Compacted(@)]
    /\ Keep(context')
    /\ contextPc' = "model"
    /\ UNCHANGED <<openCalls, waiting, contextStops>>

\* A reply with calls; one without them ends the run, a failure may be retried.
ReplyWithCalls ==
    /\ contextPc = "model" /\ context.replies < MaxReplies
    /\ \E n \in GroupSizes :
        LET ids == Ids(context.replies + 1, n)
        IN /\ context' = [messages |-> Append(context.messages, Message("assistant", ids, NoId, "whole")),
                          replies |-> context.replies + 1]
           /\ openCalls' = ids
    /\ contextPc' = "calls"
    /\ UNCHANGED <<keptContext, waiting, contextStops>>

ModelEnds ==
    /\ contextPc = "model"
    /\ \/ contextPc' = "ended"
       \/ contextPc' = "loop"
    /\ UNCHANGED <<context, keptContext, openCalls, waiting, contextStops>>

\* A call of a tool the run has not got, or whose arguments are no good, is answered by the
\* loop, which keeps nothing before the next call.
RefuseCall ==
    /\ contextPc = "calls" /\ openCalls # <<>>
    /\ TellResult(Head(openCalls)) /\ openCalls' = Tail(openCalls)
    /\ UNCHANGED <<keptContext, waiting, contextPc, contextStops>>

RunCall ==
    /\ contextPc = "calls" /\ openCalls # <<>>
    /\ TellResult(Head(openCalls)) /\ openCalls' = Tail(openCalls) /\ Keep(context')
    /\ UNCHANGED <<waiting, contextPc, contextStops>>

\* The calls that follow one that needs an approval are forgotten.
AskForCall ==
    /\ contextPc = "calls" /\ openCalls # <<>>
    /\ waiting' = Head(openCalls) /\ openCalls' = <<>>
    /\ Keep(context) /\ contextPc' = "stopped"
    /\ UNCHANGED <<context, contextStops>>

EndCalls ==
    /\ contextPc = "calls" /\ openCalls = <<>> /\ contextPc' = "loop"
    /\ UNCHANGED <<context, keptContext, openCalls, waiting, contextStops>>

\* Core stops, a storage call fails, or time is up: the run goes on from its checkpoint.
StopContext ==
    /\ contextPc \in {"resume", "loop", "model", "calls"} /\ contextStops < MaxContextStops
    /\ contextStops' = contextStops + 1 /\ contextPc' = "stopped" /\ openCalls' = <<>>
    /\ UNCHANGED <<context, keptContext, waiting>>

ContextNext ==
    \/ LoadContext \/ ResumeCall \/ DenyCall \/ FitContext \/ ReplyWithCalls \/ ModelEnds
    \/ RefuseCall \/ RunCall \/ AskForCall \/ EndCalls \/ StopContext

-----------------------------------------------------------------------------
(* The request, as each protocol writes it *)

Wires == {"openai", "thinking", "anthropic", "ollama"}

\* encode_openai_messages; for DeepSeek, GLM and MiMo a reply with calls says what its
\* reasoning was, or that it is not known any more.
OpenAiMessages(messages, thinking) ==
    [i \in DOMAIN messages |->
        [messages[i] EXCEPT !.reasoning =
            IF ~thinking THEN "none" ELSE IF @ = "none" /\ messages[i].calls # <<>> THEN "empty" ELSE @]]

\* build_anthropic_messages_request: the system prompt is apart, and a result is said by
\* the user.
AnthropicMessages(messages) ==
    LET said == Only(messages, {i \in DOMAIN messages : messages[i].role # "system"})
    IN [i \in DOMAIN said |-> [said[i] EXCEPT !.reasoning = "none", !.role = IF @ = "tool" THEN "user" ELSE @]]

\* encode_ollama_messages: results are told by their place alone.
OllamaMessages(messages) ==
    [i \in DOMAIN messages |-> [messages[i] EXCEPT !.reasoning = "none"]]

Request(wire, messages) ==
    CASE wire = "anthropic" -> AnthropicMessages(messages)
      [] wire = "ollama" -> OllamaMessages(messages)
      [] OTHER -> OpenAiMessages(messages, wire = "thinking")

\* validate_chat_request
Sendable(messages) ==
    /\ messages # <<>> /\ Len(messages) <= 256
    /\ \A m \in Range(messages) : (m.role = "tool") = IsResult(m) /\ (m.calls # <<>> => m.role = "assistant")

-----------------------------------------------------------------------------
(* Properties *)

\* Whatever was cut, repaired or lost, the next request is one its provider takes: a result
\* follows the reply that asked for it, once and in the order of its calls, as Ollama can
\* tell them only by that; the system prompt is first and alone; and a provider that
\* thinks finds the field it insists on.  The newest reply is in it, and the results that
\* were kept of it.
ResultsFollowTheirCalls ==
    contextPc = "model" =>
        /\ Sendable(context.messages)
        /\ \A i \in DOMAIN context.messages : (context.messages[i].role = "system") = (i = 1)
        /\ \A wire \in Wires :
            LET sent == Request(wire, context.messages)
            IN \A i \in DOMAIN sent :
                /\ IsResult(sent[i]) =>
                    LET j == ReplyOf(sent, i)
                    IN j > 0 /\ i - j <= Len(sent[j].calls) /\ sent[i].of = sent[j].calls[i - j]
                /\ wire = "thinking" /\ sent[i].calls # <<>> => sent[i].reasoning # "none"

NewestReplyIsKept ==
    contextPc = "model" /\ context.replies > 0 =>
        \E i \in DOMAIN context.messages :
            /\ context.messages[i].calls # <<>> /\ context.messages[i].calls[1][1] = context.replies
            /\ i + Cardinality({k \in DOMAIN keptContext.messages : keptContext.messages[k].of[1] = context.replies})
                   = Len(context.messages)
=============================================================================
