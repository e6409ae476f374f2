----------------------------- MODULE RunMachine -----------------------------
(***************************************************************************)
(* RunMachine of restork-core: one run as phases with limits that nobody   *)
(* but the machine moves.  Every method names the phase it needs and is    *)
(* refused, with nothing changed, in any other; each that takes a time may *)
(* find the run out of it.                                                 *)
(***************************************************************************)
EXTENDS Naturals

CONSTANTS
    ToolNames,          \* tools a model may name
    Sizes, Times,       \* bytes of an artifact, and elapsed milliseconds, a caller may report
    MaxModelTurns, MaxToolCalls, MaxRetries, MaxWallTime, MaxOutputBytes,   \* RunLimits
    MaxWord,            \* the largest number of bytes a counter holds
    NoTool

ASSUME MachineAssumption ==
    /\ Sizes \subseteq Nat /\ Times \subseteq Nat /\ NoTool \notin [name : ToolNames, effect : BOOLEAN]
    /\ {MaxModelTurns, MaxWallTime, MaxOutputBytes} \subseteq Nat \ {0}
    /\ {MaxToolCalls, MaxRetries, MaxWord} \subseteq Nat
    /\ MaxOutputBytes <= MaxWord

VARIABLES
    phase, turns, calls, retries, bytes, observed,  \* RunPhase and RunUsage
    allowed,            \* allowed_tools of the frozen manifest
    pending,            \* the call the model asked for
    stopReason,
    approved            \* what the user approved and no tool has run yet

machineVars == <<phase, turns, calls, retries, bytes, observed, allowed, pending, stopReason, approved>>
usageVars == <<turns, calls, retries, bytes, observed>>

Requests == [name : ToolNames, effect : BOOLEAN]
Phases == {"intake", "proposed", "model", "policy", "awaiting_approval", "tool", "validation", "completed", "stopped"}
Limits == {"model_turns", "tool_calls", "retries", "wall_time", "output_bytes"}
Reasons == Limits \cup {"none", "cancelled", "capability_denied", "policy_denied", "policy_mismatch",
                        "approval_rejected", "invalid_artifact"}

MachineTypeOK ==
    /\ phase \in Phases /\ stopReason \in Reasons
    /\ turns \in Nat /\ calls \in Nat /\ retries \in Nat /\ bytes \in Nat /\ observed \in Nat
    /\ allowed \in SUBSET ToolNames
    /\ pending \in Requests \cup {NoTool} /\ approved \in Requests \cup {NoTool}

MachineInit ==
    /\ phase = "intake" /\ stopReason = "none"
    /\ turns = 0 /\ calls = 0 /\ retries = 0 /\ bytes = 0 /\ observed = 0
    /\ allowed = {} /\ pending = NoTool /\ approved = NoTool

Stop(reason) ==
    /\ phase' = "stopped" /\ stopReason' = reason /\ pending' = NoTool
    /\ UNCHANGED <<allowed, approved>>

Go(next) == phase' = next /\ UNCHANGED <<stopReason, allowed>>

\* observe_elapsed: the longest time is kept; the one just told decides
Observe(elapsed) == observed' = IF elapsed > observed THEN elapsed ELSE observed
InTime(elapsed) == elapsed <= MaxWallTime

OutOfTime(elapsed) ==
    /\ phase \in {"model", "policy", "awaiting_approval", "tool", "validation"}
    /\ ~InTime(elapsed) /\ Observe(elapsed) /\ Stop("wall_time")
    /\ UNCHANGED <<turns, calls, retries, bytes>>

Propose ==
    /\ phase = "intake" /\ Go("proposed") /\ UNCHANGED <<usageVars, pending, approved>>

Confirm(tools) ==
    /\ phase = "proposed" /\ phase' = "model" /\ allowed' = tools
    /\ UNCHANGED <<usageVars, stopReason, pending, approved>>

(***************************************************************************)
(* complete_model_step                                                     *)
(***************************************************************************)
TurnLeft == turns < MaxModelTurns

BeginStep(elapsed) == phase = "model" /\ InTime(elapsed) /\ Observe(elapsed)

NoTurnLeft(elapsed) ==
    /\ BeginStep(elapsed) /\ ~TurnLeft /\ Stop("model_turns")
    /\ UNCHANGED <<turns, calls, retries, bytes>>

Saturated(total) == IF total > MaxWord THEN MaxWord ELSE total

CompleteWithArtifact(size, elapsed) ==
    /\ BeginStep(elapsed) /\ TurnLeft
    /\ turns' = turns + 1 /\ bytes' = Saturated(bytes + size)
    /\ IF bytes' > MaxOutputBytes THEN Stop("output_bytes")
                                  ELSE Go("validation") /\ UNCHANGED <<pending, approved>>
    /\ UNCHANGED <<calls, retries>>

CallLeft == calls < MaxToolCalls

CompleteWithCall(request, elapsed) ==
    /\ BeginStep(elapsed) /\ TurnLeft
    /\ turns' = turns + 1
    /\ IF request.name \notin allowed THEN Stop("capability_denied")
       ELSE IF ~CallLeft THEN Stop("tool_calls")
       ELSE Go("policy") /\ pending' = request /\ UNCHANGED approved
    /\ UNCHANGED <<calls, retries, bytes>>

(***************************************************************************)
(* apply_policy, approve_effect, reject_effect, complete_tool              *)
(***************************************************************************)
Decisions == {"allow_read_only", "require_approval", "deny"}

MayGoUnasked(decision) == decision = "allow_read_only" /\ pending # NoTool /\ ~pending.effect

ApplyPolicy(decision, elapsed) ==
    /\ phase = "policy" /\ InTime(elapsed) /\ Observe(elapsed)
    /\ \/ MayGoUnasked(decision) /\ Go("tool") /\ UNCHANGED <<pending, approved>>
       \/ decision = "require_approval" /\ Go("awaiting_approval") /\ UNCHANGED <<pending, approved>>
       \/ decision = "deny" /\ Stop("policy_denied")
       \/ decision = "allow_read_only" /\ ~MayGoUnasked(decision) /\ Stop("policy_mismatch")
    /\ UNCHANGED <<turns, calls, retries, bytes>>

ApproveEffect(elapsed) ==
    /\ phase = "awaiting_approval" /\ InTime(elapsed) /\ Observe(elapsed)
    /\ Go("tool") /\ approved' = pending
    /\ UNCHANGED <<turns, calls, retries, bytes, pending>>

RejectEffect(elapsed) ==
    /\ phase = "awaiting_approval" /\ InTime(elapsed) /\ Observe(elapsed)
    /\ Stop("approval_rejected")
    /\ UNCHANGED <<turns, calls, retries, bytes>>

CompleteTool(elapsed) ==
    /\ phase = "tool" /\ InTime(elapsed) /\ Observe(elapsed)
    /\ IF CallLeft THEN Go("model") /\ calls' = calls + 1 /\ pending' = NoTool /\ approved' = NoTool
                   ELSE Stop("tool_calls") /\ UNCHANGED calls
    /\ UNCHANGED <<turns, retries, bytes>>

(***************************************************************************)
(* validate_artifact and cancel                                            *)
(***************************************************************************)
Accept(elapsed) ==
    /\ phase = "validation" /\ InTime(elapsed) /\ Observe(elapsed) /\ Go("completed")
    /\ UNCHANGED <<turns, calls, retries, bytes, pending, approved>>

Repair(elapsed) ==
    /\ phase = "validation" /\ InTime(elapsed) /\ Observe(elapsed)
    /\ IF retries < MaxRetries THEN Go("model") /\ retries' = retries + 1 /\ UNCHANGED <<pending, approved>>
                               ELSE Stop("retries") /\ UNCHANGED retries
    /\ UNCHANGED <<turns, calls, bytes>>

Reject(elapsed) ==
    /\ phase = "validation" /\ InTime(elapsed) /\ Observe(elapsed) /\ Stop("invalid_artifact")
    /\ UNCHANGED <<turns, calls, retries, bytes>>

Cancel ==
    /\ phase \notin {"completed", "stopped"} /\ Stop("cancelled") /\ UNCHANGED usageVars

MachineNext ==
    \/ Propose \/ Cancel \/ \E tools \in SUBSET ToolNames : Confirm(tools)
    \/ \E elapsed \in Times :
        \/ OutOfTime(elapsed) \/ NoTurnLeft(elapsed)
        \/ \E size \in Sizes : CompleteWithArtifact(size, elapsed)
        \/ \E request \in Requests : CompleteWithCall(request, elapsed)
        \/ \E decision \in Decisions : ApplyPolicy(decision, elapsed)
        \/ ApproveEffect(elapsed) \/ RejectEffect(elapsed) \/ CompleteTool(elapsed)
        \/ Accept(elapsed) \/ Repair(elapsed) \/ Reject(elapsed)

MachineSpec == MachineInit /\ [][MachineNext]_machineVars

\* A tool that runs is one the frozen manifest names, within its number of calls;
\* and an effect runs only when the user approved that very call since the last one.
ToolRunsAsAllowed == phase = "tool" =>
    /\ pending # NoTool /\ pending.name \in allowed /\ calls < MaxToolCalls
    /\ pending.effect => approved = pending

\* Whatever is reported and in whatever order: no counter is above its limit, unless
\* the run was stopped for it.
LimitsHold ==
    /\ turns <= MaxModelTurns /\ calls <= MaxToolCalls /\ retries <= MaxRetries
    /\ bytes > MaxOutputBytes => stopReason = "output_bytes"
    /\ observed > MaxWallTime => stopReason = "wall_time"
    /\ phase = "stopped" <=> stopReason # "none"

\* Every turn of the model went to a call, to a repair, or to what is under way: the
\* run cannot go on without using up its turns.
TurnsAreAccounted ==
    /\ phase \in {"intake", "proposed", "model"} => turns = calls + retries
    /\ phase \in {"policy", "awaiting_approval", "tool", "validation", "completed"} => turns = calls + retries + 1
=============================================================================
