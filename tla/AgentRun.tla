------------------------------ MODULE AgentRun ------------------------------
(***************************************************************************)
(* One durable agent run of the Restork Core.                              *)
(*                                                                         *)
(* A run is a row of the SQLite store (state, version), an append-only     *)
(* event log, one checkpoint and the approvals its tool calls asked for.   *)
(* A Tokio task, spawned by an HTTP handler and held in an in-memory       *)
(* registry, advances it (DurableAgent::run): it claims the run, resumes a *)
(* pending tool call, and alternates model calls and tool calls until a    *)
(* bound, a failure, a cancellation, an approval or the answer stops it.   *)
(* Handlers cancel, advance and prepare the run and decide approvals       *)
(* meanwhile.  Core may stop between any two storage calls, and any        *)
(* storage call of the task may fail.                                      *)
(*                                                                         *)
(* The grain is one storage call per action.  Message contents, prompts,   *)
(* compaction and the digest of an action are abstracted; the event log is *)
(* its length.                                                             *)
(***************************************************************************)
EXTENDS Integers, Sequences, FiniteSets

CONSTANTS
    Clients,            \* concurrent HTTP requests against this run
    Calls,              \* ids of effect tool calls
    MintsIds,           \* the provider mints them, or, like Ollama, leaves it to the parser
    NoCall,             \* no pending tool call
    AdvanceAuths,       \* authorizations that advance requests carry
    MaxIterations,      \* bounds.maximum_iterations
    MaxRepairs,         \* bounds.maximum_repairs
    MaxProviderRetries, \* bounds.maximum_provider_retries
    MaxUsage,           \* bounds.maximum_total_tokens and cost, as one unit
    MaxBatch,           \* tool calls in one model reply
    MaxSeq,             \* bound: no new advance once the log is this long
    MaxFreezes,         \* bound: context preparations of a proposed run
    MaxCrashes,         \* bound: times Core stops
    MaxFaults           \* bound: storage calls of the task that fail

ASSUME CallsAssumption == {NoCall, "read", "bad"} \cap Calls = {}
ASSUME MintsAssumption == MintsIds \in BOOLEAN
ASSUME AuthsAssumption ==
    AdvanceAuths \subseteq [ok : SUBSET Calls, no : SUBSET Calls]
ASSUME BoundsAssumption ==
    /\ MaxIterations \in Nat \ {0}
    /\ MaxUsage \in Nat \ {0}
    /\ {MaxRepairs, MaxProviderRetries, MaxBatch, MaxSeq, MaxFreezes,
        MaxCrashes, MaxFaults} \subseteq Nat

VARIABLES
    run,        \* row of table runs
    seq,        \* number of events of the run (MAX(seq) of table events)
    snapshot,   \* row of table event_snapshots; covered = 0 while absent
    approvals,  \* decision of each row of table approvals ("none": no row)
    cancel,     \* value of the live task's cancellation channel
    task,       \* the task in the registry; pc = "idle" while there is none
    handler,    \* per request, what an HTTP handler still has to do
    executed,   \* history: how often each effect call has reached its tool
    crashes,    \* history: times Core has stopped
    faults,     \* history: storage calls that have failed
    replies,    \* history: replies the model has given
    authorized, \* history: calls the user approved, or an advance said so
    stranded    \* history: calls whose wait was cut off by a failure

store == <<run, seq, snapshot, approvals>>
history == <<crashes, faults, replies, authorized, stranded>>
vars == <<run, seq, snapshot, approvals, cancel, task, handler, executed,
          crashes, faults, replies, authorized, stranded>>

-----------------------------------------------------------------------------
(* States and data *)

States == {"proposed", "running", "awaiting_approval", "retryable",
           "completed", "failed", "cancelled"}
Decisions == {"none", "pending", "approved", "rejected"}

\* Why a run stops (AgentStopReason); token and cost limits are one reason.
StopReasons == {"none", "completed", "cancelled", "approval_required",
    "approval_denied", "iteration_limit", "repair_limit", "wall_time_limit",
    "usage_limit", "output_limit", "provider_unavailable",
    "provider_rejected", "runtime_error", "cancelled_before_start"}

\* Mutant: most reasons are stored as the state themselves.
StateOfUnmapped(reason) == IF reason = "runtime_error" THEN "retryable" ELSE reason

\* The state in which a stop reason leaves the run.
StateOf(reason) ==
    CASE reason = "completed" -> "completed"
      [] reason = "cancelled" -> "cancelled"
      [] reason \in {"provider_unavailable", "wall_time_limit",
                     "output_limit"} -> "retryable"
      [] OTHER -> "failed"

\* AgentCheckpoint: counters, and the call that waits for an approval.
Checkpoints == [iters : Nat, repairs : Nat, retries : Nat, usage : Nat,
                pending : Calls \cup {NoCall}, lapsed : BOOLEAN]
NewCheckpoint == [iters |-> 0, repairs |-> 0, retries |-> 0, usage |-> 0,
                  pending |-> NoCall, lapsed |-> FALSE]

\* A tool call of a reply: a read-only tool, a call the loop refuses by
\* itself (unknown tool, arguments that do not normalize), or an effect.
Kinds == {"read", "bad"} \cup Calls
Replies == UNION {[1..n -> Kinds] : n \in 0..MaxBatch}

\* No id twice in a reply.  A provider that mints ids never repeats one; a call without
\* an id is named by its place in its reply, whatever the replies before it were.
Fresh(reply) ==
    \A i \in DOMAIN reply : reply[i] \in Calls =>
        /\ MintsIds => approvals[reply[i]] = "none" /\ executed[reply[i]] = 0
        /\ \A j \in DOMAIN reply : reply[j] = reply[i] => j = i

NoTask == [pc |-> "idle", st |-> "proposed", ver |-> 0, exp |-> 0, last |-> 0,
           ck |-> NewCheckpoint, ok |-> {}, no |-> {}, batch |-> <<>>,
           resumed |-> FALSE, fin |-> "none"]
NoRequest == [pc |-> "idle", ver |-> 0, ok |-> {}, no |-> {}]

\* Where the task goes once the checkpoint saved at this point is durable.
AfterSave == [reissueSave |-> "exit",      startSave  |-> "resume",
              resumedSave |-> "loop",      callSave   |-> "calls",
              loopSave    |-> "modelEvent", retrySave |-> "loop",
              askSave     |-> "askCas",    finishSave |-> "finishCas"]

\* Program points of DurableAgent::run, then those of the task around it.
AgentPcs == {"load", "claim", "startEvent", "resume", "invoke", "observe",
             "refused", "loop", "modelEvent", "model", "calls", "askEvent",
             "askCas", "reissueEvent", "finishEvent", "finishCas"}
            \cup DOMAIN AfterSave
MarkPcs == {"mark", "markEvent", "markCas"}
TaskPcs == AgentPcs \cup MarkPcs \cup {"idle", "exit"}

\* Program points whose next step is a storage call that may fail.
StoragePcs == {"load", "claim", "startEvent", "observe", "refused",
               "modelEvent", "model", "askEvent", "askCas", "reissueEvent",
               "finishEvent", "finishCas"} \cup DOMAIN AfterSave

\* The task's locals: the state and version it loaded, the sequence it expects
\* the stored checkpoint to cover, the last sequence it knows, its working
\* checkpoint, its authorization, what is left of the reply, and the stop
\* reason it finishes with.
Tasks == [pc : TaskPcs, st : States, ver : Nat, exp : Nat, last : Nat,
          ck : Checkpoints, ok : SUBSET Calls, no : SUBSET Calls,
          batch : Seq(Kinds), resumed : BOOLEAN, fin : StopReasons]
Requests == [pc : {"idle", "spawn", "freeze", "cancelEvent", "cancelCas"},
             ver : Nat, ok : SUBSET Calls, no : SUBSET Calls]

TypeOK ==
    /\ run \in [state : States, version : Nat, stop : StopReasons]
    /\ seq \in Nat
    /\ snapshot \in [covered : Nat, doc : Checkpoints]
    /\ approvals \in [Calls -> Decisions]
    /\ cancel \in BOOLEAN
    /\ task \in Tasks
    /\ handler \in [Clients -> Requests]
    /\ executed \in [Calls -> Nat]
    /\ {crashes, faults, replies} \subseteq Nat
    /\ authorized \subseteq Calls /\ stranded \subseteq Calls \cup {NoCall}

-----------------------------------------------------------------------------
(* A run that create_agent_run has stored: proposed, its run.created event *)
(* perhaps lost to a crash; or a run whose wall clock ran out under an     *)
(* older Core, which called that state failed.                             *)

Init ==
    /\ \/ /\ run = [state |-> "proposed", version |-> 0, stop |-> "none"]
          /\ seq \in {0, 1}
          /\ snapshot = [covered |-> 0, doc |-> NewCheckpoint]
       \/ /\ run = [state |-> "failed", version |-> 2,
                    stop |-> "wall_time_limit"]
          /\ seq = 4
          /\ snapshot = [covered |-> 4, doc |-> NewCheckpoint]
    /\ approvals = [c \in Calls |-> "none"]
    /\ cancel = FALSE
    /\ task = NoTask
    /\ handler = [k \in Clients |-> NoRequest]
    /\ executed = [c \in Calls |-> 0]
    /\ crashes = 0 /\ faults = 0 /\ replies = 0
    /\ authorized = {} /\ stranded = {}

-----------------------------------------------------------------------------
(* Steps shared by the task's actions *)

\* Database::append_event for a task that continues as t.
AppendEvent(t) ==
    /\ seq' = seq + 1
    /\ task' = [t EXCEPT !.last = seq + 1]
    /\ UNCHANGED <<run, snapshot, approvals, cancel, handler, executed, history>>

\* The task moves on without touching the store.
Goto(t) ==
    /\ task' = t
    /\ UNCHANGED <<store, cancel, handler, executed, history>>

\* DurableAgent::run returns an error; mark_agent_runtime_failure follows.
Fail == Goto([task EXCEPT !.pc = "mark"])

\* Mutant: the version is not compared.
TransitionRunBlind(version, state, stop) ==
    run' = [state |-> state, version |-> version + 1, stop |-> stop]

\* Database::transition_run: compare-and-swap on the version.
TransitionRun(version, state, stop) ==
    /\ run.version = version
    /\ run' = [state |-> state, version |-> version + 1, stop |-> stop]

\* A transition by which the agent moves on as t, or which it has lost.
TransitionTo(t, state, stop) ==
    IF run.version = task.ver
    THEN /\ TransitionRun(task.ver, state, stop)
         /\ task' = t
         /\ UNCHANGED <<seq, snapshot, approvals, cancel, handler, executed, history>>
    ELSE Fail

\* DurableAgent::finish begins.
Finish(t, reason) == [t EXCEPT !.pc = "finishEvent", !.fin = reason]

-----------------------------------------------------------------------------
(* Taking the run *)

LegacyWallTimeRetry ==
    run.state = "failed" /\ run.stop = "wall_time_limit"

Loaded(pc, ck) ==
    [task EXCEPT !.pc = pc, !.st = run.state, !.ver = run.version,
                 !.exp = snapshot.covered, !.last = seq, !.ck = ck]

\* Mutant: a resumed run starts from a new checkpoint.
StoredReset == [NewCheckpoint EXCEPT !.pending = snapshot.doc.pending]

Stored == IF snapshot.covered = 0 THEN NewCheckpoint ELSE snapshot.doc

\* The run and its checkpoint are read, and an approval wait is resolved: a
\* denial finishes the run, no decision leaves it waiting, re-asking first if
\* the request has lapsed.  A waiting call must still be known and unchanged.
LoadRun ==
    /\ task.pc = "load"
    /\ \/ /\ run.state \in {"proposed", "retryable"} \/ LegacyWallTimeRetry
          /\ Goto(Loaded("claim", Stored))
       \/ /\ run.state \in States \ {"proposed", "retryable", "awaiting_approval"}
          /\ ~LegacyWallTimeRetry
          /\ Goto(Loaded("mark", Stored))
       \/ /\ run.state = "awaiting_approval"
          /\ \/ Goto(Loaded("mark", Stored))
             \/ /\ Stored.pending \in task.no
                /\ Goto(Finish(Loaded("load", Stored), "approval_denied"))
             \/ /\ Stored.pending \in task.ok \ task.no
                /\ Goto(Loaded("claim", Stored))
             \/ /\ Stored.pending \in Calls \ (task.ok \cup task.no)
                /\ ~Stored.lapsed
                /\ Goto(Loaded("exit", Stored))
             \/ /\ Stored.pending \in Calls \ (task.ok \cup task.no)
                /\ Stored.lapsed
                /\ approvals' = [approvals EXCEPT ![Stored.pending] =
                                    IF @ = "none" THEN "pending" ELSE @]
                /\ task' = Loaded("reissueEvent", [Stored EXCEPT !.lapsed = FALSE])
                /\ UNCHANGED <<run, seq, snapshot, cancel, handler, executed, history>>

\* claim_running.  It fails if the run has changed since it was loaded.
ClaimRunning ==
    /\ task.pc = "claim"
    /\ TransitionTo([task EXCEPT !.pc = "startEvent", !.st = "running",
                                 !.ver = task.ver + 1],
                    "running", "none")

\* Mutant: an approval is awaited without a checkpoint that names its call.
AppendLifecycleEventUnsaved ==
    \/ task.pc = "startEvent"   /\ AppendEvent([task EXCEPT !.pc = "startSave"])
    \/ task.pc = "askEvent"     /\ AppendEvent([task EXCEPT !.pc = "askCas"])
    \/ task.pc = "reissueEvent" /\ AppendEvent([task EXCEPT !.pc = "reissueSave"])
    \/ task.pc = "finishEvent"  /\ AppendEvent([task EXCEPT !.pc = "finishSave"])
    \/ task.pc = "modelEvent"   /\ AppendEvent([task EXCEPT !.pc = "model"])

\* The event that precedes a checkpoint: run.started, approval.requested, or
\* run.stopped / run.completed.
AppendLifecycleEvent ==
    \/ task.pc = "startEvent"   /\ AppendEvent([task EXCEPT !.pc = "startSave"])
    \/ task.pc = "askEvent"     /\ AppendEvent([task EXCEPT !.pc = "askSave"])
    \/ task.pc = "reissueEvent" /\ AppendEvent([task EXCEPT !.pc = "reissueSave"])
    \/ task.pc = "finishEvent"  /\ AppendEvent([task EXCEPT !.pc = "finishSave"])
    \/ task.pc = "modelEvent"   /\ AppendEvent([task EXCEPT !.pc = "model"])

\* Mutant: the expected sequence is not moved on after a save.
SaveCheckpointStale ==
    /\ task.pc \in DOMAIN AfterSave
    /\ IF snapshot.covered = task.exp /\ seq > 0 /\ task.last <= seq
       THEN /\ snapshot' = [covered |-> task.last, doc |-> task.ck]
            /\ task' = [task EXCEPT !.pc = AfterSave[task.pc]]
            /\ UNCHANGED <<run, seq, approvals, cancel, handler, executed, history>>
       ELSE Fail

\* save_checkpoint: compare-and-swap on the sequence the checkpoint covers,
\* which must not exceed the log.
SaveCheckpoint ==
    /\ task.pc \in DOMAIN AfterSave
    /\ IF snapshot.covered = task.exp /\ seq > 0 /\ task.last <= seq
       THEN /\ snapshot' = [covered |-> task.last, doc |-> task.ck]
            /\ task' = [task EXCEPT !.pc = AfterSave[task.pc], !.exp = task.last]
            /\ UNCHANGED <<run, seq, approvals, cancel, handler, executed, history>>
       ELSE Fail

\* The pending call is taken out of the checkpoint, in memory, and run next.
\* A call that is no longer known or unchanged ends the advance with an error.
ResumePending ==
    /\ task.pc = "resume"
    /\ \/ task.ck.pending = NoCall /\ Goto([task EXCEPT !.pc = "loop"])
       \/ task.ck.pending # NoCall /\ Fail
       \/ /\ task.ck.pending # NoCall
          /\ Goto([task EXCEPT !.pc = "invoke", !.resumed = TRUE,
                               !.batch = <<task.ck.pending>>,
                               !.ck.pending = NoCall, !.ck.lapsed = FALSE])

-----------------------------------------------------------------------------
(* Tool calls *)

\* invoke_tool polls the cancellation first, so a cancelled task starts no
\* tool.  Once started, an effect may have happened whatever is observed.
InvokeTool ==
    /\ task.pc = "invoke"
    /\ ~cancel
    /\ task' = [task EXCEPT !.pc = "observe"]
    /\ executed' = [c \in Calls |->
                        IF c = Head(task.batch) THEN executed[c] + 1 ELSE executed[c]]
    /\ UNCHANGED <<store, cancel, handler, history>>

\* Cancelled, or failed before the tool did anything.
RefuseTool ==
    /\ task.pc = "invoke"
    /\ Goto([task EXCEPT !.pc = "refused"])

\* The budget of failures is checked after every call of a reply; a resumed
\* call is only saved, the loop checks the budget.
AfterCall(repairs) ==
    IF task.resumed THEN "resumedSave"
    ELSE IF repairs > MaxRepairs THEN "finishEvent" ELSE "callSave"

\* Mutant: a tool that fails, or times out, is tried again at once.
RecordObservationRetried ==
    \E ok \in BOOLEAN :
        /\ task.pc \in {"observe", "refused"}
        /\ ok => task.pc = "observe" /\ ~cancel
        /\ IF ok
           THEN AppendEvent([task EXCEPT !.pc = AfterCall(task.ck.repairs),
                                         !.batch = Tail(task.batch), !.resumed = FALSE])
           ELSE AppendEvent([task EXCEPT !.pc = "invoke", !.ck.repairs = @ + 1])

\* record_tool_observation: success, or a failure the model may repair (also
\* of a tool that ran: timed out or cancelled under way).
RecordObservation ==
    \E ok \in BOOLEAN :
        LET repairs == task.ck.repairs + (IF ok THEN 0 ELSE 1)
        IN  /\ task.pc \in {"observe", "refused"}
            /\ ok => task.pc = "observe" /\ ~cancel
            /\ AppendEvent([task EXCEPT !.pc = AfterCall(repairs),
                                        !.ck.repairs = repairs,
                                        !.batch = Tail(task.batch),
                                        !.resumed = FALSE,
                                        !.fin = IF AfterCall(repairs) = "finishEvent"
                                                THEN "repair_limit" ELSE @])

NextCall == Head(task.batch)

\* The next call of the reply: refused by the loop itself and recorded as a
\* failure without a check of the budget; or, if it is an effect this advance
\* was not authorized for, asked for, which drops the rest of the reply; or
\* run.
TakeCall ==
    /\ task.pc = "calls"
    /\ \/ /\ task.batch = <<>>
          /\ Goto([task EXCEPT !.pc = "loop"])
       \/ /\ task.batch # <<>> /\ NextCall = "bad"
          /\ AppendEvent([task EXCEPT !.ck.repairs = @ + 1, !.batch = Tail(@)])
       \/ /\ task.batch # <<>> /\ NextCall \in {"read"} \cup (Calls \cap task.ok)
          /\ Goto([task EXCEPT !.pc = "invoke"])
       \/ /\ task.batch # <<>> /\ NextCall \in Calls \ task.ok
          /\ approvals' = [approvals EXCEPT ![NextCall] =
                              IF @ = "none" THEN "pending" ELSE @]
          /\ task' = [task EXCEPT !.pc = "askEvent", !.batch = <<>>,
                                  !.ck.pending = NextCall, !.ck.lapsed = FALSE]
          /\ UNCHANGED <<run, seq, snapshot, cancel, handler, executed, history>>

\* Mutant: the run is handed back instead of waiting for the approval.
AwaitApprovalHandedBack ==
    /\ task.pc = "askCas"
    /\ TransitionTo([task EXCEPT !.pc = "exit"],
                    "retryable", "approval_required")

\* The run starts to wait for the approval: a write of its own, after the
\* checkpoint that names the pending call.
AwaitApproval ==
    /\ task.pc = "askCas"
    /\ TransitionTo([task EXCEPT !.pc = "exit"],
                    "awaiting_approval", "approval_required")

-----------------------------------------------------------------------------
(* The loop *)

\* Mutant: the bound on iterations is off by one.
BoundReasonsLate(ck) ==
    IF ck.iters > MaxIterations THEN {"iteration_limit"}
    ELSE IF ck.repairs > MaxRepairs THEN {"repair_limit"}
    ELSE {"wall_time_limit",
          IF ck.usage >= MaxUsage THEN "usage_limit" ELSE "none"}

\* bound_reason, in its order; the wall clock may or may not have run out.
BoundReasons(ck) ==
    IF ck.iters >= MaxIterations THEN {"iteration_limit"}
    ELSE IF ck.repairs > MaxRepairs THEN {"repair_limit"}
    ELSE {"wall_time_limit",
          IF ck.usage >= MaxUsage THEN "usage_limit" ELSE "none"}

\* Top of the loop: cancellation, then the bounds, then a checkpoint.
EnterLoop ==
    /\ task.pc = "loop"
    /\ \/ cancel /\ Goto(Finish(task, "cancelled"))
       \/ ~cancel /\ \E reason \in BoundReasons(task.ck) :
              \/ reason # "none" /\ Goto(Finish(task, reason))
              \/ reason = "none" /\ Goto([task EXCEPT !.pc = "loopSave"])

\* The model call loses to a cancellation, or to the wall clock.
PreemptModel ==
    /\ task.pc = "model"
    /\ Goto(Finish(task, IF cancel THEN "cancelled" ELSE "wall_time_limit"))

\* A transient provider failure, within the budget of retries.
RetryProvider ==
    /\ task.pc = "model" /\ ~cancel
    /\ task.ck.retries < MaxProviderRetries
    /\ AppendEvent([task EXCEPT !.pc = "retrySave", !.ck.retries = @ + 1])

\* A provider failure that is permanent, or one retry too many.
FailProvider ==
    /\ task.pc = "model" /\ ~cancel
    /\ \E reason \in {"provider_unavailable", "provider_rejected"} :
           AppendEvent(Finish(task, reason))

\* append_event of the observation of a reply.
AppendReply(t) ==
    /\ seq' = seq + 1
    /\ task' = [t EXCEPT !.last = seq + 1]
    /\ replies' = replies + 1
    /\ UNCHANGED <<run, snapshot, approvals, cancel, handler, executed,
                   crashes, faults, authorized, stranded>>

\* The model replies.  Its usage is counted, and a strict excess stops the run
\* whatever the reply says; a reply without calls is the answer, or is cut.
ReceiveReply ==
    /\ task.pc = "model" /\ ~cancel
    /\ \E reply \in Replies, used \in 0..1, cut \in BOOLEAN :
        LET t == [task EXCEPT !.ck.iters = @ + 1, !.ck.retries = 0,
                              !.ck.usage = @ + used]
        IN  /\ Fresh(reply)
            /\ cut => reply = <<>>
            /\ AppendReply(
                IF t.ck.usage > MaxUsage THEN Finish(t, "usage_limit")
                ELSE IF reply # <<>> THEN [t EXCEPT !.pc = "calls", !.batch = reply]
                ELSE Finish(t, IF cut THEN "output_limit" ELSE "completed"))

\* finish: the last write, after its event and its checkpoint.
SettleRun ==
    /\ task.pc = "finishCas"
    /\ TransitionTo([task EXCEPT !.pc = "exit"], StateOf(task.fin), task.fin)

-----------------------------------------------------------------------------
(* The task around the agent *)

\* Mutant: a failed task leaves its run running.
MarkRuntimeFailureSilent ==
    \/ task.pc = "mark" /\ Goto([task EXCEPT !.pc = "exit"])
    \/ task.pc \in {"markEvent", "markCas"} /\ Goto([task EXCEPT !.pc = "exit"])

\* mark_agent_runtime_failure reads the run afresh, logs, and hands it back.
MarkRuntimeFailure ==
    \/ /\ task.pc = "mark"
       /\ \/ /\ run.state \in {"running", "proposed"}
             /\ Goto([task EXCEPT !.pc = "markEvent", !.ver = run.version])
          \/ /\ run.state \notin {"running", "proposed"}
             /\ Goto([task EXCEPT !.pc = "exit"])
    \/ /\ task.pc = "markEvent"
       /\ AppendEvent([task EXCEPT !.pc = "markCas"])
    \/ /\ task.pc = "markCas"
       /\ task' = [task EXCEPT !.pc = "exit"]
       /\ \/ TransitionRun(task.ver, "retryable", "runtime_error")
          \/ run.version # task.ver /\ UNCHANGED run
       /\ UNCHANGED <<seq, snapshot, approvals, cancel, handler, executed, history>>

\* The task leaves the registry, and its cancellation channel with it.
ExitTask ==
    /\ task.pc = "exit"
    /\ task' = NoTask
    /\ cancel' = FALSE
    /\ UNCHANGED <<store, handler, executed, history>>

TaskStep ==
    \/ LoadRun \/ ClaimRunning \/ AppendLifecycleEvent \/ SaveCheckpoint
    \/ ResumePending \/ InvokeTool \/ RefuseTool \/ RecordObservation
    \/ TakeCall \/ AwaitApproval \/ EnterLoop \/ PreemptModel
    \/ RetryProvider \/ FailProvider \/ ReceiveReply \/ SettleRun
    \/ MarkRuntimeFailure \/ ExitTask

\* The task's next step is a storage call; of the calls of a reply only those
\* that are asked for or refused are written down first.
AtStorage ==
    \/ task.pc \in StoragePcs
    \/ /\ task.pc = "calls" /\ task.batch # <<>>
       /\ NextCall \notin {"read"} \cup task.ok

\* The call whose wait a failure cuts off: its checkpoint is stored, and the
\* run does not wait for it yet.
CutOff == IF task.pc = "askCas" THEN {task.ck.pending} ELSE {}

\* A storage call of the task fails and changes nothing.  The agent returns the
\* error; mark_agent_runtime_failure ignores it and goes on.
StorageFault ==
    /\ faults < MaxFaults
    /\ faults' = faults + 1
    /\ \/ AtStorage               /\ task' = [task EXCEPT !.pc = "mark"]
       \/ task.pc = "markEvent"   /\ task' = [task EXCEPT !.pc = "markCas"]
       \/ task.pc \in {"mark", "markCas"} /\ task' = [task EXCEPT !.pc = "exit"]
    /\ stranded' = stranded \cup CutOff
    /\ UNCHANGED <<store, cancel, handler, executed, crashes, replies, authorized>>

-----------------------------------------------------------------------------
(* Handlers *)

\* spawn_agent_run, once the registry has accepted the run.
Spawned(auth) ==
    [NoTask EXCEPT !.pc = "load", !.ok = auth.ok, !.no = auth.no]

\* advance_agent_run, which takes what its client says is approved or denied as
\* it is; a run already in the registry is refused.
Advance ==
    /\ seq < MaxSeq
    /\ task.pc = "idle"
    /\ \E auth \in AdvanceAuths :
        /\ task' = Spawned(auth)
        /\ authorized' = authorized \cup auth.ok
    /\ UNCHANGED <<store, cancel, handler, executed, crashes, faults, replies, stranded>>

\* decide_feature_approval: the decision is durable first ...
DecideApproval(k) ==
    /\ handler[k].pc = "idle"
    /\ \E c \in Calls, verdict \in {"approved", "rejected"} :
        /\ approvals[c] = "pending"
        /\ approvals' = [approvals EXCEPT ![c] = verdict]
        /\ handler' = [handler EXCEPT ![k] =
               [pc |-> "spawn", ver |-> 0,
                ok |-> IF verdict = "approved" THEN {c} ELSE {},
                no |-> IF verdict = "rejected" THEN {c} ELSE {}]]
        /\ authorized' = IF verdict = "approved" THEN authorized \cup {c} ELSE authorized
    /\ UNCHANGED <<run, seq, snapshot, cancel, task, executed, crashes, faults, replies, stranded>>

\* ... and the run is advanced with it next, unless it is in the registry.
SpawnDecided(k) ==
    /\ handler[k].pc = "spawn"
    /\ handler' = [handler EXCEPT ![k] = NoRequest]
    /\ task' = IF task.pc = "idle" THEN Spawned(handler[k]) ELSE task
    /\ UNCHANGED <<store, cancel, executed, history>>

\* Study and Work prepare a proposed run: they read it, ...
ReadForFreeze(k) ==
    /\ handler[k].pc = "idle"
    /\ run.state = "proposed" /\ run.version < MaxFreezes
    /\ handler' = [handler EXCEPT ![k] =
                      [NoRequest EXCEPT !.pc = "freeze", !.ver = run.version]]
    /\ UNCHANGED <<store, cancel, task, executed, history>>

\* ... replace its task specification if it has not changed, and advance it.
FreezeContext(k) ==
    /\ handler[k].pc = "freeze"
    /\ \/ /\ run.state = "proposed" /\ run.version = handler[k].ver
          /\ run' = [run EXCEPT !.version = @ + 1]
          /\ handler' = [handler EXCEPT ![k] = [NoRequest EXCEPT !.pc = "spawn"]]
       \/ /\ run.state # "proposed" \/ run.version # handler[k].ver
          /\ handler' = [handler EXCEPT ![k] = NoRequest]
          /\ UNCHANGED run
    /\ UNCHANGED <<seq, snapshot, approvals, cancel, task, executed, history>>

\* Mutant: any run without a live task can be cancelled.
RequestCancelAnyState(k) ==
    /\ handler[k].pc = "idle"
    /\ \/ /\ task.pc # "idle"
          /\ cancel' = TRUE
          /\ UNCHANGED handler
       \/ /\ task.pc = "idle"
          /\ handler' = [handler EXCEPT ![k] =
                 [NoRequest EXCEPT !.pc = "cancelEvent", !.ver = run.version]]
          /\ UNCHANGED cancel
    /\ UNCHANGED <<store, task, executed, history>>

\* cancel_agent_run signals the live task; with none, only a proposed run can
\* be cancelled, in two writes: the event, then the run.
RequestCancel(k) ==
    /\ handler[k].pc = "idle"
    /\ \/ /\ task.pc # "idle"
          /\ cancel' = TRUE
          /\ UNCHANGED handler
       \/ /\ task.pc = "idle"
          /\ run.state = "proposed"
          /\ handler' = [handler EXCEPT ![k] =
                 [NoRequest EXCEPT !.pc = "cancelEvent", !.ver = run.version]]
          /\ UNCHANGED cancel
    /\ UNCHANGED <<store, task, executed, history>>

LogCancelled(k) ==
    /\ handler[k].pc = "cancelEvent"
    /\ seq' = seq + 1
    /\ handler' = [handler EXCEPT ![k].pc = "cancelCas"]
    /\ UNCHANGED <<run, snapshot, approvals, cancel, task, executed, history>>

CancelProposedRun(k) ==
    /\ handler[k].pc = "cancelCas"
    /\ handler' = [handler EXCEPT ![k] = NoRequest]
    /\ \/ TransitionRun(handler[k].ver, "cancelled", "cancelled_before_start")
       \/ run.version # handler[k].ver /\ UNCHANGED run
    /\ UNCHANGED <<seq, snapshot, approvals, cancel, task, executed, history>>

HandlerStep(k) ==
    \/ SpawnDecided(k) \/ FreezeContext(k) \/ LogCancelled(k)
    \/ CancelProposedRun(k)

RequestStep(k) == DecideApproval(k) \/ ReadForFreeze(k) \/ RequestCancel(k)

-----------------------------------------------------------------------------
(* Time and Core *)

\* The approval the durable checkpoint waits for passes its expiry.
ApprovalLapses ==
    /\ snapshot.doc.pending # NoCall
    /\ ~snapshot.doc.lapsed
    /\ snapshot' = [snapshot EXCEPT !.doc.lapsed = TRUE]
    /\ UNCHANGED <<run, seq, approvals, cancel, task, handler, executed, history>>

\* Core stops at any point and starts again; with another Vault, every
\* undecided or unconsumed approval is rejected (invalidate_vault_authority).
CoreRestarts ==
    /\ crashes < MaxCrashes
    /\ crashes' = crashes + 1
    /\ task' = NoTask
    /\ cancel' = FALSE
    /\ handler' = [k \in Clients |-> NoRequest]
    /\ \/ UNCHANGED approvals
       \/ approvals' = [c \in Calls |->
              IF approvals[c] \in {"pending", "approved"} THEN "rejected"
              ELSE approvals[c]]
    /\ stranded' = stranded \cup CutOff
    /\ UNCHANGED <<run, seq, snapshot, executed, faults, replies, authorized>>

Next ==
    \/ TaskStep
    \/ StorageFault
    \/ Advance
    \/ \E k \in Clients : RequestStep(k) \/ HandlerStep(k)
    \/ ApprovalLapses
    \/ CoreRestarts

Spec == Init /\ [][Next]_vars

\* Tokio runs a task that can proceed, and every model and tool call it waits
\* for is bounded by the run's wall clock.
FairSpec ==
    /\ Spec
    /\ WF_vars(TaskStep)
    /\ \A k \in Clients : WF_vars(HandlerStep(k))
-----------------------------------------------------------------------------
(* What the run promises *)

\* A task holds the run from its claim until it settles it.
Owning == task.pc \in AgentPcs /\ task.st = "running"

\* While a task holds the run, nobody else moves it: the version it loaded is
\* the version it will compare with, through every await of the loop.
OwnerIsCurrent ==
    Owning => run.state = "running" /\ run.version = task.ver

\* The compare-and-swap of a checkpoint never fails: the registry admits one
\* writer, and the sequence it expects is the one that is stored.
CheckpointUncontended ==
    task.pc \in DOMAIN AfterSave =>
        snapshot.covered = task.exp /\ task.last <= seq /\ seq > 0

\* A run that waits for an approval can be decided after a restart: its durable
\* checkpoint names the call, and the approval of that call is on record.
WaitingRunNamesItsCall ==
    run.state = "awaiting_approval" =>
        snapshot.doc.pending \in Calls /\ approvals[snapshot.doc.pending] # "none"

\* Whatever fails, is retried, re-asked, denied or rejected by another Vault, a
\* call reaches its tool only if the user once approved it, if the client of an
\* advance said so, or if a failure fell between the checkpoint that names it
\* and the wait for its approval.
EffectsAreAuthorized ==
    [][\A c \in Calls : executed'[c] > executed[c] => c \in authorized \cup stranded]_vars

\* What was approved is done once, and again only because Core stopped or a storage call
\* failed between the tool and the record of what it did, once for each.
EffectsRepeatOnlyByFailure ==
    \A c \in Calls : executed[c] <= 1 + crashes + faults

\* The model is asked only within the frozen bounds, and what has been spent
\* exceeds them by no more than the last reply.
BudgetsHold ==
    /\ task.pc = "model" =>
        /\ task.ck.iters < MaxIterations
        /\ task.ck.repairs <= MaxRepairs
        /\ task.ck.usage < MaxUsage
    /\ snapshot.doc.iters <= MaxIterations
    /\ snapshot.doc.retries <= MaxProviderRetries
    /\ snapshot.doc.repairs <= MaxRepairs + MaxBatch

\* The replies that are counted: in memory while a task works on a checkpoint,
\* and what is stored otherwise.
Counted == IF task.pc \in AgentPcs \ {"load"} THEN task.ck.iters ELSE snapshot.doc.iters

\* What a run has spent is counted but for one reply at each failure, the one
\* whose checkpoint was not stored yet; retries, resumed approvals and tasks
\* that take the run over lose none, and no stored counter goes back.
SpendingIsKept ==
    /\ [](replies <= Counted + crashes + faults)
    /\ [][/\ snapshot'.doc.iters >= snapshot.doc.iters
          /\ snapshot'.doc.usage >= snapshot.doc.usage
          /\ snapshot'.doc.repairs >= snapshot.doc.repairs]_vars

\* Every task ends and frees the registry for the next advance.
TaskLeavesRegistry == task.pc # "idle" ~> task.pc = "idle"

\* A running run is eventually settled; one stays running without a task only if a
\* storage call has failed, that of the hand-back.
RunningIsTransient ==
    run.state = "running" ~> run.state # "running" \/ (task.pc = "idle" /\ faults > 0)

\* The run as its clients see it; the state an older Core called failed when
\* the wall clock ran out is a retryable one.
Lifecycle == INSTANCE RunLifecycle WITH
    state <- IF LegacyWallTimeRetry THEN "retryable" ELSE run.state,
    owned <- Owning

\* The detailed run implements the abstract life cycle.
LifecycleRefined == Lifecycle!LifecycleSpec
=============================================================================
