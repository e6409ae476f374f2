--------------------------- MODULE AgentRunProofs ---------------------------
(* Theorems about AgentRun, for every value of its constants. *)
EXTENDS AgentRun, TLAPS

\* Where the task goes after a save, point by point.
LEMMA AfterSavePoints ==
    /\ DOMAIN AfterSave = {"reissueSave", "startSave", "resumedSave", "callSave",
                           "loopSave", "retrySave", "askSave", "finishSave"}
    /\ AfterSave["reissueSave"] = "exit"
    /\ AfterSave["startSave"]   = "resume"
    /\ AfterSave["resumedSave"] = "loop"
    /\ AfterSave["callSave"]    = "calls"
    /\ AfterSave["loopSave"]    = "modelEvent"
    /\ AfterSave["retrySave"]   = "loop"
    /\ AfterSave["askSave"]     = "askCas"
    /\ AfterSave["finishSave"]  = "finishCas"
  BY DEF AfterSave

\* A save leads to another point of the agent, or out of it.
LEMMA AfterSaveType ==
  ASSUME NEW p \in DOMAIN AfterSave PROVE AfterSave[p] \in TaskPcs
  BY AfterSavePoints DEF TaskPcs, AgentPcs

-----------------------------------------------------------------------------
(* The inductive invariant *)

\* The points of the agent at which it has read the run.
LoadedPcs == AgentPcs \ {"load"}
FinishPcs == {"finishEvent", "finishSave", "finishCas"}
ReissuePcs == {"reissueEvent", "reissueSave"}

\* A version that somebody read is stale, or the run is still in a state in
\* which it was read.
Fresher(version, states) ==
    /\ version <= run.version
    /\ run.version = version => run.state \in states

\* The task is in the loop only with a run it has claimed; without a claim it
\* re-asks for an approval or finishes a denied run.  It runs a call of the
\* reply only while there is one.
PointInv ==
    /\ task.pc \in {"invoke", "observe", "refused"} => task.batch # <<>>
    /\ task.pc = "load" => task.st = "proposed"
    /\ task.pc = "claim" =>
          task.st \in {"proposed", "retryable", "awaiting_approval", "failed"}
    /\ task.pc \in LoadedPcs \ {"claim"} =>
          task.st \in {"running", "awaiting_approval"}
    /\ task.pc \in LoadedPcs \ ({"claim"} \cup ReissuePcs \cup FinishPcs) =>
          task.st = "running"
    /\ task.pc \in ReissuePcs => task.st = "awaiting_approval"
    /\ task.pc \in FinishPcs /\ task.st = "awaiting_approval" =>
          task.fin = "approval_denied"

\* Nobody moves the run of a task that has loaded it, except that a proposed
\* run may be cancelled or prepared before the task claims it.  What handlers
\* and a failing task have read lets them move only a run nobody holds.
VersionInv ==
    /\ task.pc \in LoadedPcs /\ task.st # "proposed" =>
          run.version = task.ver /\ run.state = task.st
    /\ task.pc = "claim" /\ task.st = "proposed" =>
          Fresher(task.ver, {"proposed"})
    /\ task.pc = "claim" /\ task.st = "failed" => LegacyWallTimeRetry
    /\ task.pc \in {"markEvent", "markCas"} =>
          Fresher(task.ver, {"proposed", "running"})
    /\ \A k \in Clients :
          handler[k].pc \in {"freeze", "cancelEvent", "cancelCas"} =>
              Fresher(handler[k].ver, {"proposed"})

\* The task knows the stored checkpoint, and the log holds what it will cover.
CheckpointInv ==
    /\ task.pc \in LoadedPcs => snapshot.covered = task.exp /\ task.last <= seq
    /\ task.pc \in LoadedPcs \ {"claim", "startEvent", "reissueEvent", "finishEvent"}
          => seq > 0

Asked(c) == c \in Calls /\ approvals[c] # "none"

\* A call is asked for before the checkpoint that names it, and named there
\* before the run waits for it.
WaitInv ==
    /\ WaitingRunNamesItsCall
    /\ task.pc \in {"askEvent", "askSave"} => Asked(task.ck.pending)
    /\ task.pc = "askCas" => Asked(snapshot.doc.pending)
    /\ task.pc \in ReissuePcs \cup FinishPcs /\ task.st = "awaiting_approval" =>
          Asked(task.ck.pending)

IndInv == TypeOK /\ PointInv /\ VersionInv /\ CheckpointInv /\ WaitInv

-----------------------------------------------------------------------------
(* Type correctness, action by action *)

USE CallsAssumption, AuthsAssumption, BoundsAssumption

\* The types of the locals that arithmetic and sequence operators are used on.
LEMMA TaskFields ==
  ASSUME TypeOK
  PROVE  /\ task \in Tasks
         /\ task.ck \in Checkpoints
         /\ task.batch \in Seq(Kinds)
         /\ task.ver \in Nat /\ task.exp \in Nat /\ task.last \in Nat
         /\ task.ck.iters \in Nat /\ task.ck.repairs \in Nat
         /\ task.ck.retries \in Nat /\ task.ck.usage \in Nat
  <1>1. task \in Tasks
    BY DEF TypeOK
  <1>2. /\ task.ck \in Checkpoints
        /\ task.batch \in Seq(Kinds)
        /\ task.ver \in Nat /\ task.exp \in Nat /\ task.last \in Nat
    BY <1>1 DEF Tasks
  <1> QED BY <1>1, <1>2 DEF Checkpoints

LEMMA AppendEventTypeOK ==
  ASSUME TypeOK, NEW t \in Tasks, AppendEvent(t) \/ AppendReply(t)
  PROVE  TypeOK'
  <1>1. seq' \in Nat
    BY DEF TypeOK, AppendEvent, AppendReply
  <1>2. [t EXCEPT !.last = seq'] \in Tasks
    BY <1>1 DEF Tasks
  <1>3. task' \in Tasks
    BY <1>2 DEF AppendEvent, AppendReply
  <1>4. replies' \in Nat
    BY DEF TypeOK, AppendEvent, AppendReply, history
  <1> QED BY <1>1, <1>3, <1>4 DEF TypeOK, AppendEvent, AppendReply, history

LEMMA GotoTypeOK ==
  ASSUME TypeOK, NEW t \in Tasks, Goto(t)
  PROVE  TypeOK'
  BY DEF TypeOK, Goto, store, history

LEMMA AtType ==
  ASSUME NEW t \in Tasks, NEW pc \in TaskPcs
  PROVE  [t EXCEPT !.pc = pc] \in Tasks
  BY DEF Tasks

LEMMA FailTypeOK ==
  ASSUME TypeOK, Fail
  PROVE  TypeOK'
  <1>1. "mark" \in TaskPcs
    BY DEF TaskPcs, MarkPcs
  <1> QED BY <1>1, AtType, GotoTypeOK DEF TypeOK, Fail

LEMMA TransitionTypeOK ==
  ASSUME TypeOK, NEW t \in Tasks, NEW state \in States, NEW stop \in StopReasons,
         TransitionTo(t, state, stop)
  PROVE  TypeOK'
  <1>1. CASE run.version = task.ver
    <2>1. run' = [state |-> state, version |-> run.version + 1, stop |-> stop]
      BY <1>1 DEF TransitionTo, TransitionRun
    <2>2. run' \in [state : States, version : Nat, stop : StopReasons]
      BY <2>1 DEF TypeOK
    <2> QED BY <1>1, <2>2 DEF TypeOK, TransitionTo, history
  <1>2. CASE run.version # task.ver
    BY <1>2, FailTypeOK DEF TransitionTo
  <1> QED BY <1>1, <1>2

LEMMA FinishType ==
  ASSUME NEW t \in Tasks, NEW reason \in StopReasons
  PROVE  Finish(t, reason) \in Tasks
  <1>1. "finishEvent" \in TaskPcs
    BY DEF TaskPcs, AgentPcs
  <1> QED BY <1>1 DEF Finish, Tasks

LEMMA StateOfType ==
  ASSUME NEW reason \in StopReasons PROVE StateOf(reason) \in States
  BY DEF StateOf, States

LEMMA StoredType ==
  ASSUME TypeOK PROVE Stored \in Checkpoints
  BY DEF TypeOK, Stored, NewCheckpoint, Checkpoints

LEMMA LoadedType ==
  ASSUME TypeOK, NEW pc \in TaskPcs, NEW ck \in Checkpoints
  PROVE  Loaded(pc, ck) \in Tasks
  BY DEF TypeOK, Loaded, Tasks

LEMMA LoadRunTypeOK ==
  ASSUME TypeOK, LoadRun PROVE TypeOK'
  <1>1. \A pc \in {"load", "claim", "mark", "exit", "reissueEvent"} : pc \in TaskPcs
    BY DEF TaskPcs, AgentPcs, MarkPcs
  <1>2. Finish(Loaded("load", Stored), "approval_denied") \in Tasks
    BY <1>1, StoredType, LoadedType, FinishType DEF StopReasons
  <1>3. CASE /\ Stored.pending \in Calls \ (task.ok \cup task.no)
             /\ approvals' = [approvals EXCEPT ![Stored.pending] =
                                  IF @ = "none" THEN "pending" ELSE @]
             /\ task' = Loaded("reissueEvent", [Stored EXCEPT !.lapsed = FALSE])
             /\ UNCHANGED <<run, seq, snapshot, cancel, handler, executed, history>>
    <2>1. [Stored EXCEPT !.lapsed = FALSE] \in Checkpoints
      BY StoredType DEF Checkpoints
    <2>2. task' \in Tasks
      BY <1>1, <1>3, <2>1, LoadedType
    <2> QED BY <1>3, <2>2 DEF TypeOK, Decisions, history
  <1> QED
    BY <1>1, <1>2, <1>3, GotoTypeOK, LoadedType, StoredType DEF LoadRun

LEMMA ClaimRunningTypeOK ==
  ASSUME TypeOK, ClaimRunning PROVE TypeOK'
  <1>1. "startEvent" \in TaskPcs /\ "running" \in States /\ "none" \in StopReasons
    BY DEF TaskPcs, AgentPcs, States, StopReasons
  <1>2. [task EXCEPT !.pc = "startEvent", !.st = "running",
                     !.ver = task.ver + 1] \in Tasks
    <2>1. task \in Tasks /\ task.ver \in Nat
      BY TaskFields
    <2>2. task.ver + 1 \in Nat
      BY <2>1
    <2> QED BY <1>1, <2>1, <2>2 DEF Tasks
  <1>3. TransitionTo([task EXCEPT !.pc = "startEvent", !.st = "running",
                                  !.ver = task.ver + 1], "running", "none")
    BY DEF ClaimRunning
  <1> QED BY <1>1, <1>2, <1>3, TransitionTypeOK

LEMMA AppendLifecycleEventTypeOK ==
  ASSUME TypeOK, AppendLifecycleEvent PROVE TypeOK'
  <1>1. \A pc \in {"startSave", "askSave", "reissueSave", "finishSave", "model"} :
            pc \in TaskPcs
    BY AfterSavePoints DEF TaskPcs, AgentPcs
  <1>2. \E pc \in {"startSave", "askSave", "reissueSave", "finishSave", "model"} :
            AppendEvent([task EXCEPT !.pc = pc])
    BY Zenon DEF AppendLifecycleEvent
  <1>3. \A pc \in TaskPcs : [task EXCEPT !.pc = pc] \in Tasks
    BY AtType DEF TypeOK
  <1> QED BY <1>1, <1>2, <1>3, AppendEventTypeOK

LEMMA SaveCheckpointTypeOK ==
  ASSUME TypeOK, SaveCheckpoint PROVE TypeOK'
  <1>1. CASE snapshot.covered = task.exp /\ seq > 0 /\ task.last <= seq
    <2>1. snapshot' = [covered |-> task.last, doc |-> task.ck]
      BY <1>1 DEF SaveCheckpoint
    <2>2. snapshot' \in [covered : Nat, doc : Checkpoints]
      BY <2>1 DEF TypeOK, Tasks
    <2>3. AfterSave[task.pc] \in TaskPcs
      BY AfterSaveType DEF SaveCheckpoint
    <2>4. [task EXCEPT !.pc = AfterSave[task.pc], !.exp = task.last] \in Tasks
      BY <2>3 DEF TypeOK, Tasks
    <2>5. task' \in Tasks
      BY <1>1, <2>4 DEF SaveCheckpoint
    <2> QED BY <1>1, <2>2, <2>5 DEF TypeOK, SaveCheckpoint, history
  <1>2. CASE ~(snapshot.covered = task.exp /\ seq > 0 /\ task.last <= seq)
    BY <1>2, FailTypeOK DEF SaveCheckpoint
  <1> QED BY <1>1, <1>2

LEMMA ResumePendingTypeOK ==
  ASSUME TypeOK, ResumePending PROVE TypeOK'
  <1>1. CASE task.ck.pending = NoCall /\ Goto([task EXCEPT !.pc = "loop"])
    <2>1. "loop" \in TaskPcs
      BY DEF TaskPcs, AgentPcs
    <2> QED BY <1>1, <2>1, AtType, GotoTypeOK DEF TypeOK
  <1>2. CASE Fail
    BY <1>2, FailTypeOK
  <1>3. CASE /\ task.ck.pending # NoCall
             /\ Goto([task EXCEPT !.pc = "invoke", !.resumed = TRUE,
                                  !.batch = <<task.ck.pending>>,
                                  !.ck.pending = NoCall, !.ck.lapsed = FALSE])
    <2>1. "invoke" \in TaskPcs
      BY DEF TaskPcs, AgentPcs
    <2>2. task.ck.pending \in Kinds
      BY <1>3 DEF TypeOK, Tasks, Checkpoints, Kinds
    <2>3. <<task.ck.pending>> \in Seq(Kinds)
      BY <2>2
    <2>4. [task EXCEPT !.pc = "invoke", !.resumed = TRUE,
                       !.batch = <<task.ck.pending>>,
                       !.ck.pending = NoCall, !.ck.lapsed = FALSE] \in Tasks
      BY <2>1, <2>3 DEF TypeOK, Tasks, Checkpoints
    <2> QED BY <1>3, <2>4, GotoTypeOK
  <1> QED BY <1>1, <1>2, <1>3 DEF ResumePending

LEMMA InvokeToolTypeOK ==
  ASSUME TypeOK, InvokeTool PROVE TypeOK'
  <1>1. "observe" \in TaskPcs
    BY DEF TaskPcs, AgentPcs
  <1>2. task' \in Tasks
    BY <1>1, AtType DEF TypeOK, InvokeTool
  <1>3. executed' \in [Calls -> Nat]
    BY DEF TypeOK, InvokeTool
  <1> QED BY <1>2, <1>3 DEF TypeOK, InvokeTool, store, history

LEMMA RefuseToolTypeOK ==
  ASSUME TypeOK, RefuseTool PROVE TypeOK'
  <1>1. "refused" \in TaskPcs
    BY DEF TaskPcs, AgentPcs
  <1> QED BY <1>1, AtType, GotoTypeOK DEF TypeOK, RefuseTool

LEMMA RecordObservationTypeOK ==
  ASSUME TypeOK, PointInv, RecordObservation PROVE TypeOK'
  <1>1. PICK repairs \in Nat :
          /\ task.pc \in {"observe", "refused"}
          /\ AppendEvent([task EXCEPT !.pc = AfterCall(repairs),
                                      !.ck.repairs = repairs,
                                      !.batch = Tail(task.batch),
                                      !.resumed = FALSE,
                                      !.fin = IF AfterCall(repairs) = "finishEvent"
                                              THEN "repair_limit" ELSE @])
    <2>1. task.ck.repairs \in Nat
      BY DEF TypeOK, Tasks, Checkpoints
    <2>2. PICK ok \in BOOLEAN :
          LET repairs == task.ck.repairs + (IF ok THEN 0 ELSE 1)
          IN  /\ task.pc \in {"observe", "refused"}
              /\ AppendEvent([task EXCEPT !.pc = AfterCall(repairs),
                                      !.ck.repairs = repairs,
                                      !.batch = Tail(task.batch),
                                      !.resumed = FALSE,
                                      !.fin = IF AfterCall(repairs) = "finishEvent"
                                              THEN "repair_limit" ELSE @])
      BY DEF RecordObservation
    <2>3. task.ck.repairs + (IF ok THEN 0 ELSE 1) \in Nat
      BY <2>1
    <2> QED BY <2>2, <2>3
  <1>2. AfterCall(repairs) \in TaskPcs /\ "repair_limit" \in StopReasons
    BY AfterSavePoints DEF AfterCall, TaskPcs, AgentPcs, StopReasons
  <1>3. Tail(task.batch) \in Seq(Kinds)
    BY <1>1 DEF PointInv, TypeOK, Tasks
  <1>4. [task EXCEPT !.pc = AfterCall(repairs), !.ck.repairs = repairs,
                     !.batch = Tail(task.batch), !.resumed = FALSE,
                     !.fin = IF AfterCall(repairs) = "finishEvent"
                             THEN "repair_limit" ELSE @] \in Tasks
    BY <1>2, <1>3 DEF TypeOK, Tasks, Checkpoints
  <1> QED BY <1>1, <1>4, AppendEventTypeOK

LEMMA TakeCallTypeOK ==
  ASSUME TypeOK, TakeCall PROVE TypeOK'
  <1>1. task \in Tasks /\ task.batch \in Seq(Kinds) /\ task.ck.repairs + 1 \in Nat
    <2>1. task \in Tasks /\ task.batch \in Seq(Kinds) /\ task.ck.repairs \in Nat
      BY TaskFields, Zenon
    <2>2. \A n \in Nat : n + 1 \in Nat
      OBVIOUS
    <2> QED BY <2>1, <2>2, Zenon
  <1>2. \A pc \in {"loop", "invoke", "askEvent"} : pc \in TaskPcs
    BY DEF TaskPcs, AgentPcs
  <1>3. CASE task.batch = <<>> /\ Goto([task EXCEPT !.pc = "loop"])
    BY <1>1, <1>2, <1>3, AtType, GotoTypeOK
  <1>4. CASE /\ task.batch # <<>>
             /\ AppendEvent([task EXCEPT !.ck.repairs = @ + 1, !.batch = Tail(@)])
    <2>1. Tail(task.batch) \in Seq(Kinds)
      BY <1>1, <1>4
    <2>2. [task EXCEPT !.ck.repairs = @ + 1, !.batch = Tail(@)] \in Tasks
      BY <1>1, <2>1 DEF Tasks, Checkpoints
    <2> QED BY <1>4, <2>2, AppendEventTypeOK
  <1>5. CASE Goto([task EXCEPT !.pc = "invoke"])
    BY <1>1, <1>2, <1>5, AtType, GotoTypeOK
  <1>6. CASE /\ NextCall \in Calls \ task.ok
             /\ approvals' = [approvals EXCEPT ![NextCall] =
                                  IF @ = "none" THEN "pending" ELSE @]
             /\ task' = [task EXCEPT !.pc = "askEvent", !.batch = <<>>,
                                     !.ck.pending = NextCall, !.ck.lapsed = FALSE]
             /\ UNCHANGED <<run, seq, snapshot, cancel, handler, executed, history>>
    <2>1. [task EXCEPT !.pc = "askEvent", !.batch = <<>>,
                       !.ck.pending = NextCall, !.ck.lapsed = FALSE] \in Tasks
      <3>1. NextCall \in Calls /\ <<>> \in Seq(Kinds)
        BY <1>6
      <3> HIDE DEF NextCall
      <3> QED BY <1>1, <1>2, <3>1 DEF Tasks, Checkpoints
    <2>2. task' \in Tasks
      BY <1>6, <2>1
    <2>3. approvals' \in [Calls -> Decisions]
      BY <1>6 DEF TypeOK, Decisions
    <2> QED BY <1>6, <2>2, <2>3 DEF TypeOK, history
  <1> QED BY <1>3, <1>4, <1>5, <1>6 DEF TakeCall

LEMMA AwaitApprovalTypeOK ==
  ASSUME TypeOK, AwaitApproval PROVE TypeOK'
  <1>1. /\ "exit" \in TaskPcs
        /\ "awaiting_approval" \in States
        /\ "approval_required" \in StopReasons
    BY DEF TaskPcs, States, StopReasons
  <1> QED BY <1>1, AtType, TransitionTypeOK DEF AwaitApproval, TypeOK

LEMMA BoundReasonsType ==
  ASSUME NEW ck PROVE BoundReasons(ck) \subseteq StopReasons
  BY DEF BoundReasons, StopReasons

LEMMA EnterLoopTypeOK ==
  ASSUME TypeOK, EnterLoop PROVE TypeOK'
  <1>1. task \in Tasks /\ "loopSave" \in TaskPcs /\ "cancelled" \in StopReasons
    BY AfterSavePoints DEF TypeOK, TaskPcs, AgentPcs, StopReasons
  <1>2. \A reason \in StopReasons : Finish(task, reason) \in Tasks
    BY <1>1, FinishType
  <1>3. [task EXCEPT !.pc = "loopSave"] \in Tasks
    BY <1>1, AtType
  <1>4. \/ Goto([task EXCEPT !.pc = "loopSave"])
        \/ \E reason \in StopReasons : Goto(Finish(task, reason))
    BY <1>1, BoundReasonsType DEF EnterLoop
  <1> QED BY <1>2, <1>3, <1>4, GotoTypeOK

LEMMA PreemptModelTypeOK ==
  ASSUME TypeOK, PreemptModel PROVE TypeOK'
  <1>1. "cancelled" \in StopReasons /\ "wall_time_limit" \in StopReasons
    BY DEF StopReasons
  <1> QED BY <1>1, FinishType, GotoTypeOK DEF PreemptModel, TypeOK

LEMMA RetryProviderTypeOK ==
  ASSUME TypeOK, RetryProvider PROVE TypeOK'
  <1>1. task \in Tasks /\ task.ck.retries + 1 \in Nat
    <2>1. task \in Tasks /\ task.ck.retries \in Nat
      BY TaskFields
    <2> QED BY <2>1
  <1>2. "retrySave" \in TaskPcs
    BY AfterSavePoints DEF TaskPcs, AgentPcs
  <1>3. [task EXCEPT !.pc = "retrySave", !.ck.retries = @ + 1] \in Tasks
    BY <1>1, <1>2 DEF Tasks, Checkpoints
  <1> QED BY <1>3, AppendEventTypeOK DEF RetryProvider

LEMMA FailProviderTypeOK ==
  ASSUME TypeOK, FailProvider PROVE TypeOK'
  <1>1. \A reason \in {"provider_unavailable", "provider_rejected"} :
            Finish(task, reason) \in Tasks
    BY FinishType DEF TypeOK, StopReasons
  <1> QED BY <1>1, AppendEventTypeOK DEF FailProvider

LEMMA RepliesType == Replies \subseteq Seq(Kinds)
  <1>1. \A n \in 0..MaxBatch : [1..n -> Kinds] \subseteq Seq(Kinds)
    OBVIOUS
  <1> QED BY <1>1 DEF Replies

LEMMA ReceiveReplyTypeOK ==
  ASSUME TypeOK, ReceiveReply PROVE TypeOK'
  <1> DEFINE t(used) == [task EXCEPT !.ck.iters = @ + 1, !.ck.retries = 0,
                                     !.ck.usage = @ + used]
  <1>1. PICK reply \in Replies, used \in 0..1, cut \in BOOLEAN :
          AppendReply(
            IF t(used).ck.usage > MaxUsage THEN Finish(t(used), "usage_limit")
            ELSE IF reply # <<>> THEN [t(used) EXCEPT !.pc = "calls", !.batch = reply]
            ELSE Finish(t(used), IF cut THEN "output_limit" ELSE "completed"))
    BY DEF ReceiveReply
  <1>2. /\ task \in Tasks
        /\ task.ck.iters + 1 \in Nat
        /\ task.ck.usage + used \in Nat
    <2> HIDE DEF t
    <2>1. task \in Tasks /\ task.ck.iters \in Nat /\ task.ck.usage \in Nat
      BY TaskFields
    <2>2. used \in Nat
      OBVIOUS
    <2> QED BY <2>1, <2>2
  <1>3. t(used) \in Tasks
    BY <1>2 DEF Tasks, Checkpoints
  <1>4. "calls" \in TaskPcs
    BY DEF TaskPcs, AgentPcs
  <1>5. [t(used) EXCEPT !.pc = "calls", !.batch = reply] \in Tasks
    <2> HIDE DEF t
    <2> QED BY <1>3, <1>4, RepliesType DEF Tasks
  <1>6. \A reason \in {"usage_limit", "output_limit", "completed"} :
            Finish(t(used), reason) \in Tasks
    <2> HIDE DEF t
    <2> QED BY <1>3, FinishType DEF StopReasons
  <1> HIDE DEF t
  <1> QED BY <1>1, <1>5, <1>6, AppendEventTypeOK

LEMMA SettleRunTypeOK ==
  ASSUME TypeOK, SettleRun PROVE TypeOK'
  <1>1. "exit" \in TaskPcs /\ task \in Tasks /\ task.fin \in StopReasons
    BY DEF TaskPcs, TypeOK, Tasks
  <1> QED BY <1>1, AtType, StateOfType, TransitionTypeOK DEF SettleRun

LEMMA MarkRuntimeFailureTypeOK ==
  ASSUME TypeOK, MarkRuntimeFailure PROVE TypeOK'
  <1>1. \A pc \in {"markEvent", "markCas", "exit"} : pc \in TaskPcs
    BY DEF TaskPcs, MarkPcs
  <1>2. task \in Tasks /\ run.version \in Nat
    BY DEF TypeOK
  <1>3. CASE Goto([task EXCEPT !.pc = "markEvent", !.ver = run.version])
    <2>1. [task EXCEPT !.pc = "markEvent", !.ver = run.version] \in Tasks
      BY <1>1, <1>2 DEF Tasks
    <2> QED BY <1>3, <2>1, GotoTypeOK
  <1>4. CASE Goto([task EXCEPT !.pc = "exit"])
    BY <1>1, <1>2, <1>4, AtType, GotoTypeOK
  <1>5. CASE AppendEvent([task EXCEPT !.pc = "markCas"])
    BY <1>1, <1>2, <1>5, AtType, AppendEventTypeOK
  <1>6. CASE /\ task' = [task EXCEPT !.pc = "exit"]
             /\ \/ TransitionRun(task.ver, "retryable", "runtime_error")
                \/ UNCHANGED run
             /\ UNCHANGED <<seq, snapshot, approvals, cancel, handler, executed, history>>
    <2>1. task' \in Tasks
      BY <1>1, <1>2, <1>6, AtType
    <2>2. run' \in [state : States, version : Nat, stop : StopReasons]
      BY <1>2, <1>6 DEF TypeOK, TransitionRun, States, StopReasons
    <2> QED BY <1>6, <2>1, <2>2 DEF TypeOK, history
  <1> QED BY <1>3, <1>4, <1>5, <1>6 DEF MarkRuntimeFailure

LEMMA NoTaskType == NoTask \in Tasks
  <1>1. "idle" \in TaskPcs /\ "proposed" \in States /\ "none" \in StopReasons
    BY DEF TaskPcs, States, StopReasons
  <1>2. NewCheckpoint \in Checkpoints /\ <<>> \in Seq(Kinds)
    BY DEF NewCheckpoint, Checkpoints
  <1> QED BY <1>1, <1>2 DEF NoTask, Tasks

LEMMA ExitTaskTypeOK ==
  ASSUME TypeOK, ExitTask PROVE TypeOK'
  BY NoTaskType DEF TypeOK, ExitTask, store, history

LEMMA TaskStepTypeOK ==
  ASSUME TypeOK, PointInv, TaskStep PROVE TypeOK'
  BY LoadRunTypeOK, ClaimRunningTypeOK, AppendLifecycleEventTypeOK,
     SaveCheckpointTypeOK, ResumePendingTypeOK, InvokeToolTypeOK,
     RefuseToolTypeOK, RecordObservationTypeOK, TakeCallTypeOK,
     AwaitApprovalTypeOK, EnterLoopTypeOK, PreemptModelTypeOK,
     RetryProviderTypeOK, FailProviderTypeOK, ReceiveReplyTypeOK,
     SettleRunTypeOK, MarkRuntimeFailureTypeOK, ExitTaskTypeOK
  DEF TaskStep

LEMMA StorageFaultTypeOK ==
  ASSUME TypeOK, StorageFault PROVE TypeOK'
  <1>1. \A pc \in {"mark", "markCas", "exit"} : [task EXCEPT !.pc = pc] \in Tasks
    BY AtType DEF TypeOK, TaskPcs, MarkPcs
  <1>2. task' \in Tasks
    BY <1>1 DEF StorageFault
  <1>3. faults' \in Nat /\ stranded' \subseteq Calls \cup {NoCall}
    <2>1. faults' \in Nat
      BY DEF TypeOK, StorageFault
    <2>2. CutOff \subseteq Calls \cup {NoCall}
      BY TaskFields DEF CutOff, Checkpoints
    <2>3. stranded' = stranded \cup CutOff /\ stranded \subseteq Calls \cup {NoCall}
      BY DEF TypeOK, StorageFault
    <2> QED BY <2>1, <2>2, <2>3
  <1> QED BY <1>2, <1>3 DEF TypeOK, StorageFault, store

LEMMA SpawnedType ==
  ASSUME NEW auth, auth.ok \in SUBSET Calls, auth.no \in SUBSET Calls
  PROVE  Spawned(auth) \in Tasks
  <1>1. "load" \in TaskPcs
    BY DEF TaskPcs, AgentPcs
  <1> QED BY <1>1, NoTaskType DEF Spawned, Tasks

LEMMA AdvanceTypeOK ==
  ASSUME TypeOK, Advance PROVE TypeOK'
  <1>1. task' \in Tasks
    BY SpawnedType DEF Advance
  <1>2. authorized' \subseteq Calls
    BY DEF TypeOK, Advance
  <1> QED BY <1>1, <1>2 DEF TypeOK, Advance, store

LEMMA NoRequestType == NoRequest \in Requests
  BY DEF NoRequest, Requests

LEMMA RequestTypeOK ==
  ASSUME TypeOK, NEW k \in Clients, RequestStep(k) PROVE TypeOK'
  <1>1. CASE DecideApproval(k)
    <2>1. handler' \in [Clients -> Requests]
      <3>1. PICK c \in Calls, verdict \in {"approved", "rejected"} :
              handler' = [handler EXCEPT ![k] =
                 [pc |-> "spawn", ver |-> 0,
                  ok |-> IF verdict = "approved" THEN {c} ELSE {},
                  no |-> IF verdict = "rejected" THEN {c} ELSE {}]]
        BY <1>1 DEF DecideApproval
      <3>2. [pc |-> "spawn", ver |-> 0,
             ok |-> IF verdict = "approved" THEN {c} ELSE {},
             no |-> IF verdict = "rejected" THEN {c} ELSE {}] \in Requests
        BY DEF Requests
      <3> QED BY <3>1, <3>2 DEF TypeOK
    <2>2. approvals' \in [Calls -> Decisions]
      BY <1>1 DEF DecideApproval, TypeOK, Decisions
    <2>3. authorized' \subseteq Calls
      BY <1>1 DEF DecideApproval, TypeOK
    <2> QED BY <1>1, <2>1, <2>2, <2>3 DEF DecideApproval, TypeOK
  <1>2. CASE ReadForFreeze(k)
    <2>1. [NoRequest EXCEPT !.pc = "freeze", !.ver = run.version] \in Requests
      BY NoRequestType DEF TypeOK, Requests
    <2>2. handler' \in [Clients -> Requests]
      BY <1>2, <2>1 DEF ReadForFreeze, TypeOK
    <2> QED BY <1>2, <2>2 DEF ReadForFreeze, TypeOK, store, history
  <1>3. CASE RequestCancel(k)
    <2>1. [NoRequest EXCEPT !.pc = "cancelEvent", !.ver = run.version] \in Requests
      BY NoRequestType DEF TypeOK, Requests
    <2>2. handler' \in [Clients -> Requests] /\ cancel' \in BOOLEAN
      BY <1>3, <2>1 DEF RequestCancel, TypeOK
    <2> QED BY <1>3, <2>2 DEF RequestCancel, TypeOK, store, history
  <1> QED BY <1>1, <1>2, <1>3 DEF RequestStep

LEMMA HandlerTypeOK ==
  ASSUME TypeOK, NEW k \in Clients, HandlerStep(k) PROVE TypeOK'
  <1>1. handler[k] \in Requests /\ handler[k].ver \in Nat
        /\ handler[k].ok \in SUBSET Calls /\ handler[k].no \in SUBSET Calls
    BY DEF TypeOK, Requests
  <1>2. [handler EXCEPT ![k] = NoRequest] \in [Clients -> Requests]
    BY NoRequestType DEF TypeOK
  <1>3. CASE SpawnDecided(k)
    <2>1. task' \in Tasks
      BY <1>1, <1>3, SpawnedType DEF SpawnDecided, TypeOK
    <2> QED BY <1>2, <1>3, <2>1 DEF SpawnDecided, TypeOK, store, history
  <1>4. CASE FreezeContext(k)
    <2>1. [NoRequest EXCEPT !.pc = "spawn"] \in Requests
      BY NoRequestType DEF Requests
    <2>2. handler' \in [Clients -> Requests]
      BY <1>2, <1>4, <2>1 DEF FreezeContext, TypeOK
    <2>3. run' \in [state : States, version : Nat, stop : StopReasons]
      BY <1>4 DEF FreezeContext, TypeOK
    <2> QED BY <1>4, <2>2, <2>3 DEF FreezeContext, TypeOK, history
  <1>5. CASE LogCancelled(k)
    <2>1. [handler EXCEPT ![k].pc = "cancelCas"] \in [Clients -> Requests]
      BY DEF TypeOK, Requests
    <2> QED BY <1>5, <2>1 DEF LogCancelled, TypeOK, history
  <1>6. CASE CancelProposedRun(k)
    <2>1. run' \in [state : States, version : Nat, stop : StopReasons]
      BY <1>1, <1>6 DEF CancelProposedRun, TransitionRun, TypeOK, States, StopReasons
    <2> QED BY <1>2, <1>6, <2>1 DEF CancelProposedRun, TypeOK, history
  <1> QED BY <1>3, <1>4, <1>5, <1>6 DEF HandlerStep

LEMMA EnvironmentTypeOK ==
  ASSUME TypeOK, ApprovalLapses \/ CoreRestarts PROVE TypeOK'
  <1>1. CASE ApprovalLapses
    <2>1. snapshot' \in [covered : Nat, doc : Checkpoints]
      BY <1>1 DEF ApprovalLapses, TypeOK, Checkpoints
    <2> QED BY <1>1, <2>1 DEF ApprovalLapses, TypeOK, history
  <1>2. CASE CoreRestarts
    <2>1. approvals' \in [Calls -> Decisions]
      BY <1>2 DEF CoreRestarts, TypeOK, Decisions
    <2>2. handler' \in [Clients -> Requests] /\ crashes' \in Nat
      BY <1>2, NoRequestType DEF CoreRestarts, TypeOK
    <2>3. stranded' \subseteq Calls \cup {NoCall}
      BY <1>2, TaskFields DEF CoreRestarts, TypeOK, CutOff, Checkpoints
    <2> QED BY <1>2, <2>1, <2>2, <2>3, NoTaskType DEF CoreRestarts, TypeOK
  <1> QED BY <1>1, <1>2

-----------------------------------------------------------------------------
(* The other invariants: what the actions of the task have in common *)

LEMMA Points ==
  LoadedPcs = {"claim", "startEvent", "resume", "invoke", "observe", "refused",
               "loop", "modelEvent", "model", "calls", "askEvent", "askCas",
               "reissueEvent", "finishEvent", "finishCas", "reissueSave",
               "startSave", "resumedSave", "callSave", "loopSave", "retrySave",
               "askSave", "finishSave"}
  BY AfterSavePoints DEF LoadedPcs, AgentPcs

\* The points before which the agent has appended no event.
Unlogged == {"claim", "startEvent", "reissueEvent", "finishEvent"}

\* The agent goes on with a run that it has claimed, and writes neither the run
\* nor the checkpoint.
LEMMA OwnerMoves ==
  ASSUME IndInv, TypeOK',
         task.pc \in LoadedPcs, task.st = "running",
         task'.pc \in LoadedPcs \ ({"claim"} \cup ReissuePcs),
         task'.st = task.st, task'.ver = task.ver, task'.exp = task.exp,
         task'.last <= seq', seq' \in {seq, seq + 1},
         task'.pc \notin Unlogged => seq' > 0,
         task'.pc \in {"invoke", "observe", "refused"} => task'.batch # <<>>,
         UNCHANGED <<run, snapshot, handler>>,
         \A c \in Calls : approvals[c] # "none" => approvals'[c] # "none",
         task'.pc \in {"askEvent", "askSave"} =>
             task'.ck.pending \in Calls /\ approvals'[task'.ck.pending] # "none",
         task'.pc # "askCas"
  PROVE  IndInv'
  <1>1. run.state = "running" /\ run.version = task.ver
    BY Points DEF IndInv, VersionInv, PointInv
  <1>2. PointInv'
    BY Points DEF PointInv, ReissuePcs, FinishPcs
  <1>3. VersionInv'
    BY <1>1, Points DEF IndInv, VersionInv, Fresher
  <1>4. CheckpointInv'
    BY Points DEF IndInv, CheckpointInv, Unlogged
  <1>5. WaitInv'
    BY <1>1, Points
    DEF IndInv, WaitInv, WaitingRunNamesItsCall, Asked, ReissuePcs, FinishPcs
  <1> QED BY <1>2, <1>3, <1>4, <1>5 DEF IndInv

\* A task that fails keeps nothing of what it knew.
LEMMA FailInv ==
  ASSUME IndInv, TypeOK', task'.pc \in {"mark", "exit", "idle"},
         UNCHANGED <<run, seq, snapshot, approvals, handler>>
  PROVE  IndInv'
  <1>1. PointInv'
    BY Points DEF PointInv, ReissuePcs, FinishPcs
  <1>2. VersionInv'
    BY Points DEF IndInv, VersionInv, Fresher
  <1>3. CheckpointInv'
    BY Points DEF IndInv, CheckpointInv
  <1>4. WaitInv'
    BY Points
    DEF IndInv, WaitInv, WaitingRunNamesItsCall, Asked, ReissuePcs, FinishPcs
  <1> QED BY <1>1, <1>2, <1>3, <1>4 DEF IndInv

\* What the task knows wherever it is in the loop.
LoopPcs == LoadedPcs \ ({"claim"} \cup ReissuePcs \cup FinishPcs)

LEMMA InLoop ==
  ASSUME IndInv, task.pc \in LoopPcs
  PROVE  /\ task \in Tasks /\ seq \in Nat
         /\ task.pc \in LoadedPcs /\ task.st = "running"
         /\ task.last <= seq
         /\ task.pc # "startEvent" => seq > 0
  BY Points DEF IndInv, TypeOK, PointInv, CheckpointInv, LoopPcs, ReissuePcs, FinishPcs

\* A step without an event to another point of the loop, or to its end.
LEMMA OwnerGoes ==
  ASSUME IndInv, TypeOK', NEW t, Goto(t),
         task.pc \in LoopPcs \ {"startEvent"},
         t.pc \in (LoopPcs \ {"askEvent", "askSave", "askCas"}) \cup {"finishEvent"},
         t.st = task.st, t.ver = task.ver, t.exp = task.exp, t.last = task.last,
         t.pc \in {"invoke", "observe", "refused"} => t.batch # <<>>
  PROVE  IndInv'
  <1>1. task' = t /\ UNCHANGED <<run, seq, snapshot, approvals, handler>>
    BY DEF Goto, store
  <1> QED BY <1>1, InLoop, Points, OwnerMoves DEF LoopPcs, ReissuePcs, FinishPcs

\* A step that appends an event; the next point may save a checkpoint.
LEMMA OwnerAppends ==
  ASSUME IndInv, TypeOK', NEW t, AppendEvent(t) \/ AppendReply(t),
         DOMAIN t = DOMAIN task,
         task.pc \in LoopPcs,
         t.pc \in (LoopPcs \ {"askEvent", "askSave", "askCas"}) \cup {"finishEvent"},
         t.st = task.st, t.ver = task.ver, t.exp = task.exp,
         t.pc \in {"invoke", "observe", "refused"} => t.batch # <<>>
  PROVE  IndInv'
  <1>1. task \in Tasks /\ seq \in Nat
    BY InLoop
  <1>2. /\ task'.pc = t.pc /\ task'.st = t.st /\ task'.ver = t.ver
        /\ task'.exp = t.exp /\ task'.batch = t.batch /\ task'.last = seq'
        /\ seq' = seq + 1 /\ seq' > 0 /\ task'.last <= seq'
    <2>1. task' = [t EXCEPT !.last = seq + 1] /\ seq' = seq + 1
      BY DEF AppendEvent, AppendReply
    <2>2. DOMAIN t = {"pc", "st", "ver", "exp", "last", "ck", "ok", "no",
                      "batch", "resumed", "fin"}
      BY <1>1 DEF Tasks
    <2> QED BY <1>1, <2>1, <2>2
  <1>3. UNCHANGED <<run, snapshot, approvals, handler>>
    BY DEF AppendEvent, AppendReply
  <1> QED BY <1>2, <1>3, InLoop, Points, OwnerMoves DEF LoopPcs, ReissuePcs, FinishPcs

LEMMA EnterLoopInv ==
  ASSUME IndInv, TypeOK', EnterLoop PROVE IndInv'
  <1>1. task \in Tasks /\ task.pc = "loop"
    BY DEF IndInv, TypeOK, EnterLoop
  <1>2. PICK t : /\ Goto(t)
                 /\ \/ t = [task EXCEPT !.pc = "loopSave"]
                    \/ \E reason : t = Finish(task, reason)
    BY DEF EnterLoop
  <1>3. /\ t.pc \in {"loopSave", "finishEvent"}
        /\ t.st = task.st /\ t.ver = task.ver /\ t.exp = task.exp
        /\ t.last = task.last
    BY <1>1, <1>2 DEF Tasks, Finish
  <1> QED BY <1>1, <1>2, <1>3, Points, OwnerGoes DEF LoopPcs, ReissuePcs, FinishPcs

LEMMA PreemptModelInv ==
  ASSUME IndInv, TypeOK', PreemptModel PROVE IndInv'
  <1>1. task \in Tasks /\ task.pc = "model"
    BY DEF IndInv, TypeOK, PreemptModel
  <1>2. PICK reason : Goto(Finish(task, reason))
    BY DEF PreemptModel
  <1> DEFINE t == Finish(task, reason)
  <1>3. /\ t.pc = "finishEvent" /\ t.st = task.st /\ t.ver = task.ver
        /\ t.exp = task.exp /\ t.last = task.last
    BY <1>1 DEF Tasks, Finish
  <1> QED BY <1>1, <1>2, <1>3, Points, OwnerGoes DEF LoopPcs, ReissuePcs, FinishPcs

LEMMA FailProviderInv ==
  ASSUME IndInv, TypeOK', FailProvider PROVE IndInv'
  <1>1. task \in Tasks /\ task.pc = "model"
    BY DEF IndInv, TypeOK, FailProvider
  <1>2. PICK reason : AppendEvent(Finish(task, reason))
    BY DEF FailProvider
  <1> DEFINE t == Finish(task, reason)
  <1>3. /\ t.pc = "finishEvent" /\ t.st = task.st /\ t.ver = task.ver
        /\ t.exp = task.exp /\ DOMAIN t = DOMAIN task
    BY <1>1 DEF Tasks, Finish
  <1> QED BY <1>1, <1>2, <1>3, Points, OwnerAppends DEF LoopPcs, ReissuePcs, FinishPcs

LEMMA RetryProviderInv ==
  ASSUME IndInv, TypeOK', RetryProvider PROVE IndInv'
  <1>1. task \in Tasks /\ task.pc = "model"
    BY DEF IndInv, TypeOK, RetryProvider
  <1> DEFINE t == [task EXCEPT !.pc = "retrySave", !.ck.retries = @ + 1]
  <1>2. AppendEvent(t)
    BY DEF RetryProvider
  <1>3. /\ t.pc = "retrySave" /\ t.st = task.st /\ t.ver = task.ver
        /\ t.exp = task.exp /\ DOMAIN t = DOMAIN task
    BY <1>1 DEF Tasks
  <1> HIDE DEF t
  <1> QED BY <1>1, <1>2, <1>3, Points, OwnerAppends DEF LoopPcs, ReissuePcs, FinishPcs

LEMMA ReceiveReplyInv ==
  ASSUME IndInv, TypeOK', ReceiveReply PROVE IndInv'
  <1>1. task \in Tasks /\ task.pc = "model"
    BY DEF IndInv, TypeOK, ReceiveReply
  <1>2. PICK used, reply, reason :
          LET u == [task EXCEPT !.ck.iters = @ + 1, !.ck.retries = 0,
                                !.ck.usage = @ + used]
          IN  AppendReply(Finish(u, reason))
              \/ AppendReply([u EXCEPT !.pc = "calls", !.batch = reply])
    BY DEF ReceiveReply
  <1> DEFINE u == [task EXCEPT !.ck.iters = @ + 1, !.ck.retries = 0,
                               !.ck.usage = @ + used]
  <1>3. PICK t : /\ AppendReply(t)
                 /\ \/ t = Finish(u, reason)
                    \/ t = [u EXCEPT !.pc = "calls", !.batch = reply]
    BY <1>2
  <1>4. /\ t.pc \in {"calls", "finishEvent"} /\ t.st = task.st
        /\ t.ver = task.ver /\ t.exp = task.exp /\ DOMAIN t = DOMAIN task
    BY <1>1, <1>3 DEF Tasks, Finish
  <1> QED BY <1>1, <1>3, <1>4, Points, OwnerAppends DEF LoopPcs, ReissuePcs, FinishPcs

LEMMA RefuseToolInv ==
  ASSUME IndInv, TypeOK', RefuseTool PROVE IndInv'
  <1>1. task \in Tasks /\ task.pc = "invoke" /\ task.batch # <<>>
    BY DEF IndInv, TypeOK, PointInv, RefuseTool
  <1> DEFINE t == [task EXCEPT !.pc = "refused"]
  <1>2. Goto(t)
    BY DEF RefuseTool
  <1>3. /\ t.pc = "refused" /\ t.st = task.st /\ t.ver = task.ver
        /\ t.exp = task.exp /\ t.last = task.last /\ t.batch # <<>>
    BY <1>1 DEF Tasks
  <1> HIDE DEF t
  <1> QED BY <1>1, <1>2, <1>3, Points, OwnerGoes DEF LoopPcs, ReissuePcs, FinishPcs

LEMMA InvokeToolInv ==
  ASSUME IndInv, TypeOK', InvokeTool PROVE IndInv'
  <1>1. task \in Tasks /\ task.pc = "invoke" /\ task.batch # <<>>
    BY DEF IndInv, TypeOK, PointInv, InvokeTool
  <1>2. /\ task'.pc = "observe" /\ task'.st = task.st /\ task'.ver = task.ver
        /\ task'.exp = task.exp /\ task'.last = task.last /\ task'.batch # <<>>
    BY <1>1 DEF Tasks, InvokeTool
  <1>3. UNCHANGED <<run, seq, snapshot, approvals, handler>>
    BY DEF InvokeTool, store
  <1> QED BY <1>1, <1>2, <1>3, InLoop, Points, OwnerMoves
      DEF LoopPcs, ReissuePcs, FinishPcs

LEMMA RecordObservationInv ==
  ASSUME IndInv, TypeOK', RecordObservation PROVE IndInv'
  <1>1. task \in Tasks /\ task.pc \in {"observe", "refused"}
    BY DEF IndInv, TypeOK, RecordObservation
  <1>2. PICK repairs, fin :
          AppendEvent([task EXCEPT !.pc = AfterCall(repairs),
                                   !.ck.repairs = repairs,
                                   !.batch = Tail(task.batch),
                                   !.resumed = FALSE, !.fin = fin])
    BY DEF RecordObservation
  <1> DEFINE t == [task EXCEPT !.pc = AfterCall(repairs),
                               !.ck.repairs = repairs,
                               !.batch = Tail(task.batch),
                               !.resumed = FALSE, !.fin = fin]
  <1>3. /\ t.pc \in {"resumedSave", "finishEvent", "callSave"}
        /\ t.st = task.st /\ t.ver = task.ver
        /\ t.exp = task.exp /\ DOMAIN t = DOMAIN task
    BY <1>1 DEF Tasks, AfterCall
  <1>4. AppendEvent(t)
    BY <1>2
  <1> HIDE DEF t
  <1> QED BY <1>1, <1>3, <1>4, Points, OwnerAppends DEF LoopPcs, ReissuePcs, FinishPcs

LEMMA ResumePendingInv ==
  ASSUME IndInv, TypeOK', ResumePending PROVE IndInv'
  <1>1. task \in Tasks /\ task.pc = "resume"
    BY DEF IndInv, TypeOK, ResumePending
  <1>2. CASE Fail
    <2>1. task'.pc = "mark"
      BY <1>1, <1>2 DEF Tasks, Fail, Goto
    <2> QED BY <1>2, <2>1, FailInv DEF Fail, Goto, store
  <1>3. CASE ~Fail
    <2>1. PICK t : /\ Goto(t)
                   /\ \/ t = [task EXCEPT !.pc = "loop"]
                      \/ t = [task EXCEPT !.pc = "invoke", !.resumed = TRUE,
                                   !.batch = <<task.ck.pending>>,
                                   !.ck.pending = NoCall, !.ck.lapsed = FALSE]
      BY <1>3 DEF ResumePending
    <2>2. /\ t.pc \in {"loop", "invoke"} /\ t.st = task.st /\ t.ver = task.ver
          /\ t.exp = task.exp /\ t.last = task.last
          /\ t.pc = "invoke" => t.batch = <<task.ck.pending>>
      BY <1>1, <2>1 DEF Tasks
    <2>3. <<task.ck.pending>> # <<>>
      OBVIOUS
    <2> QED BY <1>1, <2>1, <2>2, <2>3, Points, OwnerGoes
        DEF LoopPcs, ReissuePcs, FinishPcs
  <1> QED BY <1>2, <1>3

LEMMA TakeCallInv ==
  ASSUME IndInv, TypeOK', TakeCall PROVE IndInv'
  <1>1. task \in Tasks /\ task.pc = "calls"
    BY DEF IndInv, TypeOK, TakeCall
  <1>2. CASE \/ Goto([task EXCEPT !.pc = "loop"])
             \/ task.batch # <<>> /\ Goto([task EXCEPT !.pc = "invoke"])
    <2>1. PICK t : /\ Goto(t)
                   /\ \/ t = [task EXCEPT !.pc = "loop"]
                      \/ task.batch # <<>> /\ t = [task EXCEPT !.pc = "invoke"]
      BY <1>2
    <2>2. /\ t.pc \in {"loop", "invoke"} /\ t.st = task.st /\ t.ver = task.ver
          /\ t.exp = task.exp /\ t.last = task.last
          /\ t.pc = "invoke" => t.batch # <<>>
      BY <1>1, <2>1 DEF Tasks
    <2> QED BY <1>1, <2>1, <2>2, Points, OwnerGoes DEF LoopPcs, ReissuePcs, FinishPcs
  <1>3. CASE AppendEvent([task EXCEPT !.ck.repairs = @ + 1, !.batch = Tail(@)])
    <2> DEFINE t == [task EXCEPT !.ck.repairs = @ + 1, !.batch = Tail(@)]
    <2>1. /\ t.pc = "calls" /\ t.st = task.st /\ t.ver = task.ver
          /\ t.exp = task.exp /\ DOMAIN t = DOMAIN task
      BY <1>1 DEF Tasks
    <2>2. AppendEvent(t)
      BY <1>3
    <2> HIDE DEF t
    <2> QED BY <1>1, <2>1, <2>2, Points, OwnerAppends DEF LoopPcs, ReissuePcs, FinishPcs
  <1>4. CASE /\ NextCall \in Calls \ task.ok
             /\ approvals' = [approvals EXCEPT ![NextCall] =
                                  IF @ = "none" THEN "pending" ELSE @]
             /\ task' = [task EXCEPT !.pc = "askEvent", !.batch = <<>>,
                                     !.ck.pending = NextCall, !.ck.lapsed = FALSE]
             /\ UNCHANGED <<run, seq, snapshot, cancel, handler, executed, history>>
    <2> DEFINE call == NextCall
    <2>0. call \in Calls
      BY <1>4
    <2>1. /\ approvals' = [approvals EXCEPT ![call] =
                                IF @ = "none" THEN "pending" ELSE @]
          /\ task' = [task EXCEPT !.pc = "askEvent", !.batch = <<>>,
                                  !.ck.pending = call, !.ck.lapsed = FALSE]
      BY <1>4
    <2> HIDE DEF call
    <2>2. /\ task'.pc = "askEvent" /\ task'.st = task.st /\ task'.ver = task.ver
          /\ task'.exp = task.exp /\ task'.last = task.last
          /\ task'.ck.pending = call
      BY <1>1, <2>1 DEF Tasks, Checkpoints
    <2>3. /\ approvals'[call] # "none"
          /\ \A c \in Calls : approvals[c] # "none" => approvals'[c] # "none"
      BY <2>0, <2>1 DEF IndInv, TypeOK
    <2>4. UNCHANGED <<run, seq, snapshot, handler>>
      BY <1>4
    <2> QED BY <1>1, <2>0, <2>2, <2>3, <2>4, InLoop, Points, OwnerMoves
        DEF LoopPcs, ReissuePcs, FinishPcs
  <1> QED BY <1>2, <1>3, <1>4 DEF TakeCall

-----------------------------------------------------------------------------
(* The actions that take the run, save its checkpoint and settle it *)

LEMMA LoadRunInv ==
  ASSUME IndInv, TypeOK', LoadRun PROVE IndInv'
  <1>1. /\ task \in Tasks /\ task.pc = "load" /\ seq \in Nat
        /\ run.version \in Nat
    BY DEF IndInv, TypeOK, LoadRun
  <1>2. \A pc, ck : LET t == Loaded(pc, ck)
                   IN  /\ t.pc = pc /\ t.st = run.state /\ t.ver = run.version
                       /\ t.exp = snapshot.covered /\ t.last = seq /\ t.ck = ck
    BY <1>1 DEF Loaded, Tasks
  <1>3. CASE \/ Goto(Loaded("mark", Stored)) \/ Goto(Loaded("exit", Stored))
    <2>1. task'.pc \in {"mark", "exit"}
      BY <1>2, <1>3 DEF Goto
    <2> QED BY <1>3, <2>1, FailInv DEF Goto, store
  <1>4. CASE /\ run.state \in {"proposed", "retryable", "awaiting_approval"}
                 \/ LegacyWallTimeRetry
             /\ Goto(Loaded("claim", Stored))
    <2>1. /\ task'.pc = "claim" /\ task'.st = run.state /\ task'.ver = run.version
          /\ task'.exp = snapshot.covered /\ task'.last = seq
          /\ UNCHANGED <<run, seq, snapshot, approvals, handler>>
      BY <1>2, <1>4 DEF Goto, store
    <2>2. PointInv'
      BY <1>4, <2>1, Points DEF PointInv, ReissuePcs, FinishPcs, LegacyWallTimeRetry
    <2>3. VersionInv'
      BY <1>1, <1>4, <2>1, Points DEF VersionInv, Fresher, IndInv, LegacyWallTimeRetry
    <2>4. CheckpointInv'
      BY <1>1, <2>1, Points DEF CheckpointInv
    <2>5. WaitInv'
      BY <2>1, Points
      DEF IndInv, WaitInv, WaitingRunNamesItsCall, Asked, ReissuePcs, FinishPcs
    <2> QED BY <2>2, <2>3, <2>4, <2>5 DEF IndInv
  <1>5. CASE /\ run.state = "awaiting_approval"
             /\ Stored.pending \in Calls
             /\ \/ Goto(Finish(Loaded("load", Stored), "approval_denied"))
                \/ /\ approvals' = [approvals EXCEPT ![Stored.pending] =
                                        IF @ = "none" THEN "pending" ELSE @]
                   /\ task' = Loaded("reissueEvent", [Stored EXCEPT !.lapsed = FALSE])
                   /\ UNCHANGED <<run, seq, snapshot, cancel, handler, executed, history>>
    <2>1. Stored = snapshot.doc
      BY <1>5 DEF Stored, NewCheckpoint
    <2>2. Asked(Stored.pending)
      BY <1>5, <2>1 DEF IndInv, WaitInv, WaitingRunNamesItsCall, Asked
    <2>3. /\ task'.pc \in {"finishEvent", "reissueEvent"}
          /\ task'.st = run.state /\ task'.ver = run.version
          /\ task'.exp = snapshot.covered /\ task'.last = seq
          /\ task'.ck.pending = Stored.pending
          /\ task'.pc = "finishEvent" => task'.fin = "approval_denied"
      <3>1. CASE Goto(Finish(Loaded("load", Stored), "approval_denied"))
        BY <1>1, <3>1 DEF Goto, Finish, Loaded, Tasks
      <3>2. CASE task' = Loaded("reissueEvent", [Stored EXCEPT !.lapsed = FALSE])
        <4> DEFINE ck == [Stored EXCEPT !.lapsed = FALSE]
        <4>1. Stored \in Checkpoints
          BY StoredType DEF IndInv
        <4>2. ck.pending = Stored.pending
          BY <4>1 DEF Checkpoints
        <4>3. task' = Loaded("reissueEvent", ck)
          BY <3>2
        <4> HIDE DEF ck
        <4>4. /\ task'.pc = "reissueEvent" /\ task'.st = run.state
              /\ task'.ver = run.version /\ task'.exp = snapshot.covered
              /\ task'.last = seq /\ task'.ck = ck
          BY <1>2, <4>3
        <4> QED BY <4>2, <4>4
      <3> QED BY <1>5, <3>1, <3>2
    <2>4. /\ UNCHANGED <<run, seq, snapshot, handler>>
          /\ \A c \in Calls : approvals[c] # "none" => approvals'[c] # "none"
      <3>1. CASE Goto(Finish(Loaded("load", Stored), "approval_denied"))
        BY <3>1 DEF Goto, store
      <3>2. CASE /\ approvals' = [approvals EXCEPT ![Stored.pending] =
                                      IF @ = "none" THEN "pending" ELSE @]
                 /\ UNCHANGED <<run, seq, snapshot, handler>>
        BY <1>5, <3>2 DEF IndInv, TypeOK
      <3> QED BY <1>5, <3>1, <3>2
    <2>5. PointInv'
      BY <1>5, <2>3, Points DEF PointInv, ReissuePcs, FinishPcs
    <2>6. VersionInv'
      BY <1>5, <2>3, <2>4, Points DEF IndInv, VersionInv, Fresher
    <2>7. CheckpointInv'
      BY <1>1, <2>3, <2>4, Points DEF CheckpointInv
    <2>8. WaitInv'
      BY <1>5, <2>1, <2>2, <2>3, <2>4, Points
      DEF WaitInv, WaitingRunNamesItsCall, Asked, ReissuePcs, FinishPcs
    <2> QED BY <2>5, <2>6, <2>7, <2>8 DEF IndInv
  <1>6. task.no \subseteq Calls
    BY <1>1 DEF Tasks
  <1>7. \/ /\ run.state \in {"proposed", "retryable"} \/ LegacyWallTimeRetry
           /\ Goto(Loaded("claim", Stored))
        \/ Goto(Loaded("mark", Stored))
        \/ /\ run.state = "awaiting_approval"
           /\ \/ /\ Stored.pending \in task.no
                 /\ Goto(Finish(Loaded("load", Stored), "approval_denied"))
              \/ Goto(Loaded("claim", Stored))
              \/ Goto(Loaded("exit", Stored))
              \/ /\ Stored.pending \in Calls \ (task.ok \cup task.no)
                 /\ approvals' = [approvals EXCEPT ![Stored.pending] =
                                     IF @ = "none" THEN "pending" ELSE @]
                 /\ task' = Loaded("reissueEvent", [Stored EXCEPT !.lapsed = FALSE])
                 /\ UNCHANGED <<run, seq, snapshot, cancel, handler, executed, history>>
    BY Zenon DEF LoadRun
  <1> QED BY <1>3, <1>4, <1>5, <1>6, <1>7

\* A transition makes every version that somebody else has read stale.
LEMMA VersionsGoStale ==
  ASSUME IndInv, NEW version, NEW state, NEW stop,
         TransitionRun(version, state, stop), UNCHANGED handler
  PROVE  \A states : \A k \in Clients :
            handler[k].pc \in {"freeze", "cancelEvent", "cancelCas"} =>
                Fresher(handler[k].ver, states)'
  <1>1. run.version \in Nat /\ run'.version = run.version + 1
    BY DEF IndInv, TypeOK, TransitionRun
  <1>2. \A k \in Clients : handler[k].ver \in Nat
    BY DEF IndInv, TypeOK, Requests
  <1> QED BY <1>1, <1>2 DEF IndInv, VersionInv, Fresher

LEMMA ClaimRunningInv ==
  ASSUME IndInv, TypeOK', ClaimRunning PROVE IndInv'
  <1>1. task \in Tasks /\ task.pc = "claim" /\ run.version \in Nat
    BY DEF IndInv, TypeOK, ClaimRunning
  <1>2. CASE run.version = task.ver
    <2>1. /\ TransitionRun(task.ver, "running", "none")
          /\ task' = [task EXCEPT !.pc = "startEvent", !.st = "running",
                                  !.ver = task.ver + 1]
          /\ UNCHANGED <<seq, snapshot, approvals, handler>>
      BY <1>2 DEF ClaimRunning, TransitionTo
    <2>2. /\ task'.pc = "startEvent" /\ task'.st = "running"
          /\ task'.ver = task.ver + 1 /\ task'.exp = task.exp
          /\ task'.last = task.last
      BY <1>1, <2>1 DEF Tasks
    <2>3. run'.state = "running" /\ run'.version = task'.ver
      BY <2>1, <2>2 DEF TransitionRun
    <2>4. PointInv'
      BY <2>2, Points DEF PointInv, ReissuePcs, FinishPcs
    <2>5. VersionInv'
      BY <2>1, <2>2, <2>3, VersionsGoStale, Points DEF VersionInv
    <2>6. CheckpointInv'
      BY <1>1, <2>1, <2>2, Points DEF IndInv, CheckpointInv
    <2>7. WaitInv'
      BY <2>2, <2>3, Points
      DEF WaitInv, WaitingRunNamesItsCall, ReissuePcs, FinishPcs
    <2> QED BY <2>4, <2>5, <2>6, <2>7 DEF IndInv
  <1>3. CASE run.version # task.ver
    <2>1. task'.pc = "mark"
      BY <1>1, <1>3 DEF ClaimRunning, TransitionTo, Fail, Goto, Tasks
    <2> QED BY <1>3, <2>1, FailInv DEF ClaimRunning, TransitionTo, Fail, Goto, store
  <1> QED BY <1>2, <1>3

\* A transition with which the agent is done.
LEMMA LastTransitionInv ==
  ASSUME IndInv, TypeOK', task.pc \in LoadedPcs \ {"claim"},
         NEW state, NEW stop,
         TransitionTo([task EXCEPT !.pc = "exit"], state, stop),
         state = "awaiting_approval" => Asked(snapshot.doc.pending)
  PROVE  IndInv'
  <1>1. task \in Tasks
    BY DEF IndInv, TypeOK
  <1>2. CASE run.version = task.ver
    <2>1. /\ TransitionRun(task.ver, state, stop)
          /\ task' = [task EXCEPT !.pc = "exit"]
          /\ UNCHANGED <<seq, snapshot, approvals, handler>>
      BY <1>2 DEF TransitionTo
    <2>2. task'.pc = "exit" /\ run'.state = state
      BY <1>1, <2>1 DEF Tasks, TransitionRun
    <2>3. PointInv' /\ CheckpointInv'
      BY <2>2, Points DEF PointInv, CheckpointInv, ReissuePcs, FinishPcs
    <2>4. VersionInv'
      BY <2>1, <2>2, VersionsGoStale, Points DEF VersionInv
    <2>5. WaitInv'
      BY <2>1, <2>2, Points
      DEF WaitInv, WaitingRunNamesItsCall, Asked, ReissuePcs, FinishPcs
    <2> QED BY <2>3, <2>4, <2>5 DEF IndInv
  <1>3. CASE run.version # task.ver
    <2>1. task'.pc = "mark"
      BY <1>1, <1>3 DEF TransitionTo, Fail, Goto, Tasks
    <2> QED BY <1>3, <2>1, FailInv DEF TransitionTo, Fail, Goto, store
  <1> QED BY <1>2, <1>3

LEMMA AwaitApprovalInv ==
  ASSUME IndInv, TypeOK', AwaitApproval PROVE IndInv'
  <1>1. task.pc = "askCas"
    BY DEF AwaitApproval
  <1>2. Asked(snapshot.doc.pending)
    BY <1>1 DEF IndInv, WaitInv
  <1> QED BY <1>1, <1>2, Points, LastTransitionInv DEF AwaitApproval

LEMMA SettleRunInv ==
  ASSUME IndInv, TypeOK', SettleRun PROVE IndInv'
  <1>1. task.pc = "finishCas" /\ StateOf(task.fin) # "awaiting_approval"
    BY DEF SettleRun, StateOf
  <1> QED BY <1>1, Points, LastTransitionInv DEF SettleRun

LEMMA AppendLifecycleEventInv ==
  ASSUME IndInv, TypeOK', AppendLifecycleEvent PROVE IndInv'
  <1>1. task \in Tasks /\ seq \in Nat /\ run.version \in Nat
    BY DEF IndInv, TypeOK
  <1>2. PICK pc : /\ AppendEvent([task EXCEPT !.pc = pc])
                  /\ \/ task.pc = "startEvent" /\ pc = "startSave"
                     \/ task.pc = "askEvent" /\ pc = "askSave"
                     \/ task.pc = "reissueEvent" /\ pc = "reissueSave"
                     \/ task.pc = "finishEvent" /\ pc = "finishSave"
                     \/ task.pc = "modelEvent" /\ pc = "model"
    BY Zenon DEF AppendLifecycleEvent
  <1>3. /\ task'.pc = pc /\ task'.st = task.st /\ task'.ver = task.ver
        /\ task'.exp = task.exp /\ task'.last = seq + 1 /\ seq' = seq + 1
        /\ task'.ck = task.ck /\ task'.fin = task.fin
        /\ UNCHANGED <<run, snapshot, approvals, handler>>
    BY <1>1, <1>2 DEF AppendEvent, Tasks
  <1>4. PointInv'
    BY <1>2, <1>3, Points DEF IndInv, PointInv, ReissuePcs, FinishPcs
  <1>5. VersionInv'
    BY <1>2, <1>3, <1>4, Points
    DEF IndInv, PointInv, VersionInv, Fresher, ReissuePcs, FinishPcs
  <1>6. CheckpointInv'
    BY <1>1, <1>2, <1>3, Points DEF IndInv, CheckpointInv
  <1>7. WaitInv'
    BY <1>2, <1>3, Points
    DEF IndInv, WaitInv, WaitingRunNamesItsCall, Asked, ReissuePcs, FinishPcs
  <1> QED BY <1>4, <1>5, <1>6, <1>7 DEF IndInv

LEMMA SaveCheckpointInv ==
  ASSUME IndInv, TypeOK', SaveCheckpoint PROVE IndInv'
  <1>1. task \in Tasks /\ task.pc \in DOMAIN AfterSave
    BY DEF IndInv, TypeOK, SaveCheckpoint
  <1>2. CASE snapshot.covered = task.exp /\ seq > 0 /\ task.last <= seq
    <2> DEFINE pc == AfterSave[task.pc]
    <2>1. /\ snapshot' = [covered |-> task.last, doc |-> task.ck]
          /\ task' = [task EXCEPT !.pc = pc, !.exp = task.last]
          /\ UNCHANGED <<run, seq, approvals, handler>>
      BY <1>2 DEF SaveCheckpoint
    <2>2. \/ task.pc = "reissueSave" /\ pc = "exit"
          \/ task.pc = "askSave" /\ pc = "askCas"
          \/ task.pc = "finishSave" /\ pc = "finishCas"
          \/ /\ task.pc \in {"startSave", "resumedSave", "callSave",
                              "loopSave", "retrySave"}
             /\ pc \in {"resume", "loop", "calls", "modelEvent"}
      BY <1>1, AfterSavePoints
    <2> HIDE DEF pc
    <2>3. /\ task'.pc = pc /\ task'.st = task.st /\ task'.ver = task.ver
          /\ task'.exp = task.last /\ task'.last = task.last
          /\ task'.ck = task.ck /\ task'.fin = task.fin
          /\ snapshot'.covered = task.last /\ snapshot'.doc = task.ck
      BY <1>1, <2>1 DEF Tasks
    <2>4. PointInv'
      BY <2>2, <2>3, Points DEF IndInv, PointInv, ReissuePcs, FinishPcs
    <2>5. VersionInv'
      BY <2>1, <2>2, <2>3, <2>4, Points
      DEF IndInv, PointInv, VersionInv, Fresher, ReissuePcs, FinishPcs
    <2>6. CheckpointInv'
      BY <1>2, <2>1, <2>2, <2>3, Points DEF IndInv, CheckpointInv
    <2>7. task.pc \in LoadedPcs \ {"claim"} /\ task.st = run.state
      BY <2>2, Points DEF IndInv, PointInv, VersionInv
    <2>8. run.state = "awaiting_approval" => Asked(task.ck.pending)
      BY <2>2, <2>7, Points DEF IndInv, PointInv, WaitInv, ReissuePcs, FinishPcs
    <2>9. WaitInv'
      BY <2>1, <2>2, <2>3, <2>8, Points
      DEF IndInv, WaitInv, WaitingRunNamesItsCall, Asked, ReissuePcs, FinishPcs
    <2> QED BY <2>4, <2>5, <2>6, <2>9 DEF IndInv
  <1>3. CASE ~(snapshot.covered = task.exp /\ seq > 0 /\ task.last <= seq)
    <2>1. task'.pc = "mark"
      BY <1>1, <1>3 DEF SaveCheckpoint, Fail, Goto, Tasks
    <2> QED BY <1>3, <2>1, FailInv DEF SaveCheckpoint, Fail, Goto, store
  <1> QED BY <1>2, <1>3

\* What holds of a task that is not in the agent, whatever it knows.
LEMMA OutsideAgent ==
  ASSUME task'.pc \notin AgentPcs
  PROVE  PointInv' /\ CheckpointInv'
  BY Points DEF PointInv, CheckpointInv, ReissuePcs, FinishPcs, AgentPcs, LoadedPcs

LEMMA MarkRuntimeFailureInv ==
  ASSUME IndInv, TypeOK', MarkRuntimeFailure PROVE IndInv'
  <1>1. /\ task \in Tasks /\ run.version \in Nat
        /\ task'.pc \in {"markEvent", "markCas", "exit"}
    BY DEF IndInv, TypeOK, MarkRuntimeFailure, Goto, AppendEvent, Tasks
  <1>2. PointInv' /\ CheckpointInv'
    BY <1>1, AfterSavePoints, OutsideAgent DEF AgentPcs
  <1>3. CASE task.pc = "mark"
    <2>1. /\ UNCHANGED <<run, snapshot, approvals, handler>>
          /\ task'.pc = "markEvent" =>
                task'.ver = run.version /\ run.state \in {"running", "proposed"}
          /\ task'.pc \in {"markEvent", "exit"}
      BY <1>1, <1>3 DEF MarkRuntimeFailure, Goto, Tasks, store
    <2>2. VersionInv'
      BY <1>1, <2>1, Points DEF IndInv, VersionInv, Fresher
    <2>3. WaitInv'
      BY <2>1, Points DEF IndInv, WaitInv, WaitingRunNamesItsCall, Asked,
                          ReissuePcs, FinishPcs
    <2> QED BY <1>2, <2>2, <2>3 DEF IndInv
  <1>4. CASE task.pc = "markEvent"
    <2>1. /\ UNCHANGED <<run, snapshot, approvals, handler>>
          /\ task'.pc = "markCas" /\ task'.ver = task.ver
      BY <1>1, <1>4 DEF MarkRuntimeFailure, AppendEvent, Tasks
    <2>2. VersionInv'
      BY <1>4, <2>1, Points DEF IndInv, VersionInv, Fresher
    <2>3. WaitInv'
      BY <2>1, Points DEF IndInv, WaitInv, WaitingRunNamesItsCall, Asked,
                          ReissuePcs, FinishPcs
    <2> QED BY <1>2, <2>2, <2>3 DEF IndInv
  <1>5. CASE task.pc = "markCas"
    <2>1. /\ task'.pc = "exit" /\ UNCHANGED <<snapshot, approvals, handler>>
          /\ TransitionRun(task.ver, "retryable", "runtime_error") \/ UNCHANGED run
      BY <1>1, <1>5 DEF MarkRuntimeFailure, Tasks
    <2>2. VersionInv'
      BY <2>1, VersionsGoStale, Points DEF IndInv, VersionInv, Fresher, LegacyWallTimeRetry
    <2>3. WaitInv'
      BY <2>1, Points DEF IndInv, WaitInv, WaitingRunNamesItsCall, Asked,
                          ReissuePcs, FinishPcs, TransitionRun
    <2> QED BY <1>2, <2>2, <2>3 DEF IndInv
  <1> QED BY <1>3, <1>4, <1>5 DEF MarkRuntimeFailure

LEMMA TaskStepInv ==
  ASSUME IndInv, TypeOK', TaskStep PROVE IndInv'
  <1>1. CASE ExitTask
    <2>1. task'.pc = "idle"
      BY <1>1 DEF ExitTask, NoTask
    <2> QED BY <1>1, <2>1, FailInv DEF ExitTask, store
  <1> QED
    BY <1>1, LoadRunInv, ClaimRunningInv, AppendLifecycleEventInv,
       SaveCheckpointInv, ResumePendingInv, InvokeToolInv, RefuseToolInv,
       RecordObservationInv, TakeCallInv, AwaitApprovalInv, EnterLoopInv,
       PreemptModelInv, RetryProviderInv, FailProviderInv, ReceiveReplyInv,
       SettleRunInv, MarkRuntimeFailureInv
    DEF TaskStep

LEMMA StorageFaultInv ==
  ASSUME IndInv, TypeOK', StorageFault PROVE IndInv'
  <1>1. /\ task \in Tasks
        /\ UNCHANGED <<run, seq, snapshot, approvals, handler>>
    BY DEF IndInv, TypeOK, StorageFault, store
  <1>2. CASE task'.pc \in {"mark", "exit"}
    BY <1>1, <1>2, FailInv
  <1>3. CASE task.pc = "markEvent" /\ task' = [task EXCEPT !.pc = "markCas"]
    <2>1. task'.pc = "markCas" /\ task'.ver = task.ver
      BY <1>1, <1>3 DEF Tasks
    <2>2. PointInv' /\ CheckpointInv'
      BY <2>1, AfterSavePoints, OutsideAgent DEF AgentPcs
    <2>3. VersionInv'
      BY <1>1, <1>3, <2>1, Points DEF IndInv, VersionInv, Fresher
    <2>4. WaitInv'
      BY <1>1, <2>1, Points DEF IndInv, WaitInv, WaitingRunNamesItsCall, Asked,
                                ReissuePcs, FinishPcs
    <2> QED BY <2>2, <2>3, <2>4 DEF IndInv
  <1> QED BY <1>1, <1>2, <1>3 DEF StorageFault, Tasks

-----------------------------------------------------------------------------
(* The actions of the handlers and of the environment *)

\* A task that has just been spawned knows nothing.
LEMMA SpawnInv ==
  ASSUME IndInv, TypeOK', NEW auth, task' = Spawned(auth),
         UNCHANGED <<run, snapshot, approvals>>,
         \A k \in Clients : handler'[k] = handler[k] \/ handler'[k] = NoRequest
  PROVE  IndInv'
  <1>1. task'.pc = "load" /\ task'.st = "proposed"
    BY DEF Spawned, NoTask
  <1>2. PointInv' /\ CheckpointInv'
    BY <1>1, Points DEF PointInv, CheckpointInv, ReissuePcs, FinishPcs
  <1>3. VersionInv'
    BY <1>1, Points DEF IndInv, VersionInv, Fresher, NoRequest
  <1>4. WaitInv'
    BY <1>1, Points DEF IndInv, WaitInv, WaitingRunNamesItsCall, Asked,
                        ReissuePcs, FinishPcs
  <1> QED BY <1>2, <1>3, <1>4 DEF IndInv

\* A request that leaves the task alone, and the run unless it is proposed and
\* at the version the request has read.
LEMMA RequestMoves ==
  ASSUME IndInv, TypeOK', UNCHANGED <<task, snapshot>>, seq' \in {seq, seq + 1},
         \A c \in Calls : approvals[c] # "none" => approvals'[c] # "none",
         \/ UNCHANGED run
         \/ run.state = "proposed" /\ run'.version = run.version + 1
            /\ run'.state # "awaiting_approval",
         NEW k \in Clients,
         \A i \in Clients \ {k} : handler'[i] = handler[i],
         handler'[k].pc \in {"freeze", "cancelEvent", "cancelCas"} =>
             /\ UNCHANGED run
             /\ Fresher(handler'[k].ver, {"proposed"})
  PROVE  IndInv'
  <1>1. /\ run.version \in Nat /\ seq \in Nat /\ task.ver \in Nat /\ task.last \in Nat
        /\ \A i \in Clients : handler[i].ver \in Nat
    BY DEF IndInv, TypeOK, Tasks, Requests
  <1>2. PointInv'
    BY DEF IndInv, PointInv
  <1>a. \A version \in Nat, states \in {{"proposed"}, {"proposed", "running"}} :
            Fresher(version, states) => Fresher(version, states)'
    BY <1>1 DEF Fresher
  <1>b. \A i \in Clients \ {k} :
            handler'[i].pc \in {"freeze", "cancelEvent", "cancelCas"} =>
                Fresher(handler[i].ver, {"proposed"})'
    <2> SUFFICES ASSUME NEW i \in Clients \ {k},
                        handler'[i].pc \in {"freeze", "cancelEvent", "cancelCas"}
                 PROVE  Fresher(handler[i].ver, {"proposed"})'
      OBVIOUS
    <2>1. handler'[i] = handler[i] /\ Fresher(handler[i].ver, {"proposed"})
      BY DEF IndInv, VersionInv
    <2> QED BY <1>1, <2>1 DEF Fresher
  <1>c. handler'[k].pc \in {"freeze", "cancelEvent", "cancelCas"} =>
            Fresher(handler[k].ver, {"proposed"})'
    BY DEF Fresher
  <1>d. task.pc \in LoadedPcs /\ task.st # "proposed" =>
            run'.version = task.ver /\ run'.state = task.st
    BY DEF IndInv, VersionInv
  <1>e. task.pc = "claim" /\ task.st = "failed" => LegacyWallTimeRetry'
    BY Points DEF IndInv, VersionInv, LegacyWallTimeRetry
  <1>3. VersionInv'
    BY <1>1, <1>a, <1>b, <1>c, <1>d, <1>e DEF IndInv, VersionInv
  <1>4. CheckpointInv'
    BY <1>1 DEF IndInv, CheckpointInv
  <1>5. WaitInv'
    BY DEF IndInv, WaitInv, WaitingRunNamesItsCall, Asked
  <1> QED BY <1>2, <1>3, <1>4, <1>5 DEF IndInv

LEMMA RequestInv ==
  ASSUME IndInv, TypeOK', NEW k \in Clients, RequestStep(k) PROVE IndInv'
  <1>1. handler \in [Clients -> Requests]
    BY DEF IndInv, TypeOK
  <1>2. CASE DecideApproval(k)
    <2>1. /\ \A i \in Clients \ {k} : handler'[i] = handler[i]
          /\ handler'[k].pc = "spawn"
          /\ \A c \in Calls : approvals[c] # "none" => approvals'[c] # "none"
          /\ UNCHANGED <<task, snapshot, seq, run>>
      BY <1>1, <1>2 DEF DecideApproval, IndInv, TypeOK
    <2> QED BY <2>1, RequestMoves
  <1>3. CASE ReadForFreeze(k)
    <2>1. /\ \A i \in Clients \ {k} : handler'[i] = handler[i]
          /\ handler'[k].ver = run.version /\ run.state = "proposed"
          /\ UNCHANGED <<task, snapshot, seq, run, approvals>>
      BY <1>1, <1>3 DEF ReadForFreeze, NoRequest, store
    <2>2. Fresher(handler'[k].ver, {"proposed"})
      BY <2>1 DEF Fresher, IndInv, TypeOK
    <2> QED BY <2>1, <2>2, RequestMoves
  <1>4. CASE RequestCancel(k) /\ task.pc # "idle"
    <2>1. UNCHANGED <<task, snapshot, seq, run, approvals, handler>>
      BY <1>4 DEF RequestCancel, store
    <2>2. handler[k].pc = "idle"
      BY <1>4 DEF RequestCancel
    <2> QED BY <2>1, <2>2, RequestMoves
  <1>5. CASE RequestCancel(k) /\ task.pc = "idle"
    <2>1. /\ \A i \in Clients \ {k} : handler'[i] = handler[i]
          /\ handler'[k].ver = run.version /\ run.state = "proposed"
          /\ UNCHANGED <<task, snapshot, seq, run, approvals>>
      BY <1>1, <1>5 DEF RequestCancel, NoRequest, store
    <2>2. Fresher(handler'[k].ver, {"proposed"})
      BY <2>1 DEF Fresher, IndInv, TypeOK
    <2> QED BY <2>1, <2>2, RequestMoves
  <1> QED BY <1>2, <1>3, <1>4, <1>5 DEF RequestStep

LEMMA HandlerInv ==
  ASSUME IndInv, TypeOK', NEW k \in Clients, HandlerStep(k) PROVE IndInv'
  <1>1. handler \in [Clients -> Requests]
    BY DEF IndInv, TypeOK
  <1>2. CASE SpawnDecided(k)
    <2>1. /\ \A i \in Clients : handler'[i] = handler[i] \/ handler'[i] = NoRequest
          /\ \A i \in Clients \ {k} : handler'[i] = handler[i]
          /\ handler'[k].pc = "idle"
          /\ UNCHANGED <<run, seq, snapshot, approvals>>
      BY <1>1, <1>2 DEF SpawnDecided, store, NoRequest
    <2>2. CASE task.pc = "idle"
      <3>1. task' = Spawned(handler[k])
        BY <1>2, <2>2 DEF SpawnDecided
      <3> QED BY <2>1, <3>1, SpawnInv
    <2>3. CASE task.pc # "idle"
      <3>1. UNCHANGED task
        BY <1>2, <2>3 DEF SpawnDecided
      <3> QED BY <2>1, <3>1, RequestMoves
    <2> QED BY <2>2, <2>3
  <1>3. CASE FreezeContext(k)
    <2>1. /\ \A i \in Clients \ {k} : handler'[i] = handler[i]
          /\ handler'[k].pc \in {"idle", "spawn"}
          /\ UNCHANGED <<task, snapshot, seq, approvals>>
      BY <1>1, <1>3 DEF FreezeContext, NoRequest
    <2>2. \/ UNCHANGED run
          \/ run.state = "proposed" /\ run'.version = run.version + 1
             /\ run'.state # "awaiting_approval"
      BY <1>3 DEF FreezeContext, IndInv, TypeOK
    <2> QED BY <2>1, <2>2, RequestMoves
  <1>4. CASE LogCancelled(k)
    <2>1. /\ \A i \in Clients \ {k} : handler'[i] = handler[i]
          /\ handler'[k].ver = handler[k].ver
          /\ seq' = seq + 1
          /\ UNCHANGED <<task, snapshot, run, approvals>>
      BY <1>1, <1>4 DEF LogCancelled, Requests
    <2>2. Fresher(handler'[k].ver, {"proposed"})
      BY <1>4, <2>1 DEF LogCancelled, IndInv, VersionInv, Fresher
    <2> QED BY <2>1, <2>2, RequestMoves
  <1>5. CASE CancelProposedRun(k)
    <2>1. /\ \A i \in Clients \ {k} : handler'[i] = handler[i]
          /\ handler'[k].pc = "idle"
          /\ UNCHANGED <<task, snapshot, seq, approvals>>
      BY <1>1, <1>5 DEF CancelProposedRun, NoRequest
    <2>2. \/ UNCHANGED run
          \/ run.state = "proposed" /\ run'.version = run.version + 1
             /\ run'.state # "awaiting_approval"
      BY <1>5 DEF CancelProposedRun, TransitionRun, IndInv, VersionInv, Fresher
    <2> QED BY <2>1, <2>2, RequestMoves
  <1> QED BY <1>2, <1>3, <1>4, <1>5 DEF HandlerStep

LEMMA EnvironmentInv ==
  ASSUME IndInv, TypeOK', ApprovalLapses \/ CoreRestarts PROVE IndInv'
  <1>1. CASE ApprovalLapses
    <2>1. /\ snapshot'.covered = snapshot.covered
          /\ snapshot'.doc.pending = snapshot.doc.pending
          /\ UNCHANGED <<run, seq, approvals, task, handler>>
      BY <1>1 DEF ApprovalLapses, IndInv, TypeOK, Checkpoints
    <2> QED BY <2>1 DEF IndInv, PointInv, VersionInv, Fresher, LegacyWallTimeRetry, CheckpointInv,
                        WaitInv, WaitingRunNamesItsCall, Asked
  <1>2. CASE CoreRestarts
    <2>1. /\ task'.pc = "idle"
          /\ \A k \in Clients : handler'[k].pc = "idle"
          /\ \A c \in Calls : approvals[c] # "none" => approvals'[c] # "none"
          /\ UNCHANGED <<run, seq, snapshot>>
      BY <1>2 DEF CoreRestarts, NoTask, NoRequest
    <2>2. PointInv' /\ CheckpointInv' /\ VersionInv'
      BY <2>1, Points DEF PointInv, CheckpointInv, VersionInv, ReissuePcs, FinishPcs
    <2>3. WaitInv'
      BY <2>1, Points DEF IndInv, WaitInv, WaitingRunNamesItsCall, Asked,
                          ReissuePcs, FinishPcs
    <2> QED BY <2>2, <2>3 DEF IndInv
  <1> QED BY <1>1, <1>2

-----------------------------------------------------------------------------
(* The invariant is inductive *)

LEMMA InitInv == Init => IndInv
  <1> SUFFICES ASSUME Init PROVE IndInv
    OBVIOUS
  <1>1. /\ task = NoTask /\ task.pc = "idle"
        /\ \A k \in Clients : handler[k] = NoRequest /\ handler[k].pc = "idle"
    BY DEF Init, NoTask, NoRequest
  <1>2. run.state # "awaiting_approval"
    BY DEF Init
  <1>3. TypeOK
    <2>1. NewCheckpoint \in Checkpoints
      BY DEF NewCheckpoint, Checkpoints
    <2>2. /\ run \in [state : States, version : Nat, stop : StopReasons]
          /\ seq \in Nat
      BY DEF Init, States, StopReasons
    <2>3. snapshot \in [covered : Nat, doc : Checkpoints]
      BY <2>1 DEF Init
    <2>4. approvals \in [Calls -> Decisions] /\ executed \in [Calls -> Nat]
      BY DEF Init, Decisions
    <2>5. handler \in [Clients -> Requests]
      BY NoRequestType DEF Init
    <2>6. /\ cancel \in BOOLEAN /\ crashes = 0 /\ faults = 0 /\ replies = 0
          /\ authorized = {} /\ stranded = {}
      BY DEF Init
    <2>7. {crashes, faults, replies} \subseteq Nat
      BY <2>6
    <2> QED BY <1>1, <2>2, <2>3, <2>4, <2>5, <2>6, <2>7, NoTaskType DEF TypeOK
  <1>4. PointInv /\ VersionInv /\ CheckpointInv /\ WaitInv
    BY <1>1, <1>2, Points
    DEF PointInv, VersionInv, CheckpointInv, WaitInv, WaitingRunNamesItsCall,
        ReissuePcs, FinishPcs
  <1> QED BY <1>3, <1>4 DEF IndInv

LEMMA NextInv == IndInv /\ [Next]_vars => IndInv'
  <1> SUFFICES ASSUME IndInv, [Next]_vars PROVE IndInv'
    OBVIOUS
  <1>1. TypeOK /\ PointInv
    BY DEF IndInv
  <1>2. CASE TaskStep
    BY <1>1, <1>2, TaskStepTypeOK, TaskStepInv
  <1>3. CASE StorageFault
    BY <1>1, <1>3, StorageFaultTypeOK, StorageFaultInv
  <1>4. CASE Advance
    <2>1. TypeOK'
      BY <1>1, <1>4, AdvanceTypeOK
    <2>2. PICK auth : task' = Spawned(auth)
      BY <1>4 DEF Advance
    <2>3. UNCHANGED <<run, snapshot, approvals, handler>>
      BY <1>4 DEF Advance, store
    <2> QED BY <2>1, <2>2, <2>3, SpawnInv
  <1>5. CASE \E k \in Clients : RequestStep(k) \/ HandlerStep(k)
    BY <1>1, <1>5, RequestTypeOK, RequestInv, HandlerTypeOK, HandlerInv
  <1>6. CASE ApprovalLapses \/ CoreRestarts
    BY <1>1, <1>6, EnvironmentTypeOK, EnvironmentInv
  <1>7. CASE UNCHANGED vars
    BY <1>7 DEF vars, IndInv, TypeOK, PointInv, VersionInv, Fresher,
                LegacyWallTimeRetry, CheckpointInv,
                WaitInv, WaitingRunNamesItsCall, Asked
  <1> QED BY <1>2, <1>3, <1>4, <1>5, <1>6, <1>7 DEF Next

\* IndInv holds of every reachable state.
LEMMA Inductive == Spec => []IndInv
  BY InitInv, NextInv, PTL DEF Spec

-----------------------------------------------------------------------------
(* Theorems *)

\* Every variable keeps its type: versions and sequences stay naturals, the
\* task stays at a point of DurableAgent::run or of the task around it.
THEOREM TypeCorrect == Spec => []TypeOK
  <1>1. IndInv => TypeOK
    BY DEF IndInv
  <1> QED BY <1>1, Inductive, PTL

\* Between claim_running and its last transition, the task's version is the
\* stored one: no handler moves a run that a task holds.
THEOREM OwnerHoldsRun == Spec => []OwnerIsCurrent
  <1>1. IndInv => OwnerIsCurrent
    BY AfterSavePoints
    DEF IndInv, PointInv, VersionInv, OwnerIsCurrent, Owning, LoadedPcs
  <1> QED BY <1>1, Inductive, PTL

\* save_snapshot_cas never refuses a checkpoint of the agent.
THEOREM CheckpointsNeverConflict == Spec => []CheckpointUncontended
  <1>1. IndInv => CheckpointUncontended
    BY AfterSavePoints, Points DEF IndInv, CheckpointInv, CheckpointUncontended
  <1> QED BY <1>1, Inductive, PTL

\* A run in awaiting_approval has a durable checkpoint that names the call, and
\* a stored approval of that call, whenever Core stops.
THEOREM WaitsAreNamed == Spec => []WaitingRunNamesItsCall
  <1>1. IndInv => WaitingRunNamesItsCall
    BY DEF IndInv, WaitInv
  <1> QED BY <1>1, Inductive, PTL

-----------------------------------------------------------------------------
(* AgentRun implements RunLifecycle *)

\* The state of the run that its clients see.
Seen == IF LegacyWallTimeRetry THEN "retryable" ELSE run.state

Refines == [Lifecycle!LifecycleNext]_(Lifecycle!lifecycleVars)

-----------------------------------------------------------------------------
(* Steps that move the run, or not *)

\* A step that leaves the run alone, and takes nobody into it, is a stutter, or
\* its owner abandons it.
LEMMA StandsStill ==
  ASSUME UNCHANGED run, Owning' => Owning
  PROVE  Refines
  <1>1. Owning \in BOOLEAN /\ Owning' \in BOOLEAN
    BY DEF Owning
  <1>2. Seen' = Seen
    BY DEF Seen, LegacyWallTimeRetry
  <1>3. CASE Owning' = Owning
    BY <1>2, <1>3 DEF Refines, Lifecycle!lifecycleVars, Seen
  <1>4. CASE Owning /\ ~Owning'
    <2>1. Lifecycle!Abandon
      BY <1>2, <1>4 DEF Lifecycle!Abandon, Seen
    <2> QED BY <2>1 DEF Refines, Lifecycle!LifecycleNext
  <1> QED BY <1>1, <1>3, <1>4

LEMMA FailLeaves ==
  ASSUME TypeOK, Fail PROVE Refines
  <1>1. task'.pc = "mark"
    BY DEF TypeOK, Tasks, Fail, Goto
  <1>2. ~Owning'
    BY <1>1, AfterSavePoints DEF Owning, AgentPcs
  <1> QED BY <1>2, StandsStill DEF Fail, Goto, store

\* Whatever a reply leads to, the task goes on with the state it has claimed.
LEMMA ReceiveReplyKeepsState ==
  ASSUME task \in Tasks, ReceiveReply
  PROVE  UNCHANGED run /\ task'.st = task.st
  <1> DEFINE t(used) == [task EXCEPT !.ck.iters = @ + 1, !.ck.retries = 0,
                                     !.ck.usage = @ + used]
  <1>1. PICK reply \in Replies, used \in 0..1, cut \in BOOLEAN :
          AppendReply(
            IF t(used).ck.usage > MaxUsage THEN Finish(t(used), "usage_limit")
            ELSE IF reply # <<>> THEN [t(used) EXCEPT !.pc = "calls", !.batch = reply]
            ELSE Finish(t(used), IF cut THEN "output_limit" ELSE "completed"))
    BY DEF ReceiveReply
  <1>2. t(used).st = task.st /\ {"pc", "fin", "last", "st"} \subseteq DOMAIN t(used)
    BY DEF Tasks
  <1> HIDE DEF t
  <1>3. PICK new : AppendReply(new) /\ new.st = task.st /\ "st" \in DOMAIN new
    <2>1. \A reason : Finish(t(used), reason).st = task.st /\ "st" \in DOMAIN Finish(t(used), reason)
      BY <1>2 DEF Finish
    <2>2. /\ [t(used) EXCEPT !.pc = "calls", !.batch = reply].st = task.st
          /\ "st" \in DOMAIN [t(used) EXCEPT !.pc = "calls", !.batch = reply]
      BY <1>2
    <2> HIDE DEF AppendReply, Finish
    <2> QED BY <1>1, <2>1, <2>2
  <1> QED BY <1>3 DEF AppendReply

\* The agent's steps that write neither the run's state nor its version.
LEMMA LoopLeaves ==
  ASSUME TypeOK,
         \/ AppendLifecycleEvent \/ SaveCheckpoint \/ ResumePending
         \/ InvokeTool \/ RefuseTool \/ RecordObservation \/ TakeCall
         \/ EnterLoop \/ PreemptModel \/ RetryProvider \/ FailProvider
         \/ ReceiveReply
  PROVE  Refines
  <1>1. task \in Tasks
    BY DEF TypeOK
  <1>2. CASE Fail
    BY <1>2, FailLeaves
  <1>3. CASE ~Fail
    <2>1. task.pc \in AgentPcs
      BY <1>3, AfterSavePoints
      DEF AgentPcs, AppendLifecycleEvent, SaveCheckpoint, ResumePending,
          InvokeTool, RefuseTool, RecordObservation, TakeCall, EnterLoop,
          PreemptModel, RetryProvider, FailProvider, ReceiveReply
    <2>2. UNCHANGED run /\ task'.st = task.st
      <3>1. CASE AppendLifecycleEvent
        BY <1>1, <3>1 DEF AppendLifecycleEvent, AppendEvent, Tasks
      <3>2. CASE SaveCheckpoint
        BY <1>1, <1>3, <3>2 DEF SaveCheckpoint, Tasks
      <3>3. CASE ResumePending
        BY <1>1, <1>3, <3>3 DEF ResumePending, Goto, Tasks, store
      <3>4. CASE InvokeTool
        BY <1>1, <3>4 DEF InvokeTool, Tasks, store
      <3>5. CASE RefuseTool
        BY <1>1, <3>5 DEF RefuseTool, Goto, Tasks, store
      <3>6. CASE RecordObservation
        BY <1>1, <3>6 DEF RecordObservation, AppendEvent, Tasks
      <3>7. CASE TakeCall
        BY <1>1, <3>7 DEF TakeCall, AppendEvent, Goto, Tasks, store
      <3>8. CASE EnterLoop
        BY <1>1, <3>8 DEF EnterLoop, Goto, Finish, Tasks, store
      <3>9. CASE PreemptModel
        BY <1>1, <3>9 DEF PreemptModel, Goto, Finish, Tasks, store
      <3>10. CASE RetryProvider
        BY <1>1, <3>10 DEF RetryProvider, AppendEvent, Tasks
      <3>11. CASE FailProvider
        BY <1>1, <3>11 DEF FailProvider, AppendEvent, Finish, Tasks
      <3>12. CASE ReceiveReply
        BY <1>1, <3>12, ReceiveReplyKeepsState
      <3> QED BY <3>1, <3>2, <3>3, <3>4, <3>5, <3>6, <3>7, <3>8, <3>9, <3>10,
                 <3>11, <3>12
    <2> QED BY <2>1, <2>2, StandsStill DEF Owning
  <1> QED BY <1>2, <1>3

LEMMA LoadLeaves ==
  ASSUME TypeOK, LoadRun PROVE Refines
  <1>1. task \in Tasks /\ UNCHANGED run
    BY DEF TypeOK, LoadRun, Goto, store
  <1>2. CASE run.state = "running"
    <2>1. Goto(Loaded("mark", Stored))
      BY <1>2 DEF LoadRun, LegacyWallTimeRetry
    <2>2. task'.pc = "mark"
      BY <1>1, <2>1 DEF Goto, Loaded, Tasks
    <2>3. ~Owning'
      BY <2>2, AfterSavePoints DEF Owning, AgentPcs
    <2> QED BY <1>1, <2>3, StandsStill
  <1>3. CASE run.state # "running"
    <2>1. task'.st = run.state
      BY <1>1 DEF LoadRun, Goto, Finish, Loaded, Tasks
    <2> QED BY <1>1, <1>3, <2>1, StandsStill DEF Owning
  <1> QED BY <1>2, <1>3

-----------------------------------------------------------------------------
(* Transitions *)

LEMMA ClaimRefines ==
  ASSUME IndInv, ClaimRunning PROVE Refines
  <1>1. task \in Tasks /\ task.pc = "claim"
    BY DEF IndInv, TypeOK, ClaimRunning
  <1>2. CASE run.version = task.ver
    <2>1. /\ TransitionRun(task.ver, "running", "none")
          /\ task' = [task EXCEPT !.pc = "startEvent", !.st = "running",
                                  !.ver = task.ver + 1]
      BY <1>2 DEF ClaimRunning, TransitionTo
    <2>2. task'.pc = "startEvent" /\ task'.st = "running" /\ run'.state = "running"
      BY <1>1, <2>1 DEF Tasks, TransitionRun
    <2>3. Seen' = "running" /\ Owning'
      BY <2>2 DEF Seen, LegacyWallTimeRetry, Owning, AgentPcs
    <2>4. ~Owning /\ Seen \in {"proposed", "retryable", "awaiting_approval"}
      BY <1>1, <1>2, Points
      DEF IndInv, PointInv, VersionInv, Fresher, Owning, Seen, LegacyWallTimeRetry
    <2>5. Lifecycle!Claim
      BY <2>3, <2>4 DEF Lifecycle!Claim, Lifecycle!Claimable, Seen
    <2> QED BY <2>5 DEF Refines, Lifecycle!LifecycleNext
  <1>3. CASE run.version # task.ver
    BY <1>3, FailLeaves DEF IndInv, ClaimRunning, TransitionTo
  <1> QED BY <1>2, <1>3

\* The transitions with which the agent is done: the owner settles the run, or
\* a run that waits for an approval is denied.
LEMMA SettleRefines ==
  ASSUME IndInv, AwaitApproval \/ SettleRun PROVE Refines
  <1>1. /\ task \in Tasks /\ task.pc \in {"askCas", "finishCas"}
        /\ task.fin \in StopReasons
    BY DEF IndInv, TypeOK, Tasks, AwaitApproval, SettleRun
  <1>2. CASE run.version = task.ver
    <2>1. PICK state, stop :
            /\ TransitionRun(task.ver, state, stop)
            /\ task' = [task EXCEPT !.pc = "exit"]
            /\ \/ /\ task.pc = "askCas" /\ state = "awaiting_approval"
                  /\ stop = "approval_required"
               \/ /\ task.pc = "finishCas" /\ state = StateOf(task.fin)
                  /\ stop = task.fin
      BY <1>2 DEF AwaitApproval, SettleRun, TransitionTo
    <2>2. task'.pc = "exit" /\ run'.state = state /\ run'.stop = stop
      BY <1>1, <2>1 DEF Tasks, TransitionRun
    <2>3. ~Owning'
      BY <2>2, AfterSavePoints DEF Owning, AgentPcs
    <2>4. /\ state \in {"completed", "failed", "cancelled", "retryable",
                        "awaiting_approval"}
          /\ Seen' = state
      BY <2>1, <2>2 DEF StateOf, Seen, LegacyWallTimeRetry
    <2>5. task.pc \in LoadedPcs /\ task.st = run.state
      BY <1>1, Points DEF IndInv, PointInv, VersionInv
    <2>6. CASE task.st = "running"
      <3>1. Owning /\ Seen = "running"
        BY <2>5, <2>6 DEF Owning, LoadedPcs, Seen, LegacyWallTimeRetry
      <3>2. Lifecycle!Settle
        BY <2>3, <2>4, <3>1 DEF Lifecycle!Settle, Lifecycle!Terminal, Seen
      <3> QED BY <3>2 DEF Refines, Lifecycle!LifecycleNext
    <2>7. CASE task.st # "running"
      <3>1. /\ run.state = "awaiting_approval" /\ task.fin = "approval_denied"
            /\ task.pc = "finishCas"
        BY <1>1, <2>5, <2>7, Points DEF IndInv, PointInv, ReissuePcs, FinishPcs
      <3>2. StateOf("approval_denied") = "failed"
        BY DEF StateOf
      <3>3. Seen = "awaiting_approval" /\ Seen' = "failed"
        BY <2>1, <2>4, <3>1, <3>2 DEF Seen, LegacyWallTimeRetry
      <3>4. Lifecycle!Deny
        BY <2>3, <2>7, <3>3 DEF Lifecycle!Deny, Seen, Owning
      <3> QED BY <3>4 DEF Refines, Lifecycle!LifecycleNext
    <2> QED BY <2>6, <2>7
  <1>3. CASE run.version # task.ver
    BY <1>3, FailLeaves DEF IndInv, AwaitApproval, SettleRun, TransitionTo
  <1> QED BY <1>2, <1>3

LEMMA MarkRefines ==
  ASSUME IndInv, MarkRuntimeFailure PROVE Refines
  <1>1. /\ task \in Tasks /\ task.pc \in MarkPcs
        /\ task'.pc \in {"markEvent", "markCas", "exit"}
    BY DEF IndInv, TypeOK, MarkRuntimeFailure, Goto, AppendEvent, Tasks, MarkPcs
  <1>2. ~Owning /\ ~Owning'
    BY <1>1, AfterSavePoints DEF Owning, AgentPcs, MarkPcs
  <1>3. CASE UNCHANGED run
    BY <1>2, <1>3, StandsStill
  <1>4. CASE run' # run
    <2>1. task.pc = "markCas" /\ TransitionRun(task.ver, "retryable", "runtime_error")
      BY <1>4 DEF MarkRuntimeFailure, Goto, AppendEvent, store
    <2>2. run.state \in {"proposed", "running"} /\ run'.state = "retryable"
      BY <2>1 DEF IndInv, VersionInv, Fresher, TransitionRun
    <2>3. Seen \in {"proposed", "running"} /\ Seen' = "retryable"
      BY <2>2 DEF Seen, LegacyWallTimeRetry
    <2>4. Lifecycle!HandBack
      BY <1>2, <2>3 DEF Lifecycle!HandBack, Seen, Owning
    <2> QED BY <2>4 DEF Refines, Lifecycle!LifecycleNext
  <1> QED BY <1>3, <1>4

LEMMA HandlerRefines ==
  ASSUME IndInv, NEW k \in Clients, HandlerStep(k) PROVE Refines
  <1>1. CASE SpawnDecided(k)
    <2>1. task' = task \/ task' = Spawned(handler[k])
      BY <1>1 DEF SpawnDecided
    <2>2. Owning' => Owning
      BY <2>1 DEF Owning, Spawned, NoTask
    <2> QED BY <1>1, <2>2, StandsStill DEF SpawnDecided, store
  <1>2. CASE FreezeContext(k)
    <2>1. run'.state = run.state /\ run'.stop = run.stop /\ UNCHANGED task
      BY <1>2 DEF FreezeContext, IndInv, TypeOK
    <2>2. Seen' = Seen /\ Owning' = Owning
      BY <2>1 DEF Seen, LegacyWallTimeRetry, Owning
    <2> QED BY <2>2 DEF Refines, Lifecycle!lifecycleVars, Seen
  <1>3. CASE LogCancelled(k)
    BY <1>3, StandsStill DEF LogCancelled, Owning
  <1>4. CASE CancelProposedRun(k)
    <2>1. UNCHANGED task
      BY <1>4 DEF CancelProposedRun
    <2>2. CASE UNCHANGED run
      BY <2>1, <2>2, StandsStill DEF Owning
    <2>3. CASE run' # run
      <3>1. run.state = "proposed" /\ run'.state = "cancelled"
        BY <1>4, <2>3 DEF CancelProposedRun, TransitionRun, IndInv, VersionInv, Fresher
      <3>2. Seen = "proposed" /\ Seen' = "cancelled"
        BY <3>1 DEF Seen, LegacyWallTimeRetry
      <3>3. ~Owning /\ ~Owning'
        BY <2>1, <3>1, Points DEF IndInv, PointInv, VersionInv, Owning, LoadedPcs
      <3>4. Lifecycle!CancelProposed
        BY <3>2, <3>3 DEF Lifecycle!CancelProposed, Seen, Owning
      <3> QED BY <3>4 DEF Refines, Lifecycle!LifecycleNext
    <2> QED BY <2>2, <2>3
  <1> QED BY <1>1, <1>2, <1>3, <1>4 DEF HandlerStep

-----------------------------------------------------------------------------
(* Every step refines *)

LEMMA StepRefines == IndInv /\ [Next]_vars => Refines
  <1> SUFFICES ASSUME IndInv, [Next]_vars PROVE Refines
    OBVIOUS
  <1>1. TypeOK
    BY DEF IndInv
  <1>2. CASE TaskStep
    <2>1. CASE ExitTask
      <3>1. UNCHANGED run /\ ~Owning'
        BY <2>1, AfterSavePoints DEF ExitTask, Owning, NoTask, AgentPcs, store
      <3> QED BY <3>1, StandsStill
    <2> QED BY <1>1, <1>2, <2>1, LoadLeaves, LoopLeaves, ClaimRefines,
               SettleRefines, MarkRefines DEF TaskStep
  <1>3. CASE StorageFault
    <2>1. UNCHANGED run /\ task'.pc \in {"mark", "markCas", "exit"}
      BY <1>1, <1>3 DEF StorageFault, TypeOK, Tasks, store
    <2>2. ~Owning'
      BY <2>1, AfterSavePoints DEF Owning, AgentPcs
    <2> QED BY <2>1, <2>2, StandsStill
  <1>4. CASE Advance
    <2>1. UNCHANGED run /\ \E auth : task' = Spawned(auth)
      BY <1>4 DEF Advance, store
    <2>2. ~Owning'
      BY <2>1 DEF Owning, Spawned, NoTask
    <2> QED BY <2>1, <2>2, StandsStill
  <1>5. CASE \E k \in Clients : RequestStep(k)
    BY <1>5, StandsStill
    DEF RequestStep, DecideApproval, ReadForFreeze, RequestCancel, Owning, store
  <1>6. CASE \E k \in Clients : HandlerStep(k)
    BY <1>6, HandlerRefines
  <1>7. CASE ApprovalLapses
    BY <1>7, StandsStill DEF ApprovalLapses, Owning
  <1>8. CASE CoreRestarts
    <2>1. UNCHANGED run /\ ~Owning'
      BY <1>8, AfterSavePoints DEF CoreRestarts, Owning, NoTask, AgentPcs
    <2> QED BY <2>1, StandsStill
  <1>9. CASE UNCHANGED vars
    BY <1>9, StandsStill DEF vars, Owning
  <1> QED BY <1>2, <1>3, <1>4, <1>5, <1>6, <1>7, <1>8, <1>9 DEF Next

\* A run is advanced by at most one owner, only its owner settles it, and a
\* terminal run never moves again: the life cycle that RunLifecycle states is
\* what DurableAgent, the handlers and the failures of Core produce.
THEOREM AgentRefinesLifecycle == Spec => LifecycleRefined
  <1>1. Init => Lifecycle!LifecycleInit
    BY AfterSavePoints
    DEF Init, Lifecycle!LifecycleInit, LegacyWallTimeRetry, Owning, NoTask, AgentPcs
  <1> QED BY <1>1, StepRefines, Inductive, PTL
          DEF Spec, LifecycleRefined, Lifecycle!LifecycleSpec, Refines

-----------------------------------------------------------------------------
(***************************************************************************)
(* What a run may do and spend, for every value of AgentRun's constants:   *)
(* its checkpoint only grows and misses at most one reply for a failure,   *)
(* the frozen bounds hold, an effect call runs once and again only after a *)
(* failure, and only if somebody authorized it or a failure cut off the    *)
(* wait for its approval.                                                  *)
(***************************************************************************)

(* The inductive invariant, on top of AgentRunProofs' *)

ToolPcs == {"invoke", "observe", "refused"}

\* The points of the loop at which no call is pending in the working checkpoint.
TurnPcs == ToolPcs \cup {"resumedSave", "loop", "loopSave", "modelEvent",
                         "model", "retrySave", "calls", "callSave"}

\* A checkpoint is never saved before its first event; a pending call leaves the
\* working checkpoint when it is resumed, and the stored one when its end is saved.
PendingInv ==
    /\ snapshot.covered = 0 => snapshot.doc = NewCheckpoint
    /\ task.pc \in LoadedPcs \ Unlogged => task.last > 0
    /\ task.pc \in AgentPcs \ ToolPcs => ~task.resumed
    /\ task.pc \in TurnPcs => task.ck.pending = NoCall
    /\ task.pc \in FinishPcs /\ task.st = "running" => task.ck.pending = NoCall
    /\ task.pc \in {"claim", "startEvent", "startSave", "resume", "askCas"} =>
          snapshot.doc.pending = task.ck.pending
    /\ task.pc \in TurnPcs \ {"resumedSave"} =>
          task.resumed \/ snapshot.doc.pending = NoCall

\* The task's working checkpoint is never behind the stored one.
SpentInv ==
    task.pc \in LoadedPcs =>
        /\ task.ck.iters >= snapshot.doc.iters
        /\ task.ck.usage >= snapshot.doc.usage
        /\ task.ck.repairs >= snapshot.doc.repairs

\* A checkpoint within the bounds; the repair that a pending call may need is
\* counted before it is run.
WithinBounds(ck) ==
    /\ ck.iters <= MaxIterations
    /\ ck.retries <= MaxProviderRetries
    /\ ck.repairs <= MaxRepairs + MaxBatch
    /\ ck.pending # NoCall => ck.repairs + 1 <= MaxRepairs + MaxBatch

\* So is what is left of a reply.
BudgetInv ==
    /\ WithinBounds(snapshot.doc)
    /\ task.pc \in LoadedPcs => WithinBounds(task.ck)
    /\ task.pc \in ToolPcs \cup {"calls", "callSave"} =>
          task.ck.repairs + Len(task.batch) <= MaxRepairs + MaxBatch
    /\ task.pc \in {"loopSave", "modelEvent", "model"} =>
          /\ task.ck.iters < MaxIterations
          /\ task.ck.repairs <= MaxRepairs
          /\ task.ck.usage < MaxUsage

\* How often a call that is still to be run may have reached its tool.
Settled(c) == executed[c] <= crashes + faults

\* A call that may still be run has run before only if a failure came between; the
\* failure is counted before anyone can run it again.  This needs ids that are not
\* used twice.
RepeatInv ==
  MintsIds =>
    /\ EffectsRepeatOnlyByFailure
    /\ snapshot.doc.pending # NoCall =>
          Settled(snapshot.doc.pending) \/ task.pc \in {"observe", "resumedSave"}
    /\ task.pc \in LoadedPcs /\ task.ck.pending # NoCall => Settled(task.ck.pending)
    /\ task.pc \in ToolPcs \cup {"calls", "callSave"} =>
          \A i, j \in 1..Len(task.batch) :
              task.batch[i] \in Calls /\ task.batch[i] = task.batch[j] => i = j
    /\ task.pc \in ToolPcs \cup {"calls", "callSave"} =>
          \A i \in 1..Len(task.batch) :
              task.batch[i] \in Calls =>
                  Settled(task.batch[i]) \/ (task.pc = "observe" /\ i = 1)

\* What lets a call reach its tool: somebody said so, or a failure came between the
\* checkpoint that names it and the wait for its approval.
Allowed(c) == c \in authorized \cup stranded

Denied == run.state = "failed" /\ run.stop = "approval_denied"

\* A call nobody authorized keeps the run waiting, or denied; a failure in between
\* leaves it behind as stranded.
AllowedInv ==
    /\ \A c \in task.ok : Allowed(c)
    /\ \A k \in Clients : \A c \in handler[k].ok : Allowed(c)
    /\ snapshot.doc.pending # NoCall =>
          \/ Allowed(snapshot.doc.pending)
          \/ run.state = "awaiting_approval"
          \/ Denied
          \/ task.pc = "askCas"
    /\ task.pc \in {"claim", "startEvent", "startSave", "resume"}
       /\ task.ck.pending # NoCall => Allowed(task.ck.pending)
    /\ task.pc = "invoke" /\ Head(task.batch) \in Calls =>
          Allowed(Head(task.batch))

EffectsInv == PendingInv /\ SpentInv /\ BudgetInv /\ RepeatInv /\ AllowedInv

-----------------------------------------------------------------------------
(* Steps that leave most of it alone *)

USE CallsAssumption, BoundsAssumption

\* What the proofs below use of IndInv.
LEMMA Knows ==
  ASSUME IndInv
  PROVE  /\ task \in Tasks /\ task.ck \in Checkpoints /\ task.batch \in Seq(Kinds)
         /\ snapshot.doc \in Checkpoints /\ snapshot.covered \in Nat
         /\ executed \in [Calls -> Nat] /\ crashes \in Nat /\ faults \in Nat
         /\ seq \in Nat /\ task.last \in Nat
         /\ task.pc \in ToolPcs => task.batch # <<>>
  BY TaskFields DEF IndInv, TypeOK, PointInv, ToolPcs

\* The history without the replies.
kept == <<crashes, faults, authorized, stranded>>

LEMMA Keeps ==
  ASSUME UNCHANGED history PROVE UNCHANGED kept
  BY DEF history, kept

\* The points, told apart from those around the agent.
LEMMA AgentPoints ==
  /\ AgentPcs = LoadedPcs \cup {"load"}
  /\ LoadedPcs \cap {"mark", "markEvent", "markCas", "idle", "exit", "load"} = {}
  BY Points DEF LoadedPcs, AgentPcs

\* Core stops, or a storage call fails.
Fails == \/ crashes' = crashes + 1 /\ UNCHANGED faults
         \/ faults' = faults + 1 /\ UNCHANGED crashes

\* The task leaves the agent, for whatever reason.
LEMMA Leaves ==
  ASSUME IndInv, IndInv', EffectsInv,
         task'.pc \in {"mark", "markEvent", "markCas", "idle", "exit"},
         UNCHANGED <<snapshot, executed>>,
         Fails \/ (UNCHANGED history /\ task.pc \notin {"observe", "resumedSave"})
  PROVE  PendingInv' /\ SpentInv' /\ BudgetInv' /\ RepeatInv'
  <1>1. task'.pc \notin AgentPcs
    BY Points, AgentPoints
  <1>2. PendingInv' /\ SpentInv' /\ BudgetInv'
    BY <1>1, Points, AgentPoints
    DEF EffectsInv, PendingInv, SpentInv, BudgetInv, TurnPcs, ToolPcs, FinishPcs, WithinBounds
  <1>3. RepeatInv'
    <2> SUFFICES ASSUME MintsIds PROVE RepeatInv'
      BY DEF RepeatInv
    <2>0. /\ crashes \in Nat /\ faults \in Nat /\ executed' = executed
          /\ \A c \in Calls : executed[c] \in Nat
      BY DEF IndInv, TypeOK
    <2>1. \A c \in Calls : Settled(c) => Settled(c)'
      BY <2>0 DEF Settled, Fails, history
    <2>2. EffectsRepeatOnlyByFailure'
      BY <2>0 DEF EffectsInv, RepeatInv, EffectsRepeatOnlyByFailure, Fails, history
    <2>3. snapshot.doc.pending # NoCall => snapshot.doc.pending \in Calls
      BY Knows DEF Checkpoints
    <2>4. task.pc \in {"observe", "resumedSave"} => \A c \in Calls : Settled(c)'
      BY <2>0 DEF Settled, Fails, EffectsInv, RepeatInv, EffectsRepeatOnlyByFailure
    <2>5. snapshot.doc.pending # NoCall => Settled(snapshot.doc.pending)'
      BY <2>1, <2>3, <2>4 DEF EffectsInv, RepeatInv
    <2> QED
      BY <1>1, <2>2, <2>5, Points, AgentPoints DEF RepeatInv, ToolPcs, Settled
  <1> QED BY <1>2, <1>3

\* A handler's step, or the task's outside the agent: the agent is not at work.
LEMMA Elsewhere ==
  ASSUME IndInv, EffectsInv,
         UNCHANGED <<task, snapshot, executed, crashes, faults>>
  PROVE  PendingInv' /\ SpentInv' /\ BudgetInv' /\ RepeatInv'
  BY DEF EffectsInv, PendingInv, SpentInv, BudgetInv, RepeatInv, Settled, WithinBounds,
         EffectsRepeatOnlyByFailure

\* No request is decided, no call goes on to its tool and none is asked for.
LEMMA NothingDecided ==
  ASSUME EffectsInv, UNCHANGED <<run, snapshot, approvals, handler>>,
         task'.ok = task.ok,
         authorized \subseteq authorized', stranded \subseteq stranded',
         task.pc # "askCas",
         task'.pc \notin {"claim", "startEvent", "startSave", "resume", "invoke"}
  PROVE  AllowedInv'
  BY DEF EffectsInv, AllowedInv, Allowed, Denied

\* No tool is called and no reply taken in: what may be run again stays the same.
LEMMA NothingRun ==
  ASSUME IndInv, EffectsInv, UNCHANGED <<snapshot, executed, crashes, faults>>,
         task.pc \notin {"observe", "resumedSave"},
         task'.pc \notin ToolPcs \cup {"calls", "callSave"},
         task'.ck.pending # NoCall =>
             \/ task.pc \in LoadedPcs /\ task'.ck.pending = task.ck.pending
             \/ task'.ck.pending = snapshot.doc.pending
  PROVE  RepeatInv'
  <1>1. snapshot.doc.pending # NoCall /\ MintsIds => Settled(snapshot.doc.pending)
    BY DEF EffectsInv, RepeatInv
  <1> QED BY <1>1 DEF EffectsInv, RepeatInv, Settled, EffectsRepeatOnlyByFailure

-----------------------------------------------------------------------------
(* The loop *)

\* The task's locals that most of its steps leave alone.
Carries(t) == t.st = task.st /\ t.ok = task.ok /\ t.resumed = task.resumed

\* A checkpoint with which nothing is given back.
Spends(ck, since) == /\ ck.iters >= since.iters
                     /\ ck.usage >= since.usage
                     /\ ck.repairs >= since.repairs

\* A step between two points of the loop, or to its end, that calls no tool.
LEMMA TurnKeeps ==
  ASSUME IndInv, EffectsInv,
         UNCHANGED <<run, snapshot, approvals, handler, executed, kept>>,
         task.pc \in TurnPcs \ (ToolPcs \cup {"resumedSave"}),
         NEW t, t.ck \in Checkpoints,
         task'.pc = t.pc, task'.ck = t.ck, task'.st = t.st, task'.ok = t.ok,
         task'.resumed = t.resumed,
         t.pc \in {"loop", "loopSave", "model", "retrySave", "finishEvent"},
         Carries(t), task'.last > 0,
         Spends(t.ck, task.ck), WithinBounds(t.ck), t.ck.pending = NoCall,
         t.pc \in {"loopSave", "model"} =>
              /\ t.ck.iters < MaxIterations
              /\ t.ck.repairs <= MaxRepairs
              /\ t.ck.usage < MaxUsage
  PROVE  EffectsInv'
  <1>1. PendingInv'
    BY Points, AgentPoints
    DEF EffectsInv, PendingInv, Carries, TurnPcs, ToolPcs, FinishPcs, Unlogged
  <1>2. SpentInv'
    <2>1. task.pc \in LoadedPcs /\ snapshot' = snapshot
      BY Points DEF TurnPcs, ToolPcs
    <2>2. Spends(task.ck, snapshot.doc) /\ task.ck \in Checkpoints
          /\ snapshot.doc \in Checkpoints
      BY <2>1, Knows DEF EffectsInv, SpentInv, Spends
    <2>3. Spends(t.ck, snapshot.doc)
      BY <2>2 DEF Spends, Checkpoints
    <2> QED BY <2>1, <2>3 DEF SpentInv, Spends
  <1>3. BudgetInv'
    BY DEF EffectsInv, BudgetInv, WithinBounds, ToolPcs
  <1>4. RepeatInv'
    BY NothingRun DEF history, kept, ToolPcs
  <1>5. AllowedInv'
    BY NothingDecided DEF Carries, kept, TurnPcs, ToolPcs
  <1> QED BY <1>1, <1>2, <1>3, <1>4, <1>5 DEF EffectsInv

\* What is known at such a point.
LEMMA InTurn ==
  ASSUME IndInv, EffectsInv, task.pc \in TurnPcs \ (ToolPcs \cup {"resumedSave"})
  PROVE  /\ task \in Tasks /\ task.ck \in Checkpoints /\ task.last > 0
         /\ seq \in Nat /\ seq + 1 > 0
         /\ Carries(task) /\ Spends(task.ck, task.ck) /\ WithinBounds(task.ck)
         /\ task.ck.pending = NoCall
  <1>1. task.pc \in LoadedPcs \ Unlogged
    BY Points DEF TurnPcs, ToolPcs, Unlogged
  <1>2. task.ck \in Checkpoints /\ seq \in Nat
    BY Knows
  <1>3. Spends(task.ck, task.ck) /\ seq + 1 > 0
    BY <1>2 DEF Spends, Checkpoints
  <1> QED
    BY <1>1, <1>2, <1>3, Knows DEF EffectsInv, PendingInv, BudgetInv, Carries

\* What an appended event leaves of the task that goes on as t.
LEMMA Appended ==
  ASSUME NEW t \in Tasks, AppendEvent(t) \/ AppendReply(t), seq \in Nat
  PROVE  /\ task'.pc = t.pc /\ task'.ck = t.ck /\ task'.st = t.st
         /\ task'.ok = t.ok /\ task'.resumed = t.resumed /\ task'.batch = t.batch
         /\ task'.fin = t.fin
         /\ task'.last > 0
         /\ UNCHANGED <<run, snapshot, approvals, handler, executed, kept>>
  BY DEF AppendEvent, AppendReply, history, kept, Tasks

\* The bounds that the top of the loop has checked when it goes on.
LEMMA WithinReason ==
  ASSUME NEW ck \in Checkpoints, "none" \in BoundReasons(ck)
  PROVE  ck.iters < MaxIterations /\ ck.repairs <= MaxRepairs /\ ck.usage < MaxUsage
  <1>1. /\ ck.iters \in Nat /\ ck.repairs \in Nat /\ ck.usage \in Nat
        /\ MaxIterations \in Nat /\ MaxRepairs \in Nat /\ MaxUsage \in Nat
    BY DEF Checkpoints
  <1>2. ~(ck.iters >= MaxIterations) /\ ~(ck.repairs > MaxRepairs)
    BY DEF BoundReasons
  <1>3. ~(ck.usage >= MaxUsage)
    BY <1>2 DEF BoundReasons
  <1> QED BY <1>1, <1>2, <1>3

LEMMA EnterLoopEffects ==
  ASSUME IndInv, EffectsInv, EnterLoop PROVE EffectsInv'
  <1>1. task.pc = "loop"
    BY DEF EnterLoop
  <1>2. PICK t : /\ Goto(t)
                 /\ \/ t = [task EXCEPT !.pc = "loopSave"]
                       /\ "none" \in BoundReasons(task.ck)
                    \/ \E reason : t = Finish(task, reason)
    BY DEF EnterLoop
  <1>3. /\ Carries(t) /\ t.ck = task.ck /\ t.last = task.last
        /\ t.pc \in {"loopSave", "finishEvent"}
        /\ t.pc = "loopSave" => "none" \in BoundReasons(task.ck)
    BY <1>1, <1>2, InTurn DEF Carries, Finish, Tasks, TurnPcs, ToolPcs
  <1>4. task' = t /\ UNCHANGED <<run, snapshot, approvals, handler, executed, kept>>
    BY <1>2, Keeps DEF Goto, store
  <1> QED
    BY <1>1, <1>3, <1>4, InTurn, WithinReason, TurnKeeps DEF TurnPcs, ToolPcs

LEMMA PreemptModelEffects ==
  ASSUME IndInv, EffectsInv, PreemptModel PROVE EffectsInv'
  <1>1. task.pc = "model"
    BY DEF PreemptModel
  <1>2. PICK t : Goto(t) /\ \E reason : t = Finish(task, reason)
    BY DEF PreemptModel
  <1>3. /\ Carries(t) /\ t.ck = task.ck /\ t.last = task.last
        /\ t.pc = "finishEvent"
    BY <1>1, <1>2, InTurn DEF Carries, Finish, Tasks, TurnPcs, ToolPcs
  <1>4. task' = t /\ UNCHANGED <<run, snapshot, approvals, handler, executed, kept>>
    BY <1>2, Keeps DEF Goto, store
  <1> QED BY <1>1, <1>3, <1>4, InTurn, TurnKeeps DEF TurnPcs, ToolPcs

LEMMA FailProviderEffects ==
  ASSUME IndInv, EffectsInv, FailProvider PROVE EffectsInv'
  <1>1. task.pc = "model"
    BY DEF FailProvider
  <1>2. PICK reason \in StopReasons : AppendEvent(Finish(task, reason))
    BY DEF FailProvider, StopReasons
  <1> DEFINE t == Finish(task, reason)
  <1>3. t \in Tasks
    BY <1>1, InTurn, FinishType DEF TurnPcs, ToolPcs
  <1>4. Carries(t) /\ t.ck = task.ck /\ t.pc = "finishEvent"
    BY <1>1, InTurn DEF Carries, Finish, Tasks, TurnPcs, ToolPcs
  <1> HIDE DEF t
  <1> QED
    BY <1>1, <1>2, <1>3, <1>4, InTurn, Appended, TurnKeeps DEF t, TurnPcs, ToolPcs

LEMMA RetryProviderEffects ==
  ASSUME IndInv, EffectsInv, RetryProvider PROVE EffectsInv'
  <1> DEFINE t == [task EXCEPT !.pc = "retrySave", !.ck.retries = @ + 1]
  <1>1. task.pc = "model" /\ task.ck.retries < MaxProviderRetries /\ AppendEvent(t)
    BY DEF RetryProvider
  <1>2. task \in Tasks /\ task.ck \in Checkpoints /\ MaxProviderRetries \in Nat
    BY <1>1, InTurn DEF TurnPcs, ToolPcs
  <1>3. task.ck.retries + 1 \in Nat /\ task.ck.retries + 1 <= MaxProviderRetries
    BY <1>1, <1>2 DEF Checkpoints
  <1>4. t \in Tasks /\ t.ck \in Checkpoints
    <2>1. "retrySave" \in TaskPcs
      BY AfterSavePoints DEF TaskPcs, AgentPcs
    <2> QED BY <1>2, <1>3, <2>1 DEF Tasks, Checkpoints
  <1>5. /\ Carries(t) /\ t.pc = "retrySave"
        /\ t.ck.iters = task.ck.iters /\ t.ck.usage = task.ck.usage
        /\ t.ck.repairs = task.ck.repairs /\ t.ck.pending = task.ck.pending
        /\ t.ck.retries = task.ck.retries + 1
    BY <1>2 DEF Carries, Tasks, Checkpoints
  <1> HIDE DEF t
  <1>6. Spends(t.ck, task.ck) /\ WithinBounds(t.ck) /\ t.ck.pending = NoCall
    BY <1>1, <1>3, <1>5, InTurn DEF Spends, WithinBounds, TurnPcs, ToolPcs
  <1> QED
    BY <1>1, <1>4, <1>5, <1>6, InTurn, Appended, TurnKeeps DEF TurnPcs, ToolPcs

\* A reply: its calls are new, and the budget of failures holds for all of them.
LEMMA ReceiveReplyEffects ==
  ASSUME IndInv, IndInv', EffectsInv, ReceiveReply PROVE EffectsInv'
  <1> DEFINE u(used) == [task EXCEPT !.ck.iters = @ + 1, !.ck.retries = 0,
                                     !.ck.usage = @ + used]
  <1>1. task.pc = "model"
    BY DEF ReceiveReply
  <1>2. PICK reply \in Replies, used \in 0..1, cut \in BOOLEAN :
          /\ Fresh(reply)
          /\ AppendReply(
               IF u(used).ck.usage > MaxUsage THEN Finish(u(used), "usage_limit")
               ELSE IF reply # <<>> THEN [u(used) EXCEPT !.pc = "calls", !.batch = reply]
               ELSE Finish(u(used), IF cut THEN "output_limit" ELSE "completed"))
    BY DEF ReceiveReply
  <1>3. /\ task \in Tasks /\ task.ck \in Checkpoints /\ seq \in Nat
        /\ task.ck.iters < MaxIterations /\ task.ck.repairs <= MaxRepairs
        /\ WithinBounds(task.ck) /\ task.ck.pending = NoCall
    BY <1>1, InTurn DEF TurnPcs, ToolPcs, EffectsInv, BudgetInv
  <1>4. /\ task.ck.iters + 1 \in Nat /\ task.ck.usage + used \in Nat
        /\ task.ck.iters + 1 <= MaxIterations /\ task.ck.iters + 1 >= task.ck.iters
        /\ task.ck.usage + used >= task.ck.usage /\ MaxProviderRetries >= 0
    <2>1. used \in Nat /\ task.ck.iters \in Nat /\ task.ck.usage \in Nat
      BY <1>3 DEF Checkpoints
    <2> QED BY <1>3, <2>1
  <1>5. u(used) \in Tasks
    BY <1>3, <1>4 DEF Tasks, Checkpoints
  <1>6. /\ u(used).pc = task.pc /\ Carries(u(used)) /\ u(used).ck.pending = NoCall
        /\ u(used).ck.iters = task.ck.iters + 1 /\ u(used).ck.usage = task.ck.usage + used
        /\ u(used).ck.repairs = task.ck.repairs /\ u(used).ck.retries = 0
        /\ u(used).ck \in Checkpoints
    BY <1>3, <1>4 DEF Tasks, Checkpoints, Carries
  <1>7. Spends(u(used).ck, task.ck) /\ WithinBounds(u(used).ck)
    <2> HIDE DEF u
    <2>1. task.ck.repairs >= task.ck.repairs /\ task.ck.repairs \in Nat
      BY <1>3 DEF Checkpoints
    <2> QED BY <1>3, <1>4, <1>6, <2>1 DEF Spends, WithinBounds
  <1>8. CASE \E reason \in StopReasons : AppendReply(Finish(u(used), reason))
    <2> HIDE DEF u
    <2>1. PICK reason \in StopReasons : AppendReply(Finish(u(used), reason))
      BY <1>8
    <2> DEFINE t == Finish(u(used), reason)
    <2>2. t \in Tasks
      BY <1>5, FinishType
    <2>3. Carries(t) /\ t.ck = u(used).ck /\ t.pc = "finishEvent"
      BY <1>5, <1>6 DEF Finish, Carries, Tasks
    <2> HIDE DEF t
    <2> QED
      BY <1>1, <1>3, <1>6, <1>7, <2>1, <2>2, <2>3, Appended, TurnKeeps
      DEF t, TurnPcs, ToolPcs
  <1>9. CASE AppendReply([u(used) EXCEPT !.pc = "calls", !.batch = reply])
    <2> DEFINE t == [u(used) EXCEPT !.pc = "calls", !.batch = reply]
    <2>1. reply \in Seq(Kinds) /\ Len(reply) <= MaxBatch
      <3>1. PICK n \in 0..MaxBatch : reply \in [1..n -> Kinds]
        BY DEF Replies
      <3>2. reply \in Seq(Kinds) /\ Len(reply) = n
        BY <3>1
      <3> QED BY <3>2
    <2>2. /\ t \in Tasks /\ t.pc = "calls" /\ t.batch = reply /\ Carries(t)
          /\ t.ck = u(used).ck
      <3> HIDE DEF u
      <3>1. "calls" \in TaskPcs
        BY DEF TaskPcs, AgentPcs
      <3> QED BY <1>5, <1>6, <2>1, <3>1 DEF Tasks, Carries
    <2>3. /\ task'.pc = "calls" /\ task'.batch = reply /\ Carries(task')
          /\ task'.ck = u(used).ck /\ task'.last > 0
          /\ UNCHANGED <<run, snapshot, approvals, handler, executed, kept>>
      <3> HIDE DEF u, t
      <3> QED BY <1>3, <1>9, <2>2, Appended DEF t, Carries
    <2> HIDE DEF u, t
    <2>4. PendingInv'
      BY <1>1, <1>6, <2>3, Points, AgentPoints
      DEF EffectsInv, PendingInv, Carries, TurnPcs, ToolPcs, FinishPcs, Unlogged
    <2>5. SpentInv'
      <3>1. Spends(task.ck, snapshot.doc) /\ snapshot.doc \in Checkpoints
        BY <1>1, Points, Knows DEF EffectsInv, SpentInv, Spends
      <3>2. Spends(u(used).ck, snapshot.doc)
        BY <1>3, <1>6, <1>7, <3>1 DEF Spends, Checkpoints
      <3> QED BY <2>3, <3>2 DEF SpentInv, Spends
    <2>6. BudgetInv'
      <3>1. u(used).ck.repairs + Len(reply) <= MaxRepairs + MaxBatch
        <4>1. /\ task.ck.repairs \in Nat /\ Len(reply) \in Nat
              /\ MaxRepairs \in Nat /\ MaxBatch \in Nat
          BY <1>3, <2>1 DEF Checkpoints
        <4> QED BY <1>3, <1>6, <2>1, <4>1
      <3> QED BY <1>7, <2>3, <3>1 DEF EffectsInv, BudgetInv, WithinBounds, ToolPcs
    <2>7. RepeatInv'
      <3> SUFFICES ASSUME MintsIds PROVE RepeatInv'
        BY DEF RepeatInv
      <3>1. \A i \in 1..Len(reply) : reply[i] \in Calls =>
                /\ Settled(reply[i])
                /\ \A j \in 1..Len(reply) : reply[j] = reply[i] => j = i
        <4>1. DOMAIN reply = 1..Len(reply)
          BY <2>1
        <4>2. crashes + faults >= 0 /\ crashes + faults \in Nat
          BY DEF IndInv, TypeOK
        <4> QED BY <1>2, <4>1, <4>2 DEF Fresh, Settled
      <3> QED
        BY <1>1, <1>6, <2>3, <3>1
        DEF EffectsInv, RepeatInv, Settled, EffectsRepeatOnlyByFailure, kept, ToolPcs
    <2>8. AllowedInv'
      BY <1>1, <2>3, NothingDecided DEF Carries, kept
    <2> QED BY <2>4, <2>5, <2>6, <2>7, <2>8 DEF EffectsInv
  <1> HIDE DEF u
  <1> QED BY <1>2, <1>8, <1>9 DEF StopReasons

-----------------------------------------------------------------------------
(* Events, checkpoints and the pending call *)

LEMMA AppendLifecycleEventEffects ==
  ASSUME IndInv, EffectsInv, AppendLifecycleEvent PROVE EffectsInv'
  <1>1. task \in Tasks /\ seq \in Nat
    BY Knows
  <1>2. PICK pc \in {"startSave", "askSave", "reissueSave", "finishSave", "model"} :
          /\ AppendEvent([task EXCEPT !.pc = pc])
          /\ task.pc = CASE pc = "startSave"   -> "startEvent"
                         [] pc = "askSave"     -> "askEvent"
                         [] pc = "reissueSave" -> "reissueEvent"
                         [] pc = "finishSave"  -> "finishEvent"
                         [] pc = "model"       -> "modelEvent"
    BY Zenon DEF AppendLifecycleEvent
  <1> DEFINE t == [task EXCEPT !.pc = pc]
  <1>3. t \in Tasks
    <2>1. pc \in TaskPcs
      BY AfterSavePoints DEF TaskPcs, AgentPcs
    <2> QED BY <1>1, <2>1, AtType
  <1>4. t.pc = pc /\ t.ck = task.ck /\ t.batch = task.batch /\ Carries(t)
    BY <1>1 DEF Tasks, Carries
  <1>5. /\ task'.pc = pc /\ task'.ck = task.ck /\ Carries(task') /\ task'.last > 0
        /\ UNCHANGED <<run, snapshot, approvals, handler, executed, kept>>
    <2> HIDE DEF t
    <2> QED BY <1>1, <1>2, <1>3, <1>4, Appended DEF t, Carries
  <1> HIDE DEF t
  <1>6. PendingInv'
    BY <1>2, <1>5, Points, AgentPoints
    DEF EffectsInv, PendingInv, Carries, TurnPcs, ToolPcs, FinishPcs, Unlogged
  <1>7. SpentInv' /\ BudgetInv'
    BY <1>2, <1>5, Points DEF EffectsInv, SpentInv, BudgetInv, WithinBounds, ToolPcs
  <1>8. RepeatInv'
    BY <1>2, <1>5, Points, NothingRun DEF history, kept, ToolPcs
  <1>9. AllowedInv'
    BY <1>2, <1>5
    DEF EffectsInv, AllowedInv, Allowed, Denied, Carries, kept
  <1> QED BY <1>6, <1>7, <1>8, <1>9 DEF EffectsInv

\* What a save stores; it never loses its compare-and-swap.
LEMMA SaveCheckpointEffects ==
  ASSUME IndInv, EffectsInv, SaveCheckpoint PROVE EffectsInv'
  <1>1. /\ task.pc \in DOMAIN AfterSave /\ task.pc \in LoadedPcs \ Unlogged
        /\ task \in Tasks /\ task.ck \in Checkpoints
    BY Knows, Points, AfterSavePoints DEF SaveCheckpoint, Unlogged
  <1>2. snapshot.covered = task.exp /\ seq > 0 /\ task.last <= seq
    BY <1>1 DEF IndInv, CheckpointInv, Unlogged
  <1>3. /\ snapshot'.covered = task.last /\ snapshot'.doc = task.ck
        /\ task'.pc = AfterSave[task.pc] /\ task'.ck = task.ck /\ Carries(task')
        /\ task'.batch = task.batch /\ task'.last = task.last
        /\ UNCHANGED <<run, approvals, handler, executed, history>>
    <2>1. /\ snapshot' = [covered |-> task.last, doc |-> task.ck]
          /\ task' = [task EXCEPT !.pc = AfterSave[task.pc], !.exp = task.last]
          /\ UNCHANGED <<run, approvals, handler, executed, history>>
      BY <1>2 DEF SaveCheckpoint
    <2> QED BY <1>1, <2>1 DEF Tasks, Carries
  <1>4. task.last > 0
    BY <1>1 DEF EffectsInv, PendingInv
  <1>5. PendingInv'
    BY <1>1, <1>3, <1>4, Points, AgentPoints, AfterSavePoints
    DEF EffectsInv, PendingInv, Carries, TurnPcs, ToolPcs, FinishPcs, Unlogged
  <1>6. SpentInv'
    <2>1. Spends(task.ck, task.ck)
      BY <1>1 DEF Spends, Checkpoints
    <2> QED BY <1>3, <2>1 DEF SpentInv, Spends
  <1>7. BudgetInv'
    BY <1>1, <1>3, Points, AfterSavePoints
    DEF EffectsInv, BudgetInv, WithinBounds, ToolPcs
  <1>8. RepeatInv'
    BY <1>1, <1>3, Points, AfterSavePoints
    DEF EffectsInv, RepeatInv, Settled, EffectsRepeatOnlyByFailure, history, ToolPcs
  <1>9. AllowedInv'
    <2>1. task.pc \in ReissuePcs \cup FinishPcs =>
            \/ task.st = "running" /\ task.pc \in FinishPcs
            \/ run.state = "awaiting_approval"
      BY <1>1, Points DEF IndInv, PointInv, VersionInv, ReissuePcs, FinishPcs
    <2>2. task.ck.pending # NoCall =>
            task.pc \in {"startSave", "askSave"} \cup ReissuePcs \cup FinishPcs
      BY <1>1, AfterSavePoints DEF EffectsInv, PendingInv, TurnPcs, ReissuePcs, FinishPcs
    <2>3. task.ck.pending # NoCall =>
            task.pc \in {"startSave", "askSave"} \/ run.state = "awaiting_approval"
      BY <2>1, <2>2 DEF EffectsInv, PendingInv
    <2> QED
      BY <1>1, <1>3, <2>3, AfterSavePoints
      DEF EffectsInv, AllowedInv, Allowed, Denied, Carries, history
  <1> QED BY <1>5, <1>6, <1>7, <1>8, <1>9 DEF EffectsInv

\* The task goes out of the agent while nothing it relied on changes; a wait that is
\* cut off strands its call.
LEMMA FailEffects ==
  ASSUME IndInv, IndInv', EffectsInv,
         task'.pc \in {"mark", "markEvent", "markCas", "exit"},
         task'.ok = task.ok,
         UNCHANGED <<run, snapshot, approvals, handler, executed>>,
         \/ Fails /\ stranded' = stranded \cup CutOff /\ UNCHANGED authorized
         \/ UNCHANGED history /\ task.pc \notin {"observe", "resumedSave", "askCas"}
  PROVE  EffectsInv'
  <1>1. PendingInv' /\ SpentInv' /\ BudgetInv' /\ RepeatInv'
    BY Leaves, Zenon
  <1>2. AllowedInv'
    <2>1. CASE UNCHANGED history /\ task.pc # "askCas"
      BY <2>1, NothingDecided DEF history
    <2>2. CASE stranded' = stranded \cup CutOff /\ UNCHANGED authorized
      <3>1. task.pc = "askCas" => snapshot.doc.pending \in stranded'
        BY <2>2 DEF CutOff, EffectsInv, PendingInv
      <3> QED BY <2>2, <3>1 DEF EffectsInv, AllowedInv, Allowed, Denied
    <2> QED BY <2>1, <2>2
  <1> QED BY <1>1, <1>2 DEF EffectsInv

LEMMA ResumePendingEffects ==
  ASSUME IndInv, IndInv', EffectsInv, ResumePending PROVE EffectsInv'
  <1>1. /\ task.pc = "resume" /\ task \in Tasks /\ task.ck \in Checkpoints
        /\ snapshot.doc.pending = task.ck.pending /\ task.last > 0
    BY Knows, Points DEF ResumePending, EffectsInv, PendingInv, Unlogged
  <1>2. UNCHANGED <<run, snapshot, approvals, handler, executed, history>>
    BY DEF ResumePending, Fail, Goto, store
  <1>3. CASE task.ck.pending = NoCall /\ Goto([task EXCEPT !.pc = "loop"])
    <2>1. /\ task'.pc = "loop" /\ task'.ck = task.ck /\ Carries(task')
          /\ task'.last = task.last
      BY <1>1, <1>3 DEF Goto, Tasks, Carries
    <2>2. PendingInv'
      BY <1>1, <1>2, <1>3, <2>1, Points, AgentPoints
      DEF EffectsInv, PendingInv, Carries, TurnPcs, ToolPcs, FinishPcs, Unlogged
    <2>3. SpentInv' /\ BudgetInv'
      BY <1>1, <1>2, <2>1, Points
      DEF EffectsInv, SpentInv, BudgetInv, WithinBounds, ToolPcs
    <2>4. RepeatInv'
      BY <1>1, <1>2, <2>1, Points, NothingRun DEF history, kept, ToolPcs
    <2>5. AllowedInv'
      BY <1>1, <1>2, <2>1, NothingDecided DEF Carries, history
    <2> QED BY <2>2, <2>3, <2>4, <2>5 DEF EffectsInv
  <1>4. CASE Fail
    <2>1. task'.pc = "mark" /\ task'.ok = task.ok
      BY <1>1, <1>4 DEF Fail, Goto, Tasks
    <2> QED BY <1>1, <1>2, <2>1, FailEffects
  <1>5. CASE /\ task.ck.pending # NoCall
             /\ Goto([task EXCEPT !.pc = "invoke", !.resumed = TRUE,
                                  !.batch = <<task.ck.pending>>,
                                  !.ck.pending = NoCall, !.ck.lapsed = FALSE])
    <2>1. /\ task'.pc = "invoke" /\ task'.resumed = TRUE /\ task'.st = task.st
          /\ task'.batch = <<task.ck.pending>> /\ task'.ok = task.ok
          /\ task'.last = task.last /\ task'.ck.pending = NoCall
          /\ task'.ck.iters = task.ck.iters /\ task'.ck.usage = task.ck.usage
          /\ task'.ck.repairs = task.ck.repairs /\ task'.ck.retries = task.ck.retries
      BY <1>1, <1>5 DEF Goto, Tasks, Checkpoints
    <2>2. PendingInv'
      BY <1>1, <1>2, <2>1, Points, AgentPoints
      DEF EffectsInv, PendingInv, TurnPcs, ToolPcs, FinishPcs, Unlogged
    <2>3. SpentInv' /\ BudgetInv'
      <3>1. task.ck.repairs + 1 <= MaxRepairs + MaxBatch
        BY <1>1, <1>5, Points DEF EffectsInv, BudgetInv, WithinBounds
      <3>2. Len(task'.batch) = 1
        BY <2>1
      <3> QED
        BY <1>1, <1>2, <2>1, <3>1, <3>2, Points
        DEF EffectsInv, SpentInv, BudgetInv, WithinBounds, ToolPcs
    <2>4. RepeatInv'
      <3>1. MintsIds => Settled(task.ck.pending) /\ Settled(snapshot.doc.pending)
        BY <1>1, <1>5, Points DEF EffectsInv, RepeatInv
      <3>2. Len(task'.batch) = 1 /\ task'.batch[1] = task.ck.pending
        BY <2>1
      <3>3. 1..1 = {1}
        OBVIOUS
      <3> QED
        BY <1>1, <1>2, <2>1, <3>1, <3>2, <3>3
        DEF EffectsInv, RepeatInv, Settled, EffectsRepeatOnlyByFailure, history
    <2>5. AllowedInv'
      <3>1. Head(task'.batch) = task.ck.pending
        BY <2>1
      <3> QED
        BY <1>1, <1>2, <1>5, <2>1, <3>1
        DEF EffectsInv, AllowedInv, Allowed, Denied, history
    <2> QED BY <2>2, <2>3, <2>4, <2>5 DEF EffectsInv
  <1> QED BY <1>3, <1>4, <1>5 DEF ResumePending

-----------------------------------------------------------------------------
(* Tool calls *)

\* An effect call reaches its tool: only the call at the head of the reply.
LEMMA InvokeToolEffects ==
  ASSUME IndInv, IndInv', EffectsInv, InvokeTool PROVE EffectsInv'
  <1>1. /\ task.pc = "invoke" /\ task \in Tasks /\ task.batch \in Seq(Kinds)
        /\ task.batch # <<>> /\ task.last > 0 /\ executed \in [Calls -> Nat]
        /\ crashes \in Nat /\ faults \in Nat
    BY Knows, Points DEF InvokeTool, EffectsInv, PendingInv, Unlogged, ToolPcs
  <1>2. /\ task'.pc = "observe" /\ task'.ck = task.ck /\ Carries(task')
        /\ task'.last = task.last /\ task'.batch = task.batch
        /\ UNCHANGED <<run, snapshot, approvals, handler, history>>
    BY <1>1 DEF InvokeTool, store, Tasks, Carries
  <1>3. Len(task.batch) \in Nat /\ Len(task.batch) >= 1 /\ Head(task.batch) = task.batch[1]
    BY <1>1
  <1>4. \A c \in Calls :
          executed'[c] = IF c = task.batch[1] THEN executed[c] + 1 ELSE executed[c]
    BY <1>3 DEF InvokeTool
  <1>5. PendingInv'
    BY <1>1, <1>2, Points, AgentPoints
    DEF EffectsInv, PendingInv, Carries, TurnPcs, ToolPcs, FinishPcs, Unlogged
  <1>6. SpentInv' /\ BudgetInv'
    BY <1>1, <1>2, Points
    DEF EffectsInv, SpentInv, BudgetInv, WithinBounds, ToolPcs
  <1>7. RepeatInv'
    <2> SUFFICES ASSUME MintsIds PROVE RepeatInv'
      BY DEF RepeatInv
    <2>1. \A i \in 1..Len(task.batch) : task.batch[i] \in Calls => Settled(task.batch[i])
      BY <1>1 DEF EffectsInv, RepeatInv, ToolPcs
    <2>2. EffectsRepeatOnlyByFailure'
      <3> SUFFICES ASSUME NEW c \in Calls PROVE executed'[c] <= 1 + crashes + faults
        BY <1>2 DEF EffectsRepeatOnlyByFailure, history
      <3>1. executed[c] <= 1 + crashes + faults /\ executed[c] \in Nat
        BY <1>1 DEF EffectsInv, RepeatInv, EffectsRepeatOnlyByFailure
      <3>2. CASE c = task.batch[1]
        <4>1. executed[c] <= crashes + faults
          BY <1>3, <2>1, <3>2 DEF Settled
        <4> QED BY <1>1, <1>4, <3>1, <3>2, <4>1
      <3>3. CASE c # task.batch[1]
        BY <1>4, <3>1, <3>3
      <3> QED BY <3>2, <3>3
    <2>3. \A i \in 1..Len(task.batch) :
            task.batch[i] \in Calls => Settled(task.batch[i])' \/ i = 1
      <3> SUFFICES ASSUME NEW i \in 1..Len(task.batch), task.batch[i] \in Calls, i # 1
                   PROVE  executed'[task.batch[i]] <= crashes + faults
        BY <1>2 DEF Settled, history
      <3>1. task.batch[i] # task.batch[1]
        BY <1>1, <1>3 DEF EffectsInv, RepeatInv, ToolPcs
      <3> QED BY <1>4, <2>1, <3>1 DEF Settled
    <2> QED
      BY <1>1, <1>2, <2>2, <2>3
      DEF EffectsInv, PendingInv, RepeatInv, Settled, ToolPcs, TurnPcs
  <1>8. AllowedInv'
    BY <1>1, <1>2, NothingDecided DEF Carries, history
  <1> QED BY <1>5, <1>6, <1>7, <1>8 DEF EffectsInv

LEMMA RefuseToolEffects ==
  ASSUME IndInv, EffectsInv, RefuseTool PROVE EffectsInv'
  <1>1. /\ task.pc = "invoke" /\ task \in Tasks /\ task.last > 0
    BY Knows, Points DEF RefuseTool, EffectsInv, PendingInv, Unlogged
  <1>2. /\ task'.pc = "refused" /\ task'.ck = task.ck /\ Carries(task')
        /\ task'.last = task.last /\ task'.batch = task.batch
        /\ UNCHANGED <<run, snapshot, approvals, handler, executed, history>>
    BY <1>1 DEF RefuseTool, Goto, store, Tasks, Carries
  <1>3. PendingInv'
    BY <1>1, <1>2, Points, AgentPoints
    DEF EffectsInv, PendingInv, Carries, TurnPcs, ToolPcs, FinishPcs, Unlogged
  <1>4. SpentInv' /\ BudgetInv'
    BY <1>1, <1>2, Points
    DEF EffectsInv, SpentInv, BudgetInv, WithinBounds, ToolPcs
  <1>5. RepeatInv'
    <2>1. MintsIds =>
            \A i \in 1..Len(task.batch) : task.batch[i] \in Calls => Settled(task.batch[i])
      BY <1>1 DEF EffectsInv, RepeatInv, ToolPcs
    <2>2. snapshot.doc.pending # NoCall /\ MintsIds => Settled(snapshot.doc.pending)
      BY <1>1 DEF EffectsInv, RepeatInv
    <2> QED
      BY <1>1, <1>2, <2>1, <2>2
      DEF EffectsInv, PendingInv, RepeatInv, Settled, EffectsRepeatOnlyByFailure, history,
          ToolPcs, TurnPcs
  <1>6. AllowedInv'
    BY <1>1, <1>2, NothingDecided DEF Carries, history
  <1> QED BY <1>3, <1>4, <1>5, <1>6 DEF EffectsInv

\* What is left of a reply once its first call is done with.
LEMMA Rest ==
  ASSUME NEW S, NEW s \in Seq(S), s # <<>>
  PROVE  /\ Tail(s) \in Seq(S) /\ Len(s) \in Nat /\ Len(Tail(s)) + 1 = Len(s)
         /\ Len(Tail(s)) \in Nat
         /\ \A i \in 1..Len(Tail(s)) : Tail(s)[i] = s[i + 1] /\ i + 1 \in 1..Len(s)
  OBVIOUS

LEMMA RestOfReply ==
  ASSUME IndInv, EffectsInv, task.batch # <<>>,
         task.pc \in ToolPcs \cup {"calls", "callSave"}
  PROVE  /\ Tail(task.batch) \in Seq(Kinds) /\ Len(Tail(task.batch)) \in Nat
         /\ \A n \in Nat : n <= task.ck.repairs + 1 =>
               /\ n + Len(Tail(task.batch)) <= MaxRepairs + MaxBatch
               /\ n <= MaxRepairs + MaxBatch
         /\ MintsIds => \A i \in 1..Len(Tail(task.batch)) :
               Tail(task.batch)[i] \in Calls => Settled(Tail(task.batch)[i])
         /\ MintsIds => \A i, j \in 1..Len(Tail(task.batch)) :
               Tail(task.batch)[i] \in Calls /\ Tail(task.batch)[i] = Tail(task.batch)[j]
                   => i = j
  <1> DEFINE b == Tail(task.batch)
             l == Len(b)
             r == task.ck.repairs
             m == MaxRepairs + MaxBatch
  <1>1. task.batch \in Seq(Kinds) /\ task.ck \in Checkpoints
    BY Knows
  <1>2. /\ b \in Seq(Kinds) /\ l \in Nat /\ l + 1 = Len(task.batch)
        /\ \A i \in 1..l : b[i] = task.batch[i + 1] /\ i + 1 \in 1..Len(task.batch)
    BY <1>1, Rest
  <1>3. r \in Nat /\ m \in Nat /\ r + Len(task.batch) <= m
    <2>1. r \in Nat
      BY <1>1 DEF Checkpoints
    <2>2. m \in Nat
      OBVIOUS
    <2>3. r + Len(task.batch) <= m
      BY DEF EffectsInv, BudgetInv
    <2> QED BY <2>1, <2>2, <2>3
  <1> HIDE DEF b, l, r, m
  <1>4. r + (l + 1) <= m
    BY <1>2, <1>3
  <1>5. \A n \in Nat : n <= r + 1 => n + l <= m /\ n <= m
    <2>1. l \in Nat /\ r \in Nat /\ m \in Nat
      BY <1>2, <1>3
    <2> QED BY <1>4, <2>1
  <1>6. ASSUME MintsIds
        PROVE  /\ \A i \in 1..l : b[i] \in Calls => Settled(b[i])
               /\ \A i, j \in 1..l : b[i] \in Calls /\ b[i] = b[j] => i = j
    <2>1. \A i \in 1..l : i + 1 # 1 /\ \A j \in 1..l : i + 1 = j + 1 => i = j
      OBVIOUS
    <2>2. ASSUME NEW i \in 1..l, b[i] \in Calls PROVE Settled(b[i])
      <3>1. b[i] = task.batch[i + 1] /\ i + 1 \in 1..Len(task.batch) /\ i + 1 # 1
        BY <1>2, <2>1
      <3> QED BY <1>6, <2>2, <3>1 DEF EffectsInv, RepeatInv
    <2>3. \A i, j \in 1..l : b[i] \in Calls /\ b[i] = b[j] => i + 1 = j + 1
      BY <1>2, <1>6 DEF EffectsInv, RepeatInv
    <2> QED BY <2>1, <2>2, <2>3
  <1> QED BY <1>2, <1>5, <1>6 DEF b, l, r, m

LEMMA RecordObservationEffects ==
  ASSUME IndInv, EffectsInv, RecordObservation PROVE EffectsInv'
  <1>1. /\ task.pc \in {"observe", "refused"} /\ task \in Tasks
        /\ task.ck \in Checkpoints /\ task.ck.pending = NoCall /\ WithinBounds(task.ck)
        /\ task.batch \in Seq(Kinds) /\ task.batch # <<>> /\ seq \in Nat
        /\ task.ck.repairs + Len(task.batch) <= MaxRepairs + MaxBatch
        /\ task.resumed \/ snapshot.doc.pending = NoCall
    BY Knows, Points
    DEF RecordObservation, EffectsInv, PendingInv, BudgetInv, ToolPcs, TurnPcs
  <1>2. PICK ok \in BOOLEAN :
          LET repairs == task.ck.repairs + (IF ok THEN 0 ELSE 1)
          IN  AppendEvent([task EXCEPT !.pc = AfterCall(repairs),
                                       !.ck.repairs = repairs,
                                       !.batch = Tail(task.batch),
                                       !.resumed = FALSE,
                                       !.fin = IF AfterCall(repairs) = "finishEvent"
                                               THEN "repair_limit" ELSE @])
    BY DEF RecordObservation
  <1> DEFINE n == task.ck.repairs + (IF ok THEN 0 ELSE 1)
             t == [task EXCEPT !.pc = AfterCall(n), !.ck.repairs = n,
                               !.batch = Tail(task.batch), !.resumed = FALSE,
                               !.fin = IF AfterCall(n) = "finishEvent"
                                       THEN "repair_limit" ELSE @]
  <1>3. n \in Nat /\ n >= task.ck.repairs /\ n <= task.ck.repairs + 1
    <2>1. task.ck.repairs \in Nat
      BY <1>1 DEF Checkpoints
    <2> QED BY <2>1
  <1> HIDE DEF n
  <1>4. AfterCall(n) \in TaskPcs /\ "repair_limit" \in StopReasons
    BY AfterSavePoints DEF AfterCall, TaskPcs, AgentPcs, StopReasons
  <1>5. t \in Tasks
    BY <1>1, <1>3, <1>4, Rest DEF Tasks, Checkpoints
  <1>6. /\ t.pc = AfterCall(n) /\ t.batch = Tail(task.batch) /\ t.resumed = FALSE
        /\ t.ok = task.ok /\ t.ck.repairs = n /\ t.ck.iters = task.ck.iters
        /\ t.ck.usage = task.ck.usage /\ t.ck.retries = task.ck.retries
        /\ t.ck.pending = NoCall
    BY <1>1 DEF Tasks, Checkpoints
  <1>7. /\ task'.pc = t.pc /\ task'.ck = t.ck /\ task'.ok = t.ok
        /\ task'.resumed = t.resumed /\ task'.batch = t.batch /\ task'.last > 0
        /\ UNCHANGED <<run, snapshot, approvals, handler, executed, kept>>
    <2> HIDE DEF t
    <2> QED BY <1>1, <1>2, <1>5, Appended DEF t, n
  <1> HIDE DEF t
  <1>8. /\ t.pc \in {"resumedSave", "finishEvent", "callSave"}
        /\ t.pc # "resumedSave" => snapshot.doc.pending = NoCall
    BY <1>1, <1>6 DEF AfterCall
  <1>9. PendingInv'
    BY <1>6, <1>7, <1>8, Points, AgentPoints
    DEF EffectsInv, PendingInv, TurnPcs, ToolPcs, FinishPcs, Unlogged
  <1>10. SpentInv'
    <2>1. Spends(task.ck, snapshot.doc) /\ snapshot.doc \in Checkpoints
      BY <1>1, Points, Knows DEF EffectsInv, SpentInv, Spends
    <2>2. Spends(t.ck, snapshot.doc)
      <3>1. /\ task.ck.repairs \in Nat /\ snapshot.doc.repairs \in Nat
            /\ task.ck.repairs >= snapshot.doc.repairs
        BY <1>1, <2>1 DEF Spends, Checkpoints
      <3>2. n >= snapshot.doc.repairs
        BY <1>3, <3>1
      <3> QED BY <1>6, <2>1, <3>2 DEF Spends
    <2> QED BY <1>7, <2>2 DEF SpentInv, Spends
  <1>11. BudgetInv'
    <2>1. n + Len(Tail(task.batch)) <= MaxRepairs + MaxBatch /\ n <= MaxRepairs + MaxBatch
      BY <1>1, <1>3, RestOfReply DEF ToolPcs
    <2> QED
      BY <1>1, <1>6, <1>7, <1>8, <2>1 DEF EffectsInv, BudgetInv, WithinBounds, ToolPcs
  <1>12. RepeatInv'
    <2> SUFFICES ASSUME MintsIds PROVE RepeatInv'
      BY DEF RepeatInv
    <2> DEFINE b == Tail(task.batch)
    <2>1. \A i \in 1..Len(b) : b[i] \in Calls => Settled(b[i])
      BY <1>1, RestOfReply DEF ToolPcs
    <2>2. \A i, j \in 1..Len(b) : b[i] \in Calls /\ b[i] = b[j] => i = j
      BY <1>1, RestOfReply DEF ToolPcs
    <2> HIDE DEF b
    <2> QED
      BY <1>6, <1>7, <1>8, <2>1, <2>2
      DEF b, EffectsInv, RepeatInv, Settled, EffectsRepeatOnlyByFailure, kept, ToolPcs
  <1>13. AllowedInv'
    BY <1>1, <1>6, <1>7, <1>8, NothingDecided DEF kept
  <1> QED BY <1>9, <1>10, <1>11, <1>12, <1>13 DEF EffectsInv

\* The next call of a reply is refused, run, or asked for.
LEMMA TakeCallEffects ==
  ASSUME IndInv, EffectsInv, TakeCall PROVE EffectsInv'
  <1>1. /\ task.pc = "calls" /\ task \in Tasks /\ task.ck \in Checkpoints
        /\ task.ck.pending = NoCall /\ WithinBounds(task.ck)
        /\ task.batch \in Seq(Kinds) /\ seq \in Nat /\ task.last > 0
        /\ snapshot.doc.pending = NoCall /\ ~task.resumed
    BY Knows, Points, AgentPoints, InTurn
    DEF TakeCall, EffectsInv, PendingInv, ToolPcs, TurnPcs, Unlogged
  <1>2. CASE Goto([task EXCEPT !.pc = "loop"])
    <2>1. /\ task'.pc = "loop" /\ task'.ck = task.ck /\ Carries(task')
          /\ task'.last = task.last
          /\ UNCHANGED <<run, snapshot, approvals, handler, executed, kept>>
      BY <1>1, <1>2, Keeps DEF Goto, store, Tasks, Carries
    <2> DEFINE t == [task EXCEPT !.pc = "loop"]
    <2>2. t.pc = "loop" /\ t.ck = task.ck /\ Carries(t)
      BY <1>1 DEF Tasks, Carries
    <2> HIDE DEF t
    <2> QED
      BY <1>1, <2>1, <2>2, InTurn, TurnKeeps DEF TurnPcs, ToolPcs, Carries
  <1>3. CASE /\ task.batch # <<>>
             /\ AppendEvent([task EXCEPT !.ck.repairs = @ + 1, !.batch = Tail(@)])
    <2> DEFINE t == [task EXCEPT !.ck.repairs = @ + 1, !.batch = Tail(@)]
               b == Tail(task.batch)
    <2>1. /\ b \in Seq(Kinds) /\ task.ck.repairs + 1 \in Nat
          /\ task.ck.repairs + 1 >= task.ck.repairs /\ task.ck.repairs \in Nat
      <3>1. task.ck.repairs \in Nat
        BY <1>1 DEF Checkpoints
      <3>2. b \in Seq(Kinds)
        BY <1>1, <1>3, Rest
      <3>3. task.ck.repairs + 1 \in Nat /\ task.ck.repairs + 1 >= task.ck.repairs
        BY <3>1
      <3> QED BY <3>1, <3>2, <3>3
    <2>2. t \in Tasks
      BY <1>1, <2>1 DEF Tasks, Checkpoints
    <2>3. /\ t.pc = "calls" /\ t.batch = b /\ Carries(t)
          /\ t.ck.repairs = task.ck.repairs + 1 /\ t.ck.iters = task.ck.iters
          /\ t.ck.usage = task.ck.usage /\ t.ck.retries = task.ck.retries
          /\ t.ck.pending = NoCall
      BY <1>1 DEF Tasks, Checkpoints, Carries
    <2>4. /\ task'.pc = t.pc /\ task'.ck = t.ck /\ Carries(task')
          /\ task'.batch = t.batch /\ task'.last > 0
          /\ UNCHANGED <<run, snapshot, approvals, handler, executed, kept>>
      <3> HIDE DEF t
      <3> QED BY <1>1, <1>3, <2>2, <2>3, Appended DEF t, Carries
    <2>5. /\ \A n \in Nat : n <= task.ck.repairs + 1 =>
                n + Len(b) <= MaxRepairs + MaxBatch /\ n <= MaxRepairs + MaxBatch
          /\ MintsIds => \A i \in 1..Len(b) : b[i] \in Calls => Settled(b[i])
          /\ MintsIds => \A i, j \in 1..Len(b) : b[i] \in Calls /\ b[i] = b[j] => i = j
      BY <1>1, <1>3, RestOfReply
    <2> HIDE DEF t, b
    <2>6. PendingInv'
      BY <1>1, <2>3, <2>4, Points, AgentPoints
      DEF EffectsInv, PendingInv, Carries, TurnPcs, ToolPcs, FinishPcs, Unlogged
    <2>7. SpentInv'
      <3>1. Spends(task.ck, snapshot.doc) /\ snapshot.doc.repairs \in Nat
        BY <1>1, Points, Knows DEF EffectsInv, SpentInv, Spends, Checkpoints
      <3>2. t.ck.repairs >= snapshot.doc.repairs
        <4>1. task.ck.repairs >= snapshot.doc.repairs
          BY <3>1 DEF Spends
        <4>2. t.ck.repairs >= task.ck.repairs /\ t.ck.repairs \in Nat
          BY <2>1, <2>3
        <4> QED BY <2>1, <3>1, <4>1, <4>2
      <3> QED BY <2>3, <2>4, <3>1, <3>2 DEF SpentInv, Spends
    <2>8. BudgetInv'
      <3>1. t.ck.repairs + Len(b) <= MaxRepairs + MaxBatch
            /\ t.ck.repairs <= MaxRepairs + MaxBatch
        <4>1. PICK n \in Nat : n = task.ck.repairs + 1
          BY <2>1
        <4>2. n <= n
          BY <4>1
        <4>3. n + Len(b) <= MaxRepairs + MaxBatch /\ n <= MaxRepairs + MaxBatch
          BY <2>5, <4>1, <4>2
        <4> QED BY <2>3, <4>1, <4>3
      <3> QED
        BY <1>1, <2>3, <2>4, <3>1 DEF EffectsInv, BudgetInv, WithinBounds, ToolPcs
    <2>9. RepeatInv'
      BY <1>1, <2>3, <2>4, <2>5
      DEF EffectsInv, RepeatInv, Settled, EffectsRepeatOnlyByFailure, kept, ToolPcs
    <2>10. AllowedInv'
      BY <1>1, <2>3, <2>4, NothingDecided DEF Carries, kept
    <2> QED BY <2>6, <2>7, <2>8, <2>9, <2>10 DEF EffectsInv
  <1>4. CASE /\ NextCall \in {"read"} \cup (Calls \cap task.ok)
             /\ Goto([task EXCEPT !.pc = "invoke"])
    <2>1. /\ task'.pc = "invoke" /\ task'.ck = task.ck /\ Carries(task')
          /\ task'.last = task.last /\ task'.batch = task.batch
          /\ UNCHANGED <<run, snapshot, approvals, handler, executed, history>>
      BY <1>1, <1>4 DEF Goto, store, Tasks, Carries
    <2>2. PendingInv'
      BY <1>1, <2>1, Points, AgentPoints
      DEF EffectsInv, PendingInv, Carries, TurnPcs, ToolPcs, FinishPcs, Unlogged
    <2>3. SpentInv' /\ BudgetInv'
      BY <1>1, <2>1, Points DEF EffectsInv, SpentInv, BudgetInv, WithinBounds, ToolPcs
    <2>4. RepeatInv'
      <3>1. MintsIds =>
              \A i \in 1..Len(task.batch) : task.batch[i] \in Calls => Settled(task.batch[i])
        BY <1>1 DEF EffectsInv, RepeatInv, ToolPcs
      <3> QED
        BY <1>1, <2>1, <3>1
        DEF EffectsInv, RepeatInv, Settled, EffectsRepeatOnlyByFailure, history, ToolPcs
    <2>5. AllowedInv'
      <3>1. Head(task'.batch) \in Calls => Head(task'.batch) \in task.ok
        BY <1>4, <2>1 DEF NextCall
      <3> QED
        BY <1>1, <2>1, <3>1
        DEF EffectsInv, AllowedInv, Allowed, Denied, Carries, history
    <2> QED BY <2>2, <2>3, <2>4, <2>5 DEF EffectsInv
  <1>5. CASE /\ task.batch # <<>> /\ NextCall \in Calls \ task.ok
             /\ approvals' = [approvals EXCEPT ![NextCall] =
                                  IF @ = "none" THEN "pending" ELSE @]
             /\ task' = [task EXCEPT !.pc = "askEvent", !.batch = <<>>,
                                     !.ck.pending = NextCall, !.ck.lapsed = FALSE]
             /\ UNCHANGED <<run, seq, snapshot, cancel, handler, executed, history>>
    <2>1. /\ task'.pc = "askEvent" /\ Carries(task') /\ task'.last = task.last
          /\ task'.ck.pending = NextCall /\ task'.ck.iters = task.ck.iters
          /\ task'.ck.usage = task.ck.usage /\ task'.ck.repairs = task.ck.repairs
          /\ task'.ck.retries = task.ck.retries
      BY <1>1, <1>5 DEF Tasks, Checkpoints, Carries
    <2>2. PendingInv'
      BY <1>1, <1>5, <2>1, Points, AgentPoints
      DEF EffectsInv, PendingInv, Carries, TurnPcs, ToolPcs, FinishPcs, Unlogged
    <2>3. SpentInv' /\ BudgetInv'
      <3>1. task.ck.repairs + 1 <= MaxRepairs + MaxBatch
        <4>1. task.ck.repairs \in Nat /\ task.ck.repairs + 1 \in Nat
              /\ task.ck.repairs + 1 <= task.ck.repairs + 1
          <5>1. task.ck.repairs \in Nat
            BY <1>1 DEF Checkpoints
          <5> QED BY <5>1
        <4> QED BY <1>1, <1>5, <4>1, RestOfReply
      <3> QED
        BY <1>1, <1>5, <2>1, <3>1, Points
        DEF EffectsInv, SpentInv, BudgetInv, WithinBounds, ToolPcs
    <2>4. RepeatInv'
      <3>1. MintsIds => Settled(NextCall)
        <4>1. 1 \in 1..Len(task.batch) /\ NextCall = task.batch[1]
          BY <1>1, <1>5 DEF NextCall
        <4> QED BY <1>1, <1>5, <4>1 DEF EffectsInv, RepeatInv
      <3> QED
        BY <1>1, <1>5, <2>1, <3>1
        DEF EffectsInv, RepeatInv, Settled, EffectsRepeatOnlyByFailure, history, ToolPcs
    <2>5. AllowedInv'
      BY <1>1, <1>5, <2>1
      DEF EffectsInv, AllowedInv, Allowed, Denied, Carries, history
    <2> QED BY <2>2, <2>3, <2>4, <2>5 DEF EffectsInv
  <1> QED BY <1>2, <1>3, <1>4, <1>5 DEF TakeCall

-----------------------------------------------------------------------------
(* Taking and settling the run *)

LEMMA LoadRunEffects ==
  ASSUME IndInv, IndInv', EffectsInv, LoadRun PROVE EffectsInv'
  <1>1. /\ task.pc = "load" /\ task \in Tasks /\ ~task.resumed
        /\ snapshot.doc \in Checkpoints /\ Stored = snapshot.doc
        /\ task.ok \subseteq Calls
    BY Knows, AgentPoints DEF LoadRun, EffectsInv, PendingInv, Stored, ToolPcs, Tasks
  <1>2. UNCHANGED <<run, snapshot, handler, executed, history>>
    BY DEF LoadRun, Goto, store
  <1>3. Spends(snapshot.doc, snapshot.doc)
    BY <1>1 DEF Spends, Checkpoints
  <1>4. CASE /\ Goto(Loaded("claim", Stored))
             /\ \/ run.state \in {"proposed", "retryable"} \/ LegacyWallTimeRetry
                \/ Stored.pending \in task.ok
    <2>1. /\ task'.pc = "claim" /\ task'.ck = snapshot.doc /\ task'.ok = task.ok
          /\ ~task'.resumed /\ UNCHANGED approvals
      BY <1>1, <1>4 DEF Goto, store, Loaded, Tasks
    <2>2. PendingInv'
      BY <1>2, <2>1, Points, AgentPoints
      DEF EffectsInv, PendingInv, TurnPcs, ToolPcs, FinishPcs, Unlogged
    <2>3. SpentInv' /\ BudgetInv'
      BY <1>2, <1>3, <2>1 DEF EffectsInv, SpentInv, Spends, BudgetInv, WithinBounds, ToolPcs
    <2>4. RepeatInv'
      BY <1>1, <1>2, <2>1, NothingRun DEF history, kept, ToolPcs
    <2>5. AllowedInv'
      BY <1>1, <1>2, <1>4, <2>1
      DEF EffectsInv, AllowedInv, Allowed, Denied, history, LegacyWallTimeRetry
    <2> QED BY <2>2, <2>3, <2>4, <2>5 DEF EffectsInv
  <1>5. CASE \E pc \in {"mark", "exit"} : Goto(Loaded(pc, Stored))
    <2>1. /\ task'.pc \in {"mark", "exit"} /\ task'.ok = task.ok /\ UNCHANGED approvals
      BY <1>1, <1>5 DEF Goto, store, Loaded, Tasks
    <2> QED BY <1>1, <1>2, <2>1, FailEffects
  <1>6. CASE /\ run.state = "awaiting_approval"
             /\ Goto(Finish(Loaded("load", Stored), "approval_denied"))
    <2>1. /\ task'.pc = "finishEvent" /\ task'.ck = snapshot.doc /\ task'.ok = task.ok
          /\ ~task'.resumed /\ task'.st = "awaiting_approval" /\ UNCHANGED approvals
      BY <1>1, <1>6 DEF Goto, store, Loaded, Finish, Tasks
    <2>2. PendingInv'
      BY <1>2, <2>1, Points, AgentPoints
      DEF EffectsInv, PendingInv, TurnPcs, ToolPcs, FinishPcs, Unlogged
    <2>3. SpentInv' /\ BudgetInv'
      BY <1>2, <1>3, <2>1 DEF EffectsInv, SpentInv, Spends, BudgetInv, WithinBounds, ToolPcs
    <2>4. RepeatInv'
      BY <1>1, <1>2, <2>1, NothingRun DEF history, kept, ToolPcs
    <2>5. AllowedInv'
      BY <1>1, <1>2, <2>1, NothingDecided DEF history
    <2> QED BY <2>2, <2>3, <2>4, <2>5 DEF EffectsInv
  <1>7. CASE /\ run.state = "awaiting_approval"
             /\ Stored.pending \in Calls \ (task.ok \cup task.no)
             /\ approvals' = [approvals EXCEPT ![Stored.pending] =
                                  IF @ = "none" THEN "pending" ELSE @]
             /\ task' = Loaded("reissueEvent", [Stored EXCEPT !.lapsed = FALSE])
    <2>1. /\ task'.pc = "reissueEvent" /\ task'.ok = task.ok /\ ~task'.resumed
          /\ task'.ck.iters = snapshot.doc.iters /\ task'.ck.usage = snapshot.doc.usage
          /\ task'.ck.repairs = snapshot.doc.repairs
          /\ task'.ck.retries = snapshot.doc.retries
          /\ task'.ck.pending = snapshot.doc.pending
      BY <1>1, <1>7 DEF Loaded, Tasks, Checkpoints
    <2>2. PendingInv'
      BY <1>2, <2>1, Points, AgentPoints
      DEF EffectsInv, PendingInv, TurnPcs, ToolPcs, FinishPcs, Unlogged
    <2>3. SpentInv' /\ BudgetInv'
      BY <1>2, <1>3, <2>1 DEF EffectsInv, SpentInv, Spends, BudgetInv, WithinBounds, ToolPcs
    <2>4. RepeatInv'
      BY <1>1, <1>2, <2>1, NothingRun DEF history, kept, ToolPcs
    <2>5. AllowedInv'
      BY <1>1, <1>2, <1>7, <2>1
      DEF EffectsInv, AllowedInv, Allowed, Denied, history
    <2> QED BY <2>2, <2>3, <2>4, <2>5 DEF EffectsInv
  <1> QED BY <1>4, <1>5, <1>6, <1>7 DEF LoadRun

\* A claimed run may have waited: its call, if it has one, was approved.
LEMMA ClaimRunningEffects ==
  ASSUME IndInv, IndInv', EffectsInv, ClaimRunning PROVE EffectsInv'
  <1>1. /\ task.pc = "claim" /\ task \in Tasks /\ ~task.resumed
        /\ snapshot.doc.pending = task.ck.pending
    BY Knows, Points, AgentPoints DEF ClaimRunning, EffectsInv, PendingInv, ToolPcs
  <1>2. CASE Fail
    <2>1. task'.pc = "mark" /\ task'.ok = task.ok
      BY <1>1, <1>2 DEF Fail, Goto, Tasks
    <2> QED BY <1>1, <1>2, <2>1, FailEffects DEF Fail, Goto, store
  <1>3. CASE /\ run' = [state |-> "running", version |-> task.ver + 1, stop |-> "none"]
             /\ task' = [task EXCEPT !.pc = "startEvent", !.st = "running",
                                     !.ver = task.ver + 1]
             /\ UNCHANGED <<seq, snapshot, approvals, cancel, handler, executed, history>>
    <2>1. /\ task'.pc = "startEvent" /\ task'.ck = task.ck /\ task'.ok = task.ok
          /\ ~task'.resumed
      BY <1>1, <1>3 DEF Tasks
    <2>2. PendingInv'
      BY <1>1, <1>3, <2>1, Points, AgentPoints
      DEF EffectsInv, PendingInv, TurnPcs, ToolPcs, FinishPcs, Unlogged
    <2>3. SpentInv' /\ BudgetInv'
      BY <1>1, <1>3, <2>1, Points
      DEF EffectsInv, SpentInv, BudgetInv, WithinBounds, ToolPcs
    <2>4. RepeatInv'
      BY <1>1, <1>3, <2>1, Points, NothingRun DEF history, kept, ToolPcs
    <2>5. AllowedInv'
      BY <1>1, <1>3, <2>1
      DEF EffectsInv, AllowedInv, Allowed, history
    <2> QED BY <2>2, <2>3, <2>4, <2>5 DEF EffectsInv
  <1> QED BY <1>2, <1>3 DEF ClaimRunning, TransitionTo, TransitionRun

\* The two writes by which the agent gives the run up, which never lose.
LEMMA GiveUpEffects ==
  ASSUME IndInv, IndInv', EffectsInv, AwaitApproval \/ SettleRun PROVE EffectsInv'
  <1>1. /\ task.pc \in {"askCas", "finishCas"} /\ task.pc \in LoadedPcs
        /\ task \in Tasks
    BY Knows, Points DEF AwaitApproval, SettleRun
  <1>2. /\ run.version = task.ver /\ run.state = task.st
        /\ task.st \in {"running", "awaiting_approval"}
        /\ task.pc = "askCas" => task.st = "running"
        /\ task.pc = "finishCas" /\ task.st = "awaiting_approval" =>
              task.fin = "approval_denied"
    BY <1>1, Points DEF IndInv, PointInv, VersionInv, ReissuePcs, FinishPcs
  <1>3. /\ task' = [task EXCEPT !.pc = "exit"]
        /\ task.pc = "askCas" => run'.state = "awaiting_approval"
        /\ task.pc = "finishCas" => run'.state = StateOf(task.fin) /\ run'.stop = task.fin
        /\ UNCHANGED <<snapshot, approvals, handler, executed, history>>
    BY <1>2 DEF AwaitApproval, SettleRun, TransitionTo, TransitionRun
  <1>4. task'.pc = "exit" /\ task'.ok = task.ok
    BY <1>1, <1>3 DEF Tasks
  <1>5. PendingInv' /\ SpentInv' /\ BudgetInv' /\ RepeatInv'
    BY <1>1, <1>3, <1>4, Leaves
  <1>6. AllowedInv'
    <2>1. task.fin = "approval_denied" => StateOf(task.fin) = "failed"
      BY DEF StateOf
    <2> QED
      BY <1>1, <1>2, <1>3, <1>4, <2>1
      DEF EffectsInv, AllowedInv, Allowed, Denied, history
  <1> QED BY <1>5, <1>6 DEF EffectsInv

LEMMA MarkRuntimeFailureEffects ==
  ASSUME IndInv, IndInv', EffectsInv, MarkRuntimeFailure PROVE EffectsInv'
  <1>1. task \in Tasks /\ task.pc \in {"mark", "markEvent", "markCas"} /\ seq \in Nat
    BY Knows DEF MarkRuntimeFailure
  <1>2. CASE /\ UNCHANGED <<run, snapshot, approvals, handler, executed, history>>
             /\ task'.pc \in {"markEvent", "markCas", "exit"} /\ task'.ok = task.ok
    BY <1>1, <1>2, FailEffects
  <1>3. CASE /\ task.pc = "markCas" /\ task' = [task EXCEPT !.pc = "exit"]
             /\ TransitionRun(task.ver, "retryable", "runtime_error")
             /\ UNCHANGED <<seq, snapshot, approvals, cancel, handler, executed, history>>
    <2>1. task'.pc = "exit" /\ task'.ok = task.ok
      BY <1>1, <1>3 DEF Tasks
    <2>2. PendingInv' /\ SpentInv' /\ BudgetInv' /\ RepeatInv'
      BY <1>1, <1>3, <2>1, Leaves
    <2>3. run.state \in {"proposed", "running"}
      BY <1>3 DEF IndInv, VersionInv, Fresher, TransitionRun
    <2>4. AllowedInv'
      BY <1>1, <1>3, <2>1, <2>3
      DEF EffectsInv, AllowedInv, Allowed, Denied, history
    <2> QED BY <2>2, <2>4 DEF EffectsInv
  <1>4. CASE \E pc \in {"markEvent", "markCas", "exit"} :
               \/ Goto([task EXCEPT !.pc = pc])
               \/ Goto([task EXCEPT !.pc = pc, !.ver = run.version])
               \/ AppendEvent([task EXCEPT !.pc = pc])
               \/ /\ task' = [task EXCEPT !.pc = pc]
                  /\ UNCHANGED <<run, seq, snapshot, approvals, cancel, handler,
                                 executed, history>>
    <2>1. task'.pc \in {"markEvent", "markCas", "exit"} /\ task'.ok = task.ok
      BY <1>1, <1>4 DEF Goto, AppendEvent, Tasks
    <2>2. UNCHANGED <<run, snapshot, approvals, handler, executed, history>>
      BY <1>4 DEF Goto, AppendEvent, store
    <2> QED BY <1>2, <2>1, <2>2
  <1> QED BY <1>3, <1>4 DEF MarkRuntimeFailure

LEMMA ExitTaskEffects ==
  ASSUME IndInv, IndInv', EffectsInv, ExitTask PROVE EffectsInv'
  <1>1. /\ task.pc = "exit" /\ task'.pc = "idle" /\ task'.ok = {}
        /\ UNCHANGED <<run, snapshot, approvals, handler, executed, history>>
    BY DEF ExitTask, NoTask, store
  <1>2. PendingInv' /\ SpentInv' /\ BudgetInv' /\ RepeatInv'
    BY <1>1, Leaves
  <1>3. AllowedInv'
    BY <1>1
    DEF EffectsInv, AllowedInv, Allowed, Denied, history
  <1> QED BY <1>2, <1>3 DEF EffectsInv

LEMMA TaskStepEffects ==
  ASSUME IndInv, IndInv', EffectsInv, TaskStep PROVE EffectsInv'
  BY LoadRunEffects, ClaimRunningEffects, AppendLifecycleEventEffects,
     SaveCheckpointEffects, ResumePendingEffects, InvokeToolEffects,
     RefuseToolEffects, RecordObservationEffects, TakeCallEffects, GiveUpEffects,
     EnterLoopEffects, PreemptModelEffects, RetryProviderEffects,
     FailProviderEffects, ReceiveReplyEffects, MarkRuntimeFailureEffects,
     ExitTaskEffects, Zenon
  DEF TaskStep

LEMMA StorageFaultEffects ==
  ASSUME IndInv, IndInv', EffectsInv, StorageFault PROVE EffectsInv'
  <1>1. task \in Tasks
    BY Knows
  <1>2. task'.pc \in {"mark", "markCas", "exit"} /\ task'.ok = task.ok
    BY <1>1 DEF StorageFault, Tasks
  <1>3. Fails /\ UNCHANGED <<run, snapshot, approvals, handler, executed>>
    BY DEF StorageFault, Fails, store
  <1>4. stranded' = stranded \cup CutOff /\ UNCHANGED authorized
    BY DEF StorageFault
  <1> QED BY <1>2, <1>3, <1>4, FailEffects

-----------------------------------------------------------------------------
(* Handlers, time and Core *)

\* A task starts with nothing but the authorization it was given.
LEMMA SpawnedEffects ==
  ASSUME IndInv, EffectsInv, task.pc = "idle", NEW auth, task' = Spawned(auth),
         UNCHANGED <<run, snapshot, approvals, executed, crashes, faults, stranded>>,
         \A k \in Clients : handler'[k].ok \subseteq handler[k].ok,
         authorized \subseteq authorized', \A c \in auth.ok : Allowed(c)'
  PROVE  EffectsInv'
  <1>1. /\ task'.pc = "load" /\ task'.ok = auth.ok /\ ~task'.resumed
        /\ task'.ck.pending = NoCall
    BY DEF Spawned, NoTask, NewCheckpoint
  <1>2. PendingInv' /\ SpentInv' /\ BudgetInv'
    BY <1>1, Points, AgentPoints
    DEF EffectsInv, PendingInv, SpentInv, BudgetInv, TurnPcs, ToolPcs, FinishPcs,
        WithinBounds
  <1>3. RepeatInv'
    BY <1>1, NothingRun DEF history, kept, ToolPcs
  <1>4. AllowedInv'
    BY <1>1
    DEF EffectsInv, AllowedInv, Allowed, Denied
  <1> QED BY <1>2, <1>3, <1>4 DEF EffectsInv

LEMMA AdvanceEffects ==
  ASSUME IndInv, EffectsInv, Advance PROVE EffectsInv'
  <1>1. PICK auth \in AdvanceAuths :
          task' = Spawned(auth) /\ authorized' = authorized \cup auth.ok
    BY DEF Advance
  <1>2. /\ task.pc = "idle"
        /\ UNCHANGED <<run, snapshot, approvals, handler, executed>>
        /\ UNCHANGED <<crashes, faults, stranded>>
    BY DEF Advance, store
  <1>3. authorized \subseteq authorized' /\ \A c \in auth.ok : Allowed(c)'
    BY <1>1 DEF Allowed
  <1> QED BY <1>1, <1>2, <1>3, SpawnedEffects

\* A decision is stored before the run is advanced with it.
LEMMA DecideApprovalEffects ==
  ASSUME IndInv, EffectsInv, NEW k \in Clients, DecideApproval(k) PROVE EffectsInv'
  <1>1. PICK c \in Calls, verdict \in {"approved", "rejected"} :
          /\ approvals[c] = "pending"
          /\ approvals' = [approvals EXCEPT ![c] = verdict]
          /\ handler' = [handler EXCEPT ![k] =
                [pc |-> "spawn", ver |-> 0,
                 ok |-> IF verdict = "approved" THEN {c} ELSE {},
                 no |-> IF verdict = "rejected" THEN {c} ELSE {}]]
          /\ authorized' = IF verdict = "approved" THEN authorized \cup {c} ELSE authorized
    BY DEF DecideApproval
  <1>2. UNCHANGED <<run, snapshot, task, executed, crashes, faults, stranded>>
    BY DEF DecideApproval
  <1>3. PendingInv' /\ SpentInv' /\ BudgetInv' /\ RepeatInv'
    BY <1>2, Elsewhere
  <1>4. \A j \in Clients : \A a \in handler'[j].ok : Allowed(a)' \/ a \in handler[j].ok
    BY <1>1 DEF Allowed, IndInv, TypeOK, Requests
  <1>5. authorized \subseteq authorized'
    BY <1>1
  <1>6. AllowedInv'
    BY <1>2, <1>4, <1>5 DEF EffectsInv, AllowedInv, Allowed, Denied
  <1> QED BY <1>3, <1>6 DEF EffectsInv

\* The other handlers' steps, those that move a run nobody holds included.
LEMMA HandlerEffects ==
  ASSUME IndInv, EffectsInv, NEW k \in Clients,
         \/ ReadForFreeze(k) \/ RequestCancel(k) \/ FreezeContext(k)
         \/ LogCancelled(k) \/ CancelProposedRun(k)
  PROVE  EffectsInv'
  <1>1. UNCHANGED <<snapshot, task, executed, crashes, faults, authorized, stranded>>
    BY DEF ReadForFreeze, RequestCancel, FreezeContext, LogCancelled, CancelProposedRun,
           store, history
  <1>2. PendingInv' /\ SpentInv' /\ BudgetInv' /\ RepeatInv'
    BY <1>1, Elsewhere
  <1>3. handler \in [Clients -> Requests] /\ \A j \in Clients : handler[j] \in Requests
    BY DEF IndInv, TypeOK
  <1>4. \A j \in Clients : handler'[j].ok \subseteq handler[j].ok
    <2>1. \/ UNCHANGED handler
          \/ \E r : r.ok = {} /\ handler' = [handler EXCEPT ![k] = r]
          \/ handler' = [handler EXCEPT ![k].pc = "cancelCas"]
      BY DEF ReadForFreeze, RequestCancel, FreezeContext, LogCancelled, CancelProposedRun,
             NoRequest
    <2> QED BY <1>3, <2>1 DEF Requests
  <1>5. run' = run \/ run.state = "proposed"
    BY DEF ReadForFreeze, RequestCancel, FreezeContext, LogCancelled, CancelProposedRun,
           TransitionRun, store, IndInv, VersionInv, Fresher
  <1>6. AllowedInv'
    BY <1>1, <1>4, <1>5
    DEF EffectsInv, AllowedInv, Allowed, Denied
  <1> QED BY <1>2, <1>6 DEF EffectsInv

LEMMA SpawnDecidedEffects ==
  ASSUME IndInv, EffectsInv, NEW k \in Clients, SpawnDecided(k) PROVE EffectsInv'
  <1>1. /\ handler' = [handler EXCEPT ![k] = NoRequest]
        /\ UNCHANGED <<run, snapshot, approvals, executed, history>>
    BY DEF SpawnDecided, store
  <1>2. \A j \in Clients : handler'[j].ok \subseteq handler[j].ok
    BY <1>1 DEF IndInv, TypeOK, NoRequest, Requests
  <1>3. CASE task.pc = "idle" /\ task' = Spawned(handler[k])
    <2>1. \A c \in handler[k].ok : Allowed(c)'
      BY <1>1 DEF EffectsInv, AllowedInv, Allowed, history
    <2> QED BY <1>1, <1>2, <1>3, <2>1, SpawnedEffects DEF history
  <1>4. CASE task' = task
    <2>1. PendingInv' /\ SpentInv' /\ BudgetInv' /\ RepeatInv'
      BY <1>1, <1>4, Elsewhere DEF history
    <2>2. AllowedInv'
      BY <1>1, <1>2, <1>4
      DEF EffectsInv, AllowedInv, Allowed, Denied, history
    <2> QED BY <2>1, <2>2 DEF EffectsInv
  <1> QED BY <1>3, <1>4 DEF SpawnDecided

LEMMA ApprovalLapsesEffects ==
  ASSUME IndInv, EffectsInv, ApprovalLapses PROVE EffectsInv'
  <1>1. /\ snapshot.covered # 0
        /\ snapshot \in [covered : Nat, doc : Checkpoints]
    BY DEF ApprovalLapses, EffectsInv, PendingInv, NewCheckpoint, IndInv, TypeOK
  <1>2. /\ snapshot'.covered = snapshot.covered
        /\ snapshot'.doc.iters = snapshot.doc.iters
        /\ snapshot'.doc.usage = snapshot.doc.usage
        /\ snapshot'.doc.repairs = snapshot.doc.repairs
        /\ snapshot'.doc.retries = snapshot.doc.retries
        /\ snapshot'.doc.pending = snapshot.doc.pending
        /\ UNCHANGED <<run, task, handler, executed, crashes, faults>>
        /\ UNCHANGED <<authorized, stranded>>
    BY <1>1 DEF ApprovalLapses, Checkpoints, history
  <1>3. PendingInv' /\ SpentInv' /\ BudgetInv' /\ RepeatInv'
    BY <1>1, <1>2
    DEF EffectsInv, PendingInv, SpentInv, BudgetInv, RepeatInv, Settled, WithinBounds,
        EffectsRepeatOnlyByFailure
  <1>4. AllowedInv'
    BY <1>2
    DEF EffectsInv, AllowedInv, Allowed, Denied
  <1> QED BY <1>3, <1>4 DEF EffectsInv

LEMMA CoreRestartsEffects ==
  ASSUME IndInv, IndInv', EffectsInv, CoreRestarts PROVE EffectsInv'
  <1>1. task'.pc = "idle" /\ Fails /\ UNCHANGED <<snapshot, executed>>
    BY DEF CoreRestarts, NoTask, Fails
  <1>2. PendingInv' /\ SpentInv' /\ BudgetInv' /\ RepeatInv'
    BY <1>1, Leaves
  <1>3. AllowedInv'
    <2>1. /\ task'.ok = {} /\ \A k \in Clients : handler'[k].ok = {}
          /\ stranded' = stranded \cup CutOff /\ UNCHANGED <<run, authorized>>
      BY DEF CoreRestarts, NoTask, NoRequest
    <2>2. task.pc = "askCas" => snapshot.doc.pending \in stranded'
      BY <2>1 DEF CutOff, EffectsInv, PendingInv
    <2> QED BY <1>1, <2>1, <2>2 DEF EffectsInv, AllowedInv, Allowed, Denied
  <1> QED BY <1>2, <1>3 DEF EffectsInv

-----------------------------------------------------------------------------
(* The invariant holds, and what follows from it *)

LEMMA InitEffects == Init => EffectsInv
  <1> SUFFICES ASSUME Init PROVE EffectsInv
    OBVIOUS
  <1>1. /\ task.pc = "idle" /\ snapshot.doc = NewCheckpoint /\ task.ok = {}
        /\ \A c \in Calls : executed[c] = 0
        /\ \A k \in Clients : handler[k].ok = {}
        /\ crashes = 0 /\ faults = 0
    BY DEF Init, NoTask, NoRequest
  <1>2. /\ NewCheckpoint.pending = NoCall /\ NewCheckpoint.iters = 0
        /\ NewCheckpoint.repairs = 0 /\ NewCheckpoint.retries = 0
    BY DEF NewCheckpoint
  <1>3. MaxIterations \in Nat /\ MaxRepairs \in Nat /\ MaxBatch \in Nat
        /\ MaxProviderRetries \in Nat
    OBVIOUS
  <1>4. PendingInv /\ SpentInv /\ RepeatInv /\ AllowedInv
    BY <1>1, <1>2, Points, AgentPoints
    DEF PendingInv, SpentInv, RepeatInv, AllowedInv, EffectsRepeatOnlyByFailure,
        TurnPcs, ToolPcs, FinishPcs
  <1>5. BudgetInv
    BY <1>1, <1>2, <1>3, Points, AgentPoints DEF BudgetInv, WithinBounds, ToolPcs
  <1> QED BY <1>4, <1>5 DEF EffectsInv

LEMMA NextEffects == IndInv /\ IndInv' /\ EffectsInv /\ [Next]_vars => EffectsInv'
  <1> SUFFICES ASSUME IndInv, IndInv', EffectsInv, [Next]_vars PROVE EffectsInv'
    OBVIOUS
  <1>1. CASE TaskStep
    BY <1>1, TaskStepEffects
  <1>2. CASE StorageFault
    BY <1>2, StorageFaultEffects
  <1>3. CASE Advance
    BY <1>3, AdvanceEffects
  <1>4. ASSUME NEW k \in Clients, RequestStep(k) \/ HandlerStep(k) PROVE EffectsInv'
    BY <1>4, DecideApprovalEffects, HandlerEffects, SpawnDecidedEffects
    DEF RequestStep, HandlerStep
  <1>5. CASE ApprovalLapses
    BY <1>5, ApprovalLapsesEffects
  <1>6. CASE CoreRestarts
    BY <1>6, CoreRestartsEffects
  <1>7. CASE UNCHANGED vars
    <2>1. /\ UNCHANGED <<task, snapshot, executed, crashes, faults>>
          /\ UNCHANGED <<run, handler, authorized, stranded>>
      BY <1>7 DEF vars
    <2>2. PendingInv' /\ SpentInv' /\ BudgetInv' /\ RepeatInv'
      BY <2>1, Elsewhere
    <2>3. AllowedInv'
      BY <2>1
      DEF EffectsInv, AllowedInv, Allowed, Denied
    <2> QED BY <2>2, <2>3 DEF EffectsInv
  <1> QED BY <1>1, <1>2, <1>3, <1>4, <1>5, <1>6, <1>7 DEF Next

LEMMA EffectsInductive == Spec => [](IndInv /\ EffectsInv)
  BY Inductive, InitEffects, NextEffects, PTL DEF Spec

\* The model is asked only within the frozen bounds, whatever was retried, resumed or
\* restarted, and the stored counters stay within them up to the calls of one reply.
THEOREM BudgetsAlwaysHold == Spec => []BudgetsHold
  <1>1. EffectsInv => BudgetsHold
    <2> SUFFICES ASSUME EffectsInv PROVE BudgetsHold
      OBVIOUS
    <2> QED BY DEF EffectsInv, BudgetInv, WithinBounds, BudgetsHold
  <1> QED BY <1>1, EffectsInductive, PTL

\* With ids that are not used twice, what was approved reaches its tool once, and once
\* more for each stop of Core and each storage call that fails: none of the ways a run
\* can be resumed, retried, cancelled or re-asked repeats it by itself.
THEOREM EffectsRunOnce ==
  ASSUME MintsIds
  PROVE  Spec => []EffectsRepeatOnlyByFailure
  <1>1. EffectsInv => EffectsRepeatOnlyByFailure
    BY DEF EffectsInv, RepeatInv
  <1> QED BY <1>1, EffectsInductive, PTL

\* Only a save and the clock write the stored checkpoint, and only a call to a tool is a
\* run of an effect.
LEMMA OthersKeepCheckpoint ==
  ASSUME [Next]_vars
  PROVE  SaveCheckpoint \/ ApprovalLapses \/ UNCHANGED snapshot
  BY DEF Next, vars, TaskStep, LoadRun, ClaimRunning, AppendLifecycleEvent, ResumePending,
         InvokeTool, RefuseTool, RecordObservation, TakeCall, AwaitApproval, EnterLoop,
         PreemptModel, RetryProvider, FailProvider, ReceiveReply, SettleRun,
         MarkRuntimeFailure, ExitTask, StorageFault, Advance, RequestStep, HandlerStep,
         DecideApproval, ReadForFreeze, RequestCancel, SpawnDecided, FreezeContext,
         LogCancelled, CancelProposedRun, CoreRestarts, AppendEvent, AppendReply, Goto, Fail,
         TransitionTo, store

LEMMA OthersRunNothing ==
  ASSUME [Next]_vars
  PROVE  InvokeTool \/ UNCHANGED executed
  BY DEF Next, vars, TaskStep, LoadRun, ClaimRunning, AppendLifecycleEvent, SaveCheckpoint,
         ResumePending, RefuseTool, RecordObservation, TakeCall, AwaitApproval, EnterLoop,
         PreemptModel, RetryProvider, FailProvider, ReceiveReply, SettleRun,
         MarkRuntimeFailure, ExitTask, StorageFault, Advance, RequestStep, HandlerStep,
         DecideApproval, ReadForFreeze, RequestCancel, SpawnDecided, FreezeContext,
         LogCancelled, CancelProposedRun, CoreRestarts, ApprovalLapses, AppendEvent, AppendReply, Goto,
         Fail, TransitionTo, store

-----------------------------------------------------------------------------
(* What has been spent is counted *)

\* The points at which the working checkpoint counts the replies that are stored.
SavedPcs == {"claim", "startEvent", "startSave", "resume", "modelEvent", "model",
             "retrySave", "reissueEvent", "reissueSave", "askCas", "finishCas"}

\* The working checkpoint is at most one reply ahead of the stored one, and a failure
\* loses that reply.
CountInv ==
    /\ replies <= Counted + crashes + faults
    /\ task.pc \in LoadedPcs => task.ck.iters <= snapshot.doc.iters + 1
    /\ task.pc \in SavedPcs => task.ck.iters = snapshot.doc.iters

\* The numbers that are compared.
LEMMA Counters ==
  ASSUME IndInv
  PROVE  /\ replies \in Nat /\ crashes \in Nat /\ faults \in Nat
         /\ task.ck.iters \in Nat /\ snapshot.doc.iters \in Nat
         /\ SavedPcs \subseteq LoadedPcs
         /\ Counted = IF task.pc \in LoadedPcs THEN task.ck.iters ELSE snapshot.doc.iters
  <1>1. task.ck \in Checkpoints /\ snapshot.doc \in Checkpoints
    BY Knows
  <1>2. AgentPcs \ {"load"} = LoadedPcs
    BY AgentPoints
  <1> QED BY <1>1, <1>2, Points DEF IndInv, TypeOK, Checkpoints, Counted, SavedPcs

\* A step of the agent that counts nothing and stores nothing.
LEMMA CountStays ==
  ASSUME IndInv, IndInv', CountInv,
         UNCHANGED <<snapshot, replies, crashes, faults>>,
         task.pc \in LoadedPcs, task'.pc \in LoadedPcs,
         task'.ck.iters = task.ck.iters,
         task'.pc \in SavedPcs => task.pc \in SavedPcs
  PROVE  CountInv'
  <1>1. Counted' = Counted
    <2>1. Counted' = task'.ck.iters /\ Counted = task.ck.iters
      BY AgentPoints DEF Counted
    <2> QED BY <2>1
  <1> QED BY <1>1 DEF CountInv

\* A step outside the agent, or out of it with nothing that is not stored.
LEMMA CountLeft ==
  ASSUME IndInv, IndInv', CountInv,
         UNCHANGED <<snapshot, replies, crashes, faults>>,
         task.pc \in LoadedPcs => task.pc \in SavedPcs,
         task'.pc \notin LoadedPcs
  PROVE  CountInv'
  <1>1. Counted = snapshot.doc.iters
    BY Counters DEF CountInv
  <1>2. Counted' = snapshot.doc.iters
    <2>1. task'.pc \notin AgentPcs \ {"load"}
      BY AgentPoints
    <2> QED BY <2>1 DEF Counted
  <1>3. task'.pc \notin SavedPcs
    BY Counters
  <1> QED BY <1>1, <1>2, <1>3 DEF CountInv

\* A failure takes the task out of the agent, and one reply with it.
LEMMA CountFails ==
  ASSUME IndInv, IndInv', CountInv, Fails, UNCHANGED <<snapshot, replies>>,
         task'.pc \notin LoadedPcs
  PROVE  CountInv'
  <1>1. Counted <= snapshot.doc.iters + 1 /\ Counted \in Nat
    BY Counters DEF CountInv
  <1>2. Counted' = snapshot.doc.iters
    <2>1. task'.pc \notin AgentPcs \ {"load"}
      BY AgentPoints
    <2> QED BY <2>1 DEF Counted
  <1>3. task'.pc \notin SavedPcs
    BY Counters
  <1>4. crashes' + faults' = crashes + faults + 1
    BY Counters DEF Fails
  <1>5. replies <= snapshot.doc.iters + crashes' + faults'
    <2>1. /\ replies \in Nat /\ crashes \in Nat /\ faults \in Nat
          /\ crashes' \in Nat /\ faults' \in Nat /\ snapshot.doc.iters \in Nat
      BY Counters DEF IndInv, TypeOK
    <2>2. replies <= Counted + crashes + faults
      BY DEF CountInv
    <2> QED BY <1>1, <1>4, <2>1, <2>2
  <1> QED BY <1>2, <1>3, <1>5 DEF CountInv

\* Where a step of the loop starts and goes to, what it keeps of the checkpoint.
CountSteps(from, to) ==
    /\ task.pc \in from /\ task'.pc \in to
    /\ task'.ck.iters = task.ck.iters
    /\ UNCHANGED <<snapshot, history>>

LEMMA LoopCounts ==
  ASSUME TypeOK, TypeOK',
         \/ AppendLifecycleEvent \/ InvokeTool \/ RefuseTool \/ RecordObservation
         \/ TakeCall \/ EnterLoop \/ PreemptModel \/ RetryProvider \/ FailProvider
  PROVE  \/ CountSteps({"startEvent", "reissueEvent", "modelEvent", "model"},
                       {"startSave", "reissueSave", "model", "retrySave"})
         \/ CountSteps({"askEvent", "finishEvent", "invoke", "observe", "refused", "calls",
                        "loop", "model"},
                       {"askSave", "finishSave", "observe", "refused", "resumedSave",
                        "finishEvent", "callSave", "loop", "calls", "invoke", "askEvent",
                        "loopSave"})
  <1>1. /\ task \in Tasks /\ task.ck \in Checkpoints /\ seq \in Nat
    BY TaskFields DEF TypeOK
  <1>2. CASE AppendLifecycleEvent
    BY <1>1, <1>2 DEF AppendLifecycleEvent, AppendEvent, CountSteps, Tasks
  <1>3. CASE InvokeTool
    BY <1>1, <1>3 DEF InvokeTool, store, CountSteps, Tasks
  <1>4. CASE RefuseTool
    BY <1>1, <1>4 DEF RefuseTool, Goto, store, CountSteps, Tasks
  <1>5. CASE RecordObservation
    <2>1. PICK n, fin :
            AppendEvent([task EXCEPT !.pc = AfterCall(n), !.ck.repairs = n,
                                     !.batch = Tail(task.batch), !.resumed = FALSE,
                                     !.fin = fin])
      BY <1>5 DEF RecordObservation
    <2> DEFINE t == [task EXCEPT !.pc = AfterCall(n), !.ck.repairs = n,
                                 !.batch = Tail(task.batch), !.resumed = FALSE,
                                 !.fin = fin]
    <2>2. /\ t.pc \in {"resumedSave", "finishEvent", "callSave"}
          /\ t.ck.iters = task.ck.iters /\ {"pc", "ck", "last"} \subseteq DOMAIN t
      BY <1>1 DEF AfterCall, Tasks, Checkpoints
    <2>3. AppendEvent(t)
      BY <2>1
    <2> HIDE DEF t
    <2>4. task.pc \in {"observe", "refused"}
      BY <1>5 DEF RecordObservation
    <2>5. /\ task'.pc = t.pc /\ task'.ck = t.ck /\ UNCHANGED <<snapshot, history>>
      BY <2>2, <2>3 DEF AppendEvent
    <2> QED BY <2>2, <2>4, <2>5 DEF CountSteps
  <1>6. CASE TakeCall
    <2>1. PICK t : /\ task' = t \/ task' = [t EXCEPT !.last = seq + 1]
                   /\ \/ t = [task EXCEPT !.pc = "loop"]
                      \/ t = [task EXCEPT !.ck.repairs = @ + 1, !.batch = Tail(@)]
                      \/ t = [task EXCEPT !.pc = "invoke"]
                      \/ t = [task EXCEPT !.pc = "askEvent", !.batch = <<>>,
                                   !.ck.pending = NextCall, !.ck.lapsed = FALSE]
      BY <1>6 DEF TakeCall, Goto, AppendEvent
    <2>2. task.pc = "calls" /\ UNCHANGED <<snapshot, history>>
      BY <1>6 DEF TakeCall, Goto, AppendEvent, store
    <2>3. /\ t.pc \in {"loop", "calls", "invoke", "askEvent"}
          /\ t.ck.iters = task.ck.iters /\ {"pc", "ck", "last"} \subseteq DOMAIN t
      <3>1. CASE t = [task EXCEPT !.pc = "loop"]
        BY <1>1, <3>1 DEF Tasks
      <3>2. CASE t = [task EXCEPT !.ck.repairs = @ + 1, !.batch = Tail(@)]
        BY <1>1, <2>2, <3>2 DEF Tasks, Checkpoints
      <3>3. CASE t = [task EXCEPT !.pc = "invoke"]
        BY <1>1, <3>3 DEF Tasks
      <3>4. CASE t = [task EXCEPT !.pc = "askEvent", !.batch = <<>>,
                           !.ck.pending = NextCall, !.ck.lapsed = FALSE]
        BY <1>1, <3>4 DEF Tasks, Checkpoints
      <3> QED BY <2>1, <3>1, <3>2, <3>3, <3>4
    <2>4. task'.pc = t.pc /\ task'.ck = t.ck
      BY <2>1, <2>3
    <2> QED BY <2>2, <2>3, <2>4 DEF CountSteps
  <1>7. CASE EnterLoop
    BY <1>1, <1>7 DEF EnterLoop, Finish, Goto, store, CountSteps, Tasks
  <1>8. CASE PreemptModel
    BY <1>1, <1>8 DEF PreemptModel, Finish, Goto, store, CountSteps, Tasks
  <1>9. CASE RetryProvider
    BY <1>1, <1>9 DEF RetryProvider, AppendEvent, CountSteps, Tasks, Checkpoints
  <1>10. CASE FailProvider
    BY <1>1, <1>10 DEF FailProvider, Finish, AppendEvent, CountSteps, Tasks
  <1> QED BY <1>2, <1>3, <1>4, <1>5, <1>6, <1>7, <1>8, <1>9, <1>10

\* A step of the loop that is not a reply or a save.
LEMMA LoopKeepsCount ==
  ASSUME IndInv, IndInv', CountInv,
         \/ AppendLifecycleEvent \/ InvokeTool \/ RefuseTool \/ RecordObservation
         \/ TakeCall \/ EnterLoop \/ PreemptModel \/ RetryProvider \/ FailProvider
  PROVE  CountInv'
  <1>1. TypeOK /\ TypeOK'
    BY DEF IndInv
  <1>2. /\ UNCHANGED <<snapshot, replies, crashes, faults>>
        /\ task.pc \in LoadedPcs /\ task'.pc \in LoadedPcs
        /\ task'.ck.iters = task.ck.iters
        /\ task'.pc \in SavedPcs => task.pc \in SavedPcs
    BY <1>1, LoopCounts, Points DEF CountSteps, SavedPcs, history
  <1> QED BY <1>2, CountStays

\* A reply is counted at once, in memory.
LEMMA ReceiveReplyCounts ==
  ASSUME IndInv, IndInv', CountInv, ReceiveReply PROVE CountInv'
  <1> DEFINE u(used) == [task EXCEPT !.ck.iters = @ + 1, !.ck.retries = 0,
                                     !.ck.usage = @ + used]
  <1>1. /\ task.pc = "model" /\ task \in Tasks /\ task.ck \in Checkpoints
        /\ task.ck.iters \in Nat
    BY Knows, Counters DEF ReceiveReply
  <1>2. PICK reply, used, reason :
          \/ AppendReply(Finish(u(used), reason))
          \/ AppendReply([u(used) EXCEPT !.pc = "calls", !.batch = reply])
    BY DEF ReceiveReply
  <1>3. u(used).ck.iters = task.ck.iters + 1 /\ {"pc", "fin", "last", "ck", "batch"} \subseteq DOMAIN u(used)
    BY <1>1 DEF Tasks, Checkpoints
  <1>4. task'.pc \in {"calls", "finishEvent"} /\ task'.ck.iters = task.ck.iters + 1
    <2> HIDE DEF u
    <2>1. CASE AppendReply(Finish(u(used), reason))
      BY <1>3, <2>1 DEF AppendReply, Finish
    <2>2. CASE AppendReply([u(used) EXCEPT !.pc = "calls", !.batch = reply])
      BY <1>3, <2>2 DEF AppendReply
    <2> QED BY <1>2, <2>1, <2>2
  <1>5. replies' = replies + 1 /\ UNCHANGED <<snapshot, crashes, faults>>
    <2> HIDE DEF u
    <2> QED BY <1>2 DEF AppendReply
  <1>6. Counted = task.ck.iters /\ Counted' = task.ck.iters + 1
    BY <1>1, <1>4, AgentPoints, Points DEF Counted
  <1>7. replies' <= Counted' + crashes' + faults'
    <2>1. replies <= Counted + crashes + faults
      BY DEF CountInv
    <2> QED BY <1>1, <1>5, <1>6, <2>1, Counters
  <1>8. task'.ck.iters <= snapshot'.doc.iters + 1 /\ task'.pc \notin SavedPcs
    BY <1>1, <1>4, <1>5 DEF CountInv, SavedPcs
  <1> QED BY <1>7, <1>8 DEF CountInv

LEMMA SaveCheckpointCounts ==
  ASSUME IndInv, IndInv', CountInv, SaveCheckpoint PROVE CountInv'
  <1>1. task.pc \in DOMAIN AfterSave /\ task.pc \in LoadedPcs /\ task \in Tasks
    BY Knows, Points, AfterSavePoints DEF SaveCheckpoint
  <1>2. snapshot.covered = task.exp /\ seq > 0 /\ task.last <= seq
    BY <1>1, Points, AfterSavePoints DEF IndInv, CheckpointInv
  <1>3. /\ snapshot'.doc = task.ck /\ task'.ck = task.ck
        /\ UNCHANGED <<replies, crashes, faults>>
    <2>1. /\ snapshot' = [covered |-> task.last, doc |-> task.ck]
          /\ task' = [task EXCEPT !.pc = AfterSave[task.pc], !.exp = task.last]
          /\ UNCHANGED history
      BY <1>2 DEF SaveCheckpoint
    <2> QED BY <1>1, <2>1 DEF Tasks, history
  <1>4. Counted = task.ck.iters /\ Counted' = task.ck.iters
    BY <1>1, <1>3, AgentPoints DEF Counted
  <1>5. task.ck.iters <= task.ck.iters + 1
    BY Counters
  <1> QED BY <1>3, <1>4, <1>5 DEF CountInv

LEMMA TakenCounts ==
  ASSUME IndInv, IndInv', EffectsInv, CountInv,
         LoadRun \/ ClaimRunning \/ ResumePending \/ AwaitApproval \/ SettleRun
  PROVE  CountInv'
  <1>1. task \in Tasks /\ task.ck \in Checkpoints /\ snapshot.doc \in Checkpoints
    BY Knows
  <1>2. UNCHANGED <<snapshot, replies, crashes, faults>>
    BY DEF LoadRun, ClaimRunning, ResumePending, AwaitApproval, SettleRun, TransitionTo,
           Fail, Goto, store, history
  <1>3. CASE LoadRun
    <2>1. task.pc = "load" /\ Stored = snapshot.doc
      BY <1>3 DEF LoadRun, Stored, EffectsInv, PendingInv
    <2>2. Counted = snapshot.doc.iters /\ task.pc \notin LoadedPcs
      BY <2>1, AgentPoints DEF Counted
    <2>3. task'.ck.iters = snapshot.doc.iters
      <3>1. /\ \A pc, ck : Loaded(pc, ck).ck = ck
            /\ Finish(Loaded("load", Stored), "approval_denied").ck = Stored
        BY <1>1 DEF Loaded, Finish, Tasks
      <3>2. \/ task' = Finish(Loaded("load", Stored), "approval_denied")
            \/ \E pc : task' = Loaded(pc, Stored)
            \/ task' = Loaded("reissueEvent", [Stored EXCEPT !.lapsed = FALSE])
        BY <1>3 DEF LoadRun, Goto
      <3>3. [Stored EXCEPT !.lapsed = FALSE].iters = Stored.iters
        BY <1>1, <2>1 DEF Checkpoints
      <3>4. CASE \E pc : task' = Loaded(pc, Stored)
        BY <2>1, <3>1, <3>4
      <3>5. CASE task' = Loaded("reissueEvent", [Stored EXCEPT !.lapsed = FALSE])
        <4>1. task'.ck = [Stored EXCEPT !.lapsed = FALSE]
          BY <3>1, <3>5
        <4> QED BY <2>1, <3>3, <4>1
      <3>6. CASE task' = Finish(Loaded("load", Stored), "approval_denied")
        BY <2>1, <3>1, <3>6
      <3> QED BY <3>2, <3>4, <3>5, <3>6
    <2>4. Counted' = snapshot.doc.iters
      BY <1>2, <2>3 DEF Counted
    <2>5. snapshot.doc.iters <= snapshot.doc.iters + 1
      BY Counters
    <2> QED BY <1>2, <2>2, <2>3, <2>4, <2>5 DEF CountInv
  <1>4. CASE Fail /\ task.pc \in SavedPcs
    <2>1. task'.pc = "mark"
      BY <1>1, <1>4 DEF Fail, Goto, Tasks
    <2>2. task'.pc \notin LoadedPcs
      BY <2>1, Points
    <2> QED BY <1>2, <1>4, <2>2, CountLeft
  <1>5. CASE ClaimRunning /\ ~Fail
    <2>1. task.pc = "claim" /\ task'.pc = "startEvent" /\ task'.ck = task.ck
      BY <1>1, <1>5 DEF ClaimRunning, TransitionTo, Tasks
    <2> QED BY <1>2, <2>1, CountStays, Points DEF SavedPcs
  <1>6. CASE ResumePending /\ ~Fail
    <2>1. /\ task.pc = "resume" /\ task'.pc \in {"loop", "invoke"}
          /\ task'.ck.iters = task.ck.iters
      <3>1. PICK t : /\ task' = t
                     /\ \/ t = [task EXCEPT !.pc = "loop"]
                        \/ t = [task EXCEPT !.pc = "invoke", !.resumed = TRUE,
                                     !.batch = <<task.ck.pending>>,
                                     !.ck.pending = NoCall, !.ck.lapsed = FALSE]
        BY <1>6 DEF ResumePending, Goto
      <3>2. t.pc \in {"loop", "invoke"} /\ t.ck.iters = task.ck.iters
        <4>1. CASE t = [task EXCEPT !.pc = "loop"]
          BY <1>1, <4>1 DEF Tasks
        <4>2. CASE t = [task EXCEPT !.pc = "invoke", !.resumed = TRUE,
                             !.batch = <<task.ck.pending>>,
                             !.ck.pending = NoCall, !.ck.lapsed = FALSE]
          BY <1>1, <4>2 DEF Tasks, Checkpoints
        <4> QED BY <3>1, <4>1, <4>2
      <3> QED BY <1>6, <3>1, <3>2 DEF ResumePending
    <2> QED BY <1>2, <2>1, CountStays, Points DEF SavedPcs
  <1>7. CASE (AwaitApproval \/ SettleRun) /\ ~Fail
    <2>1. task.pc \in SavedPcs /\ task'.pc = "exit"
      BY <1>1, <1>7 DEF AwaitApproval, SettleRun, TransitionTo, Tasks, SavedPcs
    <2>2. task'.pc \notin LoadedPcs
      BY <2>1, Points
    <2> QED BY <1>2, <2>1, <2>2, CountLeft
  <1>8. ClaimRunning \/ ResumePending \/ AwaitApproval \/ SettleRun => task.pc \in SavedPcs
    BY DEF ClaimRunning, ResumePending, AwaitApproval, SettleRun, SavedPcs
  <1> QED BY <1>3, <1>4, <1>5, <1>6, <1>7, <1>8

\* The task's other steps, and everybody else's.
LEMMA ElsewhereCounts ==
  ASSUME IndInv, IndInv', CountInv,
         \/ MarkRuntimeFailure \/ ExitTask \/ Advance \/ ApprovalLapses
         \/ \E k \in Clients : RequestStep(k) \/ HandlerStep(k)
         \/ UNCHANGED vars
  PROVE  CountInv'
  <1>1. UNCHANGED <<replies, crashes, faults>>
    BY DEF MarkRuntimeFailure, ExitTask, Advance, ApprovalLapses, RequestStep, HandlerStep,
           DecideApproval, ReadForFreeze, RequestCancel, SpawnDecided, FreezeContext,
           LogCancelled, CancelProposedRun, AppendEvent, Goto, store, history, vars
  <1>2. CASE UNCHANGED task
    <2>1. snapshot'.doc.iters = snapshot.doc.iters
      <3>1. snapshot \in [covered : Nat, doc : Checkpoints]
        BY DEF IndInv, TypeOK
      <3>2. CASE ApprovalLapses
        BY <3>1, <3>2 DEF ApprovalLapses, Checkpoints
      <3>3. CASE ~ApprovalLapses
        BY <1>2, <3>3
        DEF MarkRuntimeFailure, ExitTask, Advance, RequestStep, HandlerStep,
            DecideApproval, ReadForFreeze, RequestCancel, SpawnDecided, FreezeContext,
            LogCancelled, CancelProposedRun, AppendEvent, Goto, store, vars
      <3> QED BY <3>2, <3>3
    <2>2. Counted' = Counted
      BY <1>2, <2>1 DEF Counted
    <2> QED BY <1>1, <1>2, <2>1, <2>2 DEF CountInv
  <1>3. CASE ~UNCHANGED task
    <2>1. UNCHANGED snapshot
      BY <1>3
      DEF MarkRuntimeFailure, ExitTask, Advance, ApprovalLapses, RequestStep, HandlerStep,
          DecideApproval, ReadForFreeze, RequestCancel, SpawnDecided, FreezeContext,
          LogCancelled, CancelProposedRun, AppendEvent, Goto, store, vars
    <2>2. /\ task.pc \in {"mark", "markEvent", "markCas", "exit", "idle"}
          /\ task'.pc \in {"markEvent", "markCas", "exit", "idle", "load"}
      <3>1. task \in Tasks
        BY Knows
      <3>2. CASE MarkRuntimeFailure
        BY <3>1, <3>2 DEF MarkRuntimeFailure, AppendEvent, Goto, Tasks
      <3>3. CASE ExitTask
        BY <3>3 DEF ExitTask, NoTask
      <3>4. CASE Advance
        BY <3>4 DEF Advance, Spawned, NoTask
      <3>5. CASE \E k \in Clients : RequestStep(k) \/ HandlerStep(k)
        <4>1. PICK k \in Clients : SpawnDecided(k)
          BY <1>3, <3>5
          DEF RequestStep, HandlerStep, DecideApproval, ReadForFreeze, RequestCancel,
              FreezeContext, LogCancelled, CancelProposedRun
        <4> QED BY <1>3, <4>1 DEF SpawnDecided, Spawned, NoTask
      <3> QED BY <1>3, <3>2, <3>3, <3>4, <3>5 DEF ApprovalLapses, vars
    <2>3. task.pc \notin LoadedPcs /\ task'.pc \notin LoadedPcs
      BY <2>2, Points
    <2> QED BY <1>1, <2>1, <2>3, CountLeft
  <1> QED BY <1>2, <1>3

LEMMA NextCounts ==
  IndInv /\ IndInv' /\ EffectsInv /\ CountInv /\ [Next]_vars => CountInv'
  <1> SUFFICES ASSUME IndInv, IndInv', EffectsInv, CountInv, [Next]_vars PROVE CountInv'
    OBVIOUS
  <1>1. CASE TaskStep
    BY <1>1, LoopKeepsCount, ReceiveReplyCounts, SaveCheckpointCounts, TakenCounts,
       ElsewhereCounts DEF TaskStep
  <1>2. CASE StorageFault
    <2>1. /\ task'.pc \in {"mark", "markCas", "exit"} /\ Fails
          /\ UNCHANGED <<snapshot, replies>>
      BY <1>2, Knows DEF StorageFault, Fails, store, Tasks
    <2>2. task'.pc \notin LoadedPcs
      BY <2>1, Points
    <2> QED BY <2>1, <2>2, CountFails
  <1>3. CASE CoreRestarts
    <2>1. task'.pc = "idle" /\ Fails /\ UNCHANGED <<snapshot, replies>>
      BY <1>3 DEF CoreRestarts, NoTask, Fails
    <2>2. task'.pc \notin LoadedPcs
      BY <2>1, Points
    <2> QED BY <2>1, <2>2, CountFails
  <1>4. CASE \/ Advance \/ ApprovalLapses \/ UNCHANGED vars
             \/ \E k \in Clients : RequestStep(k) \/ HandlerStep(k)
    BY <1>4, ElsewhereCounts
  <1> QED BY <1>1, <1>2, <1>3, <1>4 DEF Next

LEMMA InitCounts == Init => CountInv
  <1> SUFFICES ASSUME Init PROVE CountInv
    OBVIOUS
  <1>1. /\ task.pc = "idle" /\ replies = 0 /\ crashes = 0 /\ faults = 0
        /\ snapshot.doc.iters = 0
    BY DEF Init, NoTask, NewCheckpoint
  <1>2. task.pc \notin LoadedPcs /\ task.pc \notin SavedPcs
    BY <1>1, Points DEF SavedPcs
  <1>3. Counted = 0
    BY <1>1, <1>2, AgentPoints DEF Counted
  <1> QED BY <1>1, <1>2, <1>3 DEF CountInv

LEMMA CountInductive == Spec => [](IndInv /\ EffectsInv /\ CountInv)
  BY Inductive, InitEffects, NextEffects, InitCounts, NextCounts, PTL DEF Spec

\* Of the replies a run has had, all are counted but one for each failure, wherever it
\* falls: no resumption, retry, takeover or lapse loses another.  And no save of a task
\* that started from an older checkpoint, and no other step, lowers a stored counter.
THEOREM SpendingNeverReturned == Spec => SpendingIsKept
  <1>1. ASSUME IndInv, EffectsInv, [Next]_vars
        PROVE  Spends(snapshot'.doc, snapshot.doc)
    <2>1. snapshot.doc \in Checkpoints /\ Spends(snapshot.doc, snapshot.doc)
      <3>1. snapshot.doc \in Checkpoints
        BY <1>1, Knows
      <3> QED BY <3>1 DEF Spends, Checkpoints
    <2>2. CASE SaveCheckpoint
      <3>1. task.pc \in LoadedPcs
        BY <2>2, Points, AfterSavePoints DEF SaveCheckpoint
      <3>2. snapshot'.doc = task.ck \/ snapshot' = snapshot
        BY <2>2 DEF SaveCheckpoint, Fail, Goto, store
      <3> QED BY <1>1, <2>1, <3>1, <3>2 DEF EffectsInv, SpentInv, Spends
    <2>3. CASE ApprovalLapses
      <3>1. snapshot \in [covered : Nat, doc : Checkpoints]
        BY <1>1 DEF IndInv, TypeOK
      <3>2. /\ snapshot'.doc.iters = snapshot.doc.iters
            /\ snapshot'.doc.usage = snapshot.doc.usage
            /\ snapshot'.doc.repairs = snapshot.doc.repairs
        BY <2>3, <3>1 DEF ApprovalLapses, Checkpoints
      <3> QED BY <2>1, <3>2 DEF Spends
    <2>4. CASE UNCHANGED snapshot
      BY <2>1, <2>4
    <2> QED
      BY <1>1, <2>2, <2>3, <2>4, OthersKeepCheckpoint
  <1>2. IndInv /\ EffectsInv /\ [Next]_vars =>
          [/\ snapshot'.doc.iters >= snapshot.doc.iters
           /\ snapshot'.doc.usage >= snapshot.doc.usage
           /\ snapshot'.doc.repairs >= snapshot.doc.repairs]_vars
    BY <1>1 DEF Spends
  <1>3. CountInv => replies <= Counted + crashes + faults
    BY DEF CountInv
  <1> QED BY <1>2, <1>3, CountInductive, PTL DEF Spec, SpendingIsKept

\* Whatever fails, is retried, resumed, re-asked or rejected by another Vault: a call
\* reaches its tool only if the user approved it, if the client of an advance said so,
\* or if a failure fell between its checkpoint and its wait.  No approval is taken for
\* another call's, for a denied or for an undecided one.
THEOREM EffectsAlwaysAuthorized == Spec => EffectsAreAuthorized
  <1>1. ASSUME IndInv, EffectsInv, [Next]_vars,
               NEW c \in Calls, executed'[c] > executed[c]
        PROVE  c \in authorized \cup stranded
    <2>1. executed \in [Calls -> Nat] /\ executed[c] \in Nat /\ ~(executed[c] > executed[c])
      BY <1>1, Knows
    <2>2. InvokeTool
      BY <1>1, <2>1, OthersRunNothing
    <2>3. task.pc = "invoke" /\ c = Head(task.batch)
      BY <1>1, <2>1, <2>2 DEF InvokeTool
    <2> QED BY <1>1, <2>3 DEF EffectsInv, AllowedInv, Allowed
  <1>2. IndInv /\ EffectsInv /\ [Next]_vars =>
          [\A c \in Calls : executed'[c] > executed[c] => c \in authorized \cup stranded]_vars
    BY <1>1
  <1> QED BY <1>2, EffectsInductive, PTL DEF Spec, EffectsAreAuthorized
=============================================================================
