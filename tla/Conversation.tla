---------------------------- MODULE Conversation ----------------------------
(***************************************************************************)
(* The turns of one conversation session.                                  *)
(*                                                                         *)
(* A handler stores a turn (the user message, an operation and its first   *)
(* event, in one transaction), registers a cancellation channel and spawns *)
(* a task that calls the model once and completes, fails or cancels the    *)
(* operation.  Other handlers cancel an operation, archive or delete the   *)
(* session, and preview the files a turn refers to.  Core may stop at any  *)
(* point; when it starts again it fails every operation that is open.      *)
(*                                                                         *)
(* The grain is one storage transaction, one look at the channel or one    *)
(* access to the registry per action.  An operation is named by its        *)
(* idempotency key, of which the store admits one operation each.          *)
(***************************************************************************)
EXTENDS Integers, Sequences

CONSTANTS
    Keys,           \* idempotency keys of turns
    Clients,        \* concurrent HTTP requests
    Contents,       \* selections of files that can be previewed
    NoKey,          \* no operation
    NoContent,      \* a turn without a preview
    MaxCrashes,     \* bound: times Core stops
    MaxFaults       \* bound: storage calls of the tasks that fail

ASSUME NamesAssumption == NoKey \notin Keys /\ NoContent \notin Contents
ASSUME LimitsAssumption == MaxCrashes \in Nat /\ MaxFaults \in Nat

VARIABLES
    session,        \* status of the session's row
    previews,       \* rows of context_previews, by content hash
    ops,            \* rows of conversation_operations
    log,            \* kinds of the operation_events of each operation
    messages,       \* session_messages, in order of their sequence
    registry,       \* operation_cancellations: the value of each channel
    task,           \* program point of each operation's task
    client,         \* what each HTTP handler still has to do
    outbound,       \* history: model calls made for each operation
    crashes,        \* history: times Core has stopped
    faults          \* history: storage calls that have failed

tables == <<session, previews, ops, log, messages>>
vars == <<session, previews, ops, log, messages, registry, task, client,
          outbound, crashes, faults>>

-----------------------------------------------------------------------------
(* Data *)

Terminal == {"completed", "cancelled", "failed"}
OpStates == {"absent", "queued", "streaming", "cancel_requested"} \cup Terminal
Kinds == {"queued", "model_started", "cancel_requested", "validating", "delta"}
         \cup Terminal

NoOp == [state |-> "absent", cancel |-> FALSE, preview |-> NoContent]
NoPreview == [state |-> "absent", usedBy |-> NoKey]
NoRequest == [pc |-> "idle", key |-> NoKey, content |-> NoContent]

TaskPcs == {"none", "begin", "start", "startReread", "startFailed", "context",
            "select", "waiting", "replied", "errored", "complete",
            "completeReread", "completeFailed", "failRead", "failWrite",
            "finishCancelled", "remove"}

Requests ==
    {NoRequest}
    \cup [pc : {"preview"}, key : {NoKey}, content : Contents]
    \cup [pc : {"create", "register", "reread", "signal", "finish"},
          key : Keys, content : Contents \cup {NoContent}]

TypeOK ==
    /\ session \in {"active", "archived", "deleted"}
    /\ previews \in [Contents -> [state : {"absent", "fresh", "expired"},
                                  usedBy : Keys \cup {NoKey}]]
    /\ ops \in [Keys -> [state : OpStates, cancel : BOOLEAN,
                         preview : Contents \cup {NoContent}]]
    /\ log \in [Keys -> Seq(Kinds)]
    /\ messages \in Seq([role : {"user", "assistant"}, key : Keys])
    /\ registry \in [Keys -> {"none", "live", "cancelled"}]
    /\ task \in [Keys -> TaskPcs]
    /\ client \in [Clients -> Requests]
    /\ outbound \in [Keys -> Nat]
    /\ crashes \in Nat
    /\ faults \in Nat

Init ==
    /\ session = "active"
    /\ previews = [p \in Contents |-> NoPreview]
    /\ ops = [k \in Keys |-> NoOp]
    /\ log = [k \in Keys |-> <<>>]
    /\ messages = <<>>
    /\ registry = [k \in Keys |-> "none"]
    /\ task = [k \in Keys |-> "none"]
    /\ client = [c \in Clients |-> NoRequest]
    /\ outbound = [k \in Keys |-> 0]
    /\ crashes = 0
    /\ faults = 0

-----------------------------------------------------------------------------
(* Transactions on the tables *)

\* insert_event: the next sequence number of the operation.
InsertEvents(k, kinds) == log' = [log EXCEPT ![k] = @ \o kinds]

\* Mutant: the event has the name of the state.
TransitionNamed(k, state) ==
    /\ ops' = [ops EXCEPT ![k].state = state]
    /\ InsertEvents(k, <<state>>)
    /\ UNCHANGED <<session, previews, messages>>

\* transition_operation applies.
Transition(k, state) ==
    /\ ops' = [ops EXCEPT ![k].state = state]
    /\ InsertEvents(k, <<IF state = "streaming" THEN "model_started" ELSE state>>)
    /\ UNCHANGED <<session, previews, messages>>

\* Mutant: an operation that has ended is cancelled again.
FinishCancelledAgain(k) ==
    \/ /\ ops[k].state # "absent"
       /\ Transition(k, "cancelled")
    \/ /\ ops[k].state = "absent"
       /\ UNCHANGED tables

\* finish_operation_cancelled, allowed in every state that is not terminal; an
\* operation that has ended, or is gone, stays as it is.
FinishCancelled(k) ==
    \/ /\ ops[k].state \notin Terminal \cup {"absent"}
       /\ Transition(k, "cancelled")
    \/ /\ ops[k].state \in Terminal \cup {"absent"}
       /\ UNCHANGED tables

-----------------------------------------------------------------------------
(* Handlers *)

Answer(c) == client' = [client EXCEPT ![c] = NoRequest]
Proceed(c, pc) == client' = [client EXCEPT ![c].pc = pc]
Request(c, pc, k, p) ==
    /\ client[c].pc = "idle"
    /\ client' = [client EXCEPT ![c] = [pc |-> pc, key |-> k, content |-> p]]

\* create_context_preview: the session is looked at, ...
RequestPreview(c) ==
    /\ session = "active"
    /\ \E p \in Contents : Request(c, "preview", NoKey, p)
    /\ UNCHANGED <<tables, registry, task, outbound, crashes, faults>>

\* ... then the preview is inserted; its hash is that of the content alone, and
\* unique in the table, whatever has become of the row that has it.
SavePreview(c) ==
    LET p == client[c].content
    IN  /\ client[c].pc = "preview"
        /\ \/ /\ session # "deleted" /\ previews[p].state = "absent"
              /\ previews' = [previews EXCEPT ![p] = [NoPreview EXCEPT !.state = "fresh"]]
           \/ /\ session = "deleted" \/ previews[p].state # "absent"
              /\ UNCHANGED previews
        /\ Answer(c)
        /\ UNCHANGED <<session, ops, log, messages, registry, task, outbound,
                       crashes, faults>>

\* create_conversation_turn looks at the session and at the preview, but not at
\* the preview's expiry, ...
RequestTurn(c) ==
    /\ session = "active"
    /\ \E k \in Keys, p \in Contents \cup {NoContent} :
        /\ p # NoContent => previews[p].state # "absent" /\ previews[p].usedBy = NoKey
        /\ Request(c, "create", k, p)
    /\ UNCHANGED <<tables, registry, task, outbound, crashes, faults>>

\* Mutant: the store takes the handler's word for the preview.
PreviewUsableUnchecked(p) == TRUE

PreviewUsable(p) ==
    p # NoContent => previews[p].state = "fresh" /\ previews[p].usedBy = NoKey

\* Mutant: the transaction does not look for the idempotency key.
TurnAdmissibleAnew(k, p) == session = "active" /\ PreviewUsable(p)

TurnAdmissible(k, p) ==
    /\ ops[k].state = "absent"
    /\ session = "active"
    /\ PreviewUsable(p)

\* ... and create_conversation_operation looks at everything again and stores
\* the turn, or answers with the operation this key already has, or refuses.
CreateOperation(c) ==
    LET k == client[c].key
        p == client[c].content
    IN  /\ client[c].pc = "create"
        /\ \/ /\ TurnAdmissible(k, p)
              /\ messages' = Append(messages, [role |-> "user", key |-> k])
              /\ ops' = [ops EXCEPT ![k] = [state |-> "queued", cancel |-> FALSE, preview |-> p]]
              /\ InsertEvents(k, <<"queued">>)
              /\ previews' = [q \in Contents |->
                     IF q = p THEN [previews[q] EXCEPT !.usedBy = k] ELSE previews[q]]
              /\ Proceed(c, "register")
              /\ UNCHANGED session
           \/ /\ ~TurnAdmissible(k, p)
              /\ Answer(c)
              /\ UNCHANGED tables
        /\ UNCHANGED <<registry, task, outbound, crashes, faults>>

\* The operation gets its channel, and its task is spawned.
RegisterOperation(c) ==
    /\ client[c].pc = "register"
    /\ registry' = [registry EXCEPT ![client[c].key] = "live"]
    /\ task' = [task EXCEPT ![client[c].key] = "begin"]
    /\ Answer(c)
    /\ UNCHANGED <<tables, outbound, crashes, faults>>

\* cancel_conversation_operation: request_operation_cancel is durable first; an
\* operation that has ended is answered at once, one that is being cancelled is
\* signalled again, ...
RequestCancel(c) ==
    \E k \in Keys :
        /\ ops[k].state \notin Terminal \cup {"absent"}
        /\ \/ /\ ~ops[k].cancel
              /\ ops' = [ops EXCEPT ![k].state = "cancel_requested", ![k].cancel = TRUE]
              /\ InsertEvents(k, <<"cancel_requested">>)
              /\ Request(c, "reread", k, NoContent)
              /\ UNCHANGED <<session, previews, messages>>
           \/ /\ ops[k].cancel
              /\ Request(c, "signal", k, NoContent)
              /\ UNCHANGED tables
        /\ UNCHANGED <<registry, task, outbound, crashes, faults>>

\* ... the operation is read again after the transaction, ...
RereadOperation(c) ==
    /\ client[c].pc = "reread"
    /\ IF ops[client[c].key].state \in Terminal \cup {"absent"}
       THEN Answer(c)
       ELSE Proceed(c, "signal")
    /\ UNCHANGED <<tables, registry, task, outbound, crashes, faults>>

\* ... the live task is signalled, ...
SignalTask(c) ==
    LET k == client[c].key
    IN  /\ client[c].pc = "signal"
        /\ \/ /\ registry[k] # "none"
              /\ registry' = [registry EXCEPT ![k] = "cancelled"]
              /\ Answer(c)
           \/ /\ registry[k] = "none"
              /\ Proceed(c, "finish")
              /\ UNCHANGED registry
        /\ UNCHANGED <<tables, task, outbound, crashes, faults>>

\* ... and without one the handler ends the operation itself.
FinishUnregistered(c) ==
    /\ client[c].pc = "finish"
    /\ FinishCancelled(client[c].key)
    /\ Answer(c)
    /\ UNCHANGED <<registry, task, outbound, crashes, faults>>

ArchiveSession ==
    /\ session = "active"
    /\ session' = "archived"
    /\ UNCHANGED <<previews, ops, log, messages, registry, task, client, outbound,
                   crashes, faults>>

\* Mutant: the operations of the session are not deleted with it.
DeleteSessionShallow ==
    /\ session # "deleted"
    /\ session' = "deleted"
    /\ messages' = <<>>
    /\ UNCHANGED <<previews, ops, log, registry, task, client, outbound, crashes,
                   faults>>

\* delete_session takes everything that refers to the session with it; tasks
\* and channels are not told.
DeleteSession ==
    /\ session # "deleted"
    /\ session' = "deleted"
    /\ previews' = [p \in Contents |-> NoPreview]
    /\ ops' = [k \in Keys |-> NoOp]
    /\ log' = [k \in Keys |-> <<>>]
    /\ messages' = <<>>
    /\ UNCHANGED <<registry, task, client, outbound, crashes, faults>>

\* Fifteen minutes have passed.
PreviewExpires(p) ==
    /\ previews[p].state = "fresh"
    /\ previews' = [previews EXCEPT ![p].state = "expired"]
    /\ UNCHANGED <<session, ops, log, messages, registry, task, client, outbound,
                   crashes, faults>>

-----------------------------------------------------------------------------
(* The task of an operation: run_conversation_operation *)

Goto(k, pc) == task' = [task EXCEPT ![k] = pc]
UnchangedByTask == UNCHANGED <<client, crashes>>

\* The task looks at its channel, without waiting: before anything else, after a
\* failed model call and after a reply.
LookAtChannel(k) ==
    \E from \in {"begin", "errored", "replied"} :
        /\ task[k] = from
        /\ IF registry[k] = "cancelled"
           THEN Goto(k, "finishCancelled")
           ELSE Goto(k, CASE from = "begin" -> "start"
                          [] from = "errored" -> "failRead"
                          [] from = "replied" -> "complete")
        /\ UNCHANGED <<tables, registry, outbound, faults>>
        /\ UnchangedByTask

\* start_conversation_operation.  An operation that has ended is no error; a
\* cancellation is.
Start(k) ==
    /\ task[k] = "start"
    /\ \/ /\ ops[k].state = "queued"
          /\ Transition(k, "streaming")
          /\ Goto(k, "startReread")
       \/ /\ ops[k].state \in Terminal \cup {"streaming"}
          /\ Goto(k, "context")
          /\ UNCHANGED tables
       \/ /\ ops[k].state \in {"absent", "cancel_requested"}
          /\ Goto(k, "startFailed")
          /\ UNCHANGED tables
    /\ UNCHANGED <<registry, outbound, faults>>
    /\ UnchangedByTask

\* A start and a completion read the row back after their commit; they have failed
\* if the session was deleted in between.
ReadBack(k) ==
    /\ \/ /\ task[k] = "startReread"
          /\ Goto(k, IF ops[k].state = "absent" THEN "startFailed" ELSE "context")
       \/ /\ task[k] = "completeReread"
          /\ Goto(k, IF ops[k].state = "absent" THEN "completeFailed" ELSE "remove")
    /\ UNCHANGED <<tables, registry, outbound, faults>>
    /\ UnchangedByTask

\* After a failed start or completion the task reads whether it was cancelled.
ReadCancel(k) ==
    /\ task[k] \in {"startFailed", "completeFailed"}
    /\ Goto(k, IF ops[k].cancel THEN "finishCancelled" ELSE "failRead")
    /\ UNCHANGED <<tables, registry, outbound, faults>>
    /\ UnchangedByTask

\* conversation_chat_messages reads the session as it is now.
BuildContext(k) ==
    /\ task[k] = "context"
    /\ Goto(k, "select")
    /\ UNCHANGED <<tables, registry, outbound, faults>>
    /\ UnchangedByTask

\* The biased select polls the channel first, then sends the model request.
CallModel(k) ==
    /\ task[k] = "select"
    /\ IF registry[k] = "cancelled"
       THEN Goto(k, "finishCancelled") /\ UNCHANGED outbound
       ELSE Goto(k, "waiting") /\ outbound' = [outbound EXCEPT ![k] = @ + 1]
    /\ UNCHANGED <<tables, registry, faults>>
    /\ UnchangedByTask

\* A cancellation interrupts the call; without one the provider replies, or
\* fails (its deadline included).
AwaitModel(k) ==
    /\ task[k] = "waiting"
    /\ IF registry[k] = "cancelled"
       THEN Goto(k, "finishCancelled")
       ELSE Goto(k, "replied") \/ Goto(k, "errored")
    /\ UNCHANGED <<tables, registry, outbound, faults>>
    /\ UnchangedByTask

\* Mutant: a cancellation that was only asked for does not stop the answer.
CompletableBlind(k) == ops[k].state \in {"streaming", "cancel_requested"}

Completable(k) == ops[k].state = "streaming" /\ ~ops[k].cancel

\* complete_conversation_operation: validating, the answer and completed in one
\* transaction.
Complete(k) ==
    /\ task[k] = "complete"
    /\ \/ /\ Completable(k)
          /\ messages' = Append(messages, [role |-> "assistant", key |-> k])
          /\ ops' = [ops EXCEPT ![k].state = "completed"]
          /\ InsertEvents(k, <<"validating", "delta", "completed">>)
          /\ Goto(k, "completeReread")
          /\ UNCHANGED <<session, previews>>
       \/ /\ ~Completable(k)
          /\ Goto(k, "completeFailed")
          /\ UNCHANGED tables
    /\ UNCHANGED <<registry, outbound, faults>>
    /\ UnchangedByTask

\* fail_conversation_operation reads the operation ...
FailRead(k) ==
    /\ task[k] = "failRead"
    /\ Goto(k, IF ops[k].state = "absent" THEN "remove"
               ELSE IF ops[k].cancel THEN "finishCancelled" ELSE "failWrite")
    /\ UNCHANGED <<tables, registry, outbound, faults>>
    /\ UnchangedByTask

\* Mutant: every open operation can fail.
FailableAny == {"queued", "streaming", "cancel_requested"}

Failable == {"queued", "streaming"}

\* ... and changes it in a transaction of its own, whose conflict with a
\* cancellation is dropped.
FailWrite(k) ==
    /\ task[k] = "failWrite"
    /\ \/ /\ ops[k].state \in Failable
          /\ Transition(k, "failed")
       \/ /\ ops[k].state \notin Failable
          /\ UNCHANGED tables
    /\ Goto(k, "remove")
    /\ UNCHANGED <<registry, outbound, faults>>
    /\ UnchangedByTask

\* finish_cancelled
EndCancelled(k) ==
    /\ task[k] = "finishCancelled"
    /\ FinishCancelled(k)
    /\ Goto(k, "remove")
    /\ UNCHANGED <<registry, outbound, faults>>
    /\ UnchangedByTask

\* Mutant: the channel is left behind.
RemoveRuntimeNever(k) ==
    /\ task[k] = "remove"
    /\ Goto(k, "none")
    /\ UNCHANGED <<tables, registry, outbound, faults>>
    /\ UnchangedByTask

\* remove_operation_runtime
RemoveRuntime(k) ==
    /\ task[k] = "remove"
    /\ registry' = [registry EXCEPT ![k] = "none"]
    /\ Goto(k, "none")
    /\ UNCHANGED <<tables, outbound, faults>>
    /\ UnchangedByTask

\* Where the task goes when its storage call fails, or cannot have the time.
AfterFault ==
    [start |-> "startFailed", startReread |-> "startFailed",
     startFailed |-> "failRead", context |-> "failRead",
     complete |-> "completeFailed", completeReread |-> "completeFailed",
     completeFailed |-> "failRead",
     failRead |-> "remove", failWrite |-> "remove", finishCancelled |-> "remove"]

StorageFault(k) ==
    /\ faults < MaxFaults
    /\ task[k] \in DOMAIN AfterFault
    /\ Goto(k, AfterFault[task[k]])
    /\ faults' = faults + 1
    /\ UNCHANGED <<tables, registry, client, outbound, crashes>>

-----------------------------------------------------------------------------
(* Core stops and starts again *)

\* Mutant: queued operations are left to be picked up.
AbandonedStarted == {"streaming", "cancel_requested"}

Abandoned == OpStates \ (Terminal \cup {"absent"})

\* fail_abandoned_operations runs whenever the database is opened.
CoreRestarts ==
    /\ crashes < MaxCrashes
    /\ crashes' = crashes + 1
    /\ ops' = [k \in Keys |-> IF ops[k].state \in Abandoned
                              THEN [ops[k] EXCEPT !.state = "failed"] ELSE ops[k]]
    /\ log' = [k \in Keys |-> IF ops[k].state \in Abandoned
                              THEN Append(log[k], "failed") ELSE log[k]]
    /\ registry' = [k \in Keys |-> "none"]
    /\ task' = [k \in Keys |-> "none"]
    /\ client' = [c \in Clients |-> NoRequest]
    /\ UNCHANGED <<session, previews, messages, outbound, faults>>

-----------------------------------------------------------------------------
(* Specification *)

HandlerStep(c) ==
    \/ SavePreview(c) \/ CreateOperation(c) \/ RegisterOperation(c)
    \/ RereadOperation(c) \/ SignalTask(c) \/ FinishUnregistered(c)

TaskStep(k) ==
    \/ LookAtChannel(k) \/ Start(k) \/ ReadBack(k) \/ ReadCancel(k) \/ BuildContext(k)
    \/ CallModel(k) \/ AwaitModel(k) \/ Complete(k)
    \/ FailRead(k) \/ FailWrite(k) \/ EndCancelled(k) \/ RemoveRuntime(k)

Next ==
    \/ \E c \in Clients :
          RequestPreview(c) \/ RequestTurn(c) \/ RequestCancel(c) \/ HandlerStep(c)
    \/ \E k \in Keys : TaskStep(k) \/ StorageFault(k)
    \/ \E p \in Contents : PreviewExpires(p)
    \/ ArchiveSession
    \/ DeleteSession
    \/ CoreRestarts

Spec == Init /\ [][Next]_vars

\* Tokio polls every task that can go on, the provider client has a deadline for
\* every call, and a handler has no await between its steps.
FairSpec ==
    /\ Spec
    /\ \A k \in Keys : WF_vars(TaskStep(k))
    /\ \A c \in Clients : WF_vars(HandlerStep(c))

-----------------------------------------------------------------------------
(* Properties *)

\* An operation has exactly one terminal state: what its row says is what the
\* last event says, and no event before it ended the operation.
OneEnd ==
    \A k \in Keys :
        /\ \A i \in 1..Len(log[k]) : log[k][i] \in Terminal => i = Len(log[k])
        /\ \A t \in Terminal :
              ops[k].state = t <=> log[k] # <<>> /\ log[k][Len(log[k])] = t

\* The session holds the answer of exactly the operations that are completed,
\* once, and after the question.
AnswersAreOfCompleted ==
    \A k \in Keys :
        LET answers == {i \in 1..Len(messages) : messages[i] = [role |-> "assistant", key |-> k]}
        IN  /\ ops[k].state = "completed" <=> answers # {}
            /\ \A i, j \in answers : i = j
            /\ \A i \in answers : \E j \in 1..(i - 1) :
                  messages[j] = [role |-> "user", key |-> k]

\* A cancellation that was accepted excludes an answer, whichever of the task,
\* another handler and a restart comes first.
CancelledIsNeverCompleted ==
    \A k \in Keys : ops[k].cancel =>
        ops[k].state \in {"cancel_requested", "cancelled", "failed"}

\* The context of a preview goes out with the turn that took it and no other.
PreviewsUsedOnce ==
    \A k \in Keys : ops[k].preview # NoContent =>
        /\ previews[ops[k].preview].usedBy = k
        /\ \A j \in Keys : ops[j].preview = ops[k].preview => j = k

\* At most one model request goes out for an idempotency key, across retries,
\* cancellations and restarts.
OutboundOnce == \A k \in Keys : outbound[k] <= 1

\* While no storage call has failed, an operation that is queued or streaming
\* has a task, or a handler about to spawn it: nothing is left to hang.
OpenOperationIsOwned ==
    faults = 0 =>
        \A k \in Keys : ops[k].state \in {"queued", "streaming"} =>
            \/ task[k] # "none"
            \/ \E c \in Clients : client[c].pc = "register" /\ client[c].key = k

\* The turns of a session implement the life cycle of an operation.
phaseOf(op) ==
    CASE op.state \in {"queued", "streaming"} -> "open"
      [] op.state = "cancel_requested" -> "cancelling"
      [] OTHER -> op.state

Abstract == INSTANCE OperationLifecycle WITH
    phase <- [k \in Keys |-> phaseOf(ops[k])],
    answered <- [k \in Keys |-> \E i \in 1..Len(messages) :
                    messages[i] = [role |-> "assistant", key |-> k]],
    restarts <- crashes

LifecycleRefined == Abstract!OpSpec

\* While no storage call fails, an operation nobody cancels ends, restarts or not; a
\* task leaves the registry even then.
UncancelledOperationsEnd ==
    \A k \in Keys : ops[k].state \in {"queued", "streaming"} ~>
                      ops[k].state \notin {"queued", "streaming"} \/ faults > 0
TasksEnd == \A k \in Keys : registry[k] # "none" ~> registry[k] = "none"

\* Every operation ends (exactly one terminal state).
OperationsEnd ==
    \A k \in Keys : ops[k].state \in Abandoned ~> ops[k].state \notin Abandoned
=============================================================================
