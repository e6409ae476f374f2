------------------------------- MODULE Subtasks -------------------------------
(***************************************************************************)
(* Bounded sub-agents: a subtask is saved pending, one request executes it *)
(* with one model call, anybody may cancel it.                             *)
(*                                                                         *)
(* A request runs inside its HTTP handler: it ends with the client's       *)
(* connection as well as with Core, at any point, and its permit for a     *)
(* model call goes with it.  A cancellation changes the row only; the      *)
(* call goes on until the handler finds the row cancelled.                 *)
(***************************************************************************)
EXTENDS Naturals, FiniteSets

CONSTANTS
    SubtaskIds,
    SubtaskClients,     \* requests being served
    ParentOf,           \* run that delegates each subtask
    Slots,              \* subtask_slots: calls in the whole of Core
    PerParent,          \* running subtasks of one parent
    MaxLeaves           \* bound: connections and Cores that end early

ASSUME SubtaskAssumption ==
    {Slots, PerParent, MaxLeaves} \subseteq Nat /\ IsFiniteSet(SubtaskClients)

VARIABLES
    subtask,            \* state of each row, "none" without one
    server,             \* what each request is doing, and for which subtask
    freeSlots,          \* permits
    calls,              \* history: model calls made for each subtask
    wasCancelled,       \* history: subtasks whose cancellation was answered
    dropped             \* bound

subtaskVars == <<subtask, server, freeSlots, calls, wasCancelled, dropped>>

Results == {"succeeded", "failed", "timed_out", "rejected"}
SubtaskStates == {"none", "pending", "running", "cancelled"} \cup Results
Unserved == [step |-> "idle", about |-> {}]

SubtaskTypeOK ==
    /\ subtask \in [SubtaskIds -> SubtaskStates]
    /\ server \in [SubtaskClients ->
           [step : {"idle", "checked", "permitted", "calling"}, about : SUBSET SubtaskIds]]
    /\ freeSlots \in 0..Slots
    /\ calls \in [SubtaskIds -> 0..Cardinality(SubtaskClients)]
    /\ wasCancelled \subseteq SubtaskIds

SubtaskInit ==
    /\ subtask = [s \in SubtaskIds |-> "none"]
    /\ server = [c \in SubtaskClients |-> Unserved]
    /\ freeSlots = Slots
    /\ calls = [s \in SubtaskIds |-> 0]
    /\ wasCancelled = {} /\ dropped = 0

HoldsSlot(c) == server[c].step \in {"permitted", "calling"}
Served(c, s, step) == server[c] = [step |-> step, about |-> {s}]
Serve(c, s, step) == server' = [server EXCEPT ![c] = [step |-> step, about |-> {s}]]

\* create_subtask, save_subtask
CreateSubtask(s) ==
    /\ subtask[s] = "none"
    /\ subtask' = [subtask EXCEPT ![s] = "pending"]
    /\ UNCHANGED <<server, freeSlots, calls, wasCancelled, dropped>>

\* execute_subtask answers with the row unless it is pending.
ReadSubtask(c, s) ==
    /\ server[c] = Unserved /\ subtask[s] = "pending"
    /\ Serve(c, s, "checked")
    /\ UNCHANGED <<subtask, freeSlots, calls, wasCancelled, dropped>>

TakeSlot(c, s) ==
    /\ Served(c, s, "checked")
    /\ IF freeSlots > 0
       THEN freeSlots' = freeSlots - 1 /\ Serve(c, s, "permitted")
       ELSE server' = [server EXCEPT ![c] = Unserved] /\ UNCHANGED freeSlots
    /\ UNCHANGED <<subtask, calls, wasCancelled, dropped>>

Running(s) == {t \in SubtaskIds : subtask[t] = "running" /\ ParentOf[t] = ParentOf[s]}

\* Mutant: the row was pending when the request read it.
ClaimableAsRead(s) == Cardinality(Running(s)) < PerParent

\* claim_subtask
Claimable(s) == subtask[s] = "pending" /\ Cardinality(Running(s)) < PerParent

Leave(c) ==
    /\ server' = [server EXCEPT ![c] = Unserved]
    /\ freeSlots' = freeSlots + (IF HoldsSlot(c) THEN 1 ELSE 0)

ClaimSubtask(c, s) ==
    /\ Served(c, s, "permitted")
    /\ IF Claimable(s)
       THEN /\ subtask' = [subtask EXCEPT ![s] = "running"]
            /\ calls' = [calls EXCEPT ![s] = @ + 1]
            /\ Serve(c, s, "calling")
            /\ UNCHANGED freeSlots
       ELSE Leave(c) /\ UNCHANGED <<subtask, calls>>
    /\ UNCHANGED <<wasCancelled, dropped>>

\* The call answers, fails or runs into the wall-time budget; complete_subtask
\* keeps the result of a row that is still running.
CompleteSubtask(c, s) ==
    /\ Served(c, s, "calling")
    /\ \E result \in Results :
           subtask' = [subtask EXCEPT ![s] = IF @ = "running" THEN result ELSE @]
    /\ Leave(c)
    /\ UNCHANGED <<calls, wasCancelled, dropped>>

\* cancel_subtask
CancelSubtask(s) ==
    /\ subtask[s] \in {"pending", "running"}
    /\ subtask' = [subtask EXCEPT ![s] = "cancelled"]
    /\ wasCancelled' = wasCancelled \cup {s}
    /\ UNCHANGED <<server, freeSlots, calls, dropped>>

\* The client goes away: the handler is dropped where it stands.
DropRequest(c) ==
    /\ server[c] # Unserved
    /\ dropped < MaxLeaves /\ dropped' = dropped + 1
    /\ Leave(c)
    /\ UNCHANGED <<subtask, calls, wasCancelled>>

\* No start of Core looks at the rows.
StopSubtasks ==
    /\ dropped < MaxLeaves /\ dropped' = dropped + 1
    /\ server' = [c \in SubtaskClients |-> Unserved] /\ freeSlots' = Slots
    /\ UNCHANGED <<subtask, calls, wasCancelled>>

SubtaskNext ==
    \/ \E s \in SubtaskIds : CreateSubtask(s) \/ CancelSubtask(s)
    \/ \E c \in SubtaskClients, s \in SubtaskIds :
           ReadSubtask(c, s) \/ TakeSlot(c, s) \/ ClaimSubtask(c, s) \/ CompleteSubtask(c, s)
    \/ \E c \in SubtaskClients : DropRequest(c)
    \/ StopSubtasks

SubtaskSpec == SubtaskInit /\ [][SubtaskNext]_subtaskVars

-----------------------------------------------------------------------------
(* Properties *)

\* A subtask gets one model call, whoever executes it again, and one that was
\* cancelled stays so whatever its call brings; the calls of all of Core stay
\* within the slots, those of cancelled subtasks included (execute_subtask).
SubtaskIsCalledOnce ==
    /\ \A s \in SubtaskIds : calls[s] =< 1
    /\ \A s \in wasCancelled : subtask[s] = "cancelled"
    /\ Cardinality({c \in SubtaskClients : server[c].step = "calling"}) =< Slots - freeSlots
=============================================================================
