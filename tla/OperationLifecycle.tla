-------------------------- MODULE OperationLifecycle --------------------------
(***************************************************************************)
(* A conversation operation as its clients see it.  An operation is opened *)
(* once for an idempotency key, and ends once: completed, which is the     *)
(* only end that answers it; cancelled, only if that was asked for; or     *)
(* failed.  A cancellation that was asked for excludes an answer, and any  *)
(* failure but that of a restart.                                          *)
(***************************************************************************)
EXTENDS Integers

CONSTANT Keys       \* idempotency keys, one operation each

VARIABLES
    phase,          \* of each operation
    answered,       \* whether the session holds its answer
    restarts        \* how often Core has been restarted

opVars == <<phase, answered, restarts>>

Open == {"open", "cancelling"}
Ends == {"completed", "cancelled", "failed"}

OpInit ==
    /\ phase = [k \in Keys |-> "absent"]
    /\ answered = [k \in Keys |-> FALSE]
    /\ restarts = 0

Move(k, from, to) ==
    /\ phase[k] \in from
    /\ phase' = [phase EXCEPT ![k] = to]
    /\ UNCHANGED <<answered, restarts>>

OpenOp(k) == Move(k, {"absent"}, "open")
AskCancel(k) == Move(k, {"open"}, "cancelling")
CancelOp(k) == Move(k, {"cancelling"}, "cancelled")
FailOp(k) == Move(k, {"open"}, "failed")

CompleteOp(k) ==
    /\ phase[k] = "open"
    /\ phase' = [phase EXCEPT ![k] = "completed"]
    /\ answered' = [answered EXCEPT ![k] = TRUE]
    /\ UNCHANGED restarts

\* Core restarts: what is open cannot go on, cancelled or not.
Abandon ==
    /\ restarts' = restarts + 1
    /\ phase' = [k \in Keys |-> IF phase[k] \in Open THEN "failed" ELSE phase[k]]
    /\ UNCHANGED answered

\* The session is deleted with everything in it.
Forget ==
    /\ phase' = [k \in Keys |-> "absent"]
    /\ answered' = [k \in Keys |-> FALSE]
    /\ UNCHANGED restarts

OpNext ==
    \/ \E k \in Keys : OpenOp(k) \/ AskCancel(k) \/ CancelOp(k) \/ FailOp(k) \/ CompleteOp(k)
    \/ Abandon
    \/ Forget

OpSpec == OpInit /\ [][OpNext]_opVars
=============================================================================
