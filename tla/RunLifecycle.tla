---------------------------- MODULE RunLifecycle ----------------------------
(***************************************************************************)
(* What a durable agent run promises to its clients, with no checkpoint,   *)
(* no event log and no HTTP handler: a run is advanced by at most one      *)
(* owner, only the owner settles it, an ownerless run that was left        *)
(* running can only be handed back as retryable, and a terminal run never  *)
(* moves again.  AgentRun implements this specification.                   *)
(***************************************************************************)

VARIABLES
    state,      \* the run's durable state
    owned       \* TRUE while some task has claimed the run and may settle it

lifecycleVars == <<state, owned>>

Terminal  == {"completed", "failed", "cancelled"}
Claimable == {"proposed", "retryable", "awaiting_approval"}
RunStates == Terminal \cup Claimable \cup {"running"}

LifecycleTypeOK ==
    /\ state \in RunStates
    /\ owned \in BOOLEAN

\* A new run is proposed; one left by an older Core may also be retryable.
LifecycleInit ==
    /\ state \in {"proposed", "retryable"}
    /\ owned = FALSE

\* An advance takes the run.
Claim ==
    /\ ~owned
    /\ state \in Claimable
    /\ state' = "running"
    /\ owned' = TRUE

\* The owner pauses the run, hands it back, or brings it to its end.
Settle ==
    /\ owned
    /\ state = "running"
    /\ state' \in Terminal \cup {"retryable", "awaiting_approval"}
    /\ owned' = FALSE

\* The owner disappears (Core stops, a storage call fails) and settles nothing.
Abandon ==
    /\ owned
    /\ owned' = FALSE
    /\ UNCHANGED state

\* A task that could not advance the run hands it back.
HandBack ==
    /\ ~owned
    /\ state \in {"running", "proposed"}
    /\ state' = "retryable"
    /\ UNCHANGED owned

\* A denied approval fails the run without its ever being claimed.
Deny ==
    /\ ~owned
    /\ state = "awaiting_approval"
    /\ state' = "failed"
    /\ UNCHANGED owned

\* A run that nobody advances is cancelled before it starts.
CancelProposed ==
    /\ ~owned
    /\ state = "proposed"
    /\ state' = "cancelled"
    /\ UNCHANGED owned

LifecycleNext ==
    Claim \/ Settle \/ Abandon \/ HandBack \/ Deny \/ CancelProposed

LifecycleSpec == LifecycleInit /\ [][LifecycleNext]_lifecycleVars
=============================================================================
