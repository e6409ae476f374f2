----------------------------- MODULE MCAgentRun -----------------------------
(* Values of AgentRun's constants for TLC, and the symmetry of its clients.   *)
EXTENDS AgentRun, TLC

\* What the Dashboard sends with an advance: no decision.
NoDecision == {[ok |-> {}, no |-> {}]}

\* Requests differ in nothing; sound for the runs without liveness.
Symmetry == Permutations(Clients)

\* Whatever early return or error ends a task, it leaves the registry, and the
\* run is not left running with nobody to run it, while storage works.
TasksHandBack == TaskLeavesRegistry /\ RunningIsTransient
=============================================================================
