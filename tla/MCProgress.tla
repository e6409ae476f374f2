----------------------------- MODULE MCProgress -----------------------------
(* The components with something that must happen whatever else happens, as   *)
(* one instance under the fairness of each: those who follow a run or an      *)
(* operation, the schedules, and the Desktop with the Core it owns. Init      *)
(* picks one; the others rest in their initial states.                        *)
EXTENDS EventStream, ScheduleRuns, DesktopCore

VARIABLE part       \* what this behaviour is about

Init ==
    /\ part \in {"stream", "due", "core"}
    /\ StreamInit
    /\ part # "stream" => source = "run"
    /\ ScheduleInit
    /\ DesktopInit
    /\ part # "core" => configured = NoVault

Next ==
    /\ UNCHANGED part
    /\ \/ part = "stream" /\ StreamNext /\ UNCHANGED <<scheduleVars, desktopVars>>
       \/ part = "due" /\ ScheduleSteps(TRUE, {}) /\ UNCHANGED <<streamVars, desktopVars>>
       \/ part = "core" /\ DesktopNext /\ UNCHANGED <<streamVars, scheduleVars>>

Spec == Init /\ [][Next]_<<part, streamVars, scheduleVars, desktopVars>>

FairSpec ==
    /\ Spec
    /\ WF_streamVars(part = "stream" /\ Serve)
    /\ WF_streamVars(part = "stream" /\ Listen)
    /\ WF_streamVars(part = "stream" /\ (CoverEnd \/ SettleRow))
    /\ WF_scheduleVars(part = "due" /\ Scheduler)
    /\ WF_desktopVars(part = "core" /\ Starting)
    /\ WF_desktopVars(part = "core" /\ Monitoring)
    /\ WF_desktopVars(part = "core" /\ Booting)

\* The log, the rows, and what followers and threads carry are of their types.
ProgressTypeOK ==
    /\ part = "stream" => StreamTypeOK
    /\ part = "due" => ScheduleTypeOK
    /\ part = "core" => DesktopTypeOK

\* Whoever follows a run or an operation is told all of it, and stops following
\* an operation that has ended.
FollowersAreServed == FollowerCatchesUp /\ OperationFollowerStops

\* Neither a start that fails nor a Core that dies is left unanswered.
CoreIsWatched == part = "core" => StartIsAnswered /\ DeathIsNoticed
=============================================================================
