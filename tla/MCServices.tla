----------------------------- MODULE MCServices -----------------------------
(* The components that answer requests and serve the clock, and meet only in  *)
(* the store, and the Desktop that starts and stops Core, as one instance.    *)
(* Init picks a component, and with it the actors that matter; the others     *)
(* rest in their initial states.                                              *)
EXTENDS PairingAuthority, ScheduleRuns, Subtasks, ToolCatalog, DesktopCore, Calendar, TLC

CONSTANTS a, b, e, c, d, f      \* ids; a and b are alike, and so are c and d

VARIABLE part                   \* what this behaviour is about

\* Three subtasks of one parent.
OneParent == (a :> 1) @@ (b :> 1) @@ (e :> 1)

\* Recurrences within a day of four moments and a week of three days; the zones.
ModelRules ==
    [kind : {"daily"}, time : 0 .. 3]
        \cup [kind : {"weekly"}, weekday : {1}, time : 0 .. 3]
        \cup [kind : {"every_n_days"}, interval : {2, 3}, anchor : {1, 2}, time : {0, 3}]
        \cup [kind : {"one_shot"}, moment : {4, 7}]
ModelShifts == {-1, 0, 1}

AnyRule == [kind |-> "one_shot", moment |-> 4]
AnyZone == [at |-> 5, by |-> 0]
AnyStart == 1

\* Every set of ids treats a and b alike, and c and d.
Symmetry == Permutations({a, b}) \cup Permutations({c, d})

Init ==
    /\ part \in {"tabs", "commands", "scheduler", "manual", "subtasks", "tools", "run", "desktop", "calendar"}
    /\ PairingInit
    /\ ScheduleInit
    /\ SubtaskInit
    /\ ToolInit
    /\ DesktopInit /\ (part # "desktop" => configured = NoVault)
    /\ CalendarInit
    /\ part # "calendar" => recurrence = AnyRule /\ zone = AnyZone /\ start = AnyStart

PairingPart ==
    \/ part = "tabs" /\ PairingSteps(Tabs, {})
    \/ part = "commands" /\ PairingSteps({}, Commands)

SchedulePart ==
    \/ part = "scheduler" /\ ScheduleSteps(TRUE, {})
    \/ part = "manual" /\ ScheduleSteps(FALSE, Callers)

SubtaskPart == part = "subtasks" /\ SubtaskNext

ToolPart ==
    \/ part = "tools" /\ (PackageSteps(Tools) \/ CallSteps)
    \/ part = "run" /\ (PackageSteps(Packages) \/ RunSteps)

Next ==
    /\ UNCHANGED part
    /\ \/ PairingPart /\ UNCHANGED <<scheduleVars, subtaskVars, toolVars, desktopVars, calendarVars>>
       \/ SchedulePart /\ UNCHANGED <<pairVars, subtaskVars, toolVars, desktopVars, calendarVars>>
       \/ SubtaskPart /\ UNCHANGED <<pairVars, scheduleVars, toolVars, desktopVars, calendarVars>>
       \/ ToolPart /\ UNCHANGED <<pairVars, scheduleVars, subtaskVars, desktopVars, calendarVars>>
       \/ part = "desktop" /\ DesktopNext /\ UNCHANGED <<pairVars, scheduleVars, subtaskVars, toolVars, calendarVars>>
       \/ part = "calendar" /\ CalendarNext /\ UNCHANGED <<pairVars, scheduleVars, subtaskVars, toolVars, desktopVars>>

Spec == Init /\ [][Next]_<<part, pairVars, scheduleVars, subtaskVars, toolVars, desktopVars, calendarVars>>

\* The rows of the component at work, and what its requests carry, are of their types.
ServicesTypeOK ==
    /\ part \in {"tabs", "commands"} => PairingTypeOK
    /\ part \in {"scheduler", "manual"} => ScheduleTypeOK
    /\ part = "subtasks" => SubtaskTypeOK
    /\ part \in {"tools", "run"} => ToolTypeOK
    /\ part = "desktop" => DesktopTypeOK
    /\ part = "calendar" => CalendarTypeOK

\* Of the tokens a pairing has led to, the last one alone is accepted, and none once it
\* was revoked; a tab that has lost its token can still resume its session.
TokensAreCurrent ==
    part \in {"tabs", "commands"} => OneTokenPerPairing /\ RevokedIsFinal /\ SessionIsKept

\* What costs money or starts a process is done once: the draft of an
\* occurrence, the model call of a subtask, the tool call of an idempotency key.
CalledOnce ==
    /\ part \in {"scheduler", "manual"} => PaidOnce
    /\ part = "subtasks" => SubtaskIsCalledOnce
    /\ part \in {"tools", "run"} => ToolCallStartsOnce

\* The scheduler neither passes over an occurrence nor overrides the user, and an
\* occurrence is due once for each of its dates.
SchedulesAreKept ==
    /\ OccurrencesAreRecorded /\ UserDecisionIsKept
    /\ [](part = "calendar" => EachDateIsDueOnce)

\* One Core of a Desktop is in use, and approvals and what is saved follow its Vault.
CoreFollowsVault == part = "desktop" => OneCore /\ ApprovalsAreOfVault /\ VaultIsSaved
=============================================================================
