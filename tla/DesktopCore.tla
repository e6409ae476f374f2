----------------------------- MODULE DesktopCore -----------------------------
(***************************************************************************)
(* The Desktop and the Core process it owns: start with its attempts,      *)
(* heartbeats, the loader page with its Retry, the switch of the Vault     *)
(* with its way back, and the end of the Desktop, which its Core notices   *)
(* by the parent lease.                                                    *)
(*                                                                         *)
(* The state the code keeps under one mutex is phase, coreInUse,           *)
(* candidate, prompt and generation; a section under the lock is a step.   *)
(* A thread that has installed a Core shows its page within the interval   *)
(* of the heartbeats (2 s), so that both are one step here.                *)
(***************************************************************************)
EXTENDS Integers, FiniteSets

CONSTANTS
    Vaults, NoVault,
    MaxThreads,         \* threads that may start a Core at a time
    RetryLimit,         \* attempts to start a Core (3)
    HeartbeatLimit,     \* heartbeats missed in a row (3)
    MaxCores,           \* more Cores than the other bounds let start
    MaxSwitches, MaxQuits, MaxDesktopFaults     \* bounds

ASSUME DesktopAssumption ==
    /\ NoVault \notin Vaults
    /\ {RetryLimit, HeartbeatLimit, MaxThreads} \subseteq Nat \ {0}
    /\ {MaxCores, MaxSwitches, MaxQuits, MaxDesktopFaults} \subseteq Nat

VARIABLES
    up,             \* the Desktop runs
    phase,          \* DesktopStatus.phase
    coreInUse,      \* inner.core and inner.origin: a Core, or 0
    window,         \* the page of the main window: a Core's, or 0 for the loader
    prompt,         \* the folder dialog that a Core's page has opened, or 0
    candidate,      \* the Vault chosen in it, and the page that was told
    generation,     \* inner.switch_generation
    configured,     \* the file with the Vault's path
    present,        \* Vaults whose directory is there
    core,           \* every Core process there has been
    spawned,        \* how many those are
    monitor,        \* each monitor thread: heartbeats missed in a row, or -1
    stopping,       \* Cores that their monitor has given up and terminates
    thread,         \* what each starting thread is at
    approvals,      \* Vaults for which an approval can still be used
    quits, desktopFaults    \* bounds

innerVars == <<phase, coreInUse, window, prompt, candidate, generation>>
desktopVars == <<up, innerVars, configured, present, core, spawned, monitor, stopping,
                 thread, approvals, quits, desktopFaults>>

CoreIds == 1 .. MaxCores
StartThreads == 1 .. MaxThreads
AnyVault == Vaults \cup {NoVault}
NoCandidate == [vault |-> NoVault, of |-> 0]
Idle == [job |-> "idle", child |-> 0, attempts |-> 0, to |-> NoVault, back |-> NoVault, generation |-> 0]

DesktopTypeOK ==
    /\ up \in BOOLEAN /\ phase \in {"starting", "ready", "switching", "failed"}
    /\ coreInUse \in CoreIds \cup {0} /\ window \in CoreIds \cup {0}
    /\ prompt \in CoreIds \cup {0} /\ candidate \in [vault : AnyVault, of : CoreIds \cup {0}]
    /\ generation \in 0 .. MaxSwitches
    /\ configured \in AnyVault /\ present \subseteq Vaults /\ approvals \subseteq Vaults
    /\ core \in [CoreIds -> [state : {"none", "starting", "serving", "hung", "gone"},
                             vault : AnyVault, orphan : BOOLEAN]]
    /\ spawned \in 0 .. MaxCores - 1
    /\ monitor \in [CoreIds -> -1 .. HeartbeatLimit - 1] /\ stopping \subseteq CoreIds
    /\ thread \in [StartThreads ->
           [job : {"idle", "launch", "stop", "invalidate", "candidate", "save", "previous"},
            child : CoreIds \cup {0}, attempts : 0 .. RetryLimit,
            to : AnyVault, back : AnyVault, generation : 0 .. MaxSwitches]]

\* configured_vault_dir: a directory that is not there counts as none.
ConfiguredVault == IF configured \in present THEN configured ELSE NoVault

Launching == [Idle EXCEPT !.job = "launch", !.to = ConfiguredVault]

DesktopInit ==
    /\ up = TRUE /\ phase = "starting" /\ coreInUse = 0 /\ window = 0
    /\ prompt = 0 /\ candidate = NoCandidate /\ generation = 0
    /\ present = Vaults /\ configured \in AnyVault
    /\ core = [c \in CoreIds |-> [state |-> "none", vault |-> NoVault, orphan |-> FALSE]]
    /\ spawned = 0 /\ monitor = [c \in CoreIds |-> -1] /\ stopping = {}
    /\ thread = [t \in StartThreads |-> IF t = 1 THEN Launching ELSE Idle]
    /\ approvals = {} /\ quits = 0 /\ desktopFaults = 0

DesktopFault == desktopFaults < MaxDesktopFaults /\ desktopFaults' = desktopFaults + 1
\* A spawned thread.
Fresh(t) == thread[t] = Idle /\ \A u \in 1 .. t - 1 : thread[u] # Idle
Alive(c) == core[c].state \in {"starting", "serving", "hung"}
Terminated(c) == [core EXCEPT ![c].state = "gone"]

-----------------------------------------------------------------------------
(* The thread that starts a Core *)

Quiet == UNCHANGED <<up, prompt, candidate, generation, configured, present, spawned, stopping,
                     approvals, quits>>

\* start_attempt begins: a process with the Vault of its launch grant.
SpawnCore(t) ==
    /\ thread[t].job \in {"launch", "candidate", "previous"} /\ thread[t].child = 0
    /\ spawned < MaxCores
    /\ spawned' = spawned + 1
    /\ core' = [core EXCEPT ![spawned + 1] =
           [state |-> "starting", orphan |-> FALSE,
            vault |-> IF thread[t].job = "previous" THEN thread[t].back ELSE thread[t].to]]
    /\ thread' = [thread EXCEPT ![t].child = spawned + 1]
    /\ UNCHANGED <<up, innerVars, configured, present, monitor, stopping, approvals, quits, desktopFaults>>

\* Mutant: nobody monitors the Core.
InstallUnwatched(t, c) ==
    /\ phase' = "ready" /\ coreInUse' = c /\ window' = c
    /\ thread' = [thread EXCEPT ![t] = Idle]
    /\ UNCHANGED monitor

\* A Core is installed, monitored and shown.
Install(t, c) ==
    /\ phase' = "ready" /\ coreInUse' = c /\ window' = c
    /\ monitor' = [monitor EXCEPT ![c] = 0]
    /\ thread' = [thread EXCEPT ![t] = Idle]

\* finish_vault_restart, for the switch that is still the current one.
FinishSwitch(t, c) ==
    IF thread[t].generation = generation /\ phase = "switching"
    THEN Install(t, c) /\ UNCHANGED core
    ELSE /\ core' = Terminated(c)
         /\ thread' = [thread EXCEPT ![t] = Idle]
         /\ UNCHANGED <<phase, coreInUse, window, monitor>>

\* The Core answers the readiness request before the deadline.
StartSucceeds(t) ==
    LET child == thread[t].child
    IN  /\ child # 0 /\ core[child].state = "serving"
        /\ \/ thread[t].job = "launch" /\ Install(t, child) /\ UNCHANGED core
           \/ /\ thread[t].job = "candidate"
              /\ thread' = [thread EXCEPT ![t].job = "save"]
              /\ UNCHANGED <<phase, coreInUse, window, monitor, core>>
           \/ thread[t].job = "previous" /\ FinishSwitch(t, child)
        /\ Quiet /\ UNCHANGED desktopFaults

\* launch_core and fail_vault_restart when no Core could be started.
FailedToStart(t) ==
    /\ IF thread[t].job = "launch" \/ thread[t].generation = generation
       THEN phase' = "failed" /\ coreInUse' = 0
       ELSE UNCHANGED <<phase, coreInUse>>
    /\ window' = IF thread[t].job = "launch" THEN window ELSE 0

\* start_core_with_vault returns its error; a candidate gives way to the Vault
\* of before.
GiveUp(t) ==
    IF thread[t].job \in {"candidate", "save"}
    THEN /\ thread' = [thread EXCEPT ![t].job = "previous", ![t].child = 0, ![t].attempts = 0]
         /\ UNCHANGED <<phase, coreInUse, window>>
    ELSE FailedToStart(t) /\ thread' = [thread EXCEPT ![t] = Idle]

\* An attempt fails: the Core has ended or does not answer until the deadline.
AttemptFails(t) ==
    LET child == thread[t].child
    IN  /\ child # 0 /\ thread[t].job \in {"launch", "candidate", "previous"}
        /\ \/ core[child].state \in {"gone", "hung"} /\ UNCHANGED desktopFaults
           \/ core[child].state = "starting" /\ DesktopFault
        /\ core' = Terminated(child)
        /\ IF thread[t].attempts + 1 < RetryLimit
           THEN /\ thread' = [thread EXCEPT ![t].child = 0, ![t].attempts = @ + 1]
                /\ UNCHANGED <<phase, coreInUse, window>>
           ELSE GiveUp(t)
        /\ Quiet /\ UNCHANGED monitor

\* The launch grant cannot be written, or cannot be removed once the Core is ready.
GrantFails(t) ==
    LET child == thread[t].child
    IN  /\ thread[t].job \in {"launch", "candidate", "previous"} /\ DesktopFault
        /\ \/ child = 0 /\ thread[t].attempts = 0 /\ UNCHANGED core
           \/ child # 0 /\ core[child].state = "serving" /\ core' = Terminated(child)
        /\ GiveUp(t)
        /\ Quiet /\ UNCHANGED monitor

\* desktop_apply_vault goes on without the lock: it terminates the Core it has
\* taken and shows the loader.
StopForSwitch(t) ==
    /\ thread[t].job = "stop"
    /\ core' = Terminated(thread[t].child) /\ window' = 0
    /\ thread' = [thread EXCEPT ![t].job = "invalidate", ![t].child = 0]
    /\ Quiet /\ UNCHANGED <<phase, coreInUse, monitor, desktopFaults>>

\* restart_with_vault first revokes what the approvals of the old Vault permit.
InvalidateAuthority(t) ==
    /\ thread[t].job = "invalidate"
    /\ \/ /\ approvals' = {} /\ UNCHANGED desktopFaults
          /\ thread' = [thread EXCEPT ![t].job = "candidate"]
       \/ /\ DesktopFault /\ UNCHANGED approvals
          /\ thread' = [thread EXCEPT ![t].job = "previous"]
    /\ UNCHANGED <<up, innerVars, configured, present, core, spawned, monitor, stopping, quits>>

\* The candidate's Core is ready: its path is saved, or the Core terminated.
SaveVault(t) ==
    /\ thread[t].job = "save"
    /\ \/ /\ thread[t].to \in present
          /\ configured' = thread[t].to /\ UNCHANGED desktopFaults
          /\ FinishSwitch(t, thread[t].child)
       \/ /\ IF thread[t].to \in present THEN DesktopFault ELSE UNCHANGED desktopFaults
          /\ core' = Terminated(thread[t].child)
          /\ GiveUp(t)
          /\ UNCHANGED <<configured, monitor>>
    /\ UNCHANGED <<up, prompt, candidate, generation, present, spawned, stopping, approvals, quits>>

StartStep(t) ==
    /\ up
    /\ \/ SpawnCore(t) \/ StartSucceeds(t) \/ AttemptFails(t) \/ GrantFails(t)
       \/ StopForSwitch(t) \/ InvalidateAuthority(t) \/ SaveVault(t)

-----------------------------------------------------------------------------
(* The monitor of a Core *)

\* fail_running_core under the lock.
FailRunning(c) ==
    /\ phase' = "failed" /\ coreInUse' = 0
    /\ stopping' = stopping \cup {c}
    /\ monitor' = [monitor EXCEPT ![c] = -1]

\* Mutant: the failure at hand is not counted.
MissedOneMore(c) == monitor[c] >= HeartbeatLimit
MissedTooMany(c) == monitor[c] + 1 >= HeartbeatLimit

\* monitor_core: the process is looked at under the lock, then asked.
Heartbeat(c) ==
    /\ up /\ monitor[c] >= 0
    /\ IF coreInUse # c
       THEN monitor' = [monitor EXCEPT ![c] = -1] /\ UNCHANGED <<phase, coreInUse, stopping>>
       ELSE IF core[c].state = "gone" \/ (core[c].state = "hung" /\ MissedTooMany(c))
       THEN FailRunning(c)
       ELSE /\ monitor' = [monitor EXCEPT ![c] = IF core[c].state = "hung" THEN @ + 1 ELSE 0]
            /\ UNCHANGED <<phase, coreInUse, stopping>>
    /\ UNCHANGED <<up, window, prompt, candidate, generation, configured, present, core, spawned,
                   thread, approvals, quits, desktopFaults>>

\* fail_running_core without the lock: the loader, and with it Retry, is shown
\* when the Core is gone.
FinishStopping(c) ==
    /\ up /\ c \in stopping
    /\ stopping' = stopping \ {c}
    /\ core' = Terminated(c) /\ window' = 0
    /\ UNCHANGED <<up, phase, coreInUse, prompt, candidate, generation, configured, present,
                   spawned, monitor, thread, approvals, quits, desktopFaults>>

-----------------------------------------------------------------------------
(* The Core processes and the directories *)

CoreServes(c) ==
    /\ core[c].state = "starting" /\ ~core[c].orphan
    /\ core[c].vault \in present \cup {NoVault}
    /\ core' = [core EXCEPT ![c].state = "serving"]
    /\ UNCHANGED desktopFaults

\* It cannot open the Vault of its grant.
CoreRefusesVault(c) ==
    /\ core[c].state = "starting" /\ core[c].vault \notin present \cup {NoVault}
    /\ core' = Terminated(c)
    /\ UNCHANGED desktopFaults

CoreFault(c) ==
    /\ Alive(c) /\ DesktopFault
    /\ \/ core' = Terminated(c)
       \/ core[c].state # "hung" /\ core' = [core EXCEPT ![c].state = "hung"]

CoreRecovers(c) ==
    /\ core[c].state = "hung" /\ core' = [core EXCEPT ![c].state = "serving"]
    /\ UNCHANGED desktopFaults

\* wait_for_parent: the lease of a Desktop that is gone reads as its end.
OrphanEnds(c) ==
    /\ core[c].orphan /\ core[c].state \in {"starting", "serving"}
    /\ core' = Terminated(c)
    /\ UNCHANGED desktopFaults

Besides == UNCHANGED <<up, innerVars, configured, present, spawned, monitor, stopping, thread,
                       approvals, quits>>

\* The user moves a Vault away, or back.
MoveVault(v) ==
    /\ DesktopFault
    /\ present' = IF v \in present THEN present \ {v} ELSE present \cup {v}
    /\ UNCHANGED <<up, innerVars, configured, core, spawned, monitor, stopping, thread, approvals, quits>>

-----------------------------------------------------------------------------
(* The user *)

\* require_dashboard_window: the page of the Core that is installed.
OnDashboard == up /\ coreInUse # 0 /\ window = coreInUse
Unstarted == UNCHANGED <<up, configured, present, core, spawned, monitor, stopping, quits, desktopFaults>>

\* The page asks a Core that answers to change a file of its Vault, and it is approved.
MakeApproval ==
    /\ OnDashboard /\ core[coreInUse].state = "serving" /\ core[coreInUse].vault \in Vaults
    /\ approvals' = approvals \cup {core[coreInUse].vault}
    /\ Unstarted /\ UNCHANGED <<innerVars, thread>>

\* desktop_choose_vault opens the folder dialog, and the user closes it: for a
\* session that has changed meanwhile nothing is chosen.
ChooseVault ==
    /\ OnDashboard /\ prompt = 0 /\ generation < MaxSwitches
    /\ prompt' = coreInUse /\ candidate' = NoCandidate
    /\ Unstarted /\ UNCHANGED <<phase, coreInUse, window, generation, thread, approvals>>

VaultChosen ==
    /\ up /\ prompt # 0 /\ prompt' = 0
    /\ \/ candidate' = candidate
       \/ /\ OnDashboard /\ coreInUse = prompt
          /\ \E v \in present : candidate' = [vault |-> v, of |-> coreInUse]
    /\ Unstarted /\ UNCHANGED <<phase, coreInUse, window, generation, thread, approvals>>

\* desktop_apply_vault under the lock. A page knows only a candidate it was told.
ApplyVault(t) ==
    /\ OnDashboard /\ Fresh(t)
    /\ candidate # NoCandidate /\ candidate.of = coreInUse
    /\ candidate' = NoCandidate
    /\ IF candidate.vault = ConfiguredVault
       THEN UNCHANGED <<phase, coreInUse, generation, thread>>
       ELSE /\ generation' = generation + 1 /\ phase' = "switching" /\ coreInUse' = 0
            /\ thread' = [thread EXCEPT ![t] =
                   [Idle EXCEPT !.job = "stop", !.child = coreInUse, !.to = candidate.vault,
                                !.back = ConfiguredVault, !.generation = generation + 1]]
    /\ Unstarted /\ UNCHANGED <<window, prompt, approvals>>

\* Mutant: a click is a start, whatever the phase.
RetryAlways(t) ==
    /\ up /\ window = 0 /\ Fresh(t)
    /\ phase' = "starting" /\ coreInUse' = 0
    /\ thread' = [thread EXCEPT ![t] = Launching]
    /\ Unstarted /\ UNCHANGED <<window, prompt, candidate, generation, approvals>>

\* desktop_retry, a button of the loader while the phase it reads is "failed".
Retry(t) ==
    /\ up /\ window = 0 /\ phase = "failed" /\ Fresh(t)
    /\ phase' = "starting" /\ coreInUse' = 0
    /\ thread' = [thread EXCEPT ![t] = Launching]
    /\ Unstarted /\ UNCHANGED <<window, prompt, candidate, generation, approvals>>

\* The Desktop ends: by shutdown, which terminates the installed Core, or without.
EndDesktop ==
    /\ up /\ quits < MaxQuits /\ quits' = quits + 1
    /\ up' = FALSE
    /\ \E ended \in {{}, {coreInUse} \ {0}} :
           core' = [c \in CoreIds |-> [core[c] EXCEPT !.orphan = TRUE,
                                                     !.state = IF c \in ended THEN "gone" ELSE @]]
    /\ phase' = "starting" /\ coreInUse' = 0 /\ window' = 0
    /\ prompt' = 0 /\ candidate' = NoCandidate /\ generation' = 0
    /\ monitor' = [c \in CoreIds |-> -1] /\ stopping' = {}
    /\ thread' = [t \in StartThreads |-> Idle]
    /\ UNCHANGED <<configured, present, spawned, approvals, desktopFaults>>

StartDesktop(t) ==
    /\ ~up /\ up' = TRUE /\ Fresh(t)
    /\ core' = [c \in CoreIds |-> [core[c] EXCEPT !.orphan = core[c].state # "none"]]
    /\ thread' = [thread EXCEPT ![t] = Launching]
    /\ UNCHANGED <<innerVars, configured, present, spawned, monitor, stopping, approvals,
                   quits, desktopFaults>>

-----------------------------------------------------------------------------
Starting == \E t \in StartThreads : StartStep(t)
Monitoring == \E c \in CoreIds : Heartbeat(c) \/ FinishStopping(c)
Booting == Besides /\ \E c \in CoreIds : CoreServes(c) \/ CoreRefusesVault(c)
Cores == Besides /\ \E c \in CoreIds : CoreFault(c) \/ CoreRecovers(c) \/ OrphanEnds(c)

DesktopNext ==
    \/ Starting \/ Monitoring \/ Booting \/ Cores
    \/ \E v \in Vaults : MoveVault(v)
    \/ MakeApproval \/ ChooseVault \/ VaultChosen \/ EndDesktop
    \/ \E t \in StartThreads : ApplyVault(t) \/ Retry(t) \/ StartDesktop(t)

\* Threads run, a Core that starts comes to an answer, and timers fire.
DesktopFairness ==
    /\ WF_desktopVars(Starting)
    /\ WF_desktopVars(Monitoring)
    /\ WF_desktopVars(Booting)

DesktopSpec == DesktopInit /\ [][DesktopNext]_desktopVars /\ DesktopFairness

-----------------------------------------------------------------------------
(* Properties *)

\* Of one Desktop at most one Core runs at any time: no start overlaps another,
\* a switch, or a Core that a monitor has given up and not yet terminated.
OneCore == Cardinality({c \in CoreIds : Alive(c) /\ ~core[c].orphan}) =< 1

\* An approval can be used on the Vault it was made for only: whatever fails in
\* a switch, or moves, the Core on display has that Vault or none.
ApprovalsAreOfVault ==
    coreInUse # 0 /\ core[coreInUse].vault \in Vaults => approvals \subseteq {core[coreInUse].vault}

\* The Core on display has the Vault that the next start would have, or none:
\* what the user sees after a switch that went wrong half-way is what is saved.
VaultIsSaved ==
    phase = "ready" => core[coreInUse].vault \in {configured, NoVault}

\* Whatever fails, the user is not left waiting: a start or a switch comes to a
\* Core or to the loader with its Retry.
StartIsAnswered ==
    (up /\ phase # "ready") ~> (~up \/ phase = "ready" \/ (phase = "failed" /\ window = 0))

\* A Core that has ended does not stay on display as ready.
DeathIsNoticed ==
    (up /\ phase = "ready" /\ core[coreInUse].state = "gone")
        ~> (~up \/ phase # "ready")
=============================================================================
