--------------------------- MODULE DesktopUpdates ----------------------------
(***************************************************************************)
(* Updates of the Desktop: checks by the page and in the background, the   *)
(* download with its archive and ledger, the user's decision to install,   *)
(* which waits for the next launch, and the state that survives a launch.  *)
(*                                                                         *)
(* The updater library is external: a check finds what the channel in use  *)
(* publishes when it is newer than the version that runs, and a download   *)
(* has a valid signature or fails.  An installation is done once the files *)
(* are replaced; the next launch runs them.                                *)
(***************************************************************************)
EXTENDS Naturals, FiniteSets

CONSTANTS
    LastVersion,
    KeptArtifacts,      \* MAX_RECOVERY_ARTIFACTS (2)
    MaxPublications, MaxDownloads, MaxLaunches, MaxUpdateFaults     \* bounds

ASSUME UpdateAssumption ==
    /\ {LastVersion, KeptArtifacts, MaxPublications, MaxDownloads, MaxLaunches, MaxUpdateFaults} \subseteq Nat
    /\ LastVersion # 0

VARIABLES
    running,        \* the version that runs
    onDisk,         \* the version the next launch runs
    offered,        \* what the channel in use publishes
    launch,         \* what the launch is at; "open" with the Dashboard on display
    status,         \* UpdateCoordinator: phase, available and scheduled update, dismissed version
    stored,         \* update-preferences.json
    checks,         \* checks whose answer is awaited
    task,           \* download tasks, aborted or not
    handle,         \* UpdateCoordinator.download_task: a task, or 0
    ledger,         \* highest_seen_version and the artifacts it names
    archive,        \* files under verified-updates
    clicked,        \* history: versions the user asked to download
    overlapped,     \* history: two tasks have written archive and ledger side by side
    publications, launches, updateFaults    \* bounds

updateVars == <<running, onDisk, offered, launch, status, stored, checks, task, handle, ledger,
                archive, clicked, overlapped, publications, launches, updateFaults>>

Versions == 1 .. LastVersion
AnyVersion == 0 .. LastVersion
Downloads == 1 .. MaxDownloads
Checkers == {"page", "background"}

Statuses ==
    [phase : {"idle", "checking", "up_to_date", "available", "downloading", "ready_to_restart",
              "waiting_for_idle", "installing", "completed", "failed"},
     available : AnyVersion, scheduled : BOOLEAN, dismissed : AnyVersion]
Preferences == [available : AnyVersion, scheduled : BOOLEAN, dismissed : AnyVersion, launched : BOOLEAN]
DownloadTasks ==
    [step : {"none", "asking", "downloading", "archiving", "reading", "recording", "pruning",
             "ending", "ended"},
     version : AnyVersion, named : SUBSET Versions, outcome : {"failed", "ready_to_restart"}]

UpdateTypeOK ==
    /\ running \in Versions /\ onDisk \in Versions /\ offered \in AnyVersion
    /\ launch \in {"restored", "installing", "open", "installed"}
    /\ status \in Statuses /\ stored \in Preferences
    /\ checks \subseteq Checkers /\ task \in [Downloads -> DownloadTasks]
    /\ handle \in {0} \cup Downloads
    /\ ledger \in [highest : AnyVersion, artifacts : SUBSET Versions] /\ archive \subseteq Versions
    /\ overlapped \in BOOLEAN

UpdateInit ==
    /\ running = 1 /\ onDisk = 1 /\ offered = 0
    /\ launch = "open"
    /\ status = [phase |-> "idle", available |-> 0, scheduled |-> FALSE, dismissed |-> 0]
    /\ stored = [available |-> 0, scheduled |-> FALSE, dismissed |-> 0, launched |-> TRUE]
    /\ checks = {} /\ handle = 0
    /\ task = [d \in Downloads |-> [step |-> "none", version |-> 0, named |-> {}, outcome |-> "failed"]]
    /\ ledger = [highest |-> 0, artifacts |-> {}] /\ archive = {}
    /\ clicked = {} /\ overlapped = FALSE
    /\ publications = 0 /\ launches = 1 /\ updateFaults = 0

UpdateFault == updateFaults < MaxUpdateFaults /\ updateFaults' = updateFaults + 1

\* persist_update_state; an error is dropped.
Persisted(s) ==
    [available |-> s.available, scheduled |-> s.scheduled, dismissed |-> s.dismissed, launched |-> TRUE]
Persist(s) ==
    \/ stored' = Persisted(s) /\ UNCHANGED updateFaults
    \/ UpdateFault /\ UNCHANGED stored

Found == IF offered > running THEN offered ELSE 0

\* A version is published or withdrawn, or the user changes the channel.
Publish(v) ==
    /\ publications < MaxPublications /\ publications' = publications + 1
    /\ offered # v /\ offered' = v
    /\ UNCHANGED <<running, onDisk, launch, status, stored, checks, task, handle, ledger, archive,
                   clicked, overlapped, launches, updateFaults>>

-----------------------------------------------------------------------------
(* Checks and decisions *)

Command == launch = "open"
Untouched == UNCHANGED <<running, onDisk, offered, launch, ledger, archive, publications, launches>>
Elsewhere == Untouched /\ UNCHANGED overlapped

\* desktop_check_for_updates and begin_check, in any phase.
BeginCheck ==
    /\ Command /\ "page" \notin checks
    /\ checks' = checks \cup {"page"} /\ status' = [status EXCEPT !.phase = "checking"]
    /\ Elsewhere /\ UNCHANGED <<stored, task, handle, clicked, updateFaults>>

\* launch_update_check has slept, and should_automatically_check.
BeginBackgroundCheck ==
    /\ Command /\ "background" \notin checks
    /\ checks' = checks \cup {"background"}
    /\ Elsewhere /\ UNCHANGED <<status, stored, task, handle, clicked, updateFaults>>

\* UpdateCoordinator::checked
Checked(v) ==
    status' = [status EXCEPT !.available = v, !.phase = IF v = 0 THEN "up_to_date" ELSE "available"]

\* accepts_update: nothing older than what was seen before, if the ledger can be
\* read. The page does not ask it.
Accepted(by, v) == by = "page" \/ v >= ledger.highest

CheckEnds(by) ==
    /\ by \in checks /\ checks' = checks \ {by}
    /\ \/ /\ Found = 0 \/ Accepted(by, Found)
          /\ Checked(Found) /\ Persist(status')
       \/ /\ Found # 0 /\ ~Accepted(by, Found)
          /\ UNCHANGED <<status, stored, updateFaults>>
       \/ /\ Found # 0 /\ ~Accepted(by, Found) /\ UpdateFault
          /\ Checked(Found) /\ stored' = Persisted(status')
       \/ /\ UpdateFault /\ status' = [status EXCEPT !.phase = "failed"]
          /\ stored' = Persisted(status)
    /\ Elsewhere /\ UNCHANGED <<task, handle, clicked>>

\* desktop_dismiss_update, which hides the notification.
DismissUpdate ==
    /\ Command /\ status.phase = "available" /\ status.dismissed # status.available
    /\ status' = [status EXCEPT !.dismissed = status.available] /\ Persist(status')
    /\ Elsewhere /\ UNCHANGED <<checks, task, handle, clicked>>

\* desktop_schedule_update; every mode waits for the next launch.
ScheduleUpdate ==
    /\ Command /\ status.phase = "ready_to_restart"
    /\ status' = [status EXCEPT !.scheduled = TRUE, !.phase = "waiting_for_idle"] /\ Persist(status')
    /\ Elsewhere /\ UNCHANGED <<checks, task, handle, clicked>>

-----------------------------------------------------------------------------
(* Downloads *)

\* desktop_download_update
BeginDownload(d) ==
    /\ Command /\ status.phase = "available" /\ handle = 0
    /\ task[d].step = "none" /\ \A e \in 1 .. d - 1 : task[e].step # "none"
    /\ task' = [task EXCEPT ![d].step = "asking", ![d].version = status.available]
    /\ handle' = d /\ status' = [status EXCEPT !.phase = "downloading"]
    /\ clicked' = clicked \cup {status.available}
    /\ Elsewhere /\ UNCHANGED <<stored, checks, updateFaults>>

\* desktop_cancel_update_download: a task is aborted where it awaits; one that
\* has no await left goes on to its end.
CancelDownload ==
    /\ Command /\ handle # 0
    /\ task' = [task EXCEPT ![handle].step = IF @ \in {"asking", "downloading"} THEN "ended" ELSE @]
    /\ handle' = 0
    /\ status' = [status EXCEPT !.phase = IF status.available # 0 THEN "available" ELSE "idle"]
    /\ Persist(status')
    /\ Elsewhere /\ UNCHANGED <<checks, clicked>>

ToStep(d, step) == task' = [task EXCEPT ![d].step = step]
Fails(d) == task' = [task EXCEPT ![d].step = "ending", ![d].outcome = "failed"]

\* Mutant: whatever is offered now is downloaded.
AskedForAny(d) == Found # 0

AskedFor(d) == Found = task[d].version

\* download_verified_update asks again what there is.
AskForUpdate(d) ==
    /\ task[d].step = "asking"
    /\ \/ /\ AskedFor(d) /\ UNCHANGED updateFaults
          /\ task' = [task EXCEPT ![d].step = "downloading", ![d].version = Found]
       \/ ~AskedFor(d) /\ Fails(d) /\ UNCHANGED updateFaults
       \/ UpdateFault /\ Fails(d)
    /\ Elsewhere /\ UNCHANGED <<status, stored, checks, handle, clicked>>

\* The rest of a download has no await left: nothing aborts it, or keeps it apart
\* from the next one.
Writing == {"archiving", "reading", "recording", "pruning"}

\* Candidate::download, with its signature.
DownloadUpdate(d) ==
    /\ task[d].step = "downloading"
    /\ \/ /\ ToStep(d, "archiving") /\ UNCHANGED updateFaults
          /\ overlapped' = (overlapped \/ \E e \in Downloads : task[e].step \in Writing)
       \/ UpdateFault /\ Fails(d) /\ UNCHANGED overlapped
    /\ Untouched /\ UNCHANGED <<status, stored, checks, handle, clicked>>

Filing ==
    UNCHANGED <<running, onDisk, offered, launch, status, stored, checks, handle, clicked,
                overlapped, publications, launches>>

\* archive_verified_update writes the file before the ledger names it. A write
\* that fails may have replaced the file.
ArchiveUpdate(d) ==
    LET filed == archive \cup {task[d].version}
    IN  /\ task[d].step = "archiving"
        /\ \/ archive' = filed /\ ToStep(d, "reading") /\ UNCHANGED updateFaults
           \/ UpdateFault /\ Fails(d) /\ archive' \in {archive, filed}
        /\ Filing /\ UNCHANGED ledger

\* The newest artifacts of a ledger.
Newest(vs) == {v \in vs : Cardinality({w \in vs : w > v}) < KeptArtifacts}

\* ... then reads the ledger, an unreadable one as empty, ...
ReadLedger(d) ==
    /\ task[d].step = "reading"
    /\ \E artifacts \in {ledger.artifacts, {}} :
        /\ task' = [task EXCEPT ![d].step = "recording",
                                ![d].named = artifacts \cup {task[d].version}]
        /\ \/ artifacts = ledger.artifacts /\ UNCHANGED updateFaults
           \/ artifacts = {} /\ UpdateFault
    /\ Filing /\ UNCHANGED <<ledger, archive>>

\* ... writes it anew, cut to the newest; the last of the versions archived is the
\* highest seen, whatever was seen before, ...
RecordUpdate(d) ==
    LET recorded == [highest |-> task[d].version, artifacts |-> Newest(task[d].named)]
    IN  /\ task[d].step = "recording"
        /\ \/ ledger' = recorded /\ ToStep(d, "pruning") /\ UNCHANGED updateFaults
           \/ UpdateFault /\ Fails(d) /\ ledger' \in {ledger, recorded}
        /\ Filing /\ UNCHANGED archive

\* ... and removes the files it has cut off, or fails to.
PruneArchive(d) ==
    /\ task[d].step = "pruning"
    /\ task' = [task EXCEPT ![d].step = "ending", ![d].outcome = "ready_to_restart"]
    /\ \/ /\ archive' = archive \ (task[d].named \ Newest(task[d].named))
          /\ UNCHANGED updateFaults
       \/ UpdateFault /\ UNCHANGED archive
    /\ Filing /\ UNCHANGED ledger

\* The task takes the lock again, and with it the handle, be it its own or not.
EndDownload(d) ==
    /\ task[d].step = "ending" /\ ToStep(d, "ended") /\ handle' = 0
    /\ status' = [status EXCEPT !.phase = task[d].outcome] /\ Persist(status')
    /\ Elsewhere /\ UNCHANGED <<checks, clicked>>

-----------------------------------------------------------------------------
(* Launches *)

\* The Desktop ends, and is launched again: restore_update_state.
Relaunch ==
    /\ launches < MaxLaunches /\ launches' = launches + 1
    /\ running' = onDisk /\ launch' = "restored"
    /\ status' = [phase |-> IF stored.scheduled /\ stored.available # 0 THEN "waiting_for_idle" ELSE "idle",
                  available |-> stored.available, scheduled |-> stored.scheduled,
                  dismissed |-> stored.dismissed]
    /\ Persist(status')
    /\ checks' = {} /\ handle' = 0
    /\ task' = [d \in Downloads |-> IF task[d].step = "none" THEN task[d] ELSE [task[d] EXCEPT !.step = "ended"]]
    /\ UNCHANGED <<onDisk, offered, ledger, archive, clicked, overlapped, publications>>

\* install_scheduled_update, or the Core is launched.
BeginInstall ==
    /\ launch = "restored"
    /\ IF status.scheduled /\ status.available # 0
       THEN launch' = "installing" /\ status' = [status EXCEPT !.phase = "installing"]
       ELSE launch' = "open" /\ UNCHANGED status
    /\ UNCHANGED <<running, onDisk, offered, stored, checks, task, handle, ledger, archive, clicked,
                   overlapped, publications, launches, updateFaults>>

\* The version is still what is offered, and verified_update_bytes finds it.
Installable(v) == v = Found /\ v \in ledger.artifacts \cap archive

\* An installation can fail in many ways. After one no Core is started: the next launch runs the update.
EndInstall ==
    LET v == status.available
    IN  /\ launch = "installing"
        /\ \/ /\ Installable(v) /\ onDisk' = v /\ launch' = "installed"
              /\ status' = [status EXCEPT !.phase = "completed", !.scheduled = FALSE, !.available = 0]
           \/ /\ status' = [status EXCEPT !.phase = "failed", !.scheduled = FALSE]
              /\ launch' = "open" /\ UNCHANGED onDisk
        /\ Persist(status')
        /\ UNCHANGED <<running, offered, checks, task, handle, ledger, archive, clicked,
                       overlapped, publications, launches>>

-----------------------------------------------------------------------------
Downloading ==
    \E d \in Downloads :
        \/ AskForUpdate(d) \/ DownloadUpdate(d) \/ ArchiveUpdate(d) \/ ReadLedger(d)
        \/ RecordUpdate(d) \/ PruneArchive(d) \/ EndDownload(d)
Checking == \E by \in Checkers : CheckEnds(by)

UpdateNext ==
    \/ \E v \in AnyVersion : Publish(v)
    \/ BeginCheck \/ BeginBackgroundCheck \/ Checking \/ DismissUpdate \/ ScheduleUpdate
    \/ CancelDownload \/ Downloading \/ (\E d \in Downloads : BeginDownload(d))
    \/ Relaunch \/ BeginInstall \/ EndInstall

UpdateSpec == UpdateInit /\ [][UpdateNext]_updateVars

-----------------------------------------------------------------------------
(* Properties *)

\* The ledger names no file that is gone, so that what it promises can be
\* installed or gone back to.
LedgerNamesFiles == ledger.artifacts \subseteq archive

\* Whatever is cancelled, published or withdrawn in between, a version is installed
\* only if the user asked for its download and it was verified; and unless a cancelled
\* download has written beside another one, the ledger names no file that is gone,
\* whichever of its writes, reads and removals fails or is cut off by the end of the Desktop.
UpdatesAreVerified ==
    /\ onDisk \in {1} \cup clicked
    /\ ~overlapped => LedgerNamesFiles
=============================================================================
