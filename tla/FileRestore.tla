------------------------------ MODULE FileRestore ------------------------------
(***************************************************************************)
(* Restoring the files of a recovery checkpoint into a directory: a        *)
(* preview that compares every file with a second, pre-rollback checkpoint,*)
(* and the restore, which compares again, stages every file beside its     *)
(* destination and renames them one by one; when a rename fails, the files *)
(* renamed before it are put back from the pre-rollback checkpoint.        *)
(*                                                                         *)
(* A file is Before (what the pre-rollback checkpoint holds), Target (what *)
(* is restored) or Edited by its user, who works on at any time.  Any call *)
(* on a file may fail, and Core may stop between any two.                  *)
(***************************************************************************)
EXTENDS Naturals, Sequences, FiniteSets

CONSTANTS
    LastFile,           \* files of the checkpoint, 1..LastFile in their order
    MaxFileEdits,       \* bound: edits by the user
    MaxFileFaults,      \* bound: calls that fail
    MaxRestoreStops     \* bound: stops of Core

ASSUME RestoreAssumption == {LastFile, MaxFileEdits, MaxFileFaults, MaxRestoreStops} \subseteq Nat

VARIABLES
    disk,               \* content of each file
    reviewed,           \* the selection whose preview hash the client holds, or none
    selected,           \* files of the restore being served, in order
    restorePhase,       \* where it stands
    staged,             \* index of those that are staged, ...
    committed,          \* ... and how many are renamed
    outcome,            \* what the last restore has answered
    fileFaults, fileEdits, restoreStops,
    undone              \* history: files a failing rollback or a stop has left alone

restoreVars == <<disk, reviewed, selected, restorePhase, staged, committed, outcome,
                 fileFaults, fileEdits, restoreStops, undone>>
restoreCounters == <<fileFaults, fileEdits, restoreStops>>

Files == 1..LastFile
Selections ==
    {s \in UNION {[1..n -> Files] : n \in Files} : \A i, j \in DOMAIN s : i < j => s[i] < s[j]}

RestoreTypeOK ==
    /\ disk \in [Files -> {"before", "target", "edited"}]
    /\ {reviewed, selected} \subseteq Selections \cup {<<>>}
    /\ restorePhase \in {"idle", "staging", "renaming", "syncing", "undoing"}
    /\ staged \in 0..LastFile /\ committed \in 0..LastFile
    /\ outcome \in {"none", "restored", "refused", "failed"}
    /\ undone \subseteq Files

RestoreInit ==
    /\ disk \in [Files -> {"before", "edited"}]
    /\ reviewed = <<>> /\ selected = <<>> /\ restorePhase = "idle"
    /\ staged = 0 /\ committed = 0 /\ outcome = "none"
    /\ fileFaults = 0 /\ fileEdits = 0 /\ restoreStops = 0 /\ undone = {}

\* build_verified_restore_plan: every selected file is what the pre-rollback
\* checkpoint holds.
Verified(s) == \A i \in DOMAIN s : disk[s[i]] = "before"

FileFault ==
    /\ fileFaults < MaxFileFaults
    /\ fileFaults' = fileFaults + 1
    /\ UNCHANGED <<fileEdits, restoreStops>>

AnswerRestore(what) ==
    /\ outcome' = what /\ restorePhase' = "idle" /\ selected' = <<>>
    /\ staged' = 0 /\ committed' = 0

-----------------------------------------------------------------------------
(* preview_restore and restore_checkpoint_files *)

PreviewRestore(s) ==
    /\ Verified(s)
    /\ reviewed' = s
    /\ UNCHANGED <<disk, selected, restorePhase, staged, committed, outcome,
                   restoreCounters, undone>>

\* The plan is built again; its hash depends on the selection and on contents that
\* are verified, so it is the reviewed one when the verification passes.
BeginRestore(s) ==
    /\ restorePhase = "idle" /\ s = reviewed
    /\ IF Verified(s)
       THEN selected' = s /\ restorePhase' = "staging" /\ undone' = {} /\ UNCHANGED outcome
       ELSE outcome' = "refused" /\ UNCHANGED <<selected, restorePhase, undone>>
    /\ UNCHANGED <<disk, reviewed, staged, committed, restoreCounters>>

\* Mutant: the count is compared before it is raised.
StageOneMore ==
    /\ restorePhase = "staging"
    /\ staged' = staged + 1
    /\ restorePhase' = IF staged = Len(selected) THEN "renaming" ELSE "staging"
    /\ UNCHANGED <<disk, reviewed, selected, committed, outcome, restoreCounters, undone>>

StageFile ==
    /\ restorePhase = "staging"
    /\ staged' = staged + 1
    /\ restorePhase' = IF staged' = Len(selected) THEN "renaming" ELSE "staging"
    /\ UNCHANGED <<disk, reviewed, selected, committed, outcome, restoreCounters, undone>>

\* What was staged is removed.
StagingFails ==
    /\ restorePhase = "staging"
    /\ FileFault
    /\ AnswerRestore("failed")
    /\ UNCHANGED <<disk, reviewed, undone>>

RenameFile ==
    /\ restorePhase = "renaming"
    /\ disk' = [disk EXCEPT ![selected[committed + 1]] = "target"]
    /\ committed' = committed + 1
    /\ restorePhase' = "syncing"
    /\ UNCHANGED <<reviewed, selected, staged, outcome, restoreCounters, undone>>

SyncDirectory ==
    /\ restorePhase = "syncing"
    /\ IF committed = Len(selected)
       THEN AnswerRestore("restored")
       ELSE restorePhase' = "renaming" /\ UNCHANGED <<selected, staged, committed, outcome>>
    /\ UNCHANGED <<disk, reviewed, restoreCounters, undone>>

\* Here the restore returns at once: nothing is put back, and what is still staged
\* stays beside its destination, as it does after a stop.
SyncFails ==
    /\ restorePhase = "syncing"
    /\ FileFault
    /\ undone' = {selected[i] : i \in 1..committed}
    /\ AnswerRestore("failed")
    /\ UNCHANGED <<disk, reviewed>>

RenameFails ==
    /\ restorePhase = "renaming"
    /\ FileFault
    /\ restorePhase' = "undoing"
    /\ UNCHANGED <<disk, reviewed, selected, staged, committed, outcome, undone>>

\* Mutant: the rollback starts at the file before the last one renamed.
LastCommittedMissed == committed - 1

\* The renamed files are put back from the last to the first.
LastCommitted == committed

UndoFile ==
    /\ restorePhase = "undoing"
    /\ IF LastCommitted < 1
       THEN AnswerRestore("failed") /\ UNCHANGED <<disk, undone, fileFaults>>
       ELSE \/ /\ disk' = [disk EXCEPT ![selected[LastCommitted]] = "before"]
               /\ committed' = LastCommitted - 1
               /\ UNCHANGED <<selected, staged, outcome, restorePhase, undone, fileFaults>>
            \/ /\ fileFaults < MaxFileFaults       \* an error here is ignored
               /\ fileFaults' = fileFaults + 1
               /\ undone' = undone \cup {selected[LastCommitted]}
               /\ committed' = LastCommitted - 1
               /\ UNCHANGED <<selected, staged, outcome, restorePhase, disk>>
    /\ UNCHANGED <<reviewed, fileEdits, restoreStops>>

-----------------------------------------------------------------------------
(* The user and Core *)

EditFile(f) ==
    /\ fileEdits < MaxFileEdits
    /\ fileEdits' = fileEdits + 1
    /\ disk' = [disk EXCEPT ![f] = "edited"]
    /\ UNCHANGED <<reviewed, selected, restorePhase, staged, committed, outcome,
                   fileFaults, restoreStops, undone>>

StopRestore ==
    /\ restoreStops < MaxRestoreStops
    /\ restoreStops' = restoreStops + 1
    /\ undone' = {selected[i] : i \in 1..committed}
    /\ AnswerRestore("none")
    /\ UNCHANGED <<disk, reviewed, fileFaults, fileEdits>>

RestoreNext ==
    \/ \E s \in Selections : PreviewRestore(s) \/ BeginRestore(s)
    \/ StageFile \/ StagingFails
    \/ RenameFile \/ RenameFails \/ SyncDirectory \/ SyncFails
    \/ UndoFile
    \/ \E f \in Files : EditFile(f)
    \/ StopRestore

RestoreSpec == RestoreInit /\ [][RestoreNext]_restoreVars

-----------------------------------------------------------------------------
(* Properties *)

\* A restore that answers has restored all of its files or none, but for those the
\* user has edited meanwhile and those whose way back a second failure, a failed
\* sync or a stop has cut off (apply_verified_restore).
RestoreIsAllOrNothing ==
    [][restorePhase \notin {"idle"} /\ restorePhase' = "idle" =>
           LET settled == {selected[i] : i \in DOMAIN selected} \ undone'
               left == {disk'[f] : f \in settled} \ {"edited"}
           IN  /\ outcome' = "restored" => left \subseteq {"target"}
               /\ outcome' = "failed" => left \subseteq {"before"}]_restoreVars
=============================================================================
