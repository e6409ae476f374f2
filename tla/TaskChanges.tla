------------------------------ MODULE TaskChanges ------------------------------
(***************************************************************************)
(* Changes to the tasks in a Markdown note of the Vault: a preview of the  *)
(* exact bytes, the user's approval, and the write, which uses the         *)
(* approval up before it compares the note and replaces it.                *)
(*                                                                         *)
(* The note also belongs to an editor Restork knows nothing of.  A content *)
(* is told apart by what it holds: how many edits of the user's, and which *)
(* of the task changes.  One action is one access to the note or to the    *)
(* store; Core may stop between any two, and come back on another Vault.   *)
(***************************************************************************)
EXTENDS Naturals, Sequences, FiniteSets

CONSTANTS
    TaskKeys,           \* idempotency keys, one for each change that is wanted
    TaskHandlers,       \* requests being served
    Vaults,             \* Vaults the desktop may grant
    MaxNoteEdits,       \* bound: edits by the user
    MaxCoreStops        \* bound: stops of Core, Vault switches included

ASSUME TaskAssumption ==
    /\ Vaults # {} /\ TaskHandlers # {}
    /\ MaxNoteEdits \in Nat /\ MaxCoreStops \in Nat

VARIABLES
    vault,              \* the Vault that is granted
    note,               \* content of the note
    taskPreviews,       \* task_write_previews
    taskApprovals,      \* their approvals, with the decision
    expired,            \* previews past their 15 minutes
    taskHandler,        \* each request: phase, what it is about, what it has read
    approvedIn,         \* history: what the user approved, and on which Vault
    writes,             \* history: previews written, and on which Vault
    coreStops           \* history: stops of Core

taskVars == <<vault, note, taskPreviews, taskApprovals, expired, taskHandler, approvedIn,
              writes, coreStops>>
taskRows == <<taskPreviews, taskApprovals>>
taskHistory == <<approvedIn, writes>>

Contents == [edits : 0..MaxNoteEdits, tasks : SUBSET TaskKeys]
Blank == [edits |-> 0, tasks |-> {}]
Previews == [key : TaskKeys, content : Contents, expected : Contents]
TaskDecisions == {"pending", "approved", "rejected", "consumed"}
TaskRequest ==
    [phase : {"idle", "read", "previewed", "saved", "checked", "consumed", "compared", "written"},
     about : SUBSET (TaskKeys \cup Previews), base : Contents]
IdleRequest == [phase |-> "idle", about |-> {}, base |-> Blank]

TaskTypeOK ==
    /\ vault \in Vaults
    /\ note \in Contents
    /\ taskPreviews \subseteq Previews
    /\ taskApprovals \subseteq [preview : Previews, decision : TaskDecisions]
    /\ expired \subseteq Previews
    /\ taskHandler \in [TaskHandlers -> TaskRequest]
    /\ approvedIn \subseteq Previews \X Vaults
    /\ writes \in Seq(Previews \X Vaults)

TaskInit ==
    /\ vault \in Vaults
    /\ note = Blank
    /\ taskPreviews = {} /\ taskApprovals = {} /\ expired = {}
    /\ taskHandler = [h \in TaskHandlers |-> IdleRequest]
    /\ approvedIn = {} /\ writes = <<>>
    /\ coreStops = 0

Decided(p, decision) == [preview |-> p, decision |-> decision] \in taskApprovals
Known(p) == \E a \in taskApprovals : a.preview = p
\* UPDATE approvals SET decision WHERE the decision is the one expected
Redecide(p, from, to) ==
    taskApprovals' = (taskApprovals \ {[preview |-> p, decision |-> from]})
                         \cup {[preview |-> p, decision |-> to]}

At(h, phase) == taskHandler[h].phase = phase
Goes(h, phase) == taskHandler' = [taskHandler EXCEPT ![h].phase = phase]
Answer(h) == taskHandler' = [taskHandler EXCEPT ![h] = IdleRequest]
RequestOnly == UNCHANGED <<vault, expired, approvedIn, coreStops>>

-----------------------------------------------------------------------------
(* Preview: preview_task_change, preview_task_capture, create_task_preview *)

\* The note is read and the change worked out on it.
ReadNote(h, k) ==
    /\ At(h, "idle") /\ k \notin note.tasks
    /\ taskHandler' = [taskHandler EXCEPT ![h] =
                           [phase |-> "read", about |-> {k}, base |-> note]]
    /\ RequestOnly
    /\ UNCHANGED <<note, taskRows, writes>>

\* preview_write reads the note again: its hash is what the write will expect.
PreviewWrite(h) ==
    /\ At(h, "read")
    /\ \E k \in taskHandler[h].about :
           LET base == taskHandler[h].base
               p == [key |-> k, content |-> [base EXCEPT !.tasks = @ \cup {k}],
                     expected |-> note]
           IN  taskHandler' = [taskHandler EXCEPT ![h] =
                                   [phase |-> "previewed", about |-> {p}, base |-> base]]
    /\ RequestOnly
    /\ UNCHANGED <<note, taskRows, writes>>

\* A preview that exists is the answer; a key is used for one preview only.
SavePreview(h) ==
    /\ At(h, "previewed")
    /\ \E p \in taskHandler[h].about :
           IF \E q \in taskPreviews : q.key = p.key
           THEN Answer(h) /\ UNCHANGED taskPreviews
           ELSE taskPreviews' = taskPreviews \cup {p} /\ Goes(h, "saved")
    /\ RequestOnly
    /\ UNCHANGED <<note, taskApprovals, writes>>

\* save_approval: a row that exists keeps its decision.
SaveApproval(h) ==
    /\ At(h, "saved")
    /\ \E p \in taskHandler[h].about :
           taskApprovals' = IF Known(p) THEN taskApprovals
                            ELSE taskApprovals \cup {[preview |-> p, decision |-> "pending"]}
    /\ Answer(h)
    /\ RequestOnly
    /\ UNCHANGED <<note, taskPreviews, writes>>

-----------------------------------------------------------------------------
(* Apply: apply_task_change *)

\* The preview and its approval are read, and the expiry looked at.
CheckApproval(h, p) ==
    /\ At(h, "idle")
    /\ p \in taskPreviews /\ Decided(p, "approved") /\ p \notin expired
    /\ taskHandler' = [taskHandler EXCEPT ![h] =
                           [phase |-> "checked", about |-> {p}, base |-> Blank]]
    /\ RequestOnly
    /\ UNCHANGED <<note, taskRows, writes>>

\* Mutant: the decision that was read is trusted.
ConsumableAsRead(p) == TRUE

\* consume_approval is a compare-and-swap.
Consumable(p) == Decided(p, "approved")

ConsumeApproval(h) ==
    /\ At(h, "checked")
    /\ \E p \in taskHandler[h].about :
           IF Consumable(p)
           THEN Redecide(p, "approved", "consumed") /\ Goes(h, "consumed")
           ELSE Answer(h) /\ UNCHANGED taskApprovals
    /\ RequestOnly
    /\ UNCHANGED <<note, taskPreviews, writes>>

\* apply_write compares the note with what is expected, ...
CompareNote(h) ==
    /\ At(h, "consumed")
    /\ \E p \in taskHandler[h].about :
           CASE note # p.expected -> Answer(h)
             [] note = p.expected /\ note = p.content -> Goes(h, "written")
             [] OTHER -> Goes(h, "compared")
    /\ RequestOnly
    /\ UNCHANGED <<note, taskRows, writes>>

\* ... writes the new content beside it and renames it into place.
ReplaceNote(h) ==
    /\ At(h, "compared")
    /\ \E p \in taskHandler[h].about :
           note' = p.content /\ writes' = Append(writes, <<p, vault>>)
    /\ Goes(h, "written")
    /\ RequestOnly
    /\ UNCHANGED taskRows

\* consume_task_preview
DropPreview(h) ==
    /\ At(h, "written")
    /\ taskPreviews' = taskPreviews \ taskHandler[h].about
    /\ Answer(h)
    /\ RequestOnly
    /\ UNCHANGED <<note, taskApprovals, writes>>

-----------------------------------------------------------------------------
(* The user, the editor, time and Core *)

\* decide_approval
Decide(p) ==
    /\ Decided(p, "pending")
    /\ \E decision \in {"approved", "rejected"} :
           /\ Redecide(p, "pending", decision)
           /\ approvedIn' = IF decision = "approved" THEN approvedIn \cup {<<p, vault>>}
                            ELSE approvedIn
    /\ UNCHANGED <<vault, note, taskPreviews, expired, taskHandler, writes, coreStops>>

EditNote ==
    /\ note.edits < MaxNoteEdits
    /\ note' = [note EXCEPT !.edits = @ + 1]
    /\ UNCHANGED <<vault, taskRows, expired, taskHandler, taskHistory, coreStops>>

\* Only the expiry of an approved preview is ever looked at.
Expire(p) ==
    /\ p \in taskPreviews \ expired /\ Decided(p, "approved")
    /\ expired' = expired \cup {p}
    /\ UNCHANGED <<vault, note, taskRows, taskHandler, taskHistory, coreStops>>

StopCore ==
    /\ coreStops < MaxCoreStops
    /\ coreStops' = coreStops + 1
    /\ taskHandler' = [h \in TaskHandlers |-> IdleRequest]

RestartOnVault ==
    /\ StopCore
    /\ UNCHANGED <<vault, note, taskRows, expired, taskHistory>>

\* What invalidate_vault_bound_authority rejects.
RevokedBySwitch(a) == a.decision \in {"pending", "approved"}

\* The desktop stops Core, revokes what was reviewed on the old Vault and starts
\* Core on the new one, where the note is another file; the previews of the old
\* Vault are deleted.
SwitchVault ==
    /\ StopCore
    /\ vault' \in Vaults \ {vault}
    /\ note' = Blank
    /\ taskApprovals' = {IF RevokedBySwitch(a) THEN [a EXCEPT !.decision = "rejected"] ELSE a :
                             a \in taskApprovals}
    /\ taskPreviews' = {}
    /\ UNCHANGED <<expired, taskHistory>>

TaskRequests(handlers) ==
    \E h \in handlers :
        \/ \E k \in TaskKeys : ReadNote(h, k)
        \/ PreviewWrite(h) \/ SavePreview(h) \/ SaveApproval(h)
        \/ \E p \in taskPreviews : CheckApproval(h, p)
        \/ ConsumeApproval(h) \/ CompareNote(h) \/ ReplaceNote(h) \/ DropPreview(h)

\* The steps of some requests, disturbed by the editor and by stops of Core or not.
TaskSteps(handlers, disturbed) ==
    \/ TaskRequests(handlers)
    \/ \E a \in taskApprovals : Decide(a.preview)
    \/ \E p \in taskPreviews : Expire(p)
    \/ disturbed /\ (EditNote \/ RestartOnVault \/ SwitchVault)

TaskNext == TaskSteps(TaskHandlers, TRUE)

TaskSpec == TaskInit /\ [][TaskNext]_taskVars

-----------------------------------------------------------------------------
(* Properties *)

\* Every write was approved by the user, on the Vault it is made in, and an
\* approval is good for one: whatever is requested twice, interrupted or moved to
\* another Vault (apply_task_change, invalidate_vault_bound_authority).
WritesAreApprovedOnce ==
    /\ \A i \in DOMAIN writes : writes[i] \in approvedIn
    /\ \A i, j \in DOMAIN writes : writes[i] = writes[j] => i = j

=============================================================================
