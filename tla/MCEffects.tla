----------------------------- MODULE MCEffects ------------------------------
(* The components that write or hand out files the user has reviewed or asked *)
(* for, the bounded run machine, the messages of a durable run and the file   *)
(* of the store, as one instance.  Init picks a component, and with it the    *)
(* actors that matter; the others rest in their initial states.               *)
EXTENDS TaskChanges, WorkHandoff, FileRestore, Deliverables, DesktopUpdates,
        RunMachine, RunContext, StoreFile, TLC

CONSTANT h1         \* the request served where one is enough

ASSUME EffectsAssumption == h1 \in TaskHandlers \cap WorkHandlers

VARIABLE part       \* what this behaviour is about

Symmetry == Permutations(TaskKeys) \cup Permutations(Vaults)

WorkParts == {"two handoffs", "one handoff", "evidence"}

\* Facts of two sources and of one, from the verified to the unverified.
ModelLedgers ==
    {("f1" :> {Source("task_observation", "verified"), Source("user_assertion", "self_asserted")})
         @@ ("f2" :> {Source("run_event", "stale")}),
     "f1" :> {Source("memory", "unverified")}}

Init ==
    /\ part \in {"two changes", "one change", "restore", "documents", "updates", "machine", "context", "store"} \cup WorkParts
    /\ TaskInit
    /\ WorkInit
    /\ part \notin WorkParts => repo = [p \in Paths |-> 0]
    /\ RestoreInit
    /\ part # "restore" => disk = [file \in Files |-> "before"]
    /\ DeliverablesInit
    /\ UpdateInit
    /\ MachineInit
    /\ ContextInit
    /\ part # "context" => keptContext.messages = Started
    /\ StoreInit
    /\ part # "store" => store.version = 0

TaskPart ==
    \/ part = "two changes" /\ TaskSteps(TaskHandlers, FALSE)
    \/ part = "one change" /\ TaskSteps({h1}, TRUE)

WorkPart ==
    \/ part = "two handoffs" /\ HandoffSteps(WorkHandlers, FALSE)
    \/ part = "one handoff" /\ HandoffSteps({h1}, TRUE)
    \/ part = "evidence" /\ (EvidenceSteps \/ PlanSteps(h1))

RestorePart == part = "restore" /\ RestoreNext

FileVars == <<taskVars, workVars, restoreVars>>
OtherVars == <<deliverableVars, updateVars, machineVars, contextVars, storeVars>>

FileSteps ==
    \/ TaskPart /\ UNCHANGED <<workVars, restoreVars>>
    \/ WorkPart /\ UNCHANGED <<taskVars, restoreVars>>
    \/ RestorePart /\ UNCHANGED <<taskVars, workVars>>

OtherSteps ==
    \/ part = "documents" /\ DeliverablesNext /\ UNCHANGED <<updateVars, machineVars, contextVars, storeVars>>
    \/ part = "updates" /\ UpdateNext /\ UNCHANGED <<deliverableVars, machineVars, contextVars, storeVars>>
    \/ part = "machine" /\ MachineNext /\ UNCHANGED <<deliverableVars, updateVars, contextVars, storeVars>>
    \/ part = "context" /\ ContextNext /\ UNCHANGED <<deliverableVars, updateVars, machineVars, storeVars>>
    \/ part = "store" /\ StoreFileNext /\ UNCHANGED <<deliverableVars, updateVars, machineVars, contextVars>>

Next ==
    /\ UNCHANGED part
    /\ \/ FileSteps /\ UNCHANGED OtherVars
       \/ OtherSteps /\ UNCHANGED FileVars

Spec == Init /\ [][Next]_<<part, FileVars, OtherVars>>

\* The rows, the files and what the requests carry are of their types.
EffectsTypeOK ==
    /\ part \in {"two changes", "one change"} => TaskTypeOK
    /\ part \in WorkParts => WorkTypeOK
    /\ part = "restore" => RestoreTypeOK
    /\ part = "documents" => DeliverablesTypeOK
    /\ part = "updates" => UpdateTypeOK
    /\ part = "machine" => MachineTypeOK
    /\ part = "context" => ContextTypeOK
    /\ part = "store" => StoreTypeOK

\* What is written, handed out or run is what the user has reviewed, once where it is a
\* change, and within the limits of a bounded run.
ReviewedIsWritten ==
    /\ part \in {"two changes", "one change"} => WritesAreApprovedOnce
    /\ part \in WorkParts => ExportIsWhole
    /\ part = "documents" => ReviewedIsExportable
    /\ part = "machine" => ToolRunsAsAllowed /\ LimitsHold /\ TurnsAreAccounted

\* What is said to be done or known is believed only as far as its evidence goes, and a
\* model is told what came of its calls.
EvidenceIsSound ==
    /\ part \in WorkParts => EvidenceIsComplete
    /\ part = "documents" => NothingIsOverstated
    /\ part = "context" => ResultsFollowTheirCalls /\ NewestReplyIsKept

\* A new version of the Desktop, or of the schema of the store, takes nothing on trust
\* and leaves what it promises to go back to.
UpdatesAreSafe ==
    /\ part = "updates" => UpdatesAreVerified
    /\ part = "store" => MigratedIsBackedUp /\ ServedIsKnown
=============================================================================
