------------------------------ MODULE WorkHandoff ------------------------------
(***************************************************************************)
(* The Work workflow: a plan frozen on a snapshot of a repository, the     *)
(* handoff package previewed and approved, its export to a private file,   *)
(* and the verification of what an executor outside Restork claims to have *)
(* done.                                                                   *)
(*                                                                         *)
(* The repository is the user's and changes at any time.  A request is cut *)
(* at every access to the store, the repository or the package's files; a  *)
(* stop of Core loses the requests being served and keeps the rest.  Every *)
(* package carries the time it was built at, so no two are the same: a     *)
(* package is its number, and one nothing refers to any more stands for a   *)
(* new one.                                                                *)
(***************************************************************************)
EXTENDS Naturals, FiniteSets

CONSTANTS
    WorkHandlers,       \* requests being served
    Paths,              \* files of the repository
    Targets,            \* those the plan selects
    MaxVersion,         \* bound: contents of a file, 0 is none
    MaxRepoEdits,       \* bound: changes to the repository
    MaxPackages,        \* bound: packages in use
    MaxFiles,           \* bound: files created for packages
    MaxWorkStops        \* bound: stops of Core

ASSUME WorkAssumption ==
    /\ WorkHandlers # {} /\ Targets \subseteq Paths /\ Targets # {}
    /\ {MaxVersion, MaxRepoEdits, MaxPackages, MaxFiles, MaxWorkStops} \subseteq Nat
    /\ MaxVersion # 0

VARIABLES
    repo, repoEdits,    \* the repository, and how often it was changed
    planStatus,         \* of the row in work_sessions, "none" without one
    snapshot,           \* what its plan has frozen
    workRun,            \* the run that authors the plan
    handoff,            \* package of the preview, 0 without one
    workApprovals,      \* decision on each package
    workHandler,        \* each request: phase, package, decision and file it has
    pendingFile,        \* the pending and the final name each lead to a file, or 0
    finalFile,
    files,              \* package each file was opened for
    whole,              \* files that hold all of theirs
    export,             \* package of the export that is recorded, or 0
    report,             \* the verification
    userApproved,       \* history: packages the user approved
    workStops           \* history: stops of Core

fileVars == <<pendingFile, finalFile, files, whole>>
sessionVars == <<planStatus, snapshot, handoff, export>>
repoVars == <<repo, repoEdits>>
workHistory == <<userApproved, workStops>>
workVars == <<repoVars, sessionVars, fileVars, workRun, workApprovals, workHandler,
              report, workHistory>>

Snapshots == [Paths -> 0..MaxVersion]
Packages == 1..MaxPackages
HandoffDecisions == {"none", "pending", "approved", "rejected", "consumed"}
\* What an executor reports: files it changed, a file it made, commands it ran.
Claims == [path : Paths, before : 0..MaxVersion, after : 0..MaxVersion]
Artifacts == [path : Paths, hash : 0..MaxVersion]
NoReport == [verdict |-> "none", claims |-> {}, found |-> {}]
WorkRequest ==
    [phase : {"idle", "planning", "planned", "specified", "built", "previewed", "approved",
              "pending", "writing", "written", "consumed", "renamed"},
     package : 0..MaxPackages, decision : HandoffDecisions, file : 0..MaxFiles]
Waiting == [phase |-> "idle", package |-> 0, decision |-> "none", file |-> 0]

WorkTypeOK ==
    /\ repo \in Snapshots /\ snapshot \in Snapshots /\ repoEdits \in 0..MaxRepoEdits
    /\ planStatus \in {"none", "pending", "ready", "invalid_output"}
    /\ workRun \in {"proposed", "specified", "running", "completed"}
    /\ {handoff, export} \subseteq 0..MaxPackages
    /\ workApprovals \in [Packages -> HandoffDecisions]
    /\ workHandler \in [WorkHandlers -> WorkRequest]
    /\ files \in [1..MaxFiles -> 0..MaxPackages]
    /\ {pendingFile, finalFile} \subseteq 0..MaxFiles /\ whole \subseteq 1..MaxFiles
    /\ report.verdict \in {"none", "failed", "partial", "verified"}
    /\ userApproved \subseteq Packages

WorkInit ==
    /\ repo \in [Paths -> 0..1] /\ repoEdits = 0
    /\ planStatus = "none" /\ snapshot = repo /\ handoff = 0 /\ export = 0
    /\ workRun = "proposed"
    /\ workApprovals = [p \in Packages |-> "none"]
    /\ workHandler = [h \in WorkHandlers |-> Waiting]
    /\ pendingFile = 0 /\ finalFile = 0 /\ whole = {}
    /\ files = [f \in 1..MaxFiles |-> 0]
    /\ report = NoReport /\ userApproved = {} /\ workStops = 0

In(h, phase) == workHandler[h].phase = phase
Proceed(h, phase) == workHandler' = [workHandler EXCEPT ![h].phase = phase]
Respond(h) == workHandler' = [workHandler EXCEPT ![h] = Waiting]

\* frozen_work_context: what the plan selects is as it was.
Frozen == \A p \in Targets : repo[p] = snapshot[p]

-----------------------------------------------------------------------------
(* The plan: plan_work, and the agent run that completes it *)

PlanWork(h) ==
    /\ In(h, "idle") /\ planStatus = "none"
    /\ Proceed(h, "planning")
    /\ UNCHANGED <<repoVars, sessionVars, fileVars, workRun, workApprovals, report,
                   workHistory>>

\* save_work_session, an upsert
SavePlan(h) ==
    /\ In(h, "planning")
    /\ planStatus' = "pending" /\ snapshot' = repo
    /\ Proceed(h, "planned")
    /\ UNCHANGED <<repoVars, fileVars, workRun, handoff, export, workApprovals, report,
                   workHistory>>

\* replace_proposed_run_task_spec holds the run to the version that was read.
ReplaceSpec(h) ==
    /\ In(h, "planned")
    /\ IF workRun = "proposed"
       THEN workRun' = "specified" /\ Proceed(h, "specified")
       ELSE Respond(h) /\ UNCHANGED workRun
    /\ UNCHANGED <<repoVars, sessionVars, fileVars, workApprovals, report, workHistory>>

SpawnPlanner(h) ==
    /\ In(h, "specified")
    /\ IF workRun = "specified" THEN workRun' = "running" ELSE UNCHANGED workRun
    /\ Respond(h)
    /\ UNCHANGED <<repoVars, sessionVars, fileVars, workApprovals, report, workHistory>>

\* The user may start the run as well, planned or not.
StartPlanner ==
    /\ workRun \in {"proposed", "specified"} /\ planStatus # "none"
    /\ workRun' = "running"
    /\ UNCHANGED <<repoVars, sessionVars, fileVars, workApprovals, workHandler, report, workHistory>>

\* persist_agent_outcome: the steps of the plan are there, if the reply has any.
PlannerCompletes ==
    /\ workRun = "running"
    /\ workRun' = "completed" /\ planStatus' \in {"ready", "invalid_output"}
    /\ UNCHANGED <<repoVars, snapshot, handoff, export, fileVars, workApprovals,
                   workHandler, report, workHistory>>

-----------------------------------------------------------------------------
(* The preview: preview_work_handoff *)

BuildPackage(h) ==
    /\ In(h, "idle") /\ planStatus = "ready" /\ Frozen
    /\ \E p \in Packages :
           /\ p # handoff /\ workApprovals[p] = "none"
           /\ \A g \in WorkHandlers : workHandler[g].package # p
           /\ workHandler' = [workHandler EXCEPT ![h].phase = "built", ![h].package = p]
    /\ UNCHANGED <<repoVars, sessionVars, fileVars, workRun, workApprovals, report, workHistory>>

\* The row takes one idempotency key and one package: a repetition that built
\* another is refused.
PreviewIsFree(p) == handoff = 0 \/ handoff = p

SaveHandoff(h) ==
    /\ In(h, "built")
    /\ IF PreviewIsFree(workHandler[h].package)
       THEN handoff' = workHandler[h].package /\ Proceed(h, "previewed")
       ELSE Respond(h) /\ UNCHANGED handoff
    /\ UNCHANGED <<repoVars, planStatus, snapshot, export, fileVars, workRun, workApprovals, report, workHistory>>

SaveHandoffApproval(h) ==
    /\ In(h, "previewed")
    /\ workApprovals' = [workApprovals EXCEPT ![workHandler[h].package] = "pending"]
    /\ Respond(h)
    /\ UNCHANGED <<repoVars, sessionVars, fileVars, workRun, report, workHistory>>

DecideHandoff ==
    /\ handoff # 0 /\ workApprovals[handoff] = "pending"
    /\ \E decision \in {"approved", "rejected"} :
           /\ workApprovals' = [workApprovals EXCEPT ![handoff] = decision]
           /\ userApproved' = IF decision = "approved" THEN userApproved \cup {handoff}
                              ELSE userApproved
    /\ UNCHANGED <<repoVars, sessionVars, fileVars, workRun, workHandler, report,
                   workStops>>

-----------------------------------------------------------------------------
(* The export: export_work_handoff *)

\* An export that is recorded is the answer; else the session and the decision
\* are read.
ReadHandoff(h) ==
    /\ In(h, "idle")
    /\ handoff # 0 /\ export # handoff
    /\ workApprovals[handoff] \in {"approved", "consumed"}
    /\ workHandler' = [workHandler EXCEPT ![h] =
                           [phase |-> "approved", package |-> handoff,
                            decision |-> workApprovals[handoff], file |-> 0]]
    /\ UNCHANGED <<repoVars, sessionVars, fileVars, workRun, workApprovals, report,
                   workHistory>>

\* A package that is there already is taken when its bytes are the approved ones.
LookForPackage(h) ==
    /\ In(h, "approved")
    /\ CASE ~Frozen -> Respond(h)
         [] Frozen /\ finalFile = 0 -> Proceed(h, "pending")
         [] OTHER -> IF finalFile \in whole /\ files[finalFile] = workHandler[h].package
                     THEN Proceed(h, "renamed") ELSE Respond(h)
    /\ UNCHANGED <<repoVars, sessionVars, fileVars, workRun, workApprovals, report,
                   workHistory>>

\* write_private_file creates the pending file or empties the one that is there, ...
OpenPending(h) ==
    /\ In(h, "pending")
    /\ \E f \in 1..MaxFiles :
           /\ IF pendingFile = 0 THEN files[f] = 0 /\ \A g \in 1..(f - 1) : files[g] # 0
              ELSE f = pendingFile
           /\ pendingFile' = f
           /\ files' = [files EXCEPT ![f] = workHandler[h].package]
           /\ whole' = whole \ {f}
           /\ workHandler' = [workHandler EXCEPT ![h].phase = "writing", ![h].file = f]
    /\ UNCHANGED <<repoVars, sessionVars, finalFile, workRun, workApprovals, report,
                   workHistory>>

\* ... and fills and syncs it, under whatever name it has by then.
WritePackage(h) ==
    /\ In(h, "writing")
    /\ whole' = whole \cup {workHandler[h].file}
    /\ Proceed(h, "written")
    /\ UNCHANGED <<repoVars, sessionVars, pendingFile, finalFile, files, workRun, workApprovals, report, workHistory>>

\* consume_approval, when the decision that was read is not "consumed" already
ConsumeHandoff(h) ==
    LET p == workHandler[h].package IN
    /\ In(h, "written")
    /\ IF workHandler[h].decision = "approved"
       THEN IF workApprovals[p] = "approved"
            THEN /\ workApprovals' = [workApprovals EXCEPT ![p] = "consumed"]
                 /\ Proceed(h, "consumed")
            ELSE Respond(h) /\ UNCHANGED workApprovals
       ELSE Proceed(h, "consumed") /\ UNCHANGED workApprovals
    /\ UNCHANGED <<repoVars, sessionVars, fileVars, workRun, report, workHistory>>

\* The rename fails when another request has taken the pending file.
RenamePackage(h) ==
    /\ In(h, "consumed")
    /\ IF pendingFile = 0
       THEN Respond(h) /\ UNCHANGED <<pendingFile, finalFile>>
       ELSE finalFile' = pendingFile /\ pendingFile' = 0 /\ Proceed(h, "renamed")
    /\ UNCHANGED <<repoVars, sessionVars, files, whole, workRun, workApprovals, report,
                   workHistory>>

\* save_work_export keeps the first key's export.
SaveExport(h) ==
    /\ In(h, "renamed")
    /\ export' = IF export = 0 THEN workHandler[h].package ELSE export
    /\ Respond(h)
    /\ UNCHANGED <<repoVars, planStatus, snapshot, handoff, fileVars, workRun, workApprovals, report, workHistory>>

-----------------------------------------------------------------------------
(* The verification: verify_work *)

\* Mutant: only what is there now is compared; a file that is gone is not missed.
ChangedNow == {p \in Paths : repo[p] # 0 /\ repo[p] # snapshot[p]}

\* Files that differ from the snapshot, those that are new or gone included.
ActualChanges == {p \in Paths : repo[p] # snapshot[p]}

Matched(c) == c.path \in Targets /\ c.before = snapshot[c.path] /\ c.after = repo[c.path]
Verdict(claims, artifacts, commands) ==
    LET evidence == /\ claims # {} \/ artifacts # {}
                    /\ \A c \in claims : Matched(c)
                    /\ \A a \in artifacts : a.hash = repo[a.path]
                    /\ ActualChanges \subseteq {c.path : c \in claims}
    IN  IF ~evidence THEN "failed" ELSE IF commands THEN "partial" ELSE "verified"

\* A manifest is reported on once: the rows are keyed by it.  Each reads the
\* repository for itself, so one is followed (a bound).
VerifyWork(claims, artifacts, commands) ==
    /\ planStatus # "none" /\ report = NoReport
    /\ report' = [verdict |-> Verdict(claims, artifacts, commands), claims |-> claims,
                  found |-> {p \in Paths : repo[p] # snapshot[p]}]
    /\ UNCHANGED <<repoVars, sessionVars, fileVars, workRun, workApprovals, workHandler,
                   workHistory>>

-----------------------------------------------------------------------------
(* The repository and Core *)

EditRepo ==
    /\ repoEdits < MaxRepoEdits
    /\ \E p \in Paths, v \in 0..MaxVersion : repo' = [repo EXCEPT ![p] = v]
    /\ repoEdits' = repoEdits + 1
    /\ UNCHANGED <<sessionVars, fileVars, workRun, workApprovals, workHandler, report,
                   workHistory>>

\* A start of Core leaves the sessions, the packages and their approvals alone; the
\* planner's run is a run like any other.
StopWork ==
    /\ workStops < MaxWorkStops
    /\ workStops' = workStops + 1
    /\ workHandler' = [h \in WorkHandlers |-> Waiting]
    /\ UNCHANGED <<repoVars, sessionVars, fileVars, workRun, workApprovals, report,
                   userApproved>>

PlanSteps(h) == PlanWork(h) \/ SavePlan(h) \/ ReplaceSpec(h) \/ SpawnPlanner(h)
PreviewSteps(h) == BuildPackage(h) \/ SaveHandoff(h) \/ SaveHandoffApproval(h)
ExportSteps(h) ==
    \/ ReadHandoff(h) \/ LookForPackage(h) \/ OpenPending(h) \/ WritePackage(h)
    \/ ConsumeHandoff(h) \/ RenamePackage(h) \/ SaveExport(h)

HandoffRequests(handlers) ==
    \E h \in handlers : PlanSteps(h) \/ PreviewSteps(h) \/ ExportSteps(h)

EvidenceSteps ==
    \/ EditRepo
    \/ \E claims \in SUBSET Claims, commands \in BOOLEAN :
           \E artifacts \in {{}} \cup {{a} : a \in Artifacts} :
               /\ \A c, d \in claims : c.path = d.path => c = d
               /\ VerifyWork(claims, artifacts, commands)

HandoffSteps(handlers, stops) ==
    \/ HandoffRequests(handlers) \/ StartPlanner \/ PlannerCompletes
    \/ DecideHandoff \/ EditRepo
    \/ stops /\ StopWork

WorkNext == HandoffSteps(WorkHandlers, TRUE) \/ EvidenceSteps
WorkSpec == WorkInit /\ [][WorkNext]_workVars

-----------------------------------------------------------------------------
(* Properties *)

\* The file an executor is given was approved by the user, the approval is used up,
\* and what a completed export points to is there, whole: whatever is repeated, and
\* wherever Core stops (export_work_handoff).  Two exports that are served at once
\* and cut off by a stop are the exception, see the README.
ExportIsWhole ==
    /\ finalFile # 0 => /\ files[finalFile] \in userApproved
                        /\ workApprovals[files[finalFile]] = "consumed"
    /\ export # 0 /\ (\A h \in WorkHandlers : In(h, "idle")) =>
           finalFile \in whole /\ files[finalFile] = export

\* A result is verified only when every file that differs from the frozen snapshot,
\* the deleted ones included, is a selected target the manifest declares
\* (verify_work).
EvidenceIsComplete ==
    report.verdict \in {"verified", "partial"} =>
        report.found \subseteq Targets \cap {c.path : c \in report.claims}
=============================================================================
