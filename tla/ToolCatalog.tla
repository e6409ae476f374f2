----------------------------- MODULE ToolCatalog -----------------------------
(***************************************************************************)
(* Extension packages and what runs of them: the rows of a package and of  *)
(* its revisions, the tool calls of a session, and the skill and the tools *)
(* of an agent run.                                                        *)
(*                                                                         *)
(* Nothing of a catalog is stored.  It is computed from the enabled        *)
(* packages whenever a request or a spawned run needs it, so that between  *)
(* the review of a call and the call a package may be updated, disabled or *)
(* rolled back.  A call of a session carries the digest of all that was    *)
(* reviewed; a run carries the hash of its skill, and of its tools only    *)
(* the names.                                                              *)
(***************************************************************************)
EXTENDS Naturals, SequencesExt

CONSTANTS
    Tools,          \* packages of one tool each
    Skill,          \* a package of kind skill
    Manifests,      \* what a package may contain, by its hash
    NoManifest,
    Pages,          \* extension pages that are open
    ToolCallers,    \* clients that review a call of a session and send it
    CallKeys,       \* idempotency keys
    RevisionLimit,  \* revisions a search looks through (100)
    MaxPackageChanges, MaxSends, MaxToolStops       \* bounds

ASSUME ToolAssumption ==
    /\ Skill \notin Tools /\ NoManifest \notin Manifests
    /\ RevisionLimit \in Nat \ {0}
    /\ {MaxPackageChanges, MaxSends, MaxToolStops} \subseteq Nat

Packages == Tools \cup {Skill}

VARIABLES
    package,        \* extension_packages: the current manifest and its state
    revision,       \* extension_package_revisions: the state of each
    installed,      \* the revisions of a package, in the order of installed_at
    page,           \* what each open page shows
    sessionActive,  \* the session is not archived
    client,         \* each client, and the handler that serves it
    execution,      \* mcp_executions, by key
    run,            \* the agent run
    admitted,       \* history: versions enabled from a page that showed them
    started,        \* history: processes started for each key
    ran,            \* history: versions that ran, with the version reviewed
    prompted,       \* history: skill versions given to the run
    packageChanges, sends, toolStops                \* bounds

packageVars == <<package, revision, installed, page, sessionActive, admitted, packageChanges>>
callVars == <<client, execution, started, sends>>
runVars == <<run, prompted>>
toolVars == <<packageVars, callVars, runVars, ran, toolStops>>

PackageStates == {"quarantined", "enabled", "disabled"}
RevisionStates == PackageStates \cup {"none", "superseded"}
AnyManifest == Manifests \cup {NoManifest}
Catalogs == [Tools -> AnyManifest]
ResolvedCalls == [tool : Tools, catalog : Catalogs]

ToolTypeOK ==
    /\ package \in [Packages -> [manifest : AnyManifest, state : PackageStates]]
    /\ revision \in [Packages -> [Manifests -> RevisionStates]]
    /\ \A p \in Packages : ToSet(installed[p]) = {m \in Manifests : revision[p][m] # "none"}
    /\ page \in [Pages -> [about : Packages, manifest : AnyManifest]]
    /\ sessionActive \in BOOLEAN
    /\ client \in [ToolCallers ->
           [step : {"idle", "reviewed", "checked", "created", "running"},
            call : SUBSET ResolvedCalls, resolved : SUBSET ResolvedCalls, key : SUBSET CallKeys]]
    /\ execution \in [CallKeys ->
           [state : {"none", "running", "succeeded", "failed"}, call : SUBSET ResolvedCalls]]
    /\ run \in [step : {"none", "created", "proposed", "approved", "done"}, skill : AnyManifest,
                allowed : SUBSET Tools, proposal : SUBSET (Tools \X Manifests)]

ToolInit ==
    /\ package = [p \in Packages |-> [manifest |-> NoManifest, state |-> "quarantined"]]
    /\ revision = [p \in Packages |-> [m \in Manifests |-> "none"]]
    /\ installed = [p \in Packages |-> <<>>]
    /\ page = [x \in Pages |-> [about |-> Skill, manifest |-> NoManifest]]
    /\ sessionActive = TRUE
    /\ client = [c \in ToolCallers |-> [step |-> "idle", call |-> {}, resolved |-> {}, key |-> {}]]
    /\ execution = [k \in CallKeys |-> [state |-> "none", call |-> {}]]
    /\ run = [step |-> "none", skill |-> NoManifest, allowed |-> {}, proposal |-> {}]
    /\ admitted = {} /\ ran = {} /\ prompted = {}
    /\ started = [k \in CallKeys |-> 0]
    /\ packageChanges = 0 /\ sends = 0 /\ toolStops = 0

-----------------------------------------------------------------------------
(* Packages *)

ChangePackages == packageChanges < MaxPackageChanges /\ packageChanges' = packageChanges + 1

\* The extension page is loaded: get_extension, list_extensions.
OpenPage(x, p) ==
    /\ page[x] # [about |-> p, manifest |-> package[p].manifest]
    /\ page' = [page EXCEPT ![x] = [about |-> p, manifest |-> package[p].manifest]]
    /\ UNCHANGED <<package, revision, installed, sessionActive, admitted, packageChanges>>

Quarantined(p, m) == [manifest |-> m, state |-> "quarantined"]

\* install_extension, of a manifest whose preview the request approves; the
\* current manifest again changes nothing.
InstallExtension(p, m) ==
    /\ ChangePackages
    /\ package[p].manifest # m
    /\ package' = [package EXCEPT ![p] = Quarantined(p, m)]
    /\ revision' = [revision EXCEPT ![p] =
           [v \in Manifests |->
               IF v = m THEN "quarantined" ELSE IF @[v] = "enabled" THEN "superseded" ELSE @[v]]]
    /\ installed' = [installed EXCEPT ![p] = IF revision[p][m] = "none" THEN Append(@, m) ELSE @]
    /\ UNCHANGED <<page, sessionActive, admitted>>

\* The compare-and-swap on the hash that the page showed.
IsCurrent(x) ==
    /\ page[x].manifest # NoManifest
    /\ package[page[x].about].manifest = page[x].manifest

\* change_extension_state, set_extension_state
SetExtensionState(x, state) ==
    LET p == page[x].about
    IN  /\ ChangePackages
        /\ IsCurrent(x)
        /\ package' = [package EXCEPT ![p].state = state]
        /\ revision' = [revision EXCEPT ![p][package[p].manifest] = state]
        /\ admitted' = IF state = "enabled" THEN admitted \cup {<<p, page[x].manifest>>} ELSE admitted
        /\ UNCHANGED <<installed, page, sessionActive>>

\* rollback_extension: the revision left behind keeps its state.
RollbackExtension(x, target) ==
    LET p == page[x].about
    IN  /\ ChangePackages
        /\ IsCurrent(x)
        /\ target # page[x].manifest /\ revision[p][target] # "none"
        /\ package' = [package EXCEPT ![p] = Quarantined(p, target)]
        /\ revision' = [revision EXCEPT ![p][target] = "quarantined"]
        /\ UNCHANGED <<installed, page, sessionActive, admitted>>

ArchiveSession ==
    /\ sessionActive /\ sessionActive' = FALSE
    /\ UNCHANGED <<package, revision, installed, page, admitted, packageChanges>>

-----------------------------------------------------------------------------
(* Calls of a session *)

\* What freeze_session makes of the enabled packages.
Catalog ==
    [t \in Tools |-> IF package[t].state = "enabled" THEN package[t].manifest ELSE NoManifest]

\* frozen_session_catalog and resolve_call: all that the digest covers.
Resolve(t) ==
    IF sessionActive /\ Catalog[t] # NoManifest THEN {[tool |-> t, catalog |-> Catalog]} ELSE {}

Answer(c) ==
    client' = [client EXCEPT ![c] = [step |-> "reviewed", call |-> @.call, resolved |-> {}, key |-> {}]]
Serving(c, step) == client' = [client EXCEPT ![c].step = step]
ToolOf(c) == (CHOOSE call \in client[c].call : TRUE).tool
KeyOf(c) == CHOOSE k \in client[c].key : TRUE

\* preview_session_tool_call
PreviewCall(c, t) ==
    /\ client[c].step \in {"idle", "reviewed"}
    /\ Resolve(t) # {} /\ client[c].call # Resolve(t)
    /\ client' = [client EXCEPT ![c].step = "reviewed", ![c].call = Resolve(t)]
    /\ UNCHANGED <<execution, started, sends, ran>>

\* Mutant: the digest that was sent is not compared.
StillResolvable(c) == Resolve(ToolOf(c)) # {}

StillAsReviewed(c) == Resolve(ToolOf(c)) = client[c].call

\* execute_session_tool_call rebuilds the catalog and compares the digests.
\* A client may send its call again, under the same key or another.
CheckCall(c, k) ==
    /\ client[c].step = "reviewed"
    /\ sends < MaxSends /\ sends' = sends + 1
    /\ StillAsReviewed(c)
    /\ client' = [client EXCEPT ![c].step = "checked",
                                ![c].resolved = Resolve(ToolOf(c)), ![c].key = {k}]
    /\ UNCHANGED <<execution, started, ran>>

NotYetMade(k) == execution[k].state = "none"

\* create_mcp_execution: with a row under this key the answer is that row, or a
\* conflict when the row is about another call.
CreateExecution(c) ==
    /\ client[c].step = "checked"
    /\ IF NotYetMade(KeyOf(c))
       THEN /\ execution' = [execution EXCEPT ![KeyOf(c)] =
                                [state |-> "running", call |-> client[c].resolved]]
            /\ Serving(c, "created")
       ELSE Answer(c) /\ UNCHANGED execution
    /\ UNCHANGED <<started, sends, ran>>

\* complete_mcp_execution
CompleteExecution(c, state) ==
    /\ execution' = [execution EXCEPT ![KeyOf(c)].state = IF @ = "running" THEN state ELSE @]
    /\ Answer(c)

\* resolve_mcp_secrets finds no credential under a name of the call.
MissSecret(c) ==
    /\ client[c].step = "created"
    /\ CompleteExecution(c, "failed")
    /\ UNCHANGED <<started, sends, ran>>

\* execute_stdio_mcp starts the process of the resolved call.
StartProcess(c) ==
    /\ client[c].step = "created"
    /\ Serving(c, "running")
    /\ started' = [started EXCEPT ![KeyOf(c)] = @ + 1]
    /\ ran' = ran \cup {[by |-> "session", tool |-> ToolOf(c), version |-> call.catalog[ToolOf(c)],
                         reviewed |-> reviewed.catalog[ToolOf(c)]] :
                            call \in client[c].resolved, reviewed \in client[c].call}
    /\ UNCHANGED <<execution, sends>>

EndProcess(c) ==
    /\ client[c].step = "running"
    /\ \E state \in {"succeeded", "failed"} : CompleteExecution(c, state)
    /\ UNCHANGED <<started, sends, ran>>

\* The client goes away, or Core stops: a handler ends where it stands and its
\* process with it. No start of Core looks at the rows.
LeaveCall(c) ==
    /\ client[c].step \in {"checked", "created", "running"}
    /\ toolStops < MaxToolStops /\ toolStops' = toolStops + 1
    /\ Answer(c)
    /\ UNCHANGED <<execution, started, sends, ran>>

-----------------------------------------------------------------------------
(* The agent run *)

\* create_agent_run freezes the names of its tools and, when it is given a skill,
\* the skill's revision.
CreateRun ==
    /\ run.step = "none"
    /\ \E skill \in {NoManifest, package[Skill].manifest} :
           /\ skill # NoManifest => package[Skill].state = "enabled"
           /\ run' = [step |-> "created", skill |-> skill,
                      allowed |-> {t \in Tools : Catalog[t] # NoManifest}, proposal |-> {}]
    /\ UNCHANGED <<ran, prompted>>

\* The revisions that a search by hash goes through, the latest first.
Searched(p) ==
    LET n == Len(installed[p])
    IN  ToSet(SubSeq(installed[p], IF n > RevisionLimit THEN n - RevisionLimit + 1 ELSE 1, n))

\* load_revision, whatever the state of the revision is.
LoadRevision(p, m) ==
    IF package[p].manifest = m \/ m \in Searched(p) THEN {m} ELSE {}

\* prompt_for_stored_run: without the revision the run is not spawned.
Prompted ==
    IF run.skill = NoManifest THEN UNCHANGED prompted
    ELSE /\ LoadRevision(Skill, run.skill) # {}
         /\ prompted' = prompted \cup LoadRevision(Skill, run.skill)

\* A spawned run that calls no tool.
SpawnRun == run.step # "none" /\ Prompted /\ UNCHANGED <<run, ran>>

\* A spawned run, with the tools of this moment (mcp_tools), proposes a call and
\* its task ends; the user approves the tool's name and the arguments.
ProposeToolCall(t) ==
    /\ run.step = "created" /\ Prompted
    /\ t \in run.allowed /\ Catalog[t] # NoManifest
    /\ run' = [run EXCEPT !.step = "proposed", !.proposal = {<<t, Catalog[t]>>}]
    /\ UNCHANGED ran

ApproveToolCall ==
    /\ run.step = "proposed" /\ run' = [run EXCEPT !.step = "approved"]
    /\ UNCHANGED <<ran, prompted>>

\* The run is spawned again and McpAgentTool.invoke runs the call; a tool that is
\* no longer offered is refused.
RunApprovedCall ==
    /\ run.step = "approved" /\ Prompted
    /\ run' = [run EXCEPT !.step = "done"]
    /\ ran' = ran \cup {[by |-> "run", tool |-> call[1], version |-> Catalog[call[1]], reviewed |-> call[2]] :
                            call \in {c \in run.proposal : Catalog[c[1]] # NoManifest}}

-----------------------------------------------------------------------------
PackageSteps(ps) ==
    /\ \/ \E x \in Pages, p \in ps : OpenPage(x, p)
       \/ \E p \in ps, m \in Manifests : InstallExtension(p, m)
       \/ \E x \in Pages, state \in {"enabled", "disabled"} : SetExtensionState(x, state)
       \/ \E x \in Pages, m \in Manifests : RollbackExtension(x, m)
       \/ ArchiveSession
    /\ UNCHANGED <<callVars, runVars, ran, toolStops>>

CallSteps ==
    /\ \E c \in ToolCallers :
           \/ LeaveCall(c)
           \/ /\ \/ \E t \in Tools : PreviewCall(c, t)
                 \/ \E k \in CallKeys : CheckCall(c, k)
                 \/ CreateExecution(c) \/ MissSecret(c) \/ StartProcess(c) \/ EndProcess(c)
              /\ UNCHANGED toolStops
    /\ UNCHANGED <<packageVars, runVars>>

RunSteps ==
    /\ \/ CreateRun \/ SpawnRun \/ ApproveToolCall \/ RunApprovedCall
       \/ \E t \in Tools : ProposeToolCall(t)
    /\ UNCHANGED <<packageVars, callVars, toolStops>>

ToolSpec == ToolInit /\ [][PackageSteps(Packages) \/ CallSteps \/ RunSteps]_toolVars

-----------------------------------------------------------------------------
(* Properties *)

\* What a session's call runs is the version whose resolved call the client
\* reviewed, and a version that was enabled from a page that showed it; the
\* prompts of a run are made of one revision of its skill, whatever has been
\* installed, rolled back or disabled since.
ReviewedVersionRuns ==
    /\ \A call \in ran :
           call.by = "session" =>
               call.version = call.reviewed /\ <<call.tool, call.version>> \in admitted
    /\ prompted \subseteq {run.skill}

\* Spec 5.2: "Calls MUST reject ... disabled/updated versions, stale approval": what
\* a run executes is the version of the tool for which the user approved the call.
ApprovedVersionRuns == \A call \in ran : call.by = "run" => call.version = call.reviewed

\* Under one key at most one process is started, however often the client sends
\* its call again and whatever becomes of the first; the row keeps its call.
ToolCallStartsOnce == \A k \in CallKeys : started[k] =< 1
=============================================================================
