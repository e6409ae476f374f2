# Restork, modelled in TLA+

Restork is a local agent workspace. A Rust process, the Core, serves an HTTP API on the loopback
interface, keeps everything durable in one SQLite database and advances agent runs, conversation turns
and schedules in Tokio tasks. A browser Dashboard, a command line and a Tauri desktop shell are its
clients; the desktop shell also owns the Core process. This directory models the parts of the system
whose correctness depends on the order of things: handlers that race tasks, a Core that stops between two
writes, a decision that arrives late, a page that is older than the row it shows.

1. The system &nbsp; 2. The plan &nbsp; 3. How the models are written &nbsp; 4. The runs and their bounds &nbsp;
5.–13. The components &nbsp; 14. Proofs &nbsp; 15. Where code and documents disagree &nbsp; 16. What is not modelled

## 1. The system

| Component | Durable state | Volatile state | Operations | Modules |
|---|---|---|---|---|
| Durable agent run (`restork-core/durable_loop.rs`) | `runs`, `events`, `event_snapshots` | the loop's locals | claim, resume a pending call, model call, tool calls, ask, bounds, finish, compact | `RunLifecycle`, `AgentRun`, `RunContext` |
| Run handlers and registry (`restork-api/lib.rs`, `feature_api.rs`) | – | `run_cancellations` | create, advance, cancel, freeze, decide | `AgentRun` |
| Bounded run machine (`restork-core/run_loop.rs`) | – | phase, usage | propose, confirm, model step, policy, approve, tool, validate, cancel | `RunMachine` |
| Store (`restork-storage/lib.rs`) | the file, its migrations and backups | one connection | open, back up, migrate; compare-and-swap, append, replay | `StoreFile`, `AgentRun`, `EventStream` |
| Conversation turns (`operation.rs`, `session_api.rs`) | `conversation_operations`, `operation_events`, `session_messages`, `context_previews` | `operation_cancellations` | preview, create, stream, complete, fail, cancel, abandon | `OperationLifecycle`, `Conversation` |
| Sessions, profiles, prompts (`workspace.rs`, `config_api.rs`) | sessions and versioned documents | – | post, branch, export, archive, delete, put under an expected version, list | `Sessions`, `Settings`, `Paging` |
| Event streams (`lib.rs`, `session_api.rs`, `reconnectable-stream.ts`) | the event tables | the cursors of server and page | replay, follow, reconnect | `EventFeed`, `EventStream` |
| Pairing and tokens (`auth.rs`, `client.ts`, `cli.rs`) | the token file | codes, tokens, expiries, the tabs' tokens | pair, verify, rotate, resume, revoke | `PairingAuthority` |
| Schedules (`catalog.rs`, `restorkd/lib.rs`, `restork-automation`) | schedules and their runs | the tick | due, claim, complete, advance, run by hand | `ScheduleRuns`, `Calendar` |
| Subtasks (`automation.rs`, `catalog_api.rs`) | rows with a state | slots | create, claim, complete, cancel | `Subtasks` |
| Recovery checkpoints (`catalog_api.rs`) | copies of files | – | preview, restore | `FileRestore` |
| Extensions (`catalog_api.rs`, `restork-extension`, `mcp.rs`) | packages, revisions, executions | – | install, update, enable, roll back, review and run a call | `ToolCatalog` |
| Workers and MCP transport (`restork-worker`) | – | child processes | spawn, exchange, time out, kill | `ToolProcess` |
| Task changes (`workspace.rs`, `feature_api.rs`) | previews, approvals, Markdown files | – | preview, approve, apply | `TaskChanges` |
| Vault browser (`vault_api.rs`, `features/vault.ts`) | – | watcher, the page's list | list, watch, reload | `VaultWatch` |
| Work plans and handoff (`feature_api.rs`) | plans, packages, exports, results | – | plan, preview, approve, export, verify | `WorkHandoff` |
| Deliverables (`restork-deliverables`, `presentation_api.rs`) | artifacts, templates, exports | – | compose, draft, preview, export | `Deliverables` |
| Memory, Study, Radar, to-dos (`features.rs`, `feature_api.rs`, `todo_api.rs`) | rows | – | see the modules | `Memory`, `Study`, `Boards` |
| X co-creation (`x_cocreation_api.rs`, `x_cocreation.rs`, `agent_tools.rs`) | settings, drafts, evidence | the Grok CLI | save, compose, publish, search | `XCoCreation` |
| Daily context (`daily_api.rs`, `daily.rs`) | sources, snapshots, caches | – | connect, refresh, research, disable | `DailyContext` |
| Provider client (`restork-provider`) | – | sockets | encode, stream, parse | `ProviderStream`, `RunContext` |
| Desktop supervisor (`desktop/src-tauri`) | the Vault it is configured for | the Core child, phase | start, probe, restart, switch, quit | `DesktopCore` |
| Desktop updates (`src-tauri/src/update*`) | update state, ledger, artifacts | the download | check, download, schedule, install | `DesktopUpdates` |

How they interact:

* A handler and a task share a row only through the store and a registry. The registry admits one task
  per run or operation; the store detects a second writer by a version, or by the sequence a checkpoint
  covers. No lock is held across an await.
* A cancellation of a live task is a value in a watch channel that the task looks at in a few places. A
  cancellation without a live task is a write.
* An approval is asked for by the task, decided by a handler, and taken up by a *new* task the handler
  spawns after the decision is durable.
* Clients work from what they have read: a to-do, a draft, a document or a template is changed by naming
  the version or the time it had, and the answer may be lost.
* The Vault, a repository, a program or a site belongs to somebody else and changes at any time.
* A restart loses tasks, channels, handlers, slots and tokens. What runs next is decided by what is stored.

What is hard follows from that: each `await`, and each pair of accesses to the store or to a file, is a point
where a handler can slip in, where Core can stop, or where the second access can fail. The hazards, each
at its line, are listed in `PROJECT.json`.

What makes each component correct: a run has one owner, keeps its budgets and life cycle, and runs an
effect only as it was approved; a turn has one end, on which row and log agree, and its answer is there exactly if
it completed; a follower is told every event once; the last token of a pairing is the only one; what costs
money is called once; no occurrence is lost and no decision of the user overridden; what the user reviewed
is what is written, executed or exported; a restore is all or nothing; evidence is not overstated; lists
are whole; what is shown is of the source it names.

## 2. The plan

What was modelled, most important first; each step was checked before the next was begun.

1. The durable run and the life cycle it implements (`AgentRun`, `RunLifecycle`), with the proofs.
2. Conversation turns and their life cycle (`Conversation`, `OperationLifecycle`), with the proofs.
3. What follows and serves: `EventStream` against the ideal `EventFeed`, `PairingAuthority`,
   `ScheduleRuns`, `Subtasks`, `ToolCatalog`.
4. What writes files: `TaskChanges`, `WorkHandoff`, `FileRestore`.
5. The Desktop: `DesktopCore`, `DesktopUpdates`.
6. What the user keeps and what is fetched: `Memory`, `Study`, `Boards`, `XCoCreation`, `Sessions`, `Settings`, `Paging`, `DailyContext`, `ProviderStream`, `ToolProcess`,
   `VaultWatch`, `Deliverables`.
7. Limits, time and the file: `RunMachine`, `Calendar`, `StoreFile`, and the messages of a run,
   `RunContext`.

Proofs followed the same order: the run, the turns, then the groups of components that `MCServices`,
`MCEffects`, `MCProgress` and `MCLibrary` check. Left to the runs: liveness.

## 3. How the models are written

* **Grain.** One action is one storage call (or transaction), one access to a file, a process or a
  registry, or one section under a lock: the points where something else can come between. Code between
  two such points runs inside the action that precedes them. Handlers and tasks that take several steps
  carry a program point and what they have read.
* **Storage.** The connection is behind a mutex and every transaction is immediate, so storage calls are
  atomic and ordered. A compare-and-swap is a guard, with the branch its failure takes.
* **Stopping.** A stop of Core forgets tasks, channels and handlers and keeps tables and files; it may
  come at any state. A fault makes one call fail with no effect. Faults of a handler's storage calls are
  left out where a handler that fails between two calls leaves what a stop at that point leaves.
* **Data.** Texts, prompts, plans, digests and layouts are left out; a text stands for its hash, a call for
  its kind or its id, a content for what tells it from others.
* **Bounds.** Constants whose comment says "bound" limit the model only; the other `Max…`, `…Limit` and
  `…Ttl` constants are limits of the code, scaled down. The theorems hold for every value of all of them.
* **Groups.** `MCServices`, `MCProgress`, `MCEffects` and `MCLibrary` hold components that share nothing
  but the store's connection: the initial state picks one of them (`part`), and the others rest. A
  property of a group is the conjunction of the components' own, each defined in its module and guarded by
  the `part` it is about. Components that do interact are composed in one module: a run with its
  approvals, the Desktop with its Core and its Vaults, a schedule with its tick, a study with its run.
* **Symmetry** is used only by runs without liveness, on sets whose elements no constant tells apart.
* **Mutants.** Definitions introduced by "Mutant:" are deliberate mistakes in the definition that follows.
  Nothing uses them; put in that definition's place, each breaks the property `PROJECT.json` pairs it with.
* **Stopping for good.** A settled run, a closed page or a finished request has nothing left to do, so the
  configurations do not ask for the absence of deadlock; progress is stated as liveness instead.

## 4. The runs and their bounds

| Run | Instance | Shows |
|---|---|---|
| `agent_loop` | one request, one effect, two iterations, replies of two calls, one repair, one retry, one storage failure anywhere; fair | `BudgetsHold`, `TasksHandBack` |
| `agent_failures` | two requests, one preparation, one crash and one storage failure anywhere | `TypeOK`, `WaitingRunNamesItsCall`, `EffectsAreAuthorized`, `EffectsRepeatOnlyByFailure`, `OwnerIsCurrent`, `CheckpointUncontended`, `SpendingIsKept`, `LifecycleRefined` |
| `turns` | two keys, two requests at a time, one preview, symmetric | `PreviewsUsedOnce`, `AnswersAreOfCompleted` |
| `turn_failures` | one key, two requests, one crash, two storage failures; fair | `TypeOK`, `OneEnd`, `CancelledIsNeverCompleted`, `OutboundOnce`, `OpenOperationIsOwned`, `LifecycleRefined`, `TurnsEnd` |
| `progress` | a follower with two lost connections and a failing read; two schedules with a stop and a failure; the Desktop with one fault; fair | `FeedRefined`, `FollowersAreServed`, `DueIsServed`, `CoreIsWatched` |
| `services` | two tabs, two commands, four tokens; two schedules; three subtasks; one tool and one skill with five changes; the Desktop with two faults; a calendar of short days | `TokensAreCurrent`, `CalledOnce`, `ReviewedVersionRuns`, `CoreFollowsVault`, `SchedulesAreKept` |
| `effects` | two task changes; one handoff with stops or two at once; three files; reports and decks; three versions of the Desktop; the bounded machine; a run of three replies; three releases of Core | `ReviewedIsWritten`, `EvidenceIsSound`, `UpdatesAreSafe`, `RestoreIsAllOrNothing` |
| `library` | one to four rows and two requests of each component of sections 10 to 12 | `DecisionsAreKept`, `ListsAreWhole`, `AnswersAreOfTheirSource`, `SuccessorsAreWhole` |
| `agent_reused` | a provider that leaves ids to the parser; no crash, no failure | violates `EffectsRepeatOnlyByFailure` |
| `turn_stuck` | one key, one request, no failure; fair | violates `OperationsEnd` |
| `tool_swapped` | a run, a package and one update | violates `ApprovedVersionRuns` |
| `boundary_lowered` | a session and one change of its Profile | violates `ContextIsPermitted` |

The four groups also check the types of their components (`ServicesTypeOK` and so on).

Why the bounds are enough, where it is not plain. Races here are between two actors over one row, so two
requests, and two rows where the order of rows matters, show them; a third is added where a limit is shared
(subtasks: two slots of Core, two of a parent). One crash between two writes, and one more fault where an error
path has calls of its own, reach every partial state a single interruption leaves. A retry limit of two
tells the last attempt from the others. In `RunContext` seven calls make a reply wider than the six
messages compaction keeps, and three replies make a context that is cut twice. In `Calendar` a day of
four moments and a week of three days keep what a rule looks at: a time that is skipped, one that is
repeated, the day before and after. In `StoreFile` releases 1, 2 and 4 make a migration of one step and one of
several. In `EventStream` pages of one event make every read the end of a page. In `ProviderStream`
a frame is two bytes and a delimiter two or four, so that the body can be cut inside either.
`MaxSeq` stops new advances by a request, not the task under way nor the one a decision spawns: in both runs of
the agent a run is advanced, waits, is decided and resumed, and is advanced anew after an early failure.

## 5. The durable agent run


| `AgentRun` | Code |
|---|---|
| `run` | row of `runs`: state, version, stop reason |
| `seq` | `MAX(seq)` of the run's events. Their contents, and the streaming `assistant.delta`, context repair and compaction events that the loop also appends, are left out |
| `snapshot` | the row of `event_snapshots`: the sequence it covers and the `AgentCheckpoint` (iterations, repairs, retries of the current request, usage, pending call, whether its request has passed its expiry) |
| `approvals` | decision of each effect call |
| `task`, `cancel` | the entry of `run_cancellations`: locals of `DurableAgent::run`, and its watch channel |
| `handler` | what `decide_feature_approval`, the Study/Work preparation and `cancel_agent_run` still have to do |
| `executed` | how often an effect has reached its tool (history) |
| `replies`, `authorized`, `stranded` | history: replies the model has given; calls the user approved or an advance said were approved; calls whose wait for an approval a failure has cut off |

| Action | Code |
|---|---|
| `LoadRun`, `ClaimRunning` | the head of `DurableAgent::run` and `claim_running` |
| `ResumePending` | the pending call of the checkpoint, taken up after a claim whatever led to it |
| `AppendLifecycleEvent`, `SaveCheckpoint` | event and checkpoint around every start, question, bound and end |
| `TakeCall`, `InvokeTool`, `RefuseTool`, `RecordObservation`, `AwaitApproval` | the calls of a reply, `invoke_tool`, `record_tool_observation` |
| `EnterLoop`, `PreemptModel`, `RetryProvider`, `FailProvider`, `ReceiveReply`, `SettleRun` | the loop, `bound_reason`, the model call, `finish` |
| `MarkRuntimeFailure`, `ExitTask` | `mark_agent_runtime_failure` and the end of the spawned task |
| `Advance`, `DecideApproval`/`SpawnDecided`, `ReadForFreeze`/`FreezeContext`, `RequestCancel`/`LogCancelled`/`CancelProposedRun` | the handlers |
| `ApprovalLapses`, `CoreRestarts` | time, and a restart with the same Vault or another (which rejects what was approved or pending) |


Choices the code leaves to its environment are nondeterministic: what the model replies, whether a tool
succeeds, whether the wall clock has run out, whether a pending call is still known and unchanged when it
is resumed. The limits are frozen at creation; a retry raises only those on wall time and on output
tokens, and both are a free choice here. `MintsIds` says whether the provider gives every call a new id;
where it does not, the parser names a call after its place in its reply, and `Fresh` lets an id come back.
`Init` has the two kinds of run an advance can meet first: a proposed one, with or without its
`run.created` event, and one that an older Core called failed when its wall clock ran out, which
`claim_running` still treats as retryable.

* `OwnerIsCurrent`, `CheckpointUncontended`: nothing moves a run a task holds, and its compare-and-swap
  of a checkpoint never fails.
* `WaitingRunNamesItsCall`: a run that waits can be taken up from what is stored.
* `EffectsAreAuthorized`: whatever fails, is retried, denied or rejected by another Vault, an effect that
  reaches its tool was approved by the user at some time, or called approved by the client of an advance, which
  `advance_agent_run` takes as it is (`restork-api/lib.rs:2456`), or a failure fell between the checkpoint that
  names the call and the wait for its approval. The last does run a call nobody approved (section 15); the property
  says that nothing else does, and without a failure nothing at all. Clients of the instance send no
  approvals of their own; the proof is about clients that send any.
  `EffectsRepeatOnlyByFailure`: the effect happens before the checkpoint that no longer names it, so it
  may be repeated, but once for each crash or failure.
* `BudgetsHold`: iterations, repairs, retries and usage stay within their limits over all resumptions of a
  run. `SpendingIsKept`: a reply is counted in memory first and stored with the next checkpoint, so a stop
  or a failing call in between gives it back; not more than one reply for each, though, and whatever takes the
  run over afterwards, no stored counter goes back.
* `TasksHandBack`: every task leaves the registry, also when a storage call fails, and a run without one is
  not left running, unless the call that hands it back failed.

Fairness is weak, on the task's steps as a whole and on the rest of each handler: Tokio polls what can
go on, and every model and tool call is awaited under the run's wall clock. There is none on requests,
on the lapse of an approval, on crashes or on faults.

`RunContext` models the messages of that run: `build_messages` and the checkpoint's messages, the pending
calls of a reply, `record_tool_observation`, `repair_tool_context`, `compact_context` with its split, the
placeholder for reasoning that the checkpoint has not kept, and what each of the four protocols makes of a
call and of its result. `ResultsFollowTheirCalls` says that the next request is one its provider takes,
whatever was cut, repaired or lost: a result follows the reply that asked for it, once and in the order of
its calls, the system prompt is first and alone, and a provider that thinks finds the field it insists on.
`NewestReplyIsKept`: the newest reply is in it, with the results that were kept of it. Calls are compared by
id; sizes and estimates of tokens are left out, so a compaction may happen whenever one is looked for.

## 6. Conversation turns

An operation is named by its idempotency key, which the store makes unique over all operations. One
session is modelled: operations of different sessions share only the key and the hash of a preview.

| `Conversation` | Code |
|---|---|
| `session` | status of the row of `sessions` |
| `previews` | rows of `context_previews`: whether one exists and is past its fifteen minutes, and the operation that took it |
| `ops`, `log` | rows of `conversation_operations`; kinds of `operation_events` |
| `messages` | `session_messages` in order |
| `registry` | `operation_cancellations`: no channel, a live one, one that carries the cancellation |
| `task`, `client` | program points of `run_conversation_operation` and of the handlers |
| `outbound` | model requests sent for a key (history) |

| Action | Code |
|---|---|
| `RequestPreview`/`SavePreview` | `create_context_preview`: looks at the session, then inserts |
| `RequestTurn`/`CreateOperation`/`RegisterOperation` | `create_conversation_turn`: looks at session and preview; one transaction that looks again and stores message, operation, event and use of the preview, or replays; channel and task |
| `RequestCancel`/`RereadOperation`/`SignalTask`/`FinishUnregistered` | `cancel_conversation_operation` |
| `LookAtChannel`, `Start`, `BuildContext`, `CallModel`, `AwaitModel`, `Complete` | the body of the task, each early return included |
| `ReadBack` | `start_…` and `complete_…` read the row after their commit and fail if it is gone |
| `ReadCancel`, `FailRead`, `FailWrite`, `EndCancelled`, `RemoveRuntime` | the error paths, `fail_conversation_operation` with its two separate storage calls, `finish_cancelled`, `remove_operation_runtime` |
| `ArchiveSession`, `DeleteSession`, `PreviewExpires`, `CoreRestarts` | the rest; a deletion cascades to everything but the tasks |

A cancelling handler clones the sender of the channel and then sends. Sent after the task has left, it
is received by nobody, and the handler ends the operation itself; sent before, it is as if the signal had
come at that moment. Both are outcomes of `SignalTask`, so clone and send are one action.


* `OneEnd`: row and log agree on the one end of an operation, which nothing follows.
* `CancelledIsNeverCompleted`: an accepted cancellation is never followed by an answer.
* `OutboundOnce`: one model request at most goes out for an idempotency key.
* `OpenOperationIsOwned`: while storage works, an open operation has a task, or a handler about to
  spawn it.
* `PreviewsUsedOnce`, `AnswersAreOfCompleted`: a preview belongs to one operation, and the session holds
  the answers of exactly the completed ones, each once and after its question.
* `TurnsEnd`: a task leaves the registry, and an operation nobody cancels ends, while storage works.

Fairness is weak, on each task and on the rest of each handler. The task waits only for the provider, whose
client has a deadline; a handler has no await between its storage calls. An operation whose
`fail_conversation_operation` fails stays open until a restart, which is why the second half of
`TurnsEnd` assumes a working store.

## 7. Streams and tokens

**`EventFeed`, `EventStream`.** A writer appends events and ends the row: an operation in the transaction
of its last event, a run by event, checkpoint and row. `Serve` is the server's side of a stream (replay, then
polls of events and row, and the end of the body), `Listen` the page's (`reconnectable-stream.ts`: frames,
the cursor, reconnection with the last sequence it has seen, until a terminal event). Connections are
lost, reads fail, pages are cut. `FeedRefined` shows that all this implements `EventFeed`: a follower is
told each event once and in order, where a checkpoint may stand for what it covers. `FollowersAreServed`
adds that it is told all of them if connections are lost only so often, and that the follower of an
operation stops. Weak fairness is on `Serve`, `Listen` and on the writer's last two writes: the server
polls on a timer, the page reconnects on one, and the writer is the task of section 5.

**`PairingAuthority`.** Codes, tokens with their expiries and grace, the resume cookie the tabs share, and
the token file the commands share. A request and its answer may each be lost, and a rotation replaces the
token at once. `TokensAreCurrent` has three parts. `OneTokenPerPairing`: of all the tokens a pairing has led
to, one is alive at most. `RevokedIsFinal`: no rotation, resumption or answer under way brings a revoked
session back. `SessionIsKept`: while no message is lost, the live token is in the cookie or the file, or on
its way there, so no order of tabs and commands strands a session. Scopes are left out.

## 8. Schedules and subtasks

**`ScheduleRuns`.** Rows of `schedules` and `schedule_runs`; the tick of the scheduler (`due`, sort, claim,
work, complete or record, advance), the user's changes under a revision, runs by hand, restarts. A job that
calls a paid model claims its occurrence before the call; any other is recorded after it has run.
`CalledOnce` (here `PaidOnce`): a paid model is called once at most for an occurrence and for an
idempotency key, whatever is retried, raced or interrupted. `SchedulesAreKept` (`OccurrencesAreRecorded`,
`UserDecisionIsKept`): the scheduler leaves a due occurrence behind only with a row that tells what became
of it, or when the user has changed the schedule, and the end of a job undoes nothing the user did while
it ran. `DueIsServed`: under weak fairness of the scheduler, which wakes every 15 seconds, no claim left
behind by a stop, no failure and no other schedule keeps a due schedule from moving on.

**`Calendar`.** `next_occurrence` of `restork-automation` for each recurrence, on a clock that skips or
repeats a time. `EachDateIsDueOnce`: each date of the rule is due once, at its time or at the first moment
after a skipped one, and never twice where a time is repeated. A gap wider than the search, which the code
refuses with an error, and dates beyond its horizon of 370 days are outside the instance.

**`Subtasks`.** Rows with their states and the permits of the two limits. A request ends with its
client's connection, at any point, and its permit with it; a cancellation changes the row only.
`SubtaskIsCalledOnce`: a subtask gets one model call, one that was cancelled stays so, and the calls of all
of Core stay within its slots, those of cancelled subtasks included. A row whose handler was dropped
stays `running`.

## 9. Extensions and programs

**`ToolCatalog`.** Rows of packages and revisions, the quarantine of an update, rollback, the catalog that
is computed anew from what is enabled whenever someone asks, a session's review, approval and execution of
a call, and the skill and tools a run freezes. `ReviewedVersionRuns`: a session's call runs
the version whose resolved call was reviewed, and one that was enabled from a page that showed it; the
prompts of a run are made of one revision of its skill. `ToolCallStartsOnce`: one process at most is
started under a key, however often the call is sent. A tool
belongs to one package; the bundled skill is left out. `disable` between the last look at the catalog and the
start of the process goes unnoticed, and is not counted a violation.

**`ToolProcess`.** One call of an MCP server or of a capability worker: spawn, the exchange with its
bounds, deadline, errors, the dropped caller, and the kill. Programs answer, hang, crash, flood, talk
nonsense, or start processes of their own. `ProcessIsEnded`: however a call ends, the process it has
started is gone, and so are those this one has started when a server has answered or run into its deadline;
an answer was read within its bound, after the protocol's own steps. After a protocol error, an oversized
line or a dropped caller only the leader of the process group is killed, so that the property speaks of
the leader alone there.

## 10. Files that are written, read or opened

**`TaskChanges`.** Preview, approval, expiry, `consume_approval`, comparison and write of a task change,
with edits by others, stops and a switch of the Vault. `WritesAreApprovedOnce`: every write was
approved by the user, on the Vault it is made in, and an approval is good for one, whatever is requested
twice, interrupted or moved to another Vault.

**`WorkHandoff`.** A plan frozen on a snapshot of a repository, its package, approval, export through a
pending file, and the comparison with a result. `ExportIsWhole`: the file an executor is given was approved,
its approval is used up, and what a completed export points to is there, whole, except that two exports of
it at once and a stop may tear it. `EvidenceIsComplete`: a result is verified only when every file that
differs from the snapshot, the deleted ones included, is a target the manifest declares. The snapshot counts
as taken when its row is saved; one manifest is followed.

**`FileRestore`.** Preview, staging, renames, syncs and the way back. `RestoreIsAllOrNothing`: a restore that
answers has restored all of its files or none, but for those the user has edited meanwhile and those whose
way back a second failure, a failed sync of the directory (which returns without a way back) or a stop has
cut off.

**`Deliverables`.** Ledgers of facts with their verifications, reports, decks, drafts by a model,
templates, previews and exports. `NothingIsOverstated`: what a deliverable shows of an entry is
never stronger than the weakest source the entry cites, and never rests on what is stale or contradicted.
`ReviewedIsExportable`: what was previewed can still be exported, whatever became of templates and drafts;
a file handed out is one that was previewed, and the only one of its key.

**`StoreFile`.** `Database::open`: the version in the file and the ledger, the copies with their manifests,
each migration in its transaction, by releases of different ages. `MigratedIsBackedUp`: however often a
migration is broken off and begun again, and by whichever release, there is a whole copy of the store as a
Core last worked on it. `ServedIsKnown`: a Core works on a store of its own schema whose every migration it
knows. A ledger that has drifted is found only after the migrations were committed.

**`RunMachine`.** The phases and limits of `restork-core/run_loop.rs`, every method with its guards and
its clock. `ToolRunsAsAllowed`, `LimitsHold`, `TurnsAreAccounted`: see section 14. Only tests use the
machine so far.

## 11. The Desktop

**`DesktopCore`.** Phase, generation, candidate and Core in use, as the supervisor keeps them under one
mutex; start with its attempts, health probes, heartbeats, the loader page with Retry, the switch of the
Vault with its way back, and the end of the Desktop, which its Core notices by the parent lease.
`CoreFollowsVault` (`OneCore`, `ApprovalsAreOfVault`, `VaultIsSaved`): one Core of a Desktop runs at most,
an approval can be used only on the Vault it was made for, and the Core on display has the Vault the next
start would have, or none. `CoreIsWatched` (`StartIsAnswered`, `DeathIsNoticed`): under weak fairness of the
starting, monitoring and booting threads a start or switch comes to a Core or to the loader with its Retry,
and a Core that has ended does not stay on display as ready. Orphans of an earlier Desktop end by their own
lease and are not counted; a thread that has installed a Core shows its page within a heartbeat interval.
Two faults are checked for safety, one for liveness.

**`DesktopUpdates`.** Checks by page and in the background, dismissal, download, archive and ledger, the
decision to install at the next launch, and what survives one. `archive_verified_update` holds no lock, and
each of its accesses is a step of its own: the file is written, the ledger read, the ledger written, and what
it names no longer removed. Each may fail; a cancelled download that has no await left goes on with them beside
the next one. `UpdatesAreVerified`: whatever is cancelled, published or withdrawn in between, a version is
installed only if the user asked for its download and it was verified; and as long as no two downloads have
been in these steps at once (`overlapped`), the ledger names no file that is gone (`LedgerNamesFiles`), wherever
the steps fail or the Desktop ends between them. Two at once do break it (section 15). The updater library and the channel are external.

## 12. What the user keeps

| Module | What it models | Property |
|---|---|---|
| `Memory` | records, retention, suggestions, acceptance, correction and deletion from a page that may be old | `SummaryIsSavedOnce`: a run's summary becomes one row at most, within its day, and only if the user says so; `ProtectedIsKept`: what a client does on its page, and a purge, spare a protected row |
| `Study` | preparation with its run, diagnostic, path, attempts and their review | `StudyIsConsistent`: exercises are of the submission whose path is shown, what is due is counted from the attempts that were kept, questions are those the run was started with |
| `Boards` | Radar: refreshes of lanes, several at once; pruning; decisions | `DecisionsSurviveRefresh`: what the user has decided stays, except for posts not seen for the time they are kept |
| | to-dos: creation by key, edits under `updated_at`, deletion; the board of to-dos and Vault tasks | `NoEditIsLost`: a change falls on the row its client had in view, and a repeated creation replaces nothing; `BoardIsListedOnce`: the cursor runs from one list into the other |
| `XCoCreation` | settings and the two schedules made of them | `SavedSettingsAreScheduled`: what the page shows is never ahead of the schedules |
| | drafts composed of saved topics, edited and recorded as published | `EditsAreAChain`: no publication hides another from the voice profile |
| | the search: the CLI with its repetition, and the verification of candidates | `EvidenceIsReal`: an answer holds posts X itself publishes, each once, and is empty only if the CLI said so, complete |
| `Sessions` | messages, answers, branches, exports, archive, deletion | `BranchIsWhole`: a branch ends with the last message its source has when it appears; `ExportIsInOrder`: posts during an export neither repeat nor drop a message |
| `Settings` | personal settings, profiles, prompt revisions | `ProfileEditsAreSeen`: an edit is by one who has seen the last one, a revision names the one before it |
| `Paging` | six lists read page by page while rows change; a change takes its time first and writes the row later | `PagesAreWhole`: no row twice, but one written meanwhile with a time from before, and every row that did not change |
| `VaultWatch` | the list, the watcher and its batches, the page | `ListFollowsVault`: when everything has arrived, a page that loaded at a frame of its stream shows the Vault |

In the configurations `DecisionsAreKept`, `ListsAreWhole` and `SuccessorsAreWhole` are their conjunctions.
`NoEditIsLost` speaks of edits under a time that is compared; the clock of the model advances
between two of them, as that of the code does between two requests.

## 13. Answers

`DailyContext` models the weather of one place and a playlist whose song a model researches, each waiting
for a provider between read and write. `DailyIsOfItsSource`: the playlist on show is of the source named
with it, and what is said of a song is about that song and claims popularity only on two hosts the provider
cited. `ProviderStream` models the body in arbitrary pieces, frames of both kinds, tool calls in fragments,
and the collection of the answer: `AnswerIsOfReply`: however the network splits the reply, the answer holds
its text in order and without a gap, what was shown is what was collected, a tool call is whole or not
there, and a reply that was not cut is whole. `AnswersAreOfTheirSource` joins these with the properties of
`Study`, `XCoCreation` and `ToolProcess`.

## 14. Proofs

Everything here is proved for every value of the constants, from the assumptions the modules state on
them (`…Assumption`), which the runs evaluate.

**The durable run.** `AgentRunProofs` proves `TypeOK`, `OwnerIsCurrent`, `CheckpointUncontended`,
`WaitingRunNamesItsCall`, and that the run implements `RunLifecycle`. `OwnerIsCurrent` is not inductive: that a
handler cannot move a run a task holds depends on which versions handlers carry. `IndInv` adds, in named parts,

* `PointInv` – the state a task has loaded or claimed at each of its program points;
* `VersionInv` – the version a handler or a failing task has read is of a run nobody held (or left
  running by nobody), so either it is still that run or the version has moved past it;
* `CheckpointInv` – the sequence a task expects is the one stored, and the last it knows is in the log;
* `WaitInv` – a call named by a checkpoint, stored or about to be, has its approval on record, and a
  run that waits has a stored checkpoint that names one.

There is one lemma per action; the refinement maps each action to a step of the life cycle or to a
stutter under `IndInv`.

**What a run does and spends.** `AgentRunProofs` then adds `EffectsInv` to `IndInv` and proves

* `BudgetsHold`: `BudgetInv` bounds the stored checkpoint, the working one, and the calls of a reply that are
  left; a pending call has the repair it may need counted before it is run.
* `SpendingIsKept`: `SpentInv`, the working checkpoint is never behind the stored one; and `CountInv`, it is ahead
  by one reply at most, and by none once it is saved, so that a failure loses no more than that.
* `EffectsRepeatOnlyByFailure`, if ids are new (`MintsIds`): `RepeatInv` says of every call that may still be
  run how often it may have reached its tool, and that a reply names no call twice. `agent_reused` shows that
  the hypothesis is needed.
* `EffectsAreAuthorized`, with no hypothesis, by `AllowedInv`: the calls in the authorization of a task, and those
  a handler is about to spawn one with, were authorized by somebody. A call that a stored checkpoint names was too, or is
  `stranded`, or the run still waits for its approval, was denied it, or has the task one step before the wait.

**The turns.** `ConversationProofs` proves `TypeOK`, `CancelledIsNeverCompleted`, `OneEnd`, `OutboundOnce`,
`OpenOperationIsOwned`, `PreviewsUsedOnce` and `AnswersAreOfCompleted`, and that the turns implement
`OperationLifecycle`; for every set of keys, requests and contents and
every bound. The argument:

* `Moves` says what a step can do to the session's rows (open, ask for a cancellation, change the
  state, answer, restart, delete, or nothing); `StepMoves` proves that every step does one of these.
  Invariants over rows alone are shown once for `Moves` instead of once for each action.
* `RowsInv` ties the cancellation flag to the state, and gives `CancelledIsNeverCompleted`; `OneEnd` and
  `AnswersInv` follow over `Moves`.
* `OutboundInv` ties the number of model calls to the program point: nothing was sent before the task's
  call, a task is spawned once, by the request that stored the operation, and a key without an
  operation has neither task nor call, unless the session is deleted and admits no turn.
* `AskedInv` says that whoever is about to finish an operation as cancelled does so for one that was asked
  to be; without it the refinement's `CancelOp` has no justification.
* `OwnedInv` strengthens `OpenOperationIsOwned`: a task about to leave has ended its operation.
* `PreviewInv` says that the row of a preview exists and names the operation that took it, so no two
  operations can have taken it.

In the refinement `crashes` maps to `restarts`, so that a failure of an operation whose cancellation was
accepted is allowed to a restart and to nothing else.

**The stream.** `ProgressProofs` proves `FeedRefined` for any log, page size, writer, connections and failures:
the stream implements `EventFeed`. What makes it inductive is `WireInv`: the frames that are sent and not
received continue, one after the other, where the Dashboard's cursor stands, and end where the server's
cursor stands; an error frame is the last of them. `ToldInv` ties the cursor to the last thing told and says
that `EventCursor` has accepted nothing beyond it, so that what is received next is never taken for a
duplicate. `ChainExtends` is what a page or a checkpoint does to the wire, `ChainHead` what a reception
does. An event received maps to the feed's next event, a checkpoint to one that covers more than was told,
and everything else to the log's growth or to a stutter.

**Services.** `ServicesProofs` proves of the group `MCServices`

* `TokensAreCurrent`. A token that is alive follows from a code or from a token that is not (`LiveInv`), each
  answer under way carries the token its pairing has now (`AnswersInv`), codes and tokens keep to their
  audience (`CodesInv`, `AudienceInv`), ids are new (`IdsInv`). It is assumed that no tab is a command.
* `CalledOnce`. For subtasks: the permits that are free and those that are held make up `Slots`, and a subtask
  that can be claimed has not been called. For schedules: who is about to pay holds the claim of exactly that
  occurrence, and a row leaves "none" only once (`RecordsInv`, `TickInv`, `CallerInv`). For tools: the row of a key
  is there before its process is started, by the one client that wrote it (`ExecutionsInv`).
* `ReviewedVersionRuns`. A version is enabled only from a page that showed it (`PackagesInv`), and a handler that
  has checked its call works on the one its client reviewed (`ClientsInv`).
* `CoreFollowsVault`. One party at a time holds the Desktop's Core: a thread that starts or stops it, the window
  it was attached to, or nobody (`ThreadsInv`, `CoresInv`); approvals on hand are of the configured Vault.
* `SchedulesAreKept`. Whatever the scheduler has read of a schedule is as it is or older, by its revision, and when
  it advances one, that occurrence has its row (`CursorInv`). In `Calendar`, `FirstAt` gives the first moment at which
  the clock has come to a time, skipped, shown twice or neither (`FirstIsFirst`, `ResolvedIsFirst`); a
  later time on the wall, by a day, is reached later (`LaterIsLater`, `DatesAreInOrder`). So the dates that were due are
  those of the rule whose moment is behind the start, and the schedule was last due for the last of them (`DatesInv`).
* `ServicesTypeOK`, while fewer than `MaxCores` Cores were started (`DesktopBounds`); that the other bounds of the
  instance keep the Desktop below that number is for the run to show.

**Effects.** `EffectsProofs` proves of the group `MCEffects`, one invariant per component:

* `ReviewedIsWritten`: `TaskInv` (an approval's row is used by one request, what was written was approved on the
  Vault it is written to), `DeliverablesInv` (what is about to be exported was reviewed in the revision and the
  look it has), `WorkInv` (the file is of the package that is recorded), `MachineInv` (a call that is looked at or
  waits is one the manifest names, within its count).
* `UpdatesAreSafe`: `UpdateInv` (what a download carries and what the ledger records was asked for; and while no
  two downloads have filed at once, the one that does has its file in the archive and the ledger as it read or
  wrote it, `Filed`, with every other one outside these steps, `Alone`) and `StoreInv`
  (who is about to migrate what a Core has worked on has a whole copy of it, and nothing but migrations has
  changed the file since).
* `EvidenceIsSound`: for deliverables and Work reports by the invariants above, for the messages of a run by
  `ContextInv`. A context is `WellFormed` when each result answers a call before it, at the place of that call
  (`Answers`), the system prompt is first and alone, and behind the newest reply are only its results
  (`NewestAt`); the call that waits, and those that are still open, are the next calls of that reply (`Following`).
  A cut starts at a message that is no result and not behind the newest reply (`CutIsBeforeNewest`), a repair changes
  nothing of a well-formed context and takes the orphan from one that an older Core cut. From there each protocol's
  request says what it must (`SentIsSound`). The part on messages is stated of contexts of at most 256 messages,
  which is what `validate_chat_request` lets through; nothing in the loop keeps a context below that (section 15).
* `RestoreIsAllOrNothing`: `RestoreInv` counts how far a restore, or its way back, has come, and says of each file
  on either side of that point what is in it.

The properties of `RunMachine` and `StoreFile` are also proved of these modules by themselves.

**What the user keeps, lists and answers.** `LibraryProofs` proves of the group `MCLibrary`, for any rows, clients,
pages, replies and bounds, `DecisionsAreKept`, `SuccessorsAreWhole`, `ListsAreWhole` and `AnswersAreOfTheirSource`.
One invariant per component, and `LibraryInv` joins them:

* Decisions. A summary has its one row only once it was accepted and before it expired, and a row that was created
  protected is there, protected (`MemoryInv`). Radar's property is inductive with its types. The time of a version is the
  clock's, and no two versions of a to-do, nor a version and a row about to be written, have one time
  (`VersionsInv`, `RequestsInv`); so an edit falls on the row its author saw. What a save of the X settings has
  written and has still to write are all of them (`XAutomationInv`). Whatever tab records a publication starts from
  a draft that is there (`DraftsAreThere`).
* Successors. What is chosen for a branch is all of its source from some message to its last (`ForkerInv`). An editor at
  the version a document has now has seen its edit (`SeenInv`), and a request knows the parent of the
  revision it may append (`ParentsInv`).
* Lists. What an export has got ends where its next page begins (`ExporterInv`). No two to-dos have one time
  (`TimesInv`), so the board is one list (`BoardIsInOrder`), and a listing nobody disturbed has got its first lines, then
  those of the Vault (`ListingsInv`). A reader of one of the six lists has got what stands before its cursor, and what
  it has not got and has not changed is behind it; a change moves a row in front of any cursor or is `late` (`WalkInv`,
  `PagesAreInOrder`). What was seen of the Vault is announced in the watcher's queue, its batch or a frame
  under way, or the page is up to date or loading (`WatchInv`).
* Answers. Attempts have keys of their own and the review counts them, a path is of one submission, what it cites was
  found for it (`StudyInv`). What is kept of a song is about it (`DailyInv`). The candidates to verify are
  whole, each at an address of its own, and there is one unless the CLI has named none (`FoundInv`). Whoever reads the
  answer of a program has done the steps before it, within the bound (`ProcessInv`).
* The stream of a model (`StreamInv`). At any time some number of frames has been told: the collector has exactly
  what they say (`Told`); the buffer holds the bytes that follow them, and once the body is over the line feeds
  that make a frame of the rest (`Holds`); and what has not arrived follows these (`Continues`). The lemmas on
  frames say where `take_stream_frame` finds the end of the first one in any such buffer, for each delimiter: a
  whole frame is found before anything behind it (`WholeFrameIsFound`), part of one only when it is the last
  and all line feeds it takes are there (`LastFrameIsFound`), and then nothing is left over.

Lists that the code sorts or filters are written as functions from places to rows: a row stands behind those
that come before it. `Enumerates` says when that is a list of each row once, and `FirstOnes` what a page of
it holds; the order of SQL needs no sorting algorithm, and the proofs no induction.

**Assumptions.** All theorems rest on the modules' `ASSUME`s on their constants: naturals where the code has
counters and limits, limits of at least one where the code has a positive constant, finite sets of schedules,
subtasks, to-dos and listed rows (rows of a table), model values that differ from the elements of the sets they stand beside.
A streamed reply gives its reason once, after all it has to say, and its calls whole or in fragments (`IsReply`), as
the two protocols have it. In `Calendar` a zone's clock changes by no more than a skipped time is looked for
(180 minutes), which is less than a day, and a rule has its time within the day. None limits a number. The ones of
a theorem that go beyond it are in its statement, above.

**Model-checked only.** Liveness under fairness is out of the prover's reach: `TasksHandBack`, `TurnsEnd`,
`FollowersAreServed`, `DueIsServed`, `CoreIsWatched` and the others of that kind. So are that a request of
`RunContext` has at most 256 messages, which holds in the instance because its runs are short, and that the bounds of
the instance suffice (`MaxCores`).

The type invariants of the groups are proved as a whole for `MCServices` and `MCEffects` (`ServicesAreTyped`,
`EffectsAreTyped`), of `MCProgress` and `MCLibrary` component by component where a proof needed them.

## 15. Where code and documents disagree

Four disagreements are shown by a run that violates a property.

* `agent_reused`. A call without an id is named after its place in its reply, so two replies share ids, and a
  call can run on the approval of another (`durable_loop.rs:717`, `restork-provider/src/lib.rs:2363`).
  Across runs `save_approval` keeps a row that is decided, and the new run waits for a decision it cannot
  get, or replaces the request of a row that is pending.
* `turn_stuck`. `fail_conversation_operation` reads, then writes; a cancellation in between leaves the
  operation `cancel_requested` without a task.
* `tool_swapped`. A run that approved a tool may run the version installed since.
* `boundary_lowered`. A Profile is edited in place, so that a session with personal messages goes on to a
  provider that may be public.

Others follow from the models, or from reading beside them, and have no run of their own.

**Agent runs.**

* The checkpoint that names a pending call is stored before the run waits. If Core stops or a call fails in
  between, the run comes back retryable and the next task runs the call without an approval
  (`durable_loop.rs:755`), against "Require an explicit approval record for Vault writes and external actions"
  (`docs/security/threat-model.md:37`). It is the third case of `EffectsAreAuthorized`: TLC shows the trace
  when `stranded` is left out of the property in `agent_failures`.
* `advance_agent_run` takes the approved calls from its client and looks at no approval record
  (`lib.rs:2456-2459`); only `decide_feature_approval` ties an advance to a decision.
* A reply that was received and not yet stored is paid for and, after a stop, neither counted nor used.
* A decision made after the task's last write and before it leaves the registry is stored, its advance is
  refused, and no handler takes it up again (`restork-single-core-consolidation.md:428`).
* Calls that follow one needing an approval in the same reply are dropped
  (`restork-single-core-consolidation.md:412-415`); Ollama is not told to send one at a time.
* The loop compacts a context by its estimate of tokens alone, and no limit says how many calls a reply may
  hold, while `validate_chat_request` refuses more than 256 messages (`restork-provider/src/lib.rs:1548`): sixteen
  replies of many short calls reach a request that is refused.
* A cancellation during the calls of a reply does not stop the approval request; `run.cancelled` is
  appended before the write that may lose (`lib.rs:2508`).

**Sessions and turns.**

* A preview that was used or has expired keeps its row and unique hash, so the same selection cannot be
  previewed again while its files are unchanged; a turn repeated with a used preview is refused before it
  can be replayed.
* A message whose time was taken earlier and appended later leaves `updated_at` where it was, so that a
  fork with the old time carries a message nobody reviewed.
* A message does not bump the session's version, so a delete or archive made from an older page affects
  messages it did not show; an export of a session deleted between pages is returned as whole.

**Streams, schedules and subtasks.**

* The follower of a run is not ended by the run's end when its terminal event is covered by a checkpoint.
* The query of due schedules takes 32 before it sorts them, and X drafts are not sorted last, against
  "Local maintenance must run first" (`restorkd/src/lib.rs:244-248`); missed X Radar runs are not skipped.
* A subtask whose connection was dropped stays `running` (`restork-steps18-22.md:37-39`).

**Extensions.**

* A rollback leaves the revision it came from `enabled` (`restork-steps18-22.md` §5.3). After a protocol
  error only the leader of a process group is killed (`restork-steps18-22.md`, process bounds).

**Files.**

* Two approved changes of one note, applied at once, both pass the comparison and one is lost
  (`workspace.rs:438`, `restork-v1.md:375`).
* The content of a toggled task comes from one read of the note and its hash from a second
  (`feature_api.rs:863-870`).
* A crash between the preview of a handoff and its approval leaves a preview that nothing can approve
  (`docs/work.md:88-89`); an expired approval still exports (`restork-v1.md:772`).
* "A failed or incomplete comparison moves the run to user_action_required" (`docs/work.md`) is not in the
  code.
* A deck made from a report calls the facts of every entry verified.
* An edit of a note between the list and the opening of the stream is not shown
  (`restork-step28-vault-browser-and-live-index.md:12-13`), nor is one whose batch failed.

**Desktop.**

* A cancelled download and the next one may file their archives at once: one reads the ledger before the other
  writes it, and then removes a file which the ledger the other has written names (`updates.rs:231-256`). What
  Settings then list as a recovery copy is not there (`docs/desktop.md:146-147`). TLC shows it when `LedgerNamesFiles`
  is checked of `DesktopUpdates` with three versions, three downloads and one kept artifact; with two kept it
  takes one version and one download more.
* A check by the page, and a download, skip `accepts_update`, and archiving lowers `highest_seen`
  (`docs/desktop.md:144-146`). An update scheduled "now" waits for the next clean launch
  (`updates.rs:32-33`, `docs/desktop.md:155-156`); one older than the two kept artifacts ends ready with no
  archive.

**What the user keeps.**

* Memory and daily requests require an `Idempotency-Key` and do not look at it (`docs/memory.md`).
* A Study attempt that is retried pays for a second grade and ends in an error; `submit_study_path` does not
  read the note again (`docs/study.md:25`).
* Clearing personal settings starts their versions again, so that a write from before can pass
  (`workspace_contract.rs:15`); activating a prompt revision older than the newest hundred reports a
  failure after its commit.
* Two saves of the X settings interleaved mix their schedules; a scheduled search may run on an API key
  (`docs/specs/x-cocreation-agent.zh-CN.md:195,210`).
* A weather answer that arrives after the place was changed or disabled is cached, and a playlist that
  answers after Disable is stored and enables its source again (`docs/daily-context.md:22-23`).

## 16. What is not modelled

* The renderer, a pure function from a frozen deck to bytes; and the validation of immutable contracts.
* The readers of the Vault and of the web among the agent's tools; the retries, price lists, secrets and
  repair of structured text of the provider client; the calendar and mail connectors and the parsers of
  sites; the configuration of Core; native prompts; the views of the Dashboard but for its event client,
  its session handling and its Vault page.
* Authorization of requests by scope, sandboxing of programs, rate limits.
* Contents: prompts, texts, layouts, digests, sizes in bytes and estimates of tokens, except where a
  property is about them.
* Of modelled components: search and preview of notes (`VaultWatch`), the frame limit of 2 MB
  (`ProviderStream`), the legacy lane of starred repositories (`Boards`), the conversation that creates a
  run as it goes (`create_agent_conversation`), formats of exported decks (`Deliverables`). Environment
  actions that stand for what others do (edits, publications, replies) are marked external in the map.
* More than one restore at a time: `FileRestore` follows one, beside the user's edits.
* Two Cores on one store at once. `DesktopCore` shows that a Desktop has one; in `StoreFile` releases
  open the file in turn.
