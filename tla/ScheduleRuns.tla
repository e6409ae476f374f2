----------------------------- MODULE ScheduleRuns -----------------------------
(***************************************************************************)
(* Recurring jobs: the rows of the schedules, one row per occurrence, the  *)
(* scheduler of Core that serves what is due every 15 seconds, and the     *)
(* requests that run a schedule by hand or change it.                      *)
(*                                                                         *)
(* A job that calls a paid model claims its occurrence before the call and *)
(* completes the claim after it; any other job is recorded after it has    *)
(* run.  Every storage call is an action; between two of them Core may     *)
(* stop, a user may change the schedule, and time passes.                  *)
(***************************************************************************)
EXTENDS Integers, Sequences, FiniteSets, FiniteSetsExt, SequencesExt

CONSTANTS
    Schedules, Callers,     \* schedule ids; requests to run one by hand
    ManualKeys,             \* idempotency keys of those requests
    NoId,                   \* no schedule and no key
    Jobs,                   \* "local", "radar" and the paid "draft" and "xdraft"
    Recurrences,            \* each is the set of its occurrences, in time
    BatchLimit,             \* schedules a tick reads (32)
    MaxClock,               \* bound: time
    MaxChanges,             \* bound: changes by the user
    MaxStops,               \* bound: stops of Core
    MaxScheduleFaults       \* bound: storage calls of the scheduler that fail

Times == 1..MaxClock
ASSUME ScheduleAssumption ==
    /\ Jobs \subseteq {"local", "radar", "draft", "xdraft"} /\ "local" \in Jobs
    /\ Recurrences \subseteq SUBSET Times
    /\ NoId \notin Schedules \cup ManualKeys /\ IsFiniteSet(Schedules)
    /\ BatchLimit \in Nat \ {0}
    /\ {MaxClock, MaxChanges, MaxStops, MaxScheduleFaults} \subseteq Nat

\* Only a model draft gives way to other jobs in the order of a tick.
Paid == {"draft", "xdraft"}
Occurrences == Times \cup ManualKeys
Claimants == {<<"tick">>} \cup {<<"manual", c>> : c \in Callers}

VARIABLES
    now,            \* the time
    schedules,      \* rows of the schedules
    records,        \* rows of the occurrences: not there, claimed or completed
    tick,           \* the scheduler: what is left of its batch, and where it is
    caller,         \* requests that run a schedule by hand
    paidCalls,      \* history: model calls made for each occurrence
    changes, stops, scheduleFaults

rows == <<schedules, records>>
bounds == <<changes, stops, scheduleFaults>>
scheduleVars == <<now, schedules, records, tick, caller, paidCalls,
                  changes, stops, scheduleFaults>>

NoSchedule == [rule |-> {}, job |-> "local", state |-> "paused", next |-> 0,
               revision |-> 0, deleted |-> FALSE]
NoRecord == [state |-> "none", by |-> <<"tick">>]
IdleTick == [phase |-> "idle", at |-> 0, batch |-> <<>>, paid |-> FALSE]
IdleCaller == [phase |-> "idle", schedule |-> NoId, key |-> NoId, job |-> "local"]
Due == [id : Schedules, rule : Recurrences, job : Jobs, next : Times, revision : Nat]

ScheduleTypeOK ==
    /\ now \in 0..MaxClock
    /\ schedules \in [Schedules -> [rule : Recurrences \cup {{}}, job : Jobs,
                                    state : {"active", "paused"}, next : 0..MaxClock,
                                    revision : Nat, deleted : BOOLEAN]]
    /\ records \in [Schedules -> [Occurrences -> [state : {"none", "running", "completed"},
                                                  by : Claimants]]]
    /\ tick.phase \in {"idle", "pick", "claimed", "called", "ran", "advance"}
    /\ tick.batch \in Seq(Due)
    /\ tick.phase # "idle" => tick.batch # <<>>
    /\ \A c \in Callers : caller[c].phase \in {"idle", "loaded", "claimed", "called", "ran"}

Exists(s) == schedules[s].revision > 0 /\ ~schedules[s].deleted
\* next_after: the first occurrence strictly after the time, if there is one.
NextAfter(rule, time) ==
    LET later == {o \in rule : o > time} IN IF later = {} THEN 0 ELSE Min(later)

ScheduleInit ==
    /\ now = 0
    /\ schedules = [s \in Schedules |-> NoSchedule]
    /\ records = [s \in Schedules |-> [k \in Occurrences |-> NoRecord]]
    /\ tick = IdleTick
    /\ caller = [c \in Callers |-> IdleCaller]
    /\ paidCalls = [s \in Schedules |-> [k \in Occurrences |-> 0]]
    /\ changes = 0 /\ stops = 0 /\ scheduleFaults = 0

TimePasses ==
    /\ now < MaxClock
    /\ now' = now + 1
    /\ UNCHANGED <<rows, tick, caller, paidCalls, bounds>>

-----------------------------------------------------------------------------
(* What the user changes: a row is replaced if its revision is the one shown. *)

Change(s, row) ==
    /\ changes < MaxChanges
    /\ changes' = changes + 1
    /\ schedules' = [schedules EXCEPT ![s] = [row EXCEPT !.revision = @ + 1]]
    /\ UNCHANGED <<now, records, tick, caller, paidCalls, stops, scheduleFaults>>

CreateSchedule(s, rule, job) ==
    /\ schedules[s].revision = 0
    /\ Change(s, [NoSchedule EXCEPT !.rule = rule, !.job = job, !.state = "active",
                                    !.next = NextAfter(rule, now)])

UpdateSchedule(s, rule, job) ==
    /\ Exists(s)
    /\ Change(s, [schedules[s] EXCEPT !.rule = rule, !.job = job,
                    !.next = IF schedules[s].state = "active" THEN NextAfter(rule, now) ELSE 0])

PauseSchedule(s) ==
    /\ Exists(s)
    /\ Change(s, [schedules[s] EXCEPT !.state = "paused", !.next = 0])

ResumeSchedule(s) ==
    /\ Exists(s)
    /\ Change(s, [schedules[s] EXCEPT !.state = "active",
                                      !.next = NextAfter(schedules[s].rule, now)])

DeleteSchedule(s) ==
    /\ Exists(s)
    /\ Change(s, [schedules[s] EXCEPT !.next = 0, !.deleted = TRUE])

\* An active schedule with no occurrence left comes back paused.
RestoreSchedule(s) ==
    LET next == IF schedules[s].state = "active" THEN NextAfter(schedules[s].rule, now) ELSE 0
    IN  /\ schedules[s].deleted
        /\ Change(s, [schedules[s] EXCEPT !.next = next, !.deleted = FALSE,
                                          !.state = IF next = 0 THEN "paused" ELSE @])

-----------------------------------------------------------------------------
(* The rows of the occurrences *)

\* INSERT OR IGNORE leaves a row that exists.
Replayed(s, k) == records[s][k].state # "none"

\* claim_schedule_run
Claim(s, k, who) ==
    records' = [records EXCEPT ![s][k] = IF Replayed(s, k) THEN @
                                         ELSE [state |-> "running", by |-> who]]

Holds(s, k, who) == records[s][k] = [state |-> "running", by |-> who]

\* complete_schedule_run, of a claim that is still the caller's.
Complete(s, k) == records' = [records EXCEPT ![s][k].state = "completed"]

\* record_schedule_run
Record(s, k) ==
    records' = [records EXCEPT ![s][k] = IF Replayed(s, k) THEN @
                                         ELSE [state |-> "completed", by |-> <<"tick">>]]

CallModel(s, k) == paidCalls' = [paidCalls EXCEPT ![s][k] = @ + 1]

-----------------------------------------------------------------------------
(* The scheduler: run_due_schedules_once *)

Current == Head(tick.batch)
TickOnly == UNCHANGED <<now, caller, changes, stops>>

\* The batch goes on with its next schedule.
Rest(t) ==
    IF Len(t.batch) = 1 THEN IdleTick ELSE [t EXCEPT !.phase = "pick", !.batch = Tail(@)]

DueNow == {[id |-> s, rule |-> schedules[s].rule, job |-> schedules[s].job,
            next |-> schedules[s].next, revision |-> schedules[s].revision] :
               s \in {r \in Schedules : /\ Exists(r) /\ schedules[r].state = "active"
                                        /\ schedules[r].next \in 1..now}}

\* due_schedules reads the oldest, then model drafts are put last.
Batches ==
    LET due == DueNow
        oldest == {b \in SUBSET due : /\ Cardinality(b) = Min({BatchLimit, Cardinality(due)})
                                      /\ \A r \in b, q \in due \ b : r.next =< q.next}
        before(r, q) == IF (r.job = "draft") # (q.job = "draft")
                        THEN q.job = "draft" ELSE r.next < q.next
    IN  {q \in UNION {SetToSeqs(b) : b \in oldest} :
            \A i, j \in DOMAIN q : i < j => ~before(q[j], q[i])}

ReadDue ==
    /\ tick.phase = "idle" /\ DueNow # {}
    /\ \E batch \in Batches :
           tick' = [phase |-> "pick", at |-> now, batch |-> batch, paid |-> FALSE]
    /\ TickOnly
    /\ UNCHANGED <<rows, paidCalls, scheduleFaults>>

\* One paid job is started per tick; the others wait for the next.
PostponePaid ==
    /\ tick.phase = "pick" /\ Current.job \in Paid /\ tick.paid
    /\ tick' = Rest(tick)
    /\ TickOnly
    /\ UNCHANGED <<rows, paidCalls, scheduleFaults>>

\* Mutant: a schedule whose occurrence was claimed before is left as it is.
AfterReplayLeft(t) == Rest(t)

\* A replayed claim is not run again; the schedule moves on.
AfterReplay(t) == [t EXCEPT !.phase = "advance"]

\* The claim fails, and the tick ends, if the schedule was deleted meanwhile.
ClaimDue ==
    /\ tick.phase = "pick" /\ Current.job \in Paid /\ ~tick.paid
    /\ IF Exists(Current.id)
       THEN /\ Claim(Current.id, Current.next, <<"tick">>)
            /\ tick' = IF Replayed(Current.id, Current.next)
                       THEN AfterReplay([tick EXCEPT !.paid = TRUE])
                       ELSE [tick EXCEPT !.phase = "claimed", !.paid = TRUE]
       ELSE tick' = IdleTick /\ UNCHANGED records
    /\ TickOnly
    /\ UNCHANGED <<schedules, paidCalls, scheduleFaults>>

CallDueModel ==
    /\ tick.phase = "claimed"
    /\ CallModel(Current.id, Current.next)
    /\ tick' = [tick EXCEPT !.phase = "called"]
    /\ TickOnly
    /\ UNCHANGED <<rows, scheduleFaults>>

CompleteDue ==
    /\ tick.phase = "called"
    /\ IF Holds(Current.id, Current.next, <<"tick">>)
       THEN Complete(Current.id, Current.next) /\ tick' = [tick EXCEPT !.phase = "advance"]
       ELSE tick' = IdleTick /\ UNCHANGED records
    /\ TickOnly
    /\ UNCHANGED <<schedules, paidCalls, scheduleFaults>>

\* Any other job runs first, whether or not its occurrence has a row.
RunDue ==
    /\ tick.phase = "pick" /\ Current.job \notin Paid
    /\ tick' = [tick EXCEPT !.phase = "ran"]
    /\ TickOnly
    /\ UNCHANGED <<rows, paidCalls, scheduleFaults>>

RecordDue ==
    /\ tick.phase = "ran"
    /\ IF Exists(Current.id)
       THEN Record(Current.id, Current.next) /\ tick' = [tick EXCEPT !.phase = "advance"]
       ELSE tick' = IdleTick /\ UNCHANGED records
    /\ TickOnly
    /\ UNCHANGED <<schedules, paidCalls, scheduleFaults>>

\* Mutant: the cursor is moved whatever became of the schedule.
AdvancesBlind(row, due) == TRUE

\* The schedule is still the one the tick has read.
Advances(row, due) ==
    /\ ~row.deleted /\ row.state = "active"
    /\ row.revision = due.revision /\ row.next = due.next

Advanced(row, next) ==
    [row EXCEPT !.state = IF next = 0 THEN "paused" ELSE "active", !.next = next, !.revision = @ + 1]

\* advance_schedule: missed occurrences are passed over, the last one pauses.
AdvanceDue ==
    LET next == NextAfter(Current.rule, tick.at)
    IN  /\ tick.phase = "advance"
        /\ schedules' = [schedules EXCEPT ![Current.id] =
               IF Advances(@, Current) THEN Advanced(@, next) ELSE @]
        /\ tick' = Rest(tick)
        /\ TickOnly
        /\ UNCHANGED <<records, paidCalls, scheduleFaults>>

\* `?` ends the tick; its result is dropped.
FaultedTick(t) == IdleTick

SchedulerFault ==
    /\ scheduleFaults < MaxScheduleFaults
    /\ tick.phase \in {"pick", "called", "ran", "advance"}
    /\ scheduleFaults' = scheduleFaults + 1
    /\ tick' = FaultedTick(tick)
    /\ TickOnly
    /\ UNCHANGED <<rows, paidCalls>>

-----------------------------------------------------------------------------
(* Running a schedule by hand: run_schedule_now *)

CallerOnly == UNCHANGED <<now, schedules, tick, bounds>>
Moves(c, phase) == caller' = [caller EXCEPT ![c].phase = phase]
Answers(c) == caller' = [caller EXCEPT ![c] = IdleCaller]

RequestRun(c, s, k) ==
    /\ caller[c].phase = "idle" /\ Exists(s)
    /\ caller' = [caller EXCEPT ![c] = [phase |-> "loaded", schedule |-> s, key |-> k,
                                        job |-> schedules[s].job]]
    /\ CallerOnly
    /\ UNCHANGED <<records, paidCalls>>

\* A paid job claims the occurrence of its key; others look for its row.
BeginManual(c) ==
    LET s == caller[c].schedule
        k == caller[c].key
    IN  /\ caller[c].phase = "loaded"
        /\ IF caller[c].job \in Paid /\ Exists(s)
           THEN Claim(s, k, <<"manual", c>>) ELSE UNCHANGED records
        /\ IF Replayed(s, k) \/ (caller[c].job \in Paid /\ ~Exists(s))
           THEN Answers(c)
           ELSE Moves(c, IF caller[c].job \in Paid THEN "claimed" ELSE "ran")
        /\ CallerOnly
        /\ UNCHANGED paidCalls

CallManualModel(c) ==
    /\ caller[c].phase = "claimed"
    /\ CallModel(caller[c].schedule, caller[c].key)
    /\ Moves(c, "called")
    /\ CallerOnly
    /\ UNCHANGED records

FinishManual(c) ==
    LET s == caller[c].schedule
        k == caller[c].key
    IN  /\ \/ /\ caller[c].phase = "called"
              /\ IF Holds(s, k, <<"manual", c>>) THEN Complete(s, k) ELSE UNCHANGED records
           \/ /\ caller[c].phase = "ran"
              /\ IF Exists(s) THEN Record(s, k) ELSE UNCHANGED records
        /\ Answers(c)
        /\ CallerOnly
        /\ UNCHANGED paidCalls

\* The connection is closed while the handler awaits: it is dropped there.
AbandonManual(c) ==
    /\ caller[c].phase \in {"claimed", "called", "ran"} /\ caller[c].job # "local"
    /\ Answers(c)
    /\ CallerOnly
    /\ UNCHANGED <<records, paidCalls>>

-----------------------------------------------------------------------------
\* Core stops, and is started again at once or later.
CoreRestarts ==
    /\ stops < MaxStops
    /\ stops' = stops + 1
    /\ now' \in now..MaxClock
    /\ tick' = IdleTick
    /\ caller' = [c \in Callers |-> IdleCaller]
    /\ UNCHANGED <<rows, paidCalls, changes, scheduleFaults>>

Scheduler ==
    \/ ReadDue \/ PostponePaid \/ ClaimDue \/ CallDueModel \/ CompleteDue
    \/ RunDue \/ RecordDue \/ AdvanceDue \/ SchedulerFault

UserChanges ==
    \E s \in Schedules :
        \/ \E rule \in Recurrences, job \in Jobs :
               CreateSchedule(s, rule, job) \/ UpdateSchedule(s, rule, job)
        \/ PauseSchedule(s) \/ ResumeSchedule(s) \/ DeleteSchedule(s) \/ RestoreSchedule(s)

ManualRuns(callers) ==
    \E c \in callers :
        \/ \E s \in Schedules, k \in ManualKeys : RequestRun(c, s, k)
        \/ BeginManual(c) \/ CallManualModel(c) \/ FinishManual(c) \/ AbandonManual(c)

\* The scheduler and requests by hand have keys of their own, and meet only in
\* the rows of the schedules.
ScheduleSteps(scheduler, callers) ==
    \/ TimePasses \/ UserChanges \/ CoreRestarts
    \/ scheduler /\ Scheduler
    \/ ManualRuns(callers)

ScheduleNext == ScheduleSteps(TRUE, Callers)
ScheduleSpec == ScheduleInit /\ [][ScheduleNext]_scheduleVars

\* The interval of 15 seconds fires for ever, and a provider call has a deadline.
ScheduleFairSpec == ScheduleSpec /\ WF_scheduleVars(Scheduler)

-----------------------------------------------------------------------------
(* Properties *)

\* A paid model is called once at most for an occurrence and for an idempotency
\* key, whatever is retried, raced or interrupted (claim_schedule_run).
PaidOnce == \A s \in Schedules, k \in Occurrences : paidCalls[s][k] =< 1

\* The scheduler leaves a due occurrence behind only with a row that tells what
\* became of it, or one of the user's changes did (run_due_schedules_once).
OccurrencesAreRecorded ==
    [][\A s \in Schedules :
           tick' # tick /\ schedules[s].next # 0 /\ schedules'[s].next # schedules[s].next
               => records[s][schedules[s].next].state # "none"]_scheduleVars

\* What the user pauses, edits or deletes while a job runs is not undone by the
\* end of that job (advance_schedule).
UserDecisionIsKept ==
    [][\A s \in Schedules :
           tick' # tick /\ schedules'[s] # schedules[s]
               => /\ Exists(s) /\ schedules[s].state = "active"
                  /\ schedules'[s].next \in schedules[s].rule \cup {0}]_scheduleVars

\* A due occurrence is served: no claim left behind by a stop, no failure and no
\* other schedule keeps a schedule from moving on.
DueIsServed ==
    \A s \in Schedules, t \in Times :
        (Exists(s) /\ schedules[s].state = "active" /\ schedules[s].next = t /\ t =< now)
            ~> (~Exists(s) \/ schedules[s].state # "active" \/ schedules[s].next # t)
=============================================================================
