-------------------------------- MODULE Boards --------------------------------
(***************************************************************************)
(* Two lists the user works through, each with what was decided about its  *)
(* items: the Radar, filled from public sources, and the task board.       *)
(***************************************************************************)
EXTENDS Integers, FiniteSets, Sequences, SequencesExt

-----------------------------------------------------------------------------
(***************************************************************************)
(* The Radar: public items by lane, refreshed from their sources when a    *)
(* page is asked for and the last refresh is too old, or by the scheduler  *)
(* (X only), and what the user has decided about each item.                *)
(*                                                                         *)
(* A refresh notes the time, asks every source, and then writes; several   *)
(* may run at once, and the rows they write carry the time they began at.  *)
(***************************************************************************)

CONSTANTS
    Items,
    LaneOf,             \* lane of each item
    Refreshers,         \* requests for a page, and the scheduler
    Scheduler,
    FeedTtl,            \* 30 minutes
    Retention,          \* 30 days: posts on X are kept so long after they were last seen
    MaxRadarTime,       \* bound: clock
    MaxRadarChanges,    \* bound: configurations and decisions
    MaxRadarFaults      \* bound: storage errors and stops of Core

Lanes == {"trending", "hn", "x"}

ASSUME RadarAssumption ==
    /\ LaneOf \in [Items -> Lanes] /\ Scheduler \in Refreshers
    /\ {FeedTtl, Retention, MaxRadarTime, MaxRadarChanges, MaxRadarFaults} \subseteq Nat

VARIABLES
    radarTime,
    sources,            \* radar-config: lanes that are enabled
    feedUntil,          \* radar-feed: when the feed expires
    radar,              \* radar_items: state and time of each, {} without a row
    refresh,            \* what each refresh is doing
    decision,           \* history: the last decision about each item that has not expired
    radarChanges, radarFaults   \* bounds

radarVars == <<radarTime, sources, feedUntil, radar, refresh, decision, radarChanges, radarFaults>>

RadarStates == {"new", "read_later", "dismissed", "researched", "topic"}
Resting == [step |-> "idle", at |-> 0, got |-> {}, answered |-> {}]

RadarTypeOK ==
    /\ radarTime \in 0 .. MaxRadarTime /\ sources \subseteq Lanes
    /\ feedUntil \in 0 .. MaxRadarTime + FeedTtl
    /\ radar \in [Items -> {{}} \cup {{r} : r \in [state : RadarStates, at : 0 .. MaxRadarTime]}]
    /\ refresh \in [Refreshers -> [step : {"idle", "fetching", "writing", "pruning"}, at : 0 .. MaxRadarTime,
                                   got : SUBSET Items, answered : SUBSET Lanes]]
    /\ decision \in [Items -> RadarStates]

RadarInit ==
    /\ radarTime = 0 /\ sources = {} /\ feedUntil = 0
    /\ radar = [i \in Items |-> {}] /\ refresh = [r \in Refreshers |-> Resting]
    /\ decision = [i \in Items |-> "new"]
    /\ radarChanges = 0 /\ radarFaults = 0

RadarTick ==
    /\ radarTime < MaxRadarTime /\ radarTime' = radarTime + 1
    /\ UNCHANGED <<sources, feedUntil, radar, refresh, decision, radarChanges, radarFaults>>

ChangeRadar == radarChanges < MaxRadarChanges /\ radarChanges' = radarChanges + 1

\* configure_radar clears the feed; a Radar that is on has a source.
ConfigureRadar ==
    /\ ChangeRadar /\ sources' \in SUBSET Lanes /\ feedUntil' = 0
    /\ UNCHANGED <<radarTime, radar, refresh, decision, radarFaults>>

\* radar_action, update_radar_state: whatever was decided before
DecideItem(i) ==
    /\ ChangeRadar /\ radar[i] # {}
    /\ \E s \in RadarStates \ {"new"} :
           /\ radar' = [radar EXCEPT ![i] = {[state |-> s, at |-> radarTime]}]
           /\ decision' = [decision EXCEPT ![i] = s]
    /\ UNCHANGED <<radarTime, sources, feedUntil, refresh, radarFaults>>

-----------------------------------------------------------------------------
(* A refresh *)

Becomes(r, state) == refresh' = [refresh EXCEPT ![r] = state]

\* list_radar finds the feed expired; execute_scheduled_x_radar does not look.
BeginRefresh(r) ==
    /\ refresh[r] = Resting
    /\ r # Scheduler => sources # {} /\ feedUntil <= radarTime
    /\ Becomes(r, [step |-> "fetching", at |-> radarTime, got |-> {},
                   answered |-> IF r = Scheduler THEN {"x"} ELSE sources])
    /\ UNCHANGED <<radarTime, sources, feedUntil, radar, decision, radarChanges, radarFaults>>

\* GitHub or Hacker News not answering ends the refresh; X not answering is passed
\* over when there is another lane.  A client may also leave while it waits.
FetchFails(r) ==
    /\ refresh[r].step = "fetching" /\ Becomes(r, Resting)
    /\ UNCHANGED <<radarTime, sources, feedUntil, radar, decision, radarChanges, radarFaults>>

Fetch(r) ==
    /\ refresh[r].step = "fetching"
    /\ \E answered \in {refresh[r].answered, refresh[r].answered \ {"x"}} \ {{}} :
           \E got \in SUBSET {i \in Items : LaneOf[i] \in answered} :
               Becomes(r, [refresh[r] EXCEPT !.step = "writing", !.got = got, !.answered = answered])
    /\ UNCHANGED <<radarTime, sources, feedUntil, radar, decision, radarChanges, radarFaults>>

\* upsert_radar leaves the state of a row that exists.
Upserted(i, at) ==
    IF radar[i] = {} THEN {[state |-> "new", at |-> at]} ELSE {[row EXCEPT !.at = at] : row \in radar[i]}

WriteItem(r) ==
    /\ refresh[r].step = "writing"
    /\ \/ \E i \in refresh[r].got :
              /\ radar' = [radar EXCEPT ![i] = Upserted(i, refresh[r].at)]
              /\ Becomes(r, [refresh[r] EXCEPT !.got = @ \ {i}])
       \/ refresh[r].got = {} /\ Becomes(r, [refresh[r] EXCEPT !.step = "pruning"]) /\ UNCHANGED radar
    /\ UNCHANGED <<radarTime, sources, feedUntil, decision, radarChanges, radarFaults>>

\* delete_stale_new_radar_lane
Stale(i, lane, at) == LaneOf[i] = lane /\ \E row \in radar[i] : row.state = "new" /\ row.at < at

PruneLane(r) ==
    /\ refresh[r].step = "pruning"
    /\ \E lane \in refresh[r].answered :
           /\ radar' = [i \in Items |-> IF Stale(i, lane, refresh[r].at) THEN {} ELSE radar[i]]
           /\ Becomes(r, [refresh[r] EXCEPT !.answered = @ \ {lane}])
    /\ UNCHANGED <<radarTime, sources, feedUntil, decision, radarChanges, radarFaults>>

\* The feed of a page is fresh from the time its refresh began.
EndRefresh(r) ==
    /\ r # Scheduler /\ refresh[r].step = "pruning" /\ refresh[r].answered = {}
    /\ feedUntil' = refresh[r].at + FeedTtl
    /\ Becomes(r, Resting)
    /\ UNCHANGED <<radarTime, sources, radar, decision, radarChanges, radarFaults>>

\* delete_expired_x_evidence: whatever was decided about it
PostExpired(i, at) == LaneOf[i] = "x" /\ \E row \in radar[i] : row.at + Retention < at

EndScheduled ==
    /\ refresh[Scheduler].step = "pruning" /\ refresh[Scheduler].answered = {}
    /\ LET gone == {i \in Items : PostExpired(i, refresh[Scheduler].at)}
       IN  /\ radar' = [i \in Items |-> IF i \in gone THEN {} ELSE radar[i]]
           /\ decision' = [i \in Items |-> IF i \in gone THEN "new" ELSE decision[i]]
    /\ Becomes(Scheduler, Resting)
    /\ UNCHANGED <<radarTime, sources, feedUntil, radarChanges, radarFaults>>

\* The scheduler goes on when the lane cannot be pruned.
PruneIsSkipped ==
    /\ refresh[Scheduler].step = "pruning" /\ refresh[Scheduler].answered # {}
    /\ radarFaults < MaxRadarFaults /\ radarFaults' = radarFaults + 1
    /\ Becomes(Scheduler, [refresh[Scheduler] EXCEPT !.answered = {}])
    /\ UNCHANGED <<radarTime, sources, feedUntil, radar, decision, radarChanges>>

\* A statement fails, or Core stops: what was written stays.
InterruptRefresh(r) ==
    /\ refresh[r].step \in {"writing", "pruning"}
    /\ radarFaults < MaxRadarFaults /\ radarFaults' = radarFaults + 1
    /\ Becomes(r, Resting)
    /\ UNCHANGED <<radarTime, sources, feedUntil, radar, decision, radarChanges>>

RadarNext ==
    \/ RadarTick \/ ConfigureRadar \/ EndScheduled \/ PruneIsSkipped
    \/ \E i \in Items : DecideItem(i)
    \/ \E r \in Refreshers :
           \/ BeginRefresh(r) \/ FetchFails(r) \/ Fetch(r) \/ WriteItem(r)
           \/ PruneLane(r) \/ EndRefresh(r) \/ InterruptRefresh(r)


-----------------------------------------------------------------------------
(* Properties of the Radar *)

\* What the user has decided about an item stays, row and all, whatever refreshes run
\* over it, at once or one after the other; a dismissed item is new again only
\* when it is a post that was not seen for the time such posts are kept.
DecisionsSurviveRefresh ==
    \A i \in Items : decision[i] # "new" => \E row \in radar[i] : row.state = decision[i]

-----------------------------------------------------------------------------
(***************************************************************************)
(* The task board: local to-dos in the database, followed by the tasks     *)
(* read from the notes of the Vault, listed in pages.                      *)
(*                                                                         *)
(* A to-do is changed by naming the updated_at its client has read.  The   *)
(* handler reads the row first and writes afterwards; its identifier is    *)
(* the digest of the key its creation was sent with, so that a creation    *)
(* sent again finds the row.                                               *)
(***************************************************************************)

CONSTANTS
    TodoKeys,           \* idempotency keys, one per to-do
    TodoClients,
    VaultTasks,         \* sequence of the tasks found in the Vault, in order
    PageSize,           \* limit of a page
    MaxStamp            \* bound: times read from the clock, each once

ASSUME TodosAssumption ==
    /\ PageSize \in Nat \ {0} /\ MaxStamp \in Nat
    /\ IsFiniteSet(TodoKeys) /\ VaultTasks \in Seq(Range(VaultTasks)) /\ Range(VaultTasks) \cap TodoKeys = {}

VARIABLES
    todos,              \* local_todos: {} without a row
    stamp,              \* the clock, never read twice at one value
    asking,             \* what each client's request is about to write
    known,              \* the row each client has last read, of each to-do
    listing,            \* the cursor each client is at, and what it was listed with no change meanwhile
    overwritten         \* history: an edit fell on a row its client had not read

todoVars == <<todos, stamp, asking, known, listing, overwritten>>

TodoRows == [done : BOOLEAN, origin : {"user", "model"}, updated : 0 .. MaxStamp, deleted : BOOLEAN]
NoRequest == [step |-> "idle"]
NotListing == [at |-> -1, count |-> -1, got |-> <<>>, quiet |-> FALSE]

TodosTypeOK ==
    /\ todos \in [TodoKeys -> {{}} \cup {{r} : r \in TodoRows}] /\ stamp \in 0 .. MaxStamp
    /\ known \in [TodoClients -> [TodoKeys -> {{}} \cup {{r} : r \in TodoRows}]]
    /\ \A c \in TodoClients :
          /\ asking[c].step \in {"idle", "create", "update"}
          /\ listing[c].at \in -1 .. Cardinality(TodoKeys) + Len(VaultTasks) + PageSize
    /\ overwritten \in BOOLEAN

TodosInit ==
    /\ todos = [k \in TodoKeys |-> {}] /\ stamp = 0
    /\ asking = [c \in TodoClients |-> NoRequest]
    /\ known = [c \in TodoClients |-> [k \in TodoKeys |-> {}]]
    /\ listing = [c \in TodoClients |-> NotListing]
    /\ overwritten = FALSE

Live(k) == {row \in todos[k] : ~row.deleted}
Now == stamp' = stamp + 1 /\ stamp < MaxStamp

\* A write of a to-do ends the quiet of every listing under way.
Write(k, row) ==
    /\ todos' = [todos EXCEPT ![k] = {row}]
    /\ listing' = [c \in TodoClients |-> [listing[c] EXCEPT !.quiet = FALSE, !.got = <<>>]]

Learn(c, k, row) == known' = [known EXCEPT ![c][k] = {row}]

Requests(c, request) == asking[c] = NoRequest /\ asking' = [asking EXCEPT ![c] = request]
Answers(c) == asking' = [asking EXCEPT ![c] = NoRequest]

-----------------------------------------------------------------------------
(* Changes *)

\* create_local_todo: a row that is not deleted is the answer to a creation sent again.
ReadForCreate(c, k, origin) ==
    IF Live(k) # {}
    THEN /\ asking[c] = NoRequest /\ \E row \in Live(k) : Learn(c, k, row)
         /\ UNCHANGED <<todos, stamp, asking, listing, overwritten>>
    ELSE /\ Now
         /\ Requests(c, [step |-> "create", todo |-> k,
                         row |-> [done |-> FALSE, origin |-> origin, updated |-> stamp', deleted |-> FALSE]])
         /\ UNCHANGED <<todos, known, listing, overwritten>>

\* The INSERT is refused by the primary key, of a deleted row too.
Insertable(k) == todos[k] = {}

InsertTodo(c) ==
    /\ asking[c].step = "create"
    /\ LET k == asking[c].todo row == asking[c].row
       IN IF Insertable(k)
          THEN /\ Write(k, row) /\ Learn(c, k, row)
               /\ overwritten' = (overwritten \/ todos[k] # {})
          ELSE UNCHANGED <<todos, known, listing, overwritten>>
    /\ Answers(c) /\ UNCHANGED stamp

\* update_local_todo reads the row for its origin, which stays.
ReadForUpdate(c, k, done) ==
    /\ known[c][k] # {} /\ Live(k) # {} /\ Now
    /\ \E row \in Live(k), base \in known[c][k] :
           Requests(c, [step |-> "update", todo |-> k, base |-> base,
                        row |-> [done |-> done, origin |-> row.origin, updated |-> stamp', deleted |-> FALSE]])
    /\ UNCHANGED <<todos, known, listing, overwritten>>

\* Mutant: a deleted row takes the update of its old version.
MatchesUnstamped(k, expected) == \E row \in todos[k] : row.updated >= expected

\* UPDATE ... WHERE updated_at = expected
Matches(k, expected) == \E row \in todos[k] : row.updated = expected

UpdateTodo(c) ==
    /\ asking[c].step = "update"
    /\ LET k == asking[c].todo row == asking[c].row base == asking[c].base
       IN IF Matches(k, base.updated) /\ Live(k) # {}
          THEN Write(k, row) /\ Learn(c, k, row) /\ overwritten' = (overwritten \/ todos[k] # {base})
          ELSE UNCHANGED <<todos, known, listing, overwritten>>
    /\ Answers(c) /\ UNCHANGED stamp

\* delete_local_todo and restore_local_todo: one statement, that stamps the row
DeleteOrRestore(c, k, delete) ==
    /\ asking[c] = NoRequest /\ Now
    /\ \E base \in known[c][k] :
           /\ Matches(k, base.updated) /\ \A row \in todos[k] : row.deleted # delete
           /\ \E row \in todos[k] :
                  LET changed == [row EXCEPT !.deleted = delete, !.updated = stamp']
                  IN Write(k, changed) /\ Learn(c, k, changed)
           /\ overwritten' = (overwritten \/ todos[k] # {base})
    /\ UNCHANGED asking

-----------------------------------------------------------------------------
(* Lists *)

\* Open before completed, the last changed first
Before(a, b) ==
    \E r \in todos[a], s \in todos[b] :
        \/ ~r.done /\ s.done
        \/ r.done = s.done /\ r.updated > s.updated

OnBoard == {k \in TodoKeys : Live(k) # {}}

\* Each stands behind those that come before it.
PlaceOnBoard(k) == Cardinality({j \in OnBoard : Before(j, k)}) + 1
Board == [n \in 1 .. Cardinality(OnBoard) |-> CHOOSE k \in OnBoard : PlaceOnBoard(k) = n]

\* list_tasks: the to-dos are counted in one statement, and read in the next.
CountTodos(c) ==
    /\ asking[c] = NoRequest /\ listing[c].count = -1
    /\ listing' = [listing EXCEPT ![c] = IF @.at = -1
                                         THEN [at |-> 0, count |-> Len(Board), got |-> <<>>, quiet |-> TRUE]
                                         ELSE [@ EXCEPT !.count = Len(Board)]]
    /\ UNCHANGED <<todos, stamp, asking, known, overwritten>>

Slice(s, from, n) == SubSeq(s, from + 1, IF from + n < Len(s) THEN from + n ELSE Len(s))

\* offset.saturating_sub(local_count)
VaultOffset(at, count) == IF at > count THEN at - count ELSE 0

ReadPage(c) ==
    /\ listing[c].count >= 0
    /\ LET at == listing[c].at
           count == listing[c].count
           local == IF at < count THEN Slice(Board, at, PageSize) ELSE <<>>
           page == local \o Slice(VaultTasks, VaultOffset(at, count), PageSize - Len(local))
           more == count + Len(VaultTasks) > at + Len(page)
       IN /\ listing' = [listing EXCEPT ![c].got = IF listing[c].quiet THEN @ \o page ELSE <<>>,
                                        ![c].at = IF more THEN at + PageSize ELSE -1,
                                        ![c].count = -1]
          /\ known' = [known EXCEPT ![c] = [k \in TodoKeys |-> IF k \in Range(page) THEN todos[k] ELSE @[k]]]
    /\ UNCHANGED <<todos, stamp, asking, overwritten>>

\* list_deleted_local_todos, from where a deleted to-do is restored
ReadDeleted(c) ==
    /\ asking[c] = NoRequest
    /\ known' = [known EXCEPT ![c] = [k \in TodoKeys |-> IF todos[k] # {} /\ Live(k) = {} THEN todos[k] ELSE @[k]]]
    /\ UNCHANGED <<todos, stamp, asking, listing, overwritten>>

TodosNext ==
    \E c \in TodoClients :
        \/ InsertTodo(c) \/ UpdateTodo(c) \/ CountTodos(c) \/ ReadPage(c) \/ ReadDeleted(c)
        \/ \E k \in TodoKeys :
               \/ \E origin \in {"user", "model"} : ReadForCreate(c, k, origin)
               \/ \E done \in BOOLEAN : ReadForUpdate(c, k, done) \/ DeleteOrRestore(c, k, done)

-----------------------------------------------------------------------------
(* Properties of the task board *)

\* Every change falls on the row its client had in view, field for field, though it was
\* read in an earlier request; and no creation sent again replaces or brings back a row.
NoEditIsLost == ~overwritten

\* Pages read one after another while nothing changes show every to-do and every task of
\* the Vault, each once: the cursor runs on from the first list into the second.
BoardIsListedOnce ==
    \A c \in TodoClients :
        listing[c].at = -1 /\ listing[c].quiet =>
            /\ Len(listing[c].got) = Cardinality(OnBoard) + Len(VaultTasks)
            /\ Range(listing[c].got) = OnBoard \cup Range(VaultTasks)
=============================================================================
