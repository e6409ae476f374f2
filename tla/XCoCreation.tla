----------------------------- MODULE XCoCreation ------------------------------
(***************************************************************************)
(* X co-creation: its settings and the schedules made of them, the drafts  *)
(* of posts, and the search whose evidence they rest on.  The three share  *)
(* no row: drafts are composed of what the Radar keeps of the search.      *)
(***************************************************************************)
EXTENDS Naturals, FiniteSets, Sequences, SequencesExt

-----------------------------------------------------------------------------
(***************************************************************************)
(* The settings of X co-creation and the two schedules made from them: the *)
(* daily search and the weekly drafts.  Saving writes the schedules, each  *)
(* under the revision just read, and the settings last, in three           *)
(* statements; schedules are also paused, resumed, deleted and restored on *)
(* their own page.  The mode in which Grok signs in is looked at when the  *)
(* settings are saved.                                                     *)
(***************************************************************************)

CONSTANTS
    SettingSavers,      \* requests to save the settings
    MaxRevisions,       \* bound: writes of each schedule
    MaxXRestarts,       \* bound: restarts of Core
    NoSaver

XSchedules == {"x-radar-daily", "x-drafts-weekly"}

ASSUME XAutomationAssumption == NoSaver \notin SettingSavers /\ {MaxRevisions, MaxXRestarts} \subseteq Nat

VARIABLES
    authMode,           \* XAI_API_KEY of this process, or the sign-in of the Grok CLI
    xSchedules,         \* rows of the two schedules, {} before the first save
    xSettings,          \* x-cocreation-config: the save it is of, and what it asks for
    saving,             \* what each save has still to write
    written,            \* history: schedules each save has written
    searchedOnKey,      \* history: a scheduled search ran in API key mode
    xRestarts           \* bound

xAutomationVars == <<authMode, xSchedules, xSettings, saving, written, searchedOnKey, xRestarts>>

Asleep == [step |-> "idle", on |-> FALSE, todo |-> {}, revision |-> {}]

XAutomationTypeOK ==
    /\ authMode \in {"oauth", "api_key"}
    /\ \A s \in XSchedules : \A row \in xSchedules[s] :
          row \in [active : BOOLEAN, revision : 1 .. MaxRevisions, deleted : BOOLEAN]
    /\ xSettings \in [by : SettingSavers \cup {NoSaver}, on : BOOLEAN]
    /\ saving \in [SettingSavers -> [step : {"idle", "read", "put", "config", "ended"}, on : BOOLEAN,
                                     todo : SUBSET XSchedules, revision : SUBSET (0 .. MaxRevisions)]]
    /\ written \in [SettingSavers -> SUBSET XSchedules]

XAutomationInit ==
    /\ authMode \in {"oauth", "api_key"}
    /\ xSchedules = [s \in XSchedules |-> {}] /\ xSettings = [by |-> NoSaver, on |-> FALSE]
    /\ saving = [r \in SettingSavers |-> Asleep] /\ written = [r \in SettingSavers |-> {}]
    /\ searchedOnKey = FALSE /\ xRestarts = 0

Saver(r, state) == saving' = [saving EXCEPT ![r] = state]
Ended == [Asleep EXCEPT !.step = "ended"]

\* put_x_cocreation_settings: automation is refused in API key mode.
BeginSave(r, on) ==
    /\ saving[r] = Asleep /\ ~(on /\ authMode = "api_key")
    /\ Saver(r, [step |-> "read", on |-> on, todo |-> XSchedules, revision |-> {}])
    /\ UNCHANGED <<authMode, xSchedules, xSettings, written, searchedOnKey, xRestarts>>

NextSchedule(r) == IF "x-radar-daily" \in saving[r].todo THEN "x-radar-daily" ELSE "x-drafts-weekly"

\* sync_x_schedules reads each schedule, one that is deleted too, for its revision.
ReadSchedule(r) ==
    /\ saving[r].step = "read"
    /\ Saver(r, [saving[r] EXCEPT !.step = "put", !.revision = {row.revision : row \in xSchedules[NextSchedule(r)]}])
    /\ UNCHANGED <<authMode, xSchedules, xSettings, written, searchedOnKey, xRestarts>>

\* put_schedule: no row expected and none there, or a row that is not deleted at its revision
Putable(s, revision) ==
    IF xSchedules[s] = {} THEN revision = {}
    ELSE \E row \in xSchedules[s] : ~row.deleted /\ revision = {row.revision}

Revision(s) == Cardinality({n \in 1 .. MaxRevisions : \E row \in xSchedules[s] : n <= row.revision})

\* The settings are written when no schedule is left to write.
AfterPut(r) == IF saving[r].todo = {NextSchedule(r)} THEN "config" ELSE "read"

PutSchedule(r) ==
    /\ saving[r].step = "put"
    /\ LET s == NextSchedule(r)
       IN IF Putable(s, saving[r].revision)
          THEN /\ Revision(s) < MaxRevisions
               /\ xSchedules' = [xSchedules EXCEPT ![s] =
                      {[active |-> saving[r].on, revision |-> Revision(s) + 1, deleted |-> FALSE]}]
               /\ written' = [written EXCEPT ![r] = @ \cup {s}]
               /\ Saver(r, [saving[r] EXCEPT !.step = AfterPut(r), !.todo = @ \ {s}, !.revision = {}])
          ELSE Saver(r, Ended) /\ UNCHANGED <<xSchedules, written>>
    /\ UNCHANGED <<authMode, xSettings, searchedOnKey, xRestarts>>

SaveSettings(r) ==
    /\ saving[r].step = "config"
    /\ xSettings' = [by |-> r, on |-> saving[r].on]
    /\ Saver(r, Ended)
    /\ UNCHANGED <<authMode, xSchedules, written, searchedOnKey, xRestarts>>

\* A statement fails.
SaveFails(r) ==
    /\ saving[r].step \in {"read", "put", "config"} /\ Saver(r, Ended)
    /\ UNCHANGED <<authMode, xSchedules, xSettings, written, searchedOnKey, xRestarts>>

\* The page of schedules: paused or resumed, deleted or restored
ChangeXSchedule(s) ==
    /\ Revision(s) < MaxRevisions
    /\ \E row \in xSchedules[s] :
           \/ ~row.deleted /\ \E active \in BOOLEAN :
                  xSchedules' = [xSchedules EXCEPT ![s] = {[row EXCEPT !.active = active, !.revision = @ + 1]}]
           \/ xSchedules' = [xSchedules EXCEPT ![s] = {[row EXCEPT !.deleted = ~@, !.revision = @ + 1]}]
    /\ UNCHANGED <<authMode, xSettings, saving, written, searchedOnKey, xRestarts>>

\* execute_scheduled_x_radar of a due schedule, whatever the mode is by then
RunScheduledSearch ==
    /\ \E row \in xSchedules["x-radar-daily"] : row.active /\ ~row.deleted
    /\ searchedOnKey' = (searchedOnKey \/ authMode = "api_key")
    /\ UNCHANGED <<authMode, xSchedules, xSettings, saving, written, xRestarts>>

\* Core starts again, with another environment it may be.
RestartWithKey ==
    /\ xRestarts < MaxXRestarts /\ xRestarts' = xRestarts + 1
    /\ authMode' \in {"oauth", "api_key"}
    /\ saving' = [r \in SettingSavers |-> IF saving[r].step = "idle" THEN Asleep ELSE Ended]
    /\ UNCHANGED <<xSchedules, xSettings, written, searchedOnKey>>

XAutomationNext ==
    \/ \E r \in SettingSavers :
           \/ \E on \in BOOLEAN : BeginSave(r, on)
           \/ ReadSchedule(r) \/ PutSchedule(r) \/ SaveSettings(r) \/ SaveFails(r)
    \/ \E s \in XSchedules : ChangeXSchedule(s)
    \/ RunScheduledSearch \/ RestartWithKey


-----------------------------------------------------------------------------
(* Properties of the settings *)

\* Settings that are kept are settings whose two schedules were both written by the same
\* save: what the page shows is never ahead of the schedules, wherever a save ends.
SavedSettingsAreScheduled == xSettings.by # NoSaver => written[xSettings.by] = XSchedules

-----------------------------------------------------------------------------
(***************************************************************************)
(* Drafts of X posts: composed by the model from the Radar items the user  *)
(* has saved as topics, and recorded as published by the user, who posts   *)
(* them by hand.                                                           *)
(*                                                                         *)
(* Topics are read before the model is asked and their sources copied into *)
(* the drafts, which are saved one after the other.  A publication names   *)
(* the updated_at of the draft its client has read.                        *)
(***************************************************************************)

CONSTANTS
    XTopics,            \* Radar items of the X lane
    Linked,             \* those whose address is a canonical status address
    Composers,          \* requests and jobs that compose
    Jobs,               \* those that are scheduled
    PublicRuns,         \* the public runs of the week
    Tabs,               \* clients that record publications
    MaxDrafts,          \* bound: drafts
    MaxXStamp           \* bound: times at which drafts are written

ASSUME XDraftsAssumption ==
    Linked \subseteq XTopics /\ Jobs \subseteq Composers /\ {MaxDrafts, MaxXStamp} \subseteq Nat

VARIABLES
    savedTopics,              \* topics: items whose state is "topic"
    drafts,             \* sequence of the rows of x_cocreation_drafts
    edits,              \* rows of x_cocreation_edits, in order
    composing,          \* what each composer is doing
    viewed,             \* updated_at of each draft each client has read, 0 for none
    recording,          \* publications under way, with the time their handler took
    xStamp              \* the clock, never read twice at one value

xDraftVars == <<savedTopics, drafts, edits, composing, viewed, recording, xStamp>>

NotComposing == [step |-> "idle", topics |-> {}, at |-> 0]
NoPublication == [draft |-> 0, base |-> 0, at |-> 0]

XDraftsTypeOK ==
    /\ savedTopics \subseteq XTopics /\ xStamp \in 0 .. MaxXStamp /\ Len(drafts) <= MaxDrafts
    /\ \A d \in Range(drafts) : d \in [source : Linked, published : BOOLEAN, final : 0 .. MaxXStamp, updated : 1 .. MaxXStamp]
    /\ \A e \in Range(edits) : e \in [draft : 1 .. Len(drafts), base : 1 .. MaxXStamp, at : 1 .. MaxXStamp]
    /\ composing \in [Composers -> [step : {"idle", "model", "saving"}, topics : SUBSET XTopics, at : 0 .. MaxXStamp]]
    /\ recording \in [Tabs -> [draft : 0 .. MaxDrafts, base : 0 .. MaxXStamp, at : 0 .. MaxXStamp]]

XDraftsInit ==
    /\ savedTopics \in SUBSET XTopics /\ drafts = <<>> /\ edits = <<>>
    /\ composing = [c \in Composers |-> NotComposing]
    /\ viewed = [t \in Tabs |-> [n \in 1 .. MaxDrafts |-> 0]]
    /\ recording = [t \in Tabs |-> NoPublication]
    /\ xStamp = 0

\* update_radar_state
SaveTopic(i) ==
    /\ savedTopics' \in {savedTopics \cup {i}, savedTopics \ {i}} \ {savedTopics}
    /\ UNCHANGED <<drafts, edits, composing, viewed, recording, xStamp>>

ReadTopics(c) ==
    /\ composing[c] = NotComposing /\ savedTopics # {}
    /\ composing' = [composing EXCEPT ![c] = [step |-> "model", topics |-> savedTopics, at |-> 0]]
    /\ UNCHANGED <<savedTopics, drafts, edits, viewed, recording, xStamp>>

\* Without a public run the user writes a summary of the week
ComposeOnRequest(c) == c \notin Jobs /\ ReadTopics(c)

\* and a job has nothing to go by
ComposeOnSchedule(c) == c \in Jobs /\ PublicRuns # {} /\ ReadTopics(c)

\* No answer within two minutes, or one validated_x_draft_artifacts refuses: a topic it
\* was not given, one used twice, an address in a body
ModelRefused(c) ==
    /\ composing[c].step = "model" /\ composing' = [composing EXCEPT ![c] = NotComposing]
    /\ UNCHANGED <<savedTopics, drafts, edits, viewed, recording, xStamp>>

ModelComposes(c) ==
    /\ composing[c].step = "model" /\ xStamp < MaxXStamp /\ xStamp' = xStamp + 1
    /\ \E used \in (SUBSET composing[c].topics) \ {{}} :
           composing' = [composing EXCEPT ![c] = [step |-> "saving", topics |-> used, at |-> xStamp']]
    /\ UNCHANGED <<savedTopics, drafts, edits, viewed, recording>>

\* The first reply of every variant holds a canonical status address
Savable(i) == i \in Linked

InsertDraft(i, at) ==
    /\ Len(drafts) < MaxDrafts
    /\ drafts' = Append(drafts, [source |-> i, published |-> FALSE, final |-> 0, updated |-> at])

\* A draft that is not savable ends the request, and those that follow it are not saved.
SaveDraft(c) ==
    /\ composing[c].step = "saving"
    /\ \E i \in composing[c].topics :
           \/ /\ Savable(i) /\ InsertDraft(i, composing[c].at)
              /\ composing' = [composing EXCEPT ![c] =
                     IF composing[c].topics = {i} THEN NotComposing
                     ELSE [composing[c] EXCEPT !.topics = @ \ {i}]]
           \/ ~Savable(i) /\ composing' = [composing EXCEPT ![c] = NotComposing] /\ UNCHANGED drafts
    /\ UNCHANGED <<savedTopics, edits, viewed, recording, xStamp>>

\* list_x_cocreation
ListDrafts(t) ==
    /\ viewed' = [viewed EXCEPT ![t] = [n \in 1 .. MaxDrafts |-> IF n <= Len(drafts) THEN drafts[n].updated ELSE 0]]
    /\ UNCHANGED <<savedTopics, drafts, edits, composing, recording, xStamp>>

\* record_x_cocreation_publication takes the time, and then writes.
BeginPublication(t, n) ==
    /\ recording[t] = NoPublication /\ viewed[t][n] # 0
    /\ xStamp < MaxXStamp /\ xStamp' = xStamp + 1
    /\ recording' = [recording EXCEPT ![t] = [draft |-> n, base |-> viewed[t][n], at |-> xStamp']]
    /\ UNCHANGED <<savedTopics, drafts, edits, composing, viewed>>

\* WHERE draft_id = ?1 AND updated_at = ?2, in the read and in the write
UnchangedSince(n, base) == drafts[n].updated = base

\* The draft and the row of the edit, in one transaction
RecordPublication(t) ==
    /\ recording[t] # NoPublication
    /\ LET n == recording[t].draft at == recording[t].at
       IN IF UnchangedSince(n, recording[t].base)
          THEN /\ drafts' = [drafts EXCEPT ![n].published = TRUE, ![n].final = at, ![n].updated = at]
               /\ edits' = Append(edits, [draft |-> n, base |-> recording[t].base, at |-> at])
               /\ viewed' = [viewed EXCEPT ![t][n] = at]
          ELSE UNCHANGED <<drafts, edits, viewed>>
    /\ recording' = [recording EXCEPT ![t] = NoPublication]
    /\ UNCHANGED <<savedTopics, composing, xStamp>>

XDraftsNext ==
    \/ \E i \in XTopics : SaveTopic(i)
    \/ \E c \in Composers : ComposeOnRequest(c) \/ ComposeOnSchedule(c) \/ ModelRefused(c) \/ ModelComposes(c) \/ SaveDraft(c)
    \/ \E t \in Tabs :
           \/ ListDrafts(t) \/ RecordPublication(t)
           \/ \E n \in 1 .. MaxDrafts : BeginPublication(t, n)

-----------------------------------------------------------------------------
(* Properties of the drafts *)

EditsOf(n) == {k \in DOMAIN edits : edits[k].draft = n}

\* The edits of a draft that come one after the other, and the last one
Follows(k, l, n) == k < l /\ \A m \in EditsOf(n) : m <= k \/ l <= m
IsLast(k, n) == \A m \in EditsOf(n) : m <= k

\* The recorded edits of a draft are a chain, each made on what the one before it left,
\* and the draft holds the last of them: no publication hides another from the voice
\* profile, though two clients record at once and later times may be written first.
EditsAreAChain ==
    \A n \in 1 .. Len(drafts) :
        /\ drafts[n].published <=> EditsOf(n) # {}
        /\ \A k, l \in EditsOf(n) : Follows(k, l, n) => edits[l].base = edits[k].at
        /\ \A k \in EditsOf(n) : IsLast(k, n) =>
               drafts[n].final = edits[k].at /\ drafts[n].updated = edits[k].at

-----------------------------------------------------------------------------
(***************************************************************************)
(* The search of X: the Grok CLI is run once, and once more when it ended  *)
(* before it was done; its answer is parsed into candidates, and each of   *)
(* them is confirmed, or not, by the public endpoint of X.  Callers are a  *)
(* run, which may cancel, and the Radar.                                   *)
(***************************************************************************)

CONSTANTS
    Candidates,         \* what the CLI may say it found, per name a record of
                        \*   url, post: the address, and the post it is of
                        \*   shapely: address, handle, identifier and time agree
                        \*   author:  the handle is that of the post's author
    Canonical,          \* address under which X publishes each post, for posts there are
    Payloads,           \* bodies of the answer: a phase, and names of candidates
    MaxFound            \* most items taken of one answer

ASSUME XSearchAssumption ==
    /\ \A name \in DOMAIN Candidates : {"url", "post", "shapely", "author"} \subseteq DOMAIN Candidates[name]
    /\ \A p \in Payloads : p.phase \in {"progress", "complete"} /\ p.items \in Seq(DOMAIN Candidates)
    /\ MaxFound \in Nat

VARIABLES
    search,             \* where the search is
    attempt,            \* runs of the CLI
    found,              \* candidates of the answer, in order, once parsed
    claimed,            \* how many items the complete answer had
    verified            \* those X has confirmed

searchVars == <<search, attempt, found, claimed, verified>>

XSearchTypeOK ==
    /\ search \in {"idle", "running", "verifying", "failed", "cancelled", "answered"}
    /\ attempt \in 0 .. 2 /\ claimed \in 0 .. MaxFound
    /\ found \in Seq(DOMAIN Candidates) /\ Len(found) <= MaxFound
    /\ verified \in Seq(DOMAIN Candidates) /\ Len(verified) <= MaxFound

XSearchInit == search = "idle" /\ attempt = 0 /\ found = <<>> /\ claimed = 0 /\ verified = <<>>

RunCli ==
    /\ search = "idle" /\ search' = "running" /\ attempt' = 1
    /\ UNCHANGED <<found, claimed, verified>>

\* The CLI cannot be started, times out, fails, or says too much.
CliFails ==
    /\ search = "running" /\ search' = "failed"
    /\ UNCHANGED <<attempt, found, claimed, verified>>

\* A cancellation is seen while the CLI runs, and not while X is asked.
CancelSearch ==
    /\ search = "running" /\ search' = "cancelled"
    /\ UNCHANGED <<attempt, found, claimed, verified>>

Bounded(payload) == Len(payload.items) <= MaxFound

\* parse_grok_x_search_sequence: the last body that is complete, of bodies all bounded
OfSequence(bodies) ==
    IF \A k \in DOMAIN bodies : Bounded(bodies[k])
    THEN {bodies[k] : k \in {n \in DOMAIN bodies : /\ bodies[n].phase = "complete"
                                                   /\ \A m \in DOMAIN bodies : m > n => bodies[m].phase # "complete"}}
    ELSE {}

\* What stands at some places of a list, in its order
Keep(items, places) ==
    [k \in 1 .. Cardinality(places) |->
        items[CHOOSE n \in places : Cardinality({m \in places : m < n}) + 1 = k]]

\* Candidates whose fields agree, the first at each address
Parsed(items) ==
    LET Agrees(n) == Candidates[items[n]].shapely
    IN Keep(items, {n \in DOMAIN items :
                       /\ Agrees(n)
                       /\ \A m \in 1 .. n - 1 : Agrees(m) => Candidates[items[m]].url # Candidates[items[n]].url})

\* A complete answer with items, none of which can be taken, is a failure.
TakeAnswer(payload) ==
    LET items == Parsed(payload.items)
    IN IF ~Bounded(payload) \/ (items = <<>> /\ payload.items # <<>>)
       THEN search' = "failed" /\ UNCHANGED <<attempt, found, claimed>>
       ELSE /\ search' = "verifying" /\ found' = items /\ claimed' = Len(payload.items)
            /\ UNCHANGED attempt

\* An answer by the schema; one that is not complete is asked for again, once.
CliAnswers ==
    /\ search = "running"
    /\ \E payload \in Payloads :
           IF payload.phase = "complete" THEN TakeAnswer(payload)
           ELSE /\ IF attempt < 2 THEN attempt' = attempt + 1 /\ UNCHANGED search ELSE search' = "failed" /\ UNCHANGED attempt
                /\ UNCHANGED <<found, claimed>>
    /\ UNCHANGED verified

\* The CLI could not keep to the schema, and wrote bodies one after another.
CliAnswersInText ==
    /\ search = "running"
    /\ \E first, second \in Payloads :
           LET bodies == OfSequence(<<first, second>>)
           IN IF bodies = {} THEN search' = "failed" /\ UNCHANGED <<attempt, found, claimed>>
              ELSE \E payload \in bodies : TakeAnswer(payload)
    /\ UNCHANGED verified

\* validate_grok_oembed_response: X publishes a post under one address, that of its author
Confirmed(name) ==
    LET item == Candidates[name]
    IN item.author /\ item.post \in DOMAIN Canonical /\ Canonical[item.post] = item.url

\* Every candidate is asked for, all at once; X may not answer for some of them.
Verify ==
    /\ search = "verifying"
    /\ \E silent \in SUBSET Range(found) :
           LET kept == Keep(found, {n \in DOMAIN found : found[n] \notin silent /\ Confirmed(found[n])})
           IN IF kept = <<>> /\ found # <<>>
              THEN search' = "failed" /\ UNCHANGED verified
              ELSE search' = "answered" /\ verified' = kept
    /\ UNCHANGED <<attempt, found, claimed>>

XSearchNext ==
    \/ RunCli \/ CliFails \/ CancelSearch \/ CliAnswers \/ CliAnswersInText \/ Verify

-----------------------------------------------------------------------------
(* Properties of the search *)

\* An answer holds posts that X itself publishes, each once, though the CLI names one post
\* under several addresses; and it is empty only if the CLI said, complete, that it found none.
EvidenceIsReal ==
    search = "answered" =>
        /\ \A name \in Range(verified) :
              LET item == Candidates[name]
              IN item.shapely /\ item.author /\ item.post \in DOMAIN Canonical /\ Canonical[item.post] = item.url
        /\ \A m, n \in DOMAIN verified :
              m # n => Candidates[verified[m]].post # Candidates[verified[n]].post
        /\ verified = <<>> => claimed = 0
=============================================================================
