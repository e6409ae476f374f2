------------------------------ MODULE Sessions ------------------------------
(***************************************************************************)
(* Conversations as they are kept: messages of a session, the branch made  *)
(* to go on under another profile, the export, the archive and the         *)
(* deletion.  The handlers that wait for a provider, that branch, and that *)
(* export take several steps in the store; the others take one.            *)
(***************************************************************************)
EXTENDS Naturals, Sequences, SequencesExt, FiniteSets

CONSTANTS
    SessionIds,         \* sessions there may be
    Profiles, SafeMode, \* profiles sessions are bound to; the one without a provider
    Posters,            \* requests that post a message
    CopyLimit,          \* most messages a branch copies
    ExportPageSize,     \* messages to a page of an export
    MaxMessages, MaxProfileChanges, MaxTimes

ASSUME SessionsAssumption ==
    /\ SafeMode \notin Profiles
    /\ {CopyLimit, ExportPageSize, MaxMessages} \subseteq Nat \ {0} /\ {MaxProfileChanges, MaxTimes} \subseteq Nat

VARIABLES
    ceiling,            \* the most private class each profile permits, with its revision
    sessions,           \* the rows: a profile, a status, a version, messages in order
    updatedAt,          \* updated_at of each session; 0 before there is one
    clock,              \* times drawn so far
    poster,             \* requests posting a message
    forker,             \* the request branching a session
    exporter            \* the request exporting a session

sessionVars == <<ceiling, sessions, updatedAt, clock, poster, forker, exporter>>

Classes == {"public", "personal"}
Permits(most, class) == class = "personal" => most = "personal"

Absent == [status |-> "absent"]
AtRest == [step |-> "idle"]
Active(s) == sessions[s].status = "active"

SessionsTypeOK ==
    /\ \A p \in Profiles : ceiling[p].most \in Classes /\ ceiling[p].revision \in 1 .. MaxProfileChanges + 1
    /\ \A s \in SessionIds : sessions[s] = Absent \/
          /\ sessions[s].status \in {"active", "archived"} /\ sessions[s].version \in 1 .. 3
          /\ sessions[s].profile \in Profiles \cup {SafeMode}
          /\ \A m \in Range(sessions[s].messages) : m.class \in Classes /\ m.role \in {"user", "assistant"}
    /\ \A c \in Posters : poster[c].step \in {"idle", "allowed", "saved", "asking", "answered"}
    /\ forker.step \in {"idle", "checked", "chosen"} /\ exporter.step \in {"idle", "paging", "done"}

SessionsInit ==
    /\ ceiling \in [Profiles -> [most : Classes, revision : {1}]]
    /\ sessions = [s \in SessionIds |-> Absent]
    /\ updatedAt = [s \in SessionIds |-> 0] /\ clock = 0
    /\ poster = [c \in Posters |-> AtRest] /\ forker = AtRest /\ exporter = AtRest

NewSession(profile, messages) ==
    [status |-> "active", version |-> 1, profile |-> profile, messages |-> messages]

\* An id is drawn at random: one that was deleted does not come back.
Unused(s) == sessions[s] = Absent /\ updatedAt[s] = 0

\* Every request that writes takes the time first, and no two the same.
TimeIsTaken == clock < MaxTimes /\ clock' = clock + 1

CreateSession(s, profile) ==
    /\ Unused(s) /\ TimeIsTaken
    /\ sessions' = [sessions EXCEPT ![s] = NewSession(profile, <<>>)]
    /\ updatedAt' = [updatedAt EXCEPT ![s] = clock']
    /\ UNCHANGED <<ceiling, poster, forker, exporter>>

\* put_configuration_profile: a profile is edited in place, under the sessions bound to it.
PutProfile(p, most) ==
    /\ ceiling[p].revision <= MaxProfileChanges
    /\ ceiling' = [ceiling EXCEPT ![p] = [most |-> most, revision |-> @.revision + 1]]
    /\ UNCHANGED <<sessions, updatedAt, clock, poster, forker, exporter>>

\* provider_for_session: nothing is asked of a provider in safe mode
ProviderPermits(profile, class) == profile # SafeMode => Permits(ceiling[profile].most, class)

(***************************************************************************)
(* Posting a message                                                       *)
(***************************************************************************)
BeginPost(c, s, class) ==
    /\ poster[c] = AtRest /\ Active(s) /\ ProviderPermits(sessions[s].profile, class) /\ TimeIsTaken
    /\ poster' = [poster EXCEPT ![c] = [step |-> "allowed", session |-> s, class |-> class,
           at |-> clock',
           most |-> IF sessions[s].profile = SafeMode THEN "personal" ELSE ceiling[sessions[s].profile].most]]
    /\ UNCHANGED <<ceiling, sessions, updatedAt, forker, exporter>>

\* append_session_message: only an active session grows
Appendable(s) == Active(s) /\ Len(sessions[s].messages) < MaxMessages

\* The time a message carries was taken before the store was reached: it may be
\* behind that of the session, which then does not move.
AppendMessage(c, role) ==
    LET s == poster[c].session
    IN  /\ sessions' = [sessions EXCEPT ![s].messages =
               Append(@, [role |-> role, class |-> poster[c].class, of |-> 0])]
        /\ updatedAt' = [updatedAt EXCEPT ![s] = IF @ > poster[c].at THEN @ ELSE poster[c].at]

SaveMessage(c) ==
    /\ poster[c].step = "allowed" /\ Appendable(poster[c].session)
    /\ AppendMessage(c, "user")
    /\ poster' = [poster EXCEPT ![c] =
           IF sessions[@.session].profile = SafeMode THEN AtRest ELSE [@ EXCEPT !.step = "saved"]]
    /\ UNCHANGED <<ceiling, clock, forker, exporter>>

\* conversation_chat_messages: the latest messages go to the provider, of whatever class
AskProvider(c) ==
    /\ poster[c].step = "saved"
    /\ poster' = [poster EXCEPT ![c] = [step |-> "asking", session |-> @.session, class |-> @.class, most |-> @.most,
           context |-> IF sessions[@.session] = Absent THEN {}
                       ELSE {m.class : m \in Range(sessions[@.session].messages)}]]
    /\ UNCHANGED <<ceiling, sessions, updatedAt, clock, forker, exporter>>

Answered(c) ==
    /\ poster[c].step = "asking" /\ TimeIsTaken
    /\ poster' = [poster EXCEPT ![c] = [step |-> "answered", session |-> @.session, class |-> @.class, at |-> clock']]
    /\ UNCHANGED <<ceiling, sessions, updatedAt, forker, exporter>>

SaveReply(c) ==
    /\ poster[c].step = "answered" /\ Appendable(poster[c].session)
    /\ AppendMessage(c, "assistant")
    /\ poster' = [poster EXCEPT ![c] = AtRest]
    /\ UNCHANGED <<ceiling, clock, forker, exporter>>

\* The session is archived or gone, the provider fails, or the answer cannot be kept.
PostEnds(c) ==
    /\ poster[c] # AtRest /\ poster' = [poster EXCEPT ![c] = AtRest]
    /\ UNCHANGED <<ceiling, sessions, updatedAt, clock, forker, exporter>>

(***************************************************************************)
(* Going on under another profile                                          *)
(***************************************************************************)
\* The client names the time of the source it has reviewed.
BeginFork(s, profile) ==
    /\ forker = AtRest /\ Active(s) /\ sessions[s].profile # profile
    /\ forker' = [step |-> "checked", source |-> s, profile |-> profile, stamp |-> updatedAt[s]]
    /\ UNCHANGED <<ceiling, sessions, updatedAt, clock, poster, exporter>>

\* The latest of n messages, as many of them as the size of a branch has room for.
Latest(n) == {k .. n : k \in (IF n > CopyLimit THEN n - CopyLimit + 1 ELSE 1) .. n + 1}

\* The latest messages are read, and each held against the profile.
ChooseMessages ==
    /\ forker.step = "checked" /\ sessions[forker.source] # Absent
    /\ LET messages == sessions[forker.source].messages
       IN \E chosen \in Latest(Len(messages)) :
           /\ \A k \in chosen : ProviderPermits(forker.profile, messages[k].class)
           /\ forker' = [step |-> "chosen", source |-> forker.source, profile |-> forker.profile,
                         stamp |-> forker.stamp,
                         chosen |-> chosen, last |-> Len(messages)]
    /\ UNCHANGED <<ceiling, sessions, updatedAt, clock, poster, exporter>>

\* A slip: the time of the source is taken for its state.
UnchangedByTime(s) == updatedAt[s] = forker.stamp

\* Database::fork_session: the source is as the client and the request read it
Unchanged(s) == updatedAt[s] = forker.stamp /\ Len(sessions[s].messages) = forker.last

Copied(s, k) == [sessions[s].messages[k] EXCEPT !.of = k]

CommitFork(t) ==
    /\ forker.step = "chosen" /\ Unused(t)
    /\ Active(forker.source) /\ Unchanged(forker.source)
    /\ LET first == forker.last - Cardinality(forker.chosen)
       IN  sessions' = [sessions EXCEPT ![t] = NewSession(forker.profile,
               [n \in 1 .. Cardinality(forker.chosen) |-> Copied(forker.source, first + n)])]
    /\ TimeIsTaken /\ updatedAt' = [updatedAt EXCEPT ![t] = clock']
    /\ forker' = AtRest
    /\ UNCHANGED <<ceiling, poster, exporter>>

\* The source changed, was archived or deleted, or holds what the profile does not permit.
ForkEnds ==
    /\ forker # AtRest /\ forker' = AtRest
    /\ UNCHANGED <<ceiling, sessions, updatedAt, clock, poster, exporter>>

(***************************************************************************)
(* Export, archive, deletion                                               *)
(***************************************************************************)
BeginExport(s) ==
    /\ exporter.step # "paging" /\ sessions[s] # Absent
    /\ exporter' = [step |-> "paging", session |-> s, profile |-> sessions[s].profile, got |-> <<>>, after |-> 0]
    /\ UNCHANGED <<ceiling, sessions, updatedAt, clock, poster, forker>>

\* session_messages_page: what is after a sequence, and whether there is more
Page(s, after) == IF sessions[s] = Absent THEN <<>>
                  ELSE LET messages == sessions[s].messages
                       IN  [n \in 1 .. IF Len(messages) < after + ExportPageSize THEN Len(messages) - after ELSE ExportPageSize
                              |-> after + n]
More(s, after) == sessions[s] # Absent /\ Len(sessions[s].messages) > after + ExportPageSize

NextAfter(s, after) == after + ExportPageSize

ExportPage ==
    /\ exporter.step = "paging"
    /\ LET s == exporter.session  after == exporter.after
       IN  exporter' = [exporter EXCEPT !.got = @ \o Page(s, after),
                          !.after = NextAfter(s, after),
                          !.step = IF More(s, after) THEN "paging" ELSE "done"]
    /\ UNCHANGED <<ceiling, sessions, updatedAt, clock, poster, forker>>

ArchiveSession(s) ==
    /\ sessions[s] # Absent /\ sessions[s].version < 3
    /\ TimeIsTaken
    /\ sessions' = [sessions EXCEPT ![s].status = "archived", ![s].version = @ + 1]
    /\ updatedAt' = [updatedAt EXCEPT ![s] = clock']
    /\ UNCHANGED <<ceiling, poster, forker, exporter>>

\* The version a deletion names counts archivals and not messages.
DeleteSession(s) ==
    /\ sessions[s] # Absent
    /\ sessions' = [sessions EXCEPT ![s] = Absent]
    /\ UNCHANGED <<ceiling, updatedAt, clock, poster, forker, exporter>>

StoreSteps == \E s \in SessionIds : \/ \E p \in Profiles \cup {SafeMode} : CreateSession(s, p)
                                  \/ ArchiveSession(s) \/ DeleteSession(s)
ProfileSteps == \E p \in Profiles, most \in Classes : PutProfile(p, most)
PostSteps == \E c \in Posters : \/ \E s \in SessionIds, class \in Classes : BeginPost(c, s, class)
                               \/ SaveMessage(c) \/ AskProvider(c) \/ Answered(c) \/ SaveReply(c) \/ PostEnds(c)
ForkSteps == \/ \E s \in SessionIds : \/ \E p \in Profiles \cup {SafeMode} : BeginFork(s, p)
                                       \/ CommitFork(s)
             \/ ChooseMessages \/ ForkEnds
ExportSteps == (\E s \in SessionIds : BeginExport(s)) \/ ExportPage

SessionsNext == StoreSteps \/ ProfileSteps \/ PostSteps \/ ForkSteps \/ ExportSteps

\* A branch leaves nothing out: what it copies ends with the last message of its
\* source as it is when the branch appears, and holds every message from its first
\* on, whatever was posted, archived or deleted while the request that makes it runs.
BranchIsWhole == [][\A t \in SessionIds :
    sessions'[t] # Absent /\ sessions[t] = Absent /\ sessions'[t].messages # <<>> =>
        LET copied == sessions'[t].messages
            last == Len(sessions[forker.source].messages)
        IN  \A n \in DOMAIN copied : copied[n].of = last - Len(copied) + n]_sessionVars

\* What is posted while an export goes from page to page neither makes it repeat
\* a message nor leave one out before its end.
ExportIsInOrder == exporter.step # "idle" => exporter.got = [n \in DOMAIN exporter.got |-> n]

\* A provider is asked only with messages that the profile of the session permits: a
\* profile that is edited does not change what goes on under it.
ContextIsPermitted == \A c \in Posters : poster[c].step = "asking" =>
    \A class \in poster[c].context : Permits(poster[c].most, class)

SessionsSpec == SessionsInit /\ [][SessionsNext]_sessionVars
=============================================================================
