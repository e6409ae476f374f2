------------------------------- MODULE Memory -------------------------------
(***************************************************************************)
(* Episodic memory: the rows, what clients do with the pages they have     *)
(* read, and the run summaries that become rows only when the user says so.*)
(*                                                                         *)
(* A text stands for its hash.  A request that is repeated, because its    *)
(* answer was lost, is the same step again: nothing remembers the key.     *)
(***************************************************************************)
EXTENDS Naturals, FiniteSets

CONSTANTS
    MemoryIds,
    MemoryClients,
    SummaryRuns,        \* runs that may offer a summary
    Texts,              \* contents
    MemorySource,       \* a source that rows may come from
    SuggestionTtl,      \* 24 hours
    PageLimit,          \* 100 rows
    MaxMemoryTime,      \* bound: clock
    MaxMemoryChanges    \* bound: rows created and corrected by clients

ASSUME MemoryAssumption == {SuggestionTtl, PageLimit, MaxMemoryTime, MaxMemoryChanges} \subseteq Nat

VARIABLES
    memoryTime,
    memory,             \* memory_records, {} for a row that is not there
    suggestion,         \* memory_suggestions
    pageOf,             \* what each client has read last: ids and texts
    saved,              \* history: when rows were made of each run's summary, and of what
    guarded,            \* history: protected rows as they were created
    memoryChanges       \* bound

memoryVars == <<memoryTime, memory, suggestion, pageOf, saved, guarded, memoryChanges>>

Retentions == {"transient", "session", "protected"}     \* cache is transient, durable is session
Rows == [text : Texts, retention : Retentions, expires : 0 .. MaxMemoryTime, sources : SUBSET {MemorySource}]
NoSuggestion == [status |-> "none", text |-> {}, expires |-> 0, row |-> {}]

MemoryTypeOK ==
    /\ memoryTime \in 0 .. MaxMemoryTime
    /\ memory \in [MemoryIds -> {{}} \cup {{r} : r \in Rows}]
    /\ suggestion \in [SummaryRuns ->
           [status : {"none", "pending", "accepted", "dismissed", "expired"}, text : SUBSET Texts,
            expires : 0 .. MaxMemoryTime + SuggestionTtl, row : SUBSET MemoryIds]]
    /\ \A c \in MemoryClients : pageOf[c] \subseteq MemoryIds \X Texts
    /\ \A r \in SummaryRuns : saved[r] \subseteq (0 .. MaxMemoryTime) \X Texts \X MemoryIds
    /\ guarded \subseteq MemoryIds \X Rows

MemoryInit ==
    /\ memoryTime = 0 /\ memoryChanges = 0
    /\ memory = [i \in MemoryIds |-> {}]
    /\ suggestion = [r \in SummaryRuns |-> NoSuggestion]
    /\ pageOf = [c \in MemoryClients |-> {}]
    /\ saved = [r \in SummaryRuns |-> {}] /\ guarded = {}

MemoryTick ==
    /\ memoryTime < MaxMemoryTime /\ memoryTime' = memoryTime + 1
    /\ UNCHANGED <<memory, suggestion, pageOf, saved, guarded, memoryChanges>>

-----------------------------------------------------------------------------
(* Run summaries *)

Blank(r, status) == [suggestion[r] EXCEPT !.status = status, !.text = {}]

\* expire_memory_suggestions, which every operation on suggestions begins with
Expired(r) == suggestion[r].status = "pending" /\ suggestion[r].expires <= memoryTime
AfterExpiry == [r \in SummaryRuns |-> IF Expired(r) THEN Blank(r, "expired") ELSE suggestion[r]]

\* offer_from_outcome: the run has completed, and has an answer to take a summary from.
OfferSuggestion(r) ==
    /\ suggestion[r].status = "none"
    /\ \E t \in Texts :
           suggestion' = [suggestion EXCEPT ![r] =
               [status |-> "pending", text |-> {t}, expires |-> memoryTime + SuggestionTtl, row |-> {}]]
    /\ UNCHANGED <<memoryTime, memory, pageOf, saved, guarded, memoryChanges>>

\* pending_memory_suggestion, latest_pending_memory_suggestion
ReadSuggestions ==
    /\ suggestion' = AfterExpiry
    /\ UNCHANGED <<memoryTime, memory, pageOf, saved, guarded, memoryChanges>>

PendingNow(r) == suggestion[r].status = "pending" /\ ~Expired(r)

\* accept_memory_suggestion, a transaction: an accepted suggestion answers with its
\* row, and one that is not pending is refused; both undo the expiry with the rest.
AcceptSuggestion(r) ==
    /\ PendingNow(r)
    /\ \E i \in MemoryIds :
           /\ memory[i] = {} /\ \A s \in SummaryRuns : i \notin suggestion[s].row
           /\ \E t \in suggestion[r].text :
                  /\ memory' = [memory EXCEPT ![i] =
                         {[text |-> t, retention |-> "session", expires |-> 0, sources |-> {}]}]
                  /\ saved' = [saved EXCEPT ![r] = @ \cup {<<memoryTime, t, i>>}]
           /\ suggestion' = [AfterExpiry EXCEPT ![r] = [Blank(r, "accepted") EXCEPT !.row = {i}]]
    /\ UNCHANGED <<memoryTime, pageOf, guarded, memoryChanges>>

\* dismiss_memory_suggestion: the expiry stays if the suggestion is not pending.
DismissSuggestion(r) ==
    /\ suggestion' = IF PendingNow(r) THEN [AfterExpiry EXCEPT ![r] = Blank(r, "dismissed")] ELSE AfterExpiry
    /\ UNCHANGED <<memoryTime, memory, pageOf, saved, guarded, memoryChanges>>

-----------------------------------------------------------------------------
(* Rows *)

Change == memoryChanges < MaxMemoryChanges /\ memoryChanges' = memoryChanges + 1
Removable(i) == \E row \in memory[i] : row.retention # "protected"

\* create_memory: only what has a limited life has an end.
CreateMemory(i) ==
    /\ Change /\ memory[i] = {} /\ \A s \in SummaryRuns : i \notin suggestion[s].row
    /\ \E row \in Rows :
           /\ row.retention # "transient" => row.expires = 0
           /\ memory' = [memory EXCEPT ![i] = {row}]
           /\ guarded' = IF row.retention = "protected" THEN guarded \cup {<<i, row>>} ELSE guarded
    /\ UNCHANGED <<memoryTime, suggestion, pageOf, saved>>

Outlived(i) == \E row \in memory[i] : row.retention = "transient" /\ row.expires <= memoryTime

\* memory_records: what has outlived itself is deleted before a page is read.
\* Search, overview and export read theirs the same way.
ListMemory(c) ==
    LET left == [i \in MemoryIds |-> IF Outlived(i) THEN {} ELSE memory[i]]
        texts == {p \in MemoryIds \X Texts : \E row \in left[p[1]] : row.text = p[2]}
    IN  /\ memory' = left
        /\ \E page \in SUBSET texts :
               /\ Cardinality(page) = PageLimit \/ (page = texts /\ Cardinality(page) < PageLimit)
               /\ pageOf' = [pageOf EXCEPT ![c] = page]
        /\ UNCHANGED <<memoryTime, suggestion, saved, guarded, memoryChanges>>

\* The row a client has read, as the statements compare it: by its text.
AsRead(c, i) == Removable(i) /\ \E row \in memory[i] : <<i, row.text>> \in pageOf[c]

\* correct_memory
CorrectMemory(c, i) ==
    /\ Change /\ AsRead(c, i)
    /\ \E t \in Texts : memory' = [memory EXCEPT ![i] = {[row EXCEPT !.text = t] : row \in @}]
    /\ UNCHANGED <<memoryTime, suggestion, pageOf, saved, guarded>>

\* delete_memory
DeleteMemory(c, i) ==
    /\ AsRead(c, i)
    /\ memory' = [memory EXCEPT ![i] = {}]
    /\ UNCHANGED <<memoryTime, suggestion, pageOf, saved, guarded, memoryChanges>>

\* purge_memory_source
PurgeSource ==
    /\ memory' = [i \in MemoryIds |->
           IF Removable(i) THEN {row \in memory[i] : MemorySource \notin row.sources} ELSE memory[i]]
    /\ UNCHANGED <<memoryTime, suggestion, pageOf, saved, guarded, memoryChanges>>

MemoryNext ==
    \/ MemoryTick \/ ReadSuggestions \/ PurgeSource
    \/ \E r \in SummaryRuns : OfferSuggestion(r) \/ AcceptSuggestion(r) \/ DismissSuggestion(r)
    \/ \E i \in MemoryIds : CreateMemory(i)
    \/ \E c \in MemoryClients : ListMemory(c) \/ \E i \in MemoryIds : CorrectMemory(c, i) \/ DeleteMemory(c, i)

MemorySpec == MemoryInit /\ [][MemoryNext]_memoryVars

-----------------------------------------------------------------------------
(* Properties *)

\* The summary of a run becomes one row at most, within its 24 hours, and only if the
\* user says so; decided or expired, its text is nowhere but in that row.
SummaryIsSavedOnce ==
    \A r \in SummaryRuns :
        /\ Cardinality(saved[r]) <= 1 /\ (saved[r] # {} <=> suggestion[r].status = "accepted")
        /\ \A s \in saved[r] : s[1] < suggestion[r].expires /\ s[3] \in suggestion[r].row
        /\ suggestion[r].status # "pending" => suggestion[r].text = {}

\* What a client does on its page, and a purge, leave a protected row as it was.
ProtectedIsKept == \A g \in guarded : memory[g[1]] = {g[2]}
=============================================================================
