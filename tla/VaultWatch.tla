----------------------------- MODULE VaultWatch -----------------------------
(***************************************************************************)
(* The Knowledge page and the Vault it shows.  The page loads the list of  *)
(* notes, then follows /v1/vault/events: Core watches the directory,       *)
(* collects what changes for a moment and sends one frame, and the page    *)
(* loads the list again.  Obsidian and others edit the Vault meanwhile.    *)
(***************************************************************************)
EXTENDS Naturals, Sequences, SequencesExt

CONSTANTS
    Notes,              \* paths of notes, no part of which begins with a dot
    LoadIds,            \* requests of the page for the list
    MaxVaultEdits, MaxWatchFaults

\* "aside" stands for a path that is none of them.
ASSUME VaultWatchAssumption ==
    /\ "aside" \notin Notes /\ {MaxVaultEdits, MaxWatchFaults} \subseteq Nat

VARIABLES
    notes,              \* the edit that made each note as it is; 0 when there is none
    vaultEdits,         \* edits so far
    watch,              \* the stream in Core: its step, what the watcher has queued and it has collected
    frames,             \* what was sent and has not arrived
    page,               \* where the page is: closed, opening through a load, or open
    loads,              \* requests for the list
    shownNotes,         \* the notes the page lists
    followed,           \* a frame of this stream made the page load, with no other load under way
    watchFaults         \* connections lost, errors of the watcher, loads that fail

watchVars == <<notes, vaultEdits, watch, frames, page, loads, shownNotes, followed, watchFaults>>

NoStream == [step |-> "off", queue |-> <<>>, batch |-> <<>>]
Idle == [step |-> "idle"]
FreeLoads == {i \in LoadIds : loads[i] = Idle}

WatchTypeOK ==
    /\ notes \in [Notes -> 0 .. vaultEdits] /\ shownNotes \in [Notes -> 0 .. vaultEdits] /\ vaultEdits <= MaxVaultEdits
    /\ watch.step \in {"off", "counted", "watching", "waiting", "collecting"}
    /\ watch.step # "collecting" => watch.batch = <<>>
    /\ frames \in Seq({"ready", "changed", "unavailable"})
    /\ page \in {"closed", "open"} \cup LoadIds /\ (page \in LoadIds => watch = NoStream)
    /\ \A i \in LoadIds : loads[i].step \in {"idle", "asked", "answered"}
    /\ followed \in BOOLEAN /\ watchFaults <= MaxWatchFaults

WatchInit ==
    /\ notes \in [Notes -> {0, 1}] /\ vaultEdits = 1 /\ shownNotes = [n \in Notes |-> 0]
    /\ watch = NoStream /\ frames = <<>>
    /\ page = "closed" /\ loads = [i \in LoadIds |-> Idle]
    /\ followed = FALSE /\ watchFaults = 0

(***************************************************************************)
(* Edits, and what the watcher of each platform says of them.  "aside" is  *)
(* a path that is hidden or no note, as that of a temporary file.          *)
(***************************************************************************)
Event(kind, paths) == [kind |-> kind, paths |-> paths]

Moved(from, to) ==
    {<<Event("from", <<from>>), Event("to", <<to>>), Event("both", <<from, to>>)>>,
     <<Event("from", <<from>>), Event("to", <<to>>)>>,
     <<Event("modify", <<from>>), Event("modify", <<to>>)>>}

IsWatching == watch.step \notin {"off", "counted"}

Edited(after, reports) ==
    /\ vaultEdits < MaxVaultEdits /\ vaultEdits' = vaultEdits + 1 /\ notes' = after
    /\ \E events \in reports :
          watch' = IF IsWatching THEN [watch EXCEPT !.queue = @ \o events] ELSE watch
    /\ UNCHANGED <<frames, page, loads, shownNotes, followed, watchFaults>>

SaveNote(n) ==
    Edited([notes EXCEPT ![n] = vaultEdits + 1],
           {<<Event(IF notes[n] = 0 THEN "create" ELSE "modify", <<n>>)>>} \cup Moved("aside", n))

RemoveNote(n) ==
    /\ notes[n] # 0
    /\ Edited([notes EXCEPT ![n] = 0], {<<Event("remove", <<n>>)>>} \cup Moved(n, "aside"))

RenameNote(n, m) ==
    /\ n # m /\ notes[n] # 0
    /\ Edited([notes EXCEPT ![n] = 0, ![m] = notes[n]], Moved(n, m))

\* A directory is renamed: nothing is said of the notes in it.
RenameFolder(n, m) ==
    /\ n # m /\ notes[n] # 0
    /\ Edited([notes EXCEPT ![n] = 0, ![m] = notes[n]], Moved("folder", "folder"))

(***************************************************************************)
(* vault_events                                                            *)
(***************************************************************************)
\* The notes are counted, and then the watcher is started.
OpenStream ==
    /\ page = "open" /\ watch.step = "off" /\ frames = <<>>
    /\ watch' = [watch EXCEPT !.step = "counted"]
    /\ UNCHANGED <<notes, vaultEdits, frames, page, loads, shownNotes, followed, watchFaults>>

StartWatcher ==
    /\ watch.step = "counted"
    /\ watch' = [watch EXCEPT !.step = "watching"] /\ followed' = FALSE
    /\ UNCHANGED <<notes, vaultEdits, frames, page, loads, shownNotes, watchFaults>>

SendReady ==
    /\ watch.step = "watching"
    /\ watch' = [watch EXCEPT !.step = "waiting"] /\ frames' = Append(frames, "ready")
    /\ UNCHANGED <<notes, vaultEdits, page, loads, shownNotes, followed, watchFaults>>

\* vault_event_path: paths that are hidden, or neither a note nor a directory, are left out
Seen(path) == path # "aside"

\* vault_event_payload: nothing is sent of a batch in which nothing of the Vault is seen
Announced(batch) == \E event \in Range(batch) : \E path \in Range(event.paths) : Seen(path)

IsError(event) == event.kind = "error"

TakeFirst ==
    /\ watch.step = "waiting" /\ watch.queue # <<>>
    /\ IF IsError(Head(watch.queue))
       THEN /\ frames' = Append(frames, "unavailable")
            /\ watch' = [watch EXCEPT !.queue = Tail(@)]
       ELSE /\ watch' = [watch EXCEPT !.step = "collecting", !.batch = <<Head(watch.queue)>>, !.queue = Tail(@)]
            /\ UNCHANGED frames
    /\ UNCHANGED <<notes, vaultEdits, page, loads, shownNotes, followed, watchFaults>>

\* After a moment, what has come meanwhile joins; an error ends the batch and drops it.
CollectBatch ==
    /\ watch.step = "collecting"
    /\ LET failed == SelectInSeq(watch.queue, IsError)
       IN  IF failed # 0
           THEN /\ frames' = Append(frames, "unavailable")
                /\ watch' = [watch EXCEPT !.step = "waiting", !.batch = <<>>,
                                          !.queue = SubSeq(@, failed + 1, Len(@))]
           ELSE /\ frames' = IF Announced(watch.batch \o watch.queue) THEN Append(frames, "changed") ELSE frames
                /\ watch' = [watch EXCEPT !.step = "waiting", !.batch = <<>>, !.queue = <<>>]
    /\ UNCHANGED <<notes, vaultEdits, page, loads, shownNotes, followed, watchFaults>>

WatchFault == watchFaults < MaxWatchFaults /\ watchFaults' = watchFaults + 1

WatcherFails ==
    /\ IsWatching /\ WatchFault
    /\ watch' = [watch EXCEPT !.queue = Append(@, Event("error", <<>>))]
    /\ UNCHANGED <<notes, vaultEdits, frames, page, loads, shownNotes, followed>>

\* The page comes back for another stream; nothing is said of what it missed.
LoseStream ==
    /\ watch.step # "off" /\ WatchFault
    /\ watch' = NoStream /\ frames' = <<>>
    /\ UNCHANGED <<notes, vaultEdits, page, loads, shownNotes, followed>>

(***************************************************************************)
(* The page                                                                *)
(***************************************************************************)
\* openVaultWorkspace: the stream follows the first list
OpenPage ==
    /\ page = "closed"
    /\ \E i \in FreeLoads : loads' = [loads EXCEPT ![i] = [step |-> "asked"]] /\ page' = i
    /\ UNCHANGED <<notes, vaultEdits, watch, frames, shownNotes, followed, watchFaults>>

\* list_vault_notes
ListNotes(i) ==
    /\ loads[i].step = "asked"
    /\ loads' = [loads EXCEPT ![i] = [step |-> "answered", listed |-> notes]]
    /\ UNCHANGED <<notes, vaultEdits, watch, frames, page, shownNotes, followed, watchFaults>>

\* loadVaultIndex: the answer that comes last is the one that is shown
ShowList(i) ==
    /\ loads[i].step = "answered"
    /\ shownNotes' = loads[i].listed /\ loads' = [loads EXCEPT ![i] = Idle]
    /\ page' = IF page = i THEN "open" ELSE page
    /\ UNCHANGED <<notes, vaultEdits, watch, frames, followed, watchFaults>>

\* What is shown stays; a page that is being opened does without a stream.
LoadFails(i) ==
    /\ loads[i].step = "asked" /\ WatchFault
    /\ loads' = [loads EXCEPT ![i] = Idle] /\ followed' = FALSE
    /\ page' = IF page = i THEN "closed" ELSE page
    /\ UNCHANGED <<notes, vaultEdits, watch, frames, shownNotes>>

\* The list is loaded at a change, and at nothing else.
ReceiveFrame ==
    /\ page = "open" /\ frames # <<>> /\ frames' = Tail(frames)
    /\ CASE Head(frames) = "changed" -> \E i \in FreeLoads :
                /\ loads' = [loads EXCEPT ![i] = [step |-> "asked"]]
                /\ followed' = (FreeLoads = LoadIds)
         [] Head(frames) = "unavailable" -> followed' = FALSE /\ UNCHANGED loads
         [] Head(frames) = "ready" -> UNCHANGED <<loads, followed>>
    /\ UNCHANGED <<notes, vaultEdits, watch, page, shownNotes, watchFaults>>

EditSteps == \E n \in Notes : \/ SaveNote(n) \/ RemoveNote(n)
                              \/ \E m \in Notes : RenameNote(n, m) \/ RenameFolder(n, m)
StreamSteps == OpenStream \/ StartWatcher \/ SendReady \/ TakeFirst \/ CollectBatch
FaultSteps == WatcherFails \/ LoseStream \/ \E i \in LoadIds : LoadFails(i)
PageSteps == OpenPage \/ ReceiveFrame \/ \E i \in LoadIds : ListNotes(i) \/ ShowList(i)

WatchNext == EditSteps \/ StreamSteps \/ FaultSteps \/ PageSteps

\* Nothing is under way between the Vault and the page.
Settled ==
    /\ watch.step = "waiting" /\ watch.queue = <<>> /\ frames = <<>>
    /\ page = "open" /\ FreeLoads = LoadIds

\* However edits, renames of notes and of directories, and saves through temporary
\* files fall between the collecting of a batch, the frame and the list that is
\* loaded for it: once everything has arrived, a page that has loaded at a frame of
\* this stream, one load at a time and with nothing failed since, shows the Vault.
ListFollowsVault == Settled /\ followed => shownNotes = notes
=============================================================================
