------------------------------ MODULE Settings ------------------------------
(***************************************************************************)
(* What the owner configures: personal settings, provider and              *)
(* configuration profiles, the revisions of a prompt and the one that is   *)
(* active.  Editors work from what they have read, a write names the       *)
(* version it replaces, and personal settings can be cleared.              *)
(***************************************************************************)
EXTENDS Naturals, Sequences, SequencesExt

CONSTANTS
    Editors,        \* clients that edit
    MaxEdits        \* edits made in all

ASSUME SettingsAssumption == MaxEdits \in Nat

VARIABLES
    documents,      \* the rows: the edit each holds, its version, and the edit its writer had seen
    history,        \* the revisions of the prompt, each with the edit it names as its parent
    active,         \* the revision of the prompt that is active; 0 for none
    seen,           \* what each editor has read of all this
    appender,       \* requests that have read the history and not yet appended to it
    editCount           \* edits made so far

settingVars == <<documents, history, active, seen, appender, editCount>>

Clearable == {"settings"}
Kept == {"provider", "profile"}
Documents == Clearable \cup Kept

NoRow == [edit |-> 0, version |-> 0, over |-> 0]
NotAppending == [step |-> "idle"]

SettingsTypeOK ==
    /\ \A d \in Documents : documents[d] \in [edit : 0 .. MaxEdits, version : 0 .. MaxEdits, over : 0 .. MaxEdits]
    /\ \A n \in DOMAIN history : history[n] \in [edit : 1 .. MaxEdits, parent : 0 .. MaxEdits]
    /\ active \in 0 .. Len(history)
    /\ \A c \in Editors : seen[c].revision \in 0 .. Len(history) /\ appender[c].step \in {"idle", "read"}

SettingsInit ==
    /\ documents = [d \in Documents |-> NoRow] /\ history = <<>> /\ active = 0
    /\ seen = [c \in Editors |-> [rows |-> documents, revision |-> 0, active |-> 0]]
    /\ appender = [c \in Editors |-> NotAppending] /\ editCount = 0

ReadSettings(c) ==
    /\ seen' = [seen EXCEPT ![c] = [rows |-> documents, revision |-> Len(history), active |-> active]]
    /\ UNCHANGED <<documents, history, active, appender, editCount>>

AnEdit == editCount < MaxEdits /\ editCount' = editCount + 1

\* require_expected_revision: both are none, or both are the same
Writable(version, expected) == version = expected

PutDocument(c, d) ==
    /\ AnEdit /\ Writable(documents[d].version, seen[c].rows[d].version)
    /\ documents' = [documents EXCEPT ![d] =
           [edit |-> editCount', version |-> @.version + 1, over |-> seen[c].rows[d].edit]]
    /\ seen' = [seen EXCEPT ![c].rows[d] = documents'[d]]
    /\ UNCHANGED <<history, active, appender>>

\* clear_personal_settings: the row goes, and its version with it
ClearSettings(c, d) ==
    /\ documents[d] # NoRow => seen[c].rows[d].version = documents[d].version
    /\ documents' = [documents EXCEPT ![d] = NoRow]
    /\ seen' = [seen EXCEPT ![c].rows[d] = NoRow]
    /\ UNCHANGED <<history, active, appender, editCount>>

\* create_prompt_revision reads the history for the number and the parent of the next revision.
ReadHistory(c) ==
    /\ appender[c] = NotAppending
    /\ appender' = [appender EXCEPT ![c] = [step |-> "read", expected |-> seen[c].revision, next |-> Len(history) + 1,
           parent |-> IF history = <<>> THEN 0 ELSE Last(history).edit]]
    /\ UNCHANGED <<documents, history, active, seen, editCount>>

RevisionAppendable(c) == Writable(Len(history), appender[c].expected) /\ appender[c].next = Len(history) + 1

AppendRevision(c) ==
    /\ appender[c].step = "read" /\ AnEdit /\ RevisionAppendable(c)
    /\ history' = Append(history, [edit |-> editCount', parent |-> appender[c].parent])
    /\ seen' = [seen EXCEPT ![c].revision = Len(history')]
    /\ appender' = [appender EXCEPT ![c] = NotAppending]
    /\ UNCHANGED <<documents, active>>

AppendIsRefused(c) ==
    /\ appender[c].step = "read" /\ ~RevisionAppendable(c)
    /\ appender' = [appender EXCEPT ![c] = NotAppending]
    /\ UNCHANGED <<documents, history, active, seen, editCount>>

\* A client activates a revision it has seen in place of the one it saw active.
ActivatePrompt(c, version) ==
    /\ version \in 1 .. seen[c].revision /\ Writable(active, seen[c].active)
    /\ active' = version /\ seen' = [seen EXCEPT ![c].active = version]
    /\ UNCHANGED <<documents, history, appender, editCount>>

SettingsNext == \E c \in Editors :
    \/ ReadSettings(c) \/ ReadHistory(c) \/ AppendRevision(c) \/ AppendIsRefused(c)
    \/ \E d \in Documents : PutDocument(c, d)
    \/ \E d \in Clearable : ClearSettings(c, d)
    \/ \E version \in DOMAIN history : ActivatePrompt(c, version)

\* No edit of the documents ds is replaced by an editor that has not seen it.
SeenBefore(ds) == \A d \in ds : documents'[d].edit \notin {documents[d].edit, 0} =>
    documents'[d].over = documents[d].edit

\* A profile is edited by one who has seen its last edit, and a revision of the
\* prompt names the one before it as its parent, whoever edits at the same time.
ProfileEditsAreSeen ==
    /\ [][SeenBefore(Kept)]_settingVars
    /\ [](\A n \in DOMAIN history : history[n].parent = IF n = 1 THEN 0 ELSE history[n - 1].edit)

SettingsSpec == SettingsInit /\ [][SettingsNext]_settingVars
=============================================================================
