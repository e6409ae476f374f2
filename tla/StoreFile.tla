------------------------------ MODULE StoreFile ------------------------------
(***************************************************************************)
(* The file of the store as Database::open finds and leaves it: schema     *)
(* versions, the ledger of migrations, and the copies made before them.    *)
(* Cores of several releases open it in turn; any of them may stop, or     *)
(* fail, between two steps.                                                *)
(***************************************************************************)
EXTENDS Naturals

CONSTANTS
    Releases,           \* the schema version each release of Core works with
    MaxOpens, MaxWrites

ASSUME StoreFileAssumption == Releases \subseteq Nat \ {0} /\ {MaxOpens, MaxWrites} \subseteq Nat

VARIABLES
    store,              \* user_version, the checksums of its ledger, and what was written to it
    backups,            \* copies beside it, whole or broken off
    opener,             \* the Core that opens it or works on it
    served,             \* the file as it was when a Core last worked on it
    opens, rowWrites

storeVars == <<store, backups, opener, served, opens, rowWrites>>

Checksums == {"frozen", "blank_line", "drifted"}
NoOpener == [step |-> "closed"]

StoreTypeOK ==
    /\ store.version \in Nat /\ store.ledger \in [1 .. store.version -> Checksums] /\ store.rows \in 0 .. rowWrites
    /\ opener.step \in {"closed", "read", "migrating", "open"}
    /\ \A copy \in backups : copy.whole \in BOOLEAN /\ copy.version <= store.version
    /\ opens <= MaxOpens /\ rowWrites <= MaxWrites

\* There is no file yet, or one an earlier release has left, with its checksums.
StoreInit ==
    /\ \E version \in Releases \cup {0} : \E ledger \in [1 .. version -> Checksums] :
          store = [version |-> version, ledger |-> ledger, rows |-> 0]
    /\ backups = {} /\ opener = NoOpener /\ served = store
    /\ opens = 0 /\ rowWrites = 0

\* A newer schema is refused.  A file without schema may hold data: its header.
Openable(release) == store.version <= release

BeginOpen(release) ==
    /\ opener = NoOpener /\ opens < MaxOpens /\ opens' = opens + 1
    /\ Openable(release)
    /\ \E hadData \in IF store.version > 0 THEN {TRUE} ELSE BOOLEAN :
          opener' = [step |-> "read", release |-> release,
                     copies |-> hadData /\ store.version < release]
    /\ UNCHANGED <<store, backups, served, rowWrites>>

\* create_backup: a copy under a name of its own; one that is broken off stays too
CopyOf(whole) == [whole |-> whole, version |-> store.version, rows |-> store.rows]

Backup ==
    /\ opener.step = "read"
    /\ backups' = IF opener.copies THEN backups \cup {CopyOf(TRUE)} ELSE backups
    /\ opener' = [step |-> "migrating", release |-> opener.release]
    /\ UNCHANGED <<store, served, opens, rowWrites>>

BackupFails ==
    /\ opener.step = "read" /\ opener.copies
    /\ backups' = backups \cup {CopyOf(FALSE)} /\ opener' = NoOpener
    /\ UNCHANGED <<store, served, opens, rowWrites>>

\* migrate: each migration and its row of the ledger in one transaction
Migrate ==
    /\ opener.step = "migrating" /\ store.version < opener.release
    /\ store' = [version |-> store.version + 1, rows |-> store.rows,
                ledger |-> [n \in 1 .. store.version + 1 |-> IF n <= store.version THEN store.ledger[n] ELSE "frozen"]]
    /\ UNCHANGED <<backups, opener, served, opens, rowWrites>>

\* validate_migration_history: two checksums are taken for a migration
Matching(checksum) == checksum \in {"frozen", "blank_line"}
HistoryMatches == \A n \in 1 .. opener.release : Matching(store.ledger[n])

FinishOpen ==
    /\ opener.step = "migrating" /\ store.version = opener.release
    /\ opener' = IF HistoryMatches THEN [step |-> "open", release |-> opener.release] ELSE NoOpener
    /\ served' = IF HistoryMatches THEN store ELSE served
    /\ UNCHANGED <<store, backups, opens, rowWrites>>

WriteRow ==
    /\ opener.step = "open" /\ rowWrites < MaxWrites /\ rowWrites' = rowWrites + 1
    /\ store' = [version |-> store.version, ledger |-> store.ledger, rows |-> rowWrites'] /\ served' = store'
    /\ UNCHANGED <<backups, opener, opens>>

\* Core stops, or a call of the store fails.
LeaveStore ==
    /\ opener # NoOpener /\ opener' = NoOpener
    /\ UNCHANGED <<store, backups, served, opens, rowWrites>>

StoreFileNext ==
    \/ \E release \in Releases : BeginOpen(release)
    \/ Backup \/ BackupFails \/ Migrate \/ FinishOpen \/ WriteRow \/ LeaveStore

\* However often a migration is broken off and begun again, and by whichever release:
\* there is a whole copy of the store as it was when a Core last worked on it, at the
\* schema it had.
MigratedIsBackedUp == served.version \in 1 .. store.version - 1 =>
    [whole |-> TRUE, version |-> served.version, rows |-> served.rows] \in backups

\* A Core works on a store of its own schema whose every migration it knows.
ServedIsKnown == opener.step = "open" => store.version = opener.release /\ HistoryMatches
=============================================================================
