--------------------------- MODULE MCConversation ---------------------------
(* Conversation for TLC: keys, requests and contents are interchangeable. *)
EXTENDS Conversation, TLC

Symmetry == Permutations(Keys) \cup Permutations(Clients)

\* Whatever early return or error ends a task, its operation has ended, unless a
\* cancellation came in between, and its channel is out of the registry.
TurnsEnd == UncancelledOperationsEnd /\ TasksEnd
=============================================================================
