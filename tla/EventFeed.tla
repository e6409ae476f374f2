------------------------------- MODULE EventFeed -------------------------------
(***************************************************************************)
(* What a follower of a durable event log may be told, whatever happens to *)
(* its connections: the events one after the other, none twice and none    *)
(* left out, except that a checkpoint may stand for all it covers.         *)
(* EventStream implements this specification.                              *)
(***************************************************************************)
EXTENDS Integers, Sequences

VARIABLES
    length,         \* events in the log
    checkpoints,    \* the sequence numbers checkpoints have covered
    told            \* the sequence numbers the follower was told, in order

feedVars == <<length, checkpoints, told>>

Position == IF told = <<>> THEN 0 ELSE told[Len(told)]

FeedInit ==
    /\ length \in Nat
    /\ checkpoints = {}
    /\ told = <<>>

LogEvent ==
    /\ length' = length + 1
    /\ UNCHANGED <<checkpoints, told>>

Cover ==
    /\ checkpoints' = checkpoints \cup {length}
    /\ UNCHANGED <<length, told>>

\* The follower is told the next event, ...
TellEvent ==
    /\ Position < length
    /\ told' = Append(told, Position + 1)
    /\ UNCHANGED <<length, checkpoints>>

\* ... or a checkpoint that covers events it was not told.
TellCheckpoint ==
    /\ \E covered \in checkpoints :
           /\ covered > Position
           /\ told' = Append(told, covered)
    /\ UNCHANGED <<length, checkpoints>>

FeedNext == LogEvent \/ Cover \/ TellEvent \/ TellCheckpoint

FeedSpec == FeedInit /\ [][FeedNext]_feedVars
=============================================================================
