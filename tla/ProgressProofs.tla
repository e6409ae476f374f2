---------------------------- MODULE ProgressProofs ----------------------------
(***************************************************************************)
(* The stream of a run or an operation implements the ideal feed, for any  *)
(* pages, writers, connections and failures: across reconnections the      *)
(* Dashboard is told the events one after the other.                       *)
(*                                                                         *)
(* The argument follows the frames: what the server has sent and the       *)
(* Dashboard has not received continues where the Dashboard's cursor       *)
(* stands, without a gap, and ends where the server's cursor stands.       *)
(***************************************************************************)
EXTENDS MCProgress, SequenceTheorems, NaturalsInduction, WellFoundedInduction, TLAPS

-----------------------------------------------------------------------------
(* The inductive invariant *)

SnapshotFrames == [id : Nat, kind : {"snapshot"}]
EventFrames == [id : Nat, kind : EventKinds]

\* A frame that tells what comes after a sequence: the next event, or a checkpoint that
\* covers it.
Continues(after, frame) ==
    \/ frame \in EventFrames /\ frame.id = after + 1 /\ frame.id =< Len(log)
    \/ frame \in SnapshotFrames /\ frame.id \in checkpoints /\ frame.id > after

\* The sequence at which a frame of a queue finds its reader.
Before(frames, i, from) == IF i = 1 THEN from ELSE frames[i - 1].id

\* Frames without a gap from a cursor on; the error frame is the last.
Chain(frames, from) ==
    \A i \in DOMAIN frames :
        \/ frames[i] \in [kind : {"error"}] /\ i = Len(frames)
        \/ Continues(Before(frames, i, from), frames[i])

LogInv ==
    /\ source \in Sources /\ log \in Seq(EventKinds) /\ log # <<>>
    /\ checkpoints \subseteq 0 .. Len(log)
    /\ row \in {"open", "ended", "gone"} /\ writer \in {"idle", "cover", "settle"}

ToldInv ==
    /\ client \in [phase : {"idle", "connecting", "reading", "done", "failed"}, cursor : Nat]
    /\ client.cursor =< Len(log)
    /\ told \in Seq(Nat \X (EventKinds \cup {"snapshot"}))
    /\ client.cursor = IF told = <<>> THEN 0 ELSE told[Len(told)][1]
    /\ seen \subseteq [id : Nat, kind : EventKinds \cup {"snapshot"}]
    /\ \A frame \in seen : frame.id =< client.cursor

WireInv ==
    /\ server \in [phase : {"none", "row", "snapshot", "follow", "check", "closing"},
                   cursor : Nat, covers : Nat, ended : BOOLEAN]
    /\ wire \in Seq(Frames) /\ Chain(wire, client.cursor)
    /\ server.phase \in {"row", "snapshot"} => wire = <<>>
    /\ server.phase \in {"row", "snapshot", "follow", "check"} =>
           /\ server.cursor =< Len(log)
           /\ server.cursor = CursorAfter(wire, client.cursor)
           /\ \A i \in DOMAIN wire : wire[i].kind # "error"
    /\ server.phase = "row" => server.covers = 0
    /\ server.phase = "snapshot" /\ server.covers # 0 =>
           server.covers \in checkpoints /\ server.covers > server.cursor

StreamInv == LogInv /\ ToldInv /\ WireInv

-----------------------------------------------------------------------------
(* Frames in a queue *)

LEMMA StreamConstants == PageSize \in Nat \ {0} /\ Sources \subseteq {"run", "operation"}
  BY StreamAssumption

LEMMA OfTwo ==
  ASSUME NEW m \in Nat, NEW n \in Nat
  PROVE  /\ Min({m, n}) \in Nat /\ Min({m, n}) =< n
         /\ m < n => Max({m, n}) = n
<1>1. CASE m =< n
  <2>1. m \in {m, n} /\ \A y \in {m, n} : m =< y
    BY <1>1
  <2>2. \A x \in {m, n} : (\A y \in {m, n} : x =< y) => x = m
    BY <1>1
  <2>3. Min({m, n}) = m
    BY <2>1, <2>2 DEF Min
  <2>4. n \in {m, n} /\ \A y \in {m, n} : n >= y
    BY <1>1
  <2>5. \A x \in {m, n} : (\A y \in {m, n} : x >= y) => x = n
    BY <1>1
  <2>6. Max({m, n}) = n
    BY <2>4, <2>5 DEF Max
  <2>7. QED
    BY <1>1, <2>3, <2>6
<1>2. CASE ~(m =< n)
  <2>1. n \in {m, n} /\ \A y \in {m, n} : n =< y
    BY <1>2
  <2>2. \A x \in {m, n} : (\A y \in {m, n} : x =< y) => x = n
    BY <1>2
  <2>3. Min({m, n}) = n
    BY <2>1, <2>2 DEF Min
  <2>4. QED
    BY <1>2, <2>3
<1>3. QED
  BY <1>1, <1>2

\* A set of numbers within a bound has a greatest one.
LEMMA GreatestOf ==
  ASSUME NEW bound \in Nat, NEW S \in SUBSET (0 .. bound), S # {}
  PROVE  Max(S) \in S
<1> DEFINE above == {n \in Nat : \A m \in S : m =< n}
<1>1. bound \in above
  OBVIOUS
<1>2. PICK least \in above : \A n \in above : ~(<<n, least>> \in OpToRel(<, Nat))
  <2>1. above \in SUBSET Nat /\ above # {}
    BY <1>1
  <2> HIDE DEF above
  <2>2. QED
    BY <2>1, NatLessThanWellFounded, WFMin
<1>3. \A n \in above : ~(n < least)
  BY <1>2 DEF OpToRel
<1>4. least \in Nat /\ \A m \in S : m \in Nat /\ m =< least
  OBVIOUS
<1>5. least \in S
  <2> SUFFICES ASSUME least \notin S PROVE FALSE
    OBVIOUS
  <2>1. \A m \in S : m < least
    BY <1>4
  <2>2. PICK m \in S : m < least
    BY <2>1
  <2>3. least - 1 \in Nat /\ \A n \in S : n =< least - 1
    BY <1>4, <2>1, <2>2
  <2>4. least - 1 \in above
    BY <2>3
  <2>5. QED
    BY <1>3, <1>4, <2>4
<1>6. least \in S /\ \A n \in S : least >= n
  BY <1>4, <1>5
<1>7. QED
  BY <1>6 DEF Max

LEMMA FrameSets ==
  /\ EventFrames \subseteq Frames /\ SnapshotFrames \subseteq Frames
  /\ \A frame \in EventFrames \cup SnapshotFrames :
        frame.id \in Nat /\ frame.kind # "error" /\ frame.kind \in EventKinds \cup {"snapshot"}
        /\ frame \in [id : Nat, kind : EventKinds \cup {"snapshot"}]
  BY DEF EventFrames, SnapshotFrames, Frames, EventKinds

\* A page of the log holds the events after a cursor.
LEMMA PageContinues ==
  ASSUME LogInv, NEW after \in Nat, after =< Len(log)
  PROVE  LET events == Page(after, PageSize)
         IN  /\ events \in Seq(EventFrames)
             /\ \A i \in DOMAIN events : events[i].id = after + i /\ after + i =< Len(log)
<1> DEFINE size == Min({PageSize, Len(log) - after})
           events == [i \in 1 .. size |-> Frame(after + i)]
<1>1. log \in Seq(EventKinds) /\ Len(log) \in Nat /\ Len(log) - after \in Nat
  BY DEF LogInv
<1>2. size \in Nat /\ size =< Len(log) - after
  BY <1>1, OfTwo, StreamConstants
<1> HIDE DEF size
<1>3. ASSUME NEW i \in 1 .. size
      PROVE  /\ Frame(after + i) \in EventFrames /\ Frame(after + i).id = after + i
             /\ after + i =< Len(log)
  <2>1. after + i \in 1 .. Len(log)
    BY <1>1, <1>2
  <2>2. log[after + i] \in EventKinds
    BY <1>1, <2>1
  <2>3. QED
    BY <2>1, <2>2 DEF Frame, EventFrames
<1>4. events \in Seq(EventFrames) /\ DOMAIN events = 1 .. size
  <2>1. events \in [1 .. size -> EventFrames]
    BY <1>3
  <2>2. size \in Nat
    BY <1>2
  <2> HIDE DEF events
  <2>3. QED
    BY <2>1, <2>2, SeqDef
<1>5. \A i \in DOMAIN events : events[i].id = after + i /\ after + i =< Len(log)
  BY <1>3, <1>4
<1>6. CASE Gone
  BY <1>6 DEF Page
<1>7. CASE ~Gone
  <2>1. Page(after, PageSize) = events
    BY <1>7 DEF Page, size
  <2> HIDE DEF events
  <2>2. QED
    BY <1>4, <1>5, <2>1
<1>8. QED
  BY <1>6, <1>7

Clean(frames) == \A i \in DOMAIN frames : frames[i].kind # "error"

\* What is sent next continues what was sent.
LEMMA ChainExtends ==
  ASSUME NEW frames \in Seq(Frames), NEW from \in Nat, Chain(frames, from), Clean(frames),
         CursorAfter(frames, from) \in Nat,
         NEW more \in Seq(EventFrames),
         \A i \in DOMAIN more : /\ more[i].id = CursorAfter(frames, from) + i
                                /\ CursorAfter(frames, from) + i =< Len(log)
  PROVE  /\ frames \o more \in Seq(Frames) /\ Chain(frames \o more, from) /\ Clean(frames \o more)
         /\ CursorAfter(frames \o more, from) = CursorAfter(more, CursorAfter(frames, from))
         /\ CursorAfter(more, CursorAfter(frames, from)) = CursorAfter(frames, from) + Len(more)
<1> DEFINE end == CursorAfter(frames, from)
           all == frames \o more
<1>1. /\ Len(frames) \in Nat /\ Len(more) \in Nat /\ end \in Nat
      /\ DOMAIN frames = 1 .. Len(frames) /\ DOMAIN more = 1 .. Len(more)
      /\ frames = << >> <=> Len(frames) = 0
      /\ more = << >> <=> Len(more) = 0
  OBVIOUS
<1>2. more \in Seq(Frames) /\ \A i \in DOMAIN more : more[i] \in EventFrames
  BY FrameSets
<1>3. all \in Seq(Frames) /\ Len(all) = Len(frames) + Len(more) /\ DOMAIN all = 1 .. Len(all)
  BY <1>2
<1>4. \A i \in 1 .. Len(all) : all[i] = IF i =< Len(frames) THEN frames[i] ELSE more[i - Len(frames)]
  BY <1>2
<1>5. end = IF Len(frames) = 0 THEN from ELSE frames[Len(frames)].id
  BY <1>1 DEF CursorAfter
<1>6. CursorAfter(more, end) = IF Len(more) = 0 THEN end ELSE more[Len(more)].id
  BY <1>1 DEF CursorAfter
<1>7. CursorAfter(all, from) = IF Len(all) = 0 THEN from ELSE all[Len(all)].id
  BY <1>3 DEF CursorAfter
<1> HIDE DEF end, all
<1>8. \A i \in DOMAIN more : more[i].id = end + i /\ end + i =< Len(log) /\ more[i] \in EventFrames
  BY <1>2 DEF end
<1>9. CursorAfter(more, end) = end + Len(more)
  <2>1. CASE Len(more) = 0
    BY <1>1, <1>6, <2>1
  <2>2. CASE Len(more) # 0
    <3>1. Len(more) \in DOMAIN more
      BY <1>1, <2>2
    <3>2. QED
      BY <1>6, <1>8, <2>2, <3>1
  <2>3. QED
    BY <2>1, <2>2
<1>10. CursorAfter(all, from) = CursorAfter(more, end)
  <2>1. CASE Len(more) = 0
    <3>1. Len(all) = Len(frames) /\ (Len(frames) # 0 => all[Len(all)] = frames[Len(frames)])
      BY <1>1, <1>3, <1>4, <2>1
    <3>2. QED
      BY <1>5, <1>6, <1>7, <2>1, <3>1
  <2>2. CASE Len(more) # 0
    <3>1. Len(all) # 0 /\ all[Len(all)] = more[Len(more)]
      BY <1>1, <1>3, <1>4, <2>2
    <3>2. QED
      BY <1>6, <1>7, <2>2, <3>1
  <2>3. QED
    BY <2>1, <2>2
<1>11. Clean(all)
  <2>1. ASSUME NEW i \in DOMAIN all PROVE all[i].kind # "error"
    <3>1. CASE i =< Len(frames)
      <4>1. i \in DOMAIN frames /\ all[i] = frames[i]
        BY <1>1, <1>3, <1>4, <2>1, <3>1
      <4>2. QED
        BY <4>1 DEF Clean
    <3>2. CASE ~(i =< Len(frames))
      <4>1. i - Len(frames) \in DOMAIN more /\ all[i] = more[i - Len(frames)]
        BY <1>1, <1>3, <1>4, <2>1, <3>2
      <4>2. QED
        BY <1>8, <4>1, FrameSets
    <3>3. QED
      BY <3>1, <3>2
  <2>2. QED
    BY <2>1 DEF Clean
<1>12. Chain(all, from)
  <2>1. ASSUME NEW i \in DOMAIN all PROVE Continues(Before(all, i, from), all[i])
    <3>1. CASE i =< Len(frames)
      <4>1. i \in DOMAIN frames /\ all[i] = frames[i] /\ (i # 1 => all[i - 1] = frames[i - 1])
        BY <1>1, <1>3, <1>4, <2>1, <3>1
      <4>2. Before(all, i, from) = Before(frames, i, from)
        BY <4>1 DEF Before
      <4>3. Continues(Before(frames, i, from), frames[i])
        <5>1. frames[i].kind # "error"
          BY <4>1 DEF Clean
        <5>2. frames[i] \notin [kind : {"error"}]
          BY <5>1
        <5>3. QED
          BY <4>1, <5>2 DEF Chain
      <4>4. QED
        BY <4>1, <4>2, <4>3
    <3>2. CASE i = Len(frames) + 1
      <4>1. 1 \in DOMAIN more /\ all[i] = more[1] /\ (i # 1 => all[i - 1] = frames[Len(frames)])
        <5>1. i \in 1 .. Len(all) /\ Len(more) # 0 /\ i - Len(frames) = 1
          BY <1>1, <1>3, <2>1, <3>2
        <5>2. 1 \in DOMAIN more /\ all[i] = more[1]
          BY <1>1, <1>4, <3>2, <5>1
        <5>3. ASSUME i # 1 PROVE all[i - 1] = frames[Len(frames)]
          <6>1. i - 1 = Len(frames) /\ i - 1 \in 1 .. Len(all)
            BY <1>1, <1>3, <3>2, <5>1, <5>3
          <6>2. QED
            BY <1>1, <1>4, <6>1
        <5>4. QED
          BY <5>2, <5>3
      <4>2. Before(all, i, from) = end
        BY <1>1, <1>5, <3>2, <4>1 DEF Before
      <4>3. QED
        BY <1>8, <4>1, <4>2 DEF Continues
    <3>3. CASE i > Len(frames) + 1
      <4> DEFINE j == i - Len(frames)
      <4>1. /\ j \in DOMAIN more /\ j - 1 \in DOMAIN more /\ j \in Nat /\ i # 1
            /\ all[i] = more[j] /\ all[i - 1] = more[j - 1]
        <5>1. /\ i \in 1 .. Len(all) /\ i - 1 \in 1 .. Len(all) /\ i # 1
              /\ ~(i =< Len(frames)) /\ ~(i - 1 =< Len(frames))
          BY <1>1, <1>3, <2>1, <3>3
        <5>2. j \in 1 .. Len(more) /\ j - 1 \in 1 .. Len(more) /\ (i - 1) - Len(frames) = j - 1
          BY <1>1, <1>3, <3>3, <5>1
        <5>3. all[i] = more[j] /\ all[i - 1] = more[(i - 1) - Len(frames)]
          BY <1>4, <5>1
        <5>4. QED
          BY <1>1, <5>1, <5>2, <5>3
      <4>2. Before(all, i, from) = end + (j - 1)
        BY <1>8, <4>1 DEF Before
      <4>3. more[j].id = (end + (j - 1)) + 1 /\ more[j].id =< Len(log) /\ more[j] \in EventFrames
        BY <1>1, <1>8, <4>1 DEF end
      <4> HIDE DEF j
      <4>4. QED
        BY <4>1, <4>2, <4>3 DEF Continues
    <3>4. QED
      BY <1>1, <1>3, <2>1, <3>1, <3>2, <3>3
  <2>2. QED
    BY <2>1 DEF Chain
<1>13. QED
  BY <1>3, <1>9, <1>10, <1>11, <1>12 DEF end, all

\* A frame that is received continues at the cursor, and the others continue after it.
LEMMA ChainHead ==
  ASSUME NEW frames \in Seq(Frames), frames # << >>, NEW from \in Nat, Chain(frames, from),
         Head(frames).kind # "error"
  PROVE  /\ Continues(from, Head(frames)) /\ Tail(frames) \in Seq(Frames)
         /\ Chain(Tail(frames), Head(frames).id)
         /\ CursorAfter(Tail(frames), Head(frames).id) = CursorAfter(frames, from)
         /\ Clean(frames) => Clean(Tail(frames))
<1> DEFINE rest == Tail(frames)
<1>1. Len(frames) \in Nat /\ Len(frames) # 0 /\ DOMAIN frames = 1 .. Len(frames) /\ Head(frames) = frames[1]
  OBVIOUS
<1>2. rest \in Seq(Frames) /\ Len(rest) = Len(frames) - 1 /\ DOMAIN rest = 1 .. Len(rest)
      /\ \A i \in DOMAIN rest : rest[i] = frames[i + 1]
  OBVIOUS
<1>3. rest = << >> <=> Len(rest) = 0
  BY <1>2
<1> HIDE DEF rest
<1>4. Continues(from, Head(frames))
  <2>1. 1 \in DOMAIN frames /\ frames[1] \notin [kind : {"error"}]
    BY <1>1
  <2>2. QED
    BY <1>1, <2>1 DEF Chain, Before
<1>5. Chain(rest, Head(frames).id)
  <2>1. ASSUME NEW i \in DOMAIN rest
        PROVE  \/ rest[i] \in [kind : {"error"}] /\ i = Len(rest)
               \/ Continues(Before(rest, i, Head(frames).id), rest[i])
    <3>1. /\ i \in Nat /\ i + 1 \in DOMAIN frames /\ i + 1 # 1 /\ (i + 1) - 1 = i
          /\ i + 1 = Len(frames) => i = Len(rest)
      BY <1>1, <1>2, <2>1
    <3>2. \/ frames[i + 1] \in [kind : {"error"}] /\ i + 1 = Len(frames)
          \/ Continues(Before(frames, i + 1, from), frames[i + 1])
      BY <3>1 DEF Chain
    <3>3. Before(frames, i + 1, from) = frames[i].id
      BY <3>1 DEF Before
    <3>4. Before(rest, i, Head(frames).id) = frames[i].id
      <4>1. CASE i = 1
        BY <1>1, <4>1 DEF Before
      <4>2. CASE i # 1
        <5>1. i - 1 \in DOMAIN rest /\ (i - 1) + 1 = i
          BY <1>2, <2>1, <4>2
        <5>2. rest[i - 1] = frames[i]
          BY <1>2, <5>1
        <5>3. QED
          BY <4>2, <5>2 DEF Before
      <4>3. QED
        BY <4>1, <4>2
    <3>5. rest[i] = frames[i + 1]
      BY <1>2, <2>1
    <3>6. QED
      BY <3>1, <3>2, <3>3, <3>4, <3>5
  <2>2. QED
    BY <2>1 DEF Chain
<1>6. CursorAfter(rest, Head(frames).id) = CursorAfter(frames, from)
  <2>1. CASE Len(rest) = 0
    <3>1. Len(frames) = 1
      <4>1. Len(frames) \in Nat /\ Len(rest) = Len(frames) - 1
        BY <1>1, <1>2
      <4>2. QED
        BY <2>1, <4>1
    <3>2. CursorAfter(rest, Head(frames).id) = Head(frames).id
      BY <1>3, <2>1 DEF CursorAfter
    <3>3. CursorAfter(frames, from) = frames[1].id
      BY <3>1 DEF CursorAfter
    <3>4. QED
      BY <1>1, <3>2, <3>3
  <2>2. CASE Len(rest) # 0
    <3>1. Len(rest) \in DOMAIN rest /\ Len(rest) + 1 = Len(frames)
      BY <1>1, <1>2, <2>2
    <3>2. rest[Len(rest)] = frames[Len(frames)]
      BY <1>2, <3>1
    <3>3. QED
      BY <1>1, <1>3, <2>2, <3>2 DEF CursorAfter
  <2>3. QED
    BY <2>1, <2>2
<1>7. Clean(frames) => Clean(rest)
  <2>1. \A i \in DOMAIN rest : i + 1 \in DOMAIN frames
    BY <1>1, <1>2
  <2>2. QED
    BY <1>2, <2>1 DEF Clean
<1>8. QED
  BY <1>2, <1>4, <1>5, <1>6, <1>7 DEF rest

-----------------------------------------------------------------------------
(* The writer, which the frames on the wire survive *)

\* Frames that continue go on to, while the log and its checkpoints grow.
LEMMA WriterKeepsStream ==
  ASSUME StreamInv, LogInv', UNCHANGED <<server, wire, client, seen, told>>,
         Len(log) =< Len(log'), checkpoints \subseteq checkpoints'
  PROVE  StreamInv'
<1>1. Len(log) \in Nat /\ Len(log') \in Nat /\ client.cursor \in Nat /\ client.cursor =< Len(log)
      /\ server.cursor \in Nat
  BY DEF StreamInv, LogInv, ToldInv, WireInv
<1>2. \A after, frame : Continues(after, frame) => Continues(after, frame)'
  <2>1. ASSUME NEW after, NEW frame, Continues(after, frame) PROVE Continues(after, frame)'
    <3>1. frame \in EventFrames => frame.id \in Nat
      BY DEF EventFrames
    <3>2. frame \in EventFrames /\ frame.id =< Len(log) => frame.id =< Len(log')
      BY <1>1, <3>1
    <3>3. QED
      BY <2>1, <3>2 DEF Continues
  <2>2. QED
    BY <2>1
<1>3. Chain(wire, client.cursor)'
  BY <1>2 DEF StreamInv, WireInv, Chain, Before
<1>4. ToldInv'
  <2>1. client.cursor =< Len(log')
    BY <1>1
  <2>2. QED
    BY <2>1 DEF StreamInv, ToldInv
<1>5. WireInv'
  <2>1. server.cursor =< Len(log) => server.cursor =< Len(log')
    BY <1>1
  <2>2. QED
    BY <1>3, <2>1 DEF StreamInv, WireInv, CursorAfter
<1>6. QED
  BY <1>4, <1>5 DEF StreamInv

LEMMA LogGrows ==
  ASSUME LogInv, NEW kind \in EventKinds, log' = Append(log, kind)
  PROVE  log' \in Seq(EventKinds) /\ log' # << >> /\ Len(log') = Len(log) + 1 /\ Len(log) \in Nat
<1>1. log \in Seq(EventKinds) /\ Len(log) \in Nat
  BY DEF LogInv
<1>2. log' \in Seq(EventKinds) /\ Len(log') = Len(log) + 1
  BY <1>1
<1>3. Len(<< >>) = 0 /\ Len(log') # 0
  BY <1>1, <1>2
<1>4. QED
  BY <1>1, <1>2, <1>3, Zenon

\* What the writer does: it adds an event, covers the log by a checkpoint, or ends the row.
Grows(kind) == log' = Append(log, kind) /\ UNCHANGED checkpoints
Covers == checkpoints' = checkpoints \cup {Len(log)} /\ UNCHANGED log

LEMMA GrowthKeepsLog ==
  ASSUME LogInv, UNCHANGED source, row' \in {"open", "ended", "gone"},
         writer' \in {"idle", "cover", "settle"},
         (\E kind \in EventKinds : Grows(kind)) \/ Covers \/ UNCHANGED <<log, checkpoints>>
  PROVE  LogInv' /\ Len(log) =< Len(log') /\ checkpoints \subseteq checkpoints'
<1>1. Len(log) \in Nat /\ checkpoints \subseteq 0 .. Len(log)
  BY DEF LogInv
<1>2. CASE \E kind \in EventKinds : Grows(kind)
  <2>1. PICK kind \in EventKinds : log' = Append(log, kind) /\ checkpoints' = checkpoints
    BY <1>2 DEF Grows
  <2>2. log' \in Seq(EventKinds) /\ log' # << >> /\ Len(log') = Len(log) + 1
    BY <2>1, LogGrows
  <2>3. checkpoints' \subseteq 0 .. Len(log') /\ Len(log) =< Len(log')
    BY <1>1, <2>1, <2>2
  <2>4. QED
    BY <2>1, <2>2, <2>3 DEF LogInv
<1>3. CASE Covers
  <2>1. Len(log) \in 0 .. Len(log) /\ log' = log /\ checkpoints' = checkpoints \cup {Len(log)}
    BY <1>1, <1>3 DEF Covers
  <2>2. checkpoints' \subseteq 0 .. Len(log) /\ checkpoints \subseteq checkpoints'
    BY <1>1, <2>1, Zenon
  <2>3. Len(log') = Len(log) /\ Len(log) =< Len(log)
    BY <1>1, <2>1
  <2>4. QED
    BY <2>1, <2>2, <2>3 DEF LogInv
<1>4. CASE UNCHANGED <<log, checkpoints>>
  BY <1>1, <1>4 DEF LogInv
<1>5. QED
  BY <1>2, <1>3, <1>4

LEMMA WritesAre ==
  ASSUME StreamInv, Write \/ DeleteSource
  PROVE  /\ UNCHANGED <<source, server, wire, client, seen, told>>
         /\ row' \in {"open", "ended", "gone"} /\ writer' \in {"idle", "cover", "settle"}
         /\ (\E kind \in EventKinds : Grows(kind)) \/ Covers \/ UNCHANGED <<log, checkpoints>>
<1>1. row \in {"open", "ended", "gone"} /\ writer \in {"idle", "cover", "settle"}
      /\ "step" \in EventKinds /\ "end" \in EventKinds
  BY DEF StreamInv, LogInv, EventKinds
<1>2. CASE WriteEvent
  BY <1>1, <1>2 DEF WriteEvent, WriterOnly, Grows
<1>3. CASE SaveCheckpoint
  BY <1>1, <1>3 DEF SaveCheckpoint, WriterOnly, Covers
<1>4. CASE EndOperation
  BY <1>1, <1>4 DEF EndOperation, WriterOnly, Grows
<1>5. CASE WriteEnd
  BY <1>1, <1>5 DEF WriteEnd, WriterOnly, Grows
<1>6. CASE CoverEnd
  BY <1>1, <1>6 DEF CoverEnd, WriterOnly, Covers
<1>7. CASE SettleRow
  BY <1>1, <1>7 DEF SettleRow, WriterOnly
<1>8. CASE DeleteSource
  BY <1>1, <1>8 DEF DeleteSource, WriterOnly
<1>9. QED
  BY <1>2, <1>3, <1>4, <1>5, <1>6, <1>7, <1>8 DEF Write

-----------------------------------------------------------------------------
(* The server and the Dashboard *)

ServerStates == [phase : {"none", "row", "snapshot", "follow", "check", "closing"},
                 cursor : Nat, covers : Nat, ended : BOOLEAN]
ClientStates == [phase : {"idle", "connecting", "reading", "done", "failed"}, cursor : Nat]

\* A connection that is not there, or begins, has nothing on its wire.
LEMMA ConnectionResets ==
  ASSUME StreamInv, LogInv', Len(log) =< Len(log'), UNCHANGED <<seen, told, client.cursor>>,
         client' \in ClientStates, wire' = << >>,
         server' = NoStream \/ server' = Stream("row", client.cursor)
  PROVE  StreamInv'
<1>1. client.cursor \in Nat /\ client.cursor =< Len(log) /\ Len(log) \in Nat /\ Len(log') \in Nat
  BY DEF StreamInv, LogInv, ToldInv
<1>2. client.cursor =< Len(log')
  BY <1>1
<1>3. ToldInv'
  BY <1>2 DEF StreamInv, ToldInv, ClientStates
<1>4. server' \in ServerStates /\ server'.cursor \in {0, client.cursor} /\ server'.covers = 0
      /\ (server'.phase = "none" \/ (server'.phase = "row" /\ server'.cursor = client.cursor))
  <2>1. NoStream \in ServerStates /\ Stream("row", client.cursor) \in ServerStates
    BY <1>1 DEF NoStream, Stream, ServerStates
  <2>2. /\ NoStream.cursor = 0 /\ NoStream.covers = 0 /\ NoStream.phase = "none"
        /\ Stream("row", client.cursor).cursor = client.cursor
        /\ Stream("row", client.cursor).covers = 0 /\ Stream("row", client.cursor).phase = "row"
    BY DEF NoStream, Stream
  <2>3. CASE server' = NoStream
    BY <2>1, <2>2, <2>3
  <2>4. CASE server' = Stream("row", client.cursor)
    BY <2>1, <2>2, <2>4
  <2>5. QED
    BY <2>3, <2>4
<1>5. wire' \in Seq(Frames) /\ DOMAIN wire' = {}
  OBVIOUS
<1>6. WireInv'
  BY <1>2, <1>4, <1>5 DEF WireInv, ServerStates, Chain, CursorAfter
<1>7. QED
  BY <1>3, <1>6 DEF StreamInv

\* Nothing but the server's state and the wire.
LEMMA ServerSteps ==
  ASSUME StreamInv, UNCHANGED <<storedVars, client, seen, told>>, WireInv'
  PROVE  StreamInv'
  BY DEF StreamInv, LogInv, ToldInv, storedVars

LEMMA CheckpointsAreCovered ==
  ASSUME LogInv, checkpoints # {}
  PROVE  Covered \in checkpoints
<1>1. checkpoints \in SUBSET (0 .. Len(log)) /\ Len(log) \in Nat
  BY DEF LogInv
<1>2. Max(checkpoints) \in checkpoints
  BY <1>1, GreatestOf
<1>3. QED
  BY <1>2 DEF Covered

LEMMA ReadsKeepStream ==
  ASSUME StreamInv, ReadRow \/ ReadSnapshot \/ CheckRow
  PROVE  StreamInv'
<1>1. /\ server \in ServerStates /\ server.cursor \in Nat
      /\ WireInv /\ LogInv
  BY DEF StreamInv, WireInv, ServerStates
<1>2. UNCHANGED <<storedVars, client, seen, told>> /\ UNCHANGED wire
  BY DEF ReadRow, ReadSnapshot, CheckRow, ServerOnly
<1>3. Chain(wire, client.cursor)'
  BY <1>1, <1>2 DEF WireInv, Chain, Before, Continues, storedVars
<1>4. CASE ReadRow
  <2>1. server.phase = "row" /\ server' = [server EXCEPT !.phase = "snapshot", !.ended = (row = "ended")]
    BY <1>4 DEF ReadRow
  <2>2. /\ server' \in ServerStates /\ server'.phase = "snapshot" /\ server'.cursor = server.cursor
        /\ server'.covers = server.covers
    BY <1>1, <2>1 DEF ServerStates
  <2>3. server.covers = 0
    BY <1>1, <2>1 DEF WireInv
  <2>4. WireInv'
    BY <1>1, <1>2, <1>3, <2>1, <2>2, <2>3 DEF WireInv, ServerStates, CursorAfter, storedVars
  <2>5. QED
    BY <1>2, <2>4, ServerSteps
<1>5. CASE ReadSnapshot
  <2> DEFINE covers == IF Covered > server.cursor THEN Covered ELSE 0
  <2>1. server.phase = "row" /\ server' = [server EXCEPT !.phase = "snapshot", !.covers = covers]
    BY <1>5 DEF ReadSnapshot
  <2>2. covers \in Nat /\ (covers # 0 => covers \in checkpoints /\ covers > server.cursor)
    <3>1. CASE checkpoints = {}
      <4>1. Covered = 0
        BY <3>1 DEF Covered
      <4>2. QED
        BY <1>1, <4>1
    <3>2. CASE checkpoints # {}
      <4>1. Covered \in checkpoints
        BY <1>1, <3>2, CheckpointsAreCovered
      <4> HIDE DEF Covered
      <4>2. Covered \in Nat
        <5>1. checkpoints \subseteq 0 .. Len(log)
          BY <1>1 DEF LogInv
        <5>2. QED
          BY <4>1, <5>1
      <4>3. QED
        BY <4>1, <4>2
    <3>3. QED
      BY <3>1, <3>2
  <2> HIDE DEF covers
  <2>3. /\ server' \in ServerStates /\ server'.phase = "snapshot" /\ server'.cursor = server.cursor
        /\ server'.covers = covers
    BY <1>1, <2>1, <2>2 DEF ServerStates
  <2>4. WireInv'
    BY <1>1, <1>2, <1>3, <2>1, <2>2, <2>3 DEF WireInv, ServerStates, CursorAfter, storedVars
  <2>5. QED
    BY <1>2, <2>4, ServerSteps
<1>6. CASE CheckRow
  <2>1. server.phase = "check" /\ server' = [server EXCEPT !.phase = IF row = "open" THEN "follow" ELSE "closing"]
    BY <1>6 DEF CheckRow
  <2>2. server' \in ServerStates /\ server'.phase \in {"follow", "closing"} /\ server'.cursor = server.cursor
    BY <1>1, <2>1 DEF ServerStates
  <2>3. WireInv'
    BY <1>1, <1>2, <1>3, <2>1, <2>2 DEF WireInv, ServerStates, CursorAfter, storedVars
  <2>4. QED
    BY <1>2, <2>3, ServerSteps
<1>7. QED
  BY <1>4, <1>5, <1>6

\* What the server sends continues what is on the wire.
LEMMA SendingKeepsStream ==
  ASSUME StreamInv, UNCHANGED <<storedVars, client, seen, told>>,
         NEW frames \in Seq(Frames), Chain(frames, client.cursor), Clean(frames),
         CursorAfter(frames, client.cursor) \in Nat, CursorAfter(frames, client.cursor) =< Len(log),
         wire' = frames \o Page(CursorAfter(frames, client.cursor), PageSize),
         server' \in ServerStates, server'.phase \in {"follow", "check", "closing"},
         server'.cursor = CursorAfter(frames \o Page(CursorAfter(frames, client.cursor), PageSize), client.cursor)
  PROVE  StreamInv'
<1> DEFINE end == CursorAfter(frames, client.cursor)
           events == Page(end, PageSize)
<1>1. client.cursor \in Nat /\ LogInv /\ Len(log) \in Nat
  BY DEF StreamInv, LogInv, ToldInv
<1>2. /\ events \in Seq(EventFrames)
      /\ \A i \in DOMAIN events : events[i].id = end + i /\ end + i =< Len(log)
  BY <1>1, PageContinues
<1> HIDE DEF events
<1>3. /\ frames \o events \in Seq(Frames) /\ Chain(frames \o events, client.cursor) /\ Clean(frames \o events)
      /\ CursorAfter(frames \o events, client.cursor) = end + Len(events)
  BY <1>1, <1>2, ChainExtends
<1>4. end + Len(events) =< Len(log)
  <2>1. Len(events) \in Nat /\ DOMAIN events = 1 .. Len(events)
    BY <1>2
  <2>2. CASE Len(events) = 0
    BY <1>1, <2>2
  <2>3. CASE Len(events) # 0
    <3>1. Len(events) \in DOMAIN events
      BY <2>1, <2>3
    <3>2. QED
      BY <1>2, <3>1
  <2>4. QED
    BY <2>2, <2>3
<1>5. wire' = frames \o events /\ server'.cursor = CursorAfter(frames \o events, client.cursor)
  BY DEF events
<1>6. client' = client /\ log' = log /\ checkpoints' = checkpoints
  BY DEF storedVars
<1>7. Chain(wire, client.cursor)'
  BY <1>3, <1>5, <1>6 DEF Chain, Before, Continues
<1>8. /\ wire' \in Seq(Frames) /\ \A i \in DOMAIN wire' : wire'[i].kind # "error"
      /\ server'.cursor =< Len(log') /\ server'.cursor = CursorAfter(wire', client'.cursor)
  BY <1>3, <1>4, <1>5, <1>6 DEF Clean
<1>9. WireInv'
  BY <1>7, <1>8 DEF WireInv, ServerStates, CursorAfter
<1>10. QED
  BY <1>9, ServerSteps

LEMMA SendsKeepStream ==
  ASSUME StreamInv, Replay \/ FollowEvents
  PROVE  StreamInv'
<1>1. /\ server \in ServerStates /\ server.cursor \in Nat /\ wire \in Seq(Frames) /\ Chain(wire, client.cursor)
      /\ client.cursor \in Nat
  BY DEF StreamInv, WireInv, ToldInv, ServerStates
<1>2. UNCHANGED <<storedVars, client, seen, told>>
  BY DEF Replay, FollowEvents, ServerOnly
<1>3. CASE FollowEvents
  <2> DEFINE events == Page(server.cursor, PageSize)
  <2>1. /\ server.phase = "follow" /\ wire' = wire \o events
        /\ server' = [server EXCEPT !.phase = IF events = << >> THEN "check" ELSE "follow",
                                    !.cursor = CursorAfter(events, server.cursor)]
    BY <1>3 DEF FollowEvents
  <2>2. /\ server.cursor = CursorAfter(wire, client.cursor) /\ server.cursor =< Len(log) /\ Clean(wire)
    BY <2>1 DEF StreamInv, WireInv, Clean
  <2>3. /\ events \in Seq(EventFrames)
        /\ \A i \in DOMAIN events : events[i].id = server.cursor + i /\ server.cursor + i =< Len(log)
    BY <1>1, <2>2, PageContinues DEF StreamInv
  <2> HIDE DEF events
  <2>4. /\ CursorAfter(wire \o events, client.cursor) = CursorAfter(events, server.cursor)
        /\ CursorAfter(events, server.cursor) = server.cursor + Len(events)
    BY <1>1, <2>2, <2>3, ChainExtends
  <2>5. Len(events) \in Nat /\ CursorAfter(events, server.cursor) \in Nat
    BY <1>1, <2>3, <2>4
  <2>6. server' \in ServerStates /\ server'.phase \in {"follow", "check", "closing"}
        /\ server'.cursor = CursorAfter(events, server.cursor)
    BY <1>1, <2>1, <2>5 DEF ServerStates
  <2>7. /\ wire' = wire \o Page(CursorAfter(wire, client.cursor), PageSize)
        /\ server'.cursor = CursorAfter(wire \o Page(CursorAfter(wire, client.cursor), PageSize), client.cursor)
        /\ CursorAfter(wire, client.cursor) \in Nat /\ CursorAfter(wire, client.cursor) =< Len(log)
    BY <1>1, <2>1, <2>2, <2>4, <2>6 DEF events
  <2>8. QED
    BY <1>1, <1>2, <2>2, <2>6, <2>7, SendingKeepsStream
<1>4. CASE Replay
  <2> DEFINE events == Page(CursorAfter(SnapshotFrame, server.cursor), PageSize)
             first == SnapshotFrame
  <2>1. /\ server.phase = "snapshot" /\ wire' = first \o events
        /\ server' = Stream(IF server.ended THEN "closing" ELSE "follow",
                            CursorAfter(first \o events, server.cursor))
    BY <1>4 DEF Replay
  <2>2. /\ wire = << >> /\ server.cursor =< Len(log)
        /\ server.covers # 0 => server.covers \in checkpoints /\ server.covers > server.cursor
        /\ server.cursor = CursorAfter(wire, client.cursor)
    BY <2>1 DEF StreamInv, WireInv
  <2>3. server.cursor = client.cursor
    BY <2>2 DEF CursorAfter
  <2>4. checkpoints \subseteq 0 .. Len(log) /\ Len(log) \in Nat
    BY DEF StreamInv, LogInv
  <2>5. /\ first \in Seq(Frames) /\ Chain(first, client.cursor) /\ Clean(first)
        /\ CursorAfter(first, client.cursor) \in Nat /\ CursorAfter(first, client.cursor) =< Len(log)
    <3>1. CASE server.covers = 0
      <4>1. first = << >>
        BY <3>1 DEF SnapshotFrame
      <4>2. DOMAIN first = {} /\ first \in Seq(Frames) /\ CursorAfter(first, client.cursor) = client.cursor
        BY <4>1 DEF CursorAfter
      <4> HIDE DEF first
      <4>3. QED
        BY <1>1, <2>2, <2>3, <4>2 DEF Chain, Clean
    <3>2. CASE server.covers # 0
      <4> DEFINE frame == [id |-> server.covers, kind |-> "snapshot"]
      <4>1. first = <<frame>>
        BY <3>2 DEF SnapshotFrame
      <4>2. server.covers \in Nat /\ server.covers =< Len(log)
        <5>1. server.covers \in checkpoints
          BY <2>2, <3>2
        <5>2. server.covers \in 0 .. Len(log)
          BY <2>4, <5>1
        <5>3. QED
          BY <2>4, <5>2
      <4>3. frame \in SnapshotFrames /\ frame.id = server.covers /\ frame.kind # "error"
        BY <4>2 DEF SnapshotFrames
      <4> HIDE DEF frame, first
      <4>4. frame \in Frames
        BY <4>3, FrameSets
      <4>5. /\ first \in Seq(Frames) /\ DOMAIN first = {1} /\ first[1] = frame /\ first # << >>
            /\ Len(first) = 1
        BY <4>1, <4>4
      <4>6. Continues(client.cursor, frame)
        BY <2>2, <2>3, <3>2, <4>3 DEF Continues
      <4>7. CursorAfter(first, client.cursor) = server.covers
        BY <4>3, <4>5 DEF CursorAfter
      <4>8. QED
        BY <4>2, <4>3, <4>5, <4>6, <4>7 DEF Chain, Clean, Before
    <3>3. QED
      BY <3>1, <3>2
  <2>6. /\ events \in Seq(EventFrames)
        /\ \A i \in DOMAIN events :
              /\ events[i].id = CursorAfter(first, client.cursor) + i
              /\ CursorAfter(first, client.cursor) + i =< Len(log)
    BY <2>3, <2>5, PageContinues DEF StreamInv
  <2> HIDE DEF events, first
  <2>7. CursorAfter(first \o events, client.cursor) = CursorAfter(events, CursorAfter(first, client.cursor))
        /\ CursorAfter(events, CursorAfter(first, client.cursor)) = CursorAfter(first, client.cursor) + Len(events)
    BY <1>1, <2>5, <2>6, ChainExtends
  <2>8. CursorAfter(first \o events, client.cursor) \in Nat
    BY <2>5, <2>6, <2>7
  <2>9. server' \in ServerStates /\ server'.phase \in {"follow", "check", "closing"}
        /\ server'.cursor = CursorAfter(first \o events, client.cursor)
    BY <2>1, <2>3, <2>8 DEF Stream, ServerStates
  <2>10. events = Page(CursorAfter(first, client.cursor), PageSize)
    BY <2>3 DEF events, first
  <2>11. QED
    BY <1>2, <2>1, <2>5, <2>9, <2>10, SendingKeepsStream
<1>5. QED
  BY <1>3, <1>4

\* The connection ends, with what was sent on it or without.
LEMMA ConnectionEnds ==
  ASSUME StreamInv, UNCHANGED <<storedVars, wire, seen, told, client.cursor>>, client' \in ClientStates,
         server' \in ServerStates, server'.phase \in {"none", "closing"}
  PROVE  StreamInv'
<1>1. LogInv' /\ ToldInv'
  BY DEF StreamInv, LogInv, ToldInv, storedVars, ClientStates
<1>2. Chain(wire, client.cursor)'
  BY DEF StreamInv, WireInv, Chain, Before, Continues, storedVars
<1>3. WireInv'
  BY <1>2 DEF StreamInv, WireInv, ServerStates
<1>4. QED
  BY <1>1, <1>3 DEF StreamInv

\* A frame that is received is new, and the next the Dashboard can be told.
LEMMA ReceivedIsNext ==
  ASSUME StreamInv, wire # << >>, Head(wire).kind # "error"
  PROVE  /\ Continues(client.cursor, Head(wire)) /\ Head(wire) \notin seen
         /\ Head(wire).id \in Nat /\ Head(wire).id > client.cursor /\ Head(wire).id =< Len(log)
         /\ Head(wire) \in [id : Nat, kind : EventKinds \cup {"snapshot"}]
         /\ Max({client.cursor, Head(wire).id}) = Head(wire).id
<1>1. /\ client.cursor \in Nat /\ \A frame \in seen : frame.id =< client.cursor
      /\ wire \in Seq(Frames) /\ Chain(wire, client.cursor)
      /\ checkpoints \subseteq 0 .. Len(log) /\ Len(log) \in Nat
  BY DEF StreamInv, ToldInv, WireInv, LogInv
<1>2. Continues(client.cursor, Head(wire))
  BY <1>1, ChainHead
<1>3. Head(wire) \in EventFrames \cup SnapshotFrames
  BY <1>2 DEF Continues
<1>4. Head(wire).id \in Nat /\ Head(wire) \in [id : Nat, kind : EventKinds \cup {"snapshot"}]
  BY <1>3, FrameSets
<1>5. Head(wire).id > client.cursor /\ Head(wire).id =< Len(log)
  BY <1>1, <1>2, <1>4 DEF Continues
<1>6. Head(wire) \notin seen
  BY <1>1, <1>4, <1>5
<1>7. Max({client.cursor, Head(wire).id}) = Head(wire).id
  BY <1>1, <1>4, <1>5, OfTwo
<1>8. QED
  BY <1>2, <1>4, <1>5, <1>6, <1>7

LEMMA ReceptionKeepsStream ==
  ASSUME StreamInv, ReceiveEvent
  PROVE  /\ StreamInv' /\ UNCHANGED storedVars
         /\ told' = Append(told, <<Head(wire).id, Head(wire).kind>>)
<1> DEFINE frame == Head(wire)
<1>1. wire # << >> /\ frame.kind # "error" /\ wire' = Tail(wire) /\ UNCHANGED <<storedVars, server>>
  BY DEF ReceiveEvent, ClientOnly
<1>2. /\ frame \notin seen /\ frame.id \in Nat /\ frame.id > client.cursor /\ frame.id =< Len(log)
      /\ frame \in [id : Nat, kind : EventKinds \cup {"snapshot"}]
      /\ Max({client.cursor, frame.id}) = frame.id
  BY <1>1, ReceivedIsNext
<1>3. /\ seen' = seen \cup {frame} /\ told' = Append(told, <<frame.id, frame.kind>>)
      /\ client' = [phase |-> IF IsTerminal(frame) THEN "done" ELSE "reading", cursor |-> frame.id]
  BY <1>2 DEF ReceiveEvent
<1>4. /\ client.cursor \in Nat /\ wire \in Seq(Frames) /\ Chain(wire, client.cursor)
      /\ told \in Seq(Nat \X (EventKinds \cup {"snapshot"}))
      /\ seen \subseteq [id : Nat, kind : EventKinds \cup {"snapshot"}]
      /\ \A old \in seen : old.id =< client.cursor
  BY DEF StreamInv, ToldInv, WireInv
<1>5. /\ Tail(wire) \in Seq(Frames) /\ Chain(Tail(wire), frame.id)
      /\ CursorAfter(Tail(wire), frame.id) = CursorAfter(wire, client.cursor)
      /\ Clean(wire) => Clean(Tail(wire))
  BY <1>1, <1>4, ChainHead
<1> HIDE DEF frame
<1>6. /\ client' \in ClientStates /\ client'.cursor = frame.id
  BY <1>2, <1>3 DEF ClientStates
<1>7. <<frame.id, frame.kind>> \in Nat \X (EventKinds \cup {"snapshot"}) /\ <<frame.id, frame.kind>>[1] = frame.id
  BY <1>2
<1>8. /\ told' \in Seq(Nat \X (EventKinds \cup {"snapshot"})) /\ told' # << >>
      /\ told'[Len(told')] = <<frame.id, frame.kind>>
  BY <1>3, <1>4, <1>7
<1>9. \A old \in seen' : old.id =< frame.id
  <2>1. ASSUME NEW old \in seen PROVE old.id =< frame.id
    <3>1. old.id \in Nat /\ old.id =< client.cursor
      BY <1>4, <2>1
    <3>2. QED
      BY <1>2, <1>4, <3>1
  <2>2. QED
    BY <1>2, <1>3, <2>1
<1>10. ToldInv'
  <2>1. seen' \subseteq [id : Nat, kind : EventKinds \cup {"snapshot"}]
    BY <1>2, <1>3, <1>4
  <2>2. client'.cursor =< Len(log')
    BY <1>1, <1>2, <1>6 DEF storedVars
  <2>3. client'.cursor = IF told' = << >> THEN 0 ELSE told'[Len(told')][1]
    BY <1>6, <1>7, <1>8
  <2>4. QED
    BY <1>6, <1>8, <1>9, <2>1, <2>2, <2>3 DEF ToldInv, ClientStates
<1>11. Chain(wire, client.cursor)'
  BY <1>1, <1>5, <1>6 DEF Chain, Before, Continues, storedVars
<1>12. WireInv'
  <2>1. server.phase \notin {"row", "snapshot"}
    BY <1>1 DEF StreamInv, WireInv
  <2>2. /\ wire' \in Seq(Frames) /\ CursorAfter(wire', client'.cursor) = CursorAfter(wire, client.cursor)
        /\ server' = server /\ log' = log
        /\ Clean(wire) => Clean(wire')
    BY <1>1, <1>5, <1>6 DEF storedVars
  <2>3. CursorAfter(wire, client.cursor)' = CursorAfter(wire, client.cursor)
    BY <2>2 DEF CursorAfter
  <2>4. QED
    BY <1>11, <2>1, <2>2, <2>3 DEF StreamInv, WireInv, Clean
<1>13. QED
  BY <1>1, <1>3, <1>10, <1>12 DEF StreamInv, LogInv, storedVars, frame

LEMMA ErrorsKeepStream ==
  ASSUME StreamInv, ReceiveError \/ ReadFails
  PROVE  StreamInv' /\ UNCHANGED <<storedVars, told>>
<1>1. /\ server \in ServerStates /\ wire \in Seq(Frames) /\ Chain(wire, client.cursor)
      /\ client \in ClientStates /\ client.cursor \in Nat
      /\ Len(wire) \in Nat /\ DOMAIN wire = 1 .. Len(wire)
  BY DEF StreamInv, WireInv, ToldInv, ServerStates, ClientStates
<1>2. CASE ReceiveError
  <2>1. /\ wire # << >> /\ Head(wire).kind = "error" /\ wire' = Tail(wire)
        /\ client' = [client EXCEPT !.phase = "failed"] /\ UNCHANGED <<storedVars, server, seen, told>>
    BY <1>2 DEF ReceiveError, ClientOnly
  <2>2. 1 \in DOMAIN wire /\ Head(wire) = wire[1]
    BY <1>1, <2>1
  <2>3. ~Continues(Before(wire, 1, client.cursor), wire[1])
    <3>1. wire[1] \notin EventFrames \cup SnapshotFrames
      BY <2>1, <2>2, FrameSets
    <3>2. QED
      BY <3>1 DEF Continues
  <2>4. Len(wire) = 1
    BY <1>1, <2>2, <2>3 DEF Chain
  <2>5. Tail(wire) = << >>
    BY <1>1, <2>1, <2>4
  <2>6. /\ client' \in ClientStates /\ client'.cursor = client.cursor
    BY <1>1, <2>1 DEF ClientStates
  <2>7. server.phase \notin {"row", "snapshot", "follow", "check"}
    BY <2>1, <2>2 DEF StreamInv, WireInv
  <2>8. LogInv' /\ ToldInv'
    BY <2>1, <2>6 DEF StreamInv, LogInv, ToldInv, storedVars, ClientStates
  <2>9. wire' \in Seq(Frames) /\ Chain(wire, client.cursor)'
    <3>1. wire' = << >>
      BY <2>1, <2>5
    <3>2. wire' \in Seq(Frames) /\ DOMAIN wire' = {}
      BY <3>1
    <3>3. QED
      BY <3>2 DEF Chain
  <2>10. WireInv'
    BY <2>1, <2>7, <2>9 DEF StreamInv, WireInv
  <2>11. QED
    BY <2>1, <2>8, <2>10 DEF StreamInv
<1>3. CASE ReadFails
  <2>1. UNCHANGED <<storedVars, seen, told>>
    BY <1>3 DEF ReadFails
  <2>2. CASE /\ client' = [client EXCEPT !.phase = "connecting"]
             /\ server' = NoStream /\ UNCHANGED wire
    <3>1. client' \in ClientStates /\ client'.cursor = client.cursor
      BY <1>1, <2>2 DEF ClientStates
    <3>2. server' \in ServerStates /\ server'.phase = "none"
      BY <2>2 DEF NoStream, Stream, ServerStates
    <3>3. QED
      BY <2>1, <2>2, <3>1, <3>2, ConnectionEnds
  <2>3. CASE /\ server.phase \in {"follow", "check"} /\ server' = [server EXCEPT !.phase = "closing"]
             /\ wire' = Append(wire, [kind |-> "error"]) /\ UNCHANGED client
    <3> DEFINE error == [kind |-> "error"]
    <3>1. error \in Frames /\ error \in [kind : {"error"}]
      BY DEF Frames
    <3> HIDE DEF error
    <3>2. /\ wire' \in Seq(Frames) /\ Len(wire') = Len(wire) + 1 /\ DOMAIN wire' = 1 .. Len(wire')
          /\ wire'[Len(wire')] = error /\ \A i \in 1 .. Len(wire) : wire'[i] = wire[i]
      BY <1>1, <2>3, <3>1 DEF error
    <3>3. server' \in ServerStates /\ server'.phase = "closing"
      BY <1>1, <2>3 DEF ServerStates
    <3>4. Clean(wire)
      BY <2>3 DEF StreamInv, WireInv, Clean
    <3>5. ASSUME NEW i \in DOMAIN wire', i # Len(wire')
          PROVE  Continues(Before(wire', i, client.cursor), wire'[i])
      <4>1. i \in DOMAIN wire /\ wire'[i] = wire[i] /\ (i # 1 => wire'[i - 1] = wire[i - 1])
        BY <1>1, <3>2, <3>5
      <4>2. wire[i] \notin [kind : {"error"}]
        BY <3>4, <4>1 DEF Clean
      <4>3. Continues(Before(wire, i, client.cursor), wire[i])
        BY <1>1, <4>1, <4>2 DEF Chain
      <4>4. QED
        BY <4>1, <4>3 DEF Before
    <3>6. Chain(wire, client.cursor)'
      BY <2>1, <2>3, <3>1, <3>2, <3>5 DEF Chain, Before, Continues, storedVars
    <3>7. LogInv' /\ ToldInv'
      BY <2>1, <2>3 DEF StreamInv, LogInv, ToldInv, storedVars
    <3>8. WireInv'
      BY <3>2, <3>3, <3>6 DEF WireInv, ServerStates
    <3>9. QED
      BY <2>1, <3>7, <3>8 DEF StreamInv
  <2>4. QED
    BY <1>3, <2>2, <2>3 DEF ReadFails
<1>4. QED
  BY <1>2, <1>3

\* The other steps of the Dashboard, and a connection that is lost.
LEMMA ConnectionsKeepStream ==
  ASSUME StreamInv, Connect \/ NotFound \/ EndOfBody \/ Follow \/ Abort \/ LoseConnection
  PROVE  StreamInv' /\ UNCHANGED <<storedVars, told>>
<1>1. client \in ClientStates /\ client.cursor \in Nat /\ LogInv /\ Len(log) \in Nat
  BY DEF StreamInv, ToldInv, LogInv, ClientStates
<1>2. /\ UNCHANGED <<storedVars, seen, told>>
      /\ \E next \in {"idle", "connecting", "reading", "failed"} : client' = [client EXCEPT !.phase = next]
  BY DEF Connect, NotFound, EndOfBody, Follow, Abort, LoseConnection, ClientOnly
<1>3. client' \in ClientStates /\ client'.cursor = client.cursor
  BY <1>1, <1>2 DEF ClientStates
<1>4. LogInv' /\ Len(log) =< Len(log')
  BY <1>1, <1>2 DEF LogInv, storedVars
<1>5. CASE Connect \/ Follow \/ Abort \/ LoseConnection
  <2>1. wire' = << >> /\ (server' = NoStream \/ server' = Stream("row", client.cursor))
    BY <1>5 DEF Connect, Follow, Abort, LoseConnection
  <2>2. UNCHANGED <<seen, told, client.cursor>>
    BY <1>2, <1>3
  <2>3. QED
    BY <1>2, <1>3, <1>4, <2>1, <2>2, ConnectionResets
<1>6. CASE NotFound \/ EndOfBody
  <2>1. server' = NoStream /\ UNCHANGED wire
    BY <1>6 DEF NotFound, EndOfBody
  <2>2. server' \in ServerStates /\ server'.phase = "none"
    BY <2>1 DEF NoStream, Stream, ServerStates
  <2>3. UNCHANGED <<storedVars, wire, seen, told, client.cursor>>
    BY <1>2, <1>3, <2>1
  <2>4. QED
    BY <1>2, <1>3, <2>2, <2>3, ConnectionEnds
<1>7. QED
  BY <1>5, <1>6

LEMMA RestartKeepsStream ==
  ASSUME StreamInv, RestartCore
  PROVE  /\ StreamInv' /\ UNCHANGED <<checkpoints, told>>
         /\ log' = log \/ \E kind \in EventKinds : log' = Append(log, kind)
<1>1. client \in ClientStates /\ client.cursor \in Nat /\ LogInv
      /\ row \in {"open", "ended", "gone"} /\ "end" \in EventKinds
  BY DEF StreamInv, ToldInv, LogInv, ClientStates, EventKinds
<1>2. /\ UNCHANGED <<source, checkpoints, seen, told>> /\ writer' = "idle"
      /\ client' = [client EXCEPT !.phase = IF client.phase = "reading" THEN "connecting" ELSE client.phase]
      /\ server' = NoStream /\ wire' = << >>
      /\ \/ log' = Append(log, "end") /\ row' = "ended"
         \/ UNCHANGED <<log, row>>
  BY DEF RestartCore
<1>3. client' \in ClientStates /\ client'.cursor = client.cursor
  BY <1>1, <1>2 DEF ClientStates
<1>4. (\E kind \in EventKinds : Grows(kind)) \/ Covers \/ UNCHANGED <<log, checkpoints>>
  BY <1>1, <1>2 DEF Grows
<1>5. row' \in {"open", "ended", "gone"} /\ writer' \in {"idle", "cover", "settle"}
  BY <1>1, <1>2
<1>6. LogInv' /\ Len(log) =< Len(log')
  BY <1>1, <1>2, <1>4, <1>5, GrowthKeepsLog
<1>7. UNCHANGED <<seen, told, client.cursor>>
  BY <1>2, <1>3
<1>8. StreamInv'
  BY <1>2, <1>3, <1>6, <1>7, ConnectionResets
<1>9. QED
  BY <1>1, <1>2, <1>8

-----------------------------------------------------------------------------
(* The refinement *)

\* What the listeners were told, as the feed sees it.
Sequence == [i \in DOMAIN told |-> told[i][1]]
Feeds == [Feed!FeedNext]_(Feed!feedVars)

LEMMA SequenceFacts ==
  ASSUME StreamInv
  PROVE  /\ Sequence \in Seq(Nat) /\ Len(Sequence) = Len(told)
         /\ client.cursor = IF Sequence = << >> THEN 0 ELSE Sequence[Len(Sequence)]
<1>1. told \in Seq(Nat \X (EventKinds \cup {"snapshot"})) /\ Len(told) \in Nat /\ DOMAIN told = 1 .. Len(told)
      /\ client.cursor = IF told = << >> THEN 0 ELSE told[Len(told)][1]
  BY DEF StreamInv, ToldInv
<1>2. \A i \in DOMAIN told : told[i][1] \in Nat
  BY <1>1
<1>3. Sequence \in Seq(Nat) /\ Len(Sequence) = Len(told) /\ \A i \in DOMAIN told : Sequence[i] = told[i][1]
  BY <1>1, <1>2 DEF Sequence
<1>4. (Sequence = << >> <=> Len(Sequence) = 0) /\ (told = << >> <=> Len(told) = 0)
  BY <1>1, <1>3
<1>5. told # << >> => Sequence[Len(Sequence)] = told[Len(told)][1]
  <2>1. told # << >> => Len(told) \in DOMAIN told
    BY <1>1, <1>4
  <2>2. QED
    BY <1>3, <2>1
<1>6. QED
  BY <1>1, <1>3, <1>4, <1>5

LEMMA Stutters == ASSUME UNCHANGED <<log, checkpoints, told>> PROVE Feeds
  BY DEF Feeds, Feed!feedVars

LEMMA GrowthIsFed ==
  ASSUME StreamInv, UNCHANGED told,
         (\E kind \in EventKinds : Grows(kind)) \/ Covers \/ UNCHANGED <<log, checkpoints>>
  PROVE  Feeds
<1>1. CASE \E kind \in EventKinds : Grows(kind)
  <2>1. PICK kind \in EventKinds : log' = Append(log, kind) /\ checkpoints' = checkpoints
    BY <1>1 DEF Grows
  <2>2. Len(log') = Len(log) + 1
    BY <2>1, LogGrows DEF StreamInv
  <2>3. Feed!LogEvent
    BY <2>1, <2>2 DEF Feed!LogEvent
  <2>4. QED
    BY <2>3 DEF Feeds, Feed!FeedNext
<1>2. CASE Covers
  <2>1. Feed!Cover
    BY <1>2 DEF Covers, Feed!Cover
  <2>2. QED
    BY <2>1 DEF Feeds, Feed!FeedNext
<1>3. CASE UNCHANGED <<log, checkpoints>>
  BY <1>3, Stutters
<1>4. QED
  BY <1>1, <1>2, <1>3

\* A frame that is received is an event or a checkpoint of the feed.
LEMMA ReceptionIsFed ==
  ASSUME StreamInv, ReceiveEvent
  PROVE  Feeds
<1> DEFINE frame == Head(wire)
<1>1. UNCHANGED storedVars /\ told' = Append(told, <<frame.id, frame.kind>>)
  BY ReceptionKeepsStream
<1>2. wire # << >> /\ frame.kind # "error"
  BY DEF ReceiveEvent
<1>3. /\ Continues(client.cursor, frame) /\ frame.id \in Nat /\ frame.id > client.cursor
      /\ frame.id =< Len(log) /\ client.cursor \in Nat
  BY <1>2, ReceivedIsNext DEF StreamInv, ToldInv
<1> HIDE DEF frame
<1>4. /\ told \in Seq(Nat \X (EventKinds \cup {"snapshot"})) /\ Len(told) \in Nat
      /\ DOMAIN told = 1 .. Len(told)
  BY DEF StreamInv, ToldInv
<1>5. Sequence' = Append(Sequence, frame.id)
  <2> DEFINE pair == <<frame.id, frame.kind>>
  <2>1. pair[1] = frame.id
    OBVIOUS
  <2> HIDE DEF pair
  <2>2. /\ DOMAIN told' = 1 .. Len(told) + 1
        /\ \A i \in 1 .. Len(told) + 1 : told'[i] = IF i = Len(told) + 1 THEN pair ELSE told[i]
    BY <1>1, <1>4 DEF pair
  <2>3. Sequence' = [i \in 1 .. Len(told) + 1 |-> IF i = Len(told) + 1 THEN frame.id ELSE told[i][1]]
    BY <2>1, <2>2 DEF Sequence
  <2>4. Sequence \in Seq(Nat) /\ Len(Sequence) = Len(told) /\ Sequence = [i \in 1 .. Len(told) |-> told[i][1]]
    BY <1>4, SequenceFacts DEF Sequence
  <2>5. Append(Sequence, frame.id)
            = [i \in 1 .. Len(told) + 1 |-> IF i = Len(told) + 1 THEN frame.id ELSE told[i][1]]
    BY <1>3, <1>4, <2>4
  <2>6. QED
    BY <2>3, <2>5
<1>6. client.cursor = IF Sequence = << >> THEN 0 ELSE Sequence[Len(Sequence)]
  BY SequenceFacts
<1>7. Feed!Position = client.cursor
  BY <1>6 DEF Feed!Position, Sequence
<1>8. UNCHANGED <<log, checkpoints>>
  BY <1>1 DEF storedVars
<1>9. CASE frame \in EventFrames /\ frame.id = client.cursor + 1
  <2>1. client.cursor < Len(log)
    <3>1. Len(log) \in Nat
      BY DEF StreamInv, LogInv
    <3>2. QED
      BY <1>3, <1>9, <3>1
  <2>2. Feed!TellEvent
    BY <1>5, <1>7, <1>8, <1>9, <2>1 DEF Feed!TellEvent, Sequence
  <2>3. QED
    BY <2>2 DEF Feeds, Feed!FeedNext
<1>10. CASE frame \in SnapshotFrames /\ frame.id \in checkpoints
  <2>1. Feed!TellCheckpoint
    BY <1>3, <1>5, <1>7, <1>8, <1>10 DEF Feed!TellCheckpoint, Sequence
  <2>2. QED
    BY <2>1 DEF Feeds, Feed!FeedNext
<1>11. QED
  BY <1>3, <1>9, <1>10 DEF Continues

LEMMA StreamStep ==
  ASSUME StreamInv, StreamNext
  PROVE  StreamInv' /\ Feeds
<1>1. CASE Write \/ DeleteSource
  <2>1. /\ UNCHANGED <<source, server, wire, client, seen, told>>
        /\ row' \in {"open", "ended", "gone"} /\ writer' \in {"idle", "cover", "settle"}
        /\ (\E kind \in EventKinds : Grows(kind)) \/ Covers \/ UNCHANGED <<log, checkpoints>>
    BY <1>1, WritesAre
  <2>2. LogInv' /\ Len(log) =< Len(log') /\ checkpoints \subseteq checkpoints'
    BY <2>1, GrowthKeepsLog DEF StreamInv
  <2>3. StreamInv'
    BY <2>1, <2>2, WriterKeepsStream
  <2>4. Feeds
    BY <2>1, GrowthIsFed
  <2>5. QED
    BY <2>3, <2>4
<1>2. CASE Serve
  <2>1. StreamInv'
    BY <1>2, ReadsKeepStream, SendsKeepStream DEF Serve
  <2>2. UNCHANGED <<log, checkpoints, told>>
    BY <1>2 DEF Serve, ReadRow, ReadSnapshot, Replay, FollowEvents, CheckRow, ServerOnly, storedVars
  <2>3. QED
    BY <2>1, <2>2, Stutters
<1>3. CASE ReceiveEvent
  BY <1>3, ReceptionKeepsStream, ReceptionIsFed
<1>4. CASE ReceiveError \/ ReadFails \/ Connect \/ NotFound \/ EndOfBody \/ Follow \/ Abort \/ LoseConnection
  <2>1. StreamInv' /\ UNCHANGED <<storedVars, told>>
    BY <1>4, ErrorsKeepStream, ConnectionsKeepStream
  <2>2. QED
    BY <2>1, Stutters DEF storedVars
<1>5. CASE RestartCore
  <2>1. /\ StreamInv' /\ UNCHANGED <<checkpoints, told>>
        /\ log' = log \/ \E kind \in EventKinds : log' = Append(log, kind)
    BY <1>5, RestartKeepsStream
  <2>2. (\E kind \in EventKinds : Grows(kind)) \/ Covers \/ UNCHANGED <<log, checkpoints>>
    BY <2>1 DEF Grows
  <2>3. QED
    BY <2>1, <2>2, GrowthIsFed
<1>6. QED
  BY <1>1, <1>2, <1>3, <1>4, <1>5 DEF StreamNext, Listen

LEMMA StreamStarts == ASSUME StreamInit PROVE StreamInv /\ Feed!FeedInit
<1>1. /\ source \in Sources /\ log = <<"step">> /\ checkpoints = {} /\ row = "open" /\ writer = "idle"
      /\ server = NoStream /\ wire = << >> /\ client = [phase |-> "idle", cursor |-> 0]
      /\ seen = {} /\ told = << >>
  BY DEF StreamInit
<1>2. log \in Seq(EventKinds) /\ Len(log) = 1 /\ log # << >>
  BY <1>1 DEF EventKinds
<1>3. LogInv
  BY <1>1, <1>2 DEF LogInv
<1>4. client \in ClientStates /\ client.cursor = 0
  BY <1>1 DEF ClientStates
<1>5. ToldInv
  BY <1>1, <1>2, <1>4 DEF ToldInv, ClientStates
<1>6. server \in ServerStates /\ server.phase = "none"
  BY <1>1 DEF NoStream, Stream, ServerStates
<1>7. wire \in Seq(Frames) /\ DOMAIN wire = {}
  BY <1>1
<1>8. WireInv
  BY <1>6, <1>7 DEF WireInv, ServerStates, Chain
<1>9. StreamInv
  BY <1>3, <1>5, <1>8 DEF StreamInv
<1>10. Sequence = << >>
  <2>1. Sequence \in Seq(Nat) /\ Len(Sequence) = Len(told) /\ Len(told) = 0
    BY <1>1, <1>9, SequenceFacts
  <2>2. QED
    BY <2>1
<1>11. Feed!FeedInit
  BY <1>1, <1>2, <1>10 DEF Feed!FeedInit, Sequence
<1>12. QED
  BY <1>9, <1>11

LEMMA StreamRests == ASSUME StreamInv, UNCHANGED streamVars PROVE StreamInv' /\ Feeds
<1>1. UNCHANGED <<source, log, checkpoints, row, writer, server, wire, client, seen, told>>
  BY DEF streamVars
<1>2. LogInv' /\ ToldInv'
  BY <1>1 DEF StreamInv, LogInv, ToldInv
<1>3. Chain(wire, client.cursor)'
  BY <1>1 DEF StreamInv, WireInv, Chain, Before, Continues
<1>4. WireInv'
  BY <1>1, <1>3 DEF StreamInv, WireInv, CursorAfter
<1>5. QED
  BY <1>1, <1>2, <1>4, Stutters DEF StreamInv

\* The frames on the wire continue where the Dashboard stands, at every reachable state.
LEMMA StreamInductive == Spec => []StreamInv
<1>1. Init => StreamInv
  BY StreamStarts DEF Init
<1>2. StreamInv /\ [Next]_<<part, streamVars, scheduleVars, desktopVars>> => StreamInv'
  <2> SUFFICES ASSUME StreamInv, [Next]_<<part, streamVars, scheduleVars, desktopVars>>
               PROVE  StreamInv'
    OBVIOUS
  <2>1. StreamNext \/ UNCHANGED streamVars
    BY DEF Next
  <2>2. QED
    BY <2>1, StreamStep, StreamRests
<1>3. QED
  BY <1>1, <1>2, PTL DEF Spec

\* The log, the wire and the cursors are of their types, and no checkpoint covers what is
\* not in the log, for any pages and writers.
LEMMA StreamTyped == Spec => [](part = "stream" => StreamTypeOK)
<1>1. StreamInv => StreamTypeOK
  BY DEF StreamInv, LogInv, ToldInv, WireInv, StreamTypeOK
<1>2. QED
  BY <1>1, StreamInductive, PTL

\* Whoever follows a run or an operation is told its events in order, none twice and
\* none left out, but for a checkpoint that stands for what it covers: whatever is
\* written meanwhile, however the log is cut into pages, and whichever connections are
\* lost, reads fail and Cores stop (run_events, conversation_operation_events,
\* streamDurableEvents, EventCursor).
THEOREM StreamFeedsItsFollowers == Spec => FeedRefined
<1>1. Init => StreamInv /\ Feed!FeedInit
  BY StreamStarts DEF Init
<1>2. StreamInv /\ [Next]_<<part, streamVars, scheduleVars, desktopVars>> => StreamInv' /\ Feeds
  <2> SUFFICES ASSUME StreamInv, [Next]_<<part, streamVars, scheduleVars, desktopVars>>
               PROVE  StreamInv' /\ Feeds
    OBVIOUS
  <2>1. StreamNext \/ UNCHANGED streamVars
    BY DEF Next
  <2>2. QED
    BY <2>1, StreamStep, StreamRests
<1>3. QED
  BY <1>1, <1>2, PTL DEF Spec, FeedRefined, Feed!FeedSpec, Feeds

=============================================================================
