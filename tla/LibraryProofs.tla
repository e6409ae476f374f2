---------------------------- MODULE LibraryProofs ----------------------------
(***************************************************************************)
(* Theorems about the components of MCLibrary, for every value of their    *)
(* constants and whichever of them the initial state picks: what the user  *)
(* has decided is kept, what is made from a session or a revision follows  *)
(* it, lists are whole, and what is shown is of the source it names.       *)
(***************************************************************************)
EXTENDS MCLibrary, FiniteSetTheorems, SequenceTheorems, WellFoundedInduction, TLAPS

-----------------------------------------------------------------------------
(* Lists put together by places *)

\* What is put together by places holds each thing once, in their order.
LEMMA Enumerates ==
  ASSUME NEW S, IsFiniteSet(S), NEW R,
         \A x \in S : <<x, x>> \notin R,
         \A x, y, z \in S : <<x, y>> \in R /\ <<y, z>> \in R => <<x, z>> \in R,
         \A x, y \in S : x # y => <<x, y>> \in R \/ <<y, x>> \in R,
         NEW list,
         list = [n \in 1 .. Cardinality(S) |-> list[n]],
         \A n \in 1 .. Cardinality(S), x \in S :
            Cardinality({y \in S : <<y, x>> \in R}) + 1 = n =>
                list[n] \in S /\ Cardinality({y \in S : <<y, list[n]>> \in R}) + 1 = n
  PROVE  /\ Cardinality(S) \in Nat
         /\ list \in [1 .. Cardinality(S) -> S]
         /\ \A x \in S : \E n \in 1 .. Cardinality(S) : list[n] = x
         /\ \A m, n \in 1 .. Cardinality(S) : m < n <=> <<list[m], list[n]>> \in R
         /\ \A m, n \in 1 .. Cardinality(S) : list[m] = list[n] => m = n
<1> DEFINE Ahead(x) == {y \in S : <<y, x>> \in R}
<1>1. Cardinality(S) \in Nat
  BY FS_CardinalityType
<1>0. PICK place : place = [x \in S |-> Cardinality(Ahead(x)) + 1]
  OBVIOUS
<1>2. ASSUME NEW x \in S
      PROVE  /\ IsFiniteSet(Ahead(x)) /\ Cardinality(Ahead(x)) \in Nat
             /\ Cardinality(Ahead(x)) < Cardinality(S)
  <2>1. Ahead(x) \in SUBSET S /\ x \notin Ahead(x)
    OBVIOUS
  <2>2. /\ IsFiniteSet(Ahead(x)) /\ Cardinality(Ahead(x)) <= Cardinality(S)
        /\ Cardinality(S) = Cardinality(Ahead(x)) => S = Ahead(x)
    BY <2>1, FS_Subset
  <2>3. Cardinality(Ahead(x)) \in Nat
    BY <2>2, FS_CardinalityType
  <2>4. Cardinality(S) # Cardinality(Ahead(x))
    BY <2>1, <2>2
  <2>5. QED
    BY <1>1, <2>2, <2>3, <2>4
<1>3. ASSUME NEW x \in S, NEW y \in S, <<x, y>> \in R
      PROVE  Cardinality(Ahead(x)) < Cardinality(Ahead(y))
  <2>1. Ahead(x) \in SUBSET Ahead(y) /\ x \in Ahead(y) /\ x \notin Ahead(x)
    BY <1>3
  <2>2. /\ Cardinality(Ahead(x)) <= Cardinality(Ahead(y))
        /\ Cardinality(Ahead(y)) = Cardinality(Ahead(x)) => Ahead(y) = Ahead(x)
    BY <1>2, <2>1, FS_Subset
  <2>3. Cardinality(Ahead(x)) # Cardinality(Ahead(y))
    BY <2>1, <2>2
  <2>4. Cardinality(Ahead(x)) \in Nat /\ Cardinality(Ahead(y)) \in Nat
    BY <1>2
  <2>5. QED
    BY <2>2, <2>3, <2>4
<1>4. \A x \in S : place[x] = Cardinality(Ahead(x)) + 1
  BY <1>0
<1>15. ASSUME NEW n \in 1 .. Cardinality(S), NEW x \in S, Cardinality(Ahead(x)) + 1 = n
       PROVE  list[n] \in S /\ Cardinality(Ahead(list[n])) + 1 = n
  BY <1>15
<1> HIDE DEF Ahead
<1>5. ASSUME NEW x \in S PROVE place[x] \in 1 .. Cardinality(S)
  BY <1>1, <1>2, <1>4
<1>6. place \in [S -> 1 .. Cardinality(S)]
  BY <1>0, <1>5
<1>7. ASSUME NEW x \in S, NEW y \in S, <<x, y>> \in R PROVE place[x] < place[y]
  BY <1>2, <1>3, <1>4, <1>7
<1>8. ASSUME NEW x \in S, NEW y \in S, x # y PROVE place[x] # place[y]
  <2>1. place[x] \in Nat /\ place[y] \in Nat
    BY <1>5
  <2>2. place[x] < place[y] \/ place[y] < place[x]
    BY <1>7, <1>8
  <2>3. QED
    BY <2>1, <2>2
<1>9. ASSUME NEW x \in S, NEW y \in S, place[x] < place[y] PROVE <<x, y>> \in R
  <2>1. place[x] \in Nat /\ place[y] \in Nat
    BY <1>5
  <2>2. CASE <<y, x>> \in R
    <3>1. place[y] < place[x]
      BY <1>7, <2>2
    <3>2. QED
      BY <1>9, <2>1, <3>1
  <2>3. x # y
    BY <1>9, <2>1
  <2>4. QED
    BY <2>2, <2>3
<1>10. place \in Injection(S, 1 .. Cardinality(S))
  BY <1>6, <1>8 DEF Injection, IsInjective
<1>11. IsFiniteSet(1 .. Cardinality(S)) /\ Cardinality(1 .. Cardinality(S)) = Cardinality(S)
  BY <1>1, FS_Interval
<1>12. place \in Surjection(S, 1 .. Cardinality(S))
  BY <1>10, <1>11, FS_Injection
<1>13. \A n \in 1 .. Cardinality(S) : \E x \in S : place[x] = n
  BY <1>12 DEF Surjection
<1>14. ASSUME NEW n \in 1 .. Cardinality(S)
       PROVE  list[n] \in S /\ place[list[n]] = n
  <2>1. PICK x \in S : place[x] = n
    BY <1>13
  <2>2. list[n] \in S /\ Cardinality(Ahead(list[n])) + 1 = n
    BY <1>4, <1>15, <2>1
  <2>3. QED
    BY <1>4, <2>2
<1>16. list \in [1 .. Cardinality(S) -> S]
  BY <1>14
<1>17. ASSUME NEW x \in S PROVE \E n \in 1 .. Cardinality(S) : list[n] = x
  <2>1. place[x] \in 1 .. Cardinality(S)
    BY <1>5
  <2>2. list[place[x]] \in S /\ place[list[place[x]]] = place[x]
    BY <1>14, <2>1
  <2>3. list[place[x]] = x
    BY <1>8, <2>2
  <2>4. QED
    BY <2>1, <2>3
<1>18. \A m, n \in 1 .. Cardinality(S) : m < n <=> <<list[m], list[n]>> \in R
  <2> SUFFICES ASSUME NEW m \in 1 .. Cardinality(S), NEW n \in 1 .. Cardinality(S)
               PROVE  m < n <=> <<list[m], list[n]>> \in R
    OBVIOUS
  <2>1. list[m] \in S /\ place[list[m]] = m /\ list[n] \in S /\ place[list[n]] = n
    BY <1>14
  <2>2. place[list[m]] < place[list[n]] <=> <<list[m], list[n]>> \in R
    BY <1>7, <1>9, <2>1
  <2>3. QED
    BY <2>1, <2>2
<1>19. \A m, n \in 1 .. Cardinality(S) : list[m] = list[n] => m = n
  BY <1>14
<1>20. QED
  BY <1>1, <1>16, <1>17, <1>18, <1>19

\* A function on the first numbers is a list of as many.
LEMMA FunctionsAreLists ==
  ASSUME NEW S, NEW n \in Nat, NEW list \in [1 .. n -> S]
  PROVE  list \in Seq(S) /\ Len(list) = n /\ DOMAIN list = 1 .. n
<1>1. list \in Seq(S)
  BY SeqDef
<1>2. Len(list) \in Nat /\ DOMAIN list = 1 .. Len(list)
  BY <1>1, LenProperties
<1>3. 1 .. Len(list) = 1 .. n
  BY <1>2
<1>4. Len(list) = n
  <2>1. Len(list) \in 1 .. n \/ Len(list) = 0
    BY <1>2, <1>3
  <2>2. n \in 1 .. Len(list) \/ n = 0
    BY <1>3
  <2>3. QED
    BY <1>2, <2>1, <2>2
<1>5. QED
  BY <1>1, <1>4

\* The first so many of a list
LEMMA FirstOnes ==
  ASSUME NEW S, NEW list \in Seq(S), NEW k \in Nat, k <= Len(list)
  PROVE  /\ SubSeq(list, 1, k) \in Seq(S) /\ Len(SubSeq(list, 1, k)) = k
         /\ \A n \in 1 .. k : SubSeq(list, 1, k)[n] = list[n]
<1>1. \A n \in 1 .. k : list[n] \in S
  BY ElementOfSeq
<1>2. /\ SubSeq(list, 1, k) \in Seq(S)
      /\ Len(SubSeq(list, 1, k)) = IF 1 <= k THEN k - 1 + 1 ELSE 0
      /\ \A n \in 1 .. k - 1 + 1 : SubSeq(list, 1, k)[n] = list[1 + n - 1]
  BY <1>1, SubSeqProperties
<1>3. QED
  BY <1>2

-----------------------------------------------------------------------------
(* Memory: the inductive invariant *)

MemoryShape ==
    /\ memoryTime \in Nat
    /\ memory \in [MemoryIds -> {{}} \cup {{row} : row \in Rows}]
    /\ suggestion \in [SummaryRuns ->
           [status : {"none", "pending", "accepted", "dismissed", "expired"}, text : SUBSET Texts,
            expires : Nat, row : SUBSET MemoryIds]]
    /\ saved \in [SummaryRuns -> SUBSET (Nat \X Texts \X MemoryIds)]
    /\ guarded \subseteq MemoryIds \X Rows

\* A summary is saved when it is accepted, and is only kept while it is pending.
SummaryInv(run) ==
    /\ suggestion[run].status # "accepted" => saved[run] = {}
    /\ suggestion[run].status = "accepted" =>
          \E s \in Nat \X Texts \X MemoryIds :
              saved[run] = {s} /\ s[1] < suggestion[run].expires /\ s[3] \in suggestion[run].row
    /\ suggestion[run].status # "pending" => suggestion[run].text = {}

\* A row that was created protected is there, and is protected.
GuardInv == \A g \in guarded : memory[g[1]] = {g[2]} /\ g[2].retention = "protected"

MemoryInv == MemoryShape /\ (\A run \in SummaryRuns : SummaryInv(run)) /\ GuardInv

LEMMA MemoryStarts == MemoryInit => MemoryInv
<1> SUFFICES ASSUME MemoryInit PROVE MemoryInv
  OBVIOUS
<1>1. \A run \in SummaryRuns : suggestion[run] = NoSuggestion /\ saved[run] = {}
  BY DEF MemoryInit
<1>2. MemoryShape
  BY DEF MemoryInit, MemoryShape, NoSuggestion
<1>3. \A run \in SummaryRuns : SummaryInv(run)
  BY <1>1 DEF SummaryInv, NoSuggestion
<1>4. GuardInv
  BY DEF MemoryInit, GuardInv
<1>5. QED
  BY <1>2, <1>3, <1>4 DEF MemoryInv

\* What has expired is blank and has not been saved.
LEMMA ExpirySettles ==
  ASSUME MemoryInv
  PROVE  /\ AfterExpiry \in [SummaryRuns ->
               [status : {"none", "pending", "accepted", "dismissed", "expired"}, text : SUBSET Texts,
                expires : Nat, row : SUBSET MemoryIds]]
         /\ \A run \in SummaryRuns :
               /\ AfterExpiry[run].status # "accepted" => saved[run] = {}
               /\ AfterExpiry[run].status = "accepted" => AfterExpiry[run] = suggestion[run]
               /\ AfterExpiry[run].status # "pending" => AfterExpiry[run].text = {}
<1>1. \A run \in SummaryRuns : Blank(run, "expired") \in
          [status : {"none", "pending", "accepted", "dismissed", "expired"}, text : SUBSET Texts,
           expires : Nat, row : SUBSET MemoryIds]
  BY DEF MemoryInv, MemoryShape, Blank
<1>2. \A run \in SummaryRuns : Blank(run, "expired").status = "expired" /\ Blank(run, "expired").text = {}
  BY DEF MemoryInv, MemoryShape, Blank
<1>3. \A run \in SummaryRuns : AfterExpiry[run] = IF Expired(run) THEN Blank(run, "expired") ELSE suggestion[run]
  BY DEF AfterExpiry
<1>4. \A run \in SummaryRuns : AfterExpiry[run] \in
          [status : {"none", "pending", "accepted", "dismissed", "expired"}, text : SUBSET Texts,
           expires : Nat, row : SUBSET MemoryIds]
  BY <1>1, <1>3 DEF MemoryInv, MemoryShape
<1>5. AfterExpiry \in [SummaryRuns ->
          [status : {"none", "pending", "accepted", "dismissed", "expired"}, text : SUBSET Texts,
           expires : Nat, row : SUBSET MemoryIds]]
  BY <1>4 DEF AfterExpiry
<1>6. \A run \in SummaryRuns :
          /\ AfterExpiry[run].status # "accepted" => saved[run] = {}
          /\ AfterExpiry[run].status = "accepted" => AfterExpiry[run] = suggestion[run]
          /\ AfterExpiry[run].status # "pending" => AfterExpiry[run].text = {}
  BY <1>2, <1>3 DEF MemoryInv, SummaryInv, Expired
<1>7. QED
  BY <1>5, <1>6

\* A step that leaves the rows of memory and their history alone keeps what is
\* protected.
LEMMA GuardStands ==
  ASSUME MemoryInv, UNCHANGED <<memory, guarded>>
  PROVE  GuardInv'
BY DEF MemoryInv, GuardInv

\* A step that leaves the suggestions and their history alone keeps what is saved.
LEMMA SummariesStand ==
  ASSUME MemoryInv, UNCHANGED <<suggestion, saved>>
  PROVE  \A run \in SummaryRuns : SummaryInv(run)'
BY DEF MemoryInv, SummaryInv

LEMMA OfferKeeps ==
  ASSUME MemoryInv, NEW run \in SummaryRuns, OfferSuggestion(run)
  PROVE  MemoryInv'
<1>1. PICK t \in Texts :
          suggestion' = [suggestion EXCEPT ![run] =
              [status |-> "pending", text |-> {t}, expires |-> memoryTime + SuggestionTtl, row |-> {}]]
  BY DEF OfferSuggestion
<1>2. UNCHANGED <<memoryTime, memory, pageOf, saved, guarded, memoryChanges>>
         /\ suggestion[run].status = "none"
  BY DEF OfferSuggestion
<1>3. memoryTime + SuggestionTtl \in Nat
  BY MemoryAssumption DEF MemoryInv, MemoryShape
<1>4. MemoryShape'
  BY <1>1, <1>2, <1>3 DEF MemoryInv, MemoryShape
<1>5. ASSUME NEW r \in SummaryRuns PROVE SummaryInv(r)'
  <2>1. CASE r = run
    BY <1>1, <1>2, <2>1 DEF MemoryInv, MemoryShape, SummaryInv
  <2>2. CASE r # run
    <3>1. suggestion'[r] = suggestion[r]
      BY <1>1, <2>2 DEF MemoryInv, MemoryShape
    <3>2. QED
      BY <1>2, <3>1 DEF MemoryInv, SummaryInv
  <2>3. QED
    BY <2>1, <2>2
<1>6. QED
  BY <1>2, <1>4, <1>5, GuardStands DEF MemoryInv

LEMMA ReadSuggestionsKeeps == MemoryInv /\ ReadSuggestions => MemoryInv'
<1> SUFFICES ASSUME MemoryInv, ReadSuggestions PROVE MemoryInv'
  OBVIOUS
<1>1. suggestion' = AfterExpiry /\ UNCHANGED <<memoryTime, memory, pageOf, saved, guarded, memoryChanges>>
  BY DEF ReadSuggestions
<1>2. MemoryShape'
  BY <1>1, ExpirySettles DEF MemoryInv, MemoryShape
<1>3. \A r \in SummaryRuns : SummaryInv(r)'
  BY <1>1, ExpirySettles DEF MemoryInv, SummaryInv
<1>4. QED
  BY <1>1, <1>2, <1>3, GuardStands DEF MemoryInv

LEMMA AcceptKeeps ==
  ASSUME MemoryInv, NEW run \in SummaryRuns, AcceptSuggestion(run)
  PROVE  MemoryInv'
<1>1. PICK id \in MemoryIds :
          /\ memory[id] = {}
          /\ \E t \in suggestion[run].text :
                 /\ memory' = [memory EXCEPT ![id] =
                        {[text |-> t, retention |-> "session", expires |-> 0, sources |-> {}]}]
                 /\ saved' = [saved EXCEPT ![run] = @ \cup {<<memoryTime, t, id>>}]
          /\ suggestion' = [AfterExpiry EXCEPT ![run] = [Blank(run, "accepted") EXCEPT !.row = {id}]]
  BY DEF AcceptSuggestion
<1>2. PICK t \in suggestion[run].text :
          /\ memory' = [memory EXCEPT ![id] =
                 {[text |-> t, retention |-> "session", expires |-> 0, sources |-> {}]}]
          /\ saved' = [saved EXCEPT ![run] = @ \cup {<<memoryTime, t, id>>}]
  BY <1>1
<1>3. /\ suggestion[run].status = "pending"
      /\ memoryTime < suggestion[run].expires
      /\ UNCHANGED <<memoryTime, pageOf, guarded, memoryChanges>>
  BY DEF AcceptSuggestion, PendingNow, Expired, MemoryInv, MemoryShape
<1>4. t \in Texts /\ <<memoryTime, t, id>> \in Nat \X Texts \X MemoryIds
  BY DEF MemoryInv, MemoryShape
<1>5. saved[run] = {}
  BY <1>3 DEF MemoryInv, SummaryInv
<1>6. saved'[run] = {<<memoryTime, t, id>>}
  BY <1>2, <1>5 DEF MemoryInv, MemoryShape
<1> DEFINE accepted == [Blank(run, "accepted") EXCEPT !.row = {id}]
<1>7. /\ accepted \in [status : {"none", "pending", "accepted", "dismissed", "expired"}, text : SUBSET Texts,
                       expires : Nat, row : SUBSET MemoryIds]
      /\ accepted.status = "accepted" /\ accepted.text = {} /\ accepted.row = {id}
      /\ accepted.expires = suggestion[run].expires
  BY DEF Blank, MemoryInv, MemoryShape
<1>8. suggestion' = [AfterExpiry EXCEPT ![run] = accepted]
  BY <1>1
<1> HIDE DEF accepted
<1>9. MemoryShape'
  <2>1. [text |-> t, retention |-> "session", expires |-> 0, sources |-> {}] \in Rows
    BY <1>4, MemoryAssumption DEF Rows, Retentions
  <2>2. memory' \in [MemoryIds -> {{}} \cup {{row} : row \in Rows}]
    BY <1>2, <2>1 DEF MemoryInv, MemoryShape
  <2>3. suggestion' \in [SummaryRuns ->
            [status : {"none", "pending", "accepted", "dismissed", "expired"}, text : SUBSET Texts,
             expires : Nat, row : SUBSET MemoryIds]]
    BY <1>7, <1>8, ExpirySettles
  <2>4. saved' \in [SummaryRuns -> SUBSET (Nat \X Texts \X MemoryIds)]
    <3>1. saved[run] \cup {<<memoryTime, t, id>>} \in SUBSET (Nat \X Texts \X MemoryIds)
      BY <1>4 DEF MemoryInv, MemoryShape
    <3>2. QED
      BY <1>2, <3>1 DEF MemoryInv, MemoryShape
  <2>5. QED
    BY <1>3, <2>2, <2>3, <2>4 DEF MemoryInv, MemoryShape
<1>10. ASSUME NEW r \in SummaryRuns PROVE SummaryInv(r)'
  <2>1. CASE r = run
    <3>1. suggestion'[r] = accepted
      BY <1>8, <2>1, ExpirySettles
    <3>2. PICK s \in Nat \X Texts \X MemoryIds : s = <<memoryTime, t, id>>
      BY <1>4
    <3>3. s[1] < suggestion'[r].expires /\ s[3] \in suggestion'[r].row
      BY <1>3, <1>7, <3>1, <3>2
    <3>4. saved'[r] = {s}
      BY <1>6, <2>1, <3>2
    <3>5. QED
      BY <1>7, <3>1, <3>3, <3>4 DEF SummaryInv
  <2>2. CASE r # run
    <3>1. suggestion'[r] = AfterExpiry[r] /\ saved'[r] = saved[r]
      BY <1>2, <1>8, <2>2, ExpirySettles DEF MemoryInv, MemoryShape
    <3>2. QED
      BY <3>1, ExpirySettles DEF MemoryInv, SummaryInv
  <2>3. QED
    BY <2>1, <2>2
<1>11. GuardInv'
  <2> SUFFICES ASSUME NEW g \in guarded
               PROVE  memory'[g[1]] = {g[2]} /\ g[2].retention = "protected"
    BY <1>3 DEF GuardInv
  <2>1. memory[g[1]] = {g[2]} /\ g[2].retention = "protected" /\ g[1] \in MemoryIds
    BY DEF MemoryInv, MemoryShape, GuardInv
  <2>2. QED
    BY <1>1, <1>2, <2>1 DEF MemoryInv, MemoryShape
<1>12. QED
  BY <1>9, <1>10, <1>11 DEF MemoryInv

LEMMA DismissKeeps ==
  ASSUME MemoryInv, NEW run \in SummaryRuns, DismissSuggestion(run)
  PROVE  MemoryInv'
<1>1. UNCHANGED <<memoryTime, memory, pageOf, saved, guarded, memoryChanges>>
  BY DEF DismissSuggestion
<1>2. /\ Blank(run, "dismissed") \in
             [status : {"none", "pending", "accepted", "dismissed", "expired"}, text : SUBSET Texts,
              expires : Nat, row : SUBSET MemoryIds]
      /\ Blank(run, "dismissed").status = "dismissed" /\ Blank(run, "dismissed").text = {}
  BY DEF Blank, MemoryInv, MemoryShape
<1>3. CASE ~PendingNow(run)
  <2>1. suggestion' = AfterExpiry
    BY <1>3 DEF DismissSuggestion
  <2>2. MemoryShape'
    BY <1>1, <2>1, ExpirySettles DEF MemoryInv, MemoryShape
  <2>3. \A r \in SummaryRuns : SummaryInv(r)'
    BY <1>1, <2>1, ExpirySettles DEF MemoryInv, SummaryInv
  <2>4. QED
    BY <1>1, <2>2, <2>3, GuardStands DEF MemoryInv
<1>4. CASE PendingNow(run)
  <2>1. suggestion' = [AfterExpiry EXCEPT ![run] = Blank(run, "dismissed")]
    BY <1>4 DEF DismissSuggestion
  <2>2. MemoryShape'
    BY <1>1, <1>2, <2>1, ExpirySettles DEF MemoryInv, MemoryShape
  <2>3. saved[run] = {}
    BY <1>4 DEF MemoryInv, SummaryInv, PendingNow
  <2>4. ASSUME NEW r \in SummaryRuns PROVE SummaryInv(r)'
    <3>1. suggestion'[r] = IF r = run THEN Blank(run, "dismissed") ELSE AfterExpiry[r]
      BY <2>1, ExpirySettles
    <3>2. QED
      BY <1>1, <1>2, <2>3, <3>1, ExpirySettles DEF MemoryInv, SummaryInv
  <2>5. QED
    BY <1>1, <2>2, <2>4, GuardStands DEF MemoryInv
<1>5. QED
  BY <1>3, <1>4

\* A step over the rows: it keeps their shape, and every protected row as it was.
LEMMA RowsKeep ==
  ASSUME MemoryInv, UNCHANGED <<memoryTime, suggestion, saved, guarded>>,
         memory' \in [MemoryIds -> {{}} \cup {{row} : row \in Rows}],
         \A id \in MemoryIds, row \in Rows :
             memory[id] = {row} /\ row.retention = "protected" => memory'[id] = memory[id]
  PROVE  MemoryInv'
<1>1. MemoryShape'
  BY DEF MemoryInv, MemoryShape
<1>2. \A r \in SummaryRuns : SummaryInv(r)'
  BY SummariesStand
<1>3. GuardInv'
  BY DEF MemoryInv, MemoryShape, GuardInv
<1>4. QED
  BY <1>1, <1>2, <1>3 DEF MemoryInv

LEMMA CreateKeeps ==
  ASSUME MemoryInv, NEW id \in MemoryIds, CreateMemory(id)
  PROVE  MemoryInv'
<1>1. PICK row \in Rows :
          /\ memory' = [memory EXCEPT ![id] = {row}]
          /\ guarded' = IF row.retention = "protected" THEN guarded \cup {<<id, row>>} ELSE guarded
  BY DEF CreateMemory
<1>2. memory[id] = {} /\ UNCHANGED <<memoryTime, suggestion, pageOf, saved>>
  BY DEF CreateMemory
<1>3. MemoryShape'
  BY <1>1, <1>2 DEF MemoryInv, MemoryShape
<1>4. \A r \in SummaryRuns : SummaryInv(r)'
  BY <1>2, SummariesStand
<1>5. GuardInv'
  <2> SUFFICES ASSUME NEW g \in guarded'
               PROVE  memory'[g[1]] = {g[2]} /\ g[2].retention = "protected"
    BY DEF GuardInv
  <2>1. CASE g \in guarded
    <3>1. memory[g[1]] = {g[2]} /\ g[2].retention = "protected" /\ g[1] \in MemoryIds
      BY <2>1 DEF MemoryInv, MemoryShape, GuardInv
    <3>2. QED
      BY <1>1, <1>2, <3>1 DEF MemoryInv, MemoryShape
  <2>2. CASE g \notin guarded
    <3>1. g = <<id, row>> /\ row.retention = "protected"
      BY <1>1, <2>2
    <3>2. QED
      BY <1>1, <3>1 DEF MemoryInv, MemoryShape
  <2>3. QED
    BY <2>1, <2>2
<1>6. QED
  BY <1>3, <1>4, <1>5 DEF MemoryInv

LEMMA ListMemoryKeeps ==
  ASSUME MemoryInv, NEW client \in MemoryClients, ListMemory(client)
  PROVE  MemoryInv'
<1>1. /\ memory' = [id \in MemoryIds |-> IF Outlived(id) THEN {} ELSE memory[id]]
      /\ UNCHANGED <<memoryTime, suggestion, saved, guarded>>
  BY DEF ListMemory
<1>2. memory' \in [MemoryIds -> {{}} \cup {{row} : row \in Rows}]
  BY <1>1 DEF MemoryInv, MemoryShape
<1>3. \A id \in MemoryIds, row \in Rows :
          memory[id] = {row} /\ row.retention = "protected" => memory'[id] = memory[id]
  BY <1>1 DEF Outlived
<1>4. QED
  BY <1>1, <1>2, <1>3, RowsKeep

LEMMA CorrectKeeps ==
  ASSUME MemoryInv, NEW client \in MemoryClients, NEW id \in MemoryIds, CorrectMemory(client, id)
  PROVE  MemoryInv'
<1>1. PICK t \in Texts : memory' = [memory EXCEPT ![id] = {[row EXCEPT !.text = t] : row \in @}]
  BY DEF CorrectMemory
<1>2. Removable(id) /\ UNCHANGED <<memoryTime, suggestion, saved, guarded>>
  BY DEF CorrectMemory, AsRead
<1>3. PICK row \in Rows : memory[id] = {row} /\ row.retention # "protected"
  BY <1>2 DEF Removable, MemoryInv, MemoryShape
<1>4. [row EXCEPT !.text = t] \in Rows
  BY DEF Rows
<1>5. memory' = [memory EXCEPT ![id] = {[row EXCEPT !.text = t]}]
  BY <1>1, <1>3
<1>6. memory' \in [MemoryIds -> {{}} \cup {{rw} : rw \in Rows}]
  BY <1>4, <1>5 DEF MemoryInv, MemoryShape
<1>7. \A other \in MemoryIds, rw \in Rows :
          memory[other] = {rw} /\ rw.retention = "protected" => memory'[other] = memory[other]
  BY <1>3, <1>5 DEF MemoryInv, MemoryShape
<1>8. QED
  BY <1>2, <1>6, <1>7, RowsKeep

LEMMA DeleteKeeps ==
  ASSUME MemoryInv, NEW client \in MemoryClients, NEW id \in MemoryIds, DeleteMemory(client, id)
  PROVE  MemoryInv'
<1>1. memory' = [memory EXCEPT ![id] = {}]
  BY DEF DeleteMemory
<1>2. Removable(id) /\ UNCHANGED <<memoryTime, suggestion, saved, guarded>>
  BY DEF DeleteMemory, AsRead
<1>3. memory' \in [MemoryIds -> {{}} \cup {{row} : row \in Rows}]
  BY <1>1 DEF MemoryInv, MemoryShape
<1>4. \A other \in MemoryIds, row \in Rows :
          memory[other] = {row} /\ row.retention = "protected" => memory'[other] = memory[other]
  BY <1>1, <1>2 DEF Removable, MemoryInv, MemoryShape
<1>5. QED
  BY <1>2, <1>3, <1>4, RowsKeep

LEMMA PurgeKeeps ==
  ASSUME MemoryInv, PurgeSource
  PROVE  MemoryInv'
<1>1. /\ memory' = [id \in MemoryIds |->
             IF Removable(id) THEN {row \in memory[id] : MemorySource \notin row.sources} ELSE memory[id]]
      /\ UNCHANGED <<memoryTime, suggestion, saved, guarded>>
  BY DEF PurgeSource
<1>2. ASSUME NEW id \in MemoryIds
      PROVE  memory'[id] \in {{}} \cup {{row} : row \in Rows}
  <2>1. CASE memory[id] = {}
    BY <1>1, <2>1
  <2>2. CASE \E row \in Rows : memory[id] = {row}
    <3>1. PICK row \in Rows : memory[id] = {row}
      BY <2>2
    <3>2. memory'[id] = {} \/ memory'[id] = {row}
      BY <1>1, <3>1
    <3>3. QED
      BY <3>2
  <2>3. QED
    BY <2>1, <2>2 DEF MemoryInv, MemoryShape
<1>3. memory' \in [MemoryIds -> {{}} \cup {{row} : row \in Rows}]
  BY <1>1, <1>2
<1>4. \A id \in MemoryIds, row \in Rows :
          memory[id] = {row} /\ row.retention = "protected" => memory'[id] = memory[id]
  BY <1>1 DEF Removable
<1>5. QED
  BY <1>1, <1>3, <1>4, RowsKeep

LEMMA MemoryKeeps ==
  ASSUME MemoryInv, [MemoryNext]_memoryVars
  PROVE  MemoryInv'
<1>1. CASE UNCHANGED memoryVars
  <2>1. UNCHANGED <<memoryTime, suggestion, saved, guarded, memory>>
    BY <1>1 DEF memoryVars
  <2>2. memory' \in [MemoryIds -> {{}} \cup {{row} : row \in Rows}]
    BY <2>1 DEF MemoryInv, MemoryShape
  <2>3. QED
    BY <2>1, <2>2, RowsKeep
<1>2. CASE MemoryTick
  <2>1. memoryTime' = memoryTime + 1 /\ UNCHANGED <<memory, suggestion, saved, guarded>>
    BY <1>2 DEF MemoryTick
  <2>2. MemoryShape'
    BY <2>1 DEF MemoryInv, MemoryShape
  <2>3. QED
    BY <2>1, <2>2, SummariesStand, GuardStands DEF MemoryInv
<1>3. CASE ReadSuggestions
  BY <1>3, ReadSuggestionsKeeps
<1>4. CASE PurgeSource
  BY <1>4, PurgeKeeps
<1>5. ASSUME NEW run \in SummaryRuns,
             OfferSuggestion(run) \/ AcceptSuggestion(run) \/ DismissSuggestion(run)
      PROVE  MemoryInv'
  BY <1>5, OfferKeeps, AcceptKeeps, DismissKeeps
<1>6. ASSUME NEW id \in MemoryIds, CreateMemory(id) PROVE MemoryInv'
  BY <1>6, CreateKeeps
<1>7. ASSUME NEW client \in MemoryClients, ListMemory(client) PROVE MemoryInv'
  BY <1>7, ListMemoryKeeps
<1>8. ASSUME NEW client \in MemoryClients, NEW id \in MemoryIds,
             CorrectMemory(client, id) \/ DeleteMemory(client, id)
      PROVE  MemoryInv'
  BY <1>8, CorrectKeeps, DeleteKeeps
<1>9. QED
  BY <1>1, <1>2, <1>3, <1>4, <1>5, <1>6, <1>7, <1>8 DEF MemoryNext

LEMMA MemoryIsSound == MemoryInv => SummaryIsSavedOnce /\ ProtectedIsKept
<1> SUFFICES ASSUME MemoryInv PROVE SummaryIsSavedOnce /\ ProtectedIsKept
  OBVIOUS
<1>1. ASSUME NEW run \in SummaryRuns
      PROVE  /\ Cardinality(saved[run]) <= 1 /\ (saved[run] # {} <=> suggestion[run].status = "accepted")
             /\ \A s \in saved[run] : s[1] < suggestion[run].expires /\ s[3] \in suggestion[run].row
             /\ suggestion[run].status # "pending" => suggestion[run].text = {}
  <2>1. SummaryInv(run)
    BY DEF MemoryInv
  <2>2. CASE suggestion[run].status # "accepted"
    BY <2>1, <2>2, FS_EmptySet DEF SummaryInv
  <2>3. CASE suggestion[run].status = "accepted"
    <3>1. PICK s \in Nat \X Texts \X MemoryIds :
              saved[run] = {s} /\ s[1] < suggestion[run].expires /\ s[3] \in suggestion[run].row
      BY <2>1, <2>3 DEF SummaryInv
    <3>2. Cardinality(saved[run]) = 1
      BY <3>1, FS_Singleton
    <3>3. suggestion[run].status # "pending" => suggestion[run].text = {}
      BY <2>1 DEF SummaryInv
    <3>4. QED
      BY <2>3, <3>1, <3>2, <3>3
  <2>4. QED
    BY <2>2, <2>3
<1>2. SummaryIsSavedOnce
  BY <1>1 DEF SummaryIsSavedOnce
<1>3. ProtectedIsKept
  BY DEF MemoryInv, GuardInv, ProtectedIsKept
<1>4. QED
  BY <1>2, <1>3

-----------------------------------------------------------------------------
(* The Radar: the inductive invariant *)

RadarRows == [state : RadarStates, at : Nat]
Refreshings == [step : {"idle", "fetching", "writing", "pruning"}, at : Nat,
                got : SUBSET Items, answered : SUBSET Lanes]

\* An item has a row at most, and one that is decided has it, in that state.
RadarInv ==
    /\ radarTime \in Nat /\ sources \subseteq Lanes
    /\ radar \in [Items -> {{}} \cup {{row} : row \in RadarRows}]
    /\ refresh \in [Refreshers -> Refreshings]
    /\ decision \in [Items -> RadarStates]
    /\ DecisionsSurviveRefresh

LEMMA RadarStarts == RadarInit => RadarInv
<1> SUFFICES ASSUME RadarInit PROVE RadarInv
  OBVIOUS
<1>1. Resting \in Refreshings
  BY DEF Resting, Refreshings
<1>2. DecisionsSurviveRefresh
  BY DEF RadarInit, DecisionsSurviveRefresh
<1>3. QED
  BY <1>1, <1>2 DEF RadarInit, RadarInv, RadarStates

\* What a step of a refresh leaves of an item is nothing, if nothing was decided, or a
\* row in the state it had.
LEMMA RefreshKeeps ==
  ASSUME RadarInv, UNCHANGED <<radarTime, sources, decision>>,
         radar' \in [Items -> {{}} \cup {{row} : row \in RadarRows}],
         refresh' \in [Refreshers -> Refreshings],
         \A item \in Items : decision[item] # "new" =>
             \A row \in radar[item] : row.state = decision[item] =>
                 \E kept \in radar'[item] : kept.state = row.state
  PROVE  RadarInv'
<1>1. DecisionsSurviveRefresh'
  BY DEF RadarInv, DecisionsSurviveRefresh
<1>2. QED
  BY <1>1 DEF RadarInv

LEMMA DecideKeeps ==
  ASSUME RadarInv, NEW item \in Items, DecideItem(item)
  PROVE  RadarInv'
<1>1. PICK st \in RadarStates \ {"new"} :
          /\ radar' = [radar EXCEPT ![item] = {[state |-> st, at |-> radarTime]}]
          /\ decision' = [decision EXCEPT ![item] = st]
  BY DEF DecideItem
<1>2. UNCHANGED <<radarTime, sources, refresh>>
  BY DEF DecideItem
<1>3. [state |-> st, at |-> radarTime] \in RadarRows
  BY DEF RadarInv, RadarRows
<1>4. radar' \in [Items -> {{}} \cup {{row} : row \in RadarRows}]
  BY <1>1, <1>3 DEF RadarInv
<1>5. decision' \in [Items -> RadarStates]
  BY <1>1 DEF RadarInv
<1>6. ASSUME NEW other \in Items, decision'[other] # "new"
      PROVE  \E row \in radar'[other] : row.state = decision'[other]
  <2>1. CASE other = item
    BY <1>1, <2>1 DEF RadarInv
  <2>2. CASE other # item
    BY <1>1, <1>6, <2>2 DEF RadarInv, DecisionsSurviveRefresh
  <2>3. QED
    BY <2>1, <2>2
<1>7. QED
  BY <1>2, <1>4, <1>5, <1>6 DEF RadarInv, DecisionsSurviveRefresh

\* The state of a refresh that asks, or that has answers.
LEMMA RefreshTyped ==
  ASSUME RadarInv, NEW r \in Refreshers,
         NEW state \in Refreshings,
         Becomes(r, state)
  PROVE  refresh' \in [Refreshers -> Refreshings]
BY DEF RadarInv, Becomes

LEMMA FetchingKeeps ==
  ASSUME RadarInv, NEW r \in Refreshers,
         FetchFails(r) \/ Fetch(r) \/ EndRefresh(r) \/ InterruptRefresh(r)
  PROVE  RadarInv'
<1>1. UNCHANGED <<radarTime, sources, radar, decision>>
  BY DEF FetchFails, Fetch, EndRefresh, InterruptRefresh
<1>2. Resting \in Refreshings
  BY DEF Resting, Refreshings
<1>3. refresh' \in [Refreshers -> Refreshings]
  <2>1. CASE Becomes(r, Resting)
    BY <1>2, <2>1, RefreshTyped
  <2>2. CASE Fetch(r)
    <3>1. PICK answered \in {refresh[r].answered, refresh[r].answered \ {"x"}} \ {{}} :
              \E got \in SUBSET {item \in Items : LaneOf[item] \in answered} :
                  Becomes(r, [refresh[r] EXCEPT !.step = "writing", !.got = got, !.answered = answered])
      BY <2>2 DEF Fetch
    <3>2. PICK got \in SUBSET {item \in Items : LaneOf[item] \in answered} :
              Becomes(r, [refresh[r] EXCEPT !.step = "writing", !.got = got, !.answered = answered])
      BY <3>1
    <3>3. [refresh[r] EXCEPT !.step = "writing", !.got = got, !.answered = answered] \in Refreshings
      BY DEF RadarInv, Refreshings
    <3>4. QED
      BY <3>2, <3>3, RefreshTyped
  <2>3. QED
    BY <2>1, <2>2 DEF FetchFails, EndRefresh, InterruptRefresh
<1>4. QED
  BY <1>1, <1>3, RefreshKeeps DEF RadarInv

LEMMA BeginRefreshKeeps ==
  ASSUME RadarInv, NEW r \in Refreshers, BeginRefresh(r)
  PROVE  RadarInv'
<1> DEFINE begun == [step |-> "fetching", at |-> radarTime, got |-> {},
                     answered |-> IF r = Scheduler THEN {"x"} ELSE sources]
<1>1. Becomes(r, begun) /\ UNCHANGED <<radarTime, sources, radar, decision>>
  BY DEF BeginRefresh
<1>2. begun \in Refreshings
  BY DEF RadarInv, Lanes, Refreshings
<1>3. refresh' \in [Refreshers -> Refreshings]
  BY <1>1, <1>2, RefreshTyped
<1>4. QED
  BY <1>1, <1>3, RefreshKeeps DEF RadarInv

LEMMA WriteItemKeeps ==
  ASSUME RadarInv, NEW r \in Refreshers, WriteItem(r)
  PROVE  RadarInv'
<1>1. UNCHANGED <<radarTime, sources, decision>>
  BY DEF WriteItem
<1>2. CASE \E item \in refresh[r].got :
              /\ radar' = [radar EXCEPT ![item] = Upserted(item, refresh[r].at)]
              /\ Becomes(r, [refresh[r] EXCEPT !.got = @ \ {item}])
  <2>1. PICK item \in refresh[r].got :
              /\ radar' = [radar EXCEPT ![item] = Upserted(item, refresh[r].at)]
              /\ Becomes(r, [refresh[r] EXCEPT !.got = @ \ {item}])
    BY <1>2
  <2>2. refresh[r] \in Refreshings
    BY DEF RadarInv
  <2>3. item \in Items /\ refresh[r].at \in Nat
    BY <2>2 DEF Refreshings
  <2>4. [refresh[r] EXCEPT !.got = @ \ {item}] \in Refreshings
    BY <2>2 DEF Refreshings
  <2>5. refresh' \in [Refreshers -> Refreshings]
    BY <2>1, <2>4, RefreshTyped
  <2>6. /\ Upserted(item, refresh[r].at) \in {{}} \cup {{row} : row \in RadarRows}
        /\ \A row \in radar[item] : \E kept \in Upserted(item, refresh[r].at) : kept.state = row.state
    <3>1. CASE radar[item] = {}
      <4>1. [state |-> "new", at |-> refresh[r].at] \in RadarRows
        BY <2>3 DEF RadarRows, RadarStates
      <4>2. QED
        BY <3>1, <4>1 DEF Upserted
    <3>2. CASE radar[item] # {}
      <4>1. PICK row \in RadarRows : radar[item] = {row}
        BY <2>3, <3>2 DEF RadarInv
      <4>2. [row EXCEPT !.at = refresh[r].at] \in RadarRows
            /\ [row EXCEPT !.at = refresh[r].at].state = row.state
        BY <2>3 DEF RadarRows
      <4>3. Upserted(item, refresh[r].at) = {[row EXCEPT !.at = refresh[r].at]}
        BY <3>2, <4>1 DEF Upserted
      <4>4. QED
        BY <4>1, <4>2, <4>3
    <3>3. QED
      BY <3>1, <3>2
  <2>7. radar' \in [Items -> {{}} \cup {{row} : row \in RadarRows}]
    BY <2>1, <2>3, <2>6 DEF RadarInv
  <2>8. \A other \in Items : \A row \in radar[other] :
            \E kept \in radar'[other] : kept.state = row.state
    BY <2>1, <2>3, <2>6 DEF RadarInv
  <2>9. QED
    BY <1>1, <2>5, <2>7, <2>8, RefreshKeeps
<1>3. CASE Becomes(r, [refresh[r] EXCEPT !.step = "pruning"]) /\ UNCHANGED radar
  <2>1. [refresh[r] EXCEPT !.step = "pruning"] \in Refreshings
    BY DEF RadarInv, Refreshings
  <2>2. refresh' \in [Refreshers -> Refreshings]
    BY <1>3, <2>1, RefreshTyped
  <2>3. QED
    BY <1>1, <1>3, <2>2, RefreshKeeps DEF RadarInv
<1>4. QED
  BY <1>2, <1>3 DEF WriteItem

LEMMA PruneKeeps ==
  ASSUME RadarInv, NEW r \in Refreshers, PruneLane(r)
  PROVE  RadarInv'
<1>1. PICK lane \in refresh[r].answered :
          /\ radar' = [item \in Items |-> IF Stale(item, lane, refresh[r].at) THEN {} ELSE radar[item]]
          /\ Becomes(r, [refresh[r] EXCEPT !.answered = @ \ {lane}])
  BY DEF PruneLane
<1>2. UNCHANGED <<radarTime, sources, decision>>
  BY DEF PruneLane
<1>3. [refresh[r] EXCEPT !.answered = @ \ {lane}] \in Refreshings
  BY DEF RadarInv, Refreshings
<1>4. refresh' \in [Refreshers -> Refreshings]
  BY <1>1, <1>3, RefreshTyped
<1>5. radar' \in [Items -> {{}} \cup {{row} : row \in RadarRows}]
  BY <1>1 DEF RadarInv
<1>6. ASSUME NEW item \in Items, decision[item] # "new",
             NEW row \in radar[item], row.state = decision[item]
      PROVE  \E kept \in radar'[item] : kept.state = row.state
  <2>1. radar[item] = {row}
    BY DEF RadarInv
  <2>2. ~Stale(item, lane, refresh[r].at)
    BY <1>6, <2>1 DEF Stale
  <2>3. QED
    BY <1>1, <2>1, <2>2
<1>7. QED
  BY <1>2, <1>4, <1>5, <1>6, RefreshKeeps

LEMMA ScheduledKeeps ==
  ASSUME RadarInv, EndScheduled
  PROVE  RadarInv'
<1> DEFINE gone == {item \in Items : PostExpired(item, refresh[Scheduler].at)}
<1>1. /\ radar' = [item \in Items |-> IF item \in gone THEN {} ELSE radar[item]]
      /\ decision' = [item \in Items |-> IF item \in gone THEN "new" ELSE decision[item]]
      /\ Becomes(Scheduler, Resting) /\ UNCHANGED <<radarTime, sources>>
  BY DEF EndScheduled
<1> HIDE DEF gone
<1>2. Resting \in Refreshings
  BY DEF Resting, Refreshings
<1>3. refresh' \in [Refreshers -> Refreshings]
  BY <1>1, <1>2, RefreshTyped, RadarAssumption
<1>4. radar' \in [Items -> {{}} \cup {{row} : row \in RadarRows}]
  BY <1>1 DEF RadarInv
<1>5. decision' \in [Items -> RadarStates]
  BY <1>1 DEF RadarInv, RadarStates
<1>6. DecisionsSurviveRefresh'
  BY <1>1 DEF RadarInv, DecisionsSurviveRefresh
<1>7. QED
  BY <1>1, <1>3, <1>4, <1>5, <1>6 DEF RadarInv

LEMMA SkippedKeeps ==
  ASSUME RadarInv, PruneIsSkipped
  PROVE  RadarInv'
<1>1. /\ Becomes(Scheduler, [refresh[Scheduler] EXCEPT !.answered = {}])
      /\ UNCHANGED <<radarTime, sources, radar, decision>>
  BY DEF PruneIsSkipped
<1>2. [refresh[Scheduler] EXCEPT !.answered = {}] \in Refreshings
  BY RadarAssumption DEF RadarInv, Refreshings
<1>3. refresh' \in [Refreshers -> Refreshings]
  BY <1>1, <1>2, RefreshTyped, RadarAssumption
<1>4. QED
  BY <1>1, <1>3, RefreshKeeps DEF RadarInv

LEMMA RadarKeeps ==
  ASSUME RadarInv, [RadarNext]_radarVars
  PROVE  RadarInv'
<1>1. CASE UNCHANGED radarVars
  BY <1>1 DEF radarVars, RadarInv, DecisionsSurviveRefresh
<1>2. CASE RadarTick
  <2>1. radarTime' = radarTime + 1 /\ UNCHANGED <<sources, radar, refresh, decision>>
    BY <1>2 DEF RadarTick
  <2>2. QED
    BY <2>1 DEF RadarInv, DecisionsSurviveRefresh
<1>3. CASE ConfigureRadar
  <2>1. sources' \subseteq Lanes /\ UNCHANGED <<radarTime, radar, refresh, decision>>
    BY <1>3 DEF ConfigureRadar
  <2>2. QED
    BY <2>1 DEF RadarInv, DecisionsSurviveRefresh
<1>4. CASE EndScheduled
  BY <1>4, ScheduledKeeps
<1>5. CASE PruneIsSkipped
  BY <1>5, SkippedKeeps
<1>6. ASSUME NEW item \in Items, DecideItem(item) PROVE RadarInv'
  BY <1>6, DecideKeeps
<1>7. ASSUME NEW r \in Refreshers, BeginRefresh(r) PROVE RadarInv'
  BY <1>7, BeginRefreshKeeps
<1>8. ASSUME NEW r \in Refreshers, WriteItem(r) PROVE RadarInv'
  BY <1>8, WriteItemKeeps
<1>9. ASSUME NEW r \in Refreshers, PruneLane(r) PROVE RadarInv'
  BY <1>9, PruneKeeps
<1>10. ASSUME NEW r \in Refreshers,
              FetchFails(r) \/ Fetch(r) \/ EndRefresh(r) \/ InterruptRefresh(r)
       PROVE  RadarInv'
  BY <1>10, FetchingKeeps
<1>11. QED
  BY <1>1, <1>2, <1>3, <1>4, <1>5, <1>6, <1>7, <1>8, <1>9, <1>10 DEF RadarNext

-----------------------------------------------------------------------------
(* To-dos: the inductive invariant *)

TodoVersions == [done : BOOLEAN, origin : {"user", "model"}, updated : Nat, deleted : BOOLEAN]
OneTodo == {{}} \cup {{row} : row \in TodoVersions}
Askings ==
    {NoRequest}
        \cup [step : {"create"}, todo : TodoKeys, row : TodoVersions]
        \cup [step : {"update"}, todo : TodoKeys, base : TodoVersions, row : TodoVersions]

TodosShape ==
    /\ stamp \in Nat
    /\ todos \in [TodoKeys -> OneTodo]
    /\ known \in [TodoClients -> [TodoKeys -> OneTodo]]
    /\ asking \in [TodoClients -> Askings]

\* A version of a to-do that is stored, known, or what a request is about to replace
IsVersion(key, row) ==
    \/ row \in todos[key]
    \/ \E client \in TodoClients :
           \/ row \in known[client][key]
           \/ asking[client].step = "update" /\ asking[client].todo = key /\ row = asking[client].base

\* The time of a version is the clock's, and no two versions of a to-do have the same.
VersionsInv ==
    \A key \in TodoKeys : \A row \in TodoVersions : IsVersion(key, row) =>
        /\ row.updated <= stamp
        /\ \A other \in TodoVersions :
              IsVersion(key, other) /\ other.updated = row.updated => other = row

Pending(client) == asking[client].step # "idle"

\* Nor is the time of a row that is about to be written that of any version, or that of
\* another such row.
RequestsInv ==
    \A client \in TodoClients : Pending(client) =>
        /\ asking[client].row.updated <= stamp
        /\ \A row \in TodoVersions :
              IsVersion(asking[client].todo, row) => row.updated # asking[client].row.updated
        /\ \A other \in TodoClients :
              Pending(other) /\ asking[other].row.updated = asking[client].row.updated => other = client

TodosInv == TodosShape /\ VersionsInv /\ RequestsInv /\ NoEditIsLost

LEMMA TodosStart == TodosInit => TodosInv
<1> SUFFICES ASSUME TodosInit PROVE TodosInv
  OBVIOUS
<1>1. TodosShape
  BY DEF TodosInit, TodosShape, OneTodo, Askings
<1>2. \A client \in TodoClients : asking[client].step = "idle"
  BY DEF TodosInit, NoRequest
<1>3. VersionsInv
  BY <1>2 DEF TodosInit, VersionsInv, IsVersion
<1>4. RequestsInv
  BY <1>2 DEF RequestsInv, Pending
<1>5. NoEditIsLost
  BY DEF TodosInit, NoEditIsLost
<1>6. QED
  BY <1>1, <1>3, <1>4, <1>5 DEF TodosInv

\* What a request is, by its step
LEMMA AskingTyped ==
  ASSUME TodosShape, NEW client \in TodoClients
  PROVE  /\ asking[client].step \in {"idle", "create", "update"}
         /\ asking[client].step = "idle" => asking[client] = NoRequest
         /\ asking[client].step # "idle" =>
               asking[client].todo \in TodoKeys /\ asking[client].row \in TodoVersions
         /\ asking[client].step = "update" => asking[client].base \in TodoVersions
<1>1. asking[client] \in Askings
  BY DEF TodosShape
<1>2. CASE asking[client] = NoRequest
  BY <1>2 DEF NoRequest
<1>3. CASE asking[client] \in [step : {"create"}, todo : TodoKeys, row : TodoVersions]
  BY <1>3
<1>4. CASE asking[client] \in [step : {"update"}, todo : TodoKeys, base : TodoVersions, row : TodoVersions]
  BY <1>4
<1>5. QED
  BY <1>1, <1>2, <1>3, <1>4 DEF Askings

\* A step that makes no version: a row is learnt, or a request ends without writing.
LEMMA NothingWritten ==
  ASSUME TodosInv, TodosShape', stamp' = stamp, overwritten' = overwritten,
         \A key \in TodoKeys, row \in TodoVersions : IsVersion(key, row)' => IsVersion(key, row),
         \A client \in TodoClients : asking'[client] \in {asking[client], NoRequest}
  PROVE  TodosInv'
<1>1. VersionsInv'
  BY DEF TodosInv, VersionsInv
<1>2. ASSUME NEW client \in TodoClients, Pending(client)'
      PROVE  asking'[client] = asking[client] /\ Pending(client) /\ asking[client].todo \in TodoKeys
  <2>1. asking'[client] = asking[client]
    BY <1>2 DEF Pending, NoRequest
  <2>2. QED
    BY <1>2, <2>1, AskingTyped DEF Pending, TodosInv
<1>3. RequestsInv'
  BY <1>2 DEF TodosInv, RequestsInv
<1>4. QED
  BY <1>1, <1>3 DEF TodosInv, NoEditIsLost

\* A step that takes the time for a row it will write
LEMMA RowIsDated ==
  ASSUME TodosInv, TodosShape', stamp' = stamp + 1, overwritten' = overwritten,
         NEW client \in TodoClients, asking[client] = NoRequest,
         \A key \in TodoKeys, row \in TodoVersions : IsVersion(key, row)' => IsVersion(key, row),
         \A other \in TodoClients \ {client} : asking'[other] = asking[other],
         asking'[client].row.updated = stamp'
  PROVE  TodosInv'
<1>1. stamp \in Nat
  BY DEF TodosInv, TodosShape
<1>2. \A key \in TodoKeys, row \in TodoVersions : IsVersion(key, row) => row.updated <= stamp /\ row.updated \in Nat
  BY DEF TodosInv, VersionsInv, TodoVersions
<1>3. VersionsInv'
  <2>1. \A key \in TodoKeys, row \in TodoVersions : IsVersion(key, row)' => row.updated <= stamp'
    BY <1>1, <1>2
  <2>2. QED
    BY <2>1 DEF TodosInv, VersionsInv
<1>4. ASSUME NEW other \in TodoClients \ {client}, Pending(other)'
      PROVE  /\ asking'[other] = asking[other] /\ Pending(other) /\ asking[other].todo \in TodoKeys
             /\ asking[other].row.updated \in Nat /\ asking[other].row.updated <= stamp
  <2>1. asking'[other] = asking[other]
    OBVIOUS
  <2>2. Pending(other)
    BY <1>4, <2>1 DEF Pending
  <2>3. asking[other].todo \in TodoKeys /\ asking[other].row \in TodoVersions
    BY <2>2, AskingTyped DEF Pending, TodosInv
  <2>4. asking[other].row.updated <= stamp
    BY <2>2 DEF TodosInv, RequestsInv
  <2>5. QED
    BY <2>1, <2>2, <2>3, <2>4 DEF TodoVersions
<1>5. RequestsInv'
  <2> SUFFICES ASSUME NEW x \in TodoClients, Pending(x)'
               PROVE  /\ asking'[x].row.updated <= stamp'
                      /\ \A row \in TodoVersions :
                            IsVersion(asking[x].todo, row)' => row.updated # asking'[x].row.updated
                      /\ \A other \in TodoClients :
                            Pending(other)' /\ asking'[other].row.updated = asking'[x].row.updated => other = x
    BY DEF RequestsInv
  <2>1. CASE x = client
    <3>1. asking'[x].todo \in TodoKeys
      <4>1. TodosShape' /\ Pending(x)'
        OBVIOUS
      <4>2. asking'[x] \in Askings /\ asking'[x].step # "idle"
        BY <4>1 DEF TodosShape, Pending
      <4>3. QED
        BY <4>2 DEF Askings, NoRequest
    <3>2. \A row \in TodoVersions :
              IsVersion(asking[x].todo, row)' => row.updated # asking'[x].row.updated
      BY <1>1, <1>2, <2>1, <3>1
    <3>3. \A other \in TodoClients :
              Pending(other)' /\ asking'[other].row.updated = asking'[x].row.updated => other = x
      BY <1>1, <1>4, <2>1
    <3>4. QED
      BY <1>1, <2>1, <3>2, <3>3
  <2>2. CASE x # client
    <3>1. /\ asking'[x] = asking[x] /\ Pending(x) /\ asking[x].todo \in TodoKeys
          /\ asking[x].row.updated \in Nat /\ asking[x].row.updated <= stamp
      BY <1>4, <2>2
    <3>2. \A row \in TodoVersions :
              IsVersion(asking[x].todo, row)' => row.updated # asking'[x].row.updated
      BY <3>1 DEF TodosInv, RequestsInv
    <3>3. ASSUME NEW other \in TodoClients, Pending(other)',
                 asking'[other].row.updated = asking'[x].row.updated
          PROVE  other = x
      <4>1. CASE other = client
        BY <1>1, <3>1, <3>3, <4>1
      <4>2. CASE other # client
        BY <1>4, <3>1, <3>3, <4>2 DEF TodosInv, RequestsInv
      <4>3. QED
        BY <4>1, <4>2
    <3>4. asking'[x].row.updated <= stamp'
      BY <1>1, <3>1
    <3>5. QED
      BY <3>2, <3>3, <3>4
  <2>3. QED
    BY <2>1, <2>2
<1>6. QED
  BY <1>3, <1>5 DEF TodosInv, NoEditIsLost

\* A step that makes one version, at a time that no other version has
LEMMA VersionIsWritten ==
  ASSUME TodosInv, TodosShape', NoEditIsLost', stamp <= stamp',
         NEW key0 \in TodoKeys, NEW row0 \in TodoVersions, row0.updated <= stamp',
         \A key \in TodoKeys, row \in TodoVersions :
             IsVersion(key, row)' => IsVersion(key, row) \/ (key = key0 /\ row = row0),
         \A row \in TodoVersions : IsVersion(key0, row) => row.updated # row0.updated,
         \A client \in TodoClients : asking'[client] \in {asking[client], NoRequest},
         \A client \in TodoClients : Pending(client)' => asking[client].row.updated # row0.updated
  PROVE  TodosInv'
<1>1. stamp \in Nat /\ stamp' \in Nat
  BY DEF TodosInv, TodosShape
<1>2. VersionsInv'
  <2> SUFFICES ASSUME NEW key \in TodoKeys, NEW row \in TodoVersions, IsVersion(key, row)'
               PROVE  /\ row.updated <= stamp'
                      /\ \A other \in TodoVersions :
                            IsVersion(key, other)' /\ other.updated = row.updated => other = row
    BY DEF VersionsInv
  <2>1. IsVersion(key, row) => row.updated <= stamp /\ row.updated \in Nat
    BY DEF TodosInv, VersionsInv, TodoVersions
  <2>2. row.updated <= stamp'
    BY <1>1, <2>1
  <2>3. ASSUME NEW other \in TodoVersions, IsVersion(key, other)', other.updated = row.updated
        PROVE  other = row
    <3>1. CASE IsVersion(key, other) /\ IsVersion(key, row)
      BY <2>3, <3>1 DEF TodosInv, VersionsInv
    <3>2. CASE key = key0 /\ (row = row0 \/ other = row0)
      BY <2>3, <3>2
    <3>3. QED
      BY <2>3, <3>1, <3>2
  <2>4. QED
    BY <2>2, <2>3
<1>3. ASSUME NEW client \in TodoClients, Pending(client)'
      PROVE  /\ asking'[client] = asking[client] /\ Pending(client)
             /\ asking[client].todo \in TodoKeys /\ asking[client].row.updated \in Nat
  <2>1. asking'[client] = asking[client]
    BY <1>3 DEF Pending, NoRequest
  <2>2. Pending(client)
    BY <1>3, <2>1 DEF Pending
  <2>3. asking[client].todo \in TodoKeys /\ asking[client].row \in TodoVersions
    BY <2>2, AskingTyped DEF Pending, TodosInv
  <2>4. QED
    BY <2>1, <2>2, <2>3 DEF TodoVersions
<1>4. RequestsInv'
  <2> SUFFICES ASSUME NEW x \in TodoClients, Pending(x)'
               PROVE  /\ asking'[x].row.updated <= stamp'
                      /\ \A row \in TodoVersions :
                            IsVersion(asking[x].todo, row)' => row.updated # asking'[x].row.updated
                      /\ \A other \in TodoClients :
                            Pending(other)' /\ asking'[other].row.updated = asking'[x].row.updated => other = x
    BY DEF RequestsInv
  <2>1. /\ asking'[x] = asking[x] /\ Pending(x)
        /\ asking[x].todo \in TodoKeys /\ asking[x].row.updated \in Nat
    BY <1>3
  <2>2. asking[x].row.updated <= stamp
    BY <2>1 DEF TodosInv, RequestsInv
  <2>3. asking'[x].row.updated <= stamp'
    BY <1>1, <2>1, <2>2
  <2>4. ASSUME NEW row \in TodoVersions, IsVersion(asking[x].todo, row)'
        PROVE  row.updated # asking'[x].row.updated
    <3>1. IsVersion(asking'[x].todo, row) \/ row = row0
      BY <2>1, <2>4
    <3>2. QED
      BY <2>1, <3>1 DEF TodosInv, RequestsInv
  <2>5. ASSUME NEW other \in TodoClients, Pending(other)',
               asking'[other].row.updated = asking'[x].row.updated
        PROVE  other = x
    BY <1>3, <2>1, <2>5 DEF TodosInv, RequestsInv
  <2>6. QED
    BY <2>3, <2>4, <2>5
<1>5. QED
  BY <1>2, <1>4 DEF TodosInv

\* A client writes a row, and has it in view.
LEMMA RowIsWritten ==
  ASSUME TodosInv, NEW client \in TodoClients, NEW key0 \in TodoKeys, NEW row0 \in TodoVersions,
         Write(key0, row0), Learn(client, key0, row0),
         NoEditIsLost', stamp <= stamp', stamp' \in Nat, row0.updated <= stamp',
         \A row \in TodoVersions : IsVersion(key0, row) => row.updated # row0.updated,
         asking' \in [TodoClients -> Askings],
         \A other \in TodoClients : asking'[other] \in {asking[other], NoRequest},
         \A other \in TodoClients : Pending(other)' => asking[other].row.updated # row0.updated
  PROVE  TodosInv'
<1>1. /\ todos' = [todos EXCEPT ![key0] = {row0}]
      /\ known' = [known EXCEPT ![client][key0] = {row0}]
  BY DEF Write, Learn
<1>2. todos \in [TodoKeys -> OneTodo] /\ known \in [TodoClients -> [TodoKeys -> OneTodo]]
  BY DEF TodosInv, TodosShape
<1>3. {row0} \in OneTodo
  BY DEF OneTodo
<1>4. todos' \in [TodoKeys -> OneTodo] /\ known' \in [TodoClients -> [TodoKeys -> OneTodo]]
  BY <1>1, <1>2, <1>3
<1>5. TodosShape'
  BY <1>4 DEF TodosShape
<1>6. ASSUME NEW key \in TodoKeys, NEW row \in TodoVersions, IsVersion(key, row)'
      PROVE  IsVersion(key, row) \/ (key = key0 /\ row = row0)
  <2>1. CASE row \in todos'[key]
    BY <1>1, <1>2, <2>1 DEF IsVersion
  <2>2. CASE \E other \in TodoClients : row \in known'[other][key]
    <3>1. PICK other \in TodoClients : row \in known'[other][key]
      BY <2>2
    <3>2. row \in known[other][key] \/ (key = key0 /\ row = row0)
      BY <1>1, <1>2, <3>1
    <3>3. QED
      BY <3>2 DEF IsVersion
  <2>3. CASE \E other \in TodoClients :
                 asking'[other].step = "update" /\ asking'[other].todo = key /\ row = asking'[other].base
    BY <2>3 DEF IsVersion, NoRequest
  <2>4. QED
    BY <1>6, <2>1, <2>2, <2>3 DEF IsVersion
<1>7. QED
  BY <1>5, <1>6, VersionIsWritten

\* Clients read rows: some of those that are there take the place of what they knew.
LEMMA RowsAreRead ==
  ASSUME TodosInv, UNCHANGED <<todos, stamp, asking, overwritten>>,
         known' \in [TodoClients -> [TodoKeys -> OneTodo]],
         \A client \in TodoClients, key \in TodoKeys :
             known'[client][key] \in {known[client][key], todos[key]}
  PROVE  TodosInv'
<1>1. TodosShape'
  BY DEF TodosInv, TodosShape
<1>2. ASSUME NEW key \in TodoKeys, NEW row \in TodoVersions, IsVersion(key, row)'
      PROVE  IsVersion(key, row)
  <2>1. CASE row \in todos'[key]
    BY <2>1 DEF IsVersion
  <2>2. CASE \E other \in TodoClients : row \in known'[other][key]
    BY <2>2 DEF IsVersion
  <2>3. CASE \E other \in TodoClients :
                 asking'[other].step = "update" /\ asking'[other].todo = key /\ row = asking'[other].base
    BY <2>3 DEF IsVersion
  <2>4. QED
    BY <1>2, <2>1, <2>2, <2>3 DEF IsVersion
<1>3. QED
  BY <1>1, <1>2, NothingWritten

\* A request ends, and nothing is written.
LEMMA RequestIsDropped ==
  ASSUME TodosInv, NEW client \in TodoClients, Answers(client),
         UNCHANGED <<todos, known, stamp, overwritten>>
  PROVE  TodosInv'
<1>1. asking' = [asking EXCEPT ![client] = NoRequest] /\ asking \in [TodoClients -> Askings]
  BY DEF Answers, TodosInv, TodosShape
<1>2. NoRequest \in Askings
  BY DEF Askings
<1>3. TodosShape'
  BY <1>1, <1>2 DEF TodosInv, TodosShape
<1>4. \A other \in TodoClients : asking'[other] \in {asking[other], NoRequest}
  BY <1>1
<1>5. \A key \in TodoKeys, row \in TodoVersions : IsVersion(key, row)' => IsVersion(key, row)
  BY <1>4 DEF IsVersion, NoRequest
<1>6. QED
  BY <1>3, <1>4, <1>5, NothingWritten

LEMMA ReadForCreateKeeps ==
  ASSUME TodosInv, NEW client \in TodoClients, NEW key \in TodoKeys, NEW origin \in {"user", "model"},
         ReadForCreate(client, key, origin)
  PROVE  TodosInv'
<1>1. /\ todos \in [TodoKeys -> OneTodo] /\ known \in [TodoClients -> [TodoKeys -> OneTodo]]
      /\ asking \in [TodoClients -> Askings] /\ stamp \in Nat
  BY DEF TodosInv, TodosShape
<1>2. CASE Live(key) # {}
  <2>1. PICK row \in Live(key) : Learn(client, key, row)
    BY <1>2 DEF ReadForCreate
  <2>2. UNCHANGED <<todos, stamp, asking, overwritten>>
    BY <1>2 DEF ReadForCreate
  <2>3. todos[key] = {row} /\ {row} \in OneTodo
    BY <1>1, <2>1 DEF Live, OneTodo
  <2>4. known' = [known EXCEPT ![client][key] = {row}]
    BY <2>1 DEF Learn
  <2>5. known' \in [TodoClients -> [TodoKeys -> OneTodo]]
    BY <1>1, <2>3, <2>4
  <2>6. \A other \in TodoClients, k \in TodoKeys : known'[other][k] \in {known[other][k], todos[k]}
    BY <1>1, <2>3, <2>4
  <2>7. QED
    BY <2>2, <2>5, <2>6, RowsAreRead
<1>3. CASE Live(key) = {}
  <2> DEFINE row == [done |-> FALSE, origin |-> origin, updated |-> stamp', deleted |-> FALSE]
             asked == [step |-> "create", todo |-> key, row |-> row]
  <2>1. /\ Requests(client, asked) /\ stamp' = stamp + 1
        /\ UNCHANGED <<todos, known, overwritten>>
    BY <1>3 DEF ReadForCreate, Now
  <2>2. row \in TodoVersions /\ row.updated = stamp'
    BY <1>1, <2>1 DEF TodoVersions
  <2> HIDE DEF row
  <2>3. /\ asked \in [step : {"create"}, todo : TodoKeys, row : TodoVersions]
        /\ asked.step = "create" /\ asked.row = row
    BY <2>2
  <2>4. asked \in Askings
    BY <2>3 DEF Askings
  <2> HIDE DEF asked
  <2>5. asking[client] = NoRequest /\ asking' = [asking EXCEPT ![client] = asked]
    BY <2>1 DEF Requests
  <2>6. asking' \in [TodoClients -> Askings] /\ asking'[client] = asked
    BY <1>1, <2>4, <2>5
  <2>7. TodosShape'
    BY <1>1, <2>1, <2>6 DEF TodosShape
  <2>8. \A other \in TodoClients \ {client} : asking'[other] = asking[other]
    BY <1>1, <2>5
  <2>9. \A k \in TodoKeys, rw \in TodoVersions : IsVersion(k, rw)' => IsVersion(k, rw)
    BY <2>1, <2>3, <2>6, <2>8 DEF IsVersion
  <2>10. asking'[client].row.updated = stamp'
    BY <2>2, <2>3, <2>6
  <2>11. QED
    BY <2>1, <2>5, <2>7, <2>8, <2>9, <2>10, RowIsDated
<1>4. QED
  BY <1>2, <1>3

LEMMA InsertKeeps ==
  ASSUME TodosInv, NEW client \in TodoClients, InsertTodo(client)
  PROVE  TodosInv'
<1> DEFINE key == asking[client].todo
           row == asking[client].row
<1>1. /\ asking \in [TodoClients -> Askings] /\ stamp \in Nat
      /\ asking[client].step = "create" /\ Answers(client) /\ UNCHANGED stamp
  BY DEF InsertTodo, TodosInv, TodosShape
<1>2. key \in TodoKeys /\ row \in TodoVersions /\ Pending(client)
  BY <1>1, AskingTyped DEF TodosInv, Pending
<1>3. CASE Insertable(key)
  <2>1. Write(key, row) /\ Learn(client, key, row) /\ NoEditIsLost'
    <3>1. /\ Write(key, row) /\ Learn(client, key, row)
          /\ overwritten' = (overwritten \/ todos[key] # {})
      BY <1>1, <1>3 DEF InsertTodo
    <3>2. ~overwritten /\ ~(todos[key] # {})
      BY <1>3 DEF Insertable, TodosInv, NoEditIsLost
    <3>3. QED
      BY <3>1, <3>2, Zenon DEF NoEditIsLost
  <2>2. /\ asking' = [asking EXCEPT ![client] = NoRequest] /\ NoRequest \in Askings
    BY <1>1 DEF Answers, Askings
  <2>3. asking' \in [TodoClients -> Askings]
    BY <1>1, <2>2
  <2>4. \A other \in TodoClients : asking'[other] \in {asking[other], NoRequest}
    BY <1>1, <2>2
  <2>5. row.updated <= stamp /\ \A rw \in TodoVersions : IsVersion(key, rw) => rw.updated # row.updated
    BY <1>2 DEF TodosInv, RequestsInv
  <2>6. ASSUME NEW other \in TodoClients, Pending(other)'
        PROVE  asking[other].row.updated # row.updated
    <3>1. other # client /\ asking'[other] = asking[other]
      BY <1>1, <2>2, <2>6 DEF Pending, NoRequest
    <3>2. Pending(other)
      BY <2>6, <3>1 DEF Pending
    <3>3. QED
      BY <1>2, <3>1, <3>2 DEF TodosInv, RequestsInv
  <2> HIDE DEF key, row
  <2>7. stamp <= stamp' /\ stamp' \in Nat /\ row.updated <= stamp'
    BY <1>1, <2>5
  <2>8. QED
    BY <1>2, <2>1, <2>3, <2>4, <2>5, <2>6, <2>7, RowIsWritten
<1>4. CASE ~Insertable(key)
  <2>1. UNCHANGED <<todos, known, stamp, overwritten>>
    BY <1>1, <1>4 DEF InsertTodo
  <2>2. QED
    BY <1>1, <2>1, RequestIsDropped
<1>5. QED
  BY <1>3, <1>4

LEMMA ReadForUpdateKeeps ==
  ASSUME TodosInv, NEW client \in TodoClients, NEW key \in TodoKeys, NEW done \in BOOLEAN,
         ReadForUpdate(client, key, done)
  PROVE  TodosInv'
<1>1. /\ todos \in [TodoKeys -> OneTodo] /\ known \in [TodoClients -> [TodoKeys -> OneTodo]]
      /\ asking \in [TodoClients -> Askings] /\ stamp \in Nat
  BY DEF TodosInv, TodosShape
<1>2. PICK stored \in Live(key), base \in known[client][key] :
          Requests(client, [step |-> "update", todo |-> key, base |-> base,
                            row |-> [done |-> done, origin |-> stored.origin, updated |-> stamp', deleted |-> FALSE]])
  BY DEF ReadForUpdate
<1>3. stamp' = stamp + 1 /\ UNCHANGED <<todos, known, overwritten>>
  BY DEF ReadForUpdate, Now
<1>4. base \in TodoVersions /\ stored \in TodoVersions
  BY <1>1 DEF Live, OneTodo
<1> DEFINE row == [done |-> done, origin |-> stored.origin, updated |-> stamp', deleted |-> FALSE]
           asked == [step |-> "update", todo |-> key, base |-> base, row |-> row]
<1>5. row \in TodoVersions /\ row.updated = stamp'
  BY <1>1, <1>3, <1>4 DEF TodoVersions
<1>6. Requests(client, asked)
  BY <1>2
<1> HIDE DEF row
<1>7. /\ asked \in [step : {"update"}, todo : TodoKeys, base : TodoVersions, row : TodoVersions]
      /\ asked.step = "update" /\ asked.todo = key /\ asked.base = base /\ asked.row = row
  BY <1>4, <1>5
<1>8. asked \in Askings
  BY <1>7 DEF Askings
<1> HIDE DEF asked
<1>9. asking[client] = NoRequest /\ asking' = [asking EXCEPT ![client] = asked]
  BY <1>6 DEF Requests
<1>10. asking' \in [TodoClients -> Askings] /\ asking'[client] = asked
  BY <1>1, <1>8, <1>9
<1>11. TodosShape'
  BY <1>1, <1>3, <1>10 DEF TodosShape
<1>12. \A other \in TodoClients \ {client} : asking'[other] = asking[other]
  BY <1>1, <1>9
<1>13. ASSUME NEW k \in TodoKeys, NEW rw \in TodoVersions, IsVersion(k, rw)'
       PROVE  IsVersion(k, rw)
  <2>1. CASE asking'[client].step = "update" /\ asking'[client].todo = k /\ rw = asking'[client].base
    BY <1>7, <1>10, <2>1 DEF IsVersion
  <2>2. CASE ~(asking'[client].step = "update" /\ asking'[client].todo = k /\ rw = asking'[client].base)
    BY <1>3, <1>12, <1>13, <2>2 DEF IsVersion
  <2>3. QED
    BY <2>1, <2>2
<1>14. asking'[client].row.updated = stamp'
  BY <1>5, <1>7, <1>10
<1>15. QED
  BY <1>3, <1>9, <1>11, <1>12, <1>13, <1>14, RowIsDated

LEMMA UpdateKeeps ==
  ASSUME TodosInv, NEW client \in TodoClients, UpdateTodo(client)
  PROVE  TodosInv'
<1> DEFINE key == asking[client].todo
           row == asking[client].row
           base == asking[client].base
<1>1. /\ asking \in [TodoClients -> Askings] /\ stamp \in Nat /\ todos \in [TodoKeys -> OneTodo]
      /\ asking[client].step = "update" /\ Answers(client) /\ UNCHANGED stamp
  BY DEF UpdateTodo, TodosInv, TodosShape
<1>2. key \in TodoKeys /\ row \in TodoVersions /\ base \in TodoVersions /\ Pending(client)
  BY <1>1, AskingTyped DEF TodosInv, Pending
<1>3. CASE Matches(key, base.updated) /\ Live(key) # {}
  <2>1. PICK stored \in todos[key] : stored.updated = base.updated
    BY <1>3 DEF Matches
  <2>2. stored \in TodoVersions /\ todos[key] = {stored}
    BY <1>1, <1>2, <2>1 DEF OneTodo
  <2>3. stored = base
    <3>1. IsVersion(key, stored) /\ IsVersion(key, base)
      BY <1>1, <2>1 DEF IsVersion
    <3>2. QED
      BY <1>2, <2>1, <2>2, <3>1 DEF TodosInv, VersionsInv
  <2>4. Write(key, row) /\ Learn(client, key, row) /\ NoEditIsLost'
    <3>1. /\ Write(key, row) /\ Learn(client, key, row)
          /\ overwritten' = (overwritten \/ todos[key] # {base})
      BY <1>1, <1>3 DEF UpdateTodo
    <3>2. ~overwritten /\ ~(todos[key] # {base})
      BY <2>2, <2>3 DEF TodosInv, NoEditIsLost
    <3>3. QED
      BY <3>1, <3>2, Zenon DEF NoEditIsLost
  <2>5. asking' = [asking EXCEPT ![client] = NoRequest] /\ NoRequest \in Askings
    BY <1>1 DEF Answers, Askings
  <2>6. asking' \in [TodoClients -> Askings]
    BY <1>1, <2>5
  <2>7. \A other \in TodoClients : asking'[other] \in {asking[other], NoRequest}
    BY <1>1, <2>5
  <2>8. row.updated <= stamp /\ \A rw \in TodoVersions : IsVersion(key, rw) => rw.updated # row.updated
    BY <1>2 DEF TodosInv, RequestsInv
  <2>9. ASSUME NEW other \in TodoClients, Pending(other)'
        PROVE  asking[other].row.updated # row.updated
    <3>1. other # client /\ asking'[other] = asking[other]
      BY <1>1, <2>5, <2>9 DEF Pending, NoRequest
    <3>2. Pending(other)
      BY <2>9, <3>1 DEF Pending
    <3>3. QED
      BY <1>2, <3>1, <3>2 DEF TodosInv, RequestsInv
  <2> HIDE DEF key, row
  <2>10. stamp <= stamp' /\ stamp' \in Nat /\ row.updated <= stamp'
    BY <1>1, <2>8
  <2>11. QED
    BY <1>2, <2>4, <2>6, <2>7, <2>8, <2>9, <2>10, RowIsWritten
<1>4. CASE ~(Matches(key, base.updated) /\ Live(key) # {})
  <2>1. UNCHANGED <<todos, known, stamp, overwritten>>
    BY <1>1, <1>4 DEF UpdateTodo
  <2>2. QED
    BY <1>1, <2>1, RequestIsDropped
<1>5. QED
  BY <1>3, <1>4

LEMMA DeleteOrRestoreKeeps ==
  ASSUME TodosInv, NEW client \in TodoClients, NEW key \in TodoKeys, NEW delete \in BOOLEAN,
         DeleteOrRestore(client, key, delete)
  PROVE  TodosInv'
<1>1. /\ todos \in [TodoKeys -> OneTodo] /\ known \in [TodoClients -> [TodoKeys -> OneTodo]]
      /\ asking \in [TodoClients -> Askings] /\ stamp \in Nat
  BY DEF TodosInv, TodosShape
<1>2. stamp' = stamp + 1 /\ asking' = asking
  BY DEF DeleteOrRestore, Now
<1>3. PICK base \in known[client][key] :
          /\ Matches(key, base.updated)
          /\ \E row \in todos[key] :
                 LET changed == [row EXCEPT !.deleted = delete, !.updated = stamp']
                 IN  Write(key, changed) /\ Learn(client, key, changed)
          /\ overwritten' = (overwritten \/ todos[key] # {base})
  BY DEF DeleteOrRestore
<1>4. PICK row \in todos[key] :
          /\ Write(key, [row EXCEPT !.deleted = delete, !.updated = stamp'])
          /\ Learn(client, key, [row EXCEPT !.deleted = delete, !.updated = stamp'])
  BY <1>3
<1>5. row \in TodoVersions /\ todos[key] = {row} /\ base \in TodoVersions
  BY <1>1, <1>3, <1>4 DEF OneTodo
<1>6. row = base
  <2>1. row.updated = base.updated
    BY <1>3, <1>5 DEF Matches
  <2>2. IsVersion(key, row) /\ IsVersion(key, base)
    BY <1>3, <1>4 DEF IsVersion
  <2>3. QED
    BY <1>5, <2>1, <2>2 DEF TodosInv, VersionsInv
<1>7. NoEditIsLost'
  <2>1. ~overwritten /\ ~(todos[key] # {base})
    BY <1>5, <1>6 DEF TodosInv, NoEditIsLost
  <2>2. QED
    BY <1>3, <2>1, Zenon DEF NoEditIsLost
<1> DEFINE changed == [row EXCEPT !.deleted = delete, !.updated = stamp']
<1>8. changed \in TodoVersions /\ changed.updated = stamp'
  <2>1. stamp' \in Nat
    BY <1>1, <1>2
  <2>2. \A n \in Nat : /\ [row EXCEPT !.deleted = delete, !.updated = n] \in TodoVersions
                       /\ [row EXCEPT !.deleted = delete, !.updated = n].updated = n
    BY <1>5 DEF TodoVersions
  <2>3. QED
    BY <2>1, <2>2
<1>9. Write(key, changed) /\ Learn(client, key, changed)
  BY <1>4
<1> HIDE DEF changed
<1>10. /\ stamp <= stamp' /\ stamp' \in Nat /\ changed.updated <= stamp'
  BY <1>1, <1>2, <1>8
<1>11. ASSUME NEW rw \in TodoVersions, IsVersion(key, rw)
       PROVE  rw.updated # changed.updated
  <2>1. rw.updated <= stamp /\ rw.updated \in Nat
    BY <1>11 DEF TodosInv, VersionsInv, TodoVersions
  <2>2. QED
    BY <1>1, <1>2, <1>8, <2>1
<1>12. ASSUME NEW other \in TodoClients, Pending(other)'
       PROVE  asking[other].row.updated # changed.updated
  <2>1. Pending(other)
    BY <1>2, <1>12 DEF Pending
  <2>2. asking[other].row \in TodoVersions
    BY <2>1, AskingTyped DEF Pending, TodosInv
  <2>3. asking[other].row.updated <= stamp /\ asking[other].row.updated \in Nat
    BY <2>1, <2>2 DEF TodosInv, RequestsInv, TodoVersions
  <2>4. QED
    BY <1>1, <1>2, <1>8, <2>3
<1>13. /\ asking' \in [TodoClients -> Askings]
       /\ \A other \in TodoClients : asking'[other] \in {asking[other], NoRequest}
  BY <1>1, <1>2
<1>14. QED
  BY <1>7, <1>8, <1>9, <1>10, <1>11, <1>12, <1>13, RowIsWritten

LEMMA ReadPageKeeps ==
  ASSUME TodosInv, NEW client \in TodoClients, ReadPage(client) \/ ReadDeleted(client)
  PROVE  TodosInv'
<1>1. /\ todos \in [TodoKeys -> OneTodo] /\ known \in [TodoClients -> [TodoKeys -> OneTodo]]
  BY DEF TodosInv, TodosShape
<1>2. UNCHANGED <<todos, stamp, asking, overwritten>>
  BY DEF ReadPage, ReadDeleted
<1>3. PICK S : known' = [known EXCEPT ![client] = [k \in TodoKeys |-> IF k \in S THEN todos[k] ELSE @[k]]]
  <2>1. CASE ReadPage(client)
    BY <2>1 DEF ReadPage
  <2>2. CASE ReadDeleted(client)
    <3>1. known' = [known EXCEPT ![client] =
              [k \in TodoKeys |-> IF todos[k] # {} /\ Live(k) = {} THEN todos[k] ELSE @[k]]]
      BY <2>2 DEF ReadDeleted
    <3>2. known' = [known EXCEPT ![client] =
              [k \in TodoKeys |-> IF k \in {key \in TodoKeys : todos[key] # {} /\ Live(key) = {}}
                                  THEN todos[k] ELSE @[k]]]
      BY <3>1
    <3>3. QED
      BY <3>2
  <2>3. QED
    BY <2>1, <2>2
<1>4. known' \in [TodoClients -> [TodoKeys -> OneTodo]]
  BY <1>1, <1>3
<1>5. \A other \in TodoClients, k \in TodoKeys : known'[other][k] \in {known[other][k], todos[k]}
  BY <1>1, <1>3
<1>6. QED
  BY <1>2, <1>4, <1>5, RowsAreRead

LEMMA TodosKeep ==
  ASSUME TodosInv, [TodosNext]_todoVars
  PROVE  TodosInv'
<1>1. ASSUME UNCHANGED <<todos, stamp, asking, known, overwritten>>
      PROVE  TodosInv'
  <2>1. known' \in [TodoClients -> [TodoKeys -> OneTodo]]
    BY <1>1 DEF TodosInv, TodosShape
  <2>2. QED
    BY <1>1, <2>1, RowsAreRead
<1>2. CASE UNCHANGED todoVars
  BY <1>1, <1>2 DEF todoVars
<1>3. ASSUME NEW client \in TodoClients, InsertTodo(client) PROVE TodosInv'
  BY <1>3, InsertKeeps
<1>4. ASSUME NEW client \in TodoClients, UpdateTodo(client) PROVE TodosInv'
  BY <1>4, UpdateKeeps
<1>5. ASSUME NEW client \in TodoClients, CountTodos(client) PROVE TodosInv'
  BY <1>1, <1>5 DEF CountTodos
<1>6. ASSUME NEW client \in TodoClients, ReadPage(client) \/ ReadDeleted(client) PROVE TodosInv'
  BY <1>6, ReadPageKeeps
<1>7. ASSUME NEW client \in TodoClients, NEW key \in TodoKeys, NEW origin \in {"user", "model"},
             ReadForCreate(client, key, origin)
      PROVE  TodosInv'
  BY <1>7, ReadForCreateKeeps
<1>8. ASSUME NEW client \in TodoClients, NEW key \in TodoKeys, NEW done \in BOOLEAN,
             ReadForUpdate(client, key, done)
      PROVE  TodosInv'
  BY <1>8, ReadForUpdateKeeps
<1>9. ASSUME NEW client \in TodoClients, NEW key \in TodoKeys, NEW delete \in BOOLEAN,
             DeleteOrRestore(client, key, delete)
      PROVE  TodosInv'
  BY <1>9, DeleteOrRestoreKeeps
<1>10. QED
  BY <1>2, <1>3, <1>4, <1>5, <1>6, <1>7, <1>8, <1>9 DEF TodosNext

-----------------------------------------------------------------------------
(* The task board *)

\* No two to-dos are of one time, nor is one that is stored of the time of one that is
\* about to be written.
TimesInv ==
    /\ \A j, k \in TodoKeys : \A r \in todos[j], s \in todos[k] : r.updated = s.updated => j = k
    /\ \A client \in TodoClients : Pending(client) =>
          \A k \in TodoKeys : \A r \in todos[k] : r.updated # asking[client].row.updated

LEMMA StoredTyped ==
  ASSUME TodosInv, NEW key \in TodoKeys, NEW row \in todos[key]
  PROVE  /\ row \in TodoVersions /\ todos[key] = {row}
         /\ row.updated \in Nat /\ row.updated <= stamp
<1>1. row \in TodoVersions /\ todos[key] = {row}
  BY DEF TodosInv, TodosShape, OneTodo
<1>2. row.updated \in Nat
  BY <1>1 DEF TodoVersions
<1>3. IsVersion(key, row)
  BY DEF IsVersion
<1>4. QED
  BY <1>1, <1>2, <1>3 DEF TodosInv, VersionsInv

\* A row of a new time is written.
LEMMA NewTimeIsWritten ==
  ASSUME TodosInv, TimesInv, NEW key \in TodoKeys, NEW row, todos' = [todos EXCEPT ![key] = {row}],
         \A client \in TodoClients : asking'[client] \in {asking[client], NoRequest},
         \A k \in TodoKeys : \A r \in todos[k] : r.updated # row.updated,
         \A client \in TodoClients : Pending(client)' => asking[client].row.updated # row.updated
  PROVE  TimesInv'
<1>1. todos \in [TodoKeys -> OneTodo]
  BY DEF TodosInv, TodosShape
<1>2. \A k \in TodoKeys : todos'[k] = IF k = key THEN {row} ELSE todos[k]
  BY <1>1
<1>3. ASSUME NEW j \in TodoKeys, NEW k \in TodoKeys, NEW r \in todos'[j], NEW s \in todos'[k], r.updated = s.updated
      PROVE  j = k
  BY <1>2, <1>3 DEF TimesInv
<1>4. ASSUME NEW client \in TodoClients, Pending(client)', NEW k \in TodoKeys, NEW r \in todos'[k]
      PROVE  r.updated # asking'[client].row.updated
  <2>1. asking'[client] = asking[client] /\ Pending(client)
    BY <1>4 DEF Pending, NoRequest
  <2>2. QED
    BY <1>2, <1>4, <2>1 DEF TimesInv
<1>5. QED
  BY <1>3, <1>4 DEF TimesInv

\* A request may end, or a client take a new time for its request.
LEMMA TimesAreKept ==
  ASSUME TodosInv, TimesInv, todos' = todos,
         \A client \in TodoClients :
            \/ asking'[client] \in {asking[client], NoRequest}
            \/ asking'[client].row.updated = stamp + 1
  PROVE  TimesInv'
<1>1. stamp \in Nat
  BY DEF TodosInv, TodosShape
<1>2. ASSUME NEW client \in TodoClients, Pending(client)', NEW k \in TodoKeys, NEW r \in todos[k]
      PROVE  r.updated # asking'[client].row.updated
  <2>1. r.updated \in Nat /\ r.updated <= stamp
    BY StoredTyped
  <2>2. CASE asking'[client] \in {asking[client], NoRequest}
    <3>1. asking'[client] = asking[client] /\ Pending(client)
      BY <1>2, <2>2 DEF Pending, NoRequest
    <3>2. QED
      BY <3>1 DEF TimesInv
  <2>3. CASE asking'[client].row.updated = stamp + 1
    BY <1>1, <2>1, <2>3
  <2>4. QED
    BY <2>2, <2>3
<1>3. QED
  BY <1>2 DEF TimesInv

\* What was asked for is written, or not.
LEMMA AskedIsWritten ==
  ASSUME TodosInv, TimesInv, NEW client \in TodoClients, Pending(client), Answers(client),
         todos' \in {todos, [todos EXCEPT ![asking[client].todo] = {asking[client].row}]}
  PROVE  TimesInv'
<1>1. asking \in [TodoClients -> Askings] /\ asking' = [asking EXCEPT ![client] = NoRequest]
  BY DEF Answers, TodosInv, TodosShape
<1>2. \A other \in TodoClients : asking'[other] \in {asking[other], NoRequest}
  BY <1>1
<1>3. CASE todos' = todos
  BY <1>2, <1>3, TimesAreKept
<1>4. CASE todos' = [todos EXCEPT ![asking[client].todo] = {asking[client].row}]
  <2>1. asking[client].todo \in TodoKeys
    BY AskingTyped DEF TodosInv, Pending
  <2>2. \A k \in TodoKeys : \A r \in todos[k] : r.updated # asking[client].row.updated
    BY DEF TimesInv
  <2>3. ASSUME NEW other \in TodoClients, Pending(other)'
        PROVE  asking[other].row.updated # asking[client].row.updated
    <3>1. other # client /\ asking'[other] = asking[other] /\ Pending(other)
      BY <1>1, <2>3 DEF Pending, NoRequest
    <3>2. QED
      BY <3>1 DEF TodosInv, RequestsInv
  <2>4. QED
    BY <1>2, <1>4, <2>1, <2>2, <2>3, NewTimeIsWritten
<1>5. QED
  BY <1>3, <1>4

LEMMA TimesKeep == TodosInv /\ TimesInv /\ [TodosNext]_todoVars => TimesInv'
<1> SUFFICES ASSUME TodosInv, TimesInv, [TodosNext]_todoVars PROVE TimesInv'
  OBVIOUS
<1>1. stamp \in Nat /\ asking \in [TodoClients -> Askings]
  BY DEF TodosInv, TodosShape
<1>2. ASSUME todos' = todos, asking' = asking PROVE TimesInv'
  BY <1>2 DEF TimesInv, Pending
<1>3. CASE UNCHANGED todoVars
  BY <1>2, <1>3 DEF todoVars
<1>4. ASSUME NEW client \in TodoClients, InsertTodo(client) \/ UpdateTodo(client)
      PROVE  TimesInv'
  <2>1. Pending(client) /\ Answers(client)
    BY <1>4 DEF InsertTodo, UpdateTodo, Pending
  <2>2. todos' \in {todos, [todos EXCEPT ![asking[client].todo] = {asking[client].row}]}
    BY <1>4 DEF InsertTodo, UpdateTodo, Write
  <2>3. QED
    BY <2>1, <2>2, AskedIsWritten
<1>5. ASSUME NEW client \in TodoClients, CountTodos(client) \/ ReadPage(client) \/ ReadDeleted(client)
      PROVE  TimesInv'
  BY <1>2, <1>5 DEF CountTodos, ReadPage, ReadDeleted
<1>6. ASSUME NEW client \in TodoClients, NEW key \in TodoKeys, NEW origin \in {"user", "model"},
             ReadForCreate(client, key, origin)
      PROVE  TimesInv'
  <2>1. todos' = todos
    BY <1>6 DEF ReadForCreate
  <2>2. CASE asking' = asking
    BY <1>2, <2>1, <2>2
  <2>3. CASE asking' # asking
    <3>1. stamp' = stamp + 1
      BY <1>6, <2>3 DEF ReadForCreate, Now
    <3>2. asking' = [asking EXCEPT ![client] =
                        [step |-> "create", todo |-> key,
                         row |-> [done |-> FALSE, origin |-> origin, updated |-> stamp', deleted |-> FALSE]]]
      BY <1>6, <2>3 DEF ReadForCreate, Requests
    <3>3. \A other \in TodoClients :
              asking'[other] = asking[other] \/ asking'[other].row.updated = stamp + 1
      BY <1>1, <3>1, <3>2
    <3>4. QED
      BY <2>1, <3>3, TimesAreKept
  <2>4. QED
    BY <2>2, <2>3
<1>7. ASSUME NEW client \in TodoClients, NEW key \in TodoKeys, NEW done \in BOOLEAN,
             ReadForUpdate(client, key, done)
      PROVE  TimesInv'
  <2>1. todos' = todos /\ stamp' = stamp + 1
    BY <1>7 DEF ReadForUpdate, Now
  <2>2. PICK stored \in Live(key), base \in known[client][key] :
            Requests(client, [step |-> "update", todo |-> key, base |-> base,
                              row |-> [done |-> done, origin |-> stored.origin, updated |-> stamp', deleted |-> FALSE]])
    BY <1>7 DEF ReadForUpdate
  <2>3. \A other \in TodoClients :
            asking'[other] = asking[other] \/ asking'[other].row.updated = stamp + 1
    BY <1>1, <2>1, <2>2 DEF Requests
  <2>4. QED
    BY <2>1, <2>3, TimesAreKept
<1>8. ASSUME NEW client \in TodoClients, NEW key \in TodoKeys, NEW delete \in BOOLEAN,
             DeleteOrRestore(client, key, delete)
      PROVE  TimesInv'
  <2>1. asking' = asking /\ stamp' = stamp + 1
    BY <1>8 DEF DeleteOrRestore, Now
  <2>2. PICK row \in todos[key] : Write(key, [row EXCEPT !.deleted = delete, !.updated = stamp'])
    BY <1>8 DEF DeleteOrRestore
  <2>3. row \in TodoVersions
    BY StoredTyped
  <2>4. PICK changed : changed = [row EXCEPT !.deleted = delete, !.updated = stamp']
    OBVIOUS
  <2>5. changed.updated = stamp + 1
    BY <2>1, <2>3, <2>4 DEF TodoVersions
  <2>6. todos' = [todos EXCEPT ![key] = {changed}]
    BY <2>2, <2>4 DEF Write
  <2>7. \A k \in TodoKeys : \A r \in todos[k] : r.updated # changed.updated
    BY <1>1, <2>5, StoredTyped
  <2>8. ASSUME NEW other \in TodoClients, Pending(other)'
        PROVE  asking[other].row.updated # changed.updated
    <3>1. asking[other].row.updated \in Nat /\ asking[other].row.updated <= stamp
      <4>1. Pending(other)
        BY <2>1, <2>8 DEF Pending
      <4>2. asking[other].row \in TodoVersions
        BY <4>1, AskingTyped DEF Pending, TodosInv
      <4>3. QED
        BY <4>1, <4>2 DEF TodosInv, RequestsInv, TodoVersions
    <3>2. QED
      BY <1>1, <2>5, <3>1
  <2>9. QED
    BY <2>1, <2>6, <2>7, <2>8, NewTimeIsWritten
<1>9. QED
  BY <1>3, <1>4, <1>5, <1>6, <1>7, <1>8 DEF TodosNext

\* The board holds each to-do that is not deleted once.
LEMMA BoardIsInOrder ==
  ASSUME TodosInv, TimesInv
  PROVE  /\ Cardinality(OnBoard) \in Nat /\ OnBoard \subseteq TodoKeys
         /\ Board \in [1 .. Cardinality(OnBoard) -> OnBoard]
         /\ \A key \in OnBoard : \E n \in 1 .. Cardinality(OnBoard) : Board[n] = key
<1> DEFINE R == {p \in OnBoard \X OnBoard : Before(p[1], p[2])}
<1>1. OnBoard \subseteq TodoKeys /\ IsFiniteSet(OnBoard)
  <2>1. OnBoard \in SUBSET TodoKeys
    BY DEF OnBoard
  <2>2. QED
    BY <2>1, TodosAssumption, FS_Subset
<1>2. ASSUME NEW j \in OnBoard, NEW k \in OnBoard
      PROVE  <<j, k>> \in R <=> Before(j, k)
  OBVIOUS
<1> HIDE DEF R
<1>3. ASSUME NEW k \in OnBoard
      PROVE  \E row \in TodoVersions : todos[k] = {row}
  <2>1. PICK row \in todos[k] : TRUE
    BY DEF OnBoard, Live
  <2>2. QED
    BY <1>1, <2>1, StoredTyped
<1>4. PICK rows : rows = [k \in OnBoard |-> CHOOSE row \in TodoVersions : todos[k] = {row}]
  OBVIOUS
<1>5. ASSUME NEW k \in OnBoard
      PROVE  /\ rows[k] \in TodoVersions /\ todos[k] = {rows[k]}
             /\ rows[k].updated \in Nat /\ rows[k].done \in BOOLEAN
  <2>1. rows[k] \in TodoVersions /\ todos[k] = {rows[k]}
    BY <1>3, <1>4
  <2>2. QED
    BY <2>1 DEF TodoVersions
<1>6. ASSUME NEW j \in OnBoard, NEW k \in OnBoard
      PROVE  /\ <<j, k>> \in R <=> \/ ~rows[j].done /\ rows[k].done
                                   \/ (rows[j].done <=> rows[k].done) /\ rows[j].updated > rows[k].updated
             /\ rows[j].updated = rows[k].updated => j = k
  <2>1. todos[j] = {rows[j]} /\ todos[k] = {rows[k]} /\ rows[j].done \in BOOLEAN /\ rows[k].done \in BOOLEAN
    BY <1>5
  <2>2. Before(j, k) <=> \/ ~rows[j].done /\ rows[k].done
                         \/ rows[j].done = rows[k].done /\ rows[j].updated > rows[k].updated
    BY <2>1 DEF Before
  <2>3. (rows[j].done = rows[k].done) <=> (rows[j].done <=> rows[k].done)
    BY <2>1
  <2>4. rows[j].updated = rows[k].updated => j = k
    BY <1>1, <2>1 DEF TimesInv
  <2>5. QED
    BY <1>2, <2>2, <2>3, <2>4
<1>7. \A x \in OnBoard : <<x, x>> \notin R
  BY <1>5, <1>6
<1>8. \A x, y, z \in OnBoard : <<x, y>> \in R /\ <<y, z>> \in R => <<x, z>> \in R
  <2> SUFFICES ASSUME NEW x \in OnBoard, NEW y \in OnBoard, NEW z \in OnBoard,
                      <<x, y>> \in R, <<y, z>> \in R
               PROVE  <<x, z>> \in R
    OBVIOUS
  <2>1. rows[x].updated \in Nat /\ rows[y].updated \in Nat /\ rows[z].updated \in Nat
    BY <1>5
  <2>2. /\ \/ ~rows[x].done /\ rows[y].done
           \/ (rows[x].done <=> rows[y].done) /\ rows[x].updated > rows[y].updated
        /\ \/ ~rows[y].done /\ rows[z].done
           \/ (rows[y].done <=> rows[z].done) /\ rows[y].updated > rows[z].updated
    BY <1>6
  <2>3. QED
    BY <1>6, <2>1, <2>2
<1>9. \A x, y \in OnBoard : x # y => <<x, y>> \in R \/ <<y, x>> \in R
  <2> SUFFICES ASSUME NEW x \in OnBoard, NEW y \in OnBoard, x # y
               PROVE  <<x, y>> \in R \/ <<y, x>> \in R
    OBVIOUS
  <2>1. rows[x].updated \in Nat /\ rows[y].updated \in Nat /\ rows[x].updated # rows[y].updated
    BY <1>5, <1>6
  <2>2. QED
    BY <1>6, <2>1
<1>10. ASSUME NEW k \in OnBoard
       PROVE  PlaceOnBoard(k) = Cardinality({j \in OnBoard : <<j, k>> \in R}) + 1
  <2>1. {j \in OnBoard : Before(j, k)} = {j \in OnBoard : <<j, k>> \in R}
    BY <1>2
  <2>2. QED
    BY <2>1 DEF PlaceOnBoard
<1>11. Board = [n \in 1 .. Cardinality(OnBoard) |-> Board[n]]
  BY DEF Board
<1>12. ASSUME NEW n \in 1 .. Cardinality(OnBoard), NEW k \in OnBoard,
              Cardinality({j \in OnBoard : <<j, k>> \in R}) + 1 = n
       PROVE  Board[n] \in OnBoard /\ Cardinality({j \in OnBoard : <<j, Board[n]>> \in R}) + 1 = n
  <2>1. PlaceOnBoard(k) = n
    BY <1>10, <1>12
  <2>2. Board[n] \in OnBoard /\ PlaceOnBoard(Board[n]) = n
    BY <2>1 DEF Board
  <2>3. QED
    BY <1>10, <2>2
<1>13. \A n \in 1 .. Cardinality(OnBoard), x \in OnBoard :
          Cardinality({y \in OnBoard : <<y, x>> \in R}) + 1 = n =>
              Board[n] \in OnBoard /\ Cardinality({y \in OnBoard : <<y, Board[n]>> \in R}) + 1 = n
  BY <1>12
<1>14. /\ Cardinality(OnBoard) \in Nat
       /\ Board \in [1 .. Cardinality(OnBoard) -> OnBoard]
       /\ \A x \in OnBoard : \E n \in 1 .. Cardinality(OnBoard) : Board[n] = x
       /\ \A m, n \in 1 .. Cardinality(OnBoard) : m < n <=> <<Board[m], Board[n]>> \in R
       /\ \A m, n \in 1 .. Cardinality(OnBoard) : Board[m] = Board[n] => m = n
  <2>1. IsFiniteSet(OnBoard)
    BY <1>1
  <2>2. QED
    BY <2>1, <1>7, <1>8, <1>9, <1>11, <1>13, Enumerates
<1>15. QED
  BY <1>1, <1>14

\* The board depends on what is stored alone.
LEMMA BoardStays == todos' = todos => OnBoard' = OnBoard /\ Board' = Board
<1> SUFFICES ASSUME todos' = todos PROVE OnBoard' = OnBoard /\ Board' = Board
  OBVIOUS
<1>1. OnBoard' = OnBoard
  BY DEF OnBoard, Live
<1>2. \A k : PlaceOnBoard(k)' = PlaceOnBoard(k)
  BY <1>1 DEF PlaceOnBoard, Before
<1>3. QED
  BY <1>1, <1>2 DEF Board

Lines == TodoKeys \cup Range(VaultTasks)
Line(n) == IF n <= Cardinality(OnBoard) THEN Board[n] ELSE VaultTasks[n - Cardinality(OnBoard)]
InAll == Cardinality(OnBoard) + Len(VaultTasks)

ListingShape(client) ==
    /\ listing[client] \in [at : Nat \cup {-1}, count : Nat \cup {-1}, got : Seq(Lines), quiet : BOOLEAN]
    /\ listing[client].at = -1 => listing[client].count = -1

\* A client nobody has disturbed has got the first lines of the board, as far as it is.
ListingIsExact(client) ==
    /\ listing[client].count \in {-1, Cardinality(OnBoard)}
    /\ Len(listing[client].got) = IF listing[client].at = -1 THEN InAll ELSE listing[client].at
    /\ Len(listing[client].got) <= InAll
    /\ \A n \in 1 .. Len(listing[client].got) : listing[client].got[n] = Line(n)

ListingsInv ==
    /\ listing = [client \in TodoClients |-> listing[client]]
    /\ \A client \in TodoClients :
          ListingShape(client) /\ (listing[client].quiet => ListingIsExact(client))

BoardInv == TimesInv /\ ListingsInv

LEMMA BoardStarts == TodosInit => BoardInv
<1> SUFFICES ASSUME TodosInit PROVE BoardInv
  OBVIOUS
<1>1. \A client \in TodoClients : ~Pending(client)
  BY DEF TodosInit, Pending, NoRequest
<1>2. TimesInv
  BY <1>1 DEF TimesInv, TodosInit
<1>3. NotListing \in [at : Nat \cup {-1}, count : Nat \cup {-1}, got : Seq(Lines), quiet : BOOLEAN]
  <2>1. <<>> \in Seq(Lines)
    OBVIOUS
  <2>2. QED
    BY <2>1 DEF NotListing
<1>4. ListingsInv
  BY <1>3 DEF ListingsInv, ListingShape, TodosInit, NotListing
<1>5. QED
  BY <1>2, <1>4 DEF BoardInv

\* What a client has got when it is at the end
LEMMA BoardIsSound == TodosInv /\ BoardInv => BoardIsListedOnce
<1> SUFFICES ASSUME TodosInv, BoardInv, NEW client \in TodoClients,
                    listing[client].at = -1, listing[client].quiet
             PROVE  /\ Len(listing[client].got) = Cardinality(OnBoard) + Len(VaultTasks)
                    /\ Range(listing[client].got) = OnBoard \cup Range(VaultTasks)
  BY DEF BoardIsListedOnce
<1>1. ListingShape(client) /\ ListingIsExact(client)
  BY DEF BoardInv, ListingsInv
<1>2. PICK got \in Seq(Lines) : got = listing[client].got
  BY <1>1 DEF ListingShape
<1>3. Len(got) = InAll /\ \A n \in 1 .. Len(got) : got[n] = Line(n)
  BY <1>1, <1>2 DEF ListingIsExact
<1>4. PICK count \in Nat : count = Cardinality(OnBoard)
  BY BoardIsInOrder DEF BoardInv
<1>5. PICK tasks \in Seq(Range(VaultTasks)) : tasks = VaultTasks
  BY TodosAssumption
<1>6. PICK board : board = Board
  OBVIOUS
<1>7. /\ \A n \in 1 .. count : board[n] \in OnBoard
      /\ \A key \in OnBoard : \E n \in 1 .. count : board[n] = key
  BY <1>4, <1>6, BoardIsInOrder DEF BoardInv
<1>8. Len(got) = count + Len(tasks) /\ DOMAIN got = 1 .. count + Len(tasks)
  BY <1>3, <1>4, <1>5 DEF InAll
<1>9. ASSUME NEW n \in 1 .. count + Len(tasks)
      PROVE  got[n] = IF n <= count THEN board[n] ELSE tasks[n - count]
  BY <1>3, <1>4, <1>5, <1>6, <1>8 DEF Line
<1>10. ASSUME NEW line \in Range(got) PROVE line \in OnBoard \cup Range(tasks)
  <2>1. PICK n \in 1 .. count + Len(tasks) : line = got[n]
    BY <1>8 DEF Range
  <2>2. CASE n <= count
    BY <1>7, <1>9, <2>1, <2>2
  <2>3. CASE ~(n <= count)
    <3>1. n - count \in DOMAIN tasks /\ line = tasks[n - count]
      BY <1>9, <2>1, <2>3
    <3>2. QED
      BY <3>1 DEF Range
  <2>4. QED
    BY <2>2, <2>3
<1>11. ASSUME NEW line \in OnBoard PROVE line \in Range(got)
  <2>1. PICK n \in 1 .. count : line = board[n]
    BY <1>7
  <2>2. n \in DOMAIN got /\ got[n] = line
    BY <1>8, <1>9, <2>1
  <2>3. QED
    BY <2>2 DEF Range
<1>12. ASSUME NEW line \in Range(tasks) PROVE line \in Range(got)
  <2>1. PICK n \in 1 .. Len(tasks) : line = tasks[n]
    BY DEF Range
  <2>2. /\ count + n \in 1 .. count + Len(tasks) /\ ~(count + n <= count) /\ count + n - count = n
    OBVIOUS
  <2>3. got[count + n] = tasks[n]
    BY <1>9, <2>2
  <2>4. QED
    BY <1>8, <2>1, <2>2, <2>3 DEF Range
<1>13. Range(got) = OnBoard \cup Range(tasks)
  BY <1>10, <1>11, <1>12
<1>14. QED
  BY <1>2, <1>4, <1>5, <1>8, <1>13

\* A page that starts within a list, or behind it
LEMMA SliceIsOfList ==
  ASSUME NEW S, NEW list \in Seq(S), NEW from \in Nat, NEW n \in Nat
  PROVE  /\ Slice(list, from, n) \in Seq(S)
         /\ Len(Slice(list, from, n)) =
                IF from + n < Len(list) THEN n ELSE IF from <= Len(list) THEN Len(list) - from ELSE 0
         /\ \A i \in 1 .. Len(Slice(list, from, n)) :
                Slice(list, from, n)[i] = list[from + i] /\ from + i \in 1 .. Len(list)
<1>1. PICK to \in Nat : to = IF from + n < Len(list) THEN from + n ELSE Len(list)
  OBVIOUS
<1>2. PICK low \in Nat : low = from + 1
  OBVIOUS
<1>3. ASSUME NEW i \in low .. to PROVE list[i] \in S
  <2>1. i \in 1 .. Len(list)
    BY <1>1, <1>2
  <2>2. QED
    BY <2>1, ElementOfSeq
<1>4. /\ SubSeq(list, low, to) \in Seq(S)
      /\ Len(SubSeq(list, low, to)) = IF low <= to THEN to - low + 1 ELSE 0
      /\ \A i \in 1 .. to - low + 1 : SubSeq(list, low, to)[i] = list[low + i - 1]
  <2>1. low \in Int /\ to \in Int /\ \A i \in low .. to : list[i] \in S
    BY <1>3
  <2>2. QED
    BY <2>1, SubSeqProperties
<1>5. PICK lines :
          /\ lines = SubSeq(list, low, to)
          /\ lines \in Seq(S) /\ Len(lines) = IF low <= to THEN to - low + 1 ELSE 0
          /\ \A i \in 1 .. to - low + 1 : lines[i] = list[low + i - 1]
  BY <1>4
<1>6. Slice(list, from, n) = lines
  BY <1>1, <1>2, <1>5 DEF Slice
<1>7. Len(lines) = IF from + n < Len(list) THEN n ELSE IF from <= Len(list) THEN Len(list) - from ELSE 0
  BY <1>1, <1>2, <1>5
<1>8. ASSUME NEW i \in 1 .. Len(lines) PROVE lines[i] = list[from + i] /\ from + i \in 1 .. Len(list)
  <2>1. i \in 1 .. to - low + 1 /\ low + i - 1 = from + i
    BY <1>1, <1>2, <1>5
  <2>2. lines[i] = list[low + i - 1]
    BY <1>5, <2>1
  <2>3. from + i \in 1 .. Len(list)
    BY <1>1, <1>2, <2>1
  <2>4. QED
    BY <2>1, <2>2, <2>3
<1>9. QED
  BY <1>5, <1>6, <1>7, <1>8

\* The page of list_tasks: to-dos as long as there are any, then tasks of the Vault
BoardPage(at, count) ==
    LET local == IF at < count THEN Slice(Board, at, PageSize) ELSE <<>>
    IN  local \o Slice(VaultTasks, VaultOffset(at, count), PageSize - Len(local))

LEMMA PageIsOfBoard ==
  ASSUME TodosInv, TimesInv, NEW at \in Nat, at <= InAll
  PROVE  /\ BoardPage(at, Cardinality(OnBoard)) \in Seq(Lines)
         /\ Len(BoardPage(at, Cardinality(OnBoard))) = IF at + PageSize < InAll THEN PageSize ELSE InAll - at
         /\ \A i \in 1 .. Len(BoardPage(at, Cardinality(OnBoard))) :
               BoardPage(at, Cardinality(OnBoard))[i] = Line(at + i)
<1>1. PICK count \in Nat : count = Cardinality(OnBoard)
  BY BoardIsInOrder
<1>2. OnBoard \subseteq TodoKeys /\ Board \in [1 .. count -> OnBoard]
  BY <1>1, BoardIsInOrder
<1>3. PICK board \in Seq(Lines) : board = Board /\ Len(board) = count
  <2>1. Board \in [1 .. count -> Lines]
    BY <1>2 DEF Lines
  <2>2. QED
    BY <2>1, FunctionsAreLists
<1>4. PICK tasks \in Seq(Lines) : tasks = VaultTasks
  <2>1. VaultTasks \in Seq(Range(VaultTasks)) /\ Range(VaultTasks) \subseteq Lines
    BY TodosAssumption DEF Lines
  <2>2. VaultTasks \in Seq(Lines)
    BY <2>1, SeqMonotonic
  <2>3. QED
    BY <2>2
<1>5. PICK size \in Nat : size = PageSize /\ size > 0
  BY TodosAssumption
<1>6. InAll = count + Len(tasks) /\ at <= count + Len(tasks)
  BY <1>1, <1>4 DEF InAll
<1>7. PICK local : local = IF at < count THEN Slice(board, at, size) ELSE <<>>
  OBVIOUS
<1>8. /\ local \in Seq(Lines) /\ Len(local) \in Nat /\ Len(local) <= size
      /\ Len(local) = IF at < count THEN (IF at + size < count THEN size ELSE count - at) ELSE 0
      /\ \A i \in 1 .. Len(local) : local[i] = board[at + i] /\ at + i <= count
  <2>1. CASE at < count
    <3>1. /\ local \in Seq(Lines)
          /\ Len(local) = IF at + size < count THEN size ELSE IF at <= count THEN count - at ELSE 0
          /\ \A i \in 1 .. Len(local) : local[i] = board[at + i] /\ at + i \in 1 .. count
      <4>1. board \in Seq(Lines) /\ at \in Nat /\ size \in Nat /\ Len(board) = count
        BY <1>3
      <4>2. local = Slice(board, at, size)
        BY <1>7, <2>1
      <4>3. /\ Slice(board, at, size) \in Seq(Lines)
            /\ Len(Slice(board, at, size)) =
                   IF at + size < Len(board) THEN size ELSE IF at <= Len(board) THEN Len(board) - at ELSE 0
            /\ \A i \in 1 .. Len(Slice(board, at, size)) :
                   Slice(board, at, size)[i] = board[at + i] /\ at + i \in 1 .. Len(board)
        BY <4>1, SliceIsOfList, Zenon
      <4>4. QED
        BY <4>1, <4>2, <4>3
    <3>2. Len(local) \in Nat /\ Len(local) <= size
      BY <2>1, <3>1
    <3>3. QED
      BY <2>1, <3>1, <3>2
  <2>2. CASE ~(at < count)
    <3>1. local = <<>> /\ <<>> \in Seq(Lines) /\ Len(<<>>) = 0
      BY <1>7, <2>2
    <3>2. QED
      BY <2>2, <3>1
  <2>3. QED
    BY <2>1, <2>2
<1>9. PICK from \in Nat : from = VaultOffset(at, count) /\ from = IF at > count THEN at - count ELSE 0
  <2>1. (IF at > count THEN at - count ELSE 0) \in Nat
    OBVIOUS
  <2>2. QED
    BY <2>1 DEF VaultOffset
<1>10. PICK rest \in Nat : rest = size - Len(local)
  <2>1. size - Len(local) \in Nat
    BY <1>8
  <2>2. QED
    BY <2>1
<1>11. PICK remote : remote = Slice(tasks, from, rest)
  OBVIOUS
<1>12. /\ remote \in Seq(Lines)
       /\ Len(remote) = IF from + rest < Len(tasks) THEN rest
                        ELSE IF from <= Len(tasks) THEN Len(tasks) - from ELSE 0
       /\ \A i \in 1 .. Len(remote) : remote[i] = tasks[from + i] /\ from + i \in 1 .. Len(tasks)
  <2>1. tasks \in Seq(Lines) /\ from \in Nat /\ rest \in Nat
    BY <1>4, <1>9, <1>10
  <2>2. /\ Slice(tasks, from, rest) \in Seq(Lines)
        /\ Len(Slice(tasks, from, rest)) =
               IF from + rest < Len(tasks) THEN rest
               ELSE IF from <= Len(tasks) THEN Len(tasks) - from ELSE 0
        /\ \A i \in 1 .. Len(Slice(tasks, from, rest)) :
               Slice(tasks, from, rest)[i] = tasks[from + i] /\ from + i \in 1 .. Len(tasks)
    BY <2>1, SliceIsOfList, Zenon
  <2>3. QED
    BY <1>11, <2>2
<1>13. PICK lines : lines = local \o remote
  OBVIOUS
<1>14. /\ lines \in Seq(Lines) /\ Len(lines) = Len(local) + Len(remote)
       /\ \A i \in 1 .. Len(local) + Len(remote) :
             lines[i] = IF i <= Len(local) THEN local[i] ELSE remote[i - Len(local)]
  <2>1. local \in Seq(Lines) /\ remote \in Seq(Lines)
    BY <1>8, <1>12
  <2>2. QED
    BY <1>13, <2>1, ConcatProperties, Zenon
<1>15. BoardPage(at, Cardinality(OnBoard)) = lines
  BY <1>1, <1>3, <1>4, <1>5, <1>7, <1>9, <1>10, <1>11, <1>13 DEF BoardPage
<1>16. Len(remote) \in Nat
  BY <1>12
<1>17. Len(lines) = IF at + size < count + Len(tasks) THEN size ELSE count + Len(tasks) - at
  <2>1. Len(tasks) \in Nat
    OBVIOUS
  <2>2. CASE at < count
    <3>1. from = 0
      BY <1>9, <2>2
    <3>2. CASE at + size < count
      <4>1. Len(local) = size /\ rest = 0
        BY <1>8, <1>10, <2>2, <3>2
      <4>2. Len(remote) = 0
        BY <1>12, <2>1, <3>1, <4>1
      <4>3. QED
        BY <1>14, <2>1, <3>2, <4>1, <4>2
    <3>3. CASE ~(at + size < count)
      <4>1. Len(local) = count - at /\ rest = size - (count - at)
        BY <1>8, <1>10, <2>2, <3>3
      <4>2. Len(remote) = IF rest < Len(tasks) THEN rest ELSE Len(tasks)
        BY <1>12, <2>1, <3>1
      <4>3. QED
        BY <1>14, <2>1, <2>2, <3>3, <4>1, <4>2
    <3>4. QED
      BY <3>2, <3>3
  <2>3. CASE ~(at < count)
    BY <1>6, <1>8, <1>9, <1>10, <1>12, <1>14, <2>1, <2>3
  <2>4. QED
    BY <2>2, <2>3
<1>18. ASSUME NEW i \in 1 .. Len(lines) PROVE lines[i] = Line(at + i)
  <2>1. i \in 1 .. Len(local) + Len(remote) /\ i \in Nat
    BY <1>8, <1>14, <1>16
  <2>2. CASE i <= Len(local)
    <3>1. lines[i] = board[at + i] /\ at + i <= count
      BY <1>8, <1>14, <2>1, <2>2
    <3>2. QED
      BY <1>1, <1>3, <3>1 DEF Line
  <2>3. CASE ~(i <= Len(local))
    <3>1. i - Len(local) \in 1 .. Len(remote)
      BY <1>8, <2>1, <2>3
    <3>2. lines[i] = tasks[from + (i - Len(local))] /\ from + (i - Len(local)) \in 1 .. Len(tasks)
      BY <1>12, <1>14, <2>1, <2>3, <3>1
    <3>3. from + (i - Len(local)) = (at + i) - count /\ ~(at + i <= count)
      <4>1. CASE at < count
        <5>1. Len(local) = count - at
          <6>1. rest > 0
            BY <1>10, <1>12, <1>16, <3>1
          <6>2. QED
            BY <1>8, <1>10, <4>1, <6>1
        <5>2. QED
          BY <1>9, <2>1, <3>1, <4>1, <5>1
      <4>2. CASE ~(at < count)
        BY <1>8, <1>9, <2>1, <2>3, <4>2
      <4>3. QED
        BY <4>1, <4>2
    <3>4. QED
      BY <1>1, <1>4, <3>2, <3>3 DEF Line
  <2>4. QED
    BY <2>2, <2>3
<1>19. QED
  BY <1>5, <1>6, <1>14, <1>15, <1>17, <1>18

\* Neither board nor listings change.
LEMMA ListingsStay == ListingsInv /\ todos' = todos /\ listing' = listing => ListingsInv'
<1> SUFFICES ASSUME ListingsInv, todos' = todos, listing' = listing PROVE ListingsInv'
  OBVIOUS
<1>1. OnBoard' = OnBoard /\ Board' = Board
  BY BoardStays
<1>2. InAll' = InAll /\ \A n : Line(n)' = Line(n)
  BY <1>1 DEF InAll, Line
<1>3. QED
  BY <1>1, <1>2 DEF ListingsInv, ListingShape, ListingIsExact

\* A write disturbs all of them.
LEMMA WritesDisturb ==
  ASSUME ListingsInv, NEW key, NEW row, Write(key, row)
  PROVE  ListingsInv'
<1>1. listing' = [client \in TodoClients |-> [listing[client] EXCEPT !.quiet = FALSE, !.got = <<>>]]
  BY DEF Write
<1>2. ASSUME NEW client \in TodoClients
      PROVE  ListingShape(client)' /\ ~listing'[client].quiet
  <2>1. ListingShape(client) /\ <<>> \in Seq(Lines)
    BY DEF ListingsInv
  <2>2. listing'[client] = [listing[client] EXCEPT !.quiet = FALSE, !.got = <<>>]
    BY <1>1
  <2>3. QED
    BY <2>1, <2>2 DEF ListingShape
<1>3. listing' = [client \in TodoClients |-> listing'[client]]
  BY <1>1
<1>4. QED
  BY <1>2, <1>3 DEF ListingsInv

LEMMA CountKeepsListings ==
  ASSUME TodosInv, BoardInv, NEW client \in TodoClients, CountTodos(client)
  PROVE  ListingsInv'
<1>1. /\ todos' = todos /\ listing[client].count = -1
      /\ listing' = [listing EXCEPT ![client] =
                        IF listing[client].at = -1
                        THEN [at |-> 0, count |-> Len(Board), got |-> <<>>, quiet |-> TRUE]
                        ELSE [listing[client] EXCEPT !.count = Len(Board)]]
  BY DEF CountTodos
<1>2. PICK count \in Nat : count = Cardinality(OnBoard) /\ count = Len(Board)
  <2>1. Cardinality(OnBoard) \in Nat /\ Board \in [1 .. Cardinality(OnBoard) -> OnBoard]
    BY BoardIsInOrder DEF BoardInv
  <2>2. Len(Board) = Cardinality(OnBoard)
    BY <2>1, FunctionsAreLists
  <2>3. QED
    BY <2>1, <2>2
<1>3. OnBoard' = OnBoard /\ Board' = Board /\ InAll' = InAll /\ \A n : Line(n)' = Line(n)
  BY <1>1, BoardStays DEF InAll, Line
<1>4. ListingShape(client) /\ (listing[client].quiet => ListingIsExact(client))
  BY DEF BoardInv, ListingsInv
<1>5. listing = [c0 \in TodoClients |-> listing[c0]]
  BY DEF BoardInv, ListingsInv
<1>6. listing'[client] = IF listing[client].at = -1
                         THEN [at |-> 0, count |-> count, got |-> <<>>, quiet |-> TRUE]
                         ELSE [listing[client] EXCEPT !.count = count]
  BY <1>1, <1>2, <1>5
<1>7. CASE listing[client].at = -1
  <2>1. <<>> \in Seq(Lines) /\ Len(<<>>) = 0
    OBVIOUS
  <2>2. listing'[client] = [at |-> 0, count |-> count, got |-> <<>>, quiet |-> TRUE]
    BY <1>6, <1>7
  <2>3. ListingShape(client)'
    BY <2>1, <2>2 DEF ListingShape
  <2>4. 0 <= InAll
    <3>1. Len(VaultTasks) \in Nat
      BY TodosAssumption
    <3>2. QED
      BY <1>2, <3>1 DEF InAll
  <2>5. ListingIsExact(client)'
    <3>1. /\ listing'[client].at = 0 /\ listing'[client].count = count
          /\ Len(listing'[client].got) = 0
      BY <2>1, <2>2
    <3>2. \A n \in 1 .. Len(listing'[client].got) : FALSE
      BY <3>1
    <3>3. Cardinality(OnBoard)' = count /\ Len(listing'[client].got) <= InAll'
      BY <1>2, <1>3, <2>4, <3>1
    <3>4. QED
      BY <3>1, <3>2, <3>3 DEF ListingIsExact
  <2>6. QED
    BY <1>1, <1>3, <1>5, <2>3, <2>5 DEF BoardInv, ListingsInv, ListingShape, ListingIsExact
<1>8. CASE listing[client].at # -1
  <2>1. listing'[client] = [listing[client] EXCEPT !.count = count]
    BY <1>6, <1>8
  <2>2. ListingShape(client)'
    BY <1>4, <1>8, <2>1 DEF ListingShape
  <2>3. /\ listing'[client].count = count /\ listing'[client].at = listing[client].at
        /\ listing'[client].got = listing[client].got /\ listing'[client].quiet = listing[client].quiet
    BY <1>4, <2>1 DEF ListingShape
  <2>4. listing'[client].quiet => ListingIsExact(client)'
    BY <1>2, <1>3, <1>4, <2>3 DEF ListingIsExact
  <2>5. QED
    BY <1>1, <1>3, <1>5, <2>2, <2>4 DEF BoardInv, ListingsInv, ListingShape, ListingIsExact
<1>9. QED
  BY <1>7, <1>8

LEMMA PageKeepsListings ==
  ASSUME TodosInv, BoardInv, NEW client \in TodoClients, ReadPage(client)
  PROVE  ListingsInv'
<1>1. ListingShape(client) /\ (listing[client].quiet => ListingIsExact(client))
  BY DEF BoardInv, ListingsInv
<1>2. PICK at \in Nat, count \in Nat : at = listing[client].at /\ count = listing[client].count
  <2>1. listing[client].count >= 0
    BY DEF ReadPage
  <2>2. QED
    BY <1>1, <2>1 DEF ListingShape
<1>3. PICK lines : lines = BoardPage(at, count)
  OBVIOUS
<1>4. /\ todos' = todos
      /\ listing' = [listing EXCEPT ![client].got = IF listing[client].quiet THEN @ \o lines ELSE <<>>,
                                    ![client].at = IF count + Len(VaultTasks) > at + Len(lines) THEN at + PageSize ELSE -1,
                                    ![client].count = -1]
  BY <1>2, <1>3 DEF ReadPage, BoardPage
<1>5. listing = [c0 \in TodoClients |-> listing[c0]]
  BY DEF BoardInv, ListingsInv
<1>6. PICK got \in Seq(Lines) : got = listing[client].got
  BY <1>1 DEF ListingShape
<1>7. PICK new : new = IF listing[client].quiet THEN got \o lines ELSE <<>>
  OBVIOUS
<1>8. PICK next : next = IF count + Len(VaultTasks) > at + Len(lines) THEN at + PageSize ELSE -1
  OBVIOUS
<1>9. next \in Nat \cup {-1}
  BY <1>8, TodosAssumption
<1>10. /\ listing'[client] = [listing[client] EXCEPT !.got = new, !.at = next, !.count = -1]
       /\ \A other \in TodoClients \ {client} : listing'[other] = listing[other]
       /\ listing' = [c0 \in TodoClients |-> listing'[c0]]
  BY <1>4, <1>5, <1>6, <1>7, <1>8
<1>11. /\ listing'[client].at = next /\ listing'[client].count = -1 /\ listing'[client].got = new
       /\ listing'[client].quiet = listing[client].quiet
  BY <1>1, <1>10 DEF ListingShape
<1>12. OnBoard' = OnBoard /\ Board' = Board /\ InAll' = InAll /\ \A n : Line(n)' = Line(n)
  BY <1>4, BoardStays DEF InAll, Line
<1>13. ASSUME listing[client].quiet
       PROVE  new \in Seq(Lines) /\ ListingIsExact(client)'
  <2>1. ListingIsExact(client) /\ listing[client].quiet
    BY <1>1, <1>13
  <2>2. at # -1 /\ count # -1
    OBVIOUS
  <2>3. count = Cardinality(OnBoard) /\ Len(got) = at /\ at <= InAll /\ \A n \in 1 .. at : got[n] = Line(n)
    BY <1>2, <1>6, <2>1, <2>2 DEF ListingIsExact
  <2>4. PICK size \in Nat, all \in Nat : size = PageSize /\ size > 0 /\ all = InAll /\ all = count + Len(VaultTasks)
    <3>1. Len(VaultTasks) \in Nat
      BY TodosAssumption
    <3>2. InAll \in Nat /\ InAll = count + Len(VaultTasks)
      BY <2>3, <3>1 DEF InAll
    <3>3. PageSize \in Nat /\ PageSize > 0
      BY TodosAssumption
    <3>4. QED
      BY <3>2, <3>3
  <2>5. /\ lines \in Seq(Lines) /\ Len(lines) = IF at + size < all THEN size ELSE all - at
        /\ \A i \in 1 .. Len(lines) : lines[i] = Line(at + i)
    BY <1>3, <2>3, <2>4, PageIsOfBoard DEF BoardInv
  <2>6. /\ new = got \o lines /\ new \in Seq(Lines) /\ Len(new) = Len(got) + Len(lines)
        /\ \A i \in 1 .. Len(got) + Len(lines) : new[i] = IF i <= Len(got) THEN got[i] ELSE lines[i - Len(got)]
    <3>1. /\ got \o lines \in Seq(Lines) /\ Len(got \o lines) = Len(got) + Len(lines)
          /\ \A i \in 1 .. Len(got) + Len(lines) :
                 (got \o lines)[i] = IF i <= Len(got) THEN got[i] ELSE lines[i - Len(got)]
      BY <2>5, ConcatProperties, Zenon
    <3>2. new = got \o lines
      BY <1>7, <1>13
    <3>3. QED
      BY <3>1, <3>2
  <2>7. Len(new) = IF at + size < all THEN at + size ELSE all
    BY <2>3, <2>4, <2>5, <2>6
  <2>8. next = IF at + size < all THEN at + size ELSE -1
    BY <1>8, <2>3, <2>4, <2>5
  <2>9. Len(new) = (IF next = -1 THEN all ELSE next) /\ Len(new) <= all
    BY <2>4, <2>7, <2>8
  <2>10. ASSUME NEW i \in 1 .. Len(new) PROVE new[i] = Line(i)
    <3>1. i \in 1 .. Len(got) + Len(lines) /\ Len(lines) \in Nat
      BY <2>5, <2>6
    <3>2. CASE i <= at
      <4>1. i \in 1 .. at /\ i <= Len(got)
        BY <2>3, <3>1, <3>2
      <4>2. new[i] = got[i] /\ got[i] = Line(i)
        BY <2>3, <2>6, <3>1, <4>1
      <4>3. QED
        BY <4>2
    <3>3. CASE ~(i <= at)
      <4>1. i - at \in 1 .. Len(lines) /\ at + (i - at) = i
        BY <2>3, <3>1, <3>3
      <4>2. new[i] = lines[i - at]
        BY <2>3, <2>6, <3>1, <3>3
      <4>3. QED
        BY <2>5, <4>1, <4>2
    <3>4. QED
      BY <3>2, <3>3
  <2>11. ListingIsExact(client)'
    BY <1>11, <1>12, <2>4, <2>9, <2>10 DEF ListingIsExact
  <2>12. QED
    BY <2>6, <2>11
<1>14. new \in Seq(Lines)
  <2>1. <<>> \in Seq(Lines)
    OBVIOUS
  <2>2. QED
    BY <1>7, <1>13, <2>1
<1>15. ListingShape(client)'
  BY <1>1, <1>9, <1>10, <1>11, <1>14 DEF ListingShape
<1>16. listing'[client].quiet => ListingIsExact(client)'
  BY <1>11, <1>13
<1>17. ASSUME NEW other \in TodoClients \ {client}
       PROVE  ListingShape(other)' /\ (listing'[other].quiet => ListingIsExact(other)')
  <2>1. listing'[other] = listing[other]
    BY <1>10
  <2>2. ListingShape(other) /\ (listing[other].quiet => ListingIsExact(other))
    BY DEF BoardInv, ListingsInv
  <2>3. QED
    BY <1>12, <2>1, <2>2 DEF ListingShape, ListingIsExact
<1>18. QED
  BY <1>10, <1>15, <1>16, <1>17 DEF ListingsInv

LEMMA BoardKeeps == TodosInv /\ BoardInv /\ [TodosNext]_todoVars => BoardInv'
<1> SUFFICES ASSUME TodosInv, BoardInv, [TodosNext]_todoVars PROVE BoardInv'
  OBVIOUS
<1>1. TimesInv'
  BY TimesKeep DEF BoardInv
<1>2. ListingsInv
  BY DEF BoardInv
<1>3. ASSUME UNCHANGED todoVars PROVE ListingsInv'
  <2>1. todos' = todos /\ listing' = listing
    BY <1>3 DEF todoVars
  <2>2. QED
    BY <1>2, <2>1, ListingsStay
<1>4. ASSUME NEW client \in TodoClients, InsertTodo(client) \/ UpdateTodo(client)
      PROVE  ListingsInv'
  <2>1. CASE todos' = todos /\ listing' = listing
    BY <1>2, <2>1, ListingsStay
  <2>2. CASE Write(asking[client].todo, asking[client].row)
    BY <1>2, <2>2, WritesDisturb
  <2>3. QED
    BY <1>4, <2>1, <2>2 DEF InsertTodo, UpdateTodo
<1>5. ASSUME NEW client \in TodoClients, CountTodos(client) PROVE ListingsInv'
  BY <1>5, CountKeepsListings
<1>6. ASSUME NEW client \in TodoClients, ReadPage(client) PROVE ListingsInv'
  BY <1>6, PageKeepsListings
<1>7. ASSUME NEW client \in TodoClients, ReadDeleted(client) PROVE ListingsInv'
  BY <1>2, <1>7, ListingsStay DEF ReadDeleted
<1>8. ASSUME NEW client \in TodoClients, NEW key \in TodoKeys, NEW origin \in {"user", "model"},
             ReadForCreate(client, key, origin)
      PROVE  ListingsInv'
  BY <1>2, <1>8, ListingsStay DEF ReadForCreate
<1>9. ASSUME NEW client \in TodoClients, NEW key \in TodoKeys, NEW done \in BOOLEAN,
             ReadForUpdate(client, key, done)
      PROVE  ListingsInv'
  BY <1>2, <1>9, ListingsStay DEF ReadForUpdate
<1>10. ASSUME NEW client \in TodoClients, NEW key \in TodoKeys, NEW delete \in BOOLEAN,
              DeleteOrRestore(client, key, delete)
       PROVE  ListingsInv'
  <2>1. PICK row \in todos[key] : Write(key, [row EXCEPT !.deleted = delete, !.updated = stamp'])
    BY <1>10 DEF DeleteOrRestore
  <2>2. QED
    BY <1>2, <2>1, WritesDisturb
<1>11. ListingsInv'
  BY <1>3, <1>4, <1>5, <1>6, <1>7, <1>8, <1>9, <1>10 DEF TodosNext
<1>12. QED
  BY <1>1, <1>11 DEF BoardInv

-----------------------------------------------------------------------------
(* The settings of X co-creation: the inductive invariant *)

IsSave(state) == DOMAIN state = {"step", "on", "todo", "revision"}

\* What a save in this state has not written is what it has still to write, until it
\* writes the settings.
Prepared(state, done) ==
    /\ state.step \in {"read", "put"} => XSchedules \subseteq state.todo \cup done
    /\ state.step = "config" => done = XSchedules

XAutomationInv ==
    /\ DOMAIN saving = SettingSavers /\ written \in [SettingSavers -> SUBSET XSchedules]
    /\ xSettings.by \in SettingSavers \cup {NoSaver}
    /\ \A saver \in SettingSavers : IsSave(saving[saver]) /\ Prepared(saving[saver], written[saver])
    /\ SavedSettingsAreScheduled

LEMMA XAutomationStarts == XAutomationInit => XAutomationInv
<1> SUFFICES ASSUME XAutomationInit PROVE XAutomationInv
  OBVIOUS
<1>1. \A saver \in SettingSavers : saving[saver] = Asleep /\ written[saver] = {}
  BY DEF XAutomationInit
<1>2. \A saver \in SettingSavers : IsSave(saving[saver]) /\ Prepared(saving[saver], written[saver])
  BY <1>1 DEF IsSave, Prepared, Asleep
<1>3. QED
  BY <1>2 DEF XAutomationInit, XAutomationInv, SavedSettingsAreScheduled

\* A save takes its next step, and no settings are written.
LEMMA SaverKeeps ==
  ASSUME XAutomationInv, NEW saver \in SettingSavers, NEW state,
         saving' = [saving EXCEPT ![saver] = state], UNCHANGED <<xSettings, written>>,
         IsSave(state), Prepared(state, written[saver])
  PROVE  XAutomationInv'
<1>1. \A other \in SettingSavers : IsSave(saving'[other]) /\ Prepared(saving'[other], written'[other])
  BY DEF XAutomationInv
<1>2. QED
  BY <1>1 DEF XAutomationInv, SavedSettingsAreScheduled

\* A save that ends has nothing left to write.
LEMMA EndIsPrepared == \A done : IsSave(Ended) /\ Prepared(Ended, done) /\ IsSave(Asleep) /\ Prepared(Asleep, done)
BY DEF IsSave, Prepared, Ended, Asleep

LEMMA PutKeeps ==
  ASSUME XAutomationInv, NEW saver \in SettingSavers, PutSchedule(saver)
  PROVE  XAutomationInv'
<1> DEFINE sch == NextSchedule(saver)
<1>1. xSettings' = xSettings /\ saving[saver].step = "put"
  BY DEF PutSchedule
<1>2. CASE ~Putable(sch, saving[saver].revision)
  <2>1. saving' = [saving EXCEPT ![saver] = Ended] /\ written' = written
    BY <1>2 DEF PutSchedule, Saver
  <2>2. QED
    BY <1>1, <2>1, EndIsPrepared, SaverKeeps
<1>3. CASE Putable(sch, saving[saver].revision)
  <2> DEFINE state == [saving[saver] EXCEPT !.step = AfterPut(saver), !.todo = @ \ {sch}, !.revision = {}]
  <2>1. /\ saving' = [saving EXCEPT ![saver] = state]
        /\ written' = [written EXCEPT ![saver] = @ \cup {sch}]
    BY <1>3 DEF PutSchedule, Saver
  <2>2. /\ IsSave(state) /\ state.step = AfterPut(saver)
        /\ state.todo = saving[saver].todo \ {sch}
    <3>1. IsSave(saving[saver])
      BY DEF XAutomationInv
    <3>2. QED
      BY <3>1 DEF IsSave
  <2>3. sch \in XSchedules
    BY DEF NextSchedule, XSchedules
  <2>4. /\ XSchedules \subseteq saving[saver].todo \cup written[saver]
        /\ written[saver] \subseteq XSchedules
    BY <1>1 DEF XAutomationInv, Prepared
  <2>5. XSchedules \subseteq (saving[saver].todo \ {sch}) \cup (written[saver] \cup {sch})
    BY <2>4
  <2>6. AfterPut(saver) = "config" => written[saver] \cup {sch} = XSchedules
    <3>1. AfterPut(saver) = "config" => saving[saver].todo = {sch}
      BY DEF AfterPut
    <3>2. QED
      BY <2>3, <2>4, <3>1
  <2>7. Prepared(state, written[saver] \cup {sch})
    BY <2>2, <2>5, <2>6 DEF Prepared
  <2> HIDE DEF state, sch
  <2>8. written' \in [SettingSavers -> SUBSET XSchedules]
    BY <2>1, <2>3, <2>4 DEF XAutomationInv
  <2>9. ASSUME NEW other \in SettingSavers
         PROVE  IsSave(saving'[other]) /\ Prepared(saving'[other], written'[other])
    <3>1. CASE other = saver
      BY <2>1, <2>2, <2>7, <3>1 DEF XAutomationInv
    <3>2. CASE other # saver
      BY <2>1, <3>2 DEF XAutomationInv
    <3>3. QED
      BY <3>1, <3>2
  <2>10. SavedSettingsAreScheduled'
    BY <1>1, <2>1, <2>3 DEF XAutomationInv, SavedSettingsAreScheduled
  <2>11. QED
    BY <1>1, <2>1, <2>8, <2>9, <2>10 DEF XAutomationInv
<1>4. QED
  BY <1>2, <1>3

LEMMA XAutomationKeeps ==
  ASSUME XAutomationInv, [XAutomationNext]_xAutomationVars
  PROVE  XAutomationInv'
<1>1. ASSUME UNCHANGED <<xSettings, saving, written>> PROVE XAutomationInv'
  BY <1>1 DEF XAutomationInv, SavedSettingsAreScheduled
<1>2. CASE UNCHANGED xAutomationVars
  BY <1>1, <1>2 DEF xAutomationVars
<1>3. ASSUME NEW saver \in SettingSavers, NEW on \in BOOLEAN, BeginSave(saver, on)
      PROVE  XAutomationInv'
  <2> DEFINE state == [step |-> "read", on |-> on, todo |-> XSchedules, revision |-> {}]
  <2>1. saving' = [saving EXCEPT ![saver] = state] /\ UNCHANGED <<xSettings, written>>
    BY <1>3 DEF BeginSave, Saver
  <2>2. IsSave(state) /\ Prepared(state, written[saver])
    BY DEF IsSave, Prepared
  <2>3. QED
    BY <2>1, <2>2, SaverKeeps
<1>4. ASSUME NEW saver \in SettingSavers, ReadSchedule(saver) PROVE XAutomationInv'
  <2> DEFINE state == [saving[saver] EXCEPT !.step = "put",
                           !.revision = {row.revision : row \in xSchedules[NextSchedule(saver)]}]
  <2>1. /\ saving' = [saving EXCEPT ![saver] = state] /\ UNCHANGED <<xSettings, written>>
        /\ saving[saver].step = "read"
    BY <1>4 DEF ReadSchedule, Saver
  <2>2. IsSave(state) /\ state.step = "put" /\ state.todo = saving[saver].todo
    <3>1. IsSave(saving[saver])
      BY DEF XAutomationInv
    <3>2. QED
      BY <3>1 DEF IsSave
  <2>3. IsSave(state) /\ Prepared(state, written[saver])
    BY <2>1, <2>2 DEF XAutomationInv, Prepared
  <2>4. QED
    BY <2>1, <2>3, SaverKeeps
<1>5. ASSUME NEW saver \in SettingSavers, PutSchedule(saver) PROVE XAutomationInv'
  BY <1>5, PutKeeps
<1>6. ASSUME NEW saver \in SettingSavers, SaveSettings(saver) PROVE XAutomationInv'
  <2>1. /\ saving' = [saving EXCEPT ![saver] = Ended] /\ written' = written
        /\ xSettings'.by = saver /\ saving[saver].step = "config"
    BY <1>6 DEF SaveSettings, Saver
  <2>2. written[saver] = XSchedules
    BY <2>1 DEF XAutomationInv, Prepared
  <2>3. \A other \in SettingSavers : IsSave(saving'[other]) /\ Prepared(saving'[other], written'[other])
    BY <2>1, EndIsPrepared DEF XAutomationInv
  <2>4. QED
    BY <2>1, <2>2, <2>3 DEF XAutomationInv, SavedSettingsAreScheduled
<1>7. ASSUME NEW saver \in SettingSavers, SaveFails(saver) PROVE XAutomationInv'
  <2>1. saving' = [saving EXCEPT ![saver] = Ended] /\ UNCHANGED <<xSettings, written>>
    BY <1>7 DEF SaveFails, Saver
  <2>2. QED
    BY <2>1, EndIsPrepared, SaverKeeps
<1>8. ASSUME NEW sch \in XSchedules, ChangeXSchedule(sch) PROVE XAutomationInv'
  BY <1>1, <1>8 DEF ChangeXSchedule
<1>9. CASE RunScheduledSearch
  BY <1>1, <1>9 DEF RunScheduledSearch
<1>10. CASE RestartWithKey
  <2>1. /\ saving' = [saver \in SettingSavers |-> IF saving[saver].step = "idle" THEN Asleep ELSE Ended]
        /\ UNCHANGED <<xSettings, written>>
    BY <1>10 DEF RestartWithKey
  <2>2. \A other \in SettingSavers : IsSave(saving'[other]) /\ Prepared(saving'[other], written'[other])
    BY <2>1, EndIsPrepared
  <2>3. QED
    BY <2>1, <2>2 DEF XAutomationInv, SavedSettingsAreScheduled
<1>11. QED
  BY <1>2, <1>3, <1>4, <1>5, <1>6, <1>7, <1>8, <1>9, <1>10 DEF XAutomationNext

-----------------------------------------------------------------------------
(* Drafts of posts: the inductive invariant *)

DraftRows == [source : XTopics, published : BOOLEAN, final : Nat, updated : Nat]
EditRows == [draft : Nat, base : Nat, at : Nat]
Composings == [step : {"idle", "model", "saving"}, topics : SUBSET XTopics, at : Nat]

DraftsShape ==
    /\ savedTopics \subseteq XTopics /\ xStamp \in Nat
    /\ drafts \in Seq(DraftRows) /\ edits \in Seq(EditRows)
    /\ composing \in [Composers -> Composings]
    /\ viewed \in [Tabs -> [1 .. MaxDrafts -> Nat]]
    /\ recording \in [Tabs -> EditRows]

\* What a client has read, is recording, or has recorded is a draft that is there.
DraftsAreThere ==
    /\ \A tab \in Tabs :
          /\ \A n \in 1 .. MaxDrafts : viewed[tab][n] # 0 => n \in DOMAIN drafts
          /\ recording[tab] # NoPublication => recording[tab].draft \in DOMAIN drafts
    /\ \A k \in DOMAIN edits : edits[k].draft \in DOMAIN drafts

XDraftsInv == DraftsShape /\ DraftsAreThere /\ EditsAreAChain

LEMMA XDraftsStart == XDraftsInit => XDraftsInv
<1> SUFFICES ASSUME XDraftsInit PROVE XDraftsInv
  OBVIOUS
<1>1. DraftsShape
  BY DEF XDraftsInit, DraftsShape, NotComposing, NoPublication, Composings, EditRows
<1>2. DraftsAreThere
  BY DEF XDraftsInit, DraftsAreThere
<1>3. EditsAreAChain
  BY DEF XDraftsInit, EditsAreAChain
<1>4. QED
  BY <1>1, <1>2, <1>3 DEF XDraftsInv

\* A step that writes neither drafts nor edits
LEMMA DraftsStand ==
  ASSUME XDraftsInv, DraftsShape', UNCHANGED <<drafts, edits>>,
         \A tab \in Tabs :
             /\ \A n \in 1 .. MaxDrafts : viewed'[tab][n] # 0 => n \in DOMAIN drafts
             /\ recording'[tab] # NoPublication => recording'[tab].draft \in DOMAIN drafts
  PROVE  XDraftsInv'
<1>1. DraftsAreThere'
  BY DEF XDraftsInv, DraftsAreThere
<1>2. EditsAreAChain'
  BY DEF XDraftsInv, EditsAreAChain, EditsOf, Follows, IsLast
<1>3. QED
  BY <1>1, <1>2 DEF XDraftsInv

\* A composer takes its next step.
LEMMA ComposerKeeps ==
  ASSUME XDraftsInv, NEW composer \in Composers, NEW state \in Composings,
         composing' = [composing EXCEPT ![composer] = state],
         UNCHANGED <<savedTopics, drafts, edits, viewed, recording>>, xStamp' \in Nat
  PROVE  XDraftsInv'
<1>1. DraftsShape'
  BY DEF XDraftsInv, DraftsShape
<1>2. QED
  BY <1>1, DraftsStand DEF XDraftsInv, DraftsAreThere

LEMMA SaveDraftKeeps ==
  ASSUME XDraftsInv, NEW composer \in Composers, SaveDraft(composer)
  PROVE  XDraftsInv'
<1>1. /\ composing[composer] \in Composings /\ composing[composer].at \in Nat
      /\ UNCHANGED <<savedTopics, edits, viewed, recording, xStamp>>
  BY DEF SaveDraft, XDraftsInv, DraftsShape, Composings
<1>2. PICK i \in composing[composer].topics :
          \/ /\ Savable(i) /\ InsertDraft(i, composing[composer].at)
             /\ composing' = [composing EXCEPT ![composer] =
                    IF composing[composer].topics = {i} THEN NotComposing
                    ELSE [composing[composer] EXCEPT !.topics = @ \ {i}]]
          \/ ~Savable(i) /\ composing' = [composing EXCEPT ![composer] = NotComposing] /\ UNCHANGED drafts
  BY DEF SaveDraft
<1>3. i \in XTopics /\ NotComposing \in Composings
  BY <1>1 DEF Composings, NotComposing
<1>4. CASE ~Savable(i) /\ composing' = [composing EXCEPT ![composer] = NotComposing] /\ UNCHANGED drafts
  <2>1. xStamp' \in Nat
    BY <1>1 DEF XDraftsInv, DraftsShape
  <2>2. QED
    BY <1>1, <1>3, <1>4, <2>1, ComposerKeeps
<1>5. CASE /\ InsertDraft(i, composing[composer].at)
           /\ composing' = [composing EXCEPT ![composer] =
                  IF composing[composer].topics = {i} THEN NotComposing
                  ELSE [composing[composer] EXCEPT !.topics = @ \ {i}]]
  <2> DEFINE row == [source |-> i, published |-> FALSE, final |-> 0, updated |-> composing[composer].at]
  <2>1. drafts' = Append(drafts, row)
    BY <1>5 DEF InsertDraft
  <2>2. row \in DraftRows /\ ~row.published
    BY <1>1, <1>3 DEF DraftRows
  <2> HIDE DEF row
  <2>3. drafts \in Seq(DraftRows) /\ edits \in Seq(EditRows)
    BY DEF XDraftsInv, DraftsShape
  <2>4. /\ drafts' \in Seq(DraftRows) /\ Len(drafts') = Len(drafts) + 1
        /\ \A n \in 1 .. Len(drafts) : drafts'[n] = drafts[n]
        /\ drafts'[Len(drafts) + 1] = row
    BY <2>1, <2>2, <2>3
  <2>5. [composing[composer] EXCEPT !.topics = @ \ {i}] \in Composings
    BY <1>1 DEF Composings
  <2>6. composing' \in [Composers -> Composings]
    <3> DEFINE next == IF composing[composer].topics = {i} THEN NotComposing
                       ELSE [composing[composer] EXCEPT !.topics = @ \ {i}]
    <3>1. composing' = [composing EXCEPT ![composer] = next]
      BY <1>5
    <3>2. next \in Composings
      BY <1>3, <2>5
    <3> HIDE DEF next
    <3>3. QED
      BY <3>1, <3>2 DEF XDraftsInv, DraftsShape
  <2>7. DraftsShape'
    BY <1>1, <2>4, <2>6 DEF XDraftsInv, DraftsShape
  <2>8. \A n \in DOMAIN drafts : n \in DOMAIN drafts'
    BY <2>3, <2>4
  <2>9. DraftsAreThere'
    BY <1>1, <2>8 DEF XDraftsInv, DraftsAreThere
  <2>10. ASSUME NEW n \in 1 .. Len(drafts')
         PROVE  /\ drafts'[n].published <=> EditsOf(n)' # {}
                /\ \A k, l \in EditsOf(n)' : Follows(k, l, n)' => edits'[l].base = edits'[k].at
                /\ \A k \in EditsOf(n)' : IsLast(k, n)' =>
                       drafts'[n].final = edits'[k].at /\ drafts'[n].updated = edits'[k].at
    <3>1. EditsOf(n)' = EditsOf(n) /\ edits' = edits
      BY <1>1 DEF EditsOf
    <3>2. CASE n \in 1 .. Len(drafts)
      <4>1. drafts'[n] = drafts[n]
        BY <2>4, <3>2
      <4>2. /\ drafts[n].published <=> EditsOf(n) # {}
            /\ \A k, l \in EditsOf(n) : Follows(k, l, n) => edits[l].base = edits[k].at
            /\ \A k \in EditsOf(n) : IsLast(k, n) =>
                   drafts[n].final = edits[k].at /\ drafts[n].updated = edits[k].at
        BY <3>2 DEF XDraftsInv, EditsAreAChain
      <4>3. \A k, l : Follows(k, l, n)' = Follows(k, l, n) /\ IsLast(k, n)' = IsLast(k, n)
        BY <3>1 DEF Follows, IsLast
      <4>4. QED
        BY <3>1, <4>1, <4>2, <4>3
    <3>3. CASE n = Len(drafts) + 1
      <4>1. ~drafts'[n].published
        BY <2>2, <2>4, <3>3
      <4>2. EditsOf(n) = {}
        BY <2>3, <3>3 DEF EditsOf, XDraftsInv, DraftsAreThere
      <4>3. QED
        BY <3>1, <4>1, <4>2
    <3>4. QED
      BY <2>3, <2>4, <3>2, <3>3
  <2>11. EditsAreAChain'
    BY <2>10 DEF EditsAreAChain
  <2>12. QED
    BY <2>7, <2>9, <2>11 DEF XDraftsInv
<1>6. QED
  BY <1>2, <1>4, <1>5

LEMMA RecordingKeeps ==
  ASSUME XDraftsInv, NEW tab \in Tabs, RecordPublication(tab)
  PROVE  XDraftsInv'
<1>0. PICK n, base, at : n = recording[tab].draft /\ base = recording[tab].base /\ at = recording[tab].at
  OBVIOUS
<1>1. /\ UNCHANGED <<savedTopics, composing, xStamp>>
      /\ recording' = [recording EXCEPT ![tab] = NoPublication]
      /\ recording[tab] \in EditRows /\ recording[tab] # NoPublication
  BY DEF RecordPublication, XDraftsInv, DraftsShape
<1>2. n \in DOMAIN drafts /\ base \in Nat /\ at \in Nat
  BY <1>0, <1>1 DEF XDraftsInv, DraftsAreThere, EditRows
<1>3. /\ drafts \in Seq(DraftRows) /\ edits \in Seq(EditRows)
      /\ viewed \in [Tabs -> [1 .. MaxDrafts -> Nat]] /\ recording \in [Tabs -> EditRows]
  BY DEF XDraftsInv, DraftsShape
<1>4. recording' \in [Tabs -> EditRows]
  BY <1>1, <1>3 DEF NoPublication, EditRows
<1>5. \A other \in Tabs : recording'[other] # NoPublication =>
          recording'[other] = recording[other] /\ recording[other].draft \in DOMAIN drafts
  BY <1>1, <1>3 DEF XDraftsInv, DraftsAreThere
<1>6. CASE ~UnchangedSince(n, base)
  <2>1. UNCHANGED <<drafts, edits, viewed>>
    BY <1>0, <1>6 DEF RecordPublication
  <2>2. DraftsShape'
    BY <1>1, <1>4, <2>1 DEF XDraftsInv, DraftsShape
  <2>3. \A other \in Tabs : \A k \in 1 .. MaxDrafts : viewed'[other][k] # 0 => k \in DOMAIN drafts
    BY <2>1 DEF XDraftsInv, DraftsAreThere
  <2>4. QED
    BY <1>5, <2>1, <2>2, <2>3, DraftsStand
<1>7. CASE UnchangedSince(n, base)
  <2>1. /\ drafts' = [drafts EXCEPT ![n].published = TRUE, ![n].final = at, ![n].updated = at]
        /\ edits' = Append(edits, [draft |-> n, base |-> base, at |-> at])
        /\ viewed' = [viewed EXCEPT ![tab][n] = at]
    BY <1>0, <1>7 DEF RecordPublication
  <2>2. drafts[n].updated = base
    BY <1>7 DEF UnchangedSince
  <2>3. [draft |-> n, base |-> base, at |-> at] \in EditRows
    BY <1>2, <1>3 DEF EditRows
  <2> DEFINE edit == [draft |-> n, base |-> base, at |-> at]
             new == Len(edits) + 1
  <2>4. edit.draft = n /\ edit.base = base /\ edit.at = at
    OBVIOUS
  <2>5. edits' = Append(edits, edit)
    BY <2>1
  <2>6. n \in Nat /\ n \in 1 .. Len(drafts) /\ DOMAIN drafts = 1 .. Len(drafts) /\ Len(edits) \in Nat
    BY <1>2, <1>3
  <2> HIDE DEF edit
  <2>7. /\ edits' \in Seq(EditRows) /\ DOMAIN edits' = 1 .. Len(edits) + 1 /\ DOMAIN edits = 1 .. Len(edits)
        /\ \A k \in 1 .. Len(edits) : edits'[k] = edits[k]
        /\ edits'[new] = edit
    BY <1>3, <2>3, <2>5 DEF edit
  <2>8. /\ drafts' \in Seq(DraftRows) /\ DOMAIN drafts' = DOMAIN drafts /\ Len(drafts') = Len(drafts)
        /\ \A m \in DOMAIN drafts : m # n => drafts'[m] = drafts[m]
        /\ drafts'[n].published = TRUE /\ drafts'[n].final = at /\ drafts'[n].updated = at
    <3> DEFINE row == [drafts[n] EXCEPT !.published = TRUE, !.final = at, !.updated = at]
    <3>1. drafts[n] \in DraftRows
      BY <1>3, <2>6
    <3>2. row \in DraftRows /\ row.published = TRUE /\ row.final = at /\ row.updated = at
      BY <1>2, <3>1 DEF DraftRows
    <3>3. drafts' = [drafts EXCEPT ![n] = row]
      BY <2>1, <2>6
    <3> HIDE DEF row
    <3>4. QED
      BY <1>3, <2>6, <3>2, <3>3
  <2>9. viewed' \in [Tabs -> [1 .. MaxDrafts -> Nat]]
    BY <1>2, <1>3, <2>1
  <2>10. DraftsShape'
    BY <1>1, <1>4, <2>7, <2>8, <2>9 DEF XDraftsInv, DraftsShape
  <2>11. DraftsAreThere'
    <3>1. ASSUME NEW other \in Tabs, NEW k \in 1 .. MaxDrafts, viewed'[other][k] # 0
          PROVE  k \in DOMAIN drafts
      <4>1. viewed'[other][k] = viewed[other][k] \/ k = n
        BY <1>3, <2>1
      <4>2. QED
        BY <1>2, <2>6, <3>1, <4>1 DEF XDraftsInv, DraftsAreThere
    <3>2. ASSUME NEW k \in DOMAIN edits' PROVE edits'[k].draft \in DOMAIN drafts
      <4>1. CASE k \in 1 .. Len(edits)
        BY <2>7, <4>1 DEF XDraftsInv, DraftsAreThere
      <4>2. CASE k = new
        BY <2>4, <2>6, <2>7, <4>2
      <4>3. QED
        BY <2>6, <2>7, <3>2, <4>1, <4>2
    <3>3. QED
      BY <1>5, <2>8, <3>1, <3>2 DEF DraftsAreThere
  <2>12. ASSUME NEW m \in 1 .. Len(drafts)
         PROVE  /\ m # n => EditsOf(m)' = EditsOf(m)
                /\ m = n => EditsOf(m)' = EditsOf(m) \cup {new}
                /\ EditsOf(m) \subseteq 1 .. Len(edits)
    BY <2>4, <2>6, <2>7 DEF EditsOf
  <2>13. ASSUME NEW m \in 1 .. Len(drafts)
         PROVE  /\ drafts[m].published <=> EditsOf(m) # {}
                /\ \A k, l \in EditsOf(m) : Follows(k, l, m) => edits[l].base = edits[k].at
                /\ \A k \in EditsOf(m) : IsLast(k, m) =>
                       drafts[m].final = edits[k].at /\ drafts[m].updated = edits[k].at
    BY DEF XDraftsInv, EditsAreAChain
  <2>14. ASSUME NEW m \in 1 .. Len(drafts), m # n
         PROVE  /\ drafts'[m].published <=> EditsOf(m)' # {}
                /\ \A k, l \in EditsOf(m)' : Follows(k, l, m)' => edits'[l].base = edits'[k].at
                /\ \A k \in EditsOf(m)' : IsLast(k, m)' =>
                       drafts'[m].final = edits'[k].at /\ drafts'[m].updated = edits'[k].at
    <3>1. EditsOf(m)' = EditsOf(m) /\ drafts'[m] = drafts[m]
      BY <2>6, <2>8, <2>12, <2>14
    <3>2. \A k, l : (Follows(k, l, m)' <=> Follows(k, l, m)) /\ (IsLast(k, m)' <=> IsLast(k, m))
      BY <3>1 DEF Follows, IsLast
    <3>3. \A k \in EditsOf(m) : edits'[k] = edits[k]
      BY <2>7, <2>12
    <3>4. QED
      BY <2>13, <3>1, <3>2, <3>3
  <2>15. /\ drafts'[n].published <=> EditsOf(n)' # {}
         /\ \A k, l \in EditsOf(n)' : Follows(k, l, n)' => edits'[l].base = edits'[k].at
         /\ \A k \in EditsOf(n)' : IsLast(k, n)' =>
                drafts'[n].final = edits'[k].at /\ drafts'[n].updated = edits'[k].at
    <3>1. EditsOf(n)' = EditsOf(n) \cup {new} /\ EditsOf(n) \subseteq 1 .. Len(edits)
      BY <2>6, <2>12
    <3>2. drafts'[n].published <=> EditsOf(n)' # {}
      BY <2>8, <3>1
    <3>3. \A k \in EditsOf(n) : k < new /\ edits'[k] = edits[k]
      BY <2>6, <2>7, <3>1
    <3>4. ASSUME NEW k \in EditsOf(n)', NEW l \in EditsOf(n)', Follows(k, l, n)'
          PROVE  edits'[l].base = edits'[k].at
      <4>1. k < l /\ \A m \in EditsOf(n) : m <= k \/ l <= m
        BY <3>1, <3>4 DEF Follows
      <4>2. k \in EditsOf(n)
        <5>1. CASE k = new
          BY <2>6, <3>1, <3>3, <4>1, <5>1
        <5>2. QED
          BY <3>1, <3>4, <5>1
      <4>3. CASE l \in EditsOf(n)
        BY <2>6, <2>13, <3>3, <4>1, <4>2, <4>3 DEF Follows
      <4>4. CASE l = new
        <5>1. \A m \in EditsOf(n) : m <= k
          BY <2>6, <3>1, <4>1, <4>4
        <5>2. edits[k].at = drafts[n].updated
          BY <2>6, <2>13, <4>2, <5>1 DEF IsLast
        <5>3. QED
          BY <2>2, <2>4, <2>7, <3>3, <4>2, <4>4, <5>2
      <4>5. QED
        BY <3>1, <4>3, <4>4
    <3>5. ASSUME NEW k \in EditsOf(n)', IsLast(k, n)'
          PROVE  drafts'[n].final = edits'[k].at /\ drafts'[n].updated = edits'[k].at
      <4>1. new <= k
        BY <3>1, <3>5 DEF IsLast
      <4>2. k = new
        BY <2>6, <3>1, <3>3, <3>5, <4>1
      <4>3. QED
        BY <2>4, <2>7, <2>8, <4>2
    <3>6. QED
      BY <3>2, <3>4, <3>5
  <2>16. EditsAreAChain'
    BY <2>8, <2>14, <2>15 DEF EditsAreAChain
  <2>17. QED
    BY <2>10, <2>11, <2>16 DEF XDraftsInv
<1>8. QED
  BY <1>6, <1>7

LEMMA XDraftsKeep ==
  ASSUME XDraftsInv, [XDraftsNext]_xDraftVars
  PROVE  XDraftsInv'
<1>1. /\ xStamp \in Nat /\ xStamp + 1 \in Nat /\ NotComposing \in Composings
      /\ \A composer \in Composers : composing[composer] \in Composings
      /\ DraftsAreThere
  BY DEF XDraftsInv, DraftsShape, Composings, NotComposing
<1>2. CASE UNCHANGED xDraftVars
  <2>1. UNCHANGED <<savedTopics, drafts, edits, composing, viewed, recording, xStamp>>
    BY <1>2 DEF xDraftVars
  <2>2. DraftsShape'
    BY <2>1 DEF XDraftsInv, DraftsShape
  <2>3. QED
    BY <1>1, <2>1, <2>2, DraftsStand DEF DraftsAreThere
<1>3. ASSUME NEW i \in XTopics, SaveTopic(i) PROVE XDraftsInv'
  <2>1. /\ savedTopics' \subseteq savedTopics \cup {i}
        /\ UNCHANGED <<drafts, edits, composing, viewed, recording, xStamp>>
    BY <1>3 DEF SaveTopic
  <2>2. DraftsShape'
    BY <2>1 DEF XDraftsInv, DraftsShape
  <2>3. QED
    BY <1>1, <2>1, <2>2, DraftsStand DEF DraftsAreThere
<1>4. ASSUME NEW composer \in Composers, ComposeOnRequest(composer) \/ ComposeOnSchedule(composer)
      PROVE  XDraftsInv'
  <2> DEFINE state == [step |-> "model", topics |-> savedTopics, at |-> 0]
  <2>1. /\ composing' = [composing EXCEPT ![composer] = state]
        /\ UNCHANGED <<savedTopics, drafts, edits, viewed, recording>> /\ xStamp' = xStamp
    BY <1>4 DEF ComposeOnRequest, ComposeOnSchedule, ReadTopics
  <2>2. state \in Composings
    BY DEF XDraftsInv, DraftsShape, Composings
  <2> HIDE DEF state
  <2>3. QED
    BY <1>1, <2>1, <2>2, ComposerKeeps
<1>5. ASSUME NEW composer \in Composers, ModelRefused(composer) PROVE XDraftsInv'
  BY <1>1, <1>5, ComposerKeeps DEF ModelRefused
<1>6. ASSUME NEW composer \in Composers, ModelComposes(composer) PROVE XDraftsInv'
  <2>1. PICK used \in (SUBSET composing[composer].topics) \ {{}} :
            composing' = [composing EXCEPT ![composer] = [step |-> "saving", topics |-> used, at |-> xStamp']]
    BY <1>6 DEF ModelComposes
  <2>2. xStamp' = xStamp + 1 /\ UNCHANGED <<savedTopics, drafts, edits, viewed, recording>>
    BY <1>6 DEF ModelComposes
  <2>3. xStamp' \in Nat
    BY <1>1, <2>2
  <2>4. [step |-> "saving", topics |-> used, at |-> xStamp'] \in Composings
    BY <1>1, <2>3 DEF Composings
  <2>5. QED
    BY <2>1, <2>2, <2>3, <2>4, ComposerKeeps
<1>7. ASSUME NEW composer \in Composers, SaveDraft(composer) PROVE XDraftsInv'
  BY <1>7, SaveDraftKeeps
<1>8. ASSUME NEW tab \in Tabs, ListDrafts(tab) PROVE XDraftsInv'
  <2> DEFINE inView == [n \in 1 .. MaxDrafts |-> IF n <= Len(drafts) THEN drafts[n].updated ELSE 0]
  <2>1. /\ viewed' = [viewed EXCEPT ![tab] = inView]
        /\ UNCHANGED <<savedTopics, drafts, edits, composing, recording, xStamp>>
    BY <1>8 DEF ListDrafts
  <2>2. drafts \in Seq(DraftRows) /\ viewed \in [Tabs -> [1 .. MaxDrafts -> Nat]] /\ MaxDrafts \in Nat
    BY XDraftsAssumption DEF XDraftsInv, DraftsShape
  <2>3. \A n \in 1 .. MaxDrafts : n <= Len(drafts) => n \in DOMAIN drafts /\ drafts[n].updated \in Nat
    <3>1. \A n \in DOMAIN drafts : drafts[n] \in DraftRows
      BY <2>2
    <3>2. \A n \in 1 .. MaxDrafts : n <= Len(drafts) => n \in DOMAIN drafts
      BY <2>2
    <3>3. QED
      BY <3>1, <3>2 DEF DraftRows
  <2>4. inView \in [1 .. MaxDrafts -> Nat] /\ \A n \in 1 .. MaxDrafts : inView[n] # 0 => n \in DOMAIN drafts
    BY <2>3
  <2> HIDE DEF inView
  <2>5. viewed' \in [Tabs -> [1 .. MaxDrafts -> Nat]]
    BY <2>1, <2>2, <2>4
  <2>6. DraftsShape'
    BY <2>1, <2>5 DEF XDraftsInv, DraftsShape
  <2>7. \A other \in Tabs : \A n \in 1 .. MaxDrafts : viewed'[other][n] # 0 => n \in DOMAIN drafts
    BY <1>1, <2>1, <2>2, <2>4 DEF DraftsAreThere
  <2>8. QED
    BY <1>1, <2>1, <2>6, <2>7, DraftsStand DEF DraftsAreThere
<1>9. ASSUME NEW tab \in Tabs, RecordPublication(tab) PROVE XDraftsInv'
  BY <1>9, RecordingKeeps
<1>10. ASSUME NEW tab \in Tabs, NEW n \in 1 .. MaxDrafts, BeginPublication(tab, n) PROVE XDraftsInv'
  <2> DEFINE publication == [draft |-> n, base |-> viewed[tab][n], at |-> xStamp']
  <2>1. /\ recording' = [recording EXCEPT ![tab] = publication] /\ xStamp' = xStamp + 1
        /\ UNCHANGED <<savedTopics, drafts, edits, composing, viewed>> /\ viewed[tab][n] # 0
    BY <1>10 DEF BeginPublication
  <2>2. xStamp' \in Nat /\ n \in Nat /\ n \in DOMAIN drafts
    BY <1>1, <2>1 DEF DraftsAreThere
  <2>3. publication \in EditRows /\ publication.draft = n
    BY <2>2 DEF XDraftsInv, DraftsShape, EditRows
  <2> HIDE DEF publication
  <2>4. recording' \in [Tabs -> EditRows]
    BY <2>1, <2>3 DEF XDraftsInv, DraftsShape
  <2>5. DraftsShape'
    BY <2>1, <2>2, <2>4 DEF XDraftsInv, DraftsShape
  <2>6. \A other \in Tabs : recording'[other] # NoPublication => recording'[other].draft \in DOMAIN drafts
    BY <1>1, <2>1, <2>2, <2>3 DEF DraftsAreThere, XDraftsInv, DraftsShape
  <2>7. QED
    BY <1>1, <2>1, <2>5, <2>6, DraftsStand DEF DraftsAreThere
<1>11. QED
  BY <1>2, <1>3, <1>4, <1>5, <1>6, <1>7, <1>8, <1>9, <1>10 DEF XDraftsNext

-----------------------------------------------------------------------------
(* The search of X *)

\* What is kept of a list stands at some of the places, each taken once.
LEMMA KeptIsOfList ==
  ASSUME NEW S, NEW list \in Seq(S), NEW places \in SUBSET DOMAIN list
  PROVE  /\ Keep(list, places) \in Seq(S)
         /\ \A k \in DOMAIN Keep(list, places) : \E n \in places : Keep(list, places)[k] = list[n]
         /\ \A j, k \in DOMAIN Keep(list, places) : j # k =>
               \E m, n \in places : m # n /\ Keep(list, places)[j] = list[m] /\ Keep(list, places)[k] = list[n]
         /\ Keep(list, places) = <<>> => places = {}
<1> DEFINE R == {p \in places \X places : p[1] < p[2]}
<1>1. DOMAIN list = 1 .. Len(list) /\ Len(list) \in Nat /\ \A n \in DOMAIN list : list[n] \in S
  BY LenProperties
<1>2. IsFiniteSet(places) /\ places \subseteq Nat
  <2>1. IsFiniteSet(1 .. Len(list))
    BY <1>1, FS_Interval
  <2>2. QED
    BY <1>1, <2>1, FS_Subset
<1>3. \A m, n \in places : <<m, n>> \in R <=> m < n
  OBVIOUS
<1> HIDE DEF R
<1> DEFINE Place(k) == CHOOSE n \in places : Cardinality({m \in places : m < n}) + 1 = k
<1>4. PICK at : at = [k \in 1 .. Cardinality(places) |-> Place(k)]
  OBVIOUS
<1>5. \A n \in places : {m \in places : <<m, n>> \in R} = {m \in places : m < n}
  BY <1>3
<1>6. \A x \in places : <<x, x>> \notin R
  BY <1>2, <1>3
<1>7. \A x, y, z \in places : <<x, y>> \in R /\ <<y, z>> \in R => <<x, z>> \in R
  BY <1>2, <1>3
<1>8. \A x, y \in places : x # y => <<x, y>> \in R \/ <<y, x>> \in R
  BY <1>2, <1>3
<1>9. at = [k \in 1 .. Cardinality(places) |-> at[k]]
  <2> HIDE DEF Place
  <2>1. QED
    BY <1>4
<1>10. ASSUME NEW k \in 1 .. Cardinality(places), NEW x \in places,
              Cardinality({y \in places : <<y, x>> \in R}) + 1 = k
       PROVE  at[k] \in places /\ Cardinality({y \in places : <<y, at[k]>> \in R}) + 1 = k
  <2>1. Cardinality({m \in places : m < x}) + 1 = k
    BY <1>5, <1>10
  <2>2. at[k] \in places /\ Cardinality({m \in places : m < at[k]}) + 1 = k
    BY <1>4, <2>1
  <2>3. QED
    BY <1>5, <2>2
<1>11. \A k \in 1 .. Cardinality(places), x \in places :
          Cardinality({y \in places : <<y, x>> \in R}) + 1 = k =>
              at[k] \in places /\ Cardinality({y \in places : <<y, at[k]>> \in R}) + 1 = k
  BY <1>10
<1>12. /\ Cardinality(places) \in Nat
       /\ at \in [1 .. Cardinality(places) -> places]
       /\ \A x \in places : \E k \in 1 .. Cardinality(places) : at[k] = x
       /\ \A m, n \in 1 .. Cardinality(places) : m < n <=> <<at[m], at[n]>> \in R
       /\ \A m, n \in 1 .. Cardinality(places) : at[m] = at[n] => m = n
  <2>1. IsFiniteSet(places)
    BY <1>2
  <2>2. QED
    BY <2>1, <1>6, <1>7, <1>8, <1>9, <1>11, Enumerates
<1>13. PICK kept : kept = Keep(list, places)
  OBVIOUS
<1>14. kept = [k \in 1 .. Cardinality(places) |-> list[at[k]]]
  BY <1>4, <1>13 DEF Keep
<1>15. kept \in [1 .. Cardinality(places) -> S]
  BY <1>1, <1>12, <1>14
<1>16. kept \in Seq(S) /\ Len(kept) = Cardinality(places) /\ DOMAIN kept = 1 .. Cardinality(places)
  BY <1>12, <1>15, FunctionsAreLists
<1>17. ASSUME NEW j \in DOMAIN kept, NEW k \in DOMAIN kept, j # k
       PROVE  \E m, n \in places : m # n /\ kept[j] = list[m] /\ kept[k] = list[n]
  BY <1>12, <1>14, <1>16, <1>17
<1>18. ASSUME kept = <<>> PROVE places = {}
  <2>1. Cardinality(places) = 0
    BY <1>16, <1>18
  <2>2. QED
    BY <1>2, <2>1, FS_EmptySet
<1>19. \A k \in DOMAIN kept : \E n \in places : kept[k] = list[n]
  BY <1>12, <1>14, <1>16
<1>20. QED
  BY <1>13, <1>16, <1>17, <1>18, <1>19

\* The candidates to verify are whole, each at an address of its own, and there is one
\* unless the CLI has named none.
FoundInv ==
    search = "verifying" =>
        /\ \A n \in DOMAIN found : Candidates[found[n]].shapely
        /\ \A m, n \in DOMAIN found : m # n => Candidates[found[m]].url # Candidates[found[n]].url
        /\ found = <<>> => claimed = 0

XSearchInv ==
    /\ found \in Seq(DOMAIN Candidates)
    /\ FoundInv /\ EvidenceIsReal

LEMMA XSearchStarts == XSearchInit => XSearchInv
<1> SUFFICES ASSUME XSearchInit PROVE XSearchInv
  OBVIOUS
<1>1. <<>> \in Seq(DOMAIN Candidates)
  OBVIOUS
<1>2. QED
  BY <1>1 DEF XSearchInit, XSearchInv, FoundInv, EvidenceIsReal

LEMMA ParsedAreWhole ==
  ASSUME NEW items \in Seq(DOMAIN Candidates)
  PROVE  /\ Parsed(items) \in Seq(DOMAIN Candidates)
         /\ \A n \in DOMAIN Parsed(items) : Candidates[Parsed(items)[n]].shapely
         /\ \A m, n \in DOMAIN Parsed(items) : m # n =>
               Candidates[Parsed(items)[m]].url # Candidates[Parsed(items)[n]].url
<1> DEFINE Agrees(n) == Candidates[items[n]].shapely
           New(n) == \A m \in 1 .. n - 1 : Agrees(m) => Candidates[items[m]].url # Candidates[items[n]].url
<1>1. PICK places \in SUBSET DOMAIN items : places = {n \in DOMAIN items : Agrees(n) /\ New(n)}
  OBVIOUS
<1>2. \A n \in places : Agrees(n) /\ New(n)
  BY <1>1
<1>3. Parsed(items) = Keep(items, places)
  BY <1>1 DEF Parsed
<1>4. places \subseteq Nat
  BY LenProperties
<1>5. ASSUME NEW m \in places, NEW n \in places, m # n
      PROVE  Candidates[items[m]].url # Candidates[items[n]].url
  <2>1. m \in Nat /\ n \in Nat /\ m >= 1 /\ n >= 1
    <3>1. m \in 1 .. Len(items) /\ n \in 1 .. Len(items) /\ Len(items) \in Nat
      BY LenProperties
    <3>2. QED
      BY <3>1
  <2>2. CASE m < n
    <3>1. m \in 1 .. n - 1
      BY <2>1, <2>2
    <3>2. QED
      BY <1>2, <3>1
  <2>3. CASE n < m
    <3>1. n \in 1 .. m - 1
      BY <2>1, <2>3
    <3>2. QED
      BY <1>2, <3>1
  <2>4. QED
    BY <1>5, <2>1, <2>2, <2>3
<1>6. /\ Keep(items, places) \in Seq(DOMAIN Candidates)
      /\ \A k \in DOMAIN Keep(items, places) : \E n \in places : Keep(items, places)[k] = items[n]
      /\ \A j, k \in DOMAIN Keep(items, places) : j # k =>
            \E m, n \in places : m # n /\ Keep(items, places)[j] = items[m] /\ Keep(items, places)[k] = items[n]
  BY KeptIsOfList
<1> HIDE DEF New
<1>7. QED
  BY <1>2, <1>3, <1>5, <1>6

\* An answer is taken, or the search has failed.
LEMMA TakeKeeps ==
  ASSUME XSearchInv, NEW answer \in Payloads, TakeAnswer(answer)
  PROVE  XSearchInv'
<1>1. PICK items \in Seq(DOMAIN Candidates) : items = Parsed(answer.items)
  <2>1. answer.items \in Seq(DOMAIN Candidates)
    BY XSearchAssumption
  <2>2. QED
    BY <2>1, ParsedAreWhole
<1>2. /\ \A n \in DOMAIN items : Candidates[items[n]].shapely
      /\ \A m, n \in DOMAIN items : m # n => Candidates[items[m]].url # Candidates[items[n]].url
  <2>1. answer.items \in Seq(DOMAIN Candidates)
    BY XSearchAssumption
  <2>2. QED
    BY <1>1, <2>1, ParsedAreWhole
<1>3. CASE search' = "failed" /\ found' = found
  BY <1>3 DEF XSearchInv, FoundInv, EvidenceIsReal
<1>4. CASE /\ search' = "verifying" /\ found' = items /\ claimed' = Len(answer.items)
           /\ ~(items = <<>> /\ answer.items # <<>>)
  <2>1. found' = <<>> => claimed' = 0
    BY <1>4
  <2>2. QED
    BY <1>2, <1>4, <2>1 DEF XSearchInv, FoundInv, EvidenceIsReal
<1>5. QED
  BY <1>1, <1>3, <1>4 DEF TakeAnswer

LEMMA VerifyKeeps ==
  ASSUME XSearchInv, Verify
  PROVE  XSearchInv'
<1>1. /\ search = "verifying" /\ found' = found /\ claimed' = claimed
      /\ found \in Seq(DOMAIN Candidates) /\ FoundInv
  BY DEF Verify, XSearchInv
<1>2. PICK silent \in SUBSET Range(found) :
          LET kept == Keep(found, {n \in DOMAIN found : found[n] \notin silent /\ Confirmed(found[n])})
          IN IF kept = <<>> /\ found # <<>>
             THEN search' = "failed" /\ UNCHANGED verified
             ELSE search' = "answered" /\ verified' = kept
  BY DEF Verify
<1>3. PICK places \in SUBSET DOMAIN found :
          places = {n \in DOMAIN found : found[n] \notin silent /\ Confirmed(found[n])}
  OBVIOUS
<1>4. \A n \in places : Confirmed(found[n])
  BY <1>3
<1>5. PICK kept : kept = Keep(found, places)
  OBVIOUS
<1>6. /\ \A k \in DOMAIN kept : \E n \in places : kept[k] = found[n]
      /\ \A j, k \in DOMAIN kept : j # k => \E m, n \in places : m # n /\ kept[j] = found[m] /\ kept[k] = found[n]
  BY <1>1, <1>5, KeptIsOfList
<1>7. CASE search' = "failed"
  BY <1>1, <1>7 DEF XSearchInv, FoundInv, EvidenceIsReal
<1>8. CASE search' = "answered" /\ verified' = kept /\ ~(kept = <<>> /\ found # <<>>)
  <2>1. ASSUME NEW name \in Range(verified')
        PROVE  /\ Candidates[name].shapely /\ Candidates[name].author
               /\ Candidates[name].post \in DOMAIN Canonical
               /\ Canonical[Candidates[name].post] = Candidates[name].url
    <3>1. PICK k \in DOMAIN kept : name = kept[k]
      BY <1>8 DEF Range
    <3>2. PICK n \in places : name = found[n]
      BY <1>6, <3>1
    <3>3. Confirmed(name) /\ Candidates[name].shapely
      BY <1>1, <1>4, <3>2 DEF FoundInv
    <3>4. QED
      BY <3>3 DEF Confirmed
  <2>2. ASSUME NEW j \in DOMAIN kept, NEW k \in DOMAIN kept, j # k
        PROVE  Candidates[kept[j]].post # Candidates[kept[k]].post
    <3>1. PICK m \in places, n \in places : m # n /\ kept[j] = found[m] /\ kept[k] = found[n]
      BY <1>6, <2>2
    <3>2. Candidates[kept[j]].url # Candidates[kept[k]].url
      BY <1>1, <3>1 DEF FoundInv
    <3>3. Confirmed(kept[j]) /\ Confirmed(kept[k])
      BY <1>4, <3>1
    <3>4. QED
      BY <3>2, <3>3 DEF Confirmed
  <2>3. verified' = <<>> => claimed' = 0
    BY <1>1, <1>8 DEF FoundInv
  <2>4. EvidenceIsReal'
    BY <1>8, <2>1, <2>2, <2>3 DEF EvidenceIsReal
  <2>5. QED
    BY <1>1, <1>8, <2>4 DEF XSearchInv, FoundInv
<1>9. QED
  BY <1>2, <1>3, <1>5, <1>7, <1>8

LEMMA XSearchKeeps == XSearchInv /\ [XSearchNext]_searchVars => XSearchInv'
<1> SUFFICES ASSUME XSearchInv, [XSearchNext]_searchVars PROVE XSearchInv'
  OBVIOUS
<1>1. CASE UNCHANGED searchVars
  BY <1>1 DEF searchVars, XSearchInv, FoundInv, EvidenceIsReal
<1>2. CASE RunCli \/ CliFails \/ CancelSearch
  BY <1>2 DEF RunCli, CliFails, CancelSearch, XSearchInv, FoundInv, EvidenceIsReal
<1>3. CASE CliAnswers
  <2>1. CASE \E answer \in Payloads : TakeAnswer(answer)
    BY <2>1, TakeKeeps
  <2>2. CASE found' = found /\ search' \in {"running", "failed"}
    BY <2>2 DEF XSearchInv, FoundInv, EvidenceIsReal
  <2>3. QED
    BY <1>3, <2>1, <2>2 DEF CliAnswers
<1>4. CASE CliAnswersInText
  <2>1. PICK first \in Payloads, second \in Payloads :
            LET bodies == OfSequence(<<first, second>>)
            IN IF bodies = {} THEN search' = "failed" /\ UNCHANGED <<attempt, found, claimed>>
               ELSE \E answer \in bodies : TakeAnswer(answer)
    BY <1>4 DEF CliAnswersInText
  <2>2. CASE search' = "failed" /\ found' = found
    BY <2>2 DEF XSearchInv, FoundInv, EvidenceIsReal
  <2>3. OfSequence(<<first, second>>) \subseteq Payloads
    <3>1. \A k \in DOMAIN <<first, second>> : <<first, second>>[k] \in Payloads
      OBVIOUS
    <3>2. QED
      BY <3>1 DEF OfSequence
  <2>4. CASE \E answer \in Payloads : TakeAnswer(answer)
    BY <2>4, TakeKeeps
  <2>5. QED
    BY <2>1, <2>2, <2>3, <2>4
<1>5. CASE Verify
  BY <1>5, VerifyKeeps
<1>6. QED
  BY <1>1, <1>2, <1>3, <1>4, <1>5 DEF XSearchNext

-----------------------------------------------------------------------------
(* Settings and prompts: the inductive invariant *)

DocumentRows == [edit : Nat, version : Nat, over : Nat]
ViewedRows == [rows : [Documents -> DocumentRows], revision : Nat, active : Nat]
ParentOf(n) == IF n = 1 THEN 0 ELSE history[n - 1].edit

SettingsShape ==
    /\ editCount \in Nat /\ active \in Nat
    /\ documents \in [Documents -> DocumentRows]
    /\ history \in Seq([edit : Nat, parent : Nat])
    /\ seen \in [Editors -> ViewedRows]
    /\ DOMAIN appender = Editors

\* An editor that has seen the version a kept document is at has seen its edit.
SeenInv ==
    \A editor \in Editors, doc \in Kept :
        /\ seen[editor].rows[doc].version <= documents[doc].version
        /\ seen[editor].rows[doc].version = documents[doc].version =>
              seen[editor].rows[doc].edit = documents[doc].edit

\* A request knows the parent of the revision it may append, and every revision in the
\* history names its own.
ParentsInv ==
    /\ \A editor \in Editors : appender[editor].step = "read" =>
          /\ appender[editor].next \in 1 .. Len(history) + 1
          /\ appender[editor].parent = ParentOf(appender[editor].next)
    /\ \A n \in DOMAIN history : history[n].parent = ParentOf(n)

SettingsInv == SettingsShape /\ SeenInv /\ ParentsInv

LEMMA SettingsStart == SettingsInit => SettingsInv
<1> SUFFICES ASSUME SettingsInit PROVE SettingsInv
  OBVIOUS
<1>1. NoRow \in DocumentRows
  BY DEF NoRow, DocumentRows
<1>2. documents \in [Documents -> DocumentRows]
  BY <1>1 DEF SettingsInit
<1>3. [rows |-> documents, revision |-> 0, active |-> 0] \in ViewedRows
  BY <1>2 DEF ViewedRows
<1>4. SettingsShape
  BY <1>2, <1>3 DEF SettingsInit, SettingsShape
<1>5. ASSUME NEW editor \in Editors, NEW doc \in Kept
      PROVE  seen[editor].rows[doc] = documents[doc] /\ documents[doc].version \in Nat
  BY <1>2 DEF SettingsInit, Documents, DocumentRows
<1>6. SeenInv
  BY <1>5 DEF SeenInv
<1>7. ParentsInv
  BY DEF SettingsInit, ParentsInv, NotAppending
<1>8. QED
  BY <1>4, <1>6, <1>7 DEF SettingsInv

\* A step that leaves the history and the requests alone
LEMMA ParentsStand ==
  ASSUME SettingsInv, UNCHANGED <<history, appender>>
  PROVE  ParentsInv'
BY DEF SettingsInv, ParentsInv, ParentOf

LEMMA ReadSettingsKeeps ==
  ASSUME SettingsInv, NEW editor \in Editors, ReadSettings(editor)
  PROVE  SettingsInv'
<1> DEFINE view == [rows |-> documents, revision |-> Len(history), active |-> active]
<1>1. /\ seen' = [seen EXCEPT ![editor] = view]
      /\ UNCHANGED <<documents, history, active, appender, editCount>>
  BY DEF ReadSettings
<1>2. view \in ViewedRows /\ view.rows = documents
  BY DEF SettingsInv, SettingsShape, ViewedRows
<1> HIDE DEF view
<1>3. SettingsShape'
  BY <1>1, <1>2 DEF SettingsInv, SettingsShape
<1>4. ASSUME NEW other \in Editors, NEW doc \in Kept
      PROVE  seen'[other].rows[doc] \in {seen[other].rows[doc], documents[doc]}
  BY <1>1, <1>2 DEF SettingsInv, SettingsShape
<1>5. \A doc \in Kept : documents[doc].version \in Nat
  BY DEF SettingsInv, SettingsShape, DocumentRows, Documents
<1>6. SeenInv'
  BY <1>1, <1>4, <1>5 DEF SettingsInv, SeenInv
<1>7. QED
  BY <1>1, <1>3, <1>6, ParentsStand DEF SettingsInv

\* What an edit of a document makes of it, for its writer and for the others
LEMMA PutDocumentKeeps ==
  ASSUME SettingsInv, NEW editor \in Editors, NEW doc \in Documents, PutDocument(editor, doc)
  PROVE  SettingsInv'
<1>1. PICK row : row = [edit |-> editCount', version |-> documents[doc].version + 1,
                        over |-> seen[editor].rows[doc].edit]
  OBVIOUS
<1>2. /\ documents' = [documents EXCEPT ![doc] = row] /\ editCount' = editCount + 1
      /\ seen' = [seen EXCEPT ![editor].rows[doc] = documents'[doc]]
      /\ UNCHANGED <<history, active, appender>>
  BY <1>1 DEF PutDocument, AnEdit
<1>3. /\ documents \in [Documents -> DocumentRows] /\ seen \in [Editors -> ViewedRows]
      /\ editCount \in Nat /\ documents[doc].version \in Nat
  BY DEF SettingsInv, SettingsShape, DocumentRows
<1>4. \A other \in Editors : seen[other].rows \in [Documents -> DocumentRows]
  BY <1>3 DEF ViewedRows
<1>5. seen[editor].rows[doc].edit \in Nat /\ editCount' \in Nat
  BY <1>2, <1>3, <1>4 DEF DocumentRows
<1>6. row \in DocumentRows /\ row.version = documents[doc].version + 1
  BY <1>1, <1>3, <1>5 DEF DocumentRows
<1>7. documents' \in [Documents -> DocumentRows] /\ documents'[doc] = row
  BY <1>2, <1>3, <1>6
<1>8. seen' = [seen EXCEPT ![editor].rows[doc] = row]
  BY <1>2, <1>7
<1>9. seen' \in [Editors -> ViewedRows]
  <2>1. [seen[editor].rows EXCEPT ![doc] = row] \in [Documents -> DocumentRows]
    BY <1>4, <1>6
  <2>2. [seen[editor] EXCEPT !.rows = [seen[editor].rows EXCEPT ![doc] = row]] \in ViewedRows
    BY <1>3, <2>1 DEF ViewedRows
  <2>3. seen' = [seen EXCEPT ![editor] = [seen[editor] EXCEPT !.rows = [seen[editor].rows EXCEPT ![doc] = row]]]
    BY <1>8
  <2>4. QED
    BY <1>3, <2>2, <2>3
<1>10. SettingsShape'
  BY <1>2, <1>3, <1>5, <1>7, <1>9 DEF SettingsInv, SettingsShape
<1>11. ASSUME NEW other \in Editors, NEW kept \in Kept
       PROVE  /\ seen'[other].rows[kept].version <= documents'[kept].version
              /\ seen'[other].rows[kept].version = documents'[kept].version =>
                    seen'[other].rows[kept].edit = documents'[kept].edit
  <2>1. kept \in Documents
    BY DEF Documents
  <2>2. /\ seen[other].rows[kept].version <= documents[kept].version
        /\ seen[other].rows[kept].version = documents[kept].version =>
              seen[other].rows[kept].edit = documents[kept].edit
    BY DEF SettingsInv, SeenInv
  <2>3. seen[other].rows[kept].version \in Nat /\ documents[kept].version \in Nat /\ row.version \in Nat
    BY <1>3, <1>4, <1>6, <2>1 DEF DocumentRows
  <2>4. CASE kept # doc
    <3>1. documents'[kept] = documents[kept] /\ seen'[other].rows[kept] = seen[other].rows[kept]
      BY <1>2, <1>3, <1>4, <1>8, <2>1, <2>4 DEF ViewedRows
    <3>2. QED
      BY <2>2, <3>1
  <2>5. CASE kept = doc /\ other = editor
    <3>1. documents'[kept] = row /\ seen'[other].rows[kept] = row
      BY <1>3, <1>4, <1>7, <1>8, <2>1, <2>5 DEF ViewedRows
    <3>2. QED
      BY <2>3, <3>1
  <2>6. CASE kept = doc /\ other # editor
    <3>1. documents'[kept] = row /\ seen'[other].rows[kept] = seen[other].rows[kept]
      BY <1>3, <1>7, <1>8, <2>6
    <3>2. seen[other].rows[kept].version < row.version
      BY <1>3, <1>6, <2>2, <2>3, <2>6
    <3>3. QED
      BY <2>3, <3>1, <3>2
  <2>7. QED
    BY <2>4, <2>5, <2>6
<1>12. QED
  BY <1>2, <1>10, <1>11, ParentsStand DEF SettingsInv, SeenInv

LEMMA ClearKeeps ==
  ASSUME SettingsInv, NEW editor \in Editors, NEW doc \in Clearable, ClearSettings(editor, doc)
  PROVE  SettingsInv'
<1>1. /\ documents' = [documents EXCEPT ![doc] = NoRow]
      /\ seen' = [seen EXCEPT ![editor].rows[doc] = NoRow]
      /\ UNCHANGED <<history, active, appender, editCount>>
  BY DEF ClearSettings
<1>2. /\ documents \in [Documents -> DocumentRows] /\ seen \in [Editors -> ViewedRows]
      /\ NoRow \in DocumentRows /\ doc \in Documents
  BY DEF SettingsInv, SettingsShape, NoRow, DocumentRows, Documents
<1>3. \A other \in Editors : seen[other].rows \in [Documents -> DocumentRows]
  BY <1>2 DEF ViewedRows
<1>4. seen' \in [Editors -> ViewedRows]
  <2>1. [seen[editor].rows EXCEPT ![doc] = NoRow] \in [Documents -> DocumentRows]
    BY <1>2, <1>3
  <2>2. [seen[editor] EXCEPT !.rows = [seen[editor].rows EXCEPT ![doc] = NoRow]] \in ViewedRows
    BY <1>2, <2>1 DEF ViewedRows
  <2>3. seen' = [seen EXCEPT ![editor] = [seen[editor] EXCEPT !.rows = [seen[editor].rows EXCEPT ![doc] = NoRow]]]
    BY <1>1
  <2>4. QED
    BY <1>2, <2>2, <2>3
<1>5. SettingsShape'
  BY <1>1, <1>2, <1>4 DEF SettingsInv, SettingsShape
<1>6. ASSUME NEW other \in Editors, NEW kept \in Kept
      PROVE  documents'[kept] = documents[kept] /\ seen'[other].rows[kept] = seen[other].rows[kept]
  <2>1. kept \in Documents /\ kept # doc
    BY DEF Documents, Kept, Clearable
  <2>2. QED
    BY <1>1, <1>2, <1>3, <2>1 DEF ViewedRows
<1>7. SeenInv'
  BY <1>6 DEF SettingsInv, SeenInv
<1>8. QED
  BY <1>1, <1>5, <1>7, ParentsStand DEF SettingsInv

\* A step that leaves the documents, and what is seen of them
LEMMA SeenStands ==
  ASSUME SettingsInv, documents' = documents, \A editor \in Editors : seen'[editor].rows = seen[editor].rows
  PROVE  SeenInv'
BY DEF SettingsInv, SeenInv

LEMMA ReadHistoryKeeps ==
  ASSUME SettingsInv, NEW editor \in Editors, ReadHistory(editor)
  PROVE  SettingsInv'
<1> DEFINE asked == [step |-> "read", expected |-> seen[editor].revision, next |-> Len(history) + 1,
                     parent |-> IF history = <<>> THEN 0 ELSE Last(history).edit]
<1>1. /\ appender' = [appender EXCEPT ![editor] = asked]
      /\ UNCHANGED <<documents, history, active, seen, editCount>>
  BY DEF ReadHistory
<1>2. history \in Seq([edit : Nat, parent : Nat])
  BY DEF SettingsInv, SettingsShape
<1>3. asked.next \in 1 .. Len(history) + 1 /\ asked.parent = ParentOf(asked.next)
  <2>1. CASE history = <<>>
    BY <2>1 DEF ParentOf
  <2>2. CASE history # <<>>
    <3>1. Len(history) \in Nat \ {0}
      BY <1>2, <2>2
    <3>2. QED
      BY <1>2, <2>2, <3>1 DEF ParentOf, Last
  <2>3. QED
    BY <2>1, <2>2
<1> HIDE DEF asked
<1>4. SettingsShape' /\ SeenInv'
  BY <1>1, SeenStands DEF SettingsInv, SettingsShape
<1>5. ParentsInv'
  BY <1>1, <1>3 DEF SettingsInv, SettingsShape, ParentsInv, ParentOf
<1>6. QED
  BY <1>4, <1>5 DEF SettingsInv

LEMMA AppendRevisionKeeps ==
  ASSUME SettingsInv, NEW editor \in Editors, AppendRevision(editor)
  PROVE  SettingsInv'
<1>1. PICK row : row = [edit |-> editCount', parent |-> appender[editor].parent]
  OBVIOUS
<1>2. /\ history' = Append(history, row) /\ editCount' = editCount + 1
      /\ seen' = [seen EXCEPT ![editor].revision = Len(history')]
      /\ appender' = [appender EXCEPT ![editor] = NotAppending]
      /\ UNCHANGED <<documents, active>>
      /\ appender[editor].step = "read" /\ appender[editor].next = Len(history) + 1
  BY <1>1 DEF AppendRevision, AnEdit, RevisionAppendable
<1>3. /\ history \in Seq([edit : Nat, parent : Nat]) /\ seen \in [Editors -> ViewedRows]
      /\ editCount \in Nat /\ DOMAIN appender = Editors /\ Len(history) \in Nat
  BY DEF SettingsInv, SettingsShape
<1>4. /\ appender[editor].parent = ParentOf(Len(history) + 1)
      /\ ParentOf(Len(history) + 1) \in Nat
  <2>1. appender[editor].parent = ParentOf(Len(history) + 1)
    BY <1>2 DEF SettingsInv, ParentsInv
  <2>2. ParentOf(Len(history) + 1) \in Nat
    <3>1. CASE Len(history) = 0
      BY <3>1 DEF ParentOf
    <3>2. CASE Len(history) # 0
      <4>1. history[Len(history)] \in [edit : Nat, parent : Nat]
        <5>1. PICK S : S = [edit : Nat, parent : Nat]
          OBVIOUS
        <5>2. history \in Seq(S)
          BY <1>3, <5>1
        <5>3. \A n \in 1 .. Len(history) : history[n] \in S
          BY <5>2
        <5>4. Len(history) \in 1 .. Len(history)
          BY <1>3, <3>2
        <5>5. QED
          BY <5>1, <5>3, <5>4
      <4>2. ParentOf(Len(history) + 1) = history[Len(history)].edit
        BY <1>3, <3>2 DEF ParentOf
      <4>3. QED
        BY <4>1, <4>2
    <3>3. QED
      BY <3>1, <3>2
  <2>3. QED
    BY <2>1, <2>2
<1>5. row \in [edit : Nat, parent : Nat] /\ row.parent = ParentOf(Len(history) + 1)
  BY <1>1, <1>2, <1>3, <1>4
<1>6. /\ history' \in Seq([edit : Nat, parent : Nat]) /\ Len(history') = Len(history) + 1
      /\ DOMAIN history' = 1 .. Len(history) + 1 /\ DOMAIN history = 1 .. Len(history)
      /\ \A n \in 1 .. Len(history) : history'[n] = history[n]
      /\ history'[Len(history) + 1] = row
  BY <1>2, <1>3, <1>5
<1>7. \A n \in 1 .. Len(history) + 1 : ParentOf(n)' = ParentOf(n)
  <2> SUFFICES ASSUME NEW n \in 1 .. Len(history) + 1, n # 1
               PROVE  history'[n - 1] = history[n - 1]
    BY DEF ParentOf
  <2>1. n - 1 \in 1 .. Len(history)
    BY <1>3
  <2>2. QED
    BY <1>6, <2>1
<1>8. seen' \in [Editors -> ViewedRows] /\ \A other \in Editors : seen'[other].rows = seen[other].rows
  <2>1. Len(history') \in Nat
    BY <1>3, <1>6
  <2>2. QED
    BY <1>2, <1>3, <2>1 DEF ViewedRows
<1>9. SettingsShape' /\ SeenInv'
  BY <1>2, <1>3, <1>6, <1>8, SeenStands DEF SettingsInv, SettingsShape
<1>10. ASSUME NEW other \in Editors, appender'[other].step = "read"
       PROVE  /\ appender'[other].next \in 1 .. Len(history') + 1
              /\ appender'[other].parent = ParentOf(appender[other].next)'
  <2>1. appender'[other] = appender[other] /\ appender[other].step = "read"
    BY <1>2, <1>3, <1>10 DEF NotAppending
  <2>2. PICK next \in 1 .. Len(history) + 1 :
            appender[other].next = next /\ appender[other].parent = ParentOf(next)
    BY <2>1 DEF SettingsInv, ParentsInv
  <2>3. ParentOf(next)' = ParentOf(next)
    BY <1>7
  <2>4. ParentOf(appender[other].next)' = ParentOf(next)'
    BY <2>1, <2>2 DEF ParentOf
  <2>5. QED
    BY <1>3, <1>6, <2>1, <2>2, <2>3, <2>4
<1>11. ASSUME NEW n \in DOMAIN history' PROVE history'[n].parent = ParentOf(n)'
  <2>1. CASE n \in 1 .. Len(history)
    BY <1>6, <1>7, <2>1 DEF SettingsInv, ParentsInv
  <2>2. CASE n = Len(history) + 1
    BY <1>3, <1>5, <1>6, <1>7, <2>2
  <2>3. QED
    BY <1>3, <1>6, <1>11, <2>1, <2>2
<1>12. ParentsInv'
  BY <1>10, <1>11 DEF ParentsInv
<1>13. QED
  BY <1>9, <1>12 DEF SettingsInv

LEMMA SettingsKeep ==
  ASSUME SettingsInv, [SettingsNext]_settingVars
  PROVE  SettingsInv'
<1>1. CASE UNCHANGED settingVars
  <2>1. UNCHANGED <<documents, history, active, seen, appender, editCount>>
    BY <1>1 DEF settingVars
  <2>2. SettingsShape' /\ SeenInv'
    BY <2>1, SeenStands DEF SettingsInv, SettingsShape
  <2>3. QED
    BY <2>1, <2>2, ParentsStand DEF SettingsInv
<1>2. ASSUME NEW editor \in Editors, ReadSettings(editor) PROVE SettingsInv'
  BY <1>2, ReadSettingsKeeps
<1>3. ASSUME NEW editor \in Editors, ReadHistory(editor) PROVE SettingsInv'
  BY <1>3, ReadHistoryKeeps
<1>4. ASSUME NEW editor \in Editors, AppendRevision(editor) PROVE SettingsInv'
  BY <1>4, AppendRevisionKeeps
<1>5. ASSUME NEW editor \in Editors, AppendIsRefused(editor) PROVE SettingsInv'
  <2>1. /\ appender' = [appender EXCEPT ![editor] = NotAppending]
        /\ UNCHANGED <<documents, history, active, seen, editCount>>
    BY <1>5 DEF AppendIsRefused
  <2>2. SettingsShape' /\ SeenInv'
    BY <2>1, SeenStands DEF SettingsInv, SettingsShape
  <2>3. ParentsInv'
    BY <2>1 DEF SettingsInv, SettingsShape, ParentsInv, ParentOf, NotAppending
  <2>4. QED
    BY <2>2, <2>3 DEF SettingsInv
<1>6. ASSUME NEW editor \in Editors, NEW doc \in Documents, PutDocument(editor, doc) PROVE SettingsInv'
  BY <1>6, PutDocumentKeeps
<1>7. ASSUME NEW editor \in Editors, NEW doc \in Clearable, ClearSettings(editor, doc) PROVE SettingsInv'
  BY <1>7, ClearKeeps
<1>8. ASSUME NEW editor \in Editors, NEW version \in DOMAIN history, ActivatePrompt(editor, version)
      PROVE  SettingsInv'
  <2>1. /\ active' = version /\ version \in Nat
        /\ seen' = [seen EXCEPT ![editor].active = version]
        /\ UNCHANGED <<documents, history, appender, editCount>>
    BY <1>8 DEF ActivatePrompt, SettingsInv, SettingsShape
  <2>2. seen' \in [Editors -> ViewedRows] /\ \A other \in Editors : seen'[other].rows = seen[other].rows
    BY <2>1 DEF SettingsInv, SettingsShape, ViewedRows
  <2>3. SettingsShape' /\ SeenInv'
    BY <2>1, <2>2, SeenStands DEF SettingsInv, SettingsShape
  <2>4. QED
    BY <2>1, <2>3, ParentsStand DEF SettingsInv
<1>9. QED
  BY <1>1, <1>2, <1>3, <1>4, <1>5, <1>6, <1>7, <1>8 DEF SettingsNext

\* A profile is edited by one who has seen its last edit.
LEMMA EditIsSeen ==
  ASSUME SettingsInv, SettingsNext
  PROVE  SeenBefore(Kept)
<1> SUFFICES ASSUME NEW kept \in Kept, documents'[kept].edit \notin {documents[kept].edit, 0}
             PROVE  documents'[kept].over = documents[kept].edit
  BY DEF SeenBefore
<1>1. documents \in [Documents -> DocumentRows] /\ kept \in Documents
  BY DEF SettingsInv, SettingsShape, Documents
<1>2. documents' # documents
  OBVIOUS
<1>3. CASE \E editor \in Editors, doc \in Clearable : ClearSettings(editor, doc)
  <2>1. PICK editor \in Editors, doc \in Clearable : ClearSettings(editor, doc)
    BY <1>3
  <2>2. kept # doc /\ documents' = [documents EXCEPT ![doc] = NoRow]
    BY <2>1 DEF ClearSettings, Kept, Clearable
  <2>3. documents'[kept] = documents[kept]
    BY <1>1, <2>2
  <2>4. QED
    BY <2>3
<1>4. CASE \E editor \in Editors, doc \in Documents : PutDocument(editor, doc)
  <2>1. PICK editor \in Editors, doc \in Documents : PutDocument(editor, doc)
    BY <1>4
  <2>2. PICK row : row = [edit |-> editCount', version |-> documents[doc].version + 1,
                          over |-> seen[editor].rows[doc].edit]
    OBVIOUS
  <2>3. /\ documents' = [documents EXCEPT ![doc] = row]
        /\ documents[doc].version = seen[editor].rows[doc].version
    BY <2>1, <2>2 DEF PutDocument, Writable
  <2>4. kept = doc
    BY <1>1, <2>3
  <2>5. documents'[kept] = row /\ row.over = seen[editor].rows[kept].edit
    BY <1>1, <2>2, <2>3, <2>4
  <2>6. seen[editor].rows[kept].edit = documents[kept].edit
    BY <2>3, <2>4 DEF SettingsInv, SeenInv
  <2>7. QED
    BY <2>5, <2>6
<1>5. QED
  BY <1>2, <1>3, <1>4 DEF SettingsNext, ReadSettings, ReadHistory, AppendRevision, AppendIsRefused, ActivatePrompt

-----------------------------------------------------------------------------
(* Sessions and their branches: the inductive invariant *)

Messages == [role : {"user", "assistant"}, class : Classes, of : Nat]
SessionRows ==
    {Absent} \cup [status : {"active", "archived"}, version : Nat, profile : Profiles \cup {SafeMode},
                   messages : Seq(Messages)]

PostersInv ==
    /\ DOMAIN poster = Posters
    /\ \A client \in Posters : poster[client] = AtRest \/
          /\ {"step", "session", "class"} \subseteq DOMAIN poster[client]
          /\ poster[client].session \in SessionIds /\ poster[client].class \in Classes

\* What is chosen for a branch is all from some message on.
ForkerInv ==
    forker = AtRest \/
        /\ forker.source \in SessionIds /\ forker.profile \in Profiles \cup {SafeMode}
        /\ forker.step = "chosen" =>
              forker.last \in Nat /\ \E k \in 1 .. forker.last + 1 : forker.chosen = k .. forker.last

SessionsInv == sessions \in [SessionIds -> SessionRows] /\ PostersInv /\ ForkerInv

LEMMA SessionsStart == SessionsInit => SessionsInv
BY DEF SessionsInit, SessionsInv, PostersInv, ForkerInv, SessionRows

LEMMA CreateSessionKeeps ==
  ASSUME SessionsInv, NEW s \in SessionIds, NEW p \in Profiles \cup {SafeMode}, CreateSession(s, p)
  PROVE  SessionsInv'
<1>1. sessions' = [sessions EXCEPT ![s] = NewSession(p, <<>>)] /\ UNCHANGED <<poster, forker>>
  BY DEF CreateSession
<1>2. NewSession(p, <<>>) \in SessionRows
  BY DEF NewSession, SessionRows
<1>3. sessions' \in [SessionIds -> SessionRows]
  BY <1>1, <1>2 DEF SessionsInv
<1>4. QED
  BY <1>1, <1>3 DEF SessionsInv, PostersInv, ForkerInv

LEMMA ArchiveKeeps ==
  ASSUME SessionsInv, NEW s \in SessionIds, ArchiveSession(s)
  PROVE  SessionsInv'
<1>1. /\ sessions' = [sessions EXCEPT ![s].status = "archived", ![s].version = @ + 1]
      /\ sessions[s] # Absent /\ UNCHANGED <<poster, forker>>
  BY DEF ArchiveSession
<1>2. sessions[s] \in [status : {"active", "archived"}, version : Nat, profile : Profiles \cup {SafeMode},
                       messages : Seq(Messages)]
  BY <1>1 DEF SessionsInv, SessionRows
<1>3. [sessions[s] EXCEPT !.status = "archived", !.version = @ + 1] \in SessionRows
  <2>1. PICK v \in Nat : v = sessions[s].version + 1
    BY <1>2
  <2>2. [sessions[s] EXCEPT !.status = "archived", !.version = v] \in
            [status : {"active", "archived"}, version : Nat, profile : Profiles \cup {SafeMode},
             messages : Seq(Messages)]
    BY <1>2
  <2>3. QED
    BY <2>1, <2>2 DEF SessionRows
<1>4. sessions' = [sessions EXCEPT ![s] = [sessions[s] EXCEPT !.status = "archived", !.version = @ + 1]]
  BY <1>1 DEF SessionsInv
<1>5. sessions' \in [SessionIds -> SessionRows]
  BY <1>3, <1>4 DEF SessionsInv
<1>6. QED
  BY <1>1, <1>5 DEF SessionsInv, PostersInv, ForkerInv

LEMMA DeleteSessionKeeps ==
  ASSUME SessionsInv, NEW s \in SessionIds, DeleteSession(s)
  PROVE  SessionsInv'
<1>1. sessions' = [sessions EXCEPT ![s] = Absent] /\ UNCHANGED <<poster, forker>>
  BY DEF DeleteSession
<1>2. sessions' \in [SessionIds -> SessionRows]
  BY <1>1 DEF SessionsInv, SessionRows
<1>3. QED
  BY <1>1, <1>2 DEF SessionsInv, PostersInv, ForkerInv

LEMMA AppendKeeps ==
  ASSUME SessionsInv, NEW client \in Posters, NEW role \in {"user", "assistant"},
         poster[client] # AtRest, Appendable(poster[client].session), AppendMessage(client, role)
  PROVE  sessions' \in [SessionIds -> SessionRows]
<1>1. PICK s \in SessionIds : s = poster[client].session
  BY DEF SessionsInv, PostersInv
<1>2. PICK message : message = [role |-> role, class |-> poster[client].class, of |-> 0]
  OBVIOUS
<1>3. message \in Messages
  BY <1>2 DEF Messages, SessionsInv, PostersInv
<1>4. sessions' = [sessions EXCEPT ![s].messages = Append(@, message)]
  BY <1>1, <1>2 DEF AppendMessage
<1>5. sessions[s] \in [status : {"active", "archived"}, version : Nat, profile : Profiles \cup {SafeMode},
                       messages : Seq(Messages)]
  BY <1>1 DEF Appendable, Active, SessionsInv, SessionRows, Absent
<1>6. sessions' = [sessions EXCEPT ![s] = [sessions[s] EXCEPT !.messages = Append(sessions[s].messages, message)]]
  BY <1>4 DEF SessionsInv
<1>7. Append(sessions[s].messages, message) \in Seq(Messages)
  BY <1>3, <1>5
<1>8. [sessions[s] EXCEPT !.messages = Append(sessions[s].messages, message)] \in SessionRows
  BY <1>5, <1>7 DEF SessionRows
<1>9. QED
  BY <1>6, <1>8 DEF SessionsInv

LEMMA PostKeeps ==
  ASSUME SessionsInv, PostSteps
  PROVE  SessionsInv'
<1>1. PICK client \in Posters :
          \/ \E s \in SessionIds, class \in Classes : BeginPost(client, s, class)
          \/ SaveMessage(client) \/ AskProvider(client) \/ Answered(client) \/ SaveReply(client) \/ PostEnds(client)
  BY DEF PostSteps
<1>2. ASSUME NEW state, poster' = [poster EXCEPT ![client] = state],
             state = AtRest \/
                 (/\ {"step", "session", "class"} \subseteq DOMAIN state
                  /\ state.session \in SessionIds /\ state.class \in Classes)
      PROVE  PostersInv'
  BY <1>2 DEF SessionsInv, PostersInv
<1>3. CASE \E s \in SessionIds, class \in Classes : BeginPost(client, s, class)
  <2>1. PICK s \in SessionIds, class \in Classes : BeginPost(client, s, class)
    BY <1>3
  <2>2. PICK at, most : poster' = [poster EXCEPT ![client] =
            [step |-> "allowed", session |-> s, class |-> class, at |-> at, most |-> most]]
    BY <2>1 DEF BeginPost
  <2>3. PostersInv'
    BY <1>2, <2>2
  <2>4. UNCHANGED <<sessions, forker>>
    BY <2>1 DEF BeginPost
  <2>5. QED
    BY <2>3, <2>4 DEF SessionsInv, ForkerInv
<1>4. CASE SaveMessage(client)
  <2>1. /\ poster[client].step = "allowed" /\ Appendable(poster[client].session)
        /\ AppendMessage(client, "user") /\ forker' = forker
        /\ poster' = [poster EXCEPT ![client] =
               IF sessions[@.session].profile = SafeMode THEN AtRest ELSE [@ EXCEPT !.step = "saved"]]
    BY <1>4 DEF SaveMessage
  <2>2. poster[client] # AtRest
    BY <2>1 DEF AtRest
  <2>3. sessions' \in [SessionIds -> SessionRows]
    BY <2>1, <2>2, AppendKeeps
  <2>4. \/ poster' = [poster EXCEPT ![client] = AtRest]
        \/ poster' = [poster EXCEPT ![client] = [poster[client] EXCEPT !.step = "saved"]]
    BY <2>1 DEF SessionsInv, PostersInv
  <2>5. CASE poster' = [poster EXCEPT ![client] = AtRest]
    BY <1>2, <2>1, <2>3, <2>5 DEF SessionsInv, ForkerInv
  <2>6. CASE poster' = [poster EXCEPT ![client] = [poster[client] EXCEPT !.step = "saved"]]
    <3>1. PICK state : state = [poster[client] EXCEPT !.step = "saved"]
      OBVIOUS
    <3>2. /\ {"step", "session", "class"} \subseteq DOMAIN state
          /\ state.session \in SessionIds /\ state.class \in Classes
      BY <2>2, <3>1 DEF SessionsInv, PostersInv
    <3>3. PostersInv'
      BY <1>2, <2>6, <3>1, <3>2
    <3>4. QED
      BY <2>1, <2>3, <3>3 DEF SessionsInv, ForkerInv
  <2>7. QED
    BY <2>4, <2>5, <2>6
<1>5. CASE AskProvider(client)
  <2>1. PICK context : poster' = [poster EXCEPT ![client] =
            [step |-> "asking", session |-> poster[client].session, class |-> poster[client].class,
             most |-> poster[client].most, context |-> context]]
    BY <1>5 DEF AskProvider
  <2>2. poster[client] # AtRest /\ UNCHANGED <<sessions, forker>>
    BY <1>5 DEF AskProvider, AtRest
  <2>3. poster[client].session \in SessionIds /\ poster[client].class \in Classes
    BY <2>2 DEF SessionsInv, PostersInv
  <2>4. PostersInv'
    BY <1>2, <2>1, <2>3
  <2>5. QED
    BY <2>2, <2>4 DEF SessionsInv, ForkerInv
<1>6. CASE Answered(client)
  <2>1. PICK at : poster' = [poster EXCEPT ![client] =
            [step |-> "answered", session |-> poster[client].session, class |-> poster[client].class, at |-> at]]
    BY <1>6 DEF Answered
  <2>2. poster[client] # AtRest /\ UNCHANGED <<sessions, forker>>
    BY <1>6 DEF Answered, AtRest
  <2>3. poster[client].session \in SessionIds /\ poster[client].class \in Classes
    BY <2>2 DEF SessionsInv, PostersInv
  <2>4. PostersInv'
    BY <1>2, <2>1, <2>3
  <2>5. QED
    BY <2>2, <2>4 DEF SessionsInv, ForkerInv
<1>7. CASE SaveReply(client)
  <2>1. /\ poster[client].step = "answered" /\ Appendable(poster[client].session)
        /\ AppendMessage(client, "assistant") /\ forker' = forker
        /\ poster' = [poster EXCEPT ![client] = AtRest]
    BY <1>7 DEF SaveReply
  <2>2. poster[client] # AtRest
    BY <2>1 DEF AtRest
  <2>3. sessions' \in [SessionIds -> SessionRows]
    BY <2>1, <2>2, AppendKeeps
  <2>4. QED
    BY <1>2, <2>1, <2>3 DEF SessionsInv, ForkerInv
<1>8. CASE PostEnds(client)
  BY <1>2, <1>8 DEF PostEnds, SessionsInv, ForkerInv
<1>9. QED
  BY <1>1, <1>3, <1>4, <1>5, <1>6, <1>7, <1>8

\* The messages chosen are the last of those the source had, and are copied in order.
LEMMA CopyIsWhole ==
  ASSUME SessionsInv, NEW t \in SessionIds, CommitFork(t)
  PROVE  \E copied \in Seq(Messages) :
             /\ sessions' = [sessions EXCEPT ![t] = NewSession(forker.profile, copied)]
             /\ forker.profile \in Profiles \cup {SafeMode}
             /\ \A n \in DOMAIN copied :
                    copied[n].of = Len(sessions[forker.source].messages) - Len(copied) + n
<1>1. /\ forker.step = "chosen" /\ Active(forker.source) /\ Unchanged(forker.source)
      /\ forker.source \in SessionIds /\ forker.profile \in Profiles \cup {SafeMode}
  BY DEF CommitFork, SessionsInv, ForkerInv, AtRest
<1>2. PICK last, size, first :
          /\ last = forker.last /\ size = Cardinality(forker.chosen) /\ first = last - size
  OBVIOUS
<1>3. /\ last \in Nat /\ \E k \in 1 .. last + 1 : forker.chosen = k .. last
      /\ Len(sessions[forker.source].messages) = last
  BY <1>1, <1>2 DEF SessionsInv, ForkerInv, AtRest, Unchanged
<1>4. PICK k \in 1 .. last + 1 : forker.chosen = k .. last
  BY <1>3
<1>5. size \in Nat /\ size = last - k + 1 /\ first = k - 1
  <2>1. Cardinality(k .. last) = IF k > last THEN 0 ELSE last - k + 1
    BY <1>3, FS_Interval
  <2>2. size = IF k > last THEN 0 ELSE last - k + 1
    BY <1>2, <1>4, <2>1
  <2>3. k \in Int /\ last \in Int /\ k >= 1 /\ k <= last + 1
    BY <1>3, <1>4
  <2>4. size \in Nat /\ size = last - k + 1
    <3>1. CASE k > last
      BY <2>2, <2>3, <3>1
    <3>2. CASE k <= last
      BY <2>2, <2>3, <3>2
    <3>3. QED
      BY <2>3, <3>1, <3>2
  <2>5. first = last - size
    BY <1>2
  <2>6. QED
    BY <2>3, <2>4, <2>5
<1>6. sessions[forker.source].messages \in Seq(Messages)
  BY <1>1 DEF SessionsInv, SessionRows, Active, Absent
<1> DEFINE copied == [n \in 1 .. size |-> Copied(forker.source, first + n)]
<1>7. sessions' = [sessions EXCEPT ![t] = NewSession(forker.profile, copied)]
  BY <1>2 DEF CommitFork
<1>8. ASSUME NEW n \in 1 .. size
      PROVE  Copied(forker.source, first + n) \in Messages /\ Copied(forker.source, first + n).of = first + n
  <2>1. first + n \in 1 .. last /\ first + n \in Nat
    BY <1>3, <1>5
  <2>2. sessions[forker.source].messages[first + n] \in Messages
    BY <1>3, <1>6, <2>1
  <2>3. QED
    BY <2>1, <2>2 DEF Copied, Messages
<1>9. copied \in Seq(Messages) /\ Len(copied) = size /\ DOMAIN copied = 1 .. size
  BY <1>5, <1>8
<1>10. \A n \in DOMAIN copied : copied[n].of = Len(sessions[forker.source].messages) - Len(copied) + n
  <2> SUFFICES ASSUME NEW n \in 1 .. size
               PROVE  copied[n].of = last - size + n
    BY <1>3, <1>9
  <2>1. copied[n].of = first + n
    BY <1>8
  <2>2. QED
    BY <1>3, <1>5, <2>1
<1>11. QED
  BY <1>1, <1>7, <1>9, <1>10

LEMMA ForkKeeps ==
  ASSUME SessionsInv, ForkSteps
  PROVE  SessionsInv'
<1>1. CASE ForkEnds
  BY <1>1 DEF ForkEnds, SessionsInv, PostersInv, ForkerInv
<1>2. CASE ChooseMessages
  <2>1. /\ forker.step = "checked" /\ sessions[forker.source] # Absent /\ UNCHANGED <<sessions, poster>>
        /\ \E chosen \in Latest(Len(sessions[forker.source].messages)) :
               forker' = [step |-> "chosen", source |-> forker.source, profile |-> forker.profile,
                          stamp |-> forker.stamp, chosen |-> chosen,
                          last |-> Len(sessions[forker.source].messages)]
    BY <1>2 DEF ChooseMessages
  <2>2. forker.source \in SessionIds /\ forker.profile \in Profiles \cup {SafeMode}
    BY <2>1 DEF SessionsInv, ForkerInv, AtRest
  <2>3. PICK last \in Nat : last = Len(sessions[forker.source].messages)
    BY <2>1, <2>2 DEF SessionsInv, SessionRows
  <2>4. PICK chosen \in Latest(last) :
            forker' = [step |-> "chosen", source |-> forker.source, profile |-> forker.profile,
                       stamp |-> forker.stamp, chosen |-> chosen, last |-> last]
    BY <2>1, <2>3
  <2>5. \E k \in 1 .. last + 1 : chosen = k .. last
    <3>1. PICK k \in (IF last > CopyLimit THEN last - CopyLimit + 1 ELSE 1) .. last + 1 : chosen = k .. last
      BY DEF Latest
    <3>2. CopyLimit \in Nat
      BY SessionsAssumption
    <3>3. k \in 1 .. last + 1
      BY <2>3, <3>1, <3>2
    <3>4. QED
      BY <3>1, <3>3
  <2>6. ForkerInv'
    BY <2>2, <2>4, <2>5 DEF ForkerInv
  <2>7. QED
    BY <2>1, <2>6 DEF SessionsInv, PostersInv
<1>3. ASSUME NEW s \in SessionIds, NEW p \in Profiles \cup {SafeMode}, BeginFork(s, p) PROVE SessionsInv'
  <2>1. /\ forker' = [step |-> "checked", source |-> s, profile |-> p, stamp |-> updatedAt[s]]
        /\ UNCHANGED <<sessions, poster>>
    BY <1>3 DEF BeginFork
  <2>2. ForkerInv'
    BY <2>1 DEF ForkerInv
  <2>3. QED
    BY <2>1, <2>2 DEF SessionsInv, PostersInv
<1>4. ASSUME NEW t \in SessionIds, CommitFork(t) PROVE SessionsInv'
  <2>1. PICK copied \in Seq(Messages) :
            /\ sessions' = [sessions EXCEPT ![t] = NewSession(forker.profile, copied)]
            /\ forker.profile \in Profiles \cup {SafeMode}
    BY <1>4, CopyIsWhole
  <2>2. NewSession(forker.profile, copied) \in SessionRows
    BY <2>1 DEF NewSession, SessionRows
  <2>3. sessions' \in [SessionIds -> SessionRows]
    BY <2>1, <2>2 DEF SessionsInv
  <2>4. forker' = AtRest /\ poster' = poster
    BY <1>4 DEF CommitFork
  <2>5. QED
    BY <2>3, <2>4 DEF SessionsInv, PostersInv, ForkerInv
<1>5. QED
  BY <1>1, <1>2, <1>3, <1>4 DEF ForkSteps

LEMMA SessionsKeep ==
  ASSUME SessionsInv, [SessionsNext]_sessionVars
  PROVE  SessionsInv'
<1>1. ASSUME UNCHANGED <<sessions, poster, forker>> PROVE SessionsInv'
  BY <1>1 DEF SessionsInv, PostersInv, ForkerInv
<1>2. CASE UNCHANGED sessionVars
  BY <1>1, <1>2 DEF sessionVars
<1>3. CASE StoreSteps
  BY <1>3, CreateSessionKeeps, ArchiveKeeps, DeleteSessionKeeps DEF StoreSteps
<1>4. CASE ProfileSteps
  BY <1>1, <1>4 DEF ProfileSteps, PutProfile
<1>5. CASE PostSteps
  BY <1>5, PostKeeps
<1>6. CASE ForkSteps
  BY <1>6, ForkKeeps
<1>7. CASE ExportSteps
  BY <1>1, <1>7 DEF ExportSteps, BeginExport, ExportPage
<1>8. QED
  BY <1>2, <1>3, <1>4, <1>5, <1>6, <1>7 DEF SessionsNext

\* What makes a session makes it empty, or of the last messages of its source.
LEMMA BranchFollows ==
  ASSUME SessionsInv, SessionsNext, NEW t \in SessionIds,
         sessions'[t] # Absent, sessions[t] = Absent, sessions'[t].messages # <<>>
  PROVE  \A n \in DOMAIN sessions'[t].messages :
             sessions'[t].messages[n].of =
                 Len(sessions[forker.source].messages) - Len(sessions'[t].messages) + n
<1>1. sessions' # sessions /\ sessions \in [SessionIds -> SessionRows]
  BY DEF SessionsInv
<1>2. CASE StoreSteps
  <2>1. ASSUME NEW s \in SessionIds, NEW p \in Profiles \cup {SafeMode}, CreateSession(s, p) PROVE FALSE
    <3>1. sessions' = [sessions EXCEPT ![s] = NewSession(p, <<>>)]
      BY <2>1 DEF CreateSession
    <3>2. s = t
      BY <1>1, <3>1
    <3>3. sessions'[t].messages = <<>>
      BY <1>1, <3>1, <3>2 DEF NewSession
    <3>4. QED
      BY <3>3
  <2>2. ASSUME NEW s \in SessionIds, ArchiveSession(s) PROVE FALSE
    <3>1. /\ sessions' = [sessions EXCEPT ![s] =
                 [[sessions[s] EXCEPT !.status = "archived"] EXCEPT !.version = sessions[s].version + 1]]
          /\ sessions[s] # Absent
      BY <1>1, <2>2 DEF ArchiveSession
    <3>2. QED
      BY <1>1, <3>1
  <2>3. ASSUME NEW s \in SessionIds, DeleteSession(s) PROVE FALSE
    BY <1>1, <2>3 DEF DeleteSession
  <2>4. QED
    BY <1>2, <2>1, <2>2, <2>3 DEF StoreSteps
<1>3. CASE PostSteps
  <2>1. PICK client \in Posters : SaveMessage(client) \/ SaveReply(client)
    BY <1>1, <1>3 DEF PostSteps, BeginPost, AskProvider, Answered, PostEnds
  <2>2. PICK role \in {"user", "assistant"} :
            AppendMessage(client, role) /\ Appendable(poster[client].session)
    BY <2>1 DEF SaveMessage, SaveReply
  <2>3. /\ sessions' = [sessions EXCEPT ![poster[client].session].messages =
               Append(@, [role |-> role, class |-> poster[client].class, of |-> 0])]
        /\ sessions[poster[client].session] # Absent
    BY <2>2 DEF AppendMessage, Appendable, Active, Absent
  <2>4. QED
    BY <1>1, <2>3
<1>4. CASE ForkSteps
  <2>1. PICK s \in SessionIds : CommitFork(s)
    BY <1>1, <1>4 DEF ForkSteps, ForkEnds, ChooseMessages, BeginFork
  <2>2. PICK copied \in Seq(Messages) :
            /\ sessions' = [sessions EXCEPT ![s] = NewSession(forker.profile, copied)]
            /\ \A n \in DOMAIN copied :
                   copied[n].of = Len(sessions[forker.source].messages) - Len(copied) + n
    BY <2>1, CopyIsWhole
  <2>3. s = t
    BY <1>1, <2>2
  <2>4. sessions'[t].messages = copied
    BY <1>1, <2>2, <2>3 DEF NewSession
  <2>5. QED
    BY <2>2, <2>4
<1>5. QED
  BY <1>1, <1>2, <1>3, <1>4 DEF SessionsNext, ProfileSteps, PutProfile, ExportSteps, BeginExport, ExportPage

-----------------------------------------------------------------------------
(* An export: what it has got is in order *)

Exports == [step : {"paging", "done"}, session : SessionIds, profile : Profiles \cup {SafeMode},
            got : Seq(Nat), after : Nat]

\* While there are pages to come, what has been got ends where the next page begins.
ExporterInv ==
    exporter = AtRest \/
        /\ exporter \in Exports
        /\ \A n \in 1 .. Len(exporter.got) : exporter.got[n] = n
        /\ exporter.step = "paging" => Len(exporter.got) = exporter.after

\* A page holds what follows, and is full if there is more.
LEMMA PageFollows ==
  ASSUME SessionsInv, NEW s \in SessionIds, NEW after \in Nat
  PROVE  /\ Page(s, after) \in Seq(Nat)
         /\ \A n \in 1 .. Len(Page(s, after)) : Page(s, after)[n] = after + n
         /\ More(s, after) => Len(Page(s, after)) = ExportPageSize
<1>1. ExportPageSize \in Nat
  BY SessionsAssumption
<1>2. CASE sessions[s] = Absent
  BY <1>2 DEF Page, More
<1>3. CASE sessions[s] # Absent
  <2>1. PICK length \in Nat : length = Len(sessions[s].messages)
    BY <1>3 DEF SessionsInv, SessionRows
  <2>2. PICK last \in Int : last = IF length < after + ExportPageSize THEN length - after ELSE ExportPageSize
    <3>1. length - after \in Int /\ ExportPageSize \in Int
      BY <1>1, <2>1
    <3>2. QED
      BY <3>1
  <2>3. Page(s, after) = [n \in 1 .. last |-> after + n]
    BY <1>3, <2>1, <2>2 DEF Page
  <2>4. PICK size \in Nat : 1 .. size = 1 .. last /\ (last \in Nat => size = last)
    <3>1. CASE last \in Nat
      BY <3>1
    <3>2. CASE last < 0
      <4>1. 1 .. last = 1 .. 0
        BY <3>2
      <4>2. QED
        BY <3>2, <4>1
    <3>3. QED
      BY <3>1, <3>2
  <2>5. Page(s, after) = [n \in 1 .. size |-> after + n]
    BY <2>3, <2>4
  <2>6. Page(s, after) \in Seq(Nat) /\ Len(Page(s, after)) = size
    BY <2>5
  <2>7. More(s, after) => size = ExportPageSize
    <3>1. More(s, after) => length > after + ExportPageSize
      BY <2>1 DEF More
    <3>2. More(s, after) => last = ExportPageSize
      BY <1>1, <2>2, <3>1
    <3>3. QED
      BY <1>1, <2>4, <3>2
  <2>8. QED
    BY <2>5, <2>6, <2>7
<1>4. QED
  BY <1>2, <1>3

LEMMA ExportKeeps ==
  ASSUME SessionsInv, ExporterInv, [SessionsNext]_sessionVars
  PROVE  ExporterInv'
<1>1. ASSUME UNCHANGED exporter PROVE ExporterInv'
  BY <1>1 DEF ExporterInv
<1>2. ASSUME NEW s \in SessionIds, BeginExport(s) PROVE ExporterInv'
  <2>1. sessions[s] # Absent /\ sessions[s].profile \in Profiles \cup {SafeMode}
    BY <1>2 DEF BeginExport, SessionsInv, SessionRows
  <2>2. exporter' = [step |-> "paging", session |-> s, profile |-> sessions[s].profile, got |-> <<>>, after |-> 0]
    BY <1>2 DEF BeginExport
  <2>3. QED
    BY <2>1, <2>2 DEF ExporterInv, Exports
<1>3. CASE ExportPage
  <2>1. /\ exporter \in Exports /\ Len(exporter.got) = exporter.after
        /\ \A n \in 1 .. Len(exporter.got) : exporter.got[n] = n
    BY <1>3 DEF ExportPage, ExporterInv, AtRest
  <2>2. PICK s \in SessionIds, after \in Nat : s = exporter.session /\ after = exporter.after
    BY <2>1 DEF Exports
  <2>3. PICK before \in Seq(Nat) : before = exporter.got
    BY <2>1 DEF Exports
  <2>4. PICK read : read = Page(s, after)
    OBVIOUS
  <2>5. /\ read \in Seq(Nat) /\ (\A n \in 1 .. Len(read) : read[n] = after + n)
        /\ More(s, after) => Len(read) = ExportPageSize
    BY <2>4, PageFollows
  <2>6. PICK got \in Seq(Nat) :
            /\ got = before \o read /\ Len(got) = Len(before) + Len(read)
            /\ \A n \in 1 .. Len(got) : got[n] = IF n <= Len(before) THEN before[n] ELSE read[n - Len(before)]
    <3>1. /\ before \o read \in Seq(Nat) /\ Len(before \o read) = Len(before) + Len(read)
          /\ \A n \in 1 .. Len(before) + Len(read) :
                 (before \o read)[n] = IF n <= Len(before) THEN before[n] ELSE read[n - Len(before)]
      <4>1. before \in Seq(Nat) /\ read \in Seq(Nat)
        BY <2>3, <2>5
      <4>2. QED
        BY <4>1, ConcatProperties, Zenon
    <3>2. QED
      BY <3>1
  <2>7. PICK next \in Nat : next = after + ExportPageSize
    BY SessionsAssumption
  <2>8. PICK step \in {"paging", "done"} : step = IF More(s, after) THEN "paging" ELSE "done"
    OBVIOUS
  <2>9. exporter' = [exporter EXCEPT !.got = got, !.after = next, !.step = step]
    BY <1>3, <2>2, <2>3, <2>4, <2>6, <2>7, <2>8 DEF ExportPage, NextAfter
  <2>10. exporter' \in Exports /\ exporter'.got = got /\ exporter'.after = next /\ exporter'.step = step
    BY <2>1, <2>9 DEF Exports
  <2>11. Len(before) = after /\ \A n \in 1 .. Len(before) : before[n] = n
    BY <2>1, <2>2, <2>3
  <2>12. Len(got) = after + Len(read)
    BY <2>6, <2>11
  <2>13. ASSUME NEW n \in 1 .. Len(got) PROVE got[n] = n
    <3>1. CASE n <= after
      BY <2>6, <2>11, <3>1
    <3>2. CASE n > after
      <4>1. n - after \in 1 .. Len(read) /\ after + (n - after) = n
        BY <2>5, <2>12, <3>2
      <4>2. got[n] = read[n - after]
        BY <2>6, <2>11, <3>2
      <4>3. QED
        BY <2>5, <4>1, <4>2
    <3>3. QED
      BY <3>1, <3>2
  <2>14. step = "paging" => Len(got) = next
    BY <2>5, <2>7, <2>8, <2>12
  <2>15. QED
    BY <2>10, <2>13, <2>14 DEF ExporterInv
<1>4. CASE UNCHANGED sessionVars
  BY <1>1, <1>4 DEF sessionVars
<1>5. CASE StoreSteps
  BY <1>1, <1>5 DEF StoreSteps, CreateSession, ArchiveSession, DeleteSession
<1>6. CASE ProfileSteps
  BY <1>1, <1>6 DEF ProfileSteps, PutProfile
<1>7. CASE PostSteps
  BY <1>1, <1>7 DEF PostSteps, BeginPost, SaveMessage, AskProvider, Answered, SaveReply, PostEnds
<1>8. CASE ForkSteps
  BY <1>1, <1>8 DEF ForkSteps, BeginFork, ChooseMessages, CommitFork, ForkEnds
<1>9. QED
  BY <1>2, <1>3, <1>4, <1>5, <1>6, <1>7, <1>8 DEF SessionsNext, ExportSteps

LEMMA ExportIsSound == ExporterInv => ExportIsInOrder
<1> SUFFICES ASSUME ExporterInv, exporter.step # "idle"
             PROVE  exporter.got = [n \in DOMAIN exporter.got |-> n]
  BY DEF ExportIsInOrder
<1>1. exporter \in Exports /\ \A n \in 1 .. Len(exporter.got) : exporter.got[n] = n
  BY DEF ExporterInv, AtRest
<1>2. PICK got \in Seq(Nat) : got = exporter.got
  BY <1>1 DEF Exports
<1>3. DOMAIN got = 1 .. Len(got) /\ got = [n \in 1 .. Len(got) |-> got[n]]
  BY <1>2
<1>4. QED
  BY <1>1, <1>2, <1>3

-----------------------------------------------------------------------------
(* Lists in pages *)

PagingShape ==
    /\ listed \in [PageRows -> [at : Nat, shown : BOOLEAN]]
    /\ pageTime \in Nat
    /\ \A id \in PageRows : listed[id].at <= pageTime /\ listed[id].at <= MaxPageTime + 2
    /\ walker \in [step : {"idle", "paging", "done"}, got : Seq(PageRows),
                   cursor : [at : Nat, id : Nat], changed : SUBSET PageRows, late : SUBSET PageRows]

\* What a client has got stands before its cursor, and what it has not behind it; a
\* change at the present time brings a row before any cursor there is.
WalkInv ==
    /\ \A id \in Range(walker.got) \ walker.late : ~After(id, walker.cursor)
    /\ walker.got = <<>> \/ walker.cursor.at <= pageTime
    /\ \A id \in PageRows \ (walker.changed \cup Range(walker.got)) :
          listed[id].shown => After(id, walker.cursor)

PagingInv ==
    /\ PagingShape /\ PagesAreWhole
    /\ walker.step = "paging" => WalkInv

\* The rows behind the cursor, one after another
LEMMA PagesAreInOrder ==
  ASSUME PagingShape
  PROVE  /\ Cardinality(PageCandidates) \in Nat
         /\ InOrder \in [1 .. Cardinality(PageCandidates) -> PageCandidates]
         /\ \A id \in PageCandidates : \E n \in 1 .. Cardinality(PageCandidates) : InOrder[n] = id
         /\ \A m, n \in 1 .. Cardinality(PageCandidates) :
               m < n <=> Behind(InOrder[n], Cursor(listed[InOrder[m]].at, InOrder[m]))
         /\ \A m, n \in 1 .. Cardinality(PageCandidates) : InOrder[m] = InOrder[n] => m = n
<1> DEFINE R == {p \in PageCandidates \X PageCandidates : Behind(p[2], Cursor(listed[p[1]].at, p[1]))}
<1>1. PageCandidates \subseteq PageRows /\ IsFiniteSet(PageCandidates)
  <2>1. PageCandidates \in SUBSET PageRows
    BY DEF PageCandidates
  <2>2. QED
    BY <2>1, PagingAssumption, FS_Subset
<1>2. ASSUME NEW x \in PageCandidates, NEW y \in PageCandidates
      PROVE  <<x, y>> \in R <=> Behind(y, Cursor(listed[x].at, x))
  OBVIOUS
<1> HIDE DEF R
<1>3. ASSUME NEW x \in PageCandidates
      PROVE  x \in Nat /\ listed[x].at \in Nat
  BY <1>1, PagingAssumption DEF PagingShape
<1>4. \A x \in PageCandidates : <<x, x>> \notin R
  BY <1>2, <1>3 DEF Behind, Cursor
<1>5. ASSUME NEW x \in PageCandidates, NEW y \in PageCandidates, NEW z \in PageCandidates,
             <<x, y>> \in R, <<y, z>> \in R
      PROVE  <<x, z>> \in R
  <2>1. /\ x \in Nat /\ y \in Nat /\ z \in Nat
        /\ listed[x].at \in Nat /\ listed[y].at \in Nat /\ listed[z].at \in Nat
    BY <1>3
  <2>2. QED
    BY <1>2, <1>5, <2>1 DEF Behind, Cursor
<1>6. ASSUME NEW x \in PageCandidates, NEW y \in PageCandidates, x # y
      PROVE  <<x, y>> \in R \/ <<y, x>> \in R
  <2>1. x \in Nat /\ y \in Nat /\ listed[x].at \in Nat /\ listed[y].at \in Nat
    BY <1>3
  <2>2. QED
    BY <1>2, <1>6, <2>1 DEF Behind, Cursor
<1>7. ASSUME NEW x \in PageCandidates
      PROVE  PlaceInOrder(x) = Cardinality({y \in PageCandidates : <<y, x>> \in R}) + 1
  <2>1. {y \in PageCandidates : Behind(x, Cursor(listed[y].at, y))}
          = {y \in PageCandidates : <<y, x>> \in R}
    BY <1>2
  <2>2. QED
    BY <2>1 DEF PlaceInOrder
<1>8. InOrder = [n \in 1 .. Cardinality(PageCandidates) |-> InOrder[n]]
  BY DEF InOrder
<1>9. ASSUME NEW n \in 1 .. Cardinality(PageCandidates), NEW x \in PageCandidates,
             Cardinality({y \in PageCandidates : <<y, x>> \in R}) + 1 = n
      PROVE  /\ InOrder[n] \in PageCandidates
             /\ Cardinality({y \in PageCandidates : <<y, InOrder[n]>> \in R}) + 1 = n
  <2>1. PlaceInOrder(x) = n
    BY <1>7, <1>9
  <2>2. InOrder[n] \in PageCandidates /\ PlaceInOrder(InOrder[n]) = n
    BY <2>1 DEF InOrder
  <2>3. QED
    BY <1>7, <2>2
<1>10. \A x, y, z \in PageCandidates : <<x, y>> \in R /\ <<y, z>> \in R => <<x, z>> \in R
  BY <1>5
<1>11. \A x, y \in PageCandidates : x # y => <<x, y>> \in R \/ <<y, x>> \in R
  BY <1>6
<1>12. \A n \in 1 .. Cardinality(PageCandidates), x \in PageCandidates :
          Cardinality({y \in PageCandidates : <<y, x>> \in R}) + 1 = n =>
              /\ InOrder[n] \in PageCandidates
              /\ Cardinality({y \in PageCandidates : <<y, InOrder[n]>> \in R}) + 1 = n
  BY <1>9
<1>13. /\ Cardinality(PageCandidates) \in Nat
       /\ InOrder \in [1 .. Cardinality(PageCandidates) -> PageCandidates]
       /\ \A x \in PageCandidates : \E n \in 1 .. Cardinality(PageCandidates) : InOrder[n] = x
       /\ \A m, n \in 1 .. Cardinality(PageCandidates) : m < n <=> <<InOrder[m], InOrder[n]>> \in R
       /\ \A m, n \in 1 .. Cardinality(PageCandidates) : InOrder[m] = InOrder[n] => m = n
  BY <1>1, <1>4, <1>8, <1>10, <1>11, <1>12, Enumerates
<1>14. QED
  BY <1>2, <1>13

LEMMA PagingStarts == PagingInit => PagingInv
<1> SUFFICES ASSUME PagingInit PROVE PagingInv
  OBVIOUS
<1>1. MaxPageTime \in Nat /\ PageRows \subseteq Nat
  BY PagingAssumption
<1>2. /\ walker.step = "idle" /\ walker.got = <<>>
      /\ walker \in [step : {"idle", "paging", "done"}, got : Seq(PageRows),
                     cursor : [at : Nat, id : Nat], changed : SUBSET PageRows, late : SUBSET PageRows]
  <2>1. <<>> \in Seq(PageRows)
    OBVIOUS
  <2>2. QED
    BY <1>1, <2>1 DEF PagingInit, NotWalking, FirstPage, Cursor
<1>3. listed \in [PageRows -> [at : 1 .. 2, shown : {TRUE}]] /\ pageTime = 2
  BY DEF PagingInit
<1>4. PagingShape
  <2>1. ASSUME NEW id \in PageRows
        PROVE  listed[id] \in [at : Nat, shown : BOOLEAN] /\ listed[id].at <= pageTime
               /\ listed[id].at <= MaxPageTime + 2
    <3>1. listed[id] \in [at : 1 .. 2, shown : {TRUE}] /\ listed[id].at \in 1 .. 2
      BY <1>3
    <3>2. listed[id] \in [at : Nat, shown : BOOLEAN]
      <4>1. 1 .. 2 \subseteq Nat /\ {TRUE} \subseteq BOOLEAN
        OBVIOUS
      <4>2. QED
        BY <3>1, <4>1
    <3>3. QED
      BY <1>1, <1>3, <3>1, <3>2
  <2>2. QED
    BY <1>2, <1>3, <2>1 DEF PagingShape
<1>5. DOMAIN walker.got = {}
  BY <1>2
<1>6. QED
  BY <1>2, <1>4, <1>5 DEF PagingInv, PagesAreWhole

LEMMA ChangeKeepsPages ==
  ASSUME PagingInv, NEW id \in PageRows, NEW then \in Nat, NEW shows \in BOOLEAN,
         ChangeRow(id, then, shows)
  PROVE  PagingInv'
<1>1. /\ pageTime < MaxPageTime + 2 /\ pageTime' = pageTime + 1 /\ then <= pageTime + 1
      /\ listed' = [listed EXCEPT ![id] = [at |-> then, shown |-> shows]]
      /\ walker' = [walker EXCEPT !.changed = @ \cup {id},
                                  !.late = IF then < pageTime + 1 THEN @ \cup {id} ELSE @]
  BY DEF ChangeRow
<1>2. PagingShape /\ PagesAreWhole
  BY DEF PagingInv
<1>3. pageTime \in Nat /\ pageTime + 1 \in Nat /\ pageTime <= pageTime + 1 /\ pageTime + 1 <= MaxPageTime + 2
  BY <1>1, <1>2, PagingAssumption DEF PagingShape
<1>4. /\ walker' \in [step : {"idle", "paging", "done"}, got : Seq(PageRows),
                      cursor : [at : Nat, id : Nat], changed : SUBSET PageRows, late : SUBSET PageRows]
      /\ walker'.got = walker.got /\ walker'.step = walker.step /\ walker'.cursor = walker.cursor
      /\ walker'.changed = walker.changed \cup {id}
      /\ walker'.late = IF then < pageTime + 1 THEN walker.late \cup {id} ELSE walker.late
  BY <1>1, <1>2 DEF PagingShape
<1>5. ASSUME NEW other \in PageRows
      PROVE  listed'[other] = IF other = id THEN [at |-> then, shown |-> shows] ELSE listed[other]
  BY <1>1, <1>2 DEF PagingShape
<1>6. PagingShape'
  <2>1. pageTime' \in Nat
    BY <1>1, <1>3
  <2>2. listed' \in [PageRows -> [at : Nat, shown : BOOLEAN]]
    BY <1>1, <1>2, <2>1 DEF PagingShape
  <2>3. ASSUME NEW other \in PageRows
        PROVE  listed'[other].at <= pageTime + 1 /\ listed'[other].at <= MaxPageTime + 2
    <3>1. /\ listed[other].at \in Nat /\ listed[other].at <= pageTime
          /\ listed[other].at <= MaxPageTime + 2
      BY <1>2 DEF PagingShape
    <3>2. then <= MaxPageTime + 2
      BY <1>1, <1>3, PagingAssumption
    <3>3. CASE other = id
      BY <1>1, <1>5, <3>2, <3>3
    <3>4. CASE other # id
      BY <1>3, <1>5, <3>1, <3>4
    <3>5. QED
      BY <3>3, <3>4
  <2>4. \A other \in PageRows : listed'[other].at <= pageTime' /\ listed'[other].at <= MaxPageTime + 2
    BY <1>1, <2>3
  <2>5. QED
    BY <1>4, <2>1, <2>2, <2>4 DEF PagingShape
<1>7. PagesAreWhole'
  BY <1>2, <1>4, <1>5 DEF PagesAreWhole
<1>8. ASSUME walker'.step = "paging" PROVE WalkInv'
  <2>1. WalkInv
    BY <1>4, <1>8 DEF PagingInv
  <2>2. PICK at \in Nat, last \in Nat : at = walker.cursor.at /\ last = walker.cursor.id
    BY <1>2 DEF PagingShape
  <2>3. walker.got = <<>> \/ at <= pageTime
    BY <2>1, <2>2 DEF WalkInv
  <2>4. walker'.got = <<>> \/ walker'.cursor.at <= pageTime'
    BY <1>1, <1>3, <1>4, <2>2, <2>3
  <2>5. ASSUME NEW other \in Range(walker.got), other \notin walker'.late
        PROVE  ~After(other, walker.cursor)'
    <3>1. other \in PageRows /\ walker.got # <<>>
      <4>1. PICK n \in DOMAIN walker.got : other = walker.got[n]
        BY DEF Range
      <4>2. walker.got \in Seq(PageRows)
        BY <1>2 DEF PagingShape
      <4>3. QED
        BY <4>1, <4>2
    <3>2. CASE other # id
      <4>1. other \notin walker.late
        BY <1>4, <2>5
      <4>2. ~After(other, walker.cursor)
        BY <2>1, <4>1 DEF WalkInv
      <4>3. QED
        BY <1>4, <1>5, <3>1, <3>2, <4>2 DEF After, Behind
    <3>3. CASE other = id
      <4>1. listed'[other].at = pageTime + 1
        BY <1>1, <1>3, <1>4, <1>5, <2>5, <3>1, <3>3
      <4>2. at <= pageTime /\ ~(pageTime + 1 < at) /\ pageTime + 1 # at
        BY <1>3, <2>2, <2>3, <3>1
      <4>3. QED
        BY <1>4, <2>2, <4>1, <4>2 DEF After, Behind
    <3>4. QED
      BY <3>2, <3>3
  <2>6. ASSUME NEW other \in PageRows \ (walker'.changed \cup Range(walker'.got)), listed'[other].shown
        PROVE  After(other, walker.cursor)'
    <3>1. other # id /\ other \in PageRows \ (walker.changed \cup Range(walker.got))
      BY <1>4
    <3>2. listed'[other] = listed[other]
      BY <1>5, <3>1
    <3>3. After(other, walker.cursor)
      BY <2>1, <2>6, <3>1, <3>2 DEF WalkInv
    <3>4. QED
      BY <1>4, <3>2, <3>3 DEF After, Behind
  <2>7. QED
    BY <1>4, <2>4, <2>5, <2>6 DEF WalkInv
<1>9. QED
  BY <1>6, <1>7, <1>8 DEF PagingInv

\* The client gets what stands next, and its cursor moves to the last of it.
LEMMA ReadKeepsPages ==
  ASSUME PagingInv, ReadNextPage
  PROVE  PagingInv'
<1>1. PagingShape /\ PagesAreWhole /\ WalkInv
  BY DEF PagingInv, ReadNextPage
<1>2. PICK n \in Nat : n = Cardinality(PageCandidates)
  BY <1>1, PagesAreInOrder
<1>3. PICK order : order = InOrder
  OBVIOUS
<1>4. /\ order \in [1 .. n -> PageCandidates]
      /\ \A id \in PageCandidates : \E i \in 1 .. n : order[i] = id
      /\ \A i, j \in 1 .. n : i < j <=> Behind(order[j], Cursor(listed[order[i]].at, order[i]))
      /\ \A i, j \in 1 .. n : order[i] = order[j] => i = j
  BY <1>1, <1>2, <1>3, PagesAreInOrder
<1>5. order \in Seq(PageCandidates) /\ Len(order) = n
  BY <1>4, FunctionsAreLists
<1>6. RowsPerPage \in Nat /\ RowsPerPage > 0
  BY PagingAssumption
<1>7. PICK k \in Nat : k = (IF n < RowsPerPage THEN n ELSE RowsPerPage)
  BY <1>6
<1>8. k <= n /\ (n > RowsPerPage => k = RowsPerPage /\ k > 0) /\ (~(n > RowsPerPage) => k = n)
  BY <1>6, <1>7
<1>9. PICK taken : taken = SubSeq(order, 1, k)
  OBVIOUS
<1>10. taken \in Seq(PageCandidates) /\ Len(taken) = k /\ \A i \in 1 .. k : taken[i] = order[i]
  BY <1>5, <1>8, <1>9, FirstOnes
<1>11. /\ walker.step = "paging" /\ listed' = listed /\ pageTime' = pageTime
       /\ walker' = [walker EXCEPT !.got = @ \o taken,
                         !.step = IF n > RowsPerPage THEN "paging" ELSE "done",
                         !.cursor = IF n > RowsPerPage THEN Cursor(listed[Last(taken)].at, Last(taken)) ELSE @]
  BY <1>3, <1>5, <1>7, <1>9 DEF ReadNextPage
<1>12. /\ PageCandidates \subseteq PageRows
       /\ \A id \in PageCandidates : listed[id].shown /\ Behind(id, walker.cursor)
  BY DEF PageCandidates, After
<1>13. PICK got \in Seq(PageRows) : got = walker.got
  BY <1>1 DEF PagingShape
<1>14. PICK all : all = got \o taken
  OBVIOUS
<1>15. /\ all \in Seq(PageRows) /\ Len(all) = Len(got) + k
       /\ \A i \in 1 .. Len(got) + k : all[i] = IF i <= Len(got) THEN got[i] ELSE taken[i - Len(got)]
  <2>1. taken \in Seq(PageRows) /\ got \in Seq(PageRows)
    BY <1>10, <1>12, <1>13, SeqMonotonic
  <2>2. /\ got \o taken \in Seq(PageRows) /\ Len(got \o taken) = Len(got) + Len(taken)
        /\ \A i \in 1 .. Len(got) + Len(taken) :
              (got \o taken)[i] = IF i <= Len(got) THEN got[i] ELSE taken[i - Len(got)]
    BY <2>1, ConcatProperties, Zenon
  <2>3. QED
    BY <1>10, <1>14, <2>2
<1>16. ASSUME NEW i \in 1 .. Len(got)
       PROVE  got[i] \in Range(got) /\ (got[i] \in walker.late \/ ~Behind(got[i], walker.cursor))
  <2>1. got[i] \in Range(got)
    BY DEF Range
  <2>2. QED
    BY <1>1, <1>13, <2>1 DEF WalkInv, After
<1>17. \A i \in 1 .. k : taken[i] \in PageCandidates /\ taken[i] = order[i]
  BY <1>4, <1>8, <1>10
<1>18. ASSUME NEW id
       PROVE  id \in Range(all) <=> id \in Range(got) \/ \E i \in 1 .. k : id = order[i]
  <2>1. ASSUME NEW i \in DOMAIN all
        PROVE  all[i] \in Range(got) \/ \E j \in 1 .. k : all[i] = order[j]
    <3>1. i \in 1 .. Len(got) + k
      BY <1>15
    <3>2. CASE i <= Len(got)
      BY <1>15, <1>16, <3>1, <3>2
    <3>3. CASE ~(i <= Len(got))
      <4>1. i - Len(got) \in 1 .. k
        BY <3>1, <3>3
      <4>2. all[i] = order[i - Len(got)]
        BY <1>15, <1>17, <3>1, <3>3, <4>1
      <4>3. QED
        BY <4>1, <4>2
    <3>4. QED
      BY <3>2, <3>3
  <2>2. ASSUME NEW i \in 1 .. Len(got) PROVE got[i] \in Range(all)
    <3>1. i \in DOMAIN all /\ all[i] = got[i]
      BY <1>15
    <3>2. QED
      BY <3>1 DEF Range
  <2>3. ASSUME NEW i \in 1 .. k PROVE order[i] \in Range(all)
    <3>1. Len(got) + i \in DOMAIN all /\ Len(got) + i \in 1 .. Len(got) + k /\ ~(Len(got) + i <= Len(got))
          /\ Len(got) + i - Len(got) = i
      BY <1>15
    <3>2. all[Len(got) + i] = taken[i]
      BY <1>15, <3>1
    <3>3. all[Len(got) + i] = order[i]
      BY <1>17, <3>2
    <3>4. QED
      BY <3>1, <3>3 DEF Range
  <2>4. id \in Range(got) => \E i \in 1 .. Len(got) : id = got[i]
    BY <1>13 DEF Range
  <2>5. id \in Range(all) => \E i \in DOMAIN all : id = all[i]
    BY DEF Range
  <2>6. QED
    BY <2>1, <2>2, <2>3, <2>4, <2>5
<1>19. \A i \in DOMAIN all, j \in DOMAIN all : all[i] = all[j] => i = j \/ all[i] \in walker.late
  <2> SUFFICES ASSUME NEW i \in DOMAIN all, NEW j \in DOMAIN all, all[i] = all[j],
                      all[i] \notin walker.late
               PROVE  i = j
    OBVIOUS
  <2>1. i \in 1 .. Len(got) + k /\ j \in 1 .. Len(got) + k
    BY <1>15
  <2>2. ASSUME NEW x \in 1 .. Len(got) + k, ~(x <= Len(got))
        PROVE  /\ x - Len(got) \in 1 .. k /\ x - Len(got) \in 1 .. n /\ all[x] = order[x - Len(got)]
               /\ Behind(all[x], walker.cursor)
    <3>1. x - Len(got) \in 1 .. k /\ x - Len(got) \in 1 .. n
      BY <1>8, <2>2
    <3>2. all[x] = order[x - Len(got)] /\ order[x - Len(got)] \in PageCandidates
      BY <1>15, <1>17, <2>2, <3>1
    <3>3. QED
      BY <1>12, <3>1, <3>2
  <2>3. ASSUME NEW x \in 1 .. Len(got) + k, x <= Len(got)
        PROVE  /\ all[x] = got[x] /\ x \in DOMAIN got
               /\ all[x] \in walker.late \/ ~Behind(all[x], walker.cursor)
    BY <1>15, <1>16, <2>3
  <2>4. CASE i <= Len(got) /\ j <= Len(got)
    BY <1>1, <1>13, <2>1, <2>3, <2>4 DEF PagesAreWhole
  <2>5. CASE ~(i <= Len(got)) /\ ~(j <= Len(got))
    <3>1. i - Len(got) = j - Len(got)
      BY <1>4, <2>1, <2>2, <2>5
    <3>2. QED
      BY <2>1, <3>1
  <2>6. QED
    BY <2>1, <2>2, <2>3, <2>4, <2>5
<1>20. ASSUME NEW id \in PageRows \ walker.changed, listed[id].shown, id \notin Range(all)
       PROVE  \E i \in 1 .. n : order[i] = id /\ ~(i <= k)
  <2>1. id \notin Range(got)
    BY <1>18, <1>20
  <2>2. id \in PageCandidates
    BY <1>1, <1>13, <1>20, <2>1 DEF WalkInv, PageCandidates
  <2>3. PICK i \in 1 .. n : order[i] = id
    BY <1>4, <2>2
  <2>4. ~(i \in 1 .. k)
    BY <1>18, <1>20, <2>3
  <2>5. QED
    BY <2>3, <2>4
<1>21. walker'.got = all /\ walker'.changed = walker.changed /\ walker'.late = walker.late
  BY <1>1, <1>11, <1>13, <1>14 DEF PagingShape
<1>22. \A i, j \in DOMAIN walker'.got :
          walker'.got[i] = walker'.got[j] => i = j \/ walker'.got[i] \in walker'.late
  BY <1>19, <1>21
<1>23. CASE ~(n > RowsPerPage)
  <2>1. walker' = [walker EXCEPT !.got = all, !.step = "done"]
    BY <1>1, <1>11, <1>13, <1>14, <1>23 DEF PagingShape
  <2>2. PagingShape' /\ walker'.step = "done"
    BY <1>1, <1>11, <1>15, <2>1 DEF PagingShape
  <2>3. {id \in PageRows : listed[id].shown} \ walker.changed \subseteq Range(all)
    BY <1>8, <1>20, <1>23
  <2>4. QED
    BY <1>11, <1>21, <1>22, <2>2, <2>3 DEF PagingInv, PagesAreWhole
<1>24. CASE n > RowsPerPage
  <2>1. k \in 1 .. n /\ k > 0
    BY <1>8, <1>24
  <2>2. PICK last \in PageCandidates : last = order[k]
    BY <1>4, <2>1
  <2>3. Last(taken) = last
    <3>1. Last(taken) = taken[k]
      BY <1>10 DEF Last
    <3>2. k \in 1 .. k
      BY <2>1
    <3>3. QED
      BY <1>10, <2>2, <3>1, <3>2
  <2>4. last \in PageRows /\ last \in Nat /\ listed[last].at \in Nat /\ listed[last].at <= pageTime
    BY <1>1, <1>12, PagingAssumption DEF PagingShape
  <2>5. PICK cursor \in [at : Nat, id : Nat] : cursor = Cursor(listed[last].at, last)
    BY <2>4 DEF Cursor
  <2>6. walker' = [walker EXCEPT !.got = all, !.cursor = cursor]
    BY <1>1, <1>11, <1>13, <1>14, <1>24, <2>3, <2>5 DEF PagingShape
  <2>7. /\ PagingShape' /\ walker'.step = "paging" /\ walker'.cursor = cursor
    BY <1>1, <1>11, <1>15, <2>6 DEF PagingShape
  <2>8. walker'.cursor.at <= pageTime'
    BY <1>11, <2>4, <2>5, <2>7 DEF Cursor
  <2>9. ASSUME NEW id \in Range(all), id \notin walker.late PROVE ~Behind(id, cursor)
    <3>1. CASE id \in Range(got)
      <4>1. ~Behind(id, walker.cursor) /\ Behind(last, walker.cursor)
        BY <1>1, <1>12, <1>13, <2>9, <3>1 DEF WalkInv, After
      <4>2. id \in PageRows /\ id \in Nat /\ listed[id].at \in Nat
        <5>1. id \in PageRows
          BY <1>13, <3>1 DEF Range
        <5>2. QED
          BY <1>1, <5>1, PagingAssumption DEF PagingShape
      <4>3. walker.cursor.at \in Nat /\ walker.cursor.id \in Nat
        BY <1>1 DEF PagingShape
      <4>4. cursor.at = listed[last].at /\ cursor.id = last
        BY <2>5 DEF Cursor
      <4>5. QED
        BY <2>4, <4>1, <4>2, <4>3, <4>4 DEF Behind
    <3>2. ASSUME NEW i \in 1 .. k, id = order[i] PROVE ~Behind(id, cursor)
      <4>1. i \in 1 .. n /\ ~(k < i)
        BY <2>1
      <4>2. QED
        BY <1>4, <2>1, <2>2, <2>5, <3>2, <4>1
    <3>3. QED
      BY <1>18, <2>9, <3>1, <3>2
  <2>10. ASSUME NEW id \in PageRows \ walker.changed, listed[id].shown, id \notin Range(all)
         PROVE  Behind(id, cursor)
    <3>1. PICK i \in 1 .. n : order[i] = id /\ ~(i <= k)
      BY <1>20, <2>10
    <3>2. k < i
      BY <3>1
    <3>3. QED
      BY <1>4, <2>1, <2>2, <2>5, <3>1, <3>2
  <2>11. WalkInv'
    <3>1. ASSUME NEW id \in Range(walker'.got), id \notin walker'.late PROVE ~After(id, walker.cursor)'
      BY <1>11, <1>21, <2>7, <2>9, <3>1 DEF After, Behind
    <3>2. ASSUME NEW id \in PageRows \ (walker'.changed \cup Range(walker'.got)), listed'[id].shown
          PROVE  After(id, walker.cursor)'
      BY <1>11, <1>21, <2>7, <2>10, <3>2 DEF After, Behind
    <3>3. QED
      BY <2>8, <3>1, <3>2 DEF WalkInv
  <2>12. QED
    BY <1>22, <2>7, <2>11 DEF PagingInv, PagesAreWhole
<1>25. QED
  BY <1>23, <1>24

LEMMA PagingKeeps == PagingInv /\ [PagingNext]_pagingVars => PagingInv'
<1> SUFFICES ASSUME PagingInv, [PagingNext]_pagingVars PROVE PagingInv'
  OBVIOUS
<1>1. CASE UNCHANGED pagingVars
  BY <1>1 DEF pagingVars, PagingInv, PagingShape, PagesAreWhole, WalkInv, After, Behind
<1>2. ASSUME NEW id \in PageRows, NEW then \in 1 .. MaxPageTime + 2, NEW shows \in BOOLEAN,
             ChangeRow(id, then, shows)
      PROVE  PagingInv'
  <2>1. then \in Nat
    OBVIOUS
  <2>2. QED
    BY <1>2, <2>1, ChangeKeepsPages
<1>3. CASE BeginWalk
  <2>1. listed' = listed /\ pageTime' = pageTime /\ walker' = [NotWalking EXCEPT !.step = "paging"]
    BY <1>3 DEF BeginWalk
  <2>2. MaxPageTime \in Nat /\ <<>> \in Seq(PageRows)
    BY PagingAssumption
  <2>3. PICK first \in [at : Nat, id : Nat] : first = FirstPage /\ first.at = MaxPageTime + 3
    <3>1. MaxPageTime + 3 \in Nat /\ 0 \in Nat
      BY <2>2
    <3>2. FirstPage = [at |-> MaxPageTime + 3, id |-> 0]
      BY DEF FirstPage, Cursor
    <3>3. QED
      BY <3>1, <3>2
  <2>4. walker' = [step |-> "paging", got |-> <<>>, cursor |-> first, changed |-> {}, late |-> {}]
    BY <2>1, <2>3 DEF NotWalking
  <2>5. PagingShape'
    <3>1. walker' \in [step : {"idle", "paging", "done"}, got : Seq(PageRows),
                       cursor : [at : Nat, id : Nat], changed : SUBSET PageRows, late : SUBSET PageRows]
      BY <2>2, <2>4
    <3>2. QED
      BY <2>1, <3>1 DEF PagingInv, PagingShape
  <2>6. DOMAIN walker'.got = {} /\ Range(walker'.got) = {}
    BY <2>4 DEF Range
  <2>7. PagesAreWhole'
    BY <2>4, <2>6 DEF PagesAreWhole
  <2>8. ASSUME NEW id \in PageRows PROVE After(id, walker.cursor)'
    <3>1. listed[id].at \in Nat /\ listed[id].at <= MaxPageTime + 2
      BY DEF PagingInv, PagingShape
    <3>2. listed[id].at < MaxPageTime + 3
      BY <2>2, <3>1
    <3>3. QED
      BY <2>1, <2>3, <2>4, <3>2 DEF After, Behind
  <2>9. WalkInv'
    BY <2>4, <2>6, <2>8 DEF WalkInv
  <2>10. QED
    BY <2>5, <2>7, <2>9 DEF PagingInv
<1>4. CASE ReadNextPage
  BY <1>4, ReadKeepsPages
<1>5. QED
  BY <1>1, <1>2, <1>3, <1>4 DEF PagingNext

-----------------------------------------------------------------------------
(* The process of a call: the inductive invariant *)

Exchanges == {"spawn", "initialize", "initialized", "call", "answer", "request", "header",
              "frame", "wait", "over"}
McpPoints == {"initialize", "initialized", "call", "answer"}
WorkerPoints == {"request", "header", "frame", "wait"}

ProcessInv ==
    /\ program \in Programs /\ exchange \in Exchanges
    /\ leader \in {"none", "up", "succeeded", "failed", "killed"} /\ consumed \in Nat
    /\ exchange # "over" => ended = "no"
    /\ exchange \in {"spawn", "over"} => leader # "up"
    /\ exchange \in McpPoints => program = "mcp"
    /\ exchange \in WorkerPoints => program = "worker"
    /\ exchange \in {"call", "answer"} => ready /\ consumed >= 1
    /\ exchange = "wait" => consumed \in 1 .. MaxOutput
    /\ program = "mcp" /\ ended \in {"ok", "server", "timeout"} => ~family
    /\ ended = "ok" => /\ consumed \in 1 .. MaxOutput
                       /\ program = "mcp" => ready /\ consumed >= 2
                       /\ program = "worker" => leader = "succeeded"

LEMMA ProcessStarts == ProcessInit => ProcessInv
BY DEF ProcessInit, ProcessInv, Programs, Exchanges, McpPoints, WorkerPoints

\* An error that is handed on is none of the ends after which the family is gone.
LEMMA LeavingKeeps ==
  ASSUME ProcessInv, NEW how, Leave(how), how \notin {"no", "ok", "server", "timeout"}
  PROVE  ProcessInv'
BY DEF Leave, End, DropChild, ProcessInv, Programs, Exchanges, McpPoints, WorkerPoints

LEMMA WritingKeeps ==
  ASSUME ProcessInv,
         \/ WriteBack("initialize", "initialized") \/ WriteBack("call", "answer")
         \/ WriteRequest \/ ReadHeader
  PROVE  ProcessInv'
<1>1. CASE Leave("protocol") \/ Leave("crash")
  BY <1>1, LeavingKeeps
<1>2. CASE exchange = "initialize" /\ To("initialized") /\ UNCHANGED <<consumed, ready>>
  BY <1>2 DEF To, ProcessInv, Programs, Exchanges, McpPoints, WorkerPoints
<1>3. CASE exchange = "call" /\ To("answer") /\ UNCHANGED <<consumed, ready>>
  BY <1>3 DEF To, ProcessInv, Programs, Exchanges, McpPoints, WorkerPoints
<1>4. CASE \E from \in {"request", "header"}, to \in {"header", "frame"} :
              exchange = from /\ To(to) /\ UNCHANGED <<consumed, ready>>
  BY <1>4 DEF To, ProcessInv, Programs, Exchanges, McpPoints, WorkerPoints
<1>5. CASE /\ exchange = "header"
           /\ End("oversized") /\ Terminate /\ UNCHANGED <<program, consumed, ready>>
  BY <1>5 DEF End, Terminate, ProcessInv, Programs, Exchanges, McpPoints, WorkerPoints
<1>6. QED
  BY <1>1, <1>2, <1>3, <1>4, <1>5 DEF WriteBack, WriteRequest, ReadHeader

LEMMA ReadingKeeps ==
  ASSUME ProcessInv, ReadLine \/ ReadTooMuch \/ ReadNonsense
  PROVE  ProcessInv'
<1>1. exchange \in {"initialized", "answer"} /\ program = "mcp" /\ ended = "no"
  BY DEF ReadLine, ReadTooMuch, ReadNonsense, ProcessInv, McpPoints
<1>2. consumed \in Nat /\ MaxOutput \in Nat
  BY ProcessAssumption DEF ProcessInv
<1>3. CASE ReadLine
  <2>1. consumed' = consumed + 1 /\ consumed' <= MaxOutput
    BY <1>3 DEF ReadLine, Read
  <2>2. consumed' \in Nat /\ consumed' >= 1 /\ consumed' \in 1 .. MaxOutput
    BY <1>2, <2>1
  <2>3. exchange = "answer" => consumed' >= 2
    <3>1. exchange = "answer" => consumed >= 1
      BY DEF ProcessInv
    <3>2. QED
      BY <1>2, <2>1, <3>1
  <2>4. CASE UNCHANGED <<program, exchange, leader, family, ready, ended>>
    BY <1>1, <2>2, <2>3, <2>4 DEF ProcessInv, WorkerPoints
  <2>5. CASE ready' = TRUE /\ To("call")
    BY <1>1, <2>2, <2>5 DEF To, ProcessInv, Exchanges, McpPoints, WorkerPoints
  <2>6. CASE exchange = "answer" /\ End("ok") /\ Terminate /\ UNCHANGED <<program, ready>>
    BY <1>1, <2>2, <2>3, <2>6 DEF End, Terminate, ProcessInv, Exchanges, McpPoints, WorkerPoints
  <2>7. CASE End("server") /\ Terminate /\ UNCHANGED <<program, ready>>
    BY <1>1, <2>2, <2>7 DEF End, Terminate, ProcessInv, Exchanges, McpPoints, WorkerPoints
  <2>8. QED
    BY <1>3, <2>4, <2>5, <2>6, <2>7 DEF ReadLine
<1>4. CASE ReadTooMuch
  <2>1. consumed' \in Nat
    BY <1>2, <1>4 DEF ReadTooMuch
  <2>2. End("oversized") /\ DropChild /\ UNCHANGED <<program, family, ready>>
    BY <1>4 DEF ReadTooMuch
  <2>3. QED
    BY <1>1, <2>1, <2>2 DEF End, DropChild, ProcessInv, Exchanges, McpPoints, WorkerPoints
<1>5. CASE ReadNonsense
  BY <1>5, LeavingKeeps DEF ReadNonsense
<1>6. QED
  BY <1>3, <1>4, <1>5

LEMMA FrameKeeps ==
  ASSUME ProcessInv, ReadFrame \/ AwaitWorker
  PROVE  ProcessInv'
<1>1. MaxOutput \in Nat
  BY ProcessAssumption
<1>2. CASE ReadFrame /\ Leave("protocol")
  BY <1>2, LeavingKeeps
<1>3. CASE ReadFrame /\ ~Leave("protocol")
  <2>1. PICK size \in 1 .. MaxOutput : consumed' = size /\ To("wait") /\ UNCHANGED ready
    BY <1>3 DEF ReadFrame
  <2>2. exchange = "frame"
    BY <1>3 DEF ReadFrame
  <2>3. consumed' \in Nat /\ consumed' \in 1 .. MaxOutput
    BY <1>1, <2>1
  <2>4. QED
    BY <2>1, <2>2, <2>3 DEF To, ProcessInv, Exchanges, McpPoints, WorkerPoints
<1>4. CASE AwaitWorker
  <2>1. PICK how \in IF leader = "failed" THEN {"crash"} ELSE {"protocol", "mismatch", "ok"} : End(how)
    BY <1>4 DEF AwaitWorker
  <2>2. /\ exchange = "wait" /\ leader \in {"succeeded", "failed"}
        /\ UNCHANGED <<program, leader, family, consumed, ready>>
    BY <1>4 DEF AwaitWorker
  <2>3. program = "worker" /\ consumed \in 1 .. MaxOutput
    BY <2>2 DEF ProcessInv, WorkerPoints
  <2>4. QED
    BY <2>1, <2>2, <2>3 DEF End, ProcessInv, Exchanges, McpPoints, WorkerPoints
<1>5. QED
  BY <1>2, <1>3, <1>4

LEMMA ProcessKeeps ==
  ASSUME ProcessInv, [ProcessNext]_processVars
  PROVE  ProcessInv'
<1>1. CASE UNCHANGED processVars
  BY <1>1 DEF processVars, ProcessInv
<1>2. CASE Spawn
  <2>1. /\ exchange = "spawn" /\ ended = "no" /\ UNCHANGED <<program, family, consumed, ready>>
        /\ program \in {"mcp", "worker"}
    BY <1>2 DEF Spawn, ProcessInv, Programs
  <2>2. CASE leader' = "up" /\ exchange' = IF program = "mcp" THEN "initialize" ELSE "request"
    BY <1>2, <2>1, <2>2 DEF Spawn, End, ProcessInv, Exchanges, McpPoints, WorkerPoints
  <2>3. CASE End("spawn failed") /\ UNCHANGED leader
    BY <2>1, <2>3 DEF End, ProcessInv, Exchanges, McpPoints, WorkerPoints
  <2>4. QED
    BY <1>2, <2>2, <2>3 DEF Spawn
<1>3. CASE \/ WriteBack("initialize", "initialized") \/ WriteBack("call", "answer")
           \/ WriteRequest \/ ReadHeader
  BY <1>3, WritingKeeps
<1>4. CASE ReadLine \/ ReadTooMuch \/ ReadNonsense
  BY <1>4, ReadingKeeps
<1>5. CASE ReadFrame \/ AwaitWorker
  BY <1>5, FrameKeeps
<1>6. CASE Timeout
  BY <1>6 DEF Timeout, Busy, End, Terminate, ProcessInv, Exchanges, McpPoints, WorkerPoints
<1>7. CASE CallerLeaves
  BY <1>7, LeavingKeeps DEF CallerLeaves
<1>8. CASE StartChild
  BY <1>8 DEF StartChild, ProcessInv
<1>9. CASE Exit
  BY <1>9 DEF Exit, ProcessInv
<1>10. QED
  BY <1>1, <1>2, <1>3, <1>4, <1>5, <1>6, <1>7, <1>8, <1>9 DEF ProcessNext

LEMMA ProcessIsSound == ProcessInv => ProcessIsEnded
BY DEF ProcessInv, ProcessIsEnded, Programs

-----------------------------------------------------------------------------
(* The daily page: what is shown is of its source *)

\* What is said of a song is kept under that song, with what the provider cited.
ResearchIsAboutItsSong ==
    \A song \in Songs : research[song] # NoResearch =>
        /\ research[song].about = song
        /\ research[song].popular =>
              Cardinality(HostsOf({f \in research[song].sources : f.cited})) >= 2

PlaylistIsOfSource == musicSource # Nothing /\ playlist # NoPlaylist => playlist.of = musicSource

DailyInv == DOMAIN research = Songs /\ PlaylistIsOfSource /\ ResearchIsAboutItsSong

LEMMA DailyStarts == DailyInit => DailyInv
BY DEF DailyInit, DailyInv, PlaylistIsOfSource, ResearchIsAboutItsSong, NoPlaylist, NoResearch

LEMMA ResearchKeeps ==
  ASSUME DailyInv, NEW h \in DailyHandlers, NEW named \in SUBSET Findings, NEW popular \in BOOLEAN,
         ResearchArrives(h, named, popular)
  PROVE  DailyInv'
<1>1. PICK song, kept : song = request[h].song /\ kept = KeptSources(named)
  OBVIOUS
<1>2. PICK isPopular : isPopular = (popular /\ Cardinality(HostsOf(kept)) >= 2)
  OBVIOUS
<1>3. PICK said : said = [about |-> song, sources |-> kept, popular |-> isPopular]
  OBVIOUS
<1>4. research' = [research EXCEPT ![song] = said] /\ UNCHANGED <<musicSource, playlist>>
  BY <1>1, <1>2, <1>3 DEF ResearchArrives, CacheKey, MusicUnchanged
<1>5. said.about = song /\ said.sources = kept /\ (said.popular => Cardinality(HostsOf(kept)) >= 2)
  BY <1>2, <1>3
<1>6. {f \in kept : f.cited} = kept
  BY <1>1 DEF KeptSources
<1>7. \A s \in Songs : research'[s] = IF s = song THEN said ELSE research[s]
  BY <1>4 DEF DailyInv
<1>8. ResearchIsAboutItsSong'
  <2> SUFFICES ASSUME NEW s \in Songs, research'[s] # NoResearch
               PROVE  /\ research'[s].about = s
                      /\ research'[s].popular =>
                            Cardinality(HostsOf({f \in research'[s].sources : f.cited})) >= 2
    BY DEF ResearchIsAboutItsSong
  <2>1. CASE s = song
    <3>1. research'[s] = said
      BY <1>7, <2>1
    <3>2. {f \in research'[s].sources : f.cited} = kept
      BY <1>5, <1>6, <3>1
    <3>3. QED
      BY <1>5, <2>1, <3>1, <3>2
  <2>2. CASE s # song
    <3>1. research'[s] = research[s]
      BY <1>7, <2>2
    <3>2. QED
      BY <3>1 DEF DailyInv, ResearchIsAboutItsSong
  <2>3. QED
    BY <2>1, <2>2
<1>9. QED
  BY <1>4, <1>8 DEF DailyInv, PlaylistIsOfSource

LEMMA DailyKeeps ==
  ASSUME DailyInv, [DailyNext]_dailyVars
  PROVE  DailyInv'
<1>1. ASSUME UNCHANGED <<musicSource, playlist, research>> PROVE DailyInv'
  BY <1>1 DEF DailyInv, PlaylistIsOfSource, ResearchIsAboutItsSong
<1>2. CASE UNCHANGED dailyVars
  BY <1>1, <1>2 DEF dailyVars
<1>3. ASSUME NEW h \in DailyHandlers, NEW song \in Songs, PlaylistArrives(h, song) PROVE DailyInv'
  BY <1>3 DEF PlaylistArrives, PutSnapshot, DailyInv, PlaylistIsOfSource, ResearchIsAboutItsSong
<1>4. ASSUME NEW h \in DailyHandlers, BeginDisable(h) \/ DisableSource(h) PROVE DailyInv'
  BY <1>4 DEF BeginDisable, DisableSource, DailyInv, PlaylistIsOfSource, ResearchIsAboutItsSong
<1>5. ASSUME NEW h \in DailyHandlers, NEW named \in SUBSET Findings, NEW popular \in BOOLEAN,
             ResearchArrives(h, named, popular)
      PROVE  DailyInv'
  BY <1>5, ResearchKeeps
<1>6. ASSUME NEW h \in DailyHandlers,
             \/ \E p \in Playlists : BeginConnect(h, p)
             \/ BeginMusicRefresh(h) \/ BeginResearch(h) \/ RequestFails(h)
             \/ BeginWeather(h) \/ WeatherArrives(h) \/ ClearWeather(h)
             \/ \E place \in Places \cup {Nothing} : ConfigureWeather(h, place)
      PROVE  DailyInv'
  BY <1>1, <1>6 DEF BeginConnect, BeginMusicRefresh, BeginResearch, RequestFails, BeginWeather,
     WeatherArrives, ClearWeather, ConfigureWeather, MusicUnchanged
<1>7. CASE WeatherExpires
  BY <1>1, <1>7 DEF WeatherExpires, MusicUnchanged
<1>8. QED
  BY <1>2, <1>3, <1>4, <1>5, <1>6, <1>7 DEF DailyNext

LEMMA DailyIsSound == DailyInv => DailyIsOfItsSource
BY DEF DailyInv, PlaylistIsOfSource, ResearchIsAboutItsSong, DailyIsOfItsSource

-----------------------------------------------------------------------------
(* A study: the inductive invariant *)

\* Whoever builds a path builds one submission's; whoever grades has one key.
StudentsInv ==
    /\ DOMAIN student = StudyHandlers
    /\ \A h \in StudyHandlers :
          /\ {"step", "about", "version", "key", "correct"} \subseteq DOMAIN student[h]
          /\ student[h].step = "building" => \E s : student[h].about = {s}
          /\ student[h].step = "grading" => \E k : student[h].key = {k}
          /\ student[h].correct \in BOOLEAN

\* A path is saved once, with its exercises, and what it cites was found for it.
PathInv ==
    /\ {"request", "objective", "status", "asked", "submitted", "artifact", "cited"} \subseteq DOMAIN session
    /\ session.submitted \in BOOLEAN
    /\ exercises = {} \/ \E s : exercises = {s}
    /\ session.submitted <=> exercises # {}
    /\ session.artifact \subseteq exercises
    /\ \A s \in session.artifact : session.cited \subseteq s.found

Wrong == {tried \in attempts : ~tried.correct}
Right == {tried \in attempts : tried.correct}

AttemptsInv ==
    /\ IsFiniteSet(attempts)
    /\ \A one, other \in attempts : one.key = other.key => one = other
    /\ review = [errors |-> Cardinality(Wrong), successes |-> Cardinality(Right)]

\* The run that is done is completed, and what is ready is of it.
DiagnosticInv ==
    /\ {"state", "version", "spec"} \subseteq DOMAIN studyRun
    /\ agent = "advancing" => studyRun.state = "running"
    /\ agent = "done" => studyRun.state = "completed"
    /\ session.status = "ready" => session.asked = studyRun.spec /\ studyRun.state = "completed"

StudyInv == StudentsInv /\ PathInv /\ AttemptsInv /\ DiagnosticInv

LEMMA StudyStarts == StudyInit => StudyInv
<1> SUFFICES ASSUME StudyInit PROVE StudyInv
  OBVIOUS
<1>1. attempts = {} /\ Wrong = {} /\ Right = {}
  BY DEF StudyInit, Wrong, Right
<1>2. IsFiniteSet({}) /\ Cardinality({}) = 0
  BY FS_EmptySet
<1>3. AttemptsInv
  BY <1>1, <1>2 DEF StudyInit, AttemptsInv
<1>4. StudentsInv
  BY DEF StudyInit, StudentsInv, IdleStudent
<1>5. PathInv /\ DiagnosticInv
  BY DEF StudyInit, PathInv, DiagnosticInv
<1>6. QED
  BY <1>3, <1>4, <1>5 DEF StudyInv

LEMMA PracticeRests ==
  ASSUME AttemptsInv, UNCHANGED <<attempts, review>>
  PROVE  AttemptsInv'
BY DEF AttemptsInv, Wrong, Right

\* A handler that starts, goes on or answers leaves the others alone.
LEMMA StudentMoves ==
  ASSUME StudentsInv, NEW h \in StudyHandlers, NEW s, student' = [student EXCEPT ![h] = s],
         {"step", "about", "version", "key", "correct"} \subseteq DOMAIN s,
         s.step = "building" => \E x : s.about = {x},
         s.step = "grading" => \E k : s.key = {k},
         s.correct \in BOOLEAN
  PROVE  StudentsInv'
BY DEF StudentsInv

LEMMA StudentStops ==
  ASSUME StudentsInv, NEW h \in StudyHandlers, AnswerStudent(h)
  PROVE  StudentsInv'
<1>1. /\ {"step", "about", "version", "key", "correct"} \subseteq DOMAIN IdleStudent
      /\ IdleStudent.step = "idle" /\ IdleStudent.correct \in BOOLEAN
  BY DEF IdleStudent
<1>2. student' = [student EXCEPT ![h] = IdleStudent]
  BY DEF AnswerStudent
<1>3. QED
  BY <1>1, <1>2, StudentMoves

LEMMA StudentSteps ==
  ASSUME StudentsInv, NEW h \in StudyHandlers, NEW step \in {"saved", "replaced"}, Step(h, step)
  PROVE  StudentsInv'
<1>1. PICK s : s = [student[h] EXCEPT !.step = step]
  OBVIOUS
<1>2. /\ {"step", "about", "version", "key", "correct"} \subseteq DOMAIN s
      /\ s.step = step /\ s.correct \in BOOLEAN
  BY <1>1 DEF StudentsInv
<1>3. student' = [student EXCEPT ![h] = s]
  BY <1>1 DEF Step, StudentsInv
<1>4. QED
  BY <1>2, <1>3, StudentMoves

\* What a prepared or an answered session keeps
LEMMA SavedKeepsPath ==
  ASSUME PathInv, NEW objectives, NEW status, NEW asked,
         session' = SavedSession(objectives, status, asked), exercises' = exercises
  PROVE  /\ PathInv'
         /\ session'.status = status /\ session'.asked = asked
<1>1. PICK asker : asker = IF session.status = "none" THEN objectives ELSE session.request
  OBVIOUS
<1>2. session' = [session EXCEPT !.request = asker, !.objective = objectives, !.status = status,
                                 !.asked = asked, !.artifact = {}, !.cited = {}]
  BY <1>1 DEF SavedSession
<1>3. /\ DOMAIN session' = DOMAIN session /\ session'.submitted = session.submitted
      /\ session'.artifact = {} /\ session'.status = status /\ session'.asked = asked
  BY <1>2 DEF PathInv
<1>4. QED
  BY <1>3 DEF PathInv

LEMMA PrepareKeeps ==
  ASSUME StudyInv, NEW h \in StudyHandlers,
         \/ \E o \in Objectives : BeginPrepare(h, o)
         \/ SavePending(h) \/ ReplaceStudySpec(h) \/ SpawnStudyRun(h)
  PROVE  StudyInv'
<1>1. StudentsInv /\ PathInv /\ AttemptsInv /\ DiagnosticInv
  BY DEF StudyInv
<1>2. UNCHANGED <<exercises, attempts, review>>
  BY DEF BeginPrepare, SavePending, ReplaceStudySpec, SpawnStudyRun, PracticeUnchanged
<1>3. AttemptsInv'
  BY <1>1, <1>2, PracticeRests
<1>4. CASE \E o \in Objectives : BeginPrepare(h, o)
  <2>1. PICK about : student' = [student EXCEPT ![h] =
            [IdleStudent EXCEPT !.step = "checked", !.version = studyRun.version, !.about = about]]
    BY <1>4 DEF BeginPrepare
  <2>2. PICK s : s = [IdleStudent EXCEPT !.step = "checked", !.version = studyRun.version, !.about = about]
    OBVIOUS
  <2>3. /\ {"step", "about", "version", "key", "correct"} \subseteq DOMAIN s
        /\ s.step = "checked" /\ s.correct \in BOOLEAN
    BY <2>2 DEF IdleStudent
  <2>4. StudentsInv'
    BY <1>1, <2>1, <2>2, <2>3, StudentMoves
  <2>5. UNCHANGED <<studyRun, session, agent>>
    BY <1>4 DEF BeginPrepare
  <2>6. QED
    BY <1>1, <1>2, <1>3, <2>4, <2>5 DEF StudyInv, PathInv, DiagnosticInv
<1>5. CASE SavePending(h)
  <2>1. PICK objectives : session' = SavedSession(objectives, "pending", {})
    BY <1>5 DEF SavePending
  <2>2. Step(h, "saved") /\ UNCHANGED <<studyRun, agent>>
    BY <1>5 DEF SavePending
  <2>3. PathInv' /\ session'.status = "pending"
    BY <1>1, <1>2, <2>1, SavedKeepsPath
  <2>4. StudentsInv'
    BY <1>1, <2>2, StudentSteps
  <2>5. QED
    BY <1>1, <1>3, <2>2, <2>3, <2>4 DEF StudyInv, DiagnosticInv
<1>6. CASE ReplaceStudySpec(h)
  <2>1. UNCHANGED <<session, agent>>
    BY <1>6 DEF ReplaceStudySpec
  <2>2. CASE Replaceable(h)
    <3>1. Step(h, "replaced") /\ studyRun.state = "proposed"
      BY <1>6, <2>2 DEF ReplaceStudySpec, Replaceable
    <3>2. PICK version, spec : studyRun' = [studyRun EXCEPT !.version = version, !.spec = spec]
      BY <1>6, <2>2 DEF ReplaceStudySpec
    <3>3. StudentsInv'
      BY <1>1, <3>1, StudentSteps
    <3>4. session.status # "ready" /\ agent \notin {"advancing", "done"}
      BY <1>1, <3>1 DEF DiagnosticInv
    <3>5. QED
      BY <1>1, <1>2, <1>3, <2>1, <3>2, <3>3, <3>4 DEF StudyInv, PathInv, DiagnosticInv
  <2>3. CASE ~Replaceable(h)
    <3>1. AnswerStudent(h) /\ studyRun' = studyRun
      BY <1>6, <2>3 DEF ReplaceStudySpec
    <3>2. StudentsInv'
      BY <1>1, <3>1, StudentStops
    <3>3. QED
      BY <1>1, <1>2, <1>3, <2>1, <3>1, <3>2 DEF StudyInv, PathInv, DiagnosticInv
  <2>4. QED
    BY <2>2, <2>3
<1>7. CASE SpawnStudyRun(h)
  <2>1. AnswerStudent(h) /\ session' = session
    BY <1>7 DEF SpawnStudyRun
  <2>2. StudentsInv' /\ PathInv'
    BY <1>1, <1>2, <2>1, StudentStops DEF PathInv
  <2>3. CASE UNCHANGED <<agent, studyRun>>
    BY <1>1, <1>3, <2>1, <2>2, <2>3 DEF StudyInv, DiagnosticInv
  <2>4. CASE studyRun.state = "proposed" /\ agent' = "advancing"
             /\ studyRun' = [studyRun EXCEPT !.state = "running", !.version = @ + 1]
    <3>1. studyRun'.state = "running" /\ DOMAIN studyRun' = DOMAIN studyRun
      BY <1>1, <2>4 DEF DiagnosticInv
    <3>2. session.status # "ready"
      BY <1>1, <2>4 DEF DiagnosticInv
    <3>3. QED
      BY <1>1, <1>3, <2>1, <2>2, <2>4, <3>1, <3>2 DEF StudyInv, DiagnosticInv
  <2>5. QED
    BY <1>7, <2>3, <2>4 DEF SpawnStudyRun
<1>8. QED
  BY <1>4, <1>5, <1>6, <1>7

LEMMA AgentKeeps ==
  ASSUME StudyInv, AdvanceStudyRun \/ StudyRunEnds \/ PersistDiagnostic
  PROVE  StudyInv'
<1>1. StudentsInv /\ PathInv /\ AttemptsInv /\ DiagnosticInv
  BY DEF StudyInv
<1>2. UNCHANGED <<student, exercises, attempts, review>>
  BY DEF AdvanceStudyRun, StudyRunEnds, PersistDiagnostic, PracticeUnchanged
<1>3. AttemptsInv' /\ StudentsInv'
  BY <1>1, <1>2, PracticeRests DEF StudentsInv
<1>4. CASE AdvanceStudyRun \/ StudyRunEnds
  <2>1. session' = session /\ PathInv'
    BY <1>1, <1>2, <1>4 DEF AdvanceStudyRun, StudyRunEnds, PathInv
  <2>2. studyRun.state # "completed"
    BY <1>1, <1>4 DEF AdvanceStudyRun, StudyRunEnds, DiagnosticInv
  <2>3. PICK state, version :
            /\ studyRun' = [studyRun EXCEPT !.state = state, !.version = version]
            /\ \/ agent' = "advancing" /\ state = "running"
               \/ agent' = "done" /\ state = "completed"
               \/ agent' = "none"
    BY <1>4 DEF AdvanceStudyRun, StudyRunEnds
  <2>4. studyRun'.state = state /\ DOMAIN studyRun' = DOMAIN studyRun
    BY <1>1, <2>3 DEF DiagnosticInv
  <2>5. session.status # "ready"
    BY <1>1, <2>2 DEF DiagnosticInv
  <2>6. QED
    BY <1>1, <1>3, <2>1, <2>3, <2>4, <2>5 DEF StudyInv, DiagnosticInv
<1>5. CASE PersistDiagnostic
  <2>1. studyRun' = studyRun /\ studyRun.state = "completed" /\ agent' = "none"
    BY <1>1, <1>5 DEF PersistDiagnostic, DiagnosticInv
  <2>2. CASE session.status = "none" /\ UNCHANGED session
    BY <1>1, <1>2, <1>3, <2>1, <2>2 DEF StudyInv, PathInv, DiagnosticInv
  <2>3. CASE session' = SavedSession(session.objective, "ready", studyRun.spec)
    <3>1. PathInv' /\ session'.asked = studyRun.spec
      BY <1>1, <1>2, <2>3, SavedKeepsPath
    <3>2. QED
      BY <1>1, <1>3, <2>1, <3>1 DEF StudyInv, DiagnosticInv
  <2>4. CASE session' = SavedSession(session.objective, "invalid_output", {})
    <3>1. PathInv' /\ session'.status = "invalid_output"
      BY <1>1, <1>2, <2>4, SavedKeepsPath
    <3>2. QED
      BY <1>1, <1>3, <2>1, <3>1 DEF StudyInv, DiagnosticInv
  <2>5. QED
    BY <1>5, <2>2, <2>3, <2>4 DEF PersistDiagnostic
<1>6. QED
  BY <1>4, <1>5

LEMMA PathKeeps ==
  ASSUME StudyInv, NEW h \in StudyHandlers, BeginPath(h) \/ FinishPath(h)
  PROVE  StudyInv'
<1>1. StudentsInv /\ PathInv /\ AttemptsInv /\ DiagnosticInv
  BY DEF StudyInv
<1>2. UNCHANGED <<studyRun, agent, attempts, review>>
  BY DEF BeginPath, FinishPath, PracticeUnchanged
<1>3. AttemptsInv'
  BY <1>1, <1>2, PracticeRests
<1>4. CASE BeginPath(h)
  <2>1. PICK x : student' = [student EXCEPT ![h] = [IdleStudent EXCEPT !.step = "building", !.about = {x}]]
    BY <1>4 DEF BeginPath
  <2>2. PICK s : s = [IdleStudent EXCEPT !.step = "building", !.about = {x}]
    OBVIOUS
  <2>3. /\ {"step", "about", "version", "key", "correct"} \subseteq DOMAIN s
        /\ s.step = "building" /\ s.about = {x} /\ s.correct \in BOOLEAN
    BY <2>2 DEF IdleStudent
  <2>4. StudentsInv'
    BY <1>1, <2>1, <2>2, <2>3, StudentMoves
  <2>5. UNCHANGED <<session, exercises>>
    BY <1>4 DEF BeginPath, PracticeUnchanged
  <2>6. QED
    BY <1>1, <1>2, <1>3, <2>4, <2>5 DEF StudyInv, PathInv, DiagnosticInv
<1>5. CASE FinishPath(h)
  <2>1. StudentsInv'
    BY <1>1, <1>5, StudentStops DEF FinishPath
  <2>2. CASE UNCHANGED <<session, exercises>>
    BY <1>1, <1>2, <1>3, <2>1, <2>2 DEF StudyInv, PathInv, DiagnosticInv
  <2>3. CASE ~UNCHANGED <<session, exercises>>
    <3>1. PICK reply \in PathReplies :
              /\ Submittable
              /\ session' = [session EXCEPT !.submitted = TRUE, !.artifact = student[h].about,
                                            !.cited = Grounded(reply, h)]
              /\ exercises' = exercises \cup student[h].about
      BY <1>5, <2>3 DEF FinishPath
    <3>2. PICK x : student[h].about = {x}
      BY <1>1, <1>5 DEF FinishPath, StudentsInv
    <3>3. exercises = {} /\ exercises' = {x}
      BY <1>1, <3>1, <3>2 DEF PathInv, Submittable
    <3>4. Grounded(reply, h) \subseteq x.found
      BY <3>2 DEF Grounded
    <3>5. /\ DOMAIN session' = DOMAIN session /\ session'.submitted = TRUE /\ session'.artifact = {x}
          /\ session'.cited \subseteq x.found
          /\ session'.status = session.status /\ session'.asked = session.asked
      BY <1>1, <3>1, <3>2, <3>4 DEF PathInv
    <3>6. PathInv'
      BY <1>1, <3>3, <3>5 DEF PathInv
    <3>7. QED
      BY <1>1, <1>2, <1>3, <2>1, <3>5, <3>6 DEF StudyInv, DiagnosticInv
  <2>4. QED
    BY <2>2, <2>3
<1>6. QED
  BY <1>4, <1>5

\* An attempt under a new key is counted once, on its side.
LEMMA AttemptCounts ==
  ASSUME AttemptsInv, NEW k, NEW verdict \in BOOLEAN, \A tried \in attempts : tried.key # k,
         attempts' = attempts \cup {[key |-> k, correct |-> verdict]},
         review' = IF verdict THEN [review EXCEPT !.successes = @ + 1]
                   ELSE [review EXCEPT !.errors = @ + 1]
  PROVE  AttemptsInv'
<1>1. PICK new : new = [key |-> k, correct |-> verdict]
  OBVIOUS
<1>2. new.key = k /\ (new.correct <=> verdict)
  BY <1>1
<1>3. attempts' = attempts \cup {new} /\ new \notin attempts
  BY <1>1, <1>2
<1>4. IsFiniteSet(attempts') /\ IsFiniteSet(attempts)
  BY <1>3, FS_AddElement DEF AttemptsInv
<1>5. \A one, other \in attempts' : one.key = other.key => one = other
  BY <1>2, <1>3 DEF AttemptsInv
<1>6. IsFiniteSet(Wrong) /\ IsFiniteSet(Right)
  BY <1>4, FS_Subset DEF Wrong, Right
<1>7. /\ Cardinality(Wrong) \in Nat /\ Cardinality(Right) \in Nat
      /\ Cardinality(Wrong \cup {new}) = Cardinality(Wrong) + 1
      /\ Cardinality(Right \cup {new}) = Cardinality(Right) + 1
  <2>1. new \notin Wrong /\ new \notin Right
    BY <1>3 DEF Wrong, Right
  <2>2. QED
    BY <1>6, <2>1, FS_AddElement, FS_CardinalityType
<1>8. CASE verdict
  <2>1. Right' = Right \cup {new} /\ Wrong' = Wrong
    BY <1>2, <1>3, <1>8 DEF Wrong, Right
  <2>2. review' = [review EXCEPT !.successes = @ + 1]
    BY <1>8
  <2>3. review' = [errors |-> Cardinality(Wrong), successes |-> Cardinality(Right) + 1]
    BY <2>2 DEF AttemptsInv
  <2>4. QED
    BY <1>4, <1>5, <1>7, <2>1, <2>3 DEF AttemptsInv
<1>9. CASE ~verdict
  <2>1. Wrong' = Wrong \cup {new} /\ Right' = Right
    BY <1>2, <1>3, <1>9 DEF Wrong, Right
  <2>2. review' = [review EXCEPT !.errors = @ + 1]
    BY <1>9
  <2>3. review' = [errors |-> Cardinality(Wrong) + 1, successes |-> Cardinality(Right)]
    BY <2>2 DEF AttemptsInv
  <2>4. QED
    BY <1>4, <1>5, <1>7, <2>1, <2>3 DEF AttemptsInv
<1>10. QED
  BY <1>8, <1>9

LEMMA AttemptKeeps ==
  ASSUME StudyInv, NEW h \in StudyHandlers,
         (\E k \in AttemptKeys : BeginAttempt(h, k)) \/ FinishAttempt(h)
  PROVE  StudyInv'
<1>1. StudentsInv /\ PathInv /\ AttemptsInv /\ DiagnosticInv
  BY DEF StudyInv
<1>2. UNCHANGED <<studyRun, session, agent, exercises>>
  BY DEF BeginAttempt, FinishAttempt, PracticeUnchanged
<1>3. PathInv' /\ DiagnosticInv'
  BY <1>1, <1>2 DEF PathInv, DiagnosticInv
<1>4. CASE \E k \in AttemptKeys : BeginAttempt(h, k)
  <2>1. PICK k \in AttemptKeys, verdict \in BOOLEAN : student' = [student EXCEPT ![h] =
            [IdleStudent EXCEPT !.step = "grading", !.key = {k}, !.correct = verdict]]
    BY <1>4 DEF BeginAttempt
  <2>2. PICK s : s = [IdleStudent EXCEPT !.step = "grading", !.key = {k}, !.correct = verdict]
    OBVIOUS
  <2>3. /\ {"step", "about", "version", "key", "correct"} \subseteq DOMAIN s
        /\ s.step = "grading" /\ s.key = {k} /\ s.correct \in BOOLEAN
    BY <2>2 DEF IdleStudent
  <2>4. StudentsInv'
    BY <1>1, <2>1, <2>2, <2>3, StudentMoves
  <2>5. AttemptsInv'
    BY <1>1, <1>4, PracticeRests DEF BeginAttempt, PracticeUnchanged
  <2>6. QED
    BY <1>3, <2>4, <2>5 DEF StudyInv
<1>5. CASE FinishAttempt(h)
  <2>1. StudentsInv'
    BY <1>1, <1>5, StudentStops DEF FinishAttempt
  <2>2. CASE UNCHANGED <<attempts, review>>
    BY <1>1, <1>3, <2>1, <2>2, PracticeRests DEF StudyInv
  <2>3. CASE ~UNCHANGED <<attempts, review>>
    <3>1. /\ Fresh(h) /\ student[h].step = "grading"
          /\ attempts' = attempts \cup {[key |-> k, correct |-> student[h].correct] : k \in student[h].key}
          /\ review' = IF student[h].correct THEN [review EXCEPT !.successes = @ + 1]
                       ELSE [review EXCEPT !.errors = @ + 1]
      BY <1>5, <2>3 DEF FinishAttempt
    <3>2. PICK k : student[h].key = {k}
      BY <1>1, <3>1 DEF StudentsInv
    <3>3. PICK verdict \in BOOLEAN : verdict = student[h].correct
      BY <1>1 DEF StudentsInv
    <3>4. \A tried \in attempts : tried.key # k
      BY <3>1, <3>2 DEF Fresh
    <3>5. attempts' = attempts \cup {[key |-> k, correct |-> verdict]}
      BY <3>1, <3>2, <3>3
    <3>6. review' = IF verdict THEN [review EXCEPT !.successes = @ + 1]
                    ELSE [review EXCEPT !.errors = @ + 1]
      BY <3>1, <3>3
    <3>7. AttemptsInv'
      BY <1>1, <3>4, <3>5, <3>6, AttemptCounts
    <3>8. QED
      BY <1>3, <2>1, <3>7 DEF StudyInv
  <2>4. QED
    BY <2>2, <2>3
<1>6. QED
  BY <1>4, <1>5

LEMMA StudyKeeps ==
  ASSUME StudyInv, [StudyNext]_studyVars
  PROVE  StudyInv'
<1>1. StudentsInv /\ PathInv /\ AttemptsInv /\ DiagnosticInv
  BY DEF StudyInv
<1>2. ASSUME UNCHANGED <<studyRun, session, agent, exercises, attempts, review>>, StudentsInv'
      PROVE  StudyInv'
  BY <1>1, <1>2, PracticeRests DEF StudyInv, PathInv, DiagnosticInv
<1>3. CASE UNCHANGED studyVars
  BY <1>1, <1>2, <1>3 DEF studyVars, StudentsInv
<1>4. CASE EditStudyNote
  BY <1>1, <1>2, <1>4 DEF EditStudyNote, PracticeUnchanged, StudentsInv
<1>5. CASE AdvanceStudyRun \/ StudyRunEnds \/ PersistDiagnostic
  BY <1>5, AgentKeeps
<1>6. CASE StopStudy
  <2>1. /\ student' = [h \in StudyHandlers |-> IdleStudent] /\ agent' = "none"
        /\ studyRun' = [studyRun EXCEPT !.state = IF @ = "running" THEN "retryable" ELSE @]
        /\ UNCHANGED <<session, exercises, attempts, review>>
    BY <1>6 DEF StopStudy, PracticeUnchanged
  <2>2. StudentsInv'
    BY <2>1 DEF StudentsInv, IdleStudent
  <2>3. /\ DOMAIN studyRun' = DOMAIN studyRun /\ studyRun'.spec = studyRun.spec
        /\ studyRun.state = "completed" => studyRun'.state = "completed"
    BY <1>1, <2>1 DEF DiagnosticInv
  <2>4. DiagnosticInv'
    BY <1>1, <2>1, <2>3 DEF DiagnosticInv
  <2>5. QED
    BY <1>1, <2>1, <2>2, <2>4, PracticeRests DEF StudyInv, PathInv
<1>7. ASSUME NEW h \in StudyHandlers,
             \/ \E o \in Objectives : BeginPrepare(h, o)
             \/ SavePending(h) \/ ReplaceStudySpec(h) \/ SpawnStudyRun(h)
      PROVE  StudyInv'
  BY <1>7, PrepareKeeps
<1>8. ASSUME NEW h \in StudyHandlers, BeginPath(h) \/ FinishPath(h) PROVE StudyInv'
  BY <1>8, PathKeeps
<1>9. ASSUME NEW h \in StudyHandlers, (\E k \in AttemptKeys : BeginAttempt(h, k)) \/ FinishAttempt(h)
      PROVE  StudyInv'
  BY <1>9, AttemptKeeps
<1>10. ASSUME NEW h \in StudyHandlers, StudentLeaves(h) PROVE StudyInv'
  BY <1>1, <1>2, <1>10, StudentStops DEF StudentLeaves, PracticeUnchanged
<1>11. QED
  BY <1>3, <1>4, <1>5, <1>6, <1>7, <1>8, <1>9, <1>10 DEF StudyNext

LEMMA StudyIsSound == StudyInv => StudyIsConsistent
<1> SUFFICES ASSUME StudyInv PROVE StudyIsConsistent
  OBVIOUS
<1>1. Cardinality(exercises) <= 1
  <2>1. CASE exercises = {}
    BY <2>1, FS_EmptySet
  <2>2. CASE \E s : exercises = {s}
    <3>1. PICK s : exercises = {s}
      BY <2>2
    <3>2. Cardinality({s}) = 1
      BY FS_Singleton
    <3>3. QED
      BY <3>1, <3>2
  <2>3. QED
    BY <2>1, <2>2 DEF StudyInv, PathInv
<1>2. review = [errors |-> Cardinality({one \in attempts : ~one.correct}),
                successes |-> Cardinality({one \in attempts : one.correct})]
  BY DEF StudyInv, AttemptsInv, Wrong, Right
<1>3. QED
  BY <1>1, <1>2 DEF StudyInv, PathInv, AttemptsInv, DiagnosticInv, StudyIsConsistent

-----------------------------------------------------------------------------
(* The Vault as it is listed: the inductive invariant *)

EventKinds == {"create", "modify", "remove", "from", "to", "both", "error"}
Paths == Notes \cup {"aside", "folder"}
Events == [kind : EventKinds, paths : Seq(Paths)]
Streams == [step : {"off", "counted", "watching", "waiting", "collecting"},
            queue : Seq(Events), batch : Seq(Events)]

WatchShape ==
    /\ watch \in Streams
    /\ watch.step # "collecting" => watch.batch = <<>>
    /\ frames \in Seq({"ready", "changed", "unavailable"})
    /\ DOMAIN loads = LoadIds /\ followed \in BOOLEAN

\* One load at a time follows a page that is open.
FollowedInv ==
    followed =>
        /\ page = "open"
        /\ \A i, j \in LoadIds : loads[i] # Idle /\ loads[j] # Idle => i = j

\* Something that is seen is on its way to the page.
Announcing ==
    \/ Announced(watch.queue) \/ Announced(watch.batch)
    \/ "changed" \in Range(frames) \/ "unavailable" \in Range(frames)

\* The page has the notes as they are, or is about to get them.
UpToDate ==
    \/ \E i \in LoadIds : loads[i].step = "asked"
    \/ \E i \in LoadIds : loads[i].step = "answered" /\ loads[i].listed = notes
    \/ (\A i \in LoadIds : loads[i] = Idle) /\ shownNotes = notes

WatchInv == WatchShape /\ FollowedInv /\ (followed /\ IsWatching => Announcing \/ UpToDate)

LEMMA WatchStarts == WatchInit => WatchInv
<1> SUFFICES ASSUME WatchInit PROVE WatchInv
  OBVIOUS
<1>1. watch \in Streams /\ watch.batch = <<>>
  BY DEF WatchInit, NoStream, Streams
<1>2. frames \in Seq({"ready", "changed", "unavailable"}) /\ DOMAIN loads = LoadIds /\ ~followed
  BY DEF WatchInit
<1>3. WatchShape
  BY <1>1, <1>2 DEF WatchInit, WatchShape
<1>4. QED
  BY <1>2, <1>3 DEF WatchInv, FollowedInv

\* What is seen in a sequence of events is seen in a longer one.
LEMMA AnnouncedTogether ==
  ASSUME NEW first \in Seq(Events), NEW second \in Seq(Events)
  PROVE  Announced(first \o second) <=> Announced(first) \/ Announced(second)
<1>1. /\ first \o second \in Seq(Events)
      /\ Len(first \o second) = Len(first) + Len(second)
      /\ \A n \in 1 .. Len(first) + Len(second) :
             (first \o second)[n] = IF n <= Len(first) THEN first[n] ELSE second[n - Len(first)]
  BY ConcatProperties, Zenon
<1>2. PICK both \in Seq(Events) :
          /\ both = first \o second /\ Len(both) = Len(first) + Len(second)
          /\ \A n \in 1 .. Len(both) : both[n] = IF n <= Len(first) THEN first[n] ELSE second[n - Len(first)]
  BY <1>1
<1>3. Range(both) = Range(first) \cup Range(second)
  <2>1. ASSUME NEW n \in 1 .. Len(both) PROVE both[n] \in Range(first) \cup Range(second)
    <3>1. CASE n <= Len(first)
      BY <1>2, <3>1 DEF Range
    <3>2. CASE n > Len(first)
      <4>1. n - Len(first) \in 1 .. Len(second) /\ both[n] = second[n - Len(first)]
        BY <1>2, <3>2
      <4>2. QED
        BY <4>1 DEF Range
    <3>3. QED
      BY <3>1, <3>2
  <2>2. ASSUME NEW n \in 1 .. Len(first) PROVE first[n] \in Range(both)
    <3>1. n \in 1 .. Len(both) /\ both[n] = first[n]
      BY <1>2
    <3>2. QED
      BY <3>1 DEF Range
  <2>3. ASSUME NEW n \in 1 .. Len(second) PROVE second[n] \in Range(both)
    <3>1. PICK m \in Nat : m = Len(first) + n
      OBVIOUS
    <3>2. m \in 1 .. Len(both) /\ m > Len(first) /\ m - Len(first) = n
      BY <1>2, <3>1
    <3>3. both[m] = second[n]
      BY <1>2, <3>2
    <3>4. QED
      BY <3>2, <3>3 DEF Range
  <2>4. /\ Range(both) = {both[n] : n \in 1 .. Len(both)}
        /\ Range(first) = {first[n] : n \in 1 .. Len(first)}
        /\ Range(second) = {second[n] : n \in 1 .. Len(second)}
    <3>1. DOMAIN both = 1 .. Len(both) /\ DOMAIN first = 1 .. Len(first) /\ DOMAIN second = 1 .. Len(second)
      BY <1>2
    <3>2. QED
      BY <3>1, Zenon DEF Range
  <2>5. Range(both) \subseteq Range(first) \cup Range(second)
    BY <2>1, <2>4
  <2>6. Range(first) \subseteq Range(both) /\ Range(second) \subseteq Range(both)
    BY <2>2, <2>3, <2>4
  <2>7. QED
    BY <2>5, <2>6
<1>4. QED
  BY <1>2, <1>3 DEF Announced

\* A frame that is sent is among the frames, and those before it stay.
LEMMA SentFrames ==
  ASSUME NEW S, NEW sent \in Seq(S), NEW frame \in S
  PROVE  Append(sent, frame) \in Seq(S) /\ Range(Append(sent, frame)) = Range(sent) \cup {frame}
<1>1. PICK all \in Seq(S) :
          /\ all = Append(sent, frame) /\ Len(all) = Len(sent) + 1 /\ all[Len(sent) + 1] = frame
          /\ \A n \in 1 .. Len(sent) : all[n] = sent[n]
  <2>1. /\ Append(sent, frame) \in Seq(S) /\ Len(Append(sent, frame)) = Len(sent) + 1
        /\ \A n \in 1 .. Len(sent) : Append(sent, frame)[n] = sent[n]
        /\ Append(sent, frame)[Len(sent) + 1] = frame
    <3>1. Append(sent, frame) \in Seq(S) /\ Len(Append(sent, frame)) = Len(sent) + 1
      OBVIOUS
    <3>2. \A n \in 1 .. Len(sent) : Append(sent, frame)[n] = sent[n]
      OBVIOUS
    <3>3. Append(sent, frame)[Len(sent) + 1] = frame
      OBVIOUS
    <3>4. QED
      BY <3>1, <3>2, <3>3
  <2>2. QED
    BY <2>1
<1>2. ASSUME NEW n \in 1 .. Len(all) PROVE all[n] \in Range(sent) \cup {frame}
  <2>1. n \in 1 .. Len(sent) \/ n = Len(sent) + 1
    BY <1>1
  <2>2. QED
    BY <1>1, <2>1 DEF Range
<1>3. ASSUME NEW n \in 1 .. Len(sent) PROVE sent[n] \in Range(all)
  <2>1. n \in 1 .. Len(all) /\ all[n] = sent[n]
    BY <1>1
  <2>2. QED
    BY <2>1 DEF Range
<1>4. frame \in Range(all)
  <2>1. Len(sent) + 1 \in 1 .. Len(all)
    BY <1>1
  <2>2. QED
    BY <1>1, <2>1 DEF Range
<1>5. QED
  BY <1>1, <1>2, <1>3, <1>4 DEF Range

\* What is first and what is after it is all there is.
LEMMA FirstAndRest ==
  ASSUME NEW S, NEW s \in Seq(S), s # <<>>
  PROVE  Head(s) \in S /\ Tail(s) \in Seq(S) /\ Range(s) = {Head(s)} \cup Range(Tail(s))
<1>1. PICK rest \in Seq(S) :
          /\ rest = Tail(s) /\ Len(rest) = Len(s) - 1
          /\ \A n \in 1 .. Len(rest) : rest[n] = s[n + 1]
  <2>1. /\ Tail(s) \in Seq(S) /\ Len(Tail(s)) = Len(s) - 1
        /\ \A n \in 1 .. Len(Tail(s)) : Tail(s)[n] = s[n + 1]
    BY HeadTailProperties, Zenon
  <2>2. QED
    BY <2>1
<1>2. Head(s) = s[1] /\ 1 \in 1 .. Len(s) /\ Head(s) \in S
  OBVIOUS
<1>3. ASSUME NEW n \in 1 .. Len(s) PROVE s[n] \in {Head(s)} \cup Range(rest)
  <2>1. CASE n = 1
    BY <1>2, <2>1
  <2>2. CASE n # 1
    <3>1. n - 1 \in 1 .. Len(rest) /\ rest[n - 1] = s[(n - 1) + 1] /\ (n - 1) + 1 = n
      BY <1>1, <2>2
    <3>2. QED
      BY <3>1 DEF Range
  <2>3. QED
    BY <2>1, <2>2
<1>4. ASSUME NEW n \in 1 .. Len(rest) PROVE rest[n] \in Range(s)
  <2>1. n + 1 \in 1 .. Len(s) /\ rest[n] = s[n + 1]
    BY <1>1
  <2>2. QED
    BY <2>1 DEF Range
<1>5. QED
  BY <1>1, <1>2, <1>3, <1>4 DEF Range

\* The number of the first error of a queue is a number.
LEMMA ErrorsAreNumbered ==
  ASSUME NEW queue \in Seq(Events)
  PROVE  SelectInSeq(queue, IsError) \in Nat
<1> DEFINE errors == {i \in 1 .. Len(queue) : IsError(queue[i])}
<1>1. SelectInSeq(queue, IsError) = IF errors # {} THEN Min(errors) ELSE 0
  BY DEF SelectInSeq
<1>2. errors \in SUBSET Nat
  OBVIOUS
<1> HIDE DEF errors
<1>3. ASSUME errors # {} PROVE Min(errors) \in Nat
  <2>1. PICK least \in errors : \A n \in errors : ~(<<n, least>> \in OpToRel(<, Nat))
    BY <1>2, <1>3, NatLessThanWellFounded, WFMin
  <2>2. \A n \in errors : least <= n
    <3>1. \A n \in errors : n \in Nat /\ ~(n < least)
      BY <1>2, <2>1 DEF OpToRel
    <3>2. least \in Nat
      BY <1>2
    <3>3. QED
      BY <3>1, <3>2
  <2>3. Min(errors) \in errors
    BY <2>2 DEF Min
  <2>4. QED
    BY <1>2, <2>3
<1>4. QED
  BY <1>1, <1>3

\* An event about a path that is seen makes its batch one that is announced.
LEMMA SeenIsAnnounced ==
  ASSUME NEW r \in Seq(Events), NEW n \in 1 .. Len(r), NEW m \in 1 .. Len(r[n].paths),
         Seen(r[n].paths[m])
  PROVE  Announced(r)
<1>1. r[n] \in Events /\ DOMAIN r = 1 .. Len(r)
  OBVIOUS
<1>2. r[n] \in Range(r)
  BY <1>1, Zenon DEF Range
<1>3. PICK paths \in Seq(Paths) : paths = r[n].paths
  BY <1>1 DEF Events
<1>4. paths[m] \in Range(paths)
  <2>1. DOMAIN paths = 1 .. Len(paths) /\ m \in 1 .. Len(paths)
    BY <1>3
  <2>2. QED
    BY <2>1, Zenon DEF Range
<1>5. QED
  BY <1>2, <1>3, <1>4 DEF Announced

\* An event about one path
LEMMA OneIsAnnounced ==
  ASSUME NEW kind \in EventKinds, NEW path \in Paths
  PROVE  /\ Event(kind, <<path>>) \in Events /\ Event(kind, <<path>>).paths = <<path>>
         /\ <<Event(kind, <<path>>)>> \in Seq(Events)
         /\ Seen(path) => Announced(<<Event(kind, <<path>>)>>)
<1>1. <<path>> \in Seq(Paths) /\ Len(<<path>>) = 1 /\ <<path>>[1] = path
  OBVIOUS
<1>2. PICK event \in Events : event = Event(kind, <<path>>) /\ event.paths = <<path>>
  <2>1. Event(kind, <<path>>) \in Events
    BY <1>1 DEF Event, Events
  <2>2. Event(kind, <<path>>).paths = <<path>>
    BY DEF Event
  <2>3. QED
    BY <2>1, <2>2
<1>3. <<event>> \in Seq(Events) /\ Len(<<event>>) = 1 /\ <<event>>[1] = event
  OBVIOUS
<1>4. PICK r \in Seq(Events) : r = <<event>> /\ Len(r) = 1 /\ r[1] = event
  BY <1>3
<1>5. 1 \in 1 .. Len(r) /\ 1 \in 1 .. Len(r[1].paths) /\ r[1].paths[1] = path
  BY <1>1, <1>2, <1>4
<1>6. Seen(path) => Announced(r)
  BY <1>5, SeenIsAnnounced
<1>7. QED
  BY <1>2, <1>3, <1>4, <1>6

\* Whatever a platform says of a path that is seen is announced.
LEMMA MovesAreAnnounced ==
  ASSUME NEW from \in Paths, NEW to \in Paths,
         Seen(from) \/ Seen(to), NEW r \in Moved(from, to)
  PROVE  r \in Seq(Events) /\ Announced(r)
<1>1. PICK left \in Events, right \in Events, both \in Events :
          /\ left.paths = <<from>> /\ right.paths = <<to>>
          /\ r = <<left, right>> \/ r = <<left, right, both>>
  <2>1. <<from, to>> \in Seq(Paths)
    OBVIOUS
  <2>2. Event("both", <<from, to>>) \in Events
    BY <2>1 DEF Event, Events, EventKinds
  <2>3. \A kind \in EventKinds, path \in {from, to} :
            Event(kind, <<path>>) \in Events /\ Event(kind, <<path>>).paths = <<path>>
    BY OneIsAnnounced
  <2>4. "from" \in EventKinds /\ "to" \in EventKinds /\ "modify" \in EventKinds
    BY DEF EventKinds
  <2>5. CASE r = <<Event("from", <<from>>), Event("to", <<to>>), Event("both", <<from, to>>)>>
    BY <2>2, <2>3, <2>4, <2>5
  <2>6. CASE r = <<Event("from", <<from>>), Event("to", <<to>>)>>
    BY <2>2, <2>3, <2>4, <2>6
  <2>7. CASE r = <<Event("modify", <<from>>), Event("modify", <<to>>)>>
    BY <2>2, <2>3, <2>4, <2>7
  <2>8. QED
    BY <2>5, <2>6, <2>7 DEF Moved
<1>2. <<left, right>> \in Seq(Events) /\ <<left, right, both>> \in Seq(Events)
  OBVIOUS
<1>3. r \in Seq(Events) /\ Len(r) >= 2 /\ r[1] = left /\ r[2] = right
  <2>1. CASE r = <<left, right>>
    BY <1>2, <2>1
  <2>2. CASE r = <<left, right, both>>
    BY <1>2, <2>2
  <2>3. QED
    BY <1>1, <2>1, <2>2
<1>4. 1 \in 1 .. Len(r) /\ 2 \in 1 .. Len(r)
  BY <1>3
<1>5. Len(<<from>>) = 1 /\ <<from>>[1] = from /\ Len(<<to>>) = 1 /\ <<to>>[1] = to
  OBVIOUS
<1>6. /\ 1 \in 1 .. Len(r[1].paths) /\ 1 \in 1 .. Len(r[2].paths)
      /\ r[1].paths[1] = from /\ r[2].paths[1] = to
  <2>1. r[1].paths = <<from>> /\ r[2].paths = <<to>>
    BY <1>1, <1>3
  <2>2. 1 \in 1 .. Len(<<from>>) /\ 1 \in 1 .. Len(<<to>>)
    BY <1>5
  <2>3. QED
    BY <1>5, <2>1, <2>2
<1>7. QED
  BY <1>3, <1>4, <1>6, SeenIsAnnounced

LEMMA EditKeeps ==
  ASSUME WatchInv, NEW after, NEW reports, Edited(after, reports),
         \A r \in reports : r \in Seq(Events) /\ Announced(r)
  PROVE  WatchInv'
<1>1. UNCHANGED <<frames, page, loads, followed>>
  BY DEF Edited
<1>2. FollowedInv'
  BY <1>1 DEF WatchInv, FollowedInv, Idle
<1>3. PICK r \in reports : watch' = IF IsWatching THEN [watch EXCEPT !.queue = @ \o r] ELSE watch
  BY DEF Edited
<1>4. CASE ~IsWatching
  BY <1>1, <1>2, <1>3, <1>4 DEF WatchInv, WatchShape, IsWatching
<1>5. CASE IsWatching
  <2>1. watch \in Streams /\ r \in Seq(Events) /\ Announced(r)
    BY DEF WatchInv, WatchShape
  <2>2. PICK before \in Seq(Events) : before = watch.queue
    BY <2>1 DEF Streams
  <2>3. before \o r \in Seq(Events)
    BY <2>1, ConcatProperties, Zenon
  <2>4. PICK queue \in Seq(Events) : queue = before \o r
    BY <2>3
  <2>5. Announced(queue)
    BY <2>1, <2>4, AnnouncedTogether
  <2>6. watch' = [watch EXCEPT !.queue = queue]
    BY <1>3, <1>5, <2>2, <2>4
  <2>7. watch' \in Streams /\ watch'.queue = queue /\ watch'.step = watch.step /\ watch'.batch = watch.batch
    BY <2>1, <2>6 DEF Streams
  <2>8. Announced(watch'.queue)
    BY <2>5, <2>7
  <2>9. WatchShape'
    BY <1>1, <2>7 DEF WatchInv, WatchShape
  <2>10. Announcing'
    BY <2>8 DEF Announcing, Announced
  <2>11. QED
    BY <1>2, <2>9, <2>10 DEF WatchInv
<1>6. QED
  BY <1>4, <1>5

LEMMA EditsKeep ==
  ASSUME WatchInv, EditSteps
  PROVE  WatchInv'
<1>1. \A n \in Notes : Seen(n) /\ n \in Paths
  BY VaultWatchAssumption DEF Seen, Paths
<1>2. Seen("folder") /\ "folder" \in Paths /\ "aside" \in Paths
  BY DEF Seen, Paths
<1>3. ASSUME NEW n \in Notes, SaveNote(n) PROVE WatchInv'
  <2>1. PICK kind \in EventKinds : kind = IF notes[n] = 0 THEN "create" ELSE "modify"
    BY DEF EventKinds
  <2>2. PICK after, reports : /\ Edited(after, reports)
                              /\ reports = {<<Event(kind, <<n>>)>>} \cup Moved("aside", n)
    BY <1>3, <2>1 DEF SaveNote
  <2>3. \A r \in reports : r \in Seq(Events) /\ Announced(r)
    BY <1>1, <1>2, <2>2, OneIsAnnounced, MovesAreAnnounced
  <2>4. QED
    BY <2>2, <2>3, EditKeeps
<1>4. ASSUME NEW n \in Notes, RemoveNote(n) PROVE WatchInv'
  <2>1. PICK after, reports : Edited(after, reports) /\ reports = {<<Event("remove", <<n>>)>>} \cup Moved(n, "aside")
    BY <1>4 DEF RemoveNote
  <2>2. "remove" \in EventKinds
    BY DEF EventKinds
  <2>3. \A r \in reports : r \in Seq(Events) /\ Announced(r)
    BY <1>1, <1>2, <2>1, <2>2, OneIsAnnounced, MovesAreAnnounced
  <2>4. QED
    BY <2>1, <2>3, EditKeeps
<1>5. ASSUME NEW n \in Notes, NEW m \in Notes, RenameNote(n, m) \/ RenameFolder(n, m) PROVE WatchInv'
  <2>1. PICK after : Edited(after, Moved(n, m)) \/ Edited(after, Moved("folder", "folder"))
    BY <1>5 DEF RenameNote, RenameFolder
  <2>2. /\ \A r \in Moved(n, m) : r \in Seq(Events) /\ Announced(r)
        /\ \A r \in Moved("folder", "folder") : r \in Seq(Events) /\ Announced(r)
    BY <1>1, <1>2, MovesAreAnnounced
  <2>3. QED
    BY <2>1, <2>2, EditKeeps
<1>6. QED
  BY <1>3, <1>4, <1>5 DEF EditSteps

LEMMA StreamKeeps ==
  ASSUME WatchInv, StreamSteps
  PROVE  WatchInv'
<1>1. /\ watch \in Streams /\ (watch.step # "collecting" => watch.batch = <<>>)
      /\ frames \in Seq({"ready", "changed", "unavailable"})
      /\ DOMAIN loads = LoadIds /\ followed \in BOOLEAN /\ FollowedInv
      /\ followed /\ IsWatching => Announcing \/ UpToDate
  BY DEF WatchInv, WatchShape
<1>2. UNCHANGED <<notes, page, loads, shownNotes>>
  BY DEF StreamSteps, OpenStream, StartWatcher, SendReady, TakeFirst, CollectBatch
<1>3. UpToDate => UpToDate'
  BY <1>2 DEF UpToDate, Idle
<1>4. followed' = followed => FollowedInv'
  BY <1>1, <1>2 DEF FollowedInv, Idle
<1>5. CASE OpenStream
  <2>1. watch' = [watch EXCEPT !.step = "counted"] /\ watch.step = "off" /\ UNCHANGED <<frames, followed>>
    BY <1>5 DEF OpenStream
  <2>2. watch' \in Streams /\ watch'.step = "counted" /\ watch'.batch = watch.batch
    BY <1>1, <2>1 DEF Streams
  <2>3. WatchShape'
    BY <1>1, <1>2, <2>1, <2>2 DEF WatchShape
  <2>4. ~IsWatching'
    BY <2>2 DEF IsWatching
  <2>5. QED
    BY <1>4, <2>1, <2>3, <2>4 DEF WatchInv
<1>6. CASE StartWatcher
  <2>1. /\ watch' = [watch EXCEPT !.step = "watching"] /\ watch.step = "counted" /\ frames' = frames
        /\ ~followed' /\ followed' \in BOOLEAN
    BY <1>6 DEF StartWatcher
  <2>2. watch' \in Streams /\ watch'.step = "watching" /\ watch'.batch = watch.batch
    BY <1>1, <2>1 DEF Streams
  <2>3. WatchShape'
    BY <1>1, <1>2, <2>1, <2>2 DEF WatchShape
  <2>4. QED
    BY <2>1, <2>3 DEF WatchInv, FollowedInv
<1>7. CASE SendReady
  <2>1. /\ watch' = [watch EXCEPT !.step = "waiting"] /\ watch.step = "watching"
        /\ frames' = Append(frames, "ready") /\ followed' = followed
    BY <1>7 DEF SendReady
  <2>2. /\ watch' \in Streams /\ watch'.step = "waiting"
        /\ watch'.batch = watch.batch /\ watch'.queue = watch.queue
    BY <1>1, <2>1 DEF Streams
  <2>3. /\ frames' \in Seq({"ready", "changed", "unavailable"})
        /\ Range(frames') = Range(frames) \cup {"ready"}
    BY <1>1, <2>1, SentFrames
  <2>4. WatchShape'
    BY <1>1, <1>2, <2>1, <2>2, <2>3 DEF WatchShape
  <2>5. Announcing => Announcing'
    BY <2>2, <2>3 DEF Announcing, Announced
  <2>6. IsWatching
    BY <2>1 DEF IsWatching
  <2>7. QED
    BY <1>1, <1>3, <1>4, <2>1, <2>4, <2>5, <2>6 DEF WatchInv
<1>8. CASE TakeFirst
  <2>1. watch.step = "waiting" /\ watch.queue # <<>> /\ followed' = followed /\ watch.batch = <<>>
    BY <1>1, <1>8 DEF TakeFirst
  <2>2. PICK queue \in Seq(Events) : queue = watch.queue
    BY <1>1 DEF Streams
  <2>3. PICK first \in Events, rest \in Seq(Events) :
            first = Head(queue) /\ rest = Tail(queue) /\ Range(queue) = {first} \cup Range(rest)
    <3>1. /\ Head(queue) \in Events /\ Tail(queue) \in Seq(Events)
          /\ Range(queue) = {Head(queue)} \cup Range(Tail(queue))
      BY <2>1, <2>2, FirstAndRest
    <3>2. QED
      BY <3>1
  <2>4. CASE IsError(first)
    <3>1. frames' = Append(frames, "unavailable") /\ watch' = [watch EXCEPT !.queue = rest]
      BY <1>8, <2>2, <2>3, <2>4 DEF TakeFirst
    <3>2. watch' \in Streams /\ watch'.step = "waiting" /\ watch'.batch = <<>>
      BY <1>1, <2>1, <3>1 DEF Streams
    <3>3. /\ frames' \in Seq({"ready", "changed", "unavailable"}) /\ "unavailable" \in Range(frames')
      BY <1>1, <3>1, SentFrames
    <3>4. WatchShape' /\ Announcing'
      BY <1>1, <1>2, <2>1, <3>2, <3>3 DEF WatchShape, Announcing
    <3>5. QED
      BY <1>4, <2>1, <3>4 DEF WatchInv
  <2>5. CASE ~IsError(first)
    <3>1. watch' = [watch EXCEPT !.step = "collecting", !.batch = <<first>>, !.queue = rest] /\ frames' = frames
      BY <1>8, <2>2, <2>3, <2>5 DEF TakeFirst
    <3>2. <<first>> \in Seq(Events) /\ Range(<<first>>) = {first}
      <4>1. <<first>> \in Seq(Events) /\ Len(<<first>>) = 1 /\ <<first>>[1] = first
        OBVIOUS
      <4>2. DOMAIN <<first>> = {1}
        BY <4>1
      <4>3. QED
        BY <4>1, <4>2 DEF Range
    <3>3. PICK batch \in Seq(Events) : batch = <<first>> /\ Range(batch) = {first}
      BY <3>2
    <3>4. watch' \in Streams /\ watch'.step = "collecting" /\ watch'.batch = batch /\ watch'.queue = rest
      BY <1>1, <3>1, <3>3 DEF Streams
    <3>5. WatchShape'
      BY <1>1, <1>2, <2>1, <3>1, <3>4 DEF WatchShape
    <3>6. Announced(watch.queue) => Announced(batch) \/ Announced(rest)
      BY <2>2, <2>3, <3>3 DEF Announced
    <3>7. ~Announced(watch.batch)
      <4>1. DOMAIN <<>> = {}
        OBVIOUS
      <4>2. QED
        BY <2>1, <4>1 DEF Announced, Range
    <3>8. Announcing => Announcing'
      BY <3>1, <3>4, <3>6, <3>7 DEF Announcing, Announced
    <3>9. IsWatching
      BY <2>1 DEF IsWatching
    <3>10. QED
      BY <1>1, <1>3, <1>4, <2>1, <3>5, <3>8, <3>9 DEF WatchInv
  <2>6. QED
    BY <2>4, <2>5
<1>9. CASE CollectBatch
  <2>1. watch.step = "collecting" /\ followed' = followed
    BY <1>9 DEF CollectBatch
  <2>2. PICK queue \in Seq(Events), batch \in Seq(Events) : queue = watch.queue /\ batch = watch.batch
    BY <1>1 DEF Streams
  <2>3. PICK failed \in Nat : failed = SelectInSeq(queue, IsError)
    BY ErrorsAreNumbered
  <2>4. CASE failed # 0
    <3>1. PICK rest : rest = SubSeq(queue, failed + 1, Len(queue))
      OBVIOUS
    <3>2. rest \in Seq(Events)
      <4>1. \A i \in failed + 1 .. Len(queue) : i \in 1 .. Len(queue)
        OBVIOUS
      <4>2. \A i \in failed + 1 .. Len(queue) : queue[i] \in Events
        BY <4>1
      <4>3. failed + 1 \in Int /\ Len(queue) \in Int
        OBVIOUS
      <4>4. QED
        BY <3>1, <4>2, <4>3, SubSeqProperties, Zenon
    <3>3. /\ frames' = Append(frames, "unavailable")
          /\ watch' = [watch EXCEPT !.step = "waiting", !.batch = <<>>, !.queue = rest]
      BY <1>9, <2>2, <2>3, <2>4, <3>1 DEF CollectBatch
    <3>4. watch' \in Streams /\ watch'.step = "waiting" /\ watch'.batch = <<>>
      <4>1. <<>> \in Seq(Events)
        OBVIOUS
      <4>2. QED
        BY <1>1, <3>2, <3>3, <4>1 DEF Streams
    <3>5. frames' \in Seq({"ready", "changed", "unavailable"}) /\ "unavailable" \in Range(frames')
      <4>1. /\ frames \in Seq({"ready", "changed", "unavailable"})
            /\ "unavailable" \in {"ready", "changed", "unavailable"}
        BY <1>1
      <4>2. PICK sent : sent = Append(frames, "unavailable")
        OBVIOUS
      <4>3. /\ sent \in Seq({"ready", "changed", "unavailable"})
            /\ Range(sent) = Range(frames) \cup {"unavailable"}
        BY <4>1, <4>2, SentFrames
      <4>4. frames' = sent
        BY <3>3, <4>2
      <4>5. QED
        BY <4>3, <4>4
    <3>6. WatchShape' /\ Announcing'
      BY <1>1, <1>2, <2>1, <3>4, <3>5 DEF WatchShape, Announcing
    <3>7. QED
      BY <1>4, <2>1, <3>6 DEF WatchInv
  <2>5. CASE failed = 0
    <3>1. /\ frames' = IF Announced(batch \o queue) THEN Append(frames, "changed") ELSE frames
          /\ watch' = [watch EXCEPT !.step = "waiting", !.batch = <<>>, !.queue = <<>>]
      BY <1>9, <2>2, <2>3, <2>5 DEF CollectBatch
    <3>2. watch' \in Streams /\ watch'.step = "waiting" /\ watch'.batch = <<>>
      <4>1. <<>> \in Seq(Events)
        OBVIOUS
      <4>2. QED
        BY <1>1, <3>1, <4>1 DEF Streams
    <3>3. Announced(batch \o queue) <=> Announced(batch) \/ Announced(queue)
      BY AnnouncedTogether
    <3>4. IsWatching
      BY <2>1 DEF IsWatching
    <3>5. CASE Announced(batch \o queue)
      <4>1. frames' \in Seq({"ready", "changed", "unavailable"}) /\ "changed" \in Range(frames')
        BY <1>1, <3>1, <3>5, SentFrames
      <4>2. WatchShape' /\ Announcing'
        BY <1>1, <1>2, <2>1, <3>2, <4>1 DEF WatchShape, Announcing
      <4>3. QED
        BY <1>4, <2>1, <4>2 DEF WatchInv
    <3>6. CASE ~Announced(batch \o queue)
      <4>1. frames' = frames
        BY <3>1, <3>6
      <4>2. Announcing => Announcing'
        BY <2>2, <3>3, <3>6, <4>1 DEF Announcing
      <4>3. WatchShape'
        BY <1>1, <1>2, <2>1, <3>2, <4>1 DEF WatchShape
      <4>4. QED
        BY <1>1, <1>3, <1>4, <2>1, <3>4, <4>2, <4>3 DEF WatchInv
    <3>7. QED
      BY <3>5, <3>6
  <2>6. QED
    BY <2>4, <2>5
<1>10. QED
  BY <1>5, <1>6, <1>7, <1>8, <1>9 DEF StreamSteps

LEMMA FaultKeeps ==
  ASSUME WatchInv, FaultSteps
  PROVE  WatchInv'
<1>1. /\ watch \in Streams /\ (watch.step # "collecting" => watch.batch = <<>>)
      /\ frames \in Seq({"ready", "changed", "unavailable"})
      /\ DOMAIN loads = LoadIds /\ followed \in BOOLEAN /\ FollowedInv
      /\ followed /\ IsWatching => Announcing \/ UpToDate
  BY DEF WatchInv, WatchShape
<1>2. CASE WatcherFails
  <2>1. /\ watch' = [watch EXCEPT !.queue = Append(@, Event("error", <<>>))] /\ IsWatching
        /\ UNCHANGED <<notes, frames, page, loads, shownNotes, followed>>
    BY <1>2 DEF WatcherFails
  <2>2. <<>> \in Seq(Paths) /\ "error" \in EventKinds
    BY DEF EventKinds
  <2>3. PICK event \in Events : event = Event("error", <<>>)
    BY <2>2 DEF Event, Events
  <2>4. PICK before \in Seq(Events) : before = watch.queue
    BY <1>1 DEF Streams
  <2>5. Append(before, event) \in Seq(Events) /\ Range(Append(before, event)) = Range(before) \cup {event}
    BY SentFrames
  <2>6. PICK queue \in Seq(Events) : queue = Append(before, event) /\ Range(queue) = Range(before) \cup {event}
    BY <2>5
  <2>7. watch' = [watch EXCEPT !.queue = queue]
    BY <2>1, <2>3, <2>4, <2>6
  <2>8. watch' \in Streams /\ watch'.queue = queue /\ watch'.step = watch.step /\ watch'.batch = watch.batch
    BY <1>1, <2>7 DEF Streams
  <2>9. Announced(before) => Announced(queue)
    BY <2>6 DEF Announced
  <2>10. Announcing => Announcing'
    BY <2>1, <2>4, <2>8, <2>9 DEF Announcing, Announced
  <2>11. WatchShape' /\ FollowedInv'
    BY <1>1, <2>1, <2>8 DEF WatchShape, FollowedInv, Idle
  <2>12. UpToDate => UpToDate'
    BY <2>1 DEF UpToDate, Idle
  <2>13. QED
    BY <1>1, <2>1, <2>10, <2>11, <2>12 DEF WatchInv
<1>3. CASE LoseStream
  <2>1. watch' = NoStream /\ frames' = <<>> /\ UNCHANGED <<page, loads, followed>>
    BY <1>3 DEF LoseStream
  <2>2. watch' \in Streams /\ watch'.batch = <<>> /\ watch'.step = "off"
    BY <2>1 DEF NoStream, Streams
  <2>3. <<>> \in Seq({"ready", "changed", "unavailable"})
    OBVIOUS
  <2>4. WatchShape' /\ FollowedInv'
    BY <1>1, <2>1, <2>2, <2>3 DEF WatchShape, FollowedInv, Idle
  <2>5. ~IsWatching'
    BY <2>2 DEF IsWatching
  <2>6. QED
    BY <2>4, <2>5 DEF WatchInv
<1>4. ASSUME NEW i \in LoadIds, LoadFails(i) PROVE WatchInv'
  <2>1. /\ loads' = [loads EXCEPT ![i] = Idle] /\ ~followed' /\ followed' \in BOOLEAN
        /\ UNCHANGED <<watch, frames>>
    BY <1>4 DEF LoadFails
  <2>2. WatchShape'
    BY <1>1, <2>1 DEF WatchShape
  <2>3. QED
    BY <2>1, <2>2 DEF WatchInv, FollowedInv
<1>5. QED
  BY <1>2, <1>3, <1>4 DEF FaultSteps

LEMMA PageKeeps ==
  ASSUME WatchInv, PageSteps
  PROVE  WatchInv'
<1>1. /\ watch \in Streams /\ (watch.step # "collecting" => watch.batch = <<>>)
      /\ frames \in Seq({"ready", "changed", "unavailable"})
      /\ DOMAIN loads = LoadIds /\ followed \in BOOLEAN /\ FollowedInv
      /\ followed /\ IsWatching => Announcing \/ UpToDate
  BY DEF WatchInv, WatchShape
<1>2. UNCHANGED <<notes, watch>>
  BY DEF PageSteps, OpenPage, ReceiveFrame, ListNotes, ShowList
<1>3. ASSUME UNCHANGED frames PROVE Announcing' <=> Announcing
  BY <1>2, <1>3 DEF Announcing, Announced
<1>4. ASSUME NEW i \in LoadIds, NEW load, loads' = [loads EXCEPT ![i] = load],
             frames' \in Seq({"ready", "changed", "unavailable"}), followed' \in BOOLEAN
      PROVE  WatchShape'
  BY <1>1, <1>2, <1>4 DEF WatchShape
<1>5. CASE OpenPage
  <2>1. PICK i \in LoadIds : loads' = [loads EXCEPT ![i] = [step |-> "asked"]]
    BY <1>5 DEF OpenPage, FreeLoads
  <2>2. ~followed /\ UNCHANGED <<frames, followed>>
    BY <1>1, <1>5 DEF OpenPage, FollowedInv
  <2>3. WatchShape'
    BY <1>1, <1>4, <2>1, <2>2
  <2>4. QED
    BY <2>2, <2>3 DEF WatchInv, FollowedInv
<1>6. ASSUME NEW i \in LoadIds, ListNotes(i) PROVE WatchInv'
  <2>1. /\ loads[i].step = "asked" /\ loads' = [loads EXCEPT ![i] = [step |-> "answered", listed |-> notes]]
        /\ UNCHANGED <<notes, frames, page, followed>>
    BY <1>6 DEF ListNotes
  <2>2. WatchShape'
    BY <1>1, <1>4, <2>1
  <2>3. loads[i] # Idle
    BY <2>1 DEF Idle
  <2>4. FollowedInv'
    BY <1>1, <2>1, <2>3 DEF FollowedInv, Idle
  <2>5. UpToDate'
    <3>1. loads'[i].step = "answered" /\ loads'[i].listed = notes'
      BY <1>1, <2>1
    <3>2. QED
      BY <3>1 DEF UpToDate
  <2>6. QED
    BY <2>2, <2>4, <2>5 DEF WatchInv
<1>7. ASSUME NEW i \in LoadIds, ShowList(i) PROVE WatchInv'
  <2>1. /\ loads[i].step = "answered" /\ loads' = [loads EXCEPT ![i] = Idle]
        /\ shownNotes' = loads[i].listed /\ UNCHANGED <<notes, frames, followed>>
        /\ page' = IF page = i THEN "open" ELSE page
    BY <1>7 DEF ShowList
  <2>2. WatchShape'
    BY <1>1, <1>4, <2>1
  <2>3. loads[i] # Idle
    BY <2>1 DEF Idle
  <2>4. \A j \in LoadIds : loads'[j] = IF j = i THEN Idle ELSE loads[j]
    BY <1>1, <2>1
  <2>5. FollowedInv'
    BY <1>1, <2>1, <2>4 DEF FollowedInv, Idle
  <2>6. ASSUME followed, UpToDate PROVE UpToDate'
    <3>1. \A j \in LoadIds : loads[j] # Idle => j = i
      BY <1>1, <2>3, <2>6 DEF FollowedInv
    <3>2. \A j \in LoadIds : loads'[j] = Idle
      BY <2>4, <3>1
    <3>3. Idle.step = "idle"
      BY DEF Idle
    <3>4. loads[i].listed = notes
      BY <2>1, <2>3, <2>6, <3>1, <3>3 DEF UpToDate
    <3>5. QED
      BY <2>1, <3>2, <3>4 DEF UpToDate, Idle
  <2>7. QED
    BY <1>1, <1>2, <1>3, <2>1, <2>2, <2>5, <2>6 DEF WatchInv, IsWatching
<1>8. CASE ReceiveFrame
  <2>1. page = "open" /\ page' = page /\ frames # <<>> /\ frames' = Tail(frames) /\ shownNotes' = shownNotes
    BY <1>8 DEF ReceiveFrame
  <2>2. /\ Head(frames) \in {"ready", "changed", "unavailable"}
        /\ frames' \in Seq({"ready", "changed", "unavailable"})
        /\ Range(frames) = {Head(frames)} \cup Range(frames')
    BY <1>1, <2>1, FirstAndRest
  <2>3. CASE Head(frames) = "changed"
    <3>1. PICK i \in LoadIds : /\ loads[i] = Idle /\ loads' = [loads EXCEPT ![i] = [step |-> "asked"]]
                               /\ followed' = (FreeLoads = LoadIds)
      BY <1>8, <2>3 DEF ReceiveFrame, FreeLoads
    <3>2. WatchShape'
      <4>1. followed' \in BOOLEAN
        BY <3>1
      <4>2. QED
        BY <1>4, <2>2, <3>1, <4>1
    <3>3. \A j \in LoadIds : loads'[j] = IF j = i THEN [step |-> "asked"] ELSE loads[j]
      BY <1>1, <3>1
    <3>4. FollowedInv'
      <4>1. followed' => \A j \in LoadIds : loads[j] = Idle
        BY <3>1 DEF FreeLoads
      <4>2. QED
        BY <2>1, <3>3, <4>1 DEF FollowedInv, Idle
    <3>5. UpToDate'
      <4>1. loads'[i].step = "asked"
        BY <3>3
      <4>2. QED
        BY <4>1 DEF UpToDate
    <3>6. QED
      BY <3>2, <3>4, <3>5 DEF WatchInv
  <2>4. CASE Head(frames) = "unavailable"
    <3>1. ~followed' /\ followed' \in BOOLEAN /\ loads' = loads
      BY <1>8, <2>4 DEF ReceiveFrame
    <3>2. WatchShape'
      BY <1>1, <1>2, <2>2, <3>1 DEF WatchShape
    <3>3. QED
      BY <3>1, <3>2 DEF WatchInv, FollowedInv
  <2>5. CASE Head(frames) = "ready"
    <3>1. UNCHANGED <<loads, followed>>
      BY <1>8, <2>5 DEF ReceiveFrame
    <3>2. WatchShape' /\ FollowedInv'
      BY <1>1, <1>2, <2>1, <2>2, <3>1 DEF WatchShape, FollowedInv, Idle
    <3>3. Announcing => Announcing'
      BY <1>2, <2>2, <2>5 DEF Announcing, Announced
    <3>4. UpToDate => UpToDate'
      BY <1>2, <2>1, <3>1 DEF UpToDate, Idle
    <3>5. QED
      BY <1>1, <1>2, <3>1, <3>2, <3>3, <3>4 DEF WatchInv, IsWatching
  <2>6. QED
    BY <2>2, <2>3, <2>4, <2>5
<1>9. QED
  BY <1>5, <1>6, <1>7, <1>8 DEF PageSteps

LEMMA WatchKeeps ==
  ASSUME WatchInv, [WatchNext]_watchVars
  PROVE  WatchInv'
<1>1. CASE UNCHANGED watchVars
  BY <1>1 DEF watchVars, WatchInv, WatchShape, FollowedInv, IsWatching, Announcing, Announced, UpToDate, Idle
<1>2. QED
  BY <1>1, EditsKeep, StreamKeeps, FaultKeeps, PageKeeps DEF WatchNext

\* Once nothing is under way, what is announced and what is loaded are none.
LEMMA WatchIsSound == WatchInv => ListFollowsVault
<1> SUFFICES ASSUME WatchInv, Settled, followed PROVE shownNotes = notes
  BY DEF ListFollowsVault
<1>1. watch.step = "waiting" /\ watch.queue = <<>> /\ watch.batch = <<>> /\ frames = <<>>
  BY DEF WatchInv, WatchShape, Settled
<1>2. DOMAIN <<>> = {}
  OBVIOUS
<1>3. ~Announcing
  BY <1>1, <1>2 DEF Announcing, Announced, Range
<1>4. IsWatching
  BY <1>1 DEF IsWatching
<1>5. \A i \in LoadIds : loads[i] = Idle
  BY DEF Settled, FreeLoads
<1>6. UpToDate
  BY <1>3, <1>4 DEF WatchInv
<1>7. QED
  BY <1>5, <1>6 DEF UpToDate, Idle

-----------------------------------------------------------------------------
(* A streamed reply: the inductive invariant *)

FrameWidth == Width(protocol, newline)
WholeBody == Encoded(protocol, newline, script)
Skipped(f) == f * FrameWidth

StreamBytes == [frame : Nat, byte : {"head", "tail", "lf", "cr"}]

StreamShape ==
    /\ protocol \in Protocols /\ script \in Replies[protocol] /\ newline \in {"lf", "crlf"}
    /\ body \in {"open", "cut", "over"}
    /\ buffer \in Seq(StreamBytes)
    /\ collected \in [content : Seq(Nat), calls : SUBSET Nat, finish : Ends \cup {"none"}, finished : BOOLEAN]

\* The model has given its reason within the first g frames.
Stopped(g) == \E i \in 1 .. g : script[i] \in Ends

\* What the collector has is what the first g frames say.
Told(g) ==
    /\ g \in 0 .. Len(script)
    /\ Len(collected.content) = Cardinality(TextsTo(g))
    /\ \A n \in 1 .. Len(collected.content) :
          /\ collected.content[n] \in TextsTo(g)
          /\ Cardinality(TextsTo(collected.content[n])) = n
    /\ shown = collected.content
    /\ fragments = {i \in 1 .. g : script[i] = "fragment"}
    /\ collected.calls = {i \in 1 .. g : script[i] = "calls" \/ (script[i] = "fragment" /\ Stopped(g))}
    /\ collected.finished => Stopped(g)
    /\ collected.finish \in Ends <=> Stopped(g)

\* How many line feeds make a frame of what is left of the last one
LineFeeds(r) ==
    IF protocol = "ollama" \/ (newline = "lf" /\ r = 3) \/ (newline = "crlf" /\ r >= 4) THEN 1 ELSE 2

\* The buffer holds r bytes of the body behind its first f frames, and m line feeds.
Holds(f, r, m) ==
    /\ f \in 0 .. Len(script) /\ r \in Nat /\ m \in Nat
    /\ Skipped(f) + r <= Skipped(Len(script))
    /\ Len(buffer) = r + m
    /\ \A k \in 1 .. r : buffer[k] = WholeBody[Skipped(f) + k]
    /\ \A k \in r + 1 .. r + m : buffer[k] = LF
    /\ m > 0 => body # "open" /\ r \in 1 .. FrameWidth - 1 /\ m <= LineFeeds(r)

\* What has not arrived follows; the end of the last delimiter may be missing.
Continues(f, r) ==
    /\ body = "open" =>
          /\ \E k \in 0 .. FrameWidth - 2 : Skipped(f) + r + Len(wire) + k = Skipped(Len(script))
          /\ \A k \in 1 .. Len(wire) : wire[k] = WholeBody[Skipped(f) + r + k]
    /\ body = "over" =>
          IF r = 0 THEN f = Len(script)
          ELSE \E k \in 0 .. FrameWidth - 2 : Skipped(f) + r + k = Skipped(Len(script))

StreamInv ==
    /\ StreamShape /\ wire \in Seq(StreamBytes)
    /\ \E g \in 0 .. Len(script) : Told(g)
    /\ outcome = "none" =>
          \E f \in 0 .. Len(script), r \in 0 .. Len(buffer), m \in 0 .. 2 : Told(f) /\ Holds(f, r, m) /\ Continues(f, r)
    /\ outcome = "answer" /\ body = "over" =>
          \E g \in 0 .. Len(script) : Told(g) /\ Stopped(g)

LEMMA ReplyEnds ==
  ASSUME StreamShape
  PROVE  /\ script \in Seq(Kinds) /\ Len(script) \in Nat
         /\ \A i \in 1 .. Len(script) : script[i] \in Kinds
         /\ \E last \in 1 .. Len(script) :
               /\ script[last] \in Ends
               /\ \A i \in 1 .. last - 1 : script[i] \in {"text", "fragment", "calls", "comment"}
               /\ \A i \in last + 1 .. Len(script) : script[i] \in {"comment", "done"}
               /\ \A i, j \in 1 .. last - 1 : script[i] = "calls" /\ script[j] \in {"calls", "fragment"} => i = j
<1>1. script \in Seq(Kinds) /\ IsReply(script)
  BY StreamAssumption DEF StreamShape
<1>2. DOMAIN script = 1 .. Len(script)
  BY <1>1
<1>3. QED
  BY <1>1, <1>2 DEF IsReply

LEMMA Delimiters ==
  ASSUME StreamShape
  PROVE  /\ protocol = "ollama" => FrameWidth = 3 /\ Delimiter(protocol, newline) = <<LF>>
         /\ protocol # "ollama" /\ newline = "lf" => FrameWidth = 4 /\ Delimiter(protocol, newline) = <<LF, LF>>
         /\ protocol # "ollama" /\ newline # "lf" => FrameWidth = 6 /\ Delimiter(protocol, newline) = <<CR, LF, CR, LF>>
         /\ FrameWidth \in {3, 4, 6} /\ Len(Delimiter(protocol, newline)) = FrameWidth - 2
<1>1. CASE protocol = "ollama"
  <2>1. Delimiter(protocol, newline) = <<LF>>
    BY <1>1 DEF Delimiter
  <2>2. FrameWidth = 3
    BY <2>1 DEF FrameWidth, Width
  <2>3. QED
    BY <1>1, <2>1, <2>2
<1>2. CASE protocol # "ollama" /\ newline = "lf"
  <2>1. Delimiter(protocol, newline) = <<LF, LF>>
    BY <1>2 DEF Delimiter
  <2>2. FrameWidth = 4
    BY <2>1 DEF FrameWidth, Width
  <2>3. QED
    BY <1>2, <2>1, <2>2
<1>3. CASE protocol # "ollama" /\ newline # "lf"
  <2>1. Delimiter(protocol, newline) = <<CR, LF, CR, LF>>
    BY <1>3 DEF Delimiter
  <2>2. FrameWidth = 6
    BY <2>1 DEF FrameWidth, Width
  <2>3. QED
    BY <1>3, <2>1, <2>2
<1>4. QED
  BY <1>1, <1>2, <1>3

LEMMA FramesFollow ==
  ASSUME StreamShape, NEW f \in 0 .. Len(script)
  PROVE  /\ Skipped(f) \in Nat /\ Skipped(Len(script)) \in Nat /\ Skipped(0) = 0
         /\ Skipped(f) <= Skipped(Len(script))
         /\ f < Len(script) =>
               /\ f + 1 \in 0 .. Len(script)
               /\ Skipped(f) + FrameWidth = Skipped(f + 1) /\ Skipped(f + 1) <= Skipped(Len(script))
               /\ f + 1 < Len(script) => Skipped(f + 1) + FrameWidth <= Skipped(Len(script))
<1>1. PICK s \in Nat : s = Len(script)
  BY ReplyEnds
<1>2. FrameWidth \in {3, 4, 6}
  BY Delimiters
<1>3. f \in Nat /\ f <= s
  BY <1>1
<1>4. CASE FrameWidth = 3
  BY <1>1, <1>3, <1>4 DEF Skipped
<1>5. CASE FrameWidth = 4
  BY <1>1, <1>3, <1>5 DEF Skipped
<1>6. CASE FrameWidth = 6
  BY <1>1, <1>3, <1>6 DEF Skipped
<1>7. QED
  BY <1>2, <1>4, <1>5, <1>6

\* The byte at a place of a frame, by how wide the frames are
LEMMA PlacesOf ==
  ASSUME NEW w \in {3, 4, 6}, NEW s \in Nat, NEW f \in 0 .. s - 1, NEW q \in 1 .. w
  PROVE  /\ f * w + q \in 1 .. s * w
         /\ 1 + ((f * w + q - 1) \div w) = f + 1 /\ 1 + ((f * w + q - 1) % w) = q
<1>1. CASE w = 3
  BY <1>1
<1>2. CASE w = 4
  BY <1>2
<1>3. CASE w = 6
  BY <1>3
<1>4. QED
  BY <1>1, <1>2, <1>3

LEMMA PlaceOfByte ==
  ASSUME NEW w \in {3, 4, 6}, NEW s \in Nat, NEW k \in 1 .. s * w
  PROVE  /\ 1 + ((k - 1) \div w) \in 1 .. s /\ 1 + ((k - 1) % w) \in 1 .. w
<1>1. CASE w = 3
  BY <1>1
<1>2. CASE w = 4
  BY <1>2
<1>3. CASE w = 6
  BY <1>3
<1>4. QED
  BY <1>1, <1>2, <1>3

\* The bytes of a frame
FrameOf(i) == <<Byte(i, "head"), Byte(i, "tail")>> \o Delimiter(protocol, newline)

LEMMA FrameOfBytes ==
  ASSUME StreamShape, NEW i \in Nat
  PROVE  /\ FrameOf(i)[1] = Byte(i, "head") /\ FrameOf(i)[2] = Byte(i, "tail")
         /\ FrameWidth = 3 => FrameOf(i)[3] = LF
         /\ FrameWidth = 4 => FrameOf(i)[3] = LF /\ FrameOf(i)[4] = LF
         /\ FrameWidth = 6 => /\ FrameOf(i)[3] = CR /\ FrameOf(i)[4] = LF
                              /\ FrameOf(i)[5] = CR /\ FrameOf(i)[6] = LF
         /\ \A q \in 1 .. FrameWidth : FrameOf(i)[q] \in StreamBytes
<1>1. /\ Byte(i, "head") \in StreamBytes /\ Byte(i, "tail") \in StreamBytes
      /\ LF \in StreamBytes /\ CR \in StreamBytes
  BY DEF Byte, StreamBytes, LF, CR
<1>2. CASE protocol = "ollama"
  <2>1. FrameWidth = 3 /\ Delimiter(protocol, newline) = <<LF>>
    BY <1>2, Delimiters
  <2>2. FrameOf(i) = <<Byte(i, "head"), Byte(i, "tail")>> \o <<LF>>
    BY <2>1 DEF FrameOf
  <2>3. QED
    BY <1>1, <2>1, <2>2
<1>3. CASE protocol # "ollama" /\ newline = "lf"
  <2>1. FrameWidth = 4 /\ Delimiter(protocol, newline) = <<LF, LF>>
    BY <1>3, Delimiters
  <2>2. FrameOf(i) = <<Byte(i, "head"), Byte(i, "tail")>> \o <<LF, LF>>
    BY <2>1 DEF FrameOf
  <2>3. QED
    BY <1>1, <2>1, <2>2
<1>4. CASE protocol # "ollama" /\ newline # "lf"
  <2>1. FrameWidth = 6 /\ Delimiter(protocol, newline) = <<CR, LF, CR, LF>>
    BY <1>4, Delimiters
  <2>2. FrameOf(i) = <<Byte(i, "head"), Byte(i, "tail")>> \o <<CR, LF, CR, LF>>
    BY <2>1 DEF FrameOf
  <2>3. QED
    BY <1>1, <2>1, <2>2
<1>5. QED
  BY <1>2, <1>3, <1>4

\* A body is one frame after another.
LEMMA BodyIsOfFrames ==
  ASSUME StreamShape
  PROVE  /\ WholeBody \in Seq(StreamBytes) /\ Len(WholeBody) = Skipped(Len(script))
         /\ \A f \in 0 .. Len(script) - 1, q \in 1 .. FrameWidth :
               WholeBody[Skipped(f) + q] = FrameOf(f + 1)[q]
         /\ \A k \in 1 .. Skipped(Len(script)) :
               WholeBody[k] = FrameOf(1 + ((k - 1) \div FrameWidth))[1 + ((k - 1) % FrameWidth)]
<1>1. PICK s \in Nat : s = Len(script)
  BY ReplyEnds
<1>2. PICK w \in {3, 4, 6} : w = FrameWidth
  BY Delimiters
<1>3. WholeBody = [k \in 1 .. s * w |-> FrameOf(1 + ((k - 1) \div w))[1 + ((k - 1) % w)]]
  BY <1>1, <1>2 DEF WholeBody, Encoded, FrameOf, FrameWidth
<1>4. Skipped(Len(script)) = s * w /\ s * w \in Nat
  <2>1. s * w \in Nat
    BY <1>1, <1>2
  <2>2. QED
    BY <1>1, <1>2, <2>1 DEF Skipped
<1>5. \A k \in 1 .. s * w : WholeBody[k] \in StreamBytes
  <2>1. SUFFICES ASSUME NEW k \in 1 .. s * w PROVE WholeBody[k] \in StreamBytes
    OBVIOUS
  <2>2. PICK i \in 1 .. s, q \in 1 .. w : i = 1 + ((k - 1) \div w) /\ q = 1 + ((k - 1) % w)
    BY PlaceOfByte
  <2>3. WholeBody[k] = FrameOf(i)[q] /\ i \in Nat
    BY <1>3, <2>2
  <2>4. QED
    BY <1>2, <2>3, FrameOfBytes
<1>6. ASSUME NEW f \in 0 .. Len(script) - 1, NEW q \in 1 .. FrameWidth
      PROVE  WholeBody[Skipped(f) + q] = FrameOf(f + 1)[q]
  <2>1. f \in 0 .. s - 1 /\ q \in 1 .. w /\ Skipped(f) = f * w
    BY <1>1, <1>2 DEF Skipped
  <2>2. PICK k \in 1 .. s * w : k = f * w + q
    BY <2>1, PlacesOf
  <2>3. 1 + ((k - 1) \div w) = f + 1 /\ 1 + ((k - 1) % w) = q
    BY <2>1, <2>2, PlacesOf
  <2>4. WholeBody[k] = FrameOf(f + 1)[q]
    BY <1>3, <2>3
  <2>5. QED
    BY <2>1, <2>2, <2>4
<1>7. WholeBody \in Seq(StreamBytes) /\ Len(WholeBody) = s * w
  BY <1>3, <1>4, <1>5
<1>8. QED
  BY <1>2, <1>3, <1>4, <1>6, <1>7

-----------------------------------------------------------------------------
(* A streamed reply: where its frames end *)

OneFeed(bytes) == {i \in 1 .. Len(bytes) : bytes[i] = LF}
TwoFeeds(bytes) == {i \in 1 .. Len(bytes) - 1 : bytes[i] = LF /\ bytes[i + 1] = LF}
TwoLineEnds(bytes) ==
    {i \in 1 .. Len(bytes) - 3 : bytes[i] = CR /\ bytes[i + 1] = LF /\ bytes[i + 2] = CR /\ bytes[i + 3] = LF}

LEMMA PatternsAre ==
  ASSUME NEW bytes \in Seq(StreamBytes)
  PROVE  /\ PositionsOf(<<LF>>, bytes) = OneFeed(bytes)
         /\ PositionsOf(<<LF, LF>>, bytes) = TwoFeeds(bytes)
         /\ PositionsOf(<<CR, LF, CR, LF>>, bytes) = TwoLineEnds(bytes)
<1>1. Len(bytes) \in Nat
  OBVIOUS
<1>2. PositionsOf(<<LF>>, bytes) = OneFeed(bytes)
  <2>1. PositionsOf(<<LF>>, bytes) = {i \in 1 .. Len(bytes) : SubSeq(bytes, i, i) = <<LF>>}
    BY <1>1 DEF PositionsOf
  <2>2. ASSUME NEW i \in 1 .. Len(bytes) PROVE SubSeq(bytes, i, i) = <<LF>> <=> bytes[i] = LF
    <3>1. SubSeq(bytes, i, i) = [n \in 1 .. 1 |-> bytes[i + n - 1]]
      BY <1>1
    <3>2. bytes[i + 1 - 1] = bytes[i]
      BY <1>1
    <3>3. SubSeq(bytes, i, i) = <<bytes[i]>>
      BY <3>1, <3>2
    <3>4. QED
      BY <3>3
  <2>3. QED
    BY <2>1, <2>2 DEF OneFeed
<1>3. PositionsOf(<<LF, LF>>, bytes) = TwoFeeds(bytes)
  <2>1. PositionsOf(<<LF, LF>>, bytes) = {i \in 1 .. Len(bytes) - 1 : SubSeq(bytes, i, i + 1) = <<LF, LF>>}
    BY <1>1 DEF PositionsOf
  <2>2. ASSUME NEW i \in 1 .. Len(bytes) - 1
        PROVE  SubSeq(bytes, i, i + 1) = <<LF, LF>> <=> bytes[i] = LF /\ bytes[i + 1] = LF
    <3>1. SubSeq(bytes, i, i + 1) = [n \in 1 .. 2 |-> bytes[i + n - 1]]
      BY <1>1
    <3>2. bytes[i + 1 - 1] = bytes[i] /\ bytes[i + 2 - 1] = bytes[i + 1]
      BY <1>1
    <3>3. SubSeq(bytes, i, i + 1) = <<bytes[i], bytes[i + 1]>>
      <4>1. SubSeq(bytes, i, i + 1) \in Seq(StreamBytes)
        BY <1>1
      <4>2. PICK s \in Seq(StreamBytes) : s = SubSeq(bytes, i, i + 1)
        BY <4>1
      <4>3. Len(s) = 2 /\ s[1] = bytes[i] /\ s[2] = bytes[i + 1]
        BY <3>1, <3>2, <4>2
      <4>4. s = <<bytes[i], bytes[i + 1]>>
        BY <4>3
      <4>5. QED
        BY <4>2, <4>4
    <3>4. QED
      BY <3>3
  <2>3. QED
    BY <2>1, <2>2 DEF TwoFeeds
<1>4. PositionsOf(<<CR, LF, CR, LF>>, bytes) = TwoLineEnds(bytes)
  <2>1. PositionsOf(<<CR, LF, CR, LF>>, bytes) =
            {i \in 1 .. Len(bytes) - 3 : SubSeq(bytes, i, i + 3) = <<CR, LF, CR, LF>>}
    <3>1. /\ Len(<<CR, LF, CR, LF>>) = 4 /\ Len(bytes) - 4 + 1 = Len(bytes) - 3
          /\ \A i \in Int : i + 4 - 1 = i + 3
      BY <1>1
    <3>2. QED
      BY <1>1, <3>1 DEF PositionsOf
  <2>2. ASSUME NEW i \in 1 .. Len(bytes) - 3
        PROVE  SubSeq(bytes, i, i + 3) = <<CR, LF, CR, LF>> <=>
                   bytes[i] = CR /\ bytes[i + 1] = LF /\ bytes[i + 2] = CR /\ bytes[i + 3] = LF
    <3>1. SubSeq(bytes, i, i + 3) = [n \in 1 .. 4 |-> bytes[i + n - 1]]
      BY <1>1
    <3>2. /\ bytes[i + 1 - 1] = bytes[i] /\ bytes[i + 2 - 1] = bytes[i + 1]
          /\ bytes[i + 3 - 1] = bytes[i + 2] /\ bytes[i + 4 - 1] = bytes[i + 3]
      BY <1>1
    <3>3. SubSeq(bytes, i, i + 3) = <<bytes[i], bytes[i + 1], bytes[i + 2], bytes[i + 3]>>
      <4>1. SubSeq(bytes, i, i + 3) \in Seq(StreamBytes)
        BY <1>1
      <4>2. PICK s \in Seq(StreamBytes) : s = SubSeq(bytes, i, i + 3)
        BY <4>1
      <4>3. Len(s) = 4 /\ s[1] = bytes[i] /\ s[2] = bytes[i + 1] /\ s[3] = bytes[i + 2] /\ s[4] = bytes[i + 3]
        BY <3>1, <3>2, <4>2
      <4>4. s = <<bytes[i], bytes[i + 1], bytes[i + 2], bytes[i + 3]>>
        BY <4>3
      <4>5. QED
        BY <4>2, <4>4
    <3>4. QED
      BY <3>3
  <2>3. QED
    BY <2>1, <2>2 DEF TwoLineEnds
<1>5. QED
  BY <1>2, <1>3, <1>4

LEMMA FirstIs ==
  ASSUME NEW places, places \subseteq Int, NEW i \in places, \A j \in places : i <= j
  PROVE  First(places) = i
<1>1. First(places) \in places /\ \A j \in places : First(places) <= j
  BY DEF First
<1>2. First(places) <= i /\ i <= First(places) /\ First(places) \in Int /\ i \in Int
  BY <1>1
<1>3. QED
  BY <1>2

LEMMA FrameEndsAre ==
  ASSUME NEW bytes \in Seq(StreamBytes)
  PROVE  /\ protocol = "ollama" =>
                FrameEnds(bytes) = IF OneFeed(bytes) = {} THEN {} ELSE {<<First(OneFeed(bytes)), 1>>}
         /\ protocol # "ollama" =>
                FrameEnds(bytes) = IF TwoFeeds(bytes) # {} THEN {<<First(TwoFeeds(bytes)), 2>>}
                                   ELSE IF TwoLineEnds(bytes) # {} THEN {<<First(TwoLineEnds(bytes)), 4>>}
                                   ELSE {}
<1>1. /\ PositionsOf(<<LF>>, bytes) = OneFeed(bytes)
      /\ PositionsOf(<<LF, LF>>, bytes) = TwoFeeds(bytes)
      /\ PositionsOf(<<CR, LF, CR, LF>>, bytes) = TwoLineEnds(bytes)
  BY PatternsAre
<1>2. CASE protocol = "ollama"
  <2> DEFINE patterns == <<<<LF>>>>
             hits == {k \in DOMAIN patterns : PositionsOf(patterns[k], bytes) # {}}
  <2>1. DOMAIN patterns = {1} /\ patterns[1] = <<LF>>
    OBVIOUS
  <2>2. FrameEnds(bytes) = IF hits = {} THEN {}
                           ELSE {<<First(PositionsOf(patterns[First(hits)], bytes)), Len(patterns[First(hits)])>>}
    BY <1>2 DEF FrameEnds
  <2>3. hits = IF OneFeed(bytes) = {} THEN {} ELSE {1}
    BY <1>1, <2>1
  <2> HIDE DEF hits
  <2>4. First({1}) = 1
    BY FirstIs
  <2>5. Len(patterns[1]) = 1
    OBVIOUS
  <2> HIDE DEF patterns
  <2>6. QED
    BY <1>1, <1>2, <2>1, <2>2, <2>3, <2>4, <2>5
<1>3. CASE protocol # "ollama"
  <2> DEFINE patterns == <<<<LF, LF>>, <<CR, LF, CR, LF>>>>
             hits == {k \in DOMAIN patterns : PositionsOf(patterns[k], bytes) # {}}
  <2>1. DOMAIN patterns = {1, 2} /\ patterns[1] = <<LF, LF>> /\ patterns[2] = <<CR, LF, CR, LF>>
    OBVIOUS
  <2>2. FrameEnds(bytes) = IF hits = {} THEN {}
                           ELSE {<<First(PositionsOf(patterns[First(hits)], bytes)), Len(patterns[First(hits)])>>}
    BY <1>3 DEF FrameEnds
  <2>3. /\ hits \subseteq {1, 2}
        /\ (1 \in hits) <=> (TwoFeeds(bytes) # {})
        /\ (2 \in hits) <=> (TwoLineEnds(bytes) # {})
    BY <1>1, <2>1
  <2> HIDE DEF hits
  <2>4. 1 \in hits => First(hits) = 1
    <3>1. hits \subseteq Int /\ \A j \in hits : 1 <= j
      BY <2>3
    <3>2. QED
      BY <3>1, FirstIs
  <2>5. 1 \notin hits /\ 2 \in hits => First(hits) = 2
    <3>1. SUFFICES ASSUME 1 \notin hits, 2 \in hits PROVE First(hits) = 2
      OBVIOUS
    <3>2. hits \subseteq Int /\ \A j \in hits : 2 <= j
      BY <2>3, <3>1
    <3>3. QED
      BY <3>1, <3>2, FirstIs
  <2>6. Len(patterns[1]) = 2 /\ Len(patterns[2]) = 4
    OBVIOUS
  <2> HIDE DEF patterns
  <2>7. CASE 1 \in hits
    BY <1>1, <1>3, <2>1, <2>2, <2>3, <2>4, <2>6, <2>7
  <2>8. CASE 1 \notin hits /\ 2 \in hits
    BY <1>1, <1>3, <2>1, <2>2, <2>3, <2>5, <2>6, <2>8
  <2>9. CASE 1 \notin hits /\ 2 \notin hits
    BY <1>3, <2>2, <2>3, <2>9
  <2>10. QED
    BY <2>7, <2>8, <2>9
<1>4. QED
  BY <1>2, <1>3

LEMMA FirstBytes ==
  ASSUME StreamShape, NEW f, NEW r, NEW m, Holds(f, r, m), r > 0
  PROVE  /\ f \in 0 .. Len(script) - 1
         /\ \A q \in 1 .. FrameWidth : q <= r => buffer[q] = FrameOf(f + 1)[q]
<1>1. /\ f \in 0 .. Len(script) /\ r \in Nat /\ Skipped(f) + r <= Skipped(Len(script))
      /\ \A k \in 1 .. r : buffer[k] = WholeBody[Skipped(f) + k]
  BY DEF Holds
<1>2. Len(script) \in Nat /\ Skipped(f) \in Nat /\ Skipped(Len(script)) \in Nat
  BY <1>1, ReplyEnds, FramesFollow
<1>3. f # Len(script)
  BY <1>1, <1>2
<1>4. f \in 0 .. Len(script) - 1
  BY <1>1, <1>2, <1>3
<1>5. FrameWidth \in Nat
  BY Delimiters
<1>6. ASSUME NEW q \in 1 .. FrameWidth, q <= r PROVE buffer[q] = FrameOf(f + 1)[q]
  <2>1. q \in 1 .. r
    BY <1>1, <1>5, <1>6
  <2>2. WholeBody[Skipped(f) + q] = FrameOf(f + 1)[q]
    BY <1>4, <1>6, BodyIsOfFrames
  <2>3. QED
    BY <1>1, <2>1, <2>2
<1>7. QED
  BY <1>4, <1>6

LEMMA BytesDiffer ==
  ASSUME NEW i \in Nat
  PROVE  /\ Byte(i, "head") # LF /\ Byte(i, "head") # CR /\ Byte(i, "tail") # LF /\ Byte(i, "tail") # CR
         /\ LF # CR /\ Byte(i, "head") # Byte(i, "tail")
BY DEF Byte, LF, CR

\* With carriage returns no two line feeds stand side by side.
LEMMA FeedsAreApart ==
  ASSUME StreamShape, FrameWidth = 6, NEW f, NEW r, NEW m, Holds(f, r, m), m = 0
  PROVE  TwoFeeds(buffer) = {}
<1>1. /\ f \in 0 .. Len(script) /\ r \in Nat /\ Skipped(f) + r <= Skipped(Len(script)) /\ Len(buffer) = r
      /\ \A k \in 1 .. r : buffer[k] = WholeBody[Skipped(f) + k]
  BY DEF Holds
<1>2. PICK s \in Nat : s = Len(script)
  BY ReplyEnds
<1>3. Skipped(f) \in Nat /\ Skipped(Len(script)) = s * 6
  BY <1>1, <1>2, FramesFollow DEF Skipped
<1>4. \A k \in 1 .. s * 6 : WholeBody[k] = FrameOf(1 + ((k - 1) \div 6))[1 + ((k - 1) % 6)]
  BY <1>3, BodyIsOfFrames
<1>5. SUFFICES ASSUME NEW i \in 1 .. r - 1, buffer[i] = LF, buffer[i + 1] = LF PROVE FALSE
  BY <1>1 DEF TwoFeeds
<1>6. PICK k \in 1 .. s * 6 : k = Skipped(f) + i /\ k + 1 \in 1 .. s * 6
  BY <1>1, <1>3
<1>7. WholeBody[k] = LF /\ WholeBody[k + 1] = LF
  <2>1. i \in 1 .. r /\ i + 1 \in 1 .. r /\ Skipped(f) + (i + 1) = k + 1
    BY <1>1, <1>3, <1>6
  <2>2. QED
    BY <1>1, <1>5, <1>6, <2>1
<1>8. PICK x \in 1 .. s, q \in 1 .. 6 : x = 1 + ((k - 1) \div 6) /\ q = 1 + ((k - 1) % 6)
  BY <1>6, PlaceOfByte
<1>9. PICK y \in 1 .. s, p \in 1 .. 6 : y = 1 + ((k + 1 - 1) \div 6) /\ p = 1 + ((k + 1 - 1) % 6)
  BY <1>6, PlaceOfByte
<1>10. p = q + 1 \/ (q = 6 /\ p = 1)
  <2>1. CASE q = 6
    <3>1. 1 + ((k + 1 - 1) % 6) = 1
      BY <1>6, <1>8, <2>1
    <3>2. QED
      BY <1>9, <2>1, <3>1
  <2>2. CASE q # 6
    <3>1. 1 + ((k + 1 - 1) % 6) = 1 + ((k - 1) % 6) + 1
      BY <1>6, <1>8, <2>2
    <3>2. QED
      BY <1>8, <1>9, <3>1
  <2>3. QED
    BY <2>1, <2>2
<1>11. FrameOf(x)[q] = LF /\ FrameOf(y)[p] = LF /\ x \in Nat /\ y \in Nat
  BY <1>4, <1>6, <1>7, <1>8, <1>9
<1>12. q \in {4, 6}
  <2>1. /\ FrameOf(x)[1] = Byte(x, "head") /\ FrameOf(x)[2] = Byte(x, "tail")
        /\ FrameOf(x)[3] = CR /\ FrameOf(x)[5] = CR
    BY <1>11, FrameOfBytes
  <2>2. QED
    BY <1>11, <2>1, BytesDiffer
<1>13. p \in {4, 6}
  <2>1. /\ FrameOf(y)[1] = Byte(y, "head") /\ FrameOf(y)[2] = Byte(y, "tail")
        /\ FrameOf(y)[3] = CR /\ FrameOf(y)[5] = CR
    BY <1>11, FrameOfBytes
  <2>2. QED
    BY <1>11, <2>1, BytesDiffer
<1>14. QED
  BY <1>10, <1>12, <1>13

\* A whole frame at the head of the buffer is the first that is found.
LEMMA WholeFrameIsFound ==
  ASSUME StreamShape, NEW f, NEW r, NEW m, Holds(f, r, m), r >= FrameWidth
  PROVE  m = 0 /\ FrameEnds(buffer) = {<<3, FrameWidth - 2>>}
<1>1. FrameWidth \in {3, 4, 6} /\ r \in Nat /\ m \in Nat
  BY Delimiters DEF Holds
<1>2. m = 0
  <2>1. ~(r \in 1 .. FrameWidth - 1)
    BY <1>1
  <2>2. QED
    BY <1>1, <2>1 DEF Holds
<1>3. Len(buffer) = r /\ buffer \in Seq(StreamBytes)
  BY <1>1, <1>2 DEF Holds, StreamShape
<1>4. PICK x \in Nat : x = f + 1
  BY <1>1, FirstBytes, ReplyEnds
<1>5. \A q \in 1 .. FrameWidth : buffer[q] = FrameOf(x)[q]
  BY <1>1, <1>4, FirstBytes
<1>6. buffer[1] = Byte(x, "head") /\ buffer[2] = Byte(x, "tail")
  BY <1>1, <1>5, FrameOfBytes
<1>7. CASE protocol = "ollama"
  <2>1. FrameWidth = 3 /\ buffer[3] = LF
    BY <1>5, <1>7, FrameOfBytes, Delimiters
  <2>2. OneFeed(buffer) \subseteq Int /\ 3 \in OneFeed(buffer)
    BY <1>1, <1>3, <2>1 DEF OneFeed
  <2>3. \A j \in OneFeed(buffer) : 3 <= j
    <3>1. 1 \notin OneFeed(buffer) /\ 2 \notin OneFeed(buffer)
      BY <1>6, BytesDiffer DEF OneFeed
    <3>2. \A j \in OneFeed(buffer) : j \in Int /\ 1 <= j
      BY <1>3 DEF OneFeed
    <3>3. QED
      BY <3>1, <3>2
  <2>4. First(OneFeed(buffer)) = 3
    BY <2>2, <2>3, FirstIs
  <2>5. QED
    BY <1>2, <1>3, <1>7, <2>1, <2>2, <2>4, FrameEndsAre
<1>8. CASE protocol # "ollama" /\ newline = "lf"
  <2>1. FrameWidth = 4 /\ buffer[3] = LF /\ buffer[4] = LF
    BY <1>5, <1>8, FrameOfBytes, Delimiters
  <2>2. TwoFeeds(buffer) \subseteq Int /\ 3 \in TwoFeeds(buffer)
    BY <1>1, <1>3, <2>1 DEF TwoFeeds
  <2>3. \A j \in TwoFeeds(buffer) : 3 <= j
    <3>1. 1 \notin TwoFeeds(buffer) /\ 2 \notin TwoFeeds(buffer)
      BY <1>6, BytesDiffer DEF TwoFeeds
    <3>2. \A j \in TwoFeeds(buffer) : j \in Int /\ 1 <= j
      BY <1>3 DEF TwoFeeds
    <3>3. QED
      BY <3>1, <3>2
  <2>4. First(TwoFeeds(buffer)) = 3
    BY <2>2, <2>3, FirstIs
  <2>5. QED
    BY <1>2, <1>3, <1>8, <2>1, <2>2, <2>4, FrameEndsAre
<1>9. CASE protocol # "ollama" /\ newline # "lf"
  <2>1. FrameWidth = 6 /\ buffer[3] = CR /\ buffer[4] = LF /\ buffer[5] = CR /\ buffer[6] = LF
    BY <1>5, <1>9, FrameOfBytes, Delimiters
  <2>2. TwoLineEnds(buffer) \subseteq Int /\ 3 \in TwoLineEnds(buffer)
    BY <1>1, <1>3, <2>1 DEF TwoLineEnds
  <2>3. \A j \in TwoLineEnds(buffer) : 3 <= j
    <3>1. 1 \notin TwoLineEnds(buffer) /\ 2 \notin TwoLineEnds(buffer)
      BY <1>6, BytesDiffer DEF TwoLineEnds
    <3>2. \A j \in TwoLineEnds(buffer) : j \in Int /\ 1 <= j
      BY <1>3 DEF TwoLineEnds
    <3>3. QED
      BY <3>1, <3>2
  <2>4. First(TwoLineEnds(buffer)) = 3
    BY <2>2, <2>3, FirstIs
  <2>5. TwoFeeds(buffer) = {}
    BY <1>2, <2>1, FeedsAreApart
  <2>6. QED
    BY <1>2, <1>3, <1>9, <2>1, <2>2, <2>4, <2>5, FrameEndsAre
<1>10. QED
  BY <1>7, <1>8, <1>9

LEMMA NothingIsFound ==
  ASSUME StreamShape, NEW f, NEW r, NEW m, Holds(f, r, m), r = 0
  PROVE  m = 0 /\ buffer = <<>> /\ FrameEnds(buffer) = {}
<1>1. m = 0 /\ Len(buffer) = 0 /\ buffer \in Seq(StreamBytes)
  <2>1. ~(r \in 1 .. FrameWidth - 1) /\ m \in Nat
    BY Delimiters DEF Holds
  <2>2. m = 0
    BY <2>1 DEF Holds
  <2>3. QED
    BY <2>2 DEF Holds, StreamShape
<1>2. OneFeed(buffer) = {} /\ TwoFeeds(buffer) = {} /\ TwoLineEnds(buffer) = {}
  BY <1>1 DEF OneFeed, TwoFeeds, TwoLineEnds
<1>3. FrameEnds(buffer) = {}
  BY <1>1, <1>2, FrameEndsAre
<1>4. buffer = <<>>
  BY <1>1
<1>5. QED
  BY <1>1, <1>3, <1>4

\* Where the first frame ends in a buffer with less than a frame.
EndsAt(p, w, r, m) ==
    /\ FrameEnds(buffer) = {<<p, w>>} /\ p \in 2 .. 4 /\ w \in 1 .. 4 /\ p + w = r + m + 1
    /\ IF r = 1 THEN p = 2 ELSE p \in 3 .. r + 1 /\ (p = 4 => buffer[3] = CR)

LEMMA LastLineIsFound ==
  ASSUME StreamShape, NEW f, NEW r, NEW m, Holds(f, r, m), r \in 1 .. FrameWidth - 1, protocol = "ollama"
  PROVE  /\ m \in 0 .. LineFeeds(r)
         /\ m < LineFeeds(r) => FrameEnds(buffer) = {}
         /\ m = LineFeeds(r) => \E p, w : EndsAt(p, w, r, m)
<1>1. FrameWidth = 3 /\ LineFeeds(r) = 1 /\ r \in {1, 2}
  BY Delimiters DEF LineFeeds
<1>2. m \in {0, 1} /\ Len(buffer) = r + m /\ buffer \in Seq(StreamBytes)
  BY <1>1 DEF Holds, StreamShape
<1>3. PICK x \in Nat : x = f + 1
  BY <1>1, FirstBytes, ReplyEnds
<1>4. buffer[1] = Byte(x, "head") /\ (r = 2 => buffer[2] = Byte(x, "tail"))
  BY <1>1, <1>3, FirstBytes, FrameOfBytes
<1>5. m = 1 => buffer[r + 1] = LF
  BY <1>1, <1>2 DEF Holds
<1>6. CASE m = 0
  <2>1. OneFeed(buffer) = {}
    BY <1>1, <1>2, <1>4, <1>6, BytesDiffer DEF OneFeed
  <2>2. QED
    BY <1>1, <1>2, <1>6, <2>1, FrameEndsAre
<1>7. CASE m = 1
  <2>1. OneFeed(buffer) = {r + 1}
    BY <1>1, <1>2, <1>4, <1>5, <1>7, BytesDiffer DEF OneFeed
  <2>2. First(OneFeed(buffer)) = r + 1
    BY <1>1, <2>1, FirstIs
  <2>3. FrameEnds(buffer) = {<<r + 1, 1>>}
    BY <1>2, <2>1, <2>2, FrameEndsAre
  <2>4. EndsAt(r + 1, 1, r, m)
    BY <1>1, <1>7, <2>3 DEF EndsAt
  <2>5. QED
    BY <1>1, <1>7, <2>4
<1>8. QED
  BY <1>2, <1>6, <1>7

LEMMA LastEventIsFound ==
  ASSUME StreamShape, NEW f, NEW r, NEW m, Holds(f, r, m), r \in 1 .. FrameWidth - 1,
         protocol # "ollama", newline = "lf"
  PROVE  /\ m \in 0 .. LineFeeds(r)
         /\ m < LineFeeds(r) => FrameEnds(buffer) = {}
         /\ m = LineFeeds(r) => \E p, w : EndsAt(p, w, r, m)
<1>1. FrameWidth = 4 /\ LineFeeds(r) = (IF r = 3 THEN 1 ELSE 2) /\ r \in {1, 2, 3}
  BY Delimiters DEF LineFeeds
<1>2. m \in 0 .. LineFeeds(r) /\ Len(buffer) = r + m /\ buffer \in Seq(StreamBytes)
  BY <1>1 DEF Holds, StreamShape
<1>3. PICK x \in Nat : x = f + 1
  BY <1>1, FirstBytes, ReplyEnds
<1>4. buffer[1] = Byte(x, "head") /\ (r >= 2 => buffer[2] = Byte(x, "tail")) /\ (r = 3 => buffer[3] = LF)
  BY <1>1, <1>3, FirstBytes, FrameOfBytes
<1>5. (m >= 1 => buffer[r + 1] = LF) /\ (m = 2 => buffer[r + 2] = LF)
  BY <1>1, <1>2 DEF Holds
<1>6. TwoLineEnds(buffer) = {}
  <2>1. \A i \in 1 .. Len(buffer) : buffer[i] # CR
    BY <1>1, <1>2, <1>4, <1>5, BytesDiffer
  <2>2. QED
    BY <1>1, <1>2, <2>1 DEF TwoLineEnds
<1>7. CASE m < LineFeeds(r)
  <2>1. TwoFeeds(buffer) = {}
    BY <1>1, <1>2, <1>4, <1>5, <1>7, BytesDiffer DEF TwoFeeds
  <2>2. FrameEnds(buffer) = {}
    BY <1>2, <1>6, <2>1, FrameEndsAre
  <2>3. QED
    BY <1>1, <1>2, <1>7, <2>2
<1>8. CASE m = LineFeeds(r)
  <2> DEFINE p == IF r = 1 THEN 2 ELSE 3
  <2>1. TwoFeeds(buffer) = {p}
    <3>1. CASE r = 1
      BY <1>1, <1>2, <1>4, <1>5, <1>8, <3>1, BytesDiffer DEF TwoFeeds
    <3>2. CASE r = 2
      BY <1>1, <1>2, <1>4, <1>5, <1>8, <3>2, BytesDiffer DEF TwoFeeds
    <3>3. CASE r = 3
      BY <1>1, <1>2, <1>4, <1>5, <1>8, <3>3, BytesDiffer DEF TwoFeeds
    <3>4. QED
      BY <1>1, <3>1, <3>2, <3>3
  <2>2. First(TwoFeeds(buffer)) = p
    <3>1. p \in Int
      OBVIOUS
    <3> HIDE DEF p
    <3>2. QED
      BY <2>1, <3>1, FirstIs
  <2>3. FrameEnds(buffer) = {<<p, 2>>}
    BY <1>2, <2>1, <2>2, FrameEndsAre
  <2>4. EndsAt(p, 2, r, m)
    BY <1>1, <1>8, <2>3 DEF EndsAt
  <2> HIDE DEF p
  <2>5. QED
    BY <1>2, <1>8, <2>4
<1>9. QED
  BY <1>1, <1>2, <1>7, <1>8

LEMMA LastCrlfEventIsFound ==
  ASSUME StreamShape, NEW f, NEW r, NEW m, Holds(f, r, m), r \in 1 .. FrameWidth - 1,
         protocol # "ollama", newline # "lf"
  PROVE  /\ m \in 0 .. LineFeeds(r)
         /\ m < LineFeeds(r) => FrameEnds(buffer) = {}
         /\ m = LineFeeds(r) => \E p, w : EndsAt(p, w, r, m)
<1>1. FrameWidth = 6 /\ LineFeeds(r) = (IF r >= 4 THEN 1 ELSE 2) /\ r \in {1, 2, 3, 4, 5}
  BY Delimiters DEF LineFeeds, StreamShape
<1>2. m \in 0 .. LineFeeds(r) /\ Len(buffer) = r + m /\ buffer \in Seq(StreamBytes)
  BY <1>1 DEF Holds, StreamShape
<1>3. PICK x \in Nat : x = f + 1
  BY <1>1, FirstBytes, ReplyEnds
<1>4. /\ buffer[1] = Byte(x, "head") /\ (r >= 2 => buffer[2] = Byte(x, "tail"))
      /\ (r >= 3 => buffer[3] = CR) /\ (r >= 4 => buffer[4] = LF) /\ (r >= 5 => buffer[5] = CR)
  <2>1. \A q \in 1 .. 6 : q <= r => buffer[q] = FrameOf(x)[q]
    BY <1>1, <1>3, FirstBytes
  <2>2. QED
    BY <1>1, <1>3, <2>1, FrameOfBytes
<1>5. (m >= 1 => buffer[r + 1] = LF) /\ (m = 2 => buffer[r + 2] = LF)
  BY <1>1, <1>2 DEF Holds
<1>6. CASE m < LineFeeds(r)
  <2>1. TwoFeeds(buffer) = {}
    BY <1>1, <1>2, <1>4, <1>5, <1>6, BytesDiffer DEF TwoFeeds
  <2>2. TwoLineEnds(buffer) = {}
    BY <1>1, <1>2, <1>4, <1>5, <1>6, BytesDiffer DEF TwoLineEnds
  <2>3. FrameEnds(buffer) = {}
    BY <1>2, <2>1, <2>2, FrameEndsAre
  <2>4. QED
    BY <1>1, <1>2, <1>6, <2>3
<1>7. CASE m = LineFeeds(r) /\ r # 5
  <2> DEFINE p == IF r = 1 THEN 2 ELSE IF r = 2 THEN 3 ELSE 4
  <2>1. TwoFeeds(buffer) = {p}
    <3>1. CASE r = 1
      BY <1>1, <1>2, <1>4, <1>5, <1>7, <3>1, BytesDiffer DEF TwoFeeds
    <3>2. CASE r = 2
      BY <1>1, <1>2, <1>4, <1>5, <1>7, <3>2, BytesDiffer DEF TwoFeeds
    <3>3. CASE r = 3
      BY <1>1, <1>2, <1>4, <1>5, <1>7, <3>3, BytesDiffer DEF TwoFeeds
    <3>4. CASE r = 4
      BY <1>1, <1>2, <1>4, <1>5, <1>7, <3>4, BytesDiffer DEF TwoFeeds
    <3>5. QED
      BY <1>1, <1>7, <3>1, <3>2, <3>3, <3>4
  <2>2. First(TwoFeeds(buffer)) = p
    <3>1. p \in Int
      OBVIOUS
    <3> HIDE DEF p
    <3>2. QED
      BY <2>1, <3>1, FirstIs
  <2>3. FrameEnds(buffer) = {<<p, 2>>}
    BY <1>2, <2>1, <2>2, FrameEndsAre
  <2>4. EndsAt(p, 2, r, m)
    BY <1>1, <1>4, <1>7, <2>3 DEF EndsAt
  <2> HIDE DEF p
  <2>5. QED
    BY <1>2, <1>7, <2>4
<1>8. CASE m = LineFeeds(r) /\ r = 5
  <2>1. TwoFeeds(buffer) = {} /\ TwoLineEnds(buffer) = {3}
    BY <1>1, <1>2, <1>4, <1>5, <1>8, BytesDiffer DEF TwoFeeds, TwoLineEnds
  <2>2. First(TwoLineEnds(buffer)) = 3
    BY <2>1, FirstIs
  <2>3. FrameEnds(buffer) = {<<3, 4>>}
    BY <1>2, <2>1, <2>2, FrameEndsAre
  <2>4. EndsAt(3, 4, r, m)
    BY <1>1, <1>8, <2>3 DEF EndsAt
  <2>5. QED
    BY <1>2, <1>8, <2>4
<1>9. QED
  BY <1>1, <1>2, <1>6, <1>7, <1>8

\* What is left of a frame is one once line feeds have been added, and the last of the buffer.
LEMMA LastFrameIsFound ==
  ASSUME StreamShape, NEW f, NEW r, NEW m, Holds(f, r, m), r \in 1 .. FrameWidth - 1
  PROVE  /\ m \in 0 .. LineFeeds(r)
         /\ m < LineFeeds(r) => FrameEnds(buffer) = {}
         /\ m = LineFeeds(r) => \E p, w : EndsAt(p, w, r, m)
BY LastLineIsFound, LastEventIsFound, LastCrlfEventIsFound

\* A frame with its head and its tail says what it is, one without its tail nothing.
LEMMA FrameIsParsed ==
  ASSUME NEW frame \in Seq(StreamBytes), NEW x \in 1 .. Len(script), Len(script) \in Nat,
         Len(frame) \in {1, 2, 3}, frame[1] = Byte(x, "head"),
         Len(frame) >= 2 => frame[2] = Byte(x, "tail"), Len(frame) = 3 => frame[3] = CR
  PROVE  /\ Len(frame) >= 2 => ParsedFrame(frame) = {x}
         /\ Len(frame) = 1 => ParsedFrame(frame) \subseteq {0, -1}
<1> DEFINE said == {s \in Range(frame) : s.byte \in {"head", "tail"}}
           whole == {i \in 1 .. Len(script) : said = {Byte(i, "head"), Byte(i, "tail")}}
<1>1. DOMAIN frame = 1 .. Len(frame) /\ Range(frame) = {frame[k] : k \in 1 .. Len(frame)}
  BY DEF Range
<1>2. ParsedFrame(frame) = CASE said = {} -> {0}
                             [] whole # {} -> whole
                             [] protocol = "openai" /\ Cardinality(said) = 1 -> {0, -1}
                             [] OTHER -> {-1}
  BY DEF ParsedFrame
<1>3. CASE Len(frame) >= 2
  <2>1. Range(frame) = IF Len(frame) = 2 THEN {Byte(x, "head"), Byte(x, "tail")}
                       ELSE {Byte(x, "head"), Byte(x, "tail"), CR}
    BY <1>1, <1>3
  <2>2. said = {Byte(x, "head"), Byte(x, "tail")}
    BY <2>1 DEF Byte, CR
  <2>3. whole = {x}
    BY <2>2 DEF Byte
  <2> HIDE DEF said, whole
  <2>4. said # {} /\ whole # {}
    BY <2>2, <2>3
  <2>5. Byte(x, "head") # Byte(x, "tail")
    BY DEF Byte
  <2>6. Cardinality(said) # 1
    <3>1. IsFiniteSet({Byte(x, "head")}) /\ Cardinality({Byte(x, "head")}) = 1
      BY FS_Singleton
    <3>2. Cardinality({Byte(x, "head")} \cup {Byte(x, "tail")}) = 2
      <4>1. Byte(x, "tail") \notin {Byte(x, "head")}
        BY <2>5
      <4>2. Cardinality({Byte(x, "head")} \cup {Byte(x, "tail")}) = Cardinality({Byte(x, "head")}) + 1
        BY <3>1, <4>1, FS_AddElement
      <4>3. QED
        BY <3>1, <4>2
    <3>3. said = {Byte(x, "head")} \cup {Byte(x, "tail")}
      BY <2>2
    <3>4. QED
      BY <3>2, <3>3
  <2>7. QED
    BY <1>2, <1>3, <2>3, <2>4, <2>6
<1>4. CASE Len(frame) = 1
  <2>1. Range(frame) = {Byte(x, "head")}
    BY <1>1, <1>4
  <2>2. said = {Byte(x, "head")}
    BY <2>1 DEF Byte
  <2>3. whole = {}
    BY <2>2 DEF Byte
  <2> HIDE DEF said, whole
  <2>4. said # {}
    BY <2>2
  <2>5. QED
    BY <1>2, <1>4, <2>3, <2>4
<1>5. QED
  BY <1>3, <1>4

-----------------------------------------------------------------------------
(* A streamed reply: what is collected of its frames *)

\* A reply gives its reason once, after all it has to say.
LEMMA ReasonIsLast ==
  ASSUME StreamShape
  PROVE  \E last \in 1 .. Len(script) :
            /\ \A i \in 1 .. Len(script) : script[i] \in Ends <=> i = last
            /\ \A i \in 1 .. Len(script) : script[i] \in {"text", "fragment", "calls"} => i < last
            /\ \A i \in 1 .. Len(script) : script[i] = "done" => i > last
            /\ \A i, j \in 1 .. Len(script) :
                  script[i] = "calls" /\ script[j] \in {"calls", "fragment"} => i = j
            /\ \A g \in 0 .. Len(script) : Stopped(g) <=> last <= g
<1>1. PICK last \in 1 .. Len(script) :
         /\ script[last] \in Ends
         /\ \A i \in 1 .. last - 1 : script[i] \in {"text", "fragment", "calls", "comment"}
         /\ \A i \in last + 1 .. Len(script) : script[i] \in {"comment", "done"}
         /\ \A i, j \in 1 .. last - 1 : script[i] = "calls" /\ script[j] \in {"calls", "fragment"} => i = j
  BY ReplyEnds
<1>2. Len(script) \in Nat
  BY ReplyEnds
<1>3. \A i \in 1 .. Len(script) : i = last \/ i \in 1 .. last - 1 \/ i \in last + 1 .. Len(script)
  BY <1>2
<1>4. \A i \in 1 .. Len(script) : script[i] \in Ends <=> i = last
  BY <1>1, <1>3 DEF Ends
<1>5. \A i \in 1 .. Len(script) : script[i] \in {"text", "fragment", "calls"} => i \in 1 .. last - 1
  BY <1>1, <1>3 DEF Ends
<1>6. \A i \in 1 .. Len(script) : script[i] = "done" => i \in last + 1 .. Len(script)
  BY <1>1, <1>3 DEF Ends
<1>7. \A g \in 0 .. Len(script) : Stopped(g) <=> last <= g
  BY <1>2, <1>4 DEF Stopped
<1>8. \A i \in 1 .. Len(script) : script[i] \in {"text", "fragment", "calls"} => i < last
  BY <1>2, <1>5
<1>9. \A i \in 1 .. Len(script) : script[i] = "done" => i > last
  BY <1>2, <1>6
<1>10. \A i, j \in 1 .. Len(script) : script[i] = "calls" /\ script[j] \in {"calls", "fragment"} => i = j
  BY <1>1, <1>5
<1>11. QED
  BY <1>4, <1>7, <1>8, <1>9, <1>10

LEMMA TextsAreCounted ==
  ASSUME NEW g \in Nat
  PROVE  /\ IsFiniteSet(TextsTo(g)) /\ Cardinality(TextsTo(g)) \in Nat
         /\ script[g + 1] = "text" => Cardinality(TextsTo(g + 1)) = Cardinality(TextsTo(g)) + 1
         /\ script[g + 1] # "text" => TextsTo(g + 1) = TextsTo(g)
         /\ TextsTo(g) \subseteq TextsTo(g + 1) /\ TextsTo(g) \subseteq Nat
<1>1. IsFiniteSet(TextsTo(g)) /\ Cardinality(TextsTo(g)) \in Nat
  <2>1. IsFiniteSet(1 .. g) /\ TextsTo(g) \subseteq 1 .. g
    BY FS_Interval DEF TextsTo
  <2>2. QED
    BY <2>1, FS_Subset, FS_CardinalityType
<1>2. CASE script[g + 1] = "text"
  <2>1. TextsTo(g + 1) = TextsTo(g) \cup {g + 1} /\ g + 1 \notin TextsTo(g)
    BY <1>2 DEF TextsTo
  <2>2. Cardinality(TextsTo(g) \cup {g + 1}) = Cardinality(TextsTo(g)) + 1
    BY <1>1, <2>1, FS_AddElement
  <2>3. TextsTo(g) \subseteq Nat
    BY DEF TextsTo
  <2>4. QED
    BY <1>1, <1>2, <2>1, <2>2, <2>3
<1>3. CASE script[g + 1] # "text"
  <2>1. TextsTo(g + 1) = TextsTo(g) /\ TextsTo(g) \subseteq Nat
    BY <1>3 DEF TextsTo
  <2>2. QED
    BY <1>1, <1>3, <2>1
<1>4. QED
  BY <1>2, <1>3

\* What has been told stays told when nothing is added.
LEMMA ToldStays ==
  ASSUME NEW g, Told(g), UNCHANGED <<script, fragments, collected, shown>>
  PROVE  Told(g)'
BY DEF Told, Stopped, TextsTo

LEMMA ToldStart ==
  ASSUME StreamShape, fragments = {}, shown = <<>>,
         collected = [content |-> <<>>, calls |-> {}, finish |-> "none", finished |-> FALSE]
  PROVE  Told(0)
<1>1. TextsTo(0) = {} /\ ~Stopped(0)
  BY DEF TextsTo, Stopped
<1>2. Cardinality({}) = 0
  BY FS_EmptySet
<1>3. Len(script) \in Nat
  BY ReplyEnds
<1>4. 0 \in 0 .. Len(script)
  BY <1>3
<1>5. /\ collected.content = <<>> /\ collected.calls = {} /\ collected.finish \notin Ends
      /\ collected.finished = FALSE
  BY DEF Ends
<1>6. Len(collected.content) = Cardinality(TextsTo(0)) /\ 1 .. Len(collected.content) = {} /\ 1 .. 0 = {}
  <2>1. Cardinality(TextsTo(0)) = 0
    BY <1>1, <1>2
  <2>2. Len(collected.content) = 0
    BY <1>5
  <2>3. QED
    BY <2>1, <2>2
<1>7. QED
  BY <1>1, <1>4, <1>5, <1>6 DEF Told

\* The next frame is collected, or it ends the stream.
LEMMA NextIsTold ==
  ASSUME StreamShape, NEW g \in 0 .. Len(script) - 1, Told(g), CollectFrame(g + 1),
         outcome = "none", UNCHANGED <<protocol, script>>
  PROVE  /\ outcome' \in {"none", "storage"}
         /\ outcome' = "none" => Told(g + 1)'
         /\ outcome' # "none" => Told(g)'
         /\ collected' \in [content : Seq(Nat), calls : SUBSET Nat, finish : Ends \cup {"none"}, finished : BOOLEAN]
<1> DEFINE h == g + 1
<1>1. /\ g \in Nat /\ h \in 0 .. Len(script) /\ h \in 1 .. Len(script) /\ g \in 0 .. Len(script) /\ h \in Nat
      /\ \A i \in 1 .. h : i \in 1 .. g \/ i = h
      /\ \A i \in 1 .. g : i \in 1 .. h /\ i # h /\ i \in 1 .. Len(script)
  BY ReplyEnds
<1>2. PICK last \in 1 .. Len(script) :
         /\ \A i \in 1 .. Len(script) : script[i] \in Ends <=> i = last
         /\ \A i \in 1 .. Len(script) : script[i] \in {"text", "fragment", "calls"} => i < last
         /\ \A i \in 1 .. Len(script) : script[i] = "done" => i > last
         /\ \A i, j \in 1 .. Len(script) :
               script[i] = "calls" /\ script[j] \in {"calls", "fragment"} => i = j
         /\ \A k \in 0 .. Len(script) : Stopped(k) <=> last <= k
  BY ReasonIsLast
<1>3. script[h] \in Kinds
  BY <1>1, ReplyEnds
<1>4. /\ \A k : TextsTo(k)' = TextsTo(k)
      /\ \A k : Stopped(k)' = Stopped(k)
  BY DEF TextsTo, Stopped
<1>5. /\ IsFiniteSet(TextsTo(g)) /\ Cardinality(TextsTo(g)) \in Nat
      /\ script[h] = "text" => Cardinality(TextsTo(h)) = Cardinality(TextsTo(g)) + 1
      /\ script[h] # "text" => TextsTo(h) = TextsTo(g)
      /\ TextsTo(g) \subseteq TextsTo(h) /\ TextsTo(g) \subseteq Nat
  BY <1>1, TextsAreCounted
<1>6. /\ Len(collected.content) = Cardinality(TextsTo(g))
      /\ \A n \in 1 .. Len(collected.content) :
            collected.content[n] \in TextsTo(g) /\ Cardinality(TextsTo(collected.content[n])) = n
      /\ shown = collected.content
      /\ fragments = {i \in 1 .. g : script[i] = "fragment"}
      /\ collected.calls = {i \in 1 .. g : script[i] = "calls" \/ (script[i] = "fragment" /\ Stopped(g))}
      /\ collected.finished => Stopped(g)
      /\ collected.finish \in Ends <=> Stopped(g)
  BY DEF Told
<1>7. collected \in [content : Seq(Nat), calls : SUBSET Nat, finish : Ends \cup {"none"}, finished : BOOLEAN]
  BY DEF StreamShape
<1>8. Stopped(g) /\ ~Stopped(h) => FALSE
  BY <1>1, <1>2
<1>9. script[h] \notin Ends => (Stopped(h) <=> Stopped(g))
  BY <1>1, <1>2
<1> HIDE DEF h
<1>10. CASE script[h] \in {"comment", "done"}
  <2>1. /\ outcome' = "none" /\ UNCHANGED <<fragments, shown>>
        /\ collected' = IF script[h] = "done" THEN [collected EXCEPT !.finished = TRUE] ELSE collected
    BY <1>10 DEF CollectFrame, Reply, h
  <2>2. /\ collected'.content = collected.content /\ collected'.calls = collected.calls
        /\ collected'.finish = collected.finish
        /\ collected' \in [content : Seq(Nat), calls : SUBSET Nat, finish : Ends \cup {"none"}, finished : BOOLEAN]
    BY <1>7, <2>1
  <2>3. TextsTo(h) = TextsTo(g) /\ (Stopped(h) <=> Stopped(g)) /\ (script[h] = "done" => Stopped(g))
    BY <1>1, <1>2, <1>5, <1>9, <1>10 DEF Ends
  <2>4. fragments = {i \in 1 .. h : script[i] = "fragment"}
    BY <1>1, <1>6, <1>10
  <2>5. collected.calls = {i \in 1 .. h : script[i] = "calls" \/ (script[i] = "fragment" /\ Stopped(h))}
    BY <1>1, <1>6, <1>10, <2>3
  <2>6. collected'.finished => Stopped(h)
    BY <1>6, <2>1, <2>3
  <2>7. Told(h)'
    BY <1>1, <1>4, <1>6, <2>1, <2>2, <2>3, <2>4, <2>5, <2>6 DEF Told
  <2>8. QED
    BY <2>1, <2>2, <2>7 DEF h
<1>11. CASE script[h] = "fragment"
  <2>1. outcome' = "none" /\ UNCHANGED <<collected, shown>> /\ fragments' = fragments \cup {h}
    BY <1>11 DEF CollectFrame, AddFragment, h
  <2>2. TextsTo(h) = TextsTo(g) /\ ~Stopped(h) /\ ~Stopped(g)
    BY <1>1, <1>2, <1>5, <1>11
  <2>3. fragments' = {i \in 1 .. h : script[i] = "fragment"}
    BY <1>1, <1>6, <1>11, <2>1
  <2>4. collected.calls = {i \in 1 .. h : script[i] = "calls" \/ (script[i] = "fragment" /\ Stopped(h))}
    BY <1>1, <1>6, <1>11, <2>2
  <2>5. Told(h)'
    BY <1>1, <1>4, <1>6, <2>1, <2>2, <2>3, <2>4 DEF Told
  <2>6. QED
    BY <1>7, <2>1, <2>5 DEF h
<1>12. CASE script[h] = "calls"
  <2>1. /\ outcome' = "none" /\ UNCHANGED <<fragments, shown>>
        /\ collected' = [collected EXCEPT !.calls = {h}]
    BY <1>12 DEF CollectFrame, h
  <2>2. /\ collected'.content = collected.content /\ collected'.calls = {h}
        /\ collected'.finish = collected.finish /\ collected'.finished = collected.finished
        /\ collected' \in [content : Seq(Nat), calls : SUBSET Nat, finish : Ends \cup {"none"}, finished : BOOLEAN]
    BY <1>1, <1>7, <2>1
  <2>3. TextsTo(h) = TextsTo(g) /\ ~Stopped(h) /\ ~Stopped(g)
    BY <1>1, <1>2, <1>5, <1>12
  <2>4. fragments = {i \in 1 .. h : script[i] = "fragment"}
    BY <1>1, <1>6, <1>12
  <2>5. {h} = {i \in 1 .. h : script[i] = "calls" \/ (script[i] = "fragment" /\ Stopped(h))}
    BY <1>1, <1>2, <1>12, <2>3
  <2>6. Told(h)'
    BY <1>1, <1>4, <1>6, <2>1, <2>2, <2>3, <2>4, <2>5 DEF Told
  <2>7. QED
    BY <2>1, <2>2, <2>6 DEF h
<1>13. CASE script[h] = "text"
  <2>1. Show(h)
    BY <1>13 DEF CollectFrame, h
  <2>2. CASE outcome' = "storage" /\ UNCHANGED <<collected, fragments, shown>>
    <3>1. Told(g)'
      BY <2>2, ToldStays
    <3>2. QED
      BY <1>7, <2>2, <3>1
  <2>3. CASE /\ shown' = Append(shown, h)
             /\ collected' = [collected EXCEPT !.content = Append(@, h)]
             /\ UNCHANGED <<outcome, fragments, streamFaults>>
    <3>1. PICK told \in Seq(Nat) : told = collected.content
      BY <1>7
    <3>2. /\ Append(told, h) \in Seq(Nat) /\ Len(Append(told, h)) = Len(told) + 1 /\ Len(told) \in Nat
          /\ \A n \in 1 .. Len(told) : Append(told, h)[n] = told[n]
          /\ Append(told, h)[Len(told) + 1] = h
      BY <1>1
    <3>3. /\ collected'.content = Append(told, h) /\ collected'.calls = collected.calls
          /\ collected'.finish = collected.finish /\ collected'.finished = collected.finished
          /\ collected' \in [content : Seq(Nat), calls : SUBSET Nat, finish : Ends \cup {"none"}, finished : BOOLEAN]
      BY <1>7, <2>3, <3>1, <3>2
    <3>4. /\ Cardinality(TextsTo(h)) = Len(told) + 1 /\ ~Stopped(h) /\ ~Stopped(g)
          /\ h \in TextsTo(h)
      <4>1. ~Stopped(h) /\ ~Stopped(g)
        BY <1>1, <1>2, <1>13
      <4>2. h \in TextsTo(h)
        BY <1>1, <1>13 DEF TextsTo
      <4>3. QED
        BY <1>5, <1>6, <1>13, <3>1, <4>1, <4>2
    <3>5. \A n \in 1 .. Len(told) + 1 :
             Append(told, h)[n] \in TextsTo(h) /\ Cardinality(TextsTo(Append(told, h)[n])) = n
      <4>1. ASSUME NEW n \in 1 .. Len(told) + 1
            PROVE  Append(told, h)[n] \in TextsTo(h) /\ Cardinality(TextsTo(Append(told, h)[n])) = n
        <5>1. CASE n = Len(told) + 1
          BY <3>2, <3>4, <5>1
        <5>2. CASE n # Len(told) + 1
          <6>1. n \in 1 .. Len(told)
            BY <3>2, <5>2
          <6>2. QED
            BY <1>5, <1>6, <3>1, <3>2, <6>1
        <5>3. QED
          BY <5>1, <5>2
      <4>2. QED
        BY <4>1
    <3>6. fragments = {i \in 1 .. h : script[i] = "fragment"}
      BY <1>1, <1>6, <1>13
    <3>7. collected.calls = {i \in 1 .. h : script[i] = "calls" \/ (script[i] = "fragment" /\ Stopped(h))}
      BY <1>1, <1>6, <1>13, <3>4
    <3>8. /\ Len(collected'.content) = Cardinality(TextsTo(h))
          /\ \A n \in 1 .. Len(collected'.content) :
                collected'.content[n] \in TextsTo(h) /\ Cardinality(TextsTo(collected'.content[n])) = n
          /\ shown' = collected'.content
      BY <1>6, <2>3, <3>1, <3>2, <3>3, <3>4, <3>5
    <3>9. Told(h)'
      BY <1>1, <1>4, <1>6, <2>3, <3>3, <3>4, <3>6, <3>7, <3>8 DEF Told
    <3>10. QED
      BY <2>3, <3>3, <3>9 DEF h
  <2>4. QED
    BY <2>1, <2>2, <2>3 DEF Show
<1>14. CASE script[h] \in Ends
  <2>1. Finish(h) /\ h = last
    BY <1>1, <1>2, <1>14 DEF CollectFrame, Ends, h
  <2>2. TextsTo(h) = TextsTo(g) /\ Stopped(h) /\ ~Stopped(g)
    BY <1>1, <1>2, <1>5, <1>14, <2>1 DEF Ends
  <2>3. fragments = {i \in 1 .. h : script[i] = "fragment"}
    BY <1>1, <1>6, <1>14 DEF Ends
  <2>4. fragments = AllFragments
    <3>1. \A i \in 1 .. Len(script) : script[i] = "fragment" => i \in 1 .. h
      BY <1>1, <1>2, <2>1
    <3>2. QED
      BY <1>1, <2>3, <3>1 DEF AllFragments
  <2>5. /\ outcome' = "none" /\ UNCHANGED <<fragments, shown>>
        /\ collected' = [collected EXCEPT
                !.finish = script[h],
                !.calls = IF fragments = {} THEN @ ELSE fragments,
                !.finished = protocol = "ollama"]
    BY <2>1, <2>4 DEF Finish
  <2>6. fragments \subseteq Nat
    BY <1>1, <2>3
  <2>7. /\ collected'.content = collected.content /\ collected'.finish = script[h]
        /\ collected'.calls = IF fragments = {} THEN collected.calls ELSE fragments
        /\ collected' \in [content : Seq(Nat), calls : SUBSET Nat, finish : Ends \cup {"none"}, finished : BOOLEAN]
    BY <1>7, <1>14, <2>5, <2>6
  <2>8. collected'.calls = {i \in 1 .. h : script[i] = "calls" \/ (script[i] = "fragment" /\ Stopped(h))}
    <3>1. CASE fragments = {}
      BY <1>1, <1>6, <1>14, <2>2, <2>3, <2>7, <3>1 DEF Ends
    <3>2. CASE fragments # {}
      <4>1. PICK j \in 1 .. h : script[j] = "fragment"
        BY <2>3, <3>2
      <4>2. \A i \in 1 .. h : script[i] # "calls"
        BY <1>1, <1>2, <4>1
      <4>3. QED
        BY <2>2, <2>3, <2>7, <3>2, <4>2
    <3>3. QED
      BY <3>1, <3>2
  <2>9. Told(h)'
    BY <1>1, <1>4, <1>6, <1>14, <2>2, <2>3, <2>5, <2>7, <2>8 DEF Told
  <2>10. QED
    BY <2>5, <2>7, <2>9 DEF h
<1>15. QED
  BY <1>3, <1>10, <1>11, <1>12, <1>13, <1>14 DEF Kinds, Ends

-----------------------------------------------------------------------------
(* A streamed reply: every step keeps the invariant *)

LEMMA StreamStarts == ProviderInit => StreamInv
<1> SUFFICES ASSUME ProviderInit PROVE StreamInv
  OBVIOUS
<1>1. /\ protocol \in Protocols /\ script \in Replies[protocol] /\ newline \in {"lf", "crlf"}
      /\ wire \in Bodies(protocol, newline, script) /\ body = "open" /\ buffer = <<>> /\ fragments = {}
      /\ collected = [content |-> <<>>, calls |-> {}, finish |-> "none", finished |-> FALSE]
      /\ outcome = "none" /\ shown = <<>>
  BY DEF ProviderInit
<1>2. StreamShape
  <2>1. <<>> \in Seq(StreamBytes) /\ <<>> \in Seq(Nat)
    OBVIOUS
  <2>2. collected \in [content : Seq(Nat), calls : SUBSET Nat, finish : Ends \cup {"none"}, finished : BOOLEAN]
    BY <1>1, <2>1
  <2>3. QED
    BY <1>1, <2>1, <2>2 DEF StreamShape
<1>3. PICK s \in Nat : s = Len(script)
  BY <1>2, ReplyEnds
<1>4. PICK whole \in Seq(StreamBytes) : whole = WholeBody /\ Len(whole) = Skipped(Len(script))
  BY <1>2, BodyIsOfFrames
<1>5. PICK width \in {3, 4, 6} : width = FrameWidth /\ Len(Delimiter(protocol, newline)) = width - 2
  BY <1>2, Delimiters
<1>6. PICK k \in {0, (width - 2) \div 2, width - 2} : wire = SubSeq(whole, 1, Len(whole) - k)
  BY <1>1, <1>4, <1>5 DEF Bodies, WholeBody
<1>7. k \in 0 .. width - 2
  BY <1>5, <1>6
<1>8. Skipped(0) = 0 /\ Skipped(Len(script)) \in Nat /\ Skipped(Len(script)) >= width
  <2>1. 0 \in 0 .. Len(script) /\ 0 < Len(script)
    BY <1>2, <1>3, ReplyEnds
  <2>2. Skipped(0) + FrameWidth = Skipped(0 + 1) /\ Skipped(0 + 1) <= Skipped(Len(script)) /\ Skipped(0) = 0
        /\ Skipped(Len(script)) \in Nat
    BY <1>2, <2>1, FramesFollow
  <2>3. QED
    BY <1>5, <2>2
<1>9. /\ wire \in Seq(StreamBytes) /\ Len(wire) = Len(whole) - k
      /\ \A n \in 1 .. Len(wire) : wire[n] = whole[n]
  <2>1. Len(whole) - k \in 0 .. Len(whole) /\ Len(whole) \in Nat
    BY <1>4, <1>5, <1>7, <1>8
  <2>2. QED
    BY <1>6, <2>1
<1>10. Told(0)
  BY <1>1, <1>2, ToldStart
<1>11. Holds(0, 0, 0)
  <2>1. 0 \in 0 .. Len(script) /\ Len(buffer) = 0
    BY <1>1, <1>3
  <2>2. QED
    BY <1>8, <2>1 DEF Holds
<1>12. Continues(0, 0)
  <2>1. Skipped(0) + 0 + Len(wire) + k = Skipped(Len(script))
    BY <1>4, <1>7, <1>8, <1>9
  <2>2. \A n \in 1 .. Len(wire) : wire[n] = WholeBody[Skipped(0) + 0 + n]
    BY <1>4, <1>8, <1>9
  <2>3. k \in 0 .. FrameWidth - 2
    BY <1>5, <1>7
  <2>4. QED
    BY <1>1, <2>1, <2>2, <2>3 DEF Continues
<1>13. 0 \in 0 .. Len(script) /\ 0 \in 0 .. Len(buffer) /\ 0 \in 0 .. 2
  BY <1>1, <1>3
<1>14. QED
  BY <1>1, <1>2, <1>9, <1>10, <1>11, <1>12, <1>13 DEF StreamInv

\* The stream goes on, or ends in an error.
LEMMA StreamGoesOn ==
  ASSUME StreamShape', (wire \in Seq(StreamBytes))', NEW g \in 0 .. Len(script), Told(g)',
         UNCHANGED script, outcome' # "answer",
         outcome' = "none" => \E f, r, m : Told(f)' /\ Holds(f, r, m)' /\ Continues(f, r)' /\ m \in 0 .. 2
  PROVE  StreamInv'
<1>1. outcome' = "none" => (\E f \in 0 .. Len(script), r \in 0 .. Len(buffer), m \in 0 .. 2 :
                               Told(f) /\ Holds(f, r, m) /\ Continues(f, r))'
  <2>1. SUFFICES ASSUME outcome' = "none",
                        NEW f, NEW r, NEW m, Told(f)', Holds(f, r, m)', Continues(f, r)', m \in 0 .. 2
                 PROVE  (\E x \in 0 .. Len(script), y \in 0 .. Len(buffer), z \in 0 .. 2 :
                            Told(x) /\ Holds(x, y, z) /\ Continues(x, y))'
    OBVIOUS
  <2>2. (f \in 0 .. Len(script))' /\ (r \in Nat)' /\ (Len(buffer) = r + m)'
    BY <2>1 DEF Holds
  <2>3. (r \in 0 .. Len(buffer))'
    BY <2>1, <2>2
  <2>4. QED
    BY <2>1, <2>2, <2>3
<1>2. (\E x \in 0 .. Len(script) : Told(x))'
  OBVIOUS
<1>3. QED
  BY <1>1, <1>2 DEF StreamInv

\* The invariant, while the stream goes on
LEMMA StreamStands ==
  ASSUME StreamInv, outcome = "none"
  PROVE  /\ StreamShape /\ wire \in Seq(StreamBytes) /\ FrameWidth \in {3, 4, 6} /\ Len(script) \in Nat
         /\ \E f \in 0 .. Len(script), r \in Nat, m \in 0 .. 2 :
               /\ Told(f) /\ Holds(f, r, m) /\ Continues(f, r)
               /\ Skipped(f) \in Nat /\ Skipped(Len(script)) \in Nat
<1>1. StreamShape /\ wire \in Seq(StreamBytes)
  BY DEF StreamInv
<1>2. FrameWidth \in {3, 4, 6} /\ Len(script) \in Nat
  BY <1>1, ReplyEnds, Delimiters
<1>3. PICK f \in 0 .. Len(script), r \in 0 .. Len(buffer), m \in 0 .. 2 :
          Told(f) /\ Holds(f, r, m) /\ Continues(f, r)
  BY DEF StreamInv
<1>4. Skipped(f) \in Nat /\ Skipped(Len(script)) \in Nat
  BY <1>1, FramesFollow
<1>5. r \in Nat
  BY <1>3 DEF Holds
<1>6. QED
  BY <1>1, <1>2, <1>3, <1>4, <1>5

LEMMA ReceiveKeepsStream ==
  ASSUME StreamInv, NEW n \in 1 .. Len(wire), Receive(n)
  PROVE  StreamInv'
<1>1. /\ outcome = "none" /\ body = "open" /\ n <= Len(wire)
      /\ wire' = SubSeq(wire, n + 1, Len(wire))
      /\ UNCHANGED <<body, protocol, script, newline, fragments, collected, shown>>
  BY DEF Receive, Awaits, Goes, Same
<1>2. PICK f \in 0 .. Len(script), r \in Nat, m \in 0 .. 2 :
          /\ Told(f) /\ Holds(f, r, m) /\ Continues(f, r)
          /\ Skipped(f) \in Nat /\ Skipped(Len(script)) \in Nat
  BY <1>1, StreamStands
<1>3. StreamShape /\ wire \in Seq(StreamBytes) /\ buffer \in Seq(StreamBytes)
  BY DEF StreamInv, StreamShape
<1>4. PICK rest \in Seq(StreamBytes) :
          /\ rest = wire' /\ Len(rest) = Len(wire) - n
          /\ \A k \in 1 .. Len(rest) : rest[k] = wire[n + k]
  <2>1. PICK length \in Nat : length = Len(wire)
    BY <1>3
  <2>2. PICK next \in Nat : next = n + 1 /\ n = next - 1 /\ n \in 1 .. length /\ n \in Nat
    BY <2>1
  <2>3. \A k \in next .. length : wire[k] \in StreamBytes
    <3>1. \A k \in next .. length : k \in 1 .. Len(wire)
      BY <2>1, <2>2
    <3>2. QED
      BY <1>3, <3>1
  <2>4. /\ SubSeq(wire, next, length) \in Seq(StreamBytes)
        /\ Len(SubSeq(wire, next, length)) = IF next <= length THEN length - next + 1 ELSE 0
        /\ \A k \in 1 .. length - next + 1 : SubSeq(wire, next, length)[k] = wire[next + k - 1]
    <3>1. next \in Int /\ length \in Int
      BY <2>1, <2>2
    <3>2. QED
      BY <2>3, <3>1, SubSeqProperties
  <2>5. PICK rest \in Seq(StreamBytes) : rest = SubSeq(wire, next, length)
    BY <2>4
  <2>6. rest = wire'
    BY <1>1, <2>1, <2>2, <2>5
  <2>7. length - next + 1 = length - n /\ (IF next <= length THEN length - next + 1 ELSE 0) = length - n
    BY <2>1, <2>2
  <2>8. \A k \in 1 .. length - n : next + k - 1 = n + k
    BY <2>1, <2>2
  <2>9. QED
    BY <2>1, <2>4, <2>5, <2>6, <2>7, <2>8
<1>5. Len(rest) = Len(wire) - n /\ \A k \in 1 .. Len(rest) : rest[k] = wire[n + k]
  BY <1>4
<1>6. Told(f)'
  BY <1>1, <1>2, ToldStays
<1>7. CASE outcome' = "invalid" /\ UNCHANGED buffer
  <2>1. StreamShape'
    BY <1>1, <1>3, <1>7 DEF StreamShape
  <2>2. QED
    BY <1>1, <1>2, <1>4, <1>6, <1>7, <2>1, StreamGoesOn
<1>8. CASE buffer' = buffer \o SubSeq(wire, 1, n) /\ UNCHANGED outcome
  <2>1. m = 0 /\ Len(buffer) = r
    <3>1. m = 0
      BY <1>1, <1>2 DEF Holds
    <3>2. QED
      BY <1>2, <3>1 DEF Holds
  <2>2. /\ SubSeq(wire, 1, n) \in Seq(StreamBytes) /\ Len(SubSeq(wire, 1, n)) = n
        /\ \A k \in 1 .. n : SubSeq(wire, 1, n)[k] = wire[k]
    BY <1>1, <1>3
  <2>3. PICK piece \in Seq(StreamBytes) : piece = SubSeq(wire, 1, n)
    BY <2>2
  <2>4. PICK more \in Seq(StreamBytes) :
            /\ more = buffer \o piece /\ Len(more) = Len(buffer) + Len(piece)
            /\ \A k \in 1 .. Len(buffer) + Len(piece) :
                  more[k] = IF k <= Len(buffer) THEN buffer[k] ELSE piece[k - Len(buffer)]
    <3>1. /\ buffer \o piece \in Seq(StreamBytes) /\ Len(buffer \o piece) = Len(buffer) + Len(piece)
          /\ \A k \in 1 .. Len(buffer) + Len(piece) :
                (buffer \o piece)[k] = IF k <= Len(buffer) THEN buffer[k] ELSE piece[k - Len(buffer)]
      BY <1>3, ConcatProperties
    <3>2. QED
      BY <3>1
  <2>5. /\ Len(more) = r + n /\ \A k \in 1 .. r : more[k] = buffer[k]
        /\ \A k \in 1 .. n : more[r + k] = wire[k]
    <3>1. Len(more) = r + n /\ \A k \in 1 .. r + n : more[k] = IF k <= r THEN buffer[k] ELSE piece[k - r]
      BY <2>1, <2>2, <2>3, <2>4
    <3>2. \A k \in 1 .. r : k \in 1 .. r + n /\ k <= r
      BY <1>2
    <3>3. \A k \in 1 .. n : r + k \in 1 .. r + n /\ ~(r + k <= r) /\ (r + k) - r = k
      BY <1>2
    <3>4. \A k \in 1 .. n : more[r + k] = piece[k]
      BY <3>1, <3>3
    <3>5. QED
      BY <2>2, <2>3, <3>1, <3>2, <3>4
  <2>6. buffer' = more
    BY <1>8, <2>3, <2>4
  <2>7. StreamShape'
    BY <1>1, <1>3, <2>6 DEF StreamShape
  <2>8. PICK q \in Nat : q = r + n
    BY <1>2
  <2>9. /\ \A k \in 1 .. r : buffer[k] = WholeBody[Skipped(f) + k]
        /\ \A k \in 1 .. Len(wire) : wire[k] = WholeBody[Skipped(f) + r + k]
    BY <1>1, <1>2 DEF Holds, Continues
  <2>10. PICK k \in 0 .. FrameWidth - 2 : Skipped(f) + r + Len(wire) + k = Skipped(Len(script))
    BY <1>1, <1>2 DEF Continues
  <2>11. k \in Nat /\ Len(wire) \in Nat /\ n \in Nat
    BY <1>3, <2>10, Delimiters
  <2>12. UNCHANGED <<WholeBody, FrameWidth>> /\ (\A x : Skipped(x)' = Skipped(x))
    BY <1>1 DEF WholeBody, FrameWidth, Skipped
  <2>13. Skipped(f) + q <= Skipped(Len(script)) /\ Skipped(f) + q + Len(rest) + k = Skipped(Len(script))
    <3>1. PICK done \in Nat, all \in Nat, length \in Nat, left \in Nat :
              done = Skipped(f) /\ all = Skipped(Len(script)) /\ length = Len(wire) /\ left = Len(rest)
      BY <1>2, <1>4, <2>11
    <3>2. n \in 1 .. length /\ left = length - n /\ done + r + length + k = all
      BY <1>5, <2>10, <3>1
    <3>3. done + q <= all /\ done + q + left + k = all
      <4>1. q = r + n /\ n \in Nat /\ k \in Nat /\ n <= length
        BY <2>8, <2>11, <3>2
      <4>2. left = length - n /\ done + r + length + k = all
        BY <3>2
      <4>3. done + q + left + k = all
        BY <4>1, <4>2
      <4>4. QED
        BY <4>1, <4>3
    <3>4. QED
      BY <3>1, <3>3
  <2>14. \A i \in 1 .. q : more[i] = WholeBody[Skipped(f) + i]
    <3>1. SUFFICES ASSUME NEW i \in 1 .. q PROVE more[i] = WholeBody[Skipped(f) + i]
      OBVIOUS
    <3>2. CASE i \in 1 .. r
      BY <2>5, <2>9, <3>2
    <3>3. CASE i \notin 1 .. r
      <4>1. i - r \in 1 .. n /\ r + (i - r) = i /\ Skipped(f) + r + (i - r) = Skipped(f) + i
        BY <1>2, <2>8, <2>11, <3>3
      <4>2. i - r \in 1 .. Len(wire)
        BY <1>1, <2>11, <4>1
      <4>3. QED
        BY <2>5, <2>9, <4>1, <4>2
    <3>4. QED
      BY <3>2, <3>3
  <2>15. \A i \in 1 .. Len(rest) : rest[i] = WholeBody[Skipped(f) + q + i]
    <3>1. SUFFICES ASSUME NEW i \in 1 .. Len(rest) PROVE rest[i] = WholeBody[Skipped(f) + q + i]
      OBVIOUS
    <3>2. n + i \in 1 .. Len(wire) /\ Skipped(f) + r + (n + i) = Skipped(f) + q + i
      BY <1>2, <1>5, <2>8, <2>11
    <3>3. QED
      BY <1>5, <2>9, <3>2
  <2>16. Holds(f, q, 0)'
    <3>1. /\ (f \in 0 .. Len(script))' /\ (Skipped(f) + q <= Skipped(Len(script)))'
          /\ (\A i \in 1 .. q : buffer[i] = WholeBody[Skipped(f) + i])'
      BY <1>1, <2>6, <2>12, <2>13, <2>14
    <3>2. (Len(buffer) = q + 0)' /\ 0 \in Nat /\ ~(0 > 0)
      BY <2>5, <2>6, <2>8
    <3>3. q + 1 .. q + 0 = {}
      BY <2>8
    <3>4. QED
      BY <2>8, <3>1, <3>2, <3>3 DEF Holds
  <2>17. Continues(f, q)'
    BY <1>1, <1>4, <2>10, <2>12, <2>13, <2>15 DEF Continues
  <2>18. QED
    BY <1>1, <1>2, <1>4, <1>6, <1>8, <2>7, <2>16, <2>17, StreamGoesOn
<1>9. QED
  BY <1>7, <1>8 DEF Receive

\* What ends the body leaves the buffer alone.
LEMMA CloseKeepsStream ==
  ASSUME StreamInv, Cut \/ CloseBody
  PROVE  StreamInv'
<1>1. /\ outcome = "none" /\ body = "open" /\ body' \in {"open", "cut", "over"}
      /\ outcome' \in {"none", "transport"} /\ (outcome' = "none" => body' # "open")
      /\ body' = "over" => wire = <<>>
      /\ UNCHANGED <<protocol, script, newline, fragments, collected, shown, wire, buffer>>
  BY DEF Cut, CloseBody, Awaits, Goes, Same
<1>2. PICK f \in 0 .. Len(script), r \in Nat, m \in 0 .. 2 :
          /\ Told(f) /\ Holds(f, r, m) /\ Continues(f, r)
          /\ Skipped(f) \in Nat /\ Skipped(Len(script)) \in Nat
  BY <1>1, StreamStands
<1>3. StreamShape /\ wire \in Seq(StreamBytes)
  BY DEF StreamInv
<1>4. StreamShape' /\ (wire \in Seq(StreamBytes))'
  BY <1>1, <1>3 DEF StreamShape
<1>5. Told(f)'
  BY <1>1, <1>2, ToldStays
<1>6. UNCHANGED <<WholeBody, FrameWidth>> /\ (\A x : Skipped(x)' = Skipped(x))
  BY <1>1 DEF WholeBody, FrameWidth, Skipped
<1>7. m = 0
  BY <1>1, <1>2 DEF Holds
<1>8. Holds(f, r, m)'
  BY <1>1, <1>2, <1>6, <1>7 DEF Holds
<1>9. outcome' = "none" => Continues(f, r)'
  <2>1. SUFFICES ASSUME body' = "over"
                 PROVE  IF r = 0 THEN f = Len(script)
                        ELSE \E k \in 0 .. FrameWidth - 2 : Skipped(f) + r + k = Skipped(Len(script))
    BY <1>1, <1>6 DEF Continues
  <2>2. PICK k \in 0 .. FrameWidth - 2 : Skipped(f) + r + Len(wire) + k = Skipped(Len(script))
    BY <1>1, <1>2 DEF Continues
  <2>3. Len(wire) = 0 /\ FrameWidth \in {3, 4, 6} /\ k \in Nat
    BY <1>1, <1>3, <2>1, <2>2, Delimiters
  <2>4. Skipped(f) + r + k = Skipped(Len(script))
    BY <1>2, <2>2, <2>3
  <2>5. r = 0 => f = Len(script)
    <3>1. SUFFICES ASSUME r = 0, f # Len(script) PROVE FALSE
      OBVIOUS
    <3>2. f < Len(script)
      BY <1>3, <3>1, ReplyEnds
    <3>3. Skipped(f) + FrameWidth <= Skipped(Len(script))
      BY <1>3, <3>2, FramesFollow
    <3>4. QED
      BY <1>2, <2>2, <2>3, <2>4, <3>1, <3>3
  <2>6. QED
    BY <2>4, <2>5
<1>10. QED
  BY <1>1, <1>2, <1>4, <1>5, <1>8, <1>9, StreamGoesOn

LEMMA AllIsStopped ==
  ASSUME StreamShape PROVE Stopped(Len(script)) /\ Len(script) \in 0 .. Len(script)
<1>1. Len(script) \in Nat
  BY ReplyEnds
<1>2. QED
  BY <1>1, ReasonIsLast

\* The last frame is made whole, or the answer is there.
LEMMA EndKeepsStream ==
  ASSUME StreamInv, AtEnd \/ AtFinish
  PROVE  StreamInv'
<1>1. /\ outcome = "none"
      /\ UNCHANGED <<body, wire, protocol, script, newline, fragments, collected, shown>>
  BY DEF AtEnd, AtFinish, Awaits, Goes, Same
<1>2. PICK f \in 0 .. Len(script), r \in Nat, m \in 0 .. 2 :
          /\ Told(f) /\ Holds(f, r, m) /\ Continues(f, r)
          /\ Skipped(f) \in Nat /\ Skipped(Len(script)) \in Nat
  BY <1>1, StreamStands
<1>3. StreamShape /\ wire \in Seq(StreamBytes) /\ FrameWidth \in {3, 4, 6}
  BY Delimiters DEF StreamInv
<1>4. Told(f)' /\ Stopped(f)' = Stopped(f) /\ Len(script)' = Len(script)
  BY <1>1, <1>2, ToldStays DEF Stopped
<1>5. CASE outcome' = "answer" /\ UNCHANGED buffer
  <2>1. StreamShape' /\ (wire \in Seq(StreamBytes))'
    BY <1>1, <1>3, <1>5 DEF StreamShape
  <2>2. body = "over" => Stopped(f)
    <3>1. CASE AtFinish
      BY <1>2, <3>1 DEF AtFinish, Told
    <3>2. CASE AtEnd /\ body = "over"
      <4>1. buffer = <<>>
        BY <1>5, <1>1, <3>2 DEF AtEnd
      <4>2. r = 0
        BY <1>2, <4>1 DEF Holds
      <4>3. f = Len(script)
        BY <1>2, <3>2, <4>2 DEF Continues
      <4>4. QED
        BY <1>3, <4>3, AllIsStopped
    <3>3. QED
      BY <3>1, <3>2
  <2>3. QED
    BY <1>1, <1>2, <1>4, <1>5, <2>1, <2>2 DEF StreamInv
<1>6. CASE /\ AtEnd /\ buffer # <<>> /\ buffer' = Append(buffer, LF) /\ UNCHANGED outcome
  <2>1. body # "open" /\ FrameEnds(buffer) = {} /\ buffer \in Seq(StreamBytes) /\ LF \in StreamBytes
    BY <1>3, <1>6 DEF AtEnd, Awaits, StreamShape, StreamBytes, LF, Byte
  <2>2. r # 0
    BY <1>2, <1>3, <1>6, NothingIsFound
  <2>3. ~(r >= FrameWidth)
    BY <1>2, <1>3, <2>1, WholeFrameIsFound
  <2>4. r \in 1 .. FrameWidth - 1
    BY <1>2, <1>3, <2>2, <2>3
  <2>5. m \in 0 .. LineFeeds(r) /\ m # LineFeeds(r)
    <3>1. /\ m \in 0 .. LineFeeds(r)
          /\ m = LineFeeds(r) => \E p, w : EndsAt(p, w, r, m)
      BY <1>2, <1>3, <2>4, LastFrameIsFound
    <3>2. m # LineFeeds(r)
      BY <2>1, <3>1 DEF EndsAt
    <3>3. QED
      BY <3>1, <3>2
  <2>6. PICK z \in 1 .. 2 : z = m + 1 /\ z <= LineFeeds(r)
    BY <1>2, <2>5 DEF LineFeeds
  <2>7. PICK more \in Seq(StreamBytes) :
            /\ more = Append(buffer, LF) /\ Len(more) = Len(buffer) + 1
            /\ \A k \in 1 .. Len(buffer) : more[k] = buffer[k]
            /\ more[Len(buffer) + 1] = LF
    BY <2>1, AppendProperties
  <2>8. /\ Len(buffer) = r + m /\ \A k \in 1 .. r : buffer[k] = WholeBody[Skipped(f) + k]
        /\ \A k \in r + 1 .. r + m : buffer[k] = LF
        /\ Skipped(f) + r <= Skipped(Len(script))
    BY <1>2 DEF Holds
  <2>9. /\ Len(more) = r + z /\ \A k \in 1 .. r : more[k] = buffer[k]
        /\ \A k \in r + 1 .. r + z : more[k] = LF
    <3>1. Len(more) = r + z /\ \A k \in 1 .. r + m : more[k] = buffer[k]
      BY <1>2, <2>1, <2>6, <2>7, <2>8
    <3>2. more[r + z] = LF
      BY <1>2, <2>1, <2>6, <2>7, <2>8
    <3>3. \A k \in r + 1 .. r + z : k = r + z \/ k \in r + 1 .. r + m
      BY <1>2, <2>6
    <3>4. \A k \in 1 .. r : k \in 1 .. r + m
      BY <1>2
    <3>5. \A k \in r + 1 .. r + m : k \in 1 .. r + m
      BY <1>2
    <3>6. QED
      BY <2>8, <3>1, <3>2, <3>3, <3>4, <3>5
  <2>10. buffer' = more /\ UNCHANGED <<WholeBody, FrameWidth>> /\ (\A x : Skipped(x)' = Skipped(x))
         /\ LineFeeds(r)' = LineFeeds(r)
    BY <1>1, <1>6, <2>7 DEF WholeBody, FrameWidth, Skipped, LineFeeds
  <2>11. StreamShape' /\ (wire \in Seq(StreamBytes))'
    BY <1>1, <1>3, <2>10 DEF StreamShape
  <2>12. Holds(f, r, z)'
    BY <1>1, <1>2, <2>1, <2>4, <2>6, <2>8, <2>9, <2>10 DEF Holds
  <2>13. Continues(f, r)'
    BY <1>1, <1>2, <2>1, <2>10 DEF Continues
  <2>14. z \in 0 .. 2
    BY <2>6
  <2>15. QED
    BY <1>1, <1>2, <1>4, <1>6, <2>11, <2>12, <2>13, <2>14, StreamGoesOn
<1>7. QED
  BY <1>5, <1>6 DEF AtEnd, AtFinish

\* What a frame at the head of the buffer is parsed to
LEMMA HeadIsParsed ==
  ASSUME StreamShape, NEW f, NEW r, NEW m, Holds(f, r, m), r > 0, NEW p \in 2 .. 4, p - 1 <= Len(buffer),
         IF r = 1 THEN p = 2 ELSE p \in 3 .. 4, p = 4 => buffer[3] = CR
  PROVE  /\ r # 1 => ParsedFrame(SubSeq(buffer, 1, p - 1)) = {f + 1}
         /\ r = 1 => ParsedFrame(SubSeq(buffer, 1, p - 1)) \subseteq {0, -1}
<1>1. buffer \in Seq(StreamBytes) /\ Len(buffer) \in Nat /\ Len(script) \in Nat /\ FrameWidth \in {3, 4, 6}
      /\ r \in Nat
  BY ReplyEnds, Delimiters DEF StreamShape, Holds
<1>2. f \in 0 .. Len(script) - 1 /\ \A q \in 1 .. FrameWidth : q <= r => buffer[q] = FrameOf(f + 1)[q]
  BY FirstBytes
<1>3. PICK x \in 1 .. Len(script) : x = f + 1
  BY <1>1, <1>2
<1>4. x \in Nat
  BY <1>1, <1>3
<1>5. /\ buffer[1] = Byte(x, "head") /\ (r # 1 => buffer[2] = Byte(x, "tail"))
  BY <1>1, <1>2, <1>3, <1>4, FrameOfBytes
<1>6. PICK e \in 1 .. 3 : e = p - 1
  OBVIOUS
<1>7. \A k \in 1 .. e : buffer[k] \in StreamBytes
  <2>1. \A k \in 1 .. e : k \in 1 .. Len(buffer)
    BY <1>1, <1>6
  <2>2. QED
    BY <1>1, <2>1
<1>8. /\ SubSeq(buffer, 1, e) \in Seq(StreamBytes) /\ Len(SubSeq(buffer, 1, e)) = e
      /\ \A k \in 1 .. e : SubSeq(buffer, 1, e)[k] = buffer[k]
  <2>1. /\ SubSeq(buffer, 1, e) \in Seq(StreamBytes)
        /\ Len(SubSeq(buffer, 1, e)) = IF 1 <= e THEN e - 1 + 1 ELSE 0
        /\ \A k \in 1 .. e - 1 + 1 : SubSeq(buffer, 1, e)[k] = buffer[1 + k - 1]
    <3>1. 1 \in Int /\ e \in Int
      OBVIOUS
    <3>2. QED
      BY <1>7, <3>1, SubSeqProperties
  <2>2. QED
    BY <2>1
<1>9. PICK frame \in Seq(StreamBytes) :
          /\ frame = SubSeq(buffer, 1, e) /\ Len(frame) = e /\ \A k \in 1 .. e : frame[k] = buffer[k]
  BY <1>8
<1>10. /\ frame[1] = Byte(x, "head") /\ (e >= 2 => frame[2] = Byte(x, "tail"))
       /\ (e = 3 => frame[3] = CR) /\ (r = 1 => e = 1) /\ (r # 1 => e >= 2)
  BY <1>5, <1>6, <1>9
<1>11. /\ Len(frame) >= 2 => ParsedFrame(frame) = {x}
       /\ Len(frame) = 1 => ParsedFrame(frame) \subseteq {0, -1}
  <2>1. /\ Len(script) \in Nat /\ Len(frame) \in {1, 2, 3} /\ frame[1] = Byte(x, "head")
        /\ Len(frame) >= 2 => frame[2] = Byte(x, "tail")
        /\ Len(frame) = 3 => frame[3] = CR
    BY <1>1, <1>9, <1>10
  <2>2. QED
    BY <2>1, FrameIsParsed
<1>12. QED
  BY <1>3, <1>6, <1>9, <1>10, <1>11

\* A whole frame is taken from the head of the buffer.
LEMMA WholeFrameKeepsStream ==
  ASSUME StreamInv, NextFrame, NEW f \in 0 .. Len(script), NEW r \in Nat, NEW m,
         Told(f), Holds(f, r, m), Continues(f, r), r >= FrameWidth
  PROVE  StreamInv'
<1>1. /\ outcome = "none" /\ UNCHANGED <<protocol, script, newline, wire, body>>
      /\ StreamShape /\ wire \in Seq(StreamBytes) /\ buffer \in Seq(StreamBytes)
  BY DEF NextFrame, Goes, StreamInv, StreamShape
<1>2. PICK s \in Nat : s = Len(script)
  BY <1>1, ReplyEnds
<1>3. PICK width \in {3, 4, 6} : width = FrameWidth
  BY <1>1, Delimiters
<1>4. m = 0 /\ FrameEnds(buffer) = {<<3, width - 2>>}
  BY <1>1, <1>3, WholeFrameIsFound
<1>5. PICK i \in ParsedFrame(SubSeq(buffer, 1, 2)) : Collect(i)
  <2>1. PICK e \in FrameEnds(buffer) : \E i \in ParsedFrame(SubSeq(buffer, 1, e[1] - 1)) : Collect(i)
    BY DEF NextFrame
  <2>2. e[1] - 1 = 2
    BY <1>4, <2>1
  <2>3. QED
    BY <2>1, <2>2
<1>6. buffer' = SubSeq(buffer, width + 1, Len(buffer))
  <2>1. PICK e \in FrameEnds(buffer) : buffer' = SubSeq(buffer, e[1] + e[2], Len(buffer))
    BY DEF NextFrame
  <2>2. e[1] + e[2] = width + 1
    BY <1>4, <2>1
  <2>3. QED
    BY <2>1, <2>2
<1>7. /\ Len(buffer) = r /\ \A k \in 1 .. r : buffer[k] = WholeBody[Skipped(f) + k]
      /\ Skipped(f) + r <= Skipped(Len(script))
  BY <1>4 DEF Holds
<1>8. f \in 0 .. s - 1 /\ f + 1 \in 1 .. s /\ f + 1 \in 0 .. s
  BY <1>1, <1>2, <1>3, FirstBytes
<1>9. i = f + 1
  <2>1. 3 - 1 <= Len(buffer) /\ 3 - 1 = 2 /\ r > 0 /\ 3 \in 2 .. 4 /\ r # 1 /\ 3 \in 3 .. 4
    BY <1>3, <1>7
  <2>2. r # 1 => ParsedFrame(SubSeq(buffer, 1, 3 - 1)) = {f + 1}
    BY <1>1, <2>1, HeadIsParsed
  <2>3. QED
    BY <1>5, <2>1, <2>2
<1>10. CollectFrame(f + 1)
  BY <1>5, <1>8, <1>9 DEF Collect
<1>11. PICK next \in 0 .. s : next = f + 1
  BY <1>8
<1>12. /\ outcome' \in {"none", "storage"}
       /\ outcome' = "none" => Told(next)'
       /\ outcome' # "none" => Told(f)'
       /\ collected' \in [content : Seq(Nat), calls : SUBSET Nat, finish : Ends \cup {"none"}, finished : BOOLEAN]
  BY <1>1, <1>2, <1>8, <1>10, <1>11, NextIsTold
<1>13. PICK q \in Nat : q = r - width /\ r = q + width
  BY <1>3
<1>14. PICK rest \in Seq(StreamBytes) :
          /\ rest = buffer' /\ Len(rest) = q /\ \A k \in 1 .. q : rest[k] = buffer[width + k]
  <2>1. \A k \in width + 1 .. r : buffer[k] \in StreamBytes
    <3>1. \A k \in width + 1 .. r : k \in 1 .. r
      BY <1>3
    <3>2. QED
      BY <1>1, <1>7, <3>1
  <2>2. /\ SubSeq(buffer, width + 1, r) \in Seq(StreamBytes)
        /\ Len(SubSeq(buffer, width + 1, r)) = IF width + 1 <= r THEN r - (width + 1) + 1 ELSE 0
        /\ \A k \in 1 .. r - (width + 1) + 1 : SubSeq(buffer, width + 1, r)[k] = buffer[width + 1 + k - 1]
    <3>1. width + 1 \in Int /\ r \in Int
      BY <1>3
    <3>2. QED
      BY <2>1, <3>1, SubSeqProperties
  <2>3. PICK rest \in Seq(StreamBytes) : rest = SubSeq(buffer, width + 1, r)
    BY <2>2
  <2>4. (IF width + 1 <= r THEN r - (width + 1) + 1 ELSE 0) = q /\ r - (width + 1) + 1 = q
    BY <1>3, <1>13
  <2>5. \A k \in 1 .. q : width + 1 + k - 1 = width + k
    BY <1>3, <1>13
  <2>6. rest = buffer' /\ Len(rest) = q
    BY <1>6, <1>7, <2>2, <2>3, <2>4
  <2>7. \A k \in 1 .. q : rest[k] = buffer[width + k]
    BY <2>2, <2>3, <2>4, <2>5
  <2>8. QED
    BY <2>6, <2>7
<1>15. PICK here \in Nat, there \in Nat, all \in Nat :
          /\ here = Skipped(f) /\ there = Skipped(next) /\ all = Skipped(Len(script)) /\ there = here + width
          /\ next # s => there + width <= all
  <2>1. Skipped(f) \in Nat /\ Skipped(next) \in Nat /\ Skipped(Len(script)) \in Nat
    BY <1>1, <1>2, <1>11, FramesFollow
  <2>2. Skipped(next) = Skipped(f) + width
    BY <1>1, <1>2, <1>3, <1>8, <1>11, FramesFollow
  <2>3. next # s => Skipped(next) + width <= Skipped(Len(script))
    <3>1. next # s => next < Len(script)
      BY <1>2, <1>11
    <3>2. QED
      BY <1>1, <1>2, <1>3, <3>1, FramesFollow
  <2>4. QED
    BY <2>1, <2>2, <2>3
<1>16. UNCHANGED <<WholeBody, FrameWidth>> /\ (\A x : Skipped(x)' = Skipped(x)) /\ Len(script)' = Len(script)
  BY <1>1 DEF WholeBody, FrameWidth, Skipped
<1>17. StreamShape' /\ (wire \in Seq(StreamBytes))'
  BY <1>1, <1>12, <1>14 DEF StreamShape
<1>18. Holds(next, q, 0)'
  <2>1. \A k \in 1 .. q : rest[k] = WholeBody[there + k]
    <3>1. SUFFICES ASSUME NEW k \in 1 .. q PROVE rest[k] = WholeBody[there + k]
      OBVIOUS
    <3>2. width + k \in 1 .. r /\ here + (width + k) = there + k
      BY <1>3, <1>13, <1>15
    <3>3. QED
      BY <1>7, <1>14, <1>15, <3>2
  <2>2. there + q <= all
    <3>1. here + r <= all
      BY <1>7, <1>15
    <3>2. QED
      BY <1>3, <1>13, <1>15, <3>1
  <2>3. /\ (next \in 0 .. Len(script))' /\ (Skipped(next) + q <= Skipped(Len(script)))'
        /\ (\A k \in 1 .. q : buffer[k] = WholeBody[Skipped(next) + k])'
    BY <1>2, <1>11, <1>14, <1>15, <1>16, <2>1, <2>2
  <2>4. q + 1 .. q + 0 = {} /\ q + 0 = q /\ 0 \in Nat /\ ~(0 > 0)
    BY <1>13
  <2>5. (Len(buffer) = q + 0)'
    BY <1>14, <2>4
  <2>6. QED
    BY <1>13, <2>3, <2>4, <2>5 DEF Holds
<1>19. Continues(next, q)'
  <2>1. there + q = here + r
    BY <1>3, <1>13, <1>15
  <2>2. body = "open" =>
           /\ \E k \in 0 .. FrameWidth - 2 : there + q + Len(wire) + k = all
           /\ \A k \in 1 .. Len(wire) : wire[k] = WholeBody[there + q + k]
    BY <1>15, <2>1 DEF Continues
  <2>3. body = "over" => \E k \in 0 .. FrameWidth - 2 : there + q + k = all
    <3>1. r # 0
      BY <1>3
    <3>2. QED
      BY <1>15, <2>1, <3>1 DEF Continues
  <2>4. body = "over" /\ q = 0 => next = Len(script)
    <3>1. SUFFICES ASSUME body = "over", q = 0, next # s PROVE FALSE
      BY <1>2
    <3>2. PICK k \in 0 .. width - 2 : there + q + k = all
      BY <1>3, <2>3, <3>1
    <3>3. there + width <= all /\ k \in Nat /\ k < width
      BY <1>3, <1>15, <3>1
    <3>4. QED
      BY <1>3, <1>15, <3>1, <3>2, <3>3
  <2>5. /\ body = "open" =>
           /\ \E k \in 0 .. FrameWidth - 2 : Skipped(next) + q + Len(wire) + k = Skipped(Len(script))
           /\ \A k \in 1 .. Len(wire) : wire[k] = WholeBody[Skipped(next) + q + k]
        /\ body = "over" =>
           IF q = 0 THEN next = Len(script)
           ELSE \E k \in 0 .. FrameWidth - 2 : Skipped(next) + q + k = Skipped(Len(script))
    BY <1>15, <2>2, <2>3, <2>4
  <2>6. QED
    BY <1>1, <1>16, <2>5 DEF Continues
<1>20. \E g \in 0 .. Len(script) : Told(g)'
  BY <1>2, <1>11, <1>12
<1>21. PICK g \in 0 .. Len(script) : Told(g)'
  BY <1>20
<1>22. outcome' = "none" => Told(next)' /\ Holds(next, q, 0)' /\ Continues(next, q)' /\ 0 \in 0 .. 2
  BY <1>12, <1>18, <1>19
<1>23. outcome' = "none" => \E x, y, z : Told(x)' /\ Holds(x, y, z)' /\ Continues(x, y)' /\ z \in 0 .. 2
  BY <1>22
<1>24. outcome' # "answer"
  BY <1>12
<1>25. QED
  BY <1>1, <1>17, <1>21, <1>23, <1>24, StreamGoesOn

\* What is left of the last frame is taken, and nothing stays in the buffer.
LEMMA LastFrameKeepsStream ==
  ASSUME StreamInv, NextFrame, NEW f \in 0 .. Len(script), NEW r \in Nat, NEW m \in Nat,
         Told(f), Holds(f, r, m), Continues(f, r), r \in 1 .. FrameWidth - 1, m = LineFeeds(r)
  PROVE  StreamInv'
<1>1. /\ outcome = "none" /\ UNCHANGED <<protocol, script, newline, wire, body>>
      /\ StreamShape /\ wire \in Seq(StreamBytes) /\ buffer \in Seq(StreamBytes)
      /\ collected \in [content : Seq(Nat), calls : SUBSET Nat, finish : Ends \cup {"none"}, finished : BOOLEAN]
  BY DEF NextFrame, Goes, StreamInv, StreamShape
<1>2. PICK s \in Nat : s = Len(script)
  BY <1>1, ReplyEnds
<1>3. PICK width \in {3, 4, 6} : width = FrameWidth
  BY <1>1, Delimiters
<1>4. PICK p, w : EndsAt(p, w, r, m)
  BY <1>1, LastFrameIsFound
<1>5. /\ FrameEnds(buffer) = {<<p, w>>} /\ p \in 2 .. 4 /\ w \in 1 .. 4 /\ p + w = r + m + 1
      /\ IF r = 1 THEN p = 2 ELSE p \in 3 .. r + 1 /\ (p = 4 => buffer[3] = CR)
  BY <1>4 DEF EndsAt
<1>6. /\ \E i \in ParsedFrame(SubSeq(buffer, 1, p - 1)) : Collect(i)
      /\ buffer' = SubSeq(buffer, p + w, Len(buffer))
  <2>1. PICK e \in FrameEnds(buffer) :
           /\ buffer' = SubSeq(buffer, e[1] + e[2], Len(buffer))
           /\ \E i \in ParsedFrame(SubSeq(buffer, 1, e[1] - 1)) : Collect(i)
    BY DEF NextFrame
  <2>2. e[1] = p /\ e[2] = w
    BY <1>5, <2>1
  <2>3. QED
    BY <2>1, <2>2
<1>7. PICK i \in ParsedFrame(SubSeq(buffer, 1, p - 1)) : Collect(i)
  BY <1>6
<1>8. /\ Len(buffer) = r + m /\ body # "open" /\ Skipped(f) + r <= Skipped(Len(script)) /\ m \in {1, 2}
  <2>1. m \in {1, 2}
    BY DEF LineFeeds
  <2>2. QED
    BY <2>1 DEF Holds
<1>9. buffer' = <<>>
  <2>1. Len(buffer) < p + w /\ Len(buffer) \in Int /\ p + w \in Int
    BY <1>5, <1>8
  <2>2. QED
    BY <1>6, <2>1, SubSeqEmpty
<1>10. f \in 0 .. s - 1 /\ f + 1 \in 1 .. s /\ f + 1 \in 0 .. s
  <2>1. r > 0
    BY <1>3
  <2>2. f \in 0 .. Len(script) - 1
    BY <1>1, <2>1, FirstBytes
  <2>3. QED
    BY <1>2, <2>2
<1>11. /\ r # 1 => ParsedFrame(SubSeq(buffer, 1, p - 1)) = {f + 1}
       /\ r = 1 => ParsedFrame(SubSeq(buffer, 1, p - 1)) \subseteq {0, -1}
  <2>1. /\ p - 1 <= Len(buffer) /\ r > 0 /\ p \in 2 .. 4 /\ (p = 4 => buffer[3] = CR)
    BY <1>3, <1>5, <1>8
  <2>2. IF r = 1 THEN p = 2 ELSE p \in 3 .. 4
    BY <1>5
  <2>3. QED
    BY <1>1, <2>1, <2>2, HeadIsParsed
<1>12. PICK next \in 0 .. s : next = f + 1
  BY <1>10
<1>13. PICK here \in Nat, there \in Nat, all \in Nat :
          /\ here = Skipped(f) /\ there = Skipped(next) /\ all = Skipped(Len(script)) /\ there = here + width
          /\ here <= all /\ there <= all /\ (next # s => there + width <= all)
  <2>1. /\ Skipped(f) \in Nat /\ Skipped(next) \in Nat /\ Skipped(Len(script)) \in Nat
        /\ Skipped(f) <= Skipped(Len(script)) /\ Skipped(next) <= Skipped(Len(script))
    BY <1>1, <1>2, <1>12, FramesFollow
  <2>2. Skipped(next) = Skipped(f) + width
    BY <1>1, <1>2, <1>3, <1>10, <1>12, FramesFollow
  <2>3. next # s => Skipped(next) + width <= Skipped(Len(script))
    <3>1. next # s => next < Len(script)
      BY <1>2, <1>12
    <3>2. QED
      BY <1>1, <1>2, <1>3, <3>1, FramesFollow
  <2>4. QED
    BY <2>1, <2>2, <2>3
<1>14. body = "over" => \E k \in 0 .. width - 2 : here + r + k = all
  <2>1. r # 0
    BY <1>3
  <2>2. QED
    BY <1>3, <1>13, <2>1 DEF Continues
<1>15. UNCHANGED <<WholeBody, FrameWidth>> /\ (\A x : Skipped(x)' = Skipped(x)) /\ Len(script)' = Len(script)
  BY <1>1 DEF WholeBody, FrameWidth, Skipped
<1>16. <<>> \in Seq(StreamBytes) /\ Len(<<>>) = 0
  OBVIOUS
<1>17. ASSUME NEW g \in 0 .. s, Skipped(g) <= all
       PROVE  Holds(g, 0, 0)'
  <2>1. /\ (g \in 0 .. Len(script))' /\ (Skipped(g) + 0 <= Skipped(Len(script)))'
    <3>1. Skipped(g) \in Nat
      BY <1>1, <1>2, FramesFollow
    <3>2. Skipped(g) + 0 <= Skipped(Len(script))
      BY <1>13, <1>17, <3>1
    <3>3. QED
      BY <1>2, <1>15, <3>2
  <2>2. 1 .. 0 = {} /\ 0 + 1 .. 0 + 0 = {} /\ 0 \in Nat /\ ~(0 > 0) /\ 0 + 0 = 0
    OBVIOUS
  <2>3. (Len(buffer) = 0 + 0)'
    BY <1>9, <1>16, <2>2
  <2>4. QED
    BY <2>1, <2>2, <2>3 DEF Holds
<1>18. ASSUME NEW g \in 0 .. s, body = "over" => g = s
       PROVE  Continues(g, 0)'
  <2>1. body = "over" => IF 0 = 0 THEN g = Len(script)
                         ELSE \E k \in 0 .. FrameWidth - 2 : Skipped(g) + 0 + k = Skipped(Len(script))
    BY <1>2, <1>18
  <2>2. QED
    BY <1>1, <1>8, <1>15, <2>1 DEF Continues
<1>19. CASE r = 1
  <2>1. i \in {0, -1}
    BY <1>7, <1>11, <1>19
  <2>2. outcome' = (IF i = 0 THEN "none" ELSE "invalid") /\ UNCHANGED <<fragments, collected, shown>>
    BY <1>7, <2>1 DEF Collect, Reply
  <2>3. Told(f)'
    BY <1>1, <2>2, ToldStays
  <2>4. StreamShape' /\ (wire \in Seq(StreamBytes))'
    BY <1>1, <1>9, <1>16, <2>2 DEF StreamShape
  <2>5. body # "over"
    <3>1. SUFFICES ASSUME body = "over" PROVE FALSE
      OBVIOUS
    <3>2. PICK k \in 0 .. width - 2 : here + r + k = all
      BY <1>14, <3>1
    <3>3. k \in Nat /\ k + 1 < width
      BY <1>3
    <3>4. QED
      BY <1>13, <1>19, <3>2, <3>3
  <2>6. f \in 0 .. s
    BY <1>2
  <2>7. Holds(f, 0, 0)' /\ Continues(f, 0)'
    BY <1>13, <1>17, <1>18, <2>5, <2>6
  <2>8. Told(f)' /\ Holds(f, 0, 0)' /\ Continues(f, 0)' /\ 0 \in 0 .. 2
    BY <2>3, <2>7
  <2>9. outcome' # "answer"
    BY <2>2
  <2>10. QED
    BY <1>1, <2>3, <2>4, <2>8, <2>9, StreamGoesOn
<1>20. CASE r # 1
  <2>1. i = f + 1
    BY <1>7, <1>11, <1>20
  <2>2. CollectFrame(f + 1)
    BY <1>7, <1>10, <2>1 DEF Collect
  <2>3. /\ outcome' \in {"none", "storage"}
        /\ outcome' = "none" => Told(next)'
        /\ outcome' # "none" => Told(f)'
        /\ collected' \in [content : Seq(Nat), calls : SUBSET Nat, finish : Ends \cup {"none"}, finished : BOOLEAN]
    BY <1>1, <1>2, <1>10, <1>12, <2>2, NextIsTold
  <2>4. StreamShape' /\ (wire \in Seq(StreamBytes))'
    BY <1>1, <1>9, <1>16, <2>3 DEF StreamShape
  <2>5. body = "over" => next = s
    <3>1. SUFFICES ASSUME body = "over", next # s PROVE FALSE
      OBVIOUS
    <3>2. PICK k \in 0 .. width - 2 : here + r + k = all
      BY <1>14, <3>1
    <3>3. k \in Nat /\ r + k < width + width
      BY <1>3
    <3>4. QED
      BY <1>3, <1>13, <3>1, <3>2, <3>3
  <2>6. Holds(next, 0, 0)' /\ Continues(next, 0)'
    BY <1>13, <1>17, <1>18, <2>5
  <2>7. \E g \in 0 .. Len(script) : Told(g)'
    BY <1>2, <1>12, <2>3
  <2>8. PICK g \in 0 .. Len(script) : Told(g)'
    BY <2>7
  <2>9. outcome' = "none" => Told(next)' /\ Holds(next, 0, 0)' /\ Continues(next, 0)' /\ 0 \in 0 .. 2
    BY <2>3, <2>6
  <2>10. outcome' = "none" => \E x, y, z : Told(x)' /\ Holds(x, y, z)' /\ Continues(x, y)' /\ z \in 0 .. 2
    BY <2>9
  <2>11. outcome' # "answer"
    BY <2>3
  <2>12. QED
    BY <1>1, <2>4, <2>8, <2>10, <2>11, StreamGoesOn
<1>21. QED
  BY <1>19, <1>20

LEMMA NextFrameKeepsStream ==
  ASSUME StreamInv, NextFrame
  PROVE  StreamInv'
<1>1. outcome = "none" /\ FrameEnds(buffer) # {} /\ StreamShape
  BY DEF NextFrame, Goes, StreamInv
<1>2. PICK f \in 0 .. Len(script), r \in Nat, m \in 0 .. 2 :
          /\ Told(f) /\ Holds(f, r, m) /\ Continues(f, r)
          /\ Skipped(f) \in Nat /\ Skipped(Len(script)) \in Nat
  BY <1>1, StreamStands
<1>3. FrameWidth \in {3, 4, 6}
  BY <1>1, Delimiters
<1>4. CASE r >= FrameWidth
  BY <1>2, <1>4, WholeFrameKeepsStream
<1>5. CASE r = 0
  BY <1>1, <1>2, <1>5, NothingIsFound
<1>6. CASE r \in 1 .. FrameWidth - 1
  <2>1. m \in 0 .. LineFeeds(r) /\ (m < LineFeeds(r) => FrameEnds(buffer) = {})
    BY <1>1, <1>2, <1>6, LastFrameIsFound
  <2>2. LineFeeds(r) \in Nat
    BY DEF LineFeeds
  <2>3. m = LineFeeds(r) /\ m \in Nat
    BY <1>1, <2>1, <2>2
  <2>4. QED
    BY <1>2, <1>6, <2>3, LastFrameKeepsStream
<1>7. QED
  BY <1>2, <1>3, <1>4, <1>5, <1>6

LEMMA ReplyStreamKeeps == StreamInv /\ [ProviderNext]_providerVars => StreamInv'
<1> SUFFICES ASSUME StreamInv, [ProviderNext]_providerVars PROVE StreamInv'
  OBVIOUS
<1>1. CASE NextFrame
  BY <1>1, NextFrameKeepsStream
<1>2. CASE \E n \in 1 .. Len(wire) : Receive(n)
  BY <1>2, ReceiveKeepsStream
<1>3. CASE Cut \/ CloseBody
  BY <1>3, CloseKeepsStream
<1>4. CASE AtEnd \/ AtFinish
  BY <1>4, EndKeepsStream
<1>5. CASE UNCHANGED providerVars
  <2>1. UNCHANGED <<protocol, script, newline, wire, body, buffer, fragments, collected, outcome, shown>>
    BY <1>5 DEF providerVars
  <2>2. StreamShape' = StreamShape /\ Len(script)' = Len(script) /\ Len(buffer)' = Len(buffer)
    BY <2>1 DEF StreamShape
  <2>3. \A g : Told(g)' = Told(g) /\ Stopped(g)' = Stopped(g)
    BY <2>1 DEF Told, Stopped, TextsTo
  <2>4. \A f, r, m : Holds(f, r, m)' = Holds(f, r, m) /\ Continues(f, r)' = Continues(f, r)
    BY <2>1 DEF Holds, Continues, Skipped, WholeBody, FrameWidth, LineFeeds
  <2>5. QED
    BY <2>1, <2>2, <2>3, <2>4 DEF StreamInv
<1>6. QED
  BY <1>1, <1>2, <1>3, <1>4, <1>5 DEF ProviderNext

\* What the collector has been told is of the reply, and with its reason it is all of it.
LEMMA ToldIsOfReply ==
  ASSUME StreamShape, NEW g \in 0 .. Len(script), Told(g)
  PROVE  /\ \A n \in DOMAIN collected.content :
               /\ script[collected.content[n]] = "text"
               /\ Cardinality(TextsTo(collected.content[n])) = n
         /\ collected.calls \in {{}, Calls}
         /\ Stopped(g) => /\ Len(collected.content) = Cardinality(TextsTo(Len(script)))
                          /\ collected.calls = Calls /\ collected.finish \in Ends
<1>1. PICK last \in 1 .. Len(script) :
         /\ \A i \in 1 .. Len(script) : script[i] \in {"text", "fragment", "calls"} => i < last
         /\ \A i, j \in 1 .. Len(script) :
               script[i] = "calls" /\ script[j] \in {"calls", "fragment"} => i = j
         /\ \A k \in 0 .. Len(script) : Stopped(k) <=> last <= k
  BY ReasonIsLast
<1>2. Len(script) \in Nat
  BY ReplyEnds
<1>3. /\ Len(collected.content) = Cardinality(TextsTo(g))
      /\ \A n \in 1 .. Len(collected.content) :
            /\ collected.content[n] \in TextsTo(g)
            /\ Cardinality(TextsTo(collected.content[n])) = n
      /\ collected.calls = {i \in 1 .. g : script[i] = "calls" \/ (script[i] = "fragment" /\ Stopped(g))}
      /\ collected.finish \in Ends <=> Stopped(g)
  BY DEF Told
<1>4. collected.content \in Seq(Nat)
  BY DEF StreamShape
<1>5. \A n \in DOMAIN collected.content :
         /\ script[collected.content[n]] = "text"
         /\ Cardinality(TextsTo(collected.content[n])) = n
  <2>1. DOMAIN collected.content = 1 .. Len(collected.content)
    BY <1>4
  <2>2. QED
    BY <1>3, <2>1 DEF TextsTo
<1>6. CASE Stopped(g)
  <2>1. last <= g
    BY <1>1, <1>6
  <2>2. \A i \in 1 .. Len(script) : script[i] \in {"text", "fragment", "calls"} => i \in 1 .. g
    BY <1>1, <1>2, <2>1
  <2>3. \A i \in 1 .. g : i \in 1 .. Len(script)
    BY <1>2
  <2>4. TextsTo(g) = TextsTo(Len(script))
    BY <2>2, <2>3 DEF TextsTo
  <2>5. collected.calls = Calls
    BY <1>3, <1>6, <2>2, <2>3 DEF Calls
  <2>6. QED
    BY <1>3, <1>5, <1>6, <2>4, <2>5
<1>7. CASE ~Stopped(g)
  <2>1. \A i \in 1 .. g : i \in 1 .. Len(script)
    BY <1>2
  <2>2. CASE collected.calls # {}
    <3>1. PICK c1 \in 1 .. g : script[c1] = "calls"
      BY <1>3, <1>7, <2>2
    <3>2. \A i \in 1 .. Len(script) : script[i] \in {"calls", "fragment"} => i = c1
      BY <1>1, <2>1, <3>1
    <3>3. collected.calls = {c1} /\ Calls = {c1}
      <4>1. \A i \in 1 .. g : script[i] = "calls" => i = c1
        BY <2>1, <3>2
      <4>2. collected.calls = {c1}
        BY <1>3, <1>7, <3>1, <4>1
      <4>3. Calls = {c1}
        BY <2>1, <3>1, <3>2 DEF Calls
      <4>4. QED
        BY <4>2, <4>3
    <3>4. QED
      BY <1>5, <1>7, <3>3
  <2>3. CASE collected.calls = {}
    BY <1>5, <1>7, <2>3
  <2>4. QED
    BY <2>2, <2>3
<1>8. QED
  BY <1>6, <1>7

LEMMA StreamIsSound == StreamInv => AnswerIsOfReply
<1> SUFFICES ASSUME StreamInv PROVE AnswerIsOfReply
  OBVIOUS
<1>1. StreamShape
  BY DEF StreamInv
<1>2. PICK g \in 0 .. Len(script) : Told(g)
  BY DEF StreamInv
<1>3. /\ \A n \in DOMAIN collected.content :
            script[collected.content[n]] = "text" /\ Cardinality(TextsTo(collected.content[n])) = n
      /\ collected.calls \in {{}, Calls} /\ shown = collected.content
  BY <1>1, <1>2, ToldIsOfReply DEF Told
<1>4. ASSUME outcome = "answer", body = "over" \/ collected.finish # "none"
      PROVE  /\ Len(collected.content) = Cardinality(TextsTo(Len(script))) /\ collected.calls = Calls
             /\ collected.finish \in Ends
  <2>1. \E h \in 0 .. Len(script) : Told(h) /\ Stopped(h)
    <3>1. CASE body = "over"
      BY <1>4, <3>1 DEF StreamInv
    <3>2. CASE collected.finish # "none"
      <4>1. collected.finish \in Ends
        BY <1>1, <3>2 DEF StreamShape
      <4>2. Stopped(g)
        BY <1>2, <4>1 DEF Told
      <4>3. QED
        BY <1>2, <4>2
    <3>3. QED
      BY <1>4, <3>1, <3>2
  <2>2. QED
    BY <1>1, <2>1, ToldIsOfReply
<1>5. QED
  BY <1>3, <1>4 DEF AnswerIsOfReply

-----------------------------------------------------------------------------
(* All of them together *)

LibraryInv ==
    /\ MemoryInv /\ RadarInv /\ TodosInv /\ BoardInv
    /\ XAutomationInv /\ XDraftsInv /\ XSearchInv
    /\ SessionsInv /\ ExporterInv /\ SettingsInv /\ PagingInv
    /\ StudyInv /\ DailyInv /\ ProcessInv /\ WatchInv /\ StreamInv

libraryVars == <<part, NoteVars, XVars, ListVars, AnswerVars>>

\* What a step of the whole is for each of the parts
LEMMA LibrarySteps ==
  ASSUME [Next]_libraryVars
  PROVE  /\ [MemoryNext]_memoryVars /\ [RadarNext]_radarVars /\ [TodosNext]_todoVars
         /\ [XAutomationNext]_xAutomationVars /\ [XDraftsNext]_xDraftVars /\ [XSearchNext]_searchVars
         /\ [SessionsNext]_sessionVars /\ [SettingsNext]_settingVars /\ [PagingNext]_pagingVars
         /\ [StudyNext]_studyVars /\ [WatchNext]_watchVars
         /\ [DailyNext]_dailyVars /\ [ProcessNext]_processVars /\ [ProviderNext]_providerVars
<1>1. CASE UNCHANGED libraryVars
  BY <1>1 DEF libraryVars, NoteVars, XVars, ListVars, AnswerVars
<1>2. CASE NoteSteps /\ UNCHANGED <<XVars, ListVars, AnswerVars>>
  BY <1>2 DEF NoteSteps, XVars, ListVars, AnswerVars
<1>3. CASE XSteps /\ UNCHANGED <<NoteVars, ListVars, AnswerVars>>
  BY <1>3 DEF XSteps, NoteVars, ListVars, AnswerVars
<1>4. CASE ListSteps /\ UNCHANGED <<NoteVars, XVars, AnswerVars>>
  <2>1. /\ [SessionsNext]_sessionVars /\ [SettingsNext]_settingVars
        /\ [PagingNext]_pagingVars /\ [WatchNext]_watchVars
    BY <1>4 DEF ListSteps, SessionsNext
  <2>2. QED
    BY <1>4, <2>1 DEF NoteVars, XVars, AnswerVars
<1>5. CASE AnswerSteps /\ UNCHANGED <<NoteVars, XVars, ListVars>>
  BY <1>5 DEF AnswerSteps, NoteVars, XVars, ListVars
<1>6. QED
  BY <1>1, <1>2, <1>3, <1>4, <1>5 DEF Next

LEMMA LibraryStarts == Init => LibraryInv
<1> SUFFICES ASSUME Init PROVE LibraryInv
  OBVIOUS
<1>1. /\ MemoryInit /\ RadarInit /\ TodosInit /\ XAutomationInit /\ XDraftsInit /\ XSearchInit
      /\ SessionsInit /\ SettingsInit /\ PagingInit
  BY DEF Init
<1>2. StudyInit /\ DailyInit /\ ProcessInit /\ WatchInit /\ ProviderInit
  BY DEF Init
<1>3. ExporterInv
  BY <1>1 DEF SessionsInit, ExporterInv
<1>4. StudyInv /\ DailyInv /\ ProcessInv /\ WatchInv /\ StreamInv
  BY <1>2, StudyStarts, DailyStarts, ProcessStarts, WatchStarts, StreamStarts
<1>5. BoardInv /\ XSearchInv /\ PagingInv
  BY <1>1, BoardStarts, XSearchStarts, PagingStarts
<1>6. QED
  BY <1>1, <1>3, <1>4, <1>5, MemoryStarts, RadarStarts, TodosStart, XAutomationStarts, XDraftsStart,
     SessionsStart, SettingsStart DEF LibraryInv

LEMMA LibraryKeeps == LibraryInv /\ [Next]_libraryVars => LibraryInv'
<1> SUFFICES ASSUME LibraryInv, [Next]_libraryVars PROVE LibraryInv'
  OBVIOUS
<1>1. /\ [MemoryNext]_memoryVars /\ [RadarNext]_radarVars /\ [TodosNext]_todoVars
      /\ [XAutomationNext]_xAutomationVars /\ [XDraftsNext]_xDraftVars /\ [XSearchNext]_searchVars
      /\ [SessionsNext]_sessionVars /\ [SettingsNext]_settingVars /\ [PagingNext]_pagingVars
      /\ [StudyNext]_studyVars /\ [WatchNext]_watchVars
      /\ [DailyNext]_dailyVars /\ [ProcessNext]_processVars /\ [ProviderNext]_providerVars
  BY LibrarySteps
<1>2. /\ MemoryInv /\ RadarInv /\ TodosInv /\ BoardInv
      /\ XAutomationInv /\ XDraftsInv /\ XSearchInv
      /\ SessionsInv /\ ExporterInv /\ SettingsInv /\ PagingInv
      /\ StudyInv /\ DailyInv /\ ProcessInv /\ WatchInv /\ StreamInv
  BY DEF LibraryInv
<1>3. MemoryInv' /\ RadarInv' /\ TodosInv' /\ BoardInv'
  BY <1>1, <1>2, MemoryKeeps, RadarKeeps, TodosKeep, BoardKeeps
<1>4. XAutomationInv' /\ XDraftsInv' /\ XSearchInv'
  BY <1>1, <1>2, XAutomationKeeps, XDraftsKeep, XSearchKeeps
<1>5. SessionsInv' /\ ExporterInv' /\ SettingsInv' /\ PagingInv'
  BY <1>1, <1>2, SessionsKeep, ExportKeeps, SettingsKeep, PagingKeeps
<1>6. StudyInv' /\ DailyInv'
  BY <1>1, <1>2, StudyKeeps, DailyKeeps
<1>7. ProcessInv' /\ WatchInv' /\ StreamInv'
  BY <1>1, <1>2, ProcessKeeps, WatchKeeps, ReplyStreamKeeps
<1>8. QED
  BY <1>3, <1>4, <1>5, <1>6, <1>7 DEF LibraryInv

LEMMA LibraryAlways == Spec => []LibraryInv
<1>1. Init => LibraryInv
  BY LibraryStarts
<1>2. LibraryInv /\ [Next]_libraryVars => LibraryInv'
  BY LibraryKeeps
<1>3. QED
  BY <1>1, <1>2, PTL DEF Spec, libraryVars

-----------------------------------------------------------------------------
(* The theorems *)

\* What the user has decided stays decided: a run's summary is kept once and only when it
\* was accepted in time, a protected memory stands as it was created, a decision on a
\* Radar item outlives every refresh, an edit of a to-do falls on the row its author saw,
\* settings that are kept are settings whose schedules were written, and publications of
\* a draft follow one another (accept_memory_suggestion, delete_memory, upsert_radar,
\* update_local_todo, put_x_cocreation_settings, record_x_cocreation_publication).
THEOREM DecisionsStay == Spec => []DecisionsAreKept
<1>1. LibraryInv => DecisionsAreKept
  BY MemoryIsSound DEF LibraryInv, DecisionsAreKept, RadarInv, TodosInv, XAutomationInv, XDraftsInv
<1>2. QED
  BY <1>1, LibraryAlways, PTL

\* A branch ends with the last message of its source as it is when the branch appears and
\* leaves out none after its first, a profile is edited by one who has seen its last edit,
\* and a revision of a prompt names the one before it as its parent, whatever is posted,
\* archived or edited meanwhile (fork_session, put_provider_profile,
\* create_prompt_revision).
THEOREM SuccessorsFollow == Spec => SuccessorsAreWhole
<1>1. LibraryInv /\ [Next]_libraryVars =>
          [\A t \in SessionIds :
              sessions'[t] # Absent /\ sessions[t] = Absent /\ sessions'[t].messages # <<>> =>
                  LET copied == sessions'[t].messages
                      last == Len(sessions[forker.source].messages)
                  IN  \A n \in DOMAIN copied : copied[n].of = last - Len(copied) + n]_sessionVars
  <2> SUFFICES ASSUME LibraryInv, [Next]_libraryVars, ~UNCHANGED sessionVars,
                      NEW t \in SessionIds,
                      sessions'[t] # Absent, sessions[t] = Absent, sessions'[t].messages # <<>>
               PROVE  \A n \in DOMAIN sessions'[t].messages :
                          sessions'[t].messages[n].of =
                              Len(sessions[forker.source].messages) - Len(sessions'[t].messages) + n
    OBVIOUS
  <2>1. SessionsInv /\ SessionsNext
    BY LibrarySteps DEF LibraryInv
  <2>2. QED
    BY <2>1, BranchFollows
<1>2. LibraryInv /\ [Next]_libraryVars => [SeenBefore(Kept)]_settingVars
  BY LibrarySteps, EditIsSeen DEF LibraryInv
<1>3. LibraryInv => \A n \in DOMAIN history :
                        history[n].parent = IF n = 1 THEN 0 ELSE history[n - 1].edit
  BY DEF LibraryInv, SettingsInv, ParentsInv, ParentOf
<1>4. QED
  BY <1>1, <1>2, <1>3, LibraryAlways, PTL
     DEF Spec, libraryVars, SuccessorsAreWhole, BranchIsWhole, ProfileEditsAreSeen

\* What is read page by page, or followed as it changes, leaves nothing out and repeats
\* nothing: the board of to-dos and Vault tasks read while nobody writes, the lists whose
\* rows go on being changed, the export of a session somebody posts to; and once a page of
\* the Vault has loaded at a frame and nothing is under way, it lists the notes as they are
\* (list_tasks, schedules_page, session_messages_page, vault_events, loadVaultIndex).
THEOREM ListsStayWhole == Spec => []ListsAreWhole
<1>1. LibraryInv => ListsAreWhole
  BY ExportIsSound, WatchIsSound, BoardIsSound DEF LibraryInv, ListsAreWhole, PagingInv
<1>2. QED
  BY <1>1, LibraryAlways, PTL

\* What is shown is of the source it names: a study's exercises are of the one submission
\* whose path it shows, its reviews are counted from its attempts, a playlist and what is
\* said of a song are of the playlist and the song they are shown with, a post is one X
\* itself publishes, an answer of a program was read within its bound from a process that
\* is gone, and an answer of a model is its reply, however the network has cut the stream
\* (submit_study_path, save_study_attempt, put_music_snapshot, review_music_research,
\* verify_grok_x_search_result, execute_stdio_mcp, ProviderClient::chat_stream).
THEOREM AnswersFollowSources == Spec => []AnswersAreOfTheirSource
<1>1. LibraryInv => AnswersAreOfTheirSource
  BY StudyIsSound, DailyIsSound, ProcessIsSound, StreamIsSound
     DEF LibraryInv, AnswersAreOfTheirSource, XSearchInv
<1>2. QED
  BY <1>1, LibraryAlways, PTL

=============================================================================
