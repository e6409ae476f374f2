------------------------- MODULE ConversationProofs -------------------------
(* Theorems about Conversation, for every value of its constants. *)
EXTENDS Conversation, SequenceTheorems, TLAPS

-----------------------------------------------------------------------------
(* Types *)

LEMMA FaultPoints ==
    /\ DOMAIN AfterFault = {"start", "startReread", "startFailed", "context", "complete",
                            "completeReread", "completeFailed", "failRead", "failWrite",
                            "finishCancelled"}
    /\ AfterFault["start"]           = "startFailed"
    /\ AfterFault["startReread"]     = "startFailed"
    /\ AfterFault["startFailed"]     = "failRead"
    /\ AfterFault["context"]         = "failRead"
    /\ AfterFault["complete"]        = "completeFailed"
    /\ AfterFault["completeReread"]  = "completeFailed"
    /\ AfterFault["completeFailed"]  = "failRead"
    /\ AfterFault["failRead"]        = "remove"
    /\ AfterFault["failWrite"]       = "remove"
    /\ AfterFault["finishCancelled"] = "remove"
  BY DEF AfterFault

\* What insert_event does to the log of an operation.
LEMMA EventsType ==
  ASSUME TypeOK, NEW k \in Keys, NEW kinds \in Seq(Kinds), InsertEvents(k, kinds)
  PROVE  log' \in [Keys -> Seq(Kinds)]
  <1>1. log[k] \in Seq(Kinds)
    BY DEF TypeOK
  <1>2. log[k] \o kinds \in Seq(Kinds)
    BY <1>1, ConcatProperties
  <1> QED BY <1>2 DEF TypeOK, InsertEvents

LEMMA TransitionType ==
  ASSUME TypeOK, NEW k \in Keys,
         NEW state \in {"streaming", "cancelled", "failed"}, Transition(k, state)
  PROVE  /\ ops' \in [Keys -> [state : OpStates, cancel : BOOLEAN,
                               preview : Contents \cup {NoContent}]]
         /\ log' \in [Keys -> Seq(Kinds)]
         /\ UNCHANGED <<session, previews, messages>>
  <1>1. <<IF state = "streaming" THEN "model_started" ELSE state>> \in Seq(Kinds)
    BY DEF Kinds, Terminal
  <1>2. log' \in [Keys -> Seq(Kinds)]
    BY <1>1, EventsType DEF Transition
  <1>3. ops' \in [Keys -> [state : OpStates, cancel : BOOLEAN,
                           preview : Contents \cup {NoContent}]]
    <2>1. state \in OpStates
      BY DEF OpStates, Terminal
    <2> QED BY <2>1 DEF TypeOK, Transition
  <1> QED BY <1>2, <1>3 DEF Transition

TablesType ==
    /\ session \in {"active", "archived", "deleted"}
    /\ previews \in [Contents -> [state : {"absent", "fresh", "expired"},
                                  usedBy : Keys \cup {NoKey}]]
    /\ ops \in [Keys -> [state : OpStates, cancel : BOOLEAN,
                         preview : Contents \cup {NoContent}]]
    /\ log \in [Keys -> Seq(Kinds)]
    /\ messages \in Seq([role : {"user", "assistant"}, key : Keys])

LEMMA FinishType ==
  ASSUME TypeOK, NEW k \in Keys, FinishCancelled(k) PROVE TablesType'
  BY TransitionType DEF FinishCancelled, TablesType, TypeOK, tables

LEMMA ClientType ==
  ASSUME TypeOK, NEW c \in Clients,
         \/ Answer(c)
         \/ /\ client[c].pc \in {"create", "reread", "signal"}
            /\ \E pc \in {"register", "signal", "finish"} : Proceed(c, pc)
         \/ \E k \in Keys, p \in Contents \cup {NoContent},
               pc \in {"create", "reread", "signal"} : Request(c, pc, k, p)
         \/ \E p \in Contents : Request(c, "preview", NoKey, p)
  PROVE  client' \in [Clients -> Requests]
  <1>1. CASE Answer(c)
    BY <1>1 DEF TypeOK, Answer, Requests
  <1>2. CASE client[c].pc \in {"create", "reread", "signal"}
             /\ \E pc \in {"register", "signal", "finish"} : Proceed(c, pc)
    <2>1. PICK pc \in {"register", "signal", "finish"} : Proceed(c, pc)
      BY <1>2
    <2>2. client[c] \in [pc : {"create", "register", "reread", "signal", "finish"},
                         key : Keys, content : Contents \cup {NoContent}]
      BY <1>2 DEF TypeOK, Requests, NoRequest
    <2>3. [client[c] EXCEPT !.pc = pc] \in Requests
      BY <2>2 DEF Requests
    <2> QED BY <2>1, <2>3 DEF TypeOK, Proceed
  <1>3. CASE \E k \in Keys, p \in Contents \cup {NoContent},
               pc \in {"create", "reread", "signal"} : Request(c, pc, k, p)
    BY <1>3 DEF TypeOK, Request, Requests
  <1>4. CASE \E p \in Contents : Request(c, "preview", NoKey, p)
    BY <1>4 DEF TypeOK, Request, Requests
  <1> QED BY <1>1, <1>2, <1>3, <1>4

\* A request that is at work on an operation names one.
LEMMA RequestKey ==
  ASSUME TypeOK, NEW c \in Clients
  PROVE  /\ client[c] \in Requests
         /\ client[c].pc \in {"create", "register", "reread", "signal", "finish"}
              => client[c].key \in Keys /\ client[c].content \in Contents \cup {NoContent}
         /\ client[c].pc = "preview" => client[c].content \in Contents
  BY DEF TypeOK, Requests, NoRequest

LEMMA HandlerTypes ==
  ASSUME TypeOK, NEW c \in Clients,
         RequestPreview(c) \/ RequestTurn(c) \/ RequestCancel(c) \/ HandlerStep(c)
  PROVE  TypeOK'
  <1> USE DEF tables
  <1>1. CASE RequestPreview(c)
    BY <1>1, ClientType DEF TypeOK, RequestPreview
  <1>2. CASE RequestTurn(c)
    BY <1>2, ClientType DEF TypeOK, RequestTurn
  <1>3. CASE RequestCancel(c)
    <2>1. PICK k \in Keys :
            \/ /\ ops' = [ops EXCEPT ![k].state = "cancel_requested", ![k].cancel = TRUE]
               /\ InsertEvents(k, <<"cancel_requested">>)
               /\ Request(c, "reread", k, NoContent)
               /\ UNCHANGED <<session, previews, messages>>
            \/ /\ Request(c, "signal", k, NoContent)
               /\ UNCHANGED tables
      BY <1>3 DEF RequestCancel
    <2>2. <<"cancel_requested">> \in Seq(Kinds)
      BY DEF Kinds
    <2>3. log' \in [Keys -> Seq(Kinds)]
      BY <2>1, <2>2, EventsType DEF TypeOK
    <2>4. client' \in [Clients -> Requests]
      BY <2>1, ClientType
    <2>5. UNCHANGED <<registry, task, outbound, crashes, faults>>
      BY <1>3 DEF RequestCancel
    <2>6. ops' \in [Keys -> [state : OpStates, cancel : BOOLEAN,
                             preview : Contents \cup {NoContent}]]
      <3>1. CASE UNCHANGED tables
        BY <3>1 DEF TypeOK
      <3>2. CASE ops' = [ops EXCEPT ![k].state = "cancel_requested", ![k].cancel = TRUE]
        <4>1. ops' = [ops EXCEPT ![k] = [@ EXCEPT !.state = "cancel_requested",
                                                  !.cancel = TRUE]]
          BY <3>2
        <4>2. [ops[k] EXCEPT !.state = "cancel_requested", !.cancel = TRUE]
                \in [state : OpStates, cancel : BOOLEAN, preview : Contents \cup {NoContent}]
          BY DEF TypeOK, OpStates
        <4> QED BY <4>1, <4>2 DEF TypeOK
      <3> QED BY <2>1, <3>1, <3>2
    <2> QED BY <2>1, <2>3, <2>4, <2>5, <2>6 DEF TypeOK
  <1>4. CASE SavePreview(c)
    <2>1. client' \in [Clients -> Requests]
      BY <1>4, ClientType DEF SavePreview
    <2>2. client[c].content \in Contents
      BY <1>4, RequestKey DEF SavePreview
    <2>3. previews' \in [Contents -> [state : {"absent", "fresh", "expired"},
                                      usedBy : Keys \cup {NoKey}]]
      <3>1. [NoPreview EXCEPT !.state = "fresh"]
              = [state |-> "fresh", usedBy |-> NoKey]
        BY DEF NoPreview
      <3>2. CASE UNCHANGED previews
        BY <3>2 DEF TypeOK
      <3>3. CASE previews' = [previews EXCEPT ![client[c].content] =
                                 [state |-> "fresh", usedBy |-> NoKey]]
        BY <2>2, <3>3 DEF TypeOK
      <3> QED BY <1>4, <3>1, <3>2, <3>3 DEF SavePreview
    <2>4. UNCHANGED <<session, ops, log, messages, registry, task, outbound, crashes, faults>>
      BY <1>4 DEF SavePreview
    <2> QED BY <2>1, <2>3, <2>4 DEF TypeOK
  <1>5. CASE CreateOperation(c)
    <2> DEFINE k == client[c].key
               p == client[c].content
    <2>1. k \in Keys /\ p \in Contents \cup {NoContent}
      BY <1>5, RequestKey DEF CreateOperation
    <2>2. client' \in [Clients -> Requests]
      BY <1>5, ClientType DEF CreateOperation
    <2>3. CASE TurnAdmissible(k, p)
      <3>1. /\ messages' = Append(messages, [role |-> "user", key |-> k])
            /\ ops' = [ops EXCEPT ![k] = [state |-> "queued", cancel |-> FALSE, preview |-> p]]
            /\ InsertEvents(k, <<"queued">>)
            /\ previews' = [q \in Contents |->
                   IF q = p THEN [previews[q] EXCEPT !.usedBy = k] ELSE previews[q]]
            /\ UNCHANGED session
        BY <1>5, <2>3 DEF CreateOperation
      <3>2. <<"queued">> \in Seq(Kinds)
        BY DEF Kinds
      <3>3. log' \in [Keys -> Seq(Kinds)]
        BY <2>1, <3>1, <3>2, EventsType
      <3>4. messages' \in Seq([role : {"user", "assistant"}, key : Keys])
        BY <2>1, <3>1, AppendProperties DEF TypeOK
      <3>5. ops' \in [Keys -> [state : OpStates, cancel : BOOLEAN,
                               preview : Contents \cup {NoContent}]]
        BY <2>1, <3>1 DEF TypeOK, OpStates
      <3>6. previews' \in [Contents -> [state : {"absent", "fresh", "expired"},
                                        usedBy : Keys \cup {NoKey}]]
        <4>1. ASSUME NEW q \in Contents
              PROVE  (IF q = p THEN [previews[q] EXCEPT !.usedBy = k] ELSE previews[q])
                       \in [state : {"absent", "fresh", "expired"}, usedBy : Keys \cup {NoKey}]
          <5>1. previews[q] \in [state : {"absent", "fresh", "expired"}, usedBy : Keys \cup {NoKey}]
            BY DEF TypeOK
          <5>2. k \in Keys \cup {NoKey}
            BY <2>1
          <5> HIDE DEF k
          <5> QED BY <5>1, <5>2
        <4> QED BY <3>1, <4>1
      <3>7. UNCHANGED <<registry, task, outbound, crashes, faults>>
        BY <1>5 DEF CreateOperation
      <3> QED BY <2>2, <3>1, <3>3, <3>4, <3>5, <3>6, <3>7 DEF TypeOK
    <2>4. CASE ~TurnAdmissible(k, p)
      BY <1>5, <2>2, <2>4 DEF TypeOK, CreateOperation
    <2> QED BY <2>3, <2>4
  <1>6. CASE RegisterOperation(c)
    <2>1. client' \in [Clients -> Requests]
      BY <1>6, ClientType DEF RegisterOperation
    <2> QED BY <1>6, <2>1 DEF TypeOK, RegisterOperation, TaskPcs
  <1>7. CASE RereadOperation(c)
    <2>1. client' \in [Clients -> Requests]
      BY <1>7, ClientType DEF RereadOperation
    <2> QED BY <1>7, <2>1 DEF TypeOK, RereadOperation
  <1>8. CASE SignalTask(c)
    <2>1. client' \in [Clients -> Requests]
      BY <1>8, ClientType DEF SignalTask
    <2> QED BY <1>8, <2>1 DEF TypeOK, SignalTask
  <1>9. CASE FinishUnregistered(c)
    <2>1. client' \in [Clients -> Requests]
      BY <1>9, ClientType DEF FinishUnregistered
    <2>2. client[c].key \in Keys
      BY <1>9, RequestKey DEF FinishUnregistered
    <2>3. TablesType'
      BY <1>9, <2>2, FinishType DEF FinishUnregistered
    <2> QED BY <1>9, <2>1, <2>3 DEF TypeOK, TablesType, FinishUnregistered
  <1> QED BY <1>1, <1>2, <1>3, <1>4, <1>5, <1>6, <1>7, <1>8, <1>9 DEF HandlerStep

LEMMA TaskTypes ==
  ASSUME TypeOK, NEW k \in Keys, TaskStep(k) \/ StorageFault(k) PROVE TypeOK'
  <1> USE DEF Goto, UnchangedByTask, tables
  <1>1. CASE LookAtChannel(k)
    BY <1>1 DEF TypeOK, LookAtChannel, TaskPcs
  <1>2. CASE Start(k)
    <2>1. UNCHANGED <<registry, outbound, faults, client, crashes>>
          /\ task' \in [Keys -> TaskPcs]
      BY <1>2 DEF TypeOK, Start, TaskPcs
    <2>2. TablesType'
      BY <1>2, TransitionType DEF Start, TablesType, TypeOK
    <2> QED BY <2>1, <2>2 DEF TypeOK, TablesType
  <1>3. CASE ReadBack(k)
    BY <1>3 DEF TypeOK, ReadBack, TaskPcs
  <1>4. CASE ReadCancel(k)
    BY <1>4 DEF TypeOK, ReadCancel, TaskPcs
  <1>5. CASE BuildContext(k)
    BY <1>5 DEF TypeOK, BuildContext, TaskPcs
  <1>6. CASE CallModel(k)
    <2>1. task' \in [Keys -> TaskPcs]
      BY <1>6 DEF TypeOK, CallModel, TaskPcs
    <2>2. outbound' \in [Keys -> Nat]
      <3>1. outbound \in [Keys -> Nat] /\ outbound[k] + 1 \in Nat
        BY DEF TypeOK
      <3>2. outbound' = outbound \/ outbound' = [outbound EXCEPT ![k] = @ + 1]
        BY <1>6 DEF CallModel
      <3> QED BY <3>1, <3>2
    <2> QED BY <1>6, <2>1, <2>2 DEF TypeOK, CallModel
  <1>7. CASE AwaitModel(k)
    BY <1>7 DEF TypeOK, AwaitModel, TaskPcs
  <1>8. CASE Complete(k)
    <2>1. UNCHANGED <<registry, outbound, faults, client, crashes>>
          /\ task' \in [Keys -> TaskPcs]
      BY <1>8 DEF TypeOK, Complete, TaskPcs
    <2>2. TablesType'
      <3>1. CASE Completable(k)
        <4>1. <<"validating", "delta", "completed">> \in Seq(Kinds)
          BY DEF Kinds, Terminal
        <4>2. log' \in [Keys -> Seq(Kinds)]
          BY <1>8, <3>1, <4>1, EventsType DEF Complete
        <4>3. messages' \in Seq([role : {"user", "assistant"}, key : Keys])
          <5>1. messages' = Append(messages, [role |-> "assistant", key |-> k])
            BY <1>8, <3>1 DEF Complete
          <5>2. [role |-> "assistant", key |-> k]
                  \in [role : {"user", "assistant"}, key : Keys]
            OBVIOUS
          <5> QED BY <5>1, <5>2, AppendProperties DEF TypeOK
        <4>4. ops' \in [Keys -> [state : OpStates, cancel : BOOLEAN,
                                 preview : Contents \cup {NoContent}]]
          <5>1. ops' = [ops EXCEPT ![k].state = "completed"]
            BY <1>8, <3>1 DEF Complete
          <5>2. "completed" \in OpStates
            BY DEF OpStates, Terminal
          <5> QED BY <5>1, <5>2 DEF TypeOK
        <4>5. UNCHANGED <<session, previews>>
          BY <1>8, <3>1 DEF Complete
        <4> QED BY <4>2, <4>3, <4>4, <4>5 DEF TablesType, TypeOK
      <3>2. CASE ~Completable(k)
        BY <1>8, <3>2 DEF Complete, TablesType, TypeOK
      <3> QED BY <3>1, <3>2
    <2> QED BY <2>1, <2>2 DEF TypeOK, TablesType
  <1>9. CASE FailRead(k)
    BY <1>9 DEF TypeOK, FailRead, TaskPcs
  <1>10. CASE FailWrite(k)
    <2>1. UNCHANGED <<registry, outbound, faults, client, crashes>>
          /\ task' \in [Keys -> TaskPcs]
      BY <1>10 DEF TypeOK, FailWrite, TaskPcs
    <2>2. TablesType'
      BY <1>10, TransitionType DEF FailWrite, TablesType, TypeOK
    <2> QED BY <2>1, <2>2 DEF TypeOK, TablesType
  <1>11. CASE EndCancelled(k)
    <2>1. UNCHANGED <<registry, outbound, faults, client, crashes>>
          /\ task' \in [Keys -> TaskPcs]
      BY <1>11 DEF TypeOK, EndCancelled, TaskPcs
    <2>2. TablesType'
      BY <1>11, FinishType DEF EndCancelled
    <2> QED BY <2>1, <2>2 DEF TypeOK, TablesType
  <1>12. CASE RemoveRuntime(k)
    BY <1>12 DEF TypeOK, RemoveRuntime, TaskPcs
  <1>13. CASE StorageFault(k)
    BY <1>13, FaultPoints DEF TypeOK, StorageFault, TaskPcs
  <1> QED BY <1>1, <1>2, <1>3, <1>4, <1>5, <1>6, <1>7, <1>8, <1>9, <1>10, <1>11,
             <1>12, <1>13 DEF TaskStep

LEMMA TypeInit == Init => TypeOK
  BY DEF Init, TypeOK, NoPreview, NoOp, NoRequest, Requests, OpStates, TaskPcs

LEMMA TypeStep == TypeOK /\ [Next]_vars => TypeOK'
  <1> SUFFICES ASSUME TypeOK, [Next]_vars PROVE TypeOK'
    OBVIOUS
  <1> USE DEF tables
  <1>1. CASE \E p \in Contents : PreviewExpires(p)
    <2>1. PICK p \in Contents : PreviewExpires(p)
      BY <1>1
    <2>2. previews' \in [Contents -> [state : {"absent", "fresh", "expired"},
                                      usedBy : Keys \cup {NoKey}]]
      BY <2>1 DEF TypeOK, PreviewExpires
    <2> QED BY <2>1, <2>2 DEF TypeOK, PreviewExpires
  <1>2. CASE ArchiveSession
    BY <1>2 DEF TypeOK, ArchiveSession
  <1>3. CASE DeleteSession
    BY <1>3 DEF TypeOK, DeleteSession, NoPreview, NoOp, OpStates
  <1>4. CASE CoreRestarts
    <2>1. ASSUME NEW k \in Keys PROVE Append(log[k], "failed") \in Seq(Kinds)
      BY AppendProperties DEF TypeOK, Kinds, Terminal
    <2>2. log' \in [Keys -> Seq(Kinds)]
      BY <1>4, <2>1 DEF TypeOK, CoreRestarts
    <2>3. ops' \in [Keys -> [state : OpStates, cancel : BOOLEAN,
                             preview : Contents \cup {NoContent}]]
      <3>1. "failed" \in OpStates
        BY DEF OpStates, Terminal
      <3>2. ASSUME NEW k \in Keys
            PROVE  [ops[k] EXCEPT !.state = "failed"] \in
                       [state : OpStates, cancel : BOOLEAN, preview : Contents \cup {NoContent}]
        BY <3>1 DEF TypeOK
      <3> QED BY <1>4, <3>2 DEF TypeOK, CoreRestarts
    <2>4. client' \in [Clients -> Requests]
      BY <1>4 DEF CoreRestarts, Requests
    <2>5. task' \in [Keys -> TaskPcs]
      BY <1>4 DEF TypeOK, CoreRestarts, TaskPcs
    <2>6. registry' \in [Keys -> {"none", "live", "cancelled"}] /\ crashes' \in Nat
      BY <1>4 DEF TypeOK, CoreRestarts
    <2>7. UNCHANGED <<session, previews, messages, outbound, faults>>
      BY <1>4 DEF CoreRestarts
    <2> QED BY <2>2, <2>3, <2>4, <2>5, <2>6, <2>7 DEF TypeOK
  <1>5. CASE UNCHANGED vars
    BY <1>5 DEF TypeOK, vars
  <1> QED BY <1>1, <1>2, <1>3, <1>4, <1>5, HandlerTypes, TaskTypes DEF Next

\* Every reachable state is of its type, for any keys, requests and contents.
THEOREM TypeCorrect == Spec => []TypeOK
  BY TypeInit, TypeStep, PTL DEF Spec

-----------------------------------------------------------------------------
(* What a step can do to the rows of the session *)

Opens(k) ==
    /\ session = "active" /\ ops[k].state = "absent"
    /\ \E p \in Contents \cup {NoContent} :
          ops' = [ops EXCEPT ![k] = [state |-> "queued", cancel |-> FALSE, preview |-> p]]
    /\ InsertEvents(k, <<"queued">>)
    /\ messages' = Append(messages, [role |-> "user", key |-> k])

AsksCancel(k) ==
    /\ ops[k].state \notin Terminal \cup {"absent"} /\ ~ops[k].cancel
    /\ ops' = [ops EXCEPT ![k].state = "cancel_requested", ![k].cancel = TRUE]
    /\ InsertEvents(k, <<"cancel_requested">>)
    /\ UNCHANGED messages

\* The cancellation of an operation is finished by its task or by a handler.
Finisher(k) ==
    \/ task[k] = "finishCancelled"
    \/ \E c \in Clients : client[c].pc = "finish" /\ client[c].key = k

Changes(k, to) ==
    /\ \/ to = "streaming" /\ ops[k].state = "queued"
       \/ to = "failed" /\ ops[k].state \in Failable
       \/ to = "cancelled" /\ ops[k].state \notin Terminal \cup {"absent"} /\ Finisher(k)
    /\ Transition(k, to)

Answers(k) ==
    /\ Completable(k)
    /\ ops' = [ops EXCEPT ![k].state = "completed"]
    /\ InsertEvents(k, <<"validating", "delta", "completed">>)
    /\ messages' = Append(messages, [role |-> "assistant", key |-> k])

RowMoves(k) ==
    /\ UNCHANGED session
    /\ \/ Opens(k)
       \/ AsksCancel(k)
       \/ \E to \in {"streaming", "failed", "cancelled"} : Changes(k, to)
       \/ Answers(k)

Stays ==
    /\ UNCHANGED <<ops, log, messages>>
    /\ \/ UNCHANGED session
       \/ session = "active" /\ session' = "archived"

Moves ==
    \/ Stays
    \/ \E k \in Keys : RowMoves(k)
    \/ DeleteSession
    \/ CoreRestarts

LEMMA HandlerMoves ==
  ASSUME TypeOK, NEW c \in Clients,
         RequestPreview(c) \/ RequestTurn(c) \/ RequestCancel(c) \/ HandlerStep(c)
  PROVE  Moves
  <1> USE DEF tables
  <1>1. CASE RequestPreview(c) \/ RequestTurn(c)
    BY <1>1 DEF RequestPreview, RequestTurn, Moves, Stays
  <1>2. CASE RequestCancel(c)
    <2>1. PICK k \in Keys : ops[k].state \notin Terminal \cup {"absent"} /\
            \/ /\ ~ops[k].cancel
               /\ ops' = [ops EXCEPT ![k].state = "cancel_requested", ![k].cancel = TRUE]
               /\ InsertEvents(k, <<"cancel_requested">>)
               /\ Request(c, "reread", k, NoContent)
               /\ UNCHANGED <<session, previews, messages>>
            \/ UNCHANGED tables
      BY <1>2 DEF RequestCancel
    <2> QED BY <2>1 DEF Moves, Stays, RowMoves, AsksCancel
  <1>3. CASE CreateOperation(c)
    <2>1. /\ client[c].key \in Keys
          /\ client[c].content \in Contents \cup {NoContent}
      BY <1>3, RequestKey DEF CreateOperation
    <2>2. (Opens(client[c].key) /\ UNCHANGED session) \/ UNCHANGED tables
      BY <1>3, <2>1 DEF CreateOperation, TurnAdmissible, Opens
    <2> QED BY <2>1, <2>2 DEF Moves, Stays, RowMoves
  <1>4. CASE FinishUnregistered(c)
    <2>1. client[c].key \in Keys /\ Finisher(client[c].key)
      BY <1>4, RequestKey DEF FinishUnregistered, Finisher
    <2>2. UNCHANGED tables \/ Changes(client[c].key, "cancelled")
      BY <1>4, <2>1 DEF FinishUnregistered, FinishCancelled, Changes
    <2> QED BY <2>1, <2>2 DEF Moves, Stays, RowMoves, Changes, Transition
  <1>5. CASE SavePreview(c) \/ RegisterOperation(c) \/ RereadOperation(c) \/ SignalTask(c)
    BY <1>5 DEF SavePreview, RegisterOperation, RereadOperation, SignalTask, Moves, Stays
  <1> QED BY <1>1, <1>2, <1>3, <1>4, <1>5 DEF HandlerStep

LEMMA TaskMoves ==
  ASSUME TypeOK, NEW k \in Keys, TaskStep(k) \/ StorageFault(k) PROVE Moves
  <1> USE DEF tables
  <1>1. CASE Start(k)
    <2>1. UNCHANGED tables \/ Changes(k, "streaming")
      BY <1>1 DEF Start, Changes
    <2> QED BY <2>1 DEF Moves, Stays, RowMoves, Changes, Transition
  <1>2. CASE Complete(k)
    <2>1. UNCHANGED tables \/ (Answers(k) /\ UNCHANGED session)
      BY <1>2 DEF Complete, Answers
    <2> QED BY <2>1 DEF Moves, Stays, RowMoves
  <1>3. CASE FailWrite(k)
    <2>1. UNCHANGED tables \/ Changes(k, "failed")
      BY <1>3 DEF FailWrite, Changes
    <2> QED BY <2>1 DEF Moves, Stays, RowMoves, Changes, Transition
  <1>4. CASE EndCancelled(k)
    <2>1. UNCHANGED tables \/ Changes(k, "cancelled")
      BY <1>4 DEF EndCancelled, FinishCancelled, Changes, Finisher
    <2> QED BY <2>1 DEF Moves, Stays, RowMoves, Changes, Transition
  <1>5. CASE UNCHANGED tables
    BY <1>5 DEF Moves, Stays
  <1>6. TaskStep(k) \/ StorageFault(k) =>
          \/ Start(k) \/ Complete(k) \/ FailWrite(k) \/ EndCancelled(k)
          \/ UNCHANGED tables
    BY DEF TaskStep, LookAtChannel, ReadBack, ReadCancel, BuildContext, CallModel,
           AwaitModel, FailRead, RemoveRuntime, StorageFault
  <1> QED BY <1>1, <1>2, <1>3, <1>4, <1>5, <1>6

LEMMA StepMoves ==
  ASSUME TypeOK, [Next]_vars PROVE Moves
  <1>1. CASE ArchiveSession \/ (\E p \in Contents : PreviewExpires(p)) \/ UNCHANGED vars
    BY <1>1 DEF ArchiveSession, PreviewExpires, vars, Moves, Stays
  <1>2. CASE DeleteSession \/ CoreRestarts
    BY <1>2 DEF Moves
  <1> QED BY <1>1, <1>2, HandlerMoves, TaskMoves DEF Next

-----------------------------------------------------------------------------
(* The rows of the operations *)

RowsInv ==
    \A k \in Keys :
        /\ session = "deleted" => ops[k].state = "absent"
        /\ ops[k].state = "cancel_requested" => ops[k].cancel
        /\ ops[k].cancel => ops[k].state \in {"cancel_requested", "cancelled", "failed"}

LEMMA RowsStep ==
  ASSUME TypeOK, RowsInv, Moves PROVE RowsInv'
  <1> SUFFICES ASSUME NEW k \in Keys
               PROVE  /\ session' = "deleted" => ops'[k].state = "absent"
                      /\ ops'[k].state = "cancel_requested" => ops'[k].cancel
                      /\ ops'[k].cancel =>
                            ops'[k].state \in {"cancel_requested", "cancelled", "failed"}
    BY DEF RowsInv
  <1>0. ops \in [Keys -> [state : OpStates, cancel : BOOLEAN,
                          preview : Contents \cup {NoContent}]]
    BY DEF TypeOK
  <1>1. CASE Stays
    BY <1>1 DEF Stays, RowsInv
  <1>2. ASSUME NEW j \in Keys, RowMoves(j)
        PROVE  /\ session' = "deleted" => ops'[k].state = "absent"
               /\ ops'[k].state = "cancel_requested" => ops'[k].cancel
               /\ ops'[k].cancel =>
                     ops'[k].state \in {"cancel_requested", "cancelled", "failed"}
    <2>0. session' = session
      BY <1>2 DEF RowMoves
    <2>1. CASE Opens(j)
      BY <1>0, <2>0, <2>1 DEF Opens, RowsInv
    <2>2. CASE AsksCancel(j)
      BY <1>0, <2>0, <2>2 DEF AsksCancel, RowsInv
    <2>3. ASSUME NEW to \in {"streaming", "failed", "cancelled"}, Changes(j, to)
          PROVE  /\ session' = "deleted" => ops'[k].state = "absent"
                 /\ ops'[k].state = "cancel_requested" => ops'[k].cancel
                 /\ ops'[k].cancel =>
                       ops'[k].state \in {"cancel_requested", "cancelled", "failed"}
      BY <1>0, <2>0, <2>3 DEF Changes, Transition, RowsInv, Failable
    <2>4. CASE Answers(j)
      BY <1>0, <2>0, <2>4 DEF Answers, Completable, RowsInv
    <2> QED BY <1>2, <2>1, <2>2, <2>3, <2>4 DEF RowMoves
  <1>3. CASE DeleteSession
    BY <1>3 DEF DeleteSession, NoOp
  <1>4. CASE CoreRestarts
    BY <1>0, <1>4 DEF CoreRestarts, RowsInv, Abandoned, OpStates, Terminal
  <1> QED BY <1>1, <1>2, <1>3, <1>4 DEF Moves

\* An operation whose cancellation was accepted is never completed.
THEOREM CancelledStaysUnanswered == Spec => []CancelledIsNeverCompleted
  <1>1. Init => TypeOK /\ RowsInv
    BY TypeInit DEF Init, RowsInv, NoOp
  <1>2. TypeOK /\ RowsInv /\ [Next]_vars => (TypeOK /\ RowsInv)'
    BY TypeStep, StepMoves, RowsStep
  <1>3. RowsInv => CancelledIsNeverCompleted
    BY DEF RowsInv, CancelledIsNeverCompleted
  <1> QED BY <1>1, <1>2, <1>3, PTL DEF Spec

-----------------------------------------------------------------------------
(* One end *)

LEMMA OneEndStep ==
  ASSUME TypeOK, OneEnd, Moves PROVE OneEnd'
  <1> DEFINE Good(k, l, o) ==
        /\ \A i \in 1..Len(l) : l[i] \in Terminal => i = Len(l)
        /\ \A t \in Terminal : o.state = t <=> l # <<>> /\ l[Len(l)] = t
  <1> SUFFICES ASSUME NEW k \in Keys PROVE Good(k, log'[k], ops'[k])
    BY DEF OneEnd
  <1>0. /\ ops \in [Keys -> [state : OpStates, cancel : BOOLEAN,
                             preview : Contents \cup {NoContent}]]
        /\ log \in [Keys -> Seq(Kinds)]
        /\ log[k] \in Seq(Kinds)
        /\ Good(k, log[k], ops[k])
    BY DEF TypeOK, OneEnd
  \* Events of which at most the last ends the operation.
  <1>1. ASSUME NEW kinds \in Seq(Kinds), NEW o,
               ops[k].state \notin Terminal, kinds # <<>>,
               \A i \in 1..Len(kinds) : kinds[i] \in Terminal => i = Len(kinds),
               \A t \in Terminal : o.state = t <=> kinds[Len(kinds)] = t
        PROVE  Good(k, log[k] \o kinds, o)
    <2> DEFINE l == log[k] \o kinds
    <2>1. Len(l) = Len(log[k]) + Len(kinds) /\ Len(kinds) \in Nat /\ Len(kinds) > 0
          /\ Len(log[k]) \in Nat
      BY <1>0, <1>1
    <2>2. \A i \in 1..Len(l) :
            l[i] = IF i <= Len(log[k]) THEN log[k][i] ELSE kinds[i - Len(log[k])]
      BY <1>0, <1>1
    <2>3. \A i \in 1..Len(log[k]) : log[k][i] \notin Terminal
      BY <1>0, <1>1, <2>1
    <2>4. l[Len(l)] = kinds[Len(kinds)] /\ l # <<>>
      BY <1>1, <2>1, <2>2
    <2>5. ASSUME NEW i \in 1..Len(l), l[i] \in Terminal PROVE i = Len(l)
      <3>1. i > Len(log[k]) /\ kinds[i - Len(log[k])] \in Terminal
        BY <2>1, <2>2, <2>3, <2>5
      <3>2. i - Len(log[k]) \in 1..Len(kinds)
        BY <2>1, <3>1
      <3> QED BY <1>1, <2>1, <3>1, <3>2
    <2> QED BY <1>1, <2>4, <2>5
  <1>2. CASE Stays
    BY <1>0, <1>2 DEF Stays
  <1>3. ASSUME NEW j \in Keys, RowMoves(j) PROVE Good(k, log'[k], ops'[k])
    <2>1. CASE j # k
      <3>1. ops'[k] = ops[k] /\ log'[k] = log[k]
        BY <1>0, <1>3, <2>1 DEF RowMoves, Opens, AsksCancel, Changes, Answers,
                                Transition, InsertEvents
      <3> QED BY <1>0, <3>1
    <2>2. CASE j = k
      <3>1. CASE Opens(k)
        <4>1. log'[k] = log[k] \o <<"queued">> /\ ops'[k].state = "queued"
              /\ ops[k].state \notin Terminal
          BY <1>0, <3>1 DEF Opens, InsertEvents, Terminal
        <4>2. <<"queued">> \in Seq(Kinds) BY DEF Kinds
        <4> DEFINE kinds == <<"queued">>
        <4>3. Len(kinds) = 1 /\ kinds[1] = "queued" /\ kinds # <<>>
          OBVIOUS
        <4>4. \A i \in 1..Len(kinds) : kinds[i] \in Terminal => i = Len(kinds)
          BY <4>3
        <4>5. \A t \in Terminal : ops'[k].state = t <=> kinds[Len(kinds)] = t
          BY <4>1, <4>3 DEF Terminal
        <4> HIDE DEF Good, kinds
        <4>6. Good(k, log[k] \o kinds, ops'[k])
          BY <1>1, <4>1, <4>2, <4>3, <4>4, <4>5 DEF kinds
        <4> QED BY <4>1, <4>6 DEF kinds
      <3>2. CASE AsksCancel(k)
        <4>1. log'[k] = log[k] \o <<"cancel_requested">>
              /\ ops'[k].state = "cancel_requested" /\ ops[k].state \notin Terminal
          BY <1>0, <3>2 DEF AsksCancel, InsertEvents
        <4>2. <<"cancel_requested">> \in Seq(Kinds) BY DEF Kinds
        <4> DEFINE kinds == <<"cancel_requested">>
        <4>3. Len(kinds) = 1 /\ kinds[1] = "cancel_requested" /\ kinds # <<>>
          OBVIOUS
        <4>4. \A i \in 1..Len(kinds) : kinds[i] \in Terminal => i = Len(kinds)
          BY <4>3
        <4>5. \A t \in Terminal : ops'[k].state = t <=> kinds[Len(kinds)] = t
          BY <4>1, <4>3 DEF Terminal
        <4> HIDE DEF Good, kinds
        <4>6. Good(k, log[k] \o kinds, ops'[k])
          BY <1>1, <4>1, <4>2, <4>3, <4>4, <4>5 DEF kinds
        <4> QED BY <4>1, <4>6 DEF kinds
      <3>3. ASSUME NEW to \in {"streaming", "failed", "cancelled"}, Changes(k, to)
            PROVE  Good(k, log'[k], ops'[k])
        <4> DEFINE kind == IF to = "streaming" THEN "model_started" ELSE to
        <4>1. log'[k] = log[k] \o <<kind>> /\ ops'[k].state = to
              /\ ops[k].state \notin Terminal
          BY <1>0, <3>3 DEF Changes, Transition, InsertEvents, Failable, Terminal
        <4>2. <<kind>> \in Seq(Kinds) BY DEF Kinds, Terminal
        <4> DEFINE kinds == <<kind>>
        <4>3. Len(kinds) = 1 /\ kinds[1] = kind /\ kinds # <<>>
          OBVIOUS
        <4>4. \A i \in 1..Len(kinds) : kinds[i] \in Terminal => i = Len(kinds)
          BY <4>3
        <4>5. \A t \in Terminal : ops'[k].state = t <=> kinds[Len(kinds)] = t
          BY <4>1, <4>3 DEF Terminal
        <4> HIDE DEF Good, kinds
        <4>6. Good(k, log[k] \o kinds, ops'[k])
          BY <1>1, <4>1, <4>2, <4>3, <4>4, <4>5 DEF kinds
        <4> QED BY <4>1, <4>6 DEF kinds
      <3>4. CASE Answers(k)
        <4>1. log'[k] = log[k] \o <<"validating", "delta", "completed">>
              /\ ops'[k].state = "completed" /\ ops[k].state \notin Terminal
          BY <1>0, <3>4 DEF Answers, Completable, InsertEvents, Terminal
        <4>2. <<"validating", "delta", "completed">> \in Seq(Kinds)
          BY DEF Kinds, Terminal
        <4> DEFINE kinds == <<"validating", "delta", "completed">>
        <4>3. /\ Len(kinds) = 3 /\ kinds # <<>>
              /\ kinds[1] = "validating" /\ kinds[2] = "delta" /\ kinds[3] = "completed"
          OBVIOUS
        <4>4. \A i \in 1..Len(kinds) : kinds[i] \in Terminal => i = Len(kinds)
          BY <4>3 DEF Terminal
        <4> HIDE DEF Good, kinds
        <4>5. Good(k, log[k] \o kinds, ops'[k])
          BY <1>1, <4>1, <4>2, <4>3, <4>4 DEF kinds
        <4> QED BY <4>1, <4>5 DEF kinds
      <3> QED BY <1>3, <2>2, <3>1, <3>2, <3>3, <3>4 DEF RowMoves
    <2> QED BY <2>1, <2>2
  <1>4. CASE DeleteSession
    BY <1>4 DEF DeleteSession, NoOp, Terminal
  <1>5. CASE CoreRestarts
    <2>1. CASE ops[k].state \in Abandoned
      <3>1. log'[k] = Append(log[k], "failed") /\ ops'[k].state = "failed"
            /\ ops[k].state \notin Terminal
        BY <1>0, <1>5, <2>1 DEF CoreRestarts, Abandoned
      <3>2. Append(log[k], "failed") = log[k] \o <<"failed">>
        BY <1>0
      <3>3. <<"failed">> \in Seq(Kinds) BY DEF Kinds, Terminal
      <3> DEFINE kinds == <<"failed">>
      <3>4. Len(kinds) = 1 /\ kinds[1] = "failed" /\ kinds # <<>>
        OBVIOUS
      <3>5. \A i \in 1..Len(kinds) : kinds[i] \in Terminal => i = Len(kinds)
        BY <3>4
      <3>6. \A t \in Terminal : ops'[k].state = t <=> kinds[Len(kinds)] = t
        BY <3>1, <3>4
      <3> HIDE DEF Good, kinds
      <3>7. Good(k, log[k] \o kinds, ops'[k])
        BY <1>1, <3>1, <3>3, <3>4, <3>5, <3>6 DEF kinds
      <3> QED BY <3>1, <3>2, <3>7 DEF kinds
    <2>2. CASE ops[k].state \notin Abandoned
      BY <1>0, <1>5, <2>2 DEF CoreRestarts
    <2> QED BY <2>1, <2>2
  <1> QED BY <1>2, <1>3, <1>4, <1>5 DEF Moves

\* An operation has exactly one terminal state, in its row and in its events.
THEOREM EndsOnce == Spec => []OneEnd
  <1>1. Init => TypeOK /\ OneEnd
    BY TypeInit DEF Init, OneEnd, NoOp, Terminal
  <1>2. TypeOK /\ OneEnd /\ [Next]_vars => (TypeOK /\ OneEnd)'
    BY TypeStep, StepMoves, OneEndStep
  <1> QED BY <1>1, <1>2, PTL DEF Spec

-----------------------------------------------------------------------------
(* Who may act on an operation *)

OpsType == ops \in [Keys -> [state : OpStates, cancel : BOOLEAN,
                             preview : Contents \cup {NoContent}]]

\* No row comes back: a step neither makes an operation absent, short of the
\* deletion of the session, nor takes a cancellation back.
LEMMA RowsStay ==
  ASSUME TypeOK, RowsInv, Moves, NEW k \in Keys
  PROVE  /\ session = "deleted" => session' = "deleted"
         /\ ops'[k].state = "absent" /\ session' # "deleted"
              => ops[k].state = "absent" /\ session # "deleted"
         /\ ops[k].cancel => ops'[k].cancel \/ session' = "deleted"
         /\ session' = "deleted" => ops'[k].state = "absent"
  <1> DEFINE Stay ==
        /\ session = "deleted" => session' = "deleted"
        /\ ops'[k].state = "absent" /\ session' # "deleted"
             => ops[k].state = "absent" /\ session # "deleted"
        /\ ops[k].cancel => ops'[k].cancel \/ session' = "deleted"
        /\ session' = "deleted" => ops'[k].state = "absent"
  <1>0. OpsType
    BY DEF TypeOK, OpsType
  <1>1. CASE Stays
    BY <1>1 DEF Stays, RowsInv
  <1>2. ASSUME NEW j \in Keys, RowMoves(j) PROVE Stay
    <2>0. session' = session
      BY <1>2 DEF RowMoves
    <2>1. CASE Opens(j)
      BY <1>0, <2>0, <2>1 DEF Opens, RowsInv, OpsType
    <2>2. CASE AsksCancel(j)
      BY <1>0, <2>0, <2>2 DEF AsksCancel, RowsInv, OpsType
    <2>3. ASSUME NEW to \in {"streaming", "failed", "cancelled"}, Changes(j, to) PROVE Stay
      BY <1>0, <2>0, <2>3 DEF Changes, Transition, RowsInv, Failable, OpsType
    <2>4. CASE Answers(j)
      BY <1>0, <2>0, <2>4 DEF Answers, Completable, RowsInv, OpsType
    <2> QED BY <1>2, <2>1, <2>2, <2>3, <2>4 DEF RowMoves
  <1>3. CASE DeleteSession
    BY <1>3 DEF DeleteSession, NoOp
  <1>4. CASE CoreRestarts
    BY <1>0, <1>4 DEF CoreRestarts, RowsInv, Abandoned, OpStates, Terminal, OpsType
  <1> QED BY <1>1, <1>2, <1>3, <1>4 DEF Moves

\* Points of a task before its model call.
BeforeCall == {"begin", "start", "startReread", "startFailed", "context", "select"}

\* What a step of a task does outside the rows.
LEMMA TaskFrame ==
  ASSUME TypeOK, NEW k \in Keys, TaskStep(k) \/ StorageFault(k)
  PROVE  /\ UNCHANGED <<client, session>>
         /\ registry' = registry \/ registry' = [registry EXCEPT ![k] = "none"]
         /\ \E pc \in TaskPcs :
              /\ task' = [task EXCEPT ![k] = pc]
              /\ task[k] # "none"
              /\ pc \in BeforeCall => task[k] \in BeforeCall \ {"select"}
              /\ pc = "none" => task[k] = "remove"
              /\ \/ outbound' = outbound
                 \/ task[k] = "select" /\ pc = "waiting"
                    /\ outbound' = [outbound EXCEPT ![k] = @ + 1]
              /\ pc = "finishCancelled" =>
                   \/ registry[k] = "cancelled"
                   \/ ops[k].cancel
  <1> DEFINE Frame ==
         /\ UNCHANGED <<client, session>>
         /\ registry' = registry \/ registry' = [registry EXCEPT ![k] = "none"]
         /\ \E pc \in TaskPcs :
              /\ task' = [task EXCEPT ![k] = pc]
              /\ task[k] # "none"
              /\ pc \in BeforeCall => task[k] \in BeforeCall \ {"select"}
              /\ pc = "none" => task[k] = "remove"
              /\ \/ outbound' = outbound
                 \/ task[k] = "select" /\ pc = "waiting"
                    /\ outbound' = [outbound EXCEPT ![k] = @ + 1]
              /\ pc = "finishCancelled" =>
                   \/ registry[k] = "cancelled"
                   \/ ops[k].cancel
  <1> USE DEF Goto, UnchangedByTask, tables, TaskPcs, BeforeCall
  <1>1. CASE LookAtChannel(k)
    BY <1>1 DEF LookAtChannel
  <1>2. CASE Start(k)
    BY <1>2 DEF Start, Transition
  <1>3. CASE ReadBack(k)
    BY <1>3 DEF ReadBack
  <1>4. CASE ReadCancel(k)
    BY <1>4 DEF ReadCancel
  <1>5. CASE BuildContext(k)
    BY <1>5 DEF BuildContext
  <1>6. CASE CallModel(k)
    BY <1>6 DEF CallModel
  <1>7. CASE AwaitModel(k)
    BY <1>7 DEF AwaitModel
  <1>8. CASE Complete(k)
    BY <1>8 DEF Complete
  <1>9. CASE FailRead(k)
    BY <1>9 DEF FailRead
  <1>10. CASE FailWrite(k)
    BY <1>10 DEF FailWrite, Transition
  <1>11. CASE EndCancelled(k)
    BY <1>11 DEF EndCancelled, FinishCancelled, Transition
  <1>12. CASE RemoveRuntime(k)
    BY <1>12 DEF RemoveRuntime
  <1>13. CASE StorageFault(k)
    BY <1>13, FaultPoints DEF StorageFault
  <1> QED BY <1>1, <1>2, <1>3, <1>4, <1>5, <1>6, <1>7, <1>8, <1>9, <1>10, <1>11,
             <1>12, <1>13 DEF TaskStep

\* What a step of a request does outside the rows.
LEMMA HandlerFrame ==
  ASSUME TypeOK, NEW c \in Clients,
         RequestPreview(c) \/ RequestTurn(c) \/ RequestCancel(c) \/ HandlerStep(c)
  PROVE  /\ UNCHANGED <<session, outbound>>
         /\ \E r \in Requests :
              /\ client' = [client EXCEPT ![c] = r]
              /\ r.pc = "register" =>
                   /\ client[c].pc = "create" /\ r.key = client[c].key
                   /\ TurnAdmissible(r.key, client[c].content)
                   /\ ops'[r.key].state = "queued"
              /\ r.pc = "reread" => ops'[r.key].cancel
              /\ r.pc = "signal" => \/ ops'[r.key].cancel
                                    \/ client[c].pc = "reread" /\ r.key = client[c].key
              /\ r.pc = "finish" => client[c].pc = "signal" /\ r.key = client[c].key
              /\ \/ UNCHANGED <<registry, task>>
                 \/ /\ client[c].pc = "register" /\ r.pc = "idle"
                    /\ registry' = [registry EXCEPT ![client[c].key] = "live"]
                    /\ task' = [task EXCEPT ![client[c].key] = "begin"]
                 \/ /\ client[c].pc = "signal" /\ r.pc = "idle"
                    /\ registry' = [registry EXCEPT ![client[c].key] = "cancelled"]
                    /\ UNCHANGED task
  <1> DEFINE Frame(r) ==
              /\ client' = [client EXCEPT ![c] = r]
              /\ r.pc = "register" =>
                   /\ client[c].pc = "create" /\ r.key = client[c].key
                   /\ TurnAdmissible(r.key, client[c].content)
                   /\ ops'[r.key].state = "queued"
              /\ r.pc = "reread" => ops'[r.key].cancel
              /\ r.pc = "signal" => \/ ops'[r.key].cancel
                                    \/ client[c].pc = "reread" /\ r.key = client[c].key
              /\ r.pc = "finish" => client[c].pc = "signal" /\ r.key = client[c].key
              /\ \/ UNCHANGED <<registry, task>>
                 \/ /\ client[c].pc = "register" /\ r.pc = "idle"
                    /\ registry' = [registry EXCEPT ![client[c].key] = "live"]
                    /\ task' = [task EXCEPT ![client[c].key] = "begin"]
                 \/ /\ client[c].pc = "signal" /\ r.pc = "idle"
                    /\ registry' = [registry EXCEPT ![client[c].key] = "cancelled"]
                    /\ UNCHANGED task
  <1>1. UNCHANGED <<session, outbound>>
    BY DEF RequestPreview, RequestTurn, RequestCancel, HandlerStep, SavePreview,
           CreateOperation, RegisterOperation, RereadOperation, SignalTask,
           FinishUnregistered, FinishCancelled, Transition, tables
  <1>2. OpsType /\ client \in [Clients -> Requests]
    BY DEF TypeOK, OpsType
  <1>3. ASSUME NEW r \in Requests, Frame(r) PROVE \E q \in Requests : Frame(q)
    BY <1>3
  <1>4. NoRequest \in Requests /\ NoRequest.pc = "idle"
    BY DEF Requests, NoRequest
  <1>5. CASE RequestPreview(c)
    <2>1. PICK p \in Contents : client' = [client EXCEPT ![c] =
              [pc |-> "preview", key |-> NoKey, content |-> p]]
      BY <1>5 DEF RequestPreview, Request
    <2>2. Frame([pc |-> "preview", key |-> NoKey, content |-> p])
      BY <1>5, <2>1 DEF RequestPreview
    <2>3. [pc |-> "preview", key |-> NoKey, content |-> p] \in Requests
      BY DEF Requests
    <2> QED BY <1>1, <2>2, <2>3
  <1>6. CASE RequestTurn(c)
    <2>1. PICK k \in Keys, p \in Contents \cup {NoContent} :
            client' = [client EXCEPT ![c] = [pc |-> "create", key |-> k, content |-> p]]
      BY <1>6 DEF RequestTurn, Request
    <2>2. Frame([pc |-> "create", key |-> k, content |-> p])
      BY <1>6, <2>1 DEF RequestTurn
    <2>3. [pc |-> "create", key |-> k, content |-> p] \in Requests
      BY DEF Requests
    <2> QED BY <1>1, <2>2, <2>3
  <1>7. CASE RequestCancel(c)
    <2>1. PICK k \in Keys :
            \/ /\ ops' = [ops EXCEPT ![k].state = "cancel_requested", ![k].cancel = TRUE]
               /\ client' = [client EXCEPT ![c] =
                     [pc |-> "reread", key |-> k, content |-> NoContent]]
            \/ /\ ops[k].cancel /\ ops' = ops
               /\ client' = [client EXCEPT ![c] =
                     [pc |-> "signal", key |-> k, content |-> NoContent]]
      BY <1>7 DEF RequestCancel, Request, tables
    <2>2. UNCHANGED <<registry, task>>
      BY <1>7 DEF RequestCancel
    <2>3. /\ [pc |-> "reread", key |-> k, content |-> NoContent] \in Requests
          /\ [pc |-> "signal", key |-> k, content |-> NoContent] \in Requests
      BY DEF Requests
    <2>4. CASE ops' = [ops EXCEPT ![k].state = "cancel_requested", ![k].cancel = TRUE]
               /\ client' = [client EXCEPT ![c] =
                     [pc |-> "reread", key |-> k, content |-> NoContent]]
      <3>1. ops'[k].cancel
        BY <1>2, <2>4 DEF OpsType
      <3>2. Frame([pc |-> "reread", key |-> k, content |-> NoContent])
        BY <2>2, <2>4, <3>1
      <3> QED BY <1>1, <2>3, <3>2
    <2>5. CASE ops[k].cancel /\ ops' = ops
               /\ client' = [client EXCEPT ![c] =
                     [pc |-> "signal", key |-> k, content |-> NoContent]]
      <3>1. Frame([pc |-> "signal", key |-> k, content |-> NoContent])
        BY <2>2, <2>5
      <3> QED BY <1>1, <2>3, <3>1
    <2> QED BY <2>1, <2>4, <2>5
  <1>8. CASE SavePreview(c)
    <2>1. Frame(NoRequest)
      BY <1>4, <1>8 DEF SavePreview, Answer
    <2> QED BY <1>1, <1>4, <2>1
  <1>9. CASE CreateOperation(c)
    <2>1. CASE TurnAdmissible(client[c].key, client[c].content)
      <3> DEFINE r == [client[c] EXCEPT !.pc = "register"]
      <3>1. /\ client[c].pc = "create" /\ client[c].key \in Keys
            /\ client' = [client EXCEPT ![c] = r]
            /\ UNCHANGED <<registry, task>>
            /\ ops' = [ops EXCEPT ![client[c].key] = [state |-> "queued", cancel |-> FALSE,
                                                      preview |-> client[c].content]]
        BY <1>9, <2>1, RequestKey DEF CreateOperation, Proceed
      <3>2. client[c] \in [pc : {"create", "register", "reread", "signal", "finish"},
                           key : Keys, content : Contents \cup {NoContent}]
        BY <1>2, <3>1 DEF Requests, NoRequest
      <3>3. r.pc = "register" /\ r.key = client[c].key /\ r \in Requests
        BY <3>2 DEF Requests
      <3>4. ops'[client[c].key].state = "queued"
        BY <1>2, <3>1 DEF OpsType
      <3> HIDE DEF r
      <3>5. Frame(r)
        BY <2>1, <3>1, <3>3, <3>4
      <3> QED BY <1>1, <3>3, <3>5
    <2>2. CASE ~TurnAdmissible(client[c].key, client[c].content)
      <3>1. Frame(NoRequest)
        BY <1>4, <1>9, <2>2 DEF CreateOperation, Answer
      <3> QED BY <1>1, <1>4, <3>1
    <2> QED BY <2>1, <2>2
  <1>10. CASE RegisterOperation(c)
    <2>1. Frame(NoRequest)
      BY <1>4, <1>10 DEF RegisterOperation, Answer
    <2> QED BY <1>1, <1>4, <2>1
  <1>11. CASE RereadOperation(c) \/ SignalTask(c)
    <2>1. client[c].pc \in {"reread", "signal"}
      BY <1>11 DEF RereadOperation, SignalTask
    <2>2. client[c] \in [pc : {"create", "register", "reread", "signal", "finish"},
                         key : Keys, content : Contents \cup {NoContent}]
      BY <1>2, <2>1 DEF Requests, NoRequest
    <2>3. ASSUME NEW pc \in {"signal", "finish"}
          PROVE  /\ [client[c] EXCEPT !.pc = pc].pc = pc
                 /\ [client[c] EXCEPT !.pc = pc].key = client[c].key
                 /\ [client[c] EXCEPT !.pc = pc] \in Requests
      BY <2>2 DEF Requests
    <2>4. CASE Answer(c)
      <3>1. Frame(NoRequest)
        BY <1>4, <1>11, <2>4 DEF RereadOperation, SignalTask, Answer
      <3> QED BY <1>1, <1>4, <3>1
    <2>5. CASE RereadOperation(c) /\ Proceed(c, "signal")
      <3>1. Frame([client[c] EXCEPT !.pc = "signal"])
        BY <2>3, <2>5 DEF RereadOperation, Proceed
      <3> QED BY <1>1, <2>3, <3>1
    <2>6. CASE SignalTask(c) /\ Proceed(c, "finish") /\ UNCHANGED registry
      <3>1. Frame([client[c] EXCEPT !.pc = "finish"])
        BY <2>3, <2>6 DEF SignalTask, Proceed
      <3> QED BY <1>1, <2>3, <3>1
    <2> QED BY <1>11, <2>4, <2>5, <2>6 DEF RereadOperation, SignalTask
  <1>12. CASE FinishUnregistered(c)
    <2>1. Frame(NoRequest)
      BY <1>4, <1>12 DEF FinishUnregistered, Answer
    <2> QED BY <1>1, <1>4, <2>1
  <1> QED BY <1>5, <1>6, <1>7, <1>8, <1>9, <1>10, <1>11, <1>12 DEF HandlerStep

-----------------------------------------------------------------------------
(* One model request *)

Starting(c, k) == client[c].pc = "register" /\ client[c].key = k

\* Until its task sends the request nothing was sent for an operation, and an
\* operation gets a task once: from the request that stored it.
OutboundInv ==
    /\ \A k \in Keys :
          /\ outbound[k] <= 1
          /\ task[k] \in BeforeCall => outbound[k] = 0
          /\ ops[k].state = "absent" /\ session # "deleted" =>
                task[k] = "none" /\ outbound[k] = 0 /\ \A c \in Clients : ~Starting(c, k)
    /\ \A k \in Keys, c \in Clients : Starting(c, k) =>
          /\ task[k] = "none" /\ outbound[k] = 0
          /\ \A d \in Clients : Starting(d, k) => d = c

LEMMA OutboundStep ==
  ASSUME TypeOK, RowsInv, OutboundInv, [Next]_vars PROVE OutboundInv'
  <1>0. /\ Moves
        /\ task \in [Keys -> TaskPcs] /\ outbound \in [Keys -> Nat]
        /\ client \in [Clients -> Requests]
    BY StepMoves DEF TypeOK
  <1>1. ASSUME NEW k \in Keys, ops'[k].state = "absent", session' # "deleted"
        PROVE  ops[k].state = "absent" /\ session # "deleted"
    BY <1>0, <1>1, RowsStay
  <1>2. CASE UNCHANGED <<task, client, outbound>>
    BY <1>1, <1>2 DEF OutboundInv, Starting
  <1>3. ASSUME NEW k \in Keys, TaskStep(k) \/ StorageFault(k) PROVE OutboundInv'
    <2>1. PICK pc \in TaskPcs :
            /\ task' = [task EXCEPT ![k] = pc]
            /\ task[k] # "none"
            /\ pc \in BeforeCall => task[k] \in BeforeCall \ {"select"}
            /\ \/ outbound' = outbound
               \/ task[k] = "select" /\ pc = "waiting"
                  /\ outbound' = [outbound EXCEPT ![k] = @ + 1]
      BY <1>3, TaskFrame
    <2>2. UNCHANGED client
      BY <1>3, TaskFrame
    <2>3. ASSUME NEW j \in Keys, j # k PROVE task'[j] = task[j] /\ outbound'[j] = outbound[j]
      BY <1>0, <2>1, <2>3
    <2>4. task'[k] = pc /\ outbound'[k] <= 1 /\ (pc \in BeforeCall => outbound'[k] = 0)
      BY <1>0, <2>1 DEF OutboundInv, BeforeCall
    <2>5. (ops[k].state = "absent" => session = "deleted")
          /\ \A c \in Clients : ~Starting(c, k)
      BY <2>1 DEF OutboundInv
    <2>6. \A j \in Keys, c \in Clients : Starting(c, j)' <=> Starting(c, j)
      BY <2>2 DEF Starting
    <2>7. ASSUME NEW j \in Keys
          PROVE  /\ outbound'[j] <= 1
                 /\ task'[j] \in BeforeCall => outbound'[j] = 0
                 /\ ops'[j].state = "absent" /\ session' # "deleted" =>
                       task'[j] = "none" /\ outbound'[j] = 0
                       /\ \A c \in Clients : ~Starting(c, j)'
                 /\ \A c \in Clients : Starting(c, j)' =>
                       /\ task'[j] = "none" /\ outbound'[j] = 0
                       /\ \A d \in Clients : Starting(d, j)' => d = c
      BY <1>1, <2>3, <2>4, <2>5, <2>6 DEF OutboundInv
    <2> QED BY <2>7 DEF OutboundInv
  <1>4. ASSUME NEW c \in Clients,
               RequestPreview(c) \/ RequestTurn(c) \/ RequestCancel(c) \/ HandlerStep(c)
        PROVE  OutboundInv'
    <2>1. PICK r \in Requests :
            /\ client' = [client EXCEPT ![c] = r]
            /\ r.pc = "register" =>
                 /\ client[c].pc = "create" /\ r.key = client[c].key
                 /\ TurnAdmissible(r.key, client[c].content)
                 /\ ops'[r.key].state = "queued"
            /\ \/ UNCHANGED <<registry, task>>
               \/ /\ client[c].pc = "register" /\ r.pc = "idle"
                  /\ task' = [task EXCEPT ![client[c].key] = "begin"]
               \/ r.pc = "idle" /\ UNCHANGED task
      BY <1>4, HandlerFrame
    <2>2. UNCHANGED outbound
      BY <1>4, HandlerFrame
    <2>3. /\ client'[c] = r
          /\ \A d \in Clients : d # c => client'[d] = client[d]
      BY <1>0, <2>1
    <2>4. CASE r.pc = "register"
      <3>1. r.key \in Keys
        BY <2>4 DEF Requests, NoRequest
      <3>2. /\ ops[r.key].state = "absent" /\ session # "deleted"
            /\ task[r.key] = "none" /\ outbound[r.key] = 0
            /\ \A d \in Clients : ~Starting(d, r.key)
        BY <2>1, <2>4, <3>1 DEF TurnAdmissible, OutboundInv
      <3>3. UNCHANGED task
        BY <2>1, <2>4
      <3>4. \A d \in Clients, k \in Keys :
              Starting(d, k)' <=> IF d = c THEN k = r.key ELSE Starting(d, k)
        <4>1. ASSUME NEW k \in Keys PROVE Starting(c, k)' <=> k = r.key
          BY <2>3, <2>4 DEF Starting
        <4>2. ASSUME NEW k \in Keys, NEW d \in Clients, d # c
              PROVE  Starting(d, k)' <=> Starting(d, k)
          BY <2>3, <4>2 DEF Starting
        <4> QED BY <4>1, <4>2
      <3> QED BY <1>1, <2>1, <2>2, <2>4, <3>2, <3>3, <3>4 DEF OutboundInv
    <2>5. CASE r.pc # "register"
      <3>1. \A d \in Clients, k \in Keys : Starting(d, k)' => d # c /\ Starting(d, k)
        BY <2>3, <2>5 DEF Starting
      <3>2. CASE UNCHANGED task
        BY <1>1, <2>2, <3>1, <3>2 DEF OutboundInv
      <3>3. CASE client[c].pc = "register" /\ task' = [task EXCEPT ![client[c].key] = "begin"]
        <4> DEFINE k == client[c].key
        <4>1. k \in Keys /\ Starting(c, k)
          BY <3>3, RequestKey DEF Starting
        <4>2. /\ outbound[k] = 0
              /\ ops[k].state = "absent" => session = "deleted"
              /\ \A d \in Clients : Starting(d, k) => d = c
          BY <4>1 DEF OutboundInv
        <4>3. /\ task'[k] = "begin"
              /\ \A j \in Keys : j # k => task'[j] = task[j]
          BY <1>0, <3>3, <4>1
        <4> HIDE DEF k
        <4>4. ASSUME NEW j \in Keys
              PROVE  /\ outbound'[j] <= 1
                     /\ task'[j] \in BeforeCall => outbound'[j] = 0
                     /\ ops'[j].state = "absent" /\ session' # "deleted" =>
                           task'[j] = "none" /\ outbound'[j] = 0
                           /\ \A d \in Clients : ~Starting(d, j)'
                     /\ \A d \in Clients : Starting(d, j)' =>
                           /\ task'[j] = "none" /\ outbound'[j] = 0
                           /\ \A e \in Clients : Starting(e, j)' => e = d
          BY <1>1, <2>2, <3>1, <4>1, <4>2, <4>3 DEF OutboundInv
        <4> QED BY <4>4 DEF OutboundInv
      <3> QED BY <2>1, <3>2, <3>3
    <2> QED BY <2>4, <2>5
  <1>5. CASE CoreRestarts
    <2>1. /\ \A k \in Keys : task'[k] = "none" /\ outbound'[k] = outbound[k]
          /\ \A k \in Keys, c \in Clients : ~Starting(c, k)'
      BY <1>5 DEF CoreRestarts, Starting, NoRequest
    <2> QED BY <1>1, <2>1 DEF OutboundInv, BeforeCall
  <1>6. CASE DeleteSession \/ ArchiveSession \/ (\E p \in Contents : PreviewExpires(p))
             \/ UNCHANGED vars
    <2>1. UNCHANGED <<task, client, outbound>>
      BY <1>6 DEF DeleteSession, ArchiveSession, PreviewExpires, vars
    <2> QED BY <1>2, <2>1
  <1> QED BY <1>3, <1>4, <1>5, <1>6 DEF Next

\* At most one model request goes out for a key, over any number of restarts.
THEOREM CalledOnce == Spec => []OutboundOnce
  <1>1. Init => TypeOK /\ RowsInv /\ OutboundInv
    BY TypeInit DEF Init, RowsInv, OutboundInv, NoOp, Starting, NoRequest, BeforeCall
  <1>2. TypeOK /\ RowsInv /\ OutboundInv /\ [Next]_vars
          => (TypeOK /\ RowsInv /\ OutboundInv)'
    BY TypeStep, StepMoves, RowsStep, OutboundStep
  <1>3. OutboundInv => OutboundOnce
    BY DEF OutboundInv, OutboundOnce
  <1> QED BY <1>1, <1>2, <1>3, PTL DEF Spec

-----------------------------------------------------------------------------
(* Nothing is left to hang *)

Asked(k) == ops[k].cancel \/ session = "deleted"

\* Whoever finishes a cancellation acts on one that was accepted.
AskedInv ==
    /\ \A k \in Keys :
          registry[k] = "cancelled" \/ task[k] = "finishCancelled" => Asked(k)
    /\ \A c \in Clients :
          client[c].pc \in {"reread", "signal", "finish"} => Asked(client[c].key)

LEMMA AskedStep ==
  ASSUME TypeOK, RowsInv, AskedInv, [Next]_vars PROVE AskedInv'
  <1>0. /\ Moves
        /\ task \in [Keys -> TaskPcs]
        /\ registry \in [Keys -> {"none", "live", "cancelled"}]
        /\ client \in [Clients -> Requests]
    BY StepMoves DEF TypeOK
  <1>1. ASSUME NEW k \in Keys, Asked(k) PROVE Asked(k)'
    BY <1>0, <1>1, RowsStay DEF Asked
  <1>2. ASSUME NEW c \in Clients, client[c].pc \in {"reread", "signal", "finish"}
        PROVE  client[c].key \in Keys
    BY <1>2, RequestKey
  <1>3. CASE UNCHANGED <<task, client, registry>>
    <2>1. ASSUME NEW k \in Keys, registry'[k] = "cancelled" \/ task'[k] = "finishCancelled"
          PROVE  Asked(k)'
      BY <1>1, <1>3, <2>1 DEF AskedInv
    <2>2. ASSUME NEW c \in Clients, client'[c].pc \in {"reread", "signal", "finish"}
          PROVE  Asked(client[c].key)' /\ client'[c] = client[c]
      BY <1>1, <1>2, <1>3, <2>2 DEF AskedInv
    <2> QED BY <2>1, <2>2 DEF AskedInv, Asked
  <1>4. ASSUME NEW k \in Keys, TaskStep(k) \/ StorageFault(k) PROVE AskedInv'
    <2>1. PICK pc \in TaskPcs :
            /\ task' = [task EXCEPT ![k] = pc]
            /\ pc = "finishCancelled" => registry[k] = "cancelled" \/ ops[k].cancel
      BY <1>4, TaskFrame
    <2>2. UNCHANGED client /\ (registry' = registry \/ registry' = [registry EXCEPT ![k] = "none"])
      BY <1>4, TaskFrame
    <2>3. ASSUME NEW j \in Keys, registry'[j] = "cancelled" \/ task'[j] = "finishCancelled"
          PROVE  Asked(j)'
      <3>1. Asked(j)
        BY <1>0, <2>1, <2>2, <2>3 DEF AskedInv, Asked
      <3> QED BY <1>1, <3>1
    <2>4. ASSUME NEW c \in Clients, client'[c].pc \in {"reread", "signal", "finish"}
          PROVE  Asked(client[c].key)' /\ client'[c] = client[c]
      BY <1>1, <1>2, <2>2, <2>4 DEF AskedInv
    <2> QED BY <2>3, <2>4 DEF AskedInv, Asked
  <1>5. ASSUME NEW c \in Clients,
               RequestPreview(c) \/ RequestTurn(c) \/ RequestCancel(c) \/ HandlerStep(c)
        PROVE  AskedInv'
    <2>1. PICK r \in Requests :
            /\ client' = [client EXCEPT ![c] = r]
            /\ r.pc = "reread" => ops'[r.key].cancel
            /\ r.pc = "signal" => \/ ops'[r.key].cancel
                                  \/ client[c].pc = "reread" /\ r.key = client[c].key
            /\ r.pc = "finish" => client[c].pc = "signal" /\ r.key = client[c].key
            /\ \/ UNCHANGED <<registry, task>>
               \/ /\ client[c].pc = "register" /\ r.pc = "idle"
                  /\ registry' = [registry EXCEPT ![client[c].key] = "live"]
                  /\ task' = [task EXCEPT ![client[c].key] = "begin"]
               \/ /\ client[c].pc = "signal" /\ r.pc = "idle"
                  /\ registry' = [registry EXCEPT ![client[c].key] = "cancelled"]
                  /\ UNCHANGED task
      BY <1>5, HandlerFrame
    <2>2. /\ client'[c] = r
          /\ \A d \in Clients : d # c => client'[d] = client[d]
      BY <1>0, <2>1
    <2>3. ASSUME NEW j \in Keys, registry'[j] = "cancelled" \/ task'[j] = "finishCancelled"
          PROVE  Asked(j)'
      <3>1. Asked(j)
        BY <1>0, <2>1, <2>3 DEF AskedInv
      <3> QED BY <1>1, <3>1
    <2>4. ASSUME NEW d \in Clients, client'[d].pc \in {"reread", "signal", "finish"}
          PROVE  ops'[client'[d].key].cancel \/ session' = "deleted"
      <3>1. CASE d # c
        <4>1. client'[d] = client[d]
          BY <2>2, <3>1
        <4>2. Asked(client[d].key)'
          BY <1>1, <1>2, <2>4, <4>1 DEF AskedInv
        <4> QED BY <4>1, <4>2 DEF Asked
      <3>2. CASE d = c
        <4>1. CASE ops'[r.key].cancel
          BY <2>2, <3>2, <4>1
        <4>2. CASE ~ops'[r.key].cancel
          <5>1. client[c].pc \in {"reread", "signal"} /\ r.key = client[c].key
            BY <2>1, <2>2, <2>4, <3>2, <4>2
          <5>2. r.key \in Keys /\ Asked(r.key)
            BY <1>2, <5>1 DEF AskedInv
          <5>3. Asked(r.key)'
            BY <1>1, <5>2
          <5> QED BY <2>2, <3>2, <5>3 DEF Asked
        <4> QED BY <4>1, <4>2
      <3> QED BY <3>1, <3>2
    <2> QED BY <2>3, <2>4 DEF AskedInv, Asked
  <1>6. CASE CoreRestarts
    BY <1>6 DEF CoreRestarts, AskedInv, NoRequest
  <1>7. CASE DeleteSession \/ ArchiveSession \/ (\E p \in Contents : PreviewExpires(p))
             \/ UNCHANGED vars
    <2>1. UNCHANGED <<task, client, registry>>
      BY <1>7 DEF DeleteSession, ArchiveSession, PreviewExpires, vars
    <2> QED BY <1>3, <2>1
  <1> QED BY <1>4, <1>5, <1>6, <1>7 DEF Next

OwnedInv ==
    faults = 0 =>
        \A k \in Keys :
            /\ ops[k].state \in Failable =>
                  task[k] # "none" \/ \E c \in Clients : Starting(c, k)
            /\ task[k] \in {"remove", "completeReread"} => ops[k].state \notin Failable

\* Without a fault a task leaves no row behind that it could still fail.
LEMMA TaskKeepsOwned ==
  ASSUME TypeOK, OwnedInv, faults = 0, NEW k \in Keys, TaskStep(k)
  PROVE  /\ ops'[k].state \in Failable => task'[k] \notin {"none", "remove", "completeReread"}
         /\ \A j \in Keys : j # k => ops'[j] = ops[j] /\ task'[j] = task[j]
  <1> DEFINE Kept ==
         /\ ops'[k].state \in Failable => task'[k] \notin {"none", "remove", "completeReread"}
         /\ \A j \in Keys : j # k => ops'[j] = ops[j] /\ task'[j] = task[j]
  <1>0. OpsType /\ task \in [Keys -> TaskPcs]
        /\ (task[k] \in {"remove", "completeReread"} => ops[k].state \notin Failable)
    BY DEF TypeOK, OpsType, OwnedInv
  <1> USE DEF Goto, tables, Failable
  <1>1. CASE LookAtChannel(k)
    BY <1>0, <1>1 DEF LookAtChannel
  <1>2. CASE Start(k)
    BY <1>0, <1>2 DEF Start, Transition, OpsType
  <1>3. CASE ReadBack(k)
    BY <1>0, <1>3 DEF ReadBack
  <1>4. CASE ReadCancel(k)
    BY <1>0, <1>4 DEF ReadCancel
  <1>5. CASE BuildContext(k) \/ CallModel(k) \/ AwaitModel(k)
    BY <1>0, <1>5 DEF BuildContext, CallModel, AwaitModel
  <1>6. CASE Complete(k)
    BY <1>0, <1>6 DEF Complete, OpsType
  <1>7. CASE FailRead(k)
    BY <1>0, <1>7 DEF FailRead
  <1>8. CASE FailWrite(k)
    BY <1>0, <1>8 DEF FailWrite, Transition, OpsType
  <1>9. CASE EndCancelled(k)
    BY <1>0, <1>9 DEF EndCancelled, FinishCancelled, Transition, OpsType, Terminal
  <1>10. CASE RemoveRuntime(k)
    BY <1>0, <1>10 DEF RemoveRuntime
  <1> QED BY <1>1, <1>2, <1>3, <1>4, <1>5, <1>6, <1>7, <1>8, <1>9, <1>10 DEF TaskStep

\* A request that opens an operation goes on to spawn its task.
LEMMA HandlerKeepsOwned ==
  ASSUME TypeOK, NEW c \in Clients,
         RequestPreview(c) \/ RequestTurn(c) \/ RequestCancel(c) \/ HandlerStep(c)
  PROVE  /\ \A j \in Keys : ops'[j].state \in Failable =>
               ops[j].state \in Failable \/ Starting(c, j)'
         /\ client[c].pc = "register" => RegisterOperation(c)
         /\ \A d \in Clients : d # c => client'[d] = client[d]
         /\ \A j \in Keys : task'[j] = task[j] \/ task'[j] = "begin"
         /\ UNCHANGED faults
  <1>0. OpsType /\ client \in [Clients -> Requests] /\ task \in [Keys -> TaskPcs]
    BY DEF TypeOK, OpsType
  <1>1. UNCHANGED faults /\ (client[c].pc = "register" => RegisterOperation(c))
    BY DEF RequestPreview, RequestTurn, RequestCancel, HandlerStep, SavePreview,
           CreateOperation, RegisterOperation, RereadOperation, SignalTask,
           FinishUnregistered, Request
  <1>2. /\ \A d \in Clients : d # c => client'[d] = client[d]
        /\ \A j \in Keys : task'[j] = task[j] \/ task'[j] = "begin"
    BY <1>0, HandlerFrame
  <1>3. ASSUME NEW j \in Keys, ops'[j].state \in Failable, ops[j].state \notin Failable
        PROVE  Starting(c, j)'
    <2>1. CASE CreateOperation(c)
      <3>1. CASE TurnAdmissible(client[c].key, client[c].content)
        <4>1. client[c].key \in Keys
              /\ client[c] \in [pc : {"create", "register", "reread", "signal", "finish"},
                                key : Keys, content : Contents \cup {NoContent}]
          BY <1>0, <2>1 DEF CreateOperation, Requests, NoRequest
        <4>2. j = client[c].key
          BY <1>0, <1>3, <2>1, <3>1, <4>1 DEF CreateOperation, OpsType
        <4>3. client' = [client EXCEPT ![c] = [client[c] EXCEPT !.pc = "register"]]
          BY <2>1, <3>1 DEF CreateOperation, Proceed
        <4>4. client'[c] = [client[c] EXCEPT !.pc = "register"]
          BY <1>0, <4>3
        <4> QED BY <4>1, <4>2, <4>4 DEF Starting
      <3>2. CASE ~TurnAdmissible(client[c].key, client[c].content)
        BY <1>3, <2>1, <3>2 DEF CreateOperation, tables
      <3> QED BY <3>1, <3>2
    <2>2. CASE RequestCancel(c)
      BY <1>0, <1>3, <2>2 DEF RequestCancel, OpsType, tables, Failable
    <2>3. CASE FinishUnregistered(c)
      <3>1. client[c].key \in Keys
        BY <2>3, RequestKey DEF FinishUnregistered
      <3> QED BY <1>0, <1>3, <2>3, <3>1
              DEF FinishUnregistered, FinishCancelled, Transition, OpsType, tables, Failable
    <2>4. CASE RequestPreview(c) \/ RequestTurn(c) \/ SavePreview(c) \/ RegisterOperation(c)
               \/ RereadOperation(c) \/ SignalTask(c)
      BY <1>3, <2>4 DEF RequestPreview, RequestTurn, SavePreview, RegisterOperation,
                        RereadOperation, SignalTask, tables
    <2> QED BY <2>1, <2>2, <2>3, <2>4 DEF HandlerStep
  <1> QED BY <1>1, <1>2, <1>3

LEMMA OwnedStep ==
  ASSUME TypeOK, OwnedInv, OutboundInv', [Next]_vars PROVE OwnedInv'
  <1> SUFFICES ASSUME faults' = 0, NEW j \in Keys
               PROVE  /\ ops'[j].state \in Failable =>
                            task'[j] # "none" \/ \E c \in Clients : Starting(c, j)'
                      /\ task'[j] \in {"remove", "completeReread"} =>
                            ops'[j].state \notin Failable
    BY DEF OwnedInv
  <1>0. OpsType /\ task \in [Keys -> TaskPcs] /\ client \in [Clients -> Requests]
        /\ faults \in Nat
    BY DEF TypeOK, OpsType
  <1>1. CASE UNCHANGED <<ops, task, client, faults>>
    BY <1>1 DEF OwnedInv, Starting
  <1>2. ASSUME NEW k \in Keys, TaskStep(k)
        PROVE  /\ ops'[j].state \in Failable =>
                     task'[j] # "none" \/ \E c \in Clients : Starting(c, j)'
               /\ task'[j] \in {"remove", "completeReread"} => ops'[j].state \notin Failable
    <2>1. UNCHANGED <<faults, client>>
      BY <1>2 DEF TaskStep, LookAtChannel, Start, ReadBack, ReadCancel, BuildContext,
                  CallModel, AwaitModel, Complete, FailRead, FailWrite, EndCancelled,
                  RemoveRuntime, UnchangedByTask
    <2>2. /\ ops'[k].state \in Failable => task'[k] \notin {"none", "remove", "completeReread"}
          /\ j # k => ops'[j] = ops[j] /\ task'[j] = task[j]
      BY <1>2, <2>1, TaskKeepsOwned
    <2> QED BY <2>1, <2>2 DEF OwnedInv, Starting
  <1>3. ASSUME NEW k \in Keys, StorageFault(k) PROVE FALSE
    BY <1>0, <1>3 DEF StorageFault
  <1>4. ASSUME NEW c \in Clients,
               RequestPreview(c) \/ RequestTurn(c) \/ RequestCancel(c) \/ HandlerStep(c)
        PROVE  /\ ops'[j].state \in Failable =>
                     task'[j] # "none" \/ \E d \in Clients : Starting(d, j)'
               /\ task'[j] \in {"remove", "completeReread"} => ops'[j].state \notin Failable
    <2>1. /\ ops'[j].state \in Failable => ops[j].state \in Failable \/ Starting(c, j)'
          /\ client[c].pc = "register" => RegisterOperation(c)
          /\ \A d \in Clients : d # c => client'[d] = client[d]
          /\ task'[j] = task[j] \/ task'[j] = "begin"
          /\ UNCHANGED faults
      BY <1>4, HandlerKeepsOwned
    <2>2. Starting(c, j) => task'[j] = "begin"
      BY <1>0, <2>1 DEF Starting, RegisterOperation
    <2>3. \A d \in Clients : d # c => (Starting(d, j)' <=> Starting(d, j))
      BY <2>1 DEF Starting
    <2>4. Starting(c, j)' => task'[j] = "none"
      BY DEF OutboundInv
    <2> QED BY <2>1, <2>2, <2>3, <2>4 DEF OwnedInv
  <1>5. CASE CoreRestarts
    BY <1>0, <1>5 DEF CoreRestarts, OpsType, OpStates, Abandoned, Terminal, Failable
  <1>6. CASE DeleteSession
    BY <1>6 DEF DeleteSession, NoOp, Failable
  <1>7. CASE ArchiveSession \/ (\E p \in Contents : PreviewExpires(p)) \/ UNCHANGED vars
    <2>1. UNCHANGED <<ops, task, client, faults>>
      BY <1>7 DEF ArchiveSession, PreviewExpires, vars
    <2> QED BY <1>1, <2>1
  <1> QED BY <1>2, <1>3, <1>4, <1>5, <1>6, <1>7 DEF Next

\* While no storage call has failed, an operation that is queued or streaming
\* has a task or a request about to spawn it.
THEOREM OpenIsOwned == Spec => []OpenOperationIsOwned
  <1> DEFINE Inv == TypeOK /\ RowsInv /\ OutboundInv /\ OwnedInv
  <1>1. Init => Inv
    BY TypeInit DEF Init, RowsInv, OutboundInv, OwnedInv, NoOp, Starting, NoRequest,
                    BeforeCall, Failable
  <1>2. Inv /\ [Next]_vars => Inv'
    BY TypeStep, StepMoves, RowsStep, OutboundStep, OwnedStep
  <1>3. Inv => OpenOperationIsOwned
    BY DEF OwnedInv, OpenOperationIsOwned, Failable, Starting
  <1> QED BY <1>1, <1>2, <1>3, PTL DEF Spec

-----------------------------------------------------------------------------
(* Previews *)

\* A turn that took a preview is named in its row.
PreviewInv ==
    \A k \in Keys : ops[k].preview # NoContent =>
        /\ previews[ops[k].preview].usedBy = k
        /\ previews[ops[k].preview].state # "absent"

LEMMA PreviewStep ==
  ASSUME TypeOK, PreviewInv, [Next]_vars PROVE PreviewInv'
  <1>0. OpsType
        /\ previews \in [Contents -> [state : {"absent", "fresh", "expired"},
                                      usedBy : Keys \cup {NoKey}]]
    BY DEF TypeOK, OpsType
  <1>1. CASE UNCHANGED previews /\ \A k \in Keys : ops'[k].preview = ops[k].preview
    BY <1>1 DEF PreviewInv
  <1>2. ASSUME NEW c \in Clients, SavePreview(c) PROVE PreviewInv'
    <2>1. client[c].content \in Contents
      BY <1>2, RequestKey DEF SavePreview
    <2>2. UNCHANGED ops
      BY <1>2 DEF SavePreview
    <2>3. CASE UNCHANGED previews
      BY <1>1, <2>2, <2>3
    <2>4. CASE /\ previews[client[c].content].state = "absent"
               /\ previews' = [previews EXCEPT ![client[c].content] =
                                  [NoPreview EXCEPT !.state = "fresh"]]
      <3>1. ASSUME NEW k \in Keys, ops[k].preview # NoContent
            PROVE  /\ ops[k].preview # client[c].content
                   /\ ops[k].preview \in Contents
        BY <1>0, <2>4, <3>1 DEF PreviewInv, OpsType
      <3> QED BY <1>0, <2>1, <2>2, <2>4, <3>1 DEF PreviewInv
    <2> QED BY <1>2, <2>3, <2>4 DEF SavePreview
  <1>3. ASSUME NEW c \in Clients, CreateOperation(c) PROVE PreviewInv'
    <2> DEFINE k == client[c].key
               p == client[c].content
    <2>1. k \in Keys /\ p \in Contents \cup {NoContent}
      BY <1>3, RequestKey DEF CreateOperation
    <2>2. CASE TurnAdmissible(k, p)
      <3>1. /\ ops' = [ops EXCEPT ![k] = [state |-> "queued", cancel |-> FALSE, preview |-> p]]
            /\ previews' = [q \in Contents |->
                   IF q = p THEN [previews[q] EXCEPT !.usedBy = k] ELSE previews[q]]
        BY <1>3, <2>2 DEF CreateOperation
      <3>2. p # NoContent => previews[p].state = "fresh" /\ previews[p].usedBy = NoKey
        BY <2>2 DEF TurnAdmissible, PreviewUsable
      <3> HIDE DEF k, p
      <3>3. ops'[k].preview = p /\ \A j \in Keys : j # k => ops'[j] = ops[j]
        BY <1>0, <2>1, <3>1 DEF OpsType
      <3>4. p # NoContent => previews'[p].usedBy = k /\ previews'[p].state # "absent"
        <4>1. CASE p \in Contents
          <5>1. previews[p] \in [state : {"absent", "fresh", "expired"},
                                 usedBy : Keys \cup {NoKey}]
            BY <1>0, <4>1
          <5>2. previews'[p] = [previews[p] EXCEPT !.usedBy = k]
            BY <3>1, <4>1
          <5> QED BY <3>2, <5>1, <5>2
        <4> QED BY <2>1, <4>1
      <3>5. ASSUME NEW j \in Keys, j # k, ops[j].preview # NoContent
            PROVE  /\ ops[j].preview # p /\ ops[j].preview \in Contents
                   /\ previews'[ops[j].preview] = previews[ops[j].preview]
        <4>1. ops[j].preview \in Contents
          BY <1>0, <3>5 DEF OpsType
        <4>2. ops[j].preview # p
          BY <3>2, <3>5, NamesAssumption DEF PreviewInv
        <4> QED BY <3>1, <4>1, <4>2
      <3> QED BY <3>3, <3>4, <3>5 DEF PreviewInv
    <2>3. CASE ~TurnAdmissible(k, p)
      BY <1>1, <1>3, <2>3 DEF CreateOperation, tables
    <2> QED BY <2>2, <2>3
  <1>4. ASSUME NEW p \in Contents, PreviewExpires(p) PROVE PreviewInv'
    BY <1>0, <1>4 DEF PreviewExpires, PreviewInv, OpsType
  <1>5. CASE DeleteSession
    BY <1>5 DEF DeleteSession, PreviewInv, NoOp
  <1>6. CASE CoreRestarts
    <2>1. \A k \in Keys : ops'[k].preview = ops[k].preview
      BY <1>0, <1>6 DEF CoreRestarts, OpsType
    <2> QED BY <1>1, <1>6, <2>1 DEF CoreRestarts
  <1>7. ASSUME NEW k \in Keys, TaskStep(k) \/ StorageFault(k) PROVE PreviewInv'
    <2>1. UNCHANGED previews
      BY <1>7 DEF TaskStep, LookAtChannel, Start, ReadBack, ReadCancel, BuildContext,
                  CallModel, AwaitModel, Complete, FailRead, FailWrite, EndCancelled,
                  RemoveRuntime, StorageFault, FinishCancelled, Transition, tables
    <2>2. \/ UNCHANGED ops
          \/ \E to \in OpStates : ops' = [ops EXCEPT ![k].state = to]
      BY <1>7 DEF TaskStep, LookAtChannel, Start, ReadBack, ReadCancel, BuildContext,
                  CallModel, AwaitModel, Complete, FailRead, FailWrite, EndCancelled,
                  RemoveRuntime, StorageFault, FinishCancelled, Transition, tables,
                  OpStates, Terminal
    <2>3. \A j \in Keys : ops'[j].preview = ops[j].preview
      BY <1>0, <2>2 DEF OpsType
    <2> QED BY <1>1, <2>1, <2>3
  <1>8. ASSUME NEW c \in Clients,
               \/ RequestPreview(c) \/ RequestTurn(c) \/ RegisterOperation(c)
               \/ RereadOperation(c) \/ SignalTask(c)
        PROVE PreviewInv'
    <2>1. UNCHANGED <<ops, previews>>
      BY <1>8 DEF RequestPreview, RequestTurn, RegisterOperation, RereadOperation,
                  SignalTask, tables
    <2> QED BY <1>1, <2>1
  <1>9. ASSUME NEW c \in Clients, RequestCancel(c) PROVE PreviewInv'
    <2>1. UNCHANGED previews
      BY <1>9 DEF RequestCancel, tables
    <2>2. \A j \in Keys : ops'[j].preview = ops[j].preview
      BY <1>0, <1>9 DEF RequestCancel, tables, OpsType
    <2> QED BY <1>1, <2>1, <2>2
  <1>10. ASSUME NEW c \in Clients, FinishUnregistered(c) PROVE PreviewInv'
    <2>1. UNCHANGED previews
      BY <1>10 DEF FinishUnregistered, FinishCancelled, Transition, tables
    <2>2. \A j \in Keys : ops'[j].preview = ops[j].preview
      BY <1>0, <1>10 DEF FinishUnregistered, FinishCancelled, Transition, tables, OpsType
    <2> QED BY <1>1, <2>1, <2>2
  <1>11. CASE ArchiveSession \/ UNCHANGED vars
    BY <1>1, <1>11 DEF ArchiveSession, vars
  <1> QED BY <1>2, <1>3, <1>4, <1>5, <1>6, <1>7, <1>8, <1>9, <1>10, <1>11
          DEF Next, HandlerStep

\* No preview goes out with two turns.
THEOREM PreviewsTakenOnce == Spec => []PreviewsUsedOnce
  <1>1. Init => TypeOK /\ PreviewInv
    BY TypeInit DEF Init, PreviewInv, NoOp
  <1>2. TypeOK /\ PreviewInv /\ [Next]_vars => (TypeOK /\ PreviewInv)'
    BY TypeStep, PreviewStep
  <1>3. PreviewInv => PreviewsUsedOnce
    BY DEF PreviewInv, PreviewsUsedOnce
  <1> QED BY <1>1, <1>2, <1>3, PTL DEF Spec

-----------------------------------------------------------------------------
(* The session holds the answers of its completed operations, and its turns *)
(* implement OperationLifecycle.                                            *)

Question(k) == [role |-> "user", key |-> k]
Reply(k) == [role |-> "assistant", key |-> k]
Answered(k) == \E i \in 1..Len(messages) : messages[i] = Reply(k)

-----------------------------------------------------------------------------
(* Answers *)

AnswersInv ==
    \A k \in Keys :
        /\ ops[k].state = "completed" <=> Answered(k)
        /\ \A i, j \in 1..Len(messages) :
              messages[i] = Reply(k) /\ messages[j] = Reply(k) => i = j
        /\ \A i \in 1..Len(messages) : messages[i] = Reply(k) =>
              \E j \in 1..(i - 1) : messages[j] = Question(k)
        /\ ops[k].state # "absent" =>
              \E j \in 1..Len(messages) : messages[j] = Question(k)

\* One message more, at the end.
LEMMA OneMore ==
  ASSUME TypeOK, NEW x \in [role : {"user", "assistant"}, key : Keys],
         messages' = Append(messages, x)
  PROVE  /\ Len(messages) \in Nat
         /\ Len(messages') = Len(messages) + 1
         /\ \A i \in 1..Len(messages) : messages'[i] = messages[i]
         /\ messages'[Len(messages) + 1] = x
  BY AppendProperties DEF TypeOK

LEMMA AnswersStep ==
  ASSUME TypeOK, AnswersInv, Moves PROVE AnswersInv'
  <1> DEFINE Good(k) ==
        /\ ops[k].state = "completed" <=> Answered(k)
        /\ \A i, j \in 1..Len(messages) :
              messages[i] = Reply(k) /\ messages[j] = Reply(k) => i = j
        /\ \A i \in 1..Len(messages) : messages[i] = Reply(k) =>
              \E j \in 1..(i - 1) : messages[j] = Question(k)
        /\ ops[k].state # "absent" =>
              \E j \in 1..Len(messages) : messages[j] = Question(k)
  <1> SUFFICES ASSUME NEW k \in Keys PROVE Good(k)'
    BY DEF AnswersInv
  <1>0. OpsType /\ Good(k)
    BY DEF TypeOK, OpsType, AnswersInv
  <1>1. ASSUME UNCHANGED messages,
               ops'[k].state = "completed" <=> ops[k].state = "completed",
               ops'[k].state # "absent" => ops[k].state # "absent"
        PROVE  Good(k)'
    BY <1>0, <1>1 DEF Answered
  <1>2. CASE Stays
    BY <1>1, <1>2 DEF Stays
  <1>3. ASSUME NEW j \in Keys, RowMoves(j) PROVE Good(k)'
    <2>1. CASE Opens(j)
      <3>1. /\ Len(messages) \in Nat
            /\ Len(messages') = Len(messages) + 1
            /\ \A i \in 1..Len(messages) : messages'[i] = messages[i]
            /\ messages'[Len(messages) + 1] = Question(j)
        BY <2>1, OneMore DEF Opens, Question
      <3>2. /\ j # k => ops'[k] = ops[k]
            /\ ops'[k].state = "completed" <=> ops[k].state = "completed"
        BY <1>0, <2>1 DEF Opens, OpsType
      <3>3. Question(j) # Reply(k)
        BY DEF Question, Reply
      <3>4. \A i \in 1..Len(messages') : messages'[i] = Reply(k) =>
              i \in 1..Len(messages) /\ messages[i] = Reply(k)
        BY <3>1, <3>3
      <3>5. Answered(k)' <=> Answered(k)
        BY <3>1, <3>4 DEF Answered
      <3>6. ASSUME NEW i \in 1..Len(messages'), messages'[i] = Reply(k)
            PROVE  \E h \in 1..(i - 1) : messages'[h] = Question(k)
        <4>1. PICK h \in 1..(i - 1) : messages[h] = Question(k)
          BY <1>0, <3>4, <3>6
        <4>2. messages'[h] = Question(k)
          BY <3>1, <3>4, <3>6, <4>1
        <4> QED BY <4>2
      <3>7. ops'[k].state # "absent" =>
              \E h \in 1..Len(messages') : messages'[h] = Question(k)
        BY <1>0, <3>1, <3>2
      <3> QED BY <1>0, <3>2, <3>4, <3>5, <3>6, <3>7
    <2>2. CASE AsksCancel(j)
      BY <1>0, <1>1, <2>2 DEF AsksCancel, OpsType, Terminal
    <2>3. ASSUME NEW to \in {"streaming", "failed", "cancelled"}, Changes(j, to)
          PROVE  Good(k)'
      BY <1>0, <1>1, <2>3 DEF Changes, Transition, OpsType, Terminal, Failable
    <2>4. CASE Answers(j)
      <3>1. /\ Len(messages) \in Nat
            /\ Len(messages') = Len(messages) + 1
            /\ \A i \in 1..Len(messages) : messages'[i] = messages[i]
            /\ messages'[Len(messages) + 1] = Reply(j)
        BY <2>4, OneMore DEF Answers, Reply
      <3>2. /\ j # k => ops'[k] = ops[k]
            /\ ops[j].state = "streaming" /\ ops'[j].state = "completed"
        BY <1>0, <2>4 DEF Answers, Completable, OpsType
      <3>3. j # k => Reply(j) # Reply(k)
        BY DEF Reply
      <3>4. CASE j = k
        <4>1. \A i \in 1..Len(messages) : messages'[i] # Reply(k)
          BY <1>0, <3>1, <3>2, <3>4 DEF Answered
        <4>2. \A i \in 1..Len(messages') : messages'[i] = Reply(k) <=> i = Len(messages')
          BY <3>1, <3>4, <4>1
        <4>3. PICK h \in 1..Len(messages) : messages[h] = Question(k)
          BY <1>0, <3>2, <3>4
        <4>4. h \in 1..(Len(messages') - 1) /\ messages'[h] = Question(k)
              /\ h \in 1..Len(messages')
          BY <3>1, <4>3
        <4>5. Len(messages') \in 1..Len(messages')
          BY <3>1
        <4>6. Answered(k)'
          BY <4>2, <4>5 DEF Answered
        <4> QED BY <3>2, <3>4, <4>2, <4>4, <4>6
      <3>5. CASE j # k
        <4>1. Reply(j) # Question(k)
          BY DEF Question, Reply
        <4>2. \A i \in 1..Len(messages') : messages'[i] = Reply(k) =>
                i \in 1..Len(messages) /\ messages[i] = Reply(k)
          BY <3>1, <3>3, <3>5
        <4>3. Answered(k)' <=> Answered(k)
          BY <3>1, <4>2 DEF Answered
        <4>4. ASSUME NEW i \in 1..Len(messages'), messages'[i] = Reply(k)
              PROVE  \E h \in 1..(i - 1) : messages'[h] = Question(k)
          <5>1. PICK h \in 1..(i - 1) : messages[h] = Question(k)
            BY <1>0, <4>2, <4>4
          <5>2. messages'[h] = Question(k)
            BY <3>1, <4>2, <4>4, <5>1
          <5> QED BY <5>2
        <4>5. ops'[k].state # "absent" =>
                \E h \in 1..Len(messages') : messages'[h] = Question(k)
          BY <1>0, <3>1, <3>2, <3>5
        <4> QED BY <1>0, <3>2, <3>5, <4>2, <4>3, <4>4, <4>5
      <3> QED BY <3>4, <3>5
    <2> QED BY <1>3, <2>1, <2>2, <2>3, <2>4 DEF RowMoves
  <1>4. CASE DeleteSession
    <2>1. Len(messages') = 0 /\ ops'[k].state = "absent"
      BY <1>4 DEF DeleteSession, NoOp
    <2> QED BY <2>1 DEF Answered
  <1>5. CASE CoreRestarts
    BY <1>0, <1>1, <1>5 DEF CoreRestarts, OpsType, OpStates, Abandoned, Terminal
  <1> QED BY <1>2, <1>3, <1>4, <1>5 DEF Moves

LEMMA AnswersInit == Init => AnswersInv
  <1> SUFFICES ASSUME Init PROVE AnswersInv
    OBVIOUS
  <1>1. Len(messages) = 0 /\ \A k \in Keys : ops[k].state = "absent"
    BY DEF Init, NoOp
  <1>2. 1..Len(messages) = {}
    BY <1>1
  <1>3. \A k \in Keys : ~Answered(k)
    BY <1>2 DEF Answered
  <1> QED BY <1>1, <1>2, <1>3 DEF AnswersInv

\* The session holds the answer of exactly the completed operations, once, and
\* after the question.
THEOREM AnswersMatch == Spec => []AnswersAreOfCompleted
  <1>1. Init => TypeOK /\ AnswersInv
    BY TypeInit, AnswersInit
  <1>2. TypeOK /\ AnswersInv /\ [Next]_vars => (TypeOK /\ AnswersInv)'
    BY TypeStep, StepMoves, AnswersStep
  <1>3. AnswersInv => AnswersAreOfCompleted
    <2>1. SUFFICES ASSUME AnswersInv, NEW k \in Keys
                   PROVE  LET answers == {i \in 1..Len(messages) : messages[i] = Reply(k)}
                          IN  /\ ops[k].state = "completed" <=> answers # {}
                              /\ \A i, j \in answers : i = j
                              /\ \A i \in answers : \E j \in 1..(i - 1) : messages[j] = Question(k)
      BY DEF AnswersAreOfCompleted, Reply, Question
    <2>2. ops[k].state = "completed" <=> \E i \in 1..Len(messages) : messages[i] = Reply(k)
      BY <2>1 DEF AnswersInv, Answered
    <2> QED BY <2>1, <2>2 DEF AnswersInv
  <1> QED BY <1>1, <1>2, <1>3, PTL DEF Spec

-----------------------------------------------------------------------------
(* Refinement *)

phases == [k \in Keys |-> phaseOf(ops[k])]
answers == [k \in Keys |-> \E i \in 1..Len(messages) :
                messages[i] = [role |-> "assistant", key |-> k]]

LEMMA InitRefines == Init => Abstract!OpInit
  BY DEF Init, NoOp, phaseOf, Abstract!OpInit

\* Only a restart is counted.
LEMMA RestartsCounted == [Next]_vars => CoreRestarts \/ UNCHANGED crashes
  BY DEF Next, vars, RequestPreview, RequestTurn, RequestCancel, HandlerStep, SavePreview,
     CreateOperation, RegisterOperation, RereadOperation, SignalTask, FinishUnregistered,
     TaskStep, LookAtChannel, Start, ReadBack, ReadCancel, BuildContext, CallModel,
     AwaitModel, Complete, FailRead, FailWrite, EndCancelled, RemoveRuntime,
     UnchangedByTask, StorageFault, PreviewExpires, ArchiveSession, DeleteSession

LEMMA RestartRefines ==
  ASSUME TypeOK, AnswersInv, AnswersInv', CoreRestarts
  PROVE  Abstract!Abandon
  <1>0. OpsType
    BY DEF TypeOK, OpsType
  <1>1. ASSUME NEW k \in Keys
        PROVE  /\ phaseOf(ops'[k]) = IF phaseOf(ops[k]) \in {"open", "cancelling"}
                                     THEN "failed" ELSE phaseOf(ops[k])
               /\ ops'[k].state = "completed" <=> ops[k].state = "completed"
    BY <1>0 DEF CoreRestarts, phaseOf, OpsType, OpStates, Abandoned, Terminal
  <1>2. phases' = [k \in Keys |-> IF phases[k] \in {"open", "cancelling"}
                                  THEN "failed" ELSE phases[k]]
    BY <1>1 DEF phases
  <1>3. \A k \in Keys : answers'[k] = answers[k]
    BY <1>1 DEF AnswersInv, Answered, answers, Reply
  <1>4. answers' = answers
    BY <1>3 DEF answers
  <1> QED BY <1>2, <1>4 DEF Abstract!Abandon, Abstract!Open, CoreRestarts, phases, answers

LEMMA MovesRefine ==
  ASSUME TypeOK, RowsInv, AskedInv, AnswersInv, AnswersInv', Moves, UNCHANGED crashes
  PROVE  [Abstract!OpNext]_(Abstract!opVars)
  <1> DEFINE Refined == [Abstract!OpNext]_(Abstract!opVars)
  <1>0. OpsType
    BY DEF TypeOK, OpsType
  <1>a. ASSUME NEW k \in Keys
        PROVE  (answers[k] <=> ops[k].state = "completed")
               /\ (answers'[k] <=> ops'[k].state = "completed")
               /\ answers[k] \in BOOLEAN /\ answers'[k] \in BOOLEAN
    BY DEF AnswersInv, Answered, answers, Reply
  <1>b. ASSUME \A k \in Keys : phaseOf(ops'[k]) = phaseOf(ops[k]) PROVE Refined
    <2>1. phases' = phases
      BY <1>b DEF phases
    <2>2. \A k \in Keys : ops'[k].state = "completed" <=> ops[k].state = "completed"
      BY <1>0, <1>b DEF phaseOf, OpsType, OpStates, Terminal
    <2>3. answers' = answers
      BY <1>a, <2>2 DEF answers
    <2> QED BY <2>1, <2>3 DEF Abstract!opVars, phases, answers
  \* One operation moves.
  <1>c. ASSUME NEW k \in Keys, NEW from, NEW to,
               phaseOf(ops[k]) \in from, phaseOf(ops'[k]) = to, to # "completed",
               phaseOf(ops[k]) # "completed",
               \A j \in Keys : j # k => ops'[j] = ops[j]
        PROVE  Abstract!Move(k, from, to)
    <2>1. phases' = [phases EXCEPT ![k] = to] /\ phases[k] \in from
      BY <1>c DEF phases
    <2>2. \A j \in Keys : ops'[j].state = "completed" <=> ops[j].state = "completed"
      BY <1>0, <1>c DEF phaseOf
    <2>3. answers' = answers
      BY <1>a, <2>2 DEF answers
    <2> QED BY <2>1, <2>3 DEF Abstract!Move, phases, answers
  <1>1. CASE Stays
    BY <1>b, <1>1 DEF Stays
  <1>2. ASSUME NEW k \in Keys, RowMoves(k) PROVE Refined
    <2>0. \A j \in Keys : j # k => ops'[j] = ops[j]
      BY <1>0, <1>2 DEF RowMoves, Opens, AsksCancel, Changes, Answers, Transition, OpsType
    <2>1. CASE Opens(k)
      <3>1. phaseOf(ops[k]) = "absent" /\ phaseOf(ops'[k]) = "open"
        BY <1>0, <2>1 DEF Opens, phaseOf, OpsType
      <3>2. Abstract!OpenOp(k)
        BY <1>c, <2>0, <3>1 DEF Abstract!OpenOp
      <3> QED BY <3>2 DEF Abstract!OpNext
    <2>2. CASE AsksCancel(k)
      <3>1. phaseOf(ops[k]) = "open" /\ phaseOf(ops'[k]) = "cancelling"
        BY <1>0, <2>2 DEF AsksCancel, phaseOf, OpsType, OpStates, Terminal, RowsInv
      <3>2. Abstract!AskCancel(k)
        BY <1>c, <2>0, <3>1 DEF Abstract!AskCancel
      <3> QED BY <3>2 DEF Abstract!OpNext
    <2>3. CASE Changes(k, "streaming")
      <3>1. phaseOf(ops[k]) = "open" /\ phaseOf(ops'[k]) = "open"
        BY <1>0, <2>3 DEF Changes, Transition, phaseOf, OpsType
      <3> QED BY <1>b, <2>0, <3>1
    <2>4. CASE Changes(k, "failed")
      <3>1. phaseOf(ops[k]) = "open" /\ phaseOf(ops'[k]) = "failed"
        BY <1>0, <2>4 DEF Changes, Transition, phaseOf, OpsType, Failable
      <3>2. Abstract!FailOp(k)
        BY <1>c, <2>0, <3>1 DEF Abstract!FailOp
      <3> QED BY <3>2 DEF Abstract!OpNext
    <2>5. CASE Changes(k, "cancelled")
      <3>1. Finisher(k) /\ ops[k].state \notin Terminal \cup {"absent"}
            /\ ops'[k].state = "cancelled"
        BY <1>0, <2>5 DEF Changes, Transition, OpsType
      <3>2. Asked(k)
        BY <3>1 DEF Finisher, AskedInv
      <3>3. ops[k].state = "cancel_requested"
        BY <3>1, <3>2 DEF Asked, RowsInv, Terminal
      <3>4. phaseOf(ops[k]) = "cancelling" /\ phaseOf(ops'[k]) = "cancelled"
        BY <3>1, <3>3 DEF phaseOf
      <3>5. Abstract!CancelOp(k)
        BY <1>c, <2>0, <3>4 DEF Abstract!CancelOp
      <3> QED BY <3>5 DEF Abstract!OpNext
    <2>6. CASE Answers(k)
      <3>1. /\ phaseOf(ops[k]) = "open" /\ phaseOf(ops'[k]) = "completed"
            /\ ops'[k].state = "completed"
        BY <1>0, <2>6 DEF Answers, Completable, phaseOf, OpsType
      <3>2. phases' = [phases EXCEPT ![k] = "completed"] /\ phases[k] = "open"
        BY <2>0, <3>1 DEF phases
      <3>3. \A j \in Keys : answers'[j] = IF j = k THEN TRUE ELSE answers[j]
        BY <1>a, <2>0, <3>1
      <3>4. answers' = [answers EXCEPT ![k] = TRUE]
        BY <3>3 DEF answers
      <3>5. Abstract!CompleteOp(k)
        BY <3>2, <3>4 DEF Abstract!CompleteOp, phases, answers
      <3> QED BY <3>5 DEF Abstract!OpNext
    <2> QED BY <1>2, <2>1, <2>2, <2>3, <2>4, <2>5, <2>6 DEF RowMoves
  <1>3. CASE DeleteSession
    <2>1. \A k \in Keys : ops'[k].state = "absent" /\ phaseOf(ops'[k]) = "absent"
      BY <1>3 DEF DeleteSession, NoOp, phaseOf
    <2>2. phases' = [k \in Keys |-> "absent"]
      BY <2>1 DEF phases
    <2>3. answers' = [k \in Keys |-> FALSE]
      BY <1>a, <2>1 DEF answers
    <2>4. Abstract!Forget
      BY <2>2, <2>3 DEF Abstract!Forget, phases, answers
    <2> QED BY <2>4 DEF Abstract!OpNext
  <1>4. ~CoreRestarts
    BY DEF CoreRestarts, TypeOK
  <1> QED BY <1>1, <1>2, <1>3, <1>4 DEF Moves

\* The turns of a session implement the life cycle of an operation.
THEOREM TurnsRefineLifecycle == Spec => LifecycleRefined
  <1> DEFINE Inv == TypeOK /\ RowsInv /\ AskedInv /\ AnswersInv
  <1>1. Init => Inv
    BY TypeInit, AnswersInit DEF Init, RowsInv, AskedInv, NoOp, NoRequest
  <1>2. Inv /\ [Next]_vars => Inv'
    BY TypeStep, StepMoves, RowsStep, AskedStep, AnswersStep
  <1>3. Inv /\ Inv' /\ [Next]_vars => [Abstract!OpNext]_(Abstract!opVars)
    BY StepMoves, MovesRefine, RestartsCounted, RestartRefines DEF Abstract!OpNext
  <1> QED BY <1>1, <1>2, <1>3, InitRefines, PTL DEF Spec, LifecycleRefined, Abstract!OpSpec
=============================================================================
