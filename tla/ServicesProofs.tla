--------------------------- MODULE ServicesProofs ---------------------------
(***************************************************************************)
(* Theorems about the components of MCServices, for every value of their   *)
(* constants and whichever of them the initial state picks.                *)
(***************************************************************************)
EXTENDS MCServices, FiniteSetTheorems, TLAPS

-----------------------------------------------------------------------------
(* Pairing codes and tokens: the inductive invariant *)

\* No id is above those that were minted, and an answer with a token says so.
IdsInv ==
    /\ PairingTypeOK /\ losses \in Nat
    /\ \A k \in tokens : k.id <= minted
    /\ \A t \in Tabs : memory[t].id <= minted
    /\ cookie <= minted /\ tokenFile <= minted
    /\ \A x \in Clients :
          /\ exchange[x].token <= minted /\ request[x].token <= minted
          /\ exchange[x].answer.id <= minted
          /\ exchange[x].answer # NoToken =>
                exchange[x].kind = "answered" /\ exchange[x].answer.id # 0

\* A code that can still be used has led to no token, and to no revocation.
CodesInv ==
    \A who \in Audiences : codes[who] # 0 =>
        /\ who \notin revoked
        /\ \A k \in tokens : k.audience # who
        /\ \A x \in Clients : Audience(x) = who => exchange[x].answer.id = 0

\* A client knows tokens of its own audience alone.
AudienceInv ==
    /\ \A k \in tokens :
          /\ cookie = k.id \/ (\E t \in Tabs : memory[t].id = k.id) => k.audience = "web"
          /\ tokenFile = k.id => k.audience = "cli"
          /\ \A x \in Clients :
                k.id \in {exchange[x].token, exchange[x].answer.id, request[x].token} =>
                    k.audience = Audience(x)
    /\ \A x \in Clients : request[x].kind = "revoke" => x \in Tabs
    /\ \A x \in Clients : request[x].kind = "ended" => "web" \in revoked

\* A token that is on its way is known to nobody else ...
OnItsWay(x) == exchange[x].answer.id

AnswersInv ==
    \A x \in Clients : OnItsWay(x) # 0 =>
        /\ cookie # OnItsWay(x) /\ tokenFile # OnItsWay(x)
        /\ \A t \in Tabs : memory[t].id # OnItsWay(x)
        /\ \A y \in Clients :
              /\ exchange[y].token # OnItsWay(x) /\ request[y].token # OnItsWay(x)
              /\ OnItsWay(y) = OnItsWay(x) => y = x

\* ... so that, while nothing is lost, it is the live one of its pairing.
LiveInv ==
    losses = 0 =>
        \A x \in Clients : OnItsWay(x) # 0 =>
            \A k \in tokens : k.audience = Audience(x) => k.id = OnItsWay(x)

PairingInv ==
    /\ IdsInv /\ CodesInv /\ AudienceInv /\ AnswersInv /\ LiveInv
    /\ OneTokenPerPairing /\ RevokedIsFinal /\ SessionIsKept

-----------------------------------------------------------------------------
(* Every step of a pairing keeps the invariant *)

USE PairingAssumption

\* What the types say of a message and of a token.
LEMMA PairingFields ==
    ASSUME PairingTypeOK
    PROVE  /\ clock \in Nat /\ minted \in Nat /\ cookie \in Nat /\ tokenFile \in Nat
           /\ \A who \in Audiences : codes[who] \in Nat
           /\ \A k \in tokens :
                 /\ k.id \in Nat \ {0} /\ k.audience \in Audiences /\ k.expires \in Nat
                 /\ k.id \in 1..MaxTokens
           /\ \A t \in Tabs : memory[t] \in Held /\ memory[t].id \in Nat /\ memory[t].expires \in Nat
           /\ \A x \in Clients :
                 /\ exchange[x] \in Messages({"pair", "rotate", "resume"})
                 /\ request[x] \in Messages({"data", "revoke"})
                 /\ exchange[x].token \in Nat /\ request[x].token \in Nat
                 /\ exchange[x].answer \in Held /\ exchange[x].answer.id \in Nat
                 /\ exchange[x].answer.expires \in Nat
  BY DEF PairingTypeOK, Tokens, Held, Messages, Audiences

\* An id that a client of who may carry: no later than the ids that were minted, of
\* no other audience, and of no token that is still on its way.
Carried(id, who) ==
    /\ id \in 0..MaxTokens /\ id <= minted
    /\ \A k \in tokens : k.id = id => k.audience = who
    /\ \A x \in Clients : OnItsWay(x) # 0 => OnItsWay(x) # id

\* What a client holds, and what its messages carry, is such an id; so is none.
LEMMA HeldIsCarried ==
    ASSUME PairingInv
    PROVE  /\ \A who \in Audiences : Carried(0, who)
           /\ Carried(cookie, "web") /\ Carried(tokenFile, "cli")
           /\ \A t \in Tabs : Carried(memory[t].id, "web")
           /\ \A x \in Clients :
                 /\ Carried(exchange[x].token, Audience(x))
                 /\ Carried(request[x].token, Audience(x))
<1>1. PairingTypeOK /\ IdsInv /\ AudienceInv /\ AnswersInv
  BY DEF PairingInv, IdsInv
<1>2. \A who \in Audiences : Carried(0, who)
  BY <1>1, PairingFields, SMT DEF Carried, IdsInv
<1>3. /\ Carried(cookie, "web") /\ Carried(tokenFile, "cli")
      /\ \A t \in Tabs : Carried(memory[t].id, "web")
  BY <1>1, PairingFields, SMT DEF Carried, IdsInv, AudienceInv, AnswersInv, PairingTypeOK, Held
<1>4. ASSUME NEW x \in Clients
      PROVE  Carried(exchange[x].token, Audience(x)) /\ Carried(request[x].token, Audience(x))
  BY <1>1, PairingFields, SMT DEF Carried, IdsInv, AudienceInv, AnswersInv, Messages
<1>5. QED
  BY <1>2, <1>3, <1>4

\* A message that is sent asks, with a token its sender may carry.
LEMMA SentMessage ==
    ASSUME NEW id, NEW kind
    PROVE  /\ Send(kind, id).kind = kind /\ Send(kind, id).token = id
           /\ Send(kind, id).answer = NoToken /\ Send(kind, id).answer.id = 0
           /\ NoMessage.kind = "none" /\ NoMessage.token = 0 /\ NoMessage.answer = NoToken
           /\ NoToken.id = 0 /\ NoToken \in Held
           /\ \A kinds : NoMessage \in Messages(kinds)
           /\ \A kinds : kind \in kinds /\ id \in 0..MaxTokens => Send(kind, id) \in Messages(kinds)
<1>1. /\ NoMessage.kind = "none" /\ NoMessage.token = 0 /\ NoMessage.answer = NoToken
      /\ NoMessage.retried = FALSE /\ NoToken.id = 0 /\ NoToken \in Held
  BY DEF NoMessage, NoToken, Held
<1>2. /\ Send(kind, id).kind = kind /\ Send(kind, id).token = id
      /\ Send(kind, id).answer = NoToken
  BY DEF Send, NoMessage
<1>3. \A kinds : NoMessage \in Messages(kinds)
  BY <1>1 DEF NoMessage, Messages
<1>4. \A kinds : kind \in kinds /\ id \in 0..MaxTokens => Send(kind, id) \in Messages(kinds)
  BY <1>1 DEF Send, NoMessage, Messages
<1>5. QED
  BY <1>1, <1>2, <1>3, <1>4

-----------------------------------------------------------------------------
\* A client whose exchange has no answer yet may be given another message that
\* carries what a client of its audience may, and no token.
LEMMA ExchangeAsks ==
    ASSUME PairingInv, NEW x \in Clients, NEW message,
           message \in Messages({"pair", "rotate", "resume"}), message.answer = NoToken,
           Carried(message.token, Audience(x)),
           losses = losses' \/ losses' # 0, losses' \in Nat,
           losses' = 0 => exchange[x].answer.id = 0,
           exchange' = [exchange EXCEPT ![x] = message],
           UNCHANGED <<clock, authority, kept, request, revoked>>
    PROVE  PairingInv'
<1> USE DEF authority, kept
<1>1. /\ PairingTypeOK /\ IdsInv /\ CodesInv /\ AudienceInv /\ AnswersInv /\ LiveInv
      /\ OneTokenPerPairing /\ RevokedIsFinal /\ SessionIsKept
  BY DEF PairingInv, IdsInv
<1>2. \A y \in Clients : exchange'[y] = IF y = x THEN message ELSE exchange[y]
  BY <1>1 DEF PairingTypeOK
<1>3. message.answer.id = 0 /\ NoToken.id = 0
  BY DEF NoToken
<1>4. PairingTypeOK'
  BY <1>1 DEF PairingTypeOK
<1>5. IdsInv'
  <2>1. \A y \in Clients :
           /\ exchange'[y].token <= minted /\ exchange'[y].answer.id <= minted
           /\ exchange'[y].answer # NoToken =>
                exchange'[y].kind = "answered" /\ exchange'[y].answer.id # 0
    BY <1>1, <1>2, <1>3, PairingFields DEF IdsInv, Carried
  <2>2. QED
    BY <1>1, <1>4, <2>1 DEF IdsInv
<1>6. CodesInv'
  BY <1>1, <1>2, <1>3 DEF CodesInv
<1>7. AudienceInv'
  <2>1. \A k \in tokens : k.id # 0
    BY <1>1, PairingFields
  <2>2. QED
    BY <1>1, <1>2, <1>3, <2>1 DEF AudienceInv, Carried
<1>8. AnswersInv'
  BY <1>1, <1>2, <1>3 DEF AnswersInv, OnItsWay, Carried
<1>9. LiveInv'
  BY <1>1, <1>2, <1>3 DEF LiveInv, OnItsWay
<1>10. OneTokenPerPairing' /\ RevokedIsFinal'
  BY <1>1 DEF OneTokenPerPairing, RevokedIsFinal
<1>11. SessionIsKept'
  <2>1. \A k \in tokens : k.id # 0
    BY <1>1, PairingFields
  <2>2. QED
    BY <1>1, <1>2, <1>3, <2>1 DEF SessionIsKept, KnownTo
<1>12. QED
  BY <1>4, <1>5, <1>6, <1>7, <1>8, <1>9, <1>10, <1>11 DEF PairingInv

\* The same of a client's request with a token.
LEMMA RequestAsks ==
    ASSUME PairingInv, NEW x \in Clients, NEW message,
           message \in Messages({"data", "revoke"}),
           Carried(message.token, Audience(x)),
           message.kind = "revoke" => x \in Tabs,
           message.kind # "ended",
           losses = losses' \/ losses' # 0, losses' \in Nat,
           request' = [request EXCEPT ![x] = message],
           UNCHANGED <<clock, authority, kept, exchange, revoked>>
    PROVE  PairingInv'
<1> USE DEF authority, kept
<1>1. /\ PairingTypeOK /\ IdsInv /\ CodesInv /\ AudienceInv /\ AnswersInv /\ LiveInv
      /\ OneTokenPerPairing /\ RevokedIsFinal /\ SessionIsKept
  BY DEF PairingInv, IdsInv
<1>2. \A y \in Clients : request'[y] = IF y = x THEN message ELSE request[y]
  BY <1>1 DEF PairingTypeOK
<1>4. PairingTypeOK'
  BY <1>1 DEF PairingTypeOK
<1>5. IdsInv'
  BY <1>1, <1>2, <1>4 DEF IdsInv, Carried
<1>6. CodesInv'
  BY <1>1 DEF CodesInv
<1>7. AudienceInv'
  BY <1>1, <1>2 DEF AudienceInv, Carried
<1>8. AnswersInv'
  BY <1>1, <1>2 DEF AnswersInv, OnItsWay, Carried
<1>9. LiveInv'
  BY <1>1 DEF LiveInv, OnItsWay
<1>10. OneTokenPerPairing' /\ RevokedIsFinal' /\ SessionIsKept'
  BY <1>1 DEF OneTokenPerPairing, RevokedIsFinal, SessionIsKept, KnownTo
<1>12. QED
  BY <1>4, <1>5, <1>6, <1>7, <1>8, <1>9, <1>10 DEF PairingInv

-----------------------------------------------------------------------------
\* What clients send, and what is lost, keeps the invariant.
LEMMA SendKeepsPairing ==
    ASSUME PairingInv, NEW x \in Clients,
           \/ Pair(x) \/ AcceptRefusal(x) \/ (RotateCommand(x) /\ x \in Commands)
           \/ x \in Tabs /\ (Resume(x) \/ RotateTab(x) \/ UseToken(x))
    PROVE  PairingInv'
<1>1. PairingTypeOK /\ IdsInv /\ losses \in Nat
  BY DEF PairingInv, IdsInv
<1>2. ASSUME NEW kind \in {"pair", "rotate", "resume"}, NEW id,
             Carried(id, Audience(x)), SendExchange(x, kind, id)
      PROVE  PairingInv'
  <2>1. Send(kind, id) \in Messages({"pair", "rotate", "resume"}) /\ Send(kind, id).token = id
        /\ Send(kind, id).answer = NoToken
    BY <1>2, SentMessage DEF Carried
  <2>2. exchange[x].answer.id = 0
    BY <1>2, SentMessage DEF SendExchange
  <2>3. exchange' = [exchange EXCEPT ![x] = Send(kind, id)] /\ losses' = losses
        /\ UNCHANGED <<clock, authority, kept, request, revoked>>
    BY <1>2 DEF SendExchange
  <2>4. QED
    BY <1>1, <1>2, <2>1, <2>2, <2>3, ExchangeAsks
<1>3. CASE Pair(x)
  <2>1. Carried(0, Audience(x))
    BY HeldIsCarried DEF Audience, Audiences
  <2>2. QED
    BY <1>2, <1>3, <2>1 DEF Pair
<1>4. CASE AcceptRefusal(x)
  <2>1. exchange[x].answer.id = 0 /\ NoMessage \in Messages({"pair", "rotate", "resume"})
        /\ NoMessage.answer = NoToken /\ NoMessage.token = 0
    BY <1>4, SentMessage DEF AcceptRefusal
  <2>2. Carried(0, Audience(x))
    BY HeldIsCarried DEF Audience, Audiences
  <2>3. exchange' = [exchange EXCEPT ![x] = NoMessage] /\ losses' = losses
        /\ UNCHANGED <<clock, authority, kept, request, revoked>>
    BY <1>4 DEF AcceptRefusal
  <2>4. QED
    BY <1>1, <2>1, <2>2, <2>3, ExchangeAsks
<1>5. CASE RotateCommand(x) /\ x \in Commands
  <2>1. Audience(x) = "cli"
    BY <1>5 DEF Audience
  <2>2. QED
    BY <1>2, <1>5, <2>1, HeldIsCarried DEF RotateCommand
<1>6. CASE x \in Tabs /\ Resume(x)
  <2>1. Audience(x) = "web"
    BY <1>6 DEF Audience
  <2>2. QED
    BY <1>2, <1>6, <2>1, HeldIsCarried DEF Resume
<1>7. CASE x \in Tabs /\ RotateTab(x)
  <2>1. Audience(x) = "web"
    BY <1>7 DEF Audience
  <2>2. QED
    BY <1>2, <1>7, <2>1, HeldIsCarried DEF RotateTab
<1>8. CASE x \in Tabs /\ UseToken(x)
  <2>1. Audience(x) = "web" /\ Carried(memory[x].id, "web")
    BY <1>8, HeldIsCarried DEF Audience
  <2>2. PICK kind \in {"data", "revoke"} : SendRequest(x, kind, memory[x].id)
    BY <1>8 DEF UseToken
  <2>3. /\ Send(kind, memory[x].id) \in Messages({"data", "revoke"})
        /\ Send(kind, memory[x].id).token = memory[x].id
        /\ Send(kind, memory[x].id).kind = kind
    BY <2>1, SentMessage DEF Carried
  <2>4. request' = [request EXCEPT ![x] = Send(kind, memory[x].id)] /\ losses' = losses
        /\ UNCHANGED <<clock, authority, kept, exchange, revoked>>
    BY <2>2 DEF SendRequest
  <2>5. QED
    BY <1>1, <1>8, <2>1, <2>3, <2>4, RequestAsks
<1>9. QED
  BY <1>3, <1>4, <1>5, <1>6, <1>7, <1>8

\* A message that is lost is sent again with the token it carried, or is gone.
LEMMA LossKeepsPairing ==
    ASSUME PairingInv, NEW x \in Clients, Lose(x)
    PROVE  PairingInv'
<1>1. PairingTypeOK /\ losses \in Nat
  BY DEF PairingInv, IdsInv
<1>2. losses' # 0 /\ losses' \in Nat /\ UNCHANGED <<clock, authority, kept, revoked>>
  BY <1>1 DEF Lose
<1>3. Carried(0, Audience(x)) /\ Carried(exchange[x].token, Audience(x))
      /\ Carried(request[x].token, Audience(x))
  BY HeldIsCarried DEF Audience, Audiences
<1>4. ASSUME NEW kinds, NEW kind \in kinds, NEW message, Carried(message.token, Audience(x))
      PROVE  /\ Again(x, message, kind) \in Messages(kinds)
             /\ Again(x, message, kind).answer = NoToken
             /\ Carried(Again(x, message, kind).token, Audience(x))
             /\ Again(x, message, kind).kind \in {kind, "none"}
  <2>1. CASE Again(x, message, kind) = NoMessage
    BY <2>1, <1>3, SentMessage
  <2>2. CASE Again(x, message, kind) = [Send(kind, message.token) EXCEPT !.retried = TRUE]
    <3>1. message.token \in 0..MaxTokens
      BY <1>4 DEF Carried
    <3>2. Again(x, message, kind) \in Messages(kinds)
      <4>1. Send(kind, message.token) \in Messages(kinds)
        BY <3>1, <1>4, SentMessage
      <4>2. QED
        BY <2>2, <4>1 DEF Messages
    <3>3. /\ Again(x, message, kind).answer = NoToken
          /\ Again(x, message, kind).token = message.token
          /\ Again(x, message, kind).kind = kind
      BY <2>2 DEF Send, NoMessage
    <3>4. QED
      BY <3>2, <3>3, <1>4
  <2>3. QED
    BY <2>1, <2>2 DEF Again
<1>5. CASE exchange' = [exchange EXCEPT ![x] = Again(x, @, "rotate")] /\ UNCHANGED request
  <2>1. /\ Again(x, exchange[x], "rotate") \in Messages({"pair", "rotate", "resume"})
        /\ Again(x, exchange[x], "rotate").answer = NoToken
        /\ Carried(Again(x, exchange[x], "rotate").token, Audience(x))
    BY <1>3, <1>4
  <2>2. exchange' = [exchange EXCEPT ![x] = Again(x, exchange[x], "rotate")]
    BY <1>5
  <2>3. QED
    BY <1>2, <1>5, <2>1, <2>2, ExchangeAsks
<1>6. CASE request' = [request EXCEPT ![x] = Again(x, @, "data")] /\ UNCHANGED exchange
  <2>1. /\ Again(x, request[x], "data") \in Messages({"data", "revoke"})
        /\ Carried(Again(x, request[x], "data").token, Audience(x))
        /\ Again(x, request[x], "data").kind \in {"data", "none"}
    BY <1>3, <1>4
  <2>2. request' = [request EXCEPT ![x] = Again(x, request[x], "data")]
    BY <1>6
  <2>3. QED
    BY <1>2, <1>6, <2>1, <2>2, RequestAsks
<1>7. QED
  BY <1>5, <1>6 DEF Lose

\* Time passing keeps the invariant.
LEMMA TickKeepsPairing ==
    ASSUME PairingInv, Tick
    PROVE  PairingInv'
<1>1. UNCHANGED <<codes, tokens, minted, memory, cookie, tokenFile, exchange, request, revoked, losses>>
  BY DEF Tick, authority, kept
<1>2. clock' \in 0..MaxTime
  BY DEF Tick, PairingInv, IdsInv, PairingTypeOK
<1>3. IdsInv'
  BY <1>1, <1>2 DEF PairingInv, IdsInv, PairingTypeOK
<1>4. CodesInv' /\ AudienceInv' /\ AnswersInv' /\ LiveInv'
  BY <1>1 DEF PairingInv, CodesInv, AudienceInv, AnswersInv, LiveInv, OnItsWay
<1>5. OneTokenPerPairing' /\ RevokedIsFinal' /\ SessionIsKept'
  BY <1>1 DEF PairingInv, OneTokenPerPairing, RevokedIsFinal, SessionIsKept, KnownTo
<1>6. QED
  BY <1>3, <1>4, <1>5 DEF PairingInv

-----------------------------------------------------------------------------
\* An answer to an exchange carries the token that was minted, or none.
LEMMA AnsweredExchange ==
    ASSUME PairingTypeOK, NEW x \in Clients, NEW token,
           token.id \in 1..MaxTokens, token.expires \in Nat
    PROVE  /\ Answered(exchange[x], token) \in Messages({"pair", "rotate", "resume"})
           /\ Answered(exchange[x], token).kind = "answered"
           /\ Answered(exchange[x], token).token = exchange[x].token
           /\ Answered(exchange[x], token).answer.id = token.id
           /\ Answered(request[x], token) \in Messages({"data", "revoke"})
           /\ Answered(request[x], token).kind = "answered"
           /\ Answered(request[x], token).token = request[x].token
<1>1. [id |-> token.id, expires |-> token.expires] \in Held
  BY DEF Held
<1>2. exchange[x] \in Messages({"pair", "rotate", "resume"}) /\ request[x] \in Messages({"data", "revoke"})
  BY PairingFields
<1>3. QED
  BY <1>1, <1>2 DEF Answered, Messages

LEMMA RefusedMessage ==
    ASSUME PairingTypeOK, NEW x \in Clients
    PROVE  /\ Refused(exchange[x]) \in Messages({"pair", "rotate", "resume"})
           /\ Refused(exchange[x]).answer = NoToken /\ Refused(exchange[x]).answer.id = 0
           /\ Refused(exchange[x]).token = exchange[x].token
           /\ Refused(request[x]) \in Messages({"data", "revoke"})
           /\ Refused(request[x]).kind = "answered"
           /\ Refused(request[x]).token = request[x].token
<1>1. NoToken \in Held /\ NoToken.id = 0
  BY DEF Held, NoToken
<1>2. exchange[x] \in Messages({"pair", "rotate", "resume"}) /\ request[x] \in Messages({"data", "revoke"})
  BY PairingFields
<1>3. QED
  BY <1>1, <1>2 DEF Refused, Messages

\* A new token has an id of its own, and ends some time after now.
LEMMA MintedToken ==
    ASSUME PairingTypeOK, minted < MaxTokens, NEW who \in Audiences
    PROVE  /\ Mint(who) \in Tokens /\ Mint(who).id = minted + 1
           /\ Mint(who).id \in 1..MaxTokens /\ Mint(who).audience = who
           /\ Mint(who).expires \in Nat
<1>1. clock \in Nat /\ minted \in Nat /\ TokenTtl \in Nat /\ MaxTokens \in Nat
  BY PairingFields
<1>2. minted + 1 \in 1..MaxTokens /\ clock + TokenTtl \in Nat
  BY <1>1
<1>3. QED
  BY <1>2 DEF Mint, Tokens

\* A step of Core that mints a token for a client that has no answer, and leaves no
\* other token of the audience, keeps the invariant.
LEMMA MintKeepsPairing ==
    ASSUME PairingInv, NEW x \in Clients, NEW who, who = Audience(x),
           exchange[x].answer.id = 0, minted < MaxTokens, who \notin revoked,
           \A k \in tokens' : k = Mint(who) \/ (k \in tokens /\ k.audience # who),
           \A k \in tokens : k.audience # who => k \in tokens',
           Mint(who) \in tokens',
           \A y \in Clients : losses = 0 /\ OnItsWay(y) # 0 => Audience(y) # who,
           minted' = minted + 1,
           exchange' = [exchange EXCEPT ![x] = Answered(@, Mint(who))],
           \/ codes' = codes /\ codes[who] = 0
           \/ codes' = [codes EXCEPT ![who] = 0],
           UNCHANGED <<clock, kept, request, revoked, losses>>
    PROVE  PairingInv'
<1> USE DEF kept
<1>1. /\ PairingTypeOK /\ IdsInv /\ CodesInv /\ AudienceInv /\ AnswersInv /\ LiveInv
      /\ OneTokenPerPairing /\ RevokedIsFinal /\ SessionIsKept
  BY DEF PairingInv, IdsInv
<1>2. who \in Audiences
  BY DEF Audience, Audiences
<1>3. /\ Mint(who) \in Tokens /\ Mint(who).id = minted + 1 /\ Mint(who).audience = who
      /\ Mint(who).id \in 1..MaxTokens /\ minted + 1 \in 0..MaxTokens /\ minted \in Nat
  <2>1. minted \in Nat
    BY <1>1, PairingFields
  <2>2. QED
    BY <1>1, <1>2, <2>1, MintedToken
<1>4. \A y \in Clients : exchange'[y] = IF y = x THEN Answered(exchange[x], Mint(who)) ELSE exchange[y]
  BY <1>1 DEF PairingTypeOK
<1>5. /\ Answered(exchange[x], Mint(who)) \in Messages({"pair", "rotate", "resume"})
      /\ Answered(exchange[x], Mint(who)).kind = "answered"
      /\ Answered(exchange[x], Mint(who)).token = exchange[x].token
      /\ Answered(exchange[x], Mint(who)).answer.id = minted + 1
  BY <1>1, <1>2, <1>3, MintedToken, AnsweredExchange
<1>6. /\ codes' \in [Audiences -> Nat] /\ codes'[who] = 0
      /\ \A w \in Audiences : w # who => codes'[w] = codes[w]
  BY <1>1, <1>2 DEF PairingTypeOK
<1>7. PairingTypeOK'
  <2>1. tokens' \subseteq Tokens
    BY <1>1, <1>3 DEF PairingTypeOK
  <2>2. exchange' \in [Clients -> Messages({"pair", "rotate", "resume"})]
    BY <1>1, <1>5 DEF PairingTypeOK
  <2>3. QED
    BY <1>1, <1>3, <1>6, <2>1, <2>2 DEF PairingTypeOK
\* Every id that was known is below the new one.
<1>8. /\ \A k \in tokens : k.id # minted + 1
      /\ \A t \in Tabs : memory[t].id # minted + 1
      /\ cookie # minted + 1 /\ tokenFile # minted + 1
      /\ \A y \in Clients :
            /\ exchange[y].token # minted + 1 /\ request[y].token # minted + 1
            /\ exchange[y].answer.id # minted + 1
  BY <1>1, PairingFields DEF IdsInv
<1>9. IdsInv'
  <2>1. \A n \in Nat : n <= minted => n <= minted'
    BY <1>1, <1>3, PairingFields
  <2>2. \A k \in tokens' : k.id <= minted'
    BY <1>1, <1>3, <2>1, PairingFields DEF IdsInv
  <2>3. /\ \A t \in Tabs : memory'[t].id <= minted'
        /\ cookie' <= minted' /\ tokenFile' <= minted'
    BY <1>1, <2>1, PairingFields DEF IdsInv
  <2>4. \A y \in Clients : exchange'[y].token <= minted' /\ request'[y].token <= minted'
    BY <1>1, <1>4, <1>5, <2>1, PairingFields DEF IdsInv
  <2>5. \A y \in Clients : exchange'[y].answer.id <= minted'
    BY <1>1, <1>3, <1>4, <1>5, <2>1, PairingFields DEF IdsInv
  <2>6. \A y \in Clients : exchange'[y].answer # NoToken =>
            exchange'[y].kind = "answered" /\ exchange'[y].answer.id # 0
    BY <1>1, <1>3, <1>4, <1>5 DEF IdsInv
  <2>7. losses' \in Nat
    BY <1>1 DEF IdsInv
  <2>8. QED
    BY <1>7, <2>2, <2>3, <2>4, <2>5, <2>6, <2>7 DEF IdsInv
<1>10. CodesInv'
  <2>1. \A y \in Clients : Audience(y) # who => exchange'[y] = exchange[y]
    BY <1>4
  <2>2. \A k \in tokens' : k.audience # who => k \in tokens
    BY <1>3
  <2>3. QED
    BY <1>1, <1>2, <1>6, <2>1, <2>2 DEF CodesInv
<1>11. AudienceInv'
  <2>1. ASSUME NEW k \in tokens'
        PROVE  /\ cookie = k.id \/ (\E t \in Tabs : memory[t].id = k.id) => k.audience = "web"
               /\ tokenFile = k.id => k.audience = "cli"
               /\ \A y \in Clients :
                     k.id \in {exchange'[y].token, exchange'[y].answer.id, request[y].token} =>
                         k.audience = Audience(y)
    <3>1. CASE k = Mint(who)
      BY <1>1, <1>3, <1>4, <1>5, <1>8, <3>1
    <3>2. CASE k \in tokens
      BY <1>1, <1>3, <1>4, <1>5, <1>8, <3>2 DEF AudienceInv
    <3>3. QED
      BY <3>1, <3>2
  <2>2. QED
    BY <1>1, <2>1 DEF AudienceInv
<1>12. AnswersInv'
  <2>1. \A y \in Clients : OnItsWay(y)' = IF y = x THEN minted + 1 ELSE OnItsWay(y)
    BY <1>4, <1>5 DEF OnItsWay
  <2>2. \A y \in Clients : exchange'[y].token = exchange[y].token
    BY <1>4, <1>5
  <2>3. \A y \in Clients : OnItsWay(y) # minted + 1
    BY <1>8 DEF OnItsWay
  <2>4. QED
    BY <1>1, <1>8, <2>1, <2>2, <2>3, SMT DEF AnswersInv
<1>13. LiveInv'
  <2>1. \A y \in Clients : OnItsWay(y)' = IF y = x THEN minted + 1 ELSE OnItsWay(y)
    BY <1>4, <1>5 DEF OnItsWay
  <2>2. ASSUME losses = 0, NEW y \in Clients, OnItsWay(y)' # 0,
               NEW k \in tokens', k.audience = Audience(y)
        PROVE  k.id = OnItsWay(y)'
    <3>1. CASE y = x
      BY <1>3, <2>1, <2>2, <3>1
    <3>2. CASE y # x
      <4>1. OnItsWay(y) # 0 /\ Audience(y) # who
        BY <2>1, <2>2, <3>2
      <4>2. k \in tokens
        BY <1>3, <2>2, <4>1
      <4>3. QED
        BY <1>1, <2>1, <2>2, <3>2, <4>1, <4>2 DEF LiveInv
    <3>3. QED
      BY <3>1, <3>2
  <2>3. QED
    BY <2>2 DEF LiveInv
<1>14. OneTokenPerPairing'
  BY <1>1, <1>3 DEF OneTokenPerPairing
<1>15. RevokedIsFinal'
  BY <1>1, <1>3 DEF RevokedIsFinal
<1>16. SessionIsKept'
  <2>1. ASSUME losses = 0, NEW k \in tokens'
        PROVE  KnownTo(k.id)'
    <3>1. CASE k = Mint(who)
      BY <1>3, <1>4, <1>5, <3>1 DEF KnownTo
    <3>2. CASE k \in tokens
      <4>1. KnownTo(k.id) /\ k.id # 0
        BY <1>1, <2>1, <3>2, PairingFields DEF SessionIsKept
      <4>2. QED
        BY <1>4, <4>1 DEF KnownTo
    <3>3. QED
      BY <3>1, <3>2
  <2>2. QED
    BY <2>1 DEF SessionIsKept
<1>17. QED
  BY <1>9, <1>10, <1>11, <1>12, <1>13, <1>14, <1>15, <1>16 DEF PairingInv

-----------------------------------------------------------------------------
\* What Core does keeps the invariant: the code of a pairing led to no token before;
LEMMA HandlePairKeepsPairing ==
    ASSUME PairingInv, NEW x \in Clients, HandlePair(x)
    PROVE  PairingInv'
<1>1. /\ PairingTypeOK /\ IdsInv /\ CodesInv /\ AudienceInv /\ AnswersInv /\ LiveInv
      /\ OneTokenPerPairing /\ RevokedIsFinal /\ SessionIsKept
  BY DEF PairingInv, IdsInv
<1> DEFINE who == Audience(x)
<1>3. who \in Audiences /\ codes[who] \in Nat /\ clock \in Nat
  BY <1>1, PairingFields DEF Audience, Audiences
<1>4. exchange[x].answer.id = 0
  BY <1>1 DEF HandlePair, IdsInv, NoToken
<1>5. CASE codes[who] > clock
  <2>1. codes[who] # 0
    BY <1>3, <1>5
  <2>2. /\ who \notin revoked /\ \A k \in tokens : k.audience # who
        /\ \A y \in Clients : Audience(y) = who => exchange[y].answer.id = 0
    BY <1>1, <1>3, <2>1 DEF CodesInv
  <2>3. /\ minted < MaxTokens /\ minted' = minted + 1
        /\ tokens' = tokens \cup {Mint(who)}
        /\ exchange' = [exchange EXCEPT ![x] = Answered(@, Mint(who))]
        /\ codes' = [codes EXCEPT ![who] = 0]
        /\ UNCHANGED <<clock, kept, request, revoked, losses>>
    BY <1>5 DEF HandlePair
  <2>4. \A y \in Clients : OnItsWay(y) # 0 => Audience(y) # who
    BY <2>2 DEF OnItsWay
  <2>5. QED
    BY <1>4, <2>2, <2>3, <2>4, MintKeepsPairing
<1>6. CASE ~(codes[who] > clock)
  <2> USE DEF kept
  <2>1. /\ exchange' = [exchange EXCEPT ![x] = Refused(exchange[x])]
        /\ codes' = [codes EXCEPT ![who] = 0]
        /\ UNCHANGED <<clock, tokens, minted, kept, request, revoked, losses>>
    BY <1>6 DEF HandlePair
  <2>2. /\ Refused(exchange[x]) \in Messages({"pair", "rotate", "resume"})
        /\ Refused(exchange[x]).answer = NoToken /\ Refused(exchange[x]).answer.id = 0
        /\ Refused(exchange[x]).token = exchange[x].token
    BY <1>1, RefusedMessage
  <2>3. \A y \in Clients : /\ exchange'[y].answer = exchange[y].answer
                           /\ exchange'[y].token = exchange[y].token
                           /\ exchange'[y].answer # NoToken => exchange'[y] = exchange[y]
    BY <1>1, <1>4, <2>1, <2>2 DEF PairingTypeOK, HandlePair, IdsInv
  <2>4. PairingTypeOK'
    BY <1>1, <1>3, <2>1, <2>2 DEF PairingTypeOK
  <2>5. IdsInv'
    BY <1>1, <2>1, <2>3, <2>4, SMT DEF IdsInv
  <2>6. CodesInv'
    BY <1>1, <1>3, <2>1, <2>3 DEF CodesInv, PairingTypeOK
  <2>7. AudienceInv'
    BY <1>1, <2>1, <2>3 DEF AudienceInv
  <2>8. AnswersInv' /\ LiveInv'
    BY <1>1, <2>1, <2>3 DEF AnswersInv, LiveInv, OnItsWay
  <2>9. OneTokenPerPairing' /\ RevokedIsFinal' /\ SessionIsKept'
    BY <1>1, <2>1, <2>3 DEF OneTokenPerPairing, RevokedIsFinal, SessionIsKept, KnownTo
  <2>10. QED
    BY <2>5, <2>6, <2>7, <2>8, <2>9 DEF PairingInv
<1>7. QED
  BY <1>5, <1>6

\* ... a rotation takes away the one token of the session, which its client carried;
LEMMA HandleRotateKeepsPairing ==
    ASSUME PairingInv, NEW x \in Clients, HandleRotate(x)
    PROVE  PairingInv'
<1>1. /\ PairingTypeOK /\ IdsInv /\ CodesInv /\ AudienceInv /\ AnswersInv /\ LiveInv
      /\ OneTokenPerPairing /\ RevokedIsFinal /\ SessionIsKept
  BY DEF PairingInv, IdsInv
<1>2. exchange[x].answer = NoToken /\ exchange[x].answer.id = 0
  BY <1>1 DEF HandleRotate, IdsInv, NoToken
<1>3. UNCHANGED <<clock, codes, kept, request, revoked, losses>>
  BY DEF HandleRotate
<1>4. CASE \E k \in Matching(exchange[x].token) :
              /\ minted < MaxTokens
              /\ minted' = minted + 1
              /\ tokens' = (tokens \ Replaced(k)) \cup {Mint(k.audience)}
              /\ exchange' = [exchange EXCEPT ![x] = Answered(@, Mint(k.audience))]
  <2>1. PICK k \in tokens :
              /\ k.id = exchange[x].token
              /\ minted < MaxTokens
              /\ minted' = minted + 1
              /\ tokens' = (tokens \ {k}) \cup {Mint(k.audience)}
              /\ exchange' = [exchange EXCEPT ![x] = Answered(@, Mint(k.audience))]
    BY <1>4 DEF Matching, Replaced
  <2>2. k.audience = Audience(x)
    BY <1>1, <2>1 DEF AudienceInv
  <2>3. k.audience \in Audiences /\ Audience(x) \notin revoked /\ codes[Audience(x)] = 0
    BY <1>1, <2>1, <2>2, PairingFields DEF RevokedIsFinal, CodesInv
  <2>4. \A l \in tokens : l = k \/ l.audience # Audience(x)
    BY <1>1, <2>1, <2>2 DEF OneTokenPerPairing
  <2>5. \A l \in tokens' : l = Mint(Audience(x)) \/ (l \in tokens /\ l.audience # Audience(x))
    BY <2>1, <2>2, <2>4
  <2>6. \A l \in tokens : l.audience # Audience(x) => l \in tokens'
    BY <2>1, <2>2
  <2>7. \A y \in Clients : losses = 0 /\ OnItsWay(y) # 0 => Audience(y) # Audience(x)
    BY <1>1, <2>1, <2>2 DEF LiveInv, AnswersInv
  <2>8. QED
    BY <1>2, <1>3, <2>1, <2>2, <2>3, <2>5, <2>6, <2>7, MintKeepsPairing
<1>5. CASE /\ tokens' = tokens \ Matching(exchange[x].token)
           /\ exchange' = [exchange EXCEPT ![x] = Refused(@)]
           /\ UNCHANGED minted
  <2> USE DEF kept
  <2>1. /\ exchange' = [exchange EXCEPT ![x] = Refused(exchange[x])]
        /\ tokens' \subseteq tokens
    BY <1>5
  <2>2. /\ Refused(exchange[x]) \in Messages({"pair", "rotate", "resume"})
        /\ Refused(exchange[x]).answer = NoToken
        /\ Refused(exchange[x]).token = exchange[x].token
    BY <1>1, RefusedMessage
  <2>3. \A y \in Clients : /\ exchange'[y].answer = exchange[y].answer
                           /\ exchange'[y].token = exchange[y].token
                           /\ exchange'[y].answer # NoToken => exchange'[y] = exchange[y]
    BY <1>1, <1>2, <2>1, <2>2 DEF PairingTypeOK
  <2>4. PairingTypeOK'
    BY <1>1, <1>3, <1>5, <2>1, <2>2 DEF PairingTypeOK
  <2>5. IdsInv'
    BY <1>1, <1>3, <1>5, <2>1, <2>3, <2>4, SMT DEF IdsInv
  <2>6. CodesInv'
    BY <1>1, <1>3, <2>1, <2>3 DEF CodesInv
  <2>7. AudienceInv'
    BY <1>1, <1>3, <2>1, <2>3 DEF AudienceInv
  <2>8. AnswersInv' /\ LiveInv'
    BY <1>1, <1>3, <2>1, <2>3 DEF AnswersInv, LiveInv, OnItsWay
  <2>9. OneTokenPerPairing' /\ RevokedIsFinal' /\ SessionIsKept'
    BY <1>1, <1>3, <2>1, <2>3 DEF OneTokenPerPairing, RevokedIsFinal, SessionIsKept, KnownTo
  <2>10. QED
    BY <2>5, <2>6, <2>7, <2>8, <2>9 DEF PairingInv
<1>6. QED
  BY <1>4, <1>5 DEF HandleRotate

\* ... a request takes away a token that has expired, or the one it revokes.
LEMMA HandleRequestKeepsPairing ==
    ASSUME PairingInv, NEW x \in Clients, HandleRequest(x)
    PROVE  PairingInv'
<1> USE DEF kept
<1>1. /\ PairingTypeOK /\ IdsInv /\ CodesInv /\ AudienceInv /\ AnswersInv /\ LiveInv
      /\ OneTokenPerPairing /\ RevokedIsFinal /\ SessionIsKept
  BY DEF PairingInv, IdsInv
<1>2. UNCHANGED <<clock, codes, minted, kept, exchange, losses>> /\ tokens' \subseteq tokens
  BY DEF HandleRequest
<1>3. \/ /\ revoked' = revoked
         /\ \/ \E k \in tokens : k.id = request[x].token /\
                     request' = [request EXCEPT ![x] = Answered(request[x], k)]
            \/ request' = [request EXCEPT ![x] = Refused(request[x])]
      \/ /\ request[x].kind = "revoke"
         /\ request' = [request EXCEPT ![x] = [NoMessage EXCEPT !.kind = "ended"]]
         /\ \E k \in tokens :
               /\ k.id = request[x].token
               /\ tokens' = tokens \ {k} /\ revoked' = revoked \cup {k.audience}
  BY DEF HandleRequest, Matching, Revoked
<1>4. PICK message :
          /\ request' = [request EXCEPT ![x] = message]
          /\ message \in Messages({"data", "revoke"})
          /\ \/ message.kind = "answered" /\ message.token = request[x].token
             \/ message.kind = "ended" /\ message.token = 0 /\ request[x].kind = "revoke"
          /\ message.kind = "answered" => revoked' = revoked
          /\ message.kind = "ended" =>
                \E k \in tokens :
                   /\ k.id = request[x].token
                   /\ tokens' = tokens \ {k} /\ revoked' = revoked \cup {k.audience}
  <2>1. CASE \E k \in tokens : k.id = request[x].token /\ revoked' = revoked /\
                     request' = [request EXCEPT ![x] = Answered(request[x], k)]
    <3>1. PICK k \in tokens : revoked' = revoked /\
                     request' = [request EXCEPT ![x] = Answered(request[x], k)]
      BY <2>1
    <3>2. k.id \in 1..MaxTokens /\ k.expires \in Nat
      BY <1>1, PairingFields
    <3>3. /\ Answered(request[x], k) \in Messages({"data", "revoke"})
          /\ Answered(request[x], k).kind = "answered"
          /\ Answered(request[x], k).token = request[x].token
      BY <1>1, <3>2, AnsweredExchange
    <3>4. QED
      BY <3>1, <3>3
  <2>2. CASE revoked' = revoked /\ request' = [request EXCEPT ![x] = Refused(request[x])]
    <3>1. /\ Refused(request[x]) \in Messages({"data", "revoke"})
          /\ Refused(request[x]).kind = "answered"
          /\ Refused(request[x]).token = request[x].token
      BY <1>1, RefusedMessage
    <3>2. QED
      BY <2>2, <3>1
  <2>3. CASE /\ request[x].kind = "revoke"
             /\ request' = [request EXCEPT ![x] = [NoMessage EXCEPT !.kind = "ended"]]
             /\ \E k \in tokens :
                   /\ k.id = request[x].token
                   /\ tokens' = tokens \ {k} /\ revoked' = revoked \cup {k.audience}
    <3>1. /\ [NoMessage EXCEPT !.kind = "ended"] \in Messages({"data", "revoke"})
          /\ [NoMessage EXCEPT !.kind = "ended"].kind = "ended"
          /\ [NoMessage EXCEPT !.kind = "ended"].token = 0
      <4>1. NoMessage \in Messages({"data", "revoke"}) /\ NoMessage.token = 0
        BY SentMessage
      <4>2. QED
        BY <4>1 DEF Messages
    <3>2. QED
      BY <2>3, <3>1
  <2>4. QED
    BY <1>3, <2>1, <2>2, <2>3
<1>5. \A y \in Clients : request'[y] = IF y = x THEN message ELSE request[y]
  BY <1>1, <1>4 DEF PairingTypeOK
\* A revocation is of a tab's token, the only one of the browser.
<1>6. \/ revoked' = revoked /\ message.kind # "ended"
      \/ /\ revoked' = revoked \cup {"web"} /\ codes["web"] = 0
         /\ \A k \in tokens' : k.audience # "web"
  <2>1. CASE message.kind = "ended"
    <3>1. PICK k \in tokens :
             /\ k.id = request[x].token
             /\ tokens' = tokens \ {k} /\ revoked' = revoked \cup {k.audience}
      BY <1>4, <2>1
    <3>2. x \in Tabs /\ k.audience = "web"
      BY <1>1, <1>4, <2>1, <3>1 DEF AudienceInv, Audience
    <3>3. \A l \in tokens' : l.audience # "web"
      BY <1>1, <3>1, <3>2 DEF OneTokenPerPairing
    <3>4. codes["web"] = 0
      BY <1>1, <3>1, <3>2 DEF CodesInv, Audiences
    <3>5. QED
      BY <3>1, <3>2, <3>3, <3>4
  <2>2. CASE message.kind = "answered"
    BY <1>4, <2>2
  <2>3. QED
    BY <1>4, <2>1, <2>2
<1>7. revoked' \subseteq Audiences /\ revoked \subseteq revoked'
  BY <1>1, <1>6 DEF PairingTypeOK, Audiences
<1>8. PairingTypeOK'
  BY <1>1, <1>2, <1>4, <1>7 DEF PairingTypeOK
<1>9. IdsInv'
  <2>1. \A y \in Clients : request'[y].token <= minted
    <3>1. message.token <= minted
      BY <1>1, <1>4, PairingFields DEF IdsInv
    <3>2. QED
      BY <1>1, <1>5, <3>1 DEF IdsInv
  <2>2. QED
    BY <1>1, <1>2, <1>8, <2>1, SMT DEF IdsInv
<1>10. CodesInv'
  BY <1>1, <1>2, <1>6 DEF CodesInv
<1>11. AudienceInv'
  <2>1. \A k \in tokens : k.id # 0
    BY <1>1, PairingFields
  <2>2. \A k \in tokens' : \A y \in Clients : k.id = request'[y].token => k.audience = Audience(y)
    BY <1>1, <1>2, <1>4, <1>5, <2>1 DEF AudienceInv
  <2>3. \A y \in Clients : request'[y].kind = "revoke" => y \in Tabs
    BY <1>1, <1>4, <1>5 DEF AudienceInv
  <2>4. \A y \in Clients : request'[y].kind = "ended" => "web" \in revoked'
    BY <1>1, <1>4, <1>5, <1>6, <1>7 DEF AudienceInv
  <2>5. QED
    BY <1>1, <1>2, <2>2, <2>3, <2>4 DEF AudienceInv
<1>12. AnswersInv'
  BY <1>1, <1>2, <1>4, <1>5 DEF AnswersInv, OnItsWay
<1>13. LiveInv'
  BY <1>1, <1>2 DEF LiveInv, OnItsWay
<1>14. OneTokenPerPairing' /\ RevokedIsFinal' /\ SessionIsKept'
  BY <1>1, <1>2, <1>6 DEF OneTokenPerPairing, RevokedIsFinal, SessionIsKept, KnownTo
<1>15. QED
  BY <1>9, <1>10, <1>11, <1>12, <1>13, <1>14 DEF PairingInv

-----------------------------------------------------------------------------
\* What clients make of an answer keeps the invariant: a token that arrives takes the
\* place of the one before it, which is dead unless something was lost.
LEMMA AcceptKeepsPairing ==
    ASSUME PairingInv, NEW x \in Clients,
           \/ x \in Tabs /\ AcceptInTab(x)
           \/ x \in Commands /\ AcceptInCommand(x)
    PROVE  PairingInv'
<1> USE DEF authority, kept
<1>1. /\ PairingTypeOK /\ IdsInv /\ CodesInv /\ AudienceInv /\ AnswersInv /\ LiveInv
      /\ OneTokenPerPairing /\ RevokedIsFinal /\ SessionIsKept
  BY DEF PairingInv, IdsInv
<1> DEFINE id == exchange[x].answer.id
<1>2. id # 0 /\ id <= minted /\ id \in 0..MaxTokens /\ exchange[x].answer \in Held
  <2>1. exchange[x].answer # NoToken
    BY DEF AcceptInTab, AcceptInCommand
  <2>2. id \in 0..MaxTokens /\ exchange[x].answer \in Held
    BY <1>1, PairingFields DEF Held
  <2>3. QED
    BY <1>1, <2>1, <2>2 DEF IdsInv
<1>3. /\ UNCHANGED <<clock, codes, tokens, minted, revoked, losses>>
      /\ exchange' = [exchange EXCEPT ![x] = NoMessage]
  BY DEF AcceptInTab, AcceptInCommand
<1>4. \A y \in Clients : exchange'[y] = IF y = x THEN NoMessage ELSE exchange[y]
  BY <1>1, <1>3 DEF PairingTypeOK
<1>5. /\ NoMessage.token = 0 /\ NoMessage.answer = NoToken /\ NoToken.id = 0
      /\ NoMessage.answer.id = 0
      /\ NoMessage \in Messages({"pair", "rotate", "resume"})
  BY SentMessage
<1>6. \A k \in tokens : k.id = id => k.audience = Audience(x)
  BY <1>1 DEF AudienceInv
\* Nothing else that is on its way is the token that arrived.
<1>7. \A y \in Clients : OnItsWay(y)' # 0 => OnItsWay(y)' = OnItsWay(y) /\ OnItsWay(y) # id
  BY <1>1, <1>2, <1>4, <1>5 DEF AnswersInv, OnItsWay
<1>8. CodesInv' /\ LiveInv' /\ OneTokenPerPairing' /\ RevokedIsFinal'
  <2>1. CodesInv'
    BY <1>1, <1>3, <1>4, <1>5 DEF CodesInv
  <2>2. LiveInv'
    BY <1>1, <1>3, <1>7 DEF LiveInv
  <2>3. QED
    BY <1>1, <1>3, <2>1, <2>2 DEF OneTokenPerPairing, RevokedIsFinal
<1>9. exchange' \in [Clients -> Messages({"pair", "rotate", "resume"})]
  BY <1>1, <1>3, <1>5 DEF PairingTypeOK
<1>10. \A y \in Clients : /\ exchange'[y].token <= minted /\ exchange'[y].answer.id <= minted
                          /\ exchange'[y].answer # NoToken =>
                               exchange'[y].kind = "answered" /\ exchange'[y].answer.id # 0
  BY <1>1, <1>4, <1>5, PairingFields DEF IdsInv
<1>11. \A k \in tokens : k.id # 0
  BY <1>1, PairingFields
<1>12. CASE x \in Tabs /\ AcceptInTab(x)
  <2>1. /\ cookie' = id /\ UNCHANGED <<tokenFile, request>>
        /\ memory' = [memory EXCEPT ![x] = exchange[x].answer] \/ memory' = memory
    BY <1>12 DEF AcceptInTab, RenewedCookie
  <2>2. \A t \in Tabs : memory'[t] = memory[t] \/ memory'[t] = exchange[x].answer
    BY <1>1, <2>1 DEF PairingTypeOK
  <2>3. Audience(x) = "web"
    BY <1>12 DEF Audience
  <2>4. PairingTypeOK'
    <3>1. memory' \in [Tabs -> Held]
      BY <1>1, <1>2, <2>1 DEF PairingTypeOK
    <3>2. QED
      BY <1>1, <1>2, <1>3, <1>9, <2>1, <3>1 DEF PairingTypeOK
  <2>5. IdsInv'
    <3>1. \A t \in Tabs : memory'[t].id <= minted
      BY <1>1, <1>2, <2>2 DEF IdsInv
    <3>2. QED
      BY <1>1, <1>2, <1>3, <1>10, <2>1, <2>4, <3>1 DEF IdsInv
  <2>6. AudienceInv'
    <3>1. \A k \in tokens : cookie' = k.id \/ (\E t \in Tabs : memory'[t].id = k.id) => k.audience = "web"
      BY <1>1, <1>6, <2>1, <2>2, <2>3 DEF AudienceInv
    <3>2. \A k \in tokens : \A y \in Clients :
             k.id \in {exchange'[y].token, exchange'[y].answer.id, request'[y].token} =>
                 k.audience = Audience(y)
      BY <1>1, <1>4, <1>5, <1>11, <2>1 DEF AudienceInv
    <3>3. QED
      BY <1>1, <1>3, <2>1, <3>1, <3>2 DEF AudienceInv
  <2>7. AnswersInv'
    <3>1. ASSUME NEW y \in Clients, OnItsWay(y)' # 0
          PROVE  /\ cookie' # OnItsWay(y)' /\ tokenFile' # OnItsWay(y)'
                 /\ \A t \in Tabs : memory'[t].id # OnItsWay(y)'
                 /\ \A z \in Clients :
                       /\ exchange'[z].token # OnItsWay(y)' /\ request'[z].token # OnItsWay(y)'
                       /\ OnItsWay(z)' = OnItsWay(y)' => z = y
      <4>1. OnItsWay(y)' = OnItsWay(y) /\ OnItsWay(y) # id /\ OnItsWay(y) # 0
        BY <1>7, <3>1
      <4>2. /\ cookie' # OnItsWay(y) /\ tokenFile' # OnItsWay(y)
            /\ \A t \in Tabs : memory'[t].id # OnItsWay(y)
        BY <1>1, <2>1, <2>2, <4>1 DEF AnswersInv
      <4>3. \A z \in Clients : exchange'[z].token # OnItsWay(y) /\ request'[z].token # OnItsWay(y)
        BY <1>1, <1>4, <1>5, <2>1, <4>1 DEF AnswersInv
      <4>4. \A z \in Clients : OnItsWay(z)' = OnItsWay(y)' => z = y
        BY <1>1, <1>7, <3>1, <4>1 DEF AnswersInv
      <4>5. QED
        BY <4>1, <4>2, <4>3, <4>4
    <3>2. QED
      BY <3>1 DEF AnswersInv
  <2>8. SessionIsKept'
    <3>1. ASSUME losses = 0, NEW k \in tokens
          PROVE  KnownTo(k.id)'
      <4>1. CASE k.audience = "web"
        <5>1. k.id = id
          BY <1>1, <1>2, <2>3, <3>1, <4>1 DEF LiveInv, OnItsWay
        <5>2. QED
          BY <2>1, <5>1 DEF KnownTo
      <4>2. CASE k.audience # "web"
        <5>1. cookie # k.id /\ exchange[x].answer.id # k.id /\ KnownTo(k.id)
          BY <1>1, <2>3, <3>1, <4>2 DEF AudienceInv, SessionIsKept
        <5>2. QED
          BY <1>4, <2>1, <5>1 DEF KnownTo
      <4>3. QED
        BY <4>1, <4>2
    <3>2. QED
      BY <1>3, <3>1 DEF SessionIsKept
  <2>9. QED
    BY <1>8, <2>5, <2>6, <2>7, <2>8 DEF PairingInv
<1>13. CASE x \in Commands /\ AcceptInCommand(x)
  <2>1. /\ tokenFile' = id /\ UNCHANGED <<memory, cookie>>
        /\ request' = [request EXCEPT ![x] = Send("data", id)] \/ request' = request
    BY <1>13 DEF AcceptInCommand
  <2>2. Audience(x) = "cli"
    BY <1>13 DEF Audience
  <2>3. /\ Send("data", id) \in Messages({"data", "revoke"})
        /\ Send("data", id).token = id /\ Send("data", id).kind = "data"
    BY <1>2, SentMessage
  <2>4. \A y \in Clients : request'[y] = request[y] \/ (y = x /\ request'[y] = Send("data", id))
    BY <1>1, <2>1 DEF PairingTypeOK
  <2>5. PairingTypeOK'
    <3>1. request' \in [Clients -> Messages({"data", "revoke"})]
      BY <1>1, <2>1, <2>3 DEF PairingTypeOK
    <3>2. QED
      BY <1>1, <1>2, <1>3, <1>9, <2>1, <3>1 DEF PairingTypeOK
  <2>6. IdsInv'
    <3>1. \A y \in Clients : request'[y].token <= minted
      BY <1>1, <1>2, <2>3, <2>4 DEF IdsInv
    <3>2. QED
      BY <1>1, <1>2, <1>3, <1>10, <2>1, <2>5, <3>1 DEF IdsInv
  <2>7. AudienceInv'
    <3>1. \A k \in tokens : tokenFile' = k.id => k.audience = "cli"
      BY <1>6, <2>1, <2>2
    <3>2. \A k \in tokens : \A y \in Clients :
             k.id \in {exchange'[y].token, exchange'[y].answer.id, request'[y].token} =>
                 k.audience = Audience(y)
      BY <1>1, <1>4, <1>5, <1>6, <1>11, <2>3, <2>4 DEF AudienceInv
    <3>3. \A y \in Clients : /\ request'[y].kind = "revoke" => y \in Tabs
                             /\ request'[y].kind = "ended" => "web" \in revoked
      BY <1>1, <2>3, <2>4 DEF AudienceInv
    <3>4. QED
      BY <1>1, <1>3, <2>1, <3>1, <3>2, <3>3 DEF AudienceInv
  <2>8. AnswersInv'
    <3>1. ASSUME NEW y \in Clients, OnItsWay(y)' # 0
          PROVE  /\ cookie' # OnItsWay(y)' /\ tokenFile' # OnItsWay(y)'
                 /\ \A t \in Tabs : memory'[t].id # OnItsWay(y)'
                 /\ \A z \in Clients :
                       /\ exchange'[z].token # OnItsWay(y)' /\ request'[z].token # OnItsWay(y)'
                       /\ OnItsWay(z)' = OnItsWay(y)' => z = y
      <4>1. OnItsWay(y)' = OnItsWay(y) /\ OnItsWay(y) # id /\ OnItsWay(y) # 0
        BY <1>7, <3>1
      <4>2. /\ cookie' # OnItsWay(y) /\ tokenFile' # OnItsWay(y)
            /\ \A t \in Tabs : memory'[t].id # OnItsWay(y)
        BY <1>1, <2>1, <4>1 DEF AnswersInv
      <4>3. \A z \in Clients : exchange'[z].token # OnItsWay(y) /\ request'[z].token # OnItsWay(y)
        BY <1>1, <1>4, <1>5, <2>3, <2>4, <4>1 DEF AnswersInv
      <4>4. \A z \in Clients : OnItsWay(z)' = OnItsWay(y)' => z = y
        BY <1>1, <1>7, <3>1, <4>1 DEF AnswersInv
      <4>5. QED
        BY <4>1, <4>2, <4>3, <4>4
    <3>2. QED
      BY <3>1 DEF AnswersInv
  <2>9. SessionIsKept'
    <3>1. ASSUME losses = 0, NEW k \in tokens
          PROVE  KnownTo(k.id)'
      <4>1. CASE k.audience = "cli"
        <5>1. k.id = id
          BY <1>1, <1>2, <2>2, <3>1, <4>1 DEF LiveInv, OnItsWay
        <5>2. QED
          BY <2>1, <5>1 DEF KnownTo
      <4>2. CASE k.audience # "cli"
        <5>1. tokenFile # k.id /\ exchange[x].answer.id # k.id /\ KnownTo(k.id)
          BY <1>1, <2>2, <3>1, <4>2 DEF AudienceInv, SessionIsKept
        <5>2. QED
          BY <1>4, <2>1, <5>1 DEF KnownTo
      <4>3. QED
        BY <4>1, <4>2
    <3>2. QED
      BY <1>3, <3>1 DEF SessionIsKept
  <2>10. QED
    BY <1>8, <2>6, <2>7, <2>8, <2>9 DEF PairingInv
<1>14. QED
  BY <1>12, <1>13

\* A revocation that is answered clears the cookie, whose token it took away; a tab
\* that is loaded again forgets its token and keeps the cookie.
LEMMA EndKeepsPairing ==
    ASSUME PairingInv, NEW x \in Clients, EndRequest(x) \/ (x \in Tabs /\ Reload(x))
    PROVE  PairingInv'
<1> USE DEF authority, kept
<1>1. /\ PairingTypeOK /\ IdsInv /\ CodesInv /\ AudienceInv /\ AnswersInv /\ LiveInv
      /\ OneTokenPerPairing /\ RevokedIsFinal /\ SessionIsKept
  BY DEF PairingInv, IdsInv
<1>2. /\ UNCHANGED <<clock, codes, tokens, minted, tokenFile, exchange, revoked, losses>>
      /\ request' = [request EXCEPT ![x] = NoMessage]
  BY DEF EndRequest, Reload
<1>3. \A y \in Clients : request'[y] = IF y = x THEN NoMessage ELSE request[y]
  BY <1>1, <1>2 DEF PairingTypeOK
<1>4. /\ NoMessage.token = 0 /\ NoMessage.kind = "none" /\ NoToken.id = 0 /\ NoToken \in Held
      /\ NoMessage \in Messages({"data", "revoke"})
  BY SentMessage
<1>5. \A k \in tokens : k.id # 0
  BY <1>1, PairingFields
<1>6. /\ cookie' = cookie \/ cookie' = 0
      /\ \A t \in Tabs : memory'[t] = memory[t] \/ memory'[t] = NoToken
      /\ memory' \in [Tabs -> Held]
  BY <1>1, <1>4 DEF EndRequest, Reload, PairingTypeOK
<1>7. cookie' # cookie => "web" \in revoked
  BY <1>1 DEF EndRequest, Reload, AudienceInv
<1>8. PairingTypeOK'
  BY <1>1, <1>2, <1>4, <1>6 DEF PairingTypeOK
<1>9. IdsInv'
  <2>1. cookie' <= minted /\ (\A t \in Tabs : memory'[t].id <= minted)
    BY <1>1, <1>4, <1>6, PairingFields DEF IdsInv
  <2>2. \A y \in Clients : request'[y].token <= minted
    BY <1>1, <1>3, <1>4, PairingFields DEF IdsInv
  <2>3. QED
    BY <1>1, <1>2, <1>8, <2>1, <2>2 DEF IdsInv
<1>10. CodesInv' /\ LiveInv' /\ OneTokenPerPairing' /\ RevokedIsFinal'
  BY <1>1, <1>2 DEF CodesInv, LiveInv, OnItsWay, OneTokenPerPairing, RevokedIsFinal
<1>11. AudienceInv'
  BY <1>1, <1>2, <1>3, <1>4, <1>5, <1>6 DEF AudienceInv
<1>12. AnswersInv'
  BY <1>1, <1>2, <1>3, <1>4, <1>6 DEF AnswersInv, OnItsWay
<1>13. SessionIsKept'
  <2>1. ASSUME losses = 0, NEW k \in tokens
        PROVE  KnownTo(k.id)'
    <3>1. cookie = k.id => cookie' = cookie
      BY <1>1, <1>7 DEF AudienceInv, RevokedIsFinal
    <3>2. QED
      BY <1>1, <1>2, <2>1, <3>1 DEF SessionIsKept, KnownTo
  <2>2. QED
    BY <1>2, <2>1 DEF SessionIsKept
<1>14. QED
  BY <1>9, <1>10, <1>11, <1>12, <1>13 DEF PairingInv

-----------------------------------------------------------------------------
\* Codes are printed before there is any token.
LEMMA PairingStarts == ASSUME PairingInit PROVE PairingInv
<1>1. /\ NoMessage.token = 0 /\ NoMessage.answer = NoToken /\ NoToken.id = 0
      /\ NoMessage.kind = "none" /\ NoToken \in Held
      /\ \A kinds : NoMessage \in Messages(kinds)
  BY SentMessage
<1>2. PairingTypeOK
  BY <1>1 DEF PairingInit, PairingTypeOK, Audiences
<1>3. IdsInv
  BY <1>1, <1>2 DEF PairingInit, IdsInv
<1>4. CodesInv /\ AudienceInv /\ AnswersInv /\ LiveInv
  BY <1>1 DEF PairingInit, CodesInv, AudienceInv, AnswersInv, LiveInv, OnItsWay
<1>5. OneTokenPerPairing /\ RevokedIsFinal /\ SessionIsKept
  BY DEF PairingInit, OneTokenPerPairing, RevokedIsFinal, SessionIsKept
<1>6. QED
  BY <1>3, <1>4, <1>5 DEF PairingInv

\* Tabs and commands together, and so the ones of either kind, keep the invariant.
LEMMA PairingStepKeepsInv ==
    ASSUME PairingInv, NEW tabs \in SUBSET Tabs, NEW commands \in SUBSET Commands,
           PairingSteps(tabs, commands)
    PROVE  PairingInv'
<1>1. CASE Tick
  BY <1>1, TickKeepsPairing
<1>2. ASSUME NEW x \in Clients,
             \/ Pair(x) \/ HandlePair(x) \/ HandleRotate(x) \/ HandleRequest(x)
             \/ AcceptRefusal(x) \/ EndRequest(x) \/ Lose(x)
      PROVE  PairingInv'
  BY <1>2, SendKeepsPairing, HandlePairKeepsPairing, HandleRotateKeepsPairing,
     HandleRequestKeepsPairing, EndKeepsPairing, LossKeepsPairing, Zenon
<1>3. ASSUME NEW x \in Tabs,
             Resume(x) \/ RotateTab(x) \/ UseToken(x) \/ AcceptInTab(x) \/ Reload(x)
      PROVE  PairingInv'
  <2>1. x \in Clients
    BY DEF Clients
  <2>2. QED
    BY <1>3, <2>1, SendKeepsPairing, AcceptKeepsPairing, EndKeepsPairing, Zenon
<1>4. ASSUME NEW x \in Commands, RotateCommand(x) \/ AcceptInCommand(x)
      PROVE  PairingInv'
  <2>1. x \in Clients
    BY DEF Clients
  <2>2. QED
    BY <1>4, <2>1, SendKeepsPairing, AcceptKeepsPairing, Zenon
<1>5. QED
  <2>1. tabs \cup commands \subseteq Clients /\ tabs \subseteq Tabs /\ commands \subseteq Commands
    BY DEF Clients
  <2>2. QED
    BY <1>1, <1>2, <1>3, <1>4, <2>1 DEF PairingSteps

\* What leaves clients and authority alone leaves the invariant alone.
LEMMA PairingRests == ASSUME PairingInv, UNCHANGED pairVars PROVE PairingInv'
  BY DEF pairVars, PairingInv, IdsInv, PairingTypeOK, CodesInv, AudienceInv, AnswersInv, LiveInv,
     OnItsWay, OneTokenPerPairing, RevokedIsFinal, SessionIsKept, KnownTo

allVars == <<part, pairVars, scheduleVars, subtaskVars, toolVars, desktopVars, calendarVars>>

-----------------------------------------------------------------------------
(* Subtasks: the inductive invariant *)

Holders == {x \in SubtaskClients : HoldsSlot(x)}

\* Every permit is free or held, and what was claimed once is never claimable again.
SubtaskInv ==
    /\ SubtaskTypeOK
    /\ freeSlots + Cardinality(Holders) = Slots
    /\ \A s \in SubtaskIds :
          /\ calls[s] <= 1
          /\ subtask[s] \in {"none", "pending"} => calls[s] = 0
    /\ \A s \in wasCancelled : subtask[s] = "cancelled"

LEMMA HoldersAreFinite ==
    /\ IsFiniteSet(Holders) /\ Cardinality(Holders) \in Nat
    /\ IsFiniteSet(SubtaskClients) /\ Cardinality(SubtaskClients) \in Nat
    /\ \A x \in SubtaskClients : Cardinality(SubtaskClients) > 0
<1>1. IsFiniteSet(SubtaskClients) /\ Cardinality(SubtaskClients) \in Nat
  BY SubtaskAssumption, FS_CardinalityType
<1>2. IsFiniteSet(Holders)
  BY <1>1, FS_Subset DEF Holders
<1>3. Cardinality(Holders) \in Nat
  BY <1>2, FS_CardinalityType
<1>4. ASSUME NEW x \in SubtaskClients PROVE Cardinality(SubtaskClients) > 0
  <2>1. Cardinality(SubtaskClients) # 0
    BY <1>1, FS_EmptySet
  <2>2. QED
    BY <1>1, <2>1
<1>5. QED
  BY <1>1, <1>2, <1>3, <1>4

\* A request that stops serving gives its permit back.
LEMMA LeaveReturnsSlot ==
    ASSUME SubtaskInv, NEW x \in SubtaskClients, Leave(x)
    PROVE  /\ freeSlots' \in 0..Slots /\ freeSlots' + Cardinality(Holders') = Slots
           /\ server' \in [SubtaskClients ->
                  [step : {"idle", "checked", "permitted", "calling"}, about : SUBSET SubtaskIds]]
<1>1. server \in [SubtaskClients ->
          [step : {"idle", "checked", "permitted", "calling"}, about : SUBSET SubtaskIds]]
  BY DEF SubtaskInv, SubtaskTypeOK
<1>2. /\ server' = [server EXCEPT ![x] = Unserved]
      /\ freeSlots' = freeSlots + (IF HoldsSlot(x) THEN 1 ELSE 0)
  BY DEF Leave
<1>3. Holders' = Holders \ {x}
  BY <1>1, <1>2 DEF Holders, HoldsSlot, Unserved
<1>4. Cardinality(Holders') = IF x \in Holders THEN Cardinality(Holders) - 1 ELSE Cardinality(Holders)
  BY <1>3, HoldersAreFinite, FS_RemoveElement
<1>5. Cardinality(Holders') \in Nat
  BY <1>3, HoldersAreFinite, FS_RemoveElement, FS_CardinalityType
<1>6. x \in Holders <=> HoldsSlot(x)
  BY DEF Holders
<1>7. freeSlots \in 0..Slots /\ freeSlots + Cardinality(Holders) = Slots /\ Slots \in Nat
  BY SubtaskAssumption DEF SubtaskInv, SubtaskTypeOK
<1>8. freeSlots' + Cardinality(Holders') = Slots /\ freeSlots' \in Int /\ freeSlots' >= 0
  BY <1>2, <1>4, <1>6, <1>7, HoldersAreFinite
<1>9. freeSlots' \in 0..Slots
  BY <1>2, <1>4, <1>5, <1>6, <1>7, HoldersAreFinite
<1>10. QED
  BY <1>1, <1>2, <1>8, <1>9 DEF Unserved

\* A request that moves on keeps the permits it holds.
LEMMA ServeKeepsSlot ==
    ASSUME SubtaskInv, NEW x \in SubtaskClients, NEW s \in SubtaskIds,
           NEW step \in {"checked", "permitted", "calling"}, Serve(x, s, step)
    PROVE  /\ server' \in [SubtaskClients ->
                  [step : {"idle", "checked", "permitted", "calling"}, about : SUBSET SubtaskIds]]
           /\ step = "checked" /\ ~HoldsSlot(x) => Holders' = Holders
           /\ step = "permitted" => Holders' = Holders \cup {x}
           /\ step = "calling" /\ HoldsSlot(x) => Holders' = Holders
<1>1. server \in [SubtaskClients ->
          [step : {"idle", "checked", "permitted", "calling"}, about : SUBSET SubtaskIds]]
  BY DEF SubtaskInv, SubtaskTypeOK
<1>2. server' = [server EXCEPT ![x] = [step |-> step, about |-> {s}]]
  BY DEF Serve
<1>3. \A y \in SubtaskClients :
          server'[y] = IF y = x THEN [step |-> step, about |-> {s}] ELSE server[y]
  BY <1>1, <1>2
<1>4. QED
  BY <1>1, <1>2, <1>3 DEF Holders, HoldsSlot

LEMMA SubtaskStepKeepsInv ==
    ASSUME SubtaskInv, SubtaskNext
    PROVE  SubtaskInv'
<1>1. /\ subtask \in [SubtaskIds -> SubtaskStates]
      /\ server \in [SubtaskClients ->
             [step : {"idle", "checked", "permitted", "calling"}, about : SUBSET SubtaskIds]]
      /\ freeSlots \in 0..Slots /\ freeSlots + Cardinality(Holders) = Slots /\ Slots \in Nat
      /\ calls \in [SubtaskIds -> 0..Cardinality(SubtaskClients)]
      /\ wasCancelled \subseteq SubtaskIds
      /\ \A s \in SubtaskIds : calls[s] <= 1 /\ (subtask[s] \in {"none", "pending"} => calls[s] = 0)
      /\ \A s \in wasCancelled : subtask[s] = "cancelled"
  BY SubtaskAssumption DEF SubtaskInv, SubtaskTypeOK
<1>2. ASSUME NEW s \in SubtaskIds, CreateSubtask(s) PROVE SubtaskInv'
  <2>1. Holders' = Holders
    BY <1>2 DEF CreateSubtask, Holders, HoldsSlot
  <2>2. subtask' \in [SubtaskIds -> SubtaskStates] /\ UNCHANGED <<server, freeSlots, calls, wasCancelled>>
    BY <1>1, <1>2 DEF CreateSubtask, SubtaskStates
  <2>3. \A t \in SubtaskIds : subtask'[t] = IF t = s THEN "pending" ELSE subtask[t]
    BY <1>1, <1>2 DEF CreateSubtask
  <2>4. subtask[s] = "none"
    BY <1>2 DEF CreateSubtask
  <2>5. QED
    BY <1>1, <2>1, <2>2, <2>3, <2>4 DEF SubtaskInv, SubtaskTypeOK
<1>3. ASSUME NEW s \in SubtaskIds, CancelSubtask(s) PROVE SubtaskInv'
  <2>1. Holders' = Holders
    BY <1>3 DEF CancelSubtask, Holders, HoldsSlot
  <2>2. /\ subtask' \in [SubtaskIds -> SubtaskStates] /\ UNCHANGED <<server, freeSlots, calls>>
        /\ wasCancelled' = wasCancelled \cup {s}
    BY <1>1, <1>3 DEF CancelSubtask, SubtaskStates
  <2>3. \A t \in SubtaskIds : subtask'[t] = IF t = s THEN "cancelled" ELSE subtask[t]
    BY <1>1, <1>3 DEF CancelSubtask
  <2>4. QED
    BY <1>1, <2>1, <2>2, <2>3 DEF SubtaskInv, SubtaskTypeOK
<1>4. ASSUME NEW x \in SubtaskClients, NEW s \in SubtaskIds, ReadSubtask(x, s) PROVE SubtaskInv'
  <2>1. Serve(x, s, "checked") /\ ~HoldsSlot(x) /\ UNCHANGED <<subtask, freeSlots, calls, wasCancelled>>
    BY <1>4 DEF ReadSubtask, HoldsSlot, Unserved
  <2>2. QED
    BY <1>1, <2>1, ServeKeepsSlot DEF SubtaskInv, SubtaskTypeOK
<1>5. ASSUME NEW x \in SubtaskClients, NEW s \in SubtaskIds, TakeSlot(x, s) PROVE SubtaskInv'
  <2>1. ~HoldsSlot(x) /\ UNCHANGED <<subtask, calls, wasCancelled>>
    BY <1>5 DEF TakeSlot, Served, HoldsSlot
  <2>2. CASE freeSlots > 0
    <3>1. freeSlots' = freeSlots - 1 /\ Serve(x, s, "permitted")
      BY <1>5, <2>2 DEF TakeSlot
    <3>2. /\ Holders' = Holders \cup {x} /\ x \notin Holders
          /\ server' \in [SubtaskClients ->
                 [step : {"idle", "checked", "permitted", "calling"}, about : SUBSET SubtaskIds]]
      BY <2>1, <3>1, ServeKeepsSlot DEF Holders
    <3>3. Cardinality(Holders') = Cardinality(Holders) + 1
      BY <3>2, HoldersAreFinite, FS_AddElement
    <3>4. freeSlots' \in 0..Slots /\ freeSlots' + Cardinality(Holders') = Slots
      BY <1>1, <2>2, <3>1, <3>3, HoldersAreFinite
    <3>5. QED
      BY <1>1, <2>1, <3>2, <3>4 DEF SubtaskInv, SubtaskTypeOK
  <2>3. CASE ~(freeSlots > 0)
    <3>1. Leave(x)
      BY <1>1, <1>5, <2>1, <2>3 DEF TakeSlot, Leave
    <3>2. QED
      BY <1>1, <2>1, <3>1, LeaveReturnsSlot DEF SubtaskInv, SubtaskTypeOK
  <2>4. QED
    BY <2>2, <2>3
<1>6. ASSUME NEW x \in SubtaskClients, NEW s \in SubtaskIds, ClaimSubtask(x, s) PROVE SubtaskInv'
  <2>1. HoldsSlot(x) /\ UNCHANGED wasCancelled
    BY <1>6 DEF ClaimSubtask, Served, HoldsSlot
  <2>2. CASE Claimable(s)
    <3>1. /\ subtask' = [subtask EXCEPT ![s] = "running"] /\ calls' = [calls EXCEPT ![s] = @ + 1]
          /\ Serve(x, s, "calling") /\ UNCHANGED freeSlots /\ subtask[s] = "pending"
      BY <1>6, <2>2 DEF ClaimSubtask, Claimable
    <3>2. /\ Holders' = Holders
          /\ server' \in [SubtaskClients ->
                 [step : {"idle", "checked", "permitted", "calling"}, about : SUBSET SubtaskIds]]
      BY <2>1, <3>1, ServeKeepsSlot
    <3>3. calls[s] = 0 /\ 1 \in 0..Cardinality(SubtaskClients)
      BY <1>1, <3>1, HoldersAreFinite
    <3>4. calls' = [calls EXCEPT ![s] = 1]
      BY <1>1, <3>1, <3>3
    <3>5. calls' \in [SubtaskIds -> 0..Cardinality(SubtaskClients)]
      BY <1>1, <3>3, <3>4
    <3>6. \A t \in SubtaskIds : /\ subtask'[t] = IF t = s THEN "running" ELSE subtask[t]
                                /\ calls'[t] = IF t = s THEN 1 ELSE calls[t]
      BY <1>1, <3>1, <3>4
    <3>7. subtask' \in [SubtaskIds -> SubtaskStates]
      BY <1>1, <3>1 DEF SubtaskStates
    <3>8. \A t \in wasCancelled : subtask'[t] = "cancelled"
      BY <1>1, <3>1, <3>6
    <3>9. QED
      BY <1>1, <2>1, <3>1, <3>2, <3>5, <3>6, <3>7, <3>8 DEF SubtaskInv, SubtaskTypeOK
  <2>3. CASE ~Claimable(s)
    <3>1. Leave(x) /\ UNCHANGED <<subtask, calls>>
      BY <1>6, <2>3 DEF ClaimSubtask
    <3>2. QED
      BY <1>1, <2>1, <3>1, LeaveReturnsSlot DEF SubtaskInv, SubtaskTypeOK
  <2>4. QED
    BY <2>2, <2>3
<1>7. ASSUME NEW x \in SubtaskClients, NEW s \in SubtaskIds, CompleteSubtask(x, s) PROVE SubtaskInv'
  <2>1. PICK result \in Results :
            subtask' = [subtask EXCEPT ![s] = IF @ = "running" THEN result ELSE @]
    BY <1>7 DEF CompleteSubtask
  <2>2. Leave(x) /\ UNCHANGED <<calls, wasCancelled>>
    BY <1>7 DEF CompleteSubtask
  <2>3. \A t \in SubtaskIds : subtask'[t] = subtask[t] \/ (subtask[t] = "running" /\ subtask'[t] = result)
    BY <1>1, <2>1
  <2>4. subtask' \in [SubtaskIds -> SubtaskStates]
    BY <1>1, <2>1 DEF SubtaskStates
  <2>5. /\ \A t \in SubtaskIds : subtask'[t] \in {"none", "pending"} => calls[t] = 0
        /\ \A t \in wasCancelled : subtask'[t] = "cancelled"
    BY <1>1, <2>3 DEF Results
  <2>6. QED
    BY <1>1, <2>2, <2>4, <2>5, LeaveReturnsSlot DEF SubtaskInv, SubtaskTypeOK
<1>8. ASSUME NEW x \in SubtaskClients, DropRequest(x) PROVE SubtaskInv'
  <2>1. Leave(x) /\ UNCHANGED <<subtask, calls, wasCancelled>>
    BY <1>8 DEF DropRequest
  <2>2. QED
    BY <1>1, <2>1, LeaveReturnsSlot DEF SubtaskInv, SubtaskTypeOK
<1>9. CASE StopSubtasks
  <2>1. server' = [x \in SubtaskClients |-> Unserved] /\ freeSlots' = Slots
        /\ UNCHANGED <<subtask, calls, wasCancelled>>
    BY <1>9 DEF StopSubtasks
  <2>2. Holders' = {}
    BY <2>1 DEF Holders, HoldsSlot, Unserved
  <2>3. freeSlots' + Cardinality(Holders') = Slots /\ freeSlots' \in 0..Slots
    BY <1>1, <2>1, <2>2, FS_EmptySet
  <2>4. server' \in [SubtaskClients ->
             [step : {"idle", "checked", "permitted", "calling"}, about : SUBSET SubtaskIds]]
    BY <2>1 DEF Unserved
  <2>5. QED
    BY <1>1, <2>1, <2>3, <2>4 DEF SubtaskInv, SubtaskTypeOK
<1>10. QED
  BY <1>2, <1>3, <1>4, <1>5, <1>6, <1>7, <1>8, <1>9 DEF SubtaskNext

LEMMA SubtasksStart == ASSUME SubtaskInit PROVE SubtaskInv
<1>1. Holders = {}
  BY DEF SubtaskInit, Holders, HoldsSlot, Unserved
<1>2. Cardinality(Holders) = 0 /\ Cardinality(SubtaskClients) \in Nat /\ Slots \in Nat
  BY <1>1, FS_EmptySet, HoldersAreFinite, SubtaskAssumption
<1>3. QED
  BY <1>2 DEF SubtaskInit, SubtaskInv, SubtaskTypeOK, SubtaskStates, Unserved

LEMMA SubtasksRest == ASSUME SubtaskInv, UNCHANGED subtaskVars PROVE SubtaskInv'
  BY DEF subtaskVars, SubtaskInv, SubtaskTypeOK, Holders, HoldsSlot

\* The calls of a Core hold a permit each.
LEMMA CallsHaveSlots == ASSUME SubtaskInv PROVE SubtaskIsCalledOnce
<1> DEFINE Calling == {x \in SubtaskClients : server[x].step = "calling"}
<1>1. Calling \subseteq Holders
  BY DEF Holders, HoldsSlot
<1>2. Cardinality(Calling) <= Cardinality(Holders) /\ Cardinality(Calling) \in Nat
  BY <1>1, HoldersAreFinite, FS_Subset, FS_CardinalityType
<1>3. Cardinality(Holders) = Slots - freeSlots
  BY HoldersAreFinite, SubtaskAssumption DEF SubtaskInv, SubtaskTypeOK
<1>4. Cardinality(Calling) <= Slots - freeSlots
  BY <1>2, <1>3
<1>5. QED
  BY <1>4 DEF SubtaskInv, SubtaskIsCalledOnce

-----------------------------------------------------------------------------
(* Schedules: the inductive invariant of what is paid for *)

\* A claimant that is about to pay holds the claim of an occurrence nobody paid for.
AboutToPay(s, k, who) ==
    s \in Schedules /\ k \in Occurrences /\ Holds(s, k, who) /\ paidCalls[s][k] = 0

ScheduleRows ==
    [rule : Recurrences \cup {{}}, job : Jobs, state : {"active", "paused"},
     next : 0..MaxClock, revision : Nat, deleted : BOOLEAN]
Records == [state : {"none", "running", "completed"}, by : Claimants]
Ticks == [phase : {"idle", "pick", "claimed", "called", "ran", "advance"}, at : 0..MaxClock,
          batch : Seq(Due), paid : BOOLEAN]
CallerStates == [phase : {"idle", "loaded", "claimed", "called", "ran"},
                 schedule : Schedules \cup {NoId}, key : ManualKeys \cup {NoId}, job : Jobs]

RowsInv ==
    /\ now \in 0..MaxClock
    /\ schedules \in [Schedules -> ScheduleRows]
    /\ \A s \in Schedules :
          schedules[s].revision > 0 \/ schedules[s].deleted \/ schedules[s].state = "active" =>
              schedules[s].rule \in Recurrences

RecordsInv ==
    /\ records \in [Schedules -> [Occurrences -> Records]]
    /\ paidCalls \in [Schedules -> [Occurrences -> {0, 1}]]
    /\ \A s \in Schedules, k \in Occurrences : records[s][k].state = "none" => paidCalls[s][k] = 0

TickInv ==
    /\ tick \in Ticks
    /\ tick.phase # "idle" => tick.batch # <<>>
    /\ tick.phase = "claimed" => AboutToPay(Current.id, Current.next, <<"tick">>)

CallerInv ==
    /\ caller \in [Callers -> CallerStates]
    /\ \A x \in Callers :
          /\ caller[x].phase # "idle" =>
                caller[x].schedule \in Schedules /\ caller[x].key \in ManualKeys
          /\ caller[x].phase = "claimed" =>
                AboutToPay(caller[x].schedule, caller[x].key, <<"manual", x>>)

ScheduleInv == RowsInv /\ RecordsInv /\ TickInv /\ CallerInv

LEMMA ScheduleConstants ==
    /\ MaxClock \in Nat /\ BatchLimit \in Nat \ {0} /\ Times = 1..MaxClock
    /\ "local" \in Jobs /\ IsFiniteSet(Schedules)
    /\ \A rule \in Recurrences \cup {{}} : rule \subseteq Times
  BY ScheduleAssumption DEF Times

\* A set of numbers that has an element has a least one.
LEMMA LeastOf ==
    ASSUME NEW S \in SUBSET Nat, S # {}
    PROVE  Min(S) \in S /\ \A y \in S : Min(S) <= y
<1>1. PICK x \in S : \A y \in S : ~(<<y, x>> \in OpToRel(<, Nat))
  BY NatLessThanWellFounded, WFMin
<1>2. \A y \in S : ~(y < x)
  BY <1>1 DEF OpToRel
<1>3. \A y \in S : x <= y
  BY <1>2
<1>4. QED
  BY <1>3 DEF Min

LEMMA NextAfterIsInRule ==
    ASSUME NEW rule \in Recurrences \cup {{}}, NEW time
    PROVE  NextAfter(rule, time) \in 0..MaxClock /\ NextAfter(rule, time) \in rule \cup {0}
<1> DEFINE later == {o \in rule : o > time}
<1>1. rule \subseteq Times /\ Times \subseteq Nat /\ Times \subseteq 0..MaxClock /\ 0 \in 0..MaxClock
  BY ScheduleConstants
<1>2. CASE later = {}
  BY <1>1, <1>2 DEF NextAfter
<1>3. CASE later # {}
  <2>1. Min(later) \in later
    BY <1>1, <1>3, LeastOf
  <2>2. NextAfter(rule, time) = Min(later)
    BY <1>3 DEF NextAfter
  <2>3. QED
    BY <1>1, <2>1, <2>2
<1>4. QED
  BY <1>2, <1>3

\* What a tick has read goes on with a schedule it has read, or ends.
LEMMA RestOfBatch ==
    ASSUME TickInv, tick.phase # "idle"
    PROVE  /\ Current \in Due /\ Current.id \in Schedules /\ Current.next \in Occurrences
           /\ Rest(tick) \in Ticks /\ Rest(tick).phase \in {"idle", "pick"}
           /\ Rest(tick).phase # "idle" => Rest(tick).batch # <<>>
           /\ IdleTick \in Ticks /\ IdleTick.phase = "idle"
<1>1. tick \in Ticks /\ tick.batch \in Seq(Due) /\ tick.batch # <<>>
  BY DEF TickInv, Ticks
<1>2. Current \in Due
  BY <1>1 DEF Current
<1>3. Current.id \in Schedules /\ Current.next \in Occurrences
  BY <1>2 DEF Due, Occurrences
<1>4. IdleTick \in Ticks /\ IdleTick.phase = "idle"
  BY ScheduleConstants DEF IdleTick, Ticks
<1>5. Len(tick.batch) # 1 => Tail(tick.batch) \in Seq(Due) /\ Tail(tick.batch) # <<>>
  <2>1. ASSUME NEW q \in Seq(Due), q # <<>>, Len(q) # 1
        PROVE  Tail(q) \in Seq(Due) /\ Tail(q) # <<>>
    <3>1. Len(q) \in Nat /\ Len(q) # 0
      BY <2>1
    <3>2. Tail(q) \in Seq(Due) /\ Len(Tail(q)) = Len(q) - 1
      BY <2>1
    <3>3. Len(Tail(q)) # 0
      BY <2>1, <3>1, <3>2
    <3>4. Len(<< >>) = 0
      OBVIOUS
    <3>5. Tail(q) # << >>
      BY <3>3, <3>4, Zenon
    <3>6. QED
      BY <3>2, <3>5
  <2>2. QED
    BY <1>1, <2>1
<1>6. CASE Len(tick.batch) = 1
  BY <1>2, <1>3, <1>4, <1>6 DEF Rest
<1>7. CASE Len(tick.batch) # 1
  <2>1. Rest(tick) = [tick EXCEPT !.phase = "pick", !.batch = Tail(tick.batch)]
    BY <1>7 DEF Rest
  <2>2. QED
    BY <1>1, <1>2, <1>3, <1>4, <1>5, <1>7, <2>1 DEF Ticks
<1>8. QED
  BY <1>6, <1>7

-----------------------------------------------------------------------------
\* What is due is read as rows that exist, and there is one to begin with.
LEMMA BatchesAreDue ==
    ASSUME RowsInv, DueNow # {}, NEW batch \in Batches
    PROVE  batch \in Seq(Due) /\ batch # <<>> /\ \A i \in DOMAIN batch : batch[i] \in DueNow
<1> DEFINE live == {r \in Schedules : /\ Exists(r) /\ schedules[r].state = "active"
                                      /\ schedules[r].next \in 1..now}
           Row(s) == [id |-> s, rule |-> schedules[s].rule, job |-> schedules[s].job,
                      next |-> schedules[s].next, revision |-> schedules[s].revision]
<1>1. DueNow = {Row(s) : s \in live}
  BY DEF DueNow
<1>2. DueNow \subseteq Due
  <2>1. ASSUME NEW s \in live PROVE Row(s) \in Due
    <3>1. schedules[s] \in ScheduleRows /\ s \in Schedules
      BY DEF RowsInv
    <3>2. schedules[s].rule \in Recurrences
      BY <3>1 DEF RowsInv, Exists
    <3>3. schedules[s].next \in Times
      BY <3>1, ScheduleConstants DEF RowsInv
    <3>4. QED
      BY <3>1, <3>2, <3>3 DEF Due, ScheduleRows
  <2>2. QED
    BY <1>1, <2>1
<1>3. IsFiniteSet(DueNow) /\ Cardinality(DueNow) \in Nat \ {0}
  <2>1. IsFiniteSet(live)
    BY ScheduleConstants, FS_Subset
  <2>2. [s \in live |-> Row(s)] \in Surjection(live, DueNow)
    BY <1>1 DEF Surjection
  <2>3. IsFiniteSet(DueNow)
    BY <2>1, <2>2, FS_Surjection
  <2>4. QED
    BY <2>3, FS_CardinalityType, FS_EmptySet
<1>4. PICK b0 \in SUBSET DueNow : /\ Cardinality(b0) = Min({BatchLimit, Cardinality(DueNow)})
                                  /\ batch \in SetToSeqs(b0)
  BY DEF Batches
<1>5. Cardinality(b0) \in Nat \ {0}
  <2>1. {BatchLimit, Cardinality(DueNow)} \subseteq Nat \ {0} /\ BatchLimit \in Nat
    BY <1>3, ScheduleConstants
  <2>2. Min({BatchLimit, Cardinality(DueNow)}) \in {BatchLimit, Cardinality(DueNow)}
    BY <2>1, LeastOf
  <2>3. QED
    BY <1>4, <2>1, <2>2
<1>6. batch \in [1..Cardinality(b0) -> b0]
  BY <1>4 DEF SetToSeqs
<1>7. batch \in [1..Cardinality(b0) -> Due]
  BY <1>2, <1>4, <1>6
<1>8. QED
  <2>1. batch \in Seq(Due) /\ Len(batch) = Cardinality(b0)
    BY <1>5, <1>7
  <2>2. \A i \in DOMAIN batch : batch[i] \in DueNow
    BY <1>4, <1>6
  <2>3. QED
    BY <1>5, <2>1, <2>2

-----------------------------------------------------------------------------
\* A claim is of a row that was not there; a row that is there keeps its claimant, and
\* while it is running only its claimant changes it.
LEMMA RecordsKept ==
    ASSUME RecordsInv, NEW s0 \in Schedules, NEW k0 \in Occurrences,
           \/ \E who \in Claimants : Claim(s0, k0, who)
           \/ (Complete(s0, k0) /\ Replayed(s0, k0)) \/ Record(s0, k0),
           UNCHANGED paidCalls
    PROVE  /\ RecordsInv'
           /\ \A s \in Schedules, k \in Occurrences : <<s, k>> # <<s0, k0>> => records'[s][k] = records[s][k]
<1>1. /\ records \in [Schedules -> [Occurrences -> Records]]
      /\ paidCalls \in [Schedules -> [Occurrences -> {0, 1}]]
      /\ \A s \in Schedules, k \in Occurrences : records[s][k].state = "none" => paidCalls[s][k] = 0
  BY DEF RecordsInv
<1>2. PICK row \in Records : /\ records' = [records EXCEPT ![s0][k0] = row]
                             /\ row.state = "none" => records[s0][k0].state = "none"
  <2>1. records[s0][k0] \in Records
    BY <1>1
  <2>2. CASE \E who \in Claimants : Claim(s0, k0, who)
    <3>1. PICK who \in Claimants : Claim(s0, k0, who)
      BY <2>2
    <3>2. [state |-> "running", by |-> who] \in Records
      BY DEF Records
    <3>3. QED
      BY <2>1, <3>1, <3>2 DEF Claim
  <2>3. CASE Complete(s0, k0) /\ Replayed(s0, k0)
    <3>1. records' = [records EXCEPT ![s0][k0] = [records[s0][k0] EXCEPT !.state = "completed"]]
      BY <1>1, <2>3 DEF Complete
    <3>2. [records[s0][k0] EXCEPT !.state = "completed"] \in Records
      BY <2>1 DEF Records
    <3>3. QED
      BY <2>1, <3>1, <3>2 DEF Records
  <2>4. CASE Record(s0, k0)
    <3>1. [state |-> "completed", by |-> <<"tick">>] \in Records
      BY DEF Records, Claimants
    <3>2. QED
      BY <2>1, <2>4, <3>1 DEF Record
  <2>5. QED
    BY <2>2, <2>3, <2>4
<1>3. records' \in [Schedules -> [Occurrences -> Records]]
  BY <1>1, <1>2
<1>4. \A s \in Schedules, k \in Occurrences :
          records'[s][k] = IF s = s0 /\ k = k0 THEN row ELSE records[s][k]
  BY <1>1, <1>2
<1>5. QED
  BY <1>1, <1>2, <1>3, <1>4 DEF RecordsInv

\* Whoever is about to pay is so still, unless the claim it holds is completed by itself.
LEMMA PayersAreLeftAlone ==
    ASSUME NEW s \in Schedules, NEW k \in Occurrences, NEW who, AboutToPay(s, k, who),
           NEW s0 \in Schedules, NEW k0 \in Occurrences,
           RecordsInv, UNCHANGED paidCalls,
           \/ \E other \in Claimants : Claim(s0, k0, other)
           \/ Record(s0, k0)
           \/ \E other \in Claimants : Complete(s0, k0) /\ Holds(s0, k0, other) /\ other # who
    PROVE  AboutToPay(s, k, who)'
<1>1. records[s][k] = [state |-> "running", by |-> who] /\ paidCalls'[s][k] = 0
  BY DEF AboutToPay, Holds
<1>2. Replayed(s, k)
  BY <1>1 DEF Replayed
<1>3. records \in [Schedules -> [Occurrences -> Records]]
  BY DEF RecordsInv
<1>4. records'[s][k] = records[s][k]
  <2>1. CASE \E other \in Claimants : Claim(s0, k0, other)
    BY <1>2, <1>3, <2>1 DEF Claim
  <2>2. CASE Record(s0, k0)
    BY <1>2, <1>3, <2>2 DEF Record
  <2>3. CASE \E other \in Claimants : Complete(s0, k0) /\ Holds(s0, k0, other) /\ other # who
    <3>1. ~(s = s0 /\ k = k0)
      BY <1>1, <2>3 DEF Holds
    <3>2. QED
      BY <1>3, <2>3, <3>1 DEF Complete
  <2>4. QED
    BY <2>1, <2>2, <2>3
<1>5. QED
  BY <1>1, <1>4 DEF AboutToPay, Holds

\* A claim of a row that was not there is the claimant's, unpaid.
LEMMA ClaimIsUnpaid ==
    ASSUME RecordsInv, NEW s \in Schedules, NEW k \in Occurrences, NEW who,
           Claim(s, k, who), ~Replayed(s, k), UNCHANGED paidCalls
    PROVE  AboutToPay(s, k, who)'
  BY DEF RecordsInv, Claim, Replayed, AboutToPay, Holds

\* A payment is of a claim that was not paid for, and leaves the other claims alone.
LEMMA PaymentIsFirst ==
    ASSUME RecordsInv, NEW s0 \in Schedules, NEW k0 \in Occurrences, NEW payer,
           AboutToPay(s0, k0, payer), CallModel(s0, k0), UNCHANGED records
    PROVE  /\ RecordsInv'
           /\ \A s, k, who : AboutToPay(s, k, who) /\ who # payer => AboutToPay(s, k, who)'
<1>1. paidCalls' = [paidCalls EXCEPT ![s0][k0] = 1]
  BY DEF CallModel, AboutToPay, RecordsInv
<1>2. \A s \in Schedules, k \in Occurrences :
          paidCalls'[s][k] = IF s = s0 /\ k = k0 THEN 1 ELSE paidCalls[s][k]
  BY <1>1 DEF RecordsInv
<1>3. records[s0][k0] = [state |-> "running", by |-> payer]
  BY DEF AboutToPay, Holds
<1>4. RecordsInv'
  BY <1>1, <1>2, <1>3 DEF RecordsInv
<1>5. ASSUME NEW s, NEW k, NEW who, AboutToPay(s, k, who), who # payer
      PROVE  AboutToPay(s, k, who)'
  BY <1>2, <1>3, <1>5 DEF AboutToPay, Holds
<1>6. QED
  BY <1>4, <1>5

-----------------------------------------------------------------------------
\* What the user changes are the rows of the schedules alone.
LEMMA UserKeepsSchedules ==
    ASSUME ScheduleInv, UserChanges \/ TimePasses
    PROVE  ScheduleInv'
<1>1. /\ now \in 0..MaxClock /\ schedules \in [Schedules -> ScheduleRows]
      /\ \A s \in Schedules :
            schedules[s].revision > 0 \/ schedules[s].deleted \/ schedules[s].state = "active" =>
              schedules[s].rule \in Recurrences
  BY DEF ScheduleInv, RowsInv
<1>2. UNCHANGED <<records, tick, caller, paidCalls>>
  BY DEF UserChanges, TimePasses, CreateSchedule, UpdateSchedule, PauseSchedule, ResumeSchedule,
     DeleteSchedule, RestoreSchedule, Change, rows
<1>3. RecordsInv' /\ TickInv' /\ CallerInv'
  BY <1>2 DEF ScheduleInv, RecordsInv, TickInv, CallerInv, AboutToPay, Holds, Current
<1>4. CASE TimePasses
  BY <1>1, <1>3, <1>4, ScheduleConstants DEF TimePasses, rows, ScheduleInv, RowsInv
<1>5. ASSUME NEW s \in Schedules, NEW row \in ScheduleRows, row.rule \in Recurrences, Change(s, row)
      PROVE  RowsInv'
  <2>1. now' = now /\ schedules' = [schedules EXCEPT ![s] = [row EXCEPT !.revision = row.revision + 1]]
    BY <1>5 DEF Change
  <2>2. [row EXCEPT !.revision = row.revision + 1] \in ScheduleRows
    BY <1>5 DEF ScheduleRows
  <2>3. [row EXCEPT !.revision = row.revision + 1].rule = row.rule
    BY <1>5 DEF ScheduleRows
  <2>4. QED
    BY <1>1, <1>5, <2>1, <2>2, <2>3 DEF RowsInv
<1>6. ASSUME NEW s \in Schedules, NEW rule \in Recurrences, NEW job \in Jobs,
             CreateSchedule(s, rule, job) \/ UpdateSchedule(s, rule, job)
      PROVE  RowsInv'
  <2>1. NextAfter(rule, now) \in 0..MaxClock /\ 0 \in 0..MaxClock
    BY NextAfterIsInRule, ScheduleConstants
  <2>2. CASE CreateSchedule(s, rule, job)
    <3> DEFINE row == [NoSchedule EXCEPT !.rule = rule, !.job = job, !.state = "active",
                                        !.next = NextAfter(rule, now)]
    <3>1. row \in ScheduleRows /\ row.rule = rule
      BY <2>1 DEF NoSchedule, ScheduleRows
    <3>2. Change(s, row)
      BY <2>2 DEF CreateSchedule
    <3> HIDE DEF row
    <3>3. QED
      BY <1>5, <3>1, <3>2
  <2>3. CASE UpdateSchedule(s, rule, job)
    <3> DEFINE row == [schedules[s] EXCEPT !.rule = rule, !.job = job,
                    !.next = IF schedules[s].state = "active" THEN NextAfter(rule, now) ELSE 0]
    <3>1. row \in ScheduleRows /\ row.rule = rule
      BY <1>1, <2>1 DEF ScheduleRows
    <3>2. Change(s, row)
      BY <2>3 DEF UpdateSchedule
    <3> HIDE DEF row
    <3>3. QED
      BY <1>5, <3>1, <3>2
  <2>4. QED
    BY <1>6, <2>2, <2>3
<1>7. ASSUME NEW s \in Schedules,
             PauseSchedule(s) \/ ResumeSchedule(s) \/ DeleteSchedule(s)
      PROVE  RowsInv'
  <2>1. schedules[s] \in ScheduleRows /\ schedules[s].rule \in Recurrences /\ 0 \in 0..MaxClock
    BY <1>1, <1>7, ScheduleConstants DEF PauseSchedule, ResumeSchedule, DeleteSchedule, Exists
  <2>2. NextAfter(schedules[s].rule, now) \in 0..MaxClock
    BY <2>1, NextAfterIsInRule
  <2>3. PICK row : /\ Change(s, row)
                   /\ \/ row = [schedules[s] EXCEPT !.state = "paused", !.next = 0]
                      \/ row = [schedules[s] EXCEPT !.state = "active",
                                                    !.next = NextAfter(schedules[s].rule, now)]
                      \/ row = [schedules[s] EXCEPT !.next = 0, !.deleted = TRUE]
    BY <1>7 DEF PauseSchedule, ResumeSchedule, DeleteSchedule
  <2>4. row \in ScheduleRows /\ row.rule = schedules[s].rule
    BY <2>1, <2>2, <2>3 DEF ScheduleRows
  <2>5. QED
    BY <1>5, <2>1, <2>3, <2>4
<1>8. ASSUME NEW s \in Schedules, RestoreSchedule(s)
      PROVE  RowsInv'
  <2>1. schedules[s] \in ScheduleRows
    BY <1>1
  <2>2. NextAfter(schedules[s].rule, now) \in 0..MaxClock /\ 0 \in 0..MaxClock
    BY <2>1, NextAfterIsInRule, ScheduleConstants DEF ScheduleRows
  <2>3. PICK next \in 0..MaxClock, state \in {"active", "paused"} :
            Change(s, [schedules[s] EXCEPT !.next = next, !.deleted = FALSE, !.state = state])
    <3> DEFINE next == IF schedules[s].state = "active" THEN NextAfter(schedules[s].rule, now) ELSE 0
               state == IF next = 0 THEN "paused" ELSE schedules[s].state
    <3>1. Change(s, [schedules[s] EXCEPT !.next = next, !.deleted = FALSE, !.state = state])
      BY <1>8 DEF RestoreSchedule
    <3>2. next \in 0..MaxClock /\ state \in {"active", "paused"}
      BY <2>1, <2>2 DEF ScheduleRows
    <3> HIDE DEF next, state
    <3>3. QED
      BY <3>1, <3>2
  <2> DEFINE row == [schedules[s] EXCEPT !.next = next, !.deleted = FALSE, !.state = state]
  <2>4. row \in ScheduleRows /\ row.rule = schedules[s].rule
    BY <2>1 DEF ScheduleRows
  <2>5. Change(s, row)
    BY <2>3
  <2>6. schedules[s].rule \in Recurrences
    BY <1>1, <1>8 DEF RestoreSchedule
  <2> HIDE DEF row
  <2>7. QED
    BY <1>5, <2>4, <2>5, <2>6
<1>9. CASE UserChanges
  <2>1. RowsInv'
    BY <1>6, <1>7, <1>8, <1>9 DEF UserChanges
  <2>2. QED
    BY <1>3, <2>1 DEF ScheduleInv
<1>10. QED
  BY <1>4, <1>9

-----------------------------------------------------------------------------
\* The claimants are the scheduler and each of the callers.
LEMMA ClaimantsDiffer ==
    /\ <<"tick">> \in Claimants
    /\ \A x \in Callers : <<"manual", x>> \in Claimants /\ <<"manual", x>> # <<"tick">>
    /\ \A x, y \in Callers : <<"manual", x>> = <<"manual", y>> => x = y
<1>1. \A x \in Callers : <<"manual", x>>[1] = "manual" /\ <<"tick">>[1] = "tick"
  OBVIOUS
<1>2. \A x \in Callers : <<"manual", x>> # <<"tick">>
  BY <1>1
<1>3. \A x, y \in Callers : <<"manual", x>> = <<"manual", y>> => x = y
  OBVIOUS
<1>4. QED
  BY <1>2, <1>3 DEF Claimants

LEMMA CallersRest ==
    ASSUME CallerInv, UNCHANGED caller,
           \A s, k, who : AboutToPay(s, k, who) /\ who # <<"tick">> => AboutToPay(s, k, who)'
    PROVE  CallerInv'
  BY ClaimantsDiffer DEF CallerInv

LEMMA TickRests ==
    ASSUME TickInv, UNCHANGED tick, NEW actor, actor # <<"tick">>,
           \A s, k, who : AboutToPay(s, k, who) /\ who # actor => AboutToPay(s, k, who)'
    PROVE  TickInv'
  BY DEF TickInv, Current

\* A step on the rows of the occurrences leaves whoever else is about to pay alone.
LEMMA RecordStep ==
    ASSUME RecordsInv, NEW s0 \in Schedules, NEW k0 \in Occurrences, NEW actor \in Claimants,
           Claim(s0, k0, actor) \/ Record(s0, k0) \/ (Complete(s0, k0) /\ Holds(s0, k0, actor)),
           UNCHANGED paidCalls
    PROVE  /\ RecordsInv'
           /\ \A s, k, who : AboutToPay(s, k, who) /\ who # actor => AboutToPay(s, k, who)'
<1>1. Holds(s0, k0, actor) => Replayed(s0, k0)
  BY DEF Holds, Replayed
<1>2. RecordsInv'
  BY <1>1, RecordsKept
<1>3. ASSUME NEW s, NEW k, NEW who, AboutToPay(s, k, who), who # actor
      PROVE  AboutToPay(s, k, who)'
  <2>1. s \in Schedules /\ k \in Occurrences
    BY <1>3 DEF AboutToPay
  <2>2. QED
    BY <1>3, <2>1, PayersAreLeftAlone
<1>4. QED
  BY <1>2, <1>3

\* Nobody else's payment is disturbed when no row changes.
LEMMA RecordsRest ==
    ASSUME UNCHANGED <<records, paidCalls>>
    PROVE  /\ RecordsInv => RecordsInv'
           /\ \A s, k, who : AboutToPay(s, k, who) => AboutToPay(s, k, who)'
<1>1. RecordsInv => RecordsInv'
  BY DEF RecordsInv
<1>2. ASSUME NEW s, NEW k, NEW who, AboutToPay(s, k, who) PROVE AboutToPay(s, k, who)'
  BY <1>2 DEF AboutToPay, Holds
<1>3. QED
  BY <1>1, <1>2

\* The scheduler keeps the invariant.
LEMMA SchedulerKeepsSchedules ==
    ASSUME ScheduleInv, Scheduler
    PROVE  ScheduleInv'
<1>1. RowsInv /\ RecordsInv /\ TickInv /\ CallerInv
  BY DEF ScheduleInv
<1>2. now' = now /\ caller' = caller
  BY DEF Scheduler, ReadDue, PostponePaid, ClaimDue, CallDueModel, CompleteDue, RunDue, RecordDue,
     AdvanceDue, SchedulerFault, TickOnly
<1>3. ASSUME UNCHANGED <<schedules, records, paidCalls>>, tick' \in Ticks,
             tick'.phase # "idle" => tick'.batch # << >>, tick'.phase # "claimed"
      PROVE  ScheduleInv'
  <2>1. RecordsInv' /\ CallerInv'
    BY <1>1, <1>2, <1>3, RecordsRest, CallersRest
  <2>2. RowsInv' /\ TickInv'
    BY <1>1, <1>2, <1>3 DEF RowsInv, TickInv
  <2>3. QED
    BY <2>1, <2>2 DEF ScheduleInv
<1>4. CASE ReadDue
  <2>1. PICK batch \in Batches :
            tick' = [phase |-> "pick", at |-> now, batch |-> batch, paid |-> FALSE]
    BY <1>4 DEF ReadDue
  <2>2. batch \in Seq(Due) /\ batch # << >>
    BY <1>1, <1>4, <2>1, BatchesAreDue DEF ReadDue
  <2>3. tick' \in Ticks
    BY <1>1, <2>1, <2>2 DEF RowsInv, Ticks
  <2>4. UNCHANGED <<schedules, records, paidCalls>>
    BY <1>4 DEF ReadDue, rows
  <2>5. QED
    BY <1>3, <2>1, <2>2, <2>3, <2>4
<1>5. CASE PostponePaid
  <2>1. tick' = Rest(tick) /\ tick.phase # "idle" /\ UNCHANGED <<schedules, records, paidCalls>>
    BY <1>5 DEF PostponePaid, rows
  <2>2. QED
    BY <1>1, <1>3, <2>1, RestOfBatch
<1>6. CASE SchedulerFault
  <2>1. tick' = IdleTick /\ tick.phase # "idle" /\ UNCHANGED <<schedules, records, paidCalls>>
    BY <1>6 DEF SchedulerFault, FaultedTick, rows
  <2>2. QED
    BY <1>1, <1>3, <2>1, RestOfBatch
<1>7. CASE RunDue
  <2>1. tick' = [tick EXCEPT !.phase = "ran"] /\ tick.phase # "idle"
        /\ UNCHANGED <<schedules, records, paidCalls>>
    BY <1>7 DEF RunDue, rows
  <2>2. tick' \in Ticks /\ tick'.phase = "ran" /\ tick'.batch = tick.batch /\ tick.batch # << >>
    BY <1>1, <2>1 DEF TickInv, Ticks
  <2>3. QED
    BY <1>3, <2>1, <2>2
<1>8. ASSUME tick.phase # "idle",
             \/ Claim(Current.id, Current.next, <<"tick">>) \/ Record(Current.id, Current.next)
             \/ (Complete(Current.id, Current.next) /\ Holds(Current.id, Current.next, <<"tick">>)),
             UNCHANGED <<schedules, paidCalls>>, tick' \in Ticks,
             tick'.batch = tick.batch, tick'.phase = "advance"
      PROVE  ScheduleInv'
  <2>1. Current.id \in Schedules /\ Current.next \in Occurrences /\ <<"tick">> \in Claimants
    BY <1>1, <1>8, RestOfBatch, ClaimantsDiffer
  <2>2. /\ RecordsInv'
        /\ \A s, k, who : AboutToPay(s, k, who) /\ who # <<"tick">> => AboutToPay(s, k, who)'
    BY <1>1, <1>8, <2>1, RecordStep
  <2>3. CallerInv'
    BY <1>1, <1>2, <2>2, CallersRest
  <2>4. RowsInv' /\ TickInv'
    BY <1>1, <1>2, <1>8 DEF RowsInv, TickInv
  <2>5. QED
    BY <2>2, <2>3, <2>4 DEF ScheduleInv
<1>9. CASE ClaimDue
  <2>1. tick.phase = "pick" /\ UNCHANGED <<schedules, paidCalls>> /\ tick \in Ticks /\ tick.batch # << >>
    BY <1>1, <1>9 DEF ClaimDue, TickInv
  <2>2. CASE ~Exists(Current.id)
    BY <1>1, <1>3, <1>9, <2>1, <2>2, RestOfBatch DEF ClaimDue
  <2>3. CASE Exists(Current.id) /\ Replayed(Current.id, Current.next)
    <3>1. /\ Claim(Current.id, Current.next, <<"tick">>)
          /\ tick' = [[tick EXCEPT !.paid = TRUE] EXCEPT !.phase = "advance"]
      BY <1>9, <2>3 DEF ClaimDue, AfterReplay
    <3>2. tick' \in Ticks /\ tick'.batch = tick.batch /\ tick'.phase = "advance"
      BY <2>1, <3>1 DEF Ticks
    <3>3. QED
      BY <1>8, <2>1, <3>1, <3>2
  <2>4. CASE Exists(Current.id) /\ ~Replayed(Current.id, Current.next)
    <3>1. /\ Claim(Current.id, Current.next, <<"tick">>)
          /\ tick' = [tick EXCEPT !.phase = "claimed", !.paid = TRUE]
      BY <1>9, <2>4 DEF ClaimDue
    <3>2. Current.id \in Schedules /\ Current.next \in Occurrences /\ <<"tick">> \in Claimants
      BY <1>1, <2>1, RestOfBatch, ClaimantsDiffer
    <3>3. /\ RecordsInv'
          /\ \A s, k, who : AboutToPay(s, k, who) /\ who # <<"tick">> => AboutToPay(s, k, who)'
      BY <1>1, <2>1, <3>1, <3>2, RecordStep
    <3>4. CallerInv'
      BY <1>1, <1>2, <3>3, CallersRest
    <3>5. tick' \in Ticks /\ tick'.batch = tick.batch /\ tick'.phase = "claimed"
      BY <2>1, <3>1 DEF Ticks
    <3>6. \A s \in Schedules, k \in Occurrences :
              s = Current.id /\ k = Current.next => AboutToPay(s, k, <<"tick">>)'
      BY <1>1, <2>1, <2>4, <3>1, ClaimIsUnpaid
    <3>7. AboutToPay(Current.id, Current.next, <<"tick">>)'
      <4>1. Current' = Current
        BY <3>5 DEF Current
      <4>2. PICK s \in Schedules, k \in Occurrences : s = Current.id /\ k = Current.next
        BY <3>2
      <4>3. AboutToPay(s, k, <<"tick">>)'
        BY <3>6, <4>2
      <4>4. QED
        BY <4>1, <4>2, <4>3
    <3>8. RowsInv' /\ TickInv'
      BY <1>1, <1>2, <2>1, <3>5, <3>7 DEF RowsInv, TickInv
    <3>9. QED
      BY <3>3, <3>4, <3>8 DEF ScheduleInv
  <2>5. QED
    BY <2>2, <2>3, <2>4
<1>10. CASE CallDueModel
  <2>1. /\ tick.phase = "claimed" /\ UNCHANGED <<schedules, records>>
        /\ CallModel(Current.id, Current.next) /\ tick' = [tick EXCEPT !.phase = "called"]
    BY <1>10 DEF CallDueModel, rows
  <2>2. AboutToPay(Current.id, Current.next, <<"tick">>) /\ tick \in Ticks /\ tick.batch # << >>
    BY <1>1, <2>1 DEF TickInv
  <2>3. Current.id \in Schedules /\ Current.next \in Occurrences
    BY <2>2 DEF AboutToPay
  <2>4. /\ RecordsInv'
        /\ \A s, k, who : AboutToPay(s, k, who) /\ who # <<"tick">> => AboutToPay(s, k, who)'
    BY <1>1, <2>1, <2>2, <2>3, PaymentIsFirst
  <2>5. CallerInv'
    BY <1>1, <1>2, <2>4, CallersRest
  <2>6. tick' \in Ticks /\ tick'.batch = tick.batch /\ tick'.phase = "called"
    BY <2>1, <2>2 DEF Ticks
  <2>7. RowsInv' /\ TickInv'
    BY <1>1, <1>2, <2>1, <2>2, <2>6 DEF RowsInv, TickInv
  <2>8. QED
    BY <2>4, <2>5, <2>7 DEF ScheduleInv
<1>11. CASE CompleteDue
  <2>1. tick.phase = "called" /\ UNCHANGED <<schedules, paidCalls>> /\ tick \in Ticks /\ tick.batch # << >>
    BY <1>1, <1>11 DEF CompleteDue, TickInv
  <2>2. CASE ~Holds(Current.id, Current.next, <<"tick">>)
    BY <1>1, <1>3, <1>11, <2>1, <2>2, RestOfBatch DEF CompleteDue
  <2>3. CASE Holds(Current.id, Current.next, <<"tick">>)
    <3>1. Complete(Current.id, Current.next) /\ tick' = [tick EXCEPT !.phase = "advance"]
      BY <1>11, <2>3 DEF CompleteDue
    <3>2. tick' \in Ticks /\ tick'.batch = tick.batch /\ tick'.phase = "advance"
      BY <2>1, <3>1 DEF Ticks
    <3>3. QED
      BY <1>8, <2>1, <2>3, <3>1, <3>2
  <2>4. QED
    BY <2>2, <2>3
<1>12. CASE RecordDue
  <2>1. tick.phase = "ran" /\ UNCHANGED <<schedules, paidCalls>> /\ tick \in Ticks /\ tick.batch # << >>
    BY <1>1, <1>12 DEF RecordDue, TickInv
  <2>2. CASE ~Exists(Current.id)
    BY <1>1, <1>3, <1>12, <2>1, <2>2, RestOfBatch DEF RecordDue
  <2>3. CASE Exists(Current.id)
    <3>1. Record(Current.id, Current.next) /\ tick' = [tick EXCEPT !.phase = "advance"]
      BY <1>12, <2>3 DEF RecordDue
    <3>2. tick' \in Ticks /\ tick'.batch = tick.batch /\ tick'.phase = "advance"
      BY <2>1, <3>1 DEF Ticks
    <3>3. QED
      BY <1>8, <2>1, <3>1, <3>2
  <2>4. QED
    BY <2>2, <2>3
<1>13. CASE AdvanceDue
  <2> DEFINE next == NextAfter(Current.rule, tick.at)
  <2>1. tick.phase = "advance" /\ tick' = Rest(tick) /\ UNCHANGED <<records, paidCalls>>
    BY <1>13 DEF AdvanceDue
  <2>2. Current \in Due /\ Current.id \in Schedules /\ Current.rule \in Recurrences
    BY <1>1, <2>1, RestOfBatch DEF Due
  <2>3. next \in 0..MaxClock
    BY <2>2, NextAfterIsInRule
  <2>4. /\ schedules \in [Schedules -> ScheduleRows] /\ schedules[Current.id] \in ScheduleRows
        /\ \A s \in Schedules :
              schedules[s].revision > 0 \/ schedules[s].deleted \/ schedules[s].state = "active" =>
                  schedules[s].rule \in Recurrences
    BY <1>1, <2>2 DEF RowsInv
  <2> DEFINE old == schedules[Current.id]
             row == Advanced(old, next)
  <2>5. schedules' = [schedules EXCEPT ![Current.id] = IF Advances(old, Current) THEN row ELSE old]
    BY <1>13 DEF AdvanceDue
  <2> HIDE DEF next
  <2>6. row \in ScheduleRows /\ row.rule = old.rule
    <3>1. old \in ScheduleRows /\ old.revision + 1 \in Nat
      BY <2>4 DEF ScheduleRows
    <3> HIDE DEF old
    <3>2. QED
      BY <2>3, <3>1 DEF ScheduleRows, Advanced
  <2>7. Advances(schedules[Current.id], Current) => row.rule \in Recurrences
    BY <2>2, <2>4, <2>6 DEF Advances
  <2> HIDE DEF row
  <2>8. schedules' = schedules
        \/ (row.rule \in Recurrences /\ schedules' = [schedules EXCEPT ![Current.id] = row])
    BY <2>2, <2>4, <2>5, <2>7
  <2>9. RowsInv'
    BY <1>1, <1>2, <2>2, <2>4, <2>6, <2>8 DEF RowsInv
  <2>10. RecordsInv' /\ CallerInv'
    BY <1>1, <1>2, <2>1, RecordsRest, CallersRest
  <2>11. TickInv'
    BY <1>1, <2>1, RestOfBatch DEF TickInv
  <2>12. QED
    BY <2>9, <2>10, <2>11 DEF ScheduleInv
<1>14. QED
  BY <1>4, <1>5, <1>6, <1>7, <1>9, <1>10, <1>11, <1>12, <1>13 DEF Scheduler

\* So do the requests that run a schedule by hand.
LEMMA ManualKeepsSchedules ==
    ASSUME ScheduleInv, NEW x \in Callers,
           \/ \E s \in Schedules, k \in ManualKeys : RequestRun(x, s, k)
           \/ BeginManual(x) \/ CallManualModel(x) \/ FinishManual(x) \/ AbandonManual(x)
    PROVE  ScheduleInv'
<1> DEFINE me == <<"manual", x>>
           s0 == caller[x].schedule
           k0 == caller[x].key
<1>1. RowsInv /\ RecordsInv /\ TickInv /\ CallerInv
  BY DEF ScheduleInv
<1>2. now' = now /\ schedules' = schedules /\ tick' = tick
  BY DEF RequestRun, BeginManual, CallManualModel, FinishManual, AbandonManual, CallerOnly
<1>3. RowsInv'
  BY <1>1, <1>2 DEF RowsInv
<1>4. /\ caller \in [Callers -> CallerStates] /\ caller[x] \in CallerStates
      /\ caller[x].phase # "idle" => s0 \in Schedules /\ k0 \in ManualKeys /\ k0 \in Occurrences
      /\ caller[x].phase = "claimed" => AboutToPay(s0, k0, me)
      /\ IdleCaller \in CallerStates /\ IdleCaller.phase = "idle"
  BY <1>1, ScheduleConstants DEF CallerInv, Occurrences, IdleCaller, CallerStates
<1>5. me \in Claimants /\ me # <<"tick">> /\ \A y \in Callers : y # x => <<"manual", y>> # me
  BY ClaimantsDiffer
\* The others are where they were, and may still pay.
<1>6. ASSUME RecordsInv',
             \A s, k, who : AboutToPay(s, k, who) /\ who # me => AboutToPay(s, k, who)',
             NEW state \in CallerStates, caller' = [caller EXCEPT ![x] = state],
             state.phase # "idle" => state.schedule \in Schedules /\ state.key \in ManualKeys,
             state.phase = "claimed" => AboutToPay(state.schedule, state.key, me)'
      PROVE  ScheduleInv'
  <2>1. TickInv'
    BY <1>1, <1>2, <1>5, <1>6, TickRests
  <2>2. \A y \in Callers : caller'[y] = IF y = x THEN state ELSE caller[y]
    BY <1>4, <1>6
  <2>3. ASSUME NEW y \in Callers, caller'[y].phase = "claimed",
               NEW s, s = caller'[y].schedule, NEW k, k = caller'[y].key
        PROVE  AboutToPay(s, k, <<"manual", y>>)'
    <3>1. CASE y = x
      BY <1>6, <2>2, <2>3, <3>1
    <3>2. CASE y # x
      <4>1. AboutToPay(s, k, <<"manual", y>>) /\ <<"manual", y>> # me
        BY <1>1, <1>5, <2>2, <2>3, <3>2 DEF CallerInv
      <4>2. QED
        BY <1>6, <2>2, <3>2, <4>1
    <3>3. QED
      BY <3>1, <3>2
  <2>4. \A y \in Callers : caller'[y].phase # "idle" =>
            caller'[y].schedule \in Schedules /\ caller'[y].key \in ManualKeys
    BY <1>1, <1>6, <2>2 DEF CallerInv
  <2>5. CallerInv'
    <3>1. caller' \in [Callers -> CallerStates]
      BY <1>4, <1>6
    <3>2. \A y \in Callers : caller'[y].phase = "claimed" =>
              AboutToPay(caller[y].schedule, caller[y].key, <<"manual", y>>)'
      BY <2>3 DEF AboutToPay, Holds
    <3>3. QED
      BY <2>4, <3>1, <3>2 DEF CallerInv
  <2>6. QED
    BY <1>3, <1>6, <2>1, <2>5 DEF ScheduleInv
<1>7. CASE \E s \in Schedules, k \in ManualKeys : RequestRun(x, s, k)
  <2>1. PICK s \in Schedules, k \in ManualKeys : RequestRun(x, s, k)
    BY <1>7
  <2>2. schedules[s].job \in Jobs
    BY <1>1 DEF RowsInv, ScheduleRows
  <2>3. PICK state \in CallerStates :
            /\ caller' = [caller EXCEPT ![x] = state] /\ state.phase = "loaded"
            /\ state.schedule = s /\ state.key = k
    <3> DEFINE state == [phase |-> "loaded", schedule |-> s, key |-> k, job |-> schedules[s].job]
    <3>1. state \in CallerStates
      BY <2>2 DEF CallerStates
    <3>2. caller' = [caller EXCEPT ![x] = state]
      BY <2>1 DEF RequestRun
    <3>3. QED
      BY <3>1, <3>2
  <2>4. UNCHANGED <<records, paidCalls>>
    BY <2>1 DEF RequestRun
  <2>5. QED
    BY <1>1, <1>6, <2>3, <2>4, RecordsRest
<1>8. CASE BeginManual(x)
  <2>1. caller[x].phase = "loaded" /\ UNCHANGED paidCalls /\ s0 \in Schedules /\ k0 \in Occurrences
    BY <1>4, <1>8 DEF BeginManual
  <2>2. (Claim(s0, k0, me) /\ caller[x].job \in Paid /\ Exists(s0)) \/ (UNCHANGED records /\ ~(caller[x].job \in Paid /\ Exists(s0)))
    BY <1>8 DEF BeginManual
  <2>3. /\ RecordsInv'
        /\ \A s, k, who : AboutToPay(s, k, who) /\ who # me => AboutToPay(s, k, who)'
    BY <1>1, <1>5, <2>1, <2>2, RecordStep, RecordsRest
  <2>4. CASE Answers(x)
    BY <1>4, <1>6, <2>3, <2>4 DEF Answers
  <2>5. CASE ~Replayed(s0, k0) /\ caller[x].job \in Paid /\ Exists(s0)
             /\ caller' = [caller EXCEPT ![x].phase = "claimed"]
    <3>1. Claim(s0, k0, me)
      BY <2>2, <2>5
    <3>2. \A s \in Schedules, k \in Occurrences : s = s0 /\ k = k0 => AboutToPay(s, k, me)'
      BY <1>1, <2>1, <2>5, <3>1, ClaimIsUnpaid
    <3>3. PICK state \in CallerStates :
              /\ caller' = [caller EXCEPT ![x] = state] /\ state.phase = "claimed"
              /\ state.schedule = s0 /\ state.key = k0
      <4>1. [caller[x] EXCEPT !.phase = "claimed"] \in CallerStates
        BY <1>4 DEF CallerStates
      <4>2. QED
        BY <1>4, <2>5, <4>1 DEF CallerStates
    <3>4. AboutToPay(state.schedule, state.key, me)'
      BY <2>1, <3>2, <3>3
    <3>5. state.schedule \in Schedules /\ state.key \in ManualKeys
      BY <1>4, <2>1, <3>3
    <3>6. QED
      BY <1>6, <2>3, <3>3, <3>4, <3>5
  <2>6. CASE caller' = [caller EXCEPT ![x].phase = "ran"]
    <3>1. PICK state \in CallerStates :
              /\ caller' = [caller EXCEPT ![x] = state] /\ state.phase = "ran"
              /\ state.schedule = s0 /\ state.key = k0
      <4>1. [caller[x] EXCEPT !.phase = "ran"] \in CallerStates
        BY <1>4 DEF CallerStates
      <4>2. QED
        BY <1>4, <2>6, <4>1 DEF CallerStates
    <3>2. QED
      BY <1>4, <1>6, <2>1, <2>3, <3>1
  <2>7. QED
    BY <1>8, <2>4, <2>5, <2>6 DEF BeginManual, Moves
<1>9. CASE CallManualModel(x)
  <2>1. caller[x].phase = "claimed" /\ CallModel(s0, k0) /\ UNCHANGED records
        /\ caller' = [caller EXCEPT ![x].phase = "called"]
    BY <1>9 DEF CallManualModel, Moves
  <2>2. /\ RecordsInv'
        /\ \A s, k, who : AboutToPay(s, k, who) /\ who # me => AboutToPay(s, k, who)'
    BY <1>1, <1>4, <2>1, PaymentIsFirst
  <2>3. PICK state \in CallerStates :
            /\ caller' = [caller EXCEPT ![x] = state] /\ state.phase = "called"
            /\ state.schedule = s0 /\ state.key = k0
    <3>1. [caller[x] EXCEPT !.phase = "called"] \in CallerStates
      BY <1>4 DEF CallerStates
    <3>2. QED
      BY <1>4, <2>1, <3>1 DEF CallerStates
  <2>4. QED
    BY <1>4, <1>6, <2>1, <2>2, <2>3
<1>10. CASE FinishManual(x)
  <2>1. caller[x].phase \in {"called", "ran"} /\ UNCHANGED paidCalls /\ Answers(x)
        /\ s0 \in Schedules /\ k0 \in Occurrences
    BY <1>4, <1>10 DEF FinishManual
  <2>2. \/ (Complete(s0, k0) /\ Holds(s0, k0, me)) \/ Record(s0, k0) \/ UNCHANGED records
    BY <1>10 DEF FinishManual
  <2>3. /\ RecordsInv'
        /\ \A s, k, who : AboutToPay(s, k, who) /\ who # me => AboutToPay(s, k, who)'
    BY <1>1, <1>5, <2>1, <2>2, RecordStep, RecordsRest
  <2>4. QED
    BY <1>4, <1>6, <2>1, <2>3 DEF Answers
<1>11. CASE AbandonManual(x)
  <2>1. UNCHANGED <<records, paidCalls>> /\ Answers(x)
    BY <1>11 DEF AbandonManual
  <2>2. QED
    BY <1>1, <1>4, <1>6, <2>1, RecordsRest DEF Answers
<1>12. QED
  BY <1>7, <1>8, <1>9, <1>10, <1>11

\* A stop of Core forgets the scheduler's batch and the requests, and keeps the rows.
LEMMA RestartKeepsSchedules ==
    ASSUME ScheduleInv, CoreRestarts
    PROVE  ScheduleInv'
<1>1. /\ UNCHANGED <<schedules, records, paidCalls>> /\ now' \in now..MaxClock
      /\ tick' = IdleTick /\ caller' = [x \in Callers |-> IdleCaller]
  BY DEF CoreRestarts, rows
<1>2. now' \in 0..MaxClock
  BY <1>1, ScheduleConstants DEF ScheduleInv, RowsInv
<1>3. RowsInv' /\ RecordsInv'
  BY <1>1, <1>2, RecordsRest DEF ScheduleInv, RowsInv
<1>4. TickInv' /\ CallerInv'
  <2>1. IdleTick \in Ticks /\ IdleTick.phase = "idle"
    BY ScheduleConstants DEF IdleTick, Ticks
  <2>2. IdleCaller \in CallerStates /\ IdleCaller.phase = "idle"
    BY ScheduleConstants DEF IdleCaller, CallerStates
  <2>3. QED
    BY <1>1, <2>1, <2>2 DEF TickInv, CallerInv
<1>5. QED
  BY <1>3, <1>4 DEF ScheduleInv

LEMMA SchedulesStart == ASSUME ScheduleInit PROVE ScheduleInv
<1>1. IdleTick \in Ticks /\ IdleTick.phase = "idle" /\ IdleCaller \in CallerStates
      /\ IdleCaller.phase = "idle" /\ NoSchedule \in ScheduleRows /\ NoRecord \in Records
      /\ NoSchedule.state = "paused" /\ NoSchedule.revision = 0 /\ NoSchedule.deleted = FALSE
  BY ScheduleConstants DEF IdleTick, Ticks, IdleCaller, CallerStates, NoSchedule, ScheduleRows,
     NoRecord, Records, Claimants
<1>2. RowsInv /\ RecordsInv /\ TickInv /\ CallerInv
  BY <1>1, ScheduleConstants DEF ScheduleInit, RowsInv, RecordsInv, TickInv, CallerInv
<1>3. QED
  BY <1>2 DEF ScheduleInv

LEMMA SchedulesRest == ASSUME ScheduleInv, UNCHANGED scheduleVars PROVE ScheduleInv'
<1>1. UNCHANGED <<now, schedules, records, tick, caller, paidCalls>>
  BY DEF scheduleVars
<1>2. QED
  BY <1>1 DEF ScheduleInv, RowsInv, RecordsInv, TickInv, CallerInv, AboutToPay, Holds, Current

LEMMA ScheduleStepKeepsInv ==
    ASSUME ScheduleInv, NEW scheduler, NEW callers \in SUBSET Callers,
           ScheduleSteps(scheduler, callers)
    PROVE  ScheduleInv'
  BY UserKeepsSchedules, SchedulerKeepsSchedules, ManualKeepsSchedules, RestartKeepsSchedules
  DEF ScheduleSteps, ManualRuns

LEMMA PaidAtMostOnce == ASSUME ScheduleInv PROVE PaidOnce /\ ScheduleTypeOK
<1>1. PaidOnce
  BY DEF ScheduleInv, RecordsInv, PaidOnce
<1>2. ScheduleTypeOK
  BY DEF ScheduleInv, RowsInv, RecordsInv, TickInv, CallerInv, ScheduleRows, Records, Ticks,
     CallerStates, ScheduleTypeOK
<1>3. QED
  BY <1>1, <1>2

-----------------------------------------------------------------------------
(* Schedules: what the scheduler leaves behind *)

\* What a tick has read is a row as it is, or as it was before it was changed.
ReadBefore(due) ==
    /\ due.revision =< schedules[due.id].revision
    /\ due.revision = schedules[due.id].revision => due.rule = schedules[due.id].rule

CursorInv ==
    /\ \A s \in Schedules : schedules[s].state = "active" => schedules[s].revision > 0
    /\ \A i \in DOMAIN tick.batch : ReadBefore(tick.batch[i])
    /\ tick.phase = "advance" => Replayed(Current.id, Current.next)

\* A row that is there stays there, and one that is claimed or recorded is there.
LEMMA RecordsStay ==
    ASSUME RecordsInv, NEW s0 \in Schedules, NEW k0 \in Occurrences,
           \/ \E who \in Claimants : Claim(s0, k0, who)
           \/ (Complete(s0, k0) /\ Replayed(s0, k0)) \/ Record(s0, k0)
    PROVE  /\ \A s \in Schedules, k \in Occurrences : Replayed(s, k) => Replayed(s, k)'
           /\ Replayed(s0, k0)'
<1>1. records \in [Schedules -> [Occurrences -> Records]] /\ records[s0][k0] \in Records
  BY DEF RecordsInv
<1>2. PICK row : records' = [records EXCEPT ![s0][k0] = row] /\ row.state # "none"
  <2>1. CASE \E who \in Claimants : Claim(s0, k0, who)
    <3>1. PICK who \in Claimants : Claim(s0, k0, who)
      BY <2>1
    <3>2. [state |-> "running", by |-> who].state # "none"
      OBVIOUS
    <3>3. QED
      BY <1>1, <3>1, <3>2 DEF Claim, Replayed
  <2>2. CASE Complete(s0, k0) /\ Replayed(s0, k0)
    <3>1. records' = [records EXCEPT ![s0][k0] = [records[s0][k0] EXCEPT !.state = "completed"]]
      BY <1>1, <2>2 DEF Complete
    <3>2. [records[s0][k0] EXCEPT !.state = "completed"].state # "none"
      BY <1>1 DEF Records
    <3>3. QED
      BY <3>1, <3>2
  <2>3. CASE Record(s0, k0)
    <3>1. [state |-> "completed", by |-> <<"tick">>].state # "none"
      OBVIOUS
    <3>2. QED
      BY <1>1, <2>3, <3>1 DEF Record, Replayed
  <2>4. QED
    BY <2>1, <2>2, <2>3
<1>3. \A s \in Schedules, k \in Occurrences :
          records'[s][k] = IF s = s0 /\ k = k0 THEN row ELSE records[s][k]
  BY <1>1, <1>2
<1>4. QED
  BY <1>2, <1>3 DEF Replayed

\* A change of a row, by the user or the scheduler, makes it newer than what was read.
LEMMA ChangedIsNewer ==
    ASSUME RowsInv, NEW s0 \in Schedules, NEW row \in ScheduleRows,
           schedules' = [schedules EXCEPT ![s0] = row], row.revision = schedules[s0].revision + 1
    PROVE  /\ \A due \in Due : ReadBefore(due) => ReadBefore(due)'
           /\ CursorInv => \A s \in Schedules : schedules'[s].state = "active" => schedules'[s].revision > 0
<1>1. \A s \in Schedules : schedules[s].revision \in Nat /\ schedules'[s] = IF s = s0 THEN row ELSE schedules[s]
  BY DEF RowsInv, ScheduleRows
<1>2. row.revision \in Nat /\ row.revision > 0 /\ row.revision > schedules[s0].revision
  BY <1>1 DEF ScheduleRows
<1>3. ASSUME NEW due \in Due, ReadBefore(due) PROVE ReadBefore(due)'
  <2>1. due.id \in Schedules /\ due.revision \in Nat
    BY DEF Due
  <2>2. CASE due.id = s0
    <3>1. due.revision =< schedules[s0].revision /\ schedules'[due.id].revision = row.revision
      BY <1>1, <1>3, <2>1, <2>2 DEF ReadBefore
    <3>2. due.revision < row.revision /\ due.revision # row.revision
      BY <1>1, <1>2, <2>1, <3>1
    <3>3. due.revision =< row.revision
      BY <1>2, <2>1, <3>2
    <3>4. QED
      BY <3>1, <3>2, <3>3 DEF ReadBefore
  <2>3. CASE due.id # s0
    BY <1>1, <1>3, <2>1, <2>3 DEF ReadBefore
  <2>4. QED
    BY <2>2, <2>3
<1>4. QED
  BY <1>1, <1>2, <1>3 DEF CursorInv

\* The elements of the batch are of their type, and so are those of its rest.
LEMMA BatchElements ==
    ASSUME TickInv
    PROVE  /\ \A i \in DOMAIN tick.batch : tick.batch[i] \in Due
           /\ tick.phase # "idle" =>
                  /\ 1 \in DOMAIN tick.batch /\ Current = tick.batch[1]
                  /\ \A i \in DOMAIN Rest(tick).batch : \E j \in DOMAIN tick.batch : Rest(tick).batch[i] = tick.batch[j]
           /\ DOMAIN IdleTick.batch = {}
<1>1. tick.batch \in Seq(Due) /\ tick \in Ticks /\ (tick.phase # "idle" => tick.batch # << >>)
  BY DEF TickInv, Ticks
<1>2. \A i \in DOMAIN tick.batch : tick.batch[i] \in Due
  BY <1>1
<1>3. DOMAIN IdleTick.batch = {}
  BY DEF IdleTick
<1>4. ASSUME NEW q \in Seq(Due), q # << >>
      PROVE  /\ 1 \in DOMAIN q /\ Head(q) = q[1]
             /\ \A i \in DOMAIN Tail(q) : \E j \in DOMAIN q : Tail(q)[i] = q[j]
  <2>1. Len(q) \in Nat /\ Len(q) # 0 /\ DOMAIN q = 1 .. Len(q)
    BY <1>4
  <2>2. Tail(q) \in Seq(Due) /\ Len(Tail(q)) = Len(q) - 1 /\ DOMAIN Tail(q) = 1 .. Len(Tail(q))
    BY <1>4
  <2>3. ASSUME NEW i \in DOMAIN Tail(q) PROVE \E j \in DOMAIN q : Tail(q)[i] = q[j]
    <3>1. i + 1 \in DOMAIN q /\ Tail(q)[i] = q[i + 1]
      BY <1>4, <2>1, <2>2
    <3>2. QED
      BY <3>1
  <2>4. QED
    BY <1>4, <2>1, <2>3
<1>5. ASSUME tick.phase # "idle"
      PROVE  \A i \in DOMAIN Rest(tick).batch : \E j \in DOMAIN tick.batch : Rest(tick).batch[i] = tick.batch[j]
  <2>1. Rest(tick).batch = IF Len(tick.batch) = 1 THEN IdleTick.batch ELSE Tail(tick.batch)
    BY <1>1 DEF Rest, Ticks
  <2>2. QED
    BY <1>1, <1>3, <1>4, <1>5, <2>1
<1>6. QED
  BY <1>1, <1>2, <1>3, <1>4, <1>5 DEF Current

\* What is read as due is what the rows say.
LEMMA DueIsRead ==
    ASSUME RowsInv, DueNow # {}, NEW batch \in Batches
    PROVE  \A i \in DOMAIN batch : ReadBefore(batch[i])
<1>1. \A i \in DOMAIN batch : batch[i] \in DueNow
  BY BatchesAreDue
<1>2. ASSUME NEW due \in DueNow PROVE ReadBefore(due)
  <2>1. PICK s \in Schedules : due = [id |-> s, rule |-> schedules[s].rule, job |-> schedules[s].job,
                                      next |-> schedules[s].next, revision |-> schedules[s].revision]
    BY <1>2 DEF DueNow
  <2>2. schedules[s].revision \in Nat
    BY DEF RowsInv, ScheduleRows
  <2>3. QED
    BY <2>1, <2>2 DEF ReadBefore
<1>3. QED
  BY <1>1, <1>2

\* While the scheduler rests, what it has read gets older at most.
LEMMA CursorIsLeft ==
    ASSUME ScheduleInv, CursorInv, UNCHANGED tick,
           \A due \in Due : ReadBefore(due) => ReadBefore(due)',
           \A s \in Schedules : schedules'[s].state = "active" => schedules'[s].revision > 0,
           \A s \in Schedules, k \in Occurrences : Replayed(s, k) => Replayed(s, k)'
    PROVE  CursorInv'
<1>1. \A i \in DOMAIN tick.batch : tick.batch[i] \in Due /\ ReadBefore(tick.batch[i])
  BY BatchElements DEF ScheduleInv, CursorInv
<1>2. ASSUME NEW i \in DOMAIN tick.batch PROVE ReadBefore(tick.batch[i])'
  <2>1. PICK due \in Due : due = tick.batch[i]
    BY <1>1
  <2>2. ReadBefore(due)'
    BY <1>1, <2>1
  <2>3. QED
    BY <2>1, <2>2
<1>3. tick.phase = "advance" => Replayed(Current.id, Current.next)'
  <2> SUFFICES ASSUME tick.phase = "advance" PROVE Replayed(Current.id, Current.next)'
    OBVIOUS
  <2>1. PICK s \in Schedules, k \in Occurrences : s = Current.id /\ k = Current.next
    BY RestOfBatch DEF ScheduleInv
  <2>2. Replayed(s, k)' /\ Current' = Current
    BY <2>1 DEF CursorInv, Current
  <2>3. QED
    BY <2>1, <2>2
<1>4. QED
  BY <1>2, <1>3 DEF CursorInv

\* The user's changes and the requests by hand leave the scheduler's batch alone.
LEMMA OthersKeepCursor ==
    ASSUME ScheduleInv, CursorInv, UserChanges \/ TimePasses \/ ManualRuns(Callers)
    PROVE  CursorInv' /\ UNCHANGED tick
<1>1. RowsInv /\ RecordsInv /\ CallerInv
  BY DEF ScheduleInv
<1>2. CASE TimePasses
  <2>1. UNCHANGED <<schedules, records, tick>>
    BY <1>2 DEF TimePasses, rows
  <2>2. QED
    BY <2>1 DEF CursorInv, ReadBefore, Replayed, Current
<1>3. CASE UserChanges
  <2>1. PICK s0 \in Schedules : \E r : Change(s0, r) /\ r.revision = schedules[s0].revision
    <3>1. PICK s \in Schedules :
            \/ \E rule \in Recurrences, job \in Jobs : CreateSchedule(s, rule, job) \/ UpdateSchedule(s, rule, job)
            \/ PauseSchedule(s) \/ ResumeSchedule(s) \/ DeleteSchedule(s) \/ RestoreSchedule(s)
      BY <1>3 DEF UserChanges
    <3>2. schedules[s] \in ScheduleRows
      BY <1>1 DEF RowsInv
    <3>3. ASSUME NEW rule \in Recurrences, NEW job \in Jobs, CreateSchedule(s, rule, job)
          PROVE  \E r0 : Change(s, r0) /\ r0.revision = schedules[s].revision
      <4> DEFINE r0 == [NoSchedule EXCEPT !.rule = rule, !.job = job, !.state = "active",
                                          !.next = NextAfter(rule, now)]
      <4>1. Change(s, r0) /\ schedules[s].revision = 0
        BY <3>3 DEF CreateSchedule
      <4>2. r0.revision = 0
        BY DEF NoSchedule
      <4> HIDE DEF r0
      <4>3. QED
        BY <4>1, <4>2
    <3>4. ASSUME NEW rule \in Recurrences, NEW job \in Jobs, UpdateSchedule(s, rule, job)
          PROVE  \E r0 : Change(s, r0) /\ r0.revision = schedules[s].revision
      <4> DEFINE next == IF schedules[s].state = "active" THEN NextAfter(rule, now) ELSE 0
                 r0 == [schedules[s] EXCEPT !.rule = rule, !.job = job, !.next = next]
      <4>1. Change(s, r0)
        BY <3>4 DEF UpdateSchedule
      <4>2. r0.revision = schedules[s].revision
        BY <3>2 DEF ScheduleRows
      <4> HIDE DEF r0
      <4>3. QED
        BY <4>1, <4>2
    <3>5. ASSUME PauseSchedule(s) \/ ResumeSchedule(s) \/ DeleteSchedule(s)
          PROVE  \E r0 : Change(s, r0) /\ r0.revision = schedules[s].revision
      <4>1. PICK r0 : /\ Change(s, r0)
                      /\ \/ r0 = [schedules[s] EXCEPT !.state = "paused", !.next = 0]
                         \/ r0 = [schedules[s] EXCEPT !.state = "active",
                                                      !.next = NextAfter(schedules[s].rule, now)]
                         \/ r0 = [schedules[s] EXCEPT !.next = 0, !.deleted = TRUE]
        BY <3>5 DEF PauseSchedule, ResumeSchedule, DeleteSchedule
      <4>2. r0.revision = schedules[s].revision
        BY <3>2, <4>1 DEF ScheduleRows
      <4>3. QED
        BY <4>1, <4>2
    <3>6. ASSUME RestoreSchedule(s)
          PROVE  \E r0 : Change(s, r0) /\ r0.revision = schedules[s].revision
      <4> DEFINE next == IF schedules[s].state = "active" THEN NextAfter(schedules[s].rule, now) ELSE 0
                 state == IF next = 0 THEN "paused" ELSE schedules[s].state
                 r0 == [schedules[s] EXCEPT !.next = next, !.deleted = FALSE, !.state = state]
      <4>1. Change(s, r0)
        BY <3>6 DEF RestoreSchedule
      <4> HIDE DEF next, state
      <4>2. r0.revision = schedules[s].revision
        BY <3>2 DEF ScheduleRows
      <4> HIDE DEF r0
      <4>3. QED
        BY <4>1, <4>2
    <3>7. QED
      BY <3>1, <3>3, <3>4, <3>5, <3>6
  <2>1a. PICK r0 : Change(s0, r0) /\ r0.revision = schedules[s0].revision
    BY <2>1
  <2> DEFINE row == [r0 EXCEPT !.revision = r0.revision + 1]
  <2>2. schedules' = [schedules EXCEPT ![s0] = row] /\ UNCHANGED <<records, tick>>
    BY <2>1a DEF Change
  <2>3. row \in ScheduleRows
    <3>1. RowsInv'
      BY <1>3, UserKeepsSchedules DEF ScheduleInv
    <3>2. schedules'[s0] = row /\ schedules'[s0] \in ScheduleRows
      BY <1>1, <2>2, <3>1 DEF RowsInv
    <3>3. QED
      BY <3>2
  <2>4. row.revision = schedules[s0].revision + 1
    <3>1. "revision" \in DOMAIN row /\ DOMAIN row = DOMAIN r0
      BY <2>3 DEF ScheduleRows
    <3>2. row.revision = r0.revision + 1
      BY <3>1
    <3>3. QED
      BY <2>1a, <3>2
  <2> HIDE DEF row
  <2>5. /\ \A due \in Due : ReadBefore(due) => ReadBefore(due)'
        /\ \A s \in Schedules : schedules'[s].state = "active" => schedules'[s].revision > 0
    BY <1>1, <2>2, <2>3, <2>4, ChangedIsNewer
  <2>6. \A s \in Schedules, k \in Occurrences : Replayed(s, k) => Replayed(s, k)'
    BY <2>2 DEF Replayed
  <2>7. QED
    BY <2>2, <2>5, <2>6, CursorIsLeft
<1>4. CASE ManualRuns(Callers)
  <2>1. PICK x \in Callers :
           \/ \E s \in Schedules, k \in ManualKeys : RequestRun(x, s, k)
           \/ BeginManual(x) \/ CallManualModel(x) \/ FinishManual(x) \/ AbandonManual(x)
    BY <1>4 DEF ManualRuns
  <2>2. UNCHANGED <<schedules, tick>>
    BY <2>1 DEF RequestRun, BeginManual, CallManualModel, FinishManual, AbandonManual, CallerOnly
  <2>3. \A s \in Schedules, k \in Occurrences : Replayed(s, k) => Replayed(s, k)'
    <3> DEFINE s0 == caller[x].schedule
               k0 == caller[x].key
    <3>1. CASE UNCHANGED records
      BY <3>1 DEF Replayed
    <3>2. CASE ~UNCHANGED records
      <4>1. /\ caller[x].phase # "idle"
            /\ \/ Claim(s0, k0, <<"manual", x>>)
               \/ (Complete(s0, k0) /\ Holds(s0, k0, <<"manual", x>>))
               \/ Record(s0, k0)
        BY <2>1, <3>2 DEF RequestRun, BeginManual, CallManualModel, FinishManual, AbandonManual
      <4>2. s0 \in Schedules /\ k0 \in Occurrences /\ <<"manual", x>> \in Claimants
        BY <1>1, <4>1, ClaimantsDiffer DEF CallerInv, Occurrences
      <4>3. Holds(s0, k0, <<"manual", x>>) => Replayed(s0, k0)
        BY DEF Holds, Replayed
      <4> HIDE DEF s0, k0
      <4>4. \/ \E who \in Claimants : Claim(s0, k0, who)
            \/ (Complete(s0, k0) /\ Replayed(s0, k0)) \/ Record(s0, k0)
        BY <4>1, <4>2, <4>3
      <4>5. QED
        BY <1>1, <4>2, <4>4, RecordsStay
    <3>3. QED
      BY <3>1, <3>2
  <2>4. \A due \in Due : ReadBefore(due) => ReadBefore(due)'
    BY <2>2 DEF ReadBefore
  <2>5. \A s \in Schedules : schedules'[s].state = "active" => schedules'[s].revision > 0
    BY <2>2 DEF CursorInv
  <2>6. QED
    BY <2>2, <2>3, <2>4, <2>5, CursorIsLeft
<1>5. QED
  BY <1>2, <1>3, <1>4

\* The scheduler moves a schedule on that it has read as it is, past an occurrence
\* that has its row.
LEMMA AdvanceIsRecorded ==
    ASSUME ScheduleInv, CursorInv, AdvanceDue
    PROVE  /\ CursorInv'
           /\ \A s \in Schedules : schedules'[s] # schedules[s] =>
                 /\ Replayed(s, schedules[s].next)
                 /\ Exists(s) /\ schedules[s].state = "active"
                 /\ schedules'[s].next \in schedules[s].rule \cup {0}
<1> DEFINE next == NextAfter(Current.rule, tick.at)
           old == schedules[Current.id]
           row == Advanced(old, next)
<1>1. RowsInv /\ RecordsInv /\ TickInv
  BY DEF ScheduleInv
<1>2. tick.phase = "advance" /\ tick' = Rest(tick) /\ UNCHANGED records
  BY DEF AdvanceDue
<1>3. /\ Current \in Due /\ Current.id \in Schedules /\ Current.next \in Occurrences
      /\ Current.rule \in Recurrences /\ Current.revision \in Nat
      /\ Rest(tick).phase \in {"idle", "pick"}
  BY <1>1, <1>2, RestOfBatch DEF Due
<1>4. next \in 0..MaxClock /\ next \in Current.rule \cup {0}
  BY <1>3, NextAfterIsInRule
<1>5. /\ schedules \in [Schedules -> ScheduleRows] /\ old \in ScheduleRows
      /\ schedules' = [schedules EXCEPT ![Current.id] = IF Advances(old, Current) THEN row ELSE old]
  BY <1>1, <1>3 DEF RowsInv, AdvanceDue
<1>6. /\ 1 \in DOMAIN tick.batch /\ Current = tick.batch[1]
      /\ \A i \in DOMAIN tick.batch : tick.batch[i] \in Due
      /\ \A i \in DOMAIN Rest(tick).batch : \E j \in DOMAIN tick.batch : Rest(tick).batch[i] = tick.batch[j]
  BY <1>1, <1>2, BatchElements
<1>7. ReadBefore(Current) /\ Replayed(Current.id, Current.next)
  BY <1>2, <1>6 DEF CursorInv
<1> HIDE DEF next
<1>8. row \in ScheduleRows /\ row.revision = old.revision + 1 /\ row.next = next
  <2>1. old \in ScheduleRows /\ old.revision + 1 \in Nat
    BY <1>5 DEF ScheduleRows
  <2> HIDE DEF old
  <2>2. QED
    BY <1>4, <2>1 DEF ScheduleRows, Advanced
<1>9. CASE Advances(old, Current)
  <2> HIDE DEF row
  <2>1. schedules' = [schedules EXCEPT ![Current.id] = row]
    BY <1>5, <1>9
  <2>2. PICK s0 \in Schedules : s0 = Current.id
    BY <1>3
  <2>3. /\ \A due \in Due : ReadBefore(due) => ReadBefore(due)'
        /\ \A s \in Schedules : schedules'[s].state = "active" => schedules'[s].revision > 0
    <3>1. schedules' = [schedules EXCEPT ![s0] = row] /\ row.revision = schedules[s0].revision + 1
      BY <1>8, <2>1, <2>2
    <3>2. QED
      BY <1>1, <1>8, <3>1, ChangedIsNewer
  <2>4. ASSUME NEW i \in DOMAIN tick'.batch PROVE ReadBefore(tick.batch[i])'
    <3>1. PICK due \in Due : due = tick'.batch[i] /\ ReadBefore(due)
      BY <1>2, <1>6, <2>4 DEF CursorInv
    <3>2. ReadBefore(due)'
      BY <2>3, <3>1
    <3>3. QED
      BY <3>1, <3>2
  <2>5. CursorInv'
    BY <1>2, <1>3, <2>3, <2>4 DEF CursorInv
  <2>6. /\ Replayed(Current.id, schedules[Current.id].next)
        /\ Exists(Current.id) /\ schedules[Current.id].state = "active"
        /\ schedules'[Current.id].next \in schedules[Current.id].rule \cup {0}
    <3>1. /\ ~old.deleted /\ old.state = "active" /\ old.revision = Current.revision /\ old.next = Current.next
          /\ old.revision > 0
      BY <1>3, <1>9 DEF Advances, CursorInv
    <3>2. Current.rule = old.rule
      BY <1>7, <3>1 DEF ReadBefore
    <3>3. schedules'[Current.id].next = next
      BY <1>3, <1>5, <1>8, <2>1
    <3>4. QED
      BY <1>4, <1>7, <3>1, <3>2, <3>3 DEF Exists
  <2>7. \A s \in Schedules : s # Current.id => schedules'[s] = schedules[s]
    BY <1>5, <2>1
  <2>8. QED
    BY <2>5, <2>6, <2>7
<1>10. CASE ~Advances(old, Current)
  <2>1. schedules' = schedules
    BY <1>3, <1>5, <1>10
  <2>2. \A i \in DOMAIN Rest(tick).batch : ReadBefore(Rest(tick).batch[i])
    BY <1>6 DEF CursorInv
  <2>3. CursorInv'
    BY <1>2, <1>3, <2>1, <2>2 DEF CursorInv, ReadBefore
  <2>4. QED
    BY <2>1, <2>3
<1>11. QED
  BY <1>9, <1>10

\* Its other steps leave the rows of the schedules, and are at the advance of an
\* occurrence with the row of that occurrence only.
LEMMA SchedulerKeepsCursor ==
    ASSUME ScheduleInv, CursorInv, Scheduler, ~AdvanceDue
    PROVE  CursorInv' /\ UNCHANGED schedules
<1>1. RowsInv /\ RecordsInv /\ TickInv
  BY DEF ScheduleInv
<1>2. UNCHANGED schedules
  BY DEF Scheduler, ReadDue, PostponePaid, ClaimDue, CallDueModel, CompleteDue, RunDue, RecordDue,
     SchedulerFault, rows
<1>3. \A due : ReadBefore(due) => ReadBefore(due)'
  BY <1>2 DEF ReadBefore
<1>4. \A s \in Schedules : schedules'[s].state = "active" => schedules'[s].revision > 0
  BY <1>2 DEF CursorInv
<1>5. ASSUME tick'.phase # "advance", \A i \in DOMAIN tick'.batch : ReadBefore(tick'.batch[i])
      PROVE  CursorInv'
  BY <1>2, <1>4, <1>5 DEF CursorInv, ReadBefore
<1>6. CASE ReadDue
  <2>1. PICK batch \in Batches :
            tick' = [phase |-> "pick", at |-> now, batch |-> batch, paid |-> FALSE]
    BY <1>6 DEF ReadDue
  <2>2. \A i \in DOMAIN batch : ReadBefore(batch[i])
    BY <1>1, <1>6, DueIsRead DEF ReadDue
  <2>3. QED
    BY <1>2, <1>5, <2>1, <2>2
<1>7. ASSUME tick.phase # "idle", tick' = IdleTick \/ tick' = Rest(tick)
      PROVE  CursorInv'
  <2>1. /\ IdleTick.phase = "idle" /\ Rest(tick).phase # "advance" /\ DOMAIN IdleTick.batch = {}
        /\ \A i \in DOMAIN Rest(tick).batch : \E j \in DOMAIN tick.batch : Rest(tick).batch[i] = tick.batch[j]
    BY <1>1, <1>7, RestOfBatch, BatchElements
  <2>2. QED
    BY <1>5, <1>7, <2>1 DEF CursorInv
<1>8. ASSUME tick'.batch = tick.batch, tick'.phase # "advance" PROVE CursorInv'
  BY <1>5, <1>8 DEF CursorInv
<1>9. ASSUME tick.phase # "idle", tick'.batch = tick.batch,
             \/ Claim(Current.id, Current.next, <<"tick">>) \/ Record(Current.id, Current.next)
             \/ (Complete(Current.id, Current.next) /\ Holds(Current.id, Current.next, <<"tick">>))
      PROVE  CursorInv'
  <2>1. PICK s \in Schedules, k \in Occurrences : s = Current.id /\ k = Current.next
    BY <1>1, <1>9, RestOfBatch
  <2>2. <<"tick">> \in Claimants /\ (Holds(s, k, <<"tick">>) => Replayed(s, k))
    BY ClaimantsDiffer DEF Holds, Replayed
  <2>3. \/ \E who \in Claimants : Claim(s, k, who)
        \/ (Complete(s, k) /\ Replayed(s, k)) \/ Record(s, k)
    BY <1>9, <2>1, <2>2
  <2>4. Replayed(s, k)'
    BY <1>1, <2>3, RecordsStay
  <2>5. Current' = Current
    BY <1>9 DEF Current
  <2>6. Replayed(Current.id, Current.next)'
    BY <2>1, <2>4, <2>5
  <2>7. \A i \in DOMAIN tick'.batch : ReadBefore(tick'.batch[i])
    BY <1>9 DEF CursorInv
  <2>8. QED
    BY <1>2, <1>4, <2>6, <2>7 DEF CursorInv, ReadBefore
<1>10. CASE PostponePaid \/ SchedulerFault
  <2>1. tick.phase # "idle" /\ (tick' = IdleTick \/ tick' = Rest(tick))
    BY <1>10 DEF PostponePaid, SchedulerFault, FaultedTick
  <2>2. QED
    BY <1>2, <1>7, <2>1
<1>11. CASE RunDue \/ CallDueModel
  <2>1. tick'.batch = tick.batch /\ tick'.phase # "advance"
    BY <1>1, <1>11 DEF RunDue, CallDueModel, TickInv, Ticks
  <2>2. QED
    BY <1>2, <1>8, <2>1
<1>12. CASE ClaimDue
  <2>1. tick.phase = "pick" /\ tick \in Ticks
    BY <1>1, <1>12 DEF ClaimDue, TickInv
  <2>2. CASE tick' = IdleTick
    BY <1>2, <1>7, <2>1, <2>2
  <2>3. CASE tick' # IdleTick
    <3>1. /\ Claim(Current.id, Current.next, <<"tick">>)
          /\ \/ tick' = [[tick EXCEPT !.paid = TRUE] EXCEPT !.phase = "advance"]
             \/ tick' = [tick EXCEPT !.phase = "claimed", !.paid = TRUE]
      BY <1>12, <2>3 DEF ClaimDue, AfterReplay
    <3>2. tick'.batch = tick.batch
      BY <2>1, <3>1 DEF Ticks
    <3>3. QED
      BY <1>2, <1>9, <2>1, <3>1, <3>2
  <2>4. QED
    BY <2>2, <2>3
<1>13. CASE CompleteDue \/ RecordDue
  <2>1. tick.phase # "idle" /\ tick \in Ticks
    BY <1>1, <1>13 DEF CompleteDue, RecordDue, TickInv
  <2>2. CASE tick' = IdleTick
    BY <1>2, <1>7, <2>1, <2>2
  <2>3. CASE tick' # IdleTick
    <3>1. /\ tick' = [tick EXCEPT !.phase = "advance"]
          /\ \/ (Complete(Current.id, Current.next) /\ Holds(Current.id, Current.next, <<"tick">>))
             \/ Record(Current.id, Current.next)
      BY <1>13, <2>3 DEF CompleteDue, RecordDue
    <3>2. tick'.batch = tick.batch
      BY <2>1, <3>1 DEF Ticks
    <3>3. QED
      BY <1>2, <1>9, <2>1, <3>1, <3>2
  <2>4. QED
    BY <2>2, <2>3
<1>14. QED
  BY <1>2, <1>6, <1>10, <1>11, <1>12, <1>13 DEF Scheduler

\* One step of the scheduler, of its users, or of time.
LEMMA CursorStep ==
    ASSUME ScheduleInv, CursorInv, NEW scheduler, NEW callers \in SUBSET Callers,
           ScheduleSteps(scheduler, callers)
    PROVE  /\ CursorInv'
           /\ \A s \in Schedules : tick' # tick /\ schedules'[s] # schedules[s] =>
                 /\ Replayed(s, schedules[s].next)
                 /\ Exists(s) /\ schedules[s].state = "active"
                 /\ schedules'[s].next \in schedules[s].rule \cup {0}
<1>1. CASE CoreRestarts
  <2>1. UNCHANGED <<schedules, records>> /\ tick' = IdleTick
    BY <1>1 DEF CoreRestarts, rows
  <2>2. IdleTick.phase = "idle" /\ DOMAIN IdleTick.batch = {}
    BY DEF IdleTick
  <2>3. QED
    BY <2>1, <2>2 DEF CursorInv
<1>2. CASE UserChanges \/ TimePasses \/ ManualRuns(Callers)
  BY <1>2, OthersKeepCursor
<1>3. CASE Scheduler
  <2>1. CASE AdvanceDue
    BY <2>1, AdvanceIsRecorded
  <2>2. CASE ~AdvanceDue
    BY <1>3, <2>2, SchedulerKeepsCursor
  <2>3. QED
    BY <2>1, <2>2
<1>4. ManualRuns(callers) => ManualRuns(Callers)
  BY DEF ManualRuns
<1>5. QED
  BY <1>1, <1>2, <1>3, <1>4 DEF ScheduleSteps

LEMMA CursorStarts == ASSUME ScheduleInit PROVE CursorInv
<1>1. tick.batch = << >> /\ tick.phase = "idle" /\ \A s \in Schedules : schedules[s].state = "paused"
  BY DEF ScheduleInit, IdleTick, NoSchedule
<1>2. QED
  BY <1>1 DEF CursorInv

LEMMA CursorRests == ASSUME CursorInv, UNCHANGED scheduleVars PROVE CursorInv'
<1>1. UNCHANGED <<schedules, records, tick>>
  BY DEF scheduleVars
<1>2. QED
  BY <1>1 DEF CursorInv, ReadBefore, Replayed, Current

-----------------------------------------------------------------------------
(* Extension packages, tool calls and the run: the inductive invariant *)

Handled == {"checked", "created", "running"}

\* What is enabled was enabled from a page that showed it.
PackagesInv ==
    /\ package \in [Packages -> [manifest : AnyManifest, state : PackageStates]]
    /\ revision \in [Packages -> [Manifests -> RevisionStates]]
    /\ installed \in [Packages -> Seq(Manifests)]
    /\ \A p \in Packages : ToSet(installed[p]) = {m \in Manifests : revision[p][m] # "none"}
    /\ page \in [Pages -> [about : Packages, manifest : AnyManifest]]
    /\ sessionActive \in BOOLEAN
    /\ \A p \in Packages :
          /\ package[p].state = "enabled" => <<p, package[p].manifest>> \in admitted
          /\ package[p].manifest # NoManifest => revision[p][package[p].manifest] # "none"

\* A call that was reviewed is of a version that was enabled from its page.
Reviewable(call) ==
    \E r \in ResolvedCalls : call = {r} /\ <<r.tool, r.catalog[r.tool]>> \in admitted

\* A client's handler works on the call that its client reviewed.
ClientsInv ==
    /\ client \in [ToolCallers ->
           [step : {"idle", "reviewed"} \cup Handled, call : SUBSET ResolvedCalls,
            resolved : SUBSET ResolvedCalls, key : SUBSET CallKeys]]
    /\ \A x \in ToolCallers :
          /\ client[x].step # "idle" => Reviewable(client[x].call)
          /\ client[x].step \in Handled =>
                client[x].resolved = client[x].call /\ \E k \in CallKeys : client[x].key = {k}

\* The row of a key is there before its process is started, by the one who wrote it.
ExecutionsInv ==
    /\ execution \in [CallKeys ->
           [state : {"none", "running", "succeeded", "failed"}, call : SUBSET ResolvedCalls]]
    /\ started \in [CallKeys -> {0, 1}]
    /\ \A k \in CallKeys : execution[k].state = "none" => started[k] = 0
    /\ \A x \in ToolCallers, k \in CallKeys :
          client[x].step = "created" /\ client[x].key = {k} =>
              /\ execution[k].state # "none" /\ started[k] = 0
              /\ \A y \in ToolCallers : client[y].step = "created" /\ client[y].key = {k} => y = x

RunInv ==
    /\ run \in [step : {"none", "created", "proposed", "approved", "done"}, skill : AnyManifest,
                allowed : SUBSET Tools, proposal : SUBSET (Tools \X Manifests)]
    /\ run.step = "none" => prompted = {}
    /\ prompted \subseteq {run.skill}

RanInv ==
    \A call \in ran : call.by = "session" =>
        call.version = call.reviewed /\ <<call.tool, call.version>> \in admitted

ToolInv == PackagesInv /\ ClientsInv /\ ExecutionsInv /\ RunInv /\ RanInv

LEMMA AppendedElements ==
    ASSUME NEW S, NEW q \in Seq(S), NEW x \in S
    PROVE  ToSet(Append(q, x)) = ToSet(q) \cup {x}
<1>1. /\ DOMAIN Append(q, x) = 1..Len(q) + 1 /\ DOMAIN q = 1..Len(q) /\ Len(q) \in Nat
      /\ Append(q, x)[Len(q) + 1] = x
      /\ \A n \in 1..Len(q) : Append(q, x)[n] = q[n]
  OBVIOUS
<1>2. \A n : n \in 1..Len(q) + 1 <=> n \in 1..Len(q) \/ n = Len(q) + 1
  BY <1>1
<1>3. QED
  BY <1>1, <1>2 DEF ToSet

LEMMA PackagesAre ==
    /\ Tools \subseteq Packages /\ Skill \in Packages
    /\ NoManifest \notin Manifests /\ NoManifest \in AnyManifest /\ Manifests \subseteq AnyManifest
  BY ToolAssumption DEF Packages, AnyManifest

\* Calls, executions and the run are as they were when only packages have changed.
LEMMA PackagesOnly ==
    ASSUME ToolInv, PackagesInv', admitted \subseteq admitted', UNCHANGED <<callVars, runVars, ran>>
    PROVE  ToolInv'
<1>1. UNCHANGED <<client, execution, started, run, prompted, ran>>
  BY DEF callVars, runVars
<1>2. \A call : Reviewable(call) => Reviewable(call)'
  BY DEF Reviewable
<1>3. ClientsInv'
  BY <1>1, <1>2 DEF ToolInv, ClientsInv
<1>4. ExecutionsInv' /\ RunInv' /\ RanInv'
  BY <1>1 DEF ToolInv, ExecutionsInv, RunInv, RanInv
<1>5. QED
  BY <1>3, <1>4 DEF ToolInv

LEMMA PackageStepKeepsTools ==
    ASSUME ToolInv, NEW ps \in SUBSET Packages, PackageSteps(ps)
    PROVE  ToolInv'
<1> USE PackagesAre
<1>1. PackagesInv /\ UNCHANGED <<callVars, runVars, ran>>
  BY DEF ToolInv, PackageSteps
<1>2. /\ package \in [Packages -> [manifest : AnyManifest, state : PackageStates]]
      /\ revision \in [Packages -> [Manifests -> RevisionStates]]
      /\ installed \in [Packages -> Seq(Manifests)]
      /\ \A p \in Packages : ToSet(installed[p]) = {m \in Manifests : revision[p][m] # "none"}
      /\ page \in [Pages -> [about : Packages, manifest : AnyManifest]]
      /\ sessionActive \in BOOLEAN
      /\ \A p \in Packages :
            /\ package[p].state = "enabled" => <<p, package[p].manifest>> \in admitted
            /\ package[p].manifest # NoManifest => revision[p][package[p].manifest] # "none"
  BY <1>1 DEF PackagesInv
<1>3. ASSUME NEW x \in Pages, NEW p \in ps, OpenPage(x, p) PROVE ToolInv'
  <2>1. page' = [page EXCEPT ![x] = [about |-> p, manifest |-> package[p].manifest]]
        /\ UNCHANGED <<package, revision, installed, sessionActive, admitted>>
    BY <1>3 DEF OpenPage
  <2>2. page' \in [Pages -> [about : Packages, manifest : AnyManifest]]
    BY <1>2, <2>1
  <2>3. PackagesInv'
    BY <1>2, <2>1, <2>2 DEF PackagesInv
  <2>4. QED
    BY <1>1, <2>1, <2>3, PackagesOnly
\* One package is replaced, by a manifest that is not enabled or that its page shows.
<1>4. ASSUME NEW p \in Packages, NEW row \in [manifest : AnyManifest, state : PackageStates],
             package' = [package EXCEPT ![p] = row],
             revision' \in [Packages -> [Manifests -> RevisionStates]],
             installed' \in [Packages -> Seq(Manifests)],
             \A q \in Packages : ToSet(installed'[q]) = {m \in Manifests : revision'[q][m] # "none"},
             admitted \subseteq admitted', UNCHANGED <<page, sessionActive>>,
             row.state = "enabled" => <<p, row.manifest>> \in admitted',
             \A q \in Packages : q # p => revision'[q] = revision[q],
             revision'[p][row.manifest] # "none"
      PROVE  ToolInv'
  <2>1. package' \in [Packages -> [manifest : AnyManifest, state : PackageStates]]
    BY <1>2, <1>4
  <2>2. \A q \in Packages : package'[q] = IF q = p THEN row ELSE package[q]
    BY <1>2, <1>4
  <2>3. \A q \in Packages :
            /\ package'[q].state = "enabled" => <<q, package'[q].manifest>> \in admitted'
            /\ package'[q].manifest # NoManifest => revision'[q][package'[q].manifest] # "none"
    BY <1>2, <1>4, <2>2
  <2>4. PackagesInv'
    BY <1>2, <1>4, <2>1, <2>3 DEF PackagesInv
  <2>5. QED
    BY <1>1, <1>4, <2>4, PackagesOnly
\* The states of revisions that are there change among themselves.
<1>5. ASSUME NEW p \in Packages, revision' \in [Packages -> [Manifests -> RevisionStates]],
             \A q \in Packages, m \in Manifests : (revision'[q][m] = "none") = (revision[q][m] = "none"),
             installed' = installed
      PROVE  \A q \in Packages : ToSet(installed'[q]) = {m \in Manifests : revision'[q][m] # "none"}
  BY <1>2, <1>5
<1>6. ASSUME NEW p \in ps, NEW m \in Manifests, InstallExtension(p, m) PROVE ToolInv'
  <2> DEFINE row == Quarantined(p, m)
  <2>1. /\ package' = [package EXCEPT ![p] = row] /\ UNCHANGED <<page, sessionActive, admitted>>
        /\ revision' = [revision EXCEPT ![p] =
             [v \in Manifests |-> IF v = m THEN "quarantined"
                                  ELSE IF revision[p][v] = "enabled" THEN "superseded" ELSE revision[p][v]]]
        /\ installed' = [installed EXCEPT ![p] =
             IF revision[p][m] = "none" THEN Append(installed[p], m) ELSE installed[p]]
    BY <1>6 DEF InstallExtension
  <2>2. row \in [manifest : AnyManifest, state : PackageStates] /\ row.state # "enabled" /\ p \in Packages
    BY DEF Quarantined, PackageStates
  <2>3. revision' \in [Packages -> [Manifests -> RevisionStates]]
    BY <1>2, <2>1, <2>2 DEF RevisionStates, PackageStates
  <2>4. installed' \in [Packages -> Seq(Manifests)]
    BY <1>2, <2>1, <2>2
  <2>5. ASSUME NEW q \in Packages
        PROVE  ToSet(installed'[q]) = {v \in Manifests : revision'[q][v] # "none"}
    <3>1. CASE q # p
      BY <1>2, <2>1, <2>2, <3>1
    <3>2. CASE q = p
      <4>1. \A v \in Manifests : revision'[p][v] # "none" <=> v = m \/ revision[p][v] # "none"
        BY <1>2, <2>1, <2>2
      <4>2. ToSet(installed'[p]) = ToSet(installed[p]) \cup {m}
        <5>1. CASE revision[p][m] = "none"
          <6>1. installed'[p] = Append(installed[p], m) /\ installed[p] \in Seq(Manifests)
            BY <1>2, <2>1, <2>2, <5>1
          <6>2. ToSet(Append(installed[p], m)) = ToSet(installed[p]) \cup {m}
            BY <6>1, AppendedElements
          <6>3. QED
            BY <6>1, <6>2
        <5>2. CASE revision[p][m] # "none"
          <6>1. installed'[p] = installed[p] /\ m \in ToSet(installed[p])
            BY <1>2, <2>1, <2>2, <5>2
          <6>2. QED
            BY <6>1
        <5>3. QED
          BY <5>1, <5>2
      <4>3. QED
        BY <1>2, <2>2, <3>2, <4>1, <4>2
    <3>3. QED
      BY <3>1, <3>2
  <2>6. revision'[p][row.manifest] # "none" /\ \A q \in Packages : q # p => revision'[q] = revision[q]
    BY <1>2, <2>1, <2>2 DEF Quarantined
  <2> HIDE DEF row
  <2>7. QED
    BY <1>4, <2>1, <2>2, <2>3, <2>4, <2>5, <2>6
<1>7. ASSUME NEW x \in Pages, NEW state \in {"enabled", "disabled"}, SetExtensionState(x, state)
      PROVE  ToolInv'
  <2> DEFINE p == page[x].about
             row == [package[p] EXCEPT !.state = state]
  <2>1. p \in Packages /\ package[p] \in [manifest : AnyManifest, state : PackageStates]
    BY <1>2
  <2>2. /\ package' = [package EXCEPT ![p] = row] /\ UNCHANGED <<installed, page, sessionActive>>
        /\ revision' = [revision EXCEPT ![p][package[p].manifest] = state]
        /\ package[p].manifest = page[x].manifest /\ page[x].manifest # NoManifest
        /\ admitted' = IF state = "enabled" THEN admitted \cup {<<p, page[x].manifest>>} ELSE admitted
    BY <1>2, <1>7, <2>1 DEF SetExtensionState, IsCurrent
  <2>3. row \in [manifest : AnyManifest, state : PackageStates] /\ row.state = state
        /\ row.manifest = package[p].manifest
    BY <2>1 DEF PackageStates
  <2>4. revision' \in [Packages -> [Manifests -> RevisionStates]]
    BY <1>2, <2>2 DEF RevisionStates, PackageStates
  <2>5. package[p].manifest \in Manifests /\ revision[p][package[p].manifest] # "none"
    BY <1>2, <2>1, <2>2 DEF AnyManifest
  <2>6. /\ \A q \in Packages, m \in Manifests : (revision'[q][m] = "none") = (revision[q][m] = "none")
        /\ \A q \in Packages : q # p => revision'[q] = revision[q]
        /\ revision'[p][row.manifest] # "none"
    BY <1>2, <2>1, <2>2, <2>3, <2>5
  <2>7. \A q \in Packages : ToSet(installed'[q]) = {m \in Manifests : revision'[q][m] # "none"}
    BY <1>5, <2>1, <2>2, <2>4, <2>6
  <2>8. admitted \subseteq admitted' /\ (row.state = "enabled" => <<p, row.manifest>> \in admitted')
    BY <2>2, <2>3
  <2> HIDE DEF row, p
  <2>9. package' = [package EXCEPT ![p] = row] /\ UNCHANGED <<page, sessionActive>>
        /\ installed' \in [Packages -> Seq(Manifests)]
    BY <1>2, <2>2
  <2>10. QED
    BY <1>4, <2>1, <2>3, <2>4, <2>6, <2>7, <2>8, <2>9
<1>8. ASSUME NEW x \in Pages, NEW m \in Manifests, RollbackExtension(x, m) PROVE ToolInv'
  <2> DEFINE p == page[x].about
             row == Quarantined(p, m)
  <2>1. p \in Packages
    BY <1>2
  <2>2. /\ package' = [package EXCEPT ![p] = row] /\ UNCHANGED <<installed, page, sessionActive, admitted>>
        /\ revision' = [revision EXCEPT ![p][m] = "quarantined"] /\ revision[p][m] # "none"
    BY <1>8 DEF RollbackExtension
  <2>3. row \in [manifest : AnyManifest, state : PackageStates] /\ row.state # "enabled"
    BY DEF Quarantined, PackageStates
  <2>4. revision' \in [Packages -> [Manifests -> RevisionStates]]
    BY <1>2, <2>2 DEF RevisionStates, PackageStates
  <2>5. \A q \in Packages, v \in Manifests : (revision'[q][v] = "none") = (revision[q][v] = "none")
    BY <1>2, <2>1, <2>2
  <2>6. \A q \in Packages : ToSet(installed'[q]) = {v \in Manifests : revision'[q][v] # "none"}
    BY <1>5, <2>1, <2>2, <2>4, <2>5
  <2>7. revision'[p][row.manifest] # "none" /\ \A q \in Packages : q # p => revision'[q] = revision[q]
    BY <1>2, <2>1, <2>2 DEF Quarantined
  <2> HIDE DEF row, p
  <2>8. QED
    BY <1>2, <1>4, <2>1, <2>2, <2>3, <2>4, <2>6, <2>7
<1>9. CASE ArchiveSession
  <2>1. sessionActive' = FALSE /\ UNCHANGED <<package, revision, installed, page, admitted>>
    BY <1>9 DEF ArchiveSession
  <2>2. PackagesInv'
    BY <1>2, <2>1 DEF PackagesInv
  <2>3. QED
    BY <1>1, <2>1, <2>2, PackagesOnly
<1>10. QED
  BY <1>3, <1>6, <1>7, <1>8, <1>9 DEF PackageSteps

-----------------------------------------------------------------------------
\* What is resolved now is one call, of a version that is enabled.
LEMMA ResolvedIsReviewable ==
    ASSUME PackagesInv, NEW t \in Tools, Resolve(t) # {}
    PROVE  Reviewable(Resolve(t)) /\ Resolve(t) \subseteq ResolvedCalls
<1> USE PackagesAre
<1> DEFINE r == [tool |-> t, catalog |-> Catalog]
<1>1. Resolve(t) = {r} /\ Catalog[t] # NoManifest
  BY DEF Resolve
<1>2. Catalog \in Catalogs
  BY DEF PackagesInv, Catalog, Catalogs
<1>3. r \in ResolvedCalls
  BY <1>2 DEF ResolvedCalls
<1>4. package[t].state = "enabled" /\ Catalog[t] = package[t].manifest
  BY <1>1 DEF Catalog
<1>5. <<t, Catalog[t]>> \in admitted
  BY <1>4 DEF PackagesInv
<1>6. QED
  BY <1>1, <1>3, <1>5 DEF Reviewable

\* The tool and the key a handler works on.
LEMMA HandlerKnows ==
    ASSUME ClientsInv, NEW x \in ToolCallers, client[x].step \in Handled
    PROVE  /\ KeyOf(x) \in CallKeys /\ client[x].key = {KeyOf(x)}
           /\ \E r \in ResolvedCalls :
                 /\ client[x].call = {r} /\ client[x].resolved = {r} /\ ToolOf(x) = r.tool
                 /\ <<r.tool, r.catalog[r.tool]>> \in admitted
<1>1. PICK k \in CallKeys : client[x].key = {k}
  BY DEF ClientsInv
<1>2. KeyOf(x) = k
  BY <1>1 DEF KeyOf
<1>3. client[x].step # "idle"
  BY DEF Handled
<1>4. Reviewable(client[x].call) /\ client[x].resolved = client[x].call
  BY <1>3 DEF ClientsInv
<1>5. PICK r \in ResolvedCalls : client[x].call = {r} /\ <<r.tool, r.catalog[r.tool]>> \in admitted
  BY <1>4 DEF Reviewable
<1>6. ToolOf(x) = r.tool
  BY <1>5 DEF ToolOf
<1>7. QED
  BY <1>1, <1>2, <1>4, <1>5, <1>6

\* A client's state after a step, and the states of the others.
ClientStates ==
    [step : {"idle", "reviewed"} \cup Handled, call : SUBSET ResolvedCalls,
     resolved : SUBSET ResolvedCalls, key : SUBSET CallKeys]

LEMMA ClientMoves ==
    ASSUME ClientsInv, admitted' = admitted, NEW x \in ToolCallers, NEW state \in ClientStates,
           client' = [client EXCEPT ![x] = state],
           state.step # "idle" => Reviewable(state.call),
           state.step \in Handled => state.resolved = state.call /\ \E k \in CallKeys : state.key = {k}
    PROVE  ClientsInv' /\ \A y \in ToolCallers : client'[y] = IF y = x THEN state ELSE client[y]
<1>1. client \in [ToolCallers -> ClientStates]
  BY DEF ClientsInv, ClientStates
<1>2. client' \in [ToolCallers -> ClientStates]
  BY <1>1
<1>3. \A y \in ToolCallers : client'[y] = IF y = x THEN state ELSE client[y]
  BY <1>1
<1>4. \A call : Reviewable(call) => Reviewable(call)'
  BY DEF Reviewable
<1>5. ASSUME NEW y \in ToolCallers
      PROVE  /\ client'[y].step # "idle" => Reviewable(client'[y].call)
             /\ client'[y].step \in Handled =>
                  client'[y].resolved = client'[y].call /\ \E k \in CallKeys : client'[y].key = {k}
  BY <1>3 DEF ClientsInv
<1>6. ClientsInv'
  <2>1. \A y \in ToolCallers : client'[y].step # "idle" => Reviewable(client[y].call)'
    BY <1>5 DEF Reviewable
  <2>2. QED
    BY <1>2, <1>5, <2>1 DEF ClientsInv, ClientStates
<1>7. QED
  BY <1>3, <1>6

\* The steps of a session's call keep the invariant.
LEMMA CallStepKeepsTools ==
    ASSUME ToolInv, CallSteps
    PROVE  ToolInv'
<1> USE DEF ClientStates
<1>1. PackagesInv /\ ClientsInv /\ ExecutionsInv /\ RunInv /\ RanInv
  BY DEF ToolInv
<1>2. UNCHANGED <<package, revision, installed, page, sessionActive, admitted, run, prompted>>
  BY DEF CallSteps, packageVars, runVars
<1>3. PackagesInv' /\ RunInv'
  BY <1>1, <1>2 DEF PackagesInv, RunInv
<1>4. client \in [ToolCallers -> ClientStates] /\ \A x \in ToolCallers : client[x] \in ClientStates
  BY <1>1 DEF ClientsInv
\* A client that is not about to start a process may be so no more.
<1>5. ASSUME NEW x \in ToolCallers, NEW state \in ClientStates,
             client' = [client EXCEPT ![x] = state], state.step # "created",
             state.step # "idle" => Reviewable(state.call),
             state.step \in Handled => state.resolved = state.call /\ \E k \in CallKeys : state.key = {k},
             UNCHANGED <<execution, started, ran>>
      PROVE  ToolInv'
  <2>1. ClientsInv' /\ \A y \in ToolCallers : client'[y] = IF y = x THEN state ELSE client[y]
    BY <1>1, <1>2, <1>5, ClientMoves
  <2>2. ExecutionsInv'
    BY <1>1, <1>5, <2>1 DEF ExecutionsInv
  <2>3. RanInv'
    BY <1>1, <1>2, <1>5 DEF RanInv
  <2>4. QED
    BY <1>3, <2>1, <2>2, <2>3 DEF ToolInv
\* What a handler leaves behind when it has answered.
<1>6. ASSUME NEW x \in ToolCallers, client[x].step # "idle"
      PROVE  /\ [step |-> "reviewed", call |-> client[x].call, resolved |-> {}, key |-> {}] \in ClientStates
             /\ Reviewable(client[x].call)
  BY <1>1, <1>4, <1>6 DEF ClientsInv, Handled
<1>7. ASSUME NEW x \in ToolCallers, LeaveCall(x) PROVE ToolInv'
  <2>1. /\ client' = [client EXCEPT ![x] =
               [step |-> "reviewed", call |-> client[x].call, resolved |-> {}, key |-> {}]]
        /\ client[x].step # "idle" /\ UNCHANGED <<execution, started, ran>>
    BY <1>7 DEF LeaveCall, Answer
  <2>2. QED
    BY <1>5, <1>6, <2>1 DEF Handled
<1>8. ASSUME NEW x \in ToolCallers, NEW t \in Tools, PreviewCall(x, t) PROVE ToolInv'
  <2>1. Resolve(t) # {} /\ UNCHANGED <<execution, started, ran>>
        /\ client' = [client EXCEPT ![x].step = "reviewed", ![x].call = Resolve(t)]
    BY <1>8 DEF PreviewCall
  <2>2. Reviewable(Resolve(t)) /\ Resolve(t) \subseteq ResolvedCalls
    BY <1>1, <2>1, ResolvedIsReviewable
  <2> DEFINE state == [client[x] EXCEPT !.step = "reviewed", !.call = Resolve(t)]
  <2>3. state \in ClientStates /\ state.step = "reviewed" /\ state.call = Resolve(t)
    BY <1>4, <2>2
  <2>4. client' = [client EXCEPT ![x] = state]
    BY <1>4, <2>1
  <2> HIDE DEF state
  <2>5. QED
    BY <1>5, <2>1, <2>2, <2>3, <2>4 DEF Handled
<1>9. ASSUME NEW x \in ToolCallers, NEW k \in CallKeys, CheckCall(x, k) PROVE ToolInv'
  <2>1. client[x].step = "reviewed" /\ UNCHANGED <<execution, started, ran>>
        /\ Resolve(ToolOf(x)) = client[x].call
        /\ client' = [client EXCEPT ![x].step = "checked",
                                    ![x].resolved = Resolve(ToolOf(x)), ![x].key = {k}]
    BY <1>9 DEF CheckCall, StillAsReviewed
  <2> DEFINE state == [client[x] EXCEPT !.step = "checked", !.resolved = client[x].call, !.key = {k}]
  <2>2. state \in ClientStates /\ state.step = "checked" /\ state.call = client[x].call
        /\ state.resolved = client[x].call /\ state.key = {k}
    BY <1>4 DEF Handled
  <2>3. client' = [client EXCEPT ![x] = state]
    BY <1>4, <2>1
  <2>4. Reviewable(client[x].call)
    BY <1>6, <2>1
  <2> HIDE DEF state
  <2>5. QED
    BY <1>5, <2>1, <2>2, <2>3, <2>4
<1>10. ASSUME NEW x \in ToolCallers, CreateExecution(x) PROVE ToolInv'
  <2>1. client[x].step = "checked" /\ UNCHANGED <<started, ran>>
    BY <1>10 DEF CreateExecution
  <2> DEFINE k == KeyOf(x)
  <2>2. k \in CallKeys /\ client[x].key = {k}
    BY <1>1, <2>1, HandlerKnows DEF Handled
  <2>3. CASE NotYetMade(k)
    <3>1. /\ execution' = [execution EXCEPT ![k] = [state |-> "running", call |-> client[x].resolved]]
          /\ client' = [client EXCEPT ![x].step = "created"] /\ execution[k].state = "none"
      BY <1>10, <2>3 DEF CreateExecution, Serving, NotYetMade
    <3> DEFINE state == [client[x] EXCEPT !.step = "created"]
    <3>2. state \in ClientStates /\ state.step = "created" /\ state.call = client[x].call
          /\ state.resolved = client[x].resolved /\ state.key = client[x].key
      BY <1>4 DEF Handled
    <3>3. client' = [client EXCEPT ![x] = state]
      BY <1>4, <3>1
    <3>4. Reviewable(client[x].call) /\ client[x].resolved = client[x].call
      BY <1>1, <2>1 DEF ClientsInv, Handled
    <3> HIDE DEF state
    <3>5. ClientsInv' /\ \A y \in ToolCallers : client'[y] = IF y = x THEN state ELSE client[y]
      <4>1. state.resolved = state.call /\ (\E l \in CallKeys : state.key = {l}) /\ admitted' = admitted
        BY <1>2, <2>2, <3>2, <3>4
      <4>2. Reviewable(state.call)
        BY <3>2, <3>4
      <4>3. /\ state.step # "idle" => Reviewable(state.call)
            /\ state.step \in Handled => state.resolved = state.call /\ \E l \in CallKeys : state.key = {l}
        BY <4>1, <4>2
      <4>4. ClientsInv /\ admitted' = admitted /\ state \in ClientStates
        BY <1>1, <3>2, <4>1
      <4> HIDE DEF ClientStates
      <4>5. QED
        BY <3>3, <4>3, <4>4, ClientMoves
    <3>6. ExecutionsInv'
      <4>1. execution' \in [CallKeys ->
               [state : {"none", "running", "succeeded", "failed"}, call : SUBSET ResolvedCalls]]
        BY <1>1, <1>4, <3>1 DEF ExecutionsInv
      <4>2. started[k] = 0 /\ started' = started /\ execution'[k].state = "running"
            /\ \A l \in CallKeys : l # k => execution'[l] = execution[l]
        BY <1>1, <2>1, <2>2, <3>1 DEF ExecutionsInv
      <4>3. \A y \in ToolCallers : y # x /\ client[y].step = "created" => client[y].key # {k}
        BY <1>1, <2>2, <3>1 DEF ExecutionsInv
      <4>4. ASSUME NEW y \in ToolCallers, NEW l \in CallKeys,
                   client'[y].step = "created", client'[y].key = {l}
            PROVE  /\ execution'[l].state # "none" /\ started'[l] = 0
                   /\ \A z \in ToolCallers : client'[z].step = "created" /\ client'[z].key = {l} => z = y
        <5>1. CASE y = x
          <6>1. l = k
            BY <2>2, <3>2, <3>5, <4>4, <5>1
          <6>2. QED
            BY <3>5, <4>2, <4>3, <5>1, <6>1
        <5>2. CASE y # x
          <6>1. l # k
            BY <3>5, <4>3, <4>4, <5>2
          <6>2. client[y].step = "created" /\ client[y].key = {l} /\ execution'[l] = execution[l]
            BY <3>5, <4>2, <4>4, <5>2, <6>1
          <6>3. /\ execution[l].state # "none" /\ started[l] = 0
                /\ \A z \in ToolCallers : client[z].step = "created" /\ client[z].key = {l} => z = y
            BY <1>1, <6>2 DEF ExecutionsInv
          <6>4. \A z \in ToolCallers : client'[z].step = "created" /\ client'[z].key = {l} =>
                    client[z].step = "created" /\ client[z].key = {l}
            BY <2>2, <3>2, <3>5, <6>1
          <6>5. QED
            BY <4>2, <6>2, <6>3, <6>4
        <5>3. QED
          BY <5>1, <5>2
      <4>5. QED
        BY <1>1, <4>1, <4>2, <4>4 DEF ExecutionsInv
    <3>7. RanInv'
      BY <1>1, <1>2, <2>1 DEF RanInv
    <3>8. QED
      BY <1>3, <3>5, <3>6, <3>7 DEF ToolInv
  <2>4. CASE ~NotYetMade(k)
    <3>1. client' = [client EXCEPT ![x] =
               [step |-> "reviewed", call |-> client[x].call, resolved |-> {}, key |-> {}]]
          /\ UNCHANGED execution
      BY <1>10, <2>4 DEF CreateExecution, Answer
    <3>2. QED
      BY <1>5, <1>6, <2>1, <3>1 DEF Handled
  <2>5. QED
    BY <2>3, <2>4
\* A row that is completed is there as it was before.
<1>11. ASSUME NEW x \in ToolCallers, client[x].step \in {"created", "running"},
              NEW result \in {"succeeded", "failed"}, CompleteExecution(x, result),
              UNCHANGED <<started, ran>>
       PROVE  ToolInv'
  <2> DEFINE k == KeyOf(x)
             state == [step |-> "reviewed", call |-> client[x].call, resolved |-> {}, key |-> {}]
  <2>1. client' = [client EXCEPT ![x] = state]
        /\ execution' = [execution EXCEPT ![k].state = IF @ = "running" THEN result ELSE @]
    BY <1>11 DEF CompleteExecution, Answer
  <2>2. k \in CallKeys
    BY <1>1, <1>11, HandlerKnows DEF Handled
  <2>3. state \in ClientStates /\ Reviewable(client[x].call) /\ state.step = "reviewed"
    BY <1>6, <1>11
  <2> HIDE DEF state, k
  <2>4. ClientsInv' /\ \A y \in ToolCallers : client'[y] = IF y = x THEN state ELSE client[y]
    <3>1. state.call = client[x].call
      BY DEF state
    <3>2. QED
      BY <1>1, <1>2, <2>1, <2>3, <3>1, ClientMoves DEF Handled
  <2>5. /\ execution' \in [CallKeys ->
               [state : {"none", "running", "succeeded", "failed"}, call : SUBSET ResolvedCalls]]
        /\ \A l \in CallKeys : (execution'[l].state = "none") = (execution[l].state = "none")
    BY <1>1, <2>1, <2>2 DEF ExecutionsInv
  <2>6. ExecutionsInv'
    <3>1. \A y \in ToolCallers : client'[y].step = "created" => client'[y] = client[y]
      BY <2>3, <2>4
    <3>2. started' = started
      BY <1>11
    <3>3. /\ started' \in [CallKeys -> {0, 1}]
          /\ \A l \in CallKeys : execution'[l].state = "none" => started'[l] = 0
      BY <1>1, <2>5, <3>2 DEF ExecutionsInv
    <3>4. ASSUME NEW y \in ToolCallers, NEW l \in CallKeys,
                 client'[y].step = "created", client'[y].key = {l}
          PROVE  /\ execution'[l].state # "none" /\ started'[l] = 0
                 /\ \A z \in ToolCallers :
                       client'[z].step = "created" /\ client'[z].key = {l} => z = y
      <4>1. client[y].step = "created" /\ client[y].key = {l}
        BY <3>1, <3>4
      <4>2. /\ execution[l].state # "none" /\ started[l] = 0
            /\ \A z \in ToolCallers : client[z].step = "created" /\ client[z].key = {l} => z = y
        BY <1>1, <4>1 DEF ExecutionsInv
      <4>3. QED
        BY <2>5, <3>1, <3>2, <4>2
    <3>5. QED
      BY <2>5, <3>3, <3>4 DEF ExecutionsInv
  <2>7. RanInv'
    BY <1>1, <1>2, <1>11 DEF RanInv
  <2>8. QED
    BY <1>3, <2>4, <2>6, <2>7 DEF ToolInv
<1>12. ASSUME NEW x \in ToolCallers, MissSecret(x) \/ EndProcess(x) PROVE ToolInv'
  BY <1>11, <1>12 DEF MissSecret, EndProcess
<1>13. ASSUME NEW x \in ToolCallers, StartProcess(x) PROVE ToolInv'
  <2> DEFINE k == KeyOf(x)
             state == [client[x] EXCEPT !.step = "running"]
  <2>1. /\ client[x].step = "created" /\ client' = [client EXCEPT ![x].step = "running"]
        /\ started' = [started EXCEPT ![k] = @ + 1] /\ UNCHANGED execution
        /\ ran' = ran \cup {[by |-> "session", tool |-> ToolOf(x), version |-> call.catalog[ToolOf(x)],
                             reviewed |-> reviewed.catalog[ToolOf(x)]] :
                               call \in client[x].resolved, reviewed \in client[x].call}
    BY <1>13 DEF StartProcess, Serving
  <2>2. k \in CallKeys /\ client[x].key = {k}
    BY <1>1, <2>1, HandlerKnows DEF Handled
  <2>3. PICK r \in ResolvedCalls :
            /\ client[x].call = {r} /\ client[x].resolved = {r} /\ ToolOf(x) = r.tool
            /\ <<r.tool, r.catalog[r.tool]>> \in admitted
    BY <1>1, <2>1, HandlerKnows DEF Handled
  <2>4. state \in ClientStates /\ state.step = "running" /\ state.call = client[x].call
        /\ state.resolved = client[x].resolved /\ state.key = client[x].key
    BY <1>4 DEF Handled
  <2>5. client' = [client EXCEPT ![x] = state]
    BY <1>4, <2>1
  <2>6. Reviewable(client[x].call)
    BY <1>6, <2>1
  <2> HIDE DEF state
  <2>7. ClientsInv' /\ \A y \in ToolCallers : client'[y] = IF y = x THEN state ELSE client[y]
    <3>1. state.resolved = state.call /\ (\E l \in CallKeys : state.key = {l}) /\ admitted' = admitted
      BY <1>2, <2>2, <2>3, <2>4
    <3>2. Reviewable(state.call)
      BY <2>4, <2>6
    <3>3. /\ state.step # "idle" => Reviewable(state.call)
          /\ state.step \in Handled => state.resolved = state.call /\ \E l \in CallKeys : state.key = {l}
      BY <3>1, <3>2
    <3>4. ClientsInv /\ admitted' = admitted /\ state \in ClientStates
      BY <1>1, <2>4, <3>1
    <3> HIDE DEF ClientStates
    <3>5. QED
      BY <2>5, <3>3, <3>4, ClientMoves
  <2>8. ExecutionsInv'
    <3>1. started[k] = 0 /\ execution[k].state # "none"
      BY <1>1, <2>1, <2>2 DEF ExecutionsInv
    <3>2. started' = [started EXCEPT ![k] = 1]
      BY <1>1, <2>1, <2>2, <3>1 DEF ExecutionsInv
    <3>3. \A l \in CallKeys : started'[l] = IF l = k THEN 1 ELSE started[l]
      BY <1>1, <2>2, <3>2 DEF ExecutionsInv
    <3>4. started' \in [CallKeys -> {0, 1}]
      BY <1>1, <3>2 DEF ExecutionsInv
    <3>5. \A y \in ToolCallers : client[y].step = "created" /\ client[y].key = {k} => y = x
      BY <1>1, <2>1, <2>2 DEF ExecutionsInv
    <3>6. QED
      BY <1>1, <2>1, <2>4, <2>7, <3>1, <3>3, <3>4, <3>5 DEF ExecutionsInv
  <2>9. RanInv'
    <3>1. ran' = ran \cup {[by |-> "session", tool |-> r.tool, version |-> r.catalog[r.tool],
                            reviewed |-> r.catalog[r.tool]]}
      BY <2>1, <2>3
    <3>2. QED
      BY <1>1, <1>2, <2>3, <3>1 DEF RanInv
  <2>10. QED
    BY <1>3, <2>7, <2>8, <2>9 DEF ToolInv
<1>14. QED
  BY <1>7, <1>8, <1>9, <1>10, <1>12, <1>13 DEF CallSteps

\* The run is prompted with the one revision it was created with.
LEMMA PromptedWithSkill ==
    ASSUME RunInv, Prompted
    PROVE  prompted' \subseteq {run.skill}
  BY DEF RunInv, Prompted, LoadRevision

\* The steps of the agent run keep the invariant.
LEMMA RunStepKeepsTools ==
    ASSUME ToolInv, RunSteps
    PROVE  ToolInv'
<1> USE PackagesAre
<1> DEFINE Runs == [step : {"none", "created", "proposed", "approved", "done"}, skill : AnyManifest,
                    allowed : SUBSET Tools, proposal : SUBSET (Tools \X Manifests)]
<1>1. PackagesInv /\ ClientsInv /\ ExecutionsInv /\ RunInv /\ RanInv /\ run \in Runs
  BY DEF ToolInv, RunInv
<1>2. UNCHANGED <<package, revision, installed, page, sessionActive, admitted, client, execution, started>>
  BY DEF RunSteps, packageVars, callVars
<1>3. PackagesInv'
  BY <1>1, <1>2 DEF PackagesInv
<1>4. ClientsInv' /\ ExecutionsInv'
  <2>1. ClientsInv'
    BY <1>1, <1>2 DEF ClientsInv, Reviewable
  <2>2. ExecutionsInv'
    BY <1>1, <1>2 DEF ExecutionsInv
  <2>3. QED
    BY <2>1, <2>2
<1>5. ASSUME run' \in Runs, run'.step = "none" => prompted' = {}, prompted' \subseteq {run'.skill},
             \A call \in ran' : call \in ran \/ call.by = "run"
      PROVE  ToolInv'
  <2>1. RunInv'
    BY <1>5 DEF RunInv
  <2>2. RanInv'
    BY <1>1, <1>2, <1>5 DEF RanInv
  <2>3. QED
    BY <1>3, <1>4, <2>1, <2>2 DEF ToolInv
<1>6. CASE CreateRun
  <2>1. PICK skill \in {NoManifest, package[Skill].manifest} :
            run' = [step |-> "created", skill |-> skill,
                    allowed |-> {t \in Tools : Catalog[t] # NoManifest}, proposal |-> {}]
    BY <1>6 DEF CreateRun
  <2>2. skill \in AnyManifest
    BY <1>1 DEF PackagesInv
  <2>3. run' \in Runs /\ run'.step = "created"
    BY <2>1, <2>2
  <2>4. ran' = ran /\ prompted' = {}
    BY <1>1, <1>6 DEF CreateRun, RunInv
  <2>5. QED
    BY <1>5, <2>3, <2>4
<1>7. CASE SpawnRun
  <2>1. run' = run /\ ran' = ran /\ run.step # "none"
    BY <1>7 DEF SpawnRun
  <2>2. prompted' \subseteq {run.skill}
    BY <1>1, <1>7, PromptedWithSkill DEF SpawnRun
  <2>3. QED
    BY <1>1, <1>5, <2>1, <2>2
<1>8. CASE ApproveToolCall
  <2>1. run' = [run EXCEPT !.step = "approved"] /\ UNCHANGED <<ran, prompted>>
    BY <1>8 DEF ApproveToolCall
  <2>2. run' \in Runs /\ run'.step = "approved" /\ run'.skill = run.skill
    BY <1>1, <2>1
  <2>3. QED
    BY <1>1, <1>5, <2>1, <2>2 DEF RunInv
<1>9. CASE RunApprovedCall
  <2>1. /\ run' = [run EXCEPT !.step = "done"]
        /\ \A call \in ran' : call \in ran \/ call.by = "run"
    BY <1>9 DEF RunApprovedCall
  <2>2. run' \in Runs /\ run'.step = "done" /\ run'.skill = run.skill
    BY <1>1, <2>1
  <2>3. prompted' \subseteq {run.skill}
    BY <1>1, <1>9, PromptedWithSkill DEF RunApprovedCall
  <2>4. QED
    BY <1>5, <2>1, <2>2, <2>3
<1>10. ASSUME NEW t \in Tools, ProposeToolCall(t) PROVE ToolInv'
  <2>1. /\ run' = [run EXCEPT !.step = "proposed", !.proposal = {<<t, Catalog[t]>>}]
        /\ Catalog[t] # NoManifest /\ ran' = ran
    BY <1>10 DEF ProposeToolCall
  <2>2. Catalog[t] \in Manifests
    BY <1>1, <2>1 DEF Catalog, PackagesInv, AnyManifest
  <2>3. run' \in Runs /\ run'.step = "proposed" /\ run'.skill = run.skill
    <3>1. {<<t, Catalog[t]>>} \in SUBSET (Tools \X Manifests)
      BY <2>2
    <3>2. QED
      BY <1>1, <2>1, <3>1
  <2>4. prompted' \subseteq {run.skill}
    BY <1>1, <1>10, PromptedWithSkill DEF ProposeToolCall
  <2>5. QED
    BY <1>5, <2>1, <2>3, <2>4
<1>11. QED
  BY <1>6, <1>7, <1>8, <1>9, <1>10 DEF RunSteps

LEMMA ToolsStart == ASSUME ToolInit PROVE ToolInv
<1> USE PackagesAre
<1>1. PackagesInv
  <2>1. \A p \in Packages : installed[p] = << >> /\ ToSet(installed[p]) = {}
    BY DEF ToolInit, ToSet
  <2>2. installed \in [Packages -> Seq(Manifests)]
    BY DEF ToolInit
  <2>3. QED
    BY <2>1, <2>2 DEF ToolInit, PackagesInv, PackageStates, RevisionStates
<1>2. ClientsInv /\ ExecutionsInv
  BY DEF ToolInit, ClientsInv, ExecutionsInv, Handled
<1>3. RunInv /\ RanInv
  BY DEF ToolInit, RunInv, RanInv
<1>4. QED
  BY <1>1, <1>2, <1>3 DEF ToolInv

LEMMA ToolsRest == ASSUME ToolInv, UNCHANGED toolVars PROVE ToolInv'
<1>1. UNCHANGED <<package, revision, installed, page, sessionActive, admitted, client, execution,
                  started, run, prompted, ran>>
  BY DEF toolVars, packageVars, callVars, runVars
<1>2. QED
  <2>1. PackagesInv' /\ RunInv' /\ RanInv'
    BY <1>1 DEF ToolInv, PackagesInv, RunInv, RanInv
  <2>2. ClientsInv'
    BY <1>1 DEF ToolInv, ClientsInv, Reviewable
  <2>3. ExecutionsInv'
    BY <1>1 DEF ToolInv, ExecutionsInv
  <2>4. QED
    BY <2>1, <2>2, <2>3 DEF ToolInv

LEMMA ToolFacts == ASSUME ToolInv PROVE ToolCallStartsOnce /\ ReviewedVersionRuns /\ ToolTypeOK
<1>1. ToolCallStartsOnce /\ ReviewedVersionRuns
  BY DEF ToolInv, ExecutionsInv, RunInv, RanInv, ToolCallStartsOnce, ReviewedVersionRuns
<1>2. ToolTypeOK
  BY DEF ToolInv, PackagesInv, ClientsInv, ExecutionsInv, RunInv, Handled, ToolTypeOK
<1>3. QED
  BY <1>1, <1>2

-----------------------------------------------------------------------------
(* The Desktop, for any number of threads, Cores, attempts and Vaults.  At  *)
(* any time one party has a Core in its hands: the thread that starts one  *)
(* or switches, the window that shows it, or the monitor that gave it up;  *)
(* and the approvals on hand are of the Vault that is configured.          *)

ThreadRecords ==
    [job : {"idle", "launch", "stop", "invalidate", "candidate", "save", "previous"},
     child : CoreIds \cup {0}, attempts : Nat, to : AnyVault, back : AnyVault, generation : Nat]
CoreRecords ==
    [state : {"none", "starting", "serving", "hung", "gone"}, vault : AnyVault, orphan : BOOLEAN]

Lives(k) == Alive(k) /\ ~core[k].orphan

DesktopTypes ==
    /\ up \in BOOLEAN /\ coreInUse \in CoreIds \cup {0} /\ generation \in Nat
    /\ candidate \in [vault : AnyVault, of : CoreIds \cup {0}]
    /\ configured \in AnyVault /\ present \subseteq Vaults
    /\ core \in [CoreIds -> CoreRecords] /\ spawned \in 0 .. MaxCores
    /\ thread \in [StartThreads -> ThreadRecords]
    /\ stopping \subseteq CoreIds

\* One thread is at work, for the Vault that is configured or in place of it.
ThreadsInv ==
    \A t \in StartThreads : thread[t] # Idle =>
        /\ up /\ coreInUse = 0 /\ stopping = {} /\ thread[t].job # "idle"
        /\ \A u \in StartThreads \ {t} : thread[u] = Idle
        /\ thread[t].job = "launch" => phase = "starting" /\ thread[t].to \in {configured, NoVault}
        /\ thread[t].job # "launch" =>
               /\ phase = "switching" /\ thread[t].generation = generation
               /\ thread[t].back \in {configured, NoVault}
        /\ thread[t].job \in {"candidate", "save"} => approvals = {}
        /\ thread[t].job = "invalidate" => thread[t].child = 0
        /\ thread[t].job = "save" => thread[t].child # 0
        /\ thread[t].child # 0 /\ thread[t].job # "stop" =>
               core[thread[t].child].vault = IF thread[t].job = "previous" THEN thread[t].back ELSE thread[t].to

\* A Core that runs is in the hands of the window, a monitor or a thread.
CoresInv ==
    /\ \A k \in CoreIds : Lives(k) =>
           k = coreInUse \/ k \in stopping \/ \E t \in StartThreads : thread[t] # Idle /\ thread[t].child = k
    /\ phase = "ready" <=> coreInUse # 0
    /\ coreInUse # 0 =>
           up /\ window # 0 /\ stopping = {} /\ core[coreInUse].vault \in {configured, NoVault}
    /\ \A k, l \in stopping : k = l
    /\ stopping # {} => phase = "failed" /\ window # 0
    /\ ~up => phase = "starting" /\ \A k \in CoreIds : core[k].orphan
    /\ approvals \subseteq {configured}

DesktopInv == DesktopTypes /\ ThreadsInv /\ CoresInv

LEMMA DesktopFacts ==
  /\ Idle \in ThreadRecords /\ Idle.job = "idle" /\ Idle.child = 0
  /\ 0 \notin CoreIds /\ NoVault \in AnyVault /\ Vaults \subseteq AnyVault
  /\ NoCandidate \in [vault : AnyVault, of : CoreIds \cup {0}]
  /\ 1 \in StartThreads
<1>1. MaxThreads \in Nat \ {0} /\ MaxCores \in Nat
  BY DesktopAssumption
<1>2. 0 \notin CoreIds /\ 1 \in StartThreads
  BY <1>1 DEF CoreIds, StartThreads
<1>3. QED
  BY <1>2 DEF Idle, ThreadRecords, AnyVault, NoCandidate

\* The thread at work has every Core that runs.
LEMMA OneAtWork ==
  ASSUME DesktopInv, NEW t \in StartThreads, thread[t] # Idle
  PROVE  /\ up /\ coreInUse = 0 /\ stopping = {} /\ phase \notin {"ready", "failed"}
         /\ \A u \in StartThreads \ {t} : thread[u] = Idle
         /\ \A k \in CoreIds : Lives(k) => k = thread[t].child
<1>1. /\ up /\ coreInUse = 0 /\ stopping = {} /\ phase \in {"starting", "switching"}
      /\ \A u \in StartThreads \ {t} : thread[u] = Idle
  BY DEF DesktopInv, ThreadsInv
<1>2. QED
  BY <1>1, DesktopFacts DEF DesktopInv, CoresInv

LEMMA NoneAtWork ==
  ASSUME DesktopInv, coreInUse # 0 \/ ~up \/ phase = "failed"
  PROVE  \A t \in StartThreads : thread[t] = Idle
  BY DEF DesktopInv, ThreadsInv

\* A thread goes on with what it is at.
LEMMA ThreadGoesOn ==
  ASSUME DesktopInv, NEW t \in StartThreads, thread[t] # Idle, NEW r \in ThreadRecords,
         thread' = [thread EXCEPT ![t] = r],
         UNCHANGED <<up, phase, coreInUse, candidate, generation, stopping, configured, present>>,
         core' \in [CoreIds -> CoreRecords], spawned' \in 0 .. MaxCores, approvals' \in {approvals, {}},
         r.job # "idle", r.job = "launch" <=> thread[t].job = "launch",
         r.to = thread[t].to, r.back = thread[t].back, r.generation = thread[t].generation,
         r.job \in {"candidate", "save"} => approvals' = {},
         r.job = "invalidate" => r.child = 0,
         r.job = "save" => r.child # 0,
         r.child # 0 /\ r.job # "stop" => core'[r.child].vault = IF r.job = "previous" THEN r.back ELSE r.to,
         \A k \in CoreIds : Lives(k)' => k = r.child
  PROVE  DesktopInv'
<1> USE DesktopFacts
<1>1. thread' \in [StartThreads -> ThreadRecords] /\ thread'[t] = r /\ r # Idle
      /\ \A u \in StartThreads \ {t} : thread'[u] = Idle
  BY OneAtWork DEF DesktopInv, DesktopTypes
<1>2. DesktopTypes'
  BY <1>1 DEF DesktopInv, DesktopTypes
<1>3. ThreadsInv'
  <2>1. /\ thread[t].job = "launch" => phase = "starting" /\ thread[t].to \in {configured, NoVault}
        /\ thread[t].job # "launch" =>
               /\ phase = "switching" /\ thread[t].generation = generation
               /\ thread[t].back \in {configured, NoVault}
    BY DEF DesktopInv, ThreadsInv
  <2>2. up /\ coreInUse = 0 /\ stopping = {}
    BY OneAtWork
  <2>3. QED
    BY <1>1, <2>1, <2>2 DEF ThreadsInv
<1>4. CoresInv'
  <2>1. up /\ coreInUse = 0 /\ stopping = {} /\ phase \notin {"ready", "failed"}
    BY OneAtWork
  <2>2. approvals' \subseteq {configured}
    BY DEF DesktopInv, CoresInv
  <2>3. QED
    BY <1>1, <2>1, <2>2 DEF CoresInv
<1>5. QED
  BY <1>2, <1>3, <1>4 DEF DesktopInv

\* A thread ends: with its Core on display, or with none that runs.
LEMMA ThreadEnds ==
  ASSUME DesktopInv, NEW t \in StartThreads, thread[t] # Idle,
         thread' = [thread EXCEPT ![t] = Idle],
         UNCHANGED <<up, candidate, generation, stopping, present, approvals, spawned>>,
         core' \in [CoreIds -> CoreRecords], configured' \in AnyVault,
         approvals = {} \/ configured' = configured,
         \/ /\ phase' = "ready" /\ coreInUse' \in CoreIds /\ window' = coreInUse'
            /\ core'[coreInUse'].vault \in {configured', NoVault}
            /\ \A k \in CoreIds : Lives(k)' => k = coreInUse'
         \/ phase' = "failed" /\ coreInUse' = 0 /\ \A k \in CoreIds : ~Lives(k)'
  PROVE  DesktopInv'
<1> USE DesktopFacts
<1>1. thread' \in [StartThreads -> ThreadRecords] /\ \A u \in StartThreads : thread'[u] = Idle
  BY OneAtWork DEF DesktopInv, DesktopTypes
<1>2. DesktopTypes' /\ ThreadsInv'
  BY <1>1 DEF DesktopInv, DesktopTypes, ThreadsInv
<1>3. CoresInv'
  <2>1. up /\ stopping = {}
    BY OneAtWork
  <2>2. approvals' \subseteq {configured'}
    BY DEF DesktopInv, CoresInv
  <2>3. QED
    BY <1>1, <2>1, <2>2 DEF CoresInv
<1>4. QED
  BY <1>2, <1>3 DEF DesktopInv

\* The processes and the directories change beside the Desktop.
LEMMA CoresLiveOn ==
  ASSUME DesktopInv, UNCHANGED <<up, innerVars, configured, spawned, stopping, thread, approvals>>,
         present' \subseteq Vaults, core' \in [CoreIds -> CoreRecords],
         \A k \in CoreIds : /\ Lives(k)' => Lives(k)
                            /\ core'[k].vault = core[k].vault /\ core'[k].orphan = core[k].orphan
  PROVE  DesktopInv'
<1> USE DesktopFacts
<1>1. UNCHANGED <<phase, coreInUse, window, candidate, generation>>
  BY DEF innerVars
<1>2. DesktopTypes'
  BY <1>1 DEF DesktopInv, DesktopTypes
<1>3. ThreadsInv'
  <2>1. \A t \in StartThreads : thread[t].child # 0 => thread[t].child \in CoreIds
    BY DEF DesktopInv, DesktopTypes, ThreadRecords
  <2>2. QED
    BY <1>1, <2>1 DEF DesktopInv, ThreadsInv
<1>4. CoresInv'
  BY <1>1 DEF DesktopInv, DesktopTypes, CoresInv
<1>5. QED
  BY <1>2, <1>3, <1>4 DEF DesktopInv


\* A Core is started for a thread that has none.
LEMMA SpawningKeepsDesktop ==
  ASSUME DesktopInv, NEW t \in StartThreads, SpawnCore(t)
  PROVE  DesktopInv'
<1> USE DesktopFacts
<1> DEFINE n == spawned + 1
<1> DEFINE vaultOf == IF thread[t].job = "previous" THEN thread[t].back ELSE thread[t].to
<1> DEFINE new == [state |-> "starting", orphan |-> FALSE, vault |-> vaultOf]
<1> DEFINE r == [thread[t] EXCEPT !.child = n]
<1>1. /\ thread[t].job \in {"launch", "candidate", "previous"} /\ thread[t].child = 0 /\ spawned < MaxCores
      /\ spawned' = n /\ core' = [core EXCEPT ![n] = new] /\ thread' = [thread EXCEPT ![t] = r]
      /\ UNCHANGED <<up, innerVars, configured, present, stopping, approvals>>
  BY DEF SpawnCore
<1>2. n \in CoreIds /\ n \in 0 .. MaxCores
  <2>1. spawned \in 0 .. MaxCores /\ MaxCores \in Nat
    BY DesktopAssumption DEF DesktopInv, DesktopTypes
  <2>2. QED
    BY <1>1, <2>1 DEF CoreIds
<1>3. thread[t] \in ThreadRecords /\ thread[t] # Idle
  BY <1>1 DEF DesktopInv, DesktopTypes
<1>4. new \in CoreRecords
  BY <1>3 DEF ThreadRecords, CoreRecords
<1>5. /\ r \in ThreadRecords /\ r.job = thread[t].job /\ r.child = n
      /\ r.to = thread[t].to /\ r.back = thread[t].back /\ r.generation = thread[t].generation
  BY <1>2, <1>3 DEF ThreadRecords
<1>6. vaultOf = IF r.job = "previous" THEN r.back ELSE r.to
  BY <1>5
<1>7. new.vault = vaultOf
  OBVIOUS
<1> HIDE DEF n, r, vaultOf, new
<1>8. /\ core' \in [CoreIds -> CoreRecords] /\ core'[n] = new
      /\ \A k \in CoreIds \ {n} : core'[k] = core[k]
  BY <1>1, <1>2, <1>4 DEF DesktopInv, DesktopTypes
<1>9. \A k \in CoreIds : Lives(k)' => k = r.child
  <2>1. \A k \in CoreIds : ~Lives(k)
    BY <1>1, <1>3, OneAtWork
  <2>2. QED
    BY <1>5, <1>8, <2>1 DEF Lives, Alive
<1>10. r.job = "launch" <=> thread[t].job = "launch"
  BY <1>5
<1>11. /\ r.job # "idle" /\ r.job \notin {"invalidate", "save"}
       /\ r.job = "candidate" => approvals' = {}
  BY <1>1, <1>3, <1>5 DEF DesktopInv, ThreadsInv
<1>12. core'[r.child].vault = IF r.job = "previous" THEN r.back ELSE r.to
  BY <1>5, <1>6, <1>7, <1>8
<1>13. UNCHANGED <<up, phase, coreInUse, candidate, generation, stopping, configured, present, approvals>>
  BY <1>1 DEF innerVars
<1>14. QED
  BY <1>1, <1>2, <1>3, <1>5, <1>8, <1>9, <1>10, <1>11, <1>12, <1>13, ThreadGoesOn

\* A thread ends its Core and gives up, or gives way to the Vault of before.
LEMMA GivingUpKeepsDesktop ==
  ASSUME DesktopInv, NEW t \in StartThreads, thread[t].job \in {"launch", "candidate", "previous", "save"}, GiveUp(t),
         UNCHANGED <<up, candidate, generation, stopping, present, approvals, spawned, configured>>,
         core' \in [CoreIds -> CoreRecords],
         \A k \in CoreIds : ~Lives(k)'
  PROVE  DesktopInv'
<1> USE DesktopFacts
<1>1. thread[t] \in ThreadRecords /\ thread[t] # Idle
  BY DEF DesktopInv, DesktopTypes
<1>2. CASE thread[t].job \in {"candidate", "save"}
  <2> DEFINE r == [thread[t] EXCEPT !.job = "previous", !.child = 0, !.attempts = 0]
  <2>1. thread' = [thread EXCEPT ![t] = r] /\ UNCHANGED <<phase, coreInUse, window>>
    BY <1>2 DEF GiveUp
  <2>2. /\ r \in ThreadRecords /\ r.job = "previous" /\ r.child = 0
        /\ r.to = thread[t].to /\ r.back = thread[t].back /\ r.generation = thread[t].generation
    BY <1>1 DEF ThreadRecords
  <2> HIDE DEF r
  <2>3. r.job = "launch" <=> thread[t].job = "launch"
    BY <1>2, <2>2
  <2>4. spawned' \in 0 .. MaxCores
    BY DEF DesktopInv, DesktopTypes
  <2>5. QED
    BY <1>1, <2>1, <2>2, <2>3, <2>4, ThreadGoesOn
<1>3. CASE thread[t].job \in {"launch", "previous"}
  <2>1. FailedToStart(t) /\ thread' = [thread EXCEPT ![t] = Idle]
    BY <1>3 DEF GiveUp
  <2>2. thread[t].job = "previous" => thread[t].generation = generation
    BY <1>1 DEF DesktopInv, ThreadsInv
  <2>3. phase' = "failed" /\ coreInUse' = 0
    BY <1>3, <2>1, <2>2 DEF FailedToStart
  <2>4. configured' \in AnyVault
    BY DEF DesktopInv, DesktopTypes
  <2>5. QED
    BY <1>1, <2>1, <2>3, <2>4, ThreadEnds
<1>4. QED
  BY <1>2, <1>3

\* The Core of a thread is ended, and with it what runs.
LEMMA TerminatedEndsAll ==
  ASSUME DesktopInv, NEW t \in StartThreads, thread[t] # Idle, thread[t].child # 0,
         core' = Terminated(thread[t].child)
  PROVE  core' \in [CoreIds -> CoreRecords] /\ \A k \in CoreIds : ~Lives(k)'
<1>1. thread[t].child \in CoreIds /\ core \in [CoreIds -> CoreRecords]
  BY DEF DesktopInv, DesktopTypes, ThreadRecords
<1> DEFINE n == thread[t].child
<1> DEFINE gone == [core[n] EXCEPT !.state = "gone"]
<1>2. core' = [core EXCEPT ![n] = gone]
  BY DEF Terminated
<1>3. gone \in CoreRecords /\ gone.state = "gone"
  BY <1>1 DEF CoreRecords
<1> HIDE DEF n, gone
<1>4. core' \in [CoreIds -> CoreRecords] /\ (n \in CoreIds => core'[n] = gone)
      /\ \A k \in CoreIds \ {n} : core'[k] = core[k]
  BY <1>1, <1>2, <1>3
<1>5. \A k \in CoreIds : Lives(k) => k = n
  BY OneAtWork DEF n
<1>6. QED
  BY <1>3, <1>4, <1>5 DEF Lives, Alive

\* Nothing runs while a thread has no Core.
LEMMA NoCoreNothingRuns ==
  ASSUME DesktopInv, NEW t \in StartThreads, thread[t] # Idle, thread[t].child = 0
  PROVE  \A k \in CoreIds : ~Lives(k)
  BY OneAtWork, DesktopFacts

\* The attempt fails, or the grant does.
LEMMA FailingKeepsDesktop ==
  ASSUME DesktopInv, NEW t \in StartThreads, AttemptFails(t) \/ GrantFails(t)
  PROVE  DesktopInv'
<1> USE DesktopFacts
<1>1. thread[t].job \in {"launch", "candidate", "previous"} /\ thread[t] \in ThreadRecords /\ thread[t] # Idle
      /\ UNCHANGED <<up, candidate, generation, stopping, present, approvals, spawned, configured>>
  BY DEF AttemptFails, GrantFails, Quiet, DesktopInv, DesktopTypes
<1>2. core' \in [CoreIds -> CoreRecords] /\ \A k \in CoreIds : ~Lives(k)'
  <2>1. CASE thread[t].child # 0 /\ core' = Terminated(thread[t].child)
    BY <1>1, <2>1, TerminatedEndsAll
  <2>2. CASE thread[t].child = 0 /\ UNCHANGED core
    BY <1>1, <2>2, NoCoreNothingRuns DEF DesktopInv, DesktopTypes, Lives, Alive
  <2>3. QED
    BY <2>1, <2>2 DEF AttemptFails, GrantFails
<1>3. CASE GiveUp(t)
  BY <1>1, <1>2, <1>3, GivingUpKeepsDesktop
<1>4. CASE AttemptFails(t) /\ thread[t].attempts + 1 < RetryLimit
  <2> DEFINE r == [thread[t] EXCEPT !.child = 0, !.attempts = @ + 1]
  <2>1. thread' = [thread EXCEPT ![t] = r] /\ UNCHANGED <<phase, coreInUse, window>>
    BY <1>4 DEF AttemptFails
  <2>2. /\ r \in ThreadRecords /\ r.job = thread[t].job /\ r.child = 0
        /\ r.to = thread[t].to /\ r.back = thread[t].back /\ r.generation = thread[t].generation
    <3>1. thread[t].attempts \in Nat
      BY <1>1 DEF ThreadRecords
    <3>2. thread[t].attempts + 1 \in Nat
      BY <3>1
    <3>3. QED
      BY <1>1, <3>2 DEF ThreadRecords
  <2> HIDE DEF r
  <2>3. r.job = "launch" <=> thread[t].job = "launch"
    BY <2>2
  <2>4. spawned' \in 0 .. MaxCores
    BY <1>1 DEF DesktopInv, DesktopTypes
  <2>5. /\ r.job # "idle" /\ r.job \notin {"invalidate", "save"}
        /\ r.job = "candidate" => approvals' = {}
    BY <1>1, <2>2 DEF DesktopInv, ThreadsInv
  <2>6. \A k \in CoreIds : Lives(k)' => k = r.child
    BY <1>2
  <2>7. approvals' \in {approvals, {}}
    BY <1>1
  <2>8. QED
    BY <1>1, <1>2, <2>1, <2>2, <2>3, <2>4, <2>5, <2>6, <2>7, ThreadGoesOn
<1>5. QED
  BY <1>3, <1>4 DEF AttemptFails, GrantFails

\* A Core goes on display in the place of the thread that started it.
LEMMA InstallingKeepsDesktop ==
  ASSUME DesktopInv, NEW t \in StartThreads, thread[t] # Idle, thread[t].child # 0, Install(t, thread[t].child),
         UNCHANGED <<up, candidate, generation, stopping, present, approvals, spawned, core>>,
         configured' \in AnyVault, approvals = {} \/ configured' = configured,
         core[thread[t].child].vault \in {configured', NoVault}
  PROVE  DesktopInv'
<1>1. thread[t].child \in CoreIds /\ core' \in [CoreIds -> CoreRecords]
  BY DEF DesktopInv, DesktopTypes, ThreadRecords
<1>2. \A k \in CoreIds : Lives(k)' => k = thread[t].child
  BY OneAtWork DEF Lives, Alive
<1>3. QED
  BY <1>1, <1>2, ThreadEnds DEF Install


\* The Core of a start answers; that of a switch is installed, or waits to be saved.
LEMMA SucceedingKeepsDesktop ==
  ASSUME DesktopInv, NEW t \in StartThreads, StartSucceeds(t)
  PROVE  DesktopInv'
<1> USE DesktopFacts
<1> DEFINE n == thread[t].child
<1>1. n # 0 /\ thread[t].job \in {"launch", "candidate", "previous"} /\ thread[t] \in ThreadRecords
      /\ thread[t] # Idle
      /\ UNCHANGED <<up, candidate, generation, stopping, present, approvals, spawned, configured>>
  BY DEF StartSucceeds, Quiet, DesktopInv, DesktopTypes
<1>2. core \in [CoreIds -> CoreRecords] /\ configured' \in AnyVault
  BY <1>1 DEF DesktopInv, DesktopTypes
<1>3. CASE thread[t].job = "candidate"
  <2> DEFINE r == [thread[t] EXCEPT !.job = "save"]
  <2>1. thread' = [thread EXCEPT ![t] = r] /\ UNCHANGED <<phase, coreInUse, window, core>>
    BY <1>3 DEF StartSucceeds
  <2>2. /\ r \in ThreadRecords /\ r.job = "save" /\ r.child = n
        /\ r.to = thread[t].to /\ r.back = thread[t].back /\ r.generation = thread[t].generation
    BY <1>1 DEF ThreadRecords
  <2> HIDE DEF r
  <2>3. r.job = "launch" <=> thread[t].job = "launch"
    BY <1>3, <2>2
  <2>4. spawned' \in 0 .. MaxCores /\ approvals' = {}
    BY <1>1, <1>3 DEF DesktopInv, DesktopTypes, ThreadsInv
  <2>5. \A k \in CoreIds : Lives(k)' => k = r.child
    BY <1>1, <2>1, <2>2, OneAtWork DEF Lives, Alive
  <2>6. core'[r.child].vault = r.to
    BY <1>1, <1>3, <2>1, <2>2 DEF DesktopInv, ThreadsInv
  <2>7. QED
    BY <1>1, <1>2, <2>1, <2>2, <2>3, <2>4, <2>5, <2>6, ThreadGoesOn
<1>4. CASE thread[t].job = "launch"
  <2>1. Install(t, n) /\ UNCHANGED core
    BY <1>4 DEF StartSucceeds
  <2>2. core[n].vault \in {configured', NoVault}
    BY <1>1, <1>4 DEF DesktopInv, ThreadsInv
  <2>3. QED
    BY <1>1, <1>2, <2>1, <2>2, InstallingKeepsDesktop
<1>5. CASE thread[t].job = "previous"
  <2>1. thread[t].generation = generation /\ phase = "switching" /\ core[n].vault \in {configured', NoVault}
    BY <1>1, <1>5 DEF DesktopInv, ThreadsInv
  <2>2. Install(t, n) /\ UNCHANGED core
    BY <1>5, <2>1 DEF StartSucceeds, FinishSwitch
  <2>3. QED
    BY <1>1, <1>2, <2>1, <2>2, InstallingKeepsDesktop
<1>6. QED
  BY <1>1, <1>3, <1>4, <1>5

\* A switch ends the Core it has taken, and then what the approvals permit.
LEMMA SwitchingKeepsDesktop ==
  ASSUME DesktopInv, NEW t \in StartThreads, StopForSwitch(t) \/ InvalidateAuthority(t)
  PROVE  DesktopInv'
<1> USE DesktopFacts
<1>1. thread[t].job \in {"stop", "invalidate"} /\ thread[t] \in ThreadRecords /\ thread[t] # Idle
      /\ UNCHANGED <<up, phase, coreInUse, candidate, generation, configured, present, spawned, stopping>>
  BY DEF StopForSwitch, InvalidateAuthority, Quiet, innerVars, DesktopInv, DesktopTypes
<1>2. spawned' \in 0 .. MaxCores
  BY <1>1 DEF DesktopInv, DesktopTypes
<1>3. CASE StopForSwitch(t)
  <2> DEFINE r == [thread[t] EXCEPT !.job = "invalidate", !.child = 0]
  <2>1. thread[t].job = "stop" /\ core' = Terminated(thread[t].child) /\ thread' = [thread EXCEPT ![t] = r]
        /\ approvals' = approvals
    BY <1>3 DEF StopForSwitch, Quiet
  <2>2. /\ r \in ThreadRecords /\ r.job = "invalidate" /\ r.child = 0
        /\ r.to = thread[t].to /\ r.back = thread[t].back /\ r.generation = thread[t].generation
    BY <1>1 DEF ThreadRecords
  <2> HIDE DEF r
  <2>3. r.job = "launch" <=> thread[t].job = "launch"
    BY <2>1, <2>2
  <2>4. core' \in [CoreIds -> CoreRecords] /\ \A k \in CoreIds : ~Lives(k)'
    <3>1. CASE thread[t].child # 0
      BY <1>1, <2>1, <3>1, TerminatedEndsAll
    <3>2. CASE thread[t].child = 0
      <4>1. core' = core
        BY <2>1, <3>2 DEF Terminated, DesktopInv, DesktopTypes
      <4>2. QED
        BY <1>1, <3>2, <4>1, NoCoreNothingRuns DEF DesktopInv, DesktopTypes, Lives, Alive
    <3>3. QED
      BY <3>1, <3>2
  <2>5. QED
    BY <1>1, <1>2, <2>1, <2>2, <2>3, <2>4, ThreadGoesOn
<1>4. CASE InvalidateAuthority(t)
  <2>1. thread[t].job = "invalidate" /\ thread[t].child = 0 /\ core' = core
    BY <1>1, <1>4 DEF InvalidateAuthority, DesktopInv, ThreadsInv
  <2>2. \E next \in {"candidate", "previous"} :
            /\ thread' = [thread EXCEPT ![t].job = next]
            /\ approvals' \in {approvals, {}} /\ (next = "candidate" => approvals' = {})
    BY <1>4 DEF InvalidateAuthority
  <2>3. PICK next \in {"candidate", "previous"} :
            /\ thread' = [thread EXCEPT ![t].job = next]
            /\ approvals' \in {approvals, {}} /\ (next = "candidate" => approvals' = {})
    BY <2>2
  <2> DEFINE r == [thread[t] EXCEPT !.job = next]
  <2>4. thread' = [thread EXCEPT ![t] = r]
    BY <2>3
  <2>5. /\ r \in ThreadRecords /\ r.job = next /\ r.child = 0
        /\ r.to = thread[t].to /\ r.back = thread[t].back /\ r.generation = thread[t].generation
    BY <1>1, <2>1 DEF ThreadRecords
  <2> HIDE DEF r
  <2>6. r.job = "launch" <=> thread[t].job = "launch"
    BY <2>1, <2>5
  <2>7. core' \in [CoreIds -> CoreRecords] /\ \A k \in CoreIds : ~Lives(k)'
    BY <1>1, <2>1, NoCoreNothingRuns DEF DesktopInv, DesktopTypes, Lives, Alive
  <2>8. r.job # "idle" /\ r.job \notin {"invalidate", "save", "stop"} /\ (r.job = "candidate" => approvals' = {})
    BY <2>3, <2>5
  <2>9. QED
    BY <1>1, <1>2, <2>3, <2>4, <2>5, <2>6, <2>7, <2>8, ThreadGoesOn
<1>5. QED
  BY <1>3, <1>4

\* The path of the new Vault is saved and its Core installed, or neither.
LEMMA SavingKeepsDesktop ==
  ASSUME DesktopInv, NEW t \in StartThreads, SaveVault(t)
  PROVE  DesktopInv'
<1> USE DesktopFacts
<1>1. thread[t].job = "save" /\ thread[t] \in ThreadRecords /\ thread[t] # Idle /\ thread[t].child # 0
      /\ approvals = {} /\ core[thread[t].child].vault = thread[t].to
      /\ thread[t].generation = generation /\ phase = "switching"
      /\ UNCHANGED <<up, candidate, generation, present, spawned, stopping, approvals>>
  BY DEF SaveVault, DesktopInv, DesktopTypes, ThreadsInv
<1>2. CASE configured' = thread[t].to /\ FinishSwitch(t, thread[t].child)
  <2>1. Install(t, thread[t].child) /\ UNCHANGED core
    BY <1>1, <1>2 DEF FinishSwitch
  <2>2. configured' \in AnyVault /\ core[thread[t].child].vault \in {configured', NoVault}
    BY <1>1, <1>2 DEF ThreadRecords
  <2>3. QED
    BY <1>1, <2>1, <2>2, InstallingKeepsDesktop
<1>3. CASE core' = Terminated(thread[t].child) /\ GiveUp(t) /\ configured' = configured
  BY <1>1, <1>3, TerminatedEndsAll, GivingUpKeepsDesktop
<1>4. QED
  BY <1>2, <1>3 DEF SaveVault

\* The monitor of a Core looks, gives it up, and ends it.
LEMMA MonitorsKeepDesktop ==
  ASSUME DesktopInv, NEW k \in CoreIds, Heartbeat(k) \/ FinishStopping(k)
  PROVE  DesktopInv'
<1> USE DesktopFacts
<1>1. UNCHANGED <<up, candidate, generation, configured, present, spawned, thread, approvals>>
  BY DEF Heartbeat, FinishStopping
<1>2. CASE Heartbeat(k) /\ coreInUse = k /\ FailRunning(k)
  <2>1. phase' = "failed" /\ coreInUse' = 0 /\ stopping' = stopping \cup {k} /\ UNCHANGED <<window, core>>
    BY <1>2 DEF Heartbeat, FailRunning
  <2>2. up /\ window # 0 /\ stopping = {} /\ \A t \in StartThreads : thread[t] = Idle
    BY <1>2, NoneAtWork DEF DesktopInv, CoresInv
  <2>3. DesktopTypes' /\ ThreadsInv'
    BY <1>1, <2>1, <2>2 DEF DesktopInv, DesktopTypes, ThreadsInv
  <2>4. CoresInv'
    <3>1. \A l \in CoreIds : Lives(l)' => l = k
      BY <1>2, <2>1, <2>2 DEF DesktopInv, CoresInv, Lives, Alive
    <3>2. QED
      BY <1>1, <2>1, <2>2, <3>1 DEF DesktopInv, CoresInv
  <2>5. QED
    BY <2>3, <2>4 DEF DesktopInv
<1>3. CASE Heartbeat(k) /\ ~(coreInUse = k /\ FailRunning(k))
  <2>1. UNCHANGED <<phase, coreInUse, stopping, window, core>>
    BY <1>3 DEF Heartbeat
  <2>2. QED
    BY <1>1, <2>1 DEF DesktopInv, DesktopTypes, ThreadsInv, CoresInv, Lives, Alive
<1>4. CASE FinishStopping(k)
  <2>1. k \in stopping /\ stopping' = stopping \ {k} /\ core' = Terminated(k) /\ window' = 0 /\ up
        /\ UNCHANGED <<phase, coreInUse>>
    BY <1>4 DEF FinishStopping
  <2>2. phase = "failed" /\ coreInUse = 0 /\ stopping = {k} /\ \A t \in StartThreads : thread[t] = Idle
    BY <2>1, NoneAtWork DEF DesktopInv, CoresInv
  <2>3. core \in [CoreIds -> CoreRecords]
    BY DEF DesktopInv, DesktopTypes
  <2>4. core' \in [CoreIds -> CoreRecords] /\ core'[k].state = "gone"
        /\ \A l \in CoreIds \ {k} : core'[l] = core[l]
    <3> DEFINE gone == [core[k] EXCEPT !.state = "gone"]
    <3>1. gone \in CoreRecords /\ gone.state = "gone" /\ core' = [core EXCEPT ![k] = gone]
      BY <2>1, <2>3 DEF CoreRecords, Terminated
    <3> HIDE DEF gone
    <3>2. QED
      BY <2>3, <3>1
  <2>5. \A l \in CoreIds : ~Lives(l)'
    <3>1. \A l \in CoreIds : Lives(l) => l = k
      BY <2>2 DEF DesktopInv, CoresInv
    <3>2. QED
      BY <2>4, <3>1 DEF Lives, Alive
  <2>6. DesktopTypes' /\ ThreadsInv'
    BY <1>1, <2>1, <2>2, <2>4 DEF DesktopInv, DesktopTypes, ThreadsInv
  <2>7. CoresInv'
    BY <1>1, <2>1, <2>2, <2>5 DEF DesktopInv, CoresInv
  <2>8. QED
    BY <2>6, <2>7 DEF DesktopInv
<1>5. QED
  BY <1>2, <1>3, <1>4

\* Cores come to an answer, fail, recover and end; Vaults are moved.
LEMMA ProcessesKeepDesktop ==
  ASSUME DesktopInv, Booting \/ Cores \/ \E v \in Vaults : MoveVault(v)
  PROVE  DesktopInv'
<1>1. ASSUME NEW k \in CoreIds, Besides,
             CoreServes(k) \/ CoreRefusesVault(k) \/ CoreFault(k) \/ CoreRecovers(k) \/ OrphanEnds(k)
      PROVE  DesktopInv'
  <2>1. core \in [CoreIds -> CoreRecords] /\ present' \subseteq Vaults
    BY <1>1 DEF Besides, DesktopInv, DesktopTypes
  <2>2. \E next \in {"serving", "gone", "hung"} :
            core' = [core EXCEPT ![k].state = next] /\ (next = "gone" \/ Alive(k))
    BY <1>1 DEF CoreServes, CoreRefusesVault, CoreFault, CoreRecovers, OrphanEnds, Terminated, Alive
  <2>3. PICK next \in {"serving", "gone", "hung"} :
            core' = [core EXCEPT ![k].state = next] /\ (next = "gone" \/ Alive(k))
    BY <2>2
  <2> DEFINE r == [core[k] EXCEPT !.state = next]
  <2>4. /\ r \in CoreRecords /\ r.state = next /\ r.vault = core[k].vault /\ r.orphan = core[k].orphan
        /\ core' = [core EXCEPT ![k] = r]
    BY <2>1, <2>3 DEF CoreRecords
  <2> HIDE DEF r
  <2>5. core' \in [CoreIds -> CoreRecords] /\ core'[k] = r /\ \A l \in CoreIds \ {k} : core'[l] = core[l]
    BY <2>1, <2>4
  <2>6. \A l \in CoreIds : /\ Lives(l)' => Lives(l)
                           /\ core'[l].vault = core[l].vault /\ core'[l].orphan = core[l].orphan
    BY <2>3, <2>4, <2>5 DEF Lives, Alive
  <2>7. UNCHANGED <<up, innerVars, configured, spawned, stopping, thread, approvals>>
    BY <1>1 DEF Besides
  <2>8. QED
    BY <2>1, <2>5, <2>6, <2>7, CoresLiveOn
<1>2. ASSUME NEW v \in Vaults, MoveVault(v)
      PROVE  DesktopInv'
  <2>1. /\ UNCHANGED <<up, innerVars, configured, spawned, stopping, thread, approvals>> /\ core' = core
        /\ present' \subseteq Vaults /\ core' \in [CoreIds -> CoreRecords]
    BY <1>2 DEF MoveVault, DesktopInv, DesktopTypes
  <2>2. \A l \in CoreIds : /\ Lives(l)' => Lives(l)
                           /\ core'[l].vault = core[l].vault /\ core'[l].orphan = core[l].orphan
    BY <2>1 DEF Lives, Alive
  <2>3. QED
    BY <2>1, <2>2, CoresLiveOn
<1>3. QED
  BY <1>1, <1>2 DEF Booting, Cores

\* What the user does in the window while no thread is at work.
LEMMA ChoosingKeepsDesktop ==
  ASSUME DesktopInv, MakeApproval \/ ChooseVault \/ VaultChosen
  PROVE  DesktopInv'
<1> USE DesktopFacts
<1>1. UNCHANGED <<up, phase, coreInUse, window, generation, configured, present, core, spawned, stopping, thread>>
  BY DEF MakeApproval, ChooseVault, VaultChosen, Unstarted, innerVars
<1>2. candidate' \in [vault : AnyVault, of : CoreIds \cup {0}]
  BY DEF MakeApproval, ChooseVault, VaultChosen, OnDashboard, innerVars, DesktopInv, DesktopTypes
<1>3. approvals' = approvals \/ (coreInUse # 0 /\ approvals' \subseteq {configured})
  <2>1. ASSUME MakeApproval
        PROVE  coreInUse # 0 /\ approvals' \subseteq {configured}
    <3>1. coreInUse # 0 /\ core[coreInUse].vault \in Vaults /\ approvals' = approvals \cup {core[coreInUse].vault}
      BY <2>1 DEF MakeApproval, OnDashboard
    <3>2. core[coreInUse].vault = configured /\ approvals \subseteq {configured}
      BY <3>1, DesktopAssumption DEF DesktopInv, CoresInv
    <3>3. QED
      BY <3>1, <3>2
  <2>2. QED
    BY <2>1 DEF ChooseVault, VaultChosen
<1>4. DesktopTypes'
  BY <1>1, <1>2 DEF DesktopInv, DesktopTypes
<1>5. ThreadsInv'
  BY <1>1, <1>3, NoneAtWork DEF DesktopInv, ThreadsInv
<1>6. CoresInv'
  BY <1>1, <1>3 DEF DesktopInv, CoresInv, Lives, Alive
<1>7. QED
  BY <1>4, <1>5, <1>6 DEF DesktopInv

\* A thread begins: the switch takes the Core on display, a start finds none that runs.
LEMMA ThreadBegins ==
  ASSUME DesktopInv, NEW t \in StartThreads, \A u \in StartThreads : thread[u] = Idle,
         NEW r \in ThreadRecords, thread' = [thread EXCEPT ![t] = r],
         UNCHANGED <<configured, present, spawned, approvals>>,
         up', coreInUse' = 0, generation' \in Nat, stopping' = {}, stopping = {},
         candidate' \in [vault : AnyVault, of : CoreIds \cup {0}],
         core' \in [CoreIds -> CoreRecords],
         \/ r.job = "launch" /\ phase' = "starting" /\ r.to \in {configured, NoVault}
         \/ /\ r.job = "stop" /\ phase' = "switching" /\ r.generation = generation'
            /\ r.back \in {configured, NoVault},
         r.child # 0 => r.job = "stop",
         \A k \in CoreIds : Lives(k)' => k = r.child
  PROVE  DesktopInv'
<1> USE DesktopFacts
<1>1. thread' \in [StartThreads -> ThreadRecords] /\ thread'[t] = r /\ r # Idle
      /\ \A u \in StartThreads \ {t} : thread'[u] = Idle
  BY DEF DesktopInv, DesktopTypes
<1>2. DesktopTypes'
  BY <1>1 DEF DesktopInv, DesktopTypes
<1>3. ThreadsInv'
  BY <1>1 DEF ThreadsInv
<1>4. CoresInv'
  BY <1>1 DEF DesktopInv, CoresInv
<1>5. QED
  BY <1>2, <1>3, <1>4 DEF DesktopInv

LEMMA StartingIsALaunch ==
  ASSUME DesktopInv
  PROVE  /\ Launching \in ThreadRecords /\ Launching.job = "launch" /\ Launching.child = 0
         /\ Launching.to \in {configured, NoVault}
<1>1. ConfiguredVault \in {configured, NoVault} /\ configured \in AnyVault
  BY DEF ConfiguredVault, DesktopInv, DesktopTypes
<1>2. QED
  BY <1>1, DesktopFacts DEF Launching, Idle, ThreadRecords

LEMMA UsersStartsKeepDesktop ==
  ASSUME DesktopInv, NEW t \in StartThreads, ApplyVault(t) \/ Retry(t) \/ StartDesktop(t)
  PROVE  DesktopInv'
<1> USE DesktopFacts
<1>1. CASE ApplyVault(t)
  <2>1. /\ up /\ coreInUse # 0 /\ candidate' = NoCandidate
        /\ UNCHANGED <<up, configured, present, core, spawned, stopping, window, approvals>>
    BY <1>1 DEF ApplyVault, OnDashboard, Unstarted
  <2>2. CASE candidate.vault = ConfiguredVault
    <3>1. UNCHANGED <<phase, coreInUse, generation, thread>>
      BY <1>1, <2>2 DEF ApplyVault
    <3>2. QED
      BY <2>1, <3>1 DEF DesktopInv, DesktopTypes, ThreadsInv, CoresInv, Lives, Alive
  <2>3. CASE candidate.vault # ConfiguredVault
    <3> DEFINE r == [Idle EXCEPT !.job = "stop", !.child = coreInUse, !.to = candidate.vault,
                                 !.back = ConfiguredVault, !.generation = generation + 1]
    <3>1. /\ generation' = generation + 1 /\ phase' = "switching" /\ coreInUse' = 0
          /\ thread' = [thread EXCEPT ![t] = r]
      BY <1>1, <2>3 DEF ApplyVault
    <3>2. generation \in Nat /\ generation + 1 \in Nat /\ candidate.vault \in AnyVault
          /\ ConfiguredVault \in {configured, NoVault} /\ configured \in AnyVault /\ coreInUse \in CoreIds
          /\ core \in [CoreIds -> CoreRecords]
      BY <2>1 DEF ConfiguredVault, DesktopInv, DesktopTypes
    <3>3. /\ r \in ThreadRecords /\ r.job = "stop" /\ r.child = coreInUse /\ r.back = ConfiguredVault
          /\ r.generation = generation + 1
      BY <3>2 DEF Idle, ThreadRecords
    <3> HIDE DEF r
    <3>4. stopping = {} /\ \A u \in StartThreads : thread[u] = Idle
      BY <2>1, NoneAtWork DEF DesktopInv, CoresInv
    <3>5. \A k \in CoreIds : Lives(k)' => k = r.child
      BY <2>1, <3>3, <3>4 DEF DesktopInv, CoresInv, Lives, Alive
    <3>6. QED
      BY <2>1, <3>1, <3>2, <3>3, <3>4, <3>5, ThreadBegins
  <2>4. QED
    BY <2>2, <2>3
<1>2. CASE Retry(t)
  <2>1. /\ up /\ window = 0 /\ phase = "failed" /\ phase' = "starting" /\ coreInUse' = 0
        /\ thread' = [thread EXCEPT ![t] = Launching]
        /\ UNCHANGED <<up, configured, present, core, spawned, stopping, candidate, generation, approvals>>
    BY <1>2 DEF Retry, Unstarted
  <2>2. coreInUse = 0 /\ stopping = {} /\ \A u \in StartThreads : thread[u] = Idle
    BY <2>1, NoneAtWork DEF DesktopInv, CoresInv
  <2>3. \A k \in CoreIds : ~Lives(k)'
    BY <2>1, <2>2 DEF DesktopInv, CoresInv, Lives, Alive
  <2>4. generation \in Nat /\ candidate \in [vault : AnyVault, of : CoreIds \cup {0}] /\ core \in [CoreIds -> CoreRecords]
    BY DEF DesktopInv, DesktopTypes
  <2>5. QED
    BY <2>1, <2>2, <2>3, <2>4, StartingIsALaunch, ThreadBegins
<1>3. CASE StartDesktop(t)
  <2>1. /\ ~up /\ up' = TRUE /\ thread' = [thread EXCEPT ![t] = Launching]
        /\ core' = [k \in CoreIds |-> [core[k] EXCEPT !.orphan = core[k].state # "none"]]
        /\ UNCHANGED <<phase, coreInUse, candidate, generation, configured, present, spawned, stopping, approvals>>
    BY <1>3 DEF StartDesktop, innerVars
  <2>2. /\ coreInUse = 0 /\ stopping = {} /\ phase = "starting" /\ \A u \in StartThreads : thread[u] = Idle
        /\ generation \in Nat /\ candidate \in [vault : AnyVault, of : CoreIds \cup {0}]
        /\ core \in [CoreIds -> CoreRecords]
    BY <2>1, NoneAtWork DEF DesktopInv, DesktopTypes, CoresInv
  <2>3. core' \in [CoreIds -> CoreRecords]
    <3>1. ASSUME NEW k \in CoreIds
          PROVE  [core[k] EXCEPT !.orphan = core[k].state # "none"] \in CoreRecords
      <4>1. core[k] \in CoreRecords /\ (core[k].state # "none") \in BOOLEAN
        BY <2>2
      <4>2. QED
        BY <4>1 DEF CoreRecords
    <3>2. QED
      BY <2>1, <3>1
  <2>4. \A k \in CoreIds : core'[k].state = core[k].state /\ core'[k].orphan = (core[k].state # "none")
    BY <2>1, <2>2 DEF CoreRecords
  <2>5. \A k \in CoreIds : ~Lives(k)'
    BY <2>4 DEF Lives, Alive
  <2>6. QED
    BY <2>1, <2>2, <2>3, <2>5, StartingIsALaunch, ThreadBegins
<1>4. QED
  BY <1>1, <1>2, <1>3

\* The Desktop ends, and its Cores are orphans.
LEMMA EndingKeepsDesktop == ASSUME DesktopInv, EndDesktop PROVE DesktopInv'
<1> USE DesktopFacts
<1>1. PICK ended \in {{}, {coreInUse} \ {0}} :
          core' = [k \in CoreIds |-> [core[k] EXCEPT !.orphan = TRUE, !.state = IF k \in ended THEN "gone" ELSE @]]
  BY DEF EndDesktop
<1>2. core \in [CoreIds -> CoreRecords] /\ approvals \subseteq {configured}
  BY DEF DesktopInv, DesktopTypes, CoresInv
<1>3. core' \in [CoreIds -> CoreRecords] /\ \A k \in CoreIds : core'[k].orphan
  <2>1. ASSUME NEW k \in CoreIds
        PROVE  /\ core'[k] = [core[k] EXCEPT !.orphan = TRUE, !.state = IF k \in ended THEN "gone" ELSE @]
               /\ core'[k] \in CoreRecords /\ core'[k].orphan
    <3>1. core[k] \in CoreRecords /\ core'[k] = [core[k] EXCEPT !.orphan = TRUE, !.state = IF k \in ended THEN "gone" ELSE @]
      BY <1>1, <1>2
    <3>2. QED
      BY <3>1 DEF CoreRecords
  <2>2. core' = [k \in CoreIds |-> core'[k]]
    BY <1>1
  <2>3. QED
    BY <2>1, <2>2
<1>4. /\ up' = FALSE /\ phase' = "starting" /\ coreInUse' = 0 /\ candidate' = NoCandidate /\ generation' = 0
      /\ stopping' = {} /\ thread' = [t \in StartThreads |-> Idle]
      /\ UNCHANGED <<configured, present, spawned, approvals>>
  BY DEF EndDesktop
<1>5. DesktopTypes'
  BY <1>3, <1>4 DEF DesktopInv, DesktopTypes
<1>6. ThreadsInv'
  BY <1>4 DEF ThreadsInv
<1>7. CoresInv'
  BY <1>2, <1>3, <1>4 DEF CoresInv, Lives
<1>8. QED
  BY <1>5, <1>6, <1>7 DEF DesktopInv

LEMMA DesktopStarts == ASSUME DesktopInit PROVE DesktopInv
<1> USE DesktopFacts
<1>1. /\ up = TRUE /\ phase = "starting" /\ coreInUse = 0 /\ candidate = NoCandidate /\ generation = 0
      /\ present = Vaults /\ configured \in AnyVault /\ approvals = {} /\ stopping = {} /\ spawned = 0
      /\ core = [k \in CoreIds |-> [state |-> "none", vault |-> NoVault, orphan |-> FALSE]]
      /\ thread = [t \in StartThreads |-> IF t = 1 THEN Launching ELSE Idle]
  BY DEF DesktopInit
<1>2. ConfiguredVault \in {configured, NoVault}
  BY DEF ConfiguredVault
<1>3. /\ Launching \in ThreadRecords /\ Launching.job = "launch" /\ Launching.child = 0
      /\ Launching.to \in {configured, NoVault}
  BY <1>1, <1>2 DEF Launching, Idle, ThreadRecords
<1>4. core \in [CoreIds -> CoreRecords] /\ \A k \in CoreIds : ~Lives(k)
  BY <1>1 DEF CoreRecords, Lives, Alive
<1>5. thread \in [StartThreads -> ThreadRecords] /\ \A t \in StartThreads : thread[t] # Idle => t = 1
      /\ thread[1] = Launching
  BY <1>1, <1>3
<1>6. 0 \in 0 .. MaxCores
  BY DesktopAssumption
<1>7. DesktopTypes
  BY <1>1, <1>4, <1>5, <1>6 DEF DesktopTypes
<1>8. ThreadsInv
  BY <1>1, <1>3, <1>5 DEF ThreadsInv
<1>9. CoresInv
  BY <1>1, <1>4 DEF CoresInv
<1>10. QED
  BY <1>7, <1>8, <1>9 DEF DesktopInv

LEMMA DesktopStepKeepsInv == ASSUME DesktopInv, DesktopNext PROVE DesktopInv'
<1>1. ASSUME NEW t \in StartThreads, StartStep(t)
      PROVE  DesktopInv'
  BY <1>1, SpawningKeepsDesktop, SucceedingKeepsDesktop, FailingKeepsDesktop, SwitchingKeepsDesktop,
     SavingKeepsDesktop DEF StartStep
<1>2. QED
  BY <1>1, MonitorsKeepDesktop, ProcessesKeepDesktop, ChoosingKeepsDesktop, UsersStartsKeepDesktop,
     EndingKeepsDesktop DEF DesktopNext, Starting, Monitoring

LEMMA DesktopRests == ASSUME DesktopInv, UNCHANGED desktopVars PROVE DesktopInv'
  BY DEF desktopVars, innerVars, DesktopInv, DesktopTypes, ThreadsInv, CoresInv, Lives, Alive

\* One Core runs, of the Vault that is saved, and the approvals on hand are of it.
LEMMA DesktopIsSound == ASSUME DesktopInv PROVE OneCore /\ ApprovalsAreOfVault /\ VaultIsSaved
<1> USE DesktopFacts
<1>1. VaultIsSaved
  BY DEF DesktopInv, CoresInv, VaultIsSaved
<1>2. ApprovalsAreOfVault
  BY DesktopAssumption DEF DesktopInv, CoresInv, ApprovalsAreOfVault
<1>3. \A k, l \in CoreIds : Lives(k) /\ Lives(l) => k = l
  <2>1. CASE \E t \in StartThreads : thread[t] # Idle
    BY <2>1, OneAtWork
  <2>2. CASE \A t \in StartThreads : thread[t] = Idle
    <3>1. \A k \in CoreIds : Lives(k) => k = coreInUse \/ k \in stopping
      BY <2>2 DEF DesktopInv, CoresInv
    <3>2. (coreInUse # 0 => stopping = {}) /\ \A k, l \in stopping : k = l
      BY DEF DesktopInv, CoresInv
    <3>3. QED
      BY <3>1, <3>2
  <2>3. QED
    BY <2>1, <2>2
<1>4. OneCore
  <2> DEFINE live == {k \in CoreIds : Alive(k) /\ ~core[k].orphan}
  <2>1. live = {} \/ \E k \in CoreIds : live = {k}
    BY <1>3 DEF Lives
  <2>2. Cardinality({}) = 0 /\ \A k \in CoreIds : Cardinality({k}) = 1
    BY FS_EmptySet, FS_Singleton
  <2>3. Cardinality(live) \in {0, 1}
    BY <2>1, <2>2
  <2>4. QED
    BY <2>3 DEF OneCore
<1>5. QED
  BY <1>1, <1>2, <1>4

-----------------------------------------------------------------------------
(* The Desktop: what its types say beyond what the invariant of its Core needs *)

ShownInv ==
    /\ phase \in {"starting", "ready", "switching", "failed"}
    /\ window \in CoreIds \cup {0} /\ prompt \in CoreIds \cup {0}

\* A switch is chosen for only while there may be one, and one dialog is open at a time.
SwitchesInv ==
    /\ generation \in 0 .. MaxSwitches
    /\ prompt # 0 => candidate = NoCandidate
    /\ prompt # 0 \/ candidate # NoCandidate => generation < MaxSwitches

AttemptsInv ==
    \A t \in StartThreads : thread[t].attempts \in 0 .. RetryLimit /\ thread[t].generation \in 0 .. MaxSwitches

DesktopBounds ==
    /\ ShownInv /\ SwitchesInv /\ AttemptsInv
    /\ approvals \subseteq Vaults
    /\ monitor \in [CoreIds -> -1 .. HeartbeatLimit - 1]

DesktopLimits ==
    /\ RetryLimit \in Nat /\ RetryLimit >= 1 /\ HeartbeatLimit \in Nat /\ HeartbeatLimit >= 1
    /\ MaxSwitches \in Nat
    /\ 0 \in 0 .. RetryLimit /\ 0 \in 0 .. MaxSwitches
    /\ -1 \in -1 .. HeartbeatLimit - 1 /\ 0 \in -1 .. HeartbeatLimit - 1

LEMMA LimitsAre == DesktopLimits
<1>1. /\ RetryLimit \in Nat /\ RetryLimit >= 1 /\ HeartbeatLimit \in Nat /\ HeartbeatLimit >= 1
      /\ MaxSwitches \in Nat
  BY DesktopAssumption
<1>2. QED
  BY <1>1 DEF DesktopLimits

LEMMA BoundsInitially == ASSUME DesktopInit PROVE DesktopBounds
<1> USE LimitsAre, DesktopFacts DEF DesktopLimits
<1>1. /\ phase = "starting" /\ window = 0 /\ prompt = 0 /\ candidate = NoCandidate /\ generation = 0
      /\ approvals = {} /\ monitor = [k \in CoreIds |-> -1]
      /\ thread = [t \in StartThreads |-> IF t = 1 THEN Launching ELSE Idle]
  BY DEF DesktopInit
<1>2. /\ Idle.attempts = 0 /\ Idle.generation = 0 /\ Launching.attempts = 0 /\ Launching.generation = 0
  BY DEF Launching, Idle
<1>3. AttemptsInv
  BY <1>1, <1>2 DEF AttemptsInv
<1>4. ShownInv /\ SwitchesInv
  BY <1>1 DEF ShownInv, SwitchesInv
<1>5. monitor \in [CoreIds -> -1 .. HeartbeatLimit - 1]
  BY <1>1
<1>6. QED
  BY <1>1, <1>3, <1>4, <1>5 DEF DesktopBounds

\* A thread's record changes to one within the limits, and what is shown to a Core.
LEMMA BoundsByThread ==
  ASSUME DesktopInv, DesktopBounds, NEW t \in StartThreads, NEW r,
         thread' = [thread EXCEPT ![t] = r], r.attempts \in 0 .. RetryLimit,
         r.generation \in 0 .. MaxSwitches,
         phase' \in {"starting", "ready", "switching", "failed"}, window' \in CoreIds \cup {0},
         UNCHANGED <<prompt, candidate, generation>>,
         approvals' \in {approvals, {}},
         monitor' = monitor \/ \E k \in CoreIds : monitor' = [monitor EXCEPT ![k] = 0]
  PROVE  DesktopBounds'
<1> USE LimitsAre DEF DesktopLimits
<1>1. ShownInv' /\ SwitchesInv'
  BY DEF DesktopBounds, ShownInv, SwitchesInv
<1>2. AttemptsInv'
  <2>1. \A u \in StartThreads : thread'[u] = IF u = t THEN r ELSE thread[u]
    BY DEF DesktopInv, DesktopTypes
  <2>2. QED
    BY <2>1 DEF DesktopBounds, AttemptsInv
<1>3. monitor' \in [CoreIds -> -1 .. HeartbeatLimit - 1]
  BY DEF DesktopBounds
<1>4. QED
  BY <1>1, <1>2, <1>3 DEF DesktopBounds

LEMMA ThreadKeepsBounds ==
  ASSUME DesktopInv, DesktopBounds, NEW t \in StartThreads, StartStep(t)
  PROVE  DesktopBounds'
<1> USE LimitsAre, DesktopFacts DEF DesktopLimits
<1>1. /\ thread[t].attempts \in 0 .. RetryLimit /\ thread[t].generation \in 0 .. MaxSwitches
      /\ thread[t] \in ThreadRecords /\ thread[t].child \in CoreIds \cup {0}
      /\ Idle.attempts = 0 /\ Idle.generation = 0
      /\ window \in CoreIds \cup {0} /\ phase \in {"starting", "ready", "switching", "failed"}
  BY DEF DesktopBounds, AttemptsInv, ShownInv, DesktopInv, DesktopTypes, ThreadRecords, Idle
<1>2. CASE SpawnCore(t)
  <2> DEFINE r == [thread[t] EXCEPT !.child = spawned + 1]
  <2>1. /\ r.attempts = thread[t].attempts /\ r.generation = thread[t].generation
    <3>1. spawned + 1 \in CoreIds
      <4>1. spawned \in 0 .. MaxCores /\ MaxCores \in Nat /\ spawned < MaxCores
        BY <1>2, DesktopAssumption DEF SpawnCore, DesktopInv, DesktopTypes
      <4>2. QED
        BY <4>1 DEF CoreIds
    <3>2. QED
      BY <1>1, <3>1 DEF ThreadRecords
  <2>2. thread' = [thread EXCEPT ![t] = r] /\ UNCHANGED <<innerVars, approvals, monitor>>
    BY <1>2, <2>1 DEF SpawnCore
  <2>3. QED
    BY <1>1, <2>1, <2>2, BoundsByThread DEF innerVars
<1>3. ASSUME NEW k \in CoreIds, Install(t, k), UNCHANGED <<prompt, candidate, generation, approvals>>
      PROVE  DesktopBounds'
  BY <1>1, <1>3, BoundsByThread DEF Install
<1>4. ASSUME NEW k \in CoreIds, FinishSwitch(t, k), UNCHANGED <<prompt, candidate, generation, approvals>>
      PROVE  DesktopBounds'
  <2>1. CASE Install(t, k)
    BY <1>3, <1>4, <2>1
  <2>2. CASE ~Install(t, k)
    <3>1. thread' = [thread EXCEPT ![t] = Idle] /\ UNCHANGED <<phase, coreInUse, window, monitor>>
      BY <1>4, <2>2 DEF FinishSwitch
    <3>2. QED
      BY <1>1, <1>4, <3>1, BoundsByThread
  <2>3. QED
    BY <2>1, <2>2
<1>5. ASSUME GiveUp(t), UNCHANGED <<prompt, candidate, generation, approvals, monitor>>
      PROVE  DesktopBounds'
  <2>1. CASE thread[t].job \in {"candidate", "save"}
    <3> DEFINE r == [thread[t] EXCEPT !.job = "previous", !.child = 0, !.attempts = 0]
    <3>1. /\ r.attempts = 0 /\ r.generation = thread[t].generation
      BY <1>1 DEF ThreadRecords
    <3>2. thread' = [thread EXCEPT ![t] = r] /\ UNCHANGED <<phase, window>>
      BY <1>5, <2>1, <3>1 DEF GiveUp
    <3>3. QED
      BY <1>1, <1>5, <3>1, <3>2, BoundsByThread
  <2>2. CASE ~(thread[t].job \in {"candidate", "save"})
    <3>1. thread' = [thread EXCEPT ![t] = Idle] /\ FailedToStart(t)
      BY <1>5, <2>2 DEF GiveUp
    <3>2. phase' \in {phase, "failed"} /\ window' \in {window, 0}
      BY <3>1 DEF FailedToStart
    <3>3. QED
      BY <1>1, <1>5, <3>1, <3>2, BoundsByThread
  <2>3. QED
    BY <2>1, <2>2
<1>6. CASE StartSucceeds(t)
  <2>1. thread[t].child \in CoreIds /\ UNCHANGED <<prompt, candidate, generation, approvals>>
    BY <1>1, <1>6 DEF StartSucceeds, Quiet
  <2>2. CASE thread[t].job = "candidate"
    <3> DEFINE r == [thread[t] EXCEPT !.job = "save"]
    <3>1. /\ r.attempts = thread[t].attempts /\ r.generation = thread[t].generation
      BY <1>1 DEF ThreadRecords
    <3>2. thread' = [thread EXCEPT ![t] = r] /\ UNCHANGED <<phase, window, monitor>>
      BY <1>6, <2>2, <3>1 DEF StartSucceeds
    <3>3. QED
      BY <1>1, <2>1, <3>1, <3>2, BoundsByThread
  <2>3. CASE thread[t].job # "candidate"
    <3>1. Install(t, thread[t].child) \/ FinishSwitch(t, thread[t].child)
      BY <1>6, <2>3 DEF StartSucceeds
    <3>2. QED
      BY <1>3, <1>4, <2>1, <3>1
  <2>4. QED
    BY <2>2, <2>3
<1>7. CASE AttemptFails(t)
  <2>1. UNCHANGED <<prompt, candidate, generation, approvals, monitor>>
    BY <1>7 DEF AttemptFails, Quiet
  <2>2. CASE thread[t].attempts + 1 < RetryLimit
    <3> DEFINE r == [thread[t] EXCEPT !.child = 0, !.attempts = @ + 1]
    <3>1. /\ r.attempts = thread[t].attempts + 1 /\ r.generation = thread[t].generation
      BY <1>1 DEF ThreadRecords
    <3>2. thread' = [thread EXCEPT ![t] = r] /\ UNCHANGED <<phase, window>>
      BY <1>7, <2>2, <3>1 DEF AttemptFails
    <3>3. r.attempts \in 0 .. RetryLimit
      BY <1>1, <2>2, <3>1
    <3>4. QED
      BY <1>1, <2>1, <3>1, <3>2, <3>3, BoundsByThread
  <2>3. CASE ~(thread[t].attempts + 1 < RetryLimit)
    <3>1. GiveUp(t)
      BY <1>7, <2>3 DEF AttemptFails
    <3>2. QED
      BY <1>5, <2>1, <3>1
  <2>4. QED
    BY <2>2, <2>3
<1>8. CASE GrantFails(t)
  <2>1. GiveUp(t) /\ UNCHANGED <<prompt, candidate, generation, approvals, monitor>>
    BY <1>8 DEF GrantFails, Quiet
  <2>2. QED
    BY <1>5, <2>1
<1>9. CASE StopForSwitch(t)
  <2> DEFINE r == [thread[t] EXCEPT !.job = "invalidate", !.child = 0]
  <2>1. /\ r.attempts = thread[t].attempts /\ r.generation = thread[t].generation
    BY <1>1 DEF ThreadRecords
  <2>2. thread' = [thread EXCEPT ![t] = r] /\ window' = 0
        /\ UNCHANGED <<phase, prompt, candidate, generation, approvals, monitor>>
    BY <1>9, <2>1 DEF StopForSwitch, Quiet
  <2>3. QED
    BY <1>1, <2>1, <2>2, BoundsByThread
<1>10. CASE InvalidateAuthority(t)
  <2>1. PICK job \in {"candidate", "previous"} : thread' = [thread EXCEPT ![t].job = job]
    BY <1>10 DEF InvalidateAuthority
  <2> DEFINE r == [thread[t] EXCEPT !.job = job]
  <2>2. /\ r.attempts = thread[t].attempts /\ r.generation = thread[t].generation
    BY <1>1, <2>1 DEF ThreadRecords
  <2>3. /\ thread' = [thread EXCEPT ![t] = r] /\ approvals' \in {approvals, {}}
        /\ UNCHANGED <<phase, window, prompt, candidate, generation, monitor>>
    BY <1>10, <2>1, <2>2 DEF InvalidateAuthority, innerVars
  <2>4. QED
    BY <1>1, <2>2, <2>3, BoundsByThread
<1>11. CASE SaveVault(t)
  <2>1. UNCHANGED <<prompt, candidate, generation, approvals>>
    BY <1>11 DEF SaveVault
  <2>2. thread[t].child \in CoreIds
    BY <1>1, <1>11 DEF SaveVault, DesktopInv, ThreadsInv
  <2>3. FinishSwitch(t, thread[t].child) \/ (GiveUp(t) /\ UNCHANGED monitor)
    BY <1>11 DEF SaveVault
  <2>4. QED
    BY <1>4, <1>5, <2>1, <2>2, <2>3
<1>12. QED
  BY <1>2, <1>6, <1>7, <1>8, <1>9, <1>10, <1>11 DEF StartStep

LEMMA MonitorsKeepBounds == ASSUME DesktopInv, DesktopBounds, Monitoring PROVE DesktopBounds'
<1> USE LimitsAre DEF DesktopLimits
<1>1. PICK k \in CoreIds : Heartbeat(k) \/ FinishStopping(k)
  BY DEF Monitoring
<1>2. /\ phase' \in {phase, "failed"} /\ window' \in {window, 0}
      /\ UNCHANGED <<prompt, candidate, generation, thread, approvals>>
  BY <1>1 DEF Heartbeat, FinishStopping, FailRunning
<1>3. ShownInv' /\ SwitchesInv' /\ AttemptsInv'
  BY <1>2 DEF DesktopBounds, ShownInv, SwitchesInv, AttemptsInv
<1>4. monitor' \in [CoreIds -> -1 .. HeartbeatLimit - 1]
  <2>1. monitor \in [CoreIds -> -1 .. HeartbeatLimit - 1]
    BY DEF DesktopBounds
  <2>2. CASE FinishStopping(k)
    BY <2>1, <2>2 DEF FinishStopping
  <2>3. CASE Heartbeat(k)
    <3>1. PICK missed \in -1 .. HeartbeatLimit - 1 : missed = monitor[k]
      BY <2>1
    <3>2. \E n \in -1 .. HeartbeatLimit - 1 : monitor' = [monitor EXCEPT ![k] = n]
      <4>1. CASE monitor' = [monitor EXCEPT ![k] = -1]
        BY <4>1
      <4>2. CASE monitor' = [monitor EXCEPT ![k] = 0]
        BY <4>2
      <4>3. CASE monitor' = [monitor EXCEPT ![k] = @ + 1]
        <5>1. CASE missed + 1 \in -1 .. HeartbeatLimit - 1
          BY <3>1, <4>3, <5>1
        <5>2. CASE ~(missed + 1 \in -1 .. HeartbeatLimit - 1)
          <6>1. MissedTooMany(k)
            BY <3>1, <5>2 DEF MissedTooMany
          <6>2. monitor' = [monitor EXCEPT ![k] = -1] \/ monitor' = [monitor EXCEPT ![k] = 0]
            BY <2>3, <6>1 DEF Heartbeat, FailRunning
          <6>3. QED
            BY <4>1, <4>2, <6>2
        <5>3. QED
          BY <5>1, <5>2
      <4>4. QED
        BY <2>3, <4>1, <4>2, <4>3 DEF Heartbeat, FailRunning
    <3>3. QED
      BY <2>1, <3>2
  <2>4. QED
    BY <1>1, <2>2, <2>3
<1>5. QED
  BY <1>2, <1>3, <1>4 DEF DesktopBounds

LEMMA UserKeepsBounds ==
  ASSUME DesktopInv, DesktopBounds,
         \/ MakeApproval \/ ChooseVault \/ VaultChosen \/ EndDesktop
         \/ \E t \in StartThreads : ApplyVault(t) \/ Retry(t) \/ StartDesktop(t)
  PROVE  DesktopBounds'
<1> USE LimitsAre, DesktopFacts DEF DesktopLimits
<1>1. /\ Idle.attempts = 0 /\ Idle.generation = 0 /\ Launching.attempts = 0 /\ Launching.generation = 0
  BY DEF Launching, Idle
<1>2. coreInUse \in CoreIds \cup {0}
  BY DEF DesktopInv, DesktopTypes
<1>3. CASE MakeApproval
  <2>1. UNCHANGED <<phase, window, prompt, candidate, generation, thread, monitor>> /\ approvals' \subseteq Vaults
    BY <1>3 DEF MakeApproval, Unstarted, innerVars, DesktopBounds
  <2>2. QED
    BY <2>1 DEF DesktopBounds, ShownInv, SwitchesInv, AttemptsInv
<1>4. CASE ChooseVault
  <2>1. /\ prompt' = coreInUse /\ candidate' = NoCandidate /\ generation < MaxSwitches
        /\ UNCHANGED <<phase, window, generation, thread, approvals, monitor>>
    BY <1>4 DEF ChooseVault, Unstarted
  <2>2. QED
    BY <1>2, <2>1 DEF DesktopBounds, ShownInv, SwitchesInv, AttemptsInv
<1>5. CASE VaultChosen
  <2>1. /\ prompt # 0 /\ prompt' = 0 /\ UNCHANGED <<phase, window, generation, thread, approvals, monitor>>
    BY <1>5 DEF VaultChosen, Unstarted
  <2>2. QED
    BY <2>1 DEF DesktopBounds, ShownInv, SwitchesInv, AttemptsInv
<1>6. CASE EndDesktop
  <2>1. /\ phase' = "starting" /\ window' = 0 /\ prompt' = 0 /\ candidate' = NoCandidate /\ generation' = 0
        /\ monitor' = [k \in CoreIds |-> -1] /\ thread' = [t \in StartThreads |-> Idle] /\ approvals' = approvals
    BY <1>6 DEF EndDesktop
  <2>2. ShownInv' /\ SwitchesInv' /\ AttemptsInv'
    BY <1>1, <2>1 DEF ShownInv, SwitchesInv, AttemptsInv
  <2>3. monitor' \in [CoreIds -> -1 .. HeartbeatLimit - 1]
    BY <2>1
  <2>4. QED
    BY <2>1, <2>2, <2>3 DEF DesktopBounds
<1>7. ASSUME NEW t \in StartThreads, ApplyVault(t)
      PROVE  DesktopBounds'
  <2>1. /\ candidate # NoCandidate /\ candidate' = NoCandidate
        /\ UNCHANGED <<window, prompt, approvals, monitor>>
    BY <1>7 DEF ApplyVault, Unstarted
  <2>2. prompt = 0 /\ generation < MaxSwitches /\ generation \in 0 .. MaxSwitches
    BY <2>1 DEF DesktopBounds, SwitchesInv
  <2>3. CASE candidate.vault = ConfiguredVault
    <3>1. UNCHANGED <<phase, generation, thread>>
      BY <1>7, <2>3 DEF ApplyVault
    <3>2. QED
      BY <2>1, <2>2, <3>1 DEF DesktopBounds, ShownInv, SwitchesInv, AttemptsInv
  <2>4. CASE candidate.vault # ConfiguredVault
    <3>1. /\ generation' = generation + 1 /\ phase' = "switching"
          /\ thread' = [thread EXCEPT ![t] =
                [Idle EXCEPT !.job = "stop", !.child = coreInUse, !.to = candidate.vault,
                             !.back = ConfiguredVault, !.generation = generation + 1]]
      BY <1>7, <2>4 DEF ApplyVault
    <3> DEFINE r == [Idle EXCEPT !.job = "stop", !.child = coreInUse, !.to = candidate.vault,
                                  !.back = ConfiguredVault, !.generation = generation + 1]
    <3>2. r.attempts = 0 /\ r.generation = generation + 1
      BY DEF Idle
    <3> HIDE DEF r
    <3>3. AttemptsInv'
      <4>1. \A u \in StartThreads : thread'[u] = IF u = t THEN r ELSE thread[u]
        BY <3>1 DEF DesktopInv, DesktopTypes, r
      <4>2. QED
        BY <2>2, <3>2, <4>1 DEF DesktopBounds, AttemptsInv
    <3>4. ShownInv' /\ SwitchesInv'
      BY <2>1, <2>2, <3>1 DEF DesktopBounds, ShownInv, SwitchesInv
    <3>5. QED
      BY <2>1, <3>3, <3>4 DEF DesktopBounds
  <2>5. QED
    BY <2>3, <2>4
<1>8. ASSUME NEW t \in StartThreads, Retry(t) \/ StartDesktop(t)
      PROVE  DesktopBounds'
  <2>1. /\ thread' = [thread EXCEPT ![t] = Launching] /\ phase' \in {phase, "starting"}
        /\ UNCHANGED <<window, prompt, candidate, generation, approvals, monitor>>
    BY <1>8 DEF Retry, StartDesktop, Unstarted, innerVars
  <2>2. phase' \in {"starting", "ready", "switching", "failed"} /\ window' \in CoreIds \cup {0}
    BY <2>1 DEF DesktopBounds, ShownInv
  <2>3. QED
    BY <1>1, <2>1, <2>2, BoundsByThread
<1>9. QED
  BY <1>3, <1>4, <1>5, <1>6, <1>7, <1>8

LEMMA DesktopStepKeepsBounds ==
  ASSUME DesktopInv, DesktopBounds, DesktopNext \/ UNCHANGED desktopVars
  PROVE  DesktopBounds'
<1>1. ASSUME UNCHANGED <<phase, window, prompt, candidate, generation, thread, approvals, monitor>>
      PROVE  DesktopBounds'
  BY <1>1 DEF DesktopBounds, ShownInv, SwitchesInv, AttemptsInv
<1>2. CASE UNCHANGED desktopVars
  BY <1>1, <1>2 DEF desktopVars, innerVars
<1>3. CASE Starting
  BY <1>3, ThreadKeepsBounds DEF Starting
<1>4. CASE Booting \/ Cores
  BY <1>1, <1>4 DEF Booting, Cores, Besides, innerVars
<1>5. CASE \E v \in Vaults : MoveVault(v)
  BY <1>1, <1>5 DEF MoveVault, innerVars
<1>6. QED
  BY <1>2, <1>3, <1>4, <1>5, MonitorsKeepBounds, UserKeepsBounds DEF DesktopNext

LEMMA DesktopIsTyped == ASSUME DesktopInv, DesktopBounds, spawned < MaxCores PROVE DesktopTypeOK
<1> USE LimitsAre DEF DesktopLimits
<1>1. /\ up \in BOOLEAN /\ coreInUse \in CoreIds \cup {0}
      /\ candidate \in [vault : AnyVault, of : CoreIds \cup {0}]
      /\ configured \in AnyVault /\ present \subseteq Vaults
      /\ core \in [CoreIds -> CoreRecords] /\ thread \in [StartThreads -> ThreadRecords]
      /\ stopping \subseteq CoreIds
  BY DEF DesktopInv, DesktopTypes
<1>2. spawned \in 0 .. MaxCores - 1
  BY DesktopAssumption DEF DesktopInv, DesktopTypes
<1>3. \A t \in StartThreads : thread[t] \in
          [job : {"idle", "launch", "stop", "invalidate", "candidate", "save", "previous"},
           child : CoreIds \cup {0}, attempts : 0 .. RetryLimit,
           to : AnyVault, back : AnyVault, generation : 0 .. MaxSwitches]
  BY <1>1 DEF ThreadRecords, DesktopBounds, AttemptsInv
<1>4. thread \in [StartThreads ->
          [job : {"idle", "launch", "stop", "invalidate", "candidate", "save", "previous"},
           child : CoreIds \cup {0}, attempts : 0 .. RetryLimit,
           to : AnyVault, back : AnyVault, generation : 0 .. MaxSwitches]]
  BY <1>1, <1>3
<1>5. QED
  BY <1>1, <1>2, <1>4 DEF DesktopTypeOK, DesktopBounds, ShownInv, SwitchesInv, CoreRecords

-----------------------------------------------------------------------------
(* The calendar, for any zone, recurrence and day: when the clock on the    *)
(* wall first comes to a time, with what is due read off it.                *)

\* What the clock of zone z shows, and the first moment at which it has come to w.
WallOf(z, moment) == IF moment < z.at THEN moment ELSE moment + z.by
FirstAt(z, w) == IF w < z.at THEN w ELSE IF w - z.by < z.at THEN z.at ELSE w - z.by

ZonesOK == [at : Nat, by : -LookAhead .. LookAhead]

\* The rule is about this date, and this is when it is due then.
OccursBy(rule, date) ==
    CASE rule.kind = "daily" -> TRUE
      [] rule.kind = "weekly" -> date % WeekLength = rule.weekday
      [] rule.kind = "every_n_days" -> date >= rule.anchor /\ (date - rule.anchor) % rule.interval = 0
      [] OTHER -> FALSE

DueAt(z, rule, date) == FirstAt(z, date * DayLength + rule.time)

\* A bounded set of integers that has an element has a least one.
LEMMA LeastBetween ==
  ASSUME NEW low \in Int, NEW high \in Int, NEW S \in SUBSET (low .. high), S # {}
  PROVE  \E least \in S : Min(S) = least /\ \A k \in S : least <= k
<1> DEFINE T == {k - low : k \in S}
<1>1. T \in SUBSET Nat /\ T # {}
  <2>1. \A k \in S : k - low \in Nat
    OBVIOUS
  <2>2. QED
    BY <2>1
<1>2. \A k \in S : k - low \in T
  OBVIOUS
<1>3. \A first \in T : \E k \in S : first = k - low
  OBVIOUS
<1> HIDE DEF T
<1>4. PICK first \in T : \A k \in T : first <= k
  BY <1>1, LeastOf
<1>5. PICK least \in S : first = least - low
  BY <1>3, <1>4
<1>6. \A k \in S : first <= k - low /\ k \in Int /\ least \in Int
  BY <1>2, <1>4
<1>7. \A k \in S : least <= k
  BY <1>5, <1>6
<1>8. Min(S) \in S /\ \A k \in S : Min(S) <= k
  BY <1>7 DEF Min
<1>9. PICK other \in S : other = Min(S) /\ other <= least
  BY <1>8
<1>10. least <= other /\ other \in Int /\ least \in Int
  BY <1>6, <1>7
<1>11. other = least
  BY <1>9, <1>10
<1>12. QED
  BY <1>7, <1>9, <1>11

LEMMA MinIs ==
  ASSUME NEW low \in Int, NEW high \in Int, NEW S \in SUBSET (low .. high), NEW least \in S, \A k \in S : least <= k
  PROVE  Min(S) = least
<1>1. PICK other \in S : Min(S) = other /\ \A k \in S : other <= k
  BY LeastBetween
<1>2. other <= least /\ least <= other /\ other \in Int /\ least \in Int
  BY <1>1
<1>3. QED
  BY <1>1, <1>2

\* What the clock shows at the moments before it, and from it on.
LEMMA FirstIsFirst ==
  ASSUME NEW z \in ZonesOK, NEW w \in Int
  PROVE  /\ FirstAt(z, w) \in Int /\ FirstAt(z, w) \in w - LookAhead .. w + LookAhead
         /\ WallOf(z, FirstAt(z, w)) >= w
         /\ \A moment \in Int : WallOf(z, moment) \in Int
         /\ \A moment \in Int : moment < FirstAt(z, w) => WallOf(z, moment) < w
<1>1. LookAhead \in Nat
  BY CalendarAssumption
<1>2. PICK at \in Nat, by \in -LookAhead .. LookAhead : at = z.at /\ by = z.by
  BY DEF ZonesOK
<1>3. by \in Int /\ -LookAhead <= by /\ by <= LookAhead
  BY <1>1
<1>4. FirstAt(z, w) = IF w < at THEN w ELSE IF w - by < at THEN at ELSE w - by
  BY <1>2 DEF FirstAt
<1>5. \A moment : WallOf(z, moment) = IF moment < at THEN moment ELSE moment + by
  BY <1>2 DEF WallOf
<1>6. FirstAt(z, w) \in Int /\ FirstAt(z, w) \in w - LookAhead .. w + LookAhead
  BY <1>1, <1>3, <1>4
<1>7. WallOf(z, FirstAt(z, w)) >= w
  BY <1>3, <1>4, <1>5
<1>8. \A moment \in Int : WallOf(z, moment) \in Int
  BY <1>3, <1>5
<1>9. \A moment \in Int : moment < FirstAt(z, w) => WallOf(z, moment) < w
  BY <1>3, <1>4, <1>5
<1>10. QED
  BY <1>6, <1>7, <1>8, <1>9

\* The clock comes to a later day's time later, as a change of it is shorter than a day.
LEMMA LaterIsLater ==
  ASSUME NEW z \in ZonesOK, NEW w \in Int, NEW v \in Int, w + DayLength <= v
  PROVE  FirstAt(z, w) < FirstAt(z, v)
<1>1. LookAhead \in Nat /\ DayLength \in Nat /\ LookAhead < DayLength
  BY CalendarAssumption
<1>2. PICK at \in Nat, by \in -LookAhead .. LookAhead : at = z.at /\ by = z.by
  BY DEF ZonesOK
<1>3. by \in Int /\ -LookAhead <= by /\ by <= LookAhead
  BY <1>1
<1>4. /\ FirstAt(z, w) = IF w < at THEN w ELSE IF w - by < at THEN at ELSE w - by
      /\ FirstAt(z, v) = IF v < at THEN v ELSE IF v - by < at THEN at ELSE v - by
  BY <1>2 DEF FirstAt
<1>5. QED
  BY <1>1, <1>3, <1>4

ZoneOK == zone \in ZonesOK

\* resolve_local finds that moment, and so does the definition it is checked against.
LEMMA ResolvedIsFirst ==
  ASSUME ZoneOK, NEW w \in Int
  PROVE  ResolveLocal(w) = FirstAt(zone, w) /\ Reached(w) = FirstAt(zone, w)
<1>1. LookAhead \in Nat
  BY CalendarAssumption
<1>2. PICK at \in Nat, by \in Int : at = zone.at /\ by = zone.by /\ -LookAhead <= by /\ by <= LookAhead
  BY <1>1 DEF ZoneOK, ZonesOK
<1>3. \A moment : Wall(moment) = IF moment < at THEN moment ELSE moment + by
  BY <1>2 DEF Wall
<1>4. \A x \in Int : \A moment :
         moment \in Moments(x) <=>
             \/ moment = x /\ (x < at \/ by = 0)
             \/ moment = x - by /\ (x - by >= at \/ by = 0)
  BY <1>2, <1>3 DEF Moments
<1>5. \A x \in Int : Moments(x) \subseteq (x - LookAhead) .. (x + LookAhead)
  BY <1>1, <1>2, <1>4
<1>6. FirstAt(zone, w) = IF w < at THEN w ELSE IF w - by < at THEN at ELSE w - by
  BY <1>2 DEF FirstAt
<1> DEFINE S == {n \in 0 .. LookAhead : Moments(w + n) # {}}
<1>7. ASSUME NEW x \in Int, NEW least \in Moments(x), \A moment \in Moments(x) : least <= moment
      PROVE  Min(Moments(x)) = least
  <2>1. x - LookAhead \in Int /\ x + LookAhead \in Int
    BY <1>1
  <2>2. QED
    BY <1>5, <1>7, <2>1, MinIs
<1>8. ASSUME NEW n \in S, \A k \in S : n <= k
      PROVE  Min(S) = n
  <2>1. S \in SUBSET (0 .. LookAhead) /\ 0 \in Int /\ LookAhead \in Int
    BY <1>1
  <2>2. QED
    <3> HIDE DEF S
    <3> QED
      BY <1>8, <2>1, MinIs
<1>9. ResolveLocal(w) = FirstAt(zone, w)
  <2>1. CASE w < at \/ w - by >= at
    <3>1. FirstAt(zone, w) \in Moments(w) /\ \A moment \in Moments(w) : FirstAt(zone, w) <= moment
      BY <1>2, <1>4, <1>6, <2>1
    <3>2. Moments(w + 0) # {} /\ w + 0 = w
      BY <3>1
    <3>3. 0 \in S /\ \A k \in S : 0 <= k
      BY <1>1, <3>2
    <3>4. Min(S) = 0
      BY <1>8, <3>3
    <3>5. Min(Moments(w)) = FirstAt(zone, w)
      BY <1>7, <3>1
    <3>6. QED
      BY <3>2, <3>4, <3>5 DEF ResolveLocal
  <2>2. CASE w >= at /\ w - by < at
    <3>1. PICK gap \in 1 .. LookAhead : gap = at + by - w
      BY <1>1, <1>2, <2>2
    <3>2. \A n \in 0 .. LookAhead : n < gap => Moments(w + n) = {}
      BY <1>2, <1>4, <2>2, <3>1
    <3>3. w + gap \in Int /\ w + gap - by = at /\ by # 0 /\ w + gap >= at
      BY <1>2, <2>2, <3>1
    <3>4. \A moment : moment \in Moments(w + gap) <=> moment = at
      BY <1>4, <3>3
    <3>5. Moments(w + gap) # {} /\ gap \in 0 .. LookAhead
      BY <3>4
    <3>6. gap \in S
      BY <3>5
    <3>7. \A k \in S : gap <= k
      BY <3>2, <1>1
    <3>8. Min(S) = gap
      BY <1>8, <3>6, <3>7
    <3>9. at \in Moments(w + gap) /\ \A moment \in Moments(w + gap) : at <= moment
      BY <3>4
    <3>10. Min(Moments(w + gap)) = at
      BY <1>7, <3>3, <3>9
    <3>11. FirstAt(zone, w) = at
      BY <1>6, <2>2
    <3>12. QED
      BY <3>8, <3>10, <3>11 DEF ResolveLocal
  <2>3. QED
    BY <1>2, <2>1, <2>2
<1>10. Reached(w) = FirstAt(zone, w)
  <2> DEFINE T == {moment \in w - LookAhead .. w + LookAhead : Wall(moment) >= w}
  <2>1. FirstAt(zone, w) \in T
    BY <1>1, <1>2, <1>3, <1>6
  <2>2. \A moment \in T : FirstAt(zone, w) <= moment
    BY <1>1, <1>2, <1>3, <1>6
  <2>3. T \in SUBSET ((w - LookAhead) .. (w + LookAhead)) /\ w - LookAhead \in Int /\ w + LookAhead \in Int
    BY <1>1
  <2>4. Min(T) = FirstAt(zone, w)
    <3> HIDE DEF T
    <3> QED
      BY <2>1, <2>2, <2>3, MinIs
  <2>5. QED
    BY <2>4 DEF Reached
<1>11. QED
  BY <1>9, <1>10

\* What the definitions of Calendar say is what the operators above say of its zone and rule.
LEMMA CalendarReads ==
  ASSUME ZoneOK
  PROVE  /\ \A moment : Wall(moment) = WallOf(zone, moment)
         /\ \A date : OccursOn(date) <=> OccursBy(recurrence, date)
         /\ recurrence.kind = "one_shot" => \A date : ~OccursBy(recurrence, date)
         /\ \A date \in Int : recurrence.time \in Int =>
               /\ At(date) = DueAt(zone, recurrence, date)
               /\ Reached(date * DayLength + recurrence.time) = DueAt(zone, recurrence, date)
<1>1. \A moment : Wall(moment) = WallOf(zone, moment)
  BY DEF Wall, WallOf
<1>2. \A date : OccursOn(date) <=> OccursBy(recurrence, date)
  BY DEF OccursOn, OccursBy
<1>3. recurrence.kind = "one_shot" => \A date : ~OccursBy(recurrence, date)
  BY DEF OccursBy
<1>4. ASSUME NEW date \in Int, recurrence.time \in Int
      PROVE  /\ At(date) = DueAt(zone, recurrence, date)
             /\ Reached(date * DayLength + recurrence.time) = DueAt(zone, recurrence, date)
  <2>1. date * DayLength + recurrence.time \in Int
    BY <1>4, CalendarAssumption
  <2>2. QED
    BY <2>1, ResolvedIsFirst DEF At, DueAt
<1>5. QED
  BY <1>1, <1>2, <1>3, <1>4

\* A date is due at one moment, that of a later date is later, and its day on the wall is
\* not over before.
LEMMA DatesAreInOrder ==
  ASSUME NEW z \in ZonesOK, NEW rule, rule.time \in 0 .. DayLength - 1, NEW date \in Int
  PROVE  /\ DueAt(z, rule, date) \in Int
         /\ \A later \in Int : date < later => DueAt(z, rule, date) < DueAt(z, rule, later)
         /\ \A moment \in Int : moment < DueAt(z, rule, date) => WallOf(z, moment) \div DayLength <= date
         /\ date <= WallOf(z, DueAt(z, rule, date)) \div DayLength
<1>1. DayLength \in Nat \ {0}
  BY CalendarAssumption
<1>2. PICK size \in Nat, time \in Nat : size = DayLength /\ time = rule.time /\ time < size /\ size > 0
  BY <1>1
<1>3. \A day \in Int : day * size + time \in Int /\ DueAt(z, rule, day) = FirstAt(z, day * size + time)
  BY <1>2 DEF DueAt
<1>4. PICK w \in Int : w = date * size + time /\ DueAt(z, rule, date) = FirstAt(z, w)
  BY <1>3
<1>5. DueAt(z, rule, date) \in Int
  BY <1>4, FirstIsFirst
<1>6. ASSUME NEW later \in Int, date < later
      PROVE  DueAt(z, rule, date) < DueAt(z, rule, later)
  <2>1. PICK more \in Nat : later = date + 1 + more
    BY <1>6
  <2>2. (date + 1 + more) * size = date * size + size + more * size /\ more * size >= 0
    BY <1>2
  <2>3. PICK v \in Int : v = later * size + time /\ DueAt(z, rule, later) = FirstAt(z, v)
    BY <1>3
  <2>4. w + size <= v
    BY <1>4, <2>1, <2>2, <2>3
  <2>5. QED
    BY <1>2, <1>4, <2>3, <2>4, LaterIsLater
<1>7. ASSUME NEW moment \in Int, moment < DueAt(z, rule, date)
      PROVE  WallOf(z, moment) \div DayLength <= date
  <2>1. PICK shown \in Int : shown = WallOf(z, moment) /\ shown < w
    BY <1>4, <1>7, FirstIsFirst
  <2>2. PICK day \in Int : day = shown \div size /\ size * day <= shown
    BY <1>2, <2>1
  <2>3. SUFFICES ASSUME ~(day <= date) PROVE FALSE
    BY <1>2, <2>1, <2>2
  <2>4. PICK more \in Nat : day = date + 1 + more
    BY <2>3
  <2>5. size * (date + 1 + more) = date * size + size + more * size /\ more * size >= 0
    BY <1>2
  <2>6. QED
    BY <1>2, <1>4, <2>1, <2>2, <2>4, <2>5
<1>8. date <= WallOf(z, DueAt(z, rule, date)) \div DayLength
  <2>1. PICK shown \in Int : shown = WallOf(z, DueAt(z, rule, date)) /\ shown >= w
    BY <1>4, FirstIsFirst
  <2>2. PICK day \in Int : day = shown \div size /\ shown < size * day + size
    BY <1>2, <2>1
  <2>3. SUFFICES ASSUME ~(date <= day) PROVE FALSE
    BY <1>2, <2>1, <2>2
  <2>4. PICK more \in Nat : date = day + 1 + more
    BY <2>3
  <2>5. size * (day + 1 + more) = size * day + size + more * size /\ more * size >= 0
    BY <1>2
  <2>6. date * size = size * (day + 1 + more)
    BY <2>4
  <2>7. QED
    BY <1>2, <1>4, <2>1, <2>2, <2>5, <2>6
<1>9. QED
  BY <1>5, <1>6, <1>7, <1>8

\* What was due are the dates of the rule since the start, each once and in order, and the
\* schedule was last due for the last of them.
DatesInv ==
    /\ fired = <<>> => last = start
    /\ fired # <<>> => last = DueAt(zone, recurrence, fired[Len(fired)])
    /\ \A n \in 1 .. Len(fired) :
          OccursBy(recurrence, fired[n]) /\ DueAt(zone, recurrence, fired[n]) \in start + 1 .. last
    /\ \A date \in Int : OccursBy(recurrence, date) /\ DueAt(zone, recurrence, date) \in start + 1 .. last =>
          \E n \in 1 .. Len(fired) : fired[n] = date
    /\ \A n \in 2 .. Len(fired) : fired[n - 1] < fired[n]

CalendarInv ==
    /\ zone \in [at : ChangesAt, by : Shifts] /\ recurrence \in Rules /\ start \in Starts
    /\ last \in Int /\ last >= start /\ fired \in Seq(Int) /\ Len(fired) <= MaxFired
    /\ recurrence.kind = "one_shot" =>
          \/ fired = <<>> /\ last = start
          \/ Len(fired) = 1 /\ last = recurrence.moment /\ start < last
    /\ recurrence.kind # "one_shot" => DatesInv

LEMMA CalendarFacts ==
  ASSUME CalendarInv
  PROVE  /\ ZoneOK /\ start \in Int /\ Window \in Nat /\ MaxFired \in Nat
         /\ recurrence.kind = "one_shot" => recurrence.moment \in Int
         /\ recurrence.kind # "one_shot" => recurrence.time \in 0 .. DayLength - 1 /\ recurrence.time \in Int
         /\ \A moment \in Int : DateOf(moment) = WallOf(zone, moment) \div DayLength /\ DateOf(moment) \in Int
<1>1. zone \in [at : ChangesAt, by : Shifts] /\ recurrence \in Rules /\ start \in Starts
  BY DEF CalendarInv
<1>2. /\ DayLength \in Nat \ {0} /\ Window \in Nat /\ MaxFired \in Nat
      /\ Shifts \subseteq -LookAhead .. LookAhead /\ ChangesAt \subseteq Nat /\ Starts \subseteq Nat
  BY CalendarAssumption
<1>3. ZoneOK
  BY <1>1, <1>2 DEF ZoneOK, ZonesOK
<1>4. IF recurrence.kind = "one_shot" THEN recurrence.moment \in Nat ELSE recurrence.time \in 0 .. DayLength - 1
  BY <1>1, CalendarAssumption
<1>5. \A moment : Wall(moment) = WallOf(zone, moment)
  BY <1>3, CalendarReads
<1>6. \A moment \in Int : WallOf(zone, moment) \in Int
  BY <1>3, FirstIsFirst DEF ZoneOK
<1>7. ASSUME NEW moment \in Int
      PROVE  DateOf(moment) = WallOf(zone, moment) \div DayLength /\ DateOf(moment) \in Int
  <2>1. PICK shown \in Int : shown = WallOf(zone, moment)
    BY <1>6
  <2>2. shown \div DayLength \in Int
    BY <1>2
  <2>3. QED
    BY <1>5, <2>1, <2>2 DEF DateOf
<1>8. QED
  BY <1>1, <1>2, <1>3, <1>4, <1>7

LEMMA CalendarInitially == CalendarInit => CalendarInv
<1> SUFFICES ASSUME CalendarInit PROVE CalendarInv
  OBVIOUS
<1>1. /\ zone \in [at : ChangesAt, by : Shifts] /\ recurrence \in Rules /\ start \in Starts
      /\ last = start /\ fired = <<>>
  BY DEF CalendarInit
<1>2. start \in Int /\ MaxFired \in Nat /\ start >= start
  BY <1>1, CalendarAssumption
<1>3. fired \in Seq(Int) /\ Len(fired) = 0
  BY <1>1
<1>4. start + 1 .. last = {}
  BY <1>1, <1>2
<1>5. DatesInv
  BY <1>1, <1>3, <1>4 DEF DatesInv
<1>6. QED
  BY <1>1, <1>2, <1>3, <1>5 DEF CalendarInv

\* The first date that is due next is the first one of the rule since the last.
LEMMA NextDateIsNext ==
  ASSUME CalendarInv, recurrence.kind # "one_shot", DatesDue(last, last + Window) # {}
  PROVE  \E next \in Int :
            /\ next = Min(DatesDue(last, last + Window)) /\ At(next) = DueAt(zone, recurrence, next)
            /\ OccursBy(recurrence, next) /\ last < DueAt(zone, recurrence, next)
            /\ \A date \in Int :
                  OccursBy(recurrence, date) /\ DueAt(zone, recurrence, date) \in last + 1 .. DueAt(zone, recurrence, next)
                     => date = next
<1>1. /\ ZoneOK /\ zone \in ZonesOK /\ last \in Int /\ Window \in Nat
      /\ recurrence.time \in 0 .. DayLength - 1 /\ recurrence.time \in Int
  BY CalendarFacts DEF CalendarInv, ZoneOK
<1>2. PICK low \in Int, high \in Int, through \in Int :
         low = DateOf(last) /\ high = DateOf(through) /\ through = last + Window
  BY <1>1, CalendarFacts
<1>3. PICK dates \in SUBSET (low .. high) :
         /\ dates = DatesDue(last, last + Window) /\ dates # {}
         /\ dates = {date \in low .. high : OccursOn(date) /\ At(date) > last /\ At(date) <= through}
  BY <1>2 DEF DatesDue
<1>4. PICK next \in dates : Min(dates) = next /\ \A date \in dates : next <= date
  BY <1>3, LeastBetween
<1>5. \A date \in Int : At(date) = DueAt(zone, recurrence, date) /\ (OccursOn(date) <=> OccursBy(recurrence, date))
  BY <1>1, CalendarReads
<1>6. next \in low .. high /\ next \in Int
  BY <1>3, <1>4
<1>7. /\ OccursBy(recurrence, next) /\ last < DueAt(zone, recurrence, next)
      /\ DueAt(zone, recurrence, next) <= through /\ DueAt(zone, recurrence, next) \in Int
  <2>1. DueAt(zone, recurrence, next) \in Int
    BY <1>1, <1>6, DatesAreInOrder
  <2>2. OccursOn(next) /\ At(next) > last /\ At(next) <= through
    BY <1>3, <1>4
  <2>3. QED
    BY <1>1, <1>2, <1>5, <1>6, <2>1, <2>2
<1>8. ASSUME NEW date \in Int, OccursBy(recurrence, date),
             DueAt(zone, recurrence, date) \in last + 1 .. DueAt(zone, recurrence, next)
      PROVE  date = next
  <2>1. PICK due \in Int : /\ due = DueAt(zone, recurrence, date) /\ last < due
                           /\ due <= DueAt(zone, recurrence, next)
    BY <1>1, <1>7, <1>8
  <2>2. date <= next
    <3>1. SUFFICES ASSUME next < date PROVE FALSE
      BY <1>6
    <3>2. DueAt(zone, recurrence, next) < due
      BY <1>1, <1>6, <2>1, <3>1, DatesAreInOrder
    <3>3. QED
      BY <1>7, <2>1, <3>2
  <2>3. low <= date
    <3>1. \A moment \in Int : moment < DueAt(zone, recurrence, date) => WallOf(zone, moment) \div DayLength <= date
      BY <1>1, DatesAreInOrder
    <3>2. DateOf(last) = WallOf(zone, last) \div DayLength
      BY <1>1, CalendarFacts
    <3>3. QED
      BY <1>1, <1>2, <2>1, <3>1, <3>2
  <2>4. date \in low .. high
    BY <1>6, <2>2, <2>3
  <2>5. due <= through
    BY <1>2, <1>7, <2>1
  <2>6. date \in dates
    BY <1>3, <1>5, <1>8, <2>1, <2>4, <2>5
  <2>7. next <= date
    BY <1>4, <2>6
  <2>8. QED
    BY <1>6, <2>2, <2>7
<1>9. QED
  BY <1>3, <1>4, <1>5, <1>6, <1>7, <1>8

LEMMA FireKeepsCalendar == ASSUME CalendarInv, Fire PROVE CalendarInv'
<1>1. /\ zone' = zone /\ recurrence' = recurrence /\ start' = start /\ Len(fired) < MaxFired
  BY DEF Fire
<1>2. /\ zone \in [at : ChangesAt, by : Shifts] /\ recurrence \in Rules /\ start \in Starts
      /\ last \in Int /\ last >= start /\ fired \in Seq(Int) /\ start \in Int /\ MaxFired \in Nat
      /\ ZoneOK /\ zone \in ZonesOK
  BY CalendarFacts DEF CalendarInv, ZoneOK
<1>3. PICK count \in Nat : count = Len(fired) /\ count < MaxFired /\ DOMAIN fired = 1 .. count
  BY <1>1, <1>2
<1>4. CASE recurrence.kind = "one_shot"
  <2>1. ~(DatesDue(last, last + Window) # {})
    <3>1. \A date : ~OccursOn(date)
      BY <1>2, <1>4, CalendarReads
    <3>2. QED
      BY <3>1 DEF DatesDue
  <2>2. /\ recurrence.moment > last /\ last' = recurrence.moment
        /\ fired' = Append(fired, DateOf(recurrence.moment))
    BY <2>1 DEF Fire, OneShotDue
  <2>3. recurrence.moment \in Int /\ DateOf(recurrence.moment) \in Int
    BY <1>4, CalendarFacts
  <2>4. fired = <<>>
    BY <1>2, <1>4, <2>2, <2>3 DEF CalendarInv
  <2>5. fired' \in Seq(Int) /\ Len(fired') = 1
    BY <2>2, <2>3, <2>4
  <2>6. last' \in Int /\ start < last' /\ last' >= start /\ 1 <= MaxFired
    BY <1>2, <1>3, <2>2, <2>3
  <2>7. QED
    BY <1>1, <1>2, <1>4, <2>2, <2>5, <2>6 DEF CalendarInv
<1>5. CASE recurrence.kind # "one_shot"
  <2>1. /\ DatesDue(last, last + Window) # {}
        /\ last' = At(Min(DatesDue(last, last + Window)))
        /\ fired' = Append(fired, Min(DatesDue(last, last + Window)))
    BY <1>5 DEF Fire, OneShotDue
  <2>2. PICK next \in Int :
            /\ next = Min(DatesDue(last, last + Window)) /\ At(next) = DueAt(zone, recurrence, next)
            /\ OccursBy(recurrence, next) /\ last < DueAt(zone, recurrence, next)
            /\ \A date \in Int :
                  OccursBy(recurrence, date) /\ DueAt(zone, recurrence, date) \in last + 1 .. DueAt(zone, recurrence, next)
                     => date = next
    BY <1>5, <2>1, NextDateIsNext
  <2>3. recurrence.time \in 0 .. DayLength - 1
    BY <1>5, CalendarFacts
  <2>4. \A date \in Int : DueAt(zone, recurrence, date) \in Int
    BY <1>2, <2>3, DatesAreInOrder
  <2>5. \A date, later \in Int : date < later => DueAt(zone, recurrence, date) < DueAt(zone, recurrence, later)
    BY <1>2, <2>3, DatesAreInOrder
  <2>6. PICK due \in Int : due = DueAt(zone, recurrence, next) /\ last' = due /\ last < due
    BY <2>1, <2>2, <2>4
  <2>7. PICK more \in Seq(Int) :
           /\ more = fired' /\ Len(more) = count + 1 /\ more[count + 1] = next
           /\ \A n \in 1 .. count : more[n] = fired[n]
    <3>1. fired \in Seq(Int) /\ fired' = Append(fired, next) /\ Len(fired) = count
      BY <1>2, <1>3, <2>1, <2>2
    <3>2. /\ Append(fired, next) \in Seq(Int) /\ Len(Append(fired, next)) = count + 1
          /\ Append(fired, next)[count + 1] = next
          /\ \A n \in 1 .. count : Append(fired, next)[n] = fired[n]
      BY <3>1
    <3>3. QED
      BY <3>1, <3>2
  <2>8. \A n \in 1 .. count : fired[n] \in Int
    BY <1>2, <1>3
  <2>9. /\ fired = <<>> => last = start
        /\ fired # <<>> => last = DueAt(zone, recurrence, fired[count])
        /\ \A n \in 1 .. count :
              OccursBy(recurrence, fired[n]) /\ DueAt(zone, recurrence, fired[n]) \in start + 1 .. last
        /\ \A date \in Int : OccursBy(recurrence, date) /\ DueAt(zone, recurrence, date) \in start + 1 .. last =>
              \E n \in 1 .. count : fired[n] = date
        /\ \A n \in 2 .. count : fired[n - 1] < fired[n]
    BY <1>3, <1>5 DEF CalendarInv, DatesInv
  <2>10. more # <<>> /\ due = DueAt(zone, recurrence, more[count + 1])
    BY <2>6, <2>7
  <2>11. ASSUME NEW n \in 1 .. count + 1
         PROVE  OccursBy(recurrence, more[n]) /\ DueAt(zone, recurrence, more[n]) \in start + 1 .. due
    <3>1. CASE n = count + 1
      <4>1. due \in start + 1 .. due
        BY <1>2, <2>6
      <4>2. QED
        BY <2>2, <2>6, <2>7, <3>1, <4>1
    <3>2. CASE n # count + 1
      <4>1. n \in 1 .. count
        BY <3>2
      <4>2. OccursBy(recurrence, fired[n]) /\ DueAt(zone, recurrence, fired[n]) \in start + 1 .. last
        BY <2>9, <4>1
      <4>3. DueAt(zone, recurrence, fired[n]) \in start + 1 .. due
        BY <1>2, <2>6, <4>2
      <4>4. QED
        BY <2>7, <4>1, <4>2, <4>3
    <3>3. QED
      BY <3>1, <3>2
  <2>12. ASSUME NEW date \in Int, OccursBy(recurrence, date), DueAt(zone, recurrence, date) \in start + 1 .. due
         PROVE  \E n \in 1 .. count + 1 : more[n] = date
    <3>1. CASE DueAt(zone, recurrence, date) <= last
      <4>1. DueAt(zone, recurrence, date) \in start + 1 .. last
        BY <1>2, <2>6, <2>12, <3>1
      <4>2. PICK n \in 1 .. count : fired[n] = date
        BY <2>9, <2>12, <4>1
      <4>3. n \in 1 .. count + 1
        OBVIOUS
      <4>4. QED
        BY <2>7, <4>2, <4>3
    <3>2. CASE ~(DueAt(zone, recurrence, date) <= last)
      <4>1. DueAt(zone, recurrence, date) \in last + 1 .. due
        <5>1. PICK moment \in Int : moment = DueAt(zone, recurrence, date)
          BY <2>4
        <5>2. moment \in start + 1 .. due /\ ~(moment <= last)
          BY <2>12, <3>2, <5>1
        <5>3. moment \in last + 1 .. due
          BY <1>2, <2>6, <5>2
        <5>4. QED
          BY <5>1, <5>3
      <4>2. date = next
        BY <2>2, <2>6, <2>12, <4>1
      <4>3. count + 1 \in 1 .. count + 1
        OBVIOUS
      <4>4. QED
        BY <2>7, <4>2, <4>3
    <3>3. QED
      BY <3>1, <3>2
  <2>13. ASSUME NEW n \in 2 .. count + 1
         PROVE  more[n - 1] < more[n]
    <3>1. CASE n = count + 1
      <4>1. count \in 1 .. count /\ n - 1 = count /\ fired # <<>>
        BY <1>3, <3>1
      <4>2. fired[count] \in Int /\ last = DueAt(zone, recurrence, fired[count])
        BY <2>8, <2>9, <4>1
      <4>3. fired[count] < next
        <5>1. SUFFICES ASSUME next <= fired[count] PROVE FALSE
          BY <4>2
        <5>2. CASE next = fired[count]
          BY <2>2, <2>6, <4>2, <5>2, <1>2
        <5>3. CASE next < fired[count]
          <6>1. due < last
            BY <2>5, <2>6, <4>2, <5>3
          <6>2. QED
            BY <1>2, <2>6, <6>1
        <5>4. QED
          BY <4>2, <5>1, <5>2, <5>3
      <4>4. QED
        BY <2>7, <3>1, <4>1, <4>3
    <3>2. CASE n # count + 1
      <4>1. n \in 2 .. count /\ n \in 1 .. count /\ n - 1 \in 1 .. count
        BY <3>2
      <4>2. fired[n - 1] < fired[n]
        BY <2>9, <4>1
      <4>3. QED
        BY <2>7, <4>1, <4>2
    <3>3. QED
      BY <3>1, <3>2
  <2>14. DatesInv'
    <3>1. Len(fired') = count + 1 /\ fired' = more /\ last' = due
      BY <2>6, <2>7
    <3>2. QED
      BY <1>1, <2>10, <2>11, <2>12, <2>13, <3>1 DEF DatesInv
  <2>15. last' >= start' /\ Len(fired') <= MaxFired
    BY <1>1, <1>2, <1>3, <2>6, <2>7
  <2>16. QED
    BY <1>1, <1>2, <1>5, <2>6, <2>7, <2>14, <2>15 DEF CalendarInv
<1>6. QED
  BY <1>4, <1>5

LEMMA CalendarStepKeepsInv == CalendarInv /\ [CalendarNext]_calendarVars => CalendarInv'
<1> SUFFICES ASSUME CalendarInv, [CalendarNext]_calendarVars PROVE CalendarInv'
  OBVIOUS
<1>1. CASE Fire
  BY <1>1, FireKeepsCalendar
<1>2. CASE UNCHANGED calendarVars
  BY <1>2 DEF calendarVars, CalendarInv, DatesInv
<1>3. QED
  BY <1>1, <1>2 DEF CalendarNext

LEMMA CalendarIsSound == ASSUME CalendarInv PROVE CalendarTypeOK /\ EachDateIsDueOnce
<1>1. CalendarTypeOK
  BY DEF CalendarInv, CalendarTypeOK
<1>2. /\ last \in Int /\ last >= start /\ fired \in Seq(Int) /\ start \in Int /\ ZoneOK /\ zone \in ZonesOK
  BY CalendarFacts DEF CalendarInv, ZoneOK
<1>3. PICK count \in Nat : count = Len(fired) /\ DOMAIN fired = 1 .. count
  BY <1>2
<1>4. CASE recurrence.kind = "one_shot"
  <2>1. recurrence.moment \in Int
    BY <1>4, CalendarFacts
  <2>2. Len(fired) = IF start < recurrence.moment /\ recurrence.moment <= last THEN 1 ELSE 0
    <3>1. CASE fired = <<>> /\ last = start
      BY <1>2, <2>1, <3>1
    <3>2. CASE Len(fired) = 1 /\ last = recurrence.moment /\ start < last
      BY <1>2, <2>1, <3>2
    <3>3. QED
      BY <1>4, <3>1, <3>2 DEF CalendarInv
  <2>3. QED
    BY <1>1, <1>4, <2>2 DEF EachDateIsDueOnce
<1>5. CASE recurrence.kind # "one_shot"
  <2>1. recurrence.time \in 0 .. DayLength - 1 /\ recurrence.time \in Int
    BY <1>5, CalendarFacts
  <2>2. /\ fired # <<>> => last = DueAt(zone, recurrence, fired[count])
        /\ \A n \in 1 .. count :
              OccursBy(recurrence, fired[n]) /\ DueAt(zone, recurrence, fired[n]) \in start + 1 .. last
        /\ \A date \in Int : OccursBy(recurrence, date) /\ DueAt(zone, recurrence, date) \in start + 1 .. last =>
              \E n \in 1 .. count : fired[n] = date
        /\ \A n \in 2 .. count : fired[n - 1] < fired[n]
    BY <1>3, <1>5 DEF CalendarInv, DatesInv
  <2>3. PICK low \in Int, high \in Int : low = DateOf(start) /\ high = DateOf(last)
    BY <1>2, CalendarFacts
  <2>4. \A date \in Int : /\ OccursOn(date) <=> OccursBy(recurrence, date)
                          /\ Reached(date * DayLength + recurrence.time) = DueAt(zone, recurrence, date)
    BY <1>2, <2>1, CalendarReads
  <2>5. ASSUME NEW date \in Int, DueAt(zone, recurrence, date) \in start + 1 .. last, fired # <<>>
        PROVE  date \in low .. high
    <3>1. PICK due \in Int : due = DueAt(zone, recurrence, date) /\ start < due /\ due <= last
      BY <1>2, <2>5
    <3>2. low <= date
      <4>1. \A moment \in Int : moment < DueAt(zone, recurrence, date) => WallOf(zone, moment) \div DayLength <= date
        BY <1>2, <2>1, DatesAreInOrder
      <4>2. DateOf(start) = WallOf(zone, start) \div DayLength
        BY <1>2, CalendarFacts
      <4>3. QED
        BY <1>2, <2>3, <3>1, <4>1, <4>2
    <3>3. PICK final \in Int : final = fired[count] /\ last = DueAt(zone, recurrence, final)
      <4>1. count \in 1 .. count
        BY <1>2, <1>3, <2>5
      <4>2. QED
        BY <1>2, <1>3, <2>2, <2>5, <4>1
    <3>4. final <= high
      <4>1. final <= WallOf(zone, last) \div DayLength
        BY <1>2, <2>1, <3>3, DatesAreInOrder
      <4>2. DateOf(last) = WallOf(zone, last) \div DayLength
        BY <1>2, CalendarFacts
      <4>3. QED
        BY <2>3, <4>1, <4>2
    <3>5. date <= final
      <4>1. SUFFICES ASSUME final < date PROVE FALSE
        BY <3>3
      <4>2. last < due
        BY <1>2, <2>1, <3>1, <3>3, <4>1, DatesAreInOrder
      <4>3. QED
        BY <1>2, <3>1, <4>2
    <3>6. QED
      BY <3>2, <3>4, <3>5
  <2> DEFINE dates == {date \in DateOf(start) - 1 .. DateOf(last) + 1 :
                          OccursOn(date) /\ Reached(date * DayLength + recurrence.time) \in start + 1 .. last}
  <2>6. \A date : date \in dates <=>
           /\ date \in low - 1 .. high + 1
           /\ OccursBy(recurrence, date) /\ DueAt(zone, recurrence, date) \in start + 1 .. last
    <3>1. \A date : date \in low - 1 .. high + 1 => date \in Int
      BY <2>3
    <3>2. QED
      BY <2>3, <2>4, <3>1
  <2> HIDE DEF dates
  <2>7. ASSUME NEW date \in dates
        PROVE  \E n \in 1 .. count : fired[n] = date
    <3>1. date \in Int
      BY <2>3, <2>6
    <3>2. QED
      BY <2>2, <2>6, <3>1
  <2>8. ASSUME NEW n \in 1 .. count
        PROVE  fired[n] \in dates
    <3>1. PICK date \in Int : date = fired[n]
      BY <1>2, <1>3
    <3>2. OccursBy(recurrence, date) /\ DueAt(zone, recurrence, date) \in start + 1 .. last
      BY <2>2, <3>1
    <3>3. fired # <<>>
      BY <1>3
    <3>4. date \in low .. high
      BY <2>5, <3>2, <3>3
    <3>5. date \in low - 1 .. high + 1
      BY <2>3, <3>4
    <3>6. QED
      BY <2>6, <3>1, <3>2, <3>5
  <2>9. {fired[n] : n \in DOMAIN fired} = dates
    BY <1>3, <2>7, <2>8
  <2>10. \A n \in 2 .. Len(fired) : fired[n - 1] < fired[n]
    BY <1>3, <2>2
  <2>11. EachDateIsDueOnce
    BY <1>5, <2>9, <2>10 DEF EachDateIsDueOnce, dates
  <2>12. QED
    BY <1>1, <2>11
<1>6. QED
  BY <1>4, <1>5

-----------------------------------------------------------------------------
(* All of them, whichever the initial state picks *)

ServicesInv ==
    /\ PairingInv /\ SubtaskInv /\ ScheduleInv /\ CursorInv /\ ToolInv
    /\ DesktopInv /\ DesktopBounds /\ CalendarInv

LEMMA ServicesAlways == Spec => []ServicesInv
<1>1. Init => ServicesInv
  BY PairingStarts, SubtasksStart, SchedulesStart, CursorStarts, ToolsStart, DesktopStarts,
     BoundsInitially, CalendarInitially DEF Init, ServicesInv
<1>2. ServicesInv /\ [Next]_allVars => ServicesInv'
  <2> SUFFICES ASSUME ServicesInv, [Next]_allVars PROVE ServicesInv'
    OBVIOUS
  <2>1. PairingPart \/ UNCHANGED pairVars
    BY DEF Next, allVars
  <2>2. SubtaskPart \/ UNCHANGED subtaskVars
    BY DEF Next, allVars
  <2>3. SchedulePart \/ UNCHANGED scheduleVars
    BY DEF Next, allVars
  <2>4. ToolPart \/ UNCHANGED toolVars
    BY DEF Next, allVars
  <2>5. PairingInv'
    BY <2>1, PairingStepKeepsInv, PairingRests DEF PairingPart, ServicesInv
  <2>6. SubtaskInv'
    BY <2>2, SubtaskStepKeepsInv, SubtasksRest DEF SubtaskPart, ServicesInv
  <2>7. ScheduleInv'
    BY <2>3, ScheduleStepKeepsInv, SchedulesRest DEF SchedulePart, ServicesInv
  <2>8. ToolInv'
    <3>1. Tools \subseteq Packages
      BY PackagesAre
    <3>2. QED
      BY <2>4, <3>1, PackageStepKeepsTools, CallStepKeepsTools, RunStepKeepsTools, ToolsRest
      DEF ToolPart, ServicesInv
  <2>9. CursorInv'
    BY <2>3, CursorStep, CursorRests DEF SchedulePart, ServicesInv
  <2>10. DesktopInv'
    <3>1. DesktopNext \/ UNCHANGED desktopVars
      BY DEF Next, allVars
    <3>2. QED
      BY <3>1, DesktopStepKeepsInv, DesktopRests DEF ServicesInv
  <2>11. CalendarInv'
    <3>1. CalendarNext \/ UNCHANGED calendarVars
      BY DEF Next, allVars
    <3>2. QED
      BY <3>1, CalendarStepKeepsInv DEF ServicesInv
  <2>12. DesktopBounds'
    <3>1. DesktopNext \/ UNCHANGED desktopVars
      BY DEF Next, allVars
    <3>2. QED
      BY <3>1, DesktopStepKeepsBounds DEF ServicesInv
  <2>13. QED
    BY <2>5, <2>6, <2>7, <2>8, <2>9, <2>10, <2>11, <2>12 DEF ServicesInv
<1>3. QED
  BY <1>1, <1>2, PTL DEF Spec, allVars

\* The rows, requests and threads of the six components are of their types, for any
\* values of the constants, while the Desktop has not started MaxCores Cores: that it
\* never does under the other bounds is what the run shows.
THEOREM ServicesAreTyped == Spec => [](spawned < MaxCores => ServicesTypeOK)
<1>1. ServicesInv => PairingTypeOK /\ ScheduleTypeOK /\ SubtaskTypeOK /\ ToolTypeOK /\ CalendarTypeOK
  BY PaidAtMostOnce, ToolFacts, CalendarIsSound DEF ServicesInv, PairingInv, IdsInv, SubtaskInv
<1>2. ServicesInv /\ spawned < MaxCores => DesktopTypeOK
  BY DesktopIsTyped DEF ServicesInv
<1>3. ServicesInv => (spawned < MaxCores => ServicesTypeOK)
  BY <1>1, <1>2 DEF ServicesTypeOK
<1>4. QED
  BY <1>3, ServicesAlways, PTL

\* Of the tokens a pairing has led to one is accepted at most, none once its session
\* was revoked, and while no message is lost it is the one the browser's cookie or the
\* CLI's file holds or is on its way to: whatever number of tabs and commands pair,
\* rotate, resume, revoke and reload at once, and whenever codes and tokens end
\* (pair, rotate_with_grace, revoke_token).
THEOREM TokensStayCurrent == Spec => []TokensAreCurrent
<1>1. ServicesInv => TokensAreCurrent
  BY DEF ServicesInv, PairingInv, TokensAreCurrent
<1>2. QED
  BY <1>1, ServicesAlways, PTL

\* A paid model is called once at most for an occurrence and for a key, a sub-agent's
\* model once for a subtask, within the permits of Core, and one process is started for
\* the key of a tool call: however often it is asked for, by however many requests at
\* once, and wherever they or Core stop (claim_schedule_run, claim_subtask,
\* create_mcp_execution).
THEOREM CostsArePaidOnce == Spec => []CalledOnce
<1>1. ServicesInv => CalledOnce
  BY PaidAtMostOnce, CallsHaveSlots, ToolFacts DEF ServicesInv, CalledOnce
<1>2. QED
  BY <1>1, ServicesAlways, PTL

\* What a session's call runs is the version that its client reviewed and that was
\* enabled from a page that showed it, and the prompts of a run are made of one revision
\* of its skill, however packages are installed, disabled and rolled back in between
\* (execute_session_tool_call, prompt_for_stored_run).
THEOREM ReviewedVersionsRun == Spec => []ReviewedVersionRuns
<1>1. ServicesInv => ReviewedVersionRuns
  BY ToolFacts DEF ServicesInv
<1>2. QED
  BY <1>1, ServicesAlways, PTL

\* Of one Desktop one Core runs at most, of the Vault that is saved or none, and the
\* approvals on hand are of it: whichever threads, monitors and clicks overlap, whatever
\* fails in a start or a switch, and wherever the Desktop ends (launch_core,
\* desktop_apply_vault, restart_with_vault, monitor_core).
THEOREM CoreFollowsItsVault == Spec => []CoreFollowsVault
<1>1. ServicesInv => CoreFollowsVault
  BY DesktopIsSound DEF ServicesInv, CoreFollowsVault
<1>2. QED
  BY <1>1, ServicesAlways, PTL

\* The scheduler moves a schedule past an occurrence only when that occurrence has its
\* row, and only as the user has left the schedule: whatever is edited, paused, deleted
\* or run by hand between the reading of a batch and its end, for any number of
\* schedules and callers (run_due_schedules_once, advance_schedule).  An occurrence is
\* due once for each date of its rule, the first time the clock on the wall has come to
\* its time that day, for any rule and any change of that clock (next_after).
THEOREM SchedulesStayKept == Spec => SchedulesAreKept
<1>1. ServicesInv /\ [Next]_allVars =>
          UNCHANGED scheduleVars \/
          \A s \in Schedules : tick' # tick /\ schedules'[s] # schedules[s] =>
              /\ Replayed(s, schedules[s].next)
              /\ Exists(s) /\ schedules[s].state = "active"
              /\ schedules'[s].next \in schedules[s].rule \cup {0}
  <2> SUFFICES ASSUME ServicesInv, [Next]_allVars, ~UNCHANGED scheduleVars
               PROVE  \A s \in Schedules : tick' # tick /\ schedules'[s] # schedules[s] =>
                          /\ Replayed(s, schedules[s].next)
                          /\ Exists(s) /\ schedules[s].state = "active"
                          /\ schedules'[s].next \in schedules[s].rule \cup {0}
    OBVIOUS
  <2>1. SchedulePart
    BY DEF Next, allVars
  <2>2. QED
    BY <2>1, CursorStep DEF SchedulePart, ServicesInv
<1>2. ServicesInv /\ [Next]_allVars =>
          [\A s \in Schedules :
               tick' # tick /\ schedules[s].next # 0 /\ schedules'[s].next # schedules[s].next
                   => records[s][schedules[s].next].state # "none"]_scheduleVars
  BY <1>1 DEF Replayed
<1>3. ServicesInv /\ [Next]_allVars =>
          [\A s \in Schedules :
               tick' # tick /\ schedules'[s] # schedules[s]
                   => /\ Exists(s) /\ schedules[s].state = "active"
                      /\ schedules'[s].next \in schedules[s].rule \cup {0}]_scheduleVars
  BY <1>1
<1>4. ServicesInv => (part = "calendar" => EachDateIsDueOnce)
  BY CalendarIsSound DEF ServicesInv
<1>5. QED
  BY <1>2, <1>3, <1>4, ServicesAlways, PTL
  DEF Spec, allVars, OccurrencesAreRecorded, UserDecisionIsKept, SchedulesAreKept

=============================================================================
