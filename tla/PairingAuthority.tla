--------------------------- MODULE PairingAuthority ---------------------------
(***************************************************************************)
(* Pairing codes, access tokens, and the clients that have to keep in step *)
(* with them: Dashboard tabs, which hold a token in memory and share one   *)
(* resume cookie, and command-line commands, which share one token file.   *)
(*                                                                         *)
(* Every exchange is a request in flight, handled once by Core under the   *)
(* mutex of the authority, and an answer in flight; time may pass, and     *)
(* either may be lost, in between.  A rotation replaces the token, so who  *)
(* misses its answer holds a dead one.                                     *)
(***************************************************************************)
EXTENDS Integers, FiniteSets

CONSTANTS
    Tabs,           \* Dashboard tabs of one browser
    Commands,       \* commands of the CLI
    PairingTtl,     \* lifetime of a code (900 s)
    TokenTtl,       \* lifetime of a token (1800 s)
    Grace,          \* recovery window of an expired token (seven days)
    Refresh,        \* how long before its end a tab renews its token (120 s)
    MaxTime,        \* bound: the clock
    MaxLosses,      \* bound: requests and answers lost
    MaxTokens       \* bound: tokens minted

ASSUME PairingAssumption ==
    /\ {PairingTtl, TokenTtl, Grace, Refresh} \subseteq Nat \ {0}
    /\ MaxTime \in Nat /\ MaxLosses \in Nat /\ MaxTokens \in Nat
    /\ Tabs \cap Commands = {}

VARIABLES
    clock,          \* the time, of Core and of its clients
    codes,          \* the unused code of each audience: its end, 0 once it is gone
    tokens,         \* the tokens of the authority
    minted,         \* history: how many tokens there have been
    memory,         \* the token each tab holds
    cookie,         \* the browser's resume cookie
    tokenFile,      \* the token file of the CLI
    exchange,       \* each client's pairing, rotation or resumption
    request,        \* each client's request with a token
    revoked,        \* history: audiences whose session was revoked
    losses          \* history: messages lost

authority == <<codes, tokens, minted>>
kept == <<memory, cookie, tokenFile>>
pairVars == <<clock, codes, tokens, minted, memory, cookie, tokenFile, exchange, request,
              revoked, losses>>

Clients == Tabs \cup Commands
Audiences == {"web", "cli"}
Audience(c) == IF c \in Tabs THEN "web" ELSE "cli"

NoToken == [id |-> 0, expires |-> 0]
NoMessage == [kind |-> "none", token |-> 0, retried |-> FALSE, answer |-> NoToken]
Tokens == [id : 1..MaxTokens, audience : Audiences, expires : Nat]
Held == [id : 0..MaxTokens, expires : Nat]
\* A message asks, or carries an answer; the token 0 answers that it was refused.
Messages(kinds) == [kind : kinds \cup {"none", "answered", "ended"}, token : 0..MaxTokens,
                    retried : BOOLEAN, answer : Held]

PairingTypeOK ==
    /\ clock \in 0..MaxTime
    /\ codes \in [Audiences -> Nat]
    /\ tokens \subseteq Tokens
    /\ minted \in 0..MaxTokens
    /\ memory \in [Tabs -> Held]
    /\ cookie \in 0..MaxTokens /\ tokenFile \in 0..MaxTokens
    /\ exchange \in [Clients -> Messages({"pair", "rotate", "resume"})]
    /\ request \in [Clients -> Messages({"data", "revoke"})]
    /\ revoked \subseteq Audiences

\* Core prints a code for the browser and one for the CLI when it starts.
PairingInit ==
    /\ clock = 0
    /\ codes = [who \in Audiences |-> PairingTtl]
    /\ tokens = {} /\ minted = 0
    /\ memory = [t \in Tabs |-> NoToken]
    /\ cookie = 0 /\ tokenFile = 0
    /\ exchange = [c \in Clients |-> NoMessage]
    /\ request = [c \in Clients |-> NoMessage]
    /\ revoked = {} /\ losses = 0

Tick ==
    /\ clock < MaxTime
    /\ clock' = clock + 1
    /\ UNCHANGED <<authority, kept, exchange, request, revoked, losses>>

-----------------------------------------------------------------------------
(* What a client sends *)

Send(kind, token) == [NoMessage EXCEPT !.kind = kind, !.token = token]
SendExchange(c, kind, token) ==
    /\ exchange[c] = NoMessage
    /\ exchange' = [exchange EXCEPT ![c] = Send(kind, token)]
    /\ UNCHANGED <<clock, authority, kept, request, revoked, losses>>
SendRequest(c, kind, token) ==
    /\ request[c] = NoMessage
    /\ request' = [request EXCEPT ![c] = Send(kind, token)]
    /\ UNCHANGED <<clock, authority, kept, exchange, revoked, losses>>

\* The user types the code in.
Pair(c) ==
    /\ c \in Tabs => memory[c].id = 0
    /\ SendExchange(c, "pair", 0)

\* mountBrowserDashboard: a tab that is loaded resumes from the cookie.
Resume(t) ==
    /\ memory[t].id = 0 /\ cookie # 0
    /\ SendExchange(t, "resume", cookie)

\* The timer, or a request made when the token is near its end or past it; the
\* promise admits one rotation at a time.
RotateTab(t) ==
    /\ memory[t].id # 0 /\ memory[t].expires =< clock + Refresh
    /\ SendExchange(t, "rotate", memory[t].id)

\* Every command rotates what it reads from the file.
RotateCommand(c) ==
    /\ tokenFile # 0 /\ request[c] = NoMessage
    /\ SendExchange(c, "rotate", tokenFile)

UseToken(t) ==
    /\ memory[t].id # 0 /\ memory[t].expires > clock + Refresh
    /\ \E kind \in {"data", "revoke"} : SendRequest(t, kind, memory[t].id)

-----------------------------------------------------------------------------
(* What Core does *)

Matching(id) == {k \in tokens : k.id = id}
\* Mutant: a token does not know the token before it.
MintSame(audience) == [id |-> minted, audience |-> audience, expires |-> clock + TokenTtl]

Mint(audience) == [id |-> minted + 1, audience |-> audience, expires |-> clock + TokenTtl]
Answered(message, token) ==
    [message EXCEPT !.kind = "answered", !.answer = [id |-> token.id, expires |-> token.expires]]
Refused(message) == [message EXCEPT !.kind = "answered", !.answer = NoToken]

\* pair: the code is gone whether or not it had expired.
HandlePair(c) ==
    LET who == Audience(c)
    IN  /\ exchange[c].kind = "pair"
        /\ IF codes[who] > clock
           THEN /\ minted < MaxTokens
                /\ minted' = minted + 1
                /\ tokens' = tokens \cup {Mint(who)}
                /\ exchange' = [exchange EXCEPT ![c] = Answered(@, Mint(who))]
           ELSE /\ exchange' = [exchange EXCEPT ![c] = Refused(@)]
                /\ UNCHANGED <<tokens, minted>>
        /\ codes' = [codes EXCEPT ![who] = 0]
        /\ UNCHANGED <<clock, kept, request, revoked, losses>>

\* The token a rotation takes away.
Replaced(k) == {k}

\* rotate_with_grace, for a rotation and for a resumption.
HandleRotate(c) ==
    /\ exchange[c].kind \in {"rotate", "resume"}
    /\ \/ \E k \in Matching(exchange[c].token) :
              /\ k.expires + Grace > clock
              /\ minted < MaxTokens
              /\ minted' = minted + 1
              /\ tokens' = (tokens \ Replaced(k)) \cup {Mint(k.audience)}
              /\ exchange' = [exchange EXCEPT ![c] = Answered(@, Mint(k.audience))]
       \/ /\ \A k \in Matching(exchange[c].token) : k.expires + Grace =< clock
          /\ tokens' = tokens \ Matching(exchange[c].token)
          /\ exchange' = [exchange EXCEPT ![c] = Refused(@)]
          /\ UNCHANGED minted
    /\ UNCHANGED <<clock, codes, kept, request, revoked, losses>>

\* Mutant: a revocation takes effect when the token ends.
RevokedLater(k) == {}

\* revoke
Revoked(k) == {k}

\* verify, which drops an expired token, and what an accepted request does.
HandleRequest(c) ==
    /\ request[c].kind \in {"data", "revoke"}
    /\ \/ \E k \in Matching(request[c].token) :
              /\ k.expires > clock
              /\ IF request[c].kind = "revoke"
                 THEN /\ tokens' = tokens \ Revoked(k)
                      /\ revoked' = revoked \cup {k.audience}
                      /\ request' = [request EXCEPT ![c] = [NoMessage EXCEPT !.kind = "ended"]]
                 ELSE /\ request' = [request EXCEPT ![c] = Answered(@, k)]
                      /\ UNCHANGED <<tokens, revoked>>
       \/ /\ \A k \in Matching(request[c].token) : k.expires =< clock
          /\ tokens' = tokens \ Matching(request[c].token)
          /\ request' = [request EXCEPT ![c] = Refused(@)]
          /\ UNCHANGED revoked
    /\ UNCHANGED <<clock, codes, minted, kept, exchange, losses>>

-----------------------------------------------------------------------------
(* What a client makes of the answer *)

\* Mutant: an answer to a resumption carries no cookie.
RenewedCookieOnRotate(c) ==
    IF exchange[c].token = cookie /\ cookie # 0 THEN cookie ELSE exchange[c].answer.id

\* web_token_response sets the cookie, read or not.
RenewedCookie(c) == exchange[c].answer.id

\* acceptSession keeps the token unless it has expired on its way.
AcceptInTab(t) ==
    /\ exchange[t].kind = "answered" /\ exchange[t].answer # NoToken
    /\ cookie' = RenewedCookie(t)
    /\ memory' = IF exchange[t].answer.expires > clock
                 THEN [memory EXCEPT ![t] = exchange[t].answer] ELSE memory
    /\ exchange' = [exchange EXCEPT ![t] = NoMessage]
    /\ UNCHANGED <<clock, authority, tokenFile, request, revoked, losses>>

\* save_token, and then the command's own request; a pairing makes none.
AcceptInCommand(c) ==
    /\ exchange[c].kind = "answered" /\ exchange[c].answer # NoToken
    /\ tokenFile' = exchange[c].answer.id
    /\ request' = IF exchange[c].token = 0 THEN request
                  ELSE [request EXCEPT ![c] = Send("data", exchange[c].answer.id)]
    /\ exchange' = [exchange EXCEPT ![c] = NoMessage]
    /\ UNCHANGED <<clock, authority, memory, cookie, revoked, losses>>

\* A refused exchange changes nothing that is kept.
AcceptRefusal(c) ==
    /\ exchange[c].kind = "answered" /\ exchange[c].answer = NoToken
    /\ exchange' = [exchange EXCEPT ![c] = NoMessage]
    /\ UNCHANGED <<clock, authority, kept, request, revoked, losses>>

\* A revocation that was accepted clears the cookie of a browser.
EndRequest(c) ==
    /\ request[c].kind \in {"answered", "ended"}
    /\ request' = [request EXCEPT ![c] = NoMessage]
    /\ cookie' = IF request[c].kind = "ended" THEN 0 ELSE cookie
    /\ UNCHANGED <<clock, authority, memory, tokenFile, exchange, revoked, losses>>

\* The tab is closed or reloaded; what it waited for has no reader.
Reload(t) ==
    /\ memory[t].id # 0 /\ exchange[t] = NoMessage
    /\ memory' = [memory EXCEPT ![t] = NoToken]
    /\ request' = [request EXCEPT ![t] = NoMessage]
    /\ UNCHANGED <<clock, authority, cookie, tokenFile, exchange, revoked, losses>>

\* fetchWithTransientRetry sends a tab's rotation or request once more, unchanged;
\* a pairing and a command are not retried.
Again(c, message, kind) ==
    IF c \in Tabs /\ ~message.retried /\ message.token # 0
    THEN [Send(kind, message.token) EXCEPT !.retried = TRUE] ELSE NoMessage

Lose(c) ==
    /\ losses < MaxLosses
    /\ losses' = losses + 1
    /\ \/ /\ exchange[c] # NoMessage
          /\ exchange' = [exchange EXCEPT ![c] = Again(c, @, "rotate")]
          /\ UNCHANGED request
       \/ /\ request[c] # NoMessage
          /\ request' = [request EXCEPT ![c] = Again(c, @, "data")]
          /\ UNCHANGED exchange
    /\ UNCHANGED <<clock, authority, kept, revoked>>

-----------------------------------------------------------------------------
\* Tabs and commands meet nowhere: their codes and tokens differ in audience.
PairingSteps(tabs, commands) ==
    \/ Tick
    \/ \E c \in tabs \cup commands :
           \/ Pair(c) \/ HandlePair(c) \/ HandleRotate(c) \/ HandleRequest(c)
           \/ AcceptRefusal(c) \/ EndRequest(c) \/ Lose(c)
    \/ \E t \in tabs : Resume(t) \/ RotateTab(t) \/ UseToken(t) \/ AcceptInTab(t) \/ Reload(t)
    \/ \E c \in commands : RotateCommand(c) \/ AcceptInCommand(c)

PairingNext == PairingSteps(Tabs, Commands)

PairingSpec == PairingInit /\ [][PairingNext]_pairVars

-----------------------------------------------------------------------------
(* Properties *)

\* A pairing is one session: whatever is retried, resumed or rotated at once by
\* tabs and commands, one token of it is alive at most (pair, rotate_with_grace).
OneTokenPerPairing ==
    \A k, l \in tokens : k.audience = l.audience => k = l

\* A session that was revoked stays dead; no rotation, resumption or answer that
\* was under way brings a token of it back (revoke_token).
RevokedIsFinal == \A k \in tokens : k.audience \notin revoked

KnownTo(id) ==
    \/ cookie = id \/ tokenFile = id
    \/ \E c \in Clients : exchange[c].answer.id = id

\* While no message is lost, the live token is the one in the cookie or in the
\* file, or is on its way there: no order of tabs and commands strands a session.
SessionIsKept == losses = 0 => \A k \in tokens : KnownTo(k.id)
=============================================================================
