------------------------------- MODULE Front -------------------------------
(***************************************************************************)
(* The internal listener from the connection to the answer.                *)
(*                                                                         *)
(* First half: TlsListener (src/src/web/tls.rs).  One task accepts and     *)
(* starts a handshake for each connection, HANDSHAKES at a time, each with *)
(* HANDSHAKE to finish; a finished one goes through a channel of the same  *)
(* size to axum.  A place is held by the task that accepts, then by the    *)
(* handshake, until its connection is in the channel.  Both queues (the    *)
(* kernel's, and tokio's of the tasks that wait for room) are first come,  *)
(* first served.                                                           *)
(*                                                                         *)
(* Second half: what a request needs to be let in (src/src/web/internal.rs *)
(* presents and take_event, src/src/db/events.rs checked).                 *)
(***************************************************************************)
EXTENDS Integers, Sequences, FiniteSets, SequencesExt, Functions

CONSTANTS
    Callers,    \* who connects
    Manner,     \* how each of them speaks: "tls", "plain", or "silent", which
                \* is anything that does not finish within HANDSHAKE
    HANDSHAKES, \* bound: places for handshakes; 256 in the code
    MaxBroken,  \* bound: how many accepts fail
    Tokens,     \* what a token or a bearer may be: sequences of bytes
    Senders,    \* the token settings of the door: route to a set of at most one token
    Events,     \* what may be posted as an event
    LinkHosts   \* the hosts the configuration lets an event link to

ASSUME HandshakesAssumption == HANDSHAKES \in Nat \ {0}
ASSUME TokensAssumption ==
    /\ Tokens \subseteq Seq(0 .. 255)
    /\ Senders \subseteq [{"events", "bell", "scim"} -> SUBSET Seq(0 .. 255)]

VARIABLES
    conn,       \* where each caller's connection is
    kernel,     \* connections not accepted yet
    acceptor,   \* accept_forever: "acquiring", "accepting" or "waiting"
    sending,    \* handshakes that are done and wait for room in the channel
    ready,      \* the channel
    broken,     \* how many accepts failed so far
    door,       \* the settings the door was opened with: tokens, [events] space
    heard,      \* the last request and what it was answered
    taken       \* the events stored

tlsVars == <<conn, kernel, acceptor, sending, ready, broken>>
gateVars == <<door, heard, taken>>

----------------------------------------------------------------------------
Shaking == {c \in Callers : conn[c] = "shaking"}

SlotsTaken ==
    Cardinality(Shaking) + Len(sending) + (IF acceptor = "acquiring" THEN 0 ELSE 1)

TlsInit ==
    /\ conn = [c \in Callers |-> "away"]
    /\ kernel = <<>> /\ acceptor = "acquiring"
    /\ sending = <<>> /\ ready = <<>>
    /\ broken = 0

Connect(c) ==
    /\ conn[c] = "away"
    /\ conn' = [conn EXCEPT ![c] = "queued"]
    /\ kernel' = Append(kernel, c)
    /\ UNCHANGED <<acceptor, sending, ready, broken>>

Acquire ==
    /\ acceptor = "acquiring" /\ SlotsTaken < HANDSHAKES
    /\ acceptor' = "accepting"
    /\ UNCHANGED <<conn, kernel, sending, ready, broken>>

\* The place goes with the connection to a task of its own.
Accept ==
    /\ acceptor = "accepting" /\ kernel # <<>>
    /\ conn' = [conn EXCEPT ![Head(kernel)] = "shaking"]
    /\ kernel' = Tail(kernel)
    /\ acceptor' = "acquiring"
    /\ UNCHANGED <<sending, ready, broken>>

\* A connection that broke before it was accepted is nothing.
AcceptBroken ==
    /\ acceptor = "accepting" /\ kernel # <<>> /\ broken < MaxBroken
    /\ conn' = [conn EXCEPT ![Head(kernel)] = "dropped"]
    /\ kernel' = Tail(kernel)
    /\ acceptor' = "acquiring" /\ broken' = broken + 1
    /\ UNCHANGED <<sending, ready>>

\* No file descriptors left, say: waited out for a second, with the place held.
AcceptFails ==
    /\ acceptor = "accepting" /\ broken < MaxBroken
    /\ acceptor' = "waiting" /\ broken' = broken + 1
    /\ UNCHANGED <<conn, kernel, sending, ready>>

WaitedOut ==
    /\ acceptor = "waiting" /\ acceptor' = "acquiring"
    /\ UNCHANGED <<conn, kernel, sending, ready, broken>>

ShakesHands(c) ==
    /\ conn[c] = "shaking" /\ Manner[c] = "tls"
    /\ conn' = [conn EXCEPT ![c] = "sending"]
    /\ sending' = Append(sending, c)
    /\ UNCHANGED <<kernel, acceptor, ready, broken>>

\* Plain HTTP, a scanner, a caller that does not trust the certificate.
NoHandshake(c) ==
    /\ conn[c] = "shaking" /\ Manner[c] = "plain"
    /\ conn' = [conn EXCEPT ![c] = "dropped"]
    /\ UNCHANGED <<kernel, acceptor, sending, ready, broken>>

\* Mutant: the limit counts from the first byte, which a silent caller never sends.
OverdueOnceTalking(c) == conn[c] = "shaking" /\ Manner[c] = "plain"

Overdue(c) == conn[c] = "shaking" /\ Manner[c] = "silent"

TimesOut(c) ==
    /\ Overdue(c)
    /\ conn' = [conn EXCEPT ![c] = "dropped"]
    /\ UNCHANGED <<kernel, acceptor, sending, ready, broken>>

Send ==
    /\ sending # <<>> /\ Len(ready) < HANDSHAKES
    /\ conn' = [conn EXCEPT ![Head(sending)] = "ready"]
    /\ sending' = Tail(sending) /\ ready' = Append(ready, Head(sending))
    /\ UNCHANGED <<kernel, acceptor, broken>>

\* axum takes the connection and serves it in a task.
AxumAccepts ==
    /\ ready # <<>>
    /\ conn' = [conn EXCEPT ![Head(ready)] = "served"]
    /\ ready' = Tail(ready)
    /\ UNCHANGED <<kernel, acceptor, sending, broken>>

\* Callers come back, as often as they like.
Leaves(c) ==
    /\ conn[c] \in {"served", "dropped"}
    /\ conn' = [conn EXCEPT ![c] = "away"]
    /\ UNCHANGED <<kernel, acceptor, sending, ready, broken>>

TlsNext ==
    \/ \E c \in Callers : Connect(c)
    \/ Acquire
    \/ Accept
    \/ AcceptBroken
    \/ AcceptFails
    \/ WaitedOut
    \/ \E c \in Callers : ShakesHands(c)
    \/ \E c \in Callers : NoHandshake(c)
    \/ \E c \in Callers : TimesOut(c)
    \/ Send
    \/ AxumAccepts
    \/ \E c \in Callers : Leaves(c)

----------------------------------------------------------------------------
(* The router: a route is there only with its token, and a request must    *)
(* present that token, whole, as a bearer.                                 *)

NoRequest == [route |-> "none", scheme |-> "none", bearer |-> <<>>, answer |-> 0, logged |-> FALSE]

GateInit ==
    /\ door \in [tokens : Senders, events : BOOLEAN]
    /\ heard = NoRequest
    /\ taken = {}

\* Mutant: as many bytes are compared as both have.
PresentsAsFar(scheme, bearer, token) ==
    /\ scheme = "Bearer"
    /\ \A i \in DOMAIN bearer \cap DOMAIN token : bearer[i] = token[i]

Presents(scheme, bearer, token) ==
    /\ scheme = "Bearer"
    /\ Len(bearer) = Len(token)
    /\ \A i \in DOMAIN token : bearer[i] = token[i]

\* Trimmed, within its length, one line.
OneLine(text) == text = "fits"

\* https on an allowed host with nobody's name in it; the host is parsed out of
\* the address and not matched at its beginning.
CheckedLink(link) == link.scheme = "https" /\ ~link.user /\ link.host \in LinkHosts

Checked(e) ==
    /\ e.handle = "handle"
    /\ e.kind \in {"film_available", "film_failed"}
    /\ OneLine(e.title)
    /\ e.reason \in {"none", "blank"} \/ OneLine(e.reason)
    /\ \A l \in e.link : CheckedLink(l)
    /\ e.source_key # "bad"

\* 404 where nothing is mounted, 401 for a wrong token, then the route's own word.
Refuses(route, scheme, bearer) ==
    IF door.tokens[route] = {} THEN 404
    ELSE IF \E t \in door.tokens[route] : Presents(scheme, bearer, t) THEN 0
    ELSE 401

\* Every refusal for its token is marked, and what is marked is logged.
Answer(route, scheme, bearer, code) ==
    heard' = [route |-> route, scheme |-> scheme, bearer |-> bearer, answer |-> code, logged |-> code = 401]

TurnAway(route, scheme, bearer) ==
    /\ Refuses(route, scheme, bearer) # 0
    /\ Answer(route, scheme, bearer, Refuses(route, scheme, bearer))
    /\ UNCHANGED <<door, taken>>

\* Past the token, the bell's and the directory's routes say what they say (see
\* Live and Directory); 200 stands for all of it.
LetIn(route, scheme, bearer) ==
    /\ route # "events" /\ Refuses(route, scheme, bearer) = 0
    /\ Answer(route, scheme, bearer, 200)
    /\ UNCHANGED <<door, taken>>

TakeEvent(scheme, bearer, event) ==
    LET known == \E e \in taken : e.source_key = event.source_key /\ e.kind = event.kind
    IN  /\ Refuses("events", scheme, bearer) = 0
        /\ taken' = IF door.events /\ Checked(event) /\ ~known THEN taken \cup {event} ELSE taken
        /\ Answer("events", scheme, bearer,
                  IF ~door.events THEN 503 ELSE IF ~Checked(event) THEN 400 ELSE IF known THEN 200 ELSE 201)
        /\ UNCHANGED door

GateNext ==
    \E scheme \in {"none", "Basic", "Bearer"}, bearer \in Tokens :
       \/ \E route \in DOMAIN door.tokens : TurnAway(route, scheme, bearer)
       \/ \E route \in DOMAIN door.tokens : LetIn(route, scheme, bearer)
       \/ \E event \in Events : TakeEvent(scheme, bearer, event)

----------------------------------------------------------------------------
\* accept_forever and its tasks never stop on their own, and HANDSHAKE ends what
\* hangs; axum's accept loop goes on as long as the listener.  Nobody has to
\* connect, leave or break.
TlsFairness ==
    /\ WF_tlsVars(Acquire) /\ WF_tlsVars(Accept) /\ WF_tlsVars(WaitedOut)
    /\ \A c \in Callers : WF_tlsVars(ShakesHands(c)) /\ WF_tlsVars(NoHandshake(c)) /\ WF_tlsVars(TimesOut(c))
    /\ WF_tlsVars(Send) /\ WF_tlsVars(AxumAccepts)

\* "One connection that never says anything cannot keep the next caller waiting"
\* (web/tls.rs): however many silent or plain callers come, and come back, who
\* speaks TLS is served, or the connection itself broke before it was accepted.
CallersAreServed ==
    \A c \in Callers : Manner[c] = "tls" =>
        (conn[c] = "queued" ~> conn[c] \in {"served", "dropped"})

\* The internal door: a request gets past it exactly if its route has a token
\* and the request carries that token and nothing more or less; a wrong token is
\* answered 401 and logged (homeserver audit 3, B119), a missing route 404; and
\* what is stored came through the events route with a space to go to, once, and
\* leads only to an allowed host.
TokenOpensItsDoor ==
    /\ heard.route # "none" =>
          /\ heard.answer \notin {401, 404} <=>
                heard.scheme = "Bearer" /\ heard.bearer \in door.tokens[heard.route]
          /\ heard.logged <=> heard.answer = 401
          /\ heard.answer = 404 <=> door.tokens[heard.route] = {}
    /\ taken # {} => door.tokens["events"] # {} /\ door.events
    /\ \A e \in taken : \A l \in e.link : l.host \in LinkHosts /\ l.scheme = "https"
    /\ \A e, f \in taken : e.source_key = f.source_key /\ e.kind = f.kind => e = f
=============================================================================
