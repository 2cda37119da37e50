----------------------------- MODULE PeerOnline -----------------------------
(***************************************************************************)
(* The link of one player to a friend through the relay (native/core:      *)
(* games/peer_online.rs, OnlinePeer).  The machine owns no socket and no   *)
(* timer: the shell reports what sockets do and calls tick when a timer is *)
(* due, so every step below is one call, and a due timer fires before any  *)
(* call that carries a time.  Sockets it has dropped still report.  Times  *)
(* are in units; a timer is the time left to it.  The relay's side is the  *)
(* environment: over a socket it says what Room lets it say.               *)
(***************************************************************************)
EXTENDS Integers, Sequences, FiniteSets

CONSTANTS
  Ids, NoSock,               \* the sockets there may be at a time
  PING, DEAD, CONNECT,       \* PING_MS, DEAD_MS, CONNECT_MS
  RESUME, RETRY, RETRY_MAX,  \* RESUME_MS, RESUME_RETRY_MS, RESUME_RETRY_MAX
  MAX_OUTBOX,
  MaxSends,                  \* bound: what the page sends in a game
  MaxWakes                   \* bound: the calls of retry_now while away

ASSUME PeerAssumption ==
  /\ NoSock \notin Ids /\ IsFiniteSet(Ids)
  /\ {PING, DEAD, CONNECT, RESUME, RETRY, RETRY_MAX} \subseteq Nat \ {0}
  /\ PING < DEAD /\ RETRY <= RETRY_MAX /\ MAX_OUTBOX \in Nat
  /\ MaxSends \in Nat /\ MaxWakes \in Nat

VARIABLES
  me,       \* the machine: OnlinePeer's fields of the game's link
  sock,     \* every socket: how far it is, what it asked for, what the relay said
  said,     \* the event the last call gave the page
  hidden,   \* whether the page's window is hidden
  sends,    \* how much the page has sent in this game
  wrote,    \* what has been written to sockets in this game
  owed,     \* what the machine took for the friend in this game
  wakes     \* the calls of retry_now in this absence

peerVars == <<me, sock, said, hidden, sends, wrote, owed, wakes>>
page == <<hidden, sends, wrote, owed, wakes>>

-----------------------------------------------------------------------------
(* Values *)

Off == -1     \* a timer that is not set, a time that is None or 0.0

Least(a, b) == IF a < b THEN a ELSE b
Most(a, b) == IF a < b THEN b ELSE a

New ==
  [ws |-> NoSock, paired |-> FALSE, heard |-> Off, ping |-> Off, connect |-> Off,
   seat |-> FALSE, until |-> Off, resume |-> Off, handle |-> FALSE, wait |-> RETRY,
   outbox |-> <<>>]

NoSocket == [at |-> "none", asks |-> "none", stage |-> "none"]
Asked(what) == [at |-> "connecting", asks |-> what, stage |-> "fresh"]

\* a live socket; "left" and "kept": closed here with 1000 and with RECONNECTING
IsOpen == me.ws # NoSock /\ sock[me.ws].at = "open"
Free == {i \in Ids : sock[i].at = "none"}
Due == 0 \in {me.ping, me.connect, me.resume}

-----------------------------------------------------------------------------
(* The parts the calls are made of *)

\* mutant: frames outlive their game
ForgetSeat(m) == [m EXCEPT !.seat = FALSE, !.until = Off, !.resume = Off, !.handle = FALSE]

DropWs(m) == [m EXCEPT !.ws = NoSock, !.paired = FALSE, !.ping = Off, !.connect = Off]

Forget(m) ==
  [m EXCEPT !.seat = FALSE, !.until = Off, !.resume = Off, !.handle = FALSE, !.outbox = <<>>]

\* mutant: the socket is let go without being closed
LeftOpen(how) == sock

\* the Close command of drop_ws
Closes(how) == IF me.ws = NoSock THEN sock ELSE [sock EXCEPT ![me.ws].at = how]

\* connect: over a new socket i, the one before it closed
Connect(m, i) ==
  [DropWs(m) EXCEPT !.ws = i, !.heard = Off, !.ping = PING, !.connect = CONNECT]

\* lose: the first time, the page is told and the first try is at once
LoseFirst ==
  /\ me.until = Off
  /\ me' = [DropWs(me) EXCEPT !.until = RESUME, !.wait = RETRY, !.resume = 0, !.handle = TRUE]
  /\ said' = "away"

\* mutant: tries whatever the time
LoseForEver ==
  /\ me.until >= 0
  /\ me' = [DropWs(me) EXCEPT !.resume = me.wait, !.handle = TRUE]
  /\ said' = "none"

LoseAgain ==
  /\ me.until > 0
  /\ me' = [DropWs(me) EXCEPT !.resume = me.wait, !.handle = TRUE,
                              !.wait = Least(RETRY_MAX, 2 * me.wait)]
  /\ said' = "none"

GiveUp ==
  /\ me.until = 0
  /\ me' = Forget(DropWs(me))
  /\ said' = "lost"

Lose == LoseFirst \/ LoseAgain \/ GiveUp

Fail(reason) == me' = DropWs(Forget(me)) /\ said' = reason

\* mutant: the socket before is closed for good
ResumeLeaving(m, i) ==
  /\ me' = Connect(m, i)
  /\ sock' = [Closes("left") EXCEPT ![i] = Asked("back")]
  /\ said' = "none"

\* resume: asks for the seat back
Resume(m, i) ==
  /\ me' = Connect(m, i)
  /\ sock' = [Closes("kept") EXCEPT ![i] = Asked("back")]
  /\ said' = "none"

-----------------------------------------------------------------------------
(* What the page calls *)

\* host and join: another game, the one before left
Begin(what) ==
  /\ ~Due
  /\ \E i \in Free :
       /\ me' = Connect(Forget(me), i)
       /\ sock' = [Closes("left") EXCEPT ![i] = Asked(what)]
  /\ said' = IF what = "join" THEN "pairing" ELSE "none"
  /\ sends' = 0 /\ wrote' = <<>> /\ owed' = <<>> /\ wakes' = 0
  /\ UNCHANGED hidden

\* send: over the socket, or kept for when the seat is back, or nowhere
Write(n) ==
  /\ IsOpen /\ me.paired
  /\ wrote' = Append(wrote, n) /\ owed' = Append(owed, n)
  /\ UNCHANGED me
Keep(n) ==
  /\ ~(IsOpen /\ me.paired) /\ me.seat /\ Len(me.outbox) < MAX_OUTBOX
  /\ me' = [me EXCEPT !.outbox = Append(@, n)] /\ owed' = Append(owed, n)
  /\ UNCHANGED wrote
Discard ==
  /\ ~(IsOpen /\ me.paired) /\ ~(me.seat /\ Len(me.outbox) < MAX_OUTBOX)
  /\ UNCHANGED <<me, wrote, owed>>

Send ==
  /\ sends < MaxSends
  /\ sends' = sends + 1
  /\ Write(sends') \/ Keep(sends') \/ Discard
  /\ said' = "none"
  /\ UNCHANGED <<sock, hidden, wakes>>

\* close, and page_hide while there is a seat
Close ==
  /\ me' = DropWs(Forget(me))
  /\ sock' = Closes("left")
  /\ said' = "none"
  /\ UNCHANGED page

\* step_away: no timer brings the seat back until the window shows
StepAway ==
  /\ ~Due /\ ~hidden
  /\ hidden' = TRUE
  /\ IF me.seat /\ me.paired
       THEN /\ me' = [DropWs(me) EXCEPT !.resume = Off, !.handle = FALSE, !.until = RESUME]
            /\ sock' = Closes("kept")
            /\ said' = "away"
       ELSE said' = "none" /\ UNCHANGED <<me, sock>>
  /\ UNCHANGED <<sends, wrote, owed, wakes>>

ComeBack ==
  /\ ~Due /\ hidden
  /\ hidden' = FALSE
  /\ IF me.seat /\ me.until # Off /\ me.ws = NoSock
       THEN \E i \in Free :
              Resume([me EXCEPT !.until = Most(@, RETRY_MAX), !.wait = RETRY], i)
       ELSE said' = "none" /\ UNCHANGED <<me, sock>>
  /\ UNCHANGED <<sends, wrote, owed, wakes>>

\* retry_now: the computer woke, or the network is there again
RetryNow ==
  /\ ~Due /\ wakes < MaxWakes
  /\ me.seat /\ me.until # Off /\ me.handle /\ ~IsOpen
  /\ \E i \in Free : Resume([me EXCEPT !.resume = Off, !.wait = RETRY], i)
  /\ wakes' = wakes + 1
  /\ UNCHANGED <<hidden, sends, wrote, owed>>

-----------------------------------------------------------------------------
(* The timers: ping before connect before resume *)

Dead == me.heard > DEAD

PingFired ==
  /\ me.ping = 0
  /\ \/ /\ Dead /\ me.seat
        /\ Lose /\ sock' = Closes("kept")
     \/ /\ Dead /\ ~me.seat
        /\ Fail("lost") /\ sock' = Closes("left")
     \/ /\ ~Dead
        /\ me' = [me EXCEPT !.ping = PING] /\ said' = "none"
        /\ UNCHANGED sock
  /\ UNCHANGED page

ConnectFired ==
  /\ me.ping # 0 /\ me.connect = 0
  /\ \/ /\ ~IsOpen /\ me.seat
        /\ Lose /\ sock' = Closes("kept")
     \/ /\ ~IsOpen /\ ~me.seat
        /\ Fail("network") /\ sock' = Closes("left")
     \/ /\ IsOpen
        /\ me' = [me EXCEPT !.connect = Off] /\ said' = "none"
        /\ UNCHANGED sock
  /\ UNCHANGED page

ResumeFired ==
  /\ me.ping # 0 /\ me.connect # 0 /\ me.resume = 0
  /\ \E i \in Free : Resume([me EXCEPT !.resume = Off], i)
  /\ UNCHANGED page

Fire == PingFired \/ ConnectFired \/ ResumeFired

Passes(t) == IF t > 0 THEN t - 1 ELSE t

\* time goes on, to the next unit at most: no timer is passed over
Elapse ==
  /\ ~Due
  /\ me' = [me EXCEPT !.ping = Passes(@), !.connect = Passes(@), !.resume = Passes(@),
                      !.until = Passes(@),
                      !.heard = IF @ = Off THEN @ ELSE Least(@ + 1, DEAD + 1)]
  /\ said' = "none"
  /\ UNCHANGED <<sock, page>>

-----------------------------------------------------------------------------
(* What the shell reports *)

Opened(i) ==
  /\ ~Due /\ sock[i].at = "connecting"
  /\ sock' = [sock EXCEPT ![i].at = "open"]
  /\ said' = "none"
  /\ UNCHANGED <<me, page>>

\* mutant: whichever socket speaks is taken for the link's
Anyones(i) == me.ws # NoSock

Ours(i) == i = me.ws

\* closed: by the network, the relay or this machine
Closed(i) ==
  /\ sock[i].at # "none" /\ (Ours(i) => ~Due)
  /\ sock' = [sock EXCEPT ![i] = NoSocket]
  /\ \/ Ours(i) /\ me.seat /\ Lose
     \/ /\ Ours(i) /\ ~me.seat
        /\ Fail(IF me.paired \/ me.heard # Off THEN "lost" ELSE "network")
     \/ ~Ours(i) /\ said' = "none" /\ UNCHANGED me
  /\ UNCHANGED page

\* the link dies, and nothing here is told
Dies(i) ==
  /\ Ours(i) /\ sock[i].at = "open" /\ sock[i].stage # "dead"
  /\ sock' = [sock EXCEPT ![i].stage = "dead"]
  /\ said' = "none"
  /\ UNCHANGED <<me, page>>

\* what the relay may say next over a socket, and how far that brings it
Says(i) ==
  LET s == sock[i] IN
  IF s.at \notin {"open", "left", "kept"} THEN {}
  ELSE CASE s.stage = "fresh" /\ s.asks = "host" ->
              {<<"hosting", "hosted">>, <<"closed", "over">>}
         [] s.stage = "fresh" /\ s.asks = "join" ->
              {<<"open", "on">>, <<"seated", "on">>, <<"closed", "over">>}
         [] s.stage = "fresh" /\ s.asks = "back" -> {<<"resumed", "on">>, <<"closed", "over">>}
         [] s.stage = "hosted" ->
              {<<"hosting", "hosted">>, <<"open", "on">>, <<"seated", "on">>, <<"closed", "over">>,
               <<"pong", "hosted">>}
         [] s.stage = "on" ->
              {<<"data", "on">>, <<"friendAway", "on">>, <<"friendBack", "on">>,
               <<"pong", "on">>, <<"closed", "over">>}
         [] OTHER -> {}

\* receive: one frame, over the link's own socket
Receive(i, f) ==
  LET m == [me EXCEPT !.heard = 0] IN
  \/ f = "pong" /\ me' = m /\ said' = "none" /\ UNCHANGED wrote
  \/ f = "data" /\ me' = m /\ said' = (IF me.paired THEN "message" ELSE "none") /\ UNCHANGED wrote
  \/ f \in {"hosting", "friendAway", "friendBack"} /\ me' = m /\ said' = f /\ UNCHANGED wrote
  \/ f = "closed" /\ me' = DropWs(Forget(m)) /\ said' = "relay" /\ UNCHANGED wrote
  \/ /\ f \in {"open", "seated"}
     /\ me' = [m EXCEPT !.paired = TRUE, !.seat = @ \/ f = "seated"]
     /\ said' = "open"
     /\ UNCHANGED wrote
  \/ /\ f = "resumed"
     /\ me' = [m EXCEPT !.paired = TRUE, !.until = Off, !.resume = Off, !.handle = FALSE,
                        !.outbox = <<>>]
     /\ wrote' = wrote \o me.outbox
     /\ said' = "back"

Message(i) ==
  /\ ~Due
  /\ \E a \in Says(i) :
       /\ \/ /\ Ours(i) /\ Receive(i, a[1])
             /\ sock' = [sock EXCEPT ![i].stage = a[2],
                                     ![i].at = IF a[1] = "closed" THEN "left" ELSE @]
          \/ ~Ours(i) /\ said' = "none" /\ UNCHANGED <<me, sock, wrote>>
       /\ wakes' = IF a[1] = "resumed" /\ Ours(i) THEN 0 ELSE wakes
  /\ UNCHANGED <<hidden, sends, owed>>

-----------------------------------------------------------------------------
PeerInit ==
  /\ me = New
  /\ sock = [i \in Ids |-> NoSocket]
  /\ said = "none" /\ hidden = FALSE
  /\ sends = 0 /\ wrote = <<>> /\ owed = <<>> /\ wakes = 0

PeerNext ==
  \/ \E what \in {"host", "join"} : Begin(what)
  \/ Send \/ Close \/ StepAway \/ ComeBack \/ RetryNow
  \/ Fire \/ Elapse
  \/ \E i \in Ids : Opened(i) \/ Closed(i) \/ Dies(i) \/ Message(i)

PeerSpec == PeerInit /\ [][PeerNext]_peerVars

(***************************************************************************)
(* Time passes and its timers fire; a socket closed here is reported       *)
(* closed; and the relay answers the socket that asks for a seat, as every *)
(* /back route of it does, while the link lives (strongly fair, for a due  *)
(* timer holds an answer back, if never for long).                         *)
(***************************************************************************)
PeerFairness ==
  /\ WF_peerVars(Elapse) /\ WF_peerVars(Fire)
  /\ \A i \in Ids :
       /\ WF_peerVars(sock[i].at \in {"left", "kept"} /\ Closed(i))
       /\ SF_peerVars(sock[i].stage = "fresh" /\ Message(i))

PeerFairSpec == PeerSpec /\ PeerFairness

-----------------------------------------------------------------------------
(* Properties *)

Times(limit) == Off..limit
Lasts == {"none", "pairing", "hosting", "open", "message", "friendAway", "friendBack",
          "away", "back", "network", "lost", "relay"}
Numbers == Seq(1..MaxSends)

(***************************************************************************)
(* The machine's fields are of their types, and its timers go with its     *)
(* socket: a ping timer when there is one, a connect timer only then.      *)
(***************************************************************************)
PeerTypeOK ==
  /\ me.ws \in Ids \cup {NoSock} /\ {me.paired, me.seat, me.handle, hidden} \subseteq BOOLEAN
  /\ me.heard \in Times(DEAD + 1) /\ me.ping \in Times(PING) /\ me.connect \in Times(CONNECT)
  /\ me.until \in Times(Most(RESUME, RETRY_MAX)) /\ me.resume \in Times(RETRY_MAX)
  /\ me.wait \in RETRY..RETRY_MAX
  /\ \A q \in {me.outbox, wrote, owed} : q \in Numbers
  /\ Len(me.outbox) <= MAX_OUTBOX
  /\ said \in Lasts /\ sends \in 0..MaxSends /\ wakes \in 0..MaxWakes
  /\ (me.ws # NoSock) = (me.ping # Off) /\ (me.ws = NoSock => me.connect = Off)

(***************************************************************************)
(* A socket that is not the link's has been closed: whatever is lost,      *)
(* retried, hidden or begun anew, no socket is left open behind.  Two live *)
(* sockets of one player would take one seat from each other at the relay. *)
(***************************************************************************)
NoSocketBehind == \A i \in Ids : sock[i].at \in {"connecting", "open"} => me.ws = i

(***************************************************************************)
(* A seat that is away is being tried for: a socket is on its way or a     *)
(* timer is set to try again, unless the window is hidden (step_away stops *)
(* the tries until come_back).                                             *)
(***************************************************************************)
AwayIsTried ==
  me.seat /\ ~me.paired /\ ~hidden => me.ws # NoSock \/ me.resume # Off

(***************************************************************************)
(* What the page sent to its friend in this game and the machine took has  *)
(* been written or is kept, in the order it was sent, none twice and none  *)
(* missing, over however many sockets.                                     *)
(***************************************************************************)
FramesKept == me.seat => wrote \o me.outbox = owed

(***************************************************************************)
(* The relay ends a game when a seat's socket closes with 1000: such a     *)
(* socket is closed so only when this side has no seat to go back to.      *)
(***************************************************************************)
LeavesForGood ==
  [][\A i \in Ids : sock[i].at \in {"connecting", "open"} /\ sock'[i].at = "left"
       => ~me'.seat /\ me'.outbox = <<>>]_peerVars

\* the link as the page has been told of it
ViewOf ==
  IF me.paired THEN "on"
  ELSE IF me.seat THEN "away"
  ELSE IF me.ws # NoSock THEN "waiting" ELSE "off"

(***************************************************************************)
(* What the page hears is what PageLink promises: every change of the link *)
(* once, messages only while it is on, "network" only when no friend was   *)
(* ever there, nothing once it is off, whatever old sockets report.        *)
(***************************************************************************)
Link == INSTANCE PageLink WITH view <- ViewOf
ImplementsLink == Link!LinkSpec

\* the link's socket opened, nothing came over it, and it died
DiedUnheard == me.ws # NoSock /\ sock[me.ws].stage = "dead" /\ me.heard = Off

(***************************************************************************)
(* Away ends: the seat is taken back, or lost for good, or the window is   *)
(* hidden; provided no socket dies between its opening and the relay's     *)
(* first word, and the computer is not woken for ever.                     *)
(***************************************************************************)
AwayEnds == []~DiedUnheard => [](ViewOf = "away" => <>(ViewOf # "away" \/ hidden))
(***************************************************************************)
(* The machine's sockets and timers are in place: nothing it has let go is *)
(* left open, and nothing it waits for is left without a timer.            *)
(***************************************************************************)
LinkInPlace == PeerTypeOK /\ NoSocketBehind /\ AwayIsTried
=============================================================================
