--------------------------- MODULE PeerOnlineProofs ---------------------------
(***************************************************************************)
(* The link of one player, for any sockets, times and outbox: the machine  *)
(* leaves no socket open behind it, tries for a seat that is away, keeps   *)
(* what the page sent in its order, leaves a seat only for good, and tells *)
(* the page what PageLink promises, step by step.                          *)
(***************************************************************************)
EXTENDS PeerOnline, SequenceTheorems, TLAPS

-----------------------------------------------------------------------------
(* The inductive invariant *)

Outboxes == {q \in Numbers : Len(q) <= MAX_OUTBOX}
MeFacts ==
  [ws : Ids \cup {NoSock}, paired : BOOLEAN, heard : Times(DEAD + 1), ping : Times(PING),
   connect : Times(CONNECT), seat : BOOLEAN, until : Times(Most(RESUME, RETRY_MAX)),
   resume : Times(RETRY_MAX), handle : BOOLEAN, wait : RETRY..RETRY_MAX, outbox : Outboxes]
SockFacts ==
  [at : {"none", "connecting", "open", "left", "kept"},
   asks : {"none", "host", "join", "back"},
   stage : {"none", "fresh", "hosted", "on", "over", "dead"}]

Typed ==
  /\ me \in MeFacts /\ sock \in [Ids -> SockFacts]
  /\ hidden \in BOOLEAN /\ said \in Lasts
  /\ sends \in 0..MaxSends /\ wakes \in 0..MaxWakes
  /\ wrote \in Numbers /\ owed \in Numbers

\* The timers go with the socket.
TimersRight == (me.ws # NoSock <=> me.ping # Off) /\ (me.ws = NoSock => me.connect = Off)

\* The link's socket is live and no other is; how far it is with the relay says whether the
\* player has a seat, and whether the friend is there.
SocketsRight ==
  /\ NoSocketBehind
  /\ me.ws # NoSock =>
       /\ sock[me.ws].at \in {"connecting", "open"}
       /\ sock[me.ws].stage = "fresh" => ~me.paired /\ (sock[me.ws].asks = "back" <=> me.seat)
       /\ sock[me.ws].stage = "hosted" => ~me.paired /\ ~me.seat
       /\ sock[me.ws].stage = "on" => me.paired
       /\ me.paired => sock[me.ws].at = "open"

\* A seat is away exactly as long as it has a time to be back by, and is tried for only then.
SeatRight ==
  /\ me.until # Off <=> me.seat /\ ~me.paired
  /\ me.resume # Off => me.until # Off
  /\ me.paired => me.ws # NoSock

\* Frames are kept only while the seat is away; while there is a seat or a socket, those
\* written and those kept are all that the machine took.
FramesRight ==
  /\ ~(me.seat /\ ~me.paired) => me.outbox = <<>>
  /\ me.seat \/ me.ws # NoSock => wrote \o me.outbox = owed

Inv == Typed /\ TimersRight /\ SocketsRight /\ SeatRight /\ AwayIsTried /\ FramesRight

-----------------------------------------------------------------------------
(* The parts the calls are made of *)

\* The bounds of the timers' times.
LEMMA TimesRight ==
  /\ {PING, DEAD, CONNECT, RESUME, RETRY, RETRY_MAX} \subseteq Nat \ {0} /\ RETRY <= RETRY_MAX
  /\ Most(RESUME, RETRY_MAX) \in Nat \ {0} /\ RESUME <= Most(RESUME, RETRY_MAX)
  /\ RETRY_MAX <= Most(RESUME, RETRY_MAX)
  /\ Off \in Times(DEAD + 1) /\ Off \in Times(PING) /\ Off \in Times(CONNECT)
  /\ Off \in Times(Most(RESUME, RETRY_MAX)) /\ Off \in Times(RETRY_MAX)
  /\ 0 \in Times(DEAD + 1) /\ 0 \in Times(RETRY_MAX)
  /\ PING \in Times(PING) /\ CONNECT \in Times(CONNECT)
  /\ RESUME \in Times(Most(RESUME, RETRY_MAX)) /\ RETRY \in RETRY..RETRY_MAX
  /\ PING # Off /\ CONNECT # Off /\ RESUME # Off /\ 0 # Off
BY PeerAssumption DEF Times, Off, Most

LEMMA NothingKept == <<>> \in Numbers /\ <<>> \in Outboxes
BY EmptySeq, PeerAssumption DEF Numbers, Outboxes

LEMMA Forgets ==
  ASSUME NEW m \in MeFacts
  PROVE  /\ Forget(m) \in MeFacts
         /\ ~Forget(m).seat /\ Forget(m).until = Off /\ Forget(m).resume = Off
         /\ ~Forget(m).handle /\ Forget(m).outbox = <<>>
         /\ Forget(m).ws = m.ws /\ Forget(m).paired = m.paired /\ Forget(m).heard = m.heard
         /\ Forget(m).ping = m.ping /\ Forget(m).connect = m.connect /\ Forget(m).wait = m.wait
BY TimesRight, NothingKept DEF Forget, MeFacts

LEMMA Drops ==
  ASSUME NEW m \in MeFacts
  PROVE  /\ DropWs(m) \in MeFacts
         /\ DropWs(m).ws = NoSock /\ ~DropWs(m).paired
         /\ DropWs(m).ping = Off /\ DropWs(m).connect = Off
         /\ DropWs(m).seat = m.seat /\ DropWs(m).until = m.until /\ DropWs(m).resume = m.resume
         /\ DropWs(m).handle = m.handle /\ DropWs(m).outbox = m.outbox
         /\ DropWs(m).heard = m.heard /\ DropWs(m).wait = m.wait
BY TimesRight DEF DropWs, MeFacts

LEMMA Connects ==
  ASSUME NEW m \in MeFacts, NEW i \in Ids
  PROVE  /\ Connect(m, i) \in MeFacts
         /\ Connect(m, i).ws = i /\ ~Connect(m, i).paired
         /\ Connect(m, i).ping = PING /\ Connect(m, i).connect = CONNECT
         /\ Connect(m, i).seat = m.seat /\ Connect(m, i).until = m.until
         /\ Connect(m, i).resume = m.resume /\ Connect(m, i).outbox = m.outbox
         /\ Connect(m, i).heard = Off
BY TimesRight DEF Connect, DropWs, MeFacts

-----------------------------------------------------------------------------
(* What a step is to keep, and its parts *)

\* A socket closed with 1000 leaves no seat: the step of LeavesForGood.
LeftForGood ==
  \A i \in Ids : sock[i].at \in {"connecting", "open"} /\ sock'[i].at = "left"
    => ~me'.seat /\ me'.outbox = <<>>

StepRight == Inv' /\ Link!LinkNext /\ LeftForGood

\* The types of the fields, one by one.
LEMMA MeTyped ==
  ASSUME NEW m \in MeFacts
  PROVE  /\ m.ws \in Ids \cup {NoSock} /\ {m.paired, m.seat, m.handle} \subseteq BOOLEAN
         /\ m.heard \in Times(DEAD + 1) /\ m.ping \in Times(PING) /\ m.connect \in Times(CONNECT)
         /\ m.until \in Times(Most(RESUME, RETRY_MAX)) /\ m.resume \in Times(RETRY_MAX)
         /\ m.wait \in RETRY..RETRY_MAX /\ m.outbox \in Outboxes
         /\ {m.heard, m.ping, m.connect, m.until, m.resume, m.wait} \subseteq Int
BY PeerAssumption DEF MeFacts, Times, Off

\* The socket closed is not live, and no other was.
LEMMA SocketDropped ==
  ASSUME Inv, NEW how \in {"left", "kept"}, sock' = Closes(how), me'.ws = NoSock,
         how = "left" => ~me'.seat /\ me'.outbox = <<>>
  PROVE  sock' \in [Ids -> SockFacts] /\ SocketsRight' /\ LeftForGood
<1>1. /\ sock \in [Ids -> SockFacts] /\ me.ws \in Ids \cup {NoSock} /\ NoSock \notin Ids
      /\ NoSocketBehind
  BY MeTyped, PeerAssumption DEF Inv, Typed, SocketsRight
<1>2. CASE me.ws = NoSock
  <2>1. sock' = sock
    BY <1>2 DEF Closes
  <2>2. \A i \in Ids : sock[i].at \notin {"connecting", "open"}
    BY <1>1, <1>2 DEF NoSocketBehind
  <2> QED BY <1>1, <2>1, <2>2 DEF SocketsRight, NoSocketBehind, LeftForGood
<1>3. CASE me.ws # NoSock
  <2>1. /\ sock' = [sock EXCEPT ![me.ws] = [sock[me.ws] EXCEPT !.at = how]] /\ me.ws \in Ids
        /\ [sock[me.ws] EXCEPT !.at = how] \in SockFacts
        /\ [sock[me.ws] EXCEPT !.at = how].at = how
    BY <1>1, <1>3 DEF Closes, SockFacts
  <2>2. /\ sock' \in [Ids -> SockFacts] /\ sock'[me.ws].at = how
        /\ \A i \in Ids : i # me.ws => sock'[i] = sock[i]
    BY <1>1, <2>1
  <2>3. \A i \in Ids : sock'[i].at \notin {"connecting", "open"}
    BY <1>1, <2>2 DEF NoSocketBehind
  <2>4. \A i \in Ids : sock[i].at \in {"connecting", "open"} => i = me.ws
    BY <1>1 DEF NoSocketBehind
  <2> QED BY <2>2, <2>3, <2>4 DEF SocketsRight, NoSocketBehind, LeftForGood
<1> QED BY <1>2, <1>3

\* A new socket in its place, which asks for a seat back or for a new game.
LEMMA SocketAnew ==
  ASSUME Inv, NEW how \in {"left", "kept"}, NEW what \in {"host", "join", "back"}, NEW i \in Free,
         sock' = [Closes(how) EXCEPT ![i] = Asked(what)], me'.ws = i, ~me'.paired,
         what = "back" <=> me'.seat, how = "left" => ~me'.seat /\ me'.outbox = <<>>
  PROVE  sock' \in [Ids -> SockFacts] /\ SocketsRight' /\ LeftForGood
<1>1. /\ sock \in [Ids -> SockFacts] /\ me.ws \in Ids \cup {NoSock} /\ NoSock \notin Ids
      /\ NoSocketBehind /\ i \in Ids /\ sock[i].at = "none"
  BY MeTyped, PeerAssumption DEF Inv, Typed, SocketsRight, Free
<1>2. /\ Asked(what) \in SockFacts /\ Asked(what).at = "connecting"
      /\ Asked(what).asks = what /\ Asked(what).stage = "fresh"
  BY DEF Asked, SockFacts
<1>3. /\ Closes(how) \in [Ids -> SockFacts]
      /\ \A j \in Ids : Closes(how)[j] = sock[j] \/ (j = me.ws /\ Closes(how)[j].at = how)
      /\ \A j \in Ids : Closes(how)[j].at \notin {"connecting", "open"}
  <2>1. CASE me.ws = NoSock
    <3>1. Closes(how) = sock
      BY <2>1 DEF Closes
    <3> QED BY <1>1, <2>1, <3>1 DEF NoSocketBehind
  <2>2. CASE me.ws # NoSock
    <3>1. /\ Closes(how) = [sock EXCEPT ![me.ws] = [sock[me.ws] EXCEPT !.at = how]]
          /\ me.ws \in Ids
          /\ [sock[me.ws] EXCEPT !.at = how] \in SockFacts
          /\ [sock[me.ws] EXCEPT !.at = how].at = how
      BY <1>1, <2>2 DEF Closes, SockFacts
    <3>2. /\ Closes(how) \in [Ids -> SockFacts] /\ Closes(how)[me.ws].at = how
          /\ \A j \in Ids : j # me.ws => Closes(how)[j] = sock[j]
      BY <1>1, <3>1
    <3> QED BY <1>1, <3>2 DEF NoSocketBehind
  <2> QED BY <2>1, <2>2
<1>4. /\ sock' \in [Ids -> SockFacts] /\ sock'[i] = Asked(what)
      /\ \A j \in Ids : j # i => sock'[j] = Closes(how)[j]
  BY <1>1, <1>2, <1>3
<1>5. SocketsRight'
  BY <1>1, <1>2, <1>3, <1>4 DEF SocketsRight, NoSocketBehind
<1>6. LeftForGood
  BY <1>1, <1>2, <1>3, <1>4 DEF LeftForGood
<1> QED BY <1>4, <1>5, <1>6

\* The seat is away with its tries, or lost for good, and the page is told of it.
LEMMA LosesRight ==
  ASSUME Inv, Lose, me.seat, me.ws # NoSock, UNCHANGED page
  PROVE  /\ me' \in MeFacts /\ me'.ws = NoSock /\ said' \in Lasts
         /\ TimersRight' /\ SeatRight' /\ AwayIsTried' /\ FramesRight' /\ Link!LinkNext
<1>1. /\ me \in MeFacts /\ DropWs(me) \in MeFacts
      /\ wrote' = wrote /\ owed' = owed /\ hidden' = hidden /\ wrote \o me.outbox = owed
      /\ me.until # Off <=> ~me.paired
  BY Drops DEF Inv, Typed, page, FramesRight, SeatRight
<1>2. CASE LoseFirst
  <2>1. /\ me' \in MeFacts /\ me'.ws = NoSock /\ ~me'.paired /\ me'.seat /\ me'.until = RESUME
        /\ me'.resume = 0 /\ me'.ping = Off /\ me'.connect = Off /\ me'.outbox = me.outbox
        /\ said' = "away" /\ me.paired
    BY <1>1, <1>2, Drops, TimesRight DEF LoseFirst, MeFacts
  <2>2. TimersRight' /\ SeatRight' /\ AwayIsTried' /\ FramesRight'
    BY <1>1, <2>1, TimesRight DEF TimersRight, SeatRight, AwayIsTried, FramesRight
  <2>3. Link!Away
    BY <2>1 DEF Link!Away, Link!Goes, ViewOf
  <2> QED BY <2>1, <2>2, <2>3 DEF Link!LinkNext, Lasts
<1>3. CASE LoseAgain
  <2>1. /\ me.wait \in RETRY..RETRY_MAX /\ me.wait # Off
        /\ Least(RETRY_MAX, 2 * me.wait) \in RETRY..RETRY_MAX /\ me.wait \in Times(RETRY_MAX)
    <3>1. /\ {me.wait, RETRY, RETRY_MAX} \subseteq Int /\ RETRY > 0
          /\ RETRY <= me.wait /\ me.wait <= RETRY_MAX
      <4>1. me.wait \in RETRY..RETRY_MAX
        BY <1>1, MeTyped
      <4> QED BY <4>1, PeerAssumption
    <3>2. /\ Least(RETRY_MAX, 2 * me.wait) \in Int /\ RETRY <= Least(RETRY_MAX, 2 * me.wait)
          /\ Least(RETRY_MAX, 2 * me.wait) <= RETRY_MAX
      <4> DEFINE w == me.wait
      <4>1. w \in Int /\ 2 * w \in Int /\ RETRY <= 2 * w
        BY <3>1
      <4> QED BY <3>1, <4>1, PeerAssumption DEF Least
    <3> QED BY <3>1, <3>2 DEF Times, Off
  <2>2. /\ me' \in MeFacts /\ me'.ws = NoSock /\ ~me'.paired /\ me'.seat /\ me'.until = me.until
        /\ me'.resume = me.wait /\ me'.ping = Off /\ me'.connect = Off /\ me'.outbox = me.outbox
        /\ said' = "none" /\ me.until > 0
    BY <1>1, <1>3, <2>1, Drops DEF LoseAgain, MeFacts
  <2>3. me.until # Off /\ ~me.paired
    BY <1>1, <2>2, MeTyped DEF Off
  <2>4. TimersRight' /\ SeatRight' /\ AwayIsTried' /\ FramesRight'
    BY <1>1, <2>1, <2>2, <2>3 DEF TimersRight, SeatRight, AwayIsTried, FramesRight
  <2>5. Link!Quiet
    BY <2>2, <2>3 DEF Link!Quiet, ViewOf
  <2> QED BY <2>2, <2>4, <2>5 DEF Link!LinkNext, Lasts
<1>4. CASE GiveUp
  <2>1. /\ me' = Forget(DropWs(me)) /\ said' = "lost" /\ ~me.paired
    BY <1>1, <1>4, TimesRight DEF GiveUp
  <2>2. /\ me' \in MeFacts /\ me'.ws = NoSock /\ ~me'.paired /\ ~me'.seat /\ me'.until = Off
        /\ me'.resume = Off /\ me'.ping = Off /\ me'.connect = Off /\ me'.outbox = <<>>
    BY <1>1, <2>1, Drops, Forgets
  <2>3. TimersRight' /\ SeatRight' /\ AwayIsTried' /\ FramesRight'
    BY <2>2 DEF TimersRight, SeatRight, AwayIsTried, FramesRight
  <2>4. Link!Ends
    BY <2>1, <2>2 DEF Link!Ends, Link!Goes, ViewOf
  <2> QED BY <2>1, <2>2, <2>3, <2>4 DEF Link!LinkNext, Lasts
<1> QED BY <1>2, <1>3, <1>4 DEF Lose

\* A link without a seat fails, and the page is told why.
LEMMA FailsRight ==
  ASSUME Inv, NEW reason \in {"network", "lost"}, Fail(reason), me.ws # NoSock, ~me.seat,
         reason = "network" => ~me.paired, UNCHANGED page
  PROVE  /\ me' \in MeFacts /\ me'.ws = NoSock /\ said' \in Lasts /\ ~me'.seat /\ me'.outbox = <<>>
         /\ TimersRight' /\ SeatRight' /\ AwayIsTried' /\ FramesRight' /\ Link!LinkNext
<1>1. me \in MeFacts /\ me' = DropWs(Forget(me)) /\ said' = reason /\ Forget(me) \in MeFacts
  BY Forgets DEF Inv, Typed, Fail
<1>2. /\ me' \in MeFacts /\ me'.ws = NoSock /\ ~me'.paired /\ ~me'.seat /\ me'.until = Off
      /\ me'.resume = Off /\ me'.ping = Off /\ me'.connect = Off /\ me'.outbox = <<>>
  BY <1>1, Forgets, Drops
<1>3. TimersRight' /\ SeatRight' /\ AwayIsTried' /\ FramesRight'
  BY <1>2 DEF TimersRight, SeatRight, AwayIsTried, FramesRight
<1>4. Link!Ends
  BY <1>1, <1>2 DEF Link!Ends, Link!Goes, ViewOf
<1> QED BY <1>1, <1>2, <1>3, <1>4 DEF Link!LinkNext, Lasts

\* A try for the seat, over a new socket.
LEMMA ResumesRight ==
  ASSUME Inv, NEW m \in MeFacts, NEW i \in Free, Resume(m, i),
         me.seat, me.until # Off, m.seat, ~m.paired, m.until # Off, m.outbox = me.outbox,
         wrote' = wrote, owed' = owed, hidden' \in BOOLEAN, sends' = sends, wakes' \in 0..MaxWakes
  PROVE  StepRight
<1>1. /\ me \in MeFacts /\ wrote \o me.outbox = owed /\ ~me.paired /\ i \in Ids
  BY DEF Inv, Typed, FramesRight, SeatRight, Free
<1>2. /\ me' = Connect(m, i) /\ said' = "none"
      /\ sock' = [Closes("kept") EXCEPT ![i] = Asked("back")]
  BY DEF Resume
<1>3. /\ me' \in MeFacts /\ me'.ws = i /\ ~me'.paired /\ me'.seat /\ me'.until = m.until
      /\ me'.resume = m.resume /\ me'.ping = PING /\ me'.outbox = me.outbox
  BY <1>1, <1>2, Connects
<1>4. sock' \in [Ids -> SockFacts] /\ SocketsRight' /\ LeftForGood
  <2>1. "kept" \in {"left", "kept"} /\ "back" \in {"host", "join", "back"} /\ "kept" # "left"
    OBVIOUS
  <2> QED BY <1>2, <1>3, <2>1, SocketAnew
<1>5. Typed'
  BY <1>2, <1>3, <1>4 DEF Inv, Typed, Lasts
<1>6. TimersRight' /\ SeatRight' /\ AwayIsTried' /\ FramesRight'
  BY <1>1, <1>3, TimesRight, PeerAssumption
     DEF TimersRight, SeatRight, AwayIsTried, FramesRight
<1>7. Link!Quiet
  BY <1>1, <1>2, <1>3 DEF Link!Quiet, ViewOf
<1> QED BY <1>4, <1>5, <1>6, <1>7 DEF StepRight, Inv, Link!LinkNext

-----------------------------------------------------------------------------
(* The page's calls *)

\* Nothing changed of the link or its sockets: the page is told nothing.
LEMMA QuietRight ==
  ASSUME Inv, UNCHANGED <<me, sock, sends, wrote, owed>>, said' = "none",
         hidden' \in BOOLEAN, me.seat /\ ~me.paired => hidden' \/ me.ws # NoSock \/ me.resume # Off,
         wakes' \in 0..MaxWakes
  PROVE  StepRight
<1>1. Typed'
  BY DEF Inv, Typed, Lasts
<1>2. TimersRight' /\ SocketsRight' /\ SeatRight' /\ AwayIsTried' /\ FramesRight'
  BY DEF Inv, TimersRight, SocketsRight, NoSocketBehind, SeatRight, AwayIsTried, FramesRight
<1>3. Link!Quiet
  BY DEF Link!Quiet, ViewOf
<1>4. LeftForGood
  BY DEF LeftForGood
<1> QED BY <1>1, <1>2, <1>3, <1>4 DEF StepRight, Inv, Link!LinkNext

\* Another game: no frame and no seat of the one before.
LEMMA BeginsRight ==
  ASSUME Inv, NEW what \in {"host", "join"}, Begin(what)
  PROVE  StepRight
<1>1. PICK i \in Free : me' = Connect(Forget(me), i) /\ sock' = [Closes("left") EXCEPT ![i] = Asked(what)]
  BY DEF Begin
<1>2. /\ said' = (IF what = "join" THEN "pairing" ELSE "none")
      /\ sends' = 0 /\ wrote' = <<>> /\ owed' = <<>> /\ wakes' = 0 /\ hidden' = hidden
  BY DEF Begin
<1>3. me \in MeFacts /\ i \in Ids
  BY DEF Inv, Typed, Free
<1>4. /\ me' \in MeFacts /\ me'.ws = i /\ ~me'.paired /\ ~me'.seat /\ me'.until = Off
      /\ me'.resume = Off /\ me'.ping = PING /\ me'.outbox = <<>>
  BY <1>1, <1>3, Forgets, Connects
<1>5. sock' \in [Ids -> SockFacts] /\ SocketsRight' /\ LeftForGood
  <2>1. "left" \in {"left", "kept"} /\ what \in {"host", "join", "back"} /\ what # "back"
    OBVIOUS
  <2> QED BY <1>1, <1>4, <2>1, SocketAnew
<1>6. Typed'
  BY <1>2, <1>4, <1>5, NothingKept, PeerAssumption DEF Inv, Typed, Lasts
<1>7. <<>> \o <<>> = <<>>
  OBVIOUS
<1>8. TimersRight' /\ SeatRight' /\ AwayIsTried' /\ FramesRight'
  BY <1>2, <1>3, <1>4, <1>7, TimesRight, PeerAssumption
     DEF TimersRight, SeatRight, AwayIsTried, FramesRight
<1>9. Link!Host \/ Link!Join
  <2>1. ViewOf \in Link!Views /\ ViewOf' = "waiting"
    BY <1>3, <1>4, PeerAssumption DEF ViewOf, Link!Views
  <2> QED BY <1>2, <2>1 DEF Link!Host, Link!Join, Link!Goes
<1> QED BY <1>5, <1>6, <1>8, <1>9 DEF StepRight, Inv, Link!LinkNext

\* What is sent is written after all that was, or kept after all that is.
LEMMA SendsRight ==
  ASSUME Inv, Send
  PROVE  StepRight
<1>1. /\ me \in MeFacts /\ wrote \in Numbers /\ owed \in Numbers /\ me.outbox \in Outboxes
      /\ sends \in 0..MaxSends
  BY MeTyped DEF Inv, Typed
<1>2. /\ sends < MaxSends /\ sends' = sends + 1 /\ said' = "none"
      /\ sock' = sock /\ hidden' = hidden /\ wakes' = wakes
  BY DEF Send
<1>3. sends' \in 1..MaxSends /\ sends' \in 0..MaxSends
  BY <1>1, <1>2, PeerAssumption
<1> DEFINE n == sends'
<1>4. n \in 1..MaxSends
  BY <1>3
<1> HIDE DEF n
<1>5. CASE Write(n)
  <2>1. /\ me.paired /\ me' = me /\ wrote' = Append(wrote, n) /\ owed' = Append(owed, n)
    BY <1>5 DEF Write
  <2>2. me.outbox = <<>> /\ wrote \o me.outbox = owed
    BY <2>1 DEF Inv, FramesRight, SeatRight
  <2>3. wrote = owed
    BY <1>1, <2>2 DEF Numbers
  <2>4. wrote' \in Numbers /\ owed' \in Numbers /\ wrote' = owed' /\ wrote' \o <<>> = wrote'
    BY <1>1, <1>4, <2>1, <2>3 DEF Numbers
  <2>5. Typed'
    BY <1>2, <1>3, <2>1, <2>4 DEF Inv, Typed, Lasts
  <2>6. TimersRight' /\ SocketsRight' /\ SeatRight' /\ AwayIsTried' /\ FramesRight'
    BY <1>2, <2>1, <2>2, <2>4
       DEF Inv, TimersRight, SocketsRight, NoSocketBehind, SeatRight, AwayIsTried, FramesRight
  <2> QED BY <1>2, <2>1, <2>5, <2>6
          DEF StepRight, LeftForGood, Inv, Link!LinkNext, Link!Quiet, ViewOf
<1>6. CASE Keep(n)
  <2>1. /\ me.seat /\ Len(me.outbox) < MAX_OUTBOX /\ ~(IsOpen /\ me.paired)
        /\ me' = [me EXCEPT !.outbox = Append(me.outbox, n)]
        /\ owed' = Append(owed, n) /\ wrote' = wrote
    BY <1>6 DEF Keep
  <2>2. ~me.paired /\ wrote \o me.outbox = owed
    BY <2>1 DEF Inv, SeatRight, SocketsRight, IsOpen, FramesRight
  <2>3. /\ Append(me.outbox, n) \in Outboxes /\ owed' \in Numbers
        /\ wrote \o Append(me.outbox, n) = owed'
    <3>1. /\ me.outbox \in Seq(1..MaxSends) /\ Len(me.outbox) \in Nat
          /\ wrote \in Seq(1..MaxSends) /\ owed \in Seq(1..MaxSends)
      BY <1>1 DEF Numbers, Outboxes
    <3>2. wrote \o Append(me.outbox, n) = Append(wrote \o me.outbox, n)
      BY <1>4, <3>1
    <3>3. /\ Append(me.outbox, n) \in Seq(1..MaxSends) /\ Append(owed, n) \in Seq(1..MaxSends)
          /\ Len(Append(me.outbox, n)) = Len(me.outbox) + 1
      BY <1>4, <3>1
    <3>4. Len(Append(me.outbox, n)) <= MAX_OUTBOX
      BY <2>1, <3>1, <3>3, PeerAssumption
    <3>5. wrote \o Append(me.outbox, n) = owed'
      BY <2>1, <2>2, <3>2
    <3> QED BY <2>1, <3>3, <3>4, <3>5 DEF Numbers, Outboxes
  <2>4. /\ me' \in MeFacts /\ me'.outbox = Append(me.outbox, n) /\ me'.ws = me.ws
        /\ me'.paired = me.paired /\ me'.seat = me.seat /\ me'.ping = me.ping
        /\ me'.connect = me.connect /\ me'.until = me.until /\ me'.resume = me.resume
    BY <1>1, <2>1, <2>3 DEF MeFacts
  <2>5. Typed'
    BY <1>2, <1>3, <2>1, <2>3, <2>4 DEF Inv, Typed, Lasts
  <2>6. TimersRight' /\ SocketsRight' /\ SeatRight' /\ AwayIsTried' /\ FramesRight'
    BY <1>2, <2>1, <2>2, <2>3, <2>4
       DEF Inv, TimersRight, SocketsRight, NoSocketBehind, SeatRight, AwayIsTried, FramesRight
  <2> QED BY <1>2, <2>4, <2>5, <2>6
          DEF StepRight, LeftForGood, Inv, Link!LinkNext, Link!Quiet, ViewOf
<1>7. CASE Discard
  <2>1. me' = me /\ wrote' = wrote /\ owed' = owed
    BY <1>7 DEF Discard
  <2>2. Typed'
    BY <1>2, <1>3, <2>1 DEF Inv, Typed, Lasts
  <2>3. TimersRight' /\ SocketsRight' /\ SeatRight' /\ AwayIsTried' /\ FramesRight'
    BY <1>2, <2>1
       DEF Inv, TimersRight, SocketsRight, NoSocketBehind, SeatRight, AwayIsTried, FramesRight
  <2> QED BY <1>2, <2>1, <2>2, <2>3
          DEF StepRight, LeftForGood, Inv, Link!LinkNext, Link!Quiet, ViewOf
<1> QED BY <1>5, <1>6, <1>7 DEF Send, n

\* The page leaves: the socket is closed for good, and nothing is kept.
LEMMA ClosesRight ==
  ASSUME Inv, Close
  PROVE  StepRight
<1>1. /\ me' = DropWs(Forget(me)) /\ sock' = Closes("left") /\ said' = "none" /\ UNCHANGED page
      /\ me \in MeFacts
  BY DEF Close, Inv, Typed
<1>2. /\ me' \in MeFacts /\ me'.ws = NoSock /\ ~me'.paired /\ ~me'.seat /\ me'.until = Off
      /\ me'.resume = Off /\ me'.ping = Off /\ me'.connect = Off /\ me'.outbox = <<>>
  BY <1>1, Forgets, Drops
<1>3. sock' \in [Ids -> SockFacts] /\ SocketsRight' /\ LeftForGood
  <2>1. "left" \in {"left", "kept"}
    OBVIOUS
  <2> QED BY <1>1, <1>2, <2>1, SocketDropped
<1>4. Typed'
  BY <1>1, <1>2, <1>3 DEF Inv, Typed, Lasts, page
<1>5. TimersRight' /\ SeatRight' /\ AwayIsTried' /\ FramesRight'
  BY <1>2 DEF TimersRight, SeatRight, AwayIsTried, FramesRight
<1>6. Link!Leave
  <2>1. ViewOf \in Link!Views /\ ViewOf' = "off"
    BY <1>2 DEF ViewOf, Link!Views
  <2> QED BY <1>1, <2>1 DEF Link!Leave, Link!Goes
<1> QED BY <1>3, <1>4, <1>5, <1>6 DEF StepRight, Inv, Link!LinkNext

\* The window hides: the seat is away, and waits to be asked for.
LEMMA StepAwayRight ==
  ASSUME Inv, StepAway
  PROVE  StepRight
<1>1. /\ hidden' = TRUE /\ sends' = sends /\ wrote' = wrote /\ owed' = owed /\ wakes' = wakes
      /\ me \in MeFacts
  BY DEF StepAway, Inv, Typed
<1>2. CASE ~(me.seat /\ me.paired)
  <2>1. said' = "none" /\ me' = me /\ sock' = sock
    BY <1>2 DEF StepAway
  <2> QED BY <1>1, <2>1, QuietRight DEF Inv, Typed
<1>3. CASE me.seat /\ me.paired
  <2>1. /\ me' = [DropWs(me) EXCEPT !.resume = Off, !.handle = FALSE, !.until = RESUME]
        /\ sock' = Closes("kept") /\ said' = "away"
    BY <1>3 DEF StepAway
  <2>2. /\ me' \in MeFacts /\ me'.ws = NoSock /\ ~me'.paired /\ me'.seat /\ me'.until = RESUME
        /\ me'.resume = Off /\ me'.ping = Off /\ me'.connect = Off /\ me'.outbox = me.outbox
    <3> DEFINE m == DropWs(me)
    <3>1. /\ m \in MeFacts /\ m.ws = NoSock /\ ~m.paired /\ m.ping = Off /\ m.connect = Off
          /\ m.seat /\ m.outbox = me.outbox
          /\ me' = [m EXCEPT !.resume = Off, !.handle = FALSE, !.until = RESUME]
      BY <1>1, <1>3, <2>1, Drops
    <3> HIDE DEF m
    <3> QED BY <3>1, TimesRight DEF MeFacts
  <2>3. sock' \in [Ids -> SockFacts] /\ SocketsRight' /\ LeftForGood
    <3>1. "kept" \in {"left", "kept"} /\ "kept" # "left"
      OBVIOUS
    <3> QED BY <2>1, <2>2, <3>1, SocketDropped
  <2>4. Typed'
    BY <1>1, <2>1, <2>2, <2>3 DEF Inv, Typed, Lasts
  <2>5. wrote \o me.outbox = owed
    BY <1>3 DEF Inv, FramesRight
  <2>6. TimersRight' /\ SeatRight' /\ AwayIsTried' /\ FramesRight'
    BY <1>1, <2>2, <2>5, TimesRight DEF TimersRight, SeatRight, AwayIsTried, FramesRight
  <2>7. Link!Away
    BY <1>3, <2>1, <2>2 DEF Link!Away, Link!Goes, ViewOf
  <2> QED BY <2>3, <2>4, <2>6, <2>7 DEF StepRight, Inv, Link!LinkNext
<1> QED BY <1>2, <1>3

\* The window shows: the seat is asked for, with time for a try at least.
LEMMA ComeBackRight ==
  ASSUME Inv, ComeBack
  PROVE  StepRight
<1>1. /\ hidden' = FALSE /\ sends' = sends /\ wrote' = wrote /\ owed' = owed /\ wakes' = wakes
      /\ me \in MeFacts /\ wakes \in 0..MaxWakes
  BY DEF ComeBack, Inv, Typed
<1>2. CASE ~(me.seat /\ me.until # Off /\ me.ws = NoSock)
  <2>1. said' = "none" /\ me' = me /\ sock' = sock
    BY <1>2 DEF ComeBack
  <2>2. me.seat /\ ~me.paired => me.ws # NoSock
    BY <1>2 DEF Inv, SeatRight
  <2> QED BY <1>1, <2>1, <2>2, QuietRight
<1>3. CASE me.seat /\ me.until # Off /\ me.ws = NoSock
  <2> DEFINE m == [me EXCEPT !.until = Most(me.until, RETRY_MAX), !.wait = RETRY]
  <2>1. PICK i \in Free : Resume(m, i)
    BY <1>3 DEF ComeBack
  <2>2. Most(me.until, RETRY_MAX) \in Times(Most(RESUME, RETRY_MAX))
        /\ Most(me.until, RETRY_MAX) # Off
    BY <1>1, MeTyped, PeerAssumption DEF Most, Times, Off
  <2>3. /\ m \in MeFacts /\ m.seat /\ m.paired = me.paired /\ m.until # Off
        /\ m.outbox = me.outbox
    BY <1>1, <1>3, <2>2, TimesRight DEF MeFacts
  <2>4. ~me.paired
    BY <1>3 DEF Inv, SeatRight
  <2> HIDE DEF m
  <2> QED BY <1>1, <1>3, <2>1, <2>3, <2>4, ResumesRight
<1> QED BY <1>2, <1>3

\* The computer woke: the seat is asked for at once.
LEMMA RetriesRight ==
  ASSUME Inv, RetryNow
  PROVE  StepRight
<1> DEFINE m == [me EXCEPT !.resume = Off, !.wait = RETRY]
<1>1. /\ me.seat /\ me.until # Off /\ wakes < MaxWakes /\ wakes' = wakes + 1
      /\ hidden' = hidden /\ sends' = sends /\ wrote' = wrote /\ owed' = owed
  BY DEF RetryNow
<1>2. PICK i \in Free : Resume(m, i)
  BY DEF RetryNow
<1>3. me \in MeFacts /\ ~me.paired /\ hidden' \in BOOLEAN /\ wakes' \in 0..MaxWakes
  BY <1>1, PeerAssumption DEF Inv, Typed, SeatRight
<1>4. m \in MeFacts /\ m.seat /\ ~m.paired /\ m.until # Off /\ m.outbox = me.outbox
  BY <1>1, <1>3, TimesRight DEF MeFacts
<1> HIDE DEF m
<1> QED BY <1>1, <1>2, <1>3, <1>4, ResumesRight

-----------------------------------------------------------------------------
(* The timers *)

\* A link over which nothing has come for long is lost.
LEMMA PingRight ==
  ASSUME Inv, PingFired
  PROVE  StepRight
<1>1. /\ me.ping = 0 /\ UNCHANGED page /\ me \in MeFacts /\ me.ws # NoSock
  BY TimesRight DEF PingFired, Inv, Typed, TimersRight
<1>2. CASE Dead /\ me.seat /\ Lose /\ sock' = Closes("kept")
  <2>1. /\ me' \in MeFacts /\ me'.ws = NoSock /\ said' \in Lasts
        /\ TimersRight' /\ SeatRight' /\ AwayIsTried' /\ FramesRight' /\ Link!LinkNext
    BY <1>1, <1>2, LosesRight
  <2>2. sock' \in [Ids -> SockFacts] /\ SocketsRight' /\ LeftForGood
    <3>1. "kept" \in {"left", "kept"} /\ "kept" # "left"
      OBVIOUS
    <3> QED BY <1>2, <2>1, <3>1, SocketDropped
  <2>3. Typed'
    BY <1>1, <2>1, <2>2 DEF Inv, Typed, page
  <2> QED BY <2>1, <2>2, <2>3 DEF StepRight, Inv
<1>3. CASE Dead /\ ~me.seat /\ Fail("lost") /\ sock' = Closes("left")
  <2>1. "lost" \in {"network", "lost"} /\ "left" \in {"left", "kept"} /\ "lost" # "network"
    OBVIOUS
  <2>2. /\ me' \in MeFacts /\ me'.ws = NoSock /\ said' \in Lasts /\ ~me'.seat /\ me'.outbox = <<>>
        /\ TimersRight' /\ SeatRight' /\ AwayIsTried' /\ FramesRight' /\ Link!LinkNext
    BY <1>1, <1>3, <2>1, FailsRight
  <2>3. sock' \in [Ids -> SockFacts] /\ SocketsRight' /\ LeftForGood
    BY <1>3, <2>1, <2>2, SocketDropped
  <2>4. Typed'
    BY <1>1, <2>2, <2>3 DEF Inv, Typed, page
  <2> QED BY <2>2, <2>3, <2>4 DEF StepRight, Inv
<1>4. CASE me' = [me EXCEPT !.ping = PING] /\ said' = "none" /\ UNCHANGED sock
  <2>1. /\ me' \in MeFacts /\ me'.ping = PING /\ me'.ws = me.ws /\ me'.paired = me.paired
        /\ me'.seat = me.seat /\ me'.connect = me.connect /\ me'.until = me.until
        /\ me'.resume = me.resume /\ me'.outbox = me.outbox
    BY <1>1, <1>4, TimesRight DEF MeFacts
  <2>2. Typed'
    BY <1>1, <1>4, <2>1 DEF Inv, Typed, page, Lasts
  <2>3. TimersRight' /\ SocketsRight' /\ SeatRight' /\ AwayIsTried' /\ FramesRight'
    BY <1>1, <1>4, <2>1, TimesRight
       DEF Inv, TimersRight, SocketsRight, NoSocketBehind, SeatRight, AwayIsTried, FramesRight, page
  <2> QED BY <1>4, <2>1, <2>2, <2>3
          DEF StepRight, LeftForGood, Inv, Link!LinkNext, Link!Quiet, ViewOf
<1> QED BY <1>2, <1>3, <1>4 DEF PingFired

\* A socket that does not open in time is given up.
LEMMA ConnectRight ==
  ASSUME Inv, ConnectFired
  PROVE  StepRight
<1>1. /\ me.connect = 0 /\ UNCHANGED page /\ me \in MeFacts /\ me.ws # NoSock
  BY TimesRight DEF ConnectFired, Inv, Typed, TimersRight
<1>2. CASE ~IsOpen /\ me.seat /\ Lose /\ sock' = Closes("kept")
  <2>1. /\ me' \in MeFacts /\ me'.ws = NoSock /\ said' \in Lasts
        /\ TimersRight' /\ SeatRight' /\ AwayIsTried' /\ FramesRight' /\ Link!LinkNext
    BY <1>1, <1>2, LosesRight
  <2>2. sock' \in [Ids -> SockFacts] /\ SocketsRight' /\ LeftForGood
    <3>1. "kept" \in {"left", "kept"} /\ "kept" # "left"
      OBVIOUS
    <3> QED BY <1>2, <2>1, <3>1, SocketDropped
  <2>3. Typed'
    BY <1>1, <2>1, <2>2 DEF Inv, Typed, page
  <2> QED BY <2>1, <2>2, <2>3 DEF StepRight, Inv
<1>3. CASE ~IsOpen /\ ~me.seat /\ Fail("network") /\ sock' = Closes("left")
  <2>1. "network" \in {"network", "lost"} /\ "left" \in {"left", "kept"}
    OBVIOUS
  <2>2. ~me.paired
    BY <1>1, <1>3 DEF Inv, SocketsRight, IsOpen
  <2>3. /\ me' \in MeFacts /\ me'.ws = NoSock /\ said' \in Lasts /\ ~me'.seat /\ me'.outbox = <<>>
        /\ TimersRight' /\ SeatRight' /\ AwayIsTried' /\ FramesRight' /\ Link!LinkNext
    BY <1>1, <1>3, <2>1, <2>2, FailsRight
  <2>4. sock' \in [Ids -> SockFacts] /\ SocketsRight' /\ LeftForGood
    BY <1>3, <2>1, <2>3, SocketDropped
  <2>5. Typed'
    BY <1>1, <2>3, <2>4 DEF Inv, Typed, page
  <2> QED BY <2>3, <2>4, <2>5 DEF StepRight, Inv
<1>4. CASE me' = [me EXCEPT !.connect = Off] /\ said' = "none" /\ UNCHANGED sock
  <2>1. /\ me' \in MeFacts /\ me'.connect = Off /\ me'.ws = me.ws /\ me'.paired = me.paired
        /\ me'.seat = me.seat /\ me'.ping = me.ping /\ me'.until = me.until
        /\ me'.resume = me.resume /\ me'.outbox = me.outbox
    BY <1>1, <1>4, TimesRight DEF MeFacts
  <2>2. Typed'
    BY <1>1, <1>4, <2>1 DEF Inv, Typed, page, Lasts
  <2>3. TimersRight' /\ SocketsRight' /\ SeatRight' /\ AwayIsTried' /\ FramesRight'
    BY <1>1, <1>4, <2>1
       DEF Inv, TimersRight, SocketsRight, NoSocketBehind, SeatRight, AwayIsTried, FramesRight, page
  <2> QED BY <1>4, <2>1, <2>2, <2>3
          DEF StepRight, LeftForGood, Inv, Link!LinkNext, Link!Quiet, ViewOf
<1> QED BY <1>2, <1>3, <1>4 DEF ConnectFired

\* The time for another try has come.
LEMMA ResumeRight ==
  ASSUME Inv, ResumeFired
  PROVE  StepRight
<1> DEFINE m == [me EXCEPT !.resume = Off]
<1>1. /\ me.resume = 0 /\ UNCHANGED page /\ me \in MeFacts
  BY DEF ResumeFired, Inv, Typed
<1>2. me.until # Off /\ me.seat /\ ~me.paired
  BY <1>1, TimesRight DEF Inv, SeatRight
<1>3. PICK i \in Free : Resume(m, i)
  BY DEF ResumeFired
<1>4. m \in MeFacts /\ m.seat /\ ~m.paired /\ m.until # Off /\ m.outbox = me.outbox
  BY <1>1, <1>2, TimesRight DEF MeFacts
<1>5. /\ wrote' = wrote /\ owed' = owed /\ hidden' \in BOOLEAN /\ sends' = sends
      /\ wakes' \in 0..MaxWakes
  BY <1>1 DEF page, Inv, Typed
<1> HIDE DEF m
<1> QED BY <1>2, <1>3, <1>4, <1>5, ResumesRight

\* A time in bounds stays so as it passes, and a timer that is set stays set.
LEMMA PassesRight ==
  ASSUME NEW limit \in Nat, NEW t \in Times(limit)
  PROVE  Passes(t) \in Times(limit) /\ (Passes(t) # Off <=> t # Off)
BY DEF Passes, Times, Off

\* A unit of time passes, and no timer.
LEMMA ElapsesRight ==
  ASSUME Inv, Elapse
  PROVE  StepRight
<1> DEFINE heard == IF me.heard = Off THEN me.heard ELSE Least(me.heard + 1, DEAD + 1)
<1>1. /\ me' = [me EXCEPT !.ping = Passes(me.ping), !.connect = Passes(me.connect),
                          !.resume = Passes(me.resume), !.until = Passes(me.until),
                          !.heard = heard]
      /\ said' = "none" /\ sock' = sock /\ UNCHANGED page /\ me \in MeFacts
  BY DEF Elapse, Inv, Typed
<1>2. heard \in Times(DEAD + 1)
  <2>1. me.heard \in Times(DEAD + 1) /\ DEAD \in Nat
    BY <1>1, MeTyped, PeerAssumption
  <2> QED BY <2>1 DEF Times, Off, Least
<1>3. /\ Passes(me.ping) \in Times(PING) /\ (Passes(me.ping) # Off <=> me.ping # Off)
      /\ Passes(me.connect) \in Times(CONNECT) /\ (Passes(me.connect) # Off <=> me.connect # Off)
      /\ Passes(me.resume) \in Times(RETRY_MAX) /\ (Passes(me.resume) # Off <=> me.resume # Off)
      /\ Passes(me.until) \in Times(Most(RESUME, RETRY_MAX))
      /\ Passes(me.until) # Off <=> me.until # Off
  BY <1>1, MeTyped, TimesRight, PassesRight
<1> HIDE DEF heard
<1>4. /\ me' \in MeFacts /\ me'.ping = Passes(me.ping) /\ me'.connect = Passes(me.connect)
      /\ me'.resume = Passes(me.resume) /\ me'.until = Passes(me.until) /\ me'.ws = me.ws
      /\ me'.paired = me.paired /\ me'.seat = me.seat /\ me'.outbox = me.outbox
  BY <1>1, <1>2, <1>3 DEF MeFacts
<1>5. Typed'
  BY <1>1, <1>4 DEF Inv, Typed, page, Lasts
<1>6. TimersRight' /\ SocketsRight' /\ SeatRight' /\ AwayIsTried' /\ FramesRight'
  BY <1>1, <1>3, <1>4
     DEF Inv, TimersRight, SocketsRight, NoSocketBehind, SeatRight, AwayIsTried, FramesRight, page
<1> QED BY <1>1, <1>4, <1>5, <1>6
        DEF StepRight, LeftForGood, Inv, Link!LinkNext, Link!Quiet, ViewOf

-----------------------------------------------------------------------------
(* What the shell reports *)

\* A socket opened: the link's, for no other was on its way.
LEMMA OpenedRight ==
  ASSUME Inv, NEW i \in Ids, Opened(i)
  PROVE  StepRight
<1>1. /\ sock[i].at = "connecting" /\ sock' = [sock EXCEPT ![i] = [sock[i] EXCEPT !.at = "open"]]
      /\ said' = "none" /\ me' = me /\ UNCHANGED page /\ sock \in [Ids -> SockFacts]
  BY DEF Opened, Inv, Typed
<1>2. me.ws = i
  BY <1>1 DEF Inv, SocketsRight, NoSocketBehind
<1> DEFINE s == [sock[i] EXCEPT !.at = "open"]
<1>3. s \in SockFacts /\ s.at = "open" /\ s.stage = sock[i].stage /\ s.asks = sock[i].asks
  BY <1>1 DEF SockFacts
<1> HIDE DEF s
<1>4. sock' \in [Ids -> SockFacts] /\ sock'[i] = s /\ \A j \in Ids : j # i => sock'[j] = sock[j]
  BY <1>1, <1>3 DEF s
<1>5. SocketsRight'
  BY <1>1, <1>2, <1>3, <1>4 DEF Inv, SocketsRight, NoSocketBehind
<1>6. Typed'
  BY <1>1, <1>4 DEF Inv, Typed, page, Lasts
<1>7. TimersRight' /\ SeatRight' /\ AwayIsTried' /\ FramesRight'
  BY <1>1 DEF Inv, TimersRight, SeatRight, AwayIsTried, FramesRight, page
<1>8. LeftForGood
  BY <1>3, <1>4 DEF LeftForGood
<1>9. Link!Quiet
  BY <1>1 DEF Link!Quiet, ViewOf
<1> QED BY <1>5, <1>6, <1>7, <1>8, <1>9 DEF StepRight, Inv, Link!LinkNext

\* The link dies, and nothing is told.
LEMMA DiesRight ==
  ASSUME Inv, NEW i \in Ids, Dies(i)
  PROVE  StepRight
<1>1. /\ me.ws = i /\ sock' = [sock EXCEPT ![i] = [sock[i] EXCEPT !.stage = "dead"]]
      /\ said' = "none" /\ me' = me /\ UNCHANGED page /\ sock \in [Ids -> SockFacts]
  BY DEF Dies, Ours, Inv, Typed
<1> DEFINE s == [sock[i] EXCEPT !.stage = "dead"]
<1>2. s \in SockFacts /\ s.at = sock[i].at /\ s.stage = "dead"
  BY <1>1 DEF SockFacts
<1> HIDE DEF s
<1>3. sock' \in [Ids -> SockFacts] /\ sock'[i] = s /\ \A j \in Ids : j # i => sock'[j] = sock[j]
  BY <1>1, <1>2 DEF s
<1>4. SocketsRight'
  BY <1>1, <1>2, <1>3 DEF Inv, SocketsRight, NoSocketBehind
<1>5. Typed'
  BY <1>1, <1>3 DEF Inv, Typed, page, Lasts
<1>6. TimersRight' /\ SeatRight' /\ AwayIsTried' /\ FramesRight'
  BY <1>1 DEF Inv, TimersRight, SeatRight, AwayIsTried, FramesRight, page
<1>7. LeftForGood
  BY <1>2, <1>3 DEF LeftForGood
<1>8. Link!Quiet
  BY <1>1 DEF Link!Quiet, ViewOf
<1> QED BY <1>4, <1>5, <1>6, <1>7, <1>8 DEF StepRight, Inv, Link!LinkNext

\* A socket closed: the link's, which is lost or fails, or one let go of before.
LEMMA ClosedRight ==
  ASSUME Inv, NEW i \in Ids, Closed(i)
  PROVE  StepRight
<1>1. /\ sock[i].at # "none" /\ sock' = [sock EXCEPT ![i] = NoSocket] /\ UNCHANGED page
      /\ me \in MeFacts /\ sock \in [Ids -> SockFacts] /\ NoSock \notin Ids
  BY PeerAssumption DEF Closed, Inv, Typed
<1>2. /\ NoSocket \in SockFacts /\ NoSocket.at = "none"
  BY DEF NoSocket, SockFacts
<1>3. /\ sock' \in [Ids -> SockFacts] /\ sock'[i].at = "none"
      /\ \A j \in Ids : j # i => sock'[j] = sock[j]
  BY <1>1, <1>2
<1>4. \A j \in Ids : sock[j].at \in {"connecting", "open"} => me.ws = j
  BY DEF Inv, SocketsRight, NoSocketBehind
<1>5. LeftForGood
  BY <1>3 DEF LeftForGood
<1>6. CASE Ours(i)
  <2>1. me.ws = i /\ me.ws # NoSock
    BY <1>1, <1>6 DEF Ours
  <2>2. /\ me' \in MeFacts /\ me'.ws = NoSock /\ said' \in Lasts
        /\ TimersRight' /\ SeatRight' /\ AwayIsTried' /\ FramesRight' /\ Link!LinkNext
    <3>1. CASE me.seat /\ Lose
      BY <1>1, <2>1, <3>1, LosesRight
    <3>2. CASE ~me.seat /\ Fail(IF me.paired \/ me.heard # Off THEN "lost" ELSE "network")
      <4> DEFINE reason == IF me.paired \/ me.heard # Off THEN "lost" ELSE "network"
      <4>1. reason \in {"network", "lost"} /\ (reason = "network" => ~me.paired)
        OBVIOUS
      <4>2. Fail(reason) /\ ~me.seat
        BY <3>2
      <4> HIDE DEF reason
      <4> QED BY <1>1, <2>1, <4>1, <4>2, FailsRight
    <3> QED BY <1>6, <3>1, <3>2 DEF Closed
  <2>3. SocketsRight'
    BY <1>3, <1>4, <2>1, <2>2 DEF SocketsRight, NoSocketBehind
  <2>4. Typed'
    BY <1>1, <1>3, <2>2 DEF Inv, Typed, page
  <2> QED BY <1>5, <2>2, <2>3, <2>4 DEF StepRight, Inv
<1>7. CASE ~Ours(i)
  <2>1. me.ws # i /\ said' = "none" /\ me' = me
    BY <1>7 DEF Closed, Ours
  <2>2. SocketsRight'
    <3>1. NoSocketBehind'
      BY <1>3, <1>4, <2>1 DEF NoSocketBehind
    <3>2. me.ws # NoSock => sock'[me.ws] = sock[me.ws]
      BY <1>1, <1>3, <2>1, MeTyped
    <3> QED BY <2>1, <3>1, <3>2 DEF Inv, SocketsRight
  <2>3. Typed'
    BY <1>1, <1>3, <2>1 DEF Inv, Typed, page, Lasts
  <2>4. TimersRight' /\ SeatRight' /\ AwayIsTried' /\ FramesRight'
    BY <1>1, <2>1 DEF Inv, TimersRight, SeatRight, AwayIsTried, FramesRight, page
  <2>5. Link!Quiet
    BY <2>1 DEF Link!Quiet, ViewOf
  <2> QED BY <1>5, <2>2, <2>3, <2>4, <2>5 DEF StepRight, Inv, Link!LinkNext
<1> QED BY <1>6, <1>7

\* What the relay says fits how far the socket is.
LEMMA RelaySays ==
  ASSUME NEW i \in Ids, NEW a \in Says(i)
  PROVE  /\ sock[i].at \in {"open", "left", "kept"} /\ a[2] \in {"hosted", "on", "over"}
         /\ a[1] \in {"hosting", "open", "seated", "resumed", "closed", "data",
                      "friendAway", "friendBack", "pong"}
         /\ a[1] = "closed" <=> a[2] = "over"
         /\ a[1] = "hosting" =>
              /\ \/ sock[i].stage = "fresh" /\ sock[i].asks = "host"
                 \/ sock[i].stage = "hosted"
              /\ a[2] = "hosted"
         /\ a[1] \in {"open", "seated"} =>
              /\ \/ sock[i].stage = "fresh" /\ sock[i].asks = "join"
                 \/ sock[i].stage = "hosted"
              /\ a[2] = "on"
         /\ a[1] = "resumed" => /\ sock[i].stage = "fresh" /\ sock[i].asks = "back"
                                /\ a[2] = "on"
         /\ a[1] \in {"data", "friendAway", "friendBack"} => sock[i].stage = "on" /\ a[2] = "on"
         /\ a[1] = "pong" => sock[i].stage = a[2]
<1>1. sock[i].at \in {"open", "left", "kept"}
  BY DEF Says
<1>2. \/ sock[i].stage = "fresh" /\ sock[i].asks \in {"host", "join", "back"}
      \/ sock[i].stage \in {"hosted", "on"}
  BY <1>1 DEF Says
<1>3. CASE sock[i].stage = "fresh" /\ sock[i].asks = "host"
  BY <1>1, <1>3 DEF Says
<1>4. CASE sock[i].stage = "fresh" /\ sock[i].asks = "join"
  BY <1>1, <1>4 DEF Says
<1>5. CASE sock[i].stage = "fresh" /\ sock[i].asks = "back"
  BY <1>1, <1>5 DEF Says
<1>6. CASE sock[i].stage = "hosted"
  BY <1>1, <1>6 DEF Says
<1>7. CASE sock[i].stage = "on"
  BY <1>1, <1>7 DEF Says
<1> QED BY <1>2, <1>3, <1>4, <1>5, <1>6, <1>7

\* A frame over the link's socket, in what it changes of the machine's fields.
LEMMA ReceivesRight ==
  ASSUME Inv, NEW i \in Ids, me.ws = i, NEW a \in Says(i), Receive(i, a[1]),
         sock' = [sock EXCEPT ![i].stage = a[2], ![i].at = IF a[1] = "closed" THEN "left" ELSE @],
         wakes' \in 0..MaxWakes, UNCHANGED <<hidden, sends, owed>>
  PROVE  StepRight
<1> DEFINE m == [me EXCEPT !.heard = 0]
<1> DEFINE at == IF a[1] = "closed" THEN "left" ELSE sock[i].at
<1> DEFINE s == [sock[i] EXCEPT !.stage = a[2], !.at = at]
<1>1. /\ me \in MeFacts /\ sock \in [Ids -> SockFacts] /\ NoSock \notin Ids
      /\ wrote \o me.outbox = owed /\ me.outbox \in Outboxes /\ wrote \in Numbers
  BY MeTyped, PeerAssumption DEF Inv, Typed, FramesRight
<1>2. /\ sock[i].at = "open"
      /\ a[1] \in {"open", "seated", "hosting"} => ~me.seat /\ ~me.paired
      /\ a[1] = "resumed" => me.seat /\ ~me.paired
      /\ a[1] \in {"data", "friendAway", "friendBack"} => me.paired
      /\ a[1] = "pong" => (a[2] = "on" => me.paired) /\ (a[2] = "hosted" => ~me.paired /\ ~me.seat)
  BY <1>1, RelaySays DEF Inv, SocketsRight
<1>3. /\ m \in MeFacts /\ m.ws = i /\ m.paired = me.paired /\ m.seat = me.seat
      /\ m.ping = me.ping /\ m.connect = me.connect /\ m.until = me.until
      /\ m.resume = me.resume /\ m.outbox = me.outbox
  BY <1>1, TimesRight DEF MeFacts
<1>4. /\ s \in SockFacts /\ s.stage = a[2] /\ s.at = at /\ at \in {"open", "left"}
      /\ at = "open" <=> a[1] # "closed"
  <2>1. /\ at \in {"open", "left"} /\ (at = "open" <=> a[1] # "closed")
        /\ sock[i] \in SockFacts
    BY <1>1, <1>2
  <2>2. a[2] \in {"hosted", "on", "over"}
    BY RelaySays
  <2> HIDE DEF at
  <2> QED BY <2>1, <2>2 DEF SockFacts
<1>5. sock' \in [Ids -> SockFacts] /\ sock'[i] = s /\ \A j \in Ids : j # i => sock'[j] = sock[j]
  <2>1. sock' = [sock EXCEPT ![i] = s]
    BY <1>1
  <2> QED BY <1>1, <1>4, <2>1
<1>6. \A j \in Ids : sock[j].at \in {"connecting", "open"} => i = j
  BY DEF Inv, SocketsRight, NoSocketBehind
<1> HIDE DEF m, at, s
<1>7. CASE a[1] = "closed"
  <2>1. me' = DropWs(Forget(m)) /\ said' = "relay" /\ wrote' = wrote
    BY <1>7 DEF Receive, m
  <2>2. /\ me' \in MeFacts /\ me'.ws = NoSock /\ ~me'.paired /\ ~me'.seat /\ me'.until = Off
        /\ me'.resume = Off /\ me'.ping = Off /\ me'.connect = Off /\ me'.outbox = <<>>
    BY <1>3, <2>1, Forgets, Drops
  <2>3. \A j \in Ids : sock'[j].at \notin {"connecting", "open"}
    BY <1>4, <1>5, <1>6, <1>7
  <2>4. SocketsRight' /\ LeftForGood
    BY <2>2, <2>3 DEF SocketsRight, NoSocketBehind, LeftForGood
  <2>5. Typed'
    BY <1>5, <2>1, <2>2 DEF Inv, Typed, Lasts
  <2>6. TimersRight' /\ SeatRight' /\ AwayIsTried' /\ FramesRight'
    BY <2>2 DEF TimersRight, SeatRight, AwayIsTried, FramesRight
  <2>7. Link!Ends
    BY <1>1, <2>1, <2>2 DEF Link!Ends, Link!Goes, ViewOf
  <2> QED BY <2>4, <2>5, <2>6, <2>7 DEF StepRight, Inv, Link!LinkNext
<1>8. CASE a[1] # "closed"
  <2>1. \A j \in Ids : sock'[j].at \in {"connecting", "open"} => i = j
    BY <1>4, <1>5, <1>6, <1>8
  <2>2. sock'[i].at = "open" /\ sock'[i].stage = a[2] /\ a[2] \in {"hosted", "on"} /\ LeftForGood
    BY <1>4, <1>5, <1>8, RelaySays DEF LeftForGood
  <2>3. CASE a[1] \in {"pong", "data", "hosting", "friendAway", "friendBack"}
    <3>1. /\ me' = m /\ wrote' = wrote
          /\ said' = IF a[1] = "pong" THEN "none" ELSE IF a[1] = "data" THEN "message" ELSE a[1]
      BY <1>2, <2>3 DEF Receive, m
    <3>2. a[2] = "on" => me.paired
      BY <1>2, <2>3, RelaySays
    <3>3. a[2] = "hosted" => ~me.paired /\ ~me.seat
      BY <1>2, <2>3, RelaySays
    <3>4. SocketsRight'
      BY <1>1, <1>3, <2>1, <2>2, <3>1, <3>2, <3>3 DEF SocketsRight, NoSocketBehind
    <3>5. said' \in Lasts
      BY <2>3, <3>1 DEF Lasts
    <3>6. Typed'
      BY <1>3, <1>5, <3>1, <3>5 DEF Inv, Typed
    <3>7. TimersRight' /\ SeatRight' /\ AwayIsTried' /\ FramesRight'
      BY <1>3, <3>1 DEF Inv, TimersRight, SeatRight, AwayIsTried, FramesRight
    <3>8. ViewOf' = ViewOf
      BY <1>3, <3>1 DEF ViewOf
    <3>9. Link!LinkNext
      <4>1. CASE a[1] = "hosting"
        <5>1. ViewOf = "waiting"
          BY <1>1, <1>2, <4>1 DEF ViewOf
        <5> QED BY <3>1, <3>8, <4>1, <5>1 DEF Link!LinkNext, Link!Hosting, Link!Goes
      <4>2. CASE a[1] \in {"data", "friendAway", "friendBack"}
        <5>1. ViewOf = "on"
          BY <1>2, <4>2 DEF ViewOf
        <5> QED BY <3>1, <3>8, <4>2, <5>1
                DEF Link!LinkNext, Link!Message, Link!FriendGoes, Link!FriendComes, Link!Goes
      <4>3. CASE a[1] = "pong"
        BY <3>1, <3>8, <4>3 DEF Link!LinkNext, Link!Quiet
      <4> QED BY <2>3, <4>1, <4>2, <4>3
    <3> QED BY <2>2, <3>4, <3>6, <3>7, <3>9 DEF StepRight, Inv
  <2>4. CASE a[1] \in {"open", "seated"}
    <3>1. /\ me' = [m EXCEPT !.paired = TRUE, !.seat = m.seat \/ a[1] = "seated"]
          /\ said' = "open" /\ wrote' = wrote
      BY <2>4 DEF Receive, m
    <3>2. /\ me' \in MeFacts /\ me'.ws = i /\ me'.paired /\ me'.ping = me.ping
          /\ me'.connect = me.connect /\ me'.until = me.until
          /\ me'.resume = me.resume /\ me'.outbox = me.outbox
      BY <1>3, <3>1 DEF MeFacts
    <3>3. /\ ~me.seat /\ ~me.paired /\ me.until = Off /\ me.resume = Off /\ me.outbox = <<>>
          /\ a[2] = "on"
      BY <1>2, <2>4, RelaySays DEF Inv, SeatRight, FramesRight
    <3>4. SocketsRight'
      BY <1>1, <2>1, <2>2, <3>2, <3>3 DEF SocketsRight, NoSocketBehind
    <3>5. Typed'
      BY <1>5, <3>1, <3>2 DEF Inv, Typed, Lasts
    <3>6. TimersRight' /\ SeatRight' /\ AwayIsTried' /\ FramesRight'
      BY <1>1, <3>1, <3>2, <3>3 DEF Inv, TimersRight, SeatRight, AwayIsTried, FramesRight
    <3>7. Link!Open
      BY <1>1, <3>1, <3>2, <3>3 DEF Link!Open, Link!Goes, ViewOf
    <3> QED BY <2>2, <3>4, <3>5, <3>6, <3>7 DEF StepRight, Inv, Link!LinkNext
  <2>5. CASE a[1] = "resumed"
    <3>1. /\ me' = [m EXCEPT !.paired = TRUE, !.until = Off, !.resume = Off, !.handle = FALSE,
                             !.outbox = <<>>]
          /\ said' = "back" /\ wrote' = wrote \o me.outbox
      BY <2>5 DEF Receive, m
    <3>2. /\ me' \in MeFacts /\ me'.ws = i /\ me'.paired /\ me'.seat = me.seat
          /\ me'.ping = me.ping /\ me'.connect = me.connect /\ me'.until = Off
          /\ me'.resume = Off /\ me'.outbox = <<>>
      BY <1>3, <3>1, TimesRight, NothingKept DEF MeFacts
    <3>3. me.seat /\ ~me.paired /\ a[2] = "on"
      BY <1>2, <2>5, RelaySays
    <3>4. wrote' \in Numbers /\ wrote' \o <<>> = wrote' /\ wrote' = owed
      <4>1. wrote \in Seq(1..MaxSends) /\ me.outbox \in Seq(1..MaxSends)
        BY <1>1 DEF Numbers, Outboxes
      <4>2. wrote \o me.outbox \in Seq(1..MaxSends)
        BY <4>1, ConcatProperties
      <4>3. (wrote \o me.outbox) \o <<>> = wrote \o me.outbox
        BY <4>2, ConcatEmptySeq
      <4> QED BY <1>1, <3>1, <4>2, <4>3 DEF Numbers
    <3>5. SocketsRight'
      BY <1>1, <2>1, <2>2, <3>2, <3>3 DEF SocketsRight, NoSocketBehind
    <3>6. Typed'
      BY <1>5, <3>1, <3>2, <3>4 DEF Inv, Typed, Lasts
    <3>7. TimersRight' /\ SeatRight' /\ AwayIsTried' /\ FramesRight'
      BY <1>1, <3>2, <3>3, <3>4 DEF Inv, TimersRight, SeatRight, AwayIsTried, FramesRight
    <3>8. Link!Back
      BY <3>1, <3>2, <3>3 DEF Link!Back, Link!Goes, ViewOf
    <3> QED BY <2>2, <3>5, <3>6, <3>7, <3>8 DEF StepRight, Inv, Link!LinkNext
  <2> QED BY <1>8, <2>3, <2>4, <2>5, RelaySays
<1> QED BY <1>7, <1>8

\* A frame over the link's socket, or over one let go of, which changes nothing.
LEMMA MessageRight ==
  ASSUME Inv, NEW i \in Ids, Message(i)
  PROVE  StepRight
<1>1. PICK a \in Says(i) :
        /\ \/ /\ Ours(i) /\ Receive(i, a[1])
              /\ sock' = [sock EXCEPT ![i].stage = a[2],
                                      ![i].at = IF a[1] = "closed" THEN "left" ELSE @]
           \/ ~Ours(i) /\ said' = "none" /\ UNCHANGED <<me, sock, wrote>>
        /\ wakes' = IF a[1] = "resumed" /\ Ours(i) THEN 0 ELSE wakes
  BY DEF Message
<1>2. UNCHANGED <<hidden, sends, owed>> /\ hidden \in BOOLEAN /\ wakes' \in 0..MaxWakes
  BY <1>1, PeerAssumption DEF Message, Inv, Typed
<1>3. CASE Ours(i)
  <2>1. /\ me.ws = i /\ Receive(i, a[1])
        /\ sock' = [sock EXCEPT ![i].stage = a[2],
                                ![i].at = IF a[1] = "closed" THEN "left" ELSE @]
    BY <1>1, <1>3 DEF Ours
  <2> QED BY <1>2, <2>1, ReceivesRight
<1>4. CASE ~Ours(i)
  <2>1. said' = "none" /\ UNCHANGED <<me, sock, wrote>>
    BY <1>1, <1>4
  <2>2. me.seat /\ ~me.paired => hidden \/ me.ws # NoSock \/ me.resume # Off
    BY DEF Inv, AwayIsTried
  <2> QED BY <1>2, <2>1, <2>2, QuietRight
<1> QED BY <1>3, <1>4

-----------------------------------------------------------------------------
(* The invariant, and what follows *)

LEMMA Starts == PeerInit => Inv /\ Link!LinkInit
<1> SUFFICES ASSUME PeerInit PROVE Inv /\ Link!LinkInit
  OBVIOUS
<1>1. me = New /\ sock = [i \in Ids |-> NoSocket] /\ said = "none" /\ hidden = FALSE
  BY DEF PeerInit
<1>2. New \in MeFacts
  BY NothingKept, TimesRight DEF New, MeFacts
<1>3. /\ New.ws = NoSock /\ ~New.paired /\ ~New.seat /\ New.ping = Off /\ New.connect = Off
      /\ New.until = Off /\ New.resume = Off /\ New.outbox = <<>>
  BY DEF New
<1>4. NoSocket \in SockFacts /\ NoSocket.at = "none"
  BY DEF NoSocket, SockFacts
<1>5. Typed
  <2>1. me \in MeFacts /\ sock \in [Ids -> SockFacts] /\ said \in Lasts /\ hidden \in BOOLEAN
    BY <1>1, <1>2, <1>4 DEF Lasts
  <2>2. sends = 0 /\ wakes = 0 /\ wrote = <<>> /\ owed = <<>>
    BY DEF PeerInit
  <2>3. 0 \in 0..MaxSends /\ 0 \in 0..MaxWakes
    BY PeerAssumption
  <2> QED BY <2>1, <2>2, <2>3, NothingKept DEF Typed
<1>6. SocketsRight
  BY <1>1, <1>3, <1>4 DEF SocketsRight, NoSocketBehind
<1>7. TimersRight /\ SeatRight /\ AwayIsTried /\ FramesRight
  BY <1>1, <1>3 DEF TimersRight, SeatRight, AwayIsTried, FramesRight
<1>8. Link!LinkInit
  BY <1>1, <1>3 DEF Link!LinkInit, ViewOf
<1> QED BY <1>5, <1>6, <1>7, <1>8 DEF Inv

\* Every step: one lemma for each call, timer and report.
LEMMA StepsRight == Inv /\ PeerNext => StepRight
<1> SUFFICES ASSUME Inv, PeerNext PROVE StepRight
  OBVIOUS
<1>1. CASE \E what \in {"host", "join"} : Begin(what)
  BY <1>1, BeginsRight
<1>2. CASE Send \/ Close \/ StepAway \/ ComeBack \/ RetryNow
  BY <1>2, SendsRight, ClosesRight, StepAwayRight, ComeBackRight, RetriesRight
<1>3. CASE Fire
  BY <1>3, PingRight, ConnectRight, ResumeRight DEF Fire
<1>4. CASE Elapse
  BY <1>4, ElapsesRight
<1>5. CASE \E i \in Ids : Opened(i) \/ Closed(i) \/ Dies(i) \/ Message(i)
  BY <1>5, OpenedRight, ClosedRight, DiesRight, MessageRight
<1> QED BY <1>1, <1>2, <1>3, <1>4, <1>5 DEF PeerNext

LEMMA StuttersRight == Inv /\ UNCHANGED peerVars => Inv' /\ UNCHANGED <<ViewOf, said>>
<1> SUFFICES ASSUME Inv, UNCHANGED peerVars PROVE Inv' /\ UNCHANGED <<ViewOf, said>>
  OBVIOUS
<1> USE DEF peerVars
<1>1. Typed'
  BY DEF Inv, Typed
<1>2. TimersRight' /\ SocketsRight' /\ SeatRight' /\ AwayIsTried' /\ FramesRight'
  BY DEF Inv, TimersRight, SocketsRight, NoSocketBehind, SeatRight, AwayIsTried, FramesRight
<1> QED BY <1>1, <1>2 DEF Inv, ViewOf

(***************************************************************************)
(* The inductive invariant: the link's socket, how far it is with the      *)
(* relay, the seat, the timers and the frames kept agree with one another  *)
(* after every call, timer and report.                                     *)
(***************************************************************************)
THEOREM PeerInvariant == PeerSpec => []Inv
<1>1. PeerInit => Inv
  BY Starts
<1>2. Inv /\ [PeerNext]_peerVars => Inv'
  BY StepsRight, StuttersRight DEF StepRight
<1> QED BY <1>1, <1>2, PTL DEF PeerSpec

(***************************************************************************)
(* Nothing the machine has let go is left open, and a seat that is away is *)
(* tried for, whatever sockets, timers and calls there are.                *)
(***************************************************************************)
THEOREM LinkStaysInPlace == PeerSpec => []LinkInPlace
<1>1. Inv => LinkInPlace
  <2> SUFFICES ASSUME Inv PROVE LinkInPlace
    OBVIOUS
  <2>1. NoSocketBehind /\ AwayIsTried /\ Typed /\ TimersRight
    BY DEF Inv, SocketsRight
  <2>2. me \in MeFacts
    BY <2>1 DEF Typed
  <2>3. me.outbox \in Numbers /\ Len(me.outbox) <= MAX_OUTBOX
    BY <2>2, MeTyped DEF Outboxes
  <2>4. PeerTypeOK
    BY <2>1, <2>2, <2>3, MeTyped DEF Typed, TimersRight, PeerTypeOK
  <2> QED BY <2>1, <2>4 DEF LinkInPlace
<1> QED BY <1>1, PeerInvariant, PTL

(***************************************************************************)
(* What the page sent and the machine took is written or kept, in order,   *)
(* none twice and none missing, over however many sockets.                 *)
(***************************************************************************)
THEOREM NoFrameIsLost == PeerSpec => []FramesKept
<1>1. Inv => FramesKept
  BY DEF Inv, FramesRight, FramesKept
<1> QED BY <1>1, PeerInvariant, PTL

(***************************************************************************)
(* A live socket is closed with 1000 only when this side has no seat to go *)
(* back to and nothing left to send.                                       *)
(***************************************************************************)
THEOREM SeatsAreLeftForGood == PeerSpec => LeavesForGood
<1>1. Inv /\ [PeerNext]_peerVars => [LeftForGood]_peerVars
  BY StepsRight DEF StepRight
<1> QED BY <1>1, PeerInvariant, PTL DEF PeerSpec, LeavesForGood, LeftForGood

(***************************************************************************)
(* The refinement: every call, timer and report is a step of the link that *)
(* PageLink promises the page, or is nothing to it.                        *)
(***************************************************************************)
THEOREM LinkAsPromised == PeerSpec => ImplementsLink
<1>1. PeerInit => Link!LinkInit
  BY Starts
<1>2. Inv /\ [PeerNext]_peerVars => [Link!LinkNext]_<<ViewOf, said>>
  BY StepsRight, StuttersRight DEF StepRight
<1> QED BY <1>1, <1>2, PeerInvariant, PTL DEF PeerSpec, ImplementsLink, Link!LinkSpec, Link!linkVars
=============================================================================
