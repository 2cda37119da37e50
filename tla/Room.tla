-------------------------------- MODULE Room --------------------------------
(***************************************************************************)
(* One room of the relay (relay/src/index.js, class Room, and seats.js): a  *)
(* host waits, a guest joins, each side's messages pass to the other, and a *)
(* side whose link drops has its seat held, with what is sent to it kept,   *)
(* until it is back or its time is up.  A handler that only awaits the      *)
(* room's own storage is one action; the four that await a call to the      *)
(* game's list (/open its add; /enter, leave and alarm the remove of        *)
(* unlist) are two, and anything may happen in between; either call may     *)
(* fail, which the code swallows, and they may overtake each other.         *)
(* Sockets, players and the alarm are the environment as the room sees it.  *)
(***************************************************************************)
EXTENDS Integers, Sequences, FiniteSets, Functions

CONSTANTS
  Links,       \* the websockets to this room
  Wait,        \* WAIT_MS, in ticks
  Grace,       \* GRACE_MS
  MaxQueued,   \* MAX_QUEUED
  MaxMsgs,     \* bound: the messages the two players send
  Nobody, Unset, Here

ASSUME RoomAssumption ==
  /\ {Wait, Grace, MaxQueued, MaxMsgs} \subseteq Nat /\ Grace > 0 /\ MaxQueued > 0
  /\ Nobody \notin Links
  /\ Unset \notin Int /\ Here \notin Int

Sides == {"host", "guest"}
Other(side) == IF side = "host" THEN "guest" ELSE "host"

VARIABLES
  kind,      \* "none" until it is opened; "listed" in its game's list, or "code" only
  resume,    \* the host can take a seat back (resume=1)
  listed,    \* the game's list shows it
  adding,    \* /open's add is on its way to the list
  missed,    \* unlist's remove failed, or was there before the add (no variable of the source)
  link,      \* the websockets
  entering,  \* the guests whose /enter is at its unlist, each with the host it found
  expiring,  \* the hosts whose alarm is at its unlist
  seats,     \* the paired players' seats are kept
  away,      \* how long ago each side's link dropped, or Here
  queue,     \* what is kept for a side that is away
  ended,     \* why the last game ended, for those who come back
  alarm,     \* ticks until the room's alarm, or Unset
  token,     \* the sides whose player has a seat's token
  sent,      \* how many messages each side's player has sent
  heard,     \* the messages each side's player has heard, by number
  kept       \* the messages put by for each side in this game (no variable of the source)

game   == <<seats, away, queue, ended, alarm>>
player == <<token, sent, heard, kept>>
tasks  == <<entering, expiring>>
list   == <<listed, adding, missed>>
roomVars == <<kind, resume, list, link, tasks, game, player>>

-----------------------------------------------------------------------------
(* Links *)

\* at: "open" both ways; "lost" to its player, not yet to the room; "closing", closed by
\* the room and not yet by its player; "leaving", closed by its player, in leave's unlist
NoLink == [at |-> "none", side |-> "host", meta |-> FALSE, replaced |-> FALSE,
           opened |-> FALSE, sees |-> "here", told |-> "nothing"]

\* readyState OPEN
Open(l) == link[l].at \in {"open", "lost"}
LiveOn(side) == {l \in Links : Open(l) /\ link[l].side = side}
Live(side) == LiveOn(side) # {}

Accept(l, side, meta) == [NoLink EXCEPT !.at = "open", !.side = side, !.meta = meta]

\* opened: its player heard `open`; sees: the last of `open`, `away` and `back` they heard;
\* told: why the room closed it

\* a link not yet used, and that no handler still holds from before
Fresh(l) ==
  /\ link[l] = NoLink /\ entering[l] = Nobody /\ l \notin expiring
  /\ \A g \in Links : entering[g] # l

\* the room says why and closes
Closed(lk, why) == [lk EXCEPT !.at = "closing", !.told = why]

\* whose players hear, when the room closes the links of L, that it is over
Hearing(L) == {link[l].side : l \in {k \in L : link[k].at = "open"}}

NoQueue == [side \in Sides |-> <<>>]
AllHere == [side \in Sides |-> Here]

\* end(reason): the game is over and a player coming back hears why, for a while
End(reason) ==
  /\ seats' = FALSE /\ away' = AllHere /\ queue' = NoQueue
  /\ ended' = reason /\ alarm' = Grace

\* leave's end: the other side hears why, its link is closed, and so is this one
Goodbye(l, reason) ==
  LET others == LiveOn(Other(link[l].side)) IN
  /\ link' = [k \in Links |-> IF k = l THEN NoLink
                              ELSE IF k \in others THEN Closed(link[k], reason) ELSE link[k]]
  /\ token' = token \ Hearing(others)

\* leave(ws, reason): a host leaving before anyone joined takes its room off the list first
Leave(l, reason) ==
  /\ \/ seats /\ End(reason)
     \/ ~seats /\ UNCHANGED game
  /\ \/ /\ link[l].side = "host" /\ ~Live("guest") /\ link[l].meta
        /\ link' = [link EXCEPT ![l].at = "leaving", ![l].told = reason]
        /\ token' = token
     \/ /\ link[l].side = "guest" \/ Live("guest") \/ ~link[l].meta
        /\ Goodbye(l, reason)

\* unlist: the remove is done, or fails and is let be; an add still on its way comes after it
Unlisted ==
  /\ listed' \in {FALSE, listed}
  /\ missed' = (missed \/ listed' \/ adding)
  /\ adding' = adding

LeaveDone(l) ==
  /\ link[l].at = "leaving"
  /\ Unlisted
  /\ Goodbye(l, link[l].told)
  /\ UNCHANGED <<kind, resume, tasks, game, sent, heard, kept>>

-----------------------------------------------------------------------------
(* Opening, joining, pairing *)

\* /open, up to its add, or /host for a code-only room
OpenRoom(l, k, res) ==
  /\ kind = "none" /\ kind' = k /\ resume' = res /\ adding' = (k = "listed")
  /\ link' = [link EXCEPT ![l] = Accept(l, "host", k = "listed")]
  /\ ended' = "nothing" /\ alarm' = Wait
  /\ UNCHANGED <<listed, missed, seats, away, queue, tasks, player>>

\* /open's add: it puts the room on the list, or fails and the room does without
Added ==
  /\ adding /\ adding' = FALSE
  /\ listed' \in BOOLEAN
  /\ UNCHANGED <<kind, resume, missed, link, tasks, game, player>>

\* the list lets an entry go when its time is up or newer ones push it out
ListDrops ==
  /\ listed /\ listed' = FALSE
  /\ UNCHANGED <<kind, resume, adding, missed, link, tasks, game, player>>

\* pair: seats for both only when both can take one back.  A send to a link the room has
\* closed fails, and nothing after it runs
Pair(host, guest, res) ==
  LET hostHears  == Open(host)
      guestHears == hostHears /\ Open(guest)
  IN
  /\ \/ res /\ seats' = TRUE /\ away' = AllHere /\ UNCHANGED <<queue, ended>>
     \/ ~res /\ UNCHANGED <<seats, away, queue, ended>>
  /\ link' = [link EXCEPT
       ![host].opened = @ \/ (hostHears /\ link[host].at = "open"),
       ![guest].opened = @ \/ (guestHears /\ link[guest].at = "open"),
       ![guest].at = IF guestHears \/ @ # "open" THEN @ ELSE "lost"]
  /\ token' = token \cup {side \in Sides : res /\
       \/ side = "host" /\ hostHears /\ link[host].at = "open"
       \/ side = "guest" /\ guestHears /\ link[guest].at = "open"}

\* /enter, up to its unlist (the code is checked in Codes)
Enter(g) ==
  \E host \in LiveOn("host") :
    /\ Fresh(g) /\ kind = "listed" /\ link[host].meta
    /\ ~Live("guest") /\ ~seats
    /\ link' = [link EXCEPT ![g] = Accept(g, "guest", FALSE)]
    /\ entering' = [entering EXCEPT ![g] = host]
    /\ alarm' = Unset
    /\ UNCHANGED <<kind, resume, list, expiring, seats, away, queue, ended, player>>

Entered(g, res) ==
  /\ entering[g] # Nobody
  /\ entering' = [entering EXCEPT ![g] = Nobody]
  /\ Unlisted
  /\ Pair(entering[g], g, resume /\ res)
  /\ UNCHANGED <<kind, resume, expiring, alarm, sent, heard, kept>>

\* /guest, of a code-only room: nothing to unlist
Guest(g, res) ==
  \E host \in LiveOn("host") :
    /\ Fresh(g) /\ kind = "code" /\ ~Live("guest") /\ ~seats
    /\ alarm' = Unset
    /\ \/ /\ resume /\ res
          /\ seats' = TRUE /\ away' = AllHere
          /\ token' = token \cup {"guest"} \cup Hearing({host})
       \/ ~(resume /\ res) /\ UNCHANGED <<seats, away, token>>
    /\ link' = [link EXCEPT ![g] = [Accept(g, "guest", FALSE) EXCEPT !.opened = TRUE],
                            ![host].opened = (link[host].at = "open")]
    /\ UNCHANGED <<kind, resume, list, tasks, queue, ended, sent, heard, kept>>

-----------------------------------------------------------------------------
(* Playing *)

\* the links of a side that its player still hears on
Hears(side) == {l \in Links : link[l].at = "open" /\ link[l].side = side}
Waiting(side) == seats /\ away[side] # Here

\* enqueue: the oldest go when there are too many
Newest(q) == SubSeq(q, Len(q) - MaxQueued + 1, Len(q))
Enqueue(q, n) == IF Len(q) < MaxQueued THEN Append(q, n) ELSE Newest(Append(q, n))

\* webSocketMessage: passed on, or kept for a player who is away, or dropped
Message(l) ==
  LET me == link[l].side
      them == Other(me)
      n == sent[me] + 1
      put == Enqueue(queue[them], n)
  IN
  /\ link[l].at = "open" /\ link[l].opened /\ n + sent[them] <= MaxMsgs
  /\ sent' = [sent EXCEPT ![me] = n]
  /\ heard' = IF Hears(them) # {} THEN [heard EXCEPT ![them] = Append(@, n)] ELSE heard
  /\ \/ /\ ~Live(them) /\ Waiting(them)
        /\ queue' = [queue EXCEPT ![them] = put]
        /\ kept' = [kept EXCEPT ![them] =
                      (@ \cup {n}) \ (Range(queue[them]) \ Range(put))]
     \/ /\ Live(them) \/ ~Waiting(them)
        /\ UNCHANGED <<queue, kept>>
  /\ UNCHANGED <<kind, resume, list, link, tasks, seats, away, ended, alarm, token>>

\* overdue: who has been away too long, and when the next one will have been
Gone(aw) == {s \in Sides : aw[s] # Here /\ aw[s] >= Grace}
NextOverdue(aw) ==
  LET left == {Grace - aw[s] : s \in {t \in Sides : aw[t] # Here} \ Gone(aw)}
  IN IF left = {} THEN Unset ELSE CHOOSE n \in left : \A m \in left : n <= m

\* mutant: nobody is told
HearsNothing(lk) == lk
\* the player on the other side hears `away`
HearsAway(lk) == [lk EXCEPT !.sees = "away"]

\* mutant: drop sets no alarm
AlarmLeft(aw) == alarm
AlarmDrop(aw) == NextOverdue(aw)

\* drop(ws): the seat is held and the other side told; with no seats it ends the game
Drop(l) ==
  LET side == link[l].side
      away2 == [away EXCEPT ![side] = 0]
  IN
  \/ ~seats /\ Leave(l, "lost")
  \/ /\ seats /\ LiveOn(side) \ {l} # {}   \* a newer link already holds this seat
     /\ link' = [link EXCEPT ![l] = NoLink]
     /\ UNCHANGED <<game, token>>
  \/ /\ seats /\ LiveOn(side) \ {l} = {}
     /\ away' = away2 /\ alarm' = AlarmDrop(away2)
     /\ link' = [k \in Links |-> IF k = l THEN NoLink
                                 ELSE IF k \in Hears(Other(side)) THEN HearsAway(link[k])
                                 ELSE link[k]]
     /\ UNCHANGED <<seats, queue, ended, token>>

\* webSocketClose and webSocketError, of a link whose player is gone without a word
NoticeLost(l) ==
  /\ link[l].at = "lost" /\ entering[l] = Nobody
  /\ Drop(l)
  /\ UNCHANGED <<kind, resume, list, tasks, sent, heard, kept>>

\* webSocketClose: its player chose to leave
PlayerLeaves(l) ==
  /\ link[l].at = "open" /\ entering[l] = Nobody
  /\ Leave(l, "bye")
  /\ UNCHANGED <<kind, resume, list, tasks, sent, heard, kept>>

\* webSocketClose, after the room closed it: as its player closed it too, or as it was
\* lost (one whose /enter never answers is lost then, and not before)
CloseDone(l) ==
  /\ link[l].at = "closing" /\ entering[l] = Nobody
  /\ \/ link[l].replaced /\ link' = [link EXCEPT ![l] = NoLink] /\ UNCHANGED <<game, token>>
     \/ ~link[l].replaced /\ Leave(l, "bye")
     \/ ~link[l].replaced /\ Drop(l)
  /\ UNCHANGED <<kind, resume, list, tasks, sent, heard, kept>>

\* mutant: it ends the game when it closes
JustClosed(lk) == [lk EXCEPT !.at = "closing"]
Replaced(lk) == [lk EXCEPT !.at = "closing", !.replaced = TRUE]

\* mutant: what is kept is let go and not sent
LetGo(side) == queue' = [queue EXCEPT ![side] = <<>>] /\ heard' = heard
HandOver(side) ==
  /\ heard' = [heard EXCEPT ![side] = @ \o queue[side]]
  /\ queue' = [queue EXCEPT ![side] = <<>>]

\* mutant: whoever else is away
NoAlarm(them) == Unset
\* nobody is away now, unless the other side is
AlarmBack(them) == IF away[them] = Here THEN Unset ELSE alarm

\* /back with a seat's token: this link takes over from an old one not noticed dead yet
Back(l, side) ==
  LET them == Other(side) IN
  /\ Fresh(l) /\ side \in token /\ Hears(side) = {} /\ seats
  /\ away' = [away EXCEPT ![side] = Here]
  /\ alarm' = AlarmBack(them)
  /\ HandOver(side)
  /\ link' = [k \in Links |->
       IF k = l THEN [Accept(l, side, FALSE) EXCEPT !.opened = TRUE,
                                                    !.sees = IF Live(them) THEN "here" ELSE "away"]
       ELSE IF k \in LiveOn(side) THEN Replaced(link[k])
       ELSE IF k \in Hears(them) THEN [link[k] EXCEPT !.sees = "here"] ELSE link[k]]
  /\ UNCHANGED <<kind, resume, list, tasks, seats, ended, token, sent, kept>>

\* /back to a game that is over: its player hears why, and tries no more
BackRefused(side) ==
  /\ side \in token /\ Hears(side) = {} /\ ~seats
  /\ token' = token \ {side}
  /\ UNCHANGED <<kind, resume, list, link, tasks, game, sent, heard, kept>>

-----------------------------------------------------------------------------
(* The alarm *)

\* everyone still linked hears why, and is closed
CloseAll(L, why) ==
  /\ link' = [k \in Links |-> IF k \in L THEN Closed(link[k], why) ELSE link[k]]
  /\ token' = token \ Hearing(L)

Alarm ==
  /\ alarm = 0
  /\ \/ /\ seats /\ Gone(away) = {}
        /\ alarm' = NextOverdue(away)
        /\ UNCHANGED <<link, expiring, seats, away, queue, ended, token>>
     \/ /\ seats /\ Gone(away) # {}
        /\ End("lost")
        /\ CloseAll(LiveOn("host") \cup LiveOn("guest"), "lost")
        /\ UNCHANGED expiring
     \* an ended game's leftovers go
     \/ /\ ~seats /\ ~Live("host") /\ ~Live("guest")
        /\ ended' = "nothing" /\ alarm' = Unset
        /\ UNCHANGED <<link, expiring, seats, away, queue, token>>
     \/ /\ ~seats /\ Live("guest")
        /\ alarm' = Unset
        /\ UNCHANGED <<link, expiring, seats, away, queue, ended, token>>
     \* a host nobody joined: off the list first, when it is on one
     \/ /\ ~seats /\ Live("host") /\ ~Live("guest")
        /\ alarm' = Unset
        /\ \/ /\ kind = "listed"
              /\ expiring' = expiring \cup LiveOn("host")
              /\ UNCHANGED <<link, token>>
           \/ /\ kind = "code"
              /\ CloseAll(LiveOn("host"), "expired")
              /\ UNCHANGED expiring
        /\ UNCHANGED <<seats, away, queue, ended>>
  /\ UNCHANGED <<kind, resume, list, entering, sent, heard, kept>>

Expired(l) ==
  /\ l \in expiring /\ expiring' = expiring \ {l}
  /\ Unlisted
  /\ CloseAll({l} \cap LiveOn("host"), "expired")
  /\ UNCHANGED <<kind, resume, entering, game, sent, heard, kept>>

-----------------------------------------------------------------------------
(* The network and the clock *)

Lose(l) ==
  /\ link[l].at = "open"
  /\ link' = [link EXCEPT ![l].at = "lost"]
  /\ UNCHANGED <<kind, resume, list, tasks, game, player>>

\* (a seat is never found more overdue than overdue)
Tick ==
  /\ away' = [s \in Sides |-> IF away[s] # Here /\ away[s] < Grace THEN away[s] + 1 ELSE away[s]]
  /\ alarm' = IF alarm # Unset /\ alarm > 0 THEN alarm - 1 ELSE alarm
  /\ UNCHANGED <<kind, resume, list, link, tasks, seats, queue, ended, player>>

-----------------------------------------------------------------------------
(* The specification *)

RoomInit ==
  /\ kind = "none" /\ resume = FALSE /\ listed = FALSE
  /\ adding = FALSE /\ missed = FALSE
  /\ link = [l \in Links |-> NoLink]
  /\ entering = [l \in Links |-> Nobody] /\ expiring = {}
  /\ seats = FALSE /\ away = AllHere /\ queue = NoQueue
  /\ ended = "nothing" /\ alarm = Unset
  /\ token = {} /\ sent = [s \in Sides |-> 0]
  /\ heard = [s \in Sides |-> <<>>] /\ kept = [s \in Sides |-> {}]

\* what players do, when they please
Players ==
  \E l \in Links :
    \/ \E k \in {"listed", "code"}, res \in BOOLEAN : OpenRoom(l, k, res)
    \/ Enter(l)
    \/ \E res \in BOOLEAN : Guest(l, res)
    \/ Message(l) \/ PlayerLeaves(l) \/ Lose(l)
    \/ \E side \in Sides : Back(l, side)

\* what is bound to happen: calls answered, closed and dead links noticed, the alarm
Bound(l) ==
  \/ \E res \in BOOLEAN : Entered(l, res)
  \/ LeaveDone(l) \/ Expired(l) \/ NoticeLost(l) \/ CloseDone(l)

RoomNext ==
  \/ Players \/ \E side \in Sides : BackRefused(side)
  \/ \E l \in Links : Bound(l)
  \/ Added \/ ListDrops
  \/ Alarm \/ Tick

RoomSpec == RoomInit /\ [][RoomNext]_roomVars

RoomFairSpec ==
  /\ RoomSpec
  /\ WF_roomVars(Tick) /\ WF_roomVars(Alarm)
  /\ \A l \in Links : WF_roomVars(Bound(l))

-----------------------------------------------------------------------------
(* Properties *)

\* The shape of the state; a side's queue in particular never holds more than MAX_QUEUED.
RoomTypeOK ==
  /\ kind \in {"none", "listed", "code"} /\ {resume, listed, adding, missed, seats} \subseteq BOOLEAN
  /\ \A l \in Links :
       /\ link[l].at \in {"none", "open", "lost", "closing", "leaving"}
       /\ entering[l] \in Links \cup {Nobody}
  /\ expiring \subseteq Links /\ token \subseteq Sides
  /\ away \in [Sides -> 0 .. Grace \cup {Here}]
  /\ alarm \in Nat \cup {Unset}
  /\ \A s \in Sides : Len(queue[s]) <= MaxQueued /\ sent[s] \in 0 .. MaxMsgs

\* A seat is one link's: however links drop unnoticed, come back and take over from each
\* other, a side never has two that the room would send to.
OneEach == \A s \in Sides : Cardinality(LiveOn(s)) <= 1

\* A held seat is never held for good: whoever is away, the alarm is set for when their
\* time is up or sooner, through the other side's drops and returns too.  (A side whose
\* time is up before a late alarm says so may wait for the other's: drop asks overdue only
\* for the next one.)
AwayIsTimed ==
  \A s \in Sides : seats /\ away[s] # Here =>
    alarm # Unset /\ (away[s] < Grace => alarm <= Grace - away[s])

\* A side hears what the other sent in the order it was sent, none of it twice, whether
\* it was passed on or kept for it over any number of drops.
InOrder ==
  \A s \in Sides : \A i, j \in 1 .. Len(heard[s]) : i < j => heard[s][i] < heard[s][j]

\* What was kept for a player who was away has been handed over or still waits, as long
\* as the game goes on (but for what MAX_QUEUED pushed out).
NothingKeptIsLost ==
  seats => \A s \in Sides : kept[s] \subseteq Range(heard[s]) \cup Range(queue[s])

\* A player on a link knows whether the other side is there: the last of `open`, `away`
\* and `back` that they heard is `away` whenever the other side's seat is held for it, and
\* only while it has no link.
SeesRight ==
  \A l \in Links : seats /\ link[l].at = "open" /\ link[l].opened =>
    LET them == Other(link[l].side) IN
    /\ away[them] # Here => link[l].sees = "away"
    /\ link[l].sees = "away" => ~Live(them)

\* The list shows a room, or is about to, only while a host waits in it with nobody joined,
\* or it is about to unlist itself: a room that was joined, left or expired stays on it only
\* if the remove failed or came before the add.
ListedWaits ==
  listed \/ adding =>
    \/ missed
    \/ Live("host") /\ ~Live("guest") /\ ~seats
    \/ \E l \in Links : link[l].at = "leaving"
    \/ expiring # {} \/ \E g \in Links : entering[g] # Nobody

\* the room has heard of the end of link l and takes it for its player's leaving
Parts(l) == link'[l].at \in {"none", "leaving"} /\ link'[l].at # link[l].at

\* A game a player can come back to ends only because a player left it by a link still
\* open, or the alarm found one away too long, or its host's link went that the room had
\* closed as expired: never because a link that another had replaced closed late, whoever
\* else is linked by then.
GameEndsForCause ==
  [][seats /\ ~seats' /\ token # {} =>
       \/ Gone(away) # {} /\ ~\E l \in Links : Parts(l)
       \/ \E l \in Links : Parts(l) /\ (link[l].at = "open" \/ link[l].told = "expired")]_roomVars

\* Seats are there only while a game is: once no link is left and nobody is away who
\* might be back, they have gone too.
SeatsGoWithGame ==
  seats => \E s \in Sides : \/ away[s] # Here
                            \/ \E l \in Links : link[l].at # "none" /\ link[l].side = s

\* A game both players have dropped out of is not kept for ever: one of them is back, or
\* it ends.
BothAwayEnds ==
  seats /\ (\A s \in Sides : away[s] # Here) ~> ~seats \/ \E s \in Sides : away[s] = Here

\* relay/README.md:94: "After 10 minutes the other player hears `closed` (`lost`)": a side
\* whose time is up is let go, or comes back after all.
AwayLetGo ==
  \A s \in Sides : (seats /\ away[s] = Grace) ~> ~(seats /\ away[s] = Grace)

\* index.js:76: "a room nobody joined is closed after this long", and no other: who is told
\* `expired` has not had a game opened.
ExpiredAlone == \A l \in Links : link[l].told = "expired" => ~link[l].opened

\* A host does not wait for ever: someone joins, or the room is closed.
WaitEnds ==
  (\E l \in Links : link[l].at = "open" /\ link[l].meta /\ ~link[l].opened)
    ~> ~(\E l \in Links : link[l].at = "open" /\ link[l].meta /\ ~link[l].opened)
\* The seats are as the room's links, its alarm and its place on the list say: one link a
\* side, whoever is away timed, no seats without a game, and on the list only while waiting.
SeatsRight == RoomTypeOK /\ OneEach /\ AwayIsTimed /\ SeatsGoWithGame /\ ListedWaits

\* What was kept for a player is handed over in order, once, before anything newer, and
\* nothing of it is lost.
KeptInOrder == InOrder /\ NothingKeptIsLost

\* Nothing in a room waits for ever: neither a game both have left nor a host alone.
RoomEnds == BothAwayEnds /\ WaitEnds
=============================================================================
