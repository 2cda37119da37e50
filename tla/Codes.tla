-------------------------------- MODULE Codes --------------------------------
(***************************************************************************)
(* The codes of locked rooms (relay/src/index.js, class Room).  A listed    *)
(* room is one object; each code is another, the one a code-only room would *)
(* use, and holds in storage which listed room it stands for.  The two      *)
(* speak by calls (claim, release), each of which may be late, may fail,    *)
(* or may be done and its answer lost, while the listed room answers other  *)
(* guests, loses its host or expires.  A call is one action at the object   *)
(* called and another where its answer is used.                             *)
(***************************************************************************)
EXTENDS Integers, FiniteSets

CONSTANTS
  Rooms,       \* the ids of the listed, locked rooms; none is drawn twice
  Resuming,    \* those whose players can take a seat back
  Codes,
  Draws,       \* bound: how many draws of a code are under way at once
  Wait,        \* WAIT_MS, in ticks
  HostTries,   \* HOST_TRIES
  Tries,       \* TRIES_PER_CODE
  MaxWrong,    \* bound: the wrong codes the rooms are given
  MaxLost,     \* bound: the calls that fail
  Nobody

ASSUME CodesAssumption ==
  /\ Resuming \subseteq Rooms /\ Nobody \notin Rooms \cup Codes
  /\ {Wait, HostTries, Tries} \subseteq Nat \ {0} /\ {MaxWrong, MaxLost} \subseteq Nat

VARIABLES
  room,      \* each listed room: its host's link and the facts on it
  draw,      \* the draws under way
  claim,     \* in each code's object, the listed room it is held for
  codeOnly,  \* in each code's object, the code-only game there
  alarm,     \* the codes' objects with an alarm set
  freeing,   \* how many releases of a room's code are on their way
  wrongs,    \* wrong codes given (bound)
  lost,      \* calls failed (bound)
  again,     \* the rooms that claimed a code they held already (no variable of the source)
  inGame     \* the rooms that took a new code with a guest away (no variable of the source)

bounds == <<wrongs, lost, inGame>>
codesVars == <<room, draw, claim, codeOnly, alarm, freeing, bounds, again>>

-----------------------------------------------------------------------------
(* Values *)

\* at: "opening" while its first code is drawn; "waiting"; "expiring", its alarm at unlist;
\* "closing", closed as expired; "playing"; "away", its guest's seat held; "over".
\* due: ticks until meta.until.  tried: the wrong codes given since its code was drawn (no
\* field of the source)
NoRoom == [at |-> "none", code |-> Nobody, wrong |-> 0, tried |-> 0, due |-> 0]

\* at: "drawing", "drawn" or "failed"; first: for /open; left: the tries left of HOST_TRIES
NoDraw == [at |-> "none", room |-> Nobody, first |-> FALSE, left |-> 0, code |-> Nobody]
NewDraw(r, first) ==
  [at |-> "drawing", room |-> r, first |-> first, left |-> HostTries, code |-> Nobody]

\* the host waits for a guest, its code asked of whoever comes
Waiting(r) == room[r].at \in {"waiting", "expiring"}

\* the claim on c is past its until
Lapsed(c) == claim[c] # Nobody /\ room[claim[c]].due = 0

DrawsOf(r) == {t \in Draws : draw[t].room = r}

\* free(code, id): a release sets out
Freed(r, c) == [freeing EXCEPT ![<<r, c>>] = @ + 1]

-----------------------------------------------------------------------------
(* A code's object *)

\* mutant: whoever holds it
CanClaimAny(r, c) == codeOnly[c] = "none"

\* no code-only room there, and no other listed room
CanClaim(r, c) == codeOnly[c] = "none" /\ (claim[c] \in {Nobody, r} \/ Lapsed(c))

\* mutant: no alarm
ClaimUntimed(r, c) ==
  /\ claim' = [claim EXCEPT ![c] = r] /\ alarm' = alarm
  /\ again' = IF claim[c] = r THEN again \cup {r} ELSE again

\* claim(id, code, until), granted
Claim(r, c) ==
  /\ claim' = [claim EXCEPT ![c] = r] /\ alarm' = alarm \cup {c}
  /\ again' = IF claim[c] = r THEN again \cup {r} ELSE again

\* release(id) arrives
Release(r, c) ==
  /\ freeing[<<r, c>>] > 0
  /\ freeing' = [freeing EXCEPT ![<<r, c>>] = @ - 1]
  /\ \/ claim[c] = r /\ claim' = [claim EXCEPT ![c] = Nobody] /\ alarm' = alarm \ {c}
     \/ claim[c] # r /\ UNCHANGED <<claim, alarm>>
  /\ UNCHANGED <<room, draw, codeOnly, bounds, again>>

\* ... or never does
LoseRelease(r, c) ==
  /\ freeing[<<r, c>>] > 0 /\ lost < MaxLost
  /\ freeing' = [freeing EXCEPT ![<<r, c>>] = @ - 1] /\ lost' = lost + 1
  /\ UNCHANGED <<room, draw, claim, codeOnly, alarm, wrongs, inGame, again>>

\* mutant: held is not asked
HostUnheld(c) ==
  /\ codeOnly[c] \in {"none", "ended"}
  /\ codeOnly' = [codeOnly EXCEPT ![c] = "hosting"] /\ alarm' = alarm \cup {c}
  /\ UNCHANGED <<room, draw, claim, freeing, bounds, again>>

\* /host: a code-only room opens on a code nobody holds; held drops a claim that has lapsed
Host(c) ==
  /\ codeOnly[c] \in {"none", "ended"}
  /\ claim[c] = Nobody \/ Lapsed(c)
  /\ claim' = [claim EXCEPT ![c] = Nobody]
  /\ codeOnly' = [codeOnly EXCEPT ![c] = "hosting"] /\ alarm' = alarm \cup {c}
  /\ UNCHANGED <<room, draw, freeing, bounds, again>>

\* /guest, where a code-only room waits; or where held drops a claim that has lapsed
Guest(c) ==
  /\ \/ /\ codeOnly[c] = "hosting"
        /\ codeOnly' = [codeOnly EXCEPT ![c] = "playing"] /\ alarm' = alarm \ {c}
        /\ UNCHANGED claim
     \/ /\ Lapsed(c)
        /\ claim' = [claim EXCEPT ![c] = Nobody]
        /\ UNCHANGED <<codeOnly, alarm>>
  /\ UNCHANGED <<room, draw, freeing, bounds, again>>

\* leave: the waiting host goes, or a game ends, leaving why it did if it had seats
CodeOnlyEnds(c) ==
  /\ \/ codeOnly[c] \in {"hosting", "playing"} /\ codeOnly' = [codeOnly EXCEPT ![c] = "none"]
        /\ alarm' = alarm
     \/ codeOnly[c] = "playing" /\ codeOnly' = [codeOnly EXCEPT ![c] = "ended"]
        /\ alarm' = alarm \cup {c}
  /\ UNCHANGED <<room, draw, claim, freeing, bounds, again>>

\* alarm(), which may be a repeat of an earlier one: a claim past its time goes; with none,
\* a host nobody joined or an ended game's leftovers
CodeAlarm(c) ==
  /\ c \in alarm
  /\ \/ /\ claim[c] # Nobody /\ ~Lapsed(c)
        /\ UNCHANGED <<claim, codeOnly, alarm>>
     \/ /\ Lapsed(c)
        /\ claim' = [claim EXCEPT ![c] = Nobody] /\ alarm' = alarm \ {c}
        /\ UNCHANGED codeOnly
     \/ /\ claim[c] = Nobody
        /\ codeOnly' = [codeOnly EXCEPT ![c] = "none"] /\ alarm' = alarm \ {c}
        /\ UNCHANGED claim
  /\ UNCHANGED <<room, draw, freeing, bounds, again>>

-----------------------------------------------------------------------------
(* draw(id, until) *)

\* a code is drawn and claimed; refused, another is, while tries are left
Ask(t) ==
  /\ draw[t].at = "drawing"
  /\ \E c \in Codes :
       \/ /\ CanClaim(draw[t].room, c) /\ Claim(draw[t].room, c)
          /\ draw' = [draw EXCEPT ![t].at = "drawn", ![t].code = c]
       \/ /\ ~CanClaim(draw[t].room, c)
          /\ draw' = [draw EXCEPT ![t].left = @ - 1,
                                  ![t].at = IF draw[t].left = 1 THEN "failed" ELSE @]
          /\ UNCHANGED <<claim, alarm, again>>
  /\ UNCHANGED <<room, codeOnly, freeing, bounds>>

\* the call fails, with or without the code claimed: the draw is given up
AskLost(t) ==
  /\ draw[t].at = "drawing" /\ lost < MaxLost /\ lost' = lost + 1
  /\ draw' = [draw EXCEPT ![t].at = "failed"]
  /\ \/ \E c \in Codes : CanClaim(draw[t].room, c) /\ Claim(draw[t].room, c)
     \/ UNCHANGED <<claim, alarm, again>>
  /\ UNCHANGED <<room, codeOnly, freeing, wrongs, inGame>>

-----------------------------------------------------------------------------
(* The listed room *)

\* /open: a locked room asks for its code
OpenLocked(r, t) ==
  /\ room[r].at = "none" /\ draw[t] = NoDraw
  /\ room' = [room EXCEPT ![r].at = "opening", ![r].due = Wait]
  /\ draw' = [draw EXCEPT ![t] = NewDraw(r, TRUE)]
  /\ UNCHANGED <<claim, codeOnly, alarm, freeing, bounds, again>>

\* ... and has it, or is refused
Opened(t) ==
  LET r == draw[t].room IN
  /\ draw[t].first
  /\ \/ draw[t].at = "drawn"
        /\ room' = [room EXCEPT ![r].at = "waiting", ![r].code = draw[t].code]
     \/ draw[t].at = "failed" /\ room' = [room EXCEPT ![r].at = "over"]
  /\ draw' = [draw EXCEPT ![t] = NoDraw]
  /\ UNCHANGED <<claim, codeOnly, alarm, freeing, bounds, again>>

\* /enter with the room's code (or /guest, sent on by the code's object): the guest joins, and
\* unlist frees the code
EnterRight(r) ==
  /\ Waiting(r)
  /\ room' = [room EXCEPT ![r].at = "playing"]
  /\ freeing' = Freed(r, room[r].code)
  /\ UNCHANGED <<draw, claim, codeOnly, alarm, bounds, again>>

\* wrong, after one more
Counted(n) == IF n + 1 >= Tries THEN 0 ELSE n + 1

\* /enter with another code: counted, and with the last of its tries a new code is drawn
EnterWrong(r) ==
  /\ Waiting(r) /\ wrongs < MaxWrong /\ wrongs' = wrongs + 1
  /\ room' = [room EXCEPT ![r].wrong = Counted(@),
                          ![r].tried = IF @ < Tries THEN @ + 1 ELSE @]
  /\ \/ room[r].wrong + 1 < Tries /\ draw' = draw
     \/ /\ room[r].wrong + 1 >= Tries
        /\ \E t \in Draws : draw[t] = NoDraw /\ draw' = [draw EXCEPT ![t] = NewDraw(r, FALSE)]
  /\ UNCHANGED <<claim, codeOnly, alarm, freeing, lost, inGame, again>>

\* readyState OPEN and no guest live: a guest who's away has no link
StillAlone(r) == Waiting(r) \/ room[r].at = "away"

\* mutant: the code drawn is kept
RenewOrLeave(r, c) ==
  \/ /\ StillAlone(r)
     /\ room' = [room EXCEPT ![r].code = c, ![r].tried = 0]
     /\ freeing' = Freed(r, room[r].code)
  \/ ~StillAlone(r) /\ UNCHANGED <<room, freeing>>

\* redraw, with a code: the old one is freed, or the new one when it is not wanted any more
Renew(r, c) ==
  \/ /\ StillAlone(r)
     /\ room' = [room EXCEPT ![r].code = c, ![r].tried = 0]
     /\ freeing' = Freed(r, room[r].code)
  \/ ~StillAlone(r) /\ freeing' = Freed(r, c) /\ room' = room

\* mutant: the count starts from nothing
KeepOldCounted(r) == room' = room

\* redraw, without one: the old code stays, and the next wrong one draws again
KeepOld(r) ==
  room' = IF StillAlone(r) THEN [room EXCEPT ![r].wrong = Tries - 1] ELSE room

Redrawn(t) ==
  LET r == draw[t].room IN
  /\ ~draw[t].first
  /\ \/ /\ draw[t].at = "drawn" /\ Renew(r, draw[t].code)
        /\ inGame' = IF room[r].at = "away" THEN inGame \cup {r} ELSE inGame
     \/ draw[t].at = "failed" /\ KeepOld(r) /\ UNCHANGED <<freeing, inGame>>
  /\ draw' = [draw EXCEPT ![t] = NoDraw]
  /\ UNCHANGED <<claim, codeOnly, alarm, wrongs, lost, again>>

\* the host leaves with no guest live, or its link closed by the room is closed: leave's unlist
\* frees the code
HostLeaves(r) ==
  /\ StillAlone(r) \/ room[r].at = "closing"
  /\ room' = [room EXCEPT ![r].at = "over"]
  /\ freeing' = Freed(r, room[r].code)
  /\ UNCHANGED <<draw, claim, codeOnly, alarm, bounds, again>>

\* alarm(): nobody joined.  Its unlist, and then the closing of the host's link
Expire(r) ==
  /\ room[r].at = "waiting" /\ room[r].due = 0
  /\ room' = [room EXCEPT ![r].at = "expiring"]
  /\ freeing' = Freed(r, room[r].code)
  /\ UNCHANGED <<draw, claim, codeOnly, alarm, bounds, again>>

Expired(r) ==
  /\ room[r].at = "expiring"
  /\ room' = [room EXCEPT ![r].at = "closing"]
  /\ UNCHANGED <<draw, claim, codeOnly, alarm, freeing, bounds, again>>

\* the guest's link drops and comes back where seats are held; a game ends
GameMoves(r) ==
  /\ \/ /\ room[r].at = "playing" /\ r \in Resuming
        /\ room' = [room EXCEPT ![r].at = "away"]
     \/ room[r].at = "away" /\ room' = [room EXCEPT ![r].at = "playing"]
     \/ room[r].at \in {"playing", "away"} /\ room' = [room EXCEPT ![r].at = "over"]
  /\ UNCHANGED <<draw, claim, codeOnly, alarm, freeing, bounds, again>>

\* time passes
Tick ==
  /\ \E r \in Rooms : room[r].due > 0
  /\ room' = [r \in Rooms |-> IF room[r].due > 0 THEN [room[r] EXCEPT !.due = @ - 1]
                              ELSE room[r]]
  /\ UNCHANGED <<draw, claim, codeOnly, alarm, freeing, bounds, again>>

-----------------------------------------------------------------------------

CodesInit ==
  /\ room = [r \in Rooms |-> NoRoom] /\ draw = [t \in Draws |-> NoDraw]
  /\ claim = [c \in Codes |-> Nobody] /\ codeOnly = [c \in Codes |-> "none"]
  /\ alarm = {} /\ freeing = [p \in Rooms \X Codes |-> 0]
  /\ wrongs = 0 /\ lost = 0 /\ again = {} /\ inGame = {}

CodesNext ==
  \/ \E c \in Codes : Host(c) \/ Guest(c) \/ CodeOnlyEnds(c) \/ CodeAlarm(c)
  \/ \E r \in Rooms, c \in Codes : Release(r, c) \/ LoseRelease(r, c)
  \/ \E t \in Draws : Ask(t) \/ AskLost(t) \/ Opened(t) \/ Redrawn(t)
  \/ \E r \in Rooms, t \in Draws : OpenLocked(r, t)
  \/ \E r \in Rooms :
       \/ EnterRight(r) \/ EnterWrong(r) \/ HostLeaves(r)
       \/ Expire(r) \/ Expired(r) \/ GameMoves(r)
  \/ Tick

CodesSpec == CodesInit /\ [][CodesNext]_codesVars

\* time passes and the objects' alarms run, in the end, after their time
DueAlarm(c) == Lapsed(c) /\ CodeAlarm(c)
CodesFairSpec == CodesSpec /\ WF_codesVars(Tick) /\ \A c \in Codes : WF_codesVars(DueAlarm(c))

-----------------------------------------------------------------------------
(* Properties *)

RoomStates == {"none", "opening", "waiting", "expiring", "closing", "playing", "away", "over"}
RoomFacts == [at : RoomStates, code : Codes \cup {Nobody}, wrong : 0 .. Tries - 1,
              tried : 0 .. Tries, due : 0 .. Wait]
DrawFacts == [at : {"none", "drawing", "drawn", "failed"}, room : Rooms \cup {Nobody},
              first : BOOLEAN, left : 0 .. HostTries, code : Codes \cup {Nobody}]

CodesTypeOK ==
  /\ room \in [Rooms -> RoomFacts] /\ draw \in [Draws -> DrawFacts]
  /\ claim \in [Codes -> Rooms \cup {Nobody}]
  /\ codeOnly \in [Codes -> {"none", "hosting", "playing", "ended"}]
  /\ alarm \subseteq Codes /\ again \subseteq Rooms /\ inGame \subseteq Rooms
  /\ freeing \in [Rooms \X Codes -> Nat]
  /\ wrongs \in 0 .. MaxWrong /\ lost \in 0 .. MaxLost

\* A code's object is a code-only room or holds a claim, never both: whichever came first is
\* asked for by the other's opening, and a game just over is still one.
ClaimOrGame == \A c \in Codes : codeOnly[c] # "none" => claim[c] = Nobody

\* While a locked room waits and its time is not up, its code's object holds the code for it:
\* whoever types the code finds that room, and no other room of either kind can have it.  So
\* it is whatever releases and redraws are late, unless the room claimed a code it held: a
\* redraw then shows that code as its new one and frees it as its old one.
FoundByCode ==
  \A r \in Rooms \ again :
    room[r].at = "waiting" /\ room[r].due > 0 => claim[room[r].code] = r

\* With no draw and no release on its way and none failed, the only codes held are the ones
\* their rooms have, and of those waiting: a room that was joined, left or expired, or drew a
\* code too late, holds none, unless it took that code in its game, with its guest away.
NothingHeldBehind ==
  lost = 0 /\ (\A p \in Rooms \X Codes : freeing[p] = 0) =>
    \A c \in Codes, r \in Rooms :
      claim[c] = r /\ DrawsOf(r) = {} /\ ~Lapsed(c) =>
        room[r].code = c /\ (Waiting(r) \/ r \in inGame)

\* index.js:69-70: "the claim lasts while the room waits and goes when it's joined, closed or
\* expired", where no call fails.
ClaimGoes ==
  lost = 0 /\ (\A p \in Rooms \X Codes : freeing[p] = 0) =>
    \A c \in Codes, r \in Rooms :
      claim[c] = r /\ DrawsOf(r) = {} /\ ~Lapsed(c) => room[r].at \notin {"playing", "away", "over"}

\* A code that has taken all its wrong tries is on its way out: a draw is under way, or the
\* next wrong code starts one, however many draws failed or overlapped.
WornCodeGoes ==
  \A r \in Rooms \ again :
    Waiting(r) /\ room[r].tried >= Tries /\ DrawsOf(r) = {} => room[r].wrong = Tries - 1

\* A claim does not outlast its room's waiting time for ever, whatever calls were lost: the
\* code's own alarm takes it back.
ClaimEnds == \A c \in Codes, r \in Rooms : claim[c] = r ~> claim[c] # r
=============================================================================
