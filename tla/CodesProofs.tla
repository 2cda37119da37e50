---------------------------- MODULE CodesProofs ----------------------------
(***************************************************************************)
(* What the claims keep true for any rooms, codes and number of draws, and  *)
(* whatever calls are late or lost: a code is never both a code-only room's *)
(* and a listed room's, and a code shown is a code held.                    *)
(***************************************************************************)
EXTENDS Codes, TLAPS

-----------------------------------------------------------------------------
(* The inductive invariant *)

\* The rooms that may yet show a code: being opened or waiting, their time not up.
Showing(r) == r \notin again /\ room[r].due > 0 /\ room[r].at \in {"opening", "waiting"}

\* The code a waiting room shows is held for it, and nothing on its way frees it.
ShownIsHeld ==
  \A r \in Rooms : Showing(r) /\ room[r].at = "waiting" =>
    /\ room[r].code \in Codes /\ claim[room[r].code] = r
    /\ freeing[<<r, room[r].code>>] = 0

\* So is a code drawn and not yet used, which is not the code shown...
DrawnIsHeld ==
  \A t \in Draws : LET r == draw[t].room IN
    draw[t].at = "drawn" /\ Showing(r) =>
      /\ draw[t].code \in Codes /\ claim[draw[t].code] = r
      /\ freeing[<<r, draw[t].code>>] = 0
      /\ room[r].at = "waiting" => draw[t].code # room[r].code

\* ... nor another draw's.
DrawnApart ==
  \A t, u \in Draws :
    /\ t # u /\ draw[t].at = "drawn" /\ draw[u].at = "drawn"
    /\ draw[t].room = draw[u].room /\ Showing(draw[t].room)
    => draw[t].code # draw[u].code

\* A code being freed is still held, and freed once: it cannot be claimed in between and freed
\* after.
FreedOnce ==
  \A r \in Rooms, c \in Codes :
    Showing(r) /\ freeing[<<r, c>>] # 0 => freeing[<<r, c>>] = 1 /\ claim[c] = r

\* A draw under way is for a room that is open, and is the only one until that room waits; a
\* room not open has nothing on its way.
DrawsInPlace ==
  /\ \A t \in Draws : draw[t].at # "none" =>
       /\ draw[t].room \in Rooms /\ room[draw[t].room].at # "none"
       /\ draw[t].first <=> (room[draw[t].room].at = "opening")
       /\ room[draw[t].room].at = "opening" =>
            \A u \in Draws : draw[u].at # "none" /\ draw[u].room = draw[t].room => u = t
       /\ draw[t].at = "drawing" => draw[t].left # 0
  /\ \A r \in Rooms, c \in Codes : room[r].at = "none" => freeing[<<r, c>>] = 0

Inv ==
  /\ CodesTypeOK /\ DrawsInPlace
  /\ ShownIsHeld /\ DrawnIsHeld /\ DrawnApart /\ FreedOnce

-----------------------------------------------------------------------------
(* Types *)

\* A release set out leaves the count of releases a count.
LEMMA FreedType ==
  ASSUME freeing \in [Rooms \X Codes -> Nat], NEW r, NEW c
  PROVE  Freed(r, c) \in [Rooms \X Codes -> Nat]
<1>1. ASSUME NEW p \in Rooms \X Codes PROVE freeing[p] \in Nat /\ freeing[p] + 1 \in Nat
  OBVIOUS
<1>2. Freed(r, c) = [p \in Rooms \X Codes |-> IF p = <<r, c>> THEN freeing[p] + 1 ELSE freeing[p]]
  BY DEF Freed
<1> QED BY <1>1, <1>2

\* What the handlers write to a room's facts are such facts.
LEMMA RoomType ==
  ASSUME room \in [Rooms -> RoomFacts], NEW r \in Rooms, NEW s \in RoomStates,
         NEW c \in Codes \cup {Nobody}
  PROVE  /\ [room EXCEPT ![r].at = s] \in [Rooms -> RoomFacts]
         /\ [room EXCEPT ![r].at = s, ![r].code = c] \in [Rooms -> RoomFacts]
         /\ [room EXCEPT ![r].at = s, ![r].due = Wait] \in [Rooms -> RoomFacts]
         /\ [room EXCEPT ![r].code = c, ![r].tried = 0] \in [Rooms -> RoomFacts]
         /\ [room EXCEPT ![r].wrong = Tries - 1] \in [Rooms -> RoomFacts]
         /\ [room EXCEPT ![r].wrong = Counted(@), ![r].tried = IF @ < Tries THEN @ + 1 ELSE @]
              \in [Rooms -> RoomFacts]
<1>1. Wait \in 0 .. Wait /\ 0 \in 0 .. Tries /\ Tries - 1 \in 0 .. Tries - 1
  BY CodesAssumption
<1>2. room[r] \in RoomFacts
  OBVIOUS
<1>3. Counted(room[r].wrong) \in 0 .. Tries - 1
  BY <1>2, CodesAssumption DEF RoomFacts, Counted
<1>4. (IF room[r].tried < Tries THEN room[r].tried + 1 ELSE room[r].tried) \in 0 .. Tries
  BY <1>2, CodesAssumption DEF RoomFacts
<1> QED BY <1>1, <1>2, <1>3, <1>4 DEF RoomFacts

\* Time leaves them so.
LEMMA TickType ==
  ASSUME room \in [Rooms -> RoomFacts], Tick
  PROVE  room' \in [Rooms -> RoomFacts]
<1>1. ASSUME NEW r \in Rooms, room[r].due > 0 PROVE [room[r] EXCEPT !.due = @ - 1] \in RoomFacts
  BY <1>1, CodesAssumption DEF RoomFacts
<1> QED BY <1>1 DEF Tick

\* A draw begun or done with is a draw.
LEMMA DrawType ==
  ASSUME draw \in [Draws -> DrawFacts], NEW t \in Draws, NEW r \in Rooms, NEW first \in BOOLEAN
  PROVE  /\ [draw EXCEPT ![t] = NoDraw] \in [Draws -> DrawFacts]
         /\ [draw EXCEPT ![t] = NewDraw(r, first)] \in [Draws -> DrawFacts]
<1>1. HostTries \in 0 .. HostTries /\ 0 \in 0 .. HostTries
  BY CodesAssumption
<1>2. NoDraw \in DrawFacts /\ NewDraw(r, first) \in DrawFacts
  BY <1>1 DEF NoDraw, NewDraw, DrawFacts
<1> QED BY <1>2

-----------------------------------------------------------------------------
(* Steps that hold nothing new *)

Held == ShownIsHeld /\ DrawnIsHeld /\ DrawnApart /\ FreedOnce

\* A step that takes no claim from a room that may show a code, and neither frees nor draws one
\* for it, keeps what is held.
LEMMA HeldStays ==
  ASSUME Inv, again \subseteq again',
         \A r \in Rooms : Showing(r)' =>
           Showing(r) /\ room'[r].at = room[r].at /\ room'[r].code = room[r].code,
         \A r \in Rooms, c \in Codes : Showing(r)' /\ claim[c] = r => claim'[c] = r,
         \A r \in Rooms, c \in Codes : Showing(r)' => freeing'[<<r, c>>] = freeing[<<r, c>>],
         \A t \in Draws : draw'[t].at = "drawn" => draw'[t] = draw[t]
  PROVE  Held'
<1>1. \A t \in Draws : draw[t].at = "drawn" => draw[t].room \in Rooms
  BY DEF Inv, DrawsInPlace
<1>2. ShownIsHeld'
  BY DEF Inv, ShownIsHeld
<1>3. DrawnIsHeld'
  <2> SUFFICES ASSUME NEW t \in Draws, draw'[t].at = "drawn", Showing(draw[t].room)',
                      draw'[t] = draw[t], draw[t].room \in Rooms
               PROVE  LET r == draw[t].room IN
                      /\ draw[t].code \in Codes /\ claim'[draw[t].code] = r
                      /\ freeing'[<<r, draw[t].code>>] = 0
                      /\ room'[r].at = "waiting" => draw[t].code # room'[r].code
    BY <1>1 DEF DrawnIsHeld, Showing
  <2> QED BY DEF Inv, DrawnIsHeld
<1>4. DrawnApart'
  <2> SUFFICES ASSUME NEW t \in Draws, NEW u \in Draws, t # u, draw'[t].at = "drawn",
                      draw'[u].at = "drawn", draw'[t].room = draw'[u].room,
                      Showing(draw[t].room)', draw'[t] = draw[t], draw'[u] = draw[u],
                      draw[t].room \in Rooms
               PROVE  draw[t].code # draw[u].code
    BY <1>1 DEF DrawnApart, Showing
  <2> QED BY DEF Inv, DrawnApart
<1>5. FreedOnce'
  BY DEF Inv, FreedOnce
<1> QED BY <1>2, <1>3, <1>4, <1>5 DEF Held

\* Draws stay in place while none starts, none of those opening is done, and no room is opened
\* nor leaves off opening.
LEMMA PlaceStays ==
  ASSUME Inv,
         \A r \in Rooms : /\ room'[r].at = "none" <=> room[r].at = "none"
                          /\ room'[r].at = "opening" <=> room[r].at = "opening",
         \A r \in Rooms, c \in Codes : room[r].at = "none" => freeing'[<<r, c>>] = 0,
         \A t \in Draws : draw'[t].at # "none" =>
           /\ draw[t].at # "none" /\ draw'[t].room = draw[t].room
           /\ draw'[t].first = draw[t].first
           /\ draw'[t].at = "drawing" => draw'[t].left # 0
  PROVE  DrawsInPlace'
BY DEF Inv, DrawsInPlace

\* A step of the codes' objects that leaves the listed rooms and their draws alone.
LEMMA ObjectStep ==
  ASSUME Inv, CodesTypeOK', UNCHANGED <<room, draw, freeing, again>>,
         \A r \in Rooms, c \in Codes : room[r].due > 0 /\ claim[c] = r => claim'[c] = r
  PROVE  Inv'
<1>1. DrawsInPlace'
  BY PlaceStays DEF Inv, DrawsInPlace
<1>2. Held'
  BY HeldStays DEF Showing
<1> QED BY <1>1, <1>2 DEF Inv, Held

\* /host, /guest, the end of a code-only game and a code's alarm take no claim of a room whose
\* time is not up.
LEMMA CodeOnlyStep ==
  ASSUME Inv, NEW c \in Codes, Host(c) \/ Guest(c) \/ CodeOnlyEnds(c) \/ CodeAlarm(c)
  PROVE  Inv'
<1> USE DEF Inv, CodesTypeOK, bounds
<1>1. CASE Host(c)
  <2>1. CodesTypeOK'
    BY <1>1 DEF Host
  <2> QED BY <1>1, <2>1, ObjectStep, CodesAssumption DEF Host, Lapsed
<1>2. CASE Guest(c)
  <2>1. CodesTypeOK'
    BY <1>2 DEF Guest
  <2> QED BY <1>2, <2>1, ObjectStep, CodesAssumption DEF Guest, Lapsed
<1>3. CASE CodeOnlyEnds(c)
  <2>1. CodesTypeOK'
    BY <1>3 DEF CodeOnlyEnds
  <2> QED BY <1>3, <2>1, ObjectStep DEF CodeOnlyEnds
<1>4. CASE CodeAlarm(c)
  <2>1. CodesTypeOK'
    BY <1>4 DEF CodeAlarm
  <2> QED BY <1>4, <2>1, ObjectStep, CodesAssumption DEF CodeAlarm, Lapsed
<1> QED BY <1>1, <1>2, <1>3, <1>4

\* A step of the listed rooms in which each goes on as it is, or is past showing a code.
LEMMA RoomStep ==
  ASSUME Inv, CodesTypeOK', UNCHANGED <<draw, claim, again>>,
         \A r \in Rooms : Showing(r)' =>
           Showing(r) /\ room'[r].at = room[r].at /\ room'[r].code = room[r].code,
         \A r \in Rooms : /\ room'[r].at = "none" <=> room[r].at = "none"
                          /\ room'[r].at = "opening" <=> room[r].at = "opening",
         \A r \in Rooms, c \in Codes :
           Showing(r)' \/ room[r].at = "none" => freeing'[<<r, c>>] = freeing[<<r, c>>]
  PROVE  Inv'
<1>1. DrawsInPlace'
  BY PlaceStays DEF Inv, DrawsInPlace
<1>2. Held'
  BY HeldStays
<1> QED BY <1>1, <1>2 DEF Inv, Held

\* What it is to set one room's state.
LEMMA AtSet ==
  ASSUME CodesTypeOK, NEW r \in Rooms, NEW s \in RoomStates, room' = [room EXCEPT ![r].at = s]
  PROVE  /\ room' \in [Rooms -> RoomFacts]
         /\ room'[r].at = s /\ room'[r].code = room[r].code /\ room'[r].due = room[r].due
         /\ \A q \in Rooms \ {r} : room'[q] = room[q]
<1>1. room \in [Rooms -> RoomFacts]
  BY DEF CodesTypeOK
<1>2. room' \in [Rooms -> RoomFacts]
  BY <1>1, RoomType
<1> QED BY <1>1, <1>2 DEF RoomFacts

\* A release set out for one room's code is no other room's.
LEMMA FreedOther ==
  ASSUME CodesTypeOK, NEW r \in Rooms, NEW c, NEW q \in Rooms, NEW d \in Codes, q # r \/ d # c
  PROVE  Freed(r, c)[<<q, d>>] = freeing[<<q, d>>]
BY DEF Freed, CodesTypeOK

\* A room that leaves off waiting, and frees its code if it does.
LEMMA LeaveStep ==
  ASSUME Inv, NEW r \in Rooms, NEW s \in RoomStates \ {"none", "opening", "waiting"},
         room[r].at \notin {"none", "opening"}, room' = [room EXCEPT ![r].at = s],
         freeing' = freeing \/ freeing' = Freed(r, room[r].code),
         UNCHANGED <<draw, claim, codeOnly, alarm, bounds, again>>
  PROVE  Inv'
<1>1. /\ room' \in [Rooms -> RoomFacts]
      /\ room'[r].at = s /\ \A q \in Rooms \ {r} : room'[q] = room[q]
  BY AtSet DEF Inv
<1>2. CodesTypeOK'
  BY <1>1, FreedType DEF Inv, CodesTypeOK, bounds
<1>3. ~Showing(r)'
  BY <1>1 DEF Showing
<1>4. \A q \in Rooms, c \in Codes : q # r => freeing'[<<q, c>>] = freeing[<<q, c>>]
  BY FreedOther DEF Inv
<1>5. \A q \in Rooms : Showing(q)' =>
        Showing(q) /\ room'[q].at = room[q].at /\ room'[q].code = room[q].code
  BY <1>1, <1>3 DEF Showing
<1>6. \A q \in Rooms : /\ room'[q].at = "none" <=> room[q].at = "none"
                       /\ room'[q].at = "opening" <=> room[q].at = "opening"
  BY <1>1
<1>7. \A q \in Rooms, c \in Codes :
        Showing(q)' \/ room[q].at = "none" => freeing'[<<q, c>>] = freeing[<<q, c>>]
  BY <1>3, <1>4
<1> HIDE DEF Showing
<1> QED BY <1>2, <1>5, <1>6, <1>7, RoomStep

\* A guest let in, a host gone or let go, a game on its way: none shows a code any more.
LEMMA RoomMovesStep ==
  ASSUME Inv, NEW r \in Rooms,
         EnterRight(r) \/ HostLeaves(r) \/ Expire(r) \/ Expired(r) \/ GameMoves(r)
  PROVE  Inv'
<1> USE LeaveStep DEF RoomStates
<1>1. CASE EnterRight(r)
  BY <1>1 DEF EnterRight, Waiting
<1>2. CASE HostLeaves(r)
  BY <1>2 DEF HostLeaves, StillAlone, Waiting
<1>3. CASE Expire(r)
  BY <1>3 DEF Expire
<1>4. CASE Expired(r)
  BY <1>4 DEF Expired
<1>5. CASE GameMoves(r)
  BY <1>5 DEF GameMoves
<1> QED BY <1>1, <1>2, <1>3, <1>4, <1>5

\* Time only takes rooms out of those that may show a code.
LEMMA TickStep == ASSUME Inv, Tick PROVE Inv'
<1>1. room \in [Rooms -> RoomFacts] /\ room' \in [Rooms -> RoomFacts]
  BY TickType DEF Inv, CodesTypeOK
<1>2. CodesTypeOK'
  BY <1>1 DEF Tick, Inv, CodesTypeOK, bounds
<1>3. ASSUME NEW r \in Rooms
      PROVE  /\ room'[r].at = room[r].at /\ room'[r].code = room[r].code
             /\ room'[r].due > 0 => room[r].due > 0
  BY <1>1 DEF Tick, RoomFacts
<1>4. \A r \in Rooms : Showing(r)' => Showing(r)
  BY <1>3 DEF Showing, Tick
<1> QED BY <1>2, <1>3, <1>4, RoomStep DEF Tick

-----------------------------------------------------------------------------
(* Releases and claims *)

\* A release arrives, or never does: the code it frees is not one that is shown or drawn.
LEMMA ReleaseStep ==
  ASSUME Inv, NEW r \in Rooms, NEW c \in Codes, Release(r, c) \/ LoseRelease(r, c)
  PROVE  Inv'
<1>1. /\ UNCHANGED <<room, draw, codeOnly, wrongs, inGame, again>> /\ freeing[<<r, c>>] > 0
      /\ freeing' = [freeing EXCEPT ![<<r, c>>] = @ - 1]
      /\ claim' = claim \/ claim' = [claim EXCEPT ![c] = Nobody]
      /\ claim' = claim \/ claim[c] = r
      /\ claim[c] = r => claim'[c] = Nobody \/ LoseRelease(r, c)
  BY DEF Release, LoseRelease, bounds, Inv, CodesTypeOK
<1>2. /\ freeing \in [Rooms \X Codes -> Nat] /\ freeing' \in [Rooms \X Codes -> Nat]
      /\ freeing'[<<r, c>>] = freeing[<<r, c>>] - 1
      /\ \A q \in Rooms, d \in Codes : q # r \/ d # c => freeing'[<<q, d>>] = freeing[<<q, d>>]
  BY <1>1 DEF Inv, CodesTypeOK
<1>3. CodesTypeOK'
  BY <1>1, <1>2, CodesAssumption DEF Release, LoseRelease, Inv, CodesTypeOK, bounds
<1>4. \A q \in Rooms : Showing(q)' = Showing(q)
  BY <1>1 DEF Showing
<1>5. \A q \in Rooms, d \in Codes : q # r \/ d # c => (claim'[d] = q <=> claim[d] = q)
  BY <1>1, CodesAssumption DEF Inv, CodesTypeOK
<1>6. DrawsInPlace'
  <2>1. \A q \in Rooms, d \in Codes : room[q].at = "none" => freeing'[<<q, d>>] = 0
    BY <1>1, <1>2 DEF Inv, DrawsInPlace
  <2> QED BY <2>1, <1>1, PlaceStays DEF Inv, DrawsInPlace
<1>7. ShownIsHeld'
  BY <1>1, <1>2, <1>4, <1>5 DEF Inv, ShownIsHeld
<1>8. DrawnIsHeld'
  <2> SUFFICES ASSUME NEW t \in Draws, draw[t].at = "drawn", Showing(draw[t].room)
               PROVE  LET q == draw[t].room IN
                      /\ draw[t].code \in Codes /\ claim'[draw[t].code] = q
                      /\ freeing'[<<q, draw[t].code>>] = 0
                      /\ room[q].at = "waiting" => draw[t].code # room[q].code
    BY <1>1 DEF DrawnIsHeld, Showing
  <2>1. draw[t].room \in Rooms
    BY DEF Inv, DrawsInPlace
  <2> QED BY <2>1, <1>1, <1>2, <1>5 DEF Inv, DrawnIsHeld
<1>9. DrawnApart'
  BY <1>1 DEF Inv, DrawnApart, Showing
<1>10. FreedOnce'
  BY <1>1, <1>2, <1>4, <1>5 DEF Inv, FreedOnce
<1> QED BY <1>3, <1>6, <1>7, <1>8, <1>9, <1>10 DEF Inv

\* A claim granted to a room takes none from a room whose time is not up; and unless the room
\* held the code already, the code is none that the room shows, has drawn or is giving up.
LEMMA Granted ==
  ASSUME Inv, NEW r \in Rooms, NEW c \in Codes, CanClaim(r, c), Claim(r, c),
         UNCHANGED <<room, freeing>>
  PROVE  /\ claim' \in [Codes -> Rooms \cup {Nobody}] /\ alarm' \subseteq Codes
         /\ again' \subseteq Rooms /\ again \subseteq again' /\ claim'[c] = r
         /\ \A q \in Rooms : Showing(q)' => Showing(q)
         /\ \A q \in Rooms, d \in Codes : Showing(q)' /\ claim[d] = q => claim'[d] = q
         /\ Showing(r)' =>
              /\ claim[c] # r /\ freeing[<<r, c>>] = 0
              /\ room[r].at = "waiting" => room[r].code # c
              /\ \A t \in Draws :
                   draw[t].at = "drawn" /\ draw[t].room = r => draw[t].code # c
<1>1. /\ claim' \in [Codes -> Rooms \cup {Nobody}] /\ alarm' \subseteq Codes
      /\ again' \subseteq Rooms /\ again \subseteq again' /\ claim'[c] = r
      /\ \A d \in Codes \ {c} : claim'[d] = claim[d]
  BY DEF Claim, Inv, CodesTypeOK
<1>2. \A q \in Rooms : Showing(q)' => Showing(q)
  BY <1>1 DEF Showing
<1>3. \A q \in Rooms, d \in Codes : Showing(q)' /\ claim[d] = q => claim'[d] = q
  <2>1. ASSUME NEW q \in Rooms, Showing(q), claim[c] = q PROVE q = r
    BY <2>1, CodesAssumption DEF CanClaim, Lapsed, Showing
  <2> QED BY <1>1, <1>2, <2>1
<1>4. Showing(r)' => claim[c] # r
  BY DEF Claim, Showing
<1>5. ASSUME Showing(r)'
      PROVE  /\ freeing[<<r, c>>] = 0
             /\ room[r].at = "waiting" => room[r].code # c
             /\ \A t \in Draws : draw[t].at = "drawn" /\ draw[t].room = r => draw[t].code # c
  <2>1. Showing(r) /\ claim[c] # r
    BY <1>2, <1>4, <1>5
  <2>2. freeing[<<r, c>>] = 0
    BY <2>1 DEF Inv, FreedOnce
  <2>3. room[r].at = "waiting" => room[r].code # c
    BY <2>1 DEF Inv, ShownIsHeld
  <2>4. \A t \in Draws : draw[t].at = "drawn" /\ draw[t].room = r => draw[t].code # c
    BY <2>1 DEF Inv, DrawnIsHeld
  <2> QED BY <2>2, <2>3, <2>4
<1> QED BY <1>1, <1>2, <1>3, <1>4, <1>5

-----------------------------------------------------------------------------
(* Draws *)

\* What it is to set where one draw is, and what it drew.
LEMMA DrawSet ==
  ASSUME CodesTypeOK, NEW t \in Draws, NEW d \in DrawFacts, draw' = [draw EXCEPT ![t] = d]
  PROVE  draw'[t] = d /\ \A u \in Draws \ {t} : draw'[u] = draw[u]
BY DEF CodesTypeOK

\* What it is to set where a draw is, and the tries it has left.
LEMMA DrawFields ==
  ASSUME NEW x \in DrawFacts, NEW n \in 0 .. HostTries, NEW s \in {"drawing", "drawn", "failed"}
  PROVE  LET d == [x EXCEPT !.left = n, !.at = s] IN
         d \in DrawFacts /\ d.at = s /\ d.left = n /\ d.room = x.room /\ d.first = x.first
BY DEF DrawFacts

\* A draw that ends or is answered without a code holds nothing new, nor does a claim whose
\* answer is lost.
LEMMA DrawGivesUp ==
  ASSUME Inv, CodesTypeOK', NEW t \in Draws, UNCHANGED <<room, freeing>>,
         draw[t].at # "none", draw'[t].room = draw[t].room, draw'[t].first = draw[t].first,
         draw'[t].at \in {"drawing", "failed"}, draw'[t].at = "drawing" => draw'[t].left # 0,
         \A u \in Draws \ {t} : draw'[u] = draw[u],
         again \subseteq again', \A q \in Rooms : Showing(q)' => Showing(q),
         \A q \in Rooms, c \in Codes : Showing(q)' /\ claim[c] = q => claim'[c] = q
  PROVE  Inv'
<1>1. DrawsInPlace'
  <2>1. \A u \in Draws : draw'[u].at # "none" =>
          /\ draw[u].at # "none" /\ draw'[u].room = draw[u].room /\ draw'[u].first = draw[u].first
          /\ draw'[u].at = "drawing" => draw'[u].left # 0
    BY DEF Inv, DrawsInPlace
  <2> QED BY <2>1, PlaceStays DEF Inv, DrawsInPlace
<1>2. \A u \in Draws : draw'[u].at = "drawn" => draw'[u] = draw[u]
  OBVIOUS
<1>3. Held'
  BY <1>2, HeldStays
<1> QED BY <1>1, <1>3 DEF Inv, Held

\* A code drawn: claimed for the room, refused, or the call lost.
LEMMA AskStep == ASSUME Inv, NEW t \in Draws, Ask(t) PROVE Inv'
<1>0. PICK r \in Rooms : r = draw[t].room
  BY DEF Ask, Inv, DrawsInPlace
<1>1. /\ draw[t].at = "drawing" /\ draw[t].left # 0 /\ draw[t] \in DrawFacts
      /\ UNCHANGED <<room, codeOnly, freeing, bounds>>
  BY DEF Ask, Inv, DrawsInPlace, CodesTypeOK
<1>2. ASSUME NEW c \in Codes, CanClaim(r, c), Claim(r, c),
             draw' = [draw EXCEPT ![t].at = "drawn", ![t].code = c]
      PROVE  Inv'
  <2>1. /\ claim' \in [Codes -> Rooms \cup {Nobody}] /\ alarm' \subseteq Codes
        /\ again' \subseteq Rooms /\ again \subseteq again' /\ claim'[c] = r
        /\ \A q \in Rooms : Showing(q)' => Showing(q)
        /\ \A q \in Rooms, d \in Codes : Showing(q)' /\ claim[d] = q => claim'[d] = q
        /\ Showing(r)' =>
              /\ claim[c] # r /\ freeing[<<r, c>>] = 0
              /\ room[r].at = "waiting" => room[r].code # c
              /\ \A u \in Draws : draw[u].at = "drawn" /\ draw[u].room = r => draw[u].code # c
    BY <1>1, <1>2, Granted
  <2>2. /\ draw' \in [Draws -> DrawFacts]
        /\ draw'[t].at = "drawn" /\ draw'[t].code = c /\ draw'[t].room = r
        /\ draw'[t].first = draw[t].first
        /\ \A u \in Draws \ {t} : draw'[u] = draw[u]
    <3> DEFINE d == [draw[t] EXCEPT !.at = "drawn", !.code = c]
    <3>1. draw' = [draw EXCEPT ![t] = d] /\ draw \in [Draws -> DrawFacts]
      BY <1>2 DEF Inv, CodesTypeOK
    <3>2. /\ d \in DrawFacts /\ d.at = "drawn" /\ d.code = c /\ d.room = draw[t].room
          /\ d.first = draw[t].first
      BY <1>1 DEF DrawFacts
    <3> HIDE DEF d
    <3> QED BY <1>0, <3>1, <3>2
  <2>3. CodesTypeOK'
    BY <1>1, <2>1, <2>2 DEF Inv, CodesTypeOK, bounds
  <2>4. DrawsInPlace'
    <3>1. \A u \in Draws : draw'[u].at # "none" =>
            /\ draw[u].at # "none" /\ draw'[u].room = draw[u].room
            /\ draw'[u].first = draw[u].first
            /\ draw'[u].at = "drawing" => draw'[u].left # 0
      BY <1>0, <1>1, <2>2 DEF Inv, DrawsInPlace
    <3> QED BY <3>1, <1>1, PlaceStays DEF Inv, DrawsInPlace
  <2>5. ShownIsHeld'
    BY <1>1, <2>1 DEF Inv, ShownIsHeld
  <2>6. DrawnIsHeld'
    <3> SUFFICES ASSUME NEW u \in Draws, draw'[u].at = "drawn", NEW q, q = draw'[u].room,
                        Showing(q)'
                 PROVE  /\ draw'[u].code \in Codes /\ claim'[draw'[u].code] = q
                        /\ freeing[<<q, draw'[u].code>>] = 0
                        /\ room[q].at = "waiting" => draw'[u].code # room[q].code
      BY <1>1 DEF DrawnIsHeld, Showing
    <3>1. CASE u = t
      BY <3>1, <2>1, <2>2
    <3>2. CASE u # t
      <4>1. draw'[u] = draw[u] /\ draw[u].room \in Rooms
        BY <3>2, <2>2 DEF Inv, DrawsInPlace
      <4> QED BY <4>1, <2>1 DEF Inv, DrawnIsHeld
    <3> QED BY <3>1, <3>2
  <2>7. DrawnApart'
    <3> SUFFICES ASSUME NEW u \in Draws, NEW v \in Draws, u # v, draw'[u].at = "drawn",
                        draw'[v].at = "drawn", NEW q, q = draw'[u].room,
                        q = draw'[v].room, Showing(q)'
                 PROVE  draw'[u].code # draw'[v].code
      BY DEF DrawnApart, Showing
    <3>1. CASE u = t
      <4>1. draw'[v] = draw[v] /\ q = r /\ draw[v].at = "drawn" /\ draw[v].room = r
        BY <3>1, <2>2
      <4>2. Showing(r)' /\ draw'[u].code = c
        BY <4>1, <3>1, <2>2
      <4>3. draw[v].code # c
        BY <4>1, <4>2, <2>1
      <4> QED BY <4>1, <4>2, <4>3
    <3>2. CASE v = t
      <4>1. draw'[u] = draw[u] /\ q = r /\ draw[u].at = "drawn" /\ draw[u].room = r
        BY <3>2, <2>2
      <4>2. Showing(r)' /\ draw'[v].code = c
        BY <4>1, <3>2, <2>2
      <4>3. draw[u].code # c
        BY <4>1, <4>2, <2>1
      <4> QED BY <4>1, <4>2, <4>3
    <3>3. CASE u # t /\ v # t
      <4>1. draw'[u] = draw[u] /\ draw'[v] = draw[v] /\ q \in Rooms
        BY <3>3, <2>2 DEF Inv, DrawsInPlace
      <4>2. Showing(draw[u].room)
        BY <4>1, <2>1
      <4> QED BY <4>1, <4>2 DEF Inv, DrawnApart
    <3> QED BY <3>1, <3>2, <3>3
  <2>8. FreedOnce'
    BY <1>1, <2>1 DEF Inv, FreedOnce
  <2> QED BY <2>3, <2>4, <2>5, <2>6, <2>7, <2>8 DEF Inv
<1>3. ASSUME draw' = [draw EXCEPT ![t].left = @ - 1,
                                  ![t].at = IF draw[t].left = 1 THEN "failed" ELSE @],
             UNCHANGED <<claim, alarm, again>>
      PROVE  Inv'
  <2> DEFINE s == IF draw[t].left = 1 THEN "failed" ELSE "drawing"
             d == [draw[t] EXCEPT !.left = @ - 1, !.at = s]
  <2>1. draw' = [draw EXCEPT ![t] = d] /\ s \in {"drawing", "failed"}
    BY <1>1, <1>3 DEF Inv, CodesTypeOK
  <2>2. /\ draw[t].left - 1 \in 0 .. HostTries
        /\ s = "drawing" => draw[t].left - 1 # 0
    BY <1>1, CodesAssumption DEF DrawFacts
  <2>0. draw[t].left \in 0 .. HostTries /\ s \in {"drawing", "drawn", "failed"}
    BY <1>1 DEF DrawFacts
  <2> HIDE DEF s
  <2>3. d \in DrawFacts /\ d.at = s /\ d.room = draw[t].room /\ d.first = draw[t].first
        /\ d.left = draw[t].left - 1
    BY <2>0, <2>2, <1>1, DrawFields DEF DrawFacts
  <2> HIDE DEF d
  <2>4. draw'[t] = d /\ \A u \in Draws \ {t} : draw'[u] = draw[u]
    BY <2>1, <2>3, DrawSet DEF Inv
  <2>5. CodesTypeOK'
    BY <1>1, <1>3, <2>1, <2>3 DEF Inv, CodesTypeOK, bounds
  <2>6. \A q \in Rooms : Showing(q)' => Showing(q)
    BY <1>1, <1>3 DEF Showing
  <2> QED BY <1>1, <1>3, <2>1, <2>2, <2>3, <2>4, <2>5, <2>6, DrawGivesUp
<1>4. \/ \E c \in Codes : /\ CanClaim(r, c) /\ Claim(r, c)
                          /\ draw' = [draw EXCEPT ![t].at = "drawn", ![t].code = c]
      \/ /\ draw' = [draw EXCEPT ![t].left = @ - 1,
                                 ![t].at = IF draw[t].left = 1 THEN "failed" ELSE @]
         /\ UNCHANGED <<claim, alarm, again>>
  BY <1>0 DEF Ask
<1> QED BY <1>2, <1>3, <1>4

\* A call that is lost: whether or not the code was claimed, nothing drawn or shown is let go.
LEMMA AskLostStep == ASSUME Inv, NEW t \in Draws, AskLost(t) PROVE Inv'
<1>0. PICK r \in Rooms : r = draw[t].room
  BY DEF AskLost, Inv, DrawsInPlace
<1> DEFINE d == [draw[t] EXCEPT !.at = "failed"]
<1>1. /\ draw[t].at = "drawing" /\ draw[t] \in DrawFacts
      /\ UNCHANGED <<room, codeOnly, freeing, wrongs, inGame>> /\ lost' = lost + 1 /\ lost < MaxLost
      /\ draw' = [draw EXCEPT ![t] = d]
  BY DEF AskLost, Inv, DrawsInPlace, CodesTypeOK
<1>2. d \in DrawFacts /\ d.at = "failed" /\ d.room = draw[t].room /\ d.first = draw[t].first
  BY <1>1 DEF DrawFacts
<1> HIDE DEF d
<1>3. draw'[t] = d /\ \A u \in Draws \ {t} : draw'[u] = draw[u]
  BY <1>1, <1>2, DrawSet DEF Inv
<1>4. lost' \in 0 .. MaxLost
  BY <1>1, CodesAssumption DEF Inv, CodesTypeOK
<1>5. /\ claim' \in [Codes -> Rooms \cup {Nobody}] /\ alarm' \subseteq Codes
      /\ again' \subseteq Rooms /\ again \subseteq again'
      /\ \A q \in Rooms : Showing(q)' => Showing(q)
      /\ \A q \in Rooms, c \in Codes : Showing(q)' /\ claim[c] = q => claim'[c] = q
  <2>1. CASE \E c \in Codes : CanClaim(r, c) /\ Claim(r, c)
    BY <2>1, <1>1, Granted
  <2>2. CASE UNCHANGED <<claim, alarm, again>>
    BY <2>2, <1>1 DEF Inv, CodesTypeOK, Showing
  <2> QED BY <1>0, <2>1, <2>2 DEF AskLost
<1>6. CodesTypeOK'
  BY <1>1, <1>2, <1>4, <1>5 DEF Inv, CodesTypeOK
<1> QED BY <1>1, <1>2, <1>3, <1>5, <1>6, DrawGivesUp

-----------------------------------------------------------------------------
(* A listed room and its draws *)

\* A draw that starts, for a room just opened or a code worn out, holds nothing.
LEMMA DrawStarts ==
  ASSUME Inv, CodesTypeOK', UNCHANGED <<claim, freeing, again>>, NEW r \in Rooms, NEW t \in Draws,
         NEW first \in BOOLEAN, draw[t] = NoDraw, draw' = [draw EXCEPT ![t] = NewDraw(r, first)],
         \A q \in Rooms \ {r} : room'[q] = room[q],
         \/ first /\ room[r].at = "none" /\ room'[r].at = "opening"
         \/ /\ ~first /\ room[r].at \notin {"none", "opening"} /\ room'[r].at = room[r].at
            /\ room'[r].code = room[r].code /\ room'[r].due = room[r].due
  PROVE  Inv'
<1>1. /\ draw'[t].at = "drawing" /\ draw'[t].room = r /\ draw'[t].first = first
      /\ draw'[t].left # 0 /\ \A u \in Draws \ {t} : draw'[u] = draw[u]
  BY CodesAssumption DEF NewDraw, Inv, CodesTypeOK
<1>2. draw[t].at = "none"
  BY DEF NoDraw
<1>3. \A u \in Draws : draw'[u].at = "drawn" => draw'[u] = draw[u] /\ u # t
  BY <1>1
<1>4. DrawsInPlace'
  <2>1. \A u \in Draws \ {t} : draw[u].at # "none" /\ draw[u].room = r => room[r].at # "none"
    BY DEF Inv, DrawsInPlace
  <2>2. ASSUME NEW u \in Draws, draw'[u].at # "none"
        PROVE  /\ draw'[u].room \in Rooms /\ room'[draw'[u].room].at # "none"
               /\ draw'[u].first <=> (room'[draw'[u].room].at = "opening")
               /\ draw'[u].at = "drawing" => draw'[u].left # 0
    <3>1. CASE u = t
      BY <3>1, <1>1
    <3>2. CASE u # t
      BY <3>2, <2>2, <1>1 DEF Inv, DrawsInPlace
    <3> QED BY <3>1, <3>2
  <2>3. ASSUME NEW u \in Draws, NEW v \in Draws, draw'[u].at # "none", draw'[v].at # "none",
               draw'[u].room = draw'[v].room, room'[draw'[u].room].at = "opening"
        PROVE  u = v
    <3>1. CASE u = t /\ v # t
      BY <3>1, <2>1, <2>3, <1>1
    <3>2. CASE u # t /\ v = t
      BY <3>2, <2>1, <2>3, <1>1
    <3>3. CASE u # t /\ v # t
      BY <3>3, <2>1, <2>3, <1>1 DEF Inv, DrawsInPlace
    <3> QED BY <3>1, <3>2, <3>3
  <2>4. \A q \in Rooms, c \in Codes : room'[q].at = "none" => freeing'[<<q, c>>] = 0
    BY DEF Inv, DrawsInPlace
  <2> QED BY <2>2, <2>3, <2>4 DEF DrawsInPlace
<1>5. CASE room[r].at # "none"
  <2>1. \A q \in Rooms : Showing(q)' =>
          Showing(q) /\ room'[q].at = room[q].at /\ room'[q].code = room[q].code
    BY <1>5 DEF Showing
  <2>2. Held'
    BY <2>1, <1>3, HeldStays
  <2> QED BY <2>2, <1>4 DEF Inv, Held
<1>6. CASE room[r].at = "none"
  <2>1. room'[r].at = "opening" /\ \A c \in Codes : freeing[<<r, c>>] = 0
    BY <1>6 DEF Inv, DrawsInPlace
  <2>2. \A q \in Rooms \ {r} : Showing(q)' = Showing(q)
    BY DEF Showing
  <2>3. ASSUME NEW u \in Draws, draw'[u].at = "drawn"
        PROVE  draw'[u] = draw[u] /\ draw[u].room \in Rooms \ {r}
    <3>1. draw'[u] = draw[u] /\ draw[u].at # "none"
      BY <2>3, <1>3
    <3>2. draw[u].room \in Rooms /\ room[draw[u].room].at # "none"
      BY <3>1 DEF Inv, DrawsInPlace
    <3> QED BY <3>1, <3>2, <1>6
  <2>4. ShownIsHeld'
    BY <2>1, <2>2 DEF Inv, ShownIsHeld
  <2>5. DrawnIsHeld'
    <3> SUFFICES ASSUME NEW u \in Draws, draw[u].at = "drawn", Showing(draw[u].room)',
                        draw'[u] = draw[u], draw[u].room \in Rooms \ {r}
                 PROVE  LET q == draw[u].room IN
                        /\ draw[u].code \in Codes /\ claim[draw[u].code] = q
                        /\ freeing[<<q, draw[u].code>>] = 0
                        /\ room[q].at = "waiting" => draw[u].code # room[q].code
      BY <2>3 DEF DrawnIsHeld, Showing
    <3>1. Showing(draw[u].room)
      BY DEF Showing
    <3> QED BY <3>1 DEF Inv, DrawnIsHeld
  <2>6. DrawnApart'
    <3> SUFFICES ASSUME NEW u \in Draws, NEW v \in Draws, u # v, draw[u].at = "drawn",
                        draw[v].at = "drawn", draw[u].room = draw[v].room,
                        Showing(draw[u].room)', draw'[u] = draw[u], draw'[v] = draw[v],
                        draw[u].room \in Rooms \ {r}
                 PROVE  draw[u].code # draw[v].code
      BY <2>3 DEF DrawnApart, Showing
    <3>1. Showing(draw[u].room)
      BY DEF Showing
    <3> QED BY <3>1 DEF Inv, DrawnApart
  <2>7. FreedOnce'
    BY <2>1, <2>2 DEF Inv, FreedOnce
  <2> QED BY <1>4, <2>4, <2>5, <2>6, <2>7 DEF Inv
<1> QED BY <1>5, <1>6

\* /open asks for a code.
LEMMA OpenStep == ASSUME Inv, NEW r \in Rooms, NEW t \in Draws, OpenLocked(r, t) PROVE Inv'
<1>1. room \in [Rooms -> RoomFacts] /\ draw \in [Draws -> DrawFacts] /\ "opening" \in RoomStates
  BY DEF Inv, CodesTypeOK, RoomStates
<1>2. room' \in [Rooms -> RoomFacts] /\ draw' \in [Draws -> DrawFacts]
  <2>1. room' \in [Rooms -> RoomFacts]
    BY <1>1, RoomType DEF OpenLocked
  <2>2. draw' \in [Draws -> DrawFacts]
    BY <1>1, DrawType DEF OpenLocked
  <2> QED BY <2>1, <2>2
<1>3. room'[r].at = "opening" /\ \A q \in Rooms \ {r} : room'[q] = room[q]
  BY <1>1 DEF OpenLocked, RoomFacts
<1>4. CodesTypeOK'
  BY <1>2 DEF OpenLocked, Inv, CodesTypeOK, bounds
<1> QED BY <1>3, <1>4, DrawStarts DEF OpenLocked

\* A wrong code is counted, and with the last a draw starts.
LEMMA WrongStep == ASSUME Inv, NEW r \in Rooms, EnterWrong(r) PROVE Inv'
<1>1. room \in [Rooms -> RoomFacts] /\ draw \in [Draws -> DrawFacts]
  BY DEF Inv, CodesTypeOK
<1>2. room[r].at \in RoomStates /\ room[r].code \in Codes \cup {Nobody}
  BY <1>1 DEF RoomFacts
<1>3. room' \in [Rooms -> RoomFacts]
  BY <1>1, <1>2, RoomType DEF EnterWrong
<1>4. /\ room'[r].at = room[r].at /\ room'[r].code = room[r].code /\ room'[r].due = room[r].due
      /\ \A q \in Rooms \ {r} : room'[q] = room[q]
  BY <1>1 DEF EnterWrong, RoomFacts
<1>5. wrongs' \in 0 .. MaxWrong
  BY CodesAssumption DEF EnterWrong, Inv, CodesTypeOK
<1>6. CASE draw' = draw
  <2>1. CodesTypeOK'
    BY <1>3, <1>5, <1>6 DEF EnterWrong, Inv, CodesTypeOK
  <2>2. \A q \in Rooms : Showing(q)' => Showing(q)
    BY <1>4 DEF Showing, EnterWrong
  <2> QED BY <1>4, <1>6, <2>1, <2>2, RoomStep DEF EnterWrong
<1>7. ASSUME NEW t \in Draws, draw[t] = NoDraw, draw' = [draw EXCEPT ![t] = NewDraw(r, FALSE)]
      PROVE  Inv'
  <2>1. draw' \in [Draws -> DrawFacts]
    BY <1>1, <1>7, DrawType
  <2>2. CodesTypeOK'
    BY <1>3, <1>5, <2>1 DEF EnterWrong, Inv, CodesTypeOK
  <2>3. room[r].at \notin {"none", "opening"}
    BY DEF EnterWrong, Waiting
  <2> QED BY <1>4, <1>7, <2>2, <2>3, DrawStarts DEF EnterWrong
<1> QED BY <1>6, <1>7 DEF EnterWrong

\* What it is for a draw to be done with.
LEMMA DrawEnds ==
  ASSUME CodesTypeOK, NEW t \in Draws, draw[t].room \in Rooms, draw' = [draw EXCEPT ![t] = NoDraw]
  PROVE  /\ draw' \in [Draws -> DrawFacts]
         /\ draw'[t].at = "none" /\ \A u \in Draws \ {t} : draw'[u] = draw[u]
         /\ \A u \in Draws : draw'[u].at # "none" => u # t /\ draw'[u] = draw[u]
<1>1. draw \in [Draws -> DrawFacts]
  BY DEF CodesTypeOK
<1>2. draw' \in [Draws -> DrawFacts]
  BY <1>1, DrawType
<1>3. NoDraw.at = "none"
  BY DEF NoDraw
<1> QED BY <1>1, <1>2, <1>3

\* A code drawn becomes the one shown, and the one shown before, if any, is freed: the new one
\* is held and not on its way out, and the old one is freed for the only time.
LEMMA CodeShown ==
  ASSUME Inv, CodesTypeOK', UNCHANGED <<claim, again>>, NEW r \in Rooms, NEW t \in Draws,
         draw[t].at = "drawn", draw[t].room = r,
         draw' = [draw EXCEPT ![t] = NoDraw], \A q \in Rooms \ {r} : room'[q] = room[q],
         room'[r].code = draw[t].code, room'[r].due = room[r].due,
         \/ room[r].at = "opening" /\ room'[r].at = "waiting" /\ freeing' = freeing
         \/ /\ room[r].at \notin {"none", "opening"} /\ room'[r].at = room[r].at
            /\ freeing' = Freed(r, room[r].code)
  PROVE  Inv'
<1> DEFINE old == room[r].code
           new == draw[t].code
<1>1. /\ draw'[t].at = "none"
      /\ \A u \in Draws : draw'[u].at # "none" => u # t /\ draw'[u] = draw[u]
  BY DrawEnds DEF Inv
<1>2. \A q \in Rooms, c \in Codes : q # r \/ (room[r].at # "opening" => c # old) =>
        freeing'[<<q, c>>] = freeing[<<q, c>>]
  BY FreedOther DEF Inv
<1>3. \A q \in Rooms \ {r} : Showing(q)' = Showing(q)
  BY DEF Showing
<1>4. Showing(r)' => Showing(r)
  BY DEF Showing
<1>5. DrawsInPlace'
  <2>1. ASSUME NEW u \in Draws, draw'[u].at # "none"
        PROVE  /\ draw'[u] = draw[u] /\ draw[u].room \in Rooms /\ room'[draw[u].room].at # "none"
               /\ draw[u].first <=> (room'[draw[u].room].at = "opening")
               /\ draw[u].at = "drawing" => draw[u].left # 0
               /\ room'[draw[u].room].at = "opening" => room[draw[u].room].at = "opening"
    <3>1. u # t /\ draw'[u] = draw[u]
      BY <2>1, <1>1
    <3>2. CASE draw[u].room = r
      <4>1. room[r].at # "opening"
        BY <2>1, <3>1, <3>2 DEF Inv, DrawsInPlace
      <4> QED BY <2>1, <3>1, <3>2, <4>1 DEF Inv, DrawsInPlace
    <3>3. CASE draw[u].room # r
      BY <2>1, <3>1, <3>3 DEF Inv, DrawsInPlace
    <3> QED BY <3>1, <3>2, <3>3
  <2>2. \A u, v \in Draws :
          /\ draw'[u].at # "none" /\ draw'[v].at # "none" /\ draw'[u].room = draw'[v].room
          /\ room'[draw'[u].room].at = "opening"
          => u = v
    BY <2>1 DEF Inv, DrawsInPlace
  <2>3. \A q \in Rooms, c \in Codes : room'[q].at = "none" => freeing'[<<q, c>>] = 0
    BY <1>2 DEF Inv, DrawsInPlace
  <2> QED BY <2>1, <2>2, <2>3 DEF DrawsInPlace
<1>6. Showing(r) =>
        /\ new \in Codes /\ claim[new] = r /\ freeing[<<r, new>>] = 0
        /\ room[r].at = "waiting" =>
             new # old /\ old \in Codes /\ claim[old] = r /\ freeing[<<r, old>>] = 0
  BY DEF Inv, DrawnIsHeld, ShownIsHeld
<1>7. Showing(r)' => room[r].at = "opening" \/ room[r].at = "waiting"
  BY DEF Showing
<1>8. Showing(r)' => freeing'[<<r, new>>] = 0
  BY <1>2, <1>4, <1>6, <1>7
<1> HIDE DEF old, new
<1>9. ShownIsHeld'
  <2> SUFFICES ASSUME NEW q \in Rooms, Showing(q)', room'[q].at = "waiting"
               PROVE  /\ room'[q].code \in Codes /\ claim[room'[q].code] = q
                      /\ freeing'[<<q, room'[q].code>>] = 0
    BY DEF ShownIsHeld
  <2>1. CASE q = r
    BY <2>1, <1>4, <1>6, <1>8 DEF new
  <2>2. CASE q # r
    BY <2>2, <1>2, <1>3 DEF Inv, ShownIsHeld
  <2> QED BY <2>1, <2>2
<1>10. DrawnIsHeld'
  <2> SUFFICES ASSUME NEW u \in Draws, u # t, draw[u].at = "drawn", NEW q \in Rooms,
                      q = draw[u].room, Showing(q)'
               PROVE  /\ draw[u].code \in Codes /\ claim[draw[u].code] = q
                      /\ freeing'[<<q, draw[u].code>>] = 0
                      /\ room'[q].at = "waiting" => draw[u].code # room'[q].code
    BY <1>1 DEF DrawnIsHeld, Showing, Inv, DrawsInPlace
  <2>1. Showing(q) /\ draw[u].code \in Codes /\ claim[draw[u].code] = q
        /\ freeing[<<q, draw[u].code>>] = 0
    BY <1>3, <1>4 DEF Inv, DrawnIsHeld
  <2>2. CASE q = r
    <3>1. draw[u].code # new
      <4>1. draw[t].room = draw[u].room /\ Showing(draw[u].room)
        BY <2>1, <2>2
      <4> QED BY <4>1 DEF Inv, DrawnApart, new
    <3>2. room[r].at = "waiting"
      <4>1. draw[t].at # "none" /\ draw[u].at # "none" /\ draw[u].room = draw[t].room
        BY <2>2
      <4>2. room[draw[t].room].at # "opening"
        BY <4>1 DEF Inv, DrawsInPlace
      <4> QED BY <4>2, <1>7, <2>2
    <3>3. draw[u].code # old
      <4>1. Showing(draw[u].room) /\ room[draw[u].room].at = "waiting"
        BY <2>1, <2>2, <3>2
      <4>2. draw[u].code # room[draw[u].room].code
        BY <4>1 DEF Inv, DrawnIsHeld
      <4> QED BY <4>2, <2>2 DEF old
    <3> QED BY <1>2, <2>1, <2>2, <3>1, <3>3 DEF new
  <2>3. CASE q # r
    BY <2>1, <2>3, <1>2 DEF Inv, DrawnIsHeld
  <2> QED BY <2>2, <2>3
<1>11. DrawnApart'
  <2> SUFFICES ASSUME NEW u \in Draws, NEW v \in Draws, u # v, draw[u].at = "drawn",
                      draw[v].at = "drawn", NEW q \in Rooms, q = draw[u].room,
                      q = draw[v].room, Showing(q)'
               PROVE  draw[u].code # draw[v].code
    BY <1>1 DEF DrawnApart, Showing, Inv, DrawsInPlace
  <2>1. Showing(q)
    BY <1>3, <1>4
  <2> QED BY <2>1 DEF Inv, DrawnApart
<1>12. FreedOnce'
  <2> SUFFICES ASSUME NEW q \in Rooms, NEW c \in Codes, Showing(q)', freeing'[<<q, c>>] # 0
               PROVE  freeing'[<<q, c>>] = 1 /\ claim[c] = q
    BY DEF FreedOnce
  <2>1. Showing(q)
    BY <1>3, <1>4
  <2>2. CASE q = r /\ room[r].at = "waiting" /\ c = old
    <3>1. freeing'[<<q, c>>] = freeing[<<q, c>>] + 1
      BY <2>2 DEF Freed, Inv, CodesTypeOK, old
    <3> QED BY <2>1, <2>2, <3>1, <1>6
  <2>3. CASE ~(q = r /\ room[r].at = "waiting" /\ c = old)
    <3>1. freeing'[<<q, c>>] = freeing[<<q, c>>]
      BY <2>3, <1>2, <1>7
    <3> QED BY <2>1, <3>1 DEF Inv, FreedOnce
  <2> QED BY <2>2, <2>3
<1> QED BY <1>5, <1>9, <1>10, <1>11, <1>12 DEF Inv

\* A draw that is done with, and nothing shown or freed that may be shown.
LEMMA DrawDropped ==
  ASSUME Inv, CodesTypeOK', UNCHANGED <<claim, again>>, NEW r \in Rooms, NEW t \in Draws,
         draw[t].at # "none", draw[t].room = r, draw' = [draw EXCEPT ![t] = NoDraw],
         \A q \in Rooms \ {r} : room'[q] = room[q],
         room[r].at # "none", room'[r].at # "none",
         room'[r].at = "opening" => room[r].at = "opening",
         Showing(r)' =>
           Showing(r) /\ room'[r].at = room[r].at /\ room'[r].code = room[r].code,
         \A q \in Rooms, c \in Codes : q # r \/ Showing(r)' =>
           freeing'[<<q, c>>] = freeing[<<q, c>>]
  PROVE  Inv'
<1>1. /\ draw'[t].at = "none"
      /\ \A u \in Draws : draw'[u].at # "none" => u # t /\ draw'[u] = draw[u]
  BY DrawEnds DEF Inv
<1>2. DrawsInPlace'
  <2>1. ASSUME NEW u \in Draws, draw'[u].at # "none"
        PROVE  /\ draw'[u] = draw[u] /\ draw[u].room \in Rooms /\ room'[draw[u].room].at # "none"
               /\ draw[u].first <=> (room'[draw[u].room].at = "opening")
               /\ draw[u].at = "drawing" => draw[u].left # 0
               /\ room'[draw[u].room].at = "opening" => room[draw[u].room].at = "opening"
    <3>1. u # t /\ draw'[u] = draw[u]
      BY <2>1, <1>1
    <3>2. CASE draw[u].room = r
      <4>1. room[r].at # "opening"
        BY <2>1, <3>1, <3>2 DEF Inv, DrawsInPlace
      <4> QED BY <2>1, <3>1, <3>2, <4>1 DEF Inv, DrawsInPlace
    <3>3. CASE draw[u].room # r
      BY <2>1, <3>1, <3>3 DEF Inv, DrawsInPlace
    <3> QED BY <3>1, <3>2, <3>3
  <2>2. \A u, v \in Draws :
          /\ draw'[u].at # "none" /\ draw'[v].at # "none" /\ draw'[u].room = draw'[v].room
          /\ room'[draw'[u].room].at = "opening"
          => u = v
    BY <2>1 DEF Inv, DrawsInPlace
  <2>3. \A q \in Rooms, c \in Codes : room'[q].at = "none" => freeing'[<<q, c>>] = 0
    BY DEF Inv, DrawsInPlace
  <2> QED BY <2>1, <2>2, <2>3 DEF DrawsInPlace
<1>3. \A q \in Rooms : Showing(q)' =>
        Showing(q) /\ room'[q].at = room[q].at /\ room'[q].code = room[q].code
  BY DEF Showing
<1>4. \A u \in Draws : draw'[u].at = "drawn" => draw'[u] = draw[u]
  BY <1>1
<1>5. Held'
  BY <1>3, <1>4, HeldStays
<1> QED BY <1>2, <1>5 DEF Inv, Held

\* /open shows its code, or is refused.
LEMMA OpenedStep == ASSUME Inv, NEW t \in Draws, Opened(t) PROVE Inv'
<1>0. PICK r \in Rooms : r = draw[t].room
  BY DEF Opened, Inv, DrawsInPlace
<1>1. /\ room \in [Rooms -> RoomFacts] /\ draw \in [Draws -> DrawFacts]
      /\ draw[t].at # "none" /\ room[r].at = "opening" /\ draw[t].code \in Codes \cup {Nobody}
      /\ draw' = [draw EXCEPT ![t] = NoDraw] /\ draw' \in [Draws -> DrawFacts]
      /\ UNCHANGED <<claim, codeOnly, alarm, freeing, bounds, again>>
  <2>1. room \in [Rooms -> RoomFacts] /\ draw \in [Draws -> DrawFacts]
    BY DEF Inv, CodesTypeOK
  <2>2. draw[t].at # "none" /\ draw[t].code \in Codes \cup {Nobody}
    BY <2>1 DEF Opened, DrawFacts
  <2>3. room[r].at = "opening"
    BY <1>0, <2>2 DEF Opened, Inv, DrawsInPlace
  <2>4. draw' = [draw EXCEPT ![t] = NoDraw]
    BY DEF Opened
  <2> QED BY <2>1, <2>2, <2>3, <2>4, <1>0, DrawEnds DEF Opened, Inv
<1>2. CASE /\ draw[t].at = "drawn"
           /\ room' = [room EXCEPT ![r].at = "waiting", ![r].code = draw[t].code]
  <2>1. room' \in [Rooms -> RoomFacts]
    <3>1. "waiting" \in RoomStates
      BY DEF RoomStates
    <3> QED BY <1>1, <1>2, <3>1, RoomType
  <2>2. /\ room'[r].at = "waiting" /\ room'[r].code = draw[t].code /\ room'[r].due = room[r].due
        /\ \A q \in Rooms \ {r} : room'[q] = room[q]
    BY <1>1, <1>2 DEF RoomFacts
  <2>3. CodesTypeOK'
    BY <1>1, <2>1 DEF Inv, CodesTypeOK, bounds
  <2> QED BY <1>0, <1>1, <1>2, <2>2, <2>3, CodeShown
<1>3. CASE draw[t].at = "failed" /\ room' = [room EXCEPT ![r].at = "over"]
  <2>1. /\ room' \in [Rooms -> RoomFacts] /\ room'[r].at = "over"
        /\ \A q \in Rooms \ {r} : room'[q] = room[q]
    BY <1>3, AtSet DEF RoomStates, Inv
  <2>2. CodesTypeOK'
    BY <1>1, <2>1 DEF Inv, CodesTypeOK, bounds
  <2>3. ~Showing(r)'
    BY <2>1 DEF Showing
  <2> QED BY <1>0, <1>1, <2>1, <2>2, <2>3, DrawDropped
<1> QED BY <1>0, <1>2, <1>3 DEF Opened

\* redraw shows its code and frees the old one, frees its code, or keeps the old one.
LEMMA RedrawnStep == ASSUME Inv, NEW t \in Draws, Redrawn(t) PROVE Inv'
<1>0. PICK r \in Rooms : r = draw[t].room
  BY DEF Redrawn, Inv, DrawsInPlace
<1>1. /\ room \in [Rooms -> RoomFacts] /\ draw \in [Draws -> DrawFacts]
      /\ draw[t].at # "none" /\ draw[t].code \in Codes \cup {Nobody} /\ room[r].at # "none"
      /\ draw' = [draw EXCEPT ![t] = NoDraw] /\ draw' \in [Draws -> DrawFacts]
      /\ UNCHANGED <<claim, codeOnly, alarm, wrongs, lost, again>> /\ inGame' \subseteq Rooms
  <2>1. room \in [Rooms -> RoomFacts] /\ draw \in [Draws -> DrawFacts]
    BY DEF Inv, CodesTypeOK
  <2>2. draw[t].at # "none" /\ draw[t].code \in Codes \cup {Nobody}
    BY <2>1 DEF Redrawn, DrawFacts
  <2>3. room[r].at # "none"
    BY <1>0, <2>2 DEF Inv, DrawsInPlace
  <2>4. draw' = [draw EXCEPT ![t] = NoDraw]
    BY DEF Redrawn
  <2>5. inGame' \subseteq Rooms
    BY <1>0 DEF Redrawn, Inv, CodesTypeOK
  <2> QED BY <2>1, <2>2, <2>3, <2>4, <2>5, <1>0, DrawEnds DEF Redrawn, Inv
<1>2. CASE /\ draw[t].at = "drawn" /\ StillAlone(r)
           /\ room' = [room EXCEPT ![r].code = draw[t].code, ![r].tried = 0]
           /\ freeing' = Freed(r, room[r].code)
  <2>1. room' \in [Rooms -> RoomFacts]
    <3>1. "over" \in RoomStates
      BY DEF RoomStates
    <3> QED BY <1>1, <1>2, <3>1, RoomType
  <2>2. /\ room'[r].at = room[r].at /\ room'[r].code = draw[t].code /\ room'[r].due = room[r].due
        /\ \A q \in Rooms \ {r} : room'[q] = room[q]
    BY <1>1, <1>2 DEF RoomFacts
  <2>3. CodesTypeOK'
    BY <1>1, <1>2, <2>1, FreedType DEF Inv, CodesTypeOK, bounds
  <2>4. room[r].at \notin {"none", "opening"}
    BY <1>2 DEF StillAlone, Waiting
  <2> QED BY <1>0, <1>1, <1>2, <2>2, <2>3, <2>4, CodeShown
<1>3. CASE /\ draw[t].at = "drawn" /\ ~StillAlone(r)
           /\ freeing' = Freed(r, draw[t].code) /\ room' = room
  <2>1. CodesTypeOK'
    BY <1>1, <1>3, FreedType DEF Inv, CodesTypeOK, bounds
  <2>2. room[r].at # "opening"
    <3>1. draw[t].at # "none" /\ ~draw[t].first
      BY <1>1 DEF Redrawn
    <3>2. draw[t].first <=> (room[draw[t].room].at = "opening")
      BY <3>1 DEF Inv, DrawsInPlace
    <3> QED BY <1>0, <3>1, <3>2
  <2>3. ~Showing(r)'
    BY <1>3, <2>2 DEF Showing, StillAlone, Waiting
  <2>4. \A q \in Rooms, c \in Codes : q # r => freeing'[<<q, c>>] = freeing[<<q, c>>]
    BY <1>3, FreedOther DEF Inv
  <2> QED BY <1>0, <1>1, <1>3, <2>1, <2>3, <2>4, DrawDropped
<1>4. CASE draw[t].at = "failed" /\ KeepOld(r) /\ UNCHANGED freeing
  <2>1. /\ room' \in [Rooms -> RoomFacts] /\ \A q \in Rooms \ {r} : room'[q] = room[q]
        /\ room'[r].at = room[r].at /\ room'[r].code = room[r].code /\ room'[r].due = room[r].due
    <3>1. CASE StillAlone(r)
      <4>1. room' = [room EXCEPT ![r].wrong = Tries - 1]
        BY <1>4, <3>1 DEF KeepOld
      <4>2. room' \in [Rooms -> RoomFacts]
        BY <1>1, <4>1, RoomType DEF RoomStates
      <4> QED BY <1>1, <4>1, <4>2 DEF RoomFacts
    <3>2. CASE ~StillAlone(r)
      BY <1>1, <1>4, <3>2 DEF KeepOld
    <3> QED BY <3>1, <3>2
  <2>2. CodesTypeOK'
    BY <1>1, <1>4, <2>1 DEF Inv, CodesTypeOK, bounds
  <2>3. Showing(r)' => Showing(r)
    BY <1>1, <2>1 DEF Showing
  <2> QED BY <1>0, <1>1, <1>4, <2>1, <2>2, <2>3, DrawDropped
<1> QED BY <1>0, <1>2, <1>3, <1>4 DEF Redrawn, Renew

-----------------------------------------------------------------------------
(* The theorems *)

\* At first there are no rooms, draws or claims.
LEMMA InvInit == CodesInit => Inv
<1> SUFFICES ASSUME CodesInit PROVE Inv
  OBVIOUS
<1>1. NoRoom \in RoomFacts /\ NoDraw \in DrawFacts /\ NoRoom.at = "none" /\ NoDraw.at = "none"
  BY CodesAssumption DEF NoRoom, NoDraw, RoomFacts, DrawFacts, RoomStates
<1>2. CodesTypeOK
  BY <1>1, CodesAssumption DEF CodesInit, CodesTypeOK
<1>3. /\ \A r \in Rooms : room[r].at = "none"
      /\ \A t \in Draws : draw[t].at = "none"
      /\ \A p \in Rooms \X Codes : freeing[p] = 0
  BY <1>1 DEF CodesInit
<1>4. DrawsInPlace
  BY <1>3 DEF DrawsInPlace
<1>5. ShownIsHeld /\ DrawnIsHeld /\ DrawnApart
  BY <1>3 DEF ShownIsHeld, DrawnIsHeld, DrawnApart
<1>6. FreedOnce
  BY <1>3 DEF FreedOnce
<1> QED BY <1>2, <1>4, <1>5, <1>6 DEF Inv

\* Every step keeps the invariant.
LEMMA InvNext == Inv /\ [CodesNext]_codesVars => Inv'
<1> SUFFICES ASSUME Inv, [CodesNext]_codesVars PROVE Inv'
  OBVIOUS
<1>1. ASSUME NEW c \in Codes, Host(c) \/ Guest(c) \/ CodeOnlyEnds(c) \/ CodeAlarm(c) PROVE Inv'
  BY <1>1, CodeOnlyStep
<1>2. ASSUME NEW r \in Rooms, NEW c \in Codes, Release(r, c) \/ LoseRelease(r, c) PROVE Inv'
  BY <1>2, ReleaseStep
<1>3. ASSUME NEW t \in Draws, Ask(t) \/ AskLost(t) \/ Opened(t) \/ Redrawn(t) PROVE Inv'
  BY <1>3, AskStep, AskLostStep, OpenedStep, RedrawnStep
<1>4. ASSUME NEW r \in Rooms, NEW t \in Draws, OpenLocked(r, t) PROVE Inv'
  BY <1>4, OpenStep
<1>5. ASSUME NEW r \in Rooms,
             \/ EnterRight(r) \/ EnterWrong(r) \/ HostLeaves(r)
             \/ Expire(r) \/ Expired(r) \/ GameMoves(r)
      PROVE  Inv'
  BY <1>5, RoomMovesStep, WrongStep
<1>6. CASE Tick
  BY <1>6, TickStep
<1>7. CASE UNCHANGED codesVars
  <2>1. CodesTypeOK'
    BY <1>7 DEF codesVars, bounds, Inv, CodesTypeOK
  <2> QED BY <1>7, <2>1, ObjectStep DEF codesVars
<1> QED BY <1>1, <1>2, <1>3, <1>4, <1>5, <1>6, <1>7 DEF CodesNext

\* The invariant holds of every behaviour of the rooms and their codes.
THEOREM HeldThroughout == CodesSpec => []Inv
BY InvInit, InvNext, PTL DEF CodesSpec

\* Every room, draw and claim keeps its type.
THEOREM CodesTyped == CodesSpec => []CodesTypeOK
<1>1. Inv => CodesTypeOK
  BY DEF Inv
<1> QED BY <1>1, HeldThroughout, PTL

\* A code that a waiting room shows is held for that room while its time is not up, whatever
\* calls are late, lost or answered after the room has moved on, unless the room claimed a code
\* it held already: the code leads to that room and to no other.
THEOREM CodeFindsItsRoom == CodesSpec => []FoundByCode
<1>1. Inv => FoundByCode
  BY DEF Inv, ShownIsHeld, FoundByCode, Showing
<1> QED BY <1>1, HeldThroughout, PTL

\* No code is both a code-only room's and a listed room's, through lapses, lost calls and late
\* alarms.
THEOREM OneKindOnly == CodesSpec => []ClaimOrGame
<1>1. CodesInit => ClaimOrGame
  BY DEF CodesInit, ClaimOrGame
<1>2. Inv /\ ClaimOrGame /\ [CodesNext]_codesVars => ClaimOrGame'
  <2> SUFFICES ASSUME CodesTypeOK, ClaimOrGame, [CodesNext]_codesVars PROVE ClaimOrGame'
    BY DEF Inv
  <2> USE CodesAssumption DEF CodesTypeOK, ClaimOrGame
  <2>1. ASSUME NEW c \in Codes, Host(c) \/ Guest(c) \/ CodeOnlyEnds(c) \/ CodeAlarm(c)
        PROVE  ClaimOrGame'
    BY <2>1 DEF Host, Guest, CodeOnlyEnds, CodeAlarm, Lapsed
  <2>2. ASSUME NEW r \in Rooms, NEW c \in Codes, Release(r, c) \/ LoseRelease(r, c)
        PROVE  ClaimOrGame'
    BY <2>2 DEF Release, LoseRelease
  <2>3. ASSUME NEW r, NEW c \in Codes, CanClaim(r, c), Claim(r, c), UNCHANGED codeOnly
        PROVE  ClaimOrGame'
    BY <2>3 DEF CanClaim, Claim
  <2>4. ASSUME NEW t \in Draws, Ask(t) \/ AskLost(t) PROVE ClaimOrGame'
    BY <2>3, <2>4 DEF Ask, AskLost
  <2>5. CASE UNCHANGED <<claim, codeOnly>>
    BY <2>5
  <2>6. ASSUME NEW t \in Draws, Opened(t) \/ Redrawn(t) PROVE UNCHANGED <<claim, codeOnly>>
    BY <2>6 DEF Opened, Redrawn
  <2>7. ASSUME NEW r \in Rooms,
               \/ \E t \in Draws : OpenLocked(r, t)
               \/ EnterRight(r) \/ EnterWrong(r) \/ HostLeaves(r)
               \/ Expire(r) \/ Expired(r) \/ GameMoves(r)
        PROVE  UNCHANGED <<claim, codeOnly>>
    BY <2>7 DEF OpenLocked, EnterRight, EnterWrong, HostLeaves, Expire, Expired, GameMoves
  <2>8. CASE Tick \/ UNCHANGED codesVars
    BY <2>8 DEF Tick, codesVars
  <2> QED BY <2>1, <2>2, <2>4, <2>5, <2>6, <2>7, <2>8 DEF CodesNext
<1> QED BY <1>1, <1>2, HeldThroughout, PTL DEF CodesSpec

-----------------------------------------------------------------------------
(* What is left behind, and codes worn out *)

\* A seat is held only where seats are, a room expires only when its time is up, a room not yet
\* waiting was given no wrong code and took none in a game, and a claim is for a room opened.
PlacesKnown ==
  \A r \in Rooms :
    /\ room[r].at = "away" => r \in Resuming
    /\ room[r].at = "expiring" => room[r].due = 0
    /\ room[r].at \in {"none", "opening"} => room[r].tried = 0 /\ r \notin inGame
    /\ \A c \in Codes : claim[c] = r => room[r].at # "none"

\* The room has the code, shown while it waits or taken with a guest away.
Has(r, c) == room[r].code = c /\ (room[r].at = "waiting" \/ r \in inGame)

\* Until a call fails, a code held for a room whose time is not up is one being freed, one drawn
\* and not yet used, or the one the room has.
HeldForCause ==
  lost = 0 =>
    \A r \in Rooms, c \in Codes : claim[c] = r /\ room[r].due > 0 =>
      \/ freeing[<<r, c>>] > 0
      \/ \E t \in Draws : draw[t].at = "drawn" /\ draw[t].room = r /\ draw[t].code = c
      \/ Has(r, c)

\* Without a draw under way, the count of wrong codes is no less than the tries its code took,
\* or one short of the last.
CountCovers ==
  \A r \in Rooms : Waiting(r) /\ DrawsOf(r) = {} =>
    room[r].tried <= room[r].wrong \/ room[r].wrong = Tries - 1

\* What a draw in place says of its room.
LEMMA DrawsRoom ==
  ASSUME Inv, NEW t \in Draws, draw[t].at # "none"
  PROVE  /\ draw[t].room \in Rooms /\ room[draw[t].room].at # "none"
         /\ draw[t].first <=> (room[draw[t].room].at = "opening")
BY DEF Inv, DrawsInPlace

\* What the steps of a draw that is done with do to its room.
LEMMA DrawDone ==
  ASSUME Inv, NEW t \in Draws, Opened(t) \/ Redrawn(t), NEW r \in Rooms, r = draw[t].room
  PROVE  /\ \A q \in Rooms \ {r} : room'[q] = room[q]
         /\ draw' = [draw EXCEPT ![t] = NoDraw]
         /\ room'[r].due = room[r].due
         /\ room[r].at # "none"
         /\ inGame \subseteq inGame'
         /\ room[r].at = "away" /\ draw[t].at = "drawn" => r \in inGame'
         /\ \/ /\ room[r].at = "opening" /\ draw[t].at = "drawn" /\ room'[r].at = "waiting"
               /\ room'[r].code = draw[t].code /\ room'[r].tried = room[r].tried
               /\ freeing' = freeing
            \/ /\ room[r].at = "opening" /\ draw[t].at = "failed" /\ room'[r].at = "over"
               /\ freeing' = freeing
            \/ /\ room[r].at # "opening" /\ draw[t].at = "drawn" /\ StillAlone(r)
               /\ room'[r].at = room[r].at /\ room'[r].code = draw[t].code /\ room'[r].tried = 0
               /\ freeing' = Freed(r, room[r].code)
            \/ /\ room[r].at # "opening" /\ draw[t].at = "drawn" /\ ~StillAlone(r)
               /\ room' = room /\ freeing' = Freed(r, draw[t].code)
            \/ /\ room[r].at # "opening" /\ draw[t].at = "failed" /\ StillAlone(r)
               /\ room'[r].at = room[r].at /\ room'[r].code = room[r].code
               /\ room'[r].tried = room[r].tried /\ room'[r].wrong = Tries - 1
               /\ freeing' = freeing
            \/ /\ room[r].at # "opening" /\ draw[t].at = "failed" /\ ~StillAlone(r)
               /\ room' = room /\ freeing' = freeing
<1>1. /\ room \in [Rooms -> RoomFacts] /\ room[r] \in RoomFacts
      /\ draw[t].at # "none"
  BY DEF Inv, CodesTypeOK, Opened, Redrawn
<1>2. /\ room[r].at # "none"
      /\ draw[t].first <=> (room[r].at = "opening")
  BY <1>1, DrawsRoom
<1>3. CASE Opened(t)
  <2>1. CASE /\ draw[t].at = "drawn"
             /\ room' = [room EXCEPT ![r].at = "waiting", ![r].code = draw[t].code]
    BY <1>1, <1>2, <1>3, <2>1 DEF Opened, RoomFacts, bounds
  <2>2. CASE draw[t].at = "failed" /\ room' = [room EXCEPT ![r].at = "over"]
    BY <1>1, <1>2, <1>3, <2>2 DEF Opened, RoomFacts, bounds
  <2> QED BY <1>3, <2>1, <2>2 DEF Opened
<1>4. CASE Redrawn(t)
  <2>1. CASE /\ draw[t].at = "drawn" /\ StillAlone(r)
             /\ room' = [room EXCEPT ![r].code = draw[t].code, ![r].tried = 0]
             /\ freeing' = Freed(r, room[r].code)
    BY <1>1, <1>2, <1>4, <2>1 DEF Redrawn, RoomFacts
  <2>2. CASE /\ draw[t].at = "drawn" /\ ~StillAlone(r)
             /\ freeing' = Freed(r, draw[t].code) /\ room' = room
    BY <1>1, <1>2, <1>4, <2>2 DEF Redrawn
  <2>3. CASE draw[t].at = "failed" /\ KeepOld(r) /\ UNCHANGED freeing
    BY <1>1, <1>2, <1>4, <2>3 DEF Redrawn, RoomFacts, KeepOld
  <2> QED BY <1>4, <2>1, <2>2, <2>3 DEF Redrawn, Renew
<1> QED BY <1>3, <1>4

\* What the steps of one listed room do to it and to the codes it frees.
LEMMA RoomMoved ==
  ASSUME Inv, NEW r \in Rooms,
         EnterRight(r) \/ HostLeaves(r) \/ Expire(r) \/ Expired(r) \/ GameMoves(r)
  PROVE  /\ \A q \in Rooms \ {r} : room'[q] = room[q]
         /\ room[r].at # "none"
         /\ room'[r].at \notin {"none", "opening", "waiting"}
         /\ room'[r].at = "away" => r \in Resuming
         /\ room'[r].at = "expiring" => room[r].due = 0
         /\ room'[r].due = room[r].due /\ room'[r].code = room[r].code
         /\ room'[r].tried = room[r].tried /\ room'[r].wrong = room[r].wrong
         /\ Waiting(r)' => Waiting(r)
         /\ freeing' = freeing \/ freeing' = Freed(r, room[r].code)
         /\ room[r].at = "waiting" => freeing' = Freed(r, room[r].code)
         /\ UNCHANGED <<draw, claim, lost, inGame, again>>
<1> USE DEF Inv, CodesTypeOK, RoomFacts, RoomStates, bounds
<1>1. CASE EnterRight(r)
  BY <1>1 DEF EnterRight, Waiting
<1>2. CASE HostLeaves(r)
  BY <1>2 DEF HostLeaves, StillAlone, Waiting
<1>3. CASE Expire(r)
  BY <1>3 DEF Expire, Waiting
<1>4. CASE Expired(r)
  BY <1>4 DEF Expired, Waiting
<1>5. CASE GameMoves(r)
  BY <1>5 DEF GameMoves, Waiting
<1> QED BY <1>1, <1>2, <1>3, <1>4, <1>5

\* What a wrong code does to its room.
LEMMA WrongCounted ==
  ASSUME Inv, NEW r \in Rooms, EnterWrong(r)
  PROVE  /\ \A q \in Rooms \ {r} : room'[q] = room[q]
         /\ Waiting(r) /\ room'[r].at = room[r].at /\ room'[r].code = room[r].code
         /\ room'[r].due = room[r].due
         /\ room'[r].tried <= room[r].tried + 1 /\ room'[r].tried \in Nat
         /\ room'[r].wrong = Counted(room[r].wrong)
         /\ UNCHANGED <<claim, freeing, lost, inGame, again>>
<1>1. room \in [Rooms -> RoomFacts] /\ room[r] \in RoomFacts
  BY DEF Inv, CodesTypeOK
<1> QED BY <1>1, CodesAssumption DEF EnterWrong, RoomFacts

\* What time does to a room.
LEMMA TickCounts ==
  ASSUME Inv, Tick, NEW r \in Rooms
  PROVE  /\ room'[r].at = room[r].at /\ room'[r].code = room[r].code
         /\ room'[r].tried = room[r].tried /\ room'[r].wrong = room[r].wrong
         /\ room'[r].due > 0 => room[r].due > 0
         /\ room[r].due = 0 => room'[r].due = 0
         /\ UNCHANGED <<draw, claim, freeing, lost, inGame, again>>
<1>1. room[r] \in RoomFacts
  BY DEF Inv, CodesTypeOK
<1> QED BY <1>1 DEF Tick, RoomFacts, bounds

\* What opening a locked room does.
LEMMA OpensLocked ==
  ASSUME Inv, NEW r \in Rooms, NEW t \in Draws, OpenLocked(r, t)
  PROVE  /\ \A q \in Rooms \ {r} : room'[q] = room[q]
         /\ room[r].at = "none" /\ room'[r].at = "opening" /\ room'[r].tried = room[r].tried
         /\ UNCHANGED <<claim, freeing, lost, inGame, again>>
<1>1. room \in [Rooms -> RoomFacts] /\ room[r] \in RoomFacts
  BY DEF Inv, CodesTypeOK
<1> QED BY <1>1 DEF OpenLocked, RoomFacts, bounds

\* Places are known after every step.
LEMMA PlacesStep ==
  ASSUME Inv, PlacesKnown, [CodesNext]_codesVars
  PROVE  PlacesKnown'
<1>1. \A r \in Rooms, c \in Codes : claim[c] = r => room[r].at # "none"
  BY DEF PlacesKnown
<1>2. ASSUME NEW c \in Codes, Host(c) \/ Guest(c) \/ CodeOnlyEnds(c) \/ CodeAlarm(c)
      PROVE  PlacesKnown'
  <2>1. room' = room /\ inGame' = inGame /\ \A d \in Codes : claim'[d] = claim[d] \/ claim'[d] = Nobody
    BY <1>2 DEF Host, Guest, CodeOnlyEnds, CodeAlarm, Inv, CodesTypeOK, bounds
  <2> QED BY <2>1, CodesAssumption DEF PlacesKnown
<1>3. ASSUME NEW r \in Rooms, NEW c \in Codes, Release(r, c) \/ LoseRelease(r, c)
      PROVE  PlacesKnown'
  <2>1. room' = room /\ inGame' = inGame /\ \A d \in Codes : claim'[d] = claim[d] \/ claim'[d] = Nobody
    BY <1>3 DEF Release, LoseRelease, Inv, CodesTypeOK, bounds
  <2> QED BY <2>1, CodesAssumption DEF PlacesKnown
<1>4. ASSUME NEW t \in Draws, Ask(t) \/ AskLost(t) PROVE PlacesKnown'
  <2>1. room' = room /\ inGame' = inGame /\ draw[t].at # "none"
    BY <1>4 DEF Ask, AskLost, bounds
  <2>2. room[draw[t].room].at # "none"
    BY <2>1, DrawsRoom
  <2>3. \A d \in Codes : claim'[d] = claim[d] \/ claim'[d] = draw[t].room
    BY <1>4 DEF Ask, AskLost, Claim, Inv, CodesTypeOK
  <2> QED BY <2>1, <2>2, <2>3 DEF PlacesKnown
<1>5. ASSUME NEW t \in Draws, Opened(t) \/ Redrawn(t) PROVE PlacesKnown'
  <2>1. PICK r \in Rooms : r = draw[t].room
    BY <1>5, DrawsRoom DEF Opened, Redrawn
  <2>2. claim' = claim
    BY <1>5 DEF Opened, Redrawn
  <2>3. ASSUME NEW q \in Rooms \ {r} PROVE room'[q] = room[q]
    BY <1>5, <2>1, DrawDone
  <2>4. /\ room[r].at # "none" /\ room'[r].at # "none" /\ room'[r].due = room[r].due
        /\ room'[r].at \in {"waiting", "over"} \/ room'[r].at = room[r].at
        /\ room'[r].at = "opening" => room' = room
    BY <1>5, <2>1, DrawDone DEF StillAlone, Waiting
  <2>5. \A q \in Rooms : q \in inGame' => q \in inGame \/ (q = r /\ room[r].at = "away")
    BY <1>5, <2>1 DEF Opened, Redrawn, bounds
  <2>6. room'[r].at \notin {"none", "opening"}
    BY <1>5, <2>1, DrawDone DEF StillAlone, Waiting
  <2> QED BY <2>2, <2>3, <2>4, <2>5, <2>6 DEF PlacesKnown
<1>6. ASSUME NEW r \in Rooms, NEW t \in Draws, OpenLocked(r, t) PROVE PlacesKnown'
  BY <1>6, OpensLocked DEF PlacesKnown
<1>7. ASSUME NEW r \in Rooms,
             EnterRight(r) \/ HostLeaves(r) \/ Expire(r) \/ Expired(r) \/ GameMoves(r)
      PROVE  PlacesKnown'
  BY <1>7, RoomMoved DEF PlacesKnown
<1>8. ASSUME NEW r \in Rooms, EnterWrong(r) PROVE PlacesKnown'
  BY <1>8, WrongCounted DEF PlacesKnown, Waiting
<1>9. CASE Tick
  BY <1>9, TickCounts DEF PlacesKnown
<1>10. CASE UNCHANGED codesVars
  BY <1>10 DEF codesVars, bounds, PlacesKnown
<1> QED BY <1>2, <1>3, <1>4, <1>5, <1>6, <1>7, <1>8, <1>9, <1>10 DEF CodesNext

\* What is held stays held for cause in a step that grants no claim and does with no draw: a
\* room that shows a code shows it on, or frees it.
LEMMA CauseStays ==
  ASSUME CodesTypeOK, HeldForCause, lost' = lost,
         \A c \in Codes, r \in Rooms : claim'[c] = r => claim[c] = r,
         \A r \in Rooms, c \in Codes :
           claim'[c] = r /\ room'[r].due > 0 => room[r].due > 0,
         \A t \in Draws : draw[t].at = "drawn" => draw'[t] = draw[t],
         \A r \in Rooms, c \in Codes :
           claim'[c] = r /\ freeing[<<r, c>>] > 0 => freeing'[<<r, c>>] > 0,
         \A r \in Rooms, c \in Codes :
           claim'[c] = r /\ room[r].due > 0 /\ Has(r, c) => Has(r, c)' \/ freeing'[<<r, c>>] > 0
  PROVE  HeldForCause'
<1> SUFFICES ASSUME lost = 0, NEW r \in Rooms, NEW c \in Codes, claim'[c] = r,
                    room'[r].due > 0
             PROVE  \/ freeing'[<<r, c>>] > 0
                    \/ \E t \in Draws :
                         draw'[t].at = "drawn" /\ draw'[t].room = r /\ draw'[t].code = c
                    \/ Has(r, c)'
  BY DEF HeldForCause
<1>1. claim[c] = r /\ room[r].due > 0
  OBVIOUS
<1>2. CASE freeing[<<r, c>>] > 0
  BY <1>2
<1>3. CASE \E t \in Draws : draw[t].at = "drawn" /\ draw[t].room = r /\ draw[t].code = c
  BY <1>3
<1>4. CASE Has(r, c)
  BY <1>1, <1>4
<1> QED BY <1>1, <1>2, <1>3, <1>4 DEF HeldForCause

\* A release set out for a code is one more, and none fewer of any other.
LEMMA FreedMore ==
  ASSUME CodesTypeOK, NEW r \in Rooms, NEW c
  PROVE  /\ c \in Codes => Freed(r, c)[<<r, c>>] > 0
         /\ \A q \in Rooms, d \in Codes : freeing[<<q, d>>] > 0 => Freed(r, c)[<<q, d>>] > 0
<1>1. ASSUME NEW q \in Rooms, NEW d \in Codes
      PROVE  Freed(r, c)[<<q, d>>] =
               IF <<q, d>> = <<r, c>> THEN freeing[<<q, d>>] + 1 ELSE freeing[<<q, d>>]
  BY DEF Freed, CodesTypeOK
<1>2. \A q \in Rooms, d \in Codes : freeing[<<q, d>>] \in Nat
  BY DEF CodesTypeOK
<1> QED BY <1>1, <1>2

\* A claim granted is a code drawn.
LEMMA CauseGranted ==
  ASSUME Inv, HeldForCause, NEW t \in Draws, Ask(t)
  PROVE  HeldForCause'
<1>1. /\ draw[t].at = "drawing" /\ UNCHANGED <<room, freeing, lost, inGame>>
      /\ draw \in [Draws -> DrawFacts]
  BY DEF Ask, bounds, Inv, CodesTypeOK
<1>2. ASSUME NEW c \in Codes, Claim(draw[t].room, c),
             draw' = [draw EXCEPT ![t].at = "drawn", ![t].code = c]
      PROVE  HeldForCause'
  <2>1. /\ draw'[t].at = "drawn" /\ draw'[t].room = draw[t].room /\ draw'[t].code = c
        /\ \A u \in Draws \ {t} : draw'[u] = draw[u]
    BY <1>1, <1>2 DEF DrawFacts
  <2>2. \A d \in Codes \ {c} : claim'[d] = claim[d]
    BY <1>2 DEF Claim, Inv, CodesTypeOK
  <2>3. claim'[c] = draw[t].room
    BY <1>2 DEF Claim, Inv, CodesTypeOK
  <2> SUFFICES ASSUME lost = 0, NEW r \in Rooms, NEW d \in Codes, claim'[d] = r,
                      room[r].due > 0
               PROVE  \/ freeing[<<r, d>>] > 0
                      \/ \E u \in Draws :
                           draw'[u].at = "drawn" /\ draw'[u].room = r /\ draw'[u].code = d
                      \/ Has(r, d)
    BY <1>1 DEF HeldForCause, Has
  <2>4. CASE d = c
    BY <2>1, <2>3, <2>4
  <2>5. CASE d # c
    <3>1. claim[d] = r
      BY <2>2, <2>5
    <3>2. CASE \E u \in Draws : draw[u].at = "drawn" /\ draw[u].room = r /\ draw[u].code = d
      BY <1>1, <2>1, <3>2
    <3> QED BY <3>1, <3>2 DEF HeldForCause
  <2> QED BY <2>4, <2>5
<1>3. ASSUME UNCHANGED claim,
             draw' = [draw EXCEPT ![t].left = @ - 1,
                                  ![t].at = IF draw[t].left = 1 THEN "failed" ELSE @]
      PROVE  HeldForCause'
  <2>1. \A u \in Draws : draw[u].at = "drawn" => draw'[u] = draw[u]
    BY <1>1, <1>3
  <2> QED BY <1>1, <1>3, <2>1, CauseStays DEF Inv, Has
<1> QED BY <1>2, <1>3 DEF Ask

\* A draw done with leaves its code shown or being freed.
LEMMA CauseDone ==
  ASSUME Inv, PlacesKnown, HeldForCause, NEW t \in Draws, Opened(t) \/ Redrawn(t)
  PROVE  HeldForCause'
<1>1. PICK r \in Rooms : r = draw[t].room
  BY DrawsRoom DEF Opened, Redrawn
<1>2. UNCHANGED <<claim, lost>>
  BY DEF Opened, Redrawn, bounds
<1>3. /\ \A q \in Rooms \ {r} : room'[q] = room[q]
      /\ room'[r].due = room[r].due
  BY <1>1, DrawDone
<1>4. \A u \in Draws \ {t} : draw'[u] = draw[u]
  <2>1. draw' = [draw EXCEPT ![t] = NoDraw]
    BY <1>1, DrawDone
  <2> QED BY <2>1 DEF Inv, CodesTypeOK
<1>5. \A q \in Rooms, d \in Codes : freeing[<<q, d>>] > 0 => freeing'[<<q, d>>] > 0
  <2>1. freeing' = freeing \/ \E c : freeing' = Freed(r, c)
    BY <1>1, DrawDone
  <2> QED BY <2>1, FreedMore DEF Inv
<1> SUFFICES ASSUME lost = 0, NEW q \in Rooms, NEW c \in Codes, claim[c] = q,
                    room'[q].due > 0
             PROVE  \/ freeing'[<<q, c>>] > 0
                    \/ \E u \in Draws :
                         draw'[u].at = "drawn" /\ draw'[u].room = q /\ draw'[u].code = c
                    \/ Has(q, c)'
  BY <1>2 DEF HeldForCause
<1>6. room[q].due > 0
  BY <1>3
<1>7. room[q].at # "expiring"
  BY <1>6 DEF PlacesKnown
<1>8. CASE freeing[<<q, c>>] > 0
  BY <1>5, <1>8
<1>9. CASE \E u \in Draws \ {t} : draw[u].at = "drawn" /\ draw[u].room = q /\ draw[u].code = c
  BY <1>4, <1>9
<1>10. CASE draw[t].at = "drawn" /\ draw[t].room = q /\ draw[t].code = c
  <2>1. Freed(r, c)[<<r, c>>] > 0
    BY FreedMore DEF Inv
  <2> QED BY <1>1, <1>7, <1>10, <2>1, DrawDone DEF StillAlone, Waiting, Has
<1>11. CASE Has(q, c)
  <2>0. inGame \subseteq inGame'
    BY <1>1, DrawDone
  <2>1. CASE q # r
    BY <1>3, <1>11, <2>0, <2>1 DEF Has
  <2>2. CASE q = r
    <3>1. Freed(r, c)[<<r, c>>] > 0
      BY FreedMore DEF Inv
    <3>2. room[r].code = c /\ (room[r].at = "waiting" \/ r \in inGame)
      BY <1>11, <2>2 DEF Has
    <3>3. room[r].at # "opening"
      BY <3>2 DEF PlacesKnown
    <3> QED BY <1>1, <2>0, <2>2, <3>1, <3>2, <3>3, DrawDone DEF Has
  <2> QED BY <2>1, <2>2
<1> QED BY <1>2, <1>6, <1>8, <1>9, <1>10, <1>11 DEF HeldForCause

\* Until a call fails, every step leaves what is held held for cause.
LEMMA CauseStep ==
  ASSUME Inv, PlacesKnown, HeldForCause, [CodesNext]_codesVars
  PROVE  HeldForCause'
<1>0. CodesTypeOK
  BY DEF Inv
<1>1. ASSUME NEW c \in Codes, Host(c) \/ Guest(c) \/ CodeOnlyEnds(c) \/ CodeAlarm(c)
      PROVE  HeldForCause'
  <2>1. /\ UNCHANGED <<room, draw, freeing, lost, inGame>>
        /\ \A d \in Codes : claim'[d] = claim[d] \/ claim'[d] = Nobody
    BY <1>1 DEF Host, Guest, CodeOnlyEnds, CodeAlarm, Inv, CodesTypeOK, bounds
  <2>2. \A d \in Codes, r \in Rooms : claim'[d] = r => claim[d] = r
    BY <2>1, CodesAssumption
  <2> QED BY <1>0, <2>1, <2>2, CauseStays DEF Has
<1>2. ASSUME NEW r \in Rooms, NEW c \in Codes, Release(r, c) PROVE HeldForCause'
  <2>1. /\ UNCHANGED <<room, draw, lost, inGame>>
        /\ \A d \in Codes : claim'[d] = claim[d] \/ claim'[d] = Nobody
        /\ claim'[c] # r
        /\ \A q \in Rooms, d \in Codes : q # r \/ d # c => freeing'[<<q, d>>] = freeing[<<q, d>>]
    BY <1>2, CodesAssumption DEF Release, Inv, CodesTypeOK, bounds
  <2>2. \A d \in Codes, q \in Rooms : claim'[d] = q => claim[d] = q
    BY <2>1, CodesAssumption
  <2>3. \A q \in Rooms, d \in Codes :
          claim'[d] = q /\ freeing[<<q, d>>] > 0 => freeing'[<<q, d>>] > 0
    BY <2>1
  <2> QED BY <1>0, <2>1, <2>2, <2>3, CauseStays DEF Has
<1>3. ASSUME lost' = lost + 1 PROVE HeldForCause'
  BY <1>0, <1>3 DEF CodesTypeOK, HeldForCause
<1>4. ASSUME NEW r \in Rooms, NEW c \in Codes, LoseRelease(r, c) PROVE HeldForCause'
  BY <1>3, <1>4 DEF LoseRelease
<1>5. ASSUME NEW t \in Draws, AskLost(t) PROVE HeldForCause'
  BY <1>3, <1>5 DEF AskLost
<1>6. ASSUME NEW r \in Rooms, NEW t \in Draws, OpenLocked(r, t) PROVE HeldForCause'
  <2>1. \A c \in Codes : claim[c] # r
    BY <1>6, OpensLocked DEF PlacesKnown
  <2>2. draw[t].at = "none" /\ \A u \in Draws \ {t} : draw'[u] = draw[u]
    BY <1>6 DEF OpenLocked, Inv, CodesTypeOK, NoDraw
  <2> QED BY <1>0, <1>6, <2>1, <2>2, OpensLocked, CauseStays DEF Has
<1>7. ASSUME NEW r \in Rooms,
             EnterRight(r) \/ HostLeaves(r) \/ Expire(r) \/ Expired(r) \/ GameMoves(r)
      PROVE  HeldForCause'
  <2>1. \A q \in Rooms, d \in Codes : freeing[<<q, d>>] > 0 => freeing'[<<q, d>>] > 0
    BY <1>0, <1>7, RoomMoved, FreedMore
  <2>2. \A c \in Codes : room[r].at = "waiting" /\ room[r].code = c => freeing'[<<r, c>>] > 0
    BY <1>0, <1>7, RoomMoved, FreedMore
  <2>3. /\ UNCHANGED <<draw, claim, lost, inGame>> /\ room'[r].due = room[r].due /\ room'[r].code = room[r].code
        /\ \A q \in Rooms \ {r} : room'[q] = room[q]
    BY <1>7, RoomMoved
  <2> QED BY <1>0, <2>1, <2>2, <2>3, CauseStays DEF Has
<1>8. ASSUME NEW r \in Rooms, EnterWrong(r) PROVE HeldForCause'
  <2>1. \A u \in Draws : draw[u].at = "drawn" => draw'[u] = draw[u]
    <3>1. CASE draw' = draw
      BY <3>1
    <3>2. ASSUME NEW t \in Draws, draw[t] = NoDraw, draw' = [draw EXCEPT ![t] = NewDraw(r, FALSE)]
          PROVE  \A u \in Draws : draw[u].at = "drawn" => draw'[u] = draw[u]
      <4>1. draw[t].at = "none" /\ \A u \in Draws \ {t} : draw'[u] = draw[u]
        BY <3>2 DEF Inv, CodesTypeOK, NoDraw
      <4> QED BY <4>1
    <3> QED BY <1>8, <3>1, <3>2 DEF EnterWrong
  <2> QED BY <1>0, <1>8, <2>1, WrongCounted, CauseStays DEF Has
<1>9. CASE Tick
  <2>1. \A r \in Rooms :
          /\ room'[r].at = room[r].at /\ room'[r].code = room[r].code
          /\ room'[r].due > 0 => room[r].due > 0
    BY <1>9, TickCounts
  <2>2. UNCHANGED <<draw, claim, freeing, lost, inGame>>
    BY <1>9 DEF Tick, bounds
  <2> QED BY <1>0, <2>1, <2>2, CauseStays DEF Has
<1>10. CASE UNCHANGED codesVars
  BY <1>10 DEF codesVars, bounds, HeldForCause, Has
<1> QED
  BY <1>1, <1>2, <1>4, <1>5, <1>6, <1>7, <1>8, <1>9, <1>10, CauseGranted, CauseDone
  DEF CodesNext

\* The count of wrong codes covers its code's tries after every step.
LEMMA CountStep ==
  ASSUME Inv, PlacesKnown, CountCovers, [CodesNext]_codesVars
  PROVE  CountCovers'
<1>0. /\ room \in [Rooms -> RoomFacts] /\ draw \in [Draws -> DrawFacts]
      /\ \A r \in Rooms : room[r].tried \in Nat /\ room[r].wrong \in 0 .. Tries - 1
  BY CodesAssumption DEF Inv, CodesTypeOK, RoomFacts
<1>1. ASSUME \A r \in Rooms :
               /\ Waiting(r)' => Waiting(r)
               /\ room'[r].tried = room[r].tried /\ room'[r].wrong = room[r].wrong,
             \A t \in Draws : draw'[t].room = draw[t].room
      PROVE  CountCovers'
  BY <1>1 DEF CountCovers, DrawsOf
<1>2. ASSUME NEW c \in Codes, Host(c) \/ Guest(c) \/ CodeOnlyEnds(c) \/ CodeAlarm(c)
      PROVE  CountCovers'
  BY <1>1, <1>2 DEF Host, Guest, CodeOnlyEnds, CodeAlarm, Waiting
<1>3. ASSUME NEW r \in Rooms, NEW c \in Codes, Release(r, c) \/ LoseRelease(r, c)
      PROVE  CountCovers'
  BY <1>1, <1>3 DEF Release, LoseRelease, Waiting
<1>4. ASSUME NEW t \in Draws, Ask(t) \/ AskLost(t) PROVE CountCovers'
  <2>1. UNCHANGED room
    BY <1>4 DEF Ask, AskLost
  <2>2. \A u \in Draws : draw'[u].room = draw[u].room
    BY <1>0, <1>4 DEF Ask, AskLost, DrawFacts
  <2> QED BY <1>1, <2>1, <2>2 DEF Waiting
<1>5. ASSUME NEW t \in Draws, Opened(t) \/ Redrawn(t) PROVE CountCovers'
  <2>1. PICK r \in Rooms : r = draw[t].room
    BY <1>5, DrawsRoom DEF Opened, Redrawn
  <2>2. \A q \in Rooms \ {r} : room'[q] = room[q]
    BY <1>5, <2>1, DrawDone
  <2>3. \A u \in Draws \ {t} : draw'[u] = draw[u]
    <3>1. draw' = [draw EXCEPT ![t] = NoDraw]
      BY <1>5, <2>1, DrawDone
    <3> QED BY <1>0, <3>1
  <2>4. ASSUME NEW q \in Rooms \ {r}, Waiting(q)', DrawsOf(q)' = {}
        PROVE  room'[q].tried <= room'[q].wrong \/ room'[q].wrong = Tries - 1
    <3>1. Waiting(q) /\ DrawsOf(q) = {}
      BY <2>1, <2>2, <2>3, <2>4 DEF Waiting, DrawsOf
    <3> QED BY <2>2, <3>1 DEF CountCovers
  <2>5. ASSUME Waiting(r)'
        PROVE  room'[r].tried <= room'[r].wrong \/ room'[r].wrong = Tries - 1
    <3>1. room' \in [Rooms -> RoomFacts]
      BY InvNext DEF Inv, CodesTypeOK
    <3>2. room'[r].wrong \in Nat
      BY <3>1, CodesAssumption DEF RoomFacts
    <3>3. room[r].at = "opening" => room[r].tried = 0
      BY DEF PlacesKnown
    <3>4. room' = room => StillAlone(r)
      BY <2>5 DEF StillAlone, Waiting
    <3> QED BY <1>5, <2>1, <2>5, <3>2, <3>3, <3>4, DrawDone DEF Waiting
  <2> QED BY <2>4, <2>5 DEF CountCovers
<1>6. ASSUME NEW r \in Rooms, NEW t \in Draws, draw[t] = NoDraw,
             draw' = [draw EXCEPT ![t] = NewDraw(r, FALSE)]
                \/ draw' = [draw EXCEPT ![t] = NewDraw(r, TRUE)],
             \A q \in Rooms \ {r} : room'[q] = room[q]
      PROVE  CountCovers'
  <2>1. draw'[t].room = r /\ draw[t].room = Nobody /\ \A u \in Draws \ {t} : draw'[u] = draw[u]
    BY <1>0, <1>6 DEF NewDraw, NoDraw
  <2>2. DrawsOf(r)' # {} /\ \A q \in Rooms \ {r} : DrawsOf(q)' = DrawsOf(q)
    BY <2>1, CodesAssumption DEF DrawsOf
  <2> QED BY <1>6, <2>2 DEF CountCovers, Waiting
<1>7. ASSUME NEW r \in Rooms, NEW t \in Draws, OpenLocked(r, t) PROVE CountCovers'
  BY <1>6, <1>7, OpensLocked DEF OpenLocked
<1>8. ASSUME NEW r \in Rooms,
             EnterRight(r) \/ HostLeaves(r) \/ Expire(r) \/ Expired(r) \/ GameMoves(r)
      PROVE  CountCovers'
  <2>1. \A q \in Rooms \ {r} : room'[q] = room[q] /\ (Waiting(q)' => Waiting(q))
    BY <1>8, RoomMoved DEF Waiting
  <2> QED BY <1>1, <1>8, <2>1, RoomMoved
<1>9. ASSUME NEW r \in Rooms, EnterWrong(r) PROVE CountCovers'
  <2>1. CASE room[r].wrong + 1 < Tries /\ draw' = draw
    <3>1. room'[r].wrong = room[r].wrong + 1 /\ room[r].wrong # Tries - 1
      BY <1>0, <1>9, <2>1, WrongCounted, CodesAssumption DEF Counted
    <3>2. \A q \in Rooms : DrawsOf(q)' = DrawsOf(q)
      BY <2>1 DEF DrawsOf
    <3>3. DrawsOf(r) = {} => room[r].tried <= room[r].wrong
      BY <1>9, <3>1, WrongCounted DEF CountCovers
    <3>4. room'[r].tried <= room[r].tried + 1 /\ room'[r].tried \in Nat
      BY <1>9, WrongCounted
    <3>5. DrawsOf(r) = {} => room'[r].tried <= room'[r].wrong
      BY <1>0, <3>1, <3>3, <3>4
    <3>6. \A q \in Rooms \ {r} : room'[q] = room[q] /\ (Waiting(q)' => Waiting(q))
      BY <1>9, WrongCounted DEF Waiting
    <3> QED BY <3>2, <3>5, <3>6 DEF CountCovers
  <2>2. CASE \E t \in Draws : draw[t] = NoDraw /\ draw' = [draw EXCEPT ![t] = NewDraw(r, FALSE)]
    BY <1>6, <1>9, <2>2, WrongCounted
  <2> QED BY <1>9, <2>1, <2>2 DEF EnterWrong
<1>10. CASE Tick
  <2>1. UNCHANGED draw /\ \A q \in Rooms : Waiting(q)' => Waiting(q)
    BY <1>10, TickCounts DEF Waiting, Tick
  <2> QED BY <1>1, <1>10, <2>1, TickCounts
<1>11. CASE UNCHANGED codesVars
  BY <1>1, <1>11 DEF codesVars, Waiting
<1> QED
  BY <1>2, <1>3, <1>4, <1>5, <1>7, <1>8, <1>9, <1>10, <1>11 DEF CodesNext

\* At first no room is anywhere, nothing is held and no code was tried.
LEMMA LeftoversInit == CodesInit => PlacesKnown /\ HeldForCause /\ CountCovers
<1> SUFFICES ASSUME CodesInit PROVE PlacesKnown /\ HeldForCause /\ CountCovers
  OBVIOUS
<1>1. /\ \A r \in Rooms : room[r].at = "none" /\ room[r].tried = 0
      /\ \A c \in Codes : claim[c] = Nobody
  BY DEF CodesInit, NoRoom
<1>2. inGame = {}
  BY DEF CodesInit
<1> QED BY <1>1, <1>2, CodesAssumption DEF PlacesKnown, HeldForCause, CountCovers, Waiting

\* Codes are held for cause and wrong codes counted in every behaviour.
THEOREM HeldForCauseThroughout == CodesSpec => [](PlacesKnown /\ HeldForCause /\ CountCovers)
<1> DEFINE Leftovers == PlacesKnown /\ HeldForCause /\ CountCovers
<1>1. CodesInit => Leftovers
  BY LeftoversInit
<1>2. Inv /\ Leftovers /\ [CodesNext]_codesVars => Leftovers'
  BY PlacesStep, CauseStep, CountStep
<1> QED BY <1>1, <1>2, HeldThroughout, PTL DEF CodesSpec

\* Once no draw and no release is on its way and no call has failed, the only code held for a
\* room is the one it has, and only while it waits, or where it took that code in its game with
\* a guest away: a room joined, left or expired, or that drew a code too late, holds none else.
THEOREM NoCodeIsLeftHeld == CodesSpec => []NothingHeldBehind
<1>1. Inv /\ HeldForCause => NothingHeldBehind
  <2> SUFFICES ASSUME Inv, HeldForCause, lost = 0, \A p \in Rooms \X Codes : freeing[p] = 0,
                      NEW c \in Codes, NEW r \in Rooms, claim[c] = r,
                      DrawsOf(r) = {}, ~Lapsed(c)
               PROVE  room[r].code = c /\ (Waiting(r) \/ r \in inGame)
    BY DEF NothingHeldBehind
  <2>1. room[r].due > 0
    BY CodesAssumption DEF Lapsed, Inv, CodesTypeOK, RoomFacts
  <2>2. freeing[<<r, c>>] = 0 /\ \A t \in Draws : draw[t].room # r
    BY DEF DrawsOf
  <2> QED BY <2>1, <2>2 DEF HeldForCause, Has, Waiting
<1> QED BY <1>1, HeldThroughout, HeldForCauseThroughout, PTL

\* A code that has taken all its wrong tries is on its way out, however many draws of a new one
\* failed or overlapped: one is under way, or the next wrong code starts one.
THEOREM WornCodesGo == CodesSpec => []WornCodeGoes
<1>1. Inv /\ CountCovers => WornCodeGoes
  <2> SUFFICES ASSUME Inv, CountCovers, NEW r \in Rooms, Waiting(r), room[r].tried >= Tries,
                      DrawsOf(r) = {}
               PROVE  room[r].wrong = Tries - 1
    BY DEF WornCodeGoes
  <2>1. room[r].tried \in Nat /\ room[r].wrong \in 0 .. Tries - 1
    BY CodesAssumption DEF Inv, CodesTypeOK, RoomFacts
  <2> QED BY <2>1, CodesAssumption DEF CountCovers
<1> QED BY <1>1, HeldThroughout, HeldForCauseThroughout, PTL
=============================================================================
