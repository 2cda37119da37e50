---------------------------- MODULE TurnGameProofs ----------------------------
(***************************************************************************)
(* Two sessions of a game of turns, with their links and the relay between *)
(* them, for any board, any length of silence and any faults: the boards   *)
(* are one game by the rules, whatever is cut, hidden or lost on the way;  *)
(* and while no link is cut, no session takes the other for lost.          *)
(***************************************************************************)
EXTENDS TurnGame, Functions, SequenceTheorems, TLAPS

-----------------------------------------------------------------------------
(* The inductive invariant: types *)

Marks == Sides \cup {"none"}
Board ==
  [board : [Cells -> Sides \cup {"free"}], turn : Sides, moves : Nat, winner : Marks, draw : BOOLEAN]
Session ==
  [on : BOOLEAN, game : Nat, state : Board, greeted : BOOLEAN, age : Nat, mine : BOOLEAN,
   theirs : BOOLEAN, wins : [Sides -> Nat], ended : {"no", "lost", "closed"}]

\* what a side sends the other
Frame ==
  [t : {"hi"}, ok : BOOLEAN] \cup [t : {"move"}, g : Nat, n : Nat, c : Columns]
    \cup [t : {"again"}, g : Nat] \cup [t : {"keep"}]
\* ... and what else is said to the relay, and by it
FromSide  == Frame \cup [t : {"hide", "leave"}]
FromRelay == Frame \cup [t : {"friendAway", "friendBack", "resumed", "closed"}]

Typed ==
  /\ s \in [Sides -> Session]
  /\ link \in [Sides -> {"on", "away", "asking", "off"}] /\ seat \in [Sides -> {"on", "away", "gone"}]
  /\ wire \in [Sides -> BOOLEAN] /\ paused \in [Sides -> BOOLEAN] /\ hid \in [Sides -> BOOLEAN]
  /\ up \in [Sides -> Seq(FromSide)] /\ down \in [Sides -> Seq(FromRelay)]
  /\ kept \in [Sides -> Seq(Frame)] /\ outbox \in [Sides -> Seq(Frame)]
  /\ {cuts, hides} \subseteq Nat /\ cuts + hides <= MaxFaults

-----------------------------------------------------------------------------
(* The inductive invariant: one game *)

\* A board is played to its end at most, and every game won ended.
BoardRight(m) ==
  /\ m.state.moves <= COLS * ROWS /\ (~IsOver(m.state) => m.state.moves < COLS * ROWS)
  /\ \A x \in Sides : m.wins[x] <= m.game + (IF IsOver(m.state) THEN 1 ELSE 0)
  /\ m.game < MaxGames
  /\ m.mine => IsOver(m.state) /\ m.game + 1 < MaxGames

\* the board a side's friend is at, or is to begin
Base(x) ==
  IF s[Other(x)].game = s[x].game THEN s[Other(x)].state ELSE NewBoard(FirstFor(s[x].game))

\* a side has dropped a disc that its friend is still to hear of
Ahead(x, c) ==
  /\ CanDrop(Base(x), c, x) /\ s[x].state = Drop(Base(x), c, x)
  /\ s[x].wins = [s[Other(x)].wins EXCEPT ![x] = IF s[x].state.winner = x THEN @ + 1 ELSE @]

Leads(x) ==
  LET y == Other(x) IN
  /\ \/ s[x].game = s[y].game
     \/ s[x].game = s[y].game + 1 /\ IsOver(s[y].state) /\ s[y].mine /\ ~s[y].theirs
  /\ \/ s[x].state = Base(x) /\ s[x].wins = s[y].wins
     \/ \E c \in Columns : Ahead(x, c)

\* An ask heard was made, of the game at hand, and not answered yet.
AskRight(x) ==
  s[x].theirs =>
    /\ ~s[x].mine /\ s[Other(x)].mine /\ s[Other(x)].game = s[x].game /\ IsOver(s[x].state)

\* all that is on its way from a side to the other
Sent(x) == Range(up[x]) \cup Range(outbox[x]) \cup Range(kept[Other(x)]) \cup Range(down[Other(x)])

\* A disc on its way is of an earlier game, or an earlier one, or the one its side is ahead by;
\* an ask is of an earlier game or still stands.
FrameRight(x, f) ==
  /\ f.t \in {"move", "again"} => f.g \in Nat
  /\ f.t = "move" => f.n \in Nat
  /\ f.t = "move" =>
       \/ f.g < s[x].game
       \/ /\ f.g = s[x].game /\ f.n < s[x].state.moves
          /\ s[Other(x)].game <= s[x].game /\ f.n = Base(x).moves => Ahead(x, f.c)
  /\ f.t = "again" => f.g < s[x].game \/ (f.g = s[x].game /\ s[x].mine)

Together ==
  /\ \A x \in Sides : BoardRight(s[x]) /\ AskRight(x) /\ \A f \in Sent(x) : FrameRight(x, f)
  /\ \E x \in Sides : Leads(x)

\* A clock stands still from when its side is away until its seat is back.
PauseRight(x) ==
  /\ s[x].age <= SILENCE
  /\ link[x] \in {"away", "asking"} => paused[x]
  /\ link[x] = "off" => s[x].ended # "no"
  /\ link[x] = "asking" => down[x] # <<>> /\ Head(down[x]).t = "resumed"

TurnInv == Typed /\ Together /\ \A x \in Sides : PauseRight(x)

-----------------------------------------------------------------------------
(* The inductive invariant: silence *)

\* A queue to the relay, of a side that stays ...
Stays(q) == \A f \in Range(q) : f.t \notin {"hide", "leave"}
\* ... and of one that has stepped away.
StepsAway(q) == q # <<>> /\ \A i \in DOMAIN q : q[i].t # "leave" /\ (q[i].t = "hide" <=> i = Len(q))

\* A side is on a link that works, or away with the relay told of it or about to be.
CalmLink(x) ==
  /\ s[x].ended = "no" /\ link[x] # "off" /\ seat[x] # "gone"
  /\ wire[x] <=> link[x] # "away"
  /\ link[x] # "away" => seat[x] = "on" /\ Stays(up[x])
  /\ link[x] = "away" =>
       \/ seat[x] = "away" /\ up[x] = <<>>
       \/ seat[x] = "on" /\ StepsAway(up[x])
  /\ \A f \in Range(down[x]) : f.t # "closed"

\* what tells a side whether its friend is there
Tells(f) == f.t \in {"friendAway", "friendBack", "resumed"}

\* A queue's last word on it is right, or what the clock knows where there is none.
Told(q, stopped, away) ==
  /\ (\A i \in DOMAIN q : ~Tells(q[i])) => (stopped <=> away)
  /\ \A i \in DOMAIN q :
       Tells(q[i]) /\ (\A j \in DOMAIN q : j > i => ~Tells(q[j])) => (q[i].t = "friendAway" <=> away)

\* Once it has heard all it is told, a side's clock stands still just if its friend is away.
Knows(x) == link[x] # "away" => Told(down[x], paused[x], seat[Other(x)] = "away")

\* a frame of its friend's is on its way to a side
Coming(x) == \E f \in Range(down[x]) \cup Range(up[Other(x)]) : f \in Frame

\* A side has been left without a frame once for each time a window was hidden, and once
\* more only while one is on its way.
Warm(x) ==
  /\ ~s[x].on => s[x].age = 0
  /\ s[x].age <= hides \/ (s[x].age = hides + 1 /\ link[x] = "on" /\ Coming(x))

CalmNow == \A x \in Sides : CalmLink(x) /\ Knows(x) /\ Warm(x)
Calm == cuts = 0 /\ hides < SILENCE => CalmNow

-----------------------------------------------------------------------------
(* Sides, boards and queues *)

\* There are two sides.
LEMMA TwoSides ==
  ASSUME NEW x \in Sides
  PROVE  /\ Other(x) \in Sides /\ Other(x) # x /\ Other(Other(x)) = x
         /\ \A z \in Sides : z = x \/ z = Other(x)
BY DEF Sides, Other

\* A board has a place for at least one disc.
LEMMA BoardSize == COLS * ROWS \in Nat /\ COLS * ROWS > 0
<1>1. COLS \in Nat \ {0} /\ ROWS \in Nat \ {0}
  BY BoardAssumption
<1> QED BY <1>1

\* A game begins with nothing dropped.
LEMMA NewIs ==
  ASSUME NEW first \in Sides
  PROVE  /\ NewBoard(first) \in Board /\ NewBoard(first).moves = 0
         /\ ~IsOver(NewBoard(first)) /\ NewBoard(first).turn = first
BY DEF NewBoard, Board, Marks, IsOver

\* A disc is one more on the board, after which it is the other's turn or over.
LEMMA DropIs ==
  ASSUME NEW st \in Board, NEW c, NEW who \in Sides, st.moves < COLS * ROWS
  PROVE  LET d == Drop(st, c, who) IN
         /\ d \in Board /\ d.moves = st.moves + 1 /\ d.moves <= COLS * ROWS
         /\ d.winner \in {who, "none"} /\ (d.winner = who => IsOver(d))
         /\ ~IsOver(d) => d.moves < COLS * ROWS /\ d.turn = Other(who)
<1> DEFINE cell == <<c, LandingRow(st, c)>>
           b == [st.board EXCEPT ![cell] = who]
           won == LineThrough(b, cell)
           full == st.moves + 1 = COLS * ROWS
           d == Drop(st, c, who)
<1>1. d = [board |-> b, moves |-> st.moves + 1,
           winner |-> IF won THEN who ELSE "none", draw |-> full /\ ~won,
           turn |-> IF won \/ full THEN st.turn ELSE Other(who)]
  BY DEF Drop
<1>2. b \in [Cells -> Sides \cup {"free"}] /\ st.moves \in Nat /\ st.turn \in Sides
  BY DEF Board
<1>3. won \in BOOLEAN /\ full \in BOOLEAN /\ Other(who) \in Sides /\ who # "none"
  BY DEF Sides, Other, LineThrough
<1> HIDE DEF cell, b, won, full, d
<1>4. d \in Board
  BY <1>1, <1>2, <1>3 DEF Board, Marks
<1>5. d.winner \in {who, "none"} /\ (d.winner = who => IsOver(d))
  BY <1>1, <1>3 DEF IsOver
<1>6. d.moves = st.moves + 1 /\ d.moves <= COLS * ROWS
  BY <1>1, <1>2, BoardSize
<1>7. ~IsOver(d) => ~won /\ ~full /\ d.turn = Other(who)
  BY <1>1, <1>3 DEF IsOver
<1>8. ~full => d.moves # COLS * ROWS
  BY <1>1 DEF full
<1>9. ~IsOver(d) => d.moves < COLS * ROWS
  BY <1>2, <1>6, <1>7, <1>8, BoardSize
<1> QED BY <1>4, <1>5, <1>6, <1>7, <1>9 DEF d

\* What is in a queue after something is put at its end.
LEMMA Put ==
  ASSUME NEW S, NEW q \in Seq(S), NEW e \in S
  PROVE  /\ Append(q, e) \in Seq(S) /\ Append(q, e) # <<>> /\ Range(Append(q, e)) = Range(q) \cup {e}
         /\ Len(Append(q, e)) = Len(q) + 1 /\ Len(q) \in Nat
         /\ DOMAIN q = 1 .. Len(q) /\ DOMAIN Append(q, e) = 1 .. Len(q) + 1
         /\ \A i \in DOMAIN q : Append(q, e)[i] = q[i]
         /\ Append(q, e)[Len(q) + 1] = e
<1>1. /\ Len(q) \in Nat /\ DOMAIN q = 1 .. Len(q)
      /\ DOMAIN Append(q, e) = 1 .. Len(q) + 1 /\ Len(Append(q, e)) = Len(q) + 1
      /\ \A i \in 1 .. Len(q) : Append(q, e)[i] = q[i]
      /\ Append(q, e)[Len(q) + 1] = e
      /\ Append(q, e) \in Seq(S) /\ Append(q, e) # <<>>
  BY LenProperties, AppendProperties
<1>2. \A i \in DOMAIN Append(q, e) : i \in DOMAIN q \/ i = Len(q) + 1
  BY <1>1
<1>3. \A i \in DOMAIN q : i \in DOMAIN Append(q, e)
  BY <1>1
<1>4. Range(Append(q, e)) = Range(q) \cup {e}
  BY <1>1, <1>2, <1>3 DEF Range
<1> QED BY <1>1, <1>4

\* ... after the first is taken.
LEMMA Took ==
  ASSUME NEW S, NEW q \in Seq(S), q # <<>>
  PROVE  /\ Tail(q) \in Seq(S) /\ Head(q) \in S /\ Head(q) = q[1] /\ Head(q) \in Range(q)
         /\ Range(Tail(q)) \subseteq Range(q)
         /\ Len(q) \in Nat \ {0} /\ DOMAIN q = 1 .. Len(q) /\ DOMAIN Tail(q) = 1 .. Len(q) - 1
         /\ Len(Tail(q)) = Len(q) - 1
         /\ \A i \in 1 .. Len(q) - 1 : Tail(q)[i] = q[i + 1]
<1>1. /\ Len(q) \in Nat \ {0} /\ DOMAIN q = 1 .. Len(q) /\ Head(q) = q[1]
      /\ DOMAIN Tail(q) = 1 .. Len(q) - 1 /\ Len(Tail(q)) = Len(q) - 1
      /\ \A i \in 1 .. Len(q) - 1 : Tail(q)[i] = q[i + 1]
      /\ Tail(q) \in Seq(S) /\ Head(q) \in S
  BY LenProperties, HeadTailProperties, EmptySeq
<1>2. 1 \in DOMAIN q /\ \A i \in DOMAIN Tail(q) : i + 1 \in DOMAIN q
  BY <1>1
<1>3. Head(q) \in Range(q)
  BY <1>1, <1>2 DEF Range
<1>4. Range(Tail(q)) \subseteq Range(q)
  BY <1>1, <1>2 DEF Range
<1> QED BY <1>1, <1>3, <1>4

\* ... and in two, one after the other.
LEMMA Joined ==
  ASSUME NEW S, NEW q \in Seq(S), NEW r \in Seq(S)
  PROVE  /\ q \o r \in Seq(S) /\ Range(q \o r) = Range(q) \cup Range(r)
         /\ Len(q) \in Nat /\ Len(r) \in Nat
         /\ Len(q \o r) = Len(q) + Len(r)
         /\ DOMAIN q = 1 .. Len(q) /\ DOMAIN r = 1 .. Len(r) /\ DOMAIN (q \o r) = 1 .. Len(q) + Len(r)
         /\ \A i \in 1 .. Len(q) + Len(r) : (q \o r)[i] = IF i <= Len(q) THEN q[i] ELSE r[i - Len(q)]
<1>1. /\ q \o r \in Seq(S) /\ Len(q) \in Nat /\ Len(r) \in Nat /\ Len(q \o r) = Len(q) + Len(r)
      /\ DOMAIN q = 1 .. Len(q) /\ DOMAIN r = 1 .. Len(r)
      /\ \A i \in 1 .. Len(q) + Len(r) : (q \o r)[i] = IF i <= Len(q) THEN q[i] ELSE r[i - Len(q)]
  BY LenProperties, ConcatProperties
<1>2. DOMAIN (q \o r) = 1 .. Len(q) + Len(r)
  BY <1>1, LenProperties
<1>3. /\ \A i \in DOMAIN (q \o r) : i \in DOMAIN q \/ i - Len(q) \in DOMAIN r
      /\ \A i \in DOMAIN (q \o r) : i <= Len(q) => i \in DOMAIN q
      /\ \A i \in DOMAIN (q \o r) : ~(i <= Len(q)) => i - Len(q) \in DOMAIN r
      /\ \A i \in DOMAIN q : i \in DOMAIN (q \o r) /\ i <= Len(q)
      /\ \A i \in DOMAIN r : i + Len(q) \in DOMAIN (q \o r) /\ ~(i + Len(q) <= Len(q))
                             /\ (i + Len(q)) - Len(q) = i
  BY <1>1, <1>2
<1>4. Range(q \o r) \subseteq Range(q) \cup Range(r)
  <2>1. SUFFICES ASSUME NEW i \in DOMAIN (q \o r) PROVE (q \o r)[i] \in Range(q) \cup Range(r)
    BY DEF Range
  <2>2. CASE i <= Len(q)
    BY <1>1, <1>2, <1>3, <2>2 DEF Range
  <2>3. CASE ~(i <= Len(q))
    BY <1>1, <1>2, <1>3, <2>3 DEF Range
  <2> QED BY <2>2, <2>3
<1>5. Range(q) \subseteq Range(q \o r)
  <2>1. SUFFICES ASSUME NEW i \in DOMAIN q PROVE q[i] \in Range(q \o r)
    BY DEF Range
  <2> QED BY <1>1, <1>2, <1>3 DEF Range
<1>6. Range(r) \subseteq Range(q \o r)
  <2>1. SUFFICES ASSUME NEW i \in DOMAIN r PROVE r[i] \in Range(q \o r)
    BY DEF Range
  <2>2. (q \o r)[i + Len(q)] = r[i] /\ i + Len(q) \in DOMAIN (q \o r)
    BY <1>1, <1>2, <1>3
  <2> QED BY <2>2 DEF Range
<1> QED BY <1>1, <1>2, <1>4, <1>5, <1>6

\* Nothing is in an empty queue.
LEMMA Nothing == \A S : <<>> \in Seq(S) /\ DOMAIN <<>> = {} /\ Range(<<>>) = {}
<1>1. DOMAIN <<>> = {}
  BY EmptySeq, LenProperties
<1> QED BY <1>1, EmptySeq DEF Range


\* A queue with one at its head.
LEMMA Headed ==
  ASSUME NEW S, NEW e \in S, NEW q \in Seq(S)
  PROVE  /\ <<e>> \o q \in Seq(S) /\ <<e>> \o q # <<>> /\ Head(<<e>> \o q) = e
         /\ Range(<<e>> \o q) = {e} \cup Range(q) /\ Len(<<e>> \o q) = Len(q) + 1
         /\ DOMAIN (<<e>> \o q) = 1 .. Len(q) + 1 /\ (<<e>> \o q)[1] = e
         /\ \A i \in DOMAIN q : (<<e>> \o q)[i + 1] = q[i]
<1>1. <<e>> \in Seq(S) /\ Len(<<e>>) = 1 /\ <<e>>[1] = e
  OBVIOUS
<1>2. DOMAIN <<e>> = 1 .. 1
  BY <1>1, LenProperties
<1>3. Range(<<e>>) = {e}
  BY <1>1, <1>2 DEF Range
<1> DEFINE p == <<e>>
<1>4. p \in Seq(S) /\ Len(p) = 1 /\ p[1] = e /\ Range(p) = {e}
  BY <1>1, <1>3
<1> HIDE DEF p
<1>5. /\ p \o q \in Seq(S) /\ Range(p \o q) = Range(p) \cup Range(q)
      /\ Len(p \o q) = Len(p) + Len(q) /\ DOMAIN q = 1 .. Len(q) /\ Len(q) \in Nat
      /\ DOMAIN (p \o q) = 1 .. Len(p) + Len(q)
  BY <1>4, Joined
<1>6. \A i \in 1 .. Len(p) + Len(q) : (p \o q)[i] = IF i <= Len(p) THEN p[i] ELSE q[i - Len(p)]
  BY <1>4, ConcatProperties
<1>7. /\ Len(p \o q) = Len(q) + 1 /\ (p \o q)[1] = e /\ DOMAIN (p \o q) = 1 .. Len(q) + 1
      /\ \A i \in DOMAIN q : (p \o q)[i + 1] = q[i]
  BY <1>4, <1>5, <1>6
<1>8. p \o q # <<>>
  BY <1>5, <1>7, EmptySeq
<1>9. Head(p \o q) = e
  BY <1>5, <1>7, <1>8, Took
<1> QED BY <1>4, <1>5, <1>7, <1>8, <1>9 DEF p
-----------------------------------------------------------------------------
(* One game: what a step does to the two sessions *)

Sessions == s \in [Sides -> Session]

\* A side's session is, in all but what silence is counted by, as m.
IsNow(x, m) ==
  /\ s'[x].game = m.game /\ s'[x].state = m.state /\ s'[x].wins = m.wins
  /\ s'[x].mine = m.mine /\ s'[x].theirs = m.theirs

\* Only one session changes so.
Only(x, m) == s' \in [Sides -> Session] /\ IsNow(x, m) /\ IsNow(Other(x), s[Other(x)])

\* what is on its way that a session may act on
Deeds(x) == {f \in Sent(x) : f.t \in {"move", "again"}}
NoNews == \A x \in Sides : Deeds(x)' \subseteq Deeds(x)
News(x, f) ==
  Deeds(x)' \subseteq Deeds(x) \cup {f} /\ Deeds(Other(x))' \subseteq Deeds(Other(x))

\* The one game goes by its rules, or stays.
GameGoesOn == [Game!GameNext]_<<Front.game, Front.state>>

GoesTogether == Together' /\ GameGoesOn

\* A session's fields.
LEMMA SessionIs ==
  ASSUME Sessions, NEW x \in Sides
  PROVE  /\ s[x].game \in Nat /\ s[x].state \in Board /\ s[x].wins \in [Sides -> Nat]
         /\ s[x].mine \in BOOLEAN /\ s[x].theirs \in BOOLEAN
         /\ s[x].state.moves \in Nat /\ s[x].state.turn \in Sides
BY DEF Sessions, Session, Board

\* The first turns.
LEMMA FirstIs == \A g : FirstFor(g) \in Sides
BY DEF FirstFor, Sides

\* The board a side's friend is at is a board.
LEMMA BaseIs ==
  ASSUME Sessions, NEW x \in Sides
  PROVE  Base(x) \in Board /\ Base(x).moves \in Nat /\ Base(x).turn \in Sides
<1>1. Base(x) \in Board
  BY TwoSides, SessionIs, FirstIs, NewIs DEF Base
<1> QED BY <1>1 DEF Board

\* A side that is ahead is one disc ahead, and it is not its turn.
LEMMA AheadIs ==
  ASSUME Sessions, NEW x \in Sides, NEW c, Ahead(x, c), Base(x).moves < COLS * ROWS
  PROVE  /\ s[x].state.moves = Base(x).moves + 1 /\ ~IsOver(Base(x)) /\ Base(x).turn = x
         /\ ~IsOver(s[x].state) => s[x].state.turn = Other(x)
<1>1. Base(x) \in Board /\ ~IsOver(Base(x)) /\ Base(x).turn = x /\ s[x].state = Drop(Base(x), c, x)
  BY BaseIs DEF Ahead, CanDrop
<1> QED BY <1>1, DropIs

\* There is a place on the board of a friend that is not over.
LEMMA BaseSize ==
  ASSUME Sessions, Together, NEW x \in Sides, ~IsOver(Base(x))
  PROVE  Base(x).moves < COLS * ROWS
BY TwoSides, FirstIs, NewIs, BoardSize DEF Base, Together, BoardRight

\* The front is the session of whoever leads.
LEMMA FrontIs ==
  ASSUME Sessions, Together, NEW x \in Sides, Leads(x)
  PROVE  Front.game = s[x].game /\ Front.state = s[x].state
<1> DEFINE y == Other(x)
<1>1. y \in Sides /\ s[x].game \in Nat /\ s[y].game \in Nat
      /\ s[x].state.moves \in Nat /\ s[y].state.moves \in Nat
  BY TwoSides, SessionIs
<1>2. CASE s[x].game = s[y].game + 1
  <2>1. Later(s[x], s[y]) /\ ~Later(s[y], s[x])
    BY <1>1, <1>2 DEF Later
  <2> QED BY <2>1 DEF Front, Sides, Other
<1>3. CASE s[x].game = s[y].game /\ s[x].state = s[y].state
  BY <1>3 DEF Front, Sides, Other
<1>4. CASE s[x].game = s[y].game /\ \E c \in Columns : Ahead(x, c)
  <2>1. Base(x) = s[y].state
    BY <1>4 DEF Base
  <2>2. PICK c \in Columns : Ahead(x, c)
    BY <1>4
  <2>3. Base(x).moves < COLS * ROWS
    BY <2>2, BaseSize DEF Ahead, CanDrop
  <2>4. s[x].state.moves = s[y].state.moves + 1
    BY <2>1, <2>2, <2>3, AheadIs
  <2>5. Later(s[x], s[y]) /\ ~Later(s[y], s[x])
    BY <1>1, <1>4, <2>4 DEF Later
  <2> QED BY <2>5 DEF Front, Sides, Other
<1> QED BY <1>2, <1>3, <1>4 DEF Leads, Base

\* Games that differ: who is behind has asked for the next one, and waits.
LEMMA Behind ==
  ASSUME Sessions, Together, NEW x \in Sides, s[x].game < s[Other(x)].game
  PROVE  /\ s[Other(x)].game = s[x].game + 1 /\ Leads(Other(x)) /\ ~Leads(x)
         /\ IsOver(s[x].state) /\ s[x].mine /\ ~s[x].theirs
<1>1. s[x].game \in Nat /\ s[Other(x)].game \in Nat
  BY TwoSides, SessionIs
<1>2. ~Leads(x)
  BY <1>1 DEF Leads
<1>3. Leads(Other(x))
  BY <1>2, TwoSides DEF Together
<1> QED BY <1>1, <1>2, <1>3, TwoSides DEF Leads

\* Whose turn it is has its friend level with it.
LEMMA TurnLeads ==
  ASSUME Sessions, Together, NEW x \in Sides, NEW c, CanDrop(s[x].state, c, x)
  PROVE  /\ Leads(x) /\ s[x].state = Base(x) /\ s[x].wins = s[Other(x)].wins
         /\ s[Other(x)].game <= s[x].game /\ ~s[x].mine /\ ~s[x].theirs /\ ~s[Other(x)].theirs
<1> DEFINE y == Other(x)
<1>1. y \in Sides /\ y # x /\ Other(y) = x /\ \A z \in Sides : z = x \/ z = y
  BY TwoSides
<1>2. ~IsOver(s[x].state) /\ s[x].state.turn = x
  BY DEF CanDrop
<1>3. ~(s[x].game < s[y].game)
  BY <1>2, Behind
<1>4. s[x].game \in Nat /\ s[y].game \in Nat
  BY <1>1, SessionIs
<1>5. s[x].state = Base(x) /\ s[x].wins = s[y].wins /\ Leads(x)
  <2>1. CASE Leads(x)
    <3>1. ASSUME NEW d \in Columns, Ahead(x, d) PROVE FALSE
      <4>1. Base(x).moves < COLS * ROWS
        BY <3>1, BaseSize DEF Ahead, CanDrop
      <4> QED BY <1>1, <1>2, <3>1, <4>1, AheadIs
    <3> QED BY <2>1, <3>1 DEF Leads
  <2>2. CASE Leads(y)
    <3>1. s[y].game = s[x].game
      BY <1>1, <1>3, <1>4, <2>2 DEF Leads
    <3>2. Base(y) = s[x].state /\ Base(x) = s[y].state
      BY <1>1, <3>1 DEF Base
    <3>3. ASSUME NEW d \in Columns, Ahead(y, d) PROVE FALSE
      BY <1>1, <1>2, <3>2, <3>3 DEF Ahead, CanDrop
    <3>4. s[y].state = s[x].state /\ s[y].wins = s[x].wins
      BY <1>1, <2>2, <3>2, <3>3 DEF Leads
    <3> QED BY <1>1, <3>1, <3>2, <3>4 DEF Leads
  <2> QED BY <1>1, <2>1, <2>2 DEF Together
<1>6. ~s[x].mine /\ ~s[x].theirs /\ ~s[y].theirs
  BY <1>1, <1>2 DEF Together, BoardRight, AskRight
<1> QED BY <1>3, <1>4, <1>5, <1>6

\* Two boards of one game that are both over are the same.
LEMMA BothOver ==
  ASSUME Sessions, Together, NEW x \in Sides, s[x].game = s[Other(x)].game,
         IsOver(s[x].state), IsOver(s[Other(x)].state)
  PROVE  s[x].state = s[Other(x)].state /\ s[x].wins = s[Other(x)].wins /\ Leads(x)
<1> DEFINE y == Other(x)
<1>1. y \in Sides /\ Other(y) = x /\ \A z \in Sides : z = x \/ z = y
  BY TwoSides
<1>2. Base(x) = s[y].state /\ Base(y) = s[x].state
  BY <1>1 DEF Base
<1>3. \A c : ~Ahead(x, c) /\ ~Ahead(y, c)
  BY <1>2 DEF Ahead, CanDrop
<1>4. s[x].state = s[y].state /\ s[x].wins = s[y].wins
  BY <1>1, <1>2, <1>3 DEF Together, Leads
<1> QED BY <1>2, <1>4 DEF Leads

\* The rules of the one game are those of the sessions.
LEMMA SameRules ==
  /\ \A st, c, who : Game!CanDrop(st, c, who) <=> CanDrop(st, c, who)
  /\ \A st, c, who : Game!Drop(st, c, who) = Drop(st, c, who)
  /\ \A st : Game!IsOver(st) <=> IsOver(st)
  /\ \A first : Game!NewBoard(first) = NewBoard(first)
  /\ \A g : Game!FirstFor(g) = FirstFor(g)
  /\ Game!Sides = Sides /\ Game!Columns = Columns
<1>1. Game!Sides = Sides /\ Game!Columns = Columns /\ Game!Rows = Rows /\ Game!Cells = Cells
  BY DEF Game!Sides, Sides, Game!Columns, Columns, Game!Rows, Rows, Game!Cells, Cells
<1>2. \A st : Game!IsOver(st) <=> IsOver(st)
  BY DEF Game!IsOver, IsOver
<1>3. \A st, c : Game!Free(st, c) = Free(st, c)
  BY <1>1 DEF Game!Free, Free
<1>4. \A st, c, who : Game!CanDrop(st, c, who) <=> CanDrop(st, c, who)
  BY <1>1, <1>2, <1>3 DEF Game!CanDrop, CanDrop
<1>5. \A st, c : Game!LandingRow(st, c) = LandingRow(st, c)
  BY <1>3 DEF Game!LandingRow, LandingRow
<1>6. \A b, cell : Game!LineThrough(b, cell) <=> LineThrough(b, cell)
  BY <1>1 DEF Game!LineThrough, LineThrough, Game!DIRS, DIRS, Game!Along, Along
<1>7. \A who : Game!Other(who) = Other(who)
  BY DEF Game!Other, Other
<1>8. \A st, c, who : Game!Drop(st, c, who) = Drop(st, c, who)
  BY <1>5, <1>6, <1>7 DEF Game!Drop, Drop
<1>9. \A first : Game!NewBoard(first) = NewBoard(first)
  BY <1>1 DEF Game!NewBoard, NewBoard
<1>10. \A g : Game!FirstFor(g) = FirstFor(g)
  BY DEF Game!FirstFor, FirstFor
<1> QED BY <1>1, <1>2, <1>4, <1>8, <1>9, <1>10

\* The front is so in every state.
LEMMA FrontAlways ==
  Sessions /\ Together => \A z \in Sides : Leads(z) => Front.game = s[z].game /\ Front.state = s[z].state
BY FrontIs

\* The front after a step.
LEMMA FrontNext ==
  ASSUME Sessions', Together', NEW x \in Sides, Leads(x)'
  PROVE  Front.game' = s'[x].game /\ Front.state' = s'[x].state
<1>1. (Sessions /\ Together => \A z \in Sides : Leads(z) => Front.game = s[z].game /\ Front.state = s[z].state)'
  BY FrontAlways, PTL
<1> QED BY <1>1

\* What a disc makes of a session.
LEMMA ApplyIs ==
  ASSUME NEW m \in Session, NEW c, NEW who \in Sides, m.state.moves < COLS * ROWS
  PROVE  /\ Apply(m, c, who) \in Session /\ Apply(m, c, who).game = m.game
         /\ Apply(m, c, who).state = Drop(m.state, c, who)
         /\ Apply(m, c, who).wins =
              [m.wins EXCEPT ![who] = IF Apply(m, c, who).state.winner = who THEN @ + 1 ELSE @]
         /\ Apply(m, c, who).mine = m.mine /\ Apply(m, c, who).theirs = m.theirs
         /\ Apply(m, c, who).age = m.age /\ Apply(m, c, who).ended = m.ended
         /\ Apply(m, c, who).on = m.on /\ Apply(m, c, who).greeted = m.greeted
<1> DEFINE st == Drop(m.state, c, who)
           w == [m.wins EXCEPT ![who] = IF st.winner = who THEN @ + 1 ELSE @]
<1>1. m.state \in Board /\ m.wins \in [Sides -> Nat]
  BY DEF Session
<1>2. st \in Board
  BY <1>1, DropIs
<1>3. Apply(m, c, who) = [m EXCEPT !.state = st, !.wins = w]
  BY <1>1 DEF Apply, Session
<1> HIDE DEF st
<1>4. w \in [Sides -> Nat]
  BY <1>1
<1> HIDE DEF w
<1>5. /\ [m EXCEPT !.state = st, !.wins = w] \in Session
      /\ [m EXCEPT !.state = st, !.wins = w].state = st
      /\ [m EXCEPT !.state = st, !.wins = w].wins = w
      /\ [m EXCEPT !.state = st, !.wins = w].game = m.game
      /\ [m EXCEPT !.state = st, !.wins = w].mine = m.mine
      /\ [m EXCEPT !.state = st, !.wins = w].theirs = m.theirs
      /\ [m EXCEPT !.state = st, !.wins = w].age = m.age
      /\ [m EXCEPT !.state = st, !.wins = w].ended = m.ended
      /\ [m EXCEPT !.state = st, !.wins = w].on = m.on
      /\ [m EXCEPT !.state = st, !.wins = w].greeted = m.greeted
  BY <1>2, <1>4 DEF Session
<1> QED BY <1>3, <1>5 DEF st, w

\* ... besides the game.
LEMMA ApplyKeeps ==
  ASSUME NEW m \in Session, NEW c, NEW who \in Sides, m.state.moves < COLS * ROWS
  PROVE  /\ Apply(m, c, who) \in Session
         /\ Apply(m, c, who).age = m.age /\ Apply(m, c, who).ended = m.ended
         /\ Apply(m, c, who).on = m.on /\ Apply(m, c, who).greeted = m.greeted
<1> DEFINE st == Drop(m.state, c, who)
           w == [m.wins EXCEPT ![who] = IF st.winner = who THEN @ + 1 ELSE @]
<1>1. st \in Board /\ w \in [Sides -> Nat]
  BY DropIs DEF Session
<1>2. Apply(m, c, who) = [m EXCEPT !.state = st, !.wins = w]
  BY DEF Apply, Session
<1> HIDE DEF st, w
<1> QED BY <1>1, <1>2 DEF Session

\* ... and of its board.
LEMMA ApplyRight ==
  ASSUME NEW m \in Session, NEW c, NEW who \in Sides, BoardRight(m), ~IsOver(m.state),
         NEW n \in Session, n.game = m.game, n.state = Drop(m.state, c, who),
         n.wins = [m.wins EXCEPT ![who] = IF n.state.winner = who THEN @ + 1 ELSE @],
         n.mine = m.mine
  PROVE  BoardRight(n) /\ n.state.moves = m.state.moves + 1
<1>1. m.state \in Board /\ m.wins \in [Sides -> Nat] /\ m.game \in Nat /\ m.state.moves \in Nat
  BY DEF Session, Board
<1>2. /\ m.state.moves < COLS * ROWS /\ m.game < MaxGames /\ ~m.mine
      /\ \A x \in Sides : m.wins[x] <= m.game
  BY <1>1 DEF BoardRight
<1>3. /\ n.state.moves = m.state.moves + 1 /\ n.state.moves <= COLS * ROWS
      /\ n.state.winner = who => IsOver(n.state)
      /\ ~IsOver(n.state) => n.state.moves < COLS * ROWS
  BY <1>1, <1>2, DropIs
<1>4. ASSUME NEW x \in Sides
      PROVE  n.wins[x] <= n.game + (IF IsOver(n.state) THEN 1 ELSE 0)
  <2>1. m.wins[x] \in Nat /\ m.wins[x] <= m.game
    BY <1>1, <1>2
  <2>2. n.wins[x] = m.wins[x] \/ (n.wins[x] = m.wins[x] + 1 /\ n.state.winner = who)
    BY <1>1
  <2> QED BY <1>1, <1>3, <2>1, <2>2
<1> QED BY <1>2, <1>3, <1>4 DEF BoardRight

\* A disc dropped: its side is ahead by it, and nothing older on its way can be taken for it.
LEMMA DropsTogether ==
  ASSUME Sessions, Together, NEW x \in Sides, NEW c \in Columns, CanDrop(s[x].state, c, x),
         Only(x, Apply(s[x], c, x)), News(x, Move(s[x].game, s[x].state.moves, c))
  PROVE  GoesTogether
<1> DEFINE y == Other(x)
           st == Drop(s[x].state, c, x)
<1>1. y \in Sides /\ y # x /\ Other(y) = x /\ \A z \in Sides : z = x \/ z = y
  BY TwoSides
<1>2. /\ Leads(x) /\ s[x].state = Base(x) /\ s[x].wins = s[y].wins
      /\ s[y].game <= s[x].game /\ ~s[x].mine /\ ~s[x].theirs /\ ~s[y].theirs
  BY TurnLeads
<1>3. ~IsOver(s[x].state) /\ s[x].state.moves < COLS * ROWS /\ s[x] \in Session
  BY DEF CanDrop, Together, BoardRight, Sessions
<1>4. /\ s'[x].game = s[x].game /\ s'[x].state = st
      /\ s'[x].wins = [s[x].wins EXCEPT ![x] = IF s'[x].state.winner = x THEN @ + 1 ELSE @]
      /\ s'[x].mine = s[x].mine /\ s'[x].theirs = s[x].theirs
  BY <1>3, ApplyIs DEF Only, IsNow
<1>5. IsNow(y, s[y]) /\ s'[x] \in Session /\ s'[y] \in Session
  BY <1>1 DEF Only
<1> HIDE DEF st
<1>6. BoardRight(s'[x]) /\ s'[x].state.moves = s[x].state.moves + 1
  BY <1>3, <1>4, <1>5, ApplyRight DEF st, Together
<1>7. BoardRight(s'[y])
  BY <1>1, <1>5 DEF BoardRight, IsNow, Together
<1>8. Base(x)' = s[x].state
  BY <1>1, <1>2, <1>4, <1>5 DEF Base, IsNow
<1>9. Ahead(x, c)'
  BY <1>1, <1>2, <1>4, <1>5, <1>8 DEF Ahead, IsNow, st
<1>10. Leads(x)'
  BY <1>1, <1>2, <1>4, <1>5, <1>9 DEF Leads, IsNow
<1>11. AskRight(x)' /\ AskRight(y)'
  BY <1>1, <1>2, <1>4, <1>5 DEF AskRight, IsNow
<1>12. /\ s[x].state.moves \in Nat /\ s[y].state.moves \in Nat /\ s[x].game \in Nat /\ s[y].game \in Nat
  BY <1>1, SessionIs
<1>13. ASSUME NEW f \in Sent(x)' PROVE FrameRight(x, f)'
  <2>1. CASE f \in Deeds(x)
    <3>1. FrameRight(x, f)
      BY <2>1 DEF Together, Deeds
    <3>2. CASE f.t = "move"
      <4>1. f.g < s[x].game \/ (f.g = s[x].game /\ f.n < s[x].state.moves)
        BY <3>1, <3>2 DEF FrameRight
      <4>2. f.g = s[x].game => f.n < s'[x].state.moves /\ f.n # s[x].state.moves
        BY <1>6, <1>12, <3>1, <3>2, <4>1 DEF FrameRight
      <4> QED BY <1>4, <1>8, <3>1, <3>2, <4>1, <4>2 DEF FrameRight
    <3>3. CASE f.t = "again"
      BY <1>4, <3>1, <3>3 DEF FrameRight
    <3> QED BY <2>1, <3>2, <3>3 DEF Deeds
  <2>2. CASE f = Move(s[x].game, s[x].state.moves, c)
    <3>1. f.t = "move" /\ f.g = s[x].game /\ f.n = s[x].state.moves /\ f.c = c
      BY <2>2 DEF Move
    <3> QED BY <1>4, <1>6, <1>9, <1>12, <3>1 DEF FrameRight
  <2>3. CASE f.t \notin {"move", "again"}
    BY <2>3 DEF FrameRight
  <2>4. f.t \in {"move", "again"} => f \in Deeds(x)'
    BY DEF Deeds
  <2> QED BY <2>1, <2>2, <2>3, <2>4 DEF News
<1>14. ASSUME NEW f \in Sent(y)' PROVE FrameRight(y, f)'
  <2>1. CASE f.t \in {"move", "again"}
    <3>1. f \in Deeds(y) /\ FrameRight(y, f)
      BY <1>1, <2>1 DEF News, Deeds, Together
    <3>2. CASE f.t = "again"
      BY <1>5, <3>1, <3>2 DEF FrameRight, IsNow
    <3>3. CASE f.t = "move" /\ f.g < s[y].game
      BY <1>5, <3>1, <3>3 DEF FrameRight, IsNow
    <3>4. CASE f.t = "move" /\ f.g = s[y].game /\ f.n < s[y].state.moves
      <4>1. CASE s[x].game = s[y].game
        <5>1. s[x].state = s[y].state
          BY <1>2, <4>1 DEF Base
        <5>2. Base(y)' = s'[x].state
          BY <1>1, <1>4, <1>5, <4>1 DEF Base, IsNow
        <5>3. f.n # s'[x].state.moves
          BY <1>6, <1>12, <3>1, <3>4, <5>1 DEF FrameRight
        <5> QED BY <1>5, <3>1, <3>4, <5>2, <5>3 DEF FrameRight, IsNow
      <4>2. CASE s[y].game < s[x].game
        <5>1. ~(s'[x].game <= s'[y].game)
          BY <1>4, <1>5, <1>12, <4>2 DEF IsNow
        <5> QED BY <1>1, <1>5, <3>1, <3>4, <5>1 DEF FrameRight, IsNow
      <4> QED BY <1>2, <1>12, <4>1, <4>2
    <3> QED BY <2>1, <3>1, <3>2, <3>3, <3>4 DEF FrameRight
  <2>2. CASE f.t \notin {"move", "again"}
    BY <2>2 DEF FrameRight
  <2> QED BY <2>1, <2>2
<1>15. Together'
  BY <1>1, <1>6, <1>7, <1>10, <1>11, <1>13, <1>14 DEF Together
<1>16. GameGoesOn
  <2>1. Front.game = s[x].game /\ Front.state = s[x].state
    BY <1>2, FrontIs
  <2>2. Front.game' = s'[x].game /\ Front.state' = s'[x].state
    <3>1. Sessions'
      BY DEF Only, Sessions
    <3> QED BY <1>10, <1>15, <3>1, FrontNext
  <2>3. Game!Dropped(x, c)
    BY <1>4, <2>1, <2>2, SameRules DEF Game!Dropped, st
  <2> QED BY <2>3, SameRules DEF GameGoesOn, Game!GameNext
<1> QED BY <1>15, <1>16 DEF GoesTogether

\* What is on its way is right, if the deeds there were are.
LEMMA DeedsRight ==
  ASSUME Together, NEW x \in Sides, Deeds(x)' \subseteq Deeds(x),
         \A f : FrameRight(x, f) => FrameRight(x, f)'
  PROVE  \A f \in Sent(x)' : FrameRight(x, f)'
<1>1. \A f : f.t \notin {"move", "again"} => FrameRight(x, f)'
  BY DEF FrameRight
<1>2. \A f \in Deeds(x)' : FrameRight(x, f)'
  BY DEF Together, Deeds
<1>3. \A f \in Sent(x)' : f.t \in {"move", "again"} => f \in Deeds(x)'
  BY DEF Deeds
<1> QED BY <1>1, <1>2, <1>3

\* ... and what is new.
LEMMA NewsRight ==
  ASSUME Together, NEW x \in Sides, NEW n, Deeds(x)' \subseteq Deeds(x) \cup {n}, FrameRight(x, n)',
         \A f : FrameRight(x, f) => FrameRight(x, f)'
  PROVE  \A f \in Sent(x)' : FrameRight(x, f)'
<1>1. \A f : f.t \notin {"move", "again"} => FrameRight(x, f)'
  BY DEF FrameRight
<1>2. \A f \in Deeds(x)' : FrameRight(x, f)'
  BY DEF Together, Deeds
<1>3. \A f \in Sent(x)' : f.t \in {"move", "again"} => f \in Deeds(x)'
  BY DEF Deeds
<1> QED BY <1>1, <1>2, <1>3

\* A step that leaves both sessions what they are, silence aside.
LEMMA QuietTogether ==
  ASSUME Sessions, Together, s' \in [Sides -> Session], \A x \in Sides : IsNow(x, s[x]), NoNews
  PROVE  GoesTogether
<1>1. ASSUME NEW x \in Sides
      PROVE  /\ BoardRight(s'[x]) /\ AskRight(x)' /\ Base(x)' = Base(x) /\ (Leads(x) => Leads(x)')
             /\ \A f : FrameRight(x, f) => FrameRight(x, f)'
  <2>1. IsNow(x, s[x]) /\ IsNow(Other(x), s[Other(x)]) /\ BoardRight(s[x]) /\ AskRight(x)
    BY TwoSides DEF Together
  <2>2. BoardRight(s'[x]) /\ AskRight(x)'
    BY <2>1 DEF BoardRight, AskRight, IsNow
  <2>3. Base(x)' = Base(x)
    BY <2>1 DEF Base, IsNow
  <2>4. \A c : Ahead(x, c) => Ahead(x, c)'
    BY <2>1, <2>3 DEF Ahead, IsNow
  <2>5. Leads(x) => Leads(x)'
    BY <2>1, <2>3, <2>4 DEF Leads, IsNow
  <2>6. \A f : FrameRight(x, f) => FrameRight(x, f)'
    BY <2>1, <2>3, <2>4 DEF FrameRight, IsNow
  <2> QED BY <2>2, <2>3, <2>5, <2>6
<1>2. ASSUME NEW x \in Sides PROVE \A f \in Sent(x)' : FrameRight(x, f)'
  <2>1. Deeds(x)' \subseteq Deeds(x)
    BY DEF NoNews
  <2>2. \A f : FrameRight(x, f) => FrameRight(x, f)'
    BY <1>1
  <2> QED BY <2>1, <2>2, DeedsRight
<1>3. PICK x \in Sides : Leads(x)
  BY DEF Together
<1>4. Together'
  BY <1>1, <1>2, <1>3 DEF Together
<1>5. Front.game = s[x].game /\ Front.state = s[x].state
  BY <1>3, FrontIs
<1>6. Front.game' = s'[x].game /\ Front.state' = s'[x].state
  BY <1>1, <1>3, <1>4, FrontNext DEF Sessions
<1>7. GameGoesOn
  BY <1>5, <1>6 DEF GameGoesOn, IsNow
<1> QED BY <1>4, <1>7 DEF GoesTogether

\* A disc heard of: the boards are level again.
LEMMA TakesTogether ==
  ASSUME Sessions, Together, NEW y \in Sides, NEW f \in Deeds(Other(y)), f.t = "move",
         f.g = s[y].game, f.n = s[y].state.moves, CanDrop(s[y].state, f.c, Other(y)),
         Only(y, Apply(s[y], f.c, Other(y))), NoNews
  PROVE  GoesTogether
<1> DEFINE x == Other(y)
           st == Drop(s[y].state, f.c, x)
<1>1. x \in Sides /\ x # y /\ Other(x) = y /\ \A z \in Sides : z = x \/ z = y
  BY TwoSides
<1>2. ~IsOver(s[y].state) /\ s[y].state.turn = x /\ s[y].state.moves < COLS * ROWS /\ s[y] \in Session
  BY DEF CanDrop, Together, BoardRight, Sessions
<1>3. /\ s[x].state.moves \in Nat /\ s[y].state.moves \in Nat /\ s[x].game \in Nat /\ s[y].game \in Nat
  BY <1>1, SessionIs
<1>4. s[y].game = s[x].game /\ Base(x) = s[y].state /\ Ahead(x, f.c)
  <2>1. FrameRight(x, f)
    BY <1>1 DEF Deeds, Together
  <2>2. ~(s[y].game < s[x].game)
    BY <1>1, <1>2, Behind
  <2>3. f.g = s[x].game
    BY <1>3, <2>1, <2>2 DEF FrameRight
  <2>4. Base(x) = s[y].state
    BY <1>1, <2>3 DEF Base
  <2> QED BY <1>1, <1>3, <2>1, <2>3, <2>4 DEF FrameRight
<1>5. /\ s'[y].game = s[y].game /\ s'[y].state = st
      /\ s'[y].wins = [s[y].wins EXCEPT ![x] = IF s'[y].state.winner = x THEN @ + 1 ELSE @]
      /\ s'[y].mine = s[y].mine /\ s'[y].theirs = s[y].theirs
  <2> DEFINE a == Apply(s[y], f.c, x)
  <2>1. IsNow(y, a)
    BY DEF Only
  <2>2. /\ a.game = s[y].game /\ a.state = st /\ a.mine = s[y].mine /\ a.theirs = s[y].theirs
        /\ a.wins = [s[y].wins EXCEPT ![x] = IF a.state.winner = x THEN @ + 1 ELSE @]
    BY <1>1, <1>2, ApplyIs
  <2> HIDE DEF a, st, x
  <2> QED BY <2>1, <2>2 DEF IsNow
<1>6. IsNow(x, s[x]) /\ s'[x] \in Session /\ s'[y] \in Session
  BY <1>1 DEF Only
<1> HIDE DEF st
<1>7. BoardRight(s'[y]) /\ s'[y].state.moves = s[y].state.moves + 1
  <2>1. BoardRight(s[y])
    BY DEF Together
  <2>2. s'[y].state = Drop(s[y].state, f.c, x)
    BY <1>5 DEF st
  <2>3. /\ s[y] \in Session /\ s'[y] \in Session /\ x \in Sides /\ ~IsOver(s[y].state)
        /\ s'[y].game = s[y].game /\ s'[y].mine = s[y].mine
        /\ s'[y].wins = [s[y].wins EXCEPT ![x] = IF s'[y].state.winner = x THEN @ + 1 ELSE @]
    BY <1>1, <1>2, <1>5, <1>6
  <2> HIDE DEF x
  <2> QED BY <2>1, <2>2, <2>3, ApplyRight
<1>8. BoardRight(s'[x])
  BY <1>1, <1>6 DEF BoardRight, IsNow, Together
<1>9. s'[y].state = s[x].state /\ s'[y].wins = s[x].wins
  BY <1>1, <1>4, <1>5 DEF Ahead, st
<1>10. Base(x)' = s'[x].state /\ Base(y)' = s'[y].state
  BY <1>1, <1>4, <1>5, <1>6, <1>9 DEF Base, IsNow
<1>11. Leads(x) /\ Leads(x)'
  <2>1. Leads(x)
    BY <1>1, <1>4 DEF Leads, Ahead, CanDrop
  <2>2. Leads(x)'
    BY <1>1, <1>4, <1>5, <1>6, <1>9, <1>10 DEF Leads, IsNow
  <2> QED BY <2>1, <2>2
<1>12. AskRight(x)' /\ AskRight(y)'
  <2>1. ~s[y].mine /\ ~s[y].theirs
    BY <1>2 DEF Together, BoardRight, AskRight
  <2>2. ~s[x].theirs
    BY <1>1, <2>1 DEF Together, AskRight
  <2> QED BY <1>1, <1>5, <1>6, <2>1, <2>2 DEF AskRight, IsNow
<1>13. \A g \in Sent(x)' : FrameRight(x, g)'
  <2>1. ASSUME NEW g, FrameRight(x, g) PROVE FrameRight(x, g)'
    <3>1. CASE g.t = "again"
      BY <1>6, <2>1, <3>1 DEF FrameRight, IsNow
    <3>2. CASE g.t = "move"
      <4>1. g.g = s[x].game => g.n # Base(x)'.moves
        BY <1>3, <1>6, <1>10, <2>1, <3>2 DEF FrameRight, IsNow
      <4> QED BY <1>6, <2>1, <3>2, <4>1 DEF FrameRight, IsNow
    <3> QED BY <3>1, <3>2 DEF FrameRight
  <2>2. \A g : FrameRight(x, g) => FrameRight(x, g)'
    BY <2>1
  <2>3. Deeds(x)' \subseteq Deeds(x)
    BY <1>1 DEF NoNews
  <2> QED BY <1>1, <2>2, <2>3, DeedsRight
<1>14. \A g \in Sent(y)' : FrameRight(y, g)'
  <2>1. ASSUME NEW g, FrameRight(y, g) PROVE FrameRight(y, g)'
    <3>1. CASE g.t = "again"
      BY <1>5, <2>1, <3>1 DEF FrameRight
    <3>2. CASE g.t = "move"
      <4>1. g.g = s[y].game => g.n < s'[y].state.moves /\ g.n # Base(y)'.moves
        BY <1>3, <1>7, <1>10, <2>1, <3>2 DEF FrameRight
      <4> QED BY <1>5, <2>1, <3>2, <4>1 DEF FrameRight
    <3> QED BY <3>1, <3>2 DEF FrameRight
  <2>2. \A g : FrameRight(y, g) => FrameRight(y, g)'
    BY <2>1
  <2>3. Deeds(y)' \subseteq Deeds(y)
    BY DEF NoNews
  <2> QED BY <2>2, <2>3, DeedsRight
<1>15. Together'
  BY <1>1, <1>7, <1>8, <1>11, <1>12, <1>13, <1>14 DEF Together
<1>16. GameGoesOn
  <2>1. Front.game = s[x].game /\ Front.state = s[x].state
    BY <1>1, <1>11, FrontIs
  <2>2. Front.game' = s'[x].game /\ Front.state' = s'[x].state
    BY <1>1, <1>11, <1>15, FrontNext DEF Only, Sessions
  <2> QED BY <1>6, <2>1, <2>2 DEF GameGoesOn, IsNow
<1> QED BY <1>15, <1>16 DEF GoesTogether

\* A side asks for another game, and its friend has not yet.
LEMMA AsksTogether ==
  ASSUME Sessions, Together, NEW x \in Sides, IsOver(s[x].state), ~s[x].mine, ~s[x].theirs,
         s[x].game + 1 < MaxGames, Only(x, [s[x] EXCEPT !.mine = TRUE]), News(x, Again(s[x].game))
  PROVE  GoesTogether
<1> DEFINE y == Other(x)
<1>1. y \in Sides /\ y # x /\ Other(y) = x /\ \A z \in Sides : z = x \/ z = y
  BY TwoSides
<1>2. /\ s'[x].game = s[x].game /\ s'[x].state = s[x].state /\ s'[x].wins = s[x].wins
      /\ s'[x].mine = TRUE /\ s'[x].theirs = s[x].theirs
  BY DEF Only, IsNow, Sessions, Session
<1>3. IsNow(y, s[y]) /\ s' \in [Sides -> Session]
  BY <1>1 DEF Only
<1>4. BoardRight(s'[x]) /\ BoardRight(s'[y]) /\ AskRight(x)' /\ AskRight(y)'
  <2>1. BoardRight(s[x]) /\ BoardRight(s[y]) /\ AskRight(y)
    BY <1>1 DEF Together
  <2> QED BY <1>1, <1>2, <1>3, <2>1 DEF BoardRight, AskRight, IsNow
<1>5. Base(x)' = Base(x) /\ Base(y)' = Base(y)
  BY <1>1, <1>2, <1>3 DEF Base, IsNow
<1>6. \A c : (Ahead(x, c) <=> Ahead(x, c)') /\ (Ahead(y, c) <=> Ahead(y, c)')
  BY <1>1, <1>2, <1>3, <1>5 DEF Ahead, IsNow
<1>7. (Leads(x) => Leads(x)') /\ (Leads(y) => Leads(y)')
  BY <1>1, <1>2, <1>3, <1>5, <1>6 DEF Leads, IsNow
<1>8. \A f \in Sent(x)' : FrameRight(x, f)'
  <2>1. \A f : FrameRight(x, f) => FrameRight(x, f)'
    BY <1>1, <1>2, <1>3, <1>5, <1>6 DEF FrameRight, IsNow
  <2>2. ASSUME NEW n, n = Again(s[x].game) PROVE \A f \in Sent(x)' : FrameRight(x, f)'
    <3>1. FrameRight(x, n)'
      BY <1>2, <2>2, SessionIs DEF FrameRight, Again
    <3>2. Deeds(x)' \subseteq Deeds(x) \cup {n}
      BY <2>2 DEF News
    <3> QED BY <2>1, <3>1, <3>2, NewsRight
  <2> QED BY <2>2
<1>9. \A f \in Sent(y)' : FrameRight(y, f)'
  <2>1. \A f : FrameRight(y, f) => FrameRight(y, f)'
    BY <1>1, <1>2, <1>3, <1>5, <1>6 DEF FrameRight, IsNow
  <2>2. Deeds(y)' \subseteq Deeds(y)
    BY DEF News
  <2> QED BY <1>1, <2>1, <2>2, DeedsRight
<1>10. Together'
  BY <1>1, <1>4, <1>7, <1>8, <1>9 DEF Together
<1>11. GameGoesOn
  <2>1. PICK z \in Sides : Leads(z) /\ Leads(z)'
    BY <1>1, <1>7 DEF Together
  <2>2. Front.game = s[z].game /\ Front.state = s[z].state
    BY <2>1, FrontIs
  <2>3. Front.game' = s'[z].game /\ Front.state' = s'[z].state
    BY <1>3, <1>10, <2>1, FrontNext DEF Sessions
  <2> QED BY <1>1, <1>2, <1>3, <2>2, <2>3 DEF GameGoesOn, IsNow
<1> QED BY <1>10, <1>11 DEF GoesTogether


\* What a restart makes of a session.
LEMMA RestartIs ==
  ASSUME NEW m \in Session
  PROVE  /\ Restart(m) \in Session /\ Restart(m).game = m.game + 1
         /\ Restart(m).state = NewBoard(FirstFor(m.game + 1)) /\ Restart(m).wins = m.wins
         /\ ~Restart(m).mine /\ ~Restart(m).theirs /\ Restart(m).age = m.age
         /\ Restart(m).ended = m.ended /\ Restart(m).on = m.on /\ Restart(m).greeted = m.greeted
<1>1. NewBoard(FirstFor(m.game + 1)) \in Board
  BY FirstIs, NewIs
<1> DEFINE st == NewBoard(FirstFor(m.game + 1))
<1>2. Restart(m) = [m EXCEPT !.game = m.game + 1, !.state = st, !.mine = FALSE, !.theirs = FALSE]
  BY DEF Restart, Session
<1> HIDE DEF st
<1>3. st \in Board
  BY <1>1 DEF st
<1>4. /\ Restart(m) \in Session /\ Restart(m).game = m.game + 1
      /\ Restart(m).state = st /\ Restart(m).wins = m.wins
      /\ ~Restart(m).mine /\ ~Restart(m).theirs /\ Restart(m).age = m.age
      /\ Restart(m).ended = m.ended /\ Restart(m).on = m.on /\ Restart(m).greeted = m.greeted
  <2>1. m.game + 1 \in Nat
    BY DEF Session
  <2>2. Restart(m) \in Session
    BY <1>2, <1>3, <2>1 DEF Session
  <2> QED BY <1>2, <2>2 DEF Session
<1> QED BY <1>4 DEF st

\* A side hears that its friend asks for another game.
LEMMA HearsTogether ==
  ASSUME Sessions, Together, NEW y \in Sides, NEW f \in Deeds(Other(y)), f.t = "again",
         f.g = s[y].game, IsOver(s[y].state), ~s[y].mine, ~s[y].theirs,
         Only(y, [s[y] EXCEPT !.theirs = TRUE]), NoNews
  PROVE  GoesTogether
<1> DEFINE x == Other(y)
<1>1. x \in Sides /\ x # y /\ Other(x) = y /\ \A z \in Sides : z = x \/ z = y
  BY TwoSides
<1>2. /\ s'[y].game = s[y].game /\ s'[y].state = s[y].state /\ s'[y].wins = s[y].wins
      /\ s'[y].mine = s[y].mine /\ s'[y].theirs = TRUE
  BY DEF Only, IsNow, Sessions, Session
<1>3. IsNow(x, s[x]) /\ s' \in [Sides -> Session]
  BY <1>1 DEF Only
<1>4. s[x].game = s[y].game /\ s[x].mine
  <2>1. FrameRight(x, f)
    BY <1>1 DEF Deeds, Together
  <2>2. ~(s[y].game < s[x].game)
    BY <1>1, Behind
  <2> QED BY <2>1, <2>2 DEF FrameRight
<1>5. BoardRight(s'[x]) /\ BoardRight(s'[y]) /\ AskRight(x)' /\ AskRight(y)'
  <2>1. BoardRight(s[x]) /\ BoardRight(s[y]) /\ AskRight(x)
    BY <1>1 DEF Together
  <2> QED BY <1>1, <1>2, <1>3, <1>4, <2>1 DEF BoardRight, AskRight, IsNow
<1>6. Base(x)' = Base(x) /\ Base(y)' = Base(y)
  BY <1>1, <1>2, <1>3 DEF Base, IsNow
<1>7. \A c : (Ahead(x, c) <=> Ahead(x, c)') /\ (Ahead(y, c) <=> Ahead(y, c)')
  BY <1>1, <1>2, <1>3, <1>6 DEF Ahead, IsNow
<1>8. (Leads(x) => Leads(x)') /\ (Leads(y) => Leads(y)')
  <2>1. s[x].game \in Nat /\ s[y].game \in Nat
    BY <1>1, SessionIs
  <2> QED BY <1>1, <1>2, <1>3, <1>4, <1>6, <1>7, <2>1 DEF Leads, IsNow
<1>9. ASSUME NEW z \in Sides PROVE \A g \in Sent(z)' : FrameRight(z, g)'
  <2>1. \A g : FrameRight(z, g) => FrameRight(z, g)'
    <3>1. CASE z = x
      BY <1>1, <1>2, <1>3, <1>6, <1>7, <3>1 DEF FrameRight, IsNow
    <3>2. CASE z = y
      BY <1>1, <1>2, <1>3, <1>6, <1>7, <3>2 DEF FrameRight, IsNow
    <3> QED BY <1>1, <3>1, <3>2
  <2>2. Deeds(z)' \subseteq Deeds(z)
    BY DEF NoNews
  <2> QED BY <2>1, <2>2, DeedsRight
<1>10. Together'
  BY <1>1, <1>5, <1>8, <1>9 DEF Together
<1>11. GameGoesOn
  <2>1. PICK z \in Sides : Leads(z) /\ Leads(z)'
    BY <1>1, <1>8 DEF Together
  <2>2. Front.game = s[z].game /\ Front.state = s[z].state
    BY <2>1, FrontIs
  <2>3. Front.game' = s'[z].game /\ Front.state' = s'[z].state
    BY <1>3, <1>10, <2>1, FrontNext DEF Sessions
  <2> QED BY <1>1, <1>2, <1>3, <2>2, <2>3 DEF GameGoesOn, IsNow
<1> QED BY <1>10, <1>11 DEF GoesTogether

\* A side begins another game, which both have asked for or its friend has begun.
LEMMA RestartTogether ==
  ASSUME Sessions, Together, NEW y \in Sides, IsOver(s[y].state), s[y].game + 1 < MaxGames,
         \/ s[Other(y)].game = s[y].game /\ s[Other(y)].mine /\ ~s[Other(y)].theirs
         \/ s[y].game < s[Other(y)].game,
         Only(y, Restart(s[y])), News(y, Again(s[y].game))
  PROVE  GoesTogether
<1> DEFINE x == Other(y)
           st == NewBoard(FirstFor(s[y].game + 1))
<1>1. x \in Sides /\ x # y /\ Other(x) = y /\ \A z \in Sides : z = x \/ z = y
  BY TwoSides
<1>2. s[x].game \in Nat /\ s[y].game \in Nat /\ s[y] \in Session /\ s[y].wins \in [Sides -> Nat]
  BY <1>1, SessionIs DEF Sessions
<1>3. /\ s'[y].game = s[y].game + 1 /\ s'[y].state = st /\ s'[y].wins = s[y].wins
      /\ ~s'[y].mine /\ ~s'[y].theirs
  BY <1>2, RestartIs DEF Only, IsNow
<1>4. IsNow(x, s[x]) /\ s' \in [Sides -> Session]
  BY <1>1 DEF Only
<1>5. st.moves = 0 /\ ~IsOver(st)
  BY FirstIs, NewIs
<1> HIDE DEF st
<1>6. BoardRight(s'[x]) /\ BoardRight(s'[y])
  <2>1. BoardRight(s[x]) /\ BoardRight(s[y])
    BY <1>1 DEF Together
  <2>2. BoardRight(s'[x])
    BY <1>4, <2>1 DEF BoardRight, IsNow
  <2>3. \A z \in Sides : s[y].wins[z] <= s[y].game + 1
    BY <2>1 DEF BoardRight
  <2>4. \A z \in Sides : s'[y].wins[z] <= s'[y].game + (IF IsOver(s'[y].state) THEN 1 ELSE 0)
    BY <1>2, <1>3, <1>5, <2>3
  <2> QED BY <1>2, <1>3, <1>5, <2>2, <2>4, BoardSize DEF BoardRight
<1>7. \A f \in Sent(y)' : FrameRight(y, f)'
  <2>1. \A f : FrameRight(y, f) => FrameRight(y, f)'
    BY <1>2, <1>3 DEF FrameRight
  <2>2. ASSUME NEW n, n = Again(s[y].game) PROVE \A f \in Sent(y)' : FrameRight(y, f)'
    <3>1. FrameRight(y, n)'
      BY <1>2, <1>3, <2>2 DEF FrameRight, Again
    <3>2. Deeds(y)' \subseteq Deeds(y) \cup {n}
      BY <2>2 DEF News
    <3> QED BY <2>1, <3>1, <3>2, NewsRight
  <2> QED BY <2>2
<1>8. Deeds(x)' \subseteq Deeds(x)
  BY DEF News
<1>9. CASE s[x].game = s[y].game /\ s[x].mine /\ ~s[x].theirs
  <2>1. IsOver(s[x].state)
    BY <1>1, <1>9 DEF Together, BoardRight
  <2>2. s[y].state = s[x].state /\ s[y].wins = s[x].wins /\ Leads(y)
    BY <1>1, <1>9, <2>1, BothOver
  <2>3. Base(y)' = s'[y].state
    BY <1>1, <1>2, <1>3, <1>4, <1>9 DEF Base, IsNow, st
  <2>4. Leads(y)'
    BY <1>1, <1>3, <1>4, <1>9, <2>1, <2>2, <2>3 DEF Leads, IsNow
  <2>5. AskRight(x)' /\ AskRight(y)'
    BY <1>3, <1>4, <1>9 DEF AskRight, IsNow
  <2>6. \A f : FrameRight(x, f) => FrameRight(x, f)'
    BY <1>1, <1>2, <1>3, <1>4, <1>9 DEF FrameRight, IsNow
  <2>7. \A f \in Sent(x)' : FrameRight(x, f)'
    BY <1>1, <1>8, <2>6, DeedsRight
  <2>8. Together'
    BY <1>1, <1>6, <1>7, <2>4, <2>5, <2>7 DEF Together
  <2>9. Front.game = s[y].game /\ Front.state = s[y].state
    BY <2>2, FrontIs
  <2>10. Front.game' = s'[y].game /\ Front.state' = s'[y].state
    BY <1>4, <2>4, <2>8, FrontNext DEF Sessions
  <2>11. GameGoesOn
    BY <1>3, <2>9, <2>10, SameRules DEF GameGoesOn, Game!GameNext, Game!Restarted, st
  <2> QED BY <2>8, <2>11 DEF GoesTogether
<1>10. CASE s[y].game < s[x].game
  <2>1. s[x].game = s[y].game + 1 /\ Leads(x)
    BY <1>10, Behind
  <2>2. Base(x)' = Base(x)
    BY <1>1, <1>2, <1>3, <1>4, <2>1 DEF Base, IsNow, st
  <2>3. \A c : Ahead(x, c) <=> Ahead(x, c)'
    BY <1>1, <1>3, <1>4, <2>2 DEF Ahead, IsNow
  <2>4. Leads(x)'
    BY <1>1, <1>2, <1>3, <1>4, <2>1, <2>2, <2>3 DEF Leads, IsNow
  <2>5. AskRight(x)' /\ AskRight(y)'
    <3>1. ~s[x].theirs
      BY <1>1, <1>2, <2>1 DEF Together, AskRight
    <3> QED BY <1>3, <1>4, <3>1 DEF AskRight, IsNow
  <2>6. \A f : FrameRight(x, f) => FrameRight(x, f)'
    BY <1>1, <1>2, <1>3, <1>4, <2>1, <2>2, <2>3 DEF FrameRight, IsNow
  <2>7. \A f \in Sent(x)' : FrameRight(x, f)'
    BY <1>1, <1>8, <2>6, DeedsRight
  <2>8. Together'
    BY <1>1, <1>6, <1>7, <2>4, <2>5, <2>7 DEF Together
  <2>9. Front.game = s[x].game /\ Front.state = s[x].state
    BY <1>1, <2>1, FrontIs
  <2>10. Front.game' = s'[x].game /\ Front.state' = s'[x].state
    BY <1>1, <1>4, <2>4, <2>8, FrontNext DEF Sessions
  <2>11. GameGoesOn
    BY <1>4, <2>9, <2>10 DEF GameGoesOn, IsNow
  <2> QED BY <2>8, <2>11 DEF GoesTogether
<1> QED BY <1>9, <1>10
-----------------------------------------------------------------------------
(* What a step does to the queues *)

\* what moves no game
Idle ==
  [t : {"hi"}, ok : BOOLEAN]
    \cup [t : {"keep", "hide", "leave", "friendAway", "friendBack", "resumed", "closed"}]

\* A queue holds, after a step, only what was on its way from a side, and S.
Holds(x, q, S) == Range(q) \subseteq Sent(x) \cup Idle \cup S

\* The frames, by what they say.
LEMMA FramesAre ==
  /\ \A f \in FromSide : f.t \in {"hi", "move", "again", "keep"} => f \in Frame
  /\ \A f \in FromRelay : f.t \in {"hi", "move", "again", "keep"} => f \in Frame
  /\ \A f \in Frame :
       /\ f.t \in {"hi", "move", "again", "keep"}
       /\ f.t = "move" => f.g \in Nat /\ f.n \in Nat /\ f.c \in Columns
       /\ f.t = "again" => f.g \in Nat
  /\ Frame \subseteq FromSide /\ Frame \subseteq FromRelay
<1>1. /\ \A f \in FromSide : f.t \in {"hi", "move", "again", "keep"} => f \in Frame
      /\ \A f \in FromRelay : f.t \in {"hi", "move", "again", "keep"} => f \in Frame
  BY DEF FromSide, FromRelay
<1>2. \A f \in Frame : f.t \in {"hi", "move", "again", "keep"}
  BY DEF Frame
<1>3. \A f \in Frame : f.t = "move" => f.g \in Nat /\ f.n \in Nat /\ f.c \in Columns
  BY DEF Frame
<1>4. \A f \in Frame : f.t = "again" => f.g \in Nat
  BY DEF Frame
<1>5. Frame \subseteq FromSide /\ Frame \subseteq FromRelay
  BY DEF FromSide, FromRelay
<1> QED BY <1>1, <1>2, <1>3, <1>4, <1>5

LEMMA SaidAre ==
  /\ \A b \in BOOLEAN : Hi(b) \in Frame /\ Hi(b) \in Idle
  /\ \A g \in Nat, n \in Nat, c \in Columns : Move(g, n, c) \in Frame
  /\ \A g \in Nat : Again(g) \in Frame
  /\ Say("keep") \in Frame
  /\ \A w \in {"hide", "leave"} : Say(w) \in FromSide
  /\ \A w \in {"friendAway", "friendBack", "resumed", "closed"} : Say(w) \in FromRelay
  /\ \A w \in {"keep", "hide", "leave", "friendAway", "friendBack", "resumed", "closed"} : Say(w) \in Idle
BY DEF Hi, Move, Again, Say, Frame, FromSide, FromRelay, Idle

\* Nothing that moves a game is new.
LEMMA SameDeeds ==
  ASSUME NEW x \in Sides, Holds(x, up'[x], {}), Holds(x, outbox'[x], {}),
         Holds(x, kept'[Other(x)], {}), Holds(x, down'[Other(x)], {})
  PROVE  Deeds(x)' \subseteq Deeds(x)
<1>1. \A f \in Idle : f.t \notin {"move", "again"}
  BY DEF Idle
<1>2. Sent(x)' \subseteq Sent(x) \cup Idle
  BY DEF Sent, Holds
<1> QED BY <1>1, <1>2 DEF Deeds

\* ... or one frame is.
LEMMA MoreDeeds ==
  ASSUME NEW x \in Sides, NEW f, Holds(x, up'[x], {f}), Holds(x, outbox'[x], {f}),
         Holds(x, kept'[Other(x)], {f}), Holds(x, down'[Other(x)], {f})
  PROVE  Deeds(x)' \subseteq Deeds(x) \cup {f}
<1>1. \A g \in Idle : g.t \notin {"move", "again"}
  BY DEF Idle
<1>2. Sent(x)' \subseteq Sent(x) \cup Idle \cup {f}
  BY DEF Sent, Holds
<1> QED BY <1>1, <1>2 DEF Deeds

\* What is held where it was is held.
LEMMA HeldStill ==
  ASSUME NEW x \in Sides, NEW S
  PROVE  /\ Holds(x, up[x], S) /\ Holds(x, outbox[x], S)
         /\ Holds(x, kept[Other(x)], S) /\ Holds(x, down[Other(x)], S)
BY DEF Holds, Sent

\* A post: in the queue to the relay, or in the outbox, or nowhere.
LEMMA PostIs ==
  ASSUME Typed, NEW x \in Sides, NEW f \in Frame, Post(x, f)
  PROVE  /\ up' \in [Sides -> Seq(FromSide)] /\ outbox' \in [Sides -> Seq(Frame)]
         /\ up'[Other(x)] = up[Other(x)] /\ outbox'[Other(x)] = outbox[Other(x)]
         /\ Holds(x, up'[x], {f}) /\ Holds(x, outbox'[x], {f})
<1>1. Other(x) \in Sides /\ Other(x) # x
  BY TwoSides
<1>2. up[x] \in Seq(FromSide) /\ outbox[x] \in Seq(Frame) /\ f \in FromSide
  BY FramesAre DEF Typed
<1>3. /\ Append(up[x], f) \in Seq(FromSide) /\ Range(Append(up[x], f)) = Range(up[x]) \cup {f}
      /\ Append(outbox[x], f) \in Seq(Frame) /\ Range(Append(outbox[x], f)) = Range(outbox[x]) \cup {f}
  BY <1>2, Put
<1>4. up'[x] \in {up[x], Append(up[x], f)} /\ outbox'[x] \in {outbox[x], Append(outbox[x], f)}
  BY DEF Post, Typed
<1>5. up' \in [Sides -> Seq(FromSide)] /\ outbox' \in [Sides -> Seq(Frame)]
  BY <1>2, <1>3 DEF Post, Typed
<1>6. up'[Other(x)] = up[Other(x)] /\ outbox'[Other(x)] = outbox[Other(x)]
  BY <1>1 DEF Post, Typed
<1>7. Holds(x, up'[x], {f}) /\ Holds(x, outbox'[x], {f})
  BY <1>3, <1>4 DEF Holds, Sent
<1> QED BY <1>5, <1>6, <1>7

\* What the relay says to a side comes after what it has said.
LEMMA ToOtherIs ==
  ASSUME Typed, NEW y \in Sides, NEW f \in FromRelay, ToOther(y, f)
  PROVE  /\ down' \in [Sides -> Seq(FromRelay)] /\ down'[Other(y)] = down[Other(y)]
         /\ Range(down'[y]) \subseteq Range(down[y]) \cup {f}
         /\ down[y] # <<>> => down'[y] # <<>> /\ Head(down'[y]) = Head(down[y])
<1>1. Other(y) \in Sides /\ Other(y) # y
  BY TwoSides
<1>2. down[y] \in Seq(FromRelay)
  BY DEF Typed
<1>3. Append(down[y], f) \in Seq(FromRelay) /\ Range(Append(down[y], f)) = Range(down[y]) \cup {f}
  BY <1>2, Put
<1>4. down[y] # <<>> => Append(down[y], f) # <<>> /\ Head(Append(down[y], f)) = Head(down[y])
  BY <1>2, Put, Took
<1>5. down'[y] \in {down[y], Append(down[y], f)}
  BY DEF ToOther, Typed
<1>6. down' \in [Sides -> Seq(FromRelay)]
  BY <1>2, <1>3 DEF ToOther, Typed
<1>7. down'[Other(y)] = down[Other(y)]
  BY <1>1 DEF ToOther, Typed
<1>8. Range(down'[y]) \subseteq Range(down[y]) \cup {f}
  BY <1>3, <1>5
<1>9. down[y] # <<>> => down'[y] # <<>> /\ Head(down'[y]) = Head(down[y])
  BY <1>4, <1>5
<1> QED BY <1>6, <1>7, <1>8, <1>9

\* What a side hears is off its queue.
LEMMA HeardIs ==
  ASSUME Typed, NEW x \in Sides, down[x] # <<>>, down' = [down EXCEPT ![x] = Tail(@)]
  PROVE  /\ down' \in [Sides -> Seq(FromRelay)] /\ down'[Other(x)] = down[Other(x)]
         /\ Range(down'[x]) \subseteq Range(down[x])
         /\ Head(down[x]) \in FromRelay /\ Head(down[x]) \in Sent(Other(x))
<1>1. Other(x) \in Sides /\ Other(x) # x /\ Other(Other(x)) = x
  BY TwoSides
<1>2. down[x] \in Seq(FromRelay)
  BY DEF Typed
<1>3. /\ Tail(down[x]) \in Seq(FromRelay) /\ Head(down[x]) \in FromRelay
      /\ Head(down[x]) \in Range(down[x]) /\ Range(Tail(down[x])) \subseteq Range(down[x])
  BY <1>2, Took
<1>4. Head(down[x]) \in Sent(Other(x))
  BY <1>1, <1>3 DEF Sent
<1> QED BY <1>1, <1>3, <1>4 DEF Typed

\* ... and what the relay takes off a side's.
LEMMA TakenIs ==
  ASSUME Typed, NEW x \in Sides, up[x] # <<>>, up' = [up EXCEPT ![x] = Tail(@)]
  PROVE  /\ up' \in [Sides -> Seq(FromSide)] /\ up'[Other(x)] = up[Other(x)]
         /\ Range(up'[x]) \subseteq Range(up[x])
         /\ Head(up[x]) \in FromSide /\ Head(up[x]) \in Sent(x)
<1>1. Other(x) \in Sides /\ Other(x) # x
  BY TwoSides
<1>2. up[x] \in Seq(FromSide)
  BY DEF Typed
<1>3. /\ Tail(up[x]) \in Seq(FromSide) /\ Head(up[x]) \in FromSide
      /\ Head(up[x]) \in Range(up[x]) /\ Range(Tail(up[x])) \subseteq Range(up[x])
  BY <1>2, Took
<1>4. Head(up[x]) \in Sent(x)
  BY <1>3 DEF Sent
<1> QED BY <1>1, <1>3, <1>4 DEF Typed
-----------------------------------------------------------------------------
(* What a player does *)

StepRight == Typed' /\ GoesTogether /\ \A z \in Sides : PauseRight(z)'

\* What a clock stands still for is as it was.
LEMMA PauseStill ==
  ASSUME \A z \in Sides : PauseRight(z), UNCHANGED <<link, paused, down>>,
         \A z \in Sides : s'[z].age <= SILENCE /\ (s[z].ended # "no" => s'[z].ended # "no")
  PROVE  \A z \in Sides : PauseRight(z)'
BY DEF PauseRight

LEMMA StartRight ==
  ASSUME TurnInv, NEW x \in Sides, Start(x)
  PROVE  StepRight
<1> DEFINE y == Other(x)
<1>1. y \in Sides /\ y # x /\ Other(y) = x /\ \A z \in Sides : z = x \/ z = y
  BY TwoSides
<1>2. Typed /\ Together /\ \A z \in Sides : PauseRight(z)
  BY DEF TurnInv
<1>3. Hi(FALSE) \in Frame /\ Hi(FALSE) \in Idle /\ Post(x, Hi(FALSE))
  BY SaidAre DEF Start
<1>4. /\ up' \in [Sides -> Seq(FromSide)] /\ outbox' \in [Sides -> Seq(Frame)]
      /\ up'[y] = up[y] /\ outbox'[y] = outbox[y]
      /\ Holds(x, up'[x], {Hi(FALSE)}) /\ Holds(x, outbox'[x], {Hi(FALSE)})
  BY <1>2, <1>3, PostIs
<1>5. UNCHANGED <<paused, down, link, wire, hid, seat, kept, cuts, hides>>
  BY DEF Start
<1>6. /\ s' \in [Sides -> Session] /\ \A z \in Sides : IsNow(z, s[z])
      /\ \A z \in Sides : s'[z].age = s[z].age /\ s'[z].ended = s[z].ended
  <2>1. s' = [s EXCEPT ![x].on = TRUE] /\ s \in [Sides -> Session]
    BY <1>2 DEF Start, Typed
  <2> QED BY <2>1 DEF IsNow, Session
<1>7. Typed'
  BY <1>2, <1>4, <1>5, <1>6 DEF Typed
<1>8. Holds(x, up'[x], {}) /\ Holds(x, outbox'[x], {})
  BY <1>3, <1>4 DEF Holds
<1>9. NoNews
  <2>1. Deeds(x)' \subseteq Deeds(x)
    BY <1>1, <1>5, <1>8, HeldStill, SameDeeds
  <2>2. Deeds(y)' \subseteq Deeds(y)
    BY <1>1, <1>4, <1>5, HeldStill, SameDeeds
  <2> QED BY <1>1, <2>1, <2>2 DEF NoNews
<1>10. GoesTogether
  BY <1>2, <1>6, <1>9, QuietTogether DEF Typed, Sessions
<1>11. \A z \in Sides : PauseRight(z)'
  BY <1>2, <1>5, <1>6, PauseStill DEF PauseRight
<1> QED BY <1>7, <1>10, <1>11 DEF StepRight

LEMMA PlayRight ==
  ASSUME TurnInv, NEW x \in Sides, NEW c \in Columns, Play(x, c)
  PROVE  StepRight
<1> DEFINE y == Other(x)
           f == Move(s[x].game, s[x].state.moves, c)
<1>1. y \in Sides /\ y # x /\ Other(y) = x /\ \A z \in Sides : z = x \/ z = y
  BY TwoSides
<1>2. Typed /\ Together /\ Sessions /\ \A z \in Sides : PauseRight(z)
  BY DEF TurnInv, Typed, Sessions
<1>3. f \in Frame /\ Post(x, f)
  BY <1>2, SessionIs, SaidAre DEF Play
<1>4. UNCHANGED <<paused, down, link, wire, hid, seat, kept, cuts, hides>>
  BY DEF Play
<1>5. CanDrop(s[x].state, c, x) /\ s[x] \in Session /\ s[x].state.moves < COLS * ROWS
  BY <1>2 DEF Play, CanDrop, Together, BoardRight, Sessions
<1>6. /\ Apply(s[x], c, x) \in Session
      /\ Apply(s[x], c, x).age = s[x].age /\ Apply(s[x], c, x).ended = s[x].ended
  BY <1>5, ApplyKeeps
<1>7. s' = [s EXCEPT ![x] = Apply(s[x], c, x)] /\ s \in [Sides -> Session]
  BY <1>2 DEF Play, Typed
<1>8. Only(x, Apply(s[x], c, x))
  BY <1>1, <1>6, <1>7 DEF Only, IsNow
<1>9. \A z \in Sides : s'[z].age = s[z].age /\ s'[z].ended = s[z].ended
  BY <1>6, <1>7
<1> HIDE DEF f
<1>10. /\ up' \in [Sides -> Seq(FromSide)] /\ outbox' \in [Sides -> Seq(Frame)]
       /\ up'[y] = up[y] /\ outbox'[y] = outbox[y]
       /\ Holds(x, up'[x], {f}) /\ Holds(x, outbox'[x], {f})
  BY <1>2, <1>3, PostIs
<1>11. Typed'
  BY <1>2, <1>4, <1>8, <1>10 DEF Typed, Only
<1>12. News(x, f)
  <2>1. Deeds(x)' \subseteq Deeds(x) \cup {f}
    BY <1>1, <1>4, <1>10, HeldStill, MoreDeeds
  <2>2. Deeds(y)' \subseteq Deeds(y)
    BY <1>1, <1>4, <1>10, HeldStill, SameDeeds
  <2> QED BY <2>1, <2>2 DEF News
<1>13. GoesTogether
  BY <1>2, <1>5, <1>8, <1>12, DropsTogether DEF f
<1>14. \A z \in Sides : PauseRight(z)'
  BY <1>2, <1>4, <1>9, PauseStill DEF PauseRight
<1> QED BY <1>11, <1>13, <1>14 DEF StepRight

LEMMA RematchRight ==
  ASSUME TurnInv, NEW x \in Sides, Rematch(x)
  PROVE  StepRight
<1> DEFINE y == Other(x)
           f == Again(s[x].game)
<1>1. y \in Sides /\ y # x /\ Other(y) = x /\ \A z \in Sides : z = x \/ z = y
  BY TwoSides
<1>2. Typed /\ Together /\ Sessions /\ \A z \in Sides : PauseRight(z)
  BY DEF TurnInv, Typed, Sessions
<1>3. f \in Frame /\ Post(x, f)
  BY <1>2, SessionIs, SaidAre DEF Rematch
<1>4. UNCHANGED <<paused, down, link, wire, hid, seat, kept, cuts, hides>>
  BY DEF Rematch
<1>5. IsOver(s[x].state) /\ ~s[x].mine /\ s[x].game + 1 < MaxGames /\ s[x] \in Session
  BY <1>2 DEF Rematch, Sessions
<1> HIDE DEF f
<1>6. /\ up' \in [Sides -> Seq(FromSide)] /\ outbox' \in [Sides -> Seq(Frame)]
      /\ up'[y] = up[y] /\ outbox'[y] = outbox[y]
      /\ Holds(x, up'[x], {f}) /\ Holds(x, outbox'[x], {f})
  BY <1>2, <1>3, PostIs
<1>7. News(x, f)
  <2>1. Deeds(x)' \subseteq Deeds(x) \cup {f}
    BY <1>1, <1>4, <1>6, HeldStill, MoreDeeds
  <2>2. Deeds(y)' \subseteq Deeds(y)
    BY <1>1, <1>4, <1>6, HeldStill, SameDeeds
  <2> QED BY <2>1, <2>2 DEF News
<1>8. CASE s[x].theirs
  <2>1. s' = [s EXCEPT ![x] = Restart(s[x])] /\ s \in [Sides -> Session]
    BY <1>2, <1>8 DEF Rematch, Typed
  <2>2. /\ Restart(s[x]) \in Session
        /\ Restart(s[x]).age = s[x].age /\ Restart(s[x]).ended = s[x].ended
    BY <1>5, RestartIs
  <2>3. Only(x, Restart(s[x]))
    BY <1>1, <2>1, <2>2 DEF Only, IsNow
  <2>4. \A z \in Sides : s'[z].age = s[z].age /\ s'[z].ended = s[z].ended
    BY <2>1, <2>2
  <2>5. s[y].game = s[x].game /\ s[y].mine /\ ~s[y].theirs
    BY <1>1, <1>2, <1>5, <1>8 DEF Together, AskRight
  <2>6. GoesTogether
    BY <1>2, <1>5, <1>7, <2>3, <2>5, RestartTogether DEF f
  <2>7. Typed'
    BY <1>2, <1>4, <1>6, <2>3 DEF Typed, Only
  <2>8. \A z \in Sides : PauseRight(z)'
    BY <1>2, <1>4, <2>4, PauseStill DEF PauseRight
  <2> QED BY <2>6, <2>7, <2>8 DEF StepRight
<1>9. CASE ~s[x].theirs
  <2> DEFINE m == [s[x] EXCEPT !.mine = TRUE]
  <2>1. s' = [s EXCEPT ![x] = m] /\ s \in [Sides -> Session]
    BY <1>2, <1>9 DEF Rematch, Typed
  <2>2. m \in Session /\ m.age = s[x].age /\ m.ended = s[x].ended
    BY <1>5 DEF Session
  <2> HIDE DEF m
  <2>3. Only(x, m)
    BY <1>1, <2>1, <2>2 DEF Only, IsNow
  <2>4. \A z \in Sides : s'[z].age = s[z].age /\ s'[z].ended = s[z].ended
    BY <2>1, <2>2
  <2>5. GoesTogether
    BY <1>2, <1>5, <1>7, <1>9, <2>3, AsksTogether DEF f, m
  <2>6. Typed'
    BY <1>2, <1>4, <1>6, <2>3 DEF Typed, Only
  <2>7. \A z \in Sides : PauseRight(z)'
    BY <1>2, <1>4, <2>4, PauseStill DEF PauseRight
  <2> QED BY <2>5, <2>6, <2>7 DEF StepRight
<1> QED BY <1>8, <1>9
-----------------------------------------------------------------------------
(* What a link hears *)

\* A link that asks for its seat hears that it has it before all else.
LEMMA OnHears ==
  ASSUME TurnInv, NEW x \in Sides, link[x] \in {"on", "asking"}, Head(down[x]).t # "resumed"
  PROVE  link[x] = "on"
BY DEF TurnInv, PauseRight

\* A session that hears a frame has it off its queue, and says hi at most.
LEMMA HearQueues ==
  ASSUME TurnInv, NEW x \in Sides, down[x] # <<>>, down' = [down EXCEPT ![x] = Tail(@)],
         UNCHANGED kept, PostNothing \/ Post(x, Hi(TRUE))
  PROVE  /\ up' \in [Sides -> Seq(FromSide)] /\ outbox' \in [Sides -> Seq(Frame)]
         /\ down' \in [Sides -> Seq(FromRelay)] /\ NoNews
<1> DEFINE y == Other(x)
<1>1. y \in Sides /\ y # x /\ Other(y) = x /\ \A z \in Sides : z = x \/ z = y
  BY TwoSides
<1>2. Typed
  BY DEF TurnInv
<1>3. down' \in [Sides -> Seq(FromRelay)] /\ down'[y] = down[y] /\ Range(down'[x]) \subseteq Range(down[x])
  BY <1>2, HeardIs
<1>4. /\ up' \in [Sides -> Seq(FromSide)] /\ outbox' \in [Sides -> Seq(Frame)]
      /\ up'[y] = up[y] /\ outbox'[y] = outbox[y]
      /\ Holds(x, up'[x], {}) /\ Holds(x, outbox'[x], {})
  <2>1. CASE PostNothing
    BY <1>2, <2>1, HeldStill DEF PostNothing, Typed
  <2>2. CASE Post(x, Hi(TRUE))
    <3>1. Hi(TRUE) \in Frame /\ Hi(TRUE) \in Idle
      BY SaidAre
    <3>2. /\ up' \in [Sides -> Seq(FromSide)] /\ outbox' \in [Sides -> Seq(Frame)]
          /\ up'[y] = up[y] /\ outbox'[y] = outbox[y]
          /\ Holds(x, up'[x], {Hi(TRUE)}) /\ Holds(x, outbox'[x], {Hi(TRUE)})
      BY <1>2, <2>2, <3>1, PostIs
    <3> QED BY <3>1, <3>2 DEF Holds
  <2> QED BY <2>1, <2>2
<1>5. Holds(y, down'[x], {})
  BY <1>1, <1>3 DEF Holds, Sent
<1>6. Deeds(x)' \subseteq Deeds(x)
  BY <1>1, <1>3, <1>4, HeldStill, SameDeeds
<1>7. Deeds(y)' \subseteq Deeds(y)
  BY <1>1, <1>4, <1>5, HeldStill, SameDeeds
<1> QED BY <1>1, <1>3, <1>4, <1>6, <1>7 DEF NoNews

\* What a session makes of a frame.
LEMMA ReceiveTogether ==
  ASSUME TurnInv, NEW x \in Sides, NEW f \in Sent(Other(x)), Receive(x, f), NoNews
  PROVE  /\ GoesTogether /\ s' \in [Sides -> Session]
         /\ \A z \in Sides : s'[z].age <= SILENCE /\ s'[z].ended = s[z].ended
<1> DEFINE y == Other(x)
<1>1. y \in Sides /\ y # x /\ Other(y) = x /\ \A z \in Sides : z = x \/ z = y
  BY TwoSides
<1>2. Together /\ Sessions /\ \A z \in Sides : s[z].age <= SILENCE
  BY DEF TurnInv, Typed, Sessions, PauseRight
<1>3. SILENCE \in Nat /\ s \in [Sides -> Session] /\ s[x] \in Session
  BY <1>2, TurnAssumption DEF Sessions
<1> DEFINE m == [s[x] EXCEPT !.age = 0]
<1>4. /\ m \in Session /\ m.game = s[x].game /\ m.state = s[x].state /\ m.wins = s[x].wins
      /\ m.mine = s[x].mine /\ m.theirs = s[x].theirs /\ m.age = 0 /\ m.ended = s[x].ended
      /\ m.greeted = s[x].greeted
  BY <1>3 DEF Session
<1> HIDE DEF m
<1>5. CASE UNCHANGED s
  <2>1. \A z \in Sides : IsNow(z, s[z])
    BY <1>5 DEF IsNow
  <2> QED BY <1>2, <1>3, <1>5, <2>1, QuietTogether
<1>6. ASSUME s' = [s EXCEPT ![x] = m]
      PROVE  /\ GoesTogether /\ s' \in [Sides -> Session]
             /\ \A z \in Sides : s'[z].age <= SILENCE /\ s'[z].ended = s[z].ended
  <2>1. s' \in [Sides -> Session] /\ \A z \in Sides : IsNow(z, s[z])
    BY <1>1, <1>3, <1>4, <1>6 DEF IsNow
  <2>2. \A z \in Sides : s'[z].age <= SILENCE /\ s'[z].ended = s[z].ended
    BY <1>2, <1>3, <1>4, <1>6
  <2>3. GoesTogether
    BY <1>2, <2>1, QuietTogether
  <2> QED BY <2>1, <2>2, <2>3
<1>7. CASE ReceiveHi(x, f)
  <2> DEFINE h == [s[x] EXCEPT !.age = 0, !.greeted = TRUE]
  <2>1. s' = [s EXCEPT ![x] = h]
    BY <1>3, <1>7 DEF ReceiveHi, Session
  <2>2. /\ h \in Session /\ h.game = s[x].game /\ h.state = s[x].state /\ h.wins = s[x].wins
        /\ h.mine = s[x].mine /\ h.theirs = s[x].theirs /\ h.age = 0 /\ h.ended = s[x].ended
    BY <1>3 DEF Session
  <2> HIDE DEF h
  <2>3. s' \in [Sides -> Session] /\ \A z \in Sides : IsNow(z, s[z])
    BY <1>1, <1>3, <2>1, <2>2 DEF IsNow
  <2>4. \A z \in Sides : s'[z].age <= SILENCE /\ s'[z].ended = s[z].ended
    BY <1>2, <1>3, <2>1, <2>2
  <2>5. GoesTogether
    BY <1>2, <2>3, QuietTogether
  <2> QED BY <2>3, <2>4, <2>5
<1>8. CASE ReceiveKeep(x, f)
  <2>1. s' = [s EXCEPT ![x] = m]
    BY <1>3, <1>8 DEF ReceiveKeep, m
  <2> QED BY <1>6, <2>1
<1>9. CASE ReceiveMove(x, f)
  <2>1. s' = [s EXCEPT ![x] = IF NextMove(m, f) /\ CanDrop(m.state, f.c, y)
                              THEN Apply(m, f.c, y) ELSE m]
    BY <1>9 DEF ReceiveMove, m
  <2>2. CASE ~(NextMove(m, f) /\ CanDrop(m.state, f.c, y))
    BY <1>6, <2>1, <2>2
  <2>3. CASE NextMove(m, f) /\ CanDrop(m.state, f.c, y)
    <3>1. /\ f.g = s[x].game /\ f.n = s[x].state.moves /\ CanDrop(s[x].state, f.c, y)
          /\ f.t = "move"
      BY <1>4, <1>9, <2>3 DEF NextMove, ReceiveMove
    <3>2. f \in Deeds(y)
      BY <3>1 DEF Deeds
    <3>3. s[x].state.moves < COLS * ROWS /\ m.state.moves < COLS * ROWS
      BY <1>2, <1>4, <3>1 DEF CanDrop, Together, BoardRight
    <3> DEFINE c == f.c
    <3>4. s' = [s EXCEPT ![x] = Apply(m, c, y)]
      BY <2>1, <2>3
    <3>5. CanDrop(s[x].state, c, y)
      BY <3>1
    <3>6. Apply(m, c, y) \in Session /\ Apply(m, c, y).age = m.age /\ Apply(m, c, y).ended = m.ended
      BY <1>1, <1>4, <3>3, ApplyKeeps
    <3>7. /\ Apply(m, c, y).game = Apply(s[x], c, y).game
          /\ Apply(m, c, y).state = Apply(s[x], c, y).state
          /\ Apply(m, c, y).wins = Apply(s[x], c, y).wins
          /\ Apply(m, c, y).mine = Apply(s[x], c, y).mine
          /\ Apply(m, c, y).theirs = Apply(s[x], c, y).theirs
      BY <1>3, <1>4 DEF Apply, Session
    <3> HIDE DEF c
    <3>8. Only(x, Apply(s[x], c, y))
      BY <1>1, <1>3, <3>4, <3>6, <3>7 DEF Only, IsNow
    <3>9. GoesTogether
      BY <1>1, <1>2, <3>1, <3>2, <3>5, <3>8, TakesTogether DEF c
    <3>10. s' \in [Sides -> Session]
      BY <3>8 DEF Only
    <3>11. \A z \in Sides : s'[z].age <= SILENCE /\ s'[z].ended = s[z].ended
      BY <1>2, <1>3, <1>4, <3>4, <3>6
    <3> QED BY <3>9, <3>10, <3>11
  <2> QED BY <2>2, <2>3
<1>10. CASE ReceiveAgain(x, f)
  <2>1. s' = [s EXCEPT ![x] = IF ~AskCounts(m, f) THEN m
                              ELSE IF m.mine THEN Restart(m) ELSE [m EXCEPT !.theirs = TRUE]]
    BY <1>10 DEF ReceiveAgain, m
  <2>2. CASE ~AskCounts(m, f)
    BY <1>6, <2>1, <2>2
  <2>3. ASSUME AskCounts(m, f)
        PROVE  /\ f.g = s[x].game /\ IsOver(s[x].state) /\ ~s[x].theirs /\ f.t = "again"
               /\ f \in Deeds(y)
    BY <1>4, <1>10, <2>3 DEF AskCounts, ReceiveAgain, Deeds
  <2>4. CASE AskCounts(m, f) /\ m.mine
    <3>1. s' = [s EXCEPT ![x] = Restart(m)]
      BY <2>1, <2>4
    <3>2. /\ Restart(m) \in Session /\ Restart(m).age = m.age /\ Restart(m).ended = m.ended
          /\ Restart(m).game = Restart(s[x]).game
          /\ Restart(m).state = Restart(s[x]).state
          /\ Restart(m).wins = Restart(s[x]).wins
          /\ Restart(m).mine = Restart(s[x]).mine
          /\ Restart(m).theirs = Restart(s[x]).theirs
      <4>1. /\ Restart(m) \in Session /\ Restart(m).age = m.age /\ Restart(m).ended = m.ended
            /\ Restart(m).game = m.game + 1 /\ Restart(m).state = NewBoard(FirstFor(m.game + 1))
            /\ Restart(m).wins = m.wins /\ ~Restart(m).mine /\ ~Restart(m).theirs
        BY <1>4, RestartIs
      <4>2. /\ Restart(s[x]).game = s[x].game + 1
            /\ Restart(s[x]).state = NewBoard(FirstFor(s[x].game + 1))
            /\ Restart(s[x]).wins = s[x].wins
        BY <1>3, RestartIs
      <4>3. Restart(m).mine = Restart(s[x]).mine /\ Restart(m).theirs = Restart(s[x]).theirs
        BY <1>3, <1>4 DEF Restart, Session
      <4> QED BY <1>4, <4>1, <4>2, <4>3
    <3>3. Only(x, Restart(s[x]))
      BY <1>1, <1>3, <3>1, <3>2 DEF Only, IsNow
    <3>4. s[x].game + 1 < MaxGames
      BY <1>2, <1>4, <2>4 DEF Together, BoardRight
    <3>5. \/ s[y].game = s[x].game /\ s[y].mine /\ ~s[y].theirs
          \/ s[x].game < s[y].game
      <4>1. FrameRight(y, f) /\ AskRight(y)
        BY <1>1, <1>2 DEF Together
      <4> QED BY <1>1, <1>4, <2>3, <2>4, <4>1 DEF FrameRight, AskRight
    <3>6. News(x, Again(s[x].game))
      BY <1>1 DEF NoNews, News
    <3>7. GoesTogether
      BY <1>2, <2>3, <2>4, <3>3, <3>4, <3>5, <3>6, RestartTogether
    <3>8. \A z \in Sides : s'[z].age <= SILENCE /\ s'[z].ended = s[z].ended
      BY <1>2, <1>3, <1>4, <3>1, <3>2
    <3> QED BY <3>3, <3>7, <3>8 DEF Only
  <2>5. CASE AskCounts(m, f) /\ ~m.mine
    <3> DEFINE h == [m EXCEPT !.theirs = TRUE]
               k == [s[x] EXCEPT !.theirs = TRUE]
    <3>1. s' = [s EXCEPT ![x] = h]
      BY <2>1, <2>5
    <3>2. /\ h \in Session /\ h.age = 0 /\ h.ended = s[x].ended
          /\ h.game = k.game /\ h.state = k.state /\ h.wins = k.wins
          /\ h.mine = k.mine /\ h.theirs = k.theirs
      BY <1>3, <1>4 DEF Session
    <3> HIDE DEF h, k
    <3>3. Only(x, k)
      BY <1>1, <1>3, <3>1, <3>2 DEF Only, IsNow
    <3>4. GoesTogether
      BY <1>1, <1>2, <1>4, <2>3, <2>5, <3>3, HearsTogether DEF k
    <3>5. \A z \in Sides : s'[z].age <= SILENCE /\ s'[z].ended = s[z].ended
      BY <1>2, <1>3, <3>1, <3>2
    <3> QED BY <3>3, <3>4, <3>5 DEF Only
  <2> QED BY <2>2, <2>4, <2>5
<1> QED BY <1>5, <1>7, <1>8, <1>9, <1>10 DEF Receive

LEMMA HearRight ==
  ASSUME TurnInv, NEW x \in Sides, Hear(x)
  PROVE  StepRight
<1> DEFINE y == Other(x)
           f == Head(down[x])
<1>1. y \in Sides /\ y # x /\ Other(y) = x /\ \A z \in Sides : z = x \/ z = y
  BY TwoSides
<1>2. Typed /\ Together /\ Sessions /\ \A z \in Sides : PauseRight(z)
  BY DEF TurnInv, Typed, Sessions
<1>3. /\ link[x] \in {"on", "asking"} /\ down[x] # <<>> /\ down' = [down EXCEPT ![x] = Tail(@)]
      /\ HearGame(x, f) \/ HearFriend(x, f) \/ HearResumed(x, f) \/ HearClosed(x, f)
  BY DEF Hear
<1>4. /\ down' \in [Sides -> Seq(FromRelay)] /\ down'[y] = down[y]
      /\ Range(down'[x]) \subseteq Range(down[x]) /\ f \in FromRelay /\ f \in Sent(y)
  BY <1>2, <1>3, HeardIs
<1>5. Holds(y, down'[x], {})
  BY <1>1, <1>4 DEF Holds, Sent
<1> HIDE DEF f
<1>6. CASE HearGame(x, f)
  <2>1. /\ Receive(x, f) /\ UNCHANGED <<paused, link, wire, hid, seat, kept, cuts, hides>>
        /\ f.t # "resumed"
    BY <1>6 DEF HearGame, Receive, ReceiveHi, ReceiveMove, ReceiveAgain, ReceiveKeep
  <2>2. PostNothing \/ Post(x, Hi(TRUE))
    BY <2>1 DEF Receive, ReceiveHi, ReceiveMove, ReceiveAgain, ReceiveKeep
  <2>3. /\ up' \in [Sides -> Seq(FromSide)] /\ outbox' \in [Sides -> Seq(Frame)] /\ NoNews
    BY <1>3, <2>1, <2>2, HearQueues
  <2>4. /\ GoesTogether /\ s' \in [Sides -> Session]
        /\ \A z \in Sides : s'[z].age <= SILENCE /\ s'[z].ended = s[z].ended
    BY <1>4, <2>1, <2>3, ReceiveTogether
  <2>5. Typed'
    BY <1>2, <1>4, <2>1, <2>3, <2>4 DEF Typed
  <2>6. link[x] = "on"
    BY <1>3, <2>1, OnHears DEF f
  <2>7. PauseRight(x)' /\ PauseRight(y)'
    BY <1>1, <1>2, <1>4, <2>1, <2>4, <2>6 DEF PauseRight
  <2> QED BY <1>1, <2>4, <2>5, <2>7 DEF StepRight
<1>7. CASE HearFriend(x, f)
  <2>1. /\ paused' = [paused EXCEPT ![x] = (f.t = "friendAway")] /\ f.t # "resumed"
        /\ UNCHANGED <<s, up, link, wire, hid, outbox, seat, kept, cuts, hides>>
    BY <1>7 DEF HearFriend, Clock, linkVars
  <2>2. link[x] = "on"
    BY <1>3, <2>1, OnHears DEF f
  <2>3. Typed'
    BY <1>2, <1>4, <2>1 DEF Typed
  <2>4. NoNews
    <3>1. Deeds(x)' \subseteq Deeds(x)
      BY <1>1, <1>4, <2>1, HeldStill, SameDeeds
    <3>2. Deeds(y)' \subseteq Deeds(y)
      BY <1>1, <1>5, <2>1, HeldStill, SameDeeds
    <3> QED BY <1>1, <3>1, <3>2 DEF NoNews
  <2>5. GoesTogether
    BY <1>2, <2>1, <2>4, QuietTogether DEF IsNow, Sessions
  <2>6. PauseRight(x)' /\ PauseRight(y)'
    BY <1>1, <1>2, <1>4, <2>1, <2>2 DEF PauseRight, Typed
  <2> QED BY <1>1, <2>3, <2>5, <2>6 DEF StepRight
<1>8. CASE HearResumed(x, f)
  <2>1. /\ paused' = [paused EXCEPT ![x] = FALSE] /\ link' = [link EXCEPT ![x] = "on"]
        /\ up' = [up EXCEPT ![x] = @ \o outbox[x]] /\ outbox' = [outbox EXCEPT ![x] = <<>>]
        /\ UNCHANGED <<s, wire, hid, seat, kept, cuts, hides>>
    BY <1>8 DEF HearResumed, Clock
  <2>2. up[x] \in Seq(FromSide) /\ outbox[x] \in Seq(FromSide) /\ outbox[x] \in Seq(Frame)
    <3>1. outbox[x] \in Seq(Frame) /\ up[x] \in Seq(FromSide)
      BY <1>2 DEF Typed
    <3> QED BY <3>1, FramesAre, SeqDef
  <2>3. /\ up[x] \o outbox[x] \in Seq(FromSide)
        /\ Range(up[x] \o outbox[x]) = Range(up[x]) \cup Range(outbox[x])
    BY <2>2, Joined
  <2>4. <<>> \in Seq(Frame) /\ Range(<<>>) = {}
    BY Nothing
  <2>5. /\ up'[x] = up[x] \o outbox[x] /\ up'[y] = up[y]
        /\ outbox'[x] = <<>> /\ outbox'[y] = outbox[y]
    BY <1>1, <1>2, <2>1 DEF Typed
  <2>6. Typed'
    BY <1>2, <1>4, <2>1, <2>3, <2>4 DEF Typed
  <2>7. NoNews
    <3>1. Holds(x, up'[x], {}) /\ Holds(x, outbox'[x], {})
      BY <2>3, <2>4, <2>5 DEF Holds, Sent
    <3>2. Deeds(x)' \subseteq Deeds(x)
      BY <1>1, <1>4, <2>1, <3>1, HeldStill, SameDeeds
    <3>3. Deeds(y)' \subseteq Deeds(y)
      BY <1>1, <1>5, <2>1, <2>5, HeldStill, SameDeeds
    <3> QED BY <1>1, <3>2, <3>3 DEF NoNews
  <2>8. GoesTogether
    BY <1>2, <2>1, <2>7, QuietTogether DEF IsNow, Sessions
  <2>9. PauseRight(x)' /\ PauseRight(y)'
    BY <1>1, <1>2, <1>4, <2>1 DEF PauseRight, Typed
  <2> QED BY <1>1, <2>6, <2>8, <2>9 DEF StepRight
<1>9. CASE HearClosed(x, f)
  <2> DEFINE m == [s[x] EXCEPT !.ended = IF s[x].ended = "no" THEN "closed" ELSE @]
  <2>1. /\ paused' = [paused EXCEPT ![x] = FALSE] /\ link' = [link EXCEPT ![x] = "off"]
        /\ s' = [s EXCEPT ![x] = m] /\ outbox' = [outbox EXCEPT ![x] = <<>>]
        /\ UNCHANGED <<up, wire, hid, seat, kept, cuts, hides>>
    BY <1>2, <1>9 DEF HearClosed, Clock, Typed, Session
  <2>2. /\ m \in Session /\ m.age = s[x].age /\ m.ended # "no" /\ m.game = s[x].game
        /\ m.state = s[x].state /\ m.wins = s[x].wins /\ m.mine = s[x].mine /\ m.theirs = s[x].theirs
    BY <1>2 DEF Typed, Session
  <2> HIDE DEF m
  <2>3. s' \in [Sides -> Session] /\ \A z \in Sides : IsNow(z, s[z])
    BY <1>2, <2>1, <2>2 DEF IsNow, Typed
  <2>4. <<>> \in Seq(Frame) /\ Range(<<>>) = {}
    BY Nothing
  <2>5. outbox'[x] = <<>> /\ outbox'[y] = outbox[y]
    BY <1>1, <1>2, <2>1 DEF Typed
  <2>6. Typed'
    BY <1>2, <1>4, <2>1, <2>3, <2>4 DEF Typed
  <2>7. NoNews
    <3>1. Holds(x, outbox'[x], {})
      BY <2>4, <2>5 DEF Holds
    <3>2. Deeds(x)' \subseteq Deeds(x)
      BY <1>1, <1>4, <2>1, <3>1, HeldStill, SameDeeds
    <3>3. Deeds(y)' \subseteq Deeds(y)
      BY <1>1, <1>5, <2>1, <2>5, HeldStill, SameDeeds
    <3> QED BY <1>1, <3>2, <3>3 DEF NoNews
  <2>8. GoesTogether
    BY <1>2, <2>3, <2>7, QuietTogether
  <2>9. PauseRight(x)' /\ PauseRight(y)'
    BY <1>1, <1>2, <1>4, <2>1, <2>2 DEF PauseRight, Typed
  <2> QED BY <1>1, <2>6, <2>8, <2>9 DEF StepRight
<1> QED BY <1>3, <1>6, <1>7, <1>8, <1>9
-----------------------------------------------------------------------------
(* The relay *)

\* A step of the relay's: what it says and keeps is what the sides have sent, or moves no game.
LEMMA RelayTogether ==
  ASSUME TurnInv, UNCHANGED <<s, paused, link, wire, hid, outbox, cuts, hides>>,
         up' \in [Sides -> Seq(FromSide)], down' \in [Sides -> Seq(FromRelay)],
         seat' \in [Sides -> {"on", "away", "gone"}], kept' \in [Sides -> Seq(Frame)],
         \A z \in Sides : /\ Holds(z, up'[z], {}) /\ Holds(z, kept'[Other(z)], {})
                          /\ Holds(z, down'[Other(z)], {}),
         \A z \in Sides : down[z] # <<>> => down'[z] # <<>> /\ Head(down'[z]) = Head(down[z])
  PROVE  StepRight
<1>1. Typed /\ Together /\ Sessions /\ \A z \in Sides : PauseRight(z)
  BY DEF TurnInv, Typed, Sessions
<1>2. Typed'
  BY <1>1 DEF Typed
<1>3. NoNews
  <2>1. ASSUME NEW z \in Sides PROVE Deeds(z)' \subseteq Deeds(z)
    BY HeldStill, SameDeeds
  <2> QED BY <2>1 DEF NoNews
<1>4. GoesTogether
  BY <1>1, <1>3, QuietTogether DEF IsNow, Sessions
<1>5. \A z \in Sides : PauseRight(z)'
  BY <1>1 DEF PauseRight
<1> QED BY <1>2, <1>4, <1>5 DEF StepRight

\* A seat held: its friend is told.
LEMMA HoldIs ==
  ASSUME Typed, NEW x \in Sides, Hold(x)
  PROVE  /\ down' \in [Sides -> Seq(FromRelay)] /\ kept' \in [Sides -> Seq(Frame)]
         /\ seat' \in [Sides -> {"on", "away", "gone"}]
         /\ \A z \in Sides : Holds(z, kept'[Other(z)], {}) /\ Holds(z, down'[Other(z)], {})
         /\ \A z \in Sides : down[z] # <<>> => down'[z] # <<>> /\ Head(down'[z]) = Head(down[z])
<1> DEFINE y == Other(x)
<1>1. y \in Sides /\ y # x /\ Other(y) = x /\ \A z \in Sides : z = x \/ z = y
  BY TwoSides
<1>2. Say("friendAway") \in FromRelay /\ Say("friendAway") \in Idle
  BY SaidAre
<1>3. /\ down' \in [Sides -> Seq(FromRelay)] /\ down'[x] = down[x]
      /\ Range(down'[y]) \subseteq Range(down[y]) \cup {Say("friendAway")}
      /\ down[y] # <<>> => down'[y] # <<>> /\ Head(down'[y]) = Head(down[y])
  BY <1>1, <1>2, ToOtherIs DEF Hold
<1>4. kept' = kept /\ seat' \in [Sides -> {"on", "away", "gone"}]
  BY DEF Hold, Typed
<1>5. Holds(x, down'[y], {}) /\ Holds(y, down'[x], {})
  BY <1>1, <1>2, <1>3, HeldStill DEF Holds, Sent
<1>6. Holds(x, kept'[y], {}) /\ Holds(y, kept'[x], {})
  BY <1>1, <1>4, HeldStill
<1>7. \A z \in Sides : Holds(z, kept'[Other(z)], {}) /\ Holds(z, down'[Other(z)], {})
  BY <1>1, <1>5, <1>6
<1>8. \A z \in Sides : down[z] # <<>> => down'[z] # <<>> /\ Head(down'[z]) = Head(down[z])
  BY <1>1, <1>3
<1> QED BY <1>3, <1>4, <1>7, <1>8 DEF Typed

\* A game ended: its friend is told, and nothing is kept.
LEMMA EndGameIs ==
  ASSUME Typed, NEW x \in Sides, EndGame(x)
  PROVE  /\ down' \in [Sides -> Seq(FromRelay)] /\ kept' \in [Sides -> Seq(Frame)]
         /\ seat' \in [Sides -> {"on", "away", "gone"}]
         /\ \A z \in Sides : Holds(z, kept'[Other(z)], {}) /\ Holds(z, down'[Other(z)], {})
         /\ \A z \in Sides : down[z] # <<>> => down'[z] # <<>> /\ Head(down'[z]) = Head(down[z])
<1> DEFINE y == Other(x)
<1>1. y \in Sides /\ y # x /\ Other(y) = x /\ \A z \in Sides : z = x \/ z = y
  BY TwoSides
<1>2. Say("closed") \in FromRelay /\ Say("closed") \in Idle
  BY SaidAre
<1>3. /\ down' \in [Sides -> Seq(FromRelay)] /\ down'[x] = down[x]
      /\ Range(down'[y]) \subseteq Range(down[y]) \cup {Say("closed")}
      /\ down[y] # <<>> => down'[y] # <<>> /\ Head(down'[y]) = Head(down[y])
  BY <1>1, <1>2, ToOtherIs DEF EndGame
<1>4. /\ \A z \in Sides : kept'[z] = <<>>
      /\ kept' \in [Sides -> Seq(Frame)] /\ seat' \in [Sides -> {"on", "away", "gone"}]
      /\ Range(<<>>) = {}
  BY Nothing DEF EndGame
<1>5. Holds(x, down'[y], {}) /\ Holds(y, down'[x], {})
  BY <1>1, <1>2, <1>3, HeldStill DEF Holds, Sent
<1>6. Holds(x, kept'[y], {}) /\ Holds(y, kept'[x], {})
  BY <1>1, <1>4 DEF Holds
<1>7. \A z \in Sides : Holds(z, kept'[Other(z)], {}) /\ Holds(z, down'[Other(z)], {})
  BY <1>1, <1>5, <1>6
<1>8. \A z \in Sides : down[z] # <<>> => down'[z] # <<>> /\ Head(down'[z]) = Head(down[z])
  BY <1>1, <1>3
<1> QED BY <1>3, <1>4, <1>7, <1>8

LEMMA RelayRight ==
  ASSUME TurnInv, NEW x \in Sides, Relay(x)
  PROVE  StepRight
<1> DEFINE y == Other(x)
           f == Head(up[x])
<1>1. y \in Sides /\ y # x /\ Other(y) = x /\ \A z \in Sides : z = x \/ z = y
  BY TwoSides
<1>2. Typed
  BY DEF TurnInv
<1>3. /\ up[x] # <<>> /\ up' = [up EXCEPT ![x] = Tail(@)]
      /\ Forward(x, f) \/ Hold(x) \/ EndGame(x)
      /\ UNCHANGED <<s, paused, link, wire, hid, outbox, cuts, hides>>
  BY DEF Relay
<1>4. /\ up' \in [Sides -> Seq(FromSide)] /\ up'[y] = up[y]
      /\ Range(up'[x]) \subseteq Range(up[x]) /\ f \in FromSide /\ f \in Sent(x)
  BY <1>2, <1>3, TakenIs
<1>5. \A z \in Sides : Holds(z, up'[z], {})
  BY <1>1, <1>4, HeldStill DEF Holds, Sent
<1> HIDE DEF f
<1>6. CASE Forward(x, f)
  <2>1. f \in Frame /\ f \in FromRelay
    BY <1>4, <1>6, FramesAre DEF Forward
  <2>2. /\ down' \in [Sides -> Seq(FromRelay)] /\ down'[x] = down[x]
        /\ Range(down'[y]) \subseteq Range(down[y]) \cup {f}
        /\ down[y] # <<>> => down'[y] # <<>> /\ Head(down'[y]) = Head(down[y])
    BY <1>1, <1>2, <1>6, <2>1, ToOtherIs DEF Forward
  <2>3. kept[y] \in Seq(Frame) /\ kept \in [Sides -> Seq(Frame)]
    BY <1>1, <1>2 DEF Typed
  <2>4. Append(kept[y], f) \in Seq(Frame) /\ Range(Append(kept[y], f)) = Range(kept[y]) \cup {f}
    BY <2>1, <2>3, Put
  <2>5. kept'[y] \in {kept[y], Append(kept[y], f)} /\ kept'[x] = kept[x]
    BY <1>1, <1>6, <2>3 DEF Forward
  <2>6. kept' \in [Sides -> Seq(Frame)]
    BY <1>6, <2>3, <2>4 DEF Forward
  <2>7. seat' = seat
    BY <1>6 DEF Forward
  <2>8. Holds(x, down'[y], {}) /\ Holds(y, down'[x], {})
    BY <1>1, <1>4, <2>2, HeldStill DEF Holds, Sent
  <2>9. Holds(x, kept'[y], {}) /\ Holds(y, kept'[x], {})
    BY <1>1, <1>4, <2>4, <2>5, HeldStill DEF Holds, Sent
  <2>10. \A z \in Sides : Holds(z, kept'[Other(z)], {}) /\ Holds(z, down'[Other(z)], {})
    BY <1>1, <2>8, <2>9
  <2>11. \A z \in Sides : down[z] # <<>> => down'[z] # <<>> /\ Head(down'[z]) = Head(down[z])
    BY <1>1, <2>2
  <2>12. seat' \in [Sides -> {"on", "away", "gone"}]
    BY <1>2, <2>7 DEF Typed
  <2> QED BY <1>3, <1>4, <1>5, <2>2, <2>6, <2>10, <2>11, <2>12, RelayTogether
<1>7. CASE Hold(x)
  BY <1>2, <1>3, <1>4, <1>5, <1>7, HoldIs, RelayTogether
<1>8. CASE EndGame(x)
  BY <1>2, <1>3, <1>4, <1>5, <1>8, EndGameIs, RelayTogether
<1> QED BY <1>3, <1>6, <1>7, <1>8

LEMMA RelayNoticesRight ==
  ASSUME TurnInv, NEW x \in Sides, RelayNotices(x)
  PROVE  StepRight
<1>1. /\ Typed /\ Hold(x) /\ UNCHANGED <<s, paused, up, link, wire, hid, outbox, cuts, hides>>
  BY DEF TurnInv, RelayNotices
<1>2. up' \in [Sides -> Seq(FromSide)] /\ \A z \in Sides : Holds(z, up'[z], {})
  BY <1>1, HeldStill DEF Typed
<1> QED BY <1>1, <1>2, HoldIs, RelayTogether

LEMMA ExpireRight ==
  ASSUME TurnInv, NEW x \in Sides, Expire(x)
  PROVE  StepRight
<1>1. /\ Typed /\ EndGame(x) /\ UNCHANGED <<s, paused, up, link, wire, hid, outbox, cuts, hides>>
  BY DEF TurnInv, Expire
<1>2. up' \in [Sides -> Seq(FromSide)] /\ \A z \in Sides : Holds(z, up'[z], {})
  BY <1>1, HeldStill DEF Typed
<1> QED BY <1>1, <1>2, EndGameIs, RelayTogether
-----------------------------------------------------------------------------
(* Links, and time *)

\* A step of a link's leaves the sessions what they are in the game, and says nothing that moves it.
LEMMA LinksTogether ==
  ASSUME TurnInv, s' \in [Sides -> Session], \A z \in Sides : IsNow(z, s[z]),
         \A z \in Sides : /\ Holds(z, up'[z], {}) /\ Holds(z, outbox'[z], {})
                          /\ Holds(z, kept'[Other(z)], {}) /\ Holds(z, down'[Other(z)], {})
  PROVE  GoesTogether
<1>1. Together /\ Sessions
  BY DEF TurnInv, Typed, Sessions
<1>2. NoNews
  <2>1. ASSUME NEW z \in Sides PROVE Deeds(z)' \subseteq Deeds(z)
    BY SameDeeds
  <2> QED BY <2>1 DEF NoNews
<1> QED BY <1>1, <1>2, QuietTogether

LEMMA LinkNoticesRight ==
  ASSUME TurnInv, NEW x \in Sides, LinkNotices(x)
  PROVE  StepRight
<1>1. Typed /\ \A z \in Sides : PauseRight(z)
  BY DEF TurnInv
<1>2. /\ link[x] = "on" /\ link' = [link EXCEPT ![x] = "away"] /\ paused' = [paused EXCEPT ![x] = TRUE]
      /\ UNCHANGED <<s, up, down, wire, hid, outbox, seat, kept, cuts, hides>>
  BY DEF LinkNotices, Clock
<1>3. Typed'
  BY <1>1, <1>2 DEF Typed
<1>4. GoesTogether
  <2>1. s' \in [Sides -> Session] /\ \A z \in Sides : IsNow(z, s[z])
    BY <1>1, <1>2 DEF IsNow, Typed
  <2> QED BY <1>2, <2>1, HeldStill, LinksTogether
<1>5. \A z \in Sides : PauseRight(z)'
  BY <1>1, <1>2 DEF PauseRight, Typed
<1> QED BY <1>3, <1>4, <1>5 DEF StepRight

LEMMA ShowRight ==
  ASSUME TurnInv, NEW x \in Sides, Show(x)
  PROVE  StepRight
<1>1. Typed /\ \A z \in Sides : PauseRight(z)
  BY DEF TurnInv
<1>2. /\ hid' = [hid EXCEPT ![x] = FALSE]
      /\ UNCHANGED <<s, paused, up, down, link, wire, outbox, seat, kept, cuts, hides>>
  BY DEF Show
<1>3. Typed'
  BY <1>1, <1>2 DEF Typed
<1>4. GoesTogether
  <2>1. s' \in [Sides -> Session] /\ \A z \in Sides : IsNow(z, s[z])
    BY <1>1, <1>2 DEF IsNow, Typed
  <2> QED BY <1>2, <2>1, HeldStill, LinksTogether
<1>5. \A z \in Sides : PauseRight(z)'
  BY <1>1, <1>2 DEF PauseRight
<1> QED BY <1>3, <1>4, <1>5 DEF StepRight

\* What is still up a link that another has replaced: all but the word of its closing.
LEMMA ReplacedIs ==
  ASSUME NEW q \in Seq(FromSide)
  PROVE  /\ Replaced(q) \in Seq(FromSide) /\ Range(Replaced(q)) \subseteq Range(q)
         /\ \A f \in Range(q) : f.t # "hide" => f \in Range(Replaced(q))
         /\ q = <<>> => Replaced(q) = <<>>
         /\ StepsAway(q) => Stays(Replaced(q))
<1>1. /\ Len(q) \in Nat /\ DOMAIN q = 1 .. Len(q) /\ (q # <<>> => Len(q) > 0)
      /\ \A i \in 1 .. Len(q) : q[i] \in FromSide
  BY LenProperties, ElementOfSeq, EmptySeq
<1>2. CASE q # <<>> /\ q[Len(q)].t = "hide"
  <2> DEFINE r == SubSeq(q, 1, Len(q) - 1)
  <2>1. Replaced(q) = r
    BY <1>2 DEF Replaced
  <2>2. \A i \in 1 .. Len(q) - 1 : q[i] \in FromSide
    BY <1>1
  <2>3. 1 \in Int /\ Len(q) - 1 \in Int /\ 1 <= Len(q)
    BY <1>1, <1>2
  <2>4. r \in Seq(FromSide) /\ DOMAIN r = 1 .. Len(q) - 1 /\ \A i \in 1 .. Len(q) - 1 : r[i] = q[i]
    BY <1>1, <2>2, <2>3, SubSeqProperties, LenProperties
  <2> HIDE DEF r
  <2>5. /\ \A i \in DOMAIN r : i \in DOMAIN q /\ i # Len(q)
        /\ \A i \in DOMAIN q : i = Len(q) \/ i \in DOMAIN r
    BY <1>1, <2>4
  <2>6. \A i \in DOMAIN r : r[i] = q[i]
    BY <2>4
  <2>7. Range(r) \subseteq Range(q)
    BY <2>5, <2>6 DEF Range
  <2>8. \A f \in Range(q) : f.t # "hide" => f \in Range(r)
    BY <1>2, <2>5, <2>6 DEF Range
  <2>9. StepsAway(q) => Stays(r)
    BY <2>5, <2>6 DEF StepsAway, Stays, Range
  <2> QED BY <1>2, <2>1, <2>4, <2>7, <2>8, <2>9
<1>3. CASE ~(q # <<>> /\ q[Len(q)].t = "hide")
  <2>1. Replaced(q) = q
    BY <1>3 DEF Replaced
  <2>2. ~StepsAway(q)
    <3>1. q # <<>> => Len(q) \in DOMAIN q
      BY <1>1
    <3> QED BY <1>3, <3>1 DEF StepsAway
  <2> QED BY <2>1, <2>2
<1> QED BY <1>2, <1>3

LEMMA TakeBackRight ==
  ASSUME TurnInv, NEW x \in Sides, TakeBack(x)
  PROVE  StepRight
<1> DEFINE y == Other(x)
           there == seat[y] = "on"
           handed == <<Say("resumed")>> \o kept[x]
           mine == IF there THEN handed ELSE Append(handed, Say("friendAway"))
           theirs == IF there /\ wire[y] THEN Append(down[y], Say("friendBack")) ELSE down[y]
<1>1. y \in Sides /\ y # x /\ Other(y) = x /\ \A z \in Sides : z = x \/ z = y
  BY TwoSides
<1>2. Typed /\ \A z \in Sides : PauseRight(z)
  BY DEF TurnInv
<1>3. /\ link[x] = "away" /\ seat' = [seat EXCEPT ![x] = "on"] /\ wire' = [wire EXCEPT ![x] = TRUE]
      /\ link' = [link EXCEPT ![x] = "asking"] /\ kept' = [kept EXCEPT ![x] = <<>>]
      /\ up' = [up EXCEPT ![x] = Replaced(@)]
      /\ UNCHANGED <<s, paused, hid, outbox, cuts, hides>>
  BY DEF TakeBack
<1>4. down' = [down EXCEPT ![x] = mine, ![y] = theirs]
  BY <1>1, <1>2 DEF TakeBack, Typed
<1>5. /\ Say("resumed") \in FromRelay /\ Say("friendAway") \in FromRelay /\ Say("friendBack") \in FromRelay
      /\ Say("resumed") \in Idle /\ Say("friendAway") \in Idle /\ Say("friendBack") \in Idle
      /\ Say("resumed").t = "resumed"
  BY SaidAre DEF Say
<1>6. kept[x] \in Seq(FromRelay) /\ down[y] \in Seq(FromRelay)
  <2>1. kept[x] \in Seq(Frame) /\ down[y] \in Seq(FromRelay)
    BY <1>1, <1>2 DEF Typed
  <2> QED BY <2>1, FramesAre, SeqDef
<1>8. /\ handed \in Seq(FromRelay) /\ Range(handed) = {Say("resumed")} \cup Range(kept[x])
      /\ handed[1] = Say("resumed") /\ Len(handed) = Len(kept[x]) + 1 /\ Len(kept[x]) \in Nat
      /\ handed # <<>> /\ Head(handed) = Say("resumed")
  <2>1. Len(kept[x]) \in Nat
    BY <1>6, LenProperties
  <2> QED BY <1>5, <1>6, <2>1, Headed
<1> HIDE DEF handed
<1>10. /\ Append(handed, Say("friendAway")) \in Seq(FromRelay)
       /\ Append(handed, Say("friendAway")) # <<>>
       /\ Range(Append(handed, Say("friendAway"))) = Range(handed) \cup {Say("friendAway")}
       /\ Head(Append(handed, Say("friendAway"))) = Say("resumed")
  <2>1. /\ Append(handed, Say("friendAway")) \in Seq(FromRelay)
        /\ Append(handed, Say("friendAway")) # <<>>
        /\ Range(Append(handed, Say("friendAway"))) = Range(handed) \cup {Say("friendAway")}
    BY <1>5, <1>8, Put
  <2>2. 1 \in DOMAIN handed
    BY <1>8, LenProperties
  <2>3. Append(handed, Say("friendAway"))[1] = handed[1]
    BY <1>5, <1>8, <2>2, Put
  <2> QED BY <1>8, <2>1, <2>3, Took
<1>11. /\ mine \in Seq(FromRelay) /\ mine # <<>> /\ Head(mine) = Say("resumed")
       /\ Range(mine) \subseteq Range(kept[x]) \cup {Say("resumed"), Say("friendAway")}
  BY <1>8, <1>10
<1>12. /\ Append(down[y], Say("friendBack")) \in Seq(FromRelay)
       /\ Append(down[y], Say("friendBack")) # <<>>
       /\ Range(Append(down[y], Say("friendBack"))) = Range(down[y]) \cup {Say("friendBack")}
       /\ down[y] # <<>> => Head(Append(down[y], Say("friendBack"))) = Head(down[y])
  BY <1>5, <1>6, Put, Took
<1>13. /\ theirs \in Seq(FromRelay) /\ Range(theirs) \subseteq Range(down[y]) \cup {Say("friendBack")}
       /\ down[y] # <<>> => theirs # <<>> /\ Head(theirs) = Head(down[y])
  BY <1>6, <1>12
<1> HIDE DEF mine, theirs, there
<1>14. /\ down' \in [Sides -> Seq(FromRelay)] /\ down'[x] = mine /\ down'[y] = theirs
       /\ kept' \in [Sides -> Seq(Frame)] /\ kept'[x] = <<>> /\ kept'[y] = kept[y]
       /\ Range(<<>>) = {}
  BY <1>1, <1>2, <1>3, <1>4, <1>11, <1>13, Nothing DEF Typed
<1>18. /\ up' \in [Sides -> Seq(FromSide)] /\ up'[y] = up[y]
       /\ Range(up'[x]) \subseteq Range(up[x])
  <2>1. up[x] \in Seq(FromSide)
    BY <1>2 DEF Typed
  <2>2. Replaced(up[x]) \in Seq(FromSide) /\ Range(Replaced(up[x])) \subseteq Range(up[x])
    BY <2>1, ReplacedIs
  <2> QED BY <1>1, <1>2, <1>3, <2>2 DEF Typed
<1>15. Typed'
  BY <1>2, <1>3, <1>14, <1>18 DEF Typed
<1>16. GoesTogether
  <2>1. s' \in [Sides -> Session] /\ \A z \in Sides : IsNow(z, s[z])
    BY <1>2, <1>3 DEF IsNow, Typed
  <2>2. Holds(y, down'[x], {}) /\ Holds(x, down'[y], {})
    BY <1>1, <1>5, <1>11, <1>13, <1>14 DEF Holds, Sent
  <2>3. Holds(y, kept'[x], {}) /\ Holds(x, kept'[y], {})
    BY <1>14, HeldStill DEF Holds
  <2>4. \A z \in Sides : Holds(z, kept'[Other(z)], {}) /\ Holds(z, down'[Other(z)], {})
    BY <1>1, <2>2, <2>3
  <2>5. \A z \in Sides : Holds(z, up'[z], {}) /\ Holds(z, outbox'[z], {})
    <3>1. \A z \in Sides : Holds(z, up[z], {}) /\ Holds(z, outbox[z], {})
      BY HeldStill
    <3>2. Holds(x, up'[x], {}) /\ Holds(y, up'[y], {})
      BY <1>1, <1>18, <3>1 DEF Holds
    <3> QED BY <1>1, <1>3, <3>1, <3>2
  <2> QED BY <2>1, <2>4, <2>5, LinksTogether
<1>17. PauseRight(x)' /\ PauseRight(y)'
  BY <1>1, <1>2, <1>3, <1>5, <1>11, <1>13, <1>14 DEF PauseRight, Typed
<1> QED BY <1>1, <1>15, <1>16, <1>17 DEF StepRight

LEMMA TurnedAwayRight ==
  ASSUME TurnInv, NEW x \in Sides, TurnedAway(x)
  PROVE  StepRight
<1> DEFINE y == Other(x)
           m == [s[x] EXCEPT !.ended = IF s[x].ended = "no" THEN "closed" ELSE @]
<1>1. y \in Sides /\ y # x /\ Other(y) = x /\ \A z \in Sides : z = x \/ z = y
  BY TwoSides
<1>2. Typed /\ \A z \in Sides : PauseRight(z)
  BY DEF TurnInv
<1>3. /\ link' = [link EXCEPT ![x] = "off"] /\ paused' = [paused EXCEPT ![x] = FALSE]
      /\ s' = [s EXCEPT ![x] = m] /\ outbox' = [outbox EXCEPT ![x] = <<>>]
      /\ UNCHANGED <<up, down, wire, hid, seat, kept, cuts, hides>>
  BY <1>2 DEF TurnedAway, Clock, Typed, Session
<1>4. /\ m \in Session /\ m.age = s[x].age /\ m.ended # "no" /\ m.game = s[x].game
      /\ m.state = s[x].state /\ m.wins = s[x].wins /\ m.mine = s[x].mine /\ m.theirs = s[x].theirs
  BY <1>2 DEF Typed, Session
<1> HIDE DEF m
<1>5. s' \in [Sides -> Session] /\ \A z \in Sides : IsNow(z, s[z])
  BY <1>2, <1>3, <1>4 DEF IsNow, Typed
<1>6. /\ outbox' \in [Sides -> Seq(Frame)] /\ outbox'[x] = <<>> /\ outbox'[y] = outbox[y]
      /\ Range(<<>>) = {}
  BY <1>1, <1>2, <1>3, Nothing DEF Typed
<1>7. Typed'
  BY <1>2, <1>3, <1>5, <1>6 DEF Typed
<1>8. GoesTogether
  <2>1. \A z \in Sides : Holds(z, outbox'[z], {})
    BY <1>1, <1>6, HeldStill DEF Holds
  <2> QED BY <1>3, <1>5, <2>1, HeldStill, LinksTogether
<1>9. PauseRight(x)' /\ PauseRight(y)'
  BY <1>1, <1>2, <1>3, <1>4 DEF PauseRight, Typed
<1> QED BY <1>1, <1>7, <1>8, <1>9 DEF StepRight

LEMMA CutRight ==
  ASSUME TurnInv, NEW x \in Sides, Cut(x)
  PROVE  StepRight
<1> DEFINE y == Other(x)
<1>1. y \in Sides /\ y # x /\ Other(y) = x /\ \A z \in Sides : z = x \/ z = y
  BY TwoSides
<1>2. Typed /\ \A z \in Sides : PauseRight(z)
  BY DEF TurnInv
<1>3. /\ cuts + hides < MaxFaults /\ link[x] = "on" /\ cuts' = cuts + 1
      /\ wire' = [wire EXCEPT ![x] = FALSE]
      /\ up' = [up EXCEPT ![x] = <<>>] /\ down' = [down EXCEPT ![x] = <<>>]
      /\ UNCHANGED <<s, paused, link, hid, outbox, seat, kept, hides>>
  BY DEF Cut
<1>4. /\ up' \in [Sides -> Seq(FromSide)] /\ up'[x] = <<>> /\ up'[y] = up[y]
      /\ down' \in [Sides -> Seq(FromRelay)] /\ down'[x] = <<>> /\ down'[y] = down[y]
      /\ Range(<<>>) = {}
  BY <1>1, <1>2, <1>3, Nothing DEF Typed
<1>5. cuts' \in Nat /\ hides' \in Nat /\ cuts' + hides' <= MaxFaults
  BY <1>2, <1>3, TurnAssumption DEF Typed
<1>6. Typed'
  BY <1>2, <1>3, <1>4, <1>5 DEF Typed
<1>7. GoesTogether
  <2>1. s' \in [Sides -> Session] /\ \A z \in Sides : IsNow(z, s[z])
    BY <1>2, <1>3 DEF IsNow, Typed
  <2>2. \A z \in Sides : Holds(z, up'[z], {})
    BY <1>1, <1>4, HeldStill DEF Holds
  <2>3. Holds(x, down'[y], {}) /\ Holds(y, down'[x], {})
    BY <1>1, <1>4, HeldStill DEF Holds
  <2>4. \A z \in Sides : Holds(z, down'[Other(z)], {})
    BY <1>1, <2>3
  <2>5. \A z \in Sides : Holds(z, outbox'[z], {}) /\ Holds(z, kept'[Other(z)], {})
    BY <1>3, HeldStill
  <2> QED BY <2>1, <2>2, <2>4, <2>5, LinksTogether
<1>8. PauseRight(x)' /\ PauseRight(y)'
  BY <1>1, <1>2, <1>3, <1>4 DEF PauseRight
<1> QED BY <1>1, <1>6, <1>7, <1>8 DEF StepRight

LEMMA HideRight ==
  ASSUME TurnInv, NEW x \in Sides, Hide(x)
  PROVE  StepRight
<1> DEFINE y == Other(x)
<1>1. y \in Sides /\ y # x /\ Other(y) = x /\ \A z \in Sides : z = x \/ z = y
  BY TwoSides
<1>2. Typed /\ \A z \in Sides : PauseRight(z)
  BY DEF TurnInv
<1>3. /\ cuts + hides < MaxFaults /\ link[x] = "on" /\ hides' = hides + 1
      /\ hid' = [hid EXCEPT ![x] = TRUE] /\ link' = [link EXCEPT ![x] = "away"]
      /\ paused' = [paused EXCEPT ![x] = TRUE] /\ wire' = [wire EXCEPT ![x] = FALSE]
      /\ up' = [up EXCEPT ![x] = IF wire[x] THEN Append(@, Say("hide")) ELSE @]
      /\ down' = [down EXCEPT ![x] = <<>>]
      /\ UNCHANGED <<s, outbox, seat, kept, cuts>>
  BY DEF Hide, Clock
<1>4. /\ down' \in [Sides -> Seq(FromRelay)] /\ down'[x] = <<>> /\ down'[y] = down[y]
      /\ Range(<<>>) = {}
  BY <1>1, <1>2, <1>3, Nothing DEF Typed
<1>5. /\ Append(up[x], Say("hide")) \in Seq(FromSide) /\ Say("hide") \in Idle
      /\ Range(Append(up[x], Say("hide"))) = Range(up[x]) \cup {Say("hide")}
  <2>1. up[x] \in Seq(FromSide) /\ Say("hide") \in FromSide /\ Say("hide") \in Idle
    BY <1>2, SaidAre DEF Typed
  <2> QED BY <2>1, Put
<1>6. /\ up' \in [Sides -> Seq(FromSide)] /\ up'[y] = up[y]
      /\ up'[x] \in {up[x], Append(up[x], Say("hide"))}
  BY <1>1, <1>2, <1>3, <1>5 DEF Typed
<1>7. cuts' \in Nat /\ hides' \in Nat /\ cuts' + hides' <= MaxFaults
  BY <1>2, <1>3, TurnAssumption DEF Typed
<1>8. Typed'
  BY <1>2, <1>3, <1>4, <1>6, <1>7 DEF Typed
<1>9. GoesTogether
  <2>1. s' \in [Sides -> Session] /\ \A z \in Sides : IsNow(z, s[z])
    BY <1>2, <1>3 DEF IsNow, Typed
  <2>2. \A z \in Sides : Holds(z, up'[z], {})
    BY <1>1, <1>5, <1>6, HeldStill DEF Holds, Sent
  <2>3. Holds(x, down'[y], {}) /\ Holds(y, down'[x], {})
    BY <1>1, <1>4, HeldStill DEF Holds
  <2>4. \A z \in Sides : Holds(z, down'[Other(z)], {})
    BY <1>1, <2>3
  <2>5. \A z \in Sides : Holds(z, outbox'[z], {}) /\ Holds(z, kept'[Other(z)], {})
    BY <1>3, HeldStill
  <2> QED BY <2>1, <2>2, <2>4, <2>5, LinksTogether
<1>10. PauseRight(x)' /\ PauseRight(y)'
  BY <1>1, <1>2, <1>3, <1>4 DEF PauseRight, Typed
<1> QED BY <1>1, <1>8, <1>9, <1>10 DEF StepRight

\* A unit of time, and what it makes of a session.
Aged(x) ==
  IF Silent(x) THEN [s[x] EXCEPT !.ended = "lost"]
  ELSE IF Ticks(x) THEN [s[x] EXCEPT !.age = @ + 1] ELSE s[x]

LEMMA AgedIs ==
  ASSUME TurnInv, NEW x \in Sides
  PROVE  /\ Aged(x) \in Session /\ Aged(x).game = s[x].game /\ Aged(x).state = s[x].state
         /\ Aged(x).wins = s[x].wins /\ Aged(x).mine = s[x].mine /\ Aged(x).theirs = s[x].theirs
         /\ Aged(x).age <= SILENCE /\ (Silent(x) => Aged(x).ended # "no")
         /\ s[x].ended # "no" => Aged(x).ended # "no"
<1>1. s[x] \in Session /\ s[x].age \in Nat /\ s[x].age <= SILENCE /\ SILENCE \in Nat
  BY TurnAssumption DEF TurnInv, Typed, PauseRight, Session
<1>2. CASE Silent(x)
  BY <1>1, <1>2 DEF Aged, Session
<1>3. CASE ~Silent(x) /\ Ticks(x)
  <2>1. s[x].age + 1 <= SILENCE
    BY <1>1, <1>3 DEF Silent
  <2> DEFINE m == [s[x] EXCEPT !.age = s[x].age + 1]
  <2>2. Aged(x) = m
    BY <1>1, <1>3 DEF Aged, Session
  <2>3. /\ m \in Session /\ m.game = s[x].game /\ m.state = s[x].state /\ m.wins = s[x].wins
        /\ m.mine = s[x].mine /\ m.theirs = s[x].theirs /\ m.age = s[x].age + 1 /\ m.ended = s[x].ended
    BY <1>1 DEF Session
  <2> HIDE DEF m
  <2> QED BY <1>3, <2>1, <2>2, <2>3
<1>4. CASE ~Silent(x) /\ ~Ticks(x)
  BY <1>1, <1>4 DEF Aged
<1> QED BY <1>2, <1>3, <1>4

LEMMA PostedIs ==
  ASSUME TurnInv, NEW x \in Sides
  PROVE  Posted(x) \in Seq(FromSide) /\ Holds(x, Posted(x), {})
<1>1. up[x] \in Seq(FromSide)
  BY DEF TurnInv, Typed
<1>2. /\ Say("leave") \in FromSide /\ Say("leave") \in Idle
      /\ Warms(x) \in FromSide /\ Warms(x) \in Idle
  BY SaidAre, FramesAre DEF Warms
<1> DEFINE w == IF Silent(x) THEN Say("leave") ELSE Warms(x)
<1>3. w \in FromSide /\ w \in Idle
  BY <1>2
<1>4. Posted(x) = up[x] \/ Posted(x) = Append(up[x], w)
  BY DEF Posted
<1> HIDE DEF w
<1>5. Append(up[x], w) \in Seq(FromSide) /\ Range(Append(up[x], w)) = Range(up[x]) \cup {w}
  BY <1>1, <1>3, Put
<1> QED BY <1>1, <1>3, <1>4, <1>5 DEF Holds, Sent

LEMMA ElapseRight ==
  ASSUME TurnInv, Elapse
  PROVE  StepRight
<1>1. Typed /\ \A z \in Sides : PauseRight(z)
  BY DEF TurnInv
<1>2. /\ s' = [x \in Sides |-> Aged(x)]
      /\ link' = [x \in Sides |-> IF Silent(x) THEN "off" ELSE link[x]]
      /\ up' = [x \in Sides |-> Posted(x)]
      /\ UNCHANGED <<paused, down, wire, hid, outbox, seat, kept, cuts, hides>>
  BY DEF Elapse, Aged
<1>3. /\ s' \in [Sides -> Session] /\ \A z \in Sides : IsNow(z, s[z])
      /\ \A z \in Sides : /\ s'[z].age <= SILENCE /\ (Silent(z) => s'[z].ended # "no")
                          /\ s[z].ended # "no" => s'[z].ended # "no"
  BY <1>2, AgedIs DEF IsNow
<1>4. up' \in [Sides -> Seq(FromSide)] /\ \A z \in Sides : Holds(z, up'[z], {})
  BY <1>2, PostedIs
<1>5. link' \in [Sides -> {"on", "away", "asking", "off"}]
  BY <1>1, <1>2 DEF Typed
<1>6. Typed'
  BY <1>1, <1>2, <1>3, <1>4, <1>5 DEF Typed
<1>7. GoesTogether
  BY <1>2, <1>3, <1>4, HeldStill, LinksTogether
<1>8. \A z \in Sides : PauseRight(z)'
  BY <1>1, <1>2, <1>3 DEF PauseRight
<1> QED BY <1>6, <1>7, <1>8 DEF StepRight

LEMMA StopRight ==
  ASSUME TurnInv, UNCHANGED turnVars
  PROVE  StepRight
<1>1. Typed /\ \A z \in Sides : PauseRight(z)
  BY DEF TurnInv
<1>2. UNCHANGED <<s, paused, up, down, link, wire, hid, outbox, seat, kept, cuts, hides>>
  BY DEF turnVars, linkVars
<1>3. Typed'
  BY <1>1, <1>2 DEF Typed
<1>4. GoesTogether
  <2>1. s' \in [Sides -> Session] /\ \A z \in Sides : IsNow(z, s[z])
    BY <1>1, <1>2 DEF IsNow, Typed
  <2> QED BY <1>2, <2>1, HeldStill, LinksTogether
<1>5. \A z \in Sides : PauseRight(z)'
  BY <1>1, <1>2 DEF PauseRight
<1> QED BY <1>3, <1>4, <1>5 DEF StepRight
-----------------------------------------------------------------------------
(* The theorems of the one game *)

LEMMA InitRight ==
  ASSUME TurnInit
  PROVE  TurnInv /\ Front.game = 0 /\ Front.state = NewBoard("host")
<1> DEFINE st == NewBoard(FirstFor(0))
<1>1. /\ st \in Board /\ st.moves = 0 /\ ~IsOver(st) /\ FirstFor(0) = "host"
  BY FirstIs, NewIs DEF FirstFor
<1> HIDE DEF st
<1> DEFINE wins == [x \in Sides |-> 0]
<1>2. wins \in [Sides -> Nat] /\ \A x \in Sides : wins[x] = 0
  OBVIOUS
<1> HIDE DEF wins
<1>3. /\ NewSession \in Session /\ NewSession.game = 0 /\ NewSession.state = st /\ NewSession.wins = wins
      /\ ~NewSession.mine /\ ~NewSession.theirs /\ NewSession.age = 0 /\ NewSession.ended = "no"
  BY <1>1, <1>2 DEF NewSession, Session, st, wins
<1>4. SILENCE \in Nat /\ MaxFaults \in Nat /\ MaxGames \in Nat /\ MaxGames > 0
  BY TurnAssumption
<1>5. s \in [Sides -> Session] /\ \A x \in Sides : s[x] = NewSession
  BY <1>3 DEF TurnInit
<1>6. /\ up \in [Sides -> Seq(FromSide)] /\ down \in [Sides -> Seq(FromRelay)]
      /\ kept \in [Sides -> Seq(Frame)] /\ outbox \in [Sides -> Seq(Frame)]
  BY Nothing DEF TurnInit
<1>7. Typed
  <2>1. cuts = 0 /\ hides = 0
    BY DEF TurnInit
  <2>2. /\ link \in [Sides -> {"on", "away", "asking", "off"}]
        /\ seat \in [Sides -> {"on", "away", "gone"}]
        /\ wire \in [Sides -> BOOLEAN] /\ paused \in [Sides -> BOOLEAN] /\ hid \in [Sides -> BOOLEAN]
    BY DEF TurnInit
  <2> QED BY <1>4, <1>5, <1>6, <2>1, <2>2 DEF Typed
<1>8. \A x \in Sides : Sent(x) = {}
  BY Nothing, TwoSides DEF Sent, TurnInit
<1>9. \A x \in Sides : BoardRight(s[x]) /\ AskRight(x)
  BY <1>1, <1>2, <1>3, <1>4, <1>5, BoardSize DEF BoardRight, AskRight
<1>10. \A x \in Sides : Leads(x)
  BY <1>5, TwoSides DEF Leads, Base
<1>11. Together
  BY <1>8, <1>9, <1>10 DEF Together, Sides
<1>12. \A x \in Sides : PauseRight(x)
  BY <1>3, <1>4, <1>5 DEF PauseRight, TurnInit
<1>13. Front.game = 0 /\ Front.state = st
  BY <1>3, <1>5 DEF Front, Sides
<1> QED BY <1>1, <1>7, <1>11, <1>12, <1>13 DEF TurnInv, st

\* Every step keeps the invariant, and is a step of the one game or none.
LEMMA NextRight ==
  ASSUME TurnInv, [TurnNext]_turnVars
  PROVE  TurnInv' /\ GameGoesOn
<1>1. StepRight
  <2>1. ASSUME NEW x \in Sides, Moves(x) PROVE StepRight
    BY <2>1, StartRight, RematchRight, PlayRight DEF Moves
  <2>2. ASSUME NEW x \in Sides, Passes(x) PROVE StepRight
    BY <2>2, HearRight, RelayRight DEF Passes
  <2>3. ASSUME NEW x \in Sides, Links(x) PROVE StepRight
    BY <2>3, RelayNoticesRight, ExpireRight, LinkNoticesRight, ShowRight, TakeBackRight,
       TurnedAwayRight DEF Links
  <2>4. ASSUME NEW x \in Sides, Faults(x) PROVE StepRight
    BY <2>4, CutRight, HideRight DEF Faults
  <2> QED BY <2>1, <2>2, <2>3, <2>4, ElapseRight, StopRight DEF TurnNext
<1> QED BY <1>1 DEF StepRight, GoesTogether, TurnInv

(***************************************************************************)
(* Whatever is cut, hidden, lost or said again, the two sessions are one   *)
(* disc or one new game apart, and all on its way is of what was played.   *)
(***************************************************************************)
THEOREM TurnInvariant == TurnSpec => []TurnInv
<1>1. TurnInit => TurnInv
  BY InitRight
<1>2. TurnInv /\ [TurnNext]_turnVars => TurnInv'
  BY NextRight
<1> QED BY <1>1, <1>2, PTL DEF TurnSpec

\* The sessions that differ are the one that leads and its friend.
LEMMA TogetherAgree ==
  ASSUME TurnInv
  PROVE  BoardsAgree
<1>1. Sessions /\ Together
  BY DEF TurnInv, Typed, Sessions
<1>2. PICK x \in Sides : Leads(x)
  BY <1>1 DEF Together
<1> DEFINE y == Other(x)
<1>3. y \in Sides /\ s[x].game \in Nat /\ s[y].game \in Nat
      /\ s[x].state.moves \in Nat /\ s[y].state.moves \in Nat
  BY <1>1, TwoSides, SessionIs
<1>4. \/ Front = s[x] /\ Back = s[y]
      \/ Front = s[y] /\ Back = s[x] /\ ~(Later(s[x], s[y]) /\ ~Later(s[y], s[x]))
  BY DEF Front, Back, Sides, Other
<1>5. CASE s[x].game = s[y].game + 1 /\ IsOver(s[y].state) /\ s[y].mine /\ ~s[y].theirs
  <2>1. Later(s[x], s[y]) /\ ~Later(s[y], s[x])
    BY <1>3, <1>5 DEF Later
  <2> QED BY <1>4, <1>5, <2>1 DEF BoardsAgree
<1>6. CASE s[x].game = s[y].game /\ s[x].state = Base(x) /\ s[x].wins = s[y].wins
  <2>1. s[x].state = s[y].state
    BY <1>6 DEF Base
  <2> QED BY <1>4, <1>6, <2>1 DEF BoardsAgree
<1>7. CASE s[x].game = s[y].game /\ \E c \in Columns : Ahead(x, c)
  <2>1. Base(x) = s[y].state
    BY <1>7 DEF Base
  <2>2. PICK c \in Columns : Ahead(x, c)
    BY <1>7
  <2>3. CanDrop(s[y].state, c, x) /\ s[x].state = Drop(s[y].state, c, x)
    BY <2>1, <2>2 DEF Ahead
  <2>4. Base(x).moves < COLS * ROWS
    BY <1>1, <2>2, BaseSize DEF Ahead, CanDrop
  <2>5. s[x].state.moves = s[y].state.moves + 1
    BY <1>1, <2>1, <2>2, <2>4, AheadIs
  <2>6. Later(s[x], s[y]) /\ ~Later(s[y], s[x])
    BY <1>3, <1>7, <2>5 DEF Later
  <2> QED BY <1>4, <1>7, <2>3, <2>6 DEF BoardsAgree
<1> QED BY <1>2, <1>5, <1>6, <1>7 DEF Leads

LEMMA TogetherOneTurn ==
  ASSUME TurnInv
  PROVE  OneTurn
<1>1. Sessions /\ Together
  BY DEF TurnInv, Typed, Sessions
<1> SUFFICES ASSUME \A x \in Sides : \E c \in Columns : Live(x) /\ CanDrop(s[x].state, c, x)
             PROVE  FALSE
  BY DEF OneTurn
<1>2. PICK c \in Columns : CanDrop(s["host"].state, c, "host")
  BY DEF Sides
<1>3. PICK d \in Columns : CanDrop(s["guest"].state, d, "guest")
  BY DEF Sides
<1>4. "host" \in Sides /\ "guest" \in Sides /\ Other("host") = "guest" /\ Other("guest") = "host"
  BY DEF Sides, Other
<1>5. s["host"].state = Base("host") /\ s["guest"].game <= s["host"].game
  BY <1>1, <1>2, <1>4, TurnLeads
<1>6. s["host"].game <= s["guest"].game
  BY <1>1, <1>3, <1>4, TurnLeads
<1>7. s["host"].game = s["guest"].game
  <2>1. s["host"].game \in Nat /\ s["guest"].game \in Nat
    BY <1>1, <1>4, SessionIs
  <2> QED BY <1>5, <1>6, <2>1
<1>8. s["host"].state = s["guest"].state
  BY <1>4, <1>5, <1>7 DEF Base
<1> QED BY <1>2, <1>3, <1>8 DEF CanDrop

LEMMA TogetherTyped ==
  ASSUME TurnInv
  PROVE  TurnTypeOK
<1>1. Typed /\ Together /\ Sessions /\ \A x \in Sides : PauseRight(x)
  BY DEF TurnInv, Typed, Sessions
<1>2. SILENCE \in Nat /\ MaxGames \in Nat /\ MaxFaults \in Nat
  BY TurnAssumption
<1>3. ASSUME NEW x \in Sides
      PROVE  /\ s[x].game \in 0..(MaxGames - 1) /\ s[x].state.moves \in 0..(COLS * ROWS)
             /\ s[x].age \in 0..SILENCE /\ s[x].ended \in {"no", "lost", "closed"}
             /\ s[x].wins \in [Sides -> 0..MaxGames]
  <2>1. /\ s[x].game \in Nat /\ s[x].state.moves \in Nat /\ s[x].wins \in [Sides -> Nat]
        /\ s[x].age \in Nat /\ s[x].ended \in {"no", "lost", "closed"}
    BY <1>1, SessionIs DEF Typed, Session
  <2>2. /\ s[x].game < MaxGames /\ s[x].state.moves <= COLS * ROWS /\ s[x].age <= SILENCE
        /\ \A z \in Sides : s[x].wins[z] <= s[x].game + (IF IsOver(s[x].state) THEN 1 ELSE 0)
    BY <1>1 DEF Together, BoardRight, PauseRight
  <2>3. \A z \in Sides : s[x].wins[z] \in 0..MaxGames
    <3>1. ASSUME NEW z \in Sides PROVE s[x].wins[z] \in 0..MaxGames
      <4>1. s[x].wins[z] \in Nat /\ s[x].wins[z] <= s[x].game + 1
        BY <2>1, <2>2
      <4> QED BY <1>2, <2>1, <2>2, <4>1
    <3> QED BY <3>1
  <2>4. s[x].state.moves \in 0..(COLS * ROWS)
    BY <2>1, <2>2, BoardSize
  <2>5. s[x].game \in 0..(MaxGames - 1) /\ s[x].age \in 0..SILENCE
    BY <1>2, <2>1, <2>2
  <2>6. s[x].wins \in [Sides -> 0..MaxGames]
    BY <2>1, <2>3
  <2> QED BY <2>1, <2>4, <2>5, <2>6
<1>4. ASSUME NEW x \in Sides
      PROVE  \A q \in {up[x], down[x], kept[x], outbox[x]} : \A i \in DOMAIN q : q[i].t \in Types
  <2>1. /\ \A f \in FromSide : f.t \in Types
        /\ \A f \in FromRelay : f.t \in Types
        /\ \A f \in Frame : f.t \in Types
    BY DEF FromSide, FromRelay, Frame, Types
  <2>2. /\ up[x] \in Seq(FromSide) /\ down[x] \in Seq(FromRelay)
        /\ kept[x] \in Seq(Frame) /\ outbox[x] \in Seq(Frame)
    BY <1>1 DEF Typed
  <2>3. /\ \A i \in DOMAIN up[x] : up[x][i] \in FromSide
        /\ \A i \in DOMAIN down[x] : down[x][i] \in FromRelay
        /\ \A i \in DOMAIN kept[x] : kept[x][i] \in Frame
        /\ \A i \in DOMAIN outbox[x] : outbox[x][i] \in Frame
    BY <2>2, LenProperties, ElementOfSeq
  <2> QED BY <2>1, <2>3
<1>5. ASSUME NEW x \in Sides
      PROVE  /\ link[x] \in {"on", "away", "asking", "off"} /\ seat[x] \in {"on", "away", "gone"}
             /\ Live(x) /\ link[x] # "on" => paused[x]
  BY <1>1 DEF Typed, PauseRight, Live
<1>6. {cuts, hides} \subseteq 0..MaxFaults
  BY <1>1, <1>2 DEF Typed
<1> QED BY <1>3, <1>4, <1>5, <1>6 DEF TurnTypeOK

(***************************************************************************)
(* The two boards are one game, one disc or one new game apart at most,    *)
(* with one score and one side to move: nothing that is lost, kept, said   *)
(* again or late makes the sides see different games.                      *)
(***************************************************************************)
THEOREM BoardsAreOneGame == TurnSpec => []InOneGame
<1>1. TurnInv => InOneGame
  BY TogetherTyped, TogetherAgree, TogetherOneTurn DEF InOneGame
<1> QED BY <1>1, TurnInvariant, PTL

(***************************************************************************)
(* Two sessions, two links and the relay between them play what OneGame    *)
(* says: one game after another, each disc where the rules let it be, each *)
(* new game at the end of the one before.                                  *)
(***************************************************************************)
THEOREM OneGamePlayed == TurnSpec => PlaysOneGame
<1>1. TurnInit => Game!GameInit
  BY InitRight, SameRules DEF Game!GameInit
<1>2. TurnInv /\ [TurnNext]_turnVars => [Game!GameNext]_(Game!gameVars)
  <2>1. TurnInv /\ [TurnNext]_turnVars => [Game!GameNext]_<<Front.game, Front.state>>
    BY NextRight DEF GameGoesOn
  <2> QED BY <2>1 DEF Game!gameVars
<1> QED BY <1>1, <1>2, TurnInvariant, PTL DEF TurnSpec, PlaysOneGame, Game!GameSpec
-----------------------------------------------------------------------------
(* Silence: what queues tell *)

\* All that is in a queue is its first or comes after.
LEMMA TookAll ==
  ASSUME NEW S, NEW q \in Seq(S), q # <<>>
  PROVE  \A f \in Range(q) : f = Head(q) \/ f \in Range(Tail(q))
<1>1. SUFFICES ASSUME NEW i \in DOMAIN q PROVE q[i] = Head(q) \/ q[i] \in Range(Tail(q))
  BY DEF Range
<1>2. /\ Head(q) = q[1] /\ Len(q) \in Nat \ {0} /\ DOMAIN q = 1 .. Len(q)
      /\ DOMAIN Tail(q) = 1 .. Len(q) - 1
      /\ \A j \in 1 .. Len(q) - 1 : Tail(q)[j] = q[j + 1]
  BY Took
<1>3. CASE i = 1
  BY <1>2, <1>3
<1>4. CASE i # 1
  <2>1. i - 1 \in 1 .. Len(q) - 1 /\ (i - 1) + 1 = i
    BY <1>2, <1>4
  <2>2. Tail(q)[i - 1] = q[i] /\ i - 1 \in DOMAIN Tail(q)
    BY <1>2, <2>1
  <2> QED BY <2>2 DEF Range
<1> QED BY <1>3, <1>4

\* What is told after one more word.
LEMMA ToldMore ==
  ASSUME NEW S, NEW q \in Seq(S), NEW e \in S, NEW stopped \in BOOLEAN, NEW away \in BOOLEAN,
         \/ ~Tells(e) /\ Told(q, stopped, away)
         \/ Tells(e) /\ (e.t = "friendAway" <=> away)
  PROVE  Told(Append(q, e), stopped, away)
<1> DEFINE r == Append(q, e)
<1>1. /\ Len(q) \in Nat /\ DOMAIN q = 1 .. Len(q) /\ DOMAIN r = 1 .. Len(q) + 1
      /\ \A i \in DOMAIN q : r[i] = q[i]
      /\ r[Len(q) + 1] = e
  BY Put
<1> HIDE DEF r
<1>2. /\ Len(q) + 1 \in DOMAIN r /\ \A i \in DOMAIN q : i \in DOMAIN r /\ Len(q) + 1 > i
      /\ \A i \in DOMAIN r : i \in DOMAIN q \/ i = Len(q) + 1
      /\ \A i \in DOMAIN r : ~(i > Len(q) + 1)
  BY <1>1
<1>3. CASE Tells(e) /\ (e.t = "friendAway" <=> away)
  <2>1. ~ \A i \in DOMAIN r : ~Tells(r[i])
    BY <1>1, <1>2, <1>3
  <2>2. ASSUME NEW i \in DOMAIN r, \A j \in DOMAIN r : j > i => ~Tells(r[j])
        PROVE  r[i].t = "friendAway" <=> away
    <3>1. i \notin DOMAIN q
      BY <1>1, <1>2, <1>3, <2>2
    <3>2. r[i] = e
      BY <1>1, <1>2, <3>1
    <3> QED BY <1>3, <3>2
  <2> QED BY <2>1, <2>2 DEF Told, r
<1>4. CASE ~Tells(e) /\ Told(q, stopped, away)
  <2>1. (\A i \in DOMAIN r : ~Tells(r[i])) => (stopped <=> away)
    <3>1. HAVE \A i \in DOMAIN r : ~Tells(r[i])
    <3>2. \A i \in DOMAIN q : ~Tells(q[i])
      BY <1>1, <1>2, <3>1
    <3> QED BY <1>4, <3>2 DEF Told
  <2>2. ASSUME NEW i \in DOMAIN r, Tells(r[i]), \A j \in DOMAIN r : j > i => ~Tells(r[j])
        PROVE  r[i].t = "friendAway" <=> away
    <3>1. i \in DOMAIN q /\ r[i] = q[i]
      BY <1>1, <1>2, <1>4, <2>2
    <3>2. \A j \in DOMAIN q : j > i => ~Tells(q[j])
      BY <1>1, <1>2, <2>2
    <3> QED BY <1>4, <2>2, <3>1, <3>2 DEF Told
  <2> QED BY <2>1, <2>2 DEF Told, r
<1> QED BY <1>3, <1>4

\* ... and after the first is heard.
LEMMA ToldLess ==
  ASSUME NEW S, NEW q \in Seq(S), q # <<>>, NEW stopped \in BOOLEAN, NEW away \in BOOLEAN,
         NEW now \in BOOLEAN, Told(q, stopped, away),
         IF Tells(Head(q)) THEN now <=> Head(q).t = "friendAway" ELSE now = stopped
  PROVE  Told(Tail(q), now, away)
<1> DEFINE r == Tail(q)
<1>1. /\ Head(q) = q[1] /\ Len(q) \in Nat \ {0} /\ DOMAIN q = 1 .. Len(q)
      /\ DOMAIN r = 1 .. Len(q) - 1
      /\ \A i \in 1 .. Len(q) - 1 : r[i] = q[i + 1]
  BY Took
<1> HIDE DEF r
<1>2. /\ 1 \in DOMAIN q /\ \A i \in DOMAIN r : i + 1 \in DOMAIN q /\ r[i] = q[i + 1]
      /\ \A i \in DOMAIN q : i > 1 => i - 1 \in DOMAIN r /\ r[i - 1] = q[i]
      /\ \A i \in DOMAIN q : i = 1 \/ i > 1
      /\ \A i \in DOMAIN r, j \in DOMAIN q : j > i + 1 => j - 1 > i /\ j > 1
  BY <1>1
<1>3. ASSUME NEW i \in DOMAIN r, Tells(r[i]), \A j \in DOMAIN r : j > i => ~Tells(r[j])
      PROVE  r[i].t = "friendAway" <=> away
  <2>1. i + 1 \in DOMAIN q /\ r[i] = q[i + 1]
    BY <1>2
  <2>2. ASSUME NEW j \in DOMAIN q, j > i + 1 PROVE ~Tells(q[j])
    <3>1. j - 1 \in DOMAIN r /\ r[j - 1] = q[j] /\ j - 1 > i
      BY <1>2, <2>2
    <3> QED BY <1>3, <3>1
  <2> QED BY <1>3, <2>1, <2>2 DEF Told
<1>4. ASSUME \A i \in DOMAIN r : ~Tells(r[i]) PROVE now <=> away
  <2>1. \A i \in DOMAIN q : i > 1 => ~Tells(q[i])
    BY <1>2, <1>4
  <2>2. CASE Tells(Head(q))
    <3>1. q[1].t = "friendAway" <=> away
      BY <1>1, <1>2, <2>1, <2>2 DEF Told
    <3> QED BY <1>1, <2>2, <3>1
  <2>3. CASE ~Tells(Head(q))
    <3>1. \A i \in DOMAIN q : ~Tells(q[i])
      BY <1>1, <1>2, <2>1, <2>3
    <3> QED BY <2>3, <3>1 DEF Told
  <2> QED BY <2>2, <2>3
<1> QED BY <1>3, <1>4 DEF Told, r

\* What is handed over tells a side that its seat is back, and no more.
LEMMA ToldBack ==
  ASSUME NEW q \in Seq(FromRelay), \A i \in DOMAIN q : q[i] \in Frame, NEW stopped \in BOOLEAN
  PROVE  Told(<<Say("resumed")>> \o q, stopped, FALSE)
<1> DEFINE r == <<Say("resumed")>> \o q
<1>1. Say("resumed") \in FromRelay /\ Tells(Say("resumed")) /\ Say("resumed").t # "friendAway"
  BY SaidAre DEF Say, Tells
<1>2. /\ Len(q) \in Nat /\ DOMAIN q = 1 .. Len(q) /\ DOMAIN r = 1 .. Len(q) + 1
      /\ r[1] = Say("resumed")
      /\ \A i \in DOMAIN q : r[i + 1] = q[i]
  BY <1>1, Headed, LenProperties
<1> HIDE DEF r
<1>3. 1 \in DOMAIN r /\ \A i \in DOMAIN r : i = 1 \/ (i - 1 \in DOMAIN q /\ (i - 1) + 1 = i)
  BY <1>2
<1>4. \A i \in DOMAIN r : i # 1 => ~Tells(r[i])
  <2>1. ASSUME NEW i \in DOMAIN r, i # 1 PROVE ~Tells(r[i])
    <3>1. r[i] \in Frame
      BY <1>2, <1>3, <2>1
    <3> QED BY <3>1, FramesAre DEF Tells
  <2> QED BY <2>1
<1> QED BY <1>1, <1>2, <1>3, <1>4 DEF Told, r

\* A queue of a side that stays, with a frame more, or less, or more of them.
LEMMA StaysOn ==
  ASSUME NEW q \in Seq(FromSide), Stays(q)
  PROVE  /\ \A f \in Frame : Stays(Append(q, f))
         /\ q # <<>> => Stays(Tail(q))
         /\ \A r \in Seq(Frame) : Stays(q \o r)
<1>1. \A f \in Frame : f.t \notin {"hide", "leave"} /\ f \in FromSide
  BY FramesAre
<1>2. ASSUME NEW f \in Frame PROVE Stays(Append(q, f))
  <2>1. Range(Append(q, f)) = Range(q) \cup {f}
    BY <1>1, Put
  <2> QED BY <1>1, <2>1 DEF Stays
<1>3. ASSUME q # <<>> PROVE Stays(Tail(q))
  BY <1>3, Took DEF Stays
<1>4. ASSUME NEW r \in Seq(Frame) PROVE Stays(q \o r)
  <2>1. r \in Seq(FromSide)
    BY FramesAre, SeqDef
  <2>2. Range(q \o r) = Range(q) \cup Range(r)
    BY <2>1, Joined
  <2>3. \A f \in Range(r) : f \in Frame
    BY LenProperties, ElementOfSeq DEF Range
  <2> QED BY <1>1, <2>2, <2>3 DEF Stays
<1> QED BY <1>2, <1>3, <1>4

\* ... and when it steps away, and what is left of that once it is taken.
LEMMA StepsOff ==
  ASSUME NEW q \in Seq(FromSide)
  PROVE  /\ Stays(q) => StepsAway(Append(q, Say("hide")))
         /\ StepsAway(q) /\ Head(q).t = "hide" => Tail(q) = <<>>
         /\ StepsAway(q) /\ Head(q).t # "hide" => StepsAway(Tail(q))
         /\ StepsAway(q) => Head(q).t # "leave"
<1>1. Say("hide") \in FromSide /\ Say("hide").t = "hide"
  BY SaidAre DEF Say
<1>2. ASSUME Stays(q) PROVE StepsAway(Append(q, Say("hide")))
  <2> DEFINE r == Append(q, Say("hide"))
  <2>1. /\ r # <<>> /\ Len(r) = Len(q) + 1 /\ Len(q) \in Nat
        /\ DOMAIN q = 1 .. Len(q) /\ DOMAIN r = 1 .. Len(q) + 1
        /\ \A i \in DOMAIN q : r[i] = q[i]
        /\ r[Len(q) + 1] = Say("hide")
    BY <1>1, Put
  <2> HIDE DEF r
  <2>2. \A i \in DOMAIN r : (i \in DOMAIN q /\ i # Len(r)) \/ i = Len(q) + 1
    BY <2>1
  <2>3. \A i \in DOMAIN q : q[i].t \notin {"hide", "leave"}
    BY <1>2 DEF Stays, Range
  <2> QED BY <1>1, <2>1, <2>2, <2>3 DEF StepsAway, r
<1>3. ASSUME StepsAway(q)
      PROVE  /\ Head(q).t = "hide" => Tail(q) = <<>>
             /\ Head(q).t # "hide" => StepsAway(Tail(q))
             /\ Head(q).t # "leave"
  <2> DEFINE r == Tail(q)
  <2>1. q # <<>> /\ \A i \in DOMAIN q : q[i].t # "leave" /\ (q[i].t = "hide" <=> i = Len(q))
    BY <1>3 DEF StepsAway
  <2>2. /\ Head(q) = q[1] /\ Len(q) \in Nat \ {0} /\ DOMAIN q = 1 .. Len(q)
        /\ DOMAIN r = 1 .. Len(q) - 1 /\ Len(r) = Len(q) - 1 /\ r \in Seq(FromSide)
        /\ \A i \in 1 .. Len(q) - 1 : r[i] = q[i + 1]
    BY <2>1, Took
  <2> HIDE DEF r
  <2>3. 1 \in DOMAIN q
    BY <2>2
  <2>4. ASSUME Head(q).t = "hide" PROVE r = <<>>
    <3>1. Len(r) = 0
      BY <2>1, <2>2, <2>3, <2>4
    <3> QED BY <2>2, <3>1, EmptySeq
  <2>5. ASSUME Head(q).t # "hide" PROVE StepsAway(r)
    <3>1. Len(q) # 1
      BY <2>1, <2>2, <2>3, <2>5
    <3>2. r # <<>>
      BY <2>2, <3>1, EmptySeq
    <3>3. ASSUME NEW i \in DOMAIN r PROVE r[i].t # "leave" /\ (r[i].t = "hide" <=> i = Len(r))
      <4>1. i + 1 \in DOMAIN q /\ r[i] = q[i + 1] /\ (i + 1 = Len(q) <=> i = Len(r))
        BY <2>2
      <4> QED BY <2>1, <4>1
    <3> QED BY <3>2, <3>3 DEF StepsAway
  <2> QED BY <2>1, <2>2, <2>3, <2>4, <2>5 DEF r
<1> QED BY <1>2, <1>3
-----------------------------------------------------------------------------
(* Silence: the steps *)

\* Sides and what calm says of each.
LEMMA CalmIs ==
  ASSUME TurnInv, CalmNow, NEW x \in Sides
  PROVE  /\ CalmLink(x) /\ Knows(x) /\ Warm(x)
         /\ s[x] \in Session /\ s[x].age \in Nat /\ s[x].on \in BOOLEAN /\ hides \in Nat
         /\ up[x] \in Seq(FromSide) /\ down[x] \in Seq(FromRelay)
         /\ kept[x] \in Seq(Frame) /\ outbox[x] \in Seq(Frame)
         /\ paused[x] \in BOOLEAN /\ wire[x] \in BOOLEAN
         /\ link[x] \in {"on", "away", "asking", "off"} /\ seat[x] \in {"on", "away", "gone"}
         /\ (seat[x] = "away") \in BOOLEAN
BY DEF TurnInv, Typed, CalmNow, Session

LEMMA PostCalm ==
  ASSUME TurnInv, CalmNow, NEW x \in Sides, NEW f \in Frame, Post(x, f),
         UNCHANGED <<paused, down, link, wire, hid, seat, kept, cuts, hides>>,
         \A z \in Sides : /\ s'[z].age = s[z].age /\ s'[z].ended = s[z].ended
                          /\ s[z].on => s'[z].on
  PROVE  CalmNow'
<1> DEFINE y == Other(x)
<1>1. y \in Sides /\ y # x /\ Other(y) = x /\ \A z \in Sides : z = x \/ z = y
  BY TwoSides
<1>2. up'[y] = up[y] /\ up'[x] \in {up[x], Append(up[x], f)} /\ (link[x] = "away" => up'[x] = up[x])
  BY <1>1 DEF Post, TurnInv, Typed
<1>3. Range(Append(up[x], f)) = Range(up[x]) \cup {f}
  BY CalmIs, FramesAre, Put
<1>4. Stays(up[x]) => Stays(up'[x])
  BY <1>2, CalmIs, StaysOn
<1>5. CalmLink(x)' /\ CalmLink(y)'
  BY <1>1, <1>2, <1>4, CalmIs DEF CalmLink
<1>6. Knows(x)' /\ Knows(y)'
  BY <1>1, CalmIs DEF Knows
<1>7. /\ Coming(x) => Coming(x)'
      /\ Coming(y) => Coming(y)'
  BY <1>1, <1>2, <1>3 DEF Coming
<1>8. Warm(x)' /\ Warm(y)'
  BY <1>1, <1>7, CalmIs DEF Warm
<1> QED BY <1>1, <1>5, <1>6, <1>8 DEF CalmNow

\* A session that hears a frame of the game's has heard.
LEMMA ReceiveHears ==
  ASSUME TurnInv, NEW x \in Sides, NEW f, Receive(x, f), Live(x)
  PROVE  s'[x].age = 0 /\ s'[x].on /\ s'[Other(x)] = s[Other(x)]
<1>1. Other(x) \in Sides /\ Other(x) # x /\ Sessions /\ Together /\ s[x] \in Session /\ s[x].on
  BY TwoSides DEF TurnInv, Typed, Sessions, Live
<1> DEFINE m == [s[x] EXCEPT !.age = 0]
<1>2. m \in Session /\ m.age = 0 /\ m.on /\ m.state = s[x].state
  BY <1>1 DEF Session
<1> HIDE DEF m
<1>3. CASE ReceiveHi(x, f)
  <2>1. s' = [s EXCEPT ![x] = [s[x] EXCEPT !.age = 0, !.greeted = TRUE]]
    BY <1>1, <1>3 DEF ReceiveHi, Sessions, Session
  <2> QED BY <1>1, <2>1 DEF Sessions, Session
<1>4. CASE ReceiveKeep(x, f)
  <2>1. s' = [s EXCEPT ![x] = m]
    BY <1>1, <1>4 DEF ReceiveKeep, Sessions, m
  <2> QED BY <1>1, <1>2, <2>1 DEF Sessions
<1>5. CASE ReceiveMove(x, f)
  <2> DEFINE c == f.c
             n == IF NextMove(m, f) /\ CanDrop(m.state, c, Other(x)) THEN Apply(m, c, Other(x)) ELSE m
  <2>1. s' = [s EXCEPT ![x] = n]
    BY <1>5 DEF ReceiveMove, m
  <2>2. n.age = 0 /\ n.on
    <3>1. CASE NextMove(m, f) /\ CanDrop(m.state, c, Other(x))
      <4>1. m.state.moves < COLS * ROWS
        BY <1>1, <1>2, <3>1 DEF CanDrop, Together, BoardRight
      <4>2. Apply(m, c, Other(x)).age = m.age /\ Apply(m, c, Other(x)).on = m.on
        BY <1>1, <1>2, <4>1, ApplyKeeps
      <4> QED BY <1>2, <3>1, <4>2
    <3> QED BY <1>2, <3>1
  <2> HIDE DEF n
  <2> QED BY <1>1, <2>1, <2>2 DEF Sessions
<1>6. CASE ReceiveAgain(x, f)
  <2> DEFINE n == IF ~AskCounts(m, f) THEN m
                  ELSE IF m.mine THEN Restart(m) ELSE [m EXCEPT !.theirs = TRUE]
  <2>1. s' = [s EXCEPT ![x] = n]
    BY <1>6 DEF ReceiveAgain, m
  <2>2. Restart(m).age = m.age /\ Restart(m).on = m.on
    BY <1>2, RestartIs
  <2>3. [m EXCEPT !.theirs = TRUE].age = m.age /\ [m EXCEPT !.theirs = TRUE].on = m.on
    BY <1>2 DEF Session
  <2>4. n.age = 0 /\ n.on
    BY <1>2, <2>2, <2>3
  <2> HIDE DEF n
  <2> QED BY <1>1, <2>1, <2>4 DEF Sessions
<1> QED BY <1>3, <1>4, <1>5, <1>6 DEF Receive

LEMMA HearCalm ==
  ASSUME TurnInv, CalmNow, NEW x \in Sides, Hear(x)
  PROVE  CalmNow'
<1> DEFINE y == Other(x)
           f == Head(down[x])
<1>1. y \in Sides /\ y # x /\ Other(y) = x /\ \A z \in Sides : z = x \/ z = y
  BY TwoSides
<1>2. Typed
  BY DEF TurnInv
<1>3. /\ link[x] \in {"on", "asking"} /\ down[x] # <<>> /\ down' = [down EXCEPT ![x] = Tail(@)]
      /\ HearGame(x, f) \/ HearFriend(x, f) \/ HearResumed(x, f) \/ HearClosed(x, f)
  BY DEF Hear
<1>4. /\ down'[x] = Tail(down[x]) /\ down'[y] = down[y]
      /\ Range(down'[x]) \subseteq Range(down[x]) /\ f \in FromRelay /\ f \in Sent(y) /\ f \in Range(down[x])
      /\ \A g \in Range(down[x]) : g = f \/ g \in Range(down'[x])
  <2>1. down'[x] = Tail(down[x]) /\ down'[y] = down[y]
    BY <1>1, <1>2, <1>3 DEF Typed
  <2> QED BY <1>2, <1>3, <2>1, HeardIs, CalmIs, Took, TookAll
<1>5. /\ CalmLink(x) /\ CalmLink(y) /\ Knows(x) /\ Knows(y) /\ Warm(x) /\ Warm(y)
      /\ hides \in Nat /\ s[x].on \in BOOLEAN /\ paused[x] \in BOOLEAN /\ down[x] \in Seq(FromRelay)
      /\ (seat[y] = "away") \in BOOLEAN /\ up[x] \in Seq(FromSide) /\ outbox[x] \in Seq(Frame)
  BY <1>1, CalmIs
<1>6. ASSUME NEW now \in BOOLEAN,
             IF Tells(f) THEN now <=> f.t = "friendAway" ELSE now = paused[x]
      PROVE  Told(down'[x], now, seat[y] = "away")
  <2>1. Told(down[x], paused[x], seat[y] = "away")
    BY <1>3, <1>5 DEF Knows
  <2> DEFINE away == seat[y] = "away"
  <2>2. away \in BOOLEAN /\ Told(down[x], paused[x], away)
    BY <1>5, <2>1
  <2> HIDE DEF away
  <2>3. Told(Tail(down[x]), now, away)
    BY <1>3, <1>5, <1>6, <2>2, ToldLess
  <2> QED BY <1>4, <2>3 DEF away
<1> HIDE DEF f
<1>7. CASE HearGame(x, f)
  <2>1. /\ Receive(x, f) /\ UNCHANGED <<paused, link, wire, hid, seat, kept, cuts, hides>>
        /\ f.t \in {"hi", "move", "again", "keep"} /\ ~Tells(f)
    BY <1>7 DEF HearGame, Receive, ReceiveHi, ReceiveMove, ReceiveAgain, ReceiveKeep, Tells
  <2>2. PostNothing \/ Post(x, Hi(TRUE))
    BY <2>1 DEF Receive, ReceiveHi, ReceiveMove, ReceiveAgain, ReceiveKeep
  <2>3. NoNews
    BY <1>3, <2>1, <2>2, HearQueues
  <2>4. \A z \in Sides : s'[z].ended = s[z].ended
    BY <1>4, <2>1, <2>3, ReceiveTogether
  <2>5. link[x] = "on"
    BY <1>3, <2>1, OnHears DEF f
  <2>6. up'[y] = up[y] /\ (up'[x] = up[x] \/ up'[x] = Append(up[x], Hi(TRUE)))
    BY <1>1, <1>2, <2>2 DEF PostNothing, Post, Typed
  <2>7. /\ Hi(TRUE) \in Frame /\ Range(Append(up[x], Hi(TRUE))) = Range(up[x]) \cup {Hi(TRUE)}
        /\ Stays(up[x]) => Stays(Append(up[x], Hi(TRUE)))
    <3>1. Hi(TRUE) \in Frame /\ Hi(TRUE) \in FromSide
      BY SaidAre, FramesAre
    <3>2. Range(Append(up[x], Hi(TRUE))) = Range(up[x]) \cup {Hi(TRUE)}
      <4> DEFINE h == Hi(TRUE)
                 q == up[x]
      <4>1. h \in FromSide /\ q \in Seq(FromSide)
        BY <1>5, <3>1
      <4> HIDE DEF h, q
      <4>2. Range(Append(q, h)) = Range(q) \cup {h}
        BY <4>1, Put
      <4> QED BY <4>2 DEF h, q
    <3> QED BY <1>5, <3>1, <3>2, StaysOn
  <2>8. CalmLink(x)' /\ CalmLink(y)'
    BY <1>1, <1>4, <1>5, <2>1, <2>4, <2>5, <2>6, <2>7 DEF CalmLink
  <2>9. Knows(x)' /\ Knows(y)'
    BY <1>1, <1>4, <1>5, <1>6, <2>1 DEF Knows
  <2>10. s'[y] = s[y] /\ s'[x].age = 0
    <3>1. CASE Live(x)
      BY <2>1, <3>1, ReceiveHears
    <3>2. CASE ~Live(x)
      BY <1>5, <2>1, <3>2 DEF Receive, Live, CalmLink, Warm
    <3> QED BY <3>1, <3>2
  <2>11. Coming(y) => Coming(y)'
    BY <1>1, <1>4, <2>6, <2>7 DEF Coming
  <2>12. Warm(x)' /\ Warm(y)'
    BY <1>5, <2>1, <2>10, <2>11 DEF Warm
  <2> QED BY <1>1, <2>8, <2>9, <2>12 DEF CalmNow
<1>8. CASE HearFriend(x, f)
  <2>1. /\ paused' = [paused EXCEPT ![x] = (f.t = "friendAway")]
        /\ f.t \in {"friendAway", "friendBack"} /\ Tells(f) /\ f \notin Frame
        /\ UNCHANGED <<s, up, link, wire, hid, outbox, seat, kept, cuts, hides>>
    BY <1>8, FramesAre DEF HearFriend, Clock, linkVars, Tells
  <2>2. paused'[y] = paused[y] /\ paused'[x] \in BOOLEAN /\ (paused'[x] <=> f.t = "friendAway")
    BY <1>1, <1>2, <2>1 DEF Typed
  <2>3. CalmLink(x)' /\ CalmLink(y)'
    BY <1>1, <1>4, <1>5, <2>1 DEF CalmLink
  <2>4. Knows(x)' /\ Knows(y)'
    BY <1>1, <1>4, <1>5, <1>6, <2>1, <2>2 DEF Knows
  <2>5. (Coming(x) => Coming(x)') /\ (Coming(y) => Coming(y)')
    BY <1>1, <1>4, <2>1 DEF Coming
  <2>6. Warm(x)' /\ Warm(y)'
    BY <1>5, <2>1, <2>5 DEF Warm
  <2> QED BY <1>1, <2>3, <2>4, <2>6 DEF CalmNow
<1>9. CASE HearResumed(x, f)
  <2>1. /\ f.t = "resumed" /\ Tells(f) /\ f \notin Frame
        /\ paused' = [paused EXCEPT ![x] = FALSE] /\ link' = [link EXCEPT ![x] = "on"]
        /\ up' = [up EXCEPT ![x] = @ \o outbox[x]]
        /\ UNCHANGED <<s, wire, hid, seat, kept, cuts, hides>>
    BY <1>9, FramesAre DEF HearResumed, Clock, Tells
  <2>2. /\ paused'[y] = paused[y] /\ paused'[x] = FALSE
        /\ link'[y] = link[y] /\ link'[x] = "on"
        /\ up'[y] = up[y] /\ up'[x] = up[x] \o outbox[x]
    BY <1>1, <1>2, <2>1 DEF Typed
  <2>3. Stays(up[x]) => Stays(up'[x])
    BY <1>5, <2>2, StaysOn
  <2>4. Range(up[x]) \subseteq Range(up'[x])
    <3>1. outbox[x] \in Seq(FromSide)
      BY <1>5, FramesAre, SeqDef
    <3> QED BY <1>5, <2>2, <3>1, Joined
  <2>5. CalmLink(x)' /\ CalmLink(y)'
    BY <1>1, <1>3, <1>4, <1>5, <2>1, <2>2, <2>3 DEF CalmLink
  <2>6. Knows(x)' /\ Knows(y)'
    BY <1>1, <1>4, <1>5, <1>6, <2>1, <2>2 DEF Knows
  <2>7. (Coming(x) => Coming(x)') /\ (Coming(y) => Coming(y)')
    BY <1>1, <1>4, <2>1, <2>2, <2>4 DEF Coming
  <2>8. Warm(x)' /\ Warm(y)'
    BY <1>5, <2>1, <2>2, <2>7 DEF Warm
  <2> QED BY <1>1, <2>5, <2>6, <2>8 DEF CalmNow
<1>10. ~HearClosed(x, f)
  BY <1>4, <1>5 DEF HearClosed, CalmLink
<1> QED BY <1>3, <1>7, <1>8, <1>9, <1>10 DEF f

LEMMA RelayCalm ==
  ASSUME TurnInv, CalmNow, NEW x \in Sides, Relay(x)
  PROVE  CalmNow'
<1> DEFINE y == Other(x)
           f == Head(up[x])
<1>1. y \in Sides /\ y # x /\ Other(y) = x /\ \A z \in Sides : z = x \/ z = y
  BY TwoSides
<1>2. Typed
  BY DEF TurnInv
<1>3. /\ up[x] # <<>> /\ up' = [up EXCEPT ![x] = Tail(@)]
      /\ Forward(x, f) \/ (f.t = "hide" /\ Hold(x)) \/ (f.t = "leave" /\ EndGame(x))
      /\ UNCHANGED <<s, paused, link, wire, hid, outbox, cuts, hides>>
  BY DEF Relay
<1>4. /\ CalmLink(x) /\ CalmLink(y) /\ Knows(x) /\ Knows(y) /\ Warm(x) /\ Warm(y)
      /\ hides \in Nat /\ paused[y] \in BOOLEAN /\ down[y] \in Seq(FromRelay)
      /\ (seat[x] = "away") \in BOOLEAN /\ up[x] \in Seq(FromSide)
  BY <1>1, CalmIs
<1>5. /\ up'[x] = Tail(up[x]) /\ up'[y] = up[y]
      /\ f \in FromSide /\ f \in Range(up[x])
      /\ \A g \in Range(up[x]) : g = f \/ g \in Range(up'[x])
  <2>1. up'[x] = Tail(up[x]) /\ up'[y] = up[y]
    BY <1>1, <1>2, <1>3 DEF Typed
  <2> QED BY <1>3, <1>4, <2>1, Took, TookAll
<1>6. /\ link[x] # "away" => f.t \notin {"hide", "leave"} /\ Stays(up'[x])
      /\ link[x] = "away" => /\ seat[x] = "on" /\ f.t # "leave"
                             /\ f.t = "hide" => up'[x] = <<>>
                             /\ f.t # "hide" => StepsAway(up'[x])
  <2>1. CASE link[x] # "away"
    BY <1>3, <1>4, <1>5, <2>1, StaysOn DEF CalmLink, Stays
  <2>2. CASE link[x] = "away"
    <3>1. seat[x] = "on" /\ StepsAway(up[x])
      BY <1>3, <1>4, <2>2 DEF CalmLink
    <3> QED BY <1>4, <1>5, <2>2, <3>1, StepsOff
  <2> QED BY <2>1, <2>2
<1>7. link[y] # "away" => seat[y] = "on" /\ wire[y]
  BY <1>4 DEF CalmLink
<1> HIDE DEF f
<1>8. CASE Forward(x, f)
  <2>1. /\ f.t \in {"hi", "move", "again", "keep"} /\ ~Tells(f)
        /\ ToOther(y, f) /\ seat' = seat
    BY <1>8 DEF Forward, Tells
  <2>2. f \in Frame /\ f \in FromRelay
    BY <1>5, <2>1, FramesAre
  <2>3. /\ down'[x] = down[x] /\ (down'[y] = down[y] \/ down'[y] = Append(down[y], f))
        /\ seat[y] = "on" /\ wire[y] => down'[y] = Append(down[y], f)
    BY <1>1, <1>2, <2>1 DEF ToOther, Typed
  <2>4. Range(Append(down[y], f)) = Range(down[y]) \cup {f}
    BY <1>4, <2>2, Put
  <2>5. CalmLink(x)' /\ CalmLink(y)'
    BY <1>1, <1>3, <1>4, <1>5, <1>6, <2>1, <2>3, <2>4 DEF CalmLink
  <2>6. Knows(x)'
    BY <1>3, <1>4, <2>1, <2>3 DEF Knows
  <2>7. Knows(y)'
    <3> DEFINE away == seat[x] = "away"
    <3>1. away \in BOOLEAN /\ (link[y] # "away" => Told(down[y], paused[y], away))
      BY <1>1, <1>4 DEF Knows
    <3> HIDE DEF away
    <3>2. link[y] # "away" => Told(Append(down[y], f), paused[y], away)
      BY <1>4, <2>1, <2>2, <3>1, ToldMore
    <3>3. link[y] # "away" => Told(down'[y], paused[y], away)
      BY <2>3, <3>1, <3>2
    <3> QED BY <1>1, <1>3, <2>1, <3>3 DEF Knows, away
  <2>8. Coming(x) => Coming(x)'
    BY <1>5, <2>3 DEF Coming
  <2>9. link[y] = "on" => Coming(y)'
    BY <1>7, <2>2, <2>3, <2>4 DEF Coming
  <2>10. Warm(x)' /\ Warm(y)'
    BY <1>3, <1>4, <2>8, <2>9 DEF Warm
  <2> QED BY <1>1, <2>5, <2>6, <2>7, <2>10 DEF CalmNow
<1>9. CASE f.t = "hide" /\ Hold(x)
  <2>1. link[x] = "away" /\ seat[x] = "on" /\ up'[x] = <<>> /\ f \notin Frame
    BY <1>6, <1>9, FramesAre
  <2> DEFINE e == Say("friendAway")
  <2>2. e \in FromRelay /\ Tells(e) /\ e.t = "friendAway"
    BY SaidAre DEF Say, Tells
  <2> HIDE DEF e
  <2>3. /\ seat'[x] = "away" /\ seat'[y] = seat[y]
        /\ down'[x] = down[x] /\ (down'[y] = down[y] \/ down'[y] = Append(down[y], e))
        /\ seat[y] = "on" /\ wire[y] => down'[y] = Append(down[y], e)
    BY <1>1, <1>2, <1>9, <2>1 DEF Hold, ToOther, Typed, e
  <2>4. Range(Append(down[y], e)) = Range(down[y]) \cup {e}
    BY <1>4, <2>2, Put
  <2>5. CalmLink(x)' /\ CalmLink(y)'
    BY <1>1, <1>3, <1>4, <1>5, <2>1, <2>2, <2>3, <2>4 DEF CalmLink
  <2>6. Knows(x)'
    BY <1>3, <2>1 DEF Knows
  <2>7. Knows(y)'
    <3>1. Told(Append(down[y], e), paused[y], TRUE)
      BY <1>4, <2>2, ToldMore
    <3> QED BY <1>1, <1>3, <1>7, <2>3, <3>1 DEF Knows
  <2>8. Coming(x) => Coming(x)'
    BY <1>5, <2>3 DEF Coming
  <2>9. Coming(y) => Coming(y)'
    <3>1. Range(down[y]) \subseteq Range(down'[y])
      BY <2>3, <2>4
    <3>2. \A g \in Range(up[x]) : g \in Frame => g \in Range(up'[x])
      BY <1>5, <2>1
    <3> QED BY <1>1, <3>1, <3>2 DEF Coming
  <2>10. Warm(x)' /\ Warm(y)'
    BY <1>3, <1>4, <2>8, <2>9 DEF Warm
  <2> QED BY <1>1, <2>5, <2>6, <2>7, <2>10 DEF CalmNow
<1>10. f.t # "leave"
  BY <1>6
<1> QED BY <1>3, <1>8, <1>9, <1>10

\* While no link is cut, none is found dead, no seat given up and no game ended.
LEMMA NoneLost ==
  ASSUME TurnInv, CalmNow, NEW x \in Sides
  PROVE  ~RelayNotices(x) /\ ~Expire(x) /\ ~LinkNotices(x) /\ ~TurnedAway(x)
BY CalmIs DEF RelayNotices, Expire, LinkNotices, TurnedAway, CalmLink, StepsAway

LEMMA TakeBackCalm ==
  ASSUME TurnInv, CalmNow, NEW x \in Sides, TakeBack(x)
  PROVE  CalmNow'
<1> DEFINE y == Other(x)
           back == Say("resumed")
           gone == Say("friendAway")
           here == Say("friendBack")
           there == seat[y] = "on"
           handed == <<back>> \o kept[x]
           mine == IF there THEN handed ELSE Append(handed, gone)
           theirs == IF there /\ wire[y] THEN Append(down[y], here) ELSE down[y]
<1>1. y \in Sides /\ y # x /\ Other(y) = x /\ \A z \in Sides : z = x \/ z = y
  BY TwoSides
<1>2. Typed
  BY DEF TurnInv
<1>3. /\ link[x] = "away" /\ up' = [up EXCEPT ![x] = Replaced(@)]
      /\ seat' = [seat EXCEPT ![x] = "on"] /\ wire' = [wire EXCEPT ![x] = TRUE]
      /\ link' = [link EXCEPT ![x] = "asking"]
      /\ UNCHANGED <<s, paused, hid, outbox, cuts, hides>>
      /\ down' = [down EXCEPT ![x] = mine, ![y] = theirs]
  BY <1>1, <1>2 DEF TakeBack, Typed
<1>4. /\ CalmLink(x) /\ CalmLink(y) /\ Knows(y) /\ Warm(x) /\ Warm(y)
      /\ hides \in Nat /\ paused[x] \in BOOLEAN /\ paused[y] \in BOOLEAN
      /\ down[y] \in Seq(FromRelay) /\ kept[x] \in Seq(Frame)
      /\ seat[y] \in {"on", "away", "gone"} /\ (there \in BOOLEAN)
  BY <1>1, CalmIs
<1>5. /\ back \in FromRelay /\ gone \in FromRelay /\ here \in FromRelay
      /\ Tells(gone) /\ Tells(here)
      /\ gone.t = "friendAway" /\ here.t = "friendBack" /\ back.t = "resumed"
  BY SaidAre DEF Say, Tells
<1>6. /\ kept[x] \in Seq(FromRelay) /\ \A i \in DOMAIN kept[x] : kept[x][i] \in Frame
      /\ \A g \in Range(kept[x]) : g.t # "closed"
  <2>1. kept[x] \in Seq(FromRelay)
    BY <1>4, FramesAre, SeqDef
  <2>2. \A i \in DOMAIN kept[x] : kept[x][i] \in Frame
    BY <1>4, LenProperties, ElementOfSeq
  <2> QED BY <2>1, <2>2, FramesAre DEF Range
<1>7. /\ handed \in Seq(FromRelay) /\ Range(handed) = {back} \cup Range(kept[x])
      /\ Told(handed, paused[x], FALSE)
  <2>1. Told(handed, paused[x], FALSE)
    BY <1>4, <1>6, ToldBack
  <2> HIDE DEF back
  <2>2. handed \in Seq(FromRelay) /\ Range(handed) = {back} \cup Range(kept[x])
    BY <1>5, <1>6, Headed
  <2> QED BY <2>1, <2>2
<1> HIDE DEF handed, back, gone, here
<1>8. /\ Range(Append(handed, gone)) = Range(handed) \cup {gone}
      /\ Told(Append(handed, gone), paused[x], TRUE)
  <2>1. Range(Append(handed, gone)) = Range(handed) \cup {gone}
    BY <1>5, <1>7, Put
  <2>2. Told(Append(handed, gone), paused[x], TRUE)
    BY <1>4, <1>5, <1>7, ToldMore
  <2> QED BY <2>1, <2>2
<1>9. /\ Range(Append(down[y], here)) = Range(down[y]) \cup {here}
      /\ Told(Append(down[y], here), paused[y], FALSE)
  <2>1. Range(Append(down[y], here)) = Range(down[y]) \cup {here}
    BY <1>4, <1>5, Put
  <2>2. Told(Append(down[y], here), paused[y], FALSE)
    BY <1>4, <1>5, ToldMore
  <2> QED BY <2>1, <2>2
<1>10. /\ \A g \in Range(mine) : g.t # "closed"
       /\ Told(mine, paused[x], ~there)
  BY <1>5, <1>6, <1>7, <1>8
<1>11. /\ \A g \in Range(theirs) : g \in Range(down[y]) \/ g.t # "closed"
       /\ Range(down[y]) \subseteq Range(theirs)
       /\ there /\ wire[y] => Told(theirs, paused[y], FALSE)
  BY <1>5, <1>9
<1>12. ~there <=> seat[y] = "away"
  BY <1>4 DEF CalmLink
<1>13. link[y] # "away" => there /\ wire[y]
  BY <1>4 DEF CalmLink
<1> HIDE DEF mine, theirs
<1>14. /\ down'[x] = mine /\ down'[y] = theirs /\ seat'[x] = "on" /\ seat'[y] = seat[y]
       /\ wire'[x] = TRUE /\ wire'[y] = wire[y] /\ link'[x] = "asking" /\ link'[y] = link[y]
  BY <1>1, <1>2, <1>3 DEF Typed
<1>15. /\ Stays(up'[x]) /\ up'[y] = up[y]
       /\ \A f \in Range(up[x]) : f \in Frame => f \in Range(up'[x])
  <2>1. up'[x] = Replaced(up[x]) /\ up'[y] = up[y] /\ up[x] \in Seq(FromSide)
    BY <1>1, <1>2, <1>3 DEF Typed
  <2>2. up[x] = <<>> \/ StepsAway(up[x])
    BY <1>3, <1>4 DEF CalmLink
  <2>3. Stays(Replaced(up[x]))
    BY <2>1, <2>2, Nothing, ReplacedIs DEF Stays
  <2>4. \A f \in Range(up[x]) : f \in Frame => f \in Range(Replaced(up[x]))
    BY <2>1, ReplacedIs, FramesAre
  <2> QED BY <2>1, <2>3, <2>4
<1>16. CalmLink(x)'
  BY <1>3, <1>4, <1>10, <1>14, <1>15 DEF CalmLink
<1>17. CalmLink(y)'
  BY <1>3, <1>4, <1>11, <1>14, <1>15 DEF CalmLink
<1>18. Knows(x)'
  <2>1. CASE there
    <3>1. Told(mine, paused[x], FALSE) /\ ~(seat[y] = "away")
      BY <1>7, <1>12, <2>1 DEF mine
    <3> QED BY <1>3, <1>14, <3>1 DEF Knows
  <2>2. CASE ~there
    <3>1. Told(mine, paused[x], TRUE) /\ seat[y] = "away"
      BY <1>8, <1>12, <2>2 DEF mine
    <3> QED BY <1>3, <1>14, <3>1 DEF Knows
  <2> QED BY <2>1, <2>2
<1>19. Knows(y)'
  BY <1>1, <1>3, <1>11, <1>13, <1>14 DEF Knows
<1>20. Coming(y) => Coming(y)'
  BY <1>1, <1>3, <1>11, <1>14, <1>15 DEF Coming
<1>21. Warm(x)' /\ Warm(y)'
  BY <1>3, <1>4, <1>14, <1>20 DEF Warm
<1> QED BY <1>1, <1>16, <1>17, <1>18, <1>19, <1>21 DEF CalmNow

LEMMA HideCalm ==
  ASSUME TurnInv, CalmNow, NEW x \in Sides, Hide(x)
  PROVE  CalmNow'
<1> DEFINE y == Other(x)
<1>1. y \in Sides /\ y # x /\ Other(y) = x /\ \A z \in Sides : z = x \/ z = y
  BY TwoSides
<1>2. Typed
  BY DEF TurnInv
<1>3. /\ CalmLink(x) /\ CalmLink(y) /\ Knows(y) /\ Warm(x) /\ Warm(y)
      /\ hides \in Nat /\ s[x].age \in Nat /\ s[y].age \in Nat /\ up[x] \in Seq(FromSide)
  BY <1>1, CalmIs
<1>4. /\ link[x] = "on" /\ hides' = hides + 1 /\ wire[x] /\ seat[x] = "on" /\ Stays(up[x])
      /\ UNCHANGED <<s, outbox, seat, kept, cuts>>
  BY <1>3 DEF Hide, CalmLink
<1>5. /\ link'[x] = "away" /\ link'[y] = link[y] /\ paused'[y] = paused[y]
      /\ wire'[x] = FALSE /\ wire'[y] = wire[y]
      /\ up'[x] = Append(up[x], Say("hide")) /\ up'[y] = up[y]
      /\ down'[x] = <<>> /\ down'[y] = down[y]
  BY <1>1, <1>2, <1>4 DEF Hide, Clock, Typed
<1>6. StepsAway(up'[x]) /\ Range(<<>>) = {}
  BY <1>3, <1>4, <1>5, StepsOff, Nothing
<1>7. CalmLink(x)' /\ CalmLink(y)'
  BY <1>3, <1>4, <1>5, <1>6 DEF CalmLink
<1>8. Knows(x)' /\ Knows(y)'
  BY <1>1, <1>3, <1>4, <1>5 DEF Knows
<1>9. Warm(x)' /\ Warm(y)'
  BY <1>3, <1>4 DEF Warm
<1> QED BY <1>1, <1>7, <1>8, <1>9 DEF CalmNow

\* Time passes when nothing is on its way: for both sides, or for neither.
LEMMA ElapseCalm ==
  ASSUME TurnInv, CalmNow, hides < SILENCE, Elapse
  PROVE  CalmNow'
<1>1. SILENCE \in Nat
  BY TurnAssumption
<1>2. ASSUME NEW x \in Sides
      PROVE  /\ s[x].on /\ up[x] = <<>> /\ link[x] \in {"on", "away"}
             /\ link[x] = "on" => down[x] = <<>> /\ (paused[x] <=> link[Other(x)] = "away")
             /\ link[x] = "away" => paused[x]
             /\ s[x].ended = "no"
  <2>1. /\ s[x].on /\ up[x] = <<>> /\ up[Other(x)] = <<>>
        /\ link[x] \in {"on", "asking"} => down[x] = <<>>
    BY TwoSides DEF Elapse
  <2>2. link[x] # "asking" /\ (link[x] = "away" => paused[x])
    BY <2>1 DEF TurnInv, PauseRight
  <2>3. CalmLink(x) /\ CalmLink(Other(x)) /\ Knows(x) /\ link[x] \in {"on", "away", "asking", "off"}
    BY TwoSides, CalmIs
  <2>4. link[Other(x)] = "away" <=> seat[Other(x)] = "away"
    BY <2>1, <2>3 DEF CalmLink, StepsAway
  <2>5. link[x] = "on" => (paused[x] <=> seat[Other(x)] = "away")
    BY <2>1, <2>3, Nothing DEF Knows, Told
  <2> QED BY <2>1, <2>2, <2>3, <2>4, <2>5 DEF CalmLink
<1>3. PICK z \in Sides : Ticks(z)
  BY DEF Elapse
<1>4. ASSUME NEW x \in Sides PROVE Ticks(x) /\ link[x] = "on"
  <2>1. link[z] = "on" /\ link[Other(z)] = "on"
    BY <1>2, <1>3, TwoSides DEF Ticks
  <2>2. link[x] = "on" /\ link[Other(x)] = "on"
    BY <2>1, TwoSides
  <2> QED BY <1>2, <2>2 DEF Ticks, Live
<1>5. ASSUME NEW x \in Sides PROVE s[x].age <= hides /\ ~Silent(x) /\ s[x].age \in Nat /\ hides \in Nat
  <2>1. ~Coming(x)
    BY <1>2, <1>4, TwoSides, Nothing DEF Coming
  <2>2. s[x].age <= hides /\ s[x].age \in Nat /\ hides \in Nat
    BY <2>1, CalmIs DEF Warm
  <2> QED BY <1>1, <2>2 DEF Silent
<1>6. ASSUME NEW x \in Sides
      PROVE  /\ s'[x].age = s[x].age + 1 /\ s'[x].on /\ s'[x].ended = "no"
             /\ link'[x] = "on" /\ up'[x] = Append(<<>>, Warms(x))
  <2>1. s'[x] = [s[x] EXCEPT !.age = s[x].age + 1] /\ link'[x] = link[x] /\ up'[x] = Posted(x)
    BY <1>4, <1>5, CalmIs DEF Elapse, Session
  <2>2. wire[x]
    BY <1>4, CalmIs DEF CalmLink
  <2>3. up'[x] = Append(<<>>, Warms(x))
    BY <1>2, <1>4, <1>5, <2>1, <2>2 DEF Posted
  <2>4. [s[x] EXCEPT !.age = s[x].age + 1].age = s[x].age + 1
        /\ [s[x] EXCEPT !.age = s[x].age + 1].on = s[x].on
        /\ [s[x] EXCEPT !.age = s[x].age + 1].ended = s[x].ended
    BY CalmIs DEF Session
  <2> QED BY <1>2, <1>4, <2>1, <2>3, <2>4
<1>7. UNCHANGED <<paused, down, wire, seat, hides>>
  BY DEF Elapse
<1>8. ASSUME NEW x \in Sides PROVE CalmLink(x)' /\ Knows(x)' /\ Warm(x)'
  <2>1. Other(x) \in Sides
    BY TwoSides
  <2>2. /\ Warms(x) \in Frame /\ Warms(Other(x)) \in Frame
        /\ Range(Append(<<>>, Warms(Other(x)))) = {Warms(Other(x))}
        /\ Stays(Append(<<>>, Warms(x)))
    <3>1. Warms(x) \in Frame /\ Warms(Other(x)) \in Frame
      BY SaidAre DEF Warms
    <3>2. Stays(<<>>) /\ <<>> \in Seq(FromSide) /\ <<>> \in Seq(Frame) /\ Range(<<>>) = {}
      BY Nothing DEF Stays
    <3>3. Range(Append(<<>>, Warms(Other(x)))) = {Warms(Other(x))}
      <4> DEFINE w == Warms(Other(x))
                 q == <<>>
      <4>1. w \in Frame /\ q \in Seq(Frame) /\ Range(q) = {}
        BY <3>1, <3>2
      <4> HIDE DEF w, q
      <4>2. Range(Append(q, w)) = Range(q) \cup {w}
        BY <4>1, Put
      <4> QED BY <4>1, <4>2 DEF w, q
    <3>4. Stays(Append(<<>>, Warms(x)))
      BY <3>1, <3>2, StaysOn
    <3> QED BY <3>1, <3>2, <3>3, <3>4
  <2>3. CalmLink(x) /\ Knows(x)
    BY CalmIs
  <2>4. CalmLink(x)'
    BY <1>4, <1>6, <1>7, <2>2, <2>3 DEF CalmLink
  <2>5. Knows(x)'
    BY <1>4, <1>7, <2>3 DEF Knows
  <2>6. Coming(x)'
    BY <1>6, <2>1, <2>2 DEF Coming
  <2>7. Warm(x)'
    BY <1>5, <1>6, <1>7, <2>6 DEF Warm
  <2> QED BY <2>4, <2>5, <2>7
<1> QED BY <1>8 DEF CalmNow

LEMMA StepCalm ==
  ASSUME TurnInv, CalmNow, hides < SILENCE, cuts' = 0, [TurnNext]_turnVars
  PROVE  CalmNow'
<1>1. ASSUME NEW x \in Sides, Start(x) PROVE CalmNow'
  <2>1. Post(x, Hi(FALSE)) /\ Hi(FALSE) \in Frame
    BY <1>1, SaidAre DEF Start
  <2>2. /\ UNCHANGED <<paused, down, link, wire, hid, seat, kept, cuts, hides>>
        /\ s' = [s EXCEPT ![x].on = TRUE] /\ s \in [Sides -> Session]
    BY <1>1 DEF Start, TurnInv, Typed
  <2>3. \A z \in Sides : /\ s'[z].age = s[z].age /\ s'[z].ended = s[z].ended
                         /\ s[z].on => s'[z].on
    BY <2>2 DEF Session
  <2> QED BY <2>1, <2>2, <2>3, PostCalm
<1>2. ASSUME NEW x \in Sides, NEW c \in Columns, Play(x, c) PROVE CalmNow'
  <2>1. Sessions /\ s[x] \in Session /\ s[x].state.moves < COLS * ROWS
    BY <1>2 DEF TurnInv, Typed, Sessions, Play, CanDrop, Together, BoardRight
  <2> DEFINE f == Move(s[x].game, s[x].state.moves, c)
             m == Apply(s[x], c, x)
  <2>2. Post(x, f) /\ f \in Frame
    BY <1>2, <2>1, SessionIs, SaidAre DEF Play
  <2>3. /\ UNCHANGED <<paused, down, link, wire, hid, seat, kept, cuts, hides>>
        /\ s' = [s EXCEPT ![x] = m]
    BY <1>2 DEF Play
  <2>4. m.age = s[x].age /\ m.ended = s[x].ended /\ m.on = s[x].on
    BY <2>1, ApplyKeeps
  <2> HIDE DEF f, m
  <2>5. \A z \in Sides : /\ s'[z].age = s[z].age /\ s'[z].ended = s[z].ended
                         /\ s[z].on => s'[z].on
    BY <2>1, <2>3, <2>4 DEF Sessions
  <2> QED BY <2>2, <2>3, <2>5, PostCalm
<1>3. ASSUME NEW x \in Sides, Rematch(x) PROVE CalmNow'
  <2>1. Sessions /\ s[x] \in Session
    BY DEF TurnInv, Typed, Sessions
  <2> DEFINE f == Again(s[x].game)
             m == IF s[x].theirs THEN Restart(s[x]) ELSE [s[x] EXCEPT !.mine = TRUE]
  <2>2. Post(x, f) /\ f \in Frame
    BY <1>3, <2>1, SessionIs, SaidAre DEF Rematch
  <2>3. /\ UNCHANGED <<paused, down, link, wire, hid, seat, kept, cuts, hides>>
        /\ s' = [s EXCEPT ![x] = m]
    BY <1>3, <2>1 DEF Rematch, Sessions
  <2>4. m.age = s[x].age /\ m.ended = s[x].ended /\ m.on = s[x].on
    <3>1. CASE s[x].theirs
      BY <2>1, <3>1, RestartIs
    <3>2. CASE ~s[x].theirs
      BY <2>1, <3>2 DEF Session
    <3> QED BY <3>1, <3>2
  <2> HIDE DEF f, m
  <2>5. \A z \in Sides : /\ s'[z].age = s[z].age /\ s'[z].ended = s[z].ended
                         /\ s[z].on => s'[z].on
    BY <2>1, <2>3, <2>4 DEF Sessions
  <2> QED BY <2>2, <2>3, <2>5, PostCalm
<1>4. ASSUME UNCHANGED <<s, paused, up, down, link, wire, seat, hides>> PROVE CalmNow'
  BY <1>4 DEF CalmNow, CalmLink, Knows, Warm, Coming
<1>5. ASSUME NEW x \in Sides, Show(x) PROVE CalmNow'
  BY <1>4, <1>5 DEF Show
<1>6. CASE UNCHANGED turnVars
  BY <1>4, <1>6 DEF turnVars, linkVars
<1>7. ASSUME NEW x \in Sides PROVE ~Cut(x)
  <2>1. cuts \in Nat
    BY DEF TurnInv, Typed
  <2> QED BY <2>1 DEF Cut
<1>8. ASSUME NEW x \in Sides, Moves(x) PROVE CalmNow'
  BY <1>1, <1>2, <1>3, <1>8 DEF Moves
<1>9. ASSUME NEW x \in Sides, Passes(x) PROVE CalmNow'
  BY <1>9, HearCalm, RelayCalm DEF Passes
<1>10. ASSUME NEW x \in Sides, Links(x) PROVE CalmNow'
  BY <1>5, <1>10, NoneLost, TakeBackCalm DEF Links
<1>11. ASSUME NEW x \in Sides, Faults(x) PROVE CalmNow'
  BY <1>7, <1>11, HideCalm DEF Faults
<1> QED BY <1>6, <1>8, <1>9, <1>10, <1>11, ElapseCalm DEF TurnNext

\* Links are cut and windows hidden, and never fewer.
LEMMA FaultsAdd ==
  ASSUME TurnInv, [TurnNext]_turnVars
  PROVE  cuts' >= cuts /\ hides' >= hides
<1>1. cuts \in Nat /\ hides \in Nat
  BY DEF TurnInv, Typed
<1>2. ASSUME NEW x \in Sides, Moves(x) PROVE UNCHANGED <<cuts, hides>>
  BY <1>2 DEF Moves, Start, Rematch, Play
<1>3. ASSUME NEW x \in Sides, Passes(x) PROVE UNCHANGED <<cuts, hides>>
  <2>1. CASE Hear(x)
    BY <2>1 DEF Hear, HearGame, HearFriend, HearResumed, HearClosed, linkVars
  <2>2. CASE Relay(x)
    BY <2>2 DEF Relay
  <2> QED BY <1>3, <2>1, <2>2 DEF Passes
<1>4. ASSUME NEW x \in Sides, Links(x) PROVE UNCHANGED <<cuts, hides>>
  BY <1>4 DEF Links, RelayNotices, Expire, LinkNotices, Show, TakeBack, TurnedAway
<1>5. ASSUME NEW x \in Sides, Faults(x) PROVE cuts' >= cuts /\ hides' >= hides
  <2>1. (cuts' = cuts + 1 /\ hides' = hides) \/ (cuts' = cuts /\ hides' = hides + 1)
    BY <1>5 DEF Faults, Cut, Hide
  <2> QED BY <1>1, <2>1
<1>6. CASE Elapse
  BY <1>1, <1>6 DEF Elapse
<1>7. CASE UNCHANGED turnVars
  BY <1>1, <1>7 DEF turnVars, linkVars
<1> QED BY <1>1, <1>2, <1>3, <1>4, <1>5, <1>6, <1>7 DEF TurnNext

LEMMA CalmBegins ==
  ASSUME TurnInit
  PROVE  CalmNow
<1>1. ASSUME NEW x \in Sides PROVE CalmLink(x) /\ Knows(x) /\ Warm(x)
  <2>1. Other(x) \in Sides /\ DOMAIN <<>> = {} /\ Range(<<>>) = {}
    BY TwoSides, Nothing
  <2>2. s[x].ended = "no" /\ s[x].age = 0
    BY DEF TurnInit, NewSession
  <2> QED BY <2>1, <2>2 DEF TurnInit, CalmLink, Stays, Knows, Told, Warm
<1> QED BY <1>1 DEF CalmNow

\* While no link is cut, a side is told in time whether its friend is there, and hears from it.
THEOREM CalmHolds == TurnSpec => []Calm
<1>1. TurnInit => Calm
  BY CalmBegins DEF Calm
<1>2. TurnInv /\ Calm /\ [TurnNext]_turnVars => Calm'
  <2>1. SUFFICES ASSUME TurnInv, Calm, [TurnNext]_turnVars, cuts' = 0, hides' < SILENCE
                 PROVE  CalmNow'
    BY DEF Calm
  <2>2. cuts \in Nat /\ hides \in Nat /\ SILENCE \in Nat
    BY <2>1, TurnAssumption DEF TurnInv, Typed
  <2>3. TurnInv'
    BY <2>1, NextRight
  <2>4. hides' \in Nat
    BY <2>3 DEF TurnInv, Typed
  <2>5. cuts = 0 /\ hides < SILENCE
    BY <2>1, <2>2, <2>4, FaultsAdd
  <2> QED BY <2>1, <2>5, StepCalm DEF Calm
<1> QED BY <1>1, <1>2, TurnInvariant, PTL DEF TurnSpec

(***************************************************************************)
(* A session that ends for silence has had its link cut, or windows were   *)
(* hidden as often as its silence is long: no seat taken back, no length   *)
(* of thought and no fewer hidings are taken for a lost link.              *)
(***************************************************************************)
THEOREM NoneLostInVain == TurnSpec => []NotLostInVain
<1>1. Calm => NotLostInVain
  BY DEF Calm, CalmNow, CalmLink, NotLostInVain
<1> QED BY <1>1, CalmHolds, PTL
=============================================================================
