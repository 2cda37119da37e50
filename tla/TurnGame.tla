------------------------------ MODULE TurnGame ------------------------------
(***************************************************************************)
(* A game of turns over the relay (native/core: games/connect4_session.rs; *)
(* games/ultimate_session.rs is the same session over other rules).  Two   *)
(* sessions with a link each (peer_online.rs, as PageLink has it), the     *)
(* lobby's clock that stands still while a side is away, and the relay     *)
(* between them (as Room has it).  Frames are lost on a link that is cut   *)
(* and on a socket its machine has dropped.  A unit of time is longer than *)
(* KEEP_MS and HI_MS, and than a frame takes over a link that works.  Both *)
(* sides run the same game and version: hellos of another, and the bye     *)
(* that only they are answered with, are left out.                         *)
(***************************************************************************)
EXTENDS Connect4, Sequences

CONSTANTS
  SILENCE,     \* C4_SILENCE_MS
  MaxGames,    \* bound: the games played
  MaxFaults    \* bound: how often a link is cut or a window hidden

ASSUME TurnAssumption == {SILENCE, MaxGames} \subseteq Nat \ {0} /\ MaxFaults \in Nat

VARIABLES
  s,        \* each side's session
  link,     \* each side's link: "on", "away", "asking" (for its seat), "off"
  wire,     \* whether what the relay sends a side reaches it
  paused,   \* whether the lobby has stopped the game's clock
  hid,      \* whether the side's window is hidden
  outbox,   \* what a side keeps for when its seat is back
  up, down, \* the frames from and to each side
  seat,     \* each seat as the relay has it: "on", "away", "gone"
  kept,     \* what the relay keeps for a side that is away
  cuts, hides

linkVars == <<link, wire, hid, outbox, seat, kept, cuts, hides>>
turnVars == <<s, paused, up, down, linkVars>>

-----------------------------------------------------------------------------
(* Values *)

NewSession ==
  [on |-> FALSE, game |-> 0, state |-> NewBoard(FirstFor(0)), greeted |-> FALSE, age |-> 0,
   mine |-> FALSE, theirs |-> FALSE, wins |-> [x \in Sides |-> 0], ended |-> "no"]

Hi(ok) == [t |-> "hi", ok |-> ok]
Move(g, n, c) == [t |-> "move", g |-> g, n |-> n, c |-> c]
Again(g) == [t |-> "again", g |-> g]
Say(t) == [t |-> t]    \* keep, and what the relay and the links say

Live(x) == s[x].on /\ s[x].ended = "no"

-----------------------------------------------------------------------------
(* The session's parts *)

\* apply: a disc the board allows; the winner's games are counted on both sides
Apply(m, c, who) ==
  LET st == Drop(m.state, c, who) IN
  [m EXCEPT !.state = st, !.wins[who] = IF st.winner = who THEN @ + 1 ELSE @]

\* mutant: the first turn of the game before
RestartFirst(m) ==
  [m EXCEPT !.game = @ + 1, !.state = NewBoard(FirstFor(m.game)), !.mine = FALSE, !.theirs = FALSE]

\* restart
Restart(m) ==
  [m EXCEPT !.game = @ + 1, !.state = NewBoard(FirstFor(m.game + 1)), !.mine = FALSE,
            !.theirs = FALSE]

\* post, over what the link is: OnlinePeer's send
Post(x, f) ==
  /\ up' = [up EXCEPT ![x] = IF link[x] = "on" /\ wire[x] THEN Append(@, f) ELSE @]
  /\ outbox' = [outbox EXCEPT ![x] = IF link[x] \in {"away", "asking"} THEN Append(@, f) ELSE @]
PostNothing == UNCHANGED <<up, outbox>>

-----------------------------------------------------------------------------
(* What a player does *)

\* the lobby opens the board
Start(x) ==
  /\ ~s[x].on
  /\ s' = [s EXCEPT ![x].on = TRUE]
  /\ Post(x, Hi(FALSE))
  /\ UNCHANGED <<paused, down, link, wire, hid, seat, kept, cuts, hides>>

Play(x, c) ==
  /\ Live(x) /\ s[x].greeted /\ CanDrop(s[x].state, c, x)
  /\ s' = [s EXCEPT ![x] = Apply(@, c, x)]
  /\ Post(x, Move(s[x].game, s[x].state.moves, c))
  /\ UNCHANGED <<paused, down, link, wire, hid, seat, kept, cuts, hides>>

\* mutant: whoever asks restarts
RematchAlone(x) ==
  /\ Live(x) /\ IsOver(s[x].state) /\ ~s[x].mine
  /\ s[x].game + 1 < MaxGames
  /\ s' = [s EXCEPT ![x] = Restart(@)]
  /\ Post(x, Again(s[x].game))
  /\ UNCHANGED <<paused, down, link, wire, hid, seat, kept, cuts, hides>>

Rematch(x) ==
  /\ Live(x) /\ IsOver(s[x].state) /\ ~s[x].mine
  /\ s[x].game + 1 < MaxGames
  /\ s' = [s EXCEPT ![x] = IF @.theirs THEN Restart(@) ELSE [@ EXCEPT !.mine = TRUE]]
  /\ Post(x, Again(s[x].game))
  /\ UNCHANGED <<paused, down, link, wire, hid, seat, kept, cuts, hides>>

-----------------------------------------------------------------------------
(* receive *)

ReceiveHi(x, f) ==
  /\ f.t = "hi"
  /\ s' = [s EXCEPT ![x].age = 0, ![x].greeted = TRUE]
  /\ IF f.ok THEN PostNothing ELSE Post(x, Hi(TRUE))

\* only the next move of this game, from the side whose turn it is
NextMove(m, f) == m.greeted /\ f.g = m.game /\ f.n = m.state.moves

ReceiveMove(x, f) ==
  /\ f.t = "move"
  /\ LET m == [s[x] EXCEPT !.age = 0] IN
     s' = [s EXCEPT ![x] =
            IF NextMove(m, f) /\ CanDrop(m.state, f.c, Other(x))
              THEN Apply(m, f.c, Other(x)) ELSE m]
  /\ PostNothing

\* mutant: the ask of a side that has asked is not waited for
AskAlone(m, f) == f.g = m.game /\ IsOver(m.state) /\ ~m.theirs /\ ~m.mine

\* only an ask for this game, made at its end
AskCounts(m, f) == f.g = m.game /\ IsOver(m.state) /\ ~m.theirs

ReceiveAgain(x, f) ==
  /\ f.t = "again"
  /\ LET m == [s[x] EXCEPT !.age = 0] IN
     s' = [s EXCEPT ![x] = IF ~AskCounts(m, f) THEN m
                           ELSE IF m.mine THEN Restart(m) ELSE [m EXCEPT !.theirs = TRUE]]
  /\ PostNothing

ReceiveKeep(x, f) == f.t = "keep" /\ s' = [s EXCEPT ![x].age = 0] /\ PostNothing

Receive(x, f) ==
  \/ Live(x) /\ (ReceiveHi(x, f) \/ ReceiveMove(x, f) \/ ReceiveAgain(x, f) \/ ReceiveKeep(x, f))
  \/ ~Live(x) /\ f.t \in {"hi", "move", "again", "keep"} /\ UNCHANGED s /\ PostNothing

-----------------------------------------------------------------------------
(* What a link hears from the relay (OnlinePeer's receive, the lobby's heard) *)

Clock(x, stopped) == paused' = [paused EXCEPT ![x] = stopped]

HearGame(x, f) ==
  /\ Receive(x, f)
  /\ UNCHANGED <<paused, link, wire, hid, seat, kept, cuts, hides>>

HearFriend(x, f) ==
  /\ f.t \in {"friendAway", "friendBack"} /\ Clock(x, f.t = "friendAway")
  /\ UNCHANGED <<s, up, linkVars>>

HearResumed(x, f) ==
  /\ f.t = "resumed" /\ Clock(x, FALSE)
  /\ link' = [link EXCEPT ![x] = "on"]
  /\ up' = [up EXCEPT ![x] = @ \o outbox[x]]
  /\ outbox' = [outbox EXCEPT ![x] = <<>>]
  /\ UNCHANGED <<s, wire, hid, seat, kept, cuts, hides>>

HearClosed(x, f) ==
  /\ f.t = "closed" /\ Clock(x, FALSE)
  /\ s' = [s EXCEPT ![x].ended = IF @ = "no" THEN "closed" ELSE @]
  /\ link' = [link EXCEPT ![x] = "off"]
  /\ outbox' = [outbox EXCEPT ![x] = <<>>]
  /\ UNCHANGED <<up, wire, hid, seat, kept, cuts, hides>>

Hear(x) ==
  /\ link[x] \in {"on", "asking"} /\ down[x] # <<>>
  /\ down' = [down EXCEPT ![x] = Tail(@)]
  /\ LET f == Head(down[x]) IN
     HearGame(x, f) \/ HearFriend(x, f) \/ HearResumed(x, f) \/ HearClosed(x, f)

-----------------------------------------------------------------------------
(* The relay (webSocketMessage, drop, leave, /back) *)

\* other.send: over a socket the relay has for the side, whether or not it still works
ToOther(y, f) == down' = [down EXCEPT ![y] = IF seat[y] = "on" /\ wire[y] THEN Append(@, f) ELSE @]

Forward(x, f) ==
  /\ f.t \in {"hi", "move", "again", "keep"}
  /\ ToOther(Other(x), f)
  /\ kept' = [kept EXCEPT ![Other(x)] = IF seat[Other(x)] = "away" THEN Append(@, f) ELSE @]
  /\ UNCHANGED seat

\* a socket closed, or found dead, without 1000: the seat is held
Hold(x) ==
  /\ seat' = [seat EXCEPT ![x] = IF @ = "on" THEN "away" ELSE @]
  /\ ToOther(Other(x), Say("friendAway"))
  /\ UNCHANGED kept

\* closed with 1000: the game ends
EndGame(x) ==
  /\ seat' = [y \in Sides |-> "gone"]
  /\ ToOther(Other(x), Say("closed"))
  /\ kept' = [y \in Sides |-> <<>>]

Relay(x) ==
  /\ up[x] # <<>>
  /\ up' = [up EXCEPT ![x] = Tail(@)]
  /\ LET f == Head(up[x]) IN
     \/ Forward(x, f)
     \/ f.t = "hide" /\ Hold(x)
     \/ f.t = "leave" /\ EndGame(x)
  /\ UNCHANGED <<s, paused, link, wire, hid, outbox, cuts, hides>>

\* the relay finds a side's socket dead
RelayNotices(x) ==
  /\ seat[x] = "on" /\ ~wire[x] /\ up[x] = <<>>
  /\ Hold(x)
  /\ UNCHANGED <<s, paused, up, link, wire, hid, outbox, cuts, hides>>

\* the time a seat is held is up: its player gave up before it
Expire(x) ==
  /\ seat[x] = "away" /\ link[x] = "off"
  /\ EndGame(x)
  /\ UNCHANGED <<s, paused, up, link, wire, hid, outbox, cuts, hides>>

-----------------------------------------------------------------------------
(* Links: cut, noticed, hidden, shown, taken back *)

Cut(x) ==
  /\ cuts + hides < MaxFaults /\ link[x] = "on" /\ wire[x]
  /\ cuts' = cuts + 1
  /\ wire' = [wire EXCEPT ![x] = FALSE]
  /\ up' = [up EXCEPT ![x] = <<>>] /\ down' = [down EXCEPT ![x] = <<>>]
  /\ UNCHANGED <<s, paused, link, hid, outbox, seat, kept, hides>>

\* lose: closed or found dead
LinkNotices(x) ==
  /\ link[x] = "on" /\ ~wire[x]
  /\ link' = [link EXCEPT ![x] = "away"] /\ Clock(x, TRUE)
  /\ UNCHANGED <<s, up, down, wire, hid, outbox, seat, kept, cuts, hides>>

\* step_away: what was on its way down the socket is no longer heard
Hide(x) ==
  /\ cuts + hides < MaxFaults /\ link[x] = "on" /\ ~hid[x]
  /\ hides' = hides + 1 /\ hid' = [hid EXCEPT ![x] = TRUE]
  /\ link' = [link EXCEPT ![x] = "away"] /\ Clock(x, TRUE)
  /\ up' = [up EXCEPT ![x] = IF wire[x] THEN Append(@, Say("hide")) ELSE @]
  /\ wire' = [wire EXCEPT ![x] = FALSE]
  /\ down' = [down EXCEPT ![x] = <<>>]
  /\ UNCHANGED <<s, outbox, seat, kept, cuts>>

Show(x) ==
  /\ hid[x]
  /\ hid' = [hid EXCEPT ![x] = FALSE]
  /\ UNCHANGED <<s, paused, up, down, link, wire, outbox, seat, kept, cuts, hides>>

\* the close of a link that another has replaced is not heeded
Replaced(q) == IF q # <<>> /\ q[Len(q)].t = "hide" THEN SubSeq(q, 1, Len(q) - 1) ELSE q

\* /back with the seat's token: what was kept is handed over in order.  It may overtake what is
\* still up the old link, which the relay passes on all the same.
TakeBack(x) ==
  /\ link[x] = "away" /\ ~hid[x] /\ seat[x] # "gone"
  /\ seat' = [seat EXCEPT ![x] = "on"] /\ wire' = [wire EXCEPT ![x] = TRUE]
  /\ link' = [link EXCEPT ![x] = "asking"]
  /\ up' = [up EXCEPT ![x] = Replaced(@)]
  /\ kept' = [kept EXCEPT ![x] = <<>>]
  /\ LET y == Other(x)
         there == seat[y] = "on"
         handed == <<Say("resumed")>> \o kept[x]
     IN down' = [down EXCEPT ![x] = IF there THEN handed ELSE Append(handed, Say("friendAway")),
                             ![y] = IF there /\ wire[y] THEN Append(@, Say("friendBack")) ELSE @]
  /\ UNCHANGED <<s, paused, hid, outbox, cuts, hides>>

\* /back to a game that is over
TurnedAway(x) ==
  /\ link[x] = "away" /\ ~hid[x] /\ seat[x] = "gone"
  /\ link' = [link EXCEPT ![x] = "off"] /\ Clock(x, FALSE)
  /\ s' = [s EXCEPT ![x].ended = IF @ = "no" THEN "closed" ELSE @]
  /\ outbox' = [outbox EXCEPT ![x] = <<>>]
  /\ UNCHANGED <<up, down, wire, hid, seat, kept, cuts, hides>>

-----------------------------------------------------------------------------
(* Time *)

\* tick, where the clock runs: too long a silence, or hi again, or keep
Ticks(x) == Live(x) /\ ~paused[x]
Silent(x) == Ticks(x) /\ s[x].age + 1 > SILENCE
Warms(x) == IF s[x].greeted THEN Say("keep") ELSE Hi(FALSE)

\* mutant: a side that has been greeted says no more
OnlyHi(x) ==
  IF ~(Ticks(x) /\ wire[x] /\ (Silent(x) \/ ~s[x].greeted)) THEN up[x]
  ELSE Append(up[x], IF Silent(x) THEN Say("leave") ELSE Warms(x))

\* a session that ends closes its link with 1000
Posted(x) ==
  IF ~(Ticks(x) /\ wire[x]) THEN up[x]
  ELSE Append(up[x], IF Silent(x) THEN Say("leave") ELSE Warms(x))

Elapse ==
  /\ \A x \in Sides : s[x].on /\ up[x] = <<>> /\ (link[x] \in {"on", "asking"} => down[x] = <<>>)
  /\ \E x \in Sides : Ticks(x)
  /\ s' = [x \in Sides |-> IF Silent(x) THEN [s[x] EXCEPT !.ended = "lost"]
                           ELSE IF Ticks(x) THEN [s[x] EXCEPT !.age = @ + 1] ELSE s[x]]
  /\ link' = [x \in Sides |-> IF Silent(x) THEN "off" ELSE link[x]]
  /\ up' = [x \in Sides |-> Posted(x)]
  /\ UNCHANGED <<paused, down, wire, hid, outbox, seat, kept, cuts, hides>>

-----------------------------------------------------------------------------
TurnInit ==
  /\ s = [x \in Sides |-> NewSession]
  /\ link = [x \in Sides |-> "on"] /\ seat = [x \in Sides |-> "on"]
  /\ wire = [x \in Sides |-> TRUE]
  /\ paused = [x \in Sides |-> FALSE] /\ hid = [x \in Sides |-> FALSE]
  /\ outbox = [x \in Sides |-> <<>>] /\ kept = [x \in Sides |-> <<>>]
  /\ up = [x \in Sides |-> <<>>] /\ down = [x \in Sides |-> <<>>]
  /\ cuts = 0 /\ hides = 0

Moves(x) == \/ Start(x) \/ Rematch(x) \/ \E c \in Columns : Play(x, c)
Passes(x) == Hear(x) \/ Relay(x)
Links(x) == RelayNotices(x) \/ Expire(x) \/ LinkNotices(x) \/ Show(x) \/ TakeBack(x) \/ TurnedAway(x)
Faults(x) == Cut(x) \/ Hide(x)

TurnNext == Elapse \/ \E x \in Sides : Moves(x) \/ Passes(x) \/ Links(x) \/ Faults(x)

TurnSpec == TurnInit /\ [][TurnNext]_turnVars

(***************************************************************************)
(* Frames arrive over links that work, boards open, time passes, a cut     *)
(* link is noticed, a hidden window is shown and asks for its seat.        *)
(***************************************************************************)
TurnFairSpec ==
  /\ TurnSpec /\ WF_turnVars(Elapse)
  /\ \A x \in Sides :
       /\ WF_turnVars(Start(x)) /\ WF_turnVars(Hear(x)) /\ WF_turnVars(Relay(x))
       /\ WF_turnVars(Links(x))

-----------------------------------------------------------------------------
(* Properties *)

Types == {"hi", "move", "again", "keep", "hide", "leave",
          "friendAway", "friendBack", "resumed", "closed"}

(***************************************************************************)
(* The fields are of their types; and a clock stands still while its own   *)
(* side is away, so that no session counts silence it could not have heard *)
(* through.                                                                *)
(***************************************************************************)
TurnTypeOK ==
  /\ \A x \in Sides :
       /\ s[x].game \in 0..(MaxGames - 1) /\ s[x].state.moves \in 0..(COLS * ROWS)
       /\ s[x].age \in 0..SILENCE /\ s[x].ended \in {"no", "lost", "closed"}
       /\ s[x].wins \in [Sides -> 0..MaxGames]
       /\ link[x] \in {"on", "away", "asking", "off"} /\ seat[x] \in {"on", "away", "gone"}
       /\ \A q \in {up[x], down[x], kept[x], outbox[x]} : \A i \in DOMAIN q : q[i].t \in Types
       /\ Live(x) /\ link[x] # "on" => paused[x]
  /\ {cuts, hides} \subseteq 0..MaxFaults

\* the session that is further on
Later(m, o) == m.game > o.game \/ (m.game = o.game /\ m.state.moves >= o.state.moves)
Front == IF Later(s["host"], s["guest"]) THEN s["host"] ELSE s["guest"]
Back == IF Later(s["host"], s["guest"]) THEN s["guest"] ELSE s["host"]

(***************************************************************************)
(* Both sides see one game, the one that is behind by a single step: a     *)
(* disc, or the new game it has itself asked for; and where they are       *)
(* level, their scores are the same.  Whatever is cut, hidden or lost.     *)
(***************************************************************************)
BoardsAgree ==
  \/ /\ Front.game = Back.game
     /\ \/ Back.state = Front.state /\ Back.wins = Front.wins
        \/ \E x \in Sides, c \in Columns :
             CanDrop(Back.state, c, x) /\ Front.state = Drop(Back.state, c, x)
  \/ /\ Front.game = Back.game + 1
     /\ IsOver(Back.state) /\ Back.mine /\ ~Back.theirs

(***************************************************************************)
(* It is never both sides' turn: two discs cannot cross on the way.        *)
(***************************************************************************)
OneTurn ==
  ~ \A x \in Sides : \E c \in Columns : Live(x) /\ CanDrop(s[x].state, c, x)

(***************************************************************************)
(* No session ends for silence while both links work: hiding a window,     *)
(* coming back and thinking for long are never taken for a lost link.  (A  *)
(* window that hides loses what is on its way to it, and one that comes    *)
(* back has heard nothing by it: so said of fewer hidings than the silence *)
(* a session waits for has units.)                                         *)
(***************************************************************************)
NotLostInVain ==
  cuts = 0 /\ hides < SILENCE => \A x \in Sides : s[x].ended # "lost"

\* the two sessions, as far as the one that is further on
Game == INSTANCE OneGame WITH game <- Front.game, state <- Front.state

(***************************************************************************)
(* The two sessions and all that is between them play one game after       *)
(* another by the rules, with no side in charge.                           *)
(***************************************************************************)
PlaysOneGame == Game!GameSpec

Level == s["host"].game = s["guest"].game /\ s["host"].state = s["guest"].state
Ended == \E x \in Sides : s[x].ended # "no"

(***************************************************************************)
(* While no link is cut and no window hidden, every disc and every ask     *)
(* reaches the other side.                                                 *)
(***************************************************************************)
MovesArrive == [](cuts = 0 /\ hides = 0) => []<>(Level \/ Ended)
(***************************************************************************)
(* The two boards are one game, with one side at most to move.             *)
(***************************************************************************)
InOneGame == TurnTypeOK /\ BoardsAgree /\ OneTurn
=============================================================================
