------------------------------- MODULE Trails -------------------------------
(***************************************************************************)
(* Two sides of an online trails match (native/core: games/trails/         *)
(* session.rs), in lockstep: both run the same round and swap only their   *)
(* turns, each fixed `delay` ticks ahead.  Every message repeats the       *)
(* frames not yet acknowledged; the guest's running hash lets the host     *)
(* find that the two differ and send its whole game, a snapshot, in a new  *)
(* epoch.  The link loses messages and lets them overtake each other.      *)
(*                                                                         *)
(* A tick's hash stands for the cells gone through since the round began:  *)
(* two that differ are never the same number.  Of time, only this is kept: *)
(* a message is never as old as the pause between two rounds or as         *)
(* RESEND_MS, nor a page held up as long as a count.  The hello, the pings *)
(* that pick the delay, leaving and the silence that ends a game are left  *)
(* out.                                                                    *)
(***************************************************************************)
EXTENDS TrailsRound, FiniteSets, FiniteSetsExt

CONSTANTS
  MAX_FRAMES,   \* frames one message may carry
  QUEUE_MAX,    \* turns waiting to be taken
  HASH_EVERY,   \* ticks between two hashes of the guest
  Keys,         \* the turns pressed: a side and a way
  Delays,       \* the delays the host may pick
  CATCH_UP,     \* bound: the ticks of the clock one frame of the page may be late by
  MaxRound,     \* bound: the number of the last round
  MaxTurns,     \* bound: the turns pressed
  MaxFaults,    \* bound: messages lost or overtaken, disagreements
  MaxFlight     \* bound: the messages one way above which a side's clock waits

ASSUME TrailsAssumption ==
  /\ {MAX_FRAMES, QUEUE_MAX, HASH_EVERY, CATCH_UP, MaxFlight} \subseteq Nat \ {0}
  /\ Keys \subseteq Player \X Dir
  /\ Delays \subseteq Nat \ {0} /\ Delays # {}
  /\ \A d \in Delays : 3 * d <= MAX_FRAMES
  /\ {MaxRound, MaxTurns, MaxFaults} \subseteq Nat

VARIABLES
  side,     \* each side's session
  wire,     \* the messages to each side, oldest first
  presses,  \* the turns pressed so far
  faults,   \* the faults so far
  drifted   \* the epoch in which the guest was made to differ, or was taken back a round

trailsVars == <<side, wire, presses, faults, drifted>>

-----------------------------------------------------------------------------
(* Values *)

Host == 1
Guest == 2
None == <<>>
Phases == {"wait", "count", "run", "point", "over"}

NewSession ==
  [epoch |-> 0, r |-> -1, delay |-> 2, score |-> <<0, 0>>,
   round |-> NewRound, base |-> None, phase |-> "wait", again |-> [mine |-> FALSE, theirs |-> FALSE],
   mine |-> <<>>, theirs |-> <<>>, acked |-> -1, queue |-> <<>>, heading |-> 1,
   hashDue |-> None, check |-> None, dirty |-> FALSE, prev |-> None, out |-> <<>>]

\* Messages posted by a handler leave with it.
Post(s, m) == [s EXCEPT !.out = Append(@, m)]

\* My frames for the ticks up to Sealed are fixed; theirs are heard with none missing below TheirNext.
Sealed(s) == Len(s.mine) - 1
TheirNext(s) == CHOOSE t \in s.round.tick .. s.round.tick + Cardinality(DOMAIN s.theirs) :
                  t \notin DOMAIN s.theirs /\ \A u \in s.round.tick .. t - 1 : u \in DOMAIN s.theirs
Straights(n) == [i \in 1 .. n |-> Straight]

\* The running hash after a tick: the round's number, its score and every position since.
HashOf(base, round, tick) ==
  <<base, [p \in Player |-> SubSeq(round.cycles[p].path, 1, Min({tick + 1, Len(round.cycles[p].path)}))],
    IF tick = round.tick /\ round.result # Going
      THEN <<round.result, round.cycles[1].dir, round.cycles[2].dir>> ELSE <<>> >>
HashAt(s, tick) == IF tick > s.round.tick THEN None ELSE HashOf(s.base, s.round, tick)

-----------------------------------------------------------------------------
(* The round *)

\* A new round, or one adopted, starts with nothing sealed, heard or turned beyond its tick.
Reset(s, p, r, round, base) ==
  [s EXCEPT
     !.prev = IF s.r >= 0 THEN <<[r |-> s.r, base |-> s.base, round |-> s.round, mine |-> s.mine]>> ELSE @,
     !.r = r, !.round = round, !.base = base, !.heading = round.cycles[p].dir,
     !.mine = Straights(round.tick), !.theirs = <<>>, !.acked = round.tick - 1, !.queue = <<>>,
     !.hashDue = IF p = Guest THEN <<round.tick, HashOf(base, round, round.tick)>> ELSE None,
     !.check = None]

\* mutant: what was acknowledged of the last round counts in this one
AckedKept(s, p) ==
  [Reset(s, p, s.r + 1, NewRound, <<s.r + 1, s.score>>) EXCEPT !.phase = "count", !.acked = s.acked]

NextRound(s, p) ==
  [Reset(s, p, s.r + 1, NewRound, <<s.r + 1, s.score>>) EXCEPT !.phase = "count"]

\* My frames are fixed up to a tick: each takes the oldest turn waiting, or none.
SealTo(s, to) ==
  LET n     == to - Sealed(s)
      taken == SubSeq(s.queue, 1, Min({n, Len(s.queue)}))
  IN  IF n <= 0 THEN s
      ELSE [s EXCEPT !.mine = @ \o taken \o Straights(n - Len(taken)),
                     !.queue = SubSeq(@, Len(taken) + 1, Len(@)),
                     !.heading = IF taken = <<>> THEN @ ELSE Last(taken),
                     !.dirty = TRUE]

\* A side steps with its own frame for the tick and the other's.
FramesAt(s, p, tick) ==
  [q \in Player |-> IF q # p THEN s.theirs[tick]
                    ELSE IF tick > Sealed(s) THEN Straight ELSE s.mine[tick + 1]]

\* The whole game as the host has it; what the guest sent before it counts for nothing.
Snapshot(s) ==
  LET tick    == s.round.tick
      running == s.phase \in {"run", "count"}
      mine    == IF running THEN SubSeq(s.mine, tick + 1, Min({Len(s.mine), tick + MAX_FRAMES})) ELSE <<>>
      heard   == IF running THEN Min({TheirNext(s) - tick, MAX_FRAMES}) ELSE 0
      snap    == [type |-> "snap", e |-> s.epoch + 1, r |-> s.r, d |-> s.delay, score |-> s.score,
                  phase |-> s.phase, round |-> s.round, base |-> s.base,
                  frames |-> <<mine, [i \in 1 .. heard |-> s.theirs[tick + i - 1]]>>]
  IN  Post([s EXCEPT !.epoch = @ + 1, !.check = None,
                     !.theirs = [t \in {u \in DOMAIN @ : u < tick + heard} |-> @[t]]], snap)

\* The guest's hash, waiting for the host to get to its tick, is compared there.
Checked(s) ==
  LET tick == s.round.tick
  IN  IF s.check = None \/ (s.check[1] # tick /\ s.round.result = Going) THEN s
      ELSE IF s.check = <<tick, HashAt(s, tick)>> THEN [s EXCEPT !.check = None]
      ELSE Snapshot(s)

\* One tick of the round, with what a result, a hash due or a hash waiting comes to.
StepOnce(s, p) ==
  LET round == Step(s.round, FramesAt(s, p, s.round.tick))
      score == ScoreRound(s.score, round.result)
      tick  == round.tick
      hash  == <<tick, HashOf(s.base, round, tick)>>
      moved == [s EXCEPT !.round = round, !.score = score]
      over  == [moved EXCEPT !.phase = IF MatchWon(score) THEN "over" ELSE "point",
                             !.hashDue = IF p = Guest THEN hash ELSE @,
                             !.dirty = @ \/ p = Guest]
      on    == [SealTo(moved, tick + s.delay - 1) EXCEPT
                  !.hashDue = IF p = Guest /\ tick % HASH_EVERY = 0 THEN hash ELSE @]
  IN  Checked(IF round.result = Going THEN on ELSE over)

CanStep(s) == s.phase = "run" /\ s.round.tick \in DOMAIN s.theirs

\* As many ticks as the clock is behind by, until a frame is missing.
Steps(s, p, n) ==
  LET at[k \in 0 .. n] == IF k = 0 THEN s
                          ELSE IF CanStep(at[k - 1]) THEN StepOnce(at[k - 1], p) ELSE at[k - 1]
  IN  at[n]

-----------------------------------------------------------------------------
(* Keeping the two in step *)

\* A match begins with a snapshot of its first round.
Start(s, d) ==
  Snapshot(NextRound([s EXCEPT !.delay = d, !.score = <<0, 0>>,
                               !.again = [mine |-> FALSE, theirs |-> FALSE]], Host))

\* The guest's hash against the host's own for that tick, of this round or of the one before.
Verify(s, r, h) ==
  IF r = s.r /\ h[1] > s.round.tick /\ s.round.result = Going THEN [s EXCEPT !.check = h]
  ELSE LET same == \/ r = s.r /\ HashAt(s, h[1]) = h[2]
                   \/ /\ r # s.r /\ s.prev # None
                      /\ s.prev[1].r = r /\ h[1] <= s.prev[1].round.tick
                      /\ HashOf(s.prev[1].base, s.prev[1].round, h[1]) = h[2]
                   \/ r = s.r + 1 /\ s.phase = "point"
       IN  IF same THEN s ELSE Snapshot(s)

\* A guest still in an old epoch, once the snapshot has had time to land, never got it.
Stale(s, e, late) == IF s.phase # "wait" /\ e < s.epoch /\ late THEN Snapshot(s) ELSE s

\* The guest takes the host's game whole, and fixes its own frames from there.
Adopt(s, m) ==
  LET tick   == m.round.tick
      clean  == Reset(s, Guest, m.r, m.round, m.base)
      taken  == [clean EXCEPT
                   !.epoch = m.e, !.delay = m.d, !.score = m.score, !.phase = m.phase,
                   !.theirs = [t \in tick .. tick + Len(m.frames[Host]) - 1 |-> m.frames[Host][t - tick + 1]],
                   !.mine = @ \o m.frames[Guest],
                   !.heading = FoldLeft(LAMBDA h, f : IF f # Straight /\ Turns(h, f) THEN f ELSE h,
                                        @, m.frames[Guest]),
                   !.acked = tick + Len(m.frames[Guest]) - 1,
                   !.again = IF m.phase = "over" THEN @ ELSE [mine |-> FALSE, theirs |-> FALSE]]
  IN  [(IF m.phase = "run" THEN SealTo(taken, tick + m.d - 1) ELSE taken) EXCEPT !.dirty = TRUE]

\* My frames not acknowledged, what is held of theirs, and a hash if one is due.
SendFrames(s) ==
  LET from == Max({s.acked + 1, Sealed(s) - MAX_FRAMES + 1, 0})
      m    == [type |-> "frames", e |-> s.epoch, r |-> s.r, f |-> from,
               i |-> SubSeq(s.mine, from + 1, Len(s.mine)), a |-> TheirNext(s) - 1, h |-> s.hashDue]
  IN  IF s.phase = "wait" THEN [s EXCEPT !.dirty = FALSE]
      ELSE Post([s EXCEPT !.dirty = FALSE, !.hashDue = None], m)

-----------------------------------------------------------------------------
(* Messages *)

\* mutant: what the other side holds is not noted
Unnoted(s, m) ==
  LET limit == s.round.tick + MAX_FRAMES
      new   == {t \in (m.f .. m.f + Len(m.i) - 1) \ DOMAIN s.theirs : t >= s.round.tick /\ t < limit}
  IN  [s EXCEPT !.theirs = [t \in new \cup DOMAIN @ |-> IF t \in new THEN m.i[t - m.f + 1] ELSE @[t]],
                !.dirty = @ \/ (s.round.result # Going /\ m.a < Sealed(s))]

\* Frames of this round are kept as first heard, none from far beyond where the round is.
Taken(s, m) ==
  LET limit == s.round.tick + MAX_FRAMES
      new   == {t \in (m.f .. m.f + Len(m.i) - 1) \ DOMAIN s.theirs : t >= s.round.tick /\ t < limit}
      held  == [s EXCEPT !.acked = Max({@, Min({m.a, Sealed(s)})}),
                         !.theirs = [t \in new \cup DOMAIN @ |-> IF t \in new THEN m.i[t - m.f + 1] ELSE @[t]]]
  IN  [held EXCEPT !.dirty = @ \/ (s.round.result # Going /\ m.a < Sealed(s))]

\* mutant: a round that is over is over
NoLastRound(s, m) == s

\* A side stuck in the round before gets its last frames again.
LastRound(s, m) ==
  LET sealed == Len(s.prev[1].mine) - 1
      from   == Max({m.a + 1, sealed - MAX_FRAMES + 1, 0})
  IN  Post(s, [type |-> "frames", e |-> s.epoch, r |-> m.r, f |-> from,
               i |-> SubSeq(s.prev[1].mine, from + 1, sealed + 1), a |-> -1, h |-> None])

\* mutant: frames are taken whatever the epoch they were sent in
AnyEpoch(s, p, m, late) ==
  LET heard == IF m.r = s.r THEN Taken(s, m) ELSE s
  IN  IF s.phase = "wait" THEN s ELSE IF m.h # None /\ p = Host THEN Verify(heard, m.r, m.h) ELSE heard

\* Frames of another epoch count for nothing, but tell the host who is behind.
HearFrames(s, p, m, late) ==
  LET heard == IF m.r = s.r THEN Taken(s, m)
               ELSE IF s.prev # None /\ s.prev[1].r = m.r /\ m.a < Len(s.prev[1].mine) - 1
                 THEN LastRound(s, m) ELSE s
  IN  IF m.e # s.epoch \/ s.phase = "wait" THEN IF p = Host THEN Stale(s, m.e, late) ELSE s
      ELSE IF m.h # None /\ p = Host THEN Verify(heard, m.r, m.h) ELSE heard

\* Only an ask made at the end of this match counts.
HearAgain(s, p, m, d) ==
  IF m.e # s.epoch \/ s.phase # "over" THEN s
  ELSE IF p = Host /\ s.again.mine THEN Start(s, d)
  ELSE [s EXCEPT !.again.theirs = TRUE]

Heard(s, p, m, late, d) ==
  CASE m.type = "keep" -> IF p = Host THEN Stale(s, m.e, late) ELSE s
    [] m.type = "frames" -> HearFrames(s, p, m, late)
    [] m.type = "snap" -> IF p = Guest /\ m.e > s.epoch THEN Adopt(s, m) ELSE s
    [] OTHER -> HearAgain(s, p, m, d)

-----------------------------------------------------------------------------
(* One frame of the page: n ticks of the clock have passed, or a timer has *)

\* The pause between rounds is over: it outlasts every message of the round, and a page held up.
PauseOver(s, p) ==
  LET o == side[Other(p)]
  IN  /\ s.r < MaxRound
      /\ \A q \in Player : \A i \in DOMAIN wire[q] :
           wire[q][i].type \in {"frames", "snap"} => wire[q][i].r > s.r
      /\ o.r = s.r /\ o.phase \in {"count", "run"} => o.phase = "run" /\ ~CanStep(o)

\* The count is over: it outlasts a page held up.
CountOver(s, p) == ~(side[Other(p)].r = s.r - 1 /\ side[Other(p)].phase = "point")

Turned(s, p, n, d) ==
  CASE s.phase = "wait" -> IF p = Host /\ n > 0 THEN Start(s, d) ELSE s
    [] s.phase = "point" -> IF n > 0 /\ PauseOver(s, p) THEN NextRound(s, p) ELSE s
    [] s.phase = "count" -> IF n > 0 /\ CountOver(s, p) THEN [SealTo(s, s.delay - 1) EXCEPT !.phase = "run"]
                            ELSE SealTo(s, Min({s.delay - 2, Sealed(s) + 1}))
    [] s.phase = "run" -> Steps(s, p, n)
    [] OTHER -> s

\* Held up for RESEND_MS: say so again, the guest with where it is stuck.
Nagged(s, p, late) ==
  IF s.phase = "run" /\ ~CanStep(s) /\ late
    THEN [s EXCEPT !.dirty = TRUE,
                   !.hashDue = IF p = Guest THEN <<s.round.tick, HashAt(s, s.round.tick)>> ELSE @]
    ELSE s

Said(s, p, late) ==
  IF s.dirty THEN SendFrames(s)
  ELSE IF late /\ p = Guest THEN Post(s, [type |-> "keep", e |-> s.epoch]) ELSE s

Ticked(s, p, n, late, d) ==
  Said(Nagged(Turned(s, p, n, d), p, late), p, late)

-----------------------------------------------------------------------------
(* The two sides and the link; two messages alike on their way count as one *)

Join(c, out) ==
  LET to[k \in 0 .. Len(out)] ==
        IF k = 0 THEN c ELSE IF out[k] \in Range(to[k - 1]) THEN to[k - 1] ELSE Append(to[k - 1], out[k])
  IN  to[Len(out)]

Sends(p, s) == side' = [side EXCEPT ![p] = [s EXCEPT !.out = <<>>]]

TrailsInit ==
  /\ side = [p \in Player |-> NewSession]
  /\ wire = [p \in Player |-> <<>>]
  /\ presses = 0 /\ faults = 0 /\ drifted = -1

Tick(p, n, late, d) ==
  LET s == Ticked(side[p], p, n, late, d)
      c == Join(wire[Other(p)], s.out)
  IN  /\ late => wire[Other(p)] = <<>>
      /\ Len(c) <= MaxFlight
      /\ Sends(p, s)
      /\ wire' = [wire EXCEPT ![Other(p)] = c]
      /\ UNCHANGED <<presses, faults, drifted>>

\* The guest has not got the newest snapshot and it is not on its way.
SnapLost == /\ side[Guest].epoch < side[Host].epoch
            /\ ~\E i \in DOMAIN wire[Guest] :
                  wire[Guest][i].type = "snap" /\ wire[Guest][i].e = side[Host].epoch

Receive(p, i, late, d) ==
  /\ i \in DOMAIN wire[p]
  /\ LET s == Heard(side[p], p, wire[p][i], late, d)
     IN  /\ Sends(p, s)
         /\ wire' = [wire EXCEPT ![p] = RemoveAt(@, i),
                                 ![Other(p)] = Join(@, s.out)]
         /\ drifted' = IF s.r < side[p].r THEN s.epoch ELSE drifted
  /\ UNCHANGED presses

Deliver(p, d) == Receive(p, 1, SnapLost, d) /\ UNCHANGED faults

\* A message overtakes the ones sent before it.
Overtake(p, i, d) == faults < MaxFaults /\ i > 1 /\ Receive(p, i, SnapLost, d) /\ faults' = faults + 1

Lose(p, i) ==
  /\ faults < MaxFaults /\ i \in DOMAIN wire[p]
  /\ wire' = [wire EXCEPT ![p] = RemoveAt(@, i)]
  /\ faults' = faults + 1
  /\ UNCHANGED <<side, presses, drifted>>

\* A frame the host never sent: from here the guest runs another round.
Drift ==
  LET s == side[Guest]
      f == (s.round.cycles[Host].dir + 1) % 4
  IN  /\ faults < MaxFaults /\ s.phase = "run" /\ s.epoch = side[Host].epoch
      /\ side' = [side EXCEPT ![Guest].theirs =
                    [t \in {TheirNext(s)} \cup DOMAIN @ |-> IF t = TheirNext(s) THEN f ELSE @[t]]]
      /\ faults' = faults + 1 /\ drifted' = s.epoch
      /\ UNCHANGED <<wire, presses>>

\* A turn is queued if it turns from where the last one leads.
PressTurn(p, dir) ==
  LET s == side[p]
  IN  /\ presses < MaxTurns
      /\ s.phase \in {"count", "run"} /\ Len(s.queue) < QUEUE_MAX
      /\ Turns(IF s.queue = <<>> THEN s.heading ELSE Last(s.queue), dir)
      /\ side' = [side EXCEPT ![p].queue = Append(@, dir)]
      /\ presses' = presses + 1
      /\ UNCHANGED <<wire, faults, drifted>>

\* The host starts one when both have asked; until then the ask is sent.
Rematch(p, d) ==
  LET s == side[p]
      t == IF p = Host /\ s.again.theirs THEN Start(s, d)
           ELSE Post([s EXCEPT !.again.mine = TRUE], [type |-> "again", e |-> s.epoch])
  IN  /\ s.phase = "over" /\ ~s.again.mine /\ s.r < MaxRound
      /\ Sends(p, t)
      /\ wire' = [wire EXCEPT ![Other(p)] = Join(@, t.out)]
      /\ UNCHANGED <<presses, faults, drifted>>

TrailsNext ==
  \/ \E p \in Player, n \in 0 .. CATCH_UP, late \in BOOLEAN, d \in Delays : Tick(p, n, late, d)
  \/ \E p \in Player, d \in Delays : Deliver(p, d)
  \/ \E p \in Player, d \in Delays : \E i \in DOMAIN wire[p] : Overtake(p, i, d)
  \/ \E p \in Player : \E i \in DOMAIN wire[p] : Lose(p, i)
  \/ Drift
  \/ \E key \in Keys : PressTurn(key[1], key[2])
  \/ \E p \in Player, d \in Delays : Rematch(p, d)

TrailsSpec == TrailsInit /\ [][TrailsNext]_trailsVars

\* The page's frames keep coming, and the oldest message on the link is lost or lands.  The fairness is
\* written out, with what enables each action; a tick's is strong since only the bounds ever hold it up.
TickDue(p, late) == /\ late => wire[Other(p)] = <<>>
                    /\ \E d \in Delays : LET s == Ticked(side[p], p, 1, late, d)
                                       IN  s # side[p] /\ Len(wire[Other(p)] \o s.out) <= MaxFlight
Ticks(p, late) == \E d \in Delays : Tick(p, 1, late, d)
Lands(p) == \E d \in Delays : Deliver(p, d)
TrailsFairSpec ==
  /\ TrailsSpec
  /\ \A p \in Player :
       /\ \A late \in BOOLEAN : <>[]~TickDue(p, late) \/ []<><<Ticks(p, late)>>_trailsVars
       /\ []<>(wire[p] = <<>>) \/ []<><<Lands(p)>>_trailsVars

-----------------------------------------------------------------------------
(* Properties *)

(***************************************************************************)
(* The fields are of their types; a side rests between rounds exactly when *)
(* its round has a result, and for good exactly when its match is won; and *)
(* nothing is acknowledged to it that it has not fixed.                    *)
(***************************************************************************)
TrailsTypeOK ==
  /\ \A p \in Player :
       LET s == side[p]
       IN  /\ s.epoch \in Nat /\ s.r \in -1 .. MaxRound /\ s.phase \in Phases /\ s.delay \in Delays \cup {2}
           /\ s.round.result \in Results /\ s.round.tick \in Nat
           /\ s.mine \in Seq(Frame) /\ Range(s.theirs) \subseteq Frame /\ DOMAIN s.theirs \subseteq Nat
           /\ Len(s.queue) <= QUEUE_MAX /\ s.out = <<>>
           /\ s.acked <= Sealed(s)
           /\ s.phase \in {"point", "over"} <=> s.round.result # Going
           /\ s.phase = "over" <=> s.phase # "wait" /\ MatchWon(s.score)
  /\ presses \in 0 .. MaxTurns /\ faults \in 0 .. MaxFaults /\ drifted \in -1 .. side[Host].epoch

\* Both are in one epoch, and nothing has made the guest differ in it.  A guest taken back a round counts
\* as different: what it had fixed of the later one may be sent again, and taken for what it fixes anew.
Together == side[Host].epoch = side[Guest].epoch /\ drifted # side[Host].epoch

(***************************************************************************)
(* Both sides run the same round: at the tick the slower has got to, every *)
(* position since the round began is the same, and neither is more than a  *)
(* round ahead.  Whatever is lost or overtaken, and however a snapshot     *)
(* falls among the frames.                                                 *)
(***************************************************************************)
InStep ==
  LET h == side[Host]
      g == side[Guest]
      t == Min({h.round.tick, g.round.tick})
  IN  Together =>
        /\ g.r - h.r \in -1 .. 1
        /\ g.r = h.r => HashAt(h, t) = HashAt(g, t)
        /\ g.r = h.r /\ g.round.tick = h.round.tick => g.round = h.round /\ g.score = h.score

(***************************************************************************)
(* "A frame never changes once sent": what a side holds of the other's     *)
(* frames still to be played, the other has fixed, and to the same turn.   *)
(***************************************************************************)
FramesFixed ==
  Together => \A p \in Player :
    LET s == side[p]
        o == side[Other(p)]
    IN  s.r = o.r => \A t \in DOMAIN s.theirs :
          t >= s.round.tick => t <= Sealed(o) /\ s.theirs[t] = o.mine[t + 1]

(***************************************************************************)
(* While a round runs, a side's own frame for the tick is always fixed,    *)
(* and all its frames not yet acknowledged fit one message, three delays'  *)
(* worth: none is ever left out for want of room.  As long as the guest    *)
(* has not once differed: one that has may have gone far ahead on its own, *)
(* and the host, given its last frames again, has heard no more of its own *)
(* than before.                                                            *)
(***************************************************************************)
FramesFit == side[Host].epoch = side[Guest].epoch /\ drifted = -1 => \A p \in Player :
  LET s == side[p]
  IN  s.phase = "run" => s.round.tick <= Sealed(s) /\ Sealed(s) - s.acked <= MAX_FRAMES

(***************************************************************************)
(* A side takes no frame for acknowledged that the other does not hold and *)
(* still needs: it would never say it again, and both would wait.          *)
(***************************************************************************)
AckedIsHeld == Together => \A p \in Player :
  LET s == side[p]
      o == side[Other(p)]
  IN  s.r = o.r /\ o.round.result = Going => s.acked < TheirNext(o)

Alike == LET h == side[Host]
             g == side[Guest]
         IN  /\ g.epoch = h.epoch /\ g.r = h.r /\ g.phase = h.phase
             /\ g.round = h.round /\ g.score = h.score
AtRest == side[Host].phase = "over" \/ (side[Host].phase = "point" /\ side[Host].r = MaxRound)

(***************************************************************************)
(* A lost frame, a lost snapshot and a disagreement all heal: the match    *)
(* gets to its end, and both sides see it end the same way.                *)
(***************************************************************************)
Settles == <>[](AtRest /\ Alike)

(***************************************************************************)
(* The match is in lockstep: the rounds of both sides are the same, and so *)
(* are the frames they are run from.                                       *)
(***************************************************************************)
Lockstep == TrailsTypeOK /\ InStep /\ FramesFixed

(***************************************************************************)
(* No frame goes unsaid that the other side still waits for: each one that *)
(* is not acknowledged fits the next message, and none is taken for        *)
(* acknowledged that is not held.                                          *)
(***************************************************************************)
NoneUnsaid == FramesFit /\ AckedIsHeld
=============================================================================
