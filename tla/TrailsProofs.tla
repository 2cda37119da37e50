----------------------------- MODULE TrailsProofs -----------------------------
(***************************************************************************)
(* Two sides of a trails match over a link that loses messages and lets    *)
(* them overtake each other, for any grid, delays, number of rounds and of *)
(* faults: both run the same round, from the same frames.                  *)
(***************************************************************************)
EXTENDS Trails, FiniteSetTheorems, SequenceTheorems, WellFoundedInduction, TLAPS

-----------------------------------------------------------------------------
(* Numbers, and what is done over and over *)

LEMMA Least ==
  ASSUME NEW S \in SUBSET Nat, S # {}
  PROVE  \E m \in S : \A k \in S : m <= k
<1> DEFINE R == {ss \in Nat \X Nat : ss[1] < ss[2]}
<1>1. IsWellFoundedOn(R, Nat)
  BY NatLessThanWellFounded DEF OpToRel
<1>2. \A x, y \in Nat : <<y, x>> \in R <=> y < x
  OBVIOUS
<1> HIDE DEF R
<1>3. PICK m \in S : \A y \in S : ~(<<y, m>> \in R)
  BY <1>1, WFMin
<1>4. ASSUME NEW k \in S PROVE m <= k
  <2>1. k \in Nat /\ m \in Nat /\ ~(<<k, m>> \in R)
    BY <1>3
  <2>2. <<k, m>> \in R <=> k < m
    BY <1>2, <2>1
  <2> QED BY <2>1, <2>2
<1> QED BY <1>4

\* The first of the numbers for which something fails has one before it, for which it does not.
LEMMA OneBefore ==
  ASSUME NEW n \in Nat, NEW T \in SUBSET (0 .. n), T # {}, 0 \notin T
  PROVE  \E m \in T : m \in 1 .. n /\ m - 1 \in 0 .. n /\ m - 1 \notin T
<1>1. T \in SUBSET Nat
  OBVIOUS
<1>2. PICK m \in T : \A k \in T : m <= k
  BY <1>1, Least
<1>3. m \in 0 .. n /\ m # 0
  OBVIOUS
<1>4. m - 1 \notin T
  BY <1>2, <1>3
<1> QED BY <1>3, <1>4

LEMMA MinTwo ==
  ASSUME NEW a \in Int, NEW b \in Int
  PROVE  Min({a, b}) = IF a <= b THEN a ELSE b
<1>1. \E x \in {a, b} : \A y \in {a, b} : x <= y
  OBVIOUS
<1> QED BY <1>1 DEF Min

LEMMA MinOfNats ==
  ASSUME NEW a \in Nat, NEW b \in Nat
  PROVE  Min({a, b}) \in Nat /\ Min({a, b}) <= a /\ Min({a, b}) <= b
<1>1. Min({a, b}) = IF a <= b THEN a ELSE b
  BY MinTwo
<1> QED BY <1>1

LEMMA MaxTwo ==
  ASSUME NEW a \in Int, NEW b \in Int
  PROVE  Max({a, b}) = IF a >= b THEN a ELSE b
<1>1. \E x \in {a, b} : \A y \in {a, b} : x >= y
  OBVIOUS
<1> QED BY <1>1 DEF Max

LEMMA MaxThree ==
  ASSUME NEW a \in Int, NEW b \in Int, NEW c \in Int
  PROVE  /\ Max({a, b, c}) \in {a, b, c}
         /\ Max({a, b, c}) >= a /\ Max({a, b, c}) >= b /\ Max({a, b, c}) >= c
<1>1. \E x \in {a, b, c} : \A y \in {a, b, c} : x >= y
  <2>1. CASE a >= b /\ a >= c BY <2>1
  <2>2. CASE b >= a /\ b >= c BY <2>2
  <2>3. CASE c >= a /\ c >= b BY <2>3
  <2> QED BY <2>1, <2>2, <2>3
<1> QED BY <1>1 DEF Max

\* A handler done over and over: the ticks of one frame of the page.
LEMMA StepsAre ==
  ASSUME NEW s, NEW p, NEW n \in Nat
  PROVE  \E at : /\ at[0] = s /\ Steps(s, p, n) = at[n]
                 /\ \A k \in 1 .. n :
                      at[k] = IF CanStep(at[k - 1]) THEN StepOnce(at[k - 1], p) ELSE at[k - 1]
<1> DEFINE Nxt(x) == IF CanStep(x) THEN StepOnce(x, p) ELSE x
           Is(f, m) == f = [k \in 0 .. m |-> IF k = 0 THEN s ELSE Nxt(f[k - 1])]
           T == {m \in 0 .. n : ~\E f : Is(f, m)}
<1>1. Steps(s, p, n) = (CHOOSE f : Is(f, n))[n]
  BY DEF Steps
<1> HIDE DEF Nxt
<1>2. T = {}
  <2>1. SUFFICES ASSUME T # {} PROVE FALSE
    OBVIOUS
  <2>2. T \in SUBSET (0 .. n)
    OBVIOUS
  <2>3. 0 \notin T
    <3>1. Is([k \in 0 .. 0 |-> s], 0)
      OBVIOUS
    <3> QED BY <3>1
  <2> HIDE DEF T
  <2>4. PICK m \in T : m \in 1 .. n /\ m - 1 \in 0 .. n /\ m - 1 \notin T
    BY <2>1, <2>2, <2>3, OneBefore
  <2>5. PICK f : Is(f, m - 1)
    BY <2>4 DEF T
  <2> DEFINE g == [k \in 0 .. m |-> IF k < m THEN f[k] ELSE Nxt(f[m - 1])]
  <2>6. \A k \in 0 .. m : g[k] = IF k = 0 THEN s ELSE Nxt(g[k - 1])
    BY <2>4, <2>5
  <2>7. Is(g, m)
    BY <2>6
  <2> QED BY <2>4, <2>7 DEF T
<1>3. \E f : Is(f, n)
  BY <1>2
<1> DEFINE at == CHOOSE f : Is(f, n)
<1>4. Is(at, n)
  BY <1>3
<1>5. \A k \in 0 .. n : at[k] = IF k = 0 THEN s ELSE Nxt(at[k - 1])
  BY <1>4
<1> HIDE DEF at
<1>6. at[0] = s /\ \A k \in 1 .. n : at[k] = Nxt(at[k - 1])
  BY <1>5
<1>7. Steps(s, p, n) = at[n]
  BY <1>1 DEF at
<1> QED BY <1>6, <1>7 DEF Nxt

LEMMA RangeOf ==
  ASSUME NEW S, NEW q \in Seq(S)
  PROVE  Range(q) = {q[i] : i \in 1 .. Len(q)} /\ Range(q) \subseteq S
BY DEF Range

\* What is sent joins what was on its way: nothing else does, and nothing is left out.
LEMMA JoinAll ==
  ASSUME NEW S, NEW c \in Seq(S), NEW out \in Seq(S)
  PROVE  Join(c, out) \in Seq(S) /\ Range(Join(c, out)) = Range(c) \cup Range(out)
<1> DEFINE Nxt(x, k) == IF out[k] \in Range(x) THEN x ELSE Append(x, out[k])
           n == Len(out)
           Is(f, m) == f = [k \in 0 .. m |-> IF k = 0 THEN c ELSE Nxt(f[k - 1], k)]
           T == {m \in 0 .. n : ~\E f : Is(f, m)}
<1>0. n \in Nat
  OBVIOUS
<1>1. Join(c, out) = (CHOOSE f : Is(f, n))[n]
  BY DEF Join
<1> HIDE DEF Nxt, n
<1>2. T = {}
  <2>1. SUFFICES ASSUME T # {} PROVE FALSE
    OBVIOUS
  <2>2. T \in SUBSET (0 .. n)
    OBVIOUS
  <2>3. 0 \notin T
    <3>1. Is([k \in 0 .. 0 |-> c], 0)
      OBVIOUS
    <3> QED BY <3>1
  <2> HIDE DEF T
  <2>4. PICK m \in T : m \in 1 .. n /\ m - 1 \in 0 .. n /\ m - 1 \notin T
    BY <1>0, <2>1, <2>2, <2>3, OneBefore
  <2>5. PICK f : Is(f, m - 1)
    BY <2>4 DEF T
  <2> DEFINE g == [k \in 0 .. m |-> IF k < m THEN f[k] ELSE Nxt(f[m - 1], m)]
  <2>6. \A k \in 0 .. m : g[k] = IF k = 0 THEN c ELSE Nxt(g[k - 1], k)
    BY <2>4, <2>5
  <2>7. Is(g, m)
    BY <2>6
  <2> QED BY <2>4, <2>7 DEF T
<1>3. \E f : Is(f, n)
  BY <1>0, <1>2
<1> DEFINE at == CHOOSE f : Is(f, n)
<1>4. Is(at, n)
  BY <1>3
<1>5. \A k \in 0 .. n : at[k] = IF k = 0 THEN c ELSE Nxt(at[k - 1], k)
  BY <1>4
<1> HIDE DEF at
<1>6. at[0] = c /\ \A k \in 1 .. n : at[k] = Nxt(at[k - 1], k)
  BY <1>0, <1>5
<1> DEFINE Joined(k) == at[k] \in Seq(S) /\ Range(at[k]) = Range(c) \cup {out[i] : i \in 1 .. k}
           B == {k \in 0 .. n : ~Joined(k)}
<1>7. B = {}
  <2>1. SUFFICES ASSUME B # {} PROVE FALSE
    OBVIOUS
  <2>2. B \in SUBSET (0 .. n)
    OBVIOUS
  <2>3. 0 \notin B
    BY <1>6
  <2> HIDE DEF B
  <2>4. PICK m \in B : m \in 1 .. n /\ m - 1 \in 0 .. n /\ m - 1 \notin B
    BY <1>0, <2>1, <2>2, <2>3, OneBefore
  <2>5. Joined(m - 1) /\ at[m] = Nxt(at[m - 1], m)
    BY <1>6, <2>4 DEF B
  <2>6. out[m] \in S /\ {out[i] : i \in 1 .. m} = {out[i] : i \in 1 .. m - 1} \cup {out[m]}
    BY <1>0, <2>4 DEF n
  <2>7. \A q \in Seq(S) : \A x \in S : Append(q, x) \in Seq(S) /\ Range(Append(q, x)) = Range(q) \cup {x}
    <3> SUFFICES ASSUME NEW q \in Seq(S), NEW x \in S
                 PROVE  Append(q, x) \in Seq(S) /\ Range(Append(q, x)) = Range(q) \cup {x}
      OBVIOUS
    <3>1. /\ Append(q, x) \in Seq(S) /\ Len(Append(q, x)) = Len(q) + 1
          /\ Append(q, x)[Len(q) + 1] = x /\ \A i \in 1 .. Len(q) : Append(q, x)[i] = q[i]
      OBVIOUS
    <3> DEFINE z == Append(q, x)
    <3> HIDE DEF z
    <3>2. Range(z) = {z[i] : i \in 1 .. Len(q) + 1} /\ Range(q) = {q[i] : i \in 1 .. Len(q)}
      BY <3>1, RangeOf DEF z
    <3>3. Range(z) = Range(q) \cup {x}
      BY <3>1, <3>2 DEF z
    <3> QED BY <3>1, <3>3 DEF z
  <2>8. Joined(m)
    <3>1. CASE out[m] \in Range(at[m - 1])
      BY <2>5, <2>6, <3>1 DEF Nxt
    <3>2. CASE out[m] \notin Range(at[m - 1])
      BY <2>5, <2>6, <2>7, <3>2 DEF Nxt
    <3> QED BY <3>1, <3>2
  <2> QED BY <2>4, <2>8 DEF B
<1>8. Joined(n)
  BY <1>0, <1>7
<1>10. Join(c, out) = at[n]
  BY <1>1 DEF at
<1>9. Range(out) = {out[i] : i \in 1 .. n}
  BY RangeOf DEF n
<1> QED BY <1>8, <1>9, <1>10

-----------------------------------------------------------------------------
(* The inductive invariant: types *)

Cell == Int \X Int
RoundType == [cycles : [Player -> [path : Seq(Cell), dir : Dir]], tick : Nat, result : Results]

\* A cycle has gone on one cell a tick, until it crashed.
RoundRight(r) ==
  /\ r \in RoundType
  /\ \A p \in Player : /\ Len(r.cycles[p].path) \in 1 .. r.tick + 1
                       /\ r.result = Going => Len(r.cycles[p].path) = r.tick + 1

\* what a session and a snapshot say of the game
GameRight(x) ==
  /\ RoundRight(x.round) /\ x.r \in 0 .. MaxRound /\ x.phase \in {"count", "run", "point", "over"}
  /\ \E before \in [Player -> Nat] :
       x.base = <<x.r, before>> /\ x.score = ScoreRound(before, x.round.result)
  /\ x.phase \in {"point", "over"} <=> x.round.result # Going
  /\ x.phase = "over" <=> MatchWon(x.score)
  /\ x.phase = "count" => x.round = NewRound

\* ... and a session that waits for its first
WaitRight(s) ==
  /\ s.epoch = 0 /\ s.r = -1 /\ s.round = NewRound /\ s.base = None /\ s.score = <<0, 0>>
  /\ DOMAIN s.theirs = {} /\ s.prev = None

TheirsRight(s) == DOMAIN s.theirs \subseteq Nat /\ IsFiniteSet(DOMAIN s.theirs) /\ Range(s.theirs) \subseteq Frame

IsSeq(q) == q \in Seq(Range(q))

PrevRight(s) ==
  s.prev # None => s.prev[1].r \in Nat /\ RoundRight(s.prev[1].round) /\ s.prev[1].mine \in Seq(Frame)

SideCore(p, s) ==
  /\ DOMAIN s = DOMAIN NewSession /\ DOMAIN s.again = {"mine", "theirs"}
  /\ s.epoch \in Nat /\ s.delay \in Delays \cup {2} /\ s.mine \in Seq(Frame) /\ TheirsRight(s)
  /\ s.acked \in Int /\ s.acked <= Sealed(s)
  /\ s.queue \in Seq(Dir) /\ Len(s.queue) <= QUEUE_MAX
  /\ PrevRight(s) /\ IsSeq(s.out)
  /\ IF s.phase = "wait" THEN WaitRight(s) ELSE GameRight(s) /\ s.delay \in Delays
  /\ p = Host /\ s.again.mine => s.phase = "over" /\ s.r < MaxRound

\* Every epoch but the first begins with a game of the host's.
SideRight(p, s) == SideCore(p, s) /\ (s.phase # "wait" => s.epoch > 0)

\* A side has fixed its own frame for the tick it is at.
Ready(s) == s.phase = "run" => s.round.tick <= Sealed(s)

-----------------------------------------------------------------------------
(* The inductive invariant: one round *)

\* a round as far as a side has got with it, the one at hand or the one before
Now(s) == [r |-> s.r, base |-> s.base, round |-> s.round, mine |-> s.mine]

\* the frames both have fixed for a tick, a side's own and the other's
Both(p, a, b, k) == [q \in Player |-> IF q = p THEN a.mine[k + 1] ELSE b.mine[k + 1]]

\* Every cell a cycle had gone through it still has.
Begins(r, later) ==
  \A q \in Player :
    /\ Len(r.cycles[q].path) <= Len(later.cycles[q].path)
    /\ \A i \in 1 .. Len(r.cycles[q].path) : later.cycles[q].path[i] = r.cycles[q].path[i]

\* Through f, a round has got from where the other side's is to where it is itself, by what both have fixed.
Through(f, p, a, b) ==
  /\ b.round.tick <= a.round.tick /\ f[b.round.tick] = b.round /\ f[a.round.tick] = a.round
  /\ \A k \in b.round.tick .. a.round.tick :
       RoundRight(f[k]) /\ f[k].tick = k /\ Begins(f[k], a.round)
  /\ \A k \in b.round.tick .. a.round.tick - 1 :
       /\ k < Len(a.mine) /\ k < Len(b.mine)
       /\ f[k].result = Going /\ f[k + 1] = Step(f[k], Both(p, a, b, k))
Onward(p, a, b) == \E f : Through(f, p, a, b)

\* One of the two is as far as the other, or further by the frames of both.
Abreast(p, a, b) == a.base = b.base /\ (Onward(p, a, b) \/ Onward(Other(p), b, a))

\* What a side holds of the other's frames still to be played is what the other has fixed.
HeardOf(s, mine) == \A t \in DOMAIN s.theirs : t >= s.round.tick => t < Len(mine) /\ s.theirs[t] = mine[t + 1]

\* A side has gone on to the next round from one that is over, and heard nothing of it.
GoneOn(s, o) ==
  /\ s.prev # None /\ s.prev[1].r = o.r /\ s.prev[1].round.result # Going
  /\ s.base = <<s.r, ScoreRound(s.prev[1].base[2], s.prev[1].round.result)>>
  /\ ~MatchWon(s.base[2])
  /\ s.round = NewRound /\ DOMAIN s.theirs = {}

\* Both in one round, or one of them a round ahead and the other still in the one before.
Level(p, s, o) == s.r = o.r /\ Abreast(p, Now(s), Now(o)) /\ HeardOf(s, o.mine) /\ HeardOf(o, s.mine)
AheadOf(p, s, o) ==
  s.r = o.r + 1 /\ GoneOn(s, o) /\ Abreast(p, s.prev[1], Now(o)) /\ HeardOf(o, s.prev[1].mine)
Pair(p, s, o) == Level(p, s, o) \/ AheadOf(p, s, o) \/ AheadOf(Other(p), o, s)

-----------------------------------------------------------------------------
(* The inductive invariant: what is on its way *)

\* The frames a message carries are ones that were fixed.
Carries(m, mine) == \A j \in 1 .. Len(m.i) : m.f + j <= Len(mine) /\ m.i[j] = mine[m.f + j]

Carried(m, s) ==
  m.type = "frames" /\ m.e = s.epoch =>
    \/ m.r = s.r /\ Carries(m, s.mine)
    \/ m.r < s.r /\ s.prev # None /\ s.prev[1].r = m.r /\ Carries(m, s.prev[1].mine)

\* the guest's side of the game, as a snapshot brings it
Copy(m) ==
  LET tick == m.round.tick
  IN  [r |-> m.r, base |-> m.base, round |-> m.round, mine |-> Straights(tick) \o m.frames[Guest],
       theirs |-> [t \in tick .. tick + Len(m.frames[Host]) - 1 |-> m.frames[Host][t - tick + 1]],
       prev |-> None]

\* A message to p, whose sender is in epoch e.
MsgRight(p, m, e) ==
  /\ m.e \in 0 .. e
  /\ m.type = "frames" =>
       m.e > 0 /\ m.r \in Nat /\ m.f \in Nat /\ m.i \in Seq(Frame) /\ m.a \in Int
  /\ m.type = "snap" =>
       /\ p = Guest /\ m.e > 0 /\ m.d \in Delays /\ GameRight(m)
       /\ m.frames[Host] \in Seq(Frame) /\ m.frames[Guest] \in Seq(Frame)

\* What a side has sent in this epoch it has fixed, in this round or the one before.
Kept(s, sent) ==
  /\ s.prev # None => s.prev[1].r <= s.r
  /\ \A m \in sent : Carried(m, s)

(***************************************************************************)
(* The host, the guest, what is on its way to each, and the epoch in which *)
(* the guest was made to differ.  What a side has just posted is on its    *)
(* way too.                                                                *)
(***************************************************************************)
Good(h, g, toH, toG, dr) ==
  /\ SideRight(Host, h) /\ SideRight(Guest, g)
  /\ \A m \in toG \cup Range(h.out) : MsgRight(Guest, m, h.epoch)
  /\ \A m \in toH \cup Range(g.out) : MsgRight(Host, m, g.epoch)
  /\ dr \in Int /\ -1 <= dr /\ dr <= g.epoch /\ g.epoch <= h.epoch
  /\ Kept(h, toG \cup Range(h.out))
  /\ dr # g.epoch => Kept(g, toH \cup Range(g.out))
  /\ g.epoch = h.epoch /\ dr # h.epoch => Pair(Host, h, g)
  /\ \A m \in toG \cup Range(h.out) :
       m.type = "snap" /\ m.e = h.epoch /\ g.epoch < h.epoch => m.r = h.r /\ Pair(Host, h, Copy(m))

\* the same, from one side: itself, the other, what is on its way to it and to the other
GoodAt(p, s, o, in, from, dr) == IF p = Host THEN Good(s, o, in, from, dr) ELSE Good(o, s, from, in, dr)

-----------------------------------------------------------------------------
(* The inductive invariant: what one message has room for *)

\* a third of a message, which no delay is longer than
Third == MAX_FRAMES \div 3

\* A side has fixed its frames up to a delay ahead at most, or as many as the host already has of the guest's.
Long(p, s) == Sealed(s) <= s.round.tick + Third - 1 \/ (p = Guest /\ Sealed(s) <= s.acked)
Own(p, s) == s.acked >= -1 /\ s.round.tick <= Len(s.mine) /\ Long(p, s)

\* A side holds the other's frames up to a, but for those it is past.
Has(s, a) == \A u \in s.round.tick .. a : u \in DOMAIN s.theirs

\* What a message of this round says its sender holds it holds, and its frames go no more than a delay beyond.
Claim(m, s) ==
  m.type = "frames" /\ m.e = s.epoch /\ m.r = s.r =>
    Has(s, m.a) /\ (m.i # <<>> => m.f + Len(m.i) - 1 <= m.a + Third)
Claims(s, sent) == \A m \in sent : Claim(m, s)

\* What is acknowledged to a side the other holds, unless it needs no more of the round.
Acks(s, o) ==
  /\ s.r = o.r /\ o.round.result = Going => Has(o, s.acked)
  /\ s.r > o.r => s.acked < 0

\* ... and so it is once the guest has a snapshot.
Brings(h, m) ==
  /\ Has(h, m.round.tick + Len(m.frames[Guest]) - 1)
  /\ m.round.result = Going => h.acked < m.round.tick + Len(m.frames[Host])

\* The frames a side holds of the other came with word of how far its own had got.
Low(s) ==
  /\ s.acked >= s.round.tick - 1 - Third
  /\ \A u \in DOMAIN s.theirs : u >= s.round.tick => s.acked >= u - Third

\* ... and so did the last ones, to a side the other has left behind.
Behind(s, o) == o.r > s.r => s.acked >= o.prev[1].round.tick - 1 - 2 * Third

Fit(h, g, toH, toG, dr) ==
  /\ Own(Host, h) /\ Own(Guest, g)
  /\ Claims(h, toG \cup Range(h.out))
  /\ dr # g.epoch => Claims(g, toH \cup Range(g.out))
  /\ \A m \in toG \cup Range(h.out) :
       m.type = "snap" =>
         /\ Len(m.frames[Host]) <= Third
         /\ m.e = h.epoch /\ g.epoch < h.epoch => Brings(h, m)
  /\ g.epoch = h.epoch /\ dr # h.epoch => Acks(h, g) /\ Acks(g, h)
  /\ dr = -1 /\ g.r <= h.r => Low(h)
  /\ dr = -1 /\ g.epoch = h.epoch => Behind(h, g) /\ Behind(g, h) /\ (h.r <= g.r => Low(g))

\* the same, from one side
FitAt(p, s, o, in, from, dr) == IF p = Host THEN Fit(s, o, in, from, dr) ELSE Fit(o, s, from, in, dr)

-----------------------------------------------------------------------------
(* The inductive invariant *)

\* Both, of a side that is ready for its next tick, with no hash to compare unless it is the host
Fine(p, s, o, in, from, dr) ==
  /\ GoodAt(p, s, o, in, from, dr) /\ FitAt(p, s, o, in, from, dr)
  /\ Ready(s) /\ (p # Host => s.check = None)

Way(p) == Range(wire[p])
TrailsInv ==
  /\ Good(side[Host], side[Guest], Way(Host), Way(Guest), drifted)
  /\ Fit(side[Host], side[Guest], Way(Host), Way(Guest), drifted)
  /\ \A p \in Player : /\ Ready(side[p]) /\ (p # Host => side[p].check = None)
                       /\ side[p].out = <<>> /\ IsSeq(wire[p])
  /\ DOMAIN side = Player /\ DOMAIN wire = Player
  /\ presses \in 0 .. MaxTurns /\ faults \in 0 .. MaxFaults

-----------------------------------------------------------------------------
(* What the proofs need of a side, and how one session follows from another *)

Half(x) ==
  x.mine \in Seq(Frame) /\ RoundRight(x.round) /\ PrevRight(x) /\ DOMAIN x.theirs \subseteq Nat

\* Frames are fixed on from where they were.
Longer(a, b) ==
  a \in Seq(Frame) /\ b \in Seq(Frame) /\ Len(a) <= Len(b) /\ \A k \in 1 .. Len(a) : b[k] = a[k]

\* t is at the same place of the same game as s.
SameGame(s, t) ==
  /\ t.epoch = s.epoch /\ t.r = s.r /\ t.delay = s.delay /\ t.score = s.score
  /\ t.round = s.round /\ t.base = s.base /\ t.phase = s.phase /\ t.again = s.again /\ t.prev = s.prev

\* ... with no more heard, and only its own frames fixed further on.
Quiet(s, t) ==
  /\ DOMAIN t = DOMAIN s /\ SameGame(s, t)
  /\ t.theirs = s.theirs /\ t.out = s.out /\ Longer(s.mine, t.mine)
  /\ t.acked \in Int /\ t.acked <= Sealed(t)
  /\ t.queue \in Seq(Dir) /\ Len(t.queue) <= QUEUE_MAX


-----------------------------------------------------------------------------
(* Two sides, and one tick *)

LEMMA TwoSides ==
  /\ Player = {1, 2} /\ Host \in Player /\ Guest \in Player /\ Host # Guest
  /\ Other(Host) = Guest /\ Other(Guest) = Host
  /\ \A p \in Player : /\ Other(p) \in Player /\ Other(p) # p /\ Other(Other(p)) = p
                       /\ \A q \in Player : q = p \/ q = Other(p)
                       /\ p = Host \/ p = Guest
BY DEF Player, Other, Host, Guest

LEMMA PostOne ==
  ASSUME NEW q, IsSeq(q), NEW x
  PROVE  IsSeq(Append(q, x)) /\ Range(Append(q, x)) = Range(q) \cup {x}
<1> DEFINE S == Range(q) \cup {x}
           z == Append(q, x)
<1>1. q \in Seq(Range(q))
  BY DEF IsSeq
<1>2. q \in Seq(S) /\ x \in S
  BY <1>1
<1> HIDE DEF S
<1>3. /\ z \in Seq(S) /\ Len(z) = Len(q) + 1
      /\ z[Len(q) + 1] = x /\ \A i \in 1 .. Len(q) : z[i] = q[i]
  BY <1>2
<1> HIDE DEF z
<1>4. Range(z) = {z[i] : i \in 1 .. Len(q) + 1} /\ Range(q) = {q[i] : i \in 1 .. Len(q)}
  BY <1>2, <1>3, RangeOf
<1>5. Range(z) = Range(q) \cup {x}
  BY <1>3, <1>4
<1> QED BY <1>3, <1>5 DEF IsSeq, S, z

LEMMA Nothing == IsSeq(<<>>) /\ Range(<<>>) = {} /\ DOMAIN <<>> = {} /\ Len(<<>>) = 0
BY DEF IsSeq, Range

LEMMA Straight0 ==
  ASSUME NEW n \in Nat
  PROVE  Straights(n) \in Seq(Frame) /\ Len(Straights(n)) = n /\ (n = 0 => Straights(n) = <<>>)
BY DEF Straights, Frame, Straight

\* A turn is a way, and a cycle goes one way or another.
LEMMA SteeredIs ==
  ASSUME NEW c, c.dir \in Dir, NEW f
  PROVE  Steered(c, f) \in Dir
BY DEF Steered

\* What makes a round, and a cycle of it.
LEMMA RoundIs ==
  ASSUME NEW path, NEW dir, NEW n \in Nat, NEW x \in Results,
         \A p \in Player : path[p] \in Seq(Cell) /\ dir[p] \in Dir
  PROVE  [cycles |-> [p \in Player |-> [path |-> path[p], dir |-> dir[p]]], tick |-> n, result |-> x] \in RoundType
BY DEF RoundType

\* One tick takes every cycle on by a cell, but for those that crash.
LEMMA StepIs ==
  ASSUME NEW r, RoundRight(r), r.result = Going, NEW fr
  PROVE  /\ RoundRight(Step(r, fr)) /\ Step(r, fr).tick = r.tick + 1
         /\ Begins(r, Step(r, fr))
<1> DEFINE dir  == [p \in Player |-> Steered(r.cycles[p], fr[p])]
           to   == [p \in Player |-> <<Last(r.cycles[p].path)[1] + DX[dir[p]],
                                       Last(r.cycles[p].path)[2] + DY[dir[p]]>>]
           into == {p \in Player : to[p] \notin (0 .. COLS - 1) \X (0 .. ROWS - 1) \/ to[p] \in Walls(r)}
           hit  == IF into = {} /\ to[1] = to[2] THEN Player ELSE into
           x    == CASE hit = {} -> Going [] hit = Player -> Draw
                     [] OTHER -> Winner(CHOOSE p \in Player : p \notin hit)
           path == [p \in Player |-> IF p \in hit THEN r.cycles[p].path ELSE Append(r.cycles[p].path, to[p])]
           c    == [p \in Player |-> [path |-> path[p], dir |-> dir[p]]]
           t    == [cycles |-> c, tick |-> r.tick + 1, result |-> x]
<1>1. Step(r, fr) = t
  <2>1. Step(r, fr) = [cycles |-> [p \in Player |-> [path |-> IF p \in hit THEN r.cycles[p].path
                                                                ELSE Append(r.cycles[p].path, to[p]),
                                                     dir |-> dir[p]]],
                       tick |-> r.tick + 1, result |-> x]
    BY DEF Step
  <2> HIDE DEF hit, to, dir, x
  <2> QED BY <2>1
<1>2. \A p \in Player : /\ r.cycles[p].path \in Seq(Cell) /\ r.cycles[p].dir \in Dir
                        /\ Len(r.cycles[p].path) = r.tick + 1 /\ r.tick \in Nat
  BY DEF RoundRight, RoundType
<1>3. \A p \in Player : dir[p] \in Dir
  BY <1>2, SteeredIs
<1>4. \A d \in Dir : DX[d] \in Int /\ DY[d] \in Int
  BY DEF DX, DY, Dir
<1>5. \A p \in Player : to[p] \in Cell
  <2> SUFFICES ASSUME NEW p \in Player PROVE to[p] \in Cell
    OBVIOUS
  <2>1. Last(r.cycles[p].path) \in Cell
    BY <1>2 DEF Last
  <2>2. DX[dir[p]] \in Int /\ DY[dir[p]] \in Int
    BY <1>3, <1>4
  <2> QED BY <2>1, <2>2 DEF Cell
<1>6. hit \subseteq Player
  OBVIOUS
<1> HIDE DEF dir, to, hit
<1>7. x \in Results /\ (x = Going => hit = {})
  <2>1. CASE hit = {} BY <2>1 DEF Results
  <2>2. CASE hit = Player
    BY <2>2, TwoSides DEF Results, Going, Draw
  <2>3. CASE hit # {} /\ hit # Player
    <3>1. \E p \in Player : p \notin hit
      BY <1>6, <2>3
    <3>2. (CHOOSE p \in Player : p \notin hit) \in Player
      BY <3>1
    <3>3. \A p \in Player : Winner(p) \in Results /\ Winner(p) # Going
      BY DEF Player, Winner, Results, Going
    <3> QED BY <2>3, <3>2, <3>3
  <2> QED BY <2>1, <2>2, <2>3
<1>8. ASSUME NEW p \in Player
      PROVE  /\ path[p] \in Seq(Cell)
             /\ Len(path[p]) \in {r.tick + 1, r.tick + 2}
             /\ (hit = {} => Len(path[p]) = r.tick + 2)
             /\ \A i \in 1 .. r.tick + 1 : path[p][i] = r.cycles[p].path[i]
  <2>2. CASE p \in hit
    BY <1>2, <2>2
  <2>3. CASE p \notin hit
    <3> DEFINE q == r.cycles[p].path
    <3>1. q \in Seq(Cell) /\ Len(q) = r.tick + 1 /\ to[p] \in Cell /\ path[p] = Append(q, to[p])
      BY <1>2, <1>5, <2>3
    <3> HIDE DEF q
    <3>2. /\ Append(q, to[p]) \in Seq(Cell) /\ Len(Append(q, to[p])) = Len(q) + 1
          /\ \A i \in 1 .. Len(q) : Append(q, to[p])[i] = q[i]
      BY <3>1
    <3> QED BY <1>2, <3>1, <3>2 DEF q
  <2> QED BY <2>2, <2>3
<1> HIDE DEF path, x
<1>9. r.tick + 1 \in Nat
  BY <1>2, TwoSides
<1>10. t \in RoundType
  BY <1>3, <1>7, <1>8, <1>9, RoundIs
<1>11. /\ \A p \in Player : t.cycles[p].path = path[p]
       /\ t.tick = r.tick + 1 /\ t.result = x
  OBVIOUS
<1> HIDE DEF t
<1>12. ASSUME NEW p \in Player
       PROVE  /\ Len(t.cycles[p].path) \in 1 .. t.tick + 1
              /\ t.result = Going => Len(t.cycles[p].path) = t.tick + 1
  <2>1. /\ Len(path[p]) \in {r.tick + 1, r.tick + 2} /\ (hit = {} => Len(path[p]) = r.tick + 2)
        /\ r.tick \in Nat /\ t.cycles[p].path = path[p] /\ t.tick = r.tick + 1 /\ t.result = x
    BY <1>2, <1>8, <1>11
  <2> DEFINE l == Len(path[p])
  <2>2. Len(t.cycles[p].path) = l
    BY <2>1
  <2>3. l \in {r.tick + 1, r.tick + 2} /\ (hit = {} => l = r.tick + 2)
    BY <2>1
  <2> HIDE DEF l
  <2> QED BY <1>7, <2>1, <2>2, <2>3
<1>13. RoundRight(t)
  BY <1>10, <1>12 DEF RoundRight
<1>14. ASSUME NEW p \in Player
       PROVE  /\ Len(r.cycles[p].path) <= Len(t.cycles[p].path)
              /\ \A i \in 1 .. Len(r.cycles[p].path) : t.cycles[p].path[i] = r.cycles[p].path[i]
  <2>1. /\ Len(path[p]) \in {r.tick + 1, r.tick + 2} /\ r.tick \in Nat
        /\ t.cycles[p].path = path[p] /\ Len(r.cycles[p].path) = r.tick + 1
    BY <1>2, <1>8, <1>11
  <2>2. \A i \in 1 .. r.tick + 1 : path[p][i] = r.cycles[p].path[i]
    BY <1>8
  <2> DEFINE l == Len(path[p])
             k == Len(r.cycles[p].path)
  <2>3. l \in {r.tick + 1, r.tick + 2} /\ k = r.tick + 1
    BY <2>1
  <2>4. k <= l
    <3> HIDE DEF k, l
    <3> QED BY <2>1, <2>3
  <2> QED BY <2>1, <2>2, <2>3, <2>4
<1>15. Begins(r, t)
  BY <1>14 DEF Begins
<1> QED BY <1>1, <1>11, <1>13, <1>15

LEMMA NewRoundIs == RoundRight(NewRound) /\ NewRound.tick = 0 /\ NewRound.result = Going
<1> DEFINE path == << << <<START, ROWS \div 2 - 1>> >>, << <<COLS - 1 - START, ROWS \div 2>> >> >>
           dir  == <<1, 3>>
           c    == [p \in Player |-> [path |-> path[p], dir |-> dir[p]]]
<1>1. /\ START \in Int /\ COLS - 1 - START \in Int /\ ROWS \div 2 \in Int /\ ROWS \div 2 - 1 \in Int
  BY RoundAssumption
<1>2. \A x, y \in Int : << <<x, y>> >> \in Seq(Cell) /\ Len(<< <<x, y>> >>) = 1
  BY DEF Cell
<1>3. ASSUME NEW p \in Player PROVE path[p] \in Seq(Cell) /\ Len(path[p]) = 1 /\ dir[p] \in Dir
  <2>1. CASE p = 1
    <3>1. \E x, y \in Int : path[p] = << <<x, y>> >>
      BY <1>1, <2>1
    <3> QED BY <1>2, <2>1, <3>1 DEF Dir
  <2>2. CASE p = 2
    <3>1. \E x, y \in Int : path[p] = << <<x, y>> >>
      BY <1>1, <2>2
    <3> QED BY <1>2, <2>2, <3>1 DEF Dir
  <2> QED BY <2>1, <2>2 DEF Player
<1>4. NewRound = [cycles |-> c, tick |-> 0, result |-> Going]
  BY DEF NewRound, Cycle, Player
<1> HIDE DEF path, dir
<1>5. NewRound \in RoundType
  <2>1. 0 \in Nat /\ Going \in Results
    BY DEF Results
  <2> QED BY <1>3, <1>4, <2>1, RoundIs
<1>6. /\ NewRound.tick = 0 /\ NewRound.result = Going
      /\ \A p \in Player : NewRound.cycles[p].path = path[p]
  BY <1>4
<1> QED BY <1>3, <1>5, <1>6 DEF RoundRight

-----------------------------------------------------------------------------
(* One round on two sides *)

LEMMA BeginsOn ==
  ASSUME NEW a, NEW b, NEW c, RoundRight(a), RoundRight(b), RoundRight(c), Begins(a, b), Begins(b, c)
  PROVE  Begins(a, c)
<1> SUFFICES ASSUME NEW q \in Player
             PROVE  /\ Len(a.cycles[q].path) <= Len(c.cycles[q].path)
                    /\ \A i \in 1 .. Len(a.cycles[q].path) : c.cycles[q].path[i] = a.cycles[q].path[i]
  BY DEF Begins
<1> DEFINE x == a.cycles[q].path
           y == b.cycles[q].path
           z == c.cycles[q].path
<1>1. /\ Len(x) <= Len(y) /\ \A i \in 1 .. Len(x) : y[i] = x[i]
      /\ Len(y) <= Len(z) /\ \A i \in 1 .. Len(y) : z[i] = y[i]
  BY DEF Begins
<1>2. Len(x) \in Nat /\ Len(y) \in Nat /\ Len(z) \in Nat
  BY DEF RoundRight, RoundType
<1> HIDE DEF x, y, z
<1>3. Len(x) <= Len(z) /\ \A i \in 1 .. Len(x) : z[i] = x[i]
  BY <1>1, <1>2
<1> QED BY <1>3 DEF x, z

LEMMA BeginsSame ==
  ASSUME NEW a, RoundRight(a)
  PROVE  Begins(a, a)
<1>1. \A q \in Player : Len(a.cycles[q].path) \in Nat
  BY DEF RoundRight, RoundType
<1> QED BY <1>1 DEF Begins

LEMMA AbreastSwap ==
  ASSUME NEW p \in Player, NEW a, NEW b, Abreast(p, a, b)
  PROVE  Abreast(Other(p), b, a)
<1>1. Other(Other(p)) = p
  BY TwoSides
<1> QED BY <1>1 DEF Abreast

LEMMA PairSwap ==
  ASSUME NEW p \in Player, NEW s, NEW o, Pair(p, s, o)
  PROVE  Pair(Other(p), o, s)
<1>1. Other(Other(p)) = p
  BY TwoSides
<1>2. CASE Level(p, s, o)
  BY <1>2, AbreastSwap DEF Level, Pair
<1> QED BY <1>1, <1>2 DEF Pair

LEMMA SameRound ==
  ASSUME NEW p \in Player, NEW a, NEW b, a.base = b.base, a.round = b.round, RoundRight(a.round)
  PROVE  Abreast(p, a, b)
<1> DEFINE n == a.round.tick
           f == [k \in {n} |-> a.round]
<1>1. n \in Nat /\ \A k \in n .. n : k = n
  BY DEF RoundRight, RoundType
<1>2. Begins(a.round, a.round)
  BY BeginsSame
<1>3. f[n] = a.round
  OBVIOUS
<1> HIDE DEF f
<1>4. \A k \in n .. n - 1 : FALSE
  BY <1>1
<1>5. Through(f, p, a, b)
  BY <1>1, <1>2, <1>3, <1>4 DEF Through
<1> QED BY <1>5 DEF Onward, Abreast

\* Two rounds both over are one and the same.
LEMMA BothOver ==
  ASSUME NEW p \in Player, NEW a, NEW b, Abreast(p, a, b),
         RoundRight(a.round), RoundRight(b.round), a.round.result # Going, b.round.result # Going
  PROVE  a.round = b.round
<1>1. ASSUME NEW q \in Player, NEW x, NEW y, Onward(q, x, y), RoundRight(x.round), RoundRight(y.round),
             y.round.result # Going
      PROVE  x.round = y.round
  <2>1. PICK f : Through(f, q, x, y)
    BY <1>1 DEF Onward
  <2>2. x.round.tick \in Nat /\ y.round.tick \in Nat
    BY <1>1 DEF RoundRight, RoundType
  <2>3. CASE x.round.tick = y.round.tick
    BY <2>1, <2>3 DEF Through
  <2>4. CASE x.round.tick # y.round.tick
    <3>1. y.round.tick \in y.round.tick .. x.round.tick - 1
      BY <2>1, <2>2, <2>4 DEF Through
    <3>2. f[y.round.tick].result = Going /\ f[y.round.tick] = y.round
      BY <2>1, <3>1 DEF Through
    <3> QED BY <1>1, <3>2
  <2> QED BY <2>3, <2>4
<1>2. Other(p) \in Player
  BY TwoSides
<1> QED BY <1>1, <1>2 DEF Abreast

\* A round's own frames fixed further on.
LEMMA LongerMine ==
  ASSUME NEW p \in Player, NEW a, NEW b, NEW x, Abreast(p, a, b),
         x.base = a.base, x.round = a.round, a.mine \in Seq(Frame), x.mine \in Seq(Frame), b.mine \in Seq(Frame),
         Len(a.mine) <= Len(x.mine), \A k \in 1 .. Len(a.mine) : x.mine[k] = a.mine[k],
         RoundRight(a.round), RoundRight(b.round)
  PROVE  Abreast(p, x, b)
<1>0. a.round.tick \in Nat /\ b.round.tick \in Nat
  BY DEF RoundRight, RoundType
<1>1. ASSUME NEW f, Through(f, p, a, b) PROVE Through(f, p, x, b)
  <2>1. ASSUME NEW k \in b.round.tick .. a.round.tick - 1
        PROVE  k < Len(x.mine) /\ Both(p, x, b, k) = Both(p, a, b, k)
    <3>1. k < Len(a.mine) /\ k \in Nat /\ Len(a.mine) \in Nat /\ Len(x.mine) \in Nat
      BY <1>0, <1>1 DEF Through
    <3>2. x.mine[k + 1] = a.mine[k + 1]
      BY <3>1
    <3> QED BY <3>1, <3>2 DEF Both
  <2> QED BY <1>1, <2>1 DEF Through
<1>2. ASSUME NEW f, Through(f, Other(p), b, a) PROVE Through(f, Other(p), b, x)
  <2>1. ASSUME NEW k \in a.round.tick .. b.round.tick - 1
        PROVE  k < Len(x.mine) /\ Both(Other(p), b, x, k) = Both(Other(p), b, a, k)
    <3>1. k < Len(a.mine) /\ k \in Nat /\ Len(a.mine) \in Nat /\ Len(x.mine) \in Nat
      BY <1>0, <1>2 DEF Through
    <3>2. x.mine[k + 1] = a.mine[k + 1]
      BY <3>1
    <3> QED BY <3>1, <3>2 DEF Both
  <2> QED BY <1>2, <2>1 DEF Through
<1> QED BY <1>1, <1>2 DEF Abreast, Onward

\* A tick with what both have fixed for it takes a side on, or nearer to where the other is.
LEMMA TrackStep ==
  ASSUME NEW p \in Player, NEW a, NEW b, NEW x, Abreast(p, a, b),
         x.base = a.base, x.mine = a.mine, a.mine \in Seq(Frame), b.mine \in Seq(Frame),
         RoundRight(a.round), RoundRight(b.round), a.round.result = Going,
         a.round.tick < Len(a.mine), a.round.tick < Len(b.mine),
         x.round = Step(a.round, Both(p, a, b, a.round.tick))
  PROVE  Abreast(p, x, b)
<1> DEFINE n == a.round.tick
           l == b.round.tick
<1>0. /\ n \in Nat /\ l \in Nat /\ x.round.tick = n + 1 /\ RoundRight(x.round) /\ Begins(a.round, x.round)
  <2>1. n \in Nat /\ l \in Nat
    BY DEF RoundRight, RoundType
  <2> DEFINE fr == Both(p, a, b, n)
  <2> HIDE DEF fr
  <2>2. x.round = Step(a.round, fr)
    BY DEF fr
  <2> QED BY <2>1, <2>2, StepIs
<1>1. ASSUME NEW f, Through(f, p, a, b) PROVE Onward(p, x, b)
  <2> DEFINE g == [k \in l .. n + 1 |-> IF k = n + 1 THEN x.round ELSE f[k]]
  <2>1. l <= n /\ f[l] = b.round /\ f[n] = a.round
    BY <1>1 DEF Through
  <2>2. g[n + 1] = x.round /\ \A k \in l .. n : g[k] = f[k]
    BY <1>0, <2>1
  <2> HIDE DEF g
  <2>3. ASSUME NEW k \in l .. n + 1 PROVE RoundRight(g[k]) /\ g[k].tick = k /\ Begins(g[k], x.round)
    <3>1. CASE k = n + 1
      BY <1>0, <2>2, <3>1, BeginsSame
    <3>2. CASE k # n + 1
      <4>1. k \in l .. n /\ g[k] = f[k]
        BY <1>0, <2>2, <3>2
      <4>2. RoundRight(f[k]) /\ f[k].tick = k /\ Begins(f[k], a.round)
        BY <1>1, <4>1 DEF Through
      <4> QED BY <1>0, <4>1, <4>2, BeginsOn
    <3> QED BY <3>1, <3>2
  <2>4. ASSUME NEW k \in l .. n
        PROVE  /\ k < Len(x.mine) /\ k < Len(b.mine)
               /\ g[k].result = Going /\ g[k + 1] = Step(g[k], Both(p, x, b, k))
    <3>1. Both(p, x, b, k) = Both(p, a, b, k)
      BY DEF Both
    <3>2. CASE k = n
      BY <1>0, <2>1, <2>2, <3>1, <3>2
    <3>3. CASE k # n
      <4>1. k \in l .. n - 1 /\ k + 1 \in l .. n /\ g[k] = f[k] /\ g[k + 1] = f[k + 1]
        BY <1>0, <2>2, <3>3
      <4> QED BY <1>1, <3>1, <4>1 DEF Through
    <3> QED BY <3>2, <3>3
  <2>5. l <= n + 1 /\ g[l] = b.round
    BY <1>0, <2>1, <2>2
  <2>6. (n + 1) - 1 = n
    BY <1>0
  <2>7. Through(g, p, x, b)
    BY <1>0, <2>2, <2>3, <2>4, <2>5, <2>6 DEF Through
  <2> QED BY <2>7 DEF Onward
<1>2. ASSUME NEW f, Through(f, Other(p), b, a) PROVE Onward(p, x, b) \/ Onward(Other(p), b, x)
  <2>1. CASE n = l
    <3>1. a.round = b.round
      BY <1>2, <2>1 DEF Through
    <3>2. \A k \in l .. n - 1 : FALSE
      BY <1>0, <2>1
    <3>3. \A k \in l .. n : k = n
      BY <1>0, <2>1
    <3>4. Through(f, p, a, b)
      BY <1>0, <1>2, <2>1, <3>1, <3>2, <3>3, BeginsSame DEF Through
    <3> QED BY <1>1, <3>4
  <2>2. CASE n # l
    <3>1. n \in n .. l - 1 /\ n + 1 <= l /\ n + 1 \in n .. l
      BY <1>0, <1>2, <2>2 DEF Through
    <3>2. f[n + 1] = Step(a.round, Both(Other(p), b, a, n)) /\ f[n] = a.round
      BY <1>2, <3>1 DEF Through
    <3>3. Both(Other(p), b, a, n) = Both(p, a, b, n)
      <4>1. \A q \in Player : q = Other(p) <=> q # p
        BY TwoSides
      <4> QED BY <4>1 DEF Both
    <3>4. f[n + 1] = x.round
      BY <3>2, <3>3
    <3>5. ASSUME NEW k \in n + 1 .. l - 1 PROVE k \in n .. l - 1 /\ Both(Other(p), b, x, k) = Both(Other(p), b, a, k)
      BY <1>0 DEF Both
    <3>6. \A k \in n + 1 .. l : k \in n .. l
      BY <1>0
    <3>7. Through(f, Other(p), b, x)
      BY <1>0, <1>2, <3>1, <3>4, <3>5, <3>6 DEF Through
    <3> QED BY <3>7 DEF Onward
  <2> QED BY <2>1, <2>2
<1> QED BY <1>1, <1>2 DEF Abreast, Onward

-----------------------------------------------------------------------------
(* Sessions *)

LEMMA FieldsAre ==
  DOMAIN NewSession =
    {"epoch", "r", "delay", "score", "round", "base", "phase", "again", "mine", "theirs", "acked", "queue",
     "heading", "hashDue", "check", "dirty", "prev", "out"}
BY DEF NewSession

LEMMA ConstantsAre ==
  /\ QUEUE_MAX \in Nat \ {0} /\ MAX_FRAMES \in Nat \ {0} /\ MaxRound \in Nat
  /\ MaxTurns \in Nat /\ MaxFaults \in Nat /\ Delays \subseteq Nat \ {0}
  /\ \A d \in Delays \cup {2} : d \in Nat /\ d > 0
BY TrailsAssumption

LEMMA SideHalf ==
  ASSUME NEW p \in Player, NEW s, SideCore(p, s)
  PROVE  /\ Half(s) /\ s.r \in Int /\ -1 <= s.r /\ s.r <= MaxRound
         /\ s.round.tick \in Nat /\ Len(s.mine) \in Nat /\ s.epoch \in Nat
         /\ s.delay \in Nat /\ s.delay > 0
<1>1. RoundRight(s.round) /\ s.r \in Int /\ -1 <= s.r /\ s.r <= MaxRound
  <2>1. CASE s.phase = "wait"
    BY <2>1, NewRoundIs, ConstantsAre DEF SideCore, WaitRight
  <2>2. CASE s.phase # "wait"
    BY <2>2, ConstantsAre DEF SideCore, GameRight
  <2> QED BY <2>1, <2>2
<1>2. s.round.tick \in Nat
  BY <1>1 DEF RoundRight, RoundType
<1>3. s.mine \in Seq(Frame) /\ PrevRight(s) /\ s.epoch \in Nat /\ s.delay \in Delays \cup {2}
  BY DEF SideCore
<1>4. DOMAIN s.theirs \subseteq Nat
  BY DEF SideCore, TheirsRight
<1>5. Half(s)
  BY <1>1, <1>3, <1>4 DEF Half
<1>6. s.delay \in Nat /\ s.delay > 0
  BY <1>3, ConstantsAre
<1>7. Len(s.mine) \in Nat
  BY <1>3
<1> QED BY <1>1, <1>2, <1>3, <1>5, <1>6, <1>7

LEMMA CopyHalf ==
  ASSUME NEW m, RoundRight(m.round), m.frames[Guest] \in Seq(Frame), m.frames[Host] \in Seq(Frame)
  PROVE  /\ Half(Copy(m)) /\ Copy(m).r = m.r /\ Copy(m).base = m.base /\ Copy(m).round = m.round
         /\ Copy(m).prev = None /\ m.round.tick \in Nat
         /\ Copy(m).mine = Straights(m.round.tick) \o m.frames[Guest]
         /\ Copy(m).theirs = [t \in m.round.tick .. m.round.tick + Len(m.frames[Host]) - 1 |->
                                m.frames[Host][t - m.round.tick + 1]]
<1>1. m.round.tick \in Nat
  BY DEF RoundRight, RoundType
<1>2. Straights(m.round.tick) \in Seq(Frame)
  BY <1>1, Straight0
<1> DEFINE c == Copy(m)
           x == Straights(m.round.tick)
           y == m.frames[Guest]
<1>3. /\ c.r = m.r /\ c.base = m.base /\ c.round = m.round /\ c.prev = None
      /\ c.mine = x \o y
      /\ c.theirs = [t \in m.round.tick .. m.round.tick + Len(m.frames[Host]) - 1 |->
                       m.frames[Host][t - m.round.tick + 1]]
  BY DEF Copy
<1>4. x \o y \in Seq(Frame)
  <2>1. x \in Seq(Frame) /\ y \in Seq(Frame)
    BY <1>2
  <2> HIDE DEF x, y
  <2> QED BY <2>1
<1>5. DOMAIN c.theirs \subseteq Nat
  <2>1. DOMAIN c.theirs = m.round.tick .. m.round.tick + Len(m.frames[Host]) - 1
    BY <1>3
  <2> QED BY <1>1, <2>1
<1>6. Half(c)
  <2> HIDE DEF c
  <2> QED BY <1>3, <1>4, <1>5 DEF Half, PrevRight
<1> QED BY <1>1, <1>3, <1>6

LEMMA QuietIs ==
  ASSUME NEW p \in Player, NEW s, SideRight(p, s), NEW t, Quiet(s, t)
  PROVE  SideRight(p, t)
<1>1. /\ DOMAIN t = DOMAIN NewSession /\ t.again = s.again /\ t.epoch = s.epoch /\ t.delay = s.delay
      /\ t.r = s.r /\ t.score = s.score /\ t.round = s.round /\ t.base = s.base /\ t.phase = s.phase
      /\ t.prev = s.prev /\ t.theirs = s.theirs /\ t.out = s.out /\ t.mine \in Seq(Frame)
      /\ t.acked \in Int /\ t.acked <= Sealed(t) /\ t.queue \in Seq(Dir) /\ Len(t.queue) <= QUEUE_MAX
  BY DEF Quiet, SameGame, SideRight, SideCore, Longer
<1>2. TheirsRight(t) /\ PrevRight(t)
  BY <1>1 DEF SideRight, SideCore, TheirsRight, PrevRight
<1>3. IF t.phase = "wait" THEN WaitRight(t) ELSE GameRight(t) /\ t.delay \in Delays
  BY <1>1 DEF SideRight, SideCore, WaitRight, GameRight
<1> QED BY <1>1, <1>2, <1>3 DEF SideRight, SideCore

LEMMA CarriedLonger ==
  ASSUME NEW m, NEW s, NEW t, m.type = "frames" => m.f \in Nat,
         t.epoch = s.epoch, t.r = s.r, t.prev = s.prev, Longer(s.mine, t.mine), Carried(m, s)
  PROVE  Carried(m, t)
<1>1. ASSUME m.type = "frames", Carries(m, s.mine) PROVE Carries(m, t.mine)
  <2> SUFFICES ASSUME NEW j \in 1 .. Len(m.i)
               PROVE  m.f + j <= Len(t.mine) /\ m.i[j] = t.mine[m.f + j]
    BY DEF Carries
  <2>1. m.f + j <= Len(s.mine) /\ m.i[j] = s.mine[m.f + j] /\ m.f + j \in Nat /\ m.f + j >= 1
    BY <1>1 DEF Carries
  <2>2. Len(s.mine) \in Nat /\ Len(t.mine) \in Nat
    BY DEF Longer
  <2> QED BY <2>1, <2>2 DEF Longer
<1> QED BY <1>1 DEF Carried

\* The same game, its own frames fixed further on, and no more heard: the two sides go together as before.
LEMMA PairLonger ==
  ASSUME NEW p \in Player, NEW s, NEW t, NEW o, Half(s), Half(o), Pair(p, s, o),
         t.r = s.r, t.round = s.round, t.base = s.base, t.prev = s.prev, Longer(s.mine, t.mine),
         DOMAIN t.theirs \subseteq DOMAIN s.theirs, \A k \in DOMAIN t.theirs : t.theirs[k] = s.theirs[k]
  PROVE  Pair(p, t, o)
<1>1. /\ Other(p) \in Player /\ Other(Other(p)) = p
  BY TwoSides
<1>2. /\ s.mine \in Seq(Frame) /\ t.mine \in Seq(Frame) /\ o.mine \in Seq(Frame)
      /\ RoundRight(s.round) /\ RoundRight(o.round) /\ PrevRight(o)
      /\ Len(s.mine) \in Nat /\ Len(t.mine) \in Nat /\ Len(s.mine) <= Len(t.mine)
  BY DEF Half, Longer
<1>3. \A x : HeardOf(s, x) => HeardOf(t, x)
  BY DEF HeardOf
<1>4. HeardOf(o, s.mine) => HeardOf(o, t.mine)
  <2> SUFFICES ASSUME HeardOf(o, s.mine), NEW k \in DOMAIN o.theirs, k >= o.round.tick
               PROVE  k < Len(t.mine) /\ o.theirs[k] = t.mine[k + 1]
    BY DEF HeardOf
  <2>1. k < Len(s.mine) /\ o.theirs[k] = s.mine[k + 1]
    BY DEF HeardOf
  <2>2. k \in Nat
    BY DEF Half
  <2>3. t.mine[k + 1] = s.mine[k + 1] /\ k < Len(t.mine)
    BY <1>2, <2>1, <2>2 DEF Longer
  <2> QED BY <2>1, <2>3
<1>5. \A b : Abreast(p, Now(s), b) /\ b.mine \in Seq(Frame) /\ RoundRight(b.round) => Abreast(p, Now(t), b)
  <2> TAKE b
  <2> HAVE Abreast(p, Now(s), b) /\ b.mine \in Seq(Frame) /\ RoundRight(b.round)
  <2>1. /\ Now(s).mine = s.mine /\ Now(s).round = s.round /\ Now(s).base = s.base
        /\ Now(t).mine = t.mine /\ Now(t).round = s.round /\ Now(t).base = s.base
    BY DEF Now
  <2> QED BY <1>2, <2>1, LongerMine DEF Longer
<1>6. CASE Level(p, s, o)
  <2>1. Now(o).mine = o.mine /\ Now(o).round = o.round
    BY DEF Now
  <2>2. Level(p, t, o)
    BY <1>2, <1>3, <1>4, <1>5, <1>6, <2>1 DEF Level
  <2> QED BY <2>2 DEF Pair
<1>7. CASE AheadOf(p, s, o)
  <2>1. GoneOn(t, o)
    BY <1>7 DEF AheadOf, GoneOn
  <2>2. AheadOf(p, t, o)
    BY <1>7, <2>1 DEF AheadOf
  <2> QED BY <2>2 DEF Pair
<1>8. CASE AheadOf(Other(p), o, s)
  <2>1. GoneOn(o, t) /\ o.r = t.r + 1
    BY <1>8 DEF AheadOf, GoneOn
  <2>2. o.prev[1].mine \in Seq(Frame) /\ RoundRight(o.prev[1].round)
    BY <1>2, <2>1 DEF GoneOn, PrevRight
  <2>3. Abreast(Other(p), o.prev[1], Now(t)) /\ HeardOf(t, o.prev[1].mine)
    <3>1. Abreast(p, Now(s), o.prev[1])
      BY <1>1, <1>8, AbreastSwap DEF AheadOf
    <3>2. Abreast(p, Now(t), o.prev[1])
      BY <1>5, <2>2, <3>1
    <3> QED BY <1>3, <1>8, <3>2, AbreastSwap DEF AheadOf
  <2>4. AheadOf(Other(p), o, t)
    BY <2>1, <2>3 DEF AheadOf
  <2> QED BY <2>4 DEF Pair
<1> QED BY <1>6, <1>7, <1>8 DEF Pair

-----------------------------------------------------------------------------
(* What keeps the two sides right *)

LEMMA SnapCopy ==
  ASSUME NEW p, NEW m, NEW e, MsgRight(p, m, e), m.type = "snap"
  PROVE  RoundRight(m.round) /\ Half(Copy(m))
<1>1. RoundRight(m.round) /\ m.frames[Host] \in Seq(Frame) /\ m.frames[Guest] \in Seq(Frame)
  BY DEF MsgRight, GameRight
<1> QED BY <1>1, CopyHalf

LEMMA KeptLonger ==
  ASSUME NEW s, NEW t, NEW ms, NEW q, NEW e, \A m \in ms : MsgRight(q, m, e),
         t.epoch = s.epoch, t.r = s.r, t.prev = s.prev, Longer(s.mine, t.mine), Kept(s, ms)
  PROVE  Kept(t, ms)
<1>1. ASSUME NEW m \in ms PROVE Carried(m, t)
  <2>1. m.type = "frames" => m.f \in Nat
    BY DEF MsgRight
  <2>2. Carried(m, s)
    BY DEF Kept
  <2> QED BY <2>1, <2>2, CarriedLonger
<1> QED BY <1>1 DEF Kept

\* A side gets on with its game, and the two still go together.
LEMMA Lift ==
  ASSUME NEW p \in Player, NEW s, NEW t, NEW o, NEW in, NEW from, NEW dr, GoodAt(p, s, o, in, from, dr),
         SideRight(p, t), t.epoch = s.epoch, t.r = s.r, t.prev = s.prev, t.out = s.out, Longer(s.mine, t.mine),
         o.epoch = s.epoch /\ dr # s.epoch /\ Pair(p, s, o) => Pair(p, t, o),
         \A x : Half(x) /\ p = Host /\ o.epoch # s.epoch /\ Pair(p, s, x) => Pair(p, t, x)
  PROVE  GoodAt(p, t, o, in, from, dr)
<1>1. CASE p = Host
  <2>1. Good(s, o, in, from, dr)
    BY <1>1 DEF GoodAt
  <2>2. Kept(t, from \cup Range(t.out))
    BY <2>1, KeptLonger DEF Good
  <2>3. ASSUME NEW m \in from \cup Range(t.out), m.type = "snap" /\ m.e = t.epoch /\ o.epoch < t.epoch
        PROVE  m.r = t.r /\ Pair(Host, t, Copy(m))
    <3>1. m.r = s.r /\ Pair(Host, s, Copy(m)) /\ MsgRight(Guest, m, s.epoch)
      BY <2>1, <2>3 DEF Good
    <3>2. Half(Copy(m))
      BY <2>3, <3>1, SnapCopy
    <3>3. o.epoch # s.epoch
      BY <2>1, <2>3 DEF Good, SideRight, SideCore
    <3> QED BY <1>1, <3>1, <3>2, <3>3
  <2>4. Good(t, o, in, from, dr)
    BY <1>1, <2>1, <2>2, <2>3 DEF Good
  <2> QED BY <1>1, <2>4 DEF GoodAt
<1>2. CASE p # Host
  <2>0. p = Guest /\ Other(p) = Host /\ Other(Host) = p
    BY <1>2, TwoSides
  <2>1. Good(o, s, from, in, dr)
    BY <1>2 DEF GoodAt
  <2>2. dr # t.epoch => Kept(t, from \cup Range(t.out))
    BY <2>1, KeptLonger DEF Good
  <2>3. t.epoch = o.epoch /\ dr # o.epoch => Pair(Host, o, t)
    <3> SUFFICES ASSUME t.epoch = o.epoch, dr # o.epoch PROVE Pair(Host, o, t)
      OBVIOUS
    <3>1. Pair(Host, o, s)
      BY <2>1 DEF Good
    <3>2. Pair(p, s, o)
      BY <2>0, <3>1, PairSwap, TwoSides
    <3>3. Pair(p, t, o)
      BY <3>2
    <3> QED BY <2>0, <3>3, PairSwap
  <2>4. Good(o, t, from, in, dr)
    BY <2>0, <2>1, <2>2, <2>3 DEF Good
  <2> QED BY <1>2, <2>4 DEF GoodAt
<1> QED BY <1>1, <1>2

\* Of one side, and of what it sent.
LEMMA GoodSides ==
  ASSUME NEW p \in Player, NEW s, NEW o, NEW in, NEW from, NEW dr, GoodAt(p, s, o, in, from, dr)
  PROVE  /\ SideRight(p, s) /\ SideRight(Other(p), o) /\ Half(s) /\ Half(o)
         /\ \A m \in in \cup Range(o.out) : MsgRight(p, m, o.epoch)
         /\ \A m \in from \cup Range(s.out) : MsgRight(Other(p), m, s.epoch)
         /\ o.epoch = s.epoch /\ dr # s.epoch =>
              Pair(p, s, o) /\ Kept(o, in \cup Range(o.out)) /\ Kept(s, from \cup Range(s.out))
         /\ s.epoch \in Nat /\ o.epoch \in Nat /\ dr \in Int /\ dr <= s.epoch
         /\ p = Host => o.epoch <= s.epoch
         /\ p = Guest => s.epoch <= o.epoch
<1>1. CASE p = Host
  <2>1. Good(s, o, in, from, dr) /\ Other(p) = Guest /\ p # Guest
    BY <1>1, TwoSides DEF GoodAt
  <2>2. SideRight(p, s) /\ SideRight(Other(p), o) /\ Other(p) \in Player
    BY <1>1, <2>1, TwoSides DEF Good
  <2>3. Half(s) /\ Half(o) /\ s.epoch \in Nat /\ o.epoch \in Nat
    BY <2>2, SideHalf DEF SideRight
  <2> QED BY <1>1, <2>1, <2>2, <2>3 DEF Good
<1>2. CASE p # Host
  <2>1. Good(o, s, from, in, dr) /\ Other(p) = Host /\ p = Guest /\ Other(Host) = Guest
    BY <1>2, TwoSides DEF GoodAt
  <2>2. SideRight(p, s) /\ SideRight(Other(p), o) /\ Other(p) \in Player
    BY <1>2, <2>1, TwoSides DEF Good
  <2>3. Half(s) /\ Half(o) /\ s.epoch \in Nat /\ o.epoch \in Nat
    BY <2>2, SideHalf DEF SideRight
  <2>4. o.epoch = s.epoch /\ dr # s.epoch => Pair(p, s, o)
    <3> SUFFICES ASSUME o.epoch = s.epoch, dr # s.epoch PROVE Pair(p, s, o)
      OBVIOUS
    <3>1. Pair(Host, o, s) /\ Host \in Player
      BY <2>1, TwoSides DEF Good
    <3> QED BY <2>1, <3>1, PairSwap
  <2> QED BY <1>2, <2>1, <2>2, <2>3, <2>4 DEF Good
<1> QED BY <1>1, <1>2

\* Nothing of the game changes but what is fixed.
LEMMA QuietGood ==
  ASSUME NEW p \in Player, NEW s, NEW t, NEW o, NEW in, NEW from, NEW dr, GoodAt(p, s, o, in, from, dr),
         Quiet(s, t)
  PROVE  GoodAt(p, t, o, in, from, dr) /\ (Ready(s) => Ready(t))
<1>1. SideRight(p, s) /\ SideRight(p, t) /\ Half(s) /\ Half(o)
  BY GoodSides, QuietIs
<1>2. /\ t.epoch = s.epoch /\ t.r = s.r /\ t.prev = s.prev /\ t.out = s.out /\ Longer(s.mine, t.mine)
      /\ t.round = s.round /\ t.base = s.base /\ t.theirs = s.theirs /\ t.phase = s.phase
  BY DEF Quiet, SameGame
<1>3. \A x : Half(x) /\ Pair(p, s, x) => Pair(p, t, x)
  BY <1>1, <1>2, PairLonger
<1>4. GoodAt(p, t, o, in, from, dr)
  BY <1>1, <1>2, <1>3, Lift
<1>5. Ready(s) => Ready(t)
  <2>1. Len(s.mine) \in Nat /\ Len(t.mine) \in Nat /\ Len(s.mine) <= Len(t.mine)
    BY <1>2 DEF Longer
  <2>2. s.round.tick \in Nat
    BY <1>1, SideHalf DEF SideRight
  <2> QED BY <1>2, <2>1, <2>2 DEF Ready, Sealed
<1> QED BY <1>4, <1>5

-----------------------------------------------------------------------------
(* A tick, and frames heard *)

\* A tick runs by what both have fixed.
LEMMA PairStep ==
  ASSUME NEW p \in Player, NEW s, NEW t, NEW o, Half(s), Half(o), Pair(p, s, o),
         s.round.result = Going, s.round.tick \in DOMAIN s.theirs, s.round.tick < Len(s.mine),
         t.round = Step(s.round, FramesAt(s, p, s.round.tick)),
         t.r = s.r, t.base = s.base, t.prev = s.prev, t.theirs = s.theirs, t.mine = s.mine
  PROVE  Pair(p, t, o)
<1> DEFINE n == s.round.tick
           fr == FramesAt(s, p, n)
<1>0. Other(p) \in Player /\ Other(Other(p)) = p /\ \A q \in Player : q # p => q = Other(p)
  BY TwoSides
<1>1. /\ s.mine \in Seq(Frame) /\ o.mine \in Seq(Frame) /\ RoundRight(s.round) /\ RoundRight(o.round)
      /\ PrevRight(o) /\ Len(s.mine) \in Nat /\ n \in Nat
  BY DEF Half, RoundRight, RoundType
<1>2. t.round.tick = n + 1
  <2> HIDE DEF fr
  <2>1. t.round = Step(s.round, fr)
    BY DEF fr
  <2> QED BY <1>1, <2>1, StepIs
<1>3. \A x : HeardOf(s, x) => HeardOf(t, x)
  <2> SUFFICES ASSUME NEW x, HeardOf(s, x), NEW k \in DOMAIN t.theirs, k >= t.round.tick
               PROVE  k < Len(x) /\ t.theirs[k] = x[k + 1]
    BY DEF HeardOf
  <2>1. k \in Nat /\ k \in DOMAIN s.theirs
    BY DEF Half
  <2>2. k >= n
    BY <1>1, <1>2, <2>1
  <2> QED BY <2>1, <2>2 DEF HeardOf
<1>4. ASSUME NEW b, b.mine \in Seq(Frame), RoundRight(b.round), Abreast(p, Now(s), b), HeardOf(s, b.mine)
      PROVE  Abreast(p, Now(t), b)
  <2>1. n < Len(b.mine) /\ s.theirs[n] = b.mine[n + 1]
    BY <1>1, <1>4 DEF HeardOf
  <2>2. Now(s).base = s.base /\ Now(s).round = s.round /\ Now(s).mine = s.mine
    BY DEF Now
  <2>3. Now(t).base = s.base /\ Now(t).round = t.round /\ Now(t).mine = s.mine
    BY DEF Now
  <2>4. fr = Both(p, Now(s), b, n)
    <3>1. ~(n > Sealed(s))
      BY <1>1 DEF Sealed
    <3> QED BY <2>1, <2>2, <3>1 DEF FramesAt, Both
  <2> HIDE DEF fr
  <2>5. t.round = Step(Now(s).round, Both(p, Now(s), b, Now(s).round.tick))
    BY <2>2, <2>4 DEF fr
  <2> DEFINE a == Now(s)
             x == Now(t)
  <2>6. /\ Abreast(p, a, b) /\ x.base = a.base /\ x.mine = a.mine /\ a.mine \in Seq(Frame) /\ RoundRight(a.round)
        /\ a.round.result = Going /\ a.round.tick < Len(a.mine) /\ a.round.tick < Len(b.mine)
        /\ x.round = Step(a.round, Both(p, a, b, a.round.tick))
    BY <1>1, <1>4, <2>1, <2>2, <2>3, <2>5
  <2> HIDE DEF a, x
  <2>7. Abreast(p, x, b)
    BY <1>4, <2>6, TrackStep
  <2> QED BY <2>7 DEF x
<1>5. CASE Level(p, s, o)
  <2>1. Now(o).mine = o.mine /\ Now(o).round = o.round
    BY DEF Now
  <2>2. Level(p, t, o)
    BY <1>1, <1>3, <1>4, <1>5, <2>1 DEF Level
  <2> QED BY <2>2 DEF Pair
<1>6. CASE AheadOf(p, s, o)
  BY <1>6 DEF AheadOf, GoneOn
<1>7. CASE AheadOf(Other(p), o, s)
  <2>1. GoneOn(o, t) /\ o.r = t.r + 1
    BY <1>7 DEF AheadOf, GoneOn
  <2>2. o.prev[1].mine \in Seq(Frame) /\ RoundRight(o.prev[1].round)
    BY <1>1, <2>1 DEF GoneOn, PrevRight
  <2>3. Abreast(Other(p), o.prev[1], Now(t)) /\ HeardOf(t, o.prev[1].mine)
    <3>1. Abreast(p, Now(s), o.prev[1])
      BY <1>0, <1>7, AbreastSwap DEF AheadOf
    <3>2. HeardOf(s, o.prev[1].mine)
      BY <1>7 DEF AheadOf
    <3>3. Abreast(p, Now(t), o.prev[1])
      BY <1>4, <2>2, <3>1, <3>2
    <3> QED BY <1>3, <3>2, <3>3, AbreastSwap
  <2>4. AheadOf(Other(p), o, t)
    BY <2>1, <2>3 DEF AheadOf
  <2> QED BY <2>4 DEF Pair
<1> QED BY <1>5, <1>6, <1>7 DEF Pair

\* Frames heard are frames the other has fixed.
LEMMA PairHeard ==
  ASSUME NEW p \in Player, NEW s, NEW t, NEW o, NEW m, NEW new, Half(s), Half(o), Pair(p, s, o),
         m.type = "frames", m.f \in Nat, m.i \in Seq(Frame), m.e = o.epoch, m.r = s.r, s.r \in Int, o.r \in Int,
         Carried(m, o), new \subseteq m.f .. m.f + Len(m.i) - 1,
         t.theirs = [k \in new \cup DOMAIN s.theirs |-> IF k \in new THEN m.i[k - m.f + 1] ELSE s.theirs[k]],
         t.r = s.r, t.base = s.base, t.prev = s.prev, t.round = s.round, t.mine = s.mine
  PROVE  Pair(p, t, o)
<1>1. ASSUME NEW x, Carries(m, x), HeardOf(s, x) PROVE HeardOf(t, x)
  <2> SUFFICES ASSUME NEW k \in DOMAIN t.theirs, k >= t.round.tick
               PROVE  k < Len(x) /\ t.theirs[k] = x[k + 1]
    BY DEF HeardOf
  <2>1. CASE k \in new
    <3>1. t.theirs[k] = m.i[k - m.f + 1] /\ k \in m.f .. m.f + Len(m.i) - 1 /\ k \in Int
      BY <2>1
    <3>2. Len(m.i) \in Nat
      OBVIOUS
    <3> DEFINE j == k - m.f + 1
    <3>3. j \in 1 .. Len(m.i) /\ m.f + j = k + 1
      BY <3>1, <3>2
    <3>4. m.f + j <= Len(x) /\ m.i[j] = x[m.f + j]
      BY <1>1, <3>3 DEF Carries
    <3>5. k < Len(x) /\ Len(x) = Len(x)
      BY <3>1, <3>3, <3>4
    <3> QED BY <3>1, <3>3, <3>4, <3>5
  <2>2. CASE k \notin new
    <3>1. k \in DOMAIN s.theirs /\ t.theirs[k] = s.theirs[k] /\ k >= s.round.tick
      BY <2>2
    <3> QED BY <1>1, <3>1 DEF HeardOf
  <2> QED BY <2>1, <2>2
<1>2. Now(t) = Now(s)
  BY DEF Now
<1>3. CASE Level(p, s, o)
  <2>1. Carries(m, o.mine)
    BY <1>3 DEF Carried, Level
  <2>2. HeardOf(t, o.mine) /\ HeardOf(o, t.mine)
    BY <1>1, <1>3, <2>1 DEF Level
  <2>3. Level(p, t, o)
    BY <1>2, <1>3, <2>2 DEF Level
  <2> QED BY <2>3 DEF Pair
<1>4. CASE AheadOf(p, s, o)
  <2>1. m.r = o.r + 1
    BY <1>4 DEF AheadOf
  <2> QED BY <2>1 DEF Carried
<1>5. CASE AheadOf(Other(p), o, s)
  <2>1. o.r = s.r + 1
    BY <1>5 DEF AheadOf
  <2>2. Carries(m, o.prev[1].mine)
    BY <2>1 DEF Carried
  <2>3. HeardOf(t, o.prev[1].mine)
    BY <1>1, <1>5, <2>2 DEF AheadOf
  <2>4. GoneOn(o, t)
    BY <1>5 DEF AheadOf, GoneOn
  <2>5. AheadOf(Other(p), o, t)
    BY <1>2, <1>5, <2>3, <2>4 DEF AheadOf
  <2> QED BY <2>5 DEF Pair
<1> QED BY <1>3, <1>4, <1>5 DEF Pair

-----------------------------------------------------------------------------
(* What is posted *)

LEMMA LongerSame ==
  ASSUME NEW a \in Seq(Frame)
  PROVE  Longer(a, a)
BY DEF Longer

LEMMA SubSeqIs ==
  ASSUME NEW S, NEW q \in Seq(S), NEW a \in Nat, a > 0, NEW b \in Int, b <= Len(q)
  PROVE  /\ SubSeq(q, a, b) \in Seq(S)
         /\ Len(SubSeq(q, a, b)) = IF a <= b THEN b - a + 1 ELSE 0
         /\ \A i \in 1 .. b - a + 1 : SubSeq(q, a, b)[i] = q[a + i - 1]
OBVIOUS

\* There is a first frame of the other's not heard, from where the round is.
LEMMA TheirNextIs ==
  ASSUME NEW s, TheirsRight(s), s.round.tick \in Nat
  PROVE  /\ TheirNext(s) \in Nat /\ s.round.tick <= TheirNext(s)
         /\ \A u \in s.round.tick .. TheirNext(s) - 1 : u \in DOMAIN s.theirs
         /\ TheirNext(s) \notin DOMAIN s.theirs
<1> DEFINE n == s.round.tick
           D == DOMAIN s.theirs
           c == Cardinality(D)
           K == {k \in n .. n + c : k \notin D}
<1>1. IsFiniteSet(D) /\ c \in Nat /\ n \in Nat
  BY FS_CardinalityType DEF TheirsRight
<1>2. K # {}
  <2>1. SUFFICES ASSUME K = {} PROVE FALSE
    OBVIOUS
  <2>2. n .. n + c \subseteq D
    BY <2>1
  <2>3. Cardinality(n .. n + c) = c + 1
    BY <1>1, FS_Interval
  <2>4. Cardinality(n .. n + c) <= c
    BY <1>1, <2>2, FS_Subset
  <2> QED BY <1>1, <2>3, <2>4
<1>3. K \in SUBSET Nat
  BY <1>1
<1>4. PICK t \in K : \A k \in K : t <= k
  BY <1>2, <1>3, Least
<1>5. t \in n .. n + c /\ t \notin D /\ \A u \in n .. t - 1 : u \in D
  BY <1>1, <1>4
<1> DEFINE Is(x) == x \notin D /\ \A u \in n .. x - 1 : u \in D
<1>6. TheirNext(s) = CHOOSE x \in n .. n + c : Is(x)
  BY DEF TheirNext
<1>7. TheirNext(s) \in n .. n + c /\ Is(TheirNext(s))
  BY <1>5, <1>6
<1> QED BY <1>1, <1>7

LEMMA PostIs ==
  ASSUME NEW p, NEW s, SideCore(p, s), NEW m, NEW t, t = Post(s, m)
  PROVE  /\ DOMAIN t = DOMAIN s /\ t.out = Append(s.out, m) /\ SameGame(s, t)
         /\ t.theirs = s.theirs /\ t.mine = s.mine /\ t.acked = s.acked /\ t.queue = s.queue
<1>1. DOMAIN s = DOMAIN NewSession
  BY DEF SideCore
<1> QED BY <1>1, FieldsAre DEF Post, SameGame

LEMMA PostRight ==
  ASSUME NEW p, NEW s, SideRight(p, s), NEW m, NEW t, t = Post(s, m)
  PROVE  SideRight(p, t) /\ Range(t.out) = Range(s.out) \cup {m}
<1>1. SideCore(p, s)
  BY DEF SideRight
<1>2. /\ DOMAIN t = DOMAIN s /\ SameGame(s, t) /\ t.out = Append(s.out, m)
      /\ t.theirs = s.theirs /\ t.mine = s.mine /\ t.acked = s.acked /\ t.queue = s.queue
  BY <1>1, PostIs
<1>3. /\ t.epoch = s.epoch /\ t.r = s.r /\ t.delay = s.delay /\ t.score = s.score
      /\ t.round = s.round /\ t.base = s.base /\ t.phase = s.phase /\ t.again = s.again /\ t.prev = s.prev
  BY <1>2 DEF SameGame
<1>4. IsSeq(t.out) /\ Range(t.out) = Range(s.out) \cup {m}
  <2>1. IsSeq(s.out)
    BY <1>1 DEF SideCore
  <2> DEFINE z == s.out
  <2>2. IsSeq(Append(z, m)) /\ Range(Append(z, m)) = Range(z) \cup {m}
    <3> HIDE DEF z
    <3>1. IsSeq(z)
      BY <2>1 DEF z
    <3> QED BY <3>1, PostOne
  <2> QED BY <1>2, <2>2
<1>5. TheirsRight(t) /\ PrevRight(t) /\ t.acked <= Sealed(t)
  BY <1>1, <1>2, <1>3 DEF SideCore, TheirsRight, PrevRight, Sealed
<1>6. IF t.phase = "wait" THEN WaitRight(t) ELSE GameRight(t) /\ t.delay \in Delays
  BY <1>1, <1>2, <1>3 DEF SideCore, WaitRight, GameRight
<1> QED BY <1>1, <1>2, <1>3, <1>4, <1>5, <1>6 DEF SideRight, SideCore

\* A side sends what it may.
LEMMA PostGood ==
  ASSUME NEW p \in Player, NEW s, NEW o, NEW in, NEW from, NEW dr, GoodAt(p, s, o, in, from, dr),
         NEW m, MsgRight(Other(p), m, s.epoch), m.type # "snap",
         ~(p = Guest /\ dr = s.epoch) => Carried(m, s),
         NEW t, t = Post(s, m)
  PROVE  GoodAt(p, t, o, in, from, dr) /\ (Ready(s) => Ready(t))
<1>1. SideRight(p, s) /\ SideCore(p, s) /\ Half(s) /\ Half(o) /\ SideRight(Other(p), o)
  BY GoodSides DEF SideRight
<1>2. SideRight(p, t) /\ Range(t.out) = Range(s.out) \cup {m}
  BY <1>1, PostRight
<1>3. /\ t.epoch = s.epoch /\ t.r = s.r /\ t.prev = s.prev /\ t.round = s.round /\ t.base = s.base
      /\ t.phase = s.phase /\ t.theirs = s.theirs /\ t.mine = s.mine
  BY <1>1, PostIs DEF SameGame
<1>4. \A x : Half(x) /\ Pair(p, s, x) => Pair(p, t, x)
  <2>1. Longer(s.mine, t.mine)
    BY <1>1, <1>3, LongerSame DEF Half
  <2> QED BY <1>1, <1>3, <2>1, PairLonger
<1>5. \A x : Carried(x, s) => Carried(x, t)
  BY <1>3 DEF Carried
<1>6. CASE p = Host
  <2>1. Good(s, o, in, from, dr) /\ Other(p) = Guest /\ p # Guest
    BY <1>6, TwoSides DEF GoodAt
  <2>2. Kept(t, from \cup Range(t.out))
    BY <1>2, <1>3, <1>5, <2>1 DEF Good, Kept
  <2>3. ASSUME NEW x \in from \cup Range(t.out), x.type = "snap" /\ x.e = t.epoch /\ o.epoch < t.epoch
        PROVE  x.r = t.r /\ Pair(Host, t, Copy(x))
    <3>0. x \in from \cup Range(s.out)
      BY <1>2, <2>3
    <3>1. x.r = s.r /\ Pair(Host, s, Copy(x)) /\ MsgRight(Guest, x, s.epoch)
      BY <1>3, <2>1, <2>3, <3>0 DEF Good
    <3>2. Half(Copy(x))
      BY <2>3, <3>1, SnapCopy
    <3> QED BY <1>3, <1>4, <1>6, <3>1, <3>2
  <2>4. \A x \in from \cup Range(t.out) : MsgRight(Guest, x, t.epoch)
    BY <1>2, <1>3, <2>1 DEF Good
  <2>5. o.epoch = t.epoch /\ dr # t.epoch => Pair(Host, t, o)
    BY <1>1, <1>3, <1>4, <1>6, <2>1 DEF Good
  <2>6. Good(t, o, in, from, dr)
    BY <1>1, <1>2, <1>3, <1>6, <2>1, <2>2, <2>3, <2>4, <2>5 DEF Good
  <2> QED BY <1>3, <1>6, <2>6 DEF GoodAt, Ready, Sealed
<1>7. CASE p # Host
  <2>0. p = Guest /\ Other(p) = Host /\ Other(Host) = p /\ Host \in Player
    BY <1>7, TwoSides
  <2>1. Good(o, s, from, in, dr)
    BY <1>7 DEF GoodAt
  <2>2. dr # t.epoch => Kept(t, from \cup Range(t.out))
    BY <1>2, <1>3, <1>5, <2>0, <2>1 DEF Good, Kept
  <2>3. t.epoch = o.epoch /\ dr # o.epoch => Pair(Host, o, t)
    <3> SUFFICES ASSUME t.epoch = o.epoch, dr # o.epoch PROVE Pair(Host, o, t)
      OBVIOUS
    <3>1. Pair(Host, o, s)
      BY <1>3, <2>1 DEF Good
    <3>2. Pair(p, t, o)
      BY <1>1, <1>4, <2>0, <3>1, PairSwap
    <3> QED BY <2>0, <3>2, PairSwap
  <2>4. \A x \in from \cup Range(t.out) : MsgRight(Host, x, t.epoch)
    BY <1>2, <1>3, <2>0, <2>1 DEF Good
  <2>5. Good(o, t, from, in, dr)
    BY <1>2, <1>3, <2>0, <2>1, <2>2, <2>3, <2>4 DEF Good
  <2> QED BY <1>3, <1>7, <2>5 DEF GoodAt, Ready, Sealed
<1> QED BY <1>6, <1>7

-----------------------------------------------------------------------------
(* A snapshot *)

\* What a snapshot tells, and what it leaves.
SnapOf(u, t, m) ==
  /\ DOMAIN t = DOMAIN u /\ t.epoch = u.epoch + 1 /\ t.r = u.r /\ t.delay = u.delay /\ t.score = u.score
  /\ t.round = u.round /\ t.base = u.base /\ t.phase = u.phase /\ t.again = u.again /\ t.prev = u.prev
  /\ t.mine = u.mine /\ t.acked = u.acked /\ t.queue = u.queue /\ t.out = Append(u.out, m)
  /\ DOMAIN t.theirs \subseteq DOMAIN u.theirs /\ \A k \in DOMAIN t.theirs : t.theirs[k] = u.theirs[k]
  /\ m.type = "snap" /\ m.e = t.epoch /\ m.r = u.r /\ m.d = u.delay /\ m.score = u.score
  /\ m.phase = u.phase /\ m.round = u.round /\ m.base = u.base
  /\ m.frames[Host] \in Seq(Frame) /\ m.frames[Guest] \in Seq(Frame)
  /\ \A i \in 1 .. Len(m.frames[Host]) :
       u.round.tick + i <= Len(u.mine) /\ m.frames[Host][i] = u.mine[u.round.tick + i]
  /\ \A k \in DOMAIN t.theirs : k >= u.round.tick =>
       k - u.round.tick + 1 \in 1 .. Len(m.frames[Guest]) /\ u.theirs[k] = m.frames[Guest][k - u.round.tick + 1]
  /\ \A k \in u.round.tick .. u.round.tick + Len(m.frames[Guest]) - 1 : k \in DOMAIN t.theirs
  /\ u.phase \in {"run", "count"} =>
       Len(u.mine) <= u.round.tick + Len(m.frames[Host]) \/ Len(u.mine) > u.round.tick + MAX_FRAMES

LEMMA SnapshotIs ==
  ASSUME NEW p \in Player, NEW u, SideCore(p, u), NEW t, t = Snapshot(u)
  PROVE  \E m : SnapOf(u, t, m)
<1> DEFINE tick    == u.round.tick
           running == u.phase \in {"run", "count"}
           mine    == IF running THEN SubSeq(u.mine, tick + 1, Min({Len(u.mine), tick + MAX_FRAMES})) ELSE <<>>
           heard   == IF running THEN Min({TheirNext(u) - tick, MAX_FRAMES}) ELSE 0
           theirs  == [i \in 1 .. heard |-> u.theirs[tick + i - 1]]
           m       == [type |-> "snap", e |-> u.epoch + 1, r |-> u.r, d |-> u.delay, score |-> u.score,
                       phase |-> u.phase, round |-> u.round, base |-> u.base,
                       frames |-> <<mine, theirs>>]
           D       == {k \in DOMAIN u.theirs : k < tick + heard}
<1>1. t = Post([u EXCEPT !.epoch = @ + 1, !.check = None, !.theirs = [k \in D |-> u.theirs[k]]], m)
  BY DEF Snapshot
<1>2. /\ tick \in Nat /\ u.mine \in Seq(Frame) /\ Len(u.mine) \in Nat /\ TheirsRight(u)
      /\ DOMAIN u = DOMAIN NewSession /\ MAX_FRAMES \in Nat
  BY SideHalf, ConstantsAre DEF Half, SideCore
<1>3. /\ mine \in Seq(Frame)
      /\ \A i \in 1 .. Len(mine) : tick + i <= Len(u.mine) /\ mine[i] = u.mine[tick + i]
      /\ running => Len(u.mine) <= tick + Len(mine) \/ Len(u.mine) > tick + MAX_FRAMES
  <2>1. CASE running
    <3> DEFINE b == Min({Len(u.mine), tick + MAX_FRAMES})
    <3>1. b \in Int /\ b <= Len(u.mine) /\ (b = Len(u.mine) \/ Len(u.mine) > tick + MAX_FRAMES)
      <4> DEFINE y == tick + MAX_FRAMES
                 n == Len(u.mine)
      <4>1. y \in Int /\ n \in Int
        BY <1>2
      <4> HIDE DEF y, n
      <4>2. Min({n, y}) \in Int /\ Min({n, y}) <= n /\ (Min({n, y}) = n \/ n > y)
        BY <4>1, MinTwo
      <4> QED BY <4>2 DEF y, n
    <3> HIDE DEF b
    <3> DEFINE a == tick + 1
               q == u.mine
               x == SubSeq(q, a, b)
    <3>2. /\ x \in Seq(Frame) /\ Len(x) = IF a <= b THEN b - a + 1 ELSE 0
          /\ \A i \in 1 .. b - a + 1 : x[i] = q[a + i - 1]
      <4>1. a \in Nat /\ a > 0 /\ q \in Seq(Frame) /\ b <= Len(q)
        BY <1>2, <3>1
      <4> HIDE DEF a, q
      <4> QED BY <3>1, <4>1, SubSeqIs
    <3>3. mine = x
      BY <2>1 DEF b
    <3> HIDE DEF x, mine
    <3>4. ASSUME NEW i \in 1 .. Len(mine) PROVE tick + i <= Len(u.mine) /\ mine[i] = u.mine[tick + i]
      <4> DEFINE n == tick
      <4>0. n \in Int /\ a = n + 1
        BY <1>2
      <4> HIDE DEF n, a
      <4>1. i \in Int /\ 1 <= i /\ i <= Len(x)
        BY <3>2, <3>3
      <4>2. a <= b /\ i <= b - a + 1
        BY <3>1, <3>2, <4>0, <4>1
      <4>3. i \in 1 .. b - a + 1 /\ a + i - 1 = n + i /\ n + i <= b
        BY <3>1, <4>0, <4>1, <4>2
      <4>4. x[i] = u.mine[n + i]
        BY <3>2, <4>3
      <4>5. n + i <= Len(u.mine)
        BY <1>2, <3>1, <4>0, <4>1, <4>3
      <4> QED BY <3>3, <4>4, <4>5 DEF n
    <3>5. Len(u.mine) <= tick + Len(mine) \/ Len(u.mine) > tick + MAX_FRAMES
      <4> DEFINE n == tick
                 l == Len(u.mine)
      <4>1. n \in Nat /\ l \in Nat /\ a = n + 1
        BY <1>2
      <4> HIDE DEF n, a, l
      <4>2. b = l => l <= n + Len(x)
        BY <3>1, <3>2, <4>1
      <4> QED BY <3>1, <3>3, <4>2 DEF n, l
    <3> QED BY <3>2, <3>3, <3>4, <3>5
  <2>2. CASE ~running
    <3>1. mine = <<>>
      BY <2>2
    <3> HIDE DEF mine
    <3> QED BY <2>2, <3>1
  <2> QED BY <2>1, <2>2
<1>4. /\ heard \in Nat /\ \A i \in 1 .. heard : tick + i - 1 \in DOMAIN u.theirs
  <2>1. /\ TheirNext(u) \in Nat /\ tick <= TheirNext(u)
        /\ \A k \in tick .. TheirNext(u) - 1 : k \in DOMAIN u.theirs
    BY <1>2, TheirNextIs
  <2>2. heard \in Nat /\ heard <= TheirNext(u) - tick
    <3> DEFINE y == TheirNext(u) - tick
    <3>1. y \in Nat /\ MAX_FRAMES \in Nat
      BY <1>2, <2>1
    <3>2. heard = IF running THEN Min({y, MAX_FRAMES}) ELSE 0
      OBVIOUS
    <3> HIDE DEF y, heard, running
    <3>3. Min({y, MAX_FRAMES}) \in Nat /\ Min({y, MAX_FRAMES}) <= y
      BY ONLY <3>1, MinOfNats
    <3>4. heard \in Nat /\ heard <= y
      BY ONLY <3>1, <3>2, <3>3
    <3> QED BY <3>4 DEF y
  <2> HIDE DEF heard
  <2> QED BY <1>2, <2>1, <2>2
<1>5. theirs \in Seq(Frame) /\ Len(theirs) = heard
  <2>1. \A k \in DOMAIN u.theirs : u.theirs[k] \in Frame
    BY <1>2 DEF TheirsRight, Range
  <2> HIDE DEF heard
  <2> QED BY <1>2, <1>4, <2>1
<1> HIDE DEF heard, mine, theirs
<1>6. /\ m.type = "snap" /\ m.e = u.epoch + 1 /\ m.r = u.r /\ m.d = u.delay /\ m.score = u.score
      /\ m.phase = u.phase /\ m.round = u.round /\ m.base = u.base
      /\ m.frames[Host] = mine /\ m.frames[Guest] = theirs
  BY DEF Host, Guest
<1> HIDE DEF m, D
<1>7. /\ DOMAIN t = DOMAIN u /\ t.epoch = u.epoch + 1 /\ t.r = u.r /\ t.delay = u.delay /\ t.score = u.score
      /\ t.round = u.round /\ t.base = u.base /\ t.phase = u.phase /\ t.again = u.again /\ t.prev = u.prev
      /\ t.mine = u.mine /\ t.acked = u.acked /\ t.queue = u.queue /\ t.out = Append(u.out, m)
      /\ t.theirs = [k \in D |-> u.theirs[k]]
  BY <1>1, <1>2, FieldsAre DEF Post
<1>8. DOMAIN t.theirs \subseteq DOMAIN u.theirs /\ \A k \in DOMAIN t.theirs : t.theirs[k] = u.theirs[k]
  BY <1>7 DEF D
<1>9. ASSUME NEW k \in DOMAIN t.theirs, k >= tick
      PROVE  k - tick + 1 \in 1 .. heard /\ u.theirs[k] = theirs[k - tick + 1]
  <2>1. k \in D /\ k \in Nat
    BY <1>2, <1>7, <1>9 DEF D, TheirsRight
  <2>2. k - tick + 1 \in 1 .. heard
    BY <1>2, <1>4, <1>9, <2>1 DEF D
  <2>3. tick + (k - tick + 1) - 1 = k
    BY <1>2, <2>1
  <2> QED BY <2>2, <2>3 DEF theirs
<1>11. ASSUME NEW k \in tick .. tick + heard - 1 PROVE k \in DOMAIN t.theirs
  <2>1. k - tick + 1 \in 1 .. heard /\ tick + (k - tick + 1) - 1 = k
    BY <1>2, <1>4
  <2>2. k \in DOMAIN u.theirs
    BY <1>4, <2>1
  <2>3. k < tick + heard
    BY <1>2, <1>4
  <2> QED BY <1>7, <2>2, <2>3 DEF D
<1>10. SnapOf(u, t, m)
  BY <1>3, <1>5, <1>6, <1>7, <1>8, <1>9, <1>11 DEF SnapOf
<1> QED BY <1>10

LEMMA ConcatIs ==
  ASSUME NEW S, NEW x \in Seq(S), NEW y \in Seq(S)
  PROVE  /\ x \o y \in Seq(S) /\ Len(x \o y) = Len(x) + Len(y)
         /\ \A i \in 1 .. Len(x) : (x \o y)[i] = x[i]
         /\ \A i \in 1 .. Len(y) : (x \o y)[Len(x) + i] = y[i]
OBVIOUS

\* The two are as far as each other when the guest has taken the game.
LEMMA SnapPair ==
  ASSUME NEW u, SideCore(Host, u), NEW t, NEW m, SnapOf(u, t, m)
  PROVE  Pair(Host, t, Copy(m))
<1> DEFINE tick == u.round.tick
           c    == Copy(m)
           x    == Straights(tick)
           y    == m.frames[Guest]
           f    == m.frames[Host]
<1>1. /\ tick \in Nat /\ u.mine \in Seq(Frame) /\ Len(u.mine) \in Nat /\ RoundRight(u.round)
      /\ DOMAIN u.theirs \subseteq Nat
  BY TwoSides, SideHalf DEF Half
<1>2. /\ t.r = u.r /\ t.base = u.base /\ t.round = u.round /\ t.mine = u.mine /\ m.round = u.round /\ m.base = u.base
      /\ m.r = u.r /\ y \in Seq(Frame) /\ f \in Seq(Frame)
      /\ DOMAIN t.theirs \subseteq DOMAIN u.theirs /\ \A k \in DOMAIN t.theirs : t.theirs[k] = u.theirs[k]
      /\ \A i \in 1 .. Len(f) : tick + i <= Len(u.mine) /\ f[i] = u.mine[tick + i]
      /\ \A k \in DOMAIN t.theirs : k >= tick =>
           k - tick + 1 \in 1 .. Len(y) /\ u.theirs[k] = y[k - tick + 1]
  BY DEF SnapOf
<1>3. /\ c.r = u.r /\ c.base = u.base /\ c.round = u.round
      /\ c.mine = x \o y
      /\ c.theirs = [k \in tick .. tick + Len(f) - 1 |-> f[k - tick + 1]]
  <2>1. RoundRight(m.round) /\ m.frames[Guest] \in Seq(Frame) /\ m.frames[Host] \in Seq(Frame)
    BY <1>1, <1>2
  <2>2. /\ c.r = m.r /\ c.base = m.base /\ c.round = m.round
        /\ c.mine = Straights(m.round.tick) \o m.frames[Guest]
        /\ c.theirs = [k \in m.round.tick .. m.round.tick + Len(m.frames[Host]) - 1 |->
                         m.frames[Host][k - m.round.tick + 1]]
    BY <2>1, CopyHalf
  <2> QED BY <1>2, <2>2
<1>4. x \in Seq(Frame) /\ Len(x) = tick
  BY <1>1, Straight0
<1> HIDE DEF c, x, y, f
<1>5. /\ Len(c.mine) = tick + Len(y)
      /\ \A i \in 1 .. Len(y) : c.mine[tick + i] = y[i]
  <2>1. x \in Seq(Frame) /\ y \in Seq(Frame)
    BY <1>2, <1>4
  <2>2. /\ Len(x \o y) = Len(x) + Len(y)
        /\ \A i \in 1 .. Len(y) : (x \o y)[Len(x) + i] = y[i]
    BY <2>1
  <2> DEFINE z == x \o y
  <2>3. c.mine = z /\ Len(z) = Len(x) + Len(y) /\ \A i \in 1 .. Len(y) : z[Len(x) + i] = y[i]
    BY <1>3, <2>2
  <2> HIDE DEF z
  <2> QED BY <1>4, <2>3
<1>6. HeardOf(t, c.mine)
  <2> SUFFICES ASSUME NEW k \in DOMAIN t.theirs, k >= tick
               PROVE  k < Len(c.mine) /\ t.theirs[k] = c.mine[k + 1]
    BY <1>2 DEF HeardOf
  <2>1. k - tick + 1 \in 1 .. Len(y) /\ t.theirs[k] = y[k - tick + 1] /\ k \in Nat
    BY <1>1, <1>2
  <2>2. tick + (k - tick + 1) = k + 1 /\ k < tick + Len(y)
    BY <1>1, <1>2, <2>1
  <2>3. c.mine[tick + (k - tick + 1)] = y[k - tick + 1]
    BY <1>5, <2>1
  <2> QED BY <1>5, <2>1, <2>2, <2>3
<1>7. HeardOf(c, t.mine)
  <2> SUFFICES ASSUME NEW k \in DOMAIN c.theirs, k >= tick
               PROVE  k < Len(u.mine) /\ c.theirs[k] = u.mine[k + 1]
    BY <1>2, <1>3 DEF HeardOf
  <2>1. k \in tick .. tick + Len(f) - 1 /\ c.theirs[k] = f[k - tick + 1] /\ k \in Nat
    BY <1>1, <1>3
  <2> DEFINE l == Len(f)
  <2>a. l \in Nat
    BY <1>2
  <2> HIDE DEF l
  <2>b. k \in tick .. tick + l - 1
    BY <2>1 DEF l
  <2>c. k - tick + 1 \in 1 .. l /\ tick + (k - tick + 1) = k + 1
    BY <1>1, <2>1, <2>a, <2>b
  <2>2. k - tick + 1 \in 1 .. Len(f) /\ tick + (k - tick + 1) = k + 1
    BY <2>c DEF l
  <2>3. tick + (k - tick + 1) <= Len(u.mine) /\ f[k - tick + 1] = u.mine[tick + (k - tick + 1)]
    BY <1>2, <2>2
  <2> QED BY <1>1, <2>1, <2>2, <2>3
<1>8. Abreast(Host, Now(t), Now(c))
  <2>1. Now(t).base = Now(c).base /\ Now(t).round = Now(c).round /\ RoundRight(Now(t).round)
    BY <1>1, <1>2, <1>3 DEF Now
  <2> QED BY <2>1, TwoSides, SameRound
<1>9. Level(Host, t, c)
  BY <1>2, <1>3, <1>6, <1>7, <1>8 DEF Level
<1> QED BY <1>9 DEF Pair, c

LEMMA SnapRight ==
  ASSUME NEW u, SideCore(Host, u), u.phase # "wait", NEW t, NEW m, SnapOf(u, t, m)
  PROVE  /\ SideRight(Host, t) /\ Range(t.out) = Range(u.out) \cup {m} /\ MsgRight(Guest, m, t.epoch)
         /\ (Ready(u) => Ready(t))
<1>1. /\ DOMAIN t = DOMAIN u /\ t.epoch = u.epoch + 1 /\ t.r = u.r /\ t.delay = u.delay /\ t.score = u.score
      /\ t.round = u.round /\ t.base = u.base /\ t.phase = u.phase /\ t.again = u.again /\ t.prev = u.prev
      /\ t.mine = u.mine /\ t.acked = u.acked /\ t.queue = u.queue /\ t.out = Append(u.out, m)
      /\ DOMAIN t.theirs \subseteq DOMAIN u.theirs /\ \A k \in DOMAIN t.theirs : t.theirs[k] = u.theirs[k]
  BY DEF SnapOf
<1>2. IsSeq(t.out) /\ Range(t.out) = Range(u.out) \cup {m}
  <2> DEFINE z == u.out
  <2>1. IsSeq(z)
    BY DEF SideCore
  <2> HIDE DEF z
  <2>2. IsSeq(Append(z, m)) /\ Range(Append(z, m)) = Range(z) \cup {m}
    BY <2>1, PostOne
  <2> QED BY <1>1, <2>2 DEF z
<1>3. TheirsRight(t)
  <2>1. IsFiniteSet(DOMAIN t.theirs)
    BY <1>1, FS_Subset DEF SideCore, TheirsRight
  <2>2. Range(t.theirs) \subseteq Range(u.theirs)
    BY <1>1 DEF Range
  <2> QED BY <1>1, <2>1, <2>2 DEF SideCore, TheirsRight
<1>4. PrevRight(t) /\ t.acked <= Sealed(t) /\ (Ready(u) => Ready(t))
  BY <1>1 DEF SideCore, PrevRight, Sealed, Ready
<1>5. GameRight(t) /\ t.delay \in Delays
  BY <1>1 DEF SideCore, GameRight
<1>6. t.epoch \in Nat /\ t.epoch > 0
  BY <1>1 DEF SideCore
<1>7. SideRight(Host, t)
  BY <1>1, <1>2, <1>3, <1>4, <1>5, <1>6 DEF SideRight, SideCore
<1>8. MsgRight(Guest, m, t.epoch)
  <2>1. /\ m.type = "snap" /\ m.e = t.epoch /\ m.r = u.r /\ m.d = u.delay /\ m.score = u.score
        /\ m.phase = u.phase /\ m.round = u.round /\ m.base = u.base
        /\ m.frames[Host] \in Seq(Frame) /\ m.frames[Guest] \in Seq(Frame)
    BY DEF SnapOf
  <2>2. GameRight(m)
    BY <2>1 DEF SideCore, GameRight
  <2>3. m.e \in 0 .. t.epoch /\ m.e > 0 /\ m.d \in Delays /\ m.type # "frames"
    BY <1>1, <1>5, <1>6, <2>1
  <2> QED BY <2>1, <2>2, <2>3 DEF MsgRight
<1> QED BY <1>2, <1>4, <1>7, <1>8

\* The host sends its whole game, and a new epoch begins.
LEMMA SnapshotGood ==
  ASSUME NEW s, NEW o, NEW in, NEW from, NEW dr, GoodAt(Host, s, o, in, from, dr),
         NEW u, SideCore(Host, u), u.phase # "wait", u.epoch = s.epoch, u.out = s.out,
         u.prev # None => u.prev[1].r <= u.r,
         NEW t, t = Snapshot(u)
  PROVE  GoodAt(Host, t, o, in, from, dr) /\ (Ready(u) => Ready(t)) /\ t.r = u.r
<1>1. PICK m : SnapOf(u, t, m)
  BY SnapshotIs, TwoSides
<1>2. /\ SideRight(Host, t) /\ Range(t.out) = Range(u.out) \cup {m} /\ MsgRight(Guest, m, t.epoch)
      /\ (Ready(u) => Ready(t))
  BY <1>1, SnapRight
<1>3. Pair(Host, t, Copy(m))
  BY <1>1, SnapPair
<1>4. /\ t.epoch = s.epoch + 1 /\ t.r = u.r /\ t.prev = u.prev /\ m.type = "snap" /\ m.e = t.epoch /\ m.r = t.r
  BY <1>1 DEF SnapOf
<1>5. Good(s, o, in, from, dr) /\ s.epoch \in Nat /\ o.epoch \in Nat /\ dr \in Int
  BY TwoSides, GoodSides DEF GoodAt
<1>6. ASSUME NEW x \in from \cup Range(t.out), x # m
      PROVE  MsgRight(Guest, x, t.epoch) /\ x.e < t.epoch
  <2>1. x \in from \cup Range(s.out)
    BY <1>2, <1>6
  <2>2. MsgRight(Guest, x, s.epoch)
    BY <1>5, <2>1 DEF Good
  <2>3. x.e \in 0 .. s.epoch
    BY <2>2 DEF MsgRight
  <2>4. x.e \in 0 .. t.epoch /\ x.e < t.epoch
    BY <1>4, <1>5, <2>3
  <2> QED BY <2>2, <2>4 DEF MsgRight
<1>7. Kept(t, from \cup Range(t.out))
  <2>1. ASSUME NEW x \in from \cup Range(t.out) PROVE Carried(x, t)
    <3>1. ~(x.type = "frames" /\ x.e = t.epoch)
      <4>1. CASE x = m BY <1>4, <4>1
      <4>2. CASE x # m
        <5>1. x.e < t.epoch BY <1>6, <4>2
        <5>2. x.e \in Int BY <1>6, <4>2 DEF MsgRight
        <5> QED BY <5>1, <5>2
      <4> QED BY <4>1, <4>2
    <3> QED BY <3>1 DEF Carried
  <2> QED BY <1>4, <2>1 DEF Kept
<1>8. ASSUME NEW x \in from \cup Range(t.out), x.type = "snap" /\ x.e = t.epoch /\ o.epoch < t.epoch
      PROVE  x.r = t.r /\ Pair(Host, t, Copy(x))
  <2>1. x = m
    <3>1. SUFFICES ASSUME x # m PROVE FALSE
      OBVIOUS
    <3>2. x.e < t.epoch /\ x.e \in Int
      BY <1>6, <3>1 DEF MsgRight
    <3> QED BY <1>8, <3>2
  <2> QED BY <1>3, <1>4, <2>1
<1>9. /\ \A x \in from \cup Range(t.out) : MsgRight(Guest, x, t.epoch)
      /\ dr <= o.epoch /\ o.epoch <= t.epoch /\ o.epoch # t.epoch
  BY <1>2, <1>4, <1>5, <1>6 DEF Good
<1>10. Good(t, o, in, from, dr)
  BY <1>2, <1>5, <1>7, <1>8, <1>9 DEF Good
<1> QED BY <1>2, <1>4, <1>10 DEF GoodAt

-----------------------------------------------------------------------------
(* A new round *)

LEMMA ResetIs ==
  ASSUME NEW s, DOMAIN s = DOMAIN NewSession, NEW p, NEW r, NEW round, NEW base,
         NEW t, t = Reset(s, p, r, round, base)
  PROVE  /\ DOMAIN t = DOMAIN NewSession
         /\ t.prev = IF s.r >= 0 THEN <<Now(s)>> ELSE s.prev
         /\ t.r = r /\ t.round = round /\ t.base = base
         /\ t.mine = Straights(round.tick) /\ t.theirs = <<>> /\ t.acked = round.tick - 1 /\ t.queue = <<>>
         /\ t.epoch = s.epoch /\ t.delay = s.delay /\ t.score = s.score /\ t.phase = s.phase
         /\ t.again = s.again /\ t.out = s.out
BY FieldsAre DEF Reset, Now

LEMMA NextRoundFields ==
  ASSUME NEW s, DOMAIN s = DOMAIN NewSession, NEW p, NEW t, t = NextRound(s, p)
  PROVE  /\ DOMAIN t = DOMAIN NewSession
         /\ t.prev = IF s.r >= 0 THEN <<Now(s)>> ELSE s.prev
         /\ t.r = s.r + 1 /\ t.round = NewRound /\ t.base = <<s.r + 1, s.score>> /\ t.phase = "count"
         /\ t.mine \in Seq(Frame) /\ Len(t.mine) = 0 /\ t.theirs = <<>> /\ t.acked = -1 /\ t.queue = <<>>
         /\ t.epoch = s.epoch /\ t.delay = s.delay /\ t.score = s.score
         /\ t.again = s.again /\ t.out = s.out
<1> DEFINE x == Reset(s, p, s.r + 1, NewRound, <<s.r + 1, s.score>>)
<1>1. /\ DOMAIN x = DOMAIN NewSession
      /\ x.prev = IF s.r >= 0 THEN <<Now(s)>> ELSE s.prev
      /\ x.r = s.r + 1 /\ x.round = NewRound /\ x.base = <<s.r + 1, s.score>>
      /\ x.mine = Straights(NewRound.tick) /\ x.theirs = <<>> /\ x.acked = NewRound.tick - 1 /\ x.queue = <<>>
      /\ x.epoch = s.epoch /\ x.delay = s.delay /\ x.score = s.score
      /\ x.again = s.again /\ x.out = s.out
  <2> DEFINE b == <<s.r + 1, s.score>>
             y == NewRound
             n == s.r + 1
  <2> HIDE DEF b, y, n
  <2>1. x = Reset(s, p, n, y, b)
    BY DEF b, y, n
  <2> HIDE DEF x
  <2>2. /\ DOMAIN x = DOMAIN NewSession
        /\ x.prev = IF s.r >= 0 THEN <<Now(s)>> ELSE s.prev
        /\ x.r = n /\ x.round = y /\ x.base = b
        /\ x.mine = Straights(y.tick) /\ x.theirs = <<>> /\ x.acked = y.tick - 1 /\ x.queue = <<>>
        /\ x.epoch = s.epoch /\ x.delay = s.delay /\ x.score = s.score
        /\ x.again = s.again /\ x.out = s.out
    BY <2>1, ResetIs
  <2> QED BY <2>2 DEF b, y, n
<1>2. NewRound.tick = 0
  BY NewRoundIs
<1>3. Straights(0) \in Seq(Frame) /\ Len(Straights(0)) = 0
  BY Straight0
<1>4. t = [x EXCEPT !.phase = "count"]
  BY DEF NextRound
<1> HIDE DEF x
<1> QED BY <1>1, <1>2, <1>3, <1>4, FieldsAre

\* A round is one of a match not won.
LEMMA NextRoundRight ==
  ASSUME NEW p \in Player, NEW u, DOMAIN u = DOMAIN NewSession, DOMAIN u.again = {"mine", "theirs"},
         u.epoch \in Nat, u.delay \in Delays, PrevRight(u), IsSeq(u.out), u.r \in Int, -1 <= u.r, u.r < MaxRound,
         RoundRight(u.round), u.mine \in Seq(Frame), u.score \in [Player -> Nat], ~MatchWon(u.score),
         ~(p = Host /\ u.again.mine), NEW t, t = NextRound(u, p)
  PROVE  SideCore(p, t)
<1>1. /\ DOMAIN t = DOMAIN NewSession
      /\ t.prev = IF u.r >= 0 THEN <<Now(u)>> ELSE u.prev
      /\ t.r = u.r + 1 /\ t.round = NewRound /\ t.base = <<u.r + 1, u.score>> /\ t.phase = "count"
      /\ t.mine \in Seq(Frame) /\ Len(t.mine) = 0 /\ t.theirs = <<>> /\ t.acked = -1 /\ t.queue = <<>>
      /\ t.epoch = u.epoch /\ t.delay = u.delay /\ t.score = u.score
      /\ t.again = u.again /\ t.out = u.out
  BY NextRoundFields
<1>2. RoundRight(NewRound) /\ NewRound.result = Going
  BY NewRoundIs
<1>3. GameRight(t)
  <2>1. ScoreRound(u.score, NewRound.result) = u.score
    <3>1. \A q \in Player : Going # Winner(q)
      BY DEF Player, Going, Winner
    <3> QED BY <1>2, <3>1 DEF ScoreRound
  <2>2. \E before \in [Player -> Nat] :
           t.base = <<t.r, before>> /\ t.score = ScoreRound(before, t.round.result)
    BY <1>1, <2>1
  <2>3. t.r \in 0 .. MaxRound
    BY <1>1, ConstantsAre
  <2> QED BY <1>1, <1>2, <2>2, <2>3 DEF GameRight
<1>4. TheirsRight(t)
  BY <1>1, Nothing, FS_EmptySet DEF TheirsRight, Frame
<1>5. PrevRight(t)
  <2>1. CASE u.r >= 0
    <3>1. t.prev[1] = Now(u)
      BY <1>1, <2>1
    <3>2. Now(u).r = u.r /\ Now(u).round = u.round /\ Now(u).mine = u.mine
      BY DEF Now
    <3>3. t.prev[1].r \in Nat /\ RoundRight(t.prev[1].round) /\ t.prev[1].mine \in Seq(Frame)
      BY <2>1, <3>1, <3>2
    <3> QED BY <3>3 DEF PrevRight
  <2>2. CASE ~(u.r >= 0)
    BY <1>1, <2>2 DEF PrevRight
  <2> QED BY <2>1, <2>2
<1>6. t.queue \in Seq(Dir) /\ Len(t.queue) <= QUEUE_MAX
  BY <1>1, ConstantsAre
<1> QED BY <1>1, <1>3, <1>4, <1>5, <1>6 DEF SideCore, Sealed

\* The host begins a match.
LEMMA StartGood ==
  ASSUME NEW s, NEW o, NEW in, NEW from, NEW dr, GoodAt(Host, s, o, in, from, dr), s.r < MaxRound,
         NEW d \in Delays, NEW t, t = Start(s, d)
  PROVE  GoodAt(Host, t, o, in, from, dr) /\ Ready(t) /\ t.r = s.r + 1
<1> DEFINE x == [s EXCEPT !.delay = d, !.score = <<0, 0>>, !.again = [mine |-> FALSE, theirs |-> FALSE]]
           u == NextRound(x, Host)
<1>1. SideRight(Host, s) /\ SideCore(Host, s) /\ Host \in Player
  BY TwoSides, GoodSides DEF SideRight
<1>2. /\ DOMAIN s = DOMAIN NewSession /\ s.epoch \in Nat /\ PrevRight(s) /\ IsSeq(s.out)
      /\ s.r \in Int /\ -1 <= s.r /\ RoundRight(s.round) /\ s.mine \in Seq(Frame)
      /\ (s.r < 0 => s.prev = None)
  <2>1. s.r < 0 => s.prev = None
    BY <1>1 DEF SideCore, WaitRight, GameRight
  <2>2. s.r \in Int /\ -1 <= s.r /\ RoundRight(s.round) /\ s.mine \in Seq(Frame)
    BY <1>1, SideHalf DEF Half
  <2> QED BY <1>1, <2>1, <2>2 DEF SideCore
<1>3. /\ DOMAIN x = DOMAIN NewSession /\ x.again = [mine |-> FALSE, theirs |-> FALSE]
      /\ x.epoch = s.epoch /\ x.delay = d /\ x.prev = s.prev /\ x.out = s.out /\ x.r = s.r
      /\ x.round = s.round /\ x.mine = s.mine /\ x.score = <<0, 0>>
  BY <1>2, FieldsAre
<1> HIDE DEF x
<1>4. x.score \in [Player -> Nat] /\ ~MatchWon(x.score)
  BY <1>3, RoundAssumption DEF Player, MatchWon
<1>5. PrevRight(x) /\ DOMAIN x.again = {"mine", "theirs"} /\ ~x.again.mine
  BY <1>2, <1>3 DEF PrevRight
<1>6. SideCore(Host, u)
  BY <1>1, <1>2, <1>3, <1>4, <1>5, NextRoundRight
<1>7. /\ u.prev = (IF x.r >= 0 THEN <<Now(x)>> ELSE x.prev) /\ u.r = x.r + 1
      /\ u.phase = "count" /\ u.epoch = x.epoch /\ u.out = x.out
  BY <1>3, NextRoundFields
<1>8. u.prev # None => u.prev[1].r <= u.r
  <2>1. CASE x.r >= 0
    <3>1. u.prev[1] = Now(x)
      BY <1>7, <2>1
    <3> QED BY <1>2, <1>3, <1>7, <3>1 DEF Now
  <2>2. CASE ~(x.r >= 0)
    BY <1>2, <1>3, <1>7, <2>2
  <2> QED BY <2>1, <2>2
<1>9. t = Snapshot(u)
  BY DEF Start, x
<1> HIDE DEF u
<1>10. Ready(u) /\ u.phase # "wait" /\ u.epoch = s.epoch /\ u.out = s.out
  BY <1>3, <1>7 DEF Ready
<1> QED BY <1>3, <1>6, <1>7, <1>8, <1>9, <1>10, SnapshotGood

\* A side goes on from a round that is over: it is a round ahead, or with the other again.
LEMMA PairNext ==
  ASSUME NEW p \in Player, NEW s, NEW o, SideCore(p, s), Half(s), Half(o), Pair(p, s, o), s.phase = "point",
         NEW t, t = NextRound(s, p)
  PROVE  Pair(p, t, o)
<1>0. /\ DOMAIN s = DOMAIN NewSession /\ GameRight(s) /\ s.r \in Int /\ s.r >= 0 /\ Other(p) \in Player
  <2>1. DOMAIN s = DOMAIN NewSession /\ GameRight(s)
    BY DEF SideCore
  <2>2. s.r \in 0 .. MaxRound
    BY <2>1 DEF GameRight
  <2> QED BY <2>1, <2>2, TwoSides, ConstantsAre
<1>1. /\ t.prev = <<Now(s)>> /\ t.r = s.r + 1 /\ t.round = NewRound /\ t.base = <<s.r + 1, s.score>>
      /\ t.theirs = <<>>
  <2>1. DOMAIN s = DOMAIN NewSession /\ s.r >= 0
    BY <1>0
  <2>2. /\ t.prev = IF s.r >= 0 THEN <<Now(s)>> ELSE s.prev
        /\ t.r = s.r + 1 /\ t.round = NewRound /\ t.base = <<s.r + 1, s.score>>
        /\ t.theirs = <<>>
    BY ONLY <2>1, t = NextRound(s, p), NextRoundFields
  <2> QED BY <2>1, <2>2
<1>2. s.round.result # Going /\ ~MatchWon(s.score) /\ s.score = ScoreRound(s.base[2], s.round.result)
  BY <1>0 DEF GameRight
<1>3. t.prev[1] = Now(s) /\ t.prev # None
  BY <1>1 DEF None
<1>4. Now(s).r = s.r /\ Now(s).base = s.base /\ Now(s).round = s.round /\ Now(s).mine = s.mine
  BY DEF Now
<1>5. DOMAIN t.theirs = {}
  BY <1>1
<1>6. CASE Level(p, s, o)
  <2>1. GoneOn(t, o)
    <3>1. s.r = o.r
      BY <1>6 DEF Level
    <3>2. t.base = <<t.r, ScoreRound(t.prev[1].base[2], t.prev[1].round.result)>> /\ t.base[2] = s.score
      BY <1>1, <1>2, <1>3, <1>4
    <3> QED BY <1>1, <1>2, <1>3, <1>4, <1>5, <3>1, <3>2 DEF GoneOn
  <2>2. AheadOf(p, t, o)
    BY <1>0, <1>1, <1>3, <1>4, <1>6, <2>1 DEF AheadOf, Level
  <2> QED BY <2>2 DEF Pair
<1>7. CASE AheadOf(p, s, o)
  BY <1>2, <1>7, NewRoundIs DEF AheadOf, GoneOn
<1>8. CASE AheadOf(Other(p), o, s)
  <2>1. /\ o.r = s.r + 1 /\ o.prev # None /\ o.prev[1].round.result # Going
        /\ o.base = <<o.r, ScoreRound(o.prev[1].base[2], o.prev[1].round.result)>>
        /\ o.round = NewRound /\ DOMAIN o.theirs = {} /\ Abreast(Other(p), o.prev[1], Now(s))
    BY <1>8 DEF AheadOf, GoneOn
  <2>2. RoundRight(o.prev[1].round) /\ RoundRight(s.round)
    BY <2>1 DEF Half, PrevRight
  <2>3. o.prev[1].base = s.base
    BY <1>4, <2>1 DEF Abreast
  <2>4. o.prev[1].round = s.round
    <3> DEFINE a == o.prev[1]
               b == Now(s)
    <3>1. Abreast(Other(p), a, b) /\ RoundRight(a.round) /\ RoundRight(b.round)
          /\ a.round.result # Going /\ b.round.result # Going
      BY <1>2, <1>4, <2>1, <2>2
    <3> HIDE DEF a, b
    <3>2. a.round = b.round
      BY <1>0, <3>1, BothOver
    <3> QED BY <1>4, <3>2 DEF a, b
  <2>5. t.base = o.base /\ t.round = o.round /\ t.r = o.r
    BY <1>1, <1>2, <2>1, <2>3, <2>4
  <2>6. Abreast(p, Now(t), Now(o))
    <3>1. /\ Now(t).base = Now(o).base /\ Now(t).round = Now(o).round /\ RoundRight(Now(t).round)
      BY <1>1, <2>5, NewRoundIs DEF Now
    <3> QED BY <3>1, SameRound
  <2>7. HeardOf(t, o.mine) /\ HeardOf(o, t.mine)
    BY <1>5, <2>1 DEF HeardOf
  <2>8. Level(p, t, o)
    BY <2>5, <2>6, <2>7 DEF Level
  <2> QED BY <2>8 DEF Pair
<1> QED BY <1>6, <1>7, <1>8 DEF Pair

\* The pause after a round outlasts every message of it.
LEMMA NextGood ==
  ASSUME NEW p \in Player, NEW s, NEW o, NEW in, NEW from, NEW dr, GoodAt(p, s, o, in, from, dr),
         s.phase = "point", s.r < MaxRound, s.out = <<>>, o.out = <<>>,
         \A m \in in \cup from : m.type \in {"frames", "snap"} => m.r > s.r,
         NEW t, t = NextRound(s, p)
  PROVE  GoodAt(p, t, o, in, from, dr) /\ Ready(t) /\ t.r = s.r + 1 /\ t.epoch = s.epoch /\ t.out = <<>>
<1>1. SideRight(p, s) /\ SideCore(p, s) /\ Half(s) /\ Half(o) /\ SideRight(Other(p), o) /\ s.epoch > 0
  BY GoodSides DEF SideRight
<1>2. /\ DOMAIN s = DOMAIN NewSession /\ GameRight(s) /\ s.delay \in Delays /\ s.r \in Int /\ s.r >= 0
      /\ s.epoch \in Nat /\ PrevRight(s) /\ IsSeq(s.out) /\ s.mine \in Seq(Frame) /\ RoundRight(s.round)
      /\ DOMAIN s.again = {"mine", "theirs"} /\ ~(p = Host /\ s.again.mine)
  <2>1. s.r \in 0 .. MaxRound /\ RoundRight(s.round)
    BY <1>1 DEF SideCore, GameRight
  <2> QED BY <1>1, <2>1, ConstantsAre DEF SideCore
<1>3. /\ t.prev = <<Now(s)>> /\ t.r = s.r + 1 /\ t.epoch = s.epoch /\ t.out = s.out /\ t.phase = "count"
  <2>1. DOMAIN s = DOMAIN NewSession /\ s.r >= 0
    BY <1>2
  <2>2. /\ t.prev = IF s.r >= 0 THEN <<Now(s)>> ELSE s.prev
        /\ t.r = s.r + 1 /\ t.epoch = s.epoch /\ t.out = s.out /\ t.phase = "count"
    BY ONLY <2>1, t = NextRound(s, p), NextRoundFields
  <2> QED BY <2>1, <2>2
<1>4. SideRight(p, t)
  <2>1. s.score \in [Player -> Nat] /\ ~MatchWon(s.score)
    <3>1. PICK before \in [Player -> Nat] : s.score = ScoreRound(before, s.round.result)
      BY <1>2 DEF GameRight
    <3>2. s.score \in [Player -> Nat]
      BY <3>1 DEF ScoreRound
    <3> QED BY <1>2, <3>2 DEF GameRight
  <2>2. SideCore(p, t)
    BY <1>2, <2>1, NextRoundRight
  <2> QED BY <1>1, <1>3, <2>2 DEF SideRight
<1>5. Pair(p, s, o) => Pair(p, t, o)
  BY <1>1, PairNext
<1>6. t.prev # None /\ t.prev[1].r <= t.r
  <2>1. t.prev # None /\ t.prev[1] = Now(s)
    BY <1>3 DEF None
  <2> QED BY <1>2, <1>3, <2>1 DEF Now
<1>7. from \cup Range(s.out) = from /\ from \cup Range(t.out) = from /\ in \cup Range(o.out) = in
  BY <1>3, Nothing
<1>8. ASSUME NEW q, NEW e, \A m \in from : MsgRight(q, m, e), Kept(s, from)
      PROVE  Kept(t, from)
  <2>1. ASSUME NEW m \in from PROVE Carried(m, t)
    <3> SUFFICES ASSUME m.type = "frames", m.e = s.epoch PROVE FALSE
      BY <1>3 DEF Carried
    <3>1. m.r > s.r /\ m.r \in Nat
      BY <1>8 DEF MsgRight
    <3>2. m.r = s.r \/ m.r < s.r
      BY <1>8 DEF Kept, Carried
    <3> QED BY <1>2, <3>1, <3>2
  <2> QED BY <1>6, <2>1 DEF Kept
<1>9. CASE p = Host
  <2>1. Good(s, o, in, from, dr) /\ Other(p) = Guest
    BY <1>9, TwoSides DEF GoodAt
  <2>2. Kept(t, from \cup Range(t.out))
    BY <1>7, <1>8, <2>1 DEF Good
  <2>3. ASSUME NEW m \in from \cup Range(t.out), m.type = "snap" /\ m.e = t.epoch /\ o.epoch < t.epoch
        PROVE  FALSE
    <3>1. m \in from /\ m.r = s.r /\ MsgRight(Guest, m, s.epoch)
      BY <1>3, <1>7, <2>1, <2>3 DEF Good
    <3>2. m.r > s.r
      BY <2>3, <3>1
    <3> QED BY <1>2, <3>1, <3>2
  <2>4. Good(t, o, in, from, dr)
    BY <1>3, <1>4, <1>5, <1>7, <1>9, <2>1, <2>2, <2>3 DEF Good
  <2> QED BY <1>3, <1>9, <2>4 DEF GoodAt, Ready
<1>10. CASE p # Host
  <2>0. p = Guest /\ Other(p) = Host /\ Other(Host) = p /\ Host \in Player
    BY <1>10, TwoSides
  <2>1. Good(o, s, from, in, dr)
    BY <1>10 DEF GoodAt
  <2>2. dr # t.epoch => Kept(t, from \cup Range(t.out))
    BY <1>3, <1>7, <1>8, <2>1 DEF Good
  <2>3. t.epoch = o.epoch /\ dr # o.epoch => Pair(Host, o, t)
    <3> SUFFICES ASSUME t.epoch = o.epoch, dr # o.epoch PROVE Pair(Host, o, t)
      OBVIOUS
    <3>1. Pair(Host, o, s)
      BY <1>3, <2>1 DEF Good
    <3>2. Pair(p, t, o)
      BY <1>5, <2>0, <3>1, PairSwap
    <3> QED BY <2>0, <3>2, PairSwap
  <2>4. Good(o, t, from, in, dr)
    BY <1>3, <1>4, <1>7, <2>0, <2>1, <2>2, <2>3 DEF Good
  <2> QED BY <1>3, <1>10, <2>4 DEF GoodAt, Ready
<1> QED BY <1>9, <1>10

-----------------------------------------------------------------------------
(* Frames fixed, and a game taken *)

LEMMA SealToIs ==
  ASSUME NEW s, DOMAIN s = DOMAIN NewSession, s.mine \in Seq(Frame), s.queue \in Seq(Dir),
         Len(s.queue) <= QUEUE_MAX, NEW to \in Int, NEW t, t = SealTo(s, to)
  PROVE  /\ DOMAIN t = DOMAIN s /\ SameGame(s, t)
         /\ t.theirs = s.theirs /\ t.out = s.out /\ t.acked = s.acked
         /\ Longer(s.mine, t.mine) /\ to <= Sealed(t) /\ (t.mine = s.mine \/ Sealed(t) = to)
         /\ t.queue \in Seq(Dir) /\ Len(t.queue) <= QUEUE_MAX
<1> DEFINE n == to - Sealed(s)
           k == Min({n, Len(s.queue)})
           taken == SubSeq(s.queue, 1, k)
<1>1. Len(s.mine) \in Nat /\ Len(s.queue) \in Nat /\ Sealed(s) = Len(s.mine) - 1 /\ n \in Int
  BY DEF Sealed
<1>2. CASE n <= 0
  <2>1. t = s
    BY <1>2 DEF SealTo
  <2>2. Longer(s.mine, s.mine)
    BY LongerSame
  <2> QED BY <1>1, <1>2, <2>1, <2>2 DEF SameGame
<1>3. CASE ~(n <= 0)
  <2>1. k \in Nat /\ k <= n /\ k <= Len(s.queue)
    <3> DEFINE l == Len(s.queue)
    <3>1. l \in Nat
      BY <1>1
    <3> HIDE DEF n, l
    <3>2. Min({n, l}) \in Nat /\ Min({n, l}) <= n /\ Min({n, l}) <= l
      BY <1>1, <1>3, <3>1, MinTwo
    <3> QED BY <3>2 DEF l
  <2> DEFINE last == Straights(n - Len(taken))
             mine == s.mine \o taken \o last
             rest == SubSeq(s.queue, Len(taken) + 1, Len(s.queue))
  <2>2. t = [s EXCEPT !.mine = mine, !.queue = rest,
                      !.heading = IF taken = <<>> THEN @ ELSE Last(taken), !.dirty = TRUE]
    BY <1>3 DEF SealTo
  <2> HIDE DEF n, k
  <2>3. taken \in Seq(Frame) /\ Len(taken) = k
    <3>1. taken \in Seq(Dir) /\ Len(taken) = k
      BY <1>1, <2>1
    <3> QED BY <3>1 DEF Frame
  <2>4. last \in Seq(Frame) /\ Len(last) = n - k
    <3>1. n - Len(taken) \in Nat /\ Len(taken) = k
      BY <1>1, <2>1, <2>3
    <3> HIDE DEF taken
    <3> QED BY <3>1, Straight0
  <2>5. rest \in Seq(Dir) /\ Len(rest) <= Len(s.queue)
    <3> DEFINE a == Len(taken) + 1
               b == Len(s.queue)
    <3>1. a \in Nat /\ a > 0 /\ b \in Nat
      BY <1>1, <2>1, <2>3
    <3> HIDE DEF a, b
    <3>2. SubSeq(s.queue, a, b) \in Seq(Dir) /\ Len(SubSeq(s.queue, a, b)) <= b
      <4>1. b <= Len(s.queue)
        BY <1>1 DEF b
      <4> QED BY <3>1, <4>1
    <3> QED BY <3>2 DEF a, b
  <2> HIDE DEF taken, last, rest
  <2>6. mine \in Seq(Frame) /\ Len(mine) = Len(s.mine) + n /\ \A i \in 1 .. Len(s.mine) : mine[i] = s.mine[i]
    <3> DEFINE q == s.mine
    <3>1. q \in Seq(Frame)
      OBVIOUS
    <3> HIDE DEF q
    <3> DEFINE z == q \o taken
    <3>a. q \o taken \in Seq(Frame) /\ Len(q \o taken) = Len(q) + Len(taken) /\ \A i \in 1 .. Len(q) : (q \o taken)[i] = q[i]
      BY ONLY <2>3, <3>1
    <3>2. z \in Seq(Frame) /\ Len(z) = Len(q) + k /\ \A i \in 1 .. Len(q) : z[i] = q[i]
      BY <2>3, <3>a
    <3> HIDE DEF z
    <3>b. z \o last \in Seq(Frame) /\ Len(z \o last) = Len(z) + Len(last) /\ \A i \in 1 .. Len(z) : (z \o last)[i] = z[i]
      BY ONLY <2>4, <3>2
    <3>3. z \o last \in Seq(Frame) /\ Len(z \o last) = Len(z) + (n - k) /\ \A i \in 1 .. Len(z) : (z \o last)[i] = z[i]
      BY <2>4, <3>b
    <3> DEFINE y == z \o last
    <3>4. y \in Seq(Frame) /\ Len(y) = Len(z) + (n - k) /\ \A i \in 1 .. Len(z) : y[i] = z[i]
      BY <3>3
    <3>5. mine = y
      BY DEF z, q
    <3> HIDE DEF y
    <3>6. Len(y) = Len(q) + n /\ \A i \in 1 .. Len(q) : y[i] = q[i]
      BY <1>1, <2>1, <3>1, <3>2, <3>4
    <3> HIDE DEF mine
    <3> QED BY <3>4, <3>5, <3>6 DEF q
  <2> HIDE DEF mine
  <2>7. /\ DOMAIN t = DOMAIN s /\ SameGame(s, t) /\ t.theirs = s.theirs /\ t.out = s.out /\ t.acked = s.acked
        /\ t.mine = mine /\ t.queue = rest
    BY <2>2, FieldsAre DEF SameGame
  <2>8. Longer(s.mine, t.mine) /\ to <= Sealed(t) /\ Sealed(t) = to
    <3>1. Len(mine) = to + 1
      BY <1>1, <2>6 DEF n
    <3>2. n > 0
      BY <1>1, <1>3
    <3>3. Len(s.mine) <= Len(mine)
      BY <1>1, <2>6, <3>2
    <3>4. to <= Len(mine) - 1 /\ Len(mine) - 1 = to
      BY <3>1
    <3> QED BY <2>6, <2>7, <3>3, <3>4 DEF Longer, Sealed
  <2>9. Len(t.queue) <= QUEUE_MAX
    BY <1>1, <2>5, <2>7, ConstantsAre
  <2> QED BY <2>5, <2>7, <2>8, <2>9
<1> QED BY <1>2, <1>3

\* Own frames fixed on, and what is not of the game.
LEMMA SealToQuiet ==
  ASSUME NEW p, NEW s, SideCore(p, s), NEW to \in Int, NEW t, t = SealTo(s, to)
  PROVE  Quiet(s, t) /\ to <= Sealed(t) /\ t.acked = s.acked /\ (t.mine = s.mine \/ Sealed(t) = to)
<1>1. /\ DOMAIN s = DOMAIN NewSession /\ s.mine \in Seq(Frame) /\ s.queue \in Seq(Dir)
      /\ Len(s.queue) <= QUEUE_MAX /\ s.acked \in Int /\ s.acked <= Sealed(s)
  BY DEF SideCore
<1>2. /\ DOMAIN t = DOMAIN s /\ SameGame(s, t)
      /\ t.theirs = s.theirs /\ t.out = s.out /\ t.acked = s.acked
      /\ Longer(s.mine, t.mine) /\ to <= Sealed(t) /\ (t.mine = s.mine \/ Sealed(t) = to)
      /\ t.queue \in Seq(Dir) /\ Len(t.queue) <= QUEUE_MAX
  BY <1>1, SealToIs
<1>3. t.acked <= Sealed(t)
  <2>1. Len(s.mine) \in Nat /\ Len(t.mine) \in Nat /\ Len(s.mine) <= Len(t.mine)
    BY <1>2 DEF Longer
  <2> QED BY <1>1, <1>2, <2>1 DEF Sealed
<1> QED BY <1>1, <1>2, <1>3 DEF Quiet

\* The guest takes the game as its snapshot tells it, and fixes its own frames on from there.
LEMMA AdoptIs ==
  ASSUME NEW s, SideCore(Guest, s), NEW m, NEW e, MsgRight(Guest, m, e), m.type = "snap", NEW t, t = Adopt(s, m)
  PROVE  /\ DOMAIN t = DOMAIN NewSession /\ DOMAIN t.again = {"mine", "theirs"}
         /\ t.epoch = m.e /\ t.delay = m.d /\ t.r = m.r /\ t.round = m.round /\ t.base = m.base
         /\ t.score = m.score /\ t.phase = m.phase /\ t.out = s.out
         /\ t.prev = IF s.r >= 0 THEN <<Now(s)>> ELSE s.prev
         /\ t.theirs = Copy(m).theirs /\ Longer(Copy(m).mine, t.mine)
         /\ t.acked \in Int /\ t.acked <= Sealed(t) /\ t.queue \in Seq(Dir) /\ Len(t.queue) <= QUEUE_MAX
         /\ Ready(t) /\ t.acked = m.round.tick + Len(m.frames[Guest]) - 1
         /\ Sealed(t) = t.acked \/ Sealed(t) = m.round.tick + m.d - 1
<1> DEFINE tick  == m.round.tick
           f     == m.frames[Host]
           y     == m.frames[Guest]
           clean == Reset(s, Guest, m.r, m.round, m.base)
           taken == [clean EXCEPT
                   !.epoch = m.e, !.delay = m.d, !.score = m.score, !.phase = m.phase,
                   !.theirs = [k \in tick .. tick + Len(f) - 1 |-> f[k - tick + 1]],
                   !.mine = @ \o y,
                   !.heading = FoldLeft(LAMBDA h, g : IF g # Straight /\ Turns(h, g) THEN g ELSE h, @, y),
                   !.acked = tick + Len(y) - 1,
                   !.again = IF m.phase = "over" THEN @ ELSE [mine |-> FALSE, theirs |-> FALSE]]
           x     == IF m.phase = "run" THEN SealTo(taken, tick + m.d - 1) ELSE taken
<1>1. t = [x EXCEPT !.dirty = TRUE]
  BY DEF Adopt
<1>2. /\ m.d \in Nat /\ m.d > 0 /\ GameRight(m) /\ f \in Seq(Frame) /\ y \in Seq(Frame)
      /\ RoundRight(m.round) /\ tick \in Nat
  <2>1. m.d \in Delays /\ GameRight(m) /\ f \in Seq(Frame) /\ y \in Seq(Frame)
    BY DEF MsgRight
  <2>2. RoundRight(m.round)
    BY <2>1 DEF GameRight
  <2>3. tick \in Nat
    BY <2>2 DEF RoundRight, RoundType
  <2> QED BY <2>1, <2>2, <2>3, ConstantsAre
<1>3. /\ DOMAIN clean = DOMAIN NewSession
      /\ clean.prev = IF s.r >= 0 THEN <<Now(s)>> ELSE s.prev
      /\ clean.r = m.r /\ clean.round = m.round /\ clean.base = m.base
      /\ clean.mine = Straights(m.round.tick) /\ clean.queue = <<>>
      /\ clean.again = s.again /\ clean.out = s.out
  <2>1. DOMAIN s = DOMAIN NewSession
    BY DEF SideCore
  <2> HIDE DEF clean
  <2>2. clean = Reset(s, Guest, m.r, m.round, m.base)
    BY DEF clean
  <2> QED BY ONLY <2>1, <2>2, ResetIs
<1> DEFINE z == Straights(tick) \o y
<1>4. z \in Seq(Frame) /\ Len(z) = tick + Len(y) /\ Len(y) \in Nat
  <2> DEFINE w == Straights(tick)
  <2>1. w \in Seq(Frame) /\ Len(w) = tick
    BY <1>2, Straight0
  <2>2. y \in Seq(Frame)
    BY <1>2
  <2> HIDE DEF w, y
  <2>3. w \o y \in Seq(Frame) /\ Len(w \o y) = Len(w) + Len(y)
    BY ONLY <2>1, <2>2
  <2> QED BY <2>1, <2>2, <2>3 DEF w
<1>5. Copy(m).mine = z /\ Copy(m).theirs = [k \in tick .. tick + Len(f) - 1 |-> f[k - tick + 1]]
  BY DEF Copy
<1> HIDE DEF clean
<1>6. /\ DOMAIN taken = DOMAIN NewSession
      /\ taken.prev = clean.prev /\ taken.r = m.r /\ taken.round = m.round /\ taken.base = m.base
      /\ taken.epoch = m.e /\ taken.delay = m.d /\ taken.score = m.score /\ taken.phase = m.phase
      /\ taken.theirs = Copy(m).theirs /\ taken.mine = z /\ taken.queue = <<>> /\ taken.out = s.out
      /\ taken.acked = tick + Len(y) - 1
      /\ taken.again = IF m.phase = "over" THEN s.again ELSE [mine |-> FALSE, theirs |-> FALSE]
  BY <1>3, <1>5, FieldsAre
<1> HIDE DEF taken, z
<1>7. /\ DOMAIN x = DOMAIN NewSession /\ SameGame(taken, x) /\ x.theirs = taken.theirs /\ x.out = taken.out
      /\ x.acked = taken.acked /\ Longer(taken.mine, x.mine) /\ x.queue \in Seq(Dir) /\ Len(x.queue) <= QUEUE_MAX
      /\ (m.phase = "run" => tick <= Sealed(x)) /\ (x.mine = taken.mine \/ Sealed(x) = tick + m.d - 1)
  <2>1. CASE m.phase = "run"
    <3> DEFINE to == tick + m.d - 1
    <3>1. to \in Int /\ tick <= to
      BY <1>2
    <3>2. x = SealTo(taken, to)
      BY <2>1
    <3> HIDE DEF to, x
    <3>3. /\ DOMAIN x = DOMAIN taken /\ SameGame(taken, x)
          /\ x.theirs = taken.theirs /\ x.out = taken.out /\ x.acked = taken.acked
          /\ Longer(taken.mine, x.mine) /\ to <= Sealed(x) /\ (x.mine = taken.mine \/ Sealed(x) = to)
          /\ x.queue \in Seq(Dir) /\ Len(x.queue) <= QUEUE_MAX
      <4>1. taken.mine \in Seq(Frame) /\ taken.queue \in Seq(Dir) /\ Len(taken.queue) <= QUEUE_MAX
        BY <1>4, <1>6, ConstantsAre
      <4> QED BY <1>6, <3>1, <3>2, <4>1, SealToIs
    <3>4. Sealed(x) \in Int
      BY <3>3 DEF Sealed, Longer
    <3> QED BY <1>2, <1>6, <3>1, <3>3, <3>4 DEF to
  <2>2. CASE m.phase # "run"
    <3>1. x = taken
      BY <2>2
    <3>2. taken.mine \in Seq(Frame) /\ taken.queue \in Seq(Dir) /\ Len(taken.queue) <= QUEUE_MAX
      BY <1>4, <1>6, ConstantsAre
    <3>3. Longer(taken.mine, taken.mine)
      BY <3>2, LongerSame
    <3>4. SameGame(taken, taken)
      BY DEF SameGame
    <3> HIDE DEF x
    <3> QED BY <1>6, <2>2, <3>1, <3>2, <3>3, <3>4
  <2> QED BY <2>1, <2>2
<1> HIDE DEF x
<1>8. /\ DOMAIN t = DOMAIN NewSession /\ t.epoch = x.epoch /\ t.delay = x.delay /\ t.r = x.r
      /\ t.round = x.round /\ t.base = x.base /\ t.score = x.score /\ t.phase = x.phase /\ t.out = x.out
      /\ t.prev = x.prev /\ t.theirs = x.theirs /\ t.mine = x.mine /\ t.acked = x.acked /\ t.queue = x.queue
      /\ t.again = x.again
  BY <1>1, <1>7, FieldsAre
<1>9. /\ t.acked \in Int /\ t.acked <= Sealed(t) /\ t.acked = tick + Len(y) - 1
      /\ Sealed(t) = t.acked \/ Sealed(t) = tick + m.d - 1
  <2>1. x.acked = Len(taken.mine) - 1 /\ Len(taken.mine) \in Nat
    <3>1. x.acked = taken.acked /\ taken.acked = tick + Len(y) - 1 /\ taken.mine = z
      BY <1>6, <1>7
    <3>2. tick \in Nat /\ Len(y) \in Nat /\ Len(z) = tick + Len(y)
      BY <1>2, <1>4
    <3> HIDE DEF tick, y
    <3> QED BY ONLY <3>1, <3>2
  <2>2. Len(taken.mine) <= Len(x.mine) /\ Len(x.mine) \in Nat
    BY <1>7 DEF Longer
  <2>3. t.acked = tick + Len(y) - 1
    BY <1>6, <1>7, <1>8
  <2>4. Sealed(t) = t.acked \/ Sealed(t) = tick + m.d - 1
    BY <1>7, <1>8, <2>1 DEF Sealed
  <2> QED BY <1>8, <2>1, <2>2, <2>3, <2>4 DEF Sealed
<1>10. Ready(t)
  BY <1>6, <1>7, <1>8 DEF Ready, SameGame, Sealed
<1>11. DOMAIN t.again = {"mine", "theirs"}
  BY <1>6, <1>7, <1>8 DEF SameGame, SideCore
<1>12. Longer(Copy(m).mine, t.mine) /\ t.theirs = Copy(m).theirs
  BY <1>5, <1>6, <1>7, <1>8
<1> QED BY <1>3, <1>6, <1>7, <1>8, <1>9, <1>10, <1>11, <1>12 DEF SameGame

LEMMA AdoptRight ==
  ASSUME NEW s, SideRight(Guest, s), NEW m, NEW e, MsgRight(Guest, m, e), m.type = "snap", NEW t, t = Adopt(s, m)
  PROVE  SideRight(Guest, t)
<1>1. SideCore(Guest, s) /\ Guest \in Player /\ Guest # Host
  BY TwoSides DEF SideRight
<1>2. /\ DOMAIN t = DOMAIN NewSession /\ DOMAIN t.again = {"mine", "theirs"}
      /\ t.epoch = m.e /\ t.delay = m.d /\ t.r = m.r /\ t.round = m.round /\ t.base = m.base
      /\ t.score = m.score /\ t.phase = m.phase /\ t.out = s.out
      /\ t.prev = (IF s.r >= 0 THEN <<Now(s)>> ELSE s.prev)
      /\ t.theirs = Copy(m).theirs /\ Longer(Copy(m).mine, t.mine)
      /\ t.acked \in Int /\ t.acked <= Sealed(t) /\ t.queue \in Seq(Dir) /\ Len(t.queue) <= QUEUE_MAX
  BY <1>1, AdoptIs
<1>3. m.e \in Nat /\ m.e > 0 /\ m.d \in Delays /\ GameRight(m) /\ m.frames[Host] \in Seq(Frame)
  BY DEF MsgRight
<1>4. GameRight(t) /\ t.phase # "wait"
  BY <1>2, <1>3 DEF GameRight
<1>5. TheirsRight(t)
  <2> DEFINE n == m.round.tick
             f == m.frames[Host]
             D == n .. n + Len(f) - 1
  <2>1. n \in Nat
    BY <1>3 DEF GameRight, RoundRight, RoundType
  <2>2. f \in Seq(Frame) /\ Len(f) \in Nat
    BY <1>3
  <2>3. t.theirs = [k \in D |-> f[k - n + 1]]
    BY <1>2 DEF Copy
  <2> HIDE DEF n, f
  <2>4. D \subseteq Nat /\ IsFiniteSet(D)
    BY <2>1, <2>2, FS_Interval
  <2>5. \A k \in D : f[k - n + 1] \in Frame
    <3> SUFFICES ASSUME NEW k \in D PROVE f[k - n + 1] \in Frame
      OBVIOUS
    <3>1. k - n + 1 \in 1 .. Len(f)
      BY <2>1, <2>2
    <3> QED BY <2>2, <3>1
  <2> HIDE DEF D
  <2>6. DOMAIN t.theirs = D /\ Range(t.theirs) \subseteq Frame
    BY <2>3, <2>5 DEF Range
  <2> QED BY <2>4, <2>6 DEF TheirsRight
<1>6. PrevRight(t)
  <2>1. CASE s.r >= 0
    <3>1. t.prev[1] = Now(s)
      BY <1>2, <2>1
    <3>2. Now(s).r = s.r /\ Now(s).round = s.round /\ Now(s).mine = s.mine
      BY DEF Now
    <3>3. s.r \in Int /\ RoundRight(s.round) /\ s.mine \in Seq(Frame)
      BY <1>1, SideHalf DEF Half
    <3>4. t.prev[1].r \in Nat /\ RoundRight(t.prev[1].round) /\ t.prev[1].mine \in Seq(Frame)
      BY <2>1, <3>1, <3>2, <3>3
    <3> QED BY <3>4 DEF PrevRight
  <2>2. CASE ~(s.r >= 0)
    BY <1>1, <1>2, <2>2 DEF PrevRight, SideCore
  <2> QED BY <2>1, <2>2
<1>7. t.mine \in Seq(Frame) /\ IsSeq(t.out)
  BY <1>1, <1>2 DEF Longer, SideCore
<1>8. SideCore(Guest, t)
  BY <1>1, <1>2, <1>3, <1>4, <1>5, <1>6, <1>7 DEF SideCore
<1> QED BY <1>2, <1>3, <1>8 DEF SideRight

\* A guest that takes the host's game is with it, whatever came before.
LEMMA AdoptGood ==
  ASSUME NEW s, NEW o, NEW in, NEW from, NEW dr, GoodAt(Guest, s, o, in, from, dr),
         NEW m \in in \cup Range(o.out), m.type = "snap", m.e > s.epoch, NEW t, t = Adopt(s, m),
         NEW d, d = IF t.r < s.r THEN t.epoch ELSE dr
  PROVE  GoodAt(Guest, t, o, in, from, d) /\ Ready(t)
<1>1. Good(o, s, from, in, dr) /\ Guest \in Player /\ Host \in Player /\ Guest # Host /\ Other(Guest) = Host
      /\ Other(Host) = Guest
  BY TwoSides DEF GoodAt
<1>2. /\ MsgRight(Guest, m, o.epoch) /\ SideRight(Guest, s) /\ SideCore(Guest, s) /\ SideRight(Host, o)
      /\ Half(s) /\ Half(o) /\ s.epoch \in Nat /\ o.epoch \in Nat
  BY <1>1, GoodSides DEF SideRight, Good
<1>3. SideRight(Guest, t)
  BY <1>2, AdoptRight
<1>4. /\ t.epoch = m.e /\ t.r = m.r /\ t.round = m.round /\ t.base = m.base /\ t.out = s.out
      /\ t.prev = (IF s.r >= 0 THEN <<Now(s)>> ELSE s.prev)
      /\ t.theirs = Copy(m).theirs /\ Longer(Copy(m).mine, t.mine) /\ Ready(t)
  BY <1>2, AdoptIs
<1>5. /\ m.e \in Nat /\ m.e <= o.epoch /\ RoundRight(m.round) /\ Half(Copy(m)) /\ s.r \in Int
      /\ t.r \in Int /\ Half(t)
  <2>1. m.e \in 0 .. o.epoch
    BY <1>2 DEF MsgRight
  <2>2. t.r \in Int /\ Half(t) /\ s.r \in Int
    BY <1>1, <1>2, <1>3, SideHalf DEF SideRight
  <2> QED BY <1>2, <2>1, <2>2, SnapCopy
<1>6. d \in Int /\ -1 <= d /\ d <= t.epoch /\ t.epoch <= o.epoch /\ s.epoch < t.epoch
  BY <1>1, <1>2, <1>4, <1>5 DEF Good
<1>7. ASSUME d # t.epoch PROVE Kept(t, from \cup Range(t.out))
  <2>1. t.prev # None => t.prev[1].r <= t.r
    <3>1. ~(t.r < s.r)
      BY <1>7
    <3>2. CASE s.r >= 0
      BY <1>4, <1>5, <3>1, <3>2 DEF Now
    <3>3. CASE ~(s.r >= 0)
      <4>1. s.prev = None
        BY <1>2, <1>5, <3>3, ConstantsAre DEF SideCore, WaitRight, GameRight
      <4> QED BY <1>4, <3>3, <4>1
    <3> QED BY <3>2, <3>3
  <2>2. ASSUME NEW x \in from \cup Range(t.out) PROVE Carried(x, t)
    <3>1. x.e \in 0 .. s.epoch
      BY <1>1, <1>4 DEF Good, MsgRight
    <3>2. x.e # t.epoch
      BY <1>2, <1>4, <1>5, <1>6, <3>1
    <3> QED BY <3>2 DEF Carried
  <2> QED BY <2>1, <2>2 DEF Kept
<1>8. ASSUME t.epoch = o.epoch PROVE Pair(Host, o, t)
  <2> DEFINE c == Copy(m)
             u == [r |-> t.r, base |-> t.base, round |-> t.round, mine |-> t.mine, theirs |-> t.theirs, prev |-> None]
  <2>1. m.r = o.r /\ Pair(Host, o, c)
    BY <1>1, <1>4, <1>6, <1>8 DEF Good
  <2>2. Pair(Guest, c, o)
    BY <1>1, <2>1, PairSwap
  <2>3. c.r = m.r /\ c.base = m.base /\ c.round = m.round /\ c.prev = None
    BY DEF Copy
  <2>4. /\ u.r = t.r /\ u.base = t.base /\ u.round = t.round /\ u.mine = t.mine /\ u.theirs = t.theirs
        /\ u.prev = None
    OBVIOUS
  <2>5. Half(c)
    BY <1>5
  <2> HIDE DEF c, u
  <2>6. Longer(c.mine, u.mine) /\ u.theirs = c.theirs
    BY <1>4, <2>4 DEF c
  <2>7. Pair(Guest, u, o)
    BY <1>1, <1>2, <1>4, <2>2, <2>3, <2>4, <2>5, <2>6, PairLonger
  <2>8. o.r = u.r /\ u.r \in Int
    BY <1>4, <1>5, <2>1, <2>4
  <2>9. Level(Guest, u, o)
    BY <2>7, <2>8 DEF Pair, AheadOf
  <2>10. Now(u) = Now(t)
    BY <2>4 DEF Now
  <2>11. Level(Guest, t, o)
    BY <2>4, <2>9, <2>10 DEF Level, HeardOf
  <2>12. Pair(Guest, t, o)
    BY <2>11 DEF Pair
  <2> QED BY <1>1, <2>12, PairSwap
<1>9. ASSUME NEW x \in in \cup Range(o.out), x.type = "snap" /\ x.e = o.epoch /\ t.epoch < o.epoch
      PROVE  x.r = o.r /\ Pair(Host, o, Copy(x))
  BY <1>1, <1>2, <1>4, <1>5, <1>6, <1>9 DEF Good
<1>10. \A x \in from \cup Range(t.out) : MsgRight(Host, x, t.epoch)
  <2> SUFFICES ASSUME NEW x \in from \cup Range(t.out) PROVE MsgRight(Host, x, t.epoch)
    OBVIOUS
  <2>1. MsgRight(Host, x, s.epoch)
    BY <1>1, <1>4 DEF Good
  <2>2. x.e \in 0 .. s.epoch
    BY <2>1 DEF MsgRight
  <2>3. x.e \in 0 .. t.epoch
    BY <1>2, <1>4, <1>5, <1>6, <2>2
  <2> QED BY <2>1, <2>3 DEF MsgRight
<1>11. Good(o, t, from, in, d)
  BY <1>1, <1>3, <1>6, <1>7, <1>8, <1>9, <1>10 DEF Good
<1> QED BY <1>1, <1>4, <1>11 DEF GoodAt

-----------------------------------------------------------------------------
(* What one message has room for *)

LEMMA ThirdIs ==
  /\ Third \in Nat /\ Third > 0 /\ 3 * Third <= MAX_FRAMES /\ Third <= MAX_FRAMES
  /\ \A d \in Delays : d \in Nat /\ d > 0 /\ d <= Third
<1>1. /\ MAX_FRAMES \in Nat /\ Delays # {}
      /\ \A d \in Delays : d \in Nat /\ d > 0 /\ 3 * d <= MAX_FRAMES
  BY ConstantsAre, TrailsAssumption
<1>2. Third \in Nat /\ 3 * Third <= MAX_FRAMES /\ MAX_FRAMES < 3 * Third + 3
  BY <1>1 DEF Third
<1>3. ASSUME NEW d \in Delays PROVE d \in Nat /\ d > 0 /\ d <= Third
  BY <1>1, <1>2
<1>4. PICK d \in Delays : TRUE
  BY <1>1
<1>5. Third > 0
  BY <1>2, <1>3, <1>4
<1> QED BY <1>1, <1>2, <1>3, <1>5

\* A side has fixed the frames for every tick the other has got to.
LEMMA Gap ==
  ASSUME NEW p \in Player, NEW a, NEW b, Abreast(p, a, b), a.mine \in Seq(Frame),
         a.round.tick \in Nat, b.round.tick \in Nat
  PROVE  b.round.tick <= a.round.tick \/ b.round.tick <= Len(a.mine)
<1>1. CASE Onward(p, a, b)
  BY <1>1 DEF Onward, Through
<1>2. CASE Onward(Other(p), b, a)
  <2> DEFINE k == b.round.tick - 1
  <2>1. \A i \in a.round.tick .. b.round.tick - 1 : i < Len(a.mine)
    BY <1>2 DEF Onward, Through
  <2>2. CASE b.round.tick <= a.round.tick
    BY <2>2
  <2>3. CASE b.round.tick > a.round.tick
    <3>1. k \in a.round.tick .. b.round.tick - 1
      BY <2>3
    <3>2. k < Len(a.mine) /\ Len(a.mine) \in Nat
      BY <2>1, <3>1
    <3> QED BY <3>2
  <2> QED BY <2>2, <2>3
<1> QED BY <1>1, <1>2 DEF Abreast

\* Of one side, and of the two.
LEMMA FitSides ==
  ASSUME NEW p \in Player, NEW s, NEW o, NEW in, NEW from, NEW dr, GoodAt(p, s, o, in, from, dr),
         FitAt(p, s, o, in, from, dr)
  PROVE  /\ Own(p, s) /\ Own(Other(p), o)
         /\ o.epoch = s.epoch /\ dr # s.epoch =>
              /\ Acks(s, o) /\ Acks(o, s)
              /\ Claims(o, in \cup Range(o.out)) /\ Claims(s, from \cup Range(s.out))
         /\ dr = -1 /\ o.epoch = s.epoch =>
              /\ Behind(s, o) /\ Behind(o, s)
              /\ o.r <= s.r => Low(s)
              /\ s.r <= o.r => Low(o)
<1>1. CASE p = Host
  <2>1. Fit(s, o, in, from, dr) /\ Other(p) = Guest
    BY <1>1, TwoSides DEF FitAt
  <2> QED BY <1>1, <2>1 DEF Fit
<1>2. CASE p # Host
  <2>1. Fit(o, s, from, in, dr) /\ p = Guest /\ Other(p) = Host
    BY <1>2, TwoSides DEF FitAt
  <2> QED BY <2>1 DEF Fit
<1> QED BY <1>1, <1>2

\* A side gets on with its round, and one message still has room for what the other needs.
LEMMA FitLift ==
  ASSUME NEW p \in Player, NEW s, NEW t, NEW o, NEW in, NEW from, NEW in2, NEW from2, NEW dr,
         FitAt(p, s, o, in, from, dr), Own(p, t), s.epoch \in Nat, t.epoch = s.epoch, t.r = s.r, t.prev = s.prev,
         \A a : Has(s, a) => Has(t, a),
         t.round.result = Going => s.round.result = Going,
         in2 \cup Range(o.out) \subseteq in \cup Range(o.out),
         \A m \in from2 \cup Range(t.out) : m \in from \cup Range(s.out) \/ (m.type # "snap" /\ Claim(m, t)),
         o.epoch = s.epoch /\ dr # s.epoch /\ Acks(s, o) => Acks(t, o),
         p = Host /\ o.epoch # s.epoch => t.acked = s.acked,
         dr = -1 /\ Low(s) /\ o.r <= s.r /\ (p = Host \/ o.epoch = s.epoch) => Low(t),
         dr = -1 /\ o.epoch = s.epoch /\ Behind(s, o) => Behind(t, o)
  PROVE  FitAt(p, t, o, in2, from2, dr)
<1>1. ASSUME Claims(s, from \cup Range(s.out)) PROVE Claims(t, from2 \cup Range(t.out))
  <2> SUFFICES ASSUME NEW m \in from2 \cup Range(t.out) PROVE Claim(m, t)
    BY DEF Claims
  <2>1. CASE m \in from \cup Range(s.out)
    <3>1. Claim(m, s)
      BY <1>1, <2>1 DEF Claims
    <3> QED BY <3>1 DEF Claim
  <2>2. CASE m.type # "snap" /\ Claim(m, t)
    BY <2>2
  <2> QED BY <2>1, <2>2
<1>2. Claims(o, in \cup Range(o.out)) => Claims(o, in2 \cup Range(o.out))
  BY DEF Claims
<1>3. Acks(o, s) => Acks(o, t)
  BY DEF Acks
<1>4. Behind(o, s) => Behind(o, t)
  BY DEF Behind
<1>5. CASE p = Host
  <2>1. Fit(s, o, in, from, dr)
    BY <1>5 DEF FitAt
  <2>2. Claims(t, from2 \cup Range(t.out)) /\ (dr # o.epoch => Claims(o, in2 \cup Range(o.out)))
    BY <1>1, <1>2, <2>1 DEF Fit
  <2>3. ASSUME NEW m \in from2 \cup Range(t.out), m.type = "snap"
        PROVE  Len(m.frames[Host]) <= Third /\ (m.e = t.epoch /\ o.epoch < t.epoch => Brings(t, m))
    <3>1. m \in from \cup Range(s.out)
      BY <2>3
    <3>2. Len(m.frames[Host]) <= Third /\ (m.e = s.epoch /\ o.epoch < s.epoch => Brings(s, m))
      BY <2>1, <2>3, <3>1 DEF Fit
    <3>3. ASSUME m.e = t.epoch, o.epoch < t.epoch PROVE Brings(t, m)
      <4>1. Brings(s, m) /\ (o.epoch # s.epoch => t.acked = s.acked)
        BY <1>5, <3>2, <3>3
      <4>2. CASE t.acked = s.acked
        BY <4>1, <4>2 DEF Brings
      <4>3. CASE o.epoch = s.epoch
        <5>1. FALSE
          BY <3>3, <4>3
        <5> QED BY <5>1
      <4> QED BY <4>1, <4>2, <4>3
    <3> QED BY <3>2, <3>3
  <2>4. o.epoch = t.epoch /\ dr # t.epoch => Acks(t, o) /\ Acks(o, t)
    BY <1>3, <2>1 DEF Fit
  <2>5. dr = -1 /\ o.r <= t.r => Low(t)
    BY <1>5, <2>1 DEF Fit
  <2>6. dr = -1 /\ o.epoch = t.epoch => Behind(t, o) /\ Behind(o, t) /\ (t.r <= o.r => Low(o))
    BY <1>4, <2>1 DEF Fit
  <2>7. Own(Host, t) /\ Own(Guest, o)
    BY <1>5, <2>1 DEF Fit
  <2>8. Fit(t, o, in2, from2, dr)
    BY <2>2, <2>3, <2>4, <2>5, <2>6, <2>7 DEF Fit
  <2> QED BY <1>5, <2>8 DEF FitAt
<1>6. CASE p # Host
  <2>0. p = Guest
    BY <1>6, TwoSides
  <2>1. Fit(o, s, from, in, dr)
    BY <1>6 DEF FitAt
  <2>2. Claims(o, in2 \cup Range(o.out)) /\ (dr # t.epoch => Claims(t, from2 \cup Range(t.out)))
    BY <1>1, <1>2, <2>1 DEF Fit
  <2>3. ASSUME NEW m \in in2 \cup Range(o.out), m.type = "snap"
        PROVE  Len(m.frames[Host]) <= Third /\ (m.e = o.epoch /\ t.epoch < o.epoch => Brings(o, m))
    BY <2>1, <2>3 DEF Fit
  <2>4. t.epoch = o.epoch /\ dr # o.epoch => Acks(o, t) /\ Acks(t, o)
    BY <1>3, <2>1 DEF Fit
  <2>5. dr = -1 /\ t.r <= o.r => Low(o)
    BY <2>1 DEF Fit
  <2>6. dr = -1 /\ t.epoch = o.epoch => Behind(o, t) /\ Behind(t, o) /\ (o.r <= t.r => Low(t))
    BY <1>4, <2>1 DEF Fit
  <2>7. Own(Host, o) /\ Own(Guest, t)
    BY <2>0, <2>1 DEF Fit
  <2>8. Fit(o, t, from2, in2, dr)
    BY <2>2, <2>3, <2>4, <2>5, <2>6, <2>7 DEF Fit
  <2> QED BY <1>6, <2>8 DEF FitAt
<1> QED BY <1>5, <1>6

\* Nothing changes but what a side has fixed, and that no further than it may.
LEMMA FitSame ==
  ASSUME NEW p \in Player, NEW s, NEW t, NEW o, NEW in, NEW from, NEW in2, NEW from2, NEW dr,
         FitAt(p, s, o, in, from, dr), s.epoch \in Nat, t.epoch = s.epoch, t.r = s.r,
         t.prev = s.prev, t.round = s.round, t.theirs = s.theirs, t.acked = s.acked, Own(p, t),
         in2 \cup Range(o.out) \subseteq in \cup Range(o.out),
         \A m \in from2 \cup Range(t.out) : m \in from \cup Range(s.out) \/ (m.type # "snap" /\ Claim(m, t))
  PROVE  FitAt(p, t, o, in2, from2, dr)
<1>1. \A a : Has(s, a) => Has(t, a)
  BY DEF Has
<1>2. (Acks(s, o) => Acks(t, o)) /\ (Low(s) => Low(t)) /\ (Behind(s, o) => Behind(t, o))
  BY DEF Acks, Low, Behind
<1> QED BY <1>1, <1>2, FitLift

\* A side posts what it may.
LEMMA PostFit ==
  ASSUME NEW p \in Player, NEW s, NEW o, NEW in, NEW from, NEW dr, GoodAt(p, s, o, in, from, dr),
         FitAt(p, s, o, in, from, dr), NEW m, m.type # "snap", Claim(m, s), NEW t, t = Post(s, m)
  PROVE  FitAt(p, t, o, in, from, dr)
<1>1. SideRight(p, s) /\ SideCore(p, s) /\ s.epoch \in Nat /\ Own(p, s)
  BY GoodSides, FitSides DEF SideRight
<1>2. Range(t.out) = Range(s.out) \cup {m}
  BY <1>1, PostRight
<1>3. /\ t.epoch = s.epoch /\ t.r = s.r /\ t.prev = s.prev /\ t.round = s.round
      /\ t.theirs = s.theirs /\ t.mine = s.mine /\ t.acked = s.acked
  BY <1>1, PostIs DEF SameGame
<1>4. Own(p, t) /\ Claim(m, t)
  BY <1>1, <1>3 DEF Own, Long, Sealed, Claim, Has
<1> QED BY <1>1, <1>2, <1>3, <1>4, FitSame

\* A snapshot has room for the host's frames, and what it tells the guest of the guest's own the host holds.
LEMMA SnapshotFit ==
  ASSUME NEW s, NEW o, NEW in, NEW from, NEW dr, GoodAt(Host, s, o, in, from, dr),
         FitAt(Host, s, o, in, from, dr), NEW u, SideCore(Host, u), u.phase # "wait", u.epoch = s.epoch,
         u.out = s.out, Own(Host, u), dr = -1 /\ o.r <= u.r => Low(u),
         NEW t, t = Snapshot(u)
  PROVE  FitAt(Host, t, o, in, from, dr)
<1>1. PICK m : SnapOf(u, t, m)
  BY SnapshotIs, TwoSides
<1>2. Range(t.out) = Range(u.out) \cup {m}
  BY <1>1, SnapRight
<1>3. /\ t.epoch = s.epoch + 1 /\ t.r = u.r /\ t.round = u.round /\ t.mine = u.mine /\ t.acked = u.acked
      /\ DOMAIN t.theirs \subseteq DOMAIN u.theirs /\ m.type = "snap" /\ m.e = t.epoch /\ m.round = u.round
      /\ m.frames[Host] \in Seq(Frame) /\ m.frames[Guest] \in Seq(Frame)
      /\ \A i \in 1 .. Len(m.frames[Host]) : u.round.tick + i <= Len(u.mine)
      /\ \A k \in u.round.tick .. u.round.tick + Len(m.frames[Guest]) - 1 : k \in DOMAIN t.theirs
      /\ u.phase \in {"run", "count"} =>
           Len(u.mine) <= u.round.tick + Len(m.frames[Host]) \/ Len(u.mine) > u.round.tick + MAX_FRAMES
  BY <1>1 DEF SnapOf
<1>4. /\ Good(s, o, in, from, dr) /\ Fit(s, o, in, from, dr) /\ s.epoch \in Nat /\ o.epoch \in Nat
      /\ o.epoch <= s.epoch /\ \A x \in from \cup Range(s.out) : MsgRight(Guest, x, s.epoch)
  BY TwoSides, GoodSides DEF GoodAt, FitAt
<1>5. /\ Len(u.mine) \in Nat /\ u.acked \in Int /\ u.acked <= Len(u.mine) - 1 /\ u.round.tick \in Nat
      /\ u.phase \in {"run", "count", "point", "over"}
      /\ u.round.result = Going => u.phase \in {"run", "count"}
  BY TwoSides, SideHalf DEF SideCore, GameRight, Sealed
<1>6. u.round.tick <= Len(u.mine) /\ Len(u.mine) <= u.round.tick + Third
  BY <1>5, ThirdIs, TwoSides DEF Own, Long, Sealed
<1>7. Own(Host, t) /\ (Low(u) => Low(t))
  BY <1>3 DEF Own, Long, Sealed, Low
<1>8. Len(m.frames[Host]) <= Third
  <2> DEFINE l == Len(m.frames[Host])
  <2>1. l \in Nat
    BY <1>3
  <2>2. l = 0 \/ u.round.tick + l <= Len(u.mine)
    <3>1. l = 0 \/ l \in 1 .. l
      BY <2>1
    <3> QED BY <1>3, <3>1
  <2> HIDE DEF l
  <2>3. l <= Third
    BY <1>5, <1>6, <2>1, <2>2, ThirdIs
  <2> QED BY <2>3 DEF l
<1>9. Brings(t, m)
  <2>1. Has(t, m.round.tick + Len(m.frames[Guest]) - 1)
    BY <1>3 DEF Has
  <2>2. m.round.result = Going => t.acked < m.round.tick + Len(m.frames[Host])
    <3> SUFFICES ASSUME u.round.result = Going PROVE u.acked < u.round.tick + Len(m.frames[Host])
      BY <1>3
    <3> DEFINE l == Len(m.frames[Host])
    <3>1. l \in Nat
      BY <1>3
    <3>2. Len(u.mine) <= u.round.tick + l \/ Len(u.mine) > u.round.tick + MAX_FRAMES
      BY <1>3, <1>5
    <3> DEFINE n == Len(u.mine)
               k == u.round.tick
    <3>3. /\ n \in Nat /\ k \in Nat /\ u.acked \in Int /\ u.acked <= n - 1 /\ n <= k + Third
          /\ n <= k + l \/ n > k + MAX_FRAMES
      BY <1>5, <1>6, <3>2
    <3>4. Third \in Nat /\ MAX_FRAMES \in Nat /\ Third <= MAX_FRAMES
      BY ThirdIs, ConstantsAre
    <3> HIDE DEF l, n, k
    <3>5. u.acked < k + l
      BY <3>1, <3>3, <3>4
    <3> QED BY <3>5 DEF l, k
  <2> QED BY <2>1, <2>2 DEF Brings
<1>10. ASSUME NEW x \in from \cup Range(t.out), x # m
       PROVE  x \in from \cup Range(s.out) /\ x.e # t.epoch
  <2>1. x \in from \cup Range(s.out)
    BY <1>2, <1>10
  <2>2. x.e \in 0 .. s.epoch
    BY <1>4, <2>1 DEF MsgRight
  <2> QED BY <1>3, <1>4, <2>1, <2>2
<1>11. Claims(t, from \cup Range(t.out))
  <2> SUFFICES ASSUME NEW x \in from \cup Range(t.out) PROVE Claim(x, t)
    BY DEF Claims
  <2>1. ~(x.type = "frames" /\ x.e = t.epoch)
    BY <1>3, <1>10
  <2> QED BY <2>1 DEF Claim
<1>12. ASSUME NEW x \in from \cup Range(t.out), x.type = "snap"
       PROVE  Len(x.frames[Host]) <= Third /\ (x.e = t.epoch /\ o.epoch < t.epoch => Brings(t, x))
  <2>1. CASE x = m
    BY <1>8, <1>9, <2>1
  <2>2. CASE x # m
    BY <1>4, <1>10, <1>12, <2>2 DEF Fit
  <2> QED BY <2>1, <2>2
<1>13. o.epoch # t.epoch
  BY <1>3, <1>4
<1>14. Own(Guest, o) /\ (dr # o.epoch => Claims(o, in \cup Range(o.out)))
  BY <1>4 DEF Fit
<1>15. dr = -1 /\ o.r <= t.r => Low(t)
  BY <1>3, <1>7
<1>16. Fit(t, o, in, from, dr)
  BY <1>7, <1>11, <1>12, <1>13, <1>14, <1>15 DEF Fit
<1> QED BY <1>16 DEF FitAt

\* A side goes on to a round of which nothing is fixed, heard or acknowledged yet.
LEMMA FreshFit ==
  ASSUME NEW p, NEW t, t.round = NewRound, t.mine \in Seq(Frame), Len(t.mine) = 0, DOMAIN t.theirs = {},
         t.acked = -1
  PROVE  Own(p, t) /\ Low(t)
<1>1. t.round.tick = 0 /\ Sealed(t) = -1
  BY NewRoundIs DEF Sealed
<1> QED BY <1>1, ThirdIs DEF Own, Long, Low, Sealed

\* The host begins a match with a snapshot of its first round.
LEMMA StartFit ==
  ASSUME NEW s, NEW o, NEW in, NEW from, NEW dr, GoodAt(Host, s, o, in, from, dr),
         FitAt(Host, s, o, in, from, dr), s.r < MaxRound,
         NEW d \in Delays, NEW t, t = Start(s, d)
  PROVE  FitAt(Host, t, o, in, from, dr)
<1> DEFINE x == [s EXCEPT !.delay = d, !.score = <<0, 0>>, !.again = [mine |-> FALSE, theirs |-> FALSE]]
           u == NextRound(x, Host)
<1>1. SideRight(Host, s) /\ SideCore(Host, s) /\ Host \in Player
  BY TwoSides, GoodSides DEF SideRight
<1>2. /\ DOMAIN s = DOMAIN NewSession /\ s.epoch \in Nat /\ PrevRight(s) /\ IsSeq(s.out)
      /\ s.r \in Int /\ -1 <= s.r /\ RoundRight(s.round) /\ s.mine \in Seq(Frame)
  BY <1>1, SideHalf DEF Half, SideCore
<1>3. /\ DOMAIN x = DOMAIN NewSession /\ x.again = [mine |-> FALSE, theirs |-> FALSE]
      /\ x.epoch = s.epoch /\ x.delay = d /\ x.prev = s.prev /\ x.out = s.out /\ x.r = s.r
      /\ x.round = s.round /\ x.mine = s.mine /\ x.score = <<0, 0>>
  BY <1>2, FieldsAre
<1> HIDE DEF x
<1>4. x.score \in [Player -> Nat] /\ ~MatchWon(x.score)
  BY <1>3, RoundAssumption DEF Player, MatchWon
<1>5. PrevRight(x) /\ DOMAIN x.again = {"mine", "theirs"} /\ ~x.again.mine
  BY <1>2, <1>3 DEF PrevRight
<1>6. SideCore(Host, u)
  BY <1>1, <1>2, <1>3, <1>4, <1>5, NextRoundRight
<1>7. /\ u.round = NewRound /\ u.mine \in Seq(Frame) /\ Len(u.mine) = 0 /\ u.theirs = <<>> /\ u.acked = -1
      /\ u.phase = "count" /\ u.epoch = x.epoch /\ u.out = x.out
  <2>1. DOMAIN x = DOMAIN NewSession /\ u = NextRound(x, Host)
    BY <1>3
  <2> HIDE DEF u
  <2>2. /\ u.prev = IF x.r >= 0 THEN <<Now(x)>> ELSE x.prev
        /\ u.r = x.r + 1 /\ u.round = NewRound /\ u.base = <<x.r + 1, x.score>> /\ u.phase = "count"
        /\ u.mine \in Seq(Frame) /\ Len(u.mine) = 0 /\ u.theirs = <<>> /\ u.acked = -1
        /\ u.epoch = x.epoch /\ u.out = x.out
    BY ONLY <2>1, NextRoundFields
  <2> QED BY <2>2
<1>8. t = Snapshot(u)
  BY DEF Start, x
<1> HIDE DEF u
<1>9. Own(Host, u) /\ Low(u)
  BY <1>7, Nothing, FreshFit
<1> QED BY <1>3, <1>6, <1>7, <1>8, <1>9, SnapshotFit

\* A side goes on to the next round of the match.
LEMMA NextFit ==
  ASSUME NEW p \in Player, NEW s, NEW o, NEW in, NEW from, NEW dr, GoodAt(p, s, o, in, from, dr),
         FitAt(p, s, o, in, from, dr), s.phase = "point", s.r < MaxRound, s.out = <<>>, o.out = <<>>,
         \A m \in in \cup from : m.type \in {"frames", "snap"} => m.r > s.r,
         NEW t, t = NextRound(s, p)
  PROVE  FitAt(p, t, o, in, from, dr)
<1>1. /\ SideCore(p, s) /\ Half(s) /\ Half(o) /\ SideCore(Other(p), o) /\ Other(p) \in Player
      /\ DOMAIN s = DOMAIN NewSession /\ s.epoch \in Nat /\ o.epoch \in Nat
  <2>1. SideRight(p, s) /\ SideRight(Other(p), o) /\ Half(s) /\ Half(o) /\ s.epoch \in Nat /\ o.epoch \in Nat
    BY GoodSides
  <2>2. SideCore(p, s) /\ SideCore(Other(p), o)
    BY <2>1 DEF SideRight
  <2>3. DOMAIN s = DOMAIN NewSession
    BY <2>2 DEF SideCore
  <2> QED BY <2>1, <2>2, <2>3, TwoSides
<1>2. /\ s.r \in Int /\ s.r >= 0 /\ o.r \in Int /\ s.round.tick \in Nat /\ o.round.tick \in Nat
      /\ Len(s.mine) \in Nat /\ Len(o.mine) \in Nat /\ s.mine \in Seq(Frame) /\ o.mine \in Seq(Frame)
      /\ s.acked \in Int /\ o.acked \in Int /\ s.round.result # Going
  <2>1. s.r \in 0 .. MaxRound /\ s.round.result # Going
    BY <1>1 DEF SideCore, GameRight
  <2>2. s.acked \in Int /\ o.acked \in Int
    BY <1>1 DEF SideCore
  <2>3. s.r \in Int /\ o.r \in Int /\ s.round.tick \in Nat /\ o.round.tick \in Nat
    BY <1>1, SideHalf
  <2>4. s.mine \in Seq(Frame) /\ o.mine \in Seq(Frame)
    BY <1>1 DEF Half
  <2>5. Len(s.mine) \in Nat /\ Len(o.mine) \in Nat
    BY <2>4
  <2> QED BY <2>1, <2>2, <2>3, <2>4, <2>5, ConstantsAre
<1>3. /\ t.prev = <<Now(s)>> /\ t.r = s.r + 1 /\ t.round = NewRound /\ t.mine \in Seq(Frame) /\ Len(t.mine) = 0
      /\ t.theirs = <<>> /\ t.acked = -1 /\ t.epoch = s.epoch /\ t.out = <<>>
  <2>1. DOMAIN s = DOMAIN NewSession
    BY <1>1
  <2>2. /\ t.prev = IF s.r >= 0 THEN <<Now(s)>> ELSE s.prev
        /\ t.r = s.r + 1 /\ t.round = NewRound /\ t.mine \in Seq(Frame) /\ Len(t.mine) = 0
        /\ t.theirs = <<>> /\ t.acked = -1 /\ t.epoch = s.epoch /\ t.out = s.out
    BY ONLY <2>1, t = NextRound(s, p), NextRoundFields
  <2> QED BY <1>2, <2>2
<1>4. Own(p, t) /\ Low(t)
  BY <1>3, Nothing, FreshFit
<1>5. Range(s.out) = {} /\ Range(t.out) = {} /\ Range(o.out) = {}
  BY <1>3, Nothing
<1>6. Acks(t, o)
  BY <1>2, <1>3 DEF Acks, Has
<1>7. Acks(o, s) => Acks(o, t)
  <2> SUFFICES ASSUME Acks(o, s) PROVE Acks(o, t)
    OBVIOUS
  <2>1. o.r > s.r => o.acked < 0
    BY DEF Acks
  <2>2. t.round.tick = 0
    BY <1>3, NewRoundIs
  <2>3. o.r >= t.r => o.acked < 0
    BY <1>2, <1>3, <2>1
  <2>4. o.acked < 0 => Has(t, o.acked)
    BY <1>2, <2>2 DEF Has
  <2> QED BY <1>2, <1>3, <2>3, <2>4 DEF Acks
<1>8. ASSUME Kept(s, from), NEW m \in from PROVE Claim(m, t)
  <2>1. Carried(m, s)
    BY <1>8 DEF Kept
  <2>2. ~(m.type = "frames" /\ m.e = s.epoch)
    <3>1. SUFFICES ASSUME m.type = "frames", m.e = s.epoch PROVE FALSE
      OBVIOUS
    <3>2. m.r > s.r /\ (m.r = s.r \/ m.r < s.r)
      BY <2>1, <3>1 DEF Carried
    <3>3. MsgRight(Other(p), m, s.epoch)
      BY <1>8, GoodSides
    <3>4. m.r \in Int
      BY <3>1, <3>3 DEF MsgRight
    <3> QED BY <1>2, <3>2, <3>4
  <2> QED BY <1>3, <2>2 DEF Claim
<1>9. Kept(s, from) => Claims(t, from \cup Range(t.out))
  BY <1>5, <1>8 DEF Claims
<1>10. ASSUME dr = -1, o.epoch = s.epoch PROVE Behind(t, o) /\ Behind(o, t)
  <2>1. Pair(p, s, o)
    <3>1. dr # s.epoch
      BY <1>1, <1>10
    <3> QED BY <1>10, <3>1, GoodSides
  <2>2. Own(Other(p), o) /\ (o.r <= s.r => Low(s)) /\ (s.r <= o.r => Low(o))
    BY <1>10, FitSides
  <2>3. t.prev[1].round.tick = s.round.tick
    BY <1>3 DEF Now
  <2>4. CASE Level(p, s, o)
    <3>1. o.r = s.r /\ Abreast(p, Now(s), Now(o))
      BY <2>4 DEF Level
    <3>2. Abreast(Other(p), Now(o), Now(s))
      BY <1>1, <3>1, AbreastSwap
    <3>3. s.round.tick <= o.round.tick \/ s.round.tick <= Len(o.mine)
      <4> DEFINE a == Now(o)
                 b == Now(s)
      <4>1. a.mine = o.mine /\ a.round = o.round /\ b.round = s.round /\ Abreast(Other(p), a, b)
        BY <3>2 DEF Now
      <4> HIDE DEF a, b
      <4>2. b.round.tick <= a.round.tick \/ b.round.tick <= Len(a.mine)
        BY <1>1, <1>2, <4>1, Gap
      <4> QED BY <4>1, <4>2
    <3>4. o.acked >= o.round.tick - 1 - Third
      BY <1>2, <2>2, <3>1 DEF Low
    <3>5. Len(o.mine) - 1 <= o.round.tick + Third - 1 \/ Len(o.mine) - 1 <= o.acked
      BY <2>2 DEF Own, Long, Sealed
    <3>6. o.acked >= s.round.tick - 1 - 2 * Third
      <4> DEFINE a == o.acked
                 n == Len(o.mine)
                 k == o.round.tick
                 x == s.round.tick
                 y == Third
      <4>1. /\ a \in Int /\ n \in Nat /\ k \in Nat /\ x \in Nat /\ y \in Nat
            /\ x <= k \/ x <= n
            /\ a >= k - 1 - y
            /\ n - 1 <= k + y - 1 \/ n - 1 <= a
        BY <1>2, <3>3, <3>4, <3>5, ThirdIs
      <4> HIDE DEF a, n, k, x, y
      <4>2. a >= x - 1 - 2 * y
        BY <4>1
      <4> QED BY <4>2 DEF a, x, y
    <3>7. ~(o.r > t.r)
      BY <1>2, <1>3, <3>1
    <3> QED BY <2>3, <3>6, <3>7 DEF Behind
  <2>5. CASE AheadOf(p, s, o)
    <3>1. s.round.result = Going
      BY <2>5, NewRoundIs DEF AheadOf, GoneOn
    <3> QED BY <1>2, <3>1
  <2>6. CASE AheadOf(Other(p), o, s)
    <3>1. o.r = s.r + 1
      BY <2>6 DEF AheadOf
    <3>2. ~(o.r > t.r) /\ ~(t.r > o.r)
      BY <1>2, <1>3, <3>1
    <3> QED BY <3>2 DEF Behind
  <2> QED BY <2>1, <2>4, <2>5, <2>6 DEF Pair
<1>11. t.r <= o.r => s.r <= o.r
  BY <1>2, <1>3
<1>12. CASE p = Host
  <2>1. Fit(s, o, in, from, dr) /\ Good(s, o, in, from, dr)
    BY <1>12 DEF FitAt, GoodAt
  <2>2. Claims(t, from \cup Range(t.out))
    <3>1. Kept(s, from)
      BY <1>5, <2>1 DEF Good
    <3> QED BY <1>9, <3>1
  <2>3. ASSUME NEW m \in from \cup Range(t.out), m.type = "snap"
        PROVE  Len(m.frames[Host]) <= Third /\ ~(m.e = t.epoch /\ o.epoch < t.epoch)
    <3>1. m \in from
      BY <1>5, <2>3
    <3>2. Len(m.frames[Host]) <= Third
      BY <2>1, <2>3, <3>1 DEF Fit
    <3>3. ASSUME m.e = t.epoch, o.epoch < t.epoch PROVE FALSE
      <4>1. m.r = s.r
        BY <1>3, <2>1, <2>3, <3>1, <3>3 DEF Good
      <4>2. m.r > s.r
        BY <2>3, <3>1
      <4> QED BY <1>2, <4>1, <4>2
    <3> QED BY <3>2, <3>3
  <2>4. Own(Guest, o) /\ (dr # o.epoch => Claims(o, in \cup Range(o.out)))
    BY <2>1 DEF Fit
  <2>5. o.epoch = t.epoch /\ dr # t.epoch => Acks(o, t)
    BY <1>3, <1>7, <2>1 DEF Fit
  <2>6. dr = -1 /\ o.epoch = t.epoch => (t.r <= o.r => Low(o))
    BY <1>3, <1>11, <2>1 DEF Fit
  <2>7. Fit(t, o, in, from, dr)
    BY <1>3, <1>4, <1>6, <1>10, <1>12, <2>2, <2>3, <2>4, <2>5, <2>6 DEF Fit
  <2> QED BY <1>12, <2>7 DEF FitAt
<1>13. CASE p # Host
  <2>0. p = Guest
    BY <1>13, TwoSides
  <2>1. Fit(o, s, from, in, dr) /\ Good(o, s, from, in, dr)
    BY <1>13 DEF FitAt, GoodAt
  <2>2. dr # t.epoch => Claims(t, from \cup Range(t.out))
    <3>1. dr # s.epoch => Kept(s, from)
      BY <1>5, <2>1 DEF Good
    <3> QED BY <1>3, <1>9, <3>1
  <2>3. ASSUME NEW m \in in \cup Range(o.out), m.type = "snap"
        PROVE  Len(m.frames[Host]) <= Third /\ (m.e = o.epoch /\ t.epoch < o.epoch => Brings(o, m))
    BY <1>3, <2>1, <2>3 DEF Fit
  <2>4. Own(Host, o) /\ Claims(o, in \cup Range(o.out))
    BY <2>1 DEF Fit
  <2>5. t.epoch = o.epoch /\ dr # o.epoch => Acks(o, t)
    BY <1>3, <1>7, <2>1 DEF Fit
  <2>6. dr = -1 /\ t.r <= o.r => Low(o)
    BY <1>11, <2>1 DEF Fit
  <2>7. Fit(o, t, from, in, dr)
    BY <1>3, <1>4, <1>6, <1>10, <2>0, <2>2, <2>3, <2>4, <2>5, <2>6 DEF Fit
  <2> QED BY <1>13, <2>7 DEF FitAt
<1> QED BY <1>12, <1>13

\* The guest takes the host's game: each is told what the other holds.
LEMMA AdoptFit ==
  ASSUME NEW s, NEW o, NEW in, NEW from, NEW dr, GoodAt(Guest, s, o, in, from, dr),
         FitAt(Guest, s, o, in, from, dr), NEW m \in in \cup Range(o.out), m.type = "snap", m.e > s.epoch,
         NEW t, t = Adopt(s, m), NEW d, d = IF t.r < s.r THEN t.epoch ELSE dr
  PROVE  FitAt(Guest, t, o, in, from, d)
<1> DEFINE tick == m.round.tick
           x == Len(m.frames[Host])
           y == Len(m.frames[Guest])
<1>1. /\ Good(o, s, from, in, dr) /\ Fit(o, s, from, in, dr) /\ Guest \in Player /\ Host \in Player
      /\ Guest # Host /\ Other(Guest) = Host
  BY TwoSides DEF GoodAt, FitAt
<1>2. /\ MsgRight(Guest, m, o.epoch) /\ SideRight(Guest, s) /\ SideCore(Guest, s) /\ SideCore(Host, o)
      /\ s.epoch \in Nat /\ o.epoch \in Nat
  BY <1>1, GoodSides DEF SideRight, Good
<1>3. /\ m.e \in 0 .. o.epoch /\ m.frames[Host] \in Seq(Frame) /\ m.frames[Guest] \in Seq(Frame)
      /\ RoundRight(m.round) /\ m.d \in Delays
  BY <1>2 DEF MsgRight, GameRight
<1>4. tick \in Nat /\ x \in Nat /\ y \in Nat
  BY <1>3 DEF RoundRight, RoundType
<1>5. /\ t.epoch = m.e /\ t.r = m.r /\ t.round = m.round /\ t.out = s.out
      /\ t.theirs = Copy(m).theirs /\ Longer(Copy(m).mine, t.mine)
      /\ t.acked = tick + y - 1 /\ t.acked <= Sealed(t)
      /\ Sealed(t) = t.acked \/ Sealed(t) = tick + m.d - 1
  <2>1. SideCore(Guest, s) /\ MsgRight(Guest, m, o.epoch) /\ m.type = "snap" /\ t = Adopt(s, m)
    BY <1>2
  <2>2. /\ DOMAIN t = DOMAIN NewSession /\ DOMAIN t.again = {"mine", "theirs"}
        /\ t.epoch = m.e /\ t.delay = m.d /\ t.r = m.r /\ t.round = m.round /\ t.base = m.base
        /\ t.score = m.score /\ t.phase = m.phase /\ t.out = s.out
        /\ t.prev = IF s.r >= 0 THEN <<Now(s)>> ELSE s.prev
        /\ t.theirs = Copy(m).theirs /\ Longer(Copy(m).mine, t.mine)
        /\ t.acked \in Int /\ t.acked <= Sealed(t) /\ t.queue \in Seq(Dir) /\ Len(t.queue) <= QUEUE_MAX
        /\ Ready(t) /\ t.acked = m.round.tick + Len(m.frames[Guest]) - 1
        /\ Sealed(t) = t.acked \/ Sealed(t) = m.round.tick + m.d - 1
    BY ONLY <2>1, AdoptIs
  <2> QED BY <2>2
<1>6. DOMAIN t.theirs = tick .. tick + x - 1
  BY <1>3, <1>5, CopyHalf
<1>7. Len(t.mine) \in Nat /\ Sealed(t) = Len(t.mine) - 1
  BY <1>5 DEF Longer, Sealed
<1> HIDE DEF x, y
<1>8. x <= Third
  BY <1>1, <1>5 DEF Fit, x
<1>9. Own(Guest, t)
  <2>1. tick <= Len(t.mine) /\ t.acked >= -1
    BY <1>4, <1>5, <1>7
  <2>2. Sealed(t) <= tick + Third - 1 \/ Sealed(t) <= t.acked
    BY <1>3, <1>4, <1>5, <1>7, ThirdIs
  <2> QED BY <1>5, <2>1, <2>2 DEF Own, Long
<1>10. s.r \in Int /\ t.r \in Int /\ o.r \in Int /\ t.epoch \in Nat /\ s.epoch < t.epoch /\ t.epoch <= o.epoch
  <2>1. SideRight(Guest, t)
    BY <1>2, AdoptRight
  <2>2. t.r \in Int /\ s.r \in Int /\ o.r \in Int
    BY <1>1, <1>2, <2>1, SideHalf DEF SideRight
  <2> QED BY <1>2, <1>3, <1>5, <2>2
<1>11. Claims(t, from \cup Range(t.out))
  <2> SUFFICES ASSUME NEW z \in from \cup Range(t.out) PROVE Claim(z, t)
    BY DEF Claims
  <2>1. z.e \in 0 .. s.epoch
    BY <1>1, <1>5 DEF Good, MsgRight
  <2>2. z.e # t.epoch
    BY <1>2, <1>10, <2>1
  <2> QED BY <2>2 DEF Claim
<1>12. ASSUME t.epoch = o.epoch PROVE Acks(o, t) /\ Acks(t, o) /\ Behind(o, t) /\ Behind(t, o)
  <2>1. m.e = o.epoch /\ s.epoch < o.epoch
    BY <1>5, <1>10, <1>12
  <2>2. m.r = o.r /\ Brings(o, m)
    BY <1>1, <2>1 DEF Good, Fit
  <2>3. Has(o, t.acked)
    BY <1>5, <2>2 DEF Brings, y
  <2>4. t.round.result = Going => Has(t, o.acked)
    <3>1. o.acked \in Int
      BY <1>2 DEF SideCore
    <3>2. m.round.result = Going => o.acked < tick + x
      BY <2>2 DEF Brings, x
    <3>3. \A u \in tick .. o.acked : m.round.result = Going => u \in tick .. tick + x - 1
      BY <1>4, <3>1, <3>2
    <3> QED BY <1>5, <1>6, <3>3 DEF Has
  <2>5. o.r = t.r /\ ~(o.r > t.r) /\ ~(t.r > o.r)
    BY <1>5, <1>10, <2>2
  <2> QED BY <2>3, <2>4, <2>5 DEF Acks, Behind
<1>13. Low(t)
  <2>1. t.acked >= tick - 1 - Third
    BY <1>4, <1>5, ThirdIs
  <2>2. ASSUME NEW u \in DOMAIN t.theirs PROVE t.acked >= u - Third
    <3>1. u \in Int /\ u <= tick + x - 1
      BY <1>4, <1>6
    <3> QED BY <1>4, <1>5, <1>8, <3>1, ThirdIs
  <2> QED BY <1>5, <2>1, <2>2 DEF Low
<1>14. d = -1 /\ t.r <= o.r => Low(o)
  <2> SUFFICES ASSUME d = -1, t.r <= o.r PROVE Low(o)
    OBVIOUS
  <2>1. ~(t.r < s.r) /\ dr = -1
    BY <1>10
  <2>2. s.r <= o.r
    BY <1>10, <2>1
  <2> QED BY <1>1, <2>1, <2>2 DEF Fit
<1>15. ASSUME NEW z \in in \cup Range(o.out), z.type = "snap"
       PROVE  Len(z.frames[Host]) <= Third /\ (z.e = o.epoch /\ t.epoch < o.epoch => Brings(o, z))
  <2>1. t.epoch < o.epoch => s.epoch < o.epoch
    BY <1>2, <1>10
  <2> QED BY <1>1, <1>15, <2>1 DEF Fit
<1>16. Own(Host, o) /\ Claims(o, in \cup Range(o.out))
  BY <1>1 DEF Fit
<1>17. Fit(o, t, from, in, d)
  BY <1>9, <1>11, <1>12, <1>13, <1>14, <1>15, <1>16 DEF Fit
<1> QED BY <1>1, <1>17 DEF FitAt

\* A side hears frames, and how far its own have got: no further than they have, and those it hears
\* are no further on than the message left room for.
LEMMA TakenFit ==
  ASSUME NEW p \in Player, NEW s, NEW o, NEW in, NEW from, NEW dr, GoodAt(p, s, o, in, from, dr),
         FitAt(p, s, o, in, from, dr), NEW m \in in \cup Range(o.out), m.type = "frames", m.e = s.epoch, m.r = s.r,
         NEW t, t.epoch = s.epoch, t.r = s.r, t.prev = s.prev, t.round = s.round, t.mine = s.mine, t.out = s.out,
         DOMAIN s.theirs \subseteq DOMAIN t.theirs,
         \A u \in DOMAIN t.theirs : u \in DOMAIN s.theirs \/ u \in m.f .. m.f + Len(m.i) - 1,
         t.acked \in Int, t.acked >= s.acked, t.acked = s.acked \/ t.acked <= m.a,
         t.acked >= m.a \/ t.acked >= Sealed(s)
  PROVE  FitAt(p, t, o, in, from, dr)
<1>1. /\ SideCore(p, s) /\ Half(s) /\ Half(o) /\ SideCore(Other(p), o) /\ Other(p) \in Player
      /\ s.epoch \in Nat /\ o.epoch \in Nat /\ MsgRight(p, m, o.epoch)
      /\ p = Host => o.epoch <= s.epoch
  BY TwoSides, GoodSides DEF SideRight
<1>2. /\ s.r \in Int /\ o.r \in Int /\ s.round.tick \in Nat /\ o.round.tick \in Nat
      /\ Len(s.mine) \in Nat /\ Len(o.mine) \in Nat /\ s.mine \in Seq(Frame) /\ o.mine \in Seq(Frame)
      /\ s.acked \in Int
  <2>1. s.r \in Int /\ o.r \in Int /\ s.round.tick \in Nat /\ o.round.tick \in Nat
    BY <1>1, SideHalf
  <2>2. s.mine \in Seq(Frame) /\ o.mine \in Seq(Frame)
    BY <1>1 DEF Half
  <2>3. s.acked \in Int
    BY <1>1 DEF SideCore
  <2> QED BY <2>1, <2>2, <2>3
<1>3. m.f \in Nat /\ m.a \in Int /\ Len(m.i) \in Nat /\ m.e \in 0 .. o.epoch /\ m.i \in Seq(Frame)
  BY <1>1 DEF MsgRight
<1>4. p = Host => o.epoch = s.epoch
  BY <1>1, <1>3
<1>5. Own(p, s)
  BY FitSides
<1>6. Own(p, t)
  BY <1>2, <1>5 DEF Own, Long, Sealed
<1>7. \A a : Has(s, a) => Has(t, a)
  BY DEF Has
<1>8. ASSUME o.epoch = s.epoch, dr # s.epoch PROVE Pair(p, s, o) /\ Claim(m, o) /\ s.r <= o.r
  <2>1. Pair(p, s, o) /\ Kept(o, in \cup Range(o.out))
    BY <1>8, GoodSides
  <2>2. Claim(m, o)
    BY <1>8, FitSides DEF Claims
  <2>3. m.r = o.r \/ m.r < o.r
    BY <1>8, <2>1 DEF Kept, Carried
  <2> QED BY <1>2, <2>1, <2>2, <2>3
<1>9. ASSUME o.epoch = s.epoch, dr # s.epoch, Acks(s, o) PROVE Acks(t, o)
  <2>1. s.r <= o.r /\ Claim(m, o)
    BY <1>8, <1>9
  <2>2. ~(t.r > o.r)
    BY <1>2, <2>1
  <2>3. ASSUME t.r = o.r, o.round.result = Going PROVE Has(o, t.acked)
    <3>1. Has(o, s.acked) /\ Has(o, m.a)
      BY <1>9, <2>1, <2>3 DEF Acks, Claim
    <3>2. CASE t.acked = s.acked
      BY <3>1, <3>2
    <3>3. CASE t.acked <= m.a
      <4>1. \A u \in o.round.tick .. t.acked : u \in o.round.tick .. m.a
        BY <1>2, <1>3, <3>3
      <4> QED BY <3>1, <4>1 DEF Has
    <3> QED BY <3>2, <3>3
  <2> QED BY <2>2, <2>3 DEF Acks
<1>10. ASSUME dr = -1, Low(s), o.r <= s.r, p = Host \/ o.epoch = s.epoch PROVE Low(t)
  <2>1. o.epoch = s.epoch /\ dr # s.epoch
    BY <1>1, <1>4, <1>10
  <2>2. Pair(p, s, o) /\ Claim(m, o) /\ s.r = o.r
    BY <1>2, <1>8, <1>10, <2>1
  <2>3. Level(p, s, o)
    BY <1>2, <2>2 DEF Pair, AheadOf
  <2>4. Has(o, m.a) /\ (m.i # <<>> => m.f + Len(m.i) - 1 <= m.a + Third)
    BY <2>1, <2>2 DEF Claim
  <2>5. m.a <= Sealed(s)
    <3>1. Abreast(p, Now(s), Now(o)) /\ HeardOf(o, s.mine)
      BY <2>3 DEF Level
    <3>2. o.round.tick <= s.round.tick \/ o.round.tick <= Len(s.mine)
      <4> DEFINE a == Now(s)
                 b == Now(o)
      <4>1. a.mine = s.mine /\ a.round = s.round /\ b.round = o.round /\ Abreast(p, a, b)
        BY <3>1 DEF Now
      <4> HIDE DEF a, b
      <4>2. b.round.tick <= a.round.tick \/ b.round.tick <= Len(a.mine)
        BY <1>2, <4>1, Gap
      <4> QED BY <4>1, <4>2
    <3>3. s.round.tick <= Len(s.mine)
      BY <1>5 DEF Own
    <3>4. CASE m.a >= o.round.tick
      <4>1. m.a \in o.round.tick .. m.a
        BY <1>2, <1>3, <3>4
      <4>2. m.a \in DOMAIN o.theirs
        BY <2>4, <4>1 DEF Has
      <4>3. m.a < Len(s.mine)
        BY <3>1, <3>4, <4>2 DEF HeardOf
      <4> QED BY <1>2, <1>3, <4>3 DEF Sealed
    <3>5. CASE m.a < o.round.tick
      <4> DEFINE a == m.a
                 x == o.round.tick
                 y == s.round.tick
                 n == Len(s.mine)
      <4>1. a \in Int /\ x \in Nat /\ y \in Nat /\ n \in Nat /\ a < x /\ y <= n /\ (x <= y \/ x <= n)
        BY <1>2, <1>3, <3>2, <3>3, <3>5
      <4> HIDE DEF a, x, y, n
      <4>2. a <= n - 1
        BY ONLY <4>1
      <4> QED BY <4>2 DEF a, n, Sealed
    <3>6. m.a >= o.round.tick \/ m.a < o.round.tick
      BY <1>2, <1>3
    <3> QED BY <3>4, <3>5, <3>6
  <2>6. t.acked >= m.a
    BY <1>2, <1>3, <2>5 DEF Sealed
  <2>7. ASSUME NEW u \in DOMAIN t.theirs, u >= t.round.tick PROVE t.acked >= u - Third
    <3>1. CASE u \in DOMAIN s.theirs
      <4>1. s.acked >= u - Third /\ u \in Nat
        BY <1>1, <1>10, <2>7, <3>1 DEF Low, Half
      <4> QED BY <1>2, <4>1, ThirdIs
    <3>2. CASE u \in m.f .. m.f + Len(m.i) - 1
      <4>1. m.i # <<>>
        BY <1>3, <3>2, Nothing
      <4>2. u \in Int /\ u <= m.a + Third
        BY <1>3, <2>4, <3>2, <4>1, ThirdIs
      <4> QED BY <1>3, <2>6, <4>2, ThirdIs
    <3> QED BY <3>1, <3>2
  <2>8. t.acked >= t.round.tick - 1 - Third
    <3>1. s.acked >= s.round.tick - 1 - Third
      BY <1>10 DEF Low
    <3> QED BY <1>2, <3>1, ThirdIs
  <2> QED BY <2>7, <2>8 DEF Low
<1>11. ASSUME dr = -1, o.epoch = s.epoch, Behind(s, o) PROVE Behind(t, o)
  <2> SUFFICES ASSUME o.r > s.r PROVE t.acked >= o.prev[1].round.tick - 1 - 2 * Third
    BY DEF Behind
  <2>1. s.acked >= o.prev[1].round.tick - 1 - 2 * Third
    BY <1>11 DEF Behind
  <2>2. o.prev[1].round.tick \in Nat
    <3>1. Pair(p, s, o)
      BY <1>1, <1>8, <1>11
    <3>2. o.prev # None
      BY <1>2, <3>1 DEF Pair, Level, AheadOf, GoneOn
    <3> DEFINE r == o.prev[1].round
    <3>3. RoundRight(r)
      BY <1>1, <3>2 DEF Half, PrevRight
    <3> HIDE DEF r
    <3>4. r.tick \in Nat
      BY <3>3 DEF RoundRight, RoundType
    <3> QED BY <3>4 DEF r
  <2> DEFINE x == o.prev[1].round.tick
             a == s.acked
             b == t.acked
  <2>3. x \in Nat /\ a \in Int /\ b \in Int /\ b >= a /\ a >= x - 1 - 2 * Third
    BY <1>2, <2>1, <2>2
  <2> HIDE DEF x, a, b
  <2>4. b >= x - 1 - 2 * Third
    BY <2>3, ThirdIs
  <2> QED BY <2>4 DEF b, x
<1> QED BY <1>1, <1>4, <1>6, <1>7, <1>9, <1>10, <1>11, FitLift

-----------------------------------------------------------------------------
(* One tick of a round *)

LEMMA SameQuiet ==
  ASSUME NEW p, NEW s, SideCore(p, s), NEW t, DOMAIN t = DOMAIN s, SameGame(s, t),
         t.theirs = s.theirs, t.out = s.out, t.mine = s.mine, t.acked = s.acked, t.queue = s.queue
  PROVE  Quiet(s, t)
<1>1. /\ s.mine \in Seq(Frame) /\ s.queue \in Seq(Dir) /\ Len(s.queue) <= QUEUE_MAX
      /\ s.acked \in Int /\ s.acked <= Sealed(s)
  BY DEF SideCore
<1>2. Longer(s.mine, t.mine)
  BY <1>1, LongerSame
<1> QED BY <1>1, <1>2 DEF Quiet, Sealed

\* What is asked of the host is asked of it alone.
LEMMA ChecksKept ==
  ASSUME NEW s, DOMAIN s = DOMAIN NewSession
  PROVE  /\ \A m : Post(s, m).check = s.check
         /\ \A to : SealTo(s, to).check = s.check
         /\ \A p, r, round, base : Reset(s, p, r, round, base).check = None
         /\ \A p : NextRound(s, p).check = None
<1>1. \A m : Post(s, m).check = s.check
  BY FieldsAre DEF Post
<1>2. ASSUME NEW to PROVE SealTo(s, to).check = s.check
  <2> DEFINE n == to - Sealed(s)
             taken == SubSeq(s.queue, 1, Min({n, Len(s.queue)}))
             mine == s.mine \o taken \o Straights(n - Len(taken))
             rest == SubSeq(s.queue, Len(taken) + 1, Len(s.queue))
             h == IF taken = <<>> THEN s.heading ELSE Last(taken)
  <2>1. SealTo(s, to) = IF n <= 0 THEN s
                        ELSE [s EXCEPT !.mine = mine, !.queue = rest, !.heading = h, !.dirty = TRUE]
    BY DEF SealTo
  <2> HIDE DEF n, taken, mine, rest, h
  <2> QED BY <2>1, FieldsAre
<1>3. ASSUME NEW p, NEW r, NEW round, NEW base PROVE Reset(s, p, r, round, base).check = None
  BY FieldsAre DEF Reset
<1>4. ASSUME NEW p PROVE NextRound(s, p).check = None
  <2> DEFINE x == Reset(s, p, s.r + 1, NewRound, <<s.r + 1, s.score>>)
  <2>1. x.check = None
    BY <1>3
  <2>2. NextRound(s, p) = [x EXCEPT !.phase = "count"]
    BY DEF NextRound
  <2>3. DOMAIN x = DOMAIN NewSession
    BY FieldsAre DEF Reset
  <2> HIDE DEF x
  <2> QED BY <2>1, <2>2, <2>3, FieldsAre
<1> QED BY <1>1, <1>2, <1>3, <1>4

LEMMA SnapFine ==
  ASSUME NEW s, NEW o, NEW in, NEW from, NEW dr, Fine(Host, s, o, in, from, dr), s.phase # "wait",
         NEW t, t = Snapshot(s)
  PROVE  Fine(Host, t, o, in, from, dr) /\ t.r = s.r
<1>1. SideCore(Host, s) /\ Good(s, o, in, from, dr)
  BY TwoSides DEF Fine, GoodAt, Good, SideRight
<1>2. s.prev # None => s.prev[1].r <= s.r
  BY <1>1 DEF Good, Kept
<1>3. /\ GoodAt(Host, s, o, in, from, dr) /\ FitAt(Host, s, o, in, from, dr)
      /\ Own(Host, s) /\ (dr = -1 /\ o.r <= s.r => Low(s))
  BY DEF Fine, FitAt, Fit
<1>4. FitAt(Host, t, o, in, from, dr)
  BY <1>1, <1>3, SnapshotFit
<1>5. GoodAt(Host, t, o, in, from, dr) /\ (Ready(s) => Ready(t)) /\ t.r = s.r
  BY <1>1, <1>2, SnapshotGood DEF Fine
<1> QED BY <1>4, <1>5 DEF Fine

LEMMA QuietFine ==
  ASSUME NEW p \in Player, NEW s, NEW o, NEW in, NEW from, NEW dr, Fine(p, s, o, in, from, dr),
         NEW t, Quiet(s, t), t.acked = s.acked, t.mine = s.mine \/ Long(p, t), t.check = s.check \/ p = Host
  PROVE  Fine(p, t, o, in, from, dr) /\ t.r = s.r
<1>1. GoodAt(p, t, o, in, from, dr) /\ Ready(t)
  BY QuietGood DEF Fine
<1>2. /\ FitAt(p, s, o, in, from, dr) /\ Own(p, s) /\ s.epoch \in Nat /\ s.round.tick \in Nat
  BY GoodSides, FitSides, SideHalf DEF Fine, SideRight
<1>3. /\ t.epoch = s.epoch /\ t.r = s.r /\ t.prev = s.prev /\ t.round = s.round /\ t.theirs = s.theirs
      /\ t.out = s.out /\ Len(s.mine) \in Nat /\ Len(t.mine) \in Nat /\ Len(s.mine) <= Len(t.mine)
  BY DEF Quiet, SameGame, Longer
<1>4. Own(p, t)
  <2>1. Long(p, t)
    BY <1>2, <1>3 DEF Own, Long, Sealed
  <2> QED BY <1>2, <1>3, <2>1 DEF Own
<1>5. FitAt(p, t, o, in, from, dr)
  BY <1>2, <1>3, <1>4, FitSame
<1> QED BY <1>1, <1>5 DEF Fine, Quiet, SameGame

LEMMA CheckedFine ==
  ASSUME NEW p \in Player, NEW s, NEW o, NEW in, NEW from, NEW dr, Fine(p, s, o, in, from, dr), s.phase # "wait",
         NEW t, t = Checked(s)
  PROVE  Fine(p, t, o, in, from, dr)
<1>1. CASE s.check = None
  BY <1>1 DEF Checked
<1>2. CASE s.check # None
  <2>1. p = Host
    BY <1>2 DEF Fine
  <2>2. SideCore(p, s)
    BY GoodSides DEF Fine, SideRight
  <2> DEFINE u == [s EXCEPT !.check = None]
  <2>3. t = s \/ t = u \/ t = Snapshot(s)
    BY DEF Checked
  <2>4. DOMAIN u = DOMAIN s /\ SameGame(s, u) /\ u.theirs = s.theirs /\ u.out = s.out /\ u.mine = s.mine
        /\ u.acked = s.acked /\ u.queue = s.queue
    BY <2>2, FieldsAre DEF SideCore, SameGame
  <2> HIDE DEF u
  <2>5. Fine(p, u, o, in, from, dr)
    BY <2>1, <2>2, <2>4, SameQuiet, QuietFine
  <2> QED BY <2>1, <2>3, <2>5, SnapFine
<1> QED BY <1>1, <1>2

\* A tick in a round that goes on fixes the frame for the next; one that ends it ends it for good.
LEMMA StepRight ==
  ASSUME NEW p \in Player, NEW s, SideRight(p, s), s.phase = "run", NEW fr, NEW t,
         t.round = Step(s.round, fr), t.score = ScoreRound(s.score, t.round.result),
         DOMAIN t = DOMAIN s, t.epoch = s.epoch, t.r = s.r, t.delay = s.delay, t.base = s.base,
         t.again = s.again, t.theirs = s.theirs, t.prev = s.prev, t.out = s.out, Longer(s.mine, t.mine),
         t.acked = s.acked, t.queue \in Seq(Dir), Len(t.queue) <= QUEUE_MAX,
         t.phase = IF t.round.result = Going THEN "run" ELSE IF MatchWon(t.score) THEN "over" ELSE "point"
  PROVE  SideRight(p, t)
<1>1. SideCore(p, s) /\ GameRight(s) /\ s.round.result = Going /\ RoundRight(s.round) /\ ~MatchWon(s.score)
      /\ s.epoch > 0 /\ s.delay \in Delays
  BY DEF SideRight, SideCore, GameRight
<1>2. RoundRight(t.round)
  BY <1>1, StepIs
<1>3. PICK before \in [Player -> Nat] : s.base = <<s.r, before>> /\ s.score = ScoreRound(before, s.round.result)
  BY <1>1 DEF GameRight
<1>4. s.score = before
  <2>1. \A q \in Player : Going # Winner(q)
    BY DEF Player, Going, Winner
  <2> QED BY <1>1, <1>3, <2>1 DEF ScoreRound
<1>5. t.score = ScoreRound(before, t.round.result)
  BY <1>4
<1>6. t.round.result = Going => t.score = s.score
  <2>1. \A q \in Player : Going # Winner(q)
    BY DEF Player, Going, Winner
  <2> QED BY <1>4, <1>5, <2>1 DEF ScoreRound
<1>7. /\ t.phase \in {"count", "run", "point", "over"} /\ t.phase # "count"
      /\ t.phase \in {"point", "over"} <=> t.round.result # Going
      /\ t.phase = "over" <=> MatchWon(t.score)
  <2>1. CASE t.round.result = Going
    <3>1. ~MatchWon(t.score)
      BY <1>1, <1>6, <2>1
    <3> QED BY <2>1, <3>1
  <2>2. CASE t.round.result # Going
    BY <2>2
  <2> QED BY <2>1, <2>2
<1>8. GameRight(t)
  BY <1>1, <1>2, <1>3, <1>5, <1>7 DEF GameRight
<1>9. TheirsRight(t) /\ PrevRight(t) /\ t.mine \in Seq(Frame)
  BY <1>1 DEF SideCore, TheirsRight, PrevRight, Longer
<1>10. t.acked \in Int /\ t.acked <= Sealed(t)
  <2>1. Len(s.mine) \in Nat /\ Len(t.mine) \in Nat /\ Len(s.mine) <= Len(t.mine)
    BY DEF Longer
  <2> QED BY <1>1, <2>1 DEF SideCore, Sealed
<1>11. ~(p = Host /\ t.again.mine)
  BY <1>1 DEF SideCore
<1>12. SideCore(p, t)
  BY <1>1, <1>7, <1>8, <1>9, <1>10, <1>11 DEF SideCore
<1> QED BY <1>1, <1>12 DEF SideRight

LEMMA StepOnceFine ==
  ASSUME NEW p \in Player, NEW s, NEW o, NEW in, NEW from, NEW dr, Fine(p, s, o, in, from, dr), CanStep(s),
         NEW t, t = StepOnce(s, p)
  PROVE  Fine(p, t, o, in, from, dr)
<1> DEFINE fr    == FramesAt(s, p, s.round.tick)
           round == Step(s.round, fr)
           score == ScoreRound(s.score, round.result)
           tick  == round.tick
           hash  == <<tick, HashOf(s.base, round, tick)>>
           moved == [s EXCEPT !.round = round, !.score = score]
           over  == [moved EXCEPT !.phase = IF MatchWon(score) THEN "over" ELSE "point",
                                  !.hashDue = IF p = Guest THEN hash ELSE @,
                                  !.dirty = @ \/ p = Guest]
           seal  == SealTo(moved, tick + s.delay - 1)
           on    == [seal EXCEPT !.hashDue = IF p = Guest /\ tick % HASH_EVERY = 0 THEN hash ELSE @]
           u     == IF round.result = Going THEN on ELSE over
<1>1. t = Checked(u)
  BY DEF StepOnce
<1>2. /\ SideRight(p, s) /\ SideCore(p, s) /\ Half(s) /\ Half(o) /\ DOMAIN s = DOMAIN NewSession
      /\ GoodAt(p, s, o, in, from, dr) /\ Ready(s) /\ (p # Host => s.check = None)
  BY GoodSides DEF Fine, SideRight, SideCore
<1>3. s.phase = "run" /\ s.round.tick \in DOMAIN s.theirs /\ s.round.tick <= Sealed(s)
  BY <1>2 DEF CanStep, Ready
<1>4. /\ s.mine \in Seq(Frame) /\ Len(s.mine) \in Nat /\ s.round.tick \in Nat /\ s.delay \in Nat /\ s.delay > 0
      /\ s.round.result = Going /\ RoundRight(s.round) /\ s.queue \in Seq(Dir) /\ Len(s.queue) <= QUEUE_MAX
  BY <1>2, <1>3, SideHalf DEF SideCore, GameRight, Half
<1> HIDE DEF fr
<1>5. RoundRight(round) /\ tick = s.round.tick + 1
  BY <1>4, StepIs
<1> HIDE DEF round, score, hash
<1>6. /\ DOMAIN moved = DOMAIN s /\ moved.round = round /\ moved.score = score
      /\ moved.epoch = s.epoch /\ moved.r = s.r /\ moved.delay = s.delay /\ moved.base = s.base
      /\ moved.phase = s.phase /\ moved.again = s.again /\ moved.mine = s.mine /\ moved.theirs = s.theirs
      /\ moved.acked = s.acked /\ moved.queue = s.queue /\ moved.prev = s.prev /\ moved.out = s.out
      /\ moved.check = s.check
  BY <1>2, FieldsAre
<1> HIDE DEF moved
<1> DEFINE Ticked1 ==
             /\ DOMAIN u = DOMAIN s /\ u.round = round /\ u.score = score
             /\ u.epoch = s.epoch /\ u.r = s.r /\ u.delay = s.delay /\ u.base = s.base
             /\ u.again = s.again /\ Longer(s.mine, u.mine) /\ u.theirs = s.theirs
             /\ u.acked = s.acked /\ u.queue \in Seq(Dir) /\ Len(u.queue) <= QUEUE_MAX
             /\ u.prev = s.prev /\ u.out = s.out /\ u.check = s.check
             /\ u.mine = s.mine \/ Sealed(u) = tick + s.delay - 1
             /\ u.phase = IF round.result = Going THEN "run" ELSE IF MatchWon(score) THEN "over" ELSE "point"
             /\ Ready(u)
<1>7. ASSUME round.result = Going PROVE Ticked1
  <2> DEFINE to == tick + s.delay - 1
  <2>1. to \in Int /\ tick <= to
    BY <1>4, <1>5
  <2>2. seal = SealTo(moved, to)
    OBVIOUS
  <2> HIDE DEF to, seal
  <2>3. /\ DOMAIN seal = DOMAIN moved /\ SameGame(moved, seal)
        /\ seal.theirs = moved.theirs /\ seal.out = moved.out /\ seal.acked = moved.acked
        /\ Longer(moved.mine, seal.mine) /\ to <= Sealed(seal) /\ (seal.mine = moved.mine \/ Sealed(seal) = to)
        /\ seal.queue \in Seq(Dir) /\ Len(seal.queue) <= QUEUE_MAX
    BY <1>2, <1>4, <1>6, <2>1, <2>2, SealToIs
  <2>4. seal.check = s.check
    BY <1>2, <1>6, <2>2, ChecksKept
  <2>5. u = on
    BY <1>7
  <2>6. /\ DOMAIN u = DOMAIN s /\ u.round = round /\ u.score = score
        /\ u.epoch = s.epoch /\ u.r = s.r /\ u.delay = s.delay /\ u.base = s.base
        /\ u.phase = "run" /\ u.again = s.again /\ Longer(s.mine, u.mine) /\ u.theirs = s.theirs
        /\ u.acked = s.acked /\ u.queue \in Seq(Dir) /\ Len(u.queue) <= QUEUE_MAX
        /\ u.prev = s.prev /\ u.out = s.out /\ u.check = s.check /\ Sealed(u) = Sealed(seal)
        /\ u.mine = seal.mine
    BY <1>2, <1>3, <1>6, <2>3, <2>4, <2>5, FieldsAre DEF SameGame, Sealed
  <2>7. tick <= Sealed(u)
    <3>1. Sealed(seal) \in Int
      BY <2>3 DEF Longer, Sealed
    <3> QED BY <1>4, <1>5, <2>1, <2>3, <2>6, <3>1
  <2>8. u.mine = s.mine \/ Sealed(u) = tick + s.delay - 1
    BY <1>6, <2>3, <2>6 DEF to
  <2> HIDE DEF u
  <2> QED BY <1>7, <2>6, <2>7, <2>8 DEF Ready
<1>8. ASSUME round.result # Going PROVE Ticked1
  <2>1. u = over
    BY <1>8
  <2>2. /\ DOMAIN u = DOMAIN s /\ u.round = round /\ u.score = score
        /\ u.epoch = s.epoch /\ u.r = s.r /\ u.delay = s.delay /\ u.base = s.base
        /\ u.phase = (IF MatchWon(score) THEN "over" ELSE "point")
        /\ u.again = s.again /\ u.mine = s.mine /\ u.theirs = s.theirs
        /\ u.acked = s.acked /\ u.queue = s.queue
        /\ u.prev = s.prev /\ u.out = s.out /\ u.check = s.check
    BY <1>2, <1>6, <2>1, FieldsAre
  <2>3. Longer(s.mine, u.mine)
    BY <1>4, <2>2, LongerSame
  <2> HIDE DEF u
  <2> QED BY <1>4, <1>8, <2>2, <2>3 DEF Ready
<1>9. Ticked1
  BY <1>7, <1>8
<1>10. round = Step(s.round, fr) /\ score = ScoreRound(s.score, round.result)
  BY DEF round, score
<1> HIDE DEF u
<1>11. SideRight(p, u) /\ u.phase # "wait"
  BY <1>2, <1>3, <1>9, <1>10, StepRight
<1>12. ASSUME NEW x, Half(x), Pair(p, s, x) PROVE Pair(p, u, x)
  <2> DEFINE v == [r |-> s.r, base |-> s.base, round |-> round, mine |-> s.mine, theirs |-> s.theirs, prev |-> s.prev]
  <2>1. /\ v.r = s.r /\ v.base = s.base /\ v.round = round /\ v.mine = s.mine /\ v.theirs = s.theirs
        /\ v.prev = s.prev
    OBVIOUS
  <2> HIDE DEF v
  <2>2. v.round = Step(s.round, FramesAt(s, p, s.round.tick)) /\ s.round.tick < Len(s.mine)
    BY <1>3, <1>4, <1>10, <2>1 DEF fr, Sealed
  <2>3. Pair(p, v, x)
    BY <1>2, <1>3, <1>4, <1>12, <2>1, <2>2, PairStep
  <2>4. Half(v)
    BY <1>2, <1>5, <2>1 DEF Half, PrevRight
  <2> QED BY <1>9, <1>12, <2>1, <2>3, <2>4, PairLonger
<1>13. GoodAt(p, u, o, in, from, dr)
  BY <1>2, <1>9, <1>11, <1>12, Lift
<1>14. /\ FitAt(p, s, o, in, from, dr) /\ Own(p, s) /\ s.epoch \in Nat /\ s.acked \in Int
       /\ s.delay \in Delays
  BY <1>2, <1>3, FitSides DEF Fine, SideCore
<1>15. Own(p, u)
  <2>1. Len(u.mine) \in Nat /\ Len(s.mine) <= Len(u.mine) /\ s.round.tick <= Len(s.mine) - 1
    BY <1>3, <1>9 DEF Longer, Sealed
  <2>2. u.round.tick = s.round.tick + 1 /\ u.acked = s.acked
    BY <1>5, <1>9
  <2>3. Long(p, u)
    <3>1. CASE u.mine = s.mine
      BY <1>4, <1>14, <2>2, <3>1, ThirdIs DEF Own, Long, Sealed
    <3>2. CASE Sealed(u) = tick + s.delay - 1
      BY <1>4, <1>5, <1>14, <2>2, <3>2, ThirdIs DEF Long
    <3> QED BY <1>9, <3>1, <3>2
  <2> QED BY <1>4, <1>14, <2>1, <2>2, <2>3 DEF Own
<1>16. FitAt(p, u, o, in, from, dr)
  <2>1. /\ u.epoch = s.epoch /\ u.r = s.r /\ u.prev = s.prev /\ u.theirs = s.theirs /\ u.out = s.out
        /\ u.acked = s.acked /\ u.round.tick = s.round.tick + 1
    BY <1>5, <1>9
  <2>2. \A a : Has(s, a) => Has(u, a)
    BY <1>4, <2>1 DEF Has
  <2>3. Acks(s, o) => Acks(u, o)
    BY <2>1 DEF Acks
  <2>4. ASSUME Low(s) PROVE Low(u)
    <3>1. DOMAIN s.theirs \subseteq Nat
      BY <1>2 DEF Half
    <3>2. s.acked >= s.round.tick - Third
      BY <1>3, <1>4, <2>4 DEF Low
    <3>3. u.acked >= u.round.tick - 1 - Third
      BY <1>4, <1>14, <2>1, <3>2, ThirdIs
    <3>4. ASSUME NEW k \in DOMAIN u.theirs, k >= u.round.tick PROVE u.acked >= k - Third
      <4>1. k \in DOMAIN s.theirs /\ k \in Nat
        BY <2>1, <3>1, <3>4
      <4>2. k >= s.round.tick
        BY <1>4, <2>1, <3>4, <4>1
      <4> QED BY <2>1, <2>4, <4>1, <4>2 DEF Low
    <3> QED BY <3>3, <3>4 DEF Low
  <2>5. Behind(s, o) => Behind(u, o)
    BY <2>1 DEF Behind
  <2> QED BY <1>4, <1>14, <1>15, <2>1, <2>2, <2>3, <2>4, <2>5, FitLift
<1>17. Fine(p, u, o, in, from, dr)
  BY <1>2, <1>9, <1>13, <1>16 DEF Fine
<1> QED BY <1>1, <1>11, <1>17, CheckedFine

-----------------------------------------------------------------------------
(* One frame of the page *)

LEMMA StepsFine ==
  ASSUME NEW p \in Player, NEW s, NEW o, NEW in, NEW from, NEW dr, Fine(p, s, o, in, from, dr),
         NEW n \in Nat, NEW t, t = Steps(s, p, n)
  PROVE  Fine(p, t, o, in, from, dr)
<1>1. PICK at : /\ at[0] = s /\ Steps(s, p, n) = at[n]
                /\ \A k \in 1 .. n : at[k] = IF CanStep(at[k - 1]) THEN StepOnce(at[k - 1], p) ELSE at[k - 1]
  BY StepsAre
<1> DEFINE T == {k \in 0 .. n : ~Fine(p, at[k], o, in, from, dr)}
<1>2. T \in SUBSET (0 .. n) /\ 0 \notin T
  BY <1>1
<1>3. ASSUME T # {} PROVE FALSE
  <2>1. PICK m \in T : m \in 1 .. n /\ m - 1 \in 0 .. n /\ m - 1 \notin T
    BY <1>2, <1>3, OneBefore
  <2>2. Fine(p, at[m - 1], o, in, from, dr) /\ ~Fine(p, at[m], o, in, from, dr)
    BY <2>1
  <2>3. at[m] = IF CanStep(at[m - 1]) THEN StepOnce(at[m - 1], p) ELSE at[m - 1]
    BY <1>1, <2>1
  <2> QED BY <2>2, <2>3, StepOnceFine
<1>4. n \in 0 .. n
  OBVIOUS
<1> QED BY <1>1, <1>3, <1>4

\* The round begins with the frames of its first ticks fixed.
LEMMA RunFine ==
  ASSUME NEW p \in Player, NEW s, NEW o, NEW in, NEW from, NEW dr, Fine(p, s, o, in, from, dr), s.phase = "count",
         NEW t, t = [SealTo(s, s.delay - 1) EXCEPT !.phase = "run"]
  PROVE  Fine(p, t, o, in, from, dr)
<1> DEFINE u == SealTo(s, s.delay - 1)
<1>1. /\ SideCore(p, s) /\ s.delay \in Nat /\ s.delay > 0 /\ DOMAIN s = DOMAIN NewSession
      /\ s.round = NewRound /\ s.delay \in Delays
  <2>1. SideCore(p, s)
    BY GoodSides DEF Fine, SideRight
  <2> QED BY <2>1, SideHalf DEF SideCore, GameRight
<1>2. /\ Quiet(s, u) /\ s.delay - 1 <= Sealed(u) /\ u.check = s.check
      /\ u.acked = s.acked /\ (u.mine = s.mine \/ Sealed(u) = s.delay - 1)
  BY <1>1, SealToQuiet, ChecksKept
<1>3. t = [u EXCEPT !.phase = "run"]
  OBVIOUS
<1> HIDE DEF u
<1>4. DOMAIN u = DOMAIN NewSession /\ u.phase = "count"
  BY <1>1, <1>2 DEF Quiet, SameGame
<1>5. Fine(p, u, o, in, from, dr)
  <2>1. u.round.tick = 0
    BY <1>1, <1>2, NewRoundIs DEF Quiet, SameGame
  <2>2. u.mine = s.mine \/ Long(p, u)
    BY <1>1, <1>2, <2>1, ThirdIs DEF Long
  <2> QED BY <1>2, <2>2, QuietFine
<1>6. SideRight(p, u) /\ SideCore(p, u) /\ Half(u) /\ Half(o) /\ GoodAt(p, u, o, in, from, dr)
  BY <1>5, GoodSides DEF Fine, SideRight
<1>7. /\ DOMAIN t = DOMAIN u /\ t.phase = "run" /\ t.epoch = u.epoch /\ t.r = u.r /\ t.delay = u.delay
      /\ t.score = u.score /\ t.round = u.round /\ t.base = u.base /\ t.again = u.again /\ t.mine = u.mine
      /\ t.theirs = u.theirs /\ t.acked = u.acked /\ t.queue = u.queue /\ t.prev = u.prev /\ t.out = u.out
      /\ t.check = u.check
  BY <1>3, <1>4, FieldsAre
<1> HIDE DEF u
<1>8. u.round = NewRound /\ GameRight(u) /\ u.delay \in Delays /\ ~MatchWon(u.score)
  BY <1>4, <1>6 DEF SideCore, GameRight
<1>9. GameRight(t)
  BY <1>7, <1>8, NewRoundIs DEF GameRight
<1>10. SideCore(p, t)
  BY <1>4, <1>6, <1>7, <1>8, <1>9 DEF SideCore, TheirsRight, PrevRight, Sealed
<1>11. SideRight(p, t)
  BY <1>4, <1>6, <1>7, <1>10 DEF SideRight
<1>12. Ready(t)
  <2>1. t.round.tick = 0 /\ Sealed(t) = Sealed(u)
    BY <1>7, <1>8, NewRoundIs DEF Sealed
  <2>2. Sealed(u) \in Int
    BY <1>6 DEF Half, Sealed
  <2> QED BY <1>1, <1>2, <2>1, <2>2 DEF Ready
<1>13. Longer(u.mine, t.mine)
  BY <1>6, <1>7, LongerSame DEF Half
<1>14. \A x : Half(x) /\ Pair(p, u, x) => Pair(p, t, x)
  BY <1>6, <1>7, <1>13, PairLonger
<1>15. GoodAt(p, t, o, in, from, dr)
  BY <1>6, <1>7, <1>11, <1>13, <1>14, Lift
<1>16. FitAt(p, t, o, in, from, dr)
  <2>1. FitAt(p, u, o, in, from, dr) /\ Own(p, u) /\ u.epoch \in Nat
    BY <1>5, <1>6, FitSides DEF Fine, SideCore
  <2>2. Own(p, t)
    BY <1>7, <2>1 DEF Own, Long, Sealed
  <2> QED BY <1>7, <2>1, <2>2, FitSame
<1> QED BY <1>5, <1>7, <1>12, <1>15, <1>16 DEF Fine

LEMMA TurnedFine ==
  ASSUME NEW p \in Player, NEW s, NEW o, NEW in, NEW from, NEW dr, Fine(p, s, o, in, from, dr),
         s.out = <<>>, o.out = <<>>,
         PauseOver(s, p) => s.r < MaxRound /\ (\A m \in in \cup from : m.type \in {"frames", "snap"} => m.r > s.r),
         NEW n \in Nat, NEW d \in Delays, NEW t, t = Turned(s, p, n, d)
  PROVE  Fine(p, t, o, in, from, dr)
<1>1. SideCore(p, s) /\ GoodAt(p, s, o, in, from, dr) /\ DOMAIN s = DOMAIN NewSession
  BY GoodSides DEF Fine, SideRight, SideCore
<1>2. CASE t = s
  BY <1>2
<1>3. ASSUME s.phase = "wait", p = Host, t = Start(s, d) PROVE Fine(p, t, o, in, from, dr)
  <2>1. s.r = -1 /\ MaxRound \in Nat
    BY <1>1, <1>3, ConstantsAre DEF SideCore, WaitRight
  <2>2. s.r < MaxRound
    BY <2>1
  <2>3. GoodAt(p, t, o, in, from, dr) /\ Ready(t) /\ (p # Host => t.check = None)
    BY <1>1, <1>3, <2>2, StartGood, TwoSides DEF Fine, GoodAt
  <2>4. FitAt(p, t, o, in, from, dr)
    BY <1>1, <1>3, <2>2, StartFit DEF Fine
  <2> QED BY <2>3, <2>4 DEF Fine
<1>4. ASSUME s.phase = "point", PauseOver(s, p), t = NextRound(s, p) PROVE Fine(p, t, o, in, from, dr)
  <2>1. t.check = None
    BY <1>1, <1>4, ChecksKept
  <2>2. GoodAt(p, t, o, in, from, dr) /\ Ready(t)
    BY <1>1, <1>4, NextGood
  <2>3. FitAt(p, t, o, in, from, dr)
    BY <1>1, <1>4, NextFit DEF Fine
  <2> QED BY <2>1, <2>2, <2>3 DEF Fine
<1>5. ASSUME s.phase = "count", t = [SealTo(s, s.delay - 1) EXCEPT !.phase = "run"]
      PROVE  Fine(p, t, o, in, from, dr)
  BY <1>5, RunFine
<1>6. ASSUME s.phase = "count", t = SealTo(s, Min({s.delay - 2, Sealed(s) + 1})) PROVE Fine(p, t, o, in, from, dr)
  <2> DEFINE to == Min({s.delay - 2, Sealed(s) + 1})
  <2>1. s.delay \in Nat /\ Len(s.mine) \in Nat
    BY <1>1, SideHalf
  <2>2. to \in Int /\ to <= s.delay - 2
    <3> DEFINE a == s.delay - 2
               b == Sealed(s) + 1
    <3>1. a \in Int /\ b \in Int
      BY <2>1 DEF Sealed
    <3> HIDE DEF a, b
    <3>2. Min({a, b}) \in Int /\ Min({a, b}) <= a
      BY ONLY <3>1, MinTwo
    <3> QED BY <3>2 DEF a, b
  <2>3. t = SealTo(s, to)
    BY <1>6
  <2> HIDE DEF to
  <2>4. Quiet(s, t) /\ t.check = s.check /\ t.acked = s.acked /\ (t.mine = s.mine \/ Sealed(t) = to)
    BY <1>1, <2>2, <2>3, SealToQuiet, ChecksKept
  <2>5. t.mine = s.mine \/ Long(p, t)
    <3>1. s.delay \in Delays /\ s.round.tick = 0
      BY <1>1, <1>6, NewRoundIs DEF SideCore, GameRight
    <3>2. t.round.tick = 0
      BY <2>4, <3>1 DEF Quiet, SameGame
    <3> QED BY <2>2, <2>4, <3>1, <3>2, ThirdIs DEF Long
  <2> QED BY <2>4, <2>5, QuietFine
<1>7. ASSUME t = Steps(s, p, n) PROVE Fine(p, t, o, in, from, dr)
  BY <1>7, StepsFine
<1>8. \/ t = s
      \/ s.phase = "wait" /\ p = Host /\ t = Start(s, d)
      \/ s.phase = "point" /\ PauseOver(s, p) /\ t = NextRound(s, p)
      \/ s.phase = "count" /\ t = [SealTo(s, s.delay - 1) EXCEPT !.phase = "run"]
      \/ s.phase = "count" /\ t = SealTo(s, Min({s.delay - 2, Sealed(s) + 1}))
      \/ t = Steps(s, p, n)
  BY DEF Turned
<1> QED BY <1>2, <1>3, <1>4, <1>5, <1>6, <1>7, <1>8

\* The frames sent are ones that were fixed, in the game the side is in.
LEMMA SentRight ==
  ASSUME NEW p \in Player, NEW s, SideRight(p, s), s.phase # "wait", NEW q,
         NEW mine \in Seq(Frame), NEW r \in Nat, NEW f \in Nat, NEW to \in Int, to <= Len(mine), NEW a \in Int,
         NEW h, NEW m, m = [type |-> "frames", e |-> s.epoch, r |-> r, f |-> f, i |-> SubSeq(mine, f + 1, to),
                     a |-> a, h |-> h]
  PROVE  /\ MsgRight(q, m, s.epoch) /\ m.type = "frames"
         /\ \/ (r = s.r /\ mine = s.mine)
            \/ (r < s.r /\ s.prev # None /\ s.prev[1].r = r /\ mine = s.prev[1].mine)
            => Carried(m, s)
<1>1. s.epoch \in Nat /\ s.epoch > 0
  BY DEF SideRight, SideCore
<1> DEFINE i == SubSeq(mine, f + 1, to)
<1>2. f + 1 \in Nat /\ f + 1 > 0
  OBVIOUS
<1>3. /\ i \in Seq(Frame) /\ Len(i) = (IF f + 1 <= to THEN to - (f + 1) + 1 ELSE 0)
      /\ \A j \in 1 .. to - (f + 1) + 1 : i[j] = mine[f + 1 + j - 1]
  BY <1>2, SubSeqIs
<1>4. /\ m.type = "frames" /\ m.e = s.epoch /\ m.r = r /\ m.f = f /\ m.i = i /\ m.a = a
  OBVIOUS
<1> HIDE DEF i
<1>5. Carries(m, mine)
  <2> SUFFICES ASSUME NEW j \in 1 .. Len(i) PROVE f + j <= Len(mine) /\ i[j] = mine[f + j]
    BY <1>4 DEF Carries
  <2>1. Len(mine) \in Nat
    OBVIOUS
  <2>2. f + 1 <= to /\ j \in 1 .. to - (f + 1) + 1
    BY <1>3
  <2>3. f + 1 + j - 1 = f + j
    OBVIOUS
  <2> QED BY <1>3, <2>1, <2>2, <2>3
<1>6. MsgRight(q, m, s.epoch)
  <2>1. m.e \in 0 .. s.epoch /\ m.type # "snap"
    BY <1>1, <1>4
  <2> QED BY <1>1, <1>3, <1>4, <2>1 DEF MsgRight
<1>7. r = s.r /\ mine = s.mine => Carried(m, s)
  BY <1>4, <1>5 DEF Carried
<1>8. r < s.r /\ s.prev # None /\ s.prev[1].r = r /\ mine = s.prev[1].mine => Carried(m, s)
  BY <1>4, <1>5 DEF Carried
<1> QED BY <1>4, <1>6, <1>7, <1>8

LEMMA SaidMsg ==
  ASSUME NEW p, NEW s, SideRight(p, s), p \in Player, s.phase # "wait",
         NEW f, f = Max({s.acked + 1, Sealed(s) - MAX_FRAMES + 1, 0}),
         NEW m, m = [type |-> "frames", e |-> s.epoch, r |-> s.r, f |-> f,
               i |-> SubSeq(s.mine, f + 1, Len(s.mine)), a |-> TheirNext(s) - 1, h |-> s.hashDue]
  PROVE  MsgRight(Other(p), m, s.epoch) /\ Carried(m, s) /\ m.type = "frames"
<1>1. /\ SideCore(p, s) /\ s.mine \in Seq(Frame) /\ Len(s.mine) \in Nat /\ s.acked \in Int /\ TheirsRight(s)
      /\ s.round.tick \in Nat /\ MAX_FRAMES \in Nat /\ s.r \in Nat
  <2>1. SideCore(p, s)
    BY DEF SideRight
  <2>2. s.r \in 0 .. MaxRound /\ MaxRound \in Nat
    BY <2>1, ConstantsAre DEF SideCore, GameRight
  <2>3. s.mine \in Seq(Frame) /\ s.acked \in Int /\ TheirsRight(s) /\ s.round.tick \in Nat
    BY <2>1, SideHalf DEF SideCore
  <2>4. Len(s.mine) \in Nat
    BY <2>3
  <2> QED BY <2>1, <2>2, <2>3, <2>4, ConstantsAre
<1>2. f \in Nat
  <2>1. s.acked + 1 \in Int /\ Sealed(s) - MAX_FRAMES + 1 \in Int /\ 0 \in Int
    BY <1>1 DEF Sealed
  <2> DEFINE x == s.acked + 1
             y == Sealed(s) - MAX_FRAMES + 1
  <2>2. x \in Int /\ y \in Int /\ 0 \in Int /\ f = Max({x, y, 0})
    BY <2>1
  <2> HIDE DEF x, y
  <2>3. f \in {x, y, 0} /\ f >= 0
    BY ONLY <2>2, MaxThree
  <2> QED BY <2>2, <2>3
<1>3. TheirNext(s) - 1 \in Int
  BY <1>1, TheirNextIs
<1> DEFINE a == TheirNext(s) - 1
           n == Len(s.mine)
           h == s.hashDue
<1>4. a \in Int /\ n \in Int /\ n <= Len(s.mine)
  BY <1>1, <1>3
<1>5. m = [type |-> "frames", e |-> s.epoch, r |-> s.r, f |-> f, i |-> SubSeq(s.mine, f + 1, n), a |-> a, h |-> h]
  OBVIOUS
<1> HIDE DEF a, n, h
<1> QED BY ONLY <1>1, <1>2, <1>4, <1>5, SentRight, p \in Player, SideRight(p, s), s.phase # "wait"

\* ... and go no further beyond what the other has been heard to have fixed than a message has room for.
LEMMA SaidClaim ==
  ASSUME NEW p, NEW s, SideRight(p, s), p \in Player, s.phase # "wait", Own(p, s),
         NEW f, f = Max({s.acked + 1, Sealed(s) - MAX_FRAMES + 1, 0}),
         NEW m, m = [type |-> "frames", e |-> s.epoch, r |-> s.r, f |-> f,
               i |-> SubSeq(s.mine, f + 1, Len(s.mine)), a |-> TheirNext(s) - 1, h |-> s.hashDue]
  PROVE  Claim(m, s)
<1> DEFINE a == TheirNext(s) - 1
           n == Len(s.mine)
           i == SubSeq(s.mine, f + 1, n)
           tick == s.round.tick
<1>1. /\ SideCore(p, s) /\ s.mine \in Seq(Frame) /\ n \in Nat
      /\ s.acked \in Int /\ TheirsRight(s) /\ tick \in Nat
  <2>1. SideCore(p, s)
    BY DEF SideRight
  <2> QED BY <2>1, SideHalf DEF SideCore
<1>2. f \in Nat /\ f >= s.acked + 1
  <2> DEFINE x == s.acked + 1
             y == Sealed(s) - MAX_FRAMES + 1
  <2>1. x \in Int /\ y \in Int /\ 0 \in Int /\ f = Max({x, y, 0})
    BY <1>1, ConstantsAre DEF Sealed
  <2> HIDE DEF x, y
  <2>2. f \in {x, y, 0} /\ f >= 0 /\ f >= x
    BY ONLY <2>1, MaxThree
  <2> QED BY <2>1, <2>2 DEF x
<1>3. a \in Int /\ tick <= a + 1 /\ Has(s, a)
  BY <1>1, TheirNextIs DEF Has
<1>4. i \in Seq(Frame) /\ Len(i) = IF f + 1 <= n THEN n - (f + 1) + 1 ELSE 0
  <2> DEFINE q == s.mine
             g == f + 1
  <2>1. q \in Seq(Frame) /\ g \in Nat /\ g > 0 /\ n \in Int /\ n <= Len(q) /\ i = SubSeq(q, g, n)
    BY <1>1, <1>2
  <2> HIDE DEF n, q, g, i
  <2>2. SubSeq(q, g, n) \in Seq(Frame) /\ Len(SubSeq(q, g, n)) = IF g <= n THEN n - g + 1 ELSE 0
    BY ONLY <2>1, SubSeqIs
  <2> QED BY <2>1, <2>2 DEF g
<1>5. m.r = s.r /\ m.a = a /\ m.f = f /\ m.i = i
  OBVIOUS
<1>6. n - 1 <= tick + Third - 1 \/ n - 1 <= s.acked
  BY DEF Own, Long, Sealed
<1> HIDE DEF a, n, i, tick
<1>7. ASSUME i # <<>> PROVE f + Len(i) - 1 <= a + Third
  <2>1. Len(i) # 0
    BY <1>4, <1>7
  <2>2. Len(i) = n - f /\ f + 1 <= n
    BY <1>1, <1>2, <1>4, <2>1
  <2> DEFINE l == Len(i)
             k == s.acked
  <2>3. l = n - f /\ f + 1 <= n /\ f >= k + 1 /\ k \in Int /\ (n - 1 <= tick + Third - 1 \/ n - 1 <= k)
    BY <1>1, <1>2, <1>6, <2>2
  <2> HIDE DEF l, k
  <2>4. n - 1 <= tick + Third - 1
    BY <1>1, <1>2, <2>3, ThirdIs
  <2>5. a \in Int /\ f \in Nat /\ n \in Nat /\ tick \in Nat /\ Third \in Nat /\ tick <= a + 1
    BY <1>1, <1>2, <1>3, ThirdIs
  <2>6. f + l - 1 <= a + Third
    BY ONLY <2>3, <2>4, <2>5
  <2> QED BY <2>6 DEF l
<1> QED BY <1>3, <1>5, <1>7 DEF Claim

LEMMA PostFine ==
  ASSUME NEW p \in Player, NEW s, NEW o, NEW in, NEW from, NEW dr, Fine(p, s, o, in, from, dr),
         NEW m, MsgRight(Other(p), m, s.epoch), Carried(m, s), Claim(m, s), m.type # "snap",
         NEW t, t = Post(s, m)
  PROVE  Fine(p, t, o, in, from, dr) /\ t.r = s.r
<1>1. SideCore(p, s)
  BY GoodSides DEF Fine, SideRight
<1>2. t.check = s.check /\ t.r = s.r
  <2>1. DOMAIN s = DOMAIN NewSession
    BY <1>1 DEF SideCore
  <2>2. t.check = s.check
    BY <2>1, ChecksKept
  <2> QED BY <1>1, <2>2, PostIs DEF SameGame
<1>3. GoodAt(p, t, o, in, from, dr) /\ (Ready(s) => Ready(t))
  BY PostGood DEF Fine
<1>4. SideRight(p, s) /\ FitAt(p, s, o, in, from, dr)
  BY GoodSides DEF Fine
<1>5. FitAt(p, t, o, in, from, dr)
  BY <1>4, PostFit DEF Fine
<1> QED BY <1>2, <1>3, <1>5 DEF Fine

\* A message that is not of the game.
LEMMA TellFine ==
  ASSUME NEW p \in Player, NEW s, NEW o, NEW in, NEW from, NEW dr, Fine(p, s, o, in, from, dr),
         NEW m, m.e = s.epoch, m.type \notin {"frames", "snap"}, NEW t, t = Post(s, m)
  PROVE  Fine(p, t, o, in, from, dr) /\ t.r = s.r
<1>1. s.epoch \in Nat
  BY GoodSides DEF Fine
<1>2. MsgRight(Other(p), m, s.epoch) /\ Carried(m, s) /\ Claim(m, s)
  BY <1>1 DEF MsgRight, Carried, Claim
<1> QED BY <1>2, PostFine

LEMMA NaggedFine ==
  ASSUME NEW p \in Player, NEW s, NEW o, NEW in, NEW from, NEW dr, Fine(p, s, o, in, from, dr),
         NEW late, NEW t, t = Nagged(s, p, late)
  PROVE  Fine(p, t, o, in, from, dr)
<1>1. SideCore(p, s) /\ DOMAIN s = DOMAIN NewSession
  BY GoodSides DEF Fine, SideRight, SideCore
<1> DEFINE h == IF p = Guest THEN <<s.round.tick, HashAt(s, s.round.tick)>> ELSE s.hashDue
<1>2. t = s \/ t = [s EXCEPT !.dirty = TRUE, !.hashDue = h]
  BY DEF Nagged
<1> HIDE DEF h
<1>3. CASE t = s
  BY <1>3
<1>4. CASE t = [s EXCEPT !.dirty = TRUE, !.hashDue = h]
  <2>1. /\ DOMAIN t = DOMAIN s /\ SameGame(s, t) /\ t.theirs = s.theirs /\ t.out = s.out /\ t.mine = s.mine
        /\ t.acked = s.acked /\ t.queue = s.queue /\ t.check = s.check
    BY <1>1, <1>4, FieldsAre DEF SameGame
  <2> QED BY <1>1, <2>1, SameQuiet, QuietFine
<1> QED BY <1>2, <1>3, <1>4

LEMMA SentFine ==
  ASSUME NEW p \in Player, NEW s, NEW o, NEW in, NEW from, NEW dr, Fine(p, s, o, in, from, dr),
         NEW t, t = SendFrames(s)
  PROVE  Fine(p, t, o, in, from, dr)
<1>1. SideRight(p, s) /\ SideCore(p, s) /\ DOMAIN s = DOMAIN NewSession
  BY GoodSides DEF Fine, SideRight, SideCore
<1> DEFINE f == Max({s.acked + 1, Sealed(s) - MAX_FRAMES + 1, 0})
           m == [type |-> "frames", e |-> s.epoch, r |-> s.r, f |-> f,
                 i |-> SubSeq(s.mine, f + 1, Len(s.mine)), a |-> TheirNext(s) - 1, h |-> s.hashDue]
           u == [s EXCEPT !.dirty = FALSE, !.hashDue = None]
           w == [s EXCEPT !.dirty = FALSE]
<1>2. t = IF s.phase = "wait" THEN w ELSE Post(u, m)
  BY DEF SendFrames
<1>3. CASE s.phase = "wait"
  <2>1. /\ DOMAIN w = DOMAIN s /\ SameGame(s, w) /\ w.theirs = s.theirs /\ w.out = s.out /\ w.mine = s.mine
        /\ w.acked = s.acked /\ w.queue = s.queue /\ w.check = s.check
    BY <1>1, FieldsAre DEF SameGame
  <2> HIDE DEF w
  <2> QED BY <1>1, <1>2, <1>3, <2>1, SameQuiet, QuietFine
<1>4. CASE s.phase # "wait"
  <2>1. /\ DOMAIN u = DOMAIN s /\ SameGame(s, u) /\ u.theirs = s.theirs /\ u.out = s.out /\ u.mine = s.mine
        /\ u.acked = s.acked /\ u.queue = s.queue /\ u.check = s.check
    BY <1>1, FieldsAre DEF SameGame
  <2> HIDE DEF u
  <2>2. Fine(p, u, o, in, from, dr)
    BY <1>1, <2>1, SameQuiet, QuietFine
  <2> HIDE DEF f
  <2>3. f = Max({s.acked + 1, Sealed(s) - MAX_FRAMES + 1, 0})
    BY DEF f
  <2>4. m = [type |-> "frames", e |-> s.epoch, r |-> s.r, f |-> f,
                 i |-> SubSeq(s.mine, f + 1, Len(s.mine)), a |-> TheirNext(s) - 1, h |-> s.hashDue]
    OBVIOUS
  <2> HIDE DEF m
  <2>5. MsgRight(Other(p), m, s.epoch) /\ Carried(m, s) /\ m.type = "frames"
    BY <1>1, <1>4, <2>3, <2>4, SaidMsg
  <2>6. Claim(m, s)
    <3>1. Own(p, s)
      BY FitSides DEF Fine
    <3> QED BY <1>1, <1>4, <2>3, <2>4, <3>1, SaidClaim
  <2>7. MsgRight(Other(p), m, u.epoch) /\ Carried(m, u) /\ Claim(m, u)
    BY <2>1, <2>5, <2>6 DEF SameGame, Carried, Claim, Has
  <2> QED BY <1>2, <1>4, <2>2, <2>5, <2>7, PostFine
<1> QED BY <1>3, <1>4

LEMMA TickedFine ==
  ASSUME NEW p \in Player, NEW s, NEW o, NEW in, NEW from, NEW dr, Fine(p, s, o, in, from, dr),
         s.out = <<>>, o.out = <<>>,
         PauseOver(s, p) => s.r < MaxRound /\ (\A m \in in \cup from : m.type \in {"frames", "snap"} => m.r > s.r),
         NEW n \in Nat, NEW late, NEW d \in Delays, NEW t, t = Ticked(s, p, n, late, d)
  PROVE  Fine(p, t, o, in, from, dr)
<1> DEFINE a == Turned(s, p, n, d)
           b == Nagged(a, p, late)
           k == [type |-> "keep", e |-> b.epoch]
<1>1. t = Said(b, p, late)
  BY DEF Ticked
<1>2. Fine(p, a, o, in, from, dr)
  BY TurnedFine
<1> HIDE DEF a
<1>3. Fine(p, b, o, in, from, dr)
  BY <1>2, NaggedFine
<1> HIDE DEF b
<1>4. t = b \/ t = SendFrames(b) \/ t = Post(b, k)
  BY <1>1 DEF Said
<1>5. k.e = b.epoch /\ k.type \notin {"frames", "snap"}
  OBVIOUS
<1> HIDE DEF k
<1>6. CASE t = SendFrames(b)
  BY <1>3, <1>6, SentFine
<1>7. CASE t = Post(b, k)
  BY <1>3, <1>5, <1>7, TellFine
<1> QED BY <1>3, <1>4, <1>6, <1>7

-----------------------------------------------------------------------------
(* Messages *)

LEMMA StaleFine ==
  ASSUME NEW s, NEW o, NEW in, NEW from, NEW dr, Fine(Host, s, o, in, from, dr), NEW e, NEW late,
         NEW t, t = Stale(s, e, late)
  PROVE  Fine(Host, t, o, in, from, dr) /\ t.r = s.r
<1>1. t = s \/ (s.phase # "wait" /\ t = Snapshot(s))
  BY DEF Stale
<1> QED BY <1>1, SnapFine

LEMMA VerifyFine ==
  ASSUME NEW s, NEW o, NEW in, NEW from, NEW dr, Fine(Host, s, o, in, from, dr), s.phase # "wait",
         NEW r, NEW h, NEW t, t = Verify(s, r, h)
  PROVE  Fine(Host, t, o, in, from, dr) /\ t.r = s.r
<1> DEFINE u == [s EXCEPT !.check = h]
<1>1. SideCore(Host, s) /\ DOMAIN s = DOMAIN NewSession /\ Host \in Player
  <2>1. Host \in Player
    BY TwoSides
  <2>2. SideCore(Host, s)
    BY <2>1, GoodSides DEF Fine, SideRight
  <2> QED BY <2>1, <2>2 DEF SideCore
<1>2. t = s \/ t = u \/ t = Snapshot(s)
  BY DEF Verify
<1>3. /\ DOMAIN u = DOMAIN s /\ SameGame(s, u) /\ u.theirs = s.theirs /\ u.out = s.out /\ u.mine = s.mine
      /\ u.acked = s.acked /\ u.queue = s.queue
  BY <1>1, FieldsAre DEF SameGame
<1> HIDE DEF u
<1>4. Fine(Host, u, o, in, from, dr) /\ u.r = s.r
  BY <1>1, <1>3, SameQuiet, QuietFine
<1> QED BY <1>2, <1>4, SnapFine

\* Frames heard are ones the other side has fixed.
LEMMA TakenFine ==
  ASSUME NEW p \in Player, NEW s, NEW o, NEW in, NEW from, NEW dr, Fine(p, s, o, in, from, dr), s.phase # "wait",
         NEW m \in in \cup Range(o.out), m.type = "frames", m.e = s.epoch, m.r = s.r, NEW t, t = Taken(s, m)
  PROVE  Fine(p, t, o, in, from, dr) /\ t.r = s.r /\ t.phase = s.phase
<1>1. /\ SideRight(p, s) /\ SideCore(p, s) /\ Half(s) /\ Half(o) /\ DOMAIN s = DOMAIN NewSession
      /\ GoodAt(p, s, o, in, from, dr) /\ MsgRight(p, m, o.epoch) /\ s.epoch \in Nat /\ o.epoch \in Nat
      /\ SideRight(Other(p), o)
  BY GoodSides DEF Fine, SideRight, SideCore
<1>2. m.f \in Nat /\ m.i \in Seq(Frame) /\ m.a \in Int /\ Len(m.i) \in Nat /\ m.e \in 0 .. o.epoch
  BY <1>1 DEF MsgRight
<1>3. s.mine \in Seq(Frame) /\ Sealed(s) \in Int /\ s.acked \in Int /\ s.acked <= Sealed(s) /\ TheirsRight(s)
      /\ s.round.tick \in Nat /\ s.r \in Int
  BY <1>1, SideHalf DEF SideCore, Sealed
<1> DEFINE limit == s.round.tick + MAX_FRAMES
           new   == {k \in (m.f .. m.f + Len(m.i) - 1) \ DOMAIN s.theirs : k >= s.round.tick /\ k < limit}
           acked == Max({s.acked, Min({m.a, Sealed(s)})})
           theirs == [k \in new \cup DOMAIN s.theirs |-> IF k \in new THEN m.i[k - m.f + 1] ELSE s.theirs[k]]
           held  == [s EXCEPT !.acked = acked, !.theirs = theirs]
           dirty == held.dirty \/ (s.round.result # Going /\ m.a < Sealed(s))
<1>4. t = [held EXCEPT !.dirty = dirty]
  BY DEF Taken
<1>5. /\ acked \in Int /\ acked <= Sealed(s) /\ acked >= s.acked
      /\ acked = s.acked \/ acked <= m.a
      /\ acked >= m.a \/ acked >= Sealed(s)
  <2> DEFINE b == Min({m.a, Sealed(s)})
  <2>1. b \in Int /\ b <= Sealed(s) /\ b <= m.a /\ (b = m.a \/ b = Sealed(s))
    BY <1>2, <1>3, MinTwo
  <2> HIDE DEF b
  <2>2. acked = Max({s.acked, b})
    BY DEF b
  <2> HIDE DEF acked
  <2>3. acked = IF s.acked >= b THEN s.acked ELSE b
    <3> DEFINE a == s.acked
    <3>1. a \in Int /\ b \in Int /\ acked = Max({a, b})
      BY <1>3, <2>1, <2>2
    <3> HIDE DEF a
    <3>2. acked = IF a >= b THEN a ELSE b
      BY ONLY <3>1, MaxTwo
    <3> QED BY <3>2 DEF a
  <2> QED BY <1>2, <1>3, <2>1, <2>3
<1>6. new \subseteq m.f .. m.f + Len(m.i) - 1
  OBVIOUS
<1>7. theirs = [k \in new \cup DOMAIN s.theirs |-> IF k \in new THEN m.i[k - m.f + 1] ELSE s.theirs[k]]
  OBVIOUS
<1> HIDE DEF new, acked, theirs, dirty
<1>8. /\ DOMAIN t = DOMAIN NewSession /\ t.acked = acked /\ t.theirs = theirs
      /\ t.epoch = s.epoch /\ t.r = s.r /\ t.delay = s.delay /\ t.score = s.score /\ t.round = s.round
      /\ t.base = s.base /\ t.phase = s.phase /\ t.again = s.again /\ t.mine = s.mine
      /\ t.queue = s.queue /\ t.prev = s.prev /\ t.out = s.out /\ t.check = s.check
  BY <1>1, <1>4, FieldsAre
<1>9. TheirsRight(t)
  <2>1. DOMAIN s.theirs \subseteq Nat /\ IsFiniteSet(DOMAIN s.theirs) /\ Range(s.theirs) \subseteq Frame
    BY <1>3 DEF TheirsRight
  <2>2. new \subseteq Nat /\ IsFiniteSet(new)
    <3> DEFINE a == m.f
               b == m.f + Len(m.i) - 1
    <3>1. a \in Nat /\ b \in Int
      BY <1>2
    <3>2. new \subseteq a .. b
      BY <1>6
    <3> HIDE DEF a, b
    <3>3. IsFiniteSet(a .. b)
      BY <3>1, FS_Interval
    <3>4. (a .. b) \subseteq Nat
      BY <3>1
    <3> QED BY <3>2, <3>3, <3>4, FS_Subset
  <2>3. \A k \in new : m.i[k - m.f + 1] \in Frame
    <3> SUFFICES ASSUME NEW k \in new PROVE m.i[k - m.f + 1] \in Frame
      OBVIOUS
    <3>1. k \in m.f .. m.f + Len(m.i) - 1
      BY <1>6
    <3>2. k - m.f + 1 \in 1 .. Len(m.i)
      BY <1>2, <3>1
    <3> QED BY <1>2, <3>2
  <2>4. DOMAIN theirs = new \cup DOMAIN s.theirs
    BY <1>7
  <2>5. IsFiniteSet(DOMAIN theirs)
    BY <2>1, <2>2, <2>4, FS_Union
  <2>6. \A k \in DOMAIN theirs : theirs[k] \in Frame
    <3> SUFFICES ASSUME NEW k \in DOMAIN theirs PROVE theirs[k] \in Frame
      OBVIOUS
    <3>1. CASE k \in new
      BY <1>7, <2>3, <2>4, <3>1
    <3>2. CASE k \notin new
      <4>1. k \in DOMAIN s.theirs /\ theirs[k] = s.theirs[k]
        BY <1>7, <2>4, <3>2
      <4> QED BY <2>1, <4>1 DEF Range
    <3> QED BY <3>1, <3>2
  <2> QED BY <1>8, <2>1, <2>2, <2>4, <2>5, <2>6 DEF TheirsRight, Range
<1>10. SideRight(p, t)
  <2>1. SideCore(p, t)
    <3>1. GameRight(t) /\ t.delay \in Delays /\ t.phase # "wait"
      BY <1>1, <1>8 DEF SideCore, GameRight
    <3>2. t.acked \in Int /\ t.acked <= Sealed(t)
      BY <1>5, <1>8 DEF Sealed
    <3> QED BY <1>1, <1>8, <1>9, <3>1, <3>2 DEF SideCore, PrevRight
  <2> QED BY <1>1, <1>8, <2>1 DEF SideRight
<1>11. o.epoch = s.epoch /\ dr # s.epoch /\ Pair(p, s, o) => Pair(p, t, o)
  <2> SUFFICES ASSUME o.epoch = s.epoch, dr # s.epoch, Pair(p, s, o) PROVE Pair(p, t, o)
    OBVIOUS
  <2>1. Carried(m, o)
    <3>1. Kept(o, in \cup Range(o.out))
      BY <1>1, GoodSides
    <3> QED BY <3>1 DEF Kept
  <2>2. o.r \in Int
    BY <1>1, SideHalf, TwoSides DEF SideRight
  <2>3. t.theirs = [k \in new \cup DOMAIN s.theirs |-> IF k \in new THEN m.i[k - m.f + 1] ELSE s.theirs[k]]
    BY <1>7, <1>8
  <2> QED BY <1>1, <1>2, <1>3, <1>6, <1>8, <2>1, <2>2, <2>3, PairHeard
<1>12. \A x : Half(x) /\ p = Host /\ o.epoch # s.epoch /\ Pair(p, s, x) => Pair(p, t, x)
  <2>1. p = Host => o.epoch = s.epoch
    <3>1. p = Host => o.epoch <= s.epoch
      BY <1>1, GoodSides
    <3> QED BY <1>1, <1>2, <3>1
  <2> QED BY <2>1
<1>13. Longer(s.mine, t.mine)
  BY <1>3, <1>8, LongerSame
<1>14. GoodAt(p, t, o, in, from, dr)
  BY <1>1, <1>8, <1>10, <1>11, <1>12, <1>13, Lift
<1>15. Ready(t)
  BY <1>8 DEF Fine, Ready, Sealed
<1>16. FitAt(p, t, o, in, from, dr)
  <2>1. FitAt(p, s, o, in, from, dr)
    BY DEF Fine
  <2>2. DOMAIN t.theirs = new \cup DOMAIN s.theirs
    BY <1>7, <1>8
  <2> QED BY <1>1, <1>5, <1>6, <1>8, <2>1, <2>2, TakenFit
<1> QED BY <1>8, <1>14, <1>15, <1>16 DEF Fine

\* The last frames of the round before, again.
LEMMA LastFine ==
  ASSUME NEW p \in Player, NEW s, NEW o, NEW in, NEW from, NEW dr, Fine(p, s, o, in, from, dr), s.phase # "wait",
         NEW m \in in \cup Range(o.out), m.type = "frames", m.r # s.r, s.prev # None, s.prev[1].r = m.r,
         NEW t, t = LastRound(s, m)
  PROVE  Fine(p, t, o, in, from, dr) /\ t.r = s.r /\ t.phase = s.phase
<1>1. /\ SideRight(p, s) /\ SideCore(p, s) /\ DOMAIN s = DOMAIN NewSession /\ GoodAt(p, s, o, in, from, dr)
      /\ MsgRight(p, m, o.epoch)
  BY GoodSides DEF Fine, SideRight, SideCore
<1>2. m.a \in Int /\ m.r \in Nat
  BY <1>1 DEF MsgRight
<1>3. s.prev[1].r \in Nat /\ s.prev[1].mine \in Seq(Frame) /\ s.r \in Int
  BY <1>1, SideHalf DEF SideCore, PrevRight
<1> DEFINE mine == s.prev[1].mine
           sealed == Len(mine) - 1
           f == Max({m.a + 1, sealed - MAX_FRAMES + 1, 0})
           to == sealed + 1
           h == None
           x == [type |-> "frames", e |-> s.epoch, r |-> m.r, f |-> f, i |-> SubSeq(mine, f + 1, to), a |-> -1, h |-> h]
<1>4. t = Post(s, x)
  BY DEF LastRound
<1>5. mine \in Seq(Frame) /\ to \in Int /\ to <= Len(mine) /\ sealed \in Int /\ mine = s.prev[1].mine
  BY <1>3
<1> HIDE DEF mine, sealed, to
<1>6. f \in Nat
  <2> DEFINE a == m.a + 1
             b == sealed - MAX_FRAMES + 1
  <2>1. a \in Int /\ b \in Int /\ 0 \in Int /\ f = Max({a, b, 0})
    BY <1>2, <1>5, ConstantsAre
  <2> HIDE DEF a, b, f
  <2>2. f \in {a, b, 0} /\ f >= 0
    BY ONLY <2>1, MaxThree
  <2> QED BY <2>1, <2>2
<1>7. x = [type |-> "frames", e |-> s.epoch, r |-> m.r, f |-> f, i |-> SubSeq(mine, f + 1, to), a |-> -1, h |-> h]
  OBVIOUS
<1>8. -1 \in Int
  OBVIOUS
<1> HIDE DEF f, h, x
<1>9. /\ MsgRight(Other(p), x, s.epoch) /\ x.type = "frames"
      /\ \/ (m.r = s.r /\ mine = s.mine)
         \/ (m.r < s.r /\ s.prev # None /\ s.prev[1].r = m.r /\ mine = s.prev[1].mine)
         => Carried(x, s)
  <2> DEFINE k == -1
             r == m.r
  <2>1. k \in Int /\ r \in Nat
    BY <1>2
  <2>2. x = [type |-> "frames", e |-> s.epoch, r |-> r, f |-> f, i |-> SubSeq(mine, f + 1, to), a |-> k, h |-> h]
    BY <1>7
  <2>3. r = m.r
    OBVIOUS
  <2> HIDE DEF k, r
  <2> QED BY ONLY <1>1, <1>5, <1>6, <2>1, <2>2, <2>3, SentRight, p \in Player, s.phase # "wait"
<1>10. ~(p = Guest /\ dr = s.epoch) => s.prev[1].r <= s.r
  <2>1. CASE p = Host
    BY <1>1, <2>1 DEF GoodAt, Good, Kept
  <2>2. CASE p # Host
    BY <1>1, <2>2, TwoSides DEF GoodAt, Good, Kept
  <2> QED BY <2>1, <2>2
<1>11. ~(p = Guest /\ dr = s.epoch) => Carried(x, s)
  BY <1>2, <1>3, <1>5, <1>9, <1>10
<1>12. t.check = s.check /\ t.r = s.r /\ t.phase = s.phase
  <2>1. t.check = s.check
    BY <1>1, <1>4, ChecksKept
  <2> QED BY <1>1, <1>4, <2>1, PostIs DEF SameGame
<1>13. x.type # "snap"
  BY <1>9
<1>14. GoodAt(p, t, o, in, from, dr) /\ (Ready(s) => Ready(t))
  BY ONLY <1>1, <1>4, <1>9, <1>11, <1>13, PostGood, p \in Player
<1>15. FitAt(p, t, o, in, from, dr)
  <2>1. x.r # s.r
    BY <1>7
  <2>2. Claim(x, s) /\ FitAt(p, s, o, in, from, dr)
    BY <2>1 DEF Claim, Fine
  <2> QED BY ONLY <1>1, <1>4, <1>13, <2>2, PostFit, p \in Player
<1> QED BY <1>12, <1>14, <1>15 DEF Fine

\* A side has asked for another match, or heard the other ask.
LEMMA AskedFine ==
  ASSUME NEW p \in Player, NEW s, NEW o, NEW in, NEW from, NEW dr, Fine(p, s, o, in, from, dr),
         NEW again, DOMAIN again = {"mine", "theirs"}, p = Host /\ again.mine => s.phase = "over" /\ s.r < MaxRound,
         NEW t, t = [s EXCEPT !.again = again]
  PROVE  Fine(p, t, o, in, from, dr) /\ t.r = s.r /\ t.epoch = s.epoch
<1>1. /\ SideRight(p, s) /\ SideCore(p, s) /\ Half(s) /\ Half(o) /\ DOMAIN s = DOMAIN NewSession
      /\ GoodAt(p, s, o, in, from, dr)
  BY GoodSides DEF Fine, SideRight, SideCore
<1>2. /\ DOMAIN t = DOMAIN NewSession /\ t.acked = s.acked /\ t.theirs = s.theirs
      /\ t.epoch = s.epoch /\ t.r = s.r /\ t.delay = s.delay /\ t.score = s.score /\ t.round = s.round
      /\ t.base = s.base /\ t.phase = s.phase /\ t.again = again /\ t.mine = s.mine
      /\ t.queue = s.queue /\ t.prev = s.prev /\ t.out = s.out /\ t.check = s.check
  BY <1>1, FieldsAre
<1>3. SideCore(p, t)
  <2>1. IF t.phase = "wait" THEN WaitRight(t) ELSE GameRight(t) /\ t.delay \in Delays
    BY <1>1, <1>2 DEF SideCore, WaitRight, GameRight
  <2> QED BY <1>1, <1>2, <2>1 DEF SideCore, TheirsRight, PrevRight, Sealed
<1>4. SideRight(p, t)
  BY <1>1, <1>2, <1>3 DEF SideRight
<1>5. Longer(s.mine, t.mine)
  BY <1>1, <1>2, LongerSame DEF Half
<1>6. \A x : Half(x) /\ Pair(p, s, x) => Pair(p, t, x)
  BY <1>1, <1>2, <1>5, PairLonger
<1>7. GoodAt(p, t, o, in, from, dr)
  BY <1>1, <1>2, <1>4, <1>5, <1>6, Lift
<1>8. FitAt(p, t, o, in, from, dr)
  <2>1. FitAt(p, s, o, in, from, dr) /\ Own(p, s) /\ s.epoch \in Nat
    BY <1>1, FitSides DEF Fine, SideCore
  <2>2. Own(p, t)
    BY <1>2, <2>1 DEF Own, Long, Sealed
  <2> QED BY <1>2, <2>1, <2>2, FitSame
<1> QED BY <1>2, <1>7, <1>8 DEF Fine, Ready, Sealed

LEMMA HearFramesFine ==
  ASSUME NEW p \in Player, NEW s, NEW o, NEW in, NEW from, NEW dr, Fine(p, s, o, in, from, dr),
         NEW m \in in \cup Range(o.out), m.type = "frames", NEW late, NEW t, t = HearFrames(s, p, m, late)
  PROVE  Fine(p, t, o, in, from, dr) /\ t.r = s.r
<1> DEFINE heard == IF m.r = s.r THEN Taken(s, m)
                    ELSE IF s.prev # None /\ s.prev[1].r = m.r /\ m.a < Len(s.prev[1].mine) - 1
                      THEN LastRound(s, m) ELSE s
<1>1. t = IF m.e # s.epoch \/ s.phase = "wait" THEN IF p = Host THEN Stale(s, m.e, late) ELSE s
          ELSE IF m.h # None /\ p = Host THEN Verify(heard, m.r, m.h) ELSE heard
  BY DEF HearFrames
<1>2. CASE m.e # s.epoch \/ s.phase = "wait"
  BY <1>1, <1>2, StaleFine
<1>3. CASE ~(m.e # s.epoch \/ s.phase = "wait")
  <2>1. Fine(p, heard, o, in, from, dr) /\ heard.r = s.r /\ heard.phase = s.phase
    <3>1. CASE m.r = s.r
      BY <1>3, <3>1, TakenFine
    <3>2. CASE m.r # s.r /\ s.prev # None /\ s.prev[1].r = m.r /\ m.a < Len(s.prev[1].mine) - 1
      BY <1>3, <3>2, LastFine
    <3>3. CASE heard = s
      BY <3>3
    <3> QED BY <3>1, <3>2, <3>3
  <2>2. t = heard \/ (p = Host /\ t = Verify(heard, m.r, m.h))
    BY <1>1, <1>3
  <2> HIDE DEF heard
  <2> QED BY <1>3, <2>1, <2>2, VerifyFine
<1> QED BY <1>2, <1>3

LEMMA HearAgainFine ==
  ASSUME NEW p \in Player, NEW s, NEW o, NEW in, NEW from, NEW dr, Fine(p, s, o, in, from, dr),
         NEW m, NEW d \in Delays, NEW t, t = HearAgain(s, p, m, d)
  PROVE  Fine(p, t, o, in, from, dr) /\ t.r >= s.r
<1>1. SideCore(p, s) /\ GoodAt(p, s, o, in, from, dr) /\ DOMAIN s = DOMAIN NewSession /\ s.r \in Int
  <2>1. SideCore(p, s)
    BY GoodSides DEF Fine, SideRight
  <2> QED BY <2>1, SideHalf DEF Fine, SideCore
<1> DEFINE again == [s.again EXCEPT !.theirs = TRUE]
<1>2. \/ t = s
      \/ p = Host /\ s.again.mine /\ t = Start(s, d)
      \/ t = [s EXCEPT !.again = again]
  BY DEF HearAgain
<1>3. CASE t = s
  BY <1>1, <1>3
<1>4. CASE p = Host /\ s.again.mine /\ t = Start(s, d)
  <2>1. s.r < MaxRound
    BY <1>1, <1>4 DEF SideCore
  <2>2. Good(s, o, in, from, dr) /\ GoodAt(Host, s, o, in, from, dr)
    BY <1>1, <1>4 DEF GoodAt
  <2>3. GoodAt(Host, t, o, in, from, dr) /\ Ready(t) /\ t.r = s.r + 1
    BY ONLY <1>4, <2>1, <2>2, d \in Delays, StartGood
  <2>4. FitAt(Host, t, o, in, from, dr)
    BY <1>4, <2>1, <2>2, StartFit DEF Fine
  <2> QED BY <1>1, <1>4, <2>3, <2>4 DEF Fine
<1>5. CASE t = [s EXCEPT !.again = again]
  <2>1. DOMAIN again = {"mine", "theirs"} /\ again.mine = s.again.mine
    BY <1>1 DEF SideCore
  <2> HIDE DEF again
  <2>2. p = Host /\ again.mine => s.phase = "over" /\ s.r < MaxRound
    BY <1>1, <2>1 DEF SideCore
  <2>3. Fine(p, t, o, in, from, dr) /\ t.r = s.r
    BY <1>5, <2>1, <2>2, AskedFine
  <2> QED BY <1>1, <2>3
<1> QED BY <1>2, <1>3, <1>4, <1>5

LEMMA AdoptCheck ==
  ASSUME NEW s, DOMAIN s = DOMAIN NewSession, NEW m
  PROVE  Adopt(s, m).check = None
<1> DEFINE tick == m.round.tick
           clean == Reset(s, Guest, m.r, m.round, m.base)
           theirs == [t \in tick .. tick + Len(m.frames[Host]) - 1 |-> m.frames[Host][t - tick + 1]]
           mine == clean.mine \o m.frames[Guest]
           heading == FoldLeft(LAMBDA h, f : IF f # Straight /\ Turns(h, f) THEN f ELSE h, clean.heading, m.frames[Guest])
           acked == tick + Len(m.frames[Guest]) - 1
           again == IF m.phase = "over" THEN clean.again ELSE [mine |-> FALSE, theirs |-> FALSE]
           taken == [clean EXCEPT !.epoch = m.e, !.delay = m.d, !.score = m.score, !.phase = m.phase,
                       !.theirs = theirs, !.mine = mine, !.heading = heading, !.acked = acked, !.again = again]
           to == tick + m.d - 1
           u == IF m.phase = "run" THEN SealTo(taken, to) ELSE taken
<1>1. Adopt(s, m) = [u EXCEPT !.dirty = TRUE]
  BY DEF Adopt
<1>2. clean.check = None /\ DOMAIN clean = DOMAIN NewSession
  <2>1. clean.check = None
    BY ChecksKept
  <2>2. DOMAIN clean = DOMAIN s
    BY FieldsAre DEF Reset
  <2> QED BY <2>1, <2>2
<1> HIDE DEF clean, theirs, mine, heading, acked, again, to
<1>3. taken.check = None /\ DOMAIN taken = DOMAIN NewSession
  BY <1>2, FieldsAre
<1> HIDE DEF taken
<1>4. u.check = None
  BY <1>3, ChecksKept
<1> HIDE DEF u
<1> QED BY <1>1, <1>4

\* Whatever a side hears, the two go together still, or the guest counts as made to differ.
LEMMA HeardFine ==
  ASSUME NEW p \in Player, NEW s, NEW o, NEW in, NEW from, NEW dr, Fine(p, s, o, in, from, dr),
         NEW m \in in \cup Range(o.out), NEW late, NEW d \in Delays, NEW t, t = Heard(s, p, m, late, d),
         NEW dd, dd = IF t.r < s.r THEN t.epoch ELSE dr
  PROVE  Fine(p, t, o, in, from, dd)
<1>1. SideCore(p, s) /\ GoodAt(p, s, o, in, from, dr) /\ DOMAIN s = DOMAIN NewSession /\ s.r \in Int
  <2>1. SideCore(p, s)
    BY GoodSides DEF Fine, SideRight
  <2> QED BY <2>1, SideHalf DEF Fine, SideCore
<1>2. CASE t = s
  BY <1>1, <1>2
<1>3. CASE p = Host /\ t = Stale(s, m.e, late)
  <2>1. Fine(p, t, o, in, from, dr) /\ t.r = s.r
    BY <1>3, StaleFine
  <2> QED BY <1>1, <2>1
<1>4. CASE m.type = "frames" /\ t = HearFrames(s, p, m, late)
  <2>1. Fine(p, t, o, in, from, dr) /\ t.r = s.r
    BY <1>4, HearFramesFine
  <2> QED BY <1>1, <2>1
<1>5. CASE m.type = "snap" /\ p = Guest /\ m.e > s.epoch /\ t = Adopt(s, m)
  <2>1. GoodAt(Guest, s, o, in, from, dr)
    BY <1>1, <1>5
  <2>2. GoodAt(Guest, t, o, in, from, dd) /\ Ready(t)
    BY <1>5, <2>1, AdoptGood
  <2>3. t.check = None
    BY <1>1, <1>5, AdoptCheck
  <2>4. FitAt(Guest, t, o, in, from, dd)
    BY <1>5, <2>1, AdoptFit DEF Fine
  <2> QED BY <1>5, <2>2, <2>3, <2>4 DEF Fine
<1>6. CASE t = HearAgain(s, p, m, d)
  <2>1. Fine(p, t, o, in, from, dr) /\ t.r >= s.r
    BY <1>6, HearAgainFine
  <2>2. ~(t.r < s.r)
    <3>1. SideCore(p, t)
      BY <2>1, GoodSides DEF Fine, SideRight
    <3>2. t.r \in Int
      BY <3>1, SideHalf
    <3> QED BY <1>1, <2>1, <3>2
  <2> QED BY <2>1, <2>2
<1>7. \/ t = s
      \/ p = Host /\ t = Stale(s, m.e, late)
      \/ m.type = "frames" /\ t = HearFrames(s, p, m, late)
      \/ m.type = "snap" /\ p = Guest /\ m.e > s.epoch /\ t = Adopt(s, m)
      \/ t = HearAgain(s, p, m, d)
  <2>1. m.type = "keep" \/ m.type = "frames" \/ m.type = "snap" \/ m.type \notin {"keep", "frames", "snap"}
    OBVIOUS
  <2>2. CASE m.type = "keep"
    BY <2>2 DEF Heard
  <2>3. CASE m.type = "frames"
    BY <2>3 DEF Heard
  <2>4. CASE m.type = "snap"
    BY <2>4 DEF Heard
  <2>5. CASE m.type \notin {"keep", "frames", "snap"}
    BY <2>5 DEF Heard
  <2> QED BY <2>1, <2>2, <2>3, <2>4, <2>5
<1> QED BY <1>2, <1>3, <1>4, <1>5, <1>6, <1>7

-----------------------------------------------------------------------------
(* The link *)

LEMMA RemoveAtIs ==
  ASSUME NEW q, IsSeq(q), NEW i \in 1 .. Len(q), NEW t, t = RemoveAt(q, i)
  PROVE  IsSeq(t) /\ Range(t) \subseteq Range(q)
<1> DEFINE S == Range(q)
           x == SubSeq(q, 1, i - 1)
           y == SubSeq(q, i + 1, Len(q))
<1>1. q \in Seq(S)
  BY DEF IsSeq
<1>2. t = x \o y
  BY DEF RemoveAt
<1> HIDE DEF S
<1>3. Len(q) \in Nat /\ i \in Nat /\ i >= 1 /\ i <= Len(q)
  BY <1>1
<1>4. x \in Seq(S)
  BY <1>1, <1>3
<1>5. y \in Seq(S)
  BY <1>1, <1>3
<1> HIDE DEF x, y
<1>6. t \in Seq(S)
  BY <1>2, <1>4, <1>5
<1>7. Range(t) = {t[k] : k \in 1 .. Len(t)} /\ Range(t) \subseteq S
  BY <1>6, RangeOf
<1>8. t \in Seq(Range(t))
  BY <1>6, <1>7
<1> QED BY <1>7, <1>8 DEF S, IsSeq

\* What was posted leaves, and what is lost is lost: what is on its way is no more than it was.
LEMMA LinkFine ==
  ASSUME NEW p \in Player, NEW s, NEW o, NEW in, NEW from, NEW dr, Fine(p, s, o, in, from, dr),
         o.out = <<>>, NEW t, DOMAIN t = DOMAIN s, SameGame(s, t), t.theirs = s.theirs, t.mine = s.mine,
         t.acked = s.acked, t.queue = s.queue, t.check = s.check, t.out = <<>>,
         NEW in2 \in SUBSET in, NEW from2 \in SUBSET (from \cup Range(s.out))
  PROVE  Fine(p, t, o, in2, from2, dr)
<1>1. /\ SideRight(p, s) /\ SideCore(p, s) /\ Half(s) /\ Half(o) /\ GoodAt(p, s, o, in, from, dr)
      /\ SideRight(Other(p), o)
  BY GoodSides DEF Fine, SideRight
<1>2. /\ t.epoch = s.epoch /\ t.r = s.r /\ t.delay = s.delay /\ t.score = s.score /\ t.round = s.round
      /\ t.base = s.base /\ t.phase = s.phase /\ t.again = s.again /\ t.prev = s.prev
  BY DEF SameGame
<1>3. SideRight(p, t)
  <2>1. SideCore(p, t)
    <3>1. IF t.phase = "wait" THEN WaitRight(t) ELSE GameRight(t) /\ t.delay \in Delays
      BY <1>1, <1>2 DEF SideCore, WaitRight, GameRight
    <3> QED BY <1>1, <1>2, <3>1, Nothing DEF SideCore, TheirsRight, PrevRight, Sealed
  <2> QED BY <1>1, <1>2, <2>1 DEF SideRight
<1>4. \A x : Half(x) /\ Pair(p, s, x) => Pair(p, t, x)
  <2>1. Longer(s.mine, t.mine)
    BY <1>1, LongerSame DEF Half
  <2> QED BY <1>1, <1>2, <2>1, PairLonger
<1>5. /\ from2 \cup Range(t.out) \subseteq from \cup Range(s.out)
      /\ in2 \cup Range(o.out) \subseteq in \cup Range(o.out)
  BY Nothing
<1>6. \A ms, ms2 : ms2 \subseteq ms /\ Kept(s, ms) => Kept(t, ms2)
  BY <1>2 DEF Kept, Carried
<1>7. \A ms, ms2 : ms2 \subseteq ms /\ Kept(o, ms) => Kept(o, ms2)
  BY DEF Kept
<1>8. FitAt(p, t, o, in2, from2, dr)
  <2>1. FitAt(p, s, o, in, from, dr) /\ Own(p, s) /\ s.epoch \in Nat
    BY <1>1, FitSides DEF Fine, SideCore
  <2>2. Own(p, t)
    BY <1>2, <2>1 DEF Own, Long, Sealed
  <2> QED BY <1>2, <1>5, <2>1, <2>2, FitSame
<1>9. CASE p = Host
  <2>1. Good(s, o, in, from, dr)
    BY <1>1, <1>9 DEF GoodAt
  <2>2. Kept(t, from2 \cup Range(t.out)) /\ (dr # o.epoch => Kept(o, in2 \cup Range(o.out)))
    BY <1>5, <1>6, <1>7, <2>1 DEF Good
  <2>3. ASSUME NEW x \in from2 \cup Range(t.out), x.type = "snap" /\ x.e = t.epoch /\ o.epoch < t.epoch
        PROVE  x.r = t.r /\ Pair(Host, t, Copy(x))
    <3>0. x \in from \cup Range(s.out)
      BY <1>5, <2>3
    <3>1. x.r = s.r /\ Pair(Host, s, Copy(x)) /\ MsgRight(Guest, x, s.epoch)
      BY <1>2, <2>1, <2>3, <3>0 DEF Good
    <3>2. Half(Copy(x))
      BY <2>3, <3>1, SnapCopy
    <3> QED BY <1>2, <1>4, <1>9, <3>1, <3>2
  <2>4. /\ \A x \in from2 \cup Range(t.out) : MsgRight(Guest, x, t.epoch)
        /\ \A x \in in2 \cup Range(o.out) : MsgRight(Host, x, o.epoch)
    BY <1>2, <1>5, <2>1 DEF Good
  <2>5. o.epoch = t.epoch /\ dr # t.epoch => Pair(Host, t, o)
    BY <1>1, <1>2, <1>4, <1>9, <2>1 DEF Good
  <2>6. Good(t, o, in2, from2, dr)
    BY <1>2, <1>3, <1>9, <2>1, <2>2, <2>3, <2>4, <2>5 DEF Good
  <2> QED BY <1>2, <1>9, <1>8, <2>6 DEF Fine, GoodAt, Ready, Sealed
<1>10. CASE p # Host
  <2>0. p = Guest /\ Other(p) = Host /\ Other(Host) = p /\ Host \in Player
    BY <1>10, TwoSides
  <2>1. Good(o, s, from, in, dr)
    BY <1>1, <1>10 DEF GoodAt
  <2>2. Kept(o, in2 \cup Range(o.out)) /\ (dr # t.epoch => Kept(t, from2 \cup Range(t.out)))
    BY <1>2, <1>5, <1>6, <1>7, <2>1 DEF Good
  <2>3. t.epoch = o.epoch /\ dr # o.epoch => Pair(Host, o, t)
    <3> SUFFICES ASSUME t.epoch = o.epoch, dr # o.epoch PROVE Pair(Host, o, t)
      OBVIOUS
    <3>1. Pair(Host, o, s)
      BY <1>2, <2>1 DEF Good
    <3>2. Pair(p, t, o)
      BY <1>1, <1>4, <2>0, <3>1, PairSwap
    <3> QED BY <2>0, <3>2, PairSwap
  <2>4. /\ \A x \in from2 \cup Range(t.out) : MsgRight(Host, x, t.epoch)
        /\ \A x \in in2 \cup Range(o.out) : MsgRight(Guest, x, o.epoch)
    BY <1>2, <1>5, <2>1 DEF Good
  <2>5. ASSUME NEW x \in in2 \cup Range(o.out), x.type = "snap" /\ x.e = o.epoch /\ t.epoch < o.epoch
        PROVE  x.r = o.r /\ Pair(Host, o, Copy(x))
    BY <1>2, <1>5, <2>1, <2>5 DEF Good
  <2>6. Good(o, t, from2, in2, dr)
    BY <1>2, <1>3, <2>0, <2>1, <2>2, <2>3, <2>4, <2>5 DEF Good
  <2> QED BY <1>2, <1>10, <1>8, <2>6 DEF Fine, GoodAt, Ready, Sealed
<1> QED BY <1>9, <1>10

-----------------------------------------------------------------------------
(* The two sides and the link *)

\* t is s once what it has posted has left.
Emptied(s, t) ==
  /\ DOMAIN t = DOMAIN s /\ SameGame(s, t) /\ t.theirs = s.theirs /\ t.mine = s.mine /\ t.acked = s.acked
  /\ t.queue = s.queue /\ t.check = s.check /\ t.out = <<>>

LEMMA EmptiedIs ==
  ASSUME NEW s, DOMAIN s = DOMAIN NewSession
  PROVE  Emptied(s, [s EXCEPT !.out = <<>>]) /\ (s.out = <<>> => Emptied(s, s))
BY FieldsAre DEF Emptied, SameGame

LEMMA InvFine ==
  ASSUME TrailsInv, NEW p \in Player
  PROVE  /\ Fine(p, side[p], side[Other(p)], Way(p), Way(Other(p)), drifted)
         /\ side[p].out = <<>> /\ side[Other(p)].out = <<>> /\ IsSeq(wire[p]) /\ IsSeq(wire[Other(p)])
         /\ DOMAIN side[p] = DOMAIN NewSession
<1>1. /\ Good(side[Host], side[Guest], Way(Host), Way(Guest), drifted)
      /\ Fit(side[Host], side[Guest], Way(Host), Way(Guest), drifted)
      /\ \A q \in Player : /\ Ready(side[q]) /\ (q # Host => side[q].check = None)
                           /\ side[q].out = <<>> /\ IsSeq(wire[q])
  BY DEF TrailsInv
<1>2. /\ GoodAt(p, side[p], side[Other(p)], Way(p), Way(Other(p)), drifted)
      /\ FitAt(p, side[p], side[Other(p)], Way(p), Way(Other(p)), drifted)
  <2>1. CASE p = Host
    BY <1>1, <2>1, TwoSides DEF GoodAt, FitAt
  <2>2. CASE p # Host
    <3>1. p = Guest /\ Other(p) = Host
      BY <2>2, TwoSides
    <3> QED BY <1>1, <2>2, <3>1 DEF GoodAt, FitAt
  <2> QED BY <2>1, <2>2
<1>3. Fine(p, side[p], side[Other(p)], Way(p), Way(Other(p)), drifted)
  BY <1>1, <1>2 DEF Fine
<1>4. DOMAIN side[p] = DOMAIN NewSession
  BY <1>3, GoodSides DEF Fine, SideRight, SideCore
<1> QED BY <1>1, <1>3, <1>4, TwoSides

LEMMA JoinIs ==
  ASSUME NEW c, IsSeq(c), NEW out, IsSeq(out)
  PROVE  IsSeq(Join(c, out)) /\ Range(Join(c, out)) = Range(c) \cup Range(out)
<1> DEFINE S == Range(c) \cup Range(out)
<1>1. c \in Seq(S) /\ out \in Seq(S)
  <2>1. c \in Seq(Range(c)) /\ out \in Seq(Range(out))
    BY DEF IsSeq
  <2>2. Range(c) \subseteq S /\ Range(out) \subseteq S
    OBVIOUS
  <2> HIDE DEF S
  <2> QED BY <2>1, <2>2
<1>2. Join(c, out) \in Seq(S) /\ Range(Join(c, out)) = S
  BY <1>1, JoinAll
<1> QED BY <1>2 DEF IsSeq

\* A side has done a step, and what it posted is on its way.
LEMMA SideDone ==
  ASSUME TrailsInv, NEW p \in Player, NEW s, NEW t, Emptied(s, t),
         Fine(p, s, side[Other(p)], Way(p), Way(Other(p)), drifted'),
         DOMAIN side' = Player, side'[p] = t, side'[Other(p)] = side[Other(p)],
         DOMAIN wire' = Player, IsSeq(wire'[p]), IsSeq(wire'[Other(p)]), Range(wire'[p]) \subseteq Range(wire[p]),
         Range(wire'[Other(p)]) \subseteq Range(wire[Other(p)]) \cup Range(s.out),
         presses' \in 0 .. MaxTurns, faults' \in 0 .. MaxFaults
  PROVE  TrailsInv'
<1> DEFINE o == side[Other(p)]
           in == Range(wire'[p])
           from == Range(wire'[Other(p)])
<1>1. o.out = <<>> /\ Ready(o) /\ (Other(p) # Host => o.check = None)
  BY TwoSides DEF TrailsInv
<1>2. in \in SUBSET Way(p) /\ from \in SUBSET (Way(Other(p)) \cup Range(s.out))
  BY DEF Way
<1>3. Fine(p, s, o, Way(p), Way(Other(p)), drifted')
  OBVIOUS
<1> HIDE DEF o, in, from
<1>4. Fine(p, t, o, in, from, drifted')
  BY <1>1, <1>2, <1>3, LinkFine DEF Emptied
<1>5. side'[Other(p)] = o /\ Way(p)' = in /\ Way(Other(p))' = from
  BY DEF o, in, from, Way
<1>6. /\ GoodAt(p, side'[p], side'[Other(p)], Way(p)', Way(Other(p))', drifted')
      /\ FitAt(p, side'[p], side'[Other(p)], Way(p)', Way(Other(p))', drifted')
  BY <1>4, <1>5 DEF Fine
<1>7. /\ Good(side'[Host], side'[Guest], Way(Host)', Way(Guest)', drifted')
      /\ Fit(side'[Host], side'[Guest], Way(Host)', Way(Guest)', drifted')
  <2>1. CASE p = Host
    BY <1>6, <2>1, TwoSides DEF GoodAt, FitAt
  <2>2. CASE p # Host
    <3>1. p = Guest /\ Other(p) = Host
      BY <2>2, TwoSides
    <3> QED BY <1>6, <2>2, <3>1 DEF GoodAt, FitAt
  <2> QED BY <2>1, <2>2
<1>8. ASSUME NEW q \in Player
      PROVE  Ready(side'[q]) /\ (q # Host => side'[q].check = None) /\ side'[q].out = <<>> /\ IsSeq(wire'[q])
  <2>1. q = p \/ q = Other(p)
    BY TwoSides
  <2>2. CASE q = p
    BY <1>4, <2>2 DEF Fine, Emptied
  <2>3. CASE q = Other(p)
    BY <1>1, <1>5, <2>3
  <2> QED BY <2>1, <2>2, <2>3
<1> QED BY <1>7, <1>8 DEF TrailsInv

-----------------------------------------------------------------------------
(* Each step of the system *)

LEMMA TickInv ==
  ASSUME TrailsInv, NEW p \in Player, NEW n \in Nat, NEW late, NEW d \in Delays, Tick(p, n, late, d)
  PROVE  TrailsInv'
<1> DEFINE x == side[p]
           o == side[Other(p)]
           s == Ticked(x, p, n, late, d)
           c == Join(wire[Other(p)], s.out)
           t == [s EXCEPT !.out = <<>>]
<1>1. /\ side' = [side EXCEPT ![p] = t] /\ wire' = [wire EXCEPT ![Other(p)] = c]
      /\ UNCHANGED <<presses, faults, drifted>>
  BY DEF Tick, Sends
<1>2. /\ Fine(p, x, o, Way(p), Way(Other(p)), drifted) /\ x.out = <<>> /\ o.out = <<>>
      /\ IsSeq(wire[p]) /\ IsSeq(wire[Other(p)])
  BY InvFine
<1>3. PauseOver(x, p) =>
        x.r < MaxRound /\ (\A m \in Way(p) \cup Way(Other(p)) : m.type \in {"frames", "snap"} => m.r > x.r)
  <2> SUFFICES ASSUME PauseOver(x, p)
               PROVE  x.r < MaxRound /\ (\A m \in Way(p) \cup Way(Other(p)) : m.type \in {"frames", "snap"} => m.r > x.r)
    OBVIOUS
  <2>1. x.r < MaxRound /\ \A q \in Player : \A i \in DOMAIN wire[q] :
           wire[q][i].type \in {"frames", "snap"} => wire[q][i].r > x.r
    BY DEF PauseOver
  <2>2. ASSUME NEW q \in Player, NEW m \in Way(q), m.type \in {"frames", "snap"} PROVE m.r > x.r
    <3>1. PICK i \in DOMAIN wire[q] : m = wire[q][i]
      BY <2>2 DEF Way, Range
    <3> QED BY <2>1, <2>2, <3>1
  <2> QED BY <2>1, <2>2, TwoSides
<1> HIDE DEF x, o
<1>4. Fine(p, s, o, Way(p), Way(Other(p)), drifted)
  BY <1>2, <1>3, TickedFine
<1> HIDE DEF s
<1>5. SideCore(p, s)
  BY <1>4, GoodSides DEF Fine, SideRight
<1>6. DOMAIN s = DOMAIN NewSession /\ IsSeq(s.out)
  BY <1>5 DEF SideCore
<1>7. Emptied(s, t)
  BY <1>6, EmptiedIs
<1>8. IsSeq(c) /\ Range(c) = Range(wire[Other(p)]) \cup Range(s.out)
  BY <1>2, <1>6, JoinIs
<1> HIDE DEF c, t
<1>9. DOMAIN side = Player /\ DOMAIN wire = Player /\ presses \in 0 .. MaxTurns /\ faults \in 0 .. MaxFaults
  BY DEF TrailsInv
<1>10. /\ DOMAIN side' = Player /\ side'[p] = t /\ side'[Other(p)] = side[Other(p)]
       /\ DOMAIN wire' = Player /\ wire'[p] = wire[p] /\ wire'[Other(p)] = c
       /\ presses' = presses /\ faults' = faults /\ drifted' = drifted
  BY <1>1, <1>9, TwoSides
<1>11. Fine(p, s, side[Other(p)], Way(p), Way(Other(p)), drifted')
  BY <1>4, <1>10 DEF o
<1> QED BY <1>2, <1>7, <1>8, <1>9, <1>10, <1>11, SideDone

LEMMA ReceiveInv ==
  ASSUME TrailsInv, NEW p \in Player, NEW i, NEW late, NEW d \in Delays, Receive(p, i, late, d),
         faults' \in 0 .. MaxFaults
  PROVE  TrailsInv'
<1> DEFINE x == side[p]
           o == side[Other(p)]
           m == wire[p][i]
           s == Heard(x, p, m, late, d)
           c == Join(wire[Other(p)], s.out)
           w == RemoveAt(wire[p], i)
           t == [s EXCEPT !.out = <<>>]
<1>1. /\ i \in DOMAIN wire[p]
      /\ side' = [side EXCEPT ![p] = t] /\ wire' = [wire EXCEPT ![p] = w, ![Other(p)] = c]
      /\ drifted' = IF s.r < x.r THEN s.epoch ELSE drifted
      /\ presses' = presses
  <2>1. p # Other(p)
    BY TwoSides
  <2> QED BY <2>1 DEF Receive, Sends
<1>2. /\ Fine(p, x, o, Way(p), Way(Other(p)), drifted) /\ x.out = <<>> /\ o.out = <<>>
      /\ IsSeq(wire[p]) /\ IsSeq(wire[Other(p)])
  BY InvFine
<1>3. i \in 1 .. Len(wire[p]) /\ m \in Way(p)
  BY <1>1, <1>2 DEF Way, Range, IsSeq
<1>4. IsSeq(w) /\ Range(w) \subseteq Range(wire[p])
  BY <1>2, <1>3, RemoveAtIs
<1> HIDE DEF x, o, m
<1>5. Fine(p, s, o, Way(p), Way(Other(p)), drifted')
  <2> DEFINE dr == drifted
             dd == drifted'
  <2>1. dd = IF s.r < x.r THEN s.epoch ELSE dr
    BY <1>1
  <2>2. Fine(p, x, o, Way(p), Way(Other(p)), dr) /\ m \in Way(p) \cup Range(o.out)
    BY <1>2, <1>3
  <2>3. s = Heard(x, p, m, late, d)
    OBVIOUS
  <2> HIDE DEF s, dr, dd
  <2>4. Fine(p, s, o, Way(p), Way(Other(p)), dd)
    BY <2>1, <2>2, <2>3, HeardFine
  <2> QED BY <2>4 DEF dd
<1> HIDE DEF s
<1>6. SideCore(p, s)
  BY <1>5, GoodSides DEF Fine, SideRight
<1>7. DOMAIN s = DOMAIN NewSession /\ IsSeq(s.out)
  BY <1>6 DEF SideCore
<1>8. Emptied(s, t)
  BY <1>7, EmptiedIs
<1>9. IsSeq(c) /\ Range(c) = Range(wire[Other(p)]) \cup Range(s.out)
  BY <1>2, <1>7, JoinIs
<1> HIDE DEF c, t, w
<1>10. DOMAIN side = Player /\ DOMAIN wire = Player /\ presses \in 0 .. MaxTurns
  BY DEF TrailsInv
<1>11. /\ DOMAIN side' = Player /\ side'[p] = t /\ side'[Other(p)] = side[Other(p)]
       /\ DOMAIN wire' = Player /\ wire'[p] = w /\ wire'[Other(p)] = c
       /\ presses' = presses
  BY <1>1, <1>10, TwoSides
<1>12. Fine(p, s, side[Other(p)], Way(p), Way(Other(p)), drifted')
  BY <1>5 DEF o
<1> QED BY <1>4, <1>8, <1>9, <1>10, <1>11, <1>12, SideDone

LEMMA OverStill ==
  ASSUME TrailsInv, NEW p \in Player, NEW t, Fine(p, t, side[Other(p)], Way(p), Way(Other(p)), drifted),
         t.out = <<>>, side' = [side EXCEPT ![p] = t], wire' = wire, drifted' = drifted,
         presses' \in 0 .. MaxTurns, faults' = faults
  PROVE  TrailsInv'
<1>1. SideCore(p, t)
  BY GoodSides DEF Fine, SideRight
<1>2. Emptied(t, t)
  BY <1>1, EmptiedIs DEF SideCore
<1>3. /\ DOMAIN side = Player /\ DOMAIN wire = Player /\ faults \in 0 .. MaxFaults
      /\ IsSeq(wire[p]) /\ IsSeq(wire[Other(p)])
  BY InvFine DEF TrailsInv
<1>4. DOMAIN side' = Player /\ side'[p] = t /\ side'[Other(p)] = side[Other(p)]
  BY <1>3, TwoSides
<1>5. Fine(p, t, side[Other(p)], Way(p), Way(Other(p)), drifted')
  OBVIOUS
<1> QED BY <1>2, <1>3, <1>4, <1>5, SideDone

LEMMA LoseInv ==
  ASSUME TrailsInv, NEW p \in Player, NEW i, Lose(p, i)
  PROVE  TrailsInv'
<1> DEFINE w == RemoveAt(wire[p], i)
           s == side[p]
<1>1. /\ i \in DOMAIN wire[p] /\ faults < MaxFaults /\ faults' = faults + 1
      /\ wire' = [wire EXCEPT ![p] = w] /\ side' = side /\ presses' = presses /\ drifted' = drifted
  BY DEF Lose
<1>2. /\ Fine(p, s, side[Other(p)], Way(p), Way(Other(p)), drifted') /\ s.out = <<>>
      /\ IsSeq(wire[p]) /\ IsSeq(wire[Other(p)]) /\ DOMAIN s = DOMAIN NewSession
  BY <1>1, InvFine
<1>3. IsSeq(w) /\ Range(w) \subseteq Range(wire[p])
  <2>1. i \in 1 .. Len(wire[p])
    BY <1>1, <1>2 DEF IsSeq
  <2> QED BY <1>2, <2>1, RemoveAtIs
<1>4. Emptied(s, s)
  BY <1>2, EmptiedIs
<1> HIDE DEF w
<1>5. /\ DOMAIN side = Player /\ DOMAIN wire = Player /\ presses \in 0 .. MaxTurns
      /\ faults \in 0 .. MaxFaults /\ MaxFaults \in Nat
  BY ConstantsAre DEF TrailsInv
<1>6. /\ DOMAIN side' = Player /\ side'[p] = s /\ side'[Other(p)] = side[Other(p)]
      /\ DOMAIN wire' = Player /\ wire'[p] = w /\ wire'[Other(p)] = wire[Other(p)]
  BY <1>1, <1>5, TwoSides
<1>7. presses' \in 0 .. MaxTurns /\ faults' \in 0 .. MaxFaults
  BY <1>1, <1>5
<1>8. Range(wire'[Other(p)]) \subseteq Range(wire[Other(p)]) \cup Range(s.out)
  BY <1>6
<1> HIDE DEF s
<1> QED BY <1>2, <1>3, <1>4, <1>6, <1>7, <1>8, SideDone

\* From a frame the host never sent on, the guest counts as made to differ.
LEMMA DriftInv ==
  ASSUME TrailsInv, Drift
  PROVE  TrailsInv'
<1> DEFINE s == side[Guest]
           h == side[Host]
           f == (s.round.cycles[Host].dir + 1) % 4
           n == TheirNext(s)
           theirs == [k \in {n} \cup DOMAIN s.theirs |-> IF k = n THEN f ELSE s.theirs[k]]
           t == [s EXCEPT !.theirs = theirs]
<1>1. /\ faults < MaxFaults /\ s.phase = "run" /\ s.epoch = h.epoch /\ side' = [side EXCEPT ![Guest] = t]
      /\ faults' = faults + 1 /\ drifted' = s.epoch /\ wire' = wire /\ presses' = presses
  BY DEF Drift
<1>2. /\ Guest \in Player /\ Host \in Player /\ Host # Guest /\ Other(Guest) = Host /\ Other(Host) = Guest
  BY TwoSides
<1>3. /\ Fine(Guest, s, h, Way(Guest), Way(Host), drifted) /\ s.out = <<>> /\ h.out = <<>>
      /\ IsSeq(wire[Guest]) /\ IsSeq(wire[Host]) /\ DOMAIN s = DOMAIN NewSession
  BY <1>2, InvFine
<1> HIDE DEF h
<1>4. SideRight(Guest, s) /\ SideCore(Guest, s) /\ GoodAt(Guest, s, h, Way(Guest), Way(Host), drifted)
  BY <1>2, <1>3, GoodSides DEF Fine, SideRight
<1>5. /\ TheirsRight(s) /\ s.round.tick \in Nat /\ RoundRight(s.round) /\ s.epoch \in Nat
  BY <1>2, <1>4, SideHalf DEF SideCore, Half
<1>6. f \in Frame
  <2>1. s.round.cycles[Host].dir \in Dir
    BY <1>2, <1>5 DEF RoundRight, RoundType
  <2>2. s.round.cycles[Host].dir \in Int
    BY <2>1 DEF Dir
  <2> QED BY <2>2 DEF Frame, Dir
<1> HIDE DEF f
<1>7. n \in Nat
  BY <1>5, TheirNextIs
<1>8. theirs = [k \in {n} \cup DOMAIN s.theirs |-> IF k = n THEN f ELSE s.theirs[k]]
  OBVIOUS
<1> HIDE DEF n, theirs, s
<1>9. /\ DOMAIN t = DOMAIN NewSession /\ t.acked = s.acked /\ t.theirs = theirs
      /\ t.epoch = s.epoch /\ t.r = s.r /\ t.delay = s.delay /\ t.score = s.score /\ t.round = s.round
      /\ t.base = s.base /\ t.phase = s.phase /\ t.again = s.again /\ t.mine = s.mine
      /\ t.queue = s.queue /\ t.prev = s.prev /\ t.out = s.out /\ t.check = s.check
  BY <1>3, FieldsAre
<1> HIDE DEF t
<1>10. TheirsRight(t)
  <2>1. DOMAIN s.theirs \subseteq Nat /\ IsFiniteSet(DOMAIN s.theirs) /\ Range(s.theirs) \subseteq Frame
    BY <1>5 DEF TheirsRight
  <2>2. IsFiniteSet({n} \cup DOMAIN s.theirs)
    BY <2>1, FS_Singleton, FS_Union
  <2>3. DOMAIN theirs = {n} \cup DOMAIN s.theirs
    BY <1>8
  <2>4. \A k \in DOMAIN theirs : theirs[k] \in Frame
    BY <1>6, <1>8, <2>1 DEF Range
  <2>5. Range(theirs) \subseteq Frame
    BY <2>4 DEF Range
  <2>6. DOMAIN theirs \subseteq Nat
    BY <1>7, <2>1, <2>3
  <2> QED BY <1>9, <2>2, <2>3, <2>5, <2>6 DEF TheirsRight
<1>11. SideRight(Guest, t)
  <2>1. SideCore(Guest, t)
    <3>1. GameRight(t) /\ t.delay \in Delays /\ t.phase # "wait"
      BY <1>1, <1>4, <1>9 DEF SideCore, GameRight
    <3> QED BY <1>2, <1>4, <1>9, <1>10, <3>1 DEF SideCore, PrevRight, Sealed
  <2> QED BY <1>4, <1>9, <2>1 DEF SideRight
<1>12. Good(h, t, Way(Host), Way(Guest), t.epoch)
  <2>1. Good(h, s, Way(Host), Way(Guest), drifted)
    BY <1>2, <1>4 DEF GoodAt
  <2>2. t.epoch = h.epoch /\ t.epoch = s.epoch /\ t.out = s.out
    BY <1>1, <1>9
  <2> QED BY <1>5, <1>11, <2>1, <2>2 DEF Good
<1>13. Fine(Guest, t, h, Way(Guest), Way(Host), drifted')
  <2>1. drifted' = t.epoch
    BY <1>1, <1>9
  <2>2. Fit(h, s, Way(Host), Way(Guest), drifted)
    BY <1>2, <1>3 DEF Fine, FitAt
  <2>3. t.epoch = h.epoch /\ t.out = s.out /\ t.epoch # -1 /\ ~(t.epoch < h.epoch)
    BY <1>1, <1>5, <1>9
  <2>4. Own(Host, h) /\ Own(Guest, t) /\ Claims(h, Way(Guest) \cup Range(h.out))
    BY <1>9, <2>2 DEF Fit, Own, Long, Sealed
  <2>5. \A m \in Way(Guest) \cup Range(h.out) : m.type = "snap" => Len(m.frames[Host]) <= Third
    BY <2>2 DEF Fit
  <2>6. Fit(h, t, Way(Host), Way(Guest), t.epoch)
    BY <2>3, <2>4, <2>5 DEF Fit
  <2> QED BY <1>2, <1>3, <1>9, <1>12, <2>1, <2>6 DEF Fine, GoodAt, FitAt, Ready, Sealed
<1>14. Emptied(t, t)
  BY <1>3, <1>9, EmptiedIs
<1>15. /\ DOMAIN side = Player /\ DOMAIN wire = Player /\ presses \in 0 .. MaxTurns
       /\ faults \in 0 .. MaxFaults /\ MaxFaults \in Nat
  BY ConstantsAre DEF TrailsInv
<1>16. /\ DOMAIN side' = Player /\ side'[Guest] = t /\ side'[Other(Guest)] = side[Other(Guest)]
       /\ DOMAIN wire' = Player /\ wire' = wire /\ presses' \in 0 .. MaxTurns /\ faults' \in 0 .. MaxFaults
  BY <1>1, <1>2, <1>15
<1>17. Fine(Guest, t, side[Other(Guest)], Way(Guest), Way(Other(Guest)), drifted')
  BY <1>2, <1>13 DEF h
<1> QED BY <1>2, <1>3, <1>14, <1>16, <1>17, SideDone

LEMMA PressInv ==
  ASSUME TrailsInv, NEW p \in Player, NEW dir \in Dir, PressTurn(p, dir)
  PROVE  TrailsInv'
<1> DEFINE s == side[p]
           queue == Append(s.queue, dir)
           t == [s EXCEPT !.queue = queue]
<1>1. /\ presses < MaxTurns /\ Len(s.queue) < QUEUE_MAX /\ side' = [side EXCEPT ![p] = t]
      /\ presses' = presses + 1 /\ wire' = wire /\ faults' = faults /\ drifted' = drifted
  BY DEF PressTurn
<1>2. /\ Fine(p, s, side[Other(p)], Way(p), Way(Other(p)), drifted) /\ s.out = <<>> /\ DOMAIN s = DOMAIN NewSession
  BY InvFine
<1> HIDE DEF s
<1>3. SideCore(p, s)
  BY <1>2, GoodSides DEF Fine, SideRight
<1>4. s.queue \in Seq(Dir) /\ s.mine \in Seq(Frame) /\ s.acked \in Int /\ s.acked <= Sealed(s) /\ QUEUE_MAX \in Nat
  BY <1>3, ConstantsAre DEF SideCore
<1>5. queue \in Seq(Dir) /\ Len(queue) <= QUEUE_MAX
  BY <1>1, <1>4
<1> HIDE DEF queue
<1>6. /\ DOMAIN t = DOMAIN s /\ SameGame(s, t) /\ t.theirs = s.theirs /\ t.out = s.out /\ t.mine = s.mine
      /\ t.acked = s.acked /\ t.queue = queue /\ t.check = s.check
  BY <1>2, FieldsAre DEF SameGame
<1> HIDE DEF t
<1>7. Quiet(s, t)
  <2>1. Longer(s.mine, t.mine)
    BY <1>4, <1>6, LongerSame
  <2> QED BY <1>4, <1>5, <1>6, <2>1 DEF Quiet, Sealed
<1>8. Fine(p, t, side[Other(p)], Way(p), Way(Other(p)), drifted) /\ t.out = <<>>
  BY <1>2, <1>6, <1>7, QuietFine
<1>9. presses' \in 0 .. MaxTurns
  BY <1>1, ConstantsAre DEF TrailsInv
<1> QED BY <1>1, <1>8, <1>9, OverStill

LEMMA RematchInv ==
  ASSUME TrailsInv, NEW p \in Player, NEW d \in Delays, Rematch(p, d)
  PROVE  TrailsInv'
<1> DEFINE x == side[p]
           o == side[Other(p)]
           again == [x.again EXCEPT !.mine = TRUE]
           y == [x EXCEPT !.again = again]
           m == [type |-> "again", e |-> x.epoch]
           s == IF p = Host /\ x.again.theirs THEN Start(x, d) ELSE Post(y, m)
           c == Join(wire[Other(p)], s.out)
           t == [s EXCEPT !.out = <<>>]
<1>1. /\ x.phase = "over" /\ x.r < MaxRound
      /\ side' = [side EXCEPT ![p] = t] /\ wire' = [wire EXCEPT ![Other(p)] = c]
      /\ UNCHANGED <<presses, faults, drifted>>
  BY DEF Rematch, Sends
<1>2. /\ Fine(p, x, o, Way(p), Way(Other(p)), drifted) /\ x.out = <<>> /\ o.out = <<>>
      /\ IsSeq(wire[p]) /\ IsSeq(wire[Other(p)])
  BY InvFine
<1> HIDE DEF x, o
<1>3. SideCore(p, x) /\ GoodAt(p, x, o, Way(p), Way(Other(p)), drifted)
  BY <1>2, GoodSides DEF Fine, SideRight
<1>4. Fine(p, s, o, Way(p), Way(Other(p)), drifted)
  <2>1. CASE p = Host /\ x.again.theirs
    <3>1. s = Start(x, d)
      BY <2>1
    <3> HIDE DEF s
    <3>2. GoodAt(Host, x, o, Way(p), Way(Other(p)), drifted)
      BY <1>3, <2>1
    <3>3. GoodAt(Host, s, o, Way(p), Way(Other(p)), drifted) /\ Ready(s)
      BY ONLY <1>1, <3>1, <3>2, d \in Delays, StartGood
    <3>4. FitAt(Host, s, o, Way(p), Way(Other(p)), drifted)
      <4>1. FitAt(Host, x, o, Way(p), Way(Other(p)), drifted)
        BY <1>2, <2>1 DEF Fine
      <4> QED BY ONLY <1>1, <3>1, <3>2, <4>1, d \in Delays, StartFit
    <3> QED BY <2>1, <3>3, <3>4 DEF Fine
  <2>2. CASE ~(p = Host /\ x.again.theirs)
    <3>1. s = Post(y, m)
      BY <2>2
    <3>2. DOMAIN again = {"mine", "theirs"}
      BY <1>3 DEF SideCore
    <3> HIDE DEF again, s
    <3>3. Fine(p, y, o, Way(p), Way(Other(p)), drifted) /\ y.epoch = x.epoch
      BY <1>1, <1>2, <3>2, AskedFine
    <3> HIDE DEF y
    <3>4. m.e = y.epoch /\ m.type \notin {"frames", "snap"}
      BY <3>3
    <3> HIDE DEF m
    <3> QED BY <3>1, <3>3, <3>4, TellFine
  <2> QED BY <2>1, <2>2
<1> HIDE DEF s
<1>5. SideCore(p, s)
  BY <1>4, GoodSides DEF Fine, SideRight
<1>6. DOMAIN s = DOMAIN NewSession /\ IsSeq(s.out)
  BY <1>5 DEF SideCore
<1>7. Emptied(s, t)
  BY <1>6, EmptiedIs
<1>8. IsSeq(c) /\ Range(c) = Range(wire[Other(p)]) \cup Range(s.out)
  BY <1>2, <1>6, JoinIs
<1> HIDE DEF c, t
<1>9. DOMAIN side = Player /\ DOMAIN wire = Player /\ presses \in 0 .. MaxTurns /\ faults \in 0 .. MaxFaults
  BY DEF TrailsInv
<1>10. /\ DOMAIN side' = Player /\ side'[p] = t /\ side'[Other(p)] = side[Other(p)]
       /\ DOMAIN wire' = Player /\ wire'[p] = wire[p] /\ wire'[Other(p)] = c
       /\ presses' = presses /\ faults' = faults /\ drifted' = drifted
  BY <1>1, <1>9, TwoSides
<1>11. Fine(p, s, side[Other(p)], Way(p), Way(Other(p)), drifted')
  BY <1>4, <1>10 DEF o
<1> QED BY <1>2, <1>7, <1>8, <1>9, <1>10, <1>11, SideDone

-----------------------------------------------------------------------------
(* The invariant *)

LEMMA NewRight ==
  ASSUME NEW p \in Player
  PROVE  SideRight(p, NewSession) /\ Ready(NewSession) /\ NewSession.check = None
<1> DEFINE s == NewSession
<1>1. /\ s.epoch = 0 /\ s.r = -1 /\ s.delay = 2 /\ s.score = <<0, 0>> /\ s.round = NewRound /\ s.base = None
      /\ s.phase = "wait" /\ s.again = [mine |-> FALSE, theirs |-> FALSE] /\ s.mine = <<>> /\ s.theirs = <<>>
      /\ s.acked = -1 /\ s.queue = <<>> /\ s.check = None /\ s.prev = None /\ s.out = <<>>
      /\ DOMAIN s = DOMAIN NewSession
  BY DEF NewSession
<1> HIDE DEF s
<1>2. TheirsRight(s)
  BY <1>1, Nothing, FS_EmptySet DEF TheirsRight
<1>3. WaitRight(s)
  BY <1>1, Nothing DEF WaitRight
<1>4. DOMAIN s.again = {"mine", "theirs"} /\ ~s.again.mine
  BY <1>1
<1>5. s.acked \in Int /\ s.acked <= Sealed(s)
  BY <1>1, Nothing DEF Sealed
<1>6. s.queue \in Seq(Dir) /\ Len(s.queue) <= QUEUE_MAX /\ s.mine \in Seq(Frame)
  BY <1>1, ConstantsAre
<1>7. IsSeq(s.out) /\ PrevRight(s) /\ s.epoch \in Nat /\ s.delay \in Delays \cup {2}
  BY <1>1, Nothing DEF PrevRight
<1>8. SideCore(p, s)
  BY <1>1, <1>2, <1>3, <1>4, <1>5, <1>6, <1>7 DEF SideCore
<1> QED BY <1>1, <1>8 DEF SideRight, Ready, s

LEMMA InitInv == TrailsInit => TrailsInv
<1> SUFFICES ASSUME TrailsInit PROVE TrailsInv
  OBVIOUS
<1> DEFINE s == NewSession
<1>1. /\ side[Host] = s /\ side[Guest] = s /\ wire[Host] = <<>> /\ wire[Guest] = <<>> /\ drifted = -1
      /\ presses = 0 /\ faults = 0 /\ DOMAIN side = Player /\ DOMAIN wire = Player
      /\ \A p \in Player : side[p] = s /\ wire[p] = <<>>
  BY TwoSides DEF TrailsInit
<1>2. Way(Host) = {} /\ Way(Guest) = {}
  BY <1>1, Nothing DEF Way
<1>3. /\ SideRight(Host, s) /\ SideRight(Guest, s) /\ Ready(s) /\ s.check = None
  BY NewRight, TwoSides
<1>4. s.epoch = 0 /\ s.out = <<>> /\ s.prev = None /\ s.theirs = <<>>
  BY DEF NewSession
<1> HIDE DEF s
<1>5. Pair(Host, s, s)
  <2>1. RoundRight(s.round)
    BY <1>3, TwoSides, SideHalf DEF SideRight, Half
  <2>2. Abreast(Host, Now(s), Now(s))
    <3>1. RoundRight(Now(s).round)
      BY <2>1 DEF Now
    <3> QED BY <3>1, SameRound, TwoSides
  <2>3. HeardOf(s, s.mine)
    BY <1>4, Nothing DEF HeardOf
  <2> QED BY <2>2, <2>3 DEF Pair, Level
<1>6. {} \cup Range(s.out) = {}
  BY <1>4, Nothing
<1>7. Kept(s, {})
  BY <1>4 DEF Kept
<1>8. Good(s, s, {}, {}, -1)
  BY <1>3, <1>4, <1>5, <1>6, <1>7 DEF Good
<1>9. Fit(s, s, {}, {}, -1)
  <2>1. /\ s.round = NewRound /\ s.mine \in Seq(Frame) /\ Len(s.mine) = 0 /\ DOMAIN s.theirs = {}
        /\ s.acked = -1 /\ s.r = -1
    BY Nothing DEF s, NewSession
  <2>2. Own(Host, s) /\ Own(Guest, s) /\ Low(s)
    BY <2>1, FreshFit
  <2>3. Acks(s, s)
    BY <2>1, NewRoundIs DEF Acks, Has
  <2>4. Claims(s, {}) /\ Behind(s, s)
    BY <2>1 DEF Claims, Behind
  <2> QED BY <1>6, <2>2, <2>3, <2>4 DEF Fit
<1> QED BY <1>1, <1>2, <1>3, <1>4, <1>8, <1>9, Nothing, ConstantsAre DEF TrailsInv

LEMMA NextInv ==
  ASSUME TrailsInv, [TrailsNext]_trailsVars
  PROVE  TrailsInv'
<1>1. CASE UNCHANGED trailsVars
  BY <1>1 DEF trailsVars, TrailsInv, Way
<1>2. ASSUME NEW p \in Player, NEW n \in 0 .. CATCH_UP, NEW late \in BOOLEAN, NEW d \in Delays, Tick(p, n, late, d)
      PROVE  TrailsInv'
  <2>1. n \in Nat
    BY TrailsAssumption
  <2> QED BY <1>2, <2>1, TickInv
<1>3. ASSUME NEW p \in Player, NEW d \in Delays, Deliver(p, d) PROVE TrailsInv'
  <2>1. Receive(p, 1, SnapLost, d) /\ faults' \in 0 .. MaxFaults
    BY <1>3 DEF Deliver, TrailsInv
  <2> QED BY <1>3, <2>1, ReceiveInv
<1>4. ASSUME NEW p \in Player, NEW d \in Delays, NEW i, Overtake(p, i, d) PROVE TrailsInv'
  <2>1. Receive(p, i, SnapLost, d) /\ faults' \in 0 .. MaxFaults
    BY <1>4, ConstantsAre DEF Overtake, TrailsInv
  <2> QED BY <1>4, <2>1, ReceiveInv
<1>5. ASSUME NEW p \in Player, NEW i, Lose(p, i) PROVE TrailsInv'
  BY <1>5, LoseInv
<1>6. CASE Drift
  BY <1>6, DriftInv
<1>7. ASSUME NEW key \in Keys, PressTurn(key[1], key[2]) PROVE TrailsInv'
  <2>1. key[1] \in Player /\ key[2] \in Dir
    BY TrailsAssumption
  <2> QED BY <1>7, <2>1, PressInv
<1>8. ASSUME NEW p \in Player, NEW d \in Delays, Rematch(p, d) PROVE TrailsInv'
  BY <1>8, RematchInv
<1>9. CASE TrailsNext
  BY <1>2, <1>3, <1>4, <1>5, <1>6, <1>7, <1>8, <1>9 DEF TrailsNext
<1> QED BY <1>1, <1>9

(***************************************************************************)
(* Whatever is lost or overtaken, and whoever is made to differ: what is   *)
(* on its way to a side was fixed by the other, a snapshot brings the host *)
(* and the guest to the same place, and while nothing has made the guest   *)
(* differ both are in one round, the one behind getting on to where the    *)
(* other is by the frames both have fixed (games/trails/session.rs).       *)
(***************************************************************************)
THEOREM TrailsInvariant == TrailsSpec => []TrailsInv
<1>1. TrailsInv /\ [TrailsNext]_trailsVars => TrailsInv'
  BY NextInv
<1> QED BY <1>1, InitInv, PTL DEF TrailsSpec

LEMMA TypesHold == TrailsInv => TrailsTypeOK
<1> SUFFICES ASSUME TrailsInv PROVE TrailsTypeOK
  OBVIOUS
<1>1. ASSUME NEW p \in Player
      PROVE  LET s == side[p]
             IN  /\ s.epoch \in Nat /\ s.r \in -1 .. MaxRound /\ s.phase \in Phases /\ s.delay \in Delays \cup {2}
                 /\ s.round.result \in Results /\ s.round.tick \in Nat
                 /\ s.mine \in Seq(Frame) /\ Range(s.theirs) \subseteq Frame /\ DOMAIN s.theirs \subseteq Nat
                 /\ Len(s.queue) <= QUEUE_MAX /\ s.out = <<>>
                 /\ s.acked <= Sealed(s)
                 /\ s.phase \in {"point", "over"} <=> s.round.result # Going
                 /\ s.phase = "over" <=> s.phase # "wait" /\ MatchWon(s.score)
  <2> DEFINE s == side[p]
  <2>1. Fine(p, s, side[Other(p)], Way(p), Way(Other(p)), drifted) /\ s.out = <<>>
    BY InvFine
  <2> HIDE DEF s
  <2>2. SideCore(p, s)
    BY <2>1, GoodSides DEF Fine, SideRight
  <2>3. /\ s.epoch \in Nat /\ s.r \in Int /\ -1 <= s.r /\ s.r <= MaxRound /\ RoundRight(s.round)
        /\ s.round.tick \in Nat /\ MaxRound \in Nat
    BY <2>2, SideHalf, ConstantsAre DEF Half
  <2>4. s.round.result \in Results
    BY <2>3 DEF RoundRight, RoundType
  <2>5. /\ s.mine \in Seq(Frame) /\ Range(s.theirs) \subseteq Frame /\ DOMAIN s.theirs \subseteq Nat
        /\ Len(s.queue) <= QUEUE_MAX /\ s.acked <= Sealed(s) /\ s.delay \in Delays \cup {2}
    BY <2>2 DEF SideCore, TheirsRight
  <2>6. /\ s.phase \in Phases
        /\ s.phase \in {"point", "over"} <=> s.round.result # Going
        /\ s.phase = "over" <=> s.phase # "wait" /\ MatchWon(s.score)
    <3>1. CASE s.phase = "wait"
      <4>1. s.round = NewRound
        BY <2>2, <3>1 DEF SideCore, WaitRight
      <4> QED BY <3>1, <4>1, NewRoundIs DEF Phases
    <3>2. CASE s.phase # "wait"
      BY <2>2, <3>2 DEF SideCore, GameRight, Phases
    <3> QED BY <3>1, <3>2
  <2>7. s.r \in -1 .. MaxRound
    BY <2>3
  <2> QED BY <2>1, <2>3, <2>4, <2>5, <2>6, <2>7 DEF s
<1>2. drifted \in -1 .. side[Host].epoch
  <2> DEFINE h == side[Host]
             g == side[Guest]
  <2>1. Good(h, g, Way(Host), Way(Guest), drifted)
    BY DEF TrailsInv
  <2> HIDE DEF h, g
  <2>2. h.epoch \in Nat /\ g.epoch \in Nat
    BY <2>1 DEF Good, SideRight, SideCore
  <2>3. drifted \in -1 .. h.epoch
    BY <2>1, <2>2 DEF Good
  <2> QED BY <2>3 DEF h
<1>3. presses \in 0 .. MaxTurns /\ faults \in 0 .. MaxFaults
  BY DEF TrailsInv
<1> QED BY <1>1, <1>2, <1>3 DEF TrailsTypeOK

-----------------------------------------------------------------------------
(* In lockstep *)

LEMMA PrefixesAre ==
  ASSUME NEW S, NEW x \in Seq(S), NEW y \in Seq(S), NEW n \in Nat, n <= Len(x), n <= Len(y),
         \A i \in 1 .. n : x[i] = y[i]
  PROVE  SubSeq(x, 1, n) = SubSeq(y, 1, n)
<1> DEFINE a == SubSeq(x, 1, n)
           b == SubSeq(y, 1, n)
<1>1. a \in Seq(S) /\ Len(a) = n /\ \A i \in 1 .. n : a[i] = x[i]
  OBVIOUS
<1>2. b \in Seq(S) /\ Len(b) = n /\ \A i \in 1 .. n : b[i] = y[i]
  OBVIOUS
<1> HIDE DEF a, b
<1>3. a = b
  BY <1>1, <1>2
<1> QED BY <1>3 DEF a, b

\* Where the one behind has got to, both have the same hash.
LEMMA SameHash ==
  ASSUME NEW p \in Player, NEW a, NEW b, a.base = b.base, Onward(p, a, b),
         RoundRight(a.round), RoundRight(b.round)
  PROVE  /\ b.round.tick <= a.round.tick
         /\ HashOf(a.base, a.round, b.round.tick) = HashOf(b.base, b.round, b.round.tick)
         /\ a.round.tick = b.round.tick => a.round = b.round
<1>1. PICK f : Through(f, p, a, b)
  BY DEF Onward
<1> DEFINE x == a.round
           y == b.round
           t == y.tick
<1>2. t <= x.tick /\ f[t] = y /\ f[x.tick] = x
  BY <1>1 DEF Through
<1>3. \A k \in t .. x.tick : RoundRight(f[k]) /\ Begins(f[k], x)
  BY <1>1 DEF Through
<1>4. \A k \in t .. x.tick - 1 : f[k].result = Going
  BY <1>1 DEF Through
<1> HIDE DEF x, y
<1>5. CASE x.tick = t
  BY <1>2, <1>5 DEF x, y
<1>6. CASE x.tick # t
  <2>1. RoundRight(x) /\ RoundRight(y) /\ x.tick \in Nat /\ t \in Nat
    BY DEF x, y, RoundRight, RoundType
  <2>2. t \in t .. x.tick - 1 /\ t \in t .. x.tick
    BY <1>2, <1>6, <2>1
  <2>3. y.result = Going /\ Begins(y, x)
    BY <1>2, <1>3, <1>4, <2>2
  <2>4. ASSUME NEW q \in Player
        PROVE  SubSeq(x.cycles[q].path, 1, Min({t + 1, Len(x.cycles[q].path)}))
                 = SubSeq(y.cycles[q].path, 1, Min({t + 1, Len(y.cycles[q].path)}))
    <3> DEFINE u == x.cycles[q].path
               v == y.cycles[q].path
    <3>1. u \in Seq(Cell) /\ v \in Seq(Cell)
      BY <2>1 DEF RoundRight, RoundType
    <3>2. Len(v) = t + 1 /\ Len(v) <= Len(u) /\ \A i \in 1 .. Len(v) : u[i] = v[i]
      BY <2>1, <2>3 DEF RoundRight, Begins
    <3> HIDE DEF u, v
    <3>3. t + 1 \in Int /\ Len(u) \in Int /\ Len(v) \in Int /\ t + 1 \in Nat
      BY <2>1, <3>1
    <3>4. Min({t + 1, Len(u)}) = t + 1 /\ Min({t + 1, Len(v)}) = t + 1
      BY <3>2, <3>3, MinTwo
    <3>5. SubSeq(u, 1, t + 1) = SubSeq(v, 1, t + 1)
      <4> DEFINE n == t + 1
      <4>1. n \in Nat /\ n <= Len(u) /\ n <= Len(v) /\ \A i \in 1 .. n : u[i] = v[i]
        BY <3>2, <3>3
      <4> HIDE DEF n
      <4>2. SubSeq(u, 1, n) = SubSeq(v, 1, n)
        BY <3>1, <4>1, PrefixesAre
      <4> QED BY <4>2 DEF n
    <3>6. SubSeq(u, 1, Min({t + 1, Len(u)})) = SubSeq(v, 1, Min({t + 1, Len(v)}))
      BY <3>4, <3>5
    <3> QED BY <3>6 DEF u, v
  <2>5. HashOf(a.base, x, t) = HashOf(b.base, y, t)
    BY <1>6, <2>3, <2>4 DEF HashOf
  <2> QED BY <1>2, <1>6, <2>5 DEF x, y
<1> QED BY <1>5, <1>6

\* Both sides of the game while nothing has made the guest differ.
LEMMA PairIs ==
  ASSUME TrailsInv, Together
  PROVE  /\ Pair(Host, side[Host], side[Guest])
         /\ \A p \in Player : SideCore(p, side[p]) /\ Half(side[p]) /\ side[p].r \in Int
<1>1. Good(side[Host], side[Guest], Way(Host), Way(Guest), drifted)
  BY DEF TrailsInv
<1>2. Pair(Host, side[Host], side[Guest])
  BY <1>1 DEF Good, Together
<1>3. ASSUME NEW p \in Player PROVE SideCore(p, side[p]) /\ Half(side[p]) /\ side[p].r \in Int
  <2>1. SideCore(p, side[p])
    BY <1>1, TwoSides DEF Good, SideRight
  <2> QED BY <2>1, SideHalf
<1> QED BY <1>2, <1>3

LEMMA SameScore ==
  ASSUME NEW p, NEW s, NEW q, NEW o, SideCore(p, s), SideCore(q, o), s.r = o.r, s.base = o.base, s.round = o.round
  PROVE  s.score = o.score
<1>1. CASE s.phase = "wait"
  <2>1. s.r = -1 /\ s.score = <<0, 0>>
    BY <1>1 DEF SideCore, WaitRight
  <2>2. o.phase = "wait"
    <3>1. o.phase # "wait" => o.r \in 0 .. MaxRound
      BY DEF SideCore, GameRight
    <3> QED BY <2>1, <3>1, ConstantsAre
  <2> QED BY <2>1, <2>2 DEF SideCore, WaitRight
<1>2. CASE s.phase # "wait"
  <2>1. s.r \in 0 .. MaxRound /\ MaxRound \in Nat
    BY <1>2, ConstantsAre DEF SideCore, GameRight
  <2>2. o.phase # "wait"
    BY <2>1 DEF SideCore, WaitRight
  <2>3. PICK x \in [Player -> Nat] : s.base = <<s.r, x>> /\ s.score = ScoreRound(x, s.round.result)
    BY <1>2 DEF SideCore, GameRight
  <2>4. PICK y \in [Player -> Nat] : o.base = <<o.r, y>> /\ o.score = ScoreRound(y, o.round.result)
    BY <2>2 DEF SideCore, GameRight
  <2>5. x = y
    <3>1. <<s.r, x>> = <<o.r, y>>
      BY <2>3, <2>4
    <3>2. <<s.r, x>>[2] = x /\ <<o.r, y>>[2] = y
      OBVIOUS
    <3> QED BY ONLY <3>1, <3>2
  <2> QED BY <2>3, <2>4, <2>5
<1> QED BY <1>1, <1>2

LEMMA StepHolds == TrailsInv => InStep
<1> SUFFICES ASSUME TrailsInv, Together
             PROVE  LET h == side[Host]
                        g == side[Guest]
                        t == Min({h.round.tick, g.round.tick})
                    IN  /\ g.r - h.r \in -1 .. 1
                        /\ g.r = h.r => HashAt(h, t) = HashAt(g, t)
                        /\ g.r = h.r /\ g.round.tick = h.round.tick => g.round = h.round /\ g.score = h.score
  BY DEF InStep
<1> DEFINE h == side[Host]
           g == side[Guest]
           t == Min({h.round.tick, g.round.tick})
<1>1. /\ Pair(Host, h, g) /\ SideCore(Host, h) /\ SideCore(Guest, g) /\ Half(h) /\ Half(g)
      /\ h.r \in Int /\ g.r \in Int
  BY PairIs, TwoSides
<1> HIDE DEF h, g
<1>2. /\ h.round.tick \in Nat /\ g.round.tick \in Nat /\ RoundRight(h.round) /\ RoundRight(g.round)
  BY <1>1 DEF Half, RoundRight, RoundType
<1>3. t = IF h.round.tick <= g.round.tick THEN h.round.tick ELSE g.round.tick
  BY <1>2, MinTwo
<1> HIDE DEF t
<1>4. g.r - h.r \in -1 .. 1
  BY <1>1 DEF Pair, Level, AheadOf
<1>5. ASSUME g.r = h.r
      PROVE  /\ HashAt(h, t) = HashAt(g, t)
             /\ g.round.tick = h.round.tick => g.round = h.round /\ g.score = h.score
  <2>1. Level(Host, h, g)
    BY <1>1, <1>5 DEF Pair, AheadOf
  <2>2. Abreast(Host, Now(h), Now(g))
    BY <2>1 DEF Level
  <2> DEFINE a == Now(h)
             b == Now(g)
  <2>3. a.base = h.base /\ a.round = h.round /\ b.base = g.base /\ b.round = g.round
    BY DEF Now
  <2>4. a.base = b.base /\ (Onward(Host, a, b) \/ Onward(Guest, b, a))
    BY <2>2, TwoSides DEF Abreast
  <2> HIDE DEF a, b
  <2>5. CASE Onward(Host, a, b)
    <3>1. /\ b.round.tick <= a.round.tick
          /\ HashOf(a.base, a.round, b.round.tick) = HashOf(b.base, b.round, b.round.tick)
          /\ a.round.tick = b.round.tick => a.round = b.round
      BY <1>2, <2>3, <2>4, <2>5, SameHash, TwoSides
    <3>2. t = g.round.tick
      BY <1>2, <1>3, <2>3, <3>1
    <3>3. HashAt(h, t) = HashAt(g, t)
      BY <1>2, <2>3, <3>1, <3>2 DEF HashAt
    <3>4. g.round.tick = h.round.tick => g.round = h.round
      BY <2>3, <3>1
    <3>5. g.round = h.round => g.score = h.score
      <4>1. g.r = h.r /\ g.base = h.base
        BY <1>5, <2>3, <2>4
      <4> QED BY ONLY <1>1, <4>1, SameScore
    <3> QED BY <3>3, <3>4, <3>5
  <2>6. CASE Onward(Guest, b, a)
    <3>1. /\ a.round.tick <= b.round.tick
          /\ HashOf(b.base, b.round, a.round.tick) = HashOf(a.base, a.round, a.round.tick)
          /\ b.round.tick = a.round.tick => b.round = a.round
      BY <1>2, <2>3, <2>4, <2>6, SameHash, TwoSides
    <3>2. t = h.round.tick
      BY <1>2, <1>3, <2>3, <3>1
    <3>3. HashAt(h, t) = HashAt(g, t)
      BY <1>2, <2>3, <3>1, <3>2 DEF HashAt
    <3>4. g.round.tick = h.round.tick => g.round = h.round
      BY <2>3, <3>1
    <3>5. g.round = h.round => g.score = h.score
      <4>1. g.r = h.r /\ g.base = h.base
        BY <1>5, <2>3, <2>4
      <4> QED BY ONLY <1>1, <4>1, SameScore
    <3> QED BY <3>3, <3>4, <3>5
  <2> QED BY <2>4, <2>5, <2>6
<1>6. /\ g.r - h.r \in -1 .. 1
      /\ g.r = h.r => HashAt(h, t) = HashAt(g, t)
      /\ g.r = h.r /\ g.round.tick = h.round.tick => g.round = h.round /\ g.score = h.score
  BY <1>4, <1>5
<1> QED BY <1>6 DEF h, g, t

LEMMA FixedHolds == TrailsInv => FramesFixed
<1> SUFFICES ASSUME TrailsInv, Together, NEW p \in Player, side[p].r = side[Other(p)].r,
                    NEW t \in DOMAIN side[p].theirs, t >= side[p].round.tick
             PROVE  t <= Sealed(side[Other(p)]) /\ side[p].theirs[t] = side[Other(p)].mine[t + 1]
  BY DEF FramesFixed
<1> DEFINE s == side[p]
           o == side[Other(p)]
<1>1. /\ Pair(Host, side[Host], side[Guest]) /\ Half(s) /\ Half(o) /\ s.r \in Int /\ o.r \in Int
  BY PairIs, TwoSides
<1>2. Pair(p, s, o)
  <2>1. CASE p = Host
    BY <1>1, <2>1, TwoSides
  <2>2. CASE p # Host
    <3>1. p = Guest /\ Other(p) = Host
      BY <2>2, TwoSides
    <3> QED BY <1>1, <3>1, PairSwap, TwoSides
  <2> QED BY <2>1, <2>2
<1>3. s.r = o.r
  OBVIOUS
<1>4. t \in DOMAIN s.theirs /\ t >= s.round.tick
  OBVIOUS
<1> HIDE DEF s, o
<1>5. HeardOf(s, o.mine)
  BY <1>1, <1>2, <1>3 DEF Pair, Level, AheadOf
<1>6. t < Len(o.mine) /\ s.theirs[t] = o.mine[t + 1]
  BY <1>4, <1>5 DEF HeardOf
<1>7. t \in Nat /\ Len(o.mine) \in Nat
  BY <1>1, <1>4 DEF Half
<1>8. t <= Sealed(o)
  BY <1>6, <1>7 DEF Sealed
<1> QED BY <1>6, <1>8 DEF s, o

(***************************************************************************)
(* The match is in lockstep (games/trails/session.rs): whatever is lost or *)
(* overtaken, and however a snapshot falls among the frames, both sides    *)
(* run the same round, from frames that never change once sent.            *)
(***************************************************************************)
THEOREM TrailsInLockstep == TrailsSpec => []Lockstep
<1>1. TrailsInv => Lockstep
  BY TypesHold, StepHolds, FixedHolds DEF Lockstep
<1> QED BY <1>1, TrailsInvariant, PTL

-----------------------------------------------------------------------------
(* What one message has room for *)

\* A round that is over is as far as it gets on either side.
LEMMA NoFurther ==
  ASSUME NEW p \in Player, NEW a, NEW b, Abreast(p, a, b), a.round.result # Going,
         a.round.tick \in Nat, b.round.tick \in Nat
  PROVE  b.round.tick <= a.round.tick
<1>1. CASE Onward(p, a, b)
  BY <1>1 DEF Onward, Through
<1>2. CASE Onward(Other(p), b, a)
  <2>1. PICK f : Through(f, Other(p), b, a)
    BY <1>2 DEF Onward
  <2>2. /\ a.round.tick <= b.round.tick /\ f[a.round.tick] = a.round
        /\ \A k \in a.round.tick .. b.round.tick - 1 : f[k].result = Going
    BY <2>1 DEF Through
  <2>3. a.round.tick \notin a.round.tick .. b.round.tick - 1
    BY <2>2
  <2> QED BY <2>2, <2>3
<1> QED BY <1>1, <1>2 DEF Abreast

LEMMA FitHolds == TrailsInv => FramesFit
<1> SUFFICES ASSUME TrailsInv, side[Host].epoch = side[Guest].epoch, drifted = -1, NEW p \in Player,
                    side[p].phase = "run"
             PROVE  /\ side[p].round.tick <= Sealed(side[p])
                    /\ Sealed(side[p]) - side[p].acked <= MAX_FRAMES
  BY DEF FramesFit
<1> DEFINE s == side[p]
           o == side[Other(p)]
<1>1. Fine(p, s, o, Way(p), Way(Other(p)), drifted)
  BY InvFine
<1>2. o.epoch = s.epoch /\ s.phase = "run"
  BY TwoSides
<1> HIDE DEF s, o
<1>3. /\ SideCore(p, s) /\ SideCore(Other(p), o) /\ Other(p) \in Player /\ s.epoch \in Nat /\ PrevRight(o)
      /\ GoodAt(p, s, o, Way(p), Way(Other(p)), drifted) /\ FitAt(p, s, o, Way(p), Way(Other(p)), drifted)
  <2>1. SideRight(p, s) /\ SideRight(Other(p), o) /\ s.epoch \in Nat
    BY <1>1, GoodSides DEF Fine
  <2>2. SideCore(p, s) /\ SideCore(Other(p), o)
    BY <2>1 DEF SideRight
  <2>3. PrevRight(o)
    BY <2>2 DEF SideCore
  <2> QED BY <1>1, <2>1, <2>2, <2>3, TwoSides DEF Fine
<1>4. s.r \in Int /\ o.r \in Int /\ s.round.tick \in Nat /\ Len(s.mine) \in Nat /\ s.acked \in Int
  BY <1>3, SideHalf DEF SideCore
<1>5. Pair(p, s, o)
  <2>1. drifted # s.epoch
    BY <1>3
  <2> QED BY <1>2, <1>3, <2>1, GoodSides
<1>6. Own(p, s) /\ Behind(s, o) /\ (o.r <= s.r => Low(s))
  BY <1>2, <1>3, FitSides
<1>7. s.round.tick <= Sealed(s)
  BY <1>1, <1>2 DEF Fine, Ready
<1>8. s.acked >= s.round.tick - 1 - 2 * Third
  <2>1. CASE o.r <= s.r
    <3>1. s.acked >= s.round.tick - 1 - Third
      BY <1>6, <2>1 DEF Low
    <3> QED BY <1>4, <3>1, ThirdIs
  <2>2. CASE ~(o.r <= s.r)
    <3>1. AheadOf(Other(p), o, s)
      BY <1>4, <1>5, <2>2 DEF Pair, Level, AheadOf
    <3> DEFINE a == o.prev[1]
               b == Now(s)
    <3>2. o.prev # None /\ a.round.result # Going /\ Abreast(Other(p), a, b)
      BY <3>1 DEF AheadOf, GoneOn
    <3>3. b.round = s.round
      BY DEF Now
    <3>4. RoundRight(a.round)
      BY <1>3, <3>2 DEF PrevRight
    <3>5. o.r > s.r => s.acked >= a.round.tick - 1 - 2 * Third
      BY <1>6 DEF Behind
    <3> HIDE DEF a, b
    <3>6. a.round.tick \in Nat /\ b.round.tick \in Nat
      <4> DEFINE r == a.round
      <4>1. RoundRight(r)
        BY <3>4
      <4> HIDE DEF r
      <4>2. r.tick \in Nat
        BY <4>1 DEF RoundRight, RoundType
      <4> QED BY <1>4, <3>3, <4>2 DEF r
    <3>7. b.round.tick <= a.round.tick
      BY <1>3, <3>2, <3>6, NoFurther
    <3> DEFINE x == a.round.tick
               y == s.round.tick
               k == s.acked
    <3>8. x \in Nat /\ y \in Nat /\ k \in Int /\ y <= x /\ k >= x - 1 - 2 * Third
      BY <1>4, <2>2, <3>3, <3>5, <3>6, <3>7
    <3> HIDE DEF x, y, k
    <3>9. k >= y - 1 - 2 * Third
      BY <3>8, ThirdIs
    <3> QED BY <3>9 DEF k, y
  <2> QED BY <2>1, <2>2
<1>9. Sealed(s) - s.acked <= MAX_FRAMES
  <2> DEFINE n == Sealed(s)
             k == s.acked
             x == s.round.tick
  <2>1. n \in Int /\ k \in Int /\ x \in Nat /\ k >= x - 1 - 2 * Third /\ (n <= x + Third - 1 \/ n <= k)
    BY <1>4, <1>6, <1>8 DEF Own, Long, Sealed
  <2>2. MAX_FRAMES \in Nat
    BY ConstantsAre
  <2> HIDE DEF n, k, x
  <2>3. n - k <= MAX_FRAMES
    BY <2>1, <2>2, ThirdIs
  <2> QED BY <2>3 DEF n, k
<1> QED BY <1>7, <1>9 DEF s

(***************************************************************************)
(* While the guest has not once differed, a side whose round runs has      *)
(* fixed its own frame for the tick, and one message has room for all its  *)
(* frames not yet acknowledged, three delays' worth at most, however many  *)
(* are lost or late: none is ever left out (games/trails/session.rs,       *)
(* send_frames, which sends no more than MAX_FRAMES).                      *)
(***************************************************************************)
THEOREM TrailsFramesFit == TrailsSpec => []FramesFit
<1> QED BY FitHolds, TrailsInvariant, PTL

LEMMA HeldHolds == TrailsInv => AckedIsHeld
<1> SUFFICES ASSUME TrailsInv, Together, NEW p \in Player, side[p].r = side[Other(p)].r,
                    side[Other(p)].round.result = Going
             PROVE  side[p].acked < TheirNext(side[Other(p)])
  BY DEF AckedIsHeld
<1> DEFINE s == side[p]
           o == side[Other(p)]
<1>1. Fine(p, s, o, Way(p), Way(Other(p)), drifted)
  BY InvFine
<1>2. o.epoch = s.epoch /\ drifted # s.epoch /\ s.r = o.r /\ o.round.result = Going
  BY TwoSides DEF Together
<1> HIDE DEF s, o
<1>3. SideCore(p, s) /\ SideCore(Other(p), o) /\ Other(p) \in Player
  <2>1. SideRight(p, s) /\ SideRight(Other(p), o)
    BY <1>1, GoodSides DEF Fine
  <2> QED BY <2>1, TwoSides DEF SideRight
<1>4. s.acked \in Int /\ o.round.tick \in Nat /\ TheirsRight(o)
  BY <1>3, SideHalf DEF SideCore
<1>5. Has(o, s.acked)
  <2>1. Acks(s, o)
    BY <1>1, <1>2, FitSides DEF Fine
  <2> QED BY <1>2, <2>1 DEF Acks
<1>6. TheirNext(o) \in Nat /\ o.round.tick <= TheirNext(o) /\ TheirNext(o) \notin DOMAIN o.theirs
  BY <1>4, TheirNextIs
<1>7. s.acked < TheirNext(o)
  BY <1>4, <1>5, <1>6 DEF Has
<1> QED BY <1>7 DEF s, o

(***************************************************************************)
(* What a side takes for acknowledged the other holds, as long as it needs *)
(* it, whichever acknowledgements are lost, late or of the round before,   *)
(* and with a snapshot among them: it is not said again                    *)
(* (games/trails/session.rs, receive, adopt and send_frames).              *)
(***************************************************************************)
THEOREM TrailsAckedIsHeld == TrailsSpec => []AckedIsHeld
<1> QED BY HeldHolds, TrailsInvariant, PTL

(***************************************************************************)
(* No frame the other side still waits for goes unsaid: the next message   *)
(* has room for it and it is not taken for heard (games/trails/session.rs, *)
(* send_frames and receive).                                               *)
(***************************************************************************)
THEOREM TrailsNoneUnsaid == TrailsSpec => []NoneUnsaid
<1>1. TrailsInv => NoneUnsaid
  BY FitHolds, HeldHolds DEF NoneUnsaid
<1> QED BY <1>1, TrailsInvariant, PTL
=============================================================================
