--------------------------- MODULE LazyOwnersProofs ---------------------------
(***************************************************************************)
(* What lib.rs's unsafe blocks rest on, for any threads, slots, statics    *)
(* and heap: no two threads own a slot, a copy is freed once and by its    *)
(* maker only, and what a static handed out stays while its job has it.    *)
(* The invariant is one of slots and one of each thread by itself; a step  *)
(* of a thread is shown to leave the others theirs.                        *)
(***************************************************************************)
EXTENDS LazyOwners, Functions, SequenceTheorems, FiniteSetTheorems, TLAPS

-----------------------------------------------------------------------------
(* Queues: what is in one (Range) and whether it is there once (IsInjective) *)

\* Nothing is in an empty queue.
LEMMA NothingQueued == DOMAIN <<>> = {} /\ Range(<<>>) = {} /\ IsInjective(<<>>)
<1>1. DOMAIN <<>> = {}
  BY EmptySeq, LenProperties
<1> QED BY <1>1 DEF Range, IsInjective

\* An item sent is behind the others.
LEMMA ItemSent ==
  ASSUME NEW S, NEW q \in Seq(S), NEW c \in S
  PROVE  /\ Append(q, c) \in Seq(S) /\ Append(q, c) # <<>>
         /\ Range(Append(q, c)) = Range(q) \cup {c}
         /\ IsInjective(q) /\ c \notin Range(q) => IsInjective(Append(q, c))
<1>1. /\ Len(q) \in Nat /\ DOMAIN q = 1 .. Len(q)
      /\ DOMAIN Append(q, c) = 1 .. Len(q) + 1
      /\ \A i \in 1 .. Len(q) : Append(q, c)[i] = q[i]
      /\ Append(q, c)[Len(q) + 1] = c
      /\ Append(q, c) \in Seq(S) /\ Append(q, c) # <<>>
  BY LenProperties, AppendProperties
<1>2. \A i \in DOMAIN Append(q, c) : i \in DOMAIN q \/ i = Len(q) + 1
  BY <1>1
<1>3. \A i \in DOMAIN q : i # Len(q) + 1 /\ i \in DOMAIN Append(q, c)
  BY <1>1
<1>4. Range(Append(q, c)) = Range(q) \cup {c}
  BY <1>1, <1>2, <1>3 DEF Range
<1>5. ASSUME IsInjective(q), c \notin Range(q) PROVE IsInjective(Append(q, c))
  BY <1>1, <1>2, <1>3, <1>5 DEF Range, IsInjective
<1> QED BY <1>1, <1>4, <1>5

\* An item taken is in its queue no more, and the others are.
LEMMA ItemTaken ==
  ASSUME NEW S, NEW q \in Seq(S), q # <<>>
  PROVE  /\ Tail(q) \in Seq(S) /\ Head(q) \in Range(q) /\ Head(q) \in S
         /\ Range(Tail(q)) \subseteq Range(q)
         /\ IsInjective(q) => /\ Range(Tail(q)) = Range(q) \ {Head(q)}
                              /\ IsInjective(Tail(q))
<1>1. /\ Len(q) \in Nat /\ Len(q) > 0 /\ DOMAIN q = 1 .. Len(q) /\ Head(q) = q[1]
      /\ DOMAIN Tail(q) = 1 .. Len(q) - 1
      /\ \A i \in 1 .. Len(q) - 1 : Tail(q)[i] = q[i + 1]
      /\ Tail(q) \in Seq(S) /\ Head(q) \in S
  BY LenProperties, HeadTailProperties, EmptySeq
<1>2. /\ \A i \in DOMAIN Tail(q) : i + 1 \in DOMAIN q /\ i + 1 # 1
      /\ \A i \in DOMAIN q : i = 1 \/ (i - 1 \in DOMAIN Tail(q) /\ Tail(q)[i - 1] = q[i])
      /\ \A i, j \in DOMAIN Tail(q) : i + 1 = j + 1 => i = j
      /\ 1 \in DOMAIN q
  BY <1>1
<1>3. /\ Head(q) \in Range(q) /\ Range(Tail(q)) \subseteq Range(q)
      /\ Range(q) \ {Head(q)} \subseteq Range(Tail(q))
  <2>1. Head(q) \in Range(q)
    BY <1>1, <1>2 DEF Range
  <2>2. Range(Tail(q)) \subseteq Range(q)
    BY <1>1, <1>2 DEF Range
  <2>3. ASSUME NEW i \in DOMAIN q, q[i] # Head(q) PROVE q[i] \in Range(Tail(q))
    <3>1. i - 1 \in DOMAIN Tail(q) /\ Tail(q)[i - 1] = q[i]
      BY <1>1, <1>2, <2>3
    <3> QED BY <3>1 DEF Range
  <2>4. Range(q) \ {Head(q)} \subseteq Range(Tail(q))
    BY <2>3 DEF Range
  <2> QED BY <2>1, <2>2, <2>4
<1>4. ASSUME IsInjective(q) PROVE Head(q) \notin Range(Tail(q)) /\ IsInjective(Tail(q))
  BY <1>1, <1>2, <1>4 DEF Range, IsInjective
<1> QED BY <1>1, <1>3, <1>4

-----------------------------------------------------------------------------
(* The inductive invariant *)

LocalFacts == [slot : Owners \cup {-1}, epoch : Nat, building : Nat, built : Seq(Boxes)]
FrameFacts == [pc : {"read", "copy", "build", "stamp", "init", "scope"}, lazy : Lazies,
               box : Boxes \cup {0}, used : SUBSET Lazies]
AtFacts == [pc : {"job", "claim", "epoch", "free", "give", "unwind"}, slot : Owners,
            boxes : Seq(Boxes), ending : BOOLEAN]
HeapFacts == [lazy : Lazies \cup {0}, by : Threads \cup {"kept", "nobody"}]

Typed ==
  /\ claimed \in [Owners -> BOOLEAN] /\ epochs \in [Owners -> Nat]
  /\ owned \in [Lazies -> [Owners -> Boxes \cup {0}]]
  /\ stamp \in [Lazies -> [Owners -> Nat]]
  /\ shared \in [Lazies -> Boxes \cup {0}] /\ once \in [Lazies -> Threads \cup {None}]
  /\ local \in [Threads -> LocalFacts]
  /\ frames \in [Threads -> Seq(FrameFacts)]
  /\ at \in [Threads -> AtFacts]
  /\ held \in [Threads -> SUBSET (Lazies \X Boxes)]
  /\ heap \in [Boxes -> HeapFacts]

\* Who has a slot: its owner, and a thread that takes or gives it.
HasSlot(t, s) ==
  \/ Owns(t) /\ local[t].slot = s
  \/ at[t].pc \in {"epoch", "give"} /\ at[t].slot = s

\* A slot that a thread has is claimed, and no other's.
SlotsApart ==
  \A t \in Threads, s \in Owners : HasSlot(t, s) =>
    claimed[s] /\ \A u \in Threads : HasSlot(u, s) => u = t

\* No stamp is later than its slot's epoch.
StampsPast == \A l \in Lazies, s \in Owners : stamp[l][s] <= epochs[s]

\* The kept values are kept.
SharedIsKept == \A l \in Lazies : shared[l] # 0 => heap[shared[l]] = Kept(l)

\* Outside its jobs a thread has no reference and no call, and is an owner or not as what it
\* does there says; its list is in one place; an owner has its slot's epoch.
InPlace(t) ==
  /\ at[t].pc = "job" => at[t] = Idle
  /\ at[t].pc = "unwind" => at[t] = [Idle EXCEPT !.pc = "unwind"] /\ frames[t] # <<>>
  /\ at[t].pc \notin {"job", "unwind"} => frames[t] = <<>> /\ held[t] = {}
  /\ at[t].pc \in {"claim", "epoch", "give"} => ~Owns(t)
  /\ at[t].pc = "free" => Owns(t) /\ local[t].built = <<>>
  /\ at[t].pc # "free" => at[t].boxes = <<>>
  /\ Owns(t) => local[t].epoch = epochs[local[t].slot] /\ local[t].epoch > 0

Building(t) ==
  IF ~Owns(t) \/ frames[t] = <<>> THEN 0
  ELSE IF Top(t).pc \in {"build", "scope"} THEN Len(frames[t]) ELSE Len(frames[t]) - 1

\* The calls of a thread: all but the innermost are in their init, each of a static built from
\* earlier ones, and BUILDING counts an owner's.
CallsRight(t) ==
  /\ \A i \in DOMAIN frames[t] :
       /\ frames[t][i].pc \in IF Owns(t) THEN {"read", "copy", "build", "stamp", "scope"}
                                         ELSE {"read", "init"}
       /\ i # 1 \/ at[t].pc = "unwind" => frames[t][i].pc \in {"build", "init", "scope"}
  /\ \A i, j \in DOMAIN frames[t] : i < j => frames[t][i].lazy < frames[t][j].lazy
  /\ local[t].building = Building(t)

Current(t, l) == stamp[l][local[t].slot] = local[t].epoch

\* A thread at its list, or at a build, has no current copy of what it frees or builds; one
\* that has read the stamp has one, and one that is to write it has the new copy in place.
StampsRight(t) ==
  /\ at[t].pc = "free" => \A l \in Lazies : ~Current(t, l)
  /\ \A i \in DOMAIN frames[t] : LET f == frames[t][i] IN
       /\ f.pc \in {"build", "stamp"} => ~Current(t, f.lazy)
       /\ f.pc = "copy" => Current(t, f.lazy)
       /\ f.pc = "stamp" => /\ f.box = owned[f.lazy][local[t].slot]
                            /\ f.box \in Range(local[t].built) /\ heap[f.box] = Own(f.lazy, t)

Listing(t) == IF at[t].pc = "free" THEN at[t].boxes ELSE local[t].built

\* A thread's list has each copy that it made and has not freed, once.
ListRight(t) ==
  /\ IsInjective(Listing(t))
  /\ \A a \in Boxes : a \in Range(Listing(t)) <=> heap[a].by = t

\* A copy its slot's owner would take for current is on the owner's list and there.
CurrentIsThere(t) ==
  \A l \in Lazies : Owns(t) /\ Current(t, l) =>
    LET a == owned[l][local[t].slot] IN a \in Range(local[t].built) /\ heap[a] = Own(l, t)

\* What the thread's job has from statics is there, and its own or kept.
RefsLive(t) == \A h \in held[t] : heap[h[2]] \in {Own(h[1], t), Kept(h[1])}

Sound(t) ==
  /\ InPlace(t) /\ CallsRight(t) /\ StampsRight(t)
  /\ ListRight(t) /\ CurrentIsThere(t) /\ RefsLive(t)

Inv ==
  /\ Typed /\ SlotsApart /\ StampsPast /\ SharedIsKept
  /\ \A t \in Threads : Sound(t)

-----------------------------------------------------------------------------
(* What a step of one thread leaves the others *)

\* A step of t changes its own state, a slot it has, an address that is its own or nobody's;
\* and what it writes in the heap is its own, kept or free.
OnlyBy(t) ==
  /\ \A u \in Threads \ {t} : /\ local'[u] = local[u] /\ frames'[u] = frames[u]
                              /\ at'[u] = at[u] /\ held'[u] = held[u]
  /\ \A s \in Owners : ~HasSlot(t, s) =>
       /\ epochs'[s] = epochs[s]
       /\ \A l \in Lazies : stamp'[l][s] = stamp[l][s] /\ owned'[l][s] = owned[l][s]
  /\ \A a \in Boxes : heap[a].by \notin {t, "nobody"} => heap'[a] = heap[a]
  /\ \A a \in Boxes : heap'[a] # heap[a] => heap'[a].by \in {t, "kept", "nobody"}

\* The calls of a thread are calls.
LEMMA FramesTyped ==
  ASSUME NEW s \in Seq(FrameFacts)
  PROVE  /\ Len(s) \in Nat /\ DOMAIN s = 1 .. Len(s) /\ (s = <<>> <=> Len(s) = 0)
         /\ \A i \in DOMAIN s : s[i] \in FrameFacts /\ s[i].lazy \in Lazies
<1>1. Len(s) \in Nat /\ DOMAIN s = 1 .. Len(s) /\ (s = <<>> <=> Len(s) = 0)
  BY LenProperties, EmptySeq
<1>2. \A i \in DOMAIN s : s[i] \in FrameFacts
  BY <1>1, ElementOfSeq
<1> QED BY <1>1, <1>2 DEF FrameFacts

\* Who may free what.
LEMMA Frees ==
  /\ \A l, t : Own(l, t).by = t /\ Own(l, t).lazy = l
  /\ \A l : Kept(l).by = "kept"
  /\ Free.by = "nobody"
BY DEF Own, Kept, Free

\* The other threads are as sound as they were.
LEMMA OthersSound ==
  ASSUME Inv, NEW t \in Threads, OnlyBy(t), NEW u \in Threads \ {t}
  PROVE  Sound(u)'
<1> USE LazyAssumption
<1>0. /\ local'[u] = local[u] /\ frames'[u] = frames[u] /\ at'[u] = at[u] /\ held'[u] = held[u]
      /\ local[u] \in LocalFacts /\ frames[u] \in Seq(FrameFacts) /\ at[u] \in AtFacts
      /\ held[u] \subseteq Lazies \X Boxes
  BY DEF OnlyBy, Inv, Typed
<1>1. Owns(u)' = Owns(u) /\ Listing(u)' = Listing(u)
  BY <1>0 DEF Owns, Listing
<1>2. Owns(u) => /\ local[u].slot \in Owners
                 /\ epochs'[local[u].slot] = epochs[local[u].slot]
                 /\ \A l \in Lazies : /\ stamp'[l][local[u].slot] = stamp[l][local[u].slot]
                                      /\ owned'[l][local[u].slot] = owned[l][local[u].slot]
  <2> SUFFICES ASSUME Owns(u) PROVE local[u].slot \in Owners /\ ~HasSlot(t, local[u].slot)
    BY DEF OnlyBy
  <2>1. local[u].slot \in Owners
    BY <1>0 DEF Owns, LocalFacts
  <2> QED BY <2>1 DEF Inv, SlotsApart, HasSlot
<1>3. \A a \in Boxes : /\ heap[a].by \in {u, "kept"} => heap'[a] = heap[a]
                       /\ heap'[a].by = u <=> heap[a].by = u
  BY DEF OnlyBy
<1>4. InPlace(u)'
  BY <1>0, <1>1, <1>2 DEF Inv, Sound, InPlace
<1>5. CallsRight(u)'
  BY <1>0, <1>1 DEF Inv, Sound, CallsRight, Building, Top
<1>6. CurrentIsThere(u)'
  <2> SUFFICES ASSUME NEW l \in Lazies, Owns(u), stamp[l][local[u].slot] = local[u].epoch
               PROVE  /\ owned[l][local[u].slot] \in Range(local[u].built)
                      /\ heap'[owned[l][local[u].slot]] = Own(l, u)
    BY <1>0, <1>1, <1>2 DEF CurrentIsThere, Current
  <2>1. /\ owned[l][local[u].slot] \in Range(local[u].built)
        /\ heap[owned[l][local[u].slot]] = Own(l, u)
    BY DEF Inv, Sound, CurrentIsThere, Current
  <2>2. owned[l][local[u].slot] \in Boxes
    BY <1>0, <2>1, RangeOfSeq DEF LocalFacts
  <2>3. heap[owned[l][local[u].slot]].by = u
    BY <2>1, Frees
  <2>4. heap'[owned[l][local[u].slot]] = heap[owned[l][local[u].slot]]
    BY <1>3, <2>2, <2>3
  <2> QED BY <2>1, <2>4
<1>7. StampsRight(u)'
  <2>1. Range(local[u].built) \subseteq Boxes
    BY <1>0, RangeOfSeq DEF LocalFacts
  <2>2. \A l \in Lazies : Owns(u) =>
          (Current(u, l) <=> stamp'[l][local[u].slot] = local[u].epoch)
    BY <1>2 DEF Current
  <2>3. at[u].pc = "free" => Owns(u)
    BY DEF Inv, Sound, InPlace
  <2>4. ASSUME NEW i \in DOMAIN frames[u]
        PROVE  LET f == frames[u][i] IN
               /\ f.pc \in {"build", "stamp"} =>
                    stamp'[f.lazy][local[u].slot] # local[u].epoch
               /\ f.pc = "copy" => stamp'[f.lazy][local[u].slot] = local[u].epoch
               /\ f.pc = "stamp" => /\ f.box = owned'[f.lazy][local[u].slot]
                                    /\ f.box \in Range(local[u].built)
                                    /\ heap'[f.box] = Own(f.lazy, u)
    <3>1. frames[u][i].lazy \in Lazies
      BY <1>0, FramesTyped
    <3>2. Owns(u) \/ frames[u][i].pc \in {"read", "init"}
      BY DEF Inv, Sound, CallsRight
    <3>3. frames[u][i].pc = "stamp" => heap'[frames[u][i].box] = heap[frames[u][i].box]
      <4> SUFFICES ASSUME frames[u][i].pc = "stamp"
                   PROVE  heap'[frames[u][i].box] = heap[frames[u][i].box]
        OBVIOUS
      <4>1. /\ frames[u][i].box \in Range(local[u].built)
            /\ heap[frames[u][i].box] = Own(frames[u][i].lazy, u)
        BY DEF Inv, Sound, StampsRight
      <4>2. frames[u][i].box \in Boxes
        BY <2>1, <4>1
      <4>3. heap[frames[u][i].box].by = u
        BY <4>1, Frees
      <4> QED BY <1>3, <4>2, <4>3
    <3>4. StampsRight(u)
      BY DEF Inv, Sound
    <3>5. CASE frames[u][i].pc = "stamp"
      BY <1>2, <2>2, <3>1, <3>2, <3>3, <3>4, <3>5 DEF StampsRight
    <3>6. CASE frames[u][i].pc # "stamp"
      BY <1>2, <2>2, <3>1, <3>2, <3>4, <3>6 DEF StampsRight
    <3> QED BY <3>5, <3>6
  <2> QED BY <1>0, <2>2, <2>3, <2>4 DEF Inv, Sound, StampsRight, Current
<1>8. ListRight(u)'
  BY <1>1, <1>3 DEF Inv, Sound, ListRight
<1>9. RefsLive(u)'
  <2> SUFFICES ASSUME NEW h \in held[u]
               PROVE  heap'[h[2]] \in {Own(h[1], u), Kept(h[1])}
    BY <1>0 DEF RefsLive
  <2>1. h[2] \in Boxes /\ heap[h[2]] \in {Own(h[1], u), Kept(h[1])}
    BY <1>0 DEF Inv, Sound, RefsLive
  <2>2. heap[h[2]].by \in {u, "kept"}
    BY <2>1, Frees
  <2> QED BY <1>3, <2>1, <2>2
<1> QED BY <1>4, <1>5, <1>6, <1>7, <1>8, <1>9 DEF Sound

\* So a step of t keeps the invariant if it keeps the slots apart and t sound.
LEMMA Alone ==
  ASSUME Inv, NEW t \in Threads, OnlyBy(t), Typed', SlotsApart', StampsPast', Sound(t)',
         \A l \in Lazies : shared'[l] # shared[l] => heap'[shared'[l]] = Kept(l)
  PROVE  Inv'
<1>1. SharedIsKept'
  <2> SUFFICES ASSUME NEW l \in Lazies, shared'[l] # 0, shared'[l] = shared[l]
               PROVE  heap'[shared[l]] = Kept(l)
    BY DEF SharedIsKept
  <2>1. shared[l] \in Boxes /\ heap[shared[l]] = Kept(l)
    BY DEF Inv, Typed, SharedIsKept
  <2>2. heap[shared[l]].by \notin {t, "nobody"}
    BY <2>1, LazyAssumption DEF Kept
  <2> QED BY <2>1, <2>2 DEF OnlyBy
<1>2. \A u \in Threads : Sound(u)'
  BY OthersSound
<1> QED BY <1>1, <1>2 DEF Inv

\* The slots stay apart if t takes none that is claimed, and gives only what it has.
LEMMA SlotsKept ==
  ASSUME Inv, NEW t \in Threads, OnlyBy(t),
         \A s \in Owners : HasSlot(t, s)' => claimed'[s] /\ (HasSlot(t, s) \/ ~claimed[s]),
         \A s \in Owners : ~HasSlot(t, s) /\ claimed[s] => claimed'[s]
  PROVE  SlotsApart'
<1>1. \A u \in Threads \ {t}, s \in Owners : HasSlot(u, s)' = HasSlot(u, s)
  BY DEF OnlyBy, HasSlot, Owns
<1>2. SlotsApart
  BY DEF Inv
<1> SUFFICES ASSUME NEW u \in Threads, NEW s \in Owners, HasSlot(u, s)'
             PROVE  claimed'[s] /\ \A v \in Threads : HasSlot(v, s)' => v = u
  BY DEF SlotsApart
<1>3. CASE u = t
  BY <1>1, <1>2, <1>3 DEF SlotsApart
<1>4. CASE u # t
  BY <1>1, <1>2, <1>4 DEF SlotsApart
<1> QED BY <1>3, <1>4

\* What the steps of a thread read of it.
LEMMA OfThread ==
  ASSUME Inv, NEW t \in Threads
  PROVE  /\ local[t] \in LocalFacts /\ frames[t] \in Seq(FrameFacts) /\ at[t] \in AtFacts
         /\ held[t] \subseteq Lazies \X Boxes /\ Sound(t)
         /\ local[t].slot \in Owners \cup {-1} /\ local[t].epoch \in Nat
         /\ local[t].building \in Nat /\ local[t].built \in Seq(Boxes)
         /\ at[t].slot \in Owners /\ at[t].boxes \in Seq(Boxes) /\ at[t].ending \in BOOLEAN
         /\ (Owns(t) => local[t].slot \in Owners)
         /\ Idle \in AtFacts
BY LazyAssumption, EmptySeq DEF Inv, Typed, LocalFacts, AtFacts, Owns, Idle

\* A thread outside its jobs is sound if its list and its copies are.
LEMMA BetweenCalls ==
  ASSUME NEW t \in Threads, frames'[t] = <<>>, held'[t] = {}, local'[t].building = 0,
         InPlace(t)', ListRight(t)', CurrentIsThere(t)',
         at'[t].pc = "free" => \A l \in Lazies : ~Current(t, l)'
  PROVE  Sound(t)'
<1>1. CallsRight(t)'
  BY NothingQueued DEF CallsRight, Building
<1>2. StampsRight(t)'
  BY NothingQueued DEF StampsRight
<1>3. RefsLive(t)'
  BY DEF RefsLive
<1> QED BY <1>1, <1>2, <1>3 DEF Sound

\* Epochs only grow, so no stamp is a new epoch's.
LEMMA EpochsGrow ==
  ASSUME Inv, NEW s \in Owners
  PROVE  /\ epochs[s] \in Nat /\ epochs[s] + 1 \in Nat /\ epochs[s] + 1 > 0
         /\ \A l \in Lazies : stamp[l][s] <= epochs[s] + 1 /\ stamp[l][s] # epochs[s] + 1
<1>1. epochs[s] \in Nat /\ \A l \in Lazies : stamp[l][s] \in Nat /\ stamp[l][s] <= epochs[s]
  BY DEF Inv, Typed, StampsPast
<1> QED BY <1>1

-----------------------------------------------------------------------------
(* own_here, release and disown *)

\* A try at a slot takes it only if it was not claimed, and the thread had none.
LEMMA ClaimsAlone ==
  ASSUME Inv, NEW t \in Threads, ClaimSlot(t)
  PROVE  Inv'
<1> USE LazyAssumption, OfThread
<1>1. /\ UNCHANGED <<epochs, owned, stamp, shared, once, local, frames, held, heap, panics>>
      /\ \A u \in Threads \ {t} : at'[u] = at[u]
      /\ at' \in [Threads -> AtFacts] /\ at'[t].boxes = <<>>
      /\ at[t].pc \in {"claim", "job"} /\ frames[t] = <<>> /\ held[t] = {} /\ ~Owns(t)
      /\ at'[t].pc = "job" => at'[t] = Idle
      /\ \/ at'[t].pc \in {"claim", "job"} /\ claimed' = claimed
         \/ /\ at'[t].pc = "epoch" /\ at'[t].slot \in Owners /\ ~claimed[at'[t].slot]
            /\ claimed' = [claimed EXCEPT ![at'[t].slot] = TRUE]
  <2>1. at[t].pc \in {"claim", "job"} /\ frames[t] = <<>> /\ held[t] = {} /\ ~Owns(t)
    BY DEF ClaimSlot, Trying, BetweenJobs, Idle, Sound, InPlace
  <2>2. \A s \in Owners : /\ NextTry(s) \in AtFacts
                          /\ [Idle EXCEPT !.pc = "epoch", !.slot = s] \in AtFacts
    BY EmptySeq DEF NextTry, Idle, AtFacts
  <2>3. at \in [Threads -> AtFacts]
    BY DEF Inv, Typed
  <2>4. \A s \in Owners : /\ NextTry(s).boxes = <<>> /\ NextTry(s).pc \in {"claim", "job"}
                          /\ NextTry(s).pc = "job" => NextTry(s) = Idle
    BY DEF NextTry, Idle
  <2>5. at[t].slot \in Owners
    OBVIOUS
  <2>6. CASE claimed[at[t].slot]
    <3>1. claimed' = claimed /\ at' = [at EXCEPT ![t] = NextTry(at[t].slot)]
      BY <2>6 DEF ClaimSlot
    <3>2. /\ at' \in [Threads -> AtFacts] /\ at'[t] = NextTry(at[t].slot)
          /\ \A u \in Threads \ {t} : at'[u] = at[u]
      BY <2>2, <2>3, <2>5, <3>1
    <3> QED BY <2>1, <2>4, <2>5, <3>1, <3>2 DEF ClaimSlot
  <2>7. CASE ~claimed[at[t].slot]
    <3> DEFINE taking == [Idle EXCEPT !.pc = "epoch", !.slot = at[t].slot]
    <3>1. /\ claimed' = [claimed EXCEPT ![at[t].slot] = TRUE]
          /\ at' = [at EXCEPT ![t] = taking]
      BY <2>7 DEF ClaimSlot
    <3>2. /\ at' \in [Threads -> AtFacts] /\ at'[t] = taking
          /\ \A u \in Threads \ {t} : at'[u] = at[u]
      BY <2>2, <2>3, <2>5, <3>1
    <3>3. taking.pc = "epoch" /\ taking.slot = at[t].slot /\ taking.boxes = <<>>
      BY DEF Idle
    <3> HIDE DEF taking
    <3> QED BY <2>1, <2>5, <2>7, <3>1, <3>2, <3>3 DEF ClaimSlot
  <2> QED BY <2>6, <2>7
<1>2. Typed'
  BY <1>1 DEF Inv, Typed
<1>3. OnlyBy(t)
  BY <1>1 DEF OnlyBy
<1>4. SlotsApart'
  <2>1. \A s \in Owners : ~HasSlot(t, s)
    BY <1>1 DEF HasSlot
  <2>2. claimed \in [Owners -> BOOLEAN]
    BY DEF Inv, Typed
  <2>3. \A s \in Owners : HasSlot(t, s)' => claimed'[s] /\ ~claimed[s]
    BY <1>1, <2>2 DEF HasSlot, Owns
  <2>4. \A s \in Owners : claimed[s] => claimed'[s]
    BY <1>1, <2>2
  <2> QED BY <1>3, <2>1, <2>3, <2>4, SlotsKept
<1>5. StampsPast'
  BY <1>1 DEF Inv, StampsPast
<1>6. Sound(t)'
  <2>1. InPlace(t)'
    BY <1>1 DEF InPlace, Owns
  <2>2. ListRight(t)'
    BY <1>1 DEF Sound, ListRight, Listing
  <2>3. CurrentIsThere(t)'
    BY <1>1 DEF CurrentIsThere, Owns
  <2>4. local[t].building = 0
    BY <1>1 DEF Sound, CallsRight, Building
  <2> QED BY <1>1, <2>1, <2>2, <2>3, <2>4, BetweenCalls
<1> QED BY <1>1, <1>2, <1>3, <1>4, <1>5, <1>6, Alone

\* A new owner's epoch is later than every stamp of its slot: no copy of an earlier owner's
\* is current.
LEMMA EpochsAlone ==
  ASSUME Inv, NEW t \in Threads, TakeEpoch(t)
  PROVE  Inv'
<1> USE LazyAssumption, OfThread
<1> DEFINE s == at[t].slot
<1>1. /\ UNCHANGED <<claimed, owned, stamp, shared, once, frames, held, heap, panics>>
      /\ \A u \in Threads \ {t} : at'[u] = at[u] /\ local'[u] = local[u]
      /\ local' \in [Threads -> LocalFacts] /\ at' \in [Threads -> AtFacts]
      /\ epochs' \in [Owners -> Nat] /\ s \in Owners
      /\ frames[t] = <<>> /\ held[t] = {} /\ ~Owns(t) /\ HasSlot(t, s)
      /\ at[t].boxes = <<>> /\ at[t].pc = "epoch" /\ at'[t] = Idle
      /\ local'[t].slot = s /\ local'[t].epoch = epochs'[s]
      /\ local'[t].building = local[t].building /\ local'[t].built = local[t].built
      /\ epochs'[s] = epochs[s] + 1 /\ \A z \in Owners : z # s => epochs'[z] = epochs[z]
  <2>1. /\ at[t].pc = "epoch" /\ frames[t] = <<>> /\ held[t] = {} /\ ~Owns(t)
        /\ at[t].boxes = <<>> /\ HasSlot(t, s)
    BY DEF TakeEpoch, Sound, InPlace, HasSlot
  <2>2. /\ at \in [Threads -> AtFacts] /\ epochs \in [Owners -> Nat]
        /\ local \in [Threads -> LocalFacts]
    BY DEF Inv, Typed
  <2>3. [local[t] EXCEPT !.slot = s, !.epoch = epochs[s] + 1] \in LocalFacts
    <3>1. epochs[s] + 1 \in Nat /\ s \in Owners /\ local[t] \in LocalFacts
      BY EpochsGrow
    <3> QED BY <3>1 DEF LocalFacts
  <2>4. local' = [local EXCEPT ![t] = [local[t] EXCEPT !.slot = s, !.epoch = epochs[s] + 1]]
    BY <2>2 DEF TakeEpoch, NextEpoch
  <2>5. /\ local' \in [Threads -> LocalFacts] /\ \A u \in Threads \ {t} : local'[u] = local[u]
        /\ local'[t] = [local[t] EXCEPT !.slot = s, !.epoch = epochs[s] + 1]
    BY <2>2, <2>3, <2>4
  <2>6. /\ local'[t].slot = s /\ local'[t].epoch = epochs[s] + 1
        /\ local'[t].building = local[t].building /\ local'[t].built = local[t].built
    BY <2>5 DEF LocalFacts
  <2>7. /\ epochs' \in [Owners -> Nat] /\ epochs'[s] = epochs[s] + 1
        /\ \A z \in Owners : z # s => epochs'[z] = epochs[z]
    BY <2>2 DEF TakeEpoch, NextEpoch
  <2>8. at' \in [Threads -> AtFacts] /\ at'[t] = Idle /\ \A u \in Threads \ {t} : at'[u] = at[u]
    BY <2>2 DEF TakeEpoch
  <2> QED BY <2>1, <2>5, <2>6, <2>7, <2>8 DEF TakeEpoch
<1>2. Typed'
  BY <1>1 DEF Inv, Typed
<1>3. OnlyBy(t)
  BY <1>1 DEF OnlyBy
<1>4. SlotsApart'
  <2>1. \A z \in Owners : HasSlot(t, z)' => z = s
    BY <1>1 DEF HasSlot, Idle
  <2>2. claimed[s]
    BY <1>1 DEF Inv, SlotsApart
  <2> QED BY <1>1, <1>3, <2>1, <2>2, SlotsKept
<1>5. StampsPast'
  <2> SUFFICES ASSUME NEW l \in Lazies, NEW z \in Owners PROVE stamp[l][z] <= epochs'[z]
    BY <1>1 DEF StampsPast
  <2>1. CASE z = s
    BY <1>1, <2>1, EpochsGrow
  <2>2. CASE z # s
    BY <1>1, <2>2 DEF Inv, StampsPast
  <2> QED BY <2>1, <2>2
<1>6. Sound(t)'
  <2>1. InPlace(t)'
    <3>1. epochs[s] \in Nat
      BY DEF Inv, Typed
    <3> QED BY <1>1, <3>1 DEF InPlace, Owns, Idle
  <2>2. ListRight(t)'
    BY <1>1 DEF Sound, ListRight, Listing, Idle
  <2>3. CurrentIsThere(t)'
    <3> SUFFICES ASSUME NEW l \in Lazies PROVE stamp[l][s] # epochs'[s]
      BY <1>1 DEF CurrentIsThere, Current
    <3>1. stamp[l][s] # epochs[s] + 1
      BY <1>1, EpochsGrow
    <3> QED BY <1>1, <3>1
  <2>4. local[t].building = 0
    BY <1>1 DEF Sound, CallsRight, Building
  <2> QED BY <1>1, <2>1, <2>2, <2>3, <2>4, BetweenCalls DEF Idle
<1> QED BY <1>1, <1>2, <1>3, <1>4, <1>5, <1>6, Alone

\* A release makes every copy stale, and takes the whole list.
LEMMA ReleasesAlone ==
  ASSUME Inv, NEW t \in Threads, NEW ending \in BOOLEAN, BeginRelease(t, ending)
  PROVE  Inv'
<1> USE LazyAssumption, OfThread
<1> DEFINE s == local[t].slot
           freeing == [pc |-> "free", slot |-> 0, boxes |-> local[t].built, ending |-> ending]
<1>1. /\ UNCHANGED <<claimed, owned, stamp, shared, once, frames, held, heap, panics>>
      /\ \A u \in Threads \ {t} : at'[u] = at[u] /\ local'[u] = local[u]
      /\ local' \in [Threads -> LocalFacts] /\ at' \in [Threads -> AtFacts]
      /\ epochs' \in [Owners -> Nat] /\ s \in Owners
      /\ frames[t] = <<>> /\ held[t] = {} /\ Owns(t) /\ HasSlot(t, s)
      /\ at[t] = Idle /\ at'[t] = freeing
      /\ local'[t].slot = s /\ local'[t].epoch = epochs'[s]
      /\ local'[t].building = local[t].building /\ local'[t].built = <<>>
      /\ epochs'[s] = epochs[s] + 1 /\ \A z \in Owners : z # s => epochs'[z] = epochs[z]
  <2>1. at[t] = Idle /\ frames[t] = <<>> /\ held[t] = {} /\ Owns(t) /\ HasSlot(t, s) /\ s \in Owners
    BY DEF BeginRelease, BetweenJobs, HasSlot
  <2>2. /\ at \in [Threads -> AtFacts] /\ epochs \in [Owners -> Nat]
        /\ local \in [Threads -> LocalFacts]
    BY DEF Inv, Typed
  <2>7. /\ epochs' \in [Owners -> Nat] /\ epochs'[s] = epochs[s] + 1
        /\ \A z \in Owners : z # s => epochs'[z] = epochs[z]
    BY <2>1, <2>2 DEF BeginRelease, NextEpoch
  <2>3. [local[t] EXCEPT !.epoch = epochs[s] + 1, !.built = <<>>] \in LocalFacts
    <3>1. epochs[s] + 1 \in Nat /\ <<>> \in Seq(Boxes) /\ local[t] \in LocalFacts
      BY <2>1, EpochsGrow, EmptySeq
    <3> QED BY <3>1 DEF LocalFacts
  <2>4. local' = [local EXCEPT ![t] = [local[t] EXCEPT !.epoch = epochs[s] + 1, !.built = <<>>]]
    BY <2>2, <2>7 DEF BeginRelease
  <2>5. /\ local' \in [Threads -> LocalFacts] /\ \A u \in Threads \ {t} : local'[u] = local[u]
        /\ local'[t] = [local[t] EXCEPT !.epoch = epochs[s] + 1, !.built = <<>>]
    BY <2>2, <2>3, <2>4
  <2>6. /\ local'[t].slot = s /\ local'[t].epoch = epochs[s] + 1
        /\ local'[t].building = local[t].building /\ local'[t].built = <<>>
    BY <2>5 DEF LocalFacts
  <2>8. freeing \in AtFacts
    BY DEF AtFacts
  <2>9. at' \in [Threads -> AtFacts] /\ at'[t] = freeing /\ \A u \in Threads \ {t} : at'[u] = at[u]
    BY <2>2, <2>8 DEF BeginRelease
  <2> QED BY <2>1, <2>5, <2>6, <2>7, <2>9 DEF BeginRelease
<1>2. Typed'
  BY <1>1 DEF Inv, Typed
<1>3. OnlyBy(t)
  BY <1>1 DEF OnlyBy
<1>4. SlotsApart'
  <2>1. \A z \in Owners : HasSlot(t, z)' => z = s
    BY <1>1 DEF HasSlot, Owns
  <2>2. claimed[s]
    BY <1>1 DEF Inv, SlotsApart
  <2> QED BY <1>1, <1>3, <2>1, <2>2, SlotsKept
<1>5. /\ StampsPast'
      /\ \A l \in Lazies : stamp[l][s] # epochs'[s]
  <2>1. ASSUME NEW l \in Lazies, NEW z \in Owners PROVE stamp[l][z] <= epochs'[z]
    <3>1. CASE z = s
      BY <1>1, <3>1, EpochsGrow
    <3>2. CASE z # s
      BY <1>1, <3>2 DEF Inv, StampsPast
    <3> QED BY <3>1, <3>2
  <2>2. ASSUME NEW l \in Lazies PROVE stamp[l][s] # epochs'[s]
    <3>1. stamp[l][s] # epochs[s] + 1
      BY <1>1, EpochsGrow
    <3> QED BY <1>1, <3>1
  <2> QED BY <1>1, <2>1, <2>2 DEF StampsPast
<1>6. Sound(t)'
  <2>1. InPlace(t)'
    <3>1. epochs[s] \in Nat
      BY <1>1 DEF Inv, Typed
    <3> QED BY <1>1, <3>1 DEF InPlace, Owns
  <2>2. ListRight(t)'
    BY <1>1 DEF Sound, ListRight, Listing, Idle
  <2>3. \A l \in Lazies : ~Current(t, l)'
    BY <1>1, <1>5 DEF Current
  <2>4. CurrentIsThere(t)'
    BY <2>3 DEF CurrentIsThere
  <2>5. local[t].building = 0
    BY <1>1 DEF Sound, CallsRight, Building
  <2> QED BY <1>1, <2>1, <2>2, <2>3, <2>4, <2>5, BetweenCalls
<1> QED BY <1>1, <1>2, <1>3, <1>4, <1>5, <1>6, Alone

\* What is freed is a stale copy of the thread's own, and goes from its list.
LEMMA FreesAlone ==
  ASSUME Inv, NEW t \in Threads, FreeBox(t)
  PROVE  Inv'
<1> USE LazyAssumption, OfThread
<1> DEFINE a == Head(at[t].boxes)
<1>1. /\ UNCHANGED <<claimed, epochs, owned, stamp, shared, once, local, frames, held, panics>>
      /\ at[t].pc = "free" /\ a \in Boxes /\ frames[t] = <<>> /\ held[t] = {}
      /\ local[t].built = <<>> /\ Owns(t) /\ heap[a].by = t
      /\ at' \in [Threads -> AtFacts] /\ \A u \in Threads \ {t} : at'[u] = at[u]
      /\ at'[t] = [at[t] EXCEPT !.boxes = Tail(at[t].boxes)]
      /\ heap' \in [Boxes -> HeapFacts] /\ heap'[a] = Free
      /\ \A b \in Boxes : b # a => heap'[b] = heap[b]
  <2>1. at[t].pc = "free" /\ at[t].boxes # <<>> /\ at[t].boxes \in Seq(Boxes)
    BY DEF FreeBox
  <2>2. /\ Tail(at[t].boxes) \in Seq(Boxes) /\ a \in Boxes /\ a \in Range(at[t].boxes)
    BY <2>1, ItemTaken
  <2>3. frames[t] = <<>> /\ held[t] = {} /\ local[t].built = <<>> /\ Owns(t) /\ heap[a].by = t
    BY <2>1, <2>2 DEF Sound, InPlace, ListRight, Listing
  <2>4. at \in [Threads -> AtFacts] /\ heap \in [Boxes -> HeapFacts]
    BY DEF Inv, Typed
  <2>5. [at[t] EXCEPT !.boxes = Tail(at[t].boxes)] \in AtFacts /\ Free \in HeapFacts
    BY <2>2 DEF AtFacts, HeapFacts, Free
  <2>6. at' = [at EXCEPT ![t] = [at[t] EXCEPT !.boxes = Tail(at[t].boxes)]]
    BY <2>4 DEF FreeBox
  <2>7. /\ at' \in [Threads -> AtFacts] /\ \A u \in Threads \ {t} : at'[u] = at[u]
        /\ at'[t] = [at[t] EXCEPT !.boxes = Tail(at[t].boxes)]
    BY <2>4, <2>5, <2>6
  <2>8. /\ heap' \in [Boxes -> HeapFacts] /\ heap'[a] = Free
        /\ \A b \in Boxes : b # a => heap'[b] = heap[b]
    BY <2>2, <2>4, <2>5 DEF FreeBox
  <2> QED BY <2>1, <2>2, <2>3, <2>7, <2>8 DEF FreeBox
<1>2. at'[t].pc = "free" /\ at'[t].boxes = Tail(at[t].boxes)
  BY <1>1 DEF AtFacts
<1>3. Typed'
  BY <1>1 DEF Inv, Typed
<1>4. OnlyBy(t)
  BY <1>1, Frees DEF OnlyBy
<1>5. SlotsApart'
  <2>1. \A z \in Owners : HasSlot(t, z)' => HasSlot(t, z)
    BY <1>1, <1>2 DEF HasSlot, Owns
  <2>2. \A z \in Owners : HasSlot(t, z) => claimed[z]
    BY <1>1 DEF Inv, SlotsApart
  <2> QED BY <1>1, <1>4, <2>1, <2>2, SlotsKept
<1>6. StampsPast'
  BY <1>1 DEF Inv, StampsPast
<1>7. Sound(t)'
  <2>1. InPlace(t)'
    BY <1>1, <1>2 DEF InPlace, Owns, Sound
  <2>2. ListRight(t)'
    <3>1. /\ IsInjective(at[t].boxes) /\ at[t].boxes \in Seq(Boxes) /\ at[t].boxes # <<>>
          /\ \A b \in Boxes : b \in Range(at[t].boxes) <=> heap[b].by = t
      BY <1>1 DEF Sound, ListRight, Listing, FreeBox
    <3>2. IsInjective(Tail(at[t].boxes)) /\ Range(Tail(at[t].boxes)) = Range(at[t].boxes) \ {a}
      BY <3>1, ItemTaken
    <3>3. ASSUME NEW b \in Boxes
          PROVE  b \in Range(Tail(at[t].boxes)) <=> heap'[b].by = t
      BY <1>1, <3>1, <3>2, Frees
    <3> QED BY <1>2, <3>2, <3>3 DEF ListRight, Listing
  <2>3. \A l \in Lazies : ~Current(t, l)'
    BY <1>1 DEF Current, Sound, StampsRight
  <2>4. CurrentIsThere(t)'
    BY <2>3 DEF CurrentIsThere
  <2>5. local[t].building = 0
    BY <1>1 DEF Sound, CallsRight, Building
  <2> QED BY <1>1, <2>1, <2>2, <2>3, <2>4, <2>5, BetweenCalls
<1> QED BY <1>1, <1>3, <1>4, <1>5, <1>6, <1>7, Alone

\* A thread that disowned is no owner, and still has the slot.
LEMMA ReleaseEndsAlone ==
  ASSUME Inv, NEW t \in Threads, EndRelease(t)
  PROVE  Inv'
<1> USE LazyAssumption, OfThread
<1> DEFINE s == local[t].slot
           giving == [Idle EXCEPT !.pc = "give", !.slot = s]
<1>1. /\ UNCHANGED <<claimed, epochs, owned, stamp, shared, once, frames, held, heap, panics>>
      /\ at[t].pc = "free" /\ at[t].boxes = <<>> /\ frames[t] = <<>> /\ held[t] = {}
      /\ local[t].built = <<>> /\ Owns(t) /\ s \in Owners
      /\ at' \in [Threads -> AtFacts] /\ local' \in [Threads -> LocalFacts]
      /\ \A u \in Threads \ {t} : at'[u] = at[u] /\ local'[u] = local[u]
      /\ local'[t].built = <<>> /\ local'[t].building = local[t].building
      /\ local'[t].epoch = local[t].epoch
      /\ \/ at'[t] = Idle /\ local'[t].slot = s
         \/ at'[t] = giving /\ local'[t].slot = -1
  <2>1. /\ at[t].pc = "free" /\ at[t].boxes = <<>> /\ frames[t] = <<>> /\ held[t] = {}
        /\ local[t].built = <<>> /\ Owns(t) /\ s \in Owners
    BY DEF EndRelease, Sound, InPlace
  <2>2. at \in [Threads -> AtFacts] /\ local \in [Threads -> LocalFacts]
    BY DEF Inv, Typed
  <2>3. giving \in AtFacts /\ [local[t] EXCEPT !.slot = -1] \in LocalFacts
    BY <2>1, EmptySeq DEF Idle, AtFacts, LocalFacts
  <2>4. /\ [local[t] EXCEPT !.slot = -1].slot = -1
        /\ [local[t] EXCEPT !.slot = -1].built = local[t].built
        /\ [local[t] EXCEPT !.slot = -1].building = local[t].building
        /\ [local[t] EXCEPT !.slot = -1].epoch = local[t].epoch
    BY DEF LocalFacts
  <2>5. CASE at[t].ending
    <3>1. local' = [local EXCEPT ![t] = [local[t] EXCEPT !.slot = -1]]
      BY <2>2, <2>5 DEF EndRelease
    <3>2. /\ local' \in [Threads -> LocalFacts] /\ local'[t] = [local[t] EXCEPT !.slot = -1]
          /\ \A u \in Threads \ {t} : local'[u] = local[u]
      BY <2>2, <2>3, <3>1
    <3>3. /\ at' \in [Threads -> AtFacts] /\ at'[t] = giving
          /\ \A u \in Threads \ {t} : at'[u] = at[u]
      BY <2>2, <2>3, <2>5 DEF EndRelease
    <3> QED BY <2>1, <2>4, <3>2, <3>3 DEF EndRelease
  <2>6. CASE ~at[t].ending
    BY <2>1, <2>2, <2>6 DEF EndRelease
  <2> QED BY <2>5, <2>6
<1>0. /\ giving.pc = "give" /\ giving.slot = s /\ giving.boxes = <<>>
      /\ Idle.pc = "job" /\ Idle.boxes = <<>>
  BY DEF Idle
<1> HIDE DEF giving
<1>2. Typed'
  BY <1>1 DEF Inv, Typed
<1>3. OnlyBy(t)
  BY <1>1 DEF OnlyBy
<1>4. SlotsApart'
  <2>1. \A z \in Owners : HasSlot(t, z)' => HasSlot(t, z)
    BY <1>0, <1>1 DEF HasSlot, Owns
  <2>2. \A z \in Owners : HasSlot(t, z) => claimed[z]
    BY <1>1 DEF Inv, SlotsApart
  <2> QED BY <1>1, <1>3, <2>1, <2>2, SlotsKept
<1>5. StampsPast'
  BY <1>1 DEF Inv, StampsPast
<1>6. Sound(t)'
  <2>1. InPlace(t)'
    BY <1>0, <1>1 DEF InPlace, Owns, Sound
  <2>2. ListRight(t)'
    BY <1>0, <1>1 DEF Sound, ListRight, Listing
  <2>3. CurrentIsThere(t)'
    <3> SUFFICES ASSUME NEW l \in Lazies, local'[t].slot = s PROVE stamp[l][s] # local[t].epoch
      BY <1>1 DEF CurrentIsThere, Current, Owns
    <3> QED BY <1>1 DEF Sound, StampsRight, Current
  <2>4. local[t].building = 0
    BY <1>1 DEF Sound, CallsRight, Building
  <2> QED BY <1>1, <2>1, <2>2, <2>3, <2>4, <1>0, BetweenCalls
<1> QED BY <1>1, <1>2, <1>3, <1>4, <1>5, <1>6, Alone

\* The slot given is one the thread has, and owns no more.
LEMMA GivesAlone ==
  ASSUME Inv, NEW t \in Threads, GiveUp(t)
  PROVE  Inv'
<1> USE LazyAssumption, OfThread
<1> DEFINE s == at[t].slot
<1>1. /\ UNCHANGED <<epochs, owned, stamp, shared, once, local, frames, held, heap, panics>>
      /\ at[t].pc = "give" /\ at[t].boxes = <<>> /\ frames[t] = <<>> /\ held[t] = {}
      /\ ~Owns(t) /\ HasSlot(t, s) /\ s \in Owners
      /\ at' \in [Threads -> AtFacts] /\ at'[t] = Idle /\ \A u \in Threads \ {t} : at'[u] = at[u]
      /\ claimed' \in [Owners -> BOOLEAN] /\ \A z \in Owners : z # s => claimed'[z] = claimed[z]
  BY DEF GiveUp, Sound, InPlace, Inv, Typed, HasSlot
<1>2. Typed'
  BY <1>1 DEF Inv, Typed
<1>3. OnlyBy(t)
  BY <1>1 DEF OnlyBy
<1>4. SlotsApart'
  <2>1. \A z \in Owners : ~HasSlot(t, z)'
    BY <1>1 DEF HasSlot, Owns, Idle
  <2>2. \A z \in Owners : ~HasSlot(t, z) => z # s
    BY <1>1
  <2> QED BY <1>1, <1>3, <2>1, <2>2, SlotsKept
<1>5. StampsPast'
  BY <1>1 DEF Inv, StampsPast
<1>6. Sound(t)'
  <2>1. InPlace(t)'
    BY <1>1 DEF InPlace, Owns, Idle
  <2>2. ListRight(t)'
    BY <1>1 DEF Sound, ListRight, Listing, Idle
  <2>3. CurrentIsThere(t)'
    BY <1>1 DEF CurrentIsThere, Owns
  <2>4. local[t].building = 0
    BY <1>1 DEF Sound, CallsRight, Building
  <2> QED BY <1>1, <2>1, <2>2, <2>3, <2>4, BetweenCalls DEF Idle
<1> QED BY <1>1, <1>2, <1>3, <1>4, <1>5, <1>6, Alone

\* A job that ends has no references left.
LEMMA JobEndsAlone ==
  ASSUME Inv, NEW t \in Threads, JobEnds(t)
  PROVE  Inv'
<1> USE LazyAssumption, OfThread
<1>1. /\ UNCHANGED <<claimed, epochs, owned, stamp, shared, once, local, frames, at, heap, panics>>
      /\ at[t] = Idle /\ frames[t] = <<>>
      /\ held' \in [Threads -> SUBSET (Lazies \X Boxes)] /\ held'[t] = {}
      /\ \A u \in Threads \ {t} : held'[u] = held[u]
  BY DEF JobEnds, Inv, Typed
<1>2. Typed'
  BY <1>1 DEF Inv, Typed
<1>3. OnlyBy(t)
  BY <1>1 DEF OnlyBy
<1>4. SlotsApart' /\ StampsPast'
  BY <1>1 DEF Inv, SlotsApart, StampsPast, HasSlot, Owns
<1>5. Sound(t)'
  <2>1. InPlace(t)' /\ ListRight(t)' /\ CurrentIsThere(t)'
    BY <1>1 DEF Sound, InPlace, ListRight, Listing, CurrentIsThere, Current, Owns, Idle
  <2>2. local[t].building = 0
    BY <1>1 DEF Sound, CallsRight, Building
  <2> QED BY <1>1, <2>1, <2>2, BetweenCalls DEF Idle
<1> QED BY <1>1, <1>2, <1>3, <1>4, <1>5, Alone

-----------------------------------------------------------------------------
(* Calls of deref *)

\* A call of an init's is put in front of the call it is in, which keeps all but used.
LEMMA CallPut ==
  ASSUME NEW s \in Seq(FrameFacts), s # <<>>, NEW c \in FrameFacts, NEW f \in FrameFacts
  PROVE  /\ <<c, f>> \o Tail(s) \in Seq(FrameFacts)
         /\ Len(<<c, f>> \o Tail(s)) = Len(s) + 1
         /\ (<<c, f>> \o Tail(s))[1] = c /\ (<<c, f>> \o Tail(s))[2] = f
         /\ \A i \in 2 .. Len(s) : (<<c, f>> \o Tail(s))[i + 1] = s[i]
<1>1. /\ <<c, f>> \in Seq(FrameFacts) /\ Len(<<c, f>>) = 2 /\ <<c, f>>[1] = c /\ <<c, f>>[2] = f
  OBVIOUS
<1>2. /\ Tail(s) \in Seq(FrameFacts) /\ Len(Tail(s)) = Len(s) - 1 /\ Len(s) \in Nat \ {0}
      /\ \A i \in 1 .. Len(s) - 1 : Tail(s)[i] = s[i + 1]
  BY HeadTailProperties, EmptySeq
<1> DEFINE p == <<c, f>> \o Tail(s)
<1>3. /\ p \in Seq(FrameFacts) /\ Len(p) = 2 + (Len(s) - 1)
      /\ \A i \in 1 .. 2 + (Len(s) - 1) :
           p[i] = IF i <= 2 THEN <<c, f>>[i] ELSE Tail(s)[i - 2]
  BY <1>1, <1>2, ConcatProperties
<1> HIDE DEF p
<1>4. p[1] = c /\ p[2] = f /\ Len(p) = Len(s) + 1
  BY <1>1, <1>2, <1>3
<1>5. ASSUME NEW i \in 2 .. Len(s) PROVE p[i + 1] = s[i]
  <2>1. /\ i + 1 \in 1 .. 2 + (Len(s) - 1) /\ ~(i + 1 <= 2) /\ (i + 1) - 2 = i - 1
        /\ i - 1 \in 1 .. Len(s) - 1 /\ (i - 1) + 1 = i
    BY <1>2
  <2> QED BY <1>2, <1>3, <2>1
<1> QED BY <1>3, <1>4, <1>5 DEF p

\* The innermost call goes on.
LEMMA CallChanged ==
  ASSUME NEW s \in Seq(FrameFacts), s # <<>>, NEW f \in FrameFacts
  PROVE  /\ [s EXCEPT ![1] = f] \in Seq(FrameFacts)
         /\ Len([s EXCEPT ![1] = f]) = Len(s)
         /\ [s EXCEPT ![1] = f][1] = f
         /\ \A i \in 2 .. Len(s) : [s EXCEPT ![1] = f][i] = s[i]
<1>1. 1 \in 1 .. Len(s) /\ Len(s) \in Nat
  BY EmptySeq
<1> QED BY <1>1, ExceptSeq

\* The innermost call returns.
LEMMA CallGone ==
  ASSUME NEW s \in Seq(FrameFacts), s # <<>>
  PROVE  /\ Tail(s) \in Seq(FrameFacts) /\ Len(Tail(s)) = Len(s) - 1
         /\ \A i \in 1 .. Len(s) - 1 : Tail(s)[i] = s[i + 1]
BY HeadTailProperties, EmptySeq

\* The innermost call, and those its init is called from.
LEMMA OfCalls ==
  ASSUME Inv, NEW t \in Threads, frames[t] # <<>>
  PROVE  /\ frames[t] \in Seq(FrameFacts) /\ Len(frames[t]) \in Nat \ {0}
         /\ DOMAIN frames[t] = 1 .. Len(frames[t])
         /\ Top(t) \in FrameFacts /\ Top(t).lazy \in Lazies /\ Top(t).lazy \in Nat
         /\ Top(t).box \in Boxes \cup {0} /\ Top(t).used \subseteq Lazies
         /\ \A i \in 1 .. Len(frames[t]) : /\ frames[t][i] \in FrameFacts
                                           /\ frames[t][i].lazy \in Lazies
                                           /\ frames[t][i].lazy \in Nat
         /\ \A i \in 2 .. Len(frames[t]) : /\ frames[t][i].pc \in {"build", "init", "scope"}
                                           /\ Top(t).lazy < frames[t][i].lazy
         /\ Top(t).pc \in IF Owns(t) THEN {"read", "copy", "build", "stamp", "scope"}
                                     ELSE {"read", "init"}
         /\ \A i \in 1 .. Len(frames[t]) :
              frames[t][i].pc = "build" => Owns(t) /\ ~Current(t, frames[t][i].lazy)
         /\ at[t].pc \in {"job", "unwind"} /\ at[t].boxes = <<>> /\ Listing(t) = local[t].built
         /\ Owns(t) => local[t].slot \in Owners
<1>1. /\ frames[t] \in Seq(FrameFacts) /\ Len(frames[t]) \in Nat \ {0}
      /\ DOMAIN frames[t] = 1 .. Len(frames[t]) /\ Sound(t)
  BY OfThread, FramesTyped
<1>2. /\ 1 \in 1 .. Len(frames[t])
      /\ \A i \in 2 .. Len(frames[t]) : i \in 1 .. Len(frames[t]) /\ 1 < i
  BY <1>1
<1>3. \A i \in 1 .. Len(frames[t]) : /\ frames[t][i] \in FrameFacts
                                     /\ frames[t][i].lazy \in Lazies
                                     /\ frames[t][i].lazy \in Nat
  BY <1>1, FramesTyped, LazyAssumption
<1>4. /\ Top(t) \in FrameFacts /\ Top(t).lazy \in Lazies /\ Top(t).lazy \in Nat
      /\ Top(t).box \in Boxes \cup {0} /\ Top(t).used \subseteq Lazies
  BY <1>2, <1>3 DEF Top, FrameFacts
<1>5. ASSUME NEW i \in 2 .. Len(frames[t])
      PROVE  frames[t][i].pc \in {"build", "init", "scope"} /\ Top(t).lazy < frames[t][i].lazy
  BY <1>1, <1>2 DEF Sound, CallsRight, Top
<1>6. Top(t).pc \in IF Owns(t) THEN {"read", "copy", "build", "stamp", "scope"} ELSE {"read", "init"}
  BY <1>1, <1>2 DEF Sound, CallsRight, Top
<1>7. ASSUME NEW i \in 1 .. Len(frames[t]), frames[t][i].pc = "build"
      PROVE  Owns(t) /\ ~Current(t, frames[t][i].lazy)
  <2>1. Owns(t)
    BY <1>1, <1>7 DEF Sound, CallsRight
  <2> QED BY <1>1, <1>7, <2>1 DEF Sound, StampsRight
<1>8. at[t].pc \in {"job", "unwind"} /\ at[t].boxes = <<>> /\ Listing(t) = local[t].built
  BY <1>1 DEF Sound, InPlace, Listing
<1>9. Owns(t) => local[t].slot \in Owners
  BY OfThread
<1> QED BY <1>1, <1>3, <1>4, <1>5, <1>6, <1>7, <1>8, <1>9

\* The calls stay right when one is put in front of a build ...
LEMMA PutRight ==
  ASSUME Inv, NEW t \in Threads, frames[t] # <<>>, at'[t] = Idle,
         Top(t).pc \in {"build", "init", "scope"},
         NEW c \in FrameFacts, NEW f \in FrameFacts, c.lazy < Top(t).lazy,
         c.pc = "read" \/ (c.pc = "scope" /\ Owns(t)),
         f.pc = Top(t).pc, f.lazy = Top(t).lazy,
         frames'[t] = <<c, f>> \o Tail(frames[t]), local'[t].slot = local[t].slot,
         local'[t].building = IF c.pc = "scope" THEN local[t].building + 1 ELSE local[t].building
  PROVE  CallsRight(t)'
<1> DEFINE s == frames[t]
           p == frames'[t]
<1>1. /\ p \in Seq(FrameFacts) /\ Len(p) = Len(s) + 1 /\ p[1] = c /\ p[2] = f
      /\ \A i \in 2 .. Len(s) : p[i + 1] = s[i]
  BY CallPut, OfCalls
<1>2. /\ Len(s) \in Nat \ {0} /\ DOMAIN s = 1 .. Len(s)
      /\ Len(p) \in Nat /\ DOMAIN p = 1 .. Len(p) /\ p # <<>>
  BY <1>1, OfCalls, FramesTyped
<1>3. s[1] = Top(t)
  BY DEF Top
<1>4. ASSUME NEW i \in 1 .. Len(s)
      PROVE  i + 1 \in DOMAIN p /\ p[i + 1].pc = s[i].pc /\ p[i + 1].lazy = s[i].lazy
  <2>1. i + 1 \in DOMAIN p
    BY <1>1, <1>2
  <2>2. CASE i = 1
    BY <1>1, <1>3, <2>1, <2>2
  <2>3. CASE i # 1
    <3>1. i \in 2 .. Len(s)
      BY <1>2, <2>3
    <3> QED BY <1>1, <2>1, <3>1
  <2> QED BY <2>2, <2>3
<1>5. ASSUME NEW i \in DOMAIN p, i # 1
      PROVE  i - 1 \in 1 .. Len(s) /\ p[i].pc = s[i - 1].pc /\ p[i].lazy = s[i - 1].lazy
  <2>1. i - 1 \in 1 .. Len(s) /\ (i - 1) + 1 = i
    BY <1>1, <1>2, <1>5
  <2> QED BY <1>4, <2>1
<1> HIDE DEF s, p
<1>6. ASSUME NEW i \in DOMAIN p
      PROVE  /\ p[i].pc \in IF Owns(t) THEN {"read", "copy", "build", "stamp", "scope"} ELSE {"read", "init"}
             /\ i # 1 => p[i].pc \in {"build", "init", "scope"}
  <2>1. \A j \in DOMAIN s : s[j].pc \in IF Owns(t) THEN {"read", "copy", "build", "stamp", "scope"}
                                                   ELSE {"read", "init"}
    BY OfThread DEF Sound, CallsRight, s
  <2>2. \A j \in 1 .. Len(s) : s[j].pc \in {"build", "init", "scope"}
    <3> SUFFICES ASSUME NEW j \in 1 .. Len(s), j # 1 PROVE s[j].pc \in {"build", "init", "scope"}
      BY <1>3
    <3>1. j \in 2 .. Len(s)
      BY <1>2
    <3> QED BY <3>1, OfCalls DEF s
  <2>3. CASE i = 1
    BY <1>1, <2>3
  <2>4. CASE i # 1
    BY <1>2, <1>5, <2>1, <2>2, <2>4
  <2> QED BY <2>3, <2>4
<1>7. ASSUME NEW i \in DOMAIN p, NEW j \in DOMAIN p, i < j PROVE p[i].lazy < p[j].lazy
  <2>1. \A k, m \in 1 .. Len(s) : k < m => s[k].lazy < s[m].lazy
    BY <1>2, OfThread DEF Sound, CallsRight, s
  <2>2. \A k \in 1 .. Len(s) : s[1].lazy <= s[k].lazy /\ s[k].lazy \in Nat
    <3> SUFFICES ASSUME NEW k \in 1 .. Len(s) PROVE s[1].lazy <= s[k].lazy /\ s[k].lazy \in Nat
      OBVIOUS
    <3>1. s[k].lazy \in Nat /\ s[1].lazy \in Nat /\ 1 \in 1 .. Len(s)
      BY <1>2, OfCalls DEF s
    <3>2. k = 1 \/ 1 < k
      BY <1>2
    <3> QED BY <2>1, <3>1, <3>2
  <2>3. j # 1 /\ i \in Nat /\ j \in Nat
    BY <1>2, <1>7
  <2>4. j - 1 \in 1 .. Len(s) /\ p[j].lazy = s[j - 1].lazy
    BY <1>5, <2>3
  <2>5. CASE i = 1
    <3>1. c.lazy \in Nat /\ s[1].lazy \in Nat /\ s[j - 1].lazy \in Nat /\ s[1].lazy <= s[j - 1].lazy
      BY <2>2, <2>4, OfCalls, <1>3, LazyAssumption DEF FrameFacts
    <3>2. c.lazy < s[1].lazy
      BY <1>3
    <3> QED BY <1>1, <2>4, <2>5, <3>1, <3>2
  <2>6. CASE i # 1
    <3>1. i - 1 \in 1 .. Len(s) /\ p[i].lazy = s[i - 1].lazy /\ i - 1 < j - 1
      BY <1>5, <1>7, <2>3, <2>6
    <3> QED BY <2>1, <2>4, <3>1
  <2> QED BY <2>5, <2>6
<1>8. local[t].building = IF Owns(t) THEN Len(p) - 1 ELSE 0
  <2>1. local[t].building = Building(t) /\ (Owns(t) => Top(t).pc \in {"build", "scope"})
    BY OfThread, OfCalls DEF Sound, CallsRight
  <2>2. frames[t] # <<>> /\ Len(frames[t]) = Len(s)
    BY DEF s
  <2> QED BY <1>1, <1>2, <2>1, <2>2 DEF Building
<1>9. local'[t].building = IF ~Owns(t) THEN 0
                           ELSE IF p[1].pc \in {"build", "scope"} THEN Len(p) ELSE Len(p) - 1
  BY <1>1, <1>2, <1>8
<1>10. Owns(t)' = Owns(t) /\ at'[t].pc = "job"
  BY DEF Owns, Idle
<1> QED BY <1>2, <1>6, <1>7, <1>9, <1>10 DEF CallsRight, Building, Top, p

\* ... when the innermost goes on ...
LEMMA ChangedRight ==
  ASSUME Inv, NEW t \in Threads, frames[t] # <<>>, at'[t] = Idle, NEW f \in FrameFacts,
         f.lazy = Top(t).lazy,
         f.pc \in IF Owns(t) THEN {"read", "copy", "build", "stamp", "scope"} ELSE {"read", "init"},
         frames'[t] = [frames[t] EXCEPT ![1] = f], local'[t].slot = local[t].slot,
         ~Owns(t) => local'[t].building = local[t].building,
         Owns(t) => local'[t].building = IF f.pc \in {"build", "scope"} THEN Len(frames[t])
                                         ELSE Len(frames[t]) - 1
  PROVE  CallsRight(t)'
<1> DEFINE s == frames[t]
           p == frames'[t]
<1>1. /\ p \in Seq(FrameFacts) /\ Len(p) = Len(s) /\ p[1] = f
      /\ \A i \in 2 .. Len(s) : p[i] = s[i]
  BY CallChanged, OfCalls
<1>2. Len(s) \in Nat \ {0} /\ DOMAIN s = 1 .. Len(s) /\ DOMAIN p = 1 .. Len(s) /\ p # <<>>
  BY <1>1, OfCalls, FramesTyped
<1>3. s[1] = Top(t)
  BY DEF Top
<1> HIDE DEF s, p
<1>4. ASSUME NEW i \in DOMAIN p
      PROVE  i = 1 \/ (i \in 2 .. Len(s) /\ p[i] = s[i])
  BY <1>1, <1>2
<1>5. \A i \in DOMAIN p : p[i].lazy = s[i].lazy
  BY <1>1, <1>3, <1>4
<1>6. ASSUME NEW i \in DOMAIN p
      PROVE  /\ p[i].pc \in IF Owns(t) THEN {"read", "copy", "build", "stamp", "scope"} ELSE {"read", "init"}
             /\ i # 1 => p[i].pc \in {"build", "init", "scope"}
  <2>1. \A j \in DOMAIN s : /\ s[j].pc \in IF Owns(t) THEN {"read", "copy", "build", "stamp", "scope"}
                                                      ELSE {"read", "init"}
                            /\ j # 1 => s[j].pc \in {"build", "init", "scope"}
    BY OfThread DEF Sound, CallsRight, s
  <2> QED BY <1>1, <1>2, <1>4, <2>1
<1>7. \A i, j \in DOMAIN p : i < j => p[i].lazy < p[j].lazy
  <2>1. \A i, j \in DOMAIN s : i < j => s[i].lazy < s[j].lazy
    BY OfThread DEF Sound, CallsRight, s
  <2> QED BY <1>2, <1>5, <2>1
<1>8. Owns(t)' = Owns(t)
  BY DEF Owns
<1>9. local'[t].building = IF ~Owns(t) THEN 0
                           ELSE IF p[1].pc \in {"build", "scope"} THEN Len(p) ELSE Len(p) - 1
  BY <1>1, OfThread DEF Sound, CallsRight, Building, s
<1> QED BY <1>2, <1>6, <1>7, <1>8, <1>9 DEF CallsRight, Building, Top, p, Idle

\* ... and when it ends: the next is a build too, or there is none.
LEMMA GoneRight ==
  ASSUME Inv, NEW t \in Threads, frames[t] # <<>>,
         frames'[t] = Tail(frames[t]), local'[t].slot = local[t].slot,
         local'[t].building = IF Owns(t) /\ Top(t).pc \in {"build", "scope"}
                              THEN local[t].building - 1 ELSE local[t].building
  PROVE  CallsRight(t)'
<1> DEFINE s == frames[t]
           p == frames'[t]
<1>1. /\ p \in Seq(FrameFacts) /\ Len(p) = Len(s) - 1
      /\ \A i \in 1 .. Len(s) - 1 : p[i] = s[i + 1]
  BY CallGone, OfCalls
<1>2. /\ Len(s) \in Nat \ {0} /\ DOMAIN s = 1 .. Len(s) /\ DOMAIN p = 1 .. Len(s) - 1
      /\ p = <<>> <=> Len(s) = 1
  <2>1. Len(s) \in Nat \ {0} /\ DOMAIN s = 1 .. Len(s)
    BY OfCalls
  <2>2. DOMAIN p = 1 .. Len(p) /\ (p = <<>> <=> Len(p) = 0)
    BY <1>1, FramesTyped
  <2> QED BY <1>1, <2>1, <2>2
<1>3. /\ \A j \in DOMAIN s : s[j].pc \in IF Owns(t) THEN {"read", "copy", "build", "stamp", "scope"}
                                                    ELSE {"read", "init"}
      /\ \A i, j \in DOMAIN s : i < j => s[i].lazy < s[j].lazy
      /\ local[t].building = Building(t)
      /\ \A i \in 2 .. Len(s) : s[i].pc \in {"build", "init", "scope"}
  BY OfThread, OfCalls DEF Sound, CallsRight
<1>4. Owns(t)' = Owns(t)
  BY DEF Owns
<1>5. local'[t].building = IF Owns(t) THEN Len(s) - 1 ELSE 0
  BY <1>2, <1>3 DEF Building
<1> HIDE DEF s, p
<1>6. ASSUME NEW i \in DOMAIN p
      PROVE  /\ i + 1 \in DOMAIN s /\ p[i] = s[i + 1]
             /\ p[i].pc \in {"build", "init", "scope"}
             /\ p[i].pc \in IF Owns(t) THEN {"read", "copy", "build", "stamp", "scope"} ELSE {"read", "init"}
  <2>1. i + 1 \in DOMAIN s /\ p[i] = s[i + 1] /\ i + 1 \in 2 .. Len(s)
    BY <1>1, <1>2
  <2> QED BY <1>3, <2>1
<1>7. ASSUME NEW i \in DOMAIN p, NEW j \in DOMAIN p, i < j PROVE p[i].lazy < p[j].lazy
  <2>1. i + 1 < j + 1
    BY <1>2, <1>7
  <2> QED BY <1>3, <1>6, <2>1
<1>8. local'[t].building = IF ~Owns(t) \/ p = <<>> THEN 0
                           ELSE IF p[1].pc \in {"build", "scope"} THEN Len(p) ELSE Len(p) - 1
  <2>1. CASE p = <<>>
    <3>1. Len(s) - 1 = 0
      BY <1>2, <2>1
    <3> QED BY <1>5, <2>1, <3>1
  <2>2. CASE p # <<>>
    <3>1. 1 \in DOMAIN p
      BY <1>2, <2>2
    <3>2. Owns(t) => p[1].pc \in {"build", "scope"}
      BY <1>6, <3>1
    <3> QED BY <1>1, <1>5, <2>2, <3>2
  <2> QED BY <2>1, <2>2
<1> QED BY <1>4, <1>6, <1>7, <1>8 DEF CallsRight, Building, Top, p

\* A thread's stamps, from those of its builds and of its innermost call.
LEMMA StampsOf ==
  ASSUME NEW t \in Threads, frames'[t] \in Seq(FrameFacts), at'[t].pc # "free",
         \A i \in 2 .. Len(frames'[t]) : frames'[t][i].pc \in {"build", "init", "scope"},
         \A i \in 1 .. Len(frames'[t]) : frames'[t][i].pc = "build" =>
           stamp'[frames'[t][i].lazy][local'[t].slot] # local'[t].epoch,
         frames'[t] # <<>> =>
           /\ frames'[t][1].pc = "copy" =>
                stamp'[frames'[t][1].lazy][local'[t].slot] = local'[t].epoch
           /\ frames'[t][1].pc = "stamp" =>
                /\ stamp'[frames'[t][1].lazy][local'[t].slot] # local'[t].epoch
                /\ frames'[t][1].box = owned'[frames'[t][1].lazy][local'[t].slot]
                /\ frames'[t][1].box \in Range(local'[t].built)
                /\ heap'[frames'[t][1].box] = Own(frames'[t][1].lazy, t)
  PROVE  StampsRight(t)'
<1> DEFINE p == frames'[t]
<1>1. DOMAIN p = 1 .. Len(p) /\ Len(p) \in Nat /\ (p = <<>> <=> Len(p) = 0)
  BY FramesTyped
<1>2. \A i \in DOMAIN p : i = 1 \/ p[i].pc \in {"build", "init", "scope"}
  <2> HIDE DEF p
  <2>1. ASSUME NEW i \in DOMAIN p PROVE i = 1 \/ i \in 2 .. Len(p)
    BY <1>1
  <2> QED BY <2>1 DEF p
<1>3. \A i \in DOMAIN p : p # <<>>
  BY <1>1
<1>4. ASSUME NEW i \in DOMAIN p
      PROVE  /\ p[i].pc \in {"build", "stamp"} =>
                  stamp'[p[i].lazy][local'[t].slot] # local'[t].epoch
             /\ p[i].pc = "copy" => stamp'[p[i].lazy][local'[t].slot] = local'[t].epoch
             /\ p[i].pc = "stamp" => /\ p[i].box = owned'[p[i].lazy][local'[t].slot]
                                     /\ p[i].box \in Range(local'[t].built)
                                     /\ heap'[p[i].box] = Own(p[i].lazy, t)
  <2>1. CASE i = 1
    BY <1>1, <1>3, <2>1
  <2>2. CASE i # 1
    BY <1>1, <1>2, <2>2
  <2> QED BY <2>1, <2>2
<1> QED BY <1>4 DEF StampsRight, Current, p

\* A step inside a call, with the slot and the epoch as they are.
LEMMA InJob ==
  ASSUME Inv, NEW t \in Threads, at[t] = Idle, UNCHANGED <<claimed, epochs, at>>,
         local'[t].slot = local[t].slot, local'[t].epoch = local[t].epoch,
         \A u \in Threads \ {t} : local'[u] = local[u]
  PROVE  SlotsApart' /\ InPlace(t)' /\ Owns(t)' = Owns(t)
<1>1. \A u \in Threads : local'[u].slot = local[u].slot
  OBVIOUS
<1>2. \A u \in Threads, s \in Owners : HasSlot(u, s)' = HasSlot(u, s)
  BY <1>1 DEF HasSlot, Owns
<1>3. SlotsApart'
  BY <1>2 DEF Inv, SlotsApart
<1>4. InPlace(t)'
  BY OfThread DEF Sound, InPlace, Owns, Idle
<1> QED BY <1>3, <1>4 DEF Owns

\* The innermost call's next step.
LEMMA CallGoes ==
  ASSUME Inv, NEW t \in Threads, frames[t] # <<>>,
         NEW pc \in {"read", "copy", "build", "stamp", "init", "scope"}
  PROVE  /\ [Top(t) EXCEPT !.pc = pc] \in FrameFacts
         /\ [Top(t) EXCEPT !.pc = pc].pc = pc
         /\ [Top(t) EXCEPT !.pc = pc].lazy = Top(t).lazy
         /\ Goes(t, pc) \in [Threads -> Seq(FrameFacts)]
         /\ Goes(t, pc)[t] = [frames[t] EXCEPT ![1] = [Top(t) EXCEPT !.pc = pc]]
         /\ \A u \in Threads \ {t} : Goes(t, pc)[u] = frames[u]
<1> DEFINE f == [Top(t) EXCEPT !.pc = pc]
<1>1. /\ frames \in [Threads -> Seq(FrameFacts)] /\ frames[t] \in Seq(FrameFacts)
      /\ Top(t) \in FrameFacts /\ 1 \in DOMAIN frames[t]
  BY OfCalls DEF Inv, Typed
<1>2. f \in FrameFacts /\ f.pc = pc /\ f.lazy = Top(t).lazy
  BY <1>1 DEF FrameFacts
<1>3. [frames[t] EXCEPT ![1] = f] \in Seq(FrameFacts)
  BY <1>1, <1>2, CallChanged
<1>4. Goes(t, pc) = [frames EXCEPT ![t] = [frames[t] EXCEPT ![1] = f]]
  BY <1>1 DEF Goes, Top
<1> HIDE DEF f
<1> QED BY <1>1, <1>2, <1>3, <1>4 DEF f

\* The innermost call has built its box.
LEMMA CallMakes ==
  ASSUME Inv, NEW t \in Threads, frames[t] # <<>>, NEW a \in Boxes, frames' = Makes(t, "stamp", a)
  PROVE  /\ [Top(t) EXCEPT !.pc = "stamp", !.box = a] \in FrameFacts
         /\ [Top(t) EXCEPT !.pc = "stamp", !.box = a].pc = "stamp"
         /\ [Top(t) EXCEPT !.pc = "stamp", !.box = a].lazy = Top(t).lazy
         /\ [Top(t) EXCEPT !.pc = "stamp", !.box = a].box = a
         /\ frames' \in [Threads -> Seq(FrameFacts)]
         /\ frames'[t] = [frames[t] EXCEPT ![1] = [Top(t) EXCEPT !.pc = "stamp", !.box = a]]
         /\ \A u \in Threads \ {t} : frames'[u] = frames[u]
<1> DEFINE f == [Top(t) EXCEPT !.pc = "stamp"]
           g == [Top(t) EXCEPT !.pc = "stamp", !.box = a]
           q == Goes(t, "stamp")
<1>1. /\ frames \in [Threads -> Seq(FrameFacts)] /\ frames[t] \in Seq(FrameFacts)
      /\ Top(t) \in FrameFacts /\ 1 \in DOMAIN frames[t]
  BY OfCalls DEF Inv, Typed
<1>2. /\ g \in FrameFacts /\ g.pc = "stamp" /\ g.lazy = Top(t).lazy /\ g.box = a
      /\ [f EXCEPT !.box = a] = g
  BY <1>1 DEF FrameFacts
<1>3. [frames[t] EXCEPT ![1] = g] \in Seq(FrameFacts)
  BY <1>1, <1>2, CallChanged
<1>4. /\ q \in [Threads -> Seq(FrameFacts)] /\ q[t] = [frames[t] EXCEPT ![1] = f]
      /\ \A u \in Threads \ {t} : q[u] = frames[u]
  BY CallGoes
<1>5. Makes(t, "stamp", a) = [q EXCEPT ![t][1].box = a]
  BY DEF Makes, Goes
<1>6. q[t][1] = f
  BY <1>1, <1>4
<1> HIDE DEF f, g, q
<1>7. [q EXCEPT ![t][1].box = a] = [q EXCEPT ![t] = [q[t] EXCEPT ![1] = g]]
  BY <1>2, <1>4, <1>6
<1>8. [q[t] EXCEPT ![1] = g] = [frames[t] EXCEPT ![1] = g]
  BY <1>4
<1>9. Makes(t, "stamp", a) = [q EXCEPT ![t] = [frames[t] EXCEPT ![1] = g]]
  BY <1>5, <1>7, <1>8
<1> QED BY <1>2, <1>3, <1>4, <1>9 DEF g

\* The innermost call returns, and the job has the value.
LEMMA CallReturns ==
  ASSUME Inv, NEW t \in Threads, frames[t] # <<>>, NEW a \in Boxes, Return(t, a)
  PROVE  /\ frames' \in [Threads -> Seq(FrameFacts)] /\ frames'[t] = Tail(frames[t])
         /\ \A u \in Threads \ {t} : frames'[u] = frames[u] /\ held'[u] = held[u]
         /\ held' \in [Threads -> SUBSET (Lazies \X Boxes)]
         /\ held'[t] = held[t] \cup {<<Top(t).lazy, a>>}
<1>1. /\ frames \in [Threads -> Seq(FrameFacts)] /\ Tail(frames[t]) \in Seq(FrameFacts)
      /\ held \in [Threads -> SUBSET (Lazies \X Boxes)] /\ Top(t).lazy \in Lazies
  BY OfCalls, CallGone DEF Inv, Typed
<1>2. held[t] \cup {<<Top(t).lazy, a>>} \in SUBSET (Lazies \X Boxes)
  BY <1>1
<1> QED BY <1>1, <1>2 DEF Return

\* The builds a call was in are stale after it, and the calls before it were builds.
LEMMA OuterStale ==
  ASSUME Inv, NEW t \in Threads, frames[t] # <<>>, frames'[t] = Tail(frames[t]), at'[t].pc # "free",
         local'[t].slot = local[t].slot, local'[t].epoch = local[t].epoch,
         \A l \in Lazies : Owns(t) /\ l # Top(t).lazy =>
           stamp'[l][local[t].slot] = stamp[l][local[t].slot]
  PROVE  StampsRight(t)'
<1> DEFINE s == frames[t]
           p == frames'[t]
<1>1. /\ p \in Seq(FrameFacts) /\ Len(p) = Len(s) - 1 /\ Len(s) \in Nat
      /\ \A i \in 1 .. Len(s) - 1 : p[i] = s[i + 1]
  BY CallGone, OfCalls
<1>2. ASSUME NEW i \in 1 .. Len(p)
      PROVE  /\ p[i].pc \in {"build", "init", "scope"}
             /\ p[i].pc = "build" => stamp'[p[i].lazy][local'[t].slot] # local'[t].epoch
  <2>1. p[i] = s[i + 1] /\ i + 1 \in 2 .. Len(s) /\ i + 1 \in 1 .. Len(s)
    BY <1>1
  <2>2. /\ s[i + 1].pc \in {"build", "init", "scope"} /\ Top(t).lazy < s[i + 1].lazy
        /\ s[i + 1].lazy \in Lazies /\ Top(t).lazy \in Nat /\ s[i + 1].lazy \in Nat
        /\ s[i + 1].pc = "build" => Owns(t) /\ ~Current(t, s[i + 1].lazy)
    BY <2>1, OfCalls
  <2>3. s[i + 1].lazy # Top(t).lazy
    BY <2>2
  <2> QED BY <2>1, <2>2, <2>3 DEF Current
<1>3. p # <<>> => p[1].pc \in {"build", "init", "scope"}
  <2>1. p # <<>> => 1 \in 1 .. Len(p)
    BY <1>1, EmptySeq
  <2> QED BY <1>2, <2>1
<1>4. \A i \in 2 .. Len(p) : i \in 1 .. Len(p)
  BY <1>1
<1> QED BY <1>1, <1>2, <1>3, <1>4, StampsOf

-----------------------------------------------------------------------------
(* The steps of deref *)

\* A call or a scope begins: the job's, or one from an init or another scope.
LEMMA CallsAlone ==
  ASSUME Inv, NEW t \in Threads, NEW c \in FrameFacts, Calls(t, c),
         UNCHANGED <<claimed, epochs, owned, stamp, shared, once, at, held, heap, panics>>,
         c.pc = "read" \/ (c.pc = "scope" /\ Owns(t)),
         local' = IF c.pc = "scope" THEN [local EXCEPT ![t].building = @ + 1] ELSE local
  PROVE  Inv'
<1> DEFINE f == [Top(t) EXCEPT !.used = @ \cup {c.lazy}]
           s == frames[t]
<1>1. /\ UNCHANGED <<claimed, epochs, owned, stamp, shared, once, at, held, heap, panics>>
      /\ at[t] = Idle /\ c.lazy \in Lazies /\ c.pc \in {"read", "scope"}
  BY DEF Calls, FrameFacts
<1>2. /\ local' \in [Threads -> LocalFacts] /\ \A u \in Threads \ {t} : local'[u] = local[u]
      /\ local'[t].slot = local[t].slot /\ local'[t].epoch = local[t].epoch
      /\ local'[t].built = local[t].built
      /\ local'[t].building = IF c.pc = "scope" THEN local[t].building + 1 ELSE local[t].building
  <2>1. local \in [Threads -> LocalFacts] /\ local[t] \in LocalFacts
    BY OfThread DEF Inv, Typed
  <2>2. CASE c.pc = "scope"
    <3> DEFINE x == [local[t] EXCEPT !.building = local[t].building + 1]
    <3>1. local' = [local EXCEPT ![t] = x]
      BY <2>1, <2>2
    <3>2. local[t].building + 1 \in Nat
      BY <2>1 DEF LocalFacts
    <3>3. /\ x \in LocalFacts /\ x.slot = local[t].slot /\ x.epoch = local[t].epoch
          /\ x.built = local[t].built /\ x.building = local[t].building + 1
      BY <2>1, <3>2 DEF LocalFacts
    <3> HIDE DEF x
    <3> QED BY <2>1, <2>2, <3>1, <3>3
  <2>3. CASE c.pc # "scope"
    BY <2>1, <2>3
  <2> QED BY <2>2, <2>3
<1>3. SlotsApart' /\ InPlace(t)' /\ Owns(t)' = Owns(t)
  BY <1>1, <1>2, InJob
<1>4. StampsPast'
  BY <1>1 DEF Inv, StampsPast
<1>5. ListRight(t)' /\ CurrentIsThere(t)' /\ RefsLive(t)'
  BY <1>1, <1>2, <1>3, OfThread DEF Sound, ListRight, Listing, CurrentIsThere, Current, RefsLive
<1>6. frames \in [Threads -> Seq(FrameFacts)]
  BY DEF Inv, Typed
<1>7. /\ frames' \in [Threads -> Seq(FrameFacts)]
      /\ \A u \in Threads \ {t} : frames'[u] = frames[u]
      /\ CallsRight(t)' /\ StampsRight(t)'
  <2>1. CASE s = <<>>
    <3>1. frames' = [frames EXCEPT ![t] = <<c>>]
      BY <2>1 DEF Calls, At
    <3>2. /\ <<c>> \in Seq(FrameFacts)
          /\ Len(<<c>>) = 1 /\ <<c>>[1] = c
      BY <1>2
    <3>3. /\ frames' \in [Threads -> Seq(FrameFacts)] /\ frames'[t] = <<c>>
          /\ \A u \in Threads \ {t} : frames'[u] = frames[u]
      BY <1>6, <3>1, <3>2
    <3>4. DOMAIN frames'[t] = {1} /\ frames'[t] # <<>>
      BY <3>2, <3>3, FramesTyped
    <3>5. local[t].building = 0
      BY <2>1, OfThread DEF Sound, CallsRight, Building
    <3>6. at'[t].pc = "job"
      BY <1>1 DEF Idle
    <3>7. CallsRight(t)'
      BY <1>1, <1>2, <1>3, <3>2, <3>3, <3>4, <3>5, <3>6 DEF CallsRight, Building, Top
    <3>8. StampsRight(t)'
      BY <1>1, <1>2, <3>2, <3>3, <3>4, <3>6, StampsOf
    <3> QED BY <3>3, <3>7, <3>8
  <2>2. CASE s # <<>>
    <3>1. /\ Top(t).pc \in {"build", "init", "scope"} /\ c.lazy < Top(t).lazy
          /\ frames' = [frames EXCEPT ![t] = <<c, f>> \o Tail(s)]
      BY <2>2 DEF Calls, At
    <3>2. /\ s \in Seq(FrameFacts) /\ Len(s) \in Nat \ {0}
          /\ Top(t) \in FrameFacts /\ Top(t).used \subseteq Lazies /\ s[1] = Top(t)
          /\ \A i \in 2 .. Len(s) : s[i].pc \in {"build", "init", "scope"}
          /\ \A i \in 1 .. Len(s) : s[i].pc = "build" => Owns(t) /\ ~Current(t, s[i].lazy)
      BY <2>2, OfCalls DEF Top
    <3>3. f \in FrameFacts /\ f.pc = Top(t).pc /\ f.lazy = Top(t).lazy
      BY <3>2 DEF FrameFacts
    <3> HIDE DEF f
    <3>4. /\ <<c, f>> \o Tail(s) \in Seq(FrameFacts)
          /\ Len(<<c, f>> \o Tail(s)) = Len(s) + 1
          /\ (<<c, f>> \o Tail(s))[1] = c
          /\ (<<c, f>> \o Tail(s))[2] = f
          /\ \A i \in 2 .. Len(s) : (<<c, f>> \o Tail(s))[i + 1] = s[i]
      BY <1>2, <2>2, <3>2, <3>3, CallPut
    <3>5. /\ frames' \in [Threads -> Seq(FrameFacts)] /\ frames'[t] = <<c, f>> \o Tail(s)
          /\ \A u \in Threads \ {t} : frames'[u] = frames[u]
      BY <1>6, <3>1, <3>4
    <3>6. CallsRight(t)'
      BY <1>1, <1>2, <2>2, <3>1, <3>3, <3>5, PutRight
    <3> DEFINE p == frames'[t]
    <3>7. p[1].pc \in {"read", "scope"} /\ p \in Seq(FrameFacts) /\ Len(p) = Len(s) + 1
      BY <1>2, <3>4, <3>5
    <3>8. ASSUME NEW i \in 2 .. Len(p)
          PROVE  /\ p[i].pc \in {"build", "init", "scope"}
                 /\ p[i].pc = "build" => ~Current(t, p[i].lazy)
      <4>1. CASE i = 2
        <5>1. p[i].pc = s[1].pc /\ p[i].lazy = s[1].lazy /\ 1 \in 1 .. Len(s)
          BY <3>2, <3>3, <3>4, <3>5, <4>1
        <5> QED BY <3>1, <3>2, <5>1
      <4>2. CASE i # 2
        <5>1. i - 1 \in 2 .. Len(s) /\ i - 1 \in 1 .. Len(s) /\ (i - 1) + 1 = i
          BY <3>2, <3>7, <4>2
        <5>2. p[i] = s[i - 1]
          BY <3>4, <3>5, <5>1
        <5> QED BY <3>2, <5>1, <5>2
      <4> QED BY <4>1, <4>2
    <3>9. \A i \in 1 .. Len(p) : i = 1 \/ i \in 2 .. Len(p)
      BY <3>2, <3>7
    <3>10. \A i \in 1 .. Len(p) : p[i].pc = "build" =>
             stamp'[p[i].lazy][local'[t].slot] # local'[t].epoch
      BY <1>1, <1>2, <3>7, <3>8, <3>9 DEF Current
    <3>11. at'[t].pc # "free"
      BY <1>1 DEF Idle
    <3>12. StampsRight(t)'
      BY <3>7, <3>8, <3>10, <3>11, StampsOf
    <3> QED BY <3>5, <3>6, <3>12
  <2> QED BY <2>1, <2>2
<1>8. Typed' /\ OnlyBy(t)
  BY <1>1, <1>2, <1>7 DEF Inv, Typed, OnlyBy
<1> QED BY <1>1, <1>3, <1>4, <1>5, <1>7, <1>8, Alone DEF Sound

LEMMA DerefsAlone ==
  ASSUME Inv, NEW t \in Threads, NEW l \in Lazies, Deref(t, l)
  PROVE  Inv'
<1>1. NewCall(l) \in FrameFacts /\ NewCall(l).pc = "read"
  BY DEF NewCall, FrameFacts
<1> QED BY <1>1, CallsAlone DEF Deref

LEMMA ScopesAlone ==
  ASSUME Inv, NEW t \in Threads, NEW l \in Lazies, BeginScope(t, l)
  PROVE  Inv'
<1>1. NewScope(l) \in FrameFacts /\ NewScope(l).pc = "scope"
  BY DEF NewScope, NewCall, FrameFacts
<1> QED BY <1>1, CallsAlone DEF BeginScope

\* A scope ends: BUILDING is as it was when it began.
LEMMA ScopeEndsAlone ==
  ASSUME Inv, NEW t \in Threads, EndScope(t)
  PROVE  Inv'
<1>1. /\ UNCHANGED <<claimed, epochs, owned, stamp, shared, once, at, held, heap, panics>>
      /\ at[t] = Idle /\ frames[t] # <<>> /\ Top(t).pc = "scope" /\ Sound(t)
      /\ local[t] \in LocalFacts /\ local[t].building \in Nat
      /\ frames' = [frames EXCEPT ![t] = Tail(@)]
  BY OfThread DEF EndScope, At, Sound, InPlace
<1>2. Owns(t) /\ local[t].building = Len(frames[t]) /\ Len(frames[t]) \in Nat \ {0}
  <2>1. Owns(t) /\ Len(frames[t]) \in Nat \ {0}
    BY <1>1, OfCalls
  <2> QED BY <1>1, <2>1 DEF Sound, CallsRight, Building
<1>3. /\ local' \in [Threads -> LocalFacts] /\ \A u \in Threads \ {t} : local'[u] = local[u]
      /\ local'[t].slot = local[t].slot /\ local'[t].epoch = local[t].epoch
      /\ local'[t].built = local[t].built
      /\ local'[t].building = local[t].building - 1
  <2> DEFINE x == [local[t] EXCEPT !.building = local[t].building - 1]
  <2>1. local \in [Threads -> LocalFacts] /\ local' = [local EXCEPT ![t] = x]
    BY DEF EndScope, Inv, Typed
  <2>2. /\ x \in LocalFacts /\ x.slot = local[t].slot /\ x.epoch = local[t].epoch
        /\ x.built = local[t].built /\ x.building = local[t].building - 1
    BY <1>1, <1>2 DEF LocalFacts
  <2> HIDE DEF x
  <2> QED BY <2>1, <2>2
<1>4. /\ frames' \in [Threads -> Seq(FrameFacts)] /\ frames'[t] = Tail(frames[t])
      /\ \A u \in Threads \ {t} : frames'[u] = frames[u]
  <2>1. frames \in [Threads -> Seq(FrameFacts)] /\ Tail(frames[t]) \in Seq(FrameFacts)
    BY <1>1, OfCalls, CallGone DEF Inv, Typed
  <2> QED BY <1>1, <2>1
<1>5. Typed' /\ OnlyBy(t)
  BY <1>1, <1>3, <1>4 DEF Inv, Typed, OnlyBy
<1>6. SlotsApart' /\ InPlace(t)' /\ Owns(t)' = Owns(t)
  BY <1>1, <1>3, InJob
<1>7. StampsPast'
  BY <1>1 DEF Inv, StampsPast
<1>8. CallsRight(t)'
  BY <1>1, <1>2, <1>3, <1>4, GoneRight
<1>9. StampsRight(t)'
  <2>1. at'[t].pc # "free"
    BY <1>1 DEF Idle
  <2> QED BY <1>1, <1>3, <1>4, <2>1, OuterStale
<1>10. ListRight(t)' /\ CurrentIsThere(t)' /\ RefsLive(t)'
  BY <1>1, <1>3, <1>6 DEF Sound, ListRight, Listing, CurrentIsThere, Current, RefsLive
<1> QED BY <1>1, <1>5, <1>6, <1>7, <1>8, <1>9, <1>10, Alone DEF Sound

\* A call's own step leaves the builds it is in as they are.
LEMMA GoesStale ==
  ASSUME Inv, NEW t \in Threads, frames[t] # <<>>, at'[t].pc # "free", NEW f \in FrameFacts,
         f.lazy = Top(t).lazy, frames'[t] = [frames[t] EXCEPT ![1] = f],
         stamp' = stamp, local'[t].slot = local[t].slot, local'[t].epoch = local[t].epoch,
         f.pc \in {"build", "stamp"} => ~Current(t, f.lazy),
         f.pc = "copy" => Current(t, f.lazy),
         f.pc = "stamp" => /\ f.box = owned'[f.lazy][local[t].slot]
                           /\ f.box \in Range(local'[t].built) /\ heap'[f.box] = Own(f.lazy, t)
  PROVE  StampsRight(t)'
<1> DEFINE s == frames[t]
           p == frames'[t]
<1>1. /\ p \in Seq(FrameFacts) /\ Len(p) = Len(s) /\ p[1] = f /\ Len(s) \in Nat
      /\ \A i \in 2 .. Len(s) : p[i] = s[i]
  BY CallChanged, OfCalls
<1>2. \A i \in 1 .. Len(s) : i = 1 \/ i \in 2 .. Len(s)
  BY <1>1
<1>3. \A i \in 2 .. Len(s) : s[i].pc \in {"build", "init", "scope"}
  BY OfCalls
<1>4. \A i \in 1 .. Len(s) : s[i].pc = "build" => ~Current(t, s[i].lazy)
  BY OfCalls
<1> HIDE DEF s, p
<1>5. \A i \in 1 .. Len(p) : p[i].pc = "build" => ~Current(t, p[i].lazy)
  BY <1>1, <1>2, <1>4
<1>6. \A i \in 1 .. Len(p) : p[i].pc = "build" =>
        stamp'[p[i].lazy][local'[t].slot] # local'[t].epoch
  BY <1>5 DEF Current
<1>7. \A i \in 2 .. Len(p) : p[i].pc \in {"build", "init", "scope"}
  BY <1>1, <1>3
<1>8. /\ p[1].pc = "copy" => stamp'[p[1].lazy][local'[t].slot] = local'[t].epoch
      /\ p[1].pc = "stamp" => /\ stamp'[p[1].lazy][local'[t].slot] # local'[t].epoch
                              /\ p[1].box = owned'[p[1].lazy][local'[t].slot]
                              /\ p[1].box \in Range(local'[t].built)
                              /\ heap'[p[1].box] = Own(p[1].lazy, t)
  BY <1>1 DEF Current
<1> QED BY <1>1, <1>6, <1>7, <1>8, StampsOf DEF p

\* An owner finds its copy current, or builds one that is not.
LEMMA ReadsAlone ==
  ASSUME Inv, NEW t \in Threads, ReadStamp(t)
  PROVE  Inv'
<1>1. /\ UNCHANGED <<claimed, epochs, owned, stamp, shared, once, at, held, heap, panics>>
      /\ at[t] = Idle /\ frames[t] # <<>> /\ Top(t).pc = "read" /\ Owns(t) /\ Sound(t)
      /\ local[t] \in LocalFacts /\ local[t].building \in Nat /\ 0 \in Boxes \cup {0}
  BY OfThread DEF ReadStamp, At, Sound, InPlace
<1> DEFINE pc == IF Current(t, Top(t).lazy) THEN "copy" ELSE "build"
           f == [Top(t) EXCEPT !.pc = pc]
<1>2. /\ pc \in {"copy", "build"} /\ (pc = "copy" <=> Current(t, Top(t).lazy))
      /\ frames' = Goes(t, pc)
  BY DEF ReadStamp, Current
<1>3. local[t].building = Len(frames[t]) - 1
  BY <1>1 DEF Sound, CallsRight, Building
<1>4. /\ local' \in [Threads -> LocalFacts] /\ \A u \in Threads \ {t} : local'[u] = local[u]
      /\ local'[t].slot = local[t].slot /\ local'[t].epoch = local[t].epoch
      /\ local'[t].built = local[t].built
      /\ local'[t].building = IF pc = "build" THEN Len(frames[t]) ELSE Len(frames[t]) - 1
  <2>1. CASE Current(t, Top(t).lazy)
    BY <1>1, <1>3, <2>1 DEF ReadStamp, Current, Inv, Typed
  <2>2. CASE ~Current(t, Top(t).lazy)
    <3> DEFINE x == [local[t] EXCEPT !.building = local[t].building + 1]
    <3>1. local \in [Threads -> LocalFacts] /\ local' = [local EXCEPT ![t] = x]
      BY <2>2 DEF ReadStamp, Current, Inv, Typed
    <3>2. /\ x \in LocalFacts /\ x.slot = local[t].slot /\ x.epoch = local[t].epoch
          /\ x.built = local[t].built /\ x.building = local[t].building + 1
      BY <1>1 DEF LocalFacts
    <3> HIDE DEF x
    <3>3. local[t].building + 1 = Len(frames[t])
      BY <1>1, <1>3, OfCalls
    <3> QED BY <1>2, <2>2, <3>1, <3>2, <3>3
  <2> QED BY <2>1, <2>2
<1> HIDE DEF pc
<1>5. /\ f \in FrameFacts /\ f.pc = pc /\ f.lazy = Top(t).lazy
      /\ frames' \in [Threads -> Seq(FrameFacts)]
      /\ frames'[t] = [frames[t] EXCEPT ![1] = f]
      /\ \A u \in Threads \ {t} : frames'[u] = frames[u]
  <2>1. pc \in {"read", "copy", "build", "stamp", "init", "scope"}
    BY <1>2
  <2>2. f \in FrameFacts /\ f.pc = pc /\ f.lazy = Top(t).lazy
    BY <1>1, <2>1, CallGoes
  <2>3. /\ Goes(t, pc) \in [Threads -> Seq(FrameFacts)]
        /\ Goes(t, pc)[t] = [frames[t] EXCEPT ![1] = f]
        /\ \A u \in Threads \ {t} : Goes(t, pc)[u] = frames[u]
    BY <1>1, <2>1, CallGoes
  <2> HIDE DEF f
  <2> QED BY <1>2, <2>2, <2>3
<1> HIDE DEF f
<1>6. Typed' /\ OnlyBy(t)
  BY <1>1, <1>4, <1>5 DEF Inv, Typed, OnlyBy
<1>7. SlotsApart' /\ InPlace(t)' /\ Owns(t)' = Owns(t)
  BY <1>1, <1>4, InJob
<1>8. StampsPast'
  BY <1>1 DEF Inv, StampsPast
<1>9. CallsRight(t)'
  BY <1>1, <1>2, <1>4, <1>5, ChangedRight
<1>10. StampsRight(t)'
  <2>1. at'[t].pc # "free"
    BY <1>1 DEF Idle
  <2> QED BY <1>1, <1>2, <1>4, <1>5, <2>1, GoesStale
<1>11. ListRight(t)' /\ CurrentIsThere(t)' /\ RefsLive(t)'
  BY <1>1, <1>4, <1>7 DEF Sound, ListRight, Listing, CurrentIsThere, Current, RefsLive
<1> QED BY <1>1, <1>6, <1>7, <1>8, <1>9, <1>10, <1>11, Alone DEF Sound

\* A copy found current is still there and the thread's own: only its owner frees it.
LEMMA UsesAlone ==
  ASSUME Inv, NEW t \in Threads, UseCopy(t)
  PROVE  Inv'
<1> DEFINE l == Top(t).lazy
           a == owned[l][local[t].slot]
<1>1. /\ UNCHANGED <<claimed, epochs, owned, stamp, shared, once, local, at, heap, panics>>
      /\ at[t] = Idle /\ frames[t] # <<>> /\ Top(t).pc = "copy" /\ Sound(t)
      /\ local[t].built \in Seq(Boxes)
  BY OfThread DEF UseCopy, At, Sound, InPlace
<1>2. Owns(t) /\ l \in Lazies /\ Current(t, l)
  <2>1. Owns(t) /\ l \in Lazies /\ 1 \in DOMAIN frames[t]
    BY <1>1, OfCalls
  <2> QED BY <1>1, <2>1 DEF Sound, StampsRight, Top
<1>3. a \in Boxes /\ heap[a] = Own(l, t)
  <2>1. a \in Range(local[t].built) /\ heap[a] = Own(l, t)
    BY <1>1, <1>2 DEF Sound, CurrentIsThere
  <2> QED BY <1>1, <2>1, RangeOfSeq
<1>4. /\ frames' \in [Threads -> Seq(FrameFacts)] /\ frames'[t] = Tail(frames[t])
      /\ \A u \in Threads \ {t} : frames'[u] = frames[u] /\ held'[u] = held[u]
      /\ held' \in [Threads -> SUBSET (Lazies \X Boxes)]
      /\ held'[t] = held[t] \cup {<<l, a>>}
  BY <1>1, <1>3, CallReturns DEF UseCopy
<1>5. Typed' /\ OnlyBy(t)
  BY <1>1, <1>4 DEF Inv, Typed, OnlyBy
<1>6. SlotsApart' /\ InPlace(t)' /\ Owns(t)' = Owns(t)
  BY <1>1, InJob
<1>7. StampsPast'
  BY <1>1 DEF Inv, StampsPast
<1>8. CallsRight(t)'
  BY <1>1, <1>4, GoneRight
<1>9. StampsRight(t)'
  <2>1. at'[t].pc # "free"
    BY <1>1 DEF Idle
  <2> QED BY <1>1, <1>4, <2>1, OuterStale
<1>10. ListRight(t)' /\ CurrentIsThere(t)'
  BY <1>1, <1>6 DEF Sound, ListRight, Listing, CurrentIsThere, Current
<1>11. RefsLive(t)'
  BY <1>1, <1>3, <1>4 DEF Sound, RefsLive
<1> QED BY <1>1, <1>5, <1>6, <1>7, <1>8, <1>9, <1>10, <1>11, Alone DEF Sound

\* A new box is nobody's yet.
LEMMA BoxFree ==
  ASSUME Inv, NEW t \in Threads, NEW a \in Empty
  PROVE  /\ a \in Boxes /\ heap[a].by = "nobody" /\ heap[a].by \notin Threads
         /\ \A b \in Boxes : heap[b].by \in Threads \cup {"kept"} => b # a
BY Frees, LazyAssumption DEF Empty

\* A new copy is listed, and replaces one that was stale.
LEMMA MakesAlone ==
  ASSUME Inv, NEW t \in Threads, MakeCopy(t)
  PROVE  Inv'
<1> DEFINE l == Top(t).lazy
           s == local[t].slot
           built == local[t].built
<1>1. /\ UNCHANGED <<claimed, epochs, stamp, shared, once, at, held, panics>>
      /\ at[t] = Idle /\ frames[t] # <<>> /\ Top(t).pc = "build" /\ Sound(t)
      /\ local[t] \in LocalFacts /\ built \in Seq(Boxes)
  BY OfThread DEF MakeCopy, At, Sound, InPlace
<1>2. PICK a \in Empty : /\ heap' = [heap EXCEPT ![a] = Own(l, t)]
                         /\ local' = Listed(t, a)
                         /\ owned' = [owned EXCEPT ![l][s] = a]
                         /\ frames' = Makes(t, "stamp", a)
  BY DEF MakeCopy
<1>3. Owns(t) /\ l \in Lazies /\ s \in Owners /\ ~Current(t, l)
  <2>1. Owns(t) /\ l \in Lazies /\ s \in Owners /\ 1 \in DOMAIN frames[t]
    BY <1>1, OfCalls
  <2> QED BY <1>1, <2>1 DEF Sound, StampsRight, Top
<1>4. a \in Boxes /\ a \in Boxes \cup {0} /\ heap[a].by = "nobody" /\ a \notin Range(built)
  <2>1. a \in Boxes /\ heap[a].by = "nobody" /\ heap[a].by # t
    BY BoxFree
  <2> QED BY <1>1, <2>1, OfCalls DEF Sound, ListRight
<1>5. /\ heap' \in [Boxes -> HeapFacts] /\ heap'[a] = Own(l, t) /\ heap'[a].by = t
      /\ \A b \in Boxes : b # a => heap'[b] = heap[b]
  <2>1. Own(l, t) \in HeapFacts /\ heap \in [Boxes -> HeapFacts]
    BY <1>3 DEF Own, HeapFacts, Inv, Typed
  <2> QED BY <1>2, <1>4, <2>1, Frees
<1>6. /\ owned' \in [Lazies -> [Owners -> Boxes \cup {0}]] /\ owned'[l][s] = a
      /\ \A m \in Lazies, z \in Owners : m # l \/ z # s => owned'[m][z] = owned[m][z]
  <2>1. owned \in [Lazies -> [Owners -> Boxes \cup {0}]]
    BY DEF Inv, Typed
  <2> QED BY <1>2, <1>3, <1>4, <2>1
<1>7. local[t].building = Len(frames[t]) /\ Len(frames[t]) \in Nat \ {0}
  BY <1>1, <1>3, OfCalls DEF Sound, CallsRight, Building
<1>8. /\ local' \in [Threads -> LocalFacts] /\ \A u \in Threads \ {t} : local'[u] = local[u]
      /\ local'[t].slot = s /\ local'[t].epoch = local[t].epoch
      /\ local'[t].built = Append(built, a)
      /\ local'[t].building = Len(frames[t]) - 1
  <2> DEFINE x == [local[t] EXCEPT !.building = local[t].building - 1, !.built = Append(built, a)]
  <2>1. local \in [Threads -> LocalFacts] /\ local' = [local EXCEPT ![t] = x]
    BY <1>2 DEF Listed, Inv, Typed
  <2>2. local[t].building - 1 \in Nat /\ Append(built, a) \in Seq(Boxes)
    BY <1>1, <1>4, <1>7, ItemSent
  <2>3. /\ x \in LocalFacts /\ x.slot = s /\ x.epoch = local[t].epoch
        /\ x.built = Append(built, a) /\ x.building = local[t].building - 1
    BY <1>1, <2>2 DEF LocalFacts
  <2> HIDE DEF x
  <2> QED BY <1>7, <2>1, <2>3
<1> DEFINE f == [Top(t) EXCEPT !.pc = "stamp", !.box = a]
<1>9. /\ f \in FrameFacts /\ f.pc = "stamp" /\ f.lazy = l /\ f.box = a
      /\ frames' \in [Threads -> Seq(FrameFacts)]
      /\ frames'[t] = [frames[t] EXCEPT ![1] = f]
      /\ \A u \in Threads \ {t} : frames'[u] = frames[u]
  <2>1. a \in Boxes /\ frames[t] # <<>> /\ frames' = Makes(t, "stamp", a)
    BY <1>1, <1>2, <1>4
  <2> QED BY <2>1, CallMakes
<1> HIDE DEF f
<1>10. Typed'
  BY <1>1, <1>5, <1>6, <1>8, <1>9 DEF Inv, Typed
<1>11. OnlyBy(t)
  <2>1. HasSlot(t, s)
    BY <1>3 DEF HasSlot
  <2> QED BY <1>1, <1>4, <1>5, <1>6, <1>8, <1>9, <2>1 DEF OnlyBy
<1>12. SlotsApart' /\ InPlace(t)' /\ Owns(t)' = Owns(t)
  BY <1>1, <1>8, InJob
<1>13. StampsPast'
  BY <1>1 DEF Inv, StampsPast
<1>14. CallsRight(t)'
  BY <1>1, <1>3, <1>8, <1>9, ChangedRight
<1>15. /\ Range(Append(built, a)) = Range(built) \cup {a}
       /\ IsInjective(Append(built, a))
  BY <1>1, <1>4, OfCalls, ItemSent DEF Sound, ListRight
<1>16. StampsRight(t)'
  <2>1. at'[t].pc # "free"
    BY <1>1 DEF Idle
  <2>2. /\ f.box = owned'[f.lazy][local[t].slot]
        /\ f.box \in Range(local'[t].built) /\ heap'[f.box] = Own(f.lazy, t)
    BY <1>5, <1>6, <1>8, <1>9, <1>15
  <2> QED BY <1>1, <1>3, <1>8, <1>9, <2>1, <2>2, GoesStale
<1>17. ListRight(t)'
  <2>1. Listing(t)' = Append(built, a)
    BY <1>1, <1>8 DEF Listing, Idle
  <2>2. \A b \in Boxes : b \in Range(built) <=> heap[b].by = t
    BY <1>1, OfCalls DEF Sound, ListRight
  <2>3. ASSUME NEW b \in Boxes PROVE b \in Range(Append(built, a)) <=> heap'[b].by = t
    BY <1>5, <1>15, <2>2
  <2> QED BY <1>15, <2>1, <2>3 DEF ListRight
<1>18. CurrentIsThere(t)'
  <2> SUFFICES ASSUME NEW m \in Lazies, Current(t, m)
               PROVE  owned'[m][s] \in Range(Append(built, a)) /\ heap'[owned'[m][s]] = Own(m, t)
    BY <1>1, <1>8 DEF CurrentIsThere, Current
  <2>1. m # l /\ owned'[m][s] = owned[m][s]
    BY <1>3, <1>6
  <2>2. owned[m][s] \in Range(built) /\ heap[owned[m][s]] = Own(m, t)
    BY <1>1, <1>3 DEF Sound, CurrentIsThere
  <2>3. owned[m][s] \in Boxes
    BY <1>1, <2>2, RangeOfSeq
  <2>4. owned[m][s] # a
    BY <1>4, <2>2
  <2> QED BY <1>5, <1>15, <2>1, <2>2, <2>3, <2>4
<1>19. RefsLive(t)'
  <2> SUFFICES ASSUME NEW h \in held[t] PROVE heap'[h[2]] \in {Own(h[1], t), Kept(h[1])}
    BY <1>1 DEF RefsLive
  <2>1. h[2] \in Boxes /\ heap[h[2]] \in {Own(h[1], t), Kept(h[1])}
    BY <1>1, OfThread DEF Sound, RefsLive
  <2>2. heap[h[2]].by \in {t, "kept"}
    BY <2>1, Frees
  <2>3. h[2] # a
    BY <2>1, <2>2, BoxFree
  <2> QED BY <1>5, <2>1, <2>3
<1> QED BY <1>1, <1>10, <1>11, <1>12, <1>13, <1>14, <1>16, <1>17, <1>18, <1>19, Alone DEF Sound

\* A copy is stamped current when it is in place and listed.
LEMMA StampsAlone ==
  ASSUME Inv, NEW t \in Threads, StoreStamp(t)
  PROVE  Inv'
<1> DEFINE l == Top(t).lazy
           s == local[t].slot
           a == Top(t).box
<1>1. /\ UNCHANGED <<claimed, epochs, owned, shared, once, local, at, heap, panics>>
      /\ at[t] = Idle /\ frames[t] # <<>> /\ Top(t).pc = "stamp" /\ Sound(t)
      /\ local[t].built \in Seq(Boxes) /\ local[t].epoch \in Nat
  BY OfThread DEF StoreStamp, At, Sound, InPlace
<1>2. /\ Owns(t) /\ l \in Lazies /\ s \in Owners /\ 1 \in DOMAIN frames[t]
      /\ epochs[s] = local[t].epoch
  BY <1>1, OfCalls DEF Sound, InPlace
<1>3. a = owned[l][s] /\ a \in Range(local[t].built) /\ a \in Boxes /\ heap[a] = Own(l, t)
  <2>1. a = owned[l][s] /\ a \in Range(local[t].built) /\ heap[a] = Own(l, t)
    BY <1>1, <1>2 DEF Sound, StampsRight, Top
  <2> QED BY <1>1, <2>1, RangeOfSeq
<1>4. /\ frames' \in [Threads -> Seq(FrameFacts)] /\ frames'[t] = Tail(frames[t])
      /\ \A u \in Threads \ {t} : frames'[u] = frames[u] /\ held'[u] = held[u]
      /\ held' \in [Threads -> SUBSET (Lazies \X Boxes)]
      /\ held'[t] = held[t] \cup {<<l, a>>}
  BY <1>1, <1>3, CallReturns DEF StoreStamp
<1>5. /\ stamp' \in [Lazies -> [Owners -> Nat]] /\ stamp'[l][s] = local[t].epoch
      /\ \A m \in Lazies, z \in Owners : m # l \/ z # s => stamp'[m][z] = stamp[m][z]
  <2>1. stamp \in [Lazies -> [Owners -> Nat]] /\ stamp' = [stamp EXCEPT ![l][s] = local[t].epoch]
    BY DEF StoreStamp, Inv, Typed
  <2> QED BY <1>1, <1>2, <2>1
<1>6. Typed'
  BY <1>1, <1>4, <1>5 DEF Inv, Typed
<1>7. OnlyBy(t)
  <2>1. HasSlot(t, s)
    BY <1>2 DEF HasSlot
  <2> QED BY <1>1, <1>4, <1>5, <2>1 DEF OnlyBy
<1>8. SlotsApart' /\ InPlace(t)' /\ Owns(t)' = Owns(t)
  BY <1>1, InJob
<1>9. StampsPast'
  <2> SUFFICES ASSUME NEW m \in Lazies, NEW z \in Owners PROVE stamp'[m][z] <= epochs[z]
    BY <1>1 DEF StampsPast
  <2>1. stamp[m][z] <= epochs[z] /\ epochs[z] \in Nat
    BY DEF Inv, StampsPast, Typed
  <2>2. CASE m = l /\ z = s
    BY <1>2, <1>5, <2>1, <2>2
  <2>3. CASE m # l \/ z # s
    BY <1>5, <2>1, <2>3
  <2> QED BY <2>2, <2>3
<1>10. CallsRight(t)'
  BY <1>1, <1>4, GoneRight
<1>11. StampsRight(t)'
  <2>1. at'[t].pc # "free"
    BY <1>1 DEF Idle
  <2> QED BY <1>1, <1>2, <1>4, <1>5, <2>1, OuterStale
<1>12. ListRight(t)'
  BY <1>1 DEF Sound, ListRight, Listing
<1>13. CurrentIsThere(t)'
  <2> SUFFICES ASSUME NEW m \in Lazies, stamp'[m][s] = local[t].epoch
               PROVE  owned[m][s] \in Range(local[t].built) /\ heap[owned[m][s]] = Own(m, t)
    BY <1>1 DEF CurrentIsThere, Current
  <2>1. CASE m = l
    BY <1>3, <2>1
  <2>2. CASE m # l
    BY <1>1, <1>2, <1>5, <2>2 DEF Sound, CurrentIsThere, Current
  <2> QED BY <2>1, <2>2
<1>14. RefsLive(t)'
  BY <1>1, <1>3, <1>4 DEF Sound, RefsLive
<1> QED BY <1>1, <1>6, <1>7, <1>8, <1>9, <1>10, <1>11, <1>12, <1>13, <1>14, Alone DEF Sound

\* A thread that owns no slot gets the kept value, or builds it.
LEMMA ReadsSharedAlone ==
  ASSUME Inv, NEW t \in Threads, ReadShared(t)
  PROVE  Inv'
<1> DEFINE l == Top(t).lazy
<1>1. /\ UNCHANGED <<claimed, epochs, owned, stamp, shared, local, at, heap, panics>>
      /\ at[t] = Idle /\ frames[t] # <<>> /\ Top(t).pc = "read" /\ ~Owns(t) /\ Sound(t)
      /\ at'[t].pc # "free" /\ l \in Lazies /\ 0 \in Boxes \cup {0}
  BY OfThread, OfCalls DEF ReadShared, At, Sound, InPlace, Idle
<1>2. SlotsApart' /\ InPlace(t)' /\ Owns(t)' = Owns(t)
  BY <1>1, InJob
<1>3. StampsPast' /\ ListRight(t)' /\ CurrentIsThere(t)'
  BY <1>1, <1>2 DEF Inv, StampsPast, Sound, ListRight, Listing, CurrentIsThere, Current
<1>4. CASE shared[l] # 0 /\ Return(t, shared[l]) /\ UNCHANGED once
  <2>1. shared[l] \in Boxes /\ heap[shared[l]] = Kept(l)
    BY <1>1, <1>4 DEF Inv, Typed, SharedIsKept
  <2>2. /\ frames' \in [Threads -> Seq(FrameFacts)] /\ frames'[t] = Tail(frames[t])
        /\ \A u \in Threads \ {t} : frames'[u] = frames[u] /\ held'[u] = held[u]
        /\ held' \in [Threads -> SUBSET (Lazies \X Boxes)]
        /\ held'[t] = held[t] \cup {<<l, shared[l]>>}
    BY <1>1, <1>4, <2>1, CallReturns
  <2>3. Typed' /\ OnlyBy(t)
    BY <1>1, <1>4, <2>2 DEF Inv, Typed, OnlyBy
  <2>4. CallsRight(t)' /\ StampsRight(t)'
    BY <1>1, <2>2, GoneRight, OuterStale
  <2>5. RefsLive(t)'
    BY <1>1, <2>1, <2>2 DEF Sound, RefsLive
  <2> QED BY <1>1, <1>2, <1>3, <2>3, <2>4, <2>5, Alone DEF Sound
<1>5. CASE /\ shared[l] = 0 /\ once[l] = None
           /\ once' = [once EXCEPT ![l] = t]
           /\ frames' = Goes(t, "init")
           /\ UNCHANGED held
  <2> DEFINE f == [Top(t) EXCEPT !.pc = "init"]
  <2>1. /\ f \in FrameFacts /\ f.pc = "init" /\ f.lazy = l
        /\ frames' \in [Threads -> Seq(FrameFacts)]
        /\ frames'[t] = [frames[t] EXCEPT ![1] = f]
        /\ \A u \in Threads \ {t} : frames'[u] = frames[u]
    BY <1>1, <1>5, CallGoes
  <2> HIDE DEF f
  <2>2. once' \in [Lazies -> Threads \cup {None}]
    BY <1>1, <1>5 DEF Inv, Typed
  <2>3. Typed' /\ OnlyBy(t)
    BY <1>1, <1>5, <2>1, <2>2 DEF Inv, Typed, OnlyBy
  <2>4. CallsRight(t)' /\ StampsRight(t)'
    BY <1>1, <2>1, ChangedRight, GoesStale
  <2>5. RefsLive(t)'
    BY <1>1, <1>5 DEF Sound, RefsLive
  <2> QED BY <1>1, <1>2, <1>3, <2>3, <2>4, <2>5, Alone DEF Sound
<1> QED BY <1>4, <1>5 DEF ReadShared

\* A kept value is on no list.
LEMMA MakesSharedAlone ==
  ASSUME Inv, NEW t \in Threads, MakeShared(t)
  PROVE  Inv'
<1> DEFINE l == Top(t).lazy
<1>1. /\ UNCHANGED <<claimed, epochs, owned, stamp, local, at, panics>>
      /\ at[t] = Idle /\ frames[t] # <<>> /\ Top(t).pc = "init" /\ Sound(t)
      /\ at'[t].pc # "free" /\ l \in Lazies /\ ~Owns(t)
      /\ once' = [once EXCEPT ![l] = None]
  BY OfThread, OfCalls DEF MakeShared, At, Sound, InPlace, Idle
<1>2. PICK a \in Empty : /\ heap' = [heap EXCEPT ![a] = Kept(l)]
                         /\ shared' = [shared EXCEPT ![l] = a]
                         /\ Return(t, a)
  BY DEF MakeShared
<1>3. a \in Boxes /\ heap[a].by = "nobody"
  BY BoxFree
<1>4. /\ heap' \in [Boxes -> HeapFacts] /\ heap'[a] = Kept(l) /\ heap'[a].by = "kept"
      /\ \A b \in Boxes : b # a => heap'[b] = heap[b]
  <2>1. Kept(l) \in HeapFacts /\ heap \in [Boxes -> HeapFacts]
    BY <1>1 DEF Kept, HeapFacts, Inv, Typed
  <2> QED BY <1>2, <1>3, <2>1, Frees
<1>5. /\ shared' \in [Lazies -> Boxes \cup {0}]
      /\ \A m \in Lazies : shared'[m] # shared[m] => heap'[shared'[m]] = Kept(m)
  <2>1. shared \in [Lazies -> Boxes \cup {0}]
    BY DEF Inv, Typed
  <2> QED BY <1>2, <1>3, <1>4, <2>1
<1>6. /\ frames' \in [Threads -> Seq(FrameFacts)] /\ frames'[t] = Tail(frames[t])
      /\ \A u \in Threads \ {t} : frames'[u] = frames[u] /\ held'[u] = held[u]
      /\ held' \in [Threads -> SUBSET (Lazies \X Boxes)]
      /\ held'[t] = held[t] \cup {<<l, a>>}
  BY <1>1, <1>2, <1>3, CallReturns
<1>7. Typed'
  <2>1. once' \in [Lazies -> Threads \cup {None}]
    BY <1>1 DEF Inv, Typed
  <2> QED BY <1>1, <1>4, <1>5, <1>6, <2>1 DEF Inv, Typed
<1>8. OnlyBy(t)
  BY <1>1, <1>3, <1>4, <1>6 DEF OnlyBy
<1>9. SlotsApart' /\ InPlace(t)' /\ Owns(t)' = Owns(t)
  BY <1>1, InJob
<1>10. StampsPast' /\ CurrentIsThere(t)'
  BY <1>1, <1>9 DEF Inv, StampsPast, CurrentIsThere
<1>11. CallsRight(t)' /\ StampsRight(t)'
  BY <1>1, <1>6, GoneRight, OuterStale
<1>12. ListRight(t)'
  <2>1. \A b \in Boxes : heap'[b].by = t <=> heap[b].by = t
    BY <1>3, <1>4, LazyAssumption
  <2> QED BY <1>1, <2>1 DEF Sound, ListRight, Listing
<1>13. RefsLive(t)'
  <2> SUFFICES ASSUME NEW h \in held[t] PROVE heap'[h[2]] \in {Own(h[1], t), Kept(h[1])}
    BY <1>4, <1>6 DEF RefsLive
  <2>1. h[2] \in Boxes /\ heap[h[2]] \in {Own(h[1], t), Kept(h[1])}
    BY <1>1, OfThread DEF Sound, RefsLive
  <2>2. heap[h[2]].by \in {t, "kept"}
    BY <2>1, Frees
  <2>3. h[2] # a
    BY <2>1, <2>2, BoxFree
  <2> QED BY <1>4, <2>1, <2>3
<1> QED BY <1>5, <1>7, <1>8, <1>9, <1>10, <1>11, <1>12, <1>13, Alone DEF Sound

\* An init that panics leaves the builds it is in under way.
LEMMA PanicsAlone ==
  ASSUME Inv, NEW t \in Threads, Panic(t)
  PROVE  Inv'
<1> USE OfThread
<1>1. /\ UNCHANGED <<claimed, epochs, owned, stamp, shared, once, local, frames, held, heap>>
      /\ at[t] = Idle /\ frames[t] # <<>> /\ Top(t).pc \in {"build", "init", "scope"}
      /\ at' = [at EXCEPT ![t].pc = "unwind"] /\ at \in [Threads -> AtFacts]
  BY DEF Panic, At, Sound, InPlace, Inv, Typed
<1>2. /\ at' \in [Threads -> AtFacts] /\ at'[t] = [Idle EXCEPT !.pc = "unwind"]
      /\ \A u \in Threads \ {t} : at'[u] = at[u]
      /\ at'[t].pc = "unwind" /\ at'[t].boxes = <<>>
  <2>1. [at[t] EXCEPT !.pc = "unwind"] \in AtFacts
    BY DEF AtFacts
  <2> QED BY <1>1, <2>1 DEF Idle
<1>3. Typed' /\ OnlyBy(t) /\ Owns(t)' = Owns(t)
  BY <1>1, <1>2 DEF Inv, Typed, OnlyBy, Owns
<1>4. SlotsApart'
  <2>1. \A u \in Threads, s \in Owners : HasSlot(u, s)' => HasSlot(u, s)
    BY <1>1, <1>2 DEF HasSlot, Owns
  <2> QED BY <1>1, <2>1 DEF Inv, SlotsApart
<1>5. StampsPast'
  BY <1>1 DEF Inv, StampsPast
<1>6. InPlace(t)'
  BY <1>1, <1>2, <1>3 DEF Sound, InPlace, Idle
<1>7. CallsRight(t)'
  BY <1>1, <1>3 DEF Sound, CallsRight, Building, Top
<1>8. StampsRight(t)'
  <2>1. \A l \in Lazies : Current(t, l)' = Current(t, l)
    BY <1>1 DEF Current
  <2>2. ASSUME NEW i \in DOMAIN frames[t]
        PROVE  LET f == frames[t][i] IN
               /\ f.pc \in {"build", "stamp"} => stamp[f.lazy][local[t].slot] # local[t].epoch
               /\ f.pc = "copy" => stamp[f.lazy][local[t].slot] = local[t].epoch
               /\ f.pc = "stamp" => /\ f.box = owned[f.lazy][local[t].slot]
                                    /\ f.box \in Range(local[t].built)
                                    /\ heap[f.box] = Own(f.lazy, t)
    BY DEF Sound, StampsRight, Current
  <2> QED BY <1>1, <1>2, <2>2 DEF StampsRight, Current
<1>9. ListRight(t)' /\ CurrentIsThere(t)' /\ RefsLive(t)'
  <2>1. at[t].pc # "free"
    BY <1>1 DEF Idle
  <2> QED BY <1>1, <1>2, <1>3, <2>1
        DEF Sound, ListRight, Listing, CurrentIsThere, Current, RefsLive
<1> QED BY <1>1, <1>3, <1>4, <1>5, <1>6, <1>7, <1>8, <1>9, Alone DEF Sound

\* A build that ends by a panic lowers BUILDING, and leaves no copy.
LEMMA UnwindsAlone ==
  ASSUME Inv, NEW t \in Threads, Unwind(t)
  PROVE  Inv'
<1> DEFINE n == Len(frames[t])
<1>1. /\ UNCHANGED <<claimed, epochs, owned, stamp, shared, heap, panics>>
      /\ at[t].pc = "unwind" /\ frames[t] # <<>> /\ Sound(t) /\ Top(t).lazy \in Lazies
      /\ at[t] = [Idle EXCEPT !.pc = "unwind"]
      /\ local[t] \in LocalFacts /\ local[t].building \in Nat /\ Idle \in AtFacts
      /\ frames[t] \in Seq(FrameFacts) /\ n \in Nat \ {0}
  BY OfThread, OfCalls DEF Unwind, Sound, InPlace
<1>2. Owns(t) => Top(t).pc \in {"build", "scope"} /\ local[t].building = n
  <2>1. 1 \in DOMAIN frames[t]
    BY <1>1, OfCalls
  <2>2. Top(t).pc \in {"build", "init", "scope"} /\ (Owns(t) => Top(t).pc # "init")
    BY <1>1, <2>1 DEF Sound, CallsRight, Top
  <2> QED BY <1>1, <2>2 DEF Sound, CallsRight, Building
<1>3. /\ local' \in [Threads -> LocalFacts] /\ \A u \in Threads \ {t} : local'[u] = local[u]
      /\ local'[t].slot = local[t].slot /\ local'[t].epoch = local[t].epoch
      /\ local'[t].built = local[t].built
      /\ local'[t].building = IF Owns(t) /\ Top(t).pc \in {"build", "scope"}
                              THEN local[t].building - 1 ELSE local[t].building
  <2>1. local \in [Threads -> LocalFacts]
    BY DEF Inv, Typed
  <2>2. CASE Owns(t)
    <3> DEFINE x == [local[t] EXCEPT !.building = local[t].building - 1]
    <3>1. local' = [local EXCEPT ![t] = x]
      BY <2>1, <2>2 DEF Unwind, NotBuilding
    <3>2. local[t].building - 1 \in Nat
      BY <1>1, <1>2, <2>2
    <3>3. /\ x \in LocalFacts /\ x.slot = local[t].slot /\ x.epoch = local[t].epoch
          /\ x.built = local[t].built /\ x.building = local[t].building - 1
      BY <1>1, <3>2 DEF LocalFacts
    <3> HIDE DEF x
    <3> QED BY <1>2, <2>1, <2>2, <3>1, <3>3
  <2>3. CASE ~Owns(t)
    BY <2>1, <2>3 DEF Unwind, NotBuilding
  <2> QED BY <2>2, <2>3
<1>4. /\ Tail(frames[t]) \in Seq(FrameFacts) /\ Len(Tail(frames[t])) = n - 1
      /\ Tail(frames[t]) = <<>> <=> n = 1
  <2>1. Tail(frames[t]) \in Seq(FrameFacts) /\ Len(Tail(frames[t])) = n - 1
    BY <1>1, CallGone
  <2>2. Tail(frames[t]) = <<>> <=> Len(Tail(frames[t])) = 0
    BY <2>1, FramesTyped
  <2> QED BY <1>1, <2>1, <2>2
<1>5. /\ frames' \in [Threads -> Seq(FrameFacts)] /\ frames'[t] = Tail(frames[t])
      /\ \A u \in Threads \ {t} : frames'[u] = frames[u]
  BY <1>4 DEF Unwind, Inv, Typed
<1>6. /\ at' \in [Threads -> AtFacts] /\ held' \in [Threads -> SUBSET (Lazies \X Boxes)]
      /\ \A u \in Threads \ {t} : at'[u] = at[u] /\ held'[u] = held[u]
      /\ held'[t] \subseteq held[t]
      /\ at'[t] = Idle \/ (at'[t] = at[t] /\ n # 1)
  <2>1. at \in [Threads -> AtFacts] /\ held \in [Threads -> SUBSET (Lazies \X Boxes)]
    BY DEF Inv, Typed
  <2>2. CASE n = 1
    <3>1. at' = [at EXCEPT ![t] = Idle] /\ held' = [held EXCEPT ![t] = {}]
      BY <2>2 DEF Unwind
    <3>2. at' \in [Threads -> AtFacts] /\ at'[t] = Idle /\ \A u \in Threads \ {t} : at'[u] = at[u]
      BY <1>1, <2>1, <3>1
    <3>3. /\ held' \in [Threads -> SUBSET (Lazies \X Boxes)] /\ held'[t] = {}
          /\ \A u \in Threads \ {t} : held'[u] = held[u]
      BY <2>1, <3>1
    <3> QED BY <3>2, <3>3
  <2>3. CASE n # 1
    BY <2>1, <2>3 DEF Unwind
  <2> QED BY <2>2, <2>3
<1>7. Typed'
  <2>1. once' \in [Lazies -> Threads \cup {None}]
    BY <1>1 DEF Unwind, NotOnce, Inv, Typed
  <2> QED BY <1>1, <1>3, <1>5, <1>6, <2>1 DEF Inv, Typed
<1>8. OnlyBy(t) /\ Owns(t)' = Owns(t)
  BY <1>1, <1>3, <1>5, <1>6 DEF OnlyBy, Owns
<1>9. SlotsApart'
  <2>1. \A u \in Threads, s \in Owners : HasSlot(u, s)' => HasSlot(u, s)
    BY <1>1, <1>3, <1>6 DEF HasSlot, Owns, Idle
  <2> QED BY <1>1, <2>1 DEF Inv, SlotsApart
<1>10. StampsPast'
  BY <1>1 DEF Inv, StampsPast
<1>11. at'[t].pc \in {"job", "unwind"} /\ at'[t].boxes = <<>>
  BY <1>1, <1>6 DEF Idle
<1>12. InPlace(t)'
  <2>1. Owns(t) => local[t].epoch = epochs[local[t].slot] /\ local[t].epoch > 0
    BY <1>1 DEF Sound, InPlace
  <2>2. at'[t].pc = "job" => at'[t] = Idle
    BY <1>1, <1>6
  <2>3. at'[t].pc = "unwind" => at'[t] = [Idle EXCEPT !.pc = "unwind"] /\ frames'[t] # <<>>
    BY <1>1, <1>4, <1>5, <1>6 DEF Idle
  <2> QED BY <1>1, <1>3, <1>8, <1>11, <2>1, <2>2, <2>3 DEF InPlace
<1>13. CallsRight(t)'
  BY <1>1, <1>3, <1>5, GoneRight
<1>14. StampsRight(t)'
  <2>1. at'[t].pc # "free"
    BY <1>11
  <2> QED BY <1>1, <1>3, <1>5, <2>1, OuterStale
<1>15. ListRight(t)' /\ CurrentIsThere(t)' /\ RefsLive(t)'
  BY <1>1, <1>3, <1>6, <1>8, <1>11
     DEF Sound, ListRight, Listing, CurrentIsThere, Current, RefsLive
<1> QED BY <1>1, <1>7, <1>8, <1>9, <1>10, <1>12, <1>13, <1>14, <1>15, Alone DEF Sound

-----------------------------------------------------------------------------
(* A Lazy goes *)

\* No owner's copy goes with its Lazy, and no owner takes the next one's for current.
LEMMA DropsAlone ==
  ASSUME Inv, NEW l \in Lazies, DropLazy(l)
  PROVE  Inv'
<1>1. /\ UNCHANGED <<claimed, epochs, once, local, frames, at, held, panics>>
      /\ owned' = [owned EXCEPT ![l] = [s \in Owners |-> 0]]
      /\ stamp' = [stamp EXCEPT ![l] = [s \in Owners |-> 0]]
      /\ shared' = [shared EXCEPT ![l] = 0]
      /\ heap' = [a \in Boxes |-> IF a = shared[l] THEN Free ELSE heap[a]]
      /\ \A t \in Threads : /\ \A h \in held[t] : h[1] # l
                            /\ \A i \in DOMAIN frames[t] :
                                 frames[t][i].lazy = l => frames[t][i].pc = "scope"
  BY DEF DropLazy
<1>2. /\ owned' \in [Lazies -> [Owners -> Boxes \cup {0}]]
      /\ stamp' \in [Lazies -> [Owners -> Nat]] /\ shared' \in [Lazies -> Boxes \cup {0}]
      /\ \A m \in Lazies : m # l => /\ owned'[m] = owned[m] /\ stamp'[m] = stamp[m]
                                    /\ shared'[m] = shared[m]
      /\ \A s \in Owners : stamp'[l][s] = 0
      /\ shared'[l] = 0
  BY <1>1 DEF Inv, Typed
<1>3. /\ heap' \in [Boxes -> HeapFacts]
      /\ \A a \in Boxes : a # shared[l] => heap'[a] = heap[a]
  <2>1. Free \in HeapFacts /\ heap \in [Boxes -> HeapFacts]
    BY DEF Free, HeapFacts, Inv, Typed
  <2> QED BY <1>1, <2>1
<1>4. \A a \in Boxes : heap'[a] # heap[a] => heap[a] = Kept(l) /\ heap'[a] = Free
  <2> SUFFICES ASSUME NEW a \in Boxes, heap'[a] # heap[a]
               PROVE  heap[a] = Kept(l) /\ heap'[a] = Free
    OBVIOUS
  <2>1. a = shared[l] /\ heap'[a] = Free
    BY <1>1, <1>3
  <2>2. shared[l] # 0
    BY <2>1, LazyAssumption
  <2> QED BY <2>1, <2>2 DEF Inv, SharedIsKept
<1>5. \A t \in Threads, a \in Boxes : /\ heap[a].by = t => heap'[a] = heap[a]
                                      /\ heap'[a].by = t <=> heap[a].by = t
  BY <1>4, Frees, LazyAssumption
<1>6. Typed'
  BY <1>1, <1>2, <1>3 DEF Inv, Typed
<1>7. SlotsApart'
  BY <1>1 DEF Inv, SlotsApart, HasSlot, Owns
<1>8. StampsPast'
  <2> SUFFICES ASSUME NEW m \in Lazies, NEW s \in Owners PROVE stamp'[m][s] <= epochs[s]
    BY <1>1 DEF StampsPast
  <2>1. stamp[m][s] <= epochs[s] /\ epochs[s] \in Nat
    BY DEF Inv, StampsPast, Typed
  <2> QED BY <1>2, <2>1
<1>9. SharedIsKept'
  <2> SUFFICES ASSUME NEW m \in Lazies, m # l, shared[m] # 0 PROVE heap'[shared[m]] = Kept(m)
    BY <1>2 DEF SharedIsKept
  <2>1. shared[m] \in Boxes /\ heap[shared[m]] = Kept(m)
    BY DEF Inv, Typed, SharedIsKept
  <2>2. Kept(m) # Kept(l)
    BY DEF Kept
  <2> QED BY <1>4, <2>1, <2>2
<1>10. ASSUME NEW t \in Threads PROVE Sound(t)'
  <2>1. /\ Sound(t) /\ (Owns(t) => local[t].slot \in Owners) /\ local[t].built \in Seq(Boxes)
        /\ frames[t] \in Seq(FrameFacts) /\ held[t] \subseteq Lazies \X Boxes
        /\ Owns(t)' = Owns(t) /\ local[t].epoch \in Nat
    BY <1>1, OfThread DEF Owns
  <2>2. InPlace(t)' /\ CallsRight(t)'
    BY <1>1, <2>1 DEF Sound, InPlace, CallsRight, Building, Top, Owns
  <2>3. Owns(t) => \A m \in Lazies : stamp'[m][local[t].slot] = local[t].epoch =>
                     m # l /\ stamp[m][local[t].slot] = local[t].epoch
    <3>1. Owns(t) => local[t].epoch > 0
      BY <2>1 DEF Sound, InPlace
    <3> QED BY <1>2, <2>1, <3>1
  <2>4. StampsRight(t)'
    <3>1. at[t].pc = "free" => Owns(t) /\ \A m \in Lazies : stamp[m][local[t].slot] # local[t].epoch
      BY <2>1 DEF Sound, InPlace, StampsRight, Current
    <3>2. ASSUME NEW i \in DOMAIN frames[t]
          PROVE  LET f == frames[t][i] IN
                 /\ f.pc \in {"build", "stamp"} =>
                      stamp'[f.lazy][local[t].slot] # local[t].epoch
                 /\ f.pc = "copy" => stamp'[f.lazy][local[t].slot] = local[t].epoch
                 /\ f.pc = "stamp" => /\ f.box = owned'[f.lazy][local[t].slot]
                                      /\ f.box \in Range(local[t].built)
                                      /\ heap'[f.box] = Own(f.lazy, t)
      <4>1. frames[t][i].lazy \in Lazies /\ (frames[t][i].pc # "scope" => frames[t][i].lazy # l)
        BY <1>1, <2>1, FramesTyped
      <4>2. frames[t][i].pc # "scope" =>
              /\ owned'[frames[t][i].lazy] = owned[frames[t][i].lazy]
              /\ stamp'[frames[t][i].lazy] = stamp[frames[t][i].lazy]
        BY <1>2, <4>1
      <4>3. LET f == frames[t][i] IN
            /\ f.pc \in {"build", "stamp"} =>
                 stamp[f.lazy][local[t].slot] # local[t].epoch
            /\ f.pc = "copy" => stamp[f.lazy][local[t].slot] = local[t].epoch
            /\ f.pc = "stamp" => /\ f.box = owned[f.lazy][local[t].slot]
                                 /\ f.box \in Range(local[t].built)
                                 /\ heap[f.box] = Own(f.lazy, t)
        BY <2>1 DEF Sound, StampsRight, Current
      <4>4. frames[t][i].pc = "stamp" => heap'[frames[t][i].box] = heap[frames[t][i].box]
        BY <1>5, <2>1, <4>3, RangeOfSeq, Frees
      <4> QED BY <4>2, <4>3, <4>4
    <3> QED BY <1>1, <2>3, <3>1, <3>2 DEF StampsRight, Current
  <2>5. ListRight(t)'
    BY <1>1, <1>5, <2>1 DEF Sound, ListRight, Listing
  <2>6. CurrentIsThere(t)'
    <3> SUFFICES ASSUME NEW m \in Lazies, Owns(t), stamp'[m][local[t].slot] = local[t].epoch
                 PROVE  /\ owned'[m][local[t].slot] \in Range(local[t].built)
                        /\ heap'[owned'[m][local[t].slot]] = Own(m, t)
      BY <1>1, <2>1 DEF CurrentIsThere, Current
    <3> DEFINE a == owned[m][local[t].slot]
    <3>1. owned'[m][local[t].slot] = a
      BY <1>2, <2>3
    <3>2. a \in Range(local[t].built) /\ heap[a] = Own(m, t)
      BY <2>1, <2>3 DEF Sound, CurrentIsThere, Current
    <3>3. a \in Boxes /\ heap[a].by = t
      BY <2>1, <3>2, RangeOfSeq, Frees
    <3> QED BY <1>5, <3>1, <3>2, <3>3
  <2>7. RefsLive(t)'
    <3> SUFFICES ASSUME NEW h \in held[t] PROVE heap'[h[2]] \in {Own(h[1], t), Kept(h[1])}
      BY <1>1 DEF RefsLive
    <3>1. h[2] \in Boxes /\ heap[h[2]] \in {Own(h[1], t), Kept(h[1])} /\ h[1] # l
      BY <1>1, <2>1 DEF Sound, RefsLive
    <3>2. Kept(h[1]) # Kept(l) /\ Own(h[1], t) # Kept(l)
      BY <3>1 DEF Kept, Own
    <3> QED BY <1>4, <3>1, <3>2
  <2> QED BY <2>2, <2>4, <2>5, <2>6, <2>7 DEF Sound
<1> QED BY <1>6, <1>7, <1>8, <1>9, <1>10 DEF Inv

-----------------------------------------------------------------------------
(* The invariant holds, and with it the properties *)

\* Before any thread owns a slot there are no copies.
LEMMA InvInit == LazyInit => Inv
<1> SUFFICES ASSUME LazyInit PROVE Inv
  OBVIOUS
<1> USE LazyAssumption, EmptySeq
<1>1. Typed
  <2>1. NoSlot \in LocalFacts /\ Idle \in AtFacts /\ Free \in HeapFacts /\ <<>> \in Seq(FrameFacts)
    BY DEF NoSlot, Idle, Free, LocalFacts, AtFacts, HeapFacts
  <2> QED BY <2>1 DEF LazyInit, Typed
<1>2. \A t \in Threads : ~Owns(t) /\ at[t] = Idle /\ local[t] = NoSlot
  BY DEF LazyInit, Owns, NoSlot
<1>3. SlotsApart
  BY <1>2 DEF SlotsApart, HasSlot, Idle
<1>4. StampsPast /\ SharedIsKept
  BY DEF LazyInit, StampsPast, SharedIsKept
<1>5. ASSUME NEW t \in Threads PROVE Sound(t)
  <2>1. frames[t] = <<>> /\ held[t] = {} /\ at[t].pc = "job" /\ local[t].built = <<>>
    BY <1>2 DEF LazyInit, Idle, NoSlot
  <2>2. InPlace(t)
    BY <1>2, <2>1 DEF InPlace, Idle
  <2>3. CallsRight(t)
    BY <1>2, <2>1, NothingQueued DEF CallsRight, Building, NoSlot
  <2>4. StampsRight(t)
    BY <2>1, NothingQueued DEF StampsRight
  <2>5. ListRight(t)
    BY <2>1, NothingQueued DEF LazyInit, ListRight, Listing, Free
  <2>6. CurrentIsThere(t) /\ RefsLive(t)
    BY <1>2, <2>1 DEF CurrentIsThere, RefsLive
  <2> QED BY <2>2, <2>3, <2>4, <2>5, <2>6 DEF Sound
<1> QED BY <1>1, <1>3, <1>4, <1>5 DEF Inv

\* Every step keeps the invariant.
LEMMA InvNext == Inv /\ [LazyNext]_lazyVars => Inv'
<1> SUFFICES ASSUME Inv, [LazyNext]_lazyVars PROVE Inv'
  OBVIOUS
<1>1. ASSUME NEW t \in Threads, ClaimSlot(t) PROVE Inv'
  BY <1>1, ClaimsAlone
<1>2. ASSUME NEW t \in Threads, TakeEpoch(t) PROVE Inv'
  BY <1>2, EpochsAlone
<1>3. ASSUME NEW t \in Threads, NEW l \in Lazies, Deref(t, l) PROVE Inv'
  BY <1>3, DerefsAlone
<1>10. ASSUME NEW t \in Threads, NEW l \in Lazies, BeginScope(t, l) PROVE Inv'
  BY <1>10, ScopesAlone
<1>4. ASSUME NEW t \in Threads, InDeref(t) PROVE Inv'
  BY <1>3, <1>4, <1>10, ScopeEndsAlone, ReadsAlone, UsesAlone, MakesAlone, StampsAlone, ReadsSharedAlone,
     MakesSharedAlone, PanicsAlone, UnwindsAlone DEF InDeref
<1>5. ASSUME NEW t \in Threads, JobEnds(t) PROVE Inv'
  BY <1>5, JobEndsAlone
<1>6. ASSUME NEW t \in Threads, NEW ending \in BOOLEAN, BeginRelease(t, ending) PROVE Inv'
  BY <1>6, ReleasesAlone
<1>7. ASSUME NEW t \in Threads, FreeBox(t) \/ EndRelease(t) \/ GiveUp(t) PROVE Inv'
  BY <1>7, FreesAlone, ReleaseEndsAlone, GivesAlone
<1>8. ASSUME NEW l \in Locals, DropLazy(l) PROVE Inv'
  <2>1. l \in Lazies
    BY LazyAssumption
  <2> QED BY <1>8, <2>1, DropsAlone
<1>9. CASE UNCHANGED lazyVars
  BY <1>9 DEF lazyVars, Inv, Typed, SlotsApart, StampsPast, SharedIsKept, Sound, InPlace,
     CallsRight, StampsRight, ListRight, CurrentIsThere, RefsLive, HasSlot, Owns, Current,
     Building, Listing, Top
<1> QED BY <1>1, <1>2, <1>3, <1>4, <1>5, <1>6, <1>7, <1>8, <1>9, <1>10 DEF LazyNext

\* Each thread's calls, list and references, and the slots, are right in every state, for any
\* threads, slots, statics and heap.
THEOREM LazyInvariant == LazySpec => []Inv
BY InvInit, InvNext, PTL DEF LazySpec

\* A slot has one owner, and its flag is up as long (lib.rs: own_here, disown).
THEOREM SlotsAreApart == LazySpec => []OneOwner
<1>1. Inv => OneOwner
  <2> SUFFICES ASSUME Inv, NEW t \in Threads, NEW u \in Threads, Owns(t)
               PROVE  /\ claimed[local[t].slot]
                      /\ t # u => local[u].slot # local[t].slot
    BY DEF OneOwner
  <2>1. local[t].slot \in Owners /\ HasSlot(t, local[t].slot)
    BY OfThread DEF HasSlot
  <2>2. local[u].slot = local[t].slot => HasSlot(u, local[t].slot)
    BY DEF HasSlot, Owns
  <2> QED BY <2>1, <2>2 DEF Inv, SlotsApart
<1> QED BY <1>1, LazyInvariant, PTL

\* A reference that a job has from a static is to a value of that static, the thread's own or
\* kept, until the job lets go of it: what deref's unsafe return of a reference rests on.
THEOREM ReferencesLive == LazySpec => []HeldIsLive
<1>1. Inv => HeldIsLive
  <2> SUFFICES ASSUME Inv, NEW t \in Threads, NEW h \in held[t]
               PROVE  h[2] # 0 /\ heap[h[2]] \in {Own(h[1], t), Kept(h[1])}
    BY DEF HeldIsLive
  <2>1. h[2] \in Boxes
    BY OfThread
  <2> QED BY <2>1, OfThread, LazyAssumption DEF Sound, RefsLive
<1> QED BY <1>1, LazyInvariant, PTL

\* A thread has no more calls than there are statics, as each is of an earlier one.
LEMMA FewCalls ==
  ASSUME Inv, NEW t \in Threads
  PROVE  local[t].building \in 0 .. Cardinality(Lazies)
<1> DEFINE s == frames[t]
           n == Len(s)
<1>1. /\ n \in Nat /\ DOMAIN s = 1 .. n /\ \A i \in DOMAIN s : s[i].lazy \in Lazies
      /\ Sound(t) /\ local[t].building \in Nat /\ (s = <<>> <=> n = 0)
  BY OfThread, FramesTyped
<1>2. IsFiniteSet(Lazies) /\ Cardinality(Lazies) \in Nat /\ Lazies \subseteq Nat
  BY LazyAssumption, FS_CardinalityType
<1>3. n <= Cardinality(Lazies)
  <2> SUFFICES ASSUME Cardinality(Lazies) < n PROVE FALSE
    BY <1>1, <1>2
  <2> DEFINE g == [i \in 1 .. n |-> s[i].lazy]
  <2>1. IsFiniteSet(1 .. n) /\ Cardinality(1 .. n) = n
    BY <1>1, FS_Interval
  <2>2. g \in [1 .. n -> Lazies]
    BY <1>1
  <2> HIDE DEF g
  <2>3. \E x, y \in 1 .. n : x # y /\ g[x] = g[y]
    BY <1>2, <2>1, <2>2, FS_PigeonHole
  <2>4. PICK x \in 1 .. n, y \in 1 .. n : x # y /\ g[x] = g[y]
    BY <2>3
  <2>5. s[x].lazy = s[y].lazy /\ s[x].lazy \in Nat /\ s[y].lazy \in Nat
    BY <1>1, <1>2, <2>4 DEF g
  <2>6. x < y \/ y < x
    BY <1>1, <2>4
  <2>7. s[x].lazy < s[y].lazy \/ s[y].lazy < s[x].lazy
    BY <1>1, <2>6 DEF Sound, CallsRight
  <2> QED BY <2>5, <2>7
<1>4. local[t].building <= n
  BY <1>1 DEF Sound, CallsRight, Building
<1> QED BY <1>1, <1>2, <1>3, <1>4

\* BUILDING is the number of an owner's builds and scopes under way.
LEMMA BuildsCounted ==
  ASSUME Inv, NEW t \in Threads
  PROVE  local[t].building =
           IF Owns(t) THEN Cardinality({i \in DOMAIN frames[t] : frames[t][i].pc \in {"build", "scope"}})
           ELSE 0
<1> DEFINE s == frames[t]
           n == Len(s)
           B == {i \in DOMAIN s : s[i].pc \in {"build", "scope"}}
<1>1. /\ n \in Nat /\ DOMAIN s = 1 .. n /\ Sound(t) /\ (s = <<>> <=> n = 0)
      /\ local[t].building = Building(t)
  BY OfThread, FramesTyped DEF Sound, CallsRight
<1>2. CASE ~Owns(t)
  BY <1>1, <1>2 DEF Building
<1>3. CASE Owns(t) /\ s = <<>>
  <2>1. B = {}
    BY <1>1, <1>3
  <2> QED BY <1>1, <1>3, <2>1, FS_EmptySet DEF Building
<1>4. CASE Owns(t) /\ s # <<>>
  <2>1. ASSUME NEW i \in 1 .. n, i # 1 PROVE s[i].pc \in {"build", "scope"}
    BY <1>1, <1>4, <2>1 DEF Sound, CallsRight
  <2>2. 1 \in 1 .. n
    BY <1>1, <1>4
  <2>3. CASE Top(t).pc \in {"build", "scope"}
    <3>1. B = 1 .. n
      BY <1>1, <2>1, <2>3 DEF Top
    <3>2. Cardinality(1 .. n) = n
      BY <1>1, <2>2, FS_Interval
    <3> QED BY <1>1, <1>4, <2>3, <3>1, <3>2 DEF Building
  <2>4. CASE Top(t).pc \notin {"build", "scope"}
    <3>1. B = 2 .. n
      BY <1>1, <2>1, <2>4 DEF Top
    <3>2. Cardinality(2 .. n) = n - 1
      BY <1>1, <2>2, FS_Interval
    <3> QED BY <1>1, <1>4, <2>4, <3>1, <3>2 DEF Building
  <2> QED BY <2>3, <2>4
<1> QED BY <1>2, <1>3, <1>4

\* A list has a copy at one place.
LEMMA CopiesListedOnce ==
  ASSUME Inv, NEW t \in Threads, NEW a \in Boxes
  PROVE  Cardinality({i \in DOMAIN ListOf(t) : ListOf(t)[i] = a}) = IF heap[a].by = t THEN 1 ELSE 0
<1> DEFINE q == Listing(t)
           Q == {i \in DOMAIN q : q[i] = a}
<1>1. /\ Sound(t) /\ local[t].built \in Seq(Boxes) /\ at[t].boxes \in Seq(Boxes)
      /\ IsInjective(q) /\ (a \in Range(q) <=> heap[a].by = t)
  BY OfThread DEF Sound, ListRight
<1>2. ListOf(t) = q
  <2>1. CASE at[t].pc = "free"
    BY <1>1, <2>1, ConcatEmptySeq DEF Sound, InPlace, ListOf, Listing
  <2>2. CASE at[t].pc # "free"
    BY <1>1, <2>2, ConcatEmptySeq DEF Sound, InPlace, ListOf, Listing
  <2> QED BY <2>1, <2>2
<1> HIDE DEF q
<1>3. CASE heap[a].by = t
  <2>1. PICK i \in DOMAIN q : q[i] = a
    BY <1>1, <1>3 DEF Range
  <2>2. Q = {i}
    BY <1>1, <2>1 DEF IsInjective
  <2> QED BY <1>2, <1>3, <2>2, FS_Singleton
<1>4. CASE heap[a].by # t
  <2>1. Q = {}
    BY <1>1, <1>4 DEF Range
  <2> QED BY <1>2, <1>4, <2>1, FS_EmptySet
<1> QED BY <1>3, <1>4

\* An owner's current copies are on its list and there, its list has each copy it made and has
\* not freed once, and BUILDING says when it builds one or runs a scope (lib.rs: build_owned,
\* build_scope, release).
THEOREM CopiesAreInPlace == LazySpec => []CopiesInPlace
<1>1. Inv => CopiesInPlace
  <2> SUFFICES ASSUME Inv PROVE CopiesInPlace
    OBVIOUS
  <2>1. LazyTypeOK
    <3>1. ASSUME NEW t \in Threads
          PROVE  /\ local[t].slot \in Owners \cup {-1} /\ local[t].epoch \in Nat
                 /\ local[t].building \in 0 .. Cardinality(Lazies)
                 /\ held[t] \subseteq Lazies \X (Boxes \cup {0})
      BY OfThread, FewCalls
    <3> QED BY <3>1 DEF Inv, Typed, LazyTypeOK
  <2>2. CurrentIsListed
    <3> SUFFICES ASSUME NEW t \in Threads, NEW l \in Lazies, Owns(t), Current(t, l)
                 PROVE  /\ Contains(local[t].built, owned[l][local[t].slot])
                        /\ heap[owned[l][local[t].slot]] = Own(l, t)
      BY DEF CurrentIsListed, Current
    <3>1. /\ owned[l][local[t].slot] \in Range(local[t].built)
          /\ heap[owned[l][local[t].slot]] = Own(l, t)
      BY OfThread DEF Sound, CurrentIsThere
    <3>2. DOMAIN local[t].built = 1 .. Len(local[t].built)
      BY OfThread, LenProperties
    <3> QED BY <3>1, <3>2 DEF Contains, Range
  <2>3. ListedOnce
    BY CopiesListedOnce DEF ListedOnce
  <2>4. BuildingSaysSo
    BY BuildsCounted DEF BuildingSaysSo
  <2> QED BY <2>1, <2>2, <2>3, <2>4 DEF CopiesInPlace
<1> QED BY <1>1, LazyInvariant, PTL
=============================================================================
