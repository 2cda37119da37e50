------------------------------ MODULE LazyOwners ------------------------------
(***************************************************************************)
(* Statics whose values a few threads can give back (native/lazy, used by  *)
(* core/src/jsre.rs and the Windows app's engine, UI and Typst threads).   *)
(* A thread that owns a slot builds copies of its own and frees them       *)
(* between jobs; every other thread reads one kept value.  Slots are taken *)
(* and given up while other threads run; an owner's values that are kept   *)
(* elsewhere are made in a scope that counts as a build.  A step is one access to what     *)
(* threads share (CLAIMED, EPOCHS, a Lazy's pair for a slot, its OnceLock, *)
(* the heap) with what the thread alone sees around it.  The accesses to   *)
(* one slot are ordered by CLAIMED's acquire and release, so memory is     *)
(* taken to be sequentially consistent; freed memory is allocated again.   *)
(***************************************************************************)
EXTENDS Integers, Sequences, FiniteSets, SequencesExt

CONSTANTS
  Threads,
  Owners,     \* the owner slots
  Lazies,     \* the statics, numbered: each is built from earlier ones only
  Locals,     \* those that are no statics, and go
  Boxes,      \* bound: the addresses the heap can hand out
  MaxEpochs,  \* bound: the epochs handed out before nobody owns or releases any more
  MaxPanics,  \* bound: the builds that panic
  None

ASSUME LazyAssumption ==
  /\ Locals \subseteq Lazies
  /\ Lazies \subseteq Nat /\ IsFiniteSet(Lazies)
  /\ Boxes \subseteq Nat \ {0} /\ Owners \subseteq Nat /\ 0 \in Owners
  /\ {None, "kept", "nobody"} \cap Threads = {} /\ {MaxEpochs, MaxPanics} \subseteq Nat

VARIABLES
  claimed,   \* CLAIMED
  epochs,    \* EPOCHS
  owned,     \* Lazy::owned per static and slot, 0 the null pointer
  stamp,     \* Lazy::epoch per static and slot
  shared,    \* Lazy::shared, 0 until it is built
  once,      \* the thread inside Lazy::shared's get_or_init
  local,     \* each thread's SLOT (-1: none), EPOCH, BUILDING and BUILT
  frames,    \* each thread's calls of deref and build_scope, innermost first
  at,        \* what each thread does outside deref
  held,      \* the references each thread's job has: <<static, address>>
  heap,      \* per address: the static it is a value of, and who may free it
  panics     \* builds that panicked (bound)

lazyVars ==
  <<claimed, epochs, owned, stamp, shared, once, local, frames, at, held, heap, panics>>

-----------------------------------------------------------------------------
(* Values *)

Free == [lazy |-> 0, by |-> "nobody"]
Kept(l) == [lazy |-> l, by |-> "kept"]
Own(l, t) == [lazy |-> l, by |-> t]
Empty == {a \in Boxes : heap[a] = Free}

EpochsLeft == FoldFunction(+, 0, epochs) < MaxEpochs

Idle == [pc |-> "job", slot |-> 0, boxes |-> <<>>, ending |-> FALSE]
NoSlot == [slot |-> -1, epoch |-> 0, building |-> 0, built |-> <<>>]
Owns(t) == local[t].slot # -1

Top(t) == frames[t][1]
At(t, pc) == at[t].pc = "job" /\ frames[t] # <<>> /\ Top(t).pc = pc
Goes(t, pc) == [frames EXCEPT ![t][1].pc = pc]
Makes(t, pc, a) == [frames EXCEPT ![t][1].pc = pc, ![t][1].box = a]
NewCall(l) == [pc |-> "read", lazy |-> l, box |-> 0, used |-> {}]

\* past the last slot, the thread owns none
NextTry(s) == IF s + 1 \in Owners THEN [Idle EXCEPT !.pc = "claim", !.slot = s + 1] ELSE Idle

\* no reference from a Lazy is alive on t: where a host may release
BetweenJobs(t) == at[t] = Idle /\ frames[t] = <<>> /\ held[t] = {}

\* a call of deref returns the value at a
Return(t, a) ==
  /\ frames' = [frames EXCEPT ![t] = Tail(@)]
  /\ held' = [held EXCEPT ![t] = @ \cup {<<Top(t).lazy, a>>}]

-----------------------------------------------------------------------------
(* own_here *)

\* the slot whose flag is tried next
Trying(t) == at[t].pc = "claim" \/ (BetweenJobs(t) /\ ~Owns(t))

\* mutant: a load of the flag, then a store
TestThenSet(t) ==
  /\ LET s == at[t].slot IN
       \/ /\ Trying(t)
          /\ at' = [at EXCEPT ![t] = IF ~claimed[s] THEN [Idle EXCEPT !.pc = "set", !.slot = s]
                                     ELSE NextTry(s)]
          /\ UNCHANGED claimed
       \/ /\ at[t].pc = "set"
          /\ claimed' = [claimed EXCEPT ![s] = TRUE]
          /\ at' = [at EXCEPT ![t].pc = "epoch"]
  /\ UNCHANGED <<epochs, owned, stamp, shared, once, local, frames, held, heap, panics>>

\* compare_exchange on one slot's flag
ClaimSlot(t) ==
  /\ Trying(t)
  /\ LET s == at[t].slot IN
       IF ~claimed[s]
         THEN /\ claimed' = [claimed EXCEPT ![s] = TRUE]
              /\ at' = [at EXCEPT ![t] = [Idle EXCEPT !.pc = "epoch", !.slot = s]]
         ELSE /\ at' = [at EXCEPT ![t] = NextTry(s)]
              /\ UNCHANGED claimed
  /\ UNCHANGED <<epochs, owned, stamp, shared, once, local, frames, held, heap, panics>>

\* mutant: the slot's last epoch
LastEpoch(s) == epochs[s]

\* next_epoch(slot)
NextEpoch(s) == epochs[s] + 1

\* the thread owns the slot
TakeEpoch(t) ==
  /\ at[t].pc = "epoch"
  /\ LET s == at[t].slot IN
       /\ epochs' = [epochs EXCEPT ![s] = NextEpoch(s)]
       /\ local' = [local EXCEPT ![t].slot = s, ![t].epoch = NextEpoch(s)]
  /\ at' = [at EXCEPT ![t] = Idle]
  /\ UNCHANGED <<claimed, owned, stamp, shared, once, frames, held, heap, panics>>

-----------------------------------------------------------------------------
(* deref *)

\* a call from a job, or from a static's init or a scope
Calls(t, call) ==
  /\ at[t] = Idle
  /\ \/ frames[t] = <<>> /\ frames' = [frames EXCEPT ![t] = <<call>>]
     \/ /\ At(t, "build") \/ At(t, "init") \/ At(t, "scope")
        /\ call.lazy < Top(t).lazy /\ call.lazy \notin Top(t).used
        /\ frames' = [frames EXCEPT ![t] = <<call, [Top(t) EXCEPT !.used = @ \cup {call.lazy}]>>
                                             \o Tail(@)]

Deref(t, l) ==
  /\ Calls(t, NewCall(l))
  /\ UNCHANGED <<claimed, epochs, owned, stamp, shared, once, local, at, held, heap, panics>>

\* build_scope, by an owner (for others it is a plain call): what runs in it may use the
\* statics before l, as an init of l would
NewScope(l) == [NewCall(l) EXCEPT !.pc = "scope"]

BeginScope(t, l) ==
  /\ Owns(t)
  /\ Calls(t, NewScope(l))
  /\ local' = [local EXCEPT ![t].building = @ + 1]
  /\ UNCHANGED <<claimed, epochs, owned, stamp, shared, once, at, held, heap, panics>>

EndScope(t) ==
  /\ At(t, "scope")
  /\ frames' = [frames EXCEPT ![t] = Tail(@)]
  /\ local' = [local EXCEPT ![t].building = @ - 1]
  /\ UNCHANGED <<claimed, epochs, owned, stamp, shared, once, at, held, heap, panics>>

\* an owner's look at its epoch: its copy is current, or is built
ReadStamp(t) ==
  /\ At(t, "read") /\ Owns(t)
  /\ IF stamp[Top(t).lazy][local[t].slot] = local[t].epoch
       THEN frames' = Goes(t, "copy") /\ UNCHANGED local
       ELSE frames' = Goes(t, "build") /\ local' = [local EXCEPT ![t].building = @ + 1]
  /\ UNCHANGED <<claimed, epochs, owned, stamp, shared, once, at, held, heap, panics>>

UseCopy(t) ==
  /\ At(t, "copy")
  /\ Return(t, owned[Top(t).lazy][local[t].slot])
  /\ UNCHANGED <<claimed, epochs, owned, stamp, shared, once, local, at, heap, panics>>

\* a copy is made: its box goes on the owner's list
Listed(t, a) == [local EXCEPT ![t].building = @ - 1, ![t].built = Append(@, a)]

\* build_owned's init returns: the box is listed, and the Lazy points to it
MakeCopy(t) ==
  /\ At(t, "build")
  /\ \E a \in Empty :
       /\ \A b \in Empty : a <= b
       /\ heap' = [heap EXCEPT ![a] = Own(Top(t).lazy, t)]
       /\ local' = Listed(t, a)
       /\ owned' = [owned EXCEPT ![Top(t).lazy][local[t].slot] = a]
       /\ frames' = Makes(t, "stamp", a)
  /\ UNCHANGED <<claimed, epochs, stamp, shared, once, at, held, panics>>

StoreStamp(t) ==
  /\ At(t, "stamp")
  /\ stamp' = [stamp EXCEPT ![Top(t).lazy][local[t].slot] = local[t].epoch]
  /\ Return(t, Top(t).box)
  /\ UNCHANGED <<claimed, epochs, owned, shared, once, local, at, heap, panics>>

\* the OnceLock of a thread that owns no slot: its value, or the right to build it; a thread
\* that finds another building waits
ReadShared(t) ==
  /\ At(t, "read") /\ ~Owns(t)
  /\ LET l == Top(t).lazy IN
       \/ shared[l] # 0 /\ Return(t, shared[l]) /\ UNCHANGED once
       \/ /\ shared[l] = 0 /\ once[l] = None
          /\ once' = [once EXCEPT ![l] = t]
          /\ frames' = Goes(t, "init")
          /\ UNCHANGED held
  /\ UNCHANGED <<claimed, epochs, owned, stamp, shared, local, at, heap, panics>>

MakeShared(t) ==
  /\ At(t, "init")
  /\ \E a \in Empty :
       /\ \A b \in Empty : a <= b
       /\ heap' = [heap EXCEPT ![a] = Kept(Top(t).lazy)]
       /\ shared' = [shared EXCEPT ![Top(t).lazy] = a]
       /\ Return(t, a)
  /\ once' = [once EXCEPT ![Top(t).lazy] = None]
  /\ UNCHANGED <<claimed, epochs, owned, stamp, local, at, panics>>

\* an init or a scope panics: those under way on the thread end one by one, then its job
Panic(t) ==
  /\ At(t, "build") \/ At(t, "init") \/ At(t, "scope")
  /\ panics < MaxPanics
  /\ panics' = panics + 1
  /\ at' = [at EXCEPT ![t].pc = "unwind"]
  /\ UNCHANGED <<claimed, epochs, owned, stamp, shared, once, local, frames, held, heap>>

\* catch_unwind lowers BUILDING whichever way the build or the scope ends
NotBuilding(t) == IF Owns(t) THEN [local EXCEPT ![t].building = @ - 1] ELSE local

\* a build that unwinds leaves the OnceLock as it found it
NotOnce(t) == IF Owns(t) THEN once ELSE [once EXCEPT ![Top(t).lazy] = None]

Unwind(t) ==
  /\ at[t].pc = "unwind"
  /\ local' = NotBuilding(t)
  /\ once' = NotOnce(t)
  /\ frames' = [frames EXCEPT ![t] = Tail(@)]
  /\ IF Len(frames[t]) = 1
       THEN at' = [at EXCEPT ![t] = Idle] /\ held' = [held EXCEPT ![t] = {}]
       ELSE UNCHANGED <<at, held>>
  /\ UNCHANGED <<claimed, epochs, owned, stamp, shared, heap, panics>>

\* a job lets go of the references it has
JobEnds(t) ==
  /\ at[t] = Idle /\ frames[t] = <<>> /\ held[t] # {}
  /\ held' = [held EXCEPT ![t] = {}]
  /\ UNCHANGED <<claimed, epochs, owned, stamp, shared, once, local, frames, at, heap, panics>>

-----------------------------------------------------------------------------
(* release and disown *)

\* release: every copy is stale, then the list is taken; ending: for disown
BeginRelease(t, ending) ==
  /\ BetweenJobs(t) /\ Owns(t)
  /\ EpochsLeft
  /\ epochs' = [epochs EXCEPT ![local[t].slot] = NextEpoch(local[t].slot)]
  /\ local' = [local EXCEPT ![t].epoch = epochs'[local[t].slot], ![t].built = <<>>]
  /\ at' = [at EXCEPT ![t] = [pc |-> "free", slot |-> 0, boxes |-> local[t].built,
                              ending |-> ending]]
  /\ UNCHANGED <<claimed, owned, stamp, shared, once, frames, held, heap, panics>>

\* mutant: the slot is others' before the thread forgets it
GivenFirst(t) ==
  /\ at[t].pc = "free" /\ at[t].boxes = <<>>
  /\ \/ /\ at[t].ending /\ claimed[local[t].slot]
        /\ claimed' = [claimed EXCEPT ![local[t].slot] = FALSE]
        /\ UNCHANGED <<at, local>>
     \/ /\ at[t].ending => ~claimed[local[t].slot]
        /\ at' = [at EXCEPT ![t] = Idle]
        /\ local' = IF at[t].ending THEN [local EXCEPT ![t].slot = -1] ELSE local
        /\ UNCHANGED claimed
  /\ UNCHANGED <<epochs, owned, stamp, shared, once, frames, held, heap, panics>>

FreeBox(t) ==
  /\ at[t].pc = "free" /\ at[t].boxes # <<>>
  /\ heap' = [heap EXCEPT ![Head(at[t].boxes)] = Free]
  /\ at' = [at EXCEPT ![t].boxes = Tail(@)]
  /\ UNCHANGED <<claimed, epochs, owned, stamp, shared, once, local, frames, held, panics>>

\* release returns; disown forgets the slot before it is free for others
EndRelease(t) ==
  /\ at[t].pc = "free" /\ at[t].boxes = <<>>
  /\ IF at[t].ending
       THEN /\ at' = [at EXCEPT ![t] = [Idle EXCEPT !.pc = "give", !.slot = local[t].slot]]
            /\ local' = [local EXCEPT ![t].slot = -1]
       ELSE at' = [at EXCEPT ![t] = Idle] /\ UNCHANGED local
  /\ UNCHANGED <<claimed, epochs, owned, stamp, shared, once, frames, held, heap, panics>>

GiveUp(t) ==
  /\ at[t].pc = "give"
  /\ claimed' = [claimed EXCEPT ![at[t].slot] = FALSE]
  /\ at' = [at EXCEPT ![t] = Idle]
  /\ UNCHANGED <<epochs, owned, stamp, shared, once, local, frames, held, heap, panics>>

\* a Lazy goes with no reference to it alive, and another is made where it was; the copies
\* owners have of it stay on their lists (bound: while the heap has room for every copy)
DropLazy(l) ==
  /\ \A t \in Threads : /\ \A h \in held[t] : h[1] # l
                        /\ \A i \in DOMAIN frames[t] :
                             frames[t][i].lazy = l => frames[t][i].pc = "scope"
  /\ Cardinality(Empty) >= Cardinality(Lazies) * (Cardinality(Owners) + 1)
  /\ shared[l] # 0 \/ \E s \in Owners : owned[l][s] # 0
  /\ owned' = [owned EXCEPT ![l] = [s \in Owners |-> 0]]
  /\ stamp' = [stamp EXCEPT ![l] = [s \in Owners |-> 0]]
  /\ shared' = [shared EXCEPT ![l] = 0]
  /\ heap' = [a \in Boxes |-> IF a = shared[l] THEN Free ELSE heap[a]]
  /\ UNCHANGED <<claimed, epochs, once, local, frames, at, held, panics>>

-----------------------------------------------------------------------------
LazyInit ==
  /\ claimed = [s \in Owners |-> FALSE]
  /\ epochs = [s \in Owners |-> 0]
  /\ owned = [l \in Lazies |-> [s \in Owners |-> 0]]
  /\ stamp = [l \in Lazies |-> [s \in Owners |-> 0]]
  /\ shared = [l \in Lazies |-> 0]
  /\ once = [l \in Lazies |-> None]
  /\ local = [t \in Threads |-> NoSlot]
  /\ frames = [t \in Threads |-> <<>>]
  /\ at = [t \in Threads |-> Idle]
  /\ held = [t \in Threads |-> {}]
  /\ heap = [a \in Boxes |-> Free]
  /\ panics = 0

\* a step inside a call of deref
InDeref(t) ==
  \/ \E l \in Lazies : frames[t] # <<>> /\ (Deref(t, l) \/ BeginScope(t, l))
  \/ EndScope(t)
  \/ ReadStamp(t) \/ UseCopy(t) \/ MakeCopy(t) \/ StoreStamp(t)
  \/ ReadShared(t) \/ MakeShared(t) \/ Panic(t) \/ Unwind(t)

LazyNext ==
  \/ \E t \in Threads :
       \/ EpochsLeft /\ ClaimSlot(t)
       \/ TakeEpoch(t)
       \* bound: a job uses one static, or has one scope
       \/ \E l \in Lazies : BetweenJobs(t) /\ (Deref(t, l) \/ BeginScope(t, l))
       \/ InDeref(t) \/ JobEnds(t)
       \/ \E ending \in BOOLEAN : BeginRelease(t, ending)
       \/ FreeBox(t) \/ EndRelease(t) \/ GiveUp(t)
  \/ \E l \in Locals : DropLazy(l)

LazySpec == LazyInit /\ [][LazyNext]_lazyVars

-----------------------------------------------------------------------------
(* Properties *)

LazyTypeOK ==
  /\ claimed \in [Owners -> BOOLEAN] /\ epochs \in [Owners -> Nat]
  /\ owned \in [Lazies -> [Owners -> Boxes \cup {0}]]
  /\ stamp \in [Lazies -> [Owners -> Nat]]
  /\ shared \in [Lazies -> Boxes \cup {0}] /\ once \in [Lazies -> Threads \cup {None}]
  /\ \A t \in Threads :
       /\ local[t].slot \in Owners \cup {-1} /\ local[t].epoch \in Nat
       /\ local[t].building \in 0 .. Cardinality(Lazies)
       /\ held[t] \subseteq Lazies \X (Boxes \cup {0})

\* The boxes on t's list, those release has taken off it included.
ListOf(t) == local[t].built \o at[t].boxes

\* No two threads own one slot, and a slot owned is claimed: own_here's exchange and
\* disown's order, whatever threads come and go.
OneOwner ==
  \A t, u \in Threads : Owns(t) => /\ claimed[local[t].slot]
                                   /\ t # u => local[u].slot # local[t].slot

\* What a job got from a static is a value of that static, still there, and either the
\* job's own thread's copy or the value every thread keeps: no copy is handed out after it
\* was freed, nor one of another owner's (lib.rs:12-15).
HeldIsLive ==
  \A t \in Threads : \A h \in held[t] :
    h[2] # 0 /\ heap[h[2]] \in {Own(h[1], t), Kept(h[1])}

\* A copy its slot's owner would take for current is on that owner's list and there, at
\* every step of a build, a release and a change of owner.
CurrentIsListed ==
  \A t \in Threads, l \in Lazies :
    (Owns(t) /\ stamp[l][local[t].slot] = local[t].epoch) =>
      LET a == owned[l][local[t].slot] IN Contains(local[t].built, a) /\ heap[a] = Own(l, t)

\* Every copy made is on its maker's list once and on no other, until it is freed: none is
\* freed twice or never, also when its Lazy has gone.
ListedOnce ==
  \A t \in Threads, a \in Boxes :
    Cardinality({i \in DOMAIN ListOf(t) : ListOf(t)[i] = a}) = IF heap[a].by = t THEN 1 ELSE 0

\* building() is true exactly while an owner builds a copy of its own or runs a build_scope,
\* one inside the other and panics included: the allocator puts in the freeable heap all
\* that goes with the copies, and nothing that stays.
BuildingSaysSo ==
  \A t \in Threads :
    local[t].building =
      IF Owns(t) THEN Cardinality({i \in DOMAIN frames[t] : frames[t][i].pc \in {"build", "scope"}})
      ELSE 0
\* The copies, the lists that will free them and what says that a thread is building agree
\* at every step of a build, a scope, a panic, a release and a change of owner.
CopiesInPlace == LazyTypeOK /\ CurrentIsListed /\ ListedOnce /\ BuildingSaysSo
===============================================================================
