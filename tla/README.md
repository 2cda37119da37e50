# Q Calc: models and proofs

TLA+ models of the parts of Q Calc where order, concurrency and failure decide
whether the program is right, the TLC runs that check them and the theorems
TLAPS proves about them. Everything is translated from the source in `src/`;
`PROJECT.json` gives the source lines behind every definition.

## The system

Q Calc is a calculator (a Rust engine in `native/core`, hosted by a Windows app,
Mac apps and a web page) with two-player games and messages between names. The
engine is sequential and pure: strings in, answers out, compared with golden
files. What is concurrent is the **relay** (`relay/src`, a Cloudflare worker with
Durable Objects and an R2 bucket), the clients' links to it, and the engine's
threads.

| Part | State | Operations | What makes it correct | Module |
| --- | --- | --- | --- | --- |
| Ledger of files (`ledger.js`) | one record per file; counters of room per recipient, sender, sender's day, bucket; offers out; day's R2 operations; an address's starts | offer, grant, revert, start, startStream, started, part, partDone, finish, stored, readable, partReadable, partRead, remove, sweep | counters agree with records through every removal; caps hold of the files; every stage ends | `Ledger`, `LedgerCron`, `FileTransferProofs` |
| Arithmetic of files (`files.js`) | none | partCount, partLength, streamPartBytes, hourOf, dayOf | the parts tile the file; a streamed file never has more than 64 | `Files` |
| Worker's file routes (`index.js` 151-540) | none of its own: each request's place between two awaits | send an offer, accept, start, part, finish, readPart, download, cancel, clear, the hourly sweep | ledger and bucket agree whatever requests interleave, repeat or die | `FileTransfer`, `FileTransferProofs` |
| Bucket (R2, outside `src/`) | objects, multipart uploads | put, get, delete, create/upload/complete/abort multipart | external; modelled as `index.js` uses it | in `FileTransfer` |
| Room (`index.js` 639-1022, `seats.js`) | links, seats, queue, why the last game ended, alarm | /open, /host, /enter, /guest, /back, message, close, error, alarm | one link per seat; a held seat is timed; messages in order; a game ends for a cause | `Room`, `RoomProofs` |
| Codes and claims (`index.js` 734-804) | a code's claim, a room's code and wrong tries | draw, claim, release, held, redraw | a shown code leads to its room and no other; nothing is held behind | `Codes`, `CodesProofs` |
| Lists of rooms (`Directory`, `directory.js`) | rooms, watchers, alarm | add, remove, prune, watch | shows what waits, newest first, within its limits | not modelled |
| Names and inboxes (`Inbox`, `names.js`) | a name's claim and key, its sockets, alarm | hold, release, publish, deliver, notify | one holder per name; only the holder hears | not modelled |
| Client's link (`peer_online.rs`, `peer.rs`) | socket, seat, outbox, timers | host, join, send, close, step away, come back, resume, ping, what sockets report | resumes or gives up; loses nothing it says it kept; old sockets change nothing | `PeerOnline`, `PeerOnlineProofs`, abstract: `PageLink` |
| Turn games' sessions (`connect4_session.rs`, `ultimate_session.rs`), their rules (`connect4.rs`) | a game, its number, whose turn, when the other was last heard | start, play, rematch, receive, tick | both sides play one game by the rules; silence is not invented | `TurnGame`, `Connect4`, abstract: `OneGame` |
| Trails (`trails/mod.rs`, `trails/session.rs`) | a round, frames sent and heard, an epoch, a hash to check | turn, receive, tick, rematch, snapshot | lockstep over a lossy link; what differs is found and healed | `Trails`, `TrailsRound`, `TrailsProofs` |
| Pong and ember sessions | a field that one side runs | inputs, states | the same, with one side in charge | not modelled |
| File client (`share.rs`) | an upload's or download's place | run, part, retry, cancel | ends; never reports a lost file as sent | its requests in `FileTransfer`, repeated at will |
| Engine threads (`worker.rs`, `cancel.rs`, `work.rs`) | queues, answer slots, cancel flags | run, spawn, poll, drop, cancel | every call is answered once and truly; cancelled work stops | `Workers`, `WorkersProofs` |
| `Lazy` (`lazy/src/lib.rs`) | owner slots, epochs, copies | own_here, release, disown, deref, build_scope | no freed copy is ever read | `LazyOwners`, `LazyOwnersProofs` |
| Engine, games' rules and bots, app logic, UIs, page, analytics, tooling | | | | not modelled, see the end |

How they interact: an app offers a file through the worker, which calls the
ledger, then the recipient's inbox; the recipient accepts, the sender's inbox
hears the grant; parts go through the worker into the bucket, with a ledger call
before and after each; the cron sweeps the ledger and clears what it let go. A
host opens a room, which adds itself to its game's list; a guest enters by its
id or, through the code's own room object, by its code; the room then passes
messages. A Durable Object answers one call at a time as long as a handler awaits
nothing but its own storage; whenever it awaits another object, other calls run.
That is the line along which the relay's handlers are cut into actions here. A client's
link and a game's session are called by one thread: a call is one action, and what is
concurrent is the sockets, the timers and the other side. The engine's threads are cut at
every access to what they share.

The hard behaviours, each with its line and the properties that watch for it,
are the `hazards` of `PROJECT.json`.

## The modules

**Files** holds the arithmetic, over constants for `PART_BYTES` and the rest.

**Ledger** is the class `Ledger`. `file` holds the records by id; `pendTo`, `pendFrom`,
`total`, `day`, `offers` and the other counters are the storage keys `add` moves. One action per method: an object's storage awaits let no other call
in, so a method is one step. Each method with several answers has an operator for
its answer (`GrantAnswer`, `StartAnswer`, ...), with the source's checks in the source's
order. `sweep` takes every lapsed record in one step, as the code does before
it awaits anything but storage. `LedgerCron` adds the hourly schedule.

**FileTransfer** extends Ledger with the worker. Each of `Workers` is one request on
its way; `worker[w].at` names the call it makes next, and each call to the ledger or the
bucket is one action. `known`, `heard` and `got` are what the apps can know: an
accept is asked only by a recipient that heard of the offer, a start only with a
grant that was heard. Any request may be sent again while an earlier copy is
under way (`Arrive` is always enabled for a free worker), an R2 call may fail
where the code has a branch for it, and a request may die between any two calls
(`Die`, at most `MaxDeaths` times). An offer the relay refused may be made again under its id, as share.rs does
after a `too-many` (905-921); one it took is not, though the ledger would allow it once the id is out no
longer: the apps draw an id for every file (share.rs:889). `late` is not the program's: the streamed parts that a
request found stored when it had put one, and that `part` then deletes.

**Room** is one room object. `link` holds its websockets: `open`, `lost` (dead,
and the room does not know), `closing` (closed by the room, not yet by the
player), `leaving` (in `leave`'s call to the list). /open awaits its add to the list, and /enter, leave and the alarm of
a listed room their remove, so they are two actions each, with anything in between
(`OpenRoom`/`Added`, `Enter`/`Entered`, `Leave`/`LeaveDone`, `Alarm`/`Expired`); everything else is one. Either
call may fail, which the code swallows, a remove may come before the add, and the list may let a room go by itself
(`ListDrops`). `alarm` counts down; `away` counts how long a side has been gone, so the clock
itself has no bound. When `alarm` is 0 the alarm is due, and time may pass before it runs:
Cloudflare runs alarms at least once, not on the dot. A close may arrive late. Two variables are not the
program's: `kept`, the messages put by for a player in this game, and `missed`, that a remove failed or was there
before the add.
Assumed: no message comes from a link the room has closed; a link whose request
has not been answered cannot be lost before it is; memory equals storage (a room with
seats or a queue does not forget them: a crash that loses the last second of the queue is
left out); an object serves one game.

**Codes** is every listed, locked room with the objects of the codes it may draw, which
are the objects of code-only rooms: `claim[c]` is the listed room a code is held for,
`codeOnly[c]` the code-only room there. A listed room reaches a code's object by calls.
A claim is one step there (`Ask`) and another where its answer is used (`Opened`,
`Redrawn`), which read the room as it is by then; a release sets out (`freeing`) and
arrives (`Release`) at any later time. Up to `MaxLost` calls fail, done or not. Any draw
may come upon any code, so two draws of a room overlap in every way. `due` counts
down to `meta.until`, which the room and its claim share; an alarm of a code's object
may run early, as a repeat of one set before. Rooms in `Resuming` hold a guest's seat
(`away`). Three variables are not the program's: `tried` in a room counts the wrong codes its
code has had, `again` names the rooms that drew a code they held already, and `inGame` those that took a new
code in their game, with the guest away. Assumed: ids of rooms are never drawn
twice; what links and seats do beyond that is `Room`.

**PageLink** is what a page may count on from its link: off, waiting, on or away, every
change of it heard once, no message unless it is on, nothing once it is off. **PeerOnline** is
the machine `OnlinePeer` that has to provide it. `me` holds its fields of the link, `sock`
every socket there still is, the dropped ones included: a socket dies unheard (`Dies`),
or reports that it opened, a message or its end (`Opened`, `Message`, `Closed`), also after
the machine has let it go; `Ours` is the code's test that it is the current one. A timer is
the time left to it, and a due timer fires before any call that carries a time, as
`tick` does it. `sends`, `wrote` and `owed` are not the program's: they number what the page
sends in one game. `ViewOf` is the refinement mapping: the page's view from `paired`, the
seat and the socket.

**Connect4** is the game's rules over a board of any size; **OneGame** is one game after
another on one board. **TurnGame** is two sessions, the lobby's clock that stands still while a
side is away, a link each (as PageLink has it, with `OnlinePeer`'s outbox) and the relay's
room between them (as `Room` has it, with its queue). A link may be cut with
nobody told, a window may be hidden at any time; what is on a socket its machine
has dropped is lost. A /back may overtake what is still up the old link, which the relay passes on before what the new
one says; the close of the old link is not heeded then (`Replaced`). Both sides run the same game and version: the
branches of `receive` for another's hello, and for the Bye that answers only such a one (connect4_session.rs:231-235,
244-247, 268), are never taken and are left out. `Front`, the session that is further on, is the refinement mapping to OneGame.

**TrailsRound** is a round of trails: two cycles on a grid. **Trails** is two sessions in
lockstep over a link that loses messages and lets them overtake each other (`Lose`,
`Overtake`), with a guest that is made to differ at any moment (`Drift`, what
`session_tests.rs` does by hand). Every message repeats the frames not yet acknowledged; the guest's
hashes let the host find a difference, and a snapshot in a new epoch heals it. A hash stands for
the cells gone through, so that two that differ are never taken for the same. Of time only this is
kept: a message is never as old as the pause between rounds or as `RESEND_MS`, nor a page held
up as long as a count. `drifted` is not the program's: the epoch in which the two were made to
differ, or the guest was taken back a round, where agreement is not asked for until the next.

**Workers** is the two pools: a sync call blocks for its answer, an async one gets a future
over a slot. A step is one critical section of a lock or one access to a flag; the executor
polls a task that was woken, may poll one that was not, and may use another waker every
time. The system may refuse any of the threads. `ran` is not the program's: the calls whose work
was begun.

**LazyOwners** is the statics whose values threads can give back. A step is one access to
what threads share; the accesses to one slot are ordered by `CLAIMED`'s acquire and
release, so memory is sequentially consistent. A thread's calls nest: a static's `init` may use another, and so may
what runs in a `build_scope` (`BeginScope`, `EndScope`: a cache kept elsewhere that is freed with the copies, jsre.rs:96,
scientific/preprocess.rs:97), which counts as a build; a panic ends them one by one. `heap` says of every address whose value it holds,
freed addresses are handed out again, an `init` or a scope may panic, and a Lazy that is no
static may go.

Each `MC*` module instantiates one of these for TLC, with symmetry over the
interchangeable sets. Definitions marked `mutant:` stand beside the ones they
alter; `PROJECT.json` says which property each is caught by.

Invariants that belong together are one property of a run: `StagesEnd`, `BucketAgrees`, `SeatsRight`, `KeptInOrder`, `RoomEnds`,
`CopiesInPlace`, `AnsweredOnce`, `LinkInPlace`, `InOneGame`, `Lockstep` and `NoneUnsaid` are conjunctions of named parts, a module's type invariant
among them.

## What is checked

| Run | Shows | Bounds, and why they are enough |
| --- | --- | --- |
| `ledger` | the counters are what the records add up to, and the caps hold of the files | two names, two files of 1 or 3 bytes, caps of 4 and 5: two large files just pass every cap, a large and a small one just fill it. Time 1 crosses a midnight and reaches every limit, `MaxGrants` 2 lets each file be granted, or one twice |
| `ledger_cron` | the types; one acceptance holds room a bounded time; a lapsed offer goes by the next sweep | one file, time up to 8 (past every limit added up), two parts so that an upload can trickle |
| `file_transfer` | nothing is left behind (but by a death), nothing is stuck, stored is there, counted parts are in, a heard grant stands, nothing unread goes | three requests at once for one file of two parts, whole or streamed: a pair that race and one that removes. Two acceptances, one death between any two calls, after which two requests are left. Five writes a day, so that the day's budget may run out before an upload is finished. Time 1 reaches the grant's and upload's ends |
| `room` | one link per side; whoever is away is timed; seats go with the game; messages in order, none kept and lost; each player sees whether the other is there; the list shows only who waits alone, but for a remove that failed or came first; a game ends for a cause, no late close among them | three links (a host, a guest and one that takes over); grace of 2 so that two seats lapse at different times; two messages over a queue of one, so it overflows |
| `room_ends` | a game both have left ends; a host does not wait for ever | as `room`, without messages and without symmetry |
| `codes` | a code shown is held for the room that shows it; no code is a code-only room's and a listed one's | two rooms, one with seats, over two codes, so that they collide; two draws at once, each tried twice (`HOST_TRIES`), two wrong codes, the tries of one code: it is worn and redrawn; one lost call |
| `worn_codes` | nothing is held behind a room; a code that took its wrong tries goes; no claim lasts for ever | one room with seats over two codes; four wrong codes: two redraws, overlapping, also after the guest has joined and dropped; one lost call; no symmetry, for the liveness. A draw is tried once: trying again is in `codes` |
| `online_peer` | no socket is left open behind; who is away is being tried for; frames are kept in order, none twice; 1000 is only said for good; the page hears PageLink; away ends | two sockets at a time, so that a dropped one reports beside its successor; an outbox of one and two sends, so that it is full once; retries after 1 and 2 units of a resume time of 3, so that they are put off, capped and given up; one waking |
| `turn_game` | the boards are one game, a step apart; never both sides' turn; no session is lost in vain; the sessions play OneGame; moves arrive | a board of three columns and one row with a line of two: won, drawn and full columns all occur; two games; one cut or hiding, at any moment; silence of 2 units |
| `trails` | both run the same round; a frame sent is fixed; all unacknowledged frames fit a message; none is taken for heard that is not held; the match settles | a grid of 4 by 2, which crashes within a few ticks; two rounds, so that one is adopted, repeated or left behind; a turn of the guest's; one fault; two messages on their way each way |
| `workers` | no wake-up is lost; one job a call; answers are true; calls are answered; dropped work stops | one thread for sync calls, two for long ones, so that one is free while the other is in work that never ends; two calls of three, one of them endless; two wakers |
| `lazy_owners` | a slot has one owner; no reference is to freed memory; a current copy is listed, once; `building` is true exactly in a build or a build_scope | two threads over one slot, so that they race for it and follow each other; a static and a local Lazy built from it, each also in a scope; five addresses, reused; three epochs; one panic |

Four more configurations check what the repository says of itself and the code does not do. Each is of one of the
disagreements below, has the constants of the run it stands beside, and is no run of its own: TLC
finds its property violated, in seconds but for the third (a minute), and shows how.

| Configuration, of module | What is said | Bounds |
| --- | --- | --- |
| `MCStreamedPart.cfg`, `MCFileTransfer` | what `part` deletes is of a file taken back or turned down (index.js:357): `StreamIsThere`, every part of a stored file is in the bucket | as `file_transfer` |
| `MCClaimGoes.cfg`, `MCCodes` | a claim goes when its room is joined, closed or expired (index.js:69-70): `ClaimGoes`, said where no call fails | as `worn_codes` |
| `MCAwayLetGo.cfg`, `MCRoom` | a side away is let go when its time is up (relay/README.md:94): `AwayLetGo` | as `room_ends`, with its fairness |
| `MCExpiredAlone.cfg`, `MCRoom` | a room nobody joined is closed (index.js:76): `ExpiredAlone`, who is told `expired` has not had a game opened | as `room_ends` |

The deadlock check is off where the system may stop: `Room` and `Codes` because time may have nothing
left to count once the rooms are over, `TurnGame` and `Trails` because games end,
`Workers` because all calls are answered.

### Fairness

Fairness is stated only where a run has a liveness property (`RoomFairSpec`): time
passes; a due alarm runs (Cloudflare's guarantee); a call to the list is answered or fails, and
every closed or dead link is noticed in the end (the auto-response pings and
Cloudflare's close events). Players are never assumed to do anything. `CodesFairSpec` assumes that
time passes and that a code's alarm runs once its claim has lapsed, and of the rooms
and the calls nothing.

`PeerFairness`: time passes and a due timer fires (the shell calls `tick`); a socket the machine
closed reports its end; the relay answers a socket that asked while that link lives. The last
is strong: a timer that is due puts the answer off, again and again, but never for long.
`TurnFairSpec`: frames pass over links that work, boards open, time passes, and a cut
link is noticed by both its ends (pings). `TrailsFairSpec`: the page's frames keep coming and the oldest
message on the link is lost or lands; a tick's fairness is strong since only the bound on
messages ever holds a tick up, and it is written out, with what enables each action, because
TLC's own ENABLED of these actions is too slow. `WorkersFairSpec`: the system runs
every thread, an executor polls a task that was woken, and a closure ends unless it is one of
`Endless`. Players and hosts are never assumed to do anything.

### What implements what

`online_peer` checks that PeerOnline implements PageLink (`ImplementsLink`, mapping `ViewOf`): whatever sockets,
timers and retries do, the page is told a life of its link. `turn_game` checks that the two
sessions and everything between them implement OneGame (`PlaysOneGame`): no side is in
charge, and yet every step of the pair is a legal disc or a legal new game. TurnGame takes its links as
PageLink and its relay as Room, each abstracted by hand rather than composed: the three together are
out of TLC's reach.

## Disagreements

Places where the code does not do what its own words say, met while modelling. Of the first four a
configuration shows the trace; of the others no property of the runs speaks. What the passing runs check is what does hold around them:
`BucketAgrees`, `NothingHeldBehind` and `SeatsRight` name the case that is left.

- A streamed part's PUT, retried, whose second copy ends after finish has stored the file, deletes
  the stored part. `partDone` (ledger.js:232-234) answers false both for a file that is gone and
  for one that is stored; `part` (index.js:356-357, "taken back or turned down while it was
  on its way") takes both for gone (`MCStreamedPart.cfg`).
- A guest who joins while the expiry alarm awaits the list is paired, and the host is then closed as
  expired (index.js:1011-1012), against "a room nobody joined is closed" (index.js:76; `MCExpiredAlone.cfg`).
- `drop` (index.js:939-940) sets the alarm for seats not yet overdue (seats.js:37-38): one that is due and
  has not run is put off, and a side that never comes back is kept for as long as the other keeps
  dropping within its ten minutes (relay/README.md:94; `MCAwayLetGo.cfg`).
- A redraw that ends while the guest who joined is away with its seat held claims its new code in
  the middle of the game (index.js:788), against index.js:69-70 (`MCClaimGoes.cfg`).
- worker.rs:73-74 says that `run` falls back to a thread of its own when the pool's was refused;
  run_on (141-143) answers an error.
- peer_online.rs:16-17 says a link that is silent for `DEAD_MS` is dead; a socket that opened and was never
  heard is not counted (line 214), so one that dies unheard keeps its side away (`DiedUnheard`, left
  out of `AwayEnds`). `close` and `page_hide` while away, between two tries, tell the relay nothing
  (566-576 against 565, 571).
- The relay's README says what is sent to a side that is away is handed over in order; what was on the
  socket of a window that is hidden is lost. And it gives a side ten minutes to come back
  (README.md:94), while a link cut with nobody told can end the game after five seconds of silence
  (connect4_session.rs:17-18, 288): `NotLostInVain` and `MovesArrive` are said of links that are not cut.
- trails/session.rs: `prev` is kept when a snapshot of an earlier round is adopted, so that frames once sent may
  be sent again for a round played anew (against the comment at 627; the hash check repairs
  it, and `drifted` marks such an epoch). The one `check` slot is overwritten by an older hash that
  comes later (against 360). A rematch's `Again` is sent once: if it is lost the match is not
  played again. A side that is a round ahead answers the other's frames at once, and messages
  older than the pause between rounds could be answered back and forth.

## What is proved

`FileTransferProofs` proves of the ledger alone, for any names, ids, lengths, caps and limits (the
assumptions `FilesAssumption` and `LedgerAssumption`: naturals, with parts of at
least one byte):

- `TypeCorrect`: `Spec => []TypeOK`, in particular that no counter ever goes below 0;
- `RoomIsAccounted`, `OffersAreCounted`, `DayIsCharged`, `CapsAreHard`: the four
  invariants of run `ledger`.

None of these is inductive alone. That a counter stays at or above 0 when a file's
length is taken from it needs to know that the counter contains that length, which is
`RoomAccounted`; that needs every record's length to be a number (`Known`); and
`CapsHold`, which speaks of the files, follows from `CapsCounted`, which speaks of
the counters, only through the accounts. The inductive invariant is

    Inv == TypeOK /\ Known /\ RoomAccounted /\ OffersCounted /\ DayCharged /\ CapsCounted

The records enter the accounts as sums of lengths over sets of ids. A sum is defined as a
cardinality, `ByteSum(S, len)`, of the set of the bytes of those files (pairs of
an id and a place), so that what the proof needs of it, that a file more or less
changes it by that file's length, follows from the library's facts about the
cardinality of disjoint unions, with no induction. Each method is then shown to
preserve `Inv` by how it moves a file between the states that hold room and those that do
not: lemmas about `Reserve`, `Release` and `Drop` carry the argument and the
methods cite them. `Sweep` removes a set of files at once and is shown by the same sums over that set.

The same module proves of the ledger under its cron, with `CronAssumption` (a stored file is kept for a while):

- `StagesEndInTime`: `CronSpec => []StagesEnd`, the invariant of run `ledger_cron`, from `CronInvHolds`.

How long room may be held says nothing of the stage a file is in. The inductive invariant does (`StagedInTime`):
a grant was given while its offer stood, an upload started while its grant did, a file was stored no later than one
sweep after its upload's limit, and at the last sweep none of these had run out. That a part in or read moves
nothing (it renews `touched`, never `started`) is what keeps a trickle from prolonging an upload. Every call is first
shown to leave a file's stage, end it, or move it to the next one in time (`SameStage`, `StageEnds`, `NextStage`).

`CodesProofs` proves, for any rooms, codes, number of draws at once, tries and lost calls
(`CodesAssumption`):

- `CodesTyped`: `CodesSpec => []CodesTypeOK`;
- `OneKindOnly`: `CodesSpec => []ClaimOrGame`;
- `CodeFindsItsRoom`: `CodesSpec => []FoundByCode`; the last two are the invariants of run `codes`;
- `NoCodeIsLeftHeld`: `=> []NothingHeldBehind`, and `WornCodesGo`: `=> []WornCodeGoes`, those of run `worn_codes`.

That a shown code is held is not inductive: it fails if a release of that code is on its
way, and it is only as good as the codes that draws bring. The inductive invariant
adds that a shown code has no release on its way (`ShownIsHeld`); that a drawn code is
held too, has none either and is neither the shown one (`DrawnIsHeld`) nor another
draw's (`DrawnApart`); and that a code being freed is still held and is freed once
(`FreedOnce`), so that nobody, the room itself included, can claim it between:

    Inv == CodesTypeOK /\ DrawsInPlace /\ ShownIsHeld /\ DrawnIsHeld /\ DrawnApart /\ FreedOnce

All of it is said of rooms that never claimed a code they held, whose time is not up. The
exception is needed: a redraw may draw the code the room already holds (`claim`, index.js:759,
grants it), show it as the new one and then free it as the old one; TLC finds `FoundByCode`
violated when it is said of every room.

What is left behind is said of every room, those with seats too, but for the code that a room took in its game
with its guest away (`inGame`), and rests on more: until a call fails, a code held for a
room whose time is not up is being freed, drawn and not yet used, or shown (`HeldForCause`); and while no
draw is under way, a waiting room's count of wrong codes is no less than the tries its code took, or one short
of the last (`CountCovers`), which is what a failed redraw sets it to.

`WorkersProofs` proves, for any threads, calls, wakers and endless closures (`WorkersAssumption`: the
two kinds of calls and of threads are apart):

- `WakeupsReach`: `WorkersSpec => []NoLostWakeup`, and `AnsweredTruly`: `=> []AnsweredOnce`, the
  invariants of run `workers`;
- `AnsweredForGood`: no step changes an answer given, or begins an answered call's work.

That no wake-up is lost is a fact of four places: the slot, the task, the thread that filled the
slot and the one that is about to wake. What makes it inductive is that a task that is not due and has no
answer yet waits on the very waker its slot holds (`WakerLeft`), so that whoever fills the slot takes
that one along. That a call is answered once needs to know where its job is, which is in one queue, or with
one thread, or in its slot (`QueuesRight`, `ThreadsRight`, `Somewhere`); that the answer is true, what every
thread is about to say (`OutcomesTrue`, `AnswersKept`).

`LazyOwnersProofs` proves, for any threads, slots, statics, addresses and epochs (`LazyAssumption`: the
statics are finitely many and ordered, so that an `init` uses earlier ones only; slot 0 is there, the one
an address falls back to, lib.rs:23):

- `SlotsAreApart` (`[]OneOwner`), `ReferencesLive` (`[]HeldIsLive`), `CopiesAreInPlace` (`[]CopiesInPlace`): all
  the invariants of run `lazy_owners`, what the crate's `unsafe` blocks rest on.

The invariant says of every thread by itself where it is in own_here, deref and disown and what that means
for its slot, its list and the heap (`Sound`), and of all of them that a slot one has is claimed and no
other's (`SlotsApart`) and no stamp is ahead of its epoch (`StampsPast`). That a copy taken for current is there
to be read follows from this: its owner's list has it once (`ListRight`), the epoch that its stamp names is the
owner's (`CurrentIsThere`), and whoever takes the slot next raises the epoch before anything is read. For
each step it is shown once that it touches nothing of other threads (`OnlyBy`), which gives all of them
theirs.

`PeerOnlineProofs` proves, for any sockets, times and outbox (`PeerAssumption`):

- `LinkStaysInPlace` (`[]LinkInPlace`), `NoFrameIsLost` (`[]FramesKept`), `SeatsAreLeftForGood`
  (`LeavesForGood`), the safety of run `online_peer`;
- `LinkAsPromised`: `PeerSpec => ImplementsLink`, the refinement of PageLink under `ViewOf`.

Each handler is taken apart into the parts it calls (`Forget`, `DropWs`, `Open`, ...), a lemma each, and shown to
keep the invariant and to be a step of PageLink, or none, in one go (`StepRight`). What is needed beyond the
invariants checked is how far the current socket is with the relay, which says whether there is a seat and a
friend (`SocketsRight`), that a seat is away exactly while it has a time to be back by (`SeatRight`), and that
what is written and what is kept add up to what was taken (`FramesRight`).

`RoomProofs` proves, for any number of links, any times and any length of queue (`RoomAssumption`; a queue
holds at least one message, MAX_QUEUED being 256):

- `SeatsAreRight` (`[]SeatsRight`: one link a side, whoever is away timed, seats only with a game, on the list
  only while a host waits alone or the room is about to unlist itself, or else a remove failed or came before its add), `KeptComesInOrder` (`[]KeptInOrder`), `PlayersSeeRight` (`[]SeesRight`);
- `GamesEndForCause`: `RoomSpec => GameEndsForCause`, where the cause is the link whose end the room has heard of in
  that very step, and not that the other side's link is closed by it: all the properties of run `room`.

None is inductive, because each rests on what cannot be under way at the same time. The invariant (`Placed`)
says what a handler at its await may find when it is back: a guest at its unlist is
the only guest, of a room with one host and no seats (`EnteringRight`); a host's first link is the only
host (`LinkRight`), so that no link comes back to a room it has not been joined in; a room has
one game with seats, after which no link is left that a guest could join (`OverForGood`), so that nothing kept
for one game reaches another; and a link the room has closed, which may still report, is one whose game is
over or nobody can come back to, or expired (the last clause of `LinkRight`), which is what keeps a late close
from ending a game. What the list shows is said of the add under way as of the room already there (`OnList`), for as
long as no remove has failed or come before it (`missed`): it is then of a host that waits, or of a room about to
unlist itself (`Waited`). To it are added that whoever is away is timed (`Timed`, with the fact that overdue's next
time is the soonest, `NextIsSoonest`), `SeesRight` itself, and what has come and is to come to each side: heard
and kept, one after the other, are one rising sequence (`ComesRight`), so that a hand-over changes nothing and
a message goes at the end, whichever of the oldest are let go (`Enqueued`). `StepKinds` sorts the room's steps into the
eight kinds these last three have to tell apart.

`FileTransferProofs` proves of the worker's routes, for any files, names, requests at once, uploads, part lengths, caps, limits and
deaths (the ledger's assumptions and `TransferAssumption`):

- `LedgerUnderneath`: `FTSpec => Spec`: the worker's routes take only steps of Ledger, so that its theorems hold
  here (`CapsInTransfer`);
- `BucketAgreesThroughout` (`[]BucketAgrees`), also after deaths, and `GrantsStand` (`GrantStands`); for a streamed
  file that is stored, `StreamsAreThere` (`[]StreamsRight`): each part is in the bucket, but for one put twice of
  which the second copy came in after the file was stored (`late`), which the code deletes (index.js:356-358);
- `NothingIsLeftBehind` (`[]NothingLeftBehind`) and `NeverIsStuck` (`[]NeverStuck`), where none died;
- `ReadsAreTrue` (`[]ReadsRight`) and `ReadBeforeItGoes` (`ReadBeforeGone`), also after deaths.

A request holds nothing but its place in its route while it awaits, and anything may happen to its file
meanwhile. `Ready(r)` says, for each call a request can be at, what that call rests on and may still rely on:
that the record it was given is the one there or is gone for good, that the upload it made is known
to nobody else or is the record's, that the part it put is there while the file goes on. The invariant is

    FTInv == Inv /\ Typed /\ BucketRight /\ FilesRight /\ AllReady /\ AllApart

with `Inv` the ledger's own, `FilesRight` and `BucketRight` what the ledger's records say of the bucket and what the
bucket's objects say of the records, and `AllApart` that no two requests are at calls that make the same upload,
finish the same one or answer for the same grant. Each call of the ledger is first reduced to what it does to the one
record it names (`PartMoves`, `StoredMoves`, ...). Each step is then shown to leave its own request
`Ready`, and to be `Careful` with the rest: what `FilesGoOn`, `BucketGoesOn` and `AppsGoOn` say a step may
do to other files, uploads and grants. That a careful step leaves every other request `Ready` and apart
is proved once (`GoesOn`), so that no pair of steps is looked at.

What is left behind is the same argument the other way round. `Answered` says of every object, part, open upload
and file that waits for its upload that either a record has room for it or some request is at a call that
will see to it (`ForObject`, `ForPiece`, `ForUpload`, `ForFile`). A step keeps this if whatever leaves a record is
in its request's hands (`Handed`, `InHand`) and what its request had in hand it has done or has still to do
(`Relieved`); `AnswersStay` is that fact, and each step is an instance of it. With no request on its way
nothing is in anyone's hands. A death drops what was in hand, hence `deaths = 0`.

That a file goes for having been read only when it was is a count in the code: as many parts read as the file has.
`ReadRight` says that what is counted are parts of the file, and ones that were passed on (`got`), and `BeenRead`
that a request about to say so has passed them on; that as many parts as there are are all of them is `AllOfThem`. Both
are invariants of each step alone, given `FTInv`.

`TurnGameProofs` proves, for any board, silence, number of games and of faults (`TurnAssumption`,
`BoardAssumption`):

- `BoardsAreOneGame` (`[]InOneGame`) and `OneGamePlayed` (`TurnSpec => PlaysOneGame`, the refinement of OneGame
  under `Front`), both from `TurnInvariant`: `TurnSpec => []TurnInv`;
- `NoneLostInVain` (`[]NotLostInVain`), from `CalmHolds`: `TurnSpec => []Calm`.

That two boards agree is not inductive: it says nothing of what is on its way, and after a cut the same things are on
their way twice, by the outbox, the relay's queue and the greeting (`hi`) that says the last move again. The invariant

    TurnInv == Typed /\ Together /\ \A x \in Sides : PauseRight(x)

says that one side leads (`Leads`): both have played the same, or it is ahead by the disc it dropped or by the new
game both asked for (`Base`, `Ahead`); that an ask that was heard was made, and an ask made and not heard has been
answered by nobody (`AskRight`); and of everything a side has sent and the other has not taken, wherever it is, that it
is of an earlier game, an earlier disc of the one at hand, or the one thing its side is ahead by (`FrameRight`). So nothing
that is late or repeated can be taken for news: what a session lets through is what the side that leads has done.
Each step is shown to be one of six kinds: it
leaves what is on its way as it is or takes from it (`QuietTogether`), drops a disc (`DropsTogether`), takes the other's
(`TakesTogether`), asks (`AsksTogether`), hears the ask (`HearsTogether`) or begins the new game
(`RestartTogether`), and each kind keeps `Together` and is a step of OneGame or none.

That no session is lost in vain rests on time, and is said of links that were not cut. `Calm` says then where a
side that hides is on its way out and back (`CalmLink`), that each side has been told, or has it on its way in order,
whether its friend is there (`Knows`), so that both clocks run or a word that stops one is coming before the next unit of time, and
that a side has heard nothing for no longer than the hidings and one message on its way account for (`Warm`). The
proof has corrected the property: it used to be said of any number of hidings and held in the run only
because there is one of them and a silence is two units. Every hiding loses what is on its way to the window, and `age`
is not reset when it is back (it is when something is heard), so that windows hidden often enough, one
after the other, do add up to a silence; it is said now of fewer hidings than the silence has units.

`TrailsProofs` proves, for any grid, score to win by, delays, limits, presses, rounds, faults and ticks at once
(`RoundAssumption`, `TrailsAssumption`):

- `TrailsInLockstep` (`[]Lockstep`), from `TrailsInvariant`: `TrailsSpec => []TrailsInv`;
- `TrailsNoneUnsaid` (`[]NoneUnsaid`), which is `TrailsFramesFit` and `TrailsAckedIsHeld`, from the same invariant.

One assumption of `TrailsAssumption` is about numbers: three delays fit a message (`3 * d <= MAX_FRAMES`). In the code
a delay is at most 4 ticks (net.rs:17) and a message has room for 48 frames (net.rs:21).

That two rounds agree at the slower side's tick is not inductive, for three reasons. First, it says nothing of how
they came to agree: `Through(f, p, a, b)` does, a run `f` of the round from where the slower side is to where
the faster is, each tick of it by frames that both have fixed; so that a tick of the slower side, from frames it was
sent, is the next step of that run, and one of the faster side makes the run longer (`Abreast`). Second, a side may be
a round ahead: then the other is in step with the round as the first has left it (`prev`), and the
score the new round began with is the one the old round ends with (`Level`, `AheadOf`). Third, all that is on its way:
frames sent in this epoch are ones their sender has fixed, in this round or the one before (`Kept`), and
the newest snapshot on its way brings the guest level with the host as the host is now, however far it has got since
(`Pair(Host, h, Copy(m))`, of the session the guest will have once it adopts `m`). This is why frames lost, repeated or
overtaken by a snapshot do no harm: older epochs are not listened to, and in this one nothing is said twice
differently. Of a guest made to differ, or taken back a round (`drifted`), nothing is said until the host has
sent another snapshot; that it does is liveness, and TLC's.

A tick is proved in the order of the code: a step of the round, the frames sealed after it, the hash compared, what is
posted; each part is a lemma on the one session it changes, and is then shown to keep `Good`, which is said of the two
sessions and of what is on its way between them, the message just posted included.

What a message has room for is the other half of the invariant, `Fit`. A side fixes its frames a delay ahead of its
tick at most (`Own`), and its acknowledgement lags behind that by a bounded number of delays: each message says how
far its sender holds the other's frames, and its own frames go no more than a delay beyond (`Claims`), so that a frame
heard brings word of that much (`Low`). A side in the same round, or behind, has two delays outstanding at most; one
that the other has left behind has heard the last of the other's frames with one delay's less word, and has three
(`Behind`). `Acks` says that what is acknowledged to a side the other holds, and `Brings` that it will be so once the guest
adopts the newest snapshot, which is what `AckedIsHeld` needs: an acknowledgement that runs ahead
would leave a frame unsaid for good, and both sides waiting.

The proof has corrected this property too. `FramesFit` used to be said whenever the two are in one epoch and
nothing made the guest differ in it. That holds in the run, with its one fault, and not in general: a guest that once differed may
have gone far on alone, and the host is then answered with the last frames of a round, which acknowledge
nothing (`a` is -1, session.rs:651-666), so that its own frames pile up. It is said now of a match in which the guest
has not differed yet; `AckedIsHeld` is said of any epoch in which it does not.

Only model-checked: all liveness, which the prover cannot treat.

## The plan

Modelled: what the table above names. Proved: every safety property the runs check. What would come
next are the parts of the table that have no module: the lists of rooms, and names and inboxes.

## What is not modelled, and why

- The calculator engine, phrases, syntax, symbolic and numeric functions: pure functions over
  strings and floating point, compared with golden files; their state space is not one TLC can bound usefully.
- Bots, the rules of ultimate, pong and numbers, ember's engine: sequential search and physics, covered by golden files.
- Pong's and ember's sessions: one side runs a field in floating point and sends what it sees; what there is of protocol is trails' (hello, ping, silence).
- The lists of rooms, names and inboxes: leases and bounded lists, changed one call at a time. What they could do to what is modelled
  (a list that is late, a name that has passed on) is not checked, and their hazards are listed without a property.
- The lobby: a screen over one link's events; the pausing of a session's clock, the part that reaches a game, is in TurnGame.
- The file client and the app's messaging: FileTransfer allows every repeat and order of its requests; saved lists of messages are sequential.
- The Windows and Mac apps, the web page and the Tauri shell: windowing and drawing.
- Sealing and keys: cryptography; the relay passes it on unread.
- Rate limiters, Cloudflare's own: their counters are not in `src/`.
- The ledger's hashing of addresses: one address is one model value, which is all the cap on starts tells apart.
- Analytics, build, release, capture and benchmark tooling: no state between two steps.
