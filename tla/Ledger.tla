------------------------------- MODULE Ledger -------------------------------
(***************************************************************************)
(* The relay's ledger of files (relay/src/ledger.js): one record per file   *)
(* offered, accepted, being uploaded or waiting to be downloaded, and the   *)
(* counters that hold them to the hard caps.  Each method of the class runs *)
(* start to finish without another request in between, so each one is one   *)
(* action.  What a method answers is an operator of its own (...Answer), in *)
(* the order of the method's early returns; the action of the method's name *)
(* is what it does to the ledger for every answer it can give.              *)
(*                                                                         *)
(*   offered -> granted -> uploading -> stored -> gone                      *)
(***************************************************************************)
EXTENDS Files, FiniteSets

CONSTANTS
  Names, Ids, Addresses,
  Uploads,                                           \* the ids r2 gives multipart uploads
  Lengths,                                           \* the lengths offered
  RecipientPending, SenderPending, SenderDaily, TotalPending,  \* CAPS
  AddressHourly, SenderOffers, DailyWrites, DailyReads,
  PartTries,                                         \* PART_TRIES
  OfferTtl, GrantTtl, StaleUpload, UploadMax, StoredTtl,
  Nobody, NoUpload,
  MaxTime, MaxGrants      \* bounds: of the clock, of the grants ever drawn

ASSUME LedgerAssumption ==
  /\ IsFiniteSet(Ids)
  /\ Nobody \notin Names /\ NoUpload \notin Uploads
  /\ Lengths \subseteq Nat \ {0}
  /\ {RecipientPending, SenderPending, SenderDaily, TotalPending} \subseteq Nat
  /\ {AddressHourly, SenderOffers, DailyWrites, DailyReads, PartTries} \subseteq Nat
  /\ {OfferTtl, GrantTtl, StaleUpload, UploadMax, StoredTtl} \subseteq Nat
  /\ MaxTime \in Nat /\ MaxGrants \in Nat

VARIABLES
  now,       \* Date.now(), in ticks
  file,      \* the records, file:<id>
  offers,    \* offers:<from>
  pendTo,    \* pend:to:<to>
  pendFrom,  \* pend:from:<from>
  total,     \* total
  day,       \* day:<from>:<day>
  writes,    \* writes:<day>
  reads,     \* reads:<day>
  starts,    \* ip:<tag of the address>:<hour>
  grants     \* how many grants have been drawn (each one is new)

counters == <<offers, pendTo, pendFrom, total, day>>
budgets  == <<writes, reads, starts>>
vars     == <<now, file, counters, budgets, grants>>

Days   == 0 .. DayOf(MaxTime)
Hours  == 0 .. HourOf(MaxTime)
Today  == DayOf(now)

-----------------------------------------------------------------------------
(* Records *)

\* a record; a field the source deletes or has not set yet has its blank value
Record ==
  [state : {"none", "offered", "granted", "uploading", "stored"},
   from : Names \cup {Nobody}, to : Names \cup {Nobody}, bytes : Nat,
   expires : Nat, grant : Nat, grantExpires : Nat, day : Nat,
   started : Nat, touched : Nat, parts : SUBSET Nat, tries : Nat,
   upload : Uploads \cup {NoUpload}, stream : Nat, read : SUBSET Nat]

Blank ==
  [state |-> "none", from |-> Nobody, to |-> Nobody, bytes |-> 0,
   expires |-> 0, grant |-> 0, grantExpires |-> 0, day |-> 0,
   started |-> 0, touched |-> 0, parts |-> {}, tries |-> 0,
   upload |-> NoUpload, stream |-> 0, read |-> {}]

Out(id) == file[id].state # "none"

\* the states that hold room against the caps
Holding == {"granted", "uploading", "stored"}
Held    == {id \in Ids : file[id].state \in Holding}

\* the part length an upload is cut in, and how many parts it takes
Size(rec)  == IF rec.stream > 0 THEN rec.stream ELSE PartBytes
Parts(rec) == 1 .. PartCount(rec.bytes, Size(rec))

\* its multipart upload is known, or it needs none
Open(rec) == rec.upload # NoUpload \/ rec.stream > 0

\* mutant: one part short
AllButOneRead(rec) == Cardinality(rec.read) + 1 >= PartCount(rec.bytes, rec.stream)

AllRead(rec) == Cardinality(rec.read) >= PartCount(rec.bytes, rec.stream)

\* mutant: an upload whose parts keep trickling in is never stale
StaleIdle(rec) == rec.state = "uploading" /\ rec.touched + StaleUpload <= now

Stale(rec) ==
  /\ rec.state = "uploading"
  /\ rec.touched + StaleUpload <= now \/ rec.started + UploadMax <= now

-----------------------------------------------------------------------------
(* Counters *)

\* mutant: the counter is kept whatever it comes to
Minus(v, n) == v - n

\* add(key, -n): a counter that would not stay above 0 is deleted, and reads 0
Less(v, n) == IF v > n THEN v - n ELSE 0

\* the bytes of the files in S, each byte a pair so that they can be counted
BytesOf(S, len) == UNION {{id} \X (1 .. len[id]) : id \in S}
ByteSum(S, len) == Cardinality(BytesOf(S, len))
Length == [id \in Ids |-> file[id].bytes]

\* mutant: the bucket's own total is forgotten
ReserveUntotalled(id) ==
  /\ pendTo'   = [pendTo EXCEPT ![file[id].to] = @ + file[id].bytes]
  /\ pendFrom' = [pendFrom EXCEPT ![file[id].from] = @ + file[id].bytes]
  /\ UNCHANGED total

\* reserve(rec, 1)
Reserve(id) ==
  LET rec == file[id] IN
  /\ pendTo'   = [pendTo EXCEPT ![rec.to] = @ + rec.bytes]
  /\ pendFrom' = [pendFrom EXCEPT ![rec.from] = @ + rec.bytes]
  /\ total'    = total + rec.bytes

\* reserve(rec, -1), for each of the files in S that holds room
Release(S) ==
  LET H == S \cap Held IN
  /\ pendTo'   = [n \in Names |->
                    Less(pendTo[n], ByteSum({id \in H : file[id].to = n}, Length))]
  /\ pendFrom' = [n \in Names |->
                    Less(pendFrom[n], ByteSum({id \in H : file[id].from = n}, Length))]
  /\ total'    = Less(total, ByteSum(H, Length))

\* mutant: a removal gives back the room but not the offer
OffersKept(S) == offers

\* the record goes, with its sender's offer and whatever room it held
OffersWithout(S) ==
  [n \in Names |-> Less(offers[n], Cardinality({id \in S : Out(id) /\ file[id].from = n}))]

Drop(id) ==
  /\ Release({id})
  /\ offers' = OffersWithout({id})
  /\ file'   = [file EXCEPT ![id] = Blank]
  /\ UNCHANGED day

\* a granted record as an offer again
Offered(rec) ==
  [rec EXCEPT !.state = "offered", !.grant = 0, !.grantExpires = 0, !.day = 0]

\* mutant: taken back from the day it is, not the day it was granted on
DayWithoutToday(S) ==
  [n \in Names |-> [day[n] EXCEPT ![Today] =
     Less(@, ByteSum({id \in S : file[id].from = n}, Length))]]

\* what a day's counters are once the grants of the files in S are taken back
DayWithout(S) ==
  [n \in Names |-> [d \in Days |->
     Less(day[n][d],
          ByteSum({id \in S : file[id].from = n /\ file[id].day = d}, Length))]]

\* mutant: the day's bytes come back, the room does not
TakeBackDayOnly(id) ==
  /\ day'  = DayWithout({id})
  /\ file' = [file EXCEPT ![id] = Offered(@)]
  /\ UNCHANGED <<offers, pendTo, pendFrom, total>>

TakeBack(id) ==
  /\ Release({id})
  /\ day'  = DayWithout({id})
  /\ file' = [file EXCEPT ![id] = Offered(@)]
  /\ UNCHANGED offers

\* budget(kind, n)
CanWrite(n) == writes[Today] + n <= DailyWrites
CanRead(n)  == reads[Today] + n <= DailyReads

\* prune(now): the address tags of hours that are over go
Pruned == [a \in Addresses |-> [h \in Hours |-> IF h < HourOf(now) THEN 0 ELSE starts[a][h]]]

-----------------------------------------------------------------------------
(* Operations *)

Min4(a, b, c, d) == AtMost(AtMost(a, b), AtMost(c, d))

OfferAnswer(id, from, bytes) ==
  IF Out(id) THEN "bad"
  ELSE IF bytes > Min4(RecipientPending, SenderPending, SenderDaily, TotalPending)
       THEN "too-big"
  ELSE IF offers[from] >= SenderOffers THEN "too-many"
  ELSE "ok"

\* a sender offers a file under an id its app drew; it holds no room yet
Offer(id, from, to, bytes) ==
  /\ \/ /\ OfferAnswer(id, from, bytes) = "ok"
        /\ offers' = [offers EXCEPT ![from] = @ + 1]
        /\ file' = [file EXCEPT ![id] =
             [Blank EXCEPT !.state = "offered", !.from = from, !.to = to,
                           !.bytes = bytes, !.expires = now + OfferTtl]]
     \/ OfferAnswer(id, from, bytes) # "ok" /\ UNCHANGED <<offers, file>>
  /\ UNCHANGED <<now, pendTo, pendFrom, total, day, budgets, grants>>

RemoveAnswer(id, name) ==
  IF ~Out(id) \/ name \notin {Nobody, file[id].from, file[id].to} THEN "none" ELSE "removed"

\* taken back, turned down, downloaded or given up; Nobody asks for the worker
Remove(id, name) ==
  /\ \/ RemoveAnswer(id, name) = "removed" /\ Drop(id)
     \/ RemoveAnswer(id, name) = "none" /\ UNCHANGED <<file, counters>>
  /\ UNCHANGED <<now, budgets, grants>>

GrantAnswer(id, name) ==
  LET rec == file[id] IN
  IF rec.to # name THEN "gone"
  ELSE IF rec.state # "offered" THEN "busy"
  ELSE IF rec.expires <= now THEN "expired"
  ELSE IF pendTo[rec.to] + rec.bytes > RecipientPending THEN "recipient-full"
  ELSE IF pendFrom[rec.from] + rec.bytes > SenderPending THEN "sender-full"
  ELSE IF day[rec.from][Today] + rec.bytes > SenderDaily THEN "daily-limit"
  ELSE IF total + rec.bytes > TotalPending THEN "relay-full"
  ELSE "ok"

\* its recipient accepts: room for it under every cap, and a grant never drawn before
Grant(id, name) ==
  /\ \/ /\ GrantAnswer(id, name) = "ok"
        /\ grants < MaxGrants
        /\ grants' = grants + 1
        /\ Reserve(id)
        /\ day' = [day EXCEPT ![file[id].from][Today] = @ + file[id].bytes]
        /\ file' = [file EXCEPT ![id].state = "granted", ![id].grant = grants + 1,
                                ![id].grantExpires = now + GrantTtl, ![id].day = Today]
        /\ UNCHANGED offers
     \/ GrantAnswer(id, name) = "expired" /\ Drop(id) /\ UNCHANGED grants
     \/ /\ GrantAnswer(id, name) \notin {"ok", "expired"}
        /\ UNCHANGED <<file, counters, grants>>
  /\ UNCHANGED <<now, budgets>>

\* mutant: whichever grant is out is taken back
RevertAny(id, grant) ==
  /\ \/ file[id].state = "granted" /\ TakeBack(id)
     \/ file[id].state # "granted" /\ UNCHANGED <<file, counters>>
  /\ UNCHANGED <<now, budgets, grants>>

\* only the grant given is taken back, so a late one never undoes a newer one
Revert(id, grant) ==
  /\ \/ file[id].state = "granted" /\ file[id].grant = grant /\ TakeBack(id)
     \/ /\ file[id].state # "granted" \/ file[id].grant # grant
        /\ UNCHANGED <<file, counters>>
  /\ UNCHANGED <<now, budgets, grants>>

\* what start and startStream both check before they start anything
GrantUsed(id, from, grant) ==
  LET rec == file[id] IN
  IF rec.from # from THEN "gone"
  ELSE IF rec.state = "stored" THEN "done"
  ELSE IF rec.state # "granted" THEN "not-accepted"
  ELSE IF rec.grant # grant THEN "gone"
  ELSE IF rec.grantExpires <= now THEN "expired"
  ELSE "ok"

StartAnswer(id, from, grant, address) ==
  LET rec == file[id] IN
  IF rec.from = from /\ rec.state = "uploading"
  THEN IF Open(rec) THEN "resume" ELSE "busy"
  ELSE IF GrantUsed(id, from, grant) # "ok" THEN GrantUsed(id, from, grant)
  ELSE IF Pruned[address][HourOf(now)] >= AddressHourly THEN "too-many"
  ELSE IF ~CanWrite(2) THEN "relay-full"
  ELSE "ok"

StartStreamAnswer(id, from, grant, address) ==
  LET rec == file[id] IN
  IF rec.from = from /\ rec.state = "uploading"
  THEN IF rec.stream > 0 THEN "resume" ELSE "busy"
  ELSE IF GrantUsed(id, from, grant) # "ok" THEN GrantUsed(id, from, grant)
  ELSE IF Pruned[address][HourOf(now)] >= AddressHourly THEN "too-many"
  ELSE "ok"

Uploading(rec, stream) ==
  [rec EXCEPT !.state = "uploading", !.grant = 0, !.grantExpires = 0, !.started = now,
              !.touched = now, !.parts = {}, !.tries = 0, !.upload = NoUpload,
              !.stream = stream, !.read = {}]

\* the upload starts: its address is counted, and so are the r2 writes it takes
Begin(id, address, stream, cost) ==
  /\ file' = [file EXCEPT ![id] = Uploading(@, stream)]
  /\ starts' = [Pruned EXCEPT ![address][HourOf(now)] = @ + 1]
  /\ writes' = [writes EXCEPT ![Today] = @ + cost]
  /\ UNCHANGED counters

\* what start does when it starts nothing: a grant that ran out is taken back, and
\* the old address tags go once the grant has been checked
NotBegun(id, answer) ==
  /\ \/ answer = "expired" /\ TakeBack(id) /\ UNCHANGED starts
     \/ answer \in {"too-many", "relay-full"} /\ starts' = Pruned /\ UNCHANGED <<file, counters>>
     \/ answer \notin {"expired", "too-many", "relay-full"} /\ UNCHANGED <<file, counters, starts>>
  /\ UNCHANGED writes

\* a multipart upload: its start and its finish are counted as two writes
Start(id, from, grant, address) ==
  LET answer == StartAnswer(id, from, grant, address) IN
  /\ \/ answer = "ok" /\ Begin(id, address, 0, 2)
     \/ answer # "ok" /\ NotBegun(id, answer)
  /\ UNCHANGED <<now, reads, grants>>

\* a streamed upload: each part is one write, counted as it comes
StartStream(id, from, grant, address) ==
  LET answer == StartStreamAnswer(id, from, grant, address) IN
  /\ \/ answer = "ok" /\ Begin(id, address, StreamPartBytes(file[id].bytes), 0)
     \/ answer # "ok" /\ NotBegun(id, answer)
  /\ UNCHANGED <<now, reads, grants>>

\* r2 made the multipart upload
Started(id, upload) ==
  /\ file' = IF file[id].state = "uploading"
             THEN [file EXCEPT ![id].upload = upload] ELSE file
  /\ UNCHANGED <<now, counters, budgets, grants>>

PartAnswer(id, from, n, length) ==
  LET rec == file[id] IN
  IF rec.from # from \/ rec.state # "uploading" \/ ~Open(rec) THEN "gone"
  ELSE IF n \notin Parts(rec) \/ length # PartLength(rec.bytes, n, Size(rec)) THEN "over"
  ELSE IF rec.tries + 1 > PartCount(rec.bytes, Size(rec)) * PartTries THEN "failed"
  ELSE IF ~CanWrite(1) THEN "relay-full"
  ELSE "ok"

\* a part on its way; one of the wrong length, or one try too many, ends the upload
Part(id, from, n, length) ==
  LET answer == PartAnswer(id, from, n, length) IN
  /\ \/ /\ answer = "ok"
        /\ file' = [file EXCEPT ![id].tries = @ + 1, ![id].touched = now]
        /\ writes' = [writes EXCEPT ![Today] = @ + 1]
        /\ UNCHANGED counters
     \/ answer \in {"over", "failed"} /\ Drop(id) /\ UNCHANGED writes
     \/ answer \in {"gone", "relay-full"} /\ UNCHANGED <<file, counters, writes>>
  /\ UNCHANGED <<now, reads, starts, grants>>

\* the part is in r2
PartDone(id, n) ==
  /\ file' = IF file[id].state = "uploading"
             THEN [file EXCEPT ![id].parts = @ \cup {n}, ![id].touched = now] ELSE file
  /\ UNCHANGED <<now, counters, budgets, grants>>

\* finish only asks: whether every part is in
FinishAnswer(id, from) ==
  LET rec == file[id] IN
  IF rec.from # from THEN "gone"
  ELSE IF rec.state = "stored" THEN "done"
  ELSE IF rec.state # "uploading" \/ ~Open(rec) THEN "gone"
  ELSE IF ~(Parts(rec) \subseteq rec.parts) THEN "incomplete"
  ELSE "ok"

StoredAnswer(id) ==
  LET rec == file[id] IN
  IF rec.state # "uploading" THEN "none"
  ELSE IF rec.stream > 0 /\ AllRead(rec) THEN "read" ELSE "stored"

\* uploaded; a streamed file whose recipient has read every part goes at once
Stored(id) ==
  /\ \/ StoredAnswer(id) = "read" /\ Drop(id)
     \/ /\ StoredAnswer(id) = "stored"
        /\ file' = [file EXCEPT ![id].state = "stored", ![id].expires = now + StoredTtl,
                                ![id].upload = NoUpload, ![id].tries = 0,
                                ![id].parts = IF file[id].stream > 0 THEN @ ELSE {}]
        /\ UNCHANGED counters
     \/ StoredAnswer(id) = "none" /\ UNCHANGED <<file, counters>>
  /\ UNCHANGED <<now, budgets, grants>>

ReadableAnswer(id, name) ==
  LET rec  == file[id]
      cost == IF rec.stream > 0 THEN PartCount(rec.bytes, rec.stream) ELSE 1
  IN
  IF rec.to # name THEN "gone"
  ELSE IF rec.state # "stored" THEN "not-ready"
  ELSE IF rec.expires <= now THEN "expired"
  ELSE IF ~CanRead(cost) THEN "relay-full"
  ELSE "ok"

PartReadableAnswer(id, name, n) ==
  LET rec == file[id] IN
  IF rec.to # name THEN "gone"
  ELSE IF rec.state = "offered" THEN "not-accepted"
  ELSE IF rec.state = "granted" THEN "not-ready"
  ELSE IF rec.stream = 0 THEN "whole"
  ELSE IF n \notin Parts(rec) THEN "bad"
  ELSE IF n \notin rec.parts THEN "not-ready"
  ELSE IF rec.state = "stored" /\ rec.expires <= now THEN "expired"
  ELSE IF ~CanRead(1) THEN "relay-full"
  ELSE "ok"

\* a read that may go ahead is counted; an expired file found by its reader goes
Read(id, answer, cost) ==
  /\ \/ answer = "ok" /\ reads' = [reads EXCEPT ![Today] = @ + cost] /\ UNCHANGED <<file, counters>>
     \/ answer = "expired" /\ Drop(id) /\ UNCHANGED reads
     \/ answer \notin {"ok", "expired"} /\ UNCHANGED <<file, counters, reads>>
  /\ UNCHANGED <<now, writes, starts, grants>>

Readable(id, name) ==
  Read(id, ReadableAnswer(id, name),
       IF file[id].stream > 0 THEN PartCount(file[id].bytes, file[id].stream) ELSE 1)

PartReadable(id, name, n) == Read(id, PartReadableAnswer(id, name, n), 1)

\* part n read to its end was the last there was to read, of a finished upload
LastRead(id, n) ==
  LET rec == [file[id] EXCEPT !.read = @ \cup {n}] IN
  rec.stream > 0 /\ rec.state = "stored" /\ AllRead(rec)

PartRead(id, n) ==
  /\ \/ LastRead(id, n) /\ Drop(id)
     \/ /\ ~LastRead(id, n)
        /\ file' = IF file[id].stream > 0
                   THEN [file EXCEPT ![id].read = @ \cup {n}] ELSE file
        /\ UNCHANGED counters
  /\ UNCHANGED <<now, budgets, grants>>

\* what the sweep removes, and whose unused grants it takes back
Swept ==
  {id \in Ids : \/ Stale(file[id])
                \/ file[id].state \in {"offered", "stored"} /\ file[id].expires <= now}
Unused == {id \in Ids : file[id].state = "granted" /\ file[id].grantExpires <= now}

\* a day's counters go once it is over
FromToday(count) == [d \in Days |-> IF d < Today THEN 0 ELSE count[d]]

Sweep ==
  /\ Release(Swept \cup Unused)
  /\ offers' = OffersWithout(Swept)
  /\ file' = [id \in Ids |-> IF id \in Swept THEN Blank
                             ELSE IF id \in Unused THEN Offered(file[id]) ELSE file[id]]
  /\ day' = [n \in Names |-> FromToday(DayWithout(Unused)[n])]
  /\ writes' = FromToday(writes)
  /\ reads'  = FromToday(reads)
  /\ starts' = Pruned
  /\ UNCHANGED <<now, grants>>

Tick == now < MaxTime /\ now' = now + 1 /\ UNCHANGED <<file, counters, budgets, grants>>

-----------------------------------------------------------------------------
(* The specification *)

NoneYet(S) == [k \in S |-> 0]

Init ==
  /\ now = 0 /\ grants = 0 /\ total = 0
  /\ file = [id \in Ids |-> Blank]
  /\ offers = NoneYet(Names) /\ pendTo = NoneYet(Names) /\ pendFrom = NoneYet(Names)
  /\ day = [n \in Names |-> NoneYet(Days)]
  /\ writes = NoneYet(Days) /\ reads = NoneYet(Days)
  /\ starts = [a \in Addresses |-> NoneYet(Hours)]

\* what the relay's worker asks of it, in any order
Request(id) ==
  \/ \E from, to \in Names, bytes \in Lengths : Offer(id, from, to, bytes)
  \/ \E name \in Names \cup {Nobody} : Remove(id, name)
  \/ \E name \in Names : Grant(id, name) \/ Readable(id, name)
  \/ \E grant \in 1 .. MaxGrants : Revert(id, grant)
  \/ \E from \in Names, grant \in 1 .. MaxGrants, a \in Addresses :
       Start(id, from, grant, a) \/ StartStream(id, from, grant, a)
  \* (the worker names the upload it made for a start, so of one that had none)
  \/ \E upload \in Uploads : ~Open(file[id]) /\ Started(id, upload)
  \/ Stored(id)
  \/ \E n \in Parts(file[id]) : PartDone(id, n) \/ PartRead(id, n)
  \/ \E n \in 1 .. PartCount(file[id].bytes, Size(file[id])) + 1, name \in Names :
       \/ \E length \in {0, PartLength(file[id].bytes, n, Size(file[id]))} : Part(id, name, n, length)
       \/ PartReadable(id, name, n)

Next == Tick \/ Sweep \/ \E id \in Ids : Request(id)

Spec == Init /\ [][Next]_vars

-----------------------------------------------------------------------------
(* Properties *)

HeldTo(n)   == {id \in Held : file[id].to = n}
HeldFrom(n) == {id \in Held : file[id].from = n}
OutFrom(n)  == {id \in Ids : Out(id) /\ file[id].from = n}
\* what a sender's grants of the day, used or not, still hold
HeldToday(n) == {id \in HeldFrom(n) : file[id].day = Today}

\* The counters are counters and every record has its shape: in particular no
\* counter is ever kept below 0, whatever is given back twice or too late (add).
TypeOK ==
  /\ now \in 0 .. MaxTime /\ grants \in 0 .. MaxGrants /\ total \in Nat
  /\ file \in [Ids -> Record]
  /\ offers \in [Names -> Nat] /\ pendTo \in [Names -> Nat] /\ pendFrom \in [Names -> Nat]
  /\ day \in [Names -> [Days -> Nat]]
  /\ writes \in [Days -> Nat] /\ reads \in [Days -> Nat]
  /\ starts \in [Addresses -> [Hours -> Nat]]

\* The counters the caps are checked against never drift from the records: the
\* room counted for each recipient, each sender and the bucket is exactly the
\* bytes of the files that hold room (reserve is called once on every way in and
\* once on every way out: removal, revert, expiry found by grant, start, a reader
\* or the sweep).
RoomAccounted ==
  /\ \A n \in Names : pendTo[n] = ByteSum(HeldTo(n), Length)
  /\ \A n \in Names : pendFrom[n] = ByteSum(HeldFrom(n), Length)
  /\ total = ByteSum(Held, Length)

\* A sender's count of offers out is the number of its files in the ledger, in
\* whatever state (offer adds one, every removal takes one, a revert takes none).
OffersCounted == \A n \in Names : offers[n] = Cardinality(OutFrom(n))

\* A day's counter never runs below what the grants of that day still hold, even
\* when older grants are taken back after midnight and the sweep drops old days.
DayCharged == \A n \in Names : ByteSum(HeldToday(n), Length) <= day[n][Today]

\* The hard caps hold of the files themselves, not only of the counters: bytes
\* held for a recipient, of a sender, of a sender's grants of today and of the
\* whole bucket, and a sender's files out.
CapsHold ==
  /\ \A n \in Names :
       /\ ByteSum(HeldTo(n), Length) <= RecipientPending
       /\ ByteSum(HeldFrom(n), Length) <= SenderPending
       /\ ByteSum(HeldToday(n), Length) <= SenderDaily
       /\ Cardinality(OutFrom(n)) <= SenderOffers
  /\ ByteSum(Held, Length) <= TotalPending

-----------------------------------------------------------------------------
(* What the proofs need besides: the inductive invariant *)

\* a file out is between two names; a grant is never of a day to come
Known == /\ \A id \in Ids : Out(id) => file[id].from \in Names /\ file[id].to \in Names
         /\ \A id \in Held : file[id].day <= Today

\* the counters are under the caps
CapsCounted ==
  /\ \A n \in Names :
       /\ pendTo[n] <= RecipientPending /\ pendFrom[n] <= SenderPending
       /\ offers[n] <= SenderOffers
       /\ \A d \in Days : day[n][d] <= SenderDaily
  /\ total <= TotalPending

Accounts == Known /\ RoomAccounted /\ OffersCounted /\ DayCharged /\ CapsCounted

Inv == TypeOK /\ Accounts

=============================================================================
