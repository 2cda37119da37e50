-------------------------- MODULE FileTransferProofs --------------------------
(***************************************************************************)
(* First the ledger alone, and under its cron: its counters are what its   *)
(* records add up to, and no stage of a file is prolonged.  Then the       *)
(* worker's requests, its ledger and R2 together, for any files,           *)
(* requests, names and lengths of part, whatever races and whatever dies:  *)
(* the bucket has what the ledger says it has, and no grant is taken back  *)
(* that somebody heard of in time; where none dies, nothing stays that no  *)
(* record holds room for.  The invariant is one of the ledger, one of the  *)
(* bucket, and one of each request by itself: what its next call rests on. *)
(* A step of one request is shown to leave the others theirs.              *)
(***************************************************************************)
EXTENDS FileTransfer, LedgerCron, FiniteSetTheorems, FunctionTheorems, TLAPS

-----------------------------------------------------------------------------
(* Arithmetic of files.js *)

\* The hours and days of a clock that goes forward go forward.
LEMMA DivMono ==
  ASSUME NEW a \in Nat, NEW b \in Nat \ {0}, NEW c \in Nat, a <= c
  PROVE  a \div b \in Nat /\ a \div b <= c \div b
  OBVIOUS

\* The clock is on one of the days and in one of the hours counted.
LEMMA TodayType ==
  ASSUME now \in 0 .. MaxTime
  PROVE  Today \in Days /\ HourOf(now) \in Hours /\ Days \subseteq Nat
<1>1. now \in Nat /\ MaxTime \in Nat /\ now <= MaxTime
  BY LedgerAssumption
<1>2. Hour \in Nat \ {0} /\ Day \in Nat \ {0}
  BY FilesAssumption
<1>3. now \div Day \in Nat /\ now \div Day <= MaxTime \div Day
  BY <1>1, <1>2, DivMono
<1>4. now \div Hour \in Nat /\ now \div Hour <= MaxTime \div Hour
  BY <1>1, <1>2, DivMono
<1>5. MaxTime \div Day \in Nat /\ MaxTime \div Hour \in Nat
  BY <1>1, <1>2, DivMono
<1> QED BY <1>3, <1>4, <1>5 DEF Today, Days, Hours, DayOf, HourOf

\* Part counts and streamed part lengths are natural numbers.
LEMMA PartsType ==
  ASSUME NEW b \in Nat, NEW s \in Nat \ {0}
  PROVE  PartCount(b, s) \in Nat \ {0} /\ StreamPartBytes(b) \in Nat \ {0}
<1>1. \A x \in Nat, y \in Nat \ {0} : CeilDiv(x, y) \in Nat
  BY DivMono DEF CeilDiv
<1>2. PartCount(b, s) \in Nat \ {0}
  BY <1>1 DEF PartCount, AtLeast
<1> DEFINE chunks == AtLeast(1, CeilDiv(b, SealedChunk))
           k == AtLeast(StreamChunks, CeilDiv(chunks, StreamPartsMax))
<1>3. chunks \in Nat
  BY <1>1, FilesAssumption DEF AtLeast
<1>4. k \in Nat \ {0}
  BY <1>1, <1>3, FilesAssumption DEF AtLeast
<1>5. \A x, y \in Nat \ {0} : x * y \in Nat \ {0}
  OBVIOUS
<1>6. SealedChunk * k \in Nat \ {0}
  BY <1>4, <1>5, FilesAssumption
<1> QED BY <1>2, <1>6 DEF StreamPartBytes

-----------------------------------------------------------------------------
(* Sums of bytes *)

\* The bytes of finitely many files are finitely many.
LEMMA BytesFinite ==
  ASSUME NEW S \in SUBSET Ids, NEW len \in [Ids -> Nat]
  PROVE  IsFiniteSet(BytesOf(S, len)) /\ ByteSum(S, len) \in Nat
<1>1. IsFiniteSet(S)
  BY FS_Subset, LedgerAssumption
<1> DEFINE bytes == [id \in S |-> {id} \X (1 .. len[id])]
           ofEach == {bytes[id] : id \in S}
<1>2. bytes \in Surjection(S, ofEach)
  BY DEF Surjection
<1>3. IsFiniteSet(ofEach)
  BY <1>1, <1>2, FS_Surjection
<1>4. ASSUME NEW id \in S PROVE IsFiniteSet(bytes[id])
  <2>1. len[id] \in Int /\ 1 \in Int
    OBVIOUS
  <2>2. IsFiniteSet(1 .. len[id])
    BY <2>1, FS_Interval
  <2>3. IsFiniteSet({id})
    BY FS_Singleton
  <2>4. IsFiniteSet({id} \X (1 .. len[id]))
    BY <2>2, <2>3, FS_Product, Zenon
  <2> QED BY <2>4
<1>5. IsFiniteSet(UNION ofEach)
  BY <1>3, <1>4, FS_UNION
<1>6. BytesOf(S, len) = UNION ofEach
  BY DEF BytesOf
<1> QED BY <1>5, <1>6, FS_CardinalityType DEF ByteSum

\* A single file's bytes are as many as its length.
LEMMA SumOne ==
  ASSUME NEW id \in Ids, NEW len \in [Ids -> Nat]
  PROVE  ByteSum({id}, len) = len[id]
<1>1. BytesOf({id}, len) = {id} \X (1 .. len[id])
  BY DEF BytesOf
<1>2. len[id] \in Nat /\ len[id] \in Int /\ 1 \in Int
  OBVIOUS
<1>3. IsFiniteSet(1 .. len[id]) /\ Cardinality(1 .. len[id]) = len[id]
  BY <1>2, FS_Interval
<1>4. IsFiniteSet({id}) /\ Cardinality({id}) = 1
  BY FS_Singleton
<1>5. Cardinality({id} \X (1 .. len[id])) = Cardinality({id}) * Cardinality(1 .. len[id])
  BY <1>3, <1>4, FS_Product, Zenon
<1>6. Cardinality({id} \X (1 .. len[id])) = 1 * len[id]
  BY <1>3, <1>4, <1>5
<1>7. ByteSum({id}, len) = Cardinality({id} \X (1 .. len[id]))
  BY <1>1, Zenon DEF ByteSum
<1>8. 1 * len[id] = len[id]
  BY <1>2
<1> QED BY <1>6, <1>7, <1>8, Zenon

\* The bytes of files that are not the same add up.
LEMMA SumUnion ==
  ASSUME NEW S \in SUBSET Ids, NEW T \in SUBSET Ids, S \cap T = {},
         NEW len \in [Ids -> Nat]
  PROVE  ByteSum(S \cup T, len) = ByteSum(S, len) + ByteSum(T, len)
<1>1. BytesOf(S \cup T, len) = BytesOf(S, len) \cup BytesOf(T, len)
  BY DEF BytesOf
<1>2. BytesOf(S, len) \cap BytesOf(T, len) = {}
  BY DEF BytesOf
<1>3. IsFiniteSet(BytesOf(S, len)) /\ IsFiniteSet(BytesOf(T, len))
      /\ ByteSum(S, len) \in Nat /\ ByteSum(T, len) \in Nat
  BY BytesFinite
<1>4. Cardinality({}) = 0
  BY FS_EmptySet
<1> DEFINE A == BytesOf(S, len)
           B == BytesOf(T, len)
<1>5. Cardinality(A \cup B) = Cardinality(A) + Cardinality(B) - Cardinality(A \cap B)
  BY <1>3, FS_Union, Zenon
<1>6. /\ ByteSum(S \cup T, len) = Cardinality(A \cup B)
      /\ ByteSum(S, len) = Cardinality(A) /\ ByteSum(T, len) = Cardinality(B)
      /\ Cardinality(A \cap B) = 0
  BY <1>1, <1>2, <1>4, Zenon DEF ByteSum
<1> HIDE DEF A, B
<1> QED BY <1>3, <1>5, <1>6

\* Taking some of the files out takes their bytes out.
LEMMA SumLess ==
  ASSUME NEW S \in SUBSET Ids, NEW T \in SUBSET Ids, NEW len \in [Ids -> Nat]
  PROVE  Less(ByteSum(S, len), ByteSum(T \cap S, len)) = ByteSum(S \ T, len)
<1>1. ByteSum((S \ T) \cup (T \cap S), len) = ByteSum(S \ T, len) + ByteSum(T \cap S, len)
  BY SumUnion, (S \ T) \cap (T \cap S) = {}
<1>2. (S \ T) \cup (T \cap S) = S
  OBVIOUS
<1>3. ByteSum(S \ T, len) \in Nat /\ ByteSum(T \cap S, len) \in Nat /\ ByteSum(S, len) \in Nat
  BY BytesFinite
<1> QED BY <1>1, <1>2, <1>3 DEF Less

\* A sum only depends on the lengths of the files summed.
LEMMA SumSame ==
  ASSUME NEW S \in SUBSET Ids, NEW len, NEW len2, \A id \in S : len[id] = len2[id]
  PROVE  ByteSum(S, len) = ByteSum(S, len2)
<1>1. BytesOf(S, len) = BytesOf(S, len2)
  BY DEF BytesOf
<1> QED BY <1>1 DEF ByteSum

-----------------------------------------------------------------------------
(* The accounts *)

\* Length is a function of the files to numbers, and the sets summed are of files.
LEMMA LengthType ==
  ASSUME TypeOK
  PROVE  Length \in [Ids -> Nat]
  BY DEF TypeOK, Length, Record

\* A counter of the files of S, less those of T, counts the rest.
LEMMA CountLess ==
  ASSUME NEW S \in SUBSET Ids, NEW T \in SUBSET Ids
  PROVE  /\ Cardinality(S) \in Nat
         /\ Less(Cardinality(S), Cardinality(T \cap S)) = Cardinality(S \ T)
         /\ Cardinality(S \ T) <= Cardinality(S)
<1>1. IsFiniteSet(S) /\ IsFiniteSet(S \ T) /\ IsFiniteSet(T \cap S)
  BY FS_Subset, LedgerAssumption
<1>2. Cardinality(S \ T) = Cardinality(S) - Cardinality(S \cap T)
  BY <1>1, FS_Difference
<1>3. S \cap T = T \cap S
  OBVIOUS
<1>4. Cardinality(S) \in Nat /\ Cardinality(S \ T) \in Nat /\ Cardinality(T \cap S) \in Nat
  BY <1>1, FS_CardinalityType
<1> QED BY <1>2, <1>3, <1>4 DEF Less

\* Fewer files hold no more bytes.
LEMMA SumMono ==
  ASSUME NEW S \in SUBSET Ids, NEW T \in SUBSET Ids, T \subseteq S, NEW len \in [Ids -> Nat]
  PROVE  ByteSum(T, len) <= ByteSum(S, len)
<1>1. ByteSum(T \cup (S \ T), len) = ByteSum(T, len) + ByteSum(S \ T, len)
  BY SumUnion, T \cap (S \ T) = {}
<1>2. T \cup (S \ T) = S
  OBVIOUS
<1>3. ByteSum(S \ T, len) \in Nat /\ ByteSum(T, len) \in Nat
  BY BytesFinite
<1>4. ByteSum(S, len) = ByteSum(T, len) + ByteSum(S \ T, len)
  BY <1>1, <1>2, Zenon
<1> QED BY <1>3, <1>4

\* A step that takes the files of R out and the grants of the files of U back, and
\* gives back just what they held, keeps the accounts: Drop, TakeBack and Sweep.
LEMMA GiveBack ==
  ASSUME Inv, TypeOK', now' = now,
         NEW R \in SUBSET Ids, NEW U \in SUBSET Held, R \cap U = {},
         Release(R \cup U), offers' = OffersWithout(R),
         file' = [id \in Ids |-> IF id \in R THEN Blank
                                 ELSE IF id \in U THEN Offered(file[id]) ELSE file[id]],
         \A n \in Names :
           /\ day'[n][Today] = DayWithout(U)[n][Today]
           /\ \A d \in Days : day'[n][d] <= day[n][d]
  PROVE  Accounts'
<1> DEFINE G == R \cup U
<1>0. /\ Length \in [Ids -> Nat] /\ Length' \in [Ids -> Nat]
      /\ Today \in Days /\ Today' = Today
  <2>1. TypeOK
    BY DEF Inv
  <2>2. now \in 0 .. MaxTime
    BY <2>1 DEF TypeOK
  <2>3. Length' \in [Ids -> Nat]
    BY DEF TypeOK, Length, Record
  <2> QED BY <2>1, <2>2, <2>3, LengthType, TodayType DEF Today
<1>1. \A id \in Ids : /\ id \in R => file'[id] = Blank
                      /\ id \in U => file'[id] = Offered(file[id])
                      /\ id \notin G => file'[id] = file[id]
  OBVIOUS
<1>2. ASSUME NEW id \in U
      PROVE  /\ file'[id].state = "offered" /\ file'[id].from = file[id].from
             /\ file'[id].to = file[id].to
  <2>1. id \in Ids
    BY DEF Held
  <2>2. file[id] \in Record
    BY <2>1 DEF Inv, TypeOK
  <2>3. file'[id] = Offered(file[id])
    BY <2>1, <1>1
  <2> QED BY <2>2, <2>3 DEF Offered, Record
<1>3. /\ Held' = Held \ G
      /\ \A id \in Held' : file'[id] = file[id] /\ Length'[id] = Length[id]
      /\ \A n : HeldTo(n)' = HeldTo(n) \ G /\ HeldFrom(n)' = HeldFrom(n) \ G
      /\ \A n : HeldToday(n)' = HeldToday(n) \ G
  <2>1. Held' = Held \ G
    BY <1>1, <1>2 DEF Held, Holding, Blank
  <2>2. \A id \in Held' : file'[id] = file[id]
    BY <2>1, <1>1 DEF Held
  <2> QED BY <2>1, <2>2, <1>0 DEF Held, HeldTo, HeldFrom, HeldToday, Length
<1>4. \A n \in Names : OutFrom(n)' = OutFrom(n) \ R
  <2>1. ASSUME NEW id \in Ids PROVE Out(id)' <=> (Out(id) /\ id \notin R)
    BY <1>1, <1>2 DEF Out, Blank, Held, Holding
  <2>2. ASSUME NEW id \in Ids, id \notin R PROVE file'[id].from = file[id].from
    BY <2>2, <1>1, <1>2
  <2> QED BY <2>1, <2>2 DEF OutFrom
<1>5. Known'
  <2>1. ASSUME NEW id \in Ids, Out(id)' PROVE file'[id].from \in Names /\ file'[id].to \in Names
    BY <2>1, <1>1, <1>2 DEF Out, Blank, Inv, Accounts, Known, Held, Holding
  <2>2. ASSUME NEW id \in Held' PROVE file'[id].day <= Today'
    BY <2>2, <1>0, <1>3 DEF Inv, Accounts, Known
  <2> QED BY <2>1, <2>2 DEF Known
<1>6. RoomAccounted'
  <2>1. ASSUME NEW n \in Names PROVE pendTo'[n] = ByteSum(HeldTo(n)', Length')
    <3>1. {id \in G \cap Held : file[id].to = n} = G \cap HeldTo(n)
      BY DEF HeldTo
    <3>2. pendTo'[n] = Less(ByteSum(HeldTo(n), Length), ByteSum(G \cap HeldTo(n), Length))
      BY <3>1 DEF Release, Inv, Accounts, RoomAccounted
    <3>3. HeldTo(n) \in SUBSET Ids
      BY DEF HeldTo, Held
    <3>4. pendTo'[n] = ByteSum(HeldTo(n)', Length)
      BY <3>2, <3>3, <1>0, <1>3, SumLess DEF Held
    <3>5. HeldTo(n)' \in SUBSET Ids /\ HeldTo(n)' \subseteq Held'
      BY <3>3, <1>3 DEF HeldTo
    <3> QED BY <3>4, <3>5, <1>3, SumSame
  <2>2. ASSUME NEW n \in Names PROVE pendFrom'[n] = ByteSum(HeldFrom(n)', Length')
    <3>1. {id \in G \cap Held : file[id].from = n} = G \cap HeldFrom(n)
      BY DEF HeldFrom
    <3>2. pendFrom'[n] = Less(ByteSum(HeldFrom(n), Length), ByteSum(G \cap HeldFrom(n), Length))
      BY <3>1 DEF Release, Inv, Accounts, RoomAccounted
    <3>3. HeldFrom(n) \in SUBSET Ids
      BY DEF HeldFrom, Held
    <3>4. pendFrom'[n] = ByteSum(HeldFrom(n)', Length)
      BY <3>2, <3>3, <1>0, <1>3, SumLess DEF Held
    <3>5. HeldFrom(n)' \in SUBSET Ids /\ HeldFrom(n)' \subseteq Held'
      BY <3>3, <1>3 DEF HeldFrom
    <3> QED BY <3>4, <3>5, <1>3, SumSame
  <2>3. total' = ByteSum(Held', Length')
    <3>1. total' = Less(ByteSum(Held, Length), ByteSum(G \cap Held, Length))
      BY DEF Release, Inv, Accounts, RoomAccounted
    <3>2. Held \in SUBSET Ids /\ G \in SUBSET Ids /\ Held' \in SUBSET Ids
      BY DEF Held
    <3>3. Less(ByteSum(Held, Length), ByteSum(G \cap Held, Length)) = ByteSum(Held \ G, Length)
      BY <3>2, <1>0, SumLess, ZenonT(30)
    <3>4. ByteSum(Held', Length) = ByteSum(Held', Length')
      BY <3>2, <1>3, SumSame
    <3> QED BY <3>1, <3>3, <3>4, <1>3, Zenon
  <2> QED BY <2>1, <2>2, <2>3 DEF RoomAccounted
<1>7. OffersCounted'
  <2> SUFFICES ASSUME NEW n \in Names PROVE offers'[n] = Cardinality(OutFrom(n)')
    BY DEF OffersCounted
  <2>1. {id \in R : Out(id) /\ file[id].from = n} = R \cap OutFrom(n)
    BY DEF OutFrom
  <2>2. offers'[n] = Less(Cardinality(OutFrom(n)), Cardinality(R \cap OutFrom(n)))
    BY <2>1 DEF OffersWithout, Inv, Accounts, OffersCounted
  <2>3. OutFrom(n) \in SUBSET Ids
    BY DEF OutFrom
  <2>4. Less(Cardinality(OutFrom(n)), Cardinality(R \cap OutFrom(n))) = Cardinality(OutFrom(n) \ R)
    BY <2>3, CountLess
  <2> QED BY <2>2, <2>4, <1>4, Zenon
<1>8. DayCharged'
  <2> SUFFICES ASSUME NEW n \in Names
               PROVE  ByteSum(HeldToday(n)', Length') <= day'[n][Today]
    BY <1>0 DEF DayCharged
  <2> DEFINE T == HeldToday(n)
  <2>1. T \in SUBSET Ids /\ T \ U \in SUBSET Ids /\ HeldToday(n)' \subseteq T \ U
        /\ HeldToday(n)' \subseteq Held'
    <3>1. HeldToday(n)' = T \ G
      BY <1>3
    <3>2. T \subseteq Held /\ Held \subseteq Ids
      BY DEF HeldToday, HeldFrom, Held
    <3> HIDE DEF T
    <3> QED BY <3>1, <3>2, <1>3
  <2>2. {id \in U : file[id].from = n /\ file[id].day = Today} = U \cap T
    BY DEF HeldToday, HeldFrom
  <2>3. day'[n][Today] = Less(day[n][Today], ByteSum(U \cap T, Length))
    BY <2>2, <1>0 DEF DayWithout
  <2>4. Less(ByteSum(T, Length), ByteSum(U \cap T, Length)) = ByteSum(T \ U, Length)
    BY <2>1, <1>0, SumLess DEF Held
  <2>5. ByteSum(HeldToday(n)', Length) <= ByteSum(T \ U, Length)
    BY <2>1, <1>0, SumMono
  <2>6. ByteSum(HeldToday(n)', Length') = ByteSum(HeldToday(n)', Length)
    BY <2>1, <1>3, SumSame
  <2>7. ByteSum(T, Length) <= day[n][Today]
    BY DEF Inv, Accounts, DayCharged
  <2>8. /\ ByteSum(T, Length) \in Nat /\ ByteSum(U \cap T, Length) \in Nat
        /\ ByteSum(T \ U, Length) \in Nat /\ ByteSum(HeldToday(n)', Length) \in Nat
        /\ day[n][Today] \in Nat
    <3>1. U \cap T \in SUBSET Ids /\ HeldToday(n)' \in SUBSET Ids
      BY <2>1
    <3>2. \A S \in SUBSET Ids : ByteSum(S, Length) \in Nat
      BY <1>0, BytesFinite, ZenonT(30)
    <3>3. day[n][Today] \in Nat
      BY <1>0 DEF Inv, TypeOK
    <3> HIDE DEF T
    <3> QED BY <3>1, <3>2, <3>3, <2>1
  <2> HIDE DEF T
  <2> QED BY <2>3, <2>4, <2>5, <2>6, <2>7, <2>8 DEF Less
<1>9. CapsCounted'
  <2>1. \A v, w \in Nat : Less(v, w) <= v
    BY DEF Less
  <2>2. \A S \in SUBSET Ids : ByteSum(S, Length) \in Nat
    BY <1>0, BytesFinite
  <2>3. \A S \in SUBSET Ids : Cardinality(S) \in Nat
    BY CountLess
  <2>4. ASSUME NEW n \in Names
        PROVE  pendTo'[n] <= pendTo[n] /\ pendFrom'[n] <= pendFrom[n] /\ offers'[n] <= offers[n]
    <3>1. {id \in G \cap Held : file[id].to = n} \in SUBSET Ids
          /\ {id \in G \cap Held : file[id].from = n} \in SUBSET Ids
          /\ {id \in R : Out(id) /\ file[id].from = n} \in SUBSET Ids
      BY DEF Held
    <3>2. pendTo[n] \in Nat /\ pendFrom[n] \in Nat /\ offers[n] \in Nat
      BY DEF Inv, TypeOK
    <3> QED BY <3>1, <3>2, <2>1, <2>2, <2>3 DEF Release, OffersWithout
  <2>5. total' <= total
    BY <2>1, <2>2 DEF Release, Inv, TypeOK, Held
  <2>6. /\ CapsCounted
        /\ TypeOK
    BY DEF Inv, Accounts
  <2>7. Days' = Days
    OBVIOUS
  <2>8. ASSUME NEW n \in Names
        PROVE  /\ pendTo'[n] <= RecipientPending /\ pendFrom'[n] <= SenderPending
               /\ offers'[n] <= SenderOffers
               /\ \A d \in Days : day'[n][d] <= SenderDaily
    <3>1. /\ pendTo[n] \in Nat /\ pendFrom[n] \in Nat /\ offers[n] \in Nat
          /\ pendTo'[n] \in Nat /\ pendFrom'[n] \in Nat /\ offers'[n] \in Nat
          /\ \A d \in Days : day[n][d] \in Nat /\ day'[n][d] \in Nat
      BY <2>6 DEF TypeOK
    <3>2. /\ RecipientPending \in Nat /\ SenderPending \in Nat
          /\ SenderDaily \in Nat /\ SenderOffers \in Nat
      BY LedgerAssumption
    <3> QED BY <3>1, <3>2, <2>4, <2>6 DEF CapsCounted
  <2>9. total' <= TotalPending
    BY <2>5, <2>6, LedgerAssumption DEF CapsCounted, TypeOK
  <2> QED BY <2>8, <2>9 DEF CapsCounted
<1> QED BY <1>5, <1>6, <1>7, <1>8, <1>9 DEF Accounts

\* A step that leaves the counters alone, and every file between whom it was, as
\* long as it was and holding room or not as it was, keeps the accounts.
LEMMA Unmoved ==
  ASSUME Inv, TypeOK', now' = now, UNCHANGED counters,
         \A id \in Ids :
           /\ file'[id].from = file[id].from /\ file'[id].to = file[id].to
           /\ file'[id].bytes = file[id].bytes /\ file'[id].day = file[id].day
           /\ file'[id].state \in Holding <=> file[id].state \in Holding
           /\ file'[id].state = "none" <=> file[id].state = "none"
  PROVE  Accounts'
<1>1. Held' = Held /\ Length' = Length /\ Today' = Today
  BY DEF Held, Length, Today
<1>2. \A n : /\ HeldTo(n)' = HeldTo(n) /\ HeldFrom(n)' = HeldFrom(n)
             /\ HeldToday(n)' = HeldToday(n)
  BY <1>1 DEF HeldTo, HeldFrom, HeldToday, Held
<1>3. \A n : OutFrom(n)' = OutFrom(n)
  BY DEF OutFrom, Out
<1>4. Known'
  BY <1>1 DEF Known, Inv, Accounts, Out, Held
<1>5. RoomAccounted' /\ OffersCounted' /\ DayCharged' /\ CapsCounted'
  BY <1>1, <1>2, <1>3
  DEF Inv, Accounts, RoomAccounted, OffersCounted, DayCharged, CapsCounted, counters, Days
<1> QED BY <1>4, <1>5 DEF Accounts

\* The clock going on moves no room; a grant of a day that is over is not of today.
LEMMA TickKeeps ==
  ASSUME Inv, TypeOK', Tick
  PROVE  Accounts'
<1>1. /\ now \in 0 .. MaxTime /\ now' \in 0 .. MaxTime /\ now <= now'
      /\ file' = file /\ UNCHANGED counters
  BY DEF Tick, Inv, TypeOK
<1>2. Today <= Today' /\ Today \in Nat /\ Today' \in Nat /\ Today' \in Days
  <2>1. now \in Nat /\ now' \in Nat /\ MaxTime \in Nat /\ now' <= MaxTime
    BY <1>1, LedgerAssumption
  <2>2. Day \in Nat \ {0}
    BY FilesAssumption
  <2>3. now \div Day \in Nat /\ now \div Day <= now' \div Day
    BY <1>1, <2>1, <2>2, DivMono
  <2>4. now' \div Day \in Nat /\ now' \div Day <= MaxTime \div Day
    BY <2>1, <2>2, DivMono
  <2>5. MaxTime \div Day \in Nat
    BY <2>1, <2>2, DivMono
  <2> QED BY <2>3, <2>4, <2>5 DEF Today, DayOf, Days
<1>3. Held' = Held /\ Length' = Length
  BY <1>1 DEF Held, Length
<1>4. \A n : /\ HeldTo(n)' = HeldTo(n) /\ HeldFrom(n)' = HeldFrom(n)
             /\ OutFrom(n)' = OutFrom(n)
  BY <1>1, <1>3 DEF HeldTo, HeldFrom, OutFrom, Out
<1>5. Known'
  BY <1>1, <1>2, <1>3 DEF Known, Inv, Accounts, Out, Held, TypeOK, Record
<1>6. RoomAccounted' /\ OffersCounted' /\ CapsCounted'
  BY <1>1, <1>3, <1>4
  DEF Inv, Accounts, RoomAccounted, OffersCounted, CapsCounted, counters, Days
<1>7. DayCharged'
  <2> SUFFICES ASSUME NEW n \in Names
               PROVE  ByteSum(HeldToday(n)', Length') <= day'[n][Today']
    BY DEF DayCharged
  <2>1. CASE Today' = Today
    BY <2>1, <1>1, <1>3, <1>4 DEF HeldToday, Inv, Accounts, DayCharged, counters
  <2>2. CASE Today < Today'
    <3>1. HeldToday(n)' = {}
      BY <2>2, <1>1, <1>2, <1>3, <1>4
      DEF HeldToday, HeldFrom, Held, Inv, Accounts, Known, TypeOK, Record
    <3>2. ByteSum({}, Length') = 0
      BY FS_EmptySet DEF ByteSum, BytesOf
    <3>3. day'[n][Today'] \in Nat
      BY <1>2 DEF TypeOK
    <3> QED BY <3>1, <3>2, <3>3
  <2> QED BY <2>1, <2>2, <1>2
<1> QED BY <1>5, <1>6, <1>7 DEF Accounts

\* A new offer adds one to its sender's offers and holds no room.
LEMMA OfferKeeps ==
  ASSUME Inv, TypeOK', NEW id \in Ids, NEW from \in Names, NEW to \in Names, NEW bytes \in Lengths,
         Offer(id, from, to, bytes), OfferAnswer(id, from, bytes) = "ok"
  PROVE  Accounts'
<1> DEFINE rec == [Blank EXCEPT !.state = "offered", !.from = from, !.to = to,
                                !.bytes = bytes, !.expires = now + OfferTtl]
<1>1. /\ offers' = [offers EXCEPT ![from] = @ + 1] /\ file' = [file EXCEPT ![id] = rec]
      /\ now' = now /\ UNCHANGED <<pendTo, pendFrom, total, day>>
      /\ ~Out(id) /\ offers[from] < SenderOffers
  BY LedgerAssumption DEF Offer, OfferAnswer, Inv, TypeOK
<1>2. /\ file \in [Ids -> Record] /\ offers \in [Names -> Nat] /\ SenderOffers \in Nat
  BY LedgerAssumption DEF Inv, TypeOK
<1>3. file'[id] = rec /\ \A x \in Ids \ {id} : file'[x] = file[x]
  BY <1>1, <1>2
<1>4. rec.state = "offered" /\ rec.from = from /\ rec.to = to
  BY DEF Blank
<1>5. Held' = Held /\ Today' = Today /\ \A x \in Held : file'[x] = file[x] /\ Length'[x] = Length[x]
  BY <1>1, <1>3, <1>4 DEF Held, Holding, Length, Out, Today
<1>6. \A n : /\ HeldTo(n)' = HeldTo(n) /\ HeldFrom(n)' = HeldFrom(n)
             /\ HeldToday(n)' = HeldToday(n)
  BY <1>5 DEF HeldTo, HeldFrom, HeldToday
<1>7. \A S \in SUBSET Held : ByteSum(S, Length') = ByteSum(S, Length)
  BY <1>5, SumSame DEF Held
<1>8. Known'
  <2>1. ASSUME NEW x \in Ids, Out(x)'
        PROVE  file'[x].from \in Names /\ file'[x].to \in Names
    <3>1. CASE x = id
      BY <3>1, <1>3, <1>4
    <3>2. CASE x # id
      BY <3>2, <2>1, <1>3 DEF Known, Inv, Accounts, Out
    <3> QED BY <3>1, <3>2
  <2>2. ASSUME NEW x \in Held' PROVE file'[x].day <= Today'
    BY <2>2, <1>5 DEF Known, Inv, Accounts
  <2> QED BY <2>1, <2>2 DEF Known
<1>9. RoomAccounted'
  <2>1. ASSUME NEW n \in Names
        PROVE  HeldTo(n) \in SUBSET Held /\ HeldFrom(n) \in SUBSET Held
    BY DEF HeldTo, HeldFrom
  <2> QED BY <2>1, <1>1, <1>5, <1>6, <1>7 DEF RoomAccounted, Inv, Accounts
<1>10. DayCharged'
  <2>1. ASSUME NEW n \in Names PROVE HeldToday(n) \in SUBSET Held
    BY DEF HeldToday, HeldFrom
  <2> QED BY <2>1, <1>1, <1>5, <1>6, <1>7 DEF DayCharged, Inv, Accounts
<1>11. OffersCounted'
  <2> SUFFICES ASSUME NEW n \in Names PROVE offers'[n] = Cardinality(OutFrom(n)')
    BY DEF OffersCounted
  <2>1. offers[n] = Cardinality(OutFrom(n))
    BY DEF Inv, Accounts, OffersCounted
  <2>2. CASE n = from
    <3>1. OutFrom(n)' = OutFrom(n) \cup {id} /\ id \notin OutFrom(n)
      <4>1. Out(id)' /\ file'[id].from = n /\ ~Out(id)
        BY <2>2, <1>1, <1>3, <1>4 DEF Out
      <4>2. ASSUME NEW x \in Ids \ {id}
            PROVE  (Out(x)' <=> Out(x)) /\ file'[x].from = file[x].from
        BY <1>3 DEF Out
      <4> QED BY <4>1, <4>2 DEF OutFrom
    <3>2. IsFiniteSet(OutFrom(n))
      BY FS_Subset, LedgerAssumption DEF OutFrom
    <3>3. Cardinality(OutFrom(n) \cup {id}) = Cardinality(OutFrom(n)) + 1
      BY <3>1, <3>2, FS_AddElement, Zenon
    <3> QED BY <3>1, <3>3, <2>1, <2>2, <1>1, <1>2
  <2>3. CASE n # from
    <3>1. OutFrom(n)' = OutFrom(n)
      <4>1. ASSUME NEW x \in Ids
            PROVE  (Out(x) /\ file[x].from = n)' <=> (Out(x) /\ file[x].from = n)
        BY <2>3, <1>1, <1>3, <1>4 DEF Out
      <4> QED BY <4>1 DEF OutFrom
    <3> QED BY <3>1, <2>1, <2>3, <1>1, <1>2
  <2> QED BY <2>2, <2>3
<1>12. CapsCounted'
  BY <1>1, <1>2 DEF CapsCounted, Inv, Accounts, Days
<1> QED BY <1>8, <1>9, <1>10, <1>11, <1>12 DEF Accounts

\* An acceptance adds the file's bytes wherever they are counted, within the caps.
LEMMA GrantKeeps ==
  ASSUME Inv, TypeOK', NEW id \in Ids, NEW name \in Names, Grant(id, name),
         GrantAnswer(id, name) = "ok"
  PROVE  Accounts'
<1> DEFINE rec == file[id]
           b == rec.bytes
<1>0. /\ rec \in Record /\ TypeOK /\ Accounts /\ Length \in [Ids -> Nat] /\ Length[id] = b
      /\ Today \in Days /\ Today' = Today /\ now' = now
  <2>1. TypeOK /\ Accounts /\ now \in 0 .. MaxTime /\ rec \in Record
    BY DEF Inv, TypeOK
  <2>2. now' = now
    BY DEF Grant
  <2> QED BY <2>1, <2>2, LengthType, TodayType DEF Length, Today
<1>1. /\ pendTo' = [pendTo EXCEPT ![rec.to] = @ + b]
      /\ pendFrom' = [pendFrom EXCEPT ![rec.from] = @ + b]
      /\ total' = total + b
      /\ day' = [day EXCEPT ![rec.from][Today] = @ + b]
      /\ file' = [file EXCEPT ![id].state = "granted", ![id].grant = grants + 1,
                              ![id].grantExpires = now + GrantTtl, ![id].day = Today]
      /\ offers' = offers
  BY DEF Grant, Reserve
<1>2. /\ rec.state = "offered"
      /\ pendTo[rec.to] + b <= RecipientPending /\ pendFrom[rec.from] + b <= SenderPending
      /\ day[rec.from][Today] + b <= SenderDaily /\ total + b <= TotalPending
  <2>1. rec.from \in Names /\ rec.to \in Names /\ b \in Nat
    BY <1>0 DEF GrantAnswer, Accounts, Known, Out, Record
  <2>2. /\ pendTo[rec.to] \in Nat /\ pendFrom[rec.from] \in Nat /\ total \in Nat
        /\ day[rec.from][Today] \in Nat
    BY <2>1, <1>0 DEF TypeOK
  <2> QED BY <2>1, <2>2, LedgerAssumption DEF GrantAnswer
<1>3. rec.from \in Names /\ rec.to \in Names /\ b \in Nat
  BY <1>0, <1>2 DEF Accounts, Known, Out, Record
<1>4. /\ file'[id].state = "granted" /\ file'[id].from = rec.from /\ file'[id].to = rec.to
      /\ file'[id].bytes = b /\ file'[id].day = Today
      /\ \A x \in Ids \ {id} : file'[x] = file[x]
  BY <1>0, <1>1 DEF TypeOK, Record
<1>5. Held' = Held \cup {id} /\ id \notin Held /\ Length' = Length
  BY <1>2, <1>4 DEF Held, Holding, Length
<1>6. ASSUME NEW n
      PROVE  /\ HeldTo(n)' = IF n = rec.to THEN HeldTo(n) \cup {id} ELSE HeldTo(n)
             /\ HeldFrom(n)' = IF n = rec.from THEN HeldFrom(n) \cup {id} ELSE HeldFrom(n)
             /\ HeldToday(n)' = IF n = rec.from THEN HeldToday(n) \cup {id} ELSE HeldToday(n)
             /\ OutFrom(n)' = OutFrom(n)
  <2>1. HeldTo(n)' = IF n = rec.to THEN HeldTo(n) \cup {id} ELSE HeldTo(n)
    BY <1>4, <1>5 DEF HeldTo, Held
  <2>2. HeldFrom(n)' = IF n = rec.from THEN HeldFrom(n) \cup {id} ELSE HeldFrom(n)
    BY <1>4, <1>5 DEF HeldFrom, Held
  <2>3. HeldToday(n)' = IF n = rec.from THEN HeldToday(n) \cup {id} ELSE HeldToday(n)
    BY <1>0, <1>4, <1>5 DEF HeldToday, HeldFrom, Held
  <2>4. OutFrom(n)' = OutFrom(n)
    BY <1>2, <1>4 DEF OutFrom, Out
  <2> QED BY <2>1, <2>2, <2>3, <2>4
<1>7. ASSUME NEW S \in SUBSET Held
      PROVE  ByteSum(S \cup {id}, Length) = ByteSum(S, Length) + b /\ ByteSum(S, Length) \in Nat
  <2>1. S \in SUBSET Ids /\ S \cap {id} = {}
    BY <1>5 DEF Held
  <2>2. ByteSum(S \cup {id}, Length) = ByteSum(S, Length) + ByteSum({id}, Length)
    BY <2>1, <1>0, SumUnion
  <2>3. ByteSum({id}, Length) = b
    BY <1>0, SumOne
  <2> QED BY <2>1, <2>2, <2>3, <1>0, BytesFinite
<1>8. ASSUME NEW n
      PROVE  HeldTo(n) \in SUBSET Held /\ HeldFrom(n) \in SUBSET Held /\ HeldToday(n) \in SUBSET Held
  BY DEF HeldTo, HeldFrom, HeldToday
<1>9. Known'
  <2>1. ASSUME NEW x \in Ids, Out(x)'
        PROVE  file'[x].from \in Names /\ file'[x].to \in Names
    <3>1. CASE x = id
      BY <3>1, <1>3, <1>4
    <3>2. CASE x # id
      BY <3>2, <2>1, <1>0, <1>4 DEF Known, Accounts, Out
    <3> QED BY <3>1, <3>2
  <2>2. ASSUME NEW x \in Held' PROVE file'[x].day <= Today'
    <3>1. Today \in Nat
      BY <1>0, TodayType DEF TypeOK
    <3>2. CASE x = id
      BY <3>1, <3>2, <1>0, <1>4
    <3>3. CASE x # id
      BY <3>3, <1>0, <1>4, <1>5 DEF Known, Accounts, Held
    <3> QED BY <3>2, <3>3
  <2> QED BY <2>1, <2>2 DEF Known
<1>10. RoomAccounted'
  <2>1. ASSUME NEW n \in Names
        PROVE  pendTo'[n] = ByteSum(HeldTo(n)', Length')
    <3>1. pendTo[n] = ByteSum(HeldTo(n), Length)
      BY <1>0 DEF Accounts, RoomAccounted
    <3>2. CASE n = rec.to
      BY <3>1, <3>2, <1>0, <1>1, <1>3, <1>5, <1>6, <1>7, <1>8 DEF TypeOK
    <3>3. CASE n # rec.to
      BY <3>1, <3>3, <1>0, <1>1, <1>3, <1>5, <1>6 DEF TypeOK
    <3> QED BY <3>2, <3>3
  <2>2. ASSUME NEW n \in Names
        PROVE  pendFrom'[n] = ByteSum(HeldFrom(n)', Length')
    <3>1. pendFrom[n] = ByteSum(HeldFrom(n), Length)
      BY <1>0 DEF Accounts, RoomAccounted
    <3>2. CASE n = rec.from
      BY <3>1, <3>2, <1>0, <1>1, <1>3, <1>5, <1>6, <1>7, <1>8 DEF TypeOK
    <3>3. CASE n # rec.from
      BY <3>1, <3>3, <1>0, <1>1, <1>3, <1>5, <1>6 DEF TypeOK
    <3> QED BY <3>2, <3>3
  <2>3. total' = ByteSum(Held', Length')
    BY <1>0, <1>1, <1>5, <1>7 DEF Accounts, RoomAccounted
  <2> QED BY <2>1, <2>2, <2>3 DEF RoomAccounted
<1>11. OffersCounted'
  BY <1>0, <1>1, <1>6 DEF Accounts, OffersCounted
<1>12. DayCharged'
  <2> SUFFICES ASSUME NEW n \in Names
               PROVE  ByteSum(HeldToday(n)', Length') <= day'[n][Today]
    BY <1>0 DEF DayCharged
  <2>1. ByteSum(HeldToday(n), Length) <= day[n][Today] /\ day[n][Today] \in Nat
    BY <1>0 DEF Accounts, DayCharged, TypeOK
  <2>2. ByteSum(HeldToday(n), Length) \in Nat
    BY <1>7, <1>8
  <2>3. CASE n = rec.from
    <3>1. day'[n][Today] = day[n][Today] + b
      BY <2>3, <1>0, <1>1, <1>3 DEF TypeOK
    <3>2. ByteSum(HeldToday(n)', Length') = ByteSum(HeldToday(n), Length) + b
      BY <2>3, <1>5, <1>6, <1>7, <1>8
    <3> QED BY <3>1, <3>2, <2>1, <2>2, <1>3
  <2>4. CASE n # rec.from
    BY <2>1, <2>4, <1>0, <1>1, <1>3, <1>5, <1>6 DEF TypeOK
  <2> QED BY <2>3, <2>4
<1>13. CapsCounted'
  <2>1. ASSUME NEW n \in Names
        PROVE  /\ pendTo'[n] <= RecipientPending /\ pendFrom'[n] <= SenderPending
               /\ offers'[n] <= SenderOffers
    BY <1>0, <1>1, <1>2, <1>3 DEF Accounts, CapsCounted, TypeOK
  <2>2. ASSUME NEW n \in Names, NEW d \in Days
        PROVE  day'[n][d] <= SenderDaily
    BY <1>0, <1>1, <1>2, <1>3 DEF Accounts, CapsCounted, TypeOK
  <2>3. Days' = Days /\ total' <= TotalPending
    BY <1>1, <1>2
  <2> QED BY <2>1, <2>2, <2>3 DEF CapsCounted
<1> QED BY <1>9, <1>10, <1>11, <1>12, <1>13 DEF Accounts

\* Taking grants back never adds to a day.
LEMMA WithoutLess ==
  ASSUME Inv, NEW U \in SUBSET Held, NEW n \in Names, NEW d \in Days
  PROVE  DayWithout(U)[n][d] <= day[n][d] /\ DayWithout(U)[n][d] \in Nat
<1> DEFINE S == {id \in U : file[id].from = n /\ file[id].day = d}
<1>1. S \in SUBSET Ids
  BY DEF Held
<1>2. ByteSum(S, Length) \in Nat /\ day[n][d] \in Nat
  BY <1>1, LengthType, BytesFinite DEF Inv, TypeOK
<1>3. DayWithout(U)[n][d] = Less(day[n][d], ByteSum(S, Length))
  BY DEF DayWithout
<1> QED BY <1>2, <1>3 DEF Less

\* A file that goes takes what it held with it.
LEMMA DropKeeps ==
  ASSUME Inv, TypeOK', now' = now, NEW id \in Ids, Drop(id)
  PROVE  Accounts'
<1> DEFINE R == {id}
           U == {}
<1>1. R \cup U = {id}
  OBVIOUS
<1>2. R \in SUBSET Ids /\ U \in SUBSET Held /\ R \cap U = {}
  OBVIOUS
<1>3. Release(R \cup U) /\ offers' = OffersWithout(R)
  BY <1>1, Zenon DEF Drop
<1>4. file' = [x \in Ids |-> IF x \in R THEN Blank ELSE IF x \in U THEN Offered(file[x]) ELSE file[x]]
  BY DEF Drop, Inv, TypeOK
<1>5. ASSUME NEW n \in Names
      PROVE  /\ day'[n][Today] = DayWithout(U)[n][Today]
             /\ \A d \in Days : day'[n][d] <= day[n][d]
  <2>1. {x \in U : file[x].from = n /\ file[x].day = Today} = {}
    OBVIOUS
  <2>2. ByteSum({}, Length) = 0
    BY FS_EmptySet DEF ByteSum, BytesOf
  <2>3. Today \in Days /\ \A d \in Days : day[n][d] \in Nat
    BY TodayType DEF Inv, TypeOK
  <2>4. DayWithout(U)[n][Today] = Less(day[n][Today], 0)
    BY <2>1, <2>2, <2>3 DEF DayWithout
  <2> QED BY <2>3, <2>4 DEF Less, Drop
<1> HIDE DEF R, U
<1> QED BY <1>2, <1>3, <1>4, <1>5, GiveBack

\* A grant taken back gives back what it held, and the day's bytes.
LEMMA TakeBackKeeps ==
  ASSUME Inv, TypeOK', now' = now, NEW id \in Ids, TakeBack(id), file[id].state = "granted"
  PROVE  Accounts'
<1> DEFINE R == {}
           U == {id}
<1>1. R \cup U = {id}
  OBVIOUS
<1>2. R \in SUBSET Ids /\ U \in SUBSET Held /\ R \cap U = {}
  BY DEF Held, Holding
<1>3. Release(R \cup U)
  BY <1>1, Zenon DEF TakeBack
<1>4. offers' = OffersWithout(R)
  <2>1. \A n \in Names : Cardinality({x \in R : Out(x) /\ file[x].from = n}) = 0
    <3>1. \A n \in Names : {x \in R : Out(x) /\ file[x].from = n} = {}
      OBVIOUS
    <3> QED BY <3>1, FS_EmptySet
  <2>2. offers \in [Names -> Nat] /\ offers' = offers
    BY DEF Inv, TypeOK, TakeBack
  <2> QED BY <2>1, <2>2 DEF OffersWithout, Less
<1>5. file' = [x \in Ids |-> IF x \in R THEN Blank ELSE IF x \in U THEN Offered(file[x]) ELSE file[x]]
  BY DEF TakeBack, Inv, TypeOK
<1>6. ASSUME NEW n \in Names
      PROVE  /\ day'[n][Today] = DayWithout(U)[n][Today]
             /\ \A d \in Days : day'[n][d] <= day[n][d]
  <2>1. day' = DayWithout(U) /\ Today \in Days
    BY TodayType DEF TakeBack, Inv, TypeOK
  <2>2. \A d \in Days : DayWithout(U)[n][d] <= day[n][d]
    BY <1>2, WithoutLess
  <2> HIDE DEF U
  <2> QED BY <2>1, <2>2
<1> HIDE DEF R, U
<1> QED BY <1>2, <1>3, <1>4, <1>5, <1>6, GiveBack

\* The sweep gives back all it lets go of, and only the days that are over.
LEMMA SweepKeeps ==
  ASSUME Inv, TypeOK', Sweep
  PROVE  Accounts'
<1>1. /\ Swept \in SUBSET Ids /\ Unused \in SUBSET Held /\ Swept \cap Unused = {}
      /\ now' = now /\ Release(Swept \cup Unused) /\ offers' = OffersWithout(Swept)
      /\ file' = [id \in Ids |-> IF id \in Swept THEN Blank
                                 ELSE IF id \in Unused THEN Offered(file[id]) ELSE file[id]]
  BY DEF Sweep, Swept, Unused, Held, Holding, Stale
<1>2. ASSUME NEW n \in Names
      PROVE  /\ day'[n][Today] = DayWithout(Unused)[n][Today]
             /\ \A d \in Days : day'[n][d] <= day[n][d]
  <2>1. Today \in Days /\ Today \in Nat /\ \A d \in Days : day[n][d] \in Nat
    BY TodayType DEF Inv, TypeOK
  <2>2. \A d \in Days : DayWithout(Unused)[n][d] <= day[n][d]
    BY <1>1, WithoutLess
  <2>3. \A d \in Days : day'[n][d] = IF d < Today THEN 0 ELSE DayWithout(Unused)[n][d]
    BY DEF Sweep, FromToday
  <2>4. day'[n][Today] = DayWithout(Unused)[n][Today]
    BY <2>1, <2>3
  <2>5. ASSUME NEW d \in Days PROVE day'[n][d] <= day[n][d]
    <3>1. day'[n][d] = 0 \/ day'[n][d] = DayWithout(Unused)[n][d]
      BY <2>3
    <3> QED BY <3>1, <2>1, <2>2
  <2> QED BY <2>4, <2>5
<1> QED BY <1>1, <1>2, GiveBack

-----------------------------------------------------------------------------
(* Types *)

CountersOK ==
  /\ offers \in [Names -> Nat] /\ pendTo \in [Names -> Nat] /\ pendFrom \in [Names -> Nat]
  /\ total \in Nat /\ day \in [Names -> [Days -> Nat]]

BudgetsOK ==
  /\ writes \in [Days -> Nat] /\ reads \in [Days -> Nat]
  /\ starts \in [Addresses -> [Hours -> Nat]]

\* A record that is not there has a record's type.
LEMMA BlankType == Blank \in Record
  BY DEF Blank, Record

\* Giving back leaves every counter a counter: add never keeps one below 0.
LEMMA ReleaseType ==
  ASSUME Inv, NEW S \in SUBSET Ids, Release(S)
  PROVE  pendTo' \in [Names -> Nat] /\ pendFrom' \in [Names -> Nat] /\ total' \in Nat
<1>1. \A v, w \in Nat : Less(v, w) \in Nat
  BY DEF Less
<1>2. \A T \in SUBSET Ids : ByteSum(T, Length) \in Nat
  BY LengthType, BytesFinite DEF Inv
<1>3. ASSUME NEW n \in Names
      PROVE  /\ Less(pendTo[n], ByteSum({id \in S \cap Held : file[id].to = n}, Length)) \in Nat
             /\ Less(pendFrom[n], ByteSum({id \in S \cap Held : file[id].from = n}, Length)) \in Nat
  <2>1. {id \in S \cap Held : file[id].to = n} \in SUBSET Ids
        /\ {id \in S \cap Held : file[id].from = n} \in SUBSET Ids
    OBVIOUS
  <2>2. pendTo[n] \in Nat /\ pendFrom[n] \in Nat
    BY DEF Inv, TypeOK
  <2> QED BY <2>1, <2>2, <1>1, <1>2
<1>4. total' \in Nat
  BY <1>1, <1>2 DEF Release, Inv, TypeOK
<1> QED BY <1>3, <1>4 DEF Release

\* Taking offers out of the counts leaves them counts (add never goes below 0).
LEMMA OffersType ==
  ASSUME Inv, NEW S \in SUBSET Ids
  PROVE  OffersWithout(S) \in [Names -> Nat]
<1>1. ASSUME NEW n \in Names
      PROVE  Less(offers[n], Cardinality({id \in S : Out(id) /\ file[id].from = n})) \in Nat
  <2>1. Cardinality({id \in S : Out(id) /\ file[id].from = n}) \in Nat
    BY CountLess
  <2>2. offers[n] \in Nat
    BY DEF Inv, TypeOK
  <2> QED BY <2>1, <2>2 DEF Less
<1> QED BY <1>1 DEF OffersWithout

\* A file that goes, and a grant taken back, leave a ledger with its invariant.
LEMMA DropStep ==
  ASSUME Inv, NEW id \in Ids, Drop(id), now' = now, grants' = grants, BudgetsOK'
  PROVE  Inv'
<1>1. CountersOK'
  BY ReleaseType, OffersType DEF Drop, CountersOK, Inv, TypeOK
<1>2. file' \in [Ids -> Record]
  BY BlankType DEF Drop, Inv, TypeOK
<1>3. now' \in 0 .. MaxTime /\ grants' \in 0 .. MaxGrants
  BY DEF Inv, TypeOK
<1>4. TypeOK'
  BY <1>1, <1>2, <1>3 DEF TypeOK, CountersOK, BudgetsOK
<1> QED BY <1>4, DropKeeps DEF Inv

\* A granted record made an offer again keeps its type.
LEMMA OfferedType ==
  ASSUME NEW rec \in Record
  PROVE  Offered(rec) \in Record
  BY DEF Offered, Record

\* A grant taken back (revert) leaves a ledger with its invariant.
LEMMA TakeBackStep ==
  ASSUME Inv, NEW id \in Ids, TakeBack(id), file[id].state = "granted",
         now' = now, grants' = grants, BudgetsOK'
  PROVE  Inv'
<1>1. id \in Held /\ {id} \in SUBSET Held
  BY DEF Held, Holding
<1>2. \A n \in Names, d \in Days : DayWithout({id})[n][d] \in Nat
  BY <1>1, WithoutLess
<1>3. DayWithout({id}) \in [Names -> [Days -> Nat]]
  BY <1>2 DEF DayWithout
<1>4. CountersOK'
  BY <1>3, ReleaseType DEF TakeBack, CountersOK, Inv, TypeOK
<1>5. file' \in [Ids -> Record]
  BY OfferedType DEF TakeBack, Inv, TypeOK
<1>6. now' \in 0 .. MaxTime /\ grants' \in 0 .. MaxGrants
  BY DEF Inv, TypeOK
<1>7. TypeOK'
  BY <1>4, <1>5, <1>6 DEF TypeOK, CountersOK, BudgetsOK
<1> QED BY <1>7, TakeBackKeeps DEF Inv

\* A step of the budgets alone.
LEMMA BudgetStep ==
  ASSUME Inv, UNCHANGED <<now, file, counters, grants>>, BudgetsOK'
  PROVE  Inv'
<1>1. TypeOK'
  BY DEF Inv, TypeOK, BudgetsOK, counters, Days
<1>2. Accounts'
  BY <1>1, Unmoved
<1> QED BY <1>1, <1>2 DEF Inv

\* A record that changes in nothing the accounts count.
LEMMA RecordStep ==
  ASSUME Inv, UNCHANGED <<now, counters, grants>>, BudgetsOK', NEW id \in Ids, NEW rec \in Record,
         file' = [file EXCEPT ![id] = rec],
         rec.from = file[id].from, rec.to = file[id].to, rec.bytes = file[id].bytes,
         rec.day = file[id].day,
         rec.state = file[id].state \/ (rec.state \in Holding /\ file[id].state \in Holding)
  PROVE  Inv'
<1>1. TypeOK'
  BY DEF Inv, TypeOK, BudgetsOK, counters
<1>2. \A x \in Ids : x = id \/ file'[x] = file[x]
  BY DEF Inv, TypeOK
<1>3. file'[id] = rec
  BY DEF Inv, TypeOK
<1>4. Accounts'
  BY <1>1, <1>2, <1>3, Unmoved DEF Holding
<1> QED BY <1>1, <1>4 DEF Inv

\* Budgets that do not move stay budgets.
LEMMA SameBudgets ==
  ASSUME Inv, UNCHANGED budgets
  PROVE  BudgetsOK'
  BY DEF Inv, TypeOK, BudgetsOK, budgets, Days, Hours

\* Pruning the address tags of hours that are over leaves counters of them.
LEMMA PrunedType ==
  ASSUME Inv
  PROVE  Pruned \in [Addresses -> [Hours -> Nat]]
  BY DEF Pruned, Inv, TypeOK

-----------------------------------------------------------------------------
(* Each operation keeps the invariant *)

\* offer keeps the invariant, whatever it answers.
LEMMA OfferStep ==
  ASSUME Inv, NEW id \in Ids, NEW from \in Names, NEW to \in Names, NEW bytes \in Lengths,
         Offer(id, from, to, bytes)
  PROVE  Inv'
<1>0. BudgetsOK' /\ now' = now /\ grants' = grants /\ UNCHANGED <<pendTo, pendFrom, total, day>>
  BY SameBudgets DEF Offer
<1>1. CASE OfferAnswer(id, from, bytes) = "ok"
  <2> DEFINE rec == [Blank EXCEPT !.state = "offered", !.from = from, !.to = to,
                                  !.bytes = bytes, !.expires = now + OfferTtl]
  <2>1. rec \in Record
    <3>1. now + OfferTtl \in Nat /\ bytes \in Nat
      BY LedgerAssumption DEF Inv, TypeOK
    <3> QED BY <3>1 DEF Blank, Record
  <2>2. offers' = [offers EXCEPT ![from] = @ + 1] /\ file' = [file EXCEPT ![id] = rec]
    BY <1>1 DEF Offer
  <2>3. TypeOK'
    BY <1>0, <2>1, <2>2 DEF Inv, TypeOK, BudgetsOK
  <2> QED BY <1>1, <2>3, OfferKeeps DEF Inv
<1>2. CASE OfferAnswer(id, from, bytes) # "ok"
  BY <1>0, <1>2, BudgetStep DEF Offer, counters
<1> QED BY <1>1, <1>2

\* remove keeps the invariant.
LEMMA RemoveStep ==
  ASSUME Inv, NEW id \in Ids, NEW name, Remove(id, name)
  PROVE  Inv'
<1>1. BudgetsOK' /\ now' = now /\ grants' = grants
  BY SameBudgets DEF Remove
<1>2. CASE Drop(id)
  BY <1>1, <1>2, DropStep
<1>3. CASE UNCHANGED <<file, counters>>
  BY <1>1, <1>3, BudgetStep
<1> QED BY <1>2, <1>3 DEF Remove

\* grant keeps the invariant: with room, expired, or turned away.
LEMMA GrantStep ==
  ASSUME Inv, NEW id \in Ids, NEW name \in Names, Grant(id, name)
  PROVE  Inv'
<1>1. BudgetsOK' /\ now' = now
  BY SameBudgets DEF Grant
<1>2. CASE GrantAnswer(id, name) = "ok"
  <2>1. /\ file[id] \in Record /\ file[id].from \in Names /\ file[id].to \in Names
        /\ Today \in Days /\ Today \in Nat /\ Out(id)
    BY <1>2, TodayType DEF GrantAnswer, Inv, TypeOK, Accounts, Known, Out
  <2>2. /\ grants' = grants + 1 /\ grants < MaxGrants /\ UNCHANGED offers
        /\ Reserve(id)
        /\ day' = [day EXCEPT ![file[id].from][Today] = @ + file[id].bytes]
        /\ file' = [file EXCEPT ![id].state = "granted", ![id].grant = grants + 1,
                                ![id].grantExpires = now + GrantTtl, ![id].day = Today]
    BY <1>2 DEF Grant
  <2>3. CountersOK'
    BY <2>1, <2>2 DEF CountersOK, Reserve, Inv, TypeOK, Record
  <2>4. file' \in [Ids -> Record]
    <3>1. grants + 1 \in Nat /\ now + GrantTtl \in Nat /\ file \in [Ids -> Record]
      BY LedgerAssumption DEF Inv, TypeOK
    <3> DEFINE rec == [file[id] EXCEPT !.state = "granted", !.grant = grants + 1,
                                       !.grantExpires = now + GrantTtl, !.day = Today]
    <3>2. rec \in Record
      BY <2>1, <3>1 DEF Record
    <3>3. file' = [file EXCEPT ![id] = rec]
      BY <2>2, <3>1
    <3> QED BY <3>1, <3>2, <3>3
  <2>5. now' \in 0 .. MaxTime /\ grants' \in 0 .. MaxGrants
    BY <1>1, <2>2, LedgerAssumption DEF Inv, TypeOK
  <2>6. TypeOK'
    BY <1>1, <2>3, <2>4, <2>5 DEF TypeOK, CountersOK, BudgetsOK
  <2> QED BY <1>2, <2>6, GrantKeeps DEF Inv
<1>3. CASE Drop(id) /\ UNCHANGED grants
  BY <1>1, <1>3, DropStep
<1>4. CASE UNCHANGED <<file, counters, grants>>
  BY <1>1, <1>4, BudgetStep
<1> QED BY <1>2, <1>3, <1>4 DEF Grant

\* revert keeps the invariant, late or not.
LEMMA RevertStep ==
  ASSUME Inv, NEW id \in Ids, NEW grant, Revert(id, grant)
  PROVE  Inv'
<1>1. BudgetsOK' /\ now' = now /\ grants' = grants
  BY SameBudgets DEF Revert
<1>2. CASE file[id].state = "granted" /\ TakeBack(id)
  BY <1>1, <1>2, TakeBackStep
<1>3. CASE UNCHANGED <<file, counters>>
  BY <1>1, <1>3, BudgetStep
<1> QED BY <1>2, <1>3 DEF Revert

\* An upload that starts holds the room its grant held.
LEMMA BeginStep ==
  ASSUME Inv, NEW id \in Ids, NEW a \in Addresses, NEW stream \in Nat, NEW cost \in Nat,
         file[id].state = "granted", Begin(id, a, stream, cost), UNCHANGED <<now, reads, grants>>
  PROVE  Inv'
<1>1. Today \in Days /\ HourOf(now) \in Hours /\ file[id] \in Record
  BY TodayType DEF Inv, TypeOK
<1>2. BudgetsOK'
  <2>1. starts' \in [Addresses -> [Hours -> Nat]]
    BY <1>1, PrunedType DEF Begin
  <2>2. writes' \in [Days -> Nat] /\ reads' \in [Days -> Nat]
    BY <1>1 DEF Begin, Inv, TypeOK
  <2> QED BY <2>1, <2>2 DEF BudgetsOK
<1> DEFINE rec == Uploading(file[id], stream)
<1>3. /\ rec \in Record /\ rec.state = "uploading" /\ rec.from = file[id].from
      /\ rec.to = file[id].to /\ rec.bytes = file[id].bytes /\ rec.day = file[id].day
  <2>1. now \in Nat
    BY DEF Inv, TypeOK
  <2>2. Uploading(file[id], stream) \in Record
    BY <1>1, <2>1 DEF Uploading, Record
  <2> QED BY <1>1, <2>2 DEF Uploading, Record
<1>4. file' = [file EXCEPT ![id] = rec] /\ UNCHANGED counters
  BY DEF Begin
<1> HIDE DEF rec
<1> QED BY <1>2, <1>3, <1>4, RecordStep DEF Holding

\* A start turned away, or whose grant ran out, keeps the invariant.
LEMMA NotBegunStep ==
  ASSUME Inv, NEW id \in Ids, NEW answer, NotBegun(id, answer), UNCHANGED <<now, reads, grants>>,
         answer = "expired" => file[id].state = "granted"
  PROVE  Inv'
<1>1. BudgetsOK'
  BY PrunedType DEF NotBegun, BudgetsOK, Inv, TypeOK
<1>2. CASE answer = "expired" /\ TakeBack(id)
  BY <1>1, <1>2, TakeBackStep
<1>3. CASE UNCHANGED <<file, counters>>
  BY <1>1, <1>3, BudgetStep
<1> QED BY <1>2, <1>3 DEF NotBegun

\* start and startStream keep the invariant.
LEMMA StartStep ==
  ASSUME Inv, NEW id \in Ids, NEW from, NEW grant, NEW a \in Addresses,
         Start(id, from, grant, a) \/ StartStream(id, from, grant, a)
  PROVE  Inv'
<1>1. CASE Start(id, from, grant, a)
  <2>1. /\ StartAnswer(id, from, grant, a) \in {"ok", "expired"} => file[id].state = "granted"
        /\ UNCHANGED <<now, reads, grants>>
    BY <1>1 DEF Start, StartAnswer, GrantUsed
  <2>2. CASE StartAnswer(id, from, grant, a) = "ok"
    BY <1>1, <2>1, <2>2, BeginStep DEF Start
  <2>3. CASE StartAnswer(id, from, grant, a) # "ok"
    BY <1>1, <2>1, <2>3, NotBegunStep DEF Start
  <2> QED BY <2>2, <2>3
<1>2. CASE StartStream(id, from, grant, a)
  <2>1. /\ StartStreamAnswer(id, from, grant, a) \in {"ok", "expired"} => file[id].state = "granted"
        /\ UNCHANGED <<now, reads, grants>>
    BY <1>2 DEF StartStream, StartStreamAnswer, GrantUsed
  <2>2. CASE StartStreamAnswer(id, from, grant, a) = "ok"
    <3>1. file[id].bytes \in Nat
      BY DEF Inv, TypeOK, Record
    <3>2. StreamPartBytes(file[id].bytes) \in Nat
      BY <3>1, PartsType, FilesAssumption
    <3> QED BY <1>2, <2>1, <2>2, <3>2, BeginStep DEF StartStream
  <2>3. CASE StartStreamAnswer(id, from, grant, a) # "ok"
    BY <1>2, <2>1, <2>3, NotBegunStep DEF StartStream
  <2> QED BY <2>2, <2>3
<1> QED BY <1>1, <1>2

\* started keeps the invariant.
LEMMA StartedStep ==
  ASSUME Inv, NEW id \in Ids, NEW upload \in Uploads, Started(id, upload)
  PROVE  Inv'
<1>1. BudgetsOK' /\ UNCHANGED <<now, counters, grants>>
  BY SameBudgets DEF Started
<1>2. CASE file[id].state = "uploading"
  <2> DEFINE rec == [file[id] EXCEPT !.upload = upload]
  <2>1. file[id] \in Record /\ file' = [file EXCEPT ![id] = rec]
    BY <1>2 DEF Started, Inv, TypeOK
  <2>2. /\ rec \in Record /\ rec.state = file[id].state /\ rec.from = file[id].from
        /\ rec.to = file[id].to /\ rec.bytes = file[id].bytes /\ rec.day = file[id].day
    BY <2>1 DEF Record
  <2> HIDE DEF rec
  <2> QED BY <1>1, <2>1, <2>2, RecordStep
<1>3. CASE file[id].state # "uploading"
  BY <1>1, <1>3, BudgetStep DEF Started
<1> QED BY <1>2, <1>3

\* part keeps the invariant: counted, or ending the upload.
LEMMA PartStep ==
  ASSUME Inv, NEW id \in Ids, NEW from, NEW n, NEW length, Part(id, from, n, length)
  PROVE  Inv'
<1> DEFINE answer == PartAnswer(id, from, n, length)
<1>1. UNCHANGED <<now, reads, starts, grants>> /\ Today \in Days
  BY TodayType DEF Part, Inv, TypeOK
<1>2. BudgetsOK'
  BY <1>1 DEF Part, BudgetsOK, Inv, TypeOK
<1>3. CASE answer = "ok"
  <2> DEFINE rec == [file[id] EXCEPT !.tries = @ + 1, !.touched = now]
  <2>1. file[id] \in Record /\ file' = [file EXCEPT ![id] = rec] /\ UNCHANGED counters
    BY <1>3 DEF Part, Inv, TypeOK
  <2>2. now \in Nat /\ file[id].tries + 1 \in Nat
    BY <2>1 DEF Inv, TypeOK, Record
  <2>3. /\ rec \in Record /\ rec.state = file[id].state /\ rec.from = file[id].from
        /\ rec.to = file[id].to /\ rec.bytes = file[id].bytes /\ rec.day = file[id].day
    BY <2>1, <2>2 DEF Record
  <2> HIDE DEF rec
  <2> QED BY <1>1, <1>2, <2>1, <2>3, RecordStep
<1>4. CASE answer # "ok" /\ Drop(id)
  BY <1>1, <1>2, <1>4, DropStep
<1>5. CASE answer # "ok" /\ UNCHANGED <<file, counters>>
  BY <1>1, <1>2, <1>5, BudgetStep
<1> QED BY <1>3, <1>4, <1>5 DEF Part

\* partDone keeps the invariant.
LEMMA PartDoneStep ==
  ASSUME Inv, NEW id \in Ids, NEW n \in Nat, PartDone(id, n)
  PROVE  Inv'
<1>1. BudgetsOK' /\ UNCHANGED <<now, counters, grants>>
  BY SameBudgets DEF PartDone
<1>2. CASE file[id].state = "uploading"
  <2> DEFINE rec == [file[id] EXCEPT !.parts = @ \cup {n}, !.touched = now]
  <2>1. file[id] \in Record /\ file' = [file EXCEPT ![id] = rec]
    BY <1>2 DEF PartDone, Inv, TypeOK
  <2>2. now \in Nat /\ file[id].parts \cup {n} \in SUBSET Nat
    BY <2>1 DEF Inv, TypeOK, Record
  <2>3. /\ rec \in Record /\ rec.state = file[id].state /\ rec.from = file[id].from
        /\ rec.to = file[id].to /\ rec.bytes = file[id].bytes /\ rec.day = file[id].day
    BY <2>1, <2>2 DEF Record
  <2> HIDE DEF rec
  <2> QED BY <1>1, <2>1, <2>3, RecordStep
<1>3. CASE file[id].state # "uploading"
  BY <1>1, <1>3, BudgetStep DEF PartDone
<1> QED BY <1>2, <1>3

\* stored keeps the invariant: the file waits, or goes as already read.
LEMMA StoredStep ==
  ASSUME Inv, NEW id \in Ids, Stored(id)
  PROVE  Inv'
<1>1. BudgetsOK' /\ UNCHANGED <<now, grants>>
  BY SameBudgets DEF Stored
<1>2. CASE Drop(id)
  BY <1>1, <1>2, DropStep
<1>3. CASE StoredAnswer(id) = "stored"
  <2> DEFINE rec == [file[id] EXCEPT !.state = "stored", !.expires = now + StoredTtl,
                                     !.upload = NoUpload, !.tries = 0,
                                     !.parts = IF file[id].stream > 0 THEN @ ELSE {}]
  <2>1. /\ file[id] \in Record /\ file' = [file EXCEPT ![id] = rec] /\ UNCHANGED counters
        /\ file[id].state = "uploading"
    BY <1>3 DEF Stored, StoredAnswer, Inv, TypeOK
  <2>2. now + StoredTtl \in Nat
    BY LedgerAssumption DEF Inv, TypeOK
  <2>3. /\ rec \in Record /\ rec.state = "stored" /\ rec.from = file[id].from
        /\ rec.to = file[id].to /\ rec.bytes = file[id].bytes /\ rec.day = file[id].day
    BY <2>1, <2>2 DEF Record
  <2> HIDE DEF rec
  <2> QED BY <1>1, <2>1, <2>3, RecordStep DEF Holding
<1>4. CASE UNCHANGED <<file, counters>>
  BY <1>1, <1>4, BudgetStep
<1> QED BY <1>2, <1>3, <1>4 DEF Stored

\* A read, counted or of an expired file that goes, keeps the invariant.
LEMMA ReadStep ==
  ASSUME Inv, NEW id \in Ids, NEW answer, NEW cost \in Nat, Read(id, answer, cost)
  PROVE  Inv'
<1>1. UNCHANGED <<now, grants>> /\ BudgetsOK'
  BY TodayType DEF Read, BudgetsOK, Inv, TypeOK
<1>2. CASE Drop(id)
  BY <1>1, <1>2, DropStep
<1>3. CASE UNCHANGED <<file, counters>>
  BY <1>1, <1>3, BudgetStep
<1> QED BY <1>2, <1>3 DEF Read

\* readable and partReadable are such reads.
LEMMA ReadableStep ==
  ASSUME Inv, NEW id \in Ids, NEW name, Readable(id, name)
  PROVE  Inv'
<1>1. file[id].bytes \in Nat /\ file[id].stream \in Nat
  BY DEF Inv, TypeOK, Record
<1>2. (IF file[id].stream > 0 THEN PartCount(file[id].bytes, file[id].stream) ELSE 1) \in Nat
  BY <1>1, PartsType
<1> QED BY <1>2, ReadStep DEF Readable

\* partRead keeps the invariant: the last read takes the file away.
LEMMA PartReadStep ==
  ASSUME Inv, NEW id \in Ids, NEW n \in Nat, PartRead(id, n)
  PROVE  Inv'
<1>1. BudgetsOK' /\ UNCHANGED <<now, grants>>
  BY SameBudgets DEF PartRead
<1>2. CASE Drop(id)
  BY <1>1, <1>2, DropStep
<1>3. CASE ~LastRead(id, n) /\ file[id].stream > 0
  <2> DEFINE rec == [file[id] EXCEPT !.read = @ \cup {n}]
  <2>1. file[id] \in Record /\ UNCHANGED counters
    BY <1>3 DEF PartRead, Inv, TypeOK
  <2>2. file' = [file EXCEPT ![id] = rec]
    BY <1>3 DEF PartRead, Inv, TypeOK
  <2>3. /\ rec \in Record /\ rec.state = file[id].state /\ rec.from = file[id].from
        /\ rec.to = file[id].to /\ rec.bytes = file[id].bytes /\ rec.day = file[id].day
    BY <2>1 DEF Record
  <2> HIDE DEF rec
  <2> QED BY <1>1, <2>1, <2>2, <2>3, RecordStep
<1>4. CASE UNCHANGED <<file, counters>>
  BY <1>1, <1>4, BudgetStep
<1> QED BY <1>2, <1>3, <1>4 DEF PartRead

\* The hourly sweep keeps the invariant.
LEMMA SweepStep ==
  ASSUME Inv, Sweep
  PROVE  Inv'
<1>1. Swept \in SUBSET Ids /\ Unused \in SUBSET Held /\ now' = now /\ grants' = grants
  BY DEF Sweep, Swept, Unused, Held, Holding
<1>2. Release(Swept \cup Unused) /\ Swept \cup Unused \in SUBSET Ids
  BY <1>1 DEF Sweep, Held
<1>3. \A n \in Names, d \in Days : DayWithout(Unused)[n][d] \in Nat
  BY <1>1, WithoutLess
<1>4. day' \in [Names -> [Days -> Nat]]
  BY <1>3 DEF Sweep, FromToday
<1>5. CountersOK'
  BY <1>1, <1>2, <1>4, ReleaseType, OffersType DEF CountersOK, Sweep
<1>6. BudgetsOK'
  BY PrunedType DEF Sweep, FromToday, BudgetsOK, Inv, TypeOK
<1>7. file' \in [Ids -> Record]
  <2>1. \A id \in Ids : Offered(file[id]) \in Record /\ file[id] \in Record /\ Blank \in Record
    BY OfferedType, BlankType DEF Inv, TypeOK
  <2> QED BY <2>1 DEF Sweep
<1>8. now' \in 0 .. MaxTime /\ grants' \in 0 .. MaxGrants
  BY <1>1 DEF Inv, TypeOK
<1>9. TypeOK'
  BY <1>5, <1>6, <1>7, <1>8 DEF TypeOK, CountersOK, BudgetsOK
<1> QED BY <1>9, SweepKeeps DEF Inv

\* Time going by keeps the invariant.
LEMMA TickStep ==
  ASSUME Inv, Tick
  PROVE  Inv'
<1>1. TypeOK'
  BY LedgerAssumption DEF Inv, TypeOK, Tick, counters, budgets, Days, Hours
<1> QED BY <1>1, TickKeeps DEF Inv

\* An empty ledger has the invariant.
LEMMA InitInv == Init => Inv
<1> SUFFICES ASSUME Init PROVE Inv
  OBVIOUS
<1>1. Today \in Days /\ HourOf(now) \in Hours /\ Days \subseteq Nat
  <2>1. now \in 0 .. MaxTime
    BY LedgerAssumption DEF Init
  <2> QED BY <2>1, TodayType
<1>2. TypeOK
  BY BlankType, LedgerAssumption DEF Init, TypeOK, NoneYet
<1>3. \A n : Held = {} /\ HeldTo(n) = {} /\ HeldFrom(n) = {} /\ HeldToday(n) = {} /\ OutFrom(n) = {}
  BY DEF Init, Held, Holding, Blank, HeldTo, HeldFrom, HeldToday, OutFrom, Out
<1>4. ByteSum({}, Length) = 0 /\ Cardinality({}) = 0
  BY FS_EmptySet DEF ByteSum, BytesOf
<1>5. Known
  BY <1>3 DEF Init, Known, Out, Blank
<1>6. RoomAccounted /\ OffersCounted /\ DayCharged
  <2>1. \A n \in Names : pendTo[n] = 0 /\ pendFrom[n] = 0 /\ offers[n] = 0 /\ day[n][Today] = 0
    BY <1>1 DEF Init, NoneYet
  <2>2. total = 0
    BY DEF Init
  <2>3. ASSUME NEW n \in Names
        PROVE  /\ ByteSum(HeldTo(n), Length) = 0 /\ ByteSum(HeldFrom(n), Length) = 0
               /\ ByteSum(HeldToday(n), Length) = 0 /\ ByteSum(Held, Length) = 0
               /\ Cardinality(OutFrom(n)) = 0
    BY <1>3, <1>4, Zenon
  <2>4. ByteSum(Held, Length) = 0
    BY <1>3, <1>4, Zenon
  <2>5. 0 <= 0
    OBVIOUS
  <2> QED BY <2>1, <2>2, <2>3, <2>4, <2>5 DEF RoomAccounted, OffersCounted, DayCharged
<1>7. CapsCounted
  BY LedgerAssumption DEF Init, NoneYet, CapsCounted
<1> QED BY <1>2, <1>5, <1>6, <1>7 DEF Inv, Accounts

-----------------------------------------------------------------------------
(* The theorems *)

\* Every call the worker makes of the ledger keeps the invariant.
LEMMA RequestStep ==
  ASSUME Inv, NEW id \in Ids, Request(id)
  PROVE  Inv'
<1>1. file[id].bytes \in Nat /\ Size(file[id]) \in Nat \ {0}
  BY FilesAssumption DEF Inv, TypeOK, Record, Size
<1>2. Parts(file[id]) \subseteq Nat
  BY <1>1, PartsType DEF Parts
<1>3. ASSUME NEW from \in Names, NEW to \in Names, NEW bytes \in Lengths, Offer(id, from, to, bytes)
      PROVE  Inv'
  BY <1>3, OfferStep
<1>4. ASSUME NEW name \in Names \cup {Nobody}, Remove(id, name) PROVE Inv'
  BY <1>4, RemoveStep
<1>5. ASSUME NEW name \in Names, Grant(id, name) PROVE Inv'
  BY <1>5, GrantStep
<1>6. ASSUME NEW name \in Names, Readable(id, name) PROVE Inv'
  BY <1>6, ReadableStep
<1>7. ASSUME NEW grant \in 1 .. MaxGrants, Revert(id, grant) PROVE Inv'
  BY <1>7, RevertStep
<1>8. ASSUME NEW from \in Names, NEW grant \in 1 .. MaxGrants, NEW a \in Addresses,
             Start(id, from, grant, a) \/ StartStream(id, from, grant, a)
      PROVE  Inv'
  BY <1>8, StartStep
<1>9. ASSUME NEW upload \in Uploads, Started(id, upload) PROVE Inv'
  BY <1>9, StartedStep
<1>10. ASSUME Stored(id) PROVE Inv'
  BY <1>10, StoredStep
<1>11. ASSUME NEW n \in Parts(file[id]), PartDone(id, n) PROVE Inv'
  BY <1>2, <1>11, PartDoneStep
<1>12. ASSUME NEW n \in Parts(file[id]), PartRead(id, n) PROVE Inv'
  BY <1>2, <1>12, PartReadStep
<1>13. ASSUME NEW name, NEW n, NEW length, Part(id, name, n, length) PROVE Inv'
  BY <1>13, PartStep
<1>14. ASSUME NEW name, NEW n, PartReadable(id, name, n) PROVE Inv'
  BY <1>14, ReadStep DEF PartReadable
<1> QED
  BY <1>3, <1>4, <1>5, <1>6, <1>7, <1>8, <1>9, <1>10, <1>11, <1>12, <1>13, <1>14 DEF Request

\* A step that changes nothing keeps the invariant.
LEMMA StutterStep ==
  ASSUME Inv, UNCHANGED vars
  PROVE  Inv'
<1>1. UNCHANGED <<now, file, counters, grants>> /\ UNCHANGED budgets
  BY DEF vars
<1> QED BY <1>1, SameBudgets, BudgetStep

\* The invariant is inductive: it holds of the empty ledger, and the clock, the sweep
\* and every call the worker can make keep it.
THEOREM InvHolds == Spec => []Inv
<1>1. Init => Inv
  BY InitInv
<1>2. Inv /\ [Next]_vars => Inv'
  BY TickStep, SweepStep, RequestStep, StutterStep DEF Next
<1> QED BY <1>1, <1>2, PTL DEF Spec

\* Every record and counter of the ledger keeps its type.
THEOREM TypeCorrect == Spec => []TypeOK
<1>1. Inv => TypeOK
  BY DEF Inv
<1> QED BY <1>1, InvHolds, PTL

\* The room the caps are checked against is, after every call in any order, exactly
\* the bytes of the files that hold room.
THEOREM RoomIsAccounted == Spec => []RoomAccounted
<1>1. Inv => RoomAccounted
  BY DEF Inv, Accounts
<1> QED BY <1>1, InvHolds, PTL

\* A sender's count of offers is the number of its files.
THEOREM OffersAreCounted == Spec => []OffersCounted
<1>1. Inv => OffersCounted
  BY DEF Inv, Accounts
<1> QED BY <1>1, InvHolds, PTL

\* What a sender's grants of the day hold is charged to that day.
THEOREM DayIsCharged == Spec => []DayCharged
<1>1. Inv => DayCharged
  BY DEF Inv, Accounts
<1> QED BY <1>1, InvHolds, PTL

\* The hard caps hold of the files themselves: the accounts make a cap on a counter a
\* cap on the bytes.
THEOREM CapsAreHard == Spec => []CapsHold
<1>1. Inv => CapsHold
  <2> SUFFICES ASSUME Inv PROVE CapsHold
    OBVIOUS
  <2>1. TypeOK /\ Today \in Days /\ Length \in [Ids -> Nat]
    BY TodayType, LengthType DEF Inv, TypeOK
  <2>2. ASSUME NEW n \in Names
        PROVE  /\ ByteSum(HeldTo(n), Length) <= RecipientPending
               /\ ByteSum(HeldFrom(n), Length) <= SenderPending
               /\ Cardinality(OutFrom(n)) <= SenderOffers
    BY DEF Inv, Accounts, RoomAccounted, OffersCounted, CapsCounted
  <2>3. ASSUME NEW n \in Names PROVE ByteSum(HeldToday(n), Length) <= SenderDaily
    <3>1. ByteSum(HeldToday(n), Length) <= day[n][Today] /\ day[n][Today] <= SenderDaily
      BY <2>1 DEF Inv, Accounts, DayCharged, CapsCounted
    <3>2. HeldToday(n) \in SUBSET Ids
      BY DEF HeldToday, HeldFrom, Held
    <3>3. ByteSum(HeldToday(n), Length) \in Nat /\ day[n][Today] \in Nat /\ SenderDaily \in Nat
      BY <2>1, <3>2, BytesFinite, LedgerAssumption DEF TypeOK
    <3> QED BY <3>1, <3>3
  <2>4. ByteSum(Held, Length) <= TotalPending
    BY DEF Inv, Accounts, RoomAccounted, CapsCounted
  <2> QED BY <2>2, <2>3, <2>4 DEF CapsHold
<1> QED BY <1>1, InvHolds, PTL

-----------------------------------------------------------------------------
(* What the calls of the ledger do to the records *)

\* Its upload goes on.
Goes(id) == file[id].state = "uploading"

\* Records stay, go, or are offers again.
Lapses ==
  \A x \in Ids : \/ file'[x] = file[x]
                 \/ file'[x] = Blank
                 \/ file[x].state = "granted" /\ file'[x] = Offered(file[x])

\* One record becomes another.
Becomes(id, rec) == file'[id] = rec /\ \A x \in Ids \ {id} : file'[x] = file[x]

\* drop: the record is gone.
LEMMA DropMoves ==
  ASSUME Inv, NEW id \in Ids, Drop(id)
  PROVE  Becomes(id, Blank)
BY DEF Drop, Inv, TypeOK, Becomes

\* takeBack: a grant becomes the offer it was.
LEMMA TakeBackMoves ==
  ASSUME Inv, NEW id \in Ids, TakeBack(id), file[id].state = "granted"
  PROVE  Becomes(id, Offered(file[id])) /\ Lapses
BY DEF TakeBack, Inv, TypeOK, Becomes, Lapses

\* A file that is not there is one whose record is blank.
LEMMA OfferMoves ==
  ASSUME Inv, NEW id \in Ids, NEW from, NEW to, NEW bytes, Offer(id, from, to, bytes)
  PROVE  /\ grants' = grants
         /\ OfferAnswer(id, from, bytes) # "ok" => file' = file
         /\ OfferAnswer(id, from, bytes) = "ok" =>
              /\ file[id].state = "none"
              /\ Becomes(id, [Blank EXCEPT !.state = "offered", !.from = from, !.to = to,
                                           !.bytes = bytes, !.expires = now + OfferTtl])
<1>1. OfferAnswer(id, from, bytes) = "ok" => file[id].state = "none"
  BY DEF OfferAnswer, Out
<1> QED BY <1>1 DEF Offer, Inv, TypeOK, Becomes

\* remove: the one record goes, if its caller may have it gone.
LEMMA RemoveMoves ==
  ASSUME Inv, NEW id \in Ids, NEW name, Remove(id, name)
  PROVE  /\ Lapses /\ grants' = grants
         /\ \A x \in Ids \ {id} : file'[x] = file[x]
         /\ RemoveAnswer(id, name) = "removed" => Out(id) /\ file'[id] = Blank
         /\ RemoveAnswer(id, name) # "removed" => file' = file
         /\ name = Nobody => file'[id].state = "none"
<1>1. /\ RemoveAnswer(id, name) \in {"none", "removed"}
      /\ RemoveAnswer(id, name) = "removed" => Out(id)
      /\ name = Nobody /\ RemoveAnswer(id, name) = "none" => file[id].state = "none"
  BY DEF RemoveAnswer, Out
<1>2. CASE RemoveAnswer(id, name) = "removed"
  <2>1. Becomes(id, Blank)
    BY <1>2, DropMoves DEF Remove
  <2> QED BY <1>1, <1>2, <2>1 DEF Remove, Becomes, Lapses, Blank
<1>3. CASE RemoveAnswer(id, name) = "none"
  BY <1>1, <1>3 DEF Remove, Lapses
<1> QED BY <1>1, <1>2, <1>3

\* grant: an offer becomes a grant of a new number, or expires, or nothing changes.
LEMMA GrantMoves ==
  ASSUME Inv, NEW id \in Ids, NEW name \in Names, Grant(id, name)
  PROVE  /\ GrantAnswer(id, name) # "ok" =>
              /\ Lapses /\ grants' = grants
              /\ \A x \in Ids : file'[x] # file[x] => x = id /\ file[id].state = "offered"
         /\ GrantAnswer(id, name) = "ok" =>
              /\ grants' = grants + 1 /\ file[id].state = "offered"
              /\ Becomes(id, [file[id] EXCEPT !.state = "granted", !.grant = grants + 1,
                                              !.grantExpires = now + GrantTtl, !.day = Today])
<1>1. GrantAnswer(id, name) \in {"ok", "expired"} => file[id].state = "offered"
  BY DEF GrantAnswer
<1>2. CASE GrantAnswer(id, name) = "ok"
  BY <1>1, <1>2 DEF Grant, Becomes, Inv, TypeOK
<1>3. CASE GrantAnswer(id, name) = "expired"
  <2>1. Becomes(id, Blank)
    BY <1>3, DropMoves DEF Grant
  <2> QED BY <1>1, <1>3, <2>1 DEF Grant, Becomes, Lapses
<1>4. CASE GrantAnswer(id, name) \notin {"ok", "expired"}
  BY <1>4 DEF Grant, Lapses
<1> QED BY <1>2, <1>3, <1>4

\* revert: the grant it names becomes an offer again, and no other.
LEMMA RevertMoves ==
  ASSUME Inv, NEW id \in Ids, NEW grant, Revert(id, grant)
  PROVE  /\ Lapses /\ grants' = grants
         /\ \A x \in Ids : file'[x] # file[x] =>
              x = id /\ file[id].state = "granted" /\ file[id].grant = grant
              /\ file'[id] = Offered(file[id])
<1>1. CASE file[id].state = "granted" /\ file[id].grant = grant /\ TakeBack(id)
  <2>1. Becomes(id, Offered(file[id]))
    BY <1>1, TakeBackMoves
  <2> QED BY <1>1, <2>1 DEF Revert, Becomes, Lapses
<1>2. CASE UNCHANGED file
  BY <1>2 DEF Revert, Lapses
<1> QED BY <1>1, <1>2 DEF Revert, counters

\* begin: the record is uploading, and nothing of it is in yet.
LEMMA BeginMoves ==
  ASSUME Inv, NEW id \in Ids, NEW a, NEW stream, NEW cost, Begin(id, a, stream, cost)
  PROVE  Becomes(id, Uploading(file[id], stream))
BY DEF Begin, Becomes, Inv, TypeOK

\* A start that is refused drops at most what may not start.
LEMMA NotBegunMoves ==
  ASSUME Inv, NEW id \in Ids, NEW answer, NotBegun(id, answer),
         answer = "expired" => file[id].state = "granted" /\ file[id].grantExpires <= now
  PROVE  /\ Lapses
         /\ \A x \in Ids : file'[x] # file[x] =>
              x = id /\ file[id].state = "granted" /\ file[id].grantExpires <= now
<1>1. CASE answer = "expired" /\ TakeBack(id)
  <2>1. Becomes(id, Offered(file[id]))
    BY <1>1, TakeBackMoves
  <2> QED BY <1>1, <2>1 DEF Becomes, Lapses
<1>2. CASE UNCHANGED file
  BY <1>2 DEF Lapses
<1> QED BY <1>1, <1>2 DEF NotBegun

\* start: a grant becomes a multipart upload, or the caller is refused.
LEMMA StartMoves ==
  ASSUME Inv, NEW id \in Ids, NEW from, NEW grant, NEW a, Start(id, from, grant, a)
  PROVE  /\ grants' = grants
         /\ StartAnswer(id, from, grant, a) # "ok" =>
              /\ Lapses
              /\ \A x \in Ids : file'[x] # file[x] =>
                   x = id /\ file[id].state = "granted" /\ file[id].grantExpires <= now
         /\ StartAnswer(id, from, grant, a) = "ok" =>
              file[id].state = "granted" /\ Becomes(id, Uploading(file[id], 0))
<1>1. /\ StartAnswer(id, from, grant, a) = "ok" => file[id].state = "granted"
      /\ StartAnswer(id, from, grant, a) = "expired" =>
           file[id].state = "granted" /\ file[id].grantExpires <= now
  BY DEF StartAnswer, GrantUsed
<1> QED BY <1>1, BeginMoves, NotBegunMoves DEF Start

\* startStream: a grant becomes a streamed upload, or one goes on, or the caller is refused.
LEMMA StartStreamMoves ==
  ASSUME Inv, NEW id \in Ids, NEW from, NEW grant, NEW a, StartStream(id, from, grant, a)
  PROVE  /\ grants' = grants
         /\ StartStreamAnswer(id, from, grant, a) # "ok" =>
              /\ Lapses
              /\ \A x \in Ids : file'[x] # file[x] =>
                   x = id /\ file[id].state = "granted" /\ file[id].grantExpires <= now
         /\ StartStreamAnswer(id, from, grant, a) = "ok" =>
              /\ file[id].state = "granted"
              /\ Becomes(id, Uploading(file[id], StreamPartBytes(file[id].bytes)))
<1>1. /\ StartStreamAnswer(id, from, grant, a) = "ok" => file[id].state = "granted"
      /\ StartStreamAnswer(id, from, grant, a) = "expired" =>
           file[id].state = "granted" /\ file[id].grantExpires <= now
  BY DEF StartStreamAnswer, GrantUsed
<1> QED BY <1>1, BeginMoves, NotBegunMoves DEF StartStream

\* started: the multipart upload is kept in a record that still waits for it.
LEMMA StartedMoves ==
  ASSUME Inv, NEW id \in Ids, NEW upload, Started(id, upload)
  PROVE  /\ grants' = grants
         /\ file[id].state = "uploading" => Becomes(id, [file[id] EXCEPT !.upload = upload])
         /\ file[id].state # "uploading" => file' = file
BY DEF Started, Becomes, Inv, TypeOK

\* part: an attempt is counted, or the file is over, or nothing changes.
LEMMA PartMoves ==
  ASSUME Inv, NEW id \in Ids, NEW from, NEW n, NEW length, Part(id, from, n, length)
  PROVE  LET answer == PartAnswer(id, from, n, length) IN
         /\ grants' = grants
         /\ answer = "ok" =>
              /\ Goes(id) /\ Open(file[id]) /\ n \in Parts(file[id])
              /\ Becomes(id, [file[id] EXCEPT !.tries = @ + 1, !.touched = now])
         /\ answer # "ok" => Lapses /\ \A x \in Ids \ {id} : file'[x] = file[x]
         /\ answer \in {"over", "failed"} => Goes(id) /\ file'[id] = Blank
         /\ answer \in {"gone", "relay-full"} => file' = file
<1> DEFINE answer == PartAnswer(id, from, n, length)
<1>1. /\ answer \in {"gone", "over", "failed", "relay-full", "ok"}
      /\ answer # "gone" => Goes(id) /\ Open(file[id])
      /\ answer = "ok" => n \in Parts(file[id])
  BY DEF PartAnswer, Goes
<1>2. CASE answer = "ok"
  BY <1>1, <1>2 DEF Part, Becomes, Inv, TypeOK
<1>3. CASE answer \in {"over", "failed"}
  <2>1. Becomes(id, Blank)
    BY <1>3, DropMoves DEF Part
  <2> QED BY <1>1, <1>3, <2>1 DEF Part, Becomes, Lapses
<1>4. CASE answer \in {"gone", "relay-full"}
  BY <1>4 DEF Part, Lapses
<1> QED BY <1>1, <1>2, <1>3, <1>4

\* partDone: the part is counted as in, in a record that is being uploaded.
LEMMA PartDoneMoves ==
  ASSUME Inv, NEW id \in Ids, NEW n, PartDone(id, n)
  PROVE  /\ grants' = grants
         /\ Goes(id) =>
              Becomes(id, [file[id] EXCEPT !.parts = @ \cup {n}, !.touched = now])
         /\ ~Goes(id) => file' = file
BY DEF PartDone, Goes, Becomes, Inv, TypeOK

\* stored: a file being uploaded is stored, or has been read already and goes.
LEMMA StoredMoves ==
  ASSUME Inv, NEW id \in Ids, Stored(id)
  PROVE  /\ grants' = grants
         /\ StoredAnswer(id) \in {"none", "read", "stored"}
         /\ StoredAnswer(id) = "none" => ~Goes(id) /\ file' = file
         /\ StoredAnswer(id) = "read" => Goes(id) /\ file[id].stream > 0 /\ Becomes(id, Blank)
         /\ StoredAnswer(id) = "stored" =>
              /\ Goes(id)
              /\ Becomes(id, [file[id] EXCEPT !.state = "stored", !.expires = now + StoredTtl,
                                !.upload = NoUpload, !.tries = 0,
                                !.parts = IF file[id].stream > 0 THEN @ ELSE {}])
<1>1. /\ StoredAnswer(id) \in {"none", "read", "stored"}
      /\ StoredAnswer(id) = "none" => ~Goes(id)
      /\ StoredAnswer(id) = "read" => Goes(id) /\ file[id].stream > 0
      /\ StoredAnswer(id) = "stored" => Goes(id)
  BY DEF StoredAnswer, Goes
<1>2. CASE StoredAnswer(id) = "read"
  BY <1>1, <1>2, DropMoves DEF Stored
<1>3. CASE StoredAnswer(id) = "stored"
  BY <1>1, <1>3 DEF Stored, Becomes, Inv, TypeOK
<1>4. CASE StoredAnswer(id) = "none"
  BY <1>1, <1>4 DEF Stored
<1> QED BY <1>1, <1>2, <1>3, <1>4

\* readable, partReadable: nothing but an expired record goes.
LEMMA ReadMoves ==
  ASSUME Inv, NEW id \in Ids, NEW answer, NEW cost, Read(id, answer, cost)
  PROVE  /\ grants' = grants
         /\ answer = "expired" => Becomes(id, Blank)
         /\ answer # "expired" => file' = file
<1>1. CASE answer = "expired"
  BY <1>1, DropMoves DEF Read
<1>2. CASE answer # "expired"
  BY <1>2 DEF Read
<1> QED BY <1>1, <1>2 DEF Read

\* partRead: the part is counted as read, and with the last of them the file goes.
LEMMA PartReadMoves ==
  ASSUME Inv, NEW id \in Ids, NEW n, PartRead(id, n)
  PROVE  /\ grants' = grants
         /\ LastRead(id, n) => file[id].stream > 0 /\ file[id].state = "stored" /\ Becomes(id, Blank)
         /\ ~LastRead(id, n) /\ file[id].stream > 0 =>
              Becomes(id, [file[id] EXCEPT !.read = @ \cup {n}])
         /\ ~LastRead(id, n) /\ ~(file[id].stream > 0) => file' = file
<1>1. CASE LastRead(id, n)
  <2>1. Becomes(id, Blank)
    BY <1>1, DropMoves DEF PartRead
  <2>2. file[id].stream > 0 /\ file[id].state = "stored"
    BY <1>1 DEF LastRead, Inv, TypeOK, Record
  <2> QED BY <1>1, <2>1, <2>2 DEF PartRead
<1>2. CASE ~LastRead(id, n)
  BY <1>2 DEF PartRead, Becomes, Inv, TypeOK
<1> QED BY <1>1, <1>2

\* sweep: what has expired goes, and grants that ran out are offers again.
LEMMA SweepMoves ==
  ASSUME Inv, Sweep
  PROVE  /\ Lapses /\ grants' = grants
         /\ \A x \in Ids : file'[x] # file[x] =>
              \/ x \in Swept /\ file'[x] = Blank
              \/ file[x].state = "granted" /\ file[x].grantExpires <= now
                 /\ file'[x] = Offered(file[x])
         /\ \A x \in Swept : file'[x] = Blank /\ Out(x) /\ file[x].state # "granted"
BY DEF Sweep, Swept, Unused, Lapses, Stale, Out

-----------------------------------------------------------------------------
(* The stages of a file under a cron that is on time *)

\* How long each stage has gone on, and may still go on, at each sweep.
StagedInTime(id) ==
  LET rec == file[id] IN
  /\ rec.state = "offered" => swept < rec.expires + GrantTtl + Hour
  /\ rec.state = "granted" =>
       /\ since[id] < rec.expires /\ rec.grantExpires = since[id] + GrantTtl
       /\ swept <= rec.grantExpires
  /\ rec.state = "uploading" =>
       rec.started <= since[id] + GrantTtl /\ swept <= rec.started + UploadMax
  /\ rec.state = "stored" =>
       /\ rec.expires <= since[id] + GrantTtl + UploadMax + Hour + StoredTtl
       /\ swept < rec.expires

OnTime ==
  /\ swept \in Nat /\ since \in [Ids -> Nat]
  /\ swept <= now /\ now <= swept + Hour

CronInv == Inv /\ OnTime /\ \A id \in Ids : StagedInTime(id)

\* The moves of one file from stage to stage that a call of the ledger may make.
SameStage(id) ==
  /\ file'[id].state = file[id].state /\ file'[id].expires = file[id].expires
  /\ file'[id].grantExpires = file[id].grantExpires /\ file'[id].started = file[id].started

NextStage(id) ==
  \/ /\ file[id].state = "none" /\ file'[id].state = "offered"
     /\ file'[id].expires = now + OfferTtl
  \/ /\ file[id].state = "offered" /\ file[id].expires > now
     /\ file'[id].state = "granted" /\ file'[id].expires = file[id].expires
     /\ file'[id].grantExpires = now + GrantTtl
  \/ /\ file[id].state = "granted" /\ file[id].grantExpires > now
     /\ file'[id].state = "uploading" /\ file'[id].started = now
  \/ /\ file[id].state = "uploading"
     /\ file'[id].state = "stored" /\ file'[id].expires = now + StoredTtl

StageEnds(id) ==
  \/ file'[id].state = "none"
  \/ /\ file[id].state = "granted" /\ file'[id].state = "offered"
     /\ file'[id].expires = file[id].expires

StageMoves == \A x \in Ids : SameStage(x) \/ NextStage(x) \/ StageEnds(x)

\* Records that stay, go or lapse move so.
LEMMA LapsesMove ==
  ASSUME Inv, Lapses
  PROVE  StageMoves
<1> SUFFICES ASSUME NEW x \in Ids PROVE SameStage(x) \/ StageEnds(x)
  BY DEF StageMoves
<1>1. CASE file'[x] = file[x]
  BY <1>1 DEF SameStage
<1>2. CASE file'[x] = Blank
  BY <1>2 DEF StageEnds, Blank
<1>3. CASE file[x].state = "granted" /\ file'[x] = Offered(file[x])
  <2>1. file[x] \in Record
    BY DEF Inv, TypeOK
  <2>2. Offered(file[x]).state = "offered" /\ Offered(file[x]).expires = file[x].expires
    BY <2>1 DEF Offered, Record
  <2> QED BY <1>3, <2>2 DEF StageEnds
<1> QED BY <1>1, <1>2, <1>3 DEF Lapses

\* A call that moves only the one record moves the files so.
LEMMA OneMoves ==
  ASSUME NEW id \in Ids, NEW rec, Becomes(id, rec),
         SameStage(id) \/ NextStage(id) \/ StageEnds(id)
  PROVE  StageMoves
BY DEF StageMoves, SameStage, Becomes

\* offer: a file that is not out is offered for its time.
LEMMA OfferStages ==
  ASSUME Inv, NEW id \in Ids, NEW from, NEW to, NEW bytes, Offer(id, from, to, bytes)
  PROVE  StageMoves
<1>1. CASE OfferAnswer(id, from, bytes) # "ok"
  BY <1>1, OfferMoves, LapsesMove DEF Lapses
<1>2. CASE OfferAnswer(id, from, bytes) = "ok"
  <2> DEFINE rec == [Blank EXCEPT !.state = "offered", !.from = from, !.to = to,
                                  !.bytes = bytes, !.expires = now + OfferTtl]
  <2>1. file[id].state = "none" /\ Becomes(id, rec)
    BY <1>2, OfferMoves
  <2>2. rec.state = "offered" /\ rec.expires = now + OfferTtl
    BY DEF Blank
  <2> HIDE DEF rec
  <2>3. NextStage(id)
    BY <2>1, <2>2 DEF NextStage, Becomes
  <2> QED BY <2>1, <2>3, OneMoves
<1> QED BY <1>1, <1>2

\* grant: only an offer that still stands.
LEMMA GrantStages ==
  ASSUME Inv, NEW id \in Ids, NEW name \in Names, Grant(id, name)
  PROVE  StageMoves
<1>1. CASE GrantAnswer(id, name) # "ok"
  BY <1>1, GrantMoves, LapsesMove
<1>2. CASE GrantAnswer(id, name) = "ok"
  <2> DEFINE rec == [file[id] EXCEPT !.state = "granted", !.grant = grants + 1,
                                     !.grantExpires = now + GrantTtl, !.day = Today]
  <2>1. file[id].state = "offered" /\ Becomes(id, rec)
    BY <1>2, GrantMoves
  <2>2. file[id] \in Record
    BY DEF Inv, TypeOK
  <2>3. /\ rec.state = "granted" /\ rec.expires = file[id].expires
        /\ rec.grantExpires = now + GrantTtl
    BY <2>2 DEF Record
  <2>4. now \in Nat /\ file[id].expires \in Nat
    BY <2>2, LedgerAssumption DEF Inv, TypeOK, Record
  <2>5. ~(file[id].expires <= now)
    BY <1>2 DEF GrantAnswer
  <2>6. file[id].expires > now
    BY <2>4, <2>5
  <2> HIDE DEF rec
  <2>7. NextStage(id)
    BY <2>1, <2>3, <2>6 DEF NextStage, Becomes
  <2> QED BY <2>1, <2>7, OneMoves
<1> QED BY <1>1, <1>2

\* A grant that is used has not run out, and its upload starts now.
LEMMA BeginStages ==
  ASSUME Inv, NEW id \in Ids, NEW from, NEW grant, NEW stream,
         GrantUsed(id, from, grant) = "ok", Becomes(id, Uploading(file[id], stream))
  PROVE  StageMoves
<1>1. file[id] \in Record /\ now \in Nat /\ file[id].grantExpires \in Nat
  BY LedgerAssumption DEF Inv, TypeOK, Record
<1>2. file[id].state = "granted" /\ ~(file[id].grantExpires <= now)
  BY DEF GrantUsed
<1>3. Uploading(file[id], stream).state = "uploading" /\ Uploading(file[id], stream).started = now
  BY <1>1 DEF Uploading, Record
<1>4. file[id].grantExpires > now
  BY <1>1, <1>2
<1>5. NextStage(id)
  BY <1>2, <1>3, <1>4 DEF NextStage, Becomes
<1> QED BY <1>5, OneMoves

\* start, startStream: a grant is used in its time, or nothing starts.
LEMMA StartStages ==
  ASSUME Inv, NEW id \in Ids, NEW from, NEW grant, NEW a,
         Start(id, from, grant, a) \/ StartStream(id, from, grant, a)
  PROVE  StageMoves
<1>1. CASE Start(id, from, grant, a)
  <2>1. StartAnswer(id, from, grant, a) = "ok" => GrantUsed(id, from, grant) = "ok"
    BY DEF StartAnswer
  <2> QED BY <1>1, <2>1, StartMoves, LapsesMove, BeginStages
<1>2. CASE StartStream(id, from, grant, a)
  <2>1. StartStreamAnswer(id, from, grant, a) = "ok" => GrantUsed(id, from, grant) = "ok"
    BY DEF StartStreamAnswer
  <2> QED BY <1>2, <2>1, StartStreamMoves, LapsesMove, BeginStages
<1> QED BY <1>1, <1>2

\* started: the stage is the same.
LEMMA StartedStages ==
  ASSUME Inv, NEW id \in Ids, NEW upload, Started(id, upload)
  PROVE  StageMoves
<1>1. CASE file[id].state = "uploading"
  <2> DEFINE rec == [file[id] EXCEPT !.upload = upload]
  <2>1. Becomes(id, rec)
    BY <1>1, StartedMoves
  <2>2. file[id] \in Record
    BY DEF Inv, TypeOK
  <2>3. /\ rec.state = file[id].state /\ rec.expires = file[id].expires
        /\ rec.grantExpires = file[id].grantExpires /\ rec.started = file[id].started
    BY <2>2 DEF Record
  <2> HIDE DEF rec
  <2>4. SameStage(id)
    BY <2>1, <2>3 DEF SameStage, Becomes
  <2> QED BY <2>1, <2>4, OneMoves
<1>2. CASE file[id].state # "uploading"
  BY <1>2, StartedMoves, LapsesMove DEF Lapses
<1> QED BY <1>1, <1>2

\* part: a part tried does not move its file, though it was touched.
LEMMA PartStages ==
  ASSUME Inv, NEW id \in Ids, NEW from, NEW n, NEW length, Part(id, from, n, length)
  PROVE  StageMoves
<1>1. LET answer == PartAnswer(id, from, n, length) IN
      /\ grants' = grants
      /\ answer = "ok" =>
           /\ Goes(id) /\ Open(file[id]) /\ n \in Parts(file[id])
           /\ Becomes(id, [file[id] EXCEPT !.tries = @ + 1, !.touched = now])
      /\ answer # "ok" => Lapses /\ \A x \in Ids \ {id} : file'[x] = file[x]
      /\ answer \in {"over", "failed"} => Goes(id) /\ file'[id] = Blank
      /\ answer \in {"gone", "relay-full"} => file' = file
  BY PartMoves
<1>2. CASE PartAnswer(id, from, n, length) = "ok"
  <2> DEFINE rec == [file[id] EXCEPT !.tries = @ + 1, !.touched = now]
  <2>1. Becomes(id, rec)
    BY <1>1, <1>2
  <2>2. file[id] \in Record
    BY DEF Inv, TypeOK
  <2>3. /\ rec.state = file[id].state /\ rec.expires = file[id].expires
        /\ rec.grantExpires = file[id].grantExpires /\ rec.started = file[id].started
    BY <2>2 DEF Record
  <2> HIDE DEF rec
  <2>4. SameStage(id)
    BY <2>1, <2>3 DEF SameStage, Becomes
  <2> QED BY <2>1, <2>4, OneMoves
<1>3. CASE PartAnswer(id, from, n, length) # "ok"
  BY <1>1, <1>3, LapsesMove
<1> QED BY <1>2, <1>3

\* partDone: nor does a part that is in.
LEMMA PartDoneStages ==
  ASSUME Inv, NEW id \in Ids, NEW n, PartDone(id, n)
  PROVE  StageMoves
<1>1. CASE Goes(id)
  <2> DEFINE rec == [file[id] EXCEPT !.parts = @ \cup {n}, !.touched = now]
  <2>1. Becomes(id, rec)
    BY <1>1, PartDoneMoves
  <2>2. file[id] \in Record
    BY DEF Inv, TypeOK
  <2>3. /\ rec.state = file[id].state /\ rec.expires = file[id].expires
        /\ rec.grantExpires = file[id].grantExpires /\ rec.started = file[id].started
    BY <2>2 DEF Record
  <2> HIDE DEF rec
  <2>4. SameStage(id)
    BY <2>1, <2>3 DEF SameStage, Becomes
  <2> QED BY <2>1, <2>4, OneMoves
<1>2. CASE ~Goes(id)
  BY <1>2, PartDoneMoves, LapsesMove DEF Lapses
<1> QED BY <1>1, <1>2

\* stored: what is stored is stored for its time from now on.
LEMMA StoredStages ==
  ASSUME Inv, NEW id \in Ids, Stored(id)
  PROVE  StageMoves
<1>1. CASE StoredAnswer(id) = "stored"
  <2> DEFINE rec == [file[id] EXCEPT !.state = "stored", !.expires = now + StoredTtl,
                       !.upload = NoUpload, !.tries = 0,
                       !.parts = IF file[id].stream > 0 THEN @ ELSE {}]
  <2>1. Goes(id) /\ Becomes(id, rec)
    BY <1>1, StoredMoves
  <2>2. file[id] \in Record
    BY DEF Inv, TypeOK
  <2>3. rec.state = "stored" /\ rec.expires = now + StoredTtl
    BY <2>2 DEF Record
  <2> HIDE DEF rec
  <2>4. NextStage(id)
    BY <2>1, <2>3 DEF NextStage, Becomes, Goes
  <2> QED BY <2>1, <2>4, OneMoves
<1>2. CASE StoredAnswer(id) = "read"
  <2>1. Becomes(id, Blank)
    BY <1>2, StoredMoves
  <2>2. StageEnds(id)
    BY <2>1 DEF StageEnds, Becomes, Blank
  <2> QED BY <2>1, <2>2, OneMoves
<1>3. CASE StoredAnswer(id) = "none"
  BY <1>3, StoredMoves, LapsesMove DEF Lapses
<1> QED BY <1>1, <1>2, <1>3, StoredMoves

\* readable, partReadable: an expired file goes, and nothing else moves.
LEMMA ReadStages ==
  ASSUME Inv, NEW id \in Ids, NEW answer, NEW cost, Read(id, answer, cost)
  PROVE  StageMoves
<1>1. CASE answer = "expired"
  <2>1. Becomes(id, Blank)
    BY <1>1, ReadMoves
  <2>2. StageEnds(id)
    BY <2>1 DEF StageEnds, Becomes, Blank
  <2> QED BY <2>1, <2>2, OneMoves
<1>2. CASE answer # "expired"
  BY <1>2, ReadMoves, LapsesMove DEF Lapses
<1> QED BY <1>1, <1>2

\* partRead: the last part read ends it, any other leaves it.
LEMMA PartReadStages ==
  ASSUME Inv, NEW id \in Ids, NEW n, PartRead(id, n)
  PROVE  StageMoves
<1>1. CASE LastRead(id, n)
  <2>1. Becomes(id, Blank)
    BY <1>1, PartReadMoves
  <2>2. StageEnds(id)
    BY <2>1 DEF StageEnds, Becomes, Blank
  <2> QED BY <2>1, <2>2, OneMoves
<1>2. CASE ~LastRead(id, n) /\ file[id].stream > 0
  <2> DEFINE rec == [file[id] EXCEPT !.read = @ \cup {n}]
  <2>1. Becomes(id, rec)
    BY <1>2, PartReadMoves
  <2>2. file[id] \in Record
    BY DEF Inv, TypeOK
  <2>3. /\ rec.state = file[id].state /\ rec.expires = file[id].expires
        /\ rec.grantExpires = file[id].grantExpires /\ rec.started = file[id].started
    BY <2>2 DEF Record
  <2> HIDE DEF rec
  <2>4. SameStage(id)
    BY <2>1, <2>3 DEF SameStage, Becomes
  <2> QED BY <2>1, <2>4, OneMoves
<1>3. CASE ~LastRead(id, n) /\ ~(file[id].stream > 0)
  BY <1>3, PartReadMoves, LapsesMove DEF Lapses
<1> QED BY <1>1, <1>2, <1>3

\* Whatever the worker asks of the ledger, each file stays in its stage, ends it or
\* goes to the next while the one before still stands.
LEMMA RequestStages ==
  ASSUME Inv, NEW id \in Ids, Request(id)
  PROVE  StageMoves /\ now' = now
<1>1. ASSUME NEW from, NEW to, NEW bytes, Offer(id, from, to, bytes)
      PROVE  StageMoves /\ now' = now
  <2>1. StageMoves
    BY <1>1, OfferStages
  <2>2. now' = now
    BY <1>1 DEF Offer
  <2> QED BY <2>1, <2>2
<1>2. ASSUME NEW name, Remove(id, name) PROVE StageMoves /\ now' = now
  BY <1>2, RemoveMoves, LapsesMove DEF Remove
<1>3. ASSUME NEW name \in Names, Grant(id, name) PROVE StageMoves /\ now' = now
  BY <1>3, GrantStages DEF Grant
<1>4. ASSUME NEW name, Readable(id, name) PROVE StageMoves /\ now' = now
  BY <1>4, ReadStages DEF Readable, Read
<1>5. ASSUME NEW grant, Revert(id, grant) PROVE StageMoves /\ now' = now
  BY <1>5, RevertMoves, LapsesMove DEF Revert
<1>6. ASSUME NEW from, NEW grant, NEW a, Start(id, from, grant, a) \/ StartStream(id, from, grant, a)
      PROVE  StageMoves /\ now' = now
  BY <1>6, StartStages DEF Start, StartStream
<1>7. ASSUME NEW upload, Started(id, upload) PROVE StageMoves /\ now' = now
  BY <1>7, StartedStages DEF Started
<1>8. ASSUME Stored(id) PROVE StageMoves /\ now' = now
  BY <1>8, StoredStages DEF Stored
<1>9. ASSUME NEW n, PartDone(id, n) PROVE StageMoves /\ now' = now
  BY <1>9, PartDoneStages DEF PartDone
<1>10. ASSUME NEW n, PartRead(id, n) PROVE StageMoves /\ now' = now
  BY <1>10, PartReadStages DEF PartRead
<1>11. ASSUME NEW name, NEW n, NEW length, Part(id, name, n, length)
       PROVE  StageMoves /\ now' = now
  BY <1>11, PartStages DEF Part
<1>12. ASSUME NEW name, NEW n, PartReadable(id, name, n) PROVE StageMoves /\ now' = now
  BY <1>12, ReadStages DEF PartReadable, Read
<1> QED
  BY <1>1, <1>2, <1>3, <1>4, <1>5, <1>6, <1>7, <1>8, <1>9, <1>10, <1>11, <1>12 DEF Request

\* `since` is the time at which a file came to hold the room it holds.
SinceMoves ==
  since' = [id \in Ids |->
              IF id \notin Held /\ file'[id].state \in Holding THEN now ELSE since[id]]

\* It moves only for a file that comes to hold room.
LEMMA SinceIs ==
  ASSUME OnTime, now \in Nat, SinceMoves
  PROVE  /\ since' \in [Ids -> Nat]
         /\ \A x \in Ids :
              since'[x] = IF file[x].state \notin Holding /\ file'[x].state \in Holding
                          THEN now ELSE since[x]
BY DEF SinceMoves, Held, OnTime

\* The types of what the stages are timed by.
LEMMA StageTypes ==
  ASSUME Inv
  PROVE  /\ now \in Nat /\ Hour \in Nat \ {0}
         /\ OfferTtl \in Nat /\ GrantTtl \in Nat /\ UploadMax \in Nat /\ StoredTtl \in Nat \ {0}
         /\ \A x \in Ids : /\ file[x].expires \in Nat /\ file[x].grantExpires \in Nat
                           /\ file[x].started \in Nat
                           /\ file[x].state \in {"none", "offered", "granted", "uploading", "stored"}
BY LedgerAssumption, FilesAssumption, CronAssumption DEF Inv, TypeOK, Record

\* Between two sweeps, each move leaves its file in time.
LEMMA StagesKept ==
  ASSUME Inv, Inv', OnTime, NEW x \in Ids, StagedInTime(x), SinceMoves,
         SameStage(x) \/ NextStage(x) \/ StageEnds(x), swept' = swept
  PROVE  StagedInTime(x)'
<1> DEFINE Went == file[x].state \notin Holding /\ file'[x].state \in Holding
<1>1. /\ now \in Nat /\ Hour \in Nat \ {0} /\ swept \in Nat /\ since[x] \in Nat
      /\ OfferTtl \in Nat /\ GrantTtl \in Nat /\ UploadMax \in Nat /\ StoredTtl \in Nat \ {0}
      /\ swept <= now /\ now <= swept + Hour
  BY StageTypes DEF OnTime
<1>2. /\ file[x].expires \in Nat /\ file[x].grantExpires \in Nat /\ file[x].started \in Nat
      /\ file'[x].expires \in Nat /\ file'[x].grantExpires \in Nat /\ file'[x].started \in Nat
  BY StageTypes DEF Inv, TypeOK, Record
<1>3. since'[x] = IF Went THEN now ELSE since[x]
  BY <1>1, SinceIs
<1>4. CASE SameStage(x)
  <2>1. since'[x] = since[x]
    BY <1>3, <1>4 DEF SameStage
  <2> QED BY <1>4, <2>1 DEF SameStage, StagedInTime
<1>5. CASE NextStage(x)
  <2>1. CASE file[x].state = "none" /\ file'[x].state = "offered"
             /\ file'[x].expires = now + OfferTtl
    BY <1>1, <2>1 DEF StagedInTime
  <2>2. CASE /\ file[x].state = "offered" /\ file[x].expires > now
             /\ file'[x].state = "granted" /\ file'[x].expires = file[x].expires
             /\ file'[x].grantExpires = now + GrantTtl
    <3>1. since'[x] = now
      BY <1>3, <2>2 DEF Holding
    <3> QED BY <1>1, <1>2, <2>2, <3>1 DEF StagedInTime
  <2>3. CASE /\ file[x].state = "granted" /\ file[x].grantExpires > now
             /\ file'[x].state = "uploading" /\ file'[x].started = now
    <3>1. since'[x] = since[x]
      BY <1>3, <2>3 DEF Holding
    <3> QED BY <1>1, <1>2, <2>3, <3>1 DEF StagedInTime
  <2>4. CASE /\ file[x].state = "uploading"
             /\ file'[x].state = "stored" /\ file'[x].expires = now + StoredTtl
    <3>1. since'[x] = since[x]
      BY <1>3, <2>4 DEF Holding
    <3> QED BY <1>1, <1>2, <2>4, <3>1 DEF StagedInTime
  <2> QED BY <1>5, <2>1, <2>2, <2>3, <2>4 DEF NextStage
<1>6. CASE StageEnds(x)
  <2>1. CASE file'[x].state = "none"
    BY <2>1 DEF StagedInTime
  <2>2. CASE file[x].state = "granted" /\ file'[x].state = "offered"
             /\ file'[x].expires = file[x].expires
    BY <1>1, <1>2, <2>2 DEF StagedInTime
  <2> QED BY <1>6, <2>1, <2>2 DEF StageEnds
<1> QED BY <1>4, <1>5, <1>6

\* The sweep leaves what has still time, and makes an offer of a grant that ran out.
LEMMA CronKeeps ==
  ASSUME Inv, Inv', OnTime, NEW x \in Ids, StagedInTime(x), SinceMoves, Cron
  PROVE  StagedInTime(x)'
<1>1. /\ now \in Nat /\ Hour \in Nat \ {0} /\ swept \in Nat /\ since[x] \in Nat
      /\ GrantTtl \in Nat /\ UploadMax \in Nat
      /\ swept <= now /\ now <= swept + Hour /\ swept' = now
  BY StageTypes DEF OnTime, Cron
<1>2. /\ file[x].expires \in Nat /\ file[x].grantExpires \in Nat /\ file[x].started \in Nat
  BY StageTypes
<1>3. file'[x] = IF x \in Swept THEN Blank
                 ELSE IF x \in Unused THEN Offered(file[x]) ELSE file[x]
  BY DEF Cron, Sweep
<1>4. CASE x \in Swept
  BY <1>3, <1>4 DEF Blank, StagedInTime
<1>5. CASE x \notin Swept /\ x \in Unused
  <2>1. file[x] \in Record
    BY DEF Inv, TypeOK
  <2>2. file'[x].state = "offered" /\ file'[x].expires = file[x].expires
    BY <1>3, <1>5, <2>1 DEF Offered, Record
  <2>3. file[x].state = "granted"
    BY <1>5 DEF Unused
  <2> QED BY <1>1, <1>2, <2>2, <2>3 DEF StagedInTime
<1>6. CASE x \notin Swept /\ x \notin Unused
  <2>1. file'[x] = file[x]
    BY <1>3, <1>6
  <2>2. since'[x] = since[x]
    BY <1>1, <2>1, SinceIs
  <2>3. /\ file[x].state \in {"offered", "stored"} => ~(file[x].expires <= now)
        /\ file[x].state = "granted" => ~(file[x].grantExpires <= now)
        /\ file[x].state = "uploading" => ~(file[x].started + UploadMax <= now)
    BY <1>6 DEF Swept, Unused, Stale
  <2> QED BY <1>1, <1>2, <2>1, <2>2, <2>3 DEF StagedInTime
<1> QED BY <1>4, <1>5, <1>6

\* Every step of the ledger under its cron keeps its stages in time.
LEMMA CronStep ==
  ASSUME CronInv, CronNext
  PROVE  CronInv'
<1>1. Next /\ SinceMoves
  BY DEF CronNext, Cron, Next, SinceMoves
<1>2. Inv /\ Inv' /\ OnTime /\ \A x \in Ids : StagedInTime(x)
  BY <1>1, TickStep, SweepStep, RequestStep DEF CronInv, Next
<1>3. /\ now \in Nat /\ Hour \in Nat \ {0} /\ swept \in Nat
      /\ swept <= now /\ now <= swept + Hour /\ since' \in [Ids -> Nat]
  BY <1>1, <1>2, StageTypes, SinceIs DEF OnTime
<1>4. CASE Cron
  <2>1. now' = now /\ swept' = now
    BY <1>4 DEF Cron, Sweep
  <2>2. OnTime'
    BY <1>3, <2>1 DEF OnTime
  <2>3. \A x \in Ids : StagedInTime(x)'
    BY <1>1, <1>2, <1>4, CronKeeps
  <2> QED BY <1>2, <2>2, <2>3 DEF CronInv
<1>5. CASE Tick /\ now < swept + Hour /\ UNCHANGED swept
  <2>1. now' = now + 1 /\ swept' = swept /\ file' = file
    BY <1>5 DEF Tick
  <2>2. OnTime'
    BY <1>3, <1>5, <2>1 DEF OnTime
  <2>3. \A x \in Ids : SameStage(x)
    BY <2>1 DEF SameStage
  <2>4. \A x \in Ids : StagedInTime(x)'
    BY <1>1, <1>2, <2>1, <2>3, StagesKept
  <2> QED BY <1>2, <2>2, <2>4 DEF CronInv
<1>6. CASE (\E id \in Ids : Request(id)) /\ UNCHANGED swept
  <2>1. StageMoves /\ now' = now /\ swept' = swept
    BY <1>2, <1>6, RequestStages
  <2>2. OnTime'
    BY <1>3, <2>1 DEF OnTime
  <2>3. \A x \in Ids : StagedInTime(x)'
    BY <1>1, <1>2, <2>1, StagesKept DEF StageMoves
  <2> QED BY <1>2, <2>2, <2>3 DEF CronInv
<1> QED BY <1>4, <1>5, <1>6 DEF CronNext

\* The stages of every file are in time, at every sweep and between them.
THEOREM CronInvHolds == CronSpec => []CronInv
<1>1. CronInit => CronInv
  <2> SUFFICES ASSUME CronInit PROVE CronInv
    OBVIOUS
  <2>1. Inv
    BY InitInv DEF CronInit
  <2>2. OnTime
    BY <2>1, StageTypes DEF CronInit, Init, OnTime
  <2>3. \A x \in Ids : StagedInTime(x)
    BY DEF CronInit, Init, StagedInTime, Blank
  <2> QED BY <2>1, <2>2, <2>3 DEF CronInv
<1>2. CronInv /\ [CronNext]_cronVars => CronInv'
  <2>1. CronInv /\ CronNext => CronInv'
    BY CronStep
  <2>2. CronInv /\ UNCHANGED cronVars => CronInv'
    <3> SUFFICES ASSUME CronInv, UNCHANGED cronVars PROVE CronInv'
      OBVIOUS
    <3>1. Inv'
      BY StutterStep DEF CronInv, cronVars
    <3>2. OnTime' /\ \A x \in Ids : StagedInTime(x)'
      BY DEF CronInv, OnTime, StagedInTime, cronVars, vars
    <3> QED BY <3>1, <3>2 DEF CronInv
  <2> QED BY <2>1, <2>2
<1> QED BY <1>1, <1>2, PTL DEF CronSpec

\* Every stage of a file ends: with the cron on time, one acceptance holds room in the
\* bucket no longer than the limits of the stages and two sweeps, and an offer is out
\* no longer than its own time, a grant's and two sweeps.
THEOREM StagesEndInTime == CronSpec => []StagesEnd
<1>1. CronInv => StagesEnd
  <2> SUFFICES ASSUME CronInv PROVE StagesEnd
    OBVIOUS
  <2>1. Inv /\ OnTime /\ \A x \in Ids : StagedInTime(x)
    BY DEF CronInv
  <2>2. /\ now \in Nat /\ Hour \in Nat \ {0} /\ swept \in Nat /\ now <= swept + Hour
        /\ GrantTtl \in Nat /\ UploadMax \in Nat /\ StoredTtl \in Nat \ {0}
    BY <2>1, StageTypes DEF OnTime
  <2>3. ASSUME NEW x \in Held PROVE now < since[x] + GrantTtl + UploadMax + StoredTtl + 2 * Hour
    <3>1. /\ x \in Ids /\ StagedInTime(x) /\ since[x] \in Nat
          /\ file[x].state \in {"granted", "uploading", "stored"}
      BY <2>1, <2>3 DEF Held, Holding, OnTime
    <3>2. file[x].expires \in Nat /\ file[x].grantExpires \in Nat /\ file[x].started \in Nat
      BY <2>1, <3>1, StageTypes
    <3>3. CASE file[x].state = "granted"
      BY <2>2, <3>1, <3>2, <3>3 DEF StagedInTime
    <3>4. CASE file[x].state = "uploading"
      BY <2>2, <3>1, <3>2, <3>4 DEF StagedInTime
    <3>5. CASE file[x].state = "stored"
      BY <2>2, <3>1, <3>2, <3>5 DEF StagedInTime
    <3> QED BY <3>1, <3>3, <3>4, <3>5
  <2>4. ASSUME NEW x \in Ids, file[x].state = "offered"
        PROVE  now < file[x].expires + GrantTtl + 2 * Hour
    <3>1. file[x].expires \in Nat
      BY <2>1, StageTypes
    <3> QED BY <2>1, <2>2, <2>4, <3>1 DEF StagedInTime
  <2> QED BY <2>3, <2>4 DEF StagesEnd, HeldNoLonger, OfferLapses
<1> QED BY <1>1, CronInvHolds, PTL

-----------------------------------------------------------------------------
(* Quotients *)

\* A quotient and its remainder.
LEMMA DivBounds ==
  ASSUME NEW a \in Nat, NEW b \in Nat \ {0}
  PROVE  /\ a \div b \in Nat /\ b * (a \div b) <= a /\ a < b * (a \div b) + b
  OBVIOUS

\* Enough pieces of y bytes cover x bytes (ceil of index.js).
LEMMA CeilCovers ==
  ASSUME NEW x \in Nat, NEW y \in Nat \ {0}
  PROVE  CeilDiv(x, y) \in Nat /\ x <= y * CeilDiv(x, y)
<1>1. x + y - 1 \in Nat
  OBVIOUS
<1> DEFINE q == (x + y - 1) \div y
<1>2. q \in Nat /\ x + y - 1 < y * q + y
  BY <1>1, DivBounds
<1>3. y * q \in Nat
  BY <1>2
<1>4. CeilDiv(x, y) = q
  BY DEF CeilDiv
<1> HIDE DEF q
<1> QED BY <1>2, <1>3, <1>4

\* More pieces, more bytes.
LEMMA MulMono ==
  ASSUME NEW a \in Nat, NEW b \in Nat, NEW c \in Nat, a <= b
  PROVE  a * c <= b * c /\ c * a <= c * b
  OBVIOUS

\* No fewer pieces cover them.
LEMMA CeilLeast ==
  ASSUME NEW x \in Nat, NEW y \in Nat \ {0}, NEW m \in Nat, x <= y * m
  PROVE  CeilDiv(x, y) <= m
<1>1. x + y - 1 \in Nat
  OBVIOUS
<1> DEFINE q == (x + y - 1) \div y
<1>2. q \in Nat /\ y * q <= x + y - 1
  BY <1>1, DivBounds
<1>3. CeilDiv(x, y) = q
  BY DEF CeilDiv
<1> HIDE DEF q
<1>4. ASSUME q > m PROVE FALSE
  <2>1. m + 1 <= q /\ m + 1 \in Nat
    BY <1>2, <1>4
  <2>2. y * (m + 1) <= y * q
    BY <1>2, <2>1, MulMono
  <2>3. y * (m + 1) = y * m + y
    OBVIOUS
  <2>4. y * m \in Nat /\ y * q \in Nat
    BY <1>2
  <2> QED BY <1>2, <2>2, <2>3, <2>4
<1> QED BY <1>2, <1>3, <1>4

\* A streamed file takes no more parts than the most there may be.
LEMMA StreamParts ==
  ASSUME NEW bytes \in Nat
  PROVE  /\ StreamPartBytes(bytes) \in Nat \ {0}
         /\ PartCount(bytes, StreamPartBytes(bytes)) <= StreamPartsMax
<1> DEFINE chunks == AtLeast(1, CeilDiv(bytes, SealedChunk))
           least == CeilDiv(chunks, StreamPartsMax)
           k == AtLeast(StreamChunks, least)
<1>1. SealedChunk \in Nat \ {0} /\ StreamPartsMax \in Nat \ {0} /\ StreamChunks \in Nat \ {0}
  BY FilesAssumption
<1>2. chunks \in Nat /\ bytes <= SealedChunk * chunks
  <2>1. CeilDiv(bytes, SealedChunk) \in Nat /\ bytes <= SealedChunk * CeilDiv(bytes, SealedChunk)
    BY <1>1, CeilCovers
  <2>2. chunks \in Nat /\ CeilDiv(bytes, SealedChunk) <= chunks
    BY <2>1 DEF AtLeast
  <2>3. SealedChunk * CeilDiv(bytes, SealedChunk) <= SealedChunk * chunks
    BY <1>1, <2>1, <2>2, MulMono
  <2> HIDE DEF chunks
  <2>4. SealedChunk * CeilDiv(bytes, SealedChunk) \in Nat /\ SealedChunk * chunks \in Nat
    BY <1>1, <2>1, <2>2
  <2> QED BY <2>1, <2>2, <2>3, <2>4
<1> HIDE DEF chunks
<1>3. k \in Nat \ {0} /\ chunks <= StreamPartsMax * k
  <2>1. least \in Nat /\ chunks <= StreamPartsMax * least
    BY <1>1, <1>2, CeilCovers
  <2> HIDE DEF least
  <2>2. k \in Nat \ {0} /\ least <= k
    BY <1>1, <2>1 DEF AtLeast
  <2> HIDE DEF k
  <2>3. StreamPartsMax * least <= StreamPartsMax * k
    BY <1>1, <2>1, <2>2, MulMono
  <2>4. StreamPartsMax * least \in Nat /\ StreamPartsMax * k \in Nat
    BY <1>1, <2>1, <2>2
  <2> QED BY <1>2, <2>1, <2>2, <2>3, <2>4
<1>4. StreamPartBytes(bytes) = SealedChunk * k
  BY DEF StreamPartBytes, chunks, k, least
<1> HIDE DEF k
<1>5. SealedChunk * k \in Nat \ {0}
  BY <1>1, <1>3
<1>6. bytes <= (SealedChunk * k) * StreamPartsMax
  <2>1. SealedChunk * chunks <= SealedChunk * (StreamPartsMax * k)
    <3>1. StreamPartsMax * k \in Nat
      BY <1>1, <1>3
    <3> QED BY <1>1, <1>2, <1>3, <3>1, MulMono
  <2>2. SealedChunk * (StreamPartsMax * k) = (SealedChunk * k) * StreamPartsMax
    BY <1>1, <1>3
  <2>3. SealedChunk * chunks \in Nat /\ (SealedChunk * k) * StreamPartsMax \in Nat
    BY <1>1, <1>2, <1>5
  <2> QED BY <1>2, <2>1, <2>2, <2>3
<1>7. CeilDiv(bytes, SealedChunk * k) <= StreamPartsMax /\ CeilDiv(bytes, SealedChunk * k) \in Nat
  BY <1>1, <1>5, <1>6, CeilLeast, CeilCovers
<1> QED BY <1>1, <1>4, <1>5, <1>7 DEF PartCount, AtLeast

-----------------------------------------------------------------------------
(* What a request on its way knows *)

\* The states of a file whose upload has started: it never comes back to an offer.
Began(id) == id \in sent /\ file[id].state \notin {"offered", "granted"}

\* u is the multipart upload made for the file
MadeFor(u, id) == u \in Uploads /\ multi[u].state # "none" /\ multi[u].id = id

\* ... and the one that the file's parts go to, while it is being uploaded
UploadOf(u, id) == MadeFor(u, id) /\ Began(id) /\ (Goes(id) => file[id].upload = u)

\* the part is one of a streamed file's
Piece(id, n) ==
  /\ n \in 1 .. StreamPartsMax
  /\ Out(id) => file[id].stream > 0 /\ n \in Parts(file[id])

\* a record the ledger let go
Gone(rec) ==
  /\ rec.id \in sent /\ file[rec.id].state = "none"
  /\ rec.upload # NoUpload => MadeFor(rec.upload, rec.id)

\* What the next step of the request r rests on, whatever the others did since its last.
Ready(r) ==
  LET id == r.id
      n  == r.n
      u  == r.upload
  IN
  /\ r.at \notin {"idle", "clear", "dead"} => id \in sent
  /\ r.at = "deliver" => id \notin known
  /\ r.at = "withdraw" => id \notin known \/ file[id].state = "none"
  /\ r.at \in {"notify", "revert"} => r.grant \in 1 .. grants /\ r.grant \notin heard[id]
  /\ r.at = "clear" => \A rec \in r.gone : Gone(rec)
  /\ r.at \in {"create", "startFailed"} =>
       /\ Began(id) /\ file[id].state # "stored" /\ \A v \in Uploads : ~MadeFor(v, id)
       /\ Goes(id) => file[id].stream = 0 /\ file[id].upload = NoUpload
  /\ r.at = "started" =>
       /\ MadeFor(u, id) /\ Began(id)
       /\ Goes(id) => file[id].stream = 0 /\ file[id].upload = NoUpload /\ multi[u].state = "open"
  /\ r.at = "abort" => MadeFor(u, id) /\ Began(id) /\ ~Goes(id)
  /\ r.at = "part" => n = 1
  /\ r.at \in {"put", "putDone", "get", "partRead"} => Began(id) /\ Piece(id, n)
  /\ r.at = "putDone" => (Goes(id) => <<id, n>> \in pieces)
  /\ r.at = "unput" => Began(id) /\ ~Goes(id)
  /\ r.at \in {"uploadPart", "uploadPartDone"} =>
       UploadOf(u, id) /\ (Goes(id) => n \in Parts(file[id]))
  /\ r.at = "uploadPartDone" => n \in multi[u].parts
  /\ r.at = "complete" => UploadOf(u, id)
  /\ r.at = "stored" /\ u = NoUpload => Began(id) /\ (Out(id) => file[id].stream > 0)
  /\ r.at = "stored" /\ u # NoUpload =>
       /\ UploadOf(u, id) /\ multi[u].state = "over" /\ file[id].state # "stored"
       /\ Goes(id) => id \in objects
  /\ r.at = "unmake" => file[id].state = "none"
  /\ r.at \in {"pass", "passed"} =>
       /\ Began(id) /\ ~Goes(id) /\ id \in known /\ r.gone # {}
       /\ \A rec \in r.gone : rec.id = id /\ rec.upload = NoUpload /\ (Out(id) => rec = Removed(id))

\* The requests r and s at the steps below are about two files, two uploads or two grants.
Apart(r, s) ==
  /\ r.at \in {"deliver", "withdraw"} /\ s.at = "deliver" => r.id # s.id
  /\ r.at \in {"create", "started", "startFailed"} /\ s.at \in {"create", "started", "startFailed"}
       => r.id # s.id
  /\ r.at \in {"notify", "revert"} /\ s.at \in {"notify", "revert"} => r.grant # s.grant
  /\ r.at = "stored" /\ s.at = "stored" /\ r.upload # NoUpload => r.upload # s.upload

\* What the ledger says of a file is so in the bucket.
FileRight(id) ==
  LET rec == file[id] IN
  /\ rec.state = "none" => rec = Blank
  /\ Out(id) => id \in sent
  /\ id \notin known => rec.state \in {"none", "offered"}
  /\ rec.state = "granted" => rec.grant \in 1 .. grants
  /\ rec.stream \in {0, StreamPartBytes(rec.bytes)}
  /\ rec.upload # NoUpload =>
       /\ Goes(id) /\ rec.stream = 0 /\ MadeFor(rec.upload, id)
       /\ rec.parts \subseteq multi[rec.upload].parts
  /\ Goes(id) /\ rec.stream = 0 /\ rec.upload = NoUpload => rec.parts = {}
  /\ Goes(id) /\ rec.stream > 0 => {id} \X rec.parts \subseteq pieces
  /\ rec.state = "stored" /\ rec.stream = 0 => id \in objects

\* The bucket has only what was made for a file whose upload began, one upload a file.
BucketRight ==
  /\ \A id \in objects : Began(id)
  /\ \A p \in pieces : Began(p[1]) /\ Piece(p[1], p[2])
  /\ \A u \in Uploads : multi[u].state # "none" =>
       /\ Began(multi[u].id) /\ (Out(multi[u].id) => file[multi[u].id].stream = 0)
       /\ multi[u].state = "open" => file[multi[u].id].state # "stored"
       /\ \A v \in Uploads : MadeFor(v, multi[u].id) => v = u

(* Types *)

States == {"none", "offered", "granted", "uploading", "stored"}

Goners == [id : Ids, state : States, upload : Uploads \cup {NoUpload}, stream : Nat, bytes : Nat]

Steps == {"idle", "dead", "deliver", "withdraw", "notify", "revert", "clear", "create", "started",
          "startFailed", "abort", "part", "put", "putDone", "unput", "uploadPart", "uploadPartDone",
          "complete", "stored", "unmake", "get", "partRead", "pass", "passed"}

Requests == [at : Steps, id : Ids \cup {Nobody}, n : Nat, grant : Nat,
             upload : Uploads \cup {NoUpload}, gone : SUBSET Goners]

Multis == [state : {"none", "open", "over"}, id : Ids \cup {Nobody}, parts : SUBSET Nat]

\* The apps' knowledge and the bucket keep their types.
Typed ==
  /\ multi \in [Uploads -> Multis]
  /\ sent \subseteq Ids /\ known \subseteq sent
  /\ heard \in [Ids -> SUBSET (1 .. grants)] /\ got \in [Ids -> SUBSET Nat]
  /\ objects \subseteq Ids /\ pieces \subseteq Ids \X Nat /\ deaths \in 0 .. MaxDeaths

AllReady == worker \in [Workers -> Requests] /\ \A w \in Workers : Ready(worker[w])
AllApart == \A w, v \in Workers : w # v => Apart(worker[w], worker[v])
FilesRight == \A id \in Ids : FileRight(id)

FTInv == Inv /\ Typed /\ BucketRight /\ FilesRight /\ AllReady /\ AllApart

-----------------------------------------------------------------------------
(* What no step of a request r does to the others *)

FileGoesOn(r, x) ==
  /\ Began(x) => Began(x)'
  /\ x \in sent /\ ~Out(x) => ~Out(x)'
  /\ Began(x) /\ Out(x)' => /\ Out(x) /\ file'[x].stream = file[x].stream
                            /\ file'[x].bytes = file[x].bytes
  /\ Began(x) /\ Goes(x)' =>
       /\ Goes(x)
       /\ \/ file'[x].upload = file[x].upload
          \/ file[x].upload = NoUpload /\ r.at = "started" /\ r.id = x
  /\ file[x].state = "stored" /\ Out(x)' =>
       file'[x].state = "stored" /\ file'[x].upload = file[x].upload
  /\ file[x].state # "stored" /\ file'[x].state = "stored" =>
       /\ Goes(x) /\ Open(file[x])
       /\ file[x].upload # NoUpload =>
            r.at = "stored" /\ r.upload = file[x].upload /\ multi[r.upload].state = "over"

FilesGoOn(r) == \A x \in Ids : FileGoesOn(r, x)

BucketGoesOn(r) ==
  /\ \A u \in Uploads :
       /\ multi[u].state # "none" =>
            /\ multi'[u].state # "none" /\ multi'[u].id = multi[u].id
            /\ multi[u].parts \subseteq multi'[u].parts
       /\ multi[u].state = "over" => multi'[u].state = "over"
       /\ multi[u].state = "open" /\ multi'[u].state # "open" =>
            ~Goes(multi[u].id) \/ file[multi[u].id].upload = u
       /\ multi[u].state = "none" /\ multi'[u].state # "none" =>
            r.at = "create" /\ multi'[u].id = r.id
  /\ \A p \in pieces : p \notin pieces' => ~Goes(p[1])
  /\ \A x \in objects : x \notin objects' => ~Out(x)

AppsGoOn(r) ==
  /\ sent \subseteq sent' /\ known \subseteq known'
  /\ grants' \in Nat /\ grants <= grants'
  /\ \A x \in known' : x \notin known => r.at = "deliver" /\ r.id = x
  /\ \A x \in Ids : \A g \in heard'[x] : g \notin heard[x] => r.at = "notify" /\ r.grant = g

Careful(r) == FilesGoOn(r) /\ BucketGoesOn(r) /\ AppsGoOn(r)

\* An upload made for a file stays so, and only createMultipartUpload makes one.
LEMMA MadeForStays ==
  ASSUME NEW r, BucketGoesOn(r), NEW u, NEW x
  PROVE  /\ MadeFor(u, x) => MadeFor(u, x)'
         /\ MadeFor(u, x)' /\ ~MadeFor(u, x) => r.at = "create" /\ r.id = x
BY DEF BucketGoesOn, MadeFor

\* A file's parts stay its parts while it stays.
LEMMA PieceStays ==
  ASSUME NEW r, FilesGoOn(r), NEW x \in Ids, Began(x), NEW n
  PROVE  /\ Piece(x, n) => Piece(x, n)'
         /\ (Goes(x) => n \in Parts(file[x])) => (Goes(x)' => n \in Parts(file'[x]))
<1>1. Out(x)' => /\ Out(x) /\ file'[x].stream = file[x].stream
                 /\ file'[x].bytes = file[x].bytes
  BY DEF FilesGoOn, FileGoesOn
<1>2. Out(x)' => Parts(file'[x]) = Parts(file[x])
  BY <1>1 DEF Parts, Size
<1>3. (Goes(x)' => Goes(x)) /\ (Goes(x)' => Out(x)')
  BY DEF FilesGoOn, FileGoesOn, Goes, Out
<1> QED BY <1>1, <1>2, <1>3 DEF Piece

\* The upload that a file is put together in stays that.
LEMMA UploadOfStays ==
  ASSUME LedgerAssumption, NEW r, FilesGoOn(r), BucketGoesOn(r), sent \subseteq Ids, NEW u, NEW x,
         UploadOf(u, x)
  PROVE  UploadOf(u, x)'
<1>1. MadeFor(u, x)' /\ u \in Uploads /\ u # NoUpload
  BY MadeForStays DEF UploadOf, MadeFor, LedgerAssumption
<1>2. x \in Ids /\ Began(x)
  BY DEF UploadOf, Began
<1>3. Began(x)' /\ (Goes(x)' => Goes(x) /\ file'[x].upload = file[x].upload)
  <2>1. Goes(x) => file[x].upload # NoUpload
    BY <1>1 DEF UploadOf
  <2> QED BY <1>2, <2>1 DEF FilesGoOn, FileGoesOn
<1> QED BY <1>1, <1>3 DEF UploadOf

\* What a request rests on stays so while another takes a step.
LEMMA OthersReady ==
  ASSUME FTInv, NEW r \in Requests, NEW s \in Requests, Ready(r), Ready(s),
         Apart(r, s), Apart(s, r), Careful(r)
  PROVE  Ready(s)'
<1> DEFINE id == s.id
           n  == s.n
           u  == s.upload
<1>1. FilesGoOn(r) /\ BucketGoesOn(r) /\ AppsGoOn(r) /\ sent \subseteq Ids /\ sent \subseteq sent'
  BY DEF Careful, AppsGoOn, FTInv, Typed
<1>2. s.at \notin {"idle", "clear", "dead"} => id \in sent'
  BY <1>1 DEF Ready
<1>3. s.at = "deliver" => id \notin known'
  BY <1>1 DEF Ready, Apart, AppsGoOn
<1>4. s.at = "withdraw" => id \notin known' \/ file'[id].state = "none"
  <2>1. SUFFICES ASSUME s.at = "withdraw" PROVE id \notin known' \/ file'[id].state = "none"
    OBVIOUS
  <2>2. id \in sent /\ id \in Ids /\ (id \notin known \/ ~Out(id))
    BY <1>1, <2>1 DEF Ready, Out
  <2>3. ~Out(id) => file'[id].state = "none"
    BY <1>1, <2>2 DEF FilesGoOn, FileGoesOn, Out
  <2>4. id \notin known => id \notin known'
    BY <1>1, <2>1 DEF Apart, AppsGoOn
  <2> QED BY <2>2, <2>3, <2>4
<1>5. s.at \in {"notify", "revert"} => s.grant \in 1 .. grants' /\ s.grant \notin heard'[id]
  <2>1. SUFFICES ASSUME s.at \in {"notify", "revert"}
                 PROVE  s.grant \in 1 .. grants' /\ s.grant \notin heard'[id]
    OBVIOUS
  <2>2. id \in Ids /\ s.grant \in 1 .. grants /\ s.grant \notin heard[id]
    BY <1>1, <2>1 DEF Ready
  <2>3. s.grant \in 1 .. grants'
    <3>1. grants <= grants' /\ grants \in Nat /\ grants' \in Nat
      BY <1>1 DEF AppsGoOn, FTInv, Inv, TypeOK
    <3> QED BY <2>2, <3>1
  <2>4. s.grant \notin heard'[id]
    BY <1>1, <2>1, <2>2 DEF Apart, AppsGoOn
  <2> QED BY <2>3, <2>4
<1>6. s.at = "clear" => \A rec \in s.gone : Gone(rec)'
  <2>1. SUFFICES ASSUME s.at = "clear", NEW rec \in s.gone PROVE Gone(rec)'
    OBVIOUS
  <2>2. Gone(rec)
    BY <2>1 DEF Ready
  <2>3. rec.id \in sent' /\ file'[rec.id].state = "none"
    BY <1>1, <2>2 DEF Gone, FilesGoOn, FileGoesOn, Out
  <2>4. rec.upload # NoUpload => MadeFor(rec.upload, rec.id)'
    BY <1>1, <2>2, MadeForStays DEF Gone
  <2> QED BY <2>3, <2>4 DEF Gone
<1>7. s.at \in {"create", "startFailed"} =>
       /\ Began(id)' /\ file'[id].state # "stored" /\ \A v \in Uploads : ~MadeFor(v, id)'
       /\ Goes(id)' => file'[id].stream = 0 /\ file'[id].upload = NoUpload
  <2>1. SUFFICES ASSUME s.at \in {"create", "startFailed"}
                 PROVE  /\ Began(id)' /\ file'[id].state # "stored" /\ \A v \in Uploads : ~MadeFor(v, id)'
                        /\ Goes(id)' => file'[id].stream = 0 /\ file'[id].upload = NoUpload
    OBVIOUS
  <2>2. /\ id \in Ids /\ Began(id) /\ file[id].state # "stored" /\ \A v \in Uploads : ~MadeFor(v, id)
        /\ Goes(id) => file[id].stream = 0 /\ file[id].upload = NoUpload
    BY <1>1, <2>1 DEF Ready
  <2>3. Began(id)' /\ (Goes(id)' => Goes(id) /\ Out(id)')
    BY <1>1, <2>2 DEF FilesGoOn, FileGoesOn, Goes, Out
  <2>4. ~(r.at \in {"create", "started"} /\ r.id = id)
    BY <2>1 DEF Apart
  <2>5. Goes(id)' => file'[id].stream = 0 /\ file'[id].upload = NoUpload
    BY <1>1, <2>2, <2>3, <2>4 DEF FilesGoOn, FileGoesOn
  <2>6. file'[id].state # "stored"
    <3>1. Goes(id) => ~Open(file[id])
      BY <2>2 DEF Open
    <3> QED BY <1>1, <2>2, <3>1 DEF FilesGoOn, FileGoesOn
  <2>7. \A v \in Uploads : ~MadeFor(v, id)'
    BY <1>1, <2>2, <2>4, MadeForStays
  <2> QED BY <2>3, <2>5, <2>6, <2>7
<1>8. s.at = "started" =>
       /\ MadeFor(u, id)' /\ Began(id)'
       /\ Goes(id)' => file'[id].stream = 0 /\ file'[id].upload = NoUpload /\ multi'[u].state = "open"
  <2>1. SUFFICES ASSUME s.at = "started"
                 PROVE  /\ MadeFor(u, id)' /\ Began(id)'
                        /\ Goes(id)' => file'[id].stream = 0 /\ file'[id].upload = NoUpload /\ multi'[u].state = "open"
    OBVIOUS
  <2>2. /\ id \in Ids /\ MadeFor(u, id) /\ Began(id)
        /\ Goes(id) => file[id].stream = 0 /\ file[id].upload = NoUpload /\ multi[u].state = "open"
    BY <1>1, <2>1 DEF Ready
  <2>3. MadeFor(u, id)' /\ Began(id)' /\ (Goes(id)' => Goes(id) /\ Out(id)')
    BY <1>1, <2>2, MadeForStays DEF FilesGoOn, FileGoesOn, Goes, Out
  <2>4. ~(r.at = "started" /\ r.id = id)
    BY <2>1 DEF Apart
  <2>5. Goes(id)' => file'[id].stream = 0 /\ file'[id].upload = NoUpload
    BY <1>1, <2>2, <2>3, <2>4 DEF FilesGoOn, FileGoesOn
  <2>6. Goes(id)' => multi'[u].state = "open"
    <3>1. u \in Uploads /\ multi[u].id = id /\ u # NoUpload
      BY <2>2, LedgerAssumption DEF MadeFor
    <3> QED BY <1>1, <2>2, <2>3, <3>1 DEF BucketGoesOn
  <2> QED BY <2>3, <2>5, <2>6
<1>9. s.at = "abort" => MadeFor(u, id)' /\ Began(id)' /\ ~Goes(id)'
  <2>1. s.at = "abort" => id \in Ids /\ MadeFor(u, id) /\ Began(id) /\ ~Goes(id)
    BY <1>1 DEF Ready
  <2> QED BY <1>1, <2>1, MadeForStays DEF FilesGoOn, FileGoesOn
<1>10. s.at = "part" => n = 1
  BY DEF Ready
<1>11. s.at \in {"put", "putDone", "get", "partRead"} => Began(id)' /\ Piece(id, n)'
  <2>1. s.at \in {"put", "putDone", "get", "partRead"} => id \in Ids /\ Began(id) /\ Piece(id, n)
    BY <1>1 DEF Ready
  <2> QED BY <1>1, <2>1, PieceStays DEF FilesGoOn, FileGoesOn
<1>12. s.at = "putDone" => (Goes(id)' => <<id, n>> \in pieces')
  <2>1. SUFFICES ASSUME s.at = "putDone", Goes(id)' PROVE <<id, n>> \in pieces'
    OBVIOUS
  <2>2. id \in Ids /\ Began(id) /\ (Goes(id) => <<id, n>> \in pieces)
    BY <1>1, <2>1 DEF Ready
  <2>3. Goes(id)
    BY <1>1, <2>1, <2>2 DEF FilesGoOn, FileGoesOn
  <2> QED BY <1>1, <2>2, <2>3 DEF BucketGoesOn
<1>13. s.at = "unput" => Began(id)' /\ ~Goes(id)'
  <2>1. s.at = "unput" => id \in Ids /\ Began(id) /\ ~Goes(id)
    BY <1>1 DEF Ready
  <2> QED BY <1>1, <2>1 DEF FilesGoOn, FileGoesOn
<1>14. s.at \in {"uploadPart", "uploadPartDone"} =>
         UploadOf(u, id)' /\ (Goes(id)' => n \in Parts(file'[id]))
  <2>1. s.at \in {"uploadPart", "uploadPartDone"} =>
          id \in Ids /\ Began(id) /\ UploadOf(u, id) /\ (Goes(id) => n \in Parts(file[id]))
    BY <1>1 DEF Ready, UploadOf
  <2> QED BY <1>1, <2>1, LedgerAssumption, UploadOfStays, PieceStays
<1>15. s.at = "uploadPartDone" => n \in multi'[u].parts
  BY <1>1 DEF Ready, BucketGoesOn, UploadOf, MadeFor
<1>16. s.at = "complete" => UploadOf(u, id)'
  BY <1>1, LedgerAssumption, UploadOfStays DEF Ready
<1>17. s.at = "stored" /\ u = NoUpload => Began(id)' /\ (Out(id)' => file'[id].stream > 0)
  <2>1. s.at = "stored" /\ u = NoUpload => id \in Ids /\ Began(id) /\ (Out(id) => file[id].stream > 0)
    BY <1>1 DEF Ready
  <2> QED BY <1>1, <2>1 DEF FilesGoOn, FileGoesOn
<1>18. s.at = "stored" /\ u # NoUpload =>
       /\ UploadOf(u, id)' /\ multi'[u].state = "over" /\ file'[id].state # "stored"
       /\ Goes(id)' => id \in objects'
  <2>1. SUFFICES ASSUME s.at = "stored", u # NoUpload
                 PROVE  /\ UploadOf(u, id)' /\ multi'[u].state = "over" /\ file'[id].state # "stored"
                        /\ Goes(id)' => id \in objects'
    OBVIOUS
  <2>2. /\ id \in Ids /\ UploadOf(u, id) /\ multi[u].state = "over" /\ file[id].state # "stored"
        /\ Goes(id) => id \in objects
    BY <1>1, <2>1 DEF Ready
  <2>3. UploadOf(u, id)' /\ multi'[u].state = "over"
    BY <1>1, <2>2, LedgerAssumption, UploadOfStays DEF BucketGoesOn, UploadOf, MadeFor
  <2>4. Goes(id)' => id \in objects'
    BY <1>1, <2>2 DEF FilesGoOn, FileGoesOn, BucketGoesOn, UploadOf, Goes, Out
  <2>5. file'[id].state # "stored"
    <3>1. Goes(id) => file[id].upload = u
      BY <2>2 DEF UploadOf
    <3>2. ~(r.at = "stored" /\ r.upload = u)
      BY <2>1 DEF Apart
    <3> QED BY <1>1, <2>1, <2>2, <3>1, <3>2 DEF FilesGoOn, FileGoesOn
  <2> QED BY <2>3, <2>4, <2>5
<1>19. s.at = "unmake" => file'[id].state = "none"
  <2>1. s.at = "unmake" => id \in sent /\ ~Out(id)
    BY <1>1 DEF Ready, Out
  <2> QED BY <1>1, <2>1 DEF FilesGoOn, FileGoesOn, Out
<1>20. s.at \in {"pass", "passed"} =>
       /\ Began(id)' /\ ~Goes(id)' /\ id \in known' /\ s.gone # {}
       /\ \A rec \in s.gone : rec.id = id /\ rec.upload = NoUpload /\ (Out(id)' => rec = Removed(id)')
  <2>1. SUFFICES ASSUME s.at \in {"pass", "passed"}
                 PROVE  /\ Began(id)' /\ ~Goes(id)' /\ id \in known' /\ s.gone # {}
                        /\ \A rec \in s.gone : rec.id = id /\ rec.upload = NoUpload /\ (Out(id)' => rec = Removed(id)')
    OBVIOUS
  <2>2. /\ id \in Ids /\ Began(id) /\ ~Goes(id) /\ id \in known /\ s.gone # {}
        /\ \A rec \in s.gone : rec.id = id /\ rec.upload = NoUpload /\ (Out(id) => rec = Removed(id))
    BY <1>1, <2>1 DEF Ready
  <2>3. Began(id)' /\ ~Goes(id)' /\ id \in known'
    BY <1>1, <2>2 DEF FilesGoOn, FileGoesOn, AppsGoOn
  <2>4. Out(id)' => Removed(id)' = Removed(id)
    <3>1. Out(id) => file[id].state = "stored"
      BY <2>2 DEF Began, Goes, Out, FTInv, Inv, TypeOK, Record
    <3>2. Out(id)' => Out(id) /\ file'[id].stream = file[id].stream /\ file'[id].bytes = file[id].bytes
      BY <1>1, <2>2 DEF FilesGoOn, FileGoesOn
    <3>3. Out(id)' => file'[id].state = file[id].state /\ file'[id].upload = file[id].upload
      BY <1>1, <2>2, <3>1, <3>2 DEF FilesGoOn, FileGoesOn
    <3> QED BY <3>2, <3>3 DEF Removed
  <2> QED BY <1>1, <2>2, <2>3, <2>4 DEF FilesGoOn, FileGoesOn
<1> QED
  BY <1>2, <1>3, <1>4, <1>5, <1>6, <1>7, <1>8, <1>9, <1>10, <1>11, <1>12, <1>13, <1>14, <1>15,
     <1>16, <1>17, <1>18, <1>19, <1>20 DEF Ready

\* A step that leaves the records as they are.
LEMMA SameFiles ==
  ASSUME NEW r, file' = file, sent \subseteq sent'
  PROVE  FilesGoOn(r)
BY DEF FilesGoOn, FileGoesOn, Began, Goes, Out

\* A step that leaves the bucket as it is.
LEMMA SameBucket ==
  ASSUME NEW r, UNCHANGED bucket
  PROVE  BucketGoesOn(r)
BY DEF BucketGoesOn, bucket

\* A step that leaves the apps and the grants as they are.
LEMMA SameApps ==
  ASSUME FTInv, NEW r, UNCHANGED apps, grants' = grants
  PROVE  AppsGoOn(r)
BY DEF AppsGoOn, apps, FTInv, Inv, TypeOK

\* What the bucket has stays right while the files go on.
LEMMA BucketStays ==
  ASSUME FTInv, NEW r, FilesGoOn(r), UNCHANGED bucket
  PROVE  BucketRight'
<1>1. BucketRight /\ sent \subseteq Ids /\ UNCHANGED <<objects, pieces, multi>>
  BY DEF FTInv, Typed, bucket
<1>2. \A x \in objects : Began(x)'
  BY <1>1 DEF BucketRight, FilesGoOn, FileGoesOn, Began
<1>3. \A p \in pieces : Began(p[1])' /\ Piece(p[1], p[2])'
  <2>1. TAKE p \in pieces
  <2>2. p[1] \in Ids /\ Began(p[1]) /\ Piece(p[1], p[2])
    BY <1>1 DEF BucketRight, Began
  <2> QED BY <2>2, PieceStays DEF FilesGoOn, FileGoesOn
<1>4. ASSUME NEW u \in Uploads, multi[u].state # "none"
      PROVE  /\ Began(multi[u].id)' /\ (Out(multi[u].id)' => file'[multi[u].id].stream = 0)
             /\ multi[u].state = "open" => file'[multi[u].id].state # "stored"
             /\ \A v \in Uploads : MadeFor(v, multi[u].id)' => v = u
  <2> DEFINE x == multi[u].id
  <2>1. /\ x \in Ids /\ Began(x) /\ (Out(x) => file[x].stream = 0)
        /\ multi[u].state = "open" => file[x].state # "stored"
        /\ \A v \in Uploads : MadeFor(v, x) => v = u
    BY <1>1, <1>4 DEF BucketRight, Began
  <2>2. Began(x)' /\ (Out(x)' => file'[x].stream = 0)
    BY <1>1, <2>1 DEF FilesGoOn, FileGoesOn
  <2>3. \A v \in Uploads : MadeFor(v, x)' => MadeFor(v, x)
    BY <1>1 DEF MadeFor
  <2>4. ASSUME multi[u].state = "open", file'[x].state = "stored" PROVE FALSE
    <3>1. Goes(x) /\ Open(file[x]) /\ (file[x].upload # NoUpload => multi[file[x].upload].state = "over")
      BY <2>1, <2>4 DEF FilesGoOn, FileGoesOn
    <3>2. file[x].upload # NoUpload
      BY <2>1, <3>1 DEF Open, Goes, Out
    <3>3. MadeFor(file[x].upload, x)
      BY <2>1, <3>2 DEF FTInv, FilesRight, FileRight
    <3> QED BY <2>1, <2>4, <3>1, <3>2, <3>3 DEF MadeFor
  <2> QED BY <1>1, <2>1, <2>2, <2>3, <2>4
<1> QED BY <1>1, <1>2, <1>3, <1>4 DEF BucketRight

\* What the ledger says of a file stays right while it says the same.
LEMMA FileStays ==
  ASSUME FTInv, NEW r, BucketGoesOn(r), AppsGoOn(r), NEW x \in Ids, file'[x] = file[x]
  PROVE  FileRight(x)'
<1>1. FileRight(x) /\ grants \in Nat /\ grants' \in Nat /\ grants <= grants'
  BY DEF FTInv, FilesRight, AppsGoOn, Inv, TypeOK
<1>2. sent \subseteq sent' /\ known \subseteq known'
  BY DEF AppsGoOn
<1>3. \A u : MadeFor(u, x) => MadeFor(u, x)' /\ multi[u].parts \subseteq multi'[u].parts
  BY MadeForStays DEF BucketGoesOn, MadeFor
<1>4. Goes(x) /\ file[x].stream > 0 => {x} \X file[x].parts \subseteq pieces'
  BY <1>1 DEF FileRight, BucketGoesOn
<1>5. file[x].state = "stored" /\ file[x].stream = 0 => x \in objects'
  BY <1>1 DEF FileRight, BucketGoesOn, Out
<1>6. file[x].state = "granted" => file[x].grant \in 1 .. grants'
  BY <1>1 DEF FileRight
<1>7. file[x].upload # NoUpload =>
         /\ Goes(x) /\ file[x].stream = 0 /\ MadeFor(file[x].upload, x)'
         /\ file[x].parts \subseteq multi'[file[x].upload].parts
  BY <1>1, <1>3 DEF FileRight
<1> QED BY <1>1, <1>2, <1>4, <1>5, <1>6, <1>7 DEF FileRight, Out, Goes

\* What the ledger says of the files stays right while it says the same.
LEMMA FilesStay ==
  ASSUME FTInv, NEW r, BucketGoesOn(r), AppsGoOn(r), file' = file
  PROVE  FilesRight'
BY FileStays DEF FilesRight

\* Files go, and grants are taken back: no one who counts on them is misled.
LEMMA LapsesKeep ==
  ASSUME FTInv, NEW r, Lapses, UNCHANGED <<bucket, apps>>, grants' = grants
  PROVE  FilesGoOn(r) /\ FilesRight'
<1>1. BucketGoesOn(r) /\ AppsGoOn(r) /\ UNCHANGED <<sent, known, objects, pieces, multi>>
  BY SameBucket, SameApps DEF bucket, apps
<1>2. ASSUME NEW x \in Ids PROVE FileGoesOn(r, x) /\ FileRight(x)'
  <2>1. CASE file'[x] = file[x]
    BY <1>1, <1>2, <2>1, FileStays DEF FileGoesOn, Began, Goes, Out
  <2>2. CASE file'[x] = Blank
    BY <1>1, <2>2 DEF FileGoesOn, FileRight, Began, Goes, Out, Blank
  <2>3. CASE file[x].state = "granted" /\ file'[x] = Offered(file[x])
    <3>1. FileRight(x) /\ file[x] \in Record
      BY <1>2 DEF FTInv, FilesRight, Inv, TypeOK
    <3>2. /\ file'[x].state = "offered" /\ file'[x].stream = file[x].stream
          /\ file'[x].bytes = file[x].bytes /\ file'[x].upload = file[x].upload
      BY <2>3, <3>1 DEF Offered, Record
    <3>3. file[x].upload = NoUpload
      BY <2>3, <3>1 DEF FileRight, Goes
    <3> QED BY <1>1, <2>3, <3>1, <3>2, <3>3 DEF FileGoesOn, FileRight, Began, Goes, Out
  <2> QED BY <1>2, <2>1, <2>2, <2>3 DEF Lapses
<1> QED BY <1>2 DEF FilesGoOn, FilesRight

\* One file changes, and the apps hear nothing of it.
LEMMA OneKeeps ==
  ASSUME FTInv, NEW r, UNCHANGED <<known, bucket>>, AppsGoOn(r), NEW id \in Ids,
         \A x \in Ids \ {id} : file'[x] = file[x], FileGoesOn(r, id), FileRight(id)'
  PROVE  FilesGoOn(r) /\ FilesRight'
<1>1. BucketGoesOn(r) /\ sent \subseteq sent'
  BY SameBucket DEF AppsGoOn
<1>2. ASSUME NEW x \in Ids \ {id} PROVE FileGoesOn(r, x) /\ FileRight(x)'
  BY <1>1, <1>2, FileStays DEF FileGoesOn, Began, Goes, Out
<1> QED BY <1>2 DEF FilesGoOn, FilesRight

\* A request takes a step.
LEMMA StepKeeps ==
  ASSUME FTInv, Inv', Typed', BucketRight', FilesRight', NEW w \in Workers, NEW r \in Requests,
         worker' = [worker EXCEPT ![w] = r], Careful(worker[w]), Ready(r)',
         \A v \in Workers \ {w} : Apart(r, worker[v]) /\ Apart(worker[v], r)
  PROVE  FTInv'
<1>1. worker \in [Workers -> Requests] /\ \A v \in Workers : Ready(worker[v])
  BY DEF FTInv, AllReady
<1>2. \A v, t \in Workers : v # t => Apart(worker[v], worker[t])
  BY DEF FTInv, AllApart
<1>3. worker'[w] = r /\ \A v \in Workers \ {w} : worker'[v] = worker[v]
  BY <1>1
<1>4. worker' \in [Workers -> Requests]
  BY <1>1
<1>5. ASSUME NEW v \in Workers, NEW s, s = worker'[v] PROVE Ready(s)'
  <2>1. CASE v = w
    BY <1>3, <1>5, <2>1
  <2>2. CASE v # w
    <3>1. PICK q \in Requests : q = worker[w]
      BY <1>1
    <3>2. s \in Requests /\ s = worker[v]
      BY <1>1, <1>3, <1>5, <2>2
    <3> QED BY <1>1, <1>2, <1>5, <2>2, <3>1, <3>2, OthersReady
  <2> QED BY <2>1, <2>2
<1>6. AllReady'
  BY <1>4, <1>5 DEF AllReady, Ready
<1>7. AllApart'
  BY <1>2, <1>3 DEF AllApart
<1> QED BY <1>6, <1>7 DEF FTInv

-----------------------------------------------------------------------------
(* How a step goes well *)

\* The grants that a step takes back have run out, or no sender heard of them.
GrantsKept ==
  \A id \in Ids :
    /\ file[id].state = "granted" /\ file[id].grant \in heard[id]
    /\ file'[id].state = "offered"
    => file[id].grantExpires <= now

GoesWell == [Next]_vars /\ GrantsKept /\ FTInv'

\* The ledger's invariant survives its part of the step.
LEMMA LedgerGoesOn ==
  ASSUME FTInv, [Next]_vars
  PROVE  Inv'
BY TickStep, SweepStep, RequestStep, StutterStep DEF Next, FTInv

\* What a request knows before its step.
LEMMA Doing ==
  ASSUME FTInv, NEW w \in Workers
  PROVE  /\ worker[w] \in Requests /\ Ready(worker[w])
         /\ \A v \in Workers \ {w} :
              /\ worker[v] \in Requests /\ Ready(worker[v])
              /\ Apart(worker[w], worker[v]) /\ Apart(worker[v], worker[w])
BY DEF FTInv, AllReady, AllApart

\* Most steps of two requests never meet.
LEMMA PlainApart ==
  ASSUME NEW r, NEW s,
         r.at \notin {"deliver", "withdraw", "create", "started", "startFailed", "notify", "revert"},
         r.at = "stored" => r.upload = NoUpload
  PROVE  Apart(r, s) /\ Apart(s, r)
BY DEF Apart

\* A request goes on to a step where it is alone with what it needs.
LEMMA GoesOn ==
  ASSUME FTInv, Inv', Typed', BucketRight', FilesRight', NEW w \in Workers, NEW r \in Requests,
         Then(w, r), Careful(worker[w]), Ready(r)',
         r.at \notin {"deliver", "withdraw", "create", "started", "startFailed", "notify", "revert"},
         r.at = "stored" => r.upload = NoUpload
  PROVE  FTInv'
BY PlainApart, StepKeeps DEF Then

\* A request ends, or has files to clear that the ledger let go.
LEMMA Ends ==
  ASSUME FTInv, Inv', Typed', BucketRight', FilesRight', NEW w \in Workers, Careful(worker[w]),
         NEW S \in SUBSET Goners, \A rec \in S : Gone(rec)', Then(w, Clearing(S))
  PROVE  FTInv'
<1>1. PICK r : r = Clearing(S)
  OBVIOUS
<1>2. r \in Requests /\ r.at \in {"idle", "clear"} /\ (r.at = "clear" => r.gone = S)
  BY <1>1 DEF Clearing, Idle, Requests, Steps
<1>3. Ready(r)'
  <2>1. r.at = "clear" => \A rec \in r.gone : Gone(rec)'
    BY <1>2
  <2> QED BY <1>2, <2>1 DEF Ready
<1> QED BY <1>1, <1>2, <1>3, GoesOn

\* A request ends.
LEMMA Finishes ==
  ASSUME FTInv, Inv', Typed', BucketRight', FilesRight', NEW w \in Workers, Careful(worker[w]),
         Done(w)
  PROVE  FTInv'
<1>1. Then(w, Clearing({}))
  BY DEF Done, Then, Clearing
<1> QED BY <1>1, Ends

\* A record the ledger lets go is one to clear.
LEMMA RemovedGone ==
  ASSUME FTInv, NEW x \in Ids, file'[x].state = "none", Out(x), UNCHANGED <<sent, multi>>,
         NEW rec, rec = Removed(x)
  PROVE  rec \in Goners /\ Gone(rec)'
<1>1. file[x] \in Record /\ FileRight(x)
  BY DEF FTInv, Inv, TypeOK, FilesRight
<1>2. rec \in Goners
  BY <1>1 DEF Removed, Goners, Record, States
<1>3. rec.id = x /\ rec.upload = file[x].upload
  BY DEF Removed
<1> QED BY <1>1, <1>2, <1>3 DEF Gone, FileRight, MadeFor

\* The ledger's part of a step in which files lapse and nothing else changes.
LEMMA LapseGoesOn ==
  ASSUME FTInv, NEW w \in Workers, Lapses, UNCHANGED <<apps, bucket, deaths>>, grants' = grants
  PROVE  Typed' /\ BucketRight' /\ FilesRight' /\ Careful(worker[w])
<1>1. FilesGoOn(worker[w]) /\ FilesRight'
  BY LapsesKeep
<1>2. BucketGoesOn(worker[w]) /\ AppsGoOn(worker[w])
  BY SameBucket, SameApps
<1>3. BucketRight'
  BY <1>1, BucketStays
<1>4. Typed'
  BY DEF FTInv, Typed, apps, bucket
<1> QED BY <1>1, <1>2, <1>3, <1>4 DEF Careful

\* The part of a step that leaves the ledger and the bucket as they are.
LEMMA QuietGoesOn ==
  ASSUME FTInv, NEW w \in Workers, UNCHANGED <<vars, bucket>>, Typed', AppsGoOn(worker[w]),
         sent' = sent
  PROVE  [Next]_vars /\ GrantsKept /\ Inv' /\ BucketRight' /\ FilesRight' /\ Careful(worker[w])
<1>1. UNCHANGED <<file, grants>> /\ [Next]_vars
  BY DEF vars
<1>2. Inv'
  BY <1>1, LedgerGoesOn
<1>3. FilesGoOn(worker[w]) /\ BucketGoesOn(worker[w])
  BY <1>1, SameFiles, SameBucket
<1>4. BucketRight' /\ FilesRight'
  BY <1>1, <1>3, BucketStays, FilesStay
<1>5. GrantsKept
  BY <1>1 DEF GrantsKept
<1> QED BY <1>1, <1>2, <1>3, <1>4, <1>5 DEF Careful

\* ... and the apps' knowledge.
LEMMA StillGoesOn ==
  ASSUME FTInv, NEW w \in Workers, UNCHANGED <<vars, bucket, apps, deaths>>
  PROVE  /\ [Next]_vars /\ GrantsKept /\ Inv' /\ Typed' /\ BucketRight' /\ FilesRight'
         /\ Careful(worker[w])
<1>1. grants' = grants /\ sent' = sent /\ Typed'
  BY DEF vars, apps, FTInv, Typed, bucket
<1> QED BY <1>1, SameApps, QuietGoesOn

-----------------------------------------------------------------------------
(* The steps: offers and their answers *)

\* In a step of Next that asks the ledger nothing new, the type of what it is asked.
LEMMA Asked ==
  ASSUME FTInv, NEW id \in Ids
  PROVE  /\ file[id] \in Record /\ FileRight(id)
         /\ PartCount(file[id].bytes, Size(file[id])) \in Nat \ {0}
         /\ Parts(file[id]) \subseteq Nat
<1>1. file[id] \in Record /\ FileRight(id)
  BY DEF FTInv, Inv, TypeOK, FilesRight
<1>2. file[id].bytes \in Nat /\ Size(file[id]) \in Nat \ {0}
  BY <1>1, FilesAssumption DEF Record, Size
<1> QED BY <1>1, <1>2, PartsType DEF Parts

\* send: an id nobody used is an offer, and its recipient is told.
LEMMA SendOfferKeeps ==
  ASSUME FTInv, NEW w \in Workers, NEW id \in Ids, NEW from \in Names, NEW to \in Names,
         NEW bytes \in Lengths, SendOffer(w, id, from, to, bytes)
  PROVE  GoesWell
<1>1. [Next]_vars
  BY DEF SendOffer, Next, Request
<1>2. Inv'
  BY <1>1, LedgerGoesOn
<1>3. /\ id \notin sent /\ sent \subseteq sent' /\ sent' \subseteq sent \cup {id} /\ sent' \subseteq Ids
      /\ OfferAnswer(id, from, bytes) = "ok" => sent' = sent \cup {id}
      /\ UNCHANGED <<known, heard, got, bucket, deaths>> /\ Offer(id, from, to, bytes) /\ Inv
      /\ id \notin known
  BY DEF SendOffer, FTInv, Typed
<1>4. /\ grants' = grants
      /\ OfferAnswer(id, from, bytes) # "ok" => file' = file
      /\ OfferAnswer(id, from, bytes) = "ok" =>
           /\ file[id].state = "none"
           /\ Becomes(id, [Blank EXCEPT !.state = "offered", !.from = from, !.to = to,
                                        !.bytes = bytes, !.expires = now + OfferTtl])
  BY <1>3, OfferMoves
<1>5. AppsGoOn(worker[w]) /\ BucketGoesOn(worker[w]) /\ Typed'
  BY <1>2, <1>3, <1>4, SameBucket DEF AppsGoOn, FTInv, Typed, bucket, Inv, TypeOK
<1>6. CASE OfferAnswer(id, from, bytes) # "ok"
  <2>1. file' = file /\ Done(w)
    BY <1>4, <1>6 DEF SendOffer
  <2>2. FilesGoOn(worker[w]) /\ FilesRight'
    BY <1>3, <1>5, <2>1, SameFiles, FilesStay
  <2>3. BucketRight' /\ Careful(worker[w]) /\ GrantsKept
    BY <1>3, <1>5, <2>1, <2>2, BucketStays DEF Careful, GrantsKept
  <2> QED BY <1>1, <1>2, <1>5, <2>1, <2>2, <2>3, Finishes DEF GoesWell
<1>7. CASE OfferAnswer(id, from, bytes) = "ok"
  <2>1. /\ file'[id].state = "offered" /\ file'[id].stream = 0 /\ file'[id].upload = NoUpload
        /\ \A x \in Ids \ {id} : file'[x] = file[x]
    BY <1>4, <1>7 DEF Becomes, Blank
  <2>2. FileRight(id)'
    BY <1>3, <1>7, <2>1 DEF FileRight, Out, Goes
  <2>3. FileGoesOn(worker[w], id)
    BY <1>3, <1>4, <1>7, <2>1 DEF FileGoesOn, Began, Goes, Out
  <2>4. FilesGoOn(worker[w]) /\ FilesRight'
    BY <1>3, <1>5, <2>1, <2>2, <2>3, OneKeeps
  <2>5. BucketRight' /\ Careful(worker[w])
    BY <1>3, <1>5, <2>4, BucketStays DEF Careful
  <2>6. GrantsKept
    BY <1>4, <1>7, <2>1 DEF GrantsKept
  <2>7. PICK r : r = Step(id, "deliver")
    OBVIOUS
  <2>8. r \in Requests /\ r.at = "deliver" /\ r.id = id
    BY <2>7 DEF Step, Idle, Requests, Steps
  <2>9. Ready(r)'
    BY <1>3, <1>7, <2>8 DEF Ready
  <2>10. \A v \in Workers \ {w} : Apart(r, worker[v]) /\ Apart(worker[v], r)
    <3>1. TAKE v \in Workers \ {w}
    <3>2. worker[v].at \in {"deliver", "withdraw"} => worker[v].id \in sent
      BY Doing DEF Ready
    <3> QED BY <1>3, <2>8, <3>2 DEF Apart
  <2>11. worker' = [worker EXCEPT ![w] = r]
    BY <1>7, <2>7 DEF SendOffer, Then
  <2> QED BY <1>1, <1>2, <1>5, <2>4, <2>5, <2>6, <2>8, <2>9, <2>10, <2>11, StepKeeps DEF GoesWell
<1> QED BY <1>6, <1>7

\* The offer reaches its recipient, or is to be withdrawn.
LEMMA DeliverKeeps ==
  ASSUME FTInv, NEW w \in Workers, Deliver(w)
  PROVE  GoesWell
<1>1. PICK q \in Requests : q = worker[w] /\ Ready(q)
  BY Doing
<1>2. q.at = "deliver" /\ q.id \in sent /\ q.id \notin known /\ q.id \in Ids
  BY <1>1 DEF Deliver, At, Ready, FTInv, Typed
<1>3. UNCHANGED <<vars, bucket>> /\ sent' = sent /\ Typed' /\ AppsGoOn(worker[w])
  BY <1>1, <1>2 DEF Deliver, Done, vars, bucket, FTInv, Typed, AppsGoOn, Inv, TypeOK
<1>4. /\ [Next]_vars /\ GrantsKept /\ Inv' /\ Typed' /\ BucketRight' /\ FilesRight'
      /\ Careful(worker[w])
  BY <1>3, QuietGoesOn
<1>5. CASE Done(w)
  BY <1>4, <1>5, Finishes DEF GoesWell
<1>6. CASE known' = known /\ Then(w, Step(worker[w].id, "withdraw"))
  <2>1. PICK r : r = Step(q.id, "withdraw")
    OBVIOUS
  <2>2. r \in Requests /\ r.at = "withdraw" /\ r.id = q.id
    BY <2>1 DEF Step, Idle, Requests, Steps
  <2>3. Ready(r)'
    BY <1>2, <1>3, <1>6, <2>2 DEF Ready
  <2>4. \A v \in Workers \ {w} : Apart(r, worker[v]) /\ Apart(worker[v], r)
    BY <1>1, <1>2, <2>2, Doing DEF Apart
  <2>5. worker' = [worker EXCEPT ![w] = r]
    BY <1>1, <1>6, <2>1 DEF Then
  <2> QED BY <1>4, <2>2, <2>3, <2>4, <2>5, StepKeeps DEF GoesWell
<1> QED BY <1>5, <1>6 DEF Deliver

\* A request after its record is gone: what the removal let go is cleared, and grants stay.
LEMMA RemoveGoesOn ==
  ASSUME FTInv, NEW w \in Workers, NEW id \in Ids, NEW name \in Names \cup {Nobody},
         Remove(id, name), UNCHANGED <<apps, bucket, deaths>>
  PROVE  /\ [Next]_vars /\ GrantsKept /\ Inv' /\ Typed' /\ BucketRight' /\ FilesRight'
         /\ Careful(worker[w])
         /\ RemoveAnswer(id, name) = "removed" => Out(id) /\ file'[id].state = "none"
         /\ name = Nobody => file'[id].state = "none"
<1>1. [Next]_vars
  BY DEF Next, Request
<1>2. Inv' /\ Inv
  BY <1>1, LedgerGoesOn DEF FTInv
<1>3. /\ Lapses /\ grants' = grants
      /\ \A x \in Ids \ {id} : file'[x] = file[x]
      /\ RemoveAnswer(id, name) = "removed" => Out(id) /\ file'[id] = Blank
      /\ RemoveAnswer(id, name) # "removed" => file' = file
      /\ name = Nobody => file'[id].state = "none"
  BY <1>2, RemoveMoves
<1>4. GrantsKept
  BY <1>3 DEF GrantsKept, Blank
<1>5. Typed' /\ BucketRight' /\ FilesRight' /\ Careful(worker[w])
  BY <1>3, LapseGoesOn
<1> QED BY <1>1, <1>2, <1>3, <1>4, <1>5 DEF Blank

\* An offer nobody hears of is withdrawn.
LEMMA WithdrawKeeps ==
  ASSUME FTInv, NEW w \in Workers, Withdraw(w)
  PROVE  GoesWell
<1>1. worker[w].id \in Ids /\ Remove(worker[w].id, Nobody) /\ Done(w) /\ UNCHANGED <<apps, bucket, deaths>>
  BY Doing DEF Withdraw, At, Ready, FTInv, Typed
<1>2. /\ [Next]_vars /\ GrantsKept /\ Inv' /\ Typed' /\ BucketRight' /\ FilesRight'
      /\ Careful(worker[w])
  BY <1>1, RemoveGoesOn
<1> QED BY <1>1, <1>2, Finishes DEF GoesWell

\* cancel: the record goes, and what it held is to be cleared.
LEMMA CancelKeeps ==
  ASSUME FTInv, NEW w \in Workers, NEW id \in Ids, NEW name \in Names, Cancel(w, id, name)
  PROVE  GoesWell
<1>1. Remove(id, name) /\ UNCHANGED <<apps, bucket, deaths>> /\ UNCHANGED <<sent, multi>>
  BY DEF Cancel, apps, bucket
<1>2. /\ [Next]_vars /\ GrantsKept /\ Inv' /\ Typed' /\ BucketRight' /\ FilesRight'
      /\ Careful(worker[w])
      /\ RemoveAnswer(id, name) = "removed" => Out(id) /\ file'[id].state = "none"
  BY <1>1, RemoveGoesOn
<1>3. PICK S : S = IF RemoveAnswer(id, name) = "removed" THEN {Removed(id)} ELSE {}
  OBVIOUS
<1>4. ASSUME NEW rec \in S PROVE rec \in Goners /\ Gone(rec)'
  BY <1>1, <1>2, <1>3, <1>4, RemovedGone
<1>5. S \in SUBSET Goners /\ \A rec \in S : Gone(rec)'
  BY <1>4
<1>6. Then(w, Clearing(S))
  BY <1>3 DEF Cancel
<1> QED BY <1>2, <1>5, <1>6, Ends DEF GoesWell

\* A start that made no upload takes the record with it.
LEMMA StartFailedKeeps ==
  ASSUME FTInv, NEW w \in Workers, StartFailed(w)
  PROVE  GoesWell
<1>1. PICK id \in Ids : id = worker[w].id
  BY Doing DEF StartFailed, At, Ready, FTInv, Typed
<1>2. Remove(id, Nobody) /\ UNCHANGED <<apps, bucket, deaths>> /\ UNCHANGED <<sent, multi>>
  BY <1>1 DEF StartFailed, apps, bucket
<1>3. /\ [Next]_vars /\ GrantsKept /\ Inv' /\ Typed' /\ BucketRight' /\ FilesRight'
      /\ Careful(worker[w]) /\ file'[id].state = "none"
  BY <1>2, RemoveGoesOn
<1>4. PICK S : S = IF Out(id) THEN {Removed(id)} ELSE {}
  OBVIOUS
<1>5. ASSUME NEW rec \in S PROVE rec \in Goners /\ Gone(rec)'
  BY <1>2, <1>3, <1>4, <1>5, RemovedGone
<1>6. S \in SUBSET Goners /\ \A rec \in S : Gone(rec)'
  BY <1>5
<1>7. Then(w, Clearing(S))
  BY <1>1, <1>4 DEF StartFailed
<1> QED BY <1>3, <1>6, <1>7, Ends DEF GoesWell

\* A file passed on goes.
LEMMA FilePassedKeeps ==
  ASSUME FTInv, NEW w \in Workers, FilePassed(w)
  PROVE  GoesWell
<1>1. PICK q \in Requests : q = worker[w] /\ Ready(q)
  BY Doing
<1>2. q.at = "passed" /\ q.id \in Ids /\ q.id \in sent
  BY <1>1 DEF FilePassed, At, Ready, FTInv, Typed
<1>3. Remove(q.id, Nobody) /\ UNCHANGED <<apps, bucket, deaths>> /\ UNCHANGED <<sent, multi>>
  BY <1>1 DEF FilePassed, apps, bucket
<1>4. /\ [Next]_vars /\ GrantsKept /\ Inv' /\ Typed' /\ BucketRight' /\ FilesRight'
      /\ Careful(worker[w]) /\ file'[q.id].state = "none"
  BY <1>2, <1>3, RemoveGoesOn
<1>5. PICK S : S = IF Out(q.id) /\ file[q.id].stream > 0 THEN {Removed(q.id)} ELSE q.gone
  OBVIOUS
<1>6. ASSUME NEW rec \in S PROVE rec \in Goners /\ Gone(rec)'
  <2>1. CASE Out(q.id) /\ rec = Removed(q.id)
    BY <1>2, <1>3, <1>4, <2>1, RemovedGone
  <2>2. CASE rec \in q.gone
    <3>1. rec.id = q.id /\ rec.upload = NoUpload
      BY <1>1, <1>2, <2>2 DEF Ready
    <3> QED BY <1>1, <1>2, <1>3, <1>4, <2>2, <3>1 DEF Requests, Gone
  <2> QED BY <1>5, <1>6, <2>1, <2>2
<1>7. S \in SUBSET Goners /\ \A rec \in S : Gone(rec)'
  BY <1>6
<1>8. Then(w, Clearing(S))
  BY <1>1, <1>5 DEF FilePassed
<1> QED BY <1>4, <1>7, <1>8, Ends DEF GoesWell

\* The hourly cron: all that lapsed is to be cleared.
LEMMA SweepFilesKeeps ==
  ASSUME FTInv, NEW w \in Workers, SweepFiles(w)
  PROVE  GoesWell
<1>1. Sweep /\ UNCHANGED <<apps, bucket, deaths>> /\ UNCHANGED <<sent, multi>> /\ [Next]_vars
  BY DEF SweepFiles, apps, bucket, Next
<1>2. Inv' /\ Inv
  BY <1>1, LedgerGoesOn DEF FTInv
<1>3. /\ Lapses /\ grants' = grants
      /\ \A x \in Ids : file'[x] # file[x] =>
           \/ x \in Swept /\ file'[x] = Blank
           \/ /\ file[x].state = "granted" /\ file[x].grantExpires <= now
              /\ file'[x] = Offered(file[x])
      /\ \A x \in Swept : file'[x] = Blank /\ Out(x) /\ file[x].state # "granted"
  BY <1>1, <1>2, SweepMoves
<1>4. GrantsKept
  BY <1>3 DEF GrantsKept, Blank
<1>5. Typed' /\ BucketRight' /\ FilesRight' /\ Careful(worker[w])
  BY <1>1, <1>3, LapseGoesOn
<1>6. PICK S : S = {Removed(id) : id \in Swept}
  OBVIOUS
<1>7. ASSUME NEW rec \in S PROVE rec \in Goners /\ Gone(rec)'
  <2>1. PICK x \in Swept : rec = Removed(x)
    BY <1>6, <1>7
  <2>2. x \in Ids /\ Out(x) /\ file'[x].state = "none"
    BY <1>3 DEF Swept, Blank
  <2> QED BY <1>1, <2>1, <2>2, RemovedGone
<1>8. S \in SUBSET Goners /\ \A rec \in S : Gone(rec)'
  BY <1>7
<1>9. Then(w, Clearing(S))
  BY <1>6 DEF SweepFiles
<1> QED BY <1>1, <1>2, <1>4, <1>5, <1>8, <1>9, Ends DEF GoesWell

\* accept: a grant of a new number, of which nobody heard yet.
LEMMA AcceptKeeps ==
  ASSUME FTInv, NEW w \in Workers, NEW id \in Ids, NEW name \in Names, Accept(w, id, name)
  PROVE  GoesWell
<1>1. Grant(id, name) /\ UNCHANGED <<apps, bucket, deaths>> /\ [Next]_vars /\ id \in known
      /\ UNCHANGED <<sent, known, heard, got, objects, pieces, multi>>
  BY DEF Accept, apps, bucket, Next, Request
<1>2. Inv' /\ Inv
  BY <1>1, LedgerGoesOn DEF FTInv
<1>3. /\ GrantAnswer(id, name) # "ok" =>
           /\ Lapses /\ grants' = grants
           /\ \A x \in Ids : file'[x] # file[x] => x = id /\ file[id].state = "offered"
      /\ GrantAnswer(id, name) = "ok" =>
           /\ grants' = grants + 1 /\ file[id].state = "offered"
           /\ Becomes(id, [file[id] EXCEPT !.state = "granted", !.grant = grants + 1,
                                           !.grantExpires = now + GrantTtl, !.day = Today])
  BY <1>1, <1>2, GrantMoves
<1>4. CASE GrantAnswer(id, name) # "ok"
  <2>1. Typed' /\ BucketRight' /\ FilesRight' /\ Careful(worker[w])
    BY <1>1, <1>3, <1>4, LapseGoesOn
  <2>2. GrantsKept
    BY <1>3, <1>4 DEF GrantsKept
  <2>3. Done(w)
    BY <1>4 DEF Accept
  <2> QED BY <1>1, <1>2, <2>1, <2>2, <2>3, Finishes DEF GoesWell
<1>5. CASE GrantAnswer(id, name) = "ok"
  <2>1. file[id] \in Record /\ FileRight(id) /\ grants \in Nat /\ grants' = grants + 1
        /\ heard \in [Ids -> SUBSET (1 .. grants)]
    BY <1>2, <1>3, <1>5, Asked DEF Inv, TypeOK, FTInv, Typed
  <2>2. /\ file'[id].state = "granted" /\ file'[id].grant = grants'
        /\ file'[id].stream = file[id].stream /\ file'[id].upload = file[id].upload
        /\ file'[id].bytes = file[id].bytes
        /\ \A x \in Ids \ {id} : file'[x] = file[x]
    BY <1>3, <1>5, <2>1 DEF Becomes, Record
  <2>3. id \in sent /\ file[id].state = "offered"
    BY <1>1, <1>3, <1>5 DEF FTInv, Typed
  <2>4. FileRight(id)'
    BY <1>1, <2>1, <2>2, <2>3 DEF FileRight, Out, Goes
  <2>5. FileGoesOn(worker[w], id)
    BY <2>2, <2>3 DEF FileGoesOn, Began, Goes, Out
  <2>6. AppsGoOn(worker[w])
    BY <1>1, <2>1 DEF AppsGoOn
  <2>7. FilesGoOn(worker[w]) /\ FilesRight'
    BY <1>1, <2>2, <2>4, <2>5, <2>6, OneKeeps
  <2>8. BucketRight' /\ Careful(worker[w])
    BY <1>1, <2>6, <2>7, SameBucket, BucketStays DEF Careful
  <2>9. Typed'
    <3>1. 1 .. grants \subseteq 1 .. grants'
      BY <2>1
    <3> QED BY <1>1, <2>1, <3>1 DEF FTInv, Typed
  <2>10. GrantsKept
    BY <2>2, <2>3 DEF GrantsKept
  <2>11. PICK r : r = [Step(id, "notify") EXCEPT !.grant = grants']
    OBVIOUS
  <2>12. r \in Requests /\ r.at = "notify" /\ r.id = id /\ r.grant = grants'
    <3>1. PICK g \in Nat : g = grants'
      BY <2>1
    <3>2. r = [Step(id, "notify") EXCEPT !.grant = g]
      BY <2>11, <3>1
    <3> QED BY <3>1, <3>2 DEF Step, Idle, Requests, Steps
  <2>13. Ready(r)'
    <3>1. r.grant \in 1 .. grants' /\ r.grant \notin heard'[id] /\ id \in sent'
      BY <1>1, <2>1, <2>3, <2>12
    <3> QED BY <2>12, <3>1 DEF Ready
  <2>14. \A v \in Workers \ {w} : Apart(r, worker[v]) /\ Apart(worker[v], r)
    <3>1. TAKE v \in Workers \ {w}
    <3>2. worker[v].at \in {"notify", "revert"} => worker[v].grant \in 1 .. grants
      BY Doing DEF Ready
    <3>3. worker[v].at \in {"notify", "revert"} => worker[v].grant # r.grant
      BY <2>1, <2>12, <3>2
    <3> QED BY <2>12, <3>3 DEF Apart
  <2>15. worker' = [worker EXCEPT ![w] = r]
    BY <1>5, <2>11 DEF Accept, Then
  <2> QED BY <1>1, <1>2, <2>7, <2>8, <2>9, <2>10, <2>12, <2>13, <2>14, <2>15, StepKeeps DEF GoesWell
<1> QED BY <1>4, <1>5

\* The sender hears of the grant, or it is to be reverted.
LEMMA NotifyKeeps ==
  ASSUME FTInv, NEW w \in Workers, NotifyAccepted(w)
  PROVE  GoesWell
<1>1. PICK q \in Requests : q = worker[w] /\ Ready(q)
  BY Doing
<1>2. q.at = "notify" /\ q.id \in sent /\ q.id \in Ids /\ q.grant \in 1 .. grants
  BY <1>1 DEF NotifyAccepted, At, Ready, FTInv, Typed
<1>3. CASE heard' = [heard EXCEPT ![q.id] = @ \cup {q.grant}] /\ Done(w)
  <2>1. UNCHANGED <<vars, sent, known, got, bucket, deaths>>
    BY DEF NotifyAccepted
  <2>2. Typed' /\ AppsGoOn(worker[w])
    <3>1. heard \in [Ids -> SUBSET (1 .. grants)] /\ grants' = grants /\ grants \in Nat
      BY <2>1 DEF FTInv, Typed, vars, Inv, TypeOK
    <3>2. heard' \in [Ids -> SUBSET (1 .. grants')]
      BY <1>2, <1>3, <3>1
    <3>3. \A x \in Ids : \A g \in heard'[x] : g \notin heard[x] => g = q.grant
      BY <1>2, <1>3, <3>1
    <3>4. Typed'
      BY <2>1, <3>2 DEF FTInv, Typed, bucket
    <3> QED BY <1>1, <1>2, <2>1, <3>1, <3>3, <3>4 DEF AppsGoOn
  <2> QED BY <1>3, <2>1, <2>2, QuietGoesOn, Finishes DEF GoesWell
<1>4. CASE heard' = heard /\ Then(w, [q EXCEPT !.at = "revert"])
  <2>1. UNCHANGED <<vars, bucket, apps, deaths>>
    BY <1>4 DEF NotifyAccepted, apps
  <2>2. /\ [Next]_vars /\ GrantsKept /\ Inv' /\ Typed' /\ BucketRight' /\ FilesRight'
        /\ Careful(worker[w])
    BY <2>1, StillGoesOn
  <2>3. PICK r : r = [q EXCEPT !.at = "revert"]
    OBVIOUS
  <2>4. r \in Requests /\ r.at = "revert" /\ r.id = q.id /\ r.grant = q.grant
    BY <1>1, <2>3 DEF Requests, Steps
  <2>5. Ready(r)'
    BY <1>1, <1>2, <2>1, <2>4 DEF Ready, apps, vars
  <2>6. \A v \in Workers \ {w} : Apart(r, worker[v]) /\ Apart(worker[v], r)
    BY <1>1, <1>2, <2>4, Doing DEF Apart
  <2>7. worker' = [worker EXCEPT ![w] = r]
    BY <1>4, <2>3 DEF Then
  <2> QED BY <2>2, <2>4, <2>5, <2>6, <2>7, StepKeeps DEF GoesWell
<1> QED BY <1>1, <1>3, <1>4 DEF NotifyAccepted

\* A grant that no sender heard of is taken back.
LEMMA RevertKeeps ==
  ASSUME FTInv, NEW w \in Workers, RevertGrant(w)
  PROVE  GoesWell
<1>1. PICK q \in Requests : q = worker[w] /\ Ready(q)
  BY Doing
<1>2. q.at = "revert" /\ q.id \in Ids /\ q.grant \in 1 .. grants /\ q.grant \notin heard[q.id]
  BY <1>1 DEF RevertGrant, At, Ready, FTInv, Typed
<1>3. Revert(q.id, q.grant) /\ Done(w) /\ UNCHANGED <<apps, bucket, deaths>>
  BY <1>1 DEF RevertGrant
<1>4. [Next]_vars
  <2>1. q.grant \in 1 .. MaxGrants
    <3>1. grants \in 0 .. MaxGrants /\ MaxGrants \in Nat
      BY LedgerAssumption DEF FTInv, Inv, TypeOK, LedgerAssumption
    <3> QED BY <1>2, <3>1
  <2> QED BY <1>2, <1>3, <2>1 DEF Next, Request
<1>5. Inv' /\ Inv
  BY <1>4, LedgerGoesOn DEF FTInv
<1>6. /\ Lapses /\ grants' = grants
      /\ \A x \in Ids : file'[x] # file[x] =>
           /\ x = q.id /\ file[q.id].state = "granted" /\ file[q.id].grant = q.grant
           /\ file'[q.id] = Offered(file[q.id])
  BY <1>2, <1>3, <1>5, RevertMoves
<1>7. GrantsKept
  BY <1>2, <1>6 DEF GrantsKept
<1>8. Typed' /\ BucketRight' /\ FilesRight' /\ Careful(worker[w])
  BY <1>3, <1>6, LapseGoesOn
<1> QED BY <1>3, <1>4, <1>5, <1>7, <1>8, Finishes DEF GoesWell

-----------------------------------------------------------------------------
(* The steps: what is in the bucket *)

\* A step that leaves the ledger and the apps as they are.
LEMMA BucketGoes ==
  ASSUME FTInv, NEW w \in Workers, UNCHANGED <<vars, apps, deaths>>, BucketGoesOn(worker[w]),
         Typed', BucketRight'
  PROVE  [Next]_vars /\ GrantsKept /\ Inv' /\ FilesRight' /\ Careful(worker[w])
<1>1. UNCHANGED <<file, grants>> /\ [Next]_vars /\ sent' = sent
  BY DEF vars, apps
<1>2. Inv'
  BY <1>1, LedgerGoesOn
<1>3. FilesGoOn(worker[w]) /\ AppsGoOn(worker[w])
  BY <1>1, SameFiles, SameApps
<1>4. FilesRight'
  BY <1>1, <1>3, FilesStay
<1>5. GrantsKept
  BY <1>1 DEF GrantsKept
<1> QED BY <1>1, <1>2, <1>3, <1>4, <1>5 DEF Careful

\* What is put in the bucket belongs there, and no upload is new.
LEMMA BucketFilled ==
  ASSUME FTInv, UNCHANGED <<file, sent>>,
         \A x \in objects' : x \in objects \/ Began(x),
         \A p \in pieces' : p \in pieces \/ (Began(p[1]) /\ Piece(p[1], p[2])),
         \A u \in Uploads : /\ multi'[u].id = multi[u].id
                            /\ multi'[u].state = "none" <=> multi[u].state = "none"
                            /\ multi'[u].state = "open" => multi[u].state = "open"
  PROVE  BucketRight'
<1>1. BucketRight
  BY DEF FTInv
<1>2. \A x : Began(x) => Began(x)'
  BY DEF Began
<1>3. \A x, n : Piece(x, n) => Piece(x, n)'
  BY DEF Piece, Out
<1>4. \A u, x : MadeFor(u, x)' <=> MadeFor(u, x)
  BY DEF MadeFor
<1>5. \A x : Out(x)' <=> Out(x)
  BY DEF Out
<1>6. \A x \in objects' : Began(x)'
  BY <1>1, <1>2 DEF BucketRight
<1>7. \A p \in pieces' : Began(p[1])' /\ Piece(p[1], p[2])'
  BY <1>1, <1>2, <1>3 DEF BucketRight
<1>8. ASSUME NEW u \in Uploads, multi'[u].state # "none", NEW x, x = multi'[u].id
      PROVE  /\ Began(x)' /\ (Out(x)' => file'[x].stream = 0)
             /\ multi'[u].state = "open" => file'[x].state # "stored"
             /\ \A v \in Uploads : MadeFor(v, x)' => v = u
  BY <1>1, <1>2, <1>4, <1>5, <1>8 DEF BucketRight
<1> QED BY <1>6, <1>7, <1>8 DEF BucketRight, Began, Out, MadeFor

\* clear: what goes belongs to no record.
LEMMA ClearKeeps ==
  ASSUME FTInv, NEW w \in Workers, Clear(w)
  PROVE  GoesWell
<1>1. PICK q \in Requests : q = worker[w] /\ Ready(q)
  BY Doing
<1>2. PICK rec \in q.gone :
        /\ Then(w, Clearing(q.gone \ {rec})) /\ q.at = "clear"
        /\ \/ /\ rec.stream > 0 /\ rec.state \in {"uploading", "stored"}
              /\ pieces' = pieces \ PartKeys(rec)
              /\ UNCHANGED <<objects, multi>>
           \/ /\ rec.stream = 0 /\ rec.state = "uploading" /\ rec.upload # NoUpload
              /\ multi' = [multi EXCEPT ![rec.upload].state = IF @ = "open" THEN "over" ELSE @]
              /\ UNCHANGED <<objects, pieces>>
           \/ /\ rec.stream = 0 /\ rec.state = "stored"
              /\ objects' = objects \ {rec.id}
              /\ UNCHANGED <<pieces, multi>>
           \/ UNCHANGED bucket
        /\ UNCHANGED <<vars, apps, deaths>>
  BY <1>1 DEF Clear, At
<1>3. /\ \A x \in q.gone : x \in Goners /\ Gone(x)
      /\ rec.id \in Ids /\ ~Out(rec.id) /\ ~Goes(rec.id)
      /\ rec.upload # NoUpload => MadeFor(rec.upload, rec.id)
  BY <1>1, <1>2 DEF Requests, Ready, Gone, Goners, Out, Goes
<1>4. UNCHANGED <<file, sent, known, heard, got, deaths, grants>>
  BY <1>2 DEF vars, apps
<1>5. Typed /\ multi \in [Uploads -> Multis]
  BY DEF FTInv, Typed
<1>6. BucketGoesOn(q) /\ BucketRight' /\ Typed'
  <2>1. CASE pieces' = pieces \ PartKeys(rec) /\ UNCHANGED <<objects, multi>>
    <3>1. \A p \in pieces : p \notin pieces' => ~Goes(p[1])
      BY <1>3, <2>1 DEF PartKeys
    <3> QED BY <1>4, <1>5, <2>1, <3>1, BucketFilled DEF BucketGoesOn, Typed
  <2>2. CASE /\ rec.upload # NoUpload
             /\ multi' = [multi EXCEPT ![rec.upload].state = IF @ = "open" THEN "over" ELSE @]
             /\ UNCHANGED <<objects, pieces>>
    <3>1. PICK u \in Uploads : u = rec.upload /\ multi[u].state # "none" /\ ~Goes(multi[u].id)
      BY <1>3, <2>2 DEF MadeFor
    <3>2. \A v \in Uploads \ {u} : multi'[v] = multi[v]
      BY <1>5, <2>2, <3>1
    <3>3. /\ multi'[u] \in Multis /\ multi'[u].id = multi[u].id /\ multi'[u].parts = multi[u].parts
          /\ multi'[u].state = IF multi[u].state = "open" THEN "over" ELSE multi[u].state
      BY <1>5, <2>2, <3>1 DEF Multis
    <3>4. BucketGoesOn(q)
      BY <2>2, <3>1, <3>2, <3>3 DEF BucketGoesOn
    <3>5. BucketRight'
      BY <1>4, <2>2, <3>1, <3>2, <3>3, BucketFilled
    <3>6. multi' \in [Uploads -> Multis]
      BY <1>5, <2>2, <3>1, <3>2, <3>3
    <3> QED BY <1>4, <1>5, <2>2, <3>4, <3>5, <3>6 DEF Typed
  <2>3. CASE objects' = objects \ {rec.id} /\ UNCHANGED <<pieces, multi>>
    BY <1>3, <1>4, <1>5, <2>3, BucketFilled DEF BucketGoesOn, Typed
  <2>4. CASE UNCHANGED bucket
    BY <1>4, <1>5, <2>4, BucketFilled, SameBucket DEF Typed, bucket
  <2> QED BY <1>2, <2>1, <2>2, <2>3, <2>4
<1>7. [Next]_vars /\ GrantsKept /\ Inv' /\ FilesRight' /\ Careful(worker[w])
  BY <1>1, <1>2, <1>6, BucketGoes
<1>8. PICK S : S = q.gone \ {rec}
  OBVIOUS
<1>9. ASSUME NEW x \in S PROVE x \in Goners /\ Gone(x)'
  <2>1. x.upload # NoUpload => MadeFor(x.upload, x.id)'
    BY <1>3, <1>6, <1>8, <1>9, MadeForStays DEF Gone
  <2> QED BY <1>3, <1>4, <1>8, <1>9, <2>1 DEF Gone
<1>10. S \in SUBSET Goners /\ \A x \in S : Gone(x)'
  BY <1>9
<1>11. Then(w, Clearing(S))
  BY <1>2, <1>8
<1> QED BY <1>6, <1>7, <1>10, <1>11, Ends DEF GoesWell

\* The upload of a file meanwhile gone is aborted.
LEMMA AbortKeeps ==
  ASSUME FTInv, NEW w \in Workers, AbortUpload(w)
  PROVE  GoesWell
<1>1. PICK q \in Requests : q = worker[w] /\ Ready(q)
  BY Doing
<1>2. PICK u \in Uploads : /\ u = q.upload /\ multi[u].state # "none" /\ ~Goes(multi[u].id)
                           /\ multi' = [multi EXCEPT ![u].state = "over"]
  BY <1>1 DEF AbortUpload, At, Ready, MadeFor
<1>3. /\ Done(w) /\ UNCHANGED <<vars, apps, deaths>>
      /\ UNCHANGED <<file, sent, known, heard, got, objects, pieces, deaths, grants>>
  BY DEF AbortUpload, vars, apps
<1>4. Typed /\ multi \in [Uploads -> Multis]
  BY DEF FTInv, Typed
<1>5. \A v \in Uploads \ {u} : multi'[v] = multi[v]
  BY <1>2, <1>4
<1>6. /\ multi'[u] \in Multis /\ multi'[u].id = multi[u].id /\ multi'[u].parts = multi[u].parts
      /\ multi'[u].state = "over"
  BY <1>2, <1>4 DEF Multis
<1>7. BucketGoesOn(q)
  BY <1>2, <1>3, <1>5, <1>6 DEF BucketGoesOn
<1>8. BucketRight'
  BY <1>2, <1>3, <1>5, <1>6, BucketFilled
<1>9. multi' \in [Uploads -> Multis]
  BY <1>2, <1>4, <1>5, <1>6
<1>10. Typed'
  BY <1>3, <1>4, <1>9 DEF Typed
<1> QED BY <1>1, <1>3, <1>7, <1>8, <1>10, BucketGoes, Finishes DEF GoesWell

\* A streamed file's part is put.
LEMMA PutPieceKeeps ==
  ASSUME FTInv, NEW w \in Workers, PutPiece(w)
  PROVE  GoesWell
<1>1. PICK q \in Requests : q = worker[w] /\ Ready(q)
  BY Doing
<1>2. /\ q.at = "put" /\ q.id \in Ids /\ q.n \in Nat /\ Began(q.id) /\ Piece(q.id, q.n)
      /\ UNCHANGED <<vars, apps, objects, multi, deaths>>
      /\ UNCHANGED <<file, sent, known, heard, got, grants>> /\ Typed
  BY <1>1 DEF PutPiece, At, Ready, FTInv, Typed, Requests, vars, apps
<1>3. CASE /\ pieces' = pieces \cup {<<q.id, q.n>>}
           /\ Then(w, [q EXCEPT !.at = "putDone"])
  <2>1. BucketGoesOn(q)
    BY <1>2, <1>3 DEF BucketGoesOn
  <2>2. BucketRight'
    BY <1>2, <1>3, BucketFilled
  <2>3. Typed'
    BY <1>2, <1>3 DEF Typed
  <2>4. PICK r : r = [q EXCEPT !.at = "putDone"]
    OBVIOUS
  <2>5. r \in Requests /\ r.at = "putDone" /\ r.id = q.id /\ r.n = q.n
    BY <1>1, <2>4 DEF Requests, Steps
  <2>6. Ready(r)'
    BY <1>2, <1>3, <2>5 DEF Ready, Began, Piece, Out
  <2> QED BY <1>1, <1>2, <1>3, <2>1, <2>2, <2>3, <2>4, <2>5, <2>6, BucketGoes, GoesOn DEF GoesWell
<1>4. CASE pieces' = pieces /\ Done(w)
  BY <1>2, <1>4, StillGoesOn, Finishes DEF GoesWell, bucket
<1> QED BY <1>1, <1>3, <1>4 DEF PutPiece

\* A part put for a file meanwhile gone is deleted.
LEMMA UnputKeeps ==
  ASSUME FTInv, NEW w \in Workers, Unput(w)
  PROVE  GoesWell
<1>1. PICK q \in Requests : q = worker[w] /\ Ready(q)
  BY Doing
<1>2. /\ ~Goes(q.id) /\ UNCHANGED <<vars, apps, deaths>> /\ Done(w) /\ Typed
      /\ UNCHANGED <<file, sent, known, heard, got, grants, objects, multi, deaths>>
      /\ pieces' = pieces \ {<<q.id, q.n>>}
  BY <1>1 DEF Unput, At, Ready, FTInv, vars, apps
<1>3. BucketGoesOn(q) /\ BucketRight' /\ Typed'
  BY <1>2, BucketFilled DEF BucketGoesOn, Typed
<1> QED BY <1>1, <1>2, <1>3, BucketGoes, Finishes DEF GoesWell

\* A part of a multipart upload is put.
LEMMA UploadPartKeeps ==
  ASSUME FTInv, NEW w \in Workers, UploadPart(w)
  PROVE  GoesWell
<1>1. PICK q \in Requests : q = worker[w] /\ Ready(q)
  BY Doing
<1>2. /\ q.at = "uploadPart" /\ q.id \in Ids /\ q.n \in Nat /\ UploadOf(q.upload, q.id)
      /\ Goes(q.id) => q.n \in Parts(file[q.id])
      /\ UNCHANGED <<vars, apps, objects, pieces, deaths>>
      /\ UNCHANGED <<file, sent, known, heard, got, grants>> /\ Typed
      /\ multi \in [Uploads -> Multis]
  BY <1>1 DEF UploadPart, At, Ready, FTInv, Typed, Requests, vars, apps
<1>3. ASSUME NEW u \in Uploads, u = q.upload, multi[u].state = "open",
             multi' = [multi EXCEPT ![u].parts = @ \cup {q.n}],
             Then(w, [q EXCEPT !.at = "uploadPartDone"])
      PROVE  GoesWell
  <2>1. \A v \in Uploads \ {u} : multi'[v] = multi[v]
    BY <1>2, <1>3
  <2>2. /\ multi'[u] \in Multis /\ multi'[u].id = multi[u].id
        /\ multi'[u].parts = multi[u].parts \cup {q.n} /\ multi'[u].state = multi[u].state
    BY <1>2, <1>3 DEF Multis
  <2>3. BucketGoesOn(q)
    BY <1>2, <1>3, <2>1, <2>2 DEF BucketGoesOn
  <2>4. BucketRight'
    BY <1>2, <1>3, <2>1, <2>2, BucketFilled
  <2>5. multi' \in [Uploads -> Multis]
    BY <1>2, <1>3, <2>1, <2>2
  <2>6. Typed'
    BY <1>2, <2>5 DEF Typed
  <2>7. PICK r : r = [q EXCEPT !.at = "uploadPartDone"]
    OBVIOUS
  <2>8. r \in Requests /\ r.at = "uploadPartDone" /\ r.id = q.id /\ r.n = q.n /\ r.upload = u
    BY <1>1, <1>3, <2>7 DEF Requests, Steps
  <2>9. Ready(r)'
    <3>1. UploadOf(u, q.id)'
      BY <1>2, <1>3, <2>2 DEF UploadOf, MadeFor, Began, Goes
    <3>2. Goes(q.id)' => q.n \in Parts(file'[q.id])
      BY <1>2 DEF Goes
    <3>3. q.id \in sent' /\ q.n \in multi'[u].parts
      BY <1>2, <2>2 DEF UploadOf, Began
    <3> QED BY <2>8, <3>1, <3>2, <3>3 DEF Ready
  <2> QED BY <1>1, <1>2, <1>3, <2>3, <2>4, <2>6, <2>7, <2>8, <2>9, BucketGoes, GoesOn DEF GoesWell
<1>4. CASE multi' = multi /\ Done(w)
  BY <1>2, <1>4, StillGoesOn, Finishes DEF GoesWell, bucket
<1>5. q.upload \in Uploads
  BY <1>2 DEF UploadOf, MadeFor
<1> QED BY <1>1, <1>3, <1>4, <1>5 DEF UploadPart

\* createMultipartUpload: an upload for a file that has none, or none is made.
LEMMA CreateKeeps ==
  ASSUME FTInv, NEW w \in Workers, CreateUpload(w)
  PROVE  GoesWell
<1>1. PICK q \in Requests : q = worker[w] /\ Ready(q)
  BY Doing
<1> DEFINE id == q.id
<1>2. /\ q.at = "create" /\ id \in Ids /\ Began(id) /\ id \in sent /\ file[id].state # "stored"
      /\ \A v \in Uploads : ~MadeFor(v, id)
      /\ Goes(id) => file[id].stream = 0 /\ file[id].upload = NoUpload
      /\ UNCHANGED <<vars, apps, objects, pieces, deaths>>
      /\ UNCHANGED <<file, sent, known, heard, got, grants>> /\ Typed
      /\ multi \in [Uploads -> Multis]
  BY <1>1 DEF CreateUpload, At, Ready, FTInv, Typed, Requests, vars, apps
<1>3. ASSUME NEW u \in Uploads, multi[u].state = "none",
             multi' = [multi EXCEPT ![u] = [state |-> "open", id |-> id, parts |-> {}]],
             Then(w, [Step(id, "started") EXCEPT !.upload = u])
      PROVE  GoesWell
  <2>1. \A v \in Uploads \ {u} : multi'[v] = multi[v]
    BY <1>2, <1>3
  <2>2. /\ multi'[u] = [state |-> "open", id |-> id, parts |-> {}]
        /\ multi'[u].state = "open" /\ multi'[u].id = id
    BY <1>2, <1>3
  <2>3. BucketGoesOn(q)
    BY <1>2, <1>3, <2>1, <2>2 DEF BucketGoesOn
  <2>4. BucketRight'
    <3>1. BucketRight /\ \A x : Began(x)' <=> Began(x)
      BY <1>2 DEF FTInv, Began
    <3>2. \A x \in objects' : Began(x)'
      BY <1>2, <3>1 DEF BucketRight
    <3>3. \A p \in pieces' : Began(p[1])' /\ Piece(p[1], p[2])'
      BY <1>2, <3>1 DEF BucketRight, Piece, Out
    <3>4. \A v \in Uploads, x \in Ids : MadeFor(v, x)' <=> (MadeFor(v, x) \/ (v = u /\ x = id))
      BY <1>3, <2>1, <2>2 DEF MadeFor
    <3>5. Out(id) => file[id].stream = 0
      BY <1>2, Asked DEF Record, Began, Goes, Out
    <3>6. ASSUME NEW v \in Uploads, multi'[v].state # "none", NEW x, x = multi'[v].id
          PROVE  /\ Began(x)' /\ (Out(x)' => file'[x].stream = 0)
                 /\ multi'[v].state = "open" => file'[x].state # "stored"
                 /\ \A t \in Uploads : MadeFor(t, x)' => t = v
      <4>1. CASE v = u
        BY <1>2, <2>2, <3>1, <3>4, <3>5, <3>6, <4>1 DEF Out
      <4>2. CASE v # u
        <5>1. multi'[v] = multi[v] /\ multi[v].state # "none"
          BY <2>1, <3>6, <4>2
        <5>2. /\ Began(multi[v].id) /\ (Out(multi[v].id) => file[multi[v].id].stream = 0)
              /\ multi[v].state = "open" => file[multi[v].id].state # "stored"
              /\ \A t \in Uploads : MadeFor(t, multi[v].id) => t = v
          BY <3>1, <5>1 DEF BucketRight
        <5>3. multi[v].id \in Ids /\ multi[v].id # id
          BY <1>2, <5>1, <5>2 DEF Typed, Began, MadeFor
        <5> QED BY <1>2, <3>1, <3>4, <3>6, <5>1, <5>2, <5>3 DEF Out
      <4> QED BY <4>1, <4>2
    <3> QED BY <3>2, <3>3, <3>6 DEF BucketRight, Began, Out, MadeFor
  <2>5. Typed'
    <3>1. multi' \in [Uploads -> Multis]
      BY <1>2, <1>3 DEF Multis
    <3> QED BY <1>2, <3>1 DEF Typed
  <2>6. PICK r : r = [Step(id, "started") EXCEPT !.upload = u]
    OBVIOUS
  <2>7. r \in Requests /\ r.at = "started" /\ r.id = id /\ r.upload = u
    BY <1>2, <2>6 DEF Requests, Steps, Step, Idle
  <2>8. Ready(r)'
    <3>1. MadeFor(u, id)' /\ Began(id)' /\ id \in sent'
          /\ (Goes(id)' => file'[id].stream = 0 /\ file'[id].upload = NoUpload /\ multi'[u].state = "open")
      BY <1>2, <2>2 DEF MadeFor, Began, Goes
    <3> QED BY <2>7, <3>1 DEF Ready
  <2>9. \A v \in Workers \ {w} : Apart(r, worker[v]) /\ Apart(worker[v], r)
    BY <1>1, <1>2, <2>7, Doing DEF Apart
  <2>10. worker' = [worker EXCEPT ![w] = r]
    BY <1>3, <2>6 DEF Then
  <2> QED BY <1>1, <1>2, <2>3, <2>4, <2>5, <2>7, <2>8, <2>9, <2>10, BucketGoes, StepKeeps DEF GoesWell
<1>4. CASE multi' = multi /\ Then(w, Step(id, "startFailed"))
  <2>1. /\ [Next]_vars /\ GrantsKept /\ Inv' /\ Typed' /\ BucketRight' /\ FilesRight'
        /\ Careful(worker[w])
    BY <1>2, <1>4, StillGoesOn DEF bucket
  <2>2. PICK r : r = Step(id, "startFailed")
    OBVIOUS
  <2>3. r \in Requests /\ r.at = "startFailed" /\ r.id = id
    BY <1>2, <2>2 DEF Requests, Steps, Step, Idle
  <2>4. Ready(r)'
    <3>1. Began(id)' /\ id \in sent' /\ file'[id].state # "stored"
          /\ (\A v \in Uploads : ~MadeFor(v, id)')
          /\ (Goes(id)' => file'[id].stream = 0 /\ file'[id].upload = NoUpload)
      BY <1>2, <1>4 DEF MadeFor, Began, Goes
    <3> QED BY <2>3, <3>1 DEF Ready
  <2>5. \A v \in Workers \ {w} : Apart(r, worker[v]) /\ Apart(worker[v], r)
    BY <1>1, <1>2, <2>3, Doing DEF Apart
  <2>6. worker' = [worker EXCEPT ![w] = r]
    BY <1>4, <2>2 DEF Then
  <2> QED BY <2>1, <2>3, <2>4, <2>5, <2>6, StepKeeps DEF GoesWell
<1> QED BY <1>1, <1>3, <1>4 DEF CreateUpload

-----------------------------------------------------------------------------
(* The steps: uploading *)

\* One file's record changes, and it stays out; the apps and the bucket stay as they are.
LEMMA OneGoesOn ==
  ASSUME FTInv, NEW w \in Workers, UNCHANGED <<apps, bucket, deaths>>, grants' = grants,
         NEW id \in Ids, \A x \in Ids \ {id} : file'[x] = file[x], file'[id].state # "offered",
         FileGoesOn(worker[w], id), FileRight(id)'
  PROVE  GrantsKept /\ Typed' /\ BucketRight' /\ FilesRight' /\ Careful(worker[w])
<1>1. UNCHANGED <<known, bucket>>
  BY DEF apps
<1>2. AppsGoOn(worker[w]) /\ BucketGoesOn(worker[w])
  BY SameApps, SameBucket
<1>3. FilesGoOn(worker[w]) /\ FilesRight'
  BY <1>1, <1>2, OneKeeps
<1>4. BucketRight'
  BY <1>3, BucketStays
<1>5. Typed'
  BY DEF FTInv, Typed, apps, bucket
<1>6. GrantsKept
  BY DEF GrantsKept
<1> QED BY <1>2, <1>3, <1>4, <1>5, <1>6 DEF Careful

\* An upload that begins, as one file or in a stream.
LEMMA BeginGoesOn ==
  ASSUME FTInv, NEW w \in Workers, UNCHANGED <<apps, bucket, deaths>>, grants' = grants,
         NEW id \in Ids, file[id].state = "granted",
         NEW stream \in {0, StreamPartBytes(file[id].bytes)},
         Becomes(id, Uploading(file[id], stream))
  PROVE  /\ GrantsKept /\ Typed' /\ BucketRight' /\ FilesRight' /\ Careful(worker[w])
         /\ id \in sent /\ Goes(id)' /\ file'[id].stream = stream /\ file'[id].upload = NoUpload
<1>1. file[id] \in Record /\ FileRight(id) /\ UNCHANGED <<sent, known, objects, pieces, multi>>
  BY Asked DEF apps, bucket
<1>2. id \in sent /\ id \in known
  BY <1>1 DEF FileRight, Out
<1>3. /\ file'[id].state = "uploading" /\ file'[id].stream = stream
      /\ file'[id].upload = NoUpload /\ file'[id].parts = {} /\ file'[id].bytes = file[id].bytes
  BY <1>1 DEF Becomes, Uploading, Record
<1>4. FileRight(id)'
  BY <1>1, <1>2, <1>3 DEF FileRight, Out, Goes
<1>5. FileGoesOn(worker[w], id)
  BY <1>2, <1>3 DEF FileGoesOn, Began, Out, Goes
<1>6. GrantsKept /\ Typed' /\ BucketRight' /\ FilesRight' /\ Careful(worker[w])
  BY <1>3, <1>4, <1>5, OneGoesOn DEF Becomes
<1> QED BY <1>2, <1>3, <1>6 DEF Goes

\* start: a sender's grant becomes a multipart upload.
LEMMA StartKeeps ==
  ASSUME FTInv, NEW w \in Workers, NEW id \in Ids, NEW from \in Names, NEW grant,
         NEW a \in Addresses, StartUpload(w, id, from, grant, a)
  PROVE  GoesWell
<1>1. /\ Start(id, from, grant, a) /\ UNCHANGED <<apps, bucket, deaths>>
      /\ UNCHANGED <<sent, known, objects, pieces, multi>> /\ Inv
      /\ file[id] \in Record /\ FileRight(id)
  BY Asked DEF StartUpload, apps, bucket, FTInv
<1>2. [Next]_vars
  <2>1. grant \in 1 .. MaxGrants \/ grant = 0
    <3>1. grants \in 0 .. MaxGrants /\ MaxGrants \in Nat /\ heard[id] \subseteq 1 .. grants
      BY LedgerAssumption DEF FTInv, Typed, Inv, TypeOK, LedgerAssumption
    <3> QED BY <3>1 DEF StartUpload
  <2>2. CASE grant \in 1 .. MaxGrants
    BY <1>1, <2>2 DEF Next, Request
  <2>3. CASE grant = 0
    <3>1. file[id].state = "granted" => file[id].grant # grant
      BY <1>1, <2>3 DEF FileRight
    <3>2. StartAnswer(id, from, grant, a) \notin {"ok", "expired", "too-many", "relay-full"}
      BY <3>1 DEF StartAnswer, GrantUsed
    <3> QED BY <1>1, <3>2 DEF Start, NotBegun, vars, counters, budgets
  <2> QED BY <2>1, <2>2, <2>3
<1>3. Inv'
  BY <1>2, LedgerGoesOn
<1>4. /\ grants' = grants
      /\ StartAnswer(id, from, grant, a) # "ok" =>
           /\ Lapses
           /\ \A x \in Ids : file'[x] # file[x] =>
                x = id /\ file[id].state = "granted" /\ file[id].grantExpires <= now
      /\ StartAnswer(id, from, grant, a) = "ok" =>
           file[id].state = "granted" /\ Becomes(id, Uploading(file[id], 0))
  BY <1>1, StartMoves
<1>5. CASE StartAnswer(id, from, grant, a) # "ok"
  <2>1. GrantsKept
    BY <1>4, <1>5 DEF GrantsKept
  <2>2. Typed' /\ BucketRight' /\ FilesRight' /\ Careful(worker[w]) /\ Done(w)
    BY <1>1, <1>4, <1>5, LapseGoesOn DEF StartUpload
  <2> QED BY <1>2, <1>3, <2>1, <2>2, Finishes DEF GoesWell
<1>6. CASE StartAnswer(id, from, grant, a) = "ok"
  <2>1. /\ GrantsKept /\ Typed' /\ BucketRight' /\ FilesRight' /\ Careful(worker[w])
        /\ id \in sent /\ Goes(id)' /\ file'[id].stream = 0 /\ file'[id].upload = NoUpload
    BY <1>1, <1>4, <1>6, BeginGoesOn
  <2>2. ~Began(id)
    BY <1>4, <1>6 DEF Began
  <2>3. PICK r : r = Step(id, "create")
    OBVIOUS
  <2>4. r \in Requests /\ r.at = "create" /\ r.id = id
    BY <2>3 DEF Requests, Steps, Step, Idle
  <2>5. Ready(r)'
    <3>1. \A v \in Uploads : ~MadeFor(v, id)
      BY <2>2 DEF FTInv, BucketRight, MadeFor
    <3>2. \A v \in Uploads : ~MadeFor(v, id)'
      BY <1>1, <3>1 DEF MadeFor
    <3> QED BY <1>1, <2>1, <2>4, <3>2 DEF Ready, Began, Goes
  <2>6. \A v \in Workers \ {w} : Apart(r, worker[v]) /\ Apart(worker[v], r)
    <3>1. TAKE v \in Workers \ {w}
    <3>2. worker[v].at \in {"create", "started", "startFailed"} => Began(worker[v].id)
      BY Doing DEF Ready
    <3> QED BY <2>2, <2>4, <3>2 DEF Apart
  <2>7. worker' = [worker EXCEPT ![w] = r]
    BY <1>6, <2>3 DEF StartUpload, Then
  <2> QED BY <1>2, <1>3, <2>1, <2>4, <2>5, <2>6, <2>7, StepKeeps DEF GoesWell
<1> QED BY <1>5, <1>6

\* A streamed upload's first part starts it.
LEMMA PutFirstKeeps ==
  ASSUME FTInv, NEW w \in Workers, NEW id \in Ids, NEW from \in Names, NEW grant,
         NEW a \in Addresses, PutFirst(w, id, from, grant, 1, a)
  PROVE  GoesWell
<1> DEFINE answer == StartStreamAnswer(id, from, grant, a)
<1>1. /\ StartStream(id, from, grant, a) /\ UNCHANGED <<apps, bucket, deaths>>
      /\ UNCHANGED <<sent, known, objects, pieces, multi>> /\ Inv
      /\ file[id] \in Record /\ FileRight(id)
  BY Asked DEF PutFirst, apps, bucket, FTInv
<1>2. [Next]_vars
  <2>1. grant \in 1 .. MaxGrants
    <3>1. grants \in 0 .. MaxGrants /\ MaxGrants \in Nat /\ heard[id] \subseteq 1 .. grants
      BY LedgerAssumption DEF FTInv, Typed, Inv, TypeOK, LedgerAssumption
    <3> QED BY <3>1 DEF PutFirst
  <2> QED BY <1>1, <2>1 DEF Next, Request
<1>3. Inv'
  BY <1>2, LedgerGoesOn
<1>4. /\ grants' = grants
      /\ answer # "ok" =>
           /\ Lapses
           /\ \A x \in Ids : file'[x] # file[x] =>
                x = id /\ file[id].state = "granted" /\ file[id].grantExpires <= now
      /\ answer = "ok" =>
           /\ file[id].state = "granted"
           /\ Becomes(id, Uploading(file[id], StreamPartBytes(file[id].bytes)))
  BY <1>1, StartStreamMoves
<1>5. answer = "resume" => id \in sent
  BY <1>1 DEF StartStreamAnswer, GrantUsed, FileRight, Out
<1>6. GrantsKept /\ Typed' /\ BucketRight' /\ FilesRight' /\ Careful(worker[w])
      /\ (answer \in {"ok", "resume"} => id \in sent)
  <2>1. CASE answer # "ok"
    <3>1. GrantsKept
      BY <1>4, <2>1 DEF GrantsKept
    <3> QED BY <1>1, <1>4, <1>5, <2>1, <3>1, LapseGoesOn
  <2>2. CASE answer = "ok"
    BY <1>1, <1>4, <2>2, BeginGoesOn
  <2> QED BY <2>1, <2>2
<1>7. CASE answer \in {"ok", "resume"}
  <2>1. PICK r : r = [Step(id, "part") EXCEPT !.n = 1]
    OBVIOUS
  <2>2. r \in Requests /\ r.at = "part" /\ r.id = id /\ r.n = 1
    BY <2>1 DEF Requests, Steps, Step, Idle
  <2>3. Ready(r)'
    BY <1>1, <1>6, <1>7, <2>2 DEF Ready
  <2>4. Then(w, r)
    BY <1>7, <2>1 DEF PutFirst
  <2> QED BY <1>2, <1>3, <1>6, <2>2, <2>3, <2>4, GoesOn DEF GoesWell
<1>8. CASE answer \notin {"ok", "resume"}
  <2>1. Done(w)
    BY <1>8 DEF PutFirst
  <2> QED BY <1>2, <1>3, <1>6, <2>1, Finishes DEF GoesWell
<1> QED BY <1>7, <1>8

\* started: the upload is kept, or is to be aborted.
LEMMA StartedKeeps ==
  ASSUME FTInv, NEW w \in Workers, UploadStarted(w)
  PROVE  GoesWell
<1>1. PICK q \in Requests : q = worker[w] /\ Ready(q)
  BY Doing
<1> DEFINE id == q.id
           u  == q.upload
<1>2. /\ q.at = "started" /\ id \in Ids /\ id \in sent /\ MadeFor(u, id) /\ Began(id)
      /\ Goes(id) => file[id].stream = 0 /\ file[id].upload = NoUpload /\ multi[u].state = "open"
      /\ Started(id, u) /\ UNCHANGED <<apps, bucket, deaths>>
      /\ UNCHANGED <<sent, known, objects, pieces, multi>> /\ Inv /\ u \in Uploads
      /\ file[id] \in Record /\ FileRight(id)
  BY <1>1, Asked DEF UploadStarted, At, Ready, FTInv, Typed, Requests, apps, bucket, MadeFor
<1>3. /\ grants' = grants
      /\ Goes(id) => Becomes(id, [file[id] EXCEPT !.upload = u])
      /\ ~Goes(id) => file' = file
  BY <1>2, StartedMoves DEF Goes
<1>4. CASE Goes(id)
  <2>1. [Next]_vars
    <3>1. ~Open(file[id])
      BY <1>2, <1>4 DEF Open
    <3> QED BY <1>2, <3>1 DEF Next, Request
  <2>2. Inv'
    BY <2>1, LedgerGoesOn
  <2>3. /\ file'[id].state = "uploading" /\ file'[id].stream = 0 /\ file'[id].upload = u
        /\ file'[id].bytes = file[id].bytes /\ file'[id].parts = {}
        /\ \A x \in Ids \ {id} : file'[x] = file[x]
    BY <1>2, <1>3, <1>4 DEF Becomes, Record, Goes, FileRight
  <2>4. FileRight(id)'
    BY <1>2, <1>4, <2>3 DEF FileRight, Out, Goes, MadeFor
  <2>5. FileGoesOn(q, id)
    BY <1>2, <1>4, <2>3 DEF FileGoesOn, Began, Out, Goes
  <2>6. GrantsKept /\ Typed' /\ BucketRight' /\ FilesRight' /\ Careful(worker[w])
    BY <1>1, <1>2, <1>3, <2>3, <2>4, <2>5, OneGoesOn
  <2>7. Done(w)
    BY <1>1, <1>4 DEF UploadStarted, Goes
  <2> QED BY <2>1, <2>2, <2>6, <2>7, Finishes DEF GoesWell
<1>5. CASE ~Goes(id)
  <2>1. UNCHANGED <<vars, bucket, apps, deaths>>
    BY <1>2, <1>5 DEF Started, Goes, vars
  <2>2. /\ [Next]_vars /\ GrantsKept /\ Inv' /\ Typed' /\ BucketRight' /\ FilesRight'
        /\ Careful(worker[w])
    BY <2>1, StillGoesOn
  <2>3. PICK r : r = [q EXCEPT !.at = "abort"]
    OBVIOUS
  <2>4. r \in Requests /\ r.at = "abort" /\ r.id = id /\ r.upload = u
    BY <1>1, <2>3 DEF Requests, Steps
  <2>5. Ready(r)'
    BY <1>2, <1>3, <1>5, <2>4 DEF Ready, MadeFor, Began, Goes
  <2>6. Then(w, r)
    BY <1>1, <1>5, <2>3 DEF UploadStarted, Goes
  <2> QED BY <2>2, <2>4, <2>5, <2>6, GoesOn DEF GoesWell
<1> QED BY <1>4, <1>5

\* A streamed file's parts are no more than the most there may be.
LEMMA PieceOf ==
  ASSUME FTInv, NEW id \in Ids, file[id].stream > 0, NEW n \in Parts(file[id])
  PROVE  Piece(id, n)
<1>1. file[id].stream = StreamPartBytes(file[id].bytes) /\ file[id].bytes \in Nat
  BY Asked DEF FileRight, Record
<1>2. PartCount(file[id].bytes, file[id].stream) <= StreamPartsMax
  BY <1>1, StreamParts
<1>3. n \in 1 .. PartCount(file[id].bytes, file[id].stream)
  BY DEF Parts, Size
<1>4. PartCount(file[id].bytes, file[id].stream) \in Nat
  BY Asked DEF Size
<1>5. n \in 1 .. StreamPartsMax
  BY <1>2, <1>3, <1>4, FilesAssumption
<1> QED BY <1>5 DEF Piece

\* The ledger's answer to a part, and what the request does then.
LEMMA PartKeeps ==
  ASSUME FTInv, NEW w \in Workers, NEW id \in Ids, NEW from, NEW n, NEW length,
         Part(id, from, n, length), [Next]_vars, AfterPart(w, id, from, n, length),
         UNCHANGED <<apps, bucket, deaths>>
  PROVE  GoesWell
<1> DEFINE answer == PartAnswer(id, from, n, length)
<1>1. /\ Inv /\ Inv' /\ file[id] \in Record /\ FileRight(id) /\ Parts(file[id]) \subseteq Nat
      /\ UNCHANGED <<sent, known, objects, pieces, multi>>
  BY LedgerGoesOn, Asked DEF FTInv, apps, bucket
<1>2. /\ grants' = grants
      /\ answer = "ok" =>
           /\ Goes(id) /\ Open(file[id]) /\ n \in Parts(file[id])
           /\ Becomes(id, [file[id] EXCEPT !.tries = @ + 1, !.touched = now])
      /\ answer # "ok" => Lapses /\ \A x \in Ids \ {id} : file'[x] = file[x]
      /\ answer \in {"over", "failed"} => Goes(id) /\ file'[id] = Blank
      /\ answer \in {"gone", "relay-full"} => file' = file
  BY <1>1, PartMoves
<1>3. CASE answer = "ok"
  <2>1. /\ file'[id].state = "uploading" /\ file'[id].stream = file[id].stream
        /\ file'[id].upload = file[id].upload
        /\ file'[id].bytes = file[id].bytes /\ file'[id].parts = file[id].parts
        /\ \A x \in Ids \ {id} : file'[x] = file[x]
        /\ Goes(id) /\ Out(id) /\ id \in sent /\ Began(id)
    BY <1>1, <1>2, <1>3 DEF Becomes, Record, Goes, Out, FileRight, Began
  <2>2. FileRight(id)'
    BY <1>1, <1>2, <1>3, <2>1 DEF FileRight, Out, Goes, MadeFor
  <2>3. FileGoesOn(worker[w], id)
    BY <1>1, <2>1 DEF FileGoesOn, Began, Out, Goes
  <2>4. GrantsKept /\ Typed' /\ BucketRight' /\ FilesRight' /\ Careful(worker[w])
    BY <1>2, <2>1, <2>2, <2>3, OneGoesOn
  <2>5. PICK r : r = [Step(id, IF file[id].stream > 0 THEN "put" ELSE "uploadPart")
                        EXCEPT !.n = n, !.upload = file[id].upload]
    OBVIOUS
  <2>6. /\ r \in Requests /\ r.id = id /\ r.n = n /\ r.upload = file[id].upload
        /\ r.at = IF file[id].stream > 0 THEN "put" ELSE "uploadPart"
    <3>1. n \in Nat /\ file[id].upload \in Uploads \cup {NoUpload}
      BY <1>1, <1>2, <1>3 DEF Record
    <3> QED BY <2>5, <3>1 DEF Requests, Steps, Step, Idle
  <2>7. Ready(r)'
    <3>1. CASE file[id].stream > 0
      <4>1. Piece(id, n)
        BY <1>2, <1>3, <3>1, PieceOf
      <4>2. Piece(id, n)' /\ Began(id)'
        <5>1. Parts(file'[id]) = Parts(file[id])
          BY <2>1 DEF Parts, Size
        <5> QED BY <1>1, <2>1, <3>1, <4>1, <5>1 DEF Piece, Out, Began
      <4> QED BY <1>1, <2>1, <2>6, <3>1, <4>2 DEF Ready
    <3>2. CASE ~(file[id].stream > 0)
      <4>1. r.at = "uploadPart" /\ file[id].upload # NoUpload /\ MadeFor(file[id].upload, id)
        BY <1>1, <1>2, <1>3, <2>6, <3>2 DEF Open, FileRight
      <4>2. UploadOf(file[id].upload, id)'
        BY <1>1, <2>1, <4>1 DEF UploadOf, MadeFor, Began, Goes
      <4>3. n \in Parts(file'[id])
        BY <1>2, <1>3, <2>1 DEF Parts, Size
      <4> QED BY <1>1, <2>1, <2>6, <4>1, <4>2, <4>3 DEF Ready
    <3> QED BY <3>1, <3>2
  <2>8. Then(w, r)
    BY <1>3, <2>5 DEF AfterPart
  <2> QED BY <1>1, <2>4, <2>6, <2>7, <2>8, GoesOn DEF GoesWell
<1>4. CASE answer # "ok"
  <2>1. Typed' /\ BucketRight' /\ FilesRight' /\ Careful(worker[w])
    BY <1>2, <1>4, LapseGoesOn
  <2>2. PICK S : S = IF answer \in {"over", "failed"} THEN {Removed(id)} ELSE {}
    OBVIOUS
  <2>3. ASSUME NEW rec \in S PROVE rec \in Goners /\ Gone(rec)'
    <3>1. rec = Removed(id) /\ Out(id) /\ file'[id].state = "none"
      BY <1>2, <2>2, <2>3 DEF Goes, Out, Blank
    <3> QED BY <1>1, <3>1, RemovedGone
  <2>4. S \in SUBSET Goners /\ \A rec \in S : Gone(rec)'
    BY <2>3
  <2>5. Then(w, Clearing(S))
    BY <1>4, <2>2 DEF AfterPart
  <2>6. GrantsKept
    <3>1. answer \in {"gone", "over", "failed", "relay-full", "ok"}
      BY DEF PartAnswer
    <3> QED BY <1>2, <1>4, <3>1 DEF GrantsKept, Blank
  <2> QED BY <1>1, <2>1, <2>4, <2>5, <2>6, Ends DEF GoesWell
<1> QED BY <1>3, <1>4

\* The first part of a streamed upload, once it is started.
LEMMA PutStartedKeeps ==
  ASSUME FTInv, NEW w \in Workers, PutStarted(w)
  PROVE  GoesWell
<1>1. PICK id \in Ids : id = worker[w].id /\ worker[w].n = 1
  BY Doing DEF PutStarted, At, Ready, FTInv, Typed
<1> DEFINE from == file[id].from
           length == PartLength(file[id].bytes, 1, Size(file[id]))
<1>2. /\ Part(id, from, 1, length) /\ AfterPart(w, id, from, 1, length)
      /\ UNCHANGED <<apps, bucket, deaths>>
  BY <1>1 DEF PutStarted
<1>3. [Next]_vars
  <2>1. CASE Goes(id)
    <3>1. from \in Names
      BY <2>1 DEF FTInv, Inv, Accounts, Known, Out, Goes
    <3>2. 1 \in 1 .. PartCount(file[id].bytes, Size(file[id])) + 1
      BY Asked
    <3> HIDE DEF from
    <3> QED BY <1>2, <3>1, <3>2 DEF Next, Request
  <2>2. CASE ~Goes(id)
    <3>1. PartAnswer(id, from, 1, length) = "gone"
      BY <2>2 DEF PartAnswer, Goes
    <3> QED BY <1>2, <3>1 DEF Part, vars, budgets
  <2> QED BY <2>1, <2>2
<1> HIDE DEF from, length
<1> QED BY <1>2, <1>3, PartKeeps

\* part: an attempt to put a part, or the end of the file.
LEMMA PutPartKeeps ==
  ASSUME FTInv, NEW w \in Workers, NEW id \in Ids, NEW from \in Names, NEW n, NEW length,
         PutPart(w, id, from, n, length), n \in Parts(file[id]) \cup {1},
         length \in {0, PartLength(file[id].bytes, n, Size(file[id]))}
  PROVE  GoesWell
<1>1. /\ Part(id, from, n, length) /\ AfterPart(w, id, from, n, length)
      /\ UNCHANGED <<apps, bucket, deaths>>
  BY DEF PutPart
<1>2. n \in 1 .. PartCount(file[id].bytes, Size(file[id])) + 1
  BY Asked DEF Parts
<1>3. [Next]_vars
  BY <1>1, <1>2 DEF Next, Request
<1> QED BY <1>1, <1>3, PartKeeps

\* A part that is in is counted, of an upload that goes on.
LEMMA PartDoneGoes ==
  ASSUME FTInv, NEW w \in Workers, NEW id \in Ids, NEW n \in Nat, PartDone(id, n),
         Goes(id) => /\ n \in Parts(file[id])
                     /\ IF file[id].stream > 0 THEN <<id, n>> \in pieces
                        ELSE file[id].upload # NoUpload /\ n \in multi[file[id].upload].parts,
         UNCHANGED <<apps, bucket, deaths>>
  PROVE  /\ [Next]_vars /\ GrantsKept /\ Inv' /\ Typed' /\ BucketRight' /\ FilesRight'
         /\ Careful(worker[w])
         /\ ~Goes(id) => file' = file
<1>1. /\ Inv /\ file[id] \in Record /\ FileRight(id)
      /\ UNCHANGED <<sent, known, objects, pieces, multi>>
  BY Asked DEF FTInv, apps, bucket
<1>2. /\ grants' = grants
      /\ Goes(id) => Becomes(id, [file[id] EXCEPT !.parts = @ \cup {n}, !.touched = now])
      /\ ~Goes(id) => file' = file
  BY <1>1, PartDoneMoves
<1>3. CASE Goes(id)
  <2>1. [Next]_vars
    BY <1>3 DEF Next, Request
  <2>2. /\ file'[id].state = "uploading" /\ file'[id].stream = file[id].stream
        /\ file'[id].upload = file[id].upload
        /\ file'[id].bytes = file[id].bytes /\ file'[id].parts = file[id].parts \cup {n}
        /\ \A x \in Ids \ {id} : file'[x] = file[x]
        /\ file[id].stream \in Nat
    <3>1. /\ file'[id] = [file[id] EXCEPT !.parts = file[id].parts \cup {n}, !.touched = now]
          /\ \A x \in Ids \ {id} : file'[x] = file[x]
      BY <1>2, <1>3 DEF Becomes
    <3> QED BY <1>1, <1>3, <3>1 DEF Record, Goes
  <2>3. FileRight(id)'
    <3>1. CASE file[id].stream > 0
      <4>1. {id} \X file'[id].parts \subseteq pieces
        BY <1>1, <1>3, <2>2, <3>1 DEF FileRight
      <4>2. file'[id].upload = NoUpload
        BY <1>1, <2>2, <3>1 DEF FileRight
      <4> QED BY <1>1, <1>3, <2>2, <3>1, <4>1, <4>2 DEF FileRight, Out, Goes
    <3>2. CASE ~(file[id].stream > 0)
      <4>1. file[id].upload # NoUpload /\ file'[id].parts \subseteq multi[file[id].upload].parts
        BY <1>1, <1>3, <2>2, <3>2 DEF FileRight
      <4> QED BY <1>1, <1>3, <2>2, <3>2, <4>1 DEF FileRight, Out, Goes, MadeFor
    <3> QED BY <3>1, <3>2
  <2>4. FileGoesOn(worker[w], id)
    BY <1>1, <1>3, <2>2 DEF FileGoesOn, Began, Out, Goes
  <2>5. GrantsKept /\ Typed' /\ BucketRight' /\ FilesRight' /\ Careful(worker[w])
    BY <1>2, <2>2, <2>3, <2>4, OneGoesOn
  <2> QED BY <1>3, <2>1, <2>5, LedgerGoesOn
<1>4. CASE ~Goes(id)
  <2>1. UNCHANGED <<vars, bucket, apps, deaths>>
    BY <1>2, <1>4 DEF PartDone, Goes, vars
  <2> QED BY <1>2, <1>4, <2>1, StillGoesOn
<1> QED BY <1>3, <1>4

\* partDone of a streamed part: counted, or to be deleted.
LEMMA PieceDoneKeeps ==
  ASSUME FTInv, NEW w \in Workers, PieceDone(w)
  PROVE  GoesWell
<1>1. PICK q \in Requests : q = worker[w] /\ Ready(q)
  BY Doing
<1>2. /\ q.at = "putDone" /\ q.id \in Ids /\ q.n \in Nat /\ Began(q.id) /\ Piece(q.id, q.n)
      /\ Goes(q.id) => <<q.id, q.n>> \in pieces
      /\ PartDone(q.id, q.n) /\ UNCHANGED <<apps, bucket, deaths>> /\ sent' = sent
  BY <1>1 DEF PieceDone, At, Ready, FTInv, Typed, Requests, apps
<1>3. /\ [Next]_vars /\ GrantsKept /\ Inv' /\ Typed' /\ BucketRight' /\ FilesRight'
      /\ Careful(worker[w])
      /\ ~Goes(q.id) => file' = file
  <2>1. Goes(q.id) => q.n \in Parts(file[q.id]) /\ file[q.id].stream > 0
    BY <1>2 DEF Piece, Out, Goes
  <2> QED BY <1>2, <2>1, PartDoneGoes
<1>4. CASE Goes(q.id)
  <2>1. Done(w)
    BY <1>1, <1>4 DEF PieceDone, Goes
  <2> QED BY <1>3, <2>1, Finishes DEF GoesWell
<1>5. CASE ~Goes(q.id)
  <2>1. PICK r : r = [q EXCEPT !.at = "unput"]
    OBVIOUS
  <2>2. r \in Requests /\ r.at = "unput" /\ r.id = q.id
    BY <1>1, <2>1 DEF Requests, Steps
  <2>3. Ready(r)'
    BY <1>2, <1>3, <1>5, <2>2 DEF Ready, Began, Goes
  <2>4. Then(w, r)
    BY <1>1, <1>5, <2>1 DEF PieceDone, Goes
  <2> QED BY <1>3, <2>2, <2>3, <2>4, GoesOn DEF GoesWell
<1> QED BY <1>4, <1>5

\* partDone of a part of a multipart upload.
LEMMA UploadPartDoneKeeps ==
  ASSUME FTInv, NEW w \in Workers, UploadPartDone(w)
  PROVE  GoesWell
<1>1. PICK q \in Requests : q = worker[w] /\ Ready(q)
  BY Doing
<1>2. /\ q.id \in Ids /\ q.n \in Nat /\ UploadOf(q.upload, q.id) /\ q.n \in multi[q.upload].parts
      /\ Goes(q.id) => q.n \in Parts(file[q.id])
      /\ PartDone(q.id, q.n) /\ UNCHANGED <<apps, bucket, deaths>> /\ Done(w)
  BY <1>1 DEF UploadPartDone, At, Ready, FTInv, Typed, Requests
<1>3. Goes(q.id) => ~(file[q.id].stream > 0) /\ file[q.id].upload = q.upload /\ q.upload # NoUpload
  <2>1. q.upload # NoUpload /\ (Goes(q.id) => file[q.id].upload = q.upload)
    BY <1>2, LedgerAssumption DEF LedgerAssumption, UploadOf, MadeFor
  <2> QED BY <1>2, <2>1, Asked DEF FileRight
<1>4. /\ [Next]_vars /\ GrantsKept /\ Inv' /\ Typed' /\ BucketRight' /\ FilesRight'
      /\ Careful(worker[w])
  BY <1>2, <1>3, PartDoneGoes
<1> QED BY <1>2, <1>4, Finishes DEF GoesWell

-----------------------------------------------------------------------------
(* The steps: finishing *)

\* finish: a file whose parts are in is to be put together.
LEMMA FinishKeeps ==
  ASSUME FTInv, NEW w \in Workers, NEW id \in Ids, NEW from, Finish(w, id, from)
  PROVE  GoesWell
<1>1. /\ UNCHANGED <<vars, bucket, apps, deaths>> /\ UNCHANGED <<file, sent, multi>>
      /\ id \in sent /\ file[id] \in Record /\ FileRight(id)
  BY Asked DEF Finish, apps, bucket, vars
<1>2. /\ [Next]_vars /\ GrantsKept /\ Inv' /\ Typed' /\ BucketRight' /\ FilesRight'
      /\ Careful(worker[w])
  BY <1>1, StillGoesOn
<1>3. CASE FinishAnswer(id, from) = "ok"
  <2>1. Goes(id) /\ Open(file[id]) /\ Began(id)
    BY <1>1, <1>3 DEF FinishAnswer, Goes, Began
  <2>2. PICK r : r = [Step(id, IF file[id].stream > 0 THEN "stored" ELSE "complete")
                        EXCEPT !.upload = file[id].upload]
    OBVIOUS
  <2>3. /\ r \in Requests /\ r.id = id /\ r.upload = file[id].upload
        /\ r.at = IF file[id].stream > 0 THEN "stored" ELSE "complete"
    <3>1. file[id].upload \in Uploads \cup {NoUpload}
      BY <1>1 DEF Record
    <3> QED BY <2>2, <3>1 DEF Requests, Steps, Step, Idle
  <2>4. Ready(r)' /\ (r.at = "stored" => r.upload = NoUpload)
    <3>1. CASE file[id].stream > 0
      <4>1. r.at = "stored" /\ r.upload = NoUpload
        BY <1>1, <2>3, <3>1 DEF FileRight
      <4> QED BY <1>1, <2>1, <2>3, <3>1, <4>1 DEF Ready, Began
    <3>2. CASE ~(file[id].stream > 0)
      <4>1. r.at = "complete" /\ r.upload # NoUpload /\ MadeFor(r.upload, id)
        BY <1>1, <2>1, <2>3, <3>2 DEF FileRight, Open
      <4>2. UploadOf(r.upload, id)'
        BY <1>1, <2>1, <2>3, <4>1 DEF UploadOf, MadeFor, Began, Goes
      <4> QED BY <1>1, <2>3, <4>1, <4>2 DEF Ready
    <3> QED BY <3>1, <3>2
  <2>5. Then(w, r)
    BY <1>3, <2>2 DEF Finish
  <2>6. r.at \in {"stored", "complete"}
    BY <2>3
  <2> QED BY <1>2, <2>3, <2>4, <2>5, <2>6, GoesOn DEF GoesWell
<1>4. CASE FinishAnswer(id, from) # "ok"
  <2>1. Done(w)
    BY <1>4 DEF Finish
  <2> QED BY <1>2, <2>1, Finishes DEF GoesWell
<1> QED BY <1>3, <1>4

\* complete: r2 puts the parts together, once.
LEMMA CompleteKeeps ==
  ASSUME FTInv, NEW w \in Workers, CompleteUpload(w)
  PROVE  GoesWell
<1>1. PICK q \in Requests : q = worker[w] /\ Ready(q)
  BY Doing
<1>2. PICK u \in Uploads : u = q.upload
  BY <1>1 DEF CompleteUpload, At, Ready, UploadOf, MadeFor
<1>3. /\ q.at = "complete" /\ q.id \in Ids /\ q.id \in sent
      /\ UploadOf(u, q.id) /\ MadeFor(u, q.id) /\ Began(q.id)
      /\ multi[u].id = q.id /\ (Goes(q.id) => file[q.id].upload = u)
      /\ UNCHANGED <<vars, apps, pieces, deaths>>
      /\ UNCHANGED <<file, sent, known, heard, got, grants>> /\ Typed
      /\ multi \in [Uploads -> Multis]
  BY <1>1, <1>2 DEF CompleteUpload, At, Ready, UploadOf, MadeFor, FTInv, Typed, vars, apps
<1>4. CASE /\ multi[u].state = "open"
           /\ multi' = [multi EXCEPT ![u].state = "over"]
           /\ objects' = objects \cup {q.id}
           /\ Then(w, [q EXCEPT !.at = "stored"])
  <2>1. \A v \in Uploads \ {u} : multi'[v] = multi[v]
    BY <1>3, <1>4
  <2>2. /\ multi'[u] \in Multis /\ multi'[u].id = multi[u].id /\ multi'[u].parts = multi[u].parts
        /\ multi'[u].state = "over"
    BY <1>3, <1>4 DEF Multis
  <2>3. BucketGoesOn(q)
    BY <1>3, <1>4, <2>1, <2>2 DEF BucketGoesOn
  <2>4. BucketRight'
    BY <1>3, <1>4, <2>1, <2>2, BucketFilled
  <2>5. Typed'
    <3>1. multi' \in [Uploads -> Multis]
      BY <1>3, <1>4, <2>1, <2>2
    <3> QED BY <1>3, <1>4, <3>1 DEF Typed
  <2>6. PICK r : r = [q EXCEPT !.at = "stored"]
    OBVIOUS
  <2>7. r \in Requests /\ r.at = "stored" /\ r.id = q.id /\ r.upload = u
    BY <1>1, <1>2, <2>6 DEF Requests, Steps
  <2>8. Ready(r)'
    <3>1. UploadOf(u, q.id)' /\ q.id \in sent' /\ q.id \in objects'
      BY <1>3, <1>4, <2>2 DEF UploadOf, MadeFor, Began, Goes
    <3>2. file'[q.id].state # "stored"
      BY <1>3, <1>4 DEF FTInv, BucketRight
    <3>3. u # NoUpload
      BY LedgerAssumption DEF LedgerAssumption
    <3> QED BY <2>2, <2>7, <3>1, <3>2, <3>3 DEF Ready
  <2>9. \A v \in Workers \ {w} : Apart(r, worker[v]) /\ Apart(worker[v], r)
    <3>1. TAKE v \in Workers \ {w}
    <3>2. worker[v].at = "stored" /\ worker[v].upload # NoUpload =>
            multi[worker[v].upload].state = "over"
      BY Doing DEF Ready
    <3>3. u # NoUpload
      BY LedgerAssumption DEF LedgerAssumption
    <3>4. worker[v].at = "stored" => worker[v].upload # u
      BY <1>4, <3>2, <3>3
    <3> QED BY <2>7, <3>4 DEF Apart
  <2>10. worker' = [worker EXCEPT ![w] = r]
    BY <1>4, <2>6 DEF Then
  <2> QED BY <1>1, <1>3, <2>3, <2>4, <2>5, <2>7, <2>8, <2>9, <2>10, BucketGoes, StepKeeps DEF GoesWell
<1>5. CASE UNCHANGED <<multi, objects>> /\ Done(w)
  BY <1>3, <1>5, StillGoesOn, Finishes DEF GoesWell, bucket
<1> QED BY <1>1, <1>2, <1>4, <1>5 DEF CompleteUpload

\* stored: the file is stored, or read already, or what was made of it is to go.
LEMMA FileStoredKeeps ==
  ASSUME FTInv, NEW w \in Workers, FileStored(w)
  PROVE  GoesWell
<1>1. PICK q \in Requests : q = worker[w] /\ Ready(q)
  BY Doing
<1> DEFINE id == q.id
           u  == q.upload
<1>2. /\ q.at = "stored" /\ id \in Ids /\ id \in sent /\ Began(id) /\ Inv
      /\ u = NoUpload => (Out(id) => file[id].stream > 0)
      /\ u # NoUpload => /\ UploadOf(u, id) /\ multi[u].state = "over" /\ file[id].state # "stored"
                         /\ Goes(id) => id \in objects
      /\ Stored(id) /\ UNCHANGED <<apps, bucket, deaths>>
      /\ UNCHANGED <<sent, known, objects, pieces, multi>>
      /\ file[id] \in Record /\ FileRight(id) /\ [Next]_vars
  BY <1>1, Asked DEF FileStored, At, Ready, FTInv, Typed, UploadOf, apps, bucket, Next, Request
<1>3. Inv'
  BY <1>2, LedgerGoesOn
<1>4. /\ grants' = grants
      /\ StoredAnswer(id) \in {"none", "read", "stored"}
      /\ StoredAnswer(id) = "none" => ~Goes(id) /\ file' = file
      /\ StoredAnswer(id) = "read" => Goes(id) /\ file[id].stream > 0 /\ Becomes(id, Blank)
      /\ StoredAnswer(id) = "stored" =>
           /\ Goes(id)
           /\ Becomes(id, [file[id] EXCEPT !.state = "stored", !.expires = now + StoredTtl,
                             !.upload = NoUpload, !.tries = 0,
                             !.parts = IF file[id].stream > 0 THEN @ ELSE {}])
  BY <1>2, StoredMoves
<1>5. CASE StoredAnswer(id) = "none"
  <2>1. Lapses /\ GrantsKept
    BY <1>4, <1>5 DEF Lapses, GrantsKept
  <2>2. Typed' /\ BucketRight' /\ FilesRight' /\ Careful(worker[w])
    BY <1>2, <1>4, <2>1, LapseGoesOn
  <2>3. CASE u = NoUpload
    <3>1. Done(w)
      BY <1>1, <1>5, <2>3 DEF FileStored
    <3> QED BY <1>2, <1>3, <2>1, <2>2, <3>1, Finishes DEF GoesWell
  <2>4. CASE u # NoUpload
    <3>1. PICK r : r = [q EXCEPT !.at = "unmake"]
      OBVIOUS
    <3>2. r \in Requests /\ r.at = "unmake" /\ r.id = id
      BY <1>1, <3>1 DEF Requests, Steps
    <3>3. file'[id].state = "none"
      BY <1>2, <1>4, <1>5, <2>4 DEF Began, Goes, Record
    <3>4. Ready(r)'
      BY <1>2, <3>2, <3>3 DEF Ready
    <3>5. Then(w, r)
      BY <1>1, <1>5, <2>4, <3>1 DEF FileStored
    <3> QED BY <1>2, <1>3, <2>1, <2>2, <3>2, <3>4, <3>5, GoesOn DEF GoesWell
  <2> QED BY <2>3, <2>4
<1>6. CASE StoredAnswer(id) = "read"
  <2>1. Lapses /\ GrantsKept
    BY <1>4, <1>6 DEF Lapses, GrantsKept, Becomes, Blank
  <2>2. Typed' /\ BucketRight' /\ FilesRight' /\ Careful(worker[w])
    BY <1>2, <1>4, <2>1, LapseGoesOn
  <2>3. PICK S : S = {Removed(id)}
    OBVIOUS
  <2>4. ASSUME NEW rec \in S PROVE rec \in Goners /\ Gone(rec)'
    <3>1. rec = Removed(id) /\ Out(id) /\ file'[id].state = "none"
      BY <1>4, <1>6, <2>3, <2>4 DEF Goes, Out, Blank, Becomes
    <3> QED BY <1>2, <3>1, RemovedGone
  <2>5. S \in SUBSET Goners /\ \A rec \in S : Gone(rec)'
    BY <2>4
  <2>6. Then(w, Clearing(S))
    BY <1>1, <1>6, <2>3 DEF FileStored
  <2> QED BY <1>2, <1>3, <2>1, <2>2, <2>5, <2>6, Ends DEF GoesWell
<1>7. CASE StoredAnswer(id) = "stored"
  <2>1. /\ file'[id].state = "stored" /\ file'[id].stream = file[id].stream
        /\ file'[id].upload = NoUpload /\ file'[id].bytes = file[id].bytes
        /\ \A x \in Ids \ {id} : file'[x] = file[x]
    <3>1. /\ file'[id] = [file[id] EXCEPT !.state = "stored", !.expires = now + StoredTtl,
                             !.upload = NoUpload, !.tries = 0,
                             !.parts = IF file[id].stream > 0 THEN @ ELSE {}]
          /\ \A x \in Ids \ {id} : file'[x] = file[x]
      BY <1>4, <1>7 DEF Becomes
    <3> QED BY <1>2, <3>1 DEF Record
  <2>2. u # NoUpload => file[id].upload = u /\ id \in objects
    BY <1>2, <1>4, <1>7 DEF UploadOf
  <2>3. u = NoUpload => file[id].stream > 0 /\ file[id].upload = NoUpload
    BY <1>2, <1>4, <1>7 DEF FileRight, Goes, Out
  <2>4. Goes(id) /\ Out(id) /\ id \in known
    BY <1>2, <1>4, <1>7 DEF Goes, Out, FileRight
  <2>5. FileRight(id)'
    <3>1. file[id].stream = 0 => id \in objects
      BY <2>2, <2>3
    <3> QED BY <1>2, <2>1, <2>4, <3>1 DEF FileRight, Out, Goes
  <2>6. FileGoesOn(q, id)
    <3>1. Open(file[id])
      BY <2>2, <2>3 DEF Open
    <3> QED BY <1>2, <2>1, <2>2, <2>3, <2>4, <3>1 DEF FileGoesOn, Began, Out, Goes
  <2>7. GrantsKept /\ Typed' /\ BucketRight' /\ FilesRight' /\ Careful(worker[w])
    BY <1>1, <1>2, <1>4, <2>1, <2>5, <2>6, OneGoesOn
  <2>8. Done(w)
    BY <1>1, <1>7 DEF FileStored
  <2> QED BY <1>2, <1>3, <2>7, <2>8, Finishes DEF GoesWell
<1> QED BY <1>4, <1>5, <1>6, <1>7

\* A file put together for a record that is gone is deleted.
LEMMA UnmakeKeeps ==
  ASSUME FTInv, NEW w \in Workers, Unmake(w)
  PROVE  GoesWell
<1>1. PICK q \in Requests : q = worker[w] /\ Ready(q)
  BY Doing
<1>2. /\ ~Out(q.id) /\ UNCHANGED <<vars, apps, deaths>> /\ Done(w) /\ Typed
      /\ UNCHANGED <<file, sent, known, heard, got, grants, pieces, multi, deaths>>
      /\ objects' = objects \ {q.id}
  BY <1>1 DEF Unmake, At, Ready, Out, FTInv, vars, apps
<1>3. BucketGoesOn(q) /\ BucketRight' /\ Typed'
  BY <1>2, BucketFilled DEF BucketGoesOn, Typed
<1> QED BY <1>1, <1>2, <1>3, BucketGoes, Finishes DEF GoesWell

-----------------------------------------------------------------------------
(* The steps: reading *)

\* A read that may go ahead is counted, and an expired file goes.
LEMMA ReadGoes ==
  ASSUME FTInv, NEW w \in Workers, NEW id \in Ids, NEW answer, NEW cost, Read(id, answer, cost),
         answer = "expired" => file[id].state = "stored", [Next]_vars,
         UNCHANGED <<apps, bucket, deaths>>
  PROVE  /\ GrantsKept /\ Inv' /\ Typed' /\ BucketRight' /\ FilesRight' /\ Careful(worker[w])
         /\ answer = "expired" => Out(id) /\ file'[id].state = "none"
         /\ answer # "expired" => file' = file
<1>1. Inv' /\ Inv
  BY LedgerGoesOn DEF FTInv
<1>2. /\ grants' = grants
      /\ answer = "expired" => Becomes(id, Blank)
      /\ answer # "expired" => file' = file
  BY <1>1, ReadMoves
<1>3. Lapses /\ GrantsKept
  BY <1>2 DEF Lapses, Becomes, GrantsKept, Blank
<1> QED BY <1>1, <1>2, <1>3, LapseGoesOn DEF Out, Becomes, Blank

\* readPart: a part may be read, or the file has expired.
LEMMA ReadPartKeeps ==
  ASSUME FTInv, NEW w \in Workers, NEW id \in Ids, NEW name \in Names, NEW n \in Parts(file[id]),
         ReadPart(w, id, name, n)
  PROVE  GoesWell
<1> DEFINE answer == PartReadableAnswer(id, name, n)
<1>1. /\ Read(id, answer, 1) /\ UNCHANGED <<apps, bucket, deaths>>
      /\ UNCHANGED <<sent, known, multi>> /\ id \in known /\ id \in sent
      /\ file[id] \in Record /\ FileRight(id) /\ n \in Nat
  BY Asked DEF ReadPart, PartReadable, apps, bucket, FTInv, Typed
<1>2. [Next]_vars
  <2>1. n \in 1 .. PartCount(file[id].bytes, Size(file[id])) + 1
    BY Asked DEF Parts
  <2>2. PartReadable(id, name, n)
    BY DEF ReadPart
  <2> QED BY <2>1, <2>2 DEF Next, Request
<1>3. answer = "expired" => file[id].state = "stored"
  BY DEF PartReadableAnswer
<1>4. /\ GrantsKept /\ Inv' /\ Typed' /\ BucketRight' /\ FilesRight' /\ Careful(worker[w])
      /\ answer = "expired" => Out(id) /\ file'[id].state = "none"
      /\ answer # "expired" => file' = file
  BY <1>1, <1>2, <1>3, ReadGoes
<1>5. CASE answer = "ok"
  <2>1. Began(id) /\ file[id].stream > 0
    <3>1. /\ file[id].to = name /\ file[id].state # "offered" /\ file[id].state # "granted"
          /\ file[id].stream # 0
      BY <1>5 DEF PartReadableAnswer
    <3> QED BY <1>1, <3>1 DEF Began, Record
  <2>2. Piece(id, n)
    BY <2>1, PieceOf
  <2>3. PICK r : r = [Step(id, "get") EXCEPT !.n = n]
    OBVIOUS
  <2>4. r \in Requests /\ r.at = "get" /\ r.id = id /\ r.n = n
    BY <1>1, <2>3 DEF Requests, Steps, Step, Idle
  <2>5. Ready(r)'
    <3>1. id \in sent' /\ Began(id)' /\ Piece(id, n)'
      BY <1>1, <1>4, <1>5, <2>1, <2>2 DEF Began, Piece, Out
    <3> QED BY <2>4, <3>1 DEF Ready
  <2>6. Then(w, r)
    BY <1>5, <2>3 DEF ReadPart
  <2> QED BY <1>2, <1>4, <2>4, <2>5, <2>6, GoesOn DEF GoesWell
<1>6. CASE answer # "ok"
  <2>1. PICK S : S = IF answer = "expired" THEN {Removed(id)} ELSE {}
    OBVIOUS
  <2>2. ASSUME NEW rec \in S PROVE rec \in Goners /\ Gone(rec)'
    BY <1>1, <1>4, <2>1, <2>2, RemovedGone
  <2>3. S \in SUBSET Goners /\ \A rec \in S : Gone(rec)'
    BY <2>2
  <2>4. Then(w, Clearing(S))
    BY <1>6, <2>1 DEF ReadPart
  <2> QED BY <1>2, <1>4, <2>3, <2>4, Ends DEF GoesWell
<1> QED BY <1>5, <1>6

\* A part is read to its end, or not.
LEMMA PassPartKeeps ==
  ASSUME FTInv, NEW w \in Workers, PassPart(w)
  PROVE  GoesWell
<1>1. PICK q \in Requests : q = worker[w] /\ Ready(q)
  BY Doing
<1>2. /\ q.at = "get" /\ q.id \in Ids /\ q.n \in Nat /\ Began(q.id) /\ Piece(q.id, q.n)
      /\ q.id \in sent /\ UNCHANGED <<vars, sent, known, heard, bucket, deaths>>
      /\ UNCHANGED <<file, grants, objects, pieces, multi>> /\ Typed /\ Inv
      /\ got \in [Ids -> SUBSET Nat]
  BY <1>1 DEF PassPart, At, Ready, FTInv, Typed, Requests, vars, bucket
<1>3. CASE /\ got' = [got EXCEPT ![q.id] = @ \cup {q.n}]
           /\ Then(w, [q EXCEPT !.at = "partRead"])
  <2>1. got' \in [Ids -> SUBSET Nat]
    BY <1>2, <1>3
  <2>2. Typed' /\ AppsGoOn(worker[w])
    BY <1>2, <2>1 DEF Typed, AppsGoOn, Inv, TypeOK
  <2>3. PICK r : r = [q EXCEPT !.at = "partRead"]
    OBVIOUS
  <2>4. r \in Requests /\ r.at = "partRead" /\ r.id = q.id /\ r.n = q.n
    BY <1>1, <2>3 DEF Requests, Steps
  <2>5. Ready(r)'
    <3>1. q.id \in sent' /\ Began(q.id)' /\ Piece(q.id, q.n)'
      BY <1>2 DEF Began, Piece, Out
    <3> QED BY <2>4, <3>1 DEF Ready
  <2> QED BY <1>2, <1>3, <2>2, <2>3, <2>4, <2>5, QuietGoesOn, GoesOn DEF GoesWell
<1>4. CASE got' = got /\ Done(w)
  BY <1>2, <1>4, StillGoesOn, Finishes DEF GoesWell, apps
<1> QED BY <1>1, <1>3, <1>4 DEF PassPart

\* partRead: the part is read, and with the last the file goes.
LEMMA PartWasReadKeeps ==
  ASSUME FTInv, NEW w \in Workers, PartWasRead(w)
  PROVE  GoesWell
<1>1. PICK q \in Requests : q = worker[w] /\ Ready(q)
  BY Doing
<1> DEFINE id == q.id
           n  == q.n
<1>2. /\ id \in Ids /\ Began(id) /\ Piece(id, n) /\ PartRead(id, n)
      /\ UNCHANGED <<apps, bucket, deaths>> /\ UNCHANGED <<sent, known, objects, pieces, multi>>
      /\ file[id] \in Record /\ FileRight(id) /\ Inv
  BY <1>1, Asked DEF PartWasRead, At, Ready, FTInv, Typed, apps, bucket
<1>3. /\ grants' = grants
      /\ LastRead(id, n) => file[id].stream > 0 /\ file[id].state = "stored" /\ Becomes(id, Blank)
      /\ ~LastRead(id, n) /\ file[id].stream > 0 =>
           Becomes(id, [file[id] EXCEPT !.read = @ \cup {n}])
      /\ ~LastRead(id, n) /\ ~(file[id].stream > 0) => file' = file
  BY <1>2, PartReadMoves
<1>4. [Next]_vars
  <2>1. CASE Out(id)
    <3>1. n \in Parts(file[id])
      BY <1>2, <2>1 DEF Piece
    <3> QED BY <1>2, <3>1 DEF Next, Request
  <2>2. CASE ~Out(id)
    <3>1. file[id].state = "none" /\ ~(file[id].stream > 0)
      BY <1>2, <2>2 DEF FileRight, Out, Blank
    <3>2. ~LastRead(id, n)
      BY <1>3, <3>1
    <3> QED BY <1>2, <1>3, <3>1, <3>2 DEF PartRead, vars
  <2> QED BY <2>1, <2>2
<1>5. Inv'
  BY <1>4, LedgerGoesOn
<1>6. CASE LastRead(id, n)
  <2>1. Lapses /\ GrantsKept
    BY <1>3, <1>6 DEF Lapses, Becomes, GrantsKept, Blank
  <2>2. Typed' /\ BucketRight' /\ FilesRight' /\ Careful(worker[w])
    BY <1>2, <1>3, <2>1, LapseGoesOn
  <2>3. PICK S : S = {Removed(id)}
    OBVIOUS
  <2>4. ASSUME NEW rec \in S PROVE rec \in Goners /\ Gone(rec)'
    <3>1. rec = Removed(id) /\ Out(id) /\ file'[id].state = "none"
      BY <1>3, <1>6, <2>3, <2>4 DEF Out, Blank, Becomes
    <3> QED BY <1>2, <3>1, RemovedGone
  <2>5. S \in SUBSET Goners /\ \A rec \in S : Gone(rec)'
    BY <2>4
  <2>6. Then(w, Clearing(S))
    BY <1>1, <1>6, <2>3 DEF PartWasRead
  <2> QED BY <1>4, <1>5, <2>1, <2>2, <2>5, <2>6, Ends DEF GoesWell
<1>7. CASE ~LastRead(id, n)
  <2>1. Done(w)
    BY <1>1, <1>7 DEF PartWasRead, Done, Clearing
  <2>2. CASE file[id].stream > 0
    <3>1. /\ file'[id].state = file[id].state /\ file'[id].stream = file[id].stream
          /\ file'[id].upload = file[id].upload /\ file'[id].parts = file[id].parts
          /\ file'[id].bytes = file[id].bytes
          /\ \A x \in Ids \ {id} : file'[x] = file[x]
      <4>1. /\ file'[id] = [file[id] EXCEPT !.read = @ \cup {n}]
            /\ \A x \in Ids \ {id} : file'[x] = file[x]
        BY <1>3, <1>7, <2>2 DEF Becomes
      <4> QED BY <1>2, <4>1 DEF Record
    <3>2. Out(id)
      BY <1>2, <2>2 DEF FileRight, Out, Blank
    <3>3. FileRight(id)'
      BY <1>2, <2>2, <3>1, <3>2 DEF FileRight, Out, Goes, Began
    <3>4. FileGoesOn(worker[w], id)
      BY <1>2, <3>1, <3>2 DEF FileGoesOn, Began, Out, Goes
    <3>5. file'[id].state # "offered"
      BY <1>2, <3>1 DEF Began
    <3>6. GrantsKept /\ Typed' /\ BucketRight' /\ FilesRight' /\ Careful(worker[w])
      BY <1>2, <1>3, <3>1, <3>3, <3>4, <3>5, OneGoesOn
    <3> QED BY <1>4, <1>5, <2>1, <3>6, Finishes DEF GoesWell
  <2>3. CASE ~(file[id].stream > 0)
    <3>1. Lapses /\ GrantsKept
      BY <1>3, <1>7, <2>3 DEF Lapses, GrantsKept
    <3>2. Typed' /\ BucketRight' /\ FilesRight' /\ Careful(worker[w])
      BY <1>2, <1>3, <3>1, LapseGoesOn
    <3> QED BY <1>4, <1>5, <2>1, <3>1, <3>2, Finishes DEF GoesWell
  <2> QED BY <2>2, <2>3
<1> QED BY <1>6, <1>7

\* download: the file may be read, or has expired.
LEMMA DownloadKeeps ==
  ASSUME FTInv, NEW w \in Workers, NEW id \in Ids, NEW name \in Names, NEW first \in Parts(file[id]),
         Download(w, id, name, first)
  PROVE  GoesWell
<1> DEFINE answer == ReadableAnswer(id, name)
           cost   == IF file[id].stream > 0 THEN PartCount(file[id].bytes, file[id].stream) ELSE 1
<1>1. /\ Read(id, answer, cost) /\ UNCHANGED <<apps, bucket, deaths>>
      /\ UNCHANGED <<sent, known, multi>> /\ id \in known /\ id \in sent
      /\ file[id] \in Record /\ FileRight(id) /\ first \in Nat
  BY Asked DEF Download, Readable, apps, bucket, FTInv, Typed
<1>2. [Next]_vars
  <2>1. Readable(id, name)
    BY DEF Download
  <2> QED BY <2>1 DEF Next, Request
<1>3. answer \in {"ok", "expired"} => file[id].state = "stored"
  BY DEF ReadableAnswer
<1> HIDE DEF cost
<1>4. /\ GrantsKept /\ Inv' /\ Typed' /\ BucketRight' /\ FilesRight' /\ Careful(worker[w])
      /\ answer = "expired" => Out(id) /\ file'[id].state = "none"
      /\ answer # "expired" => file' = file
  BY <1>1, <1>2, <1>3, ReadGoes
<1>5. CASE answer = "ok"
  <2>1. Began(id) /\ ~Goes(id) /\ Out(id) /\ file[id].upload = NoUpload
    BY <1>1, <1>3, <1>5 DEF Began, Goes, Out, FileRight
  <2>2. PICK rec : rec = Removed(id)
    OBVIOUS
  <2>3. rec \in Goners /\ rec.id = id /\ rec.upload = NoUpload
    BY <1>1, <2>1, <2>2 DEF Goners, Removed, Record, States
  <2>4. PICK r : r = [Clearing({rec}) EXCEPT !.id = id, !.n = first, !.at = "pass"]
    OBVIOUS
  <2>5. r \in Requests /\ r.at = "pass" /\ r.id = id /\ r.gone = {rec}
    BY <1>1, <2>3, <2>4 DEF Requests, Steps, Clearing, Idle
  <2>6. Ready(r)'
    <3>1. id \in sent' /\ Began(id)' /\ ~Goes(id)' /\ id \in known' /\ rec = Removed(id)'
      BY <1>1, <1>4, <1>5, <2>1, <2>2 DEF Began, Goes, Removed
    <3> QED BY <2>3, <2>5, <3>1 DEF Ready
  <2>7. Then(w, r)
    BY <1>5, <2>2, <2>4 DEF Download
  <2> QED BY <1>2, <1>4, <2>5, <2>6, <2>7, GoesOn DEF GoesWell
<1>6. CASE answer # "ok"
  <2>1. PICK S : S = IF answer = "expired" THEN {Removed(id)} ELSE {}
    OBVIOUS
  <2>2. ASSUME NEW rec \in S PROVE rec \in Goners /\ Gone(rec)'
    BY <1>1, <1>4, <2>1, <2>2, RemovedGone
  <2>3. S \in SUBSET Goners /\ \A rec \in S : Gone(rec)'
    BY <2>2
  <2>4. Then(w, Clearing(S))
    BY <1>6, <2>1 DEF Download
  <2> QED BY <1>2, <1>4, <2>3, <2>4, Ends DEF GoesWell
<1> QED BY <1>5, <1>6

\* The file, or its next part, is passed on, or is not there.
LEMMA PassFileKeeps ==
  ASSUME FTInv, NEW w \in Workers, PassFile(w)
  PROVE  GoesWell
<1>1. PICK q \in Requests : q = worker[w] /\ Ready(q)
  BY Doing
<1>2. PICK rec \in q.gone :
        /\ q.at = "pass"
        /\ \/ /\ got' = [got EXCEPT ![rec.id] = 1 .. PartCount(rec.bytes, PartBytes)]
              /\ Then(w, [q EXCEPT !.at = "passed"])
           \/ /\ got' = [got EXCEPT ![rec.id] = @ \cup {q.n}]
              /\ Then(w, IF q.n = PartCount(rec.bytes, rec.stream)
                         THEN [q EXCEPT !.at = "passed"] ELSE [q EXCEPT !.n = q.n + 1])
           \/ /\ rec.stream = 0 /\ rec.id \notin objects
              /\ got' = got /\ Then(w, Step(rec.id, "withdraw"))
           \/ got' = got /\ Done(w)
        /\ UNCHANGED <<vars, sent, known, heard, bucket, deaths>>
  BY <1>1 DEF PassFile, At
<1>3. /\ q.id \in Ids /\ q.n \in Nat /\ Began(q.id) /\ ~Goes(q.id) /\ q.id \in known /\ q.id \in sent
      /\ \A x \in q.gone : x.id = q.id /\ x.upload = NoUpload /\ (Out(q.id) => x = Removed(q.id))
      /\ rec.id = q.id /\ (Out(q.id) => rec = Removed(q.id)) /\ rec.bytes \in Nat /\ q.gone # {}
      /\ UNCHANGED <<file, grants, objects, pieces, multi>> /\ Typed /\ Inv
      /\ got \in [Ids -> SUBSET Nat]
  BY <1>1, <1>2 DEF Ready, FTInv, Typed, Requests, Goners, vars, bucket
<1>4. ASSUME got' \in [Ids -> SUBSET Nat], NEW r \in Requests, Then(w, r),
             r.at \in {"pass", "passed"}, r.id = q.id, r.gone = q.gone, q.gone # {}
      PROVE  GoesWell
  <2>1. Typed' /\ AppsGoOn(worker[w])
    BY <1>2, <1>3, <1>4 DEF Typed, AppsGoOn, Inv, TypeOK
  <2>2. Ready(r)'
    <3>1. q.id \in sent' /\ Began(q.id)' /\ ~Goes(q.id)' /\ q.id \in known'
      BY <1>2, <1>3 DEF Began, Goes
    <3>2. \A x \in q.gone : x.id = q.id /\ x.upload = NoUpload /\ (Out(q.id)' => x = Removed(q.id)')
      BY <1>3 DEF Out, Removed
    <3> QED BY <1>4, <3>1, <3>2 DEF Ready
  <2> QED BY <1>2, <1>4, <2>1, <2>2, QuietGoesOn, GoesOn DEF GoesWell
<1>5. /\ [q EXCEPT !.at = "passed"] \in Requests /\ [q EXCEPT !.at = "passed"].at = "passed"
      /\ [q EXCEPT !.at = "passed"].id = q.id /\ [q EXCEPT !.at = "passed"].gone = q.gone
  BY <1>1 DEF Requests, Steps
<1>6. /\ [q EXCEPT !.n = q.n + 1] \in Requests /\ [q EXCEPT !.n = q.n + 1].at = "pass"
      /\ [q EXCEPT !.n = q.n + 1].id = q.id /\ [q EXCEPT !.n = q.n + 1].gone = q.gone
  BY <1>1, <1>2, <1>3 DEF Requests
<1>7. CASE /\ got' = [got EXCEPT ![rec.id] = 1 .. PartCount(rec.bytes, PartBytes)]
           /\ Then(w, [q EXCEPT !.at = "passed"])
  <2>1. 1 .. PartCount(rec.bytes, PartBytes) \subseteq Nat
    BY <1>3, FilesAssumption, PartsType
  <2>2. got' \in [Ids -> SUBSET Nat]
    BY <1>3, <1>7, <2>1
  <2> QED BY <1>3, <1>4, <1>5, <1>7, <2>2
<1>8. CASE /\ got' = [got EXCEPT ![rec.id] = @ \cup {q.n}]
           /\ Then(w, IF q.n = PartCount(rec.bytes, rec.stream)
                      THEN [q EXCEPT !.at = "passed"] ELSE [q EXCEPT !.n = q.n + 1])
  <2>1. got' \in [Ids -> SUBSET Nat]
    BY <1>3, <1>8
  <2> QED BY <1>3, <1>4, <1>5, <1>6, <1>8, <2>1
<1>9. CASE rec.stream = 0 /\ rec.id \notin objects /\ got' = got /\ Then(w, Step(rec.id, "withdraw"))
  <2>1. /\ [Next]_vars /\ GrantsKept /\ Inv' /\ Typed' /\ BucketRight' /\ FilesRight'
        /\ Careful(worker[w])
    BY <1>2, <1>9, StillGoesOn DEF apps
  <2>2. file[q.id].state = "none"
    <3>1. ASSUME Out(q.id) PROVE FALSE
      <4>1. file[q.id].stream = 0 /\ file[q.id].state = "stored"
        BY <1>3, <1>9, <3>1, Asked DEF Removed, Began, Goes, Out, Record
      <4> QED BY <1>3, <1>9, <4>1, Asked DEF FileRight
    <3> QED BY <3>1 DEF Out
  <2>3. PICK r : r = Step(q.id, "withdraw")
    OBVIOUS
  <2>4. r \in Requests /\ r.at = "withdraw" /\ r.id = q.id
    BY <1>3, <2>3 DEF Requests, Steps, Step, Idle
  <2>5. Ready(r)'
    BY <1>2, <1>3, <2>2, <2>4 DEF Ready
  <2>6. \A v \in Workers \ {w} : Apart(r, worker[v]) /\ Apart(worker[v], r)
    <3>1. TAKE v \in Workers \ {w}
    <3>2. worker[v].at = "deliver" => worker[v].id \notin known
      BY Doing DEF Ready
    <3> QED BY <1>3, <2>4, <3>2 DEF Apart
  <2>7. worker' = [worker EXCEPT ![w] = r]
    BY <1>3, <1>9, <2>3 DEF Then
  <2> QED BY <2>1, <2>4, <2>5, <2>6, <2>7, StepKeeps DEF GoesWell
<1>10. CASE got' = got /\ Done(w)
  BY <1>2, <1>10, StillGoesOn, Finishes DEF GoesWell, apps
<1> QED BY <1>2, <1>7, <1>8, <1>9, <1>10

-----------------------------------------------------------------------------
(* The theorems *)

\* A request dies between two steps: it does nothing more.
LEMMA DieKeeps ==
  ASSUME FTInv, NEW w \in Workers, Die(w)
  PROVE  GoesWell
<1>1. UNCHANGED <<vars, apps, bucket>> /\ grants' = grants /\ sent' = sent
  BY DEF Die, vars, apps
<1>2. Typed'
  BY <1>1, TransferAssumption DEF Die, FTInv, Typed, TransferAssumption, apps, bucket
<1>3. AppsGoOn(worker[w])
  BY <1>1, SameApps
<1>4. PICK r : r = [Idle EXCEPT !.at = "dead"]
  OBVIOUS
<1>5. r \in Requests /\ r.at = "dead"
  BY <1>4 DEF Requests, Steps, Idle
<1>6. Ready(r)'
  BY <1>5 DEF Ready
<1>7. Then(w, r)
  BY <1>4 DEF Die
<1> QED BY <1>1, <1>2, <1>3, <1>5, <1>6, <1>7, QuietGoesOn, GoesOn DEF GoesWell

\* A step that changes no more than the clock.
LEMMA TimeKeeps ==
  ASSUME FTInv, [Next]_vars, UNCHANGED <<file, grants, worker, apps, bucket, deaths>>
  PROVE  GoesWell
<1>1. Inv' /\ UNCHANGED <<sent, known, heard, got, objects, pieces, multi>>
  BY LedgerGoesOn DEF apps, bucket
<1>2. Typed'
  BY <1>1 DEF FTInv, Typed
<1>3. PICK r : r = Idle
  OBVIOUS
<1>4. FilesGoOn(r) /\ BucketGoesOn(r) /\ AppsGoOn(r)
  BY <1>1, SameFiles, SameBucket, SameApps
<1>5. BucketRight' /\ FilesRight'
  BY <1>4, BucketStays, FilesStay
<1>6. \A s \in Requests : Ready(s) => Ready(s)'
  <2>1. r \in Requests /\ r.at = "idle" /\ Careful(r) /\ Ready(r)
    BY <1>3, <1>4 DEF Requests, Steps, Idle, Careful, Ready
  <2>2. TAKE s \in Requests
  <2>3. Apart(r, s) /\ Apart(s, r)
    BY <2>1 DEF Apart
  <2> QED BY <2>1, <2>3, OthersReady
<1>7. AllReady'
  <2>1. \A w \in Workers : worker[w] \in Requests /\ Ready(worker[w])
    BY DEF FTInv, AllReady
  <2>2. ASSUME NEW w \in Workers, NEW s, s = worker'[w] PROVE Ready(s)'
    BY <1>6, <2>1, <2>2
  <2> QED BY <2>2 DEF FTInv, AllReady, Ready
<1>8. AllApart' /\ GrantsKept
  BY DEF FTInv, AllApart, GrantsKept
<1> QED BY <1>1, <1>2, <1>5, <1>7, <1>8 DEF GoesWell, FTInv

\* Whatever a request asks first, it goes well.
LEMMA ArriveKeeps ==
  ASSUME FTInv, NEW w \in Workers, Arrive(w)
  PROVE  GoesWell
<1>1. CASE SweepFiles(w)
  BY <1>1, SweepFilesKeeps
<1>2. ASSUME NEW id \in Ids, NEW name \in Names,
             \/ \E to \in Names \ {name}, bytes \in Lengths : SendOffer(w, id, name, to, bytes)
             \/ Accept(w, id, name)
             \/ Cancel(w, id, name)
             \/ \E grant \in 0 .. MaxGrants, a \in Addresses : StartUpload(w, id, name, grant, a)
             \/ \E grant \in 1 .. MaxGrants, a \in Addresses : PutFirst(w, id, name, grant, 1, a)
             \/ \E n \in Parts(file[id]) :
                  \/ PutPart(w, id, name, n, PartLength(file[id].bytes, n, Size(file[id])))
                  \/ ReadPart(w, id, name, n)
                  \/ Download(w, id, name, n)
             \/ PutPart(w, id, name, 1, 0)
             \/ Finish(w, id, name)
      PROVE  GoesWell
  <2>1. ASSUME NEW to \in Names \ {name}, NEW bytes \in Lengths, SendOffer(w, id, name, to, bytes)
        PROVE  GoesWell
    BY <2>1, SendOfferKeeps
  <2>2. ASSUME NEW grant \in 0 .. MaxGrants, NEW a \in Addresses, StartUpload(w, id, name, grant, a)
        PROVE  GoesWell
    BY <2>2, StartKeeps
  <2>3. ASSUME NEW grant \in 1 .. MaxGrants, NEW a \in Addresses, PutFirst(w, id, name, grant, 1, a)
        PROVE  GoesWell
    BY <2>3, PutFirstKeeps
  <2>4. ASSUME NEW n \in Parts(file[id]),
               PutPart(w, id, name, n, PartLength(file[id].bytes, n, Size(file[id])))
        PROVE  GoesWell
    BY <2>4, PutPartKeeps
  <2>5. ASSUME PutPart(w, id, name, 1, 0) PROVE GoesWell
    BY <2>5, PutPartKeeps
  <2> QED BY <1>2, <2>1, <2>2, <2>3, <2>4, <2>5, AcceptKeeps, CancelKeeps, ReadPartKeeps, DownloadKeeps,
             FinishKeeps
<1> QED BY <1>1, <1>2 DEF Arrive

\* Whatever a request asks next, it goes well.
LEMMA ContinueKeeps ==
  ASSUME FTInv, NEW w \in Workers, Continue(w)
  PROVE  GoesWell
BY DeliverKeeps, WithdrawKeeps, NotifyKeeps, RevertKeeps, ClearKeeps, CreateKeeps, StartFailedKeeps,
   StartedKeeps, AbortKeeps, PutStartedKeeps, PutPieceKeeps, PieceDoneKeeps, UnputKeeps,
   UploadPartKeeps, UploadPartDoneKeeps, CompleteKeeps, FileStoredKeeps, UnmakeKeeps, PassPartKeeps,
   PartWasReadKeeps, PassFileKeeps, FilePassedKeeps
   DEF Continue

\* Every step is one of the ledger or none, takes back no grant that was heard of, and keeps the invariant.
LEMMA NextGoesWell ==
  ASSUME FTInv, [FTNext]_ftVars
  PROVE  GoesWell
<1>1. CASE Time
  <2>1. UNCHANGED <<file, grants, worker, apps, bucket, deaths>> /\ [Next]_vars
    BY <1>1 DEF Time, Tick, Next
  <2> QED BY <2>1, TimeKeeps
<1>2. CASE UNCHANGED ftVars
  <2>1. UNCHANGED <<file, grants, worker, apps, bucket, deaths>> /\ [Next]_vars
    BY <1>2 DEF ftVars, vars
  <2> QED BY <2>1, TimeKeeps
<1> QED BY <1>1, <1>2, ArriveKeeps, ContinueKeeps, DieKeeps DEF FTNext, FTStep

\* The relay starts with nothing offered and nothing in the bucket.
LEMMA InitRight == FTInit => FTInv
<1>1. SUFFICES ASSUME FTInit PROVE FTInv
  OBVIOUS
<1>2. Inv
  BY <1>1, InitInv DEF FTInit
<1>3. /\ grants = 0 /\ \A id \in Ids : file[id] = Blank
      /\ sent = {} /\ known = {} /\ objects = {} /\ pieces = {} /\ deaths = 0
      /\ heard = [id \in Ids |-> {}] /\ got = [id \in Ids |-> {}]
      /\ worker = [w \in Workers |-> Idle]
      /\ multi = [u \in Uploads |-> [state |-> "none", id |-> Nobody, parts |-> {}]]
  BY <1>1 DEF FTInit, Init
<1>4. Typed
  BY <1>3, TransferAssumption DEF Typed, Multis, TransferAssumption
<1>5. BucketRight
  BY <1>3 DEF BucketRight
<1>6. FilesRight
  <2>1. SUFFICES ASSUME NEW id \in Ids PROVE FileRight(id)
    BY DEF FilesRight
  <2>2. file[id] = Blank
    BY <1>3
  <2>3. Blank.state = "none" /\ Blank.upload = NoUpload /\ Blank.stream = 0
    BY DEF Blank
  <2> QED BY <2>2, <2>3 DEF FileRight, Out, Goes
<1>7. AllReady /\ AllApart
  BY <1>3 DEF AllReady, AllApart, Ready, Apart, Idle, Requests, Steps
<1> QED BY <1>2, <1>4, <1>5, <1>6, <1>7 DEF FTInv

\* The invariant is inductive: every step of a request, of the clock, of a request that dies.
THEOREM TransferInvariant == FTSpec => []FTInv
<1>1. FTInit => FTInv
  BY InitRight
<1>2. FTInv /\ [FTNext]_ftVars => FTInv'
  BY NextGoesWell DEF GoesWell
<1> QED BY <1>1, <1>2, PTL DEF FTSpec

\* The worker's routes ask the ledger for no more than its own specification allows: every
\* step of the transfer is a step of the ledger or leaves it alone, so what is proved of the
\* ledger for any order of calls holds while files are transferred.
THEOREM LedgerUnderneath == FTSpec => Spec
<1>1. FTInit => Init
  BY DEF FTInit
<1>2. FTInv /\ [FTNext]_ftVars => [Next]_vars
  BY NextGoesWell DEF GoesWell
<1> QED BY <1>1, <1>2, TransferInvariant, PTL DEF FTSpec, Spec

\* The hard caps hold of the files while they are transferred, whatever requests cross.
THEOREM CapsInTransfer == FTSpec => []CapsHold
BY LedgerUnderneath, CapsAreHard, PTL

\* A grant its sender heard of is never taken back before it has run out.
THEOREM GrantsStand == FTSpec => GrantStands
<1>1. FTInv /\ [FTNext]_ftVars => GrantsKept
  BY NextGoesWell DEF GoesWell
<1>2. FTInv /\ [FTNext]_ftVars =>
        [\A id \in Ids : /\ file[id].state = "granted" /\ file[id].grant \in heard[id]
                         /\ file'[id].state = "offered"
                         => file[id].grantExpires <= now]_ftVars
  BY <1>1 DEF GrantsKept
<1> QED BY <1>2, TransferInvariant, PTL DEF FTSpec, GrantStands

-----------------------------------------------------------------------------
(* Who answers for what is left in the bucket *)

\* What the request r is yet to take out of the bucket, or have the ledger hold room for.
ForObject(r, x) ==
  \/ r.at = "stored" /\ r.id = x /\ r.upload # NoUpload
  \/ r.at = "unmake" /\ r.id = x
  \/ r.at = "clear" /\ \E rec \in r.gone : rec.id = x /\ rec.stream = 0 /\ rec.state = "stored"

ForPiece(r, p) ==
  \/ r.at \in {"putDone", "unput"} /\ p = <<r.id, r.n>>
  \/ r.at = "clear" /\ \E rec \in r.gone :
       rec.stream > 0 /\ rec.state \in {"uploading", "stored"} /\ p \in PartKeys(rec)

ForUpload(r, u) ==
  \/ r.at \in {"started", "abort"} /\ r.upload = u
  \/ r.at = "clear" /\ \E rec \in r.gone :
       rec.stream = 0 /\ rec.state = "uploading" /\ rec.upload = u

\* ... and which upload it is yet to move on, the file's multipart upload being u
ForFile(r, x, u) ==
  \/ u = NoUpload /\ r.at \in {"create", "started", "startFailed"} /\ r.id = x
  \/ u # NoUpload /\ r.at = "stored" /\ r.upload = u

Whole(x)   == file[x].state = "stored" /\ file[x].stream = 0
HeldBy(u)  == Goes(multi[u].id) /\ file[multi[u].id].upload = u
Multi(x)   == Goes(x) /\ file[x].stream = 0
CanGoOn(x) == file[x].upload # NoUpload /\ multi[file[x].upload].state = "open"

\* Whatever the ledger does not hold room for, a request on its way will take out.
Answered ==
  /\ \A x \in objects : Whole(x) \/ \E w \in Workers : ForObject(worker[w], x)
  /\ \A p \in pieces : Out(p[1]) \/ \E w \in Workers : ForPiece(worker[w], p)
  /\ \A u \in Uploads : multi[u].state = "open" =>
       HeldBy(u) \/ \E w \in Workers : ForUpload(worker[w], u)
  /\ \A x \in Ids : Multi(x) =>
       CanGoOn(x) \/ \E w \in Workers : ForFile(worker[w], x, file[x].upload)

\* How a request's step leaves the file x: as it was, in its hands to be cleared, not yet
\* uploading unless it is the one to make its upload, with its upload known, or stored whole.
Handed(r, x) ==
  \/ /\ file'[x].state = file[x].state /\ file'[x].stream = file[x].stream
     /\ file'[x].upload = file[x].upload
  \/ file'[x].state = "none" /\ r.at = "clear" /\ Removed(x) \in r.gone
  \/ ~Began(x) /\ (Multi(x)' => r.at = "create" /\ r.id = x /\ file'[x].upload = NoUpload)
  \/ /\ Goes(x) /\ Goes(x)' /\ file'[x].stream = file[x].stream
     /\ file[x].upload = NoUpload /\ file'[x].upload # NoUpload /\ CanGoOn(x)'
  \/ /\ Goes(x) /\ file'[x].state = "stored" /\ file'[x].stream = file[x].stream
     /\ file[x].upload # NoUpload => multi[file[x].upload].state # "open"

\* What it puts in the bucket, and the uploads it ends, are in its hands.
InHand(r) ==
  /\ \A x \in objects' : x \in objects \/ ForObject(r, x)
  /\ \A p \in pieces' : p \in pieces \/ ForPiece(r, p)
  /\ \A u \in Uploads :
       /\ multi'[u].state = "open" =>
            (multi[u].state = "open" /\ multi'[u].id = multi[u].id) \/ ForUpload(r, u)
       /\ multi[u].state = "open" /\ multi'[u].state # "open" =>
            \A x \in Ids : Multi(x)' /\ file[x].upload = u => ForFile(r, x, u)

\* What it had to do before the step, q, it did or has still to do.
Relieved(q, r) ==
  /\ \A x \in objects' : ForObject(q, x) => Whole(x)' \/ ForObject(r, x)
  /\ \A p \in pieces' : ForPiece(q, p) => Out(p[1])' \/ ForPiece(r, p)
  /\ \A u \in Uploads :
       multi'[u].state = "open" /\ ForUpload(q, u) => HeldBy(u)' \/ ForUpload(r, u)
  /\ \A x \in Ids :
       Multi(x)' /\ ForFile(q, x, file'[x].upload) => CanGoOn(x)' \/ ForFile(r, x, file'[x].upload)

\* A step that does so leaves nothing behind.
LEMMA AnswersStay ==
  ASSUME FTInv, Answered, NEW w \in Workers, NEW q, q = worker[w], NEW r, Then(w, r),
         \A x \in Ids : Handed(r, x), InHand(r), Relieved(q, r)
  PROVE  Answered'
<1>1. worker'[w] = r /\ \A v \in Workers \ {w} : worker'[v] = worker[v]
  BY DEF FTInv, AllReady, Then
<1>2. ASSUME NEW x \in objects' PROVE Whole(x)' \/ \E v \in Workers : ForObject(worker'[v], x)
  <2>1. CASE x \notin objects
    BY <1>1, <1>2, <2>1 DEF InHand
  <2>2. CASE x \in objects /\ Whole(x)
    <3>1. x \in Ids /\ Began(x) /\ ~Goes(x)
      BY <2>2 DEF FTInv, Typed, BucketRight, Whole, Goes
    <3>2. CASE Whole(x)'
      BY <3>2
    <3>3. CASE r.at = "clear" /\ Removed(x) \in r.gone
      <4>1. ForObject(r, x)
        BY <2>2, <3>3 DEF ForObject, Removed, Whole
      <4> QED BY <1>1, <4>1
    <3> QED BY <2>2, <3>1, <3>2, <3>3 DEF Handed, Whole
  <2>3. CASE x \in objects /\ \E v \in Workers : ForObject(worker[v], x)
    <3>1. PICK v \in Workers : ForObject(worker[v], x)
      BY <2>3
    <3>2. CASE v = w
      BY <1>1, <1>2, <3>1, <3>2 DEF Relieved
    <3>3. CASE v # w
      BY <1>1, <3>1, <3>3
    <3> QED BY <3>2, <3>3
  <2> QED BY <2>1, <2>2, <2>3 DEF Answered
<1>3. ASSUME NEW p \in pieces' PROVE Out(p[1])' \/ \E v \in Workers : ForPiece(worker'[v], p)
  <2>1. CASE p \notin pieces
    BY <1>1, <1>3, <2>1 DEF InHand
  <2>2. CASE p \in pieces /\ Out(p[1])
    <3>1. PICK x \in Ids : x = p[1] /\ Began(x) /\ Piece(x, p[2]) /\ file[x] \in Record
      BY <2>2, Asked DEF FTInv, Typed, BucketRight
    <3>2. CASE Out(x)'
      BY <3>1, <3>2
    <3>3. CASE r.at = "clear" /\ Removed(x) \in r.gone
      <4>1. /\ p = <<x, p[2]>> /\ p[2] \in 1 .. PartCount(file[x].bytes, file[x].stream)
            /\ file[x].stream > 0
        BY <2>2, <3>1 DEF FTInv, Typed, Piece, Parts, Size
      <4>2. p \in PartKeys(Removed(x))
        BY <4>1 DEF PartKeys, Removed
      <4>3. file[x].state \in {"uploading", "stored"}
        BY <2>2, <3>1 DEF Began, Out, Record
      <4>4. Removed(x).stream = file[x].stream /\ Removed(x).state = file[x].state
        BY DEF Removed
      <4>5. ForPiece(r, p)
        BY <3>3, <4>1, <4>2, <4>3, <4>4 DEF ForPiece
      <4> QED BY <1>1, <4>5
    <3> QED BY <2>2, <3>1, <3>2, <3>3 DEF Handed, Goes, Out
  <2>3. CASE p \in pieces /\ \E v \in Workers : ForPiece(worker[v], p)
    <3>1. PICK v \in Workers : ForPiece(worker[v], p)
      BY <2>3
    <3>2. CASE v = w
      BY <1>1, <1>3, <3>1, <3>2 DEF Relieved
    <3>3. CASE v # w
      BY <1>1, <3>1, <3>3
    <3> QED BY <3>2, <3>3
  <2> QED BY <2>1, <2>2, <2>3 DEF Answered
<1>4. ASSUME NEW u \in Uploads, multi'[u].state = "open"
      PROVE  HeldBy(u)' \/ \E v \in Workers : ForUpload(worker'[v], u)
  <2>1. CASE ForUpload(r, u)
    BY <1>1, <2>1
  <2>2. CASE multi[u].state = "open" /\ multi'[u].id = multi[u].id /\ HeldBy(u)
    <3>1. PICK x \in Ids : x = multi[u].id /\ Began(x) /\ Goes(x) /\ file[x].upload = u
      BY <2>2 DEF FTInv, Typed, BucketRight, Began, HeldBy
    <3>2. file[x].stream = 0 /\ u # NoUpload /\ file[x].state = "uploading"
      BY <3>1, Asked, LedgerAssumption DEF FileRight, LedgerAssumption, Goes
    <3>3. CASE Goes(x)' /\ file'[x].upload = u
      BY <2>2, <3>1, <3>3 DEF HeldBy, Goes
    <3>4. CASE r.at = "clear" /\ Removed(x) \in r.gone
      <4>1. ForUpload(r, u)
        BY <3>1, <3>2, <3>4 DEF ForUpload, Removed
      <4> QED BY <1>1, <4>1
    <3> QED BY <2>2, <3>1, <3>2, <3>3, <3>4 DEF Handed, Goes
  <2>3. CASE multi[u].state = "open" /\ \E v \in Workers : ForUpload(worker[v], u)
    <3>1. PICK v \in Workers : ForUpload(worker[v], u)
      BY <2>3
    <3>2. CASE v = w
      BY <1>1, <1>4, <3>1, <3>2 DEF Relieved
    <3>3. CASE v # w
      BY <1>1, <3>1, <3>3
    <3> QED BY <3>2, <3>3
  <2> QED BY <1>4, <2>1, <2>2, <2>3 DEF Answered, InHand
<1>5. ASSUME NEW x \in Ids, Multi(x)'
      PROVE  CanGoOn(x)' \/ \E v \in Workers : ForFile(worker'[v], x, file'[x].upload)
  <2>1. CASE ~Began(x)
    <3>1. Handed(r, x)
      OBVIOUS
    <3>2. CASE r.at = "create" /\ r.id = x /\ file'[x].upload = NoUpload
      BY <1>1, <3>2 DEF ForFile
    <3>3. CASE Multi(x)
      <4>1. Out(x) /\ FileRight(x) /\ x \in sent
        BY <3>3, Asked DEF Multi, Goes, Out, FileRight
      <4> QED BY <2>1, <3>3, <4>1 DEF Began, Multi, Goes
    <3> QED BY <1>5, <2>1, <3>1, <3>2, <3>3 DEF Handed, Multi, Goes
  <2>2. CASE CanGoOn(x)'
    BY <2>2
  <2>3. CASE Multi(x) /\ file'[x].upload = file[x].upload
    <3>1. CASE CanGoOn(x)
      <4>1. PICK u \in Uploads : u = file[x].upload /\ multi[u].state = "open" /\ u # NoUpload
        BY <3>1, Asked DEF CanGoOn, FileRight, MadeFor
      <4>2. CASE multi'[u].state = "open"
        BY <2>3, <4>1, <4>2 DEF CanGoOn
      <4>3. CASE multi'[u].state # "open"
        <5>1. ForFile(r, x, u)
          BY <1>5, <4>1, <4>3 DEF InHand
        <5> QED BY <1>1, <2>3, <4>1, <5>1
      <4> QED BY <4>2, <4>3
    <3>2. CASE \E v \in Workers : ForFile(worker[v], x, file[x].upload)
      <4>1. PICK v \in Workers : ForFile(worker[v], x, file'[x].upload)
        BY <2>3, <3>2
      <4>2. CASE v = w
        BY <1>1, <1>5, <4>1, <4>2 DEF Relieved
      <4>3. CASE v # w
        BY <1>1, <4>1, <4>3
      <4> QED BY <4>2, <4>3
    <3> QED BY <2>3, <3>1, <3>2 DEF Answered
  <2> QED BY <1>5, <2>1, <2>2, <2>3 DEF Handed, Multi, Goes
<1> QED BY <1>2, <1>3, <1>4, <1>5 DEF Answered, Whole, Out, HeldBy, Goes, Multi, CanGoOn

-----------------------------------------------------------------------------
(* Offers, grants and starts answer for what they leave *)

\* Most steps have nothing in hand to take out.
Unburdened(q) ==
  \/ q.at \notin {"clear", "create", "started", "startFailed", "abort", "putDone", "unput",
                  "stored", "unmake"}
  \/ q.at = "stored" /\ q.upload = NoUpload

\* A request that is at none of these calls answers for nothing ...
LEMMA NothingToDo ==
  ASSUME NEW q, Unburdened(q)
  PROVE  /\ \A x : ~ForObject(q, x)
         /\ \A p : ~ForPiece(q, p)
         /\ \A u \in Uploads : ~ForUpload(q, u)
         /\ \A x, u : ~ForFile(q, x, u)
BY DEF Unburdened, ForObject, ForPiece, ForUpload, ForFile

\* ... so that nothing is left undone by whatever it turns into.
LEMMA EasyGoing ==
  ASSUME NEW q, Unburdened(q), NEW r
  PROVE  Relieved(q, r)
BY NothingToDo DEF Relieved

\* A step that leaves the bucket as it is puts nothing in it.
LEMMA NothingInHand ==
  ASSUME NEW r, UNCHANGED bucket
  PROVE  InHand(r)
BY DEF InHand, bucket

\* A step that changes neither the files nor the bucket, of a request with nothing in hand.
LEMMA StillAnswered ==
  ASSUME FTInv, Answered, NEW w \in Workers, Unburdened(worker[w]), NEW r, Then(w, r),
         UNCHANGED <<file, bucket>>
  PROVE  Answered'
<1>1. \A x \in Ids : Handed(r, x)
  BY DEF Handed
<1> QED BY <1>1, AnswersStay, EasyGoing, NothingInHand

\* ... or that changes files, and hands what goes to the request to be cleared.
LEMMA HandsOver ==
  ASSUME FTInv, Answered, NEW w \in Workers, Unburdened(worker[w]), NEW r, Then(w, r),
         UNCHANGED bucket, \A x \in Ids : file'[x] = file[x] \/ Handed(r, x)
  PROVE  Answered'
<1>1. \A x \in Ids : Handed(r, x)
  BY DEF Handed
<1> QED BY <1>1, AnswersStay, EasyGoing, NothingInHand

\* The clock.
LEMMA TimeAnswers ==
  ASSUME Answered, UNCHANGED <<file, worker, bucket>>
  PROVE  Answered'
BY DEF Answered, bucket, Whole, Out, HeldBy, Goes, Multi, CanGoOn

\* The files of a removal: the one record that goes is handed to be cleared, or was not begun.
LEMMA ClearingHands ==
  ASSUME NEW S, NEW x, file'[x].state = "none", Removed(x) \in S
  PROVE  Handed(Clearing(S), x)
BY DEF Handed, Clearing

\* A file not begun, and not uploading after the step, leaves nothing behind.
LEMMA NotBegunHands ==
  ASSUME FTInv, NEW x \in Ids, file[x].state \in {"offered", "granted"} \/ x \notin sent,
         file'[x].state # "uploading", NEW r
  PROVE  Handed(r, x)
BY DEF Handed, Began, Multi, Goes

\* What lapses under a call of the ledger is gone, or an offer again.
LEMMA LapsedNotUploading ==
  ASSUME FTInv, Lapses, NEW x \in Ids, file'[x] # file[x]
  PROVE  file'[x].state \in {"none", "offered"}
<1>1. file[x] \in Record
  BY Asked
<1>2. CASE file'[x] = Blank
  BY <1>2 DEF Blank
<1>3. CASE file'[x] = Offered(file[x])
  BY <1>1, <1>3 DEF Offered, Record
<1> QED BY <1>2, <1>3 DEF Lapses

\* Offering a file puts nothing in the bucket.
LEMMA SendOfferAnswers ==
  ASSUME FTInv, Answered, NEW w \in Workers, NEW id \in Ids, NEW from \in Names, NEW to \in Names,
         NEW bytes \in Lengths, SendOffer(w, id, from, to, bytes)
  PROVE  Answered'
<1>1. id \notin sent /\ Offer(id, from, to, bytes) /\ Inv /\ UNCHANGED bucket
  BY DEF SendOffer, FTInv
<1>2. /\ OfferAnswer(id, from, bytes) # "ok" => file' = file
      /\ OfferAnswer(id, from, bytes) = "ok" =>
           Becomes(id, [Blank EXCEPT !.state = "offered", !.from = from, !.to = to,
                                     !.bytes = bytes, !.expires = now + OfferTtl])
  BY <1>1, OfferMoves
<1>3. PICK r : Then(w, r)
  BY DEF SendOffer, Done
<1>4. Unburdened(worker[w])
  BY DEF SendOffer, Free, Idle, Unburdened
<1>5. \A x \in Ids : file'[x] = file[x] \/ (x = id /\ file'[x].state # "uploading")
  BY <1>2 DEF Becomes, Blank
<1>6. \A x \in Ids : file'[x] = file[x] \/ Handed(r, x)
  BY <1>1, <1>5, NotBegunHands
<1> QED BY <1>1, <1>3, <1>4, <1>6, HandsOver

\* Telling the other inbox of an offer changes no file.
LEMMA DeliverAnswers ==
  ASSUME FTInv, Answered, NEW w \in Workers, Deliver(w)
  PROVE  Answered'
<1>1. PICK r : Then(w, r)
  BY DEF Deliver, Done
<1> QED BY <1>1, StillAnswered DEF Deliver, At, Unburdened, vars

\* An offer that cannot be told of is dropped before anybody could begin it.
LEMMA WithdrawAnswers ==
  ASSUME FTInv, Answered, NEW w \in Workers, Withdraw(w)
  PROVE  Answered'
<1>1. PICK q \in Requests : q = worker[w] /\ Ready(q)
  BY Doing
<1>2. /\ q.at = "withdraw" /\ q.id \in Ids /\ (q.id \notin known \/ file[q.id].state = "none")
      /\ Remove(q.id, Nobody) /\ Then(w, Idle) /\ UNCHANGED bucket /\ Inv
  BY <1>1 DEF Withdraw, At, Ready, FTInv, Typed, Done
<1>3. /\ \A x \in Ids \ {q.id} : file'[x] = file[x]
      /\ RemoveAnswer(q.id, Nobody) # "removed" => file' = file
      /\ file'[q.id].state = "none"
  BY <1>2, RemoveMoves
<1>4. file[q.id].state \in {"offered", "granted"} \/ file' = file
  <2>1. file[q.id].state \in {"none", "offered"}
    BY <1>2, Asked DEF FileRight
  <2>2. file[q.id].state = "none" => RemoveAnswer(q.id, Nobody) # "removed"
    BY DEF RemoveAnswer, Out
  <2> QED BY <1>3, <2>1, <2>2
<1>5. \A x \in Ids : file'[x] = file[x] \/ Handed(Idle, x)
  BY <1>2, <1>3, <1>4, NotBegunHands
<1> QED BY <1>1, <1>2, <1>5, HandsOver DEF Unburdened

\* Cancelling a file takes its record into hand, to be cleared.
LEMMA CancelAnswers ==
  ASSUME FTInv, Answered, NEW w \in Workers, NEW id \in Ids, NEW name \in Names, Cancel(w, id, name)
  PROVE  Answered'
<1>1. Remove(id, name) /\ UNCHANGED bucket /\ Inv /\ Unburdened(worker[w])
  BY DEF Cancel, FTInv, Free, Idle, Unburdened
<1>2. /\ \A x \in Ids \ {id} : file'[x] = file[x]
      /\ RemoveAnswer(id, name) = "removed" => Out(id) /\ file'[id] = Blank
      /\ RemoveAnswer(id, name) # "removed" => file' = file
  BY <1>1, RemoveMoves
<1>3. PICK S : S = IF RemoveAnswer(id, name) = "removed" THEN {Removed(id)} ELSE {}
  OBVIOUS
<1>4. Then(w, Clearing(S))
  BY <1>3 DEF Cancel
<1>5. \A x \in Ids : file'[x] = file[x] \/ Handed(Clearing(S), x)
  BY <1>2, <1>3, ClearingHands DEF Blank
<1> QED BY <1>1, <1>4, <1>5, HandsOver

\* Accepting one makes an offer a grant.
LEMMA AcceptAnswers ==
  ASSUME FTInv, Answered, NEW w \in Workers, NEW id \in Ids, NEW name \in Names, Accept(w, id, name)
  PROVE  Answered'
<1>1. Grant(id, name) /\ UNCHANGED bucket /\ Inv /\ Unburdened(worker[w])
  BY DEF Accept, FTInv, Free, Idle, Unburdened
<1>2. /\ GrantAnswer(id, name) # "ok" =>
           /\ Lapses
           /\ \A x \in Ids : file'[x] # file[x] => x = id /\ file[id].state = "offered"
      /\ GrantAnswer(id, name) = "ok" =>
           /\ file[id].state = "offered"
           /\ Becomes(id, [file[id] EXCEPT !.state = "granted", !.grant = grants + 1,
                                           !.grantExpires = now + GrantTtl, !.day = Today])
  BY <1>1, GrantMoves
<1>3. PICK r : Then(w, r)
  BY DEF Accept, Done
<1>4. ASSUME NEW x \in Ids, file'[x] # file[x]
      PROVE  file[x].state = "offered" /\ file'[x].state # "uploading"
  <2>1. CASE GrantAnswer(id, name) # "ok"
    BY <1>2, <1>4, <2>1, LapsedNotUploading
  <2>2. CASE GrantAnswer(id, name) = "ok"
    <3>1. x = id /\ file[id] \in Record /\ file[id].state = "offered"
      BY <1>2, <1>4, <2>2, Asked DEF Becomes
    <3>2. file'[id] = [file[id] EXCEPT !.state = "granted", !.grant = grants + 1,
                                       !.grantExpires = now + GrantTtl, !.day = Today]
      BY <1>2, <2>2 DEF Becomes
    <3>3. file'[id].state = "granted"
      BY <3>1, <3>2 DEF Record
    <3> QED BY <3>1, <3>3
  <2> QED BY <2>1, <2>2
<1>5. \A x \in Ids : file'[x] = file[x] \/ Handed(r, x)
  BY <1>4, NotBegunHands
<1> QED BY <1>1, <1>3, <1>5, HandsOver

\* Telling its sender so changes no file.
LEMMA NotifyAnswers ==
  ASSUME FTInv, Answered, NEW w \in Workers, NotifyAccepted(w)
  PROVE  Answered'
<1>1. PICK r : Then(w, r)
  BY DEF NotifyAccepted, Done
<1> QED BY <1>1, StillAnswered DEF NotifyAccepted, At, Unburdened, vars

\* A grant nobody hears of is an offer again.
LEMMA RevertAnswers ==
  ASSUME FTInv, Answered, NEW w \in Workers, RevertGrant(w)
  PROVE  Answered'
<1>1. PICK q \in Requests : q = worker[w] /\ Ready(q)
  BY Doing
<1>2. q.at = "revert" /\ q.id \in Ids /\ Revert(q.id, q.grant) /\ Then(w, Idle) /\ UNCHANGED bucket
      /\ Inv
  BY <1>1 DEF RevertGrant, At, Ready, FTInv, Typed, Done
<1>3. \A x \in Ids : file'[x] # file[x] =>
        /\ x = q.id /\ file[q.id].state = "granted" /\ file'[q.id] = Offered(file[q.id])
  BY <1>2, RevertMoves
<1>4. ASSUME NEW x \in Ids, file'[x] # file[x]
      PROVE  file[x].state = "granted" /\ file'[x].state # "uploading"
  <2>1. file[x] \in Record
    BY <1>4, Asked
  <2> QED BY <1>3, <1>4, <2>1 DEF Offered, Record
<1>5. \A x \in Ids : file'[x] = file[x] \/ Handed(Idle, x)
  BY <1>4, NotBegunHands
<1> QED BY <1>1, <1>2, <1>5, HandsOver DEF Unburdened

\* The hourly cron takes in hand all it sweeps, to be cleared.
LEMMA SweepFilesAnswers ==
  ASSUME FTInv, Answered, NEW w \in Workers, SweepFiles(w)
  PROVE  Answered'
<1>1. Sweep /\ UNCHANGED bucket /\ Inv /\ Unburdened(worker[w])
  BY DEF SweepFiles, FTInv, Free, Idle, Unburdened
<1>2. \A x \in Ids : file'[x] # file[x] =>
           \/ x \in Swept /\ file'[x] = Blank
           \/ file[x].state = "granted" /\ file'[x] = Offered(file[x])
  BY <1>1, SweepMoves
<1>3. PICK S : S = {Removed(id) : id \in Swept}
  OBVIOUS
<1>4. Then(w, Clearing(S))
  BY <1>3 DEF SweepFiles
<1>5. ASSUME NEW x \in Ids, file'[x] # file[x] PROVE Handed(Clearing(S), x)
  <2>1. CASE x \in Swept /\ file'[x] = Blank
    BY <1>3, <2>1, ClearingHands DEF Blank
  <2>2. CASE file[x].state = "granted" /\ file'[x] = Offered(file[x])
    <3>1. file'[x].state = "offered"
      BY <1>5, <2>2, Asked DEF Offered, Record
    <3> QED BY <1>5, <2>2, <3>1, NotBegunHands
  <2> QED BY <1>2, <1>5, <2>1, <2>2
<1> QED BY <1>1, <1>4, <1>5, HandsOver

\* A start that makes the record wait for an upload goes on to make it.
LEMMA StartAnswers ==
  ASSUME FTInv, Answered, NEW w \in Workers, NEW id \in Ids, NEW from, NEW grant, NEW a,
         StartUpload(w, id, from, grant, a)
  PROVE  Answered'
<1>1. Start(id, from, grant, a) /\ UNCHANGED bucket /\ Inv /\ Unburdened(worker[w])
  BY DEF StartUpload, FTInv, Free, Idle, Unburdened
<1>2. /\ StartAnswer(id, from, grant, a) # "ok" =>
           /\ Lapses
           /\ \A x \in Ids : file'[x] # file[x] => x = id /\ file[id].state = "granted"
      /\ StartAnswer(id, from, grant, a) = "ok" =>
           file[id].state = "granted" /\ Becomes(id, Uploading(file[id], 0))
  BY <1>1, StartMoves
<1>3. PICK r : Then(w, r) /\ (StartAnswer(id, from, grant, a) = "ok" => r = Step(id, "create"))
  BY DEF StartUpload, Done
<1>4. ASSUME NEW x \in Ids, file'[x] # file[x] PROVE Handed(r, x)
  <2>1. file[x] \in Record
    BY <1>4, Asked
  <2>2. CASE StartAnswer(id, from, grant, a) # "ok"
    <3>1. file[x].state = "granted" /\ file'[x].state # "uploading"
      BY <1>2, <1>4, <2>2, LapsedNotUploading
    <3> QED BY <1>4, <3>1, NotBegunHands
  <2>3. CASE StartAnswer(id, from, grant, a) = "ok"
    <3>1. x = id /\ ~Began(x) /\ file'[x].upload = NoUpload
      <4>1. x = id /\ file[id].state = "granted" /\ file'[id] = Uploading(file[id], 0)
        BY <1>2, <1>4, <2>3 DEF Becomes
      <4> QED BY <2>1, <4>1 DEF Began, Uploading, Record
    <3>2. r.at = "create" /\ r.id = x
      BY <1>3, <2>3, <3>1 DEF Step, Idle
    <3> QED BY <3>1, <3>2 DEF Handed
  <2> QED BY <2>2, <2>3
<1> QED BY <1>1, <1>3, <1>4, HandsOver

\* A first part put in one request starts a streamed upload, which has no upload to make.
LEMMA PutFirstAnswers ==
  ASSUME FTInv, Answered, NEW w \in Workers, NEW id \in Ids, NEW from, NEW grant, NEW n, NEW a,
         PutFirst(w, id, from, grant, n, a)
  PROVE  Answered'
<1> DEFINE answer == StartStreamAnswer(id, from, grant, a)
<1>1. StartStream(id, from, grant, a) /\ UNCHANGED bucket /\ Inv /\ Unburdened(worker[w])
  BY DEF PutFirst, FTInv, Free, Idle, Unburdened
<1>2. /\ answer # "ok" =>
           /\ Lapses
           /\ \A x \in Ids : file'[x] # file[x] => x = id /\ file[id].state = "granted"
      /\ answer = "ok" =>
           /\ file[id].state = "granted"
           /\ Becomes(id, Uploading(file[id], StreamPartBytes(file[id].bytes)))
  BY <1>1, StartStreamMoves
<1>3. PICK r : Then(w, r)
  BY DEF PutFirst, Done
<1>4. ASSUME NEW x \in Ids, file'[x] # file[x] PROVE Handed(r, x)
  <2>1. file[x] \in Record
    BY <1>4, Asked
  <2>2. CASE answer # "ok"
    <3>1. file[x].state = "granted" /\ file'[x].state # "uploading"
      BY <1>2, <1>4, <2>2, LapsedNotUploading
    <3> QED BY <1>4, <3>1, NotBegunHands
  <2>3. CASE answer = "ok"
    <3>1. x = id /\ ~Began(x) /\ file'[x].stream = StreamPartBytes(file[x].bytes)
      <4>1. /\ x = id /\ file[id].state = "granted"
            /\ file'[id] = Uploading(file[id], StreamPartBytes(file[id].bytes))
        BY <1>2, <1>4, <2>3 DEF Becomes
      <4> QED BY <2>1, <4>1 DEF Began, Uploading, Record
    <3>2. StreamPartBytes(file[x].bytes) # 0
      BY <2>1, StreamParts DEF Record
    <3>3. ~Multi(x)'
      BY <3>1, <3>2 DEF Multi
    <3> QED BY <3>1, <3>3 DEF Handed
  <2> QED BY <2>2, <2>3
<1> QED BY <1>1, <1>3, <1>4, HandsOver

-----------------------------------------------------------------------------
(* So do the uploads *)

\* An upload is made for one file.
LEMMA MadeForOne ==
  ASSUME FTInv, NEW x \in Ids, NEW u \in Uploads, file[x].upload = u
  PROVE  MadeFor(u, x) /\ multi[u].id = x /\ Goes(x) /\ file[x].stream = 0
BY Asked, LedgerAssumption DEF FileRight, MadeFor, LedgerAssumption

\* A step that leaves the files as they are.
LEMMA FilesSame ==
  ASSUME NEW r, file' = file
  PROVE  \A x \in Ids : Handed(r, x)
BY DEF Handed

\* What is still to be cleared stays in the request's hands.
LEMMA StillClearing ==
  ASSUME NEW q, q.at = "clear", NEW rec \in q.gone, NEW r, r = Clearing(q.gone \ {rec})
  PROVE  \A other \in q.gone : other # rec => r.at = "clear" /\ other \in r.gone
BY DEF Clearing

\* clear takes what it was given out of the bucket, and nothing else does.
LEMMA ClearAnswers ==
  ASSUME FTInv, Answered, NEW w \in Workers, Clear(w)
  PROVE  Answered'
<1>1. PICK q \in Requests : q = worker[w] /\ Ready(q)
  BY Doing
<1>2. PICK rec \in q.gone :
        /\ Then(w, Clearing(q.gone \ {rec})) /\ q.at = "clear"
        /\ \/ /\ rec.stream > 0 /\ rec.state \in {"uploading", "stored"}
              /\ pieces' = pieces \ PartKeys(rec)
              /\ UNCHANGED <<objects, multi>>
           \/ /\ rec.stream = 0 /\ rec.state = "uploading" /\ rec.upload # NoUpload
              /\ multi' = [multi EXCEPT ![rec.upload].state = IF @ = "open" THEN "over" ELSE @]
              /\ UNCHANGED <<objects, pieces>>
           \/ /\ rec.stream = 0 /\ rec.state = "stored"
              /\ objects' = objects \ {rec.id}
              /\ UNCHANGED <<pieces, multi>>
           \/ /\ rec.stream = 0 /\ rec.upload = NoUpload /\ rec.state # "stored"
              /\ UNCHANGED bucket
        /\ file' = file
  BY <1>1 DEF Clear, At, vars
<1>3. PICK r : r = Clearing(q.gone \ {rec})
  OBVIOUS
<1>4. \A other \in q.gone : other # rec => r.at = "clear" /\ other \in r.gone
  BY <1>2, <1>3, StillClearing
<1>5. /\ multi \in [Uploads -> Multis] /\ NoUpload \notin Uploads /\ rec \in Goners
      /\ Gone(rec)
  BY <1>1, <1>2, LedgerAssumption DEF FTInv, Typed, LedgerAssumption, Ready, Requests
<1>6. /\ \A x, u : ~ForFile(q, x, u)
      /\ \A x : ForObject(q, x) <=> \E other \in q.gone : /\ other.id = x /\ other.stream = 0
                                                         /\ other.state = "stored"
      /\ \A p : ForPiece(q, p) <=> \E other \in q.gone : /\ other.stream > 0
                                                        /\ other.state \in {"uploading", "stored"}
                                                        /\ p \in PartKeys(other)
      /\ \A u \in Uploads : ForUpload(q, u) <=> \E other \in q.gone : /\ other.stream = 0
                                                        /\ other.state = "uploading"
                                                        /\ other.upload = u
  BY <1>2 DEF ForFile, ForObject, ForPiece, ForUpload
<1>7. /\ \A x : ForObject(q, x) => ForObject(r, x) \/ (rec.id = x /\ rec.stream = 0 /\ rec.state = "stored")
      /\ \A p : ForPiece(q, p) => \/ ForPiece(r, p)
                                  \/ /\ rec.stream > 0 /\ rec.state \in {"uploading", "stored"}
                                     /\ p \in PartKeys(rec)
      /\ \A u \in Uploads : ForUpload(q, u) => ForUpload(r, u) \/ (rec.stream = 0 /\ rec.state = "uploading" /\ rec.upload = u)
  BY <1>4, <1>6 DEF ForObject, ForPiece, ForUpload
<1>8. InHand(r) /\ Relieved(q, r)
  <2>1. CASE /\ rec.stream > 0 /\ pieces' = pieces \ PartKeys(rec) /\ UNCHANGED <<objects, multi>>
    BY <1>6, <1>7, <2>1 DEF InHand, Relieved
  <2>2. CASE /\ rec.stream = 0 /\ rec.state = "uploading" /\ rec.upload # NoUpload
             /\ multi' = [multi EXCEPT ![rec.upload].state = IF @ = "open" THEN "over" ELSE @]
             /\ UNCHANGED <<objects, pieces>>
    <3>1. PICK u \in Uploads : u = rec.upload /\ multi[u].id = rec.id /\ ~Goes(multi[u].id)
      BY <1>5, <2>2 DEF MadeFor, Gone, Goes
    <3>2. \A v \in Uploads \ {u} : multi'[v] = multi[v]
      BY <1>5, <2>2, <3>1
    <3>3. multi'[u].state # "open"
      BY <1>5, <2>2, <3>1 DEF Multis
    <3>4. \A x \in Ids : Multi(x)' => file[x].upload # u
      BY <1>2, <3>1, MadeForOne DEF Multi, Goes
    <3>5. InHand(r)
      BY <2>2, <3>2, <3>3, <3>4 DEF InHand
    <3>6. Relieved(q, r)
      BY <1>6, <1>7, <2>2, <3>1, <3>2, <3>3 DEF Relieved
    <3> QED BY <3>5, <3>6
  <2>3. CASE /\ rec.stream = 0 /\ rec.state = "stored"
             /\ objects' = objects \ {rec.id} /\ UNCHANGED <<pieces, multi>>
    BY <1>6, <1>7, <2>3 DEF InHand, Relieved
  <2>4. CASE rec.stream = 0 /\ rec.upload = NoUpload /\ rec.state # "stored" /\ UNCHANGED bucket
    BY <1>5, <1>6, <1>7, <2>4, NothingInHand DEF Relieved
  <2> QED BY <1>2, <2>1, <2>2, <2>3, <2>4
<1> QED BY <1>1, <1>2, <1>3, <1>8, FilesSame, AnswersStay

\* An upload made is in hand until the ledger keeps it.
LEMMA CreateAnswers ==
  ASSUME FTInv, Answered, NEW w \in Workers, CreateUpload(w)
  PROVE  Answered'
<1>1. PICK q \in Requests : q = worker[w] /\ Ready(q)
  BY Doing
<1>2. /\ q.at = "create" /\ UNCHANGED <<file, objects, pieces>> /\ multi \in [Uploads -> Multis]
  BY <1>1 DEF CreateUpload, At, FTInv, Typed, vars
<1>3. /\ \A x : ~ForObject(q, x)
      /\ \A p : ~ForPiece(q, p)
      /\ \A u \in Uploads : ~ForUpload(q, u)
      /\ \A x, u : ForFile(q, x, u) => u = NoUpload /\ x = q.id
  BY <1>2 DEF ForObject, ForPiece, ForUpload, ForFile
<1>4. ASSUME NEW u \in Uploads, multi[u].state = "none",
             multi' = [multi EXCEPT ![u] = [state |-> "open", id |-> q.id, parts |-> {}]],
             Then(w, [Step(q.id, "started") EXCEPT !.upload = u])
      PROVE  Answered'
  <2>1. \A v \in Uploads \ {u} : multi'[v] = multi[v]
    BY <1>2, <1>4
  <2>2. PICK r : r = [Step(q.id, "started") EXCEPT !.upload = u]
    OBVIOUS
  <2>3. r.at = "started" /\ r.id = q.id /\ r.upload = u
    BY <2>2 DEF Step, Idle
  <2>4. ForUpload(r, u) /\ ForFile(r, q.id, NoUpload)
    BY <2>3 DEF ForUpload, ForFile
  <2>5. InHand(r)
    BY <1>2, <1>4, <2>1, <2>4 DEF InHand
  <2>6. Relieved(q, r)
    BY <1>3, <2>4 DEF Relieved
  <2> QED BY <1>1, <1>2, <1>4, <2>2, <2>5, <2>6, FilesSame, AnswersStay
<1>5. CASE multi' = multi /\ Then(w, Step(q.id, "startFailed"))
  <2>1. PICK r : r = Step(q.id, "startFailed")
    OBVIOUS
  <2>2. ForFile(r, q.id, NoUpload)
    BY <2>1 DEF Step, Idle, ForFile
  <2>3. InHand(r) /\ Relieved(q, r)
    BY <1>2, <1>3, <1>5, <2>2 DEF InHand, Relieved
  <2> QED BY <1>1, <1>2, <1>5, <2>1, <2>3, FilesSame, AnswersStay
<1> QED BY <1>1, <1>4, <1>5 DEF CreateUpload

\* Where no upload was made, the record goes that waited for it.
LEMMA StartFailedAnswers ==
  ASSUME FTInv, Answered, NEW w \in Workers, StartFailed(w)
  PROVE  Answered'
<1>1. PICK q \in Requests : q = worker[w] /\ Ready(q)
  BY Doing
<1>2. q.at = "startFailed" /\ q.id \in Ids /\ Remove(q.id, Nobody) /\ UNCHANGED bucket /\ Inv
  BY <1>1 DEF StartFailed, At, Ready, FTInv, Typed
<1>3. /\ \A x \in Ids \ {q.id} : file'[x] = file[x]
      /\ RemoveAnswer(q.id, Nobody) = "removed" => Out(q.id)
      /\ RemoveAnswer(q.id, Nobody) # "removed" => file' = file
      /\ file'[q.id].state = "none"
  BY <1>2, RemoveMoves
<1>4. PICK S : S = IF Out(q.id) THEN {Removed(q.id)} ELSE {}
  OBVIOUS
<1>5. Then(w, Clearing(S))
  BY <1>1, <1>4 DEF StartFailed
<1>6. ASSUME NEW x \in Ids PROVE Handed(Clearing(S), x)
  <2>1. CASE file'[x] = file[x]
    BY <2>1 DEF Handed
  <2>2. CASE file'[x] # file[x]
    BY <1>3, <1>4, <1>6, <2>2, ClearingHands
  <2> QED BY <2>1, <2>2
<1>7. Relieved(q, Clearing(S))
  <2>1. /\ \A x : ~ForObject(q, x)
        /\ \A p : ~ForPiece(q, p)
        /\ \A u \in Uploads : ~ForUpload(q, u)
        /\ \A x, u : ForFile(q, x, u) => x = q.id
    BY <1>2 DEF ForObject, ForPiece, ForUpload, ForFile
  <2>2. ~Multi(q.id)'
    BY <1>3 DEF Multi, Goes
  <2> QED BY <2>1, <2>2 DEF Relieved
<1> QED BY <1>1, <1>2, <1>5, <1>6, <1>7, NothingInHand, AnswersStay

\* The ledger keeps the upload made, or it is to be aborted.
LEMMA StartedAnswers ==
  ASSUME FTInv, Answered, NEW w \in Workers, UploadStarted(w)
  PROVE  Answered'
<1>1. PICK q \in Requests : q = worker[w] /\ Ready(q)
  BY Doing
<1> DEFINE id == q.id
           u  == q.upload
<1>2. /\ q.at = "started" /\ id \in Ids /\ MadeFor(u, id) /\ u \in Uploads /\ multi[u].id = id
      /\ Goes(id) => file[id].stream = 0 /\ file[id].upload = NoUpload /\ multi[u].state = "open"
      /\ Started(id, u) /\ UNCHANGED bucket /\ multi' = multi /\ Inv /\ file[id] \in Record
  BY <1>1, Asked DEF UploadStarted, At, Ready, FTInv, Typed, bucket, MadeFor
<1>3. /\ Goes(id) => Becomes(id, [file[id] EXCEPT !.upload = u])
      /\ ~Goes(id) => file' = file
  BY <1>2, StartedMoves DEF Goes
<1>4. /\ \A x : ~ForObject(q, x)
      /\ \A p : ~ForPiece(q, p)
      /\ \A v : ForUpload(q, v) => v = u
      /\ \A x, v : ForFile(q, x, v) => x = id /\ v = NoUpload
  BY <1>2 DEF ForObject, ForPiece, ForUpload, ForFile
<1>5. u # NoUpload
  BY <1>2, LedgerAssumption DEF LedgerAssumption
<1>6. CASE Goes(id)
  <2>1. /\ file'[id].state = "uploading" /\ file'[id].stream = 0 /\ file'[id].upload = u
        /\ \A x \in Ids \ {id} : file'[x] = file[x]
    BY <1>2, <1>3, <1>6 DEF Becomes, Record, Goes
  <2>2. CanGoOn(id)' /\ HeldBy(u)'
    BY <1>2, <1>5, <1>6, <2>1 DEF CanGoOn, HeldBy, Goes
  <2>3. \A x \in Ids : Handed(Idle, x)
    BY <1>2, <1>5, <1>6, <2>1, <2>2 DEF Handed, Goes
  <2>4. Relieved(q, Idle)
    BY <1>4, <2>2 DEF Relieved
  <2>5. Then(w, Idle)
    BY <1>1, <1>6 DEF UploadStarted, Goes, Done
  <2> QED BY <1>1, <1>2, <2>3, <2>4, <2>5, NothingInHand, AnswersStay
<1>7. CASE ~Goes(id)
  <2>1. PICK r : r = [q EXCEPT !.at = "abort"]
    OBVIOUS
  <2>2. r.at = "abort" /\ r.upload = u
    BY <1>1, <2>1 DEF Requests
  <2>3. ForUpload(r, u) /\ ~Multi(id)'
    BY <1>3, <1>7, <2>2 DEF ForUpload, Multi, Goes
  <2>4. Relieved(q, r)
    BY <1>4, <2>3 DEF Relieved
  <2>5. Then(w, r)
    BY <1>1, <1>7, <2>1 DEF UploadStarted, Goes
  <2> QED BY <1>1, <1>2, <1>3, <1>7, <2>4, <2>5, FilesSame, NothingInHand, AnswersStay
<1> QED BY <1>6, <1>7

\* An upload that the ledger did not keep is aborted.
LEMMA AbortAnswers ==
  ASSUME FTInv, Answered, NEW w \in Workers, AbortUpload(w)
  PROVE  Answered'
<1>1. PICK q \in Requests : q = worker[w] /\ Ready(q)
  BY Doing
<1>2. PICK u \in Uploads : /\ u = q.upload /\ ~Goes(multi[u].id) /\ q.at = "abort"
                           /\ multi' = [multi EXCEPT ![u].state = "over"]
  BY <1>1 DEF AbortUpload, At, Ready, MadeFor
<1>3. Then(w, Idle) /\ UNCHANGED <<file, objects, pieces>> /\ multi \in [Uploads -> Multis]
  BY DEF AbortUpload, Done, vars, FTInv, Typed
<1>4. /\ \A v \in Uploads \ {u} : multi'[v] = multi[v]
      /\ multi'[u].state = "over"
  BY <1>2, <1>3 DEF Multis
<1>5. \A x \in Ids : Multi(x)' => file[x].upload # u
  BY <1>2, <1>3, MadeForOne DEF Multi, Goes
<1>6. InHand(Idle)
  BY <1>3, <1>4, <1>5 DEF InHand
<1>7. Relieved(q, Idle)
  <2>1. /\ \A x : ~ForObject(q, x)
        /\ \A p : ~ForPiece(q, p)
        /\ \A v : ForUpload(q, v) => v = u
        /\ \A x, v : ~ForFile(q, x, v)
    BY <1>2 DEF ForObject, ForPiece, ForUpload, ForFile
  <2> QED BY <1>4, <2>1 DEF Relieved
<1> QED BY <1>1, <1>3, <1>6, <1>7, FilesSame, AnswersStay

\* The ledger asked for a part: the file is as it was, or in hand to be cleared.
LEMMA PartAnswers ==
  ASSUME FTInv, Answered, NEW w \in Workers, NEW id \in Ids, NEW from, NEW n, NEW length,
         Part(id, from, n, length), AfterPart(w, id, from, n, length), UNCHANGED bucket,
         Unburdened(worker[w])
  PROVE  Answered'
<1> DEFINE answer == PartAnswer(id, from, n, length)
<1>1. Inv /\ file[id] \in Record
  BY Asked DEF FTInv
<1>2. /\ grants' = grants
      /\ answer = "ok" =>
           /\ Goes(id) /\ Open(file[id]) /\ n \in Parts(file[id])
           /\ Becomes(id, [file[id] EXCEPT !.tries = @ + 1, !.touched = now])
      /\ answer # "ok" => Lapses /\ \A x \in Ids \ {id} : file'[x] = file[x]
      /\ answer \in {"over", "failed"} => Goes(id) /\ file'[id] = Blank
      /\ answer \in {"gone", "relay-full"} => file' = file
  BY <1>1, PartMoves
<1>3. CASE answer = "ok"
  <2>1. /\ file'[id].state = file[id].state /\ file'[id].stream = file[id].stream
        /\ file'[id].upload = file[id].upload
        /\ \A x \in Ids \ {id} : file'[x] = file[x]
    BY <1>1, <1>2, <1>3 DEF Becomes, Record
  <2>2. PICK r : Then(w, r)
    BY DEF AfterPart
  <2>3. \A x \in Ids : file'[x] = file[x] \/ Handed(r, x)
    BY <2>1 DEF Handed
  <2> QED BY <2>2, <2>3, HandsOver
<1>4. CASE answer # "ok"
  <2>1. PICK S : S = IF answer \in {"over", "failed"} THEN {Removed(id)} ELSE {}
    OBVIOUS
  <2>2. Then(w, Clearing(S))
    BY <1>4, <2>1 DEF AfterPart
  <2>3. answer \in {"gone", "over", "failed", "relay-full"}
    BY <1>4 DEF PartAnswer
  <2>4. ASSUME NEW x \in Ids, file'[x] # file[x] PROVE Handed(Clearing(S), x)
    <3>1. x = id /\ answer \in {"over", "failed"} /\ file'[x].state = "none"
      BY <1>2, <1>4, <2>3, <2>4 DEF Blank
    <3> QED BY <2>1, <3>1, ClearingHands
  <2> QED BY <2>2, <2>4, HandsOver
<1> QED BY <1>3, <1>4

\* So it is for a first part whose upload has just been started ...
LEMMA PutStartedAnswers ==
  ASSUME FTInv, Answered, NEW w \in Workers, PutStarted(w)
  PROVE  Answered'
<1>1. PICK id \in Ids : id = worker[w].id
  BY Doing DEF PutStarted, At, Ready, FTInv, Typed
<1>2. PICK n, from, length :
        Part(id, from, n, length) /\ AfterPart(w, id, from, n, length) /\ UNCHANGED bucket
  BY <1>1 DEF PutStarted
<1>3. Unburdened(worker[w])
  BY DEF PutStarted, At, Unburdened
<1> QED BY <1>2, <1>3, PartAnswers

\* ... and for any other.
LEMMA PutPartAnswers ==
  ASSUME FTInv, Answered, NEW w \in Workers, NEW id \in Ids, NEW from, NEW n, NEW length,
         PutPart(w, id, from, n, length)
  PROVE  Answered'
<1>1. Unburdened(worker[w])
  BY DEF PutPart, Free, Idle, Unburdened
<1> QED BY <1>1, PartAnswers DEF PutPart

\* A part put in the bucket is in hand until the ledger counts it.
LEMMA PutPieceAnswers ==
  ASSUME FTInv, Answered, NEW w \in Workers, PutPiece(w)
  PROVE  Answered'
<1>1. PICK q \in Requests : q = worker[w] /\ Ready(q)
  BY Doing
<1>2. q.at = "put" /\ UNCHANGED <<file, objects, multi>>
  BY <1>1 DEF PutPiece, At, vars
<1>3. CASE /\ pieces' = pieces \cup {<<q.id, q.n>>}
           /\ Then(w, [q EXCEPT !.at = "putDone"])
  <2>1. PICK r : r = [q EXCEPT !.at = "putDone"]
    OBVIOUS
  <2>2. ForPiece(r, <<q.id, q.n>>)
    BY <1>1, <2>1 DEF ForPiece, Requests
  <2>3. InHand(r)
    BY <1>2, <1>3, <2>2 DEF InHand
  <2>4. Relieved(q, r)
    BY <1>2, EasyGoing DEF Unburdened
  <2> QED BY <1>1, <1>2, <1>3, <2>1, <2>3, <2>4, FilesSame, AnswersStay
<1>4. CASE pieces' = pieces /\ Done(w)
  BY <1>1, <1>2, <1>4, StillAnswered DEF Unburdened, Done, bucket
<1> QED BY <1>1, <1>3, <1>4 DEF PutPiece

\* partDone changes no more than the parts that are in.
LEMMA PartDoneHands ==
  ASSUME FTInv, NEW id \in Ids, NEW n, PartDone(id, n), NEW r
  PROVE  /\ \A x \in Ids : Handed(r, x)
         /\ Goes(id) => Goes(id)'
<1>1. Inv /\ file[id] \in Record
  BY Asked DEF FTInv
<1>2. /\ Goes(id) => Becomes(id, [file[id] EXCEPT !.parts = @ \cup {n}, !.touched = now])
      /\ ~Goes(id) => file' = file
  BY <1>1, PartDoneMoves
<1>3. CASE Goes(id)
  <2>1. /\ file'[id] = [file[id] EXCEPT !.parts = @ \cup {n}, !.touched = now]
        /\ \A x \in Ids \ {id} : file'[x] = file[x]
    BY <1>2, <1>3 DEF Becomes
  <2>2. /\ file'[id].state = file[id].state /\ file'[id].stream = file[id].stream
        /\ file'[id].upload = file[id].upload
    BY <1>1, <2>1 DEF Record
  <2> QED BY <1>3, <2>1, <2>2 DEF Handed, Goes
<1>4. CASE ~Goes(id)
  BY <1>2, <1>4, FilesSame
<1> QED BY <1>3, <1>4

\* A part is counted by a record that has room for it, or is to be taken out again.
LEMMA PieceDoneAnswers ==
  ASSUME FTInv, Answered, NEW w \in Workers, PieceDone(w)
  PROVE  Answered'
<1>1. PICK q \in Requests : q = worker[w] /\ Ready(q)
  BY Doing
<1>2. q.at = "putDone" /\ q.id \in Ids /\ PartDone(q.id, q.n) /\ UNCHANGED bucket
  BY <1>1 DEF PieceDone, At, Ready, FTInv, Typed
<1>3. /\ \A x : ~ForObject(q, x)
      /\ \A p : ForPiece(q, p) => p = <<q.id, q.n>>
      /\ \A u \in Uploads : ~ForUpload(q, u)
      /\ \A x, u : ~ForFile(q, x, u)
  BY <1>2 DEF ForObject, ForPiece, ForUpload, ForFile
<1>4. CASE Goes(q.id)
  <2>1. Goes(q.id)' /\ \A x \in Ids : Handed(Idle, x)
    BY <1>2, <1>4, PartDoneHands
  <2>2. \A p : p = <<q.id, q.n>> => Out(p[1])'
    BY <2>1 DEF Out, Goes
  <2>3. Relieved(q, Idle)
    BY <1>3, <2>2 DEF Relieved
  <2>4. Then(w, Idle)
    BY <1>1, <1>4 DEF PieceDone, Goes, Done
  <2> QED BY <1>1, <1>2, <2>1, <2>3, <2>4, NothingInHand, AnswersStay
<1>5. CASE ~Goes(q.id)
  <2>1. PICK r : r = [q EXCEPT !.at = "unput"]
    OBVIOUS
  <2>2. ForPiece(r, <<q.id, q.n>>)
    BY <1>1, <2>1 DEF ForPiece, Requests
  <2>3. Relieved(q, r)
    BY <1>3, <2>2 DEF Relieved
  <2>4. Then(w, r)
    BY <1>1, <1>5, <2>1 DEF PieceDone, Goes
  <2> QED BY <1>1, <1>2, <2>3, <2>4, PartDoneHands, NothingInHand, AnswersStay
<1> QED BY <1>4, <1>5

\* A part that was not counted is taken out of the bucket again.
LEMMA UnputAnswers ==
  ASSUME FTInv, Answered, NEW w \in Workers, Unput(w)
  PROVE  Answered'
<1>1. PICK q \in Requests : q = worker[w] /\ Ready(q)
  BY Doing
<1>2. /\ q.at = "unput" /\ UNCHANGED <<file, objects, multi>> /\ Then(w, Idle)
      /\ pieces' = pieces \ {<<q.id, q.n>>}
  BY <1>1 DEF Unput, At, vars, Done
<1>3. /\ \A x : ~ForObject(q, x)
      /\ \A p : ForPiece(q, p) => p = <<q.id, q.n>>
      /\ \A u \in Uploads : ~ForUpload(q, u)
      /\ \A x, u : ~ForFile(q, x, u)
  BY <1>2 DEF ForObject, ForPiece, ForUpload, ForFile
<1>4. Relieved(q, Idle) /\ InHand(Idle)
  BY <1>2, <1>3 DEF Relieved, InHand
<1> QED BY <1>1, <1>2, <1>4, FilesSame, AnswersStay

\* A part of a multipart upload is no object of its own.
LEMMA UploadPartAnswers ==
  ASSUME FTInv, Answered, NEW w \in Workers, UploadPart(w)
  PROVE  Answered'
<1>1. PICK u : u = worker[w].upload
  OBVIOUS
<1>2. /\ Unburdened(worker[w]) /\ UNCHANGED <<file, objects, pieces>>
      /\ multi \in [Uploads -> Multis]
  BY DEF UploadPart, At, Unburdened, vars, FTInv, Typed
<1>3. PICK r : Then(w, r)
  BY DEF UploadPart, Done
<1>4. \A v \in Uploads : multi'[v].state = multi[v].state /\ multi'[v].id = multi[v].id
  <2>1. CASE multi' = multi
    BY <2>1
  <2>2. CASE u \in Uploads /\ multi' = [multi EXCEPT ![u].parts = @ \cup {worker[w].n}]
    BY <1>2, <2>2 DEF Multis
  <2>3. u \in Uploads
    BY <1>1, Doing DEF UploadPart, At, Ready, UploadOf, MadeFor
  <2> QED BY <1>1, <2>1, <2>2, <2>3 DEF UploadPart
<1>5. InHand(r)
  BY <1>2, <1>4 DEF InHand
<1> QED BY <1>2, <1>3, <1>5, EasyGoing, FilesSame, AnswersStay

\* That one is counted changes no upload.
LEMMA UploadPartDoneAnswers ==
  ASSUME FTInv, Answered, NEW w \in Workers, UploadPartDone(w)
  PROVE  Answered'
<1>1. PICK q \in Requests : q = worker[w] /\ Ready(q)
  BY Doing
<1>2. /\ q.at = "uploadPartDone" /\ q.id \in Ids /\ PartDone(q.id, q.n) /\ UNCHANGED bucket
      /\ Then(w, Idle)
  BY <1>1 DEF UploadPartDone, At, Ready, FTInv, Typed, Done
<1>3. \A x \in Ids : Handed(Idle, x)
  BY <1>2, PartDoneHands
<1> QED BY <1>1, <1>2, <1>3, HandsOver DEF Unburdened

-----------------------------------------------------------------------------
(* ... and the finishes and reads *)

\* To ask whether a file is complete changes nothing.
LEMMA FinishAnswers ==
  ASSUME FTInv, Answered, NEW w \in Workers, NEW id \in Ids, NEW from, Finish(w, id, from)
  PROVE  Answered'
<1>1. Unburdened(worker[w]) /\ UNCHANGED <<file, bucket>>
  BY DEF Finish, Free, Idle, Unburdened, vars
<1>2. PICK r : Then(w, r)
  BY DEF Finish, Done
<1> QED BY <1>1, <1>2, StillAnswered

\* A file put together is in hand until the ledger knows it is stored.
LEMMA CompleteAnswers ==
  ASSUME FTInv, Answered, NEW w \in Workers, CompleteUpload(w)
  PROVE  Answered'
<1>1. PICK q \in Requests : q = worker[w] /\ Ready(q)
  BY Doing
<1>2. PICK u \in Uploads : u = q.upload /\ u # NoUpload
  BY <1>1, LedgerAssumption DEF CompleteUpload, At, Ready, UploadOf, MadeFor, LedgerAssumption
<1>3. q.at = "complete" /\ UNCHANGED <<file, pieces>> /\ multi \in [Uploads -> Multis]
  BY <1>1 DEF CompleteUpload, At, FTInv, Typed, vars
<1>4. CASE /\ multi' = [multi EXCEPT ![u].state = "over"]
           /\ objects' = objects \cup {q.id}
           /\ Then(w, [q EXCEPT !.at = "stored"])
  <2>1. /\ \A v \in Uploads \ {u} : multi'[v] = multi[v]
        /\ multi'[u].state = "over"
    BY <1>3, <1>4 DEF Multis
  <2>2. PICK r : r = [q EXCEPT !.at = "stored"]
    OBVIOUS
  <2>3. r.at = "stored" /\ r.id = q.id /\ r.upload = u
    BY <1>1, <1>2, <2>2 DEF Requests
  <2>4. ForObject(r, q.id) /\ \A x : ForFile(r, x, u)
    BY <1>2, <2>3 DEF ForObject, ForFile
  <2>5. InHand(r)
    BY <1>3, <1>4, <2>1, <2>4 DEF InHand
  <2>6. Relieved(q, r)
    BY <1>3, EasyGoing DEF Unburdened
  <2> QED BY <1>1, <1>3, <1>4, <2>2, <2>5, <2>6, FilesSame, AnswersStay
<1>5. CASE UNCHANGED <<multi, objects>> /\ Done(w)
  BY <1>1, <1>3, <1>5, StillAnswered DEF Unburdened, Done, bucket
<1> QED BY <1>1, <1>2, <1>4, <1>5 DEF CompleteUpload

\* The ledger stores it, or it is to be taken out again.
LEMMA FileStoredAnswers ==
  ASSUME FTInv, Answered, NEW w \in Workers, FileStored(w)
  PROVE  Answered'
<1>1. PICK q \in Requests : q = worker[w] /\ Ready(q)
  BY Doing
<1> DEFINE id == q.id
           u  == q.upload
<1>2. /\ q.at = "stored" /\ id \in Ids /\ Inv
      /\ u = NoUpload => (Out(id) => file[id].stream > 0)
      /\ u # NoUpload => UploadOf(u, id) /\ multi[u].state = "over" /\ u \in Uploads
      /\ Stored(id) /\ UNCHANGED bucket /\ multi' = multi
      /\ file[id] \in Record /\ FileRight(id)
  BY <1>1, Asked DEF FileStored, At, Ready, FTInv, Typed, UploadOf, MadeFor, bucket
<1>3. /\ StoredAnswer(id) \in {"none", "read", "stored"}
      /\ StoredAnswer(id) = "none" => ~Goes(id) /\ file' = file
      /\ StoredAnswer(id) = "read" => Goes(id) /\ file[id].stream > 0 /\ Becomes(id, Blank)
      /\ StoredAnswer(id) = "stored" =>
           /\ Goes(id)
           /\ Becomes(id, [file[id] EXCEPT !.state = "stored", !.expires = now + StoredTtl,
                             !.upload = NoUpload, !.tries = 0,
                             !.parts = IF file[id].stream > 0 THEN @ ELSE {}])
  BY <1>2, StoredMoves
<1>4. /\ Goes(id) /\ u # NoUpload => file[id].upload = u /\ file[id].stream = 0
      /\ Goes(id) /\ u = NoUpload => file[id].upload = NoUpload /\ file[id].stream > 0
  BY <1>2 DEF UploadOf, FileRight, Goes, Out
<1>5. /\ \A p : ~ForPiece(q, p)
      /\ \A v \in Uploads : ~ForUpload(q, v)
      /\ \A x : ForObject(q, x) => x = id /\ u # NoUpload
      /\ \A x, v : ForFile(q, x, v) => v = u /\ u # NoUpload
  BY <1>2 DEF ForPiece, ForUpload, ForObject, ForFile
\* an upload whose parts were put together is that of no file but its own
<1>6. \A x \in Ids \ {id} : u # NoUpload => file[x].upload # u
  <2>1. \A x \in Ids : u # NoUpload /\ file[x].upload = u => x = multi[u].id
    BY <1>2, MadeForOne
  <2> QED BY <1>2, <2>1 DEF UploadOf, MadeFor
<1>7. CASE StoredAnswer(id) = "none"
  <2>1. CASE u = NoUpload
    <3>1. Then(w, Idle)
      BY <1>1, <1>7, <2>1 DEF FileStored, Done
    <3> QED BY <1>1, <1>2, <1>3, <1>7, <2>1, <3>1, StillAnswered DEF Unburdened
  <2>2. CASE u # NoUpload
    <3>1. PICK r : r = [q EXCEPT !.at = "unmake"]
      OBVIOUS
    <3>2. ForObject(r, id)
      BY <1>1, <3>1 DEF ForObject, Requests
    <3>3. \A x \in Ids : Multi(x)' => ~ForFile(q, x, file'[x].upload)
      <4>1. \A x \in Ids : Multi(x)' => file'[x] = file[x] /\ x # id
        BY <1>3, <1>7 DEF Multi, Goes
      <4> QED BY <1>5, <1>6, <4>1
    <3>4. Relieved(q, r)
      BY <1>5, <3>2, <3>3 DEF Relieved
    <3>5. Then(w, r)
      BY <1>1, <1>7, <2>2, <3>1 DEF FileStored
    <3> QED BY <1>1, <1>2, <1>3, <1>7, <3>4, <3>5, FilesSame, NothingInHand, AnswersStay
  <2> QED BY <2>1, <2>2
<1>8. CASE StoredAnswer(id) = "read"
  <2>1. u = NoUpload
    BY <1>3, <1>4, <1>8
  <2>2. PICK S : S = {Removed(id)}
    OBVIOUS
  <2>3. Then(w, Clearing(S))
    BY <1>1, <1>8, <2>2 DEF FileStored
  <2>4. \A x \in Ids : file'[x] = file[x] \/ Handed(Clearing(S), x)
    BY <1>3, <1>8, <2>2, ClearingHands DEF Becomes, Blank
  <2> QED BY <1>1, <1>2, <2>1, <2>3, <2>4, HandsOver DEF Unburdened
<1>9. CASE StoredAnswer(id) = "stored"
  <2>1. /\ file'[id].state = "stored" /\ file'[id].stream = file[id].stream
        /\ \A x \in Ids \ {id} : file'[x] = file[x]
    <3>1. /\ file'[id] = [file[id] EXCEPT !.state = "stored", !.expires = now + StoredTtl,
                             !.upload = NoUpload, !.tries = 0,
                             !.parts = IF file[id].stream > 0 THEN @ ELSE {}]
          /\ \A x \in Ids \ {id} : file'[x] = file[x]
      BY <1>3, <1>9 DEF Becomes
    <3> QED BY <1>2, <3>1 DEF Record
  <2>2. Goes(id) /\ (file[id].upload # NoUpload => multi[file[id].upload].state # "open")
    BY <1>2, <1>3, <1>4, <1>9
  <2>3. \A x \in Ids : Handed(Idle, x)
    BY <2>1, <2>2 DEF Handed
  <2>4. Relieved(q, Idle)
    <3>1. u # NoUpload => Whole(id)'
      BY <1>4, <2>1, <2>2 DEF Whole
    <3>2. \A x \in Ids : Multi(x)' => file'[x] = file[x] /\ x # id
      BY <2>1 DEF Multi, Goes
    <3> QED BY <1>5, <1>6, <3>1, <3>2 DEF Relieved
  <2>5. Then(w, Idle)
    BY <1>1, <1>9 DEF FileStored, Done
  <2> QED BY <1>1, <1>2, <2>3, <2>4, <2>5, NothingInHand, AnswersStay
<1> QED BY <1>3, <1>7, <1>8, <1>9

\* What was put together for a file that is gone is taken out.
LEMMA UnmakeAnswers ==
  ASSUME FTInv, Answered, NEW w \in Workers, Unmake(w)
  PROVE  Answered'
<1>1. PICK q \in Requests : q = worker[w] /\ Ready(q)
  BY Doing
<1>2. /\ q.at = "unmake" /\ UNCHANGED <<file, pieces, multi>> /\ Then(w, Idle)
      /\ objects' = objects \ {q.id}
  BY <1>1 DEF Unmake, At, vars, Done
<1>3. /\ \A x : ForObject(q, x) => x = q.id
      /\ \A p : ~ForPiece(q, p)
      /\ \A u \in Uploads : ~ForUpload(q, u)
      /\ \A x, u : ~ForFile(q, x, u)
  BY <1>2 DEF ForObject, ForPiece, ForUpload, ForFile
<1>4. Relieved(q, Idle) /\ InHand(Idle)
  BY <1>2, <1>3 DEF Relieved, InHand
<1> QED BY <1>1, <1>2, <1>4, FilesSame, AnswersStay

\* A read that may go ahead, or an expired file that goes.
LEMMA ReadAnswers ==
  ASSUME FTInv, Answered, NEW w \in Workers, NEW id \in Ids, NEW answer, NEW cost,
         Read(id, answer, cost), Unburdened(worker[w]), UNCHANGED bucket, NEW r, Then(w, r),
         answer = "expired" => r = Clearing({Removed(id)})
  PROVE  Answered'
<1>1. /\ answer = "expired" => Becomes(id, Blank)
      /\ answer # "expired" => file' = file
  BY ReadMoves DEF FTInv
<1>2. \A x \in Ids : file'[x] = file[x] \/ Handed(r, x)
  BY <1>1, ClearingHands DEF Becomes, Blank
<1> QED BY <1>2, HandsOver

\* To ask for a part changes nothing, but may find the file expired.
LEMMA ReadPartAnswers ==
  ASSUME FTInv, Answered, NEW w \in Workers, NEW id \in Ids, NEW name, NEW n,
         ReadPart(w, id, name, n)
  PROVE  Answered'
<1> DEFINE answer == PartReadableAnswer(id, name, n)
<1>1. Read(id, answer, 1) /\ UNCHANGED bucket /\ Unburdened(worker[w])
  BY DEF ReadPart, PartReadable, Free, Idle, Unburdened
<1>2. PICK r : Then(w, r) /\ (answer = "expired" => r = Clearing({Removed(id)}))
  BY DEF ReadPart
<1> QED BY <1>1, <1>2, ReadAnswers

\* So it is with the whole file.
LEMMA DownloadAnswers ==
  ASSUME FTInv, Answered, NEW w \in Workers, NEW id \in Ids, NEW name, NEW first,
         Download(w, id, name, first)
  PROVE  Answered'
<1> DEFINE answer == ReadableAnswer(id, name)
           cost   == IF file[id].stream > 0 THEN PartCount(file[id].bytes, file[id].stream) ELSE 1
<1>1. Read(id, answer, cost) /\ UNCHANGED bucket /\ Unburdened(worker[w])
  BY DEF Download, Readable, Free, Idle, Unburdened
<1>2. PICK r : Then(w, r) /\ (answer = "expired" => r = Clearing({Removed(id)}))
  BY DEF Download
<1> HIDE DEF cost
<1> QED BY <1>1, <1>2, ReadAnswers

\* To send a part on changes nothing ...
LEMMA PassPartAnswers ==
  ASSUME FTInv, Answered, NEW w \in Workers, PassPart(w)
  PROVE  Answered'
<1>1. Unburdened(worker[w]) /\ UNCHANGED <<file, bucket>>
  BY DEF PassPart, At, Unburdened, vars
<1>2. PICK r : Then(w, r)
  BY DEF PassPart, Done
<1> QED BY <1>1, <1>2, StillAnswered

\* ... nor to send the whole file on.
LEMMA PassFileAnswers ==
  ASSUME FTInv, Answered, NEW w \in Workers, PassFile(w)
  PROVE  Answered'
<1>1. Unburdened(worker[w]) /\ UNCHANGED <<file, bucket>>
  BY DEF PassFile, At, Unburdened, vars
<1>2. PICK r : Then(w, r)
  BY DEF PassFile, Done
<1> QED BY <1>1, <1>2, StillAnswered

\* With its last part read, the file is in hand to be cleared.
LEMMA PartWasReadAnswers ==
  ASSUME FTInv, Answered, NEW w \in Workers, PartWasRead(w)
  PROVE  Answered'
<1>1. PICK q \in Requests : q = worker[w] /\ Ready(q)
  BY Doing
<1> DEFINE id == q.id
           n  == q.n
<1>2. q.at = "partRead" /\ id \in Ids /\ PartRead(id, n) /\ UNCHANGED bucket /\ Inv /\ file[id] \in Record
  BY <1>1, Asked DEF PartWasRead, At, Ready, FTInv, Typed
<1>3. /\ LastRead(id, n) => Becomes(id, Blank)
      /\ ~LastRead(id, n) /\ file[id].stream > 0 =>
           Becomes(id, [file[id] EXCEPT !.read = @ \cup {n}])
      /\ ~LastRead(id, n) /\ ~(file[id].stream > 0) => file' = file
  BY <1>2, PartReadMoves
<1>4. PICK S : S = IF LastRead(id, n) THEN {Removed(id)} ELSE {}
  OBVIOUS
<1>5. Then(w, Clearing(S))
  BY <1>1, <1>4 DEF PartWasRead
<1>6. ASSUME NEW x \in Ids PROVE file'[x] = file[x] \/ Handed(Clearing(S), x)
  <2>1. CASE LastRead(id, n)
    BY <1>3, <1>4, <2>1, ClearingHands DEF Becomes, Blank
  <2>2. CASE ~LastRead(id, n) /\ file[id].stream > 0
    <3>1. /\ file'[id] = [file[id] EXCEPT !.read = @ \cup {n}]
          /\ \A y \in Ids \ {id} : file'[y] = file[y]
      BY <1>3, <2>2 DEF Becomes
    <3>2. /\ file'[id].state = file[id].state /\ file'[id].stream = file[id].stream
          /\ file'[id].upload = file[id].upload
      BY <1>2, <3>1 DEF Record
    <3> QED BY <3>1, <3>2 DEF Handed
  <2>3. CASE ~LastRead(id, n) /\ ~(file[id].stream > 0)
    BY <1>3, <2>3
  <2> QED BY <2>1, <2>2, <2>3
<1> QED BY <1>1, <1>2, <1>5, <1>6, HandsOver DEF Unburdened

\* So is a file that was read whole.
LEMMA FilePassedAnswers ==
  ASSUME FTInv, Answered, NEW w \in Workers, FilePassed(w)
  PROVE  Answered'
<1>1. PICK q \in Requests : q = worker[w] /\ Ready(q)
  BY Doing
<1>2. /\ q.at = "passed" /\ q.id \in Ids /\ Remove(q.id, Nobody) /\ UNCHANGED bucket /\ Inv
      /\ q.gone # {} /\ \A rec \in q.gone : Out(q.id) => rec = Removed(q.id)
  BY <1>1 DEF FilePassed, At, Ready, FTInv, Typed
<1>3. /\ \A x \in Ids \ {q.id} : file'[x] = file[x]
      /\ RemoveAnswer(q.id, Nobody) = "removed" => Out(q.id)
      /\ RemoveAnswer(q.id, Nobody) # "removed" => file' = file
      /\ file'[q.id].state = "none"
  BY <1>2, RemoveMoves
<1>4. PICK S : S = IF Out(q.id) /\ file[q.id].stream > 0 THEN {Removed(q.id)} ELSE q.gone
  OBVIOUS
<1>5. Then(w, Clearing(S))
  BY <1>1, <1>4 DEF FilePassed
<1>6. Out(q.id) => Removed(q.id) \in S
  BY <1>2, <1>4
<1>7. \A x \in Ids : file'[x] = file[x] \/ Handed(Clearing(S), x)
  BY <1>3, <1>6, ClearingHands
<1> QED BY <1>1, <1>2, <1>5, <1>7, HandsOver DEF Unburdened

\* Whatever a request first does, everything left is answered for ...
LEMMA ArriveAnswers ==
  ASSUME FTInv, Answered, NEW w \in Workers, Arrive(w)
  PROVE  Answered'
<1>1. CASE SweepFiles(w)
  BY <1>1, SweepFilesAnswers
<1>2. ASSUME NEW id \in Ids, NEW name \in Names,
             \/ \E to \in Names \ {name}, bytes \in Lengths : SendOffer(w, id, name, to, bytes)
             \/ Accept(w, id, name)
             \/ Cancel(w, id, name)
             \/ \E grant \in 0 .. MaxGrants, a \in Addresses : StartUpload(w, id, name, grant, a)
             \/ \E grant \in 1 .. MaxGrants, a \in Addresses : PutFirst(w, id, name, grant, 1, a)
             \/ \E n \in Parts(file[id]) :
                  \/ PutPart(w, id, name, n, PartLength(file[id].bytes, n, Size(file[id])))
                  \/ ReadPart(w, id, name, n)
                  \/ Download(w, id, name, n)
             \/ PutPart(w, id, name, 1, 0)
             \/ Finish(w, id, name)
      PROVE  Answered'
  <2>1. ASSUME NEW to \in Names \ {name}, NEW bytes \in Lengths, SendOffer(w, id, name, to, bytes)
        PROVE  Answered'
    BY <2>1, SendOfferAnswers
  <2>2. ASSUME NEW grant \in 0 .. MaxGrants, NEW a \in Addresses, StartUpload(w, id, name, grant, a)
        PROVE  Answered'
    BY <2>2, StartAnswers
  <2>3. ASSUME NEW grant \in 1 .. MaxGrants, NEW a \in Addresses, PutFirst(w, id, name, grant, 1, a)
        PROVE  Answered'
    BY <2>3, PutFirstAnswers
  <2>4. ASSUME NEW n \in Parts(file[id]),
               PutPart(w, id, name, n, PartLength(file[id].bytes, n, Size(file[id])))
        PROVE  Answered'
    BY <2>4, PutPartAnswers
  <2>5. ASSUME PutPart(w, id, name, 1, 0) PROVE Answered'
    BY <2>5, PutPartAnswers
  <2> QED BY <1>2, <2>1, <2>2, <2>3, <2>4, <2>5, AcceptAnswers, CancelAnswers, ReadPartAnswers,
             DownloadAnswers, FinishAnswers
<1> QED BY <1>1, <1>2 DEF Arrive

\* ... and whatever one goes on to do.
LEMMA ContinueAnswers ==
  ASSUME FTInv, Answered, NEW w \in Workers, Continue(w)
  PROVE  Answered'
BY DeliverAnswers, WithdrawAnswers, NotifyAnswers, RevertAnswers, ClearAnswers, CreateAnswers,
   StartFailedAnswers, StartedAnswers, AbortAnswers, PutStartedAnswers, PutPieceAnswers,
   PieceDoneAnswers, UnputAnswers, UploadPartAnswers, UploadPartDoneAnswers, CompleteAnswers,
   FileStoredAnswers, UnmakeAnswers, PassPartAnswers, PartWasReadAnswers, PassFileAnswers,
   FilePassedAnswers
   DEF Continue

\* As long as no request dies, every step answers for what it leaves.
LEMMA NextAnswers ==
  ASSUME FTInv, deaths = 0 => Answered, [FTNext]_ftVars
  PROVE  (deaths = 0 => Answered)'
<1>1. CASE Time \/ UNCHANGED ftVars
  BY <1>1, TimeAnswers DEF Time, Tick, ftVars, vars
<1>2. ASSUME NEW w \in Workers, Die(w)
      PROVE  (deaths = 0 => Answered)'
  BY <1>2 DEF Die, FTInv, Typed
<1>3. ASSUME NEW w \in Workers, Arrive(w) \/ Continue(w)
      PROVE  (deaths = 0 => Answered)'
  <2>1. CASE Arrive(w)
    <3>1. CASE SweepFiles(w)
      BY <3>1, <2>1, ArriveAnswers DEF SweepFiles
    <3>2. ASSUME NEW id \in Ids, NEW name \in Names,
                 \/ \E to \in Names \ {name}, bytes \in Lengths : SendOffer(w, id, name, to, bytes)
                 \/ Accept(w, id, name)
                 \/ Cancel(w, id, name)
                 \/ \E grant \in 0 .. MaxGrants, a \in Addresses : StartUpload(w, id, name, grant, a)
                 \/ \E grant \in 1 .. MaxGrants, a \in Addresses : PutFirst(w, id, name, grant, 1, a)
                 \/ Finish(w, id, name)
          PROVE  deaths' = deaths
      BY <3>2 DEF SendOffer, Accept, Cancel, StartUpload, PutFirst, Finish
    <3>3. ASSUME NEW id \in Ids, NEW name \in Names, NEW n, NEW length,
                 PutPart(w, id, name, n, length) \/ ReadPart(w, id, name, n) \/ Download(w, id, name, n)
          PROVE  deaths' = deaths
      BY <3>3 DEF PutPart, ReadPart, Download
    <3> QED BY <2>1, <3>1, <3>2, <3>3, ArriveAnswers DEF Arrive
  <2>2. CASE Continue(w)
    <3>1. \/ Deliver(w) \/ Withdraw(w) \/ NotifyAccepted(w) \/ RevertGrant(w) \/ Clear(w)
          \/ CreateUpload(w) \/ StartFailed(w) \/ UploadStarted(w) \/ AbortUpload(w)
          => deaths' = deaths
      BY DEF Deliver, Withdraw, NotifyAccepted, RevertGrant, Clear, CreateUpload, StartFailed,
        UploadStarted, AbortUpload
    <3>2. \/ PutStarted(w) \/ PutPiece(w) \/ PieceDone(w) \/ Unput(w) \/ UploadPart(w)
          \/ UploadPartDone(w) \/ CompleteUpload(w)
          => deaths' = deaths
      BY DEF PutStarted, PutPiece, PieceDone, Unput, UploadPart, UploadPartDone, CompleteUpload
    <3>3. \/ FileStored(w) \/ Unmake(w) \/ PassPart(w) \/ PartWasRead(w) \/ PassFile(w)
          \/ FilePassed(w)
          => deaths' = deaths
      BY DEF FileStored, Unmake, PassPart, PartWasRead, PassFile, FilePassed
    <3> QED BY <2>2, <3>1, <3>2, <3>3, ContinueAnswers DEF Continue
  <2> QED BY <1>3, <2>1, <2>2
<1> QED BY <1>1, <1>2, <1>3 DEF FTNext, FTStep

\* Nothing is in the bucket that no record holds room for, but what a request on its way is
\* about to take out: from the first step on, if none dies.
THEOREM AnsweredThroughout == FTSpec => [](deaths = 0 => Answered)
<1>1. FTInit => (deaths = 0 => Answered)
  BY InitRight DEF FTInit, Init, Answered, Multi, Goes, Blank
<1>2. FTInv /\ (deaths = 0 => Answered) /\ [FTNext]_ftVars => (deaths = 0 => Answered)'
  BY NextAnswers
<1> QED BY <1>1, <1>2, TransferInvariant, PTL DEF FTSpec

\* A request that is not on its way answers for nothing.
LEMMA QuietAnswersNothing ==
  ASSUME FTInv, Quiet, Answered
  PROVE  /\ \A x \in objects : Whole(x)
         /\ \A p \in pieces : Out(p[1])
         /\ \A u \in Uploads : multi[u].state = "open" => HeldBy(u)
         /\ \A x \in Ids : Multi(x) => CanGoOn(x)
<1>1. \A w \in Workers : Unburdened(worker[w])
  BY DEF Quiet, Free, Idle, Unburdened
<1> QED BY <1>1, NothingToDo DEF Answered

\* Once every request has run to its end, and none has died, the bucket holds nothing that
\* the ledger holds no room for, whatever raced whatever.
THEOREM NothingIsLeftBehind == FTSpec => []NothingLeftBehind
<1>1. FTInv /\ (deaths = 0 => Answered) => NothingLeftBehind
  <2>1. SUFFICES ASSUME FTInv, Quiet, Answered
                 PROVE  /\ \A id \in objects : file[id].state = "stored" /\ file[id].stream = 0
                        /\ \A p \in pieces : /\ file[p[1]].state \in {"uploading", "stored"}
                                             /\ file[p[1]].stream > 0 /\ p[2] \in Parts(file[p[1]])
                        /\ \A u \in Uploads : multi[u].state = "open" =>
                             file[multi[u].id].state = "uploading" /\ file[multi[u].id].upload = u
    BY DEF NothingLeftBehind
  <2>2. \A p \in pieces : /\ file[p[1]].state \in {"uploading", "stored"}
                          /\ file[p[1]].stream > 0 /\ p[2] \in Parts(file[p[1]])
    <3>1. TAKE p \in pieces
    <3>2. p[1] \in Ids /\ Began(p[1]) /\ Piece(p[1], p[2]) /\ Out(p[1])
      BY <2>1, QuietAnswersNothing DEF FTInv, Typed, BucketRight
    <3> QED BY <2>1, <3>2, Asked DEF Began, Piece, Out, Record
  <2> QED BY <2>1, <2>2, QuietAnswersNothing DEF Whole, HeldBy, Goes
<1> QED BY <1>1, TransferInvariant, AnsweredThroughout, PTL

\* ... and a multipart upload that the ledger says goes on can go on.
THEOREM NeverIsStuck == FTSpec => []NeverStuck
<1>1. FTInv /\ (deaths = 0 => Answered) => NeverStuck
  BY QuietAnswersNothing DEF NeverStuck, Multi, Goes, CanGoOn
<1> QED BY <1>1, TransferInvariant, AnsweredThroughout, PTL

-----------------------------------------------------------------------------
(* What has been read *)

\* A part that is counted as read of a file has been passed on.
ReadRight(id) ==
  /\ file[id].stream = 0 \/ ~Began(id) => file[id].read = {}
  /\ Out(id) => file[id].read \subseteq Parts(file[id]) \cap got[id]

\* What a request at the end of a read has passed on, of a file that is still there.
BeenRead(r) ==
  LET id == r.id IN
  /\ r.at = "partRead" /\ Out(id) => r.n \in got[id]
  /\ r.at = "pass" /\ Out(id) /\ file[id].stream > 0 => 1 .. r.n - 1 \subseteq got[id]
  /\ r.at = "passed" /\ Out(id) => Parts(file[id]) \subseteq got[id]

ReadsRight == (\A id \in Ids : ReadRight(id)) /\ \A w \in Workers : BeenRead(worker[w])

\* What a step of the ledger, partRead aside, leaves of the reads of a file, and of its parts.
ReadsKept(x) ==
  /\ file'[x].read \in {file[x].read, {}}
  /\ x \in sent /\ ~Out(x) => ~Out(x)'
  /\ Began(x) /\ Out(x)' => /\ Out(x) /\ file'[x].state \notin {"offered", "granted"}
                            /\ file'[x].stream = file[x].stream /\ file'[x].bytes = file[x].bytes

AllReadsKept == \A x \in Ids : ReadsKept(x)

\* What is passed on of a file that is there stays so, or is all of it.
GotKept(x) ==
  Out(x) => got[x] \subseteq got'[x] \/ (file[x].stream = 0 /\ Parts(file[x]) \subseteq got'[x])

Reading == {"partRead", "pass", "passed"}

\* A request that goes on to no read.
ReadsNothing(w) ==
  worker'[w].at \notin Reading /\ \A v \in Workers \ {w} : worker'[v] = worker[v]

\* A record keeps its reads whose parts stay the same.
LEMMA ChangedReads ==
  ASSUME NEW x, file[x].state # "none", file'[x].read \in {file[x].read, {}},
         Began(x) => /\ file'[x].state \notin {"offered", "granted"}
                     /\ file'[x].stream = file[x].stream /\ file'[x].bytes = file[x].bytes
  PROVE  ReadsKept(x)
BY DEF ReadsKept, Out

\* Nothing is read of a file that lapses.
LEMMA LapseReads ==
  ASSUME FTInv, Lapses
  PROVE  AllReadsKept
<1> SUFFICES ASSUME NEW x \in Ids PROVE ReadsKept(x)
  BY DEF AllReadsKept
<1>1. file[x] \in Record
  BY Asked
<1>2. CASE file'[x] = file[x] \/ file'[x] = Blank
  BY <1>2 DEF ReadsKept, Out, Blank, Began
<1>3. CASE file[x].state = "granted" /\ file'[x] = Offered(file[x])
  <2>1. file'[x].read = file[x].read
    BY <1>1, <1>3 DEF Offered, Record
  <2> QED BY <1>3, <2>1, ChangedReads DEF Began
<1> QED BY <1>2, <1>3 DEF Lapses

\* One record changes.
LEMMA OneReads ==
  ASSUME NEW id \in Ids, ReadsKept(id), \A x \in Ids \ {id} : file'[x] = file[x]
  PROVE  AllReadsKept
BY DEF AllReadsKept, ReadsKept, Out, Began

\* The records stay as they are.
LEMMA NoReads ==
  ASSUME file' = file
  PROVE  AllReadsKept
BY DEF AllReadsKept, ReadsKept, Out, Began

\* An offer is of a file not offered before.
LEMMA OfferReads ==
  ASSUME FTInv, NEW id \in Ids \ sent, NEW from, NEW to, NEW bytes, Offer(id, from, to, bytes)
  PROVE  AllReadsKept
<1>1. CASE OfferAnswer(id, from, bytes) # "ok"
  BY <1>1, OfferMoves, NoReads DEF FTInv
<1>2. CASE OfferAnswer(id, from, bytes) = "ok"
  <2>1. Becomes(id, [Blank EXCEPT !.state = "offered", !.from = from, !.to = to,
                                  !.bytes = bytes, !.expires = now + OfferTtl])
    BY <1>2, OfferMoves DEF FTInv
  <2>2. file'[id].read = {} /\ \A x \in Ids \ {id} : file'[x] = file[x]
    BY <2>1 DEF Becomes, Blank
  <2>3. ReadsKept(id)
    BY <2>2 DEF ReadsKept, Began
  <2> QED BY <2>2, <2>3, OneReads
<1> QED BY <1>1, <1>2

\* A grant is of a file not begun.
LEMMA GrantReads ==
  ASSUME FTInv, NEW id \in Ids, NEW name \in Names, Grant(id, name)
  PROVE  AllReadsKept
<1>1. CASE GrantAnswer(id, name) # "ok"
  BY <1>1, GrantMoves, LapseReads DEF FTInv
<1>2. CASE GrantAnswer(id, name) = "ok"
  <2>1. /\ file[id].state = "offered" /\ file[id] \in Record
        /\ Becomes(id, [file[id] EXCEPT !.state = "granted", !.grant = grants + 1,
                                        !.grantExpires = now + GrantTtl, !.day = Today])
    BY <1>2, GrantMoves, Asked DEF FTInv
  <2>2. file'[id].read = file[id].read /\ \A x \in Ids \ {id} : file'[x] = file[x]
    BY <2>1 DEF Becomes, Record
  <2> QED BY <2>1, <2>2, ChangedReads, OneReads DEF Began
<1> QED BY <1>1, <1>2

\* An upload that begins has none of its parts read.
LEMMA BeginReads ==
  ASSUME FTInv, NEW id \in Ids, NEW stream, file[id].state = "granted",
         Becomes(id, Uploading(file[id], stream))
  PROVE  AllReadsKept
<1>1. file'[id].read = {} /\ \A x \in Ids \ {id} : file'[x] = file[x]
  BY Asked DEF Becomes, Uploading, Record
<1> QED BY <1>1, ChangedReads, OneReads DEF Began

\* So it is however it starts.
LEMMA StartReads ==
  ASSUME FTInv, NEW id \in Ids, NEW from, NEW grant, NEW a,
         Start(id, from, grant, a) \/ StartStream(id, from, grant, a)
  PROVE  AllReadsKept
<1>1. CASE Start(id, from, grant, a)
  BY <1>1, StartMoves, LapseReads, BeginReads DEF FTInv
<1>2. CASE StartStream(id, from, grant, a)
  BY <1>2, StartStreamMoves, LapseReads, BeginReads DEF FTInv
<1> QED BY <1>1, <1>2

\* A record being uploaded, or stored, has the parts it had.
LEMMA StartedReads ==
  ASSUME FTInv, NEW id \in Ids, NEW upload, Started(id, upload)
  PROVE  AllReadsKept
<1>1. CASE file[id].state = "uploading"
  <2>1. Becomes(id, [file[id] EXCEPT !.upload = upload]) /\ file[id] \in Record
    BY <1>1, StartedMoves, Asked DEF FTInv
  <2>2. /\ file'[id].read = file[id].read /\ file'[id].stream = file[id].stream
        /\ file'[id].state = "uploading" /\ file'[id].bytes = file[id].bytes
        /\ \A x \in Ids \ {id} : file'[x] = file[x]
    BY <1>1, <2>1 DEF Becomes, Record, Goes
  <2> QED BY <1>1, <2>2, ChangedReads, OneReads DEF Goes
<1>2. CASE file[id].state # "uploading"
  BY <1>2, StartedMoves, NoReads DEF FTInv
<1> QED BY <1>1, <1>2

\* To count an attempt at a part changes no read ...
LEMMA PartReads ==
  ASSUME FTInv, NEW id \in Ids, NEW from, NEW n, NEW length, Part(id, from, n, length)
  PROVE  AllReadsKept
<1>0. /\ PartAnswer(id, from, n, length) = "ok" =>
           Goes(id) /\ Becomes(id, [file[id] EXCEPT !.tries = @ + 1, !.touched = now])
      /\ PartAnswer(id, from, n, length) # "ok" => Lapses
  <2>1. Inv
    BY DEF FTInv
  <2>2. /\ grants' = grants
        /\ PartAnswer(id, from, n, length) = "ok" =>
             /\ Goes(id) /\ Open(file[id]) /\ n \in Parts(file[id])
             /\ Becomes(id, [file[id] EXCEPT !.tries = @ + 1, !.touched = now])
        /\ PartAnswer(id, from, n, length) # "ok" => Lapses /\ \A x \in Ids \ {id} : file'[x] = file[x]
        /\ PartAnswer(id, from, n, length) \in {"over", "failed"} => Goes(id) /\ file'[id] = Blank
        /\ PartAnswer(id, from, n, length) \in {"gone", "relay-full"} => file' = file
    BY <2>1, PartMoves
  <2> QED BY <2>2
<1>1. CASE PartAnswer(id, from, n, length) = "ok"
  <2>1. /\ Goes(id) /\ file[id] \in Record
        /\ Becomes(id, [file[id] EXCEPT !.tries = @ + 1, !.touched = now])
    BY <1>0, <1>1, Asked
  <2>2. /\ file'[id].read = file[id].read /\ file'[id].stream = file[id].stream
        /\ file'[id].state = "uploading" /\ file'[id].bytes = file[id].bytes
        /\ \A x \in Ids \ {id} : file'[x] = file[x]
    BY <2>1 DEF Becomes, Record, Goes
  <2> QED BY <2>1, <2>2, ChangedReads, OneReads DEF Goes
<1>2. CASE PartAnswer(id, from, n, length) # "ok"
  BY <1>0, <1>2, LapseReads
<1> QED BY <1>1, <1>2

\* ... nor to count the part as in ...
LEMMA PartDoneReads ==
  ASSUME FTInv, NEW id \in Ids, NEW n, PartDone(id, n)
  PROVE  AllReadsKept
<1>1. CASE Goes(id)
  <2>1. /\ Becomes(id, [file[id] EXCEPT !.parts = @ \cup {n}, !.touched = now])
        /\ file[id] \in Record
    BY <1>1, PartDoneMoves, Asked DEF FTInv
  <2>2. /\ file'[id].read = file[id].read /\ file'[id].stream = file[id].stream
        /\ file'[id].state = "uploading" /\ file'[id].bytes = file[id].bytes
        /\ \A x \in Ids \ {id} : file'[x] = file[x]
    BY <1>1, <2>1 DEF Becomes, Record, Goes
  <2> QED BY <1>1, <2>2, ChangedReads, OneReads DEF Goes
<1>2. CASE ~Goes(id)
  BY <1>2, PartDoneMoves, NoReads DEF FTInv
<1> QED BY <1>1, <1>2

\* ... nor to store the file, or let it go, once its upload ends ...
LEMMA StoredReads ==
  ASSUME FTInv, NEW id \in Ids, Stored(id)
  PROVE  AllReadsKept
<1>1. CASE StoredAnswer(id) = "none"
  BY <1>1, StoredMoves, NoReads DEF FTInv
<1>2. CASE StoredAnswer(id) = "read"
  <2>1. Becomes(id, Blank)
    BY <1>2, StoredMoves DEF FTInv
  <2> QED BY <2>1, LapseReads DEF Becomes, Lapses
<1>3. CASE StoredAnswer(id) = "stored"
  <2>1. /\ Goes(id) /\ file[id] \in Record
        /\ Becomes(id, [file[id] EXCEPT !.state = "stored", !.expires = now + StoredTtl,
                                !.upload = NoUpload, !.tries = 0,
                                !.parts = IF file[id].stream > 0 THEN @ ELSE {}])
    BY <1>3, StoredMoves, Asked DEF FTInv
  <2>2. /\ file'[id].read = file[id].read /\ file'[id].stream = file[id].stream
        /\ file'[id].state = "stored" /\ file'[id].bytes = file[id].bytes
        /\ \A x \in Ids \ {id} : file'[x] = file[x]
    BY <2>1 DEF Becomes, Record, Goes
  <2> QED BY <2>1, <2>2, ChangedReads, OneReads DEF Goes
<1> QED BY <1>1, <1>2, <1>3, StoredMoves DEF FTInv

\* ... nor to let a read begin.
LEMMA ReadReads ==
  ASSUME FTInv, NEW id \in Ids, NEW answer, NEW cost, Read(id, answer, cost)
  PROVE  AllReadsKept
<1>1. Lapses
  BY ReadMoves DEF FTInv, Lapses, Becomes
<1> QED BY <1>1, LapseReads

\* Reads that are kept are kept right, whoever takes a step.
LEMMA ReadsGoOn ==
  ASSUME FTInv, FTInv', ReadsRight, AllReadsKept, \A x \in Ids : GotKept(x),
         \A v \in Workers : worker'[v] = worker[v] \/ BeenRead(worker[v])'
  PROVE  ReadsRight'
<1>1. ASSUME NEW x \in Ids PROVE ReadRight(x)'
  <2>1. ReadsKept(x) /\ GotKept(x) /\ ReadRight(x) /\ FileRight(x)' /\ file'[x] \in Record
    BY DEF AllReadsKept, ReadsRight, FTInv, FilesRight, Inv, TypeOK
  <2>2. CASE file'[x].read = {}
    BY <2>2 DEF ReadRight
  <2>3. CASE file'[x].read = file[x].read /\ file[x].read # {} /\ Out(x)'
    <3>1. Began(x) /\ file[x].stream # 0
      BY <2>1, <2>3 DEF ReadRight
    <3>2. /\ Out(x) /\ file'[x].stream = file[x].stream /\ file'[x].bytes = file[x].bytes
          /\ file'[x].state \notin {"offered", "granted"}
      BY <2>1, <2>3, <3>1 DEF ReadsKept
    <3>3. Parts(file'[x]) = Parts(file[x])
      BY <3>2 DEF Parts, Size
    <3>4. file[x].read \subseteq Parts(file[x]) /\ file[x].read \subseteq got[x] /\ got[x] \subseteq got'[x]
      BY <2>1, <3>1, <3>2 DEF ReadRight, GotKept
    <3>5. Began(x)'
      BY <2>1, <2>3, <3>2 DEF Began, FileRight
    <3> QED BY <2>3, <3>1, <3>2, <3>3, <3>4, <3>5 DEF ReadRight
  <2>4. CASE ~Out(x)'
    BY <2>1, <2>4, <2>2 DEF FileRight, Out, Blank
  <2> QED BY <2>1, <2>2, <2>3, <2>4 DEF ReadsKept
<1>2. ASSUME NEW v \in Workers PROVE BeenRead(worker[v])'
  <2>1. CASE worker'[v] # worker[v]
    BY <2>1
  <2>2. CASE worker'[v] = worker[v]
    <3>1. PICK s \in Requests : s = worker[v] /\ s = worker'[v] /\ Ready(s) /\ BeenRead(s)
      BY <2>2 DEF FTInv, AllReady, ReadsRight
    <3>2. SUFFICES ASSUME s.at \in Reading, Out(s.id)'
                   PROVE  BeenRead(s)'
      BY <3>1, <3>2 DEF BeenRead, Reading
    <3>3. s.id \in Ids /\ Began(s.id)
      BY <3>1, <3>2 DEF Ready, Reading, FTInv, Typed
    <3>4. ReadsKept(s.id) /\ GotKept(s.id)
      BY <3>3 DEF AllReadsKept
    <3>5. /\ Out(s.id) /\ file'[s.id].stream = file[s.id].stream
          /\ file'[s.id].bytes = file[s.id].bytes
      BY <3>2, <3>3, <3>4 DEF ReadsKept
    <3>6. Parts(file'[s.id]) = Parts(file[s.id]) /\ file[s.id].stream \in Nat
      BY <3>3, <3>5, Asked DEF Parts, Size, Record
    <3>7. CASE s.at = "partRead"
      <4>1. file[s.id].stream > 0
        BY <3>1, <3>5, <3>7 DEF Ready, Piece
      <4> QED BY <3>1, <3>4, <3>5, <3>6, <3>7, <4>1 DEF BeenRead, GotKept
    <3>8. CASE s.at = "pass"
      BY <3>1, <3>4, <3>5, <3>6, <3>8 DEF BeenRead, GotKept
    <3>9. CASE s.at = "passed"
      BY <3>1, <3>4, <3>5, <3>6, <3>9 DEF BeenRead, GotKept
    <3> QED BY <3>2, <3>7, <3>8, <3>9 DEF Reading
  <2> QED BY <2>1, <2>2
<1> QED BY <1>1, <1>2 DEF ReadsRight

\* A step that passes nothing on and ends in no read.
LEMMA QuietReads ==
  ASSUME FTInv, FTInv', ReadsRight, AllReadsKept, got' = got, NEW w \in Workers, ReadsNothing(w)
  PROVE  ReadsRight'
<1>1. \A v \in Workers : worker'[v] = worker[v] \/ BeenRead(worker[v])'
  BY DEF ReadsNothing, BeenRead, Reading
<1>2. \A x \in Ids : GotKept(x)
  BY DEF GotKept
<1> QED BY <1>1, <1>2, ReadsGoOn

\* Every action but four passes nothing on and goes on to no read.
ReadsApart(w) == AllReadsKept /\ got' = got /\ ReadsNothing(w)

\* A request that is about a file is about one there is.
LEMMA DoingFor ==
  ASSUME FTInv, NEW w \in Workers
  PROVE  /\ worker[w] \in Requests
         /\ worker[w].at \notin {"idle", "clear", "dead"} => worker[w].id \in Ids
BY Doing DEF Ready, FTInv, Typed

\* What a request goes on to.
LEMMA ThenIs ==
  ASSUME FTInv, NEW w \in Workers
  PROVE  \A r : Then(w, r) => worker'[w] = r /\ \A v \in Workers \ {w} : worker'[v] = worker[v]
BY DEF Then, FTInv, AllReady

\* ... and where that leaves it.
LEMMA StepAt ==
  /\ Idle.at \notin Reading
  /\ \A S : Clearing(S).at \notin Reading
  /\ \A x, at : Step(x, at).at = at
<1>1. Idle.at \notin Reading
  BY DEF Idle, Reading
<1>2. \A S : Clearing(S).at \notin Reading
  BY DEF Clearing, Idle, Reading
<1>3. \A x, at : Step(x, at).at = at
  BY DEF Step, Idle
<1> QED BY <1>1, <1>2, <1>3

\* So it reads nothing there, unless that is one of the reads.
LEMMA GoesTo ==
  ASSUME FTInv, NEW w \in Workers
  PROVE  /\ Then(w, Idle) => ReadsNothing(w)
         /\ \A S : Then(w, Clearing(S)) => ReadsNothing(w)
         /\ \A x, at : at \notin Reading /\ Then(w, Step(x, at)) => ReadsNothing(w)
         /\ \A x, at, n : at \notin Reading /\ Then(w, [Step(x, at) EXCEPT !.n = n]) => ReadsNothing(w)
         /\ \A x, g : Then(w, [Step(x, "notify") EXCEPT !.grant = g]) => ReadsNothing(w)
         /\ \A x, at, u : at \notin Reading /\ Then(w, [Step(x, at) EXCEPT !.upload = u]) => ReadsNothing(w)
         /\ \A x, at, n, u :
              at \notin Reading /\ Then(w, [Step(x, at) EXCEPT !.n = n, !.upload = u]) => ReadsNothing(w)
<1>1. \A r : Then(w, r) /\ r.at \notin Reading => ReadsNothing(w)
  BY ThenIs DEF ReadsNothing
<1>2. \A x, g : [Step(x, "notify") EXCEPT !.grant = g].at \notin Reading
  <2>1. \A x, g : [Step(x, "notify") EXCEPT !.grant = g].at = "notify"
    BY DEF Step, Idle
  <2> QED BY <2>1 DEF Reading
<1>3. Then(w, Idle) => ReadsNothing(w)
  BY <1>1, StepAt
<1>4. ASSUME NEW S, Then(w, Clearing(S)) PROVE ReadsNothing(w)
  BY <1>1, <1>4, StepAt
<1>5. ASSUME NEW x, NEW g, Then(w, [Step(x, "notify") EXCEPT !.grant = g]) PROVE ReadsNothing(w)
  BY <1>1, <1>2, <1>5
<1>6. ASSUME NEW x, NEW at, at \notin Reading PROVE Then(w, Step(x, at)) => ReadsNothing(w)
  BY <1>1, <1>6, StepAt
<1>7. ASSUME NEW x, NEW at, at \notin Reading, NEW n
      PROVE  Then(w, [Step(x, at) EXCEPT !.n = n]) => ReadsNothing(w)
  <2>1. [Step(x, at) EXCEPT !.n = n].at = at
    BY DEF Step, Idle
  <2> QED BY <1>1, <1>7, <2>1
<1>8. ASSUME NEW x, NEW at, at \notin Reading, NEW u
      PROVE  Then(w, [Step(x, at) EXCEPT !.upload = u]) => ReadsNothing(w)
  <2>1. [Step(x, at) EXCEPT !.upload = u].at = at
    BY DEF Step, Idle
  <2> QED BY <1>1, <1>8, <2>1
<1>9. ASSUME NEW x, NEW at, at \notin Reading, NEW n, NEW u
      PROVE  Then(w, [Step(x, at) EXCEPT !.n = n, !.upload = u]) => ReadsNothing(w)
  <2>1. [Step(x, at) EXCEPT !.n = n, !.upload = u].at = at
    BY DEF Step, Idle
  <2> QED BY <1>1, <1>9, <2>1
<1> QED BY <1>3, <1>4, <1>5, <1>6, <1>7, <1>8, <1>9

\* What a request asks first, a part or a read aside, begins no read.
LEMMA ArriveReads ==
  ASSUME FTInv, NEW w \in Workers, NEW id \in Ids, NEW name \in Names,
         \/ \E to \in Names \ {name}, bytes \in Lengths : SendOffer(w, id, name, to, bytes)
         \/ Accept(w, id, name)
         \/ Cancel(w, id, name)
         \/ \E grant \in 0 .. MaxGrants, a \in Addresses : StartUpload(w, id, name, grant, a)
         \/ \E grant \in 1 .. MaxGrants, a \in Addresses : PutFirst(w, id, name, grant, 1, a)
         \/ Finish(w, id, name)
  PROVE  ReadsApart(w)
<1>1. ASSUME NEW to \in Names \ {name}, NEW bytes \in Lengths, SendOffer(w, id, name, to, bytes)
      PROVE  ReadsApart(w)
  <2>1. AllReadsKept
    BY <1>1, OfferReads DEF SendOffer
  <2>2. ReadsNothing(w)
    BY <1>1, ThenIs, StepAt DEF ReadsNothing, Done, SendOffer, Reading
  <2> QED BY <1>1, <2>1, <2>2 DEF SendOffer, ReadsApart
<1>2. CASE Accept(w, id, name)
  <2>1. AllReadsKept
    BY <1>2, GrantReads DEF Accept
  <2>2. ReadsNothing(w)
    <3>1. Then(w, Idle) \/ \E g : Then(w, [Step(id, "notify") EXCEPT !.grant = g])
      BY <1>2 DEF Accept, Done
    <3> QED BY <3>1, GoesTo
  <2> QED BY <1>2, <2>1, <2>2 DEF Accept, ReadsApart, apps
<1>3. CASE Cancel(w, id, name)
  <2>1. AllReadsKept
    BY <1>3, RemoveMoves, LapseReads DEF Cancel, FTInv
  <2>2. ReadsNothing(w)
    BY <1>3, ThenIs, StepAt DEF ReadsNothing, Done, Cancel, Reading
  <2> QED BY <1>3, <2>1, <2>2 DEF Cancel, ReadsApart, apps
<1>4. ASSUME NEW grant \in 0 .. MaxGrants, NEW a \in Addresses, StartUpload(w, id, name, grant, a)
      PROVE  ReadsApart(w)
  <2>1. AllReadsKept
    BY <1>4, StartReads DEF StartUpload
  <2>2. ReadsNothing(w)
    BY <1>4, ThenIs, StepAt DEF ReadsNothing, Done, StartUpload, Reading
  <2> QED BY <1>4, <2>1, <2>2 DEF StartUpload, ReadsApart, apps
<1>5. ASSUME NEW grant \in 1 .. MaxGrants, NEW a \in Addresses, PutFirst(w, id, name, grant, 1, a)
      PROVE  ReadsApart(w)
  <2>1. AllReadsKept
    BY <1>5, StartReads DEF PutFirst
  <2>2. ReadsNothing(w)
    <3>1. Then(w, Idle) \/ \E at \in {"part"} : \E m : Then(w, [Step(id, at) EXCEPT !.n = m])
      BY <1>5 DEF PutFirst, Done
    <3> QED BY <3>1, GoesTo DEF Reading
  <2> QED BY <1>5, <2>1, <2>2 DEF PutFirst, ReadsApart, apps
<1>6. CASE Finish(w, id, name)
  <2>1. AllReadsKept
    BY <1>6, NoReads DEF Finish, vars
  <2>2. ReadsNothing(w)
    <3>1. \/ Then(w, Idle)
          \/ \E at \in {"stored", "complete"} : \E u : Then(w, [Step(id, at) EXCEPT !.upload = u])
      BY <1>6 DEF Finish, Done
    <3> QED BY <3>1, GoesTo DEF Reading
  <2> QED BY <1>6, <2>1, <2>2 DEF Finish, ReadsApart, apps
<1> QED BY <1>1, <1>2, <1>3, <1>4, <1>5, <1>6

\* Nor does what a part is answered ...
LEMMA AfterPartReads ==
  ASSUME FTInv, NEW w \in Workers, NEW id, NEW from, NEW n, NEW length, AfterPart(w, id, from, n, length)
  PROVE  ReadsNothing(w)
<1>1. \/ \E S : Then(w, Clearing(S))
      \/ \E at \in {"put", "uploadPart"} : \E m, u : Then(w, [Step(id, at) EXCEPT !.n = m, !.upload = u])
  BY DEF AfterPart
<1> QED BY <1>1, GoesTo DEF Reading

\* ... and so to put one starts no read ...
LEMMA PutPartReads ==
  ASSUME FTInv, NEW w \in Workers, NEW id \in Ids, NEW from, NEW n, NEW length,
         PutPart(w, id, from, n, length)
  PROVE  ReadsApart(w)
BY PartReads, AfterPartReads DEF PutPart, ReadsApart, apps

\* ... nor is a part read before it is got from the bucket.
LEMMA ReadPartReads ==
  ASSUME FTInv, NEW w \in Workers, NEW id \in Ids, NEW name, NEW n, ReadPart(w, id, name, n)
  PROVE  ReadsApart(w)
<1>1. AllReadsKept
  BY ReadReads DEF ReadPart, PartReadable
<1>2. ReadsNothing(w)
  <2>1. \/ \E S : Then(w, Clearing(S))
        \/ \E at \in {"get"} : \E m : Then(w, [Step(id, at) EXCEPT !.n = m])
    BY DEF ReadPart
  <2> QED BY <2>1, GoesTo DEF Reading
<1> QED BY <1>1, <1>2 DEF ReadPart, ReadsApart, apps

\* The hourly cron reads nothing.
LEMMA SweepReads ==
  ASSUME FTInv, NEW w \in Workers, SweepFiles(w)
  PROVE  ReadsApart(w)
<1>1. AllReadsKept
  BY SweepMoves, LapseReads DEF SweepFiles, FTInv
<1>2. ReadsNothing(w)
  BY ThenIs, StepAt DEF ReadsNothing, Done, SweepFiles, Reading
<1> QED BY <1>1, <1>2 DEF SweepFiles, ReadsApart, apps

\* Of the calls that a request goes on to, some change no record ...
LEMMA StillReads ==
  ASSUME FTInv, NEW w \in Workers,
         \/ Deliver(w) \/ NotifyAccepted(w) \/ Clear(w) \/ CreateUpload(w) \/ AbortUpload(w)
         \/ PutPiece(w) \/ Unput(w) \/ UploadPart(w) \/ CompleteUpload(w) \/ Unmake(w)
  PROVE  ReadsApart(w)
<1>1. file' = file /\ got' = got
  <2>1. CASE Deliver(w) \/ NotifyAccepted(w) \/ Clear(w) \/ CreateUpload(w) \/ AbortUpload(w)
    BY <2>1 DEF Deliver, NotifyAccepted, Clear, CreateUpload, AbortUpload, vars, apps
  <2>2. CASE PutPiece(w) \/ Unput(w) \/ UploadPart(w) \/ CompleteUpload(w) \/ Unmake(w)
    BY <2>2 DEF PutPiece, Unput, UploadPart, CompleteUpload, Unmake, vars, apps
  <2> QED BY <2>1, <2>2
<1>2. ReadsNothing(w)
  <2>1. CASE Deliver(w)
    BY <2>1, ThenIs, StepAt DEF ReadsNothing, Done, Deliver, Reading
  <2>2. CASE NotifyAccepted(w)
    BY <2>2, DoingFor, ThenIs DEF NotifyAccepted, ReadsNothing, Reading, Done, Idle, Requests
  <2>3. CASE Clear(w)
    BY <2>3, ThenIs, StepAt DEF ReadsNothing, Done, Clear, Reading
  <2>4. CASE CreateUpload(w)
    <3>1. \/ \E x, u : \E at \in {"started"} : Then(w, [Step(x, at) EXCEPT !.upload = u])
          \/ \E x : \E at \in {"startFailed"} : Then(w, Step(x, at))
      BY <2>4 DEF CreateUpload
    <3> QED BY <3>1, GoesTo DEF Reading
  <2>5. CASE AbortUpload(w) \/ Unput(w) \/ Unmake(w)
    BY <2>5, ThenIs, StepAt DEF ReadsNothing, Done, AbortUpload, Unput, Unmake, Reading
  <2>6. CASE PutPiece(w)
    BY <2>6, DoingFor, ThenIs DEF PutPiece, ReadsNothing, Reading, Done, Idle, Requests
  <2>7. CASE UploadPart(w)
    BY <2>7, DoingFor, ThenIs DEF UploadPart, ReadsNothing, Reading, Done, Idle, Requests
  <2>8. CASE CompleteUpload(w)
    BY <2>8, DoingFor, ThenIs DEF CompleteUpload, ReadsNothing, Reading, Done, Idle, Requests
  <2> QED BY <2>1, <2>2, <2>3, <2>4, <2>5, <2>6, <2>7, <2>8
<1> QED BY <1>1, <1>2, NoReads DEF ReadsApart

\* ... and the others are calls of the ledger.
LEMMA CallReads ==
  ASSUME FTInv, NEW w \in Workers,
         \/ Withdraw(w) \/ RevertGrant(w) \/ StartFailed(w) \/ UploadStarted(w) \/ PutStarted(w)
         \/ PieceDone(w) \/ UploadPartDone(w) \/ FileStored(w) \/ FilePassed(w)
  PROVE  ReadsApart(w)
<1>1. Inv /\ worker[w] \in Requests
  BY DoingFor, ThenIs DEF FTInv
<1>2. CASE Withdraw(w) \/ StartFailed(w) \/ FilePassed(w)
  <2>1. Remove(worker[w].id, Nobody) /\ worker[w].id \in Ids /\ got' = got
    BY <1>2, DoingFor, ThenIs DEF Withdraw, StartFailed, FilePassed, At, apps
  <2>2. AllReadsKept
    BY <1>1, <2>1, RemoveMoves, LapseReads
  <2>3. ReadsNothing(w)
    BY <1>2, Doing, ThenIs, StepAt DEF ReadsNothing, Done, Withdraw, StartFailed, FilePassed, Reading
  <2> QED BY <2>1, <2>2, <2>3 DEF ReadsApart
<1>3. CASE RevertGrant(w)
  <2>1. Revert(worker[w].id, worker[w].grant) /\ worker[w].id \in Ids /\ got' = got
    BY <1>3, DoingFor, ThenIs DEF RevertGrant, At, apps
  <2>2. AllReadsKept
    BY <1>1, <2>1, RevertMoves, LapseReads
  <2>3. ReadsNothing(w)
    BY <1>3, ThenIs, StepAt DEF ReadsNothing, Done, RevertGrant, Reading
  <2> QED BY <2>1, <2>2, <2>3 DEF ReadsApart
<1>4. CASE UploadStarted(w)
  <2>1. Started(worker[w].id, worker[w].upload) /\ worker[w].id \in Ids /\ got' = got
    BY <1>4, DoingFor, ThenIs DEF UploadStarted, At, apps
  <2>2. AllReadsKept
    BY <2>1, StartedReads
  <2>3. ReadsNothing(w)
    BY <1>1, <1>4, ThenIs DEF UploadStarted, ReadsNothing, Reading, Done, Idle, Requests
  <2> QED BY <2>1, <2>2, <2>3 DEF ReadsApart
<1>5. CASE PutStarted(w)
  <2>1. /\ \E from, n, length : Part(worker[w].id, from, n, length)
        /\ \E id, from, n, length : AfterPart(w, id, from, n, length)
        /\ worker[w].id \in Ids /\ got' = got
    BY <1>5, DoingFor, ThenIs DEF PutStarted, At, apps
  <2> QED BY <2>1, PartReads, AfterPartReads DEF ReadsApart
<1>6. CASE PieceDone(w) \/ UploadPartDone(w)
  <2>1. PartDone(worker[w].id, worker[w].n) /\ worker[w].id \in Ids /\ got' = got
    BY <1>6, DoingFor, ThenIs DEF PieceDone, UploadPartDone, At, apps
  <2>2. AllReadsKept
    BY <2>1, PartDoneReads
  <2>3. ReadsNothing(w)
    BY <1>1, <1>6, ThenIs DEF PieceDone, UploadPartDone, ReadsNothing, Reading, Done, Idle, Requests
  <2> QED BY <2>1, <2>2, <2>3 DEF ReadsApart
<1>7. CASE FileStored(w)
  <2>1. Stored(worker[w].id) /\ worker[w].id \in Ids /\ got' = got
    BY <1>7, DoingFor, ThenIs DEF FileStored, At, apps
  <2>2. AllReadsKept
    BY <2>1, StoredReads
  <2>3. ReadsNothing(w)
    BY <1>1, <1>7, ThenIs, StepAt DEF FileStored, ReadsNothing, Reading, Done, Requests
  <2> QED BY <2>1, <2>2, <2>3 DEF ReadsApart
<1> QED BY <1>2, <1>3, <1>4, <1>5, <1>6, <1>7

\* Where as many parts were read as the file has, all of them were.
LEMMA AllOfThem ==
  ASSUME NEW c \in Nat, NEW S \in SUBSET (1 .. c), Cardinality(S) >= c
  PROVE  S = 1 .. c
<1>1. IsFiniteSet(1 .. c) /\ Cardinality(1 .. c) = c
  BY FS_Interval
<1> DEFINE T == 1 .. c
<1>2. IsFiniteSet(T) /\ S \in SUBSET T /\ Cardinality(T) = c
  BY <1>1
<1> HIDE DEF T
<1>3. IsFiniteSet(S) /\ Cardinality(S) <= Cardinality(T) /\ (Cardinality(T) = Cardinality(S) => T = S)
  BY <1>2, FS_Subset
<1>4. Cardinality(S) \in Nat
  BY <1>3, FS_CardinalityType
<1>5. S = T
  BY <1>2, <1>3, <1>4
<1> QED BY <1>5 DEF T

\* A part passed on is one got.
LEMMA PassPartReads ==
  ASSUME FTInv, FTInv', ReadsRight, NEW w \in Workers, PassPart(w)
  PROVE  ReadsRight'
<1>1. PICK q \in Requests : q = worker[w] /\ Ready(q)
  BY Doing
<1>2. q.at = "get" /\ q.id \in Ids /\ UNCHANGED file /\ got \in [Ids -> SUBSET Nat]
  BY <1>1, DoingFor DEF PassPart, At, vars, FTInv, Typed
<1>3. CASE got' = got /\ Done(w)
  <2>1. ReadsNothing(w)
    BY <1>3, GoesTo DEF Done
  <2> QED BY <1>2, <1>3, <2>1, NoReads, QuietReads
<1>4. CASE /\ got' = [got EXCEPT ![q.id] = @ \cup {q.n}]
           /\ Then(w, [q EXCEPT !.at = "partRead"])
  <2>1. got'[q.id] = got[q.id] \cup {q.n} /\ \A x \in Ids \ {q.id} : got'[x] = got[x]
    BY <1>2, <1>4
  <2>2. /\ worker'[w].at = "partRead" /\ worker'[w].id = q.id /\ worker'[w].n = q.n
        /\ \A v \in Workers \ {w} : worker'[v] = worker[v]
    BY <1>1, <1>4, ThenIs DEF Requests
  <2>3. \A x \in Ids : GotKept(x)
    BY <2>1 DEF GotKept
  <2>4. \A v \in Workers : worker'[v] = worker[v] \/ BeenRead(worker[v])'
    BY <2>1, <2>2 DEF BeenRead
  <2> QED BY <1>2, <2>3, <2>4, NoReads, ReadsGoOn
<1> QED BY <1>1, <1>3, <1>4 DEF PassPart

\* A download begins at the first part its recipient has not got.
LEMMA DownloadReads ==
  ASSUME FTInv, FTInv', ReadsRight, NEW w \in Workers, NEW id \in Ids, NEW name, NEW first,
         Download(w, id, name, first)
  PROVE  ReadsRight'
<1>1. AllReadsKept /\ got' = got
  BY ReadReads DEF Download, Readable, apps
<1>2. CASE ReadableAnswer(id, name) # "ok"
  <2>1. \E S : Then(w, Clearing(S))
    BY <1>2 DEF Download
  <2> QED BY <1>1, <2>1, GoesTo, QuietReads
<1>3. CASE ReadableAnswer(id, name) = "ok"
  <2>1. PICK r : r = [Clearing({Removed(id)}) EXCEPT !.id = id, !.n = first, !.at = "pass"]
    OBVIOUS
  <2>2. r.at = "pass" /\ r.id = id /\ r.n = first
    BY <2>1 DEF Clearing, Idle
  <2>3. Then(w, r) /\ 1 .. first - 1 \subseteq got[id]
    BY <1>3, <2>1 DEF Download
  <2>4. /\ worker'[w] = r
        /\ \A v \in Workers \ {w} : worker'[v] = worker[v]
    BY <2>3, ThenIs
  <2>5. \A v \in Workers : worker'[v] = worker[v] \/ BeenRead(worker[v])'
    BY <1>1, <2>2, <2>3, <2>4 DEF BeenRead
  <2>6. \A x \in Ids : GotKept(x)
    BY <1>1 DEF GotKept
  <2> QED BY <1>1, <2>5, <2>6, ReadsGoOn
<1> QED BY <1>2, <1>3

\* The parts of a file are passed on one after the other, up to the last.
LEMMA PassFileReads ==
  ASSUME FTInv, FTInv', ReadsRight, NEW w \in Workers, PassFile(w)
  PROVE  ReadsRight'
<1>1. PICK q \in Requests : q = worker[w] /\ Ready(q)
  BY Doing
<1> DEFINE id == q.id
           n  == q.n
<1>2. /\ q.at = "pass" /\ id \in Ids /\ n \in Nat /\ UNCHANGED file
      /\ got \in [Ids -> SUBSET Nat] /\ file[id] \in Record /\ BeenRead(q)
  BY <1>1, DoingFor, Asked DEF PassFile, At, vars, FTInv, Typed, Requests, ReadsRight
<1>3. PICK rec \in q.gone :
        \/ /\ rec.stream = 0
           /\ got' = [got EXCEPT ![rec.id] = 1 .. PartCount(rec.bytes, PartBytes)]
           /\ Then(w, [q EXCEPT !.at = "passed"])
        \/ /\ rec.stream > 0
           /\ got' = [got EXCEPT ![rec.id] = @ \cup {n}]
           /\ Then(w, IF n = PartCount(rec.bytes, rec.stream)
                      THEN [q EXCEPT !.at = "passed"] ELSE [q EXCEPT !.n = n + 1])
        \/ got' = got /\ Then(w, Step(rec.id, "withdraw"))
        \/ got' = got /\ Done(w)
  BY <1>1 DEF PassFile
<1>4. /\ rec.id = id
      /\ Out(id) => rec.stream = file[id].stream /\ rec.bytes = file[id].bytes
  BY <1>1, <1>2, <1>3 DEF Ready, Removed
<1>5. CASE got' = got /\ (Done(w) \/ Then(w, Step(rec.id, "withdraw")))
  <2>1. Done(w) \/ \E x : \E at \in {"withdraw"} : Then(w, Step(x, at))
    BY <1>5
  <2>2. ReadsNothing(w)
    BY <2>1, GoesTo DEF Done, Reading
  <2> QED BY <1>2, <1>5, <2>2, NoReads, QuietReads
<1>6. CASE /\ rec.stream = 0
           /\ got' = [got EXCEPT ![rec.id] = 1 .. PartCount(rec.bytes, PartBytes)]
           /\ Then(w, [q EXCEPT !.at = "passed"])
  <2>1. /\ got'[id] = 1 .. PartCount(rec.bytes, PartBytes)
        /\ \A x \in Ids \ {id} : got'[x] = got[x]
    BY <1>2, <1>4, <1>6
  <2>2. Out(id) => file[id].stream = 0 /\ Parts(file[id]) = got'[id]
    BY <1>4, <1>6, <2>1 DEF Parts, Size
  <2>3. /\ worker'[w].at = "passed" /\ worker'[w].id = id
        /\ \A v \in Workers \ {w} : worker'[v] = worker[v]
    BY <1>1, <1>6, ThenIs DEF Requests
  <2>4. \A x \in Ids : GotKept(x)
    BY <2>1, <2>2 DEF GotKept
  <2>5. \A v \in Workers : worker'[v] = worker[v] \/ BeenRead(worker[v])'
    BY <1>2, <2>2, <2>3 DEF BeenRead, Out, Parts, Size
  <2> QED BY <1>2, <2>4, <2>5, NoReads, ReadsGoOn
<1>7. CASE /\ rec.stream > 0
           /\ got' = [got EXCEPT ![rec.id] = @ \cup {n}]
           /\ Then(w, IF n = PartCount(rec.bytes, rec.stream)
                      THEN [q EXCEPT !.at = "passed"] ELSE [q EXCEPT !.n = n + 1])
  <2>1. /\ got'[id] = got[id] \cup {n}
        /\ \A x \in Ids \ {id} : got'[x] = got[x]
    BY <1>2, <1>4, <1>7
  <2>2. \A x \in Ids : GotKept(x)
    BY <2>1 DEF GotKept
  <2>3. Out(id) => file[id].stream > 0 /\ 1 .. n - 1 \subseteq got[id]
    BY <1>2, <1>4, <1>7 DEF BeenRead
  <2>4. Out(id) => 1 .. n \subseteq got'[id]
    <3>1. \A k \in 1 .. n : k \in 1 .. n - 1 \/ k = n
      BY <1>2
    <3> QED BY <2>1, <2>3, <3>1
  <2>5. CASE n = PartCount(rec.bytes, rec.stream)
    <3>1. Out(id) => Parts(file[id]) = 1 .. n
      BY <1>4, <2>3, <2>5 DEF Parts, Size
    <3>2. /\ worker'[w].at = "passed" /\ worker'[w].id = id
          /\ \A v \in Workers \ {w} : worker'[v] = worker[v]
      BY <1>1, <1>7, <2>5, ThenIs DEF Requests
    <3>3. \A v \in Workers : worker'[v] = worker[v] \/ BeenRead(worker[v])'
      BY <1>2, <2>4, <3>1, <3>2 DEF BeenRead, Out
    <3> QED BY <1>2, <2>2, <3>3, NoReads, ReadsGoOn
  <2>6. CASE n # PartCount(rec.bytes, rec.stream)
    <3>1. /\ worker'[w].at = "pass" /\ worker'[w].id = id /\ worker'[w].n = n + 1
          /\ \A v \in Workers \ {w} : worker'[v] = worker[v]
      BY <1>1, <1>2, <1>7, <2>6, ThenIs DEF Requests
    <3>2. n + 1 - 1 = n
      BY <1>2
    <3>3. \A v \in Workers : worker'[v] = worker[v] \/ BeenRead(worker[v])'
      BY <1>2, <2>4, <3>1, <3>2 DEF BeenRead, Out
    <3> QED BY <1>2, <2>2, <3>3, NoReads, ReadsGoOn
  <2> QED BY <2>5, <2>6
<1> QED BY <1>3, <1>5, <1>6, <1>7

\* With its last part read the file goes; else the part is counted.
LEMMA PartWasReadReads ==
  ASSUME FTInv, FTInv', ReadsRight, NEW w \in Workers, PartWasRead(w)
  PROVE  /\ ReadsRight'
         /\ Out(worker[w].id) /\ file'[worker[w].id].state = "none"
              => Parts(file[worker[w].id]) \subseteq got[worker[w].id]
<1>1. PICK q \in Requests : q = worker[w] /\ Ready(q) /\ BeenRead(q)
  BY Doing DEF ReadsRight
<1> DEFINE id == q.id
           n  == q.n
<1>2. /\ q.at = "partRead" /\ id \in Ids /\ Began(id) /\ Piece(id, n) /\ PartRead(id, n)
      /\ got' = got /\ UNCHANGED sent /\ file[id] \in Record /\ Inv /\ ReadRight(id)
      /\ FileRight(id) /\ FileRight(id)' /\ n \in Nat
  BY <1>1, DoingFor, Asked DEF PartWasRead, At, Ready, apps, FTInv, FilesRight, ReadsRight, Requests
<1>3. /\ LastRead(id, n) => file[id].stream > 0 /\ file[id].state = "stored" /\ Becomes(id, Blank)
      /\ ~LastRead(id, n) /\ file[id].stream > 0 =>
           Becomes(id, [file[id] EXCEPT !.read = @ \cup {n}])
      /\ ~LastRead(id, n) /\ ~(file[id].stream > 0) => file' = file
  BY <1>2, PartReadMoves
<1>4. \E S : Then(w, Clearing(S))
  BY DEF PartWasRead
<1>5. ReadsNothing(w)
  BY <1>4, GoesTo
<1>6. CASE LastRead(id, n)
  <2>1. Lapses
    BY <1>3, <1>6 DEF Becomes, Lapses
  <2>2. ReadsRight'
    BY <1>2, <1>5, <2>1, LapseReads, QuietReads
  <2>3. Out(id)
    BY <1>3, <1>6 DEF Out
  <2>4. PICK c \in Nat : c = PartCount(file[id].bytes, file[id].stream) /\ Parts(file[id]) = 1 .. c
    BY <1>2, <1>3, <1>6, Asked DEF Parts, Size
  <2>5. PICK S : S = file[id].read \cup {n}
    OBVIOUS
  <2>6. S \subseteq Parts(file[id]) /\ S \subseteq got[id]
    BY <1>1, <1>2, <2>3, <2>5 DEF ReadRight, BeenRead, Piece
  <2>7. PICK rec : rec = [file[id] EXCEPT !.read = @ \cup {n}] /\ AllRead(rec)
    BY <1>6 DEF LastRead
  <2>8. rec.read = S /\ rec.bytes = file[id].bytes /\ rec.stream = file[id].stream
    BY <1>2, <2>5, <2>7 DEF Record
  <2>9. Cardinality(S) >= c
    BY <2>4, <2>7, <2>8 DEF AllRead
  <2>10. S = 1 .. c
    BY <2>4, <2>6, <2>9, AllOfThem
  <2> QED BY <1>1, <2>2, <2>4, <2>6, <2>10
<1>7. CASE ~LastRead(id, n) /\ ~(file[id].stream > 0)
  BY <1>1, <1>2, <1>3, <1>5, <1>7, NoReads, QuietReads DEF Out
<1>8. CASE ~LastRead(id, n) /\ file[id].stream > 0
  <2>1. /\ file'[id] = [file[id] EXCEPT !.read = @ \cup {n}]
        /\ \A x \in Ids \ {id} : file'[x] = file[x]
    BY <1>3, <1>8 DEF Becomes
  <2>2. /\ file'[id].read = file[id].read \cup {n} /\ file'[id].state = file[id].state
        /\ file'[id].bytes = file[id].bytes /\ file'[id].stream = file[id].stream
    BY <1>2, <2>1 DEF Record
  <2>3. Out(id)
    BY <1>2, <1>8 DEF FileRight, Out, Blank
  <2>4. ReadRight(id)'
    <3>1. Parts(file'[id]) = Parts(file[id]) /\ Began(id)'
      BY <1>2, <2>2 DEF Parts, Size, Began
    <3>2. n \in Parts(file[id]) /\ n \in got[id]
      BY <1>1, <1>2, <2>3 DEF BeenRead, Piece
    <3> QED BY <1>2, <1>8, <2>2, <2>3, <3>1, <3>2 DEF ReadRight
  <2>5. \A x \in Ids \ {id} : ReadRight(x)'
    BY <1>2, <2>1 DEF ReadsRight, ReadRight, Began, Out
  <2>6. \A x \in Ids : /\ Out(x)' <=> Out(x)
                       /\ file'[x].stream = file[x].stream /\ Parts(file'[x]) = Parts(file[x])
    BY <2>1, <2>2 DEF Out, Parts, Size
  <2>7. ASSUME NEW v \in Workers PROVE BeenRead(worker[v])'
    <3>1. CASE worker'[v].at \notin Reading
      BY <3>1 DEF BeenRead, Reading
    <3>2. CASE worker'[v] = worker[v] /\ worker[v].at \in Reading
      <4>1. worker[v].id \in Ids
        BY <3>2, DoingFor DEF Reading
      <4>2. BeenRead(worker[v])
        BY DEF ReadsRight
      <4> QED BY <1>2, <3>2, <2>6, <4>1, <4>2 DEF BeenRead
    <3> QED BY <1>5, <3>1, <3>2 DEF ReadsNothing
  <2>8. ReadsRight'
    BY <2>4, <2>5, <2>7 DEF ReadsRight
  <2>9. file'[id].state # "none"
    BY <2>2, <2>3 DEF Out
  <2> QED BY <1>1, <2>8, <2>9
<1> QED BY <1>6, <1>7, <1>8

\* Whatever a request is at the end of a read, or of an upload, when its file goes: it was read.
LeavesRead(w) ==
  LET id == worker[w].id IN
  worker[w].at \in {"partRead", "stored", "passed"} /\ Out(id) /\ file'[id].state = "none"
    => Parts(file[id]) \subseteq got[id]

Alone(w) == \A v \in Workers \ {w} : worker'[v] = worker[v]

\* An upload that ends goes at once if each of its parts was read.
LEMMA StoredWhenRead ==
  ASSUME FTInv, ReadsRight, NEW w \in Workers, FileStored(w)
  PROVE  LeavesRead(w)
<1>1. PICK id \in Ids : id = worker[w].id
  BY DoingFor DEF FileStored, At
<1>2. Stored(id) /\ Inv /\ file[id] \in Record /\ ReadRight(id)
  BY <1>1, Asked DEF FileStored, FTInv, ReadsRight
<1>3. CASE StoredAnswer(id) = "read"
  <2>1. file[id].stream > 0 /\ AllRead(file[id]) /\ Out(id)
    BY <1>3 DEF StoredAnswer, Out
  <2>2. PICK c \in Nat : c = PartCount(file[id].bytes, file[id].stream) /\ Parts(file[id]) = 1 .. c
    BY <1>2, <2>1, Asked DEF Parts, Size
  <2>3. file[id].read \in SUBSET (1 .. c) /\ Cardinality(file[id].read) >= c
    BY <1>2, <2>1, <2>2 DEF ReadRight, AllRead
  <2>4. file[id].read = 1 .. c
    BY <2>3, AllOfThem
  <2> QED BY <1>1, <1>2, <2>1, <2>2, <2>4 DEF LeavesRead, ReadRight
<1>4. CASE StoredAnswer(id) # "read"
  <2>1. file' = file \/ Becomes(id, [file[id] EXCEPT !.state = "stored", !.expires = now + StoredTtl,
                                !.upload = NoUpload, !.tries = 0,
                                !.parts = IF file[id].stream > 0 THEN @ ELSE {}])
    BY <1>2, <1>4, StoredMoves
  <2>2. file'[id].state = file[id].state \/ file'[id].state = "stored"
    BY <1>2, <2>1 DEF Becomes, Record
  <2> QED BY <1>1, <2>2 DEF LeavesRead, Out
<1> QED BY <1>3, <1>4

\* What a request asks first leaves the reads right ...
LEMMA FirstReads ==
  ASSUME FTInv, FTInv', ReadsRight, NEW w \in Workers, Free(w), Arrive(w)
  PROVE  ReadsRight' /\ Alone(w) /\ LeavesRead(w)
<1>1. LeavesRead(w)
  BY DEF LeavesRead, Free, Idle
<1>2. ASSUME ReadsApart(w) PROVE ReadsRight' /\ Alone(w)
  BY <1>2, QuietReads DEF ReadsApart, ReadsNothing, Alone
<1>3. CASE SweepFiles(w)
  BY <1>1, <1>2, <1>3, SweepReads
<1>4. ASSUME NEW id \in Ids, NEW name \in Names,
             \/ \E to \in Names \ {name}, bytes \in Lengths : SendOffer(w, id, name, to, bytes)
             \/ Accept(w, id, name)
             \/ Cancel(w, id, name)
             \/ \E grant \in 0 .. MaxGrants, a \in Addresses : StartUpload(w, id, name, grant, a)
             \/ \E grant \in 1 .. MaxGrants, a \in Addresses : PutFirst(w, id, name, grant, 1, a)
             \/ Finish(w, id, name)
      PROVE  ReadsRight' /\ Alone(w)
  BY <1>2, <1>4, ArriveReads
<1>5. ASSUME NEW id \in Ids, NEW name \in Names, NEW n, NEW length,
             PutPart(w, id, name, n, length) \/ ReadPart(w, id, name, n)
      PROVE  ReadsRight' /\ Alone(w)
  BY <1>2, <1>5, PutPartReads, ReadPartReads
<1>6. ASSUME NEW id \in Ids, NEW name \in Names, NEW n, Download(w, id, name, n)
      PROVE  ReadsRight' /\ Alone(w)
  <2>1. \E r : Then(w, r)
    BY <1>6 DEF Download
  <2> QED BY <1>6, <2>1, DownloadReads, ThenIs DEF Alone
<1> QED BY <1>1, <1>3, <1>4, <1>5, <1>6 DEF Arrive

\* ... and so does what it asks next.
LEMMA FurtherReads ==
  ASSUME FTInv, FTInv', ReadsRight, NEW w \in Workers, Continue(w)
  PROVE  ReadsRight' /\ Alone(w) /\ LeavesRead(w)
<1>1. ASSUME ReadsApart(w) PROVE ReadsRight' /\ Alone(w)
  BY <1>1, QuietReads DEF ReadsApart, ReadsNothing, Alone
<1>2. CASE \/ Deliver(w) \/ NotifyAccepted(w) \/ Clear(w) \/ CreateUpload(w) \/ AbortUpload(w)
           \/ PutPiece(w) \/ Unput(w) \/ UploadPart(w) \/ CompleteUpload(w) \/ Unmake(w)
  <2>1. worker[w].at \notin {"partRead", "stored", "passed"}
    BY <1>2 DEF Deliver, NotifyAccepted, Clear, CreateUpload, AbortUpload, PutPiece, Unput,
      UploadPart, CompleteUpload, Unmake, At
  <2> QED BY <1>1, <1>2, <2>1, StillReads DEF LeavesRead
<1>3. CASE \/ Withdraw(w) \/ RevertGrant(w) \/ StartFailed(w) \/ UploadStarted(w) \/ PutStarted(w)
           \/ PieceDone(w) \/ UploadPartDone(w)
  <2>1. worker[w].at \notin {"partRead", "stored", "passed"}
    BY <1>3 DEF Withdraw, RevertGrant, StartFailed, UploadStarted, PutStarted, PieceDone,
      UploadPartDone, At
  <2> QED BY <1>1, <1>3, <2>1, CallReads DEF LeavesRead
<1>4. CASE FileStored(w)
  BY <1>1, <1>4, CallReads, StoredWhenRead
<1>5. CASE FilePassed(w)
  <2>1. BeenRead(worker[w]) /\ worker[w].at = "passed"
    BY <1>5 DEF ReadsRight, FilePassed, At
  <2> QED BY <1>1, <1>5, <2>1, CallReads DEF LeavesRead, BeenRead
<1>6. CASE PassPart(w)
  <2>1. worker[w].at = "get" /\ \E r : Then(w, r)
    BY <1>6 DEF PassPart, At, Done
  <2> QED BY <1>6, <2>1, PassPartReads, ThenIs DEF Alone, LeavesRead
<1>7. CASE PassFile(w)
  <2>1. worker[w].at = "pass" /\ \E r : Then(w, r)
    BY <1>7 DEF PassFile, At, Done
  <2> QED BY <1>7, <2>1, PassFileReads, ThenIs DEF Alone, LeavesRead
<1>8. CASE PartWasRead(w)
  <2>1. worker[w].at = "partRead" /\ \E r : Then(w, r)
    BY <1>8 DEF PartWasRead, At
  <2> QED BY <1>8, <2>1, PartWasReadReads, ThenIs DEF Alone, LeavesRead
<1> QED BY <1>2, <1>3, <1>4, <1>5, <1>6, <1>7, <1>8 DEF Continue

\* No step takes a file for read that was not.
LEMMA NextReads ==
  ASSUME FTInv, FTInv', ReadsRight, [FTNext]_ftVars
  PROVE  /\ ReadsRight'
         /\ \A w \in Workers : worker'[w] # worker[w] => LeavesRead(w)
<1>1. CASE Time \/ UNCHANGED ftVars
  <2>1. UNCHANGED <<file, got, worker, sent>>
    BY <1>1 DEF Time, Tick, ftVars, vars, apps
  <2>2. ReadsRight'
    BY <2>1 DEF ReadsRight, ReadRight, BeenRead, Began, Out, Parts, Size
  <2> QED BY <2>1, <2>2
<1>2. ASSUME NEW w \in Workers, Die(w)
      PROVE  ReadsRight' /\ \A v \in Workers : worker'[v] # worker[v] => LeavesRead(v)
  <2>1. UNCHANGED <<file, got>> /\ Then(w, [Idle EXCEPT !.at = "dead"])
    BY <1>2 DEF Die, vars, apps
  <2>2. ReadsNothing(w)
    <3>1. [Idle EXCEPT !.at = "dead"].at \notin Reading
      BY DEF Idle, Reading
    <3> QED BY <2>1, <3>1, ThenIs DEF ReadsNothing
  <2>3. ReadsRight'
    BY <2>1, <2>2, NoReads, QuietReads
  <2> QED BY <2>1, <2>3 DEF LeavesRead, Out
<1>3. ASSUME NEW w \in Workers, (Free(w) /\ Arrive(w)) \/ Continue(w)
      PROVE  ReadsRight' /\ \A v \in Workers : worker'[v] # worker[v] => LeavesRead(v)
  <2>1. ReadsRight' /\ Alone(w) /\ LeavesRead(w)
    BY <1>3, FirstReads, FurtherReads
  <2> QED BY <2>1 DEF Alone
<1> QED BY <1>1, <1>2, <1>3 DEF FTNext, FTStep

\* What the ledger counts as read of a file that is there has been passed on to its
\* recipient, whichever of several reads of it end first.
THEOREM ReadsAreTrue == FTSpec => []ReadsRight
<1>1. FTInit => ReadsRight
  <2>1. SUFFICES ASSUME FTInit PROVE ReadsRight
    OBVIOUS
  <2>2. \A id \in Ids : file[id] = Blank
    BY <2>1 DEF FTInit, Init
  <2>3. \A w \in Workers : worker[w] = Idle
    BY <2>1 DEF FTInit
  <2> QED BY <2>2, <2>3 DEF ReadsRight, ReadRight, BeenRead, Blank, Out, Idle
<1>2. FTInv /\ FTInv' /\ ReadsRight /\ [FTNext]_ftVars => ReadsRight'
  BY NextReads
<1> QED BY <1>1, <1>2, TransferInvariant, PTL DEF FTSpec

\* A file that goes because it has been read has been read, every part to its end, whichever
\* of the last read, the upload's end and a whole download comes last.
THEOREM ReadBeforeItGoes == FTSpec => ReadBeforeGone
<1>1. FTInv /\ FTInv' /\ ReadsRight /\ [FTNext]_ftVars =>
        [\A w \in Workers, id \in Ids :
           /\ worker[w].id = id /\ worker[w].at \in {"partRead", "stored", "passed"}
           /\ worker'[w] # worker[w] /\ Out(id) /\ file'[id].state = "none"
           => Parts(file[id]) \subseteq got[id]]_ftVars
  <2>1. SUFFICES ASSUME FTInv, FTInv', ReadsRight, [FTNext]_ftVars
                 PROVE  \A w \in Workers, id \in Ids :
                          /\ worker[w].id = id /\ worker[w].at \in {"partRead", "stored", "passed"}
                          /\ worker'[w] # worker[w] /\ Out(id) /\ file'[id].state = "none"
                          => Parts(file[id]) \subseteq got[id]
    OBVIOUS
  <2>2. \A w \in Workers : worker'[w] # worker[w] => LeavesRead(w)
    BY <2>1, NextReads
  <2> QED BY <2>2 DEF LeavesRead
<1> QED BY <1>1, TransferInvariant, ReadsAreTrue, PTL DEF FTSpec, ReadBeforeGone
-----------------------------------------------------------------------------
(* The parts of a streamed file once it is stored *)

\* A streamed file that is stored has its parts in the bucket, but for what was put late; and
\* who is about to store one was told that every part of it is in.
AllIn(r) ==
  r.at = "stored" /\ Goes(r.id) /\ file[r.id].stream > 0 => Parts(file[r.id]) \subseteq file[r.id].parts

StoredWhole(x) ==
  file[x].state = "stored" /\ file[x].stream > 0 => {x} \X Parts(file[x]) \subseteq pieces \cup late

StreamsRight ==
  /\ late \subseteq Ids \X Nat
  /\ \A x \in Ids : StoredWhole(x)
  /\ \A w \in Workers : AllIn(worker[w])

\* What a step of the ledger, stored aside, leaves of a file that is stored or being uploaded.
Steady(x) ==
  /\ file'[x].state = "stored" =>
       /\ file[x].state = "stored"
       /\ file'[x].stream = file[x].stream /\ file'[x].bytes = file[x].bytes
  /\ Goes(x)' =>
       \/ file[x].state = "granted"
       \/ /\ Goes(x) /\ file[x].parts \subseteq file'[x].parts
          /\ file'[x].stream = file[x].stream /\ file'[x].bytes = file[x].bytes

AllSteady == \A x \in Ids : Steady(x)

\* A request that goes on to end no upload.
StoresNothing(w) ==
  worker'[w].at # "stored" /\ \A v \in Workers \ {w} : worker'[v] = worker[v]

\* What is in the bucket stays, but for what is not stored, or is late.
PiecesStay == \A p \in pieces : p \in pieces' \/ file[p[1]].state # "stored" \/ p \in late'

\* Nothing lapses into an upload.
LEMMA LapseSteady ==
  ASSUME FTInv, Lapses
  PROVE  AllSteady
<1> SUFFICES ASSUME NEW x \in Ids PROVE Steady(x)
  BY DEF AllSteady
<1>1. file[x] \in Record
  BY Asked
<1>2. CASE file'[x] = file[x]
  BY <1>2 DEF Steady, Goes
<1>3. CASE file'[x] = Blank
  BY <1>3 DEF Steady, Blank, Goes
<1>4. CASE file'[x] = Offered(file[x])
  <2>1. file'[x].state = "offered"
    BY <1>1, <1>4 DEF Offered, Record
  <2> QED BY <2>1 DEF Steady, Goes
<1> QED BY <1>2, <1>3, <1>4 DEF Lapses

\* One record changes.
LEMMA OneSteady ==
  ASSUME NEW id \in Ids, Steady(id), \A x \in Ids \ {id} : file'[x] = file[x]
  PROVE  AllSteady
BY DEF AllSteady, Steady, Goes

\* The records stay as they are.
LEMMA NoneSteady ==
  ASSUME file' = file
  PROVE  AllSteady
BY DEF AllSteady, Steady, Goes

\* An offer is no upload.
LEMMA OfferSteady ==
  ASSUME FTInv, NEW id \in Ids, NEW from, NEW to, NEW bytes, Offer(id, from, to, bytes)
  PROVE  AllSteady
<1>1. CASE OfferAnswer(id, from, bytes) # "ok"
  BY <1>1, OfferMoves, NoneSteady DEF FTInv
<1>2. CASE OfferAnswer(id, from, bytes) = "ok"
  <2>1. Becomes(id, [Blank EXCEPT !.state = "offered", !.from = from, !.to = to,
                                  !.bytes = bytes, !.expires = now + OfferTtl])
    BY <1>2, OfferMoves DEF FTInv
  <2>2. file'[id].state = "offered" /\ \A x \in Ids \ {id} : file'[x] = file[x]
    BY <2>1 DEF Becomes, Blank
  <2>3. Steady(id)
    BY <2>2 DEF Steady, Goes
  <2> QED BY <2>2, <2>3, OneSteady
<1> QED BY <1>1, <1>2

\* Nor is a grant.
LEMMA GrantSteady ==
  ASSUME FTInv, NEW id \in Ids, NEW name \in Names, Grant(id, name)
  PROVE  AllSteady
<1>1. CASE GrantAnswer(id, name) # "ok"
  BY <1>1, GrantMoves, LapseSteady DEF FTInv
<1>2. CASE GrantAnswer(id, name) = "ok"
  <2>1. /\ file[id] \in Record
        /\ Becomes(id, [file[id] EXCEPT !.state = "granted", !.grant = grants + 1,
                                        !.grantExpires = now + GrantTtl, !.day = Today])
    BY <1>2, GrantMoves, Asked DEF FTInv
  <2>2. file'[id].state = "granted" /\ \A x \in Ids \ {id} : file'[x] = file[x]
    BY <2>1 DEF Becomes, Record
  <2>3. Steady(id)
    BY <2>2 DEF Steady, Goes
  <2> QED BY <2>2, <2>3, OneSteady
<1> QED BY <1>1, <1>2

\* An upload begins with a grant.
LEMMA StartSteady ==
  ASSUME FTInv, NEW id \in Ids, NEW from, NEW grant, NEW a,
         Start(id, from, grant, a) \/ StartStream(id, from, grant, a)
  PROVE  AllSteady
<1>1. Lapses \/ \E stream : file[id].state = "granted" /\ Becomes(id, Uploading(file[id], stream))
  <2>1. CASE Start(id, from, grant, a)
    BY <2>1, StartMoves DEF FTInv
  <2>2. CASE StartStream(id, from, grant, a)
    BY <2>2, StartStreamMoves DEF FTInv
  <2> QED BY <2>1, <2>2
<1>2. ASSUME NEW stream, file[id].state = "granted", Becomes(id, Uploading(file[id], stream))
      PROVE  AllSteady
  <2>1. file'[id].state = "uploading" /\ \A x \in Ids \ {id} : file'[x] = file[x]
    BY <1>2, Asked DEF Becomes, Uploading, Record
  <2>2. Steady(id)
    BY <1>2, <2>1 DEF Steady
  <2> QED BY <2>1, <2>2, OneSteady
<1> QED BY <1>1, <1>2, LapseSteady

\* While it goes on its parts only grow: when its multipart upload is known ...
LEMMA StartedSteady ==
  ASSUME FTInv, NEW id \in Ids, NEW upload, Started(id, upload)
  PROVE  AllSteady
<1>1. CASE Goes(id)
  <2>1. Becomes(id, [file[id] EXCEPT !.upload = upload]) /\ file[id] \in Record
    BY <1>1, StartedMoves, Asked DEF FTInv, Goes
  <2>2. /\ file'[id].parts = file[id].parts /\ file'[id].stream = file[id].stream
        /\ file'[id].state = file[id].state /\ file'[id].bytes = file[id].bytes
        /\ \A x \in Ids \ {id} : file'[x] = file[x]
    BY <2>1 DEF Becomes, Record
  <2>3. Steady(id)
    BY <1>1, <2>2 DEF Steady, Goes
  <2> QED BY <2>2, <2>3, OneSteady
<1>2. CASE ~Goes(id)
  BY <1>2, StartedMoves, NoneSteady DEF FTInv, Goes
<1> QED BY <1>1, <1>2

\* ... when an attempt at a part is counted ...
LEMMA PartSteady ==
  ASSUME FTInv, NEW id \in Ids, NEW from, NEW n, NEW length, Part(id, from, n, length)
  PROVE  AllSteady
<1>0. \/ Lapses
      \/ Goes(id) /\ Becomes(id, [file[id] EXCEPT !.tries = @ + 1, !.touched = now])
  <2>1. Inv
    BY DEF FTInv
  <2>2. /\ grants' = grants
        /\ PartAnswer(id, from, n, length) = "ok" =>
             /\ Goes(id) /\ Open(file[id]) /\ n \in Parts(file[id])
             /\ Becomes(id, [file[id] EXCEPT !.tries = @ + 1, !.touched = now])
        /\ PartAnswer(id, from, n, length) # "ok" => Lapses /\ \A x \in Ids \ {id} : file'[x] = file[x]
        /\ PartAnswer(id, from, n, length) \in {"over", "failed"} => Goes(id) /\ file'[id] = Blank
        /\ PartAnswer(id, from, n, length) \in {"gone", "relay-full"} => file' = file
    BY <2>1, PartMoves
  <2> QED BY <2>2
<1>1. CASE Goes(id) /\ Becomes(id, [file[id] EXCEPT !.tries = @ + 1, !.touched = now])
  <2>1. /\ file'[id].parts = file[id].parts /\ file'[id].stream = file[id].stream
        /\ file'[id].state = file[id].state /\ file'[id].bytes = file[id].bytes
        /\ \A x \in Ids \ {id} : file'[x] = file[x]
    BY <1>1, Asked DEF Becomes, Record
  <2>2. Steady(id)
    BY <1>1, <2>1 DEF Steady, Goes
  <2> QED BY <2>1, <2>2, OneSteady
<1> QED BY <1>0, <1>1, LapseSteady

\* ... and when the part is counted as in.
LEMMA PartDoneSteady ==
  ASSUME FTInv, NEW id \in Ids, NEW n, PartDone(id, n)
  PROVE  AllSteady
<1>1. CASE Goes(id)
  <2>1. /\ Becomes(id, [file[id] EXCEPT !.parts = @ \cup {n}, !.touched = now])
        /\ file[id] \in Record
    BY <1>1, PartDoneMoves, Asked DEF FTInv
  <2>2. /\ file'[id].parts = file[id].parts \cup {n} /\ file'[id].stream = file[id].stream
        /\ file'[id].state = file[id].state /\ file'[id].bytes = file[id].bytes
        /\ \A x \in Ids \ {id} : file'[x] = file[x]
    BY <2>1 DEF Becomes, Record
  <2>3. Steady(id)
    BY <1>1, <2>2 DEF Steady, Goes
  <2> QED BY <2>2, <2>3, OneSteady
<1>2. CASE ~Goes(id)
  BY <1>2, PartDoneMoves, NoneSteady DEF FTInv
<1> QED BY <1>1, <1>2

\* To read a file that is stored changes nothing of what it is.
LEMMA PartReadSteady ==
  ASSUME FTInv, NEW id \in Ids, NEW n, PartRead(id, n)
  PROVE  AllSteady
<1>0. \/ Becomes(id, Blank) \/ file' = file
      \/ Becomes(id, [file[id] EXCEPT !.read = @ \cup {n}])
  BY PartReadMoves DEF FTInv
<1>1. CASE Becomes(id, Blank)
  BY <1>1, LapseSteady DEF Becomes, Lapses
<1>2. CASE Becomes(id, [file[id] EXCEPT !.read = @ \cup {n}])
  <2>1. /\ file'[id].parts = file[id].parts /\ file'[id].stream = file[id].stream
        /\ file'[id].state = file[id].state /\ file'[id].bytes = file[id].bytes
        /\ \A x \in Ids \ {id} : file'[x] = file[x]
    BY <1>2, Asked DEF Becomes, Record
  <2>2. Steady(id)
    BY <2>1 DEF Steady, Goes
  <2> QED BY <2>1, <2>2, OneSteady
<1> QED BY <1>0, <1>1, <1>2, NoneSteady

\* ... nor does the question whether it may be read.
LEMMA ReadSteady ==
  ASSUME FTInv, NEW id \in Ids, NEW answer, NEW cost, Read(id, answer, cost)
  PROVE  AllSteady
<1>1. Lapses
  BY ReadMoves DEF FTInv, Lapses, Becomes
<1> QED BY <1>1, LapseSteady

\* A step that stores nothing, of any request.
LEMMA StreamsStay ==
  ASSUME FTInv, StreamsRight, AllSteady, PiecesStay, late \subseteq late', late' \subseteq Ids \X Nat,
         \A v \in Workers : worker'[v] = worker[v] \/ AllIn(worker[v])'
  PROVE  StreamsRight'
<1>1. ASSUME NEW x \in Ids PROVE StoredWhole(x)'
  <2>1. SUFFICES ASSUME file'[x].state = "stored", file'[x].stream > 0
                 PROVE  {x} \X Parts(file'[x]) \subseteq pieces' \cup late'
    BY DEF StoredWhole
  <2>2. /\ file[x].state = "stored" /\ file[x].stream > 0
        /\ file'[x].stream = file[x].stream /\ file'[x].bytes = file[x].bytes
    BY <2>1 DEF AllSteady, Steady
  <2>3. Parts(file'[x]) = Parts(file[x])
    BY <2>2 DEF Parts, Size
  <2>4. {x} \X Parts(file[x]) \subseteq pieces \cup late
    BY <2>2 DEF StreamsRight, StoredWhole
  <2>5. ASSUME NEW p \in {x} \X Parts(file[x]) PROVE p \in pieces' \cup late'
    <3>1. p[1] = x /\ p \in pieces \cup late
      BY <2>4, <2>5
    <3> QED BY <2>2, <3>1 DEF PiecesStay
  <2> QED BY <2>3, <2>5
<1>2. ASSUME NEW v \in Workers, worker'[v] = worker[v] PROVE AllIn(worker[v])'
  <2>1. PICK s \in Requests : s = worker[v] /\ s = worker'[v] /\ Ready(s) /\ AllIn(s)
    BY <1>2, DoingFor, Doing DEF StreamsRight
  <2>2. SUFFICES ASSUME s.at = "stored", Goes(s.id)', file'[s.id].stream > 0
                 PROVE  Parts(file'[s.id]) \subseteq file'[s.id].parts
    BY <2>1 DEF AllIn
  <2>3. s.id \in Ids /\ Began(s.id)
    BY <2>1, <2>2 DEF Ready, UploadOf, FTInv, Typed
  <2>4. /\ Goes(s.id) /\ file[s.id].parts \subseteq file'[s.id].parts
        /\ file'[s.id].stream = file[s.id].stream /\ file'[s.id].bytes = file[s.id].bytes
    BY <2>2, <2>3 DEF AllSteady, Steady, Began
  <2>5. Parts(file'[s.id]) = Parts(file[s.id])
    BY <2>4 DEF Parts, Size
  <2>6. Parts(file[s.id]) \subseteq file[s.id].parts
    BY <2>1, <2>2, <2>4 DEF AllIn
  <2> QED BY <2>4, <2>5, <2>6
<1>3. \A v \in Workers : AllIn(worker[v])'
  BY <1>2
<1> QED BY <1>1, <1>3 DEF StreamsRight

\* Nobody who goes on to another step is about to store a file.
LEMMA StreamsQuiet ==
  ASSUME FTInv, StreamsRight, AllSteady, PiecesStay, late \subseteq late', late' \subseteq Ids \X Nat,
         NEW w \in Workers, StoresNothing(w)
  PROVE  StreamsRight'
<1>1. \A v \in Workers : worker'[v] = worker[v] \/ AllIn(worker[v])'
  BY DEF StoresNothing, AllIn
<1> QED BY <1>1, StreamsStay

\* Where a request goes that stores nothing.
LEMMA GoesElsewhere ==
  ASSUME FTInv, NEW w \in Workers
  PROVE  /\ Then(w, Idle) => StoresNothing(w)
         /\ \A S : Then(w, Clearing(S)) => StoresNothing(w)
         /\ \A x, at : at # "stored" /\ Then(w, Step(x, at)) => StoresNothing(w)
         /\ \A x, at, n : at # "stored" /\ Then(w, [Step(x, at) EXCEPT !.n = n]) => StoresNothing(w)
         /\ \A x, g : Then(w, [Step(x, "notify") EXCEPT !.grant = g]) => StoresNothing(w)
         /\ \A x, at, u : at # "stored" /\ Then(w, [Step(x, at) EXCEPT !.upload = u]) => StoresNothing(w)
         /\ \A x, at, n, u :
              at # "stored" /\ Then(w, [Step(x, at) EXCEPT !.n = n, !.upload = u]) => StoresNothing(w)
         /\ \A at : at # "stored" /\ Then(w, [worker[w] EXCEPT !.at = at]) => StoresNothing(w)
<1>1. \A r : Then(w, r) /\ r.at # "stored" => StoresNothing(w)
  BY ThenIs DEF StoresNothing
<1>2. Idle.at = "idle"
  BY DEF Idle
<1>3. \A S : Clearing(S).at # "stored"
  BY DEF Clearing, Idle
<1>4. \A x, at, n, u : /\ Step(x, at).at = at /\ [Step(x, at) EXCEPT !.n = n].at = at
                       /\ [Step(x, at) EXCEPT !.upload = u].at = at
                       /\ [Step(x, at) EXCEPT !.n = n, !.upload = u].at = at
  BY DEF Step, Idle
<1>5. \A x, g : [Step(x, "notify") EXCEPT !.grant = g].at = "notify"
  BY DEF Step, Idle
<1>6. \A at : [worker[w] EXCEPT !.at = at].at = at
  BY DoingFor DEF Requests
<1>7. Then(w, Idle) => StoresNothing(w)
  BY <1>1, <1>2
<1>8. ASSUME NEW S, Then(w, Clearing(S)) PROVE StoresNothing(w)
  BY <1>1, <1>3, <1>8
<1>9. ASSUME NEW x, NEW at, at # "stored", NEW n, NEW u
      PROVE  /\ Then(w, Step(x, at)) => StoresNothing(w)
             /\ Then(w, [Step(x, at) EXCEPT !.n = n]) => StoresNothing(w)
             /\ Then(w, [Step(x, at) EXCEPT !.upload = u]) => StoresNothing(w)
             /\ Then(w, [Step(x, at) EXCEPT !.n = n, !.upload = u]) => StoresNothing(w)
  <2>1. /\ Step(x, at).at # "stored" /\ [Step(x, at) EXCEPT !.n = n].at # "stored"
        /\ [Step(x, at) EXCEPT !.upload = u].at # "stored"
        /\ [Step(x, at) EXCEPT !.n = n, !.upload = u].at # "stored"
    BY <1>4, <1>9
  <2>2. Then(w, Step(x, at)) => StoresNothing(w)
    BY <1>1, <2>1
  <2>3. Then(w, [Step(x, at) EXCEPT !.n = n]) => StoresNothing(w)
    BY <1>1, <2>1
  <2>4. Then(w, [Step(x, at) EXCEPT !.upload = u]) => StoresNothing(w)
    BY <1>1, <2>1
  <2>5. Then(w, [Step(x, at) EXCEPT !.n = n, !.upload = u]) => StoresNothing(w)
    BY <1>1, <2>1
  <2> QED BY <2>2, <2>3, <2>4, <2>5
<1>10. ASSUME NEW x, NEW g, Then(w, [Step(x, "notify") EXCEPT !.grant = g]) PROVE StoresNothing(w)
  BY <1>1, <1>5, <1>10
<1>11. ASSUME NEW at, at # "stored", Then(w, [worker[w] EXCEPT !.at = at]) PROVE StoresNothing(w)
  BY <1>1, <1>6, <1>11
<1> QED BY <1>7, <1>8, <1>9, <1>10, <1>11

\* A step of a request that stores nothing, and takes no part out of the bucket.
StreamsApart(w) == AllSteady /\ pieces \subseteq pieces' /\ StoresNothing(w)

\* What a request asks first, but for the end of an upload, stores nothing.
LEMMA ArriveStreams ==
  ASSUME FTInv, NEW w \in Workers, NEW id \in Ids, NEW name \in Names,
         \/ \E to \in Names \ {name}, bytes \in Lengths : SendOffer(w, id, name, to, bytes)
         \/ Accept(w, id, name)
         \/ Cancel(w, id, name)
         \/ \E grant \in 0 .. MaxGrants, a \in Addresses : StartUpload(w, id, name, grant, a)
         \/ \E grant \in 1 .. MaxGrants, a \in Addresses : PutFirst(w, id, name, grant, 1, a)
  PROVE  StreamsApart(w)
<1>1. ASSUME NEW to \in Names \ {name}, NEW bytes \in Lengths, SendOffer(w, id, name, to, bytes)
      PROVE  StreamsApart(w)
  <2>1. AllSteady
    BY <1>1, OfferSteady DEF SendOffer
  <2>2. StoresNothing(w)
    <3>1. Then(w, Idle) \/ \E at \in {"deliver"} : Then(w, Step(id, at))
      BY <1>1 DEF SendOffer, Done
    <3> QED BY <3>1, GoesElsewhere
  <2> QED BY <1>1, <2>1, <2>2 DEF SendOffer, StreamsApart, bucket
<1>2. CASE Accept(w, id, name)
  <2>1. AllSteady
    BY <1>2, GrantSteady DEF Accept
  <2>2. StoresNothing(w)
    <3>1. Then(w, Idle) \/ \E g : Then(w, [Step(id, "notify") EXCEPT !.grant = g])
      BY <1>2 DEF Accept, Done
    <3> QED BY <3>1, GoesElsewhere
  <2> QED BY <1>2, <2>1, <2>2 DEF Accept, StreamsApart, bucket
<1>3. CASE Cancel(w, id, name)
  <2>1. AllSteady
    BY <1>3, RemoveMoves, LapseSteady DEF Cancel, FTInv
  <2>2. StoresNothing(w)
    <3>1. \E S : Then(w, Clearing(S))
      BY <1>3 DEF Cancel
    <3> QED BY <3>1, GoesElsewhere
  <2> QED BY <1>3, <2>1, <2>2 DEF Cancel, StreamsApart, bucket
<1>4. ASSUME NEW grant \in 0 .. MaxGrants, NEW a \in Addresses, StartUpload(w, id, name, grant, a)
      PROVE  StreamsApart(w)
  <2>1. AllSteady
    BY <1>4, StartSteady DEF StartUpload
  <2>2. StoresNothing(w)
    <3>1. Then(w, Idle) \/ \E at \in {"create"} : Then(w, Step(id, at))
      BY <1>4 DEF StartUpload, Done
    <3> QED BY <3>1, GoesElsewhere
  <2> QED BY <1>4, <2>1, <2>2 DEF StartUpload, StreamsApart, bucket
<1>5. ASSUME NEW grant \in 1 .. MaxGrants, NEW a \in Addresses, PutFirst(w, id, name, grant, 1, a)
      PROVE  StreamsApart(w)
  <2>1. AllSteady
    BY <1>5, StartSteady DEF PutFirst
  <2>2. StoresNothing(w)
    <3>1. Then(w, Idle) \/ \E at \in {"part"} : \E m : Then(w, [Step(id, at) EXCEPT !.n = m])
      BY <1>5 DEF PutFirst, Done
    <3> QED BY <3>1, GoesElsewhere
  <2> QED BY <1>5, <2>1, <2>2 DEF PutFirst, StreamsApart, bucket
<1> QED BY <1>1, <1>2, <1>3, <1>4, <1>5

\* Nor does what a part is answered ...
LEMMA AfterPartStreams ==
  ASSUME FTInv, NEW w \in Workers, NEW id, NEW from, NEW n, NEW length, AfterPart(w, id, from, n, length)
  PROVE  StoresNothing(w)
<1>1. \/ \E S : Then(w, Clearing(S))
      \/ \E at \in {"put", "uploadPart"} : \E m, u : Then(w, [Step(id, at) EXCEPT !.n = m, !.upload = u])
  BY DEF AfterPart
<1> QED BY <1>1, GoesElsewhere

\* ... a part that is put or read, a download ...
LEMMA PartStreams ==
  ASSUME FTInv, NEW w \in Workers, NEW id \in Ids, NEW name, NEW n, NEW length,
         PutPart(w, id, name, n, length) \/ ReadPart(w, id, name, n) \/ Download(w, id, name, n)
  PROVE  StreamsApart(w)
<1>1. CASE PutPart(w, id, name, n, length)
  BY <1>1, PartSteady, AfterPartStreams DEF PutPart, StreamsApart, bucket
<1>2. CASE ReadPart(w, id, name, n)
  <2>1. AllSteady
    BY <1>2, ReadSteady DEF ReadPart, PartReadable
  <2>2. StoresNothing(w)
    <3>1. \/ \E S : Then(w, Clearing(S))
          \/ \E at \in {"get"} : \E m : Then(w, [Step(id, at) EXCEPT !.n = m])
      BY <1>2 DEF ReadPart
    <3> QED BY <3>1, GoesElsewhere
  <2> QED BY <1>2, <2>1, <2>2 DEF ReadPart, StreamsApart, bucket
<1>3. CASE Download(w, id, name, n)
  <2>1. AllSteady
    BY <1>3, ReadSteady DEF Download, Readable
  <2>2. StoresNothing(w)
    <3>1. [Clearing({Removed(id)}) EXCEPT !.id = id, !.n = n, !.at = "pass"].at = "pass"
      BY DEF Clearing, Idle
    <3>2. \/ \E S : Then(w, Clearing(S))
          \/ Then(w, [Clearing({Removed(id)}) EXCEPT !.id = id, !.n = n, !.at = "pass"])
      BY <1>3 DEF Download
    <3> QED BY <3>1, <3>2, GoesElsewhere, ThenIs DEF StoresNothing
  <2> QED BY <1>3, <2>1, <2>2 DEF Download, StreamsApart, bucket
<1> QED BY <1>1, <1>2, <1>3

\* ... or the cron.
LEMMA SweepStreams ==
  ASSUME FTInv, NEW w \in Workers, SweepFiles(w)
  PROVE  StreamsApart(w)
<1>1. AllSteady
  BY SweepMoves, LapseSteady DEF SweepFiles, FTInv
<1>2. \E S : Then(w, Clearing(S))
  BY DEF SweepFiles
<1>3. StoresNothing(w)
  BY <1>2, GoesElsewhere
<1> QED BY <1>1, <1>3 DEF SweepFiles, StreamsApart, bucket

\* A file is finished that has every part in.
LEMMA FinishStreams ==
  ASSUME FTInv, NEW w \in Workers, NEW id \in Ids, NEW from, Finish(w, id, from)
  PROVE  /\ AllSteady /\ pieces' = pieces
         /\ \A v \in Workers : worker'[v] = worker[v] \/ AllIn(worker[v])'
<1>1. AllSteady /\ pieces' = pieces /\ file' = file
  BY NoneSteady DEF Finish, vars, bucket
<1>2. CASE FinishAnswer(id, from) # "ok"
  <2>1. StoresNothing(w)
    BY <1>2, GoesElsewhere DEF Finish, Done
  <2> QED BY <1>1, <2>1 DEF StoresNothing, AllIn
<1>3. CASE FinishAnswer(id, from) = "ok"
  <2>1. PICK r : r = [Step(id, IF file[id].stream > 0 THEN "stored" ELSE "complete")
                        EXCEPT !.upload = file[id].upload]
    OBVIOUS
  <2>2. r.id = id
    BY <2>1 DEF Step, Idle
  <2>3. worker'[w] = r /\ \A v \in Workers \ {w} : worker'[v] = worker[v]
    BY <1>3, <2>1, ThenIs DEF Finish
  <2>4. Parts(file[id]) \subseteq file[id].parts
    BY <1>3 DEF FinishAnswer
  <2>5. AllIn(worker[w])'
    <3>1. AllIn(r)'
      BY <1>1, <2>2, <2>4 DEF AllIn, Parts, Size
    <3> QED BY <2>3, <3>1 DEF AllIn, Goes
  <2> QED BY <1>1, <2>3, <2>5
<1> QED BY <1>2, <1>3

\* A file whose parts are put together is not a streamed one.
LEMMA CompleteStreams ==
  ASSUME FTInv, NEW w \in Workers, CompleteUpload(w)
  PROVE  /\ AllSteady /\ pieces' = pieces
         /\ \A v \in Workers : worker'[v] = worker[v] \/ AllIn(worker[v])'
<1>1. AllSteady /\ pieces' = pieces /\ file' = file
  BY NoneSteady DEF CompleteUpload, vars
<1>2. CASE Done(w)
  <2>1. StoresNothing(w)
    BY <1>2, GoesElsewhere DEF Done
  <2> QED BY <1>1, <2>1 DEF StoresNothing, AllIn
<1>3. CASE Then(w, [worker[w] EXCEPT !.at = "stored"])
  <2>1. PICK q \in Requests : q = worker[w] /\ Ready(q) /\ q.at = "complete" /\ q.id \in Ids
    BY Doing, DoingFor DEF CompleteUpload, At
  <2>2. Goes(q.id) => file[q.id].stream = 0
    <3>1. UploadOf(q.upload, q.id) /\ q.upload \in Uploads
      BY <2>1 DEF Ready, UploadOf, MadeFor
    <3>2. q.upload # NoUpload
      BY <3>1, LedgerAssumption DEF LedgerAssumption
    <3>3. FileRight(q.id)
      BY <2>1, Asked
    <3> QED BY <3>1, <3>2, <3>3 DEF UploadOf, FileRight
  <2>3. worker'[w].id = q.id /\ \A v \in Workers \ {w} : worker'[v] = worker[v]
    BY <1>3, <2>1, ThenIs DEF Requests
  <2>4. AllIn(worker[w])'
    BY <1>1, <2>2, <2>3 DEF AllIn, Goes
  <2> QED BY <1>1, <2>3, <2>4
<1> QED BY <1>2, <1>3 DEF CompleteUpload

\* Of the calls that a request goes on to, some change no record ...
LEMMA StillStreams ==
  ASSUME FTInv, NEW w \in Workers,
         \/ Deliver(w) \/ NotifyAccepted(w) \/ Clear(w) \/ CreateUpload(w) \/ AbortUpload(w)
         \/ PutPiece(w) \/ Unput(w) \/ UploadPart(w) \/ Unmake(w) \/ PassPart(w) \/ PassFile(w)
  PROVE  AllSteady /\ StoresNothing(w) /\ (Clear(w) \/ Unput(w) \/ pieces \subseteq pieces')
<1>1. file' = file
  <2>1. CASE Deliver(w) \/ NotifyAccepted(w) \/ Clear(w) \/ CreateUpload(w) \/ AbortUpload(w)
    BY <2>1 DEF Deliver, NotifyAccepted, Clear, CreateUpload, AbortUpload, vars
  <2>2. CASE \/ PutPiece(w) \/ Unput(w) \/ UploadPart(w) \/ Unmake(w) \/ PassPart(w) \/ PassFile(w)
    BY <2>2 DEF PutPiece, Unput, UploadPart, Unmake, PassPart, PassFile, vars
  <2> QED BY <2>1, <2>2
<1>2. Clear(w) \/ Unput(w) \/ pieces \subseteq pieces'
  <2>1. CASE Deliver(w) \/ NotifyAccepted(w) \/ CreateUpload(w) \/ AbortUpload(w)
    BY <2>1 DEF Deliver, NotifyAccepted, CreateUpload, AbortUpload, bucket
  <2>2. CASE PutPiece(w) \/ UploadPart(w) \/ Unmake(w) \/ PassPart(w) \/ PassFile(w)
    BY <2>2 DEF PutPiece, UploadPart, Unmake, PassPart, PassFile, bucket
  <2> QED BY <2>1, <2>2
<1>3. StoresNothing(w)
  <2>1. CASE Deliver(w) \/ CreateUpload(w) \/ AbortUpload(w) \/ Unput(w) \/ Unmake(w)
    <3>1. \/ Then(w, Idle)
          \/ \E x : \E at \in {"withdraw", "startFailed"} : Then(w, Step(x, at))
          \/ \E x, u : \E at \in {"started"} : Then(w, [Step(x, at) EXCEPT !.upload = u])
      BY <2>1 DEF Deliver, CreateUpload, AbortUpload, Unput, Unmake, Done
    <3> QED BY <3>1, GoesElsewhere
  <2>2. CASE NotifyAccepted(w) \/ PutPiece(w) \/ UploadPart(w) \/ PassPart(w)
    <3>1. \/ Then(w, Idle)
          \/ \E at \in {"revert", "putDone", "uploadPartDone", "partRead"} :
               Then(w, [worker[w] EXCEPT !.at = at])
      BY <2>2 DEF NotifyAccepted, PutPiece, UploadPart, PassPart, Done
    <3> QED BY <3>1, GoesElsewhere
  <2>3. CASE Clear(w)
    <3>1. \E S : Then(w, Clearing(S))
      BY <2>3 DEF Clear
    <3> QED BY <3>1, GoesElsewhere
  <2>4. CASE PassFile(w)
    <3>1. worker[w] \in Requests /\ worker[w].at = "pass"
      BY <2>4, DoingFor DEF PassFile, At
    <3>2. \/ Then(w, Idle)
          \/ \E x : \E at \in {"withdraw"} : Then(w, Step(x, at))
          \/ \E at \in {"passed"} : Then(w, [worker[w] EXCEPT !.at = at])
          \/ \E m : Then(w, [worker[w] EXCEPT !.n = m])
      BY <2>4 DEF PassFile, Done
    <3>3. \A m : [worker[w] EXCEPT !.n = m].at = "pass"
      BY <3>1 DEF Requests
    <3> QED BY <3>2, <3>3, GoesElsewhere, ThenIs DEF StoresNothing
  <2> QED BY <2>1, <2>2, <2>3, <2>4
<1> QED BY <1>1, <1>2, <1>3, NoneSteady

\* ... and the others are calls of the ledger.
LEMMA CallStreams ==
  ASSUME FTInv, NEW w \in Workers,
         \/ Withdraw(w) \/ RevertGrant(w) \/ StartFailed(w) \/ UploadStarted(w) \/ PutStarted(w)
         \/ PieceDone(w) \/ UploadPartDone(w) \/ PartWasRead(w) \/ FilePassed(w)
  PROVE  StreamsApart(w)
<1>1. Inv /\ worker[w] \in Requests
  BY DoingFor DEF FTInv
<1>2. CASE Withdraw(w) \/ StartFailed(w) \/ FilePassed(w)
  <2>1. Remove(worker[w].id, Nobody) /\ worker[w].id \in Ids /\ pieces' = pieces
    BY <1>2, DoingFor DEF Withdraw, StartFailed, FilePassed, At, bucket
  <2>2. AllSteady
    BY <1>1, <2>1, RemoveMoves, LapseSteady
  <2>3. Then(w, Idle) \/ \E S : Then(w, Clearing(S))
    BY <1>2 DEF Withdraw, StartFailed, FilePassed, Done
  <2> QED BY <2>1, <2>2, <2>3, GoesElsewhere DEF StreamsApart
<1>3. CASE RevertGrant(w)
  <2>1. Revert(worker[w].id, worker[w].grant) /\ worker[w].id \in Ids /\ pieces' = pieces
    BY <1>3, DoingFor DEF RevertGrant, At, bucket
  <2>2. AllSteady
    BY <1>1, <2>1, RevertMoves, LapseSteady
  <2>3. Then(w, Idle)
    BY <1>3 DEF RevertGrant, Done
  <2> QED BY <2>1, <2>2, <2>3, GoesElsewhere DEF StreamsApart
<1>4. CASE UploadStarted(w)
  <2>1. Started(worker[w].id, worker[w].upload) /\ worker[w].id \in Ids /\ pieces' = pieces
    BY <1>4, DoingFor DEF UploadStarted, At, bucket
  <2>2. AllSteady
    BY <2>1, StartedSteady
  <2>3. Then(w, Idle) \/ \E at \in {"abort"} : Then(w, [worker[w] EXCEPT !.at = at])
    BY <1>4 DEF UploadStarted, Done
  <2> QED BY <2>1, <2>2, <2>3, GoesElsewhere DEF StreamsApart
<1>5. CASE PutStarted(w)
  <2>1. /\ \E from, n, length : Part(worker[w].id, from, n, length)
        /\ \E id, from, n, length : AfterPart(w, id, from, n, length)
        /\ worker[w].id \in Ids /\ pieces' = pieces
    BY <1>5, DoingFor DEF PutStarted, At, bucket
  <2> QED BY <2>1, PartSteady, AfterPartStreams DEF StreamsApart
<1>6. CASE PieceDone(w) \/ UploadPartDone(w)
  <2>1. PartDone(worker[w].id, worker[w].n) /\ worker[w].id \in Ids /\ pieces' = pieces
    BY <1>6, DoingFor DEF PieceDone, UploadPartDone, At, bucket
  <2>2. AllSteady
    BY <2>1, PartDoneSteady
  <2>3. Then(w, Idle) \/ \E at \in {"unput"} : Then(w, [worker[w] EXCEPT !.at = at])
    BY <1>6 DEF PieceDone, UploadPartDone, Done
  <2> QED BY <2>1, <2>2, <2>3, GoesElsewhere DEF StreamsApart
<1>7. CASE PartWasRead(w)
  <2>1. PartRead(worker[w].id, worker[w].n) /\ worker[w].id \in Ids /\ pieces' = pieces
    BY <1>7, DoingFor DEF PartWasRead, At, bucket
  <2>2. AllSteady
    BY <2>1, PartReadSteady
  <2>3. \E S : Then(w, Clearing(S))
    BY <1>7 DEF PartWasRead
  <2> QED BY <2>1, <2>2, <2>3, GoesElsewhere DEF StreamsApart
<1> QED BY <1>2, <1>3, <1>4, <1>5, <1>6, <1>7

\* What is deleted of the bucket is of a file that is not stored, or came late.
LEMMA DeletedPieces ==
  ASSUME FTInv, NEW w \in Workers, Clear(w) \/ Unput(w), late' = late \cup Latecomers
  PROVE  PiecesStay
<1>1. PICK q \in Requests : q = worker[w] /\ Ready(q)
  BY Doing
<1>2. CASE Unput(w)
  <2>1. q.at = "unput" /\ pieces' = pieces \ {<<q.id, q.n>>}
    BY <1>1, <1>2 DEF Unput, At
  <2>2. file[q.id].state = "stored" => <<q.id, q.n>> \in late'
    BY <1>1, <2>1 DEF Latecomers, At
  <2> QED BY <2>1, <2>2 DEF PiecesStay
<1>3. CASE Clear(w)
  <2>1. PICK rec \in q.gone : pieces' \in {pieces, pieces \ PartKeys(rec)}
    BY <1>1, <1>3 DEF Clear, bucket
  <2>2. file[rec.id].state = "none"
    BY <1>1, <1>3, <2>1 DEF Clear, At, Ready, Gone
  <2>3. \A p \in PartKeys(rec) : p[1] = rec.id
    BY DEF PartKeys
  <2> QED BY <2>1, <2>2, <2>3 DEF PiecesStay
<1> QED BY <1>2, <1>3

\* stored: what was counted as in is there.
LEMMA StoredStreams ==
  ASSUME FTInv, StreamsRight, NEW w \in Workers, FileStored(w),
         late \subseteq late', late' \subseteq Ids \X Nat
  PROVE  StreamsRight'
<1>1. PICK q \in Requests : q = worker[w] /\ Ready(q) /\ AllIn(q) /\ q.at = "stored" /\ q.id \in Ids
  BY Doing, DoingFor DEF StreamsRight, FileStored, At
<1>2. Stored(q.id) /\ pieces' = pieces /\ Inv
  BY <1>1 DEF FileStored, bucket, FTInv
<1>3. StoresNothing(w) /\ PiecesStay
  <2>1. \/ Then(w, Idle) \/ \E S : Then(w, Clearing(S))
        \/ \E at \in {"unmake"} : Then(w, [worker[w] EXCEPT !.at = at])
    BY DEF FileStored, Done
  <2> QED BY <1>2, <2>1, GoesElsewhere DEF PiecesStay
<1>4. CASE StoredAnswer(q.id) # "stored"
  <2>1. Lapses
    BY <1>1, <1>2, <1>4, StoredMoves DEF Becomes, Lapses
  <2> QED BY <1>3, <2>1, LapseSteady, StreamsQuiet
<1>5. CASE StoredAnswer(q.id) = "stored"
  <2>1. /\ Goes(q.id) /\ file[q.id] \in Record /\ FileRight(q.id)
        /\ Becomes(q.id, [file[q.id] EXCEPT !.state = "stored", !.expires = now + StoredTtl,
                            !.upload = NoUpload, !.tries = 0,
                            !.parts = IF file[q.id].stream > 0 THEN @ ELSE {}])
    BY <1>1, <1>2, <1>5, StoredMoves, Asked
  <2>2. /\ file'[q.id].state = "stored" /\ file'[q.id].stream = file[q.id].stream
        /\ file'[q.id].bytes = file[q.id].bytes /\ \A x \in Ids \ {q.id} : file'[x] = file[x]
    BY <2>1 DEF Becomes, Record
  <2>3. ASSUME NEW x \in Ids PROVE StoredWhole(x)'
    <3>1. CASE x # q.id
      <4>1. StoredWhole(x) /\ file'[x] = file[x]
        BY <2>2, <3>1 DEF StreamsRight
      <4> QED BY <1>2, <4>1 DEF StoredWhole, Parts, Size
    <3>2. CASE x = q.id /\ file[x].stream > 0
      <4>1. Parts(file[x]) \subseteq file[x].parts /\ {x} \X file[x].parts \subseteq pieces
        BY <1>1, <2>1, <3>2 DEF AllIn, FileRight
      <4>2. Parts(file'[x]) = Parts(file[x])
        BY <2>2, <3>2 DEF Parts, Size
      <4> QED BY <1>2, <4>1, <4>2 DEF StoredWhole
    <3>3. CASE x = q.id /\ ~(file[x].stream > 0)
      BY <2>2, <3>3 DEF StoredWhole
    <3> QED BY <3>1, <3>2, <3>3
  <2>4. ASSUME NEW v \in Workers PROVE AllIn(worker[v])'
    <3>1. CASE v = w
      BY <1>3, <3>1 DEF StoresNothing, AllIn
    <3>2. CASE v # w
      <4>1. PICK s \in Requests : s = worker[v] /\ s = worker'[v] /\ Ready(s) /\ AllIn(s)
        BY <1>3, <3>2, DoingFor, Doing DEF StoresNothing, StreamsRight
      <4>2. SUFFICES ASSUME s.at = "stored", Goes(s.id)', file'[s.id].stream > 0
                     PROVE  Parts(file'[s.id]) \subseteq file'[s.id].parts
        BY <4>1 DEF AllIn
      <4>3. s.id \in Ids /\ s.id # q.id
        BY <2>2, <4>1, <4>2 DEF Ready, Goes, FTInv, Typed
      <4>4. file'[s.id] = file[s.id]
        BY <2>2, <4>3
      <4>5. Parts(file[s.id]) \subseteq file[s.id].parts
        BY <4>1, <4>2, <4>4 DEF AllIn, Goes
      <4> QED BY <4>4, <4>5 DEF Parts, Size
    <3> QED BY <3>1, <3>2
  <2> QED BY <2>3, <2>4 DEF StreamsRight
<1> QED BY <1>4, <1>5

\* No step leaves a streamed file short of a part that did not come late.
LEMMA NextStreams ==
  ASSUME FTInv, StreamsRight, [FTNext]_ftVars
  PROVE  StreamsRight'
<1>1. CASE UNCHANGED ftVars
  BY <1>1 DEF StreamsRight, StoredWhole, AllIn, Goes, Parts, Size, ftVars, vars, bucket
<1>2. CASE FTNext
  <2>1. FTStep /\ late' = late \cup Latecomers
    BY <1>2 DEF FTNext
  <2>2. late \subseteq late' /\ late' \subseteq Ids \X Nat
    <3>1. \A w \in Workers : At(w, "unput") => worker[w].id \in Ids /\ worker[w].n \in Nat
      BY DoingFor DEF At, Requests
    <3> QED BY <2>1, <3>1 DEF Latecomers, StreamsRight
  <2>3. ASSUME NEW w \in Workers, StreamsApart(w) PROVE StreamsRight'
    BY <2>2, <2>3, StreamsQuiet DEF StreamsApart, PiecesStay
  <2>4. CASE Time
    <3>1. UNCHANGED <<file, worker, pieces>>
      BY <2>4 DEF Time, Tick, bucket
    <3>2. AllSteady /\ PiecesStay
      BY <3>1, NoneSteady DEF PiecesStay
    <3> QED BY <2>2, <3>1, <3>2, StreamsStay
  <2>5. ASSUME NEW w \in Workers, Die(w) PROVE StreamsRight'
    <3>1. UNCHANGED <<file, pieces>> /\ Then(w, [Idle EXCEPT !.at = "dead"])
      BY <2>5 DEF Die, vars, bucket
    <3>2. [Idle EXCEPT !.at = "dead"].at = "dead"
      BY DEF Idle
    <3>3. StoresNothing(w) /\ AllSteady
      BY <3>1, <3>2, ThenIs, NoneSteady DEF StoresNothing
    <3> QED BY <2>3, <3>1, <3>3 DEF StreamsApart
  <2>6. ASSUME NEW w \in Workers, Arrive(w) PROVE StreamsRight'
    <3>1. CASE SweepFiles(w)
      BY <2>3, <3>1, SweepStreams
    <3>2. ASSUME NEW id \in Ids, NEW name \in Names,
                 \/ \E to \in Names \ {name}, bytes \in Lengths : SendOffer(w, id, name, to, bytes)
                 \/ Accept(w, id, name)
                 \/ Cancel(w, id, name)
                 \/ \E grant \in 0 .. MaxGrants, a \in Addresses : StartUpload(w, id, name, grant, a)
                 \/ \E grant \in 1 .. MaxGrants, a \in Addresses : PutFirst(w, id, name, grant, 1, a)
          PROVE  StreamsRight'
      BY <2>3, <3>2, ArriveStreams
    <3>3. ASSUME NEW id \in Ids, NEW name \in Names, NEW n, NEW length,
                 PutPart(w, id, name, n, length) \/ ReadPart(w, id, name, n) \/ Download(w, id, name, n)
          PROVE  StreamsRight'
      BY <2>3, <3>3, PartStreams
    <3>4. ASSUME NEW id \in Ids, NEW name \in Names, Finish(w, id, name) PROVE StreamsRight'
      <4>1. /\ AllSteady /\ pieces' = pieces
            /\ \A v \in Workers : worker'[v] = worker[v] \/ AllIn(worker[v])'
        BY <3>4, FinishStreams
      <4> QED BY <2>2, <4>1, StreamsStay DEF PiecesStay
    <3> QED BY <2>6, <3>1, <3>2, <3>3, <3>4 DEF Arrive
  <2>7. ASSUME NEW w \in Workers, Continue(w) PROVE StreamsRight'
    <3>1. CASE \/ Deliver(w) \/ NotifyAccepted(w) \/ Clear(w) \/ CreateUpload(w) \/ AbortUpload(w)
               \/ PutPiece(w) \/ Unput(w) \/ UploadPart(w) \/ Unmake(w) \/ PassPart(w) \/ PassFile(w)
      <4>1. AllSteady /\ StoresNothing(w) /\ (Clear(w) \/ Unput(w) \/ pieces \subseteq pieces')
        BY <3>1, StillStreams
      <4>2. PiecesStay
        BY <2>1, <4>1, DeletedPieces DEF PiecesStay
      <4> QED BY <2>2, <4>1, <4>2, StreamsQuiet
    <3>2. CASE \/ Withdraw(w) \/ RevertGrant(w) \/ StartFailed(w) \/ UploadStarted(w) \/ PutStarted(w)
               \/ PieceDone(w) \/ UploadPartDone(w) \/ PartWasRead(w) \/ FilePassed(w)
      BY <2>3, <3>2, CallStreams
    <3>3. CASE FileStored(w)
      BY <2>2, <3>3, StoredStreams
    <3>4. CASE CompleteUpload(w)
      <4>1. /\ AllSteady /\ pieces' = pieces
            /\ \A v \in Workers : worker'[v] = worker[v] \/ AllIn(worker[v])'
        BY <3>4, CompleteStreams
      <4> QED BY <2>2, <4>1, StreamsStay DEF PiecesStay
    <3> QED BY <2>7, <3>1, <3>2, <3>3, <3>4 DEF Continue
  <2> QED BY <2>1, <2>4, <2>5, <2>6, <2>7 DEF FTStep
<1> QED BY <1>1, <1>2

\* Each part of a streamed file that is stored is in the bucket, but for one put again whose
\* second copy came late: from the first step on.
THEOREM StreamsAreThere == FTSpec => []StreamsRight
<1>1. FTInit => StreamsRight
  <2>1. SUFFICES ASSUME FTInit PROVE StreamsRight
    OBVIOUS
  <2>2. \A id \in Ids : file[id] = Blank
    BY <2>1 DEF FTInit, Init
  <2>3. late = {} /\ \A w \in Workers : worker[w] = Idle
    BY <2>1 DEF FTInit
  <2> QED BY <2>2, <2>3 DEF StreamsRight, StoredWhole, AllIn, Blank, Idle
<1>2. FTInv /\ StreamsRight /\ [FTNext]_ftVars => StreamsRight'
  BY NextStreams
<1> QED BY <1>1, <1>2, TransferInvariant, PTL DEF FTSpec

\* The bucket has what the ledger says it has: a file stored, streamed or not, is there whole,
\* but for the parts that came late, a part counted of an upload is there, and what is there
\* was put for a file whose upload began.
THEOREM BucketAgreesThroughout == FTSpec => []BucketAgrees
<1>1. FTInv /\ StreamsRight => BucketAgrees
  <2>1. SUFFICES ASSUME FTInv, StreamsRight PROVE BucketAgrees
    OBVIOUS
  <2>2. FTTypeOK
    <3>1. \A p \in pieces : p[1] \in sent /\ p[2] \in 1 .. StreamPartsMax
      BY <2>1 DEF FTInv, BucketRight, Began, Piece
    <3>2. objects \subseteq sent /\ late \subseteq Ids \X Nat
      BY <2>1 DEF FTInv, BucketRight, Began, StreamsRight
    <3> QED BY <2>1, <3>1, <3>2 DEF FTTypeOK, FTInv, Typed, Inv, AllReady, Requests
  <2>3. StoredIsThere
    <3>1. SUFFICES ASSUME NEW id \in Ids, file[id].state = "stored"
                   PROVE  IF file[id].stream = 0 THEN id \in objects
                          ELSE {id} \X Parts(file[id]) \subseteq pieces \cup late
      BY DEF StoredIsThere
    <3>2. FileRight(id) /\ StoredWhole(id) /\ file[id].stream \in Nat
      BY <2>1, Asked DEF StreamsRight, Record
    <3> QED BY <3>1, <3>2 DEF FileRight, StoredWhole
  <2>4. CountedPartsAreIn
    <3>1. SUFFICES ASSUME NEW id \in Ids, Goes(id)
                   PROVE  IF file[id].stream > 0 THEN {id} \X file[id].parts \subseteq pieces
                          ELSE file[id].parts # {} =>
                                 file[id].parts \subseteq multi[file[id].upload].parts
      BY DEF CountedPartsAreIn, Goes
    <3>2. FileRight(id) /\ file[id].stream \in Nat
      BY <2>1, Asked DEF Record
    <3> QED BY <3>1, <3>2 DEF FileRight
  <2> QED BY <2>2, <2>3, <2>4 DEF BucketAgrees
<1> QED BY <1>1, TransferInvariant, StreamsAreThere, PTL
=============================================================================
