---------------------------- MODULE FileTransfer ----------------------------
(***************************************************************************)
(* A file's way through the relay: the worker's handlers (relay/src/index.js *)
(* send, accept, start, part, finish, readPart, download, cancel, sweep),    *)
(* each a request that takes one step per call it awaits, against the        *)
(* ledger (Ledger.tla) and the r2 bucket.  Any number of requests run at     *)
(* once and their steps interleave; the apps ask again whenever they like,   *)
(* so a request may be repeated while an earlier copy of it is still on its  *)
(* way; and any request may die between two of its steps (Die).              *)
(***************************************************************************)
EXTENDS Ledger

CONSTANTS
  Workers,   \* the requests that can be on their way at once
  MaxDeaths  \* bound: of the requests that die half way

ASSUME TransferAssumption == MaxDeaths \in Nat

VARIABLES
  worker,   \* what each request is about to do next
  sent,     \* the ids of the offers the relay took: an app draws a new one for every file
  known,    \* the files whose recipient heard of the offer
  heard,    \* the grants each file's sender heard of
  got,      \* the parts of each file its recipient has read to the end
  objects,  \* r2: whole files, f/<id>
  pieces,   \* r2: streamed parts, f/<id>/<n>
  multi,    \* r2: the multipart uploads
  deaths,
  late      \* the streamed parts a request found stored when it had put one (no variable of the source)

bucket == <<objects, pieces, multi>>
apps   == <<sent, known, heard, got>>
ftVars == <<vars, worker, apps, bucket, deaths, late>>

-----------------------------------------------------------------------------
(* Requests *)

Idle == [at |-> "idle", id |-> Nobody, n |-> 0, grant |-> 0, upload |-> NoUpload, gone |-> {}]

\* what a removal hands back: all that clear needs of the record
Removed(id) ==
  [id |-> id, state |-> file[id].state, upload |-> file[id].upload,
   stream |-> file[id].stream, bytes |-> file[id].bytes]

Free(w) == worker[w] = Idle
At(w, step) == worker[w].at = step

Then(w, next) == worker' = [worker EXCEPT ![w] = next]
Done(w) == Then(w, Idle)
Step(id, step) == [Idle EXCEPT !.id = id, !.at = step]
\* what the ledger let go is still to be cleared out of the bucket
Clearing(S) == IF S = {} THEN Idle ELSE [Idle EXCEPT !.at = "clear", !.gone = S]

PartKeys(rec) == {rec.id} \X (1 .. PartCount(rec.bytes, rec.stream))

-----------------------------------------------------------------------------
(* Sending an offer, and answering one *)

\* an app offers an id again only when the relay refused it (share.rs waits out a too-many)
SendOffer(w, id, from, to, bytes) ==
  /\ Free(w) /\ id \notin sent
  /\ Offer(id, from, to, bytes)
  /\ IF OfferAnswer(id, from, bytes) = "ok"
     THEN sent' = sent \cup {id} /\ Then(w, Step(id, "deliver"))
     ELSE sent' = sent /\ Done(w)
  /\ UNCHANGED <<known, heard, got, bucket, deaths>>

\* its recipient's inbox hears the offer, or no one is there to hear it
Deliver(w) ==
  /\ At(w, "deliver")
  /\ \/ known' = known \cup {worker[w].id} /\ Done(w)
     \/ known' = known /\ Then(w, Step(worker[w].id, "withdraw"))
  /\ UNCHANGED <<vars, sent, heard, got, bucket, deaths>>

Withdraw(w) ==
  /\ At(w, "withdraw")
  /\ Remove(worker[w].id, Nobody)
  /\ Done(w)
  /\ UNCHANGED <<apps, bucket, deaths>>

Accept(w, id, name) ==
  /\ Free(w) /\ id \in known
  /\ Grant(id, name)
  /\ IF GrantAnswer(id, name) = "ok"
     THEN Then(w, [Step(id, "notify") EXCEPT !.grant = grants'])
     ELSE Done(w)
  /\ UNCHANGED <<apps, bucket, deaths>>

\* the sender's inbox hears of the grant, or the sender is offline
NotifyAccepted(w) ==
  LET id == worker[w].id IN
  /\ At(w, "notify")
  /\ \/ heard' = [heard EXCEPT ![id] = @ \cup {worker[w].grant}] /\ Done(w)
     \/ heard' = heard /\ Then(w, [worker[w] EXCEPT !.at = "revert"])
  /\ UNCHANGED <<vars, sent, known, got, bucket, deaths>>

RevertGrant(w) ==
  /\ At(w, "revert")
  /\ Revert(worker[w].id, worker[w].grant)
  /\ Done(w)
  /\ UNCHANGED <<apps, bucket, deaths>>

\* taken back by its sender or turned down by its recipient, at any point
Cancel(w, id, name) ==
  /\ Free(w) /\ id \in sent
  /\ Remove(id, name)
  /\ Then(w, Clearing(IF RemoveAnswer(id, name) = "removed" THEN {Removed(id)} ELSE {}))
  /\ UNCHANGED <<apps, bucket, deaths>>

\* clear(env, rec), for one of the records the ledger let go
Clear(w) ==
  \E rec \in worker[w].gone :
    /\ At(w, "clear")
    /\ Then(w, Clearing(worker[w].gone \ {rec}))
    /\ \/ /\ rec.stream > 0 /\ rec.state \in {"uploading", "stored"}
          /\ pieces' = pieces \ PartKeys(rec)
          /\ UNCHANGED <<objects, multi>>
       \/ /\ rec.stream = 0 /\ rec.state = "uploading" /\ rec.upload # NoUpload
          /\ multi' = [multi EXCEPT ![rec.upload].state = IF @ = "open" THEN "over" ELSE @]
          /\ UNCHANGED <<objects, pieces>>
       \/ /\ rec.stream = 0 /\ rec.state = "stored"
          /\ objects' = objects \ {rec.id}
          /\ UNCHANGED <<pieces, multi>>
       \/ /\ rec.stream = 0 /\ rec.upload = NoUpload /\ rec.state # "stored"
          /\ UNCHANGED bucket
    /\ UNCHANGED <<vars, apps, deaths>>

-----------------------------------------------------------------------------
(* Uploading *)

StartUpload(w, id, from, grant, a) ==
  /\ Free(w) /\ grant \in heard[id] \cup {0}
  /\ Start(id, from, grant, a)
  /\ IF StartAnswer(id, from, grant, a) = "ok" THEN Then(w, Step(id, "create")) ELSE Done(w)
  /\ UNCHANGED <<apps, bucket, deaths>>

\* createMultipartUpload, which r2 may fail
CreateUpload(w) ==
  LET id == worker[w].id IN
  /\ At(w, "create")
  /\ \/ \E u \in Uploads :
          /\ multi[u].state = "none"
          /\ multi' = [multi EXCEPT ![u] = [state |-> "open", id |-> id, parts |-> {}]]
          /\ Then(w, [Step(id, "started") EXCEPT !.upload = u])
     \/ multi' = multi /\ Then(w, Step(id, "startFailed"))
  /\ UNCHANGED <<vars, apps, objects, pieces, deaths>>

\* mutant: a failed start leaves the record as it is
StartGivenUp(w) ==
  At(w, "startFailed") /\ Done(w) /\ UNCHANGED <<vars, apps, bucket, deaths>>

StartFailed(w) ==
  LET id == worker[w].id IN
  /\ At(w, "startFailed")
  /\ Remove(id, Nobody)
  /\ Then(w, Clearing(IF Out(id) THEN {Removed(id)} ELSE {}))
  /\ UNCHANGED <<apps, bucket, deaths>>

\* mutant: what was made for a file meanwhile gone is not aborted
UploadKept(w) ==
  /\ At(w, "started")
  /\ Started(worker[w].id, worker[w].upload)
  /\ Done(w)
  /\ UNCHANGED <<apps, bucket, deaths>>

UploadStarted(w) ==
  LET id == worker[w].id IN
  /\ At(w, "started")
  /\ Started(id, worker[w].upload)
  /\ IF file[id].state = "uploading" THEN Done(w) ELSE Then(w, [worker[w] EXCEPT !.at = "abort"])
  /\ UNCHANGED <<apps, bucket, deaths>>

AbortUpload(w) ==
  /\ At(w, "abort")
  /\ multi' = [multi EXCEPT ![worker[w].upload].state = "over"]
  /\ Done(w)
  /\ UNCHANGED <<vars, apps, objects, pieces, deaths>>

\* what follows the ledger's answer to a part
AfterPart(w, id, from, n, length) ==
  LET answer == PartAnswer(id, from, n, length) IN
  Then(w, IF answer = "ok"
          THEN [Step(id, IF file[id].stream > 0 THEN "put" ELSE "uploadPart")
                  EXCEPT !.n = n, !.upload = file[id].upload]
          ELSE Clearing(IF answer \in {"over", "failed"} THEN {Removed(id)} ELSE {}))

\* a streamed upload's first part carries the grant and starts it
PutFirst(w, id, from, grant, n, a) ==
  /\ Free(w) /\ grant \in heard[id]
  /\ StartStream(id, from, grant, a)
  /\ IF StartStreamAnswer(id, from, grant, a) \in {"ok", "resume"}
     THEN Then(w, [Step(id, "part") EXCEPT !.n = n]) ELSE Done(w)
  /\ UNCHANGED <<apps, bucket, deaths>>

PutStarted(w) ==
  LET id == worker[w].id
      n  == worker[w].n
      length == PartLength(file[id].bytes, n, Size(file[id]))
  IN
  /\ At(w, "part")
  /\ Part(id, file[id].from, n, length)
  /\ AfterPart(w, id, file[id].from, n, length)
  /\ UNCHANGED <<apps, bucket, deaths>>

PutPart(w, id, from, n, length) ==
  /\ Free(w) /\ id \in sent
  /\ Part(id, from, n, length)
  /\ AfterPart(w, id, from, n, length)
  /\ UNCHANGED <<apps, bucket, deaths>>

\* r2 put, unless the body is cut short
PutPiece(w) ==
  /\ At(w, "put")
  /\ \/ pieces' = pieces \cup {<<worker[w].id, worker[w].n>>}
        /\ Then(w, [worker[w] EXCEPT !.at = "putDone"])
     \/ pieces' = pieces /\ Done(w)
  /\ UNCHANGED <<vars, apps, objects, multi, deaths>>

PieceDone(w) ==
  LET id == worker[w].id IN
  /\ At(w, "putDone")
  /\ PartDone(id, worker[w].n)
  /\ IF file[id].state = "uploading" THEN Done(w) ELSE Then(w, [worker[w] EXCEPT !.at = "unput"])
  /\ UNCHANGED <<apps, bucket, deaths>>

\* the ledger did not keep it: what was just put goes too
Unput(w) ==
  /\ At(w, "unput")
  /\ pieces' = pieces \ {<<worker[w].id, worker[w].n>>}
  /\ Done(w)
  /\ UNCHANGED <<vars, apps, objects, multi, deaths>>

\* uploadPart, which fails on an upload that is over or a body cut short
UploadPart(w) ==
  LET u == worker[w].upload IN
  /\ At(w, "uploadPart")
  /\ \/ /\ multi[u].state = "open"
        /\ multi' = [multi EXCEPT ![u].parts = @ \cup {worker[w].n}]
        /\ Then(w, [worker[w] EXCEPT !.at = "uploadPartDone"])
     \/ multi' = multi /\ Done(w)
  /\ UNCHANGED <<vars, apps, objects, pieces, deaths>>

UploadPartDone(w) ==
  /\ At(w, "uploadPartDone")
  /\ PartDone(worker[w].id, worker[w].n)
  /\ Done(w)
  /\ UNCHANGED <<apps, bucket, deaths>>

-----------------------------------------------------------------------------
(* Finishing *)

Finish(w, id, from) ==
  /\ Free(w) /\ id \in sent
  /\ IF FinishAnswer(id, from) = "ok"
     THEN Then(w, [Step(id, IF file[id].stream > 0 THEN "stored" ELSE "complete")
                     EXCEPT !.upload = file[id].upload])
     ELSE Done(w)
  /\ UNCHANGED <<vars, apps, bucket, deaths>>

\* complete, which r2 does once, of an upload that is still open
CompleteUpload(w) ==
  LET u == worker[w].upload IN
  /\ At(w, "complete")
  /\ \/ /\ multi[u].state = "open"
        /\ multi' = [multi EXCEPT ![u].state = "over"]
        /\ objects' = objects \cup {worker[w].id}
        /\ Then(w, [worker[w] EXCEPT !.at = "stored"])
     \/ UNCHANGED <<multi, objects>> /\ Done(w)
  /\ UNCHANGED <<vars, apps, pieces, deaths>>

FileStored(w) ==
  LET id == worker[w].id IN
  /\ At(w, "stored")
  /\ Stored(id)
  /\ \/ StoredAnswer(id) = "stored" /\ Done(w)
     \/ StoredAnswer(id) = "read" /\ Then(w, Clearing({Removed(id)}))
     \/ /\ StoredAnswer(id) = "none"
        /\ IF worker[w].upload = NoUpload THEN Done(w)
           ELSE Then(w, [worker[w] EXCEPT !.at = "unmake"])
  /\ UNCHANGED <<apps, bucket, deaths>>

\* taken back while its parts were put together: what was just made goes too
Unmake(w) ==
  /\ At(w, "unmake")
  /\ objects' = objects \ {worker[w].id}
  /\ Done(w)
  /\ UNCHANGED <<vars, apps, pieces, multi, deaths>>

-----------------------------------------------------------------------------
(* Reading *)

ReadPart(w, id, name, n) ==
  LET answer == PartReadableAnswer(id, name, n) IN
  /\ Free(w) /\ id \in known
  /\ PartReadable(id, name, n)
  /\ Then(w, IF answer = "ok" THEN [Step(id, "get") EXCEPT !.n = n]
             ELSE Clearing(IF answer = "expired" THEN {Removed(id)} ELSE {}))
  /\ UNCHANGED <<apps, bucket, deaths>>

\* the part's object is read through to its end, or the reader goes away half way
PassPart(w) ==
  LET id == worker[w].id
      n  == worker[w].n
  IN
  /\ At(w, "get")
  /\ \/ /\ <<id, n>> \in pieces
        /\ got' = [got EXCEPT ![id] = @ \cup {n}]
        /\ Then(w, [worker[w] EXCEPT !.at = "partRead"])
     \/ got' = got /\ Done(w)
  /\ UNCHANGED <<vars, sent, known, heard, bucket, deaths>>

PartWasRead(w) ==
  LET id == worker[w].id IN
  /\ At(w, "partRead")
  /\ PartRead(id, worker[w].n)
  /\ Then(w, Clearing(IF LastRead(id, worker[w].n) THEN {Removed(id)} ELSE {}))
  /\ UNCHANGED <<apps, bucket, deaths>>

\* a download as one file, streamed or not; from the parts its recipient has on, when an
\* earlier one stopped (a Range request)
Download(w, id, name, first) ==
  LET answer == ReadableAnswer(id, name) IN
  /\ Free(w) /\ id \in known
  /\ 1 .. first - 1 \subseteq got[id] /\ first \in Parts(file[id])
  /\ Readable(id, name)
  /\ Then(w, IF answer = "ok"
             THEN [Clearing({Removed(id)}) EXCEPT !.id = id, !.n = first, !.at = "pass"]
             ELSE Clearing(IF answer = "expired" THEN {Removed(id)} ELSE {}))
  /\ UNCHANGED <<apps, bucket, deaths>>

\* the file's object, or the next of its parts, is passed on; or it is not there or cut
\* short.  An object that is not there at all takes its record with it
PassFile(w) ==
  \E rec \in worker[w].gone :
    LET n == worker[w].n IN
    /\ At(w, "pass")
    /\ \/ /\ rec.stream = 0 /\ rec.id \in objects
          /\ got' = [got EXCEPT ![rec.id] = 1 .. PartCount(rec.bytes, PartBytes)]
          /\ Then(w, [worker[w] EXCEPT !.at = "passed"])
       \/ /\ rec.stream > 0 /\ <<rec.id, n>> \in pieces
          /\ got' = [got EXCEPT ![rec.id] = @ \cup {n}]
          /\ Then(w, IF n = PartCount(rec.bytes, rec.stream)
                     THEN [worker[w] EXCEPT !.at = "passed"] ELSE [worker[w] EXCEPT !.n = n + 1])
       \/ /\ rec.stream = 0 /\ rec.id \notin objects
          /\ got' = got /\ Then(w, Step(rec.id, "withdraw"))
       \/ got' = got /\ Done(w)
    /\ UNCHANGED <<vars, sent, known, heard, bucket, deaths>>

\* mutant: the object goes before the record does
FileGoesFirst(w) ==
  /\ At(w, "passed")
  /\ objects' = objects \ {worker[w].id}
  /\ Then(w, Step(worker[w].id, "withdraw"))
  /\ UNCHANGED <<vars, apps, pieces, multi, deaths>>

\* its last byte has been passed on: it goes
FilePassed(w) ==
  /\ At(w, "passed")
  /\ Remove(worker[w].id, Nobody)
  /\ Then(w, Clearing(IF Out(worker[w].id) /\ file[worker[w].id].stream > 0
                      THEN {Removed(worker[w].id)} ELSE worker[w].gone))
  /\ UNCHANGED <<apps, bucket, deaths>>

-----------------------------------------------------------------------------
(* The cron, the clock, and requests that die *)

SweepFiles(w) ==
  /\ Free(w)
  /\ Sweep
  /\ Then(w, Clearing({Removed(id) : id \in Swept}))
  /\ UNCHANGED <<apps, bucket, deaths>>

Time == Tick /\ UNCHANGED <<worker, apps, bucket, deaths>>

\* the worker is evicted, or the ledger or r2 cannot be reached, half way (bound: the request
\* is not replaced by another)
Die(w) ==
  /\ ~Free(w) /\ deaths < MaxDeaths /\ ~At(w, "dead")
  /\ deaths' = deaths + 1
  /\ Then(w, [Idle EXCEPT !.at = "dead"])
  /\ UNCHANGED <<vars, apps, bucket>>

FTInit ==
  /\ Init
  /\ worker = [w \in Workers |-> Idle]
  /\ sent = {} /\ known = {}
  /\ heard = [id \in Ids |-> {}] /\ got = [id \in Ids |-> {}]
  /\ objects = {} /\ pieces = {} /\ deaths = 0 /\ late = {}
  /\ multi = [u \in Uploads |-> [state |-> "none", id |-> Nobody, parts |-> {}]]

\* a request comes in: its first call is to the ledger
Arrive(w) ==
  \/ SweepFiles(w)
  \/ \E id \in Ids, name \in Names :
       \/ \E to \in Names \ {name}, bytes \in Lengths : SendOffer(w, id, name, to, bytes)
       \/ Accept(w, id, name)
       \/ Cancel(w, id, name)
       \/ \E grant \in 0 .. MaxGrants, a \in Addresses : StartUpload(w, id, name, grant, a)
       \/ \E grant \in 1 .. MaxGrants, a \in Addresses : PutFirst(w, id, name, grant, 1, a)
       \/ \E n \in Parts(file[id]) :
            \/ PutPart(w, id, name, n, PartLength(file[id].bytes, n, Size(file[id])))
            \/ ReadPart(w, id, name, n)
            \/ Download(w, id, name, n)
       \/ PutPart(w, id, name, 1, 0)
       \/ Finish(w, id, name)

\* a request on its way goes on to the next call it awaits
Continue(w) ==
  \/ Deliver(w) \/ Withdraw(w) \/ NotifyAccepted(w) \/ RevertGrant(w) \/ Clear(w)
  \/ CreateUpload(w) \/ StartFailed(w) \/ UploadStarted(w) \/ AbortUpload(w)
  \/ PutStarted(w) \/ PutPiece(w) \/ PieceDone(w) \/ Unput(w)
  \/ UploadPart(w) \/ UploadPartDone(w)
  \/ CompleteUpload(w) \/ FileStored(w) \/ Unmake(w)
  \/ PassPart(w) \/ PartWasRead(w) \/ PassFile(w) \/ FilePassed(w)

FTStep == Time \/ \E w \in Workers : (Free(w) /\ Arrive(w)) \/ Continue(w) \/ Die(w)

\* the parts put again, whose request the ledger told it has the file stored: they are deleted
Latecomers ==
  {<<worker[w].id, worker[w].n>> :
     w \in {v \in Workers : At(v, "unput") /\ file[worker[v].id].state = "stored"}}

FTNext == FTStep /\ late' = late \cup Latecomers

FTSpec == FTInit /\ [][FTNext]_ftVars

-----------------------------------------------------------------------------
(* Properties *)

\* Requests, the apps' knowledge and the bucket keep their shape: in particular no
\* file is ever in the bucket under an id nobody offered.
FTTypeOK ==
  /\ TypeOK
  /\ \A w \in Workers : worker[w].id \in Ids \cup {Nobody} /\ worker[w].n \in Nat
  /\ known \subseteq sent /\ sent \subseteq Ids /\ objects \subseteq sent
  /\ \A p \in pieces : p[1] \in sent /\ p[2] \in 1 .. StreamPartsMax
  /\ \A id \in Ids : heard[id] \subseteq 1 .. grants
  /\ deaths \in 0 .. MaxDeaths /\ late \subseteq Ids \X Nat

Quiet == \A w \in Workers : Free(w)

\* Once every request has run to its end, whatever the order their steps took, the
\* bucket holds nothing the ledger does not: each object, streamed part and open
\* upload belongs to a record that holds room for it.  (clear, the aborts of start,
\* and the deletions of part and finish undo what raced a removal.)
NothingLeftBehind ==
  Quiet /\ deaths = 0 =>
    /\ \A id \in objects : file[id].state = "stored" /\ file[id].stream = 0
    /\ \A p \in pieces : /\ file[p[1]].state \in {"uploading", "stored"}
                         /\ file[p[1]].stream > 0 /\ p[2] \in Parts(file[p[1]])
    /\ \A u \in Uploads : multi[u].state = "open" =>
         file[multi[u].id].state = "uploading" /\ file[multi[u].id].upload = u

\* Once every request has run to its end, an upload that the ledger says goes on can go
\* on: its multipart upload is known and open, so its sender never hears `busy` or
\* `failed` until the sweep (start gives the file up when r2 made no upload for it).
NeverStuck ==
  Quiet /\ deaths = 0 =>
    \A id \in Ids : file[id].state = "uploading" /\ file[id].stream = 0 =>
      file[id].upload # NoUpload /\ multi[file[id].upload].state = "open"

\* A file the ledger calls stored is in the bucket, whole, whoever else finishes, downloads
\* or cancels meanwhile: a file put together, and each part of a streamed one, read or not,
\* but for a part that was put twice and whose second copy ended when the file was stored
\* (part takes partDone's false for a file taken back and deletes what it put).
StoredIsThere ==
  \A id \in Ids : file[id].state = "stored" =>
    IF file[id].stream = 0 THEN id \in objects
    ELSE {id} \X Parts(file[id]) \subseteq pieces \cup late

\* index.js:357 of what part deletes: "taken back or turned down while it was on its way".
StreamIsThere ==
  \A id \in Ids : file[id].state = "stored" /\ file[id].stream > 0 =>
    {id} \X Parts(file[id]) \subseteq pieces

\* While an upload goes on, no part the ledger counts as in is lost from the bucket,
\* so a resumed upload never skips a part that is not there (start answers `done`).
CountedPartsAreIn ==
  \A id \in Ids : file[id].state = "uploading" =>
    IF file[id].stream > 0 THEN {id} \X file[id].parts \subseteq pieces
    ELSE file[id].parts # {} => file[id].parts \subseteq multi[file[id].upload].parts

\* A grant its sender heard of is theirs until they use it, it runs out or the file is
\* taken back: the late revert of another acceptance never takes it away (accept's
\* revert names its own grant).
GrantStands ==
  [][\A id \in Ids :
       /\ file[id].state = "granted" /\ file[id].grant \in heard[id]
       /\ file'[id].state = "offered"
       => file[id].grantExpires <= now]_ftVars

\* A file that goes because it has been read has been read, every part to its end:
\* whichever of the last read, the upload's end and a whole download comes last.
ReadBeforeGone ==
  [][\A w \in Workers, id \in Ids :
       /\ worker[w].id = id /\ worker[w].at \in {"partRead", "stored", "passed"}
       /\ worker'[w] # worker[w] /\ Out(id) /\ file'[id].state = "none"
       => Parts(file[id]) \subseteq got[id]]_ftVars

\* The bucket has what the ledger says it has, a file stored, streamed or not, or a part
\* counted, and nothing under an id nobody offered or past a streamed file's last part; also
\* after a death between any two calls.
BucketAgrees == FTTypeOK /\ StoredIsThere /\ CountedPartsAreIn
=============================================================================
