----------------------------- MODULE LedgerCron -----------------------------
(***************************************************************************)
(* The ledger under the hourly cron that sweeps it (index.js `scheduled`):  *)
(* how long one acceptance can keep room in the bucket, all told.  The      *)
(* cron is taken to be on time: no more than an Hour between two sweeps.    *)
(***************************************************************************)
EXTENDS Ledger

\* a stored file is kept for a while (STORED_TTL_MS)
ASSUME CronAssumption == StoredTtl # 0

VARIABLES
  swept,   \* when the cron last swept
  since    \* when each file's room was last reserved (no variable of the source)

cronVars == <<vars, swept, since>>

CronInit == Init /\ swept = 0 /\ since = [id \in Ids |-> 0]

\* scheduled
Cron == Sweep /\ swept' = now

CronNext ==
  /\ \/ Cron
     \/ Tick /\ now < swept + Hour /\ UNCHANGED swept
     \/ (\E id \in Ids : Request(id)) /\ UNCHANGED swept
  \* a file that comes to hold room in this step has held it since now
  /\ since' = [id \in Ids |->
                 IF id \notin Held /\ file'[id].state \in Holding THEN now ELSE since[id]]

CronSpec == CronInit /\ [][CronNext]_cronVars

\* However its parts trickle in, its reads are retried or its stages follow each
\* other at the last moment, one acceptance never holds room for longer than the
\* stages' limits and the two sweeps that may have to find it: a grant unused, an
\* upload past UPLOAD_MAX_MS and a stored file all give their room back.
HeldNoLonger ==
  \A id \in Held : now < since[id] + GrantTtl + UploadMax + StoredTtl + 2 * Hour

\* An offer nobody accepted is gone by the sweep after it lapsed; one accepted
\* at the last moment, whose grant then ran out, by the sweep after that grant's.
OfferLapses ==
  \A id \in Ids : file[id].state = "offered" =>
    now < file[id].expires + GrantTtl + 2 * Hour
\* Every stage of a file ends: room is held, and an offer stands, for a bounded time.
StagesEnd == HeldNoLonger /\ OfferLapses
=============================================================================
