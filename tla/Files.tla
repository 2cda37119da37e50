------------------------------- MODULE Files -------------------------------
(***************************************************************************)
(* The plain arithmetic of sending files (relay/src/files.js): how many     *)
(* parts an upload takes, how long each one must be, and how a streamed     *)
(* upload's part length is chosen.  Lengths are counted in an abstract unit *)
(* of bytes; the constants keep the relations the source's have.            *)
(***************************************************************************)
EXTENDS Integers

CONSTANTS
  PartBytes,       \* PART_BYTES: the part length of a multipart upload
  SealedChunk,     \* SEALED_CHUNK: one of the apps' sealed chunks
  StreamChunks,    \* STREAM_CHUNKS: the fewest chunks in a streamed part
  StreamPartsMax,  \* STREAM_PARTS_MAX: the most parts a streamed file takes
  Hour,            \* HOUR_MS, in ticks of the clock
  Day              \* DAY_MS

ASSUME FilesAssumption ==
  /\ PartBytes \in Nat \ {0}
  /\ SealedChunk \in Nat \ {0}
  /\ StreamChunks \in Nat \ {0}
  /\ StreamPartsMax \in Nat \ {0}
  /\ Hour \in Nat \ {0}
  /\ Day \in Nat \ {0}

AtLeast(a, b) == IF a >= b THEN a ELSE b
AtMost(a, b) == IF a <= b THEN a ELSE b

\* Math.ceil(a / b)
CeilDiv(a, b) == (a + b - 1) \div b

PartCount(bytes, size) == AtLeast(1, CeilDiv(bytes, size))

\* how long part n must be; 0 stands for the source's null (no such part)
PartLength(bytes, n, size) ==
  IF n < 1 \/ n > PartCount(bytes, size) THEN 0
  ELSE AtMost(size, bytes - (n - 1) * size)

StreamPartBytes(bytes) ==
  LET chunks == AtLeast(1, CeilDiv(bytes, SealedChunk))
  IN  SealedChunk * AtLeast(StreamChunks, CeilDiv(chunks, StreamPartsMax))

HourOf(t) == t \div Hour
DayOf(t)  == t \div Day
=============================================================================
