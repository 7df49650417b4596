------------------------------ MODULE BodyReader ------------------------------
(***************************************************************************)
(* The body of one response on its way to the caller: the bridge from a    *)
(* stream of node (nodeDuplexToReadable), a decoder or none, and one of    *)
(* the readers: readRawBody of the client, or readBodyWithLimit and        *)
(* applySizeLimit in one of the three modes of limitAction.                *)
(*                                                                         *)
(* Bytes are counted, arrive and are read in chunks of any size; decoding  *)
(* keeps their number.  What they stand for, and backpressure, are left    *)
(* out.                                                                    *)
(***************************************************************************)
EXTENDS Naturals

CONSTANTS MaxBody, MaxBytes,   \* bodies, and the limit; 0 is none for readRawBody
          None

VARIABLES conf,      \* the reader, the mode, the decoder
          total,     \* length of the body the server means to send
          wire,      \* the stream of node: flowing, ended, failed, destroyed
          arrived,   \* bytes in the bridge
          passed,    \* bytes the decoder has let through
          out,       \* what the reader reads from: readable, closed, errored
          taken,     \* bytes the caller is given
          aborted,
          result     \* "done", or what the caller is thrown
bodyVars == <<conf, total, wire, arrived, passed, out, taken, aborted, result>>

Confs == [reader : {"raw", "buffer", "stream"}, mode : {"throw", "truncate", "abort"},
          decoder : {"none", "native", "zlib"}]

TypeOK ==
  /\ conf \in Confs /\ total \in 0..MaxBody
  /\ wire \in {"flowing", "ended", "failed", "destroyed"}
  /\ arrived \in 0..total /\ passed \in 0..arrived /\ taken \in 0..passed
  /\ out \in {"readable", "closed", "errored"} /\ aborted \in BOOLEAN
  /\ result \in {None, "done", "error", "limit", "aborted"}

\* readRawBody knows no other mode.
Init ==
  /\ conf \in {c \in Confs : c.reader = "raw" => c.mode = "throw"}
  /\ total \in 0..MaxBody /\ wire = "flowing" /\ out = "readable" /\ aborted = FALSE
  /\ arrived = 0 /\ passed = 0 /\ taken = 0 /\ result = None

----------------------------------------------------------------------------
(* The bridge.                                                             *)

Arrive(n) ==
  /\ wire = "flowing" /\ arrived + n <= total
  /\ arrived' = arrived + n
  /\ UNCHANGED <<conf, total, wire, passed, out, taken, aborted, result>>

\* "error", or "close" without an "end" before it.
WireFails == wire = "flowing" /\ wire' = "failed"
WireEnds  == wire = "flowing" /\ arrived = total /\ wire' = "ended"

Settle == /\ WireFails \/ WireEnds
          /\ UNCHANGED <<conf, total, arrived, passed, out, taken, aborted, result>>

\* reader.cancel(): through the decoder to the stream of node, unless it is over.
Cancelled == wire' = IF wire = "flowing" THEN "destroyed" ELSE wire

(* The decoder.  A stream that fails throws away what nobody has read.     *)

Decode(n) ==
  /\ out = "readable" /\ passed + n <= arrived
  /\ wire \in {"flowing", "ended"}
  /\ passed' = passed + n
  /\ UNCHANGED <<conf, total, wire, arrived, out, taken, aborted, result>>

\* A body without a byte is not given to the decoder; the one of the platform takes a
\* stream that fails before its first byte for one.
TakenForEmpty == conf.decoder = "native" /\ passed = 0

DecoderEnds ==
  /\ out = "readable"
  /\ CASE wire = "ended" -> passed = arrived /\ out' = "closed"
       [] wire = "failed" -> out' = IF TakenForEmpty THEN "closed" ELSE "errored"
       [] OTHER -> FALSE
  /\ UNCHANGED <<conf, total, wire, arrived, passed, taken, aborted, result>>

\* Text the decoder does not understand: the one of node goes on reading for nobody.
DecoderFails ==
  /\ out = "readable" /\ conf.decoder # "none" /\ arrived > 0 /\ wire # "destroyed"
  /\ out' = "errored"
  /\ IF conf.decoder = "native" THEN Cancelled ELSE UNCHANGED wire
  /\ UNCHANGED <<conf, total, arrived, passed, taken, aborted, result>>

(* The reader.                                                             *)

Ends(why) == result' = why

\* limitAction for a chunk that crosses the limit, and what its callers do: the reader that
\* collects does not cancel what it truncates.
Crossing ==
  CASE conf.mode = "throw"    -> Ends("limit") /\ Cancelled /\ UNCHANGED taken
    [] conf.mode = "abort"    -> Ends("done") /\ Cancelled /\ UNCHANGED taken
    [] conf.mode = "truncate" -> /\ Ends("done") /\ taken' = MaxBytes
                                 /\ IF conf.reader = "stream" THEN Cancelled ELSE UNCHANGED wire

Limited == ~(conf.reader = "raw" /\ MaxBytes = 0)

\* Fault: the limit is compared before the chunk is added.
CrossesLate(n) == Limited /\ taken > MaxBytes

Crosses(n) == Limited /\ taken + n > MaxBytes

ReadChunk(n) ==
  /\ result = None /\ ~aborted /\ out # "errored" /\ taken + n <= passed
  /\ IF Crosses(n) THEN Crossing ELSE taken' = taken + n /\ UNCHANGED <<wire, result>>
  /\ UNCHANGED <<conf, total, arrived, passed, out, aborted>>

ReadEnd ==
  /\ result = None /\ ~aborted
  /\ \/ out = "closed" /\ taken = passed /\ Ends("done")
     \/ out = "errored" /\ Ends("error")
  /\ UNCHANGED <<conf, total, wire, arrived, passed, out, taken, aborted>>

\* The signal settles a read that is pending; the reader then looks at it again, since
\* the read has come to its end like that of a whole body.
Abort ==
  /\ result = None
  /\ aborted' = TRUE /\ Ends("aborted") /\ Cancelled
  /\ UNCHANGED <<conf, total, arrived, passed, out, taken>>

Next ==
  \/ \E n \in 1..MaxBody : Arrive(n) \/ Decode(n) \/ ReadChunk(n)
  \/ Settle \/ DecoderEnds \/ DecoderFails \/ ReadEnd \/ Abort

Spec == Init /\ [][Next]_bodyVars

----------------------------------------------------------------------------
\* The caller never holds more than the limit, is thrown an error only if the body is longer
\* than it, and what it is given without one is the whole body or the part up to the limit,
\* except that a connection that ends before the first byte of a body to be decoded reads
\* as an empty one (core.ts 1769-1809, 2163-2218, response.ts 418-520, 715-780).
BodyWhole ==
  /\ Limited => taken <= MaxBytes
  /\ result = "limit" => total > MaxBytes
  /\ result = "done" =>
       \/ taken = total
       \/ conf.mode # "throw" /\ total > MaxBytes
       \/ TakenForEmpty /\ wire = "failed"

\* Whoever is done with a body has read it to its end or has cancelled its stream, except
\* the reader that truncates what it collects, and node's decoder after an error
\* (response.ts 487-516, 870-916, 1861-1878).
SourceReleased ==
  result # None =>
    \/ wire # "flowing"
    \/ out = "errored" /\ conf.decoder = "zlib"
    \/ conf.reader = "buffer" /\ conf.mode = "truncate"
=============================================================================
