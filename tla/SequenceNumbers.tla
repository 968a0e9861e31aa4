--------------------------- MODULE SequenceNumbers --------------------------
(***************************************************************************)
(* wrap and unwrap on every initial sequence number, absolute sequence     *)
(* number and checkpoint of a small width.  The walk reaches every triple, *)
(* each number moving by one as the counters of two endpoints do.          *)
(***************************************************************************)
EXTENDS WrappingIntegers

VARIABLES isn, seqno, checkpoint

vars == <<isn, seqno, checkpoint>>

TypeOK == isn \in WrappingInt32 /\ seqno \in UInt64 /\ checkpoint \in UInt64

Init == isn \in WrappingInt32 /\ seqno = 0 /\ checkpoint = 0

NextSeqno == seqno + 1 \in UInt64 /\ seqno' = seqno + 1 /\ UNCHANGED <<isn, checkpoint>>

NextCheckpoint ==
  /\ checkpoint + 1 \in UInt64
  /\ checkpoint' = checkpoint + 1
  /\ UNCHANGED <<isn, seqno>>

Next == NextSeqno \/ NextCheckpoint

Spec == Init /\ [][Next]_vars

Distance(a, b) == IF a > b THEN a - b ELSE b - a

(***************************************************************************)
(* A sequence number that is less than half a turn away from the           *)
(* checkpoint survives the trip through its 32-bit form                    *)
(* (tests/wrapping_integers_roundtrip.cc samples this).                    *)
(***************************************************************************)
RoundTrip ==
  2 * Distance(seqno, checkpoint) < Mod
    => unwrap(wrap(seqno, isn), isn, checkpoint) = seqno

(***************************************************************************)
(* "closest to `checkpoint`" (wrapping_integers.hh): of all absolute       *)
(* numbers with this 32-bit form, none is closer to the checkpoint than    *)
(* the result, and of two equally close ones the result is the lower.      *)
(* Stated for checkpoints at least one turn below 2^64: above that the     *)
(* sum in unwrap overflows uint64_t.                                       *)
(***************************************************************************)
ClosestToCheckpoint ==
  LET u == unwrap(wrap(seqno, isn), isn, checkpoint)
  IN  checkpoint + Mod <= AbsMod =>
        /\ wrap(u, isn) = wrap(seqno, isn)
        /\ \/ Distance(u, checkpoint) < Distance(seqno, checkpoint)
           \/ Distance(u, checkpoint) = Distance(seqno, checkpoint) /\ u <= seqno
=============================================================================
