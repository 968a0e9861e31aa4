-------------------------- MODULE ReassemblerSpec --------------------------
(***************************************************************************)
(* A StreamReassembler between a peer that sends excerpts of a stream of   *)
(* StreamLen bytes (any excerpt, any order, any number of times, the end   *)
(* mark on every excerpt that reaches the end) and a reader.               *)
(***************************************************************************)
EXTENDS StreamReassembler

CONSTANT StreamLen   \* length of the peer's stream

ASSUME ReassemblerAssumption ==
  /\ Capacity \in Nat /\ Capacity > 0 /\ StreamLen \in Nat
  /\ NoEof \notin Nat /\ NoByte \notin Nat

VARIABLE r

Init == r = NewReassembler

Excerpt(first, len) == [i \in 1 .. len |-> first + i - 1]

Push(first, len) == r' = push_substring(r, Excerpt(first, len), first, first + len = StreamLen)

\* What TCPReceiver advertises: nothing beyond bytes_read + capacity, and one
\* byte when that window is closed (the sender's zero-window probe).
InWindow(first, len) ==
  first + len <= larger(r.out.popped + Capacity, r.out.written + 1)

ReceiveInWindow ==
  \E first \in 0 .. StreamLen : \E len \in 0 .. StreamLen - first :
    InWindow(first, len) /\ Push(first, len)

Read == \E n \in 1 .. Capacity : n <= buffer_size(r.out) /\ r' = [r EXCEPT !.out = read(@, n)]

Spec == Init /\ [][ReceiveInWindow \/ Read]_r

\* The environment resends what is missing and the reader keeps reading.
FairSpec == Spec /\ WF_r(Read)
                 /\ WF_r(\E len \in 1 .. StreamLen : InWindow(r.out.written, len)
                            /\ r.out.written + len <= StreamLen /\ Push(r.out.written, len))

-----------------------------------------------------------------------------

(***************************************************************************)
(* The intervals of UnAssembleBuffer are disjoint, do not touch, and lie   *)
(* strictly past the output and inside the ring.                           *)
(***************************************************************************)
IntervalsApart ==
  LET map == r.index_map IN
  /\ \A s \in DOMAIN map : map[s] > 0 /\ s > r.out.written /\ s + map[s] <= r.out.written + Capacity
  /\ \A s, t \in DOMAIN map : s < t => s + map[s] < t

(***************************************************************************)
(* The bookkeeping of UnAssembleBuffer: the intervals are in order, and    *)
(* used_size_ counts every stored byte once (unassembled_bytes, hh:75-76). *)
(***************************************************************************)
IntervalsOK == IntervalsApart /\ unassembled_bytes(r) = Cardinality(Held(r))

(***************************************************************************)
(* Every stored byte sits where the ring will look for it when its turn    *)
(* comes: slot start_pos + (index - bytes_written).                        *)
(***************************************************************************)
StoredInPlace ==
  \A k \in Held(r) : r.buffer[(r.start_pos + k - r.out.written) % Capacity] = k

(***************************************************************************)
(* The output is a prefix of the peer's stream: excerpts arriving out of   *)
(* order, twice or overlapping are put together without loss, repetition   *)
(* or exchange (hh:42-43).                                                 *)
(***************************************************************************)
OutputIsPrefix ==
  /\ Len(r.assembled) = r.out.written
  /\ \A i \in 1 .. Len(r.assembled) : r.assembled[i] = i - 1

Abstract == INSTANCE InOrderAssembly WITH
  seen <- 0 .. r.out.written - 1 \cup Held(r),
  popped <- r.out.popped, output <- r.out.written, ended <- r.out.ended

(***************************************************************************)
(* Ring, interval map and output together behave as the set of received    *)
(* indices: nothing received inside the window is forgotten, and whatever  *)
(* becomes contiguous is put out in the same call.  "This capacity limits  *)
(* both the bytes that have been reassembled, and those that have not yet  *)
(* been reassembled" (stream_reassembler.hh:53-54), and the output ends    *)
(* with the last byte of the stream (the eof parameter, hh:64).            *)
(***************************************************************************)
ImplementsAssembly == Abstract!Spec

(***************************************************************************)
(* Once the peer repeats what is missing and the reader reads, the whole   *)
(* stream comes out and ends.                                              *)
(***************************************************************************)
EventuallyEnds == <>(r.out.ended /\ r.out.popped = StreamLen)
=============================================================================
