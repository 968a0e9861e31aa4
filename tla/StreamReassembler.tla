------------------------- MODULE StreamReassembler -------------------------
(***************************************************************************)
(* libsponge/stream_reassembler.{hh,cc}: UnAssembleBuffer, which keeps     *)
(* out-of-order bytes in a ring buffer and their intervals in an ordered   *)
(* map, and StreamReassembler, which feeds it substrings and writes what   *)
(* becomes contiguous to the output stream.                                *)
(*                                                                         *)
(* The operators take and return the record of all fields, so that         *)
(* TCPReceiver can hold one.  data is the sequence of the names of its     *)
(* bytes; assembled records the names written to output_.                  *)
(***************************************************************************)
EXTENDS Streams, Sequences, FiniteSets, FiniteSetsExt

CONSTANTS
  Capacity,   \* capacity_
  NoByte,     \* what a slot of the fresh ring buffer holds
  NoEof       \* eof_index_ is not set

NewReassembler ==
  [buffer |-> [p \in 0 .. Capacity - 1 |-> NoByte],
   index_map |-> << >>,          \* start of an interval -> its length
   used_size |-> 0, start_pos |-> 0,
   eof_index |-> NoEof, out |-> NewStream, assembled |-> << >>,
   asserted |-> TRUE]            \* no assert of push_substring has failed

CopyIgnoringEnd(r, pos, data) ==
  [p \in DOMAIN r.buffer |->
     IF pos <= p /\ p < pos + Len(data) THEN data[p - pos + 1] ELSE r.buffer[p]]

\* memcpy into the ring: one piece, or two when the data runs past its end.
ring_copy_in(r, pos, data) ==
  [p \in DOMAIN r.buffer |->
     IF pos <= p /\ p < pos + Len(data) THEN data[p - pos + 1]
     ELSE IF p < pos + Len(data) - Capacity THEN data[Capacity - pos + p + 1]
     ELSE r.buffer[p]]

ring_copy_out(r, n) == [i \in 1 .. n |-> r.buffer[(r.start_pos + i - 1) % Capacity]]

-----------------------------------------------------------------------------
(* MergeInterval: the intervals of the map that overlap or touch the new   *)
(* one are erased, and their union with it is inserted.  The loop of the   *)
(* source meets exactly these, because the map never holds two intervals   *)
(* that touch (module ReassemblerLoop compares the two).                   *)

Touching(map, index, size) ==
  {s \in DOMAIN map : index + size >= s /\ index <= s + map[s]}

TotalSize(map, intervals) == MapThenSumSet(LAMBDA s : map[s], intervals)

MergeOnlyOverlapping(r, index, size) ==
  LET map == r.index_map
      hit == {s \in DOMAIN map : index + size > s /\ index < s + map[s]}
      first == Min(hit \cup {index})
      last == Max({s + map[s] : s \in hit} \cup {index + size})
      kept == DOMAIN map \ hit
  IN  [r EXCEPT !.index_map = [s \in kept \cup {first} |->
                                 IF s = first THEN last - first ELSE map[s]],
                !.used_size = @ - TotalSize(map, hit) + (last - first)]

MergeCountingTwice(r, index, size) ==
  LET map == r.index_map
      hit == Touching(map, index, size)
      first == Min(hit \cup {index})
      last == Max({s + map[s] : s \in hit} \cup {index + size})
      kept == DOMAIN map \ hit
  IN  [r EXCEPT !.index_map = [s \in kept \cup {first} |->
                                 IF s = first THEN last - first ELSE map[s]],
                !.used_size = @ + size]

MergeInterval(r, index, size) ==
  LET map == r.index_map
      hit == Touching(map, index, size)
      first == Min(hit \cup {index})
      last == Max({s + map[s] : s \in hit} \cup {index + size})
      kept == DOMAIN map \ hit
  IN  [r EXCEPT !.index_map = [s \in kept \cup {first} |->
                                 IF s = first THEN last - first ELSE map[s]],
                !.used_size = @ - TotalSize(map, hit) + (last - first)]

StoreAndKeepStart(r, data, index) ==
  LET start_index == r.out.written
      stored == [r EXCEPT !.buffer =
                  ring_copy_in(r, (r.start_pos + index - start_index) % Capacity, data)]
      merged == MergeInterval(stored, index, Len(data))
      size == merged.index_map[start_index]
  IN  IF start_index \notin DOMAIN merged.index_map THEN merged
      ELSE [merged EXCEPT
             !.used_size = @ - size,
             !.index_map = [s \in DOMAIN @ \ {start_index} |-> @[s]],
             !.out = write(@, size, Capacity),
             !.assembled = @ \o SubSeq(ring_copy_out(merged, size), 1,
                                       accepted(r.out, size, Capacity))]

\* UnAssembleBuffer::push_substring with its result popped written to output_:
\* the ring gives up its first interval and moves past it, whether or not
\* output_ has room for all of it.
StoreAndPop(r, data, index) ==
  LET start_index == r.out.written
      stored == [r EXCEPT !.buffer =
                  ring_copy_in(r, (r.start_pos + index - start_index) % Capacity, data)]
      merged == MergeInterval(stored, index, Len(data))
      size == merged.index_map[start_index]
      taken == accepted(r.out, size, Capacity)
  IN  IF start_index \notin DOMAIN merged.index_map THEN merged
      ELSE [merged EXCEPT
             !.used_size = @ - size,
             !.index_map = [s \in DOMAIN @ \ {start_index} |-> @[s]],
             !.start_pos = (@ + size) % Capacity,
             !.out = write(@, size, Capacity),
             !.assembled = @ \o SubSeq(ring_copy_out(merged, size), 1, taken)]

\* The part of [index, index + Len(data)) that has not been written and fits.
Unwritten(r, data, index) == SubSeq(data, larger(index, r.out.written) - index + 1, Len(data))

FinishPastEof(r) ==
  IF r.eof_index # NoEof /\ r.out.written > r.eof_index THEN [r EXCEPT !.out = end_input(@)]
  ELSE r

FinishInput(r) ==
  IF r.eof_index # NoEof /\ r.out.written = r.eof_index THEN [r EXCEPT !.out = end_input(@)]
  ELSE r

\* StreamReassembler::push_substring.  max_len is a size_t: when the substring
\* starts more than capacity_ past the output, the subtraction wraps, nothing
\* is cut off, and the assert on the caller's contract fails.
push_substring(r, data, index, last) ==
  LET first == larger(index, r.out.written)
      fresh == Unwritten(r, data, index)
      max_len == Capacity - (first - r.out.written)
      sv == SubSeq(fresh, 1, smaller(Len(fresh), max_len))
      marked == IF last THEN [r EXCEPT !.eof_index = first + Len(sv)] ELSE r
  IN  IF index + Len(data) < r.out.written THEN r
      ELSE IF max_len < 0
      THEN IF fresh = << >> THEN FinishInput(IF last THEN [r EXCEPT !.eof_index = first] ELSE r)
           ELSE [r EXCEPT !.asserted = FALSE]
      ELSE FinishInput(IF sv # << >> THEN StoreAndPop(marked, sv, first) ELSE marked)

unassembled_bytes(r) == r.used_size

\* The indices held and not yet assembled.
Held(r) == UNION {s .. s + r.index_map[s] - 1 : s \in DOMAIN r.index_map}
=============================================================================
