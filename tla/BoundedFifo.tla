---------------------------- MODULE BoundedFifo ----------------------------
(***************************************************************************)
(* A ByteStream with the ring buffer left out: a queue of bytes with room  *)
(* for Capacity, a writer who is told how much was accepted, a reader who  *)
(* gets the oldest bytes first, and an end-of-input mark.  This is what    *)
(* libsponge/byte_stream.hh says of it, with one exception that has an     *)
(* action of its own, AcceptAfterEnd.                                      *)
(***************************************************************************)
EXTENDS Integers, Sequences

CONSTANTS
  Capacity,    \* room for this many bytes
  Inputs       \* the strings a writer may offer

VARIABLES
  queue,       \* the bytes accepted and not yet popped, oldest first
  ended,       \* the writer has ended the input
  failed,      \* the stream suffered an error
  accepted,    \* bytes accepted so far
  popped,      \* bytes popped so far
  passed       \* the string the last write, peek or read passed in or out

vars == <<queue, ended, failed, accepted, popped, passed>>

Smaller(a, b) == IF a < b THEN a ELSE b

Init == /\ queue = << >> /\ ended = FALSE /\ failed = FALSE
        /\ accepted = 0 /\ popped = 0 /\ passed = << >>

Enqueue(n, data) ==
  /\ n = Smaller(Len(data), Capacity - Len(queue))
  /\ queue' = queue \o SubSeq(data, 1, n)
  /\ accepted' = accepted + n
  /\ passed' = data
  /\ UNCHANGED <<ended, failed, popped>>

Accept(n, data) == ~ended /\ Enqueue(n, data)

\* "The writer can end the input, and then no more bytes can be written"
\* (byte_stream.hh:10-11), but write does not look at input_ended_: that no
\* bytes follow the end is left to the callers.
AcceptAfterEnd(n, data) == ended /\ Enqueue(n, data)

Peek(n) ==
  /\ n <= Len(queue)
  /\ passed' = SubSeq(queue, 1, n)
  /\ UNCHANGED <<queue, ended, failed, accepted, popped>>

Drop(n) ==
  /\ n <= Len(queue)
  /\ queue' = SubSeq(queue, n + 1, Len(queue))
  /\ popped' = popped + n
  /\ UNCHANGED <<ended, failed, accepted, passed>>

Take(n) ==
  /\ n <= Len(queue)
  /\ passed' = SubSeq(queue, 1, n)
  /\ queue' = SubSeq(queue, n + 1, Len(queue))
  /\ popped' = popped + n
  /\ UNCHANGED <<ended, failed, accepted>>

End == ended' = TRUE /\ UNCHANGED <<queue, failed, accepted, popped, passed>>

Fail == failed' = TRUE /\ UNCHANGED <<queue, ended, accepted, popped, passed>>

Next == \/ \E data \in Inputs : \E n \in 0 .. Capacity : Accept(n, data) \/ AcceptAfterEnd(n, data)
        \/ \E n \in 0 .. Capacity : Peek(n) \/ Drop(n) \/ Take(n)
        \/ End \/ Fail

Spec == Init /\ [][Next]_vars
=============================================================================
