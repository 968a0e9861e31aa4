-------------------------- MODULE InOrderAssembly --------------------------
(***************************************************************************)
(* What libsponge/stream_reassembler.hh promises: the bytes received, as a *)
(* set of stream indices, kept while they lie within Capacity of the first *)
(* unread byte; the output is the longest contiguous run from index 0, and *)
(* it ends when the stream's last byte has been put out.                   *)
(***************************************************************************)
EXTENDS Integers

CONSTANTS Capacity, StreamLen

VARIABLES
  seen,      \* indices received and kept
  popped,    \* bytes the reader has consumed
  output,    \* length of the output so far
  ended      \* the output stream has ended

vars == <<seen, popped, output, ended>>

Init == seen = {} /\ popped = 0 /\ output = 0 /\ ended = FALSE

\* The first index not received.
Frontier(s) == CHOOSE k \in 0 .. StreamLen : k \notin s /\ 0 .. k - 1 \subseteq s

\* An excerpt arrives; one that reaches the end of the stream says so.
Receive(first, len) ==
  /\ seen' = seen \cup {k \in first .. first + len - 1 : k < popped + Capacity}
  /\ output' = Frontier(seen')
  /\ ended' = (output' = StreamLen)
  /\ UNCHANGED popped

Consume(n) ==
  /\ n <= output - popped
  /\ popped' = popped + n
  /\ UNCHANGED <<seen, output, ended>>

Next == \/ \E first \in 0 .. StreamLen : \E len \in 0 .. StreamLen - first : Receive(first, len)
        \/ \E n \in 0 .. Capacity : Consume(n)

Spec == Init /\ [][Next]_vars
=============================================================================
