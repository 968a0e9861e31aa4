------------------------------ MODULE Streams ------------------------------
(***************************************************************************)
(* The ByteStream as its users see it: a record of its counters and flags. *)
(* Module ByteStream shows that the ring buffer behind it hands the bytes  *)
(* out in the order they went in, so the k-th byte popped is the k-th byte *)
(* written and the users need the counts alone.  A byte is named by its    *)
(* index in the stream it was first written to.                            *)
(***************************************************************************)
EXTENDS Integers

smaller(a, b) == IF a < b THEN a ELSE b

larger(a, b) == IF a > b THEN a ELSE b

Stream == [written : Nat, popped : Nat, ended : BOOLEAN, failed : BOOLEAN]

NewStream == [written |-> 0, popped |-> 0, ended |-> FALSE, failed |-> FALSE]

buffer_size(st) == st.written - st.popped

remaining_capacity(st, capacity) == capacity - buffer_size(st)

eof(st) == buffer_size(st) = 0 /\ st.ended

\* write returns how many bytes it accepted; write leaves the stream.
accepted(st, n, capacity) == smaller(n, remaining_capacity(st, capacity))

write(st, n, capacity) == [st EXCEPT !.written = @ + accepted(st, n, capacity)]

read(st, n) == [st EXCEPT !.popped = @ + smaller(n, buffer_size(st))]

end_input(st) == [st EXCEPT !.ended = TRUE]

set_error(st) == [st EXCEPT !.failed = TRUE]
=============================================================================
