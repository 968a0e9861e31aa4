----------------------------- MODULE ByteStream -----------------------------
(***************************************************************************)
(* libsponge/byte_stream.{hh,cc}: the in-order byte stream kept in a ring  *)
(* buffer.  One action per public operation that changes state; the        *)
(* string that write takes, or that peek_output and read return, is passed.*)
(***************************************************************************)
EXTENDS Integers, Sequences

CONSTANTS
  Capacity,    \* buffer_.capacity()
  Byte,        \* the values of a byte
  Inputs,      \* the strings offered to write
  MaxWritten   \* bound on bytes_written_

ASSUME CapacityAssumption == Capacity \in Nat /\ Capacity > 0
ASSUME InputsAssumption == Inputs \subseteq Seq(Byte)
ASSUME BoundAssumption == MaxWritten \in Nat

VARIABLES buffer, used_size, start_pos, bytes_read, bytes_written,
          input_ended, error, passed

vars == <<buffer, used_size, start_pos, bytes_read, bytes_written,
          input_ended, error, passed>>

min(a, b) == IF a < b THEN a ELSE b

\* std::memcpy of n bytes: into the buffer at position `at`, from `data`
\* (0-based offset `from`), and out of the buffer.
copy_in(buf, at, data, from, n) ==
  [p \in DOMAIN buf |-> IF at <= p /\ p < at + n THEN data[from + (p - at) + 1]
                                                  ELSE buf[p]]

copy_out(buf, at, n) == [i \in 1 .. n |-> buf[at + i - 1]]

remaining_capacity == Capacity - used_size

end_pos == (start_pos + used_size) % Capacity

eof == used_size = 0 /\ input_ended

-----------------------------------------------------------------------------

\* A fresh vector<char> holds zeros; which value of Byte that is does not matter.
Init == /\ buffer \in {[p \in 0 .. Capacity - 1 |-> b] : b \in Byte}
        /\ used_size = 0 /\ start_pos = 0
        /\ bytes_read = 0 /\ bytes_written = 0
        /\ input_ended = FALSE /\ error = FALSE
        /\ passed = << >>

\* The buffer after the n bytes of data that fit were copied to end_pos, in one
\* piece or in two when they run past the end of the vector.
StoreUnsplit(data, n) == copy_in(buffer, end_pos, data, 0, n)

Store(data, n) ==
  LET copy1 == Capacity - end_pos
  IN  IF end_pos < start_pos \/ end_pos + n <= Capacity
      THEN copy_in(buffer, end_pos, data, 0, n)
      ELSE copy_in(copy_in(buffer, end_pos, data, 0, copy1), 0, data, copy1, n - copy1)

write(data) ==
  LET n == min(Len(data), remaining_capacity)
  IN  /\ bytes_written + n <= MaxWritten
      /\ buffer' = Store(data, n)
      /\ used_size' = used_size + n
      /\ bytes_written' = bytes_written + n
      /\ passed' = data
      /\ UNCHANGED <<start_pos, bytes_read, input_ended, error>>

\* The oldest n bytes, in one piece or in two.
Oldest(n) ==
  LET copy1 == Capacity - start_pos
  IN  IF start_pos + n <= Capacity
      THEN copy_out(buffer, start_pos, n)
      ELSE copy_out(buffer, start_pos, copy1) \o copy_out(buffer, 0, n - copy1)

peek_output(len) ==
  /\ passed' = Oldest(min(len, used_size))
  /\ UNCHANGED <<buffer, used_size, start_pos, bytes_read, bytes_written, input_ended, error>>

PopAdvancingByLen(len) ==
  LET n == min(len, used_size)
  IN  /\ start_pos' = (start_pos + len) % Capacity
      /\ used_size' = used_size - n
      /\ bytes_read' = bytes_read + n
      /\ UNCHANGED <<buffer, bytes_written, input_ended, error>>

\* What pop_output does to the fields of the stream.
Pop(len) ==
  LET n == min(len, used_size)
  IN  /\ start_pos' = (start_pos + n) % Capacity
      /\ used_size' = used_size - n
      /\ bytes_read' = bytes_read + n
      /\ UNCHANGED <<buffer, bytes_written, input_ended, error>>

pop_output(len) == Pop(len) /\ UNCHANGED passed

read(len) == passed' = Oldest(min(len, used_size)) /\ Pop(len)

end_input ==
  /\ input_ended' = TRUE
  /\ UNCHANGED <<buffer, used_size, start_pos, bytes_read, bytes_written, error, passed>>

set_error ==
  /\ error' = TRUE
  /\ UNCHANGED <<buffer, used_size, start_pos, bytes_read, bytes_written, input_ended, passed>>

\* The reader may ask for more than the stream holds.
Next == \/ \E data \in Inputs : write(data)
        \/ \E len \in 0 .. Capacity + 1 : peek_output(len) \/ pop_output(len) \/ read(len)
        \/ end_input \/ set_error

Spec == Init /\ [][Next]_vars

-----------------------------------------------------------------------------

(***************************************************************************)
(* The fields have their types, and the two counters account for every     *)
(* byte the ring holds: this is what write's assert (used_size_ <=         *)
(* capacity) relies on.                                                    *)
(***************************************************************************)
TypeOK == /\ buffer \in [0 .. Capacity - 1 -> Byte]
          /\ used_size \in 0 .. Capacity
          /\ start_pos \in 0 .. Capacity - 1
          /\ bytes_read \in Nat /\ bytes_written \in Nat
          /\ bytes_written = bytes_read + used_size
          /\ input_ended \in BOOLEAN /\ error \in BOOLEAN
          /\ passed \in Seq(Byte)

\* The bytes the ring holds, oldest first.
Contents == [i \in 1 .. used_size |-> buffer[(start_pos + i - 1) % Capacity]]

Fifo == INSTANCE BoundedFifo WITH queue <- Contents, ended <- input_ended,
          failed <- error, accepted <- bytes_written, popped <- bytes_read

(***************************************************************************)
(* The ring buffer implements a bounded FIFO queue: bytes come out once,   *)
(* in the order they went in, whichever way writes and reads straddle the  *)
(* end of the vector, and a write is told exactly how much was accepted.   *)
(* It says nothing of writes after end_input, which the code accepts       *)
(* (BoundedFifo!AcceptAfterEnd).                                           *)
(***************************************************************************)
ImplementsFifo == Fifo!Spec
=============================================================================
