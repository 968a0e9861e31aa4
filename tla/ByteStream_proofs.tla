------------------------- MODULE ByteStream_proofs -------------------------
(***************************************************************************)
(* The ring buffer of ByteStream implements BoundedFifo, for every         *)
(* capacity and every sequence of operations.                              *)
(***************************************************************************)
EXTENDS ByteStream, TLAPS

\* A position less than two turns along the ring is reduced by at most one.
LEMMA RingPosition ==
  ASSUME NEW k \in Nat, k < 2 * Capacity
  PROVE  k % Capacity = IF k < Capacity THEN k ELSE k - Capacity
  BY CapacityAssumption

\* Reducing by the capacity gives a position of the ring.
LEMMA RingPositionInRange ==
  ASSUME NEW k \in Nat
  PROVE  k % Capacity \in 0 .. Capacity - 1
  BY CapacityAssumption

\* Both branches of write put the i-th byte on the ring position that follows
\* the ones in use, and leave every other position alone.
LEMMA StoreAt ==
  ASSUME TypeOK, NEW data, NEW n \in Nat, NEW end \in 0 .. Capacity - 1, end = end_pos,
         n <= Capacity, NEW p \in 0 .. Capacity - 1
  PROVE  /\ DOMAIN Store(data, n) = 0 .. Capacity - 1
         /\ end < start_pos \/ end + n <= Capacity =>
              Store(data, n)[p] = IF end <= p /\ p < end + n THEN data[p - end + 1] ELSE buffer[p]
         /\ ~(end < start_pos \/ end + n <= Capacity) =>
              Store(data, n)[p] = IF p < end + n - Capacity THEN data[Capacity - end + p + 1]
                                  ELSE IF end <= p THEN data[p - end + 1] ELSE buffer[p]
<1> DEFINE copy1 == Capacity - end
           once == copy_in(buffer, end, data, 0, n)
           first == copy_in(buffer, end, data, 0, copy1)
           twice == copy_in(first, 0, data, copy1, n - copy1)
<1>1. /\ DOMAIN buffer = 0 .. Capacity - 1
      /\ DOMAIN once = 0 .. Capacity - 1
      /\ DOMAIN first = 0 .. Capacity - 1
      /\ DOMAIN twice = 0 .. Capacity - 1
  BY DEF TypeOK, copy_in
<1>2. copy1 \in Nat /\ n - copy1 \in Int /\ end \in Nat /\ 0 \in Nat
  BY CapacityAssumption
<1>3. once[p] = IF end <= p /\ p < end + n THEN data[0 + (p - end) + 1] ELSE buffer[p]
  BY <1>1 DEF copy_in
<1>4. first[p] = IF end <= p /\ p < end + copy1 THEN data[0 + (p - end) + 1] ELSE buffer[p]
  BY <1>1 DEF copy_in
<1>5. twice[p] = IF 0 <= p /\ p < 0 + (n - copy1) THEN data[copy1 + (p - 0) + 1] ELSE first[p]
  BY <1>1 DEF copy_in
<1>6. Store(data, n) = IF end < start_pos \/ end + n <= Capacity THEN once ELSE twice
  BY DEF Store
<1> HIDE DEF once, first, twice
<1>7. 0 + (p - end) + 1 = p - end + 1 /\ copy1 + (p - 0) + 1 = Capacity - end + p + 1
      /\ end + copy1 = Capacity /\ 0 + (n - copy1) = end + n - Capacity
  BY CapacityAssumption
<1> QED BY <1>1, <1>3, <1>4, <1>5, <1>6, <1>7, CapacityAssumption

\* Where write puts the i-th accepted byte, and that the bytes already held
\* stay.
LEMMA StoreSlots ==
  ASSUME TypeOK, NEW data \in Seq(Byte), NEW n \in Nat,
         n <= Len(data), n <= remaining_capacity
  PROVE  /\ Store(data, n) \in [0 .. Capacity - 1 -> Byte]
         /\ \A i \in 1 .. n :
              Store(data, n)[(start_pos + used_size + i - 1) % Capacity] = data[i]
         /\ \A i \in 1 .. used_size :
              Store(data, n)[(start_pos + i - 1) % Capacity]
                = buffer[(start_pos + i - 1) % Capacity]
<1>1. PICK end \in 0 .. Capacity - 1 :
         /\ end = end_pos
         /\ end = IF start_pos + used_size < Capacity THEN start_pos + used_size
                  ELSE start_pos + used_size - Capacity
  BY RingPosition, CapacityAssumption DEF TypeOK, end_pos
<1>2. n <= Capacity - used_size /\ n <= Capacity
  BY CapacityAssumption DEF remaining_capacity, TypeOK
<1>3. \A p \in 0 .. Capacity - 1 :
         /\ end < start_pos \/ end + n <= Capacity =>
              Store(data, n)[p] = IF end <= p /\ p < end + n THEN data[p - end + 1] ELSE buffer[p]
         /\ ~(end < start_pos \/ end + n <= Capacity) =>
              Store(data, n)[p] = IF p < end + n - Capacity THEN data[Capacity - end + p + 1]
                                  ELSE IF end <= p THEN data[p - end + 1] ELSE buffer[p]
  BY <1>1, <1>2, StoreAt
<1>4. \A k \in 1 .. n : data[k] \in Byte
  OBVIOUS
<1>5. Store(data, n) \in [0 .. Capacity - 1 -> Byte]
  <2>1. ASSUME NEW p \in 0 .. Capacity - 1
        PROVE  Store(data, n)[p] \in Byte
    <3>1. buffer[p] \in Byte
      BY DEF TypeOK
    <3>2. CASE end < start_pos \/ end + n <= Capacity
      <4>1. end <= p /\ p < end + n => p - end + 1 \in 1 .. n
        BY <1>1, CapacityAssumption
      <4> QED BY <3>1, <3>2, <4>1, <1>3, <1>4
    <3>3. CASE ~(end < start_pos \/ end + n <= Capacity)
      <4>1. /\ p < end + n - Capacity => Capacity - end + p + 1 \in 1 .. n
            /\ ~(p < end + n - Capacity) /\ end <= p => p - end + 1 \in 1 .. n
        BY <1>1, <1>2, <3>3, CapacityAssumption DEF TypeOK
      <4> QED BY <3>1, <3>3, <4>1, <1>3, <1>4
    <3> QED BY <3>2, <3>3
  <2>2. Store(data, n) = [p \in 0 .. Capacity - 1 |-> Store(data, n)[p]]
    BY <1>1 DEF Store, copy_in, TypeOK
  <2> QED BY <2>1, <2>2
<1>6. ASSUME NEW i \in 1 .. n
      PROVE  Store(data, n)[(start_pos + used_size + i - 1) % Capacity] = data[i]
  <2>1. PICK p \in 0 .. Capacity - 1 :
          /\ p = (start_pos + used_size + i - 1) % Capacity
          /\ p = IF start_pos + used_size + i - 1 < Capacity THEN start_pos + used_size + i - 1
                 ELSE start_pos + used_size + i - 1 - Capacity
    BY <1>2, RingPosition, CapacityAssumption DEF TypeOK
  <2>2. p = IF end + i - 1 < Capacity THEN end + i - 1 ELSE end + i - 1 - Capacity
    BY <2>1, <1>1, <1>2, CapacityAssumption DEF TypeOK
  <2>3. CASE end < start_pos \/ end + n <= Capacity
    <3>1. end <= p /\ p < end + n /\ p - end + 1 = i
      BY <2>2, <2>3, <1>1, <1>2, CapacityAssumption DEF TypeOK
    <3> QED BY <2>1, <2>3, <3>1, <1>3
  <2>4. CASE ~(end < start_pos \/ end + n <= Capacity)
    <3>1. CASE end + i - 1 < Capacity
      <4>1. end <= p /\ ~(p < end + n - Capacity) /\ p - end + 1 = i
        BY <2>2, <2>4, <3>1, <1>1, <1>2, CapacityAssumption DEF TypeOK
      <4> QED BY <2>1, <2>4, <4>1, <1>3
    <3>2. CASE ~(end + i - 1 < Capacity)
      <4>1. p < end + n - Capacity /\ Capacity - end + p + 1 = i
        BY <2>2, <2>4, <3>2, <1>1, <1>2, CapacityAssumption DEF TypeOK
      <4> QED BY <2>1, <2>4, <4>1, <1>3
    <3> QED BY <3>1, <3>2
  <2> QED BY <2>3, <2>4
<1>7. ASSUME NEW i \in 1 .. used_size
      PROVE  Store(data, n)[(start_pos + i - 1) % Capacity] = buffer[(start_pos + i - 1) % Capacity]
  <2>1. PICK p \in 0 .. Capacity - 1 :
          /\ p = (start_pos + i - 1) % Capacity
          /\ p = IF start_pos + i - 1 < Capacity THEN start_pos + i - 1
                 ELSE start_pos + i - 1 - Capacity
    BY RingPosition, CapacityAssumption DEF TypeOK
  <2>2. Store(data, n)[p] = buffer[p]
    BY <2>1, <1>1, <1>2, <1>3, CapacityAssumption DEF TypeOK
  <2> QED BY <2>1, <2>2
<1> QED BY <1>5, <1>6, <1>7

\* The contents of the ring are a string of used_size_ bytes.
LEMMA ContentsIsSeq ==
  ASSUME TypeOK
  PROVE  Contents \in Seq(Byte) /\ Len(Contents) = used_size
<1>1. \A i \in 1 .. used_size : buffer[(start_pos + i - 1) % Capacity] \in Byte
  BY RingPositionInRange, CapacityAssumption DEF TypeOK
<1> QED BY <1>1 DEF Contents, TypeOK

\* peek_output hands out the oldest bytes of the ring, in order.
LEMMA OldestIsPrefix ==
  ASSUME TypeOK, NEW n \in Nat, n <= used_size
  PROVE  /\ Oldest(n) = SubSeq(Contents, 1, n)
         /\ Oldest(n) \in Seq(Byte)
<1>1. \A i \in 1 .. n : (start_pos + i - 1) % Capacity
                        = IF start_pos + i - 1 < Capacity THEN start_pos + i - 1
                          ELSE start_pos + i - 1 - Capacity
  BY RingPosition, CapacityAssumption DEF TypeOK
<1>2. PICK copy1 \in Nat : copy1 = Capacity - start_pos
  BY CapacityAssumption DEF TypeOK
<1>3. Oldest(n) = [i \in 1 .. n |-> buffer[(start_pos + i - 1) % Capacity]]
  <2>1. CASE start_pos + n <= Capacity
    BY <2>1, <1>1, CapacityAssumption DEF Oldest, copy_out, TypeOK
  <2>2. CASE start_pos + n > Capacity
    <3> DEFINE one == [i \in 1 .. copy1 |-> buffer[start_pos + i - 1]]
               two == [i \in 1 .. n - copy1 |-> buffer[0 + i - 1]]
    <3>1. Oldest(n) = one \o two
      <4>1. ~(start_pos + n <= Capacity)
        BY <2>2, CapacityAssumption DEF TypeOK
      <4> QED BY <4>1, <1>2 DEF Oldest, copy_out
    <3>2. one \in Seq(Byte) /\ two \in Seq(Byte) /\ Len(one) = copy1 /\ Len(two) = n - copy1
      BY <2>2, <1>2, CapacityAssumption DEF TypeOK
    <3> HIDE DEF one, two
    <3>3. one \o two \in Seq(Byte) /\ Len(one \o two) = n
      BY <3>2, <1>2
    <3> USE DEF one, two
    <3>4. \A i \in 1 .. n : (one \o two)[i] = buffer[(start_pos + i - 1) % Capacity]
      BY <3>2, <1>1, <1>2, CapacityAssumption DEF TypeOK
    <3> HIDE DEF one, two
    <3>5. ASSUME NEW s \in Seq(Byte), Len(s) = n
          PROVE  s = [i \in 1 .. n |-> s[i]]
      BY <3>5
    <3>6. one \o two = [i \in 1 .. n |-> (one \o two)[i]]
      BY <3>3, <3>5
    <3> QED BY <3>1, <3>4, <3>6
  <2> QED BY <2>1, <2>2, CapacityAssumption DEF TypeOK
<1>4. SubSeq(Contents, 1, n) = [i \in 1 .. n |-> buffer[(start_pos + i - 1) % Capacity]]
  <2>1. Contents \in Seq(Byte) /\ Len(Contents) = used_size
    BY ContentsIsSeq
  <2>2. SubSeq(Contents, 1, n) = [i \in 1 .. n |-> Contents[i]]
    BY <2>1 DEF TypeOK
  <2>3. \A i \in 1 .. n : Contents[i] = buffer[(start_pos + i - 1) % Capacity]
    BY DEF Contents, TypeOK
  <2> QED BY <2>2, <2>3
<1>5. Oldest(n) \in Seq(Byte)
  BY <1>1, <1>3, CapacityAssumption DEF TypeOK
<1> QED BY <1>3, <1>4, <1>5

\* pop_output removes the oldest bytes and keeps the order of the others.
LEMMA PopKeepsRest ==
  ASSUME TypeOK, NEW n \in Nat, n <= used_size,
         start_pos' = (start_pos + n) % Capacity, used_size' = used_size - n, buffer' = buffer
  PROVE  /\ Contents' = SubSeq(Contents, n + 1, Len(Contents))
         /\ start_pos' \in 0 .. Capacity - 1
<1>1. start_pos' = IF start_pos + n < Capacity THEN start_pos + n ELSE start_pos + n - Capacity
  BY RingPosition, CapacityAssumption DEF TypeOK
<1>2. Contents \in Seq(Byte) /\ Len(Contents) = used_size
  BY ContentsIsSeq
<1>3. SubSeq(Contents, n + 1, Len(Contents)) = [i \in 1 .. used_size - n |-> Contents[n + i]]
  BY <1>2 DEF TypeOK
<1>4. ASSUME NEW i \in 1 .. used_size - n
      PROVE  Contents[n + i] = buffer[(start_pos' + i - 1) % Capacity]
  <2>1. Contents[n + i] = buffer[(start_pos + (n + i) - 1) % Capacity]
    BY DEF Contents, TypeOK
  <2>2. (start_pos + (n + i) - 1) % Capacity = (start_pos' + i - 1) % Capacity
    <3>1. start_pos + (n + i) - 1 \in Nat /\ start_pos + (n + i) - 1 < 2 * Capacity
          /\ start_pos' + i - 1 \in Nat /\ start_pos' + i - 1 < 2 * Capacity
      BY <1>1, CapacityAssumption DEF TypeOK
    <3> QED BY <3>1, <1>1, RingPosition, CapacityAssumption DEF TypeOK
  <2> QED BY <2>1, <2>2
<1>5. Contents' = [i \in 1 .. used_size - n |-> buffer[(start_pos' + i - 1) % Capacity]]
  BY DEF Contents
<1>6. start_pos' \in 0 .. Capacity - 1
  BY <1>1, CapacityAssumption DEF TypeOK
<1>7. Contents' = [i \in 1 .. used_size - n |-> Contents[n + i]]
  BY <1>4, <1>5
<1> QED BY <1>3, <1>6, <1>7

\* write appends the accepted bytes.
LEMMA WriteAppends ==
  ASSUME TypeOK, NEW data \in Seq(Byte), NEW n \in Nat,
         n <= Len(data), n <= remaining_capacity,
         buffer' = Store(data, n), used_size' = used_size + n, start_pos' = start_pos
  PROVE  Contents' = Contents \o SubSeq(data, 1, n)
<1>1. Contents \in Seq(Byte) /\ Len(Contents) = used_size
  BY ContentsIsSeq
<1>2. SubSeq(data, 1, n) \in Seq(Byte) /\ Len(SubSeq(data, 1, n)) = n
      /\ \A i \in 1 .. n : SubSeq(data, 1, n)[i] = data[i]
  OBVIOUS
<1>3. used_size \in Nat
  BY DEF TypeOK
<1> DEFINE both == Contents \o SubSeq(data, 1, n)
<1>4. /\ both = [i \in 1 .. used_size + n |-> both[i]]
      /\ \A i \in 1 .. used_size + n :
           both[i] = IF i <= used_size THEN Contents[i] ELSE data[i - used_size]
  BY <1>1, <1>2, <1>3
<1>5. Contents' = [i \in 1 .. used_size + n |-> Store(data, n)[(start_pos + i - 1) % Capacity]]
  BY DEF Contents
<1>6. ASSUME NEW i \in 1 .. used_size + n
      PROVE  Store(data, n)[(start_pos + i - 1) % Capacity] = both[i]
  <2>1. CASE i <= used_size
    <3>1. Contents[i] = buffer[(start_pos + i - 1) % Capacity]
      BY <2>1, <1>3 DEF Contents
    <3> QED BY <2>1, <3>1, <1>3, <1>4, StoreSlots
  <2>2. CASE ~(i <= used_size)
    <3>1. PICK k \in 1 .. n : i = used_size + k
      BY <2>2, <1>3
    <3>2. start_pos + i - 1 = start_pos + used_size + k - 1 /\ i - used_size = k
      BY <3>1, <1>3 DEF TypeOK
    <3>3. Store(data, n)[(start_pos + used_size + k - 1) % Capacity] = data[k]
      BY StoreSlots
    <3> QED BY <2>2, <3>2, <3>3, <1>4
  <2> QED BY <2>1, <2>2
<1> QED BY <1>4, <1>5, <1>6

\* The number of bytes write accepts is within the string and the room left.
LEMMA AcceptedSize ==
  ASSUME TypeOK, NEW data \in Inputs
  PROVE  LET n == min(Len(data), remaining_capacity)
         IN  /\ data \in Seq(Byte) /\ n \in Nat /\ n \in 0 .. Capacity
             /\ n <= Len(data) /\ n <= remaining_capacity
  BY InputsAssumption, CapacityAssumption DEF TypeOK, min, remaining_capacity

\* A reader gets what it asks for, or all there is (peek_output, pop_output).
LEMMA PoppedSize ==
  ASSUME TypeOK, NEW len \in Nat
  PROVE  min(len, used_size) \in Nat /\ min(len, used_size) <= used_size
         /\ min(len, used_size) \in 0 .. Capacity
  BY CapacityAssumption DEF TypeOK, min

\* TypeOK is inductive: the fields keep their types and bytes_written_ -
\* bytes_read_ is the number of bytes in use, so write's assert holds.
LEMMA TypeStep == TypeOK /\ [Next]_vars => TypeOK'
<1> SUFFICES ASSUME TypeOK, [Next]_vars PROVE TypeOK'
  OBVIOUS
<1>1. ASSUME NEW data \in Inputs, write(data) PROVE TypeOK'
  <2> DEFINE n == min(Len(data), remaining_capacity)
  <2>1. data \in Seq(Byte) /\ n \in Nat /\ n <= Len(data) /\ n <= remaining_capacity
    BY AcceptedSize
  <2>2. buffer' \in [0 .. Capacity - 1 -> Byte]
    BY <1>1, <2>1, StoreSlots DEF write
  <2>3. used_size' = used_size + n /\ bytes_written' = bytes_written + n
        /\ passed' = data /\ UNCHANGED <<start_pos, bytes_read, input_ended, error>>
    BY <1>1 DEF write
  <2> HIDE DEF n
  <2> QED BY <2>1, <2>2, <2>3, CapacityAssumption DEF TypeOK, remaining_capacity
<1>2. ASSUME NEW len \in Nat, Pop(len), passed' \in Seq(Byte) PROVE TypeOK'
  <2> DEFINE n == min(len, used_size)
  <2>1. n \in Nat /\ n <= used_size
    BY PoppedSize
  <2>2. start_pos' = (start_pos + n) % Capacity /\ used_size' = used_size - n
        /\ bytes_read' = bytes_read + n /\ UNCHANGED <<buffer, bytes_written, input_ended, error>>
    BY <1>2 DEF Pop
  <2> HIDE DEF n
  <2>3. start_pos' \in 0 .. Capacity - 1
    BY <2>1, <2>2, PopKeepsRest
  <2> QED BY <1>2, <2>1, <2>2, <2>3, CapacityAssumption DEF TypeOK
<1>3. ASSUME NEW len \in Nat PROVE Oldest(min(len, used_size)) \in Seq(Byte)
  BY PoppedSize, OldestIsPrefix
<1>4. ASSUME NEW len \in 0 .. Capacity + 1, peek_output(len) PROVE TypeOK'
  <2>1. passed' \in Seq(Byte)
    BY <1>3, <1>4 DEF peek_output
  <2> QED BY <1>4, <2>1 DEF peek_output, TypeOK
<1>5. ASSUME NEW len \in 0 .. Capacity + 1, pop_output(len) PROVE TypeOK'
  BY <1>2, <1>5, CapacityAssumption DEF pop_output, TypeOK
<1>6. ASSUME NEW len \in 0 .. Capacity + 1, read(len) PROVE TypeOK'
  <2>1. passed' \in Seq(Byte) /\ Pop(len)
    BY <1>3, <1>6 DEF read
  <2> QED BY <1>2, <2>1, CapacityAssumption
<1>7. CASE end_input
  BY <1>7 DEF end_input, TypeOK
<1>8. CASE set_error
  BY <1>8 DEF set_error, TypeOK
<1>9. CASE UNCHANGED vars
  BY <1>9 DEF vars, TypeOK
<1> QED BY <1>1, <1>4, <1>5, <1>6, <1>7, <1>8, <1>9 DEF Next

\* TypeOK holds in every reachable state, for every capacity: in particular
\* used_size_ never exceeds the buffer (the assert in ByteStream::write).
THEOREM TypeCorrect == Spec => []TypeOK
<1>1. Init => TypeOK
  <2> SUFFICES ASSUME Init PROVE TypeOK
    OBVIOUS
  <2>1. buffer \in [0 .. Capacity - 1 -> Byte]
    BY DEF Init
  <2>2. << >> \in Seq(Byte)
    OBVIOUS
  <2>3. used_size \in 0 .. Capacity /\ start_pos \in 0 .. Capacity - 1
        /\ bytes_read \in Nat /\ bytes_written \in Nat /\ bytes_written = bytes_read + used_size
    BY CapacityAssumption DEF Init
  <2>4. input_ended \in BOOLEAN /\ error \in BOOLEAN /\ passed \in Seq(Byte)
    BY <2>2 DEF Init
  <2> QED BY <2>1, <2>3, <2>4 DEF TypeOK
<1> QED BY <1>1, TypeStep, PTL DEF Spec

\* Every operation of the ring buffer is the operation of the same name on the
\* queue of its contents.
LEMMA FifoStep == TypeOK /\ [Next]_vars => [Fifo!Next]_(Fifo!vars)
<1> SUFFICES ASSUME TypeOK, [Next]_vars PROVE [Fifo!Next]_(Fifo!vars)
  OBVIOUS
<1>0. Contents \in Seq(Byte) /\ Len(Contents) = used_size
  BY ContentsIsSeq
<1>1. ASSUME NEW data \in Inputs, write(data) PROVE Fifo!Next
  <2> DEFINE n == min(Len(data), remaining_capacity)
  <2>1. /\ data \in Seq(Byte) /\ n \in Nat /\ n \in 0 .. Capacity
        /\ n <= Len(data) /\ n <= remaining_capacity
    BY AcceptedSize
  <2>2. /\ buffer' = Store(data, n) /\ used_size' = used_size + n
        /\ bytes_written' = bytes_written + n
        /\ passed' = data /\ UNCHANGED <<start_pos, bytes_read, input_ended, error>>
    BY <1>1 DEF write
  <2>3. n = Fifo!Smaller(Len(data), Capacity - Len(Contents))
    BY <1>0 DEF min, remaining_capacity, Fifo!Smaller
  <2> HIDE DEF n
  <2>4. Contents' = Contents \o SubSeq(data, 1, n)
    BY <2>1, <2>2, WriteAppends
  <2>5. Fifo!Enqueue(n, data)
    BY <2>2, <2>3, <2>4 DEF Fifo!Enqueue
  <2>6. Fifo!Accept(n, data) \/ Fifo!AcceptAfterEnd(n, data)
    BY <2>5 DEF Fifo!Accept, Fifo!AcceptAfterEnd
  <2> QED BY <2>1, <2>6 DEF Fifo!Next
<1>2. ASSUME NEW len \in Nat, Pop(len)
      PROVE  /\ Contents' = SubSeq(Contents, min(len, used_size) + 1, Len(Contents))
             /\ bytes_read' = bytes_read + min(len, used_size)
             /\ UNCHANGED <<bytes_written, input_ended, error>>
  BY <1>2, PoppedSize, PopKeepsRest DEF Pop
<1>3. ASSUME NEW len \in Nat
      PROVE  Oldest(min(len, used_size)) = SubSeq(Contents, 1, min(len, used_size))
  BY PoppedSize, OldestIsPrefix
<1>4. ASSUME NEW len \in 0 .. Capacity + 1, peek_output(len) PROVE Fifo!Next
  <2>1. Contents' = Contents
    BY <1>4 DEF peek_output, Contents
  <2>2. len \in Nat
    BY CapacityAssumption
  <2>3. passed' = SubSeq(Contents, 1, min(len, used_size))
    BY <1>4, <1>3, <2>2 DEF peek_output
  <2>4. Fifo!Peek(min(len, used_size))
    BY <1>0, <1>4, <2>1, <2>2, <2>3, PoppedSize DEF peek_output, Fifo!Peek
  <2> QED BY <2>2, <2>4, PoppedSize DEF Fifo!Next
<1>5. ASSUME NEW len \in 0 .. Capacity + 1, pop_output(len) PROVE Fifo!Next
  <2>1. Fifo!Drop(min(len, used_size))
    BY <1>0, <1>2, <1>5, PoppedSize, CapacityAssumption DEF pop_output, Fifo!Drop
  <2> QED BY <2>1, PoppedSize, CapacityAssumption DEF Fifo!Next
<1>6. ASSUME NEW len \in 0 .. Capacity + 1, read(len) PROVE Fifo!Next
  <2>1. len \in Nat
    BY CapacityAssumption
  <2>2. passed' = SubSeq(Contents, 1, min(len, used_size)) /\ Pop(len)
    BY <1>6, <1>3, <2>1 DEF read
  <2>3. Fifo!Take(min(len, used_size))
    BY <1>0, <1>2, <2>1, <2>2, PoppedSize DEF Fifo!Take
  <2> QED BY <2>1, <2>3, PoppedSize DEF Fifo!Next
<1>7. CASE end_input
  BY <1>7 DEF end_input, Contents, Fifo!Next, Fifo!End
<1>8. CASE set_error
  BY <1>8 DEF set_error, Contents, Fifo!Next, Fifo!Fail
<1>9. CASE UNCHANGED vars
  BY <1>9 DEF vars, Contents, Fifo!vars
<1> QED BY <1>1, <1>4, <1>5, <1>6, <1>7, <1>8, <1>9 DEF Next

\* The ring buffer implements the bounded FIFO queue (write, peek_output,
\* pop_output, read in byte_stream.cc): for every capacity, bytes come out
\* exactly once and in the order they went in.  Bytes written after end_input
\* are accepted like any others.
THEOREM RingImplementsFifo == Spec => ImplementsFifo
<1>1. Init => Fifo!Init
  BY DEF Init, Fifo!Init, Contents
<1> QED BY <1>1, TypeCorrect, FifoStep, PTL DEF Spec, ImplementsFifo, Fifo!Spec
=============================================================================
