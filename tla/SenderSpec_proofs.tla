------------------------- MODULE SenderSpec_proofs --------------------------
(***************************************************************************)
(* What TCPSender keeps to, for all widths of the sequence numbers, sizes  *)
(* of stream and segments, windows and timeouts, and whatever the peer     *)
(* acknowledges.                                                           *)
(***************************************************************************)
EXTENDS SenderSpec, NumberFacts

Fields == {"isn", "segments_out", "outstanding", "stream", "timer", "retransmissions",
           "next_seq_no", "last_ack_no", "bytes_in_flight", "window_size", "asserted"}

Segments == [seqno : WrappingInt32, payload : Seq(Nat), syn : BOOLEAN, fin : BOOLEAN,
             rst : BOOLEAN, ack : BOOLEAN, ackno : Nat, win : Nat]

Timers == [timeout : Nat, elapsed : Nat, started : BOOLEAN]

\* The fields with their types; what bytes_in_flight is plays no part here.
Sender(x) ==
  /\ DOMAIN x = Fields
  /\ x.isn \in WrappingInt32 /\ x.stream \in Stream /\ x.timer \in Timers
  /\ x.outstanding \in Seq(Segments)
  /\ x.next_seq_no \in Nat /\ x.last_ack_no \in Nat /\ x.window_size \in Nat
  /\ x.asserted \in BOOLEAN

\* A stream fails only after the SYN, and only what was sent is acknowledged.
Sane(x) ==
  /\ x.last_ack_no <= x.next_seq_no
  /\ buffer_size(x.stream) \in 0 .. SendCapacity
  /\ x.stream.failed => x.next_seq_no > 0

Watched(x) == (x.timer.started <=> x.outstanding # << >>) /\ x.asserted

Numbered(x) ==
  \/ x.next_seq_no = 0 /\ x.stream.popped = 0
  \/ x.next_seq_no = x.stream.popped + 1
  \/ x.next_seq_no = x.stream.written + 2 /\ eof(x.stream)

Good(x) == Sender(x) /\ Sane(x) /\ Watched(x) /\ Numbered(x)

Inv == Good(s)

-----------------------------------------------------------------------------
(* The operators the methods are built from.                               *)

\* A number on the wire is one of the Mod numbers.
LEMMA WrapInRange ==
  ASSUME NEW n \in Int, NEW isn \in Int
  PROVE  wrap(n, isn) \in WrappingInt32
<1> DEFINE k == isn + n
<1>1. k \in Int
  OBVIOUS
<1> HIDE DEF k
<1>2. k % Mod \in 0 .. Mod - 1
  BY <1>1, ModAssumption
<1> QED BY <1>2 DEF wrap, Plus, WrappingInt32, k

\* An absolute number is never negative.
LEMMA UnwrapIsNat ==
  ASSUME NEW n \in WrappingInt32, NEW isn \in WrappingInt32, NEW checkpoint \in Nat
  PROVE  unwrap(n, isn, checkpoint) \in Nat
<1> DEFINE cp == wrap(checkpoint, isn)
           up == diff_p(n, cp)
           down == diff_n(n, cp)
<1>0. isn \in Int /\ checkpoint \in Int
  BY ModAssumption DEF WrappingInt32
<1>1. cp \in 0 .. Mod - 1 /\ n \in 0 .. Mod - 1
  BY <1>0, WrapInRange, Zenon DEF WrappingInt32
<1> HIDE DEF cp
<1>2. Mod \in Nat /\ Mod > 1 /\ AbsMod \in Nat /\ AbsMod > 0
  BY ModAssumption, AbsModAssumption
<1>3. (Mod - 1 - cp + n + 1) \in Nat
  BY <1>1, <1>2
<1>4. (Mod - 1 - cp + n + 1) % Mod \in Nat
  BY <1>2, <1>3
<1>5. up \in Nat /\ down \in Nat
  BY <1>1, <1>2, <1>4 DEF diff_p, diff_n
<1> HIDE DEF up, down
<1>6. (checkpoint + up) % AbsMod \in Nat
  BY <1>2, <1>5
<1>7. ~(up < down \/ checkpoint < down) => checkpoint - down \in Nat
  BY <1>5
<1> QED BY <1>6, <1>7 DEF unwrap, cp, up, down

\* The loop of ack_received stops at a segment or after the last one.
LEMMA FirstUnackedInRange ==
  ASSUME NEW x, Sender(x), NEW ack
  PROVE  FirstUnacked(x, ack) \in 1 .. Len(x.outstanding) + 1
<1> DEFINE n == Len(x.outstanding)
           Late == {i \in 1 .. n : ~(unwrap(x.outstanding[i].seqno, x.isn, x.last_ack_no)
                              + length_in_sequence_space(x.outstanding[i]) <= ack)}
           S == Late \cup {n + 1}
<1>1. n \in Nat
  BY DEF Sender
<1>2. Late \subseteq 1 .. n
  OBVIOUS
<1>3. FirstUnacked(x, ack) = Min(S)
  BY DEF FirstUnacked
<1> HIDE DEF n, Late
<1>4. S \in SUBSET Nat /\ S # {} /\ S \subseteq 1 .. n + 1
  BY <1>1, <1>2
<1> HIDE DEF S
<1> QED BY <1>3, <1>4, MinExists, Zenon DEF n

-----------------------------------------------------------------------------
(* fill_window                                                             *)

\* The sender is closed before the SYN and only then; the FIN is not sent again.
LEMMA States ==
  ASSUME NEW x, Sender(x), Sane(x)
  PROVE  /\ sender_state(x) = "closed" <=> x.next_seq_no = 0
         /\ sender_state(x) = "syn_acked" => ~eof(x.stream) \/ x.next_seq_no < x.stream.written + 2
<1>1. x.next_seq_no \in Nat /\ x.stream.failed \in BOOLEAN
  BY DEF Sender, Stream
<1>2. CASE x.stream.failed
  BY <1>1, <1>2 DEF sender_state, Sane
<1>3. CASE ~x.stream.failed /\ x.next_seq_no = 0
  BY <1>1, <1>3 DEF sender_state
<1>4. CASE ~x.stream.failed /\ x.next_seq_no > 0
  BY <1>1, <1>4 DEF sender_state
<1> QED BY <1>1, <1>2, <1>3, <1>4

\* Where the window leaves room, what fits ends inside it.
LEMMA Room ==
  ASSUME NEW x, Sender(x), Sane(x)
  PROVE  /\ free_window_size(x) \in Nat
         /\ free_window_size(x) > 0 =>
              x.next_seq_no + free_window_size(x) <= x.last_ack_no + larger(x.window_size, 1)
  BY DEF Sender, Sane, free_window_size, larger

\* What is sent of the stream is there and fits, with the FIN.
LEMMA Fits ==
  ASSUME NEW x, Sender(x), Sane(x)
  PROVE  /\ PayloadSize(x) \in Nat /\ PayloadSize(x) <= buffer_size(x.stream)
         /\ One(SendsFin(x)) \in {0, 1}
         /\ PayloadSize(x) + One(SendsFin(x)) <= free_window_size(x)
         /\ One(SendsFin(x)) = 1 =>
              /\ x.stream.ended /\ PayloadSize(x) = buffer_size(x.stream)
              /\ sender_state(x) = "syn_acked"
<1> DEFINE free == free_window_size(x)
           size == buffer_size(x.stream)
           fin == SendsFin(x)
<1>1. free \in Nat /\ size \in Nat
  BY Room DEF Sane
<1>2. fin => x.stream.ended /\ sender_state(x) = "syn_acked" /\ size < free
  BY DEF SendsFin
<1>3. PayloadSize(x) = IF size < free THEN size ELSE free
  BY DEF PayloadSize, smaller
<1>4. fin \in BOOLEAN
  BY <1>1 DEF SendsFin
<1> HIDE DEF free, size, fin
<1>5. CASE fin
  BY <1>1, <1>2, <1>3, <1>5 DEF One, free, size, fin
<1>6. CASE ~fin
  BY <1>1, <1>3, <1>6 DEF One, free, size, fin
<1> QED BY <1>5, <1>6

\* The batch is a sequence of segments.
LEMMA PiecesAreSegments ==
  ASSUME NEW x, Sender(x), Sane(x)
  PROVE  Pieces(x) \in Seq(Segments)
<1> DEFINE size == PayloadSize(x)
           fin == SendsFin(x)
           count == IF size = 0 THEN One(fin) ELSE (size + MaxPayload - 1) \div MaxPayload
           at(i) == (i - 1) * MaxPayload
           piece(i) == Segment(wrap(x.next_seq_no + at(i), x.isn),
                     [j \in 1 .. smaller(MaxPayload, size - at(i)) |-> x.stream.popped + at(i) + j - 1],
                     FALSE, i = count /\ fin)
<1>1. MaxPayload \in Nat /\ MaxPayload > 0
  BY SenderAssumption
<1>2. size \in Nat /\ One(fin) \in Nat
  BY Fits
<1>3. x.stream.popped \in Nat /\ x.next_seq_no \in Nat /\ x.isn \in Int
  BY ModAssumption DEF Sender, Stream, WrappingInt32
<1>4. Pieces(x) = [i \in 1 .. count |-> piece(i)]
  BY DEF Pieces
<1> HIDE DEF size, fin
<1>5. count \in Nat
  BY <1>1, <1>2
<1> HIDE DEF count
<1>6. ASSUME NEW i \in 1 .. count PROVE piece(i) \in Segments
  <2> DEFINE k == at(i)
             len == smaller(MaxPayload, size - k)
  <2>1. k \in Nat
    BY <1>1, <1>5
  <2> HIDE DEF k
  <2>2. len \in Int
    BY <1>1, <1>2, <2>1 DEF smaller
  <2> HIDE DEF len
  <2>3. wrap(x.next_seq_no + k, x.isn) \in WrappingInt32
    BY <1>3, <2>1, WrapInRange
  <2>4. [j \in 1 .. len |-> x.stream.popped + k + j - 1] \in Seq(Nat)
    BY <1>3, <2>1, <2>2
  <2> QED BY <2>3, <2>4 DEF Segment, Segments, k, len
<1> HIDE DEF piece
<1> QED BY <1>4, <1>5, <1>6
\* A sequence of one.
LEMMA Singleton ==
  ASSUME NEW S, NEW e \in S
  PROVE  <<e>> \in Seq(S)
  OBVIOUS

\* The sender after a batch, with its stream as st.
Sent(x, batch, size, st) == [send_segments(x, batch, size) EXCEPT !.stream = st]

\* What sending a batch does to the fields.
LEMMA BatchSent ==
  ASSUME NEW x, Sender(x), Watched(x), NEW batch \in Seq(Segments), NEW size \in Nat,
         NEW st \in Stream, NEW y, y = Sent(x, batch, size, st)
  PROVE  /\ Sender(y) /\ Watched(y)
         /\ y.next_seq_no = x.next_seq_no + size
         /\ y.stream = st /\ y.last_ack_no = x.last_ack_no /\ y.window_size = x.window_size
<1> DEFINE timer == IF batch # << >> /\ ~x.timer.started THEN restart(x.timer) ELSE x.timer
<1>1. timer \in Timers /\ timer.started = (x.timer.started \/ batch # << >>)
  <2>1. x.timer \in Timers
    BY DEF Sender
  <2>2. restart(x.timer) \in Timers /\ restart(x.timer).started
    BY <2>1, Zenon DEF restart, Timers
  <2> QED BY <2>1, <2>2 DEF Timers
<1>2. /\ x.outstanding \o batch \in Seq(Segments)
      /\ x.outstanding \o batch # << >> <=> x.outstanding # << >> \/ batch # << >>
  BY DEF Sender
<1>3. /\ DOMAIN y = Fields /\ y.isn = x.isn /\ y.timer = timer
      /\ y.outstanding = x.outstanding \o batch /\ y.asserted = x.asserted
      /\ y.next_seq_no = x.next_seq_no + size /\ y.stream = st
      /\ y.last_ack_no = x.last_ack_no /\ y.window_size = x.window_size
  BY DEF Sender, Fields, send_segments, Sent
<1>4. x.next_seq_no + size \in Nat
  BY DEF Sender
<1> HIDE DEF timer
<1>5. Sender(y)
  BY <1>1, <1>2, <1>3, <1>4 DEF Sender
<1>6. Watched(y)
  BY <1>1, <1>2, <1>3 DEF Watched, Sender, Timers
<1> QED BY <1>3, <1>5, <1>6

\* fill_window keeps the invariant and stays inside the window.
LEMMA FillStep ==
  ASSUME NEW x, Good(x), NEW y, y = fill_window(x)
  PROVE  /\ Good(y)
         /\ y.last_ack_no = x.last_ack_no /\ x.next_seq_no <= y.next_seq_no
         /\ y.next_seq_no > x.next_seq_no =>
              y.next_seq_no <= x.last_ack_no + larger(x.window_size, 1)
<1> USE DEF Good
<1>1. /\ x.next_seq_no \in Nat /\ x.last_ack_no \in Nat /\ x.window_size \in Nat
      /\ x.stream \in Stream /\ x.isn \in WrappingInt32 /\ x.last_ack_no <= x.next_seq_no
      /\ DOMAIN x = Fields
  BY DEF Sender, Sane
<1>2. CASE sender_state(x) = "closed"
  <2> DEFINE batch == <<Segment(x.isn, << >>, TRUE, FALSE)>>
  <2>1. x.next_seq_no = 0
    BY <1>2, States
  <2>2. batch \in Seq(Segments)
    <3>1. Segment(x.isn, << >>, TRUE, FALSE) \in Segments
      BY <1>1 DEF Segment, Segments
    <3> QED BY <3>1, Singleton, Zenon
  <2> HIDE DEF batch
  <2>3. y = Sent(x, batch, 1, x.stream)
    BY <1>1, <1>2, Zenon DEF Sent, fill_window, send_segments, batch, Fields
  <2>4. /\ Sender(y) /\ Watched(y) /\ y.next_seq_no = 1 /\ y.stream = x.stream
        /\ y.last_ack_no = x.last_ack_no /\ y.window_size = x.window_size
    BY <1>1, <2>1, <2>2, <2>3, BatchSent
  <2>5. x.stream.popped = 0 \/ eof(x.stream)
    BY <2>1, <1>1 DEF Numbered, Stream
  <2> QED BY <1>1, <2>1, <2>4 DEF Sane, Numbered, larger, Stream
<1>3. CASE sender_state(x) # "closed"
  <2> DEFINE size == PayloadSize(x)
             fin == One(SendsFin(x))
             st == read(x.stream, size)
  <2>1. x.next_seq_no > 0
    BY <1>1, <1>3, States
  <2>2. /\ size \in Nat /\ size <= buffer_size(x.stream) /\ fin \in {0, 1}
        /\ size + fin <= free_window_size(x)
        /\ fin = 1 => /\ x.stream.ended /\ size = buffer_size(x.stream)
                      /\ ~eof(x.stream) \/ x.next_seq_no < x.stream.written + 2
    BY Fits, States
  <2>3. y = Sent(x, Pieces(x), size + fin, st)
    BY <1>1, <1>3 DEF Sent, fill_window, send_segments, Fields
  <2> HIDE DEF size, fin
  <2>4. /\ st \in Stream /\ st.popped = x.stream.popped + size /\ st.written = x.stream.written
        /\ st.ended = x.stream.ended /\ st.failed = x.stream.failed
        /\ buffer_size(st) = buffer_size(x.stream) - size
    BY <1>1, <2>2 DEF read, Stream, smaller, buffer_size
  <2> HIDE DEF st
  <2>5. size + fin \in Nat
    BY <2>2
  <2>6. /\ Sender(y) /\ Watched(y) /\ y.next_seq_no = x.next_seq_no + (size + fin) /\ y.stream = st
        /\ y.last_ack_no = x.last_ack_no /\ y.window_size = x.window_size
    BY <2>3, <2>4, <2>5, PiecesAreSegments, BatchSent
  <2>7. buffer_size(x.stream) \in 0 .. SendCapacity /\ SendCapacity \in Nat
    BY SenderAssumption DEF Sane
  <2>8. Sane(y)
    BY <1>1, <2>1, <2>2, <2>4, <2>6, <2>7 DEF Sane
  <2>9. Numbered(y)
    <3>1. x.stream.popped \in Nat /\ x.stream.written \in Nat /\ x.stream.ended \in BOOLEAN
      BY <1>1 DEF Stream
    <3>2. CASE x.next_seq_no = x.stream.popped + 1 /\ fin = 0
      BY <1>1, <2>2, <2>4, <2>6, <3>1, <3>2 DEF Numbered
    <3>3. CASE x.next_seq_no = x.stream.popped + 1 /\ fin = 1
      <4>1. y.next_seq_no = st.written + 2 /\ buffer_size(st) = 0 /\ st.ended
        BY <1>1, <2>2, <2>4, <2>6, <3>1, <3>3 DEF buffer_size
      <4> QED BY <2>6, <4>1 DEF Numbered, eof
    <3>4. CASE x.next_seq_no = x.stream.written + 2 /\ eof(x.stream)
      <4>1. fin = 0 /\ size = 0
        BY <1>1, <2>2, <3>1, <3>4 DEF eof
      <4>2. y.next_seq_no = st.written + 2 /\ buffer_size(st) = 0 /\ st.ended
        BY <1>1, <2>4, <2>6, <3>1, <3>4, <4>1 DEF eof, buffer_size
      <4> QED BY <2>6, <4>2 DEF Numbered, eof
    <3> QED BY <2>1, <2>2, <3>2, <3>3, <3>4 DEF Numbered
  <2>10. y.next_seq_no > x.next_seq_no =>
           y.next_seq_no <= x.last_ack_no + larger(x.window_size, 1)
    BY <1>1, <2>2, <2>5, <2>6, Room DEF larger
  <2> QED BY <1>1, <2>5, <2>6, <2>8, <2>9, <2>10
<1> QED BY <1>2, <1>3
-----------------------------------------------------------------------------
(* The other methods                                                       *)

\* What is left of a queue is a queue, empty when nothing is left.
LEMMA Rest ==
  ASSUME NEW S, NEW q \in Seq(S), NEW first \in 1 .. Len(q) + 1
  PROVE  /\ SubSeq(q, first, Len(q)) \in Seq(S)
         /\ SubSeq(q, first, Len(q)) # << >> <=> first <= Len(q)
<1>1. Len(q) \in Nat
  OBVIOUS
<1>2. CASE first = Len(q) + 1
  BY <1>1, <1>2
<1>3. CASE first <= Len(q)
  BY <1>1, <1>3
<1> QED BY <1>1, <1>2, <1>3

\* An ACK moves last_ack_no_ forward to a number that was sent, or not at all.
LEMMA AckStep ==
  ASSUME NEW x, Good(x), NEW n \in WrappingInt32, NEW w \in Nat, NEW y, y = ack_received(x, n, w)
  PROVE  /\ Good(y)
         /\ x.last_ack_no <= y.last_ack_no /\ y.next_seq_no = x.next_seq_no
<1> USE DEF Good
<1> DEFINE ack == unwrap(n, x.isn, x.last_ack_no)
<1>1. /\ DOMAIN x = Fields
      /\ x.next_seq_no \in Nat /\ x.last_ack_no \in Nat /\ x.window_size \in Nat
      /\ x.stream \in Stream /\ x.isn \in WrappingInt32 /\ x.timer \in Timers
      /\ x.outstanding \in Seq(Segments) /\ x.asserted \in BOOLEAN
      /\ x.last_ack_no <= x.next_seq_no
  BY DEF Sender, Sane
<1>2. ack \in Nat
  BY <1>1, UnwrapIsNat, Zenon
<1> HIDE DEF ack
<1>3. CASE ack <= x.last_ack_no \/ ack > x.next_seq_no
  <2>1. y = x \/ y = [x EXCEPT !.window_size = w]
    BY <1>3 DEF ack_received, ack
  <2>2. CASE y = x
    BY <2>2, <1>1
  <2>3. CASE y = [x EXCEPT !.window_size = w]
    <3>1. /\ DOMAIN y = Fields /\ y.isn = x.isn /\ y.timer = x.timer /\ y.window_size = w
          /\ y.outstanding = x.outstanding /\ y.asserted = x.asserted /\ y.stream = x.stream
          /\ y.next_seq_no = x.next_seq_no /\ y.last_ack_no = x.last_ack_no
      BY <1>1, <2>3 DEF Fields
    <3>2. Sender(y)
      BY <1>1, <3>1 DEF Sender
    <3> QED BY <1>1, <3>1, <3>2 DEF Sane, Watched, Numbered
  <2> QED BY <2>1, <2>2, <2>3
<1>4. CASE ~(ack <= x.last_ack_no \/ ack > x.next_seq_no)
  <2> DEFINE first == FirstUnacked(x, ack)
             timer == IF first > Len(x.outstanding) THEN reset(x.timer, RtTimeout)
                      ELSE restart(reset(x.timer, RtTimeout))
             rest == SubSeq(x.outstanding, first, Len(x.outstanding))
  <2>1. first \in 1 .. Len(x.outstanding) + 1
    BY FirstUnackedInRange
  <2>2. y = [DropAcked(x, ack) EXCEPT !.window_size = w, !.last_ack_no = ack]
    BY <1>4 DEF ack_received, ack
  <2>3. /\ DOMAIN y = Fields /\ y.isn = x.isn /\ y.timer = timer /\ y.window_size = w
        /\ y.outstanding = rest /\ y.asserted = x.asserted /\ y.stream = x.stream
        /\ y.next_seq_no = x.next_seq_no /\ y.last_ack_no = ack
    BY <1>1, <2>2, Zenon DEF DropAcked, Fields
  <2> HIDE DEF first
  <2>4. timer \in Timers /\ (timer.started <=> ~(first > Len(x.outstanding)))
    BY SenderAssumption, Zenon DEF reset, restart, Timers
  <2>5. rest \in Seq(Segments) /\ (rest # << >> <=> first <= Len(x.outstanding))
    BY <1>1, <2>1, Rest
  <2>6. Len(x.outstanding) \in Nat /\ first \in Nat
    BY <1>1, <2>1
  <2> HIDE DEF timer, rest
  <2>7. Sender(y)
    BY <1>1, <1>2, <2>3, <2>4, <2>5 DEF Sender
  <2>8. Watched(y)
    <3>1. x.asserted
      BY DEF Watched
    <3>2. ~(first > Len(x.outstanding)) <=> first <= Len(x.outstanding)
      BY <2>6
    <3>3. timer.started <=> rest # << >>
      BY <2>4, <2>5, <3>2, Zenon
    <3> QED BY <2>3, <3>1, <3>3 DEF Watched
  <2>9. Sane(y) /\ Numbered(y)
    BY <1>1, <1>2, <1>4, <2>3 DEF Sane, Numbered
  <2> QED BY <1>1, <1>2, <1>4, <2>3, <2>7, <2>8, <2>9
<1> QED BY <1>3, <1>4

\* A timer that expires finds a segment to send again.
LEMMA TickStep ==
  ASSUME NEW x, Good(x), NEW ms \in Nat, NEW y, y = sender_tick(x, ms)
  PROVE  /\ Good(y)
         /\ y.last_ack_no = x.last_ack_no /\ y.next_seq_no = x.next_seq_no
<1> USE DEF Good
<1> DEFINE t == timer_tick(x.timer, ms)
           again == restart(IF x.window_size > 0 THEN reset(t, 2 * t.timeout) ELSE t)
<1>1. DOMAIN x = Fields /\ x.timer \in Timers
  BY DEF Sender
<1>2. t \in Timers /\ t.started = x.timer.started
  BY <1>1 DEF timer_tick, Timers
<1>3. again \in Timers /\ again.started
  <2> HIDE DEF t
  <2>1. t.timeout \in Nat /\ 2 * t.timeout \in Nat
    BY <1>2 DEF Timers
  <2>2. \A u \in Timers : restart(u) \in Timers /\ restart(u).started
    BY Zenon DEF restart, Timers
  <2>3. reset(t, 2 * t.timeout) \in Timers
    BY <2>1 DEF reset, Timers
  <2> QED BY <1>2, <2>2, <2>3
<1>4. expired(t) => x.outstanding # << >>
  BY <1>2 DEF expired, Watched
<1>5. \/ y = [x EXCEPT !.timer = t]
      \/ /\ x.timer.started
         /\ y = [x EXCEPT !.segments_out = Append(@, Head(x.outstanding)),
                          !.retransmissions = IF x.window_size > 0 THEN @ + 1 ELSE @,
                          !.timer = again]
  BY <1>2, <1>4 DEF sender_tick, expired
<1> HIDE DEF t, again
<1>6. /\ DOMAIN y = Fields /\ y.isn = x.isn /\ y.window_size = x.window_size
      /\ y.outstanding = x.outstanding /\ y.asserted = x.asserted /\ y.stream = x.stream
      /\ y.next_seq_no = x.next_seq_no /\ y.last_ack_no = x.last_ack_no
      /\ y.timer = t \/ (x.timer.started /\ y.timer = again)
  BY <1>1, <1>5, Zenon DEF Fields
<1>7. y.timer \in Timers /\ y.timer.started = x.timer.started
  BY <1>1, <1>2, <1>3, <1>6 DEF Timers
<1>8. Sender(y)
  BY <1>6, <1>7 DEF Sender
<1> QED BY <1>6, <1>7, <1>8 DEF Sane, Watched, Numbered
\* Writing, ending and failing leave all but the stream alone.
LEMMA StreamStep ==
  ASSUME NEW x, Good(x), NEW st \in Stream, NEW y,
         y = [x EXCEPT !.stream = st],
         st.popped = x.stream.popped, buffer_size(st) \in 0 .. SendCapacity,
         st.failed => x.next_seq_no > 0,
         eof(x.stream) => st.written = x.stream.written /\ eof(st)
  PROVE  /\ Good(y)
         /\ y.last_ack_no = x.last_ack_no /\ y.next_seq_no = x.next_seq_no
<1> USE DEF Good
<1>1. /\ DOMAIN y = Fields /\ y.isn = x.isn /\ y.timer = x.timer /\ y.window_size = x.window_size
      /\ y.outstanding = x.outstanding /\ y.asserted = x.asserted /\ y.stream = st
      /\ y.next_seq_no = x.next_seq_no /\ y.last_ack_no = x.last_ack_no
  BY DEF Sender, Fields
<1>2. Sender(y)
  BY <1>1 DEF Sender
<1>3. Sane(y) /\ Watched(y)
  BY <1>1 DEF Sane, Watched
<1>4. Numbered(y)
  BY <1>1 DEF Numbered
<1> QED BY <1>1, <1>2, <1>3, <1>4

-----------------------------------------------------------------------------
(* Every step                                                              *)

\* The invariant does not ask what is queued for the owner.
LEMMA Queued ==
  ASSUME NEW x, Good(x), NEW q, NEW y, y = [x EXCEPT !.segments_out = q]
  PROVE  Good(y) /\ y.next_seq_no = x.next_seq_no /\ y.last_ack_no = x.last_ack_no
<1>1. /\ DOMAIN y = Fields /\ y.isn = x.isn /\ y.timer = x.timer /\ y.window_size = x.window_size
      /\ y.outstanding = x.outstanding /\ y.asserted = x.asserted /\ y.stream = x.stream
      /\ y.next_seq_no = x.next_seq_no /\ y.last_ack_no = x.last_ack_no
  BY DEF Good, Sender, Fields
<1>2. Good(y)
  BY <1>1, Zenon DEF Good, Sender, Sane, Watched, Numbered
<1> QED BY <1>1, <1>2

\* The sender as the owner finds it.
LEMMA InitInv == Init => Inv
<1> SUFFICES ASSUME Init PROVE Inv
  OBVIOUS
<1>1. PICK isn \in Isns : s = NewSender(isn)
  BY DEF Init
<1>2. isn \in WrappingInt32
  BY DriverAssumption
<1>3. NewStream \in Stream /\ NewTimer \in Timers
  BY SenderAssumption DEF NewStream, Stream, NewTimer, Timers
<1>4. Sender(s)
  BY <1>1, <1>2, <1>3 DEF Sender, NewSender, Fields
<1>5. Sane(s) /\ Watched(s) /\ Numbered(s)
  BY <1>1, SenderAssumption
     DEF Sane, Watched, Numbered, NewSender, NewStream, NewTimer, buffer_size
<1> QED BY <1>4, <1>5 DEF Inv, Good

\* How far a call may move the two numbers.
Bounded(x, y) ==
  /\ x.last_ack_no <= y.last_ack_no
  /\ y.next_seq_no > x.next_seq_no => y.next_seq_no <= x.last_ack_no + larger(x.window_size, 1)

\* A call and the dequeuing after it.
LEMMA CallStep ==
  ASSUME NEW y, Good(y), Bounded(s, y), Call(y)
  PROVE  Inv' /\ Bounded(s, s')
  BY Queued DEF Call, Inv, Bounded

\* A call that moves neither number.
LEMMA StillBounded ==
  ASSUME NEW x, Good(x), NEW y, y.next_seq_no = x.next_seq_no, y.last_ack_no = x.last_ack_no
  PROVE  Bounded(x, y)
  BY DEF Good, Sender, Bounded

\* Every step keeps the invariant, takes no acknowledgment back and stays
\* inside the window.
LEMMA NextInv ==
  ASSUME Inv, [Next]_vars
  PROVE  Inv' /\ Bounded(s, s')
<1>1. Good(s)
  BY DEF Inv
<1>2. /\ s.stream \in Stream /\ buffer_size(s.stream) \in 0 .. SendCapacity
      /\ s.stream.failed => s.next_seq_no > 0
      /\ SendCapacity \in Nat
  BY <1>1, SenderAssumption DEF Good, Sender, Sane
<1>3. ASSUME NEW st \in Stream, Call([s EXCEPT !.stream = st]),
             st.popped = s.stream.popped, buffer_size(st) \in 0 .. SendCapacity,
             st.failed => s.next_seq_no > 0,
             eof(s.stream) => st.written = s.stream.written /\ eof(st)
      PROVE  Inv' /\ Bounded(s, s')
  <2> DEFINE y == [s EXCEPT !.stream = st]
  <2>1. Good(y) /\ y.last_ack_no = s.last_ack_no /\ y.next_seq_no = s.next_seq_no
    BY <1>1, <1>3, StreamStep
  <2> HIDE DEF y
  <2>2. Bounded(s, y)
    BY <1>1, <2>1, StillBounded
  <2> QED BY <1>3, <2>1, <2>2, CallStep DEF y
<1>4. CASE Write
  <2>1. PICK n \in 1 .. SendCapacity :
          ~s.stream.ended /\ Call([s EXCEPT !.stream = write(s.stream, n, SendCapacity)])
    BY <1>4 DEF Write
  <2> DEFINE st == write(s.stream, n, SendCapacity)
  <2>2. /\ st \in Stream /\ st.popped = s.stream.popped /\ st.failed = s.stream.failed
        /\ buffer_size(st) \in 0 .. SendCapacity
    BY <1>2, <2>1 DEF write, accepted, remaining_capacity, buffer_size, smaller, Stream
  <2>3. ~eof(s.stream)
    BY <2>1 DEF eof
  <2> HIDE DEF st
  <2> QED BY <1>2, <1>3, <2>1, <2>2, <2>3 DEF st
<1>5. CASE EndInput
  <2> DEFINE st == end_input(s.stream)
  <2>1. /\ st \in Stream /\ st.popped = s.stream.popped /\ st.failed = s.stream.failed
        /\ st.written = s.stream.written /\ buffer_size(st) = buffer_size(s.stream) /\ st.ended
    BY <1>2, Zenon DEF end_input, buffer_size, Stream
  <2>2. Call([s EXCEPT !.stream = st])
    BY <1>5 DEF EndInput
  <2> HIDE DEF st
  <2> QED BY <1>2, <1>3, <2>1, <2>2 DEF eof
<1>6. CASE FillWindow
  <2> DEFINE y == fill_window(s)
  <2>1. Good(y) /\ Bounded(s, y)
    BY <1>1, FillStep DEF Bounded, Good, Sender
  <2> QED BY <1>6, <2>1, CallStep DEF FillWindow
<1>7. CASE AckReceived
  <2>1. PICK d \in 0 - (Mod \div 4) .. Mod \div 2 - 1 : \E w \in Windows :
          Call(ack_received(s, wrap(s.last_ack_no + d, s.isn), w))
    BY <1>7 DEF AckReceived
  <2>2. PICK w \in Windows : Call(ack_received(s, wrap(s.last_ack_no + d, s.isn), w))
    BY <2>1
  <2>3. w \in Nat
    BY DriverAssumption
  <2>4. s.last_ack_no + d \in Int /\ s.isn \in Int
    BY <1>1, ModAssumption DEF Good, Sender, WrappingInt32
  <2>5. wrap(s.last_ack_no + d, s.isn) \in WrappingInt32
    BY <2>4, WrapInRange
  <2> DEFINE y == ack_received(s, wrap(s.last_ack_no + d, s.isn), w)
  <2>6. Good(y) /\ s.last_ack_no <= y.last_ack_no /\ y.next_seq_no = s.next_seq_no
    BY <1>1, <2>3, <2>5, AckStep
  <2> HIDE DEF y
  <2>7. Bounded(s, y)
    BY <1>1, <2>6 DEF Bounded, Good, Sender
  <2> QED BY <2>2, <2>6, <2>7, CallStep DEF y
<1>8. CASE Tick
  <2>1. PICK ms \in 1 .. RtTimeout : Call(sender_tick(s, ms))
    BY <1>8 DEF Tick
  <2> DEFINE y == sender_tick(s, ms)
  <2>2. Good(y) /\ y.last_ack_no = s.last_ack_no /\ y.next_seq_no = s.next_seq_no
    BY <1>1, TickStep
  <2> HIDE DEF y
  <2> QED BY <1>1, <2>1, <2>2, StillBounded, CallStep DEF y
<1>9. CASE SendEmpty
  <2>1. PICK q : send_empty_segment(s) = s \/ send_empty_segment(s) = [s EXCEPT !.segments_out = q]
    BY Zenon DEF send_empty_segment
  <2> DEFINE y == send_empty_segment(s)
  <2>2. Good(y) /\ y.last_ack_no = s.last_ack_no /\ y.next_seq_no = s.next_seq_no
    BY <1>1, <2>1, Queued
  <2> HIDE DEF y
  <2> QED BY <1>1, <1>9, <2>2, StillBounded, CallStep DEF SendEmpty, y
<1>10. CASE Fail
  <2> DEFINE st == set_error(s.stream)
  <2>1. /\ st \in Stream /\ st.popped = s.stream.popped /\ st.ended = s.stream.ended
        /\ st.written = s.stream.written /\ buffer_size(st) = buffer_size(s.stream)
    BY <1>2, Zenon DEF set_error, buffer_size, Stream
  <2>2. Call([s EXCEPT !.stream = st]) /\ s.next_seq_no > 0
    BY <1>10 DEF Fail
  <2> HIDE DEF st
  <2> QED BY <1>2, <1>3, <2>1, <2>2 DEF eof
<1>11. CASE UNCHANGED vars
  BY <1>1, <1>11, StillBounded DEF Inv, vars
<1> QED BY <1>4, <1>5, <1>6, <1>7, <1>8, <1>9, <1>10, <1>11 DEF Next

\* The invariant holds throughout.
LEMMA AlwaysInv == Spec => []Inv
  BY InitInv, NextInv, PTL DEF Spec

-----------------------------------------------------------------------------

(***************************************************************************)
(* The retransmission timer of TCPSender runs exactly while a segment is   *)
(* outstanding, and never expires without one: the assert in tick holds.   *)
(***************************************************************************)
THEOREM TimerWatches == Spec => []TimerIffOutstanding
<1>1. Inv => TimerIffOutstanding
  BY DEF Inv, Good, Watched, TimerIffOutstanding
<1> QED BY <1>1, AlwaysInv, PTL

(***************************************************************************)
(* fill_window gives SYN, bytes and FIN one number each; the FIN is sent   *)
(* once and only when the stream has ended and is used up.                 *)
(***************************************************************************)
THEOREM NumbersFollowStream == Spec => []NumbersMatchStream
<1>1. Inv => NumbersMatchStream
  BY DEF Inv, Good, Numbered, NumbersMatchStream
<1> QED BY <1>1, AlwaysInv, PTL

(***************************************************************************)
(* fill_window sends no number beyond the window advertised last, a closed *)
(* one counting as one, however the window moved since.                    *)
(***************************************************************************)
THEOREM StaysInWindow == Spec => RespectsWindow
<1>1. Inv /\ [Next]_vars =>
        [s'.next_seq_no > s.next_seq_no =>
           s'.next_seq_no <= s.last_ack_no + larger(s.window_size, 1)]_vars
  BY NextInv DEF Bounded
<1> QED BY <1>1, AlwaysInv, PTL DEF Spec, RespectsWindow
=============================================================================
