----------------------------- MODULE TCPSender -----------------------------
(***************************************************************************)
(* libsponge/tcp_sender.{hh,cc} with its Timer: the sending half of an     *)
(* endpoint.  The operators take and return the record of all fields, so   *)
(* that TCPConnection can hold one.  Absolute sequence numbers count from  *)
(* the SYN (number 0); a segment carries wrapped ones.                     *)
(***************************************************************************)
EXTENDS WrappingIntegers, Streams, SequencesExt

CONSTANTS
  SendCapacity,   \* TCPConfig::send_capacity
  MaxPayload,     \* TCPConfig::MAX_PAYLOAD_SIZE
  RtTimeout       \* TCPConfig::rt_timeout

ASSUME SenderAssumption == /\ SendCapacity \in Nat \ {0}
                           /\ MaxPayload \in Nat \ {0}
                           /\ RtTimeout \in Nat \ {0}

\* A TCPSegment: the header fields the endpoints use, and the payload as the
\* indices of its bytes in the sender's stream.
Segment(seqno, payload, syn, fin) ==
  [seqno |-> seqno, payload |-> payload, syn |-> syn, fin |-> fin,
   rst |-> FALSE, ack |-> FALSE, ackno |-> 0, win |-> 0]

One(flag) == IF flag THEN 1 ELSE 0

length_in_sequence_space(seg) == Len(seg.payload) + One(seg.syn) + One(seg.fin)

-----------------------------------------------------------------------------
(* Timer                                                                   *)

NewTimer == [timeout |-> RtTimeout, elapsed |-> 0, started |-> FALSE]

restart(t) == [t EXCEPT !.elapsed = 0, !.started = TRUE]

reset(t, timeout) == [timeout |-> timeout, elapsed |-> 0, started |-> FALSE]

timer_tick(t, ms) == IF t.started THEN [t EXCEPT !.elapsed = @ + ms] ELSE t

expired(t) == t.started /\ t.elapsed >= t.timeout

-----------------------------------------------------------------------------
(* TCPSender                                                               *)

NewSender(isn) ==
  [isn |-> isn, segments_out |-> << >>, outstanding |-> << >>, stream |-> NewStream,
   timer |-> NewTimer, retransmissions |-> 0, next_seq_no |-> 0, last_ack_no |-> 0,
   bytes_in_flight |-> 0, window_size |-> 1, asserted |-> TRUE]

sender_state(s) ==
  CASE s.stream.failed -> "error"
    [] ~s.stream.failed /\ s.next_seq_no = 0 -> "closed"
    [] ~s.stream.failed /\ s.next_seq_no > 0 /\ s.next_seq_no = s.bytes_in_flight -> "syn_sent"
    [] OTHER ->
         IF ~eof(s.stream) \/ s.next_seq_no < s.stream.written + 2 THEN "syn_acked"
         ELSE IF s.bytes_in_flight > 0 THEN "fin_sent"
         ELSE "fin_acked"

FreeWithoutProbe(s) ==
  LET unacked == s.next_seq_no - s.last_ack_no
  IN  IF s.window_size <= unacked THEN 0 ELSE s.window_size - unacked

FreeIgnoringFlight(s) == larger(s.window_size, 1)

free_window_size(s) ==
  LET unacked == s.next_seq_no - s.last_ack_no
  IN  IF s.window_size = 0 /\ unacked = 0 THEN 1
      ELSE IF s.window_size <= unacked THEN 0
      ELSE s.window_size - unacked

\* send_segment, for a batch of segments that occupy size sequence numbers.
send_segments(s, batch, size) ==
  [s EXCEPT !.next_seq_no = @ + size,
            !.bytes_in_flight = @ + size,
            !.segments_out = @ \o batch,
            !.outstanding = @ \o batch,
            !.timer = IF batch # << >> /\ ~@.started THEN restart(@) ELSE @]

\* The loop of fill_window sends the next PayloadSize bytes of the stream in
\* pieces of at most MaxPayload, the FIN on the last piece when the stream has
\* ended, is used up and leaves room in the window (module SenderLoops
\* compares this with the loop).
PayloadSize(s) == smaller(buffer_size(s.stream), free_window_size(s))

FinWithoutRoom(s) ==
  s.stream.ended /\ sender_state(s) = "syn_acked"
    /\ buffer_size(s.stream) <= free_window_size(s)

FinAgain(s) ==
  s.stream.ended /\ buffer_size(s.stream) < free_window_size(s)

SendsFin(s) ==
  s.stream.ended /\ sender_state(s) = "syn_acked"
    /\ buffer_size(s.stream) < free_window_size(s)

Pieces(s) ==
  LET size == PayloadSize(s)
      count == IF size = 0 THEN One(SendsFin(s)) ELSE (size + MaxPayload - 1) \div MaxPayload
  IN  [i \in 1 .. count |->
         LET at == (i - 1) * MaxPayload
         IN  Segment(wrap(s.next_seq_no + at, s.isn),
                     [j \in 1 .. smaller(MaxPayload, size - at) |-> s.stream.popped + at + j - 1],
                     FALSE, i = count /\ SendsFin(s))]

FillWithoutReading(s) ==
  IF sender_state(s) = "closed"
  THEN send_segments(s, <<Segment(s.isn, << >>, TRUE, FALSE)>>, 1)
  ELSE send_segments(s, Pieces(s), PayloadSize(s) + One(SendsFin(s)))

fill_window(s) ==
  IF sender_state(s) = "closed"
  THEN send_segments(s, <<Segment(s.isn, << >>, TRUE, FALSE)>>, 1)
  ELSE [send_segments(s, Pieces(s), PayloadSize(s) + One(SendsFin(s)))
          EXCEPT !.stream = read(@, PayloadSize(s))]

-----------------------------------------------------------------------------

FirstStartingAt(s, ack) ==
  Min({i \in 1 .. Len(s.outstanding) :
         unwrap(s.outstanding[i].seqno, s.isn, s.last_ack_no) >= ack}
        \cup {Len(s.outstanding) + 1})

\* The first outstanding segment that ack does not cover entirely.
FirstUnacked(s, ack) ==
  LET covered(seg) == unwrap(seg.seqno, s.isn, s.last_ack_no) + length_in_sequence_space(seg) <= ack
  IN  Min({i \in 1 .. Len(s.outstanding) : ~covered(s.outstanding[i])}
            \cup {Len(s.outstanding) + 1})

\* bytes_in_flight_ without the first count outstanding segments.
InFlightAfter(s, count) ==
  FoldLeft(LAMBDA n, seg : n - length_in_sequence_space(seg), s.bytes_in_flight,
           SubSeq(s.outstanding, 1, count))

DropKeepingTimer(s, ack) ==
  LET first == FirstUnacked(s, ack)
  IN  [s EXCEPT
        !.retransmissions = 0,
        !.bytes_in_flight = InFlightAfter(s, first - 1),
        !.outstanding = SubSeq(@, first, Len(@)),
        !.timer = restart(reset(@, RtTimeout))]

\* An ACK of new data: drop the segments it covers and stop the timer, unless
\* something is still outstanding.
DropAcked(s, ack) ==
  LET first == FirstUnacked(s, ack)
  IN  [s EXCEPT
        !.retransmissions = 0,
        !.bytes_in_flight = InFlightAfter(s, first - 1),
        !.outstanding = SubSeq(@, first, Len(@)),
        !.timer = IF first > Len(s.outstanding) THEN reset(@, RtTimeout)
                  ELSE restart(reset(@, RtTimeout))]

ack_received(s, ackno, window_size) ==
  LET ack == unwrap(ackno, s.isn, s.last_ack_no)
  IN  IF ack <= s.last_ack_no \/ ack > s.next_seq_no
      THEN IF ack = s.last_ack_no THEN [s EXCEPT !.window_size = window_size] ELSE s
      ELSE [DropAcked(s, ack) EXCEPT !.window_size = window_size, !.last_ack_no = ack]

TickCountingProbes(s, ms) ==
  LET t == timer_tick(s.timer, ms)
  IN  IF ~expired(t) THEN [s EXCEPT !.timer = t]
      ELSE [s EXCEPT !.segments_out = Append(@, Head(s.outstanding)),
                     !.retransmissions = @ + 1,
                     !.timer = restart(IF s.window_size > 0 THEN reset(t, 2 * t.timeout) ELSE t)]

TickCountingFlight(s, ms) ==
  LET t == timer_tick(s.timer, ms)
  IN  IF ~expired(t) THEN [s EXCEPT !.timer = t]
      ELSE [s EXCEPT !.segments_out = Append(@, Head(s.outstanding)),
                     !.bytes_in_flight = @ + length_in_sequence_space(Head(s.outstanding)),
                     !.retransmissions = IF s.window_size > 0 THEN @ + 1 ELSE @,
                     !.timer = restart(IF s.window_size > 0 THEN reset(t, 2 * t.timeout) ELSE t)]

\* A timer that expires with nothing outstanding would break the assert.
sender_tick(s, ms) ==
  LET t == timer_tick(s.timer, ms)
  IN  IF ~expired(t) THEN [s EXCEPT !.timer = t]
      ELSE IF s.outstanding = << >> THEN [s EXCEPT !.asserted = FALSE]
      ELSE [s EXCEPT !.segments_out = Append(@, Head(s.outstanding)),
                     !.retransmissions = IF s.window_size > 0 THEN @ + 1 ELSE @,
                     !.timer = restart(IF s.window_size > 0 THEN reset(t, 2 * t.timeout) ELSE t)]

send_empty_segment(s) ==
  IF s.segments_out = << >>
  THEN [s EXCEPT !.segments_out = <<Segment(wrap(s.next_seq_no, s.isn), << >>, FALSE, FALSE)>>]
  ELSE s
=============================================================================
