---------------------------- MODULE SenderLoops ----------------------------
(***************************************************************************)
(* The loops of TCPSender::fill_window and TCPSender::ack_received, one    *)
(* iteration at a time, against the definitions of module TCPSender, which *)
(* say in one step what the loops leave behind.                            *)
(***************************************************************************)
EXTENDS SenderSpec

\* One iteration sends one segment; free_window, stream_size and state() are
\* taken afresh each time.
RECURSIVE FillLoop(_)
FillLoop(x) ==
  LET free == free_window_size(x)
      stream_size == buffer_size(x.stream)
      need_send_fin == x.stream.ended /\ sender_state(x) = "syn_acked"
      send_size == smaller(smaller(stream_size, free), MaxPayload)
      after == read(x.stream, send_size)
      seg == Segment(wrap(x.next_seq_no, x.isn),
                     [j \in 1 .. send_size |-> x.stream.popped + j - 1], FALSE,
                     eof(after) /\ free > send_size /\ need_send_fin)
  IN  IF free = 0 \/ (stream_size = 0 /\ ~need_send_fin) THEN x
      ELSE FillLoop([send_segments(x, <<seg>>, length_in_sequence_space(seg))
                       EXCEPT !.stream = after])

\* One iteration looks at the front segment; the timer was reset before the loop.
RECURSIVE AckLoop(_, _)
AckLoop(x, ack) ==
  LET seg == Head(x.outstanding)
      size == length_in_sequence_space(seg)
  IN  IF x.outstanding = << >> THEN x
      ELSE IF unwrap(seg.seqno, x.isn, x.last_ack_no) + size > ack
      THEN [x EXCEPT !.timer = restart(@)]
      ELSE AckLoop([x EXCEPT !.bytes_in_flight = @ - size, !.outstanding = Tail(@)], ack)

-----------------------------------------------------------------------------

(***************************************************************************)
(* In every reachable state, an error included, fill_window leaves what    *)
(* its loop leaves; and for every ACK of new data the loop of ack_received *)
(* pops, subtracts and restarts the timer exactly as DropAcked says.       *)
(***************************************************************************)
LoopsAgree ==
  /\ sender_state(s) # "closed" => fill_window(s) = FillLoop(s)
  /\ \A ack \in s.last_ack_no + 1 .. s.next_seq_no :
       DropAcked(s, ack) =
         AckLoop([s EXCEPT !.timer = reset(@, RtTimeout), !.retransmissions = 0], ack)
=============================================================================
