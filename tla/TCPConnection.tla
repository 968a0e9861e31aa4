--------------------------- MODULE TCPConnection ---------------------------
(***************************************************************************)
(* libsponge/tcp_connection.{hh,cc}: a TCPSender and a TCPReceiver joined  *)
(* into one endpoint.  Each operator is one method and takes and returns   *)
(* the record of all fields; out is segments_out_, which the owner         *)
(* dequeues.                                                               *)
(***************************************************************************)
EXTENDS TCPSender, TCPReceiver

CONSTANTS
  MaxRetx,   \* TCPConfig::MAX_RETX_ATTEMPTS
  Linger,    \* 10 * rt_timeout
  MaxWin     \* numeric_limits<uint16_t>::max()

ASSUME ConnectionAssumption == MaxRetx \in Nat /\ Linger \in Nat /\ MaxWin \in Nat \ {0}

NewConnection(isn) ==
  [sender |-> NewSender(isn), receiver |-> NewReceiver, ms |-> 0, out |-> << >>,
   active |-> TRUE, linger |-> TRUE, need_rst |-> FALSE]

WithAck(c, seg) ==
  IF ackno(c.receiver) = NoNumber THEN seg
  ELSE [seg EXCEPT !.ack = TRUE, !.ackno = ackno(c.receiver),
                   !.win = smaller(window_size(c.receiver), MaxWin)]

\* A connection to be reset marks the first segment of the sender and stops; the
\* segment stays in the sender's queue, its payload moved out.
enqueue_segments(c) ==
  LET queued == c.sender.segments_out
  IN  IF queued = << >> THEN c
      ELSE IF c.need_rst THEN [c EXCEPT !.out = Append(@, [queued[1] EXCEPT !.rst = TRUE]),
                                         !.sender.segments_out[1].payload = << >>]
      ELSE [c EXCEPT !.out = @ \o [i \in DOMAIN queued |-> WithAck(c, queued[i])],
                     !.sender.segments_out = << >>]

CloseBeforeAck(c) ==
  IF \/ c.linger /\ receiver_state(c.receiver) = "fin_recv" /\ c.ms >= Linger
     \/ ~c.linger /\ sender_state(c.sender) \in {"fin_sent", "fin_acked"}
  THEN [c EXCEPT !.active = FALSE] ELSE c

CloseOnlyPassive(c) ==
  IF ~c.linger /\ sender_state(c.sender) = "fin_acked" THEN [c EXCEPT !.active = FALSE] ELSE c

try_clean_shutdown(c) ==
  IF \/ c.linger /\ receiver_state(c.receiver) = "fin_recv" /\ c.ms >= Linger
     \/ ~c.linger /\ sender_state(c.sender) = "fin_acked"
  THEN [c EXCEPT !.active = FALSE] ELSE c

unclean_shutdown(c) ==
  [c EXCEPT !.receiver.reassembler.out = set_error(@), !.sender.stream = set_error(@),
            !.linger = FALSE, !.active = FALSE]

-----------------------------------------------------------------------------
(* segment_received, in the order of its calls.                            *)

Ignored(c, seg) ==
  /\ receiver_state(c.receiver) = "listen" /\ sender_state(c.sender) = "closed"
  /\ ~seg.syn \/ seg.ack \/ seg.rst

Absorb(c, seg) ==
  [c EXCEPT !.ms = 0,
            !.receiver = receiver_segment_received(@, seg),
            !.sender = IF seg.ack THEN ack_received(@, seg.ackno, seg.win) ELSE @]

PassiveWheneverFin(c) ==
  IF receiver_state(c.receiver) = "fin_recv" /\ sender_state(c.sender) # "syn_sent"
  THEN try_clean_shutdown([c EXCEPT !.linger = FALSE]) ELSE c

NotePassiveClose(c) ==
  IF receiver_state(c.receiver) = "fin_recv" /\ sender_state(c.sender) = "syn_acked"
  THEN try_clean_shutdown([c EXCEPT !.linger = FALSE]) ELSE c

\* A segment that occupies numbers, or one just below the window, is answered.
NeedsReply(c, seg) ==
  \/ length_in_sequence_space(seg) > 0
  \/ /\ receiver_state(c.receiver) = "syn_recv"
     /\ seg.seqno = Minus(ackno(c.receiver), 1)

Reply(c, seg) ==
  LET filled == [c EXCEPT !.sender = fill_window(@)]
      answered == IF NeedsReply(filled, seg)
                  THEN [filled EXCEPT !.sender = send_empty_segment(@)] ELSE filled
  IN  enqueue_segments(try_clean_shutdown(answered))

segment_received(c, seg) ==
  IF Ignored(c, seg) THEN c
  ELSE IF seg.rst THEN unclean_shutdown([c EXCEPT !.ms = 0])
  ELSE Reply(NotePassiveClose(Absorb(c, seg)), seg)

-----------------------------------------------------------------------------

conn_write(c, n) ==
  enqueue_segments([c EXCEPT !.sender = fill_window([@ EXCEPT !.stream = write(@, n, SendCapacity)])])

end_input_stream(c) ==
  enqueue_segments([c EXCEPT !.sender = fill_window([@ EXCEPT !.stream = end_input(@)])])

connect(c) == enqueue_segments([c EXCEPT !.sender = fill_window(@)])

\* ms stops at Linger: only ms >= Linger is ever asked.
tick(c, ms) ==
  LET ticked == [c EXCEPT !.ms = smaller(@ + ms, Linger), !.sender = sender_tick(@, ms)]
      reset_it == [unclean_shutdown(ticked) EXCEPT !.need_rst = TRUE,
                                                   !.sender = send_empty_segment(@)]
  IN  enqueue_segments(IF ticked.sender.retransmissions > MaxRetx THEN reset_it
                       ELSE try_clean_shutdown(ticked))

\* ~TCPConnection
destruct(c) ==
  IF ~c.active THEN c
  ELSE enqueue_segments([c EXCEPT !.need_rst = TRUE, !.sender = send_empty_segment(@)])

-----------------------------------------------------------------------------
(* libsponge/tcp_helpers/tcp_state.{hh,cc}: the summary of an endpoint and *)
(* the summaries of the official TCP states.                               *)

state(c) ==
  [sender |-> sender_state(c.sender), receiver |-> receiver_state(c.receiver),
   active |-> c.active, linger |-> c.active /\ c.linger]

Summary(sender, receiver, active, linger) ==
  [sender |-> sender, receiver |-> receiver, active |-> active, linger |-> linger]

TCPState ==
  [LISTEN      |-> Summary("closed", "listen", TRUE, TRUE),
   SYN_RCVD    |-> Summary("syn_sent", "syn_recv", TRUE, TRUE),
   SYN_SENT    |-> Summary("syn_sent", "listen", TRUE, TRUE),
   ESTABLISHED |-> Summary("syn_acked", "syn_recv", TRUE, TRUE),
   CLOSE_WAIT  |-> Summary("syn_acked", "fin_recv", TRUE, FALSE),
   LAST_ACK    |-> Summary("fin_sent", "fin_recv", TRUE, FALSE),
   CLOSING     |-> Summary("fin_sent", "fin_recv", TRUE, TRUE),
   FIN_WAIT_1  |-> Summary("fin_sent", "syn_recv", TRUE, TRUE),
   FIN_WAIT_2  |-> Summary("fin_acked", "syn_recv", TRUE, TRUE),
   TIME_WAIT   |-> Summary("fin_acked", "fin_recv", TRUE, TRUE),
   RESET       |-> Summary("error", "error", FALSE, FALSE),
   CLOSED      |-> Summary("fin_acked", "fin_recv", FALSE, FALSE)]

In(c, name) == state(c) = TCPState[name]
=============================================================================
