---------------------------- MODULE TCPReceiver ----------------------------
(***************************************************************************)
(* libsponge/tcp_receiver.{hh,cc}: the receiving half of an endpoint, a    *)
(* StreamReassembler fed with the payloads of segments, which turns its    *)
(* progress into the ackno and the window for the peer.                    *)
(***************************************************************************)
EXTENDS WrappingIntegers, StreamReassembler

CONSTANT NoNumber   \* an empty optional<WrappingInt32>

NewReceiver == [reassembler |-> NewReassembler, isn |-> NoNumber, is_listen |-> TRUE]

receiver_state(rc) ==
  IF rc.reassembler.out.failed THEN "error"
  ELSE IF rc.is_listen THEN "listen"
  ELSE IF rc.reassembler.out.ended THEN "fin_recv"
  ELSE "syn_recv"

AckFinEarly(rc) ==
  IF receiver_state(rc) \notin {"syn_recv", "fin_recv"} THEN 0
  ELSE rc.reassembler.out.written + (IF rc.reassembler.eof_index = NoEof THEN 1 ELSE 2)

abs_ack_no(rc) ==
  CASE receiver_state(rc) = "syn_recv" -> rc.reassembler.out.written + 1
    [] receiver_state(rc) = "fin_recv" -> rc.reassembler.out.written + 2
    [] OTHER -> 0

ackno(rc) ==
  IF receiver_state(rc) \in {"error", "listen"} THEN NoNumber ELSE wrap(abs_ack_no(rc), rc.isn)

WindowIgnoringReader(rc) == Capacity

window_size(rc) == Capacity - buffer_size(rc.reassembler.out)

\* The SYN takes a number of its own, so the payload starts one later.
receiver_segment_received(rc, seg) ==
  LET opened == IF receiver_state(rc) = "listen"
                THEN [rc EXCEPT !.is_listen = FALSE, !.isn = seg.seqno] ELSE rc
      first == IF seg.syn THEN Plus(seg.seqno, 1) ELSE seg.seqno
      abs_seq_no == unwrap(first, opened.isn, abs_ack_no(opened))
  IN  IF receiver_state(rc) = "listen" /\ ~seg.syn THEN rc
      ELSE IF abs_seq_no > 0
      THEN [opened EXCEPT !.reassembler =
              push_substring(@, seg.payload, abs_seq_no - 1, seg.fin)]
      ELSE opened
=============================================================================
