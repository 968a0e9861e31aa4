----------------------------- MODULE SenderSpec -----------------------------
(***************************************************************************)
(* A TCPSender driven by its owner: an application that writes and then    *)
(* ends the stream, a peer that acknowledges any number near the ones in   *)
(* use (old, repeated, partial, new or never sent) with any window, and a  *)
(* clock.  The owner dequeues segments_out after every call.               *)
(***************************************************************************)
EXTENDS TCPSender

CONSTANTS
  Isns,         \* initial sequence numbers
  MaxWritten,   \* bound on the bytes the application writes
  Windows,      \* windows the peer advertises
  MaxRetx       \* TCPConfig::MAX_RETX_ATTEMPTS: the owner gives up beyond it

ASSUME DriverAssumption == /\ Isns \subseteq WrappingInt32
                           /\ MaxWritten \in Nat
                           /\ Windows \subseteq Nat
                           /\ MaxRetx \in Nat

VARIABLES
  s,        \* the sender
  emitted   \* the segments dequeued after the last call

vars == <<s, emitted>>

Init == /\ \E isn \in Isns : s = NewSender(isn)
        /\ emitted = << >>

\* The call leaves the sender as after; the owner takes what it has queued.
Call(after) == /\ s' = [after EXCEPT !.segments_out = << >>]
               /\ emitted' = after.segments_out

Write == \E n \in 1 .. SendCapacity :
  /\ ~s.stream.ended
  /\ s.stream.written + n <= MaxWritten
  /\ Call([s EXCEPT !.stream = write(@, n, SendCapacity)])

EndInput == ~s.stream.ended /\ Call([s EXCEPT !.stream = end_input(@)])

FillWindow == Call(fill_window(s))

\* Numbers up to a quarter of the sequence space away from the last ACK.
AckReceived == \E d \in 0 - (Mod \div 4) .. Mod \div 2 - 1 : \E w \in Windows :
  /\ s.last_ack_no + d \in 0 .. s.next_seq_no + 1
  /\ Call(ack_received(s, wrap(s.last_ack_no + d, s.isn), w))

Tick == /\ s.retransmissions <= MaxRetx
        /\ \E ms \in 1 .. RtTimeout : Call(sender_tick(s, ms))

SendEmpty == Call(send_empty_segment(s))

\* TCPConnection::unclean_shutdown marks the stream, once the SYN is sent.
Fail == /\ s.next_seq_no > 0 /\ ~s.stream.failed
        /\ Call([s EXCEPT !.stream = set_error(@)])

Next == Write \/ EndInput \/ FillWindow \/ AckReceived \/ Tick \/ SendEmpty \/ Fail

Spec == Init /\ [][Next]_vars

-----------------------------------------------------------------------------

Occupied(q) == FoldLeft(LAMBDA n, seg : n + length_in_sequence_space(seg), 0, q)

\* The absolute number of the first sequence number of the i-th outstanding segment.
Start(i) == s.next_seq_no - Occupied(SubSeq(s.outstanding, i, Len(s.outstanding)))

(***************************************************************************)
(* outstanding_segments_ holds exactly the sent and unacknowledged part of *)
(* the sequence space: its segments are adjacent and end at next_seq_no_,  *)
(* each carries its own number and its own bytes, bytes_in_flight_ is      *)
(* their total, and last_ack_no_ falls inside the first of them (partly    *)
(* acknowledged) or at next_seq_no_.                                       *)
(***************************************************************************)
OutstandingOK ==
  /\ s.bytes_in_flight = Occupied(s.outstanding)
  /\ \A i \in DOMAIN s.outstanding :
       LET seg == s.outstanding[i] IN
       /\ seg.seqno = wrap(Start(i), s.isn)
       /\ length_in_sequence_space(seg) > 0 /\ seg.syn = (Start(i) = 0)
       /\ \A j \in DOMAIN seg.payload : seg.payload[j] = Start(i) - 1 + j - 1
  /\ IF s.outstanding = << >> THEN s.last_ack_no = s.next_seq_no
     ELSE /\ Start(1) <= s.last_ack_no
          /\ s.last_ack_no < Start(1) + length_in_sequence_space(s.outstanding[1])

(***************************************************************************)
(* "If there is no outstanding segment, the timer must be stopped and      *)
(* cannot expire" (tcp_sender.cc:118), and a running timer watches every   *)
(* outstanding segment, whatever ACKs cover.                               *)
(***************************************************************************)
TimerIffOutstanding == (s.timer.started <=> s.outstanding # << >>) /\ s.asserted

(***************************************************************************)
(* The timeout has doubled once per counted retransmission: probes of a    *)
(* closed window neither double it nor count, and an ACK of new data       *)
(* resets both.                                                            *)
(***************************************************************************)
BackoffMatchesCount == s.timer.timeout = RtTimeout * 2 ^ s.retransmissions

(***************************************************************************)
(* SYN, bytes and FIN take one number each and no number is used twice:    *)
(* next_seq_no_ is one past what has left the stream, one more once the    *)
(* FIN is out, which needs the stream to be used up.                       *)
(***************************************************************************)
NumbersMatchStream ==
  \/ s.next_seq_no = 0 /\ s.stream.popped = 0
  \/ s.next_seq_no = s.stream.popped + 1
  \/ s.next_seq_no = s.stream.written + 2 /\ eof(s.stream)

(***************************************************************************)
(* New sequence numbers stay inside the last window the peer advertised, a *)
(* closed window counting as one (tcp_sender.cc:31-38), however the window *)
(* moved while earlier segments were in flight.                            *)
(***************************************************************************)
RespectsWindow ==
  [][s'.next_seq_no > s.next_seq_no =>
       s'.next_seq_no <= s.last_ack_no + larger(s.window_size, 1)]_vars
=============================================================================
