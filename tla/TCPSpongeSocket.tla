-------------------------- MODULE TCPSpongeSocket --------------------------
(***************************************************************************)
(* libsponge/tcp_helpers/tcp_sponge_socket.{hh,cc} over util/eventloop.cc: *)
(* a TCPConnection run by an event loop in a thread of its own, and the    *)
(* owner's thread at the other end of a local stream socket (the pipe).    *)
(* connect and listen_and_accept run the same loop in the owner's thread.  *)
(* One pass of the loop is a poll, the callbacks of the rules found ready, *)
(* in order, and a tick; the owner and the peer act between any two of     *)
(* these.  The peer (external) is an endpoint that takes a datagram as     *)
(* soon as it is sent and answers through inbox; nothing is lost.          *)
(***************************************************************************)
EXTENDS TCPConnection

CONSTANTS
  PipeRoom,    \* how many bytes the pipe holds in each direction
  WriteLimit,  \* how many bytes rule 3 writes at most (65536)
  OwnerBytes,  \* how many bytes the owner writes
  PeerBytes,   \* how many bytes the peer writes
  OwnIsn, PeerIsn

ASSUME SocketAssumption ==
  /\ PipeRoom \in Nat \ {0} /\ WriteLimit \in Nat \ {0}
  /\ OwnerBytes \in Nat /\ PeerBytes \in Nat
  /\ OwnIsn \in WrappingInt32 /\ PeerIsn \in WrappingInt32

VARIABLES
  tcp,     \* _tcp
  loop,    \* the event loop: its position, the rules left, the ready ones not yet served
  flags,   \* _thread_data.eof(), _inbound_shutdown, _outbound_shutdown, _abort
  pipe,    \* bytes in each direction and what was shut down
  owner,   \* the owner's thread: what it does, and how many bytes it wrote and read
  peer,    \* the other endpoint
  alive,   \* the peer's host has not gone away without a word
  inbox    \* datagrams waiting to be read by the adapter

vars == <<tcp, loop, flags, pipe, owner, peer, alive, inbox>>

-----------------------------------------------------------------------------
(* The rules of _initialize_TCP: 1 datagram in, 2 pipe to outbound stream, *)
(* 3 inbound stream to pipe, 4 datagrams out.                              *)

Rules == 1 .. 4

Inbound(c) == c.receiver.reassembler.out

Room(c) == remaining_capacity(c.sender.stream, SendCapacity)

FinishedWithBytesLeft(c) == Inbound(c).ended \/ Inbound(c).failed

Finished(c) == eof(Inbound(c)) \/ Inbound(c).failed

WantsDatagrams(c) == c.active

WantsPipe(c) == c.active /\ ~flags.outbound_shutdown /\ Room(c) > 0

DeliversAgain(c) == buffer_size(Inbound(c)) > 0 \/ Finished(c)

WantsToDeliver(c) == buffer_size(Inbound(c)) > 0 \/ (Finished(c) /\ ~flags.inbound_shutdown)

SendsWhileActive(c) == c.active /\ c.out # << >>

WantsToSend(c) == c.out # << >>

interest(i, c) ==
  CASE i = 1 -> WantsDatagrams(c)
    [] i = 2 -> WantsPipe(c)
    [] i = 3 -> WantsToDeliver(c)
    [] i = 4 -> WantsToSend(c)

\* poll(2) on a datagram socket and on a local stream socket.
Ready(i) ==
  CASE i = 1 -> inbox # << >>
    [] i = 2 -> pipe.down > 0 \/ pipe.down_ended
    [] i = 3 -> pipe.up < PipeRoom
    [] i = 4 -> TRUE

\* Both directions of the pipe are shut down.
HungUp == pipe.down_ended /\ (pipe.up_ended \/ pipe.deaf)

Init ==
  /\ \E role \in {"connecting", "listening"} :
       /\ owner = [at |-> role, wrote |-> 0, got |-> 0]
       /\ tcp = IF role = "connecting" THEN connect(NewConnection(OwnIsn)) ELSE NewConnection(OwnIsn)
  /\ loop = [at |-> "poll", rules |-> Rules, todo |-> {}, idle |-> FALSE]
  /\ flags = [eof |-> FALSE, inbound_shutdown |-> FALSE, outbound_shutdown |-> FALSE, abort |-> FALSE]
  /\ pipe = [down |-> 0, down_ended |-> FALSE, up |-> 0, up_ended |-> FALSE, deaf |-> FALSE]
  /\ peer = NewConnection(PeerIsn) /\ alive = TRUE
  /\ inbox = << >>

-----------------------------------------------------------------------------
(* The peer.                                                               *)

\* Its segments go to inbox, and its application reads at once.
PeerBecomes(p) ==
  /\ inbox' = inbox \o p.out
  /\ peer' = [p EXCEPT !.out = << >>, !.receiver.reassembler.out = read(@, buffer_size(@))]
  /\ UNCHANGED alive

PeerTakes(segs) ==
  PeerBecomes(FoldLeft(LAMBDA p, seg : IF p.active THEN segment_received(p, seg) ELSE p, peer, segs))

CanPeerConnect == owner.at = "listening" /\ sender_state(peer.sender) = "closed"

PeerConnect ==
  /\ CanPeerConnect
  /\ PeerBecomes(connect(peer)) /\ UNCHANGED <<tcp, loop, flags, pipe, owner>>

PeerOpen == peer.active /\ sender_state(peer.sender) = "syn_acked"

PeerWrite ==
  /\ PeerOpen /\ ~peer.sender.stream.ended /\ peer.sender.stream.written < PeerBytes
  /\ PeerBecomes(conn_write(peer, PeerBytes)) /\ UNCHANGED <<tcp, loop, flags, pipe, owner>>

CanPeerEnd == PeerOpen /\ ~peer.sender.stream.ended

PeerEnd ==
  /\ CanPeerEnd
  /\ PeerBecomes(end_input_stream(peer)) /\ UNCHANGED <<tcp, loop, flags, pipe, owner>>

PeerAbort ==
  /\ peer.active /\ sender_state(peer.sender) # "closed"
  /\ PeerBecomes([destruct(peer) EXCEPT !.active = FALSE])
  /\ UNCHANGED <<tcp, loop, flags, pipe, owner>>

\* It takes and answers nothing from now on.
PeerVanishes ==
  /\ peer.active /\ sender_state(peer.sender) # "closed"
  /\ peer' = [peer EXCEPT !.active = FALSE] /\ alive' = FALSE
  /\ UNCHANGED <<tcp, loop, flags, pipe, owner, inbox>>

-----------------------------------------------------------------------------
(* The event loop: one poll, the callbacks, one tick.                      *)

\* wait_next_event up to the return of poll.  A rule for reading whose
\* descriptor reached its end is cancelled (rule 2 alone can), and so is one
\* that only hangs up; with no rule interested the loop ends.
Poll ==
  LET cancelled == {i \in loop.rules : i = 2 /\ flags.eof}
      c == IF cancelled = {} THEN tcp ELSE end_input_stream(tcp)
      polled == {i \in loop.rules \ cancelled : interest(i, c)}
      ready == {i \in polled : Ready(i)}
      defunct == {i \in polled \ ready : i = 3 /\ HungUp}
  IN  /\ loop.at = "poll"
      /\ tcp' = c
      /\ loop' = [at |-> IF polled = {} THEN "exit" ELSE IF ready = {} THEN "tick" ELSE "serve",
                  rules |-> loop.rules \ (cancelled \cup defunct), todo |-> ready, idle |-> ready = {}]
      /\ UNCHANGED <<flags, pipe, owner, peer, alive, inbox>>

\* The callback of rule i runs, on readiness that may be out of date.
Serve(i) ==
  /\ loop.at = "serve" /\ i \in loop.todo /\ \A j \in loop.todo : i <= j
  /\ loop' = [loop EXCEPT !.todo = @ \ {i}, !.at = IF loop.todo = {i} THEN "tick" ELSE @]

DatagramIn ==
  /\ Serve(1)
  /\ tcp' = segment_received(tcp, Head(inbox)) /\ inbox' = Tail(inbox)
  /\ UNCHANGED <<flags, pipe, owner, peer, alive>>

PipeIn ==
  LET n == smaller(pipe.down, Room(tcp))
      ended == n = 0 /\ Room(tcp) > 0
      written == conn_write(tcp, n)
  IN  /\ Serve(2)
      /\ pipe' = [pipe EXCEPT !.down = @ - n]
      /\ flags' = [flags EXCEPT !.eof = @ \/ ended, !.outbound_shutdown = @ \/ ended]
      /\ tcp' = IF ended THEN end_input_stream(written) ELSE written
      /\ UNCHANGED <<owner, peer, alive, inbox>>

\* Bytes cannot be written to a pipe that is shut down.
Broken == buffer_size(Inbound(tcp)) > 0 /\ (pipe.up_ended \/ pipe.deaf)

PipeOut ==
  LET n == smaller(smaller(WriteLimit, buffer_size(Inbound(tcp))), PipeRoom - pipe.up)
      popped == [tcp EXCEPT !.receiver.reassembler.out = read(@, n)]
  IN  /\ ~Broken /\ Serve(3)
      /\ tcp' = popped
      /\ pipe' = [pipe EXCEPT !.up = @ + n, !.up_ended = @ \/ Finished(popped)]
      /\ flags' = [flags EXCEPT !.inbound_shutdown = @ \/ Finished(popped)]
      /\ UNCHANGED <<owner, peer, alive, inbox>>

\* SIGPIPE, which the library leaves at its default, ends the process.
BrokenPipe ==
  /\ Broken /\ loop.at = "serve" /\ 3 \in loop.todo /\ \A j \in loop.todo : 3 <= j
  /\ loop' = [loop EXCEPT !.at = "killed"] /\ owner' = [owner EXCEPT !.at = "killed"]
  /\ UNCHANGED <<tcp, flags, pipe, peer, alive, inbox>>

DatagramsOut ==
  /\ Serve(4)
  /\ tcp' = [tcp EXCEPT !.out = << >>] /\ PeerTakes(tcp.out)
  /\ UNCHANGED <<flags, pipe, owner>>

\* connect() and listen_and_accept() return when their state is left.
Handshaking(at, c) ==
  \/ at = "connecting" /\ In(c, "SYN_SENT")
  \/ at = "listening" /\ (In(c, "LISTEN") \/ In(c, "SYN_RCVD") \/ In(c, "SYN_SENT"))

\* The rest of _tcp_loop.  Time passes while poll finds nothing.
Tick ==
  LET ms == IF loop.idle THEN 1 ELSE 0
      c == IF tcp.active THEN tick(tcp, ms) ELSE tcp
  IN  /\ loop.at = "tick" /\ ~flags.abort
      /\ tcp' = c
      /\ loop' = [loop EXCEPT !.at = "poll"]
      /\ owner' = [owner EXCEPT !.at = IF @ \in {"connecting", "listening"} /\ ~Handshaking(@, c)
                                       THEN "open" ELSE @]
      /\ IF peer.active THEN PeerBecomes(tick(peer, ms)) ELSE UNCHANGED <<peer, alive, inbox>>
      /\ UNCHANGED <<flags, pipe>>

Abort ==
  /\ loop.at = "tick" /\ flags.abort
  /\ loop' = [loop EXCEPT !.at = "exit"]
  /\ UNCHANGED <<tcp, flags, pipe, owner, peer, alive, inbox>>

\* The end of _tcp_main: shut down the owner's end of the pipe, destroy _tcp.
Exit ==
  /\ loop.at = "exit"
  /\ loop' = [loop EXCEPT !.at = "gone"]
  /\ pipe' = [pipe EXCEPT !.down_ended = TRUE, !.up_ended = TRUE]
  /\ tcp' = destruct(tcp)
  /\ UNCHANGED <<flags, owner, peer, alive, inbox>>

Thread == \/ Poll \/ DatagramIn \/ PipeIn \/ PipeOut \/ BrokenPipe \/ DatagramsOut
          \/ Tick \/ Abort \/ Exit

-----------------------------------------------------------------------------
(* The owner's thread, once connected.  It calls wait_until_closed only    *)
(* after it has read to the end, as the note on that method asks.          *)

CanWrite == /\ owner.at = "open" /\ owner.wrote < OwnerBytes
            /\ ~pipe.down_ended /\ pipe.down < PipeRoom

OwnerWrite ==
  /\ CanWrite
  /\ pipe' = [pipe EXCEPT !.down = @ + 1] /\ owner' = [owner EXCEPT !.wrote = @ + 1]
  /\ UNCHANGED <<tcp, loop, flags, peer, alive, inbox>>

CanEnd == owner.at = "open" /\ ~pipe.down_ended

OwnerEnd ==
  /\ CanEnd
  /\ pipe' = [pipe EXCEPT !.down_ended = TRUE]
  /\ UNCHANGED <<tcp, loop, flags, owner, peer, alive, inbox>>

CanRead == owner.at = "open" /\ pipe.up > 0

OwnerRead ==
  /\ CanRead
  /\ pipe' = [pipe EXCEPT !.up = @ - 1] /\ owner' = [owner EXCEPT !.got = @ + 1]
  /\ UNCHANGED <<tcp, loop, flags, peer, alive, inbox>>

SeesEnd == owner.at = "open" /\ pipe.up = 0 /\ pipe.up_ended

wait_until_closed ==
  /\ SeesEnd
  /\ owner' = [owner EXCEPT !.at = "joining"]
  /\ pipe' = [pipe EXCEPT !.down_ended = TRUE, !.deaf = TRUE]
  /\ UNCHANGED <<tcp, loop, flags, peer, alive, inbox>>

\* ~TCPSpongeSocket while the thread may still run.
Destroy ==
  /\ owner.at = "open"
  /\ owner' = [owner EXCEPT !.at = "joining"] /\ flags' = [flags EXCEPT !.abort = TRUE]
  /\ UNCHANGED <<tcp, loop, pipe, peer, alive, inbox>>

CanJoin == owner.at = "joining" /\ loop.at = "gone"

Join ==
  /\ CanJoin
  /\ owner' = [owner EXCEPT !.at = "done"]
  /\ UNCHANGED <<tcp, loop, flags, pipe, peer, alive, inbox>>

Next ==
  \/ Thread
  \/ OwnerWrite \/ OwnerEnd \/ OwnerRead \/ wait_until_closed \/ Destroy \/ Join
  \/ PeerConnect \/ PeerWrite \/ PeerEnd \/ PeerAbort \/ PeerVanishes

Spec == Init /\ [][Next]_vars

\* The event loop runs on, and owner and peer finish what they began: the owner
\* reads, ends its stream and waits, the peer connects and ends its stream.
FairSpec ==
  /\ Spec
  /\ <>[](loop.at \notin {"gone", "killed"}) => []<><<Thread>>_vars
  /\ <>[]CanEnd => []<><<OwnerEnd>>_vars
  /\ <>[]CanRead => []<><<OwnerRead>>_vars
  /\ <>[]SeesEnd => []<><<wait_until_closed>>_vars
  /\ <>[]CanJoin => []<><<Join>>_vars
  /\ <>[]CanPeerConnect => []<><<PeerConnect>>_vars
  /\ <>[]CanPeerEnd => []<><<PeerEnd>>_vars

-----------------------------------------------------------------------------

Reset == tcp.sender.stream.failed

(***************************************************************************)
(* An owner that reads to the end has read everything the peer wrote, and  *)
(* the peer had ended its stream, unless the connection was reset or the   *)
(* owner itself gave up: the pipe is not shut down early.                  *)
(***************************************************************************)
EndMeansAll ==
  SeesEnd /\ ~Reset => peer.sender.stream.ended /\ owner.got = peer.sender.stream.written

(***************************************************************************)
(* A thread that ends by itself has nothing left to do: every segment was  *)
(* sent, the RST of a connection that gave up included, and unless the     *)
(* connection was reset or the peer is no more, all the owner wrote before *)
(* ending its stream was received by the peer, to the end.                 *)
(***************************************************************************)
NothingLeftBehind ==
  loop.at = "gone" /\ ~flags.abort =>
    /\ tcp.out = << >>
    /\ Reset \/ ~alive \/ (Inbound(peer).ended /\ Inbound(peer).written = owner.wrote)

(***************************************************************************)
(* A broken pipe ends the process only after a reset: a connection that    *)
(* ends in order shuts the pipe down when all bytes are in it.             *)
(***************************************************************************)
DiesOnlyOfReset == loop.at = "killed" => Reset

(***************************************************************************)
(* "When a connected socket is destructed, it will send a RST"             *)
(* (tcp_sponge_socket.hh:75).                                              *)
(***************************************************************************)
DestructorResets ==
  loop.at = "gone" /\ flags.abort /\ tcp.active => Inbound(peer).failed \/ ~peer.active

(***************************************************************************)
(* The owner gets its thread back: wait_until_closed (after the end) and   *)
(* the destructor return, also when the peer has vanished and the          *)
(* connection has to give up.  The one exception is an owner that waits    *)
(* for a peer which acknowledged everything and then vanished: nothing is  *)
(* outstanding, so no timer runs (tcp_connection.cc:113-124).              *)
(***************************************************************************)
OwnerIsDone ==
  <>(owner.at \in {"done", "killed"} \/ (~alive /\ inbox = << >> /\ In(tcp, "FIN_WAIT_2")))
=============================================================================
