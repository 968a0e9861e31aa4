------------------------------ MODULE TCPPair ------------------------------
(***************************************************************************)
(* Two TCPConnections, their applications and the network between them.    *)
(* The network loses, duplicates and reorders segments; both endpoints see *)
(* the same clock.  The owner of an endpoint (tcp_sponge_socket.cc) calls  *)
(* it only while it is active, hands every queued segment to the network,  *)
(* and lets the application write only once the handshake is over.         *)
(***************************************************************************)
EXTENDS TCPConnection

CONSTANTS
  EndPoint,   \* the two endpoints
  Client,     \* the endpoints that may call connect() instead of listening
  Isn,        \* initial sequence number of each endpoint
  Bytes,      \* how many bytes each application writes before ending
  MaxFaults   \* bound on the segments lost, delivered twice or held for a tick

ASSUME PairAssumption ==
  /\ Cardinality(EndPoint) = 2 /\ Client \subseteq EndPoint /\ Client # {}
  /\ Isn \in [EndPoint -> WrappingInt32] /\ Bytes \in [EndPoint -> Nat]
  /\ MaxFaults \in Nat

VARIABLES
  conn,     \* the endpoints
  dialed,   \* the endpoints that called connect()
  net,      \* the segments in flight, each with the endpoint it is for
  faults    \* how often one was lost, delivered and kept, or overtaken by the clock

vars == <<conn, dialed, net, faults>>

Peer(e) == CHOOSE f \in EndPoint : f # e

Init == /\ conn = [e \in EndPoint |-> NewConnection(Isn[e])]
        /\ dialed = {} /\ net = {} /\ faults = 0

\* The segments queued by the endpoints in after join those in flight, except
\* the ones the network loses.  (more: the other faults of this step.)
Transmit(after, inflight, more) ==
  \E called \in {after} :   \* the calls are evaluated once
    LET sent == UNION {{Peer(e)} \X ToSet(called[e].out) : e \in EndPoint} IN
    /\ conn' = [e \in EndPoint |-> [called[e] EXCEPT !.out = << >>]]
    /\ \E gone \in SUBSET sent :
         /\ faults' = faults + more + Cardinality(gone)
         /\ faults' <= MaxFaults
         /\ net' = inflight \cup (sent \ gone)

Call(e, after, inflight) == Transmit([conn EXCEPT ![e] = after], inflight, 0)

-----------------------------------------------------------------------------
(* The steps, each with the condition under which it can be taken.         *)

CanConnect(e) == e \in Client /\ sender_state(conn[e].sender) = "closed"

Connect(e) ==
  /\ CanConnect(e)
  /\ Call(e, connect(conn[e]), net)
  /\ dialed' = dialed \cup {e}

\* The owner opens the application's side when connect() or accept() returns.
Opened(e) == /\ conn[e].active
             /\ ~In(conn[e], "LISTEN") /\ ~In(conn[e], "SYN_SENT")
             /\ e \in dialed \/ ~In(conn[e], "SYN_RCVD")

CanWrite(e) ==
  LET st == conn[e].sender.stream
  IN  st.written < Bytes[e] /\ remaining_capacity(st, SendCapacity) > 0 /\ Opened(e)

Write(e) ==
  /\ CanWrite(e)
  /\ Call(e, conn_write(conn[e], Bytes[e] - conn[e].sender.stream.written), net)
  /\ UNCHANGED dialed

CanEnd(e) ==
  LET st == conn[e].sender.stream IN st.written = Bytes[e] /\ ~st.ended /\ Opened(e)

EndInput(e) ==
  /\ CanEnd(e)
  /\ Call(e, end_input_stream(conn[e]), net)
  /\ UNCHANGED dialed

CanRead(e) == buffer_size(conn[e].receiver.reassembler.out) > 0

\* Reading tells the peer nothing: no segment announces the wider window.
Read(e) ==
  /\ CanRead(e)
  /\ \E n \in 1 .. buffer_size(conn[e].receiver.reassembler.out) :
       conn' = [conn EXCEPT ![e].receiver.reassembler.out = read(@, n)]
  /\ UNCHANGED <<dialed, net, faults>>

InFlight(e) == {m \in net : m[1] = e}

CanDeliver(e) == conn[e].active /\ InFlight(e) # {}

Deliver(e) ==
  /\ CanDeliver(e)
  /\ \E m \in InFlight(e) : Call(e, segment_received(conn[e], m[2]), net \ {m})
  /\ UNCHANGED dialed

DeliverAndKeep(e) ==
  /\ CanDeliver(e) /\ faults < MaxFaults
  /\ \E m \in InFlight(e) :
       Transmit([conn EXCEPT ![e] = segment_received(@, m[2])], net, 1)
  /\ UNCHANGED dialed

\* Segments for an endpoint that is gone reach nobody.
CanDiscard(e) == ~conn[e].active /\ InFlight(e) # {}

Discard(e) ==
  /\ CanDiscard(e)
  /\ net' = net \ InFlight(e)
  /\ UNCHANGED <<conn, dialed, faults>>

\* Time matters to an endpoint that waits for an answer or lingers.
CanTick ==
  /\ \E e \in EndPoint : /\ conn[e].active /\ sender_state(conn[e].sender) # "closed"
                         /\ conn[e].sender.timer.started \/ conn[e].ms < Linger
  /\ net = {} \/ faults < MaxFaults

\* One unit of time passes for both endpoints.  It is a fault of the network to
\* hold what is in flight meanwhile, as a timeout may then race a late answer.
Tick ==
  /\ CanTick
  /\ Transmit([e \in EndPoint |-> IF conn[e].active THEN tick(conn[e], 1) ELSE conn[e]],
              net, IF net = {} THEN 0 ELSE 1)
  /\ UNCHANGED dialed

Next ==
  \/ Tick
  \/ \E e \in EndPoint : \/ Connect(e) \/ Write(e) \/ EndInput(e) \/ Read(e)
                         \/ Deliver(e) \/ DeliverAndKeep(e) \/ Discard(e)

Spec == Init /\ [][Next]_vars

\* A step is Deliver(e) when it takes what is in flight to an active endpoint.
Delivered(e) == conn[e].active /\ ~(InFlight(e) \subseteq net')

\* Weak fairness of every step but DeliverAndKeep: the event loops of the owners
\* serve each ready descriptor and the clock, a segment that is not lost arrives,
\* and the applications go on.  (Can... says when the step is enabled, and each
\* step changes vars; TLC is slow to find that out from WF_vars by itself, and to
\* find out from Deliver(e) whether a step is one.)
FairSpec ==
  /\ Spec
  /\ <>[]CanTick => []<><<Tick>>_vars
  /\ \A e \in EndPoint :
       /\ <>[]CanConnect(e) => []<><<Connect(e)>>_vars
       /\ <>[]CanWrite(e) => []<><<Write(e)>>_vars
       /\ <>[]CanEnd(e) => []<><<EndInput(e)>>_vars
       /\ <>[]CanRead(e) => []<><<Read(e)>>_vars
       /\ <>[]CanDeliver(e) => []<><<Delivered(e)>>_vars
       /\ <>[]CanDiscard(e) => []<><<Discard(e)>>_vars

-----------------------------------------------------------------------------

Sender(e) == conn[e].sender

Output(e) == conn[e].receiver.reassembler

(***************************************************************************)
(* What an application reads is a prefix of what the other one wrote: no   *)
(* byte lost, repeated, exchanged or invented, whatever the network does.  *)
(***************************************************************************)
ReadsWhatWasWritten == \A e \in EndPoint :
  LET r == Output(e) IN
  /\ r.assembled = [i \in 1 .. r.out.written |-> i - 1]
  /\ r.out.written <= Sender(Peer(e)).stream.written
  /\ r.out.ended => Sender(Peer(e)).stream.ended
                       /\ r.out.written = Sender(Peer(e)).stream.written

(***************************************************************************)
(* A sender takes as acknowledged only what its peer has put out (the SYN, *)
(* the bytes, the end): it never drops a segment that may still be needed. *)
(***************************************************************************)
AckedWasReceived == \A e \in EndPoint :
  LET out == Output(Peer(e)).out
  IN  Sender(e).last_ack_no <=
        (IF conn[Peer(e)].receiver.is_listen THEN 0 ELSE out.written + 1 + One(out.ended))

(***************************************************************************)
(* With an endpoint of this code on the other side, the receive buffer     *)
(* never holds more than its capacity, and neither assert of the           *)
(* reassembler nor the one of the retransmission timer fails.              *)
(***************************************************************************)
BuffersHold == \A e \in EndPoint :
  /\ buffer_size(Output(e).out) + unassembled_bytes(Output(e)) <= Capacity
  /\ Output(e).asserted /\ Sender(e).asserted

Failed(e) == sender_state(Sender(e)) = "error"

(***************************************************************************)
(* The endpoint that skips lingering knows that nothing is left to do: it  *)
(* has put out its peer's whole stream, and its own was received to the    *)
(* end (case 2 of try_clean_shutdown).                                     *)
(***************************************************************************)
PassiveCloseIsComplete == \A e \in EndPoint :
  ~conn[e].active /\ ~conn[e].linger /\ ~Failed(e) =>
    Output(e).out.ended /\ (Failed(Peer(e)) \/ Output(Peer(e)).out.ended)

(***************************************************************************)
(* At most one endpoint skips lingering, so that somebody is left to       *)
(* answer a retransmitted FIN.                                             *)
(***************************************************************************)
SomebodyLingers == \E e \in EndPoint : conn[e].linger \/ Failed(e)

SenderOrder ==
  [closed |-> 1, syn_sent |-> 2, syn_acked |-> 3, fin_sent |-> 4, fin_acked |-> 5, error |-> 6]

ReceiverOrder == [listen |-> 1, syn_recv |-> 2, fin_recv |-> 3, error |-> 4]

(***************************************************************************)
(* The states of sender and receiver are read off counters and flags, and  *)
(* yet only advance: no segment, late or repeated, takes an endpoint back, *)
(* and none wakes one that has become inactive.                            *)
(***************************************************************************)
StatesAdvance ==
  [][\A e \in EndPoint :
       LET was == state(conn[e])
           is == state(conn'[e])
       IN  /\ SenderOrder[was.sender] <= SenderOrder[is.sender]
           /\ ReceiverOrder[was.receiver] <= ReceiverOrder[is.receiver]
           /\ is.active => was.active]_conn

(***************************************************************************)
(* active() is "true if either stream is still running or if the           *)
(* TCPConnection is lingering after both streams have finished"            *)
(* (tcp_connection.hh:93-94): an endpoint that is no longer active, and    *)
(* was not reset, has had its FIN acknowledged and has received one.       *)
(***************************************************************************)
ActiveWhileRunning == \A e \in EndPoint :
  ~conn[e].active /\ ~Failed(e) =>
    sender_state(Sender(e)) = "fin_acked" /\ receiver_state(conn[e].receiver) = "fin_recv"

(***************************************************************************)
(* Both applications read everything the other one wrote, to the end.      *)
(***************************************************************************)
EverythingArrives ==
  <>(\A e \in EndPoint : Output(e).out.ended /\ Output(e).out.popped = Bytes[Peer(e)])

(***************************************************************************)
(* Both connections end, and neither by a reset.                           *)
(***************************************************************************)
BothClose == <>[](\A e \in EndPoint : ~conn[e].active /\ ~Failed(e))
=============================================================================
