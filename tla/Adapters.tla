------------------------------ MODULE Adapters ------------------------------
(***************************************************************************)
(* The adapters between TCP and what carries its segments:                 *)
(* TCPOverUDPSocketAdapter (fd_adapter), TCPOverIPv4OverTunFdAdapter       *)
(* (tcp_over_ip, tuntap_adapter) and the LossyFdAdapter around them.  A    *)
(* server listens; clients write to it over a network that reorders, loses *)
(* and now and then changes a byte.                                        *)
(***************************************************************************)
EXTENDS Datagrams

CONSTANTS
  Server, Clients,   \* the hosts
  Home,              \* address and port of each host
  Sent,              \* the segments TCP writes, their ports not yet set
  MaxInFlight        \* bound on the datagrams in flight

Host == {Server} \cup Clients

Unset == [addr |-> <<0, 0>>, port |-> 0]

ASSUME AdaptersAssumption ==
  /\ Server \notin Clients /\ MaxInFlight \in Nat
  /\ \A h, g \in Host : h # g => Home[h] # Home[g]

VARIABLES
  kind,      \* "udp" or "ip": what the adapters are
  adapter,   \* FdAdapterBase of each host
  net,       \* the datagrams in flight
  last       \* what this step read: the host, who wrote what, the byte that was
             \* changed on the way (0 for none) and the segment

vars == <<kind, adapter, net, last>>

NoSegment == [result |-> "none"]

Nothing == [segment |-> NoSegment]

\* The server's adapter is given a port, a client's the server's address and, over
\* IPv4, its own (over UDP the socket has one that the adapter does not know).
Init ==
  /\ kind \in {"udp", "ip"}
  /\ adapter = [h \in Host |->
       IF h = Server
       THEN [listening |-> TRUE, source |-> [Unset EXCEPT !.port = Home[h].port], destination |-> Unset]
       ELSE [listening |-> FALSE, destination |-> Home[Server],
             source |-> IF kind = "udp" THEN Unset ELSE Home[h]]]
  /\ net = {} /\ last = Nothing

-----------------------------------------------------------------------------
(* Writing.                                                                *)

WithPorts(a, seg) ==
  [seg EXCEPT !.header.sport = a.source.port, !.header.dport = a.destination.port]

wrap_tcp_in_ip(a, seg) ==
  LET s == WithPorts(a, seg)
      header == IPv4Header(a.source.addr, a.destination.addr,
                           5 * 4 + s.header.doff * 4 + Len(s.payload))
  IN  [header |-> header, payload |-> segment_serialize(s, pseudo_cksum(header))]

OnTheWire(a, seg) ==
  IF kind = "udp" THEN segment_serialize(WithPorts(a, seg), 0)
  ELSE datagram_serialize(wrap_tcp_in_ip(a, seg))

\* A server has nothing to say before it has read a SYN.  (A write that the lossy
\* adapter drops changes nothing.)
Write(h) ==
  /\ ~adapter[h].listening /\ Cardinality(net) < MaxInFlight
  /\ \E seg \in Sent :
       net' = net \cup {[by |-> h, to |-> adapter[h].destination, written |-> seg,
                         bytes |-> OnTheWire(adapter[h], seg)]}
  /\ last' = Nothing
  /\ UNCHANGED <<kind, adapter>>

-----------------------------------------------------------------------------
(* Reading: the adapter afterwards, and the segment it returns if any.     *)

Refuse(a) == [adapter |-> a, segment |-> NoSegment]

Opens(s) == "syn" \in s.header.flags /\ "rst" \notin s.header.flags

\* The caller is not remembered: every SYN is taken for the first.
UdpForgetful(a, from, bytes) ==
  LET s == segment_parse(bytes, 0)
  IN  IF s.result # NoError THEN Refuse(a)
      ELSE IF Opens(s) THEN [adapter |-> [a EXCEPT !.destination = from, !.listening = FALSE],
                             segment |-> s]
      ELSE IF a.listening \/ from # a.destination THEN Refuse(a)
      ELSE [adapter |-> a, segment |-> s]

udp_read(a, from, bytes) ==
  LET s == segment_parse(bytes, 0)
  IN  IF \/ ~a.listening /\ from # a.destination
         \/ s.result # NoError
         \/ a.listening /\ ~Opens(s)
      THEN Refuse(a)
      ELSE [adapter |-> IF a.listening THEN [a EXCEPT !.destination = from, !.listening = FALSE]
                        ELSE a,
            segment |-> s]

\* The address of the datagram is not compared with the peer's, only the port.
UnwrapByPort(a, d) ==
  LET s == segment_parse(d.payload, pseudo_cksum(d.header))
      bound == IF ~a.listening THEN a
               ELSE [listening |-> FALSE, source |-> [a.source EXCEPT !.addr = d.header.dst],
                     destination |-> [addr |-> d.header.src, port |-> s.header.sport]]
  IN  IF \/ ~a.listening /\ d.header.dst # a.source.addr
         \/ d.header.proto # PROTO_TCP
         \/ s.result # NoError
         \/ s.header.dport # a.source.port
         \/ a.listening /\ ~Opens(s)
      THEN Refuse(a)
      ELSE IF s.header.sport # bound.destination.port THEN Refuse(bound)
      ELSE [adapter |-> bound, segment |-> s]

unwrap_tcp_in_ip(a, d) ==
  LET s == segment_parse(d.payload, pseudo_cksum(d.header))
      bound == IF ~a.listening THEN a
               ELSE [listening |-> FALSE, source |-> [a.source EXCEPT !.addr = d.header.dst],
                     destination |-> [addr |-> d.header.src, port |-> s.header.sport]]
  IN  IF \/ ~a.listening /\ (d.header.dst # a.source.addr \/ d.header.src # a.destination.addr)
         \/ d.header.proto # PROTO_TCP
         \/ s.result # NoError
         \/ s.header.dport # a.source.port
         \/ a.listening /\ ~Opens(s)
      THEN Refuse(a)
      ELSE IF s.header.sport # bound.destination.port THEN Refuse(bound)
      ELSE [adapter |-> bound, segment |-> s]

\* TCPOverIPv4OverTunFdAdapter::read
tun_read(a, bytes) ==
  LET d == datagram_parse(bytes)
  IN  IF d.result # NoError THEN Refuse(a) ELSE unwrap_tcp_in_ip(a, d)

adapter_read(a, m, bytes) ==
  IF kind = "udp" THEN udp_read(a, Home[m.by], bytes) ELSE tun_read(a, bytes)

\* The kernel hands a UDP datagram to the socket it is for; a TUN device shows
\* whatever is routed to it.
Reaches(m, h) == kind = "udp" => m.to = Home[h]

Got(h, m, i, r) ==
  [host |-> h, by |-> m.by, written |-> m.written, changed |-> i, segment |-> r.segment]

\* h reads m, of which byte i was changed unless i is 0.
Take(h, m, i, bytes) ==
  LET r == adapter_read(adapter[h], m, bytes)
  IN  /\ adapter' = [adapter EXCEPT ![h] = r.adapter]
      /\ last' = IF r.segment = NoSegment THEN Nothing ELSE Got(h, m, i, r)

Read(h) ==
  /\ \E m \in net : Reaches(m, h) /\ net' = net \ {m} /\ Take(h, m, 0, m.bytes)
  /\ UNCHANGED kind

\* The network changes one byte of what it delivers.
ReadChanged(h) ==
  /\ \E m \in net :
       /\ Reaches(m, h) /\ net' = net \ {m}
       /\ \E i \in DOMAIN m.bytes : \E x \in {0, 85} \ {m.bytes[i]} :
            Take(h, m, i, [m.bytes EXCEPT ![i] = x])
  /\ UNCHANGED kind

\* LossyFdAdapter::read drops what the inner adapter has already read.
ReadAndDrop(h) ==
  /\ \E m \in net :
       /\ Reaches(m, h) /\ net' = net \ {m}
       /\ adapter' = [adapter EXCEPT ![h] = adapter_read(@, m, m.bytes).adapter]
  /\ last' = Nothing
  /\ UNCHANGED kind

Next == \E h \in Host : Write(h) \/ Read(h) \/ ReadChanged(h) \/ ReadAndDrop(h)

Spec == Init /\ [][Next]_vars

-----------------------------------------------------------------------------

\* A segment but for its checksum, which depends on what carries it.
Content(seg) == [header |-> [seg.header EXCEPT !.cksum = 0], payload |-> seg.payload]

\* The bytes of an IPv4 header that the segment's checksum does not cover and that
\* do not say where the segment begins and ends: version (its half of the byte),
\* tos, id, flags and offset, ttl and the header's own checksum.
Uncovered == {1, 2, 5, 6, 7, 8, 9, 11, 12}

(***************************************************************************)
(* What an adapter returns is a segment as its peer's adapter sent it,     *)
(* ports and all, to this host and from the one host it talks to: nobody   *)
(* else's segment and no misrouted datagram gets through the filters.  A   *)
(* changed byte gets through only in an IPv4 header, whose own checksum    *)
(* decides nothing, and only where it is not the segment that changes.     *)
(***************************************************************************)
ReadsWhatPeerWrote ==
  last # Nothing =>
    /\ Content(last.segment) = Content(WithPorts(adapter[last.by], last.written))
    /\ last.changed = 0 \/ (kind = "ip" /\ last.changed \in Uncovered)
    /\ adapter[last.host].destination = Home[last.by]
    /\ adapter[last.by].destination = Home[last.host]

(***************************************************************************)
(* The filters let the peer through: whatever it has in flight to a host   *)
(* that talks to it will be returned, if it arrives as it is.              *)
(***************************************************************************)
PeerIsHeard == \A m \in net, h \in Host :
  ~adapter[h].listening /\ m.to = Home[h] /\ adapter[h].destination = Home[m.by] =>
    adapter_read(adapter[h], m, m.bytes).segment.result = NoError

(***************************************************************************)
(* An adapter that has found its peer keeps it: no later SYN of another    *)
(* client, and nothing that is dropped or damaged, turns the connection's  *)
(* segments to somebody else.                                              *)
(***************************************************************************)
StaysWithItsPeer ==
  [][\A h \in Host : ~adapter[h].listening => adapter'[h] = adapter[h]]_vars
=============================================================================
