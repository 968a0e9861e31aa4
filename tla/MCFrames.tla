------------------------------ MODULE MCFrames ------------------------------
(***************************************************************************)
(* ARP requests and replies and IPv4 datagrams with a TCP segment, in the  *)
(* parts in which they are put together: an Ethernet header, then the      *)
(* message, or the IPv4 header, the TCP header and the (maybe empty)       *)
(* payload.  The other lists have up to three parts of up to two bytes.    *)
(***************************************************************************)
EXTENDS Frames

MCHost(n) == [i \in 1 .. 6 |-> IF i = 6 THEN n ELSE 255]

MCMessage(opcode, target) ==
  ARPMessage(<<1, TYPE_IPv4, 6, 4, opcode>>,
             MCHost(2) \o <<<<2560, 258>>>> \o target \o <<<<65535, 511>>>>)

MCArp == {[header |-> EthernetHeader(MCHost(255), MCHost(2), TYPE_ARP), message |-> m,
           payload |-> <<arp_serialize(m).bytes>>] : m \in {MCMessage(1, Padding(6)), MCMessage(2, MCHost(3))}}

\* IPv4Datagram::serialize appends the parts of its payload.
MCParts(bytes) ==
  <<SubSeq(bytes, 1, LENGTH), SubSeq(bytes, LENGTH + 1, 2 * LENGTH), SubSeq(bytes, 2 * LENGTH + 1, Len(bytes))>>

MCDatagram(data) ==
  LET header == IPv4Header(<<2560, 258>>, <<65535, 511>>, 2 * LENGTH + Len(data))
      tcp == TCPHeader(7, 65535, <<65535, 65535>>, <<0, 258>>, 5, {"ack", "fin"}, 65535, 0, 0)
      segment == segment_serialize([header |-> tcp, payload |-> data], pseudo_cksum(header))
  IN  datagram_serialize([header |-> header, payload |-> segment])

MCFrameSet ==
  MCArp \cup {[header |-> EthernetHeader(MCHost(3), MCHost(2), TYPE_IPv4),
               payload |-> MCParts(MCDatagram(data))] : data \in {<< >>, <<255, 1, 254>>}}

MCPart(first, n) == [i \in 1 .. n |-> first + i]

MCLists == {<<ethernet_serialize(EthernetHeader(Padding(6), Padding(6), 0))>>, << >>}
  \cup UNION {{[i \in 1 .. k |-> MCPart(10 * i, n[i])] : n \in [1 .. k -> 0 .. 2]} : k \in 1 .. 3}
=============================================================================
