------------------------------- MODULE Frames -------------------------------
(***************************************************************************)
(* Ethernet frames and ARP messages (tcp_helpers/ethernet_header,          *)
(* ethernet_frame, arp_message) and how a frame gets out: serialized into  *)
(* a list of buffers, header by header, and written by                     *)
(* FileDescriptor::write, which the kernel may let take any part at a time.*)
(***************************************************************************)
EXTENDS Datagrams, BufferLists

CONSTANTS
  Frames,   \* the frames to write; payload is the list of its parts
  Lists     \* other lists of parts given to write

VARIABLES
  source,   \* what is written: the list, and the frame it is the bytes of
  call,     \* the call of FileDescriptor::write
  wire      \* the bytes the descriptor has taken

vars == <<source, call, wire>>

-----------------------------------------------------------------------------
(* EthernetHeader, EthernetFrame.                                          *)

ETHERNET_LENGTH == 14

TYPE_IPv4 == 2048

TYPE_ARP == 2054

EthernetLayout == [i \in 1 .. 13 |-> IF i = 13 THEN 2 ELSE 1]

EthernetHeader(dst, src, type) == [dst |-> dst, src |-> src, type |-> type]

\* The frame's result is the parser's error, which a header that is too short
\* does not set: such a frame is NoError, with an empty header.
frame_parse(bytes) ==
  LET p == ParseAll(NewParser(bytes), EthernetLayout)
      f == p.fields
  IN  IF Len(bytes) < ETHERNET_LENGTH
      THEN [header |-> EthernetHeader(Padding(6), Padding(6), 0), payload |-> bytes, result |-> NoError]
      ELSE [header |-> EthernetHeader(SubSeq(f, 1, 6), SubSeq(f, 7, 12), f[13]),
            payload |-> p.left, result |-> p.error]

ethernet_serialize(h) == h.dst \o h.src \o u16(h.type)

frame_serialize(frame) == <<ethernet_serialize(frame.header)>> \o frame.payload

-----------------------------------------------------------------------------
(* ARPMessage.                                                             *)

ARP_LENGTH == 28

ARPHead == <<2, 2, 1, 1, 2>>

ARPBody == [i \in 1 .. 14 |-> IF i \in {7, 14} THEN 4 ELSE 1]

ARPMessage(head, body) ==
  [hardware_type |-> head[1], protocol_type |-> head[2],
   hardware_address_size |-> head[3], protocol_address_size |-> head[4], opcode |-> head[5],
   sender_ethernet |-> SubSeq(body, 1, 6), sender_ip |-> body[7],
   target_ethernet |-> SubSeq(body, 8, 13), target_ip |-> body[14]]

supported(m) ==
  /\ m.hardware_type = 1 /\ m.protocol_type = TYPE_IPv4
  /\ m.hardware_address_size = 6 /\ m.protocol_address_size = 4
  /\ m.opcode \in {1, 2}

NoBody == [i \in 1 .. 14 |-> IF i \in {7, 14} THEN <<0, 0>> ELSE 0]

\* Whatever the types and the opcode are, the addresses are read.
ParseAnyType(bytes) ==
  LET p == ParseAll(NewParser(bytes), ARPHead)
      q == ParseAll([p EXCEPT !.fields = << >>], ARPBody)
  IN  IF Len(bytes) < ARP_LENGTH THEN [result |-> "PacketTooShort"]
      ELSE [result |-> q.error, message |-> ARPMessage(p.fields, q.fields)]

\* The addresses are not read when the fields before them are not supported.
arp_parse(bytes) ==
  LET p == ParseAll(NewParser(bytes), ARPHead)
      q == ParseAll([p EXCEPT !.fields = << >>], ARPBody)
      head == ARPMessage(p.fields, NoBody)
  IN  IF Len(bytes) < ARP_LENGTH THEN [result |-> "PacketTooShort"]
      ELSE IF ~supported(head) THEN [result |-> "Unsupported", message |-> head]
      ELSE [result |-> q.error, message |-> ARPMessage(p.fields, q.fields)]

\* It throws for a message whose types or opcode are not supported.
arp_serialize(m) ==
  [threw |-> ~supported(m),
   bytes |-> u16(m.hardware_type) \o u16(m.protocol_type)
               \o u8(m.hardware_address_size) \o u8(m.protocol_address_size) \o u16(m.opcode)
               \o m.sender_ethernet \o u32(m.sender_ip)
               \o m.target_ethernet \o u32(m.target_ip)]

-----------------------------------------------------------------------------
(* A call of write on a descriptor that takes as many bytes as it likes.   *)

NoFrame == [header |-> EthernetHeader(Padding(6), Padding(6), 0)]

Init ==
  /\ \/ \E frame \in Frames : source = [list |-> frame_serialize(frame), frame |-> frame]
     \/ \E list \in Lists : source = [list |-> list, frame |-> NoFrame]
  /\ \E write_all \in BOOLEAN : call = Call(source.list, write_all)
  /\ wire = << >>

\* writev takes any part of what it is given, but something of something.
Writev ==
  /\ call.at = "writing"
  /\ \E n \in 0 .. list_size(call.views) :
       /\ n > 0 \/ list_size(call.views) = 0
       /\ call' = Turn(call, n)
       /\ wire' = wire \o SubSeq(concatenate(call.views), 1, n)
  /\ UNCHANGED source

\* It fails, or takes nothing of something.
WritevFails ==
  /\ call.at = "writing"
  /\ \E n \in IF list_size(call.views) = 0 THEN {-1} ELSE {-1, 0} : call' = Turn(call, n)
  /\ UNCHANGED <<source, wire>>

Next == Writev \/ WritevFails

Spec == Init /\ [][Next]_vars

FairSpec == Spec /\ WF_vars(Writev)

-----------------------------------------------------------------------------

(***************************************************************************)
(* Whichever parts the descriptor takes and however they straddle the      *)
(* parts of the list, empty ones included, what it has is the beginning of *)
(* the string and what write still holds is the rest; it counts what was   *)
(* taken, its views never run out under remove_prefix, and with write_all  *)
(* it returns only when all is gone: it is cut short by nothing but a      *)
(* writev that failed or took nothing, and then by an exception.           *)
(***************************************************************************)
WritesInOrder ==
  /\ wire \o concatenate(call.views) = concatenate(source.list)
  /\ call.total = Len(wire) /\ call.at # "out_of_range"
  /\ call.at = "returned" /\ call.write_all => wire = concatenate(source.list)

(***************************************************************************)
(* write ends also when writev never fails: a list that ends in empty      *)
(* parts does not keep its loop going, and no turn leaves what is to be    *)
(* written as it was.                                                      *)
(***************************************************************************)
WriteReturns == <>(call.at # "writing")

\* What a reader makes of bytes that are an IPv4 or an ARP frame.
Understood(bytes) ==
  LET f == frame_parse(bytes)
  IN  /\ f.result = NoError
      /\ \/ f.header.type = TYPE_ARP /\ arp_parse(f.payload).result = NoError
         \/ f.header.type = TYPE_IPv4 /\ datagram_parse(f.payload).result = NoError

(***************************************************************************)
(* A reader understands the whole frame and nothing less: a frame cut off  *)
(* anywhere, also inside a header, parses as no datagram and no message.   *)
(* What is understood is what was meant: parsing gives back every field of *)
(* the frame and of an ARP message.  Whichever byte of an ARP message      *)
(* differs from what was sent, a message that is accepted can be           *)
(* serialized again, which throws for what parse must have refused, and    *)
(* gives the bytes it came from.                                           *)
(***************************************************************************)
UnderstoodWhenWhole ==
  source.frame # NoFrame =>
    LET f == frame_parse(wire)
        Variants == {f.payload} \cup {[f.payload EXCEPT ![i] = x] : i \in DOMAIN f.payload, x \in 0 .. 3}
    IN  /\ Understood(wire) <=> wire = concatenate(source.list)
        /\ Understood(wire) =>
             /\ f.header = source.frame.header /\ f.payload = concatenate(source.frame.payload)
             /\ f.header.type = TYPE_ARP =>
                  /\ arp_parse(f.payload).message = source.frame.message
                  /\ \A bytes \in Variants :
                       arp_parse(bytes).result = NoError =>
                         arp_serialize(arp_parse(bytes).message) =
                           [threw |-> FALSE, bytes |-> SubSeq(bytes, 1, ARP_LENGTH)]
=============================================================================
