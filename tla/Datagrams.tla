----------------------------- MODULE Datagrams ------------------------------
(***************************************************************************)
(* Segments and datagrams as bytes: NetParser, NetUnparser and             *)
(* InternetChecksum (libsponge/util), TCPHeader, TCPSegment, IPv4Header    *)
(* and IPv4Datagram (libsponge/tcp_helpers).  A Buffer is the sequence of  *)
(* its bytes.  An integer of 32 bits is the pair of its 16-bit halves.     *)
(***************************************************************************)
EXTENDS Integers, SequencesExt

NoError == "NoError"

\* TCPHeader::LENGTH and IPv4Header::LENGTH
LENGTH == 20

-----------------------------------------------------------------------------
(* NetParser, with the values it has returned so far (a layout is the      *)
(* sequence of the widths it is asked for), and NetUnparser.               *)

Drop(bytes, n) == SubSeq(bytes, n + 1, Len(bytes))

NewParser(bytes) == [left |-> bytes, error |-> NoError, fields |-> << >>]

check_size(p, n) == IF n > Len(p.left) THEN [p EXCEPT !.error = "PacketTooShort"] ELSE p

remove_prefix(p, n) ==
  LET q == check_size(p, n) IN IF q.error # NoError THEN q ELSE [q EXCEPT !.left = Drop(@, n)]

BigEndian(b, width) ==
  CASE width = 1 -> b[1]
    [] width = 2 -> 256 * b[1] + b[2]
    [] width = 4 -> <<256 * b[1] + b[2], 256 * b[3] + b[4]>>

\* After an error every field is 0.
parse_int(p, width) ==
  LET q == check_size(p, width)
  IN  IF q.error # NoError
      THEN [q EXCEPT !.fields = Append(@, IF width = 4 THEN <<0, 0>> ELSE 0)]
      ELSE [q EXCEPT !.fields = Append(@, BigEndian(q.left, width)), !.left = Drop(@, width)]

RECURSIVE ParseAll(_, _)
ParseAll(p, layout) ==
  IF layout = << >> THEN p ELSE ParseAll(parse_int(p, Head(layout)), Tail(layout))

u8(v) == <<v % 256>>

u16(v) == <<(v \div 256) % 256, v % 256>>

u32(v) == u16(v[1]) \o u16(v[2])

Padding(n) == [i \in 1 .. n |-> 0]

-----------------------------------------------------------------------------
(* InternetChecksum.  Pieces are added one after the other, the parity     *)
(* carried over: the sum is that of their concatenation.                   *)

RECURSIVE Sum(_)
Sum(bytes) == IF bytes = << >> THEN 0
              ELSE IF Len(bytes) = 1 THEN 256 * bytes[1]
              ELSE 256 * bytes[1] + bytes[2] + Sum(Drop(bytes, 2))

RECURSIVE Folded(_)
Folded(sum) == IF sum > 65535 THEN Folded(sum \div 65536 + (sum % 65536)) ELSE sum

ChecksumValue(sum) == 65535 - Folded(sum)

-----------------------------------------------------------------------------
(* TCPHeader and TCPSegment.  flags is the set of the flags that are set.  *)

TCPLayout == <<2, 2, 4, 4, 1, 1, 2, 2, 2>>

FlagBit == [urg |-> 32, ack |-> 16, psh |-> 8, rst |-> 4, syn |-> 2, fin |-> 1]

TCPHeader(sport, dport, seqno, ackno, doff, flags, win, cksum, uptr) ==
  [sport |-> sport, dport |-> dport, seqno |-> seqno, ackno |-> ackno, doff |-> doff,
   flags |-> flags, win |-> win, cksum |-> cksum, uptr |-> uptr]

\* The header, the parser after it, and the result (which is not the parser's
\* error when doff is too small).
tcp_header_parse(bytes) ==
  LET p == ParseAll(NewParser(bytes), TCPLayout)
      f == p.fields
      doff == f[5] \div 16
      q == IF doff < 5 THEN p ELSE remove_prefix(p, doff * 4 - LENGTH)
  IN  [header |-> TCPHeader(f[1], f[2], f[3], f[4], doff,
                            {x \in DOMAIN FlagBit : (f[6] \div FlagBit[x]) % 2 = 1},
                            f[7], f[8], f[9]),
       parser |-> q,
       result |-> IF doff < 5 THEN "HeaderTooShort" ELSE q.error]

tcp_header_serialize(h) ==
  u16(h.sport) \o u16(h.dport) \o u32(h.seqno) \o u32(h.ackno)
    \o u8(h.doff * 16) \o u8(SumSet({FlagBit[x] : x \in h.flags}))
    \o u16(h.win) \o u16(h.cksum) \o u16(h.uptr) \o Padding(4 * h.doff - LENGTH)

\* The checksum of the whole segment decides; the header's result is not asked.
segment_parse(bytes, pseudo) ==
  LET h == tcp_header_parse(bytes)
  IN  IF ChecksumValue(pseudo + Sum(bytes)) # 0 THEN [result |-> "BadChecksum"]
      ELSE [result |-> h.parser.error, header |-> h.header, payload |-> h.parser.left]

\* The payload left out of the checksum.
SerializeHeaderSum(seg, pseudo) ==
  LET zeroed == [seg.header EXCEPT !.cksum = 0]
      sum == pseudo + Sum(tcp_header_serialize(zeroed))
  IN  tcp_header_serialize([zeroed EXCEPT !.cksum = ChecksumValue(sum)]) \o seg.payload

segment_serialize(seg, pseudo) ==
  LET zeroed == [seg.header EXCEPT !.cksum = 0]
      sum == pseudo + Sum(tcp_header_serialize(zeroed) \o seg.payload)
  IN  tcp_header_serialize([zeroed EXCEPT !.cksum = ChecksumValue(sum)]) \o seg.payload

-----------------------------------------------------------------------------
(* IPv4Header and IPv4Datagram.                                            *)

IPv4Layout == <<1, 1, 2, 2, 2, 1, 1, 2, 4, 4>>

PROTO_TCP == 6

\* A new header: df is set, mf is not, the ttl is DEFAULT_TTL.
IPv4Header(src, dst, len) ==
  [ver |-> 4, hlen |-> 5, tos |-> 0, len |-> len, id |-> 0, df |-> TRUE, mf |-> FALSE,
   offset |-> 0, ttl |-> 128, proto |-> PROTO_TCP, cksum |-> 0, src |-> src, dst |-> dst]

payload_length(h) == (h.len - 4 * h.hlen) % 65536

pseudo_cksum(h) == h.src[1] + h.src[2] + h.dst[1] + h.dst[2] + h.proto + payload_length(h)

\* The checks in their order; options are skipped only when the first four pass.
ip_header_parse(bytes) ==
  LET p == ParseAll(NewParser(bytes), IPv4Layout)
      f == p.fields
      ver == f[1] \div 16
      hlen == f[1] % 16
      failed == IF Len(bytes) < 4 * hlen THEN "PacketTooShort"
                ELSE IF ver # 4 THEN "WrongIPVersion"
                ELSE IF hlen < 5 THEN "HeaderTooShort"
                ELSE IF Len(bytes) # f[3] THEN "TruncatedPacket" ELSE NoError
      q == remove_prefix(p, hlen * 4 - LENGTH)
      check == IF ChecksumValue(Sum(SubSeq(bytes, 1, 4 * hlen))) # 0 THEN "BadChecksum" ELSE NoError
  IN  IF Len(bytes) < LENGTH
      THEN [header |-> IPv4Header(<<0, 0>>, <<0, 0>>, 0), result |-> "PacketTooShort",
            parser |-> NewParser(bytes)]
      ELSE [header |-> [ver |-> ver, hlen |-> hlen, tos |-> f[2], len |-> f[3], id |-> f[4],
                        df |-> (f[5] \div 16384) % 2 = 1, mf |-> (f[5] \div 8192) % 2 = 1,
                        offset |-> f[5] % 8192, ttl |-> f[6], proto |-> f[7],
                        cksum |-> f[8], src |-> f[9], dst |-> f[10]],
            result |-> IF failed # NoError THEN failed ELSE check,
            parser |-> IF failed # NoError THEN p ELSE q]

ip_header_serialize(h) ==
  LET fo == (IF h.df THEN 16384 ELSE 0) + (IF h.mf THEN 8192 ELSE 0) + (h.offset % 8192)
  IN  u8(16 * h.ver + h.hlen) \o u8(h.tos) \o u16(h.len) \o u16(h.id) \o u16(fo)
        \o u8(h.ttl) \o u8(h.proto) \o u16(h.cksum) \o u32(h.src) \o u32(h.dst)
        \o Padding(4 * h.hlen - LENGTH)

\* Here too the header's result is not asked, only the parser's error.
datagram_parse(bytes) ==
  LET h == ip_header_parse(bytes)
  IN  [header |-> h.header, payload |-> h.parser.left,
       result |-> IF Len(h.parser.left) # payload_length(h.header) THEN "PacketTooShort"
                  ELSE h.parser.error]

datagram_serialize(d) ==
  LET zeroed == [d.header EXCEPT !.cksum = 0]
      cksum == ChecksumValue(Sum(ip_header_serialize(zeroed)))
  IN  ip_header_serialize([zeroed EXCEPT !.cksum = cksum]) \o d.payload
=============================================================================
