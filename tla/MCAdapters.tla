----------------------------- MODULE MCAdapters -----------------------------
(***************************************************************************)
(* One server and two clients that use the same port.  The numbers of the  *)
(* segments are at the ends of their ranges, so that the checksum carries, *)
(* and one payload has an odd length.                                      *)
(***************************************************************************)
EXTENDS Adapters

CONSTANTS server, client1, client2

MCClients == {client1, client2}

MCHome == [h \in {server, client1, client2} |->
  IF h = server THEN [addr |-> <<2560, 1>>, port |-> 7]
  ELSE [addr |-> <<2560, IF h = client1 THEN 2 ELSE 3>>, port |-> 65530]]

MCSegment(flags, payload) ==
  [header |-> TCPHeader(0, 0, <<65535, 65535>>, <<0, 258>>, 5, flags, 65535, 0, 0),
   payload |-> payload]

MCSent == {MCSegment({"syn"}, << >>), MCSegment({"syn", "ack"}, << >>),
           MCSegment({"syn", "rst"}, << >>), MCSegment({"ack", "fin"}, <<255, 1, 254>>)}
=============================================================================
