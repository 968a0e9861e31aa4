----------------------------- MODULE MCTCPPair -----------------------------
(***************************************************************************)
(* Two endpoints a and b for TLC; a connects, b listens unless the         *)
(* configuration makes it a client as well.                                *)
(***************************************************************************)
EXTENDS TCPPair

CONSTANTS a, b, IsnA, IsnB, BytesA, BytesB

MCEndPoint == {a, b}

MCIsn == a :> IsnA @@ b :> IsnB

MCBytes == a :> BytesA @@ b :> BytesB
=============================================================================
