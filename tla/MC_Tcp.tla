------------------------------- MODULE MC_Tcp -------------------------------
(***************************************************************************)
(* A TCP connection on a small instance: a client that sends one or two    *)
(* packets of an octet, a server that answers with six octets in two, and  *)
(* sequence numbers that wrap around in both directions.  A packet of      *)
(* three octets is in two segments, and the FIN of a close in a third: so  *)
(* two may wait for the first, with the window's edge past the wrap.       *)
(***************************************************************************)
EXTENDS Tcp

Both(c, s) == [e \in End |-> IF e = "client" THEN c ELSE s]

MCMSS == Both(2, 2)
MCSndBuf == Both(4, 4)      \* 2 * TCP_MSS, as in lwipopts.h
MCPackets == Both(<<1>>, <<3, 3>>)
MCLivePackets == Both(<<1, 1>>, <<4, 2>>)
MCISS == Both(31, 26)
=============================================================================
