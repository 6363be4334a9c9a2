------------------------------ MODULE MCUdpNet ------------------------------
(* A small instance of UdpNet: two connections at a time, and two ports of   *)
(* which others may hold some, so that they run out.                         *)
EXTENDS UdpNet
=============================================================================
