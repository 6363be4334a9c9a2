----------------------------- MODULE MCStreamConn -----------------------------
(* A small instance of StreamConn.  *)
EXTENDS StreamConn

MCWanted == {1, 3}
===============================================================================
