--------------------------- MODULE MCTcpListener ---------------------------
(* Two listeners in a row and attempts from one address, the case that the  *)
(* filters do not separate.                                                 *)
EXTENDS TcpListener, TLC

CONSTANTS a1, a2

MCAttempts == {a1, a2}
MCSource == (a1 :> a1) @@ (a2 :> a1)
============================================================================
