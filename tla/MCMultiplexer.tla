---------------------------- MODULE MCMultiplexer ----------------------------
(* Small instances of Multiplexer.  *)
EXTENDS Multiplexer
==============================================================================
