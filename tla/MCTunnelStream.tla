--------------------------- MODULE MCTunnelStream ---------------------------
(* A small instance of TunnelStream: two callers of Close, and one that      *)
(* configures the interface.                                                *)
EXTENDS TunnelStream

MCThreads == {R, W} \union Closers \union Users
=============================================================================
