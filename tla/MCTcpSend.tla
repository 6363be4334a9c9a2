----------------------------- MODULE MCTcpSend -----------------------------
(* Small instances of TcpSend.  ISS sits just below the modulus, so that the *)
(* sequence number wraps inside the stream, and M leaves no slack above      *)
(* MaxStale and the longest chunk.                                           *)
EXTENDS TcpSend

MCWindows == {0, 3}
MCChunks == {1, 3}
============================================================================
