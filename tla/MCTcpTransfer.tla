--------------------------- MODULE MCTcpTransfer ---------------------------
(* Small instances of TcpTransfer.  The receiver has room for one byte, so  *)
(* the window closes behind every byte that is not read at once.            *)
EXTENDS TcpTransfer

MCChunks == {1, 2}
MCOneChunk == {2}
MCReadSizes == {1}
============================================================================
