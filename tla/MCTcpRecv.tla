----------------------------- MODULE MCTcpRecv -----------------------------
(* Small instances of TcpRecv.  The numbers wrap inside the stream, and M    *)
(* leaves no slack above AsmSize and MaxStale.                               *)
EXTENDS TcpRecv, TLC

MCReadSizes == {1, 2}
MCSymmetry == Permutations(Readers)
============================================================================
