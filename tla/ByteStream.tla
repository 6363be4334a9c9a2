----------------------------- MODULE ByteStream -----------------------------
(***************************************************************************)
(* What a TCP connection promises in one direction (the comments of        *)
(* tcpSend in src/ipstack/tcp_send.go and of tcpRecv in                    *)
(* src/ipstack/tcp_recv.go, and the contract of net.Conn that tcp4Conn     *)
(* implements): bytes are read in the order they were written, each once,  *)
(* EOF follows the last, and a writer is told of success only when the     *)
(* other side has its data.                                                *)
(***************************************************************************)
EXTENDS Naturals

CONSTANT Lengths  \* lengths of the slices passed to Write

VARIABLES
  written,   \* bytes accepted from the writer
  closed,    \* the writer has called Close
  arrived,   \* bytes that the other side holds in order, or has passed on
  complete,  \* the other side knows that no byte follows
  confirmed, \* bytes the writer was told have arrived
  received   \* bytes returned to the reader

vars == <<written, closed, arrived, complete, confirmed, received>>

Init ==
  /\ written = 0
  /\ closed = FALSE
  /\ arrived = 0
  /\ complete = FALSE
  /\ confirmed = 0
  /\ received = 0

Write(n) ==
  /\ ~closed
  /\ written' = written + n
  /\ UNCHANGED <<closed, arrived, complete, confirmed, received>>

Close ==
  /\ ~closed
  /\ closed' = TRUE
  /\ UNCHANGED <<written, arrived, complete, confirmed, received>>

\* More of what was written arrives, perhaps with the end of it.
Arrive ==
  /\ arrived' \in arrived .. written
  /\ complete' \in BOOLEAN
  /\ complete => complete' /\ arrived' = arrived
  /\ complete' => closed /\ arrived' = written
  /\ UNCHANGED <<written, closed, confirmed, received>>

Confirm ==
  /\ confirmed' \in confirmed .. arrived
  /\ UNCHANGED <<written, closed, arrived, complete, received>>

Read ==
  /\ received' \in received .. arrived
  /\ UNCHANGED <<written, closed, arrived, complete, confirmed>>

Next ==
  \/ \E n \in Lengths : Write(n)
  \/ Close
  \/ Arrive
  \/ Confirm
  \/ Read

Spec == Init /\ [][Next]_vars
============================================================================
