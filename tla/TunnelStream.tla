----------------------------- MODULE TunnelStream -----------------------------
(***************************************************************************)
(* The Stream over a tunnel (src/tunnet/stream.go): a readLoop, a          *)
(* writeLoop and callers of Close, all of whom operate on the descriptor   *)
(* of FdTunnel, beside goroutines that read or set the interface's         *)
(* addresses and MTU.                                                      *)
(*                                                                         *)
(* A goroutine whose pc is not "idle" is inside operate; "at" says where   *)
(* it goes on when it comes out.                                           *)
(***************************************************************************)
EXTENDS FdTunnel

CONSTANTS
  Closers,      \* goroutines that call Close
  Users,        \* goroutines that configure the interface
  ReadBuffer,   \* readBuffer given to TunnelStream
  WriteBuffer   \* writeBuffer given to TunnelStream

R == "readLoop"
W == "writeLoop"

ASSUME StreamAssumption ==
  /\ Threads = {R, W} \union Closers \union Users
  /\ ReadBuffer \in Nat
  /\ WriteBuffer \in Nat

VARIABLES
  at,        \* where each goroutine goes on
  shut,      \* what Shutdown has done to the descriptor
  incoming,  \* number of packets in incoming
  inClosed,  \* incoming is closed
  outgoing,  \* number of packets in outgoing
  done,      \* done is closed
  returned   \* history: a Close has returned nil

vars == <<fdVars, at, shut, incoming, inClosed, outgoing, done, returned>>

\* The descriptor of a utun on macOS is a socket; that of /dev/net/tun on Linux is
\* a device, and Shutdown, whose error Close ignores, does nothing to it.
Init ==
  /\ FdInit
  /\ at = [t \in Threads |-> IF t = R THEN "read" ELSE IF t = W THEN "select" ELSE "idle"]
  /\ shut \in {"open", "device"}
  /\ incoming = 0
  /\ inClosed = FALSE
  /\ outgoing = 0
  /\ done = FALSE
  /\ returned = FALSE

At(t, here) == at[t] = here /\ pc[t] = "idle"
GoOn(t, there) == at' = [at EXCEPT ![t] = there]

\* t calls an operation of the tunnel that starts with operate, and goes on
\* there, at once if the tunnel is closed.
Operate(t, place, there) ==
  /\ GoOn(t, there)
  /\ \/ Begin(t, place)
     \/ closed /\ UNCHANGED fdVars

\* What t does inside operate.
Inside(t) ==
  /\ \/ t # R /\ Use(t) /\ UNCHANGED shut
     \/ Shutdown(t) /\ shut' = IF shut = "device" THEN shut ELSE "shut"
     \/ MarkClosed(t) /\ UNCHANGED shut
     \/ Release(t) /\ UNCHANGED shut
  /\ UNCHANGED <<at, incoming, inClosed, outgoing, done, returned>>

----------------------------------------------------------------------------
(* readLoop *)

ReadPacket ==
  /\ At(R, "read")
  /\ Operate(R, "use", IF closed THEN "exit" ELSE "reading")
  /\ UNCHANGED <<shut, incoming, inClosed, outgoing, done, returned>>

\* The read returns with a packet or with an error.
ReadReturns(there) ==
  /\ at[R] = "reading"
  /\ Use(R)
  /\ GoOn(R, there)
  /\ UNCHANGED <<shut, incoming, inClosed, outgoing, done, returned>>

\* A send to incoming that never blocks.
Offer ==
  /\ At(R, "offer")
  /\ incoming' = IF incoming < ReadBuffer THEN incoming + 1 ELSE incoming
  /\ GoOn(R, "read")
  /\ UNCHANGED <<fdVars, shut, inClosed, outgoing, done, returned>>

CloseIncoming ==
  /\ At(R, "exit")
  /\ inClosed' = TRUE
  /\ GoOn(R, "finish")
  /\ UNCHANGED <<fdVars, shut, incoming, outgoing, done, returned>>


CloseDone ==
  /\ At(R, "finish")
  /\ done' = TRUE
  /\ GoOn(R, "stopped")
  /\ UNCHANGED <<fdVars, shut, incoming, inClosed, outgoing, returned>>

----------------------------------------------------------------------------
(* writeLoop *)

ReceiveOutgoing ==
  /\ At(W, "select")
  /\ outgoing > 0
  /\ outgoing' = outgoing - 1
  /\ GoOn(W, "write")
  /\ UNCHANGED <<fdVars, shut, incoming, inClosed, done, returned>>

\* An error of WritePacket is ignored.
WritePacket ==
  /\ At(W, "write")
  /\ Operate(W, "use", "select")
  /\ UNCHANGED <<shut, incoming, inClosed, outgoing, done, returned>>

\* Mutant of LeaveWriteLoop: no deferred Close.
LeaveWriteLoopOpen ==
  /\ At(W, "select")
  /\ done
  /\ GoOn(W, "stopped")
  /\ UNCHANGED <<fdVars, shut, incoming, inClosed, outgoing, done, returned>>

\* done is closed; the deferred function closes the tunnel.
LeaveWriteLoop ==
  /\ At(W, "select")
  /\ done
  /\ Operate(W, "shutdown", "stopped")
  /\ UNCHANGED <<shut, incoming, inClosed, outgoing, done, returned>>

----------------------------------------------------------------------------
(* The callers *)

\* Close on a stream that is not done closes the tunnel.
Close(c) ==
  /\ At(c, "idle")
  /\ ~done
  /\ Operate(c, "shutdown", "wait")
  /\ UNCHANGED <<shut, incoming, inClosed, outgoing, done, returned>>

\* Mutant of CloseReturn: Close does not wait for done.
CloseReturnAtOnce(c) ==
  /\ At(c, "wait")
  /\ returned' = TRUE
  /\ GoOn(c, "idle")
  /\ UNCHANGED <<fdVars, shut, incoming, inClosed, outgoing, done>>

\* Close returns when readLoop is done.
CloseReturn(c) ==
  /\ At(c, "wait")
  /\ done
  /\ returned' = TRUE
  /\ GoOn(c, "idle")
  /\ UNCHANGED <<fdVars, shut, incoming, inClosed, outgoing, done>>

\* MTU, SetMTU, Addresses or SetAddresses.
Configure(u) ==
  /\ At(u, "idle")
  /\ Operate(u, "use", "idle")
  /\ UNCHANGED <<shut, incoming, inClosed, outgoing, done, returned>>

\* Somebody sends to Outgoing(), or receives from Incoming().
SendOutgoing ==
  /\ outgoing < WriteBuffer
  /\ outgoing' = outgoing + 1
  /\ UNCHANGED <<fdVars, at, shut, incoming, inClosed, done, returned>>

TakeIncoming ==
  /\ incoming > 0
  /\ incoming' = incoming - 1
  /\ UNCHANGED <<fdVars, at, shut, inClosed, outgoing, done, returned>>

----------------------------------------------------------------------------

ReadLoop == ReadPacket \/ Offer \/ CloseIncoming \/ CloseDone
WriteLoop == ReceiveOutgoing \/ WritePacket \/ LeaveWriteLoop

Next ==
  \/ \E t \in Threads : Inside(t)
  \/ \E there \in {"offer", "exit"} : ReadReturns(there)
  \/ ReadLoop
  \/ WriteLoop
  \/ \E c \in Closers : Close(c) \/ CloseReturn(c)
  \/ \E u \in Users : Configure(u)
  \/ SendOutgoing
  \/ TakeIncoming

Spec == Init /\ [][Next]_vars

\* The loops run, system calls other than a read return, and so does a read
\* on a socket that was shut down, with an error.  A read of the device waits for
\* the next packet, and there may be none.  writeLoop's select is random among what is ready, so it
\* does not take packets for ever when done is closed.
Fairness ==
  /\ \A t \in Threads : WF_vars(Inside(t))
  /\ WF_vars(shut = "shut" /\ ReadReturns("exit"))
  /\ WF_vars(ReadLoop)
  /\ WF_vars(WriteLoop)
  /\ SF_vars(LeaveWriteLoop)
  /\ \A c \in Closers : WF_vars(CloseReturn(c))

FairSpec == Spec /\ Fairness

----------------------------------------------------------------------------
(* Properties *)

TypeOK ==
  /\ FdTypeOK
  /\ at \in [Threads -> {"idle", "read", "reading", "offer", "exit", "finish", "stopped",
                         "select", "write", "wait"}]
  /\ incoming \in 0 .. ReadBuffer
  /\ outgoing \in 0 .. WriteBuffer
  /\ shut \in {"open", "shut", "device"}
  /\ {inClosed, done, returned} \subseteq BOOLEAN

\* When a Close has returned, the tunnel is closed, readLoop is out of its read
\* and nothing is sent to incoming any more.
CloseIsFinal == returned => closed /\ inClosed /\ pc[R] = "idle" /\ at[R] = "stopped"


\* A stream that is done, because of Close or because a read failed, gives up
\* the descriptor: writeLoop closes what nobody else has.
DoneReleasesDescriptor == done ~> closes = 1
============================================================================
