------------------------------- MODULE FdTunnel -------------------------------
(***************************************************************************)
(* The file descriptor of a tunnel, shared by everyone who reads, writes,  *)
(* configures or closes it (fdTunnelBase in src/tunnet/utun_posix.go, and  *)
(* the operations of utun_linux.go and utun_darwin.go that go through      *)
(* operate).                                                               *)
(*                                                                         *)
(* Once syscall.Close has returned, the kernel gives the number of the     *)
(* descriptor to the next file that is opened: a system call that still    *)
(* uses it, or a second syscall.Close, hits that file.                     *)
(***************************************************************************)
EXTENDS Integers, FiniteSets

CONSTANT Threads  \* goroutines that use the tunnel

ASSUME ThreadsAssumption == IsFiniteSet(Threads)

VARIABLES
  refCount,  \* refCount
  closed,    \* closed
  closes,    \* history: calls of syscall.Close(fd)
  pc         \* where each goroutine is in operate

fdVars == <<refCount, closed, closes, pc>>

Places == {"idle", "use", "shutdown", "mark", "release"}

FdInit ==
  /\ refCount = 0
  /\ closed = FALSE
  /\ closes = 0
  /\ pc = [t \in Threads |-> "idle"]

Goto(t, place) == pc' = [pc EXCEPT ![t] = place]

\* operate takes a reference, and goes on to the operation: a system call, or
\* the Shutdown of Close.  On a tunnel that is closed it returns an error.
Begin(t, place) ==
  /\ pc[t] = "idle"
  /\ ~closed
  /\ refCount' = refCount + 1
  /\ Goto(t, place)
  /\ UNCHANGED <<closed, closes>>

\* The system calls of an operation return.
Use(t) ==
  /\ pc[t] = "use"
  /\ Goto(t, "release")
  /\ UNCHANGED <<refCount, closed, closes>>

\* Close shuts the descriptor down, and then marks the tunnel as closed.
Shutdown(t) ==
  /\ pc[t] = "shutdown"
  /\ Goto(t, "mark")
  /\ UNCHANGED <<refCount, closed, closes>>

MarkClosed(t) ==
  /\ pc[t] = "mark"
  /\ closed' = TRUE
  /\ Goto(t, "release")
  /\ UNCHANGED <<refCount, closes>>

\* Mutant of Release: whoever is last to see the tunnel closed closes it.
ReleaseEager(t) ==
  /\ pc[t] = "release"
  /\ refCount' = refCount - 1
  /\ closes' = IF closed /\ closes = 0 THEN 1 ELSE closes
  /\ Goto(t, "idle")
  /\ UNCHANGED closed

\* The deferred function: the last reference to a closed tunnel closes it.
Release(t) ==
  /\ pc[t] = "release"
  /\ refCount' = refCount - 1
  /\ closes' = IF closed /\ refCount' = 0 THEN closes + 1 ELSE closes
  /\ Goto(t, "idle")
  /\ UNCHANGED closed

FdNext ==
  \E t \in Threads :
    \/ \E place \in {"use", "shutdown"} : Begin(t, place)
    \/ Use(t)
    \/ Shutdown(t)
    \/ MarkClosed(t)
    \/ Release(t)

FdSpec == FdInit /\ [][FdNext]_fdVars

----------------------------------------------------------------------------
(* Properties *)

FdTypeOK ==
  /\ refCount \in Nat
  /\ closed \in BOOLEAN
  /\ closes \in Nat
  /\ pc \in [Threads -> Places]

\* The descriptor is closed once and when it is no longer used: however Close
\* races with operations that are under way and with others, no system call is
\* made on it after syscall.Close, which is called once, and has been when the
\* tunnel is closed and everybody has left it.
ClosedOnceUnused ==
  /\ \A t \in Threads : pc[t] \in {"use", "shutdown"} => closes = 0
  /\ closes <= 1
  /\ closed /\ (\A t \in Threads : pc[t] = "idle") => closes = 1
============================================================================
