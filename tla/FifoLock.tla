------------------------------ MODULE FifoLock ------------------------------
(***************************************************************************)
(* What the header of pma_sync.h promises of the ticket lock: admission is *)
(* FIFO and there is one holder at a time.                                 *)
(***************************************************************************)
EXTENDS Naturals, Sequences

CONSTANT Procs

VARIABLES line,     \* the admitted contenders, oldest first
          holding   \* the contenders whose acquisition has returned

vars == <<line, holding>>

Init == line = <<>> /\ holding = {}

\* An acquisition is admitted behind everyone already admitted.
Admit(p) ==
  /\ \A i \in 1 .. Len(line) : line[i] # p
  /\ line' = Append(line, p)
  /\ UNCHANGED holding

\* The oldest contender, and no other, gets the lock.
Acquire(p) ==
  /\ line # <<>>
  /\ Head(line) = p
  /\ holding = {}
  /\ holding' = {p}
  /\ UNCHANGED line

\* The holder leaves; the lock passes to the next in line.
Release(p) ==
  /\ holding = {p}
  /\ line' = Tail(line)
  /\ holding' = {}

Next == \E p \in Procs : Admit(p) \/ Acquire(p) \/ Release(p)

Spec == Init /\ [][Next]_vars
=============================================================================
