------------------------------ MODULE MCApWork ------------------------------
(***************************************************************************)
(* Two workers. Two application processors with migration; two with jobs    *)
(* either may take; one that both workers share, with reuse of the slot,    *)
(* time-outs and failing interrupts.                                        *)
(***************************************************************************)
EXTENDS ApWork

MCThreads == 0 .. 5
MCCPUs == 0 .. 2
MCIdle == [c \in 0 .. 2 |-> c + 1]
MCWorkers == <<4, 5>>

Apart == [w \in {4, 5} |-> w - 3]
Together == [w \in {4, 5} |-> 1]

MCSettings ==
  { [home |-> Apart, masks |-> {{1}}, moves |-> {1, 2}, faults |-> FALSE, maxGen |-> 1],
    [home |-> Apart, masks |-> {{1, 2}}, moves |-> {}, faults |-> FALSE, maxGen |-> 1],
    [home |-> Together, masks |-> {{1}}, moves |-> {}, faults |-> TRUE, maxGen |-> 2] }
=============================================================================
