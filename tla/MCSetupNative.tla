--------------------------- MODULE MCSetupNative ---------------------------
(* One process beside a second disk with an asynchronous driver, or two processes
   that want the same disk. Owner slots are interchangeable. *)
EXTENDS SetupNative, TLC

CONSTANTS d1, d2, p1, p2

MCMachines ==
  {[disks |-> {d1, d2}, procs |-> {p1}, epoch |-> 0, opens |-> 1],
   [disks |-> {d1}, procs |-> {p1, p2}, epoch |-> 2, opens |-> 0]}
Symmetry == Permutations(Owners)
=============================================================================
