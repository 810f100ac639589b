------------------------------ MODULE MCVirtq ------------------------------
(* A queue of four entries whose indices wrap at eight. *)
EXTENDS Virtq
=============================================================================
