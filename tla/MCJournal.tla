----------------------------- MODULE MCJournal -----------------------------
(* One pool block; the log holds two or three transactions. *)
EXTENDS Journal

CONSTANT x
MCPool == <<x>>
=============================================================================
