---------------------------- MODULE MCTicketLock ----------------------------
(* Three CPUs and counters that wrap at 4, so that every number recurs.     *)
EXTENDS TicketLock
=============================================================================
