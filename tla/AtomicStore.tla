---------------------------- MODULE AtomicStore ----------------------------
(***************************************************************************)
(* What a crash-safe metadata store promises its caller, without a log:    *)
(* the stable state changes only from one whole transaction to the next, a *)
(* transaction is acknowledged only when it is stable, and a power loss    *)
(* leaves either the last stable state or the transaction being offered.   *)
(***************************************************************************)
EXTENDS Sequences

VARIABLES stable,    \* what the next mount will find
          acked,     \* what the caller was last told is on the disk
          offered    \* <<>>, or the state of the transaction being committed

vars == <<stable, acked, offered>>

Offer == /\ offered = <<>> /\ Len(offered') = 1
         /\ UNCHANGED <<stable, acked>>

Settle == /\ offered # <<>> /\ stable' = offered[1]
          /\ UNCHANGED <<acked, offered>>

Acknowledge == /\ offered # <<>> /\ stable = offered[1]
               /\ acked' = stable /\ offered' = <<>>
               /\ UNCHANGED stable

\* Power fails, or the volume is given up after an error: the offer is settled or void.
Crash == /\ offered' = <<>>
         /\ stable' \in {stable} \cup {offered[i] : i \in DOMAIN offered}
         /\ UNCHANGED acked

\* The caller mounts the volume again and takes what it finds.
Reopen == /\ acked' = stable /\ offered' = <<>>
          /\ UNCHANGED stable

Next == Offer \/ Settle \/ Acknowledge \/ Crash \/ Reopen

Spec == acked = stable /\ offered = <<>> /\ [][Next]_vars
=============================================================================
