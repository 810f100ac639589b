---------------------------- MODULE BlockDevice ----------------------------
(***************************************************************************)
(* A disk with a volatile write cache, as sfs_dev_write, sfs_dev_writev    *)
(* and sfs_dev_flush (libsfs/sfs_cache.c) use it: a flush makes every      *)
(* earlier write durable; a power loss keeps any subset of the writes made *)
(* since, which is also the power cut of tools/sfs_host.c.                 *)
(***************************************************************************)
EXTENDS Naturals, FiniteSets, SequencesExt

VARIABLES disk,   \* what is on the medium for certain
          dev,    \* what a read returns: newer unflushed data wins
          pend    \* every value written to a block since the last flush

device == <<disk, dev, pend>>

\* Writes are issued as a sequence; between two flushes their order does not bind the disk.
W(blk, data) == [blk |-> blk, data |-> data]
To(writes, b) == {i \in DOMAIN writes : writes[i].blk = b}
Written(writes, b) == {writes[i].data : i \in To(writes, b)}
Overlay(writes, medium) ==
  [b \in DOMAIN medium |-> IF To(writes, b) = {} THEN medium[b]
                           ELSE writes[Max(To(writes, b))].data]

\* sfs_dev_write / sfs_dev_writev of a run of blocks.
Write(writes) ==
  /\ dev' = Overlay(writes, dev)
  /\ pend' = [b \in DOMAIN pend |-> pend[b] \cup Written(writes, b)]
  /\ UNCHANGED disk

\* sfs_dev_flush followed by writes.
FlushThenWrite(writes) ==
  /\ disk' = dev
  /\ dev' = Overlay(writes, dev)
  /\ pend' = [b \in DOMAIN pend |-> Written(writes, b)]

\* The power fails and the medium is left as o.
PowerLoss(o) == disk' = o /\ dev' = o /\ pend' = [b \in DOMAIN pend |-> {}]
=============================================================================
