------------------------------ MODULE Journal ------------------------------
(***************************************************************************)
(* ShizukuFS transactions (shizukufs/v1/libsfs): the running transaction   *)
(* and block cache of sfs_cache.c and sfs_alloc.c, the ordered commit and  *)
(* recovery of sfs_jbd2.c, and the mount, sync and unmount protocol of     *)
(* sfs_super.c, over a disk with a volatile write cache.                   *)
(*                                                                         *)
(* The file system is one thread; the interleaving is between its writes   *)
(* and the power. A step ends at a flush or with writes not yet flushed:   *)
(* a power loss between two writes is a power loss that keeps the first.   *)
(* A step that writes several blocks may fail after any number of them; a  *)
(* step that flushes may fail at the flush.                                *)
(***************************************************************************)
EXTENDS JournalLog

CONSTANTS KeepClean,    \* SFS_MOUNT_CLEAN_ON_SYNC, the mode Kernel64 mounts in
          WrapOrdered,  \* does the disk write a wrapped log's superblock before its blocks?
          MaxWork,      \* bound: mounts, transactions and faults before the last transaction
          MaxFaults     \* bound: power losses and I/O errors

ASSUME JournalAssumption ==
  KeepClean \in BOOLEAN /\ WrapOrdered \in BOOLEAN /\ MaxWork \in Nat /\ MaxFaults \in Nat

VARIABLES st,       \* what the file system does next
          mem,      \* the home blocks as the cache holds them
          txn,      \* B_JDIRTY buffers, deferred frees, revoke records
          dirty,    \* B_DIRTY data buffers
          late,     \* B_LATE buffers among them
          jnl,      \* head, next_seq, disk_start
          inUse,    \* mounted_dirty
          caller,   \* who asked for the commit: an operation, sfs_sync, sfs_unmount
          stamp,    \* generation given to new contents
          faults,   \* power losses and I/O errors so far
          found,    \* observed: the home blocks and metadata a mount would find, were the power lost now
          acked,    \* observed: the metadata last acknowledged or found at a mount
          offered,  \* observed: <<>>, or the metadata being committed
          lost      \* observed: has a sync failed between clearing and writing the flag?

media == <<device, found>>
memory == <<mem, txn, dirty, late, jnl, inUse, caller>>
observed == <<acked, offered, lost>>
vars == <<media, st, memory, stamp, faults, observed>>

NoTxn == [bufs |-> {}, frees |-> {}, revokes |-> {}]
NoJnl == [head |-> First, seq |-> 0, start |-> 0]
Unused == [role |-> "none", id |-> 0]
Blank == [b \in Home |->
            CASE b = Sb    -> [bm |-> {}, rec |-> FALSE]
              [] b = Inode -> [refs |-> [p \in PoolSet |-> Unused]]
              [] OTHER     -> [kind |-> "junk", id |-> 0]]

\* A freshly made volume: with an empty journal.
Formatted ==
  [b \in Blocks |-> CASE b = Jsb       -> [start |-> 0, seq |-> 1]
                      [] b \in LogBlks -> NoRec
                      [] OTHER         -> Blank[b]]

\* The metadata a medium or a cache describes.
View(h) ==
  [bm |-> h[Sb].bm, refs |-> h[Inode].refs,
   meta |-> [p \in {q \in PoolSet : h[Inode].refs[q].role = "meta"} |-> h[p]]]

Init ==
  /\ disk = Formatted /\ dev = Formatted /\ pend = [b \in Blocks |-> {}]
  /\ st = "off" /\ mem = Blank /\ txn = NoTxn /\ dirty = {} /\ late = {}
  /\ jnl = NoJnl /\ inUse = FALSE /\ caller = "none"
  /\ stamp = 1 /\ faults = 0
  /\ found = [home |-> Blank, view |-> View(Blank)] /\ acked = View(Formatted) /\ offered = <<>> /\ lost = FALSE

\* The steps of the disk. What a mount would find changes only with what is durable.
Send(writes) == Write(writes) /\ UNCHANGED found
FoundOn(medium) == {[home |-> h, view |-> View(h)] : h \in {Recovered(medium)}}
Recovering == IF disk' = disk THEN UNCHANGED found ELSE found' \in UNION {FoundOn(m) : m \in {disk'}}
Barrier(writes) == FlushThenWrite(writes) /\ Recovering
Lose(medium) == PowerLoss(medium) /\ Recovering

\* fs_release, or the power is gone.
Forget ==
  /\ mem' = Blank /\ txn' = NoTxn /\ dirty' = {} /\ late' = {}
  /\ jnl' = NoJnl /\ inUse' = FALSE /\ caller' = "none"

Off == st' = "off" /\ Forget

\* The bound on faults: they come early enough for the work that follows, and an operation's
\* error is never the last one, because without a power loss after it it is harmless.
Fault ==
  /\ faults < MaxFaults /\ stamp + 2 * faults <= MaxWork + 1
  /\ faults' = faults + 1
Error == faults + 1 < MaxFaults /\ Fault

\* sfs_fail: the transaction is dropped and nothing more is written.
Abort == st' = "dead" /\ Forget /\ Error

(* ---- mount: sfs_mount, sfs_journal_load, recover ---- *)

\* The volume is open; unless it stays clean until the first update, it is marked in use.
Opened ==
  /\ mem' = [HomeOf(dev) EXCEPT ![Sb].rec = ~ KeepClean]
  /\ st' = IF KeepClean THEN "idle" ELSE "marking"
  /\ stamp' = Min({stamp + 1, MaxWork + 1})
  /\ acked' = View(dev) /\ offered' = <<>>
  /\ UNCHANGED <<txn, dirty, late, inUse, caller, faults, lost>>
FlagInUse == IF KeepClean THEN <<>> ELSE <<W(Sb, [dev[Sb] EXCEPT !.rec = TRUE])>>

MountClean ==
  /\ st = "off" /\ dev[Jsb].start = 0
  /\ jnl' = [head |-> First, seq |-> dev[Jsb].seq, start |-> 0]
  /\ Opened
  /\ Send(FlagInUse)

\* The three passes of recover over what the disk returns.
MountReplay ==
  /\ st = "off" /\ dev[Jsb].start # 0
  /\ LET writes == ReplayWrites(dev)
     IN  \E k \in 0 .. Len(writes) :
           /\ Send(SubSeq(writes, 1, k))
           /\ IF k < Len(writes) THEN Off /\ Fault
              ELSE /\ st' = "replayed"
                   /\ jnl' = [head |-> First, seq |-> EndSeq(dev) + 1, start |-> dev[Jsb].start]
                   /\ UNCHANGED <<mem, txn, dirty, late, inUse, caller, faults>>
  /\ UNCHANGED <<stamp, observed>>

RecoverTail ==
  /\ st = "replayed" /\ st' = "emptied"
  /\ Barrier(<<WriteJsb(0, jnl.seq)>>)
  /\ jnl' = [jnl EXCEPT !.start = 0]
  /\ UNCHANGED <<mem, txn, dirty, late, inUse, caller, stamp, faults, observed>>

RecoverFlag ==
  /\ st = "emptied" /\ st' = "cleared"
  /\ Barrier(<<W(Sb, [dev[Sb] EXCEPT !.rec = FALSE])>>)
  /\ UNCHANGED <<memory, stamp, faults, observed>>

RecoverDone ==
  /\ st = "cleared"
  /\ UNCHANGED <<jnl>>
  /\ Barrier(FlagInUse)
  /\ Opened

MountFails ==
  /\ st \in {"replayed", "emptied", "cleared"}
  /\ Off /\ Fault
  /\ UNCHANGED <<media, stamp, observed>>

(* ---- operations on the running transaction ---- *)

\* The bound on what the caller asks for: after its last fault a volume is only mounted.
CallerActs == stamp + faults <= MaxWork /\ faults < MaxFaults
CallerEnds == stamp + faults <= MaxWork + 1 /\ faults < MaxFaults

\* sfs_op_begin on a volume the last sync left clean: set_mounted_state(1).
MarkInUse ==
  /\ st = "idle" /\ ~ inUse /\ st' = "marking" /\ CallerActs
  /\ mem' = [mem EXCEPT ![Sb].rec = TRUE]
  /\ Send(<<W(Sb, mem'[Sb])>>)
  /\ UNCHANGED <<txn, dirty, late, jnl, inUse, caller, stamp, faults, observed>>

MarkDone ==
  /\ st = "marking" /\ st' = "idle" /\ inUse' = TRUE
  /\ Barrier(<<>>)
  /\ UNCHANGED <<mem, txn, dirty, late, jnl, caller, stamp, faults, observed>>

\* The flush fails: the operation, or the mount of a volume that is not kept clean.
MarkFails ==
  /\ st = "marking" /\ Error
  /\ IF KeepClean THEN st' = "idle" /\ UNCHANGED memory ELSE Off
  /\ UNCHANGED <<media, stamp, observed>>

\* A truncate that zeroed a tail commits before it returns (force_commit).
MayUpdate == st = "idle" /\ inUse /\ late = {} /\ CallerActs

Ref(p) == mem[Inode].refs[p]
Update(m, bufs, frees, revokes) ==
  /\ mem' = m
  /\ txn' = [bufs |-> bufs, frees |-> frees, revokes |-> revokes]
  /\ UNCHANGED <<media, st, jnl, inUse, caller, stamp, faults, observed>>

\* sfs_alloc_meta_block, take_run and sfs_bnew: a directory or tree block.
AllocMeta(p) ==
  /\ MayUpdate /\ p \notin mem[Sb].bm
  /\ Update([mem EXCEPT ![Sb].bm = @ \cup {p},
                        ![Inode].refs[p] = [role |-> "meta", id |-> stamp],
                        ![p] = [kind |-> "m", id |-> stamp]],
            txn.bufs \cup {Sb, Inode, p}, txn.frees, txn.revokes)
  /\ UNCHANGED <<dirty, late>>

UpdateMeta(p) ==
  /\ MayUpdate /\ Ref(p).role = "meta" /\ mem[p].id # stamp
  /\ Update([mem EXCEPT ![p].id = stamp], txn.bufs \cup {Inode, p}, txn.frees, txn.revokes)
  /\ UNCHANGED <<dirty, late>>

\* sfs_file_write into a hole: sfs_alloc_blocks and write_new_blocks.
AllocData(p) ==
  /\ MayUpdate /\ p \notin mem[Sb].bm
  /\ Update([mem EXCEPT ![Sb].bm = @ \cup {p},
                        ![Inode].refs[p] = [role |-> "data", id |-> stamp],
                        ![p] = [kind |-> "d", id |-> stamp]],
            txn.bufs \cup {Sb, Inode}, txn.frees, txn.revokes)
  /\ dirty' = dirty \cup {p} /\ UNCHANGED late

\* sfs_file_truncate inside a block: zero_tail holds the zeroed block back, even one that
\* was never written ("early").
ShrinkData(p) ==
  /\ MayUpdate /\ Ref(p).role = "data"
  /\ Update([mem EXCEPT ![Inode].refs[p].role = IF p \in dirty THEN "early" ELSE "cut",
                        ![p].kind = "z"],
            txn.bufs \cup {Inode}, txn.frees, txn.revokes)
  /\ dirty' = dirty \cup {p} /\ late' = late \cup {p}

\* sfs_free_blocks: forget the buffer, defer the free, revoke a metadata block.
FreeBlock(p) ==
  /\ MayUpdate /\ Ref(p).role # "none"
  /\ Update([mem EXCEPT ![Inode].refs[p] = Unused], (txn.bufs \ {p}) \cup {Inode},
            txn.frees \cup {p},
            IF Ref(p).role = "meta" THEN txn.revokes \cup {p} ELSE txn.revokes)
  /\ dirty' = dirty \ {p} /\ late' = late \ {p}

\* evict_one and write_cluster: dirty data may be written at any time, late data may not.
WritableDataAny == dirty
WritableData == dirty \ late

EvictData(p) ==
  /\ st = "idle" /\ p \in WritableData
  /\ Send(<<W(p, mem[p])>>)
  /\ dirty' = dirty \ {p}
  /\ UNCHANGED <<st, mem, txn, late, jnl, inUse, caller, stamp, faults, observed>>

(* ---- commit: sfs_commit, sfs_journal_commit ---- *)

HomeWrites(blks) == LET bufs == Sorted(blks) IN [i \in DOMAIN bufs |-> W(bufs[i], mem[bufs[i]])]

\* sfs_apply_pending_frees, sfs_sb_write, then the dirty data (ordered mode).
Commit(who) ==
  /\ st = "idle" /\ (txn # NoTxn \/ (who # "op" /\ CallerEnds))
  /\ late # {} => who = "op"
  /\ LET touched == txn.bufs \cup (IF txn.frees = {} THEN {} ELSE {Sb})
         bufs == IF touched = {} THEN {} ELSE touched \cup {Sb}
         m == [mem EXCEPT ![Sb].bm = @ \ txn.frees]
         data == HomeWrites(WritableData)
     IN  \E k \in 0 .. Len(data) :
           /\ Send(SubSeq(data, 1, k))
           /\ offered' = IF bufs = {} THEN <<>> ELSE <<View(m)>>
           /\ IF k < Len(data) THEN Abort
              ELSE /\ st' = IF bufs = {} THEN "settled" ELSE "logging"
                   /\ mem' = m
                   /\ txn' = [bufs |-> bufs, frees |-> {}, revokes |-> txn.revokes]
                   /\ dirty' = dirty \ WritableData
                   /\ caller' = who
                   /\ UNCHANGED <<late, jnl, inUse, faults>>
  /\ UNCHANGED <<stamp, acked, lost>>

TxnNeed == Need(txn.bufs, txn.revokes)

\* The log blocks of the transaction from pos on, behind a journal superblock when one is due.
LogAt(pos, due, Issue(_)) ==
  LET writes == (IF due THEN <<WriteJsb(pos, jnl.seq)>> ELSE <<>>)
                  \o At(pos, TxnBlocks(jnl.seq, txn.bufs, txn.revokes, mem))
  IN  \E k \in 0 .. Len(writes) :
        /\ Issue(SubSeq(writes, 1, k))
        /\ IF k < Len(writes) THEN Abort
           ELSE /\ st' = "logged"
                /\ jnl' = [jnl EXCEPT !.head = pos, !.start = IF due THEN pos ELSE @]
                /\ UNCHANGED <<mem, txn, dirty, late, inUse, caller, faults>>
        /\ UNCHANGED <<stamp, observed>>

Wraps == jnl.head + TxnNeed > MaxLen

\* The log is full: make every checkpoint durable, then restart it.
WrapLog == st = "logging" /\ Wraps /\ LogAt(First, TRUE, Barrier)
AppendLog == st = "logging" /\ ~ Wraps /\ LogAt(jnl.head, jnl.start = 0, Send)

CommitRecordUnordered ==
  /\ st = "logged" /\ st' = "recorded"
  /\ Send(<<W(jnl.head + TxnNeed - 1, Rec("commit", jnl.seq, <<>>))>>)
  /\ UNCHANGED <<memory, stamp, faults, observed>>

CommitRecord ==
  /\ st = "logged"
  /\ \/ /\ Barrier(<<W(jnl.head + TxnNeed - 1, Rec("commit", jnl.seq, <<>>))>>)
        /\ st' = "recorded" /\ UNCHANGED <<memory, faults>>
     \/ Barrier(<<>>) /\ Abort
  /\ UNCHANGED <<stamp, observed>>

CommitFlush ==
  /\ st = "recorded" /\ st' = "committed"
  /\ Barrier(<<>>)
  /\ UNCHANGED <<memory, stamp, faults, observed>>

\* The end of sfs_commit: the pins are gone, late data becomes ordinary.
Return ==
  /\ st' = IF caller = "op" THEN "idle" ELSE "closing"
  /\ caller' = IF caller = "op" THEN "none" ELSE caller
  /\ txn' = NoTxn /\ late' = {}

\* sfs_cache_write_meta_direct: checkpoint in place, unflushed.
Checkpoint ==
  /\ st = "committed"
  /\ LET writes == HomeWrites(txn.bufs)
     IN  \E k \in 0 .. Len(writes) :
           /\ Send(SubSeq(writes, 1, k))
           /\ IF k < Len(writes) THEN Abort /\ UNCHANGED <<stamp, acked, offered>>
              ELSE /\ Return
                   /\ jnl' = [jnl EXCEPT !.head = @ + TxnNeed, !.seq = @ + 1]
                   /\ acked' = offered[1] /\ offered' = <<>>
                   /\ stamp' = Min({stamp + 1, MaxWork + 1})
                   /\ UNCHANGED <<mem, dirty, inUse, faults>>
  /\ UNCHANGED lost

\* Nothing to log: the data is flushed and that is all.
CommitData ==
  /\ st = "settled"
  /\ Barrier(<<>>)
  /\ Return
  /\ UNCHANGED <<mem, dirty, jnl, inUse, stamp, faults, observed>>

\* An update or a flush of the commit fails. Assumed of the disk: when the flush behind a
\* commit record fails it took effect, or the disk is reset before the next mount (PowerCut).
IoError ==
  /\ \/ (st = "idle" /\ txn # NoTxn) /\ UNCHANGED media
     \/ st \in {"logging", "logged", "settled"} /\ UNCHANGED media
     \/ st = "recorded" /\ Barrier(<<>>)
  /\ Abort
  /\ UNCHANGED <<stamp, observed>>

(* ---- after the commit: sfs_sync, sfs_unmount, set_mounted_state(0) ---- *)

MustClean == caller = "unmount" \/ (KeepClean /\ inUse)

SyncDone ==
  /\ st = "closing" /\ ~ MustClean
  /\ Barrier(<<>>)
  /\ st' = "idle" /\ caller' = "none"
  /\ UNCHANGED <<mem, txn, dirty, late, jnl, inUse, stamp, faults, observed>>

\* sfs_journal_mark_clean: every checkpoint durable, then an empty log.
CleanTail ==
  /\ st = "closing" /\ MustClean /\ st' = "tailless"
  /\ Barrier(IF jnl.start = 0 THEN <<>> ELSE <<WriteJsb(0, jnl.seq)>>)
  /\ jnl' = [jnl EXCEPT !.start = 0]
  /\ UNCHANGED <<mem, txn, dirty, late, inUse, caller, stamp, faults, observed>>

\* sb_write_direct with needs_recovery clear, if this mount had set it.
CleanFlag ==
  /\ st = "tailless" /\ inUse /\ st' = "unflagged"
  /\ jnl' = [jnl EXCEPT !.head = First]
  /\ mem' = [mem EXCEPT ![Sb].rec = FALSE]
  /\ Barrier(<<W(Sb, mem'[Sb])>>)
  /\ UNCHANGED <<txn, dirty, late, inUse, caller, stamp, faults, observed>>

CleanDoneStillInUse ==
  /\ \/ st = "unflagged"
     \/ st = "tailless" /\ ~ inUse
  /\ Barrier(<<>>)
  /\ IF caller = "unmount" THEN Off
     ELSE /\ st' = "idle" /\ caller' = "none"
          /\ UNCHANGED <<mem, txn, dirty, late, jnl, inUse>>
  /\ UNCHANGED <<stamp, faults, observed>>

CleanDone ==
  /\ \/ st = "unflagged"
     \/ st = "tailless" /\ ~ inUse
  /\ Barrier(<<>>)
  /\ IF caller = "unmount" THEN Off
     ELSE /\ st' = "idle" /\ caller' = "none" /\ inUse' = FALSE
          /\ UNCHANGED <<mem, txn, dirty, late, jnl>>
  /\ UNCHANGED <<stamp, faults, observed>>

\* A flush or the superblock's write fails: sfs_sync returns the error and the volume stays
\* in use; sfs_unmount releases it as it is.
CloseFails ==
  /\ st \in {"closing", "tailless", "unflagged"} /\ Error
  /\ lost' = (lost \/ (st = "unflagged" /\ caller = "sync"))
  /\ IF caller = "unmount" THEN Off
     ELSE /\ st' = "idle" /\ caller' = "none"
          /\ UNCHANGED <<mem, txn, dirty, late, jnl, inUse>>
  /\ UNCHANGED <<media, stamp, acked, offered>>

UnmountDead ==
  /\ st = "dead" /\ Off
  /\ UNCHANGED <<media, stamp, faults, observed>>

(* ---- the power ---- *)

\* A power loss leaves, of every block, the durable contents or one of the unflushed writes. The disk may be assumed to order one thing only: the superblock of a log that
\* wraps before the blocks written behind it.
Unflushed == {b \in Blocks : pend[b] # {}}
WrapPending == pend[Jsb] # {} /\ disk[Jsb].start # 0 /\ dev[Jsb].start = First
LogPending == Unflushed \cap LogBlks
Rewritten == {b \in Unflushed : Cardinality(pend[b]) > 1}

PowerCut ==
  /\ \E kept \in [Rewritten -> UNION {pend[b] : b \in Rewritten}], gone \in SUBSET Unflushed :
       /\ \A b \in DOMAIN kept : kept[b] \in pend[b]
       /\ WrapOrdered /\ Jsb \in gone /\ WrapPending => LogPending \subseteq gone
       /\ Lose([b \in Blocks |->
                 IF b \in gone \/ pend[b] = {} THEN disk[b]
                 ELSE IF b \in DOMAIN kept THEN kept[b] ELSE CHOOSE data \in pend[b] : TRUE])
  /\ Off /\ Fault
  /\ offered' = <<>>
  /\ UNCHANGED <<stamp, acked, lost>>

Mount == MountClean \/ MountReplay \/ RecoverTail \/ RecoverFlag \/ RecoverDone \/ MountFails
Operation ==
  \/ MarkInUse \/ MarkDone \/ MarkFails
  \/ \E p \in PoolSet : \/ AllocMeta(p) \/ UpdateMeta(p) \/ AllocData(p)
                        \/ ShrinkData(p) \/ FreeBlock(p) \/ EvictData(p)
Committing ==
  \/ \E who \in {"op", "sync", "unmount"} : Commit(who)
  \/ WrapLog \/ AppendLog \/ CommitRecord \/ CommitFlush \/ Checkpoint \/ CommitData \/ IoError
Closing == SyncDone \/ CleanTail \/ CleanFlag \/ CleanDone \/ CloseFails \/ UnmountDead

Next == Mount \/ Operation \/ Committing \/ Closing \/ PowerCut

Spec == Init /\ [][Next]_vars

(* ---- properties ---- *)

TypeOK ==
  /\ DOMAIN disk = Blocks /\ DOMAIN dev = Blocks /\ DOMAIN pend = Blocks
  /\ DOMAIN mem = Home
  /\ txn.bufs \subseteq Home /\ txn.frees \subseteq PoolSet /\ txn.revokes \subseteq PoolSet
  /\ late \subseteq dirty /\ dirty \subseteq PoolSet
  /\ jnl.head \in First .. MaxLen /\ jnl.start \in {0} \cup LogBlks
  /\ inUse \in BOOLEAN
  /\ caller \in {"none", "op", "sync", "unmount"}

\* The store this file system implements: stable is what the next mount would recover from
\* the writes that are durable for certain.
Store == INSTANCE AtomicStore WITH stable <- found.view, acked <- acked, offered <- offered

\* sfs_commit is atomic and durable: whatever unflushed writes a power loss keeps, at any
\* point of a commit, a checkpoint or a recovery, the next mount finds the last acknowledged
\* transaction or the one being committed, whole.
ImplementsAtomicStore == Store!Spec

OwnData(h, p) == h[p].kind \in {"d", "z"} /\ h[p].id = h[Inode].refs[p].id

\* A block the recovered metadata calls a file's holds only what was written for that file,
\* and one it calls metadata is never overwritten by file data: deferred frees and revoke
\* records keep replay and ordered data writes apart. (Left out: a block truncated by the
\* transaction that first wrote it, which zero_tail holds back until after the commit.)
NoForeignData ==
  LET h == found.home
  IN  \A p \in PoolSet :
        LET r == h[Inode].refs[p]
        IN  /\ r.role = "meta" => h[p].kind = "m"
            /\ r.role \in {"data", "cut"} => OwnData(h, p)

\* A truncate is never torn: the tail is zero only where the smaller size is recovered.
NoTornTruncate ==
  LET h == found.home
  IN  \A p \in PoolSet : h[Inode].refs[p].role = "data" => h[p].kind # "z"

\* While needs_recovery is clear the medium needs no replay: the home blocks alone are the
\* stable metadata, unless a sync reported an error after it had cleared the flag in memory.
FlagMeansReplay == ~ lost /\ ~ disk[Sb].rec => View(disk) = found.view
=============================================================================
