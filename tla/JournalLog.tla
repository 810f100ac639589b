----------------------------- MODULE JournalLog -----------------------------
(***************************************************************************)
(* The log of libsfs/sfs_jbd2.c on the medium: the blocks a transaction    *)
(* writes and what recovery makes of a medium, a function from blocks to   *)
(* contents. A checksum is modelled by what it covers: two blocks have the *)
(* same checksum exactly when they have the same contents, and a data copy *)
(* never starts with the journal's magic number (such blocks are escaped). *)
(***************************************************************************)
EXTENDS BlockDevice

CONSTANTS Jsb,        \* the journal superblock
          Sb, Inode,  \* free-space metadata; inode table
          Pool,       \* the blocks the allocator hands out, in disk order
          MaxLen,     \* JS_maxlen: the log is the blocks First .. MaxLen - 1
          Tpd         \* tags_per_desc

First == 1
Capacity == MaxLen - First
LogBlks == First .. MaxLen - 1
PoolSet == ToSet(Pool)

(* Bitmaps, group descriptors and the superblock join a transaction        *)
(* together (take_run, sfs_apply_pending_frees, sfs_sb_write): one block.  *)
HomeSeq == <<Sb, Inode>> \o Pool
Home == ToSet(HomeSeq)
Blocks == {Jsb} \cup LogBlks \cup Home

\* Log blocks are named by their place in the log, the others by what they hold. A
\* transaction is committed at a quarter of the log, so it always fits (sfs_mount).
ASSUME LogAssumption ==
  /\ MaxLen \in Nat /\ Tpd \in Nat \ {0}
  /\ Pool \in Seq(PoolSet) /\ Sb # Inode /\ {Sb, Inode} \cap PoolSet = {} /\ Jsb \notin Home
  /\ ({Jsb} \cup Home) \cap Nat = {}
  /\ Capacity >= 2 * Len(HomeSeq) + 2

\* A log block: its type, its sequence number and what it holds.
Rec(type, seq, items) == <<type, seq, items>>
Type(r) == r[1]
SeqOfRec(r) == r[2]
Items(r) == r[3]
NoRec == Rec("none", 0, <<>>)

\* The elements of s that are in keep, in their order.
Keeping(s, keep) ==
  LET kept[n \in 0 .. Len(s)] ==
        IF n = 0 THEN <<>> ELSE IF s[n] \in keep THEN Append(kept[n - 1], s[n]) ELSE kept[n - 1]
  IN  kept
Kept(s, keep) == Keeping(s, keep)[Len(s)]

(* ---- writing ---- *)

\* sfs_txn_sort: the transaction's buffers in disk order.
Sorted(blks) == Kept(HomeSeq, blks)

NDesc(n) == (n + Tpd - 1) \div Tpd
Need(blks, revokes) ==
  Cardinality(blks) + NDesc(Cardinality(blks)) + (IF revokes = {} THEN 0 ELSE 1) + 1

\* One descriptor and the copies of the blocks its tags name.
Group(seq, tags, contents) ==
  <<Rec("desc", seq, [i \in DOMAIN tags |-> W(tags[i], contents[tags[i]])])>>
    \o [i \in DOMAIN tags |-> Rec("data", 0, <<contents[tags[i]]>>)]

\* write_revokes, then the descriptor loop of sfs_journal_commit.
TxnBlocks(seq, blks, revokes, contents) ==
  LET bufs == Sorted(blks)
      Tags(g) == SubSeq(bufs, (g - 1) * Tpd + 1, Min({g * Tpd, Len(bufs)}))
  IN  (IF revokes = {} THEN <<>> ELSE <<Rec("revoke", seq, <<revokes>>)>>)
        \o FlattenSeq([g \in 1 .. NDesc(Len(bufs)) |-> Group(seq, Tags(g), contents)])

At(pos, recs) == [i \in DOMAIN recs |-> W(pos + i - 1, recs[i])]
WriteJsb(start, seq) == W(Jsb, [start |-> start, seq |-> seq])

(* ---- recovery ---- *)

JWrap(b) == IF b >= MaxLen THEN b - MaxLen + First ELSE b

\* One turn of do_pass: walk holds the block to read, the sequence number expected there
\* and the blocks accepted so far.
Turn(medium, walk) ==
  LET r == medium[walk.blk]
      Accept(n, seq) == [walk EXCEPT !.blk = JWrap(@ + n), !.next = seq,
                                     !.seen = Append(@, walk.blk)]
  IN  IF walk.end \/ SeqOfRec(r) # walk.next THEN [walk EXCEPT !.end = TRUE]
      ELSE CASE Type(r) = "desc"   -> Accept(1 + Len(Items(r)), walk.next)
             [] Type(r) = "commit" -> Accept(1, walk.next + 1)
             [] Type(r) = "revoke" -> Accept(1, walk.next)
             [] OTHER              -> [walk EXCEPT !.end = TRUE]

\* PASS_SCAN from the tail the journal superblock names, at most 2 * maxlen + 1 blocks.
Walk(medium) ==
  LET walk[turn \in 0 .. 2 * MaxLen + 1] ==
        IF turn = 0
        THEN [blk |-> medium[Jsb].start, next |-> medium[Jsb].seq, seen |-> <<>>, end |-> FALSE]
        ELSE CHOOSE after \in {Turn(medium, before) : before \in {walk[turn - 1]}} : TRUE
  IN  walk
Scan(medium) == Walk(medium)[2 * MaxLen + 1]

EndSeq(medium) == Scan(medium).next

\* The accepted blocks of complete transactions: passes 2 and 3 stop at end_seq.
Complete(medium, scan) == Kept(scan.seen, {p \in LogBlks : SeqOfRec(medium[p]) < scan.next})

RevokedEarlier(medium, log, b, seq) ==
  \E p \in ToSet(log) :
    /\ Type(medium[p]) = "revoke" /\ b \in Items(medium[p])[1]
    /\ seq > SeqOfRec(medium[p])

\* PASS_REVOKE and rvk_test: revoked by the same or a later transaction.
Revoked(medium, log, b, seq) ==
  \E p \in ToSet(log) :
    /\ Type(medium[p]) = "revoke" /\ b \in Items(medium[p])[1]
    /\ seq <= SeqOfRec(medium[p])

\* PASS_REPLAY of the descriptor at p: a tag is skipped when its block is revoked or when
\* the copy does not have the tag's checksum.
Replay(medium, log, p) ==
  LET tags == Items(medium[p])
      Good(i) == /\ ~ Revoked(medium, log, tags[i].blk, SeqOfRec(medium[p]))
                 /\ medium[JWrap(p + i)] = Rec("data", 0, <<tags[i].data>>)
      good == Kept([i \in DOMAIN tags |-> i], {i \in DOMAIN tags : Good(i)})
  IN  [i \in DOMAIN good |-> tags[good[i]]]

ReplayLog(medium, log) ==
  LET descs == Kept(log, {p \in LogBlks : Type(medium[p]) = "desc"})
  IN  FlattenSeq([i \in DOMAIN descs |-> Replay(medium, log, descs[i])])

\* The writes recover issues, in order. (The set comprehensions make TLC evaluate the scan
\* and the list of accepted blocks once.)
ReplayWrites(medium) ==
  CHOOSE writes \in UNION {{ReplayLog(medium, log) : log \in {Complete(medium, scan)}} :
                              scan \in {Scan(medium)}} : TRUE

\* The home blocks a mount finds on a medium: recover runs exactly when the journal has a tail.
HomeOf(medium) == [b \in Home |-> medium[b]]
Recovered(medium) ==
  IF medium[Jsb].start = 0 THEN HomeOf(medium)
  ELSE CHOOSE home \in {Overlay(writes, HomeOf(medium)) : writes \in {ReplayWrites(medium)}} : TRUE
=============================================================================
