------------------------------- MODULE Virtq -------------------------------
(***************************************************************************)
(* A split virtqueue (kernel64/virtq.c) under the command engine of the    *)
(* virtio-gpu driver (gfx_virtio.c), with a device that takes chains from  *)
(* the available ring and returns them in any order. The driver runs under *)
(* vg.lock; every step of it may interleave with the device.               *)
(***************************************************************************)
EXTENDS Integers, FiniteSets

CONSTANTS Size,      \* entries of the queue
          IdxMod,    \* the ring indices wrap here (2^16)
          MaxSlots,  \* VG_SLOTS, commands per batch
          MaxChain,  \* bound: descriptors of one chain
          MaxStrange,\* bound: ids the device returns that it never got
          Commands,  \* what the slots' requests may say
          None

ASSUME VirtqAssumption ==
  /\ Size \in Nat \ {0} /\ IdxMod \in Nat /\ IdxMod > Size
  /\ MaxSlots \in Nat \ {0} /\ MaxChain \in Nat \ {0} /\ MaxStrange \in Nat
  /\ None \notin Commands

VARIABLES desc,      \* descriptors: next, F_NEXT, and the slot their buffers belong to
          freeHead, numFree,
          chain,     \* by head: chain_len and cookie, the slot of the command
          avail,     \* idx, avail_pending and ring of the driver
          used,      \* idx and ring of the device
          lastUsed,  \* last_used_idx
          pc,        \* where vg_run is: "idle", "add", "kick", "flags", "notify", "drain"
          ok,        \* vg.ok
          wants,     \* what virtq_kick_prepare returns
          slots,     \* the commands of the batch: request and response
          pending,   \* the slots vg_run still waits for
          dev        \* the device: next entry, chains it has, NO_NOTIFY, awake

ring == <<desc, freeHead, numFree, chain, avail, lastUsed>>
vars == <<ring, used, pc, ok, wants, slots, pending, dev>>

Descs == 0 .. Size - 1
Bogus == Size   \* an id that names no descriptor, and a ring entry already consumed

FreeDesc(n) == [next |-> n, more |-> FALSE, slot |-> None]
NoChain == [len |-> 0, slot |-> None]

Empty == [i \in Descs |-> Bogus]
NoCommand == [req |-> None, resp |-> None]

\* virtq_init on zeroed memory; the device sleeps until its first notification.
Init ==
  /\ desc = [i \in Descs |-> FreeDesc(i + 1)]
  /\ freeHead = 0 /\ numFree = Size
  /\ chain = [i \in Descs |-> NoChain]
  /\ avail = [idx |-> 0, pending |-> 0, ring |-> Empty]
  /\ used = [idx |-> 0, ring |-> Empty]
  /\ lastUsed = 0
  /\ pc = "idle" /\ ok = TRUE /\ wants = FALSE
  /\ slots = [k \in 1 .. MaxSlots |-> NoCommand]
  /\ pending = {}
  /\ dev = [last |-> 0, held |-> {}, quiet |-> FALSE, awake |-> FALSE]

\* The n descriptors from d on, along their next links: Walk(d, n)[k] is the k-th.
\* A link that leads out of the table leads nowhere from there.
Follow(d) == IF d \in Descs THEN desc[d].next ELSE Bogus
Walk(d, n) ==
  LET at[k \in 1 .. n] == IF k = 1 THEN d ELSE Follow(at[k - 1])
  IN  at
Members(w) == {w[k] : k \in DOMAIN w}
ChainOf(h) == Members(Walk(h, chain[h].len))

-----------------------------------------------------------------------------
\* A chain of `total' free descriptors for a slot, its head at entry i of the ring.
AddAt(total, slot, i) ==
  LET w == Walk(freeHead, total)
      tail == w[total]
  IN  /\ desc' = [d \in Descs |->
                    IF d \notin Members(w) THEN desc[d]
                    ELSE [next |-> IF d = tail THEN 0 ELSE desc[d].next, more |-> d # tail, slot |-> slot]]
      /\ freeHead' = desc[tail].next
      /\ numFree' = numFree - total
      /\ chain' = [chain EXCEPT ![freeHead] = [len |-> total, slot |-> slot]]
      /\ avail' = [avail EXCEPT !.ring[i] = freeHead, !.pending = @ + 1]

VirtqAddNoPending(total, slot) == AddAt(total, slot, avail.idx % Size)

\* virtq_add: behind the entries that are not published yet.
VirtqAdd(total, slot) == AddAt(total, slot, ((avail.idx + avail.pending) % IdxMod) % Size)

\* The slots of the batch that is being queued or waited for.
Batch == {k \in 1 .. MaxSlots : slots[k].req # None}

\* vg_run, the lock held: the next command goes into its slot and its chain into
\* the ring; without room the device is given up with its chains unpublished.
VgAdd(total, cmd) ==
  LET k == Cardinality(Batch) + 1
  IN  /\ pc \in {"idle", "add"} /\ ok /\ k <= MaxSlots
      /\ slots' = [slots EXCEPT ![k] = [req |-> cmd, resp |-> None]]
      /\ IF total <= numFree
           THEN /\ VirtqAdd(total, k)
                /\ pending' = pending \cup {k}
                /\ pc' = "add"
                /\ UNCHANGED ok
           ELSE /\ ok' = FALSE /\ pc' = "idle"
                /\ UNCHANGED <<desc, freeHead, numFree, chain, avail, pending>>
      /\ UNCHANGED <<lastUsed, used, wants, dev>>

VgKick ==
  /\ pc = "add"
  /\ pc' = "kick"
  /\ UNCHANGED <<ring, used, ok, wants, slots, pending, dev>>

Publish(here, next) ==
  /\ pc = here
  /\ avail' = [avail EXCEPT !.idx = (@ + avail.pending) % IdxMod, !.pending = 0]
  /\ pc' = next
  /\ UNCHANGED <<desc, freeHead, numFree, chain, lastUsed, used, ok, wants, slots, pending, dev>>

ReadFlags(here, next) ==
  /\ pc = here
  /\ wants' = ~dev.quiet
  /\ pc' = next
  /\ UNCHANGED <<ring, used, ok, slots, pending, dev>>

KickPrepareReadsFirst == ReadFlags("kick", "flags") \/ Publish("flags", "notify")

\* virtq_kick_prepare: the index is published, a full barrier, then the device's
\* flags are read.
KickPrepare == Publish("kick", "flags") \/ ReadFlags("flags", "notify")

\* virtio_pci_notify, when the device wants it.
Notify ==
  /\ pc = "notify"
  /\ dev' = [dev EXCEPT !.awake = @ \/ wants]
  /\ pc' = "drain" /\ wants' = FALSE
  /\ UNCHANGED <<ring, used, ok, slots, pending>>

-----------------------------------------------------------------------------
\* What virtq_get_used finds: nothing, an id it never gave, or the head of a chain.
NothingUsed == lastUsed = used.idx
UsedId == used.ring[lastUsed % Size]
Strange == UsedId \in Descs => chain[UsedId].len = 0

\* The chain with head h is taken and spliced before the free list, at d.
Splice(h, d) ==
  /\ pc = "drain" /\ ~NothingUsed
  /\ used' = [used EXCEPT !.ring[lastUsed % Size] = Bogus]
  /\ lastUsed' = (lastUsed + 1) % IdxMod
  /\ desc' = [e \in Descs |-> IF e \notin ChainOf(h) THEN desc[e]
                              ELSE FreeDesc(IF e = d THEN freeHead ELSE desc[e].next)]
  /\ freeHead' = h
  /\ numFree' = numFree + chain[h].len
  /\ chain' = [chain EXCEPT ![h] = NoChain]
  /\ pending' = pending \ {chain[h].slot}
  /\ UNCHANGED <<avail, pc, ok, wants, slots, dev>>

GetUsedAtHead == ~Strange /\ Splice(UsedId, UsedId)

\* virtq_get_used returns a chain's cookie, its descriptors go back to the free list
\* from its tail, and the loop of vg_run ticks its command off.
GetUsed == ~Strange /\ Splice(UsedId, Walk(UsedId, chain[UsedId].len)[chain[UsedId].len])

\* It returns NULL: nothing new, or a strange id, which is skipped.
GetUsedNull ==
  /\ pc = "drain" /\ (NothingUsed \/ Strange)
  /\ lastUsed' = IF NothingUsed THEN lastUsed ELSE (lastUsed + 1) % IdxMod
  /\ UNCHANGED <<desc, freeHead, numFree, chain, avail, used, wants, dev>>

\* The loop of vg_run behind the drained ring: all answered, time over, or again.
VgReturns ==
  /\ GetUsedNull /\ pending = {}
  /\ pc' = "idle"
  /\ slots' = [k \in 1 .. MaxSlots |-> NoCommand]
  /\ UNCHANGED <<ok, pending>>

GiveUp == GetUsedNull /\ pending # {} /\ pc' = "idle" /\ UNCHANGED <<slots, pending>>

VgTimesOutKeepsDevice ==
  /\ GetUsedNull /\ pending # {} /\ pc' = "idle"
  /\ slots' = [k \in 1 .. MaxSlots |-> NoCommand] /\ pending' = {}
  /\ UNCHANGED ok

VgTimesOutWhenUsed == GiveUp /\ ok' = FALSE /\ ~NothingUsed

\* After VG_TIMEOUT_MS the device is given up: its chains may still be answered.
VgTimesOut == GiveUp /\ ok' = FALSE

VgPollsAgain ==
  /\ GetUsedNull /\ pending # {}
  /\ UNCHANGED <<pc, ok, slots, pending>>

-----------------------------------------------------------------------------
(* The device, as the specification the driver is written from allows it. *)

\* It takes the next published chain.
DevFetch ==
  LET h == avail.ring[dev.last % Size]
  IN  /\ dev.awake /\ dev.last # avail.idx /\ h # Bogus
      /\ avail' = [avail EXCEPT !.ring[dev.last % Size] = Bogus]
      /\ dev' = [dev EXCEPT !.last = (@ + 1) % IdxMod, !.held = @ \cup {h}]
      /\ UNCHANGED <<desc, freeHead, numFree, chain, lastUsed, used, pc, ok, wants, slots, pending>>

\* It answers a chain: the response is in memory before the used index moves.
DevComplete(h) ==
  /\ h \in dev.held
  /\ slots' = [slots EXCEPT ![desc[h].slot].resp = slots[desc[h].slot].req]
  /\ used' = [idx |-> (used.idx + 1) % IdxMod, ring |-> [used.ring EXCEPT ![used.idx % Size] = h]]
  /\ dev' = [dev EXCEPT !.held = @ \ {h}]
  /\ UNCHANGED <<ring, pc, ok, wants, pending>>

\* It returns an id it never got, at most MaxStrange times in all, and while the
\* used ring is empty: when all other entries are taken, the last answer overwrites
\* that id and nothing else.
DevStrange ==
  /\ dev.awake /\ dev.held = {} /\ NothingUsed
  /\ (used.idx - dev.last) % IdxMod < MaxStrange
  /\ used' = [idx |-> (used.idx + 1) % IdxMod, ring |-> [used.ring EXCEPT ![used.idx % Size] = Bogus]]
  /\ UNCHANGED <<ring, pc, ok, wants, slots, pending, dev>>

\* It asks for no notifications while it is awake anyway, and before it sleeps it
\* asks for them again and looks once more.
DevQuiet ==
  /\ dev.awake /\ ~dev.quiet
  /\ dev' = [dev EXCEPT !.quiet = TRUE]
  /\ UNCHANGED <<ring, used, pc, ok, wants, slots, pending>>

DevLoud ==
  /\ dev.quiet
  /\ dev' = [dev EXCEPT !.quiet = FALSE]
  /\ UNCHANGED <<ring, used, pc, ok, wants, slots, pending>>

DevSleep ==
  /\ dev.awake /\ ~dev.quiet /\ dev.last = avail.idx
  /\ dev' = [dev EXCEPT !.awake = FALSE]
  /\ UNCHANGED <<ring, used, pc, ok, wants, slots, pending>>

Driver == VgKick \/ KickPrepare \/ Notify \/ GetUsed \/ VgReturns \/ VgPollsAgain
Next ==
  \/ \E total \in 1 .. MaxChain, cmd \in Commands : VgAdd(total, cmd)
  \/ VgKick \/ KickPrepare \/ Notify
  \/ GetUsed \/ VgReturns \/ VgTimesOut \/ VgPollsAgain
  \/ DevFetch \/ DevStrange \/ DevQuiet \/ DevLoud \/ DevSleep
  \/ \E h \in Descs : DevComplete(h)

Spec == Init /\ [][Next]_vars

\* The thread in vg_run runs (Sched), and its five seconds pass. The device may
\* stop at any time.
Fairness == WF_vars(Driver) /\ WF_vars(VgTimesOut)

FairSpec == Spec /\ Fairness

-----------------------------------------------------------------------------
InFlight == {h \in Descs : chain[h].len > 0}
FreeList == Members(Walk(freeHead, numFree))

\* Whatever order chains return in, the free list and the chains in flight share
\* out the descriptors, and the device that follows F_NEXT from a head reads
\* exactly the chain of one command.
RingIntact ==
  /\ FreeList \subseteq Descs /\ Cardinality(FreeList) = numFree
  /\ \A h \in InFlight :
       LET w == Walk(h, chain[h].len)
       IN  /\ Members(w) \subseteq Descs /\ Members(w) \cap FreeList = {}
           /\ Cardinality(Members(w)) = chain[h].len
           /\ \A k \in DOMAIN w : desc[w[k]].slot = chain[h].slot /\ (desc[w[k]].more <=> k < chain[h].len)
           /\ \A g \in InFlight \ {h} : ChainOf(g) \cap Members(w) = {}
  /\ FreeList \cup UNION {ChainOf(h) : h \in InFlight} = Descs

\* The indices n from a on, across the wrap.
Span(a, n) == {(a + k) % IdxMod : k \in 0 .. n - 1}
Unseen == Span(dev.last, (avail.idx + avail.pending - dev.last) % IdxMod)
Unread == Span(lastUsed, (used.idx - lastUsed) % IdxMod)

\* Every chain in flight is in exactly one place, across the wrap of the 16-bit
\* indices: in the available ring, at the device, or in the used ring.
EveryChainOnce ==
  LET a == {avail.ring[i % Size] : i \in Unseen}
      u == {used.ring[i % Size] : i \in Unread} \ {Bogus}
  IN  /\ a \cup dev.held \cup u = InFlight
      /\ Cardinality(Unseen) + Cardinality(dev.held) + Cardinality(u) = Cardinality(InFlight)

\* A batch that is complete has its own answers, not those of an earlier batch
\* that was given up while its chains still point at the slots.
AnswersMatch ==
  pc = "drain" /\ pending = {} => \A k \in Batch : slots[k].resp = slots[k].req

\* The device never sleeps beside a published chain unless the driver is about to
\* notify it.
NoLostKick ==
  ~dev.awake /\ dev.last # avail.idx => pc = "flags" \/ (pc = "notify" /\ wants)

\* Every call of vg_run that has queued its batch returns, whatever the device does.
BatchEnds == (pc \in {"kick", "flags", "notify", "drain"}) ~> (pc = "idle")
=============================================================================
