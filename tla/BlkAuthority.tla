---------------------------- MODULE BlkAuthority ----------------------------
(***************************************************************************)
(* Who may change a whole disk: the block authority (kernel64/             *)
(* blk_authority.c) under the block layer (blk.c) and the volume mounts,   *)
(* and the snapshots of installer files it keeps for a claim               *)
(* (archive_source.c). Every call runs under the authority's mutex and is  *)
(* one step; an asynchronous write leaves it before it reaches the driver. *)
(***************************************************************************)
EXTENDS Naturals, FiniteSets

CONSTANTS Disks,      \* whole disks, at most BLK_MAX_DEVICES
          AsyncDisks, \* those whose driver has read_async or write_async
          OriginDisk, \* the disk on the unit of an external boot medium, or None
          Slots,      \* ARCHIVE_SOURCE_SLOTS
          Owners,     \* the addresses claims and snapshots are owned by
          MaxEpoch,   \* UINT64_MAX of the authority's epoch
          MaxOpens,   \* UINT64_MAX of the snapshots' epoch
          None

ASSUME AuthorityAssumption ==
  /\ IsFiniteSet(Disks) /\ AsyncDisks \subseteq Disks /\ OriginDisk \in Disks \cup {None}
  /\ MaxEpoch \in Nat /\ MaxOpens \in Nat /\ Slots \in Nat
  /\ None \notin Disks \cup Owners \cup Nat

VARIABLES gen,       \* identity.generation of a disk, 0 before it is registered
          epoch,
          poisoned,
          claim,     \* owner and sources (snapshot, generation) of the disk's claim
          mounted,   \* disks with BLK_F_MOUNTED, on themselves or on a partition
          roles,     \* roles_kind, and the pinned boot and system disks
          snap,      \* snapshots: owner, refs, generation
          opens,     \* the snapshots' epoch
          flying,    \* disks with an asynchronous write past its check
          reviewed,  \* history: identities that reviews have told somebody
          outdated,  \* history: those under which the disk changed, or its driver failed, later
          intruded   \* history: disks changed by somebody else while they were claimed

diskWords == <<gen, epoch, poisoned, claim, mounted, roles, flying, reviewed, outdated, intruded>>
archive == <<snap, opens>>

Snapshots == 1 .. Slots

NoClaim == [owner |-> None, sources |-> {}]
NoSnap == [owner |-> None, refs |-> 0, gen |-> 0]
Unbound == [kind |-> 0, pins |-> {}]

\* The epochs count the registrations and opens there have been before.
AuthorityInit(epoch0, opens0) ==
  /\ gen = [d \in Disks |-> 0] /\ epoch = epoch0
  /\ poisoned = [d \in Disks |-> FALSE]
  /\ claim = [d \in Disks |-> NoClaim]
  /\ mounted = {} /\ roles = Unbound
  /\ snap = [a \in Snapshots |-> NoSnap] /\ opens = opens0
  /\ flying = {} /\ reviewed = {} /\ outdated = {} /\ intruded = {}

Claimed == {d \in Disks : claim[d].owner # None}

-----------------------------------------------------------------------------
\* bump: a new generation, or the end of the disk's use when there is none left.
Bump(d) ==
  IF epoch = MaxEpoch
    THEN poisoned' = [poisoned EXCEPT ![d] = TRUE] /\ UNCHANGED <<gen, epoch>>
    ELSE gen' = [gen EXCEPT ![d] = epoch + 1] /\ epoch' = epoch + 1 /\ UNCHANGED poisoned

\* What a review has told of d is no longer so.
Outdates(d) == outdated' = outdated \cup (reviewed \cap {<<d, gen[d]>>})

\* The contents of d change; `by' is the owner who does it, or None.
Changes(d, by) ==
  /\ Outdates(d)
  /\ intruded' = IF claim[d].owner = by THEN intruded ELSE intruded \cup {d}

\* blk_authority_register, for a unit that is not registered yet.
Register(d) ==
  /\ gen[d] = 0 /\ epoch # MaxEpoch
  /\ Bump(d)
  /\ UNCHANGED <<claim, mounted, roles, flying, reviewed, outdated, intruded, archive>>

\* blk_authority_bind_boot_roles and blk_authority_bind_archive_origin, once.
BindRoles(kind, pinned) ==
  /\ roles.kind = 0 /\ Claimed = {}
  /\ \A d \in pinned : gen[d] # 0
  /\ roles' = [kind |-> kind, pins |-> {<<d, gen[d]>> : d \in pinned}]
  /\ UNCHANGED <<gen, epoch, poisoned, claim, mounted, flying, reviewed, outdated, intruded, archive>>

-----------------------------------------------------------------------------
(* The block layer and the mounts, for disks nobody has claimed. *)

\* blk_authority_enter
Enter(d) == gen[d] # 0 /\ claim[d].owner = None /\ ~poisoned[d]

LeaveOnError(d, failed, changed) ==
  IF failed THEN Bump(d) ELSE UNCHANGED <<gen, epoch, poisoned>>

\* blk_authority_leave
Leave(d, failed, changed) ==
  IF failed \/ changed THEN Bump(d) ELSE UNCHANGED <<gen, epoch, poisoned>>

\* blk_write, blk_discard and blk_control, which may fail half-way.
BlkWrite(d, failed) ==
  /\ Enter(d)
  /\ Changes(d, None)
  /\ Leave(d, failed, TRUE)
  /\ UNCHANGED <<claim, mounted, roles, flying, reviewed, archive>>

\* blk_read or blk_flush with an error: what was reviewed may no longer be there.
BlkReadFails(d) ==
  /\ Enter(d)
  /\ Outdates(d)
  /\ Leave(d, TRUE, FALSE)
  /\ UNCHANGED <<claim, mounted, roles, flying, reviewed, intruded, archive>>

\* blk_write_async on a driver that takes it: checked first, written later.
BlkWriteAsync(d) ==
  /\ d \in AsyncDisks \ flying /\ Enter(d)
  /\ flying' = flying \cup {d}
  /\ Leave(d, FALSE, FALSE)
  /\ UNCHANGED <<claim, mounted, roles, reviewed, outdated, intruded, archive>>

AsyncLands(d) ==
  /\ d \in flying
  /\ flying' = flying \ {d}
  /\ Changes(d, None)
  /\ UNCHANGED <<gen, epoch, poisoned, claim, mounted, roles, reviewed, archive>>

\* vfs_mount_next and blk_authority_mark_mounted.
MountVolume(d) ==
  /\ d \notin mounted /\ Enter(d)
  /\ mounted' = mounted \cup {d}
  /\ Leave(d, FALSE, FALSE)
  /\ UNCHANGED <<claim, roles, flying, reviewed, outdated, intruded, archive>>

BlockLayer(present) ==
  \E d \in present :
    \/ Register(d)
    \/ \E failed \in BOOLEAN : BlkWrite(d, failed)
    \/ BlkReadFails(d) \/ BlkWriteAsync(d) \/ AsyncLands(d) \/ MountVolume(d)

-----------------------------------------------------------------------------
(* Snapshots of installer files. *)

Free(a) == snap[a].refs = 0
Matches(a, g) == ~Free(a) /\ snap[a].gen = g

\* archive_source_open in the first free slot, once the origin of the files is bound.
CanOpen(a) == roles.kind # 0 /\ opens # MaxOpens /\ Free(a) /\ \A b \in 1 .. a - 1 : ~Free(b)
Open(o, a) ==
  /\ CanOpen(a)
  /\ opens' = opens + 1
  /\ snap' = [snap EXCEPT ![a] = [owner |-> o, refs |-> 1, gen |-> opens + 1]]

Unref(s) == IF s.refs = 1 THEN NoSnap ELSE [s EXCEPT !.refs = @ - 1]

\* archive_source_close: the opener's reference. A claim keeps its own.
Closed(s, o, g) == IF s.refs > 0 /\ s.owner = o /\ s.gen = g THEN Unref([s EXCEPT !.owner = None]) ELSE s

\* archive_source_release of a claim's reference.
Dropped(s, g) ==
  IF s.refs > (IF s.owner = None THEN 0 ELSE 1) /\ s.gen = g THEN Unref(s) ELSE s

-----------------------------------------------------------------------------
(* Claims. *)

PinOk(pin) == Enter(pin[1]) /\ gen[pin[1]] = pin[2]
RolesOk == roles.kind = 2 \/ (roles.kind = 1 /\ \A pin \in roles.pins : PinOk(pin))
Excluded(d) ==
  ~ \/ roles.kind = 1 /\ \A pin \in roles.pins : pin[1] # d
    \/ roles.kind = 2 /\ d # OriginDisk
SourcesOk(pins) == \A pin \in pins : Matches(pin[1], pin[2])

EligibleMounted(d, pins) ==
  Enter(d) /\ d \notin AsyncDisks /\ RolesOk /\ ~Excluded(d) /\ SourcesOk(pins)

Eligible(d, pins) ==
  Enter(d) /\ d \notin AsyncDisks /\ d \notin mounted /\ RolesOk /\ ~Excluded(d) /\ SourcesOk(pins)

\* blk_authority_review
ReviewTarget(d, pins) ==
  /\ Eligible(d, pins)
  /\ reviewed' = reviewed \cup {<<d, gen[d]>>}
  /\ UNCHANGED <<gen, epoch, poisoned, claim, mounted, roles, flying, outdated, intruded, archive>>

\* blk_authority_claim_target: the review is the disk's identity and both snapshots
\* are retained, or nothing changes.
ClaimTarget(o, d, g, pins) ==
  /\ Eligible(d, pins) /\ gen[d] = g /\ \A pin \in pins : snap[pin[1]].owner = o
  /\ claim' = [claim EXCEPT ![d] = [owner |-> o, sources |-> pins]]
  /\ snap' = [a \in Snapshots |-> IF \E pin \in pins : pin[1] = a THEN [snap[a] EXCEPT !.refs = @ + 1] ELSE snap[a]]
  /\ UNCHANGED <<gen, epoch, poisoned, mounted, roles, flying, reviewed, outdated, intruded, opens>>

\* held
Held(o, d, g) ==
  /\ claim[d].owner = o /\ ~poisoned[d] /\ gen[d] = g
  /\ RolesOk /\ ~Excluded(d) /\ SourcesOk(claim[d].sources) /\ d \notin mounted

\* io and blk_authority_flush: a driver's error leaves the disk in an unknown state.
ClaimIo(o, d, g, write, failed) ==
  /\ Held(o, d, g)
  /\ poisoned' = [poisoned EXCEPT ![d] = failed]
  /\ IF write THEN Changes(d, o) ELSE UNCHANGED <<outdated, intruded>>
  /\ UNCHANGED <<gen, epoch, claim, mounted, roles, flying, reviewed, archive>>

MayReleasePoisoned(o, d, g) == claim[d].owner = o /\ gen[d] = g

MayRelease(o, d, g) == claim[d].owner = o /\ ~poisoned[d] /\ gen[d] = g

\* What blk_authority_release leaves of the snapshots when it succeeds.
SnapsDropped(d) ==
  [a \in Snapshots |-> IF \E pin \in claim[d].sources : pin[1] = a
                         THEN Dropped(snap[a], (CHOOSE pin \in claim[d].sources : pin[1] = a)[2])
                         ELSE snap[a]]

\* blk_authority_release: a new generation first; without one the claim stays.
Released(o, d, g) ==
  /\ MayRelease(o, d, g)
  /\ Bump(d)
  /\ claim' = IF epoch = MaxEpoch THEN claim ELSE [claim EXCEPT ![d] = NoClaim]
=============================================================================
