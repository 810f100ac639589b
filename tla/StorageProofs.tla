--------------------------- MODULE StorageProofs ---------------------------
(***************************************************************************)
(* The two parts that guard what is on a disk, proved for every size.      *)
(*                                                                         *)
(* The authority: what a claim is worth, for every number of disks,        *)
(* processes, snapshots and epochs. It is granted only on a review that    *)
(* still holds, nobody else reaches the disk while it lasts, and an        *)
(* unknown disk is never given back.                                       *)
(*                                                                         *)
(* The journal: a volume whose flag says "clean" never holds work that a   *)
(* recovery would have to replay, whatever the device keeps of its cache   *)
(* and wherever the power fails.                                           *)
(***************************************************************************)
EXTENDS Journal, SetupNative, FiniteSetTheorems, NaturalsInduction,
        WellFoundedInduction, TLAPS

(* The authority. *)

\* The authority's words have their types.
AuthTypes ==
  /\ epoch \in Nat /\ gen \in [Disks -> Nat] /\ poisoned \in [Disks -> BOOLEAN]
  /\ claim = [d \in Disks |-> claim[d]]
  /\ reviewed \subseteq Disks \X Nat
  /\ machine \in Machines

\* A generation that a bump hands out is new to disks and reviews.
EpochInv ==
  /\ \A d \in Disks : gen[d] <= epoch
  /\ \A d \in Disks, g \in Nat : <<d, g>> \in reviewed => g <= epoch

\* Only disks without an asynchronous driver are reviewed or claimed, and an outdated
\* identity is current only on a disk that nobody can claim.
ReviewInv ==
  /\ flying \subseteq AsyncDisks
  /\ \A d \in Disks, g \in Nat : <<d, g>> \in reviewed => d \notin AsyncDisks
  /\ outdated \subseteq reviewed
  /\ \A d \in Disks : <<d, gen[d]>> \in outdated => poisoned[d] \/ claim[d].owner # None

\* A claimed disk is registered and its owner's alone.
AloneInv == ClaimIsExclusive /\ Claimed \cap AsyncDisks = {} /\ \A d \in Claimed : gen[d] # 0

\* The owner slots have their types.
SlotType == [proc : Procs \cup {None}, retired : BOOLEAN, claim : Disks \cup {None}, target : Nat,
             sources : [Files -> [cap : Snapshots \cup {None}, gen : Nat, admitted : BOOLEAN]]]
SlotInv == owners \in [Owners -> SlotType] /\ opens \in Nat

AuthInv == AuthTypes /\ EpochInv /\ ReviewInv /\ AloneInv

USE DEF Claimed, AuthTypes, EpochInv, ReviewInv

LEMMA InitAuth == SetupInit => AuthInv
<1> SUFFICES ASSUME SetupInit
             PROVE  AuthInv
  OBVIOUS
<1>1. AuthTypes
  BY AuthorityAssumption, SetupAssumption DEF SetupInit, AuthorityInit
<1>2. EpochInv /\ ReviewInv
  BY AuthorityAssumption, SetupAssumption DEF SetupInit, AuthorityInit
<1>3. Claimed = {}
  BY DEF SetupInit, AuthorityInit, NoClaim
<1>4. AloneInv
  BY <1>3 DEF SetupInit, AuthorityInit, AloneInv, ClaimIsExclusive
<1> QED BY <1>1, <1>2, <1>4 DEF AuthInv

-----------------------------------------------------------------------------
(* The block layer. *)

\* bump: the new generation is current nowhere else, or the disk's use ends.
LEMMA BumpFresh ==
  ASSUME AuthTypes, EpochInv, NEW d \in Disks, Bump(d)
  PROVE  /\ epoch' \in Nat /\ gen' \in [Disks -> Nat] /\ poisoned' \in [Disks -> BOOLEAN]
         /\ epoch <= epoch' /\ \A e \in Disks : gen'[e] <= epoch'
         /\ \A e \in Disks \ {d} : gen'[e] = gen[e] /\ poisoned'[e] = poisoned[e]
         /\ poisoned'[d] \/ (gen'[d] > epoch /\ poisoned'[d] = poisoned[d])
         /\ gen[d] # 0 => gen'[d] # 0
<1>1. CASE epoch = MaxEpoch
  <2>1. poisoned' = [poisoned EXCEPT ![d] = TRUE] /\ gen' = gen /\ epoch' = epoch
    BY <1>1 DEF Bump
  <2>2. poisoned' \in [Disks -> BOOLEAN] /\ poisoned'[d]
    BY <2>1
  <2>3. \A e \in Disks \ {d} : poisoned'[e] = poisoned[e]
    BY <2>1
  <2> QED BY <2>1, <2>2, <2>3
<1>2. CASE epoch # MaxEpoch
  <2>1. gen' = [gen EXCEPT ![d] = epoch + 1] /\ epoch' = epoch + 1 /\ poisoned' = poisoned
    BY <1>2 DEF Bump
  <2>2. gen' \in [Disks -> Nat] /\ gen'[d] = epoch + 1
    BY <2>1
  <2> QED BY <2>1, <2>2
<1> QED BY <1>1, <1>2

LEMMA ChangesKeeps ==
  ASSUME AuthTypes, NEW d, NEW by, Changes(d, by)
  PROVE  /\ outdated \subseteq outdated' /\ (outdated \subseteq reviewed => outdated' \subseteq reviewed)
         /\ outdated' \ outdated \subseteq {<<d, gen[d]>>}
         /\ claim[d].owner = by => intruded' = intruded
  BY DEF Changes, Outdates

\* A step of the block layer that only gives a disk a new generation.
LEMMA BumpAuth ==
  ASSUME AuthInv, NEW d \in Disks, Bump(d),
         UNCHANGED <<claim, mounted, roles, flying, reviewed, outdated, intruded, machine>>
  PROVE  AuthInv'
<1>1. AuthTypes' /\ EpochInv'
  BY BumpFresh DEF AuthInv
<1>2. ReviewInv'
  <2> SUFFICES ASSUME NEW e \in Disks, <<e, gen'[e]>> \in outdated
               PROVE  poisoned'[e] \/ claim[e].owner # None
    BY DEF AuthInv
  <2> QED BY BumpFresh DEF AuthInv
<1>3. AloneInv'
  BY BumpFresh DEF AuthInv, AloneInv, ClaimIsExclusive, Excluded
<1> QED BY <1>1, <1>2, <1>3 DEF AuthInv

\* One that outdates what was reviewed of the disk takes a new generation with it.
LEMMA OutdatedAuth ==
  ASSUME AuthInv, NEW d \in Disks, Bump(d), claim[d].owner = None, intruded' = intruded,
         outdated \subseteq outdated', outdated' \subseteq reviewed, outdated' \ outdated \subseteq {<<d, gen[d]>>},
         UNCHANGED <<claim, mounted, roles, flying, reviewed, machine>>
  PROVE  AuthInv'
<1>1. Bump(d) /\ claim[d].owner = None /\ UNCHANGED <<claim, mounted, roles, flying, reviewed, intruded, machine>>
  OBVIOUS
<1>2. AuthTypes' /\ EpochInv'
  BY <1>1, BumpFresh DEF AuthInv
<1>3. ReviewInv'
  <2>1. outdated' \subseteq reviewed /\ outdated' \ outdated \subseteq {<<d, gen[d]>>}
    OBVIOUS
  <2>2. ASSUME NEW e \in Disks, <<e, gen'[e]>> \in outdated'
        PROVE  poisoned'[e] \/ claim[e].owner # None
    <3>1. gen'[e] <= epoch
      BY <2>1, <2>2, <1>1, BumpFresh DEF AuthInv
    <3>2. CASE e = d
      BY <3>1, <3>2, <1>1, BumpFresh DEF AuthInv
    <3>3. CASE e # d
      BY <3>3, <2>1, <2>2, <1>1, BumpFresh DEF AuthInv
    <3> QED BY <3>2, <3>3
  <2> QED BY <1>1, <2>1, <2>2 DEF AuthInv
<1>4. AloneInv'
  <2>1. \A e \in Disks : gen[e] # 0 => gen'[e] # 0
    BY <1>1, BumpFresh DEF AuthInv
  <2>2. AloneInv
    BY DEF AuthInv
  <2> QED BY ONLY <1>1, <2>1, <2>2 DEF AloneInv, ClaimIsExclusive, Excluded, Claimed
<1> QED BY <1>2, <1>3, <1>4 DEF AuthInv

LEMMA WriteAuth ==
  ASSUME AuthInv, NEW d \in Disks, NEW failed \in BOOLEAN, BlkWrite(d, failed), UNCHANGED machine
  PROVE  AuthInv'
<1>1. Bump(d) /\ claim[d].owner = None /\ Changes(d, None)
      /\ UNCHANGED <<claim, mounted, roles, flying, reviewed, machine>>
  BY DEF BlkWrite, Leave, Enter
<1> QED BY <1>1, ChangesKeeps, OutdatedAuth DEF AuthInv

LEMMA ReadFailsAuth ==
  ASSUME AuthInv, NEW d \in Disks, BlkReadFails(d), UNCHANGED machine
  PROVE  AuthInv'
<1>1. Bump(d) /\ claim[d].owner = None /\ Outdates(d)
      /\ UNCHANGED <<claim, mounted, roles, flying, reviewed, intruded, machine>>
  BY DEF BlkReadFails, Leave, Enter
<1>2. /\ outdated \subseteq outdated' /\ outdated' \subseteq reviewed
      /\ outdated' \ outdated \subseteq {<<d, gen[d]>>}
  BY <1>1 DEF AuthInv, Outdates
<1> QED BY <1>1, <1>2, OutdatedAuth

LEMMA LandsAuth ==
  ASSUME AuthInv, NEW d \in Disks, AsyncLands(d), UNCHANGED machine
  PROVE  AuthInv'
<1>1. /\ d \in AsyncDisks /\ Changes(d, None) /\ flying' \subseteq flying
      /\ UNCHANGED <<gen, epoch, poisoned, claim, mounted, roles, reviewed, machine>>
  BY DEF AsyncLands, AuthInv
<1>2. outdated' = outdated
  BY <1>1 DEF AuthInv, Changes, Outdates
<1>3. claim[d].owner = None
  BY <1>1 DEF AuthInv, AloneInv
<1>4. AuthTypes' /\ EpochInv' /\ ReviewInv'
  BY <1>1, <1>2 DEF AuthInv
<1>5. AloneInv'
  BY <1>1, <1>3, ChangesKeeps DEF AuthInv, AloneInv, ClaimIsExclusive, Excluded
<1> QED BY <1>4, <1>5 DEF AuthInv

\* Steps that touch neither generations nor contents.
LEMMA QuietAuth ==
  ASSUME AuthInv, NEW d \in Disks, BlkWriteAsync(d) \/ MountVolume(d), UNCHANGED machine
  PROVE  AuthInv'
<1>1. /\ flying' \subseteq flying \cup AsyncDisks
      /\ mounted' \subseteq mounted \cup (Disks \ Claimed)
      /\ UNCHANGED <<gen, epoch, poisoned, claim, roles, reviewed, outdated, intruded, machine>>
  BY DEF BlkWriteAsync, MountVolume, Leave, Enter
<1>2. AuthTypes' /\ EpochInv' /\ ReviewInv'
  BY <1>1 DEF AuthInv
<1>3. AloneInv'
  BY <1>1 DEF AuthInv, AloneInv, ClaimIsExclusive, Excluded
<1> QED BY <1>2, <1>3 DEF AuthInv

LEMMA BlockLayerAuth ==
  ASSUME AuthInv, BlockLayer(machine.disks), UNCHANGED machine
  PROVE  AuthInv'
<1>1. PICK d \in machine.disks :
        \/ Register(d)
        \/ \E failed \in BOOLEAN : BlkWrite(d, failed)
        \/ BlkReadFails(d) \/ BlkWriteAsync(d) \/ AsyncLands(d) \/ MountVolume(d)
  BY DEF BlockLayer
<1>2. d \in Disks
  BY SetupAssumption DEF AuthInv
<1>3. CASE Register(d)
  BY <1>2, <1>3, BumpAuth DEF Register
<1> QED BY <1>1, <1>2, <1>3, WriteAuth, ReadFailsAuth, LandsAuth, QuietAuth

LEMMA BootAuth ==
  ASSUME AuthInv, Boot
  PROVE  AuthInv'
<1>1. /\ Claimed = {}
      /\ UNCHANGED <<gen, epoch, poisoned, claim, mounted, flying, reviewed, outdated, intruded, machine>>
  BY DEF Boot, BindRoles, service
<1> QED BY <1>1 DEF AuthInv, AloneInv, ClaimIsExclusive

-----------------------------------------------------------------------------
(* The installer's calls. *)

LEMMA ReviewAuth ==
  ASSUME AuthInv, NEW d \in Disks, NEW pins, ReviewTarget(d, pins), UNCHANGED machine
  PROVE  AuthInv'
<1>1. /\ Enter(d) /\ d \notin AsyncDisks
      /\ reviewed' = reviewed \cup {<<d, gen[d]>>}
      /\ UNCHANGED <<gen, epoch, poisoned, claim, mounted, roles, flying, outdated, intruded>>
  BY DEF ReviewTarget, Eligible
<1>2. AuthTypes' /\ EpochInv' /\ ReviewInv'
  BY <1>1 DEF AuthInv
<1>3. AloneInv'
  BY <1>1 DEF AuthInv, AloneInv, ClaimIsExclusive, Excluded
<1> QED BY <1>2, <1>3 DEF AuthInv

\* blk_authority_claim_target on a current identity, which no change has outdated.
LEMMA ClaimAuth ==
  ASSUME AuthInv, NEW o \in Owners, NEW d \in Disks, NEW g, NEW pins,
         ClaimTarget(o, d, g, pins), UNCHANGED machine
  PROVE  /\ AuthInv' /\ <<d, g>> \notin outdated
         /\ claim'[d].owner = o /\ \A e \in Disks \ {d} : claim'[e] = claim[e]
<1>1. /\ Enter(d) /\ d \notin AsyncDisks /\ d \notin mounted /\ ~Excluded(d) /\ gen[d] = g
      /\ claim' = [claim EXCEPT ![d] = [owner |-> o, sources |-> pins]]
      /\ UNCHANGED <<gen, epoch, poisoned, mounted, roles, flying, reviewed, outdated, intruded>>
  BY DEF ClaimTarget, Eligible
<1>2. o # None
  BY AuthorityAssumption
<1>3. claim'[d].owner = o /\ \A e \in Disks \ {d} : claim'[e] = claim[e]
  BY <1>1 DEF AuthInv
<1>4. <<d, g>> \notin outdated
  BY <1>1 DEF AuthInv, Enter
<1>5. AuthTypes' /\ EpochInv' /\ ReviewInv'
  BY <1>1, <1>2, <1>3 DEF AuthInv
<1>6. Claimed' \subseteq Claimed \cup {d}
  BY <1>3
<1>7. \A e \in Claimed' : e \notin mounted /\ ~Excluded(e) /\ e \notin AsyncDisks /\ gen[e] # 0
  BY <1>1, <1>6 DEF AuthInv, AloneInv, ClaimIsExclusive, Enter
<1>8. \A e \in Disks : Excluded(e)' <=> Excluded(e)
  BY <1>1 DEF Excluded
<1>9. ClaimIsExclusive'
  BY <1>1, <1>7, <1>8 DEF AuthInv, AloneInv, ClaimIsExclusive
<1>10. AloneInv'
  BY <1>1, <1>7, <1>9 DEF AloneInv
<1> QED BY <1>3, <1>4, <1>5, <1>10 DEF AuthInv

LEMMA ClaimIoAuth ==
  ASSUME AuthInv, NEW o \in Owners, NEW d \in Disks, NEW g, NEW write \in BOOLEAN, NEW failed \in BOOLEAN,
         ClaimIo(o, d, g, write, failed), UNCHANGED machine
  PROVE  AuthInv'
<1>1. /\ claim[d].owner = o /\ o # None /\ poisoned' = [poisoned EXCEPT ![d] = failed]
      /\ Changes(d, o) \/ UNCHANGED <<outdated, intruded>>
      /\ UNCHANGED <<gen, epoch, claim, mounted, roles, flying, reviewed>>
  BY AuthorityAssumption DEF ClaimIo, Held
<1>2. AuthTypes' /\ EpochInv'
  BY <1>1 DEF AuthInv
<1>3. /\ outdated' \subseteq reviewed /\ outdated' \ outdated \subseteq {<<d, gen[d]>>}
      /\ intruded' = intruded
  BY <1>1, ChangesKeeps DEF AuthInv
<1>4. \A e \in Disks : <<e, gen[e]>> \in outdated' => poisoned'[e] \/ claim[e].owner # None
  <2> SUFFICES ASSUME NEW e \in Disks, <<e, gen[e]>> \in outdated', claim[e].owner = None
               PROVE  poisoned'[e]
    OBVIOUS
  <2>1. e # d
    BY <1>1
  <2>2. poisoned[e]
    BY <1>3, <2>1 DEF AuthInv
  <2> QED BY <1>1, <2>1, <2>2 DEF AuthInv
<1>5. ReviewInv'
  BY <1>1, <1>3, <1>4 DEF AuthInv
<1>6. AloneInv'
  BY <1>1, <1>3 DEF AuthInv, AloneInv, ClaimIsExclusive, Excluded
<1> QED BY <1>2, <1>5, <1>6 DEF AuthInv

\* blk_authority_release: the claim ends with a generation nobody has reviewed, or stays.
LEMMA ReleasedAuth ==
  ASSUME AuthInv, NEW o \in Owners, NEW d \in Disks, NEW g, Released(o, d, g),
         UNCHANGED <<mounted, roles, flying, reviewed, outdated, intruded, machine>>
  PROVE  /\ AuthInv'
         /\ \A e \in Disks : claim'[e].owner # None => claim'[e] = claim[e]
         /\ \A e \in Disks \ {d} : claim'[e] = claim[e]
<1>1. Bump(d) /\ claim[d].owner = o /\ ~poisoned[d]
      /\ claim' = IF epoch = MaxEpoch THEN claim ELSE [claim EXCEPT ![d] = NoClaim]
  BY DEF Released, MayRelease
<1>2. /\ claim' = [e \in Disks |-> claim'[e]]
      /\ \A e \in Disks \ {d} : claim'[e] = claim[e]
      /\ claim'[d] = claim[d] \/ (claim'[d].owner = None /\ epoch # MaxEpoch)
  BY <1>1 DEF AuthInv, NoClaim
<1>3. AuthTypes' /\ EpochInv'
  BY <1>1, <1>2, BumpFresh DEF AuthInv
<1>4. ReviewInv'
  <2> SUFFICES ASSUME NEW e \in Disks, <<e, gen'[e]>> \in outdated, claim'[e].owner = None
               PROVE  poisoned'[e]
    BY DEF AuthInv
  <2>1. CASE e = d
    BY <1>1, <2>1, BumpFresh DEF AuthInv
  <2>2. CASE e # d
    BY <1>1, <1>2, <2>2, BumpFresh DEF AuthInv
  <2> QED BY <2>1, <2>2
<1>5. Claimed' \subseteq Claimed
  BY <1>2
<1>6. AloneInv'
  BY <1>1, <1>5, BumpFresh DEF AuthInv, AloneInv, ClaimIsExclusive, Excluded
<1> QED BY <1>2, <1>3, <1>4, <1>6 DEF AuthInv

-----------------------------------------------------------------------------
(* The owner slots. *)

LEMMA SlotTypes ==
  /\ NoOwner \in SlotType
  /\ \A own \in SlotType : /\ Tidy(own) \in SlotType
                           /\ \A i \in Files : [own EXCEPT !.sources[i] = NoSource] \in SlotType
                           /\ [own EXCEPT !.claim = None, !.target = 0] \in SlotType
                           /\ Left(own) \in SlotType
<1>1. NoSource \in [cap : Snapshots \cup {None}, gen : Nat, admitted : BOOLEAN]
  BY DEF NoSource
<1>2. NoOwner \in SlotType
  BY <1>1 DEF NoOwner, SlotType
<1>3. ASSUME NEW own \in SlotType
      PROVE  /\ Tidy(own) \in SlotType
             /\ \A i \in Files : [own EXCEPT !.sources[i] = NoSource] \in SlotType
             /\ [own EXCEPT !.claim = None, !.target = 0] \in SlotType
             /\ Left(own) \in SlotType
  <2>1. \A x \in SlotType : Tidy(x) \in SlotType
    BY <1>2 DEF Tidy
  <2>2. \A i \in Files : [own EXCEPT !.sources[i] = NoSource] \in SlotType
    BY <1>1 DEF SlotType
  <2>3. [own EXCEPT !.claim = None, !.target = 0] \in SlotType
    BY DEF SlotType
  <2>4. [own EXCEPT !.sources = NoOwner.sources] \in SlotType
    BY <1>1 DEF SlotType, NoOwner
  <2>5. \A t \in SlotType : [t EXCEPT !.retired = TRUE, !.proc = None] \in SlotType
    BY DEF SlotType
  <2>6. Left(own) \in SlotType
    BY <2>1, <2>4, <2>5 DEF Left
  <2> QED BY <2>1, <2>2, <2>3, <2>6
<1> QED BY <1>2, <1>3

LEMMA SlotStep ==
  ASSUME AuthInv, SlotInv, [SetupNext]_setupVars
  PROVE  SlotInv'
<1>1. machine.disks \subseteq Disks /\ machine.procs \subseteq Procs
  BY SetupAssumption DEF AuthInv
<1>2. CASE UNCHANGED <<owners, opens>>
  BY <1>2 DEF SlotInv
<1>3. ASSUME NEW p \in machine.procs, NEW published \in BOOLEAN, OpenSource(p, published)
      PROVE  SlotInv'
  <2>1. PICK o \in SlotFor(p), i \in Files, a \in Snapshots :
          /\ opens' = opens + 1
          /\ \/ owners' = owners
             \/ owners' = [owners EXCEPT ![o].proc = p,
                                         ![o].sources[i] = [cap |-> a, gen |-> opens + 1, admitted |-> FALSE]]
    <3>1. CASE published
      BY ONLY OpenSource(p, published), <3>1 DEF OpenSource, Open
    <3>2. CASE ~published
      BY ONLY OpenSource(p, published), <3>2 DEF OpenSource, Open
    <3> QED BY <3>1, <3>2
  <2>2. o \in Owners /\ p \in Procs
    BY <1>1 DEF SlotFor, OwnedBy, Vacant
  <2>3. [cap |-> a, gen |-> opens + 1, admitted |-> FALSE] \in [cap : Snapshots \cup {None}, gen : Nat, admitted : BOOLEAN]
    BY DEF SlotInv
  <2>4. ASSUME NEW s \in [cap : Snapshots \cup {None}, gen : Nat, admitted : BOOLEAN]
        PROVE  [owners[o] EXCEPT !.proc = p, !.sources[i] = s] \in SlotType
    <3>1. owners[o] \in SlotType
      BY <2>2 DEF SlotInv
    <3>2. [owners[o].sources EXCEPT ![i] = s] \in [Files -> [cap : Snapshots \cup {None}, gen : Nat, admitted : BOOLEAN]]
      BY <3>1 DEF SlotType
    <3> QED BY <2>2, <3>1, <3>2 DEF SlotType
  <2>5. owners' \in [Owners -> SlotType]
    <3>1. CASE owners' = owners
      BY <3>1 DEF SlotInv
    <3>2. CASE owners' # owners
      <4>1. owners' = [owners EXCEPT ![o] = [owners[o] EXCEPT !.proc = p,
                         !.sources[i] = [cap |-> a, gen |-> opens + 1, admitted |-> FALSE]]]
        BY <2>1, <2>2, <3>2 DEF SlotInv, SlotType
      <4> QED BY <2>2, <2>3, <2>4, <4>1 DEF SlotInv
    <3> QED BY <3>1, <3>2
  <2> QED BY <2>1, <2>5 DEF SlotInv
<1>4. ASSUME NEW p \in machine.procs, Admit(p)
      PROVE  SlotInv'
  <2>1. PICK o \in Owners, i \in Files : owners' = [owners EXCEPT ![o].sources[i].admitted = TRUE] /\ opens' = opens
    BY <1>4 DEF Admit, OwnedBy, archive
  <2>2. owners[o] \in SlotType
    BY DEF SlotInv
  <2>3. [owners[o].sources EXCEPT ![i].admitted = TRUE] \in [Files -> [cap : Snapshots \cup {None}, gen : Nat, admitted : BOOLEAN]]
    BY <2>2 DEF SlotType
  <2>4. [owners[o] EXCEPT !.sources[i].admitted = TRUE] \in SlotType
    BY <2>2, <2>3 DEF SlotType
  <2> QED BY <2>1, <2>4 DEF SlotInv
<1>5. ASSUME NEW p \in machine.procs, Close(p)
      PROVE  SlotInv'
  <2>1. PICK o \in Owners, i \in Files :
          owners' = [owners EXCEPT ![o] = Tidy([owners[o] EXCEPT !.sources[i] = NoSource])] /\ opens' = opens
    BY <1>5 DEF Close, OwnedBy
  <2>2. owners[o] \in SlotType
    BY DEF SlotInv
  <2>3. Tidy([owners[o] EXCEPT !.sources[i] = NoSource]) \in SlotType
    BY <2>2, SlotTypes
  <2> QED BY <2>1, <2>3 DEF SlotInv
<1>6. ASSUME NEW p \in machine.procs, NEW d \in machine.disks, Claim(p, d)
      PROVE  SlotInv'
  <2>1. PICK o \in Owners, g \in Nat :
          owners' = [owners EXCEPT ![o].claim = d, ![o].target = g] /\ opens' = opens
    BY <1>6 DEF Claim, OwnedBy, ClaimTarget, AuthInv
  <2>2. owners[o] \in SlotType /\ d \in Disks \cup {None}
    BY <1>1 DEF SlotInv
  <2>3. \A own \in SlotType : [own EXCEPT !.claim = d, !.target = g] \in SlotType
    BY ONLY <2>2, g \in Nat DEF SlotType
  <2>4. owners' = [owners EXCEPT ![o] = [owners[o] EXCEPT !.claim = d, !.target = g]]
    BY <2>1 DEF SlotInv
  <2>5. owners \in [Owners -> SlotType] /\ opens \in Nat
    BY DEF SlotInv
  <2> QED BY ONLY <2>1, <2>2, <2>3, <2>4, <2>5 DEF SlotInv
<1>7. ASSUME NEW o \in Owners, ReleaseClaim(o)
      PROVE  SlotInv'
  BY <1>7, SlotTypes DEF ReleaseClaim, SlotInv
<1>8. ASSUME NEW p \in machine.procs, Exit(p)
      PROVE  SlotInv'
  <2>1. PICK o \in Owners :
          /\ opens' = opens
          /\ \/ owners' = [owners EXCEPT ![o] = Left(owners[o])]
             \/ owners' = [owners EXCEPT ![o] = Left([owners[o] EXCEPT !.claim = None, !.target = 0])]
    BY <1>8 DEF Exit, OwnedBy
  <2>2. owners[o] \in SlotType /\ [owners[o] EXCEPT !.claim = None, !.target = 0] \in SlotType
    BY SlotTypes DEF SlotInv
  <2>3. Left(owners[o]) \in SlotType /\ Left([owners[o] EXCEPT !.claim = None, !.target = 0]) \in SlotType
    BY <2>2, SlotTypes
  <2> QED BY <2>1, <2>3 DEF SlotInv
<1>9. CASE Boot \/ (BlockLayer(machine.disks) /\ UNCHANGED service)
  BY <1>2, <1>9 DEF Boot, BindRoles, BlockLayer, Register, BlkWrite, BlkReadFails, BlkWriteAsync,
                    AsyncLands, MountVolume, service, archive
<1>10. CASE Published \/ UNCHANGED setupVars
  BY <1>2, <1>10 DEF Published, setupVars, service, archive
<1>11. ASSUME NEW p \in machine.procs, NEW d \in machine.disks, Review(p, d)
       PROVE  SlotInv'
  BY <1>2, <1>11 DEF Review, ReviewTarget, service, archive
<1>12. ASSUME NEW p \in machine.procs, NEW write \in BOOLEAN, NEW failed \in BOOLEAN, TargetIo(p, write, failed)
       PROVE  SlotInv'
  BY <1>2, <1>12 DEF TargetIo, ClaimIo, service, archive
<1>13. ASSUME NEW p \in machine.procs, Release(p)
       PROVE  SlotInv'
  BY <1>7, <1>13 DEF Release, OwnedBy
<1>14. CASE PublishFails
  BY <1>7, <1>14 DEF PublishFails
<1> QED BY <1>3, <1>4, <1>5, <1>6, <1>8, <1>9, <1>10, <1>11, <1>12, <1>13, <1>14 DEF SetupNext

-----------------------------------------------------------------------------
(* What a step does to the claims. *)

KeepsClaims == claim' = claim /\ \A e \in Claimed : poisoned[e] => poisoned'[e] /\ gen'[e] = gen[e]
GrantsClaim == \E o \in Owners, d \in Disks, g \in Nat : ClaimTarget(o, d, g, Pins(o)) /\ owners'[o].target = g
EndsClaim == \E o \in Owners, d \in Disks, g \in Nat : Released(o, d, g)

LEMMA BlockLayerKeeps ==
  ASSUME AuthInv, BlockLayer(machine.disks)
  PROVE  KeepsClaims
<1>1. PICK d \in machine.disks :
        \/ Register(d)
        \/ \E failed \in BOOLEAN : BlkWrite(d, failed)
        \/ BlkReadFails(d) \/ BlkWriteAsync(d) \/ AsyncLands(d) \/ MountVolume(d)
  BY DEF BlockLayer
<1>2. d \in Disks
  BY SetupAssumption DEF AuthInv
<1>3. /\ claim' = claim
      /\ (Bump(d) /\ d \notin Claimed) \/ UNCHANGED <<gen, poisoned>>
  BY <1>1, <1>2 DEF Register, BlkWrite, BlkReadFails, BlkWriteAsync, AsyncLands, MountVolume, Enter, Leave, AuthInv, AloneInv
<1> QED BY <1>2, <1>3, BumpFresh DEF KeepsClaims, AuthInv

LEMMA ClaimsStep ==
  ASSUME AuthInv, SlotInv, [SetupNext]_setupVars
  PROVE  AuthInv' /\ (KeepsClaims \/ GrantsClaim \/ EndsClaim)
<1>1. machine.disks \subseteq Disks
  BY SetupAssumption DEF AuthInv
<1>2. CASE UNCHANGED <<diskWords, machine>>
  BY <1>2 DEF diskWords, AuthInv, AloneInv, ClaimIsExclusive, Excluded, KeepsClaims
<1>3. CASE Boot
  BY <1>3, BootAuth DEF Boot, BindRoles, KeepsClaims
<1>4. CASE BlockLayer(machine.disks) /\ UNCHANGED service
  BY <1>4, BlockLayerAuth, BlockLayerKeeps DEF service
<1>5. ASSUME NEW p \in machine.procs, NEW d \in machine.disks, Review(p, d)
      PROVE  AuthInv' /\ KeepsClaims
  <2>1. PICK o \in OwnedBy(p) : ReviewTarget(d, Pins(o)) /\ UNCHANGED machine
    BY <1>5 DEF Review, service
  <2>2. KeepsClaims
    BY <2>1 DEF ReviewTarget, KeepsClaims
  <2> QED BY <1>1, <2>1, <2>2, ReviewAuth
<1>6. ASSUME NEW p \in machine.procs, NEW d \in machine.disks, Claim(p, d)
      PROVE  AuthInv' /\ GrantsClaim
  <2>1. PICK o \in Owners, g \in Nat :
          /\ ClaimTarget(o, d, g, Pins(o)) /\ UNCHANGED machine
          /\ owners' = [owners EXCEPT ![o].claim = d, ![o].target = g]
    BY <1>6 DEF Claim, OwnedBy, AuthInv
  <2>2. owners'[o].target = g
    BY <2>1 DEF SlotInv, SlotType
  <2> QED BY <1>1, <2>1, <2>2, ClaimAuth DEF GrantsClaim
<1>7. ASSUME NEW p \in machine.procs, NEW write \in BOOLEAN, NEW failed \in BOOLEAN, TargetIo(p, write, failed)
      PROVE  AuthInv' /\ KeepsClaims
  <2>1. PICK o \in OwnedBy(p) : /\ owners[o].claim # None /\ UNCHANGED machine
                                /\ ClaimIo(o, owners[o].claim, owners[o].target, write, failed)
    BY <1>7 DEF TargetIo, service
  <2>2. o \in Owners /\ owners[o].claim \in Disks
    BY <2>1 DEF OwnedBy, SlotInv, SlotType
  <2>3. AuthInv'
    BY <2>1, <2>2, ClaimIoAuth
  <2>4. KeepsClaims
    BY <2>1, <2>2 DEF ClaimIo, Held, KeepsClaims, AuthInv
  <2> QED BY <2>3, <2>4
<1>8. ASSUME NEW o \in Owners, NEW d \in Disks, NEW g \in Nat, Released(o, d, g),
             UNCHANGED <<mounted, roles, flying, reviewed, outdated, intruded, machine>>
      PROVE  AuthInv' /\ EndsClaim
  BY <1>8, ReleasedAuth DEF EndsClaim
<1>9. ASSUME NEW o \in Owners, ReleaseClaim(o), UNCHANGED machine
      PROVE  AuthInv' /\ EndsClaim
  <2>1. owners[o].claim \in Disks /\ owners[o].target \in Nat
    BY <1>9 DEF ReleaseClaim, SlotInv, SlotType
  <2> QED BY <1>8, <1>9, <2>1 DEF ReleaseClaim
<1>10. ASSUME NEW p \in machine.procs, Release(p)
       PROVE  AuthInv' /\ EndsClaim
  BY <1>9, <1>10 DEF Release, OwnedBy
<1>11. CASE PublishFails
  BY <1>9, <1>11 DEF PublishFails
<1>12. ASSUME NEW p \in machine.procs, Exit(p)
       PROVE  AuthInv' /\ (KeepsClaims \/ EndsClaim)
  <2>1. PICK o \in OwnedBy(p) :
          IF owners[o].claim # None /\ MayRelease(o, owners[o].claim, owners[o].target)
            THEN Released(o, owners[o].claim, owners[o].target)
            ELSE UNCHANGED <<gen, epoch, poisoned, claim>>
    BY <1>12 DEF Exit
  <2>2. UNCHANGED <<mounted, roles, flying, reviewed, outdated, intruded, machine>>
    BY <1>12 DEF Exit
  <2>3. o \in Owners /\ owners[o].claim \in Disks \cup {None} /\ owners[o].target \in Nat
    BY DEF OwnedBy, SlotInv, SlotType
  <2>4. CASE Released(o, owners[o].claim, owners[o].target) /\ owners[o].claim # None
    BY <1>8, <2>2, <2>3, <2>4
  <2>5. CASE UNCHANGED <<gen, epoch, poisoned, claim>>
    BY <2>2, <2>5 DEF AuthInv, AloneInv, ClaimIsExclusive, Excluded, KeepsClaims
  <2> QED BY <2>1, <2>4, <2>5
<1>13. ASSUME NEW p \in machine.procs, (\E published \in BOOLEAN : OpenSource(p, published)) \/ Admit(p) \/ Close(p)
       PROVE  AuthInv' /\ KeepsClaims
  <2>1. UNCHANGED <<diskWords, machine>>
    BY <1>13 DEF OpenSource, Admit, Close
  <2> QED BY <2>1 DEF diskWords, AuthInv, AloneInv, ClaimIsExclusive, Excluded, KeepsClaims
<1>14. CASE Published \/ UNCHANGED setupVars
  BY <1>2, <1>14 DEF Published, setupVars, service
<1> QED BY <1>3, <1>4, <1>5, <1>6, <1>7, <1>10, <1>11, <1>12, <1>13, <1>14 DEF SetupNext

-----------------------------------------------------------------------------
LEMMA SetupInvariant == SetupSpec => [](AuthInv /\ SlotInv)
<1>1. SetupInit => AuthInv
  BY InitAuth
<1>2. SetupInit => SlotInv
  <2> SUFFICES ASSUME SetupInit
               PROVE  SlotInv
    OBVIOUS
  <2>1. opens \in Nat
    BY SetupAssumption, AuthorityAssumption DEF SetupInit, AuthorityInit
  <2> QED BY <2>1, SlotTypes DEF SetupInit, SlotInv
<1>3. (AuthInv /\ SlotInv) /\ [SetupNext]_setupVars => (AuthInv /\ SlotInv)'
  BY ClaimsStep, SlotStep
<1> QED BY <1>1, <1>2, <1>3, PTL DEF SetupSpec

\* A disk that is claimed is its owner's alone, whatever the block layer, the mounts
\* and the drivers with asynchronous writes do beside it.
THEOREM ClaimsAreExclusive == SetupSpec => []ClaimIsExclusive
<1>1. AuthInv => ClaimIsExclusive
  BY DEF AuthInv, AloneInv
<1> QED BY <1>1, SetupInvariant, PTL

\* A claim is granted only on a review that no change of the disk has outdated.
THEOREM ClaimsAreReviewed == SetupSpec => ClaimAsReviewed
<1> DEFINE Reviewed == \A d \in Disks : d \notin Claimed /\ claim'[d].owner # None
                         => <<d, owners'[claim'[d].owner].target>> \notin outdated
<1>1. ASSUME AuthInv, SlotInv, [SetupNext]_setupVars
      PROVE  Reviewed
  <2>1. CASE KeepsClaims
    BY <2>1 DEF KeepsClaims
  <2>2. CASE GrantsClaim
    <3>1. PICK o \in Owners, d \in Disks, g \in Nat : ClaimTarget(o, d, g, Pins(o)) /\ owners'[o].target = g
      BY <2>2 DEF GrantsClaim
    <3>2. <<d, g>> \notin outdated /\ claim' = [claim EXCEPT ![d] = [owner |-> o, sources |-> Pins(o)]]
      BY <1>1, <3>1 DEF ClaimTarget, Eligible, Enter, AuthInv
    <3> QED BY <1>1, <3>1, <3>2 DEF AuthInv
  <2>3. CASE EndsClaim
    BY <1>1, <2>3 DEF EndsClaim, Released, NoClaim, AuthInv
  <2> QED BY <1>1, <2>1, <2>2, <2>3, ClaimsStep
<1>2. AuthInv /\ SlotInv /\ [SetupNext]_setupVars => [Reviewed]_setupVars
  BY <1>1
<1> QED BY <1>2, SetupInvariant, PTL DEF SetupSpec, ClaimAsReviewed

\* A claim whose disk is in an unknown state lasts.
THEOREM PoisonLastsForClaims == SetupSpec => PoisonedIsKept
<1> DEFINE StillHeld == \A d \in Claimed : poisoned[d] => poisoned'[d] /\ claim'[d] = claim[d] /\ gen'[d] = gen[d]
<1>1. ASSUME AuthInv, SlotInv, [SetupNext]_setupVars
      PROVE  StillHeld
  <2>1. CASE KeepsClaims
    BY <2>1 DEF KeepsClaims
  <2>2. CASE GrantsClaim
    BY <1>1, <2>2 DEF GrantsClaim, ClaimTarget, Eligible, Enter, AuthInv
  <2>3. CASE EndsClaim
    <3>1. PICK o \in Owners, d \in Disks, g \in Nat : Released(o, d, g)
      BY <2>3 DEF EndsClaim
    <3>2. Bump(d) /\ ~poisoned[d] /\ \A e \in Disks \ {d} : claim'[e] = claim[e]
      BY <1>1, <3>1 DEF Released, MayRelease, AuthInv
    <3> QED BY <1>1, <3>2, BumpFresh DEF AuthInv
  <2> QED BY <1>1, <2>1, <2>2, <2>3, ClaimsStep
<1>2. AuthInv /\ SlotInv /\ [SetupNext]_setupVars => [StillHeld]_setupVars
  BY <1>1
<1> QED BY <1>2, SetupInvariant, PTL DEF SetupSpec, PoisonedIsKept
-----------------------------------------------------------------------------
(* Custody: the references of the snapshots, and who reaches a claim. *)

SnapType == [owner : Owners \cup {None}, refs : Nat, gen : Nat]
ClaimType == [owner : Owners \cup {None}, sources : SUBSET (Snapshots \X Nat)]

\* The references of the snapshots sn are exactly those the claims cl and the openers
\* hold, and every snapshot a claim names is there, with the generation it names.
Naming(cl, a) == {d \in Disks : cl[d].owner # None /\ \E pin \in cl[d].sources : pin[1] = a}
Accounted(sn, cl) ==
  /\ sn \in [Snapshots -> SnapType] /\ cl \in [Disks -> ClaimType]
  /\ \A d \in Disks : cl[d].owner # None =>
       \A pin \in cl[d].sources : sn[pin[1]].refs # 0 /\ sn[pin[1]].gen = pin[2]
  /\ \A a \in Snapshots : sn[a].refs = Cardinality(Naming(cl, a)) + (IF sn[a].owner = None THEN 0 ELSE 1)

LEMMA NamingFinite ==
  ASSUME NEW cl, NEW a
  PROVE  IsFiniteSet(Naming(cl, a)) /\ Cardinality(Naming(cl, a)) \in Nat
<1>1. Naming(cl, a) \subseteq Disks
  BY DEF Naming
<1>2. IsFiniteSet(Naming(cl, a))
  BY <1>1, FS_Subset, AuthorityAssumption
<1> QED BY <1>2, FS_CardinalityType

LEMMA UnrefFacts ==
  ASSUME NEW s \in SnapType, s.refs # 0
  PROVE  /\ Unref(s) \in SnapType /\ Unref(s).refs = s.refs - 1
         /\ s.refs = 1 => Unref(s).owner = None
         /\ s.refs # 1 => Unref(s).owner = s.owner /\ Unref(s).gen = s.gen
  BY AuthorityAssumption DEF SnapType, Unref, NoSnap

\* archive_source_close of any of the snapshots that have an opener.
LEMMA CloseAccounted ==
  ASSUME NEW sn, NEW cl, Accounted(sn, cl), NEW tn, tn = [a \in Snapshots |-> tn[a]],
         \A a \in Snapshots : \/ tn[a] = sn[a]
                              \/ sn[a].owner # None /\ tn[a] = Unref([sn[a] EXCEPT !.owner = None])
  PROVE  Accounted(tn, cl)
<1> USE DEF Accounted
<1>1. ASSUME NEW a \in Snapshots
      PROVE  /\ tn[a] \in SnapType
             /\ tn[a].refs = Cardinality(Naming(cl, a)) + (IF tn[a].owner = None THEN 0 ELSE 1)
             /\ Naming(cl, a) # {} => tn[a].refs # 0 /\ tn[a].gen = sn[a].gen
  <2> DEFINE s == [sn[a] EXCEPT !.owner = None]
             n == Cardinality(Naming(cl, a))
  <2>0. n \in Nat /\ (n = 0 <=> Naming(cl, a) = {})
    BY NamingFinite, FS_EmptySet
  <2>1. CASE tn[a] = sn[a]
    BY <2>0, <2>1 DEF SnapType
  <2>2. CASE sn[a].owner # None /\ tn[a] = Unref(s)
    <3>1. sn[a] \in SnapType /\ sn[a].refs = n + 1
      BY <2>2
    <3>2. s \in SnapType /\ s.refs = n + 1 /\ s.owner = None /\ s.gen = sn[a].gen
      BY <3>1 DEF SnapType
    <3>3. /\ tn[a] \in SnapType /\ tn[a].refs = n /\ tn[a].owner = None
          /\ n # 0 => tn[a].gen = sn[a].gen
      <4> HIDE DEF s, n
      <4> QED BY <2>0, <2>2, <3>2, UnrefFacts
    <3> QED BY <2>0, <3>3
  <2> QED BY <2>1, <2>2
<1>2. ASSUME NEW d \in Disks, cl[d].owner # None, NEW pin \in cl[d].sources
      PROVE  tn[pin[1]].refs # 0 /\ tn[pin[1]].gen = pin[2]
  <2>1. pin[1] \in Snapshots
    BY <1>2 DEF ClaimType
  <2>2. d \in Naming(cl, pin[1])
    BY <1>2 DEF Naming
  <2> QED BY <1>1, <1>2, <2>1, <2>2
<1> QED BY <1>1, <1>2

\* archive_source_open in a free slot.
LEMMA OpenAccounted ==
  ASSUME NEW sn, NEW cl, Accounted(sn, cl), NEW a \in Snapshots, sn[a].refs = 0, NEW o \in Owners, NEW g \in Nat
  PROVE  Accounted([sn EXCEPT ![a] = [owner |-> o, refs |-> 1, gen |-> g]], cl)
<1> DEFINE new == [owner |-> o, refs |-> 1, gen |-> g]
           tn == [sn EXCEPT ![a] = new]
<1> USE DEF Accounted
<1>1. new \in SnapType /\ o # None
  BY AuthorityAssumption DEF SnapType
<1>2. tn \in [Snapshots -> SnapType] /\ tn[a] = new /\ \A b \in Snapshots \ {a} : tn[b] = sn[b]
  BY <1>1
<1>3. Naming(cl, a) = {}
  BY DEF Naming
<1>4. Cardinality(Naming(cl, a)) = 0
  BY <1>3, FS_EmptySet
<1>5. ASSUME NEW d \in Disks, cl[d].owner # None, NEW pin \in cl[d].sources
      PROVE  tn[pin[1]].refs # 0 /\ tn[pin[1]].gen = pin[2]
  BY <1>2, <1>5 DEF ClaimType
<1> HIDE DEF tn
<1> QED BY <1>1, <1>2, <1>4, <1>5

\* blk_authority_claim_target retains the snapshots it names, which are all there.
LEMMA ClaimAccounted ==
  ASSUME NEW sn, NEW cl, Accounted(sn, cl), NEW d \in Disks, cl[d].owner = None, NEW o \in Owners,
         NEW pins \in SUBSET (Snapshots \X Nat),
         \A pin \in pins : sn[pin[1]].refs # 0 /\ sn[pin[1]].gen = pin[2],
         NEW tn, tn = [a \in Snapshots |-> IF \E pin \in pins : pin[1] = a THEN [sn[a] EXCEPT !.refs = @ + 1] ELSE sn[a]]
  PROVE  Accounted(tn, [cl EXCEPT ![d] = [owner |-> o, sources |-> pins]])
<1> DEFINE dl == [cl EXCEPT ![d] = [owner |-> o, sources |-> pins]]
<1> USE DEF Accounted
<1>1. dl \in [Disks -> ClaimType] /\ dl[d].owner = o /\ dl[d].sources = pins /\ o # None
      /\ \A e \in Disks \ {d} : dl[e] = cl[e]
  BY AuthorityAssumption DEF ClaimType
<1> HIDE DEF dl
<1>2. ASSUME NEW a \in Snapshots
      PROVE  /\ tn[a] \in SnapType /\ tn[a].owner = sn[a].owner /\ tn[a].gen = sn[a].gen
             /\ tn[a].refs = sn[a].refs + (IF \E pin \in pins : pin[1] = a THEN 1 ELSE 0)
  BY DEF SnapType
<1>3. ASSUME NEW a \in Snapshots
      PROVE  Cardinality(Naming(dl, a)) = Cardinality(Naming(cl, a)) + (IF \E pin \in pins : pin[1] = a THEN 1 ELSE 0)
  <2>1. d \notin Naming(cl, a)
    BY DEF Naming
  <2>2. CASE \E pin \in pins : pin[1] = a
    <3>1. Naming(dl, a) = Naming(cl, a) \cup {d}
      BY <1>1, <2>2 DEF Naming
    <3>2. IsFiniteSet(Naming(cl, a))
      BY NamingFinite
    <3>3. Cardinality(Naming(cl, a) \cup {d}) = Cardinality(Naming(cl, a)) + 1
      BY <2>1, <3>2, FS_AddElement
    <3> QED BY <2>2, <3>1, <3>3
  <2>3. CASE ~ \E pin \in pins : pin[1] = a
    <3>1. Naming(dl, a) = Naming(cl, a)
      BY <1>1, <2>3 DEF Naming
    <3> QED BY <2>3, <3>1, NamingFinite
  <2> QED BY <2>2, <2>3
<1>4. \A a \in Snapshots : tn[a].refs = Cardinality(Naming(dl, a)) + (IF tn[a].owner = None THEN 0 ELSE 1)
  BY <1>2, <1>3, NamingFinite
<1>5. ASSUME NEW e \in Disks, dl[e].owner # None, NEW pin \in dl[e].sources
      PROVE  tn[pin[1]].refs # 0 /\ tn[pin[1]].gen = pin[2]
  <2>1. pin[1] \in Snapshots
    BY <1>1 DEF ClaimType
  <2>2. sn[pin[1]].refs # 0 /\ sn[pin[1]].gen = pin[2]
    BY <1>1, <1>5
  <2>3. sn[pin[1]].refs \in Nat
    BY <2>1 DEF SnapType
  <2> QED BY <1>2, <2>1, <2>2, <2>3
<1> QED BY <1>1, <1>2, <1>4, <1>5 DEF dl

\* blk_authority_release drops the claim's references, and leaves the openers theirs.
Dropping(sn, cl, d) ==
  [a \in Snapshots |-> IF \E pin \in cl[d].sources : pin[1] = a
                         THEN Dropped(sn[a], (CHOOSE pin \in cl[d].sources : pin[1] = a)[2])
                         ELSE sn[a]]

\* The claims dl are cl without the one on d.
Ended(cl, dl, d) == dl = [cl EXCEPT ![d] = NoClaim]

LEMMA DropAccounted ==
  ASSUME NEW sn, NEW cl, NEW dl, Accounted(sn, cl), NEW d \in Disks, cl[d].owner # None, Ended(cl, dl, d)
  PROVE  /\ Accounted(Dropping(sn, cl, d), dl)
         /\ \A a \in Snapshots : sn[a].owner # None =>
              /\ Dropping(sn, cl, d)[a].owner = sn[a].owner /\ Dropping(sn, cl, d)[a].gen = sn[a].gen
              /\ Dropping(sn, cl, d)[a].refs # 0
<1> DEFINE tn == Dropping(sn, cl, d)
<1>0. tn = [a \in Snapshots |-> tn[a]]
      /\ \A a \in Snapshots : tn[a] = IF \E pin \in cl[d].sources : pin[1] = a
           THEN Dropped(sn[a], (CHOOSE pin \in cl[d].sources : pin[1] = a)[2])
           ELSE sn[a]
  BY DEF Dropping
<1> HIDE DEF tn
<1> USE DEF Accounted
<1>1. dl \in [Disks -> ClaimType] /\ dl[d].owner = None /\ \A e \in Disks \ {d} : dl[e] = cl[e]
  BY DEF ClaimType, NoClaim, Ended
<1>2. ASSUME NEW a \in Snapshots
      PROVE  /\ tn[a] \in SnapType
             /\ tn[a].refs = Cardinality(Naming(dl, a)) + (IF tn[a].owner = None THEN 0 ELSE 1)
             /\ Naming(dl, a) # {} \/ sn[a].owner # None =>
                  tn[a].refs # 0 /\ tn[a].gen = sn[a].gen /\ tn[a].owner = sn[a].owner
  <2> DEFINE m == Cardinality(Naming(dl, a))
  <2>0. m \in Nat /\ (m = 0 <=> Naming(dl, a) = {})
    BY NamingFinite, FS_EmptySet
  <2>1. CASE ~ \E pin \in cl[d].sources : pin[1] = a
    <3>1. Naming(dl, a) = Naming(cl, a)
      BY <1>1, <2>1 DEF Naming
    <3>2. tn[a] = sn[a]
      BY <1>0, <2>1
    <3> QED BY <2>0, <3>1, <3>2 DEF SnapType
  <2>2. CASE \E pin \in cl[d].sources : pin[1] = a
    <3>1. PICK pin \in cl[d].sources : pin = (CHOOSE q \in cl[d].sources : q[1] = a) /\ pin[1] = a
      BY <2>2
    <3>2. sn[a].gen = pin[2]
      BY <3>1
    <3>3. d \in Naming(cl, a) /\ Naming(dl, a) = Naming(cl, a) \ {d}
      BY <1>1, <2>2 DEF Naming
    <3>4. Cardinality(Naming(cl, a)) = m + 1
      <4>1. IsFiniteSet(Naming(cl, a)) /\ Cardinality(Naming(cl, a)) \in Nat
        BY NamingFinite
      <4>2. Cardinality(Naming(cl, a) \ {d}) = Cardinality(Naming(cl, a)) - 1
        BY <3>3, <4>1, FS_RemoveElement
      <4> QED BY <3>3, <4>1, <4>2
    <3>5. sn[a] \in SnapType /\ sn[a].refs = m + 1 + (IF sn[a].owner = None THEN 0 ELSE 1)
      BY <3>4
    <3>6. tn[a] = Unref(sn[a])
      BY <1>0, <2>0, <2>2, <3>1, <3>2, <3>5 DEF Dropped, SnapType
    <3> HIDE DEF m
    <3>7. tn[a] \in SnapType /\ tn[a].refs = sn[a].refs - 1
          /\ (sn[a].refs = 1 => tn[a].owner = None)
          /\ (sn[a].refs # 1 => tn[a].owner = sn[a].owner /\ tn[a].gen = sn[a].gen)
      BY <2>0, <3>5, <3>6, UnrefFacts
    <3>8. CASE sn[a].owner = None
      BY <2>0, <3>5, <3>7, <3>8 DEF m
    <3>9. CASE sn[a].owner # None
      BY <2>0, <3>5, <3>7, <3>9 DEF m
    <3> QED BY <3>8, <3>9
  <2> QED BY <2>1, <2>2
<1>3. ASSUME NEW e \in Disks, dl[e].owner # None, NEW pin \in dl[e].sources
      PROVE  tn[pin[1]].refs # 0 /\ tn[pin[1]].gen = pin[2]
  <2>1. pin[1] \in Snapshots /\ e \in Naming(dl, pin[1])
    BY <1>1, <1>3 DEF ClaimType, Naming
  <2>2. sn[pin[1]].gen = pin[2]
    BY <1>1, <1>3
  <2> QED BY <1>2, <2>1, <2>2
<1> QED BY <1>0, <1>1, <1>2, <1>3 DEF tn
\* An owner's sources are open in its name.
SlotOpened(own, o, sn) ==
  \A i \in Files : own.sources[i].cap # None =>
    LET a == own.sources[i].cap IN sn[a].refs # 0 /\ sn[a].gen = own.sources[i].gen /\ sn[a].owner = o

\* A process has one slot, a retired slot has no process, and a slot's sources are
\* different snapshots.
SlotsApart ==
  /\ \A o, q \in Owners : owners[o].proc # None /\ owners[o].proc = owners[q].proc => o = q
  /\ \A o \in Owners : owners[o].retired => owners[o].proc = None
  /\ \A o \in Owners, i, j \in Files :
       owners[o].sources[i].cap # None /\ owners[o].sources[i].cap = owners[o].sources[j].cap => i = j

CustodyInv ==
  /\ Accounted(snap, claim) /\ CustodyIsPersonal /\ SlotsApart
  /\ mine = [p \in Procs |-> mine[p]] /\ call \in Procs \cup {None}

LEMMA CustodyMeansKept == CustodyInv => CustodyKept
<1> SUFFICES ASSUME CustodyInv
             PROVE  SnapshotsKept
  BY DEF CustodyInv, CustodyKept
<1> USE DEF CustodyInv, Accounted
<1>1. \A d \in Claimed : SourcesOk(claim[d].sources)
  BY DEF SourcesOk, Matches, Free
<1>2. ASSUME NEW a \in Snapshots
      PROVE  {d \in Claimed : <<a, snap[a].gen>> \in claim[d].sources} = Naming(claim, a)
  <2>1. \A d \in Claimed : \A pin \in claim[d].sources : pin = <<pin[1], pin[2]>> /\ snap[pin[1]].gen = pin[2]
    BY DEF ClaimType
  <2> QED BY <2>1 DEF Naming
<1> QED BY <1>1, <1>2 DEF SnapshotsKept

LEMMA SourcesOpened == CustodyIsPersonal <=>
  /\ \A o \in Owners, d \in Disks : claim[d].owner = o <=> owners[o].claim = d
  /\ \A o \in Owners : \A p \in Procs :
       o \in OwnedBy(p) /\ owners[o].claim # None => mine[p] = <<owners[o].claim, owners[o].target>>
  /\ \A o \in Owners : SlotOpened(owners[o], o, snap)
  BY DEF CustodyIsPersonal, SlotOpened, Matches, Free

\* A slot that only lost sources is still opened when the owner's snapshots were kept.
LEMMA OpenedStays ==
  ASSUME NEW own, NEW new, NEW o, NEW sn, NEW tn, SlotOpened(own, o, sn),
         \A i \in Files : new.sources[i].cap # None => new.sources[i] = own.sources[i],
         \A i \in Files : new.sources[i].cap # None => new.sources[i].cap \in Snapshots,
         \A b \in Snapshots : sn[b].owner = o /\ (\E i \in Files : new.sources[i].cap = b) =>
           tn[b].owner = o /\ tn[b].gen = sn[b].gen /\ tn[b].refs # 0
  PROVE  SlotOpened(new, o, tn)
<1> SUFFICES ASSUME NEW i \in Files, new.sources[i].cap # None
             PROVE  LET a == new.sources[i].cap
                    IN  tn[a].refs # 0 /\ tn[a].gen = new.sources[i].gen /\ tn[a].owner = o
  BY DEF SlotOpened
<1> DEFINE a == new.sources[i].cap
<1>1. new.sources[i] = own.sources[i] /\ a \in Snapshots
  OBVIOUS
<1>2. sn[a].gen = new.sources[i].gen /\ sn[a].owner = o
  BY <1>1 DEF SlotOpened
<1> HIDE DEF a
<1>3. tn[a].owner = o /\ tn[a].gen = sn[a].gen /\ tn[a].refs # 0
  BY <1>1, <1>2 DEF a
<1> QED BY ONLY <1>2, <1>3 DEF a

LEMMA OpenedSame ==
  ASSUME NEW own, NEW new, NEW o, NEW sn, SlotOpened(own, o, sn),
         \A i \in Files : new.sources[i].cap # None => new.sources[i] = own.sources[i]
  PROVE  SlotOpened(new, o, sn)
<1> SUFFICES ASSUME NEW i \in Files, new.sources[i].cap # None
             PROVE  LET a == new.sources[i].cap
                    IN  sn[a].refs # 0 /\ sn[a].gen = new.sources[i].gen /\ sn[a].owner = o
  BY DEF SlotOpened
<1>1. new.sources[i] = own.sources[i]
  OBVIOUS
<1> QED BY <1>1 DEF SlotOpened

\* A step that leaves disks' claims, snapshots, slots and grants alone.
LEMMA CustodySame ==
  ASSUME CustodyInv, UNCHANGED <<claim, snap, owners, mine>>, call' \in Procs \cup {None}
  PROVE  CustodyInv'
<1>1. SlotsApart'
  BY ONLY CustodyInv, UNCHANGED <<claim, snap, owners, mine>> DEF CustodyInv, SlotsApart
<1>2. CustodyIsPersonal'
  <2>1. CustodyIsPersonal /\ claim' = claim /\ snap' = snap /\ owners' = owners /\ mine' = mine
    BY DEF CustodyInv
  <2>2. \A p : OwnedBy(p)' = OwnedBy(p)
    BY ONLY <2>1 DEF OwnedBy
  <2>3. \A c, g : Matches(c, g)' <=> Matches(c, g)
    BY ONLY <2>1 DEF Matches, Free
  <2> QED BY ONLY <2>1, <2>2, <2>3 DEF CustodyIsPersonal
<1>3. Accounted(snap', claim') /\ mine' = [p \in Procs |-> mine'[p]]
  BY ONLY CustodyInv, UNCHANGED <<claim, snap, owners, mine>> DEF CustodyInv
<1> QED BY ONLY <1>1, <1>2, <1>3, call' \in Procs \cup {None} DEF CustodyInv

\* What must be shown of a step that only touches owner slot o.
LEMMA OneSlotStep ==
  ASSUME CustodyInv, SlotInv, SlotInv', NEW o \in Owners, NEW p \in Procs,
         Accounted(snap', claim'), call' \in Procs \cup {None},
         \A q \in Owners \ {o} : owners'[q] = owners[q] /\ owners[q].proc # p,
         \A q \in Owners \ {o}, a \in Snapshots : snap[a].owner = q =>
           snap'[a].owner = q /\ snap'[a].gen = snap[a].gen /\ snap'[a].refs # 0,
         mine' = [r \in Procs |-> mine'[r]], \A r \in Procs \ {p} : mine'[r] = mine[r],
         owners'[o].proc \in {p, None}, owners'[o].retired => owners'[o].proc = None,
         owners'[o].proc = p /\ owners'[o].claim # None => mine'[p] = <<owners'[o].claim, owners'[o].target>>,
         SlotOpened(owners'[o], o, snap'),
         \A i, j \in Files : owners'[o].sources[i].cap # None
                             /\ owners'[o].sources[i].cap = owners'[o].sources[j].cap => i = j,
         \A d \in Disks : /\ claim'[d].owner = o <=> owners'[o].claim = d
                          /\ \A q \in Owners \ {o} : claim'[d].owner = q <=> claim[d].owner = q
  PROVE  CustodyInv'
<1> USE DEF CustodyInv
<1>0. p # None
  BY SetupAssumption
<1>1. SlotsApart'
  BY <1>0 DEF SlotsApart
<1>2. \A q \in Owners : SlotOpened(owners[q], q, snap)
  BY SourcesOpened
<1>3. ASSUME NEW q \in Owners \ {o}
      PROVE  SlotOpened(owners'[q], q, snap')
  <2>1. \A i \in Files : owners[q].sources[i].cap # None => owners[q].sources[i].cap \in Snapshots
    BY DEF SlotInv, SlotType
  <2>2. /\ owners'[q] = owners[q] /\ SlotOpened(owners[q], q, snap)
        /\ \A b \in Snapshots : snap[b].owner = q =>
             snap'[b].owner = q /\ snap'[b].gen = snap[b].gen /\ snap'[b].refs # 0
    BY <1>2
  <2> QED BY ONLY <2>1, <2>2, OpenedStays
<1>4. \A q \in Owners, d \in Disks : claim'[d].owner = q <=> owners'[q].claim = d
  BY SourcesOpened
<1>5. ASSUME NEW q \in Owners, NEW r \in Procs, owners'[q].proc = r, ~owners'[q].retired, owners'[q].claim # None
      PROVE  mine'[r] = <<owners'[q].claim, owners'[q].target>>
  <2>1. CASE q = o
    BY <1>0, <1>5, <2>1, SetupAssumption
  <2>2. CASE q # o
    BY <1>5, <2>2, SourcesOpened DEF OwnedBy
  <2> QED BY <2>1, <2>2
<1>6. CustodyIsPersonal'
  <2>1. \A q \in Owners : SlotOpened(owners'[q], q, snap')
    BY <1>3
  <2>2. \A q \in Owners, r \in Procs : (q \in OwnedBy(r))' <=> owners'[q].proc = r /\ ~owners'[q].retired
    BY DEF OwnedBy
  <2>3. \A q \in Owners : \A r \in Procs :
          (q \in OwnedBy(r))' /\ owners'[q].claim # None => mine'[r] = <<owners'[q].claim, owners'[q].target>>
    BY <1>5, <2>2
  <2>4. (\A q \in Owners, i \in Files :
           LET s == owners[q].sources[i] IN s.cap # None => Matches(s.cap, s.gen) /\ snap[s.cap].owner = q)'
    BY ONLY <2>1 DEF SlotOpened, Matches, Free
  <2> QED BY ONLY <1>4, <2>3, <2>4 DEF CustodyIsPersonal
<1> QED BY <1>1, <1>6

\* A snapshot is opened for a slot, by the only process that has it.
LEMMA OpenCustody ==
  ASSUME CustodyInv, SlotInv, SlotInv', NEW p \in Procs, NEW published \in BOOLEAN, OpenSource(p, published)
  PROVE  CustodyInv'
<1> USE DEF CustodyInv
<1>1. PICK o \in SlotFor(p), i \in Files, a \in Snapshots :
        /\ call = None /\ owners[o].claim = None
        /\ owners[o].sources[i].cap = None /\ CanOpen(a)
        /\ \/ /\ snap' = [snap EXCEPT ![a] = [owner |-> o, refs |-> 1, gen |-> opens + 1]]
              /\ owners' = [owners EXCEPT ![o].proc = p,
                                          ![o].sources[i] = [cap |-> a, gen |-> opens + 1, admitted |-> FALSE]]
           \/ UNCHANGED <<snap, owners>>
        /\ UNCHANGED <<diskWords, call, mine, machine>>
  <2>1. CASE published
    BY ONLY OpenSource(p, published), <2>1 DEF OpenSource, Open
  <2>2. CASE ~published
    BY ONLY OpenSource(p, published), <2>2 DEF OpenSource, Open
  <2> QED BY <2>1, <2>2
<1>2. claim' = claim /\ p # None /\ opens \in Nat /\ snap[a].refs = 0
  BY <1>1, SetupAssumption DEF diskWords, SlotInv, CanOpen, Free
<1>3. CASE UNCHANGED <<snap, owners>>
  BY <1>1, <1>2, <1>3, CustodySame
<1>4. CASE /\ snap' = [snap EXCEPT ![a] = [owner |-> o, refs |-> 1, gen |-> opens + 1]]
           /\ owners' = [owners EXCEPT ![o].proc = p,
                                       ![o].sources[i] = [cap |-> a, gen |-> opens + 1, admitted |-> FALSE]]
  <2>1. o \in Owners /\ ~owners[o].retired /\ \A q \in Owners \ {o} : owners[q].proc # p
    BY <1>2 DEF SlotFor, OwnedBy, Vacant, SlotsApart
  <2>2. Accounted(snap', claim')
    <3>1. opens + 1 \in Nat
      BY <1>2
    <3>2. Accounted([snap EXCEPT ![a] = [owner |-> o, refs |-> 1, gen |-> opens + 1]], claim)
      BY <1>2, <2>1, <3>1, OpenAccounted
    <3> QED BY <1>2, <1>4, <3>2
  <2>3. snap[a].owner = None
    BY <1>2, NamingFinite DEF Accounted
  <2>4. snap'[a] = [owner |-> o, refs |-> 1, gen |-> opens + 1] /\ \A b \in Snapshots \ {a} : snap'[b] = snap[b]
    BY <1>4 DEF Accounted
  <2>5. \A q \in Owners, b \in Snapshots : snap[b].owner = q => snap'[b] = snap[b] /\ snap[b].refs # 0
    <3>1. \A b \in Snapshots : snap[b].owner # None => snap[b].refs # 0
      BY NamingFinite DEF Accounted
    <3> QED BY <2>3, <2>4, <3>1, AuthorityAssumption
  <2>6. /\ owners'[o].proc = p /\ owners'[o].claim = None /\ ~owners'[o].retired
        /\ owners'[o].sources[i] = [cap |-> a, gen |-> opens + 1, admitted |-> FALSE]
        /\ \A j \in Files \ {i} : owners'[o].sources[j] = owners[o].sources[j]
        /\ \A q \in Owners \ {o} : owners'[q] = owners[q]
    BY <1>1, <1>4, <2>1 DEF SlotInv, SlotType
  <2>7. \A j \in Files : owners[o].sources[j].cap # None =>
          LET c == owners[o].sources[j].cap
          IN  c \in Snapshots /\ snap[c].refs # 0 /\ snap[c].gen = owners[o].sources[j].gen /\ snap[c].owner = o
    <3>1. SlotOpened(owners[o], o, snap)
      BY <2>1, SourcesOpened
    <3>2. \A j \in Files : owners[o].sources[j].cap # None => owners[o].sources[j].cap \in Snapshots
      BY <2>1 DEF SlotInv, SlotType
    <3> QED BY ONLY <3>1, <3>2 DEF SlotOpened
  <2>8. SlotOpened(owners'[o], o, snap')
    <3> SUFFICES ASSUME NEW j \in Files, owners'[o].sources[j].cap # None
                 PROVE  LET c == owners'[o].sources[j].cap
                        IN  snap'[c].refs # 0 /\ snap'[c].gen = owners'[o].sources[j].gen /\ snap'[c].owner = o
      BY DEF SlotOpened
    <3>1. CASE j = i
      BY ONLY <2>4, <2>6, <3>1
    <3>2. CASE j # i
      <4>1. owners'[o].sources[j] = owners[o].sources[j]
        BY ONLY <2>6, <3>2, j \in Files
      <4> DEFINE c == owners[o].sources[j].cap
      <4>2. c \in Snapshots /\ snap[c].refs # 0 /\ snap[c].gen = owners[o].sources[j].gen /\ snap[c].owner = o
        BY ONLY <2>7, <4>1, j \in Files, owners'[o].sources[j].cap # None
      <4> HIDE DEF c
      <4>3. c # a
        BY <2>1, <2>3, <4>2, AuthorityAssumption
      <4> QED BY ONLY <2>4, <4>1, <4>2, <4>3 DEF c
    <3> QED BY ONLY <3>1, <3>2
  <2>9. \A j, k \in Files : owners'[o].sources[j].cap # None
                             /\ owners'[o].sources[j].cap = owners'[o].sources[k].cap => j = k
    <3>1. \A j \in Files : owners[o].sources[j].cap # a
      <4>1. a # None
        BY ONLY a \in Snapshots, AuthorityAssumption DEF Snapshots
      <4> QED BY ONLY <1>2, <2>7, <4>1
    <3>2. \A j, k \in Files : owners[o].sources[j].cap # None
                               /\ owners[o].sources[j].cap = owners[o].sources[k].cap => j = k
      BY <2>1 DEF SlotsApart
    <3>3. owners'[o].sources[i].cap = a /\ \A j \in Files \ {i} : owners'[o].sources[j] = owners[o].sources[j]
      BY <2>6
    <3> QED BY ONLY <3>1, <3>2, <3>3
  <2>10. \A d \in Disks : claim'[d].owner = o <=> owners'[o].claim = d
    BY <1>1, <1>2, <2>1, <2>6, SourcesOpened
  <2> HIDE DEF CustodyInv
  <2> QED BY <1>1, <1>2, <2>1, <2>2, <2>5, <2>6, <2>8, <2>9, <2>10, OneSlotStep DEF CustodyInv
<1> QED BY <1>1, <1>3, <1>4

LEMMA AdmitCustody ==
  ASSUME CustodyInv, SlotInv, SlotInv', NEW p \in Procs, Admit(p)
  PROVE  CustodyInv'
<1> USE DEF CustodyInv
<1>1. PICK o \in Owners, i \in Files :
        /\ owners' = [owners EXCEPT ![o].sources[i].admitted = TRUE]
        /\ UNCHANGED <<claim, snap, call, mine>>
  BY DEF Admit, OwnedBy, diskWords, archive
<1>2. \A q \in Owners : /\ owners'[q].proc = owners[q].proc /\ owners'[q].retired = owners[q].retired
                        /\ owners'[q].claim = owners[q].claim /\ owners'[q].target = owners[q].target
                        /\ \A j \in Files : /\ owners'[q].sources[j].cap = owners[q].sources[j].cap
                                            /\ owners'[q].sources[j].gen = owners[q].sources[j].gen
  BY <1>1 DEF SlotInv, SlotType
<1>3. SlotsApart'
  BY <1>2 DEF SlotsApart
<1>4. CustodyIsPersonal'
  <2>1. \A q \in Owners, r \in Procs : (q \in OwnedBy(r))' <=> q \in OwnedBy(r)
    BY <1>2 DEF OwnedBy
  <2>2. \A q \in Owners, d \in Disks : claim'[d].owner = q <=> owners'[q].claim = d
    BY <1>1, <1>2, SourcesOpened
  <2>3. \A q \in Owners : \A r \in Procs :
          (q \in OwnedBy(r))' /\ owners'[q].claim # None => mine'[r] = <<owners'[q].claim, owners'[q].target>>
    BY <1>1, <1>2, <2>1, SourcesOpened
  <2>4. \A q \in Owners : SlotOpened(owners'[q], q, snap')
    <3>1. snap' = snap /\ \A q \in Owners : SlotOpened(owners[q], q, snap)
      BY <1>1, SourcesOpened
    <3> QED BY ONLY <1>2, <3>1 DEF SlotOpened
  <2>5. (\A q \in Owners, j \in Files :
           LET s == owners[q].sources[j] IN s.cap # None => Matches(s.cap, s.gen) /\ snap[s.cap].owner = q)'
    BY ONLY <2>4 DEF SlotOpened, Matches, Free
  <2> QED BY ONLY <2>2, <2>3, <2>5 DEF CustodyIsPersonal
<1> QED BY <1>1, <1>3, <1>4

\* The slot's process, its only one, closes a snapshot that one of its sources names.
LEMMA CloseCustody ==
  ASSUME CustodyInv, SlotInv, SlotInv', NEW p \in Procs, Close(p)
  PROVE  CustodyInv'
<1>1. PICK o \in OwnedBy(p), i \in Files :
        /\ owners[o].sources[i].cap # None
        /\ snap' = [snap EXCEPT ![owners[o].sources[i].cap] = Closed(@, o, owners[o].sources[i].gen)]
        /\ owners' = [owners EXCEPT ![o] = Tidy([owners[o] EXCEPT !.sources[i] = NoSource])]
        /\ UNCHANGED <<claim, call, mine>>
  BY DEF Close, diskWords
<1> DEFINE a == owners[o].sources[i].cap
           x == [owners[o] EXCEPT !.sources[i] = NoSource]
<1>2. /\ o \in Owners /\ p # None /\ owners[o].proc = p /\ ~owners[o].retired
      /\ \A q \in Owners \ {o} : owners[q].proc # p
  BY SetupAssumption DEF OwnedBy, CustodyInv, SlotsApart
<1>3. Accounted(snap, claim) /\ \A q \in Owners : SlotOpened(owners[q], q, snap)
  BY SourcesOpened DEF CustodyInv
<1>4. a \in Snapshots /\ snap[a].owner = o /\ Closed(snap[a], o, owners[o].sources[i].gen) = Unref([snap[a] EXCEPT !.owner = None])
  <2> DEFINE g == owners[o].sources[i].gen
  <2>1. SlotOpened(owners[o], o, snap) /\ a # None /\ i \in Files
    BY ONLY <1>1, <1>2, <1>3, i \in Files
  <2>2. a \in Snapshots
    BY <1>2, <2>1 DEF SlotInv, SlotType
  <2>3. snap[a] \in SnapType /\ snap[a].refs # 0 /\ snap[a].gen = g /\ snap[a].owner = o
    BY ONLY <1>3, <2>1, <2>2 DEF SlotOpened, Accounted
  <2> HIDE DEF a, g
  <2>4. snap[a].refs > 0
    BY ONLY <2>3 DEF SnapType
  <2>5. Closed(snap[a], o, g) = Unref([snap[a] EXCEPT !.owner = None])
    BY ONLY <2>3, <2>4 DEF Closed
  <2> QED BY ONLY <2>2, <2>3, <2>5 DEF g
<1>5. /\ snap' = [b \in Snapshots |-> snap'[b]] /\ snap'[a] = Unref([snap[a] EXCEPT !.owner = None])
      /\ \A b \in Snapshots \ {a} : snap'[b] = snap[b]
  BY <1>1, <1>3, <1>4 DEF Accounted
<1>6. Accounted(snap', claim')
  <2>1. claim' = claim /\ o # None /\ snap[a].owner # None
    BY <1>1, <1>2, <1>4, AuthorityAssumption
  <2> HIDE DEF a
  <2> QED BY ONLY <1>3, <1>4, <1>5, <2>1, CloseAccounted
<1>7. \A q \in Owners \ {o}, b \in Snapshots : snap[b].owner = q => snap'[b] = snap[b] /\ snap[b].refs # 0
  <2>1. \A b \in Snapshots : snap[b].owner # None => snap[b].refs # 0
    BY <1>3, NamingFinite DEF Accounted
  <2> QED BY <1>4, <1>5, <2>1, AuthorityAssumption
<1>8. /\ owners'[o] = Tidy(x) /\ \A q \in Owners \ {o} : owners'[q] = owners[q]
      /\ x.proc = p /\ ~x.retired /\ x.claim = owners[o].claim /\ x.target = owners[o].target
      /\ x.sources[i] = NoSource /\ \A j \in Files \ {i} : x.sources[j] = owners[o].sources[j]
  BY <1>1, <1>2 DEF SlotInv, SlotType
<1> HIDE DEF x
<1>9. /\ owners'[o].proc \in {p, None} /\ owners'[o].claim = owners[o].claim /\ ~owners'[o].retired
      /\ owners'[o].proc = p => owners'[o].target = owners[o].target
      /\ owners'[o].sources[i].cap = None
      /\ \A j \in Files \ {i} : owners'[o].sources[j].cap # None => owners'[o].sources[j] = owners[o].sources[j]
  <2>1. CASE Tidy(x) = NoOwner /\ x.claim = None
    BY <1>2, <1>8, <2>1 DEF NoOwner, NoSource
  <2>2. CASE Tidy(x) = x
    BY <1>8, <2>2 DEF NoSource
  <2> QED BY <2>1, <2>2 DEF Tidy
<1>10. \A j \in Files \ {i} : owners'[o].sources[j].cap # None =>
         owners[o].sources[j].cap \in Snapshots \ {a}
  <2>1. \A j \in Files : owners[o].sources[j].cap # None => owners[o].sources[j].cap \in Snapshots
    BY <1>2 DEF SlotInv, SlotType
  <2>2. \A j \in Files \ {i} : owners[o].sources[j].cap # a
    BY <1>1, <1>2 DEF CustodyInv, SlotsApart
  <2> QED BY <1>9, <2>1, <2>2
<1>11. SlotOpened(owners'[o], o, snap')
  <2>1. \A j \in Files : owners'[o].sources[j].cap # None =>
          owners'[o].sources[j] = owners[o].sources[j] /\ owners'[o].sources[j].cap \in Snapshots \ {a}
    BY ONLY <1>9, <1>10
  <2>2. \A b \in Snapshots \ {a} : snap[b].owner = o => snap'[b] = snap[b] /\ snap[b].refs # 0
    BY ONLY <1>2, <1>3, <1>5, NamingFinite, AuthorityAssumption DEF Accounted
  <2>3. SlotOpened(owners[o], o, snap)
    BY ONLY <1>2, <1>3
  <2> HIDE DEF a
  <2>4. \A b \in Snapshots : snap[b].owner = o /\ (\E j \in Files : owners'[o].sources[j].cap = b) =>
          snap'[b].owner = o /\ snap'[b].gen = snap[b].gen /\ snap'[b].refs # 0
    <3>1. None \notin Snapshots
      BY ONLY AuthorityAssumption DEF Snapshots
    <3>2. \A b \in Snapshots : (\E j \in Files : owners'[o].sources[j].cap = b) => b # a
      BY ONLY <2>1, <3>1
    <3> QED BY ONLY <2>2, <3>2
  <2>5. /\ \A j \in Files : owners'[o].sources[j].cap # None => owners'[o].sources[j] = owners[o].sources[j]
        /\ \A j \in Files : owners'[o].sources[j].cap # None => owners'[o].sources[j].cap \in Snapshots
    BY ONLY <2>1
  <2> QED BY ONLY <2>3, <2>4, <2>5, OpenedStays
<1>12. \A j, k \in Files : owners'[o].sources[j].cap # None
                            /\ owners'[o].sources[j].cap = owners'[o].sources[k].cap => j = k
  BY <1>2, <1>9 DEF CustodyInv, SlotsApart
<1>13. owners'[o].proc = p /\ owners'[o].claim # None => mine'[p] = <<owners'[o].claim, owners'[o].target>>
  BY <1>1, <1>2, <1>9, SourcesOpened DEF CustodyInv, OwnedBy
<1>14. \A d \in Disks : claim'[d].owner = o <=> owners'[o].claim = d
  BY <1>1, <1>2, <1>9, SourcesOpened DEF CustodyInv
<1>15. mine' = [r \in Procs |-> mine'[r]] /\ call' \in Procs \cup {None}
  BY <1>1 DEF CustodyInv
<1>16. \A d \in Disks, q \in Owners \ {o} : claim'[d].owner = q <=> claim[d].owner = q
  BY <1>1
<1>17. mine' = mine
  BY <1>1
<1> HIDE DEF a
<1> QED BY <1>2, <1>6, <1>7, <1>8, <1>9, <1>11, <1>12, <1>13, <1>14, <1>15, <1>16, <1>17, OneSlotStep
LEMMA ClaimCustody ==
  ASSUME AuthInv, CustodyInv, SlotInv, SlotInv', NEW p \in Procs, NEW d \in Disks, Claim(p, d)
  PROVE  CustodyInv'
<1>1. PICK o \in OwnedBy(p), id \in reviewed :
        /\ owners[o].claim = None /\ Paired(o) /\ id[1] = d
        /\ ClaimTarget(o, d, id[2], Pins(o))
        /\ owners' = [owners EXCEPT ![o].claim = d, ![o].target = id[2]]
        /\ mine' = [mine EXCEPT ![p] = id] /\ call' = p
  BY DEF Claim
<1> DEFINE g == id[2]
<1>2. /\ o \in Owners /\ p # None /\ owners[o].proc = p /\ ~owners[o].retired
      /\ \A q \in Owners \ {o} : owners[q].proc # p
  BY SetupAssumption DEF OwnedBy, CustodyInv, SlotsApart
<1>3. Accounted(snap, claim) /\ \A q \in Owners : SlotOpened(owners[q], q, snap)
  BY SourcesOpened DEF CustodyInv
<1>4. id = <<d, g>> /\ g \in Nat
  BY <1>1 DEF AuthInv
<1>5. /\ claim[d].owner = None /\ d # None
      /\ claim' = [claim EXCEPT ![d] = [owner |-> o, sources |-> Pins(o)]]
      /\ snap' = [a \in Snapshots |-> IF \E pin \in Pins(o) : pin[1] = a THEN [snap[a] EXCEPT !.refs = @ + 1] ELSE snap[a]]
  BY <1>1, AuthorityAssumption DEF ClaimTarget, Eligible, Enter
<1>6. /\ Pins(o) \in SUBSET (Snapshots \X Nat)
      /\ \A pin \in Pins(o) : snap[pin[1]].refs # 0 /\ snap[pin[1]].gen = pin[2]
  <2>1. \A i \in Files : owners[o].sources[i].cap \in Snapshots /\ owners[o].sources[i].gen \in Nat
    BY <1>1, <1>2 DEF Paired, SlotInv, SlotType
  <2>2. \A i \in Files : Matches(owners[o].sources[i].cap, owners[o].sources[i].gen)
    BY <1>1 DEF Paired
  <2> QED BY <2>1, <2>2 DEF Pins, Matches, Free
<1>7. Accounted(snap', claim')
  <2>1. Accounted(snap', [claim EXCEPT ![d] = [owner |-> o, sources |-> Pins(o)]])
    <3> HIDE DEF Pins
    <3> QED BY <1>2, <1>3, <1>5, <1>6, ClaimAccounted
  <2> QED BY <1>5, <2>1
<1>8. \A a \in Snapshots : /\ snap'[a].owner = snap[a].owner /\ snap'[a].gen = snap[a].gen
                           /\ snap[a].refs # 0 => snap'[a].refs # 0
  BY <1>3, <1>5 DEF Accounted, SnapType
<1>9. \A q \in Owners, a \in Snapshots : snap[a].owner = q => snap[a].refs # 0
  BY <1>3, NamingFinite, AuthorityAssumption DEF Accounted
<1>10. /\ owners'[o].proc = p /\ ~owners'[o].retired /\ owners'[o].claim = d /\ owners'[o].target = g
       /\ owners'[o].sources = owners[o].sources /\ \A q \in Owners \ {o} : owners'[q] = owners[q]
  BY <1>1, <1>2 DEF SlotInv, SlotType
<1>11. mine'[p] = <<d, g>> /\ mine' = [r \in Procs |-> mine'[r]] /\ \A r \in Procs \ {p} : mine'[r] = mine[r]
  BY <1>1, <1>4 DEF CustodyInv
<1>12. SlotOpened(owners'[o], o, snap')
  <2>1. \A i \in Files : owners[o].sources[i].cap # None => owners[o].sources[i].cap \in Snapshots
    BY <1>2 DEF SlotInv, SlotType
  <2>2. SlotOpened(owners[o], o, snap)
    BY <1>2, <1>3
  <2>3. \A a \in Snapshots : snap[a].owner = o => snap'[a].owner = o /\ snap'[a].gen = snap[a].gen /\ snap'[a].refs # 0
    BY ONLY <1>2, <1>8, <1>9
  <2> QED BY ONLY <1>10, <2>1, <2>2, <2>3, OpenedStays
<1>13. \A j, k \in Files : owners'[o].sources[j].cap # None
                            /\ owners'[o].sources[j].cap = owners'[o].sources[k].cap => j = k
  BY <1>2, <1>10 DEF CustodyInv, SlotsApart
<1>14. \A e \in Disks : /\ claim'[e].owner = o <=> owners'[o].claim = e
                        /\ \A q \in Owners \ {o} : claim'[e].owner = q <=> claim[e].owner = q
  <2>1. claim'[d].owner = o /\ \A e \in Disks \ {d} : claim'[e] = claim[e]
    BY <1>3, <1>5 DEF Accounted
  <2>2. \A e \in Disks : claim[e].owner # o
    BY <1>1, <1>2, SourcesOpened, AuthorityAssumption DEF CustodyInv
  <2> QED BY <1>2, <1>5, <1>10, <2>1, <2>2, AuthorityAssumption
<1>15. call' \in Procs \cup {None}
  BY <1>1
<1> HIDE DEF g
<1> QED BY <1>2, <1>7, <1>8, <1>9, <1>10, <1>11, <1>12, <1>13, <1>14, <1>15, OneSlotStep

\* Slot o without its claim.
Unclaimed(own) == [own EXCEPT !.claim = None, !.target = 0]

\* When a release succeeds the references of the claim are dropped and its slot's are not.
LEMMA ReleaseAccounted ==
  ASSUME CustodyInv, SlotInv, NEW o \in Owners, NEW d \in Disks, owners[o].claim = d,
         Ended(claim, claim', d)
  PROVE  /\ Accounted(SnapsDropped(d), claim') /\ claim[d].owner = o
         /\ \A q \in Owners : SlotOpened(owners[q], q, SnapsDropped(d))
         /\ \A q \in Owners, a \in Snapshots : snap[a].owner = q =>
              SnapsDropped(d)[a].owner = q /\ SnapsDropped(d)[a].gen = snap[a].gen /\ SnapsDropped(d)[a].refs # 0
         /\ \A e \in Disks : claim'[e].owner # o /\ \A q \in Owners \ {o} : claim'[e].owner = q <=> claim[e].owner = q
<1>1. Accounted(snap, claim) /\ claim[d].owner = o /\ o # None /\ \A q \in Owners : SlotOpened(owners[q], q, snap)
  BY SourcesOpened, AuthorityAssumption DEF CustodyInv
<1>2. /\ Accounted(SnapsDropped(d), claim')
      /\ \A a \in Snapshots : snap[a].owner # None =>
           /\ SnapsDropped(d)[a].owner = snap[a].owner /\ SnapsDropped(d)[a].gen = snap[a].gen
           /\ SnapsDropped(d)[a].refs # 0
  <2>1. SnapsDropped(d) = Dropping(snap, claim, d)
    BY DEF SnapsDropped, Dropping
  <2> QED BY <1>1, <2>1, DropAccounted
<1>3. \A q \in Owners : SlotOpened(owners[q], q, SnapsDropped(d))
  <2>1. \A q \in Owners, i \in Files : owners[q].sources[i].cap # None => owners[q].sources[i].cap \in Snapshots
    BY DEF SlotInv, SlotType
  <2>2. ASSUME NEW q \in Owners PROVE SlotOpened(owners[q], q, SnapsDropped(d))
    <3>1. q # None
      BY ONLY AuthorityAssumption
    <3>2. \A a \in Snapshots : snap[a].owner = q =>
            SnapsDropped(d)[a].owner = q /\ SnapsDropped(d)[a].gen = snap[a].gen /\ SnapsDropped(d)[a].refs # 0
      BY ONLY <1>2, <3>1
    <3> QED BY ONLY <1>1, <2>1, <3>2, q \in Owners, OpenedStays
  <2> QED BY <2>2
<1>4. \A e \in Disks : claim'[e].owner # o /\ \A q \in Owners \ {o} : claim'[e].owner = q <=> claim[e].owner = q
  <2>1. claim'[d].owner = None /\ \A e \in Disks \ {d} : claim'[e] = claim[e]
    BY <1>1 DEF Accounted, NoClaim, Ended
  <2>2. \A e \in Disks : claim[e].owner = o <=> owners[o].claim = e
    BY SourcesOpened DEF CustodyInv
  <2> QED BY <1>1, <2>1, <2>2, AuthorityAssumption
<1> QED BY <1>1, <1>2, <1>3, <1>4, AuthorityAssumption

LEMMA ReleaseCustody ==
  ASSUME CustodyInv, SlotInv, SlotInv', NEW p \in Procs, NEW o \in OwnedBy(p), ReleaseClaim(o),
         mine' = IF owners'[o].claim = None THEN [mine EXCEPT ![p] = None] ELSE mine,
         call' \in Procs \cup {None}
  PROVE  CustodyInv'
<1> DEFINE x == Unclaimed(owners[o])
<1>1. /\ o \in Owners /\ p # None /\ owners[o].proc = p /\ ~owners[o].retired
      /\ \A q \in Owners \ {o} : owners[q].proc # p
  BY SetupAssumption DEF OwnedBy, CustodyInv, SlotsApart
<1>2. PICK d \in Disks : owners[o].claim = d /\ claim[d].owner = o /\ o # None
  BY <1>1, AuthorityAssumption DEF ReleaseClaim, Released, MayRelease, SlotInv, SlotType
<1>3. CASE epoch = MaxEpoch
  <2>1. claim' = claim /\ claim[d] # NoClaim
    BY <1>2, <1>3 DEF ReleaseClaim, Released, NoClaim
  <2>2. UNCHANGED <<claim, snap, owners>>
    BY <1>2, <2>1 DEF ReleaseClaim
  <2>3. mine' = mine
    BY <1>2, <2>2, AuthorityAssumption
  <2> QED BY <2>2, <2>3, CustodySame
<1>4. CASE epoch # MaxEpoch
  <2>1. Ended(claim, claim', d)
    BY <1>2, <1>4 DEF ReleaseClaim, Released, Ended
  <2>2. claim'[d] = NoClaim
    BY <1>2, <2>1 DEF CustodyInv, Accounted, Ended
  <2>3. snap' = SnapsDropped(d) /\ owners' = [owners EXCEPT ![o] = Tidy(x)]
    BY <1>2, <2>2 DEF ReleaseClaim, Unclaimed
  <2>4. /\ Accounted(snap', claim') /\ SlotOpened(owners[o], o, snap')
        /\ \A q \in Owners, a \in Snapshots : snap[a].owner = q =>
             snap'[a].owner = q /\ snap'[a].gen = snap[a].gen /\ snap'[a].refs # 0
        /\ \A e \in Disks : claim'[e].owner # o /\ \A q \in Owners \ {o} : claim'[e].owner = q <=> claim[e].owner = q
    BY <1>1, <1>2, <2>1, <2>3, ReleaseAccounted
  <2>5. /\ x.claim = None /\ x.proc = p /\ ~x.retired /\ x.sources = owners[o].sources
        /\ owners'[o] = Tidy(x) /\ \A q \in Owners \ {o} : owners'[q] = owners[q]
    BY <1>1, <2>3 DEF Unclaimed, SlotInv, SlotType
  <2> HIDE DEF x
  <2>6. /\ owners'[o].claim = None /\ owners'[o].proc \in {p, None} /\ ~owners'[o].retired
        /\ \A i \in Files : owners'[o].sources[i].cap # None => owners'[o].sources[i] = owners[o].sources[i]
    <3>1. CASE Tidy(x) = NoOwner
      BY <2>5, <3>1 DEF NoOwner, NoSource
    <3>2. CASE Tidy(x) = x
      BY <2>5, <3>2
    <3> QED BY <3>1, <3>2 DEF Tidy
  <2>7. SlotOpened(owners'[o], o, snap')
    <3>1. \A i \in Files : owners[o].sources[i].cap # None => owners[o].sources[i].cap \in Snapshots
      BY <1>1 DEF SlotInv, SlotType
    <3> QED BY ONLY <2>4, <2>6, <3>1, OpenedSame
  <2>8. \A j, k \in Files : owners'[o].sources[j].cap # None
                              /\ owners'[o].sources[j].cap = owners'[o].sources[k].cap => j = k
    BY <1>1, <2>6 DEF CustodyInv, SlotsApart
  <2>9. mine' = [r \in Procs |-> mine'[r]] /\ \A r \in Procs \ {p} : mine'[r] = mine[r]
    BY <2>6 DEF CustodyInv
  <2>10. \A e \in Disks : /\ claim'[e].owner = o <=> owners'[o].claim = e
                          /\ \A q \in Owners \ {o} : claim'[e].owner = q <=> claim[e].owner = q
    BY <2>4, <2>6, AuthorityAssumption
  <2>11. \A q \in Owners \ {o} : owners'[q] = owners[q] /\ owners[q].proc # p
    BY <1>1, <2>5
  <2>12. /\ owners'[o].proc \in {p, None} /\ (owners'[o].retired => owners'[o].proc = None)
         /\ (owners'[o].proc = p /\ owners'[o].claim # None => mine'[p] = <<owners'[o].claim, owners'[o].target>>)
    BY <2>6
  <2> QED BY ONLY CustodyInv, SlotInv, SlotInv', p \in Procs, call' \in Procs \cup {None},
                  <1>1, <2>4, <2>7, <2>8, <2>9, <2>10, <2>11, <2>12, OneSlotStep
<1> QED BY <1>3, <1>4
\* setup_native_process_teardown closes every source of the slot.
LEMMA AllClosedAccounted ==
  ASSUME SlotInv, NEW o \in Owners, NEW sn, NEW cl, Accounted(sn, cl), SlotOpened(owners[o], o, sn)
  PROVE  /\ Accounted(AllClosed(sn, o), cl)
         /\ \A a \in Snapshots : sn[a].owner # o => AllClosed(sn, o)[a] = sn[a]
<1> DEFINE tn == AllClosed(sn, o)
           held(a) == {s \in {owners[o].sources[i] : i \in Files} : s.cap = a}
<1>1. tn = [a \in Snapshots |-> tn[a]]
  BY DEF AllClosed
<1>2. ASSUME NEW a \in Snapshots
      PROVE  tn[a] = sn[a] \/ (sn[a].owner = o /\ tn[a] = Unref([sn[a] EXCEPT !.owner = None]))
  <2>1. CASE held(a) = {}
    BY <2>1 DEF AllClosed
  <2>2. CASE held(a) # {}
    <3>1. tn[a] = Closed(sn[a], o, (CHOOSE s \in held(a) : TRUE).gen)
      BY <2>2 DEF AllClosed
    <3>2. PICK s \in held(a) : s = CHOOSE r \in held(a) : TRUE
      BY <2>2
    <3>3. PICK i \in Files : s = owners[o].sources[i] /\ s.cap = a
      OBVIOUS
    <3>4. a # None
      BY AuthorityAssumption DEF Snapshots
    <3>5. sn[a].refs # 0 /\ sn[a].gen = s.gen /\ sn[a].owner = o
      BY <3>3, <3>4 DEF SlotOpened
    <3>6. tn[a] = Closed(sn[a], o, s.gen)
      BY <3>1, <3>2
    <3>7. sn[a] \in SnapType
      BY DEF Accounted
    <3> QED BY <3>5, <3>6, <3>7 DEF Closed, SnapType
  <2> QED BY <2>1, <2>2
<1> HIDE DEF tn
<1>3. o # None
  BY AuthorityAssumption
<1>4. Accounted(tn, cl)
  BY <1>1, <1>2, <1>3, CloseAccounted
<1> QED BY <1>2, <1>4 DEF tn

LEMMA LeftFacts ==
  ASSUME NEW x \in SlotType
  PROVE  /\ Left(x).proc = None /\ Left(x).claim = x.claim
         /\ \A i \in Files : Left(x).sources[i].cap = None
<1> DEFINE y == [x EXCEPT !.sources = NoOwner.sources]
<1>1. y \in SlotType /\ y.claim = x.claim /\ \A i \in Files : y.sources[i].cap = None
  BY DEF SlotType, NoOwner, NoSource
<1> HIDE DEF y
<1>2. NoOwner.proc = None /\ NoOwner.claim = None /\ \A i \in Files : NoOwner.sources[i].cap = None
  BY DEF NoOwner, NoSource
<1>3. CASE Tidy(y) = NoOwner
  <2>1. y.claim = None
    BY <1>2, <1>3 DEF Tidy
  <2>2. Left(x) = NoOwner
    BY <1>3 DEF Left, y
  <2> QED BY <1>1, <1>2, <2>1, <2>2
<1>4. CASE Tidy(y) # NoOwner
  <2>1. Tidy(y) = y
    BY <1>4 DEF Tidy
  <2>2. Left(x) = [y EXCEPT !.retired = TRUE, !.proc = None]
    BY <1>4, <2>1 DEF Left, y
  <2>3. Left(x).proc = None /\ Left(x).claim = y.claim /\ Left(x).sources = y.sources
    BY <1>1, <2>2 DEF SlotType
  <2> QED BY <1>1, <2>3
<1> QED BY <1>3, <1>4

LEMMA ExitCustody ==
  ASSUME CustodyInv, SlotInv, SlotInv', NEW p \in Procs, Exit(p)
  PROVE  CustodyInv'
<1>1. PICK o \in OwnedBy(p) :
        LET d == owners[o].claim
            release == d # None /\ MayRelease(o, d, owners[o].target) /\ epoch # MaxEpoch
        IN  /\ snap' = AllClosed(IF release THEN SnapsDropped(d) ELSE snap, o)
            /\ owners' = [owners EXCEPT ![o] =
                            Left(IF release THEN [owners[o] EXCEPT !.claim = None, !.target = 0] ELSE owners[o])]
            /\ IF d # None /\ MayRelease(o, d, owners[o].target)
                 THEN Released(o, d, owners[o].target)
                 ELSE UNCHANGED <<gen, epoch, poisoned, claim>>
  BY DEF Exit
<1>2. /\ o \in Owners /\ p # None /\ owners[o].proc = p /\ o # None
      /\ \A q \in Owners \ {o} : owners[q].proc # p
  BY SetupAssumption, AuthorityAssumption DEF OwnedBy, CustodyInv, SlotsApart
<1>3. call' = None /\ mine' = [mine EXCEPT ![p] = None]
  BY DEF Exit
<1>4. Accounted(snap, claim) /\ \A q \in Owners : SlotOpened(owners[q], q, snap)
  BY SourcesOpened DEF CustodyInv
<1>5. \A q \in Owners, a \in Snapshots : snap[a].owner = q => snap[a].refs # 0
  BY <1>4, NamingFinite, AuthorityAssumption DEF Accounted
\* With or without a release before them, the closes leave the others' snapshots alone.
<1>6. ASSUME NEW sn, NEW x \in SlotType, snap' = AllClosed(sn, o),
             owners'[o] = Left(x), \A q \in Owners \ {o} : owners'[q] = owners[q],
             Accounted(sn, claim'), SlotOpened(owners[o], o, sn),
             \A q \in Owners, a \in Snapshots : snap[a].owner = q =>
               sn[a].owner = q /\ sn[a].gen = snap[a].gen /\ sn[a].refs # 0,
             \A e \in Disks : /\ claim'[e].owner = o <=> x.claim = e
                              /\ \A q \in Owners \ {o} : claim'[e].owner = q <=> claim[e].owner = q
      PROVE  CustodyInv'
  <2>1. Accounted(snap', claim') /\ \A a \in Snapshots : sn[a].owner # o => snap'[a] = sn[a]
    BY <1>2, <1>6, AllClosedAccounted
  <2>2. \A q \in Owners \ {o}, a \in Snapshots : snap[a].owner = q =>
          snap'[a].owner = q /\ snap'[a].gen = snap[a].gen /\ snap'[a].refs # 0
    BY <1>6, <2>1
  <2>3. owners'[o] = Left(x) /\ \A q \in Owners \ {o} : owners'[q] = owners[q] /\ owners[q].proc # p
    BY <1>2, <1>6
  <2>4. owners'[o].proc = None /\ owners'[o].claim = x.claim /\ \A i \in Files : owners'[o].sources[i].cap = None
    BY <2>3, LeftFacts
  <2>5. SlotOpened(owners'[o], o, snap')
    BY <2>4 DEF SlotOpened
  <2>6. \A i, j \in Files : owners'[o].sources[i].cap # None
                            /\ owners'[o].sources[i].cap = owners'[o].sources[j].cap => i = j
    BY <2>4
  <2>7. mine' = [r \in Procs |-> mine'[r]] /\ \A r \in Procs \ {p} : mine'[r] = mine[r]
    BY <1>3 DEF CustodyInv
  <2>8. \A e \in Disks : /\ claim'[e].owner = o <=> owners'[o].claim = e
                         /\ \A q \in Owners \ {o} : claim'[e].owner = q <=> claim[e].owner = q
    BY <1>6, <2>4
  <2>9. /\ owners'[o].proc \in {p, None} /\ (owners'[o].retired => owners'[o].proc = None)
        /\ (owners'[o].proc = p /\ owners'[o].claim # None => mine'[p] = <<owners'[o].claim, owners'[o].target>>)
    BY <1>2, <2>4
  <2>10. call' \in Procs \cup {None}
    BY <1>3
  <2> QED BY ONLY CustodyInv, SlotInv, SlotInv', p \in Procs,
                  <1>2, <2>1, <2>2, <2>3, <2>5, <2>6, <2>7, <2>8, <2>9, <2>10, OneSlotStep
<1>7. CASE owners[o].claim # None /\ MayRelease(o, owners[o].claim, owners[o].target) /\ epoch # MaxEpoch
  <2>1. PICK d \in Disks : owners[o].claim = d
    BY <1>2, <1>7 DEF SlotInv, SlotType
  <2>2. Ended(claim, claim', d)
    BY <1>1, <1>7, <2>1 DEF Released, Ended
  <2>3. snap' = AllClosed(SnapsDropped(d), o) /\ owners'[o] = Left(Unclaimed(owners[o]))
        /\ \A q \in Owners \ {o} : owners'[q] = owners[q]
    BY <1>1, <1>2, <1>7, <2>1 DEF Unclaimed, SlotInv
  <2>4. Unclaimed(owners[o]) \in SlotType /\ Unclaimed(owners[o]).claim = None
    BY <1>2 DEF Unclaimed, SlotInv, SlotType
  <2> DEFINE sn == SnapsDropped(d)
             x == Unclaimed(owners[o])
  <2>5. /\ Accounted(SnapsDropped(d), claim') /\ SlotOpened(owners[o], o, SnapsDropped(d))
        /\ \A q \in Owners, a \in Snapshots : snap[a].owner = q =>
             SnapsDropped(d)[a].owner = q /\ SnapsDropped(d)[a].gen = snap[a].gen /\ SnapsDropped(d)[a].refs # 0
        /\ \A e \in Disks : claim'[e].owner # o /\ \A q \in Owners \ {o} : claim'[e].owner = q <=> claim[e].owner = q
    BY <1>2, <2>1, <2>2, ReleaseAccounted
  <2>6. \A e \in Disks : /\ claim'[e].owner = o <=> Unclaimed(owners[o]).claim = e
                         /\ \A q \in Owners \ {o} : claim'[e].owner = q <=> claim[e].owner = q
    BY <2>4, <2>5, AuthorityAssumption
  <2>7. /\ snap' = AllClosed(sn, o) /\ owners'[o] = Left(x)
        /\ \A q \in Owners \ {o} : owners'[q] = owners[q]
        /\ Accounted(sn, claim') /\ SlotOpened(owners[o], o, sn) /\ x \in SlotType
        /\ \A q \in Owners, a \in Snapshots : snap[a].owner = q =>
             sn[a].owner = q /\ sn[a].gen = snap[a].gen /\ sn[a].refs # 0
        /\ \A e \in Disks : /\ claim'[e].owner = o <=> x.claim = e
                            /\ \A q \in Owners \ {o} : claim'[e].owner = q <=> claim[e].owner = q
    BY <2>3, <2>4, <2>5, <2>6
  <2> HIDE DEF sn, x
  <2> QED BY ONLY <1>6, <2>7
<1>8. CASE ~(owners[o].claim # None /\ MayRelease(o, owners[o].claim, owners[o].target) /\ epoch # MaxEpoch)
  <2>1. claim' = claim
    BY <1>1, <1>8 DEF Released
  <2>2. snap' = AllClosed(snap, o) /\ owners'[o] = Left(owners[o]) /\ \A q \in Owners \ {o} : owners'[q] = owners[q]
    BY <1>1, <1>2, <1>8 DEF SlotInv
  <2>3. owners[o] \in SlotType /\ SlotOpened(owners[o], o, snap) /\ Accounted(snap, claim')
    BY <1>2, <1>4, <2>1 DEF SlotInv
  <2>4. \A e \in Disks : claim'[e].owner = o <=> owners[o].claim = e
    BY <1>2, <2>1, SourcesOpened DEF CustodyInv
  <2> QED BY <1>5, <1>6, <2>1, <2>2, <2>3, <2>4
<1> QED BY <1>7, <1>8

LEMMA CustodyStep ==
  ASSUME AuthInv, SlotInv, CustodyInv, [SetupNext]_setupVars
  PROVE  CustodyInv'
<1>0. SlotInv'
  BY SlotStep
<1>1. machine.disks \subseteq Disks /\ machine.procs \subseteq Procs
  BY SetupAssumption DEF AuthInv
<1>2. CASE UNCHANGED <<claim, snap, owners, mine>> /\ call' \in {call, None}
  BY <1>2, CustodySame DEF CustodyInv
<1>3. CASE Boot \/ (BlockLayer(machine.disks) /\ UNCHANGED service)
  BY <1>2, <1>3 DEF Boot, BindRoles, BlockLayer, Register, BlkWrite, BlkReadFails, BlkWriteAsync,
                    AsyncLands, MountVolume, service, archive
<1>4. CASE Published \/ UNCHANGED setupVars
  BY <1>2, <1>4 DEF Published, setupVars, service, archive, diskWords
<1>5. ASSUME NEW p \in machine.procs, NEW d \in machine.disks, Review(p, d)
      PROVE  CustodyInv'
  BY <1>2, <1>5 DEF Review, ReviewTarget, service, archive
<1>6. ASSUME NEW p \in machine.procs, NEW write \in BOOLEAN, NEW failed \in BOOLEAN, TargetIo(p, write, failed)
      PROVE  CustodyInv'
  BY <1>2, <1>6 DEF TargetIo, ClaimIo, service, archive
<1>7. ASSUME NEW p \in machine.procs, NEW published \in BOOLEAN, OpenSource(p, published)
      PROVE  CustodyInv'
  BY <1>0, <1>1, <1>7, OpenCustody
<1>8. ASSUME NEW p \in machine.procs, Admit(p) \/ Close(p) \/ Exit(p)
      PROVE  CustodyInv'
  BY <1>0, <1>1, <1>8, AdmitCustody, CloseCustody, ExitCustody
<1>9. ASSUME NEW p \in machine.procs, NEW d \in machine.disks, Claim(p, d)
      PROVE  CustodyInv'
  BY <1>0, <1>1, <1>9, ClaimCustody
<1>10. ASSUME NEW p \in machine.procs, Release(p)
       PROVE  CustodyInv'
  <2>1. PICK o \in OwnedBy(p) :
          /\ ReleaseClaim(o) /\ call' = call
          /\ mine' = IF owners'[o].claim = None THEN [mine EXCEPT ![p] = None] ELSE mine
    BY <1>10 DEF Release
  <2>2. call' \in Procs \cup {None}
    BY <2>1 DEF CustodyInv
  <2> QED BY <1>0, <1>1, <2>1, <2>2, ReleaseCustody
<1>11. CASE PublishFails
  <2>1. PICK o \in OwnedBy(call) :
          /\ call # None /\ ReleaseClaim(o) /\ call' = None
          /\ mine' = IF owners'[o].claim = None THEN [mine EXCEPT ![call] = None] ELSE mine
    BY <1>11 DEF PublishFails
  <2>2. PICK p \in Procs : p = call
    BY <2>1 DEF CustodyInv
  <2>3. call' \in Procs \cup {None}
    BY <2>1
  <2> QED BY <1>0, <2>1, <2>2, <2>3, ReleaseCustody
<1> QED BY <1>3, <1>4, <1>5, <1>6, <1>7, <1>8, <1>9, <1>10, <1>11 DEF SetupNext

\* The files a claim was granted for live as long as the claim, and only the process
\* that was granted it reaches it, whatever is opened, closed, refused, released or
\* torn down, and however slots and process numbers are reused.
THEOREM ClaimsAreKept == SetupSpec => []CustodyKept
<1>1. SetupInit => CustodyInv
  <2> SUFFICES ASSUME SetupInit
               PROVE  CustodyInv
    OBVIOUS
  <2>1. Accounted(snap, claim)
    <3>1. snap \in [Snapshots -> SnapType] /\ claim \in [Disks -> ClaimType]
          /\ (\A d \in Disks : claim[d].owner = None) /\ \A a \in Snapshots : snap[a].refs = 0 /\ snap[a].owner = None
      BY DEF SetupInit, AuthorityInit, NoSnap, NoClaim, SnapType, ClaimType
    <3>2. \A a \in Snapshots : Naming(claim, a) = {}
      BY <3>1 DEF Naming
    <3>3. \A a \in Snapshots : Cardinality(Naming(claim, a)) = 0
      BY <3>2, FS_EmptySet
    <3> QED BY <3>1, <3>3 DEF Accounted
  <2>2. SlotsApart
    BY DEF SetupInit, SlotsApart, NoOwner, NoSource
  <2>3. CustodyIsPersonal
    <3>1. \A o \in Owners : owners[o].claim = None /\ \A i \in Files : owners[o].sources[i].cap = None
      BY DEF SetupInit, NoOwner, NoSource
    <3>2. \A d \in Disks : claim[d].owner = None
      BY DEF SetupInit, AuthorityInit, NoClaim
    <3> QED BY <3>1, <3>2, AuthorityAssumption DEF CustodyIsPersonal
  <2> QED BY <2>1, <2>2, <2>3 DEF CustodyInv, SetupInit
<1>2. AuthInv /\ SlotInv /\ CustodyInv /\ [SetupNext]_setupVars => CustodyInv'
  BY CustodyStep
<1> QED BY <1>1, <1>2, SetupInvariant, CustodyMeansKept, PTL DEF SetupSpec

-----------------------------------------------------------------------------
(* The journal. *)

(* Loops, and the lists they walk. *)

\* The least element, which stands in for induction.
LEMMA LeastNat ==
  ASSUME NEW T, T \subseteq Nat, T # {}
  PROVE  \E n \in T : \A m \in T : n <= m
<1> DEFINE R == {ss \in Nat \X Nat : ss[1] < ss[2]}
<1>1. IsWellFoundedOn(R, Nat)
  BY NatLessThanWellFounded DEF OpToRel
<1>2. PICK x \in T : \A y \in T : ~(<<y, x>> \in R)
  BY <1>1, WFMin
<1>3. \A y \in T : x <= y
  <2> TAKE y \in T
  <2>1. x \in Nat /\ y \in Nat /\ <<y, x>> \notin R
    BY <1>2
  <2>2. ~(y < x)
    BY <2>1
  <2> QED BY <2>1, <2>2
<1> QED BY <1>3

LEMMA SetInduction ==
  ASSUME NEW T, 0 \in T, \A n \in Nat : n \in T => n + 1 \in T
  PROVE  \A n \in Nat : n \in T
<1> SUFFICES ASSUME Nat \ T # {} PROVE FALSE
  OBVIOUS
<1>1. PICK n \in Nat \ T : \A m \in Nat \ T : n <= m
  BY LeastNat
<1>2. n # 0 /\ n - 1 \in Nat /\ n - 1 \in T
  BY <1>1
<1> QED BY <1>1, <1>2

\* Induction up to a bound.
LEMMA BoundedInduction ==
  ASSUME NEW n \in Nat, NEW T, 0 \in T, \A k \in 1 .. n : k - 1 \in T => k \in T
  PROVE  \A k \in 0 .. n : k \in T
<1> DEFINE U == {k \in Nat : k <= n => k \in T}
<1>1. 0 \in U
  OBVIOUS
<1>2. ASSUME NEW k \in Nat, k \in U PROVE k + 1 \in U
  <2>1. k + 1 <= n => k + 1 \in 1 .. n /\ (k + 1) - 1 = k /\ k \in T
    BY <1>2
  <2> QED BY <2>1
<1> HIDE DEF U
<1>3. \A k \in Nat : k \in U
  BY <1>1, <1>2, SetInduction
<1> QED BY <1>3 DEF U

\* The intermediate states of a loop of n turns, and that they exist.
Turns(f, n, y0, G) == f = [k \in 0 .. n |-> IF k = 0 THEN y0 ELSE G[<<f[k - 1], k>>]]

LEMMA LoopExists ==
  ASSUME NEW n \in Nat, NEW y0, NEW G
  PROVE  \E f : Turns(f, n, y0, G)
<1> DEFINE Body(f, m) == [k \in 0 .. m |-> IF k = 0 THEN y0 ELSE G[<<f[k - 1], k>>]]
           Fine(m) == \E f : f = Body(f, m)
           T == {m \in Nat : Fine(m)}
<1>1. 0 \in T
  <2>1. [k \in 0 .. 0 |-> y0] = Body([k \in 0 .. 0 |-> y0], 0)
    OBVIOUS
  <2>2. Fine(0)
    BY <2>1
  <2> HIDE DEF Fine
  <2> QED BY <2>2
<1>2. ASSUME NEW m \in Nat, m \in T PROVE m + 1 \in T
  <2>1. PICK f : f = Body(f, m)
    BY <1>2
  <2> DEFINE v == G[<<f[m], m + 1>>]
             g == [k \in 0 .. m + 1 |-> IF k = m + 1 THEN v ELSE f[k]]
  <2>2. ASSUME NEW k \in 0 .. m + 1 PROVE g[k] = Body(g, m + 1)[k]
    <3>1. CASE k = m + 1
      <4>1. g[k] = v /\ g[k - 1] = f[m] /\ k # 0
        BY <3>1
      <4> QED BY <4>1, <3>1
    <3>2. CASE k # m + 1 /\ k # 0
      <4>1. k \in 0 .. m /\ g[k] = f[k] /\ g[k - 1] = f[k - 1]
        BY <3>2
      <4>2. f[k] = G[<<f[k - 1], k>>]
        BY <2>1, <4>1, <3>2
      <4> QED BY <4>1, <4>2, <3>2
    <3>3. CASE k = 0
      <4>1. f[0] = y0
        BY <2>1
      <4> QED BY <4>1, <3>3
    <3> QED BY <3>1, <3>2, <3>3
  <2>3. g = Body(g, m + 1)
    BY <2>2
  <2>4. Fine(m + 1)
    BY <2>3
  <2> HIDE DEF Fine
  <2> QED BY <2>4
<1>3. Fine(n)
  <2> HIDE DEF Fine
  <2>1. \A m \in Nat : m \in T
    <3> HIDE DEF T
    <3> QED BY <1>1, <1>2, SetInduction
  <2> QED BY <2>1
<1> QED BY <1>3 DEF Turns

\* How a loop is used: its step keeps the states in Y(k), given as the pairs Z.
LEMMA LoopRuns ==
  ASSUME NEW n \in Nat, NEW y0, NEW G, NEW Z, <<y0, 0>> \in Z,
         \A k \in 1 .. n : \A y : <<y, k - 1>> \in Z => <<G[<<y, k>>], k>> \in Z
  PROVE  \E f : /\ Turns(f, n, y0, G)
                /\ \A k \in 0 .. n : <<f[k], k>> \in Z
<1>1. PICK f : Turns(f, n, y0, G)
  BY LoopExists
<1>2. f[0] = y0 /\ \A k \in 1 .. n : f[k] = G[<<f[k - 1], k>>]
  <2>1. \A k \in 0 .. n : f[k] = IF k = 0 THEN y0 ELSE G[<<f[k - 1], k>>]
    BY <1>1 DEF Turns
  <2>2. 0 \in 0 .. n /\ \A k \in 1 .. n : k \in 0 .. n /\ k # 0
    OBVIOUS
  <2> QED BY <2>1, <2>2, Zenon
<1> DEFINE T == {k \in 0 .. n : <<f[k], k>> \in Z}
<1>3. 0 \in T
  BY <1>2
<1>4. ASSUME NEW k \in 1 .. n, k - 1 \in T PROVE k \in T
  <2>1. <<f[k - 1], k - 1>> \in Z /\ k \in 0 .. n
    BY <1>4
  <2>2. <<G[<<f[k - 1], k>>], k>> \in Z
    BY <2>1
  <2>3. <<f[k], k>> \in Z
    BY <2>2, <1>2
  <2> QED BY <2>1, <2>3
<1>5. \A k \in 0 .. n : k \in T
  <2> HIDE DEF T
  <2> QED BY <1>3, <1>4, BoundedInduction
<1>6. \A k \in 0 .. n : <<f[k], k>> \in Z
  BY <1>5
<1> QED BY <1>1, <1>6

\* The function behind Kept exists and follows the walk.
LEMMA KeptRange ==
  ASSUME NEW X, NEW s \in Seq(X), NEW keep
  PROVE  Kept(s, keep) \in Seq(X \cap keep)
<1> DEFINE n == Len(s)
           V == X \cap keep
           Step1(q, i) == IF s[i] \in keep THEN Append(q, s[i]) ELSE q
           G == [p \in Seq(V) \X (1 .. n) |-> Step1(p[1], p[2])]
           Z == Seq(V) \X (0 .. n)
           Body(f) == [i \in 0 .. n |-> IF i = 0 THEN <<>> ELSE IF s[i] \in keep THEN Append(f[i - 1], s[i]) ELSE f[i - 1]]
           K == Keeping(s, keep)
<1>0. n \in Nat /\ \A i \in 1 .. n : s[i] \in X
  OBVIOUS
<1>e. <<>> \in Seq(V)
  OBVIOUS
<1>1. <<<<>>, 0>> \in Z
  <2>1. 0 \in 0 .. n
    BY <1>0
  <2> HIDE DEF n, V
  <2> QED BY <1>e, <2>1
<1>2. \A q \in Seq(V), i \in 1 .. n : G[<<q, i>>] = Step1(q, i) /\ Step1(q, i) \in Seq(V)
  <2> TAKE q \in Seq(V), i \in 1 .. n
  <2>1. G[<<q, i>>] = Step1(q, i)
    <3> HIDE DEF n, V, Step1
    <3> QED OBVIOUS
  <2>2. s[i] \in keep => s[i] \in V
    BY <1>0
  <2>3. Step1(q, i) \in Seq(V)
    <3> HIDE DEF n, V
    <3> QED BY <2>2
  <2> QED BY <2>1, <2>3
<1>3. \A k \in 1 .. n : \A y : <<y, k - 1>> \in Z => <<G[<<y, k>>], k>> \in Z
  <2> HIDE DEF G, V, Step1, n
  <2> QED BY <1>0, <1>2
<1>4. PICK f : Turns(f, n, <<>>, G) /\ \A k \in 0 .. n : <<f[k], k>> \in Z
  <2> HIDE DEF G, Z, n
  <2> QED BY <1>0, <1>1, <1>3, LoopRuns
<1>5. f = Body(f)
  <2>1. \A k \in 0 .. n : f[k] = IF k = 0 THEN <<>> ELSE G[<<f[k - 1], k>>]
    BY <1>4 DEF Turns
  <2>2. ASSUME NEW k \in 0 .. n PROVE f[k] = Body(f)[k]
    <3>1. CASE k = 0
      BY <2>1, <3>1
    <3>2. CASE k # 0
      <4>1. k \in 1 .. n /\ k - 1 \in 0 .. n
        BY <1>0, <3>2
      <4>2. f[k - 1] \in Seq(V)
        BY <1>4, <4>1
      <4>3. f[k] = Step1(f[k - 1], k)
        BY <2>1, <1>2, <3>2, <4>1, <4>2
      <4> QED BY <4>3, <3>2
    <3> QED BY <3>1, <3>2
  <2>3. f = [k \in 0 .. n |-> f[k]]
    BY <1>4 DEF Turns
  <2>4. Body(f) = [k \in 0 .. n |-> Body(f)[k]]
    OBVIOUS
  <2> QED BY <2>2, <2>3, <2>4
<1>6. K = Body(K)
  <2>1. K = CHOOSE g : g = Body(g)
    BY DEF Keeping
  <2> QED BY <1>5, <2>1
<1> HIDE DEF K
<1>7. \A k \in 0 .. n : K[k] = IF k = 0 THEN <<>> ELSE Step1(K[k - 1], k)
  BY <1>6
<1>8. K[0] = <<>> /\ \A k \in 1 .. n : K[k] = Step1(K[k - 1], k)
  <2> HIDE DEF Step1, n
  <2>1. 0 \in 0 .. n /\ \A i \in 1 .. n : i \in 0 .. n /\ i # 0
    BY <1>0
  <2> QED BY <1>7, <2>1
<1>9. \A k \in 0 .. n : K[k] \in Seq(V)
  <2> DEFINE T == {k \in 0 .. n : K[k] \in Seq(V)}
  <2>1. 0 \in T
    <3>1. 0 \in 0 .. n /\ K[0] \in Seq(V)
      BY <1>0, <1>8, <1>e
    <3> HIDE DEF n, V
    <3> QED BY <3>1
  <2>2. ASSUME NEW k \in 1 .. n, k - 1 \in T PROVE k \in T
    <3>1. K[k - 1] \in Seq(V) /\ k \in 0 .. n
      BY <2>2
    <3> HIDE DEF Step1, n, V
    <3>2. K[k] \in Seq(V)
      BY <1>2, <1>8, <3>1
    <3> QED BY <3>1, <3>2
  <2>3. \A k \in 0 .. n : k \in T
    <3> HIDE DEF T, n
    <3> QED BY <1>0, <2>1, <2>2, BoundedInduction
  <2> QED BY <2>3
<1>10. n \in 0 .. n
  BY <1>0
<1> QED BY <1>9, <1>10 DEF K, Kept

\* What a flattened list of lists holds comes from the lists.
LEMMA FlattenRange ==
  ASSUME NEW X, NEW s \in Seq(Seq(X))
  PROVE  FlattenSeq(s) \in Seq(X)
<1> DEFINE n == Len(s)
           m == n - 1
           G == [p \in Seq(X) \X (1 .. m) |-> p[1] \o s[p[2] + 1]]
           Z == Seq(X) \X (0 .. m)
           Body(f) == [i \in 1 .. n |-> IF i = 1 THEN s[i] ELSE f[i - 1] \o s[i]]
           K == CHOOSE f : f = Body(f)
<1>0. n \in Nat /\ \A i \in 1 .. n : s[i] \in Seq(X)
  OBVIOUS
<1>a. CASE n = 0
  <2>1. s = <<>>
    BY <1>a
  <2> QED BY <2>1 DEF FlattenSeq
<1>b. CASE n # 0
  <2>0. m \in Nat /\ 1 \in 1 .. n /\ n = m + 1
    BY <1>0, <1>b
  <2>1. <<s[1], 0>> \in Z
    <3> HIDE DEF n, m
    <3>1. 0 \in 0 .. m
      BY <2>0
    <3> QED BY <1>0, <2>0, <3>1
  <2>2. \A q \in Seq(X), i \in 1 .. m : G[<<q, i>>] = q \o s[i + 1] /\ q \o s[i + 1] \in Seq(X)
    <3> TAKE q \in Seq(X), i \in 1 .. m
    <3>1. i + 1 \in 1 .. n
      BY <2>0
    <3>2. s[i + 1] \in Seq(X)
      BY <3>1, <1>0
    <3>3. G[<<q, i>>] = q \o s[i + 1]
      <4> HIDE DEF n, m
      <4>1. <<q, i>> \in Seq(X) \X (1 .. m)
        OBVIOUS
      <4> QED BY <4>1
    <3>4. q \o s[i + 1] \in Seq(X)
      <4> HIDE DEF n, m, G
      <4> QED BY <3>2
    <3> QED BY <3>3, <3>4
  <2>3. \A k \in 1 .. m : \A y : <<y, k - 1>> \in Z => <<G[<<y, k>>], k>> \in Z
    <3> HIDE DEF G, n, m
    <3> SUFFICES ASSUME NEW k \in 1 .. m, NEW y, <<y, k - 1>> \in Z
                 PROVE  <<G[<<y, k>>], k>> \in Z
      OBVIOUS
    <3>1. y \in Seq(X) /\ k \in 0 .. m
      BY <2>0
    <3>2. G[<<y, k>>] \in Seq(X)
      BY <2>2, <3>1
    <3> QED BY <3>1, <3>2
  <2>4. PICK f : Turns(f, m, s[1], G) /\ \A k \in 0 .. m : <<f[k], k>> \in Z
    <3> HIDE DEF G, Z, n, m
    <3> QED BY <2>0, <2>1, <2>3, LoopRuns
  <2> DEFINE h == [i \in 1 .. n |-> f[i - 1]]
  <2>5. h = Body(h)
    <3>1. \A k \in 0 .. m : f[k] = IF k = 0 THEN s[1] ELSE G[<<f[k - 1], k>>]
      BY <2>4 DEF Turns
    <3>2. ASSUME NEW k \in 1 .. n PROVE h[k] = Body(h)[k]
      <4>1. CASE k = 1
        <5>1. k - 1 = 0 /\ 0 \in 0 .. m
          BY <2>0, <4>1
        <5> QED BY <3>1, <5>1, <4>1
      <4>2. CASE k # 1
        <5>1. k - 1 \in 1 .. m /\ k - 1 \in 0 .. m /\ k - 1 # 0 /\ k - 1 \in 1 .. n /\ (k - 1) - 1 \in 0 .. m
              /\ (k - 1) + 1 = k
          BY <2>0, <4>2
        <5>2. f[(k - 1) - 1] \in Seq(X)
          BY <2>4, <5>1
        <5>3. f[k - 1] = G[<<f[(k - 1) - 1], k - 1>>]
          BY <3>1, <5>1
        <5>4. f[k - 1] = f[(k - 1) - 1] \o s[k]
          <6> HIDE DEF G, n, m
          <6> QED BY <2>2, <5>1, <5>2, <5>3
        <5>5. h[k] = f[k - 1] /\ h[k - 1] = f[(k - 1) - 1]
          <6> HIDE DEF n, m
          <6> QED BY <5>1
        <5> HIDE DEF h, n, m
        <5> QED BY <4>2, <5>4, <5>5
      <4> QED BY <4>1, <4>2
    <3>3. h = [k \in 1 .. n |-> h[k]]
      OBVIOUS
    <3>4. Body(h) = [k \in 1 .. n |-> Body(h)[k]]
      <4> HIDE DEF h
      <4> QED OBVIOUS
    <3> QED BY <3>2, <3>3, <3>4
  <2>6. K = Body(K)
    <3> HIDE DEF h
    <3> QED BY <2>5
  <2>7. FlattenSeq(s) = K[n]
    BY <1>b DEF FlattenSeq
  <2> HIDE DEF K
  <2>8. \A k \in 1 .. n : K[k] = IF k = 1 THEN s[k] ELSE K[k - 1] \o s[k]
    BY <2>6
  <2> DEFINE T == {k \in 0 .. m : K[k + 1] \in Seq(X)}
  <2>9. 0 \in T
    <3>1. 0 \in 0 .. m /\ 0 + 1 = 1
      BY <2>0
    <3>2. K[1] \in Seq(X)
      BY <1>0, <2>0, <2>8
    <3> HIDE DEF n, m
    <3> QED BY <3>1, <3>2
  <2>10. ASSUME NEW k \in 1 .. m, k - 1 \in T PROVE k \in T
    <3>1. k + 1 \in 1 .. n /\ k + 1 # 1 /\ (k + 1) - 1 = k /\ (k - 1) + 1 = k /\ k \in 0 .. m
      BY <2>0
    <3>2. K[k] \in Seq(X) /\ s[k + 1] \in Seq(X)
      BY <1>0, <2>10, <3>1
    <3>3. K[k + 1] = K[k] \o s[k + 1]
      BY <2>8, <3>1
    <3>4. K[k] \o s[k + 1] \in Seq(X)
      <4> HIDE DEF K
      <4> QED BY <3>2
    <3> HIDE DEF n, m
    <3> QED BY <3>1, <3>3, <3>4
  <2>11. \A k \in 0 .. m : k \in T
    <3> HIDE DEF T, m, n
    <3> QED BY <2>0, <2>9, <2>10, BoundedInduction
  <2>12. m \in 0 .. m /\ m + 1 = n
    BY <2>0
  <2>13. K[n] \in Seq(X)
    <3> HIDE DEF m, n
    <3> QED BY <2>11, <2>12
  <2> QED BY <2>7, <2>13
<1> QED BY <1>a, <1>b

\* The last of some places in a list.
LEMMA LastPlace ==
  ASSUME NEW n \in Nat, NEW S, S \subseteq 1 .. n, S # {}
  PROVE  Max(S) \in S
<1> DEFINE T == {n - i : i \in S}
<1>1. T \subseteq Nat /\ T # {}
  OBVIOUS
<1>2. PICK k \in T : \A j \in T : k <= j
  BY <1>1, LeastNat
<1>3. PICK m \in S : k = n - m
  BY <1>2
<1>4. \A i \in S : m >= i
  <2> TAKE i \in S
  <2>1. n - i \in T /\ i \in 1 .. n /\ m \in 1 .. n
    BY <1>3
  <2>2. n - m <= n - i
    BY <1>2, <1>3, <2>1
  <2> QED BY <2>1, <2>2
<1>5. \E x \in S : \A y \in S : x >= y
  BY <1>3, <1>4
<1> QED BY <1>5 DEF Max

\* Every value a block may be found to have: on the medium, in the device or on its way.
Copies(b) == {disk[b], dev[b]} \cup pend[b]

\* What the free-space metadata holds, and what a log block may hold: a descriptor names
\* home blocks, and its copy of the metadata says that the volume is in use.
SbType == [bm : SUBSET PoolSet, rec : BOOLEAN]
TagOk(tag) == tag.blk \in Home /\ (tag.blk = Sb => tag.data \in SbType /\ tag.data.rec)
RecOk(r) == Type(r) = "desc" => /\ Items(r) = [i \in 1 .. Len(Items(r)) |-> Items(r)[i]] /\ Len(Items(r)) \in Nat
                                /\ \A i \in DOMAIN Items(r) : TagOk(Items(r)[i])

\* The metadata's home block and the log hold what they may, in every copy.
MediaInv ==
  /\ disk = [b \in Blocks |-> disk[b]] /\ dev = [b \in Blocks |-> dev[b]]
  /\ pend = [b \in Blocks |-> pend[b]]
  /\ Copies(Sb) \subseteq SbType
  /\ \A b \in LogBlks : \A r \in Copies(b) : RecOk(r)

\* Whatever the power leaves: a clear flag comes with an empty journal.
FlagSafe == (\E r \in Copies(Sb) : ~ r.rec) => \A j \in Copies(Jsb) : j.start = 0
AllRec == \A r \in Copies(Sb) : r.rec

\* A write that neither clears the flag nor touches the journal's tail.
Quiet(w) ==
  /\ w.blk # Jsb
  /\ w.blk = Sb => w.data \in SbType /\ w.data.rec
  /\ w.blk \in LogBlks => RecOk(w.data)

Going == {"settled", "logging", "logged", "recorded", "committed"}
Ending == {"closing", "tailless", "unflagged"}
Stepping == {"off", "dead", "replayed", "emptied", "cleared", "marking"}

\* The cache and the transaction are about home blocks.
MemInv ==
  /\ mem = [b \in Home |-> mem[b]] /\ mem[Sb] \in SbType
  /\ txn.bufs \subseteq Home /\ dirty \subseteq PoolSet /\ jnl.head \in Nat
  /\ jnl = [head |-> jnl.head, seq |-> jnl.seq, start |-> jnl.start]
  /\ inUse \in BOOLEAN

\* A volume that is in use in memory says so in every copy of its metadata, and nothing
\* is logged on any other.
UseInv ==
  /\ inUse /\ st # "unflagged" => mem[Sb].rec /\ AllRec
  /\ st = "marking" => mem[Sb].rec /\ dev[Sb].rec
  /\ st \in Going \ {"settled"} => inUse
  /\ st \in Stepping => ~ inUse
  /\ ~ inUse => txn = NoTxn

\* The tail in memory is the one the device has, and it is empty around the clearing of
\* the flag, which only a sync or an unmount with an empty transaction reaches.
TailInv ==
  /\ st \in Stepping \cup Going \cup Ending \cup {"idle"}
  /\ st \notin {"off", "dead"} => dev[Jsb].start = jnl.start
  /\ st \in {"emptied", "cleared", "tailless", "unflagged"} => jnl.start = 0
  /\ st \in Ending => txn = NoTxn /\ caller \in {"sync", "unmount"}
  /\ st \in Going => caller \in {"op", "sync", "unmount"}

\* The observer's record is what a mount would recover, and the rest holds until a sync
\* failed between clearing the flag in memory and writing it.
FoundInv == found = [home |-> Recovered(disk), view |-> View(Recovered(disk))]
Rest == MediaInv /\ FlagSafe /\ MemInv /\ UseInv /\ TailInv
FlagInv == FoundInv /\ (lost \/ Rest)

-----------------------------------------------------------------------------
(* The device. *)

LEMMA BlockFacts ==
  /\ Home \subseteq Blocks /\ LogBlks \subseteq Blocks /\ Jsb \in Blocks
  /\ Sb \in Home /\ Inode \in Home /\ PoolSet \subseteq Home /\ Sb \notin PoolSet /\ Inode \notin PoolSet
  /\ Sb # Inode /\ Jsb \notin Home /\ Jsb \notin Nat /\ Home \cap Nat = {}
  /\ LogBlks \subseteq Nat /\ HomeSeq \in Seq(Home) /\ IsFiniteSet(Home)
<1> DEFINE X == {Sb, Inode} \cup PoolSet
<1>1. <<Sb, Inode>> \in Seq(X)
  OBVIOUS
<1>2. Pool \in Seq(X)
  BY LogAssumption
<1>3. HomeSeq \in Seq(X) /\ Len(HomeSeq) = Len(Pool) + 2 /\ HomeSeq[1] = Sb /\ HomeSeq[2] = Inode
      /\ \A i \in 1 .. Len(Pool) : HomeSeq[i + 2] = Pool[i]
  <2> HIDE DEF X
  <2> QED BY <1>1, <1>2 DEF HomeSeq
<1>4. DOMAIN HomeSeq = 1 .. Len(HomeSeq) /\ Len(Pool) \in Nat /\ DOMAIN Pool = 1 .. Len(Pool)
  BY <1>2, <1>3
<1>5. ToSet(HomeSeq) \subseteq X
  BY <1>3, <1>4 DEF ToSet
<1>6. Sb \in ToSet(HomeSeq) /\ Inode \in ToSet(HomeSeq)
  BY <1>3, <1>4 DEF ToSet
<1>7. ASSUME NEW b \in PoolSet PROVE b \in ToSet(HomeSeq)
  <2>1. PICK i \in 1 .. Len(Pool) : Pool[i] = b
    BY <1>4 DEF PoolSet, ToSet
  <2>2. i + 2 \in DOMAIN HomeSeq
    BY <1>3, <1>4
  <2> QED BY <1>3, <2>1, <2>2 DEF ToSet
<1>8. Home = X
  BY <1>5, <1>6, <1>7 DEF Home
<1>9. IsFiniteSet(Home)
  <2>1. IsFiniteSet(1 .. Len(HomeSeq))
    BY <1>3, <1>4, FS_Interval
  <2>2. HomeSeq \in Surjection(1 .. Len(HomeSeq), Home)
    <3>1. Home = {HomeSeq[i] : i \in 1 .. Len(HomeSeq)}
      BY <1>4 DEF Home, ToSet
    <3>2. HomeSeq \in [1 .. Len(HomeSeq) -> Home]
      BY <1>3, <1>4, <3>1
    <3> QED BY <3>1, <3>2 DEF Surjection
  <2> QED BY <2>1, <2>2, FS_Surjection
<1>10. LogBlks \subseteq Nat
  BY LogAssumption DEF LogBlks, First
<1> HIDE DEF X
<1>11. HomeSeq \in Seq(Home)
  BY <1>3, <1>8
<1>12. /\ Jsb \notin Home /\ Jsb \notin Nat /\ Home \cap Nat = {} /\ Sb # Inode
       /\ Sb \notin PoolSet /\ Inode \notin PoolSet
  BY LogAssumption
<1>13. Sb \in Home /\ Inode \in Home /\ PoolSet \subseteq Home
  BY <1>8 DEF X
<1> QED BY <1>9, <1>10, <1>11, <1>12, <1>13 DEF Blocks

LEMMA OverlayValue ==
  ASSUME NEW X, NEW ws \in Seq(X), NEW medium, NEW b \in DOMAIN medium
  PROVE  \/ Overlay(ws, medium)[b] = medium[b] /\ Written(ws, b) = {}
         \/ Overlay(ws, medium)[b] \in Written(ws, b)
<1>1. DOMAIN ws = 1 .. Len(ws) /\ Len(ws) \in Nat
  OBVIOUS
<1>2. To(ws, b) \subseteq 1 .. Len(ws)
  BY <1>1 DEF To
<1>3. CASE To(ws, b) = {}
  BY <1>3 DEF Overlay, Written
<1>4. CASE To(ws, b) # {}
  <2>1. Max(To(ws, b)) \in To(ws, b)
    BY <1>1, <1>2, <1>4, LastPlace
  <2>2. Overlay(ws, medium)[b] = ws[Max(To(ws, b))].data
    BY <1>4 DEF Overlay
  <2> QED BY <2>1, <2>2 DEF Written
<1> QED BY <1>3, <1>4

\* What is written comes from the list.
LEMMA WrittenFrom ==
  ASSUME NEW X, NEW ws \in Seq(X), NEW b, NEW r \in Written(ws, b)
  PROVE  \E w \in X : w.blk = b /\ w.data = r
<1>1. PICK i \in DOMAIN ws : ws[i].blk = b /\ ws[i].data = r
  BY DEF Written, To
<1>2. ws[i] \in X
  OBVIOUS
<1> QED BY <1>1, <1>2

MediaShape ==
  /\ disk = [b \in Blocks |-> disk[b]] /\ dev = [b \in Blocks |-> dev[b]]
  /\ pend = [b \in Blocks |-> pend[b]]

LEMMA Issued ==
  ASSUME NEW X, NEW ws \in Seq(X), MediaShape, Send(ws) \/ Barrier(ws)
  PROVE  /\ MediaShape'
         /\ \A b \in Blocks :
              /\ Copies(b)' \subseteq Copies(b) \cup Written(ws, b)
              /\ Barrier(ws) => Copies(b)' \subseteq {dev[b]} \cup Written(ws, b)
              /\ (dev'[b] = dev[b] /\ Written(ws, b) = {}) \/ dev'[b] \in Written(ws, b)
<1>1. dev' = Overlay(ws, dev) /\ DOMAIN dev = Blocks /\ DOMAIN pend = Blocks /\ DOMAIN disk = Blocks
  BY DEF Send, Barrier, Write, FlushThenWrite, MediaShape
<1>2. dev' = [b \in Blocks |-> dev'[b]]
  BY <1>1 DEF Overlay
<1>3. \A b \in Blocks : (dev'[b] = dev[b] /\ Written(ws, b) = {}) \/ dev'[b] \in Written(ws, b)
  BY <1>1, OverlayValue
<1>4. CASE Send(ws)
  <2>1. disk' = disk /\ pend' = [b \in Blocks |-> pend[b] \cup Written(ws, b)]
    BY <1>1, <1>4 DEF Send, Write
  <2>2. \A b \in Blocks : pend'[b] = pend[b] \cup Written(ws, b)
    BY <2>1
  <2>3. MediaShape'
    BY <1>2, <2>1 DEF MediaShape
  <2>4. \A b \in Blocks : Copies(b)' \subseteq Copies(b) \cup Written(ws, b)
    BY <1>3, <2>1, <2>2 DEF Copies
  <2>5. ASSUME NEW b \in Blocks, Barrier(ws) PROVE Copies(b)' \subseteq {dev[b]} \cup Written(ws, b)
    <3>1. disk' = dev /\ pend' = [c \in Blocks |-> Written(ws, c)]
      BY <1>1, <2>5 DEF Barrier, FlushThenWrite
    <3>2. disk'[b] = dev[b] /\ pend'[b] = Written(ws, b)
      BY <3>1
    <3> QED BY <1>3, <3>2 DEF Copies
  <2> QED BY <1>3, <2>3, <2>4, <2>5
<1>5. CASE Barrier(ws)
  <2>1. disk' = dev /\ pend' = [b \in Blocks |-> Written(ws, b)]
    BY <1>1, <1>5 DEF Barrier, FlushThenWrite
  <2>2. \A b \in Blocks : disk'[b] = dev[b] /\ pend'[b] = Written(ws, b)
    BY <2>1
  <2>3. MediaShape'
    BY <1>2, <2>1 DEF MediaShape
  <2>4. \A b \in Blocks : Copies(b)' \subseteq {dev[b]} \cup Written(ws, b)
    BY <1>3, <2>2 DEF Copies
  <2>5. \A b \in Blocks : dev[b] \in Copies(b)
    BY DEF Copies
  <2> QED BY <1>3, <2>3, <2>4, <2>5
<1> QED BY <1>4, <1>5

\* Quiet writes change nothing about the flag and the tail.
LEMMA QuietWrites ==
  ASSUME NEW X, \A w \in X : Quiet(w), NEW ws \in Seq(X), MediaInv, FlagSafe, Send(ws) \/ Barrier(ws)
  PROVE  /\ MediaInv' /\ FlagSafe' /\ (AllRec => AllRec') /\ dev'[Jsb] = dev[Jsb]
         /\ dev[Sb].rec => dev'[Sb].rec
         /\ Barrier(ws) /\ dev[Sb].rec => AllRec'
<1>1. MediaShape
  BY DEF MediaShape, MediaInv
<1>2. /\ MediaShape'
      /\ \A b \in Blocks :
           /\ Copies(b)' \subseteq Copies(b) \cup Written(ws, b)
           /\ Barrier(ws) => Copies(b)' \subseteq {dev[b]} \cup Written(ws, b)
           /\ (dev'[b] = dev[b] /\ Written(ws, b) = {}) \/ dev'[b] \in Written(ws, b)
  BY <1>1, Issued
<1>3. Written(ws, Jsb) = {}
  BY WrittenFrom DEF Quiet
<1>4. \A r \in Written(ws, Sb) : r \in SbType /\ r.rec
  BY WrittenFrom DEF Quiet
<1>5. \A b \in LogBlks : \A r \in Written(ws, b) : RecOk(r)
  BY WrittenFrom DEF Quiet
<1>6. MediaInv'
  <2>1. (Copies(Sb) \subseteq SbType)'
    <3>1. Copies(Sb)' \subseteq Copies(Sb) \cup Written(ws, Sb)
      BY <1>2, BlockFacts
    <3> QED BY <1>4, <3>1 DEF MediaInv
  <2>2. (\A b \in LogBlks : \A r \in Copies(b) : RecOk(r))'
    <3>1. \A b \in LogBlks : Copies(b)' \subseteq Copies(b) \cup Written(ws, b)
      BY <1>2, BlockFacts
    <3> QED BY <1>5, <3>1 DEF MediaInv
  <2> QED BY <1>2, <2>1, <2>2 DEF MediaInv, MediaShape
<1>7. Copies(Jsb)' \subseteq Copies(Jsb) /\ Copies(Sb)' \subseteq Copies(Sb) \cup Written(ws, Sb)
      /\ dev'[Jsb] = dev[Jsb]
  BY <1>2, <1>3, BlockFacts
<1>8. FlagSafe' /\ (AllRec => AllRec')
  BY <1>4, <1>7 DEF FlagSafe, AllRec
<1>9. /\ dev'[Sb] = dev[Sb] \/ dev'[Sb] \in Written(ws, Sb)
      /\ Barrier(ws) => Copies(Sb)' \subseteq {dev[Sb]} \cup Written(ws, Sb)
  BY <1>2, BlockFacts
<1> QED BY <1>4, <1>6, <1>7, <1>8, <1>9 DEF AllRec

-----------------------------------------------------------------------------
(* What a commit writes. *)

Harmless(ws) == \E X : ws \in Seq(X) /\ \A w \in X : Quiet(w)

LEMMA HarmlessBy ==
  ASSUME NEW ws, NEW X, ws \in Seq(X), \A w \in X : Quiet(w)
  PROVE  Harmless(ws)
BY DEF Harmless

\* A list is cut by the first fault.
LEMMA PrefixHarmless ==
  ASSUME NEW ws, Harmless(ws), NEW k \in 0 .. Len(ws)
  PROVE  Harmless(SubSeq(ws, 1, k))
<1>1. PICK X : ws \in Seq(X) /\ \A w \in X : Quiet(w)
  BY DEF Harmless
<1>2. SubSeq(ws, 1, k) \in Seq(X)
  BY <1>1
<1> QED BY <1>1, <1>2 DEF Harmless

LEMMA OneHarmless ==
  ASSUME NEW w, Quiet(w)
  PROVE  Harmless(<<w>>)
<1> DEFINE X == {w}
<1>1. <<w>> \in Seq(X) /\ \A v \in X : Quiet(v)
  OBVIOUS
<1> HIDE DEF X
<1> QED BY <1>1, HarmlessBy

LEMMA NothingHarmless == Harmless(<<>>)
<1> DEFINE X == {}
<1>1. <<>> \in Seq(X) /\ \A v \in X : Quiet(v)
  OBVIOUS
<1> HIDE DEF X
<1> QED BY <1>1, HarmlessBy

LEMMA SortedList ==
  ASSUME NEW blks
  PROVE  Sorted(blks) \in Seq(Home \cap blks)
BY BlockFacts, KeptRange DEF Sorted

LEMMA HomeHarmless ==
  ASSUME MemInv, NEW blks, Sb \in blks => mem[Sb].rec
  PROVE  Harmless(HomeWrites(blks))
<1> DEFINE V == {W(b, mem[b]) : b \in Home \cap blks}
           bufs == Sorted(blks)
<1>1. bufs \in Seq(Home \cap blks) /\ DOMAIN bufs = 1 .. Len(bufs) /\ Len(bufs) \in Nat
  BY SortedList
<1>2. HomeWrites(blks) = [i \in 1 .. Len(bufs) |-> W(bufs[i], mem[bufs[i]])]
  BY <1>1 DEF HomeWrites
<1> HIDE DEF bufs
<1>3. \A i \in 1 .. Len(bufs) : W(bufs[i], mem[bufs[i]]) \in V
  BY <1>1
<1>4. ASSUME NEW w \in V PROVE Quiet(w)
  <2>1. PICK b \in Home \cap blks : w = [blk |-> b, data |-> mem[b]]
    BY DEF W
  <2>2. b # Jsb /\ b \notin LogBlks
    BY BlockFacts
  <2> QED BY <2>1, <2>2 DEF Quiet, MemInv
<1> HIDE DEF V
<1>5. HomeWrites(blks) \in Seq(V)
  BY <1>1, <1>2, <1>3
<1> QED BY <1>4, <1>5 DEF Harmless

LEMMA DescCount ==
  ASSUME NEW n \in Nat
  PROVE  NDesc(n) \in Nat
<1>1. Tpd \in Nat /\ Tpd > 0 /\ n + Tpd - 1 \in Nat
  BY LogAssumption
<1> QED BY <1>1 DEF NDesc

\* A descriptor group: its tags name home blocks, and its metadata is in use.
LEMMA GroupOk ==
  ASSUME MemInv, mem[Sb].rec, NEW seq, NEW tags \in Seq(Home)
  PROVE  \E V : Group(seq, tags, mem) \in Seq(V) /\ \A r \in V : RecOk(r)
<1> DEFINE n == Len(tags)
           items == [i \in 1 .. n |-> W(tags[i], mem[tags[i]])]
           d == Rec("desc", seq, items)
           c == [i \in 1 .. n |-> Rec("data", 0, <<mem[tags[i]]>>)]
           D == {Rec("data", 0, <<mem[tags[i]]>>) : i \in 1 .. n}
           V == {d} \cup D
<1>1. DOMAIN tags = 1 .. n /\ n \in Nat /\ \A i \in 1 .. n : tags[i] \in Home
  OBVIOUS
<1>2. Group(seq, tags, mem) = <<d>> \o c
  BY <1>1 DEF Group
<1>3. c \in Seq(D)
  <2> HIDE DEF n
  <2>1. \A i \in 1 .. n : Rec("data", 0, <<mem[tags[i]]>>) \in D
    OBVIOUS
  <2> HIDE DEF D
  <2> QED BY <1>1, <2>1
<1>4. <<d>> \o c \in Seq(V)
  <2> HIDE DEF d, c, D
  <2> QED BY <1>3
<1>5. RecOk(d)
  <2>1. Items(d) = items
    BY DEF Rec, Items
  <2>2. \A i \in 1 .. n : TagOk(items[i])
    BY <1>1 DEF TagOk, W, MemInv
  <2>3. Len(items) = n /\ DOMAIN items = 1 .. n /\ items = [i \in 1 .. n |-> items[i]]
    <3> HIDE DEF n
    <3> QED BY <1>1
  <2> HIDE DEF items
  <2> QED BY <1>1, <2>1, <2>2, <2>3 DEF RecOk
<1>6. \A r \in D : RecOk(r)
  BY DEF RecOk, Rec, Type
<1> QED BY <1>2, <1>4, <1>5, <1>6

\* The part of the buffers that the tags of a group take.
LEMMA TagsList ==
  ASSUME NEW X, NEW bufs \in Seq(X), NEW a \in Nat \ {0}, NEW b \in Nat
  PROVE  SubSeq(bufs, a, Min({b, Len(bufs)})) \in Seq(X)
<1>1. Len(bufs) \in Nat /\ \A i \in 1 .. Len(bufs) : bufs[i] \in X
  OBVIOUS
<1>2. Min({b, Len(bufs)}) \in {b, Len(bufs)} /\ Min({b, Len(bufs)}) <= Len(bufs)
  <2>1. \E x \in {b, Len(bufs)} : \A y \in {b, Len(bufs)} : x =< y
    BY <1>1
  <2> QED BY <2>1 DEF Min
<1> DEFINE m == Min({b, Len(bufs)})
<1> HIDE DEF m
<1>3. m \in Nat /\ m <= Len(bufs)
  BY <1>1, <1>2 DEF m
<1>4. SubSeq(bufs, a, m) \in Seq(X)
  BY <1>1, <1>3
<1> QED BY <1>4 DEF m

LEMMA TxnOk ==
  ASSUME MemInv, mem[Sb].rec, NEW seq, NEW blks, NEW revokes
  PROVE  \E V : TxnBlocks(seq, blks, revokes, mem) \in Seq(V) /\ \A r \in V : RecOk(r)
<1> DEFINE bufs == Sorted(blks)
           N == NDesc(Len(bufs))
           Tags(g) == SubSeq(bufs, (g - 1) * Tpd + 1, Min({g * Tpd, Len(bufs)}))
           gs == [g \in 1 .. N |-> Group(seq, Tags(g), mem)]
           U == UNION {ToSet(gs[g]) : g \in 1 .. N}
           R == Rec("revoke", seq, <<revokes>>)
           lead == IF revokes = {} THEN <<>> ELSE <<R>>
           V == {R} \cup U
<1>1. bufs \in Seq(Home) /\ Len(bufs) \in Nat
  <2>1. bufs \in Seq(Home \cap blks)
    BY SortedList
  <2> HIDE DEF bufs
  <2> QED BY <2>1
<1>2. N \in Nat
  BY <1>1, DescCount
<1> HIDE DEF N, bufs
<1>3. ASSUME NEW g \in 1 .. N
      PROVE  gs[g] \in Seq(ToSet(gs[g])) /\ \A r \in ToSet(gs[g]) : RecOk(r)
  <2>1. Tpd \in Nat /\ g \in Nat /\ g - 1 \in Nat
    BY LogAssumption, <1>2
  <2>2. (g - 1) * Tpd \in Nat /\ g * Tpd \in Nat
    BY <2>1
  <2>3. Tags(g) \in Seq(Home)
    BY <1>1, <2>2, TagsList
  <2> HIDE DEF Tags
  <2>4. PICK T : Group(seq, Tags(g), mem) \in Seq(T) /\ \A r \in T : RecOk(r)
    BY <2>3, GroupOk
  <2>5. gs[g] \in Seq(T)
    BY <2>4
  <2> HIDE DEF gs
  <2>6. \A r \in ToSet(gs[g]) : r \in T
    BY <2>5 DEF ToSet
  <2>7. gs[g] \in Seq(ToSet(gs[g]))
    BY <2>5 DEF ToSet
  <2> QED BY <2>4, <2>6, <2>7
<1>4. gs \in Seq(Seq(U))
  <2>1. \A g \in 1 .. N : gs[g] \in Seq(U)
    <3> TAKE g \in 1 .. N
    <3>1. gs[g] \in Seq(ToSet(gs[g])) /\ ToSet(gs[g]) \subseteq U
      <4> HIDE DEF gs
      <4> QED BY <1>3
    <3> HIDE DEF gs, U
    <3> QED BY <3>1
  <2>2. gs = [g \in 1 .. N |-> gs[g]]
    OBVIOUS
  <2> HIDE DEF gs, U
  <2> QED BY <1>2, <2>1, <2>2
<1>5. FlattenSeq(gs) \in Seq(U)
  <2> HIDE DEF gs, U
  <2> QED BY <1>4, FlattenRange
<1>6. TxnBlocks(seq, blks, revokes, mem) = lead \o FlattenSeq(gs)
  BY DEF TxnBlocks, bufs, N
<1>7. lead \o FlattenSeq(gs) \in Seq(V)
  <2> HIDE DEF gs, U, R
  <2>1. lead \in Seq(V)
    <3>1. R \in V
      OBVIOUS
    <3> HIDE DEF V
    <3>2. <<R>> \in Seq(V) /\ <<>> \in Seq(V)
      BY <3>1
    <3> QED BY <3>2
  <2>2. FlattenSeq(gs) \in Seq(V)
    BY <1>5
  <2> HIDE DEF lead, V
  <2> QED BY <2>1, <2>2
<1>8. ASSUME NEW r \in V PROVE RecOk(r)
  <2>1. CASE r = R
    BY <2>1 DEF Rec, RecOk, Type
  <2>2. CASE r \in U
    <3> HIDE DEF gs
    <3> QED BY <2>2, <1>3
  <2> HIDE DEF U, R
  <2> QED BY <2>1, <2>2
<1> HIDE DEF V, gs, lead
<1> QED BY <1>6, <1>7, <1>8

\* The log blocks of a transaction, wherever they are put.
LEMMA LogHarmless ==
  ASSUME MemInv, mem[Sb].rec, NEW pos \in Nat, NEW seq, NEW blks, NEW revokes
  PROVE  Harmless(At(pos, TxnBlocks(seq, blks, revokes, mem)))
<1> DEFINE t == TxnBlocks(seq, blks, revokes, mem)
           n == Len(t)
           X == {W(pos + i - 1, t[i]) : i \in 1 .. n}
<1>1. PICK V : t \in Seq(V) /\ \A r \in V : RecOk(r)
  BY TxnOk
<1> HIDE DEF t
<1>2. n \in Nat /\ DOMAIN t = 1 .. n /\ \A i \in 1 .. n : RecOk(t[i])
  BY <1>1
<1>3. At(pos, t) = [i \in 1 .. n |-> W(pos + i - 1, t[i])]
  BY <1>2 DEF At
<1> HIDE DEF n
<1>4. \A i \in 1 .. n : W(pos + i - 1, t[i]) \in X
  OBVIOUS
<1>5. ASSUME NEW w \in X PROVE Quiet(w)
  <2>1. PICK i \in 1 .. n : w = [blk |-> pos + i - 1, data |-> t[i]]
    BY DEF W
  <2>2. pos + i - 1 \in Nat
    BY <1>2
  <2>3. w.blk # Jsb /\ w.blk # Sb
    BY <2>1, <2>2, BlockFacts
  <2> QED BY <1>2, <2>1, <2>3 DEF Quiet
<1> HIDE DEF X
<1>6. At(pos, t) \in Seq(X)
  BY <1>2, <1>3, <1>4
<1> QED BY <1>5, <1>6, HarmlessBy DEF t

-----------------------------------------------------------------------------
(* What recovery writes. *)

\* The passes' walk exists: each turn starts from the one before.
LEMMA WalkExists ==
  ASSUME NEW medium
  PROVE  /\ Walk(medium)[0] = [blk |-> medium[Jsb].start, next |-> medium[Jsb].seq, seen |-> <<>>, end |-> FALSE]
         /\ \A k \in 1 .. 2 * MaxLen + 1 : Walk(medium)[k] = Turn(medium, Walk(medium)[k - 1])
<1> DEFINE n == 2 * MaxLen + 1
           y0 == [blk |-> medium[Jsb].start, next |-> medium[Jsb].seq, seen |-> <<>>, end |-> FALSE]
           Body(f, m) == [k \in 0 .. m |-> IF k = 0 THEN y0 ELSE CHOOSE y \in {Turn(medium, x) : x \in {f[k - 1]}} : TRUE]
           Fine(m) == \E f : f = Body(f, m)
           T == {m \in Nat : Fine(m)}
           K == Walk(medium)
<1>0. n \in Nat
  BY LogAssumption
<1>1. 0 \in T
  <2>1. [k \in 0 .. 0 |-> y0] = Body([k \in 0 .. 0 |-> y0], 0)
    OBVIOUS
  <2>2. Fine(0)
    BY <2>1
  <2> HIDE DEF Fine
  <2> QED BY <2>2
<1>2. ASSUME NEW m \in Nat, m \in T PROVE m + 1 \in T
  <2>1. PICK f : f = Body(f, m)
    BY <1>2
  <2> DEFINE v == CHOOSE y \in {Turn(medium, x) : x \in {f[m]}} : TRUE
             g == [k \in 0 .. m + 1 |-> IF k = m + 1 THEN v ELSE f[k]]
  <2>2. ASSUME NEW k \in 0 .. m + 1 PROVE g[k] = Body(g, m + 1)[k]
    <3>1. CASE k = m + 1
      <4>1. g[k] = v /\ g[k - 1] = f[m] /\ k # 0
        BY <3>1
      <4>2. Body(g, m + 1)[k] = CHOOSE y \in {Turn(medium, x) : x \in {g[k - 1]}} : TRUE
        BY <4>1
      <4> HIDE DEF g, Body
      <4> QED BY <4>1, <4>2
    <3>2. CASE k # m + 1 /\ k # 0
      <4>1. k \in 0 .. m /\ g[k] = f[k] /\ g[k - 1] = f[k - 1]
        BY <3>2
      <4>2. f[k] = CHOOSE y \in {Turn(medium, x) : x \in {f[k - 1]}} : TRUE
        BY <2>1, <4>1, <3>2
      <4>3. Body(g, m + 1)[k] = CHOOSE y \in {Turn(medium, x) : x \in {g[k - 1]}} : TRUE
        BY <3>2
      <4> HIDE DEF g, Body
      <4> QED BY <4>1, <4>2, <4>3
    <3>3. CASE k = 0
      <4>1. f[0] = y0
        BY <2>1
      <4> QED BY <4>1, <3>3
    <3> QED BY <3>1, <3>2, <3>3
  <2>3. g = Body(g, m + 1)
    <3>1. g = [k \in 0 .. m + 1 |-> g[k]]
      OBVIOUS
    <3>2. Body(g, m + 1) = [k \in 0 .. m + 1 |-> Body(g, m + 1)[k]]
      <4> HIDE DEF g
      <4> QED OBVIOUS
    <3> QED BY <2>2, <3>1, <3>2
  <2>4. Fine(m + 1)
    <3> HIDE DEF g
    <3> QED BY <2>3
  <2> HIDE DEF Fine
  <2> QED BY <2>4
<1>3. Fine(n)
  <2> HIDE DEF Fine, n
  <2>1. \A m \in Nat : m \in T
    <3> HIDE DEF T
    <3> QED BY <1>1, <1>2, SetInduction
  <2> QED BY <2>1, <1>0
<1>4. K = Body(K, n)
  <2>1. K = CHOOSE g : g = Body(g, n)
    BY DEF Walk
  <2> QED BY <1>3, <2>1
<1> HIDE DEF K
<1>5. \A k \in 0 .. n : K[k] = IF k = 0 THEN y0 ELSE CHOOSE y \in {Turn(medium, x) : x \in {K[k - 1]}} : TRUE
  BY <1>4
<1>6. \A y : (CHOOSE z \in {Turn(medium, x) : x \in {y}} : TRUE) = Turn(medium, y)
  OBVIOUS
<1>7. 0 \in 0 .. n /\ \A k \in 1 .. n : k \in 0 .. n /\ k # 0
  BY <1>0
<1>8. K[0] = y0 /\ \A k \in 1 .. n : K[k] = Turn(medium, K[k - 1])
  <2> HIDE DEF n, y0
  <2> QED BY <1>5, <1>6, <1>7
<1> QED BY <1>8 DEF K

\* The accepted blocks are a list.
LEMMA SeenIsList ==
  ASSUME NEW medium
  PROVE  \E X : Scan(medium).seen \in Seq(X)
<1> DEFINE n == 2 * MaxLen + 1
           K == Walk(medium)
           X == {K[k].blk : k \in 0 .. n}
           Shape(y) == y = [blk |-> y.blk, next |-> y.next, seen |-> y.seen, end |-> y.end] /\ y.seen \in Seq(X)
           T == {k \in 0 .. n : Shape(K[k])}
<1>0. n \in Nat
  BY LogAssumption
<1>1. /\ K[0] = [blk |-> medium[Jsb].start, next |-> medium[Jsb].seq, seen |-> <<>>, end |-> FALSE]
      /\ \A k \in 1 .. n : K[k] = Turn(medium, K[k - 1])
  BY WalkExists
<1> HIDE DEF n, K
<1>2. 0 \in T
  <2>1. Shape(K[0])
    <3> HIDE DEF X
    <3> QED BY <1>1
  <2> HIDE DEF Shape
  <2> QED BY <1>0, <2>1
<1>3. ASSUME NEW k \in 1 .. n, k - 1 \in T PROVE k \in T
  <2> DEFINE y == K[k - 1]
  <2>1. k \in 0 .. n /\ k - 1 \in 0 .. n
    BY <1>0
  <2>2. y.blk \in X
    BY <2>1
  <2>3. Shape(y)
    BY <1>3
  <2>4. K[k] = Turn(medium, y)
    BY <1>1
  <2> HIDE DEF X, y
  <2>5. Append(y.seen, y.blk) \in Seq(X)
    BY <2>2, <2>3
  <2>6. \/ K[k] = [y EXCEPT !.end = TRUE]
        \/ \E m, q : K[k] = [y EXCEPT !.blk = m, !.next = q, !.seen = Append(@, y.blk)]
    BY <2>4 DEF Turn
  <2>7. Shape(K[k])
    <3>1. CASE K[k] = [y EXCEPT !.end = TRUE]
      <4>1. K[k] = [blk |-> y.blk, next |-> y.next, seen |-> y.seen, end |-> TRUE]
        BY <2>3, <3>1
      <4> QED BY <2>3, <4>1
    <3>2. CASE \E m, q : K[k] = [y EXCEPT !.blk = m, !.next = q, !.seen = Append(@, y.blk)]
      <4>1. PICK m, q : K[k] = [y EXCEPT !.blk = m, !.next = q, !.seen = Append(@, y.blk)]
        BY <3>2
      <4>2. K[k] = [blk |-> m, next |-> q, seen |-> Append(y.seen, y.blk), end |-> y.end]
        BY <2>3, <4>1
      <4> QED BY <2>5, <4>2
    <3> QED BY <2>6, <3>1, <3>2
  <2> HIDE DEF Shape
  <2> QED BY <2>1, <2>7
<1>4. \A k \in 0 .. n : k \in T
  <2> HIDE DEF T
  <2> QED BY <1>0, <1>2, <1>3, BoundedInduction
<1>5. n \in 0 .. n
  BY <1>0
<1>6. K[n].seen \in Seq(X)
  <2> HIDE DEF X
  <2> QED BY <1>4, <1>5
<1>7. Scan(medium) = K[n]
  BY DEF Scan, K, n
<1> HIDE DEF X
<1> QED BY <1>6, <1>7

\* The copies a replay takes from descriptors that name home blocks.
LEMMA ReplayHarmless ==
  ASSUME NEW medium, \A b \in LogBlks : RecOk(medium[b])
  PROVE  Harmless(ReplayWrites(medium))
<1> DEFINE log == Complete(medium, Scan(medium))
           D == {p \in LogBlks : Type(medium[p]) = "desc"}
           descs == Kept(log, D)
           V == {t \in UNION {{Items(medium[p])[i] : i \in DOMAIN Items(medium[p])} : p \in D} : TagOk(t)}
           rs == [i \in DOMAIN descs |-> Replay(medium, log, descs[i])]
<1>1. ReplayWrites(medium) = ReplayLog(medium, log)
  BY DEF ReplayWrites
<1>2. PICK X : log \in Seq(X)
  <2>1. PICK X : Scan(medium).seen \in Seq(X)
    BY SeenIsList
  <2> DEFINE c == {p \in LogBlks : SeqOfRec(medium[p]) < Scan(medium).next}
  <2>2. Complete(medium, Scan(medium)) = Kept(Scan(medium).seen, c)
    BY DEF Complete
  <2> HIDE DEF c
  <2> DEFINE Y == X \cap c
  <2>3. log \in Seq(Y)
    BY <2>1, <2>2, KeptRange
  <2> HIDE DEF log, Y
  <2> QED BY <2>3
<1> HIDE DEF log
<1>3. descs \in Seq(X \cap D)
  <2> HIDE DEF D
  <2> QED BY <1>2, KeptRange
<1>4. ASSUME NEW p \in D PROVE Replay(medium, log, p) \in Seq(V)
  <2> DEFINE tags == Items(medium[p])
             idx == [i \in DOMAIN tags |-> i]
             Good(i) == /\ ~ Revoked(medium, log, tags[i].blk, SeqOfRec(medium[p]))
                        /\ medium[JWrap(p + i)] = Rec("data", 0, <<tags[i].data>>)
             keep == {i \in DOMAIN tags : Good(i)}
             good == Kept(idx, keep)
  <2>1. DOMAIN tags = 1 .. Len(tags) /\ Len(tags) \in Nat /\ \A i \in DOMAIN tags : TagOk(tags[i])
    BY DEF RecOk
  <2>2. \A i \in DOMAIN tags : tags[i] \in V
    <3> TAKE i \in DOMAIN tags
    <3>1. tags[i] \in {Items(medium[p])[j] : j \in DOMAIN Items(medium[p])}
      OBVIOUS
    <3>2. tags[i] \in UNION {{Items(medium[q])[j] : j \in DOMAIN Items(medium[q])} : q \in D}
      <4> HIDE DEF D, tags
      <4> QED BY <3>1
    <3> QED BY <2>1, <3>2
  <2>3. Replay(medium, log, p) = [i \in DOMAIN good |-> tags[good[i]]]
    BY DEF Replay
  <2> HIDE DEF tags, keep, V
  <2>4. idx \in Seq(DOMAIN tags)
    BY <2>1
  <2>5. good \in Seq(DOMAIN tags \cap keep)
    <3> HIDE DEF idx
    <3> QED BY <2>4, KeptRange
  <2> HIDE DEF good
  <2>6. DOMAIN good = 1 .. Len(good) /\ Len(good) \in Nat /\ \A i \in 1 .. Len(good) : tags[good[i]] \in V
    BY <2>2, <2>5
  <2> QED BY <2>3, <2>6
<1>5. \A v \in V : Quiet(v)
  BY BlockFacts DEF TagOk, Quiet
<1>6. rs \in Seq(Seq(V))
  <2> HIDE DEF V, D, descs
  <2>1. DOMAIN descs = 1 .. Len(descs) /\ Len(descs) \in Nat /\ \A i \in 1 .. Len(descs) : descs[i] \in D
    BY <1>3
  <2>2. \A i \in 1 .. Len(descs) : Replay(medium, log, descs[i]) \in Seq(V)
    BY <1>4, <2>1
  <2> QED BY <2>1, <2>2
<1>7. ReplayLog(medium, log) = FlattenSeq(rs)
  BY DEF ReplayLog
<1> HIDE DEF V, rs
<1>8. FlattenSeq(rs) \in Seq(V)
  BY <1>6, FlattenRange
<1> QED BY <1>1, <1>5, <1>7, <1>8, HarmlessBy

-----------------------------------------------------------------------------
(* What the writes of a step do to the flag and the tail. *)

LEMMA HarmlessIssued ==
  ASSUME NEW ws, Harmless(ws), MediaInv, FlagSafe, Send(ws) \/ Barrier(ws)
  PROVE  /\ MediaInv' /\ FlagSafe' /\ (AllRec => AllRec') /\ dev'[Jsb] = dev[Jsb]
         /\ dev[Sb].rec => dev'[Sb].rec
         /\ Barrier(ws) /\ dev[Sb].rec => AllRec'
<1>1. PICK X : ws \in Seq(X) /\ \A w \in X : Quiet(w)
  BY DEF Harmless
<1> QED BY <1>1, QuietWrites

LEMMA DevTyped ==
  ASSUME MediaInv
  PROVE  dev[Sb] \in SbType /\ dev[Sb] = [bm |-> dev[Sb].bm, rec |-> dev[Sb].rec]
<1>1. dev[Sb] \in SbType
  BY DEF MediaInv, Copies
<1> QED BY <1>1 DEF SbType

\* One write.
LEMMA OneIssued ==
  ASSUME NEW b \in Blocks, NEW v, MediaShape, Send(<<W(b, v)>>) \/ Barrier(<<W(b, v)>>)
  PROVE  /\ MediaShape' /\ dev'[b] = v /\ Copies(b)' \subseteq Copies(b) \cup {v}
         /\ \A c \in Blocks : c # b => Copies(c)' \subseteq Copies(c) /\ dev'[c] = dev[c]
         /\ Barrier(<<W(b, v)>>) =>
              Copies(b)' \subseteq {dev[b], v} /\ \A c \in Blocks : c # b => Copies(c)' \subseteq {dev[c]}
<1> DEFINE w == W(b, v)
           ws == <<w>>
           X == {w}
<1>1. w.blk = b /\ w.data = v
  BY DEF W
<1>2. ws \in Seq(X) /\ DOMAIN ws = {1} /\ ws[1] = w
  OBVIOUS
<1> HIDE DEF w
<1>3. To(ws, b) = {1} /\ \A c : c # b => To(ws, c) = {}
  BY <1>1, <1>2 DEF To
<1>4. Written(ws, b) = {v} /\ \A c : c # b => Written(ws, c) = {}
  BY <1>1, <1>2, <1>3 DEF Written
<1> HIDE DEF ws, X
<1>5. /\ MediaShape'
      /\ \A c \in Blocks :
           /\ Copies(c)' \subseteq Copies(c) \cup Written(ws, c)
           /\ Barrier(ws) => Copies(c)' \subseteq {dev[c]} \cup Written(ws, c)
           /\ (dev'[c] = dev[c] /\ Written(ws, c) = {}) \/ dev'[c] \in Written(ws, c)
  <2>1. Send(ws) \/ Barrier(ws)
    BY DEF ws, w
  <2> QED BY <1>2, <2>1, Issued
<1>6. Barrier(<<W(b, v)>>) <=> Barrier(ws)
  BY DEF ws, w
<1>7. MediaShape' /\ dev'[b] = v /\ Copies(b)' \subseteq Copies(b) \cup {v}
  BY <1>4, <1>5
<1>8. \A c \in Blocks : c # b => Copies(c)' \subseteq Copies(c) /\ dev'[c] = dev[c]
  BY <1>4, <1>5
<1>9. Barrier(ws) => Copies(b)' \subseteq {dev[b], v} /\ \A c \in Blocks : c # b => Copies(c)' \subseteq {dev[c]}
  BY <1>4, <1>5
<1> QED BY <1>6, <1>7, <1>8, <1>9

\* A flush, then the empty journal's superblock.
LEMMA TailGone ==
  ASSUME MediaInv, FlagSafe, NEW q, Barrier(<<WriteJsb(0, q)>>)
  PROVE  MediaInv' /\ FlagSafe' /\ (AllRec => AllRec') /\ dev'[Jsb].start = 0
<1> DEFINE v == [start |-> 0, seq |-> q]
<1>0. Barrier(<<W(Jsb, v)>>) /\ MediaShape
  BY DEF WriteJsb, MediaInv, MediaShape
<1>v. v.start = 0
  OBVIOUS
<1> HIDE DEF v
<1>1. /\ MediaShape' /\ dev'[Jsb] = v /\ Copies(Jsb)' \subseteq {dev[Jsb], v}
      /\ \A c \in Blocks : c # Jsb => Copies(c)' \subseteq Copies(c)
  BY <1>0, BlockFacts, OneIssued
<1>2. Copies(Sb)' \subseteq Copies(Sb)
  BY <1>1, BlockFacts
<1>3. \A b \in LogBlks : Copies(b)' \subseteq Copies(b)
  BY <1>1, BlockFacts
<1>4. MediaInv'
  <2>1. (Copies(Sb) \subseteq SbType)'
    BY <1>2 DEF MediaInv
  <2>2. (\A b \in LogBlks : \A r \in Copies(b) : RecOk(r))'
    BY <1>3 DEF MediaInv
  <2> QED BY <1>1, <2>1, <2>2 DEF MediaInv, MediaShape
<1>5. FlagSafe'
  <2>1. dev[Jsb] \in Copies(Jsb)
    BY DEF Copies
  <2> QED BY <1>v, <1>1, <1>2, <2>1 DEF FlagSafe
<1> QED BY <1>v, <1>1, <1>2, <1>4, <1>5 DEF AllRec

\* A flush with an empty journal, then the metadata, whatever its flag.
LEMMA FlagWritten ==
  ASSUME MediaInv, dev[Jsb].start = 0, NEW v \in SbType, Barrier(<<W(Sb, v)>>)
  PROVE  MediaInv' /\ FlagSafe' /\ dev'[Jsb] = dev[Jsb]
<1>1. MediaShape
  BY DEF MediaInv, MediaShape
<1>2. /\ MediaShape' /\ Copies(Sb)' \subseteq Copies(Sb) \cup {v}
      /\ \A c \in Blocks : c # Sb => Copies(c)' \subseteq Copies(c) /\ dev'[c] = dev[c] /\ Copies(c)' \subseteq {dev[c]}
  BY <1>1, BlockFacts, OneIssued
<1>3. Copies(Jsb)' \subseteq {dev[Jsb]} /\ dev'[Jsb] = dev[Jsb]
  BY <1>2, BlockFacts
<1>4. \A b \in LogBlks : Copies(b)' \subseteq Copies(b)
  BY <1>2, BlockFacts
<1>5. MediaInv'
  <2>1. (Copies(Sb) \subseteq SbType)'
    BY <1>2 DEF MediaInv
  <2>2. (\A b \in LogBlks : \A r \in Copies(b) : RecOk(r))'
    BY <1>4 DEF MediaInv
  <2> QED BY <1>2, <2>1, <2>2 DEF MediaInv, MediaShape
<1> QED BY <1>3, <1>5 DEF FlagSafe

\* The power fails: of every block one copy is left.
LEMMA PowerLeaves ==
  ASSUME MediaInv, FlagSafe, NEW m, m = [b \in Blocks |-> m[b]], \A b \in Blocks : m[b] \in Copies(b), PowerLoss(m)
  PROVE  MediaInv' /\ FlagSafe'
<1>1. disk' = m /\ dev' = m /\ pend' = [b \in Blocks |-> {}]
  <2>1. DOMAIN pend = Blocks
    BY DEF MediaInv
  <2> QED BY <2>1 DEF PowerLoss
<1>2. \A b \in Blocks : Copies(b)' = {m[b]}
  <2>1. \A b \in Blocks : pend'[b] = {}
    BY <1>1
  <2> QED BY <1>1, <2>1 DEF Copies
<1>3. \A b \in Blocks : Copies(b)' \subseteq Copies(b)
  BY <1>2
<1>4. Copies(Sb)' \subseteq Copies(Sb) /\ Copies(Jsb)' \subseteq Copies(Jsb) /\ \A b \in LogBlks : Copies(b)' \subseteq Copies(b)
  BY <1>3, BlockFacts
<1>5. MediaShape'
  BY <1>1 DEF MediaShape
<1>6. MediaInv'
  <2>1. (Copies(Sb) \subseteq SbType)'
    BY <1>4 DEF MediaInv
  <2>2. (\A b \in LogBlks : \A r \in Copies(b) : RecOk(r))'
    BY <1>4 DEF MediaInv
  <2> QED BY <1>5, <2>1, <2>2 DEF MediaInv, MediaShape
<1> QED BY <1>4, <1>6 DEF FlagSafe

LEMMA Preceded ==
  ASSUME NEW Y, NEW t \in Seq(Y), NEW j \in Y
  PROVE  /\ <<j>> \o t \in Seq(Y) /\ Len(<<j>> \o t) \in Nat
         /\ Len(<<j>> \o t) >= 1 /\ (<<j>> \o t)[1] = j
         /\ <<>> \o t \in Seq(Y) /\ Len(<<>> \o t) \in Nat
OBVIOUS

LEMMA LogLength ==
  ASSUME MemInv, mem[Sb].rec, NEW pos \in Nat, NEW due \in BOOLEAN
  PROVE  Len((IF due THEN <<WriteJsb(pos, jnl.seq)>> ELSE <<>>)
               \o At(pos, TxnBlocks(jnl.seq, txn.bufs, txn.revokes, mem))) \in Nat
<1> DEFINE j == WriteJsb(pos, jnl.seq)
           t == At(pos, TxnBlocks(jnl.seq, txn.bufs, txn.revokes, mem))
<1>1. PICK X : t \in Seq(X) /\ \A w \in X : Quiet(w)
  BY LogHarmless DEF Harmless
<1> DEFINE Y == X \cup {j}
<1> HIDE DEF t, j
<1>2. t \in Seq(Y) /\ j \in Y
  BY <1>1
<1> HIDE DEF Y
<1>3. Len(<<j>> \o t) \in Nat /\ Len(<<>> \o t) \in Nat
  BY <1>2, Preceded
<1>4. CASE due
  BY <1>3, <1>4 DEF j, t
<1>5. CASE ~ due
  BY <1>3, <1>5 DEF j, t
<1> QED BY <1>4, <1>5

\* A transaction goes to the log of a volume that is marked in use.
LEMMA LogIssued ==
  ASSUME MediaInv, FlagSafe, MemInv, AllRec, mem[Sb].rec, NEW pos \in Nat, NEW due \in BOOLEAN, NEW k \in Nat,
         NEW writes, writes = (IF due THEN <<WriteJsb(pos, jnl.seq)>> ELSE <<>>)
                                \o At(pos, TxnBlocks(jnl.seq, txn.bufs, txn.revokes, mem)),
         k <= Len(writes), Send(SubSeq(writes, 1, k)) \/ Barrier(SubSeq(writes, 1, k))
  PROVE  /\ MediaInv' /\ FlagSafe' /\ AllRec' /\ Len(writes) \in Nat
         /\ ~ due => dev'[Jsb] = dev[Jsb]
         /\ due /\ k = Len(writes) => dev'[Jsb].start = pos
<1> DEFINE j == WriteJsb(pos, jnl.seq)
           t == At(pos, TxnBlocks(jnl.seq, txn.bufs, txn.revokes, mem))
           ws == SubSeq(writes, 1, k)
<1>1. PICK X : t \in Seq(X) /\ \A w \in X : Quiet(w)
  BY LogHarmless DEF Harmless
<1>j. j.blk = Jsb /\ j.data.start = pos
  BY DEF WriteJsb, W
<1> HIDE DEF t, j
<1>2. CASE ~ due
  <2>1. writes \in Seq(X) /\ Len(writes) \in Nat
    <3>1. writes = <<>> \o t
      BY <1>2 DEF t
    <3>2. <<>> \o t \in Seq(X) /\ Len(<<>> \o t) \in Nat
      BY <1>1
    <3> QED BY <3>1, <3>2
  <2>2. ws \in Seq(X)
    BY <2>1
  <2> HIDE DEF ws
  <2>3. MediaInv' /\ FlagSafe' /\ (AllRec => AllRec') /\ dev'[Jsb] = dev[Jsb]
    <3>1. Send(ws) \/ Barrier(ws)
      BY DEF ws
    <3> QED BY <1>1, <2>2, <3>1, QuietWrites
  <2> QED BY <1>2, <2>1, <2>3
<1>3. CASE due
  <2> DEFINE Y == X \cup {j}
  <2>1. writes = <<j>> \o t
    BY <1>3 DEF t, j
  <2>2. writes \in Seq(Y) /\ Len(writes) \in Nat /\ Len(writes) >= 1 /\ writes[1] = j
    <3>1. t \in Seq(Y) /\ j \in Y
      BY <1>1
    <3> HIDE DEF Y
    <3>2. /\ <<j>> \o t \in Seq(Y) /\ Len(<<j>> \o t) \in Nat
          /\ Len(<<j>> \o t) >= 1 /\ (<<j>> \o t)[1] = j
      BY <3>1, Preceded, Zenon
    <3> QED BY <2>1, <3>2, Zenon
  <2>3. ws \in Seq(Y) /\ (k = Len(writes) => Len(ws) >= 1 /\ ws[1] = j)
    <3> HIDE DEF Y
    <3> QED BY <2>2
  <2>4. \A w \in Y : Quiet(w) \/ w = j
    BY <1>1
  <2> HIDE DEF Y
  <2>5. MediaShape /\ (Send(ws) \/ Barrier(ws))
    BY DEF MediaInv, MediaShape
  <2> HIDE DEF ws
  <2>6. /\ MediaShape'
        /\ \A b \in Blocks :
             /\ Copies(b)' \subseteq Copies(b) \cup Written(ws, b)
             /\ (dev'[b] = dev[b] /\ Written(ws, b) = {}) \/ dev'[b] \in Written(ws, b)
    BY <2>3, <2>5, Issued
  <2>7. \A r \in Written(ws, Sb) : r \in SbType /\ r.rec
    BY <1>j, <2>3, <2>4, WrittenFrom, BlockFacts DEF Quiet
  <2>8. \A b \in LogBlks : \A r \in Written(ws, b) : RecOk(r)
    <3> TAKE b \in LogBlks
    <3> TAKE r \in Written(ws, b)
    <3>1. PICK w \in Y : w.blk = b /\ w.data = r
      BY <2>3, WrittenFrom
    <3>2. w # j
      BY <1>j, <3>1, BlockFacts
    <3> QED BY <2>4, <3>1, <3>2 DEF Quiet
  <2>9. \A r \in Written(ws, Jsb) : r.start = pos
    BY <1>j, <2>3, <2>4, WrittenFrom DEF Quiet
  <2>10. Copies(Sb)' \subseteq Copies(Sb) \cup Written(ws, Sb)
    BY <2>6, BlockFacts
  <2>11. MediaInv'
    <3>1. (Copies(Sb) \subseteq SbType)'
      BY <2>7, <2>10 DEF MediaInv
    <3>2. (\A b \in LogBlks : \A r \in Copies(b) : RecOk(r))'
      <4>1. \A b \in LogBlks : Copies(b)' \subseteq Copies(b) \cup Written(ws, b)
        BY <2>6, BlockFacts
      <4> QED BY <2>8, <4>1 DEF MediaInv
    <3> QED BY <2>6, <3>1, <3>2 DEF MediaInv, MediaShape
  <2>12. AllRec'
    BY <2>7, <2>10 DEF AllRec
  <2>13. FlagSafe'
    BY <2>12 DEF AllRec, FlagSafe
  <2>14. k = Len(writes) => dev'[Jsb].start = pos
    <3> SUFFICES ASSUME k = Len(writes) PROVE dev'[Jsb].start = pos
      OBVIOUS
    <3>1. 1 \in DOMAIN ws /\ ws[1].blk = Jsb
      BY <1>j, <2>3
    <3>2. Written(ws, Jsb) # {}
      BY <3>1 DEF Written, To
    <3>3. dev'[Jsb] \in Written(ws, Jsb)
      BY <2>6, <3>2, BlockFacts
    <3> QED BY <2>9, <3>3
  <2> QED BY <1>3, <2>2, <2>11, <2>12, <2>13, <2>14
<1> QED BY <1>2, <1>3

-----------------------------------------------------------------------------
(* The steps. *)

LEMMA SameMedia ==
  ASSUME MediaInv, FlagSafe, UNCHANGED media
  PROVE  MediaInv' /\ FlagSafe' /\ (AllRec => AllRec') /\ dev' = dev
<1>1. disk' = disk /\ dev' = dev /\ pend' = pend
  BY DEF media, device
<1>2. \A b : Copies(b)' = Copies(b)
  BY <1>1 DEF Copies
<1>3. MediaInv'
  BY <1>1, <1>2 DEF MediaInv
<1> QED BY <1>1, <1>2, <1>3 DEF FlagSafe, AllRec

LEMMA BlankTyped == Blank = [b \in Home |-> Blank[b]] /\ Blank[Sb] \in SbType
<1>1. Blank[Sb] = [bm |-> {}, rec |-> FALSE]
  BY BlockFacts DEF Blank
<1>2. Blank = [b \in Home |-> Blank[b]]
  BY DEF Blank
<1> QED BY <1>1, <1>2 DEF SbType

\* Memory that was given up.
LEMMA Forgotten ==
  ASSUME MediaInv', FlagSafe', Forget, st' \in {"off", "dead"}
  PROVE  Rest'
<1>1. mem' = Blank /\ txn' = NoTxn /\ dirty' = {} /\ jnl' = [head |-> 1, seq |-> 0, start |-> 0] /\ inUse' = FALSE
  BY DEF Forget, NoJnl, First
<1>2. MemInv'
  <2>1. mem' = [b \in Home |-> mem'[b]] /\ mem'[Sb] \in SbType
    <3> HIDE DEF Blank
    <3> QED BY <1>1, BlankTyped
  <2>2. txn'.bufs = {}
    BY <1>1 DEF NoTxn
  <2>3. jnl' = [head |-> jnl'.head, seq |-> jnl'.seq, start |-> jnl'.start] /\ jnl'.head \in Nat
    BY <1>1
  <2> QED BY <1>1, <2>1, <2>2, <2>3 DEF MemInv
<1>3. UseInv'
  BY <1>1 DEF UseInv, Going
<1>4. TailInv'
  BY DEF TailInv, Stepping, Going, Ending
<1> QED BY <1>2, <1>3, <1>4 DEF Rest

LEMMA OpenedMem ==
  ASSUME MediaInv, Opened
  PROVE  mem' = [b \in Home |-> mem'[b]] /\ mem'[Sb] \in SbType /\ (~ KeepClean => mem'[Sb].rec)
<1>1. mem' = [HomeOf(dev) EXCEPT ![Sb].rec = ~ KeepClean]
  BY DEF Opened
<1>2. HomeOf(dev) = [b \in Home |-> dev[b]]
  BY DEF HomeOf
<1>3. mem' = [b \in Home |-> mem'[b]] /\ mem'[Sb] = [dev[Sb] EXCEPT !.rec = ~ KeepClean]
  BY <1>1, <1>2, BlockFacts
<1>4. mem'[Sb] = [bm |-> dev[Sb].bm, rec |-> ~ KeepClean]
  BY <1>3, DevTyped
<1>5. dev[Sb].bm \in SUBSET PoolSet
  BY DevTyped DEF SbType
<1>6. mem'[Sb].rec = ~ KeepClean /\ mem'[Sb].bm = dev[Sb].bm
  BY <1>4
<1>7. (~ KeepClean) \in BOOLEAN
  OBVIOUS
<1>8. mem'[Sb] \in SbType
  BY <1>4, <1>5, <1>7 DEF SbType
<1> QED BY <1>3, <1>6, <1>8

LEMMA Flagged ==
  ASSUME NEW r \in SbType, NEW f \in BOOLEAN
  PROVE  [r EXCEPT !.rec = f] \in SbType /\ [r EXCEPT !.rec = f].rec = f
BY DEF SbType

\* The mark of a volume that is in use from its mount on.
LEMMA FlagHarmless ==
  ASSUME MediaInv, FlagSafe, Send(FlagInUse) \/ Barrier(FlagInUse)
  PROVE  MediaInv' /\ FlagSafe' /\ dev'[Jsb] = dev[Jsb] /\ (~ KeepClean => dev'[Sb].rec)
<1>1. CASE KeepClean
  <2>1. FlagInUse = <<>>
    BY <1>1 DEF FlagInUse
  <2> QED BY <1>1, <2>1, NothingHarmless, HarmlessIssued
<1>2. CASE ~ KeepClean
  <2> DEFINE v == [dev[Sb] EXCEPT !.rec = TRUE]
  <2>3. v \in SbType /\ v.rec
    BY DevTyped, Flagged
  <2>4. FlagInUse = <<W(Sb, v)>>
    BY <1>2 DEF FlagInUse
  <2> HIDE DEF v
  <2>5. Quiet(W(Sb, v))
    BY <2>3, BlockFacts DEF Quiet, W
  <2>6. Harmless(<<W(Sb, v)>>)
    BY <2>5, OneHarmless
  <2>7. MediaShape /\ Sb \in Blocks
    BY BlockFacts DEF MediaInv, MediaShape
  <2>8. Send(<<W(Sb, v)>>) \/ Barrier(<<W(Sb, v)>>)
    BY <2>4
  <2>9. dev'[Sb] = v
    BY <2>7, <2>8, OneIssued
  <2> QED BY <2>3, <2>6, <2>8, <2>9, HarmlessIssued
<1> QED BY <1>1, <1>2

LEMMA OpenedRest ==
  ASSUME Rest, Opened, st \in {"off", "cleared"}, Send(FlagInUse) \/ Barrier(FlagInUse),
         jnl' = [head |-> jnl'.head, seq |-> jnl'.seq, start |-> dev[Jsb].start], jnl'.head \in Nat
  PROVE  Rest'
<1>1. MediaInv' /\ FlagSafe' /\ dev'[Jsb] = dev[Jsb] /\ (~ KeepClean => dev'[Sb].rec)
  BY FlagHarmless DEF Rest
<1>2. mem' = [b \in Home |-> mem'[b]] /\ mem'[Sb] \in SbType /\ (~ KeepClean => mem'[Sb].rec)
  BY OpenedMem DEF Rest
<1>3. /\ UNCHANGED <<txn, dirty, inUse, caller>> /\ ~ inUse /\ inUse \in BOOLEAN
      /\ st' = IF KeepClean THEN "idle" ELSE "marking"
  BY DEF Opened, Rest, UseInv, MemInv, Stepping
<1>4. MemInv'
  BY <1>2, <1>3 DEF MemInv, Rest
<1>5. UseInv'
  BY <1>1, <1>2, <1>3 DEF UseInv, Rest, Going
<1>6. TailInv'
  BY <1>1, <1>3 DEF TailInv, Stepping, Going, Ending
<1> QED BY <1>1, <1>4, <1>5, <1>6 DEF Rest

LEMMA MountReplayRest ==
  ASSUME Rest, MountReplay
  PROVE  Rest'
<1> DEFINE writes == ReplayWrites(dev)
<1>1. Harmless(writes)
  <2>1. \A b \in LogBlks : RecOk(dev[b])
    BY DEF Rest, MediaInv, Copies
  <2> QED BY <2>1, ReplayHarmless
<1>2. PICK k \in 0 .. Len(writes) :
        /\ Send(SubSeq(writes, 1, k))
        /\ IF k < Len(writes) THEN Off /\ Fault
           ELSE /\ st' = "replayed"
                /\ jnl' = [head |-> First, seq |-> EndSeq(dev) + 1, start |-> dev[Jsb].start]
                /\ UNCHANGED <<mem, txn, dirty, late, inUse, caller, faults>>
  BY DEF MountReplay
<1> HIDE DEF writes
<1>3. MediaInv' /\ FlagSafe' /\ dev'[Jsb] = dev[Jsb]
  BY <1>1, <1>2, PrefixHarmless, HarmlessIssued DEF Rest
<1>4. CASE Off
  BY <1>3, <1>4, Forgotten DEF Off
<1>5. CASE ~ Off
  <2>1. /\ st' = "replayed" /\ jnl' = [head |-> 1, seq |-> EndSeq(dev) + 1, start |-> dev[Jsb].start]
        /\ UNCHANGED <<mem, txn, dirty, inUse, caller>>
    BY <1>2, <1>5 DEF First
  <2>2. st = "off"
    BY DEF MountReplay
  <2>3. MemInv'
    BY <2>1 DEF MemInv, Rest
  <2>4. UseInv'
    BY <2>1, <2>2 DEF UseInv, Rest, Stepping, Going
  <2>5. TailInv'
    BY <1>3, <2>1 DEF TailInv, Stepping, Going, Ending
  <2> QED BY <1>3, <2>3, <2>4, <2>5 DEF Rest
<1> QED BY <1>4, <1>5

LEMMA RecoverRest ==
  ASSUME Rest, RecoverTail \/ RecoverFlag
  PROVE  Rest'
<1>j. jnl = [head |-> jnl.head, seq |-> jnl.seq, start |-> jnl.start]
  BY DEF Rest, MemInv
<1>1. CASE RecoverTail
  <2>1. MediaInv' /\ FlagSafe' /\ dev'[Jsb].start = 0
    BY <1>1, TailGone DEF RecoverTail, Rest
  <2>2. /\ st = "replayed" /\ st' = "emptied" /\ UNCHANGED <<mem, txn, dirty, inUse, caller>>
        /\ jnl' = [head |-> jnl.head, seq |-> jnl.seq, start |-> 0]
    BY <1>1, <1>j DEF RecoverTail
  <2>3. MemInv'
    BY <2>2 DEF MemInv, Rest
  <2>4. UseInv'
    BY <2>2 DEF UseInv, Rest, Stepping, Going
  <2>5. TailInv'
    BY <2>1, <2>2 DEF TailInv, Stepping, Going, Ending
  <2> QED BY <2>1, <2>3, <2>4, <2>5 DEF Rest
<1>2. CASE RecoverFlag
  <2> DEFINE v == [dev[Sb] EXCEPT !.rec = FALSE]
  <2>1. /\ st = "emptied" /\ st' = "cleared" /\ UNCHANGED <<mem, txn, dirty, inUse, caller, jnl>>
        /\ Barrier(<<W(Sb, v)>>)
    BY <1>2 DEF RecoverFlag, memory
  <2>2. v \in SbType
    <3>1. dev[Sb] \in SbType
      BY DevTyped DEF Rest
    <3> QED BY <3>1 DEF SbType
  <2>3. jnl.start = 0 /\ dev[Jsb].start = 0
    BY <2>1 DEF Rest, TailInv
  <2> HIDE DEF v
  <2>4. MediaInv' /\ FlagSafe' /\ dev'[Jsb] = dev[Jsb]
    BY <2>1, <2>2, <2>3, FlagWritten DEF Rest
  <2>5. MemInv'
    BY <2>1 DEF MemInv, Rest
  <2>6. UseInv'
    BY <2>1 DEF UseInv, Rest, Stepping, Going
  <2>7. TailInv'
    BY <2>1, <2>3, <2>4 DEF TailInv, Stepping, Going, Ending
  <2> QED BY <2>4, <2>5, <2>6, <2>7 DEF Rest
<1> QED BY <1>1, <1>2

LEMMA MountRest ==
  ASSUME Rest, Mount
  PROVE  Rest'
<1>1. CASE MountClean
  <2>1. jnl' = [head |-> First, seq |-> dev[Jsb].seq, start |-> dev[Jsb].start] /\ st = "off"
        /\ Opened /\ Send(FlagInUse)
    BY <1>1 DEF MountClean
  <2>2. jnl' = [head |-> jnl'.head, seq |-> jnl'.seq, start |-> dev[Jsb].start] /\ jnl'.head \in Nat
    BY <2>1 DEF First
  <2> QED BY <2>1, <2>2, OpenedRest
<1>2. CASE MountReplay
  BY <1>2, MountReplayRest
<1>3. CASE RecoverTail \/ RecoverFlag
  BY <1>3, RecoverRest
<1>4. CASE RecoverDone
  <2>1. jnl' = jnl /\ st = "cleared" /\ Opened /\ Barrier(FlagInUse)
    BY <1>4 DEF RecoverDone
  <2>2. jnl' = [head |-> jnl'.head, seq |-> jnl'.seq, start |-> dev[Jsb].start] /\ jnl'.head \in Nat
    BY <2>1 DEF Rest, MemInv, TailInv
  <2> QED BY <2>1, <2>2, OpenedRest
<1>5. CASE MountFails
  <2>1. MediaInv' /\ FlagSafe'
    BY <1>5, SameMedia DEF MountFails, Rest
  <2> QED BY <1>5, <2>1, Forgotten DEF MountFails, Off
<1> QED BY <1>1, <1>2, <1>3, <1>4, <1>5 DEF Mount

\* An operation of the caller: memory changes, the disk does not.
LEMMA UpdateRest ==
  ASSUME Rest, MayUpdate, NEW m, NEW bufs, NEW frees, NEW revokes, Update(m, bufs, frees, revokes),
         m = [b \in Home |-> m[b]], m[Sb] \in SbType, m[Sb].rec = mem[Sb].rec,
         bufs \subseteq Home, dirty' \subseteq PoolSet
  PROVE  Rest'
<1>1. mem' = m /\ txn'.bufs = bufs /\ UNCHANGED <<media, st, jnl, inUse, caller>> /\ st = "idle" /\ inUse
  BY DEF Update, MayUpdate
<1>2. MediaInv' /\ FlagSafe' /\ (AllRec => AllRec') /\ dev' = dev
  BY <1>1, SameMedia DEF Rest
<1>3. MemInv'
  BY <1>1 DEF Rest, MemInv
<1>4. UseInv'
  BY <1>1, <1>2 DEF Rest, UseInv, Going, Stepping
<1>5. TailInv'
  BY <1>1, <1>2 DEF Rest, TailInv, Going, Stepping, Ending
<1> QED BY <1>2, <1>3, <1>4, <1>5 DEF Rest

\* A block is allocated, as metadata or as data.
LEMMA AllocRest ==
  ASSUME Rest, MayUpdate, NEW p \in PoolSet, NEW i, NEW c, NEW bufs, NEW frees, NEW revokes,
         Update([mem EXCEPT ![Sb].bm = @ \cup {p}, ![Inode].refs[p] = i, ![p] = c], bufs, frees, revokes),
         bufs \subseteq txn.bufs \cup {Sb, Inode, p}, dirty' \subseteq PoolSet
  PROVE  Rest'
<1> DEFINE m == [mem EXCEPT ![Sb].bm = @ \cup {p}, ![Inode].refs[p] = i, ![p] = c]
<1>0. mem = [b \in Home |-> mem[b]] /\ mem[Sb] \in SbType /\ txn.bufs \subseteq Home
  BY DEF Rest, MemInv
<1>1. p \in Home /\ p # Sb /\ p # Inode
  BY BlockFacts
<1>2. m = [b \in Home |-> m[b]] /\ m[Sb] = [mem[Sb] EXCEPT !.bm = @ \cup {p}]
  BY <1>0, <1>1, BlockFacts
<1>3. m[Sb] \in SbType /\ m[Sb].rec = mem[Sb].rec
  <2> HIDE DEF m
  <2> QED BY <1>0, <1>2 DEF SbType
<1>4. Update(m, bufs, frees, revokes) /\ bufs \subseteq Home
  BY <1>0, <1>1, BlockFacts
<1> HIDE DEF m
<1> QED BY <1>2, <1>3, <1>4, UpdateRest

LEMMA OperationRest ==
  ASSUME Rest, Operation
  PROVE  Rest'
<1>0. /\ mem = [b \in Home |-> mem[b]] /\ mem[Sb] \in SbType /\ dirty \subseteq PoolSet /\ txn.bufs \subseteq Home
      /\ jnl = [head |-> jnl.head, seq |-> jnl.seq, start |-> jnl.start]
  BY DEF Rest, MemInv
<1>1. CASE MarkInUse
  <2> DEFINE v == mem'[Sb]
  <2>1. /\ st = "idle" /\ ~ inUse /\ st' = "marking" /\ mem' = [mem EXCEPT ![Sb].rec = TRUE]
        /\ UNCHANGED <<txn, dirty, jnl, inUse, caller>> /\ Send(<<W(Sb, v)>>)
    BY <1>1 DEF MarkInUse
  <2>2. v = [mem[Sb] EXCEPT !.rec = TRUE] /\ mem' = [b \in Home |-> mem'[b]]
    BY <1>0, <2>1, BlockFacts
  <2>3. v \in SbType /\ v.rec
    BY <1>0, <2>2, Flagged
  <2> HIDE DEF v
  <2>4. Quiet(W(Sb, v))
    BY <2>3, BlockFacts DEF Quiet, W
  <2>5. Harmless(<<W(Sb, v)>>)
    BY <2>4, OneHarmless
  <2>6. MediaInv' /\ FlagSafe' /\ dev'[Jsb] = dev[Jsb]
    BY <2>1, <2>5, HarmlessIssued DEF Rest
  <2>7. dev'[Sb].rec
    <3>1. MediaShape /\ Sb \in Blocks
      BY BlockFacts DEF MediaInv, MediaShape, Rest
    <3>2. dev'[Sb] = v
      BY <2>1, <3>1, OneIssued
    <3> QED BY <2>3, <3>2
  <2>8. MemInv'
    BY <2>1, <2>2, <2>3 DEF MemInv, Rest, v
  <2>9. UseInv'
    BY <2>1, <2>3, <2>7 DEF UseInv, Rest, Stepping, Going, v
  <2>10. TailInv'
    BY <2>1, <2>6 DEF TailInv, Rest, Stepping, Going, Ending
  <2> QED BY <2>6, <2>8, <2>9, <2>10 DEF Rest
<1>2. CASE MarkDone
  <2>1. /\ st = "marking" /\ st' = "idle" /\ inUse' = TRUE /\ Barrier(<<>>)
        /\ UNCHANGED <<mem, txn, dirty, jnl, caller>>
    BY <1>2 DEF MarkDone
  <2>2. MediaInv' /\ FlagSafe' /\ dev'[Jsb] = dev[Jsb] /\ (dev[Sb].rec => AllRec')
    BY <2>1, NothingHarmless, HarmlessIssued DEF Rest
  <2>3. MemInv'
    BY <2>1 DEF MemInv, Rest
  <2>4. UseInv'
    BY <2>1, <2>2 DEF UseInv, Rest, Stepping, Going
  <2>5. TailInv'
    BY <2>1, <2>2 DEF TailInv, Rest, Stepping, Going, Ending
  <2> QED BY <2>2, <2>3, <2>4, <2>5 DEF Rest
<1>3. CASE MarkFails
  <2>1. MediaInv' /\ FlagSafe' /\ dev' = dev
    BY <1>3, SameMedia DEF MarkFails, Rest
  <2>2. CASE Off
    BY <2>1, <2>2, Forgotten DEF Off
  <2>3. CASE ~ Off
    <3>1. st = "marking" /\ st' = "idle" /\ UNCHANGED <<mem, txn, dirty, jnl, inUse, caller>>
      BY <1>3, <2>3 DEF MarkFails, memory
    <3>2. MemInv'
      BY <3>1 DEF MemInv, Rest
    <3>3. UseInv'
      BY <3>1 DEF UseInv, Rest, Stepping, Going
    <3>4. TailInv'
      BY <2>1, <3>1 DEF TailInv, Rest, Stepping, Going, Ending
    <3> QED BY <2>1, <3>2, <3>3, <3>4 DEF Rest
  <2> QED BY <2>2, <2>3
<1>4. ASSUME NEW p \in PoolSet, AllocMeta(p) \/ UpdateMeta(p) \/ AllocData(p) \/ ShrinkData(p) \/ FreeBlock(p)
      PROVE  Rest'
  <2>0. p \in Home /\ p # Sb /\ p # Inode
    BY BlockFacts
  <2>1. CASE AllocMeta(p)
    <3>1. /\ MayUpdate /\ dirty' = dirty
          /\ Update([mem EXCEPT ![Sb].bm = @ \cup {p}, ![Inode].refs[p] = [role |-> "meta", id |-> stamp],
                                ![p] = [kind |-> "m", id |-> stamp]],
                    txn.bufs \cup {Sb, Inode, p}, txn.frees, txn.revokes)
      BY <2>1 DEF AllocMeta
    <3>2. dirty' \subseteq PoolSet
      BY <1>0, <3>1
    <3> QED BY <3>1, <3>2, AllocRest
  <2>5. CASE AllocData(p)
    <3>1. /\ MayUpdate /\ dirty' = dirty \cup {p}
          /\ Update([mem EXCEPT ![Sb].bm = @ \cup {p}, ![Inode].refs[p] = [role |-> "data", id |-> stamp],
                                ![p] = [kind |-> "d", id |-> stamp]],
                    txn.bufs \cup {Sb, Inode}, txn.frees, txn.revokes)
      BY <2>5 DEF AllocData
    <3>2. dirty' \subseteq PoolSet /\ txn.bufs \cup {Sb, Inode} \subseteq txn.bufs \cup {Sb, Inode, p}
      BY <1>0, <3>1
    <3> QED BY <3>1, <3>2, AllocRest
  <2>2. CASE UpdateMeta(p)
    <3> DEFINE m == [mem EXCEPT ![p].id = stamp]
    <3>1. m = [b \in Home |-> m[b]] /\ m[Sb] = mem[Sb]
      BY <1>0, <2>0, BlockFacts
    <3>2. Update(m, txn.bufs \cup {Inode, p}, txn.frees, txn.revokes) /\ dirty' = dirty /\ MayUpdate
      BY <2>2 DEF UpdateMeta
    <3>3. txn.bufs \cup {Inode, p} \subseteq Home
      BY <1>0, <2>0, BlockFacts
    <3> HIDE DEF m
    <3> QED BY <1>0, <3>1, <3>2, <3>3, UpdateRest
  <2>3. CASE ShrinkData(p)
    <3> DEFINE m == [mem EXCEPT ![Inode].refs[p].role = IF p \in dirty THEN "early" ELSE "cut", ![p].kind = "z"]
    <3>1. m = [b \in Home |-> m[b]] /\ m[Sb] = mem[Sb]
      BY <1>0, <2>0, BlockFacts
    <3>2. Update(m, txn.bufs \cup {Inode}, txn.frees, txn.revokes) /\ dirty' = dirty \cup {p} /\ MayUpdate
      BY <2>3 DEF ShrinkData
    <3>3. txn.bufs \cup {Inode} \subseteq Home /\ dirty' \subseteq PoolSet
      BY <1>0, <2>0, <3>2, BlockFacts
    <3> HIDE DEF m
    <3> QED BY <1>0, <3>1, <3>2, <3>3, UpdateRest
  <2>4. CASE FreeBlock(p)
    <3> DEFINE m == [mem EXCEPT ![Inode].refs[p] = Unused]
    <3>1. m = [b \in Home |-> m[b]] /\ m[Sb] = mem[Sb]
      BY <1>0, <2>0, BlockFacts
    <3>2. PICK revokes : Update(m, (txn.bufs \ {p}) \cup {Inode}, txn.frees \cup {p}, revokes)
      BY <2>4 DEF FreeBlock
    <3>3. dirty' = dirty \ {p} /\ MayUpdate
      BY <2>4 DEF FreeBlock
    <3>4. (txn.bufs \ {p}) \cup {Inode} \subseteq Home /\ dirty' \subseteq PoolSet
      BY <1>0, <2>0, <3>3, BlockFacts
    <3> HIDE DEF m
    <3> QED BY <1>0, <3>1, <3>2, <3>3, <3>4, UpdateRest
  <2> QED BY <1>4, <2>1, <2>2, <2>3, <2>4, <2>5
<1>5. ASSUME NEW p \in PoolSet, EvictData(p) PROVE Rest'
  <2>1. /\ st = "idle" /\ Send(<<W(p, mem[p])>>) /\ dirty' = dirty \ {p}
        /\ UNCHANGED <<st, mem, txn, jnl, inUse, caller>>
    BY <1>5 DEF EvictData
  <2>2. Quiet(W(p, mem[p]))
    BY BlockFacts DEF Quiet, W
  <2>3. MediaInv' /\ FlagSafe' /\ (AllRec => AllRec') /\ dev'[Jsb] = dev[Jsb]
    BY <2>1, <2>2, OneHarmless, HarmlessIssued DEF Rest
  <2>4. MemInv'
    BY <2>1 DEF MemInv, Rest
  <2>5. UseInv'
    BY <2>1, <2>3 DEF UseInv, Rest, Stepping, Going
  <2>6. TailInv'
    BY <2>1, <2>3 DEF TailInv, Rest, Stepping, Going, Ending
  <2> QED BY <2>3, <2>4, <2>5, <2>6 DEF Rest
<1> QED BY <1>1, <1>2, <1>3, <1>4, <1>5 DEF Operation

LEMMA NeedIsNat ==
  ASSUME MemInv
  PROVE  TxnNeed \in Nat /\ TxnNeed >= 1
<1>1. IsFiniteSet(txn.bufs)
  BY BlockFacts, FS_Subset DEF MemInv
<1>2. Cardinality(txn.bufs) \in Nat
  BY <1>1, FS_CardinalityType
<1>3. NDesc(Cardinality(txn.bufs)) \in Nat
  BY <1>2, DescCount
<1> QED BY <1>2, <1>3 DEF TxnNeed, Need

\* sfs_commit up to the ordered data.
LEMMA CommitRest ==
  ASSUME Rest, NEW who \in {"op", "sync", "unmount"}, Commit(who)
  PROVE  Rest'
<1> DEFINE touched == txn.bufs \cup (IF txn.frees = {} THEN {} ELSE {Sb})
           bufs == IF touched = {} THEN {} ELSE touched \cup {Sb}
           m == [mem EXCEPT ![Sb].bm = @ \ txn.frees]
           data == HomeWrites(WritableData)
<1>0. /\ mem = [b \in Home |-> mem[b]] /\ mem[Sb] \in SbType /\ dirty \subseteq PoolSet /\ txn.bufs \subseteq Home
      /\ MemInv /\ MediaInv /\ FlagSafe /\ st = "idle"
  BY DEF Rest, MemInv, Commit
<1>1. PICK k \in 0 .. Len(data) :
        /\ Send(SubSeq(data, 1, k))
        /\ IF k < Len(data) THEN Abort
           ELSE /\ st' = IF bufs = {} THEN "settled" ELSE "logging"
                /\ mem' = m
                /\ txn' = [bufs |-> bufs, frees |-> {}, revokes |-> txn.revokes]
                /\ dirty' = dirty \ WritableData
                /\ caller' = who
                /\ UNCHANGED <<late, jnl, inUse, faults>>
  BY DEF Commit
<1>2. Harmless(data)
  BY <1>0, HomeHarmless, BlockFacts DEF WritableData
<1>m. m = [b \in Home |-> m[b]] /\ m[Sb] \in SbType /\ m[Sb].rec = mem[Sb].rec
  <2>1. m = [b \in Home |-> m[b]] /\ m[Sb] = [mem[Sb] EXCEPT !.bm = @ \ txn.frees]
    BY <1>0, BlockFacts
  <2> HIDE DEF m
  <2> QED BY <1>0, <2>1 DEF SbType
<1>b. bufs \subseteq Home /\ (txn = NoTxn => bufs = {})
  BY <1>0, BlockFacts DEF NoTxn
<1> HIDE DEF data, m, bufs
<1>3. MediaInv' /\ FlagSafe' /\ (AllRec => AllRec') /\ dev'[Jsb] = dev[Jsb]
  BY <1>0, <1>1, <1>2, PrefixHarmless, HarmlessIssued
<1>4. CASE Abort
  BY <1>3, <1>4, Forgotten DEF Abort
<1>5. CASE ~ Abort
  <2>1. /\ st' = IF bufs = {} THEN "settled" ELSE "logging"
        /\ mem' = m /\ txn' = [bufs |-> bufs, frees |-> {}, revokes |-> txn.revokes]
        /\ dirty' = dirty \ WritableData /\ caller' = who /\ UNCHANGED <<jnl, inUse>>
    BY <1>1, <1>5
  <2>2. MemInv'
    BY <1>0, <1>m, <1>b, <2>1 DEF MemInv
  <2>3. txn = NoTxn => bufs = {} /\ txn' = NoTxn
    <3>1. ASSUME txn = NoTxn PROVE bufs = {} /\ txn' = NoTxn
      <4>1. bufs = {} /\ txn.revokes = {}
        BY <1>b, <3>1 DEF NoTxn
      <4> QED BY <2>1, <4>1 DEF NoTxn
    <3> QED BY <3>1
  <2>4. UseInv'
    <3>1. inUse => mem[Sb].rec /\ AllRec
      BY <1>0 DEF Rest, UseInv
    <3>2. ~ inUse => bufs = {} /\ txn' = NoTxn
      BY <2>3 DEF Rest, UseInv
    <3>3. st' \in {"settled", "logging"} /\ (bufs = {} => st' = "settled")
      BY <2>1
    <3> QED BY <1>m, <1>3, <2>1, <3>1, <3>2, <3>3 DEF UseInv, Going, Stepping
  <2>5. TailInv'
    <3>1. dev[Jsb].start = jnl.start
      BY <1>0 DEF Rest, TailInv
    <3>2. st' \in {"settled", "logging"}
      BY <2>1
    <3> QED BY <1>3, <2>1, <3>1, <3>2 DEF TailInv, Going, Stepping, Ending
  <2> QED BY <1>3, <2>2, <2>4, <2>5 DEF Rest
<1> QED BY <1>4, <1>5

LEMMA LogRest ==
  ASSUME Rest, WrapLog \/ AppendLog
  PROVE  Rest'
<1>0. /\ inUse /\ mem[Sb].rec /\ AllRec /\ MediaInv /\ FlagSafe /\ MemInv /\ jnl.head \in Nat /\ st = "logging"
      /\ jnl = [head |-> jnl.head, seq |-> jnl.seq, start |-> jnl.start] /\ dev[Jsb].start = jnl.start
      /\ caller \in {"op", "sync", "unmount"}
  BY DEF Rest, UseInv, Going, MemInv, TailInv, WrapLog, AppendLog
<1> DEFINE Log(pos, due) == (IF due THEN <<WriteJsb(pos, jnl.seq)>> ELSE <<>>)
                              \o At(pos, TxnBlocks(jnl.seq, txn.bufs, txn.revokes, mem))
<1>1. PICK pos \in Nat, due \in BOOLEAN : \E k \in 0 .. Len(Log(pos, due)) :
        /\ Send(SubSeq(Log(pos, due), 1, k)) \/ Barrier(SubSeq(Log(pos, due), 1, k))
        /\ IF k < Len(Log(pos, due)) THEN Abort
           ELSE /\ st' = "logged"
                /\ jnl' = [jnl EXCEPT !.head = pos, !.start = IF due THEN pos ELSE @]
                /\ UNCHANGED <<mem, txn, dirty, late, inUse, caller, faults>>
  <2>1. CASE WrapLog
    <3>1. LogAt(First, TRUE, Barrier)
      BY <2>1 DEF WrapLog
    <3>2. First \in Nat /\ TRUE \in BOOLEAN
      BY DEF First
    <3>3. \E k \in 0 .. Len(Log(First, TRUE)) :
            /\ Barrier(SubSeq(Log(First, TRUE), 1, k))
            /\ IF k < Len(Log(First, TRUE)) THEN Abort
               ELSE /\ st' = "logged"
                    /\ jnl' = [jnl EXCEPT !.head = First, !.start = IF TRUE THEN First ELSE @]
                    /\ UNCHANGED <<mem, txn, dirty, late, inUse, caller, faults>>
      BY <3>1 DEF LogAt
    <3> HIDE DEF Log
    <3> QED BY <3>2, <3>3
  <2>2. CASE AppendLog
    <3> DEFINE d == jnl.start = 0
    <3>1. LogAt(jnl.head, d, Send) /\ d \in BOOLEAN
      BY <2>2 DEF AppendLog
    <3> HIDE DEF d
    <3>3. \E k \in 0 .. Len(Log(jnl.head, d)) :
            /\ Send(SubSeq(Log(jnl.head, d), 1, k))
            /\ IF k < Len(Log(jnl.head, d)) THEN Abort
               ELSE /\ st' = "logged"
                    /\ jnl' = [jnl EXCEPT !.head = jnl.head, !.start = IF d THEN jnl.head ELSE @]
                    /\ UNCHANGED <<mem, txn, dirty, late, inUse, caller, faults>>
      BY <3>1 DEF LogAt
    <3> HIDE DEF Log
    <3> QED BY <1>0, <3>1, <3>3
  <2> QED BY <2>1, <2>2
<1> DEFINE writes == Log(pos, due)
<1>w. writes = (IF due THEN <<WriteJsb(pos, jnl.seq)>> ELSE <<>>)
                 \o At(pos, TxnBlocks(jnl.seq, txn.bufs, txn.revokes, mem))
  OBVIOUS
<1> HIDE DEF writes
<1>2. PICK k \in 0 .. Len(writes) :
        /\ Send(SubSeq(writes, 1, k)) \/ Barrier(SubSeq(writes, 1, k))
        /\ IF k < Len(writes) THEN Abort
           ELSE /\ st' = "logged"
                /\ jnl' = [jnl EXCEPT !.head = pos, !.start = IF due THEN pos ELSE @]
                /\ UNCHANGED <<mem, txn, dirty, late, inUse, caller, faults>>
  BY <1>1 DEF writes
<1>3. /\ MediaInv' /\ FlagSafe' /\ AllRec' /\ Len(writes) \in Nat
      /\ ~ due => dev'[Jsb] = dev[Jsb]
      /\ due /\ k = Len(writes) => dev'[Jsb].start = pos
  <2>1. Len(writes) \in Nat
    BY <1>0, <1>w, LogLength
  <2>2. k \in Nat /\ k <= Len(writes)
    BY <2>1
  <2> QED BY <1>0, <1>w, <1>2, <2>2, LogIssued, Zenon
<1>4. CASE Abort
  BY <1>3, <1>4, Forgotten DEF Abort
<1>5. CASE ~ Abort
  <2>1. k = Len(writes) /\ st' = "logged" /\ UNCHANGED <<mem, txn, dirty, inUse, caller>>
        /\ jnl' = [jnl EXCEPT !.head = pos, !.start = IF due THEN pos ELSE @]
    BY <1>2, <1>3, <1>5
  <2>2. jnl' = [head |-> pos, seq |-> jnl.seq, start |-> IF due THEN pos ELSE jnl.start]
    BY <1>0, <2>1
  <2>3. dev'[Jsb].start = jnl'.start
    BY <1>0, <1>3, <2>1, <2>2
  <2>4. MemInv'
    BY <1>0, <2>1, <2>2 DEF MemInv
  <2>5. UseInv'
    BY <1>0, <1>3, <2>1 DEF UseInv, Going, Stepping
  <2>6. TailInv'
    BY <1>0, <2>1, <2>3 DEF TailInv, Going, Stepping, Ending
  <2> QED BY <1>3, <2>4, <2>5, <2>6 DEF Rest
<1> QED BY <1>4, <1>5

LEMMA RecordRest ==
  ASSUME Rest, CommitRecord \/ CommitFlush
  PROVE  Rest'
<1>0. MediaInv /\ FlagSafe /\ MemInv
  BY DEF Rest
<1> DEFINE r == W(jnl.head + TxnNeed - 1, Rec("commit", jnl.seq, <<>>))
<1>1. Harmless(<<r>>)
  <2>1. jnl.head + TxnNeed - 1 \in Nat
    BY <1>0, NeedIsNat DEF MemInv
  <2>2. Quiet(r)
    BY <2>1, BlockFacts DEF Quiet, W, RecOk, Rec, Type
  <2> HIDE DEF r
  <2> QED BY <2>2, OneHarmless
<1>2. \/ st' \in Going /\ st' # "settled" /\ st \in Going /\ st # "settled" /\ UNCHANGED memory
      \/ Abort
  BY DEF CommitRecord, CommitFlush, Going
<1>3. Barrier(<<r>>) \/ Barrier(<<>>)
  BY DEF CommitRecord, CommitFlush
<1> HIDE DEF r
<1>4. MediaInv' /\ FlagSafe' /\ (AllRec => AllRec') /\ dev'[Jsb] = dev[Jsb]
  BY <1>0, <1>1, <1>3, NothingHarmless, HarmlessIssued
<1>5. CASE Abort
  BY <1>4, <1>5, Forgotten DEF Abort
<1>6. CASE ~ Abort
  <2>1. /\ st' \in Going /\ st' # "settled" /\ st \in Going /\ st # "settled"
        /\ UNCHANGED <<mem, txn, dirty, jnl, inUse, caller>>
    BY <1>2, <1>6 DEF memory
  <2>2. MemInv'
    BY <2>1 DEF Rest, MemInv
  <2>3. UseInv'
    BY <1>4, <2>1 DEF Rest, UseInv, Going, Stepping
  <2>4. TailInv'
    BY <1>4, <2>1 DEF Rest, TailInv, Going, Stepping, Ending
  <2> QED BY <1>4, <2>2, <2>3, <2>4 DEF Rest
<1> QED BY <1>5, <1>6

\* The end of a commit, whoever asked for it.
LEMMA ReturnRest ==
  ASSUME Rest, st \in Going, Return, UNCHANGED <<mem, dirty, inUse>>,
         jnl' = [head |-> jnl'.head, seq |-> jnl'.seq, start |-> jnl.start], jnl'.head \in Nat,
         MediaInv', FlagSafe', AllRec => AllRec', dev'[Jsb] = dev[Jsb]
  PROVE  Rest'
<1>1. /\ txn' = NoTxn
      /\ st' = IF caller = "op" THEN "idle" ELSE "closing"
      /\ caller' = IF caller = "op" THEN "none" ELSE caller
  BY DEF Return
<1>2. MemInv'
  BY <1>1 DEF Rest, MemInv, NoTxn
<1>3. UseInv'
  BY <1>1 DEF Rest, UseInv, Going, Stepping
<1>4. TailInv'
  BY <1>1 DEF Rest, TailInv, Going, Stepping, Ending
<1> QED BY <1>2, <1>3, <1>4 DEF Rest

LEMMA CheckpointRest ==
  ASSUME Rest, Checkpoint
  PROVE  Rest'
<1> DEFINE writes == HomeWrites(txn.bufs)
<1>0. MediaInv /\ FlagSafe /\ MemInv /\ st = "committed" /\ st \in Going /\ mem[Sb].rec
  BY DEF Rest, Checkpoint, UseInv, Going
<1>1. PICK k \in 0 .. Len(writes) :
        /\ Send(SubSeq(writes, 1, k))
        /\ IF k < Len(writes) THEN Abort /\ UNCHANGED <<stamp, acked, offered>>
           ELSE /\ Return
                /\ jnl' = [jnl EXCEPT !.head = @ + TxnNeed, !.seq = @ + 1]
                /\ acked' = offered[1] /\ offered' = <<>>
                /\ stamp' = Min({stamp + 1, MaxWork + 1})
                /\ UNCHANGED <<mem, dirty, inUse, faults>>
  BY DEF Checkpoint
<1>2. Harmless(writes)
  BY <1>0, HomeHarmless
<1> HIDE DEF writes
<1>3. MediaInv' /\ FlagSafe' /\ (AllRec => AllRec') /\ dev'[Jsb] = dev[Jsb]
  BY <1>0, <1>1, <1>2, PrefixHarmless, HarmlessIssued
<1>4. CASE Abort
  BY <1>3, <1>4, Forgotten DEF Abort
<1>5. CASE ~ Abort
  <2>1. Return /\ UNCHANGED <<mem, dirty, inUse>> /\ jnl' = [jnl EXCEPT !.head = @ + TxnNeed, !.seq = @ + 1]
    BY <1>1, <1>5
  <2>2. jnl = [head |-> jnl.head, seq |-> jnl.seq, start |-> jnl.start] /\ jnl.head \in Nat
    BY <1>0 DEF MemInv
  <2>3. jnl' = [head |-> jnl.head + TxnNeed, seq |-> jnl.seq + 1, start |-> jnl.start]
    BY <2>1, <2>2
  <2>4. jnl' = [head |-> jnl'.head, seq |-> jnl'.seq, start |-> jnl.start] /\ jnl'.head = jnl.head + TxnNeed
    BY <2>3
  <2>5. jnl'.head \in Nat
    BY <1>0, <2>2, <2>4, NeedIsNat
  <2> QED BY <1>0, <1>3, <2>1, <2>4, <2>5, ReturnRest
<1> QED BY <1>4, <1>5

LEMMA CommittingRest ==
  ASSUME Rest, Committing
  PROVE  Rest'
<1>0. MediaInv /\ FlagSafe
  BY DEF Rest
<1>1. CASE \E who \in {"op", "sync", "unmount"} : Commit(who)
  BY <1>1, CommitRest
<1>2. CASE WrapLog \/ AppendLog
  BY <1>2, LogRest
<1>3. CASE CommitRecord \/ CommitFlush
  BY <1>3, RecordRest
<1>4. CASE Checkpoint
  BY <1>4, CheckpointRest
<1>5. CASE CommitData
  <2>1. Barrier(<<>>) /\ Return /\ UNCHANGED <<mem, dirty, jnl, inUse>> /\ st \in Going
    BY <1>5 DEF CommitData, Going
  <2>2. MediaInv' /\ FlagSafe' /\ (AllRec => AllRec') /\ dev'[Jsb] = dev[Jsb]
    BY <1>0, <2>1, NothingHarmless, HarmlessIssued
  <2>3. jnl' = [head |-> jnl'.head, seq |-> jnl'.seq, start |-> jnl.start] /\ jnl'.head \in Nat
    BY <2>1 DEF Rest, MemInv
  <2> QED BY <2>1, <2>2, <2>3, ReturnRest
<1>6. CASE IoError
  <2>1. Abort /\ (UNCHANGED media \/ Barrier(<<>>))
    BY <1>6 DEF IoError
  <2>2. MediaInv' /\ FlagSafe'
    BY <1>0, <2>1, SameMedia, NothingHarmless, HarmlessIssued
  <2> QED BY <2>1, <2>2, Forgotten DEF Abort
<1> QED BY <1>1, <1>2, <1>3, <1>4, <1>5, <1>6 DEF Committing

\* Nothing is pending and the caller goes on: memory is as it was.
LEMMA ClosedRest ==
  ASSUME Rest, st \in Ending, st # "unflagged" \/ ~ inUse', st' = "idle",
         UNCHANGED <<mem, txn, dirty, jnl>>, inUse' = inUse \/ inUse' = FALSE,
         MediaInv', FlagSafe', AllRec => AllRec', dev'[Jsb] = dev[Jsb]
  PROVE  Rest'
<1>1. MemInv'
  BY DEF Rest, MemInv
<1>2. UseInv'
  BY DEF Rest, UseInv, TailInv, Ending, Going, Stepping
<1>3. TailInv'
  BY DEF Rest, TailInv, Ending, Going, Stepping
<1> QED BY <1>1, <1>2, <1>3 DEF Rest

LEMMA CleanRest ==
  ASSUME Rest, CleanTail \/ CleanFlag
  PROVE  Rest'
<1>0. /\ MediaInv /\ FlagSafe /\ mem = [b \in Home |-> mem[b]] /\ mem[Sb] \in SbType
      /\ jnl = [head |-> jnl.head, seq |-> jnl.seq, start |-> jnl.start]
  BY DEF Rest, MemInv
<1>1. CASE CleanTail
  <2>1. /\ st = "closing" /\ st' = "tailless" /\ UNCHANGED <<mem, txn, dirty, inUse, caller>>
        /\ jnl' = [head |-> jnl.head, seq |-> jnl.seq, start |-> 0]
        /\ Barrier(IF jnl.start = 0 THEN <<>> ELSE <<WriteJsb(0, jnl.seq)>>)
    BY <1>0, <1>1 DEF CleanTail
  <2>2. MediaInv' /\ FlagSafe' /\ (AllRec => AllRec') /\ dev'[Jsb].start = 0
    <3>1. CASE jnl.start = 0
      <4>1. Barrier(<<>>) /\ dev[Jsb].start = 0
        BY <2>1, <3>1 DEF Rest, TailInv
      <4> QED BY <1>0, <4>1, NothingHarmless, HarmlessIssued
    <3>2. CASE jnl.start # 0
      <4>1. Barrier(<<WriteJsb(0, jnl.seq)>>)
        BY <2>1, <3>2
      <4> QED BY <1>0, <4>1, TailGone
    <3> QED BY <3>1, <3>2
  <2>3. MemInv'
    BY <2>1 DEF Rest, MemInv
  <2>4. UseInv'
    BY <2>1, <2>2 DEF Rest, UseInv, Going, Stepping
  <2>5. TailInv'
    BY <2>1, <2>2 DEF Rest, TailInv, Ending, Going, Stepping
  <2> QED BY <2>2, <2>3, <2>4, <2>5 DEF Rest
<1>2. CASE CleanFlag
  <2> DEFINE v == mem'[Sb]
  <2>1. /\ st = "tailless" /\ inUse /\ st' = "unflagged" /\ mem' = [mem EXCEPT ![Sb].rec = FALSE]
        /\ jnl' = [head |-> First, seq |-> jnl.seq, start |-> jnl.start]
        /\ UNCHANGED <<txn, dirty, inUse, caller>> /\ Barrier(<<W(Sb, v)>>)
    BY <1>0, <1>2 DEF CleanFlag
  <2>2. v = [mem[Sb] EXCEPT !.rec = FALSE] /\ mem' = [b \in Home |-> mem'[b]]
    BY <1>0, <2>1, BlockFacts
  <2>3. v \in SbType
    BY <1>0, <2>2, Flagged
  <2>4. dev[Jsb].start = 0 /\ jnl.start = 0
    BY <2>1 DEF Rest, TailInv
  <2> HIDE DEF v
  <2>5. MediaInv' /\ FlagSafe' /\ dev'[Jsb] = dev[Jsb]
    BY <1>0, <2>1, <2>3, <2>4, FlagWritten
  <2>6. MemInv'
    <3>1. jnl' = [head |-> jnl'.head, seq |-> jnl'.seq, start |-> jnl'.start] /\ jnl'.head \in Nat
      BY <2>1 DEF First
    <3> QED BY <2>1, <2>2, <2>3, <3>1 DEF Rest, MemInv, v
  <2>7. UseInv'
    BY <2>1 DEF Rest, UseInv, Going, Stepping
  <2>8. TailInv'
    BY <2>1, <2>4, <2>5 DEF Rest, TailInv, Ending, Going, Stepping
  <2> QED BY <2>5, <2>6, <2>7, <2>8 DEF Rest
<1> QED BY <1>1, <1>2

LEMMA ClosingRest ==
  ASSUME Rest, Closing
  PROVE  lost' \/ Rest'
<1>0. MediaInv /\ FlagSafe
  BY DEF Rest
<1>1. CASE SyncDone
  <2>1. /\ Barrier(<<>>) /\ st = "closing" /\ st \in Ending /\ st' = "idle"
        /\ UNCHANGED <<mem, txn, dirty, jnl, inUse>>
    BY <1>1 DEF SyncDone, Ending
  <2>2. MediaInv' /\ FlagSafe' /\ (AllRec => AllRec') /\ dev'[Jsb] = dev[Jsb]
    BY <1>0, <2>1, NothingHarmless, HarmlessIssued
  <2> QED BY <2>1, <2>2, ClosedRest
<1>2. CASE CleanTail \/ CleanFlag
  BY <1>2, CleanRest
<1>3. CASE CleanDone
  <2>1. Barrier(<<>>) /\ st \in Ending
    BY <1>3 DEF CleanDone, Ending
  <2>2. MediaInv' /\ FlagSafe' /\ (AllRec => AllRec') /\ dev'[Jsb] = dev[Jsb]
    BY <1>0, <2>1, NothingHarmless, HarmlessIssued
  <2>3. CASE Off
    BY <2>2, <2>3, Forgotten DEF Off
  <2>4. CASE ~ Off
    <3>1. st' = "idle" /\ inUse' = FALSE /\ UNCHANGED <<mem, txn, dirty, jnl>>
      BY <1>3, <2>4 DEF CleanDone
    <3> QED BY <2>1, <2>2, <3>1, ClosedRest
  <2> QED BY <2>3, <2>4
<1>4. CASE CloseFails
  <2>1. MediaInv' /\ FlagSafe' /\ (AllRec => AllRec') /\ dev' = dev
    BY <1>0, <1>4, SameMedia DEF CloseFails
  <2>2. CASE Off
    BY <2>1, <2>2, Forgotten DEF Off
  <2>3. CASE ~ Off
    <3>1. /\ caller # "unmount" /\ st \in Ending /\ st' = "idle" /\ UNCHANGED <<mem, txn, dirty, jnl, inUse>>
          /\ lost' = (lost \/ (st = "unflagged" /\ caller = "sync"))
      BY <1>4, <2>3 DEF CloseFails, Ending
    <3>2. caller = "sync"
      BY <3>1 DEF Rest, TailInv
    <3>3. CASE st = "unflagged"
      BY <3>1, <3>2, <3>3
    <3>4. CASE st # "unflagged"
      BY <2>1, <3>1, <3>4, ClosedRest
    <3> QED BY <3>3, <3>4
  <2> QED BY <2>2, <2>3
<1>5. CASE UnmountDead
  <2>1. MediaInv' /\ FlagSafe'
    BY <1>0, <1>5, SameMedia DEF UnmountDead
  <2> QED BY <1>5, <2>1, Forgotten DEF UnmountDead, Off
<1> QED BY <1>1, <1>2, <1>3, <1>4, <1>5 DEF Closing

LEMMA PowerRest ==
  ASSUME Rest, PowerCut
  PROVE  Rest'
<1>0. MediaInv /\ FlagSafe
  BY DEF Rest
<1>1. PICK kept \in [Rewritten -> UNION {pend[b] : b \in Rewritten}], gone \in SUBSET Unflushed :
        /\ \A b \in DOMAIN kept : kept[b] \in pend[b]
        /\ Lose([b \in Blocks |->
                   IF b \in gone \/ pend[b] = {} THEN disk[b]
                   ELSE IF b \in DOMAIN kept THEN kept[b] ELSE CHOOSE data \in pend[b] : TRUE])
  BY DEF PowerCut
<1> DEFINE m == [b \in Blocks |->
                   IF b \in gone \/ pend[b] = {} THEN disk[b]
                   ELSE IF b \in DOMAIN kept THEN kept[b] ELSE CHOOSE data \in pend[b] : TRUE]
<1>2. ASSUME NEW b \in Blocks PROVE m[b] \in Copies(b)
  <2>1. m[b] = IF b \in gone \/ pend[b] = {} THEN disk[b]
               ELSE IF b \in DOMAIN kept THEN kept[b] ELSE CHOOSE data \in pend[b] : TRUE
    OBVIOUS
  <2>2. pend[b] # {} => (CHOOSE data \in pend[b] : TRUE) \in pend[b]
    OBVIOUS
  <2> HIDE DEF m
  <2> QED BY <1>1, <2>1, <2>2 DEF Copies
<1>3. m = [b \in Blocks |-> m[b]]
  OBVIOUS
<1>4. PowerLoss(m)
  BY <1>1 DEF Lose
<1> HIDE DEF m
<1>5. MediaInv' /\ FlagSafe'
  BY <1>0, <1>2, <1>3, <1>4, PowerLeaves
<1>6. Off
  BY DEF PowerCut
<1> QED BY <1>5, <1>6, Forgotten DEF Off

-----------------------------------------------------------------------------
(* What the next mount would find. *)

LEMMA FoundInit == Init => FoundInv
<1> SUFFICES ASSUME Init PROVE FoundInv
  OBVIOUS
<1>1. disk[Jsb].start = 0
  BY BlockFacts DEF Init, Formatted
<1>2. HomeOf(disk) = Blank
  <2>1. \A b \in Home : disk[b] = Blank[b]
    <3> TAKE b \in Home
    <3>1. b \in Blocks /\ b # Jsb /\ b \notin LogBlks
      BY BlockFacts
    <3> HIDE DEF Blank
    <3> QED BY <3>1 DEF Init, Formatted
  <2> HIDE DEF Blank
  <2> QED BY <2>1, BlankTyped DEF HomeOf
<1>3. Recovered(disk) = Blank
  BY <1>1, <1>2 DEF Recovered
<1> HIDE DEF Blank
<1> QED BY <1>3 DEF Init, FoundInv

LEMMA FoundAgain ==
  ASSUME FoundInv, (disk' = disk /\ found' = found) \/ Recovering
  PROVE  FoundInv'
<1>1. CASE disk' = disk /\ found' = found
  BY <1>1 DEF FoundInv
<1>2. CASE Recovering
  <2>1. CASE disk' = disk
    BY <1>2, <2>1 DEF FoundInv, Recovering
  <2>2. CASE disk' # disk
    <3>1. found' \in UNION {FoundOn(m) : m \in {disk'}}
      BY <1>2, <2>2 DEF Recovering
    <3>2. found' \in FoundOn(disk')
      BY <3>1
    <3> QED BY <3>2 DEF FoundOn, FoundInv
  <2> QED BY <2>1, <2>2
<1> QED BY <1>1, <1>2

\* A step leaves what is durable alone, or what a mount would find is found out again.
LEMMA FoundSteps ==
  ASSUME [Next]_vars
  PROVE  ((disk' = disk /\ found' = found) \/ Recovering) /\ (lost => lost')
<1>1. CASE UNCHANGED vars
  BY <1>1 DEF vars, media, device, observed
<1>2. \A ws : (Send(ws) => disk' = disk /\ found' = found) /\ (Barrier(ws) => Recovering)
  BY DEF Send, Write, Barrier
<1>3. CASE Mount
  <2>1. CASE MountReplay
    BY <1>2, <2>1 DEF MountReplay, observed
  <2>2. CASE MountClean \/ RecoverTail \/ RecoverFlag \/ RecoverDone \/ MountFails
    BY <1>2, <2>2 DEF MountClean, RecoverTail, RecoverFlag, RecoverDone, MountFails, Opened, observed, media, device
  <2> QED BY <1>3, <2>1, <2>2 DEF Mount
<1>4. CASE Operation
  <2>1. CASE MarkInUse \/ MarkDone \/ MarkFails
    BY <1>2, <2>1 DEF MarkInUse, MarkDone, MarkFails, observed, media, device
  <2>2. ASSUME NEW p \in PoolSet, EvictData(p) PROVE disk' = disk /\ found' = found /\ lost' = lost
    BY <1>2, <2>2 DEF EvictData, observed
  <2>3. ASSUME NEW m, NEW bufs, NEW frees, NEW revokes, Update(m, bufs, frees, revokes)
        PROVE  disk' = disk /\ found' = found /\ lost' = lost
    BY <2>3 DEF Update, media, device, observed
  <2>4. ASSUME NEW p \in PoolSet, AllocMeta(p) \/ UpdateMeta(p) \/ AllocData(p) \/ ShrinkData(p) \/ FreeBlock(p)
        PROVE  disk' = disk /\ found' = found /\ lost' = lost
    <3>1. CASE AllocMeta(p)
      BY <2>3, <3>1 DEF AllocMeta
    <3>2. CASE UpdateMeta(p)
      BY <2>3, <3>2 DEF UpdateMeta
    <3>3. CASE AllocData(p)
      BY <2>3, <3>3 DEF AllocData
    <3>4. CASE ShrinkData(p)
      BY <2>3, <3>4 DEF ShrinkData
    <3>5. CASE FreeBlock(p)
      BY <2>3, <3>5 DEF FreeBlock
    <3> QED BY <2>4, <3>1, <3>2, <3>3, <3>4, <3>5
  <2> QED BY <1>4, <2>1, <2>2, <2>4 DEF Operation
<1>5. CASE Committing
  <2>1. ASSUME NEW who \in {"op", "sync", "unmount"}, Commit(who) PROVE disk' = disk /\ found' = found /\ lost' = lost
    BY <1>2, <2>1 DEF Commit
  <2>2. CASE WrapLog
    BY <1>2, <2>2 DEF WrapLog, LogAt, observed
  <2>3. CASE AppendLog
    BY <1>2, <2>3 DEF AppendLog, LogAt, observed
  <2>4. CASE Checkpoint
    BY <1>2, <2>4 DEF Checkpoint
  <2>5. CASE CommitRecord \/ CommitFlush \/ CommitData \/ IoError
    BY <1>2, <2>5 DEF CommitRecord, CommitFlush, CommitData, IoError, observed, media, device
  <2> QED BY <1>5, <2>1, <2>2, <2>3, <2>4, <2>5 DEF Committing
<1>6. CASE Closing
  <2>1. CASE SyncDone
    BY <1>2, <2>1 DEF SyncDone, observed
  <2>2. CASE CleanTail
    BY <1>2, <2>2 DEF CleanTail, observed
  <2>3. CASE CleanFlag
    BY <1>2, <2>3 DEF CleanFlag, observed
  <2>4. CASE CleanDone
    BY <1>2, <2>4 DEF CleanDone, observed
  <2>5. CASE CloseFails
    <3>1. disk' = disk /\ found' = found
      BY <2>5 DEF CloseFails, media, device
    <3>2. lost' = (lost \/ (st = "unflagged" /\ caller = "sync"))
      BY <2>5 DEF CloseFails
    <3>3. lost => lost'
      BY <3>2, Zenon
    <3> QED BY <3>1, <3>3, Zenon
  <2>6. CASE UnmountDead
    BY <2>6 DEF UnmountDead, observed, media, device
  <2> QED BY <1>6, <2>1, <2>2, <2>3, <2>4, <2>5, <2>6 DEF Closing
<1>7. CASE PowerCut
  <2>1. \A m : Lose(m) => Recovering
    BY DEF Lose
  <2> QED BY <1>7, <2>1 DEF PowerCut
<1> QED BY <1>1, <1>3, <1>4, <1>5, <1>6, <1>7 DEF Next

LEMMA FlagInit == Init => FlagInv
<1> SUFFICES ASSUME Init PROVE FlagInv
  OBVIOUS
<1>1. disk = Formatted /\ dev = Formatted /\ pend = [b \in Blocks |-> {}]
  BY DEF Init
<1>2. \A b \in Blocks : Copies(b) = {Formatted[b]}
  BY <1>1 DEF Copies
<1>3. Formatted[Sb] = Blank[Sb] /\ Formatted[Jsb].start = 0 /\ \A b \in LogBlks : Formatted[b] = NoRec
  <2>1. Formatted[Sb] = Blank[Sb]
    <3> HIDE DEF Blank
    <3> QED BY BlockFacts DEF Formatted
  <2>2. Formatted[Jsb].start = 0
    BY BlockFacts DEF Formatted
  <2>3. \A b \in LogBlks : Formatted[b] = NoRec
    <3> TAKE b \in LogBlks
    <3>1. b # Jsb /\ b \in Blocks
      BY BlockFacts
    <3> QED BY <3>1 DEF Formatted
  <2> QED BY <2>1, <2>2, <2>3
<1>4. RecOk(NoRec)
  BY DEF RecOk, NoRec, Rec, Type
<1>5. Formatted = [b \in Blocks |-> Formatted[b]]
  BY DEF Formatted
<1>6. MediaInv
  <2>1. Copies(Sb) \subseteq SbType
    BY <1>2, <1>3, BlankTyped, BlockFacts
  <2>2. \A b \in LogBlks : \A r \in Copies(b) : RecOk(r)
    BY <1>2, <1>3, <1>4, BlockFacts
  <2> HIDE DEF Formatted
  <2> QED BY <1>1, <1>5, <2>1, <2>2 DEF MediaInv
<1>7. FlagSafe
  <2>1. Copies(Jsb) = {Formatted[Jsb]}
    BY <1>2, BlockFacts
  <2> HIDE DEF Formatted
  <2> QED BY <1>3, <2>1 DEF FlagSafe
<1>8. mem = Blank /\ txn = NoTxn /\ dirty = {} /\ jnl = NoJnl /\ inUse = FALSE /\ st = "off"
  BY DEF Init
<1>9. MemInv
  <2>1. mem = [b \in Home |-> mem[b]] /\ mem[Sb] \in SbType
    <3> HIDE DEF Blank
    <3> QED BY <1>8, BlankTyped
  <2> HIDE DEF Blank
  <2> QED BY <1>8, <2>1 DEF MemInv, NoTxn, NoJnl, First
<1>10. UseInv
  BY <1>8 DEF UseInv, Going
<1>11. TailInv
  BY <1>8 DEF TailInv, Stepping, Going, Ending
<1> QED BY <1>6, <1>7, <1>9, <1>10, <1>11, FoundInit DEF FlagInv, Rest

LEMMA FlagStep == FlagInv /\ [Next]_vars => FlagInv'
<1> SUFFICES ASSUME FlagInv, [Next]_vars PROVE FlagInv'
  OBVIOUS
<1>1. FoundInv' /\ (lost => lost')
  BY FoundSteps, FoundAgain DEF FlagInv
<1>2. ASSUME Rest PROVE lost' \/ Rest'
  <2>1. CASE UNCHANGED vars
    <3>1. MediaInv' /\ FlagSafe' /\ (AllRec => AllRec') /\ dev' = dev
      BY <1>2, <2>1, SameMedia DEF Rest, vars
    <3>2. UNCHANGED <<st, mem, txn, dirty, jnl, inUse, caller>>
      BY <2>1 DEF vars, memory
    <3>3. MemInv'
      BY <1>2, <3>2 DEF Rest, MemInv
    <3>4. UseInv'
      BY <1>2, <3>1, <3>2 DEF Rest, UseInv
    <3>5. TailInv'
      BY <1>2, <3>1, <3>2 DEF Rest, TailInv
    <3> QED BY <3>1, <3>3, <3>4, <3>5 DEF Rest
  <2> QED BY <1>2, <2>1, MountRest, OperationRest, CommittingRest, ClosingRest, PowerRest DEF Next
<1> QED BY <1>1, <1>2 DEF FlagInv

\* While the flag on the medium is clear the home blocks are what a mount finds, whatever
\* writes a power loss kept: the flag is cleared only behind a flush that emptied the
\* journal, and a tail is written only on a volume whose every copy says it is in use
\* (recover, set_mounted_state, sfs_journal_commit).
THEOREM FlagIsHonest == Spec => []FlagMeansReplay
<1>1. FlagInv => FlagMeansReplay
  <2> SUFFICES ASSUME FlagInv, ~ lost, ~ disk[Sb].rec
               PROVE  View(disk) = found.view
    BY DEF FlagMeansReplay
  <2>1. FoundInv /\ FlagSafe
    BY DEF FlagInv, Rest
  <2>2. disk[Jsb].start = 0
    BY <2>1 DEF FlagSafe, Copies
  <2>3. Recovered(disk) = HomeOf(disk)
    BY <2>2 DEF Recovered
  <2>4. found.view = View(HomeOf(disk))
    BY <2>1, <2>3 DEF FoundInv
  <2>5. \A b \in Home : HomeOf(disk)[b] = disk[b]
    BY DEF HomeOf
  <2>6. HomeOf(disk)[Sb] = disk[Sb] /\ HomeOf(disk)[Inode] = disk[Inode]
        /\ \A p \in PoolSet : HomeOf(disk)[p] = disk[p]
    BY <2>5, BlockFacts
  <2>7. View(HomeOf(disk)) = View(disk)
    <3> DEFINE Q == {q \in PoolSet : disk[Inode].refs[q].role = "meta"}
    <3>1. [p \in Q |-> HomeOf(disk)[p]] = [p \in Q |-> disk[p]]
      BY <2>6
    <3> QED BY <2>6, <3>1 DEF View
  <2> QED BY <2>4, <2>7
<1> QED BY <1>1, FlagInit, FlagStep, PTL DEF Spec
=============================================================================
