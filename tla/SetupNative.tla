---------------------------- MODULE SetupNative ----------------------------
(***************************************************************************)
(* The installer's system call (kernel64/setup_native_sys.c) on top of the *)
(* block authority: processes open and admit installer files, review a     *)
(* disk, claim it, write to it and release it. Calls and the teardown of a *)
(* process run one at a time under the service's mutex; the block layer    *)
(* goes on beside them. A call that changes nothing is no step.            *)
(***************************************************************************)
EXTENDS BlkAuthority

CONSTANTS Procs,    \* process slots; a process that exits may come back as another
          Machines  \* disks that are there, processes that call, epochs so far: Init picks one

ASSUME SetupAssumption ==
  None \notin Procs /\ Machines \subseteq [disks : SUBSET Disks, procs : SUBSET Procs, epoch : 0 .. MaxEpoch, opens : 0 .. MaxOpens]

VARIABLES machine,
          owners,  \* owner slots: process, retired, sources, claim and its identity
          call,    \* the process whose claim is granted but not yet copied out, or None
          mine     \* history: the claim each process has been granted, until it ends

service == <<owners, call, mine, machine>>
setupVars == <<diskWords, archive, service>>

Files == 1 .. 2   \* an owner's sources: the manifest and the image, in this order
NoSource == [cap |-> None, gen |-> 0, admitted |-> FALSE]
NoOwner == [proc |-> None, retired |-> FALSE, claim |-> None, target |-> 0,
            sources |-> [i \in Files |-> NoSource]]

SetupInit ==
  /\ machine \in Machines /\ AuthorityInit(machine.epoch, machine.opens)
  /\ owners = [o \in Owners |-> NoOwner]
  /\ call = None /\ mine = [p \in Procs |-> None]

\* owner_for
OwnedBy(p) == {o \in Owners : owners[o].proc = p /\ ~owners[o].retired}
Vacant == {o \in Owners : owners[o].proc = None /\ ~owners[o].retired}
SlotFor(p) == IF OwnedBy(p) # {} THEN OwnedBy(p) ELSE Vacant

\* tidy
Tidy(own) == IF own.claim = None /\ \A i \in Files : own.sources[i].cap = None THEN NoOwner ELSE own

\* pair: the owner's two sources, admitted as manifest and as image.
Paired(o) == \A i \in Files :
  LET s == owners[o].sources[i]
  IN  s.cap # None /\ s.admitted /\ Matches(s.cap, s.gen) /\ snap[s.cap].owner = o
Pins(o) == {<<owners[o].sources[i].cap, owners[o].sources[i].gen>> : i \in Files}

-----------------------------------------------------------------------------
\* SHZ_NATIVE_OPEN. When its answer cannot be copied out the source is closed again,
\* with the service's mutex still held, which leaves the used-up generation.
OpenSource(p, published) ==
  \E o \in SlotFor(p), i \in Files, a \in Snapshots :
    /\ call = None /\ owners[o].claim = None
    /\ owners[o].sources[i].cap = None /\ \A j \in 1 .. i - 1 : owners[o].sources[j].cap # None
    /\ IF published
         THEN /\ Open(o, a)
              /\ owners' = [owners EXCEPT ![o].proc = p,
                                          ![o].sources[i] = [cap |-> a, gen |-> opens + 1, admitted |-> FALSE]]
         ELSE CanOpen(a) /\ opens' = opens + 1 /\ UNCHANGED <<snap, owners>>
    /\ UNCHANGED <<diskWords, call, mine, machine>>

\* SHZ_NATIVE_ADMIT as the role the file's digest has.
Admit(p) ==
  \E o \in OwnedBy(p), i \in Files :
    /\ call = None
    /\ owners[o].sources[i].cap # None /\ ~owners[o].sources[i].admitted
    /\ owners' = [owners EXCEPT ![o].sources[i].admitted = TRUE]
    /\ UNCHANGED <<diskWords, archive, call, mine, machine>>

\* SHZ_NATIVE_CLOSE
Close(p) ==
  \E o \in OwnedBy(p), i \in Files :
    LET s == owners[o].sources[i]
    IN  /\ call = None /\ s.cap # None
        /\ snap' = [snap EXCEPT ![s.cap] = Closed(@, o, s.gen)]
        /\ owners' = [owners EXCEPT ![o] = Tidy([owners[o] EXCEPT !.sources[i] = NoSource])]
        /\ UNCHANGED <<diskWords, opens, call, mine, machine>>

\* SHZ_NATIVE_REVIEW, its answer copied out.
Review(p, d) ==
  \E o \in OwnedBy(p) :
    /\ call = None /\ owners[o].claim = None /\ Paired(o)
    /\ ReviewTarget(d, Pins(o))
    /\ UNCHANGED service

\* SHZ_NATIVE_CLAIM with an identity some review has told, up to the copy.
Claim(p, d) ==
  \E o \in OwnedBy(p), id \in reviewed :
    /\ call = None /\ owners[o].claim = None /\ Paired(o) /\ id[1] = d
    /\ ClaimTarget(o, d, id[2], Pins(o))
    /\ owners' = [owners EXCEPT ![o].claim = d, ![o].target = id[2]]
    /\ mine' = [mine EXCEPT ![p] = id]
    /\ call' = p
    /\ UNCHANGED machine

\* SHZ_NATIVE_TARGET_READ, TARGET_WRITE and FLUSH.
TargetIo(p, write, failed) ==
  \E o \in OwnedBy(p) :
    /\ call = None /\ owners[o].claim # None
    /\ ClaimIo(o, owners[o].claim, owners[o].target, write, failed)
    /\ UNCHANGED service

\* blk_authority_release for the owner's claim; refused when there is no epoch left.
ReleaseClaim(o) ==
  LET d == owners[o].claim
  IN  /\ d # None /\ Released(o, d, owners[o].target)
      /\ snap' = IF claim'[d] = NoClaim THEN SnapsDropped(d) ELSE snap
      /\ owners' = IF claim'[d] = NoClaim
                     THEN [owners EXCEPT ![o] = Tidy([owners[o] EXCEPT !.claim = None, !.target = 0])]
                     ELSE owners
      /\ UNCHANGED <<mounted, roles, flying, reviewed, outdated, intruded, opens>>

\* SHZ_NATIVE_RELEASE
Release(p) ==
  \E o \in OwnedBy(p) :
    /\ call = None /\ ReleaseClaim(o)
    /\ mine' = IF owners'[o].claim = None THEN [mine EXCEPT ![p] = None] ELSE mine
    /\ UNCHANGED <<call, machine>>

Published ==
  /\ call # None /\ call' = None
  /\ UNCHANGED <<diskWords, archive, owners, mine, machine>>

\* The answer to a claim cannot be copied out: it is released again.
PublishFails ==
  \E o \in Owners :
    /\ call # None /\ o \in OwnedBy(call) /\ call' = None
    /\ ReleaseClaim(o)
    /\ mine' = IF owners'[o].claim = None THEN [mine EXCEPT ![call] = None] ELSE mine
    /\ UNCHANGED machine

-----------------------------------------------------------------------------
\* setup_native_process_teardown's end: what is left over is never reused.
LeftNamed(own) == Tidy([own EXCEPT !.sources = NoOwner.sources])
Left(own) ==
  LET t == Tidy([own EXCEPT !.sources = NoOwner.sources])
  IN  IF t = NoOwner THEN t ELSE [t EXCEPT !.retired = TRUE, !.proc = None]

\* The snapshots sn once owner o's sources are closed.
AllClosed(sn, o) ==
  [a \in Snapshots |->
     LET held == {s \in {owners[o].sources[i] : i \in Files} : s.cap = a}
     IN  IF held = {} THEN sn[a] ELSE Closed(sn[a], o, (CHOOSE s \in held : TRUE).gen)]

\* setup_native_process_teardown: the claim, if it can be released, then the sources.
Exit(p) ==
  /\ call = None
  /\ mine' = [mine EXCEPT ![p] = None]
  /\ \E o \in OwnedBy(p) :
       LET d == owners[o].claim
           release == d # None /\ MayRelease(o, d, owners[o].target) /\ epoch # MaxEpoch
       IN  /\ snap' = AllClosed(IF release THEN SnapsDropped(d) ELSE snap, o)
           /\ owners' = [owners EXCEPT ![o] =
                           Left(IF release THEN [owners[o] EXCEPT !.claim = None, !.target = 0] ELSE owners[o])]
           /\ IF d # None /\ MayRelease(o, d, owners[o].target)
                THEN Released(o, d, owners[o].target)
                ELSE UNCHANGED <<gen, epoch, poisoned, claim>>
  /\ UNCHANGED <<mounted, roles, flying, reviewed, outdated, intruded, opens, call, machine>>

-----------------------------------------------------------------------------
\* k64_boot_storage_bind: an external medium, or the disk that is boot and archive.
Boot ==
  /\ BindRoles(2, {}) \/ \E b \in machine.disks : BindRoles(1, {b})
  /\ UNCHANGED service

SetupNext ==
  \/ Boot
  \/ BlockLayer(machine.disks) /\ UNCHANGED service
  \/ \E p \in machine.procs :
       \/ \E published \in BOOLEAN : OpenSource(p, published)
       \/ Admit(p) \/ Close(p)
       \/ \E d \in machine.disks : Review(p, d) \/ Claim(p, d)
       \/ \E write, failed \in BOOLEAN : TargetIo(p, write, failed)
       \/ Release(p) \/ Exit(p)
  \/ Published \/ PublishFails

SetupSpec == SetupInit /\ [][SetupNext]_setupVars

-----------------------------------------------------------------------------
\* A claim is granted only on a review that still describes the disk: nobody has
\* written to it, and no driver has failed half-way, since the identity was told.
ClaimAsReviewed ==
  [][\A d \in Disks : d \notin Claimed /\ claim'[d].owner # None
       => <<d, owners'[claim'[d].owner].target>> \notin outdated]_setupVars

\* A claimed disk belongs to its owner alone: no volume is mounted on it, it is not
\* the disk the system was started from, and nobody else's write reaches it, not even
\* one that was checked before the claim.
ClaimIsExclusive ==
  /\ Claimed \cap mounted = {} /\ intruded = {}
  /\ \A d \in Claimed : ~Excluded(d)

\* The references of a snapshot are its opener's and those of claims that name it, so
\* that the files a claim was granted for live as long as the claim.
SnapshotsKept ==
  /\ \A d \in Claimed : SourcesOk(claim[d].sources)
  /\ \A a \in Snapshots :
       snap[a].refs = Cardinality({d \in Claimed : <<a, snap[a].gen>> \in claim[d].sources})
                      + (IF snap[a].owner = None THEN 0 ELSE 1)

\* Owner slots and claims name each other, and a process reaches only the claim it
\* was granted itself, although its slot, address and number may be reused.
CustodyIsPersonal ==
  /\ \A o \in Owners, d \in Disks : claim[d].owner = o <=> owners[o].claim = d
  /\ \A o \in Owners : \A p \in Procs :
       o \in OwnedBy(p) /\ owners[o].claim # None => mine[p] = <<owners[o].claim, owners[o].target>>
  /\ \A o \in Owners, i \in Files :
       LET s == owners[o].sources[i] IN s.cap # None => Matches(s.cap, s.gen) /\ snap[s.cap].owner = o

\* Both: what a claim rests on is kept, and for its own process only.
CustodyKept == SnapshotsKept /\ CustodyIsPersonal

\* A claim whose disk is in an unknown state is kept, with its snapshots, for good:
\* neither release nor the end of the process gives the disk back.
PoisonedIsKept ==
  [][\A d \in Claimed : poisoned[d] => poisoned'[d] /\ claim'[d] = claim[d] /\ gen'[d] = gen[d]]_setupVars
=============================================================================
