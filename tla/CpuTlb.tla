------------------------------- MODULE CpuTlb -------------------------------
(***************************************************************************)
(* The shared-root TLB shootdown of kernel64/cpu_tlb.c: the BSP (CPU 0)    *)
(* replaces the leaf of one page and waits until every CPU acknowledged    *)
(* that it dropped the old translation. BSP calls and the IPI handler of   *)
(* each AP interleave access by access; the hardware fills and evicts TLB *)
(* entries whenever it likes. The caller is free: it may repeat a call or  *)
(* name a generation that is over.                                         *)
(***************************************************************************)
EXTENDS Integers

CONSTANTS N,       \* tlb.count: the CPUs are 0 .. N-1 and CPU 0 is the BSP
          MaxGen,  \* generations stop here (UINT64_MAX >> 2 in the source)
          None     \* no cached translation

ASSUME TlbAssumption == N \in Nat \ {0} /\ MaxGen \in Nat /\ None \notin {0, 1}

CPUs == 0 .. (N - 1)
APs == 1 .. (N - 1)
Frames == {0, 1}

VARIABLES phase,       \* tlb.phase: one word <<generation, state>>
          generation, request, completed, ack, ready, diagnostic,
          leaf,        \* the frame the leaf entry maps (tlb.index follows it)
          entry,       \* each CPU's cached translation of the aperture
          ipi,         \* CPUs with the TLB vector pending (one bit: coalesces)
          online,      \* CPUs in SHZ_SMP_CPU_ONLINE
          at, gen, cpu, index,  \* where the BSP is, its arguments and its loop
          irq, irqGen           \* where each AP's IPI handler is; its generation

bsp == <<at, gen, cpu, index>>
handler == <<irq, irqGen>>
words == <<phase, generation, request, completed, ack>>
tlbVars == <<words, ready, diagnostic, leaf, entry, ipi, online, bsp, handler>>

Generations == 0 .. MaxGen
States == {"idle", "publishing", "pending", "poisoned"}
BspPlaces == {"call", "claimed", "leafed", "issued", "requested", "invalidated",
              "acked", "sending", "scanning", "closing", "closed"}
HandlerPlaces == {"none", "loaded", "checked", "invalidating", "invalidated"}

TlbTypeOK ==
  /\ phase \in Generations \X States
  /\ generation \in Generations /\ request \in Generations /\ completed \in Generations
  /\ ack \in [CPUs -> Generations]
  /\ ready \subseteq CPUs /\ ipi \subseteq CPUs /\ online \subseteq CPUs
  /\ diagnostic \in {"none", "skip", "withhold"}
  /\ leaf \in Frames
  /\ entry \in [CPUs -> Frames \cup {None}]
  /\ at \in BspPlaces /\ gen \in Generations /\ cpu \in 0 .. N /\ index \in Frames
  /\ irq \in [APs -> HandlerPlaces]
  /\ irqGen \in [APs -> Generations]

\* shz_cpu_tlb_prepare has run; the APs are online and may have the page cached.
TlbInit ==
  /\ phase = <<0, "idle">>
  /\ generation = 0 /\ request = 0 /\ completed = 0
  /\ ack = [c \in CPUs |-> 0]
  /\ ready = {} /\ ipi = {} /\ online = CPUs
  /\ diagnostic \in {"none", "skip", "withhold"}
  /\ leaf = 0
  /\ entry \in [CPUs -> {None, 0}]
  /\ at = "call" /\ gen = 0 /\ cpu = 0 /\ index = 0
  /\ irq = [c \in APs |-> "none"]
  /\ irqGen = [c \in APs |-> 0]

\* The BSP moves to place p of the call; a return clears its locals.
Go(p, g, c, i) == at' = p /\ gen' = g /\ cpu' = c /\ index' = i
Return == Go("call", 0, 0, 0)
Phase(g, s) == <<g, s>>

DescriptorValid(g) == g # 0 /\ g = request /\ g = generation

-----------------------------------------------------------------------------
\* The memory hardware: fill from the current leaf, evict at any time.
Fill(c) ==
  /\ entry[c] = None
  /\ entry' = [entry EXCEPT ![c] = leaf]
  /\ UNCHANGED <<words, ready, diagnostic, leaf, ipi, online, bsp, handler>>

Evict(c) ==
  /\ entry[c] # None
  /\ entry' = [entry EXCEPT ![c] = None]
  /\ UNCHANGED <<words, ready, diagnostic, leaf, ipi, online, bsp, handler>>

Invlpg(c) == entry' = [entry EXCEPT ![c] = None]

\* An AP takes a fatal fault and halts where it is.
Fail(c) ==
  /\ c \in online
  /\ online' = online \ {c}
  /\ UNCHANGED <<words, ready, diagnostic, leaf, entry, ipi, bsp, handler>>

Enroll(c) ==
  /\ c \in online
  /\ IF c = 0 THEN at = "call" ELSE irq[c] = "none"
  /\ request = 0
  /\ phase[2] = "idle"
  /\ ready' = ready \cup {c}
  /\ UNCHANGED <<words, diagnostic, leaf, entry, ipi, online, bsp, handler>>

-----------------------------------------------------------------------------
BeginClaimNotPending(i) ==
  /\ at = "call"
  /\ i # leaf
  /\ generation < MaxGen
  /\ ready = CPUs
  /\ phase[2] # "pending"
  /\ phase' = Phase(generation, "publishing")
  /\ Go("claimed", 0, 0, i)
  /\ UNCHANGED <<generation, request, completed, ack, ready, diagnostic, leaf, entry, ipi, online, handler>>

\* shz_cpu_tlb_begin(index), in the order of its writes. Interrupts are off on
\* the BSP from the claim to the return.
BeginClaim(i) ==
  /\ at = "call"
  /\ i # leaf
  /\ generation < MaxGen
  /\ ready = CPUs
  /\ phase = Phase(generation, "idle")
  /\ phase' = Phase(generation, "publishing")
  /\ Go("claimed", 0, 0, i)
  /\ UNCHANGED <<generation, request, completed, ack, ready, diagnostic, leaf, entry, ipi, online, handler>>

\* The aperture is no longer valid, or a CPU set the accessed or dirty bit
\* between the load of the leaf and its compare-and-swap.
BeginUnchanged ==
  /\ at = "claimed"
  /\ phase' = Phase(generation, "idle")
  /\ Return
  /\ UNCHANGED <<generation, request, completed, ack, ready, diagnostic, leaf, entry, ipi, online, handler>>

BeginLeaf ==
  /\ at = "claimed"
  /\ leaf' = index
  /\ Go("leafed", 0, 0, 0)
  /\ UNCHANGED <<words, ready, diagnostic, entry, ipi, online, handler>>

BeginIssue ==
  /\ at = "leafed"
  /\ generation' = generation + 1
  /\ Go("issued", 0, 0, 0)
  /\ UNCHANGED <<phase, request, completed, ack, ready, diagnostic, leaf, entry, ipi, online, handler>>

BeginRequest ==
  /\ at = "issued"
  /\ request' = generation
  /\ Go("requested", 0, 0, 0)
  /\ UNCHANGED <<phase, generation, completed, ack, ready, diagnostic, leaf, entry, ipi, online, handler>>

BeginInvlpg ==
  /\ at = "requested"
  /\ Invlpg(0)
  /\ Go("invalidated", 0, 0, 0)
  /\ UNCHANGED <<words, ready, diagnostic, leaf, ipi, online, handler>>

BeginAck ==
  /\ at = "invalidated"
  /\ ack' = [ack EXCEPT ![0] = generation]
  /\ Go("acked", 0, 0, 0)
  /\ UNCHANGED <<phase, generation, request, completed, ready, diagnostic, leaf, entry, ipi, online, handler>>

BeginPending ==
  /\ at = "acked"
  /\ phase' = Phase(generation, "pending")
  /\ Return
  /\ UNCHANGED <<generation, request, completed, ack, ready, diagnostic, leaf, entry, ipi, online, handler>>

-----------------------------------------------------------------------------
\* The compare-and-swap of shz_cpu_tlb_poison: only this generation's PENDING.
Poisoned(g) == IF phase = Phase(g, "pending") THEN Phase(g, "poisoned") ELSE phase

Poison(g) ==
  /\ at = "call"
  /\ g # 0
  /\ phase' = Poisoned(g)
  /\ UNCHANGED <<generation, request, completed, ack, ready, diagnostic, leaf, entry, ipi, online, bsp, handler>>

\* shz_cpu_tlb_dispatch(g): check, then one IPI per AP. A later sending may
\* follow the completion of g only when the caller repeats the call.
DispatchStart(g) ==
  /\ at = "call"
  /\ g = request
  /\ phase = Phase(g, "pending")
  /\ Go("sending", g, 1, 0)
  /\ UNCHANGED <<words, ready, diagnostic, leaf, entry, ipi, online, handler>>

DispatchSend ==
  /\ at = "sending"
  /\ cpu \in online
  /\ ipi' = ipi \cup {cpu}
  /\ Go("sending", gen, cpu + 1, 0)
  /\ UNCHANGED <<words, ready, diagnostic, leaf, entry, online, handler>>

\* shz_smp_send_ipi fails: the target is not online, or the APIC gave up.
DispatchFailed ==
  /\ at = "sending"
  /\ cpu < N
  /\ phase' = Poisoned(gen)
  /\ Return
  /\ UNCHANGED <<generation, request, completed, ack, ready, diagnostic, leaf, entry, ipi, online, handler>>

DispatchDoneEarly ==
  /\ at = "sending"
  /\ cpu >= N - 1
  /\ Return
  /\ UNCHANGED <<words, ready, diagnostic, leaf, entry, ipi, online, handler>>

DispatchDone ==
  /\ at = "sending"
  /\ cpu = N
  /\ Return
  /\ UNCHANGED <<words, ready, diagnostic, leaf, entry, ipi, online, handler>>

\* The bring-up test sends the same vector outside any generation.
StrayIpi(c) ==
  /\ c \in online
  /\ ipi' = ipi \cup {c}
  /\ UNCHANGED <<words, ready, diagnostic, leaf, entry, online, bsp, handler>>

-----------------------------------------------------------------------------
\* shz_cpu_tlb_ipi on AP c. A failed CPU executes nothing more. On the BSP the
\* handler returns at its first checks: begin acknowledges for CPU 0 before the
\* phase is PENDING.
Running(c, p) == c \in online /\ irq[c] = p
Enter(c, p, g) == irq' = [irq EXCEPT ![c] = p] /\ irqGen' = [irqGen EXCEPT ![c] = g]
Leave(c) == Enter(c, "none", 0)

IpiLoadPhase(c) ==
  /\ Running(c, "none")
  /\ c \in ipi
  /\ ipi' = ipi \ {c}
  /\ IF phase[2] = "pending" THEN Enter(c, "loaded", phase[1]) ELSE UNCHANGED handler
  /\ UNCHANGED <<words, ready, diagnostic, leaf, entry, online, bsp>>

IpiLoadAck(c) ==
  /\ Running(c, "loaded")
  /\ IF ack[c] = irqGen[c] THEN Leave(c) ELSE Enter(c, "checked", irqGen[c])
  /\ UNCHANGED <<words, ready, diagnostic, leaf, entry, ipi, online, bsp>>

IpiDescriptor(c) ==
  /\ Running(c, "checked")
  /\ IF DescriptorValid(irqGen[c]) /\ ~(c = 1 /\ diagnostic = "skip")
       THEN Enter(c, "invalidating", irqGen[c])
       ELSE Leave(c)
  /\ UNCHANGED <<words, ready, diagnostic, leaf, entry, ipi, online, bsp>>

IpiInvlpg(c) ==
  /\ Running(c, "invalidating")
  /\ Invlpg(c)
  /\ IF c = 1 /\ diagnostic = "withhold" THEN Leave(c) ELSE Enter(c, "invalidated", irqGen[c])
  /\ UNCHANGED <<words, ready, diagnostic, leaf, ipi, online, bsp>>

IpiAck(c) ==
  /\ Running(c, "invalidated")
  /\ ack' = [ack EXCEPT ![c] = irqGen[c]]
  /\ Leave(c)
  /\ UNCHANGED <<phase, generation, request, completed, ready, diagnostic, leaf, entry, ipi, online, bsp>>

-----------------------------------------------------------------------------
\* shz_cpu_tlb_finish(g): a completed, foreign or idle generation returns at
\* once; otherwise the acknowledgements are read one by one.
FinishStart(g) ==
  /\ at = "call"
  /\ g # 0
  /\ g = request
  /\ phase = Phase(g, "pending")
  /\ phase' = IF DescriptorValid(g) THEN phase ELSE Poisoned(g)
  /\ IF DescriptorValid(g) THEN Go("scanning", g, 0, 0) ELSE Return
  /\ UNCHANGED <<generation, request, completed, ack, ready, diagnostic, leaf, entry, ipi, online, handler>>

FinishScanAtLeastOne ==
  /\ at = "scanning"
  /\ IF ack[cpu] = gen THEN Go("closing", gen, 0, 0) ELSE Return
  /\ UNCHANGED <<words, ready, diagnostic, leaf, entry, ipi, online, handler>>

FinishScan ==
  /\ at = "scanning"
  /\ CASE ack[cpu] # gen -> Return    \* returns 1: still pending
       [] ack[cpu] = gen /\ cpu = N - 1 -> Go("closing", gen, 0, 0)
       [] ack[cpu] = gen /\ cpu # N - 1 -> Go("scanning", gen, cpu + 1, 0)
  /\ UNCHANGED <<words, ready, diagnostic, leaf, entry, ipi, online, handler>>

FinishClose ==
  /\ at = "closing"
  /\ phase = Phase(gen, "pending")
  /\ phase' = Phase(gen, "idle")
  /\ Go("closed", gen, 0, 0)
  /\ UNCHANGED <<generation, request, completed, ack, ready, diagnostic, leaf, entry, ipi, online, handler>>

FinishComplete ==
  /\ at = "closed"
  /\ completed' = gen
  /\ Return
  /\ UNCHANGED <<phase, generation, request, ack, ready, diagnostic, leaf, entry, ipi, online, handler>>

-----------------------------------------------------------------------------
Hardware(c) == Fill(c) \/ Evict(c)
Handler(c) == IpiLoadPhase(c) \/ IpiLoadAck(c) \/ IpiDescriptor(c) \/ IpiInvlpg(c) \/ IpiAck(c)
Begin == \/ \E i \in Frames : BeginClaim(i)
         \/ BeginUnchanged \/ BeginLeaf \/ BeginIssue \/ BeginRequest
         \/ BeginInvlpg \/ BeginAck \/ BeginPending
Dispatch == (\E g \in Generations : DispatchStart(g)) \/ DispatchSend \/ DispatchFailed \/ DispatchDone
Finish == (\E g \in Generations : FinishStart(g)) \/ FinishScan \/ FinishClose \/ FinishComplete

TlbNext == \/ \E c \in CPUs : Hardware(c) \/ Enroll(c)
        \/ \E c \in APs : Handler(c) \/ StrayIpi(c) \/ Fail(c)
        \/ Begin \/ Dispatch \/ Finish
        \/ \E g \in Generations : Poison(g)

TlbSpec == TlbInit /\ [][TlbNext]_tlbVars

\* Interrupts are enabled on an online CPU outside its handler, the handler
\* never waits, and the BSP's calls return.
TlbFairSpec == /\ TlbSpec
            /\ \A c \in APs : WF_tlbVars(Handler(c))
            /\ WF_tlbVars(DispatchSend \/ DispatchFailed \/ DispatchDone)

-----------------------------------------------------------------------------
Fresh(c) == entry[c] \in {None, leaf}

\* Between shootdowns no CPU translates the page to the retired frame: finish
\* returned 0 only after every CPU dropped the old leaf ("Only completed
\* generation ... permit repurposing old payload", cpu_tlb_stress.c:93).
NoStaleTranslation == phase[2] = "idle" => \A c \in CPUs : Fresh(c)

\* An acknowledgement of the published request means its CPU is already fresh,
\* whichever IPI, stray or repeated, the handler was answering.
AckMeansFresh ==
  at \notin {"leafed", "issued"} => \A c \in CPUs : ack[c] = request => Fresh(c)

\* The phase word names the current generation, or its predecessor while the
\* next one is being published: a stale finish or poison cannot touch its
\* successor (cpu_tlb.c:12-13).
PhaseNamesGeneration ==
  phase[1] = generation \/ (phase[2] = "publishing" /\ phase[1] + 1 = generation)

\* The fault controls fail closed: a CPU that skips its invalidation, or
\* withholds its acknowledgement, keeps the generation from ever completing.
FaultControlFailsClosed == diagnostic # "none" /\ N > 1 => completed = 0

\* A poisoned domain stays poisoned: nothing is published or completed again.
PoisonIsFinal == [][phase[2] = "poisoned" => UNCHANGED <<phase, generation, completed, leaf>>]_tlbVars

\* Once every AP was sent the IPI of a pending generation, each acknowledges
\* it, unless it failed, the fault control holds, or the BSP poisoned it.
AcksArrive ==
  \A g \in Generations \ {0} :
    (at = "sending" /\ gen = g /\ diagnostic = "none")
      ~> ((\A c \in CPUs : ack[c] = g) \/ phase[2] = "poisoned" \/ online # CPUs)
=============================================================================
