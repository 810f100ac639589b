# A TLA+ verification project for the ShizukuOS kernel

TLA+ modules that model the concurrent core of the repository's 64-bit kernel
(`src/shizukudos/kernel64`, `src/shizukudos/kcommon`) and the crash-safe core of
its file system (`src/shizukufs/v1/libsfs`), TLC configurations that
check them on small instances, and proofs checked by TLAPS.
`PROJECT.json` is the index: components, runs, mutants, the map from each
definition to the source lines it models, hazards, findings, theorems. Paths
below are relative to `src/shizukudos/kernel64` unless they say otherwise.

Run a configuration with `tlc -workers 2 -config Sched.cfg MCSched`, check the
proofs of a module with `tlapm SmpProofs.tla`.

## 1. The system

ShizukuOS is a C operating system: a 64-bit SMP kernel with an NT-like system
call interface, a journalled file system, drivers and network stack, a 32-bit
predecessor and a VMX supervisor. Everything that decides *who runs, who waits
and who may reuse what* is in the kernel, and whether a power loss may lose or mix up
what was written is decided in the journal; that is what this project is about.

| Part | State it keeps | Operations | What makes it hard |
|---|---|---|---|
| Ticket lock `kcommon/pma_sync.h` | `next`, `owner`, `reservation` | lock, trylock, unlock, several atomic accesses each | interleaving of the accesses; counters wrap; misused releases |
| TLB shootdown `cpu_tlb.c` | phase word, generation, request, completed, per-CPU acknowledgement, leaf entry | enroll, begin, dispatch, IPI handler, finish, poison | unlocked words read by interrupt handlers; lost, stray, late IPIs; failing CPUs |
| Dispatcher `sched_cpu.h`, `sched.c` | per-CPU priority FIFOs, thread state, `on_cpu`, quantum, ageing | schedule, switch completion, tick, wake, policy change | a thread is woken while its stack is still live; starvation |
| Thread lifecycle `sched.c` | thread slots, creator holds | create, publish, resume, block, exit, join, discard, reap | reuse of slots in the middle of a switch |
| AP worker service `kernel_ap_work.c`, `sched.c` | job slots with generations, workers, CPU admission, reschedule requests | start, submit, release, migrate, drain, stop; worker loop | two CPUs and a control call; park against wake; teardown |
| Object waits `objects.c`, `sysx.c` | objects, FIFO wait lists, wait descriptors, mutant ownership, references | wait any/all, signal, release, close, abandon | time-out, APC, signal and termination race for one wait |
| APCs and termination `ipc_core.c`, `proc.c` | APC counts, kill flags, the kill sweep | queue, deliver, terminate, check_kill | a thread that blocks after it was told to die |
| Kernel mutex, semaphore, sleep `sched.c:716-825` | waiter lists, wake ticks | lock, unlock, wait, post, sleep | time-out against post; a released mutex is not handed over |
| I/O completion, pipes, notifications `ipc_io.c`, `npfs.c`, `ipc_notify.c` | requests with references, pending lists, port packets and waiters | issue, pend, complete, cancel, wait, close | completion against cancellation, thread exit and the issuer's own return |
| Waitable timers `ipc_timer.c` | timer list | arm, cancel, fire | |
| Process lifecycle `proc.c`, `ipc_proc.c` | thread counts, exit owner, references | create, terminate, last thread, reap | lifetimes across objects |
| Block authority `blk.c`, `blk_authority.c`, `archive_source.c`, `setup_native_sys.c` | epoch, per-disk generation, mounts and poison, reviews, claims, snapshots, owner slots | open, admit, review, claim, write, release, close, exit; read, write, mount, register | a review that is outdated when used; a claim that outlives its process; driver errors |
| Virtqueue and its user `virtq.c`, `gfx_virtio.c` | descriptor free list, ring indices, batch slots | add, publish, kick, get_used, batch with a time-out | out-of-order and late answers, index wrap, notification suppression |
| Journal `src/shizukufs/v1/libsfs` | running transaction, block cache, deferred frees and revokes, log head and tail, needs_recovery | update, commit, checkpoint, sync, mount, recover, unmount | power loss or error between any two writes, also during recovery; reuse of freed blocks |
| VM, registry, loader, network, drivers | data structures, device registers | | mostly data layout or device protocols |
| Supervisor `../supervisor` | VMX domains, device epochs | | hardware control |

How they interact: every CPU section of the dispatcher runs under the queue
ticket (a ticket lock); waits of the object layer block and wake threads through
the dispatcher; the timer tick drives quanta, ageing, time-outs and the kill
sweep; the AP worker service shares the dispatcher's queues and stacks with the
BSP's scheduler and is driven by reschedule IPIs; the TLB shootdown uses
IPIs of its own and shares only the CPU lifecycle. Kernel mutexes, semaphores,
sleeps, request waits and port waits all block through the same two primitives and
share the thread's `wake_tick` and list link, so they are modelled together. The
file system is one thread above a disk; it meets the kernel only at its mount
(`sfs_mount.c:416` mounts with SFS_MOUNT_CLEAN_ON_SYNC).

Left aside: Win64 DLLs and applications, the NT wrapper trees, tools, site,
experiments, tests and third-party code.

## 2. Modules

Each module names the code it models at its definitions; a definition that a
mutant uses (a plausible wrong version of the one below it) stands directly
before the right one and is not used by the specification.

### FifoLock, TicketLock, SmpProofs: `kcommon/pma_sync.h`

`TicketLock` has one step per atomic access. `next`, `owner`, `reservation` are
the fields of `pma_ticketlock_t`; `pc`, `ticket`, `snap` are each caller's
position, ticket and trylock snapshot; `bad` is a token a caller releases
once more than it may, within its epoch. The 32-bit counters wrap at
`Modulus`; the source's requirement of fewer than 2^32 outstanding tickets is
`LockAssumption`. `FifoLock` is the promise of the header (first in, first out,
one holder); `ImplementsFifoLock` states the refinement with the queue of
outstanding tickets as `line`. `ForgeTokens` enables releases of numbers that were
never issued.

### CpuTlb, SmpProofs: `cpu_tlb.c`

One step per store or load of a shared word. The BSP's `begin`, `dispatch`,
`finish` and `poison` interleave with the handler of each AP, the memory
hardware (fills from the current leaf and evicts at will), stray IPIs of the
bring-up test and CPUs that take a fatal fault. The caller is free to repeat
calls and to pass outdated generations; the two fault controls of the source
(skip the invalidation, withhold the acknowledgement) are the variable
`diagnostic`. A TLB entry is the frame it maps or none. Stores are seen in
program order: the code runs on x86 and uses acquire/release and sequentially
consistent accesses. The names that a state machine usually has (`TlbInit`, `TlbNext`,
`TlbSpec`) carry a prefix because `SmpProofs` extends this module and
`TicketLock` and proves theorems about both.

### Dispatcher, DispatcherProofs, Sched, SchedProofs: `sched_cpu.h`, `sched.c`

`Dispatcher` holds what every CPU executes. One step is one section under the
queue ticket, with `pc` telling which section a CPU executes next: `schedule`
(relinquish, select, dispatch), `switch` (completion on the destination stack),
`tick`. A failed `KASSERT` sets `panic`. `ready_order` is the sequence
`arrivals`; `jiffies - ready_since` is `age`, kept up to the starvation limit.

`Sched` adds the lifecycle of threads on the BSP: create (with the reap it
starts with), publish as a user thread with or without a creator's hold, resume,
discard, join, reap, policy changes, yield, block, wake, exit, the tick and its
deferral at raised IRQL. `waited` is a history variable that counts eligible
ticks for `BoundedWait`. Why threads block is the subject of `KernelSync` and
`ObjectWait`; here it is `Block` and `Wake`. `Tables` is a set of thread tables (which slots
exist, which of them host driver code that may change IRQL), and Init picks
one: a behaviour uses one table, so that the run is the sum of two instances.

### ApWork, ApWorkProofs: `kernel_ap_work.c`, the AP part of `sched.c`

Extends `Dispatcher` with the job slots, the workers' loop (claim, complete,
park, quit), admission and withdrawal of CPUs and the control calls, which the
BSP executes one at a time (`bsp`): section under the ticket, IPIs one by one,
waiting. All workers have one priority, so ageing never decides; the BSP runs
`main` alone, so CPU 0 never switches. The digest a job computes is left out: it is
a function of the job. `Settings` is a set of machines and callers (homes of the
workers, masks of the jobs, targets of migrations, whether waits time out and
sends fail, generations) and Init picks one, so that one run is the sum of three
instances. The code creates two workers for each AP; the instances have two altogether.
`ap_work_signal` walks the workers in the order of `Workers`; `Those` is what such a
walk leaves of a list, a recursive function so that it can be reasoned about.

### ObjectWait, ObjectWaitProofs: `objects.c`, `sysx.c`, `ipc_core.c`, `proc.c`

Every operation runs with interrupts off on the only CPU that executes system
calls, so it is one step. A thread that blocks resumes in a step of its own and
everything may happen in between. `ob_release_check` is a loop over the wait
blocks of an object on a record of the state it changes. Each loop of the code is a
recursive function of the turns made (`Acquiring`, `Offering`, `Passes`, `Rounds`,
`Remaining`), so that it can be reasoned about; the same operator serves events, semaphores (up to n passes), mutants, abandonment and thread
objects. `ledger` is a history variable: what the callers were told.
Abstractions: one handle per object; the `abandoned` flag and names are not
kept; a thread's exit (abandonment, thread object, state) is one step because
interrupts are off; recursion of a mutant is bounded by `MaxRecursion` (2^31 in the code). `Settings` gives the programs
(threads, objects, waits, APCs) Init chooses from. The runs' waits name an object
at most once; the proofs make no such restriction.

### KernelSync, IoCompletion, IoCompletionProofs: `sched.c:697-825`, `ipc_io.c`, `npfs.c`, `ipc_notify.c`

Every section runs with interrupts off on the BSP and is one step; a section never
asks whether a thread is READY or RUNNING, so a thread that is not BLOCKED may take
its next step at any time. `KernelSync` holds the thread fields all waits share
(`blocked`, `wakeTick` in ticks from now, `waitSem`, `timedOut` for wait_result = -1)
with sleep, one `ksem_t`, one `kmutex_t`, the tick's time-outs and the wake-up of
threads that must die. `mutex_lock` does not clear `wake_tick` and `mutex_unlock`
hands nothing over; the model does the same. `units` is a history variable.

`IoCompletion` extends it with requests (`irp_t`) and one completion port. A
request ends during its system call (one step: nobody else can see it) or pends on
its file system's list; then any thread may complete it, `serve_writers` may take
it off its list and complete it in a later section, and cancellation, thread exit
or the issuer's own termination may get there first. `told` and `returned` record
how often and how its end was reported. A freed request's contents are dropped
unless they show a wrong report. `Workloads` says which calls each thread may
make; Init picks one, so the synchronisation and the I/O instance add up instead of
multiplying. A thread finds the port (`PortFound`, the reference `ipc_ref_handle`
takes) in one step and enters the section of `port_remove` in a later one; the port's last
handle may be closed in between. `CancelAccepted = FALSE` leaves out the cancellation of a request
between the two sections of `serve_writers`; the run `IoAccepted` allows it (section 6).
Hence what `RequestOutlivesUsers` says of a request being copied is put to the test by
`IoAccepted` only; in the run `IoCompletion` nothing threatens it.

### AtomicStore, BlockDevice, JournalLog, Journal, StorageProofs: `shizukufs/v1/libsfs`

`BlockDevice` is a disk with a volatile write cache: a flush makes everything
durable, a power loss keeps any subset of the writes since, per block any of the
values written. That is also the power cut of the repository's own crash test
(`tools/sfs_host.c`). `JournalLog` is the log as data: the blocks a transaction
writes, and recovery (scan, revoke, replay) as operators on a medium; a checksum is
modelled by what it covers. The walk of the scan and the choice of elements of a list
(`Walk`, `Kept`) are recursive functions, so that they can be reasoned about. `Journal` is the program: the running transaction
(buffers, deferred frees, revokes), dirty and late data, the commit in its flush
order, checkpoint, wrap, mount with replay, needs_recovery, sync and unmount. One
step is one group of writes up to a flush; it may stop after any of them.
Blocks are the free-space metadata (bitmaps, descriptors and superblock join a
transaction together), one inode block and a pool of blocks that is allocated as
metadata or data, truncated, freed and reused. Contents are a kind and the generation
that wrote them.

`AtomicStore` is the promise: the stable state moves only from one whole
transaction to the next, nothing is acknowledged before it is stable, a power loss leaves
the stable state or the offered one. The refinement maps `stable` to what a mount
would recover from the durable blocks *now* (`found`), so every intermediate
medium of commit, checkpoint and recovery is judged.

`WrapOrdered` is an assumption about the disk that the passing run makes and the
run `JournalWrap` drops (section 6).

### Virtq, VirtqProofs: `virtq.c`, `gfx_virtio.c`

The driver's side (free list, available ring with unpublished entries, `kick` in
its four accesses, `get_used`), the graphics driver as its user (`vg_run`: build a
batch, publish, kick, poll, give the device up after five seconds) and a device
that takes chains, answers them in any order, late or never, returns an id it was not
given at most `MaxStrange` times, and switches notifications off and on. Indices wrap at `IdxMod`
(2^16). Left out: `has_used` and interrupt suppression, which nobody calls;
the completion semaphore, which only shortens the poll; the cursor queue, another
instance of the same code. A used element that was consumed is forgotten
(`Bogus`), so that reading it twice would show. Ids lie within 16 bits: the
truncation `(uint16_t)e.id` (`virtq.c:95`) changes only an id of 65536 or more, which
would alias a head and which no device following the specification returns. The
run has one command, so there a mixed-up answer shows as a slot ticked off
unanswered; for several commands the theorem `AnswersAreTheBatchs` says that each
answer is taken as that of its own.

### BlkAuthority, SetupNative, StorageProofs: `blk.c`, `blk_authority.c`, `archive_source.c`, `setup_native_sys.c`, `vfs_mounts.c`, `boot_storage.c`

`BlkAuthority` is what the block layer knows of a disk: its generation (from one
global epoch), mounts and boot roles, writes on their way, poison, the claim, and the
snapshots of the installer's files with their references. `SetupNative` has one action
per installer call (open, admit, review, claim, write, release, close), the end of a
process and what everybody else does to disks meanwhile. The setup mutex makes a
call one step, except that a claim is granted before its answer is copied out and
is undone if that fails: the variable `call` and `PublishFails`. Process addresses and pids
are reused: `mine` is a history variable of what each process was granted, and `outdated`
of which reviews a write, a registration, a mount, or a failed read or flush (each a new
generation of the disk) has overtaken.
Left out: tokens and digests (a snapshot's identity is its slot and generation), the
optional third source, pins of whole devices (`blk_authority_pin_source`), which
no code calls, and calls that are refused and change nothing. A role has a kind, not the
identity of its bound origin, and `observed` (`blk_authority.c:41-51`), which compares a
device with its entry in the registry, is left out: nothing changes a
device's description once it is registered, so the comparison never fails. There is no
unmount in the code and none in the model. `SetupInit`, `SetupNext`, `SetupSpec`
and `MountVolume` have the names they have because `StorageProofs` extends this
module and `Journal` and proves theorems about both.

### MC modules

`MCTicketLock`, `MCCpuTlb`, `MCSched`, `MCApWork`, `MCObjectWait`, `MCIoCompletion`,
`MCJournal`, `MCVirtq`, `MCSetupNative` give values to the constants that a configuration file cannot express.

## 3. What the runs check

| Run | Instance | Shows |
|---|---|---|
| TicketLock | 3 CPUs, modulus 4, repeated releases | mutual exclusion, no ticket skipped or duplicated, a bad release fails, refinement of FifoLock, every ticket is served |
| TicketLockForged | as above, any token | the finding of section 6 (expected violation) |
| CpuTlb | 3 CPUs, 2 generations | no completed generation leaves a stale translation, with and without fault controls; poison is final; acknowledgements arrive |
| Sched | 3 threads and idle, or 2 driver threads and idle; 2 priorities, quantum up to 2, starvation after 3 ticks | no KASSERT fails; no thread is lost; the documented starvation bound, also under raised IRQL, which belongs to a thread and not to the CPU; dispatch order; no deadlock |
| ApWork | 2 workers and 1 slot: 2 APs with migration; 2 APs and jobs either may take; 1 AP, 2 generations, faults | no stack published while live, no job stranded, one owner per job across reuse of its slot, the pool outlives the CPUs, jobs complete |
| ObjectWait | 3 threads, 2 mutants, a semaphore of 2; or 2 threads, event, thread object, mutant taken twice, an APC each | no missed wake-up against signals, APCs and termination; wait blocks match waits, units and ownership balance, exact references; a thread that must die does not sleep past the sweep |
| Journal | 1 pool block, log of 15 blocks (two or three transactions), 2 tags per descriptor, up to 4 mounts, transactions and faults, 2 faults, clean-on-sync | refinement of AtomicStore; no foreign data in reused blocks; no torn truncate; a clear needs_recovery flag means nothing to replay |
| JournalWrap | the same without clean-on-sync and without the disk's ordering at a wrap | the second finding of section 6 (expected violation) |
| IoCompletion | 3 threads, 2 requests, a port, deadlines of one tick, batches of 2 | no unit and no waiter lost, each completion reported once, requests outlive their users, nobody sleeps through a completion, waits end |
| IoAccepted | the same, with cancellation between the sections of serve_writers | the third finding of section 6 (expected violation) |
| Virtq | 4 descriptors, indices modulo 8, chains of up to 3, batches of up to 2, 1 strange id | descriptors are neither lost nor shared; each chain answered once, and read as the answer of its own command; no lost kick; every batch ends |
| SetupNative | 1 process beside a second disk with an asynchronous driver, or 2 processes that want one disk; 2 owner slots, 4 epochs, 4 opens | a claim is exclusive, granted on a review that still holds, kept with its files, never inherited; a poisoned disk is never given back |

Why the bounds are enough. Modulus 4 with three CPUs makes every counter value
recur while tickets are outstanding, the tightest legal case. Two generations
are what a stale call, acknowledgement or IPI needs to meet a successor; three
CPUs give an AP that has acknowledged beside one that has not. Three competing
threads and two priorities give a running, a queued and a watched one; short
quanta and limits only scale the bound, whose formula is the documented one.
Two APs are needed for migration and for a job two CPUs race for (the first two
settings); one AP with two workers for a queue behind a running worker and, with
two generations, for a slot that is reused under a claim. Three threads give two waiters
and a signaller; the requests overlap so that one release may satisfy a
WaitAny, a WaitAll, both or none. Two threads suffice for termination and APCs,
which concern one victim. A log of two or three transactions wraps within the bound
and leaves an old transaction behind a new one; one pool block is
freed and reused in every role, which is the case revokes and deferred frees are
for; two faults give a power loss during the recovery from a power loss, and an I/O
error followed by one. Faults are spent early enough for a mount after the last
of them. Three threads give a mutex holder, a waiter and a newcomer, or an
issuer, a completer and a port waiter; two requests give a packet queued behind a
packet; a deadline of one tick races everything a longer one does. Four descriptors and
indices modulo 8 let chains of different length interleave, fill the ring and
wrap it twice. The epochs of SetupNative run out, which is a case of the code.

Deadlock is checked for Sched, where main never ends. It is
switched off elsewhere because the system may really stop: generations run out,
the worker service is torn down, every thread has exited, the faults and mounts of
the bound are used up, a device that was given up is never used again, every thread waits without a deadline for I/O that never comes.

Each module defines a type invariant. TicketLock's and CpuTlb's are part of the
proved inductive invariants; the others were checked with the runs' constants and are
not listed among a run's properties.

Each property has a mutant in `PROJECT.json`: a wrong version of one mapped
definition, under which TLC finds that property violated.

## 4. Fairness

* `TicketLock`: weak fairness of each CPU's steps once it is past reserve_try, in
  lock and trylock, and of the holder's release. Callers mask interrupts and critical
  sections are finite; nobody has to call lock.
* `CpuTlb`: weak fairness of each AP's handler, which never waits and whose CPU
  keeps interrupts on outside it, and of the BSP's dispatch loop, which has no
  waits. A failed CPU is not running and is therefore not enabled.
* `ApWork`: weak fairness of a BSP call that has begun and of the sections an AP
  runs with interrupts off. Strong fairness of taking a pending reschedule, of
  leaving the idle loop and of a worker's next step: the AP's timer may
  preempt before each of them again and again, but each is dispatched again and
  makes progress in its slice.
* `IoCompletion`: weak fairness of the timer tick, of the rest of a call whose
  thread is not BLOCKED and of a woken mutex waiter's retry (the dispatcher's
  bounded wait, `Sched`); strong fairness of the holder's unlock, because holders
  may block in between (for a deadline, in the model) but do release.
* `Virtq`: weak fairness of the driver's thread, which polls, and of its time-out
  (five seconds pass); nothing is assumed of the device.

No fairness is assumed of callers, submitters, posts, completions, time-outs of
other models, hardware fills or failures. `Journal`,
`ObjectWait` and `SetupNative` are checked for safety only; that a terminated thread
dies follows from `KilledAreSwept` and a timer that keeps ticking.

## 5. What is proved

`SmpProofs`, first part: the ticket lock, for every finite set of CPUs and every `Modulus` larger than
it, with `ForgeTokens = FALSE` (from `LockAssumption` only). The inductive
invariant `LockInv` has six parts: types; the reservation gate admits one
process; the outstanding tickets fill the ring from `owner` to `next` without
gap or duplicate (`RingInv`, by distances so that the wrap is no special case);
a holder's ticket is `owner`; a trylock that saw `owner = next` inside
the gate still sees it when it stores; a retired token lies outside the ring.
Mutual exclusion alone is not inductive: a release keeps it only because the
ring has no duplicates, and an issue only because the ring has room, which is a
cardinality argument (`RoomOnTheRing`). Theorems: `LockInvariant`,
`TypeCorrect`, `Exclusion`, `TicketsAreContiguous`, `TryLockIsIdle`,
`RepeatedReleaseFails`. `TicketLockIsFifo` is the refinement: with the outstanding
tickets in ring order as `line`, the increment of `next` (and the store of a
trylock) appends one caller, the holder's swap of `owner` removes the head, and every
other access stutters. That the ring order *is* the order of the queue needs the
whole of `RingInv`, at the wrap too.

`SmpProofs`, second part: the TLB shootdown, for every number of CPUs and generations (from `TlbAssumption`
only). `TlbInv` adds to the types where the BSP is relative to the phase word
(`BspInv`), that acknowledgements never run ahead of the request (`AckInv`),
freshness of who acknowledged (`FreshInv`), what a handler that is under way
relies on (`HandlerInv`: past its check of its own acknowledgement its remembered
generation is the current one, still pending or poisoned and not acknowledged by
this CPU; past the invalidation the CPU is fresh) and that under a fault control
nothing ever completes (`DiagnosticInv`). The handler part is the heart of the
argument: the missing acknowledgement itself keeps `finish` from closing the
generation, so that no new publication can begin under a handler that is about
to acknowledge. Theorems: `TlbInvariant`, `ShootdownIsComplete`,
`AcknowledgedIsFresh`, `PhaseIsExact`, `FaultControlsFailClosed`, `PoisonLasts`.
`AckMeansFresh`, `PhaseNamesGeneration`, `FaultControlFailsClosed` and the lock's
`TryTakesIdleLock` are proved and no longer model-checked.

`IoCompletionProofs`, for any threads, requests, kinds, deadlines and workloads,
with `CancelAccepted = FALSE` (from `IoAssumption` and `SyncAssumption`: finitely many
threads, whole ticks). A request's reference
count and what was reported of it are not inductive by themselves; `RequestInv`
ties them to who can reach it: the call a thread is in says whether it has a
request in its hands, and no request is in two (`HandsInv`); an allocated request
pends or pended, has one reference for its issuer and one for its queue until it
completes, and has been reported exactly as far as that requires, and a free one
is in nobody's hands (`RecordInv`); a request that `serve_writers` copies is off
its list and not complete (`AcceptInv`). The last part is what the assumption is
for: a cancellation finds only listed requests, which nobody copies. One lemma per
operation, over lemmas about what `Completed`, `Finished` and `Kept` do to one
request. Theorems: `RequestsAccounted`, `RequestsOutliveUsers`,
`CompletionsReportedOnce`.

The waits of the same system are the second half (`WaitInv`, with `RequestInv`), under
`CancelAccepted = FALSE` as well: a request cancelled between the two sections of
`serve_writers` is freed and may be issued anew while it is still copied, so
`RequestInv` is lost and with it what is known of whom its completion wakes.
`NoStrandedWaiter` is inductive together with who may have which wait field set
(`DeadlinesInv`, `SemInv`): wake_tick is set on BLOCKED threads only and never inside
`mutex_lock`, so neither a time-out nor the sweep of the terminated wakes a thread
that is linked in the mutex; wait_sem is set exactly on the threads linked in the
semaphore, so the time-out unlinks whom it wakes, and a post cannot reach a thread
whose time-out came first. The lists are lists of distinct threads; what appending, pushing,
taking the head and unlinking do to their members is `AppendList`, `PushList`, `TailList`
and `UnlinkedFacts` (the last by the recursion `Remaining`, as in `ApWorkProofs`).
`NoMissedCompletion` needs that irp->thread of a synchronous request names the
thread that has it in its hands (`IssuerInv`): that is whom `irp_complete` wakes. A
thread exit clears irp->thread, but only of requests no issuer waits for. On the port's side
(`PortInv`), the waiters are on the list until they leave `port_remove` or are handed a
packet, and a packet goes to the queue only when the list is empty. Theorems:
`WaitersAccounted`, `NobodyIsStranded`, `NobodySleepsThrough`.

`VirtqProofs`, for every queue size, index range, chain length and device behaviour
(from `VirtqAssumption` only). `KicksReachDevice`: `NoLostKick` is inductive with the
fields' types and one fact: a device that asks for no notifications is awake
(`QuietIsAwake`), so the chain whose kick was suppressed will be looked for.
`DescriptorsAreSharedOut` is about chains of links: the lemmas `CutKeeps` and `SpliceKeeps`
say what cutting a chain off the free list and splicing it back do to every other walk
through the table, and with them the partition of the table (`Chains`) is inductive
without a word about the rings. `AnswersAreTheBatchs` adds that no chain is in two
entries or in a ring and at the device (`Apart`) and that every chain in flight has a
slot of its own which is still waited for (`Commanded`): a batch given up leaves its
slots taken, so no late answer meets a new request. `ChainsAreInOnePlace` is
about positions modulo the queue size and needs that it divides the range of the
indices, with two entries to spare (the code's sizes are powers of two far below
2^16; for a size of 3 it is false, section 6). Its invariant `PInv` says which entries of the
two rings are occupied (`Offered`, `Returned`). The delicate part is the
device's strange id, which takes an entry that no chain accounts for: it is the
oldest unread one as long as any answer is due, so that the only entry an answer can
overwrite is the one that names no chain.

`StorageProofs`, first part, for any disks, processes, snapshots, slots and epochs. A claim is
exclusive because of what a *review* guarantees, so the invariant `AuthInv` is
about reviews: every generation in use is at most the epoch (`EpochInv`), so that the
one a change takes is new to all disks and reviews; disks with an asynchronous driver
are never reviewed, and an outdated identity is still a disk's own only if that disk is
poisoned or claimed, so that nobody can claim it (`ReviewInv`); a claimed disk is its
owner's alone (`AloneInv`). `SlotInv` types the owner slots. Each step keeps, grants or ends claims
(`ClaimsStep`), and only a grant needs the review. `ClaimsAreKept` has an invariant of
its own, `CustodyInv`: a snapshot's count is the claims that name it plus its
owner slot (`Accounted`, by the cardinality of that set, hence finitely many disks), slots and
claims name each other, no process has two slots, no snapshot is in a slot twice and a
retired slot has no process (`SlotsApart`): without the last part a reused slot
could inherit a claim. Theorems: `ClaimsAreExclusive`, `ClaimsAreReviewed`,
`PoisonLastsForClaims`, `ClaimsAreKept`.

`StorageProofs`, second part: the journal's needs_recovery flag, for any log length, tags per
descriptor, pool of blocks, number of updates and failures, with and without
`WrapOrdered` (from `JournalAssumption` and `LogAssumption`: log blocks are named by their place,
home blocks by what they hold, and a transaction fits into the log). `FlagMeansReplay`
is a statement about the durable blocks, and those may become any mixture of what was
written since the last flush; so the invariant `FlagInv` is about all `Copies` of a
block: durable, in the device, on its way. `FlagSafe` says that a copy of the metadata
with a clear flag exists only while every copy of the journal superblock says that the log is
empty. Two things could break it, and each has its guard: the flag is cleared behind
the flush that emptied the log (`TailInv`), and a tail is written only on a volume whose
copies all say that it is in use (`UseInv`), since the update that sets the flag is
flushed before the first commit. The third way is indirect: a checkpoint or a
recovery may write an old copy of the metadata home out of the log. So the
log's contents come in after all (`MediaInv`): every descriptor, in every copy of every log
block, names home blocks, and its copy of the metadata has the flag set. What the scan
makes of the log is then arbitrary, but whatever it replays is harmless (`Harmless`,
`ReplayHarmless`), and the proof carries this along the loops of the scan and the replay
(`WalkExists`, `SeenIsList`, `KeptRange`). The invariant stops at `lost` (section 6):
behind a sync that failed with the flag cleared, `FlagSafe` is false. Theorem:
`FlagIsHonest`.

`DispatcherProofs` has the invariant that the two users of the run queues share, and a
lemma for each section a CPU executes (schedule, completion, tick, make_ready,
enqueue, remove). `DInv`: a stack is live on a CPU exactly while it is that CPU's
current or outgoing one (`Live`); whoever runs, waits or may be woken has CPUs
to run on, all of them there (`Masked`); what state the threads of a CPU are in, by
the section it executes (`Sections`); the lists hold exactly the READY threads that
are not live, each once, and the order of arrivals exactly the READY threads (`Lists`);
and no KASSERT has failed. None of the four is inductive without the others: an
enqueue is legal because the thread is not live and in no list, a dispatch because what
is in a list is not live, a completion because the outgoing stack is nobody
else's. It needs finitely many threads and an idle thread per CPU
(`DispatcherAssumption`).

`SchedProofs`, for any thread table, priorities, quanta and starvation limit: the
lifecycle keeps `DInv` on the one CPU that runs it (`LifecycleKeeps`), so no
assertion fails (`NoAssertionFails`) and nobody is lost between the queues
(`NobodyIsLost`). `DispatchesInOrder` is about what the code never compares: it
looks at the heads of the per-priority lists only, and the property is about all
READY threads. `OInv` adds why that suffices: each list is in order of arrival
(`ListsInOrder`), who arrived earlier is at least as old (`AgesInOrder`), the thread that
leaves the CPU is still the last arrival when its switch completes (`LeavesLast`:
interrupts are off in between), and nothing makes a thread READY between its decision to wait and `schedule()`
(`Settled`). `WaitIsBounded` is the promise of `k64.h:239-241`, for every `Watched` thread, with
`AgedService <= MaxQuantum` as the only assumption about positive numbers (4 and 16 in `k64.h:127-130`). `BoundedWait` bounds a
counter and says nothing of why it stops; `WaitedSoFar` does. Until `Watched` has aged, the ticks it has
waited follow its age. From then on the sum of those ticks, of what is left of the present grant
(`Grant`) and of `AgedService` for every thread ahead of it in the order of arrivals (`Ahead`) is at most
`Starvation` plus `AgedService` for every competitor: an undeferred tick takes one from the grant or ends it, since
an aged head is queued (`WaitTicks`); `schedule()` then takes a thread of `Ahead`, so that a new grant is paid for by the
shorter queue (`WaitShortens`); and who arrives later queues behind (`ArrivesBehind`). `OneGrant` and
`FewAhead` are the arithmetic and the counting. The proof shows the promise to be loose: with aged
grants of 4 ticks a wait is at most 32 + (N + 1) * 4.

`ApWorkProofs`, for any CPUs, workers, slots, settings, generations and faults (from
`DispatcherAssumption` and `ApWorkAssumption`: distinct workers, none of them an
idle thread or `main`). `AInv` adds to `DInv` the service's own side. Teardown: an AP leaves on its idle
stack and only when told to (`Leaving`), and it is told to only in the last call, after
every worker's stack is dead (`Stages`); so the pool outlives the CPUs
(`PoolIsFreedLast`) although sends fail, waits expire and late IPIs arrive. Jobs: a worker has one
CPU, and waits or ends only without a job (`Staffed`); a RUNNING slot and the worker
that holds its generation name each other (`Owned`, `JobsHaveOneOwner`). Lost wake-ups: a
queued job has a worker on one of its CPUs that is awake and not leaving, *or* that is
parked and about to be woken by the signal the BSP is in (`Covered`); the second case is what
makes it inductive, because the job is published one section before the wake-up.
Submit finds such a worker by its coverage check, a migration keeps
one for every job by the same check, a park is refused while a job of the worker's CPU
is queued, and a drain wakes everybody. Theorems: `ServiceKeeps`, `StacksHaveOneOwner`,
`PoolIsFreedLast`, `JobsHaveOneOwner`, `NoJobIsStranded`. What a walk over a list
leaves (`Those`) is the one recursive definition the proof needs; its facts are proved with the
set of indices up to which they hold and the least index outside it
(`LeastNat`, `SetInduction`), which needs no induction rule with an operator parameter.

`ObjectWaitProofs`, for any finite set of threads and any objects, programs, counts
and waits (from `ObjectWaitAssumption` and `SettingsAssumption`: `None` is neither a
thread nor a wait, and the programs use what exists). All five invariants of the
run follow from one, `ObjInv` (`ObjectsAccounted`). `Listed` says that the lists hold
the blocks of the pending waits, each once. `Sleepers` says what each sleeper can be
woken by, and that the sweep is armed while a terminated thread lives. `Accounts` is about the
objects: no pending wait could be satisfied (`Calm`); owned_mutants lists the owned mutants,
each once (`OwnedListed`); a granted wait that has not returned owns the mutants it took
(`Held`), which is why its thread cannot have been overtaken in them; references are the
handle, the waits and the owner; and the ledger is a semaphore's count *with* the units of
granted waits that have not returned, a mutant's recursion *without* theirs (`Balance`).

The heart is `Calm`, because `ob_release_check` looks at one object's list, once, and every
grant in the loop changes what later waiters find. Before the loop only waits on that
object can be satisfied (`CalmBut`: nothing else became signaled). Each turn either grants
a wait or leaves one that is refused, and grants only ever take signals away
(`Gives`), so who was refused stays refused (`Refused`), and the loop may stop early because
it stops only when the object is no longer signaled to anybody (a mutant stays signaled to
its new owner, so its loop runs to the end). That a mutant
is handed over again inside an abandonment, while WaitAll takes others that its
old owner still has on the list, is the reason for `Rounds`: each round gives up one
of the old owner's mutants, none is ever added to them, and after as many rounds as it
owned there is none left (`AbandonGives`). The loops are functions of the turns; `LoopExists`
gives their values once, and `BoundedInduction` carries facts along them.
Sums over the waits are cardinalities of sets of places, so that repeated names count
with their multiplicity (`ShareChanges`). Theorems: `ObjectsAccounted`, `NoWakeIsMissed`,
`BlocksAreThoseOfWaits`, `LedgersBalance`, `RefsAreExact`, `SweepCoversKilled`. What is not
proved is that a semaphore's count stays within 0 .. MaxCount: a WaitAll that names one
twice makes it negative (a hazard in `PROJECT.json`).

Only model-checked: all liveness (out of the prover's reach); and of Journal the refinement
of `AtomicStore`, `NoForeignData` and `NoTornTruncate`. `FlagIsHonest` needs only a
bound on what recovery may write; these three need to know exactly which
transactions the scan finds in a log that was partly overwritten, that is, the value of
the recursion over the log's contents for every log.

## 6. Findings

`TicketLockForged`: the header says "Empty/wrong/repeated release within the
current acquisition epoch fails." (`kcommon/pma_sync.h:9`). `pma_ticket_unlock`
compares the token with `next` and then swaps `owner` in a second access. A
release of `next + 1`, never issued, passes the first test; if another CPU locks
and unlocks in between, the swap succeeds and `owner` passes `next`. For empty
and repeated releases the claim is true, and proved.

`JournalWrap`: when the log wraps, `sfs_journal_commit` flushes, writes the journal
superblock with the new tail and then the new log blocks over the old log
(`sfs_jbd2.c:556-624`), without a flush between the two. If a power loss keeps
some of the blocks and not the superblock, recovery starts at the old tail, stops at
the first overwritten block and replays only the older transactions over
checkpoints of newer ones. The header (`sfs_jbd2.c:10-12`) says that a crash replays "at
most the transactions since the last wrap, which is idempotent". With a disk that
keeps the superblock ahead of the blocks behind it (`WrapOrdered`) every
property holds.

`IoAccepted`: `serve_writers` (`npfs.c:334-344`) uses a pending write after it has
left its list, with interrupts on and without a reference; the request can still be
cancelled and freed. The comment at `ipc_io.c:106-108` says that references
prevent this.

Met while modelling, without a run of their own:

* `virtq.h:35` says "entries (power of two per the spec; any size works here)".
  `virtq_add` uses entry `(uint16_t)(idx + pending) % size` (`virtq.c:59`): with a
  size that does not divide 2^16 the entries on both sides of the wrap do not
  follow each other, and a chain may be overwritten before the device has seen
  it. `Virtq` with `Size = 3` violates `EveryChainOnce`. Devices offer
  powers of two (`virtio_pci.c:162-165` only halves what they offer).
* `timer_of` (`ipc_timer.c:34`) walks the timer list with interrupts on, while a
  preempting thread may unlink and free an entry.
* `sfs_file.c:8` says that data is written before the metadata that references it is
  committed. A block that is first written and then truncated inside by the same
  transaction is late data and is written after the commit; `NoForeignData` leaves
  such blocks ("early") out.
* A `sfs_sync` whose last flush fails has cleared needs_recovery in memory but leaves
  `mounted_dirty` set, so later commits are not preceded by setting the flag
  again (`sfs_super.c:806-822`). `FlagMeansReplay` exempts that case (`lost`).
* An I/O error of the flush behind a commit record leaves open whether the record is
  durable; the model assumes that it is, or that the disk is reset before the next
  mount.

## 7. Not modelled, and the plan

Hazards without a property yet are in `PROJECT.json` with a note. In order:

1. `ProcessLife`: last thread, exit owner, reap, references
   (`proc.c`, `ipc_proc.c`); suspension and process-wide termination, with the
   teardown of pending requests (`ipc_io_teardown`).
2. Pipes: data queues, quotas and instance states of `npfs.c`, with the order of
   accepted and new writes and the early return at `npfs.c:346`; completion by APC;
   packets posted without a request.
3. Waitable timers (`ipc_timer.c`: the list walk of section 6), device epochs of the supervisor, the TCP state
   machine.
4. Of the file system: the orphan list and truncation in several transactions,
   preallocation windows, volumes without a journal, transactions larger
   than the log, several revoke blocks, journals without checksums.

Theorems that remain: `NoForeignData`, `NoTornTruncate` and the refinement of Journal,
for which `WalkExists` and the lemmas on `Kept` are the beginning.

Out of reach or left aside: register-level drivers (NVMe, AHCI, xHCI, USB), INIT/SIPI
and ACPI bring-up, VMX control, parsing and on-disk encodings, graphics and
applications; the 32-bit kernel's scheduler, an earlier version of this one.
