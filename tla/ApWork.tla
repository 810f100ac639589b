------------------------------- MODULE ApWork -------------------------------
(***************************************************************************)
(* The persistent worker service on the application processors: the job    *)
(* slots of kernel64/kernel_ap_work.c, the workers and CPU admission of    *)
(* sched.c and the control side the BSP runs (start, submit, migrate,      *)
(* stop). Workers park under the queue ticket and the BSP wakes them while *)
(* their stacks may still be live.                                         *)
(*                                                                         *)
(* `main' is alone on the BSP, so CPU 0 never switches; its control calls  *)
(* are the steps of `bsp'. Each AP interrupt is taken at pc "run" only.    *)
(***************************************************************************)
EXTENDS Dispatcher

CONSTANTS Workers,   \* the worker threads in the order of ap_cohort_work
          Slots,     \* SHZ_AP_WORK_SLOTS (16)
          Settings   \* the machines and callers considered; Init picks one

Crew == {Workers[i] : i \in DOMAIN Workers}

\* home: each worker's first CPU. masks: the CPU sets jobs are submitted for.
\* moves: where workers are migrated to. faults: may a wait time out or an
\* interrupt fail to be sent? maxGen: SHZ_AP_WORK_MAX_GENERATION (2^60 - 1).
ASSUME ApWorkAssumption ==
  /\ Workers \in Seq(Threads) /\ \A i, j \in DOMAIN Workers : Workers[i] = Workers[j] => i = j
  /\ Crew \subseteq Threads \ Idles /\ 0 \in Threads \ (Crew \cup Idles)
  /\ Slots \subseteq Nat /\ None \notin Slots \X Nat
  /\ Settings \subseteq [home : [Crew -> CPUs \ {0}], masks : SUBSET (SUBSET (CPUs \ {0}) \ {{}}),
                         moves : SUBSET (CPUs \ {0}), faults : BOOLEAN, maxGen : Nat]

VARIABLES setting,   \* the setting Init picked
          pool,      \* state of the pool; "none" once it is freed
          job,       \* the descriptors
          doing,     \* a worker's claimed slot and generation (its cookie)
          quitting,  \* workers that saw the drain and go to thread_exit
          unacked,   \* CPUs with reschedule_ack # reschedule_request
          ipi,       \* CPUs with a reschedule interrupt pending
          stop,      \* ap_cohort_stop
          done,      \* CPUs whose work_trace.done is set
          bsp        \* what the BSP's control call does next

work == <<job, doing, quitting>>
control == <<setting, pool, stop, bsp>>
signals == <<unacked, ipi, done>>
vars == <<dvars, work, control, signals>>

\* The application processors: each is the home of a worker.
APs == {setting.home[w] : w \in Crew}

Blank(g) == [state |-> "FREE", gen |-> g, mask |-> {}, worker |-> None, cpu |-> None]
Ready == [at |-> "ready", op |-> "none", to |-> {}]

TypeOK ==
  /\ DispatcherTypeOK
  /\ setting \in Settings
  /\ pool \in {"PREPARED", "RUNNING", "DRAINING", "FAILED", "none"}
  /\ job \in [Slots -> [state : {"FREE", "QUEUED", "RUNNING", "DONE"}, gen : 0 .. setting.maxGen,
                        mask : SUBSET APs, worker : Crew \cup {None}, cpu : APs \cup {None}]]
  /\ doing \in [Crew -> (Slots \X (1 .. setting.maxGen)) \cup {None}]
  /\ quitting \subseteq Crew
  /\ unacked \subseteq APs /\ ipi \subseteq APs /\ done \subseteq APs
  /\ stop \in BOOLEAN
  /\ bsp \in [at : {"ready", "signal", "send", "wait", "offline"},
              op : {"none", "start", "submit", "migrate", "drain", "halt"}, to : SUBSET APs]

\* sched_ap_work_prepare: every stack and the pool exist before the first INIT.
Init ==
  /\ setting \in Settings
  /\ state = [t \in Threads |-> IF t = 0 THEN "RUNNING" ELSE IF t = Idle[0] THEN "READY" ELSE "NEW"]
  /\ onCpu = [t \in Threads |-> IF t = 0 THEN 0 ELSE None]
  /\ prio = [t \in Threads |-> 0]
  /\ quantum = [t \in Threads |-> 1]
  /\ mask = [t \in Threads |-> {0}]
  /\ quantumLeft = [c \in CPUs |-> 1]
  /\ aging = [c \in CPUs |-> 0]
  /\ age = [t \in Threads |-> 0]
  /\ arrivals = <<>>
  /\ ready = [c \in CPUs |-> [p \in Priorities |-> <<>>]]
  /\ current = [c \in CPUs |-> IF c = 0 THEN 0 ELSE None]
  /\ outgoing = [c \in CPUs |-> None]
  /\ online = {0}
  /\ pc = [c \in CPUs |-> IF c = 0 THEN "run" ELSE "off"]
  /\ panic = FALSE
  /\ pool = "PREPARED"
  /\ job = [s \in Slots |-> Blank(0)]
  /\ doing = [w \in Crew |-> None]
  /\ quitting = {} /\ unacked = {} /\ ipi = {} /\ done = {}
  /\ stop = FALSE
  /\ bsp = Ready

-----------------------------------------------------------------------------
\* k64_rq_admit_cohort_locked on the AP's idle stack.
Admit(c) ==
  /\ pc[c] = "off" /\ c \notin done
  /\ state' = [state EXCEPT ![Idle[c]] = "RUNNING"]
  /\ mask' = [mask EXCEPT ![Idle[c]] = {c}]
  /\ onCpu' = [onCpu EXCEPT ![Idle[c]] = c]
  /\ current' = [current EXCEPT ![c] = Idle[c]]
  /\ online' = online \cup {c}
  /\ pc' = [pc EXCEPT ![c] = "run"]
  /\ panic' = (panic \/ state[Idle[c]] # "NEW" \/ onCpu[Idle[c]] # None \/ QueuedOn(c) # {})
  /\ UNCHANGED <<prio, quantum, service, waiting, ready, outgoing, work, control, signals>>

\* The idle loop of sched_ap_stack_main, after an interrupt woke it: leave once
\* told to stop and no reschedule is owed. Interrupts stay off from here.
IdleLeave(c) ==
  /\ pc[c] = "run" /\ current[c] = Idle[c]
  /\ stop /\ c \notin unacked
  /\ pc' = [pc EXCEPT ![c] = "leave"]
  /\ UNCHANGED <<state, onCpu, threadPolicy, service, waiting, ready, cpus, panic, work, control, signals>>

\* sched_ap_stack_leave_complete on the boot stack: withdraw the CPU ...
Withdraw(c) ==
  /\ pc[c] = "leave"
  /\ panic' = (panic \/ ~(/\ current[c] = Idle[c] /\ state[Idle[c]] = "RUNNING" /\ onCpu[Idle[c]] = c
                          /\ outgoing[c] = None /\ QueuedOn(c) = {}))
  /\ state' = [state EXCEPT ![Idle[c]] = "NEW"]
  /\ onCpu' = [onCpu EXCEPT ![Idle[c]] = None]
  /\ mask' = [mask EXCEPT ![Idle[c]] = {0}]
  /\ current' = [current EXCEPT ![c] = None]
  /\ online' = online \ {c}
  /\ pc' = [pc EXCEPT ![c] = "finish"]
  /\ UNCHANGED <<prio, quantum, service, waiting, ready, outgoing, work, control, signals>>

\* ... and, still reading ap_work_pool, report it done.
FinishCpu(c) ==
  /\ pc[c] = "finish"
  /\ done' = IF pool # "none" THEN done \cup {c} ELSE done
  /\ pc' = [pc EXCEPT ![c] = "off"]
  /\ UNCHANGED <<state, onCpu, threadPolicy, service, waiting, ready, cpus, panic, work, control, unacked, ipi>>

\* sched_ap_reschedule, the handler of the reschedule interrupt.
Reschedule(c) ==
  /\ pc[c] = "run" /\ c \in ipi
  /\ ipi' = ipi \ {c}
  /\ unacked' = unacked \ {c}
  /\ pc' = [pc EXCEPT ![c] = "schedule"]
  /\ panic' = (panic \/ c \notin online \/ state[current[c]] # "RUNNING" \/ c \notin mask[current[c]])
  /\ UNCHANGED <<state, onCpu, threadPolicy, service, waiting, ready, cpus, work, control, done>>

\* An interrupt that arrives after the private gates are restored is drained.
LateIpi(c) ==
  /\ pc[c] = "off" /\ c \in ipi
  /\ ipi' = ipi \ {c}
  /\ UNCHANGED <<dvars, work, control, unacked, done>>

-----------------------------------------------------------------------------
\* The worker w on CPU c, at the top of ap_work_worker's loop.
AtLoop(c, w) ==
  /\ pc[c] = "run" /\ current[c] = w
  /\ w \in Crew \ quitting /\ doing[w] = None

\* shz_ap_work_claim_locked finds a job for this CPU.
Claimable(c) ==
  IF pool \in {"RUNNING", "DRAINING"}
  THEN {s \in Slots : job[s].state = "QUEUED" /\ c \in job[s].mask} ELSE {}

LoopPanics(c, w) == panic \/ onCpu[w] # c \/ c \notin mask[w] \/ pool = "none"

Claim(c, w) ==
  LET s == CHOOSE x \in Claimable(c) : \A y \in Claimable(c) : x <= y
  IN  /\ AtLoop(c, w)
      /\ Claimable(c) # {}
      /\ job' = [job EXCEPT ![s].state = "RUNNING", ![s].worker = w, ![s].cpu = c]
      /\ doing' = [doing EXCEPT ![w] = <<s, job[s].gen>>]
      /\ panic' = LoopPanics(c, w)
      /\ UNCHANGED <<state, onCpu, threadPolicy, service, waiting, ready, cpus, pc, quitting, control, signals>>

QuitEager(c, w) ==
  /\ AtLoop(c, w)
  /\ pool = "DRAINING"
  /\ quitting' = quitting \cup {w}
  /\ panic' = LoopPanics(c, w)
  /\ UNCHANGED <<state, onCpu, threadPolicy, service, waiting, ready, cpus, pc, job, doing, control, signals>>

\* Nothing to do while draining: on to thread_exit.
Quit(c, w) ==
  /\ AtLoop(c, w)
  /\ Claimable(c) = {} /\ pool = "DRAINING"
  /\ quitting' = quitting \cup {w}
  /\ panic' = LoopPanics(c, w)
  /\ UNCHANGED <<state, onCpu, threadPolicy, service, waiting, ready, cpus, pc, job, doing, control, signals>>

\* Nothing to do: k64_rq_work_park_locked under the same ticket as the claim,
\* then schedule() with interrupts still off.
Park(c, w) ==
  /\ AtLoop(c, w)
  /\ Claimable(c) = {} /\ pool # "DRAINING"
  /\ state' = [state EXCEPT ![w] = "BLOCKED"]
  /\ pc' = [pc EXCEPT ![c] = "schedule"]
  /\ panic' = (LoopPanics(c, w) \/ state[w] # "RUNNING" \/ outgoing[c] # None \/ Queued(w))
  /\ UNCHANGED <<onCpu, threadPolicy, service, waiting, ready, cpus, work, control, signals>>

\* shz_ap_work_complete_locked demands the claim the worker made.
Completable(s, gen, c, w) ==
  job[s].state = "RUNNING" /\ job[s].gen = gen /\ job[s].cpu = c /\ job[s].worker = w

\* The digest is computed outside the ticket; ap_work_complete_locked records it.
FinishJob(c, w) ==
  LET s == doing[w][1]
  IN  /\ pc[c] = "run" /\ current[c] = w /\ w \in Crew /\ doing[w] # None
      /\ job' = [job EXCEPT ![s].state = "DONE"]
      /\ doing' = [doing EXCEPT ![w] = None]
      /\ panic' = (panic \/ ~(/\ pool # "none" /\ c \in online
                              /\ onCpu[w] = c /\ state[w] = "RUNNING" /\ mask[w] = {c}
                              /\ Completable(s, doing[w][2], c, w)))
      /\ UNCHANGED <<state, onCpu, threadPolicy, service, waiting, ready, cpus, pc, quitting, control, signals>>

\* thread_exit of a worker.
WorkerExit(c, w) ==
  /\ pc[c] = "run" /\ current[c] = w /\ w \in quitting
  /\ state' = [state EXCEPT ![w] = "ZOMBIE"]
  /\ quitting' = quitting \ {w}
  /\ pc' = [pc EXCEPT ![c] = "schedule"]
  /\ UNCHANGED <<onCpu, threadPolicy, service, waiting, ready, cpus, panic, job, doing, control, signals>>

-----------------------------------------------------------------------------
\* The control calls. Only one runs at a time, on the BSP.
BspIdle == bsp.at = "ready"
Call(op, to) == bsp' = [at |-> "signal", op |-> op, to |-> to]
SchedulerUnchanged == UNCHANGED <<dvars, doing, quitting, signals, stop, setting>>

\* sched_ap_work_start, once every AP is online; it gives up after a while.
Start ==
  /\ BspIdle /\ pool = "PREPARED" /\ online = APs \cup {0}
  /\ pool' = "RUNNING"
  /\ Call("start", APs)
  /\ SchedulerUnchanged /\ UNCHANGED job

BringupTimeout ==
  /\ setting.faults
  /\ BspIdle /\ pool = "PREPARED" /\ online # APs \cup {0}
  /\ pool' = "FAILED"
  /\ SchedulerUnchanged /\ UNCHANGED <<job, bsp>>

\* ap_work_coverage_locked: the CPUs the workers serve, were `moving' on d.
Admitted == \A w \in Crew : /\ state[w] \in {"BLOCKED", "READY", "RUNNING"}
                            /\ Cardinality(mask[w]) = 1 /\ mask[w] \subseteq APs \cap online
Coverage(moving, d) == UNION {IF w = moving THEN {d} ELSE mask[w] : w \in Crew}

Reusable == {s \in Slots : job[s].state = "FREE" /\ job[s].gen < setting.maxGen}

\* sched_ap_work_submit: a job for the CPUs m in the first reusable slot.
Submit(m) ==
  LET s == CHOOSE x \in Reusable : \A y \in Reusable : x <= y
  IN  /\ BspIdle /\ pool = "RUNNING"
      /\ Admitted /\ m \subseteq APs /\ m \cap Coverage(None, None) # {}
      /\ Reusable # {}
      /\ job' = [job EXCEPT ![s] = [Blank(@.gen + 1) EXCEPT !.state = "QUEUED", !.mask = m]]
      /\ Call("submit", m)
      /\ SchedulerUnchanged /\ UNCHANGED pool

ReleaseAny(s) ==
  /\ BspIdle /\ job[s].state # "FREE"
  /\ job' = [job EXCEPT ![s] = Blank(@.gen)]
  /\ SchedulerUnchanged /\ UNCHANGED <<pool, bsp>>

\* sched_ap_work_release with the slot's cookie (a FREE slot's words are dead).
ReleaseJob(s) ==
  /\ BspIdle /\ pool # "none"
  /\ job[s].state = "DONE"
  /\ job' = [job EXCEPT ![s] = Blank(@.gen)]
  /\ SchedulerUnchanged /\ UNCHANGED <<pool, bsp>>

\* k64_rq_work_move_locked: only a fully saved waiter moves, and to another CPU
\* that is online.
Movable(w, d) == state[w] = "BLOCKED" /\ onCpu[w] = None /\ ~Queued(w) /\ mask[w] # {d} /\ d \in online

\* sched_ap_work_migrate: nobody moves who owns a job, and never so that a
\* queued job loses its CPUs.
Migrate(w, d) ==
  /\ BspIdle /\ pool = "RUNNING" /\ Admitted /\ d \in APs
  /\ \A s \in Slots :
       /\ job[s].state \in {"RUNNING", "DONE"} => job[s].worker # w
       /\ job[s].state = "QUEUED" => job[s].mask \cap Coverage(w, d) # {}
  /\ Movable(w, d)
  /\ mask' = [mask EXCEPT ![w] = {d}]
  /\ Call("migrate", mask[w] \cup {d})
  /\ UNCHANGED <<state, onCpu, prio, quantum, service, waiting, ready, cpus, pc, panic, work, signals, pool, stop, setting>>

\* sched_ap_work_stop: drain, or drain again after results were released.
Stop ==
  /\ BspIdle /\ pool \in {"RUNNING", "DRAINING"}
  /\ pool' = "DRAINING"
  /\ Call("drain", APs)
  /\ SchedulerUnchanged /\ UNCHANGED job

-----------------------------------------------------------------------------
\* ap_work_signal, its section under the ticket: new workers start on their
\* home CPU, parked ones whose CPU is signalled are woken, but one whose stack
\* is still live is not queued; every signalled CPU owes an acknowledgement.
Started == {w \in Crew : state[w] = "NEW" /\ setting.home[w] \in bsp.to}
WokenByHome == {w \in Crew : state[w] = "BLOCKED" /\ setting.home[w] \in bsp.to}
Woken == {w \in Crew : state[w] = "BLOCKED" /\ mask[w] \cap bsp.to # {}}

\* The members of S among s, in the order of s.
Kept(s, S) ==
  LET kept[i \in 0 .. Len(s)] ==
        IF i = 0 THEN <<>> ELSE IF s[i] \in S THEN Append(kept[i - 1], s[i]) ELSE kept[i - 1]
  IN  kept
Those(s, S) == Kept(s, S)[Len(s)]

PublishableLive(S) == S
Publishable(S) == {w \in S : onCpu[w] = None}

Signal ==
  LET up == Started \cup Woken
      masks == [t \in Threads |-> IF t \in Started THEN {setting.home[t]} ELSE mask[t]]
  IN  /\ bsp.at = "signal"
      /\ state' = [t \in Threads |-> IF t \in up THEN "READY" ELSE state[t]]
      /\ mask' = masks
      /\ age' = [t \in Threads |-> IF t \in up THEN 0 ELSE age[t]]
      /\ arrivals' = Those(arrivals, Threads \ up) \o Those(Workers, up)
      /\ ready' = [c \in CPUs |-> [p \in Priorities |->
                     ready[c][p] \o Those(Workers, {w \in Publishable(up) : prio[w] = p /\ c \in masks[w]})]]
      /\ panic' = (panic \/ \E w \in up : \/ ~(masks[w] \subseteq online) \/ Queued(w)
                                          \/ w \in Started /\ onCpu[w] # None)
      /\ unacked' = unacked \cup bsp.to
      /\ stop' = (stop \/ bsp.op = "halt")
      /\ bsp' = [bsp EXCEPT !.at = "send"]
      /\ UNCHANGED <<onCpu, prio, quantum, service, cpus, pc, work, pool, ipi, done, setting>>

\* The interrupts are sent one by one after the ticket is released.
AfterSend == CASE bsp.op = "submit" -> "ready" [] bsp.op = "halt" -> "offline" [] OTHER -> "wait"

Send ==
  LET c == CHOOSE x \in bsp.to : \A y \in bsp.to : x <= y
      at == IF bsp.to = {c} THEN AfterSend ELSE "send"
  IN  /\ bsp.at = "send"
      /\ ipi' = ipi \cup {c}
      /\ bsp' = IF at = "ready" THEN Ready ELSE [bsp EXCEPT !.at = at, !.to = @ \ {c}]
      /\ UNCHANGED <<dvars, work, unacked, done, pool, stop, setting>>

\* A send fails, or a wait runs out of ticks or spins: ap_work_failed.
Fail ==
  /\ setting.faults
  /\ bsp.at \in {"send", "wait", "offline"}
  /\ pool' = "FAILED"
  /\ bsp' = Ready
  /\ UNCHANGED <<dvars, work, signals, stop, setting>>

Reapable(w) == state[w] = "ZOMBIE" /\ onCpu[w] = None

\* ap_work_wait succeeded. A drain with retained results returns -2; otherwise
\* the CPUs are told to stop.
Waited ==
  /\ bsp.at = "wait"
  /\ unacked = {}
  /\ bsp.op = "drain" => \A w \in Crew : Reapable(w)
  /\ IF bsp.op = "drain" /\ \A s \in Slots : job[s].state = "FREE"
       THEN Call("halt", APs) ELSE bsp' = Ready
  /\ UNCHANGED <<dvars, work, signals, pool, stop, setting>>

ReclaimOnline ==
  /\ bsp.at = "offline" /\ online = {0}
  /\ state' = [t \in Threads |-> IF t \in Crew \cup {Idle[c] : c \in APs} THEN "FREE" ELSE state[t]]
  /\ pool' = "none"
  /\ bsp' = Ready
  /\ UNCHANGED <<onCpu, threadPolicy, service, waiting, ready, cpus, pc, panic, work, signals, stop, setting>>

\* Every CPU is withdrawn and done: join the workers, free idles and the pool.
Reclaim ==
  /\ bsp.at = "offline" /\ online = {0} /\ done = APs
  /\ panic' = (panic \/ \E c \in APs : state[Idle[c]] # "NEW" \/ onCpu[Idle[c]] # None)
  /\ \A w \in Crew : Reapable(w)
  /\ state' = [t \in Threads |-> IF t \in Crew \cup {Idle[c] : c \in APs} THEN "FREE" ELSE state[t]]
  /\ mask' = [t \in Threads |-> IF t \in Crew THEN {0} ELSE mask[t]]
  /\ pool' = "none"
  /\ bsp' = Ready
  /\ UNCHANGED <<onCpu, prio, quantum, service, waiting, ready, cpus, pc, work, signals, stop, setting>>

-----------------------------------------------------------------------------
\* The AP's own timer. All workers have one priority, so ageing never changes
\* whom a CPU picks, and the BSP's clock is left out; with an empty queue the
\* tick changes nothing (one that comes later meets the same choices).
ApTick(c) ==
  /\ pc[c] = "run" /\ QueuedOn(c) # {}
  /\ TickPolicy(c, FALSE)
  /\ panic' = (panic \/ TickPanics(c) \/ c \notin mask[current[c]])
  /\ UNCHANGED <<work, control, signals>>

ApSchedule(c) == Schedule(c) /\ UNCHANGED <<work, control, signals>>
ApComplete(c) == Complete(c) /\ UNCHANGED <<work, control, signals>>

WorkerStep(c, w) == Claim(c, w) \/ Quit(c, w) \/ Park(c, w) \/ FinishJob(c, w) \/ WorkerExit(c, w)
BspStep == Signal \/ Send \/ Waited \/ Reclaim

Next ==
  \/ Start \/ BringupTimeout \/ Stop \/ Fail \/ BspStep
  \/ \E m \in setting.masks : Submit(m)
  \/ \E s \in Slots : ReleaseJob(s)
  \/ \E w \in Crew, d \in setting.moves : Migrate(w, d)
  \/ \E c \in APs :
       \/ Admit(c) \/ IdleLeave(c) \/ Withdraw(c) \/ FinishCpu(c)
       \/ Reschedule(c) \/ LateIpi(c)
       \/ ApTick(c) \/ ApSchedule(c) \/ ApComplete(c)
       \/ \E w \in Crew : WorkerStep(c, w)

Spec == Init /\ [][Next]_vars

\* The BSP goes on with a call it has begun; an AP goes on executing, takes a
\* pending interrupt and lets the thread it dispatches again and again proceed,
\* however often the timer interrupts it.
Fairness ==
  /\ WF_vars(BspStep)
  /\ \A c \in CPUs \ {0} :
       /\ WF_vars(ApSchedule(c) \/ ApComplete(c) \/ Withdraw(c) \/ FinishCpu(c))
       /\ SF_vars(Reschedule(c)) /\ SF_vars(IdleLeave(c))
  /\ \A w \in Crew : SF_vars(\E c \in APs : WorkerStep(c, w))

FairSpec == Spec /\ Fairness

-----------------------------------------------------------------------------
\* A queued job is never left to sleeping workers: once the BSP has signalled,
\* a worker of one of its CPUs is awake and has yet to look at the slots.
NoJobStranded ==
  pool \in {"RUNNING", "DRAINING"} /\ bsp.at # "signal" =>
    \A s \in Slots : job[s].state = "QUEUED" =>
      \E w \in Crew \ quitting : state[w] \in {"READY", "RUNNING"} /\ mask[w] \cap job[s].mask # {}

\* A job is executed by one worker at a time, on a CPU its submitter allowed,
\* and a claimed cookie stays valid until it is completed.
JobOwnedOnce ==
  \A s \in Slots :
    LET owners == {w \in Crew : doing[w] # None /\ doing[w][1] = s}
    IN  /\ owners = IF job[s].state = "RUNNING" THEN {job[s].worker} ELSE {}
        /\ \A w \in owners : doing[w][2] = job[s].gen /\ mask[w] = {job[s].cpu} /\ job[s].cpu \in job[s].mask

\* "retained until every AP stack is inactive" (sched.c:43): no CPU still runs
\* on a cohort stack or reads the pool when they are freed.
PoolOutlivesCpus ==
  pool = "none" => \A c \in APs : pc[c] = "off" /\ current[c] = None

\* Every accepted job is executed, unless the service failed.
JobsComplete ==
  \A s \in Slots : job[s].state = "QUEUED" ~> (job[s].state = "DONE" \/ pool = "FAILED")

=============================================================================
