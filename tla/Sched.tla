------------------------------- MODULE Sched -------------------------------
(***************************************************************************)
(* Thread lifecycle and scheduling on the BSP (kernel64/sched.c without    *)
(* the AP cohort). Slot 0 is `main', slot 1 the idle thread. Every         *)
(* operation runs with interrupts off, so it is one step; a timer tick or  *)
(* another interrupt comes between operations, never inside one.           *)
(***************************************************************************)
EXTENDS Dispatcher

CONSTANTS DefaultPriority,  \* SCHED_DEFAULT_PRIORITY (16)
          Policies,         \* the (priority, quantum) pairs callers ask for
          Tables,           \* the thread tables the system may start with
          Watched           \* the thread whose wait the bound is checked for

ASSUME SchedAssumption ==
  /\ CPUs = {0} /\ {0, 1} \subseteq Threads /\ Idle[0] = 1
  /\ DefaultPriority \in Priorities /\ Policies \subseteq Priorities \X (1 .. MaxQuantum)
  /\ \A tab \in Tables : tab.slots \subseteq Threads /\ {0, 1} \subseteq tab.slots /\ tab.drivers \subseteq tab.slots
  /\ \A tab \in Tables : Watched \in tab.slots \ {1}
  /\ AgedService <= MaxQuantum

VARIABLES kind,    \* "kernel" (no process), "user", or "held": user with creator_hold
          raised,  \* threads at IRQL >= DISPATCH_LEVEL (CR8 >= 2)
          table,   \* its slots, and the threads in it that run hosted driver code
          waited   \* eligible ticks since Watched is READY and policies are stable

lifecycle == <<kind, raised, table>>
vars == <<dvars, lifecycle, waited>>

\* N competing threads: every other slot but idle.
WaitBound == Starvation + (Cardinality(table.slots \ Idles) - 1 + 1) * MaxQuantum

TypeOK ==
  /\ DispatcherTypeOK
  /\ kind \in [Threads -> {"kernel", "user", "held"}]
  /\ table \in Tables /\ raised \subseteq table.drivers
  /\ waited \in 0 .. WaitBound + 1

\* sched_init: main runs, idle is READY but in no queue.
Init ==
  /\ state = [t \in Threads |-> IF t = 0 THEN "RUNNING" ELSE IF t = 1 THEN "READY" ELSE "FREE"]
  /\ onCpu = [t \in Threads |-> IF t = 0 THEN 0 ELSE None]
  /\ prio = [t \in Threads |-> IF t = 1 THEN 0 ELSE DefaultPriority]
  /\ quantum = [t \in Threads |-> 1]
  /\ mask = [t \in Threads |-> {0}]
  /\ quantumLeft = [c \in CPUs |-> 1]
  /\ aging = [c \in CPUs |-> 0]
  /\ age = [t \in Threads |-> 0]
  /\ arrivals = <<>>
  /\ ready = [c \in CPUs |-> [p \in Priorities |-> <<>>]]
  /\ current = [c \in CPUs |-> 0]
  /\ outgoing = [c \in CPUs |-> None]
  /\ online = {0}
  /\ pc = [c \in CPUs |-> "run"]
  /\ panic = FALSE
  /\ kind = [t \in Threads |-> "kernel"]
  /\ raised = {} /\ table \in Tables
  /\ waited = 0

\* The thread that executes kernel code with interrupts on; idle only halts.
self == current[0]
Running == pc[0] = "run" /\ self # 1
\* Interrupts and the exit path wake threads too.
Waking == pc[0] \in {"run", "tick", "exit"}

\* What thread operations that neither tick nor switch leave alone.
NoSwitch == UNCHANGED <<onCpu, mask, cpus, pc>>

-----------------------------------------------------------------------------
\* reap_user_zombies: exited user threads, off the CPU and not held.
Reapable(k) ==
  {t \in Threads : k[t] = "user" /\ state[t] = "ZOMBIE" /\ t # self /\ onCpu[t] = None}

\* Free the slots in S; k is everyone's kind. Until thread_create_state clears
\* a FREE slot nobody reads it, so it is cleared here.
Release(S, k) ==
  /\ state' = [t \in Threads |-> IF t \in S THEN "FREE" ELSE state[t]]
  /\ kind' = [t \in Threads |-> IF t \in S THEN "kernel" ELSE k[t]]
  /\ prio' = [t \in Threads |-> IF t \in S THEN DefaultPriority ELSE prio[t]]
  /\ quantum' = [t \in Threads |-> IF t \in S THEN 1 ELSE quantum[t]]
  /\ raised' = raised \ S
  /\ NoSwitch
  /\ UNCHANGED <<service, waiting, ready, panic, table, waited>>

\* thread_reap_exited, also what is left of a thread_create without a stack.
ReapExited == Running /\ Release(Reapable(kind), kind)

\* thread_reap_process drops the creators' holds first.
ReapProcess ==
  LET dropped == [t \in Threads |-> IF kind[t] = "held" THEN "user" ELSE kind[t]]
  IN  Running /\ Release(Reapable(dropped), dropped)

\* thread_join of a kernel thread that has exited, thread_discard of a new one.
Join(t) ==
  /\ Running
  /\ state[t] = "ZOMBIE" /\ onCpu[t] = None /\ kind[t] = "kernel"
  /\ Release({t}, kind)

Discard(t) == Running /\ state[t] = "NEW" /\ kind[t] = "kernel" /\ Release({t}, kind)

\* thread_create_state: reap, then the first FREE slot; a READY one is queued.
Create(st) ==
  LET dead == Reapable(kind)
      free == {t \in table.slots : state[t] = "FREE"} \cup dead
      t == CHOOSE x \in free : \A y \in free : x <= y
  IN  /\ Running /\ free # {}
      /\ state' = [x \in Threads |-> IF x = t THEN st ELSE IF x \in dead THEN "FREE" ELSE state[x]]
      /\ kind' = [x \in Threads |-> IF x \in free THEN "kernel" ELSE kind[x]]
      /\ prio' = [x \in Threads |-> IF x \in free THEN DefaultPriority ELSE prio[x]]
      /\ quantum' = [x \in Threads |-> IF x \in free THEN 1 ELSE quantum[x]]
      /\ raised' = raised \ free
      /\ IF st = "READY"
           THEN /\ age' = [age EXCEPT ![t] = 0]
                /\ arrivals' = Arrive(t)
                /\ ready' = [ready EXCEPT ![0][DefaultPriority] = Append(@, t)]
                /\ panic' = (panic \/ ~Enqueueable(t, mask[t]))
           ELSE UNCHANGED <<waiting, ready, panic>>
      /\ waited' = IF t = Watched THEN 0 ELSE waited
      /\ NoSwitch
      /\ UNCHANGED <<service, table>>

\* What leaves every thread where it is.
OnlyKind == NoSwitch /\ UNCHANGED <<state, prio, quantum, service, waiting, ready, panic, table, waited>>

\* start_thread_common publishes a suspended thread as a user thread, held when
\* its creator asked for the pointer; thread_creator_release ends that.
Publish(t, k) ==
  /\ Running
  /\ state[t] = "NEW" /\ kind[t] = "kernel"
  /\ kind' = [kind EXCEPT ![t] = k]
  /\ OnlyKind /\ UNCHANGED raised

CreatorRelease(t) ==
  /\ Running
  /\ kind[t] = "held"
  /\ kind' = [kind EXCEPT ![t] = "user"]
  /\ OnlyKind /\ UNCHANGED raised

\* thread_resume: only a thread that never ran.
Resume(t) ==
  /\ Running
  /\ state[t] = "NEW"
  /\ MakeReady(t)
  /\ waited' = IF t = Watched THEN 0 ELSE waited
  /\ NoSwitch
  /\ UNCHANGED <<prio, quantum, service, lifecycle>>

SetPolicyInPlace(t, p, q) ==
  /\ Running
  /\ state[t] \notin {"FREE", "ZOMBIE"} /\ t \notin Idles
  /\ prio' = [prio EXCEPT ![t] = p]
  /\ quantum' = [quantum EXCEPT ![t] = q]
  /\ quantumLeft' = [quantumLeft EXCEPT ![0] = IF t = self /\ @ > q THEN q ELSE @]
  /\ waited' = 0
  /\ NoSwitch
  /\ UNCHANGED <<state, aging, waiting, ready, panic, lifecycle>>

\* thread_set_sched_policy: a queued thread whose priority changes moves to the
\* tail of its new queue and starts waiting anew.
SetPolicy(t, p, q) ==
  LET move == Queued(t) /\ p # prio[t]
  IN  /\ Running
      /\ state[t] \notin {"FREE", "ZOMBIE"} /\ t \notin Idles
      /\ prio' = [prio EXCEPT ![t] = p]
      /\ quantum' = [quantum EXCEPT ![t] = q]
      /\ quantumLeft' = [quantumLeft EXCEPT ![0] = IF t = self /\ @ > q THEN q ELSE @]
      /\ IF move
           THEN /\ ready' = [Remove(ready, t) EXCEPT ![0][p] = Append(@, t)]
                /\ age' = [age EXCEPT ![t] = 0]
                /\ arrivals' = Arrive(t)
                /\ panic' = (panic \/ onCpu[t] # None)
           ELSE UNCHANGED <<ready, waiting, panic>>
      /\ waited' = 0
      /\ NoSwitch
      /\ UNCHANGED <<state, aging, lifecycle>>

-----------------------------------------------------------------------------
\* What a step that only moves the CPU to another section leaves alone.
Going(place) == pc' = [pc EXCEPT ![0] = place]
OnlyPc == UNCHANGED <<onCpu, threadPolicy, service, waiting, ready, cpus, panic, lifecycle, waited>>

\* thread_yield, and a thread_join that does not find its thread dead yet.
Yield == Running /\ Going("schedule") /\ OnlyPc /\ UNCHANGED state

\* thread_block_current and the waits built on it.
Block ==
  /\ Running
  /\ state' = [state EXCEPT ![self] = "BLOCKED"]
  /\ Going("schedule") /\ OnlyPc

\* thread_wake, and the wake-ups of the tick and of the exit path.
Wake(t) ==
  /\ Waking
  /\ state[t] = "BLOCKED"
  /\ MakeReady(t)
  /\ waited' = IF t = Watched THEN 0 ELSE waited
  /\ NoSwitch
  /\ UNCHANGED <<prio, quantum, service, lifecycle>>

\* thread_exit: ZOMBIE, then thread_object_signal may wake waiters, then away.
\* kmain never ends.
Exit ==
  /\ Running /\ self # 0
  /\ state' = [state EXCEPT ![self] = "ZOMBIE"]
  /\ Going("exit") /\ OnlyPc

ExitSignalled == pc[0] = "exit" /\ Going("schedule") /\ OnlyPc /\ UNCHANGED state

\* KeRaiseIrql / KeLowerIrql of a hosted driver.
SetIrql ==
  /\ Running /\ self \in table.drivers
  /\ raised' = IF self \in raised THEN raised \ {self} ELSE raised \cup {self}
  /\ OnlyKind /\ UNCHANGED kind

\* sched_tick_from: a tick out of user mode resets the IRQL.
TimerTick(fromUser) ==
  /\ pc[0] = "run"
  /\ fromUser => kind[self] # "kernel"
  /\ Clock
  /\ panic' = (panic \/ TickPanics(0))
  /\ raised' = IF fromUser THEN raised \ {self} ELSE raised
  /\ Going("tick")
  /\ UNCHANGED <<state, onCpu, threadPolicy, service, arrivals, ready, cpus, kind, table, waited>>

TickDecideAnyRaised ==
  /\ pc[0] = "tick"
  /\ TickPolicy(0, raised # {})
  /\ waited' = IF self \notin raised /\ state[Watched] = "READY" /\ waited <= WaitBound
               THEN waited + 1 ELSE waited
  /\ UNCHANGED <<panic, lifecycle>>

\* Its second section; a thread at DISPATCH_LEVEL is neither charged nor preempted.
TickDecide ==
  LET deferred == self \in raised
  IN  /\ pc[0] = "tick"
      /\ TickPolicy(0, deferred)
      /\ waited' = IF ~deferred /\ state[Watched] = "READY" /\ waited <= WaitBound
                   THEN waited + 1 ELSE waited
      /\ UNCHANGED <<panic, lifecycle>>

Switch ==
  /\ Schedule(0)
  /\ waited' = IF Watched \in {self, self'} THEN 0 ELSE waited
  /\ UNCHANGED lifecycle

SwitchComplete == Complete(0) /\ UNCHANGED <<lifecycle, waited>>

Next ==
  \/ ReapExited \/ ReapProcess
  \/ \E st \in {"READY", "NEW"} : Create(st)
  \/ \E t \in Threads :
       \/ \E k \in {"user", "held"} : Publish(t, k)
       \/ CreatorRelease(t) \/ Resume(t) \/ Discard(t) \/ Wake(t) \/ Join(t)
       \/ \E pq \in Policies : SetPolicy(t, pq[1], pq[2])
  \/ Yield \/ Block \/ Exit \/ ExitSignalled \/ SetIrql
  \/ \E fromUser \in BOOLEAN : TimerTick(fromUser)
  \/ TickDecide \/ Switch \/ SwitchComplete

Spec == Init /\ [][Next]_vars

-----------------------------------------------------------------------------
\* "with N competing ready threads and stable policies its next dispatch is
\* bounded by 32 + (N + 1) * 16 eligible ticks" (k64.h:239-241).
BoundedWait == waited <= WaitBound

\* Whatever the history of wakes, moves and preemptions, the queues dispatch in
\* the global order: the oldest READY thread that waited Starvation ticks, else
\* the earliest of the highest priority, the outgoing thread arriving last.
InDispatchOrder ==
  pc[0] = "schedule" =>
    LET others == {t \in Threads \ Idles : state[t] = "READY"}
        cands == others \cup (IF state[self] = "RUNNING" THEN {self} \ Idles ELSE {})
        order == IF state[self] = "RUNNING" THEN Arrive(self) ELSE arrivals
        aged == {t \in others : age[t] >= Starvation}
        best == {t \in cands : \A u \in cands : prio[u] <= prio[t]}
        pool == IF aged # {} THEN aged ELSE best
    IN  IF pool = {} THEN self' = 1
        ELSE self' \in pool /\ \A u \in pool \ {self'} : Before(order, self', u)

\* Every step that dispatches, from whatever state the lifecycle reached, picks
\* the thread that the global order of sched_cpu.h's queues names.
DispatchOrder == [][InDispatchOrder]_vars
=============================================================================
