----------------------------- MODULE Dispatcher -----------------------------
(***************************************************************************)
(* The per-CPU dispatcher: the priority FIFO queues of kernel64/sched_cpu.h*)
(* and the parts of kernel64/sched.c every CPU executes (schedule, switch  *)
(* completion, the timer tick). One step is one section under the queue    *)
(* ticket. Interrupts are off on a CPU whose pc is not "run", so only other*)
(* CPUs act between its sections. A failed KASSERT sets `panic'.           *)
(***************************************************************************)
EXTENDS Integers, Sequences, FiniteSets

CONSTANTS Threads, CPUs,  \* thread slots and CPU numbers; CPU 0 is the BSP
          Idle,           \* each CPU's idle thread
          Levels,         \* SCHED_PRIORITY_LEVELS (32)
          MaxQuantum,     \* SCHED_MAX_QUANTUM_TICKS (16)
          Starvation,     \* SCHED_STARVATION_TICKS (32)
          AgedService,    \* SCHED_AGED_SERVICE_TICKS (4)
          None            \* no thread, no CPU

ASSUME DispatcherAssumption ==
  /\ Threads \subseteq Nat /\ IsFiniteSet(Threads) /\ CPUs \subseteq Nat /\ 0 \in CPUs
  /\ Idle \in [CPUs -> Threads] /\ \A c, d \in CPUs : Idle[c] = Idle[d] => c = d
  /\ {Levels, MaxQuantum, Starvation, AgedService} \subseteq Nat \ {0}
  /\ None \notin Threads \cup CPUs

Priorities == 0 .. (Levels - 1)
Idles == {Idle[c] : c \in CPUs}

VARIABLES state, onCpu, prio, quantum, mask,  \* of each thread
          quantumLeft, aging,  \* service left to the thread running on each CPU:
                               \* dispatch sets both, and nobody else's are read
          age,       \* jiffies - ready_since, up to Starvation
          arrivals,  \* the READY threads by ready_order
          ready,     \* per CPU and priority: the FIFO
          current, outgoing, online,
          pc,        \* "run", or the section a CPU executes next
          panic

threadPolicy == <<prio, quantum, mask>>
service == <<quantumLeft, aging>>
waiting == <<age, arrivals>>
cpus == <<current, outgoing, online>>
dvars == <<state, onCpu, threadPolicy, service, waiting, ready, cpus, pc, panic>>

States == {"FREE", "READY", "RUNNING", "BLOCKED", "ZOMBIE", "NEW"}
Places == {"off", "run", "tick", "exit", "schedule", "switch", "leave", "finish"}

DispatcherTypeOK ==
  /\ state \in [Threads -> States]
  /\ onCpu \in [Threads -> CPUs \cup {None}]
  /\ prio \in [Threads -> Priorities]
  /\ quantum \in [Threads -> 1 .. MaxQuantum]
  /\ mask \in [Threads -> SUBSET CPUs]
  /\ quantumLeft \in [CPUs -> 0 .. MaxQuantum]
  /\ aging \in [CPUs -> 0 .. AgedService]
  /\ age \in [Threads -> 0 .. Starvation]
  /\ arrivals \in Seq(Threads)
  /\ ready \in [CPUs -> [Priorities -> Seq(Threads)]]
  /\ current \in [CPUs -> Threads \cup {None}]
  /\ outgoing \in [CPUs -> Threads \cup {None}]
  /\ online \subseteq CPUs
  /\ pc \in [CPUs -> Places]
  /\ panic \in BOOLEAN

-----------------------------------------------------------------------------
Elems(s) == {s[i] : i \in DOMAIN s}

\* Unlinks t from the list, when it is linked there.
Without(s, t) ==
  IF t \notin Elems(s) THEN s
  ELSE LET k == CHOOSE i \in DOMAIN s : s[i] = t
       IN  [i \in 1 .. Len(s) - 1 |-> IF i < k THEN s[i] ELSE s[i + 1]]

QueuedOn(c) == UNION {Elems(ready[c][p]) : p \in Priorities}
Queued(t) == \E c \in CPUs : t \in QueuedOn(c)

\* ready_order: a thread that becomes READY is the youngest.
Arrive(t) == Append(Without(arrivals, t), t)
Before(s, t, u) == \E i, j \in DOMAIN s : s[i] = t /\ s[j] = u /\ i < j

\* k64_rq_choose_locked: the least loaded CPU of the mask, lowest first.
Load(c) == Cardinality(QueuedOn(c))
Choose(m) == CHOOSE c \in m : \A d \in m : Load(c) < Load(d) \/ (Load(c) = Load(d) /\ c <= d)

\* k64_rq_enqueue_locked and k64_rq_remove_locked on the queues q.
Enqueue(q, t, c) == [q EXCEPT ![c][prio[t]] = Append(@, t)]
Remove(q, t) == [c \in CPUs |-> [p \in Priorities |-> Without(q[c][p], t)]]

\* What enqueue demands of a READY thread; otherwise its KASSERT fails.
Enqueueable(t, m) == ~Queued(t) /\ onCpu[t] = None /\ m # {} /\ m \subseteq online /\ t \notin Idles

\* k64_rq_aged_locked: the oldest queue head that waited Starvation ticks.
Heads(c) == {ready[c][p][1] : p \in {q \in Priorities : ready[c][q] # <<>>}}
AgedHeads(c) == {t \in Heads(c) : age[t] >= Starvation}
Oldest(S) == CHOOSE t \in S : \A u \in S \ {t} : Before(arrivals, t, u)

PickUnaged(c) ==
  IF Heads(c) = {} THEN None ELSE CHOOSE t \in Heads(c) : \A u \in Heads(c) : prio[u] <= prio[t]

\* k64_rq_pick_locked: an aged head first, else the head of highest priority.
Pick(c) ==
  IF AgedHeads(c) # {} THEN Oldest(AgedHeads(c))
  ELSE IF Heads(c) = {} THEN None
  ELSE CHOOSE t \in Heads(c) : \A u \in Heads(c) : prio[u] <= prio[t]

-----------------------------------------------------------------------------
\* May the outgoing thread go on? A RUNNING one arrives now, behind the heads;
\* one that was woken during its own switch has kept its place.
OutgoingKeepsGreedy(prev, arrived, cand) ==
  LET aged == cand # None /\ age[cand] >= Starvation
  IN  ~aged /\ (cand = None \/ prio[prev] >= prio[cand])

OutgoingKeeps(prev, arrived, cand) ==
  LET aged == cand # None /\ age[cand] >= Starvation
      prevAged == ~arrived /\ age[prev] >= Starvation
  IN  \/ prevAged /\ (~aged \/ Before(arrivals, prev, cand))
      \/ ~aged /\ ~prevAged /\ (cand = None \/ prio[prev] > prio[cand])

\* schedule(): relinquish, select, and k64_rq_dispatch_locked. Its admission
\* tests are the KASSERT's condition.
Schedule(c) ==
  LET prev == current[c]
      arrived == state[prev] = "RUNNING"
      cand == Pick(c)
      keeps == /\ arrived \/ state[prev] = "READY"
               /\ prev # Idle[c]
               /\ OutgoingKeeps(prev, arrived, cand)
      next == IF keeps THEN prev ELSE IF cand = None THEN Idle[c] ELSE cand
      aged == IF keeps THEN ~arrived /\ age[prev] >= Starvation
              ELSE cand # None /\ age[cand] >= Starvation
      left == [state EXCEPT ![prev] = IF arrived THEN "READY" ELSE @]
      order == IF arrived /\ prev # Idle[c] THEN Arrive(prev) ELSE arrivals
  IN  /\ pc[c] = "schedule"
      /\ state' = [left EXCEPT ![next] = "RUNNING"]
      /\ arrivals' = Without(order, next)
      /\ age' = [age EXCEPT ![prev] = IF arrived THEN 0 ELSE @, ![next] = 0]
      /\ aging' = [aging EXCEPT ![c] = IF aged THEN AgedService ELSE 0]
      /\ quantumLeft' = [quantumLeft EXCEPT ![c] = quantum[next]]
      /\ ready' = Remove(ready, next)
      /\ onCpu' = [onCpu EXCEPT ![next] = c]
      /\ current' = [current EXCEPT ![c] = next]
      /\ outgoing' = [outgoing EXCEPT ![c] = IF next = prev THEN None ELSE prev]
      /\ pc' = [pc EXCEPT ![c] = IF next = prev THEN "run" ELSE "switch"]
      /\ panic' = (panic \/ ~(/\ c \in online /\ onCpu[prev] = c /\ outgoing[c] = None
                              /\ ~Queued(prev)
                              /\ left[next] = "READY"
                              /\ mask[next] \subseteq online /\ c \in mask[next]
                              /\ next # prev => onCpu[next] = None
                              /\ IF next \in QueuedOn(c) THEN next \in Elems(ready[c][prio[next]])
                                 ELSE ~Queued(next) /\ next \in {prev, Idle[c]}))
      /\ UNCHANGED <<threadPolicy, online>>

CompleteForgets(c) ==
  LET t == outgoing[c]
  IN  /\ pc[c] = "switch"
      /\ onCpu' = [onCpu EXCEPT ![t] = None]
      /\ outgoing' = [outgoing EXCEPT ![c] = None]
      /\ pc' = [pc EXCEPT ![c] = "run"]
      /\ UNCHANGED <<state, threadPolicy, service, waiting, current, online, ready, panic>>

\* sched_switch_complete, on the destination stack: the outgoing stack is saved,
\* and only now may its thread be queued.
Complete(c) ==
  LET t == outgoing[c]
      publish == state[t] = "READY" /\ t # Idle[c]
  IN  /\ pc[c] = "switch"
      /\ onCpu' = [onCpu EXCEPT ![t] = None]
      /\ ready' = IF publish THEN Enqueue(ready, t, Choose(mask[t])) ELSE ready
      /\ outgoing' = [outgoing EXCEPT ![c] = None]
      /\ pc' = [pc EXCEPT ![c] = "run"]
      /\ panic' = (panic \/ ~(/\ t # None /\ onCpu[t] = c /\ t # current[c]
                              /\ onCpu[current[c]] = c /\ state[current[c]] = "RUNNING"
                              /\ ~Queued(t)
                              /\ state[t] \in {"READY", "BLOCKED", "ZOMBIE"}
                              /\ mask[t] # {} /\ mask[t] \subseteq online))
      /\ UNCHANGED <<state, threadPolicy, service, waiting, current, online>>

-----------------------------------------------------------------------------
\* make_ready, and k64_rq_work_wake_locked for an AP worker: a thread whose
\* stack is still live on a CPU becomes READY but is not queued.
MakeReady(t) ==
  /\ state' = [state EXCEPT ![t] = "READY"]
  /\ age' = [age EXCEPT ![t] = 0]
  /\ arrivals' = Arrive(t)
  /\ ready' = IF onCpu[t] = None THEN Enqueue(ready, t, Choose(mask[t])) ELSE ready
  /\ panic' = (panic \/ (onCpu[t] = None /\ ~Enqueueable(t, mask[t])))

\* sched_tick: the running thread must be this CPU's and RUNNING.
TickPanics(c) == onCpu[current[c]] # c \/ state[current[c]] # "RUNNING"

\* Its first section on the BSP, which alone moves the clock.
Clock ==
  age' = [t \in Threads |-> IF state[t] = "READY" /\ t \notin Idles /\ age[t] < Starvation
                            THEN age[t] + 1 ELSE age[t]]

\* Its second section: charge the quantum and decide. An aged grant runs out
\* first; then a higher priority or an aged head preempts.
TickPolicy(c, deferred) ==
  LET t == current[c]
      left == IF quantumLeft[c] > 0 THEN quantumLeft[c] - 1 ELSE 0
      higher == \E u \in Heads(c) : prio[u] > prio[t]
      granted == aging[c] > 1
      goesOn == t # Idle[c] /\ (granted \/ (left > 0 /\ ~higher /\ AgedHeads(c) = {}))
  IN  /\ IF deferred \/ t = Idle[c]
           THEN UNCHANGED service
           ELSE /\ quantumLeft' = [quantumLeft EXCEPT ![c] = left]
                /\ aging' = [aging EXCEPT ![c] = IF @ > 0 THEN @ - 1 ELSE 0]
      /\ pc' = [pc EXCEPT ![c] = IF deferred \/ goesOn THEN "run" ELSE "schedule"]
      /\ UNCHANGED <<state, onCpu, threadPolicy, waiting, ready, cpus>>

-----------------------------------------------------------------------------
\* No KASSERT of the dispatcher fails: every enqueue, dispatch and completion
\* finds the thread in the state the code expects.
NoPanic == ~panic

\* A kernel stack is live on at most one CPU and never in a queue while live
\* ("cannot publish a still-executing stack", sched.c:292).
StackOwnedOnce ==
  \A t \in Threads :
    LET holders == {c \in CPUs : t \in {current[c], outgoing[c]}}
    IN  /\ holders = IF onCpu[t] = None THEN {} ELSE {onCpu[t]}
        /\ onCpu[t] # None => ~Queued(t)

\* A READY thread is queued exactly once where its mask and priority say, or is
\* still live and will be: nobody is lost between the queues (sched_validate).
NoLostThread ==
  /\ \A t \in Threads \ Idles :
       state[t] = "READY" /\ onCpu[t] = None =>
         \E c \in mask[t] : t \in Elems(ready[c][prio[t]])
  /\ \A c \in CPUs, p \in Priorities :
       /\ \A i, j \in DOMAIN ready[c][p] : ready[c][p][i] = ready[c][p][j] => i = j
       /\ \A t \in Elems(ready[c][p]) :
            state[t] = "READY" /\ prio[t] = p /\ c \in online /\ mask[t] \subseteq online /\ c \in mask[t]
=============================================================================
