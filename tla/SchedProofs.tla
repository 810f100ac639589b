----------------------------- MODULE SchedProofs -----------------------------
(***************************************************************************)
(* The thread lifecycle on the BSP keeps the dispatcher's invariant, for   *)
(* every table size, number of priorities and quantum: no KASSERT fails,   *)
(* no READY thread is lost, schedule() follows the global order, and no    *)
(* thread waits longer than promised.                                      *)
(***************************************************************************)
EXTENDS Sched, DispatcherProofs

\* The BSP alone: every thread may run there and nowhere else.
Alone == online = {0} /\ mask = [t \in Threads |-> {0}] /\ table \in Tables

SInv == DInv /\ Alone

LEMMA Bsp ==
  /\ CPUs = {0} /\ Idle[0] = 1 /\ Idles = {1} /\ 0 \in Threads /\ 1 \in Threads /\ None \notin Threads /\ None # 0
  /\ Threads \subseteq Nat /\ DefaultPriority \in Priorities
<1>1. CPUs = {0} /\ Idle[0] = 1 /\ 0 \in Threads /\ 1 \in Threads /\ DefaultPriority \in Priorities
  BY SchedAssumption
<1>2. None \notin Threads \cup CPUs /\ Threads \subseteq Nat
  BY DispatcherAssumption
<1>3. Idles = {1}
  BY <1>1 DEF Idles
<1> QED BY <1>1, <1>2, <1>3

LEMMA InitSInv == Init => SInv
<1> SUFFICES ASSUME Init PROVE SInv
  OBVIOUS
<1>1. /\ state \in [Threads -> States] /\ onCpu \in [Threads -> CPUs \cup {None}]
      /\ prio \in [Threads -> Priorities] /\ mask \in [Threads -> SUBSET CPUs]
  <2>1. 0 \in Priorities
    BY DispatcherAssumption DEF Priorities
  <2> QED BY <2>1, Bsp DEF Init, States
<1>2. /\ arrivals = <<>> /\ arrivals \in Seq(Threads) /\ ready \in [CPUs -> [Priorities -> Seq(Threads)]]
      /\ \A c \in CPUs, p \in Priorities : ready[c][p] = <<>>
  BY DEF Init
<1>3. Shapes
  BY <1>1, <1>2, Bsp DEF Init, Shapes, Places
<1>4. Live
  <2>1. \A t \in Threads : onCpu[t] # None => t = 0 /\ onCpu[t] = 0
    BY DEF Init
  <2>2. current[0] = 0 /\ outgoing[0] = None /\ pc[0] = "run" /\ online = {0} /\ onCpu[0] = 0
    BY Bsp DEF Init
  <2> QED BY <2>1, <2>2, Bsp DEF Live
<1>5. Masked
  BY Bsp DEF Init, Masked
<1>6. Sections
  BY Bsp DEF Init, Sections
<1>7. \A s : s = <<>> => Elems(s) = {} /\ Injective(s)
  BY DEF Elems, Injective
<1>8. \A t \in Threads \ Idles : state[t] # "READY"
  BY Bsp DEF Init
<1>9. Lists
  <2>1. Elems(arrivals) = {} /\ Injective(arrivals)
    BY <1>2, <1>7
  <2>2. \A c \in CPUs, p \in Priorities : Elems(ready[c][p]) = {} /\ Injective(ready[c][p])
    BY <1>2, <1>7
  <2> QED BY <1>8, <2>1, <2>2 DEF Lists, NoLostThread, Injective
<1> QED BY <1>3, <1>4, <1>5, <1>6, <1>9 DEF Init, SInv, Alone, DInv, NoPanic

-----------------------------------------------------------------------------
\* Where the BSP is when a thread executes kernel code.
LEMMA AtBsp ==
  ASSUME SInv
  PROVE  /\ 0 \in online /\ 0 \in CPUs /\ self \in Threads /\ onCpu[self] = 0
         /\ pc[0] \in {"run", "tick"} => state[self] = "RUNNING"
         /\ pc[0] = "exit" => state[self] = "ZOMBIE"
         /\ state[self] \in {"RUNNING", "READY", "BLOCKED", "ZOMBIE"}
         /\ \A t \in Threads : mask[t] = {0}
         /\ state \in [Threads -> States] /\ prio \in [Threads -> Priorities] /\ pc \in [CPUs -> Places]
         /\ Shapes /\ Lists /\ ~panic
<1>1. Shapes /\ Live /\ Sections /\ Lists /\ 0 \in online /\ 0 \in CPUs /\ ~panic
  BY Bsp DEF SInv, DInv, Alone, NoPanic
<1>2. self \in Threads /\ onCpu[self] = 0
  BY <1>1, LiveOn DEF self
<1>3. /\ pc[0] \in {"run", "tick"} => state[self] = "RUNNING"
      /\ pc[0] = "exit" => state[self] = "ZOMBIE"
      /\ state[self] \in {"RUNNING", "READY", "BLOCKED", "ZOMBIE"}
  BY <1>1 DEF Sections, self
<1>4. \A t \in Threads : mask[t] = {0}
  BY DEF SInv, Alone
<1> QED BY <1>1, <1>2, <1>3, <1>4 DEF Shapes

\* Reaping, joining and discarding: only threads at rest are freed.
LEMMA ReleaseKeeps ==
  ASSUME SInv, NEW k, NEW S \in SUBSET Threads, Release(S, k),
         \A t \in S : onCpu[t] = None /\ state[t] \in {"NEW", "ZOMBIE"}
  PROVE  SInv'
<1>1. /\ UNCHANGED <<onCpu, arrivals, ready, current, outgoing, online, pc>> /\ mask' = mask /\ table' = table /\ panic' = panic
      /\ state' = [t \in Threads |-> IF t \in S THEN "FREE" ELSE state[t]]
      /\ prio' = [t \in Threads |-> IF t \in S THEN DefaultPriority ELSE prio[t]]
  BY DEF Release, NoSwitch, waiting, cpus
<1>2. DInv /\ ~panic /\ state \in [Threads -> States] /\ prio \in [Threads -> Priorities] /\ mask \in [Threads -> SUBSET CPUs]
  BY DEF SInv, DInv, Shapes, NoPanic
<1>3. /\ state' \in [Threads -> States] /\ prio' \in [Threads -> Priorities] /\ mask' \in [Threads -> SUBSET CPUs]
      /\ \A t \in S : state'[t] = "FREE"
      /\ \A t \in Threads \ S : state'[t] = state[t] /\ prio'[t] = prio[t] /\ mask'[t] = mask[t]
  BY <1>1, <1>2, Bsp DEF States
<1>4. \A t \in S : onCpu[t] = None /\ state[t] \notin {"READY", "RUNNING"} /\ t \notin IdlesOnline
  BY <1>2, AtRest
<1>5. \A t \in S : state'[t] \notin {"READY", "RUNNING"} /\ (state'[t] = "BLOCKED" => mask'[t] # {} /\ mask'[t] \subseteq online)
  BY <1>3
<1>6. DInv'
  BY <1>1, <1>2, <1>3, <1>4, <1>5, RetireKeeps
<1> QED BY <1>1, <1>6 DEF SInv, Alone

\* The steps that take the CPU to another section.
LEMMA GoingKeeps ==
  ASSUME SInv, pc[0] # "switch", NEW place \in {"run", "tick", "exit", "schedule"}, Going(place),
         UNCHANGED <<onCpu, prio, mask, arrivals, ready, current, outgoing, online, table>>, ~panic',
         NEW st, state' = [state EXCEPT ![self] = st],
         st = state[self] \/ (state[self] = "RUNNING" /\ st \in {"BLOCKED", "ZOMBIE"} /\ self # 1),
         place \in {"run", "tick"} => st = "RUNNING", place = "exit" => st = "ZOMBIE"
  PROVE  SInv'
<1>1. 0 \in online /\ 0 \in CPUs /\ self \in Threads /\ state \in [Threads -> States] /\ pc \in [CPUs -> Places] /\ DInv
  BY AtBsp DEF SInv
<1>2. /\ state' \in [Threads -> States] /\ state'[self] = st
      /\ \A t \in Threads \ {self} : state'[t] = state[t]
  BY <1>1 DEF States
<1>3. /\ pc' \in [CPUs -> Places] /\ pc'[0] = place /\ \A d \in CPUs \ {0} : pc'[d] = pc[d]
  BY <1>1 DEF Going, Places
<1>4. DInv'
  BY <1>1, <1>2, <1>3, CpuMoves, Bsp DEF self
<1> QED BY <1>4 DEF SInv, Alone

\* thread_resume and thread_wake.
LEMMA WakeKeeps ==
  ASSUME SInv, NEW t \in Threads, state[t] \in {"NEW", "BLOCKED"}, MakeReady(t), NoSwitch, UNCHANGED <<prio, table>>
  PROVE  SInv'
<1>1. /\ UNCHANGED <<onCpu, mask, current, outgoing, online, pc>> /\ prio' = prio /\ table' = table
      /\ state' = [state EXCEPT ![t] = "READY"] /\ arrivals' = Arrive(t)
      /\ ready' = (IF onCpu[t] = None THEN Enqueue(ready, t, Choose(mask[t])) ELSE ready)
      /\ panic' = (panic \/ (onCpu[t] = None /\ ~Enqueueable(t, mask[t])))
  BY DEF MakeReady, NoSwitch, cpus
<1>2. /\ DInv /\ Shapes /\ Lists /\ ~panic /\ state \in [Threads -> States] /\ prio \in [Threads -> Priorities]
      /\ mask[t] = {0} /\ 0 \in CPUs /\ online = {0}
  BY AtBsp DEF SInv, Alone
<1>3. t \notin IdlesOnline /\ (state[t] = "NEW" => onCpu[t] = None)
  BY <1>2, AtRest
<1>4. t \notin Idles
  BY <1>2, <1>3, Bsp DEF IdlesOnline
<1>5. ~Queued(t)
  BY <1>2, QueuedMeans, Linked
<1>6. ~panic'
  BY <1>1, <1>2, <1>4, <1>5 DEF Enqueueable
<1>7. Choose(mask[t]) = 0
  BY <1>2, ChooseIn
<1>8. onCpu[t] = None => Extends(ready', ready, t, 0, prio'[t])
  BY <1>1, <1>2, <1>5, <1>7, EnqueueFacts
<1>9. /\ state' \in [Threads -> States] /\ state'[t] = "READY" /\ \A x \in Threads \ {t} : state'[x] = state[x]
  BY <1>1, <1>2 DEF States
<1>10. Readied({}, t, 0)
  BY <1>1, <1>2, <1>3, <1>4, <1>6, <1>8, <1>9 DEF Readied
<1>12. DInv'
  BY <1>2, <1>10, ReadyKeeps
<1> QED BY <1>1, <1>12 DEF SInv, Alone

\* thread_create_state.
LEMMA CreateKeeps ==
  ASSUME SInv, NEW st \in {"READY", "NEW"}, Create(st)
  PROVE  SInv'
<1> DEFINE dead == Reapable(kind)
           free == {t \in table.slots : state[t] = "FREE"} \cup dead
           t == CHOOSE x \in free : \A y \in free : x <= y
<1>1. /\ free # {} /\ UNCHANGED <<onCpu, mask, current, outgoing, online, pc>> /\ table' = table
      /\ state' = [x \in Threads |-> IF x = t THEN st ELSE IF x \in dead THEN "FREE" ELSE state[x]]
      /\ prio' = [x \in Threads |-> IF x \in free THEN DefaultPriority ELSE prio[x]]
      /\ st = "READY" => /\ arrivals' = Arrive(t)
                         /\ ready' = [ready EXCEPT ![0][DefaultPriority] = Append(@, t)]
                         /\ panic' = (panic \/ ~Enqueueable(t, mask[t]))
      /\ st # "READY" => arrivals' = arrivals /\ ready' = ready /\ panic' = panic
  BY DEF Create, NoSwitch, waiting, cpus
<1>2. /\ DInv /\ Shapes /\ Lists /\ ~panic /\ state \in [Threads -> States] /\ prio \in [Threads -> Priorities]
      /\ \A x \in Threads : mask[x] = {0}
      /\ 0 \in CPUs /\ online = {0} /\ table.slots \subseteq Threads
      /\ mask \in [Threads -> SUBSET CPUs] /\ ready \in [CPUs -> [Priorities -> Seq(Threads)]]
  BY AtBsp, SchedAssumption DEF SInv, Alone, Shapes
<1>3. free \in SUBSET Threads /\ \A x \in free : state[x] \in {"FREE", "ZOMBIE"} /\ (state[x] = "ZOMBIE" => onCpu[x] = None)
  BY <1>2 DEF Reapable
<1>4. /\ t \in free
      /\ \A x \in free : x = t \/ x \in dead \/ state[x] = "FREE"
      /\ \A x \in Threads \ free : x \notin dead
  <2>1. \E x \in free : \A y \in free : x <= y
    <3> HIDE DEF free
    <3> QED BY <1>1, <1>3, Bsp, LeastNat
  <2>2. t \in free
    BY <2>1
  <2> QED BY <2>2
<1> HIDE DEF free, t
<1>5. \A x \in free : onCpu[x] = None /\ state[x] \notin {"READY", "RUNNING"} /\ x \notin IdlesOnline
  BY <1>2, <1>3, AtRest
<1>6. /\ state' \in [Threads -> States] /\ prio' \in [Threads -> Priorities] /\ state'[t] = st /\ prio'[t] = DefaultPriority
      /\ \A x \in free \ {t} : state'[x] = "FREE"
      /\ \A x \in Threads \ free : state'[x] = state[x] /\ prio'[x] = prio[x]
  BY <1>1, <1>2, <1>3, <1>4, Bsp DEF States
<1>7. CASE st = "NEW"
  <2>1. \A x \in free : state'[x] \notin {"READY", "RUNNING"} /\ (state'[x] = "BLOCKED" => mask'[x] # {} /\ mask'[x] \subseteq online)
    BY <1>4, <1>6, <1>7
  <2>2. \A x \in Threads \ free : state'[x] = state[x] /\ prio'[x] = prio[x] /\ mask'[x] = mask[x]
    BY <1>1, <1>6
  <2>3. UNCHANGED <<onCpu, arrivals, ready, current, outgoing, online, pc>> /\ ~panic' /\ mask' \in [Threads -> SUBSET CPUs]
    BY <1>1, <1>2, <1>7
  <2>4. DInv'
    BY ONLY <1>2, <1>3, <1>5, <1>6, <2>1, <2>2, <2>3, RetireKeeps
  <2> QED BY <1>1, <2>4 DEF SInv, Alone
<1>8. CASE st = "READY"
  <2>1. t \in Threads \ Idles /\ onCpu[t] = None /\ state[t] \notin {"READY", "RUNNING"}
    <3>1. t \in Threads /\ t \notin IdlesOnline /\ onCpu[t] = None /\ state[t] \notin {"READY", "RUNNING"}
      BY <1>3, <1>4, <1>5
    <3> QED BY <1>2, <3>1, Bsp DEF IdlesOnline
  <2>2. ~Queued(t)
    BY <1>2, <2>1, QueuedMeans, Linked
  <2>3. UNCHANGED <<onCpu, mask, current, outgoing, online, pc>> /\ ~panic' /\ arrivals' = Arrive(t)
    BY <1>1, <1>2, <1>8, <2>1, <2>2 DEF Enqueueable
  <2>4. Extends(ready', ready, t, 0, prio'[t])
    <3>1. Unlinked(ready, t)
      BY <1>2, <2>2, Linked, QueuedMeans DEF Unlinked
    <3>2. ready' = Linking(ready, t, 0, DefaultPriority)
      BY <1>1, <1>8 DEF Linking
    <3> QED BY <1>2, <1>6, <2>1, <3>1, <3>2, LinkFacts, Bsp
  <2>5. Readied(free, t, 0)
    BY <1>2, <1>3, <1>5, <1>6, <1>8, <2>1, <2>3, <2>4 DEF Readied
  <2>8. DInv'
    BY <1>2, <2>5, ReadyKeeps
  <2> QED BY <1>1, <2>8 DEF SInv, Alone
<1> QED BY <1>7, <1>8

\* thread_set_sched_policy.
LEMMA PolicyKeeps ==
  ASSUME SInv, NEW t \in Threads, NEW p \in Priorities, NEW q, SetPolicy(t, p, q)
  PROVE  SInv'
<1> DEFINE move == Queued(t) /\ p # prio[t]
<1>1. /\ t \notin Idles /\ UNCHANGED <<state, onCpu, mask, current, outgoing, online, pc, table>>
      /\ prio' = [prio EXCEPT ![t] = p]
      /\ move => /\ ready' = Linking(Remove(ready, t), t, 0, p) /\ arrivals' = Arrive(t)
                 /\ panic' = (panic \/ onCpu[t] # None)
      /\ ~move => ready' = ready /\ arrivals' = arrivals /\ panic' = panic
  BY DEF SetPolicy, NoSwitch, cpus, lifecycle, waiting, Linking
<1>2. Shapes /\ Live /\ Masked /\ Sections /\ Lists /\ ~panic /\ 0 \in CPUs /\ online = {0} /\ mask[t] = {0}
  BY AtBsp DEF SInv, DInv, Alone
<1>3. prio' \in [Threads -> Priorities] /\ prio'[t] = p /\ \A x \in Threads \ {t} : prio'[x] = prio[x]
  BY <1>1, <1>2 DEF Shapes
<1>4. Queued(t) => \E d \in CPUs, r \in Priorities : t \in Elems(ready[d][r])
  BY QueuedMeans
<1>5. Queued(t) => state[t] = "READY" /\ onCpu[t] = None
  BY <1>2, <1>4, Linked
<1>6. ~panic'
  BY <1>1, <1>2, <1>5
<1>7. /\ arrivals' \in Seq(Threads) /\ Injective(arrivals') /\ Elems(arrivals') = Elems(arrivals)
  <2>1. CASE move
    <3>1. t \in Elems(arrivals)
      BY <1>1, <1>2, <1>5, <2>1 DEF Lists
    <3> QED BY <1>1, <1>2, <2>1, <3>1, ArriveFacts DEF Shapes, Lists
  <2>2. CASE ~move
    BY <1>1, <1>2, <2>2 DEF Shapes, Lists
  <2> QED BY <2>1, <2>2
<1>8. /\ ready' \in [CPUs -> [Priorities -> Seq(Threads)]]
      /\ \A d \in CPUs, r \in Priorities :
           /\ Injective(ready'[d][r])
           /\ \A u : u \in Elems(ready'[d][r]) <=>
                       (u # t /\ u \in Elems(ready[d][r])) \/ (u = t /\ Queued(t) /\ d = 0 /\ r = p)
  <2>1. CASE move
    <3> DEFINE k == Remove(ready, t)
    <3>1. /\ k \in [CPUs -> [Priorities -> Seq(Threads)]]
          /\ \A d \in CPUs, r \in Priorities : Injective(k[d][r]) /\ Elems(k[d][r]) = Elems(ready[d][r]) \ {t}
      BY <1>2, RemoveFacts
    <3> HIDE DEF k
    <3>2. Unlinked(k, t)
      BY <3>1 DEF Unlinked
    <3>3. ready' = Linking(k, t, 0, p)
      BY <1>1, <2>1 DEF k
    <3>4. Extends(ready', k, t, 0, p)
      BY <1>2, <3>1, <3>2, <3>3, LinkFacts
    <3>5. ASSUME NEW d \in CPUs, NEW r \in Priorities
          PROVE  /\ Injective(ready'[d][r])
                 /\ \A u : u \in Elems(ready'[d][r]) <=>
                             (u # t /\ u \in Elems(ready[d][r])) \/ (u = t /\ Queued(t) /\ d = 0 /\ r = p)
      <4>1. /\ Injective(ready'[d][r])
            /\ \A u : u \in Elems(ready'[d][r]) <=> u \in Elems(k[d][r]) \/ (u = t /\ d = 0 /\ r = p)
        BY ONLY <3>4, <3>5 DEF Extends
      <4>2. Elems(k[d][r]) = Elems(ready[d][r]) \ {t}
        BY <3>1
      <4> QED BY ONLY <2>1, <4>1, <4>2
    <3> QED BY ONLY <3>4, <3>5 DEF Extends
  <2>2. CASE ~move
    <3>1. ready' = ready
      BY <1>1, <2>2
    <3>2. \A d \in CPUs, r \in Priorities : t \in Elems(ready[d][r]) <=> Queued(t) /\ d = 0 /\ r = p
      <4>1. \A d \in CPUs, r \in Priorities : t \in Elems(ready[d][r]) => Queued(t) /\ d = 0 /\ r = prio[t]
        BY <1>2, Linked, QueuedMeans, Bsp
      <4> QED BY <1>4, <2>2, <4>1
    <3>3. \A d \in CPUs, r \in Priorities : Injective(ready[d][r])
      BY <1>2, Linked
    <3> QED BY <1>2, <3>1, <3>2, <3>3 DEF Shapes
  <2> QED BY <2>1, <2>2
<1>9. Shapes'
  BY <1>1, <1>2, <1>3, <1>7, <1>8 DEF Shapes
<1>10. Live' /\ Masked' /\ Sections'
  BY <1>1, <1>2 DEF Live, Masked, Sections
<1>11. Lists'
  <2>1. ASSUME NEW x \in Threads \ Idles, state[x] = "READY", onCpu[x] = None
        PROVE  \E d \in mask[x] : x \in Elems(ready'[d][prio'[x]])
    <3>1. PICK d \in mask[x] : x \in Elems(ready[d][prio[x]])
      BY <1>2, <2>1 DEF Lists, NoLostThread
    <3>2. d \in CPUs /\ prio[x] \in Priorities
      BY <1>2 DEF Shapes
    <3>3. CASE x = t
      BY <1>2, <1>3, <1>8, <3>1, <3>2, <3>3, QueuedMeans
    <3>4. CASE x # t
      BY <1>3, <1>8, <3>1, <3>2, <3>4
    <3> QED BY <3>3, <3>4
  <2>2. ASSUME NEW d \in CPUs, NEW r \in Priorities, NEW x \in Elems(ready'[d][r])
        PROVE  /\ state[x] = "READY" /\ prio'[x] = r /\ d \in online /\ mask[x] \subseteq online /\ d \in mask[x]
               /\ onCpu[x] = None /\ x \notin Idles
    <3>1. CASE x = t
      BY <1>1, <1>2, <1>3, <1>5, <1>8, <3>1
    <3>2. CASE x # t
      <4>1. x \in Elems(ready[d][r])
        BY <1>8, <3>2
      <4>2. /\ x \in Threads \ Idles /\ state[x] = "READY" /\ prio[x] = r /\ onCpu[x] = None
            /\ d \in online /\ d \in mask[x] /\ mask[x] \subseteq online
        BY <1>2, <4>1, Linked
      <4> QED BY <1>3, <3>2, <4>2
    <3> QED BY <3>1, <3>2
  <2>3. \A d \in CPUs, r \in Priorities : \A i, j \in DOMAIN ready'[d][r] : ready'[d][r][i] = ready'[d][r][j] => i = j
    BY <1>8 DEF Injective
  <2>4. NoLostThread'
    BY <1>1, <2>1, <2>2, <2>3 DEF NoLostThread
  <2>5. (Injective(arrivals) /\ Elems(arrivals) = {x \in Threads \ Idles : state[x] = "READY"})'
    BY <1>1, <1>2, <1>7 DEF Lists
  <2>6. (\A d \in CPUs, r \in Priorities : \A x \in Elems(ready[d][r]) : onCpu[x] = None /\ x \notin Idles)'
    BY <1>1, <2>2
  <2> QED BY ONLY <2>4, <2>5, <2>6 DEF Lists
<1> QED BY <1>1, <1>6, <1>9, <1>10, <1>11 DEF SInv, Alone, DInv, NoPanic

-----------------------------------------------------------------------------
LEMMA NextSInv == SInv /\ [Next]_vars => SInv'
<1> SUFFICES ASSUME SInv, [Next]_vars PROVE SInv'
  OBVIOUS
<1>0. DInv /\ ~panic /\ 0 \in CPUs /\ self \in Threads /\ onCpu[self] = 0 /\ 0 # None /\ state \in [Threads -> States]
      /\ (pc[0] \in {"run", "tick"} => state[self] = "RUNNING") /\ (pc[0] = "exit" => state[self] = "ZOMBIE")
  BY AtBsp, Bsp DEF SInv
<1>1. CASE ReapExited
  <2>1. Release(Reapable(kind), kind)
    BY <1>1 DEF ReapExited
  <2> QED BY <2>1, ReleaseKeeps DEF Reapable
<1>2. CASE ReapProcess
  <2> DEFINE dropped == [t \in Threads |-> IF kind[t] = "held" THEN "user" ELSE kind[t]]
  <2>1. Release(Reapable(dropped), dropped)
    BY <1>2 DEF ReapProcess
  <2>2. Reapable(dropped) \in SUBSET Threads /\ \A t \in Reapable(dropped) : onCpu[t] = None /\ state[t] \in {"NEW", "ZOMBIE"}
    BY DEF Reapable
  <2> HIDE DEF dropped
  <2> QED BY <2>1, <2>2, ReleaseKeeps
<1>3. ASSUME NEW st \in {"READY", "NEW"}, Create(st)
      PROVE  SInv'
  BY <1>3, CreateKeeps
<1>4. ASSUME NEW t \in Threads, Discard(t) \/ Join(t)
      PROVE  SInv'
  <2>1. Release({t}, kind) /\ (state[t] = "NEW" \/ (state[t] = "ZOMBIE" /\ onCpu[t] = None))
    BY <1>4 DEF Discard, Join
  <2>2. onCpu[t] = None
    BY <1>0, <2>1, AtRest
  <2>3. {t} \in SUBSET Threads /\ \A u \in {t} : onCpu[u] = None /\ state[u] \in {"NEW", "ZOMBIE"}
    BY <2>1, <2>2
  <2> QED BY <2>1, <2>3, ReleaseKeeps
<1>5. ASSUME NEW t \in Threads, Resume(t) \/ Wake(t)
      PROVE  SInv'
  BY <1>5, WakeKeeps DEF Resume, Wake, lifecycle
<1>6. ASSUME NEW t \in Threads, NEW pq \in Policies, SetPolicy(t, pq[1], pq[2])
      PROVE  SInv'
  <2>1. pq[1] \in Priorities
    BY SchedAssumption
  <2> QED BY <1>6, <2>1, PolicyKeeps
<1>7. CASE UNCHANGED <<dvars, table>>
  <2>1. UNCHANGED <<state, onCpu, prio, mask, arrivals, ready, current, outgoing, online, pc, panic, table>>
    BY <1>7 DEF dvars, threadPolicy, waiting, cpus
  <2>2. Shapes' /\ Live' /\ Masked' /\ Sections'
    BY <2>1 DEF SInv, DInv, Shapes, Live, Masked, Sections
  <2>3. Lists'
    BY <2>1 DEF SInv, DInv, Lists, NoLostThread
  <2> QED BY <2>1, <2>2, <2>3 DEF SInv, DInv, Alone, NoPanic
<1>8. CASE \E t \in Threads : (\E k \in {"user", "held"} : Publish(t, k)) \/ CreatorRelease(t)
  BY <1>7, <1>8 DEF Publish, CreatorRelease, OnlyKind, NoSwitch, dvars, threadPolicy
<1>9. CASE SetIrql
  BY <1>7, <1>9 DEF SetIrql, OnlyKind, NoSwitch, dvars, threadPolicy
<1>10. CASE Yield
  <2>1. /\ Going("schedule") /\ UNCHANGED <<onCpu, prio, mask, arrivals, ready, current, outgoing, online, table>> /\ ~panic'
        /\ pc[0] # "switch" /\ state' = [state EXCEPT ![self] = state[self]]
    BY <1>0, <1>10 DEF Yield, OnlyPc, Running, threadPolicy, waiting, cpus, lifecycle
  <2> QED BY <2>1, GoingKeeps
<1>11. CASE Block
  <2>1. /\ Going("schedule") /\ UNCHANGED <<onCpu, prio, mask, arrivals, ready, current, outgoing, online, table>> /\ ~panic'
        /\ pc[0] = "run" /\ state' = [state EXCEPT ![self] = "BLOCKED"] /\ self # 1
    BY <1>0, <1>11 DEF Block, OnlyPc, Running, threadPolicy, waiting, cpus, lifecycle
  <2> QED BY <1>0, <2>1, GoingKeeps
<1>12. CASE Exit
  <2>1. /\ Going("exit") /\ UNCHANGED <<onCpu, prio, mask, arrivals, ready, current, outgoing, online, table>> /\ ~panic'
        /\ pc[0] = "run" /\ state' = [state EXCEPT ![self] = "ZOMBIE"] /\ self # 1
    BY <1>0, <1>12 DEF Exit, OnlyPc, Running, threadPolicy, waiting, cpus, lifecycle
  <2> QED BY <1>0, <2>1, GoingKeeps
<1>13. CASE ExitSignalled
  <2>1. /\ Going("schedule") /\ UNCHANGED <<onCpu, prio, mask, arrivals, ready, current, outgoing, online, table>> /\ ~panic'
        /\ pc[0] # "switch" /\ state' = [state EXCEPT ![self] = state[self]]
    BY <1>0, <1>13 DEF ExitSignalled, OnlyPc, threadPolicy, waiting, cpus, lifecycle
  <2> QED BY <2>1, GoingKeeps
<1>14. ASSUME NEW u \in BOOLEAN, TimerTick(u)
       PROVE  SInv'
  <2>0. ~TickPanics(0)
    BY <1>0, <1>14 DEF TickPanics, TimerTick, self
  <2>1. /\ Going("tick") /\ UNCHANGED <<onCpu, prio, mask, arrivals, ready, current, outgoing, online, table>> /\ ~panic'
        /\ pc[0] = "run" /\ state' = [state EXCEPT ![self] = state[self]]
    BY <1>0, <1>14, <2>0 DEF TimerTick, threadPolicy, cpus
  <2> QED BY <1>0, <2>1, GoingKeeps
<1>15. CASE TickDecide
  <2>1. /\ UNCHANGED <<onCpu, prio, mask, arrivals, ready, current, outgoing, online, table>> /\ ~panic'
        /\ pc[0] = "tick" /\ state' = [state EXCEPT ![self] = state[self]]
        /\ Going("run") \/ Going("schedule")
    BY <1>0, <1>15 DEF TickDecide, TickPolicy, Going, threadPolicy, waiting, cpus, lifecycle
  <2> QED BY <1>0, <2>1, GoingKeeps
<1>16. CASE Switch
  <2>1. DInv'
    BY <1>0, <1>16, ScheduleKeeps DEF Switch
  <2> QED BY <1>16, <2>1 DEF Switch, Schedule, SInv, Alone, threadPolicy, lifecycle
<1>17. CASE SwitchComplete
  <2>1. DInv'
    BY <1>0, <1>17, CompleteKeeps DEF SwitchComplete
  <2> QED BY <1>17, <2>1 DEF SwitchComplete, Complete, SInv, Alone, threadPolicy, lifecycle
<1>18. CASE UNCHANGED vars
  BY <1>7, <1>18 DEF vars, lifecycle
<1> QED BY <1>1, <1>2, <1>3, <1>4, <1>5, <1>6, <1>8, <1>9, <1>10, <1>11, <1>12, <1>13, <1>14, <1>15, <1>16, <1>17, <1>18 DEF Next

\* The dispatcher's invariant holds throughout the BSP's thread lifecycle.
THEOREM LifecycleKeeps == Spec => []SInv
<1>1. Init => SInv
  BY InitSInv
<1>2. SInv /\ [Next]_vars => SInv'
  BY NextSInv
<1> QED BY <1>1, <1>2, PTL DEF Spec

\* No KASSERT of the dispatcher fails, whatever creates, wakes, moves, preempts and
\* reaps threads in whatever order.
THEOREM NoAssertionFails == Spec => []NoPanic
<1>1. SInv => NoPanic
  BY DEF SInv, DInv
<1> QED BY <1>1, LifecycleKeeps, PTL

\* Every READY thread is queued exactly once where its priority says, or is still live.
THEOREM NobodyIsLost == Spec => []NoLostThread
<1>1. SInv => NoLostThread
  BY DEF SInv, DInv, Lists
<1> QED BY <1>1, LifecycleKeeps, PTL

-----------------------------------------------------------------------------
(* The order of dispatch. The FIFOs are only local lists: that they give the *)
(* global order rests on each list following the order of arrivals, on the   *)
(* ages following it too, and on the thread that leaves the CPU being the    *)
(* last to have arrived when the completion of the switch links it.          *)

ListsInOrder == \A p \in Priorities : \A u, v \in Threads : Before(ready[0][p], u, v) => Before(arrivals, u, v)

AgesInOrder ==
  /\ age \in [Threads -> 0 .. Starvation]
  /\ \A u, v \in Threads : Before(arrivals, u, v) => age[v] <= age[u]

LeavesLast ==
  pc[0] = "switch" /\ state[outgoing[0]] = "READY" /\ outgoing[0] # 1 =>
    \A u \in Elems(arrivals) \ {outgoing[0]} : Before(arrivals, u, outgoing[0])

\* Nothing wakes a thread between its decision to wait and schedule().
Settled == pc[0] = "schedule" => state[self] # "READY"

OInv == SInv /\ ListsInOrder /\ AgesInOrder /\ LeavesLast /\ Settled

LEMMA BeforeMembers ==
  ASSUME NEW s, NEW u, NEW v, Before(s, u, v)
  PROVE  u \in Elems(s) /\ v \in Elems(s)
  BY DEF Before, Elems

LEMMA BeforeTransitive ==
  ASSUME NEW s \in Seq(Threads), Injective(s), NEW u, NEW v, NEW w, Before(s, u, v), Before(s, v, w)
  PROVE  Before(s, u, w) /\ u # v
<1>1. PICK i, j \in DOMAIN s : s[i] = u /\ s[j] = v /\ i < j
  BY DEF Before
<1>2. PICK k, l \in DOMAIN s : s[k] = v /\ s[l] = w /\ k < l
  BY DEF Before
<1>3. j = k /\ DOMAIN s \subseteq Nat
  BY <1>1, <1>2 DEF Injective
<1>4. i < l /\ i # j
  BY <1>1, <1>2, <1>3
<1> QED BY <1>1, <1>2, <1>4 DEF Before, Injective

LEMMA InitOInv == Init => OInv
<1> SUFFICES ASSUME Init PROVE OInv
  OBVIOUS
<1>1. SInv
  BY InitSInv
<1>2. \A s, u, v : s = <<>> => ~Before(s, u, v)
  BY DEF Before
<1>3. arrivals = <<>> /\ (\A p \in Priorities : ready[0][p] = <<>>) /\ age = [t \in Threads |-> 0] /\ pc[0] = "run"
  BY Bsp DEF Init
<1>4. Starvation \in Nat
  BY DispatcherAssumption
<1>5. age \in [Threads -> 0 .. Starvation]
  BY <1>3, <1>4
<1> QED BY <1>1, <1>2, <1>3, <1>5 DEF OInv, ListsInOrder, AgesInOrder, LeavesLast, Settled

\* What a section that makes t the youngest does to the lists.
Arrives(t) ==
  /\ arrivals' = Arrive(t) /\ age' = [age EXCEPT ![t] = 0]
  /\ \A p \in Priorities : \A u, v : Before(ready'[0][p], u, v) =>
       (u # t /\ v # t /\ Before(ready[0][p], u, v)) \/ (u # t /\ u \in Elems(ready[0][p]) /\ v = t)

LEMMA ArrivalInOrder ==
  ASSUME SInv, ListsInOrder, AgesInOrder, NEW t \in Threads, Arrives(t)
  PROVE  ListsInOrder' /\ AgesInOrder'
<1>1. /\ arrivals \in Seq(Threads) /\ Injective(arrivals)
      /\ \A p \in Priorities : Elems(ready[0][p]) \subseteq Elems(arrivals)
  <2>1. Shapes /\ Lists /\ 0 \in CPUs
    BY AtBsp
  <2> QED BY <2>1, Linked DEF Shapes, Lists
<1>2. \A u, v : Before(arrivals', u, v) <=> u # t /\ (IF v = t THEN u \in Elems(arrivals) ELSE Before(arrivals, u, v))
  BY <1>1, ArriveFacts DEF Arrives
<1>3. ListsInOrder'
  <2> SUFFICES ASSUME NEW p \in Priorities, NEW u \in Threads, NEW v \in Threads, Before(ready'[0][p], u, v)
               PROVE  Before(arrivals', u, v)
    BY DEF ListsInOrder
  <2>1. CASE u # t /\ v # t /\ Before(ready[0][p], u, v)
    BY <1>2, <2>1 DEF ListsInOrder
  <2>2. CASE u # t /\ u \in Elems(ready[0][p]) /\ v = t
    BY <1>1, <1>2, <2>2
  <2> QED BY <2>1, <2>2 DEF Arrives
<1>4. AgesInOrder'
  <2>1. Starvation \in Nat /\ age \in [Threads -> 0 .. Starvation]
    BY DispatcherAssumption DEF AgesInOrder
  <2>2. age' \in [Threads -> 0 .. Starvation] /\ age'[t] = 0 /\ \A u \in Threads \ {t} : age'[u] = age[u]
    BY <2>1 DEF Arrives
  <2>3. ASSUME NEW u \in Threads, NEW v \in Threads, Before(arrivals', u, v)
        PROVE  age'[v] <= age'[u]
    <3>1. CASE v = t
      BY <2>2, <3>1
    <3>2. CASE v # t
      <4>1. Before(arrivals, u, v) /\ u # t
        BY <1>2, <2>3, <3>2
      <4>2. age[v] <= age[u]
        BY <4>1 DEF AgesInOrder
      <4> QED BY <2>2, <3>2, <4>1, <4>2
    <3> QED BY <3>1, <3>2
  <2> QED BY <2>2, <2>3 DEF AgesInOrder
<1> QED BY <1>3, <1>4

\* A section that links t at a tail, t being in no list before.
LEMMA ExtensionArrives ==
  ASSUME SInv, NEW t \in Threads, NEW k, Unlinked(k, t), NEW r \in Priorities,
         \A p \in Priorities : \A u, v : Before(k[0][p], u, v) => Before(ready[0][p], u, v),
         \A p \in Priorities : Elems(k[0][p]) \subseteq Elems(ready[0][p]),
         ready' = k \/ Extends(ready', k, t, 0, r),
         arrivals' = Arrive(t), age' = [age EXCEPT ![t] = 0]
  PROVE  Arrives(t)
<1>1. ASSUME NEW p \in Priorities, NEW u, NEW v, Before(ready'[0][p], u, v)
      PROVE  (u # t /\ v # t /\ Before(ready[0][p], u, v)) \/ (u # t /\ u \in Elems(ready[0][p]) /\ v = t)
  <2>1. t \notin Elems(k[0][p])
    BY Bsp DEF Unlinked
  <2>2. Before(k[0][p], u, v) \/ (u \in Elems(k[0][p]) /\ v = t)
    <3>0. 0 \in CPUs
      BY Bsp
    <3>1. CASE ready' = k
      BY <1>1, <3>1
    <3>2. CASE Extends(ready', k, t, 0, r)
      <4>1. \A d \in CPUs, q \in Priorities : \A x, y :
              Before(ready'[d][q], x, y) => Before(k[d][q], x, y) \/ (x \in Elems(k[d][q]) /\ y = t)
        BY ONLY <3>2 DEF Extends
      <4> QED BY <1>1, <3>0, <4>1
    <3> QED BY <3>1, <3>2
  <2>3. Before(k[0][p], u, v) => u \in Elems(k[0][p]) /\ v \in Elems(k[0][p])
    BY BeforeMembers
  <2> QED BY <2>1, <2>2, <2>3
<1> QED BY <1>1 DEF Arrives

\* Where t is in no list.
LEMMA WakingArrives ==
  ASSUME SInv, NEW t \in Threads, ~Queued(t), NEW r \in Priorities,
         ready' = ready \/ Extends(ready', ready, t, 0, r),
         arrivals' = Arrive(t), age' = [age EXCEPT ![t] = 0]
  PROVE  Arrives(t)
<1>1. Shapes /\ Lists
  BY AtBsp
<1>2. Unlinked(ready, t)
  BY <1>1, Linked, QueuedMeans DEF Unlinked
<1> QED BY <1>2, ExtensionArrives

\* The lists while nothing arrives or leaves.
LEMMA QuietInOrder ==
  ASSUME ListsInOrder, AgesInOrder, UNCHANGED <<ready, arrivals, age>>
  PROVE  ListsInOrder' /\ AgesInOrder'
  BY DEF ListsInOrder, AgesInOrder

LEMMA SwitchInOrder ==
  ASSUME OInv, Switch
  PROVE  ListsInOrder' /\ AgesInOrder' /\ LeavesLast'
<1> DEFINE next == ScheduleNext(0)
           arrived == state[self] = "RUNNING"
           order == IF arrived /\ self # 1 THEN Arrive(self) ELSE arrivals
<1>1. /\ pc[0] = "schedule" /\ Idle[0] = 1
      /\ arrivals' = Without(order, next) /\ ready' = Remove(ready, next)
      /\ age' = [age EXCEPT ![self] = IF arrived THEN 0 ELSE @, ![next] = 0]
      /\ state' = [[state EXCEPT ![self] = IF arrived THEN "READY" ELSE @] EXCEPT ![next] = "RUNNING"]
      /\ outgoing' = [outgoing EXCEPT ![0] = IF next = self THEN None ELSE self]
      /\ pc' = [pc EXCEPT ![0] = IF next = self THEN "run" ELSE "switch"]
  BY Bsp DEF Switch, Schedule, ScheduleNext, self
<1>2. /\ SInv /\ DInv /\ Shapes /\ Lists /\ 0 \in CPUs /\ self \in Threads /\ onCpu[self] = 0 /\ 0 # None
      /\ state[self] # "READY" /\ ListsInOrder /\ AgesInOrder
  BY <1>1, AtBsp, Bsp DEF OInv, SInv, Settled
<1>3. next \in Threads
  BY <1>1, <1>2, ScheduleTakes
<1> HIDE DEF next
<1>4. /\ arrivals \in Seq(Threads) /\ Injective(arrivals) /\ self \notin Elems(arrivals)
      /\ \A p \in Priorities : self \notin Elems(ready[0][p])
  BY <1>2, Linked DEF Shapes, Lists
<1>5. /\ order \in Seq(Threads) /\ Injective(order)
      /\ \A u, v : Before(order, u, v) <=> Before(arrivals, u, v) \/ (arrived /\ self # 1 /\ u \in Elems(arrivals) /\ v = self)
  <2>1. CASE arrived /\ self # 1
    <3>1. /\ Arrive(self) \in Seq(Threads) /\ Injective(Arrive(self))
          /\ \A u, v : Before(Arrive(self), u, v) <=>
               u # self /\ (IF v = self THEN u \in Elems(arrivals) ELSE Before(arrivals, u, v))
      BY <1>2, <1>4, ArriveFacts
    <3>2. \A u, v : Before(arrivals, u, v) => u # self /\ v # self
      BY <1>4, BeforeMembers
    <3> QED BY <1>4, <2>1, <3>1, <3>2
  <2>2. CASE ~(arrived /\ self # 1)
    BY <1>4, <2>2
  <2> QED BY <2>1, <2>2
<1> HIDE DEF order
<1>6. \A u, v : Before(arrivals', u, v) <=> Before(order, u, v) /\ u # next /\ v # next
  BY <1>1, <1>5, WithoutFacts
<1>7. ListsInOrder'
  <2> SUFFICES ASSUME NEW p \in Priorities, NEW u \in Threads, NEW v \in Threads, Before(ready'[0][p], u, v)
               PROVE  Before(arrivals', u, v)
    BY DEF ListsInOrder
  <2>1. Before(ready[0][p], u, v) /\ Elems(ready'[0][p]) = Elems(ready[0][p]) \ {next}
    BY <1>1, <1>2, RemoveFacts
  <2>2. u # next /\ v # next
    BY <2>1, BeforeMembers
  <2>3. Before(arrivals, u, v)
    BY <1>2, <2>1 DEF ListsInOrder
  <2> QED BY <1>5, <1>6, <2>2, <2>3
<1>8. AgesInOrder'
  <2>1. Starvation \in Nat /\ age \in [Threads -> 0 .. Starvation]
    BY <1>2, DispatcherAssumption DEF AgesInOrder
  <2>2. /\ age' \in [Threads -> 0 .. Starvation]
        /\ \A u \in Threads \ {self, next} : age'[u] = age[u]
        /\ arrived /\ self # next => age'[self] = 0
    BY <1>1, <1>2, <1>3, <2>1
  <2>3. ASSUME NEW u \in Threads, NEW v \in Threads, Before(arrivals', u, v)
        PROVE  age'[v] <= age'[u]
    <3>1. u # next /\ v # next /\ Before(order, u, v)
      BY <1>6, <2>3
    <3>2. CASE arrived /\ v = self
      BY <2>2, <3>1, <3>2
    <3>3. CASE Before(arrivals, u, v)
      <4>1. u # self /\ v # self
        BY <1>4, <3>3, BeforeMembers
      <4>2. age[v] <= age[u]
        BY <1>2, <3>3 DEF AgesInOrder
      <4> QED BY <2>2, <3>1, <4>1, <4>2
    <3> QED BY <1>5, <3>1, <3>2, <3>3
  <2> QED BY <2>2, <2>3 DEF AgesInOrder
<1>9. LeavesLast'
  <2>1. SUFFICES ASSUME pc'[0] = "switch", state'[outgoing'[0]] = "READY", outgoing'[0] # 1,
                        NEW u \in Elems(arrivals') \ {outgoing'[0]}
                 PROVE  Before(arrivals', u, outgoing'[0])
    BY DEF LeavesLast
  <2>2. next # self /\ outgoing'[0] = self
    BY <1>1, <1>2, <2>1 DEF Shapes
  <2>3. arrived
    BY <1>1, <1>2, <2>1, <2>2 DEF Shapes
  <2>4. u \in Elems(arrivals) /\ u # next
    <3>1. Elems(arrivals') = Elems(order) \ {next}
      BY <1>1, <1>5, WithoutFacts
    <3>2. Elems(order) \subseteq Elems(arrivals) \cup {self}
      BY <1>2, <1>4, ArriveFacts DEF order
    <3> QED BY <2>1, <2>2, <3>1, <3>2
  <2> QED BY <1>5, <1>6, <2>1, <2>2, <2>3, <2>4
<1> QED BY <1>7, <1>8, <1>9

LEMMA CompleteInOrder ==
  ASSUME OInv, SwitchComplete
  PROVE  ListsInOrder' /\ AgesInOrder'
<1> DEFINE t == outgoing[0]
<1>1. /\ pc[0] = "switch" /\ arrivals' = arrivals /\ age' = age
      /\ ready' = (IF state[t] = "READY" /\ t # 1 THEN Enqueue(ready, t, Choose(mask[t])) ELSE ready)
  BY Bsp DEF SwitchComplete, Complete, waiting
<1>2. SInv /\ DInv /\ Shapes /\ Live /\ Lists /\ 0 \in CPUs /\ ListsInOrder /\ AgesInOrder /\ LeavesLast
  BY AtBsp DEF OInv, SInv, DInv
<1>3. AgesInOrder'
  BY <1>1, <1>2 DEF AgesInOrder
<1>4. t \in Threads /\ onCpu[t] = 0 /\ 0 # None
  BY <1>1, <1>2, LiveOn
<1>5. ~Queued(t) /\ mask[t] = {0}
  BY <1>2, <1>4, AtBsp, QueuedMeans, Linked
<1>6. ListsInOrder'
  <2>1. CASE state[t] = "READY" /\ t # 1
    <3>1. Choose(mask[t]) = 0
      BY <1>2, <1>5, ChooseIn
    <3>2. Extends(ready', ready, t, 0, prio[t])
      BY <1>1, <1>2, <1>4, <1>5, <2>1, <3>1, EnqueueFacts
    <3> SUFFICES ASSUME NEW p \in Priorities, NEW u \in Threads, NEW v \in Threads, Before(ready'[0][p], u, v)
                 PROVE  Before(arrivals, u, v)
      BY <1>1 DEF ListsInOrder
    <3>3. Before(ready[0][p], u, v) \/ (u \in Elems(ready[0][p]) /\ v = t)
      BY <1>2, <3>2 DEF Extends
    <3>4. u \in Elems(ready[0][p]) => u # t /\ u \in Elems(arrivals)
      BY <1>2, <1>4, Linked DEF Lists
    <3>5. \A w \in Elems(arrivals) \ {t} : Before(arrivals, w, t)
      BY <1>1, <1>2, <2>1 DEF LeavesLast
    <3> QED BY <1>2, <3>3, <3>4, <3>5 DEF ListsInOrder
  <2>2. CASE ~(state[t] = "READY" /\ t # 1)
    BY <1>1, <1>2, <2>2 DEF ListsInOrder
  <2> QED BY <2>1, <2>2
<1> QED BY <1>3, <1>6

LEMMA NextOInv == OInv /\ [Next]_vars => OInv'
<1> SUFFICES ASSUME OInv, [Next]_vars PROVE OInv'
  OBVIOUS
<1>0. SInv /\ SInv' /\ ListsInOrder /\ AgesInOrder
  BY NextSInv DEF OInv
<1>1. /\ DInv /\ Shapes /\ Lists /\ 0 \in CPUs /\ self \in Threads /\ state \in [Threads -> States]
      /\ prio \in [Threads -> Priorities] /\ pc \in [CPUs -> Places] /\ \A t \in Threads : mask[t] = {0}
      /\ (pc[0] \in {"run", "tick"} => state[self] = "RUNNING") /\ (pc[0] = "exit" => state[self] = "ZOMBIE")
  BY <1>0, AtBsp DEF SInv
<1>2. ASSUME pc[0] \in {"run", "tick", "exit"}, UNCHANGED pc, ListsInOrder', AgesInOrder'
      PROVE  OInv'
  BY <1>0, <1>2 DEF OInv, LeavesLast, Settled
<1>3. ASSUME pc[0] \in {"run", "tick", "exit"}, UNCHANGED pc, UNCHANGED <<ready, arrivals, age>>
      PROVE  OInv'
  BY <1>0, <1>2, <1>3, QuietInOrder
<1>4. ASSUME NEW place \in {"run", "tick", "exit", "schedule"}, Going(place), state'[self'] # "READY", ListsInOrder', AgesInOrder'
      PROVE  OInv'
  <2>1. pc'[0] = place
    BY <1>1, <1>4 DEF Going
  <2> QED BY <1>0, <1>4, <2>1 DEF OInv, LeavesLast, Settled
<1>5. ASSUME NEW t \in Threads, Arrives(t), pc[0] \in {"run", "tick", "exit"}, UNCHANGED pc
      PROVE  OInv'
  BY <1>0, <1>2, <1>5, ArrivalInOrder
<1>6. CASE ReapExited \/ ReapProcess \/ \E t \in Threads : Discard(t) \/ Join(t)
  BY <1>3, <1>6 DEF ReapExited, ReapProcess, Discard, Join, Release, Running, NoSwitch, waiting
<1>7. ASSUME NEW st \in {"READY", "NEW"}, Create(st)
      PROVE  OInv'
  <2> DEFINE dead == Reapable(kind)
             free == {t \in table.slots : state[t] = "FREE"} \cup dead
             t == CHOOSE x \in free : \A y \in free : x <= y
  <2>1. /\ free # {} /\ UNCHANGED pc /\ pc[0] = "run"
        /\ st = "READY" => /\ arrivals' = Arrive(t) /\ age' = [age EXCEPT ![t] = 0]
                           /\ ready' = Linking(ready, t, 0, DefaultPriority)
        /\ st # "READY" => UNCHANGED <<arrivals, age, ready>>
    BY <1>7 DEF Create, NoSwitch, Running, waiting, Linking
  <2>2. free \in SUBSET Threads /\ \A x \in free : state[x] \in {"FREE", "ZOMBIE"}
    <3>1. table.slots \subseteq Threads
      BY <1>0, SchedAssumption DEF SInv, Alone
    <3> QED BY <3>1 DEF Reapable
  <2>3. t \in free
    <3>1. \E x \in free : \A y \in free : x <= y
      <4> HIDE DEF free
      <4> QED BY <2>1, <2>2, Bsp, LeastNat
    <3> QED BY <3>1
  <2> HIDE DEF free, t
  <2>4. CASE st = "READY"
    <3>1. t \in Threads /\ ~Queued(t)
      BY <1>1, <2>2, <2>3, QueuedMeans, Linked
    <3>2. Unlinked(ready, t)
      BY <1>1, <3>1, Linked, QueuedMeans DEF Unlinked
    <3>a. ready' = Linking(ready, t, 0, DefaultPriority) /\ ready \in [CPUs -> [Priorities -> Seq(Threads)]]
      BY <1>1, <2>1, <2>4 DEF Shapes
    <3>b. Extends(Linking(ready, t, 0, DefaultPriority), ready, t, 0, DefaultPriority)
      BY <1>1, <3>1, <3>2, <3>a, LinkFacts, Bsp
    <3>3. Extends(ready', ready, t, 0, DefaultPriority)
      BY <3>a, <3>b
    <3>4. Arrives(t)
      BY <1>0, <2>1, <2>4, <3>1, <3>3, WakingArrives, Bsp
    <3> QED BY <1>5, <2>1, <3>1, <3>4
  <2>5. CASE st # "READY"
    BY <1>3, <2>1, <2>5
  <2> QED BY <2>4, <2>5
<1>8. ASSUME NEW t \in Threads, Resume(t) \/ Wake(t)
      PROVE  OInv'
  <2>1. /\ state[t] # "READY" /\ UNCHANGED pc /\ pc[0] \in {"run", "tick", "exit"}
        /\ arrivals' = Arrive(t) /\ age' = [age EXCEPT ![t] = 0]
        /\ ready' = (IF onCpu[t] = None THEN Enqueue(ready, t, Choose(mask[t])) ELSE ready)
    BY <1>8 DEF Resume, Wake, MakeReady, Running, Waking, NoSwitch
  <2>2. ~Queued(t)
    BY <1>1, <2>1, QueuedMeans, Linked
  <2>3. Choose(mask[t]) = 0
    BY <1>1, ChooseIn
  <2>4. ready' = ready \/ Extends(ready', ready, t, 0, prio[t])
    BY <1>1, <2>1, <2>2, <2>3, EnqueueFacts
  <2>5. Arrives(t)
    BY <1>0, <1>1, <2>1, <2>2, <2>4, WakingArrives
  <2> QED BY <1>5, <2>1, <2>5
<1>9. ASSUME NEW t \in Threads, NEW pq \in Policies, SetPolicy(t, pq[1], pq[2])
      PROVE  OInv'
  <2> DEFINE p == pq[1]
             move == Queued(t) /\ p # prio[t]
             k == Remove(ready, t)
  <2>0. p \in Priorities
    BY SchedAssumption
  <2>1. /\ UNCHANGED pc /\ pc[0] = "run"
        /\ move => arrivals' = Arrive(t) /\ age' = [age EXCEPT ![t] = 0] /\ ready' = Linking(k, t, 0, p)
        /\ ~move => UNCHANGED <<arrivals, age, ready>>
    BY <1>9 DEF SetPolicy, NoSwitch, Running, waiting, Linking
  <2>2. CASE move
    <3>1. /\ k \in [CPUs -> [Priorities -> Seq(Threads)]]
          /\ \A d \in CPUs, r \in Priorities :
               /\ Injective(k[d][r]) /\ Elems(k[d][r]) = Elems(ready[d][r]) \ {t}
               /\ \A u, v : Before(k[d][r], u, v) => Before(ready[d][r], u, v)
      BY <1>1, RemoveFacts
    <3> HIDE DEF k, p
    <3>2. Unlinked(k, t)
      BY <3>1 DEF Unlinked
    <3>a. ready' = Linking(k, t, 0, p) /\ 0 \in CPUs
      BY <1>1, <2>1, <2>2
    <3>b. Extends(Linking(k, t, 0, p), k, t, 0, p)
      BY <2>0, <3>1, <3>2, <3>a, LinkFacts
    <3>3. Extends(ready', k, t, 0, p)
      BY <3>a, <3>b
    <3>4. /\ \A r \in Priorities : \A u, v : Before(k[0][r], u, v) => Before(ready[0][r], u, v)
          /\ \A r \in Priorities : Elems(k[0][r]) \subseteq Elems(ready[0][r])
      BY ONLY <3>a, <3>1
    <3>5. Arrives(t)
      BY <1>0, <2>0, <2>1, <2>2, <3>2, <3>3, <3>4, ExtensionArrives
    <3> QED BY <1>5, <2>1, <3>5
  <2>3. CASE ~move
    BY <1>3, <2>1, <2>3
  <2> QED BY <2>2, <2>3
<1>10. CASE (\E t \in Threads : (\E k \in {"user", "held"} : Publish(t, k)) \/ CreatorRelease(t)) \/ SetIrql
  BY <1>3, <1>10 DEF Publish, CreatorRelease, SetIrql, OnlyKind, NoSwitch, Running, waiting
<1>11. CASE Yield \/ Block \/ Exit \/ ExitSignalled
  <2>1. UNCHANGED <<ready, arrivals, age, current>> /\ (Going("schedule") \/ Going("exit"))
    BY <1>11 DEF Yield, Block, Exit, ExitSignalled, OnlyPc, waiting, cpus
  <2>2. self' = self /\ state'[self] # "READY"
    BY <1>1, <1>11, <2>1 DEF Yield, Block, Exit, ExitSignalled, Running, self
  <2> QED BY <1>0, <1>4, <2>1, <2>2, QuietInOrder
<1>12. ASSUME NEW f \in BOOLEAN, TimerTick(f)
       PROVE  OInv'
  <2>1. Clock /\ UNCHANGED <<ready, arrivals, state, current>> /\ Going("tick") /\ pc[0] = "run"
    BY <1>12 DEF TimerTick, cpus
  <2>2. ListsInOrder'
    BY <1>0, <2>1 DEF ListsInOrder
  <2>3. Starvation \in Nat /\ age \in [Threads -> 0 .. Starvation]
    BY <1>0, DispatcherAssumption DEF AgesInOrder
  <2>4. age' \in [Threads -> 0 .. Starvation]
    BY <2>1, <2>3 DEF Clock
  <2>5. ASSUME NEW u \in Threads, NEW v \in Threads, Before(arrivals, u, v)
        PROVE  age'[v] <= age'[u]
    <3>1. u \in Elems(arrivals) /\ v \in Elems(arrivals)
      BY <2>5, BeforeMembers
    <3>2. state[u] = "READY" /\ u \notin Idles /\ state[v] = "READY" /\ v \notin Idles
      BY <1>1, <3>1 DEF Lists
    <3>3. age[v] <= age[u] /\ age[u] \in 0 .. Starvation /\ age[v] \in 0 .. Starvation
      BY <1>0, <2>3, <2>5 DEF AgesInOrder
    <3>4. age'[u] = (IF age[u] < Starvation THEN age[u] + 1 ELSE age[u]) /\ age'[v] = (IF age[v] < Starvation THEN age[v] + 1 ELSE age[v])
      BY <2>1, <3>2 DEF Clock
    <3> QED BY <2>3, <3>3, <3>4
  <2>6. AgesInOrder'
    BY <2>1, <2>4, <2>5 DEF AgesInOrder
  <2>7. state'[self'] # "READY"
    BY <1>1, <2>1 DEF self
  <2> QED BY <1>4, <2>1, <2>2, <2>6, <2>7
<1>13. CASE TickDecide
  <2>1. UNCHANGED <<ready, arrivals, age, state, current>> /\ (Going("run") \/ Going("schedule")) /\ pc[0] = "tick"
    BY <1>13 DEF TickDecide, TickPolicy, Going, waiting, cpus
  <2>2. state'[self'] # "READY"
    BY <1>1, <2>1 DEF self
  <2> QED BY <1>0, <1>4, <2>1, <2>2, QuietInOrder
<1>14. CASE Switch
  <2>1. pc'[0] \in {"run", "switch"}
    BY <1>1, <1>14 DEF Switch, Schedule
  <2> QED BY <1>0, <1>14, <2>1, SwitchInOrder DEF OInv, Settled
<1>15. CASE SwitchComplete
  <2>1. pc'[0] = "run"
    BY <1>1, <1>15 DEF SwitchComplete, Complete
  <2> QED BY <1>0, <1>15, <2>1, CompleteInOrder DEF OInv, LeavesLast, Settled
<1>16. CASE UNCHANGED vars
  BY <1>0, <1>16, QuietInOrder DEF OInv, LeavesLast, Settled, vars, dvars, waiting, cpus, self
<1> QED BY <1>6, <1>7, <1>8, <1>9, <1>10, <1>11, <1>12, <1>13, <1>14, <1>15, <1>16 DEF Next

\* At a tick and at schedule() every other READY thread is in the list of its priority,
\* behind a head that arrived no later and is no younger.
LEMMA BehindHead ==
  ASSUME OInv, pc[0] \in {"tick", "schedule"}, NEW t \in Threads \ Idles, state[t] = "READY"
  PROVE  t # self /\ \E h \in Heads(0) : prio[h] = prio[t] /\ (h = t \/ Before(arrivals, h, t)) /\ age[t] <= age[h]
<1>1. Shapes /\ Live /\ Lists /\ 0 \in CPUs /\ self \in Threads /\ mask[t] = {0} /\ ListsInOrder /\ AgesInOrder
  BY AtBsp DEF OInv, SInv, DInv
<1>2. t # self
  BY AtBsp DEF OInv, Settled
<1>3. onCpu[t] = None
  <2>1. outgoing[0] = None /\ None \notin Threads
    BY <1>1, LiveOn, Bsp
  <2>2. onCpu[t] # 0
    BY <1>1, <1>2, <2>1, LiveOn DEF self
  <2> QED BY <1>1, <2>2, Bsp DEF Shapes
<1>4. t \in Elems(ready[0][prio[t]])
  BY <1>1, <1>3 DEF Lists, NoLostThread
<1> DEFINE p == prio[t]
           s == ready[0][p]
           h == s[1]
<1>5. p \in Priorities /\ s \in Seq(Threads)
  BY <1>1 DEF Shapes
<1>6. PICK i \in 1 .. Len(s) : s[i] = t
  BY <1>4, <1>5, ElemsTyped
<1>7. 1 \in 1 .. Len(s) /\ s # <<>>
  BY <1>5, <1>6
<1>8. h \in Heads(0) /\ h \in Elems(s)
  BY <1>5, <1>7, ElemsTyped DEF Heads
<1>9. h \in Threads /\ prio[h] = p
  BY <1>1, <1>5, <1>8, Linked
<1>10. h = t \/ Before(arrivals, h, t)
  <2>1. CASE i = 1
    BY <1>6, <2>1
  <2>2. CASE i # 1
    <3>1. Before(s, h, t)
      BY <1>5, <1>6, <1>7, <2>2 DEF Before
    <3> QED BY <1>1, <1>5, <1>9, <3>1 DEF ListsInOrder
  <2> QED BY <2>1, <2>2
<1>11. age[t] <= age[h]
  <2>1. age[t] \in 0 .. Starvation /\ age[h] \in 0 .. Starvation /\ Starvation \in Nat
    BY <1>1, <1>9, DispatcherAssumption DEF AgesInOrder
  <2>2. CASE h = t
    BY <2>1, <2>2
  <2>3. CASE Before(arrivals, h, t)
    BY <1>1, <1>9, <2>3 DEF AgesInOrder
  <2> QED BY <1>10, <2>2, <2>3
<1> HIDE DEF h
<1> QED BY <1>2, <1>8, <1>9, <1>10, <1>11

\* What schedule() takes, in the order of arrivals.
LEMMA OrderAtSwitch ==
  ASSUME OInv, Switch
  PROVE  InDispatchOrder
<1> DEFINE next == ScheduleNext(0)
           arrived == state[self] = "RUNNING"
           cand == Pick(0)
           others == {t \in Threads \ Idles : state[t] = "READY"}
           cands == others \cup (IF arrived THEN {self} \ Idles ELSE {})
           order == IF arrived THEN Arrive(self) ELSE arrivals
           aged == {t \in others : age[t] >= Starvation}
           best == {t \in cands : \A u \in cands : prio[u] <= prio[t]}
           pool == IF aged # {} THEN aged ELSE best
<1>1. pc[0] = "schedule" /\ self' = next
  <2>1. pc[0] = "schedule" /\ current' = [current EXCEPT ![0] = next]
    BY DEF Switch, Schedule, ScheduleNext
  <2>2. 0 \in CPUs /\ current \in [CPUs -> Threads \cup {None}]
    BY AtBsp DEF OInv, Shapes
  <2> HIDE DEF next
  <2> QED BY <2>1, <2>2 DEF self
<1>2. /\ SInv /\ DInv /\ Shapes /\ Lists /\ 0 \in CPUs /\ self \in Threads /\ state[self] # "READY"
      /\ prio \in [Threads -> Priorities] /\ age \in [Threads -> 0 .. Starvation]
  BY <1>1, AtBsp DEF OInv, SInv, Settled, AgesInOrder
<1>3. Elems(arrivals) = others /\ arrivals \in Seq(Threads) /\ Injective(arrivals) /\ self \notin others
  BY <1>2 DEF Lists, Shapes
<1>4. /\ \A t \in Threads : prio[t] \in Nat /\ age[t] \in Nat
      /\ Starvation \in Nat
  BY <1>2, DispatcherAssumption DEF Priorities
<1>5. Heads(0) \subseteq others /\ others \subseteq Threads
  BY <1>2, HeadsLinked, Linked
<1>6. \A h, g \in Heads(0) : prio[h] = prio[g] => h = g
  BY <1>2, HeadsLinked
<1>7. \A t \in others : \E h \in Heads(0) : prio[h] = prio[t] /\ (h = t \/ Before(arrivals, h, t)) /\ age[t] <= age[h]
  BY <1>1, BehindHead
<1>8. \A u, v \in others : Before(arrivals, u, v) => Before(order, u, v)
  <2>1. CASE arrived
    <3>1. \A u, v : Before(Arrive(self), u, v) <=> u # self /\ (IF v = self THEN u \in Elems(arrivals) ELSE Before(arrivals, u, v))
      BY <1>2, <1>3, ArriveFacts
    <3> QED BY <1>3, <2>1, <3>1
  <2>2. CASE ~arrived
    BY <2>2
  <2> QED BY <2>1, <2>2
<1>9. arrived => \A u \in others : Before(order, u, self)
  <2> SUFFICES ASSUME arrived, NEW u \in others PROVE Before(Arrive(self), u, self)
    OBVIOUS
  <2> QED BY <1>2, <1>3, ArriveFacts
<1> HIDE DEF order
<1>10. next = IF /\ arrived /\ self # 1
                 /\ ~(cand # None /\ age[cand] >= Starvation) /\ (cand = None \/ prio[self] > prio[cand])
              THEN self ELSE IF cand = None THEN 1 ELSE cand
  BY <1>2, Bsp DEF ScheduleNext, OutgoingKeeps, self
<1>11. /\ Heads(0) = {} => cand = None
       /\ Heads(0) # {} => cand \in Heads(0) /\ cand # None
       /\ AgedHeads(0) # {} => cand \in AgedHeads(0) /\ \A u \in AgedHeads(0) \ {cand} : Before(arrivals, cand, u)
       /\ AgedHeads(0) = {} /\ Heads(0) # {} => \A u \in Heads(0) : prio[u] <= prio[cand]
  BY <1>2, PickIn
<1>12. AgedHeads(0) = {h \in Heads(0) : age[h] >= Starvation} /\ Idles = {1}
  BY Bsp DEF AgedHeads
<1>13. SUFFICES IF pool = {} THEN next = 1 ELSE next \in pool /\ \A u \in pool \ {next} : Before(order, next, u)
  BY <1>1 DEF InDispatchOrder, order
<1> HIDE DEF next, cand
<1>14. CASE aged # {}
  <2>1. \A u \in aged : \E h \in AgedHeads(0) : h = u \/ Before(arrivals, h, u)
    <3> TAKE u \in aged
    <3>1. PICK h \in Heads(0) : (h = u \/ Before(arrivals, h, u)) /\ age[u] <= age[h]
      BY <1>7
    <3>2. age[h] >= Starvation
      BY <1>4, <1>5, <3>1
    <3> QED BY <1>12, <3>1, <3>2
  <2>2. cand \in AgedHeads(0) /\ (\A u \in AgedHeads(0) \ {cand} : Before(arrivals, cand, u))
    BY <1>11, <1>14, <2>1
  <2>3. cand \in aged /\ next = cand
    BY <1>5, <1>10, <1>11, <1>12, <2>2
  <2>4. ASSUME NEW u \in aged \ {cand}
        PROVE  Before(arrivals, cand, u)
    <3>1. PICK h \in AgedHeads(0) : h = u \/ Before(arrivals, h, u)
      BY <2>1
    <3>2. CASE h = cand
      BY <3>1, <3>2
    <3>3. CASE h # cand
      <4>1. Before(arrivals, cand, h)
        BY <2>2, <3>3
      <4> QED BY <1>3, <3>1, <4>1, BeforeTransitive
    <3> QED BY <3>2, <3>3
  <2>5. \A u \in aged \ {cand} : Before(order, cand, u)
    BY <1>8, <2>3, <2>4
  <2> QED BY <1>14, <2>3, <2>5
<1>15. CASE aged = {}
  <2>1. AgedHeads(0) = {} /\ pool = best
    BY <1>5, <1>12, <1>15
  <2>2. CASE Heads(0) = {}
    <3>1. others = {} /\ cand = None
      BY <1>7, <1>11, <2>2
    <3>2. CASE arrived /\ self # 1
      <4>1. cands = {self} /\ next = self
        BY <1>10, <1>12, <3>1, <3>2
      <4>2. best = {self}
        BY <1>2, <1>4, <4>1
      <4> QED BY <2>1, <4>1, <4>2
    <3>3. CASE ~(arrived /\ self # 1)
      <4>1. cands = {} /\ next = 1
        BY <1>10, <1>12, <3>1, <3>3
      <4> QED BY <2>1, <4>1
    <3> QED BY <3>2, <3>3
  <2>3. CASE Heads(0) # {}
    <3>1. cand \in Heads(0) /\ cand # None /\ cand \in others /\ cand \in Threads /\ ~(age[cand] >= Starvation)
      BY <1>5, <1>11, <1>12, <2>1, <2>3
    <3>2. \A u \in others : prio[u] <= prio[cand]
      BY <1>7, <1>11, <2>1, <2>3
    <3>3. CASE arrived /\ self # 1 /\ prio[self] > prio[cand]
      <4>1. next = self /\ cands = others \cup {self}
        BY <1>10, <1>12, <3>1, <3>3
      <4>2. \A u \in others : prio[u] <= prio[self] /\ ~(prio[self] <= prio[u])
        BY <1>2, <1>4, <1>5, <3>1, <3>2, <3>3
      <4>3. best = {self}
        BY <1>2, <1>4, <4>1, <4>2
      <4> QED BY <2>1, <4>1, <4>3
    <3>4. CASE ~(arrived /\ self # 1 /\ prio[self] > prio[cand])
      <4>1. next = cand
        BY <1>10, <3>1, <3>4
      <4>2. \A u \in cands : prio[u] <= prio[cand] /\ (u \in others \/ (u = self /\ arrived))
        BY <1>2, <1>4, <1>12, <3>1, <3>2, <3>4
      <4>3. cand \in best
        BY <3>1, <4>2
      <4>4. ASSUME NEW u \in best \ {cand}
            PROVE  Before(order, cand, u)
        <5>1. prio[u] = prio[cand] /\ u \in cands
          <6>1. prio[u] <= prio[cand] /\ prio[cand] <= prio[u] /\ u \in cands
            BY <3>1, <4>2
          <6> QED BY <1>2, <1>4, <1>5, <3>1, <4>2, <6>1
        <5>2. CASE u \in others
          <6>1. PICK h \in Heads(0) : prio[h] = prio[u] /\ (h = u \/ Before(arrivals, h, u))
            BY <1>7, <5>2
          <6>2. h = cand
            BY <1>6, <3>1, <5>1, <6>1
          <6> QED BY <1>8, <3>1, <5>2, <6>1, <6>2
        <5>3. CASE u = self /\ arrived
          BY <1>9, <3>1, <5>3
        <5> QED BY <4>2, <5>1, <5>2, <5>3
      <4> HIDE DEF best
      <4> QED BY <2>1, <4>1, <4>3, <4>4
    <3> QED BY <3>3, <3>4
  <2> QED BY <2>2, <2>3
<1> QED BY <1>14, <1>15

\* schedule() dispatches in the global order, whatever wakes, moves and preempts before.
THEOREM DispatchesInOrder == Spec => DispatchOrder
<1>1. Init => OInv
  BY InitOInv
<1>2. OInv /\ [Next]_vars => OInv'
  BY NextOInv
<1>3. OInv /\ [Next]_vars => [InDispatchOrder]_vars
  <2> SUFFICES ASSUME OInv, Next PROVE InDispatchOrder
    OBVIOUS
  <2>1. CASE pc[0] # "schedule"
    BY <2>1 DEF InDispatchOrder
  <2>2. CASE pc[0] = "schedule"
    <3>1. Switch
      BY <2>2 DEF Next, ReapExited, ReapProcess, Create, Publish, CreatorRelease, Resume, Discard, Wake, Join, SetPolicy,
                  Yield, Block, Exit, ExitSignalled, SetIrql, TimerTick, TickDecide, SwitchComplete, Complete, Running, Waking
    <3> QED BY <3>1, OrderAtSwitch
  <2> QED BY <2>1, <2>2
<1> QED BY <1>1, <1>2, <1>3, PTL DEF Spec, DispatchOrder
-----------------------------------------------------------------------------
(* The bound on a wait. Once Watched has aged, each thread before it in the  *)
(* order of arrivals gets at most one aged grant before Watched does, for an *)
(* arrival queues behind it and schedule() takes the first aged thread. The  *)
(* ticks it has waited, those left of the present grant and those of the     *)
(* threads ahead never exceed what they were when it became aged.            *)

Competitors == table.slots \ Idles
AheadIn(s) == {t \in Elems(s) : Before(s, t, Watched)}
Ahead == AheadIn(arrivals)

\* Eligible ticks until the BSP schedules while an aged thread is queued.
Grant == IF pc[0] \in {"exit", "schedule"} THEN 0 ELSE IF aging[0] > 1 THEN aging[0] ELSE 1

Housed == \A t \in Threads \ table.slots : state[t] = "FREE"

WaitedSoFar ==
  /\ waited \in Nat
  /\ state[Watched] # "READY" => waited = 0
  /\ state[Watched] = "READY" /\ age[Watched] < Starvation =>
       waited <= age[Watched] + (IF pc[0] = "tick" THEN 0 ELSE 1)
  /\ state[Watched] = "READY" /\ age[Watched] = Starvation =>
       waited + Grant + AgedService * Cardinality(Ahead) <= Starvation + AgedService * Cardinality(Competitors)

WInv == OInv /\ Housed /\ aging \in [CPUs -> 0 .. AgedService] /\ WaitedSoFar

LEMMA WatchedFacts ==
  ASSUME table \in Tables
  PROVE  /\ Watched \in Threads \ Idles /\ Watched \in table.slots /\ Watched # 1
         /\ Watched \in Competitors /\ Competitors \subseteq Threads /\ IsFiniteSet(Competitors)
         /\ Cardinality(Competitors) \in Nat
         /\ AgedService \in Nat /\ AgedService >= 1 /\ MaxQuantum \in Nat /\ AgedService <= MaxQuantum
         /\ Starvation \in Nat /\ Starvation >= 1
<1>1. Watched \in table.slots \ {1} /\ table.slots \subseteq Threads /\ AgedService <= MaxQuantum
  BY SchedAssumption
<1>2. Competitors \subseteq Threads /\ Watched \in Competitors
  BY <1>1, Bsp DEF Competitors
<1>3. IsFiniteSet(Competitors)
  BY <1>2, FS_Subset, DispatcherAssumption
<1>4. Cardinality(Competitors) \in Nat
  BY <1>3, FS_CardinalityType
<1>5. {MaxQuantum, Starvation, AgedService} \subseteq Nat \ {0}
  BY DispatcherAssumption
<1> QED BY <1>1, <1>2, <1>3, <1>4, <1>5, Bsp

\* A thread that waits in s is behind all competitors but itself at most.
LEMMA FewAhead ==
  ASSUME NEW s \in Seq(Threads), Injective(s), NEW C, IsFiniteSet(C), Elems(s) \subseteq C, Watched \in C
  PROVE  /\ IsFiniteSet(AheadIn(s)) /\ Cardinality(AheadIn(s)) \in Nat
         /\ Cardinality(C) \in Nat /\ Cardinality(AheadIn(s)) + 1 <= Cardinality(C)
<1>1. ~Before(s, Watched, Watched)
  <2> SUFFICES ASSUME NEW i \in DOMAIN s, NEW j \in DOMAIN s, s[i] = s[j], i < j PROVE FALSE
    BY DEF Before
  <2>1. i = j /\ i \in Nat
    BY DEF Injective
  <2> QED BY <2>1
<1>2. AheadIn(s) \subseteq C \ {Watched}
  BY <1>1 DEF AheadIn
<1>3. IsFiniteSet(C \ {Watched}) /\ Cardinality(C \ {Watched}) = Cardinality(C) - 1 /\ Cardinality(C) \in Nat
  BY FS_RemoveElement, FS_CardinalityType
<1>4. IsFiniteSet(AheadIn(s)) /\ Cardinality(AheadIn(s)) <= Cardinality(C \ {Watched})
  BY <1>2, <1>3, FS_Subset
<1>5. Cardinality(AheadIn(s)) \in Nat
  BY <1>4, FS_CardinalityType
<1> QED BY <1>3, <1>4, <1>5

\* What a thread fewer ahead is worth.
LEMMA OneGrant ==
  ASSUME NEW a \in Nat, NEW n \in Nat, NEW m \in Nat
  PROVE  /\ a * n \in Nat /\ a * m \in Nat
         /\ n <= m => a * n <= a * m
         /\ n + 1 <= m => a * n + a <= a * m
<1>1. a * (n + 1) = a * n + a /\ a * n \in Nat /\ a * m \in Nat
  OBVIOUS
<1>2. ASSUME NEW k \in Nat, k <= m PROVE a * k <= a * m
  <2>1. PICK d \in Nat : m = k + d
    <3>1. m - k \in Nat /\ m = k + (m - k)
      BY <1>2
    <3> QED BY <3>1
  <2>2. a * m = a * k + a * d /\ a * d \in Nat /\ a * k \in Nat
    BY <2>1
  <2> QED BY <2>2
<1>3. n + 1 <= m => a * (n + 1) <= a * m
  BY <1>2
<1> QED BY <1>1, <1>2, <1>3

\* The sizes WaitedSoFar speaks of, before a step and after it.
LEMMA Sizes ==
  ASSUME SInv, Housed
  PROVE  /\ IsFiniteSet(Ahead) /\ Cardinality(Ahead) \in Nat /\ Cardinality(Competitors) \in Nat
         /\ Cardinality(Ahead) + 1 <= Cardinality(Competitors)
<1>1. Shapes /\ Lists /\ table \in Tables
  BY DEF SInv, DInv, Alone
<1>2. arrivals \in Seq(Threads) /\ Injective(arrivals) /\ Elems(arrivals) \subseteq Competitors
  BY <1>1 DEF Shapes, Lists, Housed, Competitors
<1>3. Watched \in Competitors /\ IsFiniteSet(Competitors)
  BY <1>1, WatchedFacts
<1> QED BY <1>2, <1>3, FewAhead DEF Ahead

LEMMA SizesNext ==
  ASSUME SInv', Housed'
  PROVE  /\ IsFiniteSet(Ahead') /\ Cardinality(Ahead') \in Nat /\ Cardinality(Competitors') \in Nat
         /\ Cardinality(Ahead') + 1 <= Cardinality(Competitors')
<1>1. Shapes' /\ Lists' /\ table' \in Tables
  BY DEF SInv, DInv, Alone
<1>2. arrivals' \in Seq(Threads) /\ Injective(arrivals') /\ Elems(arrivals') \subseteq Competitors'
  BY <1>1 DEF Shapes, Lists, Housed, Competitors
<1>3. Watched \in Competitors' /\ IsFiniteSet(Competitors')
  <2>1. Watched \in table'.slots \ {1} /\ table'.slots \subseteq Threads
    BY <1>1, SchedAssumption
  <2>2. Competitors' \subseteq Threads /\ Watched \in Competitors'
    BY <2>1, Bsp DEF Competitors
  <2> QED BY <2>2, FS_Subset, DispatcherAssumption
<1> QED BY <1>2, <1>3, FewAhead DEF Ahead
\* With a smaller grant left and fewer threads ahead the bound still holds.
LEMMA SmallerSum ==
  ASSUME NEW w \in Nat, NEW g \in Nat, NEW h \in Nat, NEW a \in Nat, NEW b \in Nat, NEW s \in Nat, NEW m \in Nat,
         h <= g, a <= b, w + g + b <= s + m
  PROVE  w + h + a <= s + m
  OBVIOUS

\* A tick that counts is paid for by the grant.
Fewer(h, g) == h \in Nat /\ h + 1 <= g

LEMMA PaidByGrant ==
  ASSUME NEW w \in Nat, NEW x \in Nat, x = w \/ x = w + 1, NEW g \in Nat, NEW h, Fewer(h, g),
         NEW n \in Nat, NEW s \in Nat, NEW m \in Nat, w + g + n <= s + m
  PROVE  x + h + n <= s + m
<1>1. h \in Nat /\ h + 1 <= g
  BY DEF Fewer
<1>2. CASE x = w
  BY <1>1, <1>2
<1>3. CASE x = w + 1
  BY <1>1, <1>3
<1> QED BY <1>2, <1>3

\* A wait that has just started, or starts anew.
LEMMA WaitRestarts ==
  ASSUME OInv', Housed', waited' = 0, aging' \in [CPUs -> 0 .. AgedService]
  PROVE  WaitedSoFar'
<1>1. /\ Cardinality(Ahead') \in Nat /\ Cardinality(Competitors') \in Nat
      /\ Cardinality(Ahead') + 1 <= Cardinality(Competitors')
  BY SizesNext DEF OInv
<1>2. AgedService \in Nat /\ AgedService >= 1 /\ Starvation \in Nat
  BY DispatcherAssumption
<1>3. Grant' \in 0 .. AgedService
  <2>1. aging'[0] \in 0 .. AgedService
    BY Bsp
  <2> QED BY <1>2, <2>1 DEF Grant
<1>4. AgedService * Cardinality(Ahead') + AgedService <= AgedService * Cardinality(Competitors')
  BY <1>1, <1>2, OneGrant
<1>5. AgedService * Cardinality(Ahead') \in Nat /\ AgedService * Cardinality(Competitors') \in Nat
  BY <1>1, <1>2, OneGrant
<1> DEFINE a == AgedService * Cardinality(Ahead')
           b == AgedService * Cardinality(Competitors')
<1>6. 0 + Grant' + a <= Starvation + b
  <2> HIDE DEF a, b
  <2>1. a \in Nat /\ b \in Nat /\ a + AgedService <= b
    BY <1>4, <1>5 DEF a, b
  <2>2. 0 + AgedService + a <= Starvation + b /\ 0 \in Nat
    BY ONLY <1>2, <2>1
  <2>3. Grant' \in Nat /\ Grant' <= AgedService /\ a <= a
    BY ONLY <1>2, <1>3, <2>1
  <2> QED BY ONLY <1>2, <2>1, <2>2, <2>3, SmallerSum
<1>7. state'[Watched] = "READY" /\ age'[Watched] < Starvation => 0 <= age'[Watched] + (IF pc'[0] = "tick" THEN 0 ELSE 1)
  <2> SUFFICES ASSUME state'[Watched] = "READY"
               PROVE  0 <= age'[Watched] + (IF pc'[0] = "tick" THEN 0 ELSE 1)
    OBVIOUS
  <2>1. age' \in [Threads -> 0 .. Starvation] /\ Watched \in Threads
    BY SchedAssumption DEF OInv, SInv, Alone, AgesInOrder
  <2>2. age'[Watched] \in 0 .. Starvation
    BY <2>1
  <2> QED BY <1>2, <2>2
<1> QED BY <1>6, <1>7 DEF WaitedSoFar

\* A step that neither ends nor ages the wait and makes nobody arrive before Watched.
LEMMA WaitGoesOn ==
  ASSUME WInv, table' = table, waited' = waited, aging' = aging,
         state'[Watched] = "READY" <=> state[Watched] = "READY",
         state[Watched] = "READY" => age'[Watched] = age[Watched],
         Ahead' \subseteq Ahead,
         pc'[0] = pc[0] \/ pc'[0] \in {"exit", "schedule"} \/ (pc[0] = "switch" /\ pc'[0] = "run")
  PROVE  WaitedSoFar'
<1>1. SInv /\ Housed /\ table \in Tables /\ WaitedSoFar /\ age \in [Threads -> 0 .. Starvation]
  BY DEF WInv, OInv, SInv, Alone, AgesInOrder
<1>2. /\ IsFiniteSet(Ahead) /\ Cardinality(Ahead) \in Nat /\ Cardinality(Competitors) \in Nat
      /\ Competitors' = Competitors
  BY <1>1, Sizes DEF Competitors
<1>3. Cardinality(Ahead') \in Nat /\ Cardinality(Ahead') <= Cardinality(Ahead)
  BY <1>2, FS_Subset, FS_CardinalityType
<1>4. Watched \in Threads /\ AgedService \in Nat /\ Starvation \in Nat
  BY <1>1, WatchedFacts
<1>5. Grant \in Nat /\ Grant' \in Nat /\ Grant' <= Grant
  <2>1. aging[0] \in Nat
    BY <1>4, Bsp DEF WInv
  <2> QED BY <2>1 DEF Grant
<1> DEFINE a == AgedService * Cardinality(Ahead')
           b == AgedService * Cardinality(Ahead)
           m == AgedService * Cardinality(Competitors)
<1>6. a \in Nat /\ b \in Nat /\ m \in Nat /\ a <= b
  BY <1>2, <1>3, <1>4, OneGrant
<1>7. ASSUME state[Watched] = "READY", age[Watched] = Starvation
      PROVE  waited' + Grant' + AgedService * Cardinality(Ahead') <= Starvation + AgedService * Cardinality(Competitors')
  <2>1. waited \in Nat /\ waited + Grant + b <= Starvation + m
    BY <1>1, <1>7 DEF WaitedSoFar
  <2>2. waited' + Grant' + a <= Starvation + m
    <3> HIDE DEF a, b, m
    <3>1. waited + Grant' + a <= Starvation + m
      BY ONLY <1>4, <1>5, <1>6, <2>1, SmallerSum
    <3> QED BY <3>1
  <2> QED BY <1>2, <2>2
<1>8. ASSUME state[Watched] = "READY", age[Watched] < Starvation
      PROVE  waited' <= age[Watched] + (IF pc'[0] = "tick" THEN 0 ELSE 1)
  <2>1. waited <= age[Watched] + (IF pc[0] = "tick" THEN 0 ELSE 1) /\ waited \in Nat
    BY <1>1, <1>8 DEF WaitedSoFar
  <2>2. age[Watched] \in Nat
    BY <1>1, <1>4
  <2> QED BY <2>1, <2>2
<1>9. waited' \in Nat /\ (state[Watched] # "READY" => waited' = 0)
  BY <1>1 DEF WaitedSoFar
<1> QED BY <1>7, <1>8, <1>9 DEF WaitedSoFar

\* The clock: a thread that ages has all competitors ahead at most.
LEMMA WaitAges ==
  ASSUME WInv, SInv', Housed', NEW f \in BOOLEAN, TimerTick(f)
  PROVE  WaitedSoFar'
<1>1. /\ pc[0] = "run" /\ pc' = [pc EXCEPT ![0] = "tick"] /\ Clock
      /\ UNCHANGED <<state, aging, arrivals, table, waited>>
  BY DEF TimerTick, Going, service
<1>2. /\ SInv /\ Housed /\ table \in Tables /\ WaitedSoFar /\ age \in [Threads -> 0 .. Starvation]
      /\ pc \in [CPUs -> Places] /\ pc'[0] = "tick"
  <2>1. pc \in [CPUs -> Places] /\ 0 \in CPUs
    BY AtBsp DEF WInv, OInv
  <2> QED BY <1>1, <2>1 DEF WInv, OInv, SInv, Alone, AgesInOrder
<1>3. Ahead' = Ahead /\ Competitors' = Competitors
  BY <1>1 DEF Ahead, Competitors
<1>4. Cardinality(Ahead) \in Nat /\ Cardinality(Competitors) \in Nat /\ Cardinality(Ahead) + 1 <= Cardinality(Competitors)
  BY <1>2, Sizes
<1>5. Watched \in Threads \ Idles /\ AgedService \in Nat /\ AgedService >= 1 /\ Starvation \in Nat
  BY <1>2, WatchedFacts
<1>6. Grant' = Grant /\ Grant \in 0 .. AgedService
  <2>1. aging[0] \in 0 .. AgedService
    BY Bsp DEF WInv
  <2> QED BY <1>1, <1>2, <1>5, <2>1 DEF Grant
<1> DEFINE a == AgedService * Cardinality(Ahead)
           m == AgedService * Cardinality(Competitors)
<1>7. a \in Nat /\ m \in Nat /\ a + AgedService <= m
  BY <1>4, <1>5, OneGrant
<1>8. CASE state[Watched] # "READY"
  BY <1>1, <1>2, <1>8 DEF WaitedSoFar
<1>9. CASE state[Watched] = "READY" /\ age[Watched] < Starvation
  <2>1. age'[Watched] = age[Watched] + 1 /\ age[Watched] \in Nat
    BY <1>1, <1>2, <1>5, <1>9 DEF Clock
  <2>2. waited \in Nat /\ waited <= age[Watched] + 1
    BY <1>1, <1>2, <1>9 DEF WaitedSoFar
  <2>3. age[Watched] + 1 = Starvation => waited + Grant + a <= Starvation + m
    <3> HIDE DEF a, m
    <3> QED BY <1>5, <1>6, <1>7, <2>1, <2>2
  <2> QED BY <1>1, <1>2, <1>3, <1>6, <1>9, <2>1, <2>2, <2>3 DEF WaitedSoFar
<1>10. CASE state[Watched] = "READY" /\ age[Watched] = Starvation
  <2>1. age'[Watched] = age[Watched]
    BY <1>1, <1>2, <1>5, <1>10 DEF Clock
  <2> QED BY <1>1, <1>2, <1>3, <1>5, <1>6, <1>10, <2>1 DEF WaitedSoFar
<1>11. age[Watched] \in 0 .. Starvation
  BY <1>2, <1>5
<1> QED BY <1>5, <1>8, <1>9, <1>10, <1>11
\* The decision of an undeferred tick: the grant runs down, or ends at once.
LEMMA WaitTicks ==
  ASSUME WInv, TickDecide
  PROVE  WaitedSoFar' /\ aging' \in [CPUs -> 0 .. AgedService]
<1> DEFINE deferred == self \in raised
           n == AgedService * Cardinality(Ahead)
           m == AgedService * Cardinality(Competitors)
           W == state[Watched] = "READY"
<1>1. /\ pc[0] = "tick" /\ UNCHANGED <<state, age, arrivals, table>>
      /\ waited' = IF ~deferred /\ W /\ waited <= WaitBound THEN waited + 1 ELSE waited
      /\ aging' = IF deferred \/ self = 1 THEN aging ELSE [aging EXCEPT ![0] = IF @ > 0 THEN @ - 1 ELSE 0]
      /\ deferred => pc' = [pc EXCEPT ![0] = "run"]
      /\ ~deferred /\ (self = 1 \/ (~(aging[0] > 1) /\ AgedHeads(0) # {})) => pc' = [pc EXCEPT ![0] = "schedule"]
      /\ ~deferred => pc' \in {[pc EXCEPT ![0] = "run"], [pc EXCEPT ![0] = "schedule"]}
  BY Bsp DEF TickDecide, TickPolicy, waiting, lifecycle, self, service
<1>2. /\ SInv /\ OInv /\ Housed /\ table \in Tables /\ WaitedSoFar /\ age \in [Threads -> 0 .. Starvation]
      /\ aging \in [CPUs -> 0 .. AgedService] /\ 0 \in CPUs /\ pc \in [CPUs -> Places]
  <2>1. pc \in [CPUs -> Places] /\ 0 \in CPUs
    BY AtBsp DEF WInv, OInv
  <2> QED BY <2>1 DEF WInv, OInv, SInv, Alone, AgesInOrder
<1>3. Watched \in Threads \ Idles /\ AgedService \in Nat /\ AgedService >= 1 /\ Starvation \in Nat
  BY <1>2, WatchedFacts
<1>4. n \in Nat /\ m \in Nat
  <2>1. Cardinality(Ahead) \in Nat /\ Cardinality(Competitors) \in Nat
    BY <1>2, Sizes
  <2> QED BY <1>3, <2>1, OneGrant
<1>5. Ahead' = Ahead /\ Competitors' = Competitors
  BY <1>1 DEF Ahead, Competitors
<1>6. waited \in Nat /\ aging[0] \in 0 .. AgedService /\ pc'[0] \in {"run", "schedule"}
  BY <1>1, <1>2 DEF WaitedSoFar
<1>7. aging' \in [CPUs -> 0 .. AgedService]
  <2>1. (IF aging[0] > 0 THEN aging[0] - 1 ELSE 0) \in 0 .. AgedService
    BY <1>3, <1>6
  <2> QED BY <1>1, <1>2, <2>1
<1>8. CASE ~W
  BY <1>1, <1>2, <1>7, <1>8 DEF WaitedSoFar
<1>9. CASE W /\ age[Watched] < Starvation
  <2>1. waited <= age[Watched] /\ age[Watched] \in Nat
    BY <1>1, <1>2, <1>3, <1>9 DEF WaitedSoFar
  <2>2. waited' \in Nat /\ waited' <= age[Watched] + 1
    BY <1>1, <1>6, <2>1
  <2> QED BY <1>1, <1>3, <1>6, <1>7, <1>9, <2>1, <2>2 DEF WaitedSoFar
<1>10. CASE W /\ age[Watched] = Starvation
  <2> DEFINE g == IF aging[0] > 1 THEN aging[0] ELSE 1
  <2>1. waited + g + n <= Starvation + m /\ g \in Nat
    BY <1>1, <1>2, <1>6, <1>10 DEF WaitedSoFar, Grant
  <2>2. AgedHeads(0) # {}
    <3>1. PICK h \in Heads(0) : age[Watched] <= age[h]
      BY <1>1, <1>2, <1>3, <1>10, BehindHead
    <3>2. h \in Threads
      <4>1. Shapes /\ Lists
        BY <1>2, AtBsp
      <4> QED BY <1>2, <4>1, HeadsLinked, Linked
    <3>3. age[h] >= Starvation
      BY <1>2, <1>3, <1>10, <3>1, <3>2
    <3> QED BY <3>1, <3>3 DEF AgedHeads
  <2>3. \/ waited' = waited /\ Grant' = g
        \/ (waited' = waited \/ waited' = waited + 1) /\ Fewer(Grant', g)
    <3>1. CASE deferred
      <4>1. pc'[0] = "run" /\ aging' = aging /\ waited' = waited
        BY <1>1, <1>2, <3>1
      <4> QED BY <4>1 DEF Grant
    <3>2. CASE ~deferred /\ (self = 1 \/ ~(aging[0] > 1))
      <4>1. pc'[0] = "schedule"
        BY <1>1, <1>2, <2>2, <3>2
      <4>2. Fewer(Grant', g)
        BY <1>6, <4>1 DEF Grant, Fewer
      <4> QED BY <1>1, <2>1, <4>2
    <3>3. CASE ~deferred /\ self # 1 /\ aging[0] > 1
      <4>1. aging'[0] = aging[0] - 1
        BY <1>1, <1>2, <1>6, <3>3
      <4>2. Fewer(Grant', g)
        BY <1>6, <3>3, <4>1 DEF Grant, Fewer
      <4> QED BY <1>1, <4>2
    <3> QED BY <3>1, <3>2, <3>3
  <2>4. waited' \in Nat /\ waited' + Grant' + n <= Starvation + m
    <3> HIDE DEF n, m, g
    <3>1. CASE waited' = waited /\ Grant' = g
      BY <1>6, <2>1, <3>1
    <3>2. CASE (waited' = waited \/ waited' = waited + 1) /\ Fewer(Grant', g)
      <4>1. n \in Nat /\ m \in Nat
        BY <1>4 DEF n, m
      <4>2. waited' \in Nat
        BY <1>6, <3>2
      <4>3. waited' + Grant' + n <= Starvation + m
        BY ONLY <1>3, <1>6, <2>1, <3>2, <4>1, <4>2, PaidByGrant
      <4> QED BY <4>2, <4>3
    <3> QED BY <2>3, <3>1, <3>2
  <2> QED BY <1>1, <1>3, <1>5, <1>7, <1>10, <2>4 DEF WaitedSoFar
<1>11. age[Watched] \in 0 .. Starvation
  BY <1>2, <1>3
<1> QED BY <1>3, <1>7, <1>8, <1>9, <1>10, <1>11

\* schedule(): Watched leaves, is dispatched, or the thread taken was ahead of it.
LEMMA WaitShortens ==
  ASSUME WInv, OInv', Housed', Switch
  PROVE  WaitedSoFar' /\ aging' \in [CPUs -> 0 .. AgedService]
<1> DEFINE next == ScheduleNext(0)
           cand == Pick(0)
           arrived == state[self] = "RUNNING"
           keeps == /\ arrived \/ state[self] = "READY"
                    /\ self # 1
                    /\ OutgoingKeeps(self, arrived, cand)
           aged == IF keeps THEN ~arrived /\ age[self] >= Starvation
                   ELSE cand # None /\ age[cand] >= Starvation
           order == IF arrived /\ self # 1 THEN Arrive(self) ELSE arrivals
<1>1. /\ pc[0] = "schedule" /\ UNCHANGED table
      /\ arrivals' = Without(order, next)
      /\ age' = [age EXCEPT ![self] = IF arrived THEN 0 ELSE @, ![next] = 0]
      /\ state' = [[state EXCEPT ![self] = IF arrived THEN "READY" ELSE @] EXCEPT ![next] = "RUNNING"]
      /\ aging' = [aging EXCEPT ![0] = IF aged THEN AgedService ELSE 0]
      /\ current' = [current EXCEPT ![0] = next]
      /\ pc' = [pc EXCEPT ![0] = IF next = self THEN "run" ELSE "switch"]
      /\ waited' = IF Watched \in {self, self'} THEN 0 ELSE waited
  BY Bsp DEF Switch, Schedule, ScheduleNext, self, lifecycle
<1>2. next = IF keeps THEN self ELSE IF cand = None THEN 1 ELSE cand
  BY Bsp DEF ScheduleNext, self
<1>3. /\ OInv /\ SInv /\ DInv /\ Shapes /\ Lists /\ 0 \in CPUs /\ self \in Threads /\ onCpu[self] = 0
      /\ state[self] # "READY" /\ Housed /\ table \in Tables /\ WaitedSoFar /\ age \in [Threads -> 0 .. Starvation]
      /\ aging \in [CPUs -> 0 .. AgedService] /\ pc \in [CPUs -> Places] /\ state \in [Threads -> States]
      /\ current \in [CPUs -> Threads \cup {None}]
  <2>1. OInv /\ SInv /\ Settled /\ WaitedSoFar /\ Housed /\ aging \in [CPUs -> 0 .. AgedService]
    BY DEF WInv, OInv
  <2>2. Shapes /\ Lists /\ 0 \in CPUs /\ self \in Threads /\ onCpu[self] = 0
    BY <2>1, AtBsp
  <2> QED BY <1>1, <2>1, <2>2 DEF OInv, SInv, Alone, AgesInOrder, Settled, Shapes
<1>4. next \in Threads /\ self' = next
  <2>1. next \in Threads
    BY <1>1, <1>3, ScheduleTakes
  <2> HIDE DEF next
  <2> QED BY <1>1, <1>3, <2>1 DEF self
<1>5. Watched \in Threads \ Idles /\ AgedService \in Nat /\ AgedService >= 1 /\ Starvation \in Nat
  BY <1>3, WatchedFacts
<1>6. aging' \in [CPUs -> 0 .. AgedService] /\ (aged => aging'[0] = AgedService)
  <2> HIDE DEF aged
  <2> QED BY <1>1, <1>3, <1>5
<1>7. CASE Watched \in {self, next} \/ state[Watched] # "READY"
  <2>1. waited' = 0
    BY <1>1, <1>3, <1>4, <1>7 DEF WaitedSoFar
  <2> QED BY <1>6, <2>1, WaitRestarts
<1>8. CASE Watched \notin {self, next} /\ state[Watched] = "READY"
  <2> HIDE DEF next, cand
  <2>1. waited' = waited /\ state'[Watched] = "READY" /\ age'[Watched] = age[Watched] /\ pc'[0] \in {"run", "switch"}
    BY <1>1, <1>3, <1>4, <1>5, <1>8
  <2>2. CASE age[Watched] < Starvation
    <3>1. waited \in Nat /\ waited <= age[Watched] + 1
      BY <1>1, <1>3, <1>8, <2>2 DEF WaitedSoFar
    <3> QED BY <1>5, <1>6, <2>1, <2>2, <3>1 DEF WaitedSoFar
  <2>3. CASE age[Watched] = Starvation
    <3>1. PICK h \in Heads(0) : (h = Watched \/ Before(arrivals, h, Watched)) /\ age[Watched] <= age[h]
      BY <1>1, <1>3, <1>5, <1>8, BehindHead
    <3>2. h \in AgedHeads(0)
      <4>1. h \in Threads
        BY <1>3, HeadsLinked, Linked
      <4> QED BY <1>3, <1>5, <2>3, <3>1, <4>1 DEF AgedHeads
    <3>3. cand \in AgedHeads(0) /\ cand # None /\ \A u \in AgedHeads(0) \ {cand} : Before(arrivals, cand, u)
      BY <1>3, <3>2, PickIn DEF cand, AgedHeads
    <3>4. cand \in Heads(0) /\ age[cand] >= Starvation
      BY <3>3 DEF AgedHeads
    <3>5. ~keeps /\ next = cand /\ aged
      BY <1>2, <1>3, <3>3, <3>4 DEF OutgoingKeeps
    <3>6. arrivals \in Seq(Threads) /\ Injective(arrivals) /\ self \notin Elems(arrivals)
      BY <1>3 DEF Shapes, Lists
    <3>7. next \in Ahead
      <4>1. Before(arrivals, cand, Watched)
        <5>1. CASE h = cand
          BY <1>8, <3>1, <3>5, <5>1
        <5>2. CASE h # cand
          <6>1. Before(arrivals, cand, h)
            BY <3>2, <3>3, <5>2
          <6> QED BY <3>1, <3>6, <6>1, BeforeTransitive
        <5> QED BY <5>1, <5>2
      <4> QED BY <3>5, <4>1, BeforeMembers DEF Ahead, AheadIn
    <3>8. Ahead' \subseteq Ahead \ {next}
      <4>1. /\ order \in Seq(Threads) /\ Injective(order)
            /\ \A u : Before(order, u, Watched) => Before(arrivals, u, Watched)
        <5>1. CASE arrived /\ self # 1
          BY <1>3, <1>8, <3>6, <5>1, ArriveFacts
        <5>2. CASE ~(arrived /\ self # 1)
          BY <3>6, <5>2
        <5> QED BY <5>1, <5>2
      <4> HIDE DEF order
      <4>2. \A u : Before(arrivals', u, Watched) => Before(order, u, Watched) /\ u # next
        BY <1>1, <4>1, WithoutFacts
      <4>3. \A u \in Ahead' : Before(arrivals, u, Watched) /\ u # next
        BY <4>1, <4>2 DEF Ahead, AheadIn
      <4> QED BY <4>3, BeforeMembers DEF Ahead, AheadIn
    <3>9. /\ IsFiniteSet(Ahead) /\ Cardinality(Ahead) \in Nat /\ Cardinality(Competitors) \in Nat
          /\ Competitors' = Competitors
      BY <1>1, <1>3, Sizes DEF Competitors
    <3>10. Cardinality(Ahead') \in Nat /\ Cardinality(Ahead') + 1 <= Cardinality(Ahead)
      <4>1. IsFiniteSet(Ahead \ {next}) /\ Cardinality(Ahead \ {next}) = Cardinality(Ahead) - 1
        BY <3>7, <3>9, FS_RemoveElement
      <4>2. IsFiniteSet(Ahead') /\ Cardinality(Ahead') <= Cardinality(Ahead \ {next})
        BY <3>8, <4>1, FS_Subset
      <4>3. Cardinality(Ahead') \in Nat
        BY <4>2, FS_CardinalityType
      <4> QED BY <3>9, <4>1, <4>2, <4>3
    <3> DEFINE a == AgedService * Cardinality(Ahead')
               b == AgedService * Cardinality(Ahead)
               m == AgedService * Cardinality(Competitors)
    <3>11. a \in Nat /\ b \in Nat /\ m \in Nat /\ a + AgedService <= b
      BY <1>5, <3>9, <3>10, OneGrant
    <3>12. Grant = 0 /\ Grant' = AgedService
      <4>1. aging'[0] = AgedService
        BY <1>6, <3>5
      <4> QED BY <1>1, <1>5, <2>1, <4>1 DEF Grant
    <3>13. waited \in Nat /\ waited + 0 + b <= Starvation + m
      BY <1>3, <1>8, <2>3, <3>12 DEF WaitedSoFar
    <3>14. waited' + Grant' + a <= Starvation + m
      <4> HIDE DEF a, b, m
      <4> QED BY ONLY <1>5, <2>1, <3>11, <3>12, <3>13
    <3> QED BY <1>5, <1>6, <2>1, <2>3, <3>9, <3>13, <3>14 DEF WaitedSoFar
  <2>4. age[Watched] \in 0 .. Starvation
    BY <1>3, <1>5
  <2> QED BY <1>5, <1>6, <2>2, <2>3, <2>4
<1> QED BY <1>7, <1>8
\* Slots outside the table stay FREE: a state changes in the table or is not FREE before.
LEMMA NextHoused == SInv /\ Housed /\ [Next]_vars => Housed'
<1> SUFFICES ASSUME SInv, Housed, [Next]_vars PROVE Housed'
  OBVIOUS
<1>0. /\ self \in Threads /\ state[self] # "FREE" /\ state \in [Threads -> States]
      /\ 1 \in Threads /\ DInv /\ 0 \in CPUs /\ 1 \in table.slots
  <2>1. 1 \in table.slots
    BY SchedAssumption DEF SInv, Alone
  <2> QED BY <2>1, AtBsp, Bsp DEF SInv
<1>1. ASSUME table' = table, \A x \in Threads : x \in table.slots \/ state[x] # "FREE" \/ state'[x] = "FREE"
      PROVE  Housed'
  BY <1>1 DEF Housed
<1>2. ASSUME UNCHANGED <<state, table>> PROVE Housed'
  BY <1>2 DEF Housed
<1>3. ASSUME NEW S, NEW k, Release(S, k) PROVE Housed'
  <2>1. table' = table /\ state' = [t \in Threads |-> IF t \in S THEN "FREE" ELSE state[t]]
    BY <1>3 DEF Release
  <2> QED BY <1>1, <2>1
<1>4. ASSUME NEW t \in Threads, NEW st, state[t] # "FREE", table' = table, state' = [state EXCEPT ![t] = st]
      PROVE  Housed'
  <2>1. \A x \in Threads : x # t => state'[x] = state[x]
    BY <1>0, <1>4
  <2> QED BY <1>1, <1>4, <2>1
<1>5. CASE ReapExited \/ ReapProcess \/ \E t \in Threads : Discard(t) \/ Join(t)
  BY <1>3, <1>5 DEF ReapExited, ReapProcess, Discard, Join
<1>6. ASSUME NEW st \in {"READY", "NEW"}, Create(st)
      PROVE  Housed'
  <2> DEFINE dead == Reapable(kind)
             free == {t \in table.slots : state[t] = "FREE"} \cup dead
             t == CHOOSE x \in free : \A y \in free : x <= y
  <2>1. /\ free # {} /\ table' = table
        /\ state' = [x \in Threads |-> IF x = t THEN st ELSE IF x \in dead THEN "FREE" ELSE state[x]]
    BY <1>6 DEF Create
  <2>2. free \in SUBSET Threads /\ \A x \in free : x \in table.slots \/ state[x] # "FREE"
    <3>1. table.slots \subseteq Threads
      BY SchedAssumption DEF SInv, Alone
    <3> QED BY <3>1 DEF Reapable
  <2>3. t \in free
    <3>1. \E x \in free : \A y \in free : x <= y
      <4> HIDE DEF free
      <4> QED BY <2>1, <2>2, Bsp, LeastNat
    <3> QED BY <3>1
  <2> HIDE DEF free, t
  <2>4. \A x \in Threads : x \in table.slots \/ state[x] # "FREE" \/ state'[x] = "FREE"
    BY <2>1, <2>2, <2>3 DEF Housed
  <2> QED BY <1>1, <2>1, <2>4
<1>7. ASSUME NEW t \in Threads, Resume(t) \/ Wake(t)
      PROVE  Housed'
  <2>1. state[t] # "FREE" /\ table' = table /\ state' = [state EXCEPT ![t] = "READY"]
    BY <1>7 DEF Resume, Wake, MakeReady, lifecycle
  <2> QED BY <1>4, <2>1
<1>8. CASE Block \/ Exit
  <2>1. table' = table /\ \E st : state' = [state EXCEPT ![self] = st]
    BY <1>8 DEF Block, Exit, OnlyPc, lifecycle
  <2> QED BY <1>0, <1>4, <2>1
<1>9. CASE Switch
  <2> DEFINE next == ScheduleNext(0)
  <2>1. /\ pc[0] = "schedule" /\ table' = table
        /\ state' = [[state EXCEPT ![self] = IF state[self] = "RUNNING" THEN "READY" ELSE @] EXCEPT ![next] = "RUNNING"]
    BY <1>9 DEF Switch, Schedule, ScheduleNext, self, lifecycle
  <2>2. next \in Threads /\ (next # self => state[next] = "READY")
    BY <1>0, <2>1, ScheduleTakes DEF self
  <2> HIDE DEF next
  <2>3. \A x \in Threads : x # self /\ x # next => state'[x] = state[x]
    BY <1>0, <2>1, <2>2
  <2>4. state[next] # "FREE"
    BY <1>0, <2>2
  <2> QED BY <1>0, <1>1, <2>1, <2>3, <2>4
<1>10. CASE \/ (\E t \in Threads : \/ (\E k \in {"user", "held"} : Publish(t, k)) \/ CreatorRelease(t)
                                   \/ (\E pq \in Policies : SetPolicy(t, pq[1], pq[2])))
            \/ SetIrql \/ Yield \/ ExitSignalled \/ (\E f \in BOOLEAN : TimerTick(f)) \/ TickDecide \/ SwitchComplete
            \/ UNCHANGED vars
  BY <1>2, <1>10 DEF Publish, CreatorRelease, SetPolicy, SetIrql, OnlyKind, OnlyPc, Yield, ExitSignalled, TimerTick,
                     TickDecide, TickPolicy, SwitchComplete, Complete, lifecycle, vars, dvars
<1> QED BY <1>5, <1>6, <1>7, <1>8, <1>9, <1>10 DEF Next

\* An arrival of another thread.
LEMMA ArrivesBehind ==
  ASSUME SInv, NEW t \in Threads, t # Watched, arrivals' = Arrive(t)
  PROVE  Ahead' \subseteq Ahead
<1>1. arrivals \in Seq(Threads) /\ Injective(arrivals)
  <2>1. Shapes /\ Lists
    BY AtBsp
  <2> QED BY <2>1 DEF Shapes, Lists
<1>2. \A u : Before(arrivals', u, Watched) => Before(arrivals, u, Watched)
  BY <1>1, ArriveFacts
<1> QED BY <1>2, BeforeMembers DEF Ahead, AheadIn

LEMMA NextWInv == WInv /\ [Next]_vars => WInv'
<1> SUFFICES ASSUME WInv, [Next]_vars PROVE WInv'
  OBVIOUS
<1>0. /\ OInv' /\ SInv' /\ Housed' /\ OInv /\ SInv /\ Housed /\ aging \in [CPUs -> 0 .. AgedService] /\ WaitedSoFar
      /\ table \in Tables
  <2>1. OInv /\ SInv /\ Housed /\ aging \in [CPUs -> 0 .. AgedService] /\ WaitedSoFar /\ table \in Tables
    BY DEF WInv, OInv, SInv, Alone
  <2> QED BY <2>1, NextOInv, NextHoused DEF OInv
<1>1. /\ self \in Threads /\ state \in [Threads -> States] /\ pc \in [CPUs -> Places] /\ 0 \in CPUs
      /\ age \in [Threads -> 0 .. Starvation] /\ Watched \in Threads /\ Watched \in table.slots
      /\ (pc[0] \in {"run", "tick"} => state[self] = "RUNNING") /\ (pc[0] = "exit" => state[self] = "ZOMBIE")
  <2>1. age \in [Threads -> 0 .. Starvation]
    BY <1>0 DEF OInv, AgesInOrder
  <2> QED BY <1>0, <2>1, AtBsp, WatchedFacts
<1>2. ASSUME WaitedSoFar', aging' \in [CPUs -> 0 .. AgedService]
      PROVE  WInv'
  BY <1>0, <1>2 DEF WInv
<1>3. ASSUME waited' = 0, aging' = aging
      PROVE  WInv'
  BY <1>0, <1>2, <1>3, WaitRestarts
<1>4. ASSUME table' = table, waited' = waited, aging' = aging,
             state'[Watched] = "READY" <=> state[Watched] = "READY",
             state[Watched] = "READY" => age'[Watched] = age[Watched],
             Ahead' \subseteq Ahead,
             pc'[0] = pc[0] \/ pc'[0] \in {"exit", "schedule"} \/ (pc[0] = "switch" /\ pc'[0] = "run")
      PROVE  WInv'
  BY <1>0, <1>2, <1>4, WaitGoesOn
<1>5. arrivals' = arrivals => Ahead' = Ahead
  BY DEF Ahead
<1>6. ASSUME NEW S, NEW k, Release(S, k), \A t \in S : state[t] # "READY"
      PROVE  WInv'
  <2>1. /\ UNCHANGED <<table, waited, aging, age, arrivals, pc>>
        /\ state' = [t \in Threads |-> IF t \in S THEN "FREE" ELSE state[t]]
    BY <1>6 DEF Release, NoSwitch, service, waiting
  <2>2. state'[Watched] = "READY" <=> state[Watched] = "READY"
    BY <1>1, <1>6, <2>1
  <2> QED BY <1>4, <1>5, <2>1, <2>2
<1>7. CASE ReapExited \/ ReapProcess \/ \E t \in Threads : Discard(t) \/ Join(t)
  <2>1. \A k : \A t \in Reapable(k) : state[t] # "READY"
    BY DEF Reapable
  <2>2. \A t \in Threads : state[t] \in {"NEW", "ZOMBIE"} => \A u \in {t} : state[u] # "READY"
    OBVIOUS
  <2> QED BY <1>6, <1>7, <2>1, <2>2 DEF ReapExited, ReapProcess, Discard, Join
<1>8. ASSUME NEW st \in {"READY", "NEW"}, Create(st)
      PROVE  WInv'
  <2> DEFINE dead == Reapable(kind)
             free == {t \in table.slots : state[t] = "FREE"} \cup dead
             t == CHOOSE x \in free : \A y \in free : x <= y
  <2>1. /\ free # {} /\ table' = table /\ aging' = aging /\ pc' = pc
        /\ state' = [x \in Threads |-> IF x = t THEN st ELSE IF x \in dead THEN "FREE" ELSE state[x]]
        /\ st = "READY" => arrivals' = Arrive(t) /\ age' = [age EXCEPT ![t] = 0]
        /\ st # "READY" => UNCHANGED <<arrivals, age>>
        /\ waited' = IF t = Watched THEN 0 ELSE waited
    BY <1>8 DEF Create, NoSwitch, service, waiting
  <2>2. free \in SUBSET Threads /\ \A x \in dead : state[x] = "ZOMBIE"
    <3>1. table.slots \subseteq Threads
      BY <1>0, SchedAssumption
    <3> QED BY <3>1 DEF Reapable
  <2>3. t \in free
    <3>1. \E x \in free : \A y \in free : x <= y
      <4> HIDE DEF free
      <4> QED BY <2>1, <2>2, Bsp, LeastNat
    <3> QED BY <3>1
  <2> HIDE DEF free, t
  <2>4. CASE t = Watched
    BY <1>3, <2>1, <2>4
  <2>5. CASE t # Watched
    <3>1. state'[Watched] = "READY" <=> state[Watched] = "READY"
      BY <1>1, <2>1, <2>2, <2>5
    <3>2. age'[Watched] = age[Watched]
      BY <1>1, <2>1, <2>5
    <3>3. Ahead' \subseteq Ahead
      BY <1>0, <1>5, <2>1, <2>2, <2>3, <2>5, ArrivesBehind
    <3> QED BY <1>4, <2>1, <2>5, <3>1, <3>2, <3>3
  <2> QED BY <2>4, <2>5
<1>9. ASSUME NEW t \in Threads, Resume(t) \/ Wake(t)
      PROVE  WInv'
  <2>1. /\ table' = table /\ aging' = aging /\ pc' = pc
        /\ state' = [state EXCEPT ![t] = "READY"] /\ age' = [age EXCEPT ![t] = 0] /\ arrivals' = Arrive(t)
        /\ waited' = IF t = Watched THEN 0 ELSE waited
    BY <1>9 DEF Resume, Wake, MakeReady, NoSwitch, service, lifecycle
  <2>2. CASE t = Watched
    BY <1>3, <2>1, <2>2
  <2>3. CASE t # Watched
    <3>1. state'[Watched] = state[Watched] /\ age'[Watched] = age[Watched]
      BY <1>1, <2>1, <2>3
    <3>2. Ahead' \subseteq Ahead
      BY <1>0, <2>1, <2>3, ArrivesBehind
    <3> QED BY <1>4, <2>1, <2>3, <3>1, <3>2
  <2> QED BY <2>2, <2>3
<1>10. ASSUME NEW t \in Threads, NEW pq \in Policies, SetPolicy(t, pq[1], pq[2])
       PROVE  WInv'
  BY <1>3, <1>10 DEF SetPolicy
<1>11. CASE \/ (\E t \in Threads : (\E k \in {"user", "held"} : Publish(t, k)) \/ CreatorRelease(t))
            \/ SetIrql \/ UNCHANGED vars
  <2>1. UNCHANGED <<table, waited, aging, state, age, arrivals, pc>>
    BY <1>11 DEF Publish, CreatorRelease, SetIrql, OnlyKind, NoSwitch, service, waiting, vars, dvars, lifecycle
  <2> QED BY <1>4, <1>5, <2>1
<1>12. CASE Yield \/ Block \/ Exit \/ ExitSignalled
  <2>1. /\ UNCHANGED <<table, waited, aging, age, arrivals>> /\ (Going("schedule") \/ Going("exit"))
        /\ state' = state \/ (pc[0] = "run" /\ \E st \in {"BLOCKED", "ZOMBIE"} : state' = [state EXCEPT ![self] = st])
    BY <1>12 DEF Yield, Block, Exit, ExitSignalled, OnlyPc, Running, service, waiting, lifecycle
  <2>2. state'[Watched] = "READY" <=> state[Watched] = "READY"
    BY <1>1, <2>1
  <2>3. pc'[0] \in {"exit", "schedule"}
    BY <1>1, <2>1 DEF Going
  <2> QED BY <1>4, <1>5, <2>1, <2>2, <2>3
<1>13. ASSUME NEW f \in BOOLEAN, TimerTick(f)
       PROVE  WInv'
  <2>1. aging' = aging
    BY <1>13 DEF TimerTick, service
  <2> QED BY <1>0, <1>2, <1>13, <2>1, WaitAges
<1>14. CASE TickDecide
  BY <1>2, <1>14, WaitTicks
<1>15. CASE Switch
  BY <1>0, <1>2, <1>15, WaitShortens
<1>16. CASE SwitchComplete
  <2>1. UNCHANGED <<table, waited, aging, state, age, arrivals>> /\ pc[0] = "switch" /\ pc'[0] = "run"
    BY <1>1, <1>16 DEF SwitchComplete, Complete, service, waiting, lifecycle
  <2> QED BY <1>4, <1>5, <2>1
<1> QED BY <1>7, <1>8, <1>9, <1>10, <1>11, <1>12, <1>13, <1>14, <1>15, <1>16 DEF Next

LEMMA InitWInv == Init => WInv
<1> SUFFICES ASSUME Init PROVE WInv
  OBVIOUS
<1>1. OInv
  BY InitOInv
<1>2. /\ state = [t \in Threads |-> IF t = 0 THEN "RUNNING" ELSE IF t = 1 THEN "READY" ELSE "FREE"]
      /\ aging = [c \in CPUs |-> 0] /\ waited = 0 /\ table \in Tables
  BY DEF Init
<1>3. Watched \in Threads /\ Watched # 1 /\ AgedService \in Nat /\ 0 \in table.slots /\ 1 \in table.slots
  BY <1>2, WatchedFacts, SchedAssumption
<1>4. Housed
  BY <1>2, <1>3 DEF Housed
<1>5. aging \in [CPUs -> 0 .. AgedService]
  BY <1>2, <1>3
<1>6. state[Watched] # "READY"
  BY <1>2, <1>3
<1> QED BY <1>1, <1>2, <1>4, <1>5, <1>6 DEF WInv, WaitedSoFar

\* No thread waits longer than k64.h promises, whatever wakes, yields, preempts and
\* changes the policies of others meanwhile.
THEOREM WaitIsBounded == Spec => []BoundedWait
<1>1. Init => WInv
  BY InitWInv
<1>2. WInv /\ [Next]_vars => WInv'
  BY NextWInv
<1>3. WInv => BoundedWait
  <2> SUFFICES ASSUME WInv PROVE waited <= WaitBound
    BY DEF BoundedWait
  <2> DEFINE n == Cardinality(Competitors)
             a == AgedService * n
             m == n * MaxQuantum
  <2>1. SInv /\ Housed /\ WaitedSoFar /\ table \in Tables /\ age \in [Threads -> 0 .. Starvation]
    BY DEF WInv, OInv, SInv, Alone, AgesInOrder
  <2>2. /\ Watched \in Threads /\ n \in Nat /\ AgedService \in Nat /\ MaxQuantum \in Nat /\ AgedService <= MaxQuantum
        /\ Starvation \in Nat
    BY <2>1, WatchedFacts
  <2>3. Cardinality(Ahead) \in Nat /\ Cardinality(Ahead) + 1 <= n
    BY <2>1, Sizes
  <2>4. a <= m /\ a \in Nat /\ m \in Nat
    <3>1. n * AgedService <= n * MaxQuantum /\ n * AgedService \in Nat /\ n * MaxQuantum \in Nat
      BY <2>2, OneGrant
    <3>2. AgedService * n = n * AgedService
      BY <2>2
    <3> QED BY <3>1, <3>2
  <2>5. 1 <= m
    <3>1. n >= 1 /\ MaxQuantum >= 1
      BY <2>2, <2>3, DispatcherAssumption
    <3>2. n * 1 <= n * MaxQuantum
      BY <2>2, <3>1, OneGrant
    <3> QED BY <2>2, <3>1, <3>2
  <2>6. AgedService * Cardinality(Ahead) \in Nat /\ Grant \in Nat
    <3>1. aging[0] \in Nat
      BY <2>2, Bsp DEF WInv
    <3> QED BY <2>2, <2>3, <3>1, OneGrant DEF Grant
  <2>7. waited <= Starvation + m
    <3>1. waited \in Nat /\ age[Watched] \in 0 .. Starvation
      BY <2>1, <2>2 DEF WaitedSoFar
    <3> DEFINE b == AgedService * Cardinality(Ahead)
    <3>2. CASE state[Watched] # "READY"
      BY <2>1, <2>2, <2>4, <3>2 DEF WaitedSoFar
    <3>3. CASE state[Watched] = "READY" /\ age[Watched] < Starvation
      <4>1. waited <= age[Watched] + 1
        BY <2>1, <2>2, <3>1, <3>3 DEF WaitedSoFar
      <4> HIDE DEF m
      <4> QED BY <2>2, <2>4, <2>5, <3>1, <3>3, <4>1
    <3>4. CASE state[Watched] = "READY" /\ age[Watched] = Starvation
      <4>1. waited + Grant + b <= Starvation + a
        BY <2>1, <3>4 DEF WaitedSoFar
      <4> HIDE DEF a, b, m
      <4>2. b \in Nat
        BY <2>6 DEF b
      <4> QED BY <2>2, <2>4, <2>6, <3>1, <4>1, <4>2
    <3> QED BY <2>2, <3>1, <3>2, <3>3, <3>4
  <2>8. WaitBound = Starvation + m
    <3>1. n - 1 + 1 = n
      BY <2>2
    <3> QED BY <3>1 DEF WaitBound, Competitors
  <2> QED BY <2>7, <2>8
<1> QED BY <1>1, <1>2, <1>3, PTL DEF Spec
=============================================================================
