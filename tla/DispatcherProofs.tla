-------------------------- MODULE DispatcherProofs --------------------------
(***************************************************************************)
(* What the sections every CPU executes preserve, for every number of      *)
(* threads, CPUs and priorities: the lemmas about the ready lists, the     *)
(* dispatcher's inductive invariant, and that schedule(), the completion   *)
(* of a switch and a wake-up keep it and fail no KASSERT.                  *)
(***************************************************************************)
EXTENDS Dispatcher, TLAPS, FiniteSetTheorems, NaturalsInduction, WellFoundedInduction

Injective(s) == \A i, j \in DOMAIN s : s[i] = s[j] => i = j

(* The least element, which stands in for induction. *)

LEMMA LeastNat ==
  ASSUME NEW T, T \subseteq Nat, T # {}
  PROVE  \E n \in T : \A m \in T : n <= m
<1> DEFINE R == {ss \in Nat \X Nat : ss[1] < ss[2]}
<1>1. IsWellFoundedOn(R, Nat)
  BY NatLessThanWellFounded DEF OpToRel
<1>2. PICK x \in T : \A y \in T : ~(<<y, x>> \in R)
  BY <1>1, WFMin
<1>3. \A y \in T : x <= y
  <2> TAKE y \in T
  <2>1. x \in Nat /\ y \in Nat /\ <<y, x>> \notin R
    BY <1>2
  <2>2. ~(y < x)
    BY <2>1
  <2> QED BY <2>1, <2>2
<1> QED BY <1>3

-----------------------------------------------------------------------------
(* The lists. *)

LEMMA ElemsTyped ==
  ASSUME NEW T, NEW s \in Seq(T)
  PROVE  /\ Elems(s) \subseteq T
         /\ \A t : t \in Elems(s) <=> \E i \in 1 .. Len(s) : s[i] = t
  BY DEF Elems

\* Unlinking one thread leaves the others linked in their order.
LEMMA WithoutFacts ==
  ASSUME NEW T, NEW s \in Seq(T), Injective(s), NEW t
  PROVE  /\ Without(s, t) \in Seq(T) /\ Injective(Without(s, t))
         /\ Elems(Without(s, t)) = Elems(s) \ {t}
         /\ \A u, v : Before(Without(s, t), u, v) <=> Before(s, u, v) /\ u # t /\ v # t
<1>1. CASE t \notin Elems(s)
  <2>1. Without(s, t) = s
    BY <1>1 DEF Without
  <2>2. \A u, v : Before(s, u, v) => u # t /\ v # t
    BY <1>1 DEF Before, Elems
  <2> QED BY <1>1, <2>1, <2>2
<1>2. CASE t \in Elems(s)
  <2> DEFINE k == CHOOSE i \in DOMAIN s : s[i] = t
             w == [i \in 1 .. Len(s) - 1 |-> IF i < k THEN s[i] ELSE s[i + 1]]
             n == Len(s)
  <2>1. k \in 1 .. n /\ s[k] = t /\ n \in Nat /\ DOMAIN s = 1 .. n
    BY <1>2 DEF Elems
  <2>2. Without(s, t) = w
    BY <1>2 DEF Without
  <2> HIDE DEF k
  <2>3. w \in Seq(T) /\ Len(w) = n - 1 /\ DOMAIN w = 1 .. n - 1
    <3>1. n - 1 \in Nat
      BY <2>1
    <3>2. \A i \in 1 .. n - 1 : w[i] \in T
      BY <2>1
    <3> QED BY <3>1, <3>2
  <2>4. \A i \in 1 .. n - 1 : w[i] = IF i < k THEN s[i] ELSE s[i + 1]
    OBVIOUS
  <2> HIDE DEF w, n
  <2>5. \A j \in 1 .. n : j # k => \E i \in 1 .. n - 1 : w[i] = s[j] /\ i = IF j < k THEN j ELSE j - 1
    <3> TAKE j \in 1 .. n
    <3>1. CASE j < k
      BY <2>1, <2>4, <3>1
    <3>2. CASE j > k
      <4>1. j - 1 \in 1 .. n - 1 /\ ~(j - 1 < k) /\ (j - 1) + 1 = j
        BY <2>1, <3>2
      <4>2. w[j - 1] = s[j] /\ ~(j < k)
        BY <2>1, <2>4, <3>2, <4>1
      <4> QED BY <4>1, <4>2
    <3> QED BY <2>1, <3>1, <3>2
  <2>6. Injective(w)
    <3> SUFFICES ASSUME NEW i \in 1 .. n - 1, NEW j \in 1 .. n - 1, w[i] = w[j]
                 PROVE  i = j
      BY <2>3 DEF Injective
    <3>1. i \in Nat /\ j \in Nat /\ i \in 1 .. n /\ i + 1 \in 1 .. n /\ j \in 1 .. n /\ j + 1 \in 1 .. n
      BY <2>1
    <3> DEFINE up(m) == IF m < k THEN m ELSE m + 1
    <3>2. s[up(i)] = s[up(j)] /\ up(i) \in 1 .. n /\ up(j) \in 1 .. n
      BY <2>4, <3>1
    <3>3. up(i) = up(j)
      <4> HIDE DEF up
      <4> QED BY <2>1, <3>2 DEF Injective
    <3> QED BY <2>1, <3>1, <3>3
  <2>7. Elems(w) = Elems(s) \ {t}
    <3>1. ASSUME NEW x \in Elems(w)
          PROVE  x \in Elems(s) \ {t}
      <4>1. PICK i \in 1 .. n - 1 : w[i] = x
        BY <2>3 DEF Elems
      <4>2. PICK j \in 1 .. n : j # k /\ x = s[j]
        <5>1. CASE i < k
          BY <2>1, <2>4, <4>1, <5>1
        <5>2. CASE ~(i < k)
          <6>1. i + 1 \in 1 .. n /\ i + 1 # k
            BY <2>1, <5>2
          <6> QED BY <2>4, <4>1, <5>2, <6>1
        <5> QED BY <5>1, <5>2
      <4> QED BY <2>1, <4>2 DEF Elems, Injective
    <3>2. ASSUME NEW x \in Elems(s) \ {t}
          PROVE  x \in Elems(w)
      <4>1. PICK j \in 1 .. n : s[j] = x
        BY <2>1 DEF Elems
      <4> QED BY <2>1, <2>3, <2>5, <4>1 DEF Elems
    <3> QED BY <3>1, <3>2
  <2>8. ASSUME NEW u, NEW v, Before(w, u, v)
        PROVE  Before(s, u, v) /\ u # t /\ v # t
    <3>1. PICK i, j \in 1 .. n - 1 : w[i] = u /\ w[j] = v /\ i < j
      BY <2>3, <2>8 DEF Before
    <3> DEFINE up(m) == IF m < k THEN m ELSE m + 1
    <3>2. up(i) \in 1 .. n /\ up(j) \in 1 .. n /\ up(i) < up(j) /\ up(i) # k /\ up(j) # k
      BY <2>1, <3>1
    <3>3. s[up(i)] = u /\ s[up(j)] = v
      BY <2>4, <3>1
    <3> QED BY <2>1, <3>2, <3>3 DEF Before, Injective
  <2>9. ASSUME NEW u, NEW v, Before(s, u, v), u # t, v # t
        PROVE  Before(w, u, v)
    <3>1. PICK i, j \in 1 .. n : s[i] = u /\ s[j] = v /\ i < j
      BY <2>1, <2>9 DEF Before
    <3>2. i # k /\ j # k
      BY <2>1, <2>9, <3>1
    <3>3. PICK a \in 1 .. n - 1 : w[a] = u /\ a = IF i < k THEN i ELSE i - 1
      BY <2>5, <3>1, <3>2
    <3>4. PICK b \in 1 .. n - 1 : w[b] = v /\ b = IF j < k THEN j ELSE j - 1
      BY <2>5, <3>1, <3>2
    <3>5. a < b
      BY <2>1, <3>1, <3>2, <3>3, <3>4
    <3> QED BY <2>3, <3>3, <3>4, <3>5 DEF Before
  <2> QED BY <2>2, <2>3, <2>6, <2>7, <2>8, <2>9
<1> QED BY <1>1, <1>2

LEMMA AppendFacts ==
  ASSUME NEW T, NEW s \in Seq(T), Injective(s), NEW t \in T, t \notin Elems(s)
  PROVE  /\ Append(s, t) \in Seq(T) /\ Injective(Append(s, t))
         /\ Elems(Append(s, t)) = Elems(s) \cup {t}
         /\ \A u, v : Before(Append(s, t), u, v) <=> Before(s, u, v) \/ (u \in Elems(s) /\ v = t)
<1> DEFINE w == Append(s, t)
           n == Len(s)
<1>1. /\ w \in Seq(T) /\ Len(w) = n + 1 /\ w[n + 1] = t /\ n \in Nat /\ DOMAIN s = 1 .. n /\ DOMAIN w = 1 .. n + 1
      /\ \A i \in 1 .. n : w[i] = s[i]
  OBVIOUS
<1> HIDE DEF w, n
<1>2. \A i \in 1 .. n : s[i] # t
  BY <1>1 DEF Elems
<1>3. Injective(w)
  BY <1>1, <1>2 DEF Injective
<1>4. Elems(w) = Elems(s) \cup {t}
  <2>1. ASSUME NEW x \in Elems(w)
        PROVE  x \in Elems(s) \cup {t}
    <3>1. PICK i \in 1 .. n + 1 : w[i] = x
      BY <1>1 DEF Elems
    <3>2. i \in 1 .. n \/ i = n + 1
      BY <1>1
    <3> QED BY <1>1, <3>1, <3>2 DEF Elems
  <2>2. n + 1 \in 1 .. n + 1 /\ \A i \in 1 .. n : i \in 1 .. n + 1
    BY <1>1
  <2>3. Elems(s) \cup {t} \subseteq Elems(w)
    BY <1>1, <2>2 DEF Elems
  <2> QED BY <2>1, <2>3
<1>5. ASSUME NEW u, NEW v
      PROVE  Before(w, u, v) <=> Before(s, u, v) \/ (u \in Elems(s) /\ v = t)
  <2>1. ASSUME Before(w, u, v)
        PROVE  Before(s, u, v) \/ (u \in Elems(s) /\ v = t)
    <3>1. PICK i, j \in 1 .. n + 1 : w[i] = u /\ w[j] = v /\ i < j
      BY <1>1, <2>1 DEF Before
    <3>2. i \in 1 .. n /\ (j \in 1 .. n \/ j = n + 1)
      BY <1>1, <3>1
    <3> QED BY <1>1, <3>1, <3>2 DEF Before, Elems
  <2>2. ASSUME Before(s, u, v)
        PROVE  Before(w, u, v)
    <3>1. PICK i, j \in 1 .. n : s[i] = u /\ s[j] = v /\ i < j
      BY <1>1, <2>2 DEF Before
    <3>2. i \in 1 .. n + 1 /\ j \in 1 .. n + 1
      BY <1>1, <3>1
    <3> QED BY <1>1, <3>1, <3>2 DEF Before
  <2>3. ASSUME u \in Elems(s), v = t
        PROVE  Before(w, u, v)
    <3>1. PICK i \in 1 .. n : s[i] = u
      BY <1>1, <2>3 DEF Elems
    <3>2. i \in 1 .. n + 1 /\ n + 1 \in 1 .. n + 1 /\ i < n + 1
      BY <1>1
    <3> QED BY <1>1, <2>3, <3>1, <3>2 DEF Before
  <2> QED BY <2>1, <2>2, <2>3
<1> QED BY <1>1, <1>3, <1>4, <1>5 DEF w
-----------------------------------------------------------------------------
(* The invariant. *)

Shapes ==
  /\ state \in [Threads -> States] /\ onCpu \in [Threads -> CPUs \cup {None}]
  /\ prio \in [Threads -> Priorities] /\ mask \in [Threads -> SUBSET CPUs]
  /\ arrivals \in Seq(Threads) /\ ready \in [CPUs -> [Priorities -> Seq(Threads)]]
  /\ current \in [CPUs -> Threads \cup {None}] /\ outgoing \in [CPUs -> Threads \cup {None}]
  /\ online \subseteq CPUs /\ pc \in [CPUs -> Places]

\* A stack is live on a CPU exactly while it is the CPU's current or outgoing one.
Live ==
  /\ \A c \in CPUs : current[c] # None <=> c \in online
  /\ \A c \in CPUs : pc[c] \notin {"off", "finish"} <=> c \in online
  /\ \A c \in CPUs : outgoing[c] # None <=> pc[c] = "switch"
  /\ \A c \in online : onCpu[current[c]] = c
  /\ \A c \in CPUs : outgoing[c] # None => onCpu[outgoing[c]] = c /\ outgoing[c] # current[c]
  /\ \A t \in Threads : onCpu[t] # None => t \in {current[onCpu[t]], outgoing[onCpu[t]]}

\* Whoever runs, waits to run or may be woken has CPUs to run on, all of them there.
Masked ==
  /\ \A t \in Threads : onCpu[t] # None => onCpu[t] \in mask[t]
  /\ \A t \in Threads : onCpu[t] # None \/ state[t] \in {"READY", "RUNNING", "BLOCKED"} =>
       mask[t] # {} /\ mask[t] \subseteq online
  /\ \A c \in online : mask[Idle[c]] = {c}
  /\ \A c \in CPUs : onCpu[Idle[c]] \in {None, c}

\* The states of the threads a CPU has, section by section.
Sections ==
  /\ \A t \in Threads : state[t] = "RUNNING" => \E c \in online : current[c] = t
  /\ \A c \in online : pc[c] \in {"run", "tick", "switch", "leave"} => state[current[c]] = "RUNNING"
  /\ \A c \in online : pc[c] = "exit" => state[current[c]] = "ZOMBIE"
  /\ \A c \in online : state[current[c]] \in {"RUNNING", "READY", "BLOCKED", "ZOMBIE"}
  /\ \A c \in CPUs : outgoing[c] # None => state[outgoing[c]] \in {"READY", "BLOCKED", "ZOMBIE"}
  /\ \A c \in online : state[Idle[c]] = IF current[c] = Idle[c] THEN "RUNNING" ELSE "READY"

\* The lists: NoLostThread, nobody in them is live or an idle thread, and the order of
\* arrivals has exactly the READY threads.
Lists ==
  /\ NoLostThread
  /\ \A c \in CPUs, p \in Priorities : \A t \in Elems(ready[c][p]) : onCpu[t] = None /\ t \notin Idles
  /\ Injective(arrivals) /\ Elems(arrivals) = {t \in Threads \ Idles : state[t] = "READY"}

DInv == Shapes /\ Live /\ Masked /\ Sections /\ Lists /\ NoPanic

\* What is live on one CPU, and nowhere else.
LEMMA LiveOn ==
  ASSUME Shapes, Live, NEW c \in CPUs
  PROVE  /\ pc[c] \notin {"off", "finish"} <=> c \in online
         /\ outgoing[c] # None <=> pc[c] = "switch"
         /\ c \in online => current[c] \in Threads /\ onCpu[current[c]] = c
         /\ c \notin online => current[c] = None
         /\ outgoing[c] # None => outgoing[c] \in Threads /\ onCpu[outgoing[c]] = c /\ outgoing[c] # current[c]
         /\ \A t \in Threads : onCpu[t] = c => t = current[c] \/ t = outgoing[c]
         /\ c # None
<1>1. current[c] \in Threads \cup {None} /\ outgoing[c] \in Threads \cup {None}
  BY DEF Shapes
<1>2. c # None /\ None \notin Threads
  BY DispatcherAssumption
<1>3. current[c] # None <=> c \in online
  BY DEF Live
<1>4. pc[c] \notin {"off", "finish"} <=> c \in online
  BY DEF Live
<1>5. outgoing[c] # None <=> pc[c] = "switch"
  BY DEF Live
<1>6. c \in online => onCpu[current[c]] = c
  BY DEF Live
<1>7. outgoing[c] # None => onCpu[outgoing[c]] = c /\ outgoing[c] # current[c]
  BY DEF Live
<1>8. \A t \in Threads : onCpu[t] = c => t = current[c] \/ t = outgoing[c]
  BY <1>2 DEF Live
<1> QED BY ONLY <1>1, <1>2, <1>3, <1>4, <1>5, <1>6, <1>7, <1>8

LEMMA QueuedMeans ==
  \A t : Queued(t) <=> \E c \in CPUs, p \in Priorities : t \in Elems(ready[c][p])
  BY DEF Queued, QueuedOn

\* What the lists say about a thread that is in one.
LEMMA Linked ==
  ASSUME Shapes, Lists, NEW c \in CPUs, NEW p \in Priorities
  PROVE  /\ ready[c][p] \in Seq(Threads) /\ Injective(ready[c][p])
         /\ \A t \in Elems(ready[c][p]) :
              /\ t \in Threads \ Idles /\ state[t] = "READY" /\ prio[t] = p /\ onCpu[t] = None
              /\ c \in online /\ c \in mask[t] /\ mask[t] \subseteq online
<1>1. ready[c][p] \in Seq(Threads)
  BY DEF Shapes
<1>2. Elems(ready[c][p]) \subseteq Threads
  BY <1>1, ElemsTyped
<1> QED BY <1>1, <1>2 DEF Lists, NoLostThread, Injective

-----------------------------------------------------------------------------
(* The choices the dispatcher makes exist. *)

LEMMA LoadIsNat ==
  ASSUME Shapes, NEW c \in CPUs
  PROVE  Load(c) \in Nat
<1>1. \A p \in Priorities : Elems(ready[c][p]) \subseteq Threads
  BY ElemsTyped DEF Shapes
<1>2. QueuedOn(c) \subseteq Threads
  BY <1>1 DEF QueuedOn
<1>3. IsFiniteSet(QueuedOn(c))
  BY <1>2, FS_Subset, DispatcherAssumption
<1> QED BY <1>3, FS_CardinalityType DEF Load

LEMMA ChooseIn ==
  ASSUME Shapes, NEW m \in SUBSET CPUs, m # {}
  PROVE  Choose(m) \in m
<1> DEFINE L == {Load(c) : c \in m}
<1>1. L \subseteq Nat /\ L # {}
  BY LoadIsNat
<1>2. PICK l \in L : \A k \in L : l <= k
  <2> HIDE DEF L
  <2> QED BY <1>1, LeastNat
<1> DEFINE C == {c \in m : Load(c) = l}
<1>3. C \subseteq Nat /\ C # {}
  BY DispatcherAssumption
<1>4. PICK c \in C : \A d \in C : c <= d
  <2> HIDE DEF C
  <2> QED BY <1>3, LeastNat
<1>5. \A d \in m : Load(c) < Load(d) \/ (Load(c) = Load(d) /\ c <= d)
  <2> TAKE d \in m
  <2>1. Load(d) \in Nat /\ Load(c) = l /\ l \in Nat /\ l <= Load(d)
    BY <1>1, <1>2
  <2>2. CASE Load(d) = l
    BY <1>4, <2>1, <2>2
  <2>3. CASE Load(d) # l
    BY <2>1, <2>3
  <2> QED BY <2>2, <2>3
<1>6. \E x \in m : \A d \in m : Load(x) < Load(d) \/ (Load(x) = Load(d) /\ x <= d)
  BY <1>5
<1> QED BY <1>6 DEF Choose

LEMMA OldestIn ==
  ASSUME arrivals \in Seq(Threads), Injective(arrivals), NEW S \in SUBSET Elems(arrivals), S # {}
  PROVE  Oldest(S) \in S /\ \A u \in S \ {Oldest(S)} : Before(arrivals, Oldest(S), u)
<1> DEFINE I == {i \in 1 .. Len(arrivals) : arrivals[i] \in S}
<1>1. I \subseteq Nat /\ I # {}
  BY ElemsTyped
<1>2. PICK i \in I : \A j \in I : i <= j
  <2> HIDE DEF I
  <2> QED BY <1>1, LeastNat
<1>3. ASSUME NEW u \in S \ {arrivals[i]}
      PROVE  Before(arrivals, arrivals[i], u)
  <2>1. PICK j \in 1 .. Len(arrivals) : arrivals[j] = u
    BY ElemsTyped
  <2>2. i < j
    BY <1>2, <2>1
  <2> QED BY <2>1, <2>2 DEF Before
<1>4. \E t \in S : \A u \in S \ {t} : Before(arrivals, t, u)
  BY <1>3
<1> QED BY <1>4 DEF Oldest

LEMMA HeadsLinked ==
  ASSUME Shapes, Lists, NEW c \in CPUs, NEW t \in Heads(c)
  PROVE  \E p \in Priorities : t = ready[c][p][1] /\ t \in Elems(ready[c][p]) /\ prio[t] = p
<1>1. PICK p \in Priorities : ready[c][p] # <<>> /\ t = ready[c][p][1]
  BY DEF Heads
<1>2. ready[c][p] \in Seq(Threads)
  BY DEF Shapes
<1>3. 1 \in 1 .. Len(ready[c][p])
  BY <1>1, <1>2
<1>4. t \in Elems(ready[c][p])
  BY <1>1, <1>2, <1>3, ElemsTyped
<1> QED BY <1>1, <1>4, Linked

\* k64_rq_pick_locked finds a head whenever there is one.
LEMMA PickIn ==
  ASSUME Shapes, Lists, NEW c \in CPUs
  PROVE  /\ Heads(c) = {} => Pick(c) = None
         /\ Heads(c) # {} => Pick(c) \in Heads(c) /\ Pick(c) # None
         /\ AgedHeads(c) # {} => /\ Pick(c) \in AgedHeads(c)
                                 /\ \A u \in AgedHeads(c) \ {Pick(c)} : Before(arrivals, Pick(c), u)
         /\ AgedHeads(c) = {} /\ Heads(c) # {} => \A u \in Heads(c) : prio[u] <= prio[Pick(c)]
<1>1. Heads(c) \subseteq Elems(arrivals) /\ Heads(c) \subseteq Threads
  BY HeadsLinked, Linked DEF Lists
<1>2. None \notin Threads
  BY DispatcherAssumption
<1>3. CASE AgedHeads(c) # {}
  <2>1. AgedHeads(c) \subseteq Heads(c)
    BY DEF AgedHeads
  <2>2. Pick(c) = Oldest(AgedHeads(c))
    BY <1>3 DEF Pick
  <2>3. arrivals \in Seq(Threads) /\ Injective(arrivals) /\ AgedHeads(c) \in SUBSET Elems(arrivals)
    BY <1>1, <2>1 DEF Shapes, Lists
  <2>4. Oldest(AgedHeads(c)) \in AgedHeads(c)
        /\ \A u \in AgedHeads(c) \ {Oldest(AgedHeads(c))} : Before(arrivals, Oldest(AgedHeads(c)), u)
    BY <1>3, <2>3, OldestIn
  <2> QED BY <1>1, <1>2, <1>3, <2>1, <2>2, <2>4
<1>4. CASE AgedHeads(c) = {} /\ Heads(c) # {}
  <2> DEFINE P == {Levels - prio[t] : t \in Heads(c)}
  <2>0. \A t \in Threads : prio[t] \in Nat /\ prio[t] < Levels /\ Levels \in Nat
    BY DispatcherAssumption DEF Shapes, Priorities
  <2>1. P \subseteq Nat /\ P # {}
    BY <1>1, <1>4, <2>0
  <2>2. PICK q \in P : \A r \in P : q <= r
    <3> HIDE DEF P
    <3> QED BY <2>1, LeastNat
  <2>3. PICK t \in Heads(c) : q = Levels - prio[t]
    OBVIOUS
  <2>4. \A u \in Heads(c) : prio[u] <= prio[t]
    <3> TAKE u \in Heads(c)
    <3>1. q <= Levels - prio[u]
      BY <2>2
    <3> QED BY <1>1, <2>0, <2>3, <3>1
  <2>5. Pick(c) = CHOOSE x \in Heads(c) : \A u \in Heads(c) : prio[u] <= prio[x]
    BY <1>4 DEF Pick
  <2>6. Pick(c) \in Heads(c) /\ \A u \in Heads(c) : prio[u] <= prio[Pick(c)]
    BY <2>4, <2>5
  <2> QED BY <1>1, <1>2, <1>4, <2>6
<1>5. CASE Heads(c) = {}
  <2>1. AgedHeads(c) = {}
    BY <1>5 DEF AgedHeads
  <2> QED BY <1>5, <2>1 DEF Pick
<1> QED BY <1>3, <1>4, <1>5
-----------------------------------------------------------------------------
(* What an enqueue and an arrival do to the lists. *)

Linking(q, t, c, p) == [q EXCEPT ![c][p] = Append(@, t)]
Unlinked(q, t) == \A d \in CPUs, p \in Priorities : Injective(q[d][p]) /\ t \notin Elems(q[d][p])

\* k is q with t at the tail of the list of c and r.
Extends(k, q, t, c, r) ==
  /\ k \in [CPUs -> [Priorities -> Seq(Threads)]]
  /\ \A d \in CPUs, p \in Priorities :
       /\ Injective(k[d][p])
       /\ \A u : u \in Elems(k[d][p]) <=> u \in Elems(q[d][p]) \/ (u = t /\ d = c /\ p = r)
       /\ \A u, v : Before(k[d][p], u, v) => Before(q[d][p], u, v) \/ (u \in Elems(q[d][p]) /\ v = t)

LEMMA LinkFacts ==
  ASSUME NEW q \in [CPUs -> [Priorities -> Seq(Threads)]], NEW t \in Threads, NEW c \in CPUs, NEW r \in Priorities,
         Unlinked(q, t)
  PROVE  Extends(Linking(q, t, c, r), q, t, c, r)
<1> DEFINE k == Linking(q, t, c, r)
<1>1. \A d \in CPUs, p \in Priorities : q[d][p] \in Seq(Threads) /\ Injective(q[d][p]) /\ t \notin Elems(q[d][p])
  BY DEF Unlinked
<1>2. /\ Append(q[c][r], t) \in Seq(Threads) /\ Injective(Append(q[c][r], t))
      /\ Elems(Append(q[c][r], t)) = Elems(q[c][r]) \cup {t}
      /\ \A u, v : Before(Append(q[c][r], t), u, v) <=> Before(q[c][r], u, v) \/ (u \in Elems(q[c][r]) /\ v = t)
  BY <1>1, AppendFacts
<1>3. \A d \in CPUs, p \in Priorities : k[d][p] = IF d = c /\ p = r THEN Append(q[d][p], t) ELSE q[d][p]
  BY DEF Linking
<1>4. k \in [CPUs -> [Priorities -> Seq(Threads)]]
  BY <1>2 DEF Linking
<1> HIDE DEF k
<1>5. ASSUME NEW d \in CPUs, NEW p \in Priorities
      PROVE  /\ Injective(k[d][p])
             /\ \A u : u \in Elems(k[d][p]) <=> u \in Elems(q[d][p]) \/ (u = t /\ d = c /\ p = r)
             /\ \A u, v : Before(k[d][p], u, v) => Before(q[d][p], u, v) \/ (u \in Elems(q[d][p]) /\ v = t)
  <2>1. CASE d = c /\ p = r
    BY <1>2, <1>3, <2>1
  <2>2. CASE ~(d = c /\ p = r)
    BY <1>1, <1>3, <2>2
  <2> QED BY <2>1, <2>2
<1>6. Extends(k, q, t, c, r)
  BY ONLY <1>4, <1>5 DEF Extends
<1> QED BY <1>6 DEF k

LEMMA EnqueueFacts ==
  ASSUME Shapes, Lists, NEW t \in Threads, NEW c \in CPUs, ~Queued(t)
  PROVE  Extends(Enqueue(ready, t, c), ready, t, c, prio[t])
<1>1. prio[t] \in Priorities /\ ready \in [CPUs -> [Priorities -> Seq(Threads)]]
  BY DEF Shapes
<1>2. Unlinked(ready, t)
  BY Linked, QueuedMeans DEF Unlinked
<1>3. Enqueue(ready, t, c) = Linking(ready, t, c, prio[t])
  BY DEF Enqueue, Linking
<1>4. Extends(Linking(ready, t, c, prio[t]), ready, t, c, prio[t])
  BY <1>1, <1>2, LinkFacts
<1> QED BY <1>3, <1>4

LEMMA RemoveFacts ==
  ASSUME Shapes, Lists, NEW t
  PROVE  /\ Remove(ready, t) \in [CPUs -> [Priorities -> Seq(Threads)]]
         /\ \A d \in CPUs, p \in Priorities :
              /\ Injective(Remove(ready, t)[d][p]) /\ Elems(Remove(ready, t)[d][p]) = Elems(ready[d][p]) \ {t}
              /\ \A u, v : Before(Remove(ready, t)[d][p], u, v) => Before(ready[d][p], u, v)
<1>1. \A d \in CPUs, p \in Priorities : Remove(ready, t)[d][p] = Without(ready[d][p], t)
  BY DEF Remove
<1>2. Remove(ready, t) = [d \in CPUs |-> [p \in Priorities |-> Without(ready[d][p], t)]]
  BY DEF Remove
<1>3. \A d \in CPUs, p \in Priorities :
        /\ Without(ready[d][p], t) \in Seq(Threads) /\ Injective(Without(ready[d][p], t))
        /\ Elems(Without(ready[d][p], t)) = Elems(ready[d][p]) \ {t}
        /\ \A u, v : Before(Without(ready[d][p], t), u, v) => Before(ready[d][p], u, v)
  BY Linked, WithoutFacts
<1>4. Remove(ready, t) \in [CPUs -> [Priorities -> Seq(Threads)]]
  BY ONLY <1>2, <1>3
<1>5. \A d \in CPUs, p \in Priorities :
        /\ Injective(Remove(ready, t)[d][p]) /\ Elems(Remove(ready, t)[d][p]) = Elems(ready[d][p]) \ {t}
        /\ \A u, v : Before(Remove(ready, t)[d][p], u, v) => Before(ready[d][p], u, v)
  BY ONLY <1>1, <1>3
<1> QED BY ONLY <1>4, <1>5

LEMMA ArriveFacts ==
  ASSUME arrivals \in Seq(Threads), Injective(arrivals), NEW t \in Threads
  PROVE  /\ Arrive(t) \in Seq(Threads) /\ Injective(Arrive(t)) /\ Elems(Arrive(t)) = Elems(arrivals) \cup {t}
         /\ \A u, v : Before(Arrive(t), u, v) <=>
              u # t /\ (IF v = t THEN u \in Elems(arrivals) ELSE Before(arrivals, u, v))
<1> DEFINE w == Without(arrivals, t)
<1>1. /\ w \in Seq(Threads) /\ Injective(w) /\ Elems(w) = Elems(arrivals) \ {t}
      /\ \A u, v : Before(w, u, v) <=> Before(arrivals, u, v) /\ u # t /\ v # t
  BY WithoutFacts
<1> HIDE DEF w
<1>2. /\ Append(w, t) \in Seq(Threads) /\ Injective(Append(w, t)) /\ Elems(Append(w, t)) = Elems(w) \cup {t}
      /\ \A u, v : Before(Append(w, t), u, v) <=> Before(w, u, v) \/ (u \in Elems(w) /\ v = t)
  BY <1>1, AppendFacts
<1>3. Arrive(t) = Append(w, t)
  BY DEF Arrive, w
<1> QED BY <1>1, <1>2, <1>3

-----------------------------------------------------------------------------
(* schedule() *)

\* The thread Schedule(c) takes, and what the KASSERT of the dispatch demands of it.
ScheduleNext(c) ==
  LET prev == current[c]
      arrived == state[prev] = "RUNNING"
      cand == Pick(c)
      keeps == /\ arrived \/ state[prev] = "READY"
               /\ prev # Idle[c]
               /\ OutgoingKeeps(prev, arrived, cand)
  IN  IF keeps THEN prev ELSE IF cand = None THEN Idle[c] ELSE cand

LEMMA ScheduleTakes ==
  ASSUME DInv, NEW c \in CPUs, pc[c] = "schedule"
  PROVE  /\ c \in online /\ outgoing[c] = None
         /\ current[c] \in Threads /\ onCpu[current[c]] = c /\ ~Queued(current[c])
         /\ state[current[c]] \in {"RUNNING", "READY", "BLOCKED", "ZOMBIE"}
         /\ ScheduleNext(c) \in Threads
         /\ mask[ScheduleNext(c)] \subseteq online /\ c \in mask[ScheduleNext(c)]
         /\ ScheduleNext(c) = current[c] => state[current[c]] \in {"RUNNING", "READY"}
         /\ ScheduleNext(c) # current[c] => onCpu[ScheduleNext(c)] = None /\ state[ScheduleNext(c)] = "READY"
         /\ \/ ScheduleNext(c) \in {current[c], Idle[c]} /\ ~Queued(ScheduleNext(c))
            \/ ScheduleNext(c) \in QueuedOn(c) /\ ScheduleNext(c) \in Elems(ready[c][prio[ScheduleNext(c)]])
               /\ ScheduleNext(c) \notin Idles
<1> DEFINE prev == current[c]
           next == ScheduleNext(c)
<1>1. c \in online /\ outgoing[c] = None /\ prev \in Threads
  BY LiveOn DEF DInv
<1>2. onCpu[prev] = c /\ c # None
  BY <1>1, LiveOn DEF DInv
<1>3. ~Queued(prev)
  BY <1>1, <1>2, QueuedMeans, Linked DEF DInv
<1>4. state[prev] \in {"RUNNING", "READY", "BLOCKED", "ZOMBIE"} /\ mask[prev] \subseteq online /\ c \in mask[prev]
  BY <1>1, <1>2 DEF DInv, Sections, Masked
<1>5. CASE next = prev /\ prev # Idle[c]
  <2>1. Pick(c) # prev
    BY <1>3, PickIn, HeadsLinked, QueuedMeans, <1>1, DispatcherAssumption DEF DInv
  <2>2. state[prev] \in {"RUNNING", "READY"}
    BY <1>5, <2>1 DEF ScheduleNext
  <2> QED BY <1>1, <1>2, <1>3, <1>4, <1>5, <2>2
<1>6. CASE next = Idle[c]
  <2>1. Idle[c] \in Threads /\ Idle[c] \in Idles /\ mask[Idle[c]] = {c}
    BY <1>1, DispatcherAssumption DEF Idles, DInv, Masked
  <2>2. ~Queued(Idle[c])
    BY <2>1, QueuedMeans, Linked DEF DInv
  <2>3. CASE prev = Idle[c]
    <3>1. state[prev] = "RUNNING"
      BY <1>1, <2>3 DEF DInv, Sections
    <3> QED BY <1>1, <1>2, <1>3, <1>4, <1>6, <2>1, <2>2, <2>3, <3>1
  <2>4. CASE prev # Idle[c]
    <3>1. state[Idle[c]] = "READY"
      BY <1>1, <2>4 DEF DInv, Sections
    <3>2. onCpu[Idle[c]] = None
      <4> SUFFICES ASSUME onCpu[Idle[c]] # None
                   PROVE  FALSE
        OBVIOUS
      <4>1. onCpu[Idle[c]] = c
        BY <2>1 DEF DInv, Masked
      <4>2. None \notin Threads
        BY DispatcherAssumption
      <4> QED BY <1>1, <1>2, <2>1, <2>4, <4>1, <4>2, LiveOn DEF DInv
    <3> QED BY <1>1, <1>2, <1>3, <1>4, <1>6, <2>1, <2>2, <2>4, <3>1, <3>2
  <2> QED BY <2>3, <2>4
<1>7. CASE next \notin {prev, Idle[c]}
  <2>1. next = Pick(c) /\ Pick(c) # None
    BY <1>7 DEF ScheduleNext
  <2>2. next \in Heads(c)
    BY <2>1, PickIn DEF DInv
  <2>3. PICK p \in Priorities : next \in Elems(ready[c][p]) /\ prio[next] = p
    BY <2>2, HeadsLinked DEF DInv
  <2>4. next \in QueuedOn(c)
    BY <2>3 DEF QueuedOn
  <2> QED BY <1>1, <1>2, <1>3, <1>4, <1>7, <2>3, <2>4, Linked DEF DInv
<1> QED BY <1>5, <1>6, <1>7

\* schedule() keeps the invariant and passes its own checks.
LEMMA ScheduleKeeps ==
  ASSUME DInv, NEW c \in CPUs, Schedule(c)
  PROVE  DInv'
<1> DEFINE prev == current[c]
           next == ScheduleNext(c)
           arrived == state[prev] = "RUNNING"
           order == IF arrived /\ prev # Idle[c] THEN Arrive(prev) ELSE arrivals
<1>0. /\ pc[c] = "schedule" /\ UNCHANGED <<threadPolicy, online>>
      /\ state' = [[state EXCEPT ![prev] = IF arrived THEN "READY" ELSE @] EXCEPT ![next] = "RUNNING"]
      /\ arrivals' = Without(order, next) /\ ready' = Remove(ready, next)
      /\ onCpu' = [onCpu EXCEPT ![next] = c] /\ current' = [current EXCEPT ![c] = next]
      /\ outgoing' = [outgoing EXCEPT ![c] = IF next = prev THEN None ELSE prev]
      /\ pc' = [pc EXCEPT ![c] = IF next = prev THEN "run" ELSE "switch"]
      /\ panic' = (panic \/ ~(/\ c \in online /\ onCpu[prev] = c /\ outgoing[c] = None
                              /\ ~Queued(prev)
                              /\ [state EXCEPT ![prev] = IF arrived THEN "READY" ELSE @][next] = "READY"
                              /\ mask[next] \subseteq online /\ c \in mask[next]
                              /\ next # prev => onCpu[next] = None
                              /\ IF next \in QueuedOn(c) THEN next \in Elems(ready[c][prio[next]])
                                 ELSE ~Queued(next) /\ next \in {prev, Idle[c]}))
  BY DEF Schedule, ScheduleNext
<1>1. /\ c \in online /\ outgoing[c] = None /\ prev \in Threads /\ onCpu[prev] = c /\ ~Queued(prev)
      /\ state[prev] \in {"RUNNING", "READY", "BLOCKED", "ZOMBIE"} /\ next \in Threads
      /\ mask[next] \subseteq online /\ c \in mask[next]
      /\ next = prev => state[prev] \in {"RUNNING", "READY"}
      /\ next # prev => onCpu[next] = None /\ state[next] = "READY"
      /\ \/ next \in {prev, Idle[c]} /\ ~Queued(next)
         \/ next \in QueuedOn(c) /\ next \in Elems(ready[c][prio[next]]) /\ next \notin Idles
  BY <1>0, ScheduleTakes
<1> HIDE DEF next
<1>2. /\ Shapes /\ Live /\ Masked /\ Sections /\ Lists /\ ~panic
      /\ prio' = prio /\ mask' = mask /\ online' = online /\ c # None /\ None \notin Threads
  BY <1>0, DispatcherAssumption DEF DInv, NoPanic, threadPolicy
<1>3. /\ state'[next] = "RUNNING"
      /\ next # prev => state'[prev] = IF arrived THEN "READY" ELSE state[prev]
      /\ \A t \in Threads \ {prev, next} : state'[t] = state[t]
      /\ state' \in [Threads -> States]
  BY <1>0, <1>1, <1>2 DEF Shapes, States
<1>4. /\ onCpu'[next] = c /\ (\A t \in Threads \ {next} : onCpu'[t] = onCpu[t])
      /\ current'[c] = next /\ (\A d \in CPUs \ {c} : current'[d] = current[d])
      /\ outgoing'[c] = (IF next = prev THEN None ELSE prev) /\ (\A d \in CPUs \ {c} : outgoing'[d] = outgoing[d])
      /\ pc'[c] = (IF next = prev THEN "run" ELSE "switch") /\ (\A d \in CPUs \ {c} : pc'[d] = pc[d])
      /\ onCpu' \in [Threads -> CPUs \cup {None}] /\ current' \in [CPUs -> Threads \cup {None}]
      /\ outgoing' \in [CPUs -> Threads \cup {None}] /\ pc' \in [CPUs -> Places]
  BY <1>0, <1>1, <1>2 DEF Shapes, Places
<1>5. ~panic'
  <2> DEFINE left == [state EXCEPT ![prev] = IF arrived THEN "READY" ELSE @]
  <2>1. left[next] = "READY"
    BY <1>1, <1>2 DEF Shapes
  <2>2. panic' = (panic \/ ~(/\ c \in online /\ onCpu[prev] = c /\ outgoing[c] = None
                             /\ ~Queued(prev) /\ left[next] = "READY"
                             /\ mask[next] \subseteq online /\ c \in mask[next]
                             /\ next # prev => onCpu[next] = None
                             /\ IF next \in QueuedOn(c) THEN next \in Elems(ready[c][prio[next]])
                                ELSE ~Queued(next) /\ next \in {prev, Idle[c]}))
    BY <1>0
  <2>3. next \notin QueuedOn(c) => ~Queued(next) /\ next \in {prev, Idle[c]}
    BY <1>1
  <2>4. next \in QueuedOn(c) => next \in Elems(ready[c][prio[next]])
    BY <1>1 DEF Queued
  <2> HIDE DEF left, prev
  <2> QED BY ONLY <1>1, <1>2, <2>1, <2>2, <2>3, <2>4
<1>6. /\ ready' \in [CPUs -> [Priorities -> Seq(Threads)]]
      /\ \A d \in CPUs, p \in Priorities :
           Injective(ready'[d][p]) /\ Elems(ready'[d][p]) = Elems(ready[d][p]) \ {next}
  BY <1>0, <1>2, RemoveFacts
<1>7. /\ arrivals' \in Seq(Threads) /\ Injective(arrivals')
      /\ Elems(arrivals') = (Elems(arrivals) \cup (IF arrived /\ prev # Idle[c] THEN {prev} ELSE {})) \ {next}
  <2>1. arrivals \in Seq(Threads) /\ Injective(arrivals)
    BY <1>2 DEF Shapes, Lists
  <2>2. /\ order \in Seq(Threads) /\ Injective(order)
        /\ Elems(order) = Elems(arrivals) \cup (IF arrived /\ prev # Idle[c] THEN {prev} ELSE {})
    <3> DEFINE w == Without(arrivals, prev)
    <3>1. w \in Seq(Threads) /\ Injective(w) /\ Elems(w) = Elems(arrivals) \ {prev}
      BY <2>1, WithoutFacts
    <3> HIDE DEF w
    <3>2. Append(w, prev) \in Seq(Threads) /\ Injective(Append(w, prev)) /\ Elems(Append(w, prev)) = Elems(w) \cup {prev}
      BY <1>1, <3>1, AppendFacts
    <3> QED BY <2>1, <3>1, <3>2 DEF Arrive, w
  <2> HIDE DEF order
  <2> QED BY <1>0, <2>2, WithoutFacts
<1> HIDE DEF prev
<1>a. prev = current[c] /\ (arrived <=> state[prev] = "RUNNING")
  BY DEF prev
<1>b. (next \in Idles => next = Idle[c]) /\ (prev \in Idles => prev = Idle[c])
  <2>1. \A t \in Idles : onCpu[t] = c => t = Idle[c]
    BY <1>2 DEF Idles, Masked
  <2> QED BY <1>1, <2>1
<1>8. Shapes'
  BY <1>2, <1>3, <1>4, <1>6, <1>7 DEF Shapes
<1>9. Live'
  <2>1. ASSUME NEW d \in CPUs
        PROVE  /\ current'[d] # None <=> d \in online
               /\ pc'[d] \notin {"off", "finish"} <=> d \in online
               /\ outgoing'[d] # None <=> pc'[d] = "switch"
               /\ d \in online => onCpu'[current'[d]] = d
               /\ outgoing'[d] # None => onCpu'[outgoing'[d]] = d /\ outgoing'[d] # current'[d]
    <3>1. CASE d = c
      BY <1>1, <1>2, <1>4, <1>a, <3>1
    <3>2. CASE d # c
      <4>1. d \in online => current[d] # next
        BY <1>1, <1>2, <3>2, LiveOn
      <4>2. outgoing[d] # None => outgoing[d] # next
        BY <1>1, <1>2, <3>2, LiveOn
      <4>3. /\ current'[d] = current[d] /\ pc'[d] = pc[d] /\ outgoing'[d] = outgoing[d]
            /\ d \in online => current[d] \in Threads
            /\ outgoing[d] # None => outgoing[d] \in Threads
        BY <1>2, <1>4, <3>2 DEF Shapes, Live
      <4>4. /\ d \in online => onCpu'[current[d]] = onCpu[current[d]]
            /\ outgoing[d] # None => onCpu'[outgoing[d]] = onCpu[outgoing[d]]
        BY <1>4, <4>1, <4>2, <4>3
      <4> QED BY <1>2, <4>3, <4>4 DEF Live
    <3> QED BY <3>1, <3>2
  <2>2. ASSUME NEW t \in Threads, onCpu'[t] # None
        PROVE  t \in {current'[onCpu'[t]], outgoing'[onCpu'[t]]}
    <3>1. CASE t = next
      BY <1>4, <3>1
    <3>2. CASE t # next
      <4>1. onCpu'[t] = onCpu[t] /\ onCpu[t] \in CPUs /\ t \in {current[onCpu[t]], outgoing[onCpu[t]]}
        BY <1>2, <1>4, <2>2, <3>2 DEF Live, Shapes
      <4>2. CASE onCpu[t] = c
        BY <1>1, <1>2, <1>4, <1>a, <3>2, <4>1, <4>2
      <4>3. CASE onCpu[t] # c
        BY <1>4, <4>1, <4>3
      <4> QED BY <4>2, <4>3
    <3> QED BY <3>1, <3>2
  <2>3. (\A d \in CPUs : pc[d] \notin {"off", "finish"} <=> d \in online)'
    BY <1>2, <2>1
  <2>4. (\A d \in CPUs : current[d] # None <=> d \in online)' /\ (\A d \in CPUs : outgoing[d] # None <=> pc[d] = "switch")'
    BY <1>2, <2>1
  <2>5. (\A d \in online : onCpu[current[d]] = d)'
    BY <1>2, <2>1 DEF Shapes
  <2>6. (\A d \in CPUs : outgoing[d] # None => onCpu[outgoing[d]] = d /\ outgoing[d] # current[d])'
    BY <2>1
  <2>7. (\A t \in Threads : onCpu[t] # None => t \in {current[onCpu[t]], outgoing[onCpu[t]]})'
    BY <2>2
  <2> QED BY ONLY <2>3, <2>4, <2>5, <2>6, <2>7 DEF Live
<1>10. Masked'
  <2>1. ASSUME NEW t \in Threads
        PROVE  /\ onCpu'[t] # None => onCpu'[t] \in mask[t]
               /\ onCpu'[t] # None \/ state'[t] \in {"READY", "RUNNING", "BLOCKED"} =>
                    mask[t] # {} /\ mask[t] \subseteq online
    <3>1. CASE t = next
      BY <1>1, <1>4, <3>1
    <3>2. CASE t = prev /\ t # next
      BY <1>1, <1>2, <1>4, <3>2 DEF Masked
    <3>3. CASE t \notin {prev, next}
      BY <1>2, <1>3, <1>4, <3>3 DEF Masked
    <3> QED BY <3>1, <3>2, <3>3
  <2>2. \A d \in CPUs : onCpu'[Idle[d]] \in {None, d}
    <3> TAKE d \in CPUs
    <3>1. Idle[d] \in Threads /\ Idle[d] \in Idles
      BY DispatcherAssumption DEF Idles
    <3>2. CASE Idle[d] = next
      <4>1. d = c
        BY <1>b, <3>1, <3>2, DispatcherAssumption
      <4> QED BY <1>4, <3>2, <4>1
    <3>3. CASE Idle[d] # next
      BY <1>2, <1>4, <3>1, <3>3 DEF Masked
    <3> QED BY <3>2, <3>3
  <2> QED BY <1>2, <2>1, <2>2 DEF Masked
<1>11. Sections'
  <2>1. ASSUME NEW t \in Threads, state'[t] = "RUNNING"
        PROVE  \E d \in online : current'[d] = t
    <3>1. CASE t = next
      BY <1>1, <1>4, <3>1
    <3>2. CASE t # next
      <4>1. t # prev
        BY <1>1, <1>3, <2>1, <3>2
      <4>2. PICK d \in online : current[d] = t
        BY <1>2, <1>3, <2>1, <3>2, <4>1 DEF Sections
      <4>3. d # c /\ d \in CPUs
        BY <1>2, <1>a, <4>1, <4>2 DEF Shapes
      <4> QED BY <1>4, <4>2, <4>3
    <3> QED BY <3>1, <3>2
  <2>2. ASSUME NEW d \in CPUs, d # c
        PROVE  /\ current'[d] = current[d] /\ pc'[d] = pc[d] /\ outgoing'[d] = outgoing[d]
               /\ d \in online => state'[current[d]] = state[current[d]]
               /\ outgoing[d] # None => state'[outgoing[d]] = state[outgoing[d]]
    <3>1. d \in online => current[d] \notin {prev, next} /\ current[d] \in Threads
      BY <1>1, <1>2, <2>2, LiveOn
    <3>2. outgoing[d] # None => outgoing[d] \notin {prev, next} /\ outgoing[d] \in Threads
      BY <1>1, <1>2, <2>2, LiveOn
    <3> QED BY <1>3, <1>4, <2>2, <3>1, <3>2
  <2>3. ASSUME NEW d \in online
        PROVE  /\ pc'[d] \in {"run", "tick", "switch", "leave"} => state'[current'[d]] = "RUNNING"
               /\ pc'[d] = "exit" => state'[current'[d]] = "ZOMBIE"
               /\ state'[current'[d]] \in {"RUNNING", "READY", "BLOCKED", "ZOMBIE"}
    <3>0. d \in CPUs
      BY <1>2 DEF Shapes
    <3>1. CASE d = c
      BY <1>3, <1>4, <3>1
    <3>2. CASE d # c
      BY <1>2, <2>2, <3>0, <3>2 DEF Sections
    <3> QED BY <3>1, <3>2
  <2>4. ASSUME NEW d \in CPUs, outgoing'[d] # None
        PROVE  state'[outgoing'[d]] \in {"READY", "BLOCKED", "ZOMBIE"}
    <3>1. CASE d = c
      BY <1>1, <1>3, <1>4, <2>4, <3>1
    <3>2. CASE d # c
      BY <1>2, <2>2, <2>4, <3>2 DEF Sections
    <3> QED BY <3>1, <3>2
  <2>5. ASSUME NEW d \in online
        PROVE  state'[Idle[d]] = IF current'[d] = Idle[d] THEN "RUNNING" ELSE "READY"
    <3>0. d \in CPUs /\ Idle[d] \in Threads /\ Idle[d] \in Idles
      BY <1>2, DispatcherAssumption DEF Shapes, Idles
    <3>1. CASE d = c
      <4>1. CASE next = Idle[c]
        BY <1>3, <1>4, <3>1, <4>1
      <4>2. CASE next # Idle[c] /\ prev = Idle[c]
        <5>0. state[Idle[c]] = IF current[c] = Idle[c] THEN "RUNNING" ELSE "READY"
          BY <1>1, <1>2 DEF Sections
        <5>1. state[prev] = "RUNNING"
          BY <1>a, <4>2, <5>0
        <5> QED BY <1>3, <1>4, <1>a, <3>1, <4>2, <5>1
      <4>3. CASE Idle[c] \notin {prev, next}
        <5>1. state[Idle[c]] = "READY"
          BY <1>1, <1>2, <1>a, <4>3 DEF Sections
        <5> QED BY <1>3, <1>4, <3>0, <3>1, <4>3, <5>1
      <4> QED BY <4>1, <4>2, <4>3
    <3>2. CASE d # c
      <4>1. Idle[d] \notin {prev, next}
        BY <1>b, <3>0, <3>2, DispatcherAssumption
      <4> QED BY <1>2, <1>3, <2>2, <3>0, <3>2, <4>1 DEF Sections
    <3> QED BY <3>1, <3>2
  <2> QED BY <1>2, <2>1, <2>3, <2>4, <2>5 DEF Sections
<1>12. Lists'
  <2>1. ASSUME NEW t \in Threads \ Idles, state'[t] = "READY", onCpu'[t] = None
        PROVE  \E d \in mask[t] : t \in Elems(ready'[d][prio[t]])
    <3>1. t # next /\ t # prev
      BY <1>1, <1>2, <1>3, <1>4, <2>1
    <3>2. state[t] = "READY" /\ onCpu[t] = None
      BY <1>3, <1>4, <2>1, <3>1
    <3>3. PICK d \in mask[t] : t \in Elems(ready[d][prio[t]])
      BY <1>2, <3>2 DEF Lists, NoLostThread
    <3>4. d \in CPUs /\ prio[t] \in Priorities
      BY <1>2 DEF Shapes
    <3> QED BY <1>6, <3>1, <3>3, <3>4
  <2>2. ASSUME NEW d \in CPUs, NEW p \in Priorities, NEW t \in Elems(ready'[d][p])
        PROVE  /\ state'[t] = "READY" /\ prio[t] = p /\ d \in online /\ mask[t] \subseteq online /\ d \in mask[t]
               /\ onCpu'[t] = None /\ t \notin Idles
    <3>1. t \in Elems(ready[d][p]) /\ t # next
      BY <1>6
    <3>2. /\ t \in Threads \ Idles /\ state[t] = "READY" /\ prio[t] = p /\ onCpu[t] = None
          /\ d \in online /\ d \in mask[t] /\ mask[t] \subseteq online
      BY <1>2, <3>1, Linked
    <3>3. t # prev
      BY <1>1, <1>2, <3>2
    <3> QED BY <1>3, <1>4, <3>1, <3>2, <3>3
  <2>3. Elems(arrivals') = {t \in Threads \ Idles : state'[t] = "READY"}
    <3>1. Elems(arrivals) = {t \in Threads \ Idles : state[t] = "READY"}
      BY <1>2 DEF Lists
    <3>2. ASSUME NEW t
          PROVE  t \in Elems(arrivals') <=> t \in Threads \ Idles /\ state'[t] = "READY"
      <4>0. Idle[c] \in Idles
        BY DEF Idles
      <4>1. CASE t = next
        BY <1>3, <1>7, <4>1
      <4>2. CASE t = prev /\ t # next
        BY <1>1, <1>3, <1>7, <1>a, <1>b, <3>1, <4>0, <4>2
      <4>3. CASE t \notin {prev, next}
        BY <1>3, <1>7, <3>1, <4>3
      <4> QED BY <4>1, <4>2, <4>3
    <3> QED BY <3>2
  <2>4. \A d \in CPUs, p \in Priorities : \A i, j \in DOMAIN ready'[d][p] : ready'[d][p][i] = ready'[d][p][j] => i = j
    BY <1>6 DEF Injective
  <2>5. NoLostThread'
    BY <1>2, <2>1, <2>2, <2>4 DEF NoLostThread
  <2> QED BY <1>7, <2>2, <2>3, <2>5 DEF Lists
<1> QED BY <1>5, <1>8, <1>9, <1>10, <1>11, <1>12 DEF DInv, NoPanic

-----------------------------------------------------------------------------
(* The completion of a switch *)

LEMMA CompleteKeeps ==
  ASSUME DInv, NEW c \in CPUs, Complete(c)
  PROVE  DInv'
<1> DEFINE t == outgoing[c]
           publish == state[t] = "READY" /\ t # Idle[c]
           home == Choose(mask[t])
<1>0. /\ pc[c] = "switch" /\ onCpu' = [onCpu EXCEPT ![t] = None]
      /\ ready' = (IF publish THEN Enqueue(ready, t, home) ELSE ready)
      /\ outgoing' = [outgoing EXCEPT ![c] = None] /\ pc' = [pc EXCEPT ![c] = "run"]
      /\ panic' = (panic \/ ~(/\ t # None /\ onCpu[t] = c /\ t # current[c]
                              /\ onCpu[current[c]] = c /\ state[current[c]] = "RUNNING"
                              /\ ~Queued(t)
                              /\ state[t] \in {"READY", "BLOCKED", "ZOMBIE"}
                              /\ mask[t] # {} /\ mask[t] \subseteq online))
      /\ state' = state /\ prio' = prio /\ mask' = mask /\ current' = current /\ online' = online /\ arrivals' = arrivals
  BY DEF Complete, threadPolicy, waiting
<1>1. Shapes /\ Live /\ Masked /\ Sections /\ Lists /\ ~panic /\ None \notin Threads
  BY DispatcherAssumption DEF DInv, NoPanic
<1>2. /\ c \in online /\ t \in Threads /\ t # None /\ onCpu[t] = c /\ t # current[c] /\ c # None
      /\ current[c] \in Threads /\ onCpu[current[c]] = c
  BY <1>0, <1>1, LiveOn
<1>3. /\ ~Queued(t) /\ state[t] \in {"READY", "BLOCKED", "ZOMBIE"} /\ state[current[c]] = "RUNNING"
      /\ mask[t] # {} /\ mask[t] \subseteq online /\ mask[t] \subseteq CPUs
  <2>1. ~Queued(t)
    BY <1>1, <1>2, QueuedMeans, Linked
  <2> QED BY <1>0, <1>1, <1>2, <2>1 DEF Sections, Masked, Shapes
<1>4. home \in mask[t] /\ home \in CPUs /\ home \in online
  BY <1>1, <1>3, ChooseIn
<1>5. ~panic'
  BY <1>0, <1>1, <1>2, <1>3
<1>6. t \in Idles => t = Idle[c]
  BY <1>1, <1>2 DEF Idles, Masked
<1> HIDE DEF t, home
<1>7. /\ onCpu'[t] = None /\ (\A u \in Threads \ {t} : onCpu'[u] = onCpu[u])
      /\ outgoing'[c] = None /\ (\A d \in CPUs \ {c} : outgoing'[d] = outgoing[d])
      /\ pc'[c] = "run" /\ (\A d \in CPUs \ {c} : pc'[d] = pc[d])
      /\ onCpu' \in [Threads -> CPUs \cup {None}]
      /\ outgoing' \in [CPUs -> Threads \cup {None}] /\ pc' \in [CPUs -> Places]
  BY <1>0, <1>1, <1>2 DEF Shapes, Places
<1>8. /\ ready' \in [CPUs -> [Priorities -> Seq(Threads)]]
      /\ \A d \in CPUs, p \in Priorities :
           /\ Injective(ready'[d][p])
           /\ \A u : u \in Elems(ready'[d][p]) <=>
                       u \in Elems(ready[d][p]) \/ (publish /\ u = t /\ d = home /\ p = prio[t])
  <2>1. CASE publish
    <3>1. ready' = Enqueue(ready, t, home)
      BY <1>0, <2>1
    <3>2. Extends(ready', ready, t, home, prio[t])
      BY <1>1, <1>2, <1>3, <1>4, <3>1, EnqueueFacts
    <3> QED BY ONLY <2>1, <3>2 DEF Extends
  <2>2. CASE ~publish
    BY <1>0, <1>1, <2>2, Linked DEF Shapes
  <2> QED BY <2>1, <2>2
<1>9. \A d \in CPUs \ {c} : current[d] # t /\ outgoing[d] # t
  BY <1>1, <1>2, LiveOn
<1>10. Shapes'
  BY <1>0, <1>1, <1>7, <1>8 DEF Shapes
<1>11. Live'
  <2>1. ASSUME NEW d \in CPUs
        PROVE  /\ pc'[d] \notin {"off", "finish"} <=> d \in online
               /\ outgoing'[d] # None <=> pc'[d] = "switch"
               /\ d \in online => onCpu'[current[d]] = d
               /\ outgoing'[d] # None => onCpu'[outgoing'[d]] = d /\ outgoing'[d] # current[d]
    <3>1. CASE d = c
      BY <1>2, <1>7, <3>1
    <3>2. CASE d # c
      BY <1>1, <1>7, <1>9, <3>2, LiveOn
    <3> QED BY <3>1, <3>2
  <2>2. ASSUME NEW u \in Threads, onCpu'[u] # None
        PROVE  u \in {current[onCpu'[u]], outgoing'[onCpu'[u]]}
    <3>1. u # t /\ onCpu'[u] = onCpu[u] /\ onCpu[u] \in CPUs
      BY <1>1, <1>7, <2>2 DEF Shapes
    <3>2. u = current[onCpu[u]] \/ u = outgoing[onCpu[u]]
      BY <1>1, <3>1, LiveOn
    <3>3. CASE onCpu[u] = c
      BY <3>1, <3>2, <3>3 DEF t
    <3>4. CASE onCpu[u] # c
      BY <1>7, <3>1, <3>2, <3>4
    <3> QED BY <3>3, <3>4
  <2>3. (\A d \in CPUs : pc[d] \notin {"off", "finish"} <=> d \in online)'
    BY <1>0, <2>1
  <2>4. (\A d \in CPUs : current[d] # None <=> d \in online)' /\ (\A d \in CPUs : outgoing[d] # None <=> pc[d] = "switch")'
    BY <1>0, <1>1, <2>1 DEF Live
  <2>5. (\A d \in online : onCpu[current[d]] = d)'
    BY <1>0, <1>1, <2>1 DEF Shapes
  <2>6. (\A d \in CPUs : outgoing[d] # None => onCpu[outgoing[d]] = d /\ outgoing[d] # current[d])'
    BY <1>0, <2>1
  <2>7. (\A u \in Threads : onCpu[u] # None => u \in {current[onCpu[u]], outgoing[onCpu[u]]})'
    BY <1>0, <2>2
  <2> QED BY ONLY <2>3, <2>4, <2>5, <2>6, <2>7 DEF Live
<1>12. Masked'
  <2>1. ASSUME NEW u \in Threads
        PROVE  /\ onCpu'[u] # None => onCpu'[u] \in mask[u]
               /\ onCpu'[u] # None \/ state[u] \in {"READY", "RUNNING", "BLOCKED"} =>
                    mask[u] # {} /\ mask[u] \subseteq online
    BY <1>1, <1>7 DEF Masked
  <2>2. \A d \in CPUs : onCpu'[Idle[d]] \in {None, d}
    BY <1>1, <1>7, DispatcherAssumption DEF Masked
  <2> QED BY <1>0, <1>1, <2>1, <2>2 DEF Masked
<1>13. Sections'
  <2>1. \A d \in CPUs : pc'[d] # pc[d] => d = c
    BY <1>7
  <2>2. \A d \in online : pc'[d] \in {"run", "tick", "switch", "leave"} => state[current[d]] = "RUNNING"
    BY <1>1, <1>3, <1>7 DEF Sections, Shapes
  <2>3. \A d \in online : pc'[d] = "exit" => state[current[d]] = "ZOMBIE"
    BY <1>1, <1>7 DEF Sections, Shapes
  <2>4. \A d \in CPUs : outgoing'[d] # None => state[outgoing'[d]] \in {"READY", "BLOCKED", "ZOMBIE"}
    BY <1>1, <1>7 DEF Sections
  <2> QED BY <1>0, <1>1, <2>2, <2>3, <2>4 DEF Sections
<1>14. Lists'
  <2>1. ASSUME NEW u \in Threads \ Idles, state[u] = "READY", onCpu'[u] = None
        PROVE  \E d \in mask[u] : u \in Elems(ready'[d][prio[u]])
    <3>0. prio[u] \in Priorities /\ mask[u] \subseteq CPUs
      BY <1>1 DEF Shapes
    <3>1. CASE u = t
      <4>1. publish
        BY <2>1, <3>1 DEF Idles
      <4> QED BY <1>4, <1>8, <3>0, <3>1, <4>1
    <3>2. CASE u # t
      <4>1. PICK d \in mask[u] : u \in Elems(ready[d][prio[u]])
        BY <1>1, <1>7, <2>1, <3>2 DEF Lists, NoLostThread
      <4> QED BY <1>8, <3>0, <4>1
    <3> QED BY <3>1, <3>2
  <2>2. ASSUME NEW d \in CPUs, NEW p \in Priorities, NEW u \in Elems(ready'[d][p])
        PROVE  /\ state[u] = "READY" /\ prio[u] = p /\ d \in online /\ mask[u] \subseteq online /\ d \in mask[u]
               /\ onCpu'[u] = None /\ u \notin Idles
    <3>1. CASE u \in Elems(ready[d][p])
      <4>1. /\ u \in Threads \ Idles /\ state[u] = "READY" /\ prio[u] = p /\ onCpu[u] = None
            /\ d \in online /\ d \in mask[u] /\ mask[u] \subseteq online
        BY <1>1, <3>1, Linked
      <4> QED BY <1>2, <1>7, <4>1
    <3>2. CASE u \notin Elems(ready[d][p])
      <4>1. u = t /\ publish /\ d = home /\ p = prio[t]
        BY <1>8, <3>2
      <4> QED BY <1>3, <1>4, <1>6, <1>7, <4>1
    <3> QED BY <3>1, <3>2
  <2>4. \A d \in CPUs, p \in Priorities : \A i, j \in DOMAIN ready'[d][p] : ready'[d][p][i] = ready'[d][p][j] => i = j
    BY <1>8 DEF Injective
  <2>5. NoLostThread'
    BY <1>0, <2>1, <2>2, <2>4 DEF NoLostThread
  <2> QED BY <1>0, <1>1, <2>2, <2>5 DEF Lists
<1> QED BY <1>5, <1>10, <1>11, <1>12, <1>13, <1>14 DEF DInv, NoPanic

-----------------------------------------------------------------------------
(* The steps of the operations around the dispatcher *)

\* A CPU enters another section, and the thread that runs there leaves RUNNING or not.
LEMMA CpuMoves ==
  ASSUME DInv, NEW c \in online, pc[c] # "switch",
         UNCHANGED <<onCpu, prio, mask, arrivals, ready, current, outgoing, online>>, ~panic',
         state' \in [Threads -> States], \A t \in Threads \ {current[c]} : state'[t] = state[t],
         pc' \in [CPUs -> Places], \A d \in CPUs \ {c} : pc'[d] = pc[d],
         pc'[c] \in {"run", "tick", "exit", "schedule", "leave"},
         pc'[c] \in {"run", "tick", "leave"} => state'[current[c]] = "RUNNING",
         pc'[c] = "exit" => state'[current[c]] = "ZOMBIE",
         state'[current[c]] = state[current[c]] \/
           (state[current[c]] = "RUNNING" /\ state'[current[c]] \in {"BLOCKED", "ZOMBIE"} /\ current[c] # Idle[c])
  PROVE  DInv'
<1>1. Shapes /\ Live /\ Masked /\ Sections /\ Lists /\ c \in CPUs
  BY DEF DInv, Shapes
<1>2. current[c] \in Threads /\ onCpu[current[c]] = c /\ c # None /\ outgoing[c] = None
  BY <1>1, LiveOn
<1>3. Shapes'
  BY <1>1 DEF Shapes
<1>4. Live'
  <2>1. \A d \in CPUs : pc'[d] \notin {"off", "finish"} <=> d \in online
    <3> TAKE d \in CPUs
    <3>1. CASE d = c
      BY <3>1
    <3>2. CASE d # c
      BY <1>1, <3>2, LiveOn
    <3> QED BY <3>1, <3>2
  <2>2. \A d \in CPUs : outgoing[d] # None <=> pc'[d] = "switch"
    <3> TAKE d \in CPUs
    <3>1. CASE d = c
      BY <1>2, <3>1
    <3>2. CASE d # c
      BY <1>1, <3>2, LiveOn
    <3> QED BY <3>1, <3>2
  <2>3. (\A d \in CPUs : pc[d] \notin {"off", "finish"} <=> d \in online)' /\ (\A d \in CPUs : outgoing[d] # None <=> pc[d] = "switch")'
    BY <2>1, <2>2
  <2>4. (\A d \in CPUs : current[d] # None <=> d \in online)'
    BY <1>1 DEF Live
  <2>5. (\A d \in online : onCpu[current[d]] = d)'
    BY <1>1 DEF Live
  <2>6. (\A d \in CPUs : outgoing[d] # None => onCpu[outgoing[d]] = d /\ outgoing[d] # current[d])'
    BY <1>1 DEF Live
  <2>7. (\A t \in Threads : onCpu[t] # None => t \in {current[onCpu[t]], outgoing[onCpu[t]]})'
    BY <1>1 DEF Live
  <2> QED BY ONLY <2>3, <2>4, <2>5, <2>6, <2>7 DEF Live
<1>5. Masked'
  <2>1. \A t \in Threads : state'[t] \in {"READY", "RUNNING", "BLOCKED"} => mask[t] # {} /\ mask[t] \subseteq online
    BY <1>1, <1>2 DEF Masked
  <2> QED BY <1>1, <2>1 DEF Masked
<1>6. \A d \in CPUs \ {c} : /\ d \in online => state'[current[d]] = state[current[d]]
                            /\ outgoing[d] # None => state'[outgoing[d]] = state[outgoing[d]]
  BY <1>1, <1>2, LiveOn
<1>7. Sections'
  <2>1. (\A t \in Threads : state[t] = "RUNNING" => \E d \in online : current[d] = t)'
    BY <1>1 DEF Sections
  <2>2. (\A d \in online : pc[d] \in {"run", "tick", "switch", "leave"} => state[current[d]] = "RUNNING")'
    <3> SUFFICES ASSUME NEW d \in online
                 PROVE  pc'[d] \in {"run", "tick", "switch", "leave"} => state'[current[d]] = "RUNNING"
      OBVIOUS
    <3>1. CASE d = c
      BY <3>1
    <3>2. CASE d # c
      BY <1>1, <1>6, <3>2 DEF Sections, Shapes
    <3> QED BY <3>1, <3>2
  <2>3. (\A d \in online : pc[d] = "exit" => state[current[d]] = "ZOMBIE")'
    <3> SUFFICES ASSUME NEW d \in online
                 PROVE  pc'[d] = "exit" => state'[current[d]] = "ZOMBIE"
      OBVIOUS
    <3>1. CASE d = c
      BY <3>1
    <3>2. CASE d # c
      BY <1>1, <1>6, <3>2 DEF Sections, Shapes
    <3> QED BY <3>1, <3>2
  <2>4. (\A d \in online : state[current[d]] \in {"RUNNING", "READY", "BLOCKED", "ZOMBIE"})'
    <3> SUFFICES ASSUME NEW d \in online
                 PROVE  state'[current[d]] \in {"RUNNING", "READY", "BLOCKED", "ZOMBIE"}
      OBVIOUS
    <3>1. CASE d = c
      BY <1>1, <3>1 DEF Sections
    <3>2. CASE d # c
      BY <1>1, <1>6, <3>2 DEF Sections, Shapes
    <3> QED BY <3>1, <3>2
  <2>5. (\A d \in CPUs : outgoing[d] # None => state[outgoing[d]] \in {"READY", "BLOCKED", "ZOMBIE"})'
    BY <1>1, <1>2, <1>6 DEF Sections
  <2>6. (\A d \in online : state[Idle[d]] = IF current[d] = Idle[d] THEN "RUNNING" ELSE "READY")'
    <3> SUFFICES ASSUME NEW d \in online
                 PROVE  state'[Idle[d]] = IF current[d] = Idle[d] THEN "RUNNING" ELSE "READY"
      OBVIOUS
    <3>1. state'[Idle[d]] = state[Idle[d]]
      <4>1. d \in CPUs /\ Idle[d] \in Threads
        BY <1>1, DispatcherAssumption DEF Shapes
      <4>2. CASE Idle[d] = current[c]
        <5>1. d = c
          BY <1>1, <1>2, <4>1, <4>2 DEF Masked
        <5> QED BY <4>2, <5>1
      <4> QED BY <4>1, <4>2
    <3>2. state[Idle[d]] = IF current[d] = Idle[d] THEN "RUNNING" ELSE "READY"
      BY <1>1 DEF Sections
    <3> QED BY <3>1, <3>2
  <2> QED BY ONLY <2>1, <2>2, <2>3, <2>4, <2>5, <2>6 DEF Sections
<1>8. \A t \in Threads : state'[t] = "READY" <=> state[t] = "READY"
  BY <1>2
<1>9. Lists'
  <2>1. (\A t \in Threads \ Idles : state[t] = "READY" /\ onCpu[t] = None => \E d \in mask[t] : t \in Elems(ready[d][prio[t]]))'
    BY <1>1, <1>8 DEF Lists, NoLostThread
  <2>2. \A d \in CPUs, p \in Priorities : \A t \in Elems(ready[d][p]) : state'[t] = "READY"
    BY <1>1, <1>8, Linked
  <2>3. NoLostThread'
    BY <1>1, <2>1, <2>2 DEF Lists, NoLostThread
  <2>4. (Injective(arrivals) /\ Elems(arrivals) = {t \in Threads \ Idles : state[t] = "READY"})'
    BY <1>1, <1>8 DEF Lists
  <2>5. (\A d \in CPUs, p \in Priorities : \A t \in Elems(ready[d][p]) : onCpu[t] = None /\ t \notin Idles)'
    BY <1>1 DEF Lists
  <2> QED BY ONLY <2>3, <2>4, <2>5 DEF Lists
<1> QED BY <1>3, <1>4, <1>5, <1>7, <1>9 DEF DInv, NoPanic

\* The idle threads of the CPUs that are there.
IdlesOnline == {Idle[c] : c \in online}

\* A slot that is free or was never started is live nowhere, and idle threads never rest.
LEMMA AtRest ==
  ASSUME DInv, NEW t \in Threads
  PROVE  /\ state[t] \in {"FREE", "NEW"} => onCpu[t] = None
         /\ state[t] \notin {"READY", "RUNNING"} => t \notin IdlesOnline
<1>1. Shapes /\ Live /\ Sections
  BY DEF DInv
<1>2. ASSUME onCpu[t] # None
      PROVE  state[t] \notin {"FREE", "NEW"}
  <2> DEFINE d == onCpu[t]
  <2>1. d \in CPUs
    BY <1>1, <1>2 DEF Shapes
  <2>2. t = current[d] \/ t = outgoing[d]
    BY <1>1, <2>1, LiveOn
  <2>3. None \notin Threads
    BY DispatcherAssumption
  <2>4. CASE t = current[d]
    <3>1. d \in online
      BY <1>1, <2>1, <2>3, <2>4, LiveOn
    <3>2. state[current[d]] \in {"RUNNING", "READY", "BLOCKED", "ZOMBIE"}
      BY <1>1, <3>1 DEF Sections
    <3> QED BY <2>4, <3>2
  <2>5. CASE t = outgoing[d]
    <3>1. state[outgoing[d]] \in {"READY", "BLOCKED", "ZOMBIE"}
      BY <1>1, <2>1, <2>3, <2>5 DEF Sections
    <3> QED BY <2>5, <3>1
  <2> QED BY <2>2, <2>4, <2>5
<1>3. \A d \in online : state[Idle[d]] \in {"READY", "RUNNING"}
  BY <1>1 DEF Sections
<1> QED BY <1>2, <1>3 DEF IdlesOnline

\* The threads of D are reset while nobody runs them or waits for them.
LEMMA RetireKeeps ==
  ASSUME DInv, UNCHANGED <<onCpu, arrivals, ready, current, outgoing, online, pc>>, ~panic',
         NEW D \in SUBSET Threads,
         \A t \in D : onCpu[t] = None /\ state[t] \notin {"READY", "RUNNING"} /\ t \notin IdlesOnline,
         state' \in [Threads -> States], prio' \in [Threads -> Priorities], mask' \in [Threads -> SUBSET CPUs],
         \A t \in D : state'[t] \notin {"READY", "RUNNING"} /\ (state'[t] = "BLOCKED" => mask'[t] # {} /\ mask'[t] \subseteq online),
         \A t \in Threads \ D : state'[t] = state[t] /\ prio'[t] = prio[t] /\ mask'[t] = mask[t]
  PROVE  DInv'
<1>1. Shapes /\ Live /\ Masked /\ Sections /\ Lists
  BY DEF DInv
<1>2. \A d \in CPUs : /\ d \in online => current[d] \in Threads \ D
                      /\ outgoing[d] # None => outgoing[d] \in Threads \ D
  BY <1>1, LiveOn
<1>3. \A d \in online : Idle[d] \in Threads \ D /\ d \in CPUs
  <2> TAKE d \in online
  <2>1. d \in CPUs
    BY <1>1 DEF Shapes
  <2>2. Idle[d] \in Threads
    BY <2>1, DispatcherAssumption
  <2>3. Idle[d] \in IdlesOnline
    BY DEF IdlesOnline
  <2> QED BY <2>1, <2>2, <2>3
<1>4. Shapes'
  BY <1>1 DEF Shapes
<1>5. Live'
  BY <1>1 DEF Live
<1>6. Masked'
  <2>1. \A t \in Threads : onCpu[t] # None => onCpu[t] \in mask'[t]
    BY <1>1 DEF Masked
  <2>2. \A t \in Threads : onCpu[t] # None \/ state'[t] \in {"READY", "RUNNING", "BLOCKED"} => mask'[t] # {} /\ mask'[t] \subseteq online
    <3> TAKE t \in Threads
    <3>1. CASE t \in D
      BY <3>1
    <3>2. CASE t \notin D
      BY <1>1, <3>2 DEF Masked
    <3> QED BY <3>1, <3>2
  <2>3. \A d \in online : mask'[Idle[d]] = {d}
    BY <1>1, <1>3 DEF Masked
  <2> QED BY <1>1, <2>1, <2>2, <2>3 DEF Masked
<1>7. Sections'
  <2>1. (\A t \in Threads : state[t] = "RUNNING" => \E d \in online : current[d] = t)'
    BY <1>1 DEF Sections
  <2>2. (\A d \in online : pc[d] \in {"run", "tick", "switch", "leave"} => state[current[d]] = "RUNNING")'
    BY <1>1, <1>2, <1>3 DEF Sections
  <2>3. (\A d \in online : pc[d] = "exit" => state[current[d]] = "ZOMBIE")'
    BY <1>1, <1>2, <1>3 DEF Sections
  <2>4. (\A d \in online : state[current[d]] \in {"RUNNING", "READY", "BLOCKED", "ZOMBIE"})'
    BY <1>1, <1>2, <1>3 DEF Sections
  <2>5. (\A d \in CPUs : outgoing[d] # None => state[outgoing[d]] \in {"READY", "BLOCKED", "ZOMBIE"})'
    BY <1>1, <1>2 DEF Sections
  <2>6. (\A d \in online : state[Idle[d]] = IF current[d] = Idle[d] THEN "RUNNING" ELSE "READY")'
    BY <1>1, <1>3 DEF Sections
  <2> QED BY ONLY <2>1, <2>2, <2>3, <2>4, <2>5, <2>6 DEF Sections
<1>8. \A t \in Threads : (state'[t] = "READY" <=> state[t] = "READY") /\ (state[t] = "READY" => t \notin D)
  OBVIOUS
<1>9. Lists'
  <2>1. (\A t \in Threads \ Idles : state[t] = "READY" /\ onCpu[t] = None => \E d \in mask[t] : t \in Elems(ready[d][prio[t]]))'
    BY <1>1, <1>8 DEF Lists, NoLostThread
  <2>2. \A d \in CPUs, p \in Priorities : \A t \in Elems(ready[d][p]) :
          state'[t] = "READY" /\ prio'[t] = p /\ d \in online /\ mask'[t] \subseteq online /\ d \in mask'[t]
    BY <1>1, <1>8, Linked
  <2>3. NoLostThread'
    <3>1. (\A d \in CPUs, p \in Priorities : \A i, j \in DOMAIN ready[d][p] : ready[d][p][i] = ready[d][p][j] => i = j)'
      BY <1>1 DEF Lists, NoLostThread
    <3>2. (\A d \in CPUs, p \in Priorities : \A t \in Elems(ready[d][p]) :
             state[t] = "READY" /\ prio[t] = p /\ d \in online /\ mask[t] \subseteq online /\ d \in mask[t])'
      BY <2>2
    <3> QED BY ONLY <2>1, <3>1, <3>2 DEF NoLostThread
  <2>4. (Injective(arrivals) /\ Elems(arrivals) = {t \in Threads \ Idles : state[t] = "READY"})'
    BY <1>1, <1>8 DEF Lists
  <2>5. (\A d \in CPUs, p \in Priorities : \A t \in Elems(ready[d][p]) : onCpu[t] = None /\ t \notin Idles)'
    BY <1>1 DEF Lists
  <2> QED BY ONLY <2>3, <2>4, <2>5 DEF Lists
<1> QED BY <1>4, <1>5, <1>6, <1>7, <1>9 DEF DInv, NoPanic

\* A thread that waited, or never ran, becomes READY, and is linked unless its stack is
\* live; the threads of D are reset in the same section.
Readied(D, t, home) ==
  /\ UNCHANGED <<onCpu, mask, current, outgoing, online, pc>> /\ ~panic'
  /\ D \in SUBSET Threads
  /\ \A x \in D : onCpu[x] = None /\ state[x] \notin {"READY", "RUNNING"} /\ x \notin IdlesOnline
  /\ t \in Threads \ Idles /\ state[t] \notin {"READY", "RUNNING"} /\ (onCpu[t] # None => state[t] = "BLOCKED")
  /\ home \in mask[t] /\ mask[t] \subseteq online
  /\ state' \in [Threads -> States] /\ prio' \in [Threads -> Priorities]
  /\ state'[t] = "READY" /\ \A x \in D \ {t} : state'[x] \notin {"READY", "RUNNING", "BLOCKED"}
  /\ \A x \in Threads \ (D \cup {t}) : state'[x] = state[x] /\ prio'[x] = prio[x]
  /\ arrivals' = Arrive(t)
  /\ IF onCpu[t] = None THEN Extends(ready', ready, t, home, prio'[t]) ELSE ready' = ready

LEMMA ReadyKeeps ==
  ASSUME DInv, NEW D, NEW t, NEW home, Readied(D, t, home)
  PROVE  DInv'
<1>1. Shapes /\ Live /\ Masked /\ Sections /\ Lists
  BY DEF DInv
<1> USE DEF Readied
<1>0. /\ ready' \in [CPUs -> [Priorities -> Seq(Threads)]]
      /\ \A d \in CPUs, p \in Priorities :
            /\ Injective(ready'[d][p])
            /\ \A u : u \in Elems(ready'[d][p]) <=>
                        u \in Elems(ready[d][p]) \/ (onCpu[t] = None /\ u = t /\ d = home /\ p = prio'[t])
  <2>1. CASE onCpu[t] = None
    <3>1. Extends(ready', ready, t, home, prio'[t])
      BY <2>1
    <3> QED BY ONLY <2>1, <3>1 DEF Extends
  <2>2. CASE onCpu[t] # None
    BY <1>1, <2>2, Linked DEF Shapes
  <2> QED BY <2>1, <2>2
<1>2. \A d \in CPUs : /\ d \in online => current[d] \in Threads \ D
                      /\ outgoing[d] # None => outgoing[d] \in Threads \ D
  <2>1. \A x \in D : onCpu[x] = None
    OBVIOUS
  <2> QED BY ONLY <1>1, <2>1, LiveOn
<1>3. \A d \in online : Idle[d] \in Threads \ (D \cup {t}) /\ d \in CPUs
  <2> TAKE d \in online
  <2>1. d \in CPUs
    BY <1>1 DEF Shapes
  <2>2. Idle[d] \in Threads
    BY <2>1, DispatcherAssumption
  <2>3. Idle[d] \in IdlesOnline /\ Idle[d] \in Idles
    BY <2>1 DEF IdlesOnline, Idles
  <2> QED BY <2>1, <2>2, <2>3
<1>4. \A d \in online : current[d] = t => pc[d] = "schedule"
  <2>0. SUFFICES ASSUME NEW d \in online, current[d] = t
                 PROVE  pc[d] = "schedule"
    OBVIOUS
  <2>1. d \in CPUs /\ onCpu[t] = d /\ d # None
    BY <1>1, <1>3, <2>0, LiveOn
  <2>2. state[t] = "BLOCKED"
    BY <2>1
  <2>3. pc[d] \notin {"run", "tick", "switch", "leave"}
    BY <1>1, <2>0, <2>2 DEF Sections
  <2>4. pc[d] # "exit"
    BY <1>1, <2>0, <2>2 DEF Sections
  <2>5. pc[d] \in Places /\ pc[d] \notin {"off", "finish"}
    BY <1>1, <2>1, LiveOn DEF Shapes
  <2> QED BY <2>3, <2>4, <2>5 DEF Places
<1>a. \A d \in online : current[d] = t \/ state'[current[d]] = state[current[d]]
  BY <1>2, <1>3
<1>b. \A d \in online : state'[Idle[d]] = state[Idle[d]]
  BY <1>3
<1>5. /\ arrivals' \in Seq(Threads) /\ Injective(arrivals')
      /\ Elems(arrivals') = Elems(arrivals) \cup {t}
  BY <1>1, ArriveFacts DEF Shapes, Lists
<1>6. Shapes'
  BY <1>0, <1>1, <1>5 DEF Shapes
<1>7. Live'
  BY <1>1 DEF Live
<1>8. Masked'
  <2>1. \A x \in Threads : onCpu[x] # None \/ state'[x] \in {"READY", "RUNNING", "BLOCKED"} => mask[x] # {} /\ mask[x] \subseteq online
    <3> TAKE x \in Threads
    <3>1. CASE x = t
      BY <3>1
    <3>2. CASE x \in D \ {t}
      BY <3>2
    <3>3. CASE x \notin D \cup {t}
      BY <1>1, <3>3 DEF Masked
    <3> QED BY <3>1, <3>2, <3>3
  <2> QED BY <1>1, <2>1 DEF Masked
<1>9. Sections'
  <2>1. (\A x \in Threads : state[x] = "RUNNING" => \E d \in online : current[d] = x)'
    <3>1. \A x \in Threads : state'[x] = "RUNNING" => state[x] = "RUNNING"
      OBVIOUS
    <3> QED BY <1>1, <3>1 DEF Sections
  <2>2. (\A d \in online : pc[d] \in {"run", "tick", "switch", "leave"} => state[current[d]] = "RUNNING")'
    <3>1. \A d \in online : pc[d] \in {"run", "tick", "switch", "leave"} => state[current[d]] = "RUNNING"
      BY <1>1 DEF Sections
    <3>2. UNCHANGED <<current, online, pc>>
      OBVIOUS
    <3> QED BY ONLY <1>4, <1>a, <3>1, <3>2
  <2>3. (\A d \in online : pc[d] = "exit" => state[current[d]] = "ZOMBIE")'
    <3>1. \A d \in online : pc[d] = "exit" => state[current[d]] = "ZOMBIE"
      BY <1>1 DEF Sections
    <3>2. UNCHANGED <<current, online, pc>>
      OBVIOUS
    <3> QED BY ONLY <1>4, <1>a, <3>1, <3>2
  <2>4. (\A d \in online : state[current[d]] \in {"RUNNING", "READY", "BLOCKED", "ZOMBIE"})'
    BY <1>1, <1>2, <1>3 DEF Sections
  <2>5. (\A d \in CPUs : outgoing[d] # None => state[outgoing[d]] \in {"READY", "BLOCKED", "ZOMBIE"})'
    BY <1>1, <1>2 DEF Sections
  <2>6. (\A d \in online : state[Idle[d]] = IF current[d] = Idle[d] THEN "RUNNING" ELSE "READY")'
    <3>1. \A d \in online : state[Idle[d]] = IF current[d] = Idle[d] THEN "RUNNING" ELSE "READY"
      BY <1>1 DEF Sections
    <3>2. UNCHANGED <<current, online>>
      OBVIOUS
    <3> QED BY ONLY <1>b, <3>1, <3>2
  <2> QED BY ONLY <2>1, <2>2, <2>3, <2>4, <2>5, <2>6 DEF Sections
<1>10. \A x \in Threads : /\ state'[x] = "READY" <=> state[x] = "READY" \/ x = t
                          /\ state[x] = "READY" => x \notin D \cup {t}
  OBVIOUS
<1>11. Lists'
  <2>1. ASSUME NEW x \in Threads \ Idles, state'[x] = "READY", onCpu[x] = None
        PROVE  \E d \in mask[x] : x \in Elems(ready'[d][prio'[x]])
    <3>0. prio'[x] \in Priorities /\ mask[x] \subseteq CPUs
      BY <1>1 DEF Shapes
    <3>1. CASE x = t
      <4>1. home \in CPUs /\ home \in mask[x]
        BY <3>0, <3>1
      <4>2. x \in Elems(ready'[home][prio'[x]])
        BY <1>0, <2>1, <3>0, <3>1, <4>1
      <4> QED BY <4>1, <4>2
    <3>2. CASE x # t
      <4>1. state[x] = "READY" /\ prio'[x] = prio[x]
        BY <1>10, <2>1, <3>2
      <4>2. PICK d \in mask[x] : x \in Elems(ready[d][prio[x]])
        BY <1>1, <2>1, <4>1 DEF Lists, NoLostThread
      <4>3. x \in Elems(ready'[d][prio'[x]])
        BY <1>0, <3>0, <4>1, <4>2
      <4> QED BY <4>3
    <3> QED BY <3>1, <3>2
  <2>2. ASSUME NEW d \in CPUs, NEW p \in Priorities, NEW x \in Elems(ready'[d][p])
        PROVE  /\ state'[x] = "READY" /\ prio'[x] = p /\ d \in online /\ mask[x] \subseteq online /\ d \in mask[x]
               /\ onCpu[x] = None /\ x \notin Idles
    <3>1. CASE x \in Elems(ready[d][p])
      <4>1. /\ x \in Threads \ Idles /\ state[x] = "READY" /\ prio[x] = p /\ onCpu[x] = None
            /\ d \in online /\ d \in mask[x] /\ mask[x] \subseteq online
        BY <1>1, <3>1, Linked
      <4> QED BY <1>10, <4>1
    <3>2. CASE x \notin Elems(ready[d][p])
      <4>1. x = t /\ onCpu[t] = None /\ d = home /\ p = prio'[t]
        BY <1>0, <3>2
      <4> QED BY <4>1
    <3> QED BY <3>1, <3>2
  <2>3. \A d \in CPUs, p \in Priorities : \A i, j \in DOMAIN ready'[d][p] : ready'[d][p][i] = ready'[d][p][j] => i = j
    BY <1>0 DEF Injective
  <2>4. NoLostThread'
    BY <2>1, <2>2, <2>3 DEF NoLostThread
  <2>5. (Injective(arrivals) /\ Elems(arrivals) = {x \in Threads \ Idles : state[x] = "READY"})'
    BY <1>1, <1>5, <1>10 DEF Lists
  <2>6. (\A d \in CPUs, p \in Priorities : \A x \in Elems(ready[d][p]) : onCpu[x] = None /\ x \notin Idles)'
    BY <2>2
  <2> QED BY ONLY <2>4, <2>5, <2>6 DEF Lists
<1> QED BY <1>6, <1>7, <1>8, <1>9, <1>11 DEF DInv, NoPanic
=============================================================================
