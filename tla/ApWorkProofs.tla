----------------------------- MODULE ApWorkProofs -----------------------------
(***************************************************************************)
(* The worker service keeps the dispatcher's invariant while its CPUs come *)
(* and go and its workers are woken with their stacks still live. For      *)
(* every number of CPUs, workers and slots and every setting: a stack has  *)
(* one owner, a job has one owner, a queued job is never left to sleeping  *)
(* workers, and the pool outlives the CPUs that read it.                   *)
(***************************************************************************)
EXTENDS ApWork, DispatcherProofs

-----------------------------------------------------------------------------
(* Filtering and joining lists. *)

LEMMA SetInduction ==
  ASSUME NEW T, 0 \in T, \A n \in Nat : n \in T => n + 1 \in T
  PROVE  \A n \in Nat : n \in T
<1> SUFFICES ASSUME Nat \ T # {} PROVE FALSE
  OBVIOUS
<1>1. PICK n \in Nat \ T : \A m \in Nat \ T : n <= m
  BY LeastNat
<1>2. n # 0 /\ n - 1 \in Nat /\ n - 1 \in T
  BY <1>1
<1> QED BY <1>1, <1>2

LEMMA KeptExists ==
  ASSUME NEW X, NEW s \in Seq(X), NEW S
  PROVE  /\ Kept(s, S) \in [0 .. Len(s) -> Seq(X)]
         /\ Kept(s, S)[0] = <<>>
         /\ \A i \in 1 .. Len(s) :
              Kept(s, S)[i] = IF s[i] \in S THEN Append(Kept(s, S)[i - 1], s[i]) ELSE Kept(s, S)[i - 1]
<1> DEFINE Body(f, n) == [i \in 0 .. n |-> IF i = 0 THEN <<>> ELSE IF s[i] \in S THEN Append(f[i - 1], s[i]) ELSE f[i - 1]]
           Fine(n) == \E f \in [0 .. n -> Seq(X)] : f = Body(f, n)
           T == {n \in Nat : n <= Len(s) => Fine(n)}
<1>1. 0 \in T
  <2>1. [i \in 0 .. 0 |-> <<>>] \in [0 .. 0 -> Seq(X)]
    OBVIOUS
  <2>2. [i \in 0 .. 0 |-> <<>>] = Body([i \in 0 .. 0 |-> <<>>], 0)
    OBVIOUS
  <2> QED BY <2>1, <2>2
<1>2. ASSUME NEW n \in Nat, n \in T PROVE n + 1 \in T
  <2>0. (n + 1 <= Len(s) => Fine(n + 1)) => n + 1 \in T
    <3> HIDE DEF Fine
    <3> QED OBVIOUS
  <2> SUFFICES ASSUME n + 1 <= Len(s) PROVE Fine(n + 1)
    BY <2>0
  <2>a. Fine(n)
    <3> HIDE DEF Fine
    <3> QED BY <1>2
  <2>1. PICK f \in [0 .. n -> Seq(X)] : f = Body(f, n)
    BY <2>a
  <2> DEFINE v == IF s[n + 1] \in S THEN Append(f[n], s[n + 1]) ELSE f[n]
             g == [i \in 0 .. n + 1 |-> IF i = n + 1 THEN v ELSE f[i]]
  <2>2. v \in Seq(X)
    <3>1. s[n + 1] \in X /\ f[n] \in Seq(X)
      OBVIOUS
    <3> QED BY <3>1
  <2>3. g \in [0 .. n + 1 -> Seq(X)]
    BY <2>2
  <2>4. g = Body(g, n + 1)
    <3>1. ASSUME NEW i \in 0 .. n + 1 PROVE g[i] = Body(g, n + 1)[i]
      <4>1. CASE i = n + 1
        <5>1. g[i] = v /\ g[i - 1] = f[n]
          BY <4>1
        <5> QED BY <5>1, <4>1
      <4>2. CASE i # n + 1 /\ i # 0
        <5>1. i \in 0 .. n /\ g[i] = f[i] /\ g[i - 1] = f[i - 1]
          BY <4>2
        <5>2. f[i] = IF s[i] \in S THEN Append(f[i - 1], s[i]) ELSE f[i - 1]
          BY <2>1, <5>1, <4>2
        <5> QED BY <5>1, <5>2, <4>2
      <4>3. CASE i = 0
        <5>1. f[0] = <<>>
          BY <2>1
        <5> QED BY <5>1, <4>3
      <4> QED BY <4>1, <4>2, <4>3
    <3>2. DOMAIN g = DOMAIN Body(g, n + 1)
      OBVIOUS
    <3> QED BY <3>1, <3>2
  <2> QED BY <2>3, <2>4
<1>3. Fine(Len(s))
  <2> HIDE DEF Fine
  <2>1. \A n \in Nat : n \in T
    BY <1>1, <1>2, SetInduction
  <2> QED BY <2>1
<1>4. Kept(s, S) = CHOOSE f : f = Body(f, Len(s))
  BY DEF Kept
<1>5. Kept(s, S) = Body(Kept(s, S), Len(s))
  BY <1>3, <1>4
<1> DEFINE K == Kept(s, S)
<1>6. PICK g \in [0 .. Len(s) -> Seq(X)] : g = Body(g, Len(s))
  BY <1>3
<1>7. \A i \in 0 .. Len(s) : K[i] = IF i = 0 THEN <<>> ELSE IF s[i] \in S THEN Append(K[i - 1], s[i]) ELSE K[i - 1]
  <2> HIDE DEF K
  <2> QED BY <1>5 DEF K
<1>a. K[0] = <<>>
  <2>1. 0 \in 0 .. Len(s)
    OBVIOUS
  <2> HIDE DEF K
  <2> QED BY <1>7, <2>1
<1>b. \A i \in 1 .. Len(s) : K[i] = IF s[i] \in S THEN Append(K[i - 1], s[i]) ELSE K[i - 1]
  <2> HIDE DEF K
  <2> QED BY <1>7
<1>8. \A n \in Nat : n \in {m \in Nat : m <= Len(s) => K[m] \in Seq(X)}
  <2> HIDE DEF K
  <2> DEFINE U == {m \in Nat : m <= Len(s) => K[m] \in Seq(X)}
  <2>0. K[0] \in Seq(X)
    BY <1>a
  <2>1. 0 \in U
    BY <2>0
  <2>2. ASSUME NEW n \in Nat, n \in U PROVE n + 1 \in U
    <3> SUFFICES ASSUME n + 1 <= Len(s) PROVE K[n + 1] \in Seq(X)
      OBVIOUS
    <3>1. K[n] \in Seq(X) /\ s[n + 1] \in X
      BY <2>2
    <3>2. K[n + 1] = IF s[n + 1] \in S THEN Append(K[n], s[n + 1]) ELSE K[n]
      BY <1>7
    <3> QED BY <3>1, <3>2
  <2> HIDE DEF U
  <2> QED BY <2>1, <2>2, SetInduction DEF U
<1>9. K \in [0 .. Len(s) -> Seq(X)]
  <2>1. DOMAIN K = 0 .. Len(s) /\ K = [i \in 0 .. Len(s) |-> K[i]]
    BY <1>5
  <2>2. \A i \in 0 .. Len(s) : K[i] \in Seq(X)
    BY <1>8
  <2> HIDE DEF K
  <2> QED BY <2>1, <2>2
<1> QED BY <1>a, <1>b, <1>9

\* The filter keeps exactly the members of S, each as often as the list has it.
LEMMA ThoseFacts ==
  ASSUME NEW X, NEW s \in Seq(X), Injective(s), NEW S
  PROVE  /\ Those(s, S) \in Seq(X) /\ Injective(Those(s, S))
         /\ \A u : u \in Elems(Those(s, S)) <=> u \in Elems(s) /\ u \in S
<1> DEFINE K == Kept(s, S)
           Fits(n) == /\ Injective(K[n])
                      /\ \A u : u \in Elems(K[n]) <=> \E i \in 1 .. n : s[i] = u /\ u \in S
           T == {n \in Nat : n <= Len(s) => Fits(n)}
<1>1. /\ K \in [0 .. Len(s) -> Seq(X)] /\ K[0] = <<>>
      /\ \A i \in 1 .. Len(s) : K[i] = IF s[i] \in S THEN Append(K[i - 1], s[i]) ELSE K[i - 1]
  BY KeptExists
<1> HIDE DEF K
<1>2. Len(s) \in Nat /\ DOMAIN s = 1 .. Len(s) /\ \A i \in 1 .. Len(s) : s[i] \in X
  OBVIOUS
<1>3. 0 \in T
  <2>1. Fits(0)
    BY <1>1 DEF Elems, Injective
  <2> HIDE DEF Fits
  <2> QED BY <2>1
<1>4. ASSUME NEW n \in Nat, n \in T PROVE n + 1 \in T
  <2>0. (n + 1 <= Len(s) => Fits(n + 1)) => n + 1 \in T
    <3> HIDE DEF Fits
    <3> QED OBVIOUS
  <2> SUFFICES ASSUME n + 1 <= Len(s) PROVE Fits(n + 1)
    BY <2>0
  <2>1. Fits(n)
    <3> HIDE DEF Fits
    <3>1. n <= Len(s)
      BY <1>2
    <3> QED BY <1>4, <3>1
  <2>2. /\ K[n] \in Seq(X) /\ s[n + 1] \in X /\ n \in 0 .. Len(s) /\ n + 1 \in 1 .. Len(s)
        /\ K[n + 1] = IF s[n + 1] \in S THEN Append(K[n], s[n + 1]) ELSE K[n]
    <3>1. n \in 0 .. Len(s) /\ n + 1 \in 1 .. Len(s) /\ (n + 1) - 1 = n
      BY <1>2
    <3>2. K[n] \in Seq(X) /\ s[n + 1] \in X
      BY <1>1, <1>2, <3>1
    <3>3. K[n + 1] = IF s[n + 1] \in S THEN Append(K[(n + 1) - 1], s[n + 1]) ELSE K[(n + 1) - 1]
      BY <1>1, <3>1
    <3> QED BY <3>1, <3>2, <3>3
  <2>3. \A u : (\E i \in 1 .. n + 1 : s[i] = u) <=> (\E i \in 1 .. n : s[i] = u) \/ u = s[n + 1]
    <3>1. \A i : i \in 1 .. n + 1 <=> i \in 1 .. n \/ i = n + 1
      BY <1>4
    <3> QED BY <3>1
  <2>4. CASE s[n + 1] \in S
    <3>1. s[n + 1] \notin Elems(K[n])
      <4>1. \A i \in 1 .. n : s[i] # s[n + 1]
        BY <1>2, <2>2 DEF Injective
      <4> QED BY <2>1, <4>1
    <3>2. /\ Injective(Append(K[n], s[n + 1]))
          /\ Elems(Append(K[n], s[n + 1])) = Elems(K[n]) \cup {s[n + 1]}
      <4>1. Injective(K[n])
        BY <2>1
      <4>2. K[n] \in Seq(X) /\ s[n + 1] \in X
        BY <2>2
      <4> QED BY ONLY <3>1, <4>1, <4>2, AppendFacts
    <3>3. K[n + 1] = Append(K[n], s[n + 1])
      BY <2>2, <2>4
    <3>4. Injective(K[n + 1]) /\ \A u : u \in Elems(K[n + 1]) <=> u \in Elems(K[n]) \/ u = s[n + 1]
      BY <3>2, <3>3
    <3> QED BY <2>1, <2>3, <2>4, <3>4
  <2>5. CASE s[n + 1] \notin S
    <3>1. K[n + 1] = K[n]
      BY <2>2, <2>5
    <3> QED BY <2>1, <2>3, <2>5, <3>1
  <2> QED BY <2>4, <2>5
<1>5. Fits(Len(s))
  <2> HIDE DEF Fits
  <2>1. \A n \in Nat : n \in T
    <3> HIDE DEF T
    <3> QED BY <1>3, <1>4, SetInduction
  <2> QED BY <1>2, <2>1
<1>6. Those(s, S) = K[Len(s)]
  BY DEF Those, K
<1>7. K[Len(s)] \in Seq(X)
  BY <1>1, <1>2
<1>8. \A u : u \in Elems(s) <=> \E i \in 1 .. Len(s) : s[i] = u
  BY DEF Elems
<1>9. /\ Injective(K[Len(s)])
      /\ \A u : u \in Elems(K[Len(s)]) <=> (\E i \in 1 .. Len(s) : s[i] = u) /\ u \in S
  BY <1>5
<1> HIDE DEF K, Fits
<1> QED BY ONLY <1>6, <1>7, <1>8, <1>9

\* Joining two lists that share nothing.
LEMMA JoinFacts ==
  ASSUME NEW X, NEW s \in Seq(X), NEW r \in Seq(X), Injective(s), Injective(r),
         \A u : ~(u \in Elems(s) /\ u \in Elems(r))
  PROVE  /\ s \o r \in Seq(X) /\ Injective(s \o r)
         /\ \A u : u \in Elems(s \o r) <=> u \in Elems(s) \/ u \in Elems(r)
<1> DEFINE j == s \o r
           m == Len(s)
           n == Len(r)
<1>1. /\ j \in Seq(X) /\ m \in Nat /\ n \in Nat /\ DOMAIN s = 1 .. m /\ DOMAIN r = 1 .. n /\ DOMAIN j = 1 .. m + n
      /\ \A i \in 1 .. m : j[i] = s[i]
      /\ \A i \in 1 .. m + n : i > m => j[i] = r[i - m]
  OBVIOUS
<1> HIDE DEF j, m, n
<1>2. \A i \in 1 .. m + n : \/ i \in 1 .. m /\ j[i] = s[i] /\ j[i] \in Elems(s)
                            \/ i > m /\ i - m \in 1 .. n /\ j[i] = r[i - m] /\ j[i] \in Elems(r)
  <2> TAKE i \in 1 .. m + n
  <2>1. i \in 1 .. m \/ (i > m /\ i - m \in 1 .. n)
    BY <1>1
  <2> QED BY <1>1, <2>1 DEF Elems
<1>3. Injective(j)
  <2>1. ASSUME NEW i \in 1 .. m + n, NEW k \in 1 .. m + n, j[i] = j[k]
        PROVE  i = k
    <3>1. CASE i \in 1 .. m /\ k \in 1 .. m
      BY <1>1, <2>1, <3>1 DEF Injective
    <3>2. CASE i > m /\ k > m
      <4>1. i - m \in 1 .. n /\ k - m \in 1 .. n /\ r[i - m] = r[k - m]
        BY <1>1, <2>1, <3>2
      <4>2. i - m = k - m
        BY <1>1, <4>1 DEF Injective
      <4> QED BY <1>1, <4>2
    <3>3. CASE ~(i > m) /\ k > m
      BY <1>1, <1>2, <2>1, <3>3
    <3>4. CASE i > m /\ ~(k > m)
      BY <1>1, <1>2, <2>1, <3>4
    <3> QED BY <1>1, <3>1, <3>2, <3>3, <3>4
  <2> QED BY <1>1, <2>1 DEF Injective
<1>4. ASSUME NEW u
      PROVE  u \in Elems(j) <=> u \in Elems(s) \/ u \in Elems(r)
  <2>1. u \in Elems(j) => u \in Elems(s) \/ u \in Elems(r)
    BY <1>1, <1>2 DEF Elems
  <2>2. ASSUME u \in Elems(s) PROVE u \in Elems(j)
    <3>1. PICK i \in 1 .. m : s[i] = u
      BY <1>1, <2>2 DEF Elems
    <3>2. i \in 1 .. m + n
      BY <1>1
    <3> QED BY <1>1, <3>1, <3>2 DEF Elems
  <2>3. ASSUME u \in Elems(r) PROVE u \in Elems(j)
    <3>1. PICK i \in 1 .. n : r[i] = u
      BY <1>1, <2>3 DEF Elems
    <3>2. m + i \in 1 .. m + n /\ m + i > m /\ (m + i) - m = i
      BY <1>1
    <3>3. j[m + i] = u
      BY <1>1, <3>1, <3>2
    <3> QED BY <1>1, <3>2, <3>3 DEF Elems
  <2> QED BY <2>1, <2>2, <2>3
<1> QED BY <1>1, <1>3, <1>4 DEF j

-----------------------------------------------------------------------------
(* The invariant. *)

Open == {"RUNNING", "DRAINING"}

\* Who uses the machine: `main' alone on the BSP, the crew and the idle threads on the APs.
Machine ==
  /\ 0 \in online /\ pc[0] = "run" /\ current[0] = 0 /\ mask[0] = {0}
  /\ \A t \in Threads \ (Crew \cup Idles \cup {0}) : state[t] = "NEW"
  /\ \A c \in CPUs \ (APs \cup {0}) : pc[c] = "off" /\ state[Idle[c]] = "NEW"

\* The control side's own state and the records the provers need typed.
Records ==
  /\ setting \in Settings /\ pool \in {"PREPARED", "RUNNING", "DRAINING", "FAILED", "none"} /\ stop \in BOOLEAN
  /\ bsp \in [at : {"ready", "signal", "send", "wait", "offline"},
              op : {"none", "start", "submit", "migrate", "drain", "halt"}, to : SUBSET APs]
  /\ job \in [Slots -> [state : {"FREE", "QUEUED", "RUNNING", "DONE"}, gen : Nat, mask : SUBSET APs,
                        worker : Crew \cup {None}, cpu : APs \cup {None}]]
  /\ doing \in [Crew -> (Slots \X Nat) \cup {None}] /\ quitting \subseteq Crew /\ done \subseteq APs

\* An AP leaves on its idle stack and only when told to; it reports once, and the pool
\* stays until all have. An AP that is not there has an unused idle thread.
Leaving ==
  /\ \A c \in CPUs : pc[c] = "leave" => current[c] = Idle[c] /\ stop
  /\ \A c \in done : pc[c] = "off"
  /\ pool = "none" => done = APs /\ bsp.at = "ready"
  /\ pool # "none" => \A c \in APs \ online : state[Idle[c]] = "NEW"

\* The crew has ended: no stack of it is live.
Ended == \A w \in Crew : state[w] \in {"ZOMBIE", "FREE"} /\ onCpu[w] = None

\* The stages of the service. The CPUs are told to stop once the crew has ended, in the
\* last call; until then an open pool has all its CPUs.
Stages ==
  /\ stop \/ bsp.op = "halt" => Ended
  /\ bsp.at # "ready" => pool \in Open
  /\ stop /\ pool \in Open => bsp.op = "halt" /\ bsp.at \in {"send", "offline"}
  /\ pool \in Open /\ ~stop => APs \subseteq online
  /\ pool = "PREPARED" => ~stop /\ \A s \in Slots : job[s].state # "QUEUED"
  /\ pool \in {"PREPARED", "RUNNING"} => quitting = {}

\* A worker belongs to one AP; it waits or ends only without a job.
Staffed ==
  /\ \A w \in Crew : state[w] \in {"READY", "RUNNING", "BLOCKED"} => \E d \in APs : mask[w] = {d}
  /\ \A w \in Crew : doing[w] # None => state[w] \in {"READY", "RUNNING"} /\ w \notin quitting

\* JobOwnedOnce, thread by thread and slot by slot.
Owned ==
  /\ \A w \in Crew : doing[w] # None =>
       LET s == doing[w][1]
       IN  /\ job[s].state = "RUNNING" /\ job[s].worker = w /\ doing[w][2] = job[s].gen
           /\ mask[w] = {job[s].cpu} /\ job[s].cpu \in job[s].mask
  /\ \A s \in Slots : job[s].state = "RUNNING" =>
       LET w == job[s].worker IN w \in Crew /\ doing[w] # None /\ doing[w][1] = s

\* A queued job has a worker that is awake and will look at the slots again, or one
\* that the signal now under way will wake.
Attends(w, s) ==
  \/ state[w] \in {"READY", "RUNNING"} /\ mask[w] \cap job[s].mask # {}
  \/ bsp.at = "signal" /\ state[w] = "BLOCKED" /\ mask[w] \cap job[s].mask \cap bsp.to # {}
Covered ==
  pool \in Open => \A s \in Slots : job[s].state = "QUEUED" => \E w \in Crew \ quitting : Attends(w, s)

AInv == DInv /\ Machine /\ Records /\ Leaving /\ Stages /\ Staffed /\ Owned /\ Covered

LEMMA Cast ==
  /\ Crew \subseteq Threads /\ Crew \cap Idles = {} /\ 0 \in Threads /\ 0 \notin Crew \cup Idles
  /\ None \notin Threads /\ None \notin CPUs /\ None \notin Slots \X Nat /\ 0 \in CPUs
  /\ \A c \in CPUs : Idle[c] \in Threads /\ Idle[c] \in Idles
  /\ \A c, d \in CPUs : Idle[c] = Idle[d] => c = d
  /\ Elems(Workers) = Crew /\ Workers \in Seq(Threads) /\ Injective(Workers)
  /\ setting \in Settings => APs \subseteq CPUs /\ 0 \notin APs /\ \A w \in Crew : setting.home[w] \in APs
<1>1. /\ Crew \subseteq Threads \ Idles /\ 0 \in Threads \ (Crew \cup Idles) /\ None \notin Slots \X Nat
      /\ Workers \in Seq(Threads) /\ \A i, j \in DOMAIN Workers : Workers[i] = Workers[j] => i = j
  BY ApWorkAssumption
<1>2. Idle \in [CPUs -> Threads] /\ None \notin Threads \cup CPUs /\ 0 \in CPUs /\ \A c, d \in CPUs : Idle[c] = Idle[d] => c = d
  BY DispatcherAssumption
<1>3. setting \in Settings => setting.home \in [Crew -> CPUs \ {0}]
  BY ApWorkAssumption
<1> QED BY <1>1, <1>2, <1>3 DEF APs, Idles, Crew, Elems, Injective

LEMMA InitAInv == Init => AInv
<1> SUFFICES ASSUME Init PROVE AInv
  OBVIOUS
<1> USE Cast
<1>0. 0 \in Priorities /\ 0 \in Nat
  BY DispatcherAssumption DEF Priorities
<1>1. /\ state \in [Threads -> States] /\ onCpu \in [Threads -> CPUs \cup {None}]
      /\ prio \in [Threads -> Priorities] /\ mask \in [Threads -> SUBSET CPUs]
  BY <1>0 DEF Init, States
<1>2. /\ arrivals = <<>> /\ arrivals \in Seq(Threads) /\ ready \in [CPUs -> [Priorities -> Seq(Threads)]]
      /\ \A c \in CPUs, p \in Priorities : ready[c][p] = <<>>
  BY DEF Init
<1>3. Shapes
  BY <1>1, <1>2 DEF Init, Shapes, Places
<1>4. Live
  <2>1. \A t \in Threads : onCpu[t] # None => t = 0 /\ onCpu[t] = 0
    BY DEF Init
  <2>2. current[0] = 0 /\ pc[0] = "run" /\ online = {0} /\ onCpu[0] = 0
    BY DEF Init
  <2>3. \A c \in CPUs : outgoing[c] = None /\ (c # 0 => current[c] = None /\ pc[c] = "off")
    BY DEF Init
  <2> QED BY <2>1, <2>2, <2>3 DEF Live
<1>5. Masked
  BY DEF Init, Masked
<1>6. Sections
  <2>1. online = {0} /\ current[0] = 0 /\ pc[0] = "run" /\ Idle[0] \in Threads /\ Idle[0] # 0 /\ 0 \in Threads
    BY DEF Init
  <2>2. /\ state[0] = "RUNNING" /\ state[Idle[0]] = "READY"
        /\ \A t \in Threads : state[t] = "RUNNING" => t = 0
    BY <2>1 DEF Init
  <2>3. \A c \in CPUs : outgoing[c] = None
    BY DEF Init
  <2> QED BY ONLY <2>1, <2>2, <2>3 DEF Sections
<1>7. \A s : s = <<>> => Elems(s) = {} /\ Injective(s)
  BY DEF Elems, Injective
<1>8. \A t \in Threads \ Idles : state[t] # "READY"
  BY DEF Init
<1>9. Lists
  <2>1. Elems(arrivals) = {} /\ Injective(arrivals)
    BY <1>2, <1>7
  <2>2. \A c \in CPUs, p \in Priorities : Elems(ready[c][p]) = {} /\ Injective(ready[c][p])
    BY <1>2, <1>7
  <2> QED BY <1>8, <2>1, <2>2 DEF Lists, NoLostThread, Injective
<1>10. Machine
  BY DEF Init, Machine
<1>11. Records
  BY <1>0 DEF Init, Records, Blank, Ready
<1>12. pool = "PREPARED" /\ ~stop /\ done = {} /\ quitting = {} /\ bsp = Ready
  BY DEF Init
<1>13. /\ \A w \in Crew : doing[w] = None
       /\ \A s \in Slots : job[s].state = "FREE"
       /\ \A w \in Crew : state[w] = "NEW"
       /\ \A c \in CPUs : pc[c] # "leave"
  BY DEF Init, Blank
<1>14. \A c \in CPUs : c # 0 => state[Idle[c]] = "NEW"
  <2> TAKE c \in CPUs
  <2>1. Idle[c] # 0 /\ (c # 0 => Idle[c] # Idle[0])
    OBVIOUS
  <2> QED BY <2>1 DEF Init
<1>15. setting \in Settings
  BY DEF Init
<1>16. Leaving
  BY <1>12, <1>13, <1>14, <1>15 DEF Leaving
<1>17. Stages
  BY <1>12, <1>13 DEF Stages, Ready, Open
<1>18. Staffed /\ Owned /\ Covered
  BY <1>12, <1>13 DEF Staffed, Owned, Covered, Open
<1> QED BY <1>3, <1>4, <1>5, <1>6, <1>9, <1>10, <1>11, <1>16, <1>17, <1>18 DEF Init, AInv, DInv, NoPanic

-----------------------------------------------------------------------------
(* The dispatcher's invariant through wake-ups, admission and withdrawal. *)

\* Several threads that waited, or never ran, become READY in one section; those whose
\* stack is not live are linked.
Woke(up) ==
  /\ UNCHANGED <<onCpu, prio, current, outgoing, online, pc>> /\ ~panic'
  /\ up \in SUBSET Threads /\ \A w \in up : w \notin Idles
  /\ state' \in [Threads -> States] /\ mask' \in [Threads -> SUBSET CPUs]
  /\ \A w \in up : /\ state[w] \in {"NEW", "BLOCKED"} /\ state'[w] = "READY" /\ mask'[w] # {} /\ mask'[w] \subseteq online
                   /\ state[w] = "BLOCKED" => mask'[w] = mask[w]
  /\ \A t \in Threads \ up : state'[t] = state[t] /\ mask'[t] = mask[t]
  /\ arrivals' \in Seq(Threads) /\ Injective(arrivals')
  /\ \A u : u \in Elems(arrivals') <=> u \in Elems(arrivals) \/ u \in up
  /\ ready' \in [CPUs -> [Priorities -> Seq(Threads)]]
  /\ \A d \in CPUs, p \in Priorities :
       /\ Injective(ready'[d][p])
       /\ \A u : u \in Elems(ready'[d][p]) <=>
            u \in Elems(ready[d][p]) \/ (u \in up /\ onCpu[u] = None /\ prio[u] = p /\ d \in mask'[u])

LEMMA WakeKeeps ==
  ASSUME DInv, NEW up, Woke(up)
  PROVE  DInv'
<1>1. Shapes /\ Live /\ Masked /\ Sections /\ Lists
  BY DEF DInv
<1> USE DEF Woke
<1>2. \A w \in up : onCpu[w] # None => state[w] = "BLOCKED"
  BY AtRest
<1>3. \A d \in online : d \in CPUs /\ current[d] \in Threads /\ Idle[d] \in Threads /\ Idle[d] \notin up
  <2> TAKE d \in online
  <2>1. d \in CPUs
    BY <1>1 DEF Shapes
  <2>2. Idle[d] \in Threads /\ Idle[d] \in Idles
    BY <2>1, Cast
  <2> QED BY <1>1, <2>1, <2>2, LiveOn
<1>4. \A d \in online : current[d] \in up => pc[d] = "schedule"
  <2>0. SUFFICES ASSUME NEW d \in online, current[d] \in up
                 PROVE  pc[d] = "schedule"
    OBVIOUS
  <2>1. d \in CPUs /\ onCpu[current[d]] = d /\ d # None
    BY <1>1, <1>3, LiveOn
  <2>2. state[current[d]] = "BLOCKED"
    BY <1>2, <2>0, <2>1
  <2>3. pc[d] \notin {"run", "tick", "switch", "leave"}
    BY <1>1, <2>2 DEF Sections
  <2>4. pc[d] # "exit"
    BY <1>1, <2>2 DEF Sections
  <2>5. pc[d] \in Places /\ pc[d] \notin {"off", "finish"}
    BY <1>1, <2>1, LiveOn DEF Shapes
  <2> QED BY <2>3, <2>4, <2>5 DEF Places
<1>a. \A d \in online : current[d] \in up \/ state'[current[d]] = state[current[d]]
  BY <1>3
<1>b. \A d \in online : state'[Idle[d]] = state[Idle[d]] /\ mask'[Idle[d]] = mask[Idle[d]]
  BY <1>3
<1>c. \A t \in Threads : state'[t] = IF t \in up THEN "READY" ELSE state[t]
  OBVIOUS
<1>6. Shapes'
  BY <1>1 DEF Shapes
<1>7. Live'
  BY <1>1 DEF Live
<1>8. Masked'
  <2>1. (\A x \in Threads : onCpu[x] # None => onCpu[x] \in mask[x])'
    BY <1>1, <1>2 DEF Masked
  <2>2. (\A x \in Threads : onCpu[x] # None \/ state[x] \in {"READY", "RUNNING", "BLOCKED"} => mask[x] # {} /\ mask[x] \subseteq online)'
    <3>1. \A x \in Threads : onCpu[x] # None \/ state[x] \in {"READY", "RUNNING", "BLOCKED"} => mask[x] # {} /\ mask[x] \subseteq online
      BY <1>1 DEF Masked
    <3> QED BY <1>2, <3>1
  <2>3. (\A d \in online : mask[Idle[d]] = {d})'
    BY <1>1, <1>b DEF Masked
  <2>4. (\A d \in CPUs : onCpu[Idle[d]] \in {None, d})'
    BY <1>1 DEF Masked
  <2> QED BY ONLY <2>1, <2>2, <2>3, <2>4 DEF Masked
<1>9. Sections'
  <2>0. UNCHANGED <<current, outgoing, online, pc>>
    OBVIOUS
  <2>1. (\A x \in Threads : state[x] = "RUNNING" => \E d \in online : current[d] = x)'
    BY <1>1, <1>c DEF Sections
  <2>2. (\A d \in online : pc[d] \in {"run", "tick", "switch", "leave"} => state[current[d]] = "RUNNING")'
    <3>1. \A d \in online : pc[d] \in {"run", "tick", "switch", "leave"} => state[current[d]] = "RUNNING"
      BY <1>1 DEF Sections
    <3> QED BY ONLY <1>4, <1>a, <2>0, <3>1
  <2>3. (\A d \in online : pc[d] = "exit" => state[current[d]] = "ZOMBIE")'
    <3>1. \A d \in online : pc[d] = "exit" => state[current[d]] = "ZOMBIE"
      BY <1>1 DEF Sections
    <3> QED BY ONLY <1>4, <1>a, <2>0, <3>1
  <2>4. (\A d \in online : state[current[d]] \in {"RUNNING", "READY", "BLOCKED", "ZOMBIE"})'
    <3>1. \A d \in online : state[current[d]] \in {"RUNNING", "READY", "BLOCKED", "ZOMBIE"}
      BY <1>1 DEF Sections
    <3> QED BY ONLY <1>3, <1>c, <2>0, <3>1
  <2>5. (\A d \in CPUs : outgoing[d] # None => state[outgoing[d]] \in {"READY", "BLOCKED", "ZOMBIE"})'
    <3>1. \A d \in CPUs : outgoing[d] # None => state[outgoing[d]] \in {"READY", "BLOCKED", "ZOMBIE"}
      BY <1>1 DEF Sections
    <3>2. \A d \in CPUs : outgoing[d] # None => outgoing[d] \in Threads
      BY <1>1, LiveOn
    <3> QED BY ONLY <1>c, <2>0, <3>1, <3>2
  <2>6. (\A d \in online : state[Idle[d]] = IF current[d] = Idle[d] THEN "RUNNING" ELSE "READY")'
    <3>1. \A d \in online : state[Idle[d]] = IF current[d] = Idle[d] THEN "RUNNING" ELSE "READY"
      BY <1>1 DEF Sections
    <3> QED BY ONLY <1>b, <2>0, <3>1
  <2> QED BY ONLY <2>1, <2>2, <2>3, <2>4, <2>5, <2>6 DEF Sections
<1>11. Lists'
  <2>1. ASSUME NEW x \in Threads \ Idles, state'[x] = "READY", onCpu[x] = None
        PROVE  \E d \in mask'[x] : x \in Elems(ready'[d][prio[x]])
    <3>0. prio[x] \in Priorities /\ mask'[x] \subseteq CPUs
      BY <1>1 DEF Shapes
    <3>1. CASE x \in up
      <4>1. PICK d \in mask'[x] : TRUE
        BY <3>1
      <4>2. d \in CPUs
        BY <3>0
      <4>3. x \in Elems(ready'[d][prio[x]])
        BY <2>1, <3>0, <3>1, <4>2
      <4> QED BY <4>3
    <3>2. CASE x \notin up
      <4>1. state[x] = "READY" /\ mask'[x] = mask[x]
        BY <2>1, <3>2
      <4>2. PICK d \in mask[x] : x \in Elems(ready[d][prio[x]])
        BY <1>1, <2>1, <4>1 DEF Lists, NoLostThread
      <4>3. x \in Elems(ready'[d][prio[x]])
        BY <3>0, <4>1, <4>2
      <4> QED BY <4>1, <4>3
    <3> QED BY <3>1, <3>2
  <2>2. ASSUME NEW d \in CPUs, NEW p \in Priorities, NEW x \in Elems(ready'[d][p])
        PROVE  /\ state'[x] = "READY" /\ prio[x] = p /\ d \in online /\ mask'[x] \subseteq online /\ d \in mask'[x]
               /\ onCpu[x] = None /\ x \notin Idles
    <3>1. CASE x \in Elems(ready[d][p])
      <4>1. /\ x \in Threads \ Idles /\ state[x] = "READY" /\ prio[x] = p /\ onCpu[x] = None
            /\ d \in online /\ d \in mask[x] /\ mask[x] \subseteq online
        BY <1>1, <3>1, Linked
      <4>2. x \notin up
        BY <4>1
      <4> QED BY <4>1, <4>2
    <3>2. CASE x \notin Elems(ready[d][p])
      <4>1. x \in up /\ onCpu[x] = None /\ prio[x] = p /\ d \in mask'[x]
        BY <2>2, <3>2
      <4> QED BY <4>1
    <3> QED BY <3>1, <3>2
  <2>3. \A d \in CPUs, p \in Priorities : \A i, j \in DOMAIN ready'[d][p] : ready'[d][p][i] = ready'[d][p][j] => i = j
    <3>1. \A d \in CPUs, p \in Priorities : Injective(ready'[d][p])
      OBVIOUS
    <3> QED BY <3>1 DEF Injective
  <2>4. NoLostThread'
    <3>1. UNCHANGED <<onCpu, prio, online>>
      OBVIOUS
    <3> QED BY ONLY <2>1, <2>2, <2>3, <3>1 DEF NoLostThread
  <2>5. (Injective(arrivals) /\ Elems(arrivals) = {x \in Threads \ Idles : state[x] = "READY"})'
    <3>1. \A u : u \in Elems(arrivals) <=> u \in Threads \ Idles /\ state[u] = "READY"
      BY <1>1 DEF Lists
    <3>2. \A u : u \in Elems(arrivals') <=> u \in Elems(arrivals) \/ u \in up
      OBVIOUS
    <3>3. \A u : u \in Elems(arrivals') <=> u \in Threads \ Idles /\ state'[u] = "READY"
      BY <1>c, <3>1, <3>2
    <3> QED BY <3>3
  <2>6. (\A d \in CPUs, p \in Priorities : \A x \in Elems(ready[d][p]) : onCpu[x] = None /\ x \notin Idles)'
    BY <2>2
  <2> QED BY ONLY <2>4, <2>5, <2>6 DEF Lists
<1> QED BY <1>6, <1>7, <1>8, <1>9, <1>11 DEF DInv, NoPanic

\* A CPU joins on its idle stack, or leaves from it while nobody waits for the CPU.
LEMMA AdmitKeeps ==
  ASSUME AInv, NEW c \in APs, Admit(c)
  PROVE  DInv'
<1>1. Shapes /\ Live /\ Masked /\ Sections /\ Lists /\ ~panic /\ setting \in Settings
  BY DEF AInv, DInv, NoPanic, Records
<1>0. c \in CPUs /\ c # 0 /\ Idle[c] \in Threads /\ Idle[c] \in Idles /\ c # None
  BY <1>1, Cast
<1> DEFINE i == Idle[c]
<1>2. /\ pc[c] = "off" /\ c \notin done /\ state' = [state EXCEPT ![i] = "RUNNING"] /\ mask' = [mask EXCEPT ![i] = {c}]
      /\ onCpu' = [onCpu EXCEPT ![i] = c] /\ current' = [current EXCEPT ![c] = i] /\ online' = online \cup {c}
      /\ pc' = [pc EXCEPT ![c] = "run"] /\ UNCHANGED <<prio, arrivals, ready, outgoing>>
      /\ panic' = (panic \/ state[i] # "NEW" \/ onCpu[i] # None \/ QueuedOn(c) # {})
  BY DEF Admit, waiting
<1>3. c \notin online /\ outgoing[c] = None /\ current[c] = None
  BY <1>0, <1>1, <1>2, LiveOn
<1>4. state[i] = "NEW" /\ onCpu[i] = None
  <2>1. pool # "none"
    BY <1>2 DEF AInv, Leaving
  <2>2. state[i] = "NEW"
    BY <1>3, <2>1 DEF AInv, Leaving
  <2> QED BY <1>0, <2>2, AtRest DEF AInv
<1>5. \A p \in Priorities : Elems(ready[c][p]) = {}
  BY <1>0, <1>1, <1>3, Linked
<1>6. ~panic'
  BY <1>1, <1>2, <1>4, <1>5 DEF QueuedOn
<1>7. /\ \A d \in online : d # c /\ current[d] # i /\ current[d] \in Threads /\ Idle[d] # i /\ Idle[d] \in Threads /\ d \in CPUs
      /\ \A d \in CPUs : outgoing[d] # None => outgoing[d] # i /\ outgoing[d] \in Threads /\ d # c
  <2>1. ASSUME NEW d \in online
        PROVE  d # c /\ current[d] # i /\ current[d] \in Threads /\ Idle[d] # i /\ Idle[d] \in Threads /\ d \in CPUs
    <3>1. d \in CPUs
      BY <1>1 DEF Shapes
    <3> QED BY <1>0, <1>1, <1>3, <1>4, <2>1, <3>1, LiveOn, Cast
  <2>2. ASSUME NEW d \in CPUs, outgoing[d] # None
        PROVE  outgoing[d] # i /\ outgoing[d] \in Threads /\ d # c
    BY <1>1, <1>3, <1>4, <2>2, LiveOn
  <2> QED BY <2>1, <2>2
<1>8. /\ \A t \in Threads : t # i => state'[t] = state[t] /\ mask'[t] = mask[t] /\ onCpu'[t] = onCpu[t]
      /\ state'[i] = "RUNNING" /\ mask'[i] = {c} /\ onCpu'[i] = c
      /\ \A d \in CPUs : d # c => current'[d] = current[d] /\ pc'[d] = pc[d]
      /\ current'[c] = i /\ pc'[c] = "run"
  BY <1>0, <1>1, <1>2 DEF Shapes
<1>9. Shapes'
  BY <1>0, <1>1, <1>2 DEF Shapes, States, Places
<1>s. /\ online' = online \cup {c} /\ UNCHANGED <<prio, arrivals, ready, outgoing>> /\ online \subseteq CPUs
  BY <1>1, <1>2 DEF Shapes
<1> HIDE DEF i
<1>10. Live'
  <2>1. (\A d \in CPUs : current[d] # None <=> d \in online)'
    <3>1. \A d \in CPUs : current[d] # None <=> d \in online
      BY <1>1 DEF Live
    <3>2. i # None
      BY <1>0, Cast DEF i
    <3> QED BY ONLY <1>0, <1>8, <1>s, <3>1, <3>2
  <2>2. (\A d \in CPUs : pc[d] \notin {"off", "finish"} <=> d \in online)'
    <3>1. \A d \in CPUs : pc[d] \notin {"off", "finish"} <=> d \in online
      BY <1>1 DEF Live
    <3> QED BY ONLY <1>0, <1>8, <1>s, <3>1
  <2>3. (\A d \in CPUs : outgoing[d] # None <=> pc[d] = "switch")'
    <3>1. \A d \in CPUs : outgoing[d] # None <=> pc[d] = "switch"
      BY <1>1 DEF Live
    <3> QED BY ONLY <1>0, <1>3, <1>8, <1>s, <3>1
  <2>4. (\A d \in online : onCpu[current[d]] = d)'
    <3>1. \A d \in online : onCpu[current[d]] = d
      BY <1>1 DEF Live
    <3> QED BY ONLY <1>0, <1>7, <1>8, <1>s, <3>1
  <2>5. (\A d \in CPUs : outgoing[d] # None => onCpu[outgoing[d]] = d /\ outgoing[d] # current[d])'
    <3>1. \A d \in CPUs : outgoing[d] # None => onCpu[outgoing[d]] = d /\ outgoing[d] # current[d]
      BY <1>1 DEF Live
    <3> QED BY ONLY <1>7, <1>8, <1>s, <3>1
  <2>6. (\A t \in Threads : onCpu[t] # None => t \in {current[onCpu[t]], outgoing[onCpu[t]]})'
    <3>1. ASSUME NEW t \in Threads, t # i, onCpu[t] # None
          PROVE  t \in {current'[onCpu[t]], outgoing'[onCpu[t]]}
      <4>1. onCpu[t] \in CPUs
        BY <1>1, <3>1 DEF Shapes
      <4>2. t = current[onCpu[t]] \/ t = outgoing[onCpu[t]]
        BY <1>1, <4>1, LiveOn
      <4>3. onCpu[t] # c
        BY <1>3, <4>2, Cast
      <4> QED BY <1>8, <1>s, <4>1, <4>2, <4>3
    <3>2. i \in {current'[c], outgoing'[c]}
      BY <1>8
    <3> QED BY <1>8, <3>1, <3>2
  <2> QED BY ONLY <2>1, <2>2, <2>3, <2>4, <2>5, <2>6 DEF Live
<1>11. Masked'
  <2>1. (\A t \in Threads : onCpu[t] # None => onCpu[t] \in mask[t])'
    BY <1>1, <1>8 DEF Masked
  <2>2. (\A t \in Threads : onCpu[t] # None \/ state[t] \in {"READY", "RUNNING", "BLOCKED"} => mask[t] # {} /\ mask[t] \subseteq online)'
    <3>1. \A t \in Threads : onCpu[t] # None \/ state[t] \in {"READY", "RUNNING", "BLOCKED"} => mask[t] # {} /\ mask[t] \subseteq online
      BY <1>1 DEF Masked
    <3> QED BY ONLY <1>8, <1>s, <3>1
  <2>3. (\A d \in online : mask[Idle[d]] = {d})'
    <3>1. \A d \in online : mask[Idle[d]] = {d}
      BY <1>1 DEF Masked
    <3>2. i = Idle[c]
      BY DEF i
    <3> QED BY ONLY <1>7, <1>8, <1>s, <3>1, <3>2
  <2>4. (\A d \in CPUs : onCpu[Idle[d]] \in {None, d})'
    <3>1. \A d \in CPUs : onCpu[Idle[d]] \in {None, d}
      BY <1>1 DEF Masked
    <3>2. \A d \in CPUs : Idle[d] \in Threads /\ (Idle[d] = i => d = c)
      BY <1>0, Cast DEF i
    <3> QED BY ONLY <1>8, <3>1, <3>2
  <2> QED BY ONLY <2>1, <2>2, <2>3, <2>4 DEF Masked
<1>12. Sections'
  <2>0. i = Idle[c] /\ i \in Threads
    BY <1>0 DEF i
  <2>1. (\A t \in Threads : state[t] = "RUNNING" => \E d \in online : current[d] = t)'
    <3>1. ASSUME NEW t \in Threads, state'[t] = "RUNNING"
          PROVE  \E d \in online' : current'[d] = t
      <4>1. CASE t = i
        BY <1>8, <1>s, <4>1
      <4>2. CASE t # i
        <5>1. PICK d \in online : current[d] = t
          BY <1>1, <1>8, <3>1, <4>2 DEF Sections
        <5> QED BY <1>7, <1>8, <1>s, <5>1
      <4> QED BY <4>1, <4>2
    <3> QED BY <3>1
  <2>2. (\A d \in online : pc[d] \in {"run", "tick", "switch", "leave"} => state[current[d]] = "RUNNING")'
    <3>1. \A d \in online : pc[d] \in {"run", "tick", "switch", "leave"} => state[current[d]] = "RUNNING"
      BY <1>1 DEF Sections
    <3> QED BY ONLY <1>7, <1>8, <1>s, <3>1
  <2>3. (\A d \in online : pc[d] = "exit" => state[current[d]] = "ZOMBIE")'
    <3>1. \A d \in online : pc[d] = "exit" => state[current[d]] = "ZOMBIE"
      BY <1>1 DEF Sections
    <3> QED BY ONLY <1>7, <1>8, <1>s, <3>1
  <2>4. (\A d \in online : state[current[d]] \in {"RUNNING", "READY", "BLOCKED", "ZOMBIE"})'
    <3>1. \A d \in online : state[current[d]] \in {"RUNNING", "READY", "BLOCKED", "ZOMBIE"}
      BY <1>1 DEF Sections
    <3> QED BY ONLY <1>7, <1>8, <1>s, <3>1
  <2>5. (\A d \in CPUs : outgoing[d] # None => state[outgoing[d]] \in {"READY", "BLOCKED", "ZOMBIE"})'
    <3>1. \A d \in CPUs : outgoing[d] # None => state[outgoing[d]] \in {"READY", "BLOCKED", "ZOMBIE"}
      BY <1>1 DEF Sections
    <3> QED BY ONLY <1>7, <1>8, <1>s, <3>1
  <2>6. (\A d \in online : state[Idle[d]] = IF current[d] = Idle[d] THEN "RUNNING" ELSE "READY")'
    <3>1. \A d \in online : state[Idle[d]] = IF current[d] = Idle[d] THEN "RUNNING" ELSE "READY"
      BY <1>1 DEF Sections
    <3> QED BY ONLY <1>7, <1>8, <1>s, <2>0, <3>1
  <2> QED BY ONLY <2>1, <2>2, <2>3, <2>4, <2>5, <2>6 DEF Sections
<1>13. Lists'
  <2>0. i \in Idles
    BY <1>0 DEF i
  <2>1. ASSUME NEW x \in Threads \ Idles, state'[x] = "READY", onCpu'[x] = None
        PROVE  \E d \in mask'[x] : x \in Elems(ready[d][prio[x]])
    BY <1>1, <1>8, <2>0, <2>1 DEF Lists, NoLostThread
  <2>2. ASSUME NEW d \in CPUs, NEW p \in Priorities, NEW x \in Elems(ready[d][p])
        PROVE  /\ state'[x] = "READY" /\ prio[x] = p /\ d \in online' /\ mask'[x] \subseteq online' /\ d \in mask'[x]
               /\ onCpu'[x] = None /\ x \notin Idles
    <3>1. /\ x \in Threads \ Idles /\ state[x] = "READY" /\ prio[x] = p /\ onCpu[x] = None
          /\ d \in online /\ d \in mask[x] /\ mask[x] \subseteq online
      BY <1>1, <2>2, Linked
    <3> QED BY <1>8, <1>s, <2>0, <3>1
  <2>3. \A d \in CPUs, p \in Priorities : \A k, l \in DOMAIN ready[d][p] : ready[d][p][k] = ready[d][p][l] => k = l
    BY <1>1 DEF Lists, NoLostThread
  <2>4. NoLostThread'
    BY ONLY <1>s, <2>1, <2>2, <2>3 DEF NoLostThread
  <2>5. (Injective(arrivals) /\ Elems(arrivals) = {x \in Threads \ Idles : state[x] = "READY"})'
    <3>1. Injective(arrivals) /\ \A u : u \in Elems(arrivals) <=> u \in Threads \ Idles /\ state[u] = "READY"
      BY <1>1 DEF Lists
    <3>2. arrivals' = arrivals /\ \A u \in Threads \ Idles : state'[u] = state[u]
      BY <1>8, <1>s, <2>0
    <3> QED BY <3>1, <3>2
  <2>6. (\A d \in CPUs, p \in Priorities : \A x \in Elems(ready[d][p]) : onCpu[x] = None /\ x \notin Idles)'
    BY <1>s, <2>2
  <2> QED BY ONLY <2>4, <2>5, <2>6 DEF Lists
<1> QED BY <1>6, <1>9, <1>10, <1>11, <1>12, <1>13 DEF DInv, NoPanic

LEMMA WithdrawKeeps ==
  ASSUME AInv, NEW c \in APs, Withdraw(c)
  PROVE  DInv'
<1>1. Shapes /\ Live /\ Masked /\ Sections /\ Lists /\ ~panic /\ setting \in Settings
  BY DEF AInv, DInv, NoPanic, Records
<1>0. c \in CPUs /\ c # 0 /\ Idle[c] \in Threads /\ Idle[c] \in Idles /\ c # None
  BY <1>1, Cast
<1> DEFINE i == Idle[c]
<1>2. /\ pc[c] = "leave" /\ state' = [state EXCEPT ![i] = "NEW"] /\ mask' = [mask EXCEPT ![i] = {0}]
      /\ onCpu' = [onCpu EXCEPT ![i] = None] /\ current' = [current EXCEPT ![c] = None] /\ online' = online \ {c}
      /\ pc' = [pc EXCEPT ![c] = "finish"] /\ UNCHANGED <<prio, arrivals, ready, outgoing>>
      /\ panic' = (panic \/ ~(/\ current[c] = i /\ state[i] = "RUNNING" /\ onCpu[i] = c
                              /\ outgoing[c] = None /\ QueuedOn(c) = {}))
  BY DEF Withdraw, waiting
<1>3. current[c] = i /\ stop /\ Ended
  BY <1>0, <1>2 DEF AInv, Leaving, Stages
<1>4. c \in online /\ outgoing[c] = None /\ onCpu[i] = c
  BY <1>0, <1>1, <1>2, <1>3, LiveOn
<1>5. state[i] = "RUNNING"
  BY <1>1, <1>2, <1>3, <1>4 DEF Sections
<1>6. pool # "none"
  <2>1. c \notin done
    BY <1>0, <1>2 DEF AInv, Leaving
  <2> QED BY <2>1 DEF AInv, Leaving
<1>7. ASSUME NEW t \in Threads, t # i, onCpu[t] # None \/ state[t] \in {"READY", "RUNNING", "BLOCKED"}
      PROVE  c \notin mask[t] /\ t \notin Crew
  <2>1. state[t] \notin {"FREE", "NEW"} /\ t \notin Crew
    BY <1>3, <1>7, AtRest DEF AInv, Ended
  <2>2. t = 0 \/ t \in Idles
    BY <2>1 DEF AInv, Machine
  <2>3. CASE t = 0
    BY <1>0, <2>1, <2>3 DEF AInv, Machine
  <2>4. CASE t \in Idles
    <3>1. PICK d \in CPUs : t = Idle[d]
      BY <2>4 DEF Idles
    <3>2. d # c
      BY <1>7, <3>1 DEF i
    <3>3. d \in online
      <4>1. d \in APs \/ d = 0
        BY <2>1, <3>1 DEF AInv, Machine
      <4>2. d \in APs => d \in online
        BY <1>6, <2>1, <3>1 DEF AInv, Leaving
      <4> QED BY <4>1, <4>2 DEF AInv, Machine
    <3>4. mask[t] = {d}
      BY <1>1, <3>1, <3>3 DEF Masked
    <3> QED BY <2>1, <3>2, <3>4
  <2> QED BY <2>2, <2>3, <2>4
<1>8. \A p \in Priorities : Elems(ready[c][p]) = {}
  <2>1. ASSUME NEW p \in Priorities, NEW t \in Elems(ready[c][p])
        PROVE  FALSE
    <3>1. t \in Threads \ Idles /\ state[t] = "READY" /\ c \in mask[t]
      BY <1>0, <1>1, <2>1, Linked
    <3> QED BY <1>0, <1>7, <3>1
  <2> QED BY <2>1
<1>9. ~panic'
  BY <1>1, <1>2, <1>3, <1>4, <1>5, <1>8 DEF QueuedOn
<1>10. /\ \A d \in online \ {c} : current[d] # i /\ current[d] \in Threads /\ Idle[d] # i /\ Idle[d] \in Threads /\ d \in CPUs
       /\ \A d \in CPUs : outgoing[d] # None => outgoing[d] # i /\ outgoing[d] \in Threads /\ d # c
  <2>1. ASSUME NEW d \in online \ {c}
        PROVE  current[d] # i /\ current[d] \in Threads /\ Idle[d] # i /\ Idle[d] \in Threads /\ d \in CPUs
    <3>1. d \in CPUs
      BY <1>1 DEF Shapes
    <3> QED BY <1>0, <1>1, <1>4, <2>1, <3>1, LiveOn, Cast
  <2>2. ASSUME NEW d \in CPUs, outgoing[d] # None
        PROVE  outgoing[d] # i /\ outgoing[d] \in Threads /\ d # c
    BY <1>1, <1>3, <1>4, <2>2, LiveOn
  <2> QED BY <2>1, <2>2
<1>11. /\ \A t \in Threads : t # i => state'[t] = state[t] /\ mask'[t] = mask[t] /\ onCpu'[t] = onCpu[t]
       /\ state'[i] = "NEW" /\ onCpu'[i] = None
       /\ \A d \in CPUs : d # c => current'[d] = current[d] /\ pc'[d] = pc[d]
       /\ current'[c] = None /\ pc'[c] = "finish"
  BY <1>0, <1>1, <1>2 DEF Shapes
<1>12. Shapes'
  <2>1. {0} \in SUBSET CPUs
    BY Cast
  <2> QED BY <1>0, <1>1, <1>2, <2>1 DEF Shapes, States, Places
<1>s. /\ online' = online \ {c} /\ UNCHANGED <<prio, arrivals, ready, outgoing>> /\ online \subseteq CPUs
  BY <1>1, <1>2 DEF Shapes
<1>i. i \in Idles /\ i \in Threads /\ i # None /\ i = Idle[c] /\ \A d \in CPUs : Idle[d] \in Threads /\ (Idle[d] = i => d = c)
  BY <1>0, Cast
<1> HIDE DEF i
<1>13. Live'
  <2>1. (\A d \in CPUs : current[d] # None <=> d \in online)'
    <3>1. \A d \in CPUs : current[d] # None <=> d \in online
      BY <1>1 DEF Live
    <3> QED BY ONLY <1>0, <1>11, <1>s, <3>1
  <2>2. (\A d \in CPUs : pc[d] \notin {"off", "finish"} <=> d \in online)'
    <3>1. \A d \in CPUs : pc[d] \notin {"off", "finish"} <=> d \in online
      BY <1>1 DEF Live
    <3> QED BY ONLY <1>0, <1>11, <1>s, <3>1
  <2>3. (\A d \in CPUs : outgoing[d] # None <=> pc[d] = "switch")'
    <3>1. \A d \in CPUs : outgoing[d] # None <=> pc[d] = "switch"
      BY <1>1 DEF Live
    <3> QED BY ONLY <1>0, <1>4, <1>11, <1>s, <3>1
  <2>4. (\A d \in online : onCpu[current[d]] = d)'
    <3>1. \A d \in online : onCpu[current[d]] = d
      BY <1>1 DEF Live
    <3> QED BY ONLY <1>0, <1>10, <1>11, <1>s, <3>1
  <2>5. (\A d \in CPUs : outgoing[d] # None => onCpu[outgoing[d]] = d /\ outgoing[d] # current[d])'
    <3>1. \A d \in CPUs : outgoing[d] # None => onCpu[outgoing[d]] = d /\ outgoing[d] # current[d]
      BY <1>1 DEF Live
    <3> QED BY ONLY <1>10, <1>11, <1>s, <3>1
  <2>6. (\A t \in Threads : onCpu[t] # None => t \in {current[onCpu[t]], outgoing[onCpu[t]]})'
    <3>1. ASSUME NEW t \in Threads, t # i, onCpu[t] # None
          PROVE  t \in {current'[onCpu[t]], outgoing'[onCpu[t]]}
      <4>1. onCpu[t] \in CPUs
        BY <1>1, <3>1 DEF Shapes
      <4>2. t = current[onCpu[t]] \/ t = outgoing[onCpu[t]]
        BY <1>1, <4>1, LiveOn
      <4>3. onCpu[t] # c
        BY <1>3, <1>4, <3>1, <4>2, Cast
      <4> QED BY <1>11, <1>s, <4>1, <4>2, <4>3
    <3> QED BY <1>11, <3>1
  <2> QED BY ONLY <2>1, <2>2, <2>3, <2>4, <2>5, <2>6 DEF Live
<1>14. Masked'
  <2>1. (\A t \in Threads : onCpu[t] # None => onCpu[t] \in mask[t])'
    BY <1>1, <1>11 DEF Masked
  <2>2. (\A t \in Threads : onCpu[t] # None \/ state[t] \in {"READY", "RUNNING", "BLOCKED"} => mask[t] # {} /\ mask[t] \subseteq online)'
    <3>1. \A t \in Threads : onCpu[t] # None \/ state[t] \in {"READY", "RUNNING", "BLOCKED"} => mask[t] # {} /\ mask[t] \subseteq online
      BY <1>1 DEF Masked
    <3> QED BY ONLY <1>7, <1>11, <1>s, <3>1
  <2>3. (\A d \in online : mask[Idle[d]] = {d})'
    <3>1. \A d \in online : mask[Idle[d]] = {d}
      BY <1>1 DEF Masked
    <3> QED BY ONLY <1>10, <1>11, <1>s, <3>1
  <2>4. (\A d \in CPUs : onCpu[Idle[d]] \in {None, d})'
    <3>1. \A d \in CPUs : onCpu[Idle[d]] \in {None, d}
      BY <1>1 DEF Masked
    <3> QED BY ONLY <1>11, <1>i, <3>1
  <2> QED BY ONLY <2>1, <2>2, <2>3, <2>4 DEF Masked
<1>15. Sections'
  <2>1. (\A t \in Threads : state[t] = "RUNNING" => \E d \in online : current[d] = t)'
    <3>1. ASSUME NEW t \in Threads, state'[t] = "RUNNING"
          PROVE  \E d \in online' : current'[d] = t
      <4>1. t # i /\ state[t] = "RUNNING"
        BY <1>11, <3>1
      <4>2. PICK d \in online : current[d] = t
        BY <1>1, <4>1 DEF Sections
      <4>3. d # c
        BY <1>3, <4>1, <4>2
      <4> QED BY <1>11, <1>s, <4>2, <4>3
    <3> QED BY <3>1
  <2>2. (\A d \in online : pc[d] \in {"run", "tick", "switch", "leave"} => state[current[d]] = "RUNNING")'
    <3>1. \A d \in online : pc[d] \in {"run", "tick", "switch", "leave"} => state[current[d]] = "RUNNING"
      BY <1>1 DEF Sections
    <3> QED BY ONLY <1>10, <1>11, <1>s, <3>1
  <2>3. (\A d \in online : pc[d] = "exit" => state[current[d]] = "ZOMBIE")'
    <3>1. \A d \in online : pc[d] = "exit" => state[current[d]] = "ZOMBIE"
      BY <1>1 DEF Sections
    <3> QED BY ONLY <1>10, <1>11, <1>s, <3>1
  <2>4. (\A d \in online : state[current[d]] \in {"RUNNING", "READY", "BLOCKED", "ZOMBIE"})'
    <3>1. \A d \in online : state[current[d]] \in {"RUNNING", "READY", "BLOCKED", "ZOMBIE"}
      BY <1>1 DEF Sections
    <3> QED BY ONLY <1>10, <1>11, <1>s, <3>1
  <2>5. (\A d \in CPUs : outgoing[d] # None => state[outgoing[d]] \in {"READY", "BLOCKED", "ZOMBIE"})'
    <3>1. \A d \in CPUs : outgoing[d] # None => state[outgoing[d]] \in {"READY", "BLOCKED", "ZOMBIE"}
      BY <1>1 DEF Sections
    <3> QED BY ONLY <1>10, <1>11, <1>s, <3>1
  <2>6. (\A d \in online : state[Idle[d]] = IF current[d] = Idle[d] THEN "RUNNING" ELSE "READY")'
    <3>1. \A d \in online : state[Idle[d]] = IF current[d] = Idle[d] THEN "RUNNING" ELSE "READY"
      BY <1>1 DEF Sections
    <3> QED BY ONLY <1>10, <1>11, <1>s, <3>1
  <2> QED BY ONLY <2>1, <2>2, <2>3, <2>4, <2>5, <2>6 DEF Sections
<1>16. Lists'
  <2>1. ASSUME NEW x \in Threads \ Idles, state'[x] = "READY", onCpu'[x] = None
        PROVE  \E d \in mask'[x] : x \in Elems(ready[d][prio[x]])
    BY <1>1, <1>11, <1>i, <2>1 DEF Lists, NoLostThread
  <2>2. ASSUME NEW d \in CPUs, NEW p \in Priorities, NEW x \in Elems(ready[d][p])
        PROVE  /\ state'[x] = "READY" /\ prio[x] = p /\ d \in online' /\ mask'[x] \subseteq online' /\ d \in mask'[x]
               /\ onCpu'[x] = None /\ x \notin Idles
    <3>1. /\ x \in Threads \ Idles /\ state[x] = "READY" /\ prio[x] = p /\ onCpu[x] = None
          /\ d \in online /\ d \in mask[x] /\ mask[x] \subseteq online
      BY <1>1, <2>2, Linked
    <3>2. c \notin mask[x] /\ x # i
      BY <1>7, <1>i, <3>1
    <3> QED BY <1>11, <1>s, <3>1, <3>2
  <2>3. \A d \in CPUs, p \in Priorities : \A k, l \in DOMAIN ready[d][p] : ready[d][p][k] = ready[d][p][l] => k = l
    BY <1>1 DEF Lists, NoLostThread
  <2>4. NoLostThread'
    BY ONLY <1>s, <2>1, <2>2, <2>3 DEF NoLostThread
  <2>5. (Injective(arrivals) /\ Elems(arrivals) = {x \in Threads \ Idles : state[x] = "READY"})'
    <3>1. Injective(arrivals) /\ \A u : u \in Elems(arrivals) <=> u \in Threads \ Idles /\ state[u] = "READY"
      BY <1>1 DEF Lists
    <3>2. arrivals' = arrivals /\ \A u \in Threads \ Idles : state'[u] = state[u]
      BY <1>11, <1>s, <1>i
    <3> QED BY <3>1, <3>2
  <2>6. (\A d \in CPUs, p \in Priorities : \A x \in Elems(ready[d][p]) : onCpu[x] = None /\ x \notin Idles)'
    BY <1>s, <2>2
  <2> QED BY ONLY <2>4, <2>5, <2>6 DEF Lists
<1> QED BY <1>9, <1>12, <1>13, <1>14, <1>15, <1>16 DEF DInv, NoPanic

\* What the signal does to the threads, and that every KASSERT under its ticket holds.
LEMMA SignalWakes ==
  ASSUME AInv, Signal
  PROVE  Woke(Started \cup Woken)
<1>1. Shapes /\ Live /\ Masked /\ Sections /\ Lists /\ ~panic /\ setting \in Settings
  BY DEF AInv, DInv, NoPanic, Records
<1> DEFINE up == Started \cup Woken
           masks == [t \in Threads |-> IF t \in Started THEN {setting.home[t]} ELSE mask[t]]
           linked(c, p) == {w \in Publishable(up) : prio[w] = p /\ c \in masks[w]}
<1>2. /\ bsp.at = "signal" /\ state' = [t \in Threads |-> IF t \in up THEN "READY" ELSE state[t]] /\ mask' = masks
      /\ arrivals' = Those(arrivals, Threads \ up) \o Those(Workers, up)
      /\ ready' = [c \in CPUs |-> [p \in Priorities |-> ready[c][p] \o Those(Workers, linked(c, p))]]
      /\ panic' = (panic \/ \E w \in up : ~(masks[w] \subseteq online) \/ Queued(w) \/ (w \in Started /\ onCpu[w] # None))
      /\ UNCHANGED <<onCpu, prio, current, outgoing, online, pc>>
  BY DEF Signal, cpus
<1>3. APs \subseteq online
  <2>1. pool \in Open
    BY <1>2 DEF AInv, Stages
  <2>2. ~stop
    BY <1>2, <2>1 DEF AInv, Stages
  <2> QED BY <2>1, <2>2 DEF AInv, Stages
<1>4. /\ up \subseteq Crew /\ up \in SUBSET Threads /\ \A w \in up : w \notin Idles
      /\ \A w \in Started : state[w] = "NEW" /\ setting.home[w] \in APs
      /\ \A w \in Woken : state[w] = "BLOCKED"
  BY <1>1, Cast DEF Started, Woken
<1>5. \A t \in Threads : mask'[t] = (IF t \in Started THEN {setting.home[t]} ELSE mask[t]) /\ masks[t] = mask'[t]
  BY <1>2
<1>6. \A t \in Threads : state'[t] = IF t \in up THEN "READY" ELSE state[t]
  <2> HIDE DEF up
  <2> QED BY <1>2
<1>7. \A w \in up : mask'[w] # {} /\ mask'[w] \subseteq online /\ (state[w] = "BLOCKED" => mask'[w] = mask[w])
  <2> TAKE w \in up
  <2>1. CASE w \in Started
    <3>1. mask'[w] = {setting.home[w]} /\ setting.home[w] \in online /\ state[w] = "NEW"
      BY <1>3, <1>4, <1>5, <2>1
    <3> QED BY <3>1
  <2>2. CASE w \notin Started
    <3>1. mask'[w] = mask[w] /\ state[w] = "BLOCKED" /\ w \in Threads
      BY <1>4, <1>5, <2>2
    <3>2. mask[w] # {} /\ mask[w] \subseteq online
      BY <1>1, <3>1 DEF Masked
    <3> QED BY <3>1, <3>2
  <2> QED BY <2>1, <2>2
<1>8. \A t \in Threads \ up : mask'[t] = mask[t] /\ state'[t] = state[t]
  <2>1. Started \subseteq up
    OBVIOUS
  <2> HIDE DEF up
  <2> QED BY <1>5, <1>6, <2>1
<1>9. /\ state' \in [Threads -> States] /\ mask' \in [Threads -> SUBSET CPUs]
  <2>1. \A t \in Threads : state'[t] \in States
    BY <1>1, <1>6 DEF Shapes, States
  <2>2. \A t \in Threads : mask'[t] \in SUBSET CPUs
    <3>1. APs \subseteq CPUs
      BY <1>1, Cast
    <3>2. \A t \in Threads : mask[t] \in SUBSET CPUs
      BY <1>1 DEF Shapes
    <3>3. \A t \in Started : {setting.home[t]} \in SUBSET CPUs
      BY <1>4, <3>1
    <3> QED BY ONLY <1>5, <3>2, <3>3
  <2> HIDE DEF up, masks
  <2>3. state' = [t \in Threads |-> state'[t]]
    BY <1>2
  <2>4. mask' = [t \in Threads |-> mask'[t]]
    BY <1>2 DEF masks
  <2> QED BY <2>1, <2>2, <2>3, <2>4
<1>10. \A w \in up : ~Queued(w) /\ \A c \in CPUs, p \in Priorities : w \notin Elems(ready[c][p])
  <2> TAKE w \in up
  <2>1. state[w] # "READY"
    BY <1>4
  <2>2. \A c \in CPUs, p \in Priorities : w \notin Elems(ready[c][p])
    BY <1>1, <2>1, Linked
  <2> QED BY <2>2, QueuedMeans
<1>11. ~panic'
  <2>1. \A w \in Started : onCpu[w] = None
    BY <1>4, AtRest DEF AInv
  <2>2. \A w \in up : masks[w] \subseteq online /\ ~Queued(w)
    BY <1>4, <1>5, <1>7, <1>10
  <2> HIDE DEF up, masks
  <2> QED BY <1>1, <1>2, <2>1, <2>2
<1>12. /\ arrivals' \in Seq(Threads) /\ Injective(arrivals')
       /\ \A u : u \in Elems(arrivals') <=> u \in Elems(arrivals) \/ u \in up
  <2>0. arrivals \in Seq(Threads) /\ Injective(arrivals) /\ Workers \in Seq(Threads) /\ Injective(Workers) /\ Elems(Workers) = Crew
    BY <1>1, Cast DEF Shapes, Lists
  <2>1. \A u \in Elems(arrivals) : u \in Threads /\ u \notin up
    BY <1>1, <1>4 DEF Lists
  <2> DEFINE a == Those(arrivals, Threads \ up)
             b == Those(Workers, up)
  <2>2. a \in Seq(Threads) /\ Injective(a) /\ \A u : u \in Elems(a) <=> u \in Elems(arrivals) /\ u \in Threads \ up
    BY <2>0, ThoseFacts
  <2>3. b \in Seq(Threads) /\ Injective(b) /\ \A u : u \in Elems(b) <=> u \in Elems(Workers) /\ u \in up
    BY <2>0, ThoseFacts
  <2>4. arrivals' = a \o b
    BY <1>2
  <2>5. up \subseteq Crew
    BY <1>4
  <2> HIDE DEF a, b, up
  <2>6. \A u : u \in Elems(b) <=> u \in up
    BY <2>0, <2>3, <2>5
  <2>7. \A u : u \in Elems(a) <=> u \in Elems(arrivals)
    BY <2>1, <2>2
  <2>8. \A u : ~(u \in Elems(a) /\ u \in Elems(b))
    BY <2>1, <2>6, <2>7
  <2>9. a \o b \in Seq(Threads) /\ Injective(a \o b) /\ \A u : u \in Elems(a \o b) <=> u \in Elems(a) \/ u \in Elems(b)
    BY <2>2, <2>3, <2>8, JoinFacts
  <2> QED BY <2>4, <2>6, <2>7, <2>9
<1>13. ASSUME NEW d \in CPUs, NEW p \in Priorities
       PROVE  /\ ready'[d][p] \in Seq(Threads) /\ Injective(ready'[d][p])
              /\ \A u : u \in Elems(ready'[d][p]) <=>
                   u \in Elems(ready[d][p]) \/ (u \in up /\ onCpu[u] = None /\ prio[u] = p /\ d \in mask'[u])
  <2>0. Workers \in Seq(Threads) /\ Injective(Workers) /\ Elems(Workers) = Crew
    BY Cast
  <2> DEFINE a == ready[d][p]
             S == linked(d, p)
             b == Those(Workers, S)
  <2>1. a \in Seq(Threads) /\ Injective(a)
    BY <1>1, Linked
  <2>2. \A u : u \in S <=> u \in up /\ onCpu[u] = None /\ prio[u] = p /\ d \in mask'[u]
    <3>1. \A u \in up : masks[u] = mask'[u]
      BY <1>4, <1>5
    <3> HIDE DEF up, masks
    <3> QED BY <3>1 DEF Publishable
  <2>3. ready'[d][p] = a \o b
    <3> HIDE DEF linked
    <3> QED BY <1>2
  <2> HIDE DEF S
  <2>4. b \in Seq(Threads) /\ Injective(b) /\ \A u : u \in Elems(b) <=> u \in Elems(Workers) /\ u \in S
    BY <2>0, ThoseFacts
  <2>5. up \subseteq Crew
    BY <1>4
  <2>6. \A u \in up : u \notin Elems(a)
    BY <1>10
  <2> HIDE DEF a, b, up
  <2>7. \A u : u \in Elems(b) <=> u \in S
    BY <2>0, <2>2, <2>4, <2>5
  <2>8. \A u : ~(u \in Elems(a) /\ u \in Elems(b))
    BY <2>2, <2>6, <2>7
  <2>9. a \o b \in Seq(Threads) /\ Injective(a \o b) /\ \A u : u \in Elems(a \o b) <=> u \in Elems(a) \/ u \in Elems(b)
    BY <2>1, <2>4, <2>8, JoinFacts
  <2>10. \A u : u \in Elems(ready'[d][p]) <=> u \in Elems(a) \/ u \in S
    BY <2>3, <2>7, <2>9
  <2> QED BY <2>2, <2>3, <2>9, <2>10 DEF a
<1>14. ready' \in [CPUs -> [Priorities -> Seq(Threads)]]
  <2> DEFINE q(c, p) == ready[c][p] \o Those(Workers, linked(c, p))
  <2>1. ready' = [c \in CPUs |-> [p \in Priorities |-> q(c, p)]]
    BY <1>2
  <2> HIDE DEF q
  <2>2. \A d \in CPUs, p \in Priorities : q(d, p) \in Seq(Threads)
    <3>1. \A d \in CPUs, p \in Priorities : q(d, p) = ready'[d][p]
      BY <2>1
    <3> QED BY <1>13, <3>1
  <2> QED BY <2>1, <2>2
<1>15. \A w \in up : state[w] \in {"NEW", "BLOCKED"} /\ state'[w] = "READY"
  BY <1>4, <1>6
<1>16. UNCHANGED <<onCpu, prio, current, outgoing, online, pc>> /\ up \in SUBSET Threads /\ \A w \in up : w \notin Idles
  BY <1>2, <1>4
<1> HIDE DEF up
<1>17. Woke(up)
  BY ONLY <1>7, <1>8, <1>9, <1>11, <1>12, <1>13, <1>14, <1>15, <1>16 DEF Woke
<1> QED BY <1>17 DEF up

-----------------------------------------------------------------------------
(* The steps of one CPU. *)

\* A CPU goes on: it may rest or dispatch, but nobody falls asleep, ends or begins.
GoesOn(c) ==
  /\ UNCHANGED <<job, doing, quitting, setting, pool, stop, bsp, done, mask, online>>
  /\ c \in APs /\ pc[c] # "off" /\ pc'[c] # "off" /\ (pc'[c] = "leave" => current'[c] = Idle[c] /\ stop)
  /\ \A d \in CPUs : d # c => pc'[d] = pc[d] /\ current'[d] = current[d]
  /\ \A t \in Threads : state'[t] = state[t] \/ (state[t] \in {"READY", "RUNNING"} /\ state'[t] \in {"READY", "RUNNING"})
  /\ \A t \in Threads : state[t] \in {"ZOMBIE", "FREE"} /\ onCpu[t] = None => onCpu'[t] = None

Rest == Machine /\ Records /\ Leaving /\ Stages /\ Staffed /\ Owned /\ Covered

LEMMA GoesOnKeeps ==
  ASSUME AInv, NEW c, GoesOn(c)
  PROVE  Rest'
<1>1. Machine /\ Records /\ Leaving /\ Stages /\ Staffed /\ Owned /\ Covered /\ setting \in Settings
  BY DEF AInv, Records
<1>2. /\ UNCHANGED <<job, doing, quitting, setting, pool, stop, bsp, done, mask, online>> /\ APs' = APs
      /\ c \in CPUs /\ c # 0 /\ c \in APs /\ 0 \in CPUs /\ APs \subseteq CPUs /\ 0 \notin APs /\ Crew \subseteq Threads
      /\ \A d \in CPUs : Idle[d] \in Threads
  BY <1>1, Cast DEF GoesOn, APs
<1>3. /\ \A d \in CPUs : d # c => pc'[d] = pc[d] /\ current'[d] = current[d]
      /\ pc[c] # "off" /\ pc'[c] # "off" /\ (pc'[c] = "leave" => current'[c] = Idle[c] /\ stop)
  BY DEF GoesOn
<1>4. \A t \in Threads : /\ state[t] \in {"NEW", "BLOCKED", "ZOMBIE", "FREE"} => state'[t] = state[t]
                         /\ state'[t] \in {"READY", "RUNNING"} <=> state[t] \in {"READY", "RUNNING"}
                         /\ state'[t] = "BLOCKED" <=> state[t] = "BLOCKED"
  BY DEF GoesOn
<1>5. Machine'
  BY ONLY <1>1, <1>2, <1>3, <1>4 DEF Machine
<1>6. Records'
  BY ONLY <1>1, <1>2 DEF Records
<1>7. Leaving'
  <2>1. \A d \in CPUs : pc'[d] = "leave" => current'[d] = Idle[d] /\ stop
    BY ONLY <1>1, <1>2, <1>3 DEF Leaving
  <2>2. \A d \in done : d \in APs /\ pc'[d] = "off"
    BY ONLY <1>1, <1>2, <1>3 DEF Leaving, Records
  <2>3. pool # "none" => \A d \in APs \ online : state'[Idle[d]] = "NEW"
    BY ONLY <1>1, <1>2, <1>4 DEF Leaving
  <2> QED BY ONLY <1>1, <1>2, <2>1, <2>2, <2>3 DEF Leaving
<1>8. Stages'
  <2>1. Ended => Ended'
    BY <1>2, <1>4 DEF Ended, GoesOn
  <2> QED BY ONLY <1>1, <1>2, <2>1 DEF Stages
<1>9. Staffed'
  BY ONLY <1>1, <1>2, <1>4 DEF Staffed
<1>10. Owned'
  BY ONLY <1>1, <1>2 DEF Owned
<1>11. Covered'
  BY ONLY <1>1, <1>2, <1>4 DEF Covered, Attends
<1> QED BY ONLY <1>5, <1>6, <1>7, <1>8, <1>9, <1>10, <1>11 DEF Rest

\* A CPU of the service that runs: who it runs, and that the pool is still there.
LEMMA OnAp ==
  ASSUME AInv, NEW c \in APs, pc[c] \notin {"off", "finish"}
  PROVE  /\ c \in CPUs /\ c # 0 /\ c \in online /\ c # None /\ current[c] \in Threads /\ onCpu[current[c]] = c
         /\ c \in mask[current[c]] /\ pool # "none" /\ (pc[c] # "switch" => outgoing[c] = None)
         /\ pc[c] = "run" => state[current[c]] = "RUNNING"
         /\ ~Queued(current[c])
<1>1. Shapes /\ Live /\ Masked /\ Sections /\ Lists /\ setting \in Settings
  BY DEF AInv, DInv, Records
<1>2. c \in CPUs /\ c # 0
  BY <1>1, Cast
<1>3. c \in online /\ c # None /\ current[c] \in Threads /\ onCpu[current[c]] = c /\ (pc[c] # "switch" => outgoing[c] = None)
  BY <1>1, <1>2, LiveOn
<1>4. c \in mask[current[c]]
  BY <1>1, <1>3 DEF Masked
<1>5. pool # "none"
  BY DEF AInv, Leaving
<1>6. pc[c] = "run" => state[current[c]] = "RUNNING"
  BY <1>1, <1>3 DEF Sections
<1>7. ~Queued(current[c])
  <2>1. \A d \in CPUs, p \in Priorities : current[c] \notin Elems(ready[d][p])
    BY <1>1, <1>3, Linked
  <2> QED BY <2>1, QueuedMeans
<1> QED BY <1>2, <1>3, <1>4, <1>5, <1>6, <1>7

LEMMA ApScheduleKeeps ==
  ASSUME AInv, NEW c \in APs, ApSchedule(c)
  PROVE  AInv'
<1> DEFINE prev == current[c]
           next == ScheduleNext(c)
           arrived == state[prev] = "RUNNING"
<1>0. /\ pc[c] = "schedule" /\ UNCHANGED <<prio, quantum, mask, online>>
      /\ state' = [[state EXCEPT ![prev] = IF arrived THEN "READY" ELSE @] EXCEPT ![next] = "RUNNING"]
      /\ onCpu' = [onCpu EXCEPT ![next] = c] /\ current' = [current EXCEPT ![c] = next]
      /\ pc' = [pc EXCEPT ![c] = IF next = prev THEN "run" ELSE "switch"]
      /\ UNCHANGED <<job, doing, quitting, setting, pool, stop, bsp, unacked, ipi, done>>
  BY DEF ApSchedule, Schedule, ScheduleNext, threadPolicy, work, control, signals
<1>1. DInv /\ Shapes /\ c \in CPUs
  BY <1>0, OnAp DEF AInv, DInv
<1>2. DInv'
  BY <1>1, ScheduleKeeps DEF ApSchedule
<1>3. /\ prev \in Threads /\ next \in Threads
      /\ next = prev => state[prev] \in {"RUNNING", "READY"}
      /\ next # prev => onCpu[next] = None /\ state[next] = "READY"
  BY <1>0, <1>1, ScheduleTakes
<1> HIDE DEF next
<1>4. \A t \in Threads : state'[t] = state[t] \/ (state[t] \in {"READY", "RUNNING"} /\ state'[t] \in {"READY", "RUNNING"})
  <2>1. state'[next] = "RUNNING" /\ (next # prev => state'[prev] = IF arrived THEN "READY" ELSE state[prev])
    BY <1>0, <1>1, <1>3 DEF Shapes
  <2>2. \A t \in Threads \ {prev, next} : state'[t] = state[t]
    BY <1>0, <1>1, <1>3 DEF Shapes
  <2> QED BY <1>3, <2>1, <2>2
<1>5. \A t \in Threads : state[t] \in {"ZOMBIE", "FREE"} /\ onCpu[t] = None => onCpu'[t] = None
  <2>1. \A t \in Threads \ {next} : onCpu'[t] = onCpu[t]
    BY <1>0, <1>1, <1>3 DEF Shapes
  <2>2. state[next] \notin {"ZOMBIE", "FREE"}
    BY <1>3
  <2> QED BY <2>1, <2>2
<1>6. /\ pc'[c] \in {"run", "switch"}
      /\ \A d \in CPUs : d # c => pc'[d] = pc[d] /\ current'[d] = current[d]
  BY <1>0, <1>1 DEF Shapes
<1>7. GoesOn(c)
  BY ONLY <1>0, <1>4, <1>5, <1>6, c \in APs DEF GoesOn
<1> QED BY <1>2, <1>7, GoesOnKeeps DEF AInv, Rest

LEMMA ApCompleteKeeps ==
  ASSUME AInv, NEW c \in APs, ApComplete(c)
  PROVE  AInv'
<1> DEFINE t == outgoing[c]
<1>0. /\ pc[c] = "switch" /\ UNCHANGED <<state, prio, quantum, mask, current, online>>
      /\ onCpu' = [onCpu EXCEPT ![t] = None] /\ pc' = [pc EXCEPT ![c] = "run"]
      /\ UNCHANGED <<job, doing, quitting, setting, pool, stop, bsp, unacked, ipi, done>>
  BY DEF ApComplete, Complete, threadPolicy, work, control, signals
<1>1. DInv /\ Shapes /\ c \in CPUs
  BY <1>0, OnAp DEF AInv, DInv
<1>2. DInv'
  BY <1>1, CompleteKeeps DEF ApComplete
<1>3. \A u \in Threads : onCpu[u] = None => onCpu'[u] = None
  BY <1>0, <1>1 DEF Shapes
<1>4. pc'[c] = "run" /\ \A d \in CPUs : d # c => pc'[d] = pc[d]
  BY <1>0, <1>1 DEF Shapes
<1>5. GoesOn(c)
  BY ONLY <1>0, <1>3, <1>4, c \in APs DEF GoesOn
<1> QED BY <1>2, <1>5, GoesOnKeeps DEF AInv, Rest

\* The steps that only move a CPU on: its timer, the interrupt handler, the way out.
Moves(c, place) ==
  /\ UNCHANGED <<state, onCpu, prio, mask, arrivals, ready, current, outgoing, online>> /\ ~panic'
  /\ UNCHANGED <<job, doing, quitting, setting, pool, stop, bsp, done>>
  /\ pc' = [pc EXCEPT ![c] = place]

LEMMA MovesKeep ==
  ASSUME AInv, NEW c \in APs, pc[c] = "run", NEW place \in {"run", "schedule", "leave"}, Moves(c, place),
         place = "leave" => current[c] = Idle[c] /\ stop
  PROVE  AInv'
<1>1. DInv /\ Shapes /\ c \in CPUs /\ c \in online /\ state[current[c]] = "RUNNING"
  BY OnAp DEF AInv, DInv
<1>2. /\ UNCHANGED <<state, onCpu, prio, mask, arrivals, ready, current, outgoing, online>> /\ ~panic'
      /\ UNCHANGED <<job, doing, quitting, setting, pool, stop, bsp, done>>
      /\ pc' \in [CPUs -> Places] /\ pc'[c] = place /\ \A d \in CPUs : d # c => pc'[d] = pc[d]
  BY <1>1 DEF Moves, Shapes, Places
<1>3. state' \in [Threads -> States]
  BY <1>1, <1>2 DEF Shapes
<1>4. DInv'
  BY <1>1, <1>2, <1>3, CpuMoves
<1>5. GoesOn(c)
  BY <1>1, <1>2 DEF GoesOn
<1> QED BY <1>4, <1>5, GoesOnKeeps DEF AInv, Rest

\* Nothing the invariant speaks of changes.
Stands ==
  /\ UNCHANGED <<state, onCpu, prio, mask, arrivals, ready, current, outgoing, online, pc>> /\ ~panic'
  /\ UNCHANGED <<job, doing, quitting, setting, pool, stop, bsp, done>>

LEMMA DispatcherStands ==
  ASSUME DInv, UNCHANGED <<state, onCpu, prio, mask, arrivals, ready, current, outgoing, online, pc>>, ~panic'
  PROVE  DInv'
<1>1. Shapes' /\ Live'
  BY DEF DInv, Shapes, Live
<1>2. Masked' /\ Sections'
  BY DEF DInv, Masked, Sections
<1>3. Lists'
  BY DEF DInv, Lists, NoLostThread
<1> QED BY <1>1, <1>2, <1>3 DEF DInv, NoPanic

LEMMA StandsKeeps ==
  ASSUME AInv, Stands
  PROVE  AInv'
<1>1. DInv'
  BY DispatcherStands DEF AInv, Stands
<1>2. Machine' /\ Records' /\ Leaving'
  BY DEF AInv, Stands, Machine, Records, Leaving, APs
<1>3. Stages' /\ Staffed'
  BY DEF AInv, Stands, Stages, Ended, Staffed, APs
<1>4. Owned'
  BY DEF AInv, Stands, Owned
<1>5. Covered'
  BY DEF AInv, Stands, Covered, Attends
<1> QED BY <1>1, <1>2, <1>3, <1>4, <1>5 DEF AInv

LEMMA CpuStepKeeps ==
  ASSUME AInv, NEW c \in APs, IdleLeave(c) \/ Reschedule(c) \/ ApTick(c) \/ LateIpi(c)
  PROVE  AInv'
<1>0. ~panic
  BY DEF AInv, DInv, NoPanic
<1>1. CASE IdleLeave(c)
  <2>1. Moves(c, "leave") /\ pc[c] = "run" /\ current[c] = Idle[c] /\ stop
    BY <1>0, <1>1 DEF IdleLeave, Moves, threadPolicy, waiting, cpus, work, control, signals
  <2> QED BY <2>1, MovesKeep
<1>2. CASE Reschedule(c)
  <2>1. /\ pc[c] = "run"
        /\ panic' = (panic \/ c \notin online \/ state[current[c]] # "RUNNING" \/ c \notin mask[current[c]])
    BY <1>2 DEF Reschedule
  <2>2. c \in online /\ state[current[c]] = "RUNNING" /\ c \in mask[current[c]]
    BY <2>1, OnAp
  <2>3. Moves(c, "schedule")
    BY <1>0, <1>2, <2>1, <2>2 DEF Reschedule, Moves, threadPolicy, waiting, cpus, work, control
  <2> QED BY <2>1, <2>3, MovesKeep
<1>3. CASE ApTick(c)
  <2>1. /\ pc[c] = "run"
        /\ panic' = (panic \/ TickPanics(c) \/ c \notin mask[current[c]])
    BY <1>3 DEF ApTick
  <2>2. onCpu[current[c]] = c /\ state[current[c]] = "RUNNING" /\ c \in mask[current[c]]
    BY <2>1, OnAp
  <2>3. ~panic'
    BY <1>0, <2>1, <2>2 DEF TickPanics
  <2>4. Moves(c, "run") \/ Moves(c, "schedule")
    BY <1>3, <2>3 DEF ApTick, TickPolicy, Moves, threadPolicy, waiting, cpus, work, control, signals
  <2> QED BY <2>1, <2>4, MovesKeep
<1>4. CASE LateIpi(c)
  <2>1. Stands
    BY <1>0, <1>4 DEF LateIpi, Stands, dvars, threadPolicy, waiting, cpus, work, control
  <2> QED BY <2>1, StandsKeeps
<1> QED BY <1>1, <1>2, <1>3, <1>4

-----------------------------------------------------------------------------
(* The steps of a worker. *)

\* A worker that runs is the only one of its CPU's threads that does, and is bound to it.
LEMMA Working ==
  ASSUME AInv, NEW c \in APs, NEW w \in Crew, pc[c] = "run", current[c] = w
  PROVE  /\ w \in Threads /\ w \notin Idles /\ w # Idle[c] /\ state[w] = "RUNNING" /\ onCpu[w] = c /\ mask[w] = {c}
         /\ c \in CPUs /\ c \in online /\ outgoing[c] = None /\ ~Queued(w)
         /\ pool # "none" /\ ~stop /\ bsp.op # "halt"
<1>1. /\ c \in CPUs /\ c \in online /\ w \in Threads /\ onCpu[w] = c /\ c \in mask[w] /\ pool # "none"
      /\ outgoing[c] = None /\ state[w] = "RUNNING" /\ ~Queued(w)
  BY OnAp
<1>2. \E d \in APs : mask[w] = {d}
  BY <1>1 DEF AInv, Staffed
<1>3. mask[w] = {c}
  BY <1>1, <1>2
<1>4. ~stop /\ bsp.op # "halt"
  BY <1>1 DEF AInv, Stages, Ended
<1>5. w \notin Idles /\ Idle[c] \in Idles
  BY <1>1, Cast
<1> QED BY <1>1, <1>3, <1>4, <1>5

\* The dispatcher and the control side stand still while the slots change.
LEMMA SlotsMove ==
  ASSUME AInv, UNCHANGED <<state, onCpu, prio, mask, arrivals, ready, current, outgoing, online, pc>>, ~panic',
         UNCHANGED <<setting, pool, stop, bsp, done>>
  PROVE  DInv' /\ Machine' /\ Leaving' /\ APs' = APs
<1>1. DInv'
  BY DispatcherStands DEF AInv
<1> QED BY <1>1 DEF AInv, Machine, Leaving, APs

LEMMA ClaimKeeps ==
  ASSUME AInv, NEW c \in APs, NEW w \in Crew, Claim(c, w)
  PROVE  AInv'
<1> DEFINE s == CHOOSE x \in Claimable(c) : \A y \in Claimable(c) : x <= y
<1>0. /\ pc[c] = "run" /\ current[c] = w /\ w \notin quitting /\ doing[w] = None /\ Claimable(c) # {}
      /\ job' = [job EXCEPT ![s].state = "RUNNING", ![s].worker = w, ![s].cpu = c]
      /\ doing' = [doing EXCEPT ![w] = <<s, job[s].gen>>]
      /\ panic' = LoopPanics(c, w)
      /\ UNCHANGED <<state, onCpu, prio, mask, arrivals, ready, current, outgoing, online, pc, quitting, setting, pool, stop, bsp, done>>
  BY DEF Claim, AtLoop, threadPolicy, waiting, cpus, control, signals
<1>1. /\ w \in Threads /\ state[w] = "RUNNING" /\ onCpu[w] = c /\ mask[w] = {c} /\ pool # "none"
  <2>1. pc[c] = "run" /\ current[c] = w
    BY <1>0
  <2> QED BY ONLY <2>1, AInv, c \in APs, w \in Crew, Working
<1>2. s \in Slots /\ job[s].state = "QUEUED" /\ c \in job[s].mask /\ pool \in Open
  <2>1. Claimable(c) \subseteq Nat
    BY ApWorkAssumption DEF Claimable
  <2>2. \E x \in Claimable(c) : \A y \in Claimable(c) : x <= y
    BY <1>0, <2>1, LeastNat
  <2>3. s \in Claimable(c)
    BY <2>2
  <2> HIDE DEF s
  <2> QED BY <2>3 DEF Claimable, Open
<1> HIDE DEF s
<1>3. ~panic'
  BY <1>0, <1>1 DEF LoopPanics, AInv, DInv, NoPanic
<1>4. DInv' /\ Machine' /\ Leaving' /\ APs' = APs
  BY <1>0, <1>3, SlotsMove
<1>r. Records
  BY DEF AInv
<1>5. /\ \A x \in Slots : x # s => job'[x] = job[x]
      /\ job'[s].state = "RUNNING" /\ job'[s].worker = w /\ job'[s].cpu = c /\ job'[s].gen = job[s].gen
      /\ job'[s].mask = job[s].mask
  BY <1>0, <1>2, <1>r DEF Records
<1>6. /\ \A x \in Crew : x # w => doing'[x] = doing[x]
      /\ doing'[w] = <<s, job[s].gen>> /\ <<s, job[s].gen>> \in Slots \X Nat
  BY <1>0, <1>2, <1>r DEF Records
<1>7. doing'[w] # None /\ doing'[w][1] = s /\ doing'[w][2] = job[s].gen
  BY <1>6, Cast
<1>8. Records'
  <2>1. job' \in [Slots -> [state : {"FREE", "QUEUED", "RUNNING", "DONE"}, gen : Nat, mask : SUBSET APs,
                            worker : Crew \cup {None}, cpu : APs \cup {None}]]
    <3> DEFINE next == [job[s] EXCEPT !.state = "RUNNING", !.worker = w, !.cpu = c]
    <3>1. job' = [job EXCEPT ![s] = next]
      BY <1>0, <1>2, <1>r DEF Records
    <3>2. next \in [state : {"FREE", "QUEUED", "RUNNING", "DONE"}, gen : Nat, mask : SUBSET APs,
                    worker : Crew \cup {None}, cpu : APs \cup {None}]
      <4>1. /\ job[s] \in [state : {"FREE", "QUEUED", "RUNNING", "DONE"}, gen : Nat, mask : SUBSET APs,
                           worker : Crew \cup {None}, cpu : APs \cup {None}]
            /\ w \in Crew /\ c \in APs
        BY <1>0, <1>2, <1>r DEF Records
      <4> QED BY ONLY <4>1
    <3> HIDE DEF next
    <3> QED BY <1>r, <3>1, <3>2 DEF Records
  <2>2. doing' \in [Crew -> (Slots \X Nat) \cup {None}]
    BY <1>0, <1>6, <1>r DEF Records
  <2> QED BY <1>0, <1>4, <1>r, <2>1, <2>2 DEF Records
<1>9. Stages'
  BY <1>0, <1>2, <1>4 DEF AInv, Stages, Ended, Open
<1>10. Staffed'
  BY <1>0, <1>1, <1>4, <1>6 DEF AInv, Staffed
<1>11. Owned'
  <2>0. Owned
    BY DEF AInv
  <2>1. ASSUME NEW x \in Crew, doing'[x] # None
        PROVE  LET z == doing'[x][1]
               IN  /\ job'[z].state = "RUNNING" /\ job'[z].worker = x /\ doing'[x][2] = job'[z].gen
                   /\ mask[x] = {job'[z].cpu} /\ job'[z].cpu \in job'[z].mask
    <3>1. CASE x = w
      BY <1>1, <1>2, <1>5, <1>7, <3>1
    <3>2. CASE x # w
      <4>1. doing'[x] = doing[x] /\ doing[x] # None
        BY <1>6, <2>1, <3>2
      <4>2. doing[x][1] \in Slots
        BY <1>r, <4>1 DEF Records
      <4>3. job[doing[x][1]].state = "RUNNING"
        BY <2>0, <4>1 DEF Owned
      <4>4. job'[doing[x][1]] = job[doing[x][1]]
        BY <1>2, <1>5, <4>2, <4>3
      <4> QED BY <2>0, <4>1, <4>4 DEF Owned
    <3> QED BY <3>1, <3>2
  <2>2. ASSUME NEW z \in Slots, job'[z].state = "RUNNING"
        PROVE  LET x == job'[z].worker IN x \in Crew /\ doing'[x] # None /\ doing'[x][1] = z
    <3>1. CASE z = s
      BY <1>5, <1>7, <3>1
    <3>2. CASE z # s
      <4>1. job'[z] = job[z] /\ job[z].worker \in Crew /\ doing[job[z].worker] # None /\ doing[job[z].worker][1] = z
        BY <1>5, <2>0, <2>2, <3>2 DEF Owned
      <4>2. job[z].worker # w
        BY <1>0, <4>1
      <4> QED BY <1>6, <4>1, <4>2
    <3> QED BY <3>1, <3>2
  <2> QED BY <1>0, <2>1, <2>2 DEF Owned
<1>12. Covered'
  <2>1. ASSUME NEW z \in Slots, job'[z].state = "QUEUED"
        PROVE  \E x \in Crew \ quitting : Attends(x, z)'
    <3>1. z # s /\ job'[z] = job[z]
      BY <1>5, <2>1
    <3>2. PICK x \in Crew \ quitting : Attends(x, z)
      BY <1>2, <2>1, <3>1 DEF AInv, Covered
    <3>3. Attends(x, z)'
      BY <1>0, <3>1, <3>2 DEF Attends
    <3> QED BY <3>3
  <2> QED BY <1>0, <2>1 DEF Covered
<1> QED BY <1>4, <1>8, <1>9, <1>10, <1>11, <1>12 DEF AInv

LEMMA QuitKeeps ==
  ASSUME AInv, NEW c \in APs, NEW w \in Crew, Quit(c, w)
  PROVE  AInv'
<1>0. /\ pc[c] = "run" /\ current[c] = w /\ w \notin quitting /\ doing[w] = None /\ Claimable(c) = {} /\ pool = "DRAINING"
      /\ quitting' = quitting \cup {w} /\ panic' = LoopPanics(c, w)
      /\ UNCHANGED <<state, onCpu, prio, mask, arrivals, ready, current, outgoing, online, pc, job, doing, setting, pool, stop, bsp, done>>
  BY DEF Quit, AtLoop, threadPolicy, waiting, cpus, control, signals
<1>1. /\ w \in Threads /\ state[w] = "RUNNING" /\ onCpu[w] = c /\ mask[w] = {c} /\ pool # "none"
  BY <1>0, Working
<1>3. ~panic'
  BY <1>0, <1>1 DEF LoopPanics, AInv, DInv, NoPanic
<1>4. DInv' /\ Machine' /\ Leaving' /\ APs' = APs
  BY <1>0, <1>3, SlotsMove
<1>8. Records'
  BY <1>0, <1>4 DEF AInv, Records
<1>9. Stages'
  BY <1>0, <1>4 DEF AInv, Stages, Ended, Open
<1>10. Staffed'
  BY <1>0, <1>4 DEF AInv, Staffed
<1>11. Owned'
  BY <1>0 DEF AInv, Owned
<1>12. Covered'
  <2>1. ASSUME NEW z \in Slots, job[z].state = "QUEUED"
        PROVE  \E x \in Crew \ quitting' : Attends(x, z)'
    <3>1. PICK x \in Crew \ quitting : Attends(x, z)
      BY <1>0, <2>1 DEF AInv, Covered, Open
    <3>2. c \notin job[z].mask
      BY <1>0, <2>1 DEF Claimable
    <3>3. x # w
      BY <1>1, <3>1, <3>2 DEF Attends
    <3>4. Attends(x, z)'
      BY <1>0, <3>1 DEF Attends
    <3> QED BY <1>0, <3>3, <3>4
  <2> QED BY <1>0, <2>1 DEF Covered
<1> QED BY <1>4, <1>8, <1>9, <1>10, <1>11, <1>12 DEF AInv

\* A worker without a job parks or exits: it attends to no queued job.
LEMMA RestsKeeps ==
  ASSUME AInv, NEW c \in APs, NEW w \in Crew, pc[c] = "run", current[c] = w, doing[w] = None,
         NEW st \in {"BLOCKED", "ZOMBIE"}, state' = [state EXCEPT ![w] = st], pc' = [pc EXCEPT ![c] = "schedule"],
         quitting' \subseteq quitting, quitting \subseteq quitting' \cup {w}, ~panic',
         UNCHANGED <<onCpu, prio, mask, arrivals, ready, current, outgoing, online, job, doing, setting, pool, stop, bsp, done>>,
         pool \in Open => w \in quitting \/ \A z \in Slots : job[z].state = "QUEUED" => c \notin job[z].mask
  PROVE  AInv'
<1>1. /\ w \in Threads /\ w \notin Idles /\ w # Idle[c] /\ state[w] = "RUNNING" /\ onCpu[w] = c /\ mask[w] = {c}
      /\ c \in CPUs /\ c \in online /\ outgoing[c] = None /\ ~stop /\ bsp.op # "halt"
  BY Working
<1>2. DInv /\ Shapes /\ setting \in Settings
  BY DEF AInv, DInv, Records
<1>3. /\ state' \in [Threads -> States] /\ state'[w] = st /\ \A t \in Threads : t # w => state'[t] = state[t]
  BY <1>1, <1>2 DEF Shapes, States
<1>4. /\ pc' \in [CPUs -> Places] /\ pc'[c] = "schedule" /\ \A d \in CPUs : d # c => pc'[d] = pc[d]
  BY <1>1, <1>2 DEF Shapes, Places
<1>5. DInv'
  <2>1. \A t \in Threads \ {current[c]} : state'[t] = state[t]
    BY <1>3
  <2>2. \A d \in CPUs \ {c} : pc'[d] = pc[d]
    BY <1>4
  <2> QED BY <1>1, <1>2, <1>3, <1>4, <2>1, <2>2, CpuMoves
<1>6. /\ APs' = APs /\ c # 0 /\ w # 0 /\ APs \subseteq CPUs /\ 0 \notin APs /\ 0 \in CPUs /\ 0 \in Threads /\ Crew \subseteq Threads
      /\ \A d \in CPUs : Idle[d] \in Threads /\ Idle[d] # w
  BY <1>1, <1>2, Cast DEF APs
<1>u. UNCHANGED <<onCpu, mask, current, online, job, doing, setting, pool, stop, bsp, done>>
  OBVIOUS
<1>a. Machine /\ Records /\ Leaving /\ Stages /\ Staffed /\ Owned /\ Covered
  BY DEF AInv
<1>7. Machine'
  BY ONLY <1>3, <1>4, <1>6, <1>a, <1>u, w \in Crew, c \in APs DEF Machine
<1>8. Records'
  BY <1>6, <1>a, <1>u DEF Records
<1>9. Leaving'
  <2>1. \A d \in CPUs : pc'[d] = "leave" => current'[d] = Idle[d] /\ stop
    BY ONLY <1>1, <1>4, <1>a, <1>u DEF Leaving
  <2>2. \A d \in done : pc'[d] = "off"
    <3>1. c \notin done
      BY <1>a DEF Leaving
    <3> QED BY <1>4, <1>6, <1>a, <3>1 DEF Leaving, Records
  <2>3. \A d \in APs : state'[Idle[d]] = state[Idle[d]]
    BY <1>3, <1>6
  <2> QED BY ONLY <1>6, <1>a, <1>u, <2>1, <2>2, <2>3 DEF Leaving
<1>10. Stages'
  BY ONLY <1>1, <1>6, <1>a, <1>u, quitting' \subseteq quitting DEF Stages
<1>11. Staffed'
  <2>1. \A x \in Crew : x \notin quitting => x \notin quitting'
    OBVIOUS
  <2>2. \A x \in Crew : x \in Threads
    BY <1>6
  <2>3. doing[w] = None
    OBVIOUS
  <2> QED BY ONLY <1>1, <1>3, <1>6, <1>a, <1>u, <2>1, <2>2, <2>3, c \in APs DEF Staffed
<1>12. Owned'
  BY <1>a, <1>u DEF Owned
<1>13. Covered'
  <2>1. ASSUME pool \in Open, NEW z \in Slots, job[z].state = "QUEUED"
        PROVE  \E x \in Crew \ quitting' : Attends(x, z)'
    <3>1. PICK x \in Crew \ quitting : Attends(x, z)
      BY <1>a, <2>1 DEF Covered
    <3>2. x # w
      <4>1. CASE w \in quitting
        BY <3>1, <4>1
      <4>2. CASE w \notin quitting
        <5>1. c \notin job[z].mask
          BY <2>1, <4>2
        <5>2. mask[w] \cap job[z].mask = {} /\ state[w] = "RUNNING"
          BY <1>1, <5>1
        <5> QED BY <3>1, <5>2 DEF Attends
      <4> QED BY <4>1, <4>2
    <3>3. Attends(x, z)'
      <4>1. state'[x] = state[x]
        BY <1>3, <1>6, <3>1, <3>2
      <4> QED BY <1>u, <3>1, <4>1 DEF Attends
    <3> QED BY <3>1, <3>3
  <2> QED BY <1>u, <2>1 DEF Covered
<1> QED BY <1>5, <1>7, <1>8, <1>9, <1>10, <1>11, <1>12, <1>13 DEF AInv

LEMMA ParkKeeps ==
  ASSUME AInv, NEW c \in APs, NEW w \in Crew, Park(c, w) \/ WorkerExit(c, w)
  PROVE  AInv'
<1>0. ~panic
  BY DEF AInv, DInv, NoPanic
<1>1. CASE Park(c, w)
  <2>1. /\ pc[c] = "run" /\ current[c] = w /\ doing[w] = None /\ Claimable(c) = {}
        /\ state' = [state EXCEPT ![w] = "BLOCKED"] /\ pc' = [pc EXCEPT ![c] = "schedule"]
        /\ panic' = (LoopPanics(c, w) \/ state[w] # "RUNNING" \/ outgoing[c] # None \/ Queued(w))
        /\ UNCHANGED <<onCpu, prio, mask, arrivals, ready, current, outgoing, online, job, doing, quitting, setting, pool, stop, bsp, done>>
    BY <1>1 DEF Park, AtLoop, threadPolicy, waiting, cpus, work, control, signals
  <2>2. state[w] = "RUNNING" /\ onCpu[w] = c /\ mask[w] = {c} /\ outgoing[c] = None /\ ~Queued(w) /\ pool # "none"
    BY <2>1, Working
  <2>3. ~panic'
    BY <1>0, <2>1, <2>2 DEF LoopPanics
  <2>4. pool \in Open => \A z \in Slots : job[z].state = "QUEUED" => c \notin job[z].mask
    BY <2>1 DEF Claimable, Open
  <2> QED BY <2>1, <2>3, <2>4, RestsKeeps
<1>2. CASE WorkerExit(c, w)
  <2>1. /\ pc[c] = "run" /\ current[c] = w /\ w \in quitting /\ quitting' = quitting \ {w}
        /\ state' = [state EXCEPT ![w] = "ZOMBIE"] /\ pc' = [pc EXCEPT ![c] = "schedule"]
        /\ UNCHANGED <<onCpu, prio, mask, arrivals, ready, current, outgoing, online, job, doing, setting, pool, stop, bsp, done>>
        /\ panic' = panic
    BY <1>2 DEF WorkerExit, threadPolicy, waiting, cpus, control, signals
  <2>2. doing[w] = None
    BY <2>1 DEF AInv, Staffed
  <2>3. quitting' \subseteq quitting /\ quitting \subseteq quitting' \cup {w}
    BY <2>1
  <2> QED BY <1>0, <2>1, <2>2, <2>3, RestsKeeps
<1> QED BY <1>1, <1>2

LEMMA FinishJobKeeps ==
  ASSUME AInv, NEW c \in APs, NEW w \in Crew, FinishJob(c, w)
  PROVE  AInv'
<1> DEFINE s == doing[w][1]
<1>0. /\ pc[c] = "run" /\ current[c] = w /\ doing[w] # None
      /\ job' = [job EXCEPT ![s].state = "DONE"] /\ doing' = [doing EXCEPT ![w] = None]
      /\ panic' = (panic \/ ~(/\ pool # "none" /\ c \in online
                              /\ onCpu[w] = c /\ state[w] = "RUNNING" /\ mask[w] = {c}
                              /\ Completable(s, doing[w][2], c, w)))
      /\ UNCHANGED <<state, onCpu, prio, mask, arrivals, ready, current, outgoing, online, pc, quitting, setting, pool, stop, bsp, done>>
  BY DEF FinishJob, threadPolicy, waiting, cpus, control, signals
<1>1. /\ w \in Threads /\ state[w] = "RUNNING" /\ onCpu[w] = c /\ mask[w] = {c} /\ c \in online /\ pool # "none"
  <2>1. pc[c] = "run" /\ current[c] = w
    BY <1>0
  <2> QED BY ONLY <2>1, AInv, c \in APs, w \in Crew, Working
<1>a. Records /\ Stages /\ Staffed /\ Owned /\ Covered /\ ~panic
  BY DEF AInv, DInv, NoPanic
<1>2. /\ s \in Slots /\ job[s].state = "RUNNING" /\ job[s].worker = w /\ doing[w][2] = job[s].gen /\ mask[w] = {job[s].cpu}
  <2>1. s \in Slots
    BY <1>0, <1>a DEF Records
  <2> QED BY <1>0, <1>a, <2>1 DEF Owned
<1>3. ~panic'
  <2>1. Completable(s, doing[w][2], c, w)
    BY <1>1, <1>2 DEF Completable
  <2> QED BY <1>0, <1>1, <1>a, <2>1
<1> HIDE DEF s
<1>4. DInv' /\ Machine' /\ Leaving' /\ APs' = APs
  BY <1>0, <1>3, SlotsMove
<1>5. /\ \A x \in Slots : x # s => job'[x] = job[x]
      /\ job'[s].state = "DONE"
  BY <1>0, <1>2, <1>a DEF Records
<1>6. (\A x \in Crew : x # w => doing'[x] = doing[x]) /\ doing'[w] = None
  BY <1>0, <1>a DEF Records
<1>8. Records'
  <2>1. job' \in [Slots -> [state : {"FREE", "QUEUED", "RUNNING", "DONE"}, gen : Nat, mask : SUBSET APs,
                            worker : Crew \cup {None}, cpu : APs \cup {None}]]
    <3> DEFINE next == [job[s] EXCEPT !.state = "DONE"]
    <3>1. job' = [job EXCEPT ![s] = next]
      BY <1>0, <1>2, <1>a DEF Records
    <3>2. next \in [state : {"FREE", "QUEUED", "RUNNING", "DONE"}, gen : Nat, mask : SUBSET APs,
                    worker : Crew \cup {None}, cpu : APs \cup {None}]
      BY <1>2, <1>a DEF Records
    <3> HIDE DEF next
    <3> QED BY <1>a, <3>1, <3>2 DEF Records
  <2>2. doing' \in [Crew -> (Slots \X Nat) \cup {None}]
    BY <1>0, <1>6, <1>a DEF Records
  <2> QED BY <1>0, <1>4, <1>a, <2>1, <2>2 DEF Records
<1>9. Stages'
  <2>1. \A z \in Slots : job'[z].state = "QUEUED" => job[z].state = "QUEUED"
    BY <1>5
  <2> QED BY <1>0, <1>4, <1>a, <2>1 DEF Stages, Ended
<1>10. Staffed'
  BY <1>0, <1>4, <1>6, <1>a DEF Staffed
<1>11. Owned'
  <2>1. ASSUME NEW x \in Crew, doing'[x] # None
        PROVE  LET z == doing'[x][1]
               IN  /\ job'[z].state = "RUNNING" /\ job'[z].worker = x /\ doing'[x][2] = job'[z].gen
                   /\ mask[x] = {job'[z].cpu} /\ job'[z].cpu \in job'[z].mask
    <3>1. x # w /\ doing'[x] = doing[x] /\ doing[x] # None
      BY <1>6, <2>1
    <3>2. doing[x][1] \in Slots
      BY <1>a, <3>1 DEF Records
    <3>3. job[doing[x][1]].worker = x
      BY <1>a, <3>1 DEF Owned
    <3>4. job'[doing[x][1]] = job[doing[x][1]]
      BY <1>2, <1>5, <3>1, <3>2, <3>3
    <3> QED BY <1>a, <3>1, <3>4 DEF Owned
  <2>2. ASSUME NEW z \in Slots, job'[z].state = "RUNNING"
        PROVE  LET x == job'[z].worker IN x \in Crew /\ doing'[x] # None /\ doing'[x][1] = z
    <3>1. z # s /\ job'[z] = job[z]
      BY <1>5, <2>2
    <3>2. job[z].worker \in Crew /\ doing[job[z].worker] # None /\ doing[job[z].worker][1] = z
      BY <1>a, <2>2, <3>1 DEF Owned
    <3>3. job[z].worker # w
      BY <3>1, <3>2 DEF s
    <3> QED BY <1>6, <3>1, <3>2, <3>3
  <2> QED BY <1>0, <2>1, <2>2 DEF Owned
<1>12. Covered'
  <2>1. ASSUME pool \in Open, NEW z \in Slots, job'[z].state = "QUEUED"
        PROVE  \E x \in Crew \ quitting : Attends(x, z)'
    <3>1. z # s /\ job'[z] = job[z]
      BY <1>5, <2>1
    <3>2. PICK x \in Crew \ quitting : Attends(x, z)
      BY <1>a, <2>1, <3>1 DEF Covered
    <3>3. Attends(x, z)'
      BY <1>0, <3>1, <3>2 DEF Attends
    <3> QED BY <3>3
  <2> QED BY <1>0, <2>1 DEF Covered
<1> QED BY <1>4, <1>8, <1>9, <1>10, <1>11, <1>12 DEF AInv

-----------------------------------------------------------------------------
(* A CPU comes and goes. *)

Passes(c) ==
  /\ UNCHANGED <<job, doing, quitting, setting, pool, stop, bsp, done>> /\ c \in APs /\ c \notin done
  /\ \A t \in Threads : t # Idle[c] => state'[t] = state[t] /\ mask'[t] = mask[t] /\ onCpu'[t] = onCpu[t]
  /\ \A d \in CPUs : d # c => pc'[d] = pc[d] /\ current'[d] = current[d]
  /\ pc'[c] \in {"run", "finish"} /\ 0 \in online' /\ online \ {c} \subseteq online'
  /\ c \in online' \/ (stop /\ state'[Idle[c]] = "NEW")

LEMMA PassesKeeps ==
  ASSUME AInv, NEW c, Passes(c)
  PROVE  Rest'
<1>a. Machine /\ Records /\ Leaving /\ Stages /\ Staffed /\ Owned /\ Covered /\ setting \in Settings
  BY DEF AInv, Records
<1>u. UNCHANGED <<job, doing, quitting, setting, pool, stop, bsp, done>> /\ APs' = APs
  BY DEF Passes, APs
<1>1. /\ c \in APs /\ c \in CPUs /\ c # 0 /\ 0 \in CPUs /\ 0 \in Threads /\ APs \subseteq CPUs /\ 0 \notin APs /\ Idle[c] \in Idles
      /\ Idle[c] # 0 /\ \A d \in CPUs : Idle[d] \in Threads /\ (d # c => Idle[d] # Idle[c])
  BY <1>a, Cast DEF Passes
<1>2. \A w \in Crew : w \in Threads /\ state'[w] = state[w] /\ mask'[w] = mask[w] /\ onCpu'[w] = onCpu[w]
  <2>1. \A w \in Crew : w \in Threads /\ w # Idle[c]
    BY <1>1, Cast
  <2> QED BY <2>1 DEF Passes
<1>3. \A d \in CPUs : d # c => pc'[d] = pc[d] /\ current'[d] = current[d] /\ state'[Idle[d]] = state[Idle[d]]
  BY <1>1 DEF Passes
<1>4. Machine'
  <2>1. 0 \in online' /\ pc'[0] = "run" /\ current'[0] = 0 /\ mask'[0] = {0}
    BY <1>1, <1>3, <1>a DEF Passes, Machine
  <2>2. \A t \in Threads \ (Crew \cup Idles \cup {0}) : state'[t] = "NEW"
    BY <1>1, <1>a DEF Passes, Machine
  <2>3. \A d \in CPUs \ (APs \cup {0}) : pc'[d] = "off" /\ state'[Idle[d]] = "NEW"
    BY <1>1, <1>3, <1>a DEF Machine
  <2> QED BY ONLY <1>u, <2>1, <2>2, <2>3 DEF Machine
<1>5. Records'
  BY ONLY <1>a, <1>u DEF Records
<1>6. Leaving'
  <2>1. \A d \in CPUs : pc'[d] = "leave" => current'[d] = Idle[d] /\ stop
    BY <1>3, <1>a DEF Leaving, Passes
  <2>2. \A d \in done : pc'[d] = "off"
    BY <1>1, <1>3, <1>a DEF Leaving, Records, Passes
  <2>3. pool # "none" => \A d \in APs \ online' : state'[Idle[d]] = "NEW"
    BY <1>1, <1>3, <1>a DEF Leaving, Passes
  <2> QED BY ONLY <1>a, <1>u, <2>1, <2>2, <2>3 DEF Leaving
<1>7. Stages'
  <2>1. Ended => Ended'
    BY ONLY <1>2 DEF Ended
  <2>2. pool \in Open /\ ~stop => APs \subseteq online'
    BY <1>a DEF Stages, Passes
  <2> QED BY ONLY <1>a, <1>u, <2>1, <2>2 DEF Stages
<1>8. Staffed'
  BY ONLY <1>2, <1>a, <1>u DEF Staffed
<1>9. Owned'
  BY ONLY <1>2, <1>a, <1>u DEF Owned
<1>10. Covered'
  BY ONLY <1>2, <1>a, <1>u DEF Covered, Attends
<1> QED BY ONLY <1>4, <1>5, <1>6, <1>7, <1>8, <1>9, <1>10 DEF Rest

LEMMA AdmissionKeeps ==
  ASSUME AInv, NEW c \in APs, Admit(c)
  PROVE  AInv'
<1>1. DInv'
  BY AdmitKeeps
<1>2. Shapes /\ c \in CPUs /\ 0 \in online
  BY Cast DEF AInv, DInv, Records, Machine
<1>3. Passes(c)
  <2>1. /\ UNCHANGED <<job, doing, quitting, setting, pool, stop, bsp, done>> /\ c \notin done
        /\ state' = [state EXCEPT ![Idle[c]] = "RUNNING"] /\ mask' = [mask EXCEPT ![Idle[c]] = {c}]
        /\ onCpu' = [onCpu EXCEPT ![Idle[c]] = c] /\ current' = [current EXCEPT ![c] = Idle[c]]
        /\ online' = online \cup {c} /\ pc' = [pc EXCEPT ![c] = "run"]
    BY DEF Admit, work, control, signals
  <2>2. \A t \in Threads : t # Idle[c] => state'[t] = state[t] /\ mask'[t] = mask[t] /\ onCpu'[t] = onCpu[t]
    BY <1>2, <2>1 DEF Shapes
  <2>3. /\ \A d \in CPUs : d # c => pc'[d] = pc[d] /\ current'[d] = current[d]
        /\ pc'[c] = "run"
    BY <1>2, <2>1 DEF Shapes
  <2> QED BY ONLY <1>2, <2>1, <2>2, <2>3, c \in APs DEF Passes
<1> QED BY <1>1, <1>3, PassesKeeps DEF AInv, Rest

LEMMA WithdrawalKeeps ==
  ASSUME AInv, NEW c \in APs, Withdraw(c)
  PROVE  AInv'
<1>1. DInv'
  BY WithdrawKeeps
<1>2. Shapes /\ c \in CPUs /\ c # 0 /\ 0 \in online /\ Idle[c] \in Threads
  BY Cast DEF AInv, DInv, Records, Machine
<1>3. Passes(c)
  <2>1. /\ UNCHANGED <<job, doing, quitting, setting, pool, stop, bsp, done>> /\ pc[c] = "leave"
        /\ state' = [state EXCEPT ![Idle[c]] = "NEW"] /\ mask' = [mask EXCEPT ![Idle[c]] = {0}]
        /\ onCpu' = [onCpu EXCEPT ![Idle[c]] = None] /\ current' = [current EXCEPT ![c] = None]
        /\ online' = online \ {c} /\ pc' = [pc EXCEPT ![c] = "finish"]
    BY DEF Withdraw, work, control, signals
  <2>2. \A t \in Threads : t # Idle[c] => state'[t] = state[t] /\ mask'[t] = mask[t] /\ onCpu'[t] = onCpu[t]
    BY <1>2, <2>1 DEF Shapes
  <2>3. /\ \A d \in CPUs : d # c => pc'[d] = pc[d] /\ current'[d] = current[d]
        /\ pc'[c] = "finish" /\ state'[Idle[c]] = "NEW"
    BY <1>2, <2>1 DEF Shapes
  <2>4. stop /\ c \notin done
    BY <1>2, <2>1 DEF AInv, Leaving
  <2> QED BY ONLY <1>2, <2>1, <2>2, <2>3, <2>4, c \in APs DEF Passes
<1> QED BY <1>1, <1>3, PassesKeeps DEF AInv, Rest

LEMMA FinishCpuKeeps ==
  ASSUME AInv, NEW c \in APs, FinishCpu(c)
  PROVE  AInv'
<1>0. /\ pc[c] = "finish" /\ done' = (IF pool # "none" THEN done \cup {c} ELSE done) /\ pc' = [pc EXCEPT ![c] = "off"]
      /\ UNCHANGED <<state, onCpu, prio, mask, arrivals, ready, current, outgoing, online, panic, job, doing, quitting, setting, pool, stop, bsp>>
  BY DEF FinishCpu, threadPolicy, waiting, cpus, work, control
<1>a. /\ Machine /\ Records /\ Leaving /\ Stages /\ Staffed /\ Owned /\ Covered /\ setting \in Settings
      /\ Shapes /\ Live /\ Masked /\ Sections /\ Lists /\ ~panic
  BY DEF AInv, DInv, NoPanic, Records
<1>1. c \in CPUs /\ c # 0 /\ APs' = APs /\ APs \subseteq CPUs /\ 0 \notin APs /\ 0 \in CPUs
  BY <1>0, <1>a, Cast DEF APs
<1>2. pc'[c] = "off" /\ (\A d \in CPUs : d # c => pc'[d] = pc[d]) /\ pc' \in [CPUs -> Places]
  BY <1>0, <1>1, <1>a DEF Shapes, Places
<1>3. c \notin online /\ pool # "none" /\ c \notin done
  <2>1. c \notin online
    BY <1>0, <1>1, <1>a, LiveOn
  <2> QED BY <1>0, <2>1, <1>a DEF Leaving
<1>4. Shapes'
  BY <1>0, <1>2, <1>a DEF Shapes
<1>5. Live'
  <2>1. \A d \in CPUs : /\ pc'[d] \notin {"off", "finish"} <=> pc[d] \notin {"off", "finish"}
                        /\ pc'[d] = "switch" <=> pc[d] = "switch"
    BY <1>0, <1>2
  <2>2. (\A d \in CPUs : pc[d] \notin {"off", "finish"} <=> d \in online)' /\ (\A d \in CPUs : outgoing[d] # None <=> pc[d] = "switch")'
    BY <1>0, <1>a, <2>1 DEF Live
  <2> QED BY <1>0, <1>a, <2>2 DEF Live
<1>6. Masked' /\ Lists'
  BY <1>0, <1>a DEF Masked, Lists, NoLostThread
<1>7. Sections'
  <2>1. \A d \in online : pc'[d] = pc[d]
    BY <1>2, <1>3, <1>a DEF Shapes
  <2> QED BY <1>0, <1>a, <2>1 DEF Sections
<1>8. DInv'
  BY <1>0, <1>4, <1>5, <1>6, <1>7, <1>a DEF DInv, NoPanic
<1>9. Machine'
  BY <1>0, <1>1, <1>2, <1>a DEF Machine
<1>10. Records'
  BY <1>0, <1>1, <1>a DEF Records
<1>11. Leaving'
  <2>1. \A d \in CPUs : pc'[d] = "leave" => current'[d] = Idle[d] /\ stop
    BY <1>0, <1>2, <1>a DEF Leaving
  <2>2. \A d \in done' : pc'[d] = "off"
    <3>1. \A d \in done : d \in CPUs
      BY <1>1, <1>a DEF Records
    <3> QED BY <1>0, <1>2, <1>a, <3>1 DEF Leaving
  <2> QED BY <1>0, <1>1, <1>3, <1>a, <2>1, <2>2 DEF Leaving
<1>12. Stages' /\ Staffed'
  BY <1>0, <1>1, <1>a DEF Stages, Ended, Staffed
<1>13. Owned'
  BY <1>0, <1>a DEF Owned
<1>14. Covered'
  BY <1>0, <1>a DEF Covered, Attends
<1> QED BY <1>8, <1>9, <1>10, <1>11, <1>12, <1>13, <1>14 DEF AInv

-----------------------------------------------------------------------------
(* The control side on the BSP. *)

LEMMA SignalKeeps ==
  ASSUME AInv, Signal
  PROVE  AInv'
<1> DEFINE up == Started \cup Woken
<1>0. /\ bsp.at = "signal" /\ stop' = (stop \/ bsp.op = "halt") /\ bsp' = [bsp EXCEPT !.at = "send"]
      /\ mask' = [t \in Threads |-> IF t \in Started THEN {setting.home[t]} ELSE mask[t]]
      /\ UNCHANGED <<onCpu, current, online, pc, job, doing, quitting, pool, done, setting>>
  BY DEF Signal, cpus, work
<1>a. Machine /\ Records /\ Leaving /\ Stages /\ Staffed /\ Owned /\ Covered /\ setting \in Settings /\ DInv
  BY DEF AInv, Records
<1>1. Woke(up)
  BY SignalWakes
<1>2. DInv'
  BY <1>1, <1>a, WakeKeeps
<1>3. /\ \A t \in Threads : t \notin up => state'[t] = state[t] /\ mask'[t] = mask[t]
      /\ \A t \in up : state'[t] = "READY"
  BY <1>1 DEF Woke
<1>4. /\ up \subseteq Crew /\ Crew \subseteq Threads /\ 0 \in Threads /\ 0 \notin Crew /\ Crew \cap Idles = {} /\ APs' = APs
      /\ \A c \in CPUs : Idle[c] \in Threads /\ Idle[c] \in Idles
      /\ \A w \in Started : state[w] = "NEW" /\ setting.home[w] \in APs /\ mask'[w] = {setting.home[w]}
      /\ \A w \in Crew : w \in Woken <=> state[w] = "BLOCKED" /\ mask[w] \cap bsp.to # {}
      /\ \A w \in Crew : w \notin Started => mask'[w] = mask[w]
  BY <1>0, <1>a, Cast DEF Started, Woken, APs
<1>5. pool \in Open /\ ~stop /\ APs \subseteq online
  <2>1. pool \in Open
    BY <1>0, <1>a DEF Stages
  <2>2. ~stop
    BY <1>0, <1>a, <2>1 DEF Stages
  <2> QED BY <1>a, <2>1, <2>2 DEF Stages
<1>6. bsp'.at = "send" /\ bsp'.op = bsp.op /\ bsp'.to = bsp.to
      /\ bsp' \in [at : {"ready", "signal", "send", "wait", "offline"},
                   op : {"none", "start", "submit", "migrate", "drain", "halt"}, to : SUBSET APs]
  BY <1>0, <1>a DEF Records
<1>7. Machine'
  <2>1. \A t \in Threads : t \notin Crew => state'[t] = state[t] /\ mask'[t] = mask[t]
    BY <1>3, <1>4
  <2>2. \A c \in CPUs : Idle[c] \in Threads /\ Idle[c] \notin Crew
    BY <1>4
  <2>3. UNCHANGED <<current, online, pc>> /\ APs' = APs
    BY <1>0, <1>4
  <2> QED BY ONLY <1>4, <1>a, <2>1, <2>2, <2>3 DEF Machine
<1>8. Records'
  BY <1>0, <1>4, <1>6, <1>a DEF Records
<1>9. Leaving'
  <2>1. \A c \in APs : state'[Idle[c]] = state[Idle[c]]
    <3>1. \A c \in APs : Idle[c] \in Threads /\ Idle[c] \notin up
      BY <1>4, <1>a, Cast
    <3> QED BY <1>3, <3>1
  <2>2. pool # "none"
    BY <1>5 DEF Open
  <2> QED BY <1>0, <1>4, <1>a, <2>1, <2>2 DEF Leaving
<1>10. Stages'
  <2>1. stop' \/ bsp'.op = "halt" => Ended'
    <3> SUFFICES ASSUME bsp.op = "halt" PROVE Ended'
      BY <1>0, <1>5, <1>6
    <3>1. Ended
      BY <1>a DEF Stages
    <3>2. up = {}
      BY <3>1 DEF Ended, Started, Woken
    <3> QED BY <1>0, <1>3, <1>4, <3>1, <3>2 DEF Ended
  <2> QED BY <1>0, <1>4, <1>5, <1>6, <1>a, <2>1 DEF Stages, Open
<1>11. Staffed'
  <2>1. ASSUME NEW w \in Crew, state'[w] \in {"READY", "RUNNING", "BLOCKED"}
        PROVE  \E d \in APs : mask'[w] = {d}
    <3>1. CASE w \in Started
      BY <1>4, <3>1
    <3>2. CASE w \notin Started
      <4>1. mask'[w] = mask[w]
        BY <1>4, <3>2
      <4>2. state[w] \in {"READY", "RUNNING", "BLOCKED"}
        BY <1>3, <1>4, <2>1, <3>2
      <4> QED BY <1>a, <4>1, <4>2 DEF Staffed
    <3> QED BY <3>1, <3>2
  <2>2. ASSUME NEW w \in Crew, doing[w] # None
        PROVE  state'[w] \in {"READY", "RUNNING"} /\ w \notin quitting
    BY <1>3, <1>4, <1>a, <2>2 DEF Staffed
  <2> QED BY <1>0, <1>4, <2>1, <2>2 DEF Staffed
<1>12. Owned'
  <2>1. ASSUME NEW w \in Crew, doing[w] # None
        PROVE  mask'[w] = mask[w]
    BY <1>4, <1>a, <2>1 DEF Staffed
  <2> QED BY <1>0, <1>a, <2>1 DEF Owned
<1>13. Covered'
  <2>1. ASSUME NEW z \in Slots, job[z].state = "QUEUED"
        PROVE  \E x \in Crew \ quitting : Attends(x, z)'
    <3>1. PICK x \in Crew \ quitting : Attends(x, z)
      BY <1>5, <1>a, <2>1 DEF Covered
    <3>2. x \notin Started
      BY <1>4, <3>1 DEF Attends
    <3>3. mask'[x] = mask[x]
      BY <1>4, <3>1, <3>2
    <3>4. state'[x] \in {"READY", "RUNNING"} /\ mask[x] \cap job[z].mask # {}
      <4>1. CASE state[x] \in {"READY", "RUNNING"}
        BY <1>3, <1>4, <3>1, <4>1 DEF Attends
      <4>2. CASE state[x] \notin {"READY", "RUNNING"}
        <5>1. state[x] = "BLOCKED" /\ mask[x] \cap job[z].mask \cap bsp.to # {}
          BY <3>1, <4>2 DEF Attends
        <5>2. x \in up
          BY <1>4, <3>1, <5>1
        <5> QED BY <1>3, <5>1, <5>2
      <4> QED BY <4>1, <4>2
    <3> QED BY <1>0, <3>1, <3>3, <3>4 DEF Attends
  <2> QED BY <1>0, <2>1 DEF Covered
<1> QED BY <1>2, <1>7, <1>8, <1>9, <1>10, <1>11, <1>12, <1>13 DEF AInv

LEMMA MigrateKeeps ==
  ASSUME AInv, NEW w \in Crew, NEW d, Migrate(w, d)
  PROVE  AInv'
<1>0. /\ bsp.at = "ready" /\ pool = "RUNNING" /\ Admitted /\ d \in APs
      /\ state[w] = "BLOCKED" /\ onCpu[w] = None /\ d \in online /\ mask' = [mask EXCEPT ![w] = {d}]
      /\ bsp' = [at |-> "signal", op |-> "migrate", to |-> mask[w] \cup {d}]
      /\ UNCHANGED <<state, onCpu, prio, arrivals, ready, current, outgoing, online, pc, panic, job, doing, quitting, done, pool, stop, setting>>
  BY DEF Migrate, BspIdle, Movable, Call, waiting, cpus, work, signals
<1>a. Machine /\ Records /\ Leaving /\ Stages /\ Staffed /\ Owned /\ Covered /\ setting \in Settings /\ DInv /\ Shapes /\ ~panic
  BY DEF AInv, Records, DInv, NoPanic
<1>1. w \in Threads /\ w \notin Idles /\ w # 0 /\ APs' = APs /\ APs \subseteq CPUs /\ Crew \subseteq Threads /\ 0 \in Threads
  BY <1>0, <1>a, Cast DEF APs
<1>2. /\ mask' \in [Threads -> SUBSET CPUs] /\ mask'[w] = {d} /\ \A t \in Threads : t # w => mask'[t] = mask[t]
  BY <1>0, <1>1, <1>a DEF Shapes
<1>3. DInv'
  <2>1. w \notin IdlesOnline
    BY <1>0, <1>1, <1>a, AtRest
  <2>2. /\ {w} \in SUBSET Threads
        /\ \A t \in {w} : onCpu[t] = None /\ state[t] \notin {"READY", "RUNNING"} /\ t \notin IdlesOnline
        /\ \A t \in {w} : state'[t] \notin {"READY", "RUNNING"} /\ (state'[t] = "BLOCKED" => mask'[t] # {} /\ mask'[t] \subseteq online)
        /\ \A t \in Threads \ {w} : state'[t] = state[t] /\ prio'[t] = prio[t] /\ mask'[t] = mask[t]
    BY <1>0, <1>1, <1>2, <2>1
  <2>3. state' \in [Threads -> States] /\ prio' \in [Threads -> Priorities] /\ ~panic'
    BY <1>0, <1>a DEF Shapes
  <2>4. UNCHANGED <<onCpu, arrivals, ready, current, outgoing, online, pc>>
    BY <1>0
  <2> QED BY ONLY <1>2, <1>a, <2>2, <2>3, <2>4, RetireKeeps
<1>4. mask[w] \subseteq APs
  BY <1>0 DEF Admitted
<1>5. ~stop /\ bsp'.at = "signal" /\ bsp'.op = "migrate"
  BY <1>0, <1>a DEF Stages, Open
<1>6. Machine'
  BY <1>0, <1>1, <1>2, <1>a DEF Machine
<1>7. Records'
  BY <1>0, <1>1, <1>4, <1>a DEF Records
<1>8. Leaving'
  BY <1>0, <1>1, <1>a DEF Leaving
<1>9. Stages'
  BY <1>0, <1>1, <1>5, <1>a DEF Stages, Open
<1>10. Staffed'
  BY <1>0, <1>1, <1>2, <1>a DEF Staffed
<1>11. Owned'
  <2>1. doing[w] = None
    BY <1>0, <1>a DEF Staffed
  <2> QED BY <1>0, <1>1, <1>2, <1>a, <2>1 DEF Owned
<1>12. Covered'
  <2>1. ASSUME NEW z \in Slots, job[z].state = "QUEUED"
        PROVE  \E x \in Crew \ quitting : Attends(x, z)'
    <3>1. PICK x \in Crew \ quitting : Attends(x, z)
      BY <1>0, <1>a, <2>1 DEF Covered, Open
    <3>2. state[x] \in {"READY", "RUNNING"} /\ mask[x] \cap job[z].mask # {}
      BY <1>0, <3>1 DEF Attends
    <3>3. mask'[x] = mask[x]
      BY <1>0, <1>1, <1>2, <3>1, <3>2
    <3> QED BY <1>0, <3>1, <3>2, <3>3 DEF Attends
  <2> QED BY <1>0, <2>1 DEF Covered
<1> QED BY <1>3, <1>6, <1>7, <1>8, <1>9, <1>10, <1>11, <1>12 DEF AInv

LEMMA ReclaimKeeps ==
  ASSUME AInv, Reclaim
  PROVE  AInv'
<1> DEFINE D == Crew \cup {Idle[c] : c \in APs}
<1>0. /\ bsp.at = "offline" /\ online = {0} /\ done = APs /\ pool' = "none" /\ bsp' = Ready
      /\ panic' = (panic \/ \E c \in APs : state[Idle[c]] # "NEW" \/ onCpu[Idle[c]] # None)
      /\ \A w \in Crew : state[w] = "ZOMBIE" /\ onCpu[w] = None
      /\ state' = [t \in Threads |-> IF t \in D THEN "FREE" ELSE state[t]]
      /\ mask' = [t \in Threads |-> IF t \in Crew THEN {0} ELSE mask[t]]
      /\ UNCHANGED <<onCpu, prio, arrivals, ready, current, outgoing, online, pc, job, doing, quitting, done, stop, setting>>
  BY DEF Reclaim, Reapable, waiting, cpus, work, signals
<1>a. Machine /\ Records /\ Leaving /\ Stages /\ Staffed /\ Owned /\ setting \in Settings /\ DInv /\ Shapes /\ ~panic
  BY DEF AInv, Records, DInv, NoPanic
<1>1. /\ APs' = APs /\ APs \subseteq CPUs /\ 0 \notin APs /\ Crew \subseteq Threads /\ Crew \cap Idles = {} /\ 0 \in Threads /\ 0 \notin Crew \cup Idles
      /\ 0 \in CPUs /\ (\A c \in CPUs : Idle[c] \in Threads /\ Idle[c] \in Idles) /\ \A c, d \in CPUs : Idle[c] = Idle[d] => c = d
  BY <1>0, <1>a, Cast DEF APs
<1>2. \A c \in APs : state[Idle[c]] = "NEW" /\ onCpu[Idle[c]] = None
  <2> TAKE c \in APs
  <2>1. pool \in Open
    BY <1>0, <1>a DEF Stages
  <2>2. state[Idle[c]] = "NEW"
    BY <1>0, <1>1, <1>a, <2>1 DEF Leaving, Open
  <2> QED BY <1>1, <1>a, <2>2, AtRest
<1>3. ~panic'
  BY <1>0, <1>2, <1>a
<1>4. \A t \in D : t \in Threads /\ onCpu[t] = None /\ state[t] \notin {"READY", "RUNNING"} /\ t \notin IdlesOnline
  <2>1. IdlesOnline = {Idle[0]}
    BY <1>0 DEF IdlesOnline
  <2>2. \A c \in APs : Idle[c] # Idle[0]
    BY <1>1
  <2>3. \A w \in Crew : w # Idle[0]
    BY <1>1
  <2> QED BY <1>0, <1>1, <1>2, <2>1, <2>2, <2>3
<1>5. /\ \A t \in Threads : state'[t] = IF t \in D THEN "FREE" ELSE state[t]
      /\ \A t \in Threads : mask'[t] = IF t \in Crew THEN {0} ELSE mask[t]
  <2> HIDE DEF D
  <2> QED BY <1>0
<1>6. state' \in [Threads -> States] /\ mask' \in [Threads -> SUBSET CPUs] /\ prio' \in [Threads -> Priorities]
  <2> HIDE DEF D
  <2>1. \A t \in Threads : state'[t] \in States /\ mask'[t] \in SUBSET CPUs
    <3>1. \A t \in Threads : state[t] \in States /\ mask[t] \in SUBSET CPUs
      BY <1>a DEF Shapes
    <3>2. "FREE" \in States /\ {0} \in SUBSET CPUs
      BY <1>1 DEF States
    <3> QED BY ONLY <1>5, <3>1, <3>2
  <2>2. state' = [t \in Threads |-> state'[t]]
    BY <1>0
  <2>3. mask' = [t \in Threads |-> mask'[t]]
    BY <1>0
  <2>4. prio' \in [Threads -> Priorities]
    BY <1>0, <1>a DEF Shapes
  <2> QED BY <2>1, <2>2, <2>3, <2>4
<1>c. Crew \subseteq D /\ \A c \in CPUs : Idle[c] \in D => c \in APs
  BY <1>1
<1> HIDE DEF D
<1>7. DInv'
  <2>1. /\ D \in SUBSET Threads
        /\ \A t \in D : onCpu[t] = None /\ state[t] \notin {"READY", "RUNNING"} /\ t \notin IdlesOnline
        /\ \A t \in D : state'[t] \notin {"READY", "RUNNING"} /\ (state'[t] = "BLOCKED" => mask'[t] # {} /\ mask'[t] \subseteq online)
        /\ \A t \in Threads \ D : state'[t] = state[t] /\ prio'[t] = prio[t] /\ mask'[t] = mask[t]
    <3>1. \A t \in D : t \in Threads /\ state'[t] = "FREE"
      BY <1>4, <1>5
    <3>2. \A t \in Threads \ D : state'[t] = state[t] /\ prio'[t] = prio[t] /\ mask'[t] = mask[t]
      BY <1>0, <1>5, <1>c
    <3> QED BY <1>4, <3>1, <3>2
  <2>2. UNCHANGED <<onCpu, arrivals, ready, current, outgoing, online, pc>>
    BY <1>0
  <2> QED BY ONLY <1>3, <1>6, <1>a, <2>1, <2>2, RetireKeeps
<1>8. bsp'.at = "ready" /\ bsp'.op = "none" /\ bsp'.to = {} /\ pool' = "none"
      /\ bsp' \in [at : {"ready", "signal", "send", "wait", "offline"},
                   op : {"none", "start", "submit", "migrate", "drain", "halt"}, to : SUBSET APs]
  BY <1>0 DEF Ready
<1>9. Machine'
  <2>1. \A t \in Threads \ (Crew \cup Idles \cup {0}) : t \notin D
    BY <1>1 DEF D
  <2>2. \A c \in CPUs \ (APs \cup {0}) : Idle[c] \in Threads /\ Idle[c] \notin D
    BY <1>1, <1>c
  <2> QED BY <1>0, <1>1, <1>5, <1>a, <2>1, <2>2 DEF Machine
<1>10. Records'
  BY <1>0, <1>1, <1>8, <1>a DEF Records
<1>11. Leaving'
  BY <1>0, <1>1, <1>8, <1>a DEF Leaving
<1>12. Ended'
  BY <1>0, <1>1, <1>5, <1>c DEF Ended
<1>13. Stages'
  BY <1>0, <1>8, <1>12 DEF Stages, Open
<1>14. \A w \in Crew : state'[w] = "FREE" /\ doing[w] = None
  BY <1>0, <1>1, <1>5, <1>a, <1>c DEF Staffed
<1>15. Staffed' /\ Owned'
  BY <1>0, <1>1, <1>14, <1>a DEF Staffed, Owned
<1>16. Covered'
  BY <1>8 DEF Covered, Open
<1> QED BY <1>7, <1>9, <1>10, <1>11, <1>13, <1>15, <1>16 DEF AInv

\* A control step that leaves the CPUs, the threads and what they do alone.
Controls ==
  /\ UNCHANGED <<state, onCpu, prio, mask, arrivals, ready, current, outgoing, online, pc, panic>>
  /\ UNCHANGED <<doing, quitting, setting, stop, done>>

LEMMA ControlsKeep ==
  ASSUME AInv, Controls
  PROVE  /\ DInv' /\ Machine' /\ Staffed' /\ APs' = APs
         /\ Ended' = Ended
         /\ job' = job => Owned'
<1>1. ~panic'
  BY DEF AInv, DInv, NoPanic, Controls
<1>2. DInv'
  BY <1>1, DispatcherStands DEF AInv, Controls
<1>3. Machine' /\ Staffed' /\ APs' = APs /\ Ended' = Ended
  BY DEF AInv, Controls, Machine, Staffed, Ended, APs
<1>4. job' = job => Owned'
  BY DEF AInv, Controls, Owned
<1> QED BY <1>2, <1>3, <1>4

\* The steps that change no slot: one call begins, goes on, gives up or ends.
LEMMA StageKeeps ==
  ASSUME AInv, Start \/ BringupTimeout \/ Stop \/ Send \/ Fail \/ Waited
  PROVE  AInv'
<1>a. /\ Machine /\ Records /\ Leaving /\ Stages /\ Staffed /\ Owned /\ Covered /\ setting \in Settings
      /\ bsp \in [at : {"ready", "signal", "send", "wait", "offline"},
                  op : {"none", "start", "submit", "migrate", "drain", "halt"}, to : SUBSET APs]
  BY DEF AInv, Records
<1>1. Controls /\ job' = job
  BY DEF Start, BringupTimeout, Stop, Send, Fail, Waited, SchedulerUnchanged, Controls, dvars, threadPolicy, waiting, cpus, work, signals
<1>2. DInv' /\ Machine' /\ Staffed' /\ Owned' /\ APs' = APs /\ Ended' = Ended
  BY <1>1, ControlsKeep
<1>u. UNCHANGED <<state, mask, online, pc, current, job, doing, quitting, setting, stop, done>>
  BY <1>1 DEF Controls
<1>3. SUFFICES Records' /\ Leaving' /\ Stages' /\ Covered'
  BY <1>2 DEF AInv
<1>b. /\ Ready.at = "ready" /\ Ready.op = "none" /\ Ready.to = {}
      /\ Ready \in [at : {"ready", "signal", "send", "wait", "offline"},
                    op : {"none", "start", "submit", "migrate", "drain", "halt"}, to : SUBSET APs]
  BY DEF Ready
<1>4. CASE Start
  <2>1. /\ bsp.at = "ready" /\ pool = "PREPARED" /\ online = APs \cup {0} /\ pool' = "RUNNING"
        /\ bsp' = [at |-> "signal", op |-> "start", to |-> APs]
    BY <1>4 DEF Start, BspIdle, Call
  <2>2. ~stop /\ quitting = {} /\ \A s \in Slots : job[s].state # "QUEUED"
    BY <1>a, <2>1 DEF Stages
  <2>3. Records'
    BY <1>2, <1>a, <1>u, <2>1 DEF Records
  <2>4. Leaving'
    BY <1>2, <1>a, <1>u, <2>1 DEF Leaving
  <2>5. Stages'
    BY <1>2, <1>a, <1>u, <2>1, <2>2 DEF Stages, Open
  <2>6. Covered'
    BY <1>u, <2>2 DEF Covered
  <2> QED BY <2>3, <2>4, <2>5, <2>6
<1>5. CASE BringupTimeout
  <2>1. /\ bsp.at = "ready" /\ pool = "PREPARED" /\ pool' = "FAILED" /\ bsp' = bsp
    BY <1>5 DEF BringupTimeout, BspIdle
  <2>2. ~stop
    BY <1>a, <2>1 DEF Stages
  <2>3. Records' /\ Leaving'
    BY <1>2, <1>a, <1>u, <2>1 DEF Records, Leaving
  <2>4. Stages'
    BY <1>2, <1>a, <1>u, <2>1, <2>2 DEF Stages, Open
  <2>5. Covered'
    BY <2>1 DEF Covered, Open
  <2> QED BY <2>3, <2>4, <2>5
<1>6. CASE Stop
  <2>1. /\ bsp.at = "ready" /\ pool \in {"RUNNING", "DRAINING"} /\ pool' = "DRAINING"
        /\ bsp' = [at |-> "signal", op |-> "drain", to |-> APs]
    BY <1>6 DEF Stop, BspIdle, Call
  <2>2. ~stop /\ APs \subseteq online
    BY <1>a, <2>1 DEF Stages, Open
  <2>3. Records' /\ Leaving'
    BY <1>2, <1>a, <1>u, <2>1 DEF Records, Leaving
  <2>4. Stages'
    BY <1>2, <1>a, <1>u, <2>1, <2>2 DEF Stages, Open
  <2>5. Covered'
    <3>1. ASSUME NEW s \in Slots, job[s].state = "QUEUED"
          PROVE  \E w \in Crew \ quitting : Attends(w, s)'
      <4>1. PICK w \in Crew \ quitting : Attends(w, s)
        BY <1>a, <2>1, <3>1 DEF Covered, Open
      <4>2. Attends(w, s)'
        BY <1>u, <2>1, <4>1 DEF Attends
      <4> QED BY <4>1, <4>2
    <3> QED BY <1>u, <3>1 DEF Covered
  <2> QED BY <2>3, <2>4, <2>5
<1>7. CASE Send
  <2> DEFINE c == CHOOSE x \in bsp.to : \A y \in bsp.to : x <= y
             at == IF bsp.to = {c} THEN AfterSend ELSE "send"
  <2>0. /\ bsp.at = "send" /\ bsp' = (IF at = "ready" THEN Ready ELSE [bsp EXCEPT !.at = at, !.to = @ \ {c}]) /\ pool' = pool
    BY <1>7 DEF Send
  <2>1. at \in {"ready", "send", "wait", "offline"} /\ (bsp.op = "halt" => at \in {"send", "offline"})
    <3> HIDE DEF c
    <3>1. bsp.op = "submit" \/ bsp.op = "halt" \/ (bsp.op # "submit" /\ bsp.op # "halt")
      OBVIOUS
    <3> QED BY <3>1 DEF AfterSend
  <2> HIDE DEF c, at
  <2>2. /\ bsp' \in [at : {"ready", "signal", "send", "wait", "offline"},
                     op : {"none", "start", "submit", "migrate", "drain", "halt"}, to : SUBSET APs]
        /\ bsp'.at = at /\ bsp'.op \in {bsp.op, "none"} /\ (bsp.op = "halt" => bsp'.op = "halt")
    BY <1>a, <1>b, <2>0, <2>1
  <2>3. Records'
    BY <1>2, <1>a, <1>u, <2>0, <2>2 DEF Records
  <2>4. pool \in Open
    BY <1>a, <2>0 DEF Stages
  <2>5. Leaving'
    BY <1>2, <1>a, <1>u, <2>0, <2>4 DEF Leaving, Open
  <2>6. Stages'
    BY <1>2, <1>a, <1>u, <2>0, <2>1, <2>2, <2>4 DEF Stages
  <2>7. Covered'
    <3>1. ASSUME NEW s \in Slots, job[s].state = "QUEUED"
          PROVE  \E w \in Crew \ quitting : Attends(w, s)'
      <4>1. PICK w \in Crew \ quitting : Attends(w, s)
        BY <1>a, <2>4, <3>1 DEF Covered
      <4>2. Attends(w, s)'
        BY <1>u, <2>0, <4>1 DEF Attends
      <4> QED BY <4>1, <4>2
    <3> QED BY <1>u, <3>1 DEF Covered
  <2> QED BY <2>3, <2>5, <2>6, <2>7
<1>8. CASE Fail
  <2>1. bsp.at \in {"send", "wait", "offline"} /\ pool' = "FAILED" /\ bsp' = Ready
    BY <1>8 DEF Fail
  <2>2. pool # "none"
    BY <1>a, <2>1 DEF Stages, Open
  <2>3. Records'
    BY <1>2, <1>a, <1>b, <1>u, <2>1 DEF Records
  <2>4. Leaving'
    BY <1>2, <1>a, <1>u, <2>1, <2>2 DEF Leaving
  <2>5. Stages'
    BY <1>2, <1>a, <1>b, <1>u, <2>1 DEF Stages, Open
  <2>6. Covered'
    BY <2>1 DEF Covered, Open
  <2> QED BY <2>3, <2>4, <2>5, <2>6
<1>9. CASE Waited
  <2>1. /\ bsp.at = "wait" /\ pool' = pool
        /\ \/ bsp' = Ready
           \/ bsp' = [at |-> "signal", op |-> "halt", to |-> APs] /\ \A w \in Crew : state[w] = "ZOMBIE" /\ onCpu[w] = None
    BY <1>9 DEF Waited, Call, Reapable
  <2>2. pool \in Open /\ ~stop /\ APs \subseteq online
    <3>1. pool \in Open
      BY <1>a, <2>1 DEF Stages
    <3>2. ~stop
      BY <1>a, <2>1, <3>1 DEF Stages
    <3> QED BY <1>a, <3>1, <3>2 DEF Stages
  <2>3. bsp'.op = "halt" => Ended
    BY <1>b, <2>1 DEF Ended
  <2>4. Records'
    BY <1>2, <1>a, <1>b, <1>u, <2>1 DEF Records
  <2>5. Leaving'
    BY <1>2, <1>a, <1>u, <2>1, <2>2 DEF Leaving, Open
  <2>6. Stages'
    BY <1>2, <1>a, <1>b, <1>u, <2>1, <2>2, <2>3 DEF Stages
  <2>7. Covered'
    <3>1. ASSUME NEW s \in Slots, job[s].state = "QUEUED"
          PROVE  \E w \in Crew \ quitting : Attends(w, s)'
      <4>1. PICK w \in Crew \ quitting : Attends(w, s)
        BY <1>a, <2>2, <3>1 DEF Covered
      <4>2. Attends(w, s)'
        BY <1>u, <2>1, <4>1 DEF Attends
      <4> QED BY <4>1, <4>2
    <3> QED BY <1>u, <3>1 DEF Covered
  <2> QED BY <2>4, <2>5, <2>6, <2>7
<1> QED BY <1>4, <1>5, <1>6, <1>7, <1>8, <1>9

\* A job is accepted only while a worker of one of its CPUs exists: awake, or to be woken.
LEMMA SubmitKeeps ==
  ASSUME AInv, NEW m, Submit(m)
  PROVE  AInv'
<1> DEFINE s == CHOOSE x \in Reusable : \A y \in Reusable : x <= y
           Rec == [state : {"FREE", "QUEUED", "RUNNING", "DONE"}, gen : Nat, mask : SUBSET APs,
                   worker : Crew \cup {None}, cpu : APs \cup {None}]
           fresh == [Blank(job[s].gen + 1) EXCEPT !.state = "QUEUED", !.mask = m]
<1>0. /\ bsp.at = "ready" /\ pool = "RUNNING" /\ Admitted /\ m \subseteq APs /\ m \cap Coverage(None, None) # {} /\ Reusable # {}
      /\ bsp' = [at |-> "signal", op |-> "submit", to |-> m] /\ pool' = pool
      /\ job' = [job EXCEPT ![s] = fresh]
  BY DEF Submit, BspIdle, Call
<1>1. Controls
  BY DEF Submit, SchedulerUnchanged, Controls, dvars, threadPolicy, waiting, cpus, signals
<1>2. DInv' /\ Machine' /\ Staffed' /\ APs' = APs /\ Ended' = Ended
  BY <1>1, ControlsKeep
<1>u. UNCHANGED <<state, mask, online, pc, current, doing, quitting, setting, stop, done>>
  BY <1>1 DEF Controls
<1>a. Machine /\ Records /\ Leaving /\ Stages /\ Staffed /\ Owned /\ Covered /\ setting \in Settings
  BY DEF AInv, Records
<1>3. s \in Slots /\ job[s].state = "FREE"
  <2>1. Reusable \subseteq Nat
    BY ApWorkAssumption DEF Reusable
  <2>2. \E x \in Reusable : \A y \in Reusable : x <= y
    BY <1>0, <2>1, LeastNat
  <2>3. s \in Reusable
    BY <2>2
  <2> HIDE DEF s
  <2> QED BY <2>3 DEF Reusable
<1> HIDE DEF s
<1>4. job \in [Slots -> Rec] /\ job[s].gen \in Nat /\ fresh \in Rec
  <2>1. job \in [Slots -> Rec]
    BY <1>a DEF Records
  <2>2. job[s].gen \in Nat
    BY <1>3, <2>1
  <2>3. Blank(job[s].gen + 1) \in Rec
    BY <2>2 DEF Blank
  <2>4. \A r \in Rec : [r EXCEPT !.state = "QUEUED", !.mask = m] \in Rec
    BY <1>0
  <2> HIDE DEF Rec
  <2> QED BY <2>1, <2>2, <2>3, <2>4
<1>5. /\ \A z \in Slots : z # s => job'[z] = job[z]
      /\ job'[s].state = "QUEUED" /\ job'[s].mask = m
      /\ job' \in [Slots -> Rec]
  <2>1. fresh.state = "QUEUED" /\ fresh.mask = m
    BY DEF Blank
  <2> HIDE DEF fresh, Rec
  <2> QED BY <1>0, <1>3, <1>4, <2>1
<1>6. ~stop /\ quitting = {} /\ APs \subseteq online
  BY <1>0, <1>a DEF Stages, Open
<1>7. Records'
  BY <1>0, <1>2, <1>5, <1>a, <1>u DEF Records
<1>8. Leaving'
  BY <1>0, <1>2, <1>a, <1>u DEF Leaving
<1>9. Stages'
  BY <1>0, <1>2, <1>6, <1>a, <1>u DEF Stages, Open
<1>10. Owned'
  <2>1. ASSUME NEW w \in Crew, doing[w] # None
        PROVE  job'[doing[w][1]] = job[doing[w][1]]
    <3>1. doing[w][1] \in Slots /\ job[doing[w][1]].state = "RUNNING"
      BY <1>a, <2>1 DEF Records, Owned
    <3> QED BY <1>3, <1>5, <3>1
  <2>2. \A z \in Slots : job'[z].state = "RUNNING" => job'[z] = job[z]
    BY <1>5
  <2> QED BY <1>a, <1>u, <2>1, <2>2 DEF Owned
<1>11. Covered'
  <2>1. ASSUME NEW z \in Slots, job'[z].state = "QUEUED"
        PROVE  \E w \in Crew \ quitting : Attends(w, z)'
    <3>1. CASE z = s
      <4>1. PICK w \in Crew : m \cap mask[w] # {}
        <5>1. None \notin Crew
          BY Cast
        <5> QED BY <1>0, <5>1 DEF Coverage
      <4>2. state[w] \in {"BLOCKED", "READY", "RUNNING"}
        BY <1>0 DEF Admitted
      <4>3. Attends(w, z)'
        BY <1>0, <1>5, <1>u, <3>1, <4>1, <4>2 DEF Attends
      <4> QED BY <1>6, <4>1, <4>3
    <3>2. CASE z # s
      <4>1. job'[z] = job[z]
        BY <1>5, <3>2
      <4>2. PICK w \in Crew \ quitting : Attends(w, z)
        BY <1>0, <1>a, <2>1, <4>1 DEF Covered, Open
      <4>3. Attends(w, z)'
        BY <1>0, <1>u, <4>1, <4>2 DEF Attends
      <4> QED BY <4>3
    <3> QED BY <3>1, <3>2
  <2> QED BY <1>u, <2>1 DEF Covered
<1> QED BY <1>2, <1>7, <1>8, <1>9, <1>10, <1>11 DEF AInv

LEMMA ReleaseKeeps ==
  ASSUME AInv, NEW s \in Slots, ReleaseJob(s)
  PROVE  AInv'
<1> DEFINE Rec == [state : {"FREE", "QUEUED", "RUNNING", "DONE"}, gen : Nat, mask : SUBSET APs,
                   worker : Crew \cup {None}, cpu : APs \cup {None}]
           blank == Blank(job[s].gen)
<1>0. job[s].state = "DONE" /\ pool' = pool /\ bsp' = bsp /\ job' = [job EXCEPT ![s] = blank]
  BY DEF ReleaseJob
<1>1. Controls
  BY DEF ReleaseJob, SchedulerUnchanged, Controls, dvars, threadPolicy, waiting, cpus, signals
<1>2. DInv' /\ Machine' /\ Staffed' /\ APs' = APs /\ Ended' = Ended
  BY <1>1, ControlsKeep
<1>u. UNCHANGED <<state, mask, online, pc, current, doing, quitting, setting, stop, done>>
  BY <1>1 DEF Controls
<1>a. Machine /\ Records /\ Leaving /\ Stages /\ Staffed /\ Owned /\ Covered /\ setting \in Settings
  BY DEF AInv, Records
<1>4. job \in [Slots -> Rec] /\ blank \in Rec /\ blank.state = "FREE"
  <2>1. job \in [Slots -> Rec]
    BY <1>a DEF Records
  <2>2. job[s].gen \in Nat
    BY <2>1
  <2> QED BY <2>1, <2>2 DEF Blank
<1>5. /\ \A z \in Slots : z # s => job'[z] = job[z]
      /\ job'[s].state = "FREE" /\ job' \in [Slots -> Rec]
  <2> HIDE DEF blank, Rec
  <2> QED BY <1>0, <1>4
<1>7. Records'
  BY <1>0, <1>2, <1>5, <1>a, <1>u DEF Records
<1>8. Leaving'
  BY <1>0, <1>2, <1>a, <1>u DEF Leaving
<1>b. \A z \in Slots : job'[z].state = "QUEUED" \/ job'[z].state = "RUNNING" => job'[z] = job[z]
  BY <1>5
<1>9. Stages'
  BY <1>0, <1>2, <1>a, <1>b, <1>u DEF Stages
<1>10. Owned'
  <2>1. ASSUME NEW w \in Crew, doing[w] # None
        PROVE  job'[doing[w][1]] = job[doing[w][1]]
    <3>1. doing[w][1] \in Slots /\ job[doing[w][1]].state = "RUNNING"
      BY <1>a, <2>1 DEF Records, Owned
    <3> QED BY <1>0, <1>5, <3>1
  <2> QED BY <1>a, <1>b, <1>u, <2>1 DEF Owned
<1>11. Covered'
  <2>1. ASSUME pool \in Open, NEW z \in Slots, job'[z].state = "QUEUED"
        PROVE  \E w \in Crew \ quitting : Attends(w, z)'
    <3>1. job'[z] = job[z]
      BY <1>b, <2>1
    <3>2. PICK w \in Crew \ quitting : Attends(w, z)
      BY <1>a, <2>1, <3>1 DEF Covered
    <3>3. Attends(w, z)'
      BY <1>0, <1>u, <3>1, <3>2 DEF Attends
    <3> QED BY <3>3
  <2> QED BY <1>0, <1>u, <2>1 DEF Covered
<1> QED BY <1>2, <1>7, <1>8, <1>9, <1>10, <1>11 DEF AInv

-----------------------------------------------------------------------------
\* Every step of the service keeps the invariant.
LEMMA NextAInv == AInv /\ [Next]_vars => AInv'
<1> SUFFICES ASSUME AInv, [Next]_vars PROVE AInv'
  OBVIOUS
<1>1. CASE UNCHANGED vars
  <2>1. Stands
    BY <1>1 DEF vars, dvars, threadPolicy, waiting, cpus, work, control, signals, Stands, AInv, DInv, NoPanic
  <2> QED BY <2>1, StandsKeeps
<1>2. CASE Start \/ BringupTimeout \/ Stop \/ Fail \/ Send \/ Waited
  BY <1>2, StageKeeps
<1>3. CASE Signal
  BY <1>3, SignalKeeps
<1>4. CASE Reclaim
  BY <1>4, ReclaimKeeps
<1>5. CASE \E m \in setting.masks : Submit(m)
  BY <1>5, SubmitKeeps
<1>6. CASE \E s \in Slots : ReleaseJob(s)
  BY <1>6, ReleaseKeeps
<1>7. CASE \E w \in Crew, d \in setting.moves : Migrate(w, d)
  BY <1>7, MigrateKeeps
<1>8. ASSUME NEW c \in APs, Admit(c) \/ Withdraw(c) \/ FinishCpu(c)
      PROVE  AInv'
  BY <1>8, AdmissionKeeps, WithdrawalKeeps, FinishCpuKeeps
<1>9. ASSUME NEW c \in APs, IdleLeave(c) \/ Reschedule(c) \/ ApTick(c) \/ LateIpi(c)
      PROVE  AInv'
  BY <1>9, CpuStepKeeps
<1>10. ASSUME NEW c \in APs, ApSchedule(c) \/ ApComplete(c)
       PROVE  AInv'
  BY <1>10, ApScheduleKeeps, ApCompleteKeeps
<1>11. ASSUME NEW c \in APs, NEW w \in Crew, WorkerStep(c, w)
       PROVE  AInv'
  <2>1. Claim(c, w) \/ Quit(c, w) \/ (Park(c, w) \/ WorkerExit(c, w)) \/ FinishJob(c, w)
    BY <1>11 DEF WorkerStep
  <2> QED BY <2>1, ClaimKeeps, QuitKeeps, ParkKeeps, FinishJobKeeps
<1> QED BY <1>1, <1>2, <1>3, <1>4, <1>5, <1>6, <1>7, <1>8, <1>9, <1>10, <1>11 DEF Next, BspStep

\* The service's inductive invariant: no KASSERT of the dispatcher or of the worker service fails
\* (NoPanic is one of its parts) whatever the CPUs, the workers and the BSP do in between.
THEOREM ServiceKeeps == Spec => []AInv
<1>1. Init => AInv
  BY InitAInv
<1>2. AInv /\ [Next]_vars => AInv'
  BY NextAInv
<1> QED BY <1>1, <1>2, PTL DEF Spec

\* A worker's or idle thread's kernel stack is live on at most one CPU and is not in a queue
\* while it is live, although the BSP wakes workers in the middle of their switch
\* ("cannot publish a still-executing stack", sched.c:292).
THEOREM StacksHaveOneOwner == Spec => []StackOwnedOnce
<1>1. ASSUME AInv PROVE StackOwnedOnce
  <2>1. Shapes /\ Live /\ Lists
    BY <1>1 DEF AInv, DInv
  <2>2. ASSUME NEW t \in Threads
        PROVE  /\ {c \in CPUs : t \in {current[c], outgoing[c]}} = IF onCpu[t] = None THEN {} ELSE {onCpu[t]}
               /\ onCpu[t] # None => ~Queued(t)
    <3>1. \A c \in CPUs : t \in {current[c], outgoing[c]} <=> onCpu[t] = c
      <4> TAKE c \in CPUs
      <4>1. None \notin Threads
        BY Cast
      <4>2. t = current[c] => onCpu[t] = c
        BY <2>1, <4>1, LiveOn
      <4>3. t = outgoing[c] => onCpu[t] = c
        BY <2>1, <4>1, LiveOn
      <4>4. onCpu[t] = c => t = current[c] \/ t = outgoing[c]
        BY <2>1, LiveOn
      <4> QED BY <4>2, <4>3, <4>4
    <3>2. onCpu[t] \in CPUs \cup {None} /\ None \notin CPUs
      BY <2>1, Cast DEF Shapes
    <3>3. onCpu[t] # None => ~Queued(t)
      <4>1. \A c \in CPUs, p \in Priorities : t \in Elems(ready[c][p]) => onCpu[t] = None
        BY <2>1, Linked
      <4> QED BY <4>1, QueuedMeans
    <3> QED BY <3>1, <3>2, <3>3
  <2> QED BY <2>2 DEF StackOwnedOnce
<1> QED BY <1>1, ServiceKeeps, PTL

\* The page run of the pool and the cohort's stacks are freed only after every AP has left
\* its stack and reported (sched_ap_work_stop, sched.c:43).
THEOREM PoolIsFreedLast == Spec => []PoolOutlivesCpus
<1>1. ASSUME AInv PROVE PoolOutlivesCpus
  <2>1. Shapes /\ Live /\ Leaving /\ setting \in Settings
    BY <1>1 DEF AInv, DInv, Records
  <2>2. ASSUME pool = "none", NEW c \in APs
        PROVE  pc[c] = "off" /\ current[c] = None
    <3>1. pc[c] = "off" /\ c \in CPUs
      BY <2>1, <2>2, Cast DEF Leaving
    <3> QED BY <2>1, <3>1, LiveOn
  <2> QED BY <2>2 DEF PoolOutlivesCpus
<1> QED BY <1>1, ServiceKeeps, PTL

\* A claimed slot is executed by the one worker that claimed it, on a CPU its submitter
\* allowed, with a cookie that is still the slot's (shz_ap_work_claim_locked and complete_locked).
THEOREM JobsHaveOneOwner == Spec => []JobOwnedOnce
<1>1. ASSUME AInv PROVE JobOwnedOnce
  <2>1. Records /\ Owned
    BY <1>1 DEF AInv
  <2>2. ASSUME NEW s \in Slots
        PROVE  LET owners == {w \in Crew : doing[w] # None /\ doing[w][1] = s}
               IN  /\ owners = IF job[s].state = "RUNNING" THEN {job[s].worker} ELSE {}
                   /\ \A w \in owners : doing[w][2] = job[s].gen /\ mask[w] = {job[s].cpu} /\ job[s].cpu \in job[s].mask
    <3> DEFINE owners == {w \in Crew : doing[w] # None /\ doing[w][1] = s}
    <3>1. \A w \in owners : /\ job[s].state = "RUNNING" /\ job[s].worker = w /\ doing[w][2] = job[s].gen
                            /\ mask[w] = {job[s].cpu} /\ job[s].cpu \in job[s].mask
      BY <2>1 DEF Owned
    <3>2. job[s].state = "RUNNING" => job[s].worker \in owners
      BY <2>1 DEF Owned
    <3> HIDE DEF owners
    <3>3. owners = IF job[s].state = "RUNNING" THEN {job[s].worker} ELSE {}
      BY <3>1, <3>2
    <3> QED BY <3>1, <3>3 DEF owners
  <2> QED BY <2>2 DEF JobOwnedOnce
<1> QED BY <1>1, ServiceKeeps, PTL

\* No wake-up is lost between submit and park: once ap_work_signal has run, every queued job
\* has a worker of one of its CPUs that is awake and not on its way to thread_exit.
THEOREM NoJobIsStranded == Spec => []NoJobStranded
<1>1. ASSUME AInv PROVE NoJobStranded
  <2>1. Covered
    BY <1>1 DEF AInv
  <2> QED BY <2>1 DEF Covered, Attends, Open, NoJobStranded
<1> QED BY <1>1, ServiceKeeps, PTL
=============================================================================
