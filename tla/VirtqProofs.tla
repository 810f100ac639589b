---------------------------- MODULE VirtqProofs ----------------------------
(***************************************************************************)
(* No notification is lost, descriptors are neither lost nor shared, and a *)
(* finished batch has its own answers, for every queue size, wrap of the   *)
(* indices and length of chains. When the queue size divides the range of  *)
(* the indices, every chain in flight is in exactly one place.             *)
(***************************************************************************)
EXTENDS Virtq, TLAPS, FiniteSetTheorems, FunctionTheorems, NaturalsInduction, WellFoundedInduction

(* The least element, which stands in for induction. *)

LEMMA LeastNat ==
  ASSUME NEW T, T \subseteq Nat, T # {}
  PROVE  \E n \in T : \A m \in T : n <= m
<1> DEFINE R == {ss \in Nat \X Nat : ss[1] < ss[2]}
<1>1. IsWellFoundedOn(R, Nat)
  BY NatLessThanWellFounded DEF OpToRel
<1>2. PICK x \in T : \A y \in T : ~(<<y, x>> \in R)
  BY <1>1, WFMin
<1>3. \A y \in T : x <= y
  <2> TAKE y \in T
  <2>1. x \in Nat /\ y \in Nat /\ <<y, x>> \notin R
    BY <1>2
  <2>2. ~(y < x)
    BY <2>1
  <2> QED BY <2>1, <2>2
<1> QED BY <1>3

LEMMA SetInduction ==
  ASSUME NEW T, 0 \in T, \A n \in Nat : n \in T => n + 1 \in T
  PROVE  \A n \in Nat : n \in T
<1> SUFFICES ASSUME Nat \ T # {} PROVE FALSE
  OBVIOUS
<1>1. PICK n \in Nat \ T : \A m \in Nat \ T : n <= m
  BY LeastNat
<1>2. n # 0 /\ n - 1 \in Nat /\ n - 1 \in T
  BY <1>1
<1> QED BY <1>1, <1>2

-----------------------------------------------------------------------------
(* Walks along the next links. Everything here is about one table D of       *)
(* descriptors, so that it can be used before and after a step.              *)

Inj(w) == \A i, j \in DOMAIN w : w[i] = w[j] => i = j

Step(D, d) == IF d \in Descs THEN D[d].next ELSE Bogus
WalkIn(D, d, n) ==
  LET at[k \in 1 .. n] == IF k = 1 THEN d ELSE Step(D, at[k - 1])
  IN  at

\* A walk that stays in the table and visits nobody twice.
Runs(D, d, n) == WalkIn(D, d, n) \in [1 .. n -> Descs] /\ Inj(WalkIn(D, d, n))
Visited(D, d, n) == {WalkIn(D, d, n)[k] : k \in 1 .. n}

Heads(C) == {h \in Descs : C[h].len > 0}

\* RingIntact without cardinalities: a table D, a free list of n descriptors from
\* `head' on and the chains C share out the descriptors.
SharedOut(D, head, n, C) ==
  /\ Runs(D, head, n)
  /\ \A h \in Heads(C) : Runs(D, h, C[h].len)
  /\ \A h \in Heads(C) : Visited(D, h, C[h].len) \cap Visited(D, head, n) = {}
  /\ \A g, h \in Heads(C) : g # h => Visited(D, g, C[g].len) \cap Visited(D, h, C[h].len) = {}
  /\ \A x \in Descs : x \in Visited(D, head, n) \/ \E h \in Heads(C) : x \in Visited(D, h, C[h].len)
\* The descriptors of a chain are those of its command, linked up to the last.
Labelled(D, C) ==
  \A h \in Heads(C) : \A k \in 1 .. C[h].len :
    LET e == D[WalkIn(D, h, C[h].len)[k]] IN e.slot = C[h].slot /\ (e.more <=> k < C[h].len)

SlotNumbers == 1 .. MaxSlots
Table == [next : Nat, more : BOOLEAN, slot : SlotNumbers \cup {None}]
Typed ==
  /\ desc \in [Descs -> Table] /\ freeHead \in Nat /\ numFree \in Nat
  /\ chain \in [Descs -> [len : Nat, slot : SlotNumbers \cup {None}]]
Chains == Typed /\ SharedOut(desc, freeHead, numFree, chain) /\ Labelled(desc, chain)

-----------------------------------------------------------------------------
(* Where the chains are. *)

Entries(r) == {r[i] : i \in Descs} \ {Bogus}
Once(r) == \A i, j \in Descs : r[i] = r[j] /\ r[i] # Bogus => i = j

Rings ==
  /\ avail \in [idx : 0 .. IdxMod - 1, pending : Nat, ring : [Descs -> 0 .. Size]]
  /\ used \in [idx : 0 .. IdxMod - 1, ring : [Descs -> 0 .. Size]]
  /\ lastUsed \in 0 .. IdxMod - 1
  /\ dev \in [last : 0 .. IdxMod - 1, held : SUBSET Descs, quiet : BOOLEAN, awake : BOOLEAN]

\* At most one: no chain is in two entries of the rings, or in a ring and at the device.
Apart ==
  /\ Once(avail.ring) /\ Once(used.ring)
  /\ Entries(avail.ring) \cap Entries(used.ring) = {}
  /\ dev.held \cap (Entries(avail.ring) \cup Entries(used.ring)) = {}
  /\ dev.held \cup Entries(avail.ring) \cup Entries(used.ring) \subseteq InFlight

\* The commands: a chain has a slot of its own that vg_run waits for; what was
\* answered has its answer; a slot that nobody waits for was answered.
Commanded ==
  /\ slots \in [SlotNumbers -> [req : Commands \cup {None}, resp : Commands \cup {None}]]
  /\ pending \subseteq Batch /\ \E n \in 0 .. MaxSlots : Batch = 1 .. n
  /\ \A h \in InFlight : chain[h].slot \in pending
  /\ \A g, h \in InFlight : chain[g].slot = chain[h].slot => g = h
  /\ \A h \in Entries(used.ring) : slots[chain[h].slot].resp = slots[chain[h].slot].req
  /\ ok => \A k \in Batch \ pending : slots[k].resp = slots[k].req
  /\ ok \/ pc = "idle"

QInv == Chains /\ Rings /\ Apart /\ Commanded
-----------------------------------------------------------------------------
(* Exactly one, when the size divides the range of the indices. *)
Divides == IdxMod % Size = 0 /\ IdxMod > Size + 1
At(x, k) == ((x + k) % IdxMod) % Size
Gap(a, b) == (b - a) % IdxMod
Published == Gap(dev.last, avail.idx)
Ahead == Published + avail.pending
Answered == Gap(lastUsed, used.idx)

\* The driver publishes a batch as a whole and after the last was answered.
Batched ==
  /\ ok /\ pc = "idle" => pending = {}
  /\ ok /\ pc \in {"idle", "add", "kick"} => dev.last = avail.idx /\ dev.held = {} /\ Entries(used.ring) = {}
  /\ ok /\ pc \notin {"add", "kick"} => avail.pending = 0

\* The available ring is full of chains from dev.last on and empty elsewhere.
Offered ==
  /\ Ahead <= Size
  /\ \A k \in 0 .. Ahead - 1 : avail.ring[At(dev.last, k)] # Bogus
  /\ \A i \in Descs : avail.ring[i] # Bogus => \E k \in 0 .. Ahead - 1 : i = At(dev.last, k)

\* In the used ring at most one unread entry has no chain, and it is the oldest while
\* any chain is yet to be answered: only that one may be overwritten.
Returned ==
  /\ \A i \in Descs : used.ring[i] # Bogus => \E k \in 0 .. Answered - 1 : i = At(lastUsed, k)
  /\ Answered <= Cardinality(Entries(used.ring)) + 1
  /\ Answered = Cardinality(Entries(used.ring)) + 1 /\ dev.held \cup Entries(avail.ring) # {}
       => used.ring[At(lastUsed, 0)] = Bogus

Everywhere == InFlight \subseteq dev.held \cup Entries(avail.ring) \cup Entries(used.ring)

PInv == QInv /\ Batched /\ Offered /\ Returned /\ Everywhere

-----------------------------------------------------------------------------
(* Walks. *)

LEMMA SizeFacts == Size \in Nat /\ Size > 0 /\ Descs \subseteq Nat /\ Bogus \in Nat /\ Bogus \notin Descs
  BY VirtqAssumption DEF Descs, Bogus

LEMMA WalksAreThese ==
  /\ \A d, n : Walk(d, n) = WalkIn(desc, d, n)
  /\ \A d, n : Walk(d, n)' = WalkIn(desc', d, n)
  BY DEF Walk, Follow, WalkIn, Step

\* A walk is what its definition says.
LEMMA WalkDef ==
  ASSUME NEW D, NEW d, NEW n \in Nat
  PROVE  /\ DOMAIN WalkIn(D, d, n) = 1 .. n
         /\ \A k \in 1 .. n : WalkIn(D, d, n)[k] = IF k = 1 THEN d ELSE Step(D, WalkIn(D, d, n)[k - 1])
<1> DEFINE Body(f, m) == [k \in 1 .. m |-> IF k = 1 THEN d ELSE Step(D, f[k - 1])]
           Fine(m) == \E f : f = Body(f, m)
           T == {m \in Nat : Fine(m)}
<1>1. 0 \in T
  <2>1. [k \in 1 .. 0 |-> d] = Body([k \in 1 .. 0 |-> d], 0)
    OBVIOUS
  <2> QED BY <2>1
<1>2. ASSUME NEW m \in Nat, m \in T PROVE m + 1 \in T
  <2>1. PICK f : f = Body(f, m)
    BY <1>2
  <2> DEFINE g == [k \in 1 .. m + 1 |-> IF k = 1 THEN d ELSE Step(D, f[k - 1])]
  <2>2. \A k \in 1 .. m : g[k] = f[k]
    <3> TAKE k \in 1 .. m
    <3>1. f[k] = IF k = 1 THEN d ELSE Step(D, f[k - 1])
      BY <2>1
    <3>2. k \in 1 .. m + 1
      OBVIOUS
    <3> QED BY <3>1, <3>2
  <2>3. g = Body(g, m + 1)
    <3>1. ASSUME NEW k \in 1 .. m + 1
          PROVE  g[k] = IF k = 1 THEN d ELSE Step(D, g[k - 1])
      <4>1. CASE k = 1
        BY <4>1
      <4>2. CASE k # 1
        <5>1. k - 1 \in 1 .. m
          BY <4>2
        <5>2. g[k - 1] = f[k - 1]
          BY <5>1, <2>2
        <5>3. g[k] = Step(D, f[k - 1])
          BY <4>2
        <5> HIDE DEF g
        <5> QED BY <4>2, <5>2, <5>3
      <4> QED BY <4>1, <4>2
    <3>2. g = [k \in 1 .. m + 1 |-> g[k]]
      OBVIOUS
    <3> HIDE DEF g
    <3> QED BY <3>1, <3>2
  <2>4. Fine(m + 1)
    <3> HIDE DEF g
    <3> QED BY <2>3
  <2> HIDE DEF Fine
  <2> QED BY <2>4
<1>3. Fine(n)
  <2> HIDE DEF Fine
  <2>1. \A m \in Nat : m \in T
    BY <1>1, <1>2, SetInduction
  <2> QED BY <2>1
<1>4. WalkIn(D, d, n) = CHOOSE f : f = Body(f, n)
  BY DEF WalkIn
<1> DEFINE w == WalkIn(D, d, n)
<1>5. w = Body(w, n)
  BY <1>3, <1>4
<1> HIDE DEF w
<1>6. DOMAIN w = 1 .. n /\ \A k \in 1 .. n : w[k] = IF k = 1 THEN d ELSE Step(D, w[k - 1])
  BY <1>5
<1> QED BY <1>6 DEF w

\* Two tables that agree along a list of descriptors give the same walk, the list.
LEMMA WalkIs ==
  ASSUME NEW D, NEW d, NEW n \in Nat, NEW w \in [1 .. n -> Descs],
         n > 0 => w[1] = d,
         \A k \in 1 .. n - 1 : w[k + 1] = D[w[k]].next
  PROVE  WalkIn(D, d, n) = w
<1> DEFINE v == WalkIn(D, d, n)
           T == {k \in Nat : k + 1 \in 1 .. n => v[k + 1] = w[k + 1]}
<1>1. DOMAIN v = 1 .. n /\ \A k \in 1 .. n : v[k] = IF k = 1 THEN d ELSE Step(D, v[k - 1])
  BY WalkDef
<1> HIDE DEF v
<1>2. 0 \in T
  BY <1>1
<1>3. ASSUME NEW k \in Nat, k \in T PROVE k + 1 \in T
  <2> SUFFICES ASSUME k + 2 \in 1 .. n PROVE v[k + 2] = w[k + 2]
    OBVIOUS
  <2>1. k + 1 \in 1 .. n - 1 /\ k + 1 \in 1 .. n /\ k + 2 # 1 /\ (k + 2) - 1 = k + 1
    OBVIOUS
  <2>2. v[k + 2] = Step(D, v[k + 1])
    BY <1>1, <2>1
  <2>3. v[k + 1] = w[k + 1] /\ w[k + 1] \in Descs
    BY <1>3, <2>1
  <2>4. w[(k + 1) + 1] = D[w[k + 1]].next
    BY <2>1
  <2>5. (k + 1) + 1 = k + 2
    OBVIOUS
  <2> QED BY <2>2, <2>3, <2>4, <2>5 DEF Step
<1>4. \A k \in Nat : k \in T
  <2> HIDE DEF T
  <2> QED BY <1>2, <1>3, SetInduction
<1>5. ASSUME NEW k \in 1 .. n PROVE v[k] = w[k]
  <2>1. k - 1 \in Nat /\ (k - 1) + 1 = k
    OBVIOUS
  <2> QED BY <1>4, <2>1
<1>6. v = w
  <2>1. v = [k \in 1 .. n |-> v[k]] /\ w = [k \in 1 .. n |-> w[k]]
    <3>1. v = [k \in DOMAIN v |-> v[k]]
      BY WalkDef DEF v, WalkIn
    <3> QED BY <1>1, <3>1
  <2> QED BY <1>5, <2>1
<1> QED BY <1>6 DEF v

\* A walk that runs follows the table.
LEMMA RunsFacts ==
  ASSUME NEW D, NEW d, NEW n \in Nat, Runs(D, d, n)
  PROVE  LET w == WalkIn(D, d, n)
         IN  /\ w \in [1 .. n -> Descs] /\ Inj(w)
             /\ n > 0 => w[1] = d
             /\ \A k \in 1 .. n - 1 : w[k + 1] = D[w[k]].next
             /\ \A k \in 1 .. n : w[k] \in Visited(D, d, n)
             /\ \A x \in Visited(D, d, n) : x \in Descs /\ \E k \in 1 .. n : x = w[k]
<1> DEFINE w == WalkIn(D, d, n)
<1>1. w \in [1 .. n -> Descs] /\ Inj(w)
  BY DEF Runs
<1>2. \A k \in 1 .. n : w[k] = IF k = 1 THEN d ELSE Step(D, w[k - 1])
  BY WalkDef
<1>3. Visited(D, d, n) = {w[k] : k \in 1 .. n}
  BY DEF Visited
<1> HIDE DEF w
<1>4. n > 0 => w[1] = d
  BY <1>2
<1>5. \A k \in 1 .. n - 1 : w[k + 1] = D[w[k]].next
  <2> TAKE k \in 1 .. n - 1
  <2>1. k + 1 \in 1 .. n /\ k \in 1 .. n /\ k + 1 # 1 /\ (k + 1) - 1 = k
    OBVIOUS
  <2>2. w[k + 1] = Step(D, w[k]) /\ w[k] \in Descs
    BY <1>1, <1>2, <2>1
  <2> QED BY <2>2 DEF Step
<1> QED BY <1>1, <1>3, <1>4, <1>5 DEF w

\* A table that leaves alone what a walk visits leaves the walk alone.
LEMMA WalkKept ==
  ASSUME NEW D, NEW E, NEW d, NEW n \in Nat, Runs(D, d, n),
         \A x \in Visited(D, d, n) : E[x].next = D[x].next
  PROVE  WalkIn(E, d, n) = WalkIn(D, d, n) /\ Runs(E, d, n) /\ Visited(E, d, n) = Visited(D, d, n)
<1> DEFINE w == WalkIn(D, d, n)
<1>1. /\ w \in [1 .. n -> Descs] /\ Inj(w)
      /\ n > 0 => w[1] = d
      /\ \A k \in 1 .. n - 1 : w[k + 1] = D[w[k]].next
      /\ \A k \in 1 .. n : w[k] \in Visited(D, d, n)
  BY RunsFacts
<1> HIDE DEF w
<1>2. \A k \in 1 .. n - 1 : w[k + 1] = E[w[k]].next
  BY <1>1
<1>3. WalkIn(E, d, n) = w
  BY <1>1, <1>2, WalkIs
<1> QED BY <1>1, <1>3 DEF w, Runs, Visited

-----------------------------------------------------------------------------
(* The two splices of the table. *)

\* What virtq_add and virtq_get_used do to the table and to the heads.
Cut(D, E, head, total, slot) ==
  LET tail == WalkIn(D, head, total)[total]
  IN  \A x \in Descs :
        E[x] = IF x \notin Visited(D, head, total) THEN D[x]
               ELSE [next |-> IF x = tail THEN 0 ELSE D[x].next, more |-> x # tail, slot |-> slot]
Renamed(C, B, head, n, slot) == \A h \in Descs : B[h] = IF h = head THEN [len |-> n, slot |-> slot] ELSE C[h]

\* virtq_add: a chain is cut off the front of the free list.
LEMMA CutKeeps ==
  ASSUME NEW D, NEW head, NEW n \in Nat, NEW C \in [Descs -> [len : Nat, slot : SlotNumbers \cup {None}]],
         NEW E, NEW total \in Nat, total > 0, total <= n, NEW slot,
         SharedOut(D, head, n, C), Labelled(D, C),
         Cut(D, E, head, total, slot),
         NEW B, Renamed(C, B, head, total, slot)
  PROVE  /\ head \in Descs /\ head \notin Heads(C)
         /\ WalkIn(D, head, total)[total] \in Descs
         /\ SharedOut(E, D[WalkIn(D, head, total)[total]].next, n - total, B) /\ Labelled(E, B)
         /\ Heads(B) = Heads(C) \cup {head}
<1> DEFINE F == WalkIn(D, head, n)
           w == [k \in 1 .. total |-> F[k]]
           rest == [k \in 1 .. n - total |-> F[total + k]]
           tail == F[total]
           next == D[tail].next
<1>1. /\ F \in [1 .. n -> Descs] /\ Inj(F) /\ F[1] = head
      /\ \A k \in 1 .. n - 1 : F[k + 1] = D[F[k]].next
      /\ \A k \in 1 .. n : F[k] \in Visited(D, head, n)
      /\ \A x \in Visited(D, head, n) : x \in Descs /\ \E k \in 1 .. n : x = F[k]
  BY RunsFacts DEF SharedOut
<1> HIDE DEF F
<1>2. \A i, j \in 1 .. n : F[i] = F[j] => i = j
  BY <1>1 DEF Inj
<1>3. WalkIn(D, head, total) = w
  <2>1. w \in [1 .. total -> Descs] /\ w[1] = head
    BY <1>1
  <2>2. ASSUME NEW k \in 1 .. total - 1 PROVE w[k + 1] = D[w[k]].next
    <3>1. k \in 1 .. n - 1 /\ k \in 1 .. total /\ k + 1 \in 1 .. total
      OBVIOUS
    <3>2. w[k] = F[k] /\ w[k + 1] = F[k + 1]
      BY <3>1
    <3> HIDE DEF w
    <3> QED BY <1>1, <3>1, <3>2
  <2> HIDE DEF w
  <2> QED BY <2>1, <2>2, WalkIs
<1>4. /\ tail = WalkIn(D, head, total)[total] /\ tail \in Descs /\ head \in Descs
      /\ Visited(D, head, total) = {F[k] : k \in 1 .. total}
  <2>1. tail = w[total] /\ {w[k] : k \in 1 .. total} = {F[k] : k \in 1 .. total}
    OBVIOUS
  <2>2. tail \in Descs /\ head \in Descs
    BY <1>1
  <2> HIDE DEF w, tail
  <2> QED BY <1>3, <2>1, <2>2 DEF Visited
<1> DEFINE cut == {F[k] : k \in 1 .. total}
<1>5. cut \subseteq Visited(D, head, n) /\ head \in cut
  BY <1>1
<1>6. /\ \A x \in Descs \ cut : E[x] = D[x]
      /\ \A x \in cut : x \in Descs /\ E[x].next = (IF x = tail THEN 0 ELSE D[x].next)
                        /\ E[x].more = (x # tail) /\ E[x].slot = slot
  <2>1. cut \subseteq Descs
    BY <1>1
  <2> HIDE DEF tail, cut
  <2>2. \A x \in Descs : E[x] = IF x \notin cut THEN D[x]
               ELSE [next |-> IF x = tail THEN 0 ELSE D[x].next, more |-> x # tail, slot |-> slot]
    BY <1>4 DEF Cut, cut
  <2>3. ASSUME NEW x \in Descs \ cut PROVE E[x] = D[x]
    BY <2>2
  <2>4. ASSUME NEW x \in cut
        PROVE  x \in Descs /\ E[x].next = (IF x = tail THEN 0 ELSE D[x].next) /\ E[x].more = (x # tail) /\ E[x].slot = slot
    <3>1. x \in Descs /\ E[x] = [next |-> IF x = tail THEN 0 ELSE D[x].next, more |-> x # tail, slot |-> slot]
      BY <2>1, <2>2
    <3> QED BY ONLY <3>1
  <2> QED BY ONLY <2>3, <2>4
<1>7. head \notin Heads(C)
  <2> SUFFICES ASSUME head \in Heads(C) PROVE FALSE
    OBVIOUS
  <2>1. Runs(D, head, C[head].len) /\ C[head].len \in Nat /\ C[head].len > 0
    BY <1>4 DEF SharedOut, Heads
  <2>2. head \in Visited(D, head, C[head].len)
    BY <2>1, RunsFacts
  <2> QED BY <1>5, <2>2 DEF SharedOut
<1>8. Heads(B) = Heads(C) \cup {head}
  BY <1>4 DEF Heads, Renamed
\* What is left of the free list.
<1>9. WalkIn(E, next, n - total) = rest /\ Inj(rest) /\ rest \in [1 .. n - total -> Descs]
  <2>1. rest \in [1 .. n - total -> Descs] /\ n - total \in Nat
    <3>1. \A k \in 1 .. n - total : total + k \in 1 .. n
      OBVIOUS
    <3> QED BY <1>1, <3>1
  <2>2. n - total > 0 => rest[1] = next
    <3> SUFFICES ASSUME n - total > 0 PROVE rest[1] = next
      OBVIOUS
    <3>1. 1 \in 1 .. n - total /\ total \in 1 .. n - 1
      OBVIOUS
    <3>2. rest[1] = F[total + 1]
      BY <3>1
    <3> QED BY <1>1, <3>1, <3>2
  <2>3. ASSUME NEW k \in 1 .. n - total - 1 PROVE rest[k + 1] = E[rest[k]].next
    <3>1. total + k \in 1 .. n - 1 /\ total + k \in 1 .. n /\ total + (k + 1) = (total + k) + 1
      OBVIOUS
    <3>2. rest[k] = F[total + k] /\ rest[k + 1] = F[(total + k) + 1]
      BY <3>1
    <3>3. F[total + k] \notin cut
      BY <1>2, <3>1
    <3>4. E[F[total + k]] = D[F[total + k]]
      BY <1>1, <1>6, <3>1, <3>3
    <3>5. F[(total + k) + 1] = D[F[total + k]].next
      BY <1>1, <3>1
    <3> HIDE DEF rest
    <3> QED BY <3>2, <3>4, <3>5
  <2>4. Inj(rest)
    BY <1>2 DEF Inj
  <2> HIDE DEF rest, next
  <2>5. WalkIn(E, next, n - total) = rest
    BY ONLY <2>1, <2>2, <2>3, WalkIs
  <2> QED BY <2>1, <2>4, <2>5
<1>10. Visited(E, next, n - total) = Visited(D, head, n) \ cut
  <2>1. Visited(E, next, n - total) = {F[k] : k \in total + 1 .. n}
    <3>1. Visited(E, next, n - total) = {rest[k] : k \in 1 .. n - total}
      BY <1>9 DEF Visited
    <3>2. \A k \in 1 .. n - total : rest[k] = F[total + k] /\ total + k \in total + 1 .. n
      OBVIOUS
    <3>3. \A k \in total + 1 .. n : k - total \in 1 .. n - total /\ rest[k - total] = F[k]
      OBVIOUS
    <3> HIDE DEF rest
    <3> QED BY <3>1, <3>2, <3>3
  <2>2. Visited(D, head, n) = {F[k] : k \in 1 .. n}
    BY <1>1
  <2>3. \A k \in total + 1 .. n : F[k] \notin cut
    BY <1>2
  <2> QED BY <2>1, <2>2, <2>3
\* The new chain.
<1>11. WalkIn(E, head, total) = w /\ Inj(w) /\ w \in [1 .. total -> Descs] /\ Visited(E, head, total) = cut
  <2>1. w \in [1 .. total -> Descs] /\ w[1] = head /\ Inj(w)
    BY <1>1, <1>2 DEF Inj
  <2>2. ASSUME NEW k \in 1 .. total - 1 PROVE w[k + 1] = E[w[k]].next
    <3>1. w[k] = F[k] /\ w[k + 1] = F[k + 1] /\ F[k] # tail /\ F[k] \in cut
      BY <1>2
    <3>2. F[k + 1] = D[F[k]].next
      BY <1>1
    <3>3. E[F[k]].next = D[F[k]].next
      BY <1>6, <3>1
    <3> HIDE DEF w
    <3> QED BY <3>1, <3>2, <3>3
  <2>3. WalkIn(E, head, total) = w
    <3> HIDE DEF w
    <3> QED BY <2>1, <2>2, WalkIs
  <2> QED BY <2>1, <2>3 DEF Visited
\* The other chains.
<1>12. ASSUME NEW h \in Heads(C)
       PROVE  /\ C[h].len \in Nat /\ h # head /\ B[h] = C[h]
              /\ WalkIn(E, h, C[h].len) = WalkIn(D, h, C[h].len) /\ Runs(E, h, C[h].len)
              /\ Visited(E, h, C[h].len) = Visited(D, h, C[h].len)
              /\ Visited(D, h, C[h].len) \cap cut = {} /\ Visited(D, h, C[h].len) \subseteq Descs
  <2>1. C[h].len \in Nat /\ Runs(D, h, C[h].len) /\ Visited(D, h, C[h].len) \cap cut = {}
    BY <1>5 DEF Heads, SharedOut
  <2>2. Visited(D, h, C[h].len) \subseteq Descs
    BY <2>1, RunsFacts
  <2>3. \A x \in Visited(D, h, C[h].len) : E[x].next = D[x].next
    BY <1>6, <2>1, <2>2
  <2> QED BY <1>7, <2>1, <2>2, <2>3, WalkKept DEF Heads, Renamed
<1>13. B[head].len = total /\ B[head].slot = slot
  BY <1>4 DEF Renamed
<1>14. Visited(D, head, n) \cap cut = cut /\ (Visited(D, head, n) \ cut) \cap cut = {}
  BY <1>5
<1>15. SharedOut(E, next, n - total, B)
  <2>1. Runs(E, next, n - total)
    BY <1>9 DEF Runs
  <2>2. \A h \in Heads(B) : Runs(E, h, B[h].len)
    BY <1>8, <1>11, <1>12, <1>13 DEF Runs
  <2>3. \A h \in Heads(B) : Visited(E, h, B[h].len) \cap Visited(E, next, n - total) = {}
    BY <1>8, <1>10, <1>11, <1>12, <1>13 DEF SharedOut
  <2>4. \A g, h \in Heads(B) : g # h => Visited(E, g, B[g].len) \cap Visited(E, h, B[h].len) = {}
    <3> SUFFICES ASSUME NEW g \in Heads(B), NEW h \in Heads(B), g # h
                 PROVE  Visited(E, g, B[g].len) \cap Visited(E, h, B[h].len) = {}
      OBVIOUS
    <3> HIDE DEF cut
    <3>1. CASE g = head
      BY <1>8, <1>11, <1>12, <1>13, <3>1
    <3>2. CASE h = head
      BY <1>8, <1>11, <1>12, <1>13, <3>2
    <3>3. CASE g \in Heads(C) /\ h \in Heads(C)
      BY <1>12, <3>3 DEF SharedOut
    <3> QED BY <1>8, <3>1, <3>2, <3>3
  <2>5. \A x \in Descs : x \in Visited(E, next, n - total) \/ \E h \in Heads(B) : x \in Visited(E, h, B[h].len)
    <3> TAKE x \in Descs
    <3>1. CASE x \in cut
      BY <1>8, <1>11, <1>13, <3>1
    <3>2. CASE x \in Visited(D, head, n) \ cut
      BY <1>10, <3>2
    <3>3. CASE \E h \in Heads(C) : x \in Visited(D, h, C[h].len)
      BY <1>8, <1>12, <3>3
    <3> QED BY <3>1, <3>2, <3>3 DEF SharedOut
  <2> QED BY <2>1, <2>2, <2>3, <2>4, <2>5 DEF SharedOut
<1>16. Labelled(E, B)
  <2> SUFFICES ASSUME NEW h \in Heads(B), NEW k \in 1 .. B[h].len
               PROVE  LET e == E[WalkIn(E, h, B[h].len)[k]] IN e.slot = B[h].slot /\ (e.more <=> k < B[h].len)
    BY DEF Labelled
  <2>1. CASE h = head
    <3>1. k \in 1 .. total /\ WalkIn(E, h, B[h].len)[k] = F[k] /\ F[k] \in cut
      BY <1>11, <1>13, <2>1
    <3>2. F[k] # tail <=> k < total
      BY <1>2, <3>1
    <3> QED BY <1>6, <1>13, <2>1, <3>1, <3>2
  <2>2. CASE h \in Heads(C)
    <3> DEFINE y == WalkIn(D, h, C[h].len)[k]
    <3>1. y \in Visited(D, h, C[h].len)
      BY <1>12, <2>2 DEF Visited
    <3>2. E[y] = D[y]
      <4> HIDE DEF y, cut
      <4> QED BY <1>6, <1>12, <2>2, <3>1
    <3>4. WalkIn(E, h, B[h].len)[k] = y
      BY <1>12, <2>2
    <3>3. D[y].slot = C[h].slot /\ (D[y].more <=> k < C[h].len)
      BY <1>12, <2>2 DEF Labelled
    <3> HIDE DEF y
    <3> QED BY <1>12, <2>2, <3>2, <3>3, <3>4
  <2> QED BY <1>8, <2>1, <2>2
<1> QED BY <1>4, <1>7, <1>8, <1>15, <1>16

Spliced(D, E, h, len, head) ==
  LET tail == WalkIn(D, h, len)[len]
  IN  \A x \in Descs :
        E[x] = IF x \notin Visited(D, h, len) THEN D[x]
               ELSE FreeDesc(IF x = tail THEN head ELSE D[x].next)

\* virtq_get_used: a chain goes back before the free list.
LEMMA SpliceKeeps ==
  ASSUME NEW D, NEW head, NEW n \in Nat, NEW C \in [Descs -> [len : Nat, slot : SlotNumbers \cup {None}]],
         NEW E, NEW h \in Heads(C),
         SharedOut(D, head, n, C), Labelled(D, C),
         Spliced(D, E, h, C[h].len, head),
         NEW B, Renamed(C, B, h, 0, None)
  PROVE  /\ h \in Descs /\ C[h].len \in Nat
         /\ SharedOut(E, h, n + C[h].len, B) /\ Labelled(E, B)
         /\ Heads(B) = Heads(C) \ {h}
<1> DEFINE m == C[h].len
           F == WalkIn(D, head, n)
           w == WalkIn(D, h, m)
           all == [k \in 1 .. n + m |-> IF k <= m THEN w[k] ELSE F[k - m]]
           tail == w[m]
           free == Visited(D, head, n)
           mine == Visited(D, h, m)
<1>0. h \in Descs /\ m \in Nat /\ m > 0 /\ Runs(D, head, n) /\ Runs(D, h, m) /\ mine \cap free = {}
  BY DEF Heads, SharedOut
<1>f. Spliced(D, E, h, m, head)
  OBVIOUS
<1> HIDE DEF m
<1>1. /\ F \in [1 .. n -> Descs] /\ Inj(F) /\ (n > 0 => F[1] = head)
      /\ \A k \in 1 .. n - 1 : F[k + 1] = D[F[k]].next
      /\ \A k \in 1 .. n : F[k] \in free
      /\ \A x \in free : x \in Descs /\ \E k \in 1 .. n : x = F[k]
  BY <1>0, RunsFacts
<1>2. /\ w \in [1 .. m -> Descs] /\ Inj(w) /\ w[1] = h
      /\ \A k \in 1 .. m - 1 : w[k + 1] = D[w[k]].next
      /\ \A k \in 1 .. m : w[k] \in mine
      /\ \A x \in mine : x \in Descs /\ \E k \in 1 .. m : x = w[k]
  BY <1>0, RunsFacts
<1>3. \A x \in Descs : E[x] = IF x \notin mine THEN D[x] ELSE FreeDesc(IF x = tail THEN head ELSE D[x].next)
  BY <1>f DEF Spliced
<1> HIDE DEF F, w, free, mine
<1>4. /\ \A i, j \in 1 .. n : F[i] = F[j] => i = j
      /\ \A i, j \in 1 .. m : w[i] = w[j] => i = j
      /\ \A i \in 1 .. n, j \in 1 .. m : F[i] # w[j]
  <2>1. DOMAIN F = 1 .. n /\ DOMAIN w = 1 .. m
    BY <1>1, <1>2
  <2>2. \A i \in 1 .. n, j \in 1 .. m : F[i] # w[j]
    BY <1>0, <1>1, <1>2
  <2> QED BY <1>1, <1>2, <2>1, <2>2 DEF Inj
<1>5. /\ \A x \in Descs \ mine : E[x] = D[x]
      /\ \A x \in mine : E[x].next = (IF x = tail THEN head ELSE D[x].next)
  <2>1. ASSUME NEW x \in Descs \ mine PROVE E[x] = D[x]
    BY <1>3
  <2>2. ASSUME NEW x \in mine PROVE E[x].next = (IF x = tail THEN head ELSE D[x].next)
    <3>1. x \in Descs /\ E[x] = FreeDesc(IF x = tail THEN head ELSE D[x].next)
      BY <1>2, <1>3
    <3> HIDE DEF tail
    <3> QED BY ONLY <3>1 DEF FreeDesc
  <2> QED BY ONLY <2>1, <2>2
<1>6. \A k \in 1 .. n + m : /\ k <= m => k \in 1 .. m /\ all[k] = w[k]
                            /\ k > m => k - m \in 1 .. n /\ all[k] = F[k - m]
  BY <1>0
<1>7. all \in [1 .. n + m -> Descs] /\ DOMAIN all = 1 .. n + m
  <2>1. \A k \in 1 .. n + m : all[k] \in Descs
    <3> TAKE k \in 1 .. n + m
    <3>1. CASE k <= m
      BY <1>2, <1>6, <3>1
    <3>2. CASE k > m
      BY <1>1, <1>6, <3>2
    <3> QED BY <1>0, <3>1, <3>2
  <2> QED BY <2>1
<1>8. all[1] = h
  BY <1>0, <1>2, <1>6
<1>9. \A k \in 1 .. m : all[k] = w[k]
  BY <1>0
<1>10. \A k \in 1 .. n : all[m + k] = F[k] /\ m + k \in 1 .. n + m
  <2> TAKE k \in 1 .. n
  <2>1. m + k \in 1 .. n + m /\ ~(m + k <= m) /\ (m + k) - m = k
    BY <1>0
  <2> QED BY <1>6, <2>1
<1> HIDE DEF all
<1>11. Inj(all)
  <2> SUFFICES ASSUME NEW i \in 1 .. n + m, NEW j \in 1 .. n + m, all[i] = all[j] PROVE i = j
    BY <1>7 DEF Inj
  <2>1. CASE i <= m /\ j <= m
    BY <1>4, <1>6, <2>1
  <2>2. CASE i > m /\ j > m
    <3>1. i - m = j - m
      BY <1>4, <1>6, <2>2
    <3> QED BY <1>0, <3>1
  <2>3. CASE i <= m /\ j > m
    BY <1>4, <1>6, <2>3
  <2>4. CASE i > m /\ j <= m
    BY <1>4, <1>6, <2>4
  <2> QED BY <1>0, <2>1, <2>2, <2>3, <2>4
<1>12. \A k \in 1 .. (n + m) - 1 : all[k + 1] = E[all[k]].next
  <2> TAKE k \in 1 .. (n + m) - 1
  <2>0. k \in 1 .. n + m /\ k + 1 \in 1 .. n + m
    BY <1>0
  <2>1. CASE k < m
    <3>1. k \in 1 .. m - 1 /\ k \in 1 .. m /\ k + 1 \in 1 .. m /\ m \in 1 .. m /\ k # m
      BY <1>0, <2>1
    <3>2. w[k] \in mine /\ w[k] # tail
      BY <1>2, <1>4, <3>1
    <3>3. E[w[k]].next = D[w[k]].next
      BY <1>5, <3>2
    <3> QED BY <1>2, <1>9, <3>1, <3>3
  <2>2. CASE k = m
    <3>1. m \in 1 .. m /\ 1 \in 1 .. n /\ n > 0
      BY <1>0, <2>2
    <3>2. all[k] = tail /\ tail \in mine /\ all[k + 1] = F[1]
      BY <1>2, <1>9, <1>10, <2>2, <3>1
    <3>3. E[tail].next = head
      BY <1>5, <3>2
    <3> QED BY <1>1, <3>1, <3>2, <3>3
  <2>3. CASE k > m
    <3>1. k - m \in 1 .. n - 1 /\ k - m \in 1 .. n /\ (k - m) + 1 \in 1 .. n /\ m + (k - m) = k /\ m + ((k - m) + 1) = k + 1
      BY <1>0, <2>3
    <3>2. all[k] = F[k - m] /\ all[k + 1] = F[(k - m) + 1]
      BY <1>10, <3>1
    <3>3. F[k - m] \in free /\ F[k - m] \in Descs
      BY <1>1, <3>1
    <3>4. E[F[k - m]] = D[F[k - m]]
      BY <1>0, <1>5, <3>3
    <3> QED BY <1>1, <3>1, <3>2, <3>4
  <2> QED BY <1>0, <2>1, <2>2, <2>3
<1>13. WalkIn(E, h, n + m) = all /\ Runs(E, h, n + m)
  <2>1. n + m \in Nat
    BY <1>0
  <2>2. WalkIn(E, h, n + m) = all
    BY <1>7, <1>8, <1>12, <2>1, WalkIs
  <2> QED BY <1>7, <1>11, <2>2 DEF Runs
<1>14. Visited(E, h, n + m) = mine \cup free
  <2>1. Visited(E, h, n + m) = {all[k] : k \in 1 .. n + m}
    BY <1>13 DEF Visited
  <2>2. ASSUME NEW k \in 1 .. n + m PROVE all[k] \in mine \cup free
    <3>1. CASE k <= m
      BY <1>2, <1>6, <3>1
    <3>2. CASE k > m
      BY <1>1, <1>6, <3>2
    <3> QED BY <1>0, <3>1, <3>2
  <2>3. ASSUME NEW x \in mine PROVE \E k \in 1 .. n + m : x = all[k]
    <3>1. PICK k \in 1 .. m : x = w[k]
      BY <1>2
    <3>2. k \in 1 .. n + m /\ x = all[k]
      BY <1>0, <1>9, <3>1
    <3> QED BY <3>2
  <2>4. ASSUME NEW x \in free PROVE \E k \in 1 .. n + m : x = all[k]
    <3>1. PICK k \in 1 .. n : x = F[k]
      BY <1>1
    <3> QED BY <1>10, <3>1
  <2> QED BY <2>1, <2>2, <2>3, <2>4
<1>15. Heads(B) = Heads(C) \ {h} /\ \A g \in Heads(C) \ {h} : B[g] = C[g]
  <2>1. B[h] = [len |-> 0, slot |-> None]
    BY <1>0 DEF Renamed
  <2>2. B[h].len = 0
    BY <2>1
  <2>3. \A g \in Descs \ {h} : B[g] = C[g]
    BY DEF Renamed
  <2> QED BY <2>2, <2>3 DEF Heads
<1>16. ASSUME NEW g \in Heads(C) \ {h}
       PROVE  /\ C[g].len \in Nat /\ B[g] = C[g]
              /\ WalkIn(E, g, C[g].len) = WalkIn(D, g, C[g].len) /\ Runs(E, g, C[g].len)
              /\ Visited(E, g, C[g].len) = Visited(D, g, C[g].len)
              /\ Visited(D, g, C[g].len) \cap (mine \cup free) = {} /\ Visited(D, g, C[g].len) \subseteq Descs
  <2>1. C[g].len \in Nat /\ Runs(D, g, C[g].len)
    BY DEF Heads, SharedOut
  <2>2. Visited(D, g, C[g].len) \subseteq Descs
    BY <2>1, RunsFacts
  <2>3. Visited(D, g, C[g].len) \cap free = {}
    BY DEF SharedOut, free
  <2>4. Visited(D, g, C[g].len) \cap mine = {}
    BY DEF SharedOut, mine, m
  <2>5. \A x \in Visited(D, g, C[g].len) : E[x].next = D[x].next
    BY <1>5, <2>2, <2>4
  <2>6. WalkIn(E, g, C[g].len) = WalkIn(D, g, C[g].len) /\ Runs(E, g, C[g].len)
        /\ Visited(E, g, C[g].len) = Visited(D, g, C[g].len)
    BY <2>1, <2>5, WalkKept
  <2> QED BY <1>15, <2>1, <2>2, <2>3, <2>4, <2>6
<1>17. SharedOut(E, h, n + m, B)
  <2>1. \A g \in Heads(B) : Runs(E, g, B[g].len)
    BY <1>15, <1>16
  <2>2. \A g \in Heads(B) : Visited(E, g, B[g].len) \cap Visited(E, h, n + m) = {}
    BY <1>14, <1>15, <1>16
  <2>3. \A f, g \in Heads(B) : f # g => Visited(E, f, B[f].len) \cap Visited(E, g, B[g].len) = {}
    BY <1>15, <1>16 DEF SharedOut
  <2>4. \A x \in Descs : x \in Visited(E, h, n + m) \/ \E g \in Heads(B) : x \in Visited(E, g, B[g].len)
    <3> TAKE x \in Descs
    <3>1. x \in free \/ \E g \in Heads(C) : x \in Visited(D, g, C[g].len)
      BY DEF SharedOut, free
    <3>2. CASE x \in free \cup mine
      BY <1>14, <3>2
    <3>3. ASSUME NEW g \in Heads(C), x \in Visited(D, g, C[g].len), g # h
          PROVE  x \in Visited(E, g, B[g].len) /\ g \in Heads(B)
      BY <1>15, <1>16, <3>3
    <3> QED BY <3>1, <3>2, <3>3 DEF mine, m
  <2> QED BY <1>13, <2>1, <2>2, <2>3, <2>4 DEF SharedOut
<1>18. Labelled(E, B)
  <2> SUFFICES ASSUME NEW g \in Heads(B), NEW k \in 1 .. B[g].len
               PROVE  LET e == E[WalkIn(E, g, B[g].len)[k]] IN e.slot = B[g].slot /\ (e.more <=> k < B[g].len)
    BY DEF Labelled
  <2> DEFINE y == WalkIn(D, g, C[g].len)[k]
  <2>0. g \in Heads(C) \ {h} /\ k \in 1 .. C[g].len
    BY <1>15, <1>16
  <2>1. y \in Visited(D, g, C[g].len)
    BY <2>0 DEF Visited
  <2>2. D[y].slot = C[g].slot /\ (D[y].more <=> k < C[g].len)
    BY <2>0 DEF Labelled
  <2>3. WalkIn(E, g, B[g].len)[k] = y
    BY <1>16, <2>0
  <2> HIDE DEF y
  <2>4. E[y] = D[y]
    BY <1>5, <1>16, <2>0, <2>1
  <2> QED BY <1>16, <2>0, <2>2, <2>3, <2>4
<1> QED BY <1>0, <1>15, <1>17, <1>18 DEF m

-----------------------------------------------------------------------------
(* Counting. *)

\* A list that names nobody twice has as many members as entries.
LEMMA Counted ==
  ASSUME NEW n \in Nat, NEW X, NEW w \in [1 .. n -> X], Inj(w)
  PROVE  IsFiniteSet({w[k] : k \in 1 .. n}) /\ Cardinality({w[k] : k \in 1 .. n}) = n
<1> DEFINE T == {w[k] : k \in 1 .. n}
<1>1. w \in [1 .. n -> T] /\ DOMAIN w = 1 .. n
  OBVIOUS
<1>2. \A y \in T : \E k \in 1 .. n : w[k] = y
  OBVIOUS
<1>3. \A i, j \in 1 .. n : w[i] = w[j] => i = j
  BY <1>1 DEF Inj
<1> HIDE DEF T
<1>4. w \in Bijection(1 .. n, T)
  BY ONLY <1>1, <1>2, <1>3 DEF Bijection, Injection, Surjection, IsInjective
<1>5. ExistsBijection(1 .. n, T)
  BY <1>4 DEF ExistsBijection
<1>6. IsFiniteSet(T) /\ Cardinality(T) = n
  BY <1>5, FS_NatBijection, FS_CountingElements
<1> QED BY <1>6 DEF T

LEMMA WalkCounted ==
  ASSUME NEW D, NEW d, NEW n \in Nat, Runs(D, d, n)
  PROVE  Cardinality(Visited(D, d, n)) = n /\ Visited(D, d, n) \subseteq Descs
<1>1. Visited(D, d, n) \subseteq Descs
  BY RunsFacts
<1> QED BY <1>1, Counted DEF Runs, Visited

LEMMA MembersVisited ==
  ASSUME NEW d, NEW n \in Nat
  PROVE  Members(Walk(d, n)) = Visited(desc, d, n) /\ DOMAIN Walk(d, n) = 1 .. n
  BY WalkDef, WalksAreThese DEF Members, Visited

\* What the chains and the free list share out is what RingIntact counts.
LEMMA ChainsIntact == Chains => RingIntact
<1> SUFFICES ASSUME Chains PROVE RingIntact
  OBVIOUS
<1>1. /\ numFree \in Nat /\ InFlight = Heads(chain)
      /\ SharedOut(desc, freeHead, numFree, chain) /\ Labelled(desc, chain)
  BY DEF Chains, Typed, InFlight, Heads
<1>2. \A h \in Heads(chain) : h \in Descs /\ chain[h].len \in Nat
  BY DEF Chains, Typed, Heads
<1>3. FreeList = Visited(desc, freeHead, numFree)
  BY <1>1, MembersVisited DEF FreeList
<1>4. \A h \in Heads(chain) : /\ ChainOf(h) = Visited(desc, h, chain[h].len)
                              /\ DOMAIN Walk(h, chain[h].len) = 1 .. chain[h].len
  BY <1>2, MembersVisited DEF ChainOf
<1>5. FreeList \subseteq Descs /\ Cardinality(FreeList) = numFree
  BY <1>1, <1>3, WalkCounted DEF SharedOut
<1>6. ASSUME NEW h \in InFlight
      PROVE  LET w == Walk(h, chain[h].len)
             IN  /\ Members(w) \subseteq Descs /\ Members(w) \cap FreeList = {}
                 /\ Cardinality(Members(w)) = chain[h].len
                 /\ \A k \in DOMAIN w : desc[w[k]].slot = chain[h].slot /\ (desc[w[k]].more <=> k < chain[h].len)
                 /\ \A g \in InFlight \ {h} : ChainOf(g) \cap Members(w) = {}
  <2> DEFINE w == Walk(h, chain[h].len)
  <2>1. Members(w) = Visited(desc, h, chain[h].len) /\ DOMAIN w = 1 .. chain[h].len /\ w = WalkIn(desc, h, chain[h].len)
    BY <1>1, <1>2, MembersVisited, WalksAreThese
  <2>2. Members(w) \subseteq Descs /\ Cardinality(Members(w)) = chain[h].len
    BY <1>1, <1>2, <2>1, WalkCounted DEF SharedOut
  <2>3. Members(w) \cap FreeList = {}
    BY <1>1, <1>3, <2>1 DEF SharedOut
  <2>4. \A k \in DOMAIN w : desc[w[k]].slot = chain[h].slot /\ (desc[w[k]].more <=> k < chain[h].len)
    BY <1>1, <2>1 DEF Labelled
  <2>5. \A g \in InFlight \ {h} : ChainOf(g) \cap Members(w) = {}
    BY <1>1, <1>4, <2>1 DEF SharedOut
  <2> QED BY <2>2, <2>3, <2>4, <2>5
<1>7. FreeList \cup UNION {ChainOf(h) : h \in InFlight} = Descs
  <2>1. ASSUME NEW x \in Descs PROVE x \in FreeList \cup UNION {ChainOf(h) : h \in InFlight}
    BY <1>1, <1>3, <1>4 DEF SharedOut
  <2>2. \A h \in InFlight : ChainOf(h) \subseteq Descs
    BY <1>1, <1>4, <1>6 DEF ChainOf
  <2> QED BY <1>5, <2>1, <2>2
<1> QED BY <1>5, <1>6, <1>7 DEF RingIntact

-----------------------------------------------------------------------------
(* The chains. *)

\* virtq_init: the whole table is one free list.
LEMMA InitChains == Init => Chains
<1> SUFFICES ASSUME Init PROVE Chains
  OBVIOUS
<1>1. /\ desc = [i \in Descs |-> FreeDesc(i + 1)] /\ freeHead = 0 /\ numFree = Size
      /\ chain = [i \in Descs |-> NoChain]
  BY DEF Init
<1>2. \A i \in Descs : desc[i].next = i + 1 /\ desc[i] \in Table
  <2> TAKE i \in Descs
  <2>1. desc[i] = [next |-> i + 1, more |-> FALSE, slot |-> None] /\ i + 1 \in Nat
    BY <1>1, SizeFacts DEF FreeDesc
  <2> QED BY ONLY <2>1 DEF Table
<1>3. Typed
  <2>1. NoChain \in [len : Nat, slot : SlotNumbers \cup {None}]
    BY DEF NoChain
  <2>2. desc \in [Descs -> Table]
    BY <1>1, <1>2
  <2> QED BY <1>1, <2>1, <2>2, SizeFacts DEF Typed
<1>4. Heads(chain) = {}
  BY <1>1 DEF Heads, NoChain
<1> DEFINE w == [k \in 1 .. Size |-> k - 1]
<1>5. w \in [1 .. Size -> Descs] /\ w[1] = 0 /\ \A k \in 1 .. Size : w[k] = k - 1
  BY SizeFacts DEF Descs
<1> HIDE DEF w
<1>6. \A k \in 1 .. Size - 1 : w[k + 1] = desc[w[k]].next
  <2> TAKE k \in 1 .. Size - 1
  <2>1. k \in 1 .. Size /\ k + 1 \in 1 .. Size /\ k - 1 \in Descs /\ (k - 1) + 1 = k /\ (k + 1) - 1 = k
    BY SizeFacts DEF Descs
  <2>2. w[k] = k - 1 /\ w[k + 1] = k
    BY <1>5, <2>1
  <2> QED BY <1>2, <2>1, <2>2
<1>7. WalkIn(desc, 0, Size) = w
  <2>1. Size \in Nat
    BY SizeFacts
  <2> QED BY ONLY <1>5, <1>6, <2>1, WalkIs
<1>8. Runs(desc, 0, Size)
  <2>1. Inj(w)
    BY <1>5, SizeFacts DEF Inj
  <2> QED BY <1>5, <1>7, <2>1 DEF Runs
<1>9. \A x \in Descs : x \in Visited(desc, 0, Size)
  <2> TAKE x \in Descs
  <2>1. x + 1 \in 1 .. Size /\ (x + 1) - 1 = x
    BY SizeFacts DEF Descs
  <2>2. w[x + 1] = x
    BY <1>5, <2>1
  <2> QED BY <1>7, <2>1, <2>2 DEF Visited
<1>10. SharedOut(desc, freeHead, numFree, chain)
  BY <1>1, <1>4, <1>8, <1>9 DEF SharedOut
<1>11. Labelled(desc, chain)
  BY <1>4 DEF Labelled
<1> QED BY <1>3, <1>10, <1>11 DEF Chains

\* What a chain of virtq_add leaves, and that its head was nobody's.
LEMMA AddChains ==
  ASSUME Chains, NEW total \in Nat, total > 0, total <= numFree, NEW slot \in SlotNumbers, NEW i, AddAt(total, slot, i)
  PROVE  /\ Chains' /\ freeHead \in Descs \ InFlight /\ InFlight' = InFlight \cup {freeHead}
         /\ chain'[freeHead] = [len |-> total, slot |-> slot]
         /\ \A h \in InFlight : chain'[h] = chain[h]
<1> DEFINE tail == WalkIn(desc, freeHead, total)[total]
<1>1. /\ desc \in [Descs -> Table] /\ freeHead \in Nat /\ numFree \in Nat
      /\ chain \in [Descs -> [len : Nat, slot : SlotNumbers \cup {None}]]
      /\ SharedOut(desc, freeHead, numFree, chain) /\ Labelled(desc, chain)
  BY DEF Chains, Typed
<1>2. /\ desc' = [d \in Descs |->
                    IF d \notin Visited(desc, freeHead, total) THEN desc[d]
                    ELSE [next |-> IF d = tail THEN 0 ELSE desc[d].next, more |-> d # tail, slot |-> slot]]
      /\ freeHead' = desc[tail].next
      /\ numFree' = numFree - total
      /\ chain' = [chain EXCEPT ![freeHead] = [len |-> total, slot |-> slot]]
  BY MembersVisited, WalksAreThese DEF AddAt
<1>3. Cut(desc, desc', freeHead, total, slot)
  BY <1>2 DEF Cut
<1>4. \A h \in Descs : chain'[h] = IF h = freeHead THEN [len |-> total, slot |-> slot] ELSE chain[h]
  BY <1>1, <1>2
<1>5. Renamed(chain, chain', freeHead, total, slot)
  BY <1>4 DEF Renamed
<1>6. /\ freeHead \in Descs /\ freeHead \notin Heads(chain) /\ tail \in Descs
      /\ SharedOut(desc', desc[tail].next, numFree - total, chain') /\ Labelled(desc', chain')
      /\ Heads(chain') = Heads(chain) \cup {freeHead}
  <2>1. /\ numFree \in Nat /\ chain \in [Descs -> [len : Nat, slot : SlotNumbers \cup {None}]]
        /\ total \in Nat /\ total > 0 /\ total <= numFree
        /\ SharedOut(desc, freeHead, numFree, chain) /\ Labelled(desc, chain)
    BY <1>1
  <2>2. freeHead \in Descs /\ freeHead \notin Heads(chain) /\ tail \in Descs
    BY ONLY <2>1, <1>3, <1>5, CutKeeps, Zenon
  <2>3. SharedOut(desc', desc[tail].next, numFree - total, chain')
    BY ONLY <2>1, <1>3, <1>5, CutKeeps, Zenon
  <2>4. Labelled(desc', chain')
    BY ONLY <2>1, <1>3, <1>5, CutKeeps, Zenon
  <2>5. \A h \in Descs : chain'[h].len = IF h = freeHead THEN total ELSE chain[h].len
    BY <1>4
  <2>6. Heads(chain') = Heads(chain) \cup {freeHead}
    BY <2>2, <2>5 DEF Heads
  <2> QED BY <2>2, <2>3, <2>4, <2>6
<1>7. InFlight = Heads(chain) /\ InFlight' = Heads(chain')
  BY DEF InFlight, Heads
<1> HIDE DEF tail
<1>8. desc' \in [Descs -> Table]
  <2> SUFFICES ASSUME NEW d \in Descs
               PROVE  (IF d \notin Visited(desc, freeHead, total) THEN desc[d]
                       ELSE [next |-> IF d = tail THEN 0 ELSE desc[d].next, more |-> d # tail, slot |-> slot]) \in Table
    BY <1>2
  <2>1. desc[d] \in Table /\ desc[d].next \in Nat
    BY <1>1 DEF Table
  <2>2. [next |-> IF d = tail THEN 0 ELSE desc[d].next, more |-> d # tail, slot |-> slot] \in Table
    BY <2>1 DEF Table
  <2> QED BY <2>1, <2>2
<1>9. freeHead' \in Nat /\ numFree' \in Nat
  BY <1>1, <1>2, <1>6 DEF Table
<1>10. chain' \in [Descs -> [len : Nat, slot : SlotNumbers \cup {None}]]
  <2>1. [len |-> total, slot |-> slot] \in [len : Nat, slot : SlotNumbers \cup {None}]
    OBVIOUS
  <2> QED BY <1>1, <1>2, <2>1
<1>11. Chains'
  BY <1>2, <1>6, <1>8, <1>9, <1>10 DEF Chains, Typed
<1>12. chain'[freeHead] = [len |-> total, slot |-> slot] /\ \A h \in InFlight : chain'[h] = chain[h]
  BY <1>4, <1>6, <1>7 DEF InFlight
<1> QED BY <1>6, <1>7, <1>11, <1>12

\* virtq_get_used gives a chain's descriptors back.
LEMMA GetChains ==
  ASSUME Chains, NEW h \in InFlight, Splice(h, Walk(h, chain[h].len)[chain[h].len])
  PROVE  /\ Chains' /\ InFlight' = InFlight \ {h}
         /\ \A g \in InFlight' : chain'[g] = chain[g]
<1> DEFINE m == chain[h].len
           tail == WalkIn(desc, h, m)[m]
<1>1. /\ desc \in [Descs -> Table] /\ freeHead \in Nat /\ numFree \in Nat
      /\ chain \in [Descs -> [len : Nat, slot : SlotNumbers \cup {None}]]
      /\ SharedOut(desc, freeHead, numFree, chain) /\ Labelled(desc, chain)
      /\ h \in Heads(chain) /\ h \in Descs /\ m \in Nat
  BY DEF Chains, Typed, InFlight, Heads
<1>2. ChainOf(h) = Visited(desc, h, m) /\ Walk(h, m)[m] = tail
  BY <1>1, MembersVisited, WalksAreThese DEF ChainOf
<1>3. /\ desc' = [e \in Descs |-> IF e \notin Visited(desc, h, m) THEN desc[e]
                                  ELSE FreeDesc(IF e = tail THEN freeHead ELSE desc[e].next)]
      /\ freeHead' = h
      /\ numFree' = numFree + m
      /\ chain' = [chain EXCEPT ![h] = NoChain]
  BY <1>2 DEF Splice
<1>4. Spliced(desc, desc', h, m, freeHead)
  BY <1>3 DEF Spliced
<1>5. \A g \in Descs : chain'[g] = IF g = h THEN [len |-> 0, slot |-> None] ELSE chain[g]
  BY <1>1, <1>3 DEF NoChain
<1>6. Renamed(chain, chain', h, 0, None)
  BY <1>5 DEF Renamed
<1>7. SharedOut(desc', h, numFree + m, chain') /\ Labelled(desc', chain') /\ Heads(chain') = Heads(chain) \ {h}
  <2>1. /\ numFree \in Nat /\ chain \in [Descs -> [len : Nat, slot : SlotNumbers \cup {None}]]
        /\ h \in Heads(chain) /\ SharedOut(desc, freeHead, numFree, chain) /\ Labelled(desc, chain)
    BY <1>1
  <2>2. SharedOut(desc', h, numFree + m, chain')
    BY ONLY <2>1, <1>4, <1>6, SpliceKeeps, Zenon
  <2>3. Labelled(desc', chain')
    BY ONLY <2>1, <1>4, <1>6, SpliceKeeps, Zenon
  <2>4. \A g \in Descs : chain'[g].len = IF g = h THEN 0 ELSE chain[g].len
    BY <1>5
  <2>5. Heads(chain') = Heads(chain) \ {h}
    BY <1>1, <2>4 DEF Heads
  <2> QED BY <2>2, <2>3, <2>5
<1>8. InFlight = Heads(chain) /\ InFlight' = Heads(chain')
  BY DEF InFlight, Heads
<1> HIDE DEF tail, m
<1>9. desc' \in [Descs -> Table]
  <2> SUFFICES ASSUME NEW d \in Descs
               PROVE  (IF d \notin Visited(desc, h, m) THEN desc[d]
                       ELSE FreeDesc(IF d = tail THEN freeHead ELSE desc[d].next)) \in Table
    BY <1>3
  <2>1. desc[d] \in Table /\ desc[d].next \in Nat
    BY <1>1 DEF Table
  <2>2. FreeDesc(IF d = tail THEN freeHead ELSE desc[d].next) \in Table
    BY <1>1, <2>1 DEF Table, FreeDesc
  <2> QED BY <2>1, <2>2
<1>10. chain' \in [Descs -> [len : Nat, slot : SlotNumbers \cup {None}]]
  <2>1. NoChain \in [len : Nat, slot : SlotNumbers \cup {None}]
    BY DEF NoChain
  <2> QED BY <1>1, <1>3, <2>1
<1>11. freeHead' \in Nat /\ numFree' \in Nat
  BY <1>1, <1>3, SizeFacts
<1>12. Chains'
  BY <1>3, <1>7, <1>9, <1>10, <1>11 DEF Chains, Typed
<1>13. \A g \in InFlight' : chain'[g] = chain[g]
  BY <1>5, <1>7, <1>8 DEF Heads
<1> QED BY <1>7, <1>8, <1>12, <1>13

LEMMA SameChains ==
  ASSUME Chains, UNCHANGED <<desc, freeHead, numFree, chain>>
  PROVE  Chains' /\ InFlight' = InFlight
  BY DEF Chains, Typed, InFlight

LEMMA BatchCounted == Cardinality(Batch) \in Nat
<1>1. IsFiniteSet(1 .. MaxSlots) /\ Batch \in SUBSET (1 .. MaxSlots)
  BY VirtqAssumption, FS_Interval DEF Batch
<1>2. IsFiniteSet(Batch)
  BY <1>1, FS_Subset
<1> QED BY <1>2, FS_CardinalityType

\* Only vg_run's queueing and draining touch the table, whatever the device returns.
LEMMA ChainsInductive == Chains /\ [Next]_vars => Chains'
<1> SUFFICES ASSUME Chains, [Next]_vars
             PROVE  Chains'
  OBVIOUS
<1>1. ASSUME NEW total \in 1 .. MaxChain, NEW cmd \in Commands, VgAdd(total, cmd)
      PROVE  Chains'
  <2> DEFINE k == Cardinality(Batch) + 1
             i == ((avail.idx + avail.pending) % IdxMod) % Size
  <2>1. k \in SlotNumbers
    BY <1>1, BatchCounted, VirtqAssumption DEF VgAdd, SlotNumbers
  <2>2. CASE total <= numFree
    <3>1. AddAt(total, k, i)
      BY <1>1, <2>2 DEF VgAdd, VirtqAdd
    <3>2. total \in Nat /\ total > 0
      BY VirtqAssumption
    <3> HIDE DEF k, i
    <3> QED BY <2>1, <2>2, <3>1, <3>2, AddChains
  <2>3. CASE ~(total <= numFree)
    BY <1>1, <2>3, SameChains DEF VgAdd
  <2> QED BY <2>2, <2>3
<1>2. CASE GetUsed
  <2>1. UsedId \in Descs /\ chain[UsedId].len # 0 /\ Splice(UsedId, Walk(UsedId, chain[UsedId].len)[chain[UsedId].len])
    BY <1>2 DEF GetUsed, Strange
  <2>2. UsedId \in InFlight
    BY <2>1 DEF InFlight, Chains, Typed
  <2> HIDE DEF UsedId
  <2> QED BY <2>1, <2>2, GetChains
<1>3. CASE VgKick \/ KickPrepare \/ Notify \/ VgReturns \/ VgTimesOut \/ VgPollsAgain
  BY <1>3, SameChains DEF VgKick, KickPrepare, Publish, ReadFlags, Notify, VgReturns, VgTimesOut, GiveUp, VgPollsAgain,
                          GetUsedNull, ring
<1>4. CASE DevFetch \/ DevStrange \/ DevQuiet \/ DevLoud \/ DevSleep \/ \E h \in Descs : DevComplete(h)
  BY <1>4, SameChains DEF DevFetch, DevStrange, DevQuiet, DevLoud, DevSleep, DevComplete, ring
<1>5. CASE UNCHANGED vars
  BY <1>5, SameChains DEF vars, ring
<1> QED BY <1>1, <1>2, <1>3, <1>4, <1>5 DEF Next

\* Descriptors are neither lost nor shared, and a device that follows F_NEXT reads
\* exactly one command, whatever it returned before and in whatever order
\* (virtq_add, virtq_get_used: virtq.c).
THEOREM DescriptorsAreSharedOut == Spec => []RingIntact
<1> QED BY InitChains, ChainsInductive, ChainsIntact, PTL DEF Spec

-----------------------------------------------------------------------------
(* The rings and the commands. *)

LEMMA ModRange ==
  /\ \A x \in Nat : x % Size \in Descs /\ x % IdxMod \in 0 .. IdxMod - 1
  /\ \A x \in 0 .. IdxMod - 1 : x \in Nat /\ x % Size \in Descs /\ (x + 1) % IdxMod \in 0 .. IdxMod - 1
<1>1. Size \in Nat \ {0} /\ IdxMod \in Nat \ {0}
  BY VirtqAssumption
<1>2. \A x \in Nat : x % Size \in 0 .. Size - 1 /\ x % IdxMod \in 0 .. IdxMod - 1
  BY <1>1
<1>3. \A x \in 0 .. IdxMod - 1 : x \in Nat /\ x + 1 \in Nat
  BY <1>1
<1> QED BY <1>2, <1>3 DEF Descs

\* An entry of a ring is written.
LEMMA RingWrite ==
  ASSUME NEW r \in [Descs -> 0 .. Size], Once(r), NEW i \in Descs, NEW x \in 0 .. Size, x \notin Entries(r),
         NEW q, q = [r EXCEPT ![i] = x]
  PROVE  /\ q \in [Descs -> 0 .. Size] /\ Once(q)
         /\ Entries(q) \subseteq Entries(r) \cup ({x} \ {Bogus})
         /\ r[i] = Bogus => Entries(q) = Entries(r) \cup ({x} \ {Bogus})
         /\ x = Bogus => Entries(q) = Entries(r) \ {r[i]}
<1>1. q \in [Descs -> 0 .. Size] /\ q[i] = x /\ \A j \in Descs \ {i} : q[j] = r[j]
  OBVIOUS
<1>2. \A y : y \in Entries(r) <=> y # Bogus /\ \E j \in Descs : r[j] = y
  BY DEF Entries
<1>3. \A y : y \in Entries(q) <=> y # Bogus /\ \E j \in Descs : q[j] = y
  BY DEF Entries
<1>4. \A j, k \in Descs : r[j] = r[k] /\ r[j] # Bogus => j = k
  BY DEF Once
<1>5. Once(q)
  <2> SUFFICES ASSUME NEW j \in Descs, NEW k \in Descs, q[j] = q[k], q[j] # Bogus PROVE j = k
    BY DEF Once
  <2>1. CASE j = i
    BY <1>1, <1>2, <2>1
  <2>2. CASE k = i
    BY <1>1, <1>2, <2>2
  <2>3. CASE j # i /\ k # i
    BY <1>1, <1>4, <2>3
  <2> QED BY <2>1, <2>2, <2>3
<1>6. ASSUME NEW y \in Entries(q) PROVE y \in Entries(r) \cup ({x} \ {Bogus})
  BY <1>1, <1>2, <1>3
<1>7. ASSUME NEW y \in Entries(r), y # r[i] PROVE y \in Entries(q)
  BY <1>1, <1>2, <1>3, <1>7
<1>8. x # Bogus => x \in Entries(q)
  BY <1>1, <1>3
<1>9. Bogus \notin Entries(r)
  BY <1>2
<1>10. x = Bogus => r[i] \notin Entries(q)
  <2> SUFFICES ASSUME x = Bogus, r[i] # Bogus, NEW j \in Descs, q[j] = r[i] PROVE FALSE
    BY <1>3
  <2> QED BY <1>1, <1>4
<1> QED BY <1>1, <1>5, <1>6, <1>7, <1>8, <1>9, <1>10

\* The fields of the rings and of the device.
LEMMA RingFields ==
  ASSUME Rings
  PROVE  /\ avail.idx \in 0 .. IdxMod - 1 /\ avail.pending \in Nat /\ avail.ring \in [Descs -> 0 .. Size]
         /\ used.idx \in 0 .. IdxMod - 1 /\ used.ring \in [Descs -> 0 .. Size]
         /\ lastUsed \in 0 .. IdxMod - 1
         /\ dev.last \in 0 .. IdxMod - 1 /\ dev.held \subseteq Descs /\ dev.quiet \in BOOLEAN /\ dev.awake \in BOOLEAN
  BY DEF Rings

\* The first descriptor of a chain is the one its head names.
LEMMA HeadLabelled ==
  ASSUME Chains, NEW h \in InFlight
  PROVE  h \in Descs /\ desc[h].slot = chain[h].slot
<1>1. h \in Heads(chain) /\ h \in Descs /\ chain[h].len \in Nat /\ chain[h].len > 0
  BY DEF InFlight, Heads, Chains, Typed
<1>2. Runs(desc, h, chain[h].len) /\ 1 \in 1 .. chain[h].len
  BY <1>1 DEF Chains, SharedOut
<1>3. WalkIn(desc, h, chain[h].len)[1] = h
  BY <1>1, <1>2, RunsFacts
<1>4. desc[WalkIn(desc, h, chain[h].len)[1]].slot = chain[h].slot
  BY <1>1, <1>2 DEF Chains, Labelled
<1> QED BY <1>1, <1>3, <1>4

\* A step that answers nobody.
LEMMA SameCommands ==
  ASSUME Commanded, UNCHANGED <<slots, pending, chain>>, Entries(used.ring)' \subseteq Entries(used.ring),
         ok' => ok, ok' \/ pc' = "idle"
  PROVE  Commanded'
  BY DEF Commanded, Batch, InFlight

\* A command is put into the next free slot.
LEMMA SlotTaken ==
  ASSUME Commanded, NEW cmd \in Commands, NEW k, k = Cardinality(Batch) + 1, k <= MaxSlots,
         slots' = [slots EXCEPT ![k] = [req |-> cmd, resp |-> None]]
  PROVE  /\ k \in SlotNumbers /\ k \notin Batch
         /\ slots' \in [SlotNumbers -> [req : Commands \cup {None}, resp : Commands \cup {None}]]
         /\ Batch' = Batch \cup {k} /\ \E n \in 0 .. MaxSlots : Batch' = 1 .. n
         /\ \A j \in SlotNumbers : j # k => slots'[j] = slots[j]
<1>1. /\ slots \in [SlotNumbers -> [req : Commands \cup {None}, resp : Commands \cup {None}]]
      /\ MaxSlots \in Nat /\ None \notin Commands
  BY VirtqAssumption DEF Commanded
<1>2. PICK n \in 0 .. MaxSlots : Batch = 1 .. n
  BY DEF Commanded
<1>3. Cardinality(1 .. n) = n
  BY <1>1, <1>2, FS_Interval
<1>4. k = n + 1 /\ k \in SlotNumbers /\ k \notin Batch /\ n + 1 \in 0 .. MaxSlots
  BY <1>1, <1>2, <1>3 DEF SlotNumbers
<1>5. /\ slots'[k] = [req |-> cmd, resp |-> None] /\ \A j \in SlotNumbers : j # k => slots'[j] = slots[j]
      /\ slots' \in [SlotNumbers -> [req : Commands \cup {None}, resp : Commands \cup {None}]]
  <2>1. [req |-> cmd, resp |-> None] \in [req : Commands \cup {None}, resp : Commands \cup {None}]
    OBVIOUS
  <2> QED BY <1>1, <1>4, <2>1
<1>6. slots'[k].req # None
  BY <1>1, <1>5
<1>7. Batch' = Batch \cup {k}
  <2>1. \A j : j \in Batch <=> j \in SlotNumbers /\ slots[j].req # None
    BY DEF Batch, SlotNumbers
  <2>2. \A j : j \in Batch' <=> j \in SlotNumbers /\ slots'[j].req # None
    BY DEF Batch, SlotNumbers
  <2> QED BY <1>4, <1>5, <1>6, <2>1, <2>2
<1>8. Batch' = 1 .. n + 1
  BY <1>2, <1>4, <1>7
<1> QED BY <1>4, <1>5, <1>7, <1>8

LEMMA InitQ == Init => QInv
<1> SUFFICES ASSUME Init PROVE QInv
  OBVIOUS
<1>0. /\ avail = [idx |-> 0, pending |-> 0, ring |-> Empty] /\ used = [idx |-> 0, ring |-> Empty] /\ lastUsed = 0
      /\ pc = "idle" /\ ok = TRUE /\ slots = [k \in 1 .. MaxSlots |-> NoCommand] /\ pending = {}
      /\ dev = [last |-> 0, held |-> {}, quiet |-> FALSE, awake |-> FALSE]
      /\ chain = [i \in Descs |-> NoChain]
  BY DEF Init
<1>1. Empty \in [Descs -> 0 .. Size] /\ Entries(Empty) = {} /\ Once(Empty)
  BY SizeFacts DEF Empty, Bogus, Entries, Once
<1>2. 0 \in 0 .. IdxMod - 1
  BY VirtqAssumption
<1>3. Rings
  <2>1. avail \in [idx : 0 .. IdxMod - 1, pending : Nat, ring : [Descs -> 0 .. Size]]
    BY <1>0, <1>1, <1>2
  <2>2. used \in [idx : 0 .. IdxMod - 1, ring : [Descs -> 0 .. Size]]
    BY <1>0, <1>1, <1>2
  <2>3. dev \in [last : 0 .. IdxMod - 1, held : SUBSET Descs, quiet : BOOLEAN, awake : BOOLEAN]
    BY <1>0, <1>2
  <2> QED BY <1>0, <1>2, <2>1, <2>2, <2>3 DEF Rings
<1>4. InFlight = {}
  BY <1>0 DEF InFlight, NoChain
<1>5. avail.ring = Empty /\ used.ring = Empty /\ dev.held = {}
  BY <1>0
<1>6. Apart
  BY <1>1, <1>4, <1>5 DEF Apart
<1>7. Batch = {}
  BY <1>0 DEF Batch, NoCommand
<1>8. Commanded
  <2>1. slots \in [SlotNumbers -> [req : Commands \cup {None}, resp : Commands \cup {None}]]
    BY <1>0 DEF NoCommand, SlotNumbers
  <2>2. 0 \in 0 .. MaxSlots /\ 1 .. 0 = {}
    BY VirtqAssumption
  <2>3. \E n \in 0 .. MaxSlots : Batch = 1 .. n
    BY <1>7, <2>2
  <2> QED BY <1>0, <1>1, <1>4, <1>5, <1>7, <2>1, <2>3 DEF Commanded
<1> QED BY <1>3, <1>6, <1>8, InitChains DEF QInv

LEMMA AddQ ==
  ASSUME QInv, NEW total \in 1 .. MaxChain, NEW cmd \in Commands, VgAdd(total, cmd)
  PROVE  QInv'
<1> DEFINE k == Cardinality(Batch) + 1
           i == ((avail.idx + avail.pending) % IdxMod) % Size
<1>0. /\ Chains /\ Rings /\ Apart /\ Commanded
      /\ pc \in {"idle", "add"} /\ ok /\ k <= MaxSlots
      /\ slots' = [slots EXCEPT ![k] = [req |-> cmd, resp |-> None]]
      /\ UNCHANGED <<lastUsed, used, wants, dev>>
  BY DEF QInv, VgAdd
<1>1. i \in Descs
  BY <1>0, ModRange, RingFields
<1>2. /\ k \in SlotNumbers /\ k \notin Batch
      /\ slots' \in [SlotNumbers -> [req : Commands \cup {None}, resp : Commands \cup {None}]]
      /\ Batch' = Batch \cup {k} /\ \E n \in 0 .. MaxSlots : Batch' = 1 .. n
      /\ \A j \in SlotNumbers : j # k => slots'[j] = slots[j]
  BY <1>0, SlotTaken
<1>3. /\ pending \subseteq Batch /\ Batch \subseteq SlotNumbers
      /\ \A h \in InFlight : chain[h].slot \in pending
      /\ \A h \in Entries(used.ring) : h \in InFlight /\ slots[chain[h].slot].resp = slots[chain[h].slot].req
      /\ \A j \in Batch \ pending : slots[j].resp = slots[j].req
  BY <1>0 DEF Commanded, Apart, Batch, SlotNumbers
<1>4. \A j \in Batch : slots'[j] = slots[j]
  BY <1>2, <1>3
<1>5. CASE total <= numFree
  <2>1. AddAt(total, k, i) /\ pending' = pending \cup {k} /\ pc' = "add" /\ ok' = ok
    BY <1>0, <1>5 DEF VgAdd, VirtqAdd
  <2>2. total \in Nat /\ total > 0
    BY VirtqAssumption
  <2> HIDE DEF k, i
  <2>3. /\ Chains' /\ freeHead \in Descs \ InFlight /\ InFlight' = InFlight \cup {freeHead}
        /\ chain'[freeHead] = [len |-> total, slot |-> k]
        /\ \A h \in InFlight : chain'[h] = chain[h]
    BY <1>0, <1>2, <1>5, <2>1, <2>2, AddChains
  <2>4. avail' = [avail EXCEPT !.ring[i] = freeHead, !.pending = @ + 1]
    BY <2>1 DEF AddAt
  <2>5. /\ avail'.ring = [avail.ring EXCEPT ![i] = freeHead]
        /\ avail' \in [idx : 0 .. IdxMod - 1, pending : Nat, ring : [Descs -> 0 .. Size]]
    <3>1. freeHead \in 0 .. Size
      BY <2>3, SizeFacts DEF Descs
    <3>2. avail \in [idx : 0 .. IdxMod - 1, pending : Nat, ring : [Descs -> 0 .. Size]]
      BY <1>0 DEF Rings
    <3> DEFINE written == [avail.ring EXCEPT ![i] = freeHead]
    <3>3. written \in [Descs -> 0 .. Size] /\ avail.pending + 1 \in Nat
      BY ONLY <1>1, <3>1, <3>2
    <3>4. avail' = [[avail EXCEPT !.ring = written] EXCEPT !.pending = avail.pending + 1]
      BY <2>4
    <3> HIDE DEF written
    <3>5. avail'.ring = written
      BY ONLY <3>2, <3>4
    <3>6. avail' \in [idx : 0 .. IdxMod - 1, pending : Nat, ring : [Descs -> 0 .. Size]]
      BY ONLY <3>2, <3>3, <3>4
    <3> QED BY <3>5, <3>6 DEF written
  <2>6. Rings'
    BY <1>0, <2>5 DEF Rings
  <2>7. /\ Once(avail'.ring) /\ Entries(avail'.ring) \subseteq Entries(avail.ring) \cup {freeHead}
    <3>1. freeHead \in 0 .. Size /\ freeHead \notin Entries(avail.ring)
      BY <1>0, <2>3, SizeFacts DEF Descs, Apart
    <3>2. avail.ring \in [Descs -> 0 .. Size] /\ Once(avail.ring)
      BY <1>0, RingFields DEF Apart
    <3> QED BY <1>1, <2>5, <3>1, <3>2, RingWrite
  <2>8. Apart'
    BY <1>0, <2>3, <2>7 DEF Apart
  <2>9. chain'[freeHead].slot = k
    BY <2>3
  <2>10. Commanded'
    <3>1. pending' \subseteq Batch'
      BY <1>2, <1>3, <2>1
    <3>2. \A h \in InFlight' : chain'[h].slot \in pending'
      BY <1>3, <2>1, <2>3, <2>9
    <3>3. \A g, h \in InFlight' : chain'[g].slot = chain'[h].slot => g = h
      <4>1. \A h \in InFlight : chain'[h].slot # k
        BY <1>2, <1>3, <2>3
      <4>2. \A g, h \in InFlight : chain'[g].slot = chain'[h].slot => g = h
        BY <1>0, <2>3 DEF Commanded
      <4> QED BY <2>3, <2>9, <4>1, <4>2
    <3>4. \A h \in Entries(used'.ring) : slots'[chain'[h].slot].resp = slots'[chain'[h].slot].req
      BY <1>0, <1>3, <1>4, <2>3
    <3>5. \A j \in Batch' \ pending' : slots'[j].resp = slots'[j].req
      BY <1>2, <1>3, <1>4, <2>1
    <3> QED BY <1>0, <1>2, <2>1, <3>1, <3>2, <3>3, <3>4, <3>5 DEF Commanded
  <2> QED BY <2>3, <2>6, <2>8, <2>10 DEF QInv
<1>6. CASE ~(total <= numFree)
  <2>1. UNCHANGED <<desc, freeHead, numFree, chain, avail, pending>> /\ ok' = FALSE /\ pc' = "idle"
    BY <1>6 DEF VgAdd
  <2> HIDE DEF k, i
  <2>2. Chains' /\ InFlight' = InFlight
    BY <1>0, <2>1, SameChains
  <2>3. Rings'
    BY <1>0, <2>1 DEF Rings
  <2>4. Apart'
    BY <1>0, <2>1, <2>2 DEF Apart
  <2>5. Commanded'
    <3>1. \A h \in Entries(used'.ring) : slots'[chain'[h].slot].resp = slots'[chain'[h].slot].req
      BY <1>0, <1>3, <1>4, <2>1
    <3>2. pending' \subseteq Batch'
      BY <1>2, <1>3, <2>1
    <3>3. /\ \A h \in InFlight' : chain'[h].slot \in pending'
          /\ \A g, h \in InFlight' : chain'[g].slot = chain'[h].slot => g = h
      BY <1>0, <2>1, <2>2 DEF Commanded
    <3> QED BY <1>2, <2>1, <3>1, <3>2, <3>3 DEF Commanded
  <2> QED BY <2>2, <2>3, <2>4, <2>5 DEF QInv
<1> QED BY <1>5, <1>6

LEMMA GetQ ==
  ASSUME QInv, GetUsed
  PROVE  QInv'
<1> DEFINE h == UsedId
           i == lastUsed % Size
<1>0. Chains /\ Rings /\ Apart /\ Commanded
  BY DEF QInv
<1>1. /\ h = used.ring[i] /\ h \in Descs /\ chain[h].len # 0 /\ Splice(h, Walk(h, chain[h].len)[chain[h].len])
      /\ used' = [used EXCEPT !.ring[i] = Bogus] /\ lastUsed' = (lastUsed + 1) % IdxMod
      /\ pending' = pending \ {chain[h].slot} /\ UNCHANGED <<avail, pc, ok, wants, slots, dev>>
  BY DEF GetUsed, Strange, Splice, UsedId
<1>2. h \in InFlight
  <2>1. chain \in [Descs -> [len : Nat, slot : SlotNumbers \cup {None}]]
    BY <1>0 DEF Chains, Typed
  <2>2. h \in Descs /\ chain[h].len # 0
    BY <1>1
  <2> HIDE DEF h
  <2> QED BY ONLY <2>1, <2>2 DEF InFlight
<1>3. i \in Descs
  BY <1>0, ModRange, RingFields
<1> HIDE DEF h, i
<1>4. /\ Chains' /\ InFlight' = InFlight \ {h} /\ \A g \in InFlight' : chain'[g] = chain[g]
  BY <1>0, <1>1, <1>2, GetChains
<1>5. /\ used'.ring = [used.ring EXCEPT ![i] = Bogus]
      /\ used' \in [idx : 0 .. IdxMod - 1, ring : [Descs -> 0 .. Size]]
  <2>1. used \in [idx : 0 .. IdxMod - 1, ring : [Descs -> 0 .. Size]] /\ Bogus \in 0 .. Size
    BY <1>0, SizeFacts DEF Rings, Bogus
  <2> QED BY ONLY <1>1, <1>3, <2>1
<1>6. Rings'
  <2>1. lastUsed' \in 0 .. IdxMod - 1
    BY <1>0, <1>1, ModRange, RingFields
  <2> QED BY <1>0, <1>1, <1>5, <2>1 DEF Rings
<1>7. Once(used'.ring) /\ Entries(used'.ring) = Entries(used.ring) \ {h} /\ h \in Entries(used.ring)
  <2>1. used.ring \in [Descs -> 0 .. Size] /\ Once(used.ring) /\ Bogus \in 0 .. Size /\ Bogus \notin Entries(used.ring)
    BY <1>0, RingFields, SizeFacts DEF Apart, Bogus, Entries
  <2>2. Once(used'.ring) /\ Entries(used'.ring) = Entries(used.ring) \ {used.ring[i]}
    BY <1>3, <1>5, <2>1, RingWrite
  <2>3. h # Bogus
    BY <1>1, SizeFacts
  <2> QED BY <1>1, <1>3, <2>2, <2>3 DEF Entries
<1>8. Apart'
  <2>1. Apart /\ UNCHANGED <<avail, dev>>
    BY <1>0, <1>1
  <2> QED BY ONLY <1>4, <1>7, <2>1 DEF Apart
<1>9. Commanded'
  <2>1. /\ \A g \in InFlight : chain[g].slot \in pending
        /\ \A f, g \in InFlight : chain[f].slot = chain[g].slot => f = g
        /\ \A g \in Entries(used.ring) : g \in InFlight /\ slots[chain[g].slot].resp = slots[chain[g].slot].req
        /\ pending \subseteq Batch /\ Batch' = Batch
    BY <1>0, <1>1 DEF Commanded, Apart, Batch
  <2>p. pending' = pending \ {chain[h].slot}
    BY <1>1
  <2>2. \A g \in InFlight' : chain'[g].slot \in pending'
    BY ONLY <1>2, <1>4, <2>1, <2>p
  <2>3. \A f, g \in InFlight' : chain'[f].slot = chain'[g].slot => f = g
    BY <1>4, <2>1
  <2>4. \A g \in Entries(used'.ring) : slots'[chain'[g].slot].resp = slots'[chain'[g].slot].req
    BY <1>1, <1>4, <1>7, <2>1
  <2>5. ok' => \A k \in Batch' \ pending' : slots'[k].resp = slots'[k].req
    BY <1>0, <1>1, <1>7, <2>1 DEF Commanded
  <2> QED BY <1>0, <1>1, <2>1, <2>2, <2>3, <2>4, <2>5 DEF Commanded
<1> QED BY <1>4, <1>6, <1>8, <1>9 DEF QInv

\* Nothing is in flight when vg_run waits for nobody.
LEMMA NothingAwaited ==
  ASSUME QInv, pending = {}
  PROVE  InFlight = {} /\ dev.held = {} /\ Entries(avail.ring) = {} /\ Entries(used.ring) = {}
  BY DEF QInv, Commanded, Apart

LEMMA NullQ ==
  ASSUME QInv, VgReturns \/ VgTimesOut \/ VgPollsAgain
  PROVE  QInv'
<1>0. Chains /\ Rings /\ Apart /\ Commanded
  BY DEF QInv
<1>1. /\ pc = "drain" /\ lastUsed' \in {lastUsed, (lastUsed + 1) % IdxMod}
      /\ UNCHANGED <<desc, freeHead, numFree, chain, avail, used, wants, dev, pending>>
  BY DEF VgReturns, VgTimesOut, GiveUp, VgPollsAgain, GetUsedNull
<1>2. ok
  BY <1>0, <1>1 DEF Commanded
<1>3. Chains' /\ InFlight' = InFlight
  BY <1>0, <1>1, SameChains
<1>4. Rings'
  BY <1>0, <1>1, ModRange, RingFields DEF Rings
<1>5. Apart'
  BY <1>0, <1>1, <1>3 DEF Apart
<1>6. CASE VgReturns
  <2>1. pending = {} /\ slots' = [k \in 1 .. MaxSlots |-> NoCommand] /\ ok' = ok
    BY <1>6 DEF VgReturns
  <2>2. InFlight = {} /\ Entries(used.ring) = {}
    BY <2>1, NothingAwaited
  <2>3. slots' \in [SlotNumbers -> [req : Commands \cup {None}, resp : Commands \cup {None}]]
    BY <2>1 DEF NoCommand, SlotNumbers
  <2>4. Batch' = {}
    BY <2>1 DEF Batch, NoCommand
  <2>5. \E n \in 0 .. MaxSlots : Batch' = 1 .. n
    <3>1. 0 \in 0 .. MaxSlots /\ 1 .. 0 = {}
      BY VirtqAssumption
    <3> QED BY <2>4, <3>1
  <2>6. Commanded'
    BY <1>1, <1>2, <1>3, <2>1, <2>2, <2>3, <2>4, <2>5 DEF Commanded
  <2> QED BY <1>3, <1>4, <1>5, <2>6 DEF QInv
<1>7. CASE VgTimesOut \/ VgPollsAgain
  <2>1. UNCHANGED slots /\ (ok' \/ pc' = "idle")
    BY <1>2, <1>7 DEF VgTimesOut, GiveUp, VgPollsAgain
  <2>2. Commanded'
    BY <1>0, <1>1, <1>2, <2>1, SameCommands
  <2> QED BY <1>3, <1>4, <1>5, <2>2 DEF QInv
<1> QED BY <1>6, <1>7

LEMMA KickQ ==
  ASSUME QInv, VgKick \/ KickPrepare \/ Notify
  PROVE  QInv'
<1>0. Chains /\ Rings /\ Apart /\ Commanded
  BY DEF QInv
<1>1. /\ UNCHANGED <<desc, freeHead, numFree, chain, lastUsed, used, ok, slots, pending>> /\ pc # "idle"
  BY DEF VgKick, KickPrepare, Publish, ReadFlags, Notify, ring
<1>2. ok
  BY <1>0, <1>1 DEF Commanded
<1>3. Chains' /\ InFlight' = InFlight
  BY <1>0, <1>1, SameChains
<1>4. /\ avail' \in [idx : 0 .. IdxMod - 1, pending : Nat, ring : [Descs -> 0 .. Size]]
      /\ avail'.ring = avail.ring
  <2>0. avail \in [idx : 0 .. IdxMod - 1, pending : Nat, ring : [Descs -> 0 .. Size]]
    BY <1>0 DEF Rings
  <2>1. CASE Publish("kick", "flags")
    <3>1. (avail.idx + avail.pending) % IdxMod \in 0 .. IdxMod - 1
      <4>1. avail.idx + avail.pending \in Nat
        BY <2>0, ModRange
      <4> QED BY <4>1, ModRange
    <3>2. avail' = [avail EXCEPT !.idx = (avail.idx + avail.pending) % IdxMod, !.pending = 0]
      BY <2>1 DEF Publish
    <3> QED BY <2>0, <3>1, <3>2
  <2>2. CASE ~Publish("kick", "flags")
    BY <2>0, <2>2 DEF VgKick, KickPrepare, ReadFlags, Notify, ring
  <2> QED BY <2>1, <2>2
<1>5. /\ dev' \in [last : 0 .. IdxMod - 1, held : SUBSET Descs, quiet : BOOLEAN, awake : BOOLEAN]
      /\ dev'.held = dev.held
  <2>0. dev \in [last : 0 .. IdxMod - 1, held : SUBSET Descs, quiet : BOOLEAN, awake : BOOLEAN]
    BY <1>0 DEF Rings
  <2>1. CASE Notify
    <3>1. dev' = [dev EXCEPT !.awake = dev.awake \/ wants]
      BY <2>1 DEF Notify
    <3> QED BY <2>0, <3>1
  <2>2. CASE ~Notify
    BY <2>0, <2>2 DEF VgKick, KickPrepare, Publish, ReadFlags
  <2> QED BY <2>1, <2>2
<1>6. Rings'
  BY <1>0, <1>1, <1>4, <1>5 DEF Rings
<1>7. Apart'
  BY <1>0, <1>1, <1>3, <1>4, <1>5 DEF Apart
<1>8. Commanded'
  BY <1>0, <1>1, <1>2, SameCommands
<1> QED BY <1>3, <1>6, <1>7, <1>8 DEF QInv

LEMMA FetchQ ==
  ASSUME QInv, DevFetch
  PROVE  QInv'
<1> DEFINE i == dev.last % Size
           h == avail.ring[i]
<1>0. Chains /\ Rings /\ Apart /\ Commanded
  BY DEF QInv
<1>1. /\ h # Bogus /\ avail' = [avail EXCEPT !.ring[i] = Bogus]
      /\ dev' = [dev EXCEPT !.last = (dev.last + 1) % IdxMod, !.held = dev.held \cup {h}]
      /\ UNCHANGED <<desc, freeHead, numFree, chain, lastUsed, used, pc, ok, wants, slots, pending>>
  BY DEF DevFetch
<1>2. /\ avail \in [idx : 0 .. IdxMod - 1, pending : Nat, ring : [Descs -> 0 .. Size]]
      /\ dev \in [last : 0 .. IdxMod - 1, held : SUBSET Descs, quiet : BOOLEAN, awake : BOOLEAN]
  BY <1>0 DEF Rings
<1>3. i \in Descs /\ (dev.last + 1) % IdxMod \in 0 .. IdxMod - 1 /\ Bogus \in 0 .. Size
  BY <1>2, ModRange, SizeFacts DEF Bogus
<1> HIDE DEF i
<1>4. Chains' /\ InFlight' = InFlight
  BY <1>0, <1>1, SameChains
<1>5. h \in Entries(avail.ring) /\ h \in InFlight /\ h \in Descs
  <2>1. h \in Entries(avail.ring)
    BY <1>1, <1>3 DEF Entries
  <2> QED BY <1>0, <2>1 DEF Apart, InFlight
<1> HIDE DEF h
<1>6. /\ avail'.ring = [avail.ring EXCEPT ![i] = Bogus]
      /\ avail' \in [idx : 0 .. IdxMod - 1, pending : Nat, ring : [Descs -> 0 .. Size]]
  BY ONLY <1>1, <1>2, <1>3
<1>7. /\ dev'.held = dev.held \cup {h}
      /\ dev' \in [last : 0 .. IdxMod - 1, held : SUBSET Descs, quiet : BOOLEAN, awake : BOOLEAN]
  BY ONLY <1>1, <1>2, <1>3, <1>5
<1>8. Rings'
  BY <1>0, <1>1, <1>6, <1>7 DEF Rings
<1>9. Once(avail'.ring) /\ Entries(avail'.ring) = Entries(avail.ring) \ {h}
  <2>1. avail.ring \in [Descs -> 0 .. Size] /\ Once(avail.ring) /\ Bogus \notin Entries(avail.ring)
    BY <1>0, RingFields DEF Apart, Entries
  <2> QED BY <1>3, <1>6, <2>1, RingWrite DEF h
<1>10. Apart'
  BY <1>0, <1>1, <1>4, <1>5, <1>7, <1>9 DEF Apart
<1>11. Commanded'
  BY <1>0, <1>1, SameCommands DEF Commanded
<1> QED BY <1>4, <1>8, <1>10, <1>11 DEF QInv

LEMMA CompleteQ ==
  ASSUME QInv, NEW h \in Descs, DevComplete(h)
  PROVE  QInv'
<1> DEFINE i == used.idx % Size
           s == desc[h].slot
<1>0. Chains /\ Rings /\ Apart /\ Commanded
  BY DEF QInv
<1>1. /\ h \in dev.held /\ slots' = [slots EXCEPT ![s].resp = slots[s].req]
      /\ used' = [idx |-> (used.idx + 1) % IdxMod, ring |-> [used.ring EXCEPT ![i] = h]]
      /\ dev' = [dev EXCEPT !.held = dev.held \ {h}]
      /\ UNCHANGED <<desc, freeHead, numFree, chain, avail, lastUsed, pc, ok, wants, pending>>
  BY DEF DevComplete, ring
<1>2. /\ used \in [idx : 0 .. IdxMod - 1, ring : [Descs -> 0 .. Size]]
      /\ dev \in [last : 0 .. IdxMod - 1, held : SUBSET Descs, quiet : BOOLEAN, awake : BOOLEAN]
  BY <1>0 DEF Rings
<1>3. i \in Descs /\ (used.idx + 1) % IdxMod \in 0 .. IdxMod - 1 /\ h \in 0 .. Size
  <2>1. i \in Descs /\ (used.idx + 1) % IdxMod \in 0 .. IdxMod - 1
    BY <1>2, ModRange
  <2>2. h \in 0 .. Size
    BY SizeFacts DEF Descs
  <2> QED BY <2>1, <2>2
<1>4. Chains' /\ InFlight' = InFlight
  BY <1>0, <1>1, SameChains
<1>5. h \in InFlight /\ h \notin Entries(used.ring) /\ h \notin Entries(avail.ring)
  BY <1>0, <1>1 DEF Apart
<1>6. s = chain[h].slot /\ s \in pending /\ s \in SlotNumbers
  <2>1. s = chain[h].slot
    BY <1>0, <1>5, HeadLabelled
  <2>2. chain[h].slot \in pending /\ pending \subseteq SlotNumbers
    BY <1>0, <1>5 DEF Commanded, Batch, SlotNumbers
  <2> QED BY <2>1, <2>2
<1> HIDE DEF i, s
<1>7. /\ used'.ring = [used.ring EXCEPT ![i] = h]
      /\ used' \in [idx : 0 .. IdxMod - 1, ring : [Descs -> 0 .. Size]]
  BY ONLY <1>1, <1>2, <1>3
<1>8. /\ dev'.held = dev.held \ {h}
      /\ dev' \in [last : 0 .. IdxMod - 1, held : SUBSET Descs, quiet : BOOLEAN, awake : BOOLEAN]
  BY ONLY <1>1, <1>2
<1>9. Rings'
  BY <1>0, <1>1, <1>7, <1>8 DEF Rings
<1>10. Once(used'.ring) /\ Entries(used'.ring) \subseteq Entries(used.ring) \cup {h}
  <2>1. used.ring \in [Descs -> 0 .. Size] /\ Once(used.ring)
    BY <1>0, RingFields DEF Apart
  <2>2. Once(used'.ring) /\ Entries(used'.ring) \subseteq Entries(used.ring) \cup ({h} \ {Bogus})
    BY ONLY <1>3, <1>5, <1>7, <2>1, RingWrite
  <2> QED BY <2>2
<1>11. Apart'
  BY <1>0, <1>1, <1>4, <1>5, <1>8, <1>10 DEF Apart
<1>12. /\ slots' \in [SlotNumbers -> [req : Commands \cup {None}, resp : Commands \cup {None}]]
       /\ slots'[s].resp = slots'[s].req /\ \A k \in SlotNumbers : k # s => slots'[k] = slots[k]
       /\ \A k \in SlotNumbers : slots'[k].req = slots[k].req
  <2>1. slots \in [SlotNumbers -> [req : Commands \cup {None}, resp : Commands \cup {None}]]
    BY <1>0 DEF Commanded
  <2> DEFINE answered == [slots[s] EXCEPT !.resp = slots[s].req]
  <2>2. /\ answered \in [req : Commands \cup {None}, resp : Commands \cup {None}]
        /\ answered.req = slots[s].req /\ answered.resp = slots[s].req
    BY ONLY <1>6, <2>1
  <2>3. slots' = [slots EXCEPT ![s] = answered]
    BY <1>1
  <2> HIDE DEF answered
  <2> QED BY ONLY <1>6, <2>1, <2>2, <2>3
<1>13. Batch' = Batch
  BY <1>12 DEF Batch, SlotNumbers
<1>14. Commanded'
  <2>1. /\ \A g \in InFlight : chain[g].slot \in pending
        /\ \A f, g \in InFlight : chain[f].slot = chain[g].slot => f = g
        /\ \A g \in Entries(used.ring) : g \in InFlight /\ slots[chain[g].slot].resp = slots[chain[g].slot].req
        /\ pending \subseteq Batch /\ Batch \subseteq SlotNumbers
    BY <1>0 DEF Commanded, Apart, Batch, SlotNumbers
  <2>2. ASSUME NEW g \in Entries(used'.ring)
        PROVE  slots'[chain'[g].slot].resp = slots'[chain'[g].slot].req
    <3>1. CASE g = h
      BY <1>1, <1>6, <1>12, <3>1
    <3>2. CASE g # h
      <4>1. g \in Entries(used.ring) /\ g \in InFlight
        BY <1>10, <2>1, <3>2
      <4>2. chain[g].slot # s /\ chain[g].slot \in SlotNumbers
        BY <1>5, <1>6, <2>1, <3>2, <4>1
      <4> QED BY <1>1, <1>12, <2>1, <4>1, <4>2
    <3> QED BY <3>1, <3>2
  <2>3. ok' => \A k \in Batch' \ pending' : slots'[k].resp = slots'[k].req
    <3>1. ok => \A k \in Batch \ pending : slots[k].resp = slots[k].req
      BY <1>0 DEF Commanded
    <3> QED BY <1>1, <1>6, <1>12, <1>13, <2>1, <3>1
  <2>4. /\ pending' \subseteq Batch' /\ \E n \in 0 .. MaxSlots : Batch' = 1 .. n
        /\ \A g \in InFlight' : chain'[g].slot \in pending'
        /\ \A f, g \in InFlight' : chain'[f].slot = chain'[g].slot => f = g
        /\ ok' \/ pc' = "idle"
    BY <1>0, <1>1, <1>4, <1>13 DEF Commanded
  <2> QED BY <1>12, <2>2, <2>3, <2>4 DEF Commanded
<1> QED BY <1>4, <1>9, <1>11, <1>14 DEF QInv

LEMMA StrangeQ ==
  ASSUME QInv, DevStrange
  PROVE  QInv'
<1> DEFINE i == used.idx % Size
<1>0. Chains /\ Rings /\ Apart /\ Commanded
  BY DEF QInv
<1>1. /\ used' = [idx |-> (used.idx + 1) % IdxMod, ring |-> [used.ring EXCEPT ![i] = Bogus]]
      /\ UNCHANGED <<desc, freeHead, numFree, chain, avail, lastUsed, pc, ok, wants, slots, pending, dev>>
  BY DEF DevStrange, ring
<1>2. used \in [idx : 0 .. IdxMod - 1, ring : [Descs -> 0 .. Size]]
  BY <1>0 DEF Rings
<1>3. i \in Descs /\ (used.idx + 1) % IdxMod \in 0 .. IdxMod - 1 /\ Bogus \in 0 .. Size
  BY <1>2, ModRange, SizeFacts DEF Bogus
<1> HIDE DEF i
<1>4. Chains' /\ InFlight' = InFlight
  BY <1>0, <1>1, SameChains
<1>5. /\ used'.ring = [used.ring EXCEPT ![i] = Bogus]
      /\ used' \in [idx : 0 .. IdxMod - 1, ring : [Descs -> 0 .. Size]]
  BY ONLY <1>1, <1>2, <1>3
<1>6. Rings'
  BY <1>0, <1>1, <1>5 DEF Rings
<1>7. Once(used'.ring) /\ Entries(used'.ring) \subseteq Entries(used.ring)
  <2>1. used.ring \in [Descs -> 0 .. Size] /\ Once(used.ring) /\ Bogus \notin Entries(used.ring)
    BY <1>0, RingFields DEF Apart, Entries
  <2> QED BY <1>3, <1>5, <2>1, RingWrite
<1>8. Apart'
  BY <1>0, <1>1, <1>4, <1>7 DEF Apart
<1>9. Commanded'
  BY <1>0, <1>1, <1>7, SameCommands DEF Commanded
<1> QED BY <1>4, <1>6, <1>8, <1>9 DEF QInv

LEMMA SignalsQ ==
  ASSUME QInv, DevQuiet \/ DevLoud \/ DevSleep \/ UNCHANGED vars
  PROVE  QInv'
<1>0. Chains /\ Rings /\ Apart /\ Commanded
  BY DEF QInv
<1>1. UNCHANGED <<desc, freeHead, numFree, chain, avail, used, lastUsed, pc, ok, slots, pending>>
  BY DEF DevQuiet, DevLoud, DevSleep, vars, ring
<1>2. /\ dev' \in [last : 0 .. IdxMod - 1, held : SUBSET Descs, quiet : BOOLEAN, awake : BOOLEAN]
      /\ dev'.held = dev.held
  <2>1. dev \in [last : 0 .. IdxMod - 1, held : SUBSET Descs, quiet : BOOLEAN, awake : BOOLEAN]
    BY <1>0 DEF Rings
  <2>2. \/ dev' = [dev EXCEPT !.quiet = TRUE] \/ dev' = [dev EXCEPT !.quiet = FALSE]
        \/ dev' = [dev EXCEPT !.awake = FALSE] \/ dev' = dev
    BY DEF DevQuiet, DevLoud, DevSleep, vars
  <2> QED BY ONLY <2>1, <2>2
<1>3. Chains' /\ InFlight' = InFlight
  BY <1>0, <1>1, SameChains
<1>4. Rings'
  BY <1>0, <1>1, <1>2 DEF Rings
<1>5. Apart'
  BY <1>0, <1>1, <1>2, <1>3 DEF Apart
<1>6. Commanded'
  BY <1>0, <1>1, SameCommands DEF Commanded
<1> QED BY <1>3, <1>4, <1>5, <1>6 DEF QInv

LEMMA QInductive == QInv /\ [Next]_vars => QInv'
<1> SUFFICES ASSUME QInv, [Next]_vars
             PROVE  QInv'
  OBVIOUS
<1>1. CASE \E total \in 1 .. MaxChain, cmd \in Commands : VgAdd(total, cmd)
  BY <1>1, AddQ
<1>2. CASE GetUsed
  BY <1>2, GetQ
<1>3. CASE VgReturns \/ VgTimesOut \/ VgPollsAgain
  BY <1>3, NullQ
<1>4. CASE VgKick \/ KickPrepare \/ Notify
  BY <1>4, KickQ
<1>5. CASE DevFetch
  BY <1>5, FetchQ
<1>6. CASE \E h \in Descs : DevComplete(h)
  BY <1>6, CompleteQ
<1>7. CASE DevStrange
  BY <1>7, StrangeQ
<1>8. CASE DevQuiet \/ DevLoud \/ DevSleep \/ UNCHANGED vars
  BY <1>8, SignalsQ
<1> QED BY <1>1, <1>2, <1>3, <1>4, <1>5, <1>6, <1>7, <1>8 DEF Next

\* A batch that vg_run returns has its own answers: no chain of a batch that was
\* given up is answered into a slot that is used again (gfx_virtio.c, vg_run).
THEOREM AnswersAreTheBatchs == Spec => []AnswersMatch
<1>1. QInv => AnswersMatch
  BY DEF QInv, Commanded, AnswersMatch
<1> QED BY InitQ, QInductive, <1>1, PTL DEF Spec

-----------------------------------------------------------------------------
(* Positions and distances across the wrap. *)

LEMMA Divided ==
  ASSUME NEW m \in Nat \ {0}, NEW y \in Nat
  PROVE  y = m * (y \div m) + (y % m) /\ y \div m \in Nat /\ y % m \in 0 .. m - 1
  OBVIOUS

LEMMA Remainder ==
  ASSUME NEW m \in Nat \ {0}, NEW y \in Nat, NEW q \in Nat, NEW r \in 0 .. m - 1, y = m * q + r
  PROVE  y % m = r
  OBVIOUS

LEMMA ModAdd ==
  ASSUME NEW m \in Nat \ {0}, NEW y \in Nat, NEW c \in Nat
  PROVE  (y + m * c) % m = y % m
<1> DEFINE q == y \div m
           r == y % m
<1>1. y = m * q + r /\ q \in Nat /\ r \in 0 .. m - 1
  BY Divided
<1> HIDE DEF q, r
<1>2. y + m * c = m * (q + c) + r /\ q + c \in Nat /\ y + m * c \in Nat
  BY <1>1
<1>3. (y + m * c) % m = r
  BY ONLY <1>1, <1>2, m \in Nat \ {0}, Remainder
<1> QED BY <1>3 DEF r

LEMMA ModApart ==
  ASSUME NEW m \in Nat \ {0}, NEW y \in Nat, NEW z \in Nat, y <= z, z < y + m, y % m = z % m
  PROVE  y = z
<1> DEFINE q == y \div m
           p == z \div m
           r == y % m
<1>1. y = m * q + r /\ z = m * p + r /\ q \in Nat /\ p \in Nat /\ r \in 0 .. m - 1
  BY Divided
<1> HIDE DEF q, p, r
<1>2. m * q <= m * p /\ m * p < m * q + m
  BY <1>1
<1>3. p >= q
  <2> SUFFICES ASSUME p < q PROVE FALSE
    BY <1>1
  <2>1. q - p \in Nat /\ q - p >= 1 /\ m * (q - p) = m * q - m * p
    BY <1>1
  <2>2. m * (q - p) >= m
    BY <2>1
  <2> QED BY <1>1, <1>2, <2>1, <2>2
<1>4. p < q + 1
  <2> SUFFICES ASSUME p >= q + 1 PROVE FALSE
    BY <1>1
  <2>1. p - q \in Nat /\ p - q >= 1 /\ m * (p - q) = m * p - m * q
    BY <1>1
  <2>2. m * (p - q) >= m
    BY <2>1
  <2> QED BY <1>1, <1>2, <2>1, <2>2
<1> QED BY <1>1, <1>3, <1>4

LEMMA ModAgain ==
  ASSUME Divides, NEW y \in Nat
  PROVE  (y % IdxMod) % Size = y % Size
<1>1. Size \in Nat \ {0} /\ IdxMod \in Nat \ {0} /\ IdxMod % Size = 0
  BY VirtqAssumption DEF Divides
<1> DEFINE c == IdxMod \div Size
           a == y \div IdxMod
           b == y % IdxMod
<1>2. IdxMod = Size * c /\ c \in Nat
  BY <1>1, Divided
<1>3. y = IdxMod * a + b /\ a \in Nat /\ b \in Nat
  BY <1>1, Divided
<1> HIDE DEF a, b, c
<1>4. y = b + Size * (c * a) /\ c * a \in Nat
  BY <1>1, <1>2, <1>3
<1>5. y % Size = b % Size
  BY ONLY <1>1, <1>3, <1>4, ModAdd
<1> QED BY <1>5 DEF b

LEMMA AtFacts ==
  ASSUME Divides, NEW x \in 0 .. IdxMod - 1
  PROVE  /\ \A k \in Nat : At(x, k) \in Descs
         /\ At(x, 0) = x % Size
         /\ \A k \in Nat : At((x + 1) % IdxMod, k) = At(x, k + 1)
         /\ \A j, k \in 0 .. Size - 1 : At(x, j) = At(x, k) => j = k
         /\ At(x, Size) = At(x, 0)
<1>1. Size \in Nat \ {0} /\ IdxMod \in Nat \ {0} /\ x \in Nat /\ IdxMod % Size = 0
  BY VirtqAssumption DEF Divides
<1>2. \A k \in Nat : At(x, k) = (x + k) % Size /\ x + k \in Nat
  <2> TAKE k \in Nat
  <2>1. x + k \in Nat
    BY <1>1
  <2> QED BY <2>1, ModAgain DEF At
<1>3. \A k \in Nat : At(x, k) \in Descs
  BY <1>2, ModRange
<1>4. At(x, 0) = x % Size
  BY <1>1, <1>2
<1>5. ASSUME NEW k \in Nat PROVE At((x + 1) % IdxMod, k) = At(x, k + 1)
  <2>1. At(x, k + 1) = (x + (k + 1)) % Size
    BY <1>2
  <2>2. CASE x = IdxMod - 1
    <3>1. (x + 1) % IdxMod = 0
      <4>1. x + 1 = IdxMod * 1 + 0 /\ 0 \in 0 .. IdxMod - 1
        BY <1>1, <2>2
      <4> QED BY <1>1, <4>1, Remainder
    <3>2. At(0, k) = k % Size
      <4>1. At(0, k) = (k % IdxMod) % Size
        BY DEF At
      <4> QED BY <4>1, ModAgain
    <3> DEFINE c == IdxMod \div Size
    <3>3. IdxMod = Size * c /\ c \in Nat
      BY <1>1, Divided
    <3> HIDE DEF c
    <3>4. x + (k + 1) = k + Size * c
      BY <1>1, <2>2, <3>3
    <3>5. (k + Size * c) % Size = k % Size
      BY <1>1, <3>3, ModAdd
    <3> QED BY <2>1, <3>1, <3>2, <3>4, <3>5
  <2>3. CASE x # IdxMod - 1
    <3>1. (x + 1) % IdxMod = x + 1 /\ x + 1 \in Nat
      BY <1>1, <2>3
    <3>2. At(x + 1, k) = (((x + 1) + k) % IdxMod) % Size /\ (x + 1) + k \in Nat
      BY <3>1 DEF At
    <3>3. At(x + 1, k) = ((x + 1) + k) % Size
      BY <3>2, ModAgain
    <3>4. (x + 1) + k = x + (k + 1)
      BY <1>1
    <3> QED BY <2>1, <3>1, <3>3, <3>4
  <2> QED BY <2>2, <2>3
<1>6. ASSUME NEW j \in 0 .. Size - 1, NEW k \in 0 .. Size - 1, At(x, j) = At(x, k) PROVE j = k
  <2>1. (x + j) % Size = (x + k) % Size /\ x + j \in Nat /\ x + k \in Nat
    BY <1>1, <1>2, <1>6
  <2>2. x + j <= x + k \/ x + k <= x + j
    BY <2>1
  <2>3. x + k < (x + j) + Size /\ x + j < (x + k) + Size
    BY <1>1
  <2>4. x + j = x + k
    BY ONLY <1>1, <2>1, <2>2, <2>3, ModApart
  <2> QED BY <1>1, <2>4
<1>7. At(x, Size) = At(x, 0)
  <2>1. At(x, Size) = (x + Size) % Size
    BY <1>1, <1>2
  <2>2. x + Size = x + Size * 1
    BY <1>1
  <2>3. (x + Size * 1) % Size = x % Size
    BY <1>1, ModAdd
  <2> QED BY <1>4, <2>1, <2>2, <2>3
<1> QED BY <1>3, <1>4, <1>5, <1>6, <1>7

LEMMA WrapFacts ==
  \A y \in Int : /\ 0 <= y /\ y < IdxMod => y % IdxMod = y
                 /\ IdxMod <= y /\ y < 2 * IdxMod => y % IdxMod = y - IdxMod
                 /\ y < 0 /\ y >= - IdxMod => y % IdxMod = y + IdxMod
<1>1. IdxMod \in Nat \ {0}
  BY VirtqAssumption
<1>2. ASSUME NEW y \in Int, 0 <= y, y < IdxMod PROVE y % IdxMod = y
  BY <1>1, <1>2
<1>3. ASSUME NEW y \in Int, IdxMod <= y, y < 2 * IdxMod PROVE y % IdxMod = y - IdxMod
  BY <1>1, <1>3
<1>4. ASSUME NEW y \in Int, y < 0, y >= - IdxMod PROVE y % IdxMod = y + IdxMod
  BY <1>1, <1>4
<1> QED BY <1>2, <1>3, <1>4

LEMMA GapFacts ==
  ASSUME NEW a \in 0 .. IdxMod - 1, NEW b \in 0 .. IdxMod - 1
  PROVE  /\ Gap(a, b) \in 0 .. IdxMod - 1
         /\ Gap(a, b) = 0 <=> a = b
         /\ Gap(a, b) > 0 => Gap((a + 1) % IdxMod, b) = Gap(a, b) - 1
         /\ \A p \in Nat : Gap(a, b) + p < IdxMod =>
              (b + p) % IdxMod \in 0 .. IdxMod - 1 /\ Gap(a, (b + p) % IdxMod) = Gap(a, b) + p
         /\ (a + Gap(a, b)) % IdxMod = b
         /\ Gap(a, b) = IF b >= a THEN b - a ELSE (b - a) + IdxMod
<1>1. IdxMod \in Nat \ {0} /\ a \in Int /\ b \in Int /\ IdxMod \in Int
  BY VirtqAssumption
<1> DEFINE Far(x, y) == IF y >= x THEN y - x ELSE (y - x) + IdxMod
<1>2. \A x, y \in 0 .. IdxMod - 1 : Gap(x, y) = Far(x, y)
  <2> TAKE x, y \in 0 .. IdxMod - 1
  <2>1. y - x \in Int /\ y - x < IdxMod /\ y - x >= - IdxMod
    BY <1>1
  <2>2. CASE y >= x
    <3>1. 0 <= y - x
      BY <1>1, <2>2
    <3> QED BY <2>1, <2>2, <3>1, WrapFacts DEF Gap
  <2>3. CASE ~(y >= x)
    <3>1. y - x < 0
      BY <1>1, <2>3
    <3> QED BY <2>1, <2>3, <3>1, WrapFacts DEF Gap
  <2> QED BY <2>2, <2>3
<1>3. Gap(a, b) = Far(a, b)
  BY <1>2
<1>4. Gap(a, b) \in 0 .. IdxMod - 1 /\ (Gap(a, b) = 0 <=> a = b)
  BY <1>1, <1>3
<1>5. ASSUME Gap(a, b) > 0 PROVE Gap((a + 1) % IdxMod, b) = Gap(a, b) - 1
  <2>1. (a + 1) % IdxMod = IF a = IdxMod - 1 THEN 0 ELSE a + 1
    BY <1>1, WrapFacts
  <2>2. (a + 1) % IdxMod \in 0 .. IdxMod - 1
    BY <1>1, <2>1
  <2>3. Gap((a + 1) % IdxMod, b) = Far((a + 1) % IdxMod, b)
    BY <1>2, <2>2
  <2> QED BY <1>1, <1>3, <1>5, <2>1, <2>3
<1>6. ASSUME NEW p \in Nat, Gap(a, b) + p < IdxMod
      PROVE  (b + p) % IdxMod \in 0 .. IdxMod - 1 /\ Gap(a, (b + p) % IdxMod) = Gap(a, b) + p
  <2>1. b + p \in Int /\ 0 <= b + p /\ b + p < 2 * IdxMod
    BY <1>1, <1>3, <1>6
  <2>2. (b + p) % IdxMod = IF b + p < IdxMod THEN b + p ELSE (b + p) - IdxMod
    BY <1>1, <2>1, WrapFacts
  <2>3. (b + p) % IdxMod \in 0 .. IdxMod - 1
    BY <1>1, <2>1, <2>2
  <2>4. Gap(a, (b + p) % IdxMod) = Far(a, (b + p) % IdxMod)
    BY <1>2, <2>3
  <2> QED BY <1>1, <1>3, <1>6, <2>2, <2>3, <2>4
<1>7. (a + Gap(a, b)) % IdxMod = b
  <2>1. CASE b >= a
    <3>1. a + Gap(a, b) = b
      BY <1>1, <1>3, <2>1
    <3> QED BY <1>1, <3>1, WrapFacts
  <2>2. CASE ~(b >= a)
    <3>1. a + Gap(a, b) = b + IdxMod
      BY <1>1, <1>3, <2>2
    <3>2. IdxMod <= b + IdxMod /\ b + IdxMod < 2 * IdxMod /\ b + IdxMod \in Int /\ (b + IdxMod) - IdxMod = b
      BY <1>1
    <3> QED BY <3>1, <3>2, WrapFacts
  <2> QED BY <2>1, <2>2
<1> QED BY <1>3, <1>4, <1>5, <1>6, <1>7

LEMMA GapZero ==
  ASSUME NEW a \in 0 .. IdxMod - 1, NEW b \in 0 .. IdxMod - 1
  PROVE  Gap(a, b) \in 0 .. IdxMod - 1 /\ (Gap(a, b) = 0 <=> a = b)
  BY GapFacts

LEMMA GapShrinks ==
  ASSUME NEW a \in 0 .. IdxMod - 1, NEW b \in 0 .. IdxMod - 1, a # b
  PROVE  Gap((a + 1) % IdxMod, b) = Gap(a, b) - 1 /\ Gap(a, b) > 0
<1>1. Gap(a, b) \in 0 .. IdxMod - 1 /\ Gap(a, b) # 0
  BY GapZero
<1>2. Gap(a, b) > 0
  BY <1>1
<1> QED BY <1>2, GapFacts

LEMMA GapGrows ==
  ASSUME NEW a \in 0 .. IdxMod - 1, NEW b \in 0 .. IdxMod - 1, NEW p \in Nat, Gap(a, b) + p < IdxMod
  PROVE  Gap(a, (b + p) % IdxMod) = Gap(a, b) + p
  BY GapFacts

LEMMA GapEnds ==
  ASSUME NEW a \in 0 .. IdxMod - 1, NEW b \in 0 .. IdxMod - 1
  PROVE  At(a, Gap(a, b)) = b % Size
<1>1. (a + Gap(a, b)) % IdxMod = b
  BY GapFacts
<1> QED BY <1>1 DEF At

-----------------------------------------------------------------------------
(* Every chain is somewhere. *)

LEMMA PFields ==
  ASSUME QInv
  PROVE  /\ avail.idx \in 0 .. IdxMod - 1 /\ avail.pending \in Nat /\ avail.ring \in [Descs -> 0 .. Size]
         /\ used.idx \in 0 .. IdxMod - 1 /\ used.ring \in [Descs -> 0 .. Size]
         /\ lastUsed \in 0 .. IdxMod - 1 /\ dev.last \in 0 .. IdxMod - 1
         /\ Published \in Nat /\ Answered \in Nat /\ Ahead \in Nat
         /\ avail.idx \in Nat /\ used.idx \in Nat /\ lastUsed \in Nat /\ dev.last \in Nat
<1>1. Rings
  BY DEF QInv
<1>2. \A x \in 0 .. IdxMod - 1 : x \in Nat
  BY ModRange
<1>3. Published \in 0 .. IdxMod - 1 /\ Answered \in 0 .. IdxMod - 1
  BY <1>1, RingFields, GapFacts DEF Published, Answered
<1>4. Ahead \in Nat
  BY <1>1, <1>2, <1>3, RingFields DEF Ahead
<1> QED BY <1>1, <1>2, <1>3, <1>4, RingFields

\* The chains a ring or the device holds are finitely many, and they are descriptors.
LEMMA Placed ==
  ASSUME QInv
  PROVE  /\ IsFiniteSet(Descs) /\ Cardinality(Descs) = Size
         /\ \A T \in SUBSET Descs : IsFiniteSet(T) /\ Cardinality(T) \in Nat /\ Cardinality(T) <= Size
         /\ InFlight \in SUBSET Descs /\ Entries(avail.ring) \in SUBSET Descs
         /\ Entries(used.ring) \in SUBSET Descs /\ dev.held \in SUBSET Descs
<1>1. IsFiniteSet(Descs) /\ Cardinality(Descs) = Size
  <2>1. IsFiniteSet(0 .. Size - 1) /\ Cardinality(0 .. Size - 1) = Size
    BY VirtqAssumption, FS_Interval
  <2> QED BY <2>1 DEF Descs
<1>2. ASSUME NEW T \in SUBSET Descs PROVE IsFiniteSet(T) /\ Cardinality(T) \in Nat /\ Cardinality(T) <= Size
  <2>1. IsFiniteSet(T) /\ Cardinality(T) <= Cardinality(Descs)
    BY <1>1, FS_Subset
  <2> QED BY <1>1, <2>1, FS_CardinalityType
<1>3. InFlight \subseteq Descs
  BY DEF InFlight
<1>4. Entries(avail.ring) \cup Entries(used.ring) \cup dev.held \subseteq InFlight
  BY DEF QInv, Apart
<1> QED BY <1>1, <1>2, <1>3, <1>4

\* As many chains are offered as the available ring has entries between the indices.
LEMMA OfferedCount ==
  ASSUME Divides, QInv, Offered
  PROVE  Cardinality(Entries(avail.ring)) = Ahead
<1> DEFINE n == Ahead
           w == [k \in 1 .. n |-> avail.ring[At(dev.last, k - 1)]]
<1>1. /\ n \in Nat /\ n <= Size /\ dev.last \in 0 .. IdxMod - 1 /\ avail.ring \in [Descs -> 0 .. Size] /\ Size \in Nat
      /\ Once(avail.ring)
  BY PFields, SizeFacts DEF Offered, QInv, Apart
<1>2. /\ \A k \in 0 .. n - 1 : avail.ring[At(dev.last, k)] # Bogus
      /\ \A i \in Descs : avail.ring[i] # Bogus => \E k \in 0 .. n - 1 : i = At(dev.last, k)
  BY DEF Offered
<1>3. /\ \A k \in Nat : At(dev.last, k) \in Descs
      /\ \A j, k \in 0 .. Size - 1 : At(dev.last, j) = At(dev.last, k) => j = k
  BY <1>1, AtFacts
<1> HIDE DEF n
<1>4. \A k \in 1 .. n : k - 1 \in 0 .. n - 1 /\ k - 1 \in 0 .. Size - 1 /\ k - 1 \in Nat
  BY <1>1
<1>5. \A k \in 1 .. n : /\ At(dev.last, k - 1) \in Descs /\ avail.ring[At(dev.last, k - 1)] # Bogus
                        /\ avail.ring[At(dev.last, k - 1)] \in 0 .. Size
  BY <1>1, <1>2, <1>3, <1>4
<1>6. w \in [1 .. n -> 0 .. Size]
  BY <1>5
<1>7. Inj(w)
  <2> SUFFICES ASSUME NEW j \in 1 .. n, NEW k \in 1 .. n, w[j] = w[k] PROVE j = k
    BY <1>6 DEF Inj
  <2>1. avail.ring[At(dev.last, j - 1)] = avail.ring[At(dev.last, k - 1)]
    OBVIOUS
  <2>2. At(dev.last, j - 1) = At(dev.last, k - 1)
    BY <1>1, <1>5, <2>1 DEF Once
  <2>3. j - 1 = k - 1
    BY <1>3, <1>4, <2>2
  <2> QED BY <1>1, <2>3
<1>8. {w[k] : k \in 1 .. n} = Entries(avail.ring)
  <2>1. ASSUME NEW k \in 1 .. n PROVE w[k] \in Entries(avail.ring)
    BY <1>5 DEF Entries
  <2>2. ASSUME NEW i \in Descs, avail.ring[i] # Bogus PROVE \E k \in 1 .. n : avail.ring[i] = w[k]
    <3>1. PICK k \in 0 .. n - 1 : i = At(dev.last, k)
      BY <1>2, <2>2
    <3>2. k + 1 \in 1 .. n /\ (k + 1) - 1 = k
      BY <1>1
    <3>3. w[k + 1] = avail.ring[At(dev.last, k)]
      BY <3>2
    <3> QED BY <3>1, <3>2, <3>3
  <2> QED BY <2>1, <2>2 DEF Entries
<1>9. Cardinality({w[k] : k \in 1 .. n}) = n
  <2> HIDE DEF w
  <2> QED BY <1>1, <1>6, <1>7, Counted
<1> QED BY <1>8, <1>9 DEF n

\* The indices of Unseen are as many as they look.
LEMMA SpanCount ==
  ASSUME NEW a \in 0 .. IdxMod - 1, NEW n \in Nat, n < IdxMod
  PROVE  Cardinality(Span(a, n)) = n
<1> DEFINE w == [k \in 1 .. n |-> (a + (k - 1)) % IdxMod]
<1>1. IdxMod \in Nat \ {0} /\ a \in Nat
  BY VirtqAssumption
<1>2. w \in [1 .. n -> Nat]
  <2>1. \A k \in 1 .. n : a + (k - 1) \in Nat
    BY <1>1
  <2>2. \A k \in 1 .. n : (a + (k - 1)) % IdxMod \in Nat
    BY <1>1, <2>1
  <2> QED BY <2>2
<1>3. Inj(w)
  <2> SUFFICES ASSUME NEW j \in 1 .. n, NEW k \in 1 .. n, w[j] = w[k] PROVE j = k
    BY <1>2 DEF Inj
  <2>1. (a + (j - 1)) % IdxMod = (a + (k - 1)) % IdxMod
    OBVIOUS
  <2>2. /\ a + (j - 1) \in Nat /\ a + (k - 1) \in Nat
        /\ a + (j - 1) < a + (k - 1) + IdxMod /\ a + (k - 1) < a + (j - 1) + IdxMod
        /\ a + (j - 1) <= a + (k - 1) \/ a + (k - 1) <= a + (j - 1)
    BY <1>1
  <2>3. a + (j - 1) = a + (k - 1)
    BY ONLY <1>1, <2>1, <2>2, ModApart
  <2> QED BY <1>1, <2>3
<1>4. Span(a, n) = {w[k] : k \in 1 .. n}
  <2>1. ASSUME NEW k \in 0 .. n - 1 PROVE k + 1 \in 1 .. n /\ (a + k) % IdxMod = w[k + 1]
    OBVIOUS
  <2>2. ASSUME NEW k \in 1 .. n PROVE k - 1 \in 0 .. n - 1 /\ w[k] = (a + (k - 1)) % IdxMod
    OBVIOUS
  <2> HIDE DEF w
  <2> QED BY <2>1, <2>2 DEF Span
<1> HIDE DEF w
<1> QED BY <1>2, <1>3, <1>4, Counted

\* What the invariant says of the rings is what EveryChainOnce counts.
LEMMA PlacesCounted ==
  ASSUME Divides, PInv
  PROVE  EveryChainOnce
<1>0. QInv /\ Batched /\ Offered /\ Returned /\ Everywhere
  BY DEF PInv
<1>1. /\ avail.idx \in 0 .. IdxMod - 1 /\ avail.pending \in Nat /\ lastUsed \in 0 .. IdxMod - 1 /\ dev.last \in 0 .. IdxMod - 1
      /\ used.idx \in 0 .. IdxMod - 1 /\ Published \in Nat /\ Answered \in Nat /\ Ahead \in Nat
      /\ IdxMod \in Nat \ {0} /\ Size \in Nat /\ IdxMod > Size /\ Ahead <= Size
  BY <1>0, PFields, VirtqAssumption DEF Offered
<1> DEFINE a == {avail.ring[i % Size] : i \in Unseen}
           u == {used.ring[i % Size] : i \in Unread} \ {Bogus}
<1>2. Unseen = Span(dev.last, Ahead)
  <2> DEFINE y == avail.idx + avail.pending - dev.last
  <2>1. Published = IF avail.idx >= dev.last THEN avail.idx - dev.last ELSE (avail.idx - dev.last) + IdxMod
    BY <1>1, GapFacts DEF Published
  <2>2. y \in Int /\ Ahead = Published + avail.pending
    BY <1>1 DEF Ahead
  <2>3. CASE avail.idx >= dev.last
    <3>1. y = Ahead /\ 0 <= y /\ y < IdxMod
      BY <1>1, <2>1, <2>2, <2>3
    <3>2. y % IdxMod = Ahead
      BY <2>2, <3>1, WrapFacts
    <3> QED BY <3>2 DEF Unseen
  <2>4. CASE ~(avail.idx >= dev.last)
    <3>1. y + IdxMod = Ahead /\ y < 0 /\ y >= - IdxMod
      BY <1>1, <2>1, <2>2, <2>4
    <3>2. y % IdxMod = Ahead
      BY <2>2, <3>1, WrapFacts
    <3> QED BY <3>2 DEF Unseen
  <2> QED BY <2>3, <2>4
<1>3. a = Entries(avail.ring)
  <2>1. ASSUME NEW i \in Unseen PROVE avail.ring[i % Size] \in Entries(avail.ring)
    <3>1. PICK k \in 0 .. Ahead - 1 : i = (dev.last + k) % IdxMod
      BY <1>2 DEF Span
    <3>2. i % Size = At(dev.last, k) /\ k \in Nat
      BY <1>1, <3>1 DEF At
    <3>3. At(dev.last, k) \in Descs
      BY <1>1, <3>2, AtFacts
    <3> QED BY <1>0, <3>2, <3>3 DEF Offered, Entries
  <2>2. ASSUME NEW j \in Descs, avail.ring[j] # Bogus PROVE \E i \in Unseen : avail.ring[j] = avail.ring[i % Size]
    <3>1. PICK k \in 0 .. Ahead - 1 : j = At(dev.last, k)
      BY <1>0, <2>2 DEF Offered
    <3>2. (dev.last + k) % IdxMod \in Unseen
      BY <1>2 DEF Span
    <3> QED BY <3>1, <3>2 DEF At
  <2> QED BY <2>1, <2>2 DEF Entries
<1>4. Unread = Span(lastUsed, Answered)
  BY DEF Unread, Answered, Gap
<1>5. u = Entries(used.ring)
  <2>1. ASSUME NEW i \in Unread, used.ring[i % Size] # Bogus PROVE used.ring[i % Size] \in Entries(used.ring)
    <3>1. PICK k \in 0 .. Answered - 1 : i = (lastUsed + k) % IdxMod
      BY <1>4 DEF Span
    <3>2. i % Size = At(lastUsed, k) /\ k \in Nat
      BY <1>1, <3>1 DEF At
    <3>3. At(lastUsed, k) \in Descs
      BY <1>1, <3>2, AtFacts
    <3> QED BY <2>1, <3>2, <3>3 DEF Entries
  <2>2. ASSUME NEW j \in Descs, used.ring[j] # Bogus PROVE \E i \in Unread : used.ring[j] = used.ring[i % Size]
    <3>1. PICK k \in 0 .. Answered - 1 : j = At(lastUsed, k)
      BY <1>0, <2>2 DEF Returned
    <3>2. (lastUsed + k) % IdxMod \in Unread
      BY <1>4 DEF Span
    <3> QED BY <3>1, <3>2 DEF At
  <2> QED BY <2>1, <2>2 DEF Entries
<1>6. Cardinality(Unseen) = Cardinality(a)
  <2>1. Cardinality(Unseen) = Ahead
    BY <1>1, <1>2, SpanCount
  <2>2. Cardinality(Entries(avail.ring)) = Ahead
    BY <1>0, OfferedCount
  <2> QED BY <1>3, <2>1, <2>2
<1> HIDE DEF a, u
<1>7. /\ a \cap dev.held = {} /\ (a \cup dev.held) \cap u = {}
      /\ a \cup dev.held \cup u = InFlight
  BY <1>0, <1>3, <1>5 DEF QInv, Apart, Everywhere
<1>8. IsFiniteSet(a) /\ IsFiniteSet(dev.held) /\ IsFiniteSet(u)
  BY <1>0, <1>3, <1>5, Placed
<1>9. IsFiniteSet(a \cup dev.held) /\ Cardinality(a \cup dev.held) = Cardinality(a) + Cardinality(dev.held)
  <2>1. /\ IsFiniteSet(a \cup dev.held)
        /\ Cardinality(a \cup dev.held) = Cardinality(a) + Cardinality(dev.held) - Cardinality(a \cap dev.held)
    BY <1>8, FS_Union
  <2>2. Cardinality(a \cap dev.held) = 0 /\ Cardinality(a) \in Nat /\ Cardinality(dev.held) \in Nat
    BY <1>7, <1>8, FS_EmptySet, FS_CardinalityType
  <2> QED BY <2>1, <2>2
<1>10. Cardinality(InFlight) = Cardinality(a \cup dev.held) + Cardinality(u)
  <2> DEFINE v == a \cup dev.held
  <2>1. Cardinality(v \cup u) = Cardinality(v) + Cardinality(u) - Cardinality(v \cap u)
    BY <1>8, <1>9, FS_Union
  <2>2. Cardinality(v \cap u) = 0 /\ Cardinality(v) \in Nat /\ Cardinality(u) \in Nat
    BY <1>7, <1>8, <1>9, FS_EmptySet, FS_CardinalityType
  <2> QED BY <1>7, <2>1, <2>2
<1>11. Cardinality(Unseen) + Cardinality(dev.held) + Cardinality(u) = Cardinality(InFlight)
  BY <1>6, <1>9, <1>10
<1> QED BY <1>7, <1>11 DEF EveryChainOnce, a, u

LEMMA InitP == Divides /\ Init => PInv
<1> SUFFICES ASSUME Divides, Init PROVE PInv
  OBVIOUS
<1>0. QInv
  BY InitQ
<1>1. /\ avail = [idx |-> 0, pending |-> 0, ring |-> Empty] /\ used = [idx |-> 0, ring |-> Empty] /\ lastUsed = 0
      /\ pc = "idle" /\ ok = TRUE /\ pending = {}
      /\ dev = [last |-> 0, held |-> {}, quiet |-> FALSE, awake |-> FALSE]
      /\ chain = [i \in Descs |-> NoChain]
  BY DEF Init
<1>2. /\ avail.idx = 0 /\ avail.pending = 0 /\ avail.ring = Empty /\ used.idx = 0 /\ used.ring = Empty
      /\ dev.last = 0 /\ dev.held = {}
  BY <1>1
<1>3. Entries(Empty) = {} /\ \A i \in Descs : Empty[i] = Bogus
  BY DEF Empty, Entries
<1>4. Published = 0 /\ Answered = 0 /\ Ahead = 0
  <2>1. 0 \in 0 .. IdxMod - 1
    BY VirtqAssumption
  <2>2. Gap(0, 0) = 0
    BY <2>1, GapFacts
  <2> QED BY <1>1, <1>2, <2>2 DEF Published, Answered, Ahead
<1>5. Batched
  BY <1>1, <1>2, <1>3 DEF Batched
<1>6. Offered
  BY <1>2, <1>3, <1>4, SizeFacts DEF Offered
<1>7. Returned
  <2>1. Cardinality({}) = 0
    BY FS_EmptySet
  <2> QED BY <1>2, <1>3, <1>4, <2>1 DEF Returned
<1>8. InFlight = {}
  BY <1>1 DEF InFlight, NoChain
<1> QED BY <1>0, <1>5, <1>6, <1>7, <1>8 DEF PInv, Everywhere

\* Steps that leave the available ring alone, and steps that leave the used ring alone.
LEMMA OfferedStays ==
  ASSUME Offered, UNCHANGED avail, dev'.last = dev.last
  PROVE  Offered' /\ Ahead' = Ahead /\ Published' = Published
  BY DEF Offered, Ahead, Published

LEMMA ReturnedStays ==
  ASSUME Returned, UNCHANGED <<used, lastUsed>>,
         (dev.held \cup Entries(avail.ring))' \subseteq dev.held \cup Entries(avail.ring)
  PROVE  Returned' /\ Answered' = Answered
<1>1. Answered' = Answered
  BY DEF Answered
<1> QED BY <1>1 DEF Returned

\* There is room for the chain of every head that is not yet in flight.
LEMMA RoomAhead ==
  ASSUME Divides, QInv, Offered, NEW h \in Descs \ InFlight
  PROVE  Ahead < Size
<1>1. /\ IsFiniteSet(Descs) /\ Cardinality(Descs) = Size /\ Size \in Nat
      /\ Entries(avail.ring) \in SUBSET (Descs \ {h})
  BY Placed, SizeFacts DEF QInv, Apart
<1>2. IsFiniteSet(Descs \ {h}) /\ Cardinality(Descs \ {h}) = Size - 1
  BY <1>1, FS_RemoveElement
<1>3. Cardinality(Entries(avail.ring)) <= Size - 1
  BY <1>1, <1>2, FS_Subset
<1>4. Ahead \in Nat /\ Cardinality(Entries(avail.ring)) = Ahead
  BY OfferedCount, PFields
<1> QED BY <1>1, <1>3, <1>4

LEMMA AddP ==
  ASSUME Divides, PInv, NEW total \in 1 .. MaxChain, NEW cmd \in Commands, VgAdd(total, cmd)
  PROVE  PInv'
<1> DEFINE k == Cardinality(Batch) + 1
           i == ((avail.idx + avail.pending) % IdxMod) % Size
<1>0. /\ QInv /\ Batched /\ Offered /\ Returned /\ Everywhere /\ QInv' /\ Chains
      /\ pc \in {"idle", "add"} /\ ok /\ k <= MaxSlots /\ UNCHANGED <<lastUsed, used, wants, dev>>
  BY AddQ DEF PInv, QInv, VgAdd
<1>1. dev.last = avail.idx /\ dev.held = {} /\ Entries(used.ring) = {}
  BY <1>0 DEF Batched
<1>2. CASE total <= numFree
  <2>1. AddAt(total, k, i) /\ pc' = "add" /\ ok' = ok
    BY <1>0, <1>2 DEF VgAdd, VirtqAdd
  <2>2. total \in Nat /\ total > 0 /\ k \in SlotNumbers
    BY <1>0, BatchCounted, VirtqAssumption DEF SlotNumbers
  <2> HIDE DEF k
  <2>3. freeHead \in Descs \ InFlight /\ InFlight' = InFlight \cup {freeHead}
    BY <1>0, <1>2, <2>1, <2>2, AddChains
  <2>4. /\ avail.idx \in 0 .. IdxMod - 1 /\ avail.pending \in Nat /\ avail.ring \in [Descs -> 0 .. Size]
        /\ dev.last \in 0 .. IdxMod - 1 /\ lastUsed \in 0 .. IdxMod - 1
        /\ Ahead \in Nat /\ Ahead < Size /\ Size \in Nat
    BY <1>0, <2>3, PFields, RoomAhead, SizeFacts
  <2>5. Published = 0 /\ Ahead = avail.pending
    <3>1. Gap(dev.last, avail.idx) = 0
      BY ONLY <1>1, <2>4, GapZero
    <3> QED BY <2>4, <3>1 DEF Published, Ahead
  <2>6. i = At(dev.last, Ahead) /\ i \in Descs
    BY <1>1, <2>4, <2>5, AtFacts DEF At
  <2>7. \A j \in 0 .. Ahead - 1 : At(dev.last, j) # i /\ At(dev.last, j) \in Descs
    <3> TAKE j \in 0 .. Ahead - 1
    <3>1. j \in 0 .. Size - 1 /\ Ahead \in 0 .. Size - 1 /\ j # Ahead /\ j \in Nat
      BY ONLY <2>4
    <3>2. At(dev.last, j) # At(dev.last, Ahead) /\ At(dev.last, j) \in Descs
      BY <2>4, <3>1, AtFacts
    <3> QED BY ONLY <2>6, <3>2
  <2> HIDE DEF i
  <2>8. avail' = [avail EXCEPT !.ring[i] = freeHead, !.pending = @ + 1]
    BY <2>1 DEF AddAt
  <2>9. avail'.ring = [avail.ring EXCEPT ![i] = freeHead] /\ avail'.idx = avail.idx /\ avail'.pending = avail.pending + 1
    <3>1. avail \in [idx : 0 .. IdxMod - 1, pending : Nat, ring : [Descs -> 0 .. Size]]
      BY <1>0 DEF QInv, Rings
    <3> QED BY <2>8, <3>1
  <2>10. avail.ring[i] = Bogus
    BY <1>0, <2>6, <2>7 DEF Offered
  <2>11. Entries(avail'.ring) = Entries(avail.ring) \cup {freeHead}
    <3>1. freeHead \in 0 .. Size /\ freeHead # Bogus /\ freeHead \notin Entries(avail.ring) /\ Once(avail.ring)
      BY <1>0, <2>3, SizeFacts DEF Descs, QInv, Apart
    <3>2. Entries(avail'.ring) = Entries(avail.ring) \cup ({freeHead} \ {Bogus})
      BY ONLY <2>4, <2>6, <2>9, <2>10, <3>1, RingWrite
    <3> QED BY <3>1, <3>2
  <2>12. Ahead' = Ahead + 1
    BY <1>0, <2>4, <2>5, <2>9 DEF Published, Ahead
  <2>13. /\ avail'.ring[i] = freeHead /\ freeHead # Bogus
         /\ \A j \in Descs : j # i => avail'.ring[j] = avail.ring[j]
    BY <2>3, <2>4, <2>6, <2>9, SizeFacts
  <2>14. Offered'
    <3>1. \A j : j \in 0 .. (Ahead + 1) - 1 <=> j \in 0 .. Ahead - 1 \/ j = Ahead
      BY <2>4
    <3>2. \A j \in 0 .. (Ahead + 1) - 1 : avail'.ring[At(dev.last, j)] # Bogus
      BY <1>0, <2>6, <2>7, <2>13, <3>1 DEF Offered
    <3>3. \A j \in Descs : avail'.ring[j] # Bogus => \E n \in 0 .. (Ahead + 1) - 1 : j = At(dev.last, n)
      BY <1>0, <2>6, <2>13, <3>1 DEF Offered
    <3>4. Ahead + 1 <= Size
      BY <2>4
    <3> QED BY <1>0, <2>12, <3>2, <3>3, <3>4 DEF Offered
  <2>15. Batched'
    BY <1>0, <1>1, <2>1, <2>9 DEF Batched
  <2>16. Returned'
    <3>1. At(lastUsed, 0) \in Descs
      BY <2>4, AtFacts
    <3>2. used.ring[At(lastUsed, 0)] = Bogus
      BY <1>1, <3>1 DEF Entries
    <3>3. Answered' = Answered
      BY <1>0 DEF Answered
    <3> QED BY <1>0, <3>2, <3>3 DEF Returned
  <2>17. Everywhere'
    BY <1>0, <2>3, <2>11 DEF Everywhere
  <2> QED BY <1>0, <2>14, <2>15, <2>16, <2>17 DEF PInv
<1>3. CASE ~(total <= numFree)
  <2>1. UNCHANGED <<desc, freeHead, numFree, chain, avail, pending>> /\ ok' = FALSE /\ pc' = "idle"
    BY <1>3 DEF VgAdd
  <2> HIDE DEF k, i
  <2>2. Batched'
    BY <2>1 DEF Batched
  <2>3. Offered' /\ Returned'
    BY <1>0, <2>1, OfferedStays, ReturnedStays
  <2>4. Everywhere'
    BY <1>0, <2>1 DEF Everywhere, InFlight
  <2> QED BY <1>0, <2>2, <2>3, <2>4 DEF PInv
<1> QED BY <1>2, <1>3

LEMMA KickP ==
  ASSUME Divides, PInv, VgKick \/ KickPrepare \/ Notify
  PROVE  PInv'
<1>0. /\ QInv /\ Batched /\ Offered /\ Returned /\ Everywhere /\ QInv' /\ UNCHANGED <<used, lastUsed, chain, ok, pending>>
  BY KickQ DEF PInv, VgKick, KickPrepare, Publish, ReadFlags, Notify, ring
<1>1. CASE Publish("kick", "flags")
  <2>1. /\ pc = "kick" /\ avail' = [avail EXCEPT !.idx = (avail.idx + avail.pending) % IdxMod, !.pending = 0]
        /\ pc' = "flags" /\ UNCHANGED dev
    BY <1>1 DEF Publish
  <2>2. avail'.idx = (avail.idx + avail.pending) % IdxMod /\ avail'.pending = 0 /\ avail'.ring = avail.ring
    <3>1. avail \in [idx : 0 .. IdxMod - 1, pending : Nat, ring : [Descs -> 0 .. Size]]
      BY <1>0 DEF QInv, Rings
    <3> QED BY <2>1, <3>1
  <2>3. Ahead' = Ahead
    <3>1. /\ avail.idx \in 0 .. IdxMod - 1 /\ avail.pending \in Nat /\ dev.last \in 0 .. IdxMod - 1 /\ Published \in Nat
          /\ Published + avail.pending < IdxMod
      BY <1>0, PFields, VirtqAssumption DEF Offered, Ahead
    <3>2. Gap(dev.last, (avail.idx + avail.pending) % IdxMod) = Published + avail.pending
      BY <3>1, GapGrows DEF Published
    <3>3. Published' = Published + avail.pending
      BY <2>1, <2>2, <3>2 DEF Published
    <3> QED BY <2>2, <3>1, <3>3 DEF Ahead
  <2>4. Offered'
    BY <1>0, <2>1, <2>2, <2>3 DEF Offered
  <2>5. Returned'
    BY <1>0, <2>1, <2>2, ReturnedStays
  <2>6. Batched'
    BY <2>1, <2>2 DEF Batched
  <2>7. Everywhere'
    BY <1>0, <2>1, <2>2 DEF Everywhere, InFlight
  <2> QED BY <1>0, <2>4, <2>5, <2>6, <2>7 DEF PInv
<1>2. CASE VgKick \/ ReadFlags("flags", "notify") \/ Notify
  <2>1. UNCHANGED avail /\ \/ pc = "add" /\ pc' = "kick" /\ UNCHANGED dev
                           \/ pc \in {"flags", "notify"} /\ pc' \in {"notify", "drain"}
    BY <1>2 DEF VgKick, ReadFlags, Notify, ring
  <2>2. dev'.last = dev.last /\ dev'.held = dev.held
    <3>1. dev' = dev \/ dev' = [dev EXCEPT !.awake = dev.awake \/ wants]
      BY <1>2 DEF VgKick, ReadFlags, Notify
    <3>2. dev \in [last : 0 .. IdxMod - 1, held : SUBSET Descs, quiet : BOOLEAN, awake : BOOLEAN]
      BY <1>0 DEF QInv, Rings
    <3> QED BY <3>1, <3>2
  <2>3. Offered' /\ Returned'
    BY <1>0, <2>1, <2>2, OfferedStays, ReturnedStays
  <2>4. Batched'
    BY <1>0, <2>1, <2>2 DEF Batched
  <2>5. Everywhere'
    BY <1>0, <2>1, <2>2 DEF Everywhere, InFlight
  <2> QED BY <1>0, <2>3, <2>4, <2>5 DEF PInv
<1> QED BY <1>1, <1>2 DEF KickPrepare

\* An id virtq_get_used does not know is an entry without a chain.
LEMMA StrangeIsEmpty ==
  ASSUME QInv, Strange
  PROVE  UsedId = Bogus
<1> SUFFICES ASSUME UsedId # Bogus PROVE FALSE
  OBVIOUS
<1>1. lastUsed % Size \in Descs
  BY PFields, ModRange
<1>2. UsedId \in Entries(used.ring)
  BY <1>1 DEF UsedId, Entries
<1>3. UsedId \in InFlight
  BY <1>2 DEF QInv, Apart
<1> QED BY <1>3 DEF InFlight, Strange

\* The oldest unread entry is consumed: an empty one is skipped, or its chain is taken.
LEMMA Consumed ==
  ASSUME Divides, QInv, Returned, ~NothingUsed, lastUsed' = (lastUsed + 1) % IdxMod, used'.idx = used.idx,
         NEW r \in [Descs -> 0 .. Size], used'.ring = r,
         r[At(lastUsed, 0)] = Bogus, \A i \in Descs : i # At(lastUsed, 0) => r[i] = used.ring[i]
  PROVE  /\ Answered \in Nat /\ Answered > 0 /\ Answered' = Answered - 1
         /\ \A i \in Descs : r[i] # Bogus => \E k \in 0 .. Answered' - 1 : i = At(lastUsed', k)
<1>1. lastUsed \in 0 .. IdxMod - 1 /\ used.idx \in 0 .. IdxMod - 1 /\ lastUsed # used.idx /\ Answered \in Nat
  BY PFields DEF NothingUsed
<1>2. Answered > 0 /\ Answered' = Answered - 1
  BY <1>1, GapShrinks DEF Answered
<1>3. \A k \in Nat : At(lastUsed', k) = At(lastUsed, k + 1)
  BY <1>1, AtFacts
<1>4. ASSUME NEW i \in Descs, r[i] # Bogus PROVE \E k \in 0 .. Answered' - 1 : i = At(lastUsed', k)
  <2>1. i # At(lastUsed, 0) /\ used.ring[i] # Bogus
    BY <1>4
  <2>2. PICK k \in 0 .. Answered - 1 : i = At(lastUsed, k)
    BY <2>1 DEF Returned
  <2>3. k # 0 /\ k - 1 \in Nat /\ k - 1 \in 0 .. (Answered - 1) - 1 /\ (k - 1) + 1 = k
    BY <1>1, <2>1, <2>2
  <2>4. i = At(lastUsed', k - 1)
    BY <1>3, <2>2, <2>3
  <2> QED BY <1>2, <2>3, <2>4
<1> QED BY <1>1, <1>2, <1>4

LEMMA NullReturned ==
  ASSUME Divides, PInv, GetUsedNull
  PROVE  Returned'
<1>0. QInv /\ Returned /\ UNCHANGED <<chain, avail, used, dev>>
  BY DEF PInv, GetUsedNull
<1>1. CASE NothingUsed
  BY <1>0, <1>1, ReturnedStays DEF GetUsedNull
<1>2. CASE ~NothingUsed
  <2>1. Strange /\ lastUsed' = (lastUsed + 1) % IdxMod
    BY <1>2 DEF GetUsedNull
  <2>2. UsedId = Bogus
    BY <1>0, <2>1, StrangeIsEmpty
  <2>3. lastUsed \in 0 .. IdxMod - 1 /\ used.ring \in [Descs -> 0 .. Size] /\ At(lastUsed, 0) = lastUsed % Size
    BY <1>0, PFields, AtFacts
  <2>4. used.ring[At(lastUsed, 0)] = Bogus
    BY <2>2, <2>3 DEF UsedId
  <2>5. /\ Answered \in Nat /\ Answered > 0 /\ Answered' = Answered - 1
        /\ \A i \in Descs : used.ring[i] # Bogus => \E k \in 0 .. Answered' - 1 : i = At(lastUsed', k)
    BY <1>0, <1>2, <2>1, <2>3, <2>4, Consumed
  <2>6. Cardinality(Entries(used.ring)) \in Nat /\ Answered <= Cardinality(Entries(used.ring)) + 1
    BY <1>0, Placed DEF Returned
  <2>7. Answered' # Cardinality(Entries(used.ring)) + 1 /\ Answered' <= Cardinality(Entries(used.ring)) + 1
    BY <2>5, <2>6
  <2> QED BY <1>0, <2>5, <2>7 DEF Returned
<1> QED BY <1>1, <1>2

LEMMA NullP ==
  ASSUME Divides, PInv, VgReturns \/ VgTimesOut \/ VgPollsAgain
  PROVE  PInv'
<1>0. /\ QInv /\ Batched /\ Offered /\ Returned /\ Everywhere /\ QInv'
      /\ pc = "drain" /\ UNCHANGED <<chain, avail, used, dev, pending>> /\ GetUsedNull
  BY NullQ DEF PInv, VgReturns, VgTimesOut, GiveUp, VgPollsAgain, GetUsedNull
<1>1. Offered' /\ Returned' /\ Everywhere'
  BY <1>0, OfferedStays, NullReturned DEF Everywhere, InFlight
<1>2. CASE VgReturns
  <2>1. pending = {} /\ pc' = "idle" /\ ok' = ok
    BY <1>2 DEF VgReturns
  <2>2. dev.held = {} /\ Entries(avail.ring) = {} /\ Entries(used.ring) = {}
    BY <1>0, <2>1, NothingAwaited
  <2>3. Ahead = 0 /\ avail.pending \in Nat /\ Published \in Nat
    BY <1>0, <2>2, OfferedCount, FS_EmptySet, PFields
  <2>4. Gap(dev.last, avail.idx) = 0
    BY <2>3 DEF Ahead, Published
  <2>5. dev.last = avail.idx
    BY <1>0, <2>4, GapZero, PFields
  <2>6. Batched'
    BY <1>0, <2>1, <2>2, <2>5 DEF Batched
  <2> QED BY <1>0, <1>1, <2>6 DEF PInv
<1>3. CASE VgTimesOut
  BY <1>0, <1>1, <1>3 DEF PInv, Batched, VgTimesOut
<1>4. CASE VgPollsAgain
  BY <1>0, <1>1, <1>4 DEF PInv, Batched, VgPollsAgain
<1> QED BY <1>2, <1>3, <1>4

LEMMA GetP ==
  ASSUME Divides, PInv, GetUsed
  PROVE  PInv'
<1> DEFINE h == UsedId
           i == lastUsed % Size
<1>0. /\ QInv /\ Batched /\ Offered /\ Returned /\ Everywhere /\ QInv' /\ Chains
  BY GetQ DEF PInv, QInv
<1>1. /\ h = used.ring[i] /\ h \in Descs /\ chain[h].len # 0 /\ Splice(h, Walk(h, chain[h].len)[chain[h].len])
      /\ used' = [used EXCEPT !.ring[i] = Bogus] /\ lastUsed' = (lastUsed + 1) % IdxMod
      /\ UNCHANGED <<avail, pc, ok, wants, slots, dev>> /\ pc = "drain" /\ ~NothingUsed
      /\ pending' = pending \ {chain[h].slot}
  BY DEF GetUsed, Strange, Splice, UsedId
<1>2. /\ lastUsed \in 0 .. IdxMod - 1 /\ used.ring \in [Descs -> 0 .. Size] /\ i = At(lastUsed, 0) /\ i \in Descs
  BY <1>0, PFields, AtFacts, ModRange
<1> HIDE DEF i, h
<1>3. used'.ring = [used.ring EXCEPT ![i] = Bogus] /\ used'.idx = used.idx
  <2>1. used \in [idx : 0 .. IdxMod - 1, ring : [Descs -> 0 .. Size]]
    BY <1>0 DEF QInv, Rings
  <2> QED BY ONLY <1>1, <2>1
<1>4. h # Bogus /\ h \in Entries(used.ring) /\ h \in InFlight
  <2>1. h # Bogus
    BY <1>1, SizeFacts
  <2>2. h \in Entries(used.ring)
    BY <1>1, <1>2, <2>1 DEF Entries
  <2> QED BY <1>0, <2>1, <2>2 DEF QInv, Apart
<1>5. Entries(used'.ring) = Entries(used.ring) \ {h}
  <2>1. Once(used.ring) /\ Bogus \in 0 .. Size /\ Bogus \notin Entries(used.ring)
    BY <1>0, SizeFacts DEF QInv, Apart, Bogus, Entries
  <2>2. Entries(used'.ring) = Entries(used.ring) \ {used.ring[i]}
    BY ONLY <1>2, <1>3, <2>1, RingWrite
  <2> QED BY <1>1, <2>2
<1>6. InFlight' = InFlight \ {h}
  BY <1>0, <1>1, <1>4, GetChains
<1>7. Offered' /\ Batched'
  <2>1. Offered'
    BY <1>0, <1>1, OfferedStays
  <2> QED BY <1>0, <1>1, <2>1 DEF Batched
<1>8. Everywhere'
  BY <1>0, <1>1, <1>5, <1>6 DEF Everywhere
<1>9. Returned'
  <2> DEFINE r == [used.ring EXCEPT ![i] = Bogus]
  <2>1. r \in [Descs -> 0 .. Size] /\ r[i] = Bogus /\ \A j \in Descs : j # i => r[j] = used.ring[j]
    BY <1>2, SizeFacts DEF Bogus
  <2>2. used'.ring = r
    BY <1>3
  <2> HIDE DEF r
  <2>3. /\ Answered \in Nat /\ Answered > 0 /\ Answered' = Answered - 1
        /\ \A j \in Descs : r[j] # Bogus => \E k \in 0 .. Answered' - 1 : j = At(lastUsed', k)
    BY <1>0, <1>1, <1>2, <1>3, <2>1, <2>2, Consumed
  <2>4. /\ IsFiniteSet(Entries(used.ring)) /\ Cardinality(Entries(used.ring)) \in Nat
        /\ Answered <= Cardinality(Entries(used.ring)) + 1
    BY <1>0, Placed DEF Returned
  <2>5. Cardinality(Entries(used'.ring)) = Cardinality(Entries(used.ring)) - 1
    BY <1>4, <1>5, <2>4, FS_RemoveElement
  <2>6. Answered' <= Cardinality(Entries(used'.ring)) + 1
    BY <2>3, <2>4, <2>5
  <2>7. ASSUME Answered' = Cardinality(Entries(used'.ring)) + 1, dev'.held \cup Entries(avail'.ring) # {}
        PROVE  FALSE
    <3>1. Answered = Cardinality(Entries(used.ring)) + 1 /\ dev.held \cup Entries(avail.ring) # {}
      BY <1>1, <2>3, <2>4, <2>5, <2>7
    <3>2. used.ring[i] = Bogus
      BY <1>0, <1>2, <3>1 DEF Returned
    <3> QED BY <1>1, <1>4, <3>2
  <2> QED BY <2>2, <2>3, <2>6, <2>7 DEF Returned
<1> QED BY <1>0, <1>7, <1>8, <1>9 DEF PInv

LEMMA FetchP ==
  ASSUME Divides, PInv, DevFetch
  PROVE  PInv'
<1> DEFINE i == dev.last % Size
           h == avail.ring[i]
<1>0. QInv /\ Batched /\ Offered /\ Returned /\ Everywhere /\ QInv'
  BY FetchQ DEF PInv
<1>1. /\ dev.last # avail.idx /\ h # Bogus /\ avail' = [avail EXCEPT !.ring[i] = Bogus]
      /\ dev' = [dev EXCEPT !.last = (dev.last + 1) % IdxMod, !.held = dev.held \cup {h}]
      /\ UNCHANGED <<chain, lastUsed, used, pc, ok, pending>>
  BY DEF DevFetch
<1>2. /\ dev.last \in 0 .. IdxMod - 1 /\ avail.idx \in 0 .. IdxMod - 1 /\ avail.ring \in [Descs -> 0 .. Size]
      /\ avail.pending \in Nat /\ Published \in Nat /\ Ahead \in Nat /\ Size \in Nat /\ Ahead <= Size
      /\ i = At(dev.last, 0) /\ i \in Descs
  BY <1>0, PFields, AtFacts, ModRange, SizeFacts DEF Offered
<1> HIDE DEF i
<1>3. /\ avail'.ring = [avail.ring EXCEPT ![i] = Bogus] /\ avail'.idx = avail.idx /\ avail'.pending = avail.pending
      /\ dev'.last = (dev.last + 1) % IdxMod /\ dev'.held = dev.held \cup {h}
  <2>1. /\ avail \in [idx : 0 .. IdxMod - 1, pending : Nat, ring : [Descs -> 0 .. Size]]
        /\ dev \in [last : 0 .. IdxMod - 1, held : SUBSET Descs, quiet : BOOLEAN, awake : BOOLEAN]
    BY <1>0 DEF QInv, Rings
  <2> HIDE DEF h
  <2> QED BY ONLY <1>1, <2>1
<1>4. /\ avail'.ring[i] = Bogus /\ \A j \in Descs : j # i => avail'.ring[j] = avail.ring[j]
      /\ Entries(avail'.ring) = Entries(avail.ring) \ {h} /\ h \in Entries(avail.ring)
  <2>1. Once(avail.ring) /\ Bogus \in 0 .. Size /\ Bogus \notin Entries(avail.ring)
    BY <1>0, SizeFacts DEF QInv, Apart, Bogus, Entries
  <2>2. Entries(avail'.ring) = Entries(avail.ring) \ {avail.ring[i]}
    BY ONLY <1>2, <1>3, <2>1, RingWrite
  <2>3. h \in Entries(avail.ring)
    BY <1>1, <1>2 DEF Entries
  <2> QED BY <1>2, <1>3, <2>2, <2>3
<1> HIDE DEF h
<1>5. Published > 0 /\ Ahead > 0 /\ Ahead' = Ahead - 1
  <2>1. Published > 0 /\ Published' = Published - 1
    BY <1>1, <1>2, <1>3, GapShrinks DEF Published
  <2> QED BY <1>2, <1>3, <2>1 DEF Ahead
<1>6. \A k \in Nat : At(dev'.last, k) = At(dev.last, k + 1)
  BY <1>2, <1>3, AtFacts
<1>7. Offered'
  <2>1. ASSUME NEW k \in 0 .. (Ahead - 1) - 1 PROVE avail'.ring[At(dev'.last, k)] # Bogus
    <3>1. k \in Nat /\ k + 1 \in 0 .. Ahead - 1 /\ k + 1 \in 0 .. Size - 1 /\ 0 \in 0 .. Size - 1 /\ k + 1 # 0 /\ k + 1 \in Nat
      BY <1>2, <1>5
    <3>2. At(dev.last, k + 1) # i /\ At(dev.last, k + 1) \in Descs
      BY <1>2, <3>1, AtFacts
    <3>3. avail.ring[At(dev.last, k + 1)] # Bogus
      BY <1>0, <3>1 DEF Offered
    <3> QED BY <1>4, <1>6, <3>1, <3>2, <3>3
  <2>2. ASSUME NEW j \in Descs, avail'.ring[j] # Bogus PROVE \E k \in 0 .. (Ahead - 1) - 1 : j = At(dev'.last, k)
    <3>1. j # i /\ avail.ring[j] # Bogus
      BY <1>4, <2>2
    <3>2. PICK k \in 0 .. Ahead - 1 : j = At(dev.last, k)
      BY <1>0, <3>1 DEF Offered
    <3>3. k # 0 /\ k - 1 \in Nat /\ k - 1 \in 0 .. (Ahead - 1) - 1 /\ (k - 1) + 1 = k
      BY <1>2, <3>1, <3>2
    <3>4. j = At(dev'.last, k - 1)
      BY <1>6, <3>2, <3>3
    <3> QED BY <3>3, <3>4
  <2>3. Ahead - 1 <= Size
    BY <1>2
  <2> QED BY <1>5, <2>1, <2>2, <2>3 DEF Offered
<1>8. Returned'
  <2>1. dev'.held \cup Entries(avail'.ring) \subseteq dev.held \cup Entries(avail.ring)
    BY <1>3, <1>4
  <2> QED BY <1>0, <1>1, <2>1, ReturnedStays
<1>9. Batched'
  BY <1>0, <1>1, <1>3 DEF Batched
<1>10. Everywhere'
  BY <1>0, <1>1, <1>3, <1>4 DEF Everywhere, InFlight
<1> QED BY <1>0, <1>7, <1>8, <1>9, <1>10 DEF PInv

\* The used ring has room for the answer of a chain the device still has, and two
\* places when there is another chain to answer.
LEMMA RoomToAnswer ==
  ASSUME QInv, Returned, NEW h \in dev.held
  PROVE  /\ Answered <= Size
         /\ (dev.held \ {h}) \cup Entries(avail.ring) # {} => Answered < Size
<1>1. /\ IsFiniteSet(Descs) /\ Cardinality(Descs) = Size /\ Size \in Nat /\ Answered \in Nat /\ h \in Descs
      /\ h \notin Entries(used.ring) /\ Entries(used.ring) \subseteq Descs
      /\ Cardinality(Entries(used.ring)) \in Nat /\ Answered <= Cardinality(Entries(used.ring)) + 1
  BY Placed, PFields, SizeFacts DEF QInv, Apart, Returned
<1>2. IsFiniteSet(Descs \ {h}) /\ Cardinality(Descs \ {h}) = Size - 1
  BY <1>1, FS_RemoveElement
<1>3. Cardinality(Entries(used.ring)) <= Size - 1
  <2>1. Entries(used.ring) \in SUBSET (Descs \ {h})
    BY <1>1
  <2> QED BY <1>2, <2>1, FS_Subset
<1>4. ASSUME NEW g \in (dev.held \ {h}) \cup Entries(avail.ring) PROVE Answered < Size
  <2>1. g \in Descs \ {h} /\ g \notin Entries(used.ring)
    BY Placed DEF QInv, Apart
  <2>2. IsFiniteSet((Descs \ {h}) \ {g}) /\ Cardinality((Descs \ {h}) \ {g}) = (Size - 1) - 1
    BY <1>2, <2>1, FS_RemoveElement
  <2>3. Entries(used.ring) \in SUBSET ((Descs \ {h}) \ {g})
    BY <1>1, <2>1
  <2>4. Cardinality(Entries(used.ring)) <= (Size - 1) - 1
    BY <2>2, <2>3, FS_Subset
  <2> QED BY <1>1, <2>4
<1> QED BY <1>1, <1>3, <1>4

LEMMA CompleteP ==
  ASSUME Divides, PInv, NEW h \in Descs, DevComplete(h)
  PROVE  PInv'
<1> DEFINE i == used.idx % Size
<1>0. QInv /\ Batched /\ Offered /\ Returned /\ Everywhere /\ QInv'
  BY CompleteQ DEF PInv
<1>1. /\ h \in dev.held
      /\ used' = [idx |-> (used.idx + 1) % IdxMod, ring |-> [used.ring EXCEPT ![i] = h]]
      /\ dev' = [dev EXCEPT !.held = dev.held \ {h}]
      /\ UNCHANGED <<chain, avail, lastUsed, pc, ok, pending>>
  BY DEF DevComplete, ring
<1>2. /\ lastUsed \in 0 .. IdxMod - 1 /\ used.idx \in 0 .. IdxMod - 1 /\ used.ring \in [Descs -> 0 .. Size]
      /\ Answered \in Nat /\ Size \in Nat /\ Size > 0 /\ IdxMod \in Nat /\ IdxMod > Size + 1
  BY <1>0, PFields, SizeFacts, VirtqAssumption DEF Divides
<1>3. i = At(lastUsed, Answered) /\ i \in Descs
  BY <1>2, GapEnds, ModRange DEF Answered
<1> HIDE DEF i
<1>4. /\ dev'.held = dev.held \ {h} /\ dev'.last = dev.last
      /\ used'.idx = (used.idx + 1) % IdxMod /\ used'.ring = [used.ring EXCEPT ![i] = h]
  <2>1. dev \in [last : 0 .. IdxMod - 1, held : SUBSET Descs, quiet : BOOLEAN, awake : BOOLEAN]
    BY <1>0 DEF QInv, Rings
  <2> QED BY ONLY <1>1, <2>1
<1>5. Answered <= Size /\ ((dev.held \ {h}) \cup Entries(avail.ring) # {} => Answered < Size)
  BY <1>0, <1>1, RoomToAnswer
<1>6. Answered' = Answered + 1
  BY <1>1, <1>2, <1>4, <1>5, GapGrows DEF Answered
<1>7. /\ \A j, k \in 0 .. Size - 1 : At(lastUsed, j) = At(lastUsed, k) => j = k
      /\ At(lastUsed, Size) = At(lastUsed, 0) /\ At(lastUsed, 0) \in Descs
  BY <1>2, AtFacts
\* The answer overwrites nobody's.
<1>8. used.ring[i] = Bogus
  <2>1. CASE Answered < Size
    <3> SUFFICES ASSUME used.ring[i] # Bogus PROVE FALSE
      OBVIOUS
    <3>1. PICK k \in 0 .. Answered - 1 : i = At(lastUsed, k)
      BY <1>0, <1>3 DEF Returned
    <3>2. k \in 0 .. Size - 1 /\ Answered \in 0 .. Size - 1 /\ k # Answered
      BY <1>2, <2>1
    <3> QED BY <1>3, <1>7, <3>1, <3>2
  <2>2. CASE Answered = Size
    <3>1. Cardinality(Entries(used.ring)) \in Nat /\ Answered <= Cardinality(Entries(used.ring)) + 1
      BY <1>0, Placed DEF Returned
    <3>2. Cardinality(Entries(used.ring)) <= Size - 1
      <4>1. /\ IsFiniteSet(Descs) /\ Cardinality(Descs) = Size /\ Entries(used.ring) \in SUBSET (Descs \ {h})
        BY <1>0, <1>1, Placed DEF QInv, Apart
      <4>2. IsFiniteSet(Descs \ {h}) /\ Cardinality(Descs \ {h}) = Size - 1
        BY <4>1, FS_RemoveElement
      <4> QED BY <4>1, <4>2, FS_Subset
    <3>3. Answered = Cardinality(Entries(used.ring)) + 1 /\ dev.held \cup Entries(avail.ring) # {}
      BY <1>1, <1>2, <2>2, <3>1, <3>2
    <3>4. used.ring[At(lastUsed, 0)] = Bogus
      BY <1>0, <3>3 DEF Returned
    <3> QED BY <1>3, <1>7, <2>2, <3>4
  <2> QED BY <1>2, <1>5, <2>1, <2>2
<1>9. h # Bogus /\ h \notin Entries(used.ring) /\ Entries(used'.ring) = Entries(used.ring) \cup {h}
  <2>1. Once(used.ring) /\ h \in 0 .. Size /\ h # Bogus /\ h \notin Entries(used.ring)
    <3>1. h \in 0 .. Size /\ h # Bogus
      BY SizeFacts DEF Descs, Bogus
    <3> QED BY <1>0, <1>1, <3>1 DEF QInv, Apart
  <2>2. Entries(used'.ring) = Entries(used.ring) \cup ({h} \ {Bogus})
    BY ONLY <1>2, <1>3, <1>4, <1>8, <2>1, RingWrite
  <2> QED BY <2>1, <2>2
<1>10. used'.ring[i] = h /\ \A j \in Descs : j # i => used'.ring[j] = used.ring[j]
  BY <1>2, <1>3, <1>4
<1>11. Returned'
  <2>1. /\ IsFiniteSet(Entries(used.ring)) /\ Cardinality(Entries(used.ring)) \in Nat
        /\ Answered <= Cardinality(Entries(used.ring)) + 1
    BY <1>0, Placed DEF Returned
  <2>2. Cardinality(Entries(used'.ring)) = Cardinality(Entries(used.ring)) + 1
    BY <1>9, <2>1, FS_AddElement
  <2>3. ASSUME NEW j \in Descs, used'.ring[j] # Bogus PROVE \E k \in 0 .. (Answered + 1) - 1 : j = At(lastUsed, k)
    <3>1. \A k : k \in 0 .. (Answered + 1) - 1 <=> k \in 0 .. Answered - 1 \/ k = Answered
      BY <1>2
    <3> QED BY <1>0, <1>3, <1>10, <2>3, <3>1 DEF Returned
  <2>4. Answered + 1 <= Cardinality(Entries(used'.ring)) + 1
    BY <1>2, <2>1, <2>2
  <2>5. ASSUME Answered + 1 = Cardinality(Entries(used'.ring)) + 1, (dev.held \ {h}) \cup Entries(avail.ring) # {}
        PROVE  used'.ring[At(lastUsed, 0)] = Bogus
    <3>1. Answered = Cardinality(Entries(used.ring)) + 1
      BY <1>2, <2>1, <2>2, <2>5
    <3>2. used.ring[At(lastUsed, 0)] = Bogus
      BY <1>0, <1>1, <3>1 DEF Returned
    <3>3. Answered \in 0 .. Size - 1 /\ 0 \in 0 .. Size - 1 /\ Answered # 0
      BY <1>2, <1>5, <2>1, <2>5, <3>1
    <3>4. At(lastUsed, 0) # i
      BY <1>3, <1>7, <3>3
    <3> QED BY <1>7, <1>10, <3>2, <3>4
  <2> QED BY <1>1, <1>4, <1>6, <2>3, <2>4, <2>5 DEF Returned
<1>12. Offered'
  BY <1>0, <1>1, <1>4, OfferedStays
<1>13. Batched'
  BY <1>0, <1>1, <1>4 DEF Batched
<1>14. Everywhere'
  BY <1>0, <1>1, <1>4, <1>9 DEF Everywhere, InFlight
<1> QED BY <1>0, <1>11, <1>12, <1>13, <1>14 DEF PInv

LEMMA StrangeP ==
  ASSUME Divides, PInv, DevStrange
  PROVE  PInv'
<1> DEFINE i == used.idx % Size
<1>0. QInv /\ Batched /\ Offered /\ Returned /\ Everywhere /\ QInv'
  BY StrangeQ DEF PInv
<1>1. /\ used' = [idx |-> (used.idx + 1) % IdxMod, ring |-> [used.ring EXCEPT ![i] = Bogus]]
      /\ UNCHANGED <<chain, avail, lastUsed, pc, ok, pending, dev>> /\ lastUsed = used.idx
  BY DEF DevStrange, ring, NothingUsed
<1>2. /\ lastUsed \in 0 .. IdxMod - 1 /\ used.ring \in [Descs -> 0 .. Size] /\ IdxMod \in Nat /\ IdxMod > 1 /\ i \in Descs
  <2>1. lastUsed \in 0 .. IdxMod - 1 /\ used.ring \in [Descs -> 0 .. Size] /\ i \in Descs
    BY <1>0, PFields, ModRange
  <2>2. IdxMod \in Nat /\ IdxMod > 1
    BY VirtqAssumption
  <2> QED BY <2>1, <2>2
<1> HIDE DEF i
<1>3. used'.idx = (used.idx + 1) % IdxMod /\ used'.ring = [used.ring EXCEPT ![i] = Bogus]
  BY ONLY <1>1
<1>4. Answered = 0 /\ Answered' = 1
  <2>1. Gap(lastUsed, lastUsed) = 0
    BY <1>2, GapZero
  <2>2. Gap(lastUsed, (lastUsed + 1) % IdxMod) = 0 + 1
    BY <1>2, <2>1, GapGrows
  <2> QED BY <1>1, <1>3, <2>1, <2>2 DEF Answered
<1>5. \A j \in Descs : used.ring[j] = Bogus
  <2>1. 0 .. 0 - 1 = {}
    OBVIOUS
  <2> QED BY <1>0, <1>4, <2>1 DEF Returned
<1>6. \A j \in Descs : used'.ring[j] = Bogus
  BY <1>2, <1>3, <1>5
<1>7. Entries(used.ring) = {} /\ Entries(used'.ring) = {} /\ Cardinality({}) = 0
  BY <1>5, <1>6, FS_EmptySet DEF Entries
<1>8. Returned'
  <2>1. At(lastUsed, 0) \in Descs
    BY <1>2, AtFacts
  <2>2. used'.ring[At(lastUsed', 0)] = Bogus
    BY <1>1, <1>6, <2>1
  <2>3. Answered' <= Cardinality(Entries(used'.ring)) + 1
    BY <1>4, <1>7
  <2> QED BY <1>6, <2>2, <2>3 DEF Returned
<1>9. Offered' /\ Batched' /\ Everywhere'
  <2>1. Offered'
    BY <1>0, <1>1, OfferedStays
  <2>2. Batched'
    BY <1>0, <1>1, <1>7 DEF Batched
  <2>3. Everywhere'
    BY <1>0, <1>1, <1>7 DEF Everywhere, InFlight
  <2> QED BY <2>1, <2>2, <2>3
<1> QED BY <1>0, <1>8, <1>9 DEF PInv

LEMMA SignalsP ==
  ASSUME Divides, PInv, DevQuiet \/ DevLoud \/ DevSleep \/ UNCHANGED vars
  PROVE  PInv'
<1>0. /\ QInv /\ Batched /\ Offered /\ Returned /\ Everywhere /\ QInv'
      /\ UNCHANGED <<chain, avail, used, lastUsed, pc, ok, pending>>
  BY SignalsQ DEF PInv, DevQuiet, DevLoud, DevSleep, vars, ring
<1>1. dev'.held = dev.held /\ dev'.last = dev.last
  <2>1. dev \in [last : 0 .. IdxMod - 1, held : SUBSET Descs, quiet : BOOLEAN, awake : BOOLEAN]
    BY <1>0 DEF QInv, Rings
  <2>2. \/ dev' = [dev EXCEPT !.quiet = TRUE] \/ dev' = [dev EXCEPT !.quiet = FALSE]
        \/ dev' = [dev EXCEPT !.awake = FALSE] \/ dev' = dev
    BY DEF DevQuiet, DevLoud, DevSleep, vars
  <2> QED BY ONLY <2>1, <2>2
<1>2. Offered' /\ Returned'
  BY <1>0, <1>1, OfferedStays, ReturnedStays
<1>3. Batched'
  BY <1>0, <1>1 DEF Batched
<1>4. Everywhere'
  BY <1>0, <1>1 DEF Everywhere, InFlight
<1> QED BY <1>0, <1>2, <1>3, <1>4 DEF PInv

LEMMA PInductive == Divides /\ PInv /\ [Next]_vars => PInv'
<1> SUFFICES ASSUME Divides, PInv, [Next]_vars
             PROVE  PInv'
  OBVIOUS
<1>1. CASE \E total \in 1 .. MaxChain, cmd \in Commands : VgAdd(total, cmd)
  BY <1>1, AddP
<1>2. CASE GetUsed
  BY <1>2, GetP
<1>3. CASE VgReturns \/ VgTimesOut \/ VgPollsAgain
  BY <1>3, NullP
<1>4. CASE VgKick \/ KickPrepare \/ Notify
  BY <1>4, KickP
<1>5. CASE DevFetch
  BY <1>5, FetchP
<1>6. CASE \E h \in Descs : DevComplete(h)
  BY <1>6, CompleteP
<1>7. CASE DevStrange
  BY <1>7, StrangeP
<1>8. CASE DevQuiet \/ DevLoud \/ DevSleep \/ UNCHANGED vars
  BY <1>8, SignalsP
<1> QED BY <1>1, <1>2, <1>3, <1>4, <1>5, <1>6, <1>7, <1>8 DEF Next

\* Every chain in flight is in exactly one place, across the wrap of the indices:
\* no answer is overwritten before virtq_get_used reads it and no offer before the
\* device does. The size of a queue divides the range of its 16-bit indices and is
\* far below it: virtio_pci.c:164-165 caps and only halves the power of two a device offers.
THEOREM ChainsAreInOnePlace ==
  ASSUME IdxMod % Size = 0, IdxMod > Size + 1
  PROVE  Spec => []EveryChainOnce
<1>1. Divides
  BY DEF Divides
<1>2. Init => PInv
  BY <1>1, InitP
<1>3. PInv /\ [Next]_vars => PInv'
  BY <1>1, PInductive
<1>4. PInv => EveryChainOnce
  BY <1>1, PlacesCounted
<1> QED BY <1>2, <1>3, <1>4, PTL DEF Spec

-----------------------------------------------------------------------------
(* No notification is lost. Only the order of the driver's two steps (publish, *)
(* then read the flags) and of the device's (ask again, then look) matter, so  *)
(* this invariant knows nothing of the ring's contents.                        *)

\* The fields the argument reads are there; a step on another field keeps them.
Fields ==
  /\ {"idx", "pending", "ring"} \subseteq DOMAIN avail
  /\ {"last", "held", "quiet", "awake"} \subseteq DOMAIN dev
  /\ wants \in BOOLEAN /\ dev.quiet \in BOOLEAN /\ dev.awake \in BOOLEAN

\* A device that asks for no notifications is awake.
QuietIsAwake == dev.quiet => dev.awake

KickInv == Fields /\ QuietIsAwake /\ NoLostKick

LEMMA InitKick == Init => KickInv
<1> SUFFICES ASSUME Init
             PROVE  KickInv
  OBVIOUS
<1>1. {"idx", "pending", "ring"} \subseteq DOMAIN avail /\ avail.idx = 0
  BY DEF Init
<1>2. /\ {"last", "held", "quiet", "awake"} \subseteq DOMAIN dev
      /\ dev.last = 0 /\ dev.quiet = FALSE /\ dev.awake = FALSE
  BY DEF Init
<1>3. wants = FALSE
  BY DEF Init
<1> QED BY <1>1, <1>2, <1>3 DEF KickInv, Fields, QuietIsAwake, NoLostKick

\* virtq_add leaves the published index alone.
LEMMA AddKeepsIdx ==
  ASSUME NEW total, NEW slot, Fields, VirtqAdd(total, slot)
  PROVE  {"idx", "pending", "ring"} \subseteq DOMAIN avail' /\ avail'.idx = avail.idx
  BY DEF Fields, VirtqAdd, AddAt

\* The driver's steps.
LEMMA AddKick ==
  ASSUME NEW total, NEW cmd, KickInv, VgAdd(total, cmd)
  PROVE  KickInv'
<1>1. /\ {"idx", "pending", "ring"} \subseteq DOMAIN avail' /\ avail'.idx = avail.idx
      /\ UNCHANGED <<dev, wants>>
  <2>1. CASE total <= numFree
    BY <2>1, AddKeepsIdx DEF VgAdd, KickInv
  <2>2. CASE ~(total <= numFree)
    BY <2>2 DEF VgAdd, KickInv, Fields
  <2> QED BY <2>1, <2>2
<1>2. pc \in {"idle", "add"}
  BY DEF VgAdd
<1> QED BY <1>1, <1>2 DEF KickInv, Fields, QuietIsAwake, NoLostKick

LEMMA KickKick ==
  ASSUME KickInv, KickPrepare
  PROVE  KickInv'
<1>1. CASE Publish("kick", "flags")
  BY <1>1 DEF Publish, KickInv, Fields, QuietIsAwake, NoLostKick
<1>2. CASE ReadFlags("flags", "notify")
  BY <1>2 DEF ReadFlags, ring, KickInv, Fields, QuietIsAwake, NoLostKick
<1> QED BY <1>1, <1>2 DEF KickPrepare

LEMMA NotifyKick ==
  ASSUME KickInv, Notify
  PROVE  KickInv'
  BY DEF Notify, ring, KickInv, Fields, QuietIsAwake, NoLostKick

\* A step outside the kick that leaves index, device and `wants' alone.
LEMMA ElsewhereKick ==
  ASSUME KickInv, pc \notin {"flags", "notify"}, UNCHANGED <<avail, dev, wants>>
  PROVE  KickInv'
  BY DEF KickInv, Fields, QuietIsAwake, NoLostKick

LEMMA DriverKick ==
  ASSUME KickInv, VgKick \/ GetUsed \/ VgReturns \/ VgTimesOut \/ VgPollsAgain
  PROVE  KickInv'
<1>1. pc \notin {"flags", "notify"} /\ UNCHANGED <<avail, dev, wants>>
  BY DEF VgKick, ring, GetUsed, Splice, VgReturns, VgTimesOut, GiveUp, VgPollsAgain, GetUsedNull
<1> QED BY <1>1, ElsewhereKick

\* The device's steps.
LEMMA DeviceKick ==
  ASSUME KickInv,
         DevFetch \/ DevStrange \/ DevQuiet \/ DevLoud \/ DevSleep \/ \E h \in Descs : DevComplete(h)
  PROVE  KickInv'
<1> USE DEF KickInv, Fields, QuietIsAwake, NoLostKick
<1>1. CASE DevFetch
  BY <1>1 DEF DevFetch
<1>2. CASE DevStrange
  BY <1>2 DEF DevStrange, ring
<1>3. CASE DevQuiet
  BY <1>3 DEF DevQuiet, ring
<1>4. CASE DevLoud
  BY <1>4 DEF DevLoud, ring
<1>5. CASE DevSleep
  BY <1>5 DEF DevSleep, ring
<1>6. ASSUME NEW h \in Descs, DevComplete(h)
      PROVE  KickInv'
  BY <1>6 DEF DevComplete, ring
<1> QED BY <1>1, <1>2, <1>3, <1>4, <1>5, <1>6

LEMMA KickInductive == KickInv /\ [Next]_vars => KickInv'
<1> SUFFICES ASSUME KickInv, [Next]_vars
             PROVE  KickInv'
  OBVIOUS
<1>1. CASE \E total \in 1 .. MaxChain, cmd \in Commands : VgAdd(total, cmd)
  BY <1>1, AddKick
<1>2. CASE KickPrepare
  BY <1>2, KickKick
<1>3. CASE Notify
  BY <1>3, NotifyKick
<1>4. CASE VgKick \/ GetUsed \/ VgReturns \/ VgTimesOut \/ VgPollsAgain
  BY <1>4, DriverKick
<1>5. CASE DevFetch \/ DevStrange \/ DevQuiet \/ DevLoud \/ DevSleep \/ \E h \in Descs : DevComplete(h)
  BY <1>5, DeviceKick
<1>6. CASE UNCHANGED vars
  BY <1>6 DEF vars, ring, KickInv, Fields, QuietIsAwake, NoLostKick
<1> QED BY <1>1, <1>2, <1>3, <1>4, <1>5, <1>6 DEF Next

\* The device never sleeps beside a published chain that nobody will tell it of:
\* virtq_kick_prepare reads the flags after the index is visible (virtq.c:70-73).
THEOREM KicksReachDevice == Spec => []NoLostKick
<1>1. KickInv => NoLostKick
  BY DEF KickInv
<1> QED BY InitKick, KickInductive, <1>1, PTL DEF Spec
=============================================================================
