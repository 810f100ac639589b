-------------------------- MODULE ObjectWaitProofs --------------------------
(***************************************************************************)
(* The waits of the object manager, for any finite set of threads and any  *)
(* objects, programs and counts: no wait that could be satisfied goes on, no *)
(* unit, ownership or reference is lost or invented, and the wait lists hold *)
(* the blocks of the pending waits and no others. A signal is a loop over the *)
(* wait list in which every grant changes what the later ones find; what the *)
(* loops of the code leave behind is proved by induction over their turns. *)
(***************************************************************************)
EXTENDS ObjectWait, FiniteSetTheorems, NaturalsInduction, WellFoundedInduction, TLAPS

-----------------------------------------------------------------------------
(* Loops, and the lists they walk. *)

\* The least element, which stands in for induction.
LEMMA LeastNat ==
  ASSUME NEW T, T \subseteq Nat, T # {}
  PROVE  \E n \in T : \A m \in T : n <= m
<1> DEFINE R == {ss \in Nat \X Nat : ss[1] < ss[2]}
<1>1. IsWellFoundedOn(R, Nat)
  BY NatLessThanWellFounded DEF OpToRel
<1>2. PICK x \in T : \A y \in T : ~(<<y, x>> \in R)
  BY <1>1, WFMin
<1>3. \A y \in T : x <= y
  <2> TAKE y \in T
  <2>1. x \in Nat /\ y \in Nat /\ <<y, x>> \notin R
    BY <1>2
  <2>2. ~(y < x)
    BY <2>1
  <2> QED BY <2>1, <2>2
<1> QED BY <1>3

LEMMA SetInduction ==
  ASSUME NEW T, 0 \in T, \A n \in Nat : n \in T => n + 1 \in T
  PROVE  \A n \in Nat : n \in T
<1> SUFFICES ASSUME Nat \ T # {} PROVE FALSE
  OBVIOUS
<1>1. PICK n \in Nat \ T : \A m \in Nat \ T : n <= m
  BY LeastNat
<1>2. n # 0 /\ n - 1 \in Nat /\ n - 1 \in T
  BY <1>1
<1> QED BY <1>1, <1>2

\* Induction up to a bound.
LEMMA BoundedInduction ==
  ASSUME NEW n \in Nat, NEW T, 0 \in T, \A k \in 1 .. n : k - 1 \in T => k \in T
  PROVE  \A k \in 0 .. n : k \in T
<1> DEFINE U == {k \in Nat : k <= n => k \in T}
<1>1. 0 \in U
  OBVIOUS
<1>2. ASSUME NEW k \in Nat, k \in U PROVE k + 1 \in U
  <2>1. k + 1 <= n => k + 1 \in 1 .. n /\ (k + 1) - 1 = k /\ k \in T
    BY <1>2
  <2> QED BY <2>1
<1> HIDE DEF U
<1>3. \A k \in Nat : k \in U
  BY <1>1, <1>2, SetInduction
<1> QED BY <1>3 DEF U

\* The intermediate states of a loop of n turns, and that they exist.
Turns(f, n, y0, G) == f = [k \in 0 .. n |-> IF k = 0 THEN y0 ELSE G[<<f[k - 1], k>>]]

LEMMA LoopExists ==
  ASSUME NEW n \in Nat, NEW y0, NEW G
  PROVE  \E f : Turns(f, n, y0, G)
<1> DEFINE Body(f, m) == [k \in 0 .. m |-> IF k = 0 THEN y0 ELSE G[<<f[k - 1], k>>]]
           Fine(m) == \E f : f = Body(f, m)
           T == {m \in Nat : Fine(m)}
<1>1. 0 \in T
  <2>1. [k \in 0 .. 0 |-> y0] = Body([k \in 0 .. 0 |-> y0], 0)
    OBVIOUS
  <2>2. Fine(0)
    BY <2>1
  <2> HIDE DEF Fine
  <2> QED BY <2>2
<1>2. ASSUME NEW m \in Nat, m \in T PROVE m + 1 \in T
  <2>1. PICK f : f = Body(f, m)
    BY <1>2
  <2> DEFINE v == G[<<f[m], m + 1>>]
             g == [k \in 0 .. m + 1 |-> IF k = m + 1 THEN v ELSE f[k]]
  <2>2. ASSUME NEW k \in 0 .. m + 1 PROVE g[k] = Body(g, m + 1)[k]
    <3>1. CASE k = m + 1
      <4>1. g[k] = v /\ g[k - 1] = f[m] /\ k # 0
        BY <3>1
      <4> QED BY <4>1, <3>1
    <3>2. CASE k # m + 1 /\ k # 0
      <4>1. k \in 0 .. m /\ g[k] = f[k] /\ g[k - 1] = f[k - 1]
        BY <3>2
      <4>2. f[k] = G[<<f[k - 1], k>>]
        BY <2>1, <4>1, <3>2
      <4> QED BY <4>1, <4>2, <3>2
    <3>3. CASE k = 0
      <4>1. f[0] = y0
        BY <2>1
      <4> QED BY <4>1, <3>3
    <3> QED BY <3>1, <3>2, <3>3
  <2>3. g = Body(g, m + 1)
    BY <2>2
  <2>4. Fine(m + 1)
    BY <2>3
  <2> HIDE DEF Fine
  <2> QED BY <2>4
<1>3. Fine(n)
  <2> HIDE DEF Fine
  <2>1. \A m \in Nat : m \in T
    <3> HIDE DEF T
    <3> QED BY <1>1, <1>2, SetInduction
  <2> QED BY <2>1
<1> QED BY <1>3 DEF Turns

\* How a loop is used: its step keeps the states in Y(k), given as the pairs Z.
LEMMA LoopRuns ==
  ASSUME NEW n \in Nat, NEW y0, NEW G, NEW Z, <<y0, 0>> \in Z,
         \A k \in 1 .. n : \A y : <<y, k - 1>> \in Z => <<G[<<y, k>>], k>> \in Z
  PROVE  \E f : /\ Turns(f, n, y0, G)
                /\ \A k \in 0 .. n : <<f[k], k>> \in Z
<1>1. PICK f : Turns(f, n, y0, G)
  BY LoopExists
<1>2. f[0] = y0 /\ \A k \in 1 .. n : f[k] = G[<<f[k - 1], k>>]
  <2>1. \A k \in 0 .. n : f[k] = IF k = 0 THEN y0 ELSE G[<<f[k - 1], k>>]
    BY <1>1 DEF Turns
  <2>2. 0 \in 0 .. n /\ \A k \in 1 .. n : k \in 0 .. n /\ k # 0
    OBVIOUS
  <2> QED BY <2>1, <2>2, Zenon
<1> DEFINE T == {k \in 0 .. n : <<f[k], k>> \in Z}
<1>3. 0 \in T
  BY <1>2
<1>4. ASSUME NEW k \in 1 .. n, k - 1 \in T PROVE k \in T
  <2>1. <<f[k - 1], k - 1>> \in Z /\ k \in 0 .. n
    BY <1>4
  <2>2. <<G[<<f[k - 1], k>>], k>> \in Z
    BY <2>1
  <2>3. <<f[k], k>> \in Z
    BY <2>2, <1>2
  <2> QED BY <2>1, <2>3
<1>5. \A k \in 0 .. n : k \in T
  <2> HIDE DEF T
  <2> QED BY <1>3, <1>4, BoundedInduction
<1>6. \A k \in 0 .. n : <<f[k], k>> \in Z
  BY <1>5
<1> QED BY <1>1, <1>6

\* A list without a member is the empty one.
LEMMA NobodyListed ==
  ASSUME NEW X, NEW s \in Seq(X), ToSet(s) = {}
  PROVE  s = <<>>
<1>1. DOMAIN s = 1 .. Len(s) /\ Len(s) \in Nat
  OBVIOUS
<1>2. \A i \in 1 .. Len(s) : s[i] \in ToSet(s)
  BY <1>1 DEF ToSet
<1>3. ~(1 \in 1 .. Len(s))
  BY <1>2
<1>4. Len(s) = 0
  BY <1>1, <1>3
<1> QED BY <1>4

\* A waiter at the tail.
LEMMA AppendList ==
  ASSUME NEW X, NEW s \in Seq(X), IsInjective(s), NEW t \in X, t \notin ToSet(s)
  PROVE  /\ Append(s, t) \in Seq(X) /\ IsInjective(Append(s, t))
         /\ ToSet(Append(s, t)) = ToSet(s) \cup {t}
<1> DEFINE w == Append(s, t)
           n == Len(s)
<1>1. /\ w \in Seq(X) /\ Len(w) = n + 1 /\ w[n + 1] = t /\ n \in Nat /\ DOMAIN s = 1 .. n /\ DOMAIN w = 1 .. n + 1
      /\ \A i \in 1 .. n : w[i] = s[i]
  OBVIOUS
<1> HIDE DEF w, n
<1>2. \A i \in 1 .. n : s[i] # t
  BY <1>1 DEF ToSet
<1>3. IsInjective(w)
  BY <1>1, <1>2 DEF IsInjective
<1>4. \A i : i \in 1 .. n + 1 <=> i \in 1 .. n \/ i = n + 1
  BY <1>1
<1>5. ToSet(w) = ToSet(s) \cup {t}
  BY <1>1, <1>4 DEF ToSet
<1> QED BY <1>1, <1>3, <1>5 DEF w

\* A waiter at the head.
LEMMA PushList ==
  ASSUME NEW X, NEW s \in Seq(X), IsInjective(s), NEW t \in X, t \notin ToSet(s)
  PROVE  /\ <<t>> \o s \in Seq(X) /\ IsInjective(<<t>> \o s)
         /\ ToSet(<<t>> \o s) = ToSet(s) \cup {t}
<1> DEFINE w == <<t>> \o s
           n == Len(s)
<1>1. /\ w \in Seq(X) /\ Len(w) = n + 1 /\ w[1] = t /\ n \in Nat /\ DOMAIN s = 1 .. n /\ DOMAIN w = 1 .. n + 1
      /\ \A i \in 1 .. n : w[i + 1] = s[i]
      /\ \A i \in 1 .. n + 1 : i # 1 => w[i] = s[i - 1]
  OBVIOUS
<1> HIDE DEF w, n
<1>2. \A i \in 1 .. n : s[i] # t
  BY <1>1 DEF ToSet
<1>3. \A i : i \in 1 .. n + 1 <=> i = 1 \/ (i - 1 \in 1 .. n /\ i \in Int)
  BY <1>1
<1>4. IsInjective(w)
  <2> SUFFICES ASSUME NEW i \in 1 .. n + 1, NEW j \in 1 .. n + 1, w[i] = w[j]
               PROVE  i = j
    BY <1>1 DEF IsInjective
  <2>1. CASE i = 1 \/ j = 1
    <3>1. \A k \in 1 .. n + 1 : k # 1 => w[k] # t
      BY <1>1, <1>2, <1>3
    <3> QED BY <1>1, <2>1, <3>1
  <2>2. CASE i # 1 /\ j # 1
    <3>1. i - 1 \in 1 .. n /\ j - 1 \in 1 .. n /\ s[i - 1] = s[j - 1]
      BY <1>1, <1>3, <2>2
    <3>2. i - 1 = j - 1
      BY <1>1, <3>1 DEF IsInjective
    <3> QED BY <3>2
  <2> QED BY <2>1, <2>2
<1>5. ASSUME NEW u PROVE u \in ToSet(w) <=> u \in ToSet(s) \cup {t}
  <2>1. ASSUME u \in ToSet(w) PROVE u \in ToSet(s) \cup {t}
    <3>1. PICK i \in 1 .. n + 1 : w[i] = u
      BY <1>1, <2>1 DEF ToSet
    <3> QED BY <1>1, <1>3, <3>1 DEF ToSet
  <2>2. ASSUME u \in ToSet(s) PROVE u \in ToSet(w)
    <3>1. PICK i \in 1 .. n : s[i] = u
      BY <1>1, <2>2 DEF ToSet
    <3>2. i + 1 \in 1 .. n + 1
      BY <1>1
    <3> QED BY <1>1, <3>1, <3>2 DEF ToSet
  <2>3. 1 \in 1 .. n + 1
    BY <1>1
  <2>4. t \in ToSet(w)
    BY <1>1, <2>3 DEF ToSet
  <2> QED BY <2>1, <2>2, <2>4
<1>6. ToSet(w) = ToSet(s) \cup {t}
  BY <1>5
<1> QED BY <1>1, <1>4, <1>6 DEF w

\* The function behind Without exists and follows the walk.
LEMMA RemainingExists ==
  ASSUME NEW X, NEW s \in Seq(X), NEW S
  PROVE  /\ Remaining(s, S) \in [0 .. Len(s) -> Seq(X)]
         /\ Remaining(s, S)[0] = <<>>
         /\ \A i \in 1 .. Len(s) :
              Remaining(s, S)[i] = IF s[i] \in S THEN Remaining(s, S)[i - 1] ELSE Append(Remaining(s, S)[i - 1], s[i])
<1> DEFINE n == Len(s)
           Step1(q, i) == IF s[i] \in S THEN q ELSE Append(q, s[i])
           G == [p \in Seq(X) \X (1 .. n) |-> Step1(p[1], p[2])]
           Z == Seq(X) \X (0 .. n)
           Body(f) == [i \in 0 .. n |-> IF i = 0 THEN <<>> ELSE IF s[i] \in S THEN f[i - 1] ELSE Append(f[i - 1], s[i])]
           K == Remaining(s, S)
<1>0. n \in Nat /\ \A i \in 1 .. n : s[i] \in X
  OBVIOUS
<1>e. <<>> \in Seq(X)
  OBVIOUS
<1>1. <<<<>>, 0>> \in Z
  <2>1. 0 \in 0 .. n
    BY <1>0
  <2> HIDE DEF n
  <2> QED BY <1>e, <2>1
<1>2. \A q \in Seq(X), i \in 1 .. n : G[<<q, i>>] = Step1(q, i) /\ Step1(q, i) \in Seq(X)
  <2> TAKE q \in Seq(X), i \in 1 .. n
  <2>1. G[<<q, i>>] = Step1(q, i)
    <3> HIDE DEF n, Step1
    <3> QED OBVIOUS
  <2>2. s[i] \in X
    BY <1>0
  <2> QED BY <2>1, <2>2
<1>3. \A k \in 1 .. n : \A y : <<y, k - 1>> \in Z => <<G[<<y, k>>], k>> \in Z
  <2> HIDE DEF G, Step1, n
  <2> QED BY <1>0, <1>2
<1>4. PICK f : Turns(f, n, <<>>, G) /\ \A k \in 0 .. n : <<f[k], k>> \in Z
  <2> HIDE DEF G, Z, n
  <2> QED BY <1>0, <1>1, <1>3, LoopRuns
<1>5. f = Body(f)
  <2>1. \A k \in 0 .. n : f[k] = IF k = 0 THEN <<>> ELSE G[<<f[k - 1], k>>]
    BY <1>4 DEF Turns
  <2>2. ASSUME NEW k \in 0 .. n PROVE f[k] = Body(f)[k]
    <3>1. CASE k = 0
      BY <2>1, <3>1
    <3>2. CASE k # 0
      <4>1. k \in 1 .. n /\ k - 1 \in 0 .. n
        BY <1>0, <3>2
      <4>2. f[k - 1] \in Seq(X)
        BY <1>4, <4>1
      <4>3. f[k] = Step1(f[k - 1], k)
        BY <2>1, <1>2, <3>2, <4>1, <4>2
      <4> QED BY <4>3, <3>2
    <3> QED BY <3>1, <3>2
  <2>3. f = [k \in 0 .. n |-> f[k]]
    BY <1>4 DEF Turns
  <2>4. Body(f) = [k \in 0 .. n |-> Body(f)[k]]
    OBVIOUS
  <2> QED BY <2>2, <2>3, <2>4
<1>6. K = Body(K)
  <2>1. K = CHOOSE g : g = Body(g)
    BY DEF Remaining
  <2> QED BY <1>5, <2>1
<1> HIDE DEF K
<1>7. \A k \in 0 .. n : K[k] = IF k = 0 THEN <<>> ELSE Step1(K[k - 1], k)
  BY <1>6
<1>8. K[0] = <<>> /\ \A k \in 1 .. n : K[k] = Step1(K[k - 1], k)
  <2> HIDE DEF Step1, n
  <2>1. 0 \in 0 .. n /\ \A i \in 1 .. n : i \in 0 .. n /\ i # 0
    BY <1>0
  <2> QED BY <1>7, <2>1
<1>9. \A k \in 0 .. n : K[k] \in Seq(X)
  <2> DEFINE T == {k \in 0 .. n : K[k] \in Seq(X)}
  <2>1. 0 \in T
    <3>1. 0 \in 0 .. n /\ K[0] \in Seq(X)
      BY <1>0, <1>8, <1>e
    <3> HIDE DEF n
    <3> QED BY <3>1
  <2>2. ASSUME NEW k \in 1 .. n, k - 1 \in T PROVE k \in T
    <3>1. K[k - 1] \in Seq(X) /\ k \in 0 .. n
      BY <2>2
    <3> HIDE DEF Step1, n
    <3>2. K[k] \in Seq(X)
      BY <1>2, <1>8, <3>1
    <3> QED BY <3>1, <3>2
  <2>3. \A k \in 0 .. n : k \in T
    <3> HIDE DEF T, n
    <3> QED BY <1>0, <2>1, <2>2, BoundedInduction
  <2> QED BY <2>3
<1>10. K \in [0 .. n -> Seq(X)]
  <2> HIDE DEF n
  <2>1. K = [k \in 0 .. n |-> K[k]]
    BY <1>6
  <2> QED BY <1>9, <2>1
<1> QED BY <1>8, <1>10 DEF K

\* Without takes exactly the members of S off the list.
LEMMA WithoutFacts ==
  ASSUME NEW X, NEW s \in Seq(X), IsInjective(s), NEW S
  PROVE  /\ Without(s, S) \in Seq(X) /\ IsInjective(Without(s, S))
         /\ ToSet(Without(s, S)) = ToSet(s) \ S
<1> DEFINE K == Remaining(s, S)
           n == Len(s)
           Fits(k) == /\ IsInjective(K[k])
                      /\ \A u : u \in ToSet(K[k]) <=> (\E i \in 1 .. k : s[i] = u) /\ u \notin S
           T == {k \in Nat : k <= n => Fits(k)}
<1>1. /\ K \in [0 .. n -> Seq(X)] /\ K[0] = <<>>
      /\ \A i \in 1 .. n : K[i] = IF s[i] \in S THEN K[i - 1] ELSE Append(K[i - 1], s[i])
  BY RemainingExists
<1>2. n \in Nat /\ DOMAIN s = 1 .. n /\ \A i \in 1 .. n : s[i] \in X
  OBVIOUS
<1> HIDE DEF K, n
<1>3. 0 \in T
  <2>1. Fits(0)
    BY <1>1 DEF ToSet, IsInjective
  <2> HIDE DEF Fits
  <2> QED BY <2>1
<1>4. ASSUME NEW k \in Nat, k \in T PROVE k + 1 \in T
  <2>0. (k + 1 <= n => Fits(k + 1)) => k + 1 \in T
    <3> HIDE DEF Fits
    <3> QED OBVIOUS
  <2> SUFFICES ASSUME k + 1 <= n PROVE Fits(k + 1)
    BY <2>0
  <2>1. Fits(k) /\ k \in 0 .. n /\ k + 1 \in 1 .. n /\ (k + 1) - 1 = k
    <3> HIDE DEF Fits
    <3> QED BY <1>2, <1>4
  <2>2. /\ K[k] \in Seq(X) /\ s[k + 1] \in X
        /\ K[k + 1] = IF s[k + 1] \in S THEN K[k] ELSE Append(K[k], s[k + 1])
    <3> HIDE DEF Fits
    <3> QED BY <1>1, <1>2, <2>1
  <2>3. \A u : (\E i \in 1 .. k + 1 : s[i] = u) <=> (\E i \in 1 .. k : s[i] = u) \/ u = s[k + 1]
    <3>1. \A i : i \in 1 .. k + 1 <=> i \in 1 .. k \/ i = k + 1
      BY <1>4
    <3> QED BY <3>1
  <2>4. CASE s[k + 1] \notin S
    <3>1. s[k + 1] \notin ToSet(K[k])
      <4>1. \A i \in 1 .. k : i \in 1 .. n /\ i # k + 1
        BY <1>2, <2>1
      <4>2. \A i \in 1 .. k : s[i] # s[k + 1]
        BY <1>2, <2>1, <4>1 DEF IsInjective
      <4> QED BY <2>1, <4>2
    <3>2. IsInjective(K[k])
      BY <2>1
    <3>3. IsInjective(Append(K[k], s[k + 1])) /\ ToSet(Append(K[k], s[k + 1])) = ToSet(K[k]) \cup {s[k + 1]}
      BY ONLY <2>2, <3>1, <3>2, AppendList
    <3>4. K[k + 1] = Append(K[k], s[k + 1])
      BY <2>2, <2>4
    <3>5. IsInjective(K[k + 1]) /\ \A u : u \in ToSet(K[k + 1]) <=> u \in ToSet(K[k]) \/ u = s[k + 1]
      BY <3>3, <3>4
    <3> QED BY <2>1, <2>3, <2>4, <3>5
  <2>5. CASE s[k + 1] \in S
    <3>1. K[k + 1] = K[k]
      BY <2>2, <2>5
    <3> QED BY <2>1, <2>3, <2>5, <3>1
  <2> QED BY <2>4, <2>5
<1>5. Fits(n)
  <2> HIDE DEF Fits
  <2>1. \A k \in Nat : k \in T
    <3> HIDE DEF T
    <3> QED BY <1>3, <1>4, SetInduction
  <2> QED BY <1>2, <2>1
<1>6. Without(s, S) = K[n] /\ K[n] \in Seq(X)
  BY <1>1, <1>2 DEF Without, K, n
<1>7. \A u : u \in ToSet(s) <=> \E i \in 1 .. n : s[i] = u
  BY <1>2 DEF ToSet
<1> QED BY <1>5, <1>6, <1>7

\* One list behind another.
LEMMA JoinLists ==
  ASSUME NEW X, NEW s \in Seq(X), NEW r \in Seq(X), IsInjective(s), IsInjective(r), ToSet(s) \cap ToSet(r) = {}
  PROVE  /\ s \o r \in Seq(X) /\ IsInjective(s \o r)
         /\ ToSet(s \o r) = ToSet(s) \cup ToSet(r)
<1> DEFINE w == s \o r
           m == Len(s)
           n == Len(r)
<1>1. /\ w \in Seq(X) /\ m \in Nat /\ n \in Nat /\ DOMAIN s = 1 .. m /\ DOMAIN r = 1 .. n /\ DOMAIN w = 1 .. m + n
      /\ \A i \in 1 .. m : w[i] = s[i]
      /\ \A i \in m + 1 .. m + n : w[i] = r[i - m]
  OBVIOUS
<1> HIDE DEF w, m, n
<1>2. \A i \in 1 .. m + n : i \in 1 .. m \/ (i \in m + 1 .. m + n /\ i - m \in 1 .. n)
  BY <1>1
<1>3. \A i \in 1 .. m, j \in 1 .. n : s[i] # r[j]
  BY <1>1 DEF ToSet
<1>4. IsInjective(w)
  <2> SUFFICES ASSUME NEW i \in 1 .. m + n, NEW j \in 1 .. m + n, w[i] = w[j]
               PROVE  i = j
    BY <1>1 DEF IsInjective
  <2>1. CASE i \in 1 .. m /\ j \in 1 .. m
    BY <1>1, <2>1 DEF IsInjective
  <2>2. CASE i \notin 1 .. m /\ j \notin 1 .. m
    <3>1. i - m \in 1 .. n /\ j - m \in 1 .. n /\ r[i - m] = r[j - m]
      BY <1>1, <1>2, <2>2
    <3>2. i - m = j - m
      BY <1>1, <3>1 DEF IsInjective
    <3> QED BY <1>1, <3>2
  <2>3. CASE i \in 1 .. m /\ j \notin 1 .. m
    BY <1>1, <1>2, <1>3, <2>3
  <2>4. CASE i \notin 1 .. m /\ j \in 1 .. m
    BY <1>1, <1>2, <1>3, <2>4
  <2> QED BY <2>1, <2>2, <2>3, <2>4
<1>5. ASSUME NEW u PROVE u \in ToSet(w) <=> u \in ToSet(s) \cup ToSet(r)
  <2>1. ASSUME u \in ToSet(w) PROVE u \in ToSet(s) \cup ToSet(r)
    <3>1. PICK i \in 1 .. m + n : w[i] = u
      BY <1>1, <2>1 DEF ToSet
    <3> QED BY <1>1, <1>2, <3>1 DEF ToSet
  <2>2. ASSUME u \in ToSet(s) PROVE u \in ToSet(w)
    <3>1. PICK i \in 1 .. m : s[i] = u
      BY <1>1, <2>2 DEF ToSet
    <3>2. i \in 1 .. m + n
      BY <1>1
    <3> QED BY <1>1, <3>1, <3>2 DEF ToSet
  <2>3. ASSUME u \in ToSet(r) PROVE u \in ToSet(w)
    <3>1. PICK i \in 1 .. n : r[i] = u
      BY <1>1, <2>3 DEF ToSet
    <3>2. i + m \in m + 1 .. m + n /\ (i + m) - m = i /\ i + m \in 1 .. m + n
      BY <1>1
    <3> QED BY <1>1, <3>1, <3>2 DEF ToSet
  <2> QED BY <2>1, <2>2, <2>3
<1>6. ToSet(w) = ToSet(s) \cup ToSet(r)
  BY <1>5
<1> QED BY <1>1, <1>4, <1>6 DEF w

\* On a list that names everything at most once, a member has one place.
LEMMA OnePlace ==
  ASSUME NEW X, NEW s \in Seq(X), IsInjective(s), NEW u
  PROVE  MultiplicityIn(s, u) = IF u \in ToSet(s) THEN 1 ELSE 0
<1>1. CASE u \in ToSet(s)
  <2>1. PICK i \in DOMAIN s : s[i] = u
    BY <1>1 DEF ToSet
  <2>2. Named(s, u) = {i}
    BY <2>1 DEF Named, IsInjective
  <2> QED BY <1>1, <2>2, FS_Singleton DEF MultiplicityIn
<1>2. CASE u \notin ToSet(s)
  <2>1. Named(s, u) = {}
    BY <1>2 DEF Named, ToSet
  <2> QED BY <1>2, <2>1, FS_EmptySet DEF MultiplicityIn
<1> QED BY <1>1, <1>2

\* Sums over the threads: the cardinality of a family of sets of places.
Places(F) == UNION {{t} \X F[t] : t \in Threads}

LEMMA ThreadsFinite == IsFiniteSet(Threads) /\ None \notin Threads /\ None \notin Waits
BY ObjectWaitAssumption

LEMMA PlacesFinite ==
  ASSUME NEW F, \A t \in Threads : IsFiniteSet(F[t])
  PROVE  IsFiniteSet(Places(F)) /\ Cardinality(Places(F)) \in Nat
<1> DEFINE S == {{t} \X F[t] : t \in Threads}
           g == [t \in Threads |-> {t} \X F[t]]
<1>1. g \in Surjection(Threads, S)
  BY DEF Surjection
<1>2. IsFiniteSet(S)
  <2> HIDE DEF S, g
  <2> QED BY <1>1, ThreadsFinite, FS_Surjection
<1>3. \A T \in S : IsFiniteSet(T)
  <2> TAKE T \in S
  <2>1. PICK t \in Threads : T = {t} \X F[t]
    OBVIOUS
  <2>2. IsFiniteSet({t}) /\ IsFiniteSet(F[t])
    BY FS_Singleton
  <2>3. IsFiniteSet({t} \X F[t])
    BY <2>2, FS_Product
  <2> QED BY <2>1, <2>3
<1>4. IsFiniteSet(UNION S)
  <2> HIDE DEF S
  <2> QED BY <1>2, <1>3, FS_UNION
<1> QED BY <1>4, FS_CardinalityType DEF Places

\* One thread's share changes.
LEMMA ShareChanges ==
  ASSUME NEW F, NEW H, NEW t \in Threads,
         \A u \in Threads : IsFiniteSet(F[u]) /\ IsFiniteSet(H[u]) /\ (u # t => F[u] = H[u])
  PROVE  Cardinality(Places(H)) = Cardinality(Places(F)) - Cardinality(F[t]) + Cardinality(H[t])
<1> DEFINE E == [u \in Threads |-> IF u = t THEN {} ELSE F[u]]
<1>1. ASSUME NEW D, D[t] = F[t] \/ D[t] = H[t], \A u \in Threads : IsFiniteSet(D[u]) /\ (u # t => D[u] = F[u])
      PROVE  /\ Cardinality(Places(D)) = Cardinality(Places(E)) + Cardinality(D[t])
             /\ Cardinality(Places(E)) \in Nat /\ Cardinality(D[t]) \in Nat
  <2>1. Places(D) = Places(E) \cup ({t} \X D[t])
    BY <1>1 DEF Places
  <2>2. Places(E) \cap ({t} \X D[t]) = {}
    BY DEF Places
  <2>3. IsFiniteSet(Places(E)) /\ Cardinality(Places(E)) \in Nat
    <3>1. \A u \in Threads : IsFiniteSet(E[u])
      BY FS_EmptySet
    <3> HIDE DEF E
    <3> QED BY <3>1, PlacesFinite
  <2>4. IsFiniteSet({t} \X D[t]) /\ Cardinality({t} \X D[t]) = Cardinality(D[t]) /\ Cardinality(D[t]) \in Nat
    <3>1. IsFiniteSet({t}) /\ Cardinality({t}) = 1
      BY FS_Singleton
    <3>2. IsFiniteSet(D[t]) /\ Cardinality(D[t]) \in Nat
      BY <1>1, FS_CardinalityType
    <3>3. IsFiniteSet({t} \X D[t]) /\ Cardinality({t} \X D[t]) = Cardinality({t}) * Cardinality(D[t])
      BY <3>1, <3>2, FS_Product
    <3>4. \A n \in Nat : 1 * n = n
      OBVIOUS
    <3> QED BY <3>1, <3>2, <3>3, <3>4
  <2>5. Cardinality(Places(D)) = Cardinality(Places(E)) + Cardinality({t} \X D[t]) - Cardinality(Places(E) \cap ({t} \X D[t]))
    <3> HIDE DEF E
    <3> QED BY <2>1, <2>3, <2>4, FS_Union
  <2>6. Cardinality(Places(E) \cap ({t} \X D[t])) = 0
    BY <2>2, FS_EmptySet
  <2> HIDE DEF E
  <2> QED BY <2>3, <2>4, <2>5, <2>6
<1>2. /\ Cardinality(Places(F)) = Cardinality(Places(E)) + Cardinality(F[t])
      /\ Cardinality(Places(E)) \in Nat /\ Cardinality(F[t]) \in Nat
  <2> HIDE DEF E
  <2> QED BY <1>1
<1>3. Cardinality(Places(H)) = Cardinality(Places(E)) + Cardinality(H[t]) /\ Cardinality(H[t]) \in Nat
  <2> HIDE DEF E
  <2> QED BY <1>1
<1> HIDE DEF E
<1> QED BY <1>2, <1>3

-----------------------------------------------------------------------------
(* What a successful wait takes. *)

\* The states of an object and of a step that signals; a wait that names a
\* semaphore twice may leave a negative count (objects.c:286-288).
Obs == [signaled : BOOLEAN, count : Int, owner : Threads \cup {None}, recursion : Int, refs : Int]
Working == [ob : [Objects -> Obs], owned : Seq(Mutants), desc : [Threads -> Waits \cup {None}], stop : BOOLEAN]

\* The mutants with an owner are on owned_mutants, once each.
OwnedListed(x) == IsInjective(x.owned) /\ ToSet(x.owned) = {o \in Objects : x.ob[o].owner # None}

\* The references that are not its owner's.
Rest(x, o) == x.ob[o].refs - (IF x.ob[o].owner # None THEN 1 ELSE 0)

LEMMA SignaledIs ==
  ASSUME NEW x, NEW o \in Objects, NEW t
  PROVE  /\ Kind[o] = "sem" => (Signaled(x, o, t) <=> x.ob[o].count > 0)
         /\ Kind[o] = "mutant" => (Signaled(x, o, t) <=> x.ob[o].owner \in {None, t})
         /\ Kind[o] \notin {"sem", "mutant"} => Signaled(x, o, t) = x.ob[o].signaled
BY DEF Signaled

LEMMA MutantIs == \A o \in Objects : o \in Mutants <=> Kind[o] = "mutant"
BY DEF Mutants

\* A working state with one object, or the list, replaced.
PutObject(x, o, r) == [x EXCEPT !.ob[o] = r]
PutOwned(x, w) == [x EXCEPT !.owned = w]

LEMMA PutFacts ==
  ASSUME NEW x \in Working, NEW o \in Objects, NEW r \in Obs, NEW w \in Seq(Mutants)
  PROVE  /\ PutObject(x, o, r) \in Working
         /\ PutObject(x, o, r).desc = x.desc /\ PutObject(x, o, r).stop = x.stop
         /\ PutObject(x, o, r).owned = x.owned
         /\ PutObject(x, o, r).ob[o] = r
         /\ \A p \in Objects : p # o => PutObject(x, o, r).ob[p] = x.ob[p]
         /\ PutOwned(x, w) \in Working
         /\ PutOwned(x, w).desc = x.desc /\ PutOwned(x, w).stop = x.stop
         /\ PutOwned(x, w).owned = w /\ PutOwned(x, w).ob = x.ob
<1> DEFINE b == [x.ob EXCEPT ![o] = r]
<1>1. b \in [Objects -> Obs] /\ b[o] = r /\ \A p \in Objects : p # o => b[p] = x.ob[p]
  BY DEF Working
<1>2. PutObject(x, o, r) = [ob |-> b, owned |-> x.owned, desc |-> x.desc, stop |-> x.stop]
  BY DEF Working, PutObject
<1>3. PutOwned(x, w) = [ob |-> x.ob, owned |-> w, desc |-> x.desc, stop |-> x.stop]
  <2>1. x = [ob |-> x.ob, owned |-> x.owned, desc |-> x.desc, stop |-> x.stop]
    BY DEF Working
  <2>2. DOMAIN PutOwned(x, w) = DOMAIN x
    BY DEF PutOwned
  <2>3. PutOwned(x, w) = [x EXCEPT !["owned"] = w]
    BY Zenon DEF PutOwned
  <2> QED BY <2>1, <2>2, <2>3
<1>4. x.owned \in Seq(Mutants) /\ x.desc \in [Threads -> Waits \cup {None}] /\ x.stop \in BOOLEAN /\ x.ob \in [Objects -> Obs]
  BY DEF Working
<1> HIDE DEF b
<1> QED BY <1>1, <1>2, <1>3, <1>4 DEF Working

\* One object, field by field.
LEMMA AcquireIs ==
  ASSUME NEW x \in Working, NEW o \in Objects, NEW t \in Threads
  PROVE  LET y == Acquire(x, o, t)
         IN  /\ y \in Working /\ y.desc = x.desc /\ y.stop = x.stop
             /\ \A p \in Objects : p # o => y.ob[p] = x.ob[p]
             /\ y.ob[o].count = x.ob[o].count - (IF Kind[o] = "sem" THEN 1 ELSE 0)
             /\ y.ob[o].recursion = x.ob[o].recursion + (IF Kind[o] = "mutant" THEN 1 ELSE 0)
             /\ y.ob[o].owner = IF Kind[o] = "mutant" THEN t ELSE x.ob[o].owner
             /\ y.ob[o].refs = x.ob[o].refs + (IF Kind[o] = "mutant" /\ x.ob[o].owner = None THEN 1 ELSE 0)
             /\ y.ob[o].signaled => x.ob[o].signaled
             /\ y.owned = IF Kind[o] = "mutant" /\ x.ob[o].owner = None THEN <<o>> \o x.owned ELSE x.owned
<1> DEFINE y == Acquire(x, o, t)
           q == x.ob[o]
           r1 == [q EXCEPT !.signaled = FALSE]
           r2 == [q EXCEPT !.count = @ - 1]
           q1 == [q EXCEPT !.owner = t]
           q2 == [q1 EXCEPT !.recursion = q.recursion + 1]
           r3 == [q2 EXCEPT !.refs = IF q.owner = None THEN q.refs + 1 ELSE q.refs]
           z == PutObject(x, o, r3)
           w == IF q.owner = None THEN <<o>> \o x.owned ELSE x.owned
<1>0. q \in Obs /\ x.owned \in Seq(Mutants)
  BY DEF Working
<1>5. q.refs \in Int /\ q.count \in Int /\ q.recursion \in Int
  BY <1>0 DEF Obs
<1>1. CASE Kind[o] = "sync"
  <2>1. y = PutObject(x, o, r1)
    BY <1>1 DEF Acquire, PutObject
  <2>2. r1 \in Obs /\ r1.count = q.count /\ r1.recursion = q.recursion /\ r1.owner = q.owner /\ r1.refs = q.refs /\ ~ r1.signaled
    BY <1>0 DEF Obs
  <2> HIDE DEF r1
  <2>3. /\ y \in Working /\ y.desc = x.desc /\ y.stop = x.stop /\ y.owned = x.owned
        /\ y.ob[o] = r1 /\ \A p \in Objects : p # o => y.ob[p] = x.ob[p]
    BY <2>1, <2>2, <1>0, PutFacts
  <2> QED BY <2>2, <2>3, <1>1, <1>5
<1>2. CASE Kind[o] = "sem"
  <2>1. y = PutObject(x, o, r2)
    BY <1>2 DEF Acquire, PutObject
  <2>2. r2 \in Obs /\ r2.count = q.count - 1 /\ r2.recursion = q.recursion /\ r2.owner = q.owner /\ r2.refs = q.refs
        /\ r2.signaled = q.signaled
    BY <1>0 DEF Obs
  <2> HIDE DEF r2
  <2>3. /\ y \in Working /\ y.desc = x.desc /\ y.stop = x.stop /\ y.owned = x.owned
        /\ y.ob[o] = r2 /\ \A p \in Objects : p # o => y.ob[p] = x.ob[p]
    BY <2>1, <2>2, <1>0, PutFacts
  <2> QED BY <2>2, <2>3, <1>2, <1>5
<1>3. CASE Kind[o] = "mutant"
  <2>1. y = PutOwned(z, w)
    BY <1>3 DEF Acquire, MutantTake, PutObject, PutOwned
  <2>2. q1 \in Obs /\ q1.count = q.count /\ q1.recursion = q.recursion /\ q1.owner = t /\ q1.refs = q.refs /\ q1.signaled = q.signaled
    BY <1>0 DEF Obs
  <2> HIDE DEF q1
  <2>3. /\ q2 \in Obs /\ q2.count = q.count /\ q2.recursion = q.recursion + 1 /\ q2.owner = t /\ q2.refs = q.refs
        /\ q2.signaled = q.signaled
    BY <1>5, <2>2 DEF Obs
  <2> HIDE DEF q2
  <2>4. /\ r3 \in Obs /\ r3.count = q.count /\ r3.recursion = q.recursion + 1 /\ r3.owner = t
        /\ r3.refs = q.refs + (IF q.owner = None THEN 1 ELSE 0) /\ r3.signaled = q.signaled
    BY <1>5, <2>3 DEF Obs
  <2> HIDE DEF r3
  <2>5. /\ z \in Working /\ z.desc = x.desc /\ z.stop = x.stop /\ z.owned = x.owned
        /\ z.ob[o] = r3 /\ \A p \in Objects : p # o => z.ob[p] = x.ob[p]
    BY <2>4, <1>0, PutFacts
  <2> HIDE DEF z
  <2>6. w \in Seq(Mutants)
    <3>1. o \in Mutants
      BY <1>3, MutantIs
    <3> QED BY <1>0, <2>5, <3>1
  <2> HIDE DEF w
  <2>8. y \in Working /\ y.desc = z.desc /\ y.stop = z.stop /\ y.owned = w /\ y.ob = z.ob
    <3>1. x.ob[o] \in Obs
      BY <1>0
    <3> QED BY <2>1, <2>5, <2>6, <3>1, PutFacts
  <2> QED BY <2>4, <2>5, <2>8, <1>3, <1>5 DEF w
<1>4. CASE Kind[o] \notin {"sync", "sem", "mutant"}
  <2>1. y = x
    BY <1>4 DEF Acquire
  <2> QED BY <2>1, <1>0, <1>4, <1>5
<1> QED BY <1>1, <1>2, <1>3, <1>4

\* m[o] times each object o, for thread t.
Took(x, y, m, t) ==
  /\ y \in Working /\ y.desc = x.desc /\ y.stop = x.stop
  /\ \A o \in Objects :
       /\ Rest(y, o) = Rest(x, o)
       /\ y.ob[o].count = x.ob[o].count - (IF Kind[o] = "sem" THEN m[o] ELSE 0)
       /\ y.ob[o].recursion = x.ob[o].recursion + (IF Kind[o] = "mutant" THEN m[o] ELSE 0)
       /\ y.ob[o].owner = IF Kind[o] = "mutant" /\ m[o] > 0 THEN t ELSE x.ob[o].owner
       /\ y.ob[o].signaled => x.ob[o].signaled
  /\ OwnedListed(x) => OwnedListed(y)

OneMore(m, o) == [m EXCEPT ![o] = @ + 1]

LEMMA AcquireTakes ==
  ASSUME NEW x \in Working, NEW y, NEW m \in [Objects -> Nat], NEW o \in Objects, NEW t \in Threads, Took(x, y, m, t)
  PROVE  Took(x, Acquire(y, o, t), OneMore(m, o), t)
<1> DEFINE z == Acquire(y, o, t)
           n == OneMore(m, o)
<1>0. y \in Working /\ y.desc = x.desc /\ y.stop = x.stop
  BY DEF Took
<1>1. /\ z \in Working /\ z.desc = y.desc /\ z.stop = y.stop
      /\ \A p \in Objects : p # o => z.ob[p] = y.ob[p]
      /\ z.ob[o].count = y.ob[o].count - (IF Kind[o] = "sem" THEN 1 ELSE 0)
      /\ z.ob[o].recursion = y.ob[o].recursion + (IF Kind[o] = "mutant" THEN 1 ELSE 0)
      /\ z.ob[o].owner = (IF Kind[o] = "mutant" THEN t ELSE y.ob[o].owner)
      /\ z.ob[o].refs = y.ob[o].refs + (IF Kind[o] = "mutant" /\ y.ob[o].owner = None THEN 1 ELSE 0)
      /\ z.ob[o].signaled => y.ob[o].signaled
      /\ z.owned = (IF Kind[o] = "mutant" /\ y.ob[o].owner = None THEN <<o>> \o y.owned ELSE y.owned)
  BY <1>0, AcquireIs
<1> HIDE DEF z
<1>2. /\ \A p \in Objects : x.ob[p] \in Obs /\ y.ob[p] \in Obs /\ z.ob[p] \in Obs
      /\ \A p \in Objects : n[p] = (IF p = o THEN m[o] + 1 ELSE m[p]) /\ m[p] \in Nat
      /\ t # None
  BY <1>0, <1>1, ThreadsFinite DEF Working, OneMore
<1> HIDE DEF n
<1>3. ASSUME NEW p \in Objects
      PROVE  /\ Rest(z, p) = Rest(x, p)
             /\ z.ob[p].count = x.ob[p].count - (IF Kind[p] = "sem" THEN n[p] ELSE 0)
             /\ z.ob[p].recursion = x.ob[p].recursion + (IF Kind[p] = "mutant" THEN n[p] ELSE 0)
             /\ z.ob[p].owner = (IF Kind[p] = "mutant" /\ n[p] > 0 THEN t ELSE x.ob[p].owner)
             /\ z.ob[p].signaled => x.ob[p].signaled
  <2>1. /\ Rest(y, p) = Rest(x, p)
        /\ y.ob[p].count = x.ob[p].count - (IF Kind[p] = "sem" THEN m[p] ELSE 0)
        /\ y.ob[p].recursion = x.ob[p].recursion + (IF Kind[p] = "mutant" THEN m[p] ELSE 0)
        /\ y.ob[p].owner = (IF Kind[p] = "mutant" /\ m[p] > 0 THEN t ELSE x.ob[p].owner)
        /\ y.ob[p].signaled => x.ob[p].signaled
    BY DEF Took
  <2>2. /\ y.ob[p].count \in Int /\ y.ob[p].recursion \in Int /\ y.ob[p].refs \in Int
        /\ x.ob[p].count \in Int /\ x.ob[p].recursion \in Int /\ x.ob[p].refs \in Int /\ z.ob[p].refs \in Int
    BY <1>2 DEF Obs
  <2>3. CASE p # o
    <3>1. Rest(z, p) = Rest(y, p)
      BY <1>1, <2>3 DEF Rest
    <3>2. z.ob[p] = y.ob[p] /\ n[p] = m[p]
      BY <1>1, <1>2, <2>3
    <3> QED BY <2>1, <3>1, <3>2
  <2>4. CASE p = o
    <3>1. Rest(z, o) = Rest(y, o)
      BY <1>1, <1>2, <2>2, <2>4 DEF Rest
    <3>2. n[o] = m[o] + 1 /\ m[o] \in Nat
      BY <1>2
    <3>3. z.ob[o].count = x.ob[o].count - (IF Kind[o] = "sem" THEN n[o] ELSE 0)
      BY <1>1, <2>1, <2>2, <2>4, <3>2
    <3>4. z.ob[o].recursion = x.ob[o].recursion + (IF Kind[o] = "mutant" THEN n[o] ELSE 0)
      BY <1>1, <2>1, <2>2, <2>4, <3>2
    <3>5. z.ob[o].owner = (IF Kind[o] = "mutant" /\ n[o] > 0 THEN t ELSE x.ob[o].owner)
      BY <1>1, <2>1, <2>4, <3>2
    <3> QED BY <1>1, <2>1, <2>4, <3>1, <3>3, <3>4, <3>5
  <2> QED BY <2>3, <2>4
<1>4. ASSUME OwnedListed(x) PROVE OwnedListed(z)
  <2>1. OwnedListed(y) /\ y.owned \in Seq(Mutants)
    BY <1>0, <1>4 DEF Took, Working
  <2>2. CASE Kind[o] = "mutant" /\ y.ob[o].owner = None
    <3>1. z.owned = <<o>> \o y.owned /\ o \in Mutants /\ o \notin ToSet(y.owned) /\ IsInjective(y.owned)
      BY <1>1, <2>1, <2>2, MutantIs DEF OwnedListed
    <3>2. IsInjective(z.owned) /\ ToSet(z.owned) = ToSet(y.owned) \cup {o}
      BY <2>1, <3>1, PushList
    <3>3. \A p \in Objects : z.ob[p].owner # None <=> y.ob[p].owner # None \/ p = o
      BY <1>1, <1>2, <2>2
    <3>4. ToSet(y.owned) = {p \in Objects : y.ob[p].owner # None}
      BY <2>1 DEF OwnedListed
    <3>5. ToSet(z.owned) = {p \in Objects : z.ob[p].owner # None}
      BY <3>2, <3>3, <3>4
    <3> QED BY <3>2, <3>5 DEF OwnedListed
  <2>3. CASE ~ (Kind[o] = "mutant" /\ y.ob[o].owner = None)
    <3>1. z.owned = y.owned
      BY <1>1, <2>3
    <3>2. \A p \in Objects : z.ob[p].owner # None <=> y.ob[p].owner # None
      BY <1>1, <1>2, <2>3
    <3> QED BY <2>1, <3>1, <3>2 DEF OwnedListed
  <2> QED BY <2>2, <2>3
<1> QED BY <1>0, <1>1, <1>3, <1>4 DEF Took, z, n

\* How often each object is among the first k.
Among(objs, k) == [o \in Objects |-> Cardinality({i \in 1 .. k : objs[i] = o})]

LEMMA NamedFinite ==
  ASSUME NEW objs \in Seq(Objects), NEW o
  PROVE  /\ IsFiniteSet(Named(objs, o)) /\ MultiplicityIn(objs, o) \in Nat
         /\ MultiplicityIn(objs, o) = 0 <=> Named(objs, o) = {}
<1>1. DOMAIN objs = 1 .. Len(objs) /\ Len(objs) \in Nat
  OBVIOUS
<1>2. IsFiniteSet(1 .. Len(objs))
  BY <1>1, FS_Interval
<1>3. Named(objs, o) \in SUBSET (1 .. Len(objs))
  BY <1>1 DEF Named
<1>4. IsFiniteSet(Named(objs, o))
  BY <1>2, <1>3, FS_Subset
<1> QED BY <1>4, FS_CardinalityType, FS_EmptySet DEF MultiplicityIn

LEMMA AmongFacts ==
  ASSUME NEW objs \in Seq(Objects)
  PROVE  /\ \A k \in 0 .. Len(objs) : Among(objs, k) \in [Objects -> Nat]
         /\ \A o \in Objects : Among(objs, 0)[o] = 0
         /\ \A k \in 1 .. Len(objs) : objs[k] \in Objects /\ Among(objs, k) = OneMore(Among(objs, k - 1), objs[k])
         /\ \A o \in Objects : Among(objs, Len(objs))[o] = MultiplicityIn(objs, o)
<1>1. DOMAIN objs = 1 .. Len(objs) /\ Len(objs) \in Nat /\ \A k \in 1 .. Len(objs) : objs[k] \in Objects
  OBVIOUS
<1> DEFINE P(k, o) == {i \in 1 .. k : objs[i] = o}
<1>2. \A k \in Nat, o \in Objects : IsFiniteSet(P(k, o)) /\ Cardinality(P(k, o)) \in Nat
  <2> TAKE k \in Nat, o \in Objects
  <2>1. IsFiniteSet(1 .. k)
    BY FS_Interval
  <2>2. P(k, o) \in SUBSET (1 .. k)
    OBVIOUS
  <2>3. IsFiniteSet(P(k, o))
    <3> HIDE DEF P
    <3> QED BY <2>1, <2>2, FS_Subset
  <2> QED BY <2>3, FS_CardinalityType
<1>3. \A k \in Nat : Among(objs, k) \in [Objects -> Nat] /\ \A o \in Objects : Among(objs, k)[o] = Cardinality(P(k, o))
  BY <1>2 DEF Among
<1>4. \A o \in Objects : Among(objs, 0)[o] = 0
  <2> TAKE o \in Objects
  <2>1. P(0, o) = {}
    OBVIOUS
  <2> QED BY <1>3, <2>1, FS_EmptySet
<1>5. \A o \in Objects : Among(objs, Len(objs))[o] = MultiplicityIn(objs, o)
  BY <1>1, <1>3 DEF MultiplicityIn, Named
<1>6. ASSUME NEW k \in 1 .. Len(objs)
      PROVE  Among(objs, k) = OneMore(Among(objs, k - 1), objs[k])
  <2>1. k \in Nat /\ k - 1 \in Nat /\ objs[k] \in Objects
    BY <1>1
  <2>2. ASSUME NEW o \in Objects
        PROVE  Cardinality(P(k, o)) = IF o = objs[k] THEN Cardinality(P(k - 1, o)) + 1 ELSE Cardinality(P(k - 1, o))
    <3>1. \A i : i \in 1 .. k <=> i \in 1 .. k - 1 \/ i = k
      BY <2>1
    <3>2. k \notin P(k - 1, o) /\ IsFiniteSet(P(k - 1, o))
      <4>1. k \notin 1 .. k - 1
        BY <2>1
      <4> QED BY <1>2, <2>1, <4>1
    <3>3. CASE o = objs[k]
      <4>1. P(k, o) = P(k - 1, o) \cup {k}
        BY <3>1, <3>3
      <4> HIDE DEF P
      <4> QED BY ZenonT(40), <3>2, <3>3, <4>1, FS_AddElement
    <3>4. CASE o # objs[k]
      <4>1. P(k, o) = P(k - 1, o)
        BY <3>1, <3>4
      <4> QED BY <3>4, <4>1
    <3> QED BY <3>3, <3>4
  <2>3. /\ Among(objs, k) \in [Objects -> Nat] /\ Among(objs, k - 1) \in [Objects -> Nat]
        /\ \A o \in Objects : Among(objs, k)[o] = IF o = objs[k] THEN Among(objs, k - 1)[o] + 1 ELSE Among(objs, k - 1)[o]
    <3> HIDE DEF P
    <3> QED BY <1>3, <2>1, <2>2
  <2> QED BY <2>1, <2>3 DEF OneMore
<1> QED BY <1>1, <1>3, <1>4, <1>5, <1>6

\* AcquireAll takes each object as often as the list names it.
LEMMA AcquireAllTakes ==
  ASSUME NEW x \in Working, NEW objs \in Seq(Objects), NEW t \in Threads
  PROVE  Took(x, AcquireAll(x, objs, t), [o \in Objects |-> MultiplicityIn(objs, o)], t)
<1> DEFINE n == Len(objs)
           G == [p \in Working \X (1 .. n) |-> Acquire(p[1], objs[p[2]], t)]
           Z == Working \X (0 .. n)
           Body(f) == [k \in 0 .. n |-> IF k = 0 THEN x ELSE Acquire(f[k - 1], objs[k], t)]
           K == Acquiring(x, objs, t)
<1>0. n \in Nat /\ \A k \in 1 .. n : objs[k] \in Objects
  OBVIOUS
<1> HIDE DEF n
<1>1. <<x, 0>> \in Z
  BY <1>0
<1>2. \A y \in Working, k \in 1 .. n : G[<<y, k>>] = Acquire(y, objs[k], t) /\ Acquire(y, objs[k], t) \in Working
  <2> TAKE y \in Working, k \in 1 .. n
  <2>1. objs[k] \in Objects
    BY <1>0
  <2> QED BY <2>1, AcquireIs
<1>3. \A k \in 1 .. n : \A y : <<y, k - 1>> \in Z => <<G[<<y, k>>], k>> \in Z
  <2> HIDE DEF G
  <2> QED BY <1>0, <1>2
<1>4. PICK f : Turns(f, n, x, G) /\ \A k \in 0 .. n : <<f[k], k>> \in Z
  <2> HIDE DEF G, Z
  <2> QED BY <1>0, <1>1, <1>3, LoopRuns
<1>5. f = Body(f)
  <2>1. \A k \in 0 .. n : f[k] = IF k = 0 THEN x ELSE G[<<f[k - 1], k>>]
    BY <1>4 DEF Turns
  <2>2. ASSUME NEW k \in 0 .. n PROVE f[k] = Body(f)[k]
    <3>1. CASE k = 0
      BY <2>1, <3>1
    <3>2. CASE k # 0
      <4>1. k \in 1 .. n /\ k - 1 \in 0 .. n
        BY <1>0, <3>2
      <4>2. f[k - 1] \in Working
        BY <1>4, <4>1
      <4> HIDE DEF G
      <4>3. f[k] = Acquire(f[k - 1], objs[k], t)
        BY <2>1, <1>2, <3>2, <4>1, <4>2
      <4> QED BY <4>3, <3>2
    <3> QED BY <3>1, <3>2
  <2>3. f = [k \in 0 .. n |-> f[k]]
    BY <1>4 DEF Turns
  <2>4. Body(f) = [k \in 0 .. n |-> Body(f)[k]]
    OBVIOUS
  <2> QED BY <2>2, <2>3, <2>4
<1>6. K = Body(K)
  <2>1. K = CHOOSE g : g = Body(g)
    BY DEF Acquiring, n
  <2> QED BY <1>5, <2>1
<1> HIDE DEF K
<1>7. K[0] = x /\ \A k \in 1 .. n : K[k] = Acquire(K[k - 1], objs[k], t)
  <2>1. \A k \in 0 .. n : K[k] = IF k = 0 THEN x ELSE Acquire(K[k - 1], objs[k], t)
    BY <1>6
  <2>2. 0 \in 0 .. n /\ \A i \in 1 .. n : i \in 0 .. n /\ i # 0
    BY <1>0
  <2> QED BY <2>1, <2>2
<1> DEFINE T == {k \in 0 .. n : Took(x, K[k], Among(objs, k), t)}
<1>8. 0 \in T
  <2>1. Took(x, x, Among(objs, 0), t)
    <3>1. \A o \in Objects : Among(objs, 0)[o] = 0 /\ x.ob[o].count \in Int /\ x.ob[o].recursion \in Int
      BY AmongFacts DEF Working, Obs
    <3> QED BY <3>1 DEF Took
  <2> QED BY <1>0, <1>7, <2>1
<1>9. ASSUME NEW k \in 1 .. n, k - 1 \in T PROVE k \in T
  <2>1. /\ Took(x, K[k - 1], Among(objs, k - 1), t) /\ K[k] = Acquire(K[k - 1], objs[k], t) /\ k \in 0 .. n
        /\ objs[k] \in Objects /\ Among(objs, k - 1) \in [Objects -> Nat]
        /\ Among(objs, k) = OneMore(Among(objs, k - 1), objs[k])
    <3>1. k \in 1 .. Len(objs) /\ k - 1 \in 0 .. Len(objs)
      BY <1>0 DEF n
    <3> QED BY <1>7, <1>9, <3>1, AmongFacts DEF n
  <2>2. Took(x, K[k], Among(objs, k), t)
    BY <2>1, AcquireTakes
  <2> QED BY <2>1, <2>2
<1>10. n \in T
  <2>1. \A k \in 0 .. n : k \in T
    <3> HIDE DEF T
    <3> QED BY <1>0, <1>8, <1>9, BoundedInduction
  <2> QED BY <1>0, <2>1
<1>11. Took(x, K[n], Among(objs, n), t) /\ K[n] = AcquireAll(x, objs, t)
  BY <1>10 DEF AcquireAll, n, K
<1>12. \A o \in Objects : Among(objs, n)[o] = MultiplicityIn(objs, o)
  BY AmongFacts DEF n
<1> QED BY <1>11, <1>12 DEF Took

-----------------------------------------------------------------------------
(* The working state of a step that signals, and the waits it grants. *)

\* t waits and nothing has been granted to it.
Pends(x, t) == x.desc[t] # None /\ x.desc[t].result = Pending

\* What the granted waits of x took of o.
Shares(x, o) == [t \in Threads |-> NamedTaken(x.desc[t], o)]
Flight(x, o) == Cardinality(Places(Shares(x, o)))

\* What an object has given away, told or not.
Balance(x, o) ==
  IF Kind[o] = "sem" THEN x.ob[o].count + Flight(x, o)
  ELSE IF Kind[o] = "mutant" THEN x.ob[o].recursion - Flight(x, o) ELSE 0

\* A granted wait owns the mutants it took, and WaitAny took one of its objects.
Held(x) == \A t \in Threads, o \in Mutants : NamedTaken(x.desc[t], o) # {} => x.ob[o].owner = t
Results(x) ==
  \A t \in Threads : x.desc[t] # None =>
    x.desc[t].result = Pending \/ x.desc[t].all \/ x.desc[t].result \in DOMAIN x.desc[t].objs

\* A step only grants waits: it makes none and ends none.
Follows(x) ==
  \A t \in Threads :
    /\ x.desc[t] = None <=> desc[t] = None
    /\ desc[t] # None => x.desc[t].objs = desc[t].objs /\ x.desc[t].all = desc[t].all
    /\ desc[t] # None /\ desc[t].result # Pending => x.desc[t] = desc[t]

Sound(x) == x \in Working /\ OwnedListed(x) /\ Held(x) /\ Results(x) /\ Follows(x)

\* y is x after grants: nothing is lost or invented, and nothing becomes signaled.
Gives(x, y) ==
  /\ \A o \in Objects : Rest(y, o) = Rest(x, o) /\ Balance(y, o) = Balance(x, o)
  /\ \A o \in Objects, u \in Threads : Signaled(y, o, u) => Signaled(x, o, u)
  /\ \A u \in Threads : Pends(y, u) => Pends(x, u)
  /\ \A o \in Objects : y.ob[o].owner # x.ob[o].owner =>
       x.ob[o].owner = None /\ y.ob[o].owner \in Threads /\ desc[y.ob[o].owner] # None

LEMMA GivesAll ==
  ASSUME NEW x, NEW y, NEW z, Gives(x, y), Gives(y, z), None \notin Threads
  PROVE  Gives(x, z)
BY DEF Gives

LEMMA GivesSame ==
  ASSUME NEW x PROVE Gives(x, x)
BY DEF Gives

\* A working state with the result of a wait, or the end of the loop, set.
PutResult(x, t, r) == [x EXCEPT !.desc[t].result = r]
WithResult(d, r) == [d EXCEPT !.result = r]
PutStop(x, b) == [x EXCEPT !.stop = b]

LEMMA ResultFacts ==
  ASSUME NEW x \in Working, NEW t \in Threads, x.desc[t] # None, NEW r \in Int
  PROVE  /\ PutResult(x, t, r) \in Working
         /\ PutResult(x, t, r).ob = x.ob /\ PutResult(x, t, r).owned = x.owned /\ PutResult(x, t, r).stop = x.stop
         /\ x.desc[t] \in Waits /\ PutResult(x, t, r).desc[t] = WithResult(x.desc[t], r)
         /\ \A u \in Threads : u # t => PutResult(x, t, r).desc[u] = x.desc[u]
<1> DEFINE d == [x.desc EXCEPT ![t].result = r]
           q == [x.desc[t] EXCEPT !.result = r]
<1>1. x.desc \in [Threads -> Waits \cup {None}] /\ x.desc[t] \in Waits
  BY DEF Working
<1>2. q \in Waits
  BY <1>1 DEF Waits
<1>3. d \in [Threads -> Waits \cup {None}] /\ d[t] = q /\ \A u \in Threads : u # t => d[u] = x.desc[u]
  <2>1. d = [x.desc EXCEPT ![t] = q]
    OBVIOUS
  <2> HIDE DEF q, d
  <2> QED BY <1>1, <1>2, <2>1
<1>4. PutResult(x, t, r) = [ob |-> x.ob, owned |-> x.owned, desc |-> d, stop |-> x.stop]
  <2>1. PutResult(x, t, r) = [x EXCEPT !.desc = d]
    BY DEF PutResult
  <2> HIDE DEF d
  <2> QED BY <2>1 DEF Working
<1>5. x.owned \in Seq(Mutants) /\ x.stop \in BOOLEAN /\ x.ob \in [Objects -> Obs]
  BY DEF Working
<1> HIDE DEF d
<1> QED BY <1>1, <1>3, <1>4, <1>5 DEF Working, WithResult

LEMMA StopFacts ==
  ASSUME NEW x \in Working, NEW b \in BOOLEAN
  PROVE  /\ PutStop(x, b) \in Working /\ PutStop(x, b).stop = b
         /\ PutStop(x, b).ob = x.ob /\ PutStop(x, b).owned = x.owned /\ PutStop(x, b).desc = x.desc
<1>4. PutStop(x, b) = [ob |-> x.ob, owned |-> x.owned, desc |-> x.desc, stop |-> b]
  BY DEF Working, PutStop
<1>5. x.owned \in Seq(Mutants) /\ x.ob \in [Objects -> Obs] /\ x.desc \in [Threads -> Waits \cup {None}]
  BY DEF Working
<1> QED BY <1>4, <1>5 DEF Working

\* The loop's end mark means nothing to the rest.
LEMMA StopGives ==
  ASSUME NEW x, Sound(x), NEW b \in BOOLEAN
  PROVE  Sound(PutStop(x, b)) /\ Gives(x, PutStop(x, b)) /\ \A u \in Threads : Pends(x, u) <=> Pends(PutStop(x, b), u)
<1> DEFINE y == PutStop(x, b)
<1>1. x \in Working
  BY DEF Sound
<1>2. y \in Working /\ y.ob = x.ob /\ y.owned = x.owned /\ y.desc = x.desc
  BY <1>1, StopFacts
<1> HIDE DEF y
<1>3. Sound(y)
  BY <1>2 DEF Sound, OwnedListed, Held, Results, Follows
<1>4. \A o \in Objects : Balance(y, o) = Balance(x, o) /\ Rest(y, o) = Rest(x, o)
  BY <1>2 DEF Balance, Flight, Shares, Rest
<1>5. \A o \in Objects, u \in Threads : Signaled(y, o, u) <=> Signaled(x, o, u)
  BY <1>2 DEF Signaled
<1> QED BY <1>2, <1>3, <1>4, <1>5 DEF y, Gives, Pends

LEMMA SharesFinite ==
  ASSUME NEW x \in Working, NEW o \in Objects, NEW t \in Threads
  PROVE  IsFiniteSet(NamedTaken(x.desc[t], o)) /\ IsFiniteSet(Shares(x, o)[t]) /\ Flight(x, o) \in Int
<1>1. ASSUME NEW u \in Threads PROVE IsFiniteSet(NamedTaken(x.desc[u], o)) /\ Shares(x, o)[u] = NamedTaken(x.desc[u], o)
  <2>1. CASE x.desc[u] = None
    BY <2>1, FS_EmptySet DEF NamedTaken, Shares
  <2>2. CASE x.desc[u] # None
    <3>1. x.desc[u].objs \in Seq(Objects)
      BY <2>2 DEF Working, Waits
    <3>2. NamedTaken(x.desc[u], o) \in SUBSET Named(x.desc[u].objs, o)
      BY DEF NamedTaken
    <3> QED BY <3>1, <3>2, NamedFinite, FS_Subset DEF Shares
  <2> QED BY <2>1, <2>2
<1>2. \A u \in Threads : IsFiniteSet(Shares(x, o)[u])
  BY <1>1
<1> QED BY <1>1, <1>2, PlacesFinite DEF Flight

\* What a thread may take does not make anything signaled.
LEMMA TakingFalls ==
  ASSUME NEW x \in Working, NEW y, NEW m \in [Objects -> Nat], NEW t \in Threads, Took(x, y, m, t),
         \A o \in Objects : m[o] > 0 => Signaled(x, o, t)
  PROVE  \A o \in Objects, u \in Threads : Signaled(y, o, u) => Signaled(x, o, u)
<1> SUFFICES ASSUME NEW o \in Objects, NEW u \in Threads, Signaled(y, o, u) PROVE Signaled(x, o, u)
  OBVIOUS
<1>1. /\ y.ob[o].count = x.ob[o].count - (IF Kind[o] = "sem" THEN m[o] ELSE 0)
      /\ y.ob[o].owner = (IF Kind[o] = "mutant" /\ m[o] > 0 THEN t ELSE x.ob[o].owner)
      /\ y.ob[o].signaled => x.ob[o].signaled
  BY DEF Took
<1>2. CASE Kind[o] = "sem"
  <2>1. x.ob[o].count \in Int /\ m[o] \in Nat
    BY DEF Working, Obs
  <2> QED BY <1>1, <1>2, <2>1, SignaledIs
<1>3. CASE Kind[o] = "mutant"
  <2>1. CASE m[o] > 0
    <3>1. t = u
      BY <1>1, <1>3, <2>1, SignaledIs, ThreadsFinite
    <3> QED BY <2>1, <3>1
  <2>2. CASE ~ (m[o] > 0)
    BY <1>1, <1>3, <2>2, SignaledIs
  <2> QED BY <2>1, <2>2
<1>4. CASE Kind[o] \notin {"sem", "mutant"}
  BY <1>1, <1>4, SignaledIs
<1> QED BY <1>2, <1>3, <1>4

\* One pending wait is granted what it asked for.
LEMMA GrantGives ==
  ASSUME NEW x, Sound(x), NEW t \in Threads, Pends(x, t), NEW take \in Seq(Objects), NEW r \in Int, r # Pending,
         x.desc[t].all \/ r \in DOMAIN x.desc[t].objs,
         \A i \in DOMAIN take : Signaled(x, take[i], t),
         \A o \in Objects : Cardinality(NamedTaken(WithResult(x.desc[t], r), o)) = MultiplicityIn(take, o)
  PROVE  LET y == PutResult(AcquireAll(x, take, t), t, r)
         IN  /\ Sound(y) /\ Gives(x, y) /\ y.stop = x.stop /\ y.ob = AcquireAll(x, take, t).ob
             /\ ~ Pends(y, t)
             /\ \A o \in Objects : o \in ToSet(take) /\ Kind[o] = "mutant" => y.ob[o].owner = t
<1> DEFINE m == [o \in Objects |-> MultiplicityIn(take, o)]
           a == AcquireAll(x, take, t)
           y == PutResult(a, t, r)
           d == x.desc[t]
           e == WithResult(d, r)
<1>1. x \in Working /\ OwnedListed(x) /\ Held(x) /\ Results(x) /\ Follows(x)
  BY DEF Sound
<1>2. m \in [Objects -> Nat] /\ \A o \in Objects : m[o] = MultiplicityIn(take, o) /\ (m[o] > 0 <=> Named(take, o) # {})
  BY NamedFinite
<1>3. Took(x, a, m, t)
  BY <1>1, AcquireAllTakes
<1> HIDE DEF m, a
<1>4. a \in Working /\ a.desc = x.desc /\ a.stop = x.stop /\ OwnedListed(a)
  BY <1>1, <1>3 DEF Took
<1>5. d # None /\ d.result = Pending /\ d \in Waits /\ d.objs \in Seq(Objects)
  BY <1>1 DEF Pends, Working, Waits
<1>6. /\ y \in Working /\ y.ob = a.ob /\ y.owned = a.owned /\ y.stop = x.stop
      /\ y.desc[t] = e /\ \A u \in Threads : u # t => y.desc[u] = x.desc[u]
  <2>1. a.desc[t] # None /\ a.desc[t] = d
    BY <1>4, <1>5
  <2> HIDE DEF d
  <2>2. /\ y \in Working /\ y.ob = a.ob /\ y.owned = a.owned /\ y.stop = a.stop
        /\ y.desc[t] = WithResult(a.desc[t], r)
        /\ \A u \in Threads : u # t => y.desc[u] = a.desc[u]
    BY <1>4, <2>1, ResultFacts
  <2> QED BY <1>4, <2>1, <2>2
<1>7. e \in Waits /\ e.objs = d.objs /\ e.all = d.all /\ e.result = r /\ e # None
  <2>1. e \in Waits /\ e.objs = d.objs /\ e.all = d.all /\ e.result = r
    BY <1>5 DEF Waits, WithResult
  <2> QED BY <2>1, ThreadsFinite
<1> HIDE DEF y, d, e
<1>8. \A o \in Objects : NamedTaken(x.desc[t], o) = {}
  BY <1>5 DEF NamedTaken, d
<1>9. \A o \in Objects : IsFiniteSet(NamedTaken(e, o)) /\ Cardinality(NamedTaken(e, o)) = m[o]
  <2> TAKE o \in Objects
  <2>1. IsFiniteSet(NamedTaken(y.desc[t], o))
    BY <1>6, SharesFinite
  <2> QED BY <1>2, <1>6, <2>1 DEF e, d
<1>10. \A o \in Objects : NamedTaken(e, o) # {} <=> m[o] > 0
  <2> TAKE o \in Objects
  <2>1. m[o] \in Nat /\ (m[o] = 0 <=> NamedTaken(e, o) = {})
    BY <1>2, <1>9, FS_EmptySet
  <2> QED BY <2>1
<1>11. \A o \in Objects : m[o] > 0 => Signaled(x, o, t)
  <2> TAKE o \in Objects
  <2>1. Named(take, o) # {} => \E i \in DOMAIN take : take[i] = o
    BY DEF Named
  <2> QED BY <1>2, <2>1
<1>12. \A o \in Objects : o \in ToSet(take) => m[o] > 0
  BY <1>2 DEF ToSet, Named
<1>13. \A o \in Objects : y.ob[o].owner = IF Kind[o] = "mutant" /\ m[o] > 0 THEN t ELSE x.ob[o].owner
  BY <1>3, <1>6 DEF Took
<1>14. \A o \in Objects : Flight(y, o) = Flight(x, o) + m[o]
  <2> TAKE o \in Objects
  <2>1. \A u \in Threads : IsFiniteSet(Shares(x, o)[u]) /\ IsFiniteSet(Shares(y, o)[u])
                           /\ (u # t => Shares(x, o)[u] = Shares(y, o)[u])
    <3> TAKE u \in Threads
    <3>1. u # t => Shares(x, o)[u] = Shares(y, o)[u]
      BY <1>6 DEF Shares
    <3> QED BY <1>1, <1>6, <3>1, SharesFinite
  <2>2. Flight(y, o) = Flight(x, o) - Cardinality(Shares(x, o)[t]) + Cardinality(Shares(y, o)[t])
    BY <2>1, ShareChanges DEF Flight
  <2>3. Cardinality(Shares(x, o)[t]) = 0 /\ Cardinality(Shares(y, o)[t]) = m[o]
    BY <1>6, <1>8, <1>9, FS_EmptySet DEF Shares
  <2>4. Flight(x, o) \in Int /\ m[o] \in Nat
    BY <1>1, <1>2, SharesFinite
  <2> QED BY <2>2, <2>3, <2>4
<1>15. \A o \in Objects : Balance(y, o) = Balance(x, o) /\ Rest(y, o) = Rest(x, o)
  <2> TAKE o \in Objects
  <2>1. /\ Rest(a, o) = Rest(x, o)
        /\ a.ob[o].count = x.ob[o].count - (IF Kind[o] = "sem" THEN m[o] ELSE 0)
        /\ a.ob[o].recursion = x.ob[o].recursion + (IF Kind[o] = "mutant" THEN m[o] ELSE 0)
    BY <1>3 DEF Took
  <2>2. x.ob[o].count \in Int /\ x.ob[o].recursion \in Int /\ m[o] \in Nat /\ Flight(x, o) \in Int
    BY <1>1, <1>2, SharesFinite DEF Working, Obs
  <2>3. Rest(y, o) = Rest(x, o)
    BY <1>6, <2>1 DEF Rest
  <2>5. y.ob[o].count = a.ob[o].count /\ y.ob[o].recursion = a.ob[o].recursion /\ Flight(y, o) = Flight(x, o) + m[o]
    BY <1>6, <1>14
  <2>6. Kind[o] = "sem" => y.ob[o].count + Flight(y, o) = x.ob[o].count + Flight(x, o)
    BY <2>1, <2>2, <2>5
  <2>7. Kind[o] = "mutant" => y.ob[o].recursion - Flight(y, o) = x.ob[o].recursion - Flight(x, o)
    BY <2>1, <2>2, <2>5
  <2>4. Balance(y, o) = Balance(x, o)
    BY <2>6, <2>7 DEF Balance
  <2> QED BY <2>3, <2>4
<1>16. \A o \in Objects, u \in Threads : Signaled(y, o, u) => Signaled(x, o, u)
  <2>1. \A o \in Objects, u \in Threads : Signaled(a, o, u) => Signaled(x, o, u)
    BY <1>1, <1>2, <1>3, <1>11, TakingFalls
  <2>2. \A o \in Objects, u \in Threads : Signaled(a, o, u) <=> Signaled(y, o, u)
    BY <1>6 DEF Signaled
  <2> QED BY <2>1, <2>2
<1>17. \A o \in Objects : y.ob[o].owner # x.ob[o].owner =>
         x.ob[o].owner = None /\ y.ob[o].owner \in Threads /\ desc[y.ob[o].owner] # None
  <2> SUFFICES ASSUME NEW o \in Objects, y.ob[o].owner # x.ob[o].owner
               PROVE  x.ob[o].owner = None /\ y.ob[o].owner \in Threads /\ desc[y.ob[o].owner] # None
    OBVIOUS
  <2>1. Kind[o] = "mutant" /\ m[o] > 0 /\ y.ob[o].owner = t
    BY <1>13
  <2>2. x.ob[o].owner = None
    BY <1>11, <2>1, SignaledIs
  <2>3. desc[t] # None
    BY <1>1, <1>5 DEF Follows, d
  <2> QED BY <2>1, <2>2, <2>3
<1>18. \A u \in Threads : Pends(y, u) => Pends(x, u)
  BY <1>5, <1>6 DEF Pends, d
<1>19. Gives(x, y)
  BY <1>15, <1>16, <1>17, <1>18 DEF Gives
<1>20. OwnedListed(y)
  BY <1>4, <1>6 DEF OwnedListed
<1>21. Held(y)
  <2> SUFFICES ASSUME NEW u \in Threads, NEW o \in Mutants, NamedTaken(y.desc[u], o) # {} PROVE y.ob[o].owner = u
    BY DEF Held
  <2>1. o \in Objects /\ Kind[o] = "mutant"
    BY DEF Mutants
  <2>2. CASE u = t
    <3>1. m[o] > 0
      BY <1>6, <1>10, <2>1, <2>2
    <3> QED BY <1>13, <2>1, <2>2, <3>1
  <2>3. CASE u # t
    <3>1. x.ob[o].owner = u
      BY <1>1, <1>6, <2>3 DEF Held
    <3>2. ~ (m[o] > 0)
      BY <1>11, <2>1, <2>3, <3>1, SignaledIs, ThreadsFinite
    <3> QED BY <1>13, <2>1, <3>1, <3>2
  <2> QED BY <2>2, <2>3
<1>22. Results(y)
  <2> SUFFICES ASSUME NEW u \in Threads, y.desc[u] # None
               PROVE  y.desc[u].result = Pending \/ y.desc[u].all \/ y.desc[u].result \in DOMAIN y.desc[u].objs
    BY DEF Results
  <2>1. CASE u = t
    BY <1>6, <1>7, <2>1 DEF d
  <2>2. CASE u # t
    BY <1>1, <1>6, <2>2 DEF Results
  <2> QED BY <2>1, <2>2
<1>23. Follows(y)
  <2> SUFFICES ASSUME NEW u \in Threads
               PROVE  /\ y.desc[u] = None <=> desc[u] = None
                      /\ desc[u] # None => y.desc[u].objs = desc[u].objs /\ y.desc[u].all = desc[u].all
                      /\ desc[u] # None /\ desc[u].result # Pending => y.desc[u] = desc[u]
    BY DEF Follows
  <2>0. /\ x.desc[u] = None <=> desc[u] = None
        /\ desc[u] # None => x.desc[u].objs = desc[u].objs /\ x.desc[u].all = desc[u].all
        /\ desc[u] # None /\ desc[u].result # Pending => x.desc[u] = desc[u]
    BY <1>1 DEF Follows
  <2>1. CASE u = t
    BY <1>5, <1>6, <1>7, <2>0, <2>1 DEF d
  <2>2. CASE u # t
    BY <1>6, <2>0, <2>2
  <2> QED BY <2>1, <2>2
<1>24. ~ Pends(y, t)
  BY <1>6, <1>7 DEF Pends
<1>25. Sound(y)
  BY <1>6, <1>20, <1>21, <1>22, <1>23 DEF Sound
<1>26. \A o \in Objects : o \in ToSet(take) /\ Kind[o] = "mutant" => y.ob[o].owner = t
  BY <1>12, <1>13
<1> QED BY <1>6, <1>19, <1>24, <1>25, <1>26 DEF y, a

-----------------------------------------------------------------------------
(* ob_release_check leaves no wait that could be satisfied. *)

\* u could stop waiting; nobody could.
Wakes(x, u) == Satisfiable(x, x.desc[u].objs, x.desc[u].all, u)
Calm(x) == \A u \in Threads : Pends(x, u) => ~ Wakes(x, u)

\* Whoever could run could do so because of o.
CalmBut(x, o) ==
  \A u \in Threads : Pends(x, u) /\ Wakes(x, u) =>
    IF x.desc[u].all THEN o \in ToSet(x.desc[u].objs)
    ELSE \A i \in DOMAIN x.desc[u].objs : Signaled(x, x.desc[u].objs[i], u) => x.desc[u].objs[i] = o

\* u was offered o and its wait goes on.
Refused(x, o, u) ==
  Pends(x, u) => IF x.desc[u].all THEN ~ Wakes(x, u) ELSE ~ Signaled(x, o, u)

LEMMA ObjsOfWait ==
  ASSUME NEW x, Sound(x), NEW u \in Threads, Pends(x, u)
  PROVE  /\ x.desc[u].objs \in Seq(Objects) /\ x.desc[u].all \in BOOLEAN /\ x.desc[u] \in Waits
         /\ \A i \in DOMAIN x.desc[u].objs : x.desc[u].objs[i] \in Objects
         /\ desc[u] # None /\ desc[u].objs = x.desc[u].objs /\ desc[u].all = x.desc[u].all /\ desc[u].result = Pending
<1>1. x.desc[u] \in Waits /\ x.desc[u] # None
  BY DEF Sound, Working, Pends
<1>2. x.desc[u].objs \in Seq(Objects) /\ x.desc[u].all \in BOOLEAN
  BY <1>1 DEF Waits
<1>3. \A i \in DOMAIN x.desc[u].objs : x.desc[u].objs[i] \in Objects
  BY <1>2
<1>4. desc[u] # None /\ desc[u].objs = x.desc[u].objs /\ desc[u].all = x.desc[u].all
  BY <1>1 DEF Sound, Follows
<1>5. desc[u].result = Pending
  BY <1>1, <1>4 DEF Sound, Follows, Pends
<1> QED BY <1>1, <1>2, <1>3, <1>4, <1>5

LEMMA WakesFalls ==
  ASSUME NEW x, NEW y, Sound(x), Sound(y), Gives(x, y), NEW u \in Threads, Pends(y, u)
  PROVE  /\ Pends(x, u) /\ y.desc[u].objs = x.desc[u].objs /\ y.desc[u].all = x.desc[u].all
         /\ Wakes(y, u) => Wakes(x, u)
         /\ \A i \in DOMAIN y.desc[u].objs : Signaled(y, y.desc[u].objs[i], u) => Signaled(x, x.desc[u].objs[i], u)
<1>1. Pends(x, u)
  BY DEF Gives
<1>2. y.desc[u].objs = x.desc[u].objs /\ y.desc[u].all = x.desc[u].all
      /\ \A i \in DOMAIN y.desc[u].objs : y.desc[u].objs[i] \in Objects
  BY <1>1, ObjsOfWait
<1>3. \A i \in DOMAIN y.desc[u].objs : Signaled(y, y.desc[u].objs[i], u) => Signaled(x, x.desc[u].objs[i], u)
  BY <1>2 DEF Gives
<1> QED BY <1>1, <1>2, <1>3 DEF Wakes, Satisfiable

LEMMA CalmFalls ==
  ASSUME NEW x, NEW y, Sound(x), Sound(y), Gives(x, y)
  PROVE  /\ Calm(x) => Calm(y)
         /\ \A o \in Objects : CalmBut(x, o) => CalmBut(y, o)
         /\ \A o \in Objects, u \in Threads : Refused(x, o, u) => Refused(y, o, u)
<1>1. Calm(x) => Calm(y)
  BY WakesFalls DEF Calm
<1>2. ASSUME NEW o \in Objects, CalmBut(x, o) PROVE CalmBut(y, o)
  <2> SUFFICES ASSUME NEW u \in Threads, Pends(y, u), Wakes(y, u)
               PROVE  IF y.desc[u].all THEN o \in ToSet(y.desc[u].objs)
                      ELSE \A i \in DOMAIN y.desc[u].objs : Signaled(y, y.desc[u].objs[i], u) => y.desc[u].objs[i] = o
    BY DEF CalmBut
  <2>1. Pends(x, u) /\ y.desc[u].objs = x.desc[u].objs /\ y.desc[u].all = x.desc[u].all /\ Wakes(x, u)
        /\ \A i \in DOMAIN y.desc[u].objs : Signaled(y, y.desc[u].objs[i], u) => Signaled(x, x.desc[u].objs[i], u)
    BY WakesFalls
  <2> QED BY <1>2, <2>1 DEF CalmBut
<1>3. ASSUME NEW o \in Objects, NEW u \in Threads, Refused(x, o, u) PROVE Refused(y, o, u)
  <2> SUFFICES ASSUME Pends(y, u) PROVE IF y.desc[u].all THEN ~ Wakes(y, u) ELSE ~ Signaled(y, o, u)
    BY DEF Refused
  <2>1. Pends(x, u) /\ y.desc[u].all = x.desc[u].all /\ (Wakes(y, u) => Wakes(x, u))
    BY WakesFalls
  <2>2. Signaled(y, o, u) => Signaled(x, o, u)
    BY DEF Gives
  <2> QED BY <1>3, <2>1, <2>2 DEF Refused
<1> QED BY <1>1, <1>2, <1>3

\* One turn of the loop.
LEMMA OfferGives ==
  ASSUME NEW x, Sound(x), NEW o \in Objects, NEW t \in Threads, NEW index \in Nat,
         desc[t] # None => index \in DOMAIN desc[t].objs /\ desc[t].objs[index] = o
  PROVE  LET y == Offer(x, o, t, index)
         IN  /\ Sound(y) /\ Gives(x, y)
             /\ x.stop => y = x
             /\ ~ x.stop => Refused(y, o, t)
             /\ ~ x.stop /\ y.stop => \A u \in Threads : ~ Signaled(y, o, u)
<1> DEFINE d == x.desc[t]
           take == IF d.all THEN d.objs ELSE <<o>>
           after == AcquireAll(x, take, t)
           r == IF d.all THEN 1 ELSE index
           ready == IF d.all THEN Satisfiable(x, d.objs, TRUE, t) ELSE Signaled(x, o, t)
           b == ~ d.all /\ ~ Signaled(after, o, t) /\ Kind[o] # "thread"
           z == PutResult(after, t, r)
           y == Offer(x, o, t, index)
<1>1. y = IF x.stop \/ d = None \/ d.result # Pending \/ ~ ready THEN x ELSE PutStop(z, b)
  BY DEF Offer, PutResult, PutStop
<1> HIDE DEF y
<1>2. CASE x.stop \/ ~ Pends(x, t)
  <2>1. y = x
    BY <1>1, <1>2 DEF Pends
  <2>2. ~ x.stop => Refused(y, o, t)
    BY <1>2, <2>1 DEF Refused
  <2> QED BY <2>1, <2>2, GivesSame DEF y
<1>3. CASE ~ x.stop /\ Pends(x, t) /\ ~ ready
  <2>1. y = x
    BY <1>1, <1>3
  <2>2. Refused(y, o, t)
    BY <1>3, <2>1 DEF Refused, Wakes
  <2> QED BY <1>3, <2>1, <2>2, GivesSame DEF y
<1>4. CASE ~ x.stop /\ Pends(x, t) /\ ready
  <2>1. y = PutStop(z, b) /\ b \in BOOLEAN
    BY <1>1, <1>4 DEF Pends
  <2>2. /\ d.objs \in Seq(Objects) /\ d.all \in BOOLEAN /\ d \in Waits
        /\ index \in DOMAIN d.objs /\ d.objs[index] = o
    BY <1>4, ObjsOfWait
  <2>3. take \in Seq(Objects) /\ r \in Int /\ r # Pending /\ (d.all \/ r \in DOMAIN d.objs)
    BY <2>2 DEF Pending
  <2>4. \A i \in DOMAIN take : Signaled(x, take[i], t)
    BY <1>4 DEF Satisfiable
  <2>5. \A p \in Objects : Cardinality(NamedTaken(WithResult(d, r), p)) = MultiplicityIn(take, p)
    <3> TAKE p \in Objects
    <3> DEFINE e == WithResult(d, r)
    <3>1. e.objs = d.objs /\ e.all = d.all /\ e.result = r /\ e \in Waits
      BY <2>2, <2>3 DEF WithResult, Waits
    <3> HIDE DEF e
    <3>2. e # None
      BY <3>1, ThreadsFinite
    <3>3. CASE d.all
      <4>1. NamedTaken(e, p) = Named(take, p)
        BY <2>3, <3>1, <3>2, <3>3 DEF NamedTaken
      <4> QED BY <4>1 DEF MultiplicityIn, e
    <3>4. CASE ~ d.all
      <4>1. NamedTaken(e, p) = IF p = o THEN {index} ELSE {}
        BY <2>2, <2>3, <3>1, <3>2, <3>4 DEF NamedTaken, Named
      <4>2. take = <<o>> /\ Named(<<o>>, p) = IF p = o THEN {1} ELSE {}
        BY <3>4 DEF Named
      <4> QED BY ZenonT(40), <4>1, <4>2, FS_Singleton, FS_EmptySet DEF MultiplicityIn, e
    <3> QED BY <2>2, <3>3, <3>4
  <2> HIDE DEF take, r, b
  <2>6. /\ Sound(z) /\ Gives(x, z) /\ z.stop = x.stop /\ z.ob = after.ob /\ ~ Pends(z, t)
        /\ \A p \in Objects : p \in ToSet(take) /\ Kind[p] = "mutant" => z.ob[p].owner = t
    BY <1>4, <2>3, <2>4, <2>5, GrantGives
  <2> HIDE DEF z
  <2>7. z \in Working
    BY <2>6 DEF Sound
  <2>8. Sound(y) /\ Gives(z, y) /\ ~ Pends(y, t) /\ y.stop = b /\ y.ob = z.ob
    BY <2>1, <2>6, <2>7, StopGives, StopFacts
  <2>9. Gives(x, y)
    BY <2>6, <2>8, GivesAll, ThreadsFinite
  <2>10. Refused(y, o, t)
    BY <2>8 DEF Refused
  <2>11. ASSUME y.stop, NEW u \in Threads PROVE ~ Signaled(y, o, u)
    <3>1. ~ d.all /\ ~ Signaled(after, o, t)
      BY <2>8, <2>11 DEF b
    <3>2. ~ Signaled(y, o, t)
      BY <2>6, <2>8, <3>1 DEF Signaled
    <3>3. o \in ToSet(take)
      BY <3>1 DEF take, ToSet
    <3>4. Kind[o] # "mutant"
      BY <2>6, <2>8, <3>2, <3>3, SignaledIs
    <3> QED BY <3>2, <3>4, SignaledIs
  <2> QED BY <1>4, <2>8, <2>9, <2>10, <2>11 DEF y
<1> QED BY <1>2, <1>3, <1>4

\* The list of o is that of the pending waits that name it.
BlocksKnown(o) ==
  /\ waiters[o] \in Seq(Threads \X Nat)
  /\ \A k \in DOMAIN waiters[o] :
       LET b == waiters[o][k] IN desc[b[1]] # None /\ b[2] \in DOMAIN desc[b[1]].objs /\ desc[b[1]].objs[b[2]] = o
  /\ \A u \in Threads : desc[u] # None /\ desc[u].result = Pending /\ o \in ToSet(desc[u].objs) =>
       \E k \in DOMAIN waiters[o] : waiters[o][k][1] = u

LEMMA ReleaseCheckGives ==
  ASSUME NEW s, Sound(s), NEW o \in Objects, BlocksKnown(o), CalmBut(s, o), s.stop = FALSE
  PROVE  LET y == ReleaseCheck(s, o) IN Sound(y) /\ Gives(s, y) /\ Calm(y) /\ y.stop = FALSE
<1> DEFINE n == Len(waiters[o])
           w(k) == waiters[o][k][1]
           i(k) == waiters[o][k][2]
           G == [p \in Working \X (1 .. n) |-> Offer(p[1], o, w(p[2]), i(p[2]))]
           Z == {p \in Working \X (0 .. n) : Sound(p[1])}
           Body(f) == [k \in 0 .. n |-> IF k = 0 THEN s ELSE Offer(f[k - 1], o, waiters[o][k][1], waiters[o][k][2])]
           K == Offering(s, o)
<1>0. /\ n \in Nat /\ DOMAIN waiters[o] = 1 .. n
      /\ \A k \in 1 .. n : w(k) \in Threads /\ i(k) \in Nat /\ (desc[w(k)] # None => i(k) \in DOMAIN desc[w(k)].objs /\ desc[w(k)].objs[i(k)] = o)
  <2>1. waiters[o] \in Seq(Threads \X Nat) /\ n \in Nat /\ DOMAIN waiters[o] = 1 .. n
    BY DEF BlocksKnown
  <2>2. \A k \in 1 .. n : waiters[o][k] \in Threads \X Nat
    BY <2>1
  <2> QED BY <2>1, <2>2 DEF BlocksKnown
<1> HIDE DEF n
<1>1. \A y \in Working, k \in 1 .. n : G[<<y, k>>] = Offer(y, o, w(k), i(k))
  OBVIOUS
<1>2. ASSUME NEW y, Sound(y), NEW k \in 1 .. n
      PROVE  /\ Sound(Offer(y, o, w(k), i(k))) /\ Gives(y, Offer(y, o, w(k), i(k)))
             /\ y.stop => Offer(y, o, w(k), i(k)) = y
             /\ ~ y.stop => Refused(Offer(y, o, w(k), i(k)), o, w(k))
             /\ ~ y.stop /\ Offer(y, o, w(k), i(k)).stop => \A u \in Threads : ~ Signaled(Offer(y, o, w(k), i(k)), o, u)
  <2>1. w(k) \in Threads /\ i(k) \in Nat /\ (desc[w(k)] # None => i(k) \in DOMAIN desc[w(k)].objs /\ desc[w(k)].objs[i(k)] = o)
    BY <1>0
  <2> HIDE DEF w, i
  <2> QED BY <1>2, <2>1, OfferGives
<1> HIDE DEF w, i, G
<1>3. <<s, 0>> \in Z
  BY <1>0 DEF Sound
<1>4. \A k \in 1 .. n : \A y : <<y, k - 1>> \in Z => <<G[<<y, k>>], k>> \in Z
  <2> TAKE k \in 1 .. n
  <2> TAKE y
  <2> SUFFICES ASSUME <<y, k - 1>> \in Z PROVE <<G[<<y, k>>], k>> \in Z
    OBVIOUS
  <2>1. y \in Working /\ Sound(y) /\ k \in 0 .. n
    BY <1>0
  <2>2. G[<<y, k>>] = Offer(y, o, w(k), i(k)) /\ Sound(Offer(y, o, w(k), i(k)))
    BY <1>1, <1>2, <2>1
  <2>3. Offer(y, o, w(k), i(k)) \in Working
    BY <2>2 DEF Sound
  <2> QED BY <2>1, <2>2, <2>3
<1>5. PICK f : Turns(f, n, s, G) /\ \A k \in 0 .. n : <<f[k], k>> \in Z
  <2> HIDE DEF Z
  <2> QED BY <1>0, <1>3, <1>4, LoopRuns
<1>6. f = Body(f)
  <2>1. \A k \in 0 .. n : f[k] = IF k = 0 THEN s ELSE G[<<f[k - 1], k>>]
    BY <1>5 DEF Turns
  <2>2. ASSUME NEW k \in 0 .. n PROVE f[k] = Body(f)[k]
    <3>1. CASE k = 0
      BY <2>1, <3>1
    <3>2. CASE k # 0
      <4>1. k \in 1 .. n /\ k - 1 \in 0 .. n
        BY <1>0, <3>2
      <4>2. f[k - 1] \in Working
        BY <1>5, <4>1
      <4>3. f[k] = Offer(f[k - 1], o, w(k), i(k))
        BY <2>1, <1>1, <3>2, <4>1, <4>2
      <4> QED BY <4>3, <3>2 DEF w, i
    <3> QED BY <3>1, <3>2
  <2>3. f = [k \in 0 .. n |-> f[k]]
    BY <1>5 DEF Turns
  <2>4. Body(f) = [k \in 0 .. n |-> Body(f)[k]]
    OBVIOUS
  <2> QED BY <2>2, <2>3, <2>4
<1>7. K = Body(K)
  <2>1. K = CHOOSE g : g = Body(g)
    BY DEF Offering, n
  <2> QED BY <1>6, <2>1
<1> HIDE DEF K
<1>8. K[0] = s /\ \A k \in 1 .. n : K[k] = Offer(K[k - 1], o, w(k), i(k))
  <2>1. \A k \in 0 .. n : K[k] = IF k = 0 THEN s ELSE Offer(K[k - 1], o, w(k), i(k))
    BY <1>7 DEF w, i
  <2>2. 0 \in 0 .. n /\ \A j \in 1 .. n : j \in 0 .. n /\ j # 0
    BY <1>0
  <2> QED BY <2>1, <2>2
<1> DEFINE P(k) == /\ Sound(K[k]) /\ Gives(s, K[k])
                   /\ K[k].stop => \A u \in Threads : ~ Signaled(K[k], o, u)
                   /\ ~ K[k].stop => \A j \in 1 .. k : Refused(K[k], o, w(j))
           T == {k \in 0 .. n : P(k)}
<1>9. 0 \in T
  <2>1. P(0)
    BY <1>8, GivesSame
  <2> HIDE DEF P
  <2> QED BY <1>0, <2>1
<1>10. ASSUME NEW k \in 1 .. n, k - 1 \in T PROVE k \in T
  <2> DEFINE x == K[k - 1]
             y == K[k]
  <2>1. P(k - 1) /\ k \in 0 .. n
    BY <1>10
  <2>2. /\ Sound(y) /\ Gives(x, y)
        /\ x.stop => y = x
        /\ ~ x.stop => Refused(y, o, w(k))
        /\ ~ x.stop /\ y.stop => \A u \in Threads : ~ Signaled(y, o, u)
    BY <1>2, <1>8, <2>1
  <2>3. Gives(s, y)
    BY <2>1, <2>2, GivesAll, ThreadsFinite
  <2>4. P(k)
    <3>1. CASE x.stop
      BY <2>1, <2>2, <3>1
    <3>2. CASE ~ x.stop
      <4>1. \A j \in 1 .. k - 1 : Refused(y, o, w(j))
        <5> TAKE j \in 1 .. k - 1
        <5>1. Refused(x, o, w(j))
          BY <2>1, <3>2
        <5>2. w(j) \in Threads
          <6>1. j \in 1 .. n
            BY <1>0
          <6> QED BY <1>0, <6>1
        <5> HIDE DEF x, y
        <5> QED BY <2>1, <2>2, <5>1, <5>2, CalmFalls DEF x
      <4>2. \A j \in 1 .. k : j \in 1 .. k - 1 \/ j = k
        BY <1>0
      <4> QED BY <2>2, <2>3, <3>2, <4>1, <4>2
    <3> QED BY <3>1, <3>2
  <2> HIDE DEF P
  <2> QED BY <2>1, <2>4
<1>11. P(n)
  <2>1. \A k \in 0 .. n : k \in T
    <3> HIDE DEF T
    <3> QED BY <1>0, <1>9, <1>10, BoundedInduction
  <2> QED BY <1>0, <2>1
<1> DEFINE e == K[n]
           y == PutStop(e, FALSE)
<1>12. y = ReleaseCheck(s, o)
  BY DEF ReleaseCheck, PutStop, K, n
<1>13. /\ Sound(e) /\ Gives(s, e) /\ e \in Working
       /\ e.stop => \A u \in Threads : ~ Signaled(e, o, u)
       /\ ~ e.stop => \A j \in 1 .. n : Refused(e, o, w(j))
  BY <1>11 DEF Sound
<1> HIDE DEF e, y
<1>14. CalmBut(e, o)
  BY <1>13, CalmFalls
<1>15. Calm(e)
  <2> SUFFICES ASSUME NEW u \in Threads, Pends(e, u), Wakes(e, u) PROVE FALSE
    BY DEF Calm
  <2> DEFINE d == e.desc[u]
  <2>1. /\ desc[u] # None /\ desc[u].objs = d.objs /\ desc[u].result = Pending /\ d.all \in BOOLEAN
    BY <1>13, ObjsOfWait
  <2>2. IF d.all THEN o \in ToSet(d.objs) ELSE \A j \in DOMAIN d.objs : Signaled(e, d.objs[j], u) => d.objs[j] = o
    BY <1>14 DEF CalmBut
  <2>3. PICK j \in DOMAIN d.objs : d.objs[j] = o /\ Signaled(e, o, u)
    <3>1. CASE d.all
      <4>1. PICK j \in DOMAIN d.objs : d.objs[j] = o
        BY <2>2, <3>1 DEF ToSet
      <4> QED BY <3>1, <4>1 DEF Wakes, Satisfiable
    <3>2. CASE ~ d.all
      <4>1. PICK j \in DOMAIN d.objs : Signaled(e, d.objs[j], u)
        BY <3>2 DEF Wakes, Satisfiable
      <4> QED BY <2>2, <3>2, <4>1
    <3> QED BY <2>1, <3>1, <3>2
  <2>4. ~ e.stop
    BY <1>13, <2>3
  <2>5. PICK k \in 1 .. n : w(k) = u
    <3>1. o \in ToSet(desc[u].objs)
      BY <2>1, <2>3 DEF ToSet
    <3> QED BY <1>0, <2>1, <3>1 DEF BlocksKnown, w
  <2>6. Refused(e, o, u)
    BY <1>13, <2>4, <2>5
  <2> QED BY <2>3, <2>6 DEF Refused
<1>16. Sound(y) /\ Gives(e, y) /\ y.stop = FALSE
  BY <1>13, StopGives, StopFacts DEF y
<1>17. Calm(y)
  BY <1>13, <1>15, <1>16, CalmFalls
<1>18. Gives(s, y)
  BY <1>13, <1>16, GivesAll, ThreadsFinite
<1> QED BY <1>12, <1>16, <1>17, <1>18

\* One object is changed and nothing else: what its waiters are then offered.
LEMMA AlterFacts ==
  ASSUME NEW x, Sound(x), NEW y \in Working, NEW o \in Objects, y.desc = x.desc,
         \A p \in Objects : p # o => y.ob[p] = x.ob[p]
  PROVE  /\ Results(y) /\ Follows(y)
         /\ \A p \in Objects : Flight(y, p) = Flight(x, p)
         /\ \A p \in Objects : p # o => Balance(y, p) = Balance(x, p) /\ Rest(y, p) = Rest(x, p)
         /\ Calm(x) => CalmBut(y, o)
         /\ Calm(x) /\ (\A u \in Threads : Signaled(y, o, u) => Signaled(x, o, u)) => Calm(y)
         /\ y.ob[o].owner = x.ob[o].owner /\ y.owned = x.owned => Sound(y)
<1>1. Results(y) /\ Follows(y)
  BY DEF Sound, Results, Follows
<1>2. \A p \in Objects : Flight(y, p) = Flight(x, p)
  BY DEF Flight, Shares
<1>3. \A p \in Objects : p # o => Balance(y, p) = Balance(x, p) /\ Rest(y, p) = Rest(x, p)
  BY <1>2 DEF Balance, Rest
<1>4. \A p \in Objects, u \in Threads : p # o => (Signaled(y, p, u) <=> Signaled(x, p, u))
  BY DEF Signaled
<1>5. ASSUME Calm(x) PROVE CalmBut(y, o)
  <2> SUFFICES ASSUME NEW u \in Threads, Pends(y, u), Wakes(y, u)
               PROVE  IF y.desc[u].all THEN o \in ToSet(y.desc[u].objs)
                      ELSE \A i \in DOMAIN y.desc[u].objs : Signaled(y, y.desc[u].objs[i], u) => y.desc[u].objs[i] = o
    BY DEF CalmBut
  <2>1. Pends(x, u) /\ ~ Wakes(x, u)
    BY <1>5 DEF Pends, Calm
  <2> DEFINE d == x.desc[u]
  <2>2. \A i \in DOMAIN d.objs : d.objs[i] \in Objects
    BY <2>1, ObjsOfWait
  <2>3. y.desc[u] = d
    OBVIOUS
  <2> HIDE DEF d
  <2>4. CASE d.all
    <3>1. PICK i \in DOMAIN d.objs : ~ Signaled(x, d.objs[i], u)
      BY <2>1, <2>4 DEF Wakes, Satisfiable, d
    <3>2. Signaled(y, d.objs[i], u)
      BY <2>3, <2>4, <3>1 DEF Wakes, Satisfiable
    <3>3. d.objs[i] = o
      BY <1>4, <2>2, <3>1, <3>2
    <3> QED BY <2>3, <2>4, <3>3 DEF ToSet
  <2>5. CASE ~ d.all
    <3>1. \A i \in DOMAIN d.objs : ~ Signaled(x, d.objs[i], u)
      BY <2>1, <2>5 DEF Wakes, Satisfiable, d
    <3> QED BY <1>4, <2>2, <2>3, <2>5, <3>1
  <2> QED BY <2>4, <2>5
<1>6. ASSUME Calm(x), \A u \in Threads : Signaled(y, o, u) => Signaled(x, o, u) PROVE Calm(y)
  <2> SUFFICES ASSUME NEW u \in Threads, Pends(y, u), Wakes(y, u) PROVE FALSE
    BY DEF Calm
  <2>1. Pends(x, u) /\ ~ Wakes(x, u)
    BY <1>6 DEF Pends, Calm
  <2>2. \A i \in DOMAIN x.desc[u].objs : x.desc[u].objs[i] \in Objects
    BY <2>1, ObjsOfWait
  <2>3. \A i \in DOMAIN x.desc[u].objs : Signaled(y, x.desc[u].objs[i], u) => Signaled(x, x.desc[u].objs[i], u)
    BY <1>4, <1>6, <2>2
  <2> QED BY <2>1, <2>3 DEF Wakes, Satisfiable
<1>7. ASSUME y.ob[o].owner = x.ob[o].owner, y.owned = x.owned PROVE Sound(y)
  <2>1. \A p \in Objects : y.ob[p].owner = x.ob[p].owner
    BY <1>7
  <2>2. OwnedListed(y)
    BY <1>7, <2>1 DEF Sound, OwnedListed
  <2>3. Held(y)
    <3>1. \A p \in Mutants : p \in Objects
      BY DEF Mutants
    <3> QED BY <2>1, <3>1 DEF Sound, Held
  <2> QED BY <1>1, <2>2, <2>3 DEF Sound
<1> QED BY <1>1, <1>2, <1>3, <1>5, <1>6, <1>7

LEMMA DerefIs ==
  ASSUME NEW x \in Working, NEW o \in Objects
  PROVE  LET y == Deref(x, o)
         IN  /\ y \in Working /\ y.desc = x.desc /\ y.stop = x.stop /\ y.owned = x.owned
             /\ \A p \in Objects : p # o => y.ob[p] = x.ob[p]
             /\ y.ob[o].refs = x.ob[o].refs - 1
             /\ y.ob[o].owner = x.ob[o].owner /\ y.ob[o].count = x.ob[o].count
             /\ y.ob[o].recursion = x.ob[o].recursion /\ y.ob[o].signaled = x.ob[o].signaled
<1> DEFINE q == x.ob[o]
           r == [q EXCEPT !.refs = q.refs - 1]
           y == Deref(x, o)
<1>1. y = PutObject(x, o, r)
  BY DEF Deref, PutObject
<1>2. q \in Obs
  BY DEF Working
<1>3. /\ r \in Obs /\ r.refs = q.refs - 1 /\ r.owner = q.owner /\ r.count = q.count /\ r.recursion = q.recursion
      /\ r.signaled = q.signaled
  BY <1>2 DEF Obs
<1> HIDE DEF r
<1>4. x.owned \in Seq(Mutants)
  BY DEF Working
<1>5. /\ y \in Working /\ y.desc = x.desc /\ y.stop = x.stop /\ y.owned = x.owned
      /\ y.ob[o] = r /\ \A p \in Objects : p # o => y.ob[p] = x.ob[p]
  BY <1>1, <1>3, <1>4, PutFacts
<1> QED BY <1>3, <1>5

\* A reference is dropped.
LEMMA DerefGives ==
  ASSUME NEW x, Sound(x), NEW o \in Objects
  PROVE  LET y == Deref(x, o)
         IN  /\ Sound(y) /\ (Calm(x) => Calm(y)) /\ y.stop = x.stop
             /\ Rest(y, o) = Rest(x, o) - 1 /\ \A p \in Objects : p # o => Rest(y, p) = Rest(x, p)
             /\ \A p \in Objects : Balance(y, p) = Balance(x, p) /\ y.ob[p].owner = x.ob[p].owner
<1> DEFINE y == Deref(x, o)
<1>1. x \in Working
  BY DEF Sound
<1>2. /\ y \in Working /\ y.desc = x.desc /\ y.stop = x.stop /\ y.owned = x.owned
      /\ \A p \in Objects : p # o => y.ob[p] = x.ob[p]
      /\ y.ob[o].refs = x.ob[o].refs - 1
      /\ y.ob[o].owner = x.ob[o].owner /\ y.ob[o].count = x.ob[o].count
      /\ y.ob[o].recursion = x.ob[o].recursion /\ y.ob[o].signaled = x.ob[o].signaled
  BY <1>1, DerefIs
<1>3. x.ob[o].refs \in Int
  BY <1>1 DEF Working, Obs
<1> HIDE DEF y
<1>4. /\ \A p \in Objects : Flight(y, p) = Flight(x, p)
      /\ \A p \in Objects : p # o => Balance(y, p) = Balance(x, p) /\ Rest(y, p) = Rest(x, p)
      /\ Calm(x) /\ (\A u \in Threads : Signaled(y, o, u) => Signaled(x, o, u)) => Calm(y)
      /\ Sound(y)
  BY <1>2, AlterFacts
<1>5. \A u \in Threads : Signaled(y, o, u) => Signaled(x, o, u)
  BY <1>2 DEF Signaled
<1>6. Rest(y, o) = Rest(x, o) - 1
  BY <1>2, <1>3 DEF Rest
<1>7. Balance(y, o) = Balance(x, o)
  BY <1>2, <1>4 DEF Balance
<1> QED BY <1>2, <1>4, <1>5, <1>6, <1>7 DEF y

\* Nobody in flight holds what a thread outside a wait owns.
LEMMA NothingInFlight ==
  ASSUME NEW x, Sound(x), NEW o \in Mutants, x.ob[o].owner = None \/ desc[x.ob[o].owner] = None
  PROVE  Flight(x, o) = 0 /\ \A u \in Threads : NamedTaken(x.desc[u], o) = {}
<1>1. \A u \in Threads : NamedTaken(x.desc[u], o) = {}
  <2> SUFFICES ASSUME NEW u \in Threads, NamedTaken(x.desc[u], o) # {} PROVE FALSE
    OBVIOUS
  <2>1. x.ob[o].owner = u
    BY DEF Sound, Held
  <2>2. x.desc[u] = None
    BY <2>1, ThreadsFinite DEF Sound, Follows
  <2> QED BY <2>2 DEF NamedTaken
<1>2. Places(Shares(x, o)) = {}
  BY <1>1 DEF Places, Shares
<1> QED BY <1>1, <1>2, FS_EmptySet DEF Flight

\* A mutant passes from its owner to the next waiter, if there is one.
LEMMA HandOffGives ==
  ASSUME NEW s, Sound(s), Calm(s), s.stop = FALSE, NEW o \in Mutants, BlocksKnown(o),
         s.ob[o].owner \in Threads, desc[s.ob[o].owner] = None
  PROVE  LET y == HandOff(s, o)
         IN  /\ Sound(y) /\ Calm(y) /\ y.stop = FALSE
             /\ \A p \in Objects : Rest(y, p) = Rest(s, p)
             /\ Balance(y, o) = 0 /\ \A p \in Objects : p # o => Balance(y, p) = Balance(s, p)
             /\ \A p \in Objects : p # o /\ y.ob[p].owner # s.ob[p].owner => s.ob[p].owner = None
             /\ \A p \in Objects : p = o \/ y.ob[p].owner # s.ob[p].owner =>
                  y.ob[p].owner = None \/ (y.ob[p].owner \in Threads /\ desc[y.ob[p].owner] # None)
<1> DEFINE q == s.ob[o]
           q1 == [q EXCEPT !.recursion = 0]
           r == [q1 EXCEPT !.owner = None]
           w == Without(s.owned, {o})
           a == PutOwned(s, w)
           f == PutObject(a, o, r)
           g == ReleaseCheck(f, o)
           y == HandOff(s, o)
<1>0. o \in Objects /\ Kind[o] = "mutant" /\ s \in Working
  BY DEF Mutants, Sound
<1>1. y = Deref(g, o)
  BY DEF HandOff, Unlinked, PutOwned, PutObject
<1> HIDE DEF y
<1>2. q \in Obs /\ q.refs \in Int /\ s.owned \in Seq(Mutants) /\ IsInjective(s.owned)
  BY <1>0 DEF Working, Obs, Sound, OwnedListed
<1>3. q1 \in Obs /\ q1.recursion = 0 /\ q1.refs = q.refs /\ q1.count = q.count /\ q1.signaled = q.signaled
  BY <1>2 DEF Obs
<1> HIDE DEF q1
<1>4. r \in Obs /\ r.recursion = 0 /\ r.owner = None /\ r.refs = q.refs
  BY <1>3 DEF Obs
<1>5. w \in Seq(Mutants) /\ IsInjective(w) /\ ToSet(w) = ToSet(s.owned) \ {o}
  BY <1>2, WithoutFacts
<1> HIDE DEF r, w
<1>6. a \in Working /\ a.desc = s.desc /\ a.stop = s.stop /\ a.owned = w /\ a.ob = s.ob
  <2>1. q \in Obs
    BY <1>2
  <2> QED BY <1>0, <1>5, <2>1, PutFacts
<1> HIDE DEF a
<1>7. /\ f \in Working /\ f.desc = s.desc /\ f.stop = FALSE /\ f.owned = w
      /\ f.ob[o] = r /\ \A p \in Objects : p # o => f.ob[p] = s.ob[p]
  BY <1>0, <1>4, <1>5, <1>6, PutFacts
<1> HIDE DEF f
<1>8. /\ Results(f) /\ Follows(f)
      /\ \A p \in Objects : Flight(f, p) = Flight(s, p)
      /\ \A p \in Objects : p # o => Balance(f, p) = Balance(s, p) /\ Rest(f, p) = Rest(s, p)
      /\ CalmBut(f, o)
  BY <1>0, <1>7, AlterFacts
<1>9. Flight(s, o) = 0 /\ \A u \in Threads : NamedTaken(s.desc[u], o) = {}
  BY NothingInFlight
<1>10. Sound(f)
  <2>1. OwnedListed(f)
    <3>1. ToSet(s.owned) = {p \in Objects : s.ob[p].owner # None}
      BY DEF Sound, OwnedListed
    <3>2. ToSet(w) = {p \in Objects : f.ob[p].owner # None}
      BY <1>0, <1>4, <1>5, <1>7, <3>1
    <3> QED BY <1>5, <1>7, <3>2 DEF OwnedListed
  <2>2. Held(f)
    <3> SUFFICES ASSUME NEW u \in Threads, NEW p \in Mutants, NamedTaken(f.desc[u], p) # {} PROVE f.ob[p].owner = u
      BY DEF Held
    <3>1. p # o /\ p \in Objects /\ s.ob[p].owner = u
      BY <1>7, <1>9 DEF Sound, Held, Mutants
    <3> QED BY <1>7, <3>1
  <2> QED BY <1>7, <1>8, <2>1, <2>2 DEF Sound
<1>11. Sound(g) /\ Gives(f, g) /\ Calm(g) /\ g.stop = FALSE
  BY <1>0, <1>7, <1>8, <1>10, ReleaseCheckGives
<1> HIDE DEF g
<1>12. /\ Sound(y) /\ Calm(y) /\ y.stop = FALSE
       /\ Rest(y, o) = Rest(g, o) - 1 /\ \A p \in Objects : p # o => Rest(y, p) = Rest(g, p)
       /\ \A p \in Objects : Balance(y, p) = Balance(g, p) /\ y.ob[p].owner = g.ob[p].owner
  BY <1>0, <1>1, <1>11, DerefGives
<1>13. \A p \in Objects : Rest(g, p) = Rest(f, p) /\ Balance(g, p) = Balance(f, p)
  BY <1>11 DEF Gives
<1>14. Rest(y, o) = Rest(s, o)
  <2>1. s.ob[o].owner # None
    BY ThreadsFinite
  <2>2. Rest(s, o) = q.refs - 1 /\ Rest(f, o) = q.refs - 0
    BY <1>4, <1>7, <2>1 DEF Rest
  <2> QED BY <1>0, <1>2, <1>12, <1>13, <2>2
<1>15. Balance(y, o) = 0
  <2>1. Balance(f, o) = 0 - 0
    BY <1>0, <1>4, <1>7, <1>8, <1>9 DEF Balance
  <2> QED BY <1>0, <1>12, <1>13, <2>1
<1>16. \A p \in Objects : g.ob[p].owner # f.ob[p].owner =>
         f.ob[p].owner = None /\ g.ob[p].owner \in Threads /\ desc[g.ob[p].owner] # None
  BY <1>11 DEF Gives
<1>17. \A p \in Objects : p # o /\ y.ob[p].owner # s.ob[p].owner => s.ob[p].owner = None
  BY <1>7, <1>12, <1>16
<1>18. \A p \in Objects : p = o \/ y.ob[p].owner # s.ob[p].owner =>
         y.ob[p].owner = None \/ (y.ob[p].owner \in Threads /\ desc[y.ob[p].owner] # None)
  BY <1>4, <1>7, <1>12, <1>16
<1>19. \A p \in Objects : Rest(y, p) = Rest(s, p)
  BY <1>8, <1>12, <1>13, <1>14
<1>20. \A p \in Objects : p # o => Balance(y, p) = Balance(s, p)
  BY <1>8, <1>12, <1>13
<1> QED BY <1>12, <1>15, <1>17, <1>18, <1>19, <1>20 DEF y

\* A semaphore is offered as often as it has units to give.
LEMMA PassesGive ==
  ASSUME NEW s, Sound(s), NEW o \in Objects, Kind[o] = "sem", BlocksKnown(o), CalmBut(s, o), s.stop = FALSE,
         NEW n \in Nat, n > 0
  PROVE  LET y == Passes(s, o, n)[n] IN Sound(y) /\ Gives(s, y) /\ Calm(y) /\ y.stop = FALSE
<1> DEFINE Pass(x) == IF x.ob[o].count > 0 THEN ReleaseCheck(x, o) ELSE x
           Fine(x) == Sound(x) /\ CalmBut(x, o) /\ x.stop = FALSE
           G == [p \in Working \X (1 .. n) |-> Pass(p[1])]
           Z == {p \in Working \X (0 .. n) : Fine(p[1])}
           Body(f) == [k \in 0 .. n |-> IF k = 0 THEN s
                                        ELSE IF f[k - 1].ob[o].count > 0 THEN ReleaseCheck(f[k - 1], o) ELSE f[k - 1]]
           K == Passes(s, o, n)
<1>1. ASSUME NEW x, Fine(x) PROVE Fine(Pass(x)) /\ Gives(x, Pass(x)) /\ Calm(Pass(x))
  <2>1. CASE x.ob[o].count > 0
    <3>1. Sound(Pass(x)) /\ Gives(x, Pass(x)) /\ Calm(Pass(x)) /\ Pass(x).stop = FALSE
      BY <1>1, <2>1, ReleaseCheckGives
    <3>2. CalmBut(Pass(x), o)
      BY <1>1, <3>1, CalmFalls
    <3> QED BY <3>1, <3>2
  <2>2. CASE ~ (x.ob[o].count > 0)
    <3>1. \A u \in Threads : ~ Signaled(x, o, u)
      BY <2>2, SignaledIs
    <3>2. Calm(x)
      <4> SUFFICES ASSUME NEW u \in Threads, Pends(x, u), Wakes(x, u) PROVE FALSE
        BY DEF Calm
      <4> DEFINE d == x.desc[u]
      <4>1. IF d.all THEN o \in ToSet(d.objs) ELSE \A i \in DOMAIN d.objs : Signaled(x, d.objs[i], u) => d.objs[i] = o
        BY <1>1 DEF CalmBut
      <4>2. CASE d.all
        BY <3>1, <4>1, <4>2 DEF Wakes, Satisfiable, ToSet
      <4>3. CASE ~ d.all
        BY <3>1, <4>1, <4>3 DEF Wakes, Satisfiable
      <4> QED BY <4>2, <4>3
    <3> QED BY <1>1, <2>2, <3>2, GivesSame
  <2> QED BY <2>1, <2>2
<1>2. \A x \in Working, k \in 1 .. n : G[<<x, k>>] = Pass(x)
  OBVIOUS
<1>3. <<s, 0>> \in Z
  BY DEF Sound
<1> HIDE DEF G
<1>4. \A k \in 1 .. n : \A y : <<y, k - 1>> \in Z => <<G[<<y, k>>], k>> \in Z
  <2> TAKE k \in 1 .. n
  <2> TAKE y
  <2> SUFFICES ASSUME <<y, k - 1>> \in Z PROVE <<G[<<y, k>>], k>> \in Z
    OBVIOUS
  <2>1. y \in Working /\ Fine(y) /\ k \in 0 .. n
    OBVIOUS
  <2> HIDE DEF Pass
  <2>2. G[<<y, k>>] = Pass(y) /\ Fine(Pass(y))
    BY <1>1, <1>2, <2>1
  <2>3. Pass(y) \in Working
    BY <2>2 DEF Sound
  <2> QED BY <2>1, <2>2, <2>3
<1>5. PICK f : Turns(f, n, s, G) /\ \A k \in 0 .. n : <<f[k], k>> \in Z
  <2> HIDE DEF Z
  <2> QED BY <1>3, <1>4, LoopRuns
<1>6. f = Body(f)
  <2>1. \A k \in 0 .. n : f[k] = IF k = 0 THEN s ELSE G[<<f[k - 1], k>>]
    BY <1>5 DEF Turns
  <2>2. ASSUME NEW k \in 0 .. n PROVE f[k] = Body(f)[k]
    <3>1. CASE k = 0
      BY <2>1, <3>1
    <3>2. CASE k # 0
      <4>1. k \in 1 .. n /\ k - 1 \in 0 .. n
        BY <3>2
      <4>2. f[k - 1] \in Working
        BY <1>5, <4>1
      <4>3. f[k] = Pass(f[k - 1])
        <5> HIDE DEF Pass
        <5> QED BY <2>1, <1>2, <3>2, <4>1, <4>2
      <4> QED BY <4>3, <3>2
    <3> QED BY <3>1, <3>2
  <2>3. f = [k \in 0 .. n |-> f[k]]
    BY <1>5 DEF Turns
  <2>4. Body(f) = [k \in 0 .. n |-> Body(f)[k]]
    OBVIOUS
  <2> QED BY <2>2, <2>3, <2>4
<1>7. K = Body(K)
  <2>1. K = CHOOSE g : g = Body(g)
    BY DEF Passes
  <2> QED BY <1>6, <2>1
<1> HIDE DEF K
<1>8. K[0] = s /\ \A k \in 1 .. n : K[k] = Pass(K[k - 1])
  <2>1. \A k \in 0 .. n : K[k] = IF k = 0 THEN s ELSE Pass(K[k - 1])
    BY <1>7
  <2>2. 0 \in 0 .. n /\ \A i \in 1 .. n : i \in 0 .. n /\ i # 0
    OBVIOUS
  <2> HIDE DEF Pass
  <2> QED BY <2>1, <2>2
<1> DEFINE P(k) == Fine(K[k]) /\ Gives(s, K[k]) /\ (k > 0 => Calm(K[k]))
           T == {k \in 0 .. n : P(k)}
<1>9. 0 \in T
  <2>1. P(0)
    BY <1>8, GivesSame
  <2> HIDE DEF P
  <2> QED BY <2>1
<1>10. ASSUME NEW k \in 1 .. n, k - 1 \in T PROVE k \in T
  <2>1. P(k - 1) /\ k \in 0 .. n
    BY <1>10
  <2>2. Fine(K[k]) /\ Gives(K[k - 1], K[k]) /\ Calm(K[k])
    <3> HIDE DEF Pass
    <3> QED BY ZenonT(40), <1>1, <1>8, <2>1
  <2>3. Gives(s, K[k])
    BY <2>1, <2>2, GivesAll, ThreadsFinite
  <2>4. P(k)
    BY <2>2, <2>3
  <2> HIDE DEF P
  <2> QED BY <2>1, <2>4
<1>11. P(n)
  <2>1. \A k \in 0 .. n : k \in T
    <3> HIDE DEF T
    <3> QED BY <1>9, <1>10, BoundedInduction
  <2> QED BY <2>1
<1> QED BY <1>11 DEF K

-----------------------------------------------------------------------------
(* A thread that exits gives up every mutant it owns. *)

LEMMA ListFinite ==
  ASSUME NEW X, NEW l \in Seq(X)
  PROVE  IsFiniteSet(ToSet(l))
<1> DEFINE g == [i \in 1 .. Len(l) |-> l[i]]
<1>1. Len(l) \in Nat /\ DOMAIN l = 1 .. Len(l)
  OBVIOUS
<1>2. ToSet(l) = {l[i] : i \in 1 .. Len(l)}
  BY <1>1 DEF ToSet
<1>3. g \in Surjection(1 .. Len(l), ToSet(l))
  BY <1>2 DEF Surjection
<1>4. IsFiniteSet(1 .. Len(l))
  BY <1>1, FS_Interval
<1> HIDE DEF g
<1> QED BY <1>3, <1>4, FS_Surjection

LEMMA OwnedFinite ==
  ASSUME NEW x, Sound(x), NEW t \in Threads
  PROVE  /\ IsFiniteSet(OwnedBy(x, t)) /\ Cardinality(OwnedBy(x, t)) \in Nat
         /\ OwnedBy(x, t) \subseteq ToSet(x.owned)
         /\ \A o \in Objects : x.ob[o].owner = t <=> o \in OwnedBy(x, t)
<1>1. x.owned \in Seq(Mutants) /\ ToSet(x.owned) = {o \in Objects : x.ob[o].owner # None}
  BY DEF Sound, Working, OwnedListed
<1>2. ToSet(x.owned) \subseteq Mutants
  BY <1>1 DEF ToSet
<1>3. OwnedBy(x, t) \subseteq ToSet(x.owned)
  BY <1>1, ThreadsFinite DEF OwnedBy, Mutants
<1>4. IsFiniteSet(ToSet(x.owned))
  BY <1>1, ListFinite
<1>5. IsFiniteSet(OwnedBy(x, t))
  <2>1. OwnedBy(x, t) \in SUBSET ToSet(x.owned)
    BY <1>3
  <2> QED BY <1>4, <2>1, FS_Subset
<1>6. \A o \in Objects : x.ob[o].owner = t <=> o \in OwnedBy(x, t)
  BY <1>1, <1>2, ThreadsFinite DEF OwnedBy
<1> QED BY <1>3, <1>5, <1>6, FS_CardinalityType

LEMMA NextOwnedIs ==
  ASSUME NEW x, Sound(x), NEW t \in Threads, OwnedBy(x, t) # {}
  PROVE  NextOwned(x, t) \in OwnedBy(x, t)
<1> DEFINE I == {i \in DOMAIN x.owned : x.ob[x.owned[i]].owner = t}
           First(i) == /\ x.ob[x.owned[i]].owner = t
                       /\ \A j \in 1 .. i - 1 : x.ob[x.owned[j]].owner # t
<1>1. x.owned \in Seq(Mutants) /\ DOMAIN x.owned = 1 .. Len(x.owned) /\ Len(x.owned) \in Nat
  BY DEF Sound, Working
<1>2. PICK o \in OwnedBy(x, t) : o \in ToSet(x.owned)
  BY OwnedFinite
<1>3. I \subseteq Nat /\ I # {}
  BY <1>1, <1>2 DEF OwnedBy, ToSet
<1>4. PICK i \in I : \A j \in I : i <= j
  <2> HIDE DEF I
  <2> QED BY <1>3, LeastNat
<1>5. i \in DOMAIN x.owned /\ First(i)
  <2> SUFFICES ASSUME NEW j \in 1 .. i - 1, x.ob[x.owned[j]].owner = t PROVE FALSE
    BY <1>4
  <2>1. j \in I /\ j \in Nat /\ i \in Nat /\ j < i
    BY <1>1, <1>4
  <2> QED BY <1>4, <2>1
<1> DEFINE c == CHOOSE k \in DOMAIN x.owned : First(k)
<1>6. c \in DOMAIN x.owned /\ First(c)
  <2> HIDE DEF First
  <2> QED BY <1>5
<1>7. NextOwned(x, t) = x.owned[c]
  BY DEF NextOwned
<1> HIDE DEF c
<1> QED BY <1>1, <1>6, <1>7 DEF OwnedBy

\* After the mutants in `dropped' have been given up.
Abandoned(s, x, t, dropped) ==
  /\ Sound(x) /\ Calm(x) /\ x.stop = FALSE
  /\ OwnedBy(x, t) = OwnedBy(s, t) \ dropped
  /\ \A o \in Objects : /\ Rest(x, o) = Rest(s, o)
                        /\ Balance(x, o) = IF o \in dropped THEN 0 ELSE Balance(s, o)
                        /\ x.ob[o].owner # s.ob[o].owner =>
                             /\ s.ob[o].owner \in {None, t}
                             /\ x.ob[o].owner = None \/ (x.ob[o].owner \in Threads /\ desc[x.ob[o].owner] # None)

LEMMA DropGives ==
  ASSUME NEW s, NEW x, NEW t \in Threads, desc[t] = None, \A o \in Objects : BlocksKnown(o),
         NEW dropped, Abandoned(s, x, t, dropped), OwnedBy(x, t) # {}
  PROVE  LET o == NextOwned(x, t)
         IN  o \in OwnedBy(x, t) /\ Abandoned(s, HandOff(x, o), t, dropped \cup {o})
<1> DEFINE o == NextOwned(x, t)
           y == HandOff(x, o)
<1>1. Sound(x) /\ Calm(x) /\ x.stop = FALSE /\ OwnedBy(x, t) = OwnedBy(s, t) \ dropped
  BY DEF Abandoned
<1>2. o \in OwnedBy(x, t)
  BY <1>1, NextOwnedIs
<1> HIDE DEF o
<1>3. o \in Mutants /\ o \in Objects /\ x.ob[o].owner = t
  BY <1>2 DEF OwnedBy, Mutants
<1>4. /\ Sound(y) /\ Calm(y) /\ y.stop = FALSE
      /\ \A p \in Objects : Rest(y, p) = Rest(x, p)
      /\ Balance(y, o) = 0 /\ \A p \in Objects : p # o => Balance(y, p) = Balance(x, p)
      /\ \A p \in Objects : p # o /\ y.ob[p].owner # x.ob[p].owner => x.ob[p].owner = None
      /\ \A p \in Objects : p = o \/ y.ob[p].owner # x.ob[p].owner =>
           y.ob[p].owner = None \/ (y.ob[p].owner \in Threads /\ desc[y.ob[p].owner] # None)
  BY <1>1, <1>3, HandOffGives
<1> HIDE DEF y
<1>5. \A p \in Mutants : p \in Objects
  BY DEF Mutants
<1>6. OwnedBy(y, t) = OwnedBy(x, t) \ {o}
  BY <1>3, <1>4, <1>5, ThreadsFinite DEF OwnedBy
<1>7. OwnedBy(y, t) = OwnedBy(s, t) \ (dropped \cup {o})
  BY <1>1, <1>6
<1>8. ASSUME NEW p \in Objects
      PROVE  /\ Rest(y, p) = Rest(s, p)
             /\ Balance(y, p) = IF p \in dropped \cup {o} THEN 0 ELSE Balance(s, p)
             /\ y.ob[p].owner # s.ob[p].owner =>
                  /\ s.ob[p].owner \in {None, t}
                  /\ y.ob[p].owner = None \/ (y.ob[p].owner \in Threads /\ desc[y.ob[p].owner] # None)
  <2>1. /\ Rest(x, p) = Rest(s, p)
        /\ Balance(x, p) = IF p \in dropped THEN 0 ELSE Balance(s, p)
        /\ x.ob[p].owner # s.ob[p].owner =>
             /\ s.ob[p].owner \in {None, t}
             /\ x.ob[p].owner = None \/ (x.ob[p].owner \in Threads /\ desc[x.ob[p].owner] # None)
    BY DEF Abandoned
  <2>2. Rest(y, p) = Rest(s, p)
    BY <1>4, <2>1
  <2>3. Balance(y, p) = IF p \in dropped \cup {o} THEN 0 ELSE Balance(s, p)
    BY <1>4, <2>1
  <2>4. ASSUME y.ob[p].owner # s.ob[p].owner
        PROVE  /\ s.ob[p].owner \in {None, t}
               /\ y.ob[p].owner = None \/ (y.ob[p].owner \in Threads /\ desc[y.ob[p].owner] # None)
    <3>1. CASE p = o
      BY <1>3, <1>4, <2>1, <3>1
    <3>2. CASE p # o
      BY <1>4, <2>1, <2>4, <3>2
    <3> QED BY <3>1, <3>2
  <2> QED BY <2>2, <2>3, <2>4
<1> QED BY <1>2, <1>4, <1>7, <1>8 DEF Abandoned, o, y

LEMMA AbandonGives ==
  ASSUME NEW s, Sound(s), Calm(s), s.stop = FALSE, NEW t \in Threads, desc[t] = None, \A o \in Objects : BlocksKnown(o)
  PROVE  LET y == Abandon(s, t) IN Abandoned(s, y, t, OwnedBy(s, t)) /\ OwnedBy(y, t) = {}
<1> DEFINE n == Cardinality(OwnedBy(s, t))
           G == [p \in Working \X (1 .. n) |-> HandOff(p[1], NextOwned(p[1], t))]
           Left(x) == OwnedBy(s, t) \ OwnedBy(x, t)
           Fine(x, k) == /\ Abandoned(s, x, t, Left(x)) /\ OwnedBy(x, t) \subseteq OwnedBy(s, t)
                         /\ Cardinality(OwnedBy(x, t)) = n - k
           Z == {p \in Working \X (0 .. n) : Fine(p[1], p[2])}
           Body(f) == [k \in 0 .. n |-> IF k = 0 THEN s ELSE HandOff(f[k - 1], NextOwned(f[k - 1], t))]
           K == Rounds(s, t)
<1>0. n \in Nat /\ IsFiniteSet(OwnedBy(s, t))
  BY OwnedFinite
<1>1. Fine(s, 0)
  <2>1. Abandoned(s, s, t, {})
    BY DEF Abandoned
  <2>2. Left(s) = {}
    OBVIOUS
  <2> HIDE DEF Left
  <2> QED BY <1>0, <2>1, <2>2
<1> HIDE DEF n
<1>2. ASSUME NEW x, NEW k \in 1 .. n, Fine(x, k - 1)
      PROVE  Fine(HandOff(x, NextOwned(x, t)), k)
  <2> DEFINE o == NextOwned(x, t)
             y == HandOff(x, o)
  <2>1. Abandoned(s, x, t, Left(x)) /\ Sound(x) /\ OwnedBy(x, t) \subseteq OwnedBy(s, t)
        /\ Cardinality(OwnedBy(x, t)) = n - (k - 1) /\ IsFiniteSet(OwnedBy(x, t))
    BY <1>2, OwnedFinite DEF Abandoned
  <2>2. OwnedBy(x, t) # {}
    <3>1. Cardinality(OwnedBy(x, t)) # 0
      BY <1>0, <2>1
    <3> QED BY <3>1, FS_EmptySet
  <2>3. o \in OwnedBy(x, t) /\ Abandoned(s, y, t, Left(x) \cup {o})
    <3> HIDE DEF Left
    <3> QED BY <2>1, <2>2, DropGives
  <2> HIDE DEF o, y
  <2>4. OwnedBy(y, t) = OwnedBy(s, t) \ (Left(x) \cup {o})
    BY <2>3 DEF Abandoned
  <2>5. OwnedBy(y, t) = OwnedBy(x, t) \ {o} /\ Left(y) = Left(x) \cup {o}
    BY <2>1, <2>3, <2>4
  <2>6. Cardinality(OwnedBy(y, t)) = n - k
    <3>1. Cardinality(OwnedBy(x, t) \ {o}) = Cardinality(OwnedBy(x, t)) - 1
      BY <2>1, <2>3, FS_RemoveElement
    <3> QED BY <1>0, <2>1, <2>5, <3>1
  <2>7. Abandoned(s, y, t, Left(y)) /\ OwnedBy(y, t) \subseteq OwnedBy(s, t)
    <3>1. OwnedBy(y, t) \subseteq OwnedBy(s, t)
      BY <2>1, <2>5
    <3> HIDE DEF Left
    <3> QED BY <2>3, <2>5, <3>1
  <2> QED BY <2>6, <2>7 DEF y, o
<1>3. \A x \in Working, k \in 1 .. n : G[<<x, k>>] = HandOff(x, NextOwned(x, t))
  OBVIOUS
<1> HIDE DEF G
<1>4. <<s, 0>> \in Z
  <2>1. s \in Working /\ 0 \in 0 .. n
    BY <1>0 DEF Sound
  <2> HIDE DEF Fine
  <2> QED BY <1>1, <2>1
<1>5. \A k \in 1 .. n : \A y : <<y, k - 1>> \in Z => <<G[<<y, k>>], k>> \in Z
  <2> TAKE k \in 1 .. n
  <2> TAKE y
  <2> SUFFICES ASSUME <<y, k - 1>> \in Z PROVE <<G[<<y, k>>], k>> \in Z
    OBVIOUS
  <2>1. y \in Working /\ Fine(y, k - 1) /\ k \in 0 .. n
    <3> HIDE DEF Fine
    <3> QED BY <1>0
  <2>2. G[<<y, k>>] = HandOff(y, NextOwned(y, t)) /\ Fine(HandOff(y, NextOwned(y, t)), k)
    <3> HIDE DEF Fine
    <3> QED BY <1>2, <1>3, <2>1
  <2>3. HandOff(y, NextOwned(y, t)) \in Working
    BY <2>2 DEF Abandoned, Sound
  <2> HIDE DEF Fine
  <2> QED BY <2>1, <2>2, <2>3
<1>6. PICK f : Turns(f, n, s, G) /\ \A k \in 0 .. n : <<f[k], k>> \in Z
  <2> HIDE DEF Z
  <2> QED BY <1>0, <1>4, <1>5, LoopRuns
<1>7. f = Body(f)
  <2>1. \A k \in 0 .. n : f[k] = IF k = 0 THEN s ELSE G[<<f[k - 1], k>>]
    BY <1>6 DEF Turns
  <2>2. ASSUME NEW k \in 0 .. n PROVE f[k] = Body(f)[k]
    <3>1. CASE k = 0
      BY <2>1, <3>1
    <3>2. CASE k # 0
      <4>1. k \in 1 .. n /\ k - 1 \in 0 .. n
        BY <1>0, <3>2
      <4>2. f[k - 1] \in Working
        <5> HIDE DEF Fine
        <5> QED BY <1>6, <4>1
      <4>3. f[k] = HandOff(f[k - 1], NextOwned(f[k - 1], t))
        BY <2>1, <1>3, <3>2, <4>1, <4>2
      <4> QED BY <4>3, <3>2
    <3> QED BY <3>1, <3>2
  <2>3. f = [k \in 0 .. n |-> f[k]]
    BY <1>6 DEF Turns
  <2>4. Body(f) = [k \in 0 .. n |-> Body(f)[k]]
    OBVIOUS
  <2> QED BY <2>2, <2>3, <2>4
<1>8. K = Body(K)
  <2>1. K = CHOOSE g : g = Body(g)
    BY DEF Rounds, n
  <2> QED BY <1>7, <2>1
<1> HIDE DEF K
<1>9. K[0] = s /\ \A k \in 1 .. n : K[k] = HandOff(K[k - 1], NextOwned(K[k - 1], t))
  <2>1. \A k \in 0 .. n : K[k] = IF k = 0 THEN s ELSE HandOff(K[k - 1], NextOwned(K[k - 1], t))
    BY <1>8
  <2>2. 0 \in 0 .. n /\ \A i \in 1 .. n : i \in 0 .. n /\ i # 0
    BY <1>0
  <2> QED BY <2>1, <2>2
<1> DEFINE T == {k \in 0 .. n : Fine(K[k], k)}
<1>10. 0 \in T
  <2> HIDE DEF Fine
  <2> QED BY <1>0, <1>1, <1>9
<1>11. ASSUME NEW k \in 1 .. n, k - 1 \in T PROVE k \in T
  <2> HIDE DEF Fine
  <2>1. Fine(K[k - 1], k - 1) /\ k \in 0 .. n
    BY <1>0, <1>11
  <2>2. Fine(K[k], k)
    BY <1>2, <1>9, <2>1
  <2> QED BY <2>1, <2>2
<1>12. Fine(K[n], n)
  <2>1. \A k \in 0 .. n : k \in T
    <3> HIDE DEF T
    <3> QED BY <1>0, <1>10, <1>11, BoundedInduction
  <2> HIDE DEF Fine
  <2> QED BY <1>0, <2>1
<1> DEFINE y == K[n]
<1>13. y = Abandon(s, t)
  BY DEF Abandon, K, n
<1>14. OwnedBy(y, t) = {}
  <2>1. Cardinality(OwnedBy(y, t)) = 0 /\ Sound(y)
    BY <1>0, <1>12 DEF Abandoned
  <2> HIDE DEF y
  <2> QED BY <2>1, OwnedFinite, FS_EmptySet
<1>15. Left(y) = OwnedBy(s, t)
  BY <1>14
<1>16. Abandoned(s, y, t, OwnedBy(s, t))
  <2>1. Abandoned(s, y, t, Left(y))
    BY <1>12
  <2> HIDE DEF Left, y
  <2> QED BY <1>15, <2>1
<1> HIDE DEF y
<1> QED BY <1>13, <1>14, <1>16

\* A sound state, of itself: without regard to the step that leads to it.
Solid(x) == x \in Working /\ OwnedListed(x) /\ Held(x) /\ Results(x)

\* The threads' waits on o, repetitions counted.
ObjsIn(d, t) == IF d[t] = None THEN <<>> ELSE d[t].objs
Waiting(d, o) == Cardinality(Places([t \in Threads |-> Named(ObjsIn(d, t), o)]))
Handles(O, o) == IF o \in O THEN 1 ELSE 0

\* The lists hold the blocks of the pending waits.
Listed(w, d) ==
  \A o \in Objects :
    /\ w[o] \in Seq(Threads \X Nat) /\ IsInjective(w[o])
    /\ \A t \in Threads, i \in Nat :
         <<t, i>> \in ToSet(w[o]) <=>
           d[t] # None /\ d[t].result = Pending /\ i \in DOMAIN d[t].objs /\ d[t].objs[i] = o

\* Types, as far as the proof needs them.
ObjTypes ==
  /\ setting \in Settings /\ open \subseteq Objects
  /\ waiters \in [Objects -> Seq(Threads \X Nat)]
  /\ at \in [Threads -> {"user", "blocked", "woken", "leave", "dead"}]
  /\ timed \subseteq Threads /\ alertable \subseteq Threads /\ killed \subseteq Threads
  /\ apc \in [Threads -> Nat] /\ sweep \in BOOLEAN /\ ledger \in [Objects -> Int]

\* Who sleeps, and what can end the sleep.
Sleepers ==
  /\ \A t \in Threads :
       /\ desc[t] # None \/ t \in alertable => at[t] \in {"blocked", "woken"}
       /\ at[t] = "blocked" => desc[t] # None \/ t \in alertable \/ t \in timed
       /\ at[t] = "blocked" /\ t \in alertable => apc[t] = 0
       /\ t \in killed /\ at[t] # "dead" => sweep

\* The objects agree with those who refer to them and with what callers know.
Accounts ==
  /\ Solid(Now) /\ Calm(Now)
  /\ \A o \in Objects :
       /\ Rest(Now, o) = Handles(open, o) + Waiting(desc, o)
       /\ ob[o].owner # None => at[ob[o].owner] # "dead"
       /\ ledger[o] = Balance(Now, o)

\* The inductive invariant.
ObjInv == ObjTypes /\ Sleepers /\ Listed(waiters, desc) /\ Accounts

\* The working state is published whole.
LEMMA NowIs ==
  ASSUME NEW s \in Working, s.stop = FALSE, ob' = s.ob, owned' = s.owned, desc' = s.desc
  PROVE  Now' = s
BY DEF Now, Working

LEMMA AccountsNext ==
  ASSUME NEW s, Solid(s), Calm(s), s.stop = FALSE, ob' = s.ob, owned' = s.owned, desc' = s.desc,
         \A o \in Objects : /\ Rest(s, o) = Handles(open', o) + Waiting(s.desc, o)
                            /\ s.ob[o].owner # None => at'[s.ob[o].owner] # "dead"
                            /\ ledger'[o] = Balance(s, o)
  PROVE  Accounts'
<1>1. Now' = s
  BY NowIs DEF Solid
<1> QED BY <1>1 DEF Accounts

LEMMA SoundNow ==
  ASSUME ObjInv
  PROVE  /\ Sound(Now) /\ Now.stop = FALSE /\ Now.ob = ob /\ Now.owned = owned /\ Now.desc = desc
         /\ Calm(Now) /\ Now \in Working
<1>1. Now.stop = FALSE /\ Now.ob = ob /\ Now.owned = owned /\ Now.desc = desc
  BY DEF Now
<1>2. Follows(Now)
  BY <1>1 DEF Follows
<1> QED BY <1>1, <1>2 DEF ObjInv, Accounts, Solid, Sound

LEMMA DescIs ==
  ASSUME ObjInv
  PROVE  desc \in [Threads -> Waits \cup {None}] /\ ob \in [Objects -> Obs] /\ owned \in Seq(Mutants)
BY SoundNow DEF Working

LEMMA BlocksAreKnown ==
  ASSUME ObjInv
  PROVE  \A o \in Objects : BlocksKnown(o)
<1> TAKE o \in Objects
<1>1. waiters[o] \in Seq(Threads \X Nat) /\ desc \in [Threads -> Waits \cup {None}]
  BY DescIs DEF ObjInv, Listed
<1>2. \A t \in Threads, i \in Nat :
         <<t, i>> \in ToSet(waiters[o]) <=>
           desc[t] # None /\ desc[t].result = Pending /\ i \in DOMAIN desc[t].objs /\ desc[t].objs[i] = o
  BY DEF ObjInv, Listed
<1>3. ASSUME NEW k \in DOMAIN waiters[o]
      PROVE  LET b == waiters[o][k] IN desc[b[1]] # None /\ b[2] \in DOMAIN desc[b[1]].objs /\ desc[b[1]].objs[b[2]] = o
  <2>1. PICK t \in Threads, i \in Nat : waiters[o][k] = <<t, i>>
    BY <1>1
  <2>2. <<t, i>> \in ToSet(waiters[o])
    BY <2>1 DEF ToSet
  <2> QED BY <1>2, <2>1, <2>2
<1>4. ASSUME NEW u \in Threads, desc[u] # None, desc[u].result = Pending, o \in ToSet(desc[u].objs)
      PROVE  \E k \in DOMAIN waiters[o] : waiters[o][k][1] = u
  <2>1. PICK i \in DOMAIN desc[u].objs : desc[u].objs[i] = o
    BY <1>4 DEF ToSet
  <2>2. i \in Nat
    BY <1>1, <1>4 DEF Waits
  <2>3. <<u, i>> \in ToSet(waiters[o])
    BY <1>2, <1>4, <2>1, <2>2
  <2>4. PICK k \in DOMAIN waiters[o] : waiters[o][k] = <<u, i>>
    BY <2>3 DEF ToSet
  <2> QED BY <2>4
<1> QED BY <1>1, <1>3, <1>4 DEF BlocksKnown

\* Waits as lists of objects, and how many name an object.
LEMMA ObjsInFacts ==
  ASSUME NEW d \in [Threads -> Waits \cup {None}], NEW o
  PROVE  /\ \A t \in Threads : /\ ObjsIn(d, t) \in Seq(Objects)
                               /\ IsFiniteSet(Named(ObjsIn(d, t), o))
         /\ Waiting(d, o) \in Nat
         /\ Waiting(d, o) = 0 => \A t \in Threads : Named(ObjsIn(d, t), o) = {}
<1> DEFINE F == [t \in Threads |-> Named(ObjsIn(d, t), o)]
<1>1. ASSUME NEW t \in Threads PROVE ObjsIn(d, t) \in Seq(Objects)
  BY DEF ObjsIn, Waits
<1>2. \A t \in Threads : IsFiniteSet(Named(ObjsIn(d, t), o))
  BY <1>1, NamedFinite
<1>3. \A t \in Threads : F[t] = Named(ObjsIn(d, t), o)
  OBVIOUS
<1>4. Waiting(d, o) = Cardinality(Places(F))
  BY DEF Waiting
<1> HIDE DEF F
<1>5. IsFiniteSet(Places(F)) /\ Cardinality(Places(F)) \in Nat
  BY <1>2, <1>3, PlacesFinite
<1>6. Cardinality(Places(F)) = 0 => Places(F) = {}
  BY <1>5, FS_EmptySet
<1>7. Places(F) = {} => \A t \in Threads : F[t] = {}
  <2> SUFFICES ASSUME Places(F) = {}, NEW t \in Threads, NEW i \in F[t] PROVE FALSE
    OBVIOUS
  <2>1. <<t, i>> \in Places(F)
    BY DEF Places
  <2> QED BY <2>1
<1> QED BY <1>1, <1>2, <1>3, <1>4, <1>5, <1>6, <1>7

LEMMA WaitingKept ==
  ASSUME NEW s, Sound(s)
  PROVE  \A o \in Objects : Waiting(s.desc, o) = Waiting(desc, o)
<1>1. \A t \in Threads : ObjsIn(s.desc, t) = ObjsIn(desc, t)
  BY DEF Sound, Follows, ObjsIn
<1> QED BY <1>1 DEF Waiting

\* One thread begins or ends a wait.
LEMMA WaitingChanges ==
  ASSUME NEW d \in [Threads -> Waits \cup {None}], NEW e \in [Threads -> Waits \cup {None}], NEW t \in Threads,
         \A u \in Threads : u # t => d[u] = e[u], NEW o \in Objects
  PROVE  Waiting(e, o) = Waiting(d, o) - MultiplicityIn(ObjsIn(d, t), o) + MultiplicityIn(ObjsIn(e, t), o)
<1> DEFINE F == [u \in Threads |-> Named(ObjsIn(d, u), o)]
           H == [u \in Threads |-> Named(ObjsIn(e, u), o)]
<1>1. \A u \in Threads : IsFiniteSet(F[u]) /\ IsFiniteSet(H[u])
  BY ObjsInFacts
<1>2. \A u \in Threads : u # t => F[u] = H[u]
  BY DEF ObjsIn
<1>3. /\ Waiting(d, o) = Cardinality(Places(F)) /\ Waiting(e, o) = Cardinality(Places(H))
      /\ MultiplicityIn(ObjsIn(d, t), o) = Cardinality(F[t])
      /\ MultiplicityIn(ObjsIn(e, t), o) = Cardinality(H[t])
  BY DEF Waiting, MultiplicityIn
<1> HIDE DEF F, H
<1> QED BY <1>1, <1>2, <1>3, ShareChanges

\* unlink_waits leaves the blocks of the waits that still pend.
LEMMA ListedKept ==
  ASSUME ObjInv, NEW s, Sound(s)
  PROVE  StillPending(s) \in [Objects -> Seq(Threads \X Nat)] /\ Listed(StillPending(s), s.desc)
<1> DEFINE W == StillPending(s)
           S == GrantedIn(s) \X Nat
<1>1. ASSUME NEW o \in Objects
      PROVE  W[o] \in Seq(Threads \X Nat) /\ IsInjective(W[o]) /\ ToSet(W[o]) = ToSet(waiters[o]) \ S
  <2>1. waiters[o] \in Seq(Threads \X Nat) /\ IsInjective(waiters[o])
    BY DEF ObjInv, Listed
  <2>2. W[o] = Without(waiters[o], S)
    BY DEF StillPending
  <2> HIDE DEF W, S
  <2> QED BY <2>1, <2>2, WithoutFacts
<1>2. ASSUME NEW o \in Objects, NEW t \in Threads, NEW i \in Nat
      PROVE  <<t, i>> \in ToSet(W[o]) <=>
               /\ s.desc[t] # None /\ s.desc[t].result = Pending
               /\ i \in DOMAIN s.desc[t].objs /\ s.desc[t].objs[i] = o
  <2>1. <<t, i>> \in ToSet(W[o]) <=> <<t, i>> \in ToSet(waiters[o]) /\ t \notin GrantedIn(s)
    <3> HIDE DEF W
    <3> QED BY <1>1
  <2>2. <<t, i>> \in ToSet(waiters[o]) <=>
           desc[t] # None /\ desc[t].result = Pending /\ i \in DOMAIN desc[t].objs /\ desc[t].objs[i] = o
    BY DEF ObjInv, Listed
  <2>3. t \in GrantedIn(s) <=> desc[t] # None /\ s.desc[t].result # desc[t].result
    BY DEF GrantedIn
  <2>4. /\ s.desc[t] = None <=> desc[t] = None
        /\ desc[t] # None => s.desc[t].objs = desc[t].objs
        /\ desc[t] # None /\ desc[t].result # Pending => s.desc[t] = desc[t]
    BY DEF Sound, Follows
  <2> HIDE DEF W
  <2> QED BY <2>1, <2>2, <2>3, <2>4
<1>3. W \in [Objects -> Seq(Threads \X Nat)]
  <2>1. W = [o \in Objects |-> W[o]]
    BY DEF StillPending
  <2> HIDE DEF W
  <2> QED BY <1>1, <2>1
<1> HIDE DEF W
<1> QED BY <1>1, <1>2, <1>3 DEF Listed, W

\* A wake-up takes sleepers from their sleep and does nothing else.
LEMMA WakeKeeps ==
  ASSUME ObjInv, NEW S, Wake(S), \A t \in Threads : desc'[t] = None <=> desc[t] = None, alertable' = alertable,
         \A t \in Threads \ S : t \in alertable => apc'[t] = apc[t]
  PROVE  /\ at' \in [Threads -> {"user", "blocked", "woken", "leave", "dead"}]
         /\ timed' \subseteq Threads /\ alertable' \subseteq Threads
         /\ \A t \in Threads :
              /\ desc'[t] # None \/ t \in alertable' => at'[t] \in {"blocked", "woken"}
              /\ at'[t] = "blocked" => desc'[t] # None \/ t \in alertable' \/ t \in timed'
              /\ at'[t] = "blocked" /\ t \in alertable' => apc'[t] = 0
              /\ at'[t] = "dead" <=> at[t] = "dead"
<1>1. /\ at' = [t \in Threads |-> IF t \in S /\ at[t] = "blocked" THEN "woken" ELSE at[t]]
      /\ timed' = timed \ {t \in S : at[t] = "blocked"}
  BY DEF Wake
<1>2. /\ at \in [Threads -> {"user", "blocked", "woken", "leave", "dead"}]
      /\ timed \subseteq Threads /\ alertable \subseteq Threads
  BY DEF ObjInv, ObjTypes
<1>3. \A t \in Threads :
        /\ desc[t] # None \/ t \in alertable => at[t] \in {"blocked", "woken"}
        /\ at[t] = "blocked" => desc[t] # None \/ t \in alertable \/ t \in timed
        /\ at[t] = "blocked" /\ t \in alertable => apc[t] = 0
  BY DEF ObjInv, Sleepers
<1> QED BY <1>1, <1>2, <1>3

LEMMA SoundSolid ==
  ASSUME NEW s, Sound(s)
  PROVE  Solid(s) /\ s \in Working /\ \A t \in Threads : s.desc[t] = None <=> desc[t] = None
BY DEF Sound, Solid, Follows

LEMMA OwnerLives ==
  ASSUME ObjInv
  PROVE  /\ \A o \in Objects : ob[o].owner # None => ob[o].owner \in Threads /\ at[ob[o].owner] # "dead"
         /\ \A t \in Threads : desc[t] # None => at[t] # "dead"
BY DescIs DEF ObjInv, Accounts, Sleepers, Obs

\* A step that signals keeps the books.
LEMMA PublishKeeps ==
  ASSUME ObjInv, NEW s, Sound(s), Calm(s), s.stop = FALSE, Publish(s), UNCHANGED <<setting, open, apc, killed, sweep>>,
         ledger' \in [Objects -> Int],
         \A o \in Objects :
           /\ Rest(s, o) = Rest(Now, o) /\ ledger'[o] = Balance(s, o)
           /\ s.ob[o].owner # ob[o].owner =>
                s.ob[o].owner = None \/ (s.ob[o].owner \in Threads /\ desc[s.ob[o].owner] # None)
  PROVE  ObjInv'
<1>1. /\ ob' = s.ob /\ owned' = s.owned /\ desc' = s.desc /\ waiters' = StillPending(s)
      /\ Wake(GrantedIn(s)) /\ alertable' = alertable
      /\ setting' = setting /\ open' = open /\ apc' = apc /\ killed' = killed /\ sweep' = sweep
  BY DEF Publish
<1>2. Solid(s) /\ \A t \in Threads : desc'[t] = None <=> desc[t] = None
  BY <1>1, SoundSolid
<1>3. /\ at' \in [Threads -> {"user", "blocked", "woken", "leave", "dead"}]
      /\ timed' \subseteq Threads /\ alertable' \subseteq Threads
      /\ \A t \in Threads :
           /\ desc'[t] # None \/ t \in alertable' => at'[t] \in {"blocked", "woken"}
           /\ at'[t] = "blocked" => desc'[t] # None \/ t \in alertable' \/ t \in timed'
           /\ at'[t] = "blocked" /\ t \in alertable' => apc'[t] = 0
           /\ at'[t] = "dead" <=> at[t] = "dead"
  BY <1>1, <1>2, WakeKeeps
<1>4. waiters' \in [Objects -> Seq(Threads \X Nat)] /\ Listed(waiters', desc')
  BY <1>1, ListedKept
<1>5. ObjTypes'
  BY <1>1, <1>3, <1>4 DEF ObjInv, ObjTypes
<1>6. Sleepers'
  BY <1>1, <1>3 DEF ObjInv, Sleepers
<1>7. ASSUME NEW o \in Objects
      PROVE  /\ Rest(s, o) = Handles(open', o) + Waiting(s.desc, o)
             /\ s.ob[o].owner # None => at'[s.ob[o].owner] # "dead"
             /\ ledger'[o] = Balance(s, o)
  <2>1. Rest(Now, o) = Handles(open', o) + Waiting(s.desc, o)
    BY <1>1, WaitingKept DEF ObjInv, Accounts
  <2>2. s.ob[o].owner # None => s.ob[o].owner \in Threads /\ at[s.ob[o].owner] # "dead"
    BY OwnerLives
  <2> QED BY <1>3, <2>1, <2>2
<1>8. Accounts'
  BY <1>1, <1>2, <1>7, AccountsNext
<1> QED BY <1>4, <1>5, <1>6, <1>8 DEF ObjInv

\* An object changes, but not its owner or its references.
LEMMA AlterOwned ==
  ASSUME NEW x, Sound(x), Calm(x), NEW o \in Objects, NEW r \in Obs,
         r.owner = x.ob[o].owner, r.refs = x.ob[o].refs
  PROVE  LET y == PutObject(x, o, r)
         IN  /\ Sound(y) /\ CalmBut(y, o) /\ y.stop = x.stop /\ y.desc = x.desc /\ y.owned = x.owned /\ y.ob[o] = r
             /\ \A p \in Objects : Rest(y, p) = Rest(x, p) /\ y.ob[p].owner = x.ob[p].owner
             /\ \A p \in Objects : p # o => Balance(y, p) = Balance(x, p)
             /\ Flight(y, o) = Flight(x, o)
             /\ (\A u \in Threads : Signaled(y, o, u) => Signaled(x, o, u)) => Calm(y)
<1> DEFINE y == PutObject(x, o, r)
<1>1. x \in Working /\ x.owned \in Seq(Mutants)
  BY DEF Sound, Working
<1>2. /\ y \in Working /\ y.desc = x.desc /\ y.stop = x.stop /\ y.owned = x.owned
      /\ y.ob[o] = r /\ \A p \in Objects : p # o => y.ob[p] = x.ob[p]
  BY <1>1, PutFacts
<1> HIDE DEF y
<1>3. /\ \A p \in Objects : Flight(y, p) = Flight(x, p)
      /\ \A p \in Objects : p # o => Balance(y, p) = Balance(x, p) /\ Rest(y, p) = Rest(x, p)
      /\ CalmBut(y, o) /\ Sound(y)
      /\ (\A u \in Threads : Signaled(y, o, u) => Signaled(x, o, u)) => Calm(y)
  BY <1>2, AlterFacts
<1>4. Rest(y, o) = Rest(x, o)
  BY <1>2 DEF Rest
<1> QED BY <1>2, <1>3, <1>4 DEF y

\* An event is set, or a thread's object, and its waiters are offered it.
LEMMA SignalGives ==
  ASSUME NEW s, Sound(s), Calm(s), s.stop = FALSE, NEW o \in Objects, Kind[o] \notin {"sem", "mutant"}, BlocksKnown(o)
  PROVE  LET z == ReleaseCheck([s EXCEPT !.ob[o].signaled = TRUE], o)
         IN  /\ Sound(z) /\ Calm(z) /\ z.stop = FALSE
             /\ \A p \in Objects :
                  /\ Rest(z, p) = Rest(s, p) /\ Balance(z, p) = Balance(s, p)
                  /\ z.ob[p].owner # s.ob[p].owner =>
                       s.ob[p].owner = None /\ z.ob[p].owner \in Threads /\ desc[z.ob[p].owner] # None
<1> DEFINE r == [s.ob[o] EXCEPT !.signaled = TRUE]
           y == PutObject(s, o, r)
           z == ReleaseCheck(y, o)
<1>1. s \in Working /\ s.ob[o] \in Obs
  BY DEF Sound, Working
<1>2. r \in Obs /\ r.owner = s.ob[o].owner /\ r.refs = s.ob[o].refs
  BY <1>1 DEF Obs
<1>3. y = [s EXCEPT !.ob[o].signaled = TRUE]
  BY DEF PutObject
<1> HIDE DEF r
<1>4. /\ Sound(y) /\ CalmBut(y, o) /\ y.stop = FALSE
      /\ \A p \in Objects : Rest(y, p) = Rest(s, p) /\ y.ob[p].owner = s.ob[p].owner
      /\ \A p \in Objects : p # o => Balance(y, p) = Balance(s, p)
  BY <1>2, AlterOwned
<1> HIDE DEF y
<1>5. Balance(y, o) = Balance(s, o)
  BY DEF Balance
<1>6. Sound(z) /\ Gives(y, z) /\ Calm(z) /\ z.stop = FALSE
  BY <1>4, ReleaseCheckGives
<1> HIDE DEF z
<1>7. \A p \in Objects :
        /\ Rest(z, p) = Rest(y, p) /\ Balance(z, p) = Balance(y, p)
        /\ z.ob[p].owner # y.ob[p].owner =>
             y.ob[p].owner = None /\ z.ob[p].owner \in Threads /\ desc[z.ob[p].owner] # None
  BY <1>6 DEF Gives
<1>8. \A p \in Objects :
        /\ Rest(z, p) = Rest(s, p) /\ Balance(z, p) = Balance(s, p)
        /\ z.ob[p].owner # s.ob[p].owner =>
             s.ob[p].owner = None /\ z.ob[p].owner \in Threads /\ desc[z.ob[p].owner] # None
  BY <1>4, <1>5, <1>7
<1> QED BY <1>3, <1>6, <1>8 DEF z

LEMMA FlightIs ==
  ASSUME NEW x \in Working, NEW o \in Objects
  PROVE  Flight(x, o) \in Int
<1>1. \A t \in Threads : IsFiniteSet(Shares(x, o)[t])
  BY SharesFinite
<1> QED BY <1>1, PlacesFinite DEF Flight

LEMMA LedgerIs ==
  ASSUME ObjInv
  PROVE  /\ ledger \in [Objects -> Int]
         /\ \A o \in Objects : ledger[o] = Balance(Now, o) /\ ob[o] \in Obs
BY DescIs DEF ObjInv, ObjTypes, Accounts

LEMMA SetEventKeeps ==
  ASSUME ObjInv, NEW o \in Objects, SetEvent(o), setting' = setting
  PROVE  ObjInv'
<1> DEFINE s == ReleaseCheck([Now EXCEPT !.ob[o].signaled = TRUE], o)
<1>1. /\ Kind[o] \in {"notify", "sync"} /\ Publish(s)
      /\ UNCHANGED <<setting, open, apc, killed, sweep>> /\ ledger' = ledger
  BY DEF SetEvent
<1>2. /\ Sound(s) /\ Calm(s) /\ s.stop = FALSE
      /\ \A p \in Objects :
           /\ Rest(s, p) = Rest(Now, p) /\ Balance(s, p) = Balance(Now, p)
           /\ s.ob[p].owner # ob[p].owner => s.ob[p].owner \in Threads /\ desc[s.ob[p].owner] # None
  <2>1. Sound(Now) /\ Calm(Now) /\ Now.stop = FALSE /\ Now.ob = ob /\ BlocksKnown(o)
    BY SoundNow, BlocksAreKnown
  <2> QED BY <1>1, <2>1, SignalGives
<1> HIDE DEF s
<1>3. ledger' \in [Objects -> Int] /\ \A p \in Objects : ledger'[p] = Balance(s, p)
  BY <1>1, <1>2, LedgerIs
<1> QED BY <1>1, <1>2, <1>3, PublishKeeps

\* Units go to the semaphore, then to its waiters.
LEMMA ReleaseSemaphoreKeeps ==
  ASSUME ObjInv, NEW o \in Objects, NEW n \in 1 .. MaxCount, ReleaseSemaphore(o, n), setting' = setting
  PROVE  ObjInv'
<1> DEFINE r == [ob[o] EXCEPT !.count = @ + n]
           y == PutObject(Now, o, r)
           s == Passes(y, o, n)[n]
<1>0. /\ Sound(Now) /\ Calm(Now) /\ Now.stop = FALSE /\ Now.ob = ob /\ BlocksKnown(o) /\ Now \in Working
      /\ n \in Nat /\ n > 0
  <2>1. n \in Nat /\ n > 0
    BY ObjectWaitAssumption
  <2> QED BY <2>1, SoundNow, BlocksAreKnown
<1>1. /\ Kind[o] = "sem" /\ Publish(s)
      /\ UNCHANGED <<setting, open, apc, killed, sweep>> /\ ledger' = [ledger EXCEPT ![o] = @ + n]
  <2>1. y = [Now EXCEPT !.ob[o].count = @ + n]
    BY <1>0 DEF PutObject
  <2> QED BY <2>1 DEF ReleaseSemaphore
<1>2. r \in Obs /\ r.owner = ob[o].owner /\ r.refs = ob[o].refs /\ r.count = ob[o].count + n
  <2>1. ob[o] \in Obs
    BY DescIs
  <2>2. ob[o].count \in Int /\ n \in Int
    BY <1>0, <2>1 DEF Obs
  <2> QED BY <2>1, <2>2 DEF Obs
<1> HIDE DEF r
<1>3. /\ Sound(y) /\ CalmBut(y, o) /\ y.stop = FALSE /\ y.ob[o] = r
      /\ \A p \in Objects : Rest(y, p) = Rest(Now, p) /\ y.ob[p].owner = ob[p].owner
      /\ \A p \in Objects : p # o => Balance(y, p) = Balance(Now, p)
      /\ Flight(y, o) = Flight(Now, o)
  BY <1>0, <1>2, AlterOwned
<1> HIDE DEF y
<1>4. Balance(y, o) = Balance(Now, o) + n
  <2>1. Flight(Now, o) \in Int
    BY <1>0, FlightIs
  <2>2. ob[o].count \in Int
    BY DescIs DEF Obs
  <2> QED BY <1>0, <1>1, <1>2, <1>3, <2>1, <2>2 DEF Balance
<1>5. Sound(s) /\ Gives(y, s) /\ Calm(s) /\ s.stop = FALSE
  BY <1>0, <1>1, <1>3, PassesGive
<1> HIDE DEF s
<1>6. \A p \in Objects :
        /\ Rest(s, p) = Rest(Now, p) /\ Balance(s, p) = Balance(y, p)
        /\ s.ob[p].owner # ob[p].owner => s.ob[p].owner \in Threads /\ desc[s.ob[p].owner] # None
  BY <1>3, <1>5 DEF Gives
<1>7. ledger' \in [Objects -> Int] /\ \A p \in Objects : ledger'[p] = Balance(s, p)
  BY <1>0, <1>1, <1>3, <1>4, <1>6, LedgerIs
<1> QED BY <1>1, <1>5, <1>6, <1>7, PublishKeeps

LEMMA OutsideWait ==
  ASSUME ObjInv, NEW t \in Threads, at[t] \in {"user", "leave", "dead"}
  PROVE  desc[t] = None /\ t \notin alertable
BY DEF ObjInv, Sleepers

\* A step that wakes nobody.
LEMMA QuietKeeps ==
  ASSUME ObjInv, NEW s, Sound(s), Calm(s), s.stop = FALSE, s.desc = desc, ob' = s.ob, owned' = s.owned,
         UNCHANGED <<setting, waiters, threads, apc, killed, sweep>>, ledger' \in [Objects -> Int], open' \subseteq Objects,
         \A o \in Objects :
           /\ Rest(s, o) = Handles(open', o) + Waiting(desc, o) /\ ledger'[o] = Balance(s, o)
           /\ s.ob[o].owner # ob[o].owner => s.ob[o].owner = None \/ (s.ob[o].owner \in Threads /\ at[s.ob[o].owner] # "dead")
  PROVE  ObjInv'
<1>1. /\ desc' = desc /\ at' = at /\ timed' = timed /\ alertable' = alertable
      /\ setting' = setting /\ waiters' = waiters /\ apc' = apc /\ killed' = killed /\ sweep' = sweep
  BY DEF threads
<1>2. ObjTypes'
  BY <1>1 DEF ObjInv, ObjTypes
<1>3. Sleepers'
  BY <1>1 DEF ObjInv, Sleepers
<1>4. Listed(waiters', desc')
  BY <1>1 DEF ObjInv
<1>5. \A o \in Objects : s.ob[o].owner # None => at'[s.ob[o].owner] # "dead"
  BY <1>1, OwnerLives
<1>6. Accounts'
  BY <1>1, <1>5, SoundSolid, AccountsNext
<1> QED BY <1>2, <1>3, <1>4, <1>6 DEF ObjInv

LEMMA ResetEventKeeps ==
  ASSUME ObjInv, NEW o \in Objects, ResetEvent(o), setting' = setting
  PROVE  ObjInv'
<1> DEFINE r == [ob[o] EXCEPT !.signaled = FALSE]
           y == PutObject(Now, o, r)
<1>0. /\ Sound(Now) /\ Calm(Now) /\ Now.stop = FALSE /\ Now.ob = ob /\ Now.owned = owned /\ Now.desc = desc
      /\ Kind[o] \in {"notify", "sync"}
  BY SoundNow DEF ResetEvent
<1>1. UNCHANGED <<setting, waiters, threads, apc, killed, sweep>> /\ ledger' = ledger /\ open' = open /\ owned' = owned
  BY DEF ResetEvent
<1>2. r \in Obs /\ r.owner = ob[o].owner /\ r.refs = ob[o].refs /\ r.signaled = FALSE
  BY DescIs DEF Obs
<1>3. ob' = y.ob
  BY <1>0 DEF ResetEvent, PutObject
<1> HIDE DEF r
<1>4. /\ Sound(y) /\ y.stop = FALSE /\ y.desc = desc /\ y.owned = owned /\ y.ob[o] = r
      /\ \A p \in Objects : Rest(y, p) = Rest(Now, p) /\ y.ob[p].owner = ob[p].owner
      /\ \A p \in Objects : p # o => Balance(y, p) = Balance(Now, p)
      /\ (\A u \in Threads : Signaled(y, o, u) => Signaled(Now, o, u)) => Calm(y)
  BY <1>0, <1>2, AlterOwned
<1> HIDE DEF y
<1>5. Calm(y)
  BY <1>0, <1>2, <1>4, SignaledIs
<1>6. Balance(y, o) = Balance(Now, o)
  BY <1>0 DEF Balance
<1>7. \A p \in Objects : Rest(y, p) = Handles(open', p) + Waiting(desc, p)
  BY <1>1, <1>4 DEF ObjInv, Accounts
<1>8. ledger' \in [Objects -> Int] /\ open' \subseteq Objects /\ \A p \in Objects : ledger'[p] = Balance(y, p)
  BY <1>1, <1>4, <1>6, LedgerIs DEF ObjInv, ObjTypes
<1> QED BY <1>0, <1>1, <1>3, <1>4, <1>5, <1>7, <1>8, QuietKeeps

\* The handle's reference goes.
LEMMA CloseHandleKeeps ==
  ASSUME ObjInv, NEW o \in Objects, CloseHandle(o), setting' = setting
  PROVE  ObjInv'
<1> DEFINE y == Deref(Now, o)
<1>0. /\ Sound(Now) /\ Calm(Now) /\ Now.stop = FALSE /\ Now.ob = ob /\ Now.owned = owned /\ Now.desc = desc
      /\ Now \in Working
  BY SoundNow
<1>1. /\ UNCHANGED <<setting, waiters, threads, apc, killed, sweep>> /\ ledger' = ledger /\ owned' = owned
      /\ o \in open /\ open' = open \ {o} /\ ob' = y.ob
  BY DEF CloseHandle
<1>2. /\ Sound(y) /\ Calm(y) /\ y.stop = FALSE
      /\ Rest(y, o) = Rest(Now, o) - 1 /\ \A p \in Objects : p # o => Rest(y, p) = Rest(Now, p)
      /\ \A p \in Objects : Balance(y, p) = Balance(Now, p) /\ y.ob[p].owner = ob[p].owner
      /\ y.desc = desc /\ y.owned = owned
  BY <1>0, DerefGives, DerefIs
<1> HIDE DEF y
<1>3. \A p \in Objects : Waiting(desc, p) \in Nat /\ Rest(Now, p) = Handles(open, p) + Waiting(desc, p)
  BY DescIs, ObjsInFacts DEF ObjInv, Accounts
<1>4. \A p \in Objects : Rest(y, p) = Handles(open', p) + Waiting(desc, p)
  BY <1>1, <1>2, <1>3 DEF Handles
<1>5. ledger' \in [Objects -> Int] /\ open' \subseteq Objects /\ \A p \in Objects : ledger'[p] = Balance(y, p)
  BY <1>1, <1>2, LedgerIs DEF ObjInv, ObjTypes
<1> QED BY <1>1, <1>2, <1>4, <1>5, QuietKeeps

LEMMA MutantReleaseKeeps ==
  ASSUME ObjInv, NEW t \in Threads, NEW o \in Objects, MutantRelease(t, o), setting' = setting
  PROVE  ObjInv'
<1>0. /\ Sound(Now) /\ Calm(Now) /\ Now.stop = FALSE /\ Now.ob = ob /\ BlocksKnown(o) /\ ob[o].owner = t
      /\ Kind[o] = "mutant" /\ o \in Mutants /\ desc[t] = None
  BY SoundNow, BlocksAreKnown, OutsideWait, MutantIs DEF MutantRelease
<1>1. ledger' = [ledger EXCEPT ![o] = @ - 1] /\ UNCHANGED <<setting, open, apc, killed, sweep>>
  BY DEF MutantRelease
<1>2. /\ ledger' \in [Objects -> Int] /\ ledger'[o] = Balance(Now, o) - 1
      /\ \A p \in Objects : p # o => ledger'[p] = Balance(Now, p)
  BY <1>1, LedgerIs
<1>3. Balance(Now, o) = ob[o].recursion /\ ob[o] \in Obs /\ Flight(Now, o) = 0
  <2>1. Flight(Now, o) = 0
    BY <1>0, NothingInFlight
  <2>2. ob[o] \in Obs /\ ob[o].recursion \in Int
    BY DescIs DEF Obs
  <2> QED BY <1>0, <2>1, <2>2 DEF Balance
<1>4. CASE ob[o].recursion = 1
  <2> DEFINE s == HandOff(Now, o)
  <2>1. Publish(s)
    BY <1>4 DEF MutantRelease
  <2>2. /\ Sound(s) /\ Calm(s) /\ s.stop = FALSE
        /\ \A p \in Objects : Rest(s, p) = Rest(Now, p)
        /\ Balance(s, o) = 0 /\ \A p \in Objects : p # o => Balance(s, p) = Balance(Now, p)
        /\ \A p \in Objects : p = o \/ s.ob[p].owner # ob[p].owner =>
             s.ob[p].owner = None \/ (s.ob[p].owner \in Threads /\ desc[s.ob[p].owner] # None)
    BY <1>0, HandOffGives
  <2> HIDE DEF s
  <2>3. \A p \in Objects : ledger'[p] = Balance(s, p)
    BY <1>2, <1>3, <1>4, <2>2
  <2> QED BY <1>1, <1>2, <2>1, <2>2, <2>3, PublishKeeps
<1>5. CASE ob[o].recursion # 1
  <2> DEFINE r == [ob[o] EXCEPT !.recursion = @ - 1]
             s == PutObject(Now, o, r)
  <2>1. Publish(s)
    <3>1. s = [Now EXCEPT !.ob[o].recursion = @ - 1]
      BY <1>0 DEF PutObject
    <3> QED BY <1>5, <3>1 DEF MutantRelease
  <2>2. r \in Obs /\ r.owner = ob[o].owner /\ r.refs = ob[o].refs /\ r.recursion = ob[o].recursion - 1
    <3>1. ob[o].recursion \in Int
      BY <1>3 DEF Obs
    <3> QED BY <1>3, <3>1 DEF Obs
  <2> HIDE DEF r
  <2>3. /\ Sound(s) /\ s.stop = FALSE /\ s.ob[o] = r
        /\ \A p \in Objects : Rest(s, p) = Rest(Now, p) /\ s.ob[p].owner = ob[p].owner
        /\ \A p \in Objects : p # o => Balance(s, p) = Balance(Now, p)
        /\ Flight(s, o) = Flight(Now, o)
        /\ (\A u \in Threads : Signaled(s, o, u) => Signaled(Now, o, u)) => Calm(s)
    BY <1>0, <2>2, AlterOwned
  <2> HIDE DEF s
  <2>4. Calm(s)
    BY <1>0, <2>3, SignaledIs
  <2>5. Balance(s, o) = Balance(Now, o) - 1
    <3>1. ob[o].recursion \in Int
      BY <1>3 DEF Obs
    <3>2. Balance(s, o) = s.ob[o].recursion - Flight(s, o)
      BY <1>0 DEF Balance
    <3> QED BY <1>3, <2>2, <2>3, <3>1, <3>2
  <2>6. \A p \in Objects : ledger'[p] = Balance(s, p)
    BY <1>2, <2>3, <2>5
  <2> QED BY <1>1, <1>2, <2>1, <2>3, <2>4, <2>6, PublishKeeps
<1> QED BY <1>4, <1>5

\* A freed place: nobody refers to it.
LEMMA FreeFacts ==
  ASSUME ObjInv, NEW o \in Objects, ob[o].refs = 0
  PROVE  /\ ob[o].owner = None /\ o \notin open /\ Waiting(desc, o) = 0
         /\ \A u \in Threads : Named(ObjsIn(desc, u), o) = {} /\ NamedTaken(desc[u], o) = {}
<1>1. Waiting(desc, o) \in Nat /\ (Waiting(desc, o) = 0 => \A u \in Threads : Named(ObjsIn(desc, u), o) = {})
  BY DescIs, ObjsInFacts
<1>2. Rest(Now, o) = Handles(open, o) + Waiting(desc, o) /\ Now.ob = ob
  BY SoundNow DEF ObjInv, Accounts
<1>3. ob[o].owner = None /\ o \notin open /\ Waiting(desc, o) = 0
  BY <1>1, <1>2 DEF Rest, Handles
<1>4. \A u \in Threads : NamedTaken(desc[u], o) = {}
  BY <1>1, <1>3 DEF NamedTaken, ObjsIn
<1> QED BY <1>1, <1>3, <1>4

LEMMA NobodyTook ==
  ASSUME NEW x, NEW o, \A u \in Threads : NamedTaken(x.desc[u], o) = {}
  PROVE  Flight(x, o) = 0
<1>1. Places(Shares(x, o)) = {}
  BY DEF Places, Shares
<1> QED BY <1>1, FS_EmptySet DEF Flight

LEMMA NobodyWaits ==
  ASSUME NEW y, NEW o \in Objects, CalmBut(y, o), \A u \in Threads : Named(ObjsIn(y.desc, u), o) = {}
  PROVE  Calm(y)
<1> SUFFICES ASSUME NEW u \in Threads, Pends(y, u), Wakes(y, u) PROVE FALSE
  BY DEF Calm
<1>1. \A i \in DOMAIN y.desc[u].objs : y.desc[u].objs[i] # o
  BY DEF Pends, ObjsIn, Named
<1>2. CASE y.desc[u].all
  BY <1>1, <1>2 DEF CalmBut, ToSet
<1>3. CASE ~ y.desc[u].all
  <2>1. PICK i \in DOMAIN y.desc[u].objs : Signaled(y, y.desc[u].objs[i], u)
    BY <1>3 DEF Wakes, Satisfiable
  <2> QED BY <1>1, <1>3, <2>1 DEF CalmBut
<1> QED BY <1>2, <1>3

\* A fresh object without an owner.
LEMMA FreshGives ==
  ASSUME ObjInv, NEW o \in Objects, ob[o].refs = 0, NEW q \in Obs, q.owner = None, q.refs = 1, q.recursion = 0
  PROVE  LET s == PutObject(Now, o, q)
         IN  /\ Sound(s) /\ Calm(s) /\ s.stop = FALSE /\ s.desc = desc /\ s.owned = owned
             /\ s.ob[o] = q /\ \A p \in Objects : p # o => s.ob[p] = ob[p]
             /\ \A p \in Objects : Rest(s, p) = Handles(open \cup {o}, p) + Waiting(desc, p)
             /\ \A p \in Objects : p # o => Balance(s, p) = Balance(Now, p)
             /\ Balance(s, o) = IF Kind[o] = "sem" THEN q.count ELSE 0
<1> DEFINE s == PutObject(Now, o, q)
<1>0. /\ Sound(Now) /\ Calm(Now) /\ Now.stop = FALSE /\ Now.ob = ob /\ Now.owned = owned /\ Now.desc = desc
      /\ Now \in Working /\ owned \in Seq(Mutants)
  BY SoundNow, DescIs
<1>1. /\ ob[o].owner = None /\ o \notin open /\ Waiting(desc, o) = 0
      /\ \A u \in Threads : Named(ObjsIn(desc, u), o) = {} /\ NamedTaken(desc[u], o) = {}
  BY FreeFacts
<1>2. /\ s \in Working /\ s.desc = desc /\ s.stop = FALSE /\ s.owned = owned
      /\ s.ob[o] = q /\ \A p \in Objects : p # o => s.ob[p] = ob[p]
  BY <1>0, PutFacts
<1> HIDE DEF s
<1>3. /\ Sound(s) /\ CalmBut(s, o)
      /\ \A p \in Objects : p # o => Balance(s, p) = Balance(Now, p) /\ Rest(s, p) = Rest(Now, p)
  BY <1>0, <1>1, <1>2, AlterFacts
<1>4. Calm(s)
  BY <1>1, <1>2, <1>3, NobodyWaits
<1>5. Flight(s, o) = 0
  BY <1>1, <1>2, NobodyTook
<1>6. Balance(s, o) = IF Kind[o] = "sem" THEN q.count ELSE 0
  BY <1>2, <1>5 DEF Balance, Obs
<1>7. Rest(s, o) = 1
  BY <1>2 DEF Rest
<1>8. \A p \in Objects : Rest(s, p) = Handles(open \cup {o}, p) + Waiting(desc, p)
  BY <1>1, <1>3, <1>7 DEF Handles, ObjInv, Accounts
<1> QED BY <1>2, <1>3, <1>4, <1>6, <1>8 DEF s

LEMMA AcquireFirst ==
  ASSUME NEW x \in Working, NEW o \in Objects, NEW t \in Threads, Kind[o] = "mutant",
         x.ob[o].count = 0, x.ob[o].recursion = 0
  PROVE  LET s == Acquire(x, o, t)
         IN  /\ s \in Working /\ s.desc = x.desc /\ s.stop = x.stop
             /\ \A p \in Objects : p # o => s.ob[p] = x.ob[p]
             /\ s.ob[o].count = 0 /\ s.ob[o].recursion = 1 /\ s.ob[o].owner = t
<1> DEFINE s == Acquire(x, o, t)
<1>1. /\ s \in Working /\ s.desc = x.desc /\ s.stop = x.stop
      /\ \A p \in Objects : p # o => s.ob[p] = x.ob[p]
      /\ s.ob[o].count = x.ob[o].count - (IF Kind[o] = "sem" THEN 1 ELSE 0)
      /\ s.ob[o].recursion = x.ob[o].recursion + (IF Kind[o] = "mutant" THEN 1 ELSE 0)
      /\ s.ob[o].owner = (IF Kind[o] = "mutant" THEN t ELSE x.ob[o].owner)
      /\ s.ob[o].refs = x.ob[o].refs + (IF Kind[o] = "mutant" /\ x.ob[o].owner = None THEN 1 ELSE 0)
      /\ s.ob[o].signaled => x.ob[o].signaled
      /\ s.owned = (IF Kind[o] = "mutant" /\ x.ob[o].owner = None THEN <<o>> \o x.owned ELSE x.owned)
  BY AcquireIs
<1> HIDE DEF s
<1>2. s.ob[o].count = 0 /\ s.ob[o].recursion = 1 /\ s.ob[o].owner = t
  BY <1>1
<1> QED BY <1>1, <1>2 DEF s

\* Its creator may own it.
LEMMA FreshOwned ==
  ASSUME ObjInv, NEW t \in Threads, NEW o \in Objects, ob[o].refs = 0, Kind[o] = "mutant"
  PROVE  LET s == MutantTake(PutObject(Now, o, New), o, t)
         IN  /\ Sound(s) /\ Calm(s) /\ s.stop = FALSE /\ s.desc = desc
             /\ s.ob[o].owner = t /\ s.ob[o].count = 0 /\ s.ob[o].recursion = 1 /\ \A p \in Objects : p # o => s.ob[p] = ob[p]
             /\ \A p \in Objects : Rest(s, p) = Handles(open \cup {o}, p) + Waiting(desc, p)
             /\ \A p \in Objects : p # o => Balance(s, p) = Balance(Now, p)
             /\ Balance(s, o) = 1
<1> DEFINE x == PutObject(Now, o, New)
           s == Acquire(x, o, t)
           m == [p \in Objects |-> 0]
<1>1. s = MutantTake(x, o, t)
  BY DEF Acquire
<1>2. New \in Obs /\ New.owner = None /\ New.refs = 1 /\ New.recursion = 0 /\ New.count = 0
  BY DEF New, Obs
<1>3. /\ Sound(x) /\ x.stop = FALSE /\ x.desc = desc /\ Calm(x)
      /\ x.ob[o] = New /\ \A p \in Objects : p # o => x.ob[p] = ob[p]
      /\ \A p \in Objects : Rest(x, p) = Handles(open \cup {o}, p) + Waiting(desc, p)
      /\ \A p \in Objects : p # o => Balance(x, p) = Balance(Now, p)
  BY ZenonT(40), <1>2, FreshGives
<1> HIDE DEF x
<1>4. x \in Working /\ OwnedListed(x)
  BY <1>3 DEF Sound
<1>5. Took(x, x, m, t)
  BY <1>4 DEF Took, Working, Obs
<1>6. m \in [Objects -> Nat]
  OBVIOUS
<1> HIDE DEF m
<1>7. Took(x, s, OneMore(m, o), t)
  BY <1>4, <1>5, <1>6, AcquireTakes
<1>8. /\ s \in Working /\ s.desc = x.desc /\ s.stop = x.stop
      /\ \A p \in Objects : p # o => s.ob[p] = x.ob[p]
      /\ s.ob[o].count = 0 /\ s.ob[o].recursion = 1 /\ s.ob[o].owner = t
  BY <1>2, <1>3, <1>4, AcquireFirst
<1> HIDE DEF s
<1>9. OwnedListed(s) /\ \A p \in Objects : Rest(s, p) = Rest(x, p)
  BY <1>4, <1>7 DEF Took
<1>10. \A u \in Threads : Named(ObjsIn(desc, u), o) = {} /\ NamedTaken(desc[u], o) = {}
  BY FreeFacts
<1>11. /\ Results(s) /\ Follows(s) /\ CalmBut(s, o)
       /\ \A p \in Objects : p # o => Balance(s, p) = Balance(x, p)
  BY <1>3, <1>8, AlterFacts
<1>12. Held(s)
  <2>1. Held(x)
    BY <1>3 DEF Sound
  <2>2. ASSUME NEW u \in Threads, NEW p \in Mutants, NamedTaken(s.desc[u], p) # {}
        PROVE  s.ob[p].owner = u
    <3>1. p # o /\ p \in Objects /\ s.ob[p] = x.ob[p] /\ s.desc[u] = x.desc[u]
      BY <1>3, <1>8, <1>10, <2>2, MutantIs DEF Mutants
    <3> QED BY <2>1, <2>2, <3>1 DEF Held
  <2> QED BY <2>2 DEF Held
<1>13. Calm(s)
  BY <1>3, <1>8, <1>10, <1>11, NobodyWaits
<1>14. Balance(s, o) = 1
  <2>1. Flight(s, o) = 0
    BY <1>3, <1>8, <1>10, NobodyTook
  <2> QED BY <1>8, <2>1 DEF Balance
<1> QED BY <1>1, <1>3, <1>8, <1>9, <1>11, <1>12, <1>13, <1>14 DEF Sound, s, x

\* What creation leaves alone.
LEMMA CreatedKeeps ==
  ASSUME ObjInv, NEW t \in Threads, NEW o \in Objects, NEW s, Created(t, o, s), setting' = setting,
         Sound(s), Calm(s), s.stop = FALSE, s.desc = desc,
         \A p \in Objects : p # o => s.ob[p] = ob[p],
         \A p \in Objects : Rest(s, p) = Handles(open \cup {o}, p) + Waiting(desc, p),
         \A p \in Objects : p # o => Balance(s, p) = Balance(Now, p),
         Balance(s, o) = s.ob[o].count + s.ob[o].recursion, Balance(s, o) \in Int,
         s.ob[o].owner \in {None, t}
  PROVE  ObjInv'
<1>1. /\ UNCHANGED <<setting, waiters, threads, apc, killed, sweep>> /\ ob' = s.ob /\ owned' = s.owned
      /\ open' = open \cup {o} /\ at[t] = "user"
      /\ ledger' = [ledger EXCEPT ![o] = s.ob[o].count + s.ob[o].recursion]
  BY DEF Created
<1>2. ledger' \in [Objects -> Int] /\ \A p \in Objects : ledger'[p] = Balance(s, p)
  BY <1>1, LedgerIs
<1>3. open' \subseteq Objects
  BY <1>1 DEF ObjInv, ObjTypes
<1>4. \A p \in Objects : s.ob[p].owner # ob[p].owner =>
         s.ob[p].owner = None \/ (s.ob[p].owner \in Threads /\ at[s.ob[p].owner] # "dead")
  BY <1>1
<1> QED BY <1>1, <1>2, <1>3, <1>4, QuietKeeps

LEMMA CreateEventKeeps ==
  ASSUME ObjInv, NEW t \in Threads, NEW o \in Objects, CreateEvent(t, o), setting' = setting
  PROVE  ObjInv'
<1>1. PICK initial \in BOOLEAN : Created(t, o, [Now EXCEPT !.ob[o] = [New EXCEPT !.signaled = initial]])
  BY DEF CreateEvent
<1> DEFINE q == [New EXCEPT !.signaled = initial]
           s == PutObject(Now, o, q)
<1>2. q \in Obs /\ q.owner = None /\ q.refs = 1 /\ q.recursion = 0 /\ q.count = 0
  BY DEF New, Obs
<1>3. Created(t, o, s) /\ ob[o].refs = 0 /\ Kind[o] # "sem"
  BY <1>1 DEF PutObject, CreateEvent, Created
<1> HIDE DEF q
<1>4. /\ Sound(s) /\ Calm(s) /\ s.stop = FALSE /\ s.desc = desc /\ s.ob[o] = q
      /\ \A p \in Objects : p # o => s.ob[p] = ob[p]
      /\ \A p \in Objects : Rest(s, p) = Handles(open \cup {o}, p) + Waiting(desc, p)
      /\ \A p \in Objects : p # o => Balance(s, p) = Balance(Now, p)
      /\ Balance(s, o) = 0
  BY ZenonT(40), <1>2, <1>3, FreshGives
<1> HIDE DEF s
<1>5. Balance(s, o) = s.ob[o].count + s.ob[o].recursion /\ Balance(s, o) \in Int /\ s.ob[o].owner \in {None, t}
  BY <1>2, <1>4
<1> QED BY <1>3, <1>4, <1>5, CreatedKeeps

LEMMA CreateSemaphoreKeeps ==
  ASSUME ObjInv, NEW t \in Threads, NEW o \in Objects, CreateSemaphore(t, o), setting' = setting
  PROVE  ObjInv'
<1>1. PICK initial \in 0 .. MaxCount : Created(t, o, [Now EXCEPT !.ob[o] = [New EXCEPT !.count = initial]])
  BY DEF CreateSemaphore
<1> DEFINE q == [New EXCEPT !.count = initial]
           s == PutObject(Now, o, q)
<1>2. q \in Obs /\ q.owner = None /\ q.refs = 1 /\ q.recursion = 0 /\ q.count = initial /\ initial \in Int
  <2>1. initial \in Int
    BY ObjectWaitAssumption
  <2> DEFINE n == New
  <2>2. n \in Obs /\ n.owner = None /\ n.refs = 1 /\ n.recursion = 0
    BY DEF New, Obs
  <2> HIDE DEF n
  <2>3. [n EXCEPT !.count = initial] \in Obs
    BY <2>1, <2>2 DEF Obs
  <2> QED BY <2>1, <2>2, <2>3 DEF n, Obs
<1>3. Created(t, o, s) /\ ob[o].refs = 0 /\ Kind[o] = "sem"
  BY <1>1 DEF PutObject, CreateSemaphore, Created
<1> HIDE DEF q
<1>4. /\ Sound(s) /\ Calm(s) /\ s.stop = FALSE /\ s.desc = desc /\ s.ob[o] = q
      /\ \A p \in Objects : p # o => s.ob[p] = ob[p]
      /\ \A p \in Objects : Rest(s, p) = Handles(open \cup {o}, p) + Waiting(desc, p)
      /\ \A p \in Objects : p # o => Balance(s, p) = Balance(Now, p)
      /\ Balance(s, o) = initial
  BY ZenonT(40), <1>2, <1>3, FreshGives
<1> HIDE DEF s
<1>5. Balance(s, o) = s.ob[o].count + s.ob[o].recursion /\ Balance(s, o) \in Int /\ s.ob[o].owner \in {None, t}
  BY <1>2, <1>4
<1> QED BY <1>3, <1>4, <1>5, CreatedKeeps

LEMMA CreateMutantKeeps ==
  ASSUME ObjInv, NEW t \in Threads, NEW o \in Objects, CreateMutant(t, o), setting' = setting
  PROVE  ObjInv'
<1> DEFINE s == PutObject(Now, o, New)
           z == MutantTake(s, o, t)
<1>1. Kind[o] = "mutant" /\ ob[o].refs = 0 /\ (Created(t, o, s) \/ Created(t, o, z))
  BY DEF CreateMutant, Created, PutObject
<1>2. New \in Obs /\ New.owner = None /\ New.refs = 1 /\ New.recursion = 0 /\ New.count = 0
  BY DEF New, Obs
<1>3. CASE Created(t, o, s)
  <2>1. /\ Sound(s) /\ Calm(s) /\ s.stop = FALSE /\ s.desc = desc /\ s.ob[o] = New
        /\ \A p \in Objects : p # o => s.ob[p] = ob[p]
        /\ \A p \in Objects : Rest(s, p) = Handles(open \cup {o}, p) + Waiting(desc, p)
        /\ \A p \in Objects : p # o => Balance(s, p) = Balance(Now, p)
        /\ Balance(s, o) = 0
    BY ZenonT(40), <1>1, <1>2, FreshGives
  <2> HIDE DEF s
  <2>2. Balance(s, o) = s.ob[o].count + s.ob[o].recursion /\ Balance(s, o) \in Int /\ s.ob[o].owner \in {None, t}
    BY <1>2, <2>1
  <2> QED BY <1>3, <2>1, <2>2, CreatedKeeps
<1>4. CASE Created(t, o, z)
  <2>1. /\ Sound(z) /\ Calm(z) /\ z.stop = FALSE /\ z.desc = desc
        /\ z.ob[o].owner = t /\ z.ob[o].count = 0 /\ z.ob[o].recursion = 1 /\ \A p \in Objects : p # o => z.ob[p] = ob[p]
        /\ \A p \in Objects : Rest(z, p) = Handles(open \cup {o}, p) + Waiting(desc, p)
        /\ \A p \in Objects : p # o => Balance(z, p) = Balance(Now, p)
        /\ Balance(z, o) = 1
    BY <1>1, FreshOwned
  <2> HIDE DEF z
  <2>2. Balance(z, o) = z.ob[o].count + z.ob[o].recursion /\ Balance(z, o) \in Int /\ z.ob[o].owner \in {None, t}
    BY <2>1
  <2> QED BY <1>4, <2>1, <2>2, CreatedKeeps
<1> QED BY <1>1, <1>3, <1>4

LEMMA RequestIs ==
  ASSUME ObjInv, NEW r \in setting.requests
  PROVE  r.objs \in Seq(Objects) /\ r.all \in BOOLEAN /\ r.timed \in BOOLEAN /\ r.alertable \in BOOLEAN
<1>1. setting \in Settings
  BY DEF ObjInv, ObjTypes
<1>2. /\ setting.objects \subseteq Objects
      /\ r \in [objs : Seq(setting.objects), all : BOOLEAN, timed : BOOLEAN, alertable : BOOLEAN]
  BY <1>1, SettingsAssumption
<1>3. r.objs \in Seq(setting.objects)
  BY <1>2
<1>4. r.objs \in Seq(Objects)
  BY <1>2, <1>3
<1> QED BY <1>2, <1>4

\* Where less is signaled, nobody who slept has a reason to wake.
LEMMA CalmLess ==
  ASSUME NEW x, NEW y, x \in Working, y.desc = x.desc, Calm(x),
         \A o \in Objects, u \in Threads : Signaled(y, o, u) => Signaled(x, o, u)
  PROVE  Calm(y)
<1> SUFFICES ASSUME NEW u \in Threads, Pends(y, u), Wakes(y, u) PROVE FALSE
  BY DEF Calm
<1>1. Pends(x, u) /\ x.desc[u] \in Waits
  BY DEF Pends, Working
<1>2. \A i \in DOMAIN x.desc[u].objs : x.desc[u].objs[i] \in Objects
  BY <1>1 DEF Waits
<1>3. Wakes(x, u)
  BY <1>2 DEF Wakes, Satisfiable
<1> QED BY <1>1, <1>3 DEF Calm

\* What the fast path takes is there to be taken.
LEMMA TakenFacts ==
  ASSUME NEW s, NEW objs \in Seq(Objects), NEW all \in BOOLEAN, NEW t \in Threads, Satisfiable(s, objs, all, t)
  PROVE  /\ Taken(s, objs, all, t) \in Seq(Objects)
         /\ \A i \in DOMAIN Taken(s, objs, all, t) : Signaled(s, Taken(s, objs, all, t)[i], t)
<1>1. CASE all
  BY <1>1 DEF Taken, Satisfiable
<1>2. CASE ~ all
  <2> DEFINE F == {i \in DOMAIN objs : Signaled(s, objs[i], t)}
             P(i) == Signaled(s, objs[i], t) /\ \A j \in 1 .. i - 1 : ~ Signaled(s, objs[j], t)
  <2>1. DOMAIN objs = 1 .. Len(objs) /\ Len(objs) \in Nat
    OBVIOUS
  <2>2. F \subseteq Nat /\ F # {}
    BY <1>2, <2>1 DEF Satisfiable
  <2>3. PICK n \in F : \A m \in F : n <= m
    <3> HIDE DEF F
    <3> QED BY <2>2, LeastNat
  <2>4. n \in DOMAIN objs /\ P(n)
    <3>1. ASSUME NEW j \in 1 .. n - 1, Signaled(s, objs[j], t) PROVE FALSE
      <4>1. j \in F
        BY <2>1, <2>3, <3>1
      <4>2. n <= j /\ n \in Nat /\ j \in Nat
        BY <2>2, <2>3, <4>1
      <4> QED BY <4>2
    <3> QED BY <2>3, <3>1
  <2>5. FirstSignaled(s, objs, t) = CHOOSE i \in DOMAIN objs : P(i)
    BY DEF FirstSignaled
  <2> HIDE DEF P
  <2>6. FirstSignaled(s, objs, t) \in DOMAIN objs /\ P(FirstSignaled(s, objs, t))
    BY <2>4, <2>5
  <2>7. objs[FirstSignaled(s, objs, t)] \in Objects /\ Signaled(s, objs[FirstSignaled(s, objs, t)], t)
    BY <2>1, <2>6 DEF P
  <2> QED BY <1>2, <2>7 DEF Taken
<1> QED BY <1>1, <1>2

\* A thread takes what is signaled for it, and knows it.
LEMMA TakingGives ==
  ASSUME ObjInv, NEW t \in Threads, desc[t] = None, NEW taken \in Seq(Objects),
         \A i \in DOMAIN taken : Signaled(Now, taken[i], t)
  PROVE  LET s == AcquireAll(Now, taken, t)
         IN  /\ Sound(s) /\ Calm(s) /\ s.stop = FALSE /\ s.desc = desc
             /\ \A o \in Objects :
                  /\ Rest(s, o) = Rest(Now, o) /\ Told(taken)[o] = Balance(s, o)
                  /\ s.ob[o].owner # ob[o].owner => s.ob[o].owner = t
             /\ Told(taken) \in [Objects -> Int]
<1> DEFINE s == AcquireAll(Now, taken, t)
           m == [o \in Objects |-> MultiplicityIn(taken, o)]
<1>0. /\ Sound(Now) /\ Calm(Now) /\ Now.stop = FALSE /\ Now.ob = ob /\ Now.owned = owned /\ Now.desc = desc
      /\ Now \in Working
  BY SoundNow
<1>1. Took(Now, s, m, t)
  BY <1>0, AcquireAllTakes
<1>2. m \in [Objects -> Nat] /\ \A o \in Objects : m[o] = MultiplicityIn(taken, o)
  BY NamedFinite
<1>3. \A o \in Objects : m[o] > 0 => Signaled(Now, o, t)
  <2> TAKE o \in Objects
  <2>1. MultiplicityIn(taken, o) = 0 <=> Named(taken, o) = {}
    BY NamedFinite
  <2> QED BY <1>2, <2>1 DEF Named
<1> HIDE DEF s, m
<1>4. \A o \in Objects, u \in Threads : Signaled(s, o, u) => Signaled(Now, o, u)
  BY <1>0, <1>1, <1>2, <1>3, TakingFalls
<1>5. /\ s \in Working /\ s.desc = desc /\ s.stop = FALSE /\ OwnedListed(s)
      /\ \A o \in Objects :
           /\ Rest(s, o) = Rest(Now, o)
           /\ s.ob[o].count = ob[o].count - (IF Kind[o] = "sem" THEN m[o] ELSE 0)
           /\ s.ob[o].recursion = ob[o].recursion + (IF Kind[o] = "mutant" THEN m[o] ELSE 0)
           /\ s.ob[o].owner = IF Kind[o] = "mutant" /\ m[o] > 0 THEN t ELSE ob[o].owner
  BY <1>0, <1>1 DEF Took, Sound
<1>6. Calm(s)
  BY <1>0, <1>4, <1>5, CalmLess
<1>7. Held(s)
  <2> SUFFICES ASSUME NEW u \in Threads, NEW o \in Mutants, NamedTaken(desc[u], o) # {}
               PROVE  s.ob[o].owner = u
    BY <1>5 DEF Held
  <2>1. ob[o].owner = u /\ o \in Objects /\ Kind[o] = "mutant" /\ u # None
    BY <1>0, ThreadsFinite DEF Sound, Held, Mutants
  <2>2. u # t
    BY DEF NamedTaken
  <2>3. ~ (m[o] > 0)
    BY <1>0, <1>3, <2>1, <2>2, SignaledIs
  <2> QED BY <1>5, <2>1, <2>3
<1>8. Results(s) /\ Follows(s)
  BY <1>0, <1>5 DEF Sound, Results, Follows
<1>9. \A o \in Objects : Flight(s, o) = Flight(Now, o)
  BY <1>0, <1>5 DEF Flight, Shares
<1>10. \A o \in Objects : Told(taken)[o] = Balance(s, o) /\ Told(taken)[o] \in Int
  <2> TAKE o \in Objects
  <2>1. ob[o].count \in Int /\ ob[o].recursion \in Int /\ Flight(Now, o) \in Int
    BY <1>0, DescIs, FlightIs DEF Obs
  <2>2. Told(taken)[o] = ledger[o] + (CASE Kind[o] = "mutant" -> m[o] [] Kind[o] = "sem" -> -m[o] [] OTHER -> 0)
    BY <1>2 DEF Told
  <2>3. ledger[o] = Balance(Now, o) /\ m[o] \in Nat
    BY <1>2, LedgerIs
  <2>4. CASE Kind[o] = "sem"
    <3>1. Told(taken)[o] = ledger[o] + (-m[o])
      BY <2>2, <2>4
    <3>2. Balance(s, o) = s.ob[o].count + Flight(s, o) /\ ledger[o] = ob[o].count + Flight(Now, o)
      BY <1>0, <2>3, <2>4 DEF Balance
    <3>3. s.ob[o].count = ob[o].count - m[o] /\ Flight(s, o) = Flight(Now, o)
      BY <1>5, <1>9, <2>4
    <3> QED BY <2>1, <2>3, <3>1, <3>2, <3>3
  <2>5. CASE Kind[o] = "mutant"
    BY <1>0, <1>5, <1>9, <2>1, <2>2, <2>3, <2>5 DEF Balance
  <2>6. CASE Kind[o] \notin {"sem", "mutant"}
    BY <2>2, <2>3, <2>6 DEF Balance
  <2> QED BY <2>4, <2>5, <2>6
<1>11. Told(taken) \in [Objects -> Int]
  <2>1. Told(taken) = [o \in Objects |-> Told(taken)[o]]
    BY DEF Told
  <2> QED BY <1>10, <2>1
<1> QED BY <1>5, <1>6, <1>7, <1>8, <1>10, <1>11 DEF Sound, s

LEMMA WaitFastKeeps ==
  ASSUME ObjInv, NEW t \in Threads, NEW r \in setting.requests, WaitFast(t, r), setting' = setting
  PROVE  ObjInv'
<1> DEFINE deliver == r.alertable /\ apc[t] > 0
           taken == Taken(Now, r.objs, r.all, t)
<1>1. /\ at[t] = "user" /\ at' = [at EXCEPT ![t] = "leave"] /\ apc' = AfterDelivery(t, deliver)
      /\ UNCHANGED <<setting, waiters, open, desc, timed, alertable, killed, sweep>>
      /\ deliver \/ Satisfiable(Now, r.objs, r.all, t)
      /\ deliver => UNCHANGED <<ob, owned, ledger>>
      /\ ~ deliver => /\ ob' = AcquireAll(Now, taken, t).ob /\ owned' = AcquireAll(Now, taken, t).owned
                      /\ ledger' = Told(taken)
  BY DEF WaitFast
<1>2. apc' \in [Threads -> Nat] /\ \A u \in Threads : u # t => apc'[u] = apc[u]
  BY <1>1 DEF AfterDelivery, ObjInv, ObjTypes
<1>3. at \in [Threads -> {"user", "blocked", "woken", "leave", "dead"}] /\ desc[t] = None /\ t \notin alertable
  BY <1>1, OutsideWait DEF ObjInv, ObjTypes
<1>4. \E s : /\ Solid(s) /\ Calm(s) /\ s.stop = FALSE /\ ob' = s.ob /\ owned' = s.owned /\ desc' = s.desc
             /\ \A o \in Objects : /\ Rest(s, o) = Rest(Now, o) /\ ledger'[o] = Balance(s, o)
                                   /\ s.ob[o].owner # ob[o].owner => s.ob[o].owner = t
             /\ ledger' \in [Objects -> Int]
  <2>1. CASE deliver
    <3>1. Solid(Now) /\ Calm(Now) /\ Now.stop = FALSE /\ ob' = Now.ob /\ owned' = Now.owned /\ desc' = Now.desc /\ Now.ob = ob
      BY <1>1, <2>1, SoundNow, SoundSolid
    <3>2. ledger' \in [Objects -> Int] /\ \A o \in Objects : ledger'[o] = Balance(Now, o)
      BY <1>1, <2>1, LedgerIs
    <3> QED BY <3>1, <3>2
  <2>2. CASE ~ deliver
    <3> DEFINE s == AcquireAll(Now, taken, t)
    <3>1. taken \in Seq(Objects) /\ \A i \in DOMAIN taken : Signaled(Now, taken[i], t)
      BY <1>1, <2>2, RequestIs, TakenFacts
    <3> HIDE DEF taken
    <3>2. /\ Sound(s) /\ Calm(s) /\ s.stop = FALSE /\ s.desc = desc
          /\ \A o \in Objects :
               /\ Rest(s, o) = Rest(Now, o) /\ Told(taken)[o] = Balance(s, o)
               /\ s.ob[o].owner # ob[o].owner => s.ob[o].owner = t
          /\ Told(taken) \in [Objects -> Int]
      BY <1>3, <3>1, TakingGives
    <3>3. ob' = s.ob /\ owned' = s.owned /\ desc' = s.desc /\ ledger' = Told(taken)
      BY <1>1, <2>2, <3>2
    <3> HIDE DEF s
    <3>4. Solid(s)
      BY <3>2, SoundSolid
    <3> QED BY <3>2, <3>3, <3>4
  <2> QED BY <2>1, <2>2
<1> HIDE DEF deliver, taken
<1>5. PICK s : /\ Solid(s) /\ Calm(s) /\ s.stop = FALSE /\ ob' = s.ob /\ owned' = s.owned /\ desc' = s.desc
               /\ \A o \in Objects : /\ Rest(s, o) = Rest(Now, o) /\ ledger'[o] = Balance(s, o)
                                     /\ s.ob[o].owner # ob[o].owner => s.ob[o].owner = t
               /\ ledger' \in [Objects -> Int]
  BY <1>4
<1>6. ObjTypes'
  BY <1>1, <1>2, <1>3, <1>5 DEF ObjInv, ObjTypes
<1>7. Sleepers'
  BY <1>1, <1>2, <1>3 DEF ObjInv, Sleepers
<1>8. Listed(waiters', desc')
  BY <1>1 DEF ObjInv
<1>9. \A o \in Objects : /\ Rest(s, o) = Handles(open', o) + Waiting(s.desc, o)
                         /\ s.ob[o].owner # None => at'[s.ob[o].owner] # "dead"
                         /\ ledger'[o] = Balance(s, o)
  <2> TAKE o \in Objects
  <2>1. Rest(s, o) = Handles(open', o) + Waiting(s.desc, o)
    BY <1>1, <1>5 DEF ObjInv, Accounts
  <2>2. s.ob[o].owner # None => s.ob[o].owner \in Threads /\ at[s.ob[o].owner] # "dead"
    BY <1>1, <1>5, OwnerLives
  <2> QED BY <1>1, <1>3, <1>5, <2>1, <2>2
<1>10. Accounts'
  BY <1>5, <1>9, AccountsNext
<1> QED BY <1>6, <1>7, <1>8, <1>10 DEF ObjInv

\* A thread's wait begins or ends: its descriptor, and references with it.
Turned(R, t, d) ==
  [ob |-> [o \in Objects |-> [ob[o] EXCEPT !.refs = R[o]]], owned |-> owned, desc |-> [desc EXCEPT ![t] = d], stop |-> FALSE]

TurnMade(s, R, t, d) ==
  /\ Solid(s) /\ Calm(s) /\ s.stop = FALSE /\ s.desc[t] = d
  /\ s.desc \in [Threads -> Waits \cup {None}] /\ \A u \in Threads : u # t => s.desc[u] = desc[u]
  /\ \A o \in Objects :
       /\ s.ob[o].owner = ob[o].owner
       /\ Rest(s, o) = Rest(Now, o) - ob[o].refs + R[o]
       /\ Kind[o] = "sem" => Balance(s, o) = Balance(Now, o) - Cardinality(NamedTaken(desc[t], o))
       /\ Kind[o] = "mutant" => Balance(s, o) = Balance(Now, o) + Cardinality(NamedTaken(desc[t], o))
       /\ Kind[o] \notin {"sem", "mutant"} => Balance(s, o) = Balance(Now, o)

LEMMA TurnedFacts ==
  ASSUME ObjInv, NEW R \in [Objects -> Int], NEW t \in Threads, NEW d \in Waits \cup {None},
         d # None => d.result = Pending /\ ~ Satisfiable(Now, d.objs, d.all, t)
  PROVE  TurnMade(Turned(R, t, d), R, t, d)
<1> DEFINE s == Turned(R, t, d)
<1>0. /\ Sound(Now) /\ Calm(Now) /\ Now.stop = FALSE /\ Now.ob = ob /\ Now.owned = owned /\ Now.desc = desc
      /\ Now \in Working
  BY SoundNow
<1>1. desc \in [Threads -> Waits \cup {None}] /\ ob \in [Objects -> Obs] /\ owned \in Seq(Mutants)
  BY DescIs
<1>2. /\ s \in Working /\ s.stop = FALSE /\ s.owned = owned /\ s.desc = [desc EXCEPT ![t] = d]
      /\ \A o \in Objects : s.ob[o] = [ob[o] EXCEPT !.refs = R[o]]
  <2>1. [o \in Objects |-> [ob[o] EXCEPT !.refs = R[o]]] \in [Objects -> Obs]
    BY <1>1 DEF Obs
  <2>2. [desc EXCEPT ![t] = d] \in [Threads -> Waits \cup {None}]
    BY <1>1
  <2> QED BY <1>1, <2>1, <2>2 DEF Turned, Working
<1> HIDE DEF s
<1>3. /\ s.desc[t] = d /\ \A u \in Threads : u # t => s.desc[u] = desc[u]
      /\ s.desc \in [Threads -> Waits \cup {None}]
  BY <1>1, <1>2
<1>4. \A o \in Objects : /\ s.ob[o].owner = ob[o].owner /\ s.ob[o].count = ob[o].count
                         /\ s.ob[o].recursion = ob[o].recursion /\ s.ob[o].signaled = ob[o].signaled
                         /\ s.ob[o].refs = R[o]
  <2> TAKE o \in Objects
  <2>1. ob[o] \in Obs /\ R[o] \in Int /\ s.ob[o] = [ob[o] EXCEPT !.refs = R[o]]
    BY <1>1, <1>2
  <2> QED BY <2>1 DEF Obs
<1>5. \A o \in Objects, u \in Threads : Signaled(s, o, u) <=> Signaled(Now, o, u)
  BY <1>0, <1>4 DEF Signaled
<1>6. OwnedListed(s)
  BY <1>0, <1>2, <1>4 DEF Sound, OwnedListed
<1>7. \A o : NamedTaken(d, o) = {}
  BY DEF NamedTaken
<1>8. Held(s)
  <2>1. \A u \in Threads, o \in Mutants : o \in Objects /\ (NamedTaken(desc[u], o) # {} => ob[o].owner = u)
    BY <1>0 DEF Sound, Held, Mutants
  <2> QED BY <1>3, <1>4, <1>7, <2>1 DEF Held
<1>9. Results(s)
  <2>1. Results(Now)
    BY <1>0 DEF Sound
  <2> QED BY <1>0, <1>3, <2>1 DEF Results
<1>10. Calm(s)
  <2> SUFFICES ASSUME NEW u \in Threads, Pends(s, u), Wakes(s, u) PROVE FALSE
    BY DEF Calm
  <2>1. /\ s.desc[u] \in Waits /\ \A i \in DOMAIN s.desc[u].objs : s.desc[u].objs[i] \in Objects
    BY <1>3 DEF Pends, Waits
  <2>2. Satisfiable(Now, s.desc[u].objs, s.desc[u].all, u)
    BY <1>5, <2>1 DEF Wakes, Satisfiable
  <2>3. CASE u = t
    BY <1>3, <2>2, <2>3 DEF Pends
  <2>4. CASE u # t
    BY <1>0, <1>3, <2>2, <2>4 DEF Calm, Pends, Wakes
  <2> QED BY <2>3, <2>4
<1>11. ASSUME NEW o \in Objects
       PROVE  /\ Rest(s, o) = Rest(Now, o) - ob[o].refs + R[o]
              /\ Kind[o] = "sem" => Balance(s, o) = Balance(Now, o) - Cardinality(NamedTaken(desc[t], o))
              /\ Kind[o] = "mutant" => Balance(s, o) = Balance(Now, o) + Cardinality(NamedTaken(desc[t], o))
              /\ Kind[o] \notin {"sem", "mutant"} => Balance(s, o) = Balance(Now, o)
  <2> DEFINE F == Shares(Now, o)
             H == Shares(s, o)
  <2>1. \A u \in Threads : IsFiniteSet(F[u]) /\ IsFiniteSet(H[u])
    BY <1>0, <1>2, SharesFinite
  <2>2. /\ \A u \in Threads : u # t => F[u] = H[u]
        /\ F[t] = NamedTaken(desc[t], o) /\ H[t] = {}
    BY <1>0, <1>3, <1>7 DEF Shares
  <2> HIDE DEF F, H
  <2>3. Cardinality(Places(H)) = Cardinality(Places(F)) - Cardinality(F[t]) + Cardinality(H[t])
    <3>1. \A u \in Threads : IsFiniteSet(F[u]) /\ IsFiniteSet(H[u]) /\ (u # t => F[u] = H[u])
      BY <2>1, <2>2
    <3> QED BY <3>1, ShareChanges
  <2>4. Cardinality(H[t]) = 0 /\ Cardinality(F[t]) \in Nat /\ Cardinality(Places(F)) \in Nat
    BY <2>1, <2>2, FS_EmptySet, FS_CardinalityType, PlacesFinite
  <2>5. Flight(s, o) = Flight(Now, o) - Cardinality(NamedTaken(desc[t], o)) /\ Flight(Now, o) \in Int
    BY <2>2, <2>3, <2>4 DEF Flight, F, H
  <2>6. /\ ob[o].refs \in Int /\ R[o] \in Int /\ ob[o].count \in Int /\ ob[o].recursion \in Int
        /\ Cardinality(NamedTaken(desc[t], o)) \in Int
    BY <1>1, <2>2, <2>4 DEF Obs
  <2>7. Rest(s, o) = Rest(Now, o) - ob[o].refs + R[o]
    BY <1>0, <1>4, <2>6 DEF Rest
  <2>8. CASE Kind[o] = "sem"
    BY <1>0, <1>4, <2>5, <2>6, <2>7, <2>8 DEF Balance
  <2>9. CASE Kind[o] = "mutant"
    BY <1>0, <1>4, <2>5, <2>6, <2>7, <2>9 DEF Balance
  <2>10. CASE Kind[o] \notin {"sem", "mutant"}
    BY <2>7, <2>10 DEF Balance
  <2> QED BY <2>8, <2>9, <2>10
<1>12. Solid(s)
  BY <1>2, <1>6, <1>8, <1>9 DEF Solid
<1> QED BY <1>2, <1>3, <1>4, <1>10, <1>11, <1>12 DEF TurnMade, s

\* The blocks of one wait, for one object.
BlocksFor(t, objs, o) == Without([i \in DOMAIN objs |-> <<t, i>>], {t} \X (DOMAIN objs \ Named(objs, o)))

LEMMA NewBlocks ==
  ASSUME NEW t \in Threads, NEW objs \in Seq(Objects), NEW o \in Objects
  PROVE  LET w == BlocksFor(t, objs, o)
         IN  /\ w \in Seq(Threads \X Nat) /\ IsInjective(w)
             /\ \A u \in Threads, i \in Nat : <<u, i>> \in ToSet(w) <=> u = t /\ i \in DOMAIN objs /\ objs[i] = o
<1> DEFINE b == [i \in DOMAIN objs |-> <<t, i>>]
           S == {t} \X (DOMAIN objs \ Named(objs, o))
           w == Without(b, S)
<1>1. DOMAIN objs = 1 .. Len(objs) /\ Len(objs) \in Nat
  OBVIOUS
<1>2. b \in Seq(Threads \X Nat) /\ DOMAIN b = DOMAIN objs /\ \A i \in DOMAIN objs : b[i] = <<t, i>>
  BY <1>1
<1>3. \A u, i : <<u, i>> \in S <=> u = t /\ i \in DOMAIN objs /\ objs[i] # o
  BY DEF Named
<1> HIDE DEF b, S
<1>4. IsInjective(b)
  BY <1>2 DEF IsInjective
<1>5. \A u, i : <<u, i>> \in ToSet(b) <=> u = t /\ i \in DOMAIN objs
  BY <1>2 DEF ToSet
<1>6. w \in Seq(Threads \X Nat) /\ IsInjective(w) /\ ToSet(w) = ToSet(b) \ S
  BY <1>2, <1>4, WithoutFacts
<1> HIDE DEF w
<1>7. \A u \in Threads, i \in Nat : <<u, i>> \in ToSet(w) <=> u = t /\ i \in DOMAIN objs /\ objs[i] = o
  BY <1>3, <1>5, <1>6
<1> QED BY <1>6, <1>7 DEF w, b, S, BlocksFor

\* The lists when t begins to wait for objs.
LEMMA LinkedLists ==
  ASSUME ObjInv, NEW t \in Threads, desc[t] = None, NEW d \in Waits, d.result = Pending,
         waiters' = [o \in Objects |-> Linked(o, BlocksFor(t, d.objs, o))],
         desc' = [desc EXCEPT ![t] = d]
  PROVE  waiters' \in [Objects -> Seq(Threads \X Nat)] /\ Listed(waiters', desc')
<1>1. d.objs \in Seq(Objects) /\ d # None
  BY ThreadsFinite DEF Waits
<1>2. desc' \in [Threads -> Waits \cup {None}] /\ desc'[t] = d /\ \A u \in Threads : u # t => desc'[u] = desc[u]
  BY DescIs
<1>3. ASSUME NEW o \in Objects
      PROVE  /\ waiters'[o] \in Seq(Threads \X Nat) /\ IsInjective(waiters'[o])
             /\ \A u \in Threads, i \in Nat :
                  <<u, i>> \in ToSet(waiters'[o]) <=>
                    /\ desc'[u] # None /\ desc'[u].result = Pending
                    /\ i \in DOMAIN desc'[u].objs /\ desc'[u].objs[i] = o
  <2> DEFINE w == BlocksFor(t, d.objs, o)
  <2>1. waiters'[o] = waiters[o] \o w
    BY DEF Linked
  <2>2. /\ w \in Seq(Threads \X Nat) /\ IsInjective(w)
        /\ \A u \in Threads, i \in Nat : <<u, i>> \in ToSet(w) <=> u = t /\ i \in DOMAIN d.objs /\ d.objs[i] = o
    BY <1>1, NewBlocks
  <2> HIDE DEF w
  <2>3. /\ waiters[o] \in Seq(Threads \X Nat) /\ IsInjective(waiters[o])
        /\ \A u \in Threads, i \in Nat :
             <<u, i>> \in ToSet(waiters[o]) <=>
               desc[u] # None /\ desc[u].result = Pending /\ i \in DOMAIN desc[u].objs /\ desc[u].objs[i] = o
    BY DEF ObjInv, Listed
  <2>4. ToSet(waiters[o]) \cap ToSet(w) = {}
    <3> SUFFICES ASSUME NEW b \in ToSet(waiters[o]), b \in ToSet(w) PROVE FALSE
      OBVIOUS
    <3>1. b \in Threads \X Nat
      BY <2>3 DEF ToSet
    <3>2. PICK u \in Threads, i \in Nat : b = <<u, i>>
      BY <3>1
    <3> QED BY <2>2, <2>3, <3>2
  <2>5. /\ waiters'[o] \in Seq(Threads \X Nat) /\ IsInjective(waiters'[o])
        /\ ToSet(waiters'[o]) = ToSet(waiters[o]) \cup ToSet(w)
    <3> DEFINE v == waiters[o]
    <3>1. v \in Seq(Threads \X Nat) /\ IsInjective(v) /\ ToSet(v) \cap ToSet(w) = {}
      BY <2>3, <2>4
    <3> HIDE DEF v
    <3>2. v \o w \in Seq(Threads \X Nat) /\ IsInjective(v \o w) /\ ToSet(v \o w) = ToSet(v) \cup ToSet(w)
      BY <2>2, <3>1, JoinLists
    <3> QED BY <2>1, <3>2 DEF v
  <2>6. ASSUME NEW u \in Threads, NEW i \in Nat
        PROVE  <<u, i>> \in ToSet(waiters'[o]) <=>
                    /\ desc'[u] # None /\ desc'[u].result = Pending
                    /\ i \in DOMAIN desc'[u].objs /\ desc'[u].objs[i] = o
    <3>1. CASE u = t
      BY <1>1, <1>2, <2>2, <2>3, <2>5, <3>1
    <3>2. CASE u # t
      BY <1>2, <2>2, <2>3, <2>5, <3>2
    <3> QED BY <3>1, <3>2
  <2> QED BY <2>5, <2>6
<1>4. waiters' = [o \in Objects |-> waiters'[o]]
  OBVIOUS
<1>5. waiters' \in [Objects -> Seq(Threads \X Nat)]
  BY <1>3, <1>4
<1>6. Listed(waiters', desc')
  BY <1>3 DEF Listed
<1> QED BY <1>5, <1>6

\* The lists when t's wait is over.
LEMMA UnlinkedLists ==
  ASSUME ObjInv, NEW t \in Threads, waiters' = WithoutBlocks(t), desc' = [desc EXCEPT ![t] = None]
  PROVE  waiters' \in [Objects -> Seq(Threads \X Nat)] /\ Listed(waiters', desc')
<1>1. desc'[t] = None /\ \A u \in Threads : u # t => desc'[u] = desc[u]
  BY DescIs
<1>2. ASSUME NEW o \in Objects
      PROVE  /\ waiters'[o] \in Seq(Threads \X Nat) /\ IsInjective(waiters'[o])
             /\ \A u \in Threads, i \in Nat :
                  <<u, i>> \in ToSet(waiters'[o]) <=>
                    /\ desc'[u] # None /\ desc'[u].result = Pending
                    /\ i \in DOMAIN desc'[u].objs /\ desc'[u].objs[i] = o
  <2>1. waiters'[o] = Without(waiters[o], {t} \X Nat)
    BY DEF WithoutBlocks
  <2>2. /\ waiters[o] \in Seq(Threads \X Nat) /\ IsInjective(waiters[o])
        /\ \A u \in Threads, i \in Nat :
             <<u, i>> \in ToSet(waiters[o]) <=>
               desc[u] # None /\ desc[u].result = Pending /\ i \in DOMAIN desc[u].objs /\ desc[u].objs[i] = o
    BY DEF ObjInv, Listed
  <2>3. /\ waiters'[o] \in Seq(Threads \X Nat) /\ IsInjective(waiters'[o])
        /\ ToSet(waiters'[o]) = ToSet(waiters[o]) \ ({t} \X Nat)
    BY <2>1, <2>2, WithoutFacts
  <2> QED BY <1>1, <2>2, <2>3
<1>3. waiters' = [o \in Objects |-> waiters'[o]]
  BY DEF WithoutBlocks
<1> QED BY <1>2, <1>3 DEF Listed

\* What a step of t that turns its wait must show of the rest.
LEMMA TurnKeeps ==
  ASSUME ObjInv, NEW R \in [Objects -> Int], NEW t \in Threads, NEW d \in Waits \cup {None},
         d # None => d.result = Pending /\ ~ Satisfiable(Now, d.objs, d.all, t),
         ob' = [o \in Objects |-> [ob[o] EXCEPT !.refs = R[o]]], desc' = [desc EXCEPT ![t] = d],
         UNCHANGED <<setting, owned, open>>, ObjTypes', Sleepers', Listed(waiters', desc'),
         \A u \in Threads : at'[u] = "dead" <=> at[u] = "dead",
         \A o \in Objects :
           /\ R[o] = ob[o].refs - MultiplicityIn(ObjsIn(desc, t), o) + MultiplicityIn(ObjsIn(desc', t), o)
           /\ Kind[o] = "sem" => ledger'[o] = ledger[o] - Cardinality(NamedTaken(desc[t], o))
           /\ Kind[o] = "mutant" => ledger'[o] = ledger[o] + Cardinality(NamedTaken(desc[t], o))
           /\ Kind[o] \notin {"sem", "mutant"} => ledger'[o] = ledger[o]
  PROVE  ObjInv'
<1> DEFINE s == Turned(R, t, d)
<1>1. /\ Solid(s) /\ Calm(s) /\ s.stop = FALSE /\ s.desc[t] = d
      /\ s.desc \in [Threads -> Waits \cup {None}] /\ \A u \in Threads : u # t => s.desc[u] = desc[u]
      /\ \A o \in Objects :
           /\ s.ob[o].owner = ob[o].owner
           /\ Rest(s, o) = Rest(Now, o) - ob[o].refs + R[o]
           /\ Kind[o] = "sem" => Balance(s, o) = Balance(Now, o) - Cardinality(NamedTaken(desc[t], o))
           /\ Kind[o] = "mutant" => Balance(s, o) = Balance(Now, o) + Cardinality(NamedTaken(desc[t], o))
           /\ Kind[o] \notin {"sem", "mutant"} => Balance(s, o) = Balance(Now, o)
  <2>1. TurnMade(s, R, t, d)
    BY TurnedFacts
  <2> HIDE DEF s
  <2> QED BY <2>1 DEF TurnMade
<1>2. ob' = s.ob /\ owned' = s.owned /\ desc' = s.desc /\ open' = open
  BY DEF Turned
<1> HIDE DEF s
<1>3. ASSUME NEW o \in Objects
      PROVE  Rest(s, o) = Handles(open', o) + Waiting(s.desc, o)
  <2>1. Waiting(s.desc, o) = Waiting(desc, o) - MultiplicityIn(ObjsIn(desc, t), o) + MultiplicityIn(ObjsIn(s.desc, t), o)
    BY <1>1, DescIs, WaitingChanges
  <2>2. /\ ObjsIn(desc, t) \in Seq(Objects) /\ ObjsIn(s.desc, t) \in Seq(Objects) /\ Waiting(desc, o) \in Nat
    BY <1>1, DescIs, ObjsInFacts
  <2>3. MultiplicityIn(ObjsIn(desc, t), o) \in Nat /\ MultiplicityIn(ObjsIn(s.desc, t), o) \in Nat
    BY <2>2, NamedFinite
  <2>4. R[o] = ob[o].refs - MultiplicityIn(ObjsIn(desc, t), o) + MultiplicityIn(ObjsIn(s.desc, t), o)
    BY <1>2
  <2>5. Rest(Now, o) = Handles(open, o) + Waiting(desc, o) /\ Handles(open, o) \in Int
    BY DEF ObjInv, Accounts, Handles
  <2>6. ob[o].refs \in Int
    BY DescIs DEF Obs
  <2>7. Rest(s, o) = Rest(Now, o) - ob[o].refs + R[o]
    BY <1>1
  <2> QED BY SMTT(20), <1>2, <2>1, <2>2, <2>3, <2>4, <2>5, <2>6, <2>7
<1>4. ASSUME NEW o \in Objects
      PROVE  ledger'[o] = Balance(s, o)
  <2> DEFINE c == Cardinality(NamedTaken(desc[t], o))
  <2>1. ledger[o] = Balance(Now, o) /\ ledger[o] \in Int
    BY LedgerIs
  <2>2. /\ Kind[o] = "sem" => Balance(s, o) = Balance(Now, o) - c
        /\ Kind[o] = "mutant" => Balance(s, o) = Balance(Now, o) + c
        /\ Kind[o] \notin {"sem", "mutant"} => Balance(s, o) = Balance(Now, o)
    BY <1>1
  <2>3. /\ Kind[o] = "sem" => ledger'[o] = ledger[o] - c
        /\ Kind[o] = "mutant" => ledger'[o] = ledger[o] + c
        /\ Kind[o] \notin {"sem", "mutant"} => ledger'[o] = ledger[o]
    OBVIOUS
  <2> HIDE DEF c
  <2> QED BY <2>1, <2>2, <2>3
<1>5. \A o \in Objects : s.ob[o].owner # None => at'[s.ob[o].owner] # "dead"
  BY <1>1, OwnerLives
<1>6. Accounts'
  BY <1>1, <1>2, <1>3, <1>4, <1>5, AccountsNext
<1> QED BY <1>6 DEF ObjInv

LEMMA WaitBlockKeeps ==
  ASSUME ObjInv, NEW t \in Threads, NEW r \in setting.requests, WaitBlock(t, r), setting' = setting
  PROVE  ObjInv'
<1> DEFINE d == [objs |-> r.objs, all |-> r.all, result |-> Pending]
           R == [o \in Objects |-> ob[o].refs + MultiplicityIn(r.objs, o)]
<1>1. /\ at[t] = "user" /\ (r.alertable => apc[t] = 0) /\ ~ Satisfiable(Now, r.objs, r.all, t)
      /\ desc' = [desc EXCEPT ![t] = d]
      /\ waiters' = [o \in Objects |-> Linked(o, BlocksFor(t, r.objs, o))]
      /\ at' = [at EXCEPT ![t] = "blocked"]
      /\ timed' = IF r.timed THEN timed \cup {t} ELSE timed
      /\ alertable' = IF r.alertable THEN alertable \cup {t} ELSE alertable
      /\ UNCHANGED <<setting, owned, open, apc, killed, sweep, ledger>>
  BY DEF WaitBlock, BlocksFor
<1>2. ob' = [o \in Objects |-> [ob[o] EXCEPT !.refs = @ + MultiplicityIn(r.objs, o)]]
  BY DEF WaitBlock
<1>3. r.objs \in Seq(Objects) /\ r.all \in BOOLEAN
  BY RequestIs
<1>4. d \in Waits /\ d # None /\ d.result = Pending /\ d.objs = r.objs /\ d.all = r.all
  BY <1>3, ThreadsFinite DEF Waits, Pending
<1> HIDE DEF d
<1>5. desc[t] = None /\ t \notin alertable
  BY <1>1, OutsideWait
<1>6. waiters' \in [Objects -> Seq(Threads \X Nat)] /\ Listed(waiters', desc')
  BY <1>1, <1>4, <1>5, LinkedLists
<1>7. ASSUME NEW o \in Objects
      PROVE  /\ MultiplicityIn(r.objs, o) \in Nat /\ ob[o].refs \in Int
             /\ MultiplicityIn(ObjsIn(desc, t), o) = 0
             /\ ObjsIn(desc', t) = r.objs
             /\ Cardinality(NamedTaken(desc[t], o)) = 0
  <2>1. MultiplicityIn(r.objs, o) \in Nat /\ ob[o].refs \in Int
    BY <1>3, NamedFinite, DescIs DEF Obs
  <2>2. ObjsIn(desc, t) = <<>> /\ NamedTaken(desc[t], o) = {}
    BY <1>5 DEF ObjsIn, NamedTaken
  <2>3. Named(<<>>, o) = {}
    BY DEF Named
  <2>4. desc'[t] = d
    BY <1>1, DescIs
  <2> QED BY <1>4, <2>1, <2>2, <2>3, <2>4, FS_EmptySet DEF MultiplicityIn, ObjsIn
<1>8. R \in [Objects -> Int] /\ ob' = [o \in Objects |-> [ob[o] EXCEPT !.refs = R[o]]]
  <2>1. \A o \in Objects : R[o] = ob[o].refs + MultiplicityIn(r.objs, o) /\ R[o] \in Int
    BY <1>7
  <2> QED BY <1>2, <1>7
<1>9. \A o \in Objects :
        /\ R[o] = ob[o].refs - MultiplicityIn(ObjsIn(desc, t), o) + MultiplicityIn(ObjsIn(desc', t), o)
        /\ Kind[o] = "sem" => ledger'[o] = ledger[o] - Cardinality(NamedTaken(desc[t], o))
        /\ Kind[o] = "mutant" => ledger'[o] = ledger[o] + Cardinality(NamedTaken(desc[t], o))
        /\ Kind[o] \notin {"sem", "mutant"} => ledger'[o] = ledger[o]
  <2> TAKE o \in Objects
  <2>1. R[o] = ob[o].refs - 0 + MultiplicityIn(r.objs, o)
    BY <1>7
  <2>2. ledger[o] \in Int /\ ledger' = ledger
    BY <1>1, LedgerIs
  <2>4. Cardinality(NamedTaken(desc[t], o)) = 0 /\ MultiplicityIn(ObjsIn(desc, t), o) = 0 /\ ObjsIn(desc', t) = r.objs
    BY <1>7
  <2> HIDE DEF R
  <2> QED BY <2>1, <2>2, <2>4
<1> HIDE DEF R
<1>10. ObjTypes'
  BY <1>1, <1>6 DEF ObjInv, ObjTypes
<1>11. Sleepers'
  <2>1. desc'[t] # None /\ \A u \in Threads : u # t => desc'[u] = desc[u]
    BY <1>1, <1>4, DescIs
  <2>2. at'[t] = "blocked" /\ \A u \in Threads : u # t => at'[u] = at[u]
    BY <1>1 DEF ObjInv, ObjTypes
  <2>3. /\ apc' = apc /\ killed' = killed /\ sweep' = sweep /\ (t \in alertable' => apc[t] = 0)
        /\ \A u \in Threads : u # t => (u \in alertable' <=> u \in alertable) /\ (u \in timed' <=> u \in timed)
    BY <1>1, <1>5
  <2>4. at[t] = "user"
    BY <1>1
  <2> QED BY <2>1, <2>2, <2>3, <2>4 DEF ObjInv, Sleepers
<1>12. \A u \in Threads : at'[u] = "dead" <=> at[u] = "dead"
  BY <1>1 DEF ObjInv, ObjTypes
<1>13. setting' = setting /\ owned' = owned /\ open' = open /\ desc' = [desc EXCEPT ![t] = d]
  BY <1>1
<1> QED BY ZenonT(40), <1>1, <1>4, <1>6, <1>8, <1>9, <1>10, <1>11, <1>12, <1>13, TurnKeeps

\* After the block: what the caller is told is what the grant took.
LEMMA TakenByWait ==
  ASSUME ObjInv, NEW t \in Threads, NEW o \in Objects
  PROVE  LET d == desc[t]
             taken == IF ~Granted(t) THEN <<>> ELSE IF d.all THEN d.objs ELSE <<d.objs[d.result]>>
         IN  MultiplicityIn(taken, o) = Cardinality(NamedTaken(d, o))
<1> DEFINE d == desc[t]
           taken == IF ~Granted(t) THEN <<>> ELSE IF d.all THEN d.objs ELSE <<d.objs[d.result]>>
<1>1. CASE ~ Granted(t)
  <2>1. taken = <<>> /\ NamedTaken(d, o) = {}
    BY <1>1 DEF Granted, NamedTaken
  <2>2. Named(<<>>, o) = {}
    BY DEF Named
  <2> QED BY <2>1, <2>2 DEF MultiplicityIn
<1>2. CASE Granted(t) /\ d.all
  BY <1>2 DEF Granted, NamedTaken, MultiplicityIn
<1>3. CASE Granted(t) /\ ~ d.all
  <2>1. d \in Waits /\ d.result \in DOMAIN d.objs /\ d # None /\ d.result # Pending
    <3>1. Results(Now) /\ Now.desc = desc
      BY SoundNow DEF Sound
    <3> QED BY <1>3, <3>1, DescIs DEF Results, Granted
  <2>2. taken = <<d.objs[d.result]>> /\ NamedTaken(d, o) = Named(d.objs, o) \cap {d.result}
    BY <1>3, <2>1 DEF NamedTaken
  <2> HIDE DEF d
  <2>3. CASE d.objs[d.result] = o
    <3>1. NamedTaken(d, o) = {d.result}
      BY <2>1, <2>2, <2>3 DEF Named
    <3>2. Named(<<o>>, o) = {1}
      BY DEF Named
    <3> HIDE DEF taken
    <3> QED BY <2>2, <2>3, <3>1, <3>2, FS_Singleton DEF MultiplicityIn, taken, d
  <2>4. CASE d.objs[d.result] # o
    <3>1. NamedTaken(d, o) = {}
      BY <2>2, <2>4 DEF Named
    <3>2. Named(<<d.objs[d.result]>>, o) = {}
      BY <2>4 DEF Named
    <3> QED BY <2>2, <3>1, <3>2 DEF MultiplicityIn, d
  <2> QED BY <2>3, <2>4 DEF d
<1> QED BY <1>1, <1>2, <1>3

LEMMA ResumeKeeps ==
  ASSUME ObjInv, NEW t \in Threads, Resume(t), setting' = setting
  PROVE  ObjInv'
<1> DEFINE d == desc[t]
           taken == IF ~Granted(t) THEN <<>> ELSE IF d.all THEN d.objs ELSE <<d.objs[d.result]>>
           deliver == ~Granted(t) /\ t \in alertable /\ apc[t] > 0
           R == [o \in Objects |-> ob[o].refs - MultiplicityIn(ObjsIn(desc, t), o)]
<1>1. /\ at[t] = "woken" /\ waiters' = WithoutBlocks(t)
      /\ ob' = [o \in Objects |-> [ob[o] EXCEPT !.refs = @ - MultiplicityIn(ObjsIn(desc, t), o)]]
      /\ desc' = [desc EXCEPT ![t] = None] /\ at' = [at EXCEPT ![t] = "leave"]
      /\ timed' = timed \ {t} /\ alertable' = alertable \ {t}
      /\ apc' = AfterDelivery(t, deliver) /\ ledger' = Told(taken)
      /\ UNCHANGED <<setting, owned, open, killed, sweep>>
  BY DEF Resume, ObjsOf, ObjsIn
<1>2. waiters' \in [Objects -> Seq(Threads \X Nat)] /\ Listed(waiters', desc')
  BY <1>1, UnlinkedLists
<1>3. apc' \in [Threads -> Nat] /\ \A u \in Threads : u # t => apc'[u] = apc[u]
  BY <1>1 DEF AfterDelivery, ObjInv, ObjTypes
<1>4. ASSUME NEW o \in Objects
      PROVE  /\ MultiplicityIn(ObjsIn(desc, t), o) \in Nat /\ ob[o].refs \in Int
             /\ MultiplicityIn(ObjsIn(desc', t), o) = 0
  <2>1. MultiplicityIn(ObjsIn(desc, t), o) \in Nat /\ ob[o].refs \in Int
    <3>1. ObjsIn(desc, t) \in Seq(Objects)
      BY DescIs, ObjsInFacts
    <3> QED BY <3>1, NamedFinite, DescIs DEF Obs
  <2>2. ObjsIn(desc', t) = <<>>
    BY <1>1, DescIs DEF ObjsIn
  <2>3. Named(<<>>, o) = {}
    BY DEF Named
  <2> QED BY <2>1, <2>2, <2>3, FS_EmptySet DEF MultiplicityIn
<1>5. R \in [Objects -> Int] /\ ob' = [o \in Objects |-> [ob[o] EXCEPT !.refs = R[o]]]
  <2>1. \A o \in Objects : R[o] = ob[o].refs - MultiplicityIn(ObjsIn(desc, t), o) /\ R[o] \in Int
    BY <1>4
  <2> QED BY <1>1, <1>4
<1>6. ASSUME NEW o \in Objects
      PROVE  /\ R[o] = ob[o].refs - MultiplicityIn(ObjsIn(desc, t), o) + MultiplicityIn(ObjsIn(desc', t), o)
             /\ Kind[o] = "sem" => ledger'[o] = ledger[o] - Cardinality(NamedTaken(desc[t], o))
             /\ Kind[o] = "mutant" => ledger'[o] = ledger[o] + Cardinality(NamedTaken(desc[t], o))
             /\ Kind[o] \notin {"sem", "mutant"} => ledger'[o] = ledger[o]
             /\ ledger'[o] \in Int
  <2> DEFINE c == Cardinality(NamedTaken(desc[t], o))
  <2>1. R[o] = ob[o].refs - MultiplicityIn(ObjsIn(desc, t), o) + 0
    BY <1>4
  <2>2. MultiplicityIn(taken, o) = c
    BY TakenByWait
  <2>3. ledger'[o] = ledger[o] + (CASE Kind[o] = "mutant" -> c [] Kind[o] = "sem" -> -c [] OTHER -> 0)
    <3> HIDE DEF taken, c
    <3> QED BY <1>1, <2>2 DEF Told
  <2>4. c \in Nat /\ ledger[o] \in Int
    <3>1. IsFiniteSet(NamedTaken(desc[t], o))
      BY SoundNow, SharesFinite
    <3> QED BY <3>1, FS_CardinalityType, LedgerIs
  <2> HIDE DEF R, c
  <2>5. CASE Kind[o] = "sem"
    <3>1. ledger'[o] = ledger[o] + (-c)
      BY <2>3, <2>5
    <3>2. ledger'[o] = ledger[o] - c /\ ledger'[o] \in Int
      BY <2>4, <3>1
    <3> QED BY <1>4, <2>1, <2>5, <3>2 DEF c
  <2>6. CASE Kind[o] = "mutant"
    <3>1. ledger'[o] = ledger[o] + c
      BY <2>3, <2>6
    <3>2. ledger'[o] \in Int
      BY <2>4, <3>1
    <3> QED BY <1>4, <2>1, <2>6, <3>1, <3>2 DEF c
  <2>7. CASE Kind[o] \notin {"sem", "mutant"}
    <3>1. ledger'[o] = ledger[o] + 0
      BY <2>3, <2>7
    <3>2. ledger'[o] = ledger[o] /\ ledger'[o] \in Int
      BY <2>4, <3>1
    <3> QED BY <1>4, <2>1, <2>7, <3>2
  <2> QED BY <2>5, <2>6, <2>7
<1> HIDE DEF R
<1>7. ledger' \in [Objects -> Int]
  <2>1. ledger' = [o \in Objects |-> ledger'[o]]
    BY <1>1 DEF Told
  <2> QED BY <1>6, <2>1
<1> HIDE DEF taken, deliver
<1>8. ObjTypes'
  BY <1>1, <1>2, <1>3, <1>7 DEF ObjInv, ObjTypes
<1>9. Sleepers'
  <2>1. desc'[t] = None /\ \A u \in Threads : u # t => desc'[u] = desc[u]
    BY <1>1, DescIs
  <2>2. at'[t] = "leave" /\ \A u \in Threads : u # t => at'[u] = at[u]
    BY <1>1 DEF ObjInv, ObjTypes
  <2>3. /\ killed' = killed /\ sweep' = sweep /\ t \notin alertable'
        /\ \A u \in Threads : u # t => (u \in alertable' <=> u \in alertable) /\ (u \in timed' <=> u \in timed)
    BY <1>1
  <2> QED BY <1>1, <1>3, <2>1, <2>2, <2>3 DEF ObjInv, Sleepers
<1>10. \A u \in Threads : at'[u] = "dead" <=> at[u] = "dead"
  BY <1>1 DEF ObjInv, ObjTypes
<1> DEFINE e == None
<1>11. /\ e \in Waits \cup {None} /\ desc' = [desc EXCEPT ![t] = e]
       /\ e # None => e.result = Pending /\ ~ Satisfiable(Now, e.objs, e.all, t)
  BY <1>1
<1> HIDE DEF e
<1>12. \A o \in Objects :
         /\ R[o] = ob[o].refs - MultiplicityIn(ObjsIn(desc, t), o) + MultiplicityIn(ObjsIn(desc', t), o)
         /\ Kind[o] = "sem" => ledger'[o] = ledger[o] - Cardinality(NamedTaken(desc[t], o))
         /\ Kind[o] = "mutant" => ledger'[o] = ledger[o] + Cardinality(NamedTaken(desc[t], o))
         /\ Kind[o] \notin {"sem", "mutant"} => ledger'[o] = ledger[o]
  BY <1>6
<1>13. UNCHANGED <<setting, owned, open>>
  BY <1>1
<1> QED BY ZenonT(40), <1>2, <1>5, <1>8, <1>9, <1>10, <1>11, <1>12, <1>13, TurnKeeps

\* A step that leaves the objects alone.
LEMMA StillKeeps ==
  ASSUME ObjInv, UNCHANGED <<setting, objects, open, desc, ledger>>, ObjTypes', Sleepers',
         \A u \in Threads : at'[u] = "dead" <=> at[u] = "dead"
  PROVE  ObjInv'
<1>1. /\ ob' = ob /\ owned' = owned /\ desc' = desc /\ waiters' = waiters /\ open' = open /\ ledger' = ledger
      /\ setting' = setting
  BY DEF objects
<1>2. Listed(waiters', desc')
  BY <1>1 DEF ObjInv
<1>3. Solid(Now) /\ Calm(Now) /\ Now.stop = FALSE /\ ob' = Now.ob /\ owned' = Now.owned /\ desc' = Now.desc /\ Now.ob = ob
  BY <1>1, SoundNow, SoundSolid
<1>4. \A o \in Objects : /\ Rest(Now, o) = Handles(open', o) + Waiting(Now.desc, o)
                         /\ Now.ob[o].owner # None => at'[Now.ob[o].owner] # "dead"
                         /\ ledger'[o] = Balance(Now, o)
  BY <1>1, <1>3, OwnerLives DEF ObjInv, Accounts
<1>5. Accounts'
  BY <1>3, <1>4, AccountsNext
<1> QED BY <1>2, <1>5 DEF ObjInv

LEMMA DelayKeeps ==
  ASSUME ObjInv, NEW t \in Threads, NEW r \in setting.requests, Delay(t, r), setting' = setting
  PROVE  ObjInv'
<1>1. /\ at[t] = "user" /\ (r.timed \/ r.alertable) /\ (r.alertable => apc[t] = 0)
      /\ at' = [at EXCEPT ![t] = "blocked"]
      /\ timed' = IF r.timed THEN timed \cup {t} ELSE timed
      /\ alertable' = IF r.alertable THEN alertable \cup {t} ELSE alertable
      /\ UNCHANGED <<setting, objects, open, desc, apc, killed, sweep, ledger>>
  BY DEF Delay
<1>2. desc[t] = None /\ t \notin alertable
  BY <1>1, OutsideWait
<1>3. ObjTypes'
  BY <1>1 DEF objects, ObjInv, ObjTypes
<1>4. Sleepers'
  BY <1>1, <1>2 DEF ObjInv, ObjTypes, Sleepers
<1>5. \A u \in Threads : at'[u] = "dead" <=> at[u] = "dead"
  BY <1>1 DEF ObjInv, ObjTypes
<1> QED BY <1>1, <1>3, <1>4, <1>5, StillKeeps

LEMMA LeaveKeeps ==
  ASSUME ObjInv, NEW t \in Threads, Leave(t), setting' = setting
  PROVE  ObjInv'
<1>1. /\ at[t] = "leave" /\ at' = [at EXCEPT ![t] = "user"]
      /\ UNCHANGED <<setting, objects, open, desc, timed, alertable, apc, killed, sweep, ledger>>
  BY DEF Leave
<1>2. desc[t] = None /\ t \notin alertable
  BY <1>1, OutsideWait
<1>3. ObjTypes'
  BY <1>1 DEF objects, ObjInv, ObjTypes
<1>4. Sleepers'
  BY <1>1, <1>2 DEF ObjInv, ObjTypes, Sleepers
<1>5. \A u \in Threads : at'[u] = "dead" <=> at[u] = "dead"
  BY <1>1 DEF ObjInv, ObjTypes
<1> QED BY <1>1, <1>3, <1>4, <1>5, StillKeeps

\* Time-outs, APCs, terminations and sweeps: somebody is woken.
LEMMA WakingKeeps ==
  ASSUME ObjInv, NEW S, Wake(S), UNCHANGED <<setting, objects, open, desc, ledger, alertable>>,
         apc' \in [Threads -> Nat], killed' \subseteq Threads, sweep' \in BOOLEAN,
         \A t \in Threads \ S : t \in alertable => apc'[t] = apc[t],
         \A t \in Threads : t \in killed' /\ at[t] # "dead" => sweep'
  PROVE  ObjInv'
<1>1. /\ at' \in [Threads -> {"user", "blocked", "woken", "leave", "dead"}]
      /\ timed' \subseteq Threads /\ alertable' \subseteq Threads
      /\ \A t \in Threads :
           /\ desc'[t] # None \/ t \in alertable' => at'[t] \in {"blocked", "woken"}
           /\ at'[t] = "blocked" => desc'[t] # None \/ t \in alertable' \/ t \in timed'
           /\ at'[t] = "blocked" /\ t \in alertable' => apc'[t] = 0
           /\ at'[t] = "dead" <=> at[t] = "dead"
  BY WakeKeeps
<1>2. ObjTypes'
  BY <1>1 DEF objects, ObjInv, ObjTypes
<1>3. Sleepers'
  BY <1>1 DEF Sleepers
<1> QED BY <1>1, <1>2, <1>3, StillKeeps

LEMMA ExpireKeeps ==
  ASSUME ObjInv, NEW t \in Threads, Expire(t), setting' = setting
  PROVE  ObjInv'
<1>1. Wake({t}) /\ UNCHANGED <<setting, objects, open, desc, ledger, alertable, apc, killed, sweep>>
  BY DEF Expire
<1>2. /\ apc' \in [Threads -> Nat] /\ killed' \subseteq Threads /\ sweep' \in BOOLEAN
      /\ \A u \in Threads : u \in killed' /\ at[u] # "dead" => sweep'
  BY <1>1 DEF ObjInv, ObjTypes, Sleepers
<1> QED BY <1>1, <1>2, WakingKeeps

LEMMA QueueApcKeeps ==
  ASSUME ObjInv, NEW t \in Threads, QueueApc(t), setting' = setting
  PROVE  ObjInv'
<1>1. /\ Wake(Alerted(t)) /\ UNCHANGED <<setting, objects, open, desc, ledger, alertable, killed, sweep>>
      /\ apc' = [apc EXCEPT ![t] = @ + 1]
  BY DEF QueueApc
<1>2. /\ apc' \in [Threads -> Nat] /\ killed' \subseteq Threads /\ sweep' \in BOOLEAN
      /\ \A u \in Threads : u \in killed' /\ at[u] # "dead" => sweep'
  BY <1>1 DEF ObjInv, ObjTypes, Sleepers
<1>3. \A u \in Threads \ Alerted(t) : u \in alertable => apc'[u] = apc[u]
  BY <1>1 DEF Alerted, ObjInv, ObjTypes
<1> QED BY <1>1, <1>2, <1>3, WakingKeeps

LEMMA TerminateKeeps ==
  ASSUME ObjInv, NEW t \in Threads, Terminate(t), setting' = setting
  PROVE  ObjInv'
<1>1. /\ Wake(IF Interruptible(t) THEN {t} ELSE {}) /\ killed' = killed \cup {t} /\ sweep' = TRUE
      /\ UNCHANGED <<setting, objects, open, desc, ledger, alertable, apc>>
  BY DEF Terminate
<1>2. apc' \in [Threads -> Nat] /\ killed' \subseteq Threads /\ sweep' \in BOOLEAN
  BY <1>1 DEF ObjInv, ObjTypes
<1> QED BY <1>1, <1>2, WakingKeeps

LEMMA KillSweepKeeps ==
  ASSUME ObjInv, KillSweep, setting' = setting
  PROVE  ObjInv'
<1>1. /\ Wake({t \in Victims : Interruptible(t)}) /\ sweep' = (Victims # {}) /\ killed' = killed
      /\ UNCHANGED <<setting, objects, open, desc, ledger, alertable, apc>>
  BY DEF KillSweep
<1>2. apc' \in [Threads -> Nat] /\ killed' \subseteq Threads /\ sweep' \in BOOLEAN
  BY <1>1 DEF ObjInv, ObjTypes
<1>3. \A u \in Threads : u \in killed' /\ at[u] # "dead" => sweep'
  BY <1>1 DEF Victims
<1> QED BY <1>1, <1>2, <1>3, WakingKeeps

LEMMA SignalThreadGives ==
  ASSUME ObjInv, NEW s, Sound(s), Calm(s), s.stop = FALSE, NEW t \in Threads
  PROVE  LET z == SignalThread(s, t)
         IN  /\ Sound(z) /\ Calm(z) /\ z.stop = FALSE
             /\ \A p \in Objects :
                  /\ Rest(z, p) = Rest(s, p) /\ Balance(z, p) = Balance(s, p)
                  /\ z.ob[p].owner # s.ob[p].owner =>
                       s.ob[p].owner = None /\ z.ob[p].owner \in Threads /\ desc[z.ob[p].owner] # None
<1> DEFINE mine == {o \in open : Kind[o] = "thread" /\ setting.subject = t}
<1>1. CASE mine = {}
  BY <1>1 DEF SignalThread
<1>2. CASE mine # {}
  <2> DEFINE o == CHOOSE x \in mine : TRUE
             z == ReleaseCheck([s EXCEPT !.ob[o].signaled = TRUE], o)
  <2>1. o \in mine
    BY <1>2
  <2>2. o \in Objects /\ Kind[o] \notin {"sem", "mutant"}
    BY <2>1 DEF ObjInv, ObjTypes
  <2>3. SignalThread(s, t) = z
    BY <1>2 DEF SignalThread
  <2> HIDE DEF o
  <2>4. /\ Sound(z) /\ Calm(z) /\ z.stop = FALSE
        /\ \A p \in Objects :
             /\ Rest(z, p) = Rest(s, p) /\ Balance(z, p) = Balance(s, p)
             /\ z.ob[p].owner # s.ob[p].owner =>
                  s.ob[p].owner = None /\ z.ob[p].owner \in Threads /\ desc[z.ob[p].owner] # None
    BY <2>2, BlocksAreKnown, SignalGives
  <2> HIDE DEF z
  <2> QED BY <2>3, <2>4
<1> QED BY <1>1, <1>2

\* A thread ends: what it owned is abandoned and its object signaled.
LEMMA ExitGives ==
  ASSUME ObjInv, NEW t \in Threads, desc[t] = None
  PROVE  LET s == SignalThread(Abandon(Now, t), t)
         IN  /\ Sound(s) /\ Calm(s) /\ s.stop = FALSE
             /\ \A o \in Objects :
                  /\ Rest(s, o) = Rest(Now, o)
                  /\ Balance(s, o) = IF ob[o].owner = t THEN 0 ELSE Balance(Now, o)
                  /\ s.ob[o].owner # None => s.ob[o].owner # t /\ s.ob[o].owner \in Threads /\ at[s.ob[o].owner] # "dead"
<1> DEFINE x == Abandon(Now, t)
           s == SignalThread(x, t)
<1>0. /\ Sound(Now) /\ Calm(Now) /\ Now.stop = FALSE /\ Now.ob = ob /\ \A o \in Objects : BlocksKnown(o)
  BY SoundNow, BlocksAreKnown
<1>1. Abandoned(Now, x, t, OwnedBy(Now, t)) /\ OwnedBy(x, t) = {}
  BY <1>0, AbandonGives
<1> HIDE DEF x
<1>2. /\ Sound(x) /\ Calm(x) /\ x.stop = FALSE
      /\ \A o \in Objects :
           /\ Rest(x, o) = Rest(Now, o)
           /\ Balance(x, o) = IF o \in OwnedBy(Now, t) THEN 0 ELSE Balance(Now, o)
           /\ x.ob[o].owner # ob[o].owner =>
                x.ob[o].owner = None \/ (x.ob[o].owner \in Threads /\ desc[x.ob[o].owner] # None)
  BY <1>0, <1>1 DEF Abandoned
<1>3. /\ Sound(s) /\ Calm(s) /\ s.stop = FALSE
      /\ \A p \in Objects :
           /\ Rest(s, p) = Rest(x, p) /\ Balance(s, p) = Balance(x, p)
           /\ s.ob[p].owner # x.ob[p].owner =>
                x.ob[p].owner = None /\ s.ob[p].owner \in Threads /\ desc[s.ob[p].owner] # None
  BY <1>2, SignalThreadGives
<1> HIDE DEF s
<1>4. \A o \in Objects : ob[o].owner = t <=> o \in OwnedBy(Now, t)
  BY <1>0, OwnedFinite
<1>5. \A o \in Objects : x.ob[o].owner # t
  BY <1>1, <1>2, OwnedFinite
<1>6. ASSUME NEW o \in Objects, s.ob[o].owner # None
      PROVE  s.ob[o].owner # t /\ s.ob[o].owner \in Threads /\ at[s.ob[o].owner] # "dead"
  <2>1. CASE s.ob[o].owner # x.ob[o].owner
    BY <1>3, <2>1, OwnerLives
  <2>2. CASE s.ob[o].owner = x.ob[o].owner /\ x.ob[o].owner # ob[o].owner
    BY <1>2, <1>5, <1>6, <2>2, OwnerLives
  <2>3. CASE s.ob[o].owner = x.ob[o].owner /\ x.ob[o].owner = ob[o].owner
    BY <1>5, <1>6, <2>3, OwnerLives
  <2> QED BY <2>1, <2>2, <2>3
<1>7. \A o \in Objects : /\ Rest(s, o) = Rest(Now, o)
                         /\ Balance(s, o) = IF ob[o].owner = t THEN 0 ELSE Balance(Now, o)
  BY <1>2, <1>3, <1>4
<1> QED BY <1>3, <1>6, <1>7 DEF s, x

LEMMA ExitKeeps ==
  ASSUME ObjInv, NEW t \in Threads, at[t] \in {"user", "leave"}, Exit(t), setting' = setting
  PROVE  ObjInv'
<1> DEFINE s == SignalThread(Abandon(Now, t), t)
<1>1. /\ ob' = s.ob /\ owned' = s.owned /\ desc' = s.desc /\ waiters' = StillPending(s)
      /\ at' = [u \in Threads |-> IF u = t THEN "dead"
                                  ELSE IF u \in GrantedIn(s) /\ at[u] = "blocked" THEN "woken" ELSE at[u]]
      /\ timed' = timed \ {u \in GrantedIn(s) : at[u] = "blocked"}
      /\ apc' = [apc EXCEPT ![t] = 0]
      /\ ledger' = [o \in Objects |-> IF ob[o].owner = t THEN 0 ELSE ledger[o]]
      /\ setting' = setting /\ open' = open /\ alertable' = alertable /\ killed' = killed /\ sweep' = sweep
  BY DEF Exit
<1>2. desc[t] = None /\ t \notin alertable
  BY OutsideWait
<1>3. /\ Sound(s) /\ Calm(s) /\ s.stop = FALSE
      /\ \A o \in Objects :
           /\ Rest(s, o) = Rest(Now, o)
           /\ Balance(s, o) = IF ob[o].owner = t THEN 0 ELSE Balance(Now, o)
           /\ s.ob[o].owner # None => s.ob[o].owner # t /\ s.ob[o].owner \in Threads /\ at[s.ob[o].owner] # "dead"
  BY <1>2, ExitGives
<1> HIDE DEF s
<1>4. Solid(s) /\ \A u \in Threads : desc'[u] = None <=> desc[u] = None
  BY <1>1, <1>3, SoundSolid
<1>5. waiters' \in [Objects -> Seq(Threads \X Nat)] /\ Listed(waiters', desc')
  BY <1>1, <1>3, ListedKept
<1>6. at \in [Threads -> {"user", "blocked", "woken", "leave", "dead"}] /\ timed \subseteq Threads /\ apc \in [Threads -> Nat]
  BY DEF ObjInv, ObjTypes
<1>7. at' \in [Threads -> {"user", "blocked", "woken", "leave", "dead"}] /\ timed' \subseteq Threads /\ apc' \in [Threads -> Nat]
  BY <1>1, <1>6
<1>8. ledger' \in [Objects -> Int] /\ \A o \in Objects : ledger'[o] = Balance(s, o)
  BY <1>1, <1>3, LedgerIs
<1>9. ObjTypes'
  BY <1>1, <1>5, <1>7, <1>8 DEF ObjInv, ObjTypes
<1>10. Sleepers'
  <2> SUFFICES ASSUME NEW u \in Threads
               PROVE  /\ desc'[u] # None \/ u \in alertable' => at'[u] \in {"blocked", "woken"}
                      /\ at'[u] = "blocked" => desc'[u] # None \/ u \in alertable' \/ u \in timed'
                      /\ at'[u] = "blocked" /\ u \in alertable' => apc'[u] = 0
                      /\ u \in killed' /\ at'[u] # "dead" => sweep'
    BY DEF Sleepers
  <2>1. /\ desc[u] # None \/ u \in alertable => at[u] \in {"blocked", "woken"}
        /\ at[u] = "blocked" => desc[u] # None \/ u \in alertable \/ u \in timed
        /\ at[u] = "blocked" /\ u \in alertable => apc[u] = 0
        /\ u \in killed /\ at[u] # "dead" => sweep
    BY DEF ObjInv, Sleepers
  <2>2. CASE u = t
    BY <1>1, <1>2, <1>4, <2>2
  <2>3. CASE u # t
    BY <1>1, <1>4, <1>6, <2>1, <2>3
  <2> QED BY <2>2, <2>3
<1>11. \A o \in Objects : /\ Rest(s, o) = Handles(open', o) + Waiting(s.desc, o)
                          /\ s.ob[o].owner # None => at'[s.ob[o].owner] # "dead"
                          /\ ledger'[o] = Balance(s, o)
  <2> TAKE o \in Objects
  <2>1. Rest(s, o) = Handles(open', o) + Waiting(s.desc, o)
    BY <1>1, <1>3, WaitingKept DEF ObjInv, Accounts
  <2>2. s.ob[o].owner # None => at'[s.ob[o].owner] # "dead"
    BY <1>1, <1>3, <1>6
  <2> QED BY <1>8, <2>1, <2>2
<1>12. Accounts'
  BY <1>1, <1>3, <1>4, <1>11, AccountsNext
<1> QED BY <1>5, <1>9, <1>10, <1>12 DEF ObjInv

LEMMA InitAccounts == Init => ObjInv
<1> SUFFICES ASSUME Init PROVE ObjInv
  OBVIOUS
<1>1. /\ setting \in Settings /\ ob = [o \in Objects |-> [New EXCEPT !.refs = IF o \in setting.objects THEN 1 ELSE 0]]
      /\ waiters = [o \in Objects |-> <<>>] /\ owned = <<>> /\ open = setting.objects
      /\ desc = [t \in Threads |-> None]
      /\ at = [t \in Threads |-> IF t \in setting.threads THEN "user" ELSE "dead"]
      /\ timed = {} /\ alertable = {} /\ killed = {} /\ apc = [t \in Threads |-> 0]
      /\ sweep = FALSE /\ ledger = [o \in Objects |-> 0]
  BY DEF Init
<1>2. setting.objects \subseteq Objects
  BY <1>1, SettingsAssumption
<1>3. waiters \in [Objects -> Seq(Threads \X Nat)]
  BY <1>1
<1>4. ObjTypes
  <2>1. apc \in [Threads -> Nat] /\ ledger \in [Objects -> Int]
    BY <1>1
  <2>2. at \in [Threads -> {"user", "blocked", "woken", "leave", "dead"}]
    BY <1>1
  <2>3. open \subseteq Objects /\ timed \subseteq Threads /\ alertable \subseteq Threads /\ killed \subseteq Threads
    BY <1>1, <1>2
  <2> QED BY <1>1, <1>3, <2>1, <2>2, <2>3 DEF ObjTypes
<1>5. Sleepers
  BY <1>1 DEF Sleepers
<1>6. Listed(waiters, desc)
  <2> SUFFICES ASSUME NEW o \in Objects
               PROVE  waiters[o] \in Seq(Threads \X Nat) /\ IsInjective(waiters[o]) /\ ToSet(waiters[o]) = {}
    BY <1>1 DEF Listed
  <2>1. waiters[o] = <<>>
    BY <1>1
  <2> QED BY <2>1 DEF IsInjective, ToSet
<1>7. \A o \in Objects : /\ ob[o].owner = None /\ ob[o].count = 0 /\ ob[o].recursion = 0
                         /\ ob[o].refs = Handles(open, o) /\ ob[o] \in Obs
  <2> TAKE o \in Objects
  <2> DEFINE n == New
             h == IF o \in setting.objects THEN 1 ELSE 0
  <2>1. n \in Obs /\ n.owner = None /\ n.count = 0 /\ n.recursion = 0
    BY DEF New, Obs
  <2>2. h \in Int /\ h = Handles(open, o)
    BY <1>1 DEF Handles
  <2>3. ob[o] = [n EXCEPT !.refs = h]
    BY <1>1
  <2> HIDE DEF n, h
  <2> QED BY <2>1, <2>2, <2>3 DEF Obs
<1>8. Now.stop = FALSE /\ Now.ob = ob /\ Now.owned = owned /\ Now.desc = desc /\ Now \in Working
  <2>1. ob \in [Objects -> Obs] /\ owned \in Seq(Mutants) /\ desc \in [Threads -> Waits \cup {None}]
    BY <1>1, <1>7
  <2> QED BY <2>1 DEF Now, Working
<1>9. \A t \in Threads : desc[t] = None
  BY <1>1
<1>10. Solid(Now) /\ Calm(Now)
  <2>1. IsInjective(owned) /\ ToSet(owned) = {}
    BY <1>1 DEF IsInjective, ToSet
  <2>2. OwnedListed(Now)
    BY <1>7, <1>8, <2>1 DEF OwnedListed
  <2> QED BY <1>8, <1>9, <2>2 DEF Solid, Held, Results, Calm, Pends, NamedTaken
<1>11. ASSUME NEW o \in Objects
       PROVE  /\ Rest(Now, o) = Handles(open, o) + Waiting(desc, o)
              /\ ob[o].owner # None => at[ob[o].owner] # "dead"
              /\ ledger[o] = Balance(Now, o)
  <2>1. Flight(Now, o) = 0
    <3>1. \A t \in Threads : NamedTaken(Now.desc[t], o) = {}
      BY <1>8, <1>9 DEF NamedTaken
    <3> QED BY <3>1, NobodyTook
  <2>2. Waiting(desc, o) = 0
    <3>1. Places([t \in Threads |-> Named(ObjsIn(desc, t), o)]) = {}
      BY <1>9 DEF Places, ObjsIn, Named
    <3> QED BY <3>1, FS_EmptySet DEF Waiting
  <2>3. Rest(Now, o) = Handles(open, o)
    BY <1>7, <1>8 DEF Rest, Obs
  <2> QED BY <1>1, <1>7, <1>8, <2>1, <2>2, <2>3 DEF Balance, Handles
<1> QED BY <1>4, <1>5, <1>6, <1>10, <1>11 DEF ObjInv, Accounts

LEMMA StepAccounts == ObjInv /\ [Next]_vars => ObjInv'
<1> SUFFICES ASSUME ObjInv, [Next]_vars PROVE ObjInv'
  OBVIOUS
<1>1. CASE Next
  <2>0. setting' = setting /\ Step
    BY <1>1 DEF Next
  <2>1. ASSUME NEW t \in Threads, NEW r \in setting.requests, WaitFast(t, r) \/ WaitBlock(t, r) \/ Delay(t, r)
        PROVE  ObjInv'
    BY <2>0, <2>1, WaitFastKeeps, WaitBlockKeeps, DelayKeeps
  <2>2. ASSUME NEW t \in Threads, Resume(t) \/ Expire(t) \/ QueueApc(t) \/ Terminate(t)
        PROVE  ObjInv'
    BY <2>0, <2>2, ResumeKeeps, ExpireKeeps, QueueApcKeeps, TerminateKeeps
  <2>3. ASSUME NEW t \in Threads, ExitThread(t) \/ CheckKill(t) \/ Leave(t)
        PROVE  ObjInv'
    <3>1. CASE Leave(t)
      BY <2>0, <3>1, LeaveKeeps
    <3>2. CASE ExitThread(t) \/ CheckKill(t)
      <4>1. at[t] \in {"user", "leave"} /\ Exit(t)
        BY <3>2 DEF ExitThread, CheckKill
      <4> QED BY <2>0, <4>1, ExitKeeps
    <3> QED BY <2>3, <3>1, <3>2
  <2>4. ASSUME NEW t \in Threads, NEW o \in Objects,
               MutantRelease(t, o) \/ CreateEvent(t, o) \/ CreateSemaphore(t, o) \/ CreateMutant(t, o)
        PROVE  ObjInv'
    BY <2>0, <2>4, MutantReleaseKeeps, CreateEventKeeps, CreateSemaphoreKeeps, CreateMutantKeeps
  <2>5. ASSUME NEW o \in Objects, SetEvent(o) \/ ResetEvent(o) \/ CloseHandle(o)
        PROVE  ObjInv'
    BY <2>0, <2>5, SetEventKeeps, ResetEventKeeps, CloseHandleKeeps
  <2>6. ASSUME NEW o \in Objects, NEW n \in 1 .. MaxCount, ReleaseSemaphore(o, n)
        PROVE  ObjInv'
    BY <2>0, <2>6, ReleaseSemaphoreKeeps
  <2>7. CASE KillSweep
    BY <2>0, <2>7, KillSweepKeeps
  <2> QED BY <2>0, <2>1, <2>2, <2>3, <2>4, <2>5, <2>6, <2>7 DEF Step
<1>2. CASE UNCHANGED vars
  <2>1. /\ UNCHANGED <<setting, objects, open, desc, ledger>>
        /\ at' = at /\ timed' = timed /\ alertable' = alertable /\ apc' = apc /\ killed' = killed /\ sweep' = sweep
    BY <1>2 DEF vars, threads
  <2>2. ObjTypes'
    BY <2>1 DEF objects, ObjInv, ObjTypes
  <2>3. Sleepers'
    BY <2>1 DEF ObjInv, Sleepers
  <2> QED BY <2>1, <2>2, <2>3, StillKeeps
<1> QED BY <1>1, <1>2

-----------------------------------------------------------------------------
(***************************************************************************)
(* The inductive invariant: the sleepers have what can end their sleep     *)
(* (Sleepers), the lists hold the blocks of the pending waits (Listed),    *)
(* and each object agrees with those who refer to it, with what its        *)
(* waiters were granted and with what its callers know (Accounts).         *)
(***************************************************************************)
THEOREM ObjectsAccounted == Spec => []ObjInv
<1>1. Init => ObjInv
  BY InitAccounts
<1>2. ObjInv /\ [Next]_vars => ObjInv'
  BY StepAccounts
<1> QED BY <1>1, <1>2, PTL DEF Spec

\* No pending wait could be satisfied now and no alertable sleeper has an APC
\* queued: ob_release_check, run for the one object that changed, misses nobody.
THEOREM NoWakeIsMissed == Spec => []NoMissedWake
<1>1. ObjInv => NoMissedWake
  <2> SUFFICES ASSUME ObjInv, NEW t \in Threads
               PROVE  /\ desc[t] # None /\ desc[t].result = Pending => ~Satisfiable(Now, desc[t].objs, desc[t].all, t)
                      /\ at[t] = "blocked" /\ t \in alertable => apc[t] = 0
    BY DEF NoMissedWake
  <2>1. Calm(Now) /\ Now.desc = desc
    BY SoundNow
  <2>2. desc[t] # None /\ desc[t].result = Pending => ~Satisfiable(Now, desc[t].objs, desc[t].all, t)
    BY <2>1 DEF Calm, Pends, Wakes
  <2>3. at[t] = "blocked" /\ t \in alertable => apc[t] = 0
    BY DEF ObjInv, Sleepers
  <2> QED BY <2>2, <2>3
<1> QED BY <1>1, ObjectsAccounted, PTL

\* The lists of wait blocks hold exactly those of the pending waits, once each:
\* unlink_waits has removed every other before its descriptor is freed.
THEOREM BlocksAreThoseOfWaits == Spec => []BlocksMatchWaits
<1>1. ObjInv => BlocksMatchWaits
  <2> SUFFICES ASSUME ObjInv, NEW o \in Objects
               PROVE  /\ \A i, j \in DOMAIN waiters[o] : waiters[o][i] = waiters[o][j] => i = j
                      /\ ToSet(waiters[o]) =
                           UNION {{<<t, i>> : i \in {k \in DOMAIN ObjsOf(t) : desc[t].result = Pending /\ desc[t].objs[k] = o}}
                                  : t \in Threads}
    BY DEF BlocksMatchWaits
  <2>1. /\ waiters[o] \in Seq(Threads \X Nat) /\ IsInjective(waiters[o])
        /\ \A t \in Threads, i \in Nat :
             <<t, i>> \in ToSet(waiters[o]) <=>
               desc[t] # None /\ desc[t].result = Pending /\ i \in DOMAIN desc[t].objs /\ desc[t].objs[i] = o
    BY DEF ObjInv, Listed
  <2>2. \A i, j \in DOMAIN waiters[o] : waiters[o][i] = waiters[o][j] => i = j
    BY <2>1 DEF IsInjective
  <2> DEFINE P(t) == {k \in DOMAIN ObjsOf(t) : desc[t].result = Pending /\ desc[t].objs[k] = o}
  <2>3. ToSet(waiters[o]) \subseteq Threads \X Nat
    BY <2>1 DEF ToSet
  <2>4. ASSUME NEW t \in Threads
        PROVE  /\ P(t) \subseteq Nat
               /\ \A i \in Nat : i \in P(t) <=> <<t, i>> \in ToSet(waiters[o])
    <3>1. CASE desc[t] = None
      <4>1. ObjsOf(t) = <<>>
        BY <3>1 DEF ObjsOf
      <4>2. P(t) = {}
        BY <4>1
      <4> QED BY <2>1, <3>1, <4>2
    <3>2. CASE desc[t] # None
      <4>1. ObjsOf(t) = desc[t].objs /\ DOMAIN desc[t].objs \subseteq Nat
        BY <3>2, DescIs DEF ObjsOf, Waits
      <4> QED BY <2>1, <3>2, <4>1
    <3> QED BY <3>1, <3>2
  <2> HIDE DEF P
  <2>5. ToSet(waiters[o]) = UNION {{<<t, i>> : i \in P(t)} : t \in Threads}
    <3>1. ASSUME NEW b \in ToSet(waiters[o])
          PROVE  b \in UNION {{<<t, i>> : i \in P(t)} : t \in Threads}
      <4>1. PICK t \in Threads, i \in Nat : b = <<t, i>>
        BY <2>3
      <4>2. i \in P(t)
        BY <2>4, <4>1
      <4> QED BY <4>1, <4>2
    <3>2. ASSUME NEW b \in UNION {{<<t, i>> : i \in P(t)} : t \in Threads}
          PROVE  b \in ToSet(waiters[o])
      <4>1. PICK t \in Threads : b \in {<<t, i>> : i \in P(t)}
        OBVIOUS
      <4>2. PICK i \in P(t) : b = <<t, i>>
        BY <4>1
      <4> QED BY <2>4, <4>2
    <3> QED BY <3>1, <3>2
  <2> QED BY <2>2, <2>5 DEF P
<1> QED BY <1>1, ObjectsAccounted, PTL

\* What a semaphore or a mutant gave away is what callers were told or will be
\* told when their granted waits return: ob_wait decides by the grant alone,
\* however a time-out, an APC or a termination raced it.
THEOREM LedgersBalance == Spec => []LedgerBalanced
<1>1. ObjInv => LedgerBalanced
  <2> SUFFICES ASSUME ObjInv PROVE LedgerBalanced
    OBVIOUS
  <2>1. ASSUME NEW o \in Objects
        PROVE  /\ InFlight(o) = Flight(Now, o) /\ InFlight(o) \in Int
               /\ ledger[o] = Balance(Now, o) /\ Now.ob = ob
               /\ ob[o].count \in Int /\ ob[o].recursion \in Int
    <3>1. Now.desc = desc /\ Now.ob = ob /\ Now \in Working
      BY SoundNow
    <3>2. InFlight(o) = Flight(Now, o)
      <4>1. \A t \in Threads : Shares(Now, o)[t] = NamedTaken(desc[t], o)
        BY <3>1 DEF Shares
      <4>2. UNION {{t} \X NamedTaken(desc[t], o) : t \in Threads} = Places(Shares(Now, o))
        BY <4>1 DEF Places
      <4> QED BY <4>2 DEF InFlight, Flight
    <3> QED BY <3>1, <3>2, FlightIs, LedgerIs DEF Obs
  <2>2. ASSUME NEW o \in Sems PROVE ledger[o] = ob[o].count + InFlight(o)
    BY <2>1 DEF Sems, Balance
  <2>3. ASSUME NEW o \in Mutants PROVE ob[o].recursion = ledger[o] + InFlight(o)
    <3>1. o \in Objects /\ Kind[o] = "mutant"
      BY DEF Mutants
    <3>2. ledger[o] = ob[o].recursion - InFlight(o)
      BY <2>1, <3>1 DEF Balance
    <3> QED BY <2>1, <3>1, <3>2
  <2> QED BY <2>2, <2>3 DEF LedgerBalanced
<1> QED BY <1>1, ObjectsAccounted, PTL

\* Every object has exactly the references of its handle, its waits and its
\* owner; a mutant's owner lives and finds it once on owned_mutants at its exit.
THEOREM RefsAreExact == Spec => []RefsExact
<1>1. ObjInv => RefsExact
  <2> SUFFICES ASSUME ObjInv PROVE RefsExact
    OBVIOUS
  <2>0. Now.desc = desc /\ Now.ob = ob /\ Now.owned = owned /\ OwnedListed(Now)
    BY SoundNow DEF Sound
  <2>1. ASSUME NEW o \in Objects
        PROVE  ob[o].refs = (IF o \in open THEN 1 ELSE 0)
                            + Cardinality(UNION {{t} \X Named(ObjsOf(t), o) : t \in Threads})
                            + (IF ob[o].owner # None THEN 1 ELSE 0)
    <3> DEFINE F == [t \in Threads |-> Named(ObjsIn(desc, t), o)]
               c == Cardinality(UNION {{t} \X Named(ObjsOf(t), o) : t \in Threads})
    <3>1. Waiting(desc, o) = c
      <4>1. \A t \in Threads : F[t] = Named(ObjsOf(t), o)
        BY DEF ObjsOf, ObjsIn
      <4>2. Places(F) = UNION {{t} \X Named(ObjsOf(t), o) : t \in Threads}
        BY <4>1 DEF Places
      <4> QED BY <4>2 DEF Waiting
    <3>2. Waiting(desc, o) \in Nat /\ ob[o].refs \in Int
      BY DescIs, ObjsInFacts DEF Obs
    <3> HIDE DEF c
    <3>3. ob[o].refs - (IF ob[o].owner # None THEN 1 ELSE 0) = (IF o \in open THEN 1 ELSE 0) + c
      BY <2>0, <3>1 DEF ObjInv, Accounts, Rest, Handles
    <3>4. ob[o].refs = (IF o \in open THEN 1 ELSE 0) + c + (IF ob[o].owner # None THEN 1 ELSE 0)
      BY <3>1, <3>2, <3>3
    <3> QED BY <3>4 DEF c
  <2>2. ASSUME NEW o \in Mutants
        PROVE  /\ MultiplicityIn(owned, o) = IF ob[o].owner = None THEN 0 ELSE 1
               /\ ob[o].owner # None => at[ob[o].owner] # "dead"
    <3>1. owned \in Seq(Mutants) /\ IsInjective(owned) /\ o \in Objects
      BY <2>0, DescIs DEF OwnedListed, Mutants
    <3>2. o \in ToSet(owned) <=> ob[o].owner # None
      BY <2>0, <3>1 DEF OwnedListed
    <3>3. MultiplicityIn(owned, o) = IF o \in ToSet(owned) THEN 1 ELSE 0
      BY <3>1, OnePlace
    <3> QED BY <3>1, <3>2, <3>3, OwnerLives
  <2> QED BY <2>1, <2>2 DEF RefsExact
<1> QED BY <1>1, ObjectsAccounted, PTL

\* A terminated thread that blocked after its wake-up is still covered by the
\* sweep, and its wait is one that the sweep ends.
THEOREM SweepCoversKilled == Spec => []KilledAreSwept
<1>1. ObjInv => KilledAreSwept
  BY DEF ObjInv, ObjTypes, Sleepers, KilledAreSwept, Interruptible
<1> QED BY <1>1, ObjectsAccounted, PTL
=============================================================================
