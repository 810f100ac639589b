----------------------------- MODULE SmpProofs -----------------------------
(***************************************************************************)
(* The two protocols by which CPUs share words without a common lock: the  *)
(* ticket lock, for any number of CPUs and any counter width that exceeds it, *)
(* and the TLB shootdown, for any number of CPUs and generations. They share *)
(* no state; the second half begins at InBegin.                            *)
(***************************************************************************)
EXTENDS TicketLock, CpuTlb, FiniteSetTheorems, TLAPS

-----------------------------------------------------------------------------
(***************************************************************************)
(* The lock's invariant says where the outstanding tickets lie between owner *)
(* and next; the reservation gate keeps trylock's snapshot of owner current *)
(* until it stores next.                                                   *)
(***************************************************************************)

\* The processes between a successful reserve_try and the reserve_release.
Gated == {p \in Procs : pc[p] \in {"issue", "issued", "tryOwner", "tryNext",
                                   "tryFail", "tryStore", "tryIssued"}}

GateInv ==
  /\ \A p, q \in Gated : p = q
  /\ Gated # {} => reservation = 1

\* Distance of number n behind m on the ring of counter values.
Dist(m, n) == IF n >= m THEN n - m ELSE n - m + Modulus

RingInv ==
  /\ \A p, q \in Outstanding : ticket[p] = ticket[q] => p = q
  /\ \A p \in Outstanding : Dist(owner, ticket[p]) < Dist(owner, next)
  /\ \A k \in 0 .. (Dist(owner, next) - 1) :
       \E p \in Outstanding : Dist(owner, ticket[p]) = k

OwnerInv ==
  \A p \in Procs : pc[p] \in {"held", "unlock", "tryIssued"} => ticket[p] = owner

SnapInv ==
  \A p \in Procs :
    /\ pc[p] = "tryNext" /\ snap[p] = next => owner = next
    /\ pc[p] = "tryStore" => snap[p] = next /\ owner = next

\* A retired token lies outside owner .. next.
BadInv ==
  \A p \in Procs : bad[p] # NoToken => Dist(owner, bad[p]) > Dist(owner, next)

LockInv == TypeOK /\ GateInv /\ RingInv /\ OwnerInv /\ SnapInv /\ BadInv

-----------------------------------------------------------------------------
\* The counters step through Numbers and wrap to 0 (uint32_t arithmetic).
LEMMA IncWraps ==
  \A n \in Numbers : Inc(n) = (IF n = Modulus - 1 THEN 0 ELSE n + 1) /\ Inc(n) \in Numbers
<1> SUFFICES ASSUME NEW n \in Numbers
             PROVE  Inc(n) = (IF n = Modulus - 1 THEN 0 ELSE n + 1) /\ Inc(n) \in Numbers
  OBVIOUS
<1>1. Modulus \in Nat /\ Modulus > 0 /\ n \in 0 .. (Modulus - 1)
  BY LockAssumption DEF Numbers
<1>2. CASE n = Modulus - 1
  <2>1. (n + 1) = Modulus * 1 + 0
    BY <1>1, <1>2
  <2>2. (n + 1) % Modulus = 0
    BY <1>1, <1>2, <2>1
  <2> QED BY <1>1, <1>2, <2>2 DEF Inc, Numbers
<1>3. CASE n # Modulus - 1
  <2>1. (n + 1) % Modulus = n + 1
    BY <1>1, <1>3
  <2> QED BY <1>1, <1>3, <2>1 DEF Inc, Numbers
<1> QED BY <1>2, <1>3

\* With a process outside, the ring has room: issuing one more ticket cannot
\* make next catch up with owner ("fewer than 2^32 outstanding tickets").
LEMMA RoomOnTheRing ==
  ASSUME TypeOK, RingInv, NEW p \in Procs, p \notin Outstanding
  PROVE  Dist(owner, next) < Modulus - 1
<1> DEFINE d == Dist(owner, next)
           who == [k \in 0 .. (d - 1) |->
                     CHOOSE q \in Outstanding : Dist(owner, ticket[q]) = k]
           others == Procs \ {p}
<1>1. d \in Nat
  BY LockAssumption DEF TypeOK, Numbers, Dist
<1>2. \A k \in 0 .. (d - 1) : who[k] \in Outstanding /\ Dist(owner, ticket[who[k]]) = k
  BY DEF RingInv
<1>3. who \in Injection(0 .. (d - 1), others)
  BY <1>2 DEF Injection, IsInjective, Outstanding
<1>4. IsFiniteSet(others) /\ Cardinality(others) = Cardinality(Procs) - 1
  BY FS_RemoveElement, LockAssumption
<1>5. Cardinality(0 .. (d - 1)) <= Cardinality(others)
  BY <1>3, <1>4, FS_Injection
<1>6. Cardinality(0 .. (d - 1)) = d
  BY <1>1, FS_Interval
<1>7. Cardinality(Procs) \in Nat
  BY LockAssumption, FS_CardinalityType
<1> HIDE DEF d
<1>8. d < Modulus - 1
  BY <1>1, <1>4, <1>5, <1>6, <1>7, LockAssumption
<1> QED BY <1>8 DEF d

\* Arithmetic on the ring: advancing next and advancing owner.
LEMMA RingArithmetic ==
  ASSUME NEW m \in Numbers, NEW n \in Numbers
  PROVE  /\ Dist(m, n) \in 0 .. (Modulus - 1)
         /\ Dist(m, n) = 0 <=> m = n
         /\ Dist(m, n) < Modulus - 1 => Dist(m, Inc(n)) = Dist(m, n) + 1
         /\ m # n => Dist(Inc(m), n) = Dist(m, n) - 1
         /\ Dist(Inc(m), m) = Modulus - 1
         /\ \A k \in Numbers : Dist(m, n) = Dist(m, k) => n = k
  BY IncWraps, LockAssumption DEF Dist, Numbers

\* Steps that leave counters and tickets alone and keep every process on its
\* side of Outstanding keep the ring as it is.
LEMMA RingUnchanged ==
  ASSUME RingInv, BadInv, UNCHANGED <<next, owner, ticket>>,
         Outstanding' = Outstanding,
         \A p \in Procs : bad'[p] \in {bad[p], NoToken}
  PROVE  RingInv' /\ BadInv'
<1>1. RingInv'
  BY DEF RingInv, Dist
<1>2. BadInv'
  BY DEF BadInv, Dist
<1> QED BY <1>1, <1>2

\* Issuing the ticket `next' (lock, or trylock on an idle lock).
LEMMA RingIssue ==
  ASSUME TypeOK, RingInv, BadInv, ForgeTokens = FALSE,
         NEW p \in Procs, p \notin Outstanding,
         next' = Inc(next), owner' = owner,
         ticket' = [ticket EXCEPT ![p] = next],
         Outstanding' = Outstanding \cup {p},
         bad' = NewEpoch(next)
  PROVE  RingInv' /\ BadInv'
<1> DEFINE d == Dist(owner, next)
<1>1. d < Modulus - 1 /\ d \in Nat
  BY RoomOnTheRing, RingArithmetic, LockAssumption DEF TypeOK
<1>2. Dist(owner, next)' = d + 1
  BY <1>1, RingArithmetic DEF TypeOK, Dist
<1>3. \A q \in Procs : Dist(owner, ticket[q])' = IF q = p THEN d ELSE Dist(owner, ticket[q])
  BY DEF TypeOK, Dist
<1>4. \A q \in Procs : /\ ticket[q] \in Numbers
                       /\ Dist(owner, ticket[q]) \in Nat
                       /\ (ticket[q] = next <=> Dist(owner, ticket[q]) = d)
  BY RingArithmetic, LockAssumption DEF TypeOK
<1>5. Outstanding \subseteq Procs
  BY DEF Outstanding
<1> HIDE DEF d
<1>6. RingInv'
  <2>1. ASSUME NEW q \in Outstanding', NEW r \in Outstanding', ticket'[q] = ticket'[r]
        PROVE  q = r
    <3>1. \A x \in Outstanding : ticket[x] # next
      BY <1>1, <1>4, <1>5 DEF RingInv, d
    <3> QED BY <2>1, <3>1, <1>5 DEF RingInv, TypeOK
  <2>2. ASSUME NEW q \in Outstanding'
        PROVE  Dist(owner, ticket[q])' < Dist(owner, next)'
    BY <2>2, <1>1, <1>2, <1>3, <1>4, <1>5 DEF RingInv, d
  <2>3. ASSUME NEW k \in 0 .. (Dist(owner, next)' - 1)
        PROVE  \E q \in Outstanding' : Dist(owner, ticket[q])' = k
    <3>1. CASE k = d
      BY <3>1, <1>3
    <3>2. CASE k # d
      <4>1. k \in 0 .. (d - 1)
        BY <3>2, <1>1, <1>2
      <4>2. PICK q \in Outstanding : Dist(owner, ticket[q]) = k
        BY <4>1 DEF RingInv, d
      <4> QED BY <4>2, <1>3, <1>5
    <3> QED BY <3>1, <3>2
  <2> QED BY <2>1, <2>2, <2>3 DEF RingInv
<1>7. BadInv'
  <2> SUFFICES ASSUME NEW q \in Procs, bad'[q] # NoToken
               PROVE  Dist(owner, bad[q])' > Dist(owner, next)'
    BY DEF BadInv
  <2>1. bad'[q] = bad[q] /\ bad[q] # NoToken /\ bad[q] # Inc(next)
    BY DEF NewEpoch
  <2>2. bad[q] \in Numbers
    BY <2>1 DEF TypeOK
  <2>3. Dist(owner, bad[q]) > d
    BY <2>1 DEF BadInv, d
  <2>4. Dist(owner, Inc(next)) = d + 1 /\ Inc(next) \in Numbers
    BY <1>1, RingArithmetic, IncWraps DEF TypeOK, d
  <2>5. Dist(owner, bad[q]) # d + 1 /\ Dist(owner, bad[q]) \in Nat
    BY <2>1, <2>2, <2>4, RingArithmetic, LockAssumption DEF TypeOK
  <2>6. Dist(owner, bad[q])' = Dist(owner, bad[q])
    BY <2>1 DEF Dist
  <2> QED BY <1>1, <1>2, <2>3, <2>5, <2>6
<1> QED BY <1>6, <1>7

\* Releasing the ticket `owner': everyone behind it moves up by one.
LEMMA RingRelease ==
  ASSUME TypeOK, RingInv, BadInv,
         NEW p \in Outstanding, ticket[p] = owner,
         next' = next, owner' = Inc(owner),
         ticket' = [ticket EXCEPT ![p] = 0],
         Outstanding' = Outstanding \ {p},
         bad' = [bad EXCEPT ![p] = IF next = ticket[p] THEN NoToken ELSE ticket[p]]
  PROVE  RingInv' /\ BadInv'
<1> DEFINE d == Dist(owner, next)
<1>1. Outstanding \subseteq Procs /\ p \in Procs
  BY DEF Outstanding
<1>2. d \in Nat /\ d > 0 /\ owner # next /\ d <= Modulus - 1
  BY <1>1, RingArithmetic, LockAssumption DEF TypeOK, RingInv
<1>3. Dist(owner, next)' = d - 1
  BY <1>2, RingArithmetic DEF TypeOK, Dist
<1>4. \A q \in Outstanding \ {p} :
        /\ ticket'[q] = ticket[q]
        /\ Dist(owner, ticket[q])' = Dist(owner, ticket[q]) - 1
        /\ Dist(owner, ticket[q]) \in Nat
  <2> SUFFICES ASSUME NEW q \in Outstanding \ {p}
               PROVE  /\ ticket'[q] = ticket[q]
                      /\ Dist(owner, ticket[q])' = Dist(owner, ticket[q]) - 1
                      /\ Dist(owner, ticket[q]) \in Nat
    OBVIOUS
  <2>1. ticket'[q] = ticket[q] /\ ticket[q] \in Numbers
    BY <1>1 DEF TypeOK
  <2>2. ticket[q] # owner
    BY DEF RingInv
  <2>3. Dist(Inc(owner), ticket[q]) = Dist(owner, ticket[q]) - 1 /\ Dist(owner, ticket[q]) \in Nat
    BY <2>1, <2>2, RingArithmetic, LockAssumption DEF TypeOK
  <2> QED BY <2>1, <2>3 DEF Dist
<1> HIDE DEF d
<1>5. RingInv'
  <2>1. ASSUME NEW q \in Outstanding', NEW r \in Outstanding', ticket'[q] = ticket'[r]
        PROVE  q = r
    BY <2>1, <1>4 DEF RingInv
  <2>2. ASSUME NEW q \in Outstanding'
        PROVE  Dist(owner, ticket[q])' < Dist(owner, next)'
    BY <2>2, <1>2, <1>3, <1>4 DEF RingInv, d
  <2>3. ASSUME NEW k \in 0 .. (Dist(owner, next)' - 1)
        PROVE  \E q \in Outstanding' : Dist(owner, ticket[q])' = k
    <3>1. k + 1 \in 0 .. (d - 1)
      BY <1>2, <1>3
    <3>2. PICK q \in Outstanding : Dist(owner, ticket[q]) = k + 1
      BY <3>1 DEF RingInv, d
    <3>3. q # p
      BY <3>1, <3>2, <1>1, RingArithmetic DEF TypeOK
    <3> QED BY <3>1, <3>2, <3>3, <1>4
  <2> QED BY <2>1, <2>2, <2>3 DEF RingInv
<1>6. BadInv'
  <2> SUFFICES ASSUME NEW q \in Procs, bad'[q] # NoToken
               PROVE  Dist(owner, bad[q])' > Dist(owner, next)'
    BY DEF BadInv
  <2>1. CASE q = p
    <3>1. bad'[q] = owner
      BY <2>1, <1>1, <1>2 DEF TypeOK
    <3>2. Dist(owner, bad[q])' = Modulus - 1
      BY <3>1, RingArithmetic DEF TypeOK, Dist
    <3> QED BY <3>2, <1>2, <1>3, LockAssumption
  <2>2. CASE q # p
    <3>1. bad'[q] = bad[q] /\ bad[q] \in Numbers
      BY <2>2, <1>1 DEF TypeOK
    <3>2. Dist(owner, bad[q]) > d
      BY <3>1 DEF BadInv, d
    <3>3. bad[q] # owner
      BY <3>1, <3>2, <1>2, RingArithmetic DEF TypeOK
    <3>4. /\ Dist(Inc(owner), bad[q]) = Dist(owner, bad[q]) - 1
          /\ Dist(owner, bad[q]) \in Nat
      BY <3>1, <3>3, RingArithmetic, LockAssumption DEF TypeOK
    <3>5. Dist(owner, bad[q])' = Dist(owner, bad[q]) - 1
      BY <3>1, <3>4 DEF Dist
    <3> QED BY <3>2, <3>4, <3>5, <1>2, <1>3
  <2> QED BY <2>1, <2>2
<1> QED BY <1>5, <1>6

-----------------------------------------------------------------------------
\* LockInv is inductive while releases use their own tickets (or a retired
\* one in its epoch): every step of lock, trylock and unlock keeps it.
LEMMA LockInvInductive ==
  ASSUME ForgeTokens = FALSE, LockInv, [Next]_vars
  PROVE  LockInv'
<1> USE DEF LockInv
<1>1. ASSUME NEW p \in Procs, LockReserve(p)
      PROVE  LockInv'
  <2>1. TypeOK'
    BY <1>1 DEF LockReserve, Goto, ReserveTry, TypeOK, PcValues
  <2>2. RingInv' /\ BadInv'
    BY <1>1, RingUnchanged DEF LockReserve, Goto, ReserveTry, TypeOK, Outstanding
  <2>3. GateInv'
    BY <1>1 DEF LockReserve, Goto, ReserveTry, TypeOK, GateInv, Gated
  <2>4. OwnerInv' /\ SnapInv'
    BY <1>1 DEF LockReserve, Goto, ReserveTry, TypeOK, OwnerInv, SnapInv
  <2> QED BY <2>1, <2>2, <2>3, <2>4 DEF LockInv
<1>2. ASSUME NEW p \in Procs, LockReserveRelease(p)
      PROVE  LockInv'
  <2>1. TypeOK'
    BY <1>2 DEF LockReserveRelease, Goto, TypeOK, PcValues
  <2>2. RingInv' /\ BadInv'
    BY <1>2, RingUnchanged DEF LockReserveRelease, Goto, TypeOK, Outstanding
  <2>3. GateInv'
    BY <1>2 DEF LockReserveRelease, Goto, TypeOK, GateInv, Gated
  <2>4. OwnerInv' /\ SnapInv'
    BY <1>2 DEF LockReserveRelease, Goto, TypeOK, OwnerInv, SnapInv
  <2> QED BY <2>1, <2>2, <2>3, <2>4 DEF LockInv
<1>3. ASSUME NEW p \in Procs, LockEnter(p)
      PROVE  LockInv'
  <2>1. TypeOK'
    BY <1>3 DEF LockEnter, Goto, TypeOK, PcValues
  <2>2. RingInv' /\ BadInv'
    BY <1>3, RingUnchanged DEF LockEnter, Goto, TypeOK, Outstanding
  <2>3. GateInv'
    BY <1>3 DEF LockEnter, Goto, TypeOK, GateInv, Gated
  <2>4. OwnerInv' /\ SnapInv'
    BY <1>3 DEF LockEnter, Goto, TypeOK, OwnerInv, SnapInv
  <2> QED BY <2>1, <2>2, <2>3, <2>4 DEF LockInv
<1>4. ASSUME NEW p \in Procs, TryReserve(p)
      PROVE  LockInv'
  <2>1. TypeOK'
    BY <1>4 DEF TryReserve, Goto, ReserveTry, TypeOK, PcValues
  <2>2. RingInv' /\ BadInv'
    BY <1>4, RingUnchanged DEF TryReserve, Goto, ReserveTry, TypeOK, Outstanding
  <2>3. GateInv'
    BY <1>4 DEF TryReserve, Goto, ReserveTry, TypeOK, GateInv, Gated
  <2>4. OwnerInv' /\ SnapInv'
    BY <1>4 DEF TryReserve, Goto, ReserveTry, TypeOK, OwnerInv, SnapInv
  <2> QED BY <2>1, <2>2, <2>3, <2>4 DEF LockInv
<1>5. ASSUME NEW p \in Procs, TryLoadOwner(p)
      PROVE  LockInv'
  <2>1. TypeOK'
    BY <1>5 DEF TryLoadOwner, Goto, TypeOK, PcValues
  <2>2. RingInv' /\ BadInv'
    BY <1>5, RingUnchanged DEF TryLoadOwner, Goto, TypeOK, Outstanding
  <2>3. GateInv'
    BY <1>5 DEF TryLoadOwner, Goto, TypeOK, GateInv, Gated
  <2>4. OwnerInv' /\ SnapInv'
    BY <1>5 DEF TryLoadOwner, Goto, TypeOK, OwnerInv, SnapInv
  <2> QED BY <2>1, <2>2, <2>3, <2>4 DEF LockInv
<1>6. ASSUME NEW p \in Procs, TryLoadNext(p)
      PROVE  LockInv'
  <2>1. TypeOK'
    BY <1>6 DEF TryLoadNext, Goto, TypeOK, PcValues
  <2>2. RingInv' /\ BadInv'
    BY <1>6, RingUnchanged DEF TryLoadNext, Goto, TypeOK, Outstanding
  <2>3. GateInv'
    BY <1>6 DEF TryLoadNext, Goto, TypeOK, GateInv, Gated
  <2>4. OwnerInv' /\ SnapInv'
    BY <1>6 DEF TryLoadNext, Goto, TypeOK, OwnerInv, SnapInv
  <2> QED BY <2>1, <2>2, <2>3, <2>4 DEF LockInv
<1>7. ASSUME NEW p \in Procs, TryFail(p)
      PROVE  LockInv'
  <2>1. TypeOK'
    BY <1>7, LockAssumption DEF TryFail, Goto, TypeOK, PcValues, Numbers
  <2>2. RingInv' /\ BadInv'
    BY <1>7, RingUnchanged DEF TryFail, Goto, TypeOK, Outstanding
  <2>3. GateInv'
    BY <1>7 DEF TryFail, Goto, TypeOK, GateInv, Gated
  <2>4. OwnerInv' /\ SnapInv'
    BY <1>7 DEF TryFail, Goto, TypeOK, OwnerInv, SnapInv
  <2> QED BY <2>1, <2>2, <2>3, <2>4 DEF LockInv
<1>8. ASSUME NEW p \in Procs, TryReserveRelease(p)
      PROVE  LockInv'
  <2>1. TypeOK'
    BY <1>8 DEF TryReserveRelease, Goto, TypeOK, PcValues
  <2>2. RingInv' /\ BadInv'
    BY <1>8, RingUnchanged DEF TryReserveRelease, Goto, TypeOK, Outstanding
  <2>3. GateInv'
    BY <1>8 DEF TryReserveRelease, Goto, TypeOK, GateInv, Gated
  <2>4. OwnerInv' /\ SnapInv'
    BY <1>8 DEF TryReserveRelease, Goto, TypeOK, OwnerInv, SnapInv
  <2> QED BY <2>1, <2>2, <2>3, <2>4 DEF LockInv
<1>9. ASSUME NEW p \in Procs, LockIssue(p)
      PROVE  LockInv'
  <2>1. TypeOK'
    BY <1>9, IncWraps DEF LockIssue, Goto, NewEpoch, TypeOK, PcValues
  <2>2. RingInv' /\ BadInv'
    <3>1. p \notin Outstanding /\ Outstanding' = Outstanding \cup {p}
      BY <1>9 DEF LockIssue, Goto, TypeOK, Outstanding
    <3> QED BY <1>9, <3>1, RingIssue DEF LockIssue
  <2>3. GateInv'
    BY <1>9 DEF LockIssue, Goto, TypeOK, GateInv, Gated
  <2>4. OwnerInv'
    BY <1>9 DEF LockIssue, Goto, TypeOK, OwnerInv
  <2>5. SnapInv'
    \* p is the one gated process, so nobody is inside trylock.
    <3>1. \A q \in Procs : q # p => pc[q] \notin {"tryNext", "tryStore"}
      BY <1>9 DEF LockIssue, GateInv, Gated
    <3> QED BY <1>9, <3>1 DEF LockIssue, Goto, TypeOK, SnapInv
  <2> QED BY <2>1, <2>2, <2>3, <2>4, <2>5 DEF LockInv
<1>10. ASSUME NEW p \in Procs, TryStore(p)
      PROVE  LockInv'
  <2>0. snap[p] = next /\ owner = next
    BY <1>10 DEF TryStore, SnapInv
  <2>1. TypeOK'
    BY <1>10, IncWraps, LockAssumption DEF TryStore, Goto, NewEpoch, TypeOK, PcValues, Numbers
  <2>2. RingInv' /\ BadInv'
    <3>1. p \notin Outstanding /\ Outstanding' = Outstanding \cup {p}
      BY <1>10 DEF TryStore, Goto, TypeOK, Outstanding
    <3> QED BY <1>10, <2>0, <3>1, RingIssue DEF TryStore
  <2>3. GateInv'
    BY <1>10 DEF TryStore, Goto, TypeOK, GateInv, Gated
  <2>4. OwnerInv'
    BY <1>10, <2>0 DEF TryStore, Goto, TypeOK, OwnerInv
  <2>5. SnapInv'
    <3>1. \A q \in Procs : q # p => pc[q] \notin {"tryNext", "tryStore"}
      BY <1>10 DEF TryStore, GateInv, Gated
    <3> QED BY <1>10, <3>1 DEF TryStore, Goto, TypeOK, SnapInv
  <2> QED BY <2>1, <2>2, <2>3, <2>4, <2>5 DEF LockInv
<1>11. ASSUME NEW p \in Procs, UnlockBegin(p)
      PROVE  LockInv'
  <2>0. ticket[p] # next /\ pc' = [pc EXCEPT ![p] = "unlock"]
    <3>1. p \in Outstanding /\ ticket[p] = owner
      BY <1>11 DEF UnlockBegin, Outstanding, OwnerInv
    <3>2. Dist(owner, ticket[p]) < Dist(owner, next)
      BY <3>1 DEF RingInv
    <3>3. ticket[p] # next
      BY <3>2, LockAssumption DEF TypeOK, Numbers, Dist
    <3> QED BY <1>11, <3>3 DEF UnlockBegin, UnlockCheck, Goto
  <2>1. TypeOK'
    BY <1>11, <2>0 DEF UnlockBegin, TypeOK, PcValues
  <2>2. RingInv' /\ BadInv'
    <3>1. Outstanding' = Outstanding
      BY <1>11, <2>0 DEF UnlockBegin, TypeOK, Outstanding
    <3> QED BY <1>11, <3>1, RingUnchanged DEF UnlockBegin
  <2>3. GateInv'
    BY <1>11, <2>0 DEF UnlockBegin, TypeOK, GateInv, Gated
  <2>4. OwnerInv' /\ SnapInv'
    BY <1>11, <2>0 DEF UnlockBegin, TypeOK, OwnerInv, SnapInv
  <2> QED BY <2>1, <2>2, <2>3, <2>4 DEF LockInv
<1>12. ASSUME NEW p \in Procs, UnlockEnd(p)
      PROVE  LockInv'
  <2>0. p \in Outstanding /\ ticket[p] = owner /\ owner' = Inc(owner)
    BY <1>12 DEF UnlockEnd, UnlockCas, Outstanding, OwnerInv
  <2>1. TypeOK'
    BY <1>12, <2>0, IncWraps, LockAssumption DEF UnlockEnd, Goto, TypeOK, PcValues, Numbers
  <2>2. RingInv' /\ BadInv'
    <3>1. Outstanding' = Outstanding \ {p}
      BY <1>12 DEF UnlockEnd, Goto, TypeOK, Outstanding
    <3> QED BY <1>12, <2>0, <3>1, RingRelease DEF UnlockEnd
  <2>3. GateInv'
    BY <1>12 DEF UnlockEnd, Goto, TypeOK, GateInv, Gated
  <2>4. \A q \in Outstanding : q # p => ticket[q] # owner
    BY <2>0 DEF RingInv
  <2>5. OwnerInv'
    \* no other process has the owner's number, so nobody else is inside
    BY <1>12, <2>4 DEF UnlockEnd, Goto, TypeOK, OwnerInv, Outstanding
  <2>6. SnapInv'
    <3>1. owner # next
      BY <2>0, RingArithmetic DEF RingInv, TypeOK, Outstanding
    <3> QED BY <1>12, <3>1 DEF UnlockEnd, Goto, TypeOK, SnapInv
  <2> QED BY <2>1, <2>2, <2>3, <2>5, <2>6 DEF LockInv
<1>13. ASSUME NEW p \in Procs, BadUnlockBegin(p)
      PROVE  LockInv'
  <2>1. PICK k \in {bad[p], next} :
          /\ k # NoToken
          /\ bad' = [bad EXCEPT ![p] = IF UnlockCheck(k) THEN k ELSE @]
          /\ Goto(p, IF UnlockCheck(k) THEN "again" ELSE "idle")
    BY <1>13 DEF BadUnlockBegin
  <2>2. bad' = bad
    BY <2>1 DEF UnlockCheck, TypeOK
  <2>3. TypeOK'
    BY <1>13, <2>1, <2>2 DEF BadUnlockBegin, Goto, TypeOK, PcValues
  <2>4. RingInv' /\ BadInv'
    <3>1. Outstanding' = Outstanding
      BY <1>13, <2>1 DEF BadUnlockBegin, Goto, TypeOK, Outstanding
    <3> QED BY <1>13, <2>2, <3>1, RingUnchanged DEF BadUnlockBegin
  <2>5. GateInv'
    BY <1>13, <2>1 DEF BadUnlockBegin, Goto, TypeOK, GateInv, Gated
  <2>6. OwnerInv' /\ SnapInv'
    BY <1>13, <2>1 DEF BadUnlockBegin, Goto, TypeOK, OwnerInv, SnapInv
  <2> QED BY <2>3, <2>4, <2>5, <2>6 DEF LockInv
<1>14. ASSUME NEW p \in Procs, BadUnlockEnd(p) \/ BadUnlockOutlived(p)
      PROVE  LockInv'
  <2>0. UNCHANGED <<next, owner, reservation, ticket, snap, bad>> /\ pc[p] = "again"
        /\ pc' = [pc EXCEPT ![p] = "idle"]
    <3>1. bad[p] # NoToken => bad[p] # owner
      BY RingArithmetic DEF BadInv, TypeOK
    <3> QED BY <1>14, <3>1 DEF BadUnlockEnd, BadUnlockOutlived, UnlockCas, Goto
  <2>1. TypeOK'
    BY <2>0 DEF TypeOK, PcValues
  <2>2. RingInv' /\ BadInv'
    <3>1. Outstanding' = Outstanding
      BY <2>0 DEF TypeOK, Outstanding
    <3> QED BY <2>0, <3>1, RingUnchanged
  <2>3. GateInv'
    BY <2>0 DEF TypeOK, GateInv, Gated
  <2>4. OwnerInv' /\ SnapInv'
    BY <2>0 DEF TypeOK, OwnerInv, SnapInv
  <2> QED BY <2>1, <2>2, <2>3, <2>4 DEF LockInv
<1>15. CASE UNCHANGED vars
  <2>1. RingInv' /\ BadInv'
    BY <1>15, RingUnchanged DEF vars, Outstanding
  <2> QED BY <1>15, <2>1 DEF vars, TypeOK, GateInv, Gated, OwnerInv, SnapInv
<1> QED
  BY <1>1, <1>2, <1>3, <1>4, <1>5, <1>6, <1>7, <1>8, <1>9, <1>10, <1>11, <1>12, <1>13, <1>14, <1>15 DEF Next, Lock, TryLock, Unlock, BadUnlock

\* The initial lock: nothing issued, nothing reserved.
LEMMA LockInvInit == Init => LockInv
<1> SUFFICES ASSUME Init PROVE LockInv
  OBVIOUS
<1>1. TypeOK
  <2>1. 0 \in Numbers
    <3>1. Cardinality(Procs) \in Nat
      BY LockAssumption, FS_CardinalityType
    <3> QED BY <3>1, LockAssumption DEF Numbers
  <2> QED BY <2>1 DEF Init, TypeOK, PcValues
<1>2. Outstanding = {} /\ Gated = {}
  BY DEF Init, Outstanding, Gated
<1>3. RingInv
  BY <1>2 DEF Init, RingInv, Dist
<1>4. GateInv /\ OwnerInv /\ SnapInv /\ BadInv
  BY <1>2 DEF Init, GateInv, OwnerInv, SnapInv, BadInv
<1> QED BY <1>1, <1>3, <1>4 DEF LockInv

\* The lock's invariant holds in every reachable state of pma_sync.h's lock,
\* for every number of CPUs and every width of the counters.
THEOREM LockInvariant ==
  ASSUME ForgeTokens = FALSE PROVE Spec => []LockInv
<1>1. Init => LockInv
  BY LockInvInit
<1>2. LockInv /\ [Next]_vars => LockInv'
  BY LockInvInductive
<1> QED BY <1>1, <1>2, PTL DEF Spec

\* Type correctness of the lock words and of every caller's position.
THEOREM TypeCorrect ==
  ASSUME ForgeTokens = FALSE PROVE Spec => []TypeOK
<1>1. LockInv => TypeOK
  BY DEF LockInv
<1> QED BY <1>1, LockInvariant, PTL

\* Two CPUs are never both between a returned lock/trylock and the release:
\* the critical section of every user of pma_ticket_lock is exclusive.
THEOREM Exclusion ==
  ASSUME ForgeTokens = FALSE PROVE Spec => []MutualExclusion
<1>1. LockInv => MutualExclusion
  BY DEF LockInv, OwnerInv, RingInv, MutualExclusion, InCritical, Outstanding
<1> QED BY <1>1, LockInvariant, PTL

\* The distance of the run's property is the one of the invariant.
LEMMA BehindIsDistance ==
  ASSUME TypeOK, NEW n \in Numbers
  PROVE  Behind(n) = Dist(owner, n)
<1> DEFINE d == n - owner
<1>1. Modulus \in Nat \ {0} /\ owner \in 0 .. (Modulus - 1) /\ n \in 0 .. (Modulus - 1)
  BY LockAssumption DEF TypeOK, Numbers
<1>2. CASE n >= owner
  <2>1. d \in 0 .. (Modulus - 1)
    BY <1>1, <1>2
  <2>2. d % Modulus = d
    BY <1>1, <2>1
  <2> QED BY <1>2, <2>2 DEF Behind, Dist
<1>3. CASE n < owner
  <2>1. d + Modulus \in 0 .. (Modulus - 1) /\ d \in Int
    BY <1>1, <1>3
  <2>2. d % Modulus = d + Modulus
    BY <1>1, <2>1
  <2> QED BY <1>1, <1>3, <2>2 DEF Behind, Dist
<1> QED BY <1>1, <1>2, <1>3

\* The numbers from owner to next are the outstanding tickets, each issued once:
\* none is skipped or repeated, also across the wrap (pma_sync.h:82).
THEOREM TicketsAreContiguous ==
  ASSUME ForgeTokens = FALSE PROVE Spec => []TicketsContiguous
<1>1. ASSUME LockInv PROVE TicketsContiguous
  <2>1. \A p \in Outstanding : ticket[p] \in Numbers
    BY <1>1 DEF LockInv, TypeOK, Outstanding
  <2>2. \A p \in Outstanding : Behind(ticket[p]) = Dist(owner, ticket[p])
    BY <1>1, <2>1, BehindIsDistance DEF LockInv
  <2>3. Behind(next) = Dist(owner, next)
    BY <1>1, BehindIsDistance DEF LockInv, TypeOK
  <2>4. \A p \in Outstanding : Dist(owner, ticket[p]) \in 0 .. (Dist(owner, next) - 1)
    <3> SUFFICES ASSUME NEW p \in Outstanding
                 PROVE  Dist(owner, ticket[p]) \in 0 .. (Dist(owner, next) - 1)
      OBVIOUS
    <3>1. Dist(owner, ticket[p]) \in 0 .. (Modulus - 1) /\ Dist(owner, next) \in 0 .. (Modulus - 1)
      BY <1>1, <2>1, RingArithmetic DEF LockInv, TypeOK
    <3>2. Dist(owner, ticket[p]) < Dist(owner, next)
      BY <1>1 DEF LockInv, RingInv
    <3> HIDE DEF Dist
    <3> QED BY <3>1, <3>2, LockAssumption
  <2>5. \A k \in 0 .. (Dist(owner, next) - 1) : \E p \in Outstanding : Dist(owner, ticket[p]) = k
    BY <1>1 DEF LockInv, RingInv
  <2>6. {Behind(ticket[p]) : p \in Outstanding} = 0 .. (Behind(next) - 1)
    BY <2>2, <2>3, <2>4, <2>5
  <2> QED BY <1>1, <2>6 DEF TicketsContiguous, LockInv, RingInv
<1> QED BY <1>1, LockInvariant, PTL

\* A repeated or empty release never advances owner (pma_sync.h:9).
THEOREM RepeatedReleaseFails ==
  ASSUME ForgeTokens = FALSE PROVE Spec => BadReleaseFails
<1>1. ASSUME LockInv, [Next]_vars
      PROVE  [\A p \in Procs : pc[p] = "again" /\ pc'[p] = "idle" => owner' = owner]_vars
  <2> SUFFICES ASSUME NEW p \in Procs, Next, pc[p] = "again", pc'[p] = "idle"
               PROVE  owner' = owner
    BY <1>1
  <2>1. BadUnlockEnd(p) \/ BadUnlockOutlived(p)
    <3>1. PICK q \in Procs : Lock(q) \/ TryLock(q) \/ Unlock(q) \/ BadUnlock(q)
      BY DEF Next
    <3>2. \E l \in PcValues : pc' = [pc EXCEPT ![q] = l]
      BY <3>1 DEF Lock, TryLock, Unlock, BadUnlock, LockReserve, LockIssue,
           LockReserveRelease, LockEnter, TryReserve, TryLoadOwner, TryLoadNext,
           TryFail, TryStore, TryReserveRelease, UnlockBegin, UnlockEnd,
           BadUnlockBegin, BadUnlockEnd, BadUnlockOutlived, Goto, PcValues
    <3>3. q = p
      BY <1>1, <3>2 DEF LockInv, TypeOK
    <3> QED BY <3>1, <3>3 DEF Lock, TryLock, Unlock, BadUnlock, LockReserve,
           LockIssue, LockReserveRelease, LockEnter, TryReserve, TryLoadOwner,
           TryLoadNext, TryFail, TryStore, TryReserveRelease, UnlockBegin,
           UnlockEnd, BadUnlockBegin
  <2>2. bad[p] # NoToken => bad[p] # owner
    BY <1>1, RingArithmetic DEF LockInv, BadInv, TypeOK
  <2> QED BY <2>1, <2>2 DEF BadUnlockEnd, BadUnlockOutlived, UnlockCas
<1> QED BY <1>1, LockInvariant, PTL DEF Spec, BadReleaseFails

\* trylock stores next only when no ticket is outstanding (pma_sync.h:10).
THEOREM TryLockIsIdle ==
  ASSUME ForgeTokens = FALSE PROVE Spec => TryTakesIdleLock
<1>1. ASSUME LockInv
      PROVE  [\A p \in Procs : pc[p] = "tryStore" /\ pc'[p] = "tryIssued" => Outstanding = {}]_vars
  <2> SUFFICES ASSUME NEW p \in Procs, pc[p] = "tryStore"
               PROVE  Outstanding = {}
    OBVIOUS
  <2>1. owner = next
    BY <1>1 DEF LockInv, SnapInv
  <2>2. \A q \in Outstanding : Dist(owner, ticket[q]) < 0 /\ ticket[q] \in Numbers
    BY <1>1, <2>1, RingArithmetic DEF LockInv, RingInv, TypeOK, Outstanding
  <2> QED BY <1>1, <2>2, RingArithmetic, LockAssumption DEF LockInv, TypeOK
<1> QED BY <1>1, LockInvariant, PTL DEF TryTakesIdleLock

-----------------------------------------------------------------------------
(* The refinement of the FIFO lock. *)

\* The processes with a ticket stand in the queue in the order of their tickets.
QueueInOrder ==
  /\ IsFiniteSet(Outstanding) /\ Cardinality(Outstanding) = Dist(owner, next)
  /\ Dist(owner, next) \in Nat
  /\ Queue \in Seq(Outstanding) /\ Len(Queue) = Dist(owner, next)
  /\ \A i \in 1 .. Len(Queue) : Dist(owner, ticket[Queue[i]]) = i - 1
  /\ \A p \in Outstanding : \E i \in 1 .. Len(Queue) : Queue[i] = p

LEMMA QueueOrdered == LockInv => QueueInOrder
<1> SUFFICES ASSUME LockInv
             PROVE  QueueInOrder
  OBVIOUS
<1> DEFINE d == Dist(owner, next)
           who == [k \in 0 .. (d - 1) |-> CHOOSE q \in Outstanding : Dist(owner, ticket[q]) = k]
<1>1. d \in Nat
  BY RingArithmetic, LockAssumption DEF LockInv, TypeOK
<1>2. \A q \in Outstanding : ticket[q] \in Numbers
  BY DEF LockInv, TypeOK, Outstanding
<1>3. \A q \in Outstanding : Behind(ticket[q]) = Dist(owner, ticket[q])
  BY <1>2, BehindIsDistance DEF LockInv
<1>4. \A q \in Outstanding : Dist(owner, ticket[q]) \in 0 .. (d - 1)
  <2> TAKE q \in Outstanding
  <2>1. Dist(owner, ticket[q]) \in Nat
    BY <1>2, RingArithmetic, LockAssumption DEF LockInv, TypeOK
  <2>2. Dist(owner, ticket[q]) < d
    BY DEF LockInv, RingInv
  <2> HIDE DEF d
  <2> QED BY <1>1, <2>1, <2>2
<1>5. \A k \in 0 .. (d - 1) : who[k] \in Outstanding /\ Dist(owner, ticket[who[k]]) = k
  BY DEF LockInv, RingInv
<1>6. \A p, q \in Outstanding : Dist(owner, ticket[p]) = Dist(owner, ticket[q]) => p = q
  BY <1>2, RingArithmetic DEF LockInv, TypeOK, RingInv
<1>7. who \in Bijection(0 .. (d - 1), Outstanding)
  <2>1. who \in [0 .. (d - 1) -> Outstanding]
    BY <1>5
  <2>2. \A a, b \in 0 .. (d - 1) : who[a] = who[b] => a = b
    BY <1>5
  <2>3. \A q \in Outstanding : \E k \in 0 .. (d - 1) : who[k] = q
    <3> TAKE q \in Outstanding
    <3>1. Dist(owner, ticket[q]) \in 0 .. (d - 1)
      BY <1>4
    <3> QED BY <3>1, <1>5, <1>6
  <2> HIDE DEF who, d
  <2> QED BY <2>1, <2>2, <2>3 DEF Bijection, Injection, Surjection, IsInjective
<1>8. IsFiniteSet(Outstanding) /\ Cardinality(Outstanding) = d
  <2> HIDE DEF who, d
  <2>1. IsFiniteSet(0 .. (d - 1)) /\ Cardinality(0 .. (d - 1)) = d
    BY <1>1, FS_Interval
  <2>2. ExistsBijection(0 .. (d - 1), Outstanding)
    BY <1>7 DEF ExistsBijection
  <2> QED BY <2>1, <2>2, FS_Bijection
<1>9. \A i \in 1 .. d : Queue[i] = who[i - 1] /\ Queue[i] \in Outstanding
  <2> TAKE i \in 1 .. d
  <2>1. i - 1 \in 0 .. (d - 1) /\ i \in 1 .. Cardinality(Outstanding)
    BY <1>1, <1>8
  <2>2. Queue[i] = CHOOSE p \in Outstanding : Behind(ticket[p]) = i - 1
    BY <2>1 DEF Queue
  <2>3. Queue[i] \in Outstanding /\ Behind(ticket[Queue[i]]) = i - 1
    BY <2>1, <2>2, <1>3, <1>5
  <2> QED BY <2>1, <2>3, <1>3, <1>5, <1>6
<1>10. Queue \in Seq(Outstanding) /\ Len(Queue) = d
  <2>1. Queue = [i \in 1 .. d |-> Queue[i]]
    BY <1>8 DEF Queue
  <2> HIDE DEF who, d
  <2> QED BY <1>1, <1>9, <2>1
<1>11. \A i \in 1 .. d : Dist(owner, ticket[Queue[i]]) = i - 1
  <2> TAKE i \in 1 .. d
  <2>1. i - 1 \in 0 .. (d - 1)
    BY <1>1
  <2> QED BY <2>1, <1>5, <1>9
<1>12. \A p \in Outstanding : \E i \in 1 .. d : Queue[i] = p
  <2> TAKE p \in Outstanding
  <2> DEFINE k == Dist(owner, ticket[p])
  <2>1. k \in 0 .. (d - 1)
    BY <1>4
  <2>2. k + 1 \in 1 .. d /\ (k + 1) - 1 = k
    BY <1>1, <2>1
  <2>3. Queue[k + 1] = who[k]
    BY <2>2, <1>9
  <2> QED BY <2>1, <2>2, <2>3, <1>5, <1>6
<1> HIDE DEF d
<1> QED BY <1>1, <1>8, <1>10, <1>11, <1>12 DEF QueueInOrder, d

LEMMA DistanceTells ==
  ASSUME NEW m \in Numbers, NEW n \in Numbers, NEW k \in Numbers, Dist(m, n) = Dist(m, k)
  PROVE  n = k
  BY RingArithmetic

\* Two queues over the same tickets are the same.
LEMMA QueueUnchanged ==
  ASSUME Outstanding' = Outstanding, owner' = owner, ticket' = ticket
  PROVE  Queue' = Queue
  BY DEF Queue, Behind

LEMMA IsAppend ==
  ASSUME NEW S, NEW q \in Seq(S), NEW r \in Seq(S), NEW x \in S, Len(r) = Len(q) + 1,
         \A i \in 1 .. Len(q) : r[i] = q[i], r[Len(q) + 1] = x
  PROVE  r = Append(q, x)
  OBVIOUS

\* A new ticket stands at the end of the queue.
LEMMA QueueIssue ==
  ASSUME LockInv, QueueInOrder, QueueInOrder', NEW p \in Procs, p \notin Outstanding,
         next' = Inc(next), owner' = owner,
         ticket' = [ticket EXCEPT ![p] = next],
         Outstanding' = Outstanding \cup {p}
  PROVE  Queue' = Append(Queue, p)
<1> DEFINE d == Len(Queue)
<1>1. d \in Nat /\ d = Dist(owner, next) /\ d = Cardinality(Outstanding)
  BY DEF QueueInOrder
<1>2. Cardinality(Outstanding') = d + 1
  BY <1>1, FS_AddElement DEF QueueInOrder
<1>3. Len(Queue') = d + 1 /\ Queue' \in Seq(Outstanding')
  BY <1>2 DEF QueueInOrder
<1>4. \A i \in 1 .. d : Queue'[i] = Queue[i]
  <2> TAKE i \in 1 .. d
  <2>1. i \in 1 .. Len(Queue')
    BY <1>1, <1>3
  <2>2. Dist(owner, ticket'[Queue'[i]]) = i - 1
    BY <2>1 DEF QueueInOrder, Dist
  <2>3. Queue'[i] \in Outstanding' /\ Queue[i] \in Outstanding
    BY <2>1, <1>1, <1>3 DEF QueueInOrder
  <2>4. Queue'[i] # p
    <3> SUFFICES ASSUME Queue'[i] = p PROVE FALSE
      OBVIOUS
    <3>1. ticket'[Queue'[i]] = next
      BY DEF LockInv, TypeOK
    <3> QED BY <3>1, <2>2, <1>1
  <2>5. Queue'[i] \in Outstanding /\ ticket'[Queue'[i]] = ticket[Queue'[i]]
    BY <2>3, <2>4 DEF LockInv, TypeOK, Outstanding
  <2>6. Dist(owner, ticket[Queue[i]]) = i - 1
    BY <1>1 DEF QueueInOrder
  <2>7. ticket[Queue'[i]] \in Numbers /\ ticket[Queue[i]] \in Numbers
    BY <2>3, <2>5 DEF LockInv, TypeOK, Outstanding
  <2>8. ticket[Queue'[i]] = ticket[Queue[i]]
    <3>1. owner \in Numbers
      BY DEF LockInv, TypeOK
    <3>2. Dist(owner, ticket[Queue'[i]]) = Dist(owner, ticket[Queue[i]])
      BY <2>2, <2>5, <2>6
    <3> QED BY <3>1, <3>2, <2>7, DistanceTells
  <2> QED BY <2>3, <2>5, <2>8 DEF LockInv, RingInv
<1>5. Queue'[d + 1] = p
  <2>1. PICK j \in 1 .. Len(Queue') : Queue'[j] = p
    BY DEF QueueInOrder
  <2>2. \A i \in 1 .. d : Queue[i] # p
    BY <1>1 DEF QueueInOrder
  <2> QED BY <2>1, <2>2, <1>1, <1>3, <1>4
<1> HIDE DEF d
<1>6. Queue \in Seq(Procs) /\ Queue' \in Seq(Procs)
  <2>1. Outstanding \subseteq Procs /\ Outstanding' \subseteq Procs
    BY DEF Outstanding
  <2> QED BY <2>1 DEF QueueInOrder
<1> QED BY <1>3, <1>4, <1>5, <1>6, IsAppend DEF d

\* The holder stands at the front, and its release moves everybody up.
LEMMA QueueRelease ==
  ASSUME LockInv, QueueInOrder, QueueInOrder', NEW p \in Outstanding, ticket[p] = owner,
         next' = next, owner' = Inc(owner),
         ticket' = [ticket EXCEPT ![p] = 0],
         Outstanding' = Outstanding \ {p}
  PROVE  Queue # <<>> /\ Head(Queue) = p /\ Queue' = Tail(Queue)
<1> DEFINE d == Len(Queue)
<1>0. Outstanding \subseteq Procs /\ p \in Procs
  BY DEF Outstanding
<1>1. d \in Nat /\ d = Dist(owner, next) /\ d = Cardinality(Outstanding)
  BY DEF QueueInOrder
<1>2. Cardinality(Outstanding') = d - 1
  BY <1>1, FS_RemoveElement DEF QueueInOrder
<1>3. Len(Queue') = d - 1 /\ Queue' \in Seq(Outstanding')
  BY <1>2 DEF QueueInOrder
<1>4. Queue[1] = p /\ d > 0
  <2>1. PICK j \in 1 .. Len(Queue) : Queue[j] = p
    BY DEF QueueInOrder
  <2>2. Dist(owner, ticket[p]) = j - 1
    BY <2>1 DEF QueueInOrder
  <2>3. Dist(owner, ticket[p]) = 0
    BY RingArithmetic DEF LockInv, TypeOK
  <2> QED BY <2>1, <2>2, <2>3, <1>1
<1>5. \A i \in 1 .. d - 1 : Queue'[i] = Queue[i + 1]
  <2> TAKE i \in 1 .. d - 1
  <2>1. i \in 1 .. Len(Queue') /\ i + 1 \in 1 .. Len(Queue)
    BY <1>1, <1>3
  <2>2. Queue'[i] \in Outstanding' /\ Queue[i + 1] \in Outstanding
    BY <2>1, <1>3 DEF QueueInOrder
  <2>3. Dist(Inc(owner), ticket'[Queue'[i]]) = i - 1
    BY <2>1 DEF QueueInOrder, Dist
  <2>4. ticket'[Queue'[i]] = ticket[Queue'[i]] /\ Queue'[i] \in Outstanding
    BY <2>2, <1>0 DEF LockInv, TypeOK
  <2>5. ticket[Queue'[i]] \in Numbers /\ ticket[Queue'[i]] # owner
    BY <2>2, <2>4, <1>0 DEF LockInv, TypeOK, RingInv
  <2>6. Dist(owner, ticket[Queue'[i]]) = i
    <3>1. Dist(Inc(owner), ticket[Queue'[i]]) = Dist(owner, ticket[Queue'[i]]) - 1
      BY <2>5, RingArithmetic DEF LockInv, TypeOK
    <3>2. Dist(owner, ticket[Queue'[i]]) \in Nat
      <4>1. owner \in Numbers /\ Modulus \in Nat
        BY LockAssumption DEF LockInv, TypeOK
      <4>2. Dist(owner, ticket[Queue'[i]]) \in 0 .. (Modulus - 1)
        BY ONLY <2>5, <4>1, RingArithmetic
      <4> QED BY ONLY <4>1, <4>2
    <3> QED BY <3>1, <3>2, <2>3, <2>4
  <2>7. Dist(owner, ticket[Queue[i + 1]]) = i
    BY <2>1 DEF QueueInOrder
  <2>8. ticket[Queue[i + 1]] \in Numbers
    BY <2>2, <1>0 DEF LockInv, TypeOK
  <2>9. ticket[Queue'[i]] = ticket[Queue[i + 1]]
    <3>1. owner \in Numbers
      BY DEF LockInv, TypeOK
    <3>2. Dist(owner, ticket[Queue'[i]]) = Dist(owner, ticket[Queue[i + 1]])
      BY <2>6, <2>7
    <3> QED BY <3>1, <3>2, <2>5, <2>8, DistanceTells
  <2> QED BY <2>2, <2>4, <2>9 DEF LockInv, RingInv
<1>6. Queue \in Seq(Procs) /\ Queue' \in Seq(Procs)
  <2>1. Outstanding' \subseteq Procs
    BY DEF Outstanding
  <2> QED BY <2>1, <1>0 DEF QueueInOrder
<1>7. Queue # <<>> /\ Head(Queue) = p
  BY <1>4, <1>6
<1>8. Tail(Queue) \in Seq(Procs) /\ Len(Tail(Queue)) = d - 1
  BY <1>6, <1>7
<1>9. \A i \in 1 .. d - 1 : Tail(Queue)[i] = Queue[i + 1]
  BY <1>6, <1>7
<1>10. Queue' = Tail(Queue)
  <2> HIDE DEF d
  <2> QED BY <1>1, <1>3, <1>5, <1>6, <1>8, <1>9
<1> QED BY <1>7, <1>10

\* Inside the critical section there is only the process at the front.
LEMMA HolderIsFirst ==
  ASSUME LockInv, QueueInOrder, NEW p \in Outstanding, ticket[p] = owner
  PROVE  /\ Queue # <<>> /\ Head(Queue) = p
         /\ InCritical \subseteq {p}
<1>1. PICK j \in 1 .. Len(Queue) : Queue[j] = p
  BY DEF QueueInOrder
<1>2. Dist(owner, ticket[p]) = 0
  BY RingArithmetic DEF LockInv, TypeOK
<1>3. j = 1
  BY <1>1, <1>2 DEF QueueInOrder
<1>4. Queue # <<>> /\ Head(Queue) = p
  BY <1>1, <1>3 DEF QueueInOrder
<1>5. InCritical \subseteq {p}
  BY DEF InCritical, Outstanding, LockInv, OwnerInv, RingInv
<1> QED BY <1>4, <1>5

\* Every step is a step of the FIFO lock or changes neither queue nor holder.
LEMMA StepRefines ==
  ASSUME ForgeTokens = FALSE, LockInv, LockInv', QueueInOrder, QueueInOrder', [Next]_vars
  PROVE  [Fifo!Next]_(Fifo!vars)
<1> USE DEF Goto
<1>0. pc \in [Procs -> PcValues] /\ ticket \in [Procs -> Numbers]
  BY DEF LockInv, TypeOK
<1> DEFINE Quiet == Queue' = Queue /\ InCritical' = InCritical
<1>1. Quiet => [Fifo!Next]_(Fifo!vars)
  BY DEF Fifo!vars
<1>2. ASSUME NEW p \in Procs,
             \/ LockReserve(p) \/ LockReserveRelease(p) \/ TryReserve(p) \/ TryLoadOwner(p)
             \/ TryLoadNext(p) \/ TryFail(p) \/ BadUnlockBegin(p) \/ BadUnlockOutlived(p)
      PROVE  Quiet
  <2>1. UNCHANGED <<owner, ticket>>
    BY <1>2 DEF LockReserve, LockReserveRelease, TryReserve, TryLoadOwner, TryLoadNext,
         TryFail, BadUnlockBegin, BadUnlockOutlived
  <2>2. \E l \in PcValues :
          /\ pc' = [pc EXCEPT ![p] = l]
          /\ l \in {"issued", "spin", "held", "unlock", "tryIssued"} <=>
               pc[p] \in {"issued", "spin", "held", "unlock", "tryIssued"}
          /\ l \in {"held", "unlock"} <=> pc[p] \in {"held", "unlock"}
    BY <1>2 DEF LockReserve, LockReserveRelease, TryReserve, TryLoadOwner, TryLoadNext,
         TryFail, BadUnlockBegin, BadUnlockOutlived, PcValues
  <2>3. Outstanding' = Outstanding /\ InCritical' = InCritical
    BY <1>0, <2>2 DEF Outstanding, InCritical
  <2> QED BY <2>1, <2>3, QueueUnchanged
<1>3. ASSUME NEW p \in Procs, UnlockBegin(p)
      PROVE  Quiet
  <2>1. ticket[p] = owner /\ p \in Outstanding
    BY <1>3 DEF UnlockBegin, LockInv, OwnerInv, Outstanding
  <2>2. next # ticket[p]
    BY <2>1, RingArithmetic DEF LockInv, RingInv, TypeOK
  <2>3. pc' = [pc EXCEPT ![p] = "unlock"] /\ UNCHANGED <<owner, ticket>> /\ pc[p] = "held"
    BY <1>3, <2>2 DEF UnlockBegin, UnlockCheck
  <2>4. Outstanding' = Outstanding /\ InCritical' = InCritical
    BY <1>0, <2>3 DEF Outstanding, InCritical
  <2> QED BY <2>3, <2>4, QueueUnchanged
<1>4. ASSUME NEW p \in Procs, BadUnlockEnd(p)
      PROVE  Quiet
  <2>1. bad[p] # owner
    BY <1>4, RingArithmetic DEF BadUnlockEnd, LockInv, BadInv, TypeOK
  <2>2. UNCHANGED <<owner, ticket>> /\ pc' = [pc EXCEPT ![p] = "idle"] /\ pc[p] = "again"
    BY <1>4, <2>1 DEF BadUnlockEnd, UnlockCas
  <2>3. Outstanding' = Outstanding /\ InCritical' = InCritical
    BY <1>0, <2>2 DEF Outstanding, InCritical
  <2> QED BY <2>2, <2>3, QueueUnchanged
<1>5. ASSUME NEW p \in Procs, LockIssue(p) \/ TryStore(p)
      PROVE  Fifo!Admit(p)
  <2>1. p \notin Outstanding
    BY <1>5 DEF LockIssue, TryStore, Outstanding
  <2>2. next' = Inc(next) /\ owner' = owner /\ ticket' = [ticket EXCEPT ![p] = next]
    BY <1>5 DEF LockIssue, TryStore, LockInv, SnapInv
  <2>3. Outstanding' = Outstanding \cup {p} /\ InCritical' = InCritical
    BY <1>0, <1>5 DEF LockIssue, TryStore, Outstanding, InCritical
  <2>4. Queue' = Append(Queue, p)
    BY <2>1, <2>2, <2>3, QueueIssue
  <2>5. \A i \in 1 .. Len(Queue) : Queue[i] # p
    BY <2>1 DEF QueueInOrder
  <2> QED BY <2>3, <2>4, <2>5 DEF Fifo!Admit
<1>6. ASSUME NEW p \in Procs, LockEnter(p) \/ TryReserveRelease(p)
      PROVE  Fifo!Acquire(p)
  <2>1. p \in Outstanding /\ p \notin InCritical /\ ticket[p] = owner
    BY <1>6 DEF LockEnter, TryReserveRelease, Outstanding, InCritical, LockInv, OwnerInv
  <2>2. UNCHANGED <<owner, ticket>> /\ Outstanding' = Outstanding /\ InCritical' = InCritical \cup {p}
    BY <1>0, <1>6 DEF LockEnter, TryReserveRelease, Outstanding, InCritical
  <2>3. Queue # <<>> /\ Head(Queue) = p /\ InCritical = {}
    BY <2>1, HolderIsFirst
  <2>4. Queue' = Queue
    BY <2>2, QueueUnchanged
  <2> QED BY <2>2, <2>3, <2>4 DEF Fifo!Acquire
<1>7. ASSUME NEW p \in Procs, UnlockEnd(p)
      PROVE  Fifo!Release(p)
  <2>1. p \in Outstanding /\ p \in InCritical /\ ticket[p] = owner
    BY <1>7 DEF UnlockEnd, Outstanding, InCritical, LockInv, OwnerInv
  <2>2. InCritical = {p}
    BY <2>1, HolderIsFirst
  <2>3. next' = next /\ owner' = Inc(owner) /\ ticket' = [ticket EXCEPT ![p] = 0]
    BY <1>7, <2>1 DEF UnlockEnd, UnlockCas
  <2>4. Outstanding' = Outstanding \ {p} /\ InCritical' = {}
    BY <1>0, <1>7, <2>2 DEF UnlockEnd, Outstanding, InCritical
  <2>5. Queue' = Tail(Queue)
    BY <2>1, <2>3, <2>4, QueueRelease
  <2> QED BY <2>2, <2>4, <2>5 DEF Fifo!Release
<1>8. CASE UNCHANGED vars
  <2>1. Outstanding' = Outstanding /\ InCritical' = InCritical /\ UNCHANGED <<owner, ticket>>
    BY <1>8 DEF vars, Outstanding, InCritical
  <2> QED BY <2>1, <1>1, QueueUnchanged
<1>9. CASE Next
  <2>1. PICK p \in Procs : Lock(p) \/ TryLock(p) \/ Unlock(p) \/ BadUnlock(p)
    BY <1>9 DEF Next
  <2>2. Quiet \/ Fifo!Admit(p) \/ Fifo!Acquire(p) \/ Fifo!Release(p)
    <3> HIDE DEF Quiet
    <3> QED BY <2>1, <1>2, <1>3, <1>4, <1>5, <1>6, <1>7 DEF Lock, TryLock, Unlock, BadUnlock
  <2> QED BY <2>2, <1>1 DEF Fifo!Next
<1> QED BY <1>8, <1>9

\* The ticket lock implements the FIFO lock of its header (pma_sync.h:1-10): CPUs
\* are admitted in the order of their fetch-and-add, one holds the lock at a time,
\* and only its release passes the lock on, also across the wrap of the counters.
THEOREM TicketLockIsFifo ==
  ASSUME ForgeTokens = FALSE PROVE Spec => ImplementsFifoLock
<1>1. Init => Fifo!Init
  <2> SUFFICES ASSUME Init
               PROVE  Fifo!Init
    OBVIOUS
  <2>1. Outstanding = {} /\ InCritical = {}
    BY DEF Init, Outstanding, InCritical
  <2>2. Cardinality(Outstanding) = 0
    BY <2>1, FS_EmptySet
  <2>3. Queue = <<>>
    BY <2>2 DEF Queue
  <2> QED BY <2>1, <2>3 DEF Fifo!Init
<1>2. LockInv /\ LockInv' /\ QueueInOrder /\ QueueInOrder' /\ [Next]_vars => [Fifo!Next]_(Fifo!vars)
  BY StepRefines
<1>3. Spec => []LockInv
  BY LockInvariant
<1>4. Spec => []QueueInOrder
  BY <1>3, QueueOrdered, PTL
<1> QED BY <1>1, <1>2, <1>3, <1>4, PTL DEF Spec, ImplementsFifoLock, Fifo!Spec

-----------------------------------------------------------------------------
(***************************************************************************)
(* The shootdown's safety. The argument: a handler that passed its         *)
(* acknowledgement check belongs to a CPU that has not acknowledged the    *)
(* current generation, so the phase word cannot leave PENDING (except for  *)
(* POISONED) until that handler is done.                                   *)
(***************************************************************************)

InBegin == {"claimed", "leafed", "issued", "requested", "invalidated", "acked"}

\* What each place of the BSP knows of the words only the BSP writes.
BspInv ==
  /\ at \in {"claimed", "leafed"} =>
       phase = <<generation, "publishing">> /\ request = generation /\ generation < MaxGen
  /\ at = "issued" =>
       phase = <<generation - 1, "publishing">> /\ request = generation - 1
  /\ at \in {"requested", "invalidated", "acked"} =>
       phase = <<generation - 1, "publishing">> /\ request = generation
  /\ at \notin InBegin =>
       phase[1] = generation /\ phase[2] # "publishing" /\ request = generation
  /\ at \in {"sending", "scanning", "closing"} =>
       phase[2] = "pending" /\ gen = generation
  /\ at = "closed" => phase[2] = "idle" /\ gen = generation
  /\ at \in {"scanning", "closing", "closed"} => generation > 0
  /\ at = "scanning" => cpu < N /\ \A c \in CPUs : c < cpu => ack[c] = generation
  /\ at = "closing" => \A c \in CPUs : ack[c] = generation

AckInv ==
  /\ \A c \in CPUs : ack[c] <= request
  /\ phase[2] = "idle" \/ at = "claimed" => \A c \in CPUs : ack[c] = request

FreshInv ==
  /\ AckMeansFresh
  /\ at = "invalidated" => Fresh(0)

Past(c) == irq[c] \in {"checked", "invalidating", "invalidated"}

HandlerOK(c) ==
  /\ Past(c) \/ (irq[c] = "loaded" /\ ack[c] # irqGen[c]) =>
       /\ irqGen[c] = generation /\ phase[1] = generation
       /\ phase[2] \in {"pending", "poisoned"} /\ ack[c] # generation
  /\ irq[c] = "invalidated" => Fresh(c)

HandlerInv == \A c \in APs : HandlerOK(c)

DiagnosticInv ==
  diagnostic # "none" /\ N > 1 =>
    /\ completed = 0 /\ ack[1] = 0
    /\ irq[1] # "invalidated"
    /\ diagnostic = "skip" => irq[1] # "invalidating"

TlbInv == TlbTypeOK /\ BspInv /\ AckInv /\ FreshInv /\ HandlerInv /\ DiagnosticInv

-----------------------------------------------------------------------------
\* Moving within, into or out of the IPI handler keeps its variables' types.
LEMMA EnterTypes ==
  ASSUME TlbTypeOK, NEW c \in APs, NEW p \in HandlerPlaces, NEW g \in Generations, Enter(c, p, g)
  PROVE  irq' \in [APs -> HandlerPlaces] /\ irqGen' \in [APs -> Generations]
BY DEF TlbTypeOK, Enter

\* Every access of the BSP, of a handler and of the hardware keeps TlbInv.
LEMMA TlbInvInductive ==
  ASSUME TlbInv, [TlbNext]_tlbVars
  PROVE  TlbInv'
<1> USE TlbAssumption DEF TlbInv, CPUs, APs, words, handler, bsp
<1>0. 0 \in Generations
  BY DEF Generations
<1>1. ASSUME NEW c \in CPUs, Fill(c) PROVE TlbInv'
  <2>1. TlbTypeOK'
    BY <1>0, <1>1 DEF Fill, TlbTypeOK, HandlerPlaces
  <2>2. BspInv'
    BY <1>1 DEF Fill, TlbTypeOK, BspInv, InBegin
  <2>3. AckInv'
    BY <1>1 DEF Fill, TlbTypeOK, BspInv, InBegin, AckInv, Generations
  <2>4. FreshInv'
    BY <1>1 DEF Fill, TlbTypeOK, BspInv, InBegin, AckInv, FreshInv, AckMeansFresh, Fresh, Generations
  <2>5. HandlerInv'
    BY <1>1 DEF Fill, TlbTypeOK, BspInv, InBegin, AckInv, HandlerInv, HandlerOK, Past, Fresh, Generations
  <2>6. DiagnosticInv'
    BY <1>1 DEF Fill, TlbTypeOK, BspInv, AckInv, DiagnosticInv, InBegin, HandlerPlaces
  <2> QED BY <2>1, <2>2, <2>3, <2>4, <2>5, <2>6
<1>2. ASSUME NEW c \in CPUs, Evict(c) PROVE TlbInv'
  <2>1. TlbTypeOK'
    BY <1>0, <1>2 DEF Evict, TlbTypeOK, HandlerPlaces
  <2>2. BspInv'
    BY <1>2 DEF Evict, TlbTypeOK, BspInv, InBegin
  <2>3. AckInv'
    BY <1>2 DEF Evict, TlbTypeOK, BspInv, InBegin, AckInv, Generations
  <2>4. FreshInv'
    BY <1>2 DEF Evict, TlbTypeOK, BspInv, InBegin, AckInv, FreshInv, AckMeansFresh, Fresh, Generations
  <2>5. HandlerInv'
    BY <1>2 DEF Evict, TlbTypeOK, BspInv, InBegin, AckInv, HandlerInv, HandlerOK, Past, Fresh, Generations
  <2>6. DiagnosticInv'
    BY <1>2 DEF Evict, TlbTypeOK, BspInv, AckInv, DiagnosticInv, InBegin, HandlerPlaces
  <2> QED BY <2>1, <2>2, <2>3, <2>4, <2>5, <2>6
<1>3. ASSUME NEW c \in CPUs, Enroll(c) PROVE TlbInv'
  <2>1. TlbTypeOK'
    BY <1>0, <1>3 DEF Enroll, TlbTypeOK, HandlerPlaces
  <2>2. BspInv'
    BY <1>3 DEF Enroll, TlbTypeOK, BspInv, InBegin
  <2>3. AckInv'
    BY <1>3 DEF Enroll, TlbTypeOK, BspInv, InBegin, AckInv, Generations
  <2>4. FreshInv'
    BY <1>3 DEF Enroll, TlbTypeOK, BspInv, InBegin, AckInv, FreshInv, AckMeansFresh, Fresh, Generations
  <2>5. HandlerInv'
    BY <1>3 DEF Enroll, TlbTypeOK, BspInv, InBegin, AckInv, HandlerInv, HandlerOK, Past, Fresh, Generations
  <2>6. DiagnosticInv'
    BY <1>3 DEF Enroll, TlbTypeOK, BspInv, AckInv, DiagnosticInv, InBegin, HandlerPlaces
  <2> QED BY <2>1, <2>2, <2>3, <2>4, <2>5, <2>6
<1>4. ASSUME NEW c \in APs, Fail(c) PROVE TlbInv'
  <2>1. TlbTypeOK'
    BY <1>0, <1>4 DEF Fail, TlbTypeOK, HandlerPlaces
  <2>2. BspInv'
    BY <1>4 DEF Fail, TlbTypeOK, BspInv, InBegin
  <2>3. AckInv'
    BY <1>4 DEF Fail, TlbTypeOK, BspInv, InBegin, AckInv, Generations
  <2>4. FreshInv'
    BY <1>4 DEF Fail, TlbTypeOK, BspInv, InBegin, AckInv, FreshInv, AckMeansFresh, Fresh, Generations
  <2>5. HandlerInv'
    BY <1>4 DEF Fail, TlbTypeOK, BspInv, InBegin, AckInv, HandlerInv, HandlerOK, Past, Fresh, Generations
  <2>6. DiagnosticInv'
    BY <1>4 DEF Fail, TlbTypeOK, BspInv, AckInv, DiagnosticInv, InBegin, HandlerPlaces
  <2> QED BY <2>1, <2>2, <2>3, <2>4, <2>5, <2>6
<1>5. ASSUME NEW c \in APs, StrayIpi(c) PROVE TlbInv'
  <2>1. TlbTypeOK'
    BY <1>0, <1>5 DEF StrayIpi, TlbTypeOK, HandlerPlaces
  <2>2. BspInv'
    BY <1>5 DEF StrayIpi, TlbTypeOK, BspInv, InBegin
  <2>3. AckInv'
    BY <1>5 DEF StrayIpi, TlbTypeOK, BspInv, InBegin, AckInv, Generations
  <2>4. FreshInv'
    BY <1>5 DEF StrayIpi, TlbTypeOK, BspInv, InBegin, AckInv, FreshInv, AckMeansFresh, Fresh, Generations
  <2>5. HandlerInv'
    BY <1>5 DEF StrayIpi, TlbTypeOK, BspInv, InBegin, AckInv, HandlerInv, HandlerOK, Past, Fresh, Generations
  <2>6. DiagnosticInv'
    BY <1>5 DEF StrayIpi, TlbTypeOK, BspInv, AckInv, DiagnosticInv, InBegin, HandlerPlaces
  <2> QED BY <2>1, <2>2, <2>3, <2>4, <2>5, <2>6
<1>6. ASSUME NEW c \in APs, IpiLoadPhase(c) PROVE TlbInv'
  <2>1. TlbTypeOK'
    BY <1>0, <1>6 DEF IpiLoadPhase, Running, Enter, Leave, TlbTypeOK, HandlerPlaces
  <2>2. BspInv'
    BY <1>6 DEF IpiLoadPhase, Running, Enter, Leave, TlbTypeOK, BspInv, InBegin
  <2>3. AckInv'
    BY <1>6 DEF IpiLoadPhase, Running, Enter, Leave, TlbTypeOK, BspInv, InBegin, AckInv, Generations
  <2>4. FreshInv'
    BY <1>6 DEF IpiLoadPhase, Running, Enter, Leave, TlbTypeOK, BspInv, InBegin, AckInv, FreshInv, AckMeansFresh, Fresh, Generations
  <2>5. HandlerInv'
    <3> SUFFICES ASSUME NEW d \in APs PROVE HandlerOK(d)'
      BY DEF HandlerInv
    <3>1. CASE d = c
      BY <1>6, <3>1 DEF IpiLoadPhase, Running, Enter, Leave, TlbTypeOK, BspInv, InBegin, HandlerInv, HandlerOK, Past, Fresh
    <3>2. CASE d # c
      BY <1>6, <3>2 DEF IpiLoadPhase, Running, Enter, Leave, TlbTypeOK, HandlerInv, HandlerOK, Past, Fresh
    <3> QED BY <3>1, <3>2
  <2>6. DiagnosticInv'
    BY <1>6 DEF IpiLoadPhase, Running, Enter, Leave, TlbTypeOK, BspInv, AckInv, DiagnosticInv, InBegin, HandlerPlaces
  <2> QED BY <2>1, <2>2, <2>3, <2>4, <2>5, <2>6
<1>7. ASSUME NEW c \in APs, IpiLoadAck(c) PROVE TlbInv'
  <2>1. TlbTypeOK'
    BY <1>0, <1>7 DEF IpiLoadAck, Running, Enter, Leave, TlbTypeOK, HandlerPlaces
  <2>2. BspInv'
    BY <1>7 DEF IpiLoadAck, Running, Enter, Leave, TlbTypeOK, BspInv, InBegin
  <2>3. AckInv'
    BY <1>7 DEF IpiLoadAck, Running, Enter, Leave, TlbTypeOK, BspInv, InBegin, AckInv, Generations
  <2>4. FreshInv'
    BY <1>7 DEF IpiLoadAck, Running, Enter, Leave, TlbTypeOK, BspInv, InBegin, AckInv, FreshInv, AckMeansFresh, Fresh, Generations
  <2>5. HandlerInv'
    <3> SUFFICES ASSUME NEW d \in APs PROVE HandlerOK(d)'
      BY DEF HandlerInv
    <3>1. CASE d = c
      BY <1>7, <3>1 DEF IpiLoadAck, Running, Enter, Leave, TlbTypeOK, BspInv, InBegin, HandlerInv, HandlerOK, Past, Fresh
    <3>2. CASE d # c
      BY <1>7, <3>2 DEF IpiLoadAck, Running, Enter, Leave, TlbTypeOK, HandlerInv, HandlerOK, Past, Fresh
    <3> QED BY <3>1, <3>2
  <2>6. DiagnosticInv'
    BY <1>7 DEF IpiLoadAck, Running, Enter, Leave, TlbTypeOK, BspInv, AckInv, DiagnosticInv, InBegin, HandlerPlaces
  <2> QED BY <2>1, <2>2, <2>3, <2>4, <2>5, <2>6
<1>8. ASSUME NEW c \in APs, IpiDescriptor(c) PROVE TlbInv'
  <2>1. TlbTypeOK'
    <3>1. irq' \in [APs -> HandlerPlaces] /\ irqGen' \in [APs -> Generations]
      <4>1. irqGen[c] \in Generations /\ 0 \in Generations
        BY <1>0 DEF TlbTypeOK
      <4>2. Enter(c, "invalidating", irqGen[c]) \/ Enter(c, "none", 0)
        BY <1>8 DEF IpiDescriptor, Leave
      <4> QED BY <4>1, <4>2, EnterTypes DEF HandlerPlaces
    <3> QED BY <1>8, <3>1 DEF IpiDescriptor, TlbTypeOK
  <2>2. BspInv'
    BY <1>8 DEF IpiDescriptor, Running, Enter, Leave, TlbTypeOK, BspInv, InBegin
  <2>3. AckInv'
    BY <1>8 DEF IpiDescriptor, Running, Enter, Leave, TlbTypeOK, BspInv, InBegin, AckInv, Generations
  <2>4. FreshInv'
    BY <1>8 DEF IpiDescriptor, Running, Enter, Leave, TlbTypeOK, BspInv, InBegin, AckInv, FreshInv, AckMeansFresh, Fresh, Generations
  <2>5. HandlerInv'
    <3> SUFFICES ASSUME NEW d \in APs PROVE HandlerOK(d)'
      BY DEF HandlerInv
    <3>1. CASE d = c
      BY <1>8, <3>1 DEF IpiDescriptor, Running, Enter, Leave, TlbTypeOK, HandlerInv, HandlerOK, Past, Fresh
    <3>2. CASE d # c
      <4>1. irq'[d] = irq[d] /\ irqGen'[d] = irqGen[d]
        BY <1>8, <3>2 DEF IpiDescriptor, Running, Enter, Leave, TlbTypeOK
      <4> QED BY <1>8, <4>1 DEF IpiDescriptor, HandlerInv, HandlerOK, Past, Fresh
    <3> QED BY <3>1, <3>2
  <2>6. DiagnosticInv'
    BY <1>8 DEF IpiDescriptor, Running, Enter, Leave, TlbTypeOK, BspInv, AckInv, DiagnosticInv, InBegin, HandlerPlaces
  <2> QED BY <2>1, <2>2, <2>3, <2>4, <2>5, <2>6
<1>9. ASSUME NEW c \in APs, IpiInvlpg(c) PROVE TlbInv'
  <2>1. TlbTypeOK'
    <3>1. irq' \in [APs -> HandlerPlaces] /\ irqGen' \in [APs -> Generations]
      <4>1. irqGen[c] \in Generations /\ 0 \in Generations
        BY <1>0 DEF TlbTypeOK
      <4>2. Enter(c, "invalidated", irqGen[c]) \/ Enter(c, "none", 0)
        BY <1>9 DEF IpiInvlpg, Leave
      <4> QED BY <4>1, <4>2, EnterTypes DEF HandlerPlaces
    <3>2. entry' \in [CPUs -> Frames \cup {None}]
      BY <1>9 DEF IpiInvlpg, Invlpg, TlbTypeOK
    <3> QED BY <1>9, <3>1, <3>2 DEF IpiInvlpg, TlbTypeOK
  <2>2. BspInv'
    BY <1>9 DEF IpiInvlpg, Running, Invlpg, Enter, Leave, TlbTypeOK, BspInv, InBegin
  <2>3. AckInv'
    BY <1>9 DEF IpiInvlpg, Running, Invlpg, Enter, Leave, TlbTypeOK, BspInv, InBegin, AckInv, Generations
  <2>4. FreshInv'
    BY <1>9 DEF IpiInvlpg, Running, Invlpg, Enter, Leave, TlbTypeOK, BspInv, InBegin, AckInv, FreshInv, AckMeansFresh, Fresh, Generations
  <2>5. HandlerInv'
    <3> SUFFICES ASSUME NEW d \in APs PROVE HandlerOK(d)'
      BY DEF HandlerInv
    <3>1. CASE d = c
      BY <1>9, <3>1 DEF IpiInvlpg, Running, Invlpg, Enter, Leave, TlbTypeOK, BspInv, InBegin, HandlerInv, HandlerOK, Past, Fresh
    <3>2. CASE d # c
      <4>1. irq'[d] = irq[d] /\ irqGen'[d] = irqGen[d] /\ entry'[d] = entry[d]
        BY <1>9, <3>2 DEF IpiInvlpg, Running, Invlpg, Enter, Leave, TlbTypeOK
      <4> QED BY <1>9, <4>1 DEF IpiInvlpg, HandlerInv, HandlerOK, Past, Fresh
    <3> QED BY <3>1, <3>2
  <2>6. DiagnosticInv'
    BY <1>9 DEF IpiInvlpg, Running, Invlpg, Enter, Leave, TlbTypeOK, BspInv, AckInv, DiagnosticInv, InBegin, HandlerPlaces
  <2> QED BY <2>1, <2>2, <2>3, <2>4, <2>5, <2>6
<1>10. ASSUME NEW c \in APs, IpiAck(c) PROVE TlbInv'
  <2>1. TlbTypeOK'
    BY <1>0, <1>10 DEF IpiAck, Running, Enter, Leave, TlbTypeOK, HandlerPlaces
  <2>2. BspInv'
    BY <1>10 DEF IpiAck, Running, Enter, Leave, TlbTypeOK, BspInv, InBegin, HandlerInv, HandlerOK, Past
  <2>3. AckInv'
    <3>1. irqGen[c] = generation /\ phase[1] = generation /\ phase[2] \in {"pending", "poisoned"}
      BY <1>10 DEF IpiAck, Running, HandlerInv, HandlerOK, Past
    <3>2. at \notin InBegin /\ request = generation
      BY <3>1 DEF TlbTypeOK, BspInv, InBegin, Generations
    <3>3. ack' = [ack EXCEPT ![c] = generation] /\ UNCHANGED <<phase, request, at>>
      BY <1>10, <3>1 DEF IpiAck
    <3> QED BY <3>1, <3>2, <3>3 DEF TlbTypeOK, InBegin, AckInv, Generations
  <2>4. FreshInv'
    BY <1>10 DEF IpiAck, Running, Enter, Leave, TlbTypeOK, BspInv, InBegin, AckInv, FreshInv, AckMeansFresh, Fresh, Generations, HandlerInv, HandlerOK, Past
  <2>5. HandlerInv'
    <3> SUFFICES ASSUME NEW d \in APs PROVE HandlerOK(d)'
      BY DEF HandlerInv
    <3>1. CASE d = c
      BY <1>10, <3>1 DEF IpiAck, Running, Enter, Leave, TlbTypeOK, HandlerInv, HandlerOK, Past, Fresh
    <3>2. CASE d # c
      <4>1. irq'[d] = irq[d] /\ irqGen'[d] = irqGen[d] /\ ack'[d] = ack[d]
        BY <1>10, <3>2 DEF IpiAck, Running, Enter, Leave, TlbTypeOK
      <4> QED BY <1>10, <4>1 DEF IpiAck, HandlerInv, HandlerOK, Past, Fresh
    <3> QED BY <3>1, <3>2
  <2>6. DiagnosticInv'
    BY <1>10 DEF IpiAck, Running, Enter, Leave, TlbTypeOK, BspInv, AckInv, DiagnosticInv, InBegin, HandlerPlaces
  <2> QED BY <2>1, <2>2, <2>3, <2>4, <2>5, <2>6
<1>11. ASSUME NEW i \in Frames, BeginClaim(i) PROVE TlbInv'
  <2>1. TlbTypeOK'
    <3>1. phase' \in Generations \X States
      BY <1>11 DEF BeginClaim, Phase, TlbTypeOK, States
    <3>2. at' \in BspPlaces /\ gen' \in Generations /\ cpu' \in 0 .. N /\ index' \in Frames
      BY <1>0, <1>11 DEF BeginClaim, Go, BspPlaces, Frames
    <3> QED BY <1>11, <3>1, <3>2 DEF BeginClaim, TlbTypeOK
  <2>2. BspInv'
    BY <1>11 DEF BeginClaim, Phase, Go, TlbTypeOK, BspInv, InBegin
  <2>3. AckInv'
    BY <1>11 DEF BeginClaim, Phase, Go, TlbTypeOK, BspInv, InBegin, AckInv, Generations
  <2>4. FreshInv'
    BY <1>11 DEF BeginClaim, Phase, Go, TlbTypeOK, BspInv, InBegin, AckInv, FreshInv, AckMeansFresh, Fresh, Generations
  <2>5. HandlerInv'
    BY <1>11 DEF BeginClaim, Phase, Go, TlbTypeOK, BspInv, InBegin, AckInv, HandlerInv, HandlerOK, Past, Fresh, Generations
  <2>6. DiagnosticInv'
    BY <1>11 DEF BeginClaim, Phase, Go, TlbTypeOK, BspInv, AckInv, DiagnosticInv, InBegin, HandlerPlaces
  <2> QED BY <2>1, <2>2, <2>3, <2>4, <2>5, <2>6
<1>12. ASSUME BeginUnchanged PROVE TlbInv'
  <2>1. TlbTypeOK'
    BY <1>0, <1>12 DEF BeginUnchanged, Phase, Go, Return, TlbTypeOK, BspPlaces, States, Frames
  <2>2. BspInv'
    BY <1>12 DEF BeginUnchanged, Phase, Go, Return, TlbTypeOK, BspInv, InBegin
  <2>3. AckInv'
    BY <1>12 DEF BeginUnchanged, Phase, Go, Return, TlbTypeOK, BspInv, InBegin, AckInv, Generations
  <2>4. FreshInv'
    BY <1>12 DEF BeginUnchanged, Phase, Go, Return, TlbTypeOK, BspInv, InBegin, AckInv, FreshInv, AckMeansFresh, Fresh, Generations
  <2>5. HandlerInv'
    BY <1>12 DEF BeginUnchanged, Phase, Go, Return, TlbTypeOK, BspInv, InBegin, AckInv, HandlerInv, HandlerOK, Past, Fresh, Generations
  <2>6. DiagnosticInv'
    BY <1>12 DEF BeginUnchanged, Phase, Go, Return, TlbTypeOK, BspInv, AckInv, DiagnosticInv, InBegin, HandlerPlaces
  <2> QED BY <2>1, <2>2, <2>3, <2>4, <2>5, <2>6
<1>13. ASSUME BeginLeaf PROVE TlbInv'
  <2>1. TlbTypeOK'
    BY <1>0, <1>13 DEF BeginLeaf, Go, TlbTypeOK, BspPlaces, States, Frames
  <2>2. BspInv'
    BY <1>13 DEF BeginLeaf, Go, TlbTypeOK, BspInv, InBegin
  <2>3. AckInv'
    BY <1>13 DEF BeginLeaf, Go, TlbTypeOK, BspInv, InBegin, AckInv, Generations
  <2>4. FreshInv'
    BY <1>13 DEF BeginLeaf, Go, TlbTypeOK, BspInv, InBegin, AckInv, FreshInv, AckMeansFresh, Fresh, Generations
  <2>5. HandlerInv'
    BY <1>13 DEF BeginLeaf, Go, TlbTypeOK, BspInv, InBegin, AckInv, HandlerInv, HandlerOK, Past, Fresh, Generations
  <2>6. DiagnosticInv'
    BY <1>13 DEF BeginLeaf, Go, TlbTypeOK, BspInv, AckInv, DiagnosticInv, InBegin, HandlerPlaces
  <2> QED BY <2>1, <2>2, <2>3, <2>4, <2>5, <2>6
<1>14. ASSUME BeginIssue PROVE TlbInv'
  <2>1. TlbTypeOK'
    <3>1. generation' \in Generations
      BY <1>14 DEF BeginIssue, TlbTypeOK, BspInv, Generations
    <3>2. at' \in BspPlaces /\ gen' \in Generations /\ cpu' \in 0 .. N /\ index' \in Frames
      BY <1>0, <1>14 DEF BeginIssue, Go, BspPlaces, Frames
    <3> QED BY <1>14, <3>1, <3>2 DEF BeginIssue, TlbTypeOK
  <2>2. BspInv'
    BY <1>14 DEF BeginIssue, Go, TlbTypeOK, BspInv, InBegin, Generations
  <2>3. AckInv'
    BY <1>14 DEF BeginIssue, Go, TlbTypeOK, BspInv, InBegin, AckInv, Generations
  <2>4. FreshInv'
    BY <1>14 DEF BeginIssue, Go, TlbTypeOK, BspInv, InBegin, AckInv, FreshInv, AckMeansFresh, Fresh, Generations
  <2>5. HandlerInv'
    BY <1>14 DEF BeginIssue, Go, TlbTypeOK, BspInv, InBegin, AckInv, HandlerInv, HandlerOK, Past, Fresh, Generations
  <2>6. DiagnosticInv'
    BY <1>14 DEF BeginIssue, Go, TlbTypeOK, BspInv, AckInv, DiagnosticInv, InBegin, HandlerPlaces
  <2> QED BY <2>1, <2>2, <2>3, <2>4, <2>5, <2>6
<1>15. ASSUME BeginRequest PROVE TlbInv'
  <2>1. TlbTypeOK'
    BY <1>0, <1>15 DEF BeginRequest, Go, TlbTypeOK, BspPlaces, States, Frames
  <2>2. BspInv'
    BY <1>15 DEF BeginRequest, Go, TlbTypeOK, BspInv, InBegin
  <2>3. AckInv'
    BY <1>15 DEF BeginRequest, Go, TlbTypeOK, BspInv, InBegin, AckInv, Generations
  <2>4. FreshInv'
    BY <1>15 DEF BeginRequest, Go, TlbTypeOK, BspInv, InBegin, AckInv, FreshInv, AckMeansFresh, Fresh, Generations
  <2>5. HandlerInv'
    BY <1>15 DEF BeginRequest, Go, TlbTypeOK, BspInv, InBegin, AckInv, HandlerInv, HandlerOK, Past, Fresh, Generations
  <2>6. DiagnosticInv'
    BY <1>15 DEF BeginRequest, Go, TlbTypeOK, BspInv, AckInv, DiagnosticInv, InBegin, HandlerPlaces
  <2> QED BY <2>1, <2>2, <2>3, <2>4, <2>5, <2>6
<1>16. ASSUME BeginInvlpg PROVE TlbInv'
  <2>1. TlbTypeOK'
    BY <1>0, <1>16 DEF BeginInvlpg, Invlpg, Go, TlbTypeOK, BspPlaces, States, Frames
  <2>2. BspInv'
    BY <1>16 DEF BeginInvlpg, Invlpg, Go, TlbTypeOK, BspInv, InBegin
  <2>3. AckInv'
    BY <1>16 DEF BeginInvlpg, Invlpg, Go, TlbTypeOK, BspInv, InBegin, AckInv, Generations
  <2>4. FreshInv'
    BY <1>16 DEF BeginInvlpg, Invlpg, Go, TlbTypeOK, BspInv, InBegin, AckInv, FreshInv, AckMeansFresh, Fresh, Generations
  <2>5. HandlerInv'
    BY <1>16 DEF BeginInvlpg, Invlpg, Go, TlbTypeOK, BspInv, InBegin, AckInv, HandlerInv, HandlerOK, Past, Fresh, Generations
  <2>6. DiagnosticInv'
    BY <1>16 DEF BeginInvlpg, Invlpg, Go, TlbTypeOK, BspInv, AckInv, DiagnosticInv, InBegin, HandlerPlaces
  <2> QED BY <2>1, <2>2, <2>3, <2>4, <2>5, <2>6
<1>17. ASSUME BeginAck PROVE TlbInv'
  <2>1. TlbTypeOK'
    BY <1>0, <1>17 DEF BeginAck, Go, TlbTypeOK, BspPlaces, States, Frames
  <2>2. BspInv'
    BY <1>17 DEF BeginAck, Go, TlbTypeOK, BspInv, InBegin
  <2>3. AckInv'
    BY <1>17 DEF BeginAck, Go, TlbTypeOK, BspInv, InBegin, AckInv, Generations
  <2>4. FreshInv'
    BY <1>17 DEF BeginAck, Go, TlbTypeOK, BspInv, InBegin, AckInv, FreshInv, AckMeansFresh, Fresh, Generations
  <2>5. HandlerInv'
    BY <1>17 DEF BeginAck, Go, TlbTypeOK, BspInv, InBegin, AckInv, HandlerInv, HandlerOK, Past, Fresh, Generations
  <2>6. DiagnosticInv'
    BY <1>17 DEF BeginAck, Go, TlbTypeOK, BspInv, AckInv, DiagnosticInv, InBegin, HandlerPlaces
  <2> QED BY <2>1, <2>2, <2>3, <2>4, <2>5, <2>6
<1>18. ASSUME BeginPending PROVE TlbInv'
  <2>1. TlbTypeOK'
    BY <1>0, <1>18 DEF BeginPending, Phase, Go, Return, TlbTypeOK, BspPlaces, States, Frames
  <2>2. BspInv'
    BY <1>18 DEF BeginPending, Phase, Go, Return, TlbTypeOK, BspInv, InBegin
  <2>3. AckInv'
    BY <1>18 DEF BeginPending, Phase, Go, Return, TlbTypeOK, BspInv, InBegin, AckInv, Generations
  <2>4. FreshInv'
    BY <1>18 DEF BeginPending, Phase, Go, Return, TlbTypeOK, BspInv, InBegin, AckInv, FreshInv, AckMeansFresh, Fresh, Generations
  <2>5. HandlerInv'
    BY <1>18 DEF BeginPending, Phase, Go, Return, TlbTypeOK, BspInv, InBegin, AckInv, HandlerInv, HandlerOK, Past, Fresh, Generations
  <2>6. DiagnosticInv'
    BY <1>18 DEF BeginPending, Phase, Go, Return, TlbTypeOK, BspInv, AckInv, DiagnosticInv, InBegin, HandlerPlaces
  <2> QED BY <2>1, <2>2, <2>3, <2>4, <2>5, <2>6
<1>19. ASSUME NEW g \in Generations, DispatchStart(g) PROVE TlbInv'
  <2>1. TlbTypeOK'
    BY <1>0, <1>19 DEF DispatchStart, Phase, Go, TlbTypeOK, BspPlaces, States, Frames
  <2>2. BspInv'
    BY <1>19 DEF DispatchStart, Phase, Go, TlbTypeOK, BspInv, InBegin
  <2>3. AckInv'
    BY <1>19 DEF DispatchStart, Phase, Go, TlbTypeOK, BspInv, InBegin, AckInv, Generations
  <2>4. FreshInv'
    BY <1>19 DEF DispatchStart, Phase, Go, TlbTypeOK, BspInv, InBegin, AckInv, FreshInv, AckMeansFresh, Fresh, Generations
  <2>5. HandlerInv'
    BY <1>19 DEF DispatchStart, Phase, Go, TlbTypeOK, BspInv, InBegin, AckInv, HandlerInv, HandlerOK, Past, Fresh, Generations
  <2>6. DiagnosticInv'
    BY <1>19 DEF DispatchStart, Phase, Go, TlbTypeOK, BspInv, AckInv, DiagnosticInv, InBegin, HandlerPlaces
  <2> QED BY <2>1, <2>2, <2>3, <2>4, <2>5, <2>6
<1>20. ASSUME DispatchSend PROVE TlbInv'
  <2>1. TlbTypeOK'
    <3>1. cpu' \in 0 .. N /\ ipi' \subseteq 0 .. (N - 1)
      BY <1>20 DEF DispatchSend, Go, TlbTypeOK
    <3>2. UNCHANGED <<words, ready, diagnostic, leaf, entry, online, handler, gen>> /\ at' = "sending" /\ index' = 0
      BY <1>20 DEF DispatchSend, Go
    <3> QED BY <3>1, <3>2 DEF TlbTypeOK, BspPlaces, Frames
  <2>2. BspInv'
    BY <1>20 DEF DispatchSend, Go, TlbTypeOK, BspInv, InBegin
  <2>3. AckInv'
    BY <1>20 DEF DispatchSend, Go, TlbTypeOK, BspInv, InBegin, AckInv, Generations
  <2>4. FreshInv'
    BY <1>20 DEF DispatchSend, Go, TlbTypeOK, BspInv, InBegin, AckInv, FreshInv, AckMeansFresh, Fresh, Generations
  <2>5. HandlerInv'
    BY <1>20 DEF DispatchSend, Go, TlbTypeOK, BspInv, InBegin, AckInv, HandlerInv, HandlerOK, Past, Fresh, Generations
  <2>6. DiagnosticInv'
    BY <1>20 DEF DispatchSend, Go, TlbTypeOK, BspInv, AckInv, DiagnosticInv, InBegin, HandlerPlaces
  <2> QED BY <2>1, <2>2, <2>3, <2>4, <2>5, <2>6
<1>21. ASSUME DispatchFailed PROVE TlbInv'
  <2>1. TlbTypeOK'
    BY <1>0, <1>21 DEF DispatchFailed, Poisoned, Phase, Go, Return, TlbTypeOK, BspPlaces, States, Frames
  <2>2. BspInv'
    BY <1>21 DEF DispatchFailed, Poisoned, Phase, Go, Return, TlbTypeOK, BspInv, InBegin
  <2>3. AckInv'
    BY <1>21 DEF DispatchFailed, Poisoned, Phase, Go, Return, TlbTypeOK, BspInv, InBegin, AckInv, Generations
  <2>4. FreshInv'
    BY <1>21 DEF DispatchFailed, Poisoned, Phase, Go, Return, TlbTypeOK, BspInv, InBegin, AckInv, FreshInv, AckMeansFresh, Fresh, Generations
  <2>5. HandlerInv'
    BY <1>21 DEF DispatchFailed, Poisoned, Phase, Go, Return, TlbTypeOK, BspInv, InBegin, AckInv, HandlerInv, HandlerOK, Past, Fresh, Generations
  <2>6. DiagnosticInv'
    BY <1>21 DEF DispatchFailed, Poisoned, Phase, Go, Return, TlbTypeOK, BspInv, AckInv, DiagnosticInv, InBegin, HandlerPlaces
  <2> QED BY <2>1, <2>2, <2>3, <2>4, <2>5, <2>6
<1>22. ASSUME DispatchDone PROVE TlbInv'
  <2>1. TlbTypeOK'
    BY <1>0, <1>22 DEF DispatchDone, Go, Return, TlbTypeOK, BspPlaces, States, Frames
  <2>2. BspInv'
    BY <1>22 DEF DispatchDone, Go, Return, TlbTypeOK, BspInv, InBegin
  <2>3. AckInv'
    BY <1>22 DEF DispatchDone, Go, Return, TlbTypeOK, BspInv, InBegin, AckInv, Generations
  <2>4. FreshInv'
    BY <1>22 DEF DispatchDone, Go, Return, TlbTypeOK, BspInv, InBegin, AckInv, FreshInv, AckMeansFresh, Fresh, Generations
  <2>5. HandlerInv'
    BY <1>22 DEF DispatchDone, Go, Return, TlbTypeOK, BspInv, InBegin, AckInv, HandlerInv, HandlerOK, Past, Fresh, Generations
  <2>6. DiagnosticInv'
    BY <1>22 DEF DispatchDone, Go, Return, TlbTypeOK, BspInv, AckInv, DiagnosticInv, InBegin, HandlerPlaces
  <2> QED BY <2>1, <2>2, <2>3, <2>4, <2>5, <2>6
<1>23. ASSUME NEW g \in Generations, FinishStart(g) PROVE TlbInv'
  <2>1. TlbTypeOK'
    BY <1>0, <1>23 DEF FinishStart, Phase, Poisoned, DescriptorValid, Go, Return, TlbTypeOK, BspPlaces, States, Frames
  <2>2. BspInv'
    BY <1>23 DEF FinishStart, Phase, Poisoned, DescriptorValid, Go, Return, TlbTypeOK, BspInv, InBegin, Generations
  <2>3. AckInv'
    BY <1>23 DEF FinishStart, Phase, Poisoned, DescriptorValid, Go, Return, TlbTypeOK, BspInv, InBegin, AckInv, Generations
  <2>4. FreshInv'
    BY <1>23 DEF FinishStart, Phase, Poisoned, DescriptorValid, Go, Return, TlbTypeOK, BspInv, InBegin, AckInv, FreshInv, AckMeansFresh, Fresh, Generations
  <2>5. HandlerInv'
    BY <1>23 DEF FinishStart, Phase, Poisoned, DescriptorValid, Go, Return, TlbTypeOK, BspInv, InBegin, AckInv, HandlerInv, HandlerOK, Past, Fresh, Generations
  <2>6. DiagnosticInv'
    BY <1>23 DEF FinishStart, Phase, Poisoned, DescriptorValid, Go, Return, TlbTypeOK, BspInv, AckInv, DiagnosticInv, InBegin, HandlerPlaces
  <2> QED BY <2>1, <2>2, <2>3, <2>4, <2>5, <2>6
<1>24. ASSUME FinishScan PROVE TlbInv'
  <2>0. \/ Return /\ at = "scanning"
        \/ ack[cpu] = gen /\ cpu = N - 1 /\ at = "scanning" /\ Go("closing", gen, 0, 0)
        \/ ack[cpu] = gen /\ cpu < N - 1 /\ at = "scanning" /\ Go("scanning", gen, cpu + 1, 0)
    <3>1. cpu \in Nat /\ cpu < N /\ at = "scanning"
      BY <1>24 DEF FinishScan, BspInv, TlbTypeOK
    <3>2. CASE ack[cpu] # gen
      BY <1>24, <3>1, <3>2 DEF FinishScan
    <3>3. CASE ack[cpu] = gen /\ cpu = N - 1
      BY <1>24, <3>1, <3>3 DEF FinishScan
    <3>4. CASE ack[cpu] = gen /\ cpu # N - 1
      <4>1. cpu < N - 1
        BY <3>1, <3>4
      <4> QED BY <1>24, <3>1, <3>4, <4>1 DEF FinishScan
    <3> QED BY <3>2, <3>3, <3>4
  <2>1. TlbTypeOK'
    <3>1. at' \in BspPlaces /\ gen' \in Generations /\ cpu' \in 0 .. N /\ index' \in Frames
      BY <1>0, <2>0 DEF TlbTypeOK, Go, Return, BspPlaces, Frames
    <3> QED BY <1>24, <3>1 DEF FinishScan, TlbTypeOK
  <2>2. BspInv'
    <3>1. phase[2] = "pending" /\ phase[1] = generation /\ gen = generation /\ generation > 0 /\ request = generation
          /\ \A c \in CPUs : c < cpu => ack[c] = generation
      BY <2>0 DEF BspInv, InBegin
    <3>2. UNCHANGED <<phase, generation, request, ack>>
      BY <1>24 DEF FinishScan
    <3>3. CASE Return
      BY <3>1, <3>2, <3>3 DEF Return, Go, BspInv
    <3>4. CASE ack[cpu] = gen /\ cpu = N - 1 /\ Go("closing", gen, 0, 0)
      <4>1. \A c \in CPUs : ack[c] = generation
        BY <3>1, <3>4
      <4> QED BY <3>1, <3>2, <3>4, <4>1 DEF Go, BspInv
    <3>5. CASE ack[cpu] = gen /\ cpu < N - 1 /\ Go("scanning", gen, cpu + 1, 0)
      <4>0. gen = generation /\ \A c \in CPUs : c < cpu => ack[c] = generation
        BY <3>1
      <4>1. ASSUME NEW c \in CPUs, c < cpu + 1 PROVE ack[c] = generation
        <5>1. c \in Int /\ cpu \in Int
          BY <2>0 DEF TlbTypeOK, CPUs
        <5>2. c < cpu \/ c = cpu
          BY <4>1, <5>1
        <5> QED BY <3>5, <4>0, <4>1, <5>2
      <4> QED BY <3>1, <3>2, <3>5, <4>1 DEF Go, BspInv, TlbTypeOK
    <3> QED BY <2>0, <3>3, <3>4, <3>5
  <2>3. AckInv'
    BY <1>24 DEF FinishScan, Go, Return, TlbTypeOK, BspInv, InBegin, AckInv, Generations
  <2>4. FreshInv'
    BY <1>24 DEF FinishScan, Go, Return, TlbTypeOK, BspInv, InBegin, AckInv, FreshInv, AckMeansFresh, Fresh, Generations
  <2>5. HandlerInv'
    BY <1>24 DEF FinishScan, Go, Return, TlbTypeOK, BspInv, InBegin, AckInv, HandlerInv, HandlerOK, Past, Fresh, Generations
  <2>6. DiagnosticInv'
    BY <1>24 DEF FinishScan, Go, Return, TlbTypeOK, BspInv, AckInv, DiagnosticInv, InBegin, HandlerPlaces
  <2> QED BY <2>1, <2>2, <2>3, <2>4, <2>5, <2>6
<1>25. ASSUME FinishClose PROVE TlbInv'
  <2>1. TlbTypeOK'
    BY <1>0, <1>25 DEF FinishClose, Phase, Go, TlbTypeOK, BspPlaces, States, Frames
  <2>2. BspInv'
    BY <1>25 DEF FinishClose, Phase, Go, TlbTypeOK, BspInv, InBegin
  <2>3. AckInv'
    BY <1>25 DEF FinishClose, Phase, Go, TlbTypeOK, BspInv, InBegin, AckInv, Generations
  <2>4. FreshInv'
    BY <1>25 DEF FinishClose, Phase, Go, TlbTypeOK, BspInv, InBegin, AckInv, FreshInv, AckMeansFresh, Fresh, Generations
  <2>5. HandlerInv'
    BY <1>25 DEF FinishClose, Phase, Go, TlbTypeOK, BspInv, InBegin, AckInv, HandlerInv, HandlerOK, Past, Fresh, Generations
  <2>6. DiagnosticInv'
    BY <1>25 DEF FinishClose, Phase, Go, TlbTypeOK, BspInv, AckInv, DiagnosticInv, InBegin, HandlerPlaces
  <2> QED BY <2>1, <2>2, <2>3, <2>4, <2>5, <2>6
<1>26. ASSUME FinishComplete PROVE TlbInv'
  <2>1. TlbTypeOK'
    BY <1>0, <1>26 DEF FinishComplete, Go, Return, TlbTypeOK, BspPlaces, States, Frames
  <2>2. BspInv'
    BY <1>26 DEF FinishComplete, Go, Return, TlbTypeOK, BspInv, InBegin
  <2>3. AckInv'
    BY <1>26 DEF FinishComplete, Go, Return, TlbTypeOK, BspInv, InBegin, AckInv, Generations
  <2>4. FreshInv'
    BY <1>26 DEF FinishComplete, Go, Return, TlbTypeOK, BspInv, InBegin, AckInv, FreshInv, AckMeansFresh, Fresh, Generations
  <2>5. HandlerInv'
    BY <1>26 DEF FinishComplete, Go, Return, TlbTypeOK, BspInv, InBegin, AckInv, HandlerInv, HandlerOK, Past, Fresh, Generations
  <2>6. DiagnosticInv'
    BY <1>26 DEF FinishComplete, Go, Return, TlbTypeOK, BspInv, AckInv, DiagnosticInv, InBegin, HandlerPlaces
  <2> QED BY <2>1, <2>2, <2>3, <2>4, <2>5, <2>6
<1>27. ASSUME NEW g \in Generations, Poison(g) PROVE TlbInv'
  <2>1. TlbTypeOK'
    BY <1>0, <1>27 DEF Poison, Poisoned, Phase, Go, Return, TlbTypeOK, BspPlaces, States, Frames
  <2>2. BspInv'
    BY <1>27 DEF Poison, Poisoned, Phase, Go, Return, TlbTypeOK, BspInv, InBegin
  <2>3. AckInv'
    BY <1>27 DEF Poison, Poisoned, Phase, Go, Return, TlbTypeOK, BspInv, InBegin, AckInv, Generations
  <2>4. FreshInv'
    BY <1>27 DEF Poison, Poisoned, Phase, Go, Return, TlbTypeOK, BspInv, InBegin, AckInv, FreshInv, AckMeansFresh, Fresh, Generations
  <2>5. HandlerInv'
    BY <1>27 DEF Poison, Poisoned, Phase, Go, Return, TlbTypeOK, BspInv, InBegin, AckInv, HandlerInv, HandlerOK, Past, Fresh, Generations
  <2>6. DiagnosticInv'
    BY <1>27 DEF Poison, Poisoned, Phase, Go, Return, TlbTypeOK, BspInv, AckInv, DiagnosticInv, InBegin, HandlerPlaces
  <2> QED BY <2>1, <2>2, <2>3, <2>4, <2>5, <2>6
<1>28. CASE UNCHANGED tlbVars
  BY <1>28 DEF tlbVars, TlbTypeOK, BspInv, AckInv, FreshInv, AckMeansFresh, Fresh, HandlerInv, HandlerOK, Past, DiagnosticInv
<1> QED
  BY <1>1, <1>2, <1>3, <1>4, <1>5, <1>6, <1>7, <1>8, <1>9, <1>10, <1>11, <1>12, <1>13, <1>14, <1>15, <1>16, <1>17, <1>18, <1>19, <1>20, <1>21, <1>22, <1>23, <1>24, <1>25, <1>26, <1>27, <1>28
     DEF TlbNext, Hardware, Handler, Begin, Dispatch, Finish

\* The state shz_cpu_tlb_prepare leaves.
LEMMA TlbInvInit == TlbInit => TlbInv
<1> SUFFICES ASSUME TlbInit PROVE TlbInv
  OBVIOUS
<1> USE TlbAssumption DEF CPUs, APs
<1>1. TlbTypeOK
  BY DEF TlbInit, TlbTypeOK, Generations, States, Frames, BspPlaces, HandlerPlaces
<1>2. BspInv /\ AckInv /\ FreshInv
  BY DEF TlbInit, BspInv, InBegin, AckInv, FreshInv, AckMeansFresh, Fresh
<1>3. HandlerInv /\ DiagnosticInv
  BY DEF TlbInit, HandlerInv, HandlerOK, Past, DiagnosticInv
<1> QED BY <1>1, <1>2, <1>3 DEF TlbInv

\* The shootdown's invariant, for every CPU count and generation bound.
THEOREM TlbInvariant == TlbSpec => []TlbInv
<1>1. TlbInv /\ [TlbNext]_tlbVars => TlbInv'
  BY TlbInvInductive
<1> QED BY <1>1, TlbInvInit, PTL DEF TlbSpec

\* shz_cpu_tlb_finish never reports completion, and the phase never returns to
\* IDLE, while some CPU can still translate the page to the retired frame.
THEOREM ShootdownIsComplete == TlbSpec => []NoStaleTranslation
<1>1. TlbInv => NoStaleTranslation
  <2> SUFFICES ASSUME TlbInv, phase[2] = "idle", NEW c \in CPUs PROVE Fresh(c)
    BY DEF NoStaleTranslation
  <2>1. ack[c] = request /\ at \notin {"leafed", "issued"}
    BY DEF TlbInv, AckInv, BspInv
  <2> QED BY <2>1 DEF TlbInv, FreshInv, AckMeansFresh
<1> QED BY <1>1, TlbInvariant, PTL

\* An acknowledgement of the published request implies a fresh translation.
THEOREM AcknowledgedIsFresh == TlbSpec => []AckMeansFresh
<1>1. TlbInv => AckMeansFresh
  BY DEF TlbInv, FreshInv
<1> QED BY <1>1, TlbInvariant, PTL

\* The phase word always names the generation it belongs to.
THEOREM PhaseIsExact == TlbSpec => []PhaseNamesGeneration
<1>1. TlbInv => PhaseNamesGeneration
  BY DEF TlbInv, TlbTypeOK, BspInv, InBegin, BspPlaces, PhaseNamesGeneration, Generations
<1> QED BY <1>1, TlbInvariant, PTL

\* The skip-invalidate and withhold-ack controls never complete a generation.
THEOREM FaultControlsFailClosed == TlbSpec => []FaultControlFailsClosed
<1>1. TlbInv => FaultControlFailsClosed
  BY DEF TlbInv, DiagnosticInv, FaultControlFailsClosed
<1> QED BY <1>1, TlbInvariant, PTL

\* After shz_cpu_tlb_poison took effect nothing is published or completed.
THEOREM PoisonLasts == TlbSpec => PoisonIsFinal
<1>1. ASSUME TlbInv, [TlbNext]_tlbVars
      PROVE  [phase[2] = "poisoned" => UNCHANGED <<phase, generation, completed, leaf>>]_tlbVars
  <2> SUFFICES ASSUME TlbNext, phase[2] = "poisoned"
               PROVE  UNCHANGED <<phase, generation, completed, leaf>>
    BY <1>1
  <2>1. at \notin {"claimed", "leafed", "issued", "requested", "invalidated",
                   "acked", "sending", "scanning", "closing", "closed"}
    BY <1>1 DEF TlbInv, BspInv
  <2>2. CASE \E c \in CPUs : Hardware(c) \/ Enroll(c)
    BY <2>2 DEF Hardware, Fill, Evict, Enroll, words
  <2>3. CASE \E c \in APs : Handler(c) \/ StrayIpi(c) \/ Fail(c)
    BY <2>3 DEF Handler, StrayIpi, Fail, IpiLoadPhase, IpiLoadAck, IpiDescriptor,
                IpiInvlpg, IpiAck, words
  <2>4. CASE Begin
    BY <2>1, <2>4 DEF Begin, BeginClaim, BeginUnchanged, BeginLeaf, BeginIssue,
                BeginRequest, BeginInvlpg, BeginAck, BeginPending, Phase
  <2>5. CASE Dispatch \/ Finish
    \* a poisoned phase is not PENDING, so neither call gets past its checks
    <3>1. \A g \in Generations : phase # Phase(g, "pending")
      BY DEF Phase
    <3> QED BY <2>1, <2>5, <3>1 DEF Dispatch, Finish, DispatchStart, DispatchSend,
                DispatchFailed, DispatchDone, FinishStart, FinishScan, FinishClose,
                FinishComplete
  <2>6. CASE \E g \in Generations : Poison(g)
    BY <2>6 DEF Poison, Poisoned, Phase
  <2> QED BY <2>2, <2>3, <2>4, <2>5, <2>6 DEF TlbNext
<1> QED BY <1>1, TlbInvariant, PTL DEF TlbSpec, PoisonIsFinal

=============================================================================
