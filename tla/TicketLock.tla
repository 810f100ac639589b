----------------------------- MODULE TicketLock -----------------------------
(***************************************************************************)
(* The ticket spin lock of kcommon/pma_sync.h, one step per atomic access. *)
(* Counters are unsigned words that wrap: Modulus is 2^32 in the source.   *)
(* `reservation' serialises the issue of tickets, not the critical section.*)
(* A process is a CPU: callers mask local interrupts around the lock.      *)
(***************************************************************************)
EXTENDS Integers, FiniteSets, Sequences

CONSTANTS Procs,        \* the contending CPUs
          Modulus,      \* the counters wrap at this value
          ForgeTokens,  \* may a release pass a number that was never issued?
          NoToken       \* p has no misused token

\* "Fewer than 2^32 outstanding tickets are required" (pma_sync.h:4).
ASSUME LockAssumption ==
  /\ IsFiniteSet(Procs)
  /\ Modulus \in Nat
  /\ Cardinality(Procs) < Modulus
  /\ ForgeTokens \in BOOLEAN
  /\ NoToken \notin Nat

VARIABLES next, owner, reservation,  \* pma_ticketlock_t
          pc,       \* where each process is in lock, trylock or unlock
          ticket,   \* its ticket (0 once released)
          snap,     \* trylock's copy of owner (0 outside trylock)
          bad       \* the number p's erroneous release passes, in its epoch

vars == <<next, owner, reservation, pc, ticket, snap, bad>>

Numbers == 0 .. (Modulus - 1)
Inc(n) == (n + 1) % Modulus

PcValues == {"idle", "issue", "issued", "spin", "held", "unlock",
             "tryOwner", "tryNext", "tryFail", "tryStore", "tryIssued",
             "again"}

\* The processes whose ticket is issued and not yet released.
Outstanding == {p \in Procs : pc[p] \in {"issued", "spin", "held", "unlock", "tryIssued"}}
InCritical  == {p \in Procs : pc[p] \in {"held", "unlock"}}

TypeOK ==
  /\ next \in Numbers
  /\ owner \in Numbers
  /\ reservation \in {0, 1}
  /\ pc \in [Procs -> PcValues]
  /\ ticket \in [Procs -> Numbers]
  /\ snap \in [Procs -> Numbers]
  /\ bad \in [Procs -> Numbers \cup {NoToken}]

Init ==
  /\ next = 0 /\ owner = 0 /\ reservation = 0
  /\ pc = [p \in Procs |-> "idle"]
  /\ ticket = [p \in Procs |-> 0]
  /\ snap = [p \in Procs |-> 0]
  /\ bad = [p \in Procs |-> NoToken]

Goto(p, l) == pc' = [pc EXCEPT ![p] = l]

\* Issuing number n ends the epoch of the tokens the counter has come round
\* to: a retired one when next reaches it, a forged one when it is issued.
NewEpoch(n) ==
  LET over == IF ForgeTokens THEN n ELSE Inc(n)
  IN  [q \in Procs |-> IF bad[q] = over THEN NoToken ELSE bad[q]]

-----------------------------------------------------------------------------
\* pma_ticket_reserve_try: the compare-and-swap 0 -> 1. A failed attempt of
\* lock() spins and a failed trylock() returns 0: neither changes anything.
ReserveTryUngated(p) == reservation' = 1
ReserveTry(p) == reservation = 0 /\ reservation' = 1

LockReserve(p) ==
  /\ pc[p] = "idle"
  /\ ReserveTry(p)
  /\ Goto(p, "issue")
  /\ UNCHANGED <<next, owner, ticket, snap, bad>>

\* The fetch-and-add of next.
LockIssue(p) ==
  /\ pc[p] = "issue"
  /\ ticket' = [ticket EXCEPT ![p] = next]
  /\ next' = Inc(next)
  /\ bad' = NewEpoch(next)
  /\ Goto(p, "issued")
  /\ UNCHANGED <<owner, reservation, snap>>

\* pma_ticket_reserve_release, then the spin on owner.
LockReserveRelease(p) ==
  /\ pc[p] = "issued"
  /\ reservation' = 0
  /\ Goto(p, "spin")
  /\ UNCHANGED <<next, owner, ticket, snap, bad>>

LockEnterAtLeast(p) ==
  /\ pc[p] = "spin"
  /\ owner >= ticket[p]
  /\ Goto(p, "held")
  /\ UNCHANGED <<next, owner, reservation, ticket, snap, bad>>

\* The spinning load of owner reads p's ticket: lock() returns.
LockEnter(p) ==
  /\ pc[p] = "spin"
  /\ owner = ticket[p]
  /\ Goto(p, "held")
  /\ UNCHANGED <<next, owner, reservation, ticket, snap, bad>>

-----------------------------------------------------------------------------
TryReserve(p) ==
  /\ pc[p] = "idle"
  /\ ReserveTry(p)
  /\ Goto(p, "tryOwner")
  /\ UNCHANGED <<next, owner, ticket, snap, bad>>

TryLoadOwner(p) ==
  /\ pc[p] = "tryOwner"
  /\ snap' = [snap EXCEPT ![p] = owner]
  /\ Goto(p, "tryNext")
  /\ UNCHANGED <<next, owner, reservation, ticket, bad>>

\* The load of next decides: busy gives up, idle goes on to take the lock.
TryLoadNext(p) ==
  /\ pc[p] = "tryNext"
  /\ Goto(p, IF next # snap[p] THEN "tryFail" ELSE "tryStore")
  /\ UNCHANGED <<next, owner, reservation, ticket, snap, bad>>

TryFail(p) ==
  /\ pc[p] = "tryFail"
  /\ reservation' = 0
  /\ snap' = [snap EXCEPT ![p] = 0]
  /\ Goto(p, "idle")
  /\ UNCHANGED <<next, owner, ticket, bad>>

\* next is stored, not incremented: the snapshot must still be current.
TryStore(p) ==
  /\ pc[p] = "tryStore"
  /\ next' = Inc(snap[p])
  /\ ticket' = [ticket EXCEPT ![p] = snap[p]]
  /\ snap' = [snap EXCEPT ![p] = 0]
  /\ bad' = NewEpoch(snap[p])
  /\ Goto(p, "tryIssued")
  /\ UNCHANGED <<owner, reservation>>

TryReserveRelease(p) ==
  /\ pc[p] = "tryIssued"
  /\ reservation' = 0
  /\ Goto(p, "held")
  /\ UNCHANGED <<next, owner, ticket, snap, bad>>

-----------------------------------------------------------------------------
\* pma_ticket_unlock(n), first access: owner = next means nothing was issued.
UnlockCheckDropped(n) == TRUE
UnlockCheck(n) == next # n

\* Second access: the compare-and-swap of owner.
UnlockBlind(n) == owner' = Inc(n)
UnlockCas(n) == owner' = IF owner = n THEN Inc(n) ELSE owner

UnlockBegin(p) ==
  /\ pc[p] = "held"
  /\ Goto(p, IF UnlockCheck(ticket[p]) THEN "unlock" ELSE "idle")
  /\ UNCHANGED <<next, owner, reservation, ticket, snap, bad>>

\* The released ticket is retired; p may wrongly release it again later.
UnlockEnd(p) ==
  /\ pc[p] = "unlock"
  /\ UnlockCas(ticket[p])
  /\ ticket' = [ticket EXCEPT ![p] = 0]
  /\ bad' = [bad EXCEPT ![p] = IF next = ticket[p] THEN NoToken ELSE ticket[p]]
  /\ Goto(p, "idle")
  /\ UNCHANGED <<next, reservation, snap>>

\* An erroneous release: of p's retired ticket, of the number an idle lock
\* would issue next, or (ForgeTokens) of any number nobody holds.
BadUnlockBegin(p) ==
  /\ pc[p] = "idle"
  /\ \E n \in {bad[p], next} \cup (IF ForgeTokens THEN Numbers ELSE {}) :
       /\ n # NoToken
       /\ \A q \in Outstanding : ticket[q] # n
       /\ bad' = [bad EXCEPT ![p] = IF UnlockCheck(n) THEN n ELSE @]
       /\ Goto(p, IF UnlockCheck(n) THEN "again" ELSE "idle")
  /\ UNCHANGED <<next, owner, reservation, ticket, snap>>

BadUnlockEnd(p) ==
  /\ pc[p] = "again"
  /\ bad[p] # NoToken
  /\ UnlockCas(bad[p])
  /\ Goto(p, "idle")
  /\ UNCHANGED <<next, reservation, ticket, snap, bad>>

\* The counter came round to the number while the release was in flight: the
\* header excludes that call, and it is abandoned here.
BadUnlockOutlived(p) ==
  /\ pc[p] = "again"
  /\ bad[p] = NoToken
  /\ Goto(p, "idle")
  /\ UNCHANGED <<next, owner, reservation, ticket, snap, bad>>

-----------------------------------------------------------------------------
Lock(p) == LockReserve(p) \/ LockIssue(p) \/ LockReserveRelease(p) \/ LockEnter(p)
TryLock(p) == \/ TryReserve(p) \/ TryLoadOwner(p) \/ TryLoadNext(p)
              \/ TryFail(p) \/ TryStore(p) \/ TryReserveRelease(p)
Unlock(p) == UnlockBegin(p) \/ UnlockEnd(p)
BadUnlock(p) == BadUnlockBegin(p) \/ BadUnlockEnd(p) \/ BadUnlockOutlived(p)

Next == \E p \in Procs : Lock(p) \/ TryLock(p) \/ Unlock(p) \/ BadUnlock(p)

Spec == Init /\ [][Next]_vars

\* A CPU inside the lock code, or in the critical section (which may not
\* block), keeps executing; one that is not inside need not come back.
Progress(p) == \/ LockIssue(p) \/ LockReserveRelease(p) \/ LockEnter(p)
               \/ TryLoadOwner(p) \/ TryLoadNext(p) \/ TryFail(p)
               \/ TryStore(p) \/ TryReserveRelease(p) \/ Unlock(p)

FairSpec == Spec /\ \A p \in Procs : WF_vars(Progress(p))

-----------------------------------------------------------------------------
\* Position of a ticket behind the owner, across the wrap.
Behind(n) == (n - owner) % Modulus

\* At most one CPU is inside the critical section the lock protects, even
\* after the 32-bit counters wrap and with trylock racing lock.
MutualExclusion == \A p, q \in InCritical : p = q

\* The counters agree with the set of outstanding tickets: the tickets are the
\* distinct numbers owner .. next - 1 (modulo the wrap), so none is skipped
\* (which would strand the queue) and none is issued twice.
TicketsContiguous ==
  /\ \A p, q \in Outstanding : ticket[p] = ticket[q] => p = q
  /\ {Behind(ticket[p]) : p \in Outstanding} = 0 .. (Behind(next) - 1)

\* trylock takes the lock only when no ticket is outstanding: it neither joins
\* nor bypasses the queue (pma_sync.h:10).
TryTakesIdleLock ==
  [][\A p \in Procs : pc[p] = "tryStore" /\ pc'[p] = "tryIssued" => Outstanding = {}]_vars

\* A repeated, empty or wrong release fails: it never advances owner
\* (pma_sync.h:9).
BadReleaseFails ==
  [][\A p \in Procs : pc[p] = "again" /\ pc'[p] = "idle" => owner' = owner]_vars

\* Every CPU that was issued a ticket gets the lock.
IssuedEventuallyHolds ==
  \A p \in Procs : (pc[p] = "issued") ~> (pc[p] = "held")

-----------------------------------------------------------------------------
\* The refinement: the queue is the outstanding processes by ticket order.
Queue == [i \in 1 .. Cardinality(Outstanding) |->
            CHOOSE p \in Outstanding : Behind(ticket[p]) = i - 1]

Fifo == INSTANCE FifoLock WITH line <- Queue, holding <- InCritical

\* The ticket lock implements the FIFO lock that its header promises.
ImplementsFifoLock == Fifo!Spec
=============================================================================
