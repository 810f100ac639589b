----------------------------- MODULE KernelSync -----------------------------
(***************************************************************************)
(* Blocking on the BSP: thread_sleep_ms, ksem_t, kmutex_t, the tick's      *)
(* time-outs and the wake-up of threads that must die (kernel64/sched.c,   *)
(* ipc_core.c). Every section runs with interrupts off and is one step. A  *)
(* section never asks whether a thread is READY or RUNNING, so a thread    *)
(* that is not BLOCKED may take its next step at any time.                 *)
(***************************************************************************)
EXTENDS Integers, Sequences, FiniteSets, SequencesExt

CONSTANTS Threads,    \* the threads of the model
          Workloads,  \* what the threads may call: members of [Threads -> Programs]
          Durations,  \* the milliseconds a caller asks for
          TickUs,     \* TICK_US
          MaxCount,   \* bound: units a semaphore accumulates
          None

Calls == {"lock", "sleep", "sem", "request", "accept", "port"}
\* A thread of a process may be terminated, a kernel thread never is.
Programs == SUBSET (Calls \cup {"user"})

\* deadline_after_ms as ticks from now; it saturates only beyond 2^64 ticks.
DeadlineAfterMs(ms) ==
  LET ticks == (ms \div TickUs) * 1000 + ((ms % TickUs) * 1000 + TickUs - 1) \div TickUs
  IN  IF ticks = 0 THEN 1 ELSE ticks

ASSUME SyncAssumption ==
  /\ Workloads \subseteq [Threads -> Programs]
  /\ Durations \subseteq Nat /\ TickUs \in Nat \ {0} /\ MaxCount \in Nat
  /\ IsFiniteSet(Threads) /\ None \notin Threads

VARIABLES calls,     \* the workload of this run
          pc,        \* where each thread is: "out", or in the call it blocks in
          blocked,   \* threads in TS_BLOCKED
          wakeTick,  \* ticks until wake_tick, 0: no deadline
          waitSem,   \* threads with wait_sem set
          timedOut,  \* threads with wait_result = -1
          killed,    \* threads that must die
          sem,       \* a ksem_t
          mutex,     \* a kmutex_t; owner None: not locked
          units      \* history: initial units plus posts minus waits that succeeded

threads == <<pc, blocked, wakeTick, waitSem, timedOut>>
sync == <<sem, mutex, units>>
svars == <<calls, threads, killed, sync>>

Ticks == {DeadlineAfterMs(ms) : ms \in Durations}

SyncTypeOK ==
  /\ calls \in Workloads
  /\ blocked \subseteq Threads /\ waitSem \subseteq Threads
  /\ timedOut \subseteq Threads /\ killed \subseteq Threads
  /\ wakeTick \in [Threads -> Nat]
  /\ sem.count \in 0 .. MaxCount /\ sem.waiters \in Seq(Threads)
  /\ mutex.owner \in Threads \cup {None} /\ mutex.waiters \in Seq(Threads)
  /\ units \in Int

SyncInit ==
  /\ calls \in Workloads
  /\ pc = [t \in Threads |-> "out"]
  /\ blocked = {} /\ waitSem = {} /\ timedOut = {} /\ killed = {}
  /\ wakeTick = [t \in Threads |-> 0]
  /\ sem = [count |-> 0, waiters |-> <<>>]
  /\ mutex = [owner |-> None, waiters |-> <<>>]
  /\ units = 0

Runs(t) == t \notin blocked
MayCall(t, call) == pc[t] = "out" /\ Runs(t) /\ call \in calls[t]
Returns(t) == pc' = [pc EXCEPT ![t] = "out"]

\* schedule(0) with TS_BLOCKED, inside call c, with a deadline of n ticks.
Block(t, c, n) ==
  /\ pc' = [pc EXCEPT ![t] = c]
  /\ blocked' = blocked \cup {t}
  /\ wakeTick' = [wakeTick EXCEPT ![t] = n]

\* What is left of a waiter list when the threads of S leave it.
Remaining(s, S) ==
  LET rest[i \in 0 .. Len(s)] ==
        IF i = 0 THEN <<>> ELSE IF s[i] \in S THEN rest[i - 1] ELSE Append(rest[i - 1], s[i])
  IN  rest
Unlinked(s, S) == Remaining(s, S)[Len(s)]

\* thread_wake of each thread in S: only a BLOCKED one, whatever it waits for.
Wake(S) ==
  /\ blocked' = blocked \ S
  /\ wakeTick' = [t \in Threads |-> IF t \in S \cap blocked THEN 0 ELSE wakeTick[t]]

-----------------------------------------------------------------------------
Sleep(t, n) ==
  /\ MayCall(t, "sleep")
  /\ Block(t, "sleep", n)
  /\ UNCHANGED <<calls, waitSem, timedOut, killed, sync>>

SleepReturns(t) ==
  /\ pc[t] = "sleep" /\ Runs(t)
  /\ Returns(t)
  /\ UNCHANGED <<calls, blocked, wakeTick, waitSem, timedOut, killed, sync>>

\* sem_wait_common: n = 0 waits without a deadline, which no caller does with a
\* kernel mutex held.
SemWait(t, n) ==
  /\ MayCall(t, "sem") /\ (n > 0 \/ mutex.owner # t)
  /\ IF sem.count > 0
       THEN /\ sem' = [sem EXCEPT !.count = @ - 1]
            /\ units' = units - 1
            /\ UNCHANGED threads
       ELSE /\ sem' = [sem EXCEPT !.waiters = Append(@, t)]
            /\ waitSem' = waitSem \cup {t}
            /\ timedOut' = timedOut \ {t}
            /\ Block(t, "sem", n)
            /\ UNCHANGED units
  /\ UNCHANGED <<calls, killed, mutex>>

\* ... and its end after schedule(): wait_result says whether a unit came.
SemWaitReturns(t) ==
  /\ pc[t] = "sem" /\ Runs(t)
  /\ units' = IF t \in timedOut THEN units ELSE units - 1
  /\ timedOut' = timedOut \ {t}
  /\ Returns(t)
  /\ UNCHANGED <<calls, blocked, wakeTick, waitSem, killed, sem, mutex>>

SemPostKeepsDeadline ==
  /\ \E t \in Threads : "sem" \in calls[t]
  /\ units' = units + 1
  /\ IF sem.waiters # <<>>
       THEN /\ blocked' = blocked \ {Head(sem.waiters)}
            /\ waitSem' = waitSem \ {Head(sem.waiters)}
            /\ sem' = [sem EXCEPT !.waiters = Tail(@)]
            /\ UNCHANGED wakeTick
       ELSE /\ sem.count < MaxCount
            /\ sem' = [sem EXCEPT !.count = @ + 1]
            /\ UNCHANGED <<blocked, wakeTick, waitSem>>
  /\ UNCHANGED <<calls, pc, timedOut, killed, mutex>>

\* sem_post, by a thread or an interrupt: the first waiter gets the unit.
SemPost ==
  /\ \E t \in Threads : "sem" \in calls[t]
  /\ units' = units + 1
  /\ IF sem.waiters # <<>>
       THEN /\ Wake({Head(sem.waiters)})
            /\ waitSem' = waitSem \ {Head(sem.waiters)}
            /\ sem' = [sem EXCEPT !.waiters = Tail(@)]
       ELSE /\ sem.count < MaxCount
            /\ sem' = [sem EXCEPT !.count = @ + 1]
            /\ UNCHANGED <<blocked, wakeTick, waitSem>>
  /\ UNCHANGED <<calls, pc, timedOut, killed, mutex>>

MutexLockPushes(t) ==
  /\ MayCall(t, "lock") \/ (pc[t] = "lock" /\ Runs(t))
  /\ mutex.owner # t
  /\ IF mutex.owner = None
       THEN /\ mutex' = [mutex EXCEPT !.owner = t]
            /\ Returns(t)
            /\ UNCHANGED <<blocked, wakeTick>>
       ELSE /\ mutex' = [mutex EXCEPT !.waiters = <<t>> \o @]
            /\ Block(t, "lock", wakeTick[t])
  /\ UNCHANGED <<calls, waitSem, timedOut, killed, sem, units>>

\* One round of mutex_lock's loop: the call, and every retry after a wake-up.
\* It leaves wake_tick as it finds it.
MutexLock(t) ==
  /\ MayCall(t, "lock") \/ (pc[t] = "lock" /\ Runs(t))
  /\ mutex.owner # t
  /\ IF mutex.owner = None
       THEN /\ mutex' = [mutex EXCEPT !.owner = t]
            /\ Returns(t)
            /\ UNCHANGED <<blocked, wakeTick>>
       ELSE /\ mutex' = [mutex EXCEPT !.waiters = Append(@, t)]
            /\ Block(t, "lock", wakeTick[t])
  /\ UNCHANGED <<calls, waitSem, timedOut, killed, sem, units>>

\* mutex_unlock frees the mutex and wakes one waiter, which must compete for it.
MutexUnlock(t) ==
  /\ pc[t] = "out" /\ Runs(t)
  /\ mutex.owner = t
  /\ mutex' = [owner |-> None, waiters |-> IF mutex.waiters = <<>> THEN <<>> ELSE Tail(mutex.waiters)]
  /\ blocked' = IF mutex.waiters = <<>> THEN blocked ELSE blocked \ {Head(mutex.waiters)}
  /\ UNCHANGED <<calls, pc, wakeTick, waitSem, timedOut, killed, sem, units>>

-----------------------------------------------------------------------------
\* The threads ipc_wake_to_die wakes: parked in a wait that sets `waiting', or
\* asleep. W names the calls that set it.
Interruptible(W) == {t \in blocked : pc[t] \in W \/ (t \notin waitSem /\ wakeTick[t] > 0)}

\* NtTerminateThread marks its victim and wakes it when it can.
Kill(t, W) ==
  /\ "user" \in calls[t] /\ t \notin killed
  /\ killed' = killed \cup {t}
  /\ Wake({t} \cap Interruptible(W))
  /\ UNCHANGED <<calls, pc, waitSem, timedOut, sync>>

\* sched_tick: expired deadlines end, a semaphore waiter leaves its list; then
\* ipc_kill_sweep_tick wakes the victims that blocked after their termination.
Tick(W) ==
  LET expired == {t \in blocked : wakeTick[t] = 1}
      swept == (killed \cap Interruptible(W)) \ expired
  IN  /\ blocked' = blocked \ (expired \cup swept)
      /\ wakeTick' = [t \in Threads |-> IF t \in expired \cup swept THEN 0
                                        ELSE IF wakeTick[t] > 1 THEN wakeTick[t] - 1 ELSE wakeTick[t]]
      /\ sem' = [sem EXCEPT !.waiters = Unlinked(@, expired)]
      /\ timedOut' = timedOut \cup (expired \cap waitSem)
      /\ waitSem' = waitSem \ expired
      /\ UNCHANGED <<calls, pc, killed, mutex, units>>

-----------------------------------------------------------------------------
\* A post and a time-out never both answer one wait, and no unit is lost: what
\* sem_post gave and no waiter has taken is in the count or on its way to a
\* waiter that was woken without a time-out, and no waiter sleeps beside a unit.
UnitsBalanced ==
  /\ units = sem.count + Cardinality({t \in Threads : pc[t] = "sem" /\ Runs(t) /\ t \notin timedOut})
  /\ sem.count > 0 => sem.waiters = <<>>

\* The lists hold exactly the threads that block in them, once each (the link
\* is the one the ready queues use), and although mutex_unlock hands nothing
\* over, a free mutex never has sleeping waiters and nobody about to retry.
ListsExact ==
  /\ ToSet(sem.waiters) = {t \in blocked : pc[t] = "sem"} /\ IsInjective(sem.waiters)
  /\ ToSet(mutex.waiters) = {t \in blocked : pc[t] = "lock"} /\ IsInjective(mutex.waiters)
  /\ (mutex.owner = None /\ mutex.waiters # <<>>) => \E t \in Threads : pc[t] = "lock" /\ Runs(t)

\* No unit, no sleeper and no link is lost between post, time-out and unlock.
NoStrandedWaiter == UnitsBalanced /\ ListsExact
=============================================================================
