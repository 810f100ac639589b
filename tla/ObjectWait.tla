----------------------------- MODULE ObjectWait -----------------------------
(***************************************************************************)
(* Waiting on kernel objects: kernel64/objects.c with the alertable waits, *)
(* APCs and thread termination of ipc_core.c. Every operation runs with    *)
(* interrupts off on the one CPU that executes it, so it is one step; a    *)
(* thread that blocks resumes in a step of its own, and everything else    *)
(* may happen in between. Objects are created and closed through handles.  *)
(***************************************************************************)
EXTENDS Integers, Sequences, FiniteSets, SequencesExt

CONSTANTS Threads, Objects,
          Kind,          \* "notify" or "sync" event, "sem", "mutant", "thread"
          MaxCount,      \* sem.max
          MaxRecursion,  \* a mutant is not taken more often than this
          Settings,      \* the programs considered; Init picks one
          None

\* An ob_wait_multi.
Waits == [objs : Seq(Objects), all : BOOLEAN, result : Int]

ASSUME ObjectWaitAssumption ==
  /\ Kind \in [Objects -> {"notify", "sync", "sem", "mutant", "thread"}]
  /\ MaxCount \in Nat \ {0}
  /\ MaxRecursion \in [Objects -> Nat \ {0}]
  /\ IsFiniteSet(Threads) /\ None \notin Threads \cup Waits

\* threads, objects: what exists. subject: the thread of a "thread" object.
\* requests: the waits threads make. maxApc: at most so many APCs are queued.
ASSUME SettingsAssumption ==
  \A s \in Settings :
    /\ s.threads \subseteq Threads /\ s.objects \subseteq Objects
    /\ s.subject \in s.threads \cup {None} /\ s.maxApc \in Nat
    /\ s.requests \subseteq [objs : Seq(s.objects), all : BOOLEAN, timed : BOOLEAN, alertable : BOOLEAN]

VARIABLES setting,    \* the setting Init picked
          ob,         \* the objects: signaled, count, owner, recursion, refs
          waiters,    \* per object: its wait blocks <<thread, index>>, oldest first
          owned,      \* owned_mutants, most recently taken first
          open,       \* objects with a handle (one is enough)
          desc,       \* t->wait_multi: objs, all, result; or None
          at,         \* where each thread is
          timed,      \* threads with wake_tick # 0
          alertable,  \* threads with ipc->alertable
          apc,        \* APCs queued to each thread
          killed,     \* threads that must die
          sweep,      \* g_kill_sweep
          ledger      \* what callers were told: see LedgerBalanced

objects == <<ob, waiters, owned>>
threads == <<desc, at, timed, alertable>>
vars == <<setting, objects, open, threads, apc, killed, sweep, ledger>>

Mutants == {o \in Objects : Kind[o] = "mutant"}
Sems == {o \in Objects : Kind[o] = "sem"}
Pending == -1
ObjsOf(t) == IF desc[t] = None THEN <<>> ELSE desc[t].objs
Named(objs, o) == {i \in DOMAIN objs : objs[i] = o}
MultiplicityIn(objs, o) == Cardinality(Named(objs, o))

\* What is left of a list when the members in S are unlinked.
Remaining(list, S) ==
  LET rest[i \in 0 .. Len(list)] ==
        IF i = 0 THEN <<>> ELSE IF list[i] \in S THEN rest[i - 1] ELSE Append(rest[i - 1], list[i])
  IN  rest
Without(list, S) == Remaining(list, S)[Len(list)]

TypeOK ==
  /\ setting \in Settings
  /\ ob \in [Objects -> [signaled : BOOLEAN, count : 0 .. MaxCount, owner : Threads \cup {None},
                         recursion : Nat, refs : Nat]]
  /\ \A o \in Objects : ob[o].recursion <= MaxRecursion[o]
  /\ waiters \in [Objects -> Seq(Threads \X Nat)]
  /\ owned \in Seq(Mutants)
  /\ open \subseteq Objects
  /\ \A t \in Threads : desc[t] # None =>
       /\ desc[t].result \in {Pending} \cup DOMAIN desc[t].objs
       /\ desc[t].all \in BOOLEAN
  /\ at \in [Threads -> {"user", "blocked", "woken", "leave", "dead"}]
  /\ timed \subseteq Threads /\ alertable \subseteq Threads /\ killed \subseteq Threads
  /\ apc \in [Threads -> 0 .. setting.maxApc]
  /\ sweep \in BOOLEAN
  /\ ledger \in [Objects -> Int]

\* A new object. `signaled' is kept for events and threads only: nobody reads
\* a semaphore's or a mutant's. Nor is it told which grants were `abandoned'.
New == [signaled |-> FALSE, count |-> 0, owner |-> None, recursion |-> 0, refs |-> 1]

Init ==
  /\ setting \in Settings
  /\ ob = [o \in Objects |-> [New EXCEPT !.refs = IF o \in setting.objects THEN 1 ELSE 0]]
  /\ waiters = [o \in Objects |-> <<>>]
  /\ owned = <<>>
  /\ open = setting.objects
  /\ desc = [t \in Threads |-> None]
  /\ at = [t \in Threads |-> IF t \in setting.threads THEN "user" ELSE "dead"]
  /\ timed = {} /\ alertable = {} /\ killed = {}
  /\ apc = [t \in Threads |-> 0]
  /\ sweep = FALSE
  /\ ledger = [o \in Objects |-> 0]

-----------------------------------------------------------------------------
\* The part of the state ob_release_check works on; `stop' ends its loop.
Now == [ob |-> ob, owned |-> owned, desc |-> desc, stop |-> FALSE]

\* obj_signaled for thread t.
Signaled(s, o, t) ==
  CASE Kind[o] = "sem" -> s.ob[o].count > 0
    [] Kind[o] = "mutant" -> s.ob[o].owner \in {None, t}
    [] OTHER -> s.ob[o].signaled

\* May a wait on objs end now?
Satisfiable(s, objs, all, t) ==
  IF all THEN \A i \in DOMAIN objs : Signaled(s, objs[i], t)
  ELSE \E i \in DOMAIN objs : Signaled(s, objs[i], t)

\* mutant_take: the first acquisition links the mutant and references it.
MutantTakeNoRef(s, o, t) ==
  LET m == s.ob[o]
  IN  [s EXCEPT !.ob[o] = [m EXCEPT !.owner = t, !.recursion = m.recursion + 1],
                !.owned = IF m.owner = None THEN <<o>> \o s.owned ELSE s.owned]

MutantTake(s, o, t) ==
  LET m == s.ob[o]
      free == m.owner = None
  IN  [s EXCEPT !.ob[o] = [m EXCEPT !.owner = t, !.recursion = m.recursion + 1,
                                    !.refs = IF free THEN m.refs + 1 ELSE m.refs],
                !.owned = IF free THEN <<o>> \o s.owned ELSE s.owned]

\* obj_acquire: the side effects of a successful wait.
Acquire(s, o, t) ==
  CASE Kind[o] = "sync" -> [s EXCEPT !.ob[o].signaled = FALSE]
    [] Kind[o] = "sem" -> [s EXCEPT !.ob[o].count = @ - 1]
    [] Kind[o] = "mutant" -> MutantTake(s, o, t)
    [] OTHER -> s

Acquiring(s, objs, t) ==
  LET after[k \in 0 .. Len(objs)] == IF k = 0 THEN s ELSE Acquire(after[k - 1], objs[k], t)
  IN  after
AcquireAll(s, objs, t) == Acquiring(s, objs, t)[Len(objs)]

\* What a satisfied wait takes: everything, or the first signaled object.
FirstSignaled(s, objs, t) ==
  CHOOSE i \in DOMAIN objs : Signaled(s, objs[i], t) /\ \A j \in 1 .. i - 1 : ~Signaled(s, objs[j], t)
Taken(s, objs, all, t) == IF all THEN objs ELSE <<objs[FirstSignaled(s, objs, t)]>>

\* One turn of ob_release_check's loop over the wait blocks of o.
Offer(s, o, t, index) ==
  LET d == s.desc[t]
      take == IF d.all THEN d.objs ELSE <<o>>
      after == AcquireAll(s, take, t)
      grant == [after EXCEPT !.desc[t].result = IF d.all THEN 1 ELSE index]
      ready == IF d.all THEN Satisfiable(s, d.objs, TRUE, t) ELSE Signaled(s, o, t)
  IN  IF s.stop \/ d = None \/ d.result # Pending \/ ~ready THEN s
      ELSE [grant EXCEPT !.stop = ~d.all /\ ~Signaled(after, o, t) /\ Kind[o] # "thread"]

ReleaseCheckFirst(s, o) ==
  IF waiters[o] = <<>> THEN s
  ELSE [Offer(s, o, waiters[o][1][1], waiters[o][1][2]) EXCEPT !.stop = FALSE]

\* ob_release_check. A wait that was granted earlier in this step is skipped.
Offering(s, o) ==
  LET after[k \in 0 .. Len(waiters[o])] ==
        IF k = 0 THEN s ELSE Offer(after[k - 1], o, waiters[o][k][1], waiters[o][k][2])
  IN  after
ReleaseCheck(s, o) == [Offering(s, o)[Len(waiters[o])] EXCEPT !.stop = FALSE]

\* unlink_waits of every granted wait, and thread_wake.
GrantedIn(s) == {t \in Threads : desc[t] # None /\ s.desc[t].result # desc[t].result}
StillPending(s) == [o \in Objects |-> Without(waiters[o], GrantedIn(s) \X Nat)]
Wake(S) == /\ at' = [t \in Threads |-> IF t \in S /\ at[t] = "blocked" THEN "woken" ELSE at[t]]
           /\ timed' = timed \ {t \in S : at[t] = "blocked"}

\* The end of every step that signals: publish the working state.
Publish(s) ==
  /\ ob' = s.ob /\ owned' = s.owned /\ desc' = s.desc
  /\ waiters' = StillPending(s)
  /\ Wake(GrantedIn(s))
  /\ UNCHANGED alertable

\* ob_deref.
Deref(s, o) == [s EXCEPT !.ob[o].refs = @ - 1]

-----------------------------------------------------------------------------
\* The caller is told that it holds `taken' (a mutant once more, a unit less).
Told(taken) == [o \in Objects |-> ledger[o] +
                 (CASE Kind[o] = "mutant" -> MultiplicityIn(taken, o)
                    [] Kind[o] = "sem" -> -MultiplicityIn(taken, o)
                    [] OTHER -> 0)]

\* The bound on recursive acquisition (2^31 in the code).
MayTake(t, r) == \A o \in ToSet(r.objs) : ob[o].owner = t => ob[o].recursion < MaxRecursion[o]

\* apc_deliver redirects the thread to its oldest APC, if it is to deliver one.
AfterDelivery(t, deliver) == [apc EXCEPT ![t] = IF deliver THEN @ - 1 ELSE @]

\* NtWaitFor...Object(s): the fast path of ob_wait, or an APC that is already
\* queued ends an alertable wait (or delay: no objects) at once.
WaitFast(t, r) ==
  LET s == Now
      deliver == r.alertable /\ apc[t] > 0
      taken == Taken(s, r.objs, r.all, t)
      after == AcquireAll(s, taken, t)
  IN  /\ at[t] = "user" /\ ToSet(r.objs) \subseteq open
      /\ deliver \/ Satisfiable(s, r.objs, r.all, t)
      /\ MayTake(t, r)
      /\ at' = [at EXCEPT ![t] = "leave"]
      /\ apc' = AfterDelivery(t, deliver)
      /\ IF deliver THEN UNCHANGED <<ob, owned, ledger>>
         ELSE ob' = after.ob /\ owned' = after.owned /\ ledger' = Told(taken)
      /\ UNCHANGED <<waiters, open, desc, timed, alertable, killed, sweep>>

\* ob_wait appends at the tail of the object's list.
Linked(o, blocks) == waiters[o] \o blocks

\* The slow path: a wait block at the tail of every object's list, then block.
\* The caller's reference on each object lasts until the wait returns.
WaitBlock(t, r) ==
  /\ at[t] = "user" /\ r.objs # <<>> /\ ToSet(r.objs) \subseteq open
  /\ r.alertable => apc[t] = 0
  /\ ~Satisfiable(Now, r.objs, r.all, t)
  /\ MayTake(t, r)
  /\ desc' = [desc EXCEPT ![t] = [objs |-> r.objs, all |-> r.all, result |-> Pending]]
  /\ waiters' = [o \in Objects |->
                   Linked(o, Without([i \in DOMAIN r.objs |-> <<t, i>>],
                                     {t} \X (DOMAIN r.objs \ Named(r.objs, o))))]
  /\ ob' = [o \in Objects |-> [ob[o] EXCEPT !.refs = @ + MultiplicityIn(r.objs, o)]]
  /\ at' = [at EXCEPT ![t] = "blocked"]
  /\ timed' = IF r.timed THEN timed \cup {t} ELSE timed
  /\ alertable' = IF r.alertable THEN alertable \cup {t} ELSE alertable
  /\ UNCHANGED <<owned, open, apc, killed, sweep, ledger>>

\* NtDelayExecution: no objects; an alertable one may have no deadline.
Delay(t, r) ==
  /\ at[t] = "user" /\ r.objs = <<>> /\ (r.timed \/ r.alertable)
  /\ r.alertable => apc[t] = 0
  /\ at' = [at EXCEPT ![t] = "blocked"]
  /\ timed' = IF r.timed THEN timed \cup {t} ELSE timed
  /\ alertable' = IF r.alertable THEN alertable \cup {t} ELSE alertable
  /\ UNCHANGED <<objects, open, desc, apc, killed, sweep, ledger>>

GrantedPositive(t) == desc[t] # None /\ desc[t].result > 1

\* ob_wait after the block: d->result, not the cause of the wake-up, decides.
Granted(t) == desc[t] # None /\ desc[t].result # Pending

BlocksKept(t) == waiters

\* unlink_waits, for a wait that is withdrawn.
WithoutBlocks(t) == [o \in Objects |-> Without(waiters[o], {t} \X Nat)]

\* After the block: a grant that came before this instant is honoured, however
\* the thread was woken; otherwise the wait is withdrawn, and an alertable one
\* delivers an APC. The references are dropped on the way out.
Resume(t) ==
  LET d == desc[t]
      taken == IF ~Granted(t) THEN <<>> ELSE IF d.all THEN d.objs ELSE <<d.objs[d.result]>>
      deliver == ~Granted(t) /\ t \in alertable /\ apc[t] > 0
  IN  /\ at[t] = "woken"
      /\ waiters' = WithoutBlocks(t)
      /\ ob' = [o \in Objects |-> [ob[o] EXCEPT !.refs = @ - MultiplicityIn(ObjsOf(t), o)]]
      /\ desc' = [desc EXCEPT ![t] = None]
      /\ at' = [at EXCEPT ![t] = "leave"]
      /\ timed' = timed \ {t} /\ alertable' = alertable \ {t}
      /\ apc' = AfterDelivery(t, deliver)
      /\ ledger' = Told(taken)
      /\ UNCHANGED <<owned, open, killed, sweep>>

\* sched_tick: the deadline of a blocked thread has passed.
Expire(t) ==
  /\ at[t] = "blocked" /\ t \in timed
  /\ Wake({t})
  /\ UNCHANGED <<objects, open, desc, alertable, apc, killed, sweep, ledger>>

-----------------------------------------------------------------------------
\* NtSetEvent (also timers and I/O completion, from interrupts), NtResetEvent.
SetEvent(o) ==
  /\ o \in open /\ Kind[o] \in {"notify", "sync"}
  /\ Publish(ReleaseCheck([Now EXCEPT !.ob[o].signaled = TRUE], o))
  /\ UNCHANGED <<open, apc, killed, sweep, ledger>>

ResetEvent(o) ==
  /\ o \in open /\ Kind[o] \in {"notify", "sync"}
  /\ ob' = [ob EXCEPT ![o].signaled = FALSE]
  /\ UNCHANGED <<waiters, owned, open, threads, apc, killed, sweep, ledger>>

\* The overflow-free limit check of NtReleaseSemaphore.
SemRoom(o, n) == n <= MaxCount - ob[o].count

\* Up to n passes over the waiters, while there is a unit left.
Passes(s, o, n) ==
  LET after[k \in 0 .. n] ==
        IF k = 0 THEN s
        ELSE IF after[k - 1].ob[o].count > 0 THEN ReleaseCheck(after[k - 1], o) ELSE after[k - 1]
  IN  after

\* NtReleaseSemaphore: n units, then the passes.
ReleaseSemaphore(o, n) ==
  /\ o \in open /\ Kind[o] = "sem"
  /\ SemRoom(o, n)
  /\ Publish(Passes([Now EXCEPT !.ob[o].count = @ + n], o, n)[n])
  /\ ledger' = [ledger EXCEPT ![o] = @ + n]
  /\ UNCHANGED <<open, apc, killed, sweep>>

Unlinked(s, o) == [s EXCEPT !.owned = Without(@, {o})]

\* A mutant without owner, handed to its waiters; the old owner's reference
\* goes after that.
HandOff(s, o) ==
  LET freed == [Unlinked(s, o) EXCEPT !.ob[o] = [s.ob[o] EXCEPT !.recursion = 0, !.owner = None]]
  IN  Deref(ReleaseCheck(freed, o), o)

\* ob_mutant_release.
MutantRelease(t, o) ==
  LET final == ob[o].recursion = 1
      s == IF final THEN HandOff(Now, o) ELSE [Now EXCEPT !.ob[o].recursion = @ - 1]
  IN  /\ at[t] = "user" /\ o \in open /\ Kind[o] = "mutant"
      /\ ob[o].owner = t
      /\ Publish(s)
      /\ ledger' = [ledger EXCEPT ![o] = @ - 1]
      /\ UNCHANGED <<open, apc, killed, sweep>>

\* handle_close; the object is freed with its last reference.
CloseHandle(o) ==
  /\ o \in open /\ Kind[o] # "thread"
  /\ open' = open \ {o}
  /\ ob' = Deref(Now, o).ob
  /\ UNCHANGED <<waiters, owned, threads, apc, killed, sweep, ledger>>

\* A fresh object in a freed place, with the handle its creator gets.
Created(t, o, s) ==
  /\ at[t] = "user" /\ o \in setting.objects /\ ob[o].refs = 0
  /\ ob' = s.ob /\ owned' = s.owned
  /\ open' = open \cup {o}
  /\ ledger' = [ledger EXCEPT ![o] = s.ob[o].count + s.ob[o].recursion]
  /\ UNCHANGED <<waiters, threads, apc, killed, sweep>>

CreateEvent(t, o) ==
  /\ Kind[o] \in {"notify", "sync"}
  /\ \E initial \in BOOLEAN : Created(t, o, [Now EXCEPT !.ob[o] = [New EXCEPT !.signaled = initial]])

CreateSemaphore(t, o) ==
  /\ Kind[o] = "sem"
  /\ \E initial \in 0 .. MaxCount : Created(t, o, [Now EXCEPT !.ob[o] = [New EXCEPT !.count = initial]])

\* NtCreateMutant, perhaps with the creator as its initial owner.
CreateMutant(t, o) ==
  LET fresh == [Now EXCEPT !.ob[o] = New]
  IN  /\ Kind[o] = "mutant"
      /\ Created(t, o, fresh) \/ Created(t, o, MutantTake(fresh, o, t))

-----------------------------------------------------------------------------
\* Whom apc_queue wakes.
Alerted(t) == IF t \in alertable THEN {t} ELSE {}

\* NtQueueApcThread, apc_queue.
QueueApc(t) ==
  /\ at[t] # "dead" /\ apc[t] < setting.maxApc
  /\ apc' = [apc EXCEPT ![t] = @ + 1]
  /\ Wake(Alerted(t))
  /\ UNCHANGED <<objects, open, desc, alertable, killed, sweep, ledger>>

\* ipc_wake_to_die: only interruptible waits are ended.
Interruptible(t) == desc[t] # None \/ t \in alertable \/ t \in timed

\* NtTerminateThread of another thread.
Terminate(t) ==
  /\ at[t] # "dead" /\ t \notin killed
  /\ killed' = killed \cup {t}
  /\ sweep' = TRUE
  /\ Wake(IF Interruptible(t) THEN {t} ELSE {})
  /\ UNCHANGED <<objects, open, desc, alertable, apc, ledger>>

Victims == {t \in killed : at[t] # "dead"}

KillSweepOnce ==
  /\ sweep
  /\ Wake({t \in Victims : Interruptible(t)})
  /\ sweep' = FALSE
  /\ UNCHANGED <<objects, open, desc, alertable, apc, killed, ledger>>

\* ipc_kill_sweep_tick: victims that blocked after their wake-up.
KillSweep ==
  /\ sweep
  /\ Wake({t \in Victims : Interruptible(t)})
  /\ sweep' = (Victims # {})
  /\ UNCHANGED <<objects, open, desc, alertable, apc, killed, ledger>>

\* thread_object_signal, the mutants part: abandon what t owns, one at a time,
\* each handed to its waiters before the next is looked for.
OwnedBy(s, t) == {o \in Mutants : s.ob[o].owner = t}
NextOwned(s, t) ==
  s.owned[CHOOSE i \in DOMAIN s.owned : s.ob[s.owned[i]].owner = t
                                         /\ \A j \in 1 .. i - 1 : s.ob[s.owned[j]].owner # t]
Rounds(s, t) ==
  LET after[k \in 0 .. Cardinality(OwnedBy(s, t))] ==
        IF k = 0 THEN s ELSE HandOff(after[k - 1], NextOwned(after[k - 1], t))
  IN  after
Abandon(s, t) == Rounds(s, t)[Cardinality(OwnedBy(s, t))]

SignalThread(s, t) ==
  LET mine == {o \in open : Kind[o] = "thread" /\ setting.subject = t}
  IN  IF mine = {} THEN s
      ELSE LET o == CHOOSE x \in mine : TRUE IN ReleaseCheck([s EXCEPT !.ob[o].signaled = TRUE], o)

\* check_kill at the end of a system call or in a timer interrupt out of user
\* mode, or the thread's own exit: ipc_thread_exit and thread_exit.
Exit(t) ==
  LET s == SignalThread(Abandon(Now, t), t)
  IN  /\ ob' = s.ob /\ owned' = s.owned /\ desc' = s.desc
      /\ waiters' = StillPending(s)
      /\ at' = [u \in Threads |-> IF u = t THEN "dead"
                                  ELSE IF u \in GrantedIn(s) /\ at[u] = "blocked" THEN "woken" ELSE at[u]]
      /\ timed' = timed \ {u \in GrantedIn(s) : at[u] = "blocked"}
      /\ apc' = [apc EXCEPT ![t] = 0]
      /\ ledger' = [o \in Objects |-> IF ob[o].owner = t THEN 0 ELSE ledger[o]]
      /\ UNCHANGED <<open, alertable, killed, sweep>>

ExitThread(t) == at[t] = "user" /\ t \notin killed /\ Exit(t)
CheckKill(t) == at[t] \in {"user", "leave"} /\ t \in killed /\ Exit(t)

Leave(t) ==
  /\ at[t] = "leave" /\ t \notin killed
  /\ at' = [at EXCEPT ![t] = "user"]
  /\ UNCHANGED <<objects, open, desc, timed, alertable, apc, killed, sweep, ledger>>

-----------------------------------------------------------------------------
Step ==
  \/ \E t \in Threads :
       \/ \E r \in setting.requests : WaitFast(t, r) \/ WaitBlock(t, r) \/ Delay(t, r)
       \/ Resume(t) \/ Expire(t) \/ QueueApc(t) \/ Terminate(t)
       \/ ExitThread(t) \/ CheckKill(t) \/ Leave(t)
       \/ \E o \in Objects : \/ MutantRelease(t, o)
                            \/ CreateEvent(t, o) \/ CreateSemaphore(t, o) \/ CreateMutant(t, o)
  \/ \E o \in Objects :
       \/ SetEvent(o) \/ ResetEvent(o) \/ CloseHandle(o)
       \/ \E n \in 1 .. MaxCount : ReleaseSemaphore(o, n)
  \/ KillSweep

Next == Step /\ UNCHANGED setting

Spec == Init /\ [][Next]_vars

-----------------------------------------------------------------------------
\* Nobody sleeps who has a reason to run: no pending wait could be satisfied
\* now, and no alertable sleeper has an APC queued, whatever mix of WaitAny,
\* WaitAll, abandoned mutants and time-outs led here.
NoMissedWake ==
  \A t \in Threads :
    /\ desc[t] # None /\ desc[t].result = Pending => ~Satisfiable(Now, desc[t].objs, desc[t].all, t)
    /\ at[t] = "blocked" /\ t \in alertable => apc[t] = 0

\* The lists hold exactly the blocks of the pending waits, so that none
\* outlives the descriptor it lies in (kfree(d) at the end of ob_wait).
BlocksMatchWaits ==
  \A o \in Objects :
    /\ \A i, j \in DOMAIN waiters[o] : waiters[o][i] = waiters[o][j] => i = j
    /\ ToSet(waiters[o]) =
         UNION {{<<t, i>> : i \in {k \in DOMAIN ObjsOf(t) : desc[t].result = Pending /\ desc[t].objs[k] = o}}
                : t \in Threads}

\* Acquisitions of o granted to waits that have not returned yet.
NamedTaken(d, o) ==
  IF d = None \/ d.result = Pending THEN {}
  ELSE IF d.all THEN Named(d.objs, o) ELSE Named(d.objs, o) \cap {d.result}
InFlight(o) == Cardinality(UNION {{t} \X NamedTaken(desc[t], o) : t \in Threads})

\* What an object gave away is what its callers were told: no unit of a
\* semaphore and no acquisition of a mutant is lost or invented when a time-out,
\* an APC or a termination races the signal.
LedgerBalanced ==
  /\ \A o \in Sems : ob[o].refs > 0 => ledger[o] = ob[o].count + InFlight(o)
  /\ \A o \in Mutants : ob[o].refs > 0 => ob[o].recursion = ledger[o] + InFlight(o)

\* References are exact: the handle, each wait, and the owner of a mutant. So a
\* freed object has no waiter and no owner, and an abandoned mutant is not
\* freed under the waiter it is handed to (objects.c:22-24). The owner is
\* alive and the mutant is linked once on the list its exit will scan.
RefsExact ==
  /\ \A o \in Objects :
       ob[o].refs = (IF o \in open THEN 1 ELSE 0)
                    + Cardinality(UNION {{t} \X Named(ObjsOf(t), o) : t \in Threads})
                    + (IF ob[o].owner # None THEN 1 ELSE 0)
  /\ \A o \in Mutants :
       /\ MultiplicityIn(owned, o) = IF ob[o].owner = None THEN 0 ELSE 1
       /\ ob[o].owner # None => at[ob[o].owner] # "dead"

\* A thread that must die does not sleep on: whatever it blocked on after its
\* termination woke it, the sweep is armed and will end that wait.
KilledAreSwept == \A t \in killed : at[t] = "blocked" => sweep /\ Interruptible(t)
=============================================================================
