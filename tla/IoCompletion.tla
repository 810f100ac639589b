---------------------------- MODULE IoCompletion ----------------------------
(***************************************************************************)
(* Asynchronous I/O (kernel64/ipc_io.c): I/O request packets that complete *)
(* at once or pend on a list of their file system (npfs.c, ipc_notify.c),  *)
(* their completion from any thread, cancellation, the exit of the issuer, *)
(* and a completion port. The waits block through KernelSync.              *)
(***************************************************************************)
EXTENDS KernelSync

CONSTANTS Requests,       \* the irp_t the model allocates
          Kinds,          \* the kinds of file object the requests are on
          MaxBatch,       \* packets one port_remove may take
          CancelAccepted  \* whether a request may be cancelled while serve_writers copies it

ASSUME IoAssumption ==
  /\ Kinds \subseteq {"sync", "event", "packet", "skip"}
  /\ MaxBatch \in Nat \ {0} /\ CancelAccepted \in BOOLEAN
  /\ None \notin Requests

VARIABLES irp,        \* the requests; refs = 0: freed memory
          issued,     \* the request whose system call a thread is in
          accepting,  \* the request a thread took off its list and copies
          port,       \* the iocp_t
          got         \* the packet a port waiter was handed

ivars == <<irp, issued, accepting, port, got>>
vars == <<svars, ivars>>

Status == {"success", "error", "cancelled"}
\* The waits that set `waiting', so that a termination may interrupt them.
Waiting == {"irp", "port"}

Unused == [kind |-> "sync", thread |-> None, pended |-> FALSE, listed |-> FALSE, completed |-> FALSE,
           status |-> "success", refs |-> 0, told |-> 0, returned |-> "success"]

TypeOK ==
  /\ SyncTypeOK
  /\ irp \in [Requests -> [kind : {"sync", "event", "packet", "skip"}, thread : Threads \cup {None},
                           pended : BOOLEAN, listed : BOOLEAN, completed : BOOLEAN, status : Status,
                           refs : 0 .. 2, told : 0 .. 2, returned : Status \cup {"pending", "no"}]]
  /\ issued \in [Threads -> Requests \cup {None}]
  /\ accepting \in [Threads -> Requests \cup {None}]
  /\ port.packets \in Seq(Requests) /\ port.waiters \in Seq(Threads) /\ port.closed \in BOOLEAN
  /\ got \in [Threads -> Requests \cup {None}]

Init ==
  /\ SyncInit
  /\ irp = [i \in Requests |-> Unused]
  /\ issued = [t \in Threads |-> None]
  /\ accepting = [t \in Threads |-> None]
  /\ port = [packets |-> <<>>, waiters |-> <<>>, closed |-> FALSE]
  /\ got = [t \in Threads |-> None]

-----------------------------------------------------------------------------
\* irp_prepare: a new request of t, with the issuer's reference.
Prepared(t, kind) ==
  [Unused EXCEPT !.kind = kind, !.thread = t, !.refs = 1, !.returned = "no"]

\* A freed irp_t may be allocated again. Bound: not while its packet is unread.
Allocatable(i) ==
  /\ irp[i].refs = 0
  /\ i \notin ToSet(port.packets) /\ \A t \in Threads : got[t] # i

\* A request reports its end to its event or port unless it failed at once, or
\* succeeded at once on a file with FILE_SKIP_COMPLETION_PORT_ON_SUCCESS.
Tells(r, st) ==
  /\ r.kind # "sync"
  /\ r.pended \/ st = "success"
  /\ ~(r.kind = "skip" /\ ~r.pended /\ st = "success")

Completed(r, st) ==
  [r EXCEPT !.completed = TRUE, !.listed = FALSE, !.status = st,
            !.told = IF Tells(r, st) THEN @ + 1 ELSE @,
            !.refs = IF r.pended THEN @ - 1 ELSE @]

\* irp_put of the issuer's reference when the system call returns st.
Finished(r, st) == [r EXCEPT !.refs = @ - 1, !.returned = st]

\* Told once: STATUS_PENDING promises one event or packet, an error at once, or
\* a success at once on a skip file, comes with none.
Reported(r) ==
  /\ r.kind = "sync" => r.returned = r.status /\ r.told = 0
  /\ (r.kind # "sync" /\ r.pended) => r.returned = "pending" /\ r.told = 1
  /\ (r.kind # "sync" /\ ~r.pended) =>
        r.returned = r.status /\ r.told = (IF r.status = "success" /\ r.kind # "skip" THEN 1 ELSE 0)

\* The contents of freed memory are dropped unless they show a wrong report.
Kept(r) == IF r.refs = 0 /\ Reported(r) THEN Unused ELSE r

\* irp_complete and iocp_post: request i, now r, ends with st and becomes `after';
\* the newest port waiter gets the packet, the issuer that waits is woken.
IrpComplete(i, r, st, after) ==
  LET posts == Tells(r, st) /\ r.kind \in {"packet", "skip"}
      taker == IF posts /\ port.waiters # <<>> THEN {Head(port.waiters)} ELSE {}
      issuer == {t \in Threads : r.kind = "sync" /\ r.pended /\ r.thread = t}
  IN  /\ irp' = [irp EXCEPT ![i] = Kept(after)]
      /\ port' = IF ~posts THEN port
                 ELSE IF taker = {} THEN [port EXCEPT !.packets = Append(@, i)]
                 ELSE [port EXCEPT !.waiters = Tail(@)]
      /\ got' = [t \in Threads |-> IF t \in taker THEN i ELSE got[t]]
      /\ Wake(taker \cup issuer)

\* A request that can be satisfied, or refused, during its system call: nobody
\* else sees it, so preparation, completion and return are one step.
IssueAtOnce(t, i, kind, st) ==
  LET r == Prepared(t, kind)
  IN  /\ MayCall(t, "request") /\ Allocatable(i)
      /\ IrpComplete(i, r, st, Finished(Completed(r, st), st))
      /\ UNCHANGED <<calls, pc, waitSem, timedOut, killed, sync, issued, accepting>>

IssuePendingNoRef(t, i, kind) ==
  /\ MayCall(t, "request") /\ Allocatable(i) /\ mutex.owner # t
  /\ irp' = [irp EXCEPT ![i] = [Prepared(t, kind) EXCEPT !.pended = TRUE, !.listed = TRUE, !.refs = 1]]
  /\ issued' = [issued EXCEPT ![t] = i]
  /\ pc' = [pc EXCEPT ![t] = "finish"]
  /\ UNCHANGED <<calls, blocked, wakeTick, waitSem, timedOut, killed, sync, accepting, port, got>>

\* pend_on: on its list, with the queue's reference, before interrupts are on.
IssuePending(t, i, kind) ==
  /\ MayCall(t, "request") /\ Allocatable(i) /\ mutex.owner # t
  /\ irp' = [irp EXCEPT ![i] = [Prepared(t, kind) EXCEPT !.pended = TRUE, !.listed = TRUE, !.refs = 2]]
  /\ issued' = [issued EXCEPT ![t] = i]
  /\ pc' = [pc EXCEPT ![t] = "finish"]
  /\ UNCHANGED <<calls, blocked, wakeTick, waitSem, timedOut, killed, sync, accepting, port, got>>

FinishAsyncFinal(t) ==
  LET i == issued[t]
  IN  /\ pc[t] = "finish" /\ Runs(t) /\ irp[i].kind # "sync"
      /\ irp' = [irp EXCEPT ![i] = Kept(Finished(@, IF ~@.completed THEN "pending" ELSE @.status))]
      /\ issued' = [issued EXCEPT ![t] = None]
      /\ Returns(t)
      /\ UNCHANGED <<calls, blocked, wakeTick, waitSem, timedOut, killed, sync, accepting, port, got>>

\* irp_finish of an asynchronous request: STATUS_PENDING, even when it completed.
FinishAsync(t) ==
  LET i == issued[t]
  IN  /\ pc[t] = "finish" /\ Runs(t) /\ irp[i].kind # "sync"
      /\ irp' = [irp EXCEPT ![i] = Kept(Finished(@, IF @.pended \/ ~@.completed THEN "pending" ELSE @.status))]
      /\ issued' = [issued EXCEPT ![t] = None]
      /\ Returns(t)
      /\ UNCHANGED <<calls, blocked, wakeTick, waitSem, timedOut, killed, sync, accepting, port, got>>

\* irp_finish of a synchronous one: a round of its loop, the first or after a
\* wake-up. A thread that must die cancels its own request.
FinishSync(t) ==
  LET i == issued[t]
      r == irp[i]
  IN  /\ pc[t] \in {"finish", "irp"} /\ Runs(t) /\ r.kind = "sync"
      /\ \/ /\ r.completed
            /\ irp' = [irp EXCEPT ![i] = Kept(Finished(r, r.status))]
            /\ issued' = [issued EXCEPT ![t] = None]
            /\ Returns(t)
            /\ UNCHANGED <<blocked, wakeTick, port, got>>
         \/ /\ ~r.completed /\ t \in killed
            /\ CancelAccepted \/ r.listed
            /\ IrpComplete(i, r, "cancelled", Finished(Completed(r, "cancelled"), "cancelled"))
            /\ issued' = [issued EXCEPT ![t] = None]
            /\ Returns(t)
         \/ /\ ~r.completed /\ t \notin killed
            /\ Block(t, "irp", 0)
            /\ UNCHANGED <<irp, issued, port, got>>
      /\ UNCHANGED <<calls, waitSem, timedOut, killed, sync, accepting>>

\* Another thread makes a listed request satisfiable, or its list is emptied by
\* a close or a disconnect: off the list and complete in one section.
Complete(i, st) ==
  /\ irp[i].listed
  /\ IrpComplete(i, irp[i], st, Completed(irp[i], st))
  /\ UNCHANGED <<calls, pc, waitSem, timedOut, killed, sync, issued, accepting>>

\* serve_writers takes a pending write off its list, copies its data with
\* interrupts on, and completes it: two sections.
Accept(t, i) ==
  /\ MayCall(t, "accept") /\ irp[i].listed
  /\ irp' = [irp EXCEPT ![i].listed = FALSE]
  /\ accepting' = [accepting EXCEPT ![t] = i]
  /\ pc' = [pc EXCEPT ![t] = "accept"]
  /\ UNCHANGED <<calls, blocked, wakeTick, waitSem, timedOut, killed, sync, issued, port, got>>

Accepted(t, st) ==
  LET i == accepting[t]
  IN  /\ pc[t] = "accept"
      /\ accepting' = [accepting EXCEPT ![t] = None]
      /\ Returns(t)
      /\ IF irp[i].completed
           THEN UNCHANGED <<irp, port, got, blocked, wakeTick>>
           ELSE IrpComplete(i, irp[i], st, Completed(irp[i], st))
      /\ UNCHANGED <<calls, waitSem, timedOut, killed, sync, issued>>

\* What irp_cancel_matching and ipc_io_thread_exit find on the list of all IRPs.
Cancellable(i) ==
  /\ irp[i].refs > 0 /\ irp[i].pended /\ ~irp[i].completed
  /\ CancelAccepted \/ irp[i].listed

\* NtCancelIoFileEx: one request, named by its IO_STATUS_BLOCK.
Cancel(i) ==
  /\ Cancellable(i)
  /\ IrpComplete(i, irp[i], "cancelled", Completed(irp[i], "cancelled"))
  /\ UNCHANGED <<calls, pc, waitSem, timedOut, killed, sync, issued, accepting>>

\* thread_exit at the end of a system call: ipc_io_thread_exit cancels what the
\* thread has pending, except on a port. The slot's next thread starts clean.
ThreadExit(t) ==
  LET mine == {i \in Requests : irp[i].refs > 0 /\ irp[i].pended /\ ~irp[i].completed /\ irp[i].thread = t}
      agnostic == {i \in mine : irp[i].kind \in {"packet", "skip"}}
  IN  /\ t \in killed /\ pc[t] = "out" /\ Runs(t) /\ mutex.owner # t
      /\ \A i \in mine \ agnostic : Cancellable(i)
      /\ irp' = [i \in Requests |->
                   IF i \notin mine THEN irp[i]
                   ELSE LET r == [irp[i] EXCEPT !.thread = None]
                        IN  IF i \in agnostic THEN r ELSE Kept(Completed(r, "cancelled"))]
      /\ killed' = killed \ {t}
      /\ UNCHANGED <<calls, threads, sync, issued, accepting, port, got>>

-----------------------------------------------------------------------------
\* ipc_ref_handle: the caller finds the port while its last handle is open. The
\* reference keeps the memory; the port may be closed before port_remove looks.
PortFound(t) ==
  /\ MayCall(t, "port") /\ ~port.closed /\ mutex.owner # t
  /\ pc' = [pc EXCEPT ![t] = "found"]
  /\ UNCHANGED <<calls, blocked, wakeTick, waitSem, timedOut, killed, sync, ivars>>

\* port_remove: packets at once, STATUS_TIMEOUT without waiting (poll), nothing from
\* a closed port, or a wait of n ticks (0: for ever).
PortRemove(t, n, poll) ==
  /\ pc[t] = "found" /\ Runs(t)
  /\ \/ /\ port.packets # <<>>
        /\ \E k \in 1 .. MaxBatch :
             port' = [port EXCEPT !.packets = SubSeq(@, k + 1, Len(@))]
        /\ Returns(t) /\ UNCHANGED <<blocked, wakeTick>>
     \/ /\ port.packets = <<>> /\ (port.closed \/ poll \/ t \in killed)
        /\ Returns(t) /\ UNCHANGED <<port, blocked, wakeTick>>
     \/ /\ port.packets = <<>> /\ ~port.closed /\ ~poll /\ t \notin killed
        /\ port' = [port EXCEPT !.waiters = <<t>> \o @]
        /\ Block(t, "port", n)
  /\ UNCHANGED <<calls, waitSem, timedOut, killed, sync, irp, issued, accepting, got>>

PortRemoveReturnsLinked(t) ==
  LET first == IF got[t] = None THEN 0 ELSE 1
  IN  /\ pc[t] = "port" /\ Runs(t)
      /\ \E k \in 1 .. MaxBatch :
           port' = [port EXCEPT !.packets = SubSeq(@, k - first + 1, Len(@))]
      /\ got' = [got EXCEPT ![t] = None]
      /\ wakeTick' = [wakeTick EXCEPT ![t] = 0]
      /\ Returns(t)
      /\ UNCHANGED <<calls, blocked, waitSem, timedOut, killed, sync, irp, issued, accepting>>

\* ... and its end: with the packet it was handed and more that are queued, or,
\* off the waiter list again, with queued ones or with none.
PortRemoveReturns(t) ==
  LET first == IF got[t] = None THEN 0 ELSE 1
  IN  /\ pc[t] = "port" /\ Runs(t)
      /\ \E k \in 1 .. MaxBatch :
           port' = [port EXCEPT !.waiters = Unlinked(@, {t}),
                                !.packets = SubSeq(@, k - first + 1, Len(@))]
      /\ got' = [got EXCEPT ![t] = None]
      /\ wakeTick' = [wakeTick EXCEPT ![t] = 0]
      /\ Returns(t)
      /\ UNCHANGED <<calls, blocked, waitSem, timedOut, killed, sync, irp, issued, accepting>>

\* iocp_handle_closed: the last handle goes, every waiter is woken.
PortClose ==
  /\ ~port.closed
  /\ port' = [port EXCEPT !.closed = TRUE]
  /\ Wake(ToSet(port.waiters))
  /\ UNCHANGED <<calls, pc, waitSem, timedOut, killed, sync, irp, issued, accepting, got>>

-----------------------------------------------------------------------------
\* KernelSync's steps leave requests and the port alone.
OnSleep(t) == (\E n \in Ticks : Sleep(t, n)) /\ UNCHANGED ivars
OnSleepReturns(t) == SleepReturns(t) /\ UNCHANGED ivars
OnSemWait(t) == (\E n \in Ticks \cup {0} : SemWait(t, n)) /\ UNCHANGED ivars
OnSemWaitReturns(t) == SemWaitReturns(t) /\ UNCHANGED ivars
OnSemPost == SemPost /\ UNCHANGED ivars
OnMutexLock(t) == MutexLock(t) /\ UNCHANGED ivars
OnMutexUnlock(t) == MutexUnlock(t) /\ UNCHANGED ivars
OnKill(t) == Kill(t, Waiting) /\ UNCHANGED ivars
OnTick == Tick(Waiting) /\ UNCHANGED ivars

Next ==
  \/ \E t \in Threads : OnSleep(t)
  \/ \E t \in Threads : OnSleepReturns(t)
  \/ \E t \in Threads : OnSemWait(t)
  \/ \E t \in Threads : OnSemWaitReturns(t)
  \/ OnSemPost
  \/ \E t \in Threads : OnMutexLock(t)
  \/ \E t \in Threads : OnMutexUnlock(t)
  \/ \E t \in Threads : OnKill(t)
  \/ OnTick
  \/ \E t \in Threads, i \in Requests, kind \in Kinds, st \in {"success", "error"} : IssueAtOnce(t, i, kind, st)
  \/ \E t \in Threads, i \in Requests, kind \in Kinds : IssuePending(t, i, kind)
  \/ \E t \in Threads : FinishAsync(t)
  \/ \E t \in Threads : FinishSync(t)
  \/ \E i \in Requests, st \in {"success", "error"} : Complete(i, st)
  \/ \E t \in Threads, i \in Requests : Accept(t, i)
  \/ \E t \in Threads, st \in {"success", "error"} : Accepted(t, st)
  \/ \E i \in Requests : Cancel(i)
  \/ \E t \in Threads : ThreadExit(t)
  \/ \E t \in Threads : PortFound(t)
  \/ \E t \in Threads, n \in Ticks \cup {0}, poll \in BOOLEAN : PortRemove(t, n, poll)
  \/ \E t \in Threads : PortRemoveReturns(t)
  \/ PortClose

Spec == Init /\ [][Next]_vars

\* A thread that can run does (Sched bounds its wait), the timer ticks, and a
\* thread that holds the mutex gets to release it.
Fairness ==
  /\ WF_vars(OnTick)
  /\ \A t \in Threads :
       /\ WF_vars(OnSleepReturns(t)) /\ WF_vars(OnSemWaitReturns(t))
       /\ WF_vars(FinishAsync(t)) /\ WF_vars(FinishSync(t))
       /\ WF_vars(\E st \in {"success", "error"} : Accepted(t, st))
       /\ WF_vars(PortRemoveReturns(t))
       /\ WF_vars(pc[t] = "lock" /\ OnMutexLock(t))
       /\ SF_vars(OnMutexUnlock(t))

FairSpec == Spec /\ Fairness

-----------------------------------------------------------------------------
\* "The same completion handled twice" (irp_finish) does not happen: when a
\* request is over, its issuer and its event or port together were told its end
\* once, whichever of the two system calls it raced with was first.
ReportedOnce == \A i \in Requests : irp[i].refs = 0 => Reported(irp[i])

\* An IRP is freed exactly when neither its system call, nor its list, nor a
\* thread that copies its data can reach it.
RequestOutlivesUsers ==
  /\ \A i \in Requests :
       irp[i].refs = Cardinality({t \in Threads : issued[t] = i}) + (IF irp[i].pended /\ ~irp[i].completed THEN 1 ELSE 0)
  /\ \A t \in Threads : accepting[t] # None => irp[accepting[t]].refs > 0

\* Nobody sleeps through a completion: not the issuer of a completed synchronous
\* request, and no port waiter beside a queued packet or on a closed port. A
\* packet is only handed to a thread that is still in port_remove, even when
\* that thread was already woken by its deadline or by its termination.
NoMissedCompletion ==
  /\ \A t \in blocked :
       /\ pc[t] = "irp" => ~irp[issued[t]].completed
       /\ pc[t] = "port" => port.packets = <<>> /\ ~port.closed /\ got[t] = None
  /\ IsInjective(port.waiters)
  /\ \A t \in Threads :
       /\ t \in ToSet(port.waiters) => pc[t] = "port" /\ got[t] = None
       /\ (t \in blocked /\ pc[t] = "port") => t \in ToSet(port.waiters)
       /\ got[t] # None => pc[t] = "port"

\* Every wait with a deadline ends, a mutex waiter is woken to retry, and a
\* terminated thread leaves the wait it is parked in, even when it blocked after
\* the termination had looked at it.
WaitsEnd ==
  \A t \in Threads :
    /\ (t \in blocked /\ wakeTick[t] > 0) ~> (t \notin blocked)
    /\ (t \in ToSet(mutex.waiters)) ~> (t \notin ToSet(mutex.waiters))
    /\ (t \in killed /\ pc[t] \in Waiting \cup {"sleep"}) ~> (pc[t] = "out")
=============================================================================
