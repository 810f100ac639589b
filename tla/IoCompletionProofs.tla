------------------------- MODULE IoCompletionProofs -------------------------
(***************************************************************************)
(* Asynchronous I/O for any number of threads and requests. A request is   *)
(* freed exactly when its issuer and its queue have let go of it, and its  *)
(* end is reported once; no waiter list loses a thread or a unit, and no   *)
(* issuer and no port waiter sleeps through a completion. Assumed          *)
(* (CancelAccepted = FALSE): a request that serve_writers copies is not    *)
(* cancelled meanwhile; the run IoAccepted shows what happens otherwise.   *)
(***************************************************************************)
EXTENDS IoCompletion, FiniteSetTheorems, NaturalsInduction, WellFoundedInduction, TLAPS

Places == {"out", "sleep", "sem", "lock", "finish", "irp", "accept", "found", "port"}
Issuing == {"finish", "irp"}

Recs == [kind : {"sync", "event", "packet", "skip"}, thread : Threads \cup {None},
         pended : BOOLEAN, listed : BOOLEAN, completed : BOOLEAN, status : Status,
         refs : Int, told : Int, returned : Status \cup {"pending", "no"}]

HasIssuer(i) == \E t \in Threads : issued[t] = i

\* An allocated request between two sections: it pends or pended, its references
\* are the issuer's and the queue's, and only its issuer may still have to be told.
Live(r, has) ==
  /\ r \in Recs /\ r.pended
  /\ r.listed => ~ r.completed
  /\ r.refs = (IF has THEN 1 ELSE 0) + (IF r.completed THEN 0 ELSE 1)
  /\ r.refs > 0
  /\ r.told = IF r.completed /\ r.kind # "sync" THEN 1 ELSE 0
  /\ r.returned = IF has THEN "no" ELSE "pending"
  /\ r.kind = "sync" => has

Good(r, has) == Live(r, has) \/ (r = Unused /\ ~ has)

IoTypes ==
  /\ pc \in [Threads -> Places]
  /\ irp \in [Requests -> Recs]
  /\ issued \in [Threads -> Requests \cup {None}]
  /\ accepting \in [Threads -> Requests \cup {None}]

\* Which call a thread is in says whether it has a request in its hands, and no
\* request is in two hands of the same kind.
HandsInv ==
  /\ \A t \in Threads : issued[t] # None <=> pc[t] \in Issuing
  /\ \A t \in Threads : accepting[t] # None <=> pc[t] = "accept"
  /\ \A t, u \in Threads : issued[t] # None /\ issued[t] = issued[u] => t = u
  /\ \A t, u \in Threads : accepting[t] # None /\ accepting[t] = accepting[u] => t = u

RecordInv == \A i \in Requests : Good(irp[i], HasIssuer(i))

\* A request that is being copied still has its queue's reference.
AcceptInv ==
  \A t \in Threads : accepting[t] # None =>
    irp[accepting[t]].refs > 0 /\ ~ irp[accepting[t]].completed /\ ~ irp[accepting[t]].listed

RequestInv == IoTypes /\ HandsInv /\ RecordInv /\ AcceptInv

-----------------------------------------------------------------------------
(* What the operations do to one request. *)

\* The kinds of the model's file objects.
LEMMA KindTypes == Kinds \subseteq {"sync", "event", "packet", "skip"} /\ None \notin Requests
BY IoAssumption

\* A freed irp_t holds nothing of interest.
LEMMA UnusedIsFree == Unused \in Recs /\ Unused.refs = 0 /\ ~ Unused.listed
BY DEF Unused, Recs, Status

LEMMA GoodIsRecord ==
  ASSUME NEW r, NEW has \in BOOLEAN, Good(r, has)
  PROVE  r \in Recs /\ (r.refs # 0 => Live(r, has)) /\ (r.listed => Live(r, has))
BY UnusedIsFree DEF Good, Live

\* A record of the right type stays one when a field gets a value of its type.
LEMMA RecordUpdates ==
  ASSUME NEW r \in Recs
  PROVE  /\ \A k \in {"sync", "event", "packet", "skip"} : [r EXCEPT !.kind = k] \in Recs
         /\ \A t \in Threads \cup {None} : [r EXCEPT !.thread = t] \in Recs
         /\ \A b \in BOOLEAN : [r EXCEPT !.pended = b] \in Recs
         /\ \A b \in BOOLEAN : [r EXCEPT !.listed = b] \in Recs
         /\ \A b \in BOOLEAN : [r EXCEPT !.completed = b] \in Recs
         /\ \A st \in Status : [r EXCEPT !.status = st] \in Recs
         /\ \A n \in Int : [r EXCEPT !.refs = n] \in Recs
         /\ \A n \in Int : [r EXCEPT !.told = n] \in Recs
         /\ \A st \in Status \cup {"pending", "no"} : [r EXCEPT !.returned = st] \in Recs
BY DEF Recs

\* irp_complete of a pended request: the queue's reference goes, and the request
\* with it when its issuer has returned.
LEMMA CompletesWell ==
  ASSUME NEW r, NEW has \in BOOLEAN, NEW st \in Status, Live(r, has), ~ r.completed
  PROVE  Good(Kept(Completed(r, st)), has)
<1> DEFINE c == Completed(r, st)
<1>1. Tells(r, st) <=> r.kind # "sync"
  BY DEF Tells, Live
<1>2. c \in Recs /\ c.pended /\ c.completed /\ ~ c.listed /\ c.kind = r.kind /\ c.status = st
       /\ c.returned = r.returned /\ c.refs = r.refs - 1 /\ c.told = (IF r.kind # "sync" THEN 1 ELSE 0)
  <2>1. r \in Recs /\ r.pended
    BY DEF Live
  <2>2. c.told = (IF r.kind # "sync" THEN 1 ELSE 0)
    BY <1>1, <2>1 DEF Completed, Live, Recs
  <2>3. c.pended /\ c.completed /\ ~ c.listed /\ c.kind = r.kind /\ c.status = st
         /\ c.returned = r.returned /\ c.refs = r.refs - 1
    BY <2>1 DEF Completed, Recs
  <2>4. c \in Recs
    <3> DEFINE told == IF Tells(r, st) THEN r.told + 1 ELSE r.told
               refs == IF r.pended THEN r.refs - 1 ELSE r.refs
               c1 == [r EXCEPT !.completed = TRUE]
               c2 == [c1 EXCEPT !.listed = FALSE]
               c3 == [c2 EXCEPT !.status = st]
               c4 == [c3 EXCEPT !.told = told]
    <3>1. c = [c4 EXCEPT !.refs = refs]
      BY <2>1 DEF Completed, Recs
    <3>2. told \in Int /\ refs \in Int
      BY <2>1 DEF Recs
    <3>3. c1 \in Recs
      BY <2>1, RecordUpdates
    <3>4. c2 \in Recs
      BY <3>3, RecordUpdates
    <3>5. c3 \in Recs
      BY <3>4, RecordUpdates
    <3>6. c4 \in Recs
      BY <3>2, <3>5, RecordUpdates
    <3> HIDE DEF told, refs, c1, c2, c3, c4
    <3>7. [c4 EXCEPT !.refs = refs] \in Recs
      BY <3>2, <3>6, RecordUpdates
    <3> QED BY <3>1, <3>7
  <2> QED BY <2>2, <2>3, <2>4
<1>3. CASE has
  <2>1. Live(c, has) /\ c.refs # 0
    BY <1>2, <1>3 DEF Live
  <2> QED BY <2>1 DEF Kept, Good
<1>4. CASE ~ has
  <2>1. c.refs = 0 /\ c.kind # "sync" /\ c.told = 1 /\ c.returned = "pending"
    BY <1>2, <1>4 DEF Live
  <2>2. Reported(c)
    BY <1>2, <2>1 DEF Reported
  <2> QED BY <1>4, <2>1, <2>2 DEF Kept, Good
<1> QED BY <1>3, <1>4

\* irp_finish of an asynchronous request gives up the issuer's reference.
LEMMA AsyncFinishesWell ==
  ASSUME NEW r, Live(r, TRUE), r.kind # "sync"
  PROVE  LET f == Kept(Finished(r, IF r.pended \/ ~ r.completed THEN "pending" ELSE r.status))
         IN  Good(f, FALSE) /\ (~ r.completed => f.refs > 0 /\ ~ f.completed /\ f.listed = r.listed)
<1> DEFINE f == Finished(r, "pending")
<1>1. Finished(r, IF r.pended \/ ~ r.completed THEN "pending" ELSE r.status) = f
  BY DEF Live
<1>2. f \in Recs /\ f.pended /\ f.completed = r.completed /\ f.listed = r.listed /\ f.kind = r.kind
       /\ f.told = r.told /\ f.returned = "pending" /\ f.refs = r.refs - 1
  <2>1. r \in Recs /\ r.pended
    BY DEF Live
  <2>2. f.pended /\ f.completed = r.completed /\ f.listed = r.listed /\ f.kind = r.kind
         /\ f.told = r.told /\ f.returned = "pending" /\ f.refs = r.refs - 1
    BY <2>1 DEF Finished, Recs
  <2>3. f \in Recs
    <3> DEFINE g == [r EXCEPT !.refs = r.refs - 1]
    <3>1. r.refs - 1 \in Int
      BY <2>1 DEF Recs
    <3>2. g \in Recs
      BY <2>1, <3>1, RecordUpdates
    <3>3. f = [g EXCEPT !.returned = "pending"]
      BY <2>1 DEF Finished
    <3> HIDE DEF g
    <3>4. [g EXCEPT !.returned = "pending"] \in Recs
      BY <3>2, RecordUpdates
    <3> QED BY <3>3, <3>4
  <2> QED BY <2>2, <2>3
<1>3. CASE r.completed
  <2>1. f.refs = 0 /\ f.told = 1
    BY <1>2, <1>3 DEF Live
  <2>2. Reported(f)
    BY <1>2, <2>1 DEF Reported
  <2> QED BY <1>1, <1>3, <2>1, <2>2 DEF Kept, Good
<1>4. CASE ~ r.completed
  <2>1. Live(f, FALSE) /\ f.refs # 0 /\ f.refs > 0
    BY <1>2, <1>4 DEF Live
  <2>2. Kept(f) = f
    BY <2>1 DEF Kept
  <2> QED BY <1>1, <1>2, <1>4, <2>1, <2>2 DEF Good
<1> QED BY <1>3, <1>4

\* irp_finish of a completed synchronous request frees it.
LEMMA SyncFinishesWell ==
  ASSUME NEW r, Live(r, TRUE), r.kind = "sync", r.completed
  PROVE  Kept(Finished(r, r.status)) = Unused
<1> DEFINE f == Finished(r, r.status)
<1>1. f.refs = 0 /\ f.told = 0 /\ f.kind = "sync" /\ f.returned = f.status
  BY DEF Live, Finished, Recs
<1>2. Reported(f)
  BY <1>1 DEF Reported
<1> QED BY <1>1, <1>2 DEF Kept

\* A thread that must die completes its own synchronous request and frees it.
LEMMA SyncCancelsWell ==
  ASSUME NEW r, Live(r, TRUE), r.kind = "sync", ~ r.completed
  PROVE  Kept(Finished(Completed(r, "cancelled"), "cancelled")) = Unused
<1> DEFINE f == Finished(Completed(r, "cancelled"), "cancelled")
<1>1. ~ Tells(r, "cancelled")
  BY DEF Tells
<1>2. f.refs = 0 /\ f.told = 0 /\ f.kind = "sync" /\ f.returned = "cancelled" /\ f.status = "cancelled"
  BY <1>1 DEF Live, Finished, Completed, Recs
<1>3. Reported(f)
  BY <1>2 DEF Reported
<1> QED BY <1>2, <1>3 DEF Kept

\* A request that ends during its system call is reported once and freed.
LEMMA AtOnceEndsWell ==
  ASSUME NEW t \in Threads, NEW kind \in Kinds, NEW st \in {"success", "error"}
  PROVE  Kept(Finished(Completed(Prepared(t, kind), st), st)) = Unused
<1> DEFINE r == Prepared(t, kind)
           f == Finished(Completed(r, st), st)
<1>1. r.kind = kind /\ ~ r.pended /\ r.refs = 1 /\ r.told = 0
  BY DEF Prepared, Unused
<1>2. Tells(r, st) <=> kind \notin {"sync", "skip"} /\ st = "success"
  BY <1>1, KindTypes DEF Tells
<1>3. f.refs = 0 /\ f.kind = kind /\ f.returned = st /\ f.status = st /\ ~ f.pended
       /\ f.told = (IF kind \notin {"sync", "skip"} /\ st = "success" THEN 1 ELSE 0)
  BY <1>1, <1>2 DEF Finished, Completed, Prepared, Unused
<1>4. Reported(f)
  BY <1>3, KindTypes DEF Reported
<1> QED BY <1>3, <1>4 DEF Kept

\* A request that pends has its issuer's and its queue's reference.
LEMMA PendsWell ==
  ASSUME NEW t \in Threads, NEW kind \in Kinds
  PROVE  Live([Prepared(t, kind) EXCEPT !.pended = TRUE, !.listed = TRUE, !.refs = 2], TRUE)
<1> DEFINE p1 == [Unused EXCEPT !.kind = kind]
           p2 == [p1 EXCEPT !.thread = t]
           p3 == [p2 EXCEPT !.refs = 1]
           p4 == [p3 EXCEPT !.returned = "no"]
           p5 == [p4 EXCEPT !.pended = TRUE]
           p6 == [p5 EXCEPT !.listed = TRUE]
           r == [p6 EXCEPT !.refs = 2]
<1>1. [Prepared(t, kind) EXCEPT !.pended = TRUE, !.listed = TRUE, !.refs = 2] = r
  BY DEF Prepared
<1>2. r.pended /\ r.listed /\ ~ r.completed /\ r.refs = 2 /\ r.told = 0 /\ r.returned = "no"
  <2>1. r.pended /\ r.listed /\ r.refs = 2 /\ r.returned = "no"
    BY DEF Unused
  <2>2. ~ r.completed /\ r.told = 0
    BY DEF Unused
  <2> QED BY <2>1, <2>2
<1>3. 1 \in Int /\ 2 \in Int
  OBVIOUS
<1>4. p1 \in Recs
  BY UnusedIsFree, KindTypes, RecordUpdates
<1> HIDE DEF p1
<1>5. p2 \in Recs
  BY <1>3, <1>4, RecordUpdates
<1> HIDE DEF p2
<1>6. p3 \in Recs
  BY <1>3, <1>5, RecordUpdates
<1> HIDE DEF p3
<1>7. p4 \in Recs
  BY <1>3, <1>6, RecordUpdates
<1> HIDE DEF p4
<1>8. p5 \in Recs
  BY <1>3, <1>7, RecordUpdates
<1> HIDE DEF p5
<1>9. p6 \in Recs
  BY <1>3, <1>8, RecordUpdates
<1> HIDE DEF p6
<1>10. r \in Recs
  BY <1>3, <1>9, RecordUpdates
<1> HIDE DEF r
<1>11. Live(r, TRUE)
  BY <1>2, <1>10 DEF Live
<1> QED BY <1>1, <1>11

\* Leaving a list, or losing a thread that exits, changes nothing else.
LEMMA StaysLive ==
  ASSUME NEW r, NEW has \in BOOLEAN, Live(r, has)
  PROVE  /\ Live([r EXCEPT !.listed = FALSE], has)
         /\ Live([r EXCEPT !.thread = None], has)
BY DEF Live, Recs

-----------------------------------------------------------------------------
(* What the steps do to the table of requests. *)

\* A step that changes neither a request nor who has it in hand.
LEMMA PcOnly ==
  ASSUME RequestInv, UNCHANGED <<irp, issued, accepting>>, pc' \in [Threads -> Places],
         \A u \in Threads : /\ pc[u] \in Issuing <=> pc'[u] \in Issuing
                            /\ pc[u] = "accept" <=> pc'[u] = "accept"
  PROVE  RequestInv'
<1>1. IoTypes'
  BY DEF RequestInv, IoTypes
<1>2. HandsInv'
  BY DEF RequestInv, HandsInv
<1>3. RecordInv'
  BY DEF RequestInv, RecordInv, HasIssuer
<1>4. AcceptInv'
  BY DEF RequestInv, AcceptInv
<1> QED BY <1>1, <1>2, <1>3, <1>4 DEF RequestInv

\* A step that changes one request; when it is copied, it keeps its queue's reference.
LEMMA OneRequest ==
  ASSUME RequestInv, NEW i \in Requests, NEW r, irp' = [irp EXCEPT ![i] = r],
         Good(r, HasIssuer(i)'), HandsInv',
         pc' \in [Threads -> Places], issued' \in [Threads -> Requests \cup {None}],
         accepting' \in [Threads -> Requests \cup {None}],
         \A j \in Requests \ {i} : HasIssuer(j)' <=> HasIssuer(j),
         \A t \in Threads : accepting'[t] = i => r.refs > 0 /\ ~ r.completed /\ ~ r.listed,
         \A t \in Threads : accepting'[t] \notin {i, None} => accepting'[t] = accepting[t]
  PROVE  RequestInv'
<1>1. HasIssuer(i)' \in BOOLEAN
  BY DEF HasIssuer
<1>2. r \in Recs
  BY <1>1, GoodIsRecord
<1>3. irp' \in [Requests -> Recs] /\ irp'[i] = r /\ \A j \in Requests \ {i} : irp'[j] = irp[j]
  BY <1>2 DEF RequestInv, IoTypes
<1>4. IoTypes'
  BY <1>3 DEF IoTypes
<1>5. RecordInv'
  <2> SUFFICES ASSUME NEW j \in Requests PROVE Good(irp'[j], HasIssuer(j)')
    BY DEF RecordInv
  <2>1. CASE j = i
    BY <1>3, <2>1
  <2>2. CASE j # i
    <3>1. Good(irp[j], HasIssuer(j)) /\ irp'[j] = irp[j] /\ (HasIssuer(j)' <=> HasIssuer(j))
      BY <1>3, <2>2 DEF RequestInv, RecordInv
    <3> QED BY <3>1 DEF Good, Live
  <2> QED BY <2>1, <2>2
<1>6. AcceptInv'
  BY <1>3, <1>4 DEF RequestInv, AcceptInv, IoTypes
<1> QED BY <1>4, <1>5, <1>6 DEF RequestInv

\* A request on a list is allocated, pends, and is copied by nobody.
LEMMA ListedIsLive ==
  ASSUME RequestInv, NEW i \in Requests, irp[i].listed
  PROVE  /\ Live(irp[i], HasIssuer(i)) /\ ~ irp[i].completed
         /\ \A t \in Threads : accepting[t] # i
<1>1. HasIssuer(i) \in BOOLEAN
  BY DEF HasIssuer
<1>2. Live(irp[i], HasIssuer(i))
  BY <1>1, GoodIsRecord DEF RequestInv, RecordInv
<1>3. \A t \in Threads : accepting[t] # i
  BY KindTypes DEF RequestInv, AcceptInv
<1> QED BY <1>2, <1>3 DEF Live

\* A thread that moves between calls that hold no request.
LEMMA PcMoves ==
  ASSUME RequestInv, UNCHANGED <<irp, issued, accepting>>, NEW t \in Threads,
         NEW c \in {"out", "sleep", "sem", "lock", "found", "port"},
         pc[t] \in {"out", "sleep", "sem", "lock", "found", "port"}, pc' = [pc EXCEPT ![t] = c]
  PROVE  RequestInv'
<1>1. pc' \in [Threads -> Places]
  BY DEF RequestInv, IoTypes, Places
<1>2. ASSUME NEW u \in Threads
      PROVE  (pc[u] \in Issuing <=> pc'[u] \in Issuing) /\ (pc[u] = "accept" <=> pc'[u] = "accept")
  BY DEF RequestInv, IoTypes, Places, Issuing
<1> QED BY <1>1, <1>2, PcOnly

\* A step of the scheduler that moves no thread from one call to another.
LEMMA PcStays ==
  ASSUME RequestInv, UNCHANGED <<pc, irp, issued, accepting>>
  PROVE  RequestInv'
BY PcOnly DEF RequestInv, IoTypes

\* Sleep, semaphores, the mutex, termination and the tick do not touch requests.
LEMMA SyncSteps ==
  ASSUME RequestInv,
         \/ OnSemPost \/ OnTick
         \/ \E t \in Threads : \/ OnSleep(t) \/ OnSleepReturns(t) \/ OnSemWait(t) \/ OnSemWaitReturns(t)
                               \/ OnMutexLock(t) \/ OnMutexUnlock(t) \/ OnKill(t)
  PROVE  RequestInv'
<1>1. ASSUME OnSemPost PROVE RequestInv'
  BY <1>1, PcStays DEF OnSemPost, SemPost, ivars
<1>2. ASSUME OnTick PROVE RequestInv'
  BY <1>2, PcStays DEF OnTick, Tick, ivars
<1>3. ASSUME NEW t \in Threads, OnSleep(t) PROVE RequestInv'
  BY <1>3, PcMoves DEF OnSleep, Sleep, MayCall, Block, ivars
<1>4. ASSUME NEW t \in Threads, OnSleepReturns(t) PROVE RequestInv'
  BY <1>4, PcMoves DEF OnSleepReturns, SleepReturns, Returns, ivars
<1>5. ASSUME NEW t \in Threads, OnSemWait(t) PROVE RequestInv'
  <2> PICK n \in Ticks \cup {0} : SemWait(t, n)
    BY <1>5 DEF OnSemWait
  <2>1. UNCHANGED <<irp, issued, accepting>> /\ pc[t] = "out"
    BY <1>5 DEF OnSemWait, SemWait, MayCall, ivars
  <2>2. UNCHANGED pc \/ pc' = [pc EXCEPT ![t] = "sem"]
    BY DEF SemWait, Block, threads
  <2> QED BY <2>1, <2>2, PcStays, PcMoves
<1>6. ASSUME NEW t \in Threads, OnSemWaitReturns(t) PROVE RequestInv'
  BY <1>6, PcMoves DEF OnSemWaitReturns, SemWaitReturns, Returns, ivars
<1>7. ASSUME NEW t \in Threads, OnMutexLock(t) PROVE RequestInv'
  <2>1. UNCHANGED <<irp, issued, accepting>> /\ pc[t] \in {"out", "lock"}
    BY <1>7 DEF OnMutexLock, MutexLock, MayCall, ivars
  <2>2. pc' = [pc EXCEPT ![t] = "out"] \/ pc' = [pc EXCEPT ![t] = "lock"]
    BY <1>7 DEF OnMutexLock, MutexLock, Returns, Block
  <2> QED BY <2>1, <2>2, PcMoves
<1>8. ASSUME NEW t \in Threads, OnMutexUnlock(t) PROVE RequestInv'
  BY <1>8, PcStays DEF OnMutexUnlock, MutexUnlock, ivars
<1>9. ASSUME NEW t \in Threads, OnKill(t) PROVE RequestInv'
  BY <1>9, PcStays DEF OnKill, Kill, ivars
<1> QED BY <1>1, <1>2, <1>3, <1>4, <1>5, <1>6, <1>7, <1>8, <1>9

\* Nor do the calls on the completion port.
LEMMA PortSteps ==
  ASSUME RequestInv,
         \/ PortClose
         \/ \E t \in Threads : PortFound(t) \/ PortRemoveReturns(t)
         \/ \E t \in Threads, n \in Ticks \cup {0}, poll \in BOOLEAN : PortRemove(t, n, poll)
  PROVE  RequestInv'
<1>1. ASSUME PortClose PROVE RequestInv'
  BY <1>1, PcStays DEF PortClose
<1>2. ASSUME NEW t \in Threads, PortRemoveReturns(t) PROVE RequestInv'
  BY <1>2, PcMoves DEF PortRemoveReturns, Returns
<1>3. ASSUME NEW t \in Threads, NEW n \in Ticks \cup {0}, NEW poll \in BOOLEAN, PortRemove(t, n, poll)
      PROVE  RequestInv'
  <2>1. UNCHANGED <<irp, issued, accepting>> /\ pc[t] = "found"
    BY <1>3 DEF PortRemove
  <2>2. pc' = [pc EXCEPT ![t] = "out"] \/ pc' = [pc EXCEPT ![t] = "port"]
    BY <1>3 DEF PortRemove, Block, Returns
  <2> QED BY <2>1, <2>2, PcMoves
<1>4. ASSUME NEW t \in Threads, PortFound(t) PROVE RequestInv'
  BY <1>4, PcMoves DEF PortFound, MayCall, ivars
<1> QED BY <1>1, <1>2, <1>3, <1>4

-----------------------------------------------------------------------------
(* One lemma for each operation on requests. *)

\* Memory that irp_put freed is in nobody's hands.
LEMMA FreeIsUnused ==
  ASSUME RequestInv, NEW i \in Requests, irp[i].refs = 0
  PROVE  irp[i] = Unused /\ ~ HasIssuer(i) /\ \A t \in Threads : accepting[t] # i
<1>1. irp[i] = Unused /\ ~ HasIssuer(i)
  BY DEF RequestInv, RecordInv, Good, Live
<1>2. \A t \in Threads : accepting[t] # i
  BY KindTypes DEF RequestInv, AcceptInv
<1> QED BY <1>1, <1>2

\* A step that changes one request and nobody's hands.
LEMMA SameHands ==
  ASSUME RequestInv, NEW i \in Requests, NEW r, irp' = [irp EXCEPT ![i] = r],
         UNCHANGED <<pc, issued, accepting>>, Good(r, HasIssuer(i)),
         \A t \in Threads : accepting[t] # i
  PROVE  RequestInv'
<1>1. HandsInv'
  BY DEF RequestInv, HandsInv
<1>2. \A j \in Requests : HasIssuer(j)' <=> HasIssuer(j)
  BY DEF HasIssuer
<1>3. Good(r, HasIssuer(i)')
  BY <1>2 DEF Good, Live
<1> QED BY <1>1, <1>2, <1>3, OneRequest DEF RequestInv, IoTypes

\* A request that ends during its system call leaves no trace in the table.
LEMMA IssueAtOnceStep ==
  ASSUME RequestInv, NEW t \in Threads, NEW i \in Requests, NEW kind \in Kinds,
         NEW st \in {"success", "error"}, IssueAtOnce(t, i, kind, st)
  PROVE  RequestInv'
<1>1. irp' = [irp EXCEPT ![i] = Kept(Finished(Completed(Prepared(t, kind), st), st))]
  BY DEF IssueAtOnce, IrpComplete
<1>2. irp' = [irp EXCEPT ![i] = Unused]
  BY <1>1, AtOnceEndsWell
<1>3. irp[i].refs = 0 /\ UNCHANGED <<pc, issued, accepting>>
  BY DEF IssueAtOnce, Allocatable
<1>4. Good(Unused, HasIssuer(i)) /\ \A u \in Threads : accepting[u] # i
  BY <1>3, FreeIsUnused DEF Good
<1> QED BY <1>2, <1>3, <1>4, SameHands

\* A completion takes a request off its list.
LEMMA CompleteStep ==
  ASSUME RequestInv, NEW i \in Requests, NEW st \in Status, irp[i].listed,
         irp' = [irp EXCEPT ![i] = Kept(Completed(irp[i], st))], UNCHANGED <<pc, issued, accepting>>
  PROVE  RequestInv'
<1>1. HasIssuer(i) \in BOOLEAN
  BY DEF HasIssuer
<1>2. Good(Kept(Completed(irp[i], st)), HasIssuer(i))
  BY <1>1, ListedIsLive, CompletesWell
<1> QED BY <1>2, ListedIsLive, SameHands

\* pend_on: the request is in its issuer's hands and on its list.
LEMMA IssuePendingStep ==
  ASSUME RequestInv, NEW t \in Threads, NEW i \in Requests, NEW kind \in Kinds, IssuePending(t, i, kind)
  PROVE  RequestInv'
<1> DEFINE r == [Prepared(t, kind) EXCEPT !.pended = TRUE, !.listed = TRUE, !.refs = 2]
<1>1. /\ pc[t] = "out" /\ irp[i].refs = 0 /\ irp' = [irp EXCEPT ![i] = r]
      /\ issued' = [issued EXCEPT ![t] = i] /\ pc' = [pc EXCEPT ![t] = "finish"] /\ UNCHANGED accepting
  BY DEF IssuePending, MayCall, Allocatable
<1>2. Live(r, TRUE)
  BY PendsWell
<1> HIDE DEF r
<1>3. ~ HasIssuer(i) /\ \A u \in Threads : accepting[u] # i
  BY <1>1, FreeIsUnused
<1>4. /\ issued' \in [Threads -> Requests \cup {None}] /\ pc' \in [Threads -> Places]
      /\ accepting' \in [Threads -> Requests \cup {None}]
      /\ issued'[t] = i /\ pc'[t] = "finish"
      /\ \A u \in Threads \ {t} : issued'[u] = issued[u] /\ pc'[u] = pc[u]
  BY <1>1 DEF RequestInv, IoTypes, Places
<1>5. issued[t] = None
  BY <1>1 DEF RequestInv, HandsInv, Issuing
<1>6. HandsInv'
  <2>1. \A u \in Threads : issued'[u] # None <=> pc'[u] \in Issuing
    BY <1>4, KindTypes DEF RequestInv, HandsInv, Issuing
  <2>2. \A u \in Threads : accepting'[u] # None <=> pc'[u] = "accept"
    BY <1>1, <1>4 DEF RequestInv, HandsInv
  <2>3. \A u, v \in Threads : issued'[u] # None /\ issued'[u] = issued'[v] => u = v
    BY <1>3, <1>4 DEF RequestInv, HandsInv, HasIssuer
  <2>4. \A u, v \in Threads : accepting'[u] # None /\ accepting'[u] = accepting'[v] => u = v
    BY <1>1 DEF RequestInv, HandsInv
  <2> QED BY <2>1, <2>2, <2>3, <2>4 DEF HandsInv
<1>7. HasIssuer(i)'
  BY <1>4 DEF HasIssuer
<1>8. \A j \in Requests \ {i} : HasIssuer(j)' <=> HasIssuer(j)
  BY <1>4, <1>5, KindTypes DEF HasIssuer
<1>9. Good(r, HasIssuer(i)')
  BY <1>2, <1>7 DEF Good, Live
<1> QED BY <1>1, <1>3, <1>4, <1>6, <1>8, <1>9, OneRequest

\* The end of the system call takes the request out of its issuer's hands.
LEMMA IssuerReturns ==
  ASSUME RequestInv, NEW t \in Threads, pc[t] \in Issuing, NEW r,
         irp' = [irp EXCEPT ![issued[t]] = r], issued' = [issued EXCEPT ![t] = None],
         pc' = [pc EXCEPT ![t] = "out"], UNCHANGED accepting, Good(r, FALSE),
         \A u \in Threads : accepting[u] = issued[t] => r.refs > 0 /\ ~ r.completed /\ ~ r.listed
  PROVE  RequestInv'
<1>1. PICK i \in Requests : i = issued[t] /\ i # None
  BY DEF RequestInv, IoTypes, HandsInv
<1>2. /\ issued' \in [Threads -> Requests \cup {None}] /\ pc' \in [Threads -> Places]
      /\ accepting' \in [Threads -> Requests \cup {None}]
      /\ issued'[t] = None /\ pc'[t] = "out"
      /\ \A u \in Threads \ {t} : issued'[u] = issued[u] /\ pc'[u] = pc[u]
  BY DEF RequestInv, IoTypes, Places
<1>3. HandsInv'
  <2>1. \A u \in Threads : issued'[u] # None <=> pc'[u] \in Issuing
    BY <1>2 DEF RequestInv, HandsInv, Issuing
  <2>2. \A u \in Threads : accepting'[u] # None <=> pc'[u] = "accept"
    BY <1>2 DEF RequestInv, HandsInv, Issuing
  <2>3. \A u, v \in Threads : issued'[u] # None /\ issued'[u] = issued'[v] => u = v
    BY <1>2 DEF RequestInv, HandsInv
  <2>4. \A u, v \in Threads : accepting'[u] # None /\ accepting'[u] = accepting'[v] => u = v
    BY DEF RequestInv, HandsInv
  <2> QED BY <2>1, <2>2, <2>3, <2>4 DEF HandsInv
<1>4. ~ HasIssuer(i)'
  BY <1>1, <1>2 DEF RequestInv, HandsInv, HasIssuer
<1>5. \A j \in Requests \ {i} : HasIssuer(j)' <=> HasIssuer(j)
  BY <1>1, <1>2, KindTypes DEF HasIssuer
<1>6. Good(r, HasIssuer(i)')
  BY <1>4 DEF Good, Live
<1> QED BY <1>1, <1>2, <1>3, <1>5, <1>6, OneRequest

\* What a thread in irp_finish has in its hands.
LEMMA IssuedIsLive ==
  ASSUME RequestInv, NEW t \in Threads, pc[t] \in Issuing
  PROVE  issued[t] \in Requests /\ Live(irp[issued[t]], TRUE)
<1>1. issued[t] \in Requests /\ HasIssuer(issued[t])
  BY DEF RequestInv, IoTypes, HandsInv, HasIssuer
<1>2. Good(irp[issued[t]], HasIssuer(issued[t]))
  BY <1>1 DEF RequestInv, RecordInv
<1> QED BY <1>1, <1>2 DEF Good, Live

\* irp_finish of an asynchronous request, even while it is copied.
LEMMA FinishAsyncStep ==
  ASSUME RequestInv, NEW t \in Threads, FinishAsync(t)
  PROVE  RequestInv'
<1> DEFINE i == issued[t]
           f == Kept(Finished(irp[i], IF irp[i].pended \/ ~ irp[i].completed THEN "pending" ELSE irp[i].status))
<1>1. pc[t] \in Issuing /\ irp[i].kind # "sync"
  BY DEF FinishAsync, Issuing
<1>2. i \in Requests /\ Live(irp[i], TRUE)
  BY <1>1, IssuedIsLive
<1>3. /\ irp' = [irp EXCEPT ![i] = f] /\ issued' = [issued EXCEPT ![t] = None]
      /\ pc' = [pc EXCEPT ![t] = "out"] /\ UNCHANGED accepting
  BY <1>2 DEF FinishAsync, Returns, RequestInv, IoTypes
<1>4. Good(f, FALSE) /\ (~ irp[i].completed => f.refs > 0 /\ ~ f.completed /\ f.listed = irp[i].listed)
  BY <1>1, <1>2, AsyncFinishesWell
<1> HIDE DEF f
<1>5. \A u \in Threads : accepting[u] = i => f.refs > 0 /\ ~ f.completed /\ ~ f.listed
  BY <1>2, <1>4, KindTypes DEF RequestInv, AcceptInv
<1> QED BY <1>1, <1>3, <1>4, <1>5, IssuerReturns

\* irp_finish of a synchronous request: done, cancelled by its dying issuer, or a wait.
LEMMA FinishSyncStep ==
  ASSUME CancelAccepted = FALSE, RequestInv, NEW t \in Threads, FinishSync(t)
  PROVE  RequestInv'
<1> DEFINE i == issued[t]
<1>1. pc[t] \in Issuing /\ irp[i].kind = "sync" /\ UNCHANGED accepting
  BY DEF FinishSync, Issuing
<1>2. i \in Requests /\ Live(irp[i], TRUE)
  BY <1>1, IssuedIsLive
<1>3. Good(Unused, FALSE)
  BY DEF Good
<1>4. ASSUME irp[i].completed, irp' = [irp EXCEPT ![i] = Kept(Finished(irp[i], irp[i].status))],
             issued' = [issued EXCEPT ![t] = None], Returns(t)
      PROVE  RequestInv'
  <2>1. irp' = [irp EXCEPT ![i] = Unused]
    BY <1>1, <1>2, <1>4, SyncFinishesWell
  <2>2. \A u \in Threads : accepting[u] # i
    BY <1>2, <1>4, KindTypes DEF RequestInv, AcceptInv
  <2> QED BY <1>1, <1>3, <1>4, <2>1, <2>2, IssuerReturns DEF Returns
<1>5. ASSUME ~ irp[i].completed, CancelAccepted \/ irp[i].listed,
             IrpComplete(i, irp[i], "cancelled", Finished(Completed(irp[i], "cancelled"), "cancelled")),
             issued' = [issued EXCEPT ![t] = None], Returns(t)
      PROVE  RequestInv'
  <2>1. irp' = [irp EXCEPT ![i] = Kept(Finished(Completed(irp[i], "cancelled"), "cancelled"))]
    BY <1>5 DEF IrpComplete
  <2>2. irp' = [irp EXCEPT ![i] = Unused]
    BY <1>1, <1>2, <1>5, <2>1, SyncCancelsWell
  <2>3. \A u \in Threads : accepting[u] # i
    BY <1>2, <1>5, ListedIsLive
  <2> QED BY <1>1, <1>3, <1>5, <2>2, <2>3, IssuerReturns DEF Returns
<1>6. ASSUME Block(t, "irp", 0), UNCHANGED <<irp, issued>>
      PROVE  RequestInv'
  <2>1. pc' = [pc EXCEPT ![t] = "irp"]
    BY <1>6 DEF Block
  <2>2. pc' \in [Threads -> Places]
    BY <2>1 DEF RequestInv, IoTypes, Places
  <2>3. ASSUME NEW u \in Threads
        PROVE  (pc[u] \in Issuing <=> pc'[u] \in Issuing) /\ (pc[u] = "accept" <=> pc'[u] = "accept")
    <3>1. pc \in [Threads -> Places]
      BY DEF RequestInv, IoTypes
    <3>2. CASE u = t
      BY <1>1, <2>1, <3>1, <3>2 DEF Issuing
    <3>3. CASE u # t
      BY <2>1, <3>1, <3>3
    <3> QED BY <3>2, <3>3
  <2> QED BY <1>1, <1>6, <2>2, <2>3, PcOnly
<1>7. \/ /\ irp[i].completed /\ irp' = [irp EXCEPT ![i] = Kept(Finished(irp[i], irp[i].status))]
         /\ issued' = [issued EXCEPT ![t] = None] /\ Returns(t)
      \/ /\ ~ irp[i].completed /\ (CancelAccepted \/ irp[i].listed)
         /\ IrpComplete(i, irp[i], "cancelled", Finished(Completed(irp[i], "cancelled"), "cancelled"))
         /\ issued' = [issued EXCEPT ![t] = None] /\ Returns(t)
      \/ Block(t, "irp", 0) /\ UNCHANGED <<irp, issued>>
  BY Zenon DEF FinishSync
<1> HIDE DEF i
<1> QED BY <1>4, <1>5, <1>6, <1>7

\* serve_writers takes a request off its list; the queue's reference is now its own.
LEMMA AcceptStep ==
  ASSUME RequestInv, NEW t \in Threads, NEW i \in Requests, Accept(t, i)
  PROVE  RequestInv'
<1> DEFINE r == [irp[i] EXCEPT !.listed = FALSE]
<1>1. /\ pc[t] = "out" /\ irp[i].listed /\ irp' = [irp EXCEPT ![i] = r] /\ UNCHANGED issued
      /\ accepting' = [accepting EXCEPT ![t] = i] /\ pc' = [pc EXCEPT ![t] = "accept"]
  BY DEF Accept, MayCall
<1>2. Live(irp[i], HasIssuer(i)) /\ ~ irp[i].completed /\ \A u \in Threads : accepting[u] # i
  BY <1>1, ListedIsLive
<1>3. HasIssuer(i) \in BOOLEAN
  BY DEF HasIssuer
<1>4. Live(r, HasIssuer(i))
  BY <1>2, <1>3, StaysLive
<1>5. r.refs > 0 /\ ~ r.completed /\ ~ r.listed
  BY <1>2 DEF Live, Recs
<1> HIDE DEF r
<1>6. /\ issued' \in [Threads -> Requests \cup {None}] /\ pc' \in [Threads -> Places]
      /\ accepting' \in [Threads -> Requests \cup {None}]
      /\ accepting'[t] = i /\ pc'[t] = "accept"
      /\ \A u \in Threads \ {t} : accepting'[u] = accepting[u] /\ pc'[u] = pc[u]
  BY <1>1 DEF RequestInv, IoTypes, Places
<1>7. HandsInv'
  <2>1. \A u \in Threads : issued'[u] # None <=> pc'[u] \in Issuing
    BY <1>1, <1>6 DEF RequestInv, HandsInv, Issuing
  <2>2. \A u \in Threads : accepting'[u] # None <=> pc'[u] = "accept"
    BY <1>6, KindTypes DEF RequestInv, HandsInv
  <2>3. \A u, v \in Threads : issued'[u] # None /\ issued'[u] = issued'[v] => u = v
    BY <1>1 DEF RequestInv, HandsInv
  <2>4. \A u, v \in Threads : accepting'[u] # None /\ accepting'[u] = accepting'[v] => u = v
    BY <1>2, <1>6 DEF RequestInv, HandsInv
  <2> QED BY <2>1, <2>2, <2>3, <2>4 DEF HandsInv
<1>8. \A j \in Requests : HasIssuer(j)' <=> HasIssuer(j)
  BY <1>1 DEF HasIssuer
<1>9. Good(r, HasIssuer(i)')
  BY <1>4, <1>8 DEF Good, Live
<1>10. \A u \in Threads : accepting'[u] \notin {i, None} => accepting'[u] = accepting[u]
  BY <1>6
<1> QED BY <1>1, <1>5, <1>6, <1>7, <1>8, <1>9, <1>10, OneRequest

\* ... and completes it: nobody else can have done so meanwhile.
LEMMA AcceptedStep ==
  ASSUME RequestInv, NEW t \in Threads, NEW st \in {"success", "error"}, Accepted(t, st)
  PROVE  RequestInv'
<1>1. PICK i \in Requests : i = accepting[t] /\ i # None
  BY DEF RequestInv, IoTypes, HandsInv, Accepted
<1>2. irp[i].refs > 0 /\ ~ irp[i].completed
  BY <1>1 DEF RequestInv, AcceptInv
<1> DEFINE r == Kept(Completed(irp[i], st))
<1>3. /\ irp' = [irp EXCEPT ![i] = r] /\ UNCHANGED issued
      /\ accepting' = [accepting EXCEPT ![t] = None] /\ pc' = [pc EXCEPT ![t] = "out"]
  BY <1>1, <1>2 DEF Accepted, Returns, IrpComplete
<1>4. HasIssuer(i) \in BOOLEAN
  BY DEF HasIssuer
<1>5. Live(irp[i], HasIssuer(i))
  <2>1. Good(irp[i], HasIssuer(i))
    BY DEF RequestInv, RecordInv
  <2>2. irp[i].refs # 0
    BY <1>2 DEF RequestInv, IoTypes, Recs
  <2> QED BY <1>4, <2>1, <2>2, GoodIsRecord
<1>6. Good(r, HasIssuer(i))
  BY <1>2, <1>4, <1>5, CompletesWell DEF Status
<1> HIDE DEF r
<1>7. /\ issued' \in [Threads -> Requests \cup {None}] /\ pc' \in [Threads -> Places]
      /\ accepting' \in [Threads -> Requests \cup {None}]
      /\ accepting'[t] = None /\ pc'[t] = "out"
      /\ \A u \in Threads \ {t} : accepting'[u] = accepting[u] /\ pc'[u] = pc[u]
  BY <1>3 DEF RequestInv, IoTypes, Places
<1>8. pc[t] = "accept"
  BY DEF Accepted
<1>9. HandsInv'
  <2>1. \A u \in Threads : issued'[u] # None <=> pc'[u] \in Issuing
    BY <1>3, <1>7, <1>8 DEF RequestInv, HandsInv, Issuing
  <2>2. \A u \in Threads : accepting'[u] # None <=> pc'[u] = "accept"
    BY <1>7 DEF RequestInv, HandsInv
  <2>3. \A u, v \in Threads : issued'[u] # None /\ issued'[u] = issued'[v] => u = v
    BY <1>3 DEF RequestInv, HandsInv
  <2>4. \A u, v \in Threads : accepting'[u] # None /\ accepting'[u] = accepting'[v] => u = v
    BY <1>7 DEF RequestInv, HandsInv
  <2> QED BY <2>1, <2>2, <2>3, <2>4 DEF HandsInv
<1>10. \A j \in Requests : HasIssuer(j)' <=> HasIssuer(j)
  BY <1>3 DEF HasIssuer
<1>11. Good(r, HasIssuer(i)')
  BY <1>6, <1>10 DEF Good, Live
<1>12. \A u \in Threads : accepting'[u] # i
  BY <1>1, <1>7 DEF RequestInv, HandsInv
<1>13. \A u \in Threads : accepting'[u] \notin {i, None} => accepting'[u] = accepting[u]
  BY <1>7
<1> QED BY <1>3, <1>7, <1>9, <1>10, <1>11, <1>12, <1>13, OneRequest

\* ipc_io_thread_exit: every request of the thread that does not belong to a port
\* is cancelled, the others only forget the thread.
LEMMA ThreadExitStep ==
  ASSUME CancelAccepted = FALSE, RequestInv, NEW t \in Threads, ThreadExit(t)
  PROVE  RequestInv'
<1> DEFINE mine == {i \in Requests : irp[i].refs > 0 /\ irp[i].pended /\ ~irp[i].completed /\ irp[i].thread = t}
           agnostic == {i \in mine : irp[i].kind \in {"packet", "skip"}}
           left(i) == [irp[i] EXCEPT !.thread = None]
<1>1. /\ \A i \in mine \ agnostic : Cancellable(i)
      /\ irp' = [i \in Requests |-> IF i \notin mine THEN irp[i]
                                   ELSE IF i \in agnostic THEN left(i) ELSE Kept(Completed(left(i), "cancelled"))]
  BY Zenon DEF ThreadExit
<1>2. UNCHANGED <<pc, issued, accepting>>
  BY DEF ThreadExit, threads
<1>3. \A i \in Requests : HasIssuer(i)' <=> HasIssuer(i)
  BY <1>2 DEF HasIssuer
<1>4. ASSUME NEW i \in mine
      PROVE  /\ Live(left(i), HasIssuer(i)) /\ ~ left(i).completed
             /\ left(i).refs > 0 /\ left(i).listed = irp[i].listed
  <2>1. i \in Requests /\ irp[i].refs > 0 /\ ~ irp[i].completed
    OBVIOUS
  <2>2. Good(irp[i], HasIssuer(i)) /\ HasIssuer(i) \in BOOLEAN
    BY <2>1 DEF RequestInv, RecordInv, HasIssuer
  <2>3. irp[i].refs # 0 /\ irp[i] \in Recs
    BY <2>1 DEF RequestInv, IoTypes, Recs
  <2>4. Live(irp[i], HasIssuer(i))
    BY <2>2, <2>3, GoodIsRecord
  <2>5. ~ left(i).completed /\ left(i).refs > 0 /\ left(i).listed = irp[i].listed
    BY <2>1, <2>3 DEF Recs
  <2> QED BY <2>2, <2>4, <2>5, StaysLive
<1>5. ASSUME NEW i \in mine \ agnostic
      PROVE  Good(Kept(Completed(left(i), "cancelled")), HasIssuer(i)) /\ irp[i].listed
  <2>1. Live(left(i), HasIssuer(i)) /\ ~ left(i).completed
    BY <1>4
  <2>2. HasIssuer(i) \in BOOLEAN /\ "cancelled" \in Status
    BY DEF HasIssuer, Status
  <2> HIDE DEF left
  <2>3. Good(Kept(Completed(left(i), "cancelled")), HasIssuer(i))
    BY <2>1, <2>2, CompletesWell
  <2>4. irp[i].listed
    BY <1>1 DEF Cancellable
  <2> QED BY <2>3, <2>4
<1> HIDE DEF left
<1>6. ASSUME NEW i \in Requests PROVE Good(irp'[i], HasIssuer(i))
  <2>1. CASE i \notin mine
    BY <1>1, <2>1 DEF RequestInv, RecordInv
  <2>2. CASE i \in agnostic
    BY <1>1, <1>4, <2>2 DEF Good
  <2>3. CASE i \in mine \ agnostic
    BY <1>1, <1>5, <2>3
  <2> QED BY <2>1, <2>2, <2>3
<1>7. RecordInv'
  BY <1>3, <1>6 DEF RecordInv, Good, Live
<1>8. IoTypes'
  <2>1. ASSUME NEW i \in Requests PROVE irp'[i] \in Recs
    <3>1. HasIssuer(i) \in BOOLEAN
      BY DEF HasIssuer
    <3> QED BY <1>6, <3>1, GoodIsRecord
  <2>2. irp' \in [Requests -> Recs]
    BY <1>1, <2>1
  <2> QED BY <1>2, <2>2 DEF RequestInv, IoTypes
<1>9. HandsInv'
  BY <1>2 DEF RequestInv, HandsInv
<1>10. AcceptInv'
  <2> SUFFICES ASSUME NEW u \in Threads, NEW i \in Requests, accepting[u] = i, i # None
               PROVE  irp'[i].refs > 0 /\ ~ irp'[i].completed /\ ~ irp'[i].listed
    BY <1>2 DEF AcceptInv, RequestInv, IoTypes
  <2>1. irp[i].refs > 0 /\ ~ irp[i].completed /\ ~ irp[i].listed
    BY DEF RequestInv, AcceptInv
  <2>2. CASE i \notin mine
    BY <1>1, <2>1, <2>2
  <2>3. CASE i \in agnostic
    BY <1>1, <1>4, <2>1, <2>3
  <2>4. CASE i \in mine \ agnostic
    BY <1>5, <2>1, <2>4
  <2> QED BY <2>2, <2>3, <2>4
<1> QED BY <1>7, <1>8, <1>9, <1>10 DEF RequestInv

-----------------------------------------------------------------------------
(* Waiter lists: who is on them and that nobody is on one twice. *)

\* The least element, which stands in for induction.
LEMMA LeastNat ==
  ASSUME NEW T, T \subseteq Nat, T # {}
  PROVE  \E n \in T : \A m \in T : n <= m
<1> DEFINE R == {ss \in Nat \X Nat : ss[1] < ss[2]}
<1>1. IsWellFoundedOn(R, Nat)
  BY NatLessThanWellFounded DEF OpToRel
<1>2. PICK x \in T : \A y \in T : ~(<<y, x>> \in R)
  BY <1>1, WFMin
<1>3. \A y \in T : x <= y
  <2> TAKE y \in T
  <2>1. x \in Nat /\ y \in Nat /\ <<y, x>> \notin R
    BY <1>2
  <2>2. ~(y < x)
    BY <2>1
  <2> QED BY <2>1, <2>2
<1> QED BY <1>3

LEMMA SetInduction ==
  ASSUME NEW T, 0 \in T, \A n \in Nat : n \in T => n + 1 \in T
  PROVE  \A n \in Nat : n \in T
<1> SUFFICES ASSUME Nat \ T # {} PROVE FALSE
  OBVIOUS
<1>1. PICK n \in Nat \ T : \A m \in Nat \ T : n <= m
  BY LeastNat
<1>2. n # 0 /\ n - 1 \in Nat /\ n - 1 \in T
  BY <1>1
<1> QED BY <1>1, <1>2

\* A list without a member is the empty one.
LEMMA NobodyListed ==
  ASSUME NEW X, NEW s \in Seq(X), ToSet(s) = {}
  PROVE  s = <<>>
<1>1. DOMAIN s = 1 .. Len(s) /\ Len(s) \in Nat
  OBVIOUS
<1>2. \A i \in 1 .. Len(s) : s[i] \in ToSet(s)
  BY <1>1 DEF ToSet
<1>3. ~(1 \in 1 .. Len(s))
  BY <1>2
<1>4. Len(s) = 0
  BY <1>1, <1>3
<1> QED BY <1>4

\* A waiter at the tail.
LEMMA AppendList ==
  ASSUME NEW X, NEW s \in Seq(X), IsInjective(s), NEW t \in X, t \notin ToSet(s)
  PROVE  /\ Append(s, t) \in Seq(X) /\ IsInjective(Append(s, t))
         /\ ToSet(Append(s, t)) = ToSet(s) \cup {t}
<1> DEFINE w == Append(s, t)
           n == Len(s)
<1>1. /\ w \in Seq(X) /\ Len(w) = n + 1 /\ w[n + 1] = t /\ n \in Nat /\ DOMAIN s = 1 .. n /\ DOMAIN w = 1 .. n + 1
      /\ \A i \in 1 .. n : w[i] = s[i]
  OBVIOUS
<1> HIDE DEF w, n
<1>2. \A i \in 1 .. n : s[i] # t
  BY <1>1 DEF ToSet
<1>3. IsInjective(w)
  BY <1>1, <1>2 DEF IsInjective
<1>4. \A i : i \in 1 .. n + 1 <=> i \in 1 .. n \/ i = n + 1
  BY <1>1
<1>5. ToSet(w) = ToSet(s) \cup {t}
  BY <1>1, <1>4 DEF ToSet
<1> QED BY <1>1, <1>3, <1>5 DEF w

\* A waiter at the head.
LEMMA PushList ==
  ASSUME NEW X, NEW s \in Seq(X), IsInjective(s), NEW t \in X, t \notin ToSet(s)
  PROVE  /\ <<t>> \o s \in Seq(X) /\ IsInjective(<<t>> \o s)
         /\ ToSet(<<t>> \o s) = ToSet(s) \cup {t}
<1> DEFINE w == <<t>> \o s
           n == Len(s)
<1>1. /\ w \in Seq(X) /\ Len(w) = n + 1 /\ w[1] = t /\ n \in Nat /\ DOMAIN s = 1 .. n /\ DOMAIN w = 1 .. n + 1
      /\ \A i \in 1 .. n : w[i + 1] = s[i]
      /\ \A i \in 1 .. n + 1 : i # 1 => w[i] = s[i - 1]
  OBVIOUS
<1> HIDE DEF w, n
<1>2. \A i \in 1 .. n : s[i] # t
  BY <1>1 DEF ToSet
<1>3. \A i : i \in 1 .. n + 1 <=> i = 1 \/ (i - 1 \in 1 .. n /\ i \in Int)
  BY <1>1
<1>4. IsInjective(w)
  <2> SUFFICES ASSUME NEW i \in 1 .. n + 1, NEW j \in 1 .. n + 1, w[i] = w[j]
               PROVE  i = j
    BY <1>1 DEF IsInjective
  <2>1. CASE i = 1 \/ j = 1
    <3>1. \A k \in 1 .. n + 1 : k # 1 => w[k] # t
      BY <1>1, <1>2, <1>3
    <3> QED BY <1>1, <2>1, <3>1
  <2>2. CASE i # 1 /\ j # 1
    <3>1. i - 1 \in 1 .. n /\ j - 1 \in 1 .. n /\ s[i - 1] = s[j - 1]
      BY <1>1, <1>3, <2>2
    <3>2. i - 1 = j - 1
      BY <1>1, <3>1 DEF IsInjective
    <3> QED BY <3>2
  <2> QED BY <2>1, <2>2
<1>5. ASSUME NEW u PROVE u \in ToSet(w) <=> u \in ToSet(s) \cup {t}
  <2>1. ASSUME u \in ToSet(w) PROVE u \in ToSet(s) \cup {t}
    <3>1. PICK i \in 1 .. n + 1 : w[i] = u
      BY <1>1, <2>1 DEF ToSet
    <3> QED BY <1>1, <1>3, <3>1 DEF ToSet
  <2>2. ASSUME u \in ToSet(s) PROVE u \in ToSet(w)
    <3>1. PICK i \in 1 .. n : s[i] = u
      BY <1>1, <2>2 DEF ToSet
    <3>2. i + 1 \in 1 .. n + 1
      BY <1>1
    <3> QED BY <1>1, <3>1, <3>2 DEF ToSet
  <2>3. 1 \in 1 .. n + 1
    BY <1>1
  <2>4. t \in ToSet(w)
    BY <1>1, <2>3 DEF ToSet
  <2> QED BY <2>1, <2>2, <2>4
<1>6. ToSet(w) = ToSet(s) \cup {t}
  BY <1>5
<1> QED BY <1>1, <1>4, <1>6 DEF w

\* The first waiter leaves.
LEMMA TailList ==
  ASSUME NEW X, NEW s \in Seq(X), IsInjective(s), s # <<>>
  PROVE  /\ Tail(s) \in Seq(X) /\ IsInjective(Tail(s)) /\ Head(s) \in X /\ Head(s) \in ToSet(s)
         /\ ToSet(Tail(s)) = ToSet(s) \ {Head(s)}
<1> DEFINE w == Tail(s)
           n == Len(s)
<1>1. /\ w \in Seq(X) /\ n \in Nat /\ n > 0 /\ DOMAIN s = 1 .. n /\ DOMAIN w = 1 .. n - 1
      /\ \A i \in 1 .. n - 1 : w[i] = s[i + 1]
      /\ Head(s) = s[1] /\ Head(s) \in X
  OBVIOUS
<1> HIDE DEF w, n
<1>2. 1 \in 1 .. n
  BY <1>1
<1>3. Head(s) \in ToSet(s)
  BY <1>1, <1>2 DEF ToSet
<1>4. IsInjective(w)
  <2> SUFFICES ASSUME NEW i \in 1 .. n - 1, NEW j \in 1 .. n - 1, w[i] = w[j]
               PROVE  i = j
    BY <1>1 DEF IsInjective
  <2>1. i + 1 \in 1 .. n /\ j + 1 \in 1 .. n /\ s[i + 1] = s[j + 1]
    BY <1>1
  <2>2. i + 1 = j + 1
    BY <1>1, <2>1 DEF IsInjective
  <2> QED BY <2>2
<1>5. ASSUME NEW u PROVE u \in ToSet(w) <=> u \in ToSet(s) \ {Head(s)}
  <2>1. ASSUME u \in ToSet(w) PROVE u \in ToSet(s) \ {Head(s)}
    <3>1. PICK i \in 1 .. n - 1 : w[i] = u
      BY <1>1, <2>1 DEF ToSet
    <3>2. i + 1 \in 1 .. n /\ i + 1 # 1 /\ s[i + 1] = u
      BY <1>1, <3>1
    <3>3. u # s[1]
      BY <1>1, <1>2, <3>2 DEF IsInjective
    <3> QED BY <1>1, <3>2, <3>3 DEF ToSet
  <2>2. ASSUME u \in ToSet(s), u # Head(s) PROVE u \in ToSet(w)
    <3>1. PICK i \in 1 .. n : s[i] = u
      BY <1>1, <2>2 DEF ToSet
    <3>2. i # 1 /\ i - 1 \in 1 .. n - 1 /\ (i - 1) + 1 = i
      BY <1>1, <2>2, <3>1
    <3>3. w[i - 1] = u
      BY <1>1, <3>1, <3>2
    <3> QED BY <1>1, <3>2, <3>3 DEF ToSet
  <2> QED BY <2>1, <2>2
<1>6. ToSet(w) = ToSet(s) \ {Head(s)}
  BY <1>5
<1> QED BY <1>1, <1>3, <1>4, <1>6 DEF w

\* The function behind Unlinked exists and follows the walk.
LEMMA RemainingExists ==
  ASSUME NEW X, NEW s \in Seq(X), NEW S
  PROVE  /\ Remaining(s, S) \in [0 .. Len(s) -> Seq(X)]
         /\ Remaining(s, S)[0] = <<>>
         /\ \A i \in 1 .. Len(s) :
              Remaining(s, S)[i] = IF s[i] \in S THEN Remaining(s, S)[i - 1] ELSE Append(Remaining(s, S)[i - 1], s[i])
<1> DEFINE n == Len(s)
           Next1(q, i) == IF s[i] \in S THEN q ELSE Append(q, s[i])
           Body(f, k) == [i \in 0 .. k |-> IF i = 0 THEN <<>> ELSE IF s[i] \in S THEN f[i - 1] ELSE Append(f[i - 1], s[i])]
           Fine(k) == \E f \in [0 .. k -> Seq(X)] : f = Body(f, k)
           T == {k \in Nat : k <= n => Fine(k)}
<1>0. n \in Nat /\ \A i \in 1 .. n : s[i] \in X
  OBVIOUS
<1>1. 0 \in T
  <2>1. [i \in 0 .. 0 |-> <<>>] \in [0 .. 0 -> Seq(X)]
    OBVIOUS
  <2>2. [i \in 0 .. 0 |-> <<>>] = Body([i \in 0 .. 0 |-> <<>>], 0)
    OBVIOUS
  <2>3. Fine(0)
    BY <2>1, <2>2
  <2> HIDE DEF Fine, n
  <2> QED BY <2>3
<1>2. ASSUME NEW k \in Nat, k \in T PROVE k + 1 \in T
  <2>0. (k + 1 <= n => Fine(k + 1)) => k + 1 \in T
    <3> HIDE DEF Fine, n
    <3> QED OBVIOUS
  <2> SUFFICES ASSUME k + 1 <= n PROVE Fine(k + 1)
    BY <2>0
  <2>a. Fine(k) /\ k + 1 \in 1 .. n
    <3> HIDE DEF Fine, n
    <3> QED BY <1>0, <1>2
  <2>1. PICK f \in [0 .. k -> Seq(X)] : f = Body(f, k)
    BY <2>a
  <2> DEFINE v == Next1(f[k], k + 1)
             g == [i \in 0 .. k + 1 |-> IF i = k + 1 THEN v ELSE f[i]]
  <2>2. v \in Seq(X)
    <3>1. s[k + 1] \in X /\ f[k] \in Seq(X)
      BY <1>0, <2>a
    <3> QED BY <3>1
  <2>3. g \in [0 .. k + 1 -> Seq(X)]
    <3> HIDE DEF v
    <3> QED BY <2>2
  <2>4. g = Body(g, k + 1)
    <3>1. ASSUME NEW i \in 0 .. k + 1 PROVE g[i] = Body(g, k + 1)[i]
      <4>1. CASE i = k + 1
        <5>1. g[i] = v /\ g[i - 1] = f[k] /\ i # 0
          BY <4>1
        <5> QED BY <5>1, <4>1
      <4>2. CASE i # k + 1 /\ i # 0
        <5>1. i \in 0 .. k /\ g[i] = f[i] /\ g[i - 1] = f[i - 1]
          BY <4>2
        <5>2. f[i] = IF s[i] \in S THEN f[i - 1] ELSE Append(f[i - 1], s[i])
          BY <2>1, <5>1, <4>2
        <5> QED BY <5>1, <5>2, <4>2
      <4>3. CASE i = 0
        <5>1. f[0] = <<>>
          BY <2>1
        <5> QED BY <5>1, <4>3
      <4> QED BY <4>1, <4>2, <4>3
    <3>2. DOMAIN g = DOMAIN Body(g, k + 1)
      OBVIOUS
    <3> QED BY <3>1, <3>2
  <2> QED BY <2>3, <2>4
<1>3. Fine(n)
  <2> HIDE DEF Fine, n
  <2>1. \A k \in Nat : k \in T
    BY <1>1, <1>2, SetInduction
  <2> QED BY <1>0, <2>1
<1> DEFINE K == Remaining(s, S)
<1>4. K = CHOOSE f : f = Body(f, n)
  BY DEF Remaining
<1>5. K = Body(K, n)
  BY <1>3, <1>4
<1> HIDE DEF K
<1>6. DOMAIN K = 0 .. n /\ \A i \in 0 .. n : K[i] = IF i = 0 THEN <<>> ELSE Next1(K[i - 1], i)
  BY <1>5
<1>7. K[0] = <<>> /\ \A i \in 1 .. n : K[i] = Next1(K[i - 1], i)
  <2> HIDE DEF n, Next1
  <2>1. 0 \in 0 .. n /\ \A i \in 1 .. n : i \in 0 .. n /\ i # 0
    BY <1>0
  <2> QED BY <1>6, <2>1
<1>8. \A i \in 0 .. n : K[i] \in Seq(X)
  <2> DEFINE U == {m \in Nat : m <= n => K[m] \in Seq(X)}
  <2>1. 0 \in U
    <3>1. K[0] \in Seq(X)
      BY <1>7
    <3> QED BY <3>1
  <2>2. ASSUME NEW m \in Nat, m \in U PROVE m + 1 \in U
    <3> SUFFICES ASSUME m + 1 <= n PROVE K[m + 1] \in Seq(X)
      OBVIOUS
    <3> HIDE DEF n
    <3>1. m + 1 \in 1 .. n /\ (m + 1) - 1 = m /\ K[m] \in Seq(X)
      BY <1>0, <2>2
    <3>2. K[m + 1] = Next1(K[m], m + 1) /\ s[m + 1] \in X
      BY <1>0, <1>7, <3>1
    <3> QED BY <3>1, <3>2
  <2> HIDE DEF U
  <2>3. \A m \in Nat : m \in U
    BY <2>1, <2>2, SetInduction
  <2> QED BY <1>0, <2>3 DEF U
<1>9. K \in [0 .. n -> Seq(X)]
  <2> HIDE DEF n
  <2>1. K = [i \in 0 .. n |-> K[i]]
    BY <1>5
  <2> QED BY <1>8, <2>1
<1> QED BY <1>7, <1>9 DEF K

\* Unlinked takes exactly the threads of S off the list.
LEMMA UnlinkedFacts ==
  ASSUME NEW X, NEW s \in Seq(X), IsInjective(s), NEW S
  PROVE  /\ Unlinked(s, S) \in Seq(X) /\ IsInjective(Unlinked(s, S))
         /\ ToSet(Unlinked(s, S)) = ToSet(s) \ S
<1> DEFINE K == Remaining(s, S)
           n == Len(s)
           Fits(k) == /\ IsInjective(K[k])
                      /\ \A u : u \in ToSet(K[k]) <=> (\E i \in 1 .. k : s[i] = u) /\ u \notin S
           T == {k \in Nat : k <= n => Fits(k)}
<1>1. /\ K \in [0 .. n -> Seq(X)] /\ K[0] = <<>>
      /\ \A i \in 1 .. n : K[i] = IF s[i] \in S THEN K[i - 1] ELSE Append(K[i - 1], s[i])
  BY RemainingExists
<1>2. n \in Nat /\ DOMAIN s = 1 .. n /\ \A i \in 1 .. n : s[i] \in X
  OBVIOUS
<1> HIDE DEF K, n
<1>3. 0 \in T
  <2>1. Fits(0)
    BY <1>1 DEF ToSet, IsInjective
  <2> HIDE DEF Fits
  <2> QED BY <2>1
<1>4. ASSUME NEW k \in Nat, k \in T PROVE k + 1 \in T
  <2>0. (k + 1 <= n => Fits(k + 1)) => k + 1 \in T
    <3> HIDE DEF Fits
    <3> QED OBVIOUS
  <2> SUFFICES ASSUME k + 1 <= n PROVE Fits(k + 1)
    BY <2>0
  <2>1. Fits(k) /\ k \in 0 .. n /\ k + 1 \in 1 .. n /\ (k + 1) - 1 = k
    <3> HIDE DEF Fits
    <3> QED BY <1>2, <1>4
  <2>2. /\ K[k] \in Seq(X) /\ s[k + 1] \in X
        /\ K[k + 1] = IF s[k + 1] \in S THEN K[k] ELSE Append(K[k], s[k + 1])
    <3> HIDE DEF Fits
    <3> QED BY <1>1, <1>2, <2>1
  <2>3. \A u : (\E i \in 1 .. k + 1 : s[i] = u) <=> (\E i \in 1 .. k : s[i] = u) \/ u = s[k + 1]
    <3>1. \A i : i \in 1 .. k + 1 <=> i \in 1 .. k \/ i = k + 1
      BY <1>4
    <3> QED BY <3>1
  <2>4. CASE s[k + 1] \notin S
    <3>1. s[k + 1] \notin ToSet(K[k])
      <4>1. \A i \in 1 .. k : i \in 1 .. n /\ i # k + 1
        BY <1>2, <2>1
      <4>2. \A i \in 1 .. k : s[i] # s[k + 1]
        BY <1>2, <2>1, <4>1 DEF IsInjective
      <4> QED BY <2>1, <4>2
    <3>2. IsInjective(K[k])
      BY <2>1
    <3>3. IsInjective(Append(K[k], s[k + 1])) /\ ToSet(Append(K[k], s[k + 1])) = ToSet(K[k]) \cup {s[k + 1]}
      BY ONLY <2>2, <3>1, <3>2, AppendList
    <3>4. K[k + 1] = Append(K[k], s[k + 1])
      BY <2>2, <2>4
    <3>5. IsInjective(K[k + 1]) /\ \A u : u \in ToSet(K[k + 1]) <=> u \in ToSet(K[k]) \/ u = s[k + 1]
      BY <3>3, <3>4
    <3> QED BY <2>1, <2>3, <2>4, <3>5
  <2>5. CASE s[k + 1] \in S
    <3>1. K[k + 1] = K[k]
      BY <2>2, <2>5
    <3> QED BY <2>1, <2>3, <2>5, <3>1
  <2> QED BY <2>4, <2>5
<1>5. Fits(n)
  <2> HIDE DEF Fits
  <2>1. \A k \in Nat : k \in T
    <3> HIDE DEF T
    <3> QED BY <1>3, <1>4, SetInduction
  <2> QED BY <1>2, <2>1
<1>6. Unlinked(s, S) = K[n] /\ K[n] \in Seq(X)
  BY <1>1, <1>2 DEF Unlinked, K, n
<1>7. \A u : u \in ToSet(s) <=> \E i \in 1 .. n : s[i] = u
  BY <1>2 DEF ToSet
<1> QED BY <1>5, <1>6, <1>7

-----------------------------------------------------------------------------
(* Sleeping and waking on the BSP: what KernelSync's steps rely on. *)

SyncTypes ==
  /\ blocked \subseteq Threads /\ waitSem \subseteq Threads /\ timedOut \subseteq Threads
  /\ wakeTick \in [Threads -> Nat]
  /\ sem \in [count : Nat, waiters : Seq(Threads)]
  /\ mutex \in [owner : Threads \cup {None}, waiters : Seq(Threads)]
  /\ units \in Int

\* wake_tick is set only while its thread is BLOCKED, and never in mutex_lock, which
\* takes it as it finds it: so the tick cannot wake a thread that is linked there.
DeadlinesInv == \A t \in Threads : wakeTick[t] > 0 => t \in blocked /\ pc[t] # "lock"

\* wait_sem is set exactly while the thread is linked in the semaphore's list, and a
\* time-out is remembered only by a thread that has left it.
SemInv ==
  /\ waitSem = {t \in blocked : pc[t] = "sem"}
  /\ \A t \in timedOut : pc[t] = "sem" /\ t \notin blocked

SyncInv == SyncTypes /\ DeadlinesInv /\ SemInv /\ UnitsBalanced /\ ListsExact

\* Threads a post has woken that have not returned yet.
Served == {t \in Threads : pc[t] = "sem" /\ Runs(t) /\ t \notin timedOut}

LEMMA ThreadsFinite == IsFiniteSet(Threads) /\ None \notin Threads
BY SyncAssumption

LEMMA ServedFinite ==
  IsFiniteSet(Served) /\ Cardinality(Served) \in Nat /\ \A u \in Threads : u \notin Served =>
    Cardinality(Served \cup {u}) = Cardinality(Served) + 1
<1>1. IsFiniteSet(Served)
  BY ThreadsFinite, FS_Subset DEF Served
<1> QED BY <1>1, FS_CardinalityType, FS_AddElement

\* A step that leaves the semaphore, the mutex and the threads in their calls alone.
LEMMA Elsewhere ==
  ASSUME SyncInv, UNCHANGED <<waitSem, timedOut, sem, mutex, units>>,
         blocked' \subseteq Threads, wakeTick' \in [Threads -> Nat],
         \A u \in Threads : /\ pc'[u] = "sem" <=> pc[u] = "sem"
                            /\ pc'[u] = "lock" <=> pc[u] = "lock"
                            /\ pc[u] \in {"sem", "lock"} => (u \in blocked' <=> u \in blocked)
                            /\ wakeTick'[u] > 0 => u \in blocked' /\ pc[u] # "lock"
  PROVE  SyncInv'
<1>1. SyncTypes'
  BY DEF SyncInv, SyncTypes
<1>2. DeadlinesInv'
  BY DEF DeadlinesInv
<1>3. SemInv'
  <2>1. {t \in blocked : pc[t] = "sem"} = {t \in blocked' : pc'[t] = "sem"}
    BY DEF SyncInv, SyncTypes
  <2>2. \A t \in timedOut : pc'[t] = "sem" /\ t \notin blocked'
    BY DEF SyncInv, SyncTypes, SemInv
  <2> QED BY <2>1, <2>2 DEF SyncInv, SemInv
<1>4. UnitsBalanced'
  <2>1. {t \in Threads : pc[t] = "sem" /\ Runs(t) /\ t \notin timedOut}
        = {t \in Threads : pc'[t] = "sem" /\ Runs(t)' /\ t \notin timedOut'}
    BY DEF Runs
  <2> QED BY <2>1 DEF SyncInv, UnitsBalanced
<1>5. ListsExact'
  <2>1. {t \in blocked : pc[t] = "sem"} = {t \in blocked' : pc'[t] = "sem"}
    BY DEF SyncInv, SyncTypes
  <2>2. {t \in blocked : pc[t] = "lock"} = {t \in blocked' : pc'[t] = "lock"}
    BY DEF SyncInv, SyncTypes
  <2>3. \A t \in Threads : pc[t] = "lock" /\ Runs(t) => pc'[t] = "lock" /\ Runs(t)'
    BY DEF Runs
  <2> QED BY <2>1, <2>2, <2>3 DEF SyncInv, ListsExact
<1> QED BY <1>1, <1>2, <1>3, <1>4, <1>5 DEF SyncInv

\* thread_wake of threads that wait neither for the semaphore nor for the mutex.
LEMMA WakesElsewhere ==
  ASSUME SyncInv, NEW S, Wake(S), \A u \in S : u \in Threads => pc[u] \notin {"sem", "lock"},
         UNCHANGED <<waitSem, timedOut, sem, mutex, units>>,
         \A u \in Threads : (pc'[u] = "sem" <=> pc[u] = "sem") /\ (pc'[u] = "lock" <=> pc[u] = "lock")
  PROVE  SyncInv'
<1>1. blocked' = blocked \ S /\ wakeTick' = [t \in Threads |-> IF t \in S \cap blocked THEN 0 ELSE wakeTick[t]]
  BY DEF Wake
<1>2. blocked' \subseteq Threads /\ wakeTick' \in [Threads -> Nat]
  BY <1>1 DEF SyncInv, SyncTypes
<1>3. ASSUME NEW u \in Threads
      PROVE  /\ pc[u] \in {"sem", "lock"} => (u \in blocked' <=> u \in blocked)
             /\ wakeTick'[u] > 0 => u \in blocked' /\ pc[u] # "lock"
  BY <1>1 DEF SyncInv, DeadlinesInv
<1> QED BY <1>2, <1>3, Elsewhere

\* A call that blocks its caller, or none that blocks, outside the semaphore and the mutex.
LEMMA MovesElsewhere ==
  ASSUME RequestInv, SyncInv, UNCHANGED <<waitSem, timedOut, sem, mutex, units>>,
         NEW t \in Threads, pc[t] \notin {"sem", "lock"}, NEW c \in Places \ {"sem", "lock"},
         pc' = [pc EXCEPT ![t] = c],
         \/ UNCHANGED <<blocked, wakeTick>>
         \/ \E n \in Nat : blocked' = blocked \cup {t} /\ wakeTick' = [wakeTick EXCEPT ![t] = n]
         \/ UNCHANGED blocked /\ wakeTick' = [wakeTick EXCEPT ![t] = 0]
  PROVE  SyncInv'
<1>1. pc \in [Threads -> Places] /\ pc'[t] = c /\ \A u \in Threads \ {t} : pc'[u] = pc[u]
  BY DEF RequestInv, IoTypes
<1>2. \A u \in Threads : (pc'[u] = "sem" <=> pc[u] = "sem") /\ (pc'[u] = "lock" <=> pc[u] = "lock")
  BY <1>1
<1>3. blocked \subseteq Threads /\ wakeTick \in [Threads -> Nat]
  BY DEF SyncInv, SyncTypes
<1>4. /\ blocked' \subseteq Threads /\ wakeTick' \in [Threads -> Nat]
      /\ \A u \in Threads \ {t} : (u \in blocked' <=> u \in blocked) /\ wakeTick'[u] = wakeTick[u]
      /\ wakeTick'[t] > 0 => t \in blocked'
  <2>1. wakeTick[t] > 0 => t \in blocked
    BY DEF SyncInv, DeadlinesInv
  <2> QED BY <1>3, <2>1
<1>5. ASSUME NEW u \in Threads
      PROVE  /\ pc[u] \in {"sem", "lock"} => (u \in blocked' <=> u \in blocked)
             /\ wakeTick'[u] > 0 => u \in blocked' /\ pc[u] # "lock"
  <2>1. CASE u = t
    BY <1>4, <2>1
  <2>2. CASE u # t
    BY <1>4, <2>2 DEF SyncInv, DeadlinesInv
  <2> QED BY <2>1, <2>2
<1> QED BY <1>2, <1>4, <1>5, Elsewhere

\* deadline_after_ms is a number of ticks.
LEMMA TicksAreNat == Ticks \subseteq Nat
<1> SUFFICES ASSUME NEW ms \in Durations PROVE DeadlineAfterMs(ms) \in Nat
  BY DEF Ticks
<1>1. ms \in Nat /\ TickUs \in Nat /\ TickUs > 0
  BY SyncAssumption
<1>2. ms \div TickUs \in Nat /\ ms % TickUs \in Nat
  BY <1>1
<1>3. (ms % TickUs) * 1000 + TickUs - 1 \in Nat
  BY <1>1, <1>2
<1>4. ((ms % TickUs) * 1000 + TickUs - 1) \div TickUs \in Nat
  BY <1>1, <1>3
<1>5. (ms \div TickUs) * 1000 + ((ms % TickUs) * 1000 + TickUs - 1) \div TickUs \in Nat
  BY <1>2, <1>4
<1> QED BY <1>5 DEF DeadlineAfterMs

\* sem_wait_common: a unit at once, or the tail of the waiters.
LEMMA SemWaitKeeps ==
  ASSUME RequestInv, SyncInv, NEW t \in Threads, NEW n \in Nat, SemWait(t, n)
  PROVE  SyncInv'
<1>1. pc[t] = "out" /\ t \notin blocked /\ UNCHANGED mutex
  BY DEF SemWait, MayCall, Runs
<1>2. CASE sem.count > 0
  <2>1. sem' = [sem EXCEPT !.count = @ - 1] /\ units' = units - 1 /\ UNCHANGED threads
    BY <1>2 DEF SemWait
  <2>2. sem' \in [count : Nat, waiters : Seq(Threads)] /\ sem'.count = sem.count - 1 /\ sem'.waiters = sem.waiters
    <3>1. sem \in [count : Nat, waiters : Seq(Threads)]
      BY DEF SyncInv, SyncTypes
    <3>2. sem.count - 1 \in Nat
      BY <1>2, <3>1
    <3> QED BY <2>1, <3>1, <3>2
  <2>3. SyncTypes' /\ DeadlinesInv' /\ SemInv'
    BY <1>1, <2>1, <2>2 DEF SyncInv, SyncTypes, DeadlinesInv, SemInv, threads
  <2>4. UnitsBalanced'
    <3>1. Served' = Served
      BY <2>1 DEF Served, Runs, threads
    <3>2. units = sem.count + Cardinality(Served) /\ sem.waiters = <<>>
      BY <1>2 DEF SyncInv, UnitsBalanced, Served
    <3>3. units' = sem'.count + Cardinality(Served')
      BY <2>1, <2>2, <3>1, <3>2, ServedFinite DEF SyncInv, SyncTypes
    <3> QED BY <2>2, <3>2, <3>3 DEF UnitsBalanced, Served
  <2>5. ListsExact'
    BY <1>1, <2>1, <2>2 DEF SyncInv, ListsExact, threads, Runs
  <2> QED BY <2>3, <2>4, <2>5 DEF SyncInv
<1>3. CASE ~(sem.count > 0)
  <2>1. /\ sem' = [sem EXCEPT !.waiters = Append(@, t)]
        /\ waitSem' = waitSem \cup {t} /\ timedOut' = timedOut \ {t} /\ UNCHANGED units
        /\ pc' = [pc EXCEPT ![t] = "sem"] /\ blocked' = blocked \cup {t}
        /\ wakeTick' = [wakeTick EXCEPT ![t] = n]
    BY <1>3 DEF SemWait, Block
  <2>2. pc \in [Threads -> Places] /\ pc'[t] = "sem" /\ \A u \in Threads \ {t} : pc'[u] = pc[u]
    BY <2>1 DEF RequestInv, IoTypes
  <2>3. sem.waiters \in Seq(Threads) /\ sem.count \in Nat /\ t \notin ToSet(sem.waiters) /\ IsInjective(sem.waiters)
    BY <1>1 DEF SyncInv, SyncTypes, ListsExact
  <2>4. /\ Append(sem.waiters, t) \in Seq(Threads) /\ IsInjective(Append(sem.waiters, t))
        /\ ToSet(Append(sem.waiters, t)) = ToSet(sem.waiters) \cup {t}
    BY <2>3, AppendList
  <2>5. /\ sem' \in [count : Nat, waiters : Seq(Threads)] /\ sem'.count = sem.count
        /\ sem'.waiters = Append(sem.waiters, t)
    BY <2>1, <2>4 DEF SyncInv, SyncTypes
  <2>6. SyncTypes'
    BY <1>1, <2>1, <2>5 DEF SyncInv, SyncTypes
  <2>7. DeadlinesInv'
    BY <2>1, <2>2 DEF SyncInv, SyncTypes, DeadlinesInv
  <2>8. {u \in blocked' : pc'[u] = "sem"} = {u \in blocked : pc[u] = "sem"} \cup {t}
        /\ {u \in blocked' : pc'[u] = "lock"} = {u \in blocked : pc[u] = "lock"}
    BY <1>1, <2>1, <2>2 DEF SyncInv, SyncTypes
  <2>9. SemInv'
    BY <2>1, <2>2, <2>8 DEF SyncInv, SyncTypes, SemInv
  <2>10. UnitsBalanced'
    <3>1. Served' = Served
      BY <1>1, <2>1, <2>2 DEF Served, Runs
    <3>2. units = sem.count + Cardinality(Served)
      BY DEF SyncInv, UnitsBalanced, Served
    <3>3. units' = sem'.count + Cardinality(Served')
      BY <2>1, <2>5, <3>1, <3>2
    <3> QED BY <1>3, <2>5, <3>3 DEF UnitsBalanced, Served
  <2>11. ListsExact'
    <3>1. ToSet(sem'.waiters) = {u \in blocked' : pc'[u] = "sem"} /\ IsInjective(sem'.waiters)
      BY <2>4, <2>5, <2>8 DEF SyncInv, ListsExact
    <3>2. ToSet(mutex.waiters) = {u \in blocked' : pc'[u] = "lock"} /\ IsInjective(mutex.waiters)
      BY <2>8 DEF SyncInv, ListsExact
    <3>3. (mutex.owner = None /\ mutex.waiters # <<>>) => \E u \in Threads : pc'[u] = "lock" /\ Runs(u)'
      <4>1. \A u \in Threads : pc[u] = "lock" /\ Runs(u) => pc'[u] = "lock" /\ Runs(u)'
        BY <1>1, <2>1, <2>2 DEF Runs
      <4> QED BY <4>1 DEF SyncInv, ListsExact
    <3> QED BY <1>1, <3>1, <3>2, <3>3 DEF ListsExact
  <2> QED BY <2>6, <2>7, <2>9, <2>10, <2>11 DEF SyncInv
<1> QED BY <1>2, <1>3

\* ... and its end: a unit is taken unless the deadline came first.
LEMMA SemWaitReturnsKeeps ==
  ASSUME RequestInv, SyncInv, NEW t \in Threads, SemWaitReturns(t)
  PROVE  SyncInv'
<1>1. /\ pc[t] = "sem" /\ t \notin blocked /\ UNCHANGED <<blocked, wakeTick, waitSem, sem, mutex>>
      /\ units' = (IF t \in timedOut THEN units ELSE units - 1) /\ timedOut' = timedOut \ {t}
      /\ pc' = [pc EXCEPT ![t] = "out"]
  BY DEF SemWaitReturns, Runs, Returns
<1>2. pc \in [Threads -> Places] /\ pc'[t] = "out" /\ \A u \in Threads \ {t} : pc'[u] = pc[u]
  BY <1>1 DEF RequestInv, IoTypes
<1>3. SyncTypes'
  BY <1>1 DEF SyncInv, SyncTypes
<1>4. DeadlinesInv'
  BY <1>1, <1>2 DEF SyncInv, SyncTypes, DeadlinesInv
<1>5. {u \in blocked' : pc'[u] = "sem"} = {u \in blocked : pc[u] = "sem"}
      /\ {u \in blocked' : pc'[u] = "lock"} = {u \in blocked : pc[u] = "lock"}
  BY <1>1, <1>2 DEF SyncInv, SyncTypes
<1>6. SemInv'
  BY <1>1, <1>2, <1>5 DEF SyncInv, SyncTypes, SemInv
<1>7. UnitsBalanced'
  <2>1. Served' = Served \ {t}
    BY <1>1, <1>2 DEF Served, Runs
  <2>2. t \in Served <=> t \notin timedOut
    BY <1>1 DEF Served, Runs
  <2>3. IsFiniteSet(Served) /\ Cardinality(Served) \in Nat /\ units = sem.count + Cardinality(Served)
    BY ServedFinite DEF SyncInv, UnitsBalanced, Served
  <2>4. Cardinality(Served') = (IF t \in Served THEN Cardinality(Served) - 1 ELSE Cardinality(Served))
    BY <2>1, <2>3, FS_RemoveElement
  <2>5. units' = sem'.count + Cardinality(Served')
    BY <1>1, <2>2, <2>3, <2>4 DEF SyncInv, SyncTypes
  <2> QED BY <1>1, <2>5 DEF SyncInv, UnitsBalanced, Served
<1>8. ListsExact'
  <2>1. \A u \in Threads : pc[u] = "lock" /\ Runs(u) => pc'[u] = "lock" /\ Runs(u)'
    BY <1>1, <1>2 DEF Runs
  <2> QED BY <1>1, <1>5, <2>1 DEF SyncInv, ListsExact
<1> QED BY <1>3, <1>4, <1>6, <1>7, <1>8 DEF SyncInv

\* sem_post: the first waiter is served, or the count grows.
LEMMA SemPostKeeps ==
  ASSUME RequestInv, SyncInv, SemPost
  PROVE  SyncInv'
<1>1. units' = units + 1 /\ UNCHANGED <<pc, timedOut, mutex>>
  BY DEF SemPost
<1>2. CASE sem.waiters # <<>>
  <2> DEFINE h == Head(sem.waiters)
  <2>1. Wake({h}) /\ waitSem' = waitSem \ {h} /\ sem' = [sem EXCEPT !.waiters = Tail(@)]
    BY <1>2 DEF SemPost
  <2>2. sem.waiters \in Seq(Threads) /\ IsInjective(sem.waiters) /\ sem.count \in Nat
    BY DEF SyncInv, SyncTypes, ListsExact
  <2>3. /\ Tail(sem.waiters) \in Seq(Threads) /\ IsInjective(Tail(sem.waiters)) /\ h \in Threads
        /\ h \in ToSet(sem.waiters) /\ ToSet(Tail(sem.waiters)) = ToSet(sem.waiters) \ {h}
    BY <1>2, <2>2, TailList
  <2> HIDE DEF h
  <2>4. h \in blocked /\ pc[h] = "sem" /\ h \notin timedOut
    BY <2>3 DEF SyncInv, ListsExact, SemInv
  <2>5. /\ sem' \in [count : Nat, waiters : Seq(Threads)] /\ sem'.count = sem.count
        /\ sem'.waiters = Tail(sem.waiters)
    BY <2>1, <2>3 DEF SyncInv, SyncTypes
  <2>6. blocked' = blocked \ {h} /\ wakeTick' = [u \in Threads |-> IF u \in {h} \cap blocked THEN 0 ELSE wakeTick[u]]
    BY <2>1 DEF Wake
  <2>7. SyncTypes'
    <3>1. wakeTick' \in [Threads -> Nat]
      BY <2>6 DEF SyncInv, SyncTypes
    <3> QED BY <1>1, <2>1, <2>5, <2>6, <3>1 DEF SyncInv, SyncTypes
  <2>8. DeadlinesInv'
    BY <1>1, <2>4, <2>6 DEF SyncInv, DeadlinesInv
  <2>9. {u \in blocked' : pc'[u] = "sem"} = {u \in blocked : pc[u] = "sem"} \ {h}
        /\ {u \in blocked' : pc'[u] = "lock"} = {u \in blocked : pc[u] = "lock"}
    BY <1>1, <2>4, <2>6
  <2>10. SemInv'
    BY <1>1, <2>1, <2>6, <2>9 DEF SyncInv, SemInv
  <2>11. UnitsBalanced'
    <3>1. Served' = Served \cup {h} /\ h \notin Served
      BY <1>1, <2>3, <2>4, <2>6 DEF Served, Runs
    <3>2. units = sem.count + Cardinality(Served) /\ ~(sem.count > 0)
      BY <1>2 DEF SyncInv, UnitsBalanced, Served
    <3>3. Cardinality(Served') = Cardinality(Served) + 1 /\ Cardinality(Served) \in Nat
      BY <2>3, <3>1, ServedFinite
    <3>4. units' = sem'.count + Cardinality(Served')
      BY <1>1, <2>2, <2>5, <3>2, <3>3 DEF SyncInv, SyncTypes
    <3> QED BY <2>5, <3>2, <3>4 DEF UnitsBalanced, Served
  <2>12. ListsExact'
    <3>1. ToSet(sem'.waiters) = {u \in blocked' : pc'[u] = "sem"} /\ IsInjective(sem'.waiters)
      BY <2>3, <2>5, <2>9 DEF SyncInv, ListsExact
    <3>2. \A u \in Threads : pc[u] = "lock" /\ Runs(u) => pc'[u] = "lock" /\ Runs(u)'
      BY <1>1, <2>6 DEF Runs
    <3> QED BY <1>1, <2>9, <3>1, <3>2 DEF SyncInv, ListsExact
  <2> QED BY <2>7, <2>8, <2>10, <2>11, <2>12 DEF SyncInv
<1>3. CASE sem.waiters = <<>>
  <2>1. sem' = [sem EXCEPT !.count = @ + 1] /\ UNCHANGED <<blocked, wakeTick, waitSem>>
    BY <1>3 DEF SemPost
  <2>2. sem' \in [count : Nat, waiters : Seq(Threads)] /\ sem'.count = sem.count + 1 /\ sem'.waiters = sem.waiters
    <3>1. sem \in [count : Nat, waiters : Seq(Threads)]
      BY DEF SyncInv, SyncTypes
    <3>2. sem.count + 1 \in Nat
      BY <3>1
    <3> QED BY <2>1, <3>1, <3>2
  <2>3. SyncTypes' /\ DeadlinesInv' /\ SemInv'
    BY <1>1, <2>1, <2>2 DEF SyncInv, SyncTypes, DeadlinesInv, SemInv
  <2>4. UnitsBalanced'
    <3>1. Served' = Served
      BY <1>1, <2>1 DEF Served, Runs
    <3>2. units = sem.count + Cardinality(Served)
      BY DEF SyncInv, UnitsBalanced, Served
    <3>3. units' = sem'.count + Cardinality(Served')
      BY <1>1, <2>2, <3>1, <3>2, ServedFinite DEF SyncInv, SyncTypes
    <3> QED BY <1>3, <2>2, <3>3 DEF UnitsBalanced, Served
  <2>5. ListsExact'
    BY <1>1, <2>1, <2>2 DEF SyncInv, ListsExact, Runs
  <2> QED BY <2>3, <2>4, <2>5 DEF SyncInv
<1> QED BY <1>2, <1>3

\* mutex_lock: taken, or the tail of the waiters behind an owner.
LEMMA MutexLockKeeps ==
  ASSUME RequestInv, SyncInv, NEW t \in Threads, MutexLock(t)
  PROVE  SyncInv'
<1>1. /\ pc[t] \in {"out", "lock"} /\ t \notin blocked /\ mutex.owner # t
      /\ UNCHANGED <<waitSem, timedOut, sem, units>>
  BY DEF MutexLock, MayCall, Runs
<1>2. wakeTick[t] = 0 /\ pc \in [Threads -> Places]
  BY <1>1 DEF SyncInv, SyncTypes, DeadlinesInv, RequestInv, IoTypes
<1>3. CASE mutex.owner = None
  <2>1. mutex' = [mutex EXCEPT !.owner = t] /\ pc' = [pc EXCEPT ![t] = "out"] /\ UNCHANGED <<blocked, wakeTick>>
    BY <1>3 DEF MutexLock, Returns
  <2>2. /\ mutex' \in [owner : Threads \cup {None}, waiters : Seq(Threads)] /\ mutex'.owner = t
        /\ mutex'.waiters = mutex.waiters
    BY <2>1 DEF SyncInv, SyncTypes
  <2>3. pc'[t] = "out" /\ \A u \in Threads \ {t} : pc'[u] = pc[u]
    BY <1>2, <2>1
  <2>4. {u \in blocked' : pc'[u] = "sem"} = {u \in blocked : pc[u] = "sem"}
        /\ {u \in blocked' : pc'[u] = "lock"} = {u \in blocked : pc[u] = "lock"}
    BY <1>1, <2>1, <2>3 DEF SyncInv, SyncTypes
  <2>5. SyncTypes' /\ DeadlinesInv'
    BY <1>1, <1>2, <2>1, <2>2, <2>3 DEF SyncInv, SyncTypes, DeadlinesInv
  <2>6. SemInv'
    BY <1>1, <2>1, <2>3, <2>4 DEF SyncInv, SyncTypes, SemInv
  <2>7. UnitsBalanced'
    <3>1. Served' = Served
      BY <1>1, <2>1, <2>3 DEF Served, Runs
    <3> QED BY <1>1, <3>1 DEF SyncInv, UnitsBalanced, Served
  <2>8. ListsExact'
    BY <1>1, <2>2, <2>4, ThreadsFinite DEF SyncInv, ListsExact
  <2> QED BY <2>5, <2>6, <2>7, <2>8 DEF SyncInv
<1>4. CASE mutex.owner # None
  <2>1. /\ mutex' = [mutex EXCEPT !.waiters = Append(@, t)] /\ pc' = [pc EXCEPT ![t] = "lock"]
        /\ blocked' = blocked \cup {t} /\ wakeTick' = [wakeTick EXCEPT ![t] = wakeTick[t]]
    BY <1>4 DEF MutexLock, Block
  <2>2. mutex.waiters \in Seq(Threads) /\ t \notin ToSet(mutex.waiters) /\ IsInjective(mutex.waiters)
    BY <1>1 DEF SyncInv, SyncTypes, ListsExact
  <2>3. /\ Append(mutex.waiters, t) \in Seq(Threads) /\ IsInjective(Append(mutex.waiters, t))
        /\ ToSet(Append(mutex.waiters, t)) = ToSet(mutex.waiters) \cup {t}
    BY <2>2, AppendList
  <2>4. /\ mutex' \in [owner : Threads \cup {None}, waiters : Seq(Threads)] /\ mutex'.owner = mutex.owner
        /\ mutex'.waiters = Append(mutex.waiters, t)
    BY <2>1, <2>3 DEF SyncInv, SyncTypes
  <2>5. pc'[t] = "lock" /\ \A u \in Threads \ {t} : pc'[u] = pc[u]
    BY <1>2, <2>1
  <2>6. wakeTick' = wakeTick
    BY <2>1 DEF SyncInv, SyncTypes
  <2>7. {u \in blocked' : pc'[u] = "sem"} = {u \in blocked : pc[u] = "sem"}
        /\ {u \in blocked' : pc'[u] = "lock"} = {u \in blocked : pc[u] = "lock"} \cup {t}
    BY <1>1, <2>1, <2>5 DEF SyncInv, SyncTypes
  <2>8. SyncTypes' /\ DeadlinesInv'
    BY <1>1, <1>2, <2>1, <2>4, <2>5, <2>6 DEF SyncInv, SyncTypes, DeadlinesInv
  <2>9. SemInv'
    <3>1. \A u \in timedOut : u # t \/ pc[u] = "sem"
      BY DEF SyncInv, SemInv
    <3> QED BY <1>1, <2>1, <2>5, <2>7, <3>1 DEF SyncInv, SyncTypes, SemInv
  <2>10. UnitsBalanced'
    <3>1. Served' = Served
      BY <1>1, <2>1, <2>5 DEF Served, Runs
    <3> QED BY <1>1, <3>1 DEF SyncInv, UnitsBalanced, Served
  <2>11. ListsExact'
    BY <1>1, <1>4, <2>3, <2>4, <2>7 DEF SyncInv, ListsExact
  <2> QED BY <2>8, <2>9, <2>10, <2>11 DEF SyncInv
<1> QED BY <1>3, <1>4

\* mutex_unlock: free, and the first waiter is about to retry.
LEMMA MutexUnlockKeeps ==
  ASSUME RequestInv, SyncInv, NEW t \in Threads, MutexUnlock(t)
  PROVE  SyncInv'
<1>1. UNCHANGED <<pc, wakeTick, waitSem, timedOut, sem, units>>
  BY DEF MutexUnlock
<1>2. CASE mutex.waiters = <<>>
  <2>1. mutex' = [owner |-> None, waiters |-> <<>>] /\ blocked' = blocked
    BY <1>2 DEF MutexUnlock
  <2>2. mutex' \in [owner : Threads \cup {None}, waiters : Seq(Threads)] /\ mutex'.waiters = mutex.waiters
    BY <1>2, <2>1
  <2>3. SyncTypes' /\ DeadlinesInv' /\ SemInv'
    BY <1>1, <2>1, <2>2 DEF SyncInv, SyncTypes, DeadlinesInv, SemInv
  <2>4. UnitsBalanced'
    BY <1>1, <2>1 DEF SyncInv, UnitsBalanced, Runs
  <2>5. ListsExact'
    BY <1>1, <1>2, <2>1, <2>2 DEF SyncInv, ListsExact
  <2> QED BY <2>3, <2>4, <2>5 DEF SyncInv
<1>3. CASE mutex.waiters # <<>>
  <2> DEFINE h == Head(mutex.waiters)
  <2>1. mutex' = [owner |-> None, waiters |-> Tail(mutex.waiters)] /\ blocked' = blocked \ {h}
    BY <1>3 DEF MutexUnlock
  <2>2. mutex.waiters \in Seq(Threads) /\ IsInjective(mutex.waiters)
    BY DEF SyncInv, SyncTypes, ListsExact
  <2>3. /\ Tail(mutex.waiters) \in Seq(Threads) /\ IsInjective(Tail(mutex.waiters)) /\ h \in Threads
        /\ h \in ToSet(mutex.waiters) /\ ToSet(Tail(mutex.waiters)) = ToSet(mutex.waiters) \ {h}
    BY <1>3, <2>2, TailList
  <2> HIDE DEF h
  <2>4. h \in blocked /\ pc[h] = "lock"
    BY <2>3 DEF SyncInv, ListsExact
  <2>5. mutex' \in [owner : Threads \cup {None}, waiters : Seq(Threads)] /\ mutex'.waiters = Tail(mutex.waiters)
    BY <2>1, <2>3
  <2>6. {u \in blocked' : pc'[u] = "sem"} = {u \in blocked : pc[u] = "sem"}
        /\ {u \in blocked' : pc'[u] = "lock"} = {u \in blocked : pc[u] = "lock"} \ {h}
    BY <1>1, <2>1, <2>4
  <2>7. SyncTypes' /\ DeadlinesInv' /\ SemInv'
    BY <1>1, <2>1, <2>4, <2>5, <2>6 DEF SyncInv, SyncTypes, DeadlinesInv, SemInv
  <2>8. UnitsBalanced'
    <3>1. Served' = Served
      BY <1>1, <2>1, <2>4 DEF Served, Runs
    <3> QED BY <1>1, <3>1 DEF SyncInv, UnitsBalanced, Served
  <2>9. ListsExact'
    <3>1. h \notin blocked'
      BY <2>1
    <3>2. \E u \in Threads : pc'[u] = "lock" /\ Runs(u)'
      BY <1>1, <2>3, <2>4, <3>1 DEF Runs
    <3>3. ToSet(sem'.waiters) = {u \in blocked' : pc'[u] = "sem"} /\ IsInjective(sem'.waiters)
      BY <1>1, <2>6 DEF SyncInv, ListsExact
    <3>4. ToSet(mutex'.waiters) = {u \in blocked' : pc'[u] = "lock"} /\ IsInjective(mutex'.waiters)
      BY <2>3, <2>5, <2>6 DEF SyncInv, ListsExact
    <3> QED BY <3>2, <3>3, <3>4 DEF ListsExact
  <2> QED BY <2>7, <2>8, <2>9 DEF SyncInv
<1> QED BY <1>2, <1>3

\* sched_tick: a time-out takes its thread off the semaphore's list; neither it nor
\* the sweep wakes a thread that is linked in the mutex.
LEMMA TickKeeps ==
  ASSUME RequestInv, SyncInv, Tick(Waiting)
  PROVE  SyncInv'
<1> DEFINE expired == {u \in blocked : wakeTick[u] = 1}
           swept == (killed \cap Interruptible(Waiting)) \ expired
<1>1. /\ blocked' = blocked \ (expired \cup swept)
      /\ wakeTick' = [u \in Threads |-> IF u \in expired \cup swept THEN 0
                                       ELSE IF wakeTick[u] > 1 THEN wakeTick[u] - 1 ELSE wakeTick[u]]
      /\ sem' = [sem EXCEPT !.waiters = Unlinked(@, expired)]
      /\ timedOut' = timedOut \cup (expired \cap waitSem)
      /\ waitSem' = waitSem \ expired
      /\ UNCHANGED <<pc, mutex, units>>
  BY DEF Tick
<1>2. blocked \subseteq Threads /\ wakeTick \in [Threads -> Nat] /\ waitSem = {u \in blocked : pc[u] = "sem"}
  BY DEF SyncInv, SyncTypes, SemInv
<1>3. /\ expired \subseteq blocked /\ \A u \in expired : pc[u] # "lock"
      /\ swept \subseteq blocked /\ \A u \in swept : pc[u] \notin {"sem", "lock"}
  <2>1. \A u \in expired : u \in Threads /\ wakeTick[u] > 0
    BY <1>2
  <2>2. \A u \in expired : pc[u] # "lock"
    BY <2>1 DEF SyncInv, DeadlinesInv
  <2>3. \A u \in swept : u \in blocked /\ (pc[u] \in Waiting \/ (u \notin waitSem /\ wakeTick[u] > 0))
    BY DEF Interruptible
  <2>4. \A u \in swept : pc[u] \notin {"sem", "lock"}
    <3> HIDE DEF swept
    <3> QED BY <1>2, <2>3 DEF SyncInv, DeadlinesInv, Waiting
  <2> QED BY <2>2, <2>3, <2>4
<1> HIDE DEF swept
<1>4. sem.waiters \in Seq(Threads) /\ IsInjective(sem.waiters)
  BY DEF SyncInv, SyncTypes, ListsExact
<1>5. /\ Unlinked(sem.waiters, expired) \in Seq(Threads) /\ IsInjective(Unlinked(sem.waiters, expired))
      /\ ToSet(Unlinked(sem.waiters, expired)) = ToSet(sem.waiters) \ expired
  BY <1>4, UnlinkedFacts
<1>6. /\ sem' \in [count : Nat, waiters : Seq(Threads)] /\ sem'.count = sem.count
      /\ sem'.waiters = Unlinked(sem.waiters, expired)
  BY <1>1, <1>5 DEF SyncInv, SyncTypes
<1>7. SyncTypes'
  <2>1. wakeTick' \in [Threads -> Nat]
    BY <1>1, <1>2
  <2> QED BY <1>1, <1>6, <2>1 DEF SyncInv, SyncTypes
<1>8. DeadlinesInv'
  <2> SUFFICES ASSUME NEW u \in Threads, wakeTick'[u] > 0 PROVE u \in blocked' /\ pc[u] # "lock"
    BY <1>1 DEF DeadlinesInv
  <2>1. u \notin expired /\ u \notin swept /\ wakeTick[u] > 0
    BY <1>1, <1>2
  <2> QED BY <1>1, <2>1 DEF SyncInv, DeadlinesInv
<1>9. {u \in blocked' : pc'[u] = "sem"} = {u \in blocked : pc[u] = "sem"} \ expired
      /\ {u \in blocked' : pc'[u] = "lock"} = {u \in blocked : pc[u] = "lock"}
  BY <1>1, <1>3
<1>10. SemInv'
  <2>1. \A u \in timedOut' : pc[u] = "sem" /\ u \notin blocked'
    BY <1>1, <1>2 DEF SyncInv, SemInv
  <2> QED BY <1>1, <1>2, <1>9, <2>1 DEF SemInv
<1>11. UnitsBalanced'
  <2>1. ASSUME NEW u \in Threads
        PROVE  u \in Served' <=> u \in Served
    <3>1. CASE pc[u] = "sem"
      <4>1. u \notin swept
        BY <1>3, <3>1
      <4>2. u \in expired => u \in waitSem
        BY <1>2, <1>3, <3>1
      <4> QED BY <1>1, <1>3, <3>1, <4>1, <4>2 DEF Served, Runs
    <3>2. CASE pc[u] # "sem"
      BY <1>1, <3>2 DEF Served
    <3> QED BY <3>1, <3>2
  <2>2. Served' = Served
    BY <2>1 DEF Served
  <2>3. ASSUME sem.waiters = <<>> PROVE sem'.waiters = <<>>
    <3>1. ToSet(sem.waiters) = {}
      BY <2>3 DEF ToSet
    <3>2. ToSet(sem'.waiters) = {} /\ sem'.waiters \in Seq(Threads)
      BY <1>5, <1>6, <3>1
    <3> QED BY <3>2, NobodyListed
  <2> QED BY <1>1, <1>6, <2>2, <2>3 DEF SyncInv, UnitsBalanced, Served
<1>12. ListsExact'
  <2>1. \A u \in Threads : pc[u] = "lock" /\ Runs(u) => pc'[u] = "lock" /\ Runs(u)'
    BY <1>1 DEF Runs
  <2> QED BY <1>1, <1>5, <1>6, <1>9, <2>1 DEF SyncInv, ListsExact
<1> QED BY <1>7, <1>8, <1>10, <1>11, <1>12 DEF SyncInv

\* Sleep and its end, the semaphore, the mutex, termination and the tick.
LEMMA SyncStepsKeep ==
  ASSUME RequestInv, SyncInv,
         \/ OnSemPost \/ OnTick
         \/ \E t \in Threads : \/ OnSleep(t) \/ OnSleepReturns(t) \/ OnSemWait(t) \/ OnSemWaitReturns(t)
                               \/ OnMutexLock(t) \/ OnMutexUnlock(t) \/ OnKill(t)
  PROVE  SyncInv'
<1>1. ASSUME NEW t \in Threads, OnSleep(t) PROVE SyncInv'
  <2>1. PICK n \in Ticks : Sleep(t, n)
    BY <1>1 DEF OnSleep
  <2>2. n \in Nat
    BY TicksAreNat
  <2>3. /\ pc[t] = "out" /\ pc' = [pc EXCEPT ![t] = "sleep"] /\ blocked' = blocked \cup {t}
        /\ wakeTick' = [wakeTick EXCEPT ![t] = n] /\ UNCHANGED <<waitSem, timedOut, sem, mutex, units>>
    BY <2>1 DEF Sleep, MayCall, Block, sync
  <2> QED BY <2>2, <2>3, MovesElsewhere DEF Places
<1>2. ASSUME NEW t \in Threads, OnSleepReturns(t) PROVE SyncInv'
  <2>1. /\ pc[t] = "sleep" /\ pc' = [pc EXCEPT ![t] = "out"]
        /\ UNCHANGED <<blocked, wakeTick, waitSem, timedOut, sem, mutex, units>>
    BY <1>2 DEF OnSleepReturns, SleepReturns, Returns, sync
  <2> QED BY <2>1, MovesElsewhere DEF Places
<1>3. ASSUME NEW t \in Threads, OnSemWait(t) PROVE SyncInv'
  BY <1>3, TicksAreNat, SemWaitKeeps DEF OnSemWait
<1>4. ASSUME NEW t \in Threads, OnKill(t) PROVE SyncInv'
  <2> DEFINE S == {t} \cap Interruptible(Waiting)
  <2>1. Wake(S) /\ UNCHANGED <<pc, waitSem, timedOut, sem, mutex, units>>
    BY <1>4 DEF OnKill, Kill, sync
  <2>2. \A u \in S : u \in Threads => pc[u] \notin {"sem", "lock"}
    BY DEF SyncInv, SemInv, DeadlinesInv, Interruptible, Waiting
  <2> HIDE DEF S
  <2> QED BY <2>1, <2>2, WakesElsewhere
<1> QED BY <1>1, <1>2, <1>3, <1>4, SemWaitReturnsKeeps, SemPostKeeps, MutexLockKeeps, MutexUnlockKeeps, TickKeeps
        DEF OnSemWaitReturns, OnSemPost, OnMutexLock, OnMutexUnlock, OnTick

-----------------------------------------------------------------------------
(* The port and the issuers that wait: what NoMissedCompletion relies on. *)

\* irp->thread names the issuer that a completion has to wake, and only a
\* synchronous request has one that sleeps.
IssuerInv ==
  \A t \in Threads : /\ issued[t] # None /\ irp[issued[t]].kind = "sync" => irp[issued[t]].thread = t
                     /\ pc[t] = "irp" => irp[issued[t]].kind = "sync"

\* The first half of NoMissedCompletion: the issuers.
IssuersAwake == \A t \in blocked : pc[t] = "irp" => ~ irp[issued[t]].completed

\* The second half, with the types: the port's waiters.
PortInv ==
  /\ port \in [packets : Seq(Requests), waiters : Seq(Threads), closed : BOOLEAN]
  /\ got \in [Threads -> Requests \cup {None}]
  /\ \A t \in blocked : pc[t] = "port" => port.packets = <<>> /\ ~ port.closed /\ got[t] = None
  /\ IsInjective(port.waiters)
  /\ \A t \in Threads :
       /\ t \in ToSet(port.waiters) => pc[t] = "port" /\ got[t] = None
       /\ (t \in blocked /\ pc[t] = "port") => t \in ToSet(port.waiters)
       /\ got[t] # None => pc[t] = "port"

WaitInv == RequestInv /\ SyncInv /\ IssuerInv /\ IssuersAwake /\ PortInv

\* A step that touches neither the port nor a thread in port_remove, except to wake it.
LEMMA PortAside ==
  ASSUME PortInv, SyncInv, UNCHANGED <<port, got>>, SyncInv',
         \A u \in Threads : /\ pc'[u] = "port" <=> pc[u] = "port"
                            /\ pc[u] = "port" /\ u \in blocked' => u \in blocked
  PROVE  PortInv'
<1>1. blocked' \subseteq Threads
  BY DEF SyncInv, SyncTypes
<1> QED BY <1>1 DEF PortInv

\* A step after which whoever still has a request in hand has the same one, with the
\* same kind and thread, and sleeps only if it slept before.
LEMMA IssuersAside ==
  ASSUME RequestInv, RequestInv', SyncInv', IssuerInv, IssuersAwake,
         \A u \in Threads :
           /\ issued'[u] # None =>
                /\ issued'[u] = issued[u] /\ irp'[issued[u]].kind = irp[issued[u]].kind
                /\ irp'[issued[u]].thread = irp[issued[u]].thread
           /\ pc'[u] = "irp" => pc[u] = "irp"
           /\ pc'[u] = "irp" /\ u \in blocked' =>
                u \in blocked /\ (irp'[issued[u]].completed => irp[issued[u]].completed)
  PROVE  IssuerInv' /\ IssuersAwake'
<1>1. \A u \in Threads : pc'[u] = "irp" => issued'[u] # None
  BY DEF RequestInv, HandsInv, Issuing
<1>2. blocked' \subseteq Threads
  BY DEF SyncInv, SyncTypes
<1>3. IssuerInv'
  BY <1>1 DEF IssuerInv
<1>4. IssuersAwake'
  BY <1>1, <1>2 DEF IssuersAwake
<1> QED BY <1>3, <1>4

\* A request that somebody has in hand is not freed.
LEMMA IssuedIsKept ==
  ASSUME RequestInv', NEW t \in Threads, NEW i \in Requests, NEW r,
         issued'[t] = i, irp'[i] = Kept(r)
  PROVE  irp'[i] = r
<1>1. HasIssuer(i)'
  BY DEF HasIssuer
<1>2. Good(irp'[i], HasIssuer(i)')
  BY DEF RequestInv, RecordInv
<1>3. irp'[i].refs > 0
  BY <1>1, <1>2 DEF Good, Live
<1>4. irp'[i] # Unused
  BY <1>3, UnusedIsFree
<1> QED BY <1>4 DEF Kept

\* The thread a completion wakes is the one that waits in irp_finish.
LEMMA WokenIsIssuer ==
  ASSUME RequestInv, IssuerInv, NEW i \in Requests, Live(irp[i], HasIssuer(i)),
         irp[i].kind = "sync"
  PROVE  \A u \in Threads : irp[i].thread = u => pc[u] \in Issuing
<1>1. PICK v \in Threads : issued[v] = i
  BY DEF Live, HasIssuer
<1>2. issued[v] # None /\ irp[i].thread = v
  BY <1>1, KindTypes DEF IssuerInv
<1> QED BY <1>2 DEF RequestInv, HandsInv

\* irp_complete and iocp_post: the packet goes to the newest waiter, which leaves the
\* list and wakes, or to the queue when nobody waits.
LEMMA CompletionKeepsPort ==
  ASSUME WaitInv, NEW i \in Requests, NEW r, NEW st, NEW after, IrpComplete(i, r, st, after),
         ~ r.pended \/ (r = irp[i] /\ Live(irp[i], HasIssuer(i))),
         UNCHANGED <<waitSem, timedOut, sem, mutex, units>>,
         \A u \in Threads : /\ pc'[u] = "sem" <=> pc[u] = "sem"
                            /\ pc'[u] = "lock" <=> pc[u] = "lock"
                            /\ pc'[u] = "port" <=> pc[u] = "port"
  PROVE  SyncInv' /\ PortInv'
<1> DEFINE posts == Tells(r, st) /\ r.kind \in {"packet", "skip"}
           taker == IF posts /\ port.waiters # <<>> THEN {Head(port.waiters)} ELSE {}
           issuer == {t \in Threads : r.kind = "sync" /\ r.pended /\ r.thread = t}
<1>1. /\ port' = IF ~posts THEN port
                 ELSE IF taker = {} THEN [port EXCEPT !.packets = Append(@, i)]
                 ELSE [port EXCEPT !.waiters = Tail(@)]
      /\ got' = [t \in Threads |-> IF t \in taker THEN i ELSE got[t]]
      /\ Wake(taker \cup issuer)
  BY Zenon DEF IrpComplete
<1>2. /\ port \in [packets : Seq(Requests), waiters : Seq(Threads), closed : BOOLEAN]
      /\ got \in [Threads -> Requests \cup {None}] /\ IsInjective(port.waiters)
      /\ port.waiters \in Seq(Threads) /\ port.packets \in Seq(Requests)
  BY DEF WaitInv, PortInv
<1>3. port.waiters # <<>> =>
        /\ Tail(port.waiters) \in Seq(Threads) /\ IsInjective(Tail(port.waiters))
        /\ Head(port.waiters) \in Threads /\ Head(port.waiters) \in ToSet(port.waiters)
        /\ ToSet(Tail(port.waiters)) = ToSet(port.waiters) \ {Head(port.waiters)}
  BY <1>2, TailList
<1>4. \A u \in taker : u \in Threads /\ u \in ToSet(port.waiters) /\ pc[u] = "port"
  BY <1>3 DEF WaitInv, PortInv
<1>5. \A u \in issuer : pc[u] \in Issuing
  <2> SUFFICES ASSUME NEW u \in issuer PROVE pc[u] \in Issuing
    OBVIOUS
  <2>1. u \in Threads /\ r.kind = "sync" /\ r.pended /\ r.thread = u
    OBVIOUS
  <2> HIDE DEF issuer, taker, posts
  <2>2. r = irp[i] /\ Live(irp[i], HasIssuer(i))
    BY <2>1
  <2> QED BY <2>1, <2>2, WokenIsIssuer DEF WaitInv
<1> HIDE DEF issuer
<1>6. SyncInv'
  <2> DEFINE S == taker \cup issuer
  <2>1. Wake(S) /\ \A u \in S : u \in Threads => pc[u] \notin {"sem", "lock"}
    BY <1>1, <1>4, <1>5 DEF Issuing
  <2> HIDE DEF S
  <2> QED BY <2>1, WakesElsewhere DEF WaitInv
<1>7. blocked' = blocked \ (taker \cup issuer) /\ blocked \subseteq Threads
  BY <1>1 DEF Wake, WaitInv, SyncInv, SyncTypes
<1>8. CASE ~ posts
  <2>1. taker = {}
    BY <1>8
  <2> HIDE DEF taker, posts
  <2>2. port' = port
    BY <1>1, <1>8
  <2>3. got' = got
    BY <1>1, <1>2, <2>1
  <2> QED BY <1>6, <1>7, <2>1, <2>2, <2>3, PortAside DEF WaitInv
<1>9. CASE posts /\ port.waiters = <<>>
  <2>1. taker = {} /\ port' = [port EXCEPT !.packets = Append(@, i)]
    BY <1>1, <1>9
  <2> HIDE DEF taker, posts
  <2>2. /\ port' \in [packets : Seq(Requests), waiters : Seq(Threads), closed : BOOLEAN]
        /\ port'.waiters = port.waiters
    <3>1. Append(port.packets, i) \in Seq(Requests)
      BY <1>2
    <3> QED BY <1>2, <2>1, <3>1
  <2>3. \A t \in Threads : ~ (t \in blocked /\ pc[t] = "port")
    <3>1. ToSet(port.waiters) = {}
      BY <1>9 DEF ToSet
    <3> QED BY <3>1 DEF WaitInv, PortInv
  <2>4. \A t \in blocked' : pc'[t] # "port"
    BY <1>7, <2>3
  <2>5. got' = got
    BY <1>1, <1>2, <2>1
  <2>6. \A t \in Threads : t \notin blocked \/ pc[t] # "port"
    BY <2>3
  <2>7. \A t \in Threads :
          /\ t \in ToSet(port'.waiters) => pc'[t] = "port" /\ got'[t] = None
          /\ (t \in blocked' /\ pc'[t] = "port") => t \in ToSet(port'.waiters)
          /\ got'[t] # None => pc'[t] = "port"
    BY <1>7, <2>2, <2>5, <2>6 DEF WaitInv, PortInv
  <2> QED BY <1>2, <1>6, <2>2, <2>4, <2>5, <2>7 DEF PortInv
<1>10. CASE posts /\ port.waiters # <<>>
  <2> DEFINE h == Head(port.waiters)
  <2>1. taker = {h} /\ port' = [port EXCEPT !.waiters = Tail(@)]
    BY <1>1, <1>10
  <2>2. got' = [t \in Threads |-> IF t = h THEN i ELSE got[t]]
    BY <1>1, <2>1
  <2> HIDE DEF taker, posts
  <2>3. /\ port' \in [packets : Seq(Requests), waiters : Seq(Threads), closed : BOOLEAN]
        /\ port'.waiters = Tail(port.waiters) /\ port'.packets = port.packets /\ port'.closed = port.closed
    BY <1>2, <1>3, <1>10, <2>1
  <2>4. h \in Threads /\ pc[h] = "port" /\ h \notin blocked'
    BY <1>4, <1>7, <2>1
  <2>5. got' \in [Threads -> Requests \cup {None}]
    BY <1>2, <2>2
  <2>6. ToSet(port'.waiters) = ToSet(port.waiters) \ {h} /\ IsInjective(port'.waiters)
    BY <1>3, <1>10, <2>3
  <2> HIDE DEF h
  <2>7. ASSUME NEW t \in blocked', pc'[t] = "port"
        PROVE  port'.packets = <<>> /\ ~ port'.closed /\ got'[t] = None
    <3>1. t \in blocked /\ t \in Threads /\ t # h /\ pc[t] = "port"
      BY <1>7, <2>4, <2>7
    <3> QED BY <2>2, <2>3, <3>1 DEF WaitInv, PortInv
  <2>8. ASSUME NEW t \in Threads
        PROVE  /\ t \in ToSet(port'.waiters) => pc'[t] = "port" /\ got'[t] = None
               /\ (t \in blocked' /\ pc'[t] = "port") => t \in ToSet(port'.waiters)
               /\ got'[t] # None => pc'[t] = "port"
    BY <1>7, <2>2, <2>4, <2>6 DEF WaitInv, PortInv
  <2>9. \A t \in blocked' : pc'[t] = "port" => port'.packets = <<>> /\ ~ port'.closed /\ got'[t] = None
    BY <2>7
  <2>10. \A t \in Threads :
           /\ t \in ToSet(port'.waiters) => pc'[t] = "port" /\ got'[t] = None
           /\ (t \in blocked' /\ pc'[t] = "port") => t \in ToSet(port'.waiters)
           /\ got'[t] # None => pc'[t] = "port"
    BY <2>8
  <2> QED BY <1>6, <2>3, <2>5, <2>6, <2>9, <2>10 DEF PortInv
<1> QED BY <1>6, <1>8, <1>9, <1>10

\* A completion of a pending request never leaves its issuer asleep.
LEMMA CompletionWakesIssuer ==
  ASSUME WaitInv, RequestInv', SyncInv', NEW i \in Requests, NEW st, NEW c,
         Live(irp[i], HasIssuer(i)), c = Completed(irp[i], st), IrpComplete(i, irp[i], st, c),
         UNCHANGED issued, \A u \in Threads : pc'[u] = "irp" <=> pc[u] = "irp"
  PROVE  IssuerInv' /\ IssuersAwake'
<1>1. irp' = [irp EXCEPT ![i] = Kept(c)]
  BY DEF IrpComplete
<1>2. irp \in [Requests -> Recs] /\ issued \in [Threads -> Requests \cup {None}] /\ irp[i] \in Recs
  BY DEF WaitInv, RequestInv, IoTypes
<1>3. c.kind = irp[i].kind /\ c.thread = irp[i].thread
  BY <1>2 DEF Completed, Recs
<1>4. ASSUME NEW u \in Threads, issued[u] # None
      PROVE  irp'[issued[u]].kind = irp[issued[u]].kind /\ irp'[issued[u]].thread = irp[issued[u]].thread
  <2>1. CASE issued[u] = i
    <3>1. irp'[i] = Kept(c)
      BY <1>1, <1>2
    <3>2. irp'[i] = c
      BY <2>1, <3>1, IssuedIsKept
    <3> QED BY <1>3, <2>1, <3>2
  <2>2. CASE issued[u] # i
    BY <1>1, <1>2, <2>2
  <2> QED BY <2>1, <2>2
<1>5. ASSUME NEW u \in Threads, pc[u] = "irp", u \in blocked'
      PROVE  u \in blocked /\ issued[u] # i /\ issued[u] \in Requests
  <2>1. issued[u] \in Requests /\ irp[issued[u]].kind = "sync" /\ irp[issued[u]].thread = u
    BY <1>2, <1>5 DEF WaitInv, RequestInv, HandsInv, Issuing, IssuerInv
  <2>2. u \in blocked
    BY <1>5 DEF IrpComplete, Wake
  <2>3. ASSUME issued[u] = i PROVE FALSE
    <3>1. irp[i].kind = "sync" /\ irp[i].pended /\ irp[i].thread = u
      BY <2>1, <2>3 DEF Live
    <3>2. u \in {t \in Threads : irp[i].kind = "sync" /\ irp[i].pended /\ irp[i].thread = t}
      BY <3>1
    <3> QED BY <1>5, <3>2 DEF IrpComplete, Wake
  <2> QED BY <2>1, <2>2, <2>3
<1>6. \A u \in Threads : pc[u] = "irp" /\ u \in blocked' => irp'[issued[u]] = irp[issued[u]]
  BY <1>1, <1>2, <1>5
<1> QED BY <1>4, <1>5, <1>6, IssuersAside DEF WaitInv

-----------------------------------------------------------------------------
(* One lemma for each group of operations. *)

\* SubSeq drops packets from the front of the queue.
LEMMA PacketsTaken ==
  ASSUME NEW X, NEW s \in Seq(X), NEW m \in Nat \ {0}
  PROVE  SubSeq(s, m, Len(s)) \in Seq(X) /\ (s = <<>> => SubSeq(s, m, Len(s)) = <<>>)
<1>1. Len(s) \in Nat /\ \A j \in 1 .. Len(s) : s[j] \in X
  OBVIOUS
<1>2. SubSeq(s, m, Len(s)) \in Seq(X)
  OBVIOUS
<1>3. ASSUME s = <<>> PROVE SubSeq(s, m, Len(s)) = <<>>
  <2>1. Len(s) = 0
    BY <1>3
  <2>2. Len(SubSeq(s, m, Len(s))) = 0
    BY <2>1
  <2> QED BY <1>2, <2>2
<1> QED BY <1>2, <1>3

\* Requests and the port stay as they are while threads sleep, lock and post.
LEMMA SyncKeepsWaits ==
  ASSUME WaitInv, RequestInv', SyncInv',
         \/ OnSemPost \/ OnTick
         \/ \E t \in Threads : \/ OnSleep(t) \/ OnSleepReturns(t) \/ OnSemWait(t) \/ OnSemWaitReturns(t)
                               \/ OnMutexLock(t) \/ OnMutexUnlock(t) \/ OnKill(t)
  PROVE  IssuerInv' /\ IssuersAwake' /\ PortInv'
<1>1. UNCHANGED <<irp, issued, accepting, port, got>>
  BY DEF OnSemPost, OnTick, OnSleep, OnSleepReturns, OnSemWait, OnSemWaitReturns, OnMutexLock, OnMutexUnlock,
         OnKill, ivars
<1>2. \A u \in Threads : pc[u] \in {"irp", "port"} \/ pc'[u] \in {"irp", "port"} =>
                            pc'[u] = pc[u] /\ (u \in blocked' => u \in blocked)
  <2>0. pc \in [Threads -> Places] /\ blocked \subseteq Threads
    BY DEF WaitInv, RequestInv, IoTypes, SyncInv, SyncTypes
  <2>1. ASSUME OnSemPost \/ OnTick \/ (\E t \in Threads : OnMutexUnlock(t) \/ OnKill(t))
        PROVE  pc' = pc /\ blocked' \subseteq blocked
    BY <2>1 DEF OnSemPost, OnTick, OnMutexUnlock, OnKill, SemPost, Tick, MutexUnlock, Kill, Wake
  <2>2. ASSUME NEW t \in Threads, pc[t] \notin {"irp", "port"}, NEW c \in {"out", "sleep", "sem", "lock"},
               pc' = pc \/ pc' = [pc EXCEPT ![t] = c], blocked' \subseteq blocked \cup {t}
        PROVE  \A u \in Threads : pc[u] \in {"irp", "port"} \/ pc'[u] \in {"irp", "port"} =>
                                    pc'[u] = pc[u] /\ (u \in blocked' => u \in blocked)
    BY <2>0, <2>2
  <2>3. ASSUME NEW t \in Threads, OnSleep(t) \/ OnSleepReturns(t)
        PROVE  /\ pc[t] \notin {"irp", "port"} /\ blocked' \subseteq blocked \cup {t}
               /\ \E c \in {"out", "sleep", "sem", "lock"} : pc' = pc \/ pc' = [pc EXCEPT ![t] = c]
    BY <2>3 DEF OnSleep, OnSleepReturns, Sleep, SleepReturns, MayCall, Block, Returns
  <2>4. ASSUME NEW t \in Threads, OnSemWait(t) \/ OnSemWaitReturns(t)
        PROVE  /\ pc[t] \notin {"irp", "port"} /\ blocked' \subseteq blocked \cup {t}
               /\ \E c \in {"out", "sleep", "sem", "lock"} : pc' = pc \/ pc' = [pc EXCEPT ![t] = c]
    <3>1. CASE OnSemWait(t)
      <4>1. PICK n \in Ticks \cup {0} : SemWait(t, n)
        BY <3>1 DEF OnSemWait
      <4>2. pc[t] = "out" /\ (UNCHANGED <<pc, blocked>> \/ (pc' = [pc EXCEPT ![t] = "sem"] /\ blocked' = blocked \cup {t}))
        BY <4>1 DEF SemWait, MayCall, Block, threads
      <4> QED BY <4>2
    <3>2. CASE OnSemWaitReturns(t)
      BY <3>2 DEF OnSemWaitReturns, SemWaitReturns, Returns
    <3> QED BY <2>4, <3>1, <3>2
  <2>5. ASSUME NEW t \in Threads, OnMutexLock(t)
        PROVE  /\ pc[t] \notin {"irp", "port"} /\ blocked' \subseteq blocked \cup {t}
               /\ \E c \in {"out", "sleep", "sem", "lock"} : pc' = pc \/ pc' = [pc EXCEPT ![t] = c]
    BY <2>5 DEF OnMutexLock, MutexLock, MayCall, Block, Returns
  <2>6. ASSUME OnSemPost \/ OnTick \/ (\E t \in Threads : OnMutexUnlock(t) \/ OnKill(t))
        PROVE  \A u \in Threads : pc[u] \in {"irp", "port"} \/ pc'[u] \in {"irp", "port"} =>
                                    pc'[u] = pc[u] /\ (u \in blocked' => u \in blocked)
    BY <2>1, <2>6
  <2> QED BY <2>2, <2>3, <2>4, <2>5, <2>6
<1>3. PortInv'
  BY <1>1, <1>2, PortAside DEF WaitInv
<1>4. IssuerInv' /\ IssuersAwake'
  BY <1>1, <1>2, IssuersAside DEF WaitInv
<1> QED BY <1>3, <1>4

\* A call of t that posts nothing and neither enters nor leaves the port.
LEMMA CallKeepsWaits ==
  ASSUME WaitInv, NEW t \in Threads, NEW c \in {"out", "finish", "irp", "accept", "found"},
         pc[t] \in {"out", "finish", "irp", "accept", "found"}, pc' = [pc EXCEPT ![t] = c],
         UNCHANGED <<waitSem, timedOut, sem, mutex, units, port, got>>,
         \/ UNCHANGED <<blocked, wakeTick>>
         \/ \E n \in Nat : blocked' = blocked \cup {t} /\ wakeTick' = [wakeTick EXCEPT ![t] = n]
  PROVE  SyncInv' /\ PortInv'
<1>1. SyncInv'
  BY MovesElsewhere DEF WaitInv, Places
<1>2. \A u \in Threads : /\ pc'[u] = "port" <=> pc[u] = "port"
                         /\ pc[u] = "port" /\ u \in blocked' => u \in blocked
  <2>1. pc \in [Threads -> Places]
    BY DEF WaitInv, RequestInv, IoTypes
  <2>2. \A u \in Threads \ {t} : u \in blocked' => u \in blocked
    OBVIOUS
  <2> QED BY <2>1, <2>2
<1>3. PortInv'
  BY <1>1, <1>2, PortAside DEF WaitInv
<1> QED BY <1>1, <1>3

\* The issuer returns: nobody else has its request in hand.
LEMMA ReturnKeepsIssuers ==
  ASSUME WaitInv, RequestInv', SyncInv', NEW t \in Threads, pc[t] \in Issuing, NEW r,
         irp' = [irp EXCEPT ![issued[t]] = r], issued' = [issued EXCEPT ![t] = None],
         pc' = [pc EXCEPT ![t] = "out"], blocked' \subseteq blocked
  PROVE  IssuerInv' /\ IssuersAwake'
<1>1. /\ issued[t] \in Requests /\ issued'[t] = None /\ pc'[t] = "out"
      /\ \A u \in Threads \ {t} : issued'[u] = issued[u] /\ pc'[u] = pc[u]
  BY DEF WaitInv, RequestInv, IoTypes, HandsInv
<1>2. \A u \in Threads \ {t} : issued[u] # None => issued[u] # issued[t] /\ issued[u] \in Requests
  BY DEF WaitInv, RequestInv, IoTypes, HandsInv
<1>3. \A u \in Threads \ {t} : issued[u] # None => irp'[issued[u]] = irp[issued[u]]
  BY <1>2 DEF WaitInv, RequestInv, IoTypes
<1>4. \A u \in Threads : pc[u] = "irp" => issued[u] # None
  BY DEF WaitInv, RequestInv, HandsInv, Issuing
<1> QED BY <1>1, <1>3, <1>4, IssuersAside DEF WaitInv

\* pend_on: the request is new, and its thread is the one that waits for it.
LEMMA IssuePendingKeepsWaits ==
  ASSUME WaitInv, RequestInv', NEW t \in Threads, NEW i \in Requests, NEW kind \in Kinds,
         IssuePending(t, i, kind)
  PROVE  WaitInv'
<1> DEFINE r == [Prepared(t, kind) EXCEPT !.pended = TRUE, !.listed = TRUE, !.refs = 2]
<1>1. /\ pc[t] = "out" /\ irp[i].refs = 0 /\ irp' = [irp EXCEPT ![i] = r]
      /\ issued' = [issued EXCEPT ![t] = i] /\ pc' = [pc EXCEPT ![t] = "finish"]
      /\ UNCHANGED <<blocked, wakeTick, waitSem, timedOut, sem, mutex, units, port, got>>
  BY DEF IssuePending, MayCall, Allocatable, sync
<1>2. r.thread = t
  BY DEF Prepared, Unused
<1> HIDE DEF r
<1>3. SyncInv' /\ PortInv'
  BY <1>1, CallKeepsWaits
<1>4. /\ irp'[i] = r /\ \A j \in Requests \ {i} : irp'[j] = irp[j]
      /\ issued'[t] = i /\ pc'[t] = "finish" /\ issued[t] = None
      /\ \A u \in Threads \ {t} : issued'[u] = issued[u] /\ pc'[u] = pc[u]
      /\ issued \in [Threads -> Requests \cup {None}]
  BY <1>1 DEF WaitInv, RequestInv, IoTypes, HandsInv, Issuing
<1>5. \A u \in Threads : issued[u] # i
  BY <1>1, FreeIsUnused DEF WaitInv, HasIssuer
<1>6. \A u \in Threads : pc[u] = "irp" => issued[u] # None
  BY DEF WaitInv, RequestInv, HandsInv, Issuing
<1>7. IssuerInv'
  BY <1>2, <1>4, <1>5, <1>6 DEF WaitInv, IssuerInv
<1>8. IssuersAwake'
  BY <1>1, <1>4, <1>5, <1>6 DEF WaitInv, IssuersAwake, SyncInv, SyncTypes
<1> QED BY <1>3, <1>7, <1>8 DEF WaitInv

\* irp_finish of an asynchronous request.
LEMMA FinishAsyncKeepsWaits ==
  ASSUME WaitInv, RequestInv', NEW t \in Threads, FinishAsync(t)
  PROVE  WaitInv'
<1>1. /\ pc[t] = "finish" /\ pc' = [pc EXCEPT ![t] = "out"] /\ issued' = [issued EXCEPT ![t] = None]
      /\ UNCHANGED <<blocked, wakeTick, waitSem, timedOut, sem, mutex, units, port, got>>
      /\ \E r : irp' = [irp EXCEPT ![issued[t]] = r]
  BY Zenon DEF FinishAsync, Returns, sync
<1>2. SyncInv' /\ PortInv'
  BY <1>1, CallKeepsWaits
<1>3. IssuerInv' /\ IssuersAwake'
  BY <1>1, <1>2, ReturnKeepsIssuers DEF Issuing
<1> QED BY <1>2, <1>3 DEF WaitInv

\* irp_finish of a synchronous request. It sleeps only before the completion.
LEMMA FinishSyncKeepsWaits ==
  ASSUME WaitInv, RequestInv', NEW t \in Threads, FinishSync(t)
  PROVE  WaitInv'
<1> DEFINE i == issued[t]
           f == Finished(Completed(irp[i], "cancelled"), "cancelled")
<1>1. pc[t] \in Issuing /\ irp[i].kind = "sync" /\ t \notin blocked /\ UNCHANGED <<waitSem, timedOut, sem, mutex, units>>
  BY DEF FinishSync, Issuing, sync, Runs
<1>2. i \in Requests /\ Live(irp[i], TRUE)
  BY <1>1, IssuedIsLive DEF WaitInv
<1>3. CASE /\ \E r : irp' = [irp EXCEPT ![i] = r]
           /\ issued' = [issued EXCEPT ![t] = None] /\ Returns(t)
           /\ UNCHANGED <<blocked, wakeTick, port, got>>
  <2>1. SyncInv' /\ PortInv'
    BY <1>1, <1>3, CallKeepsWaits DEF Issuing, Returns
  <2>2. IssuerInv' /\ IssuersAwake'
    BY <1>1, <1>3, <2>1, ReturnKeepsIssuers DEF Returns
  <2> QED BY <2>1, <2>2 DEF WaitInv
<1>4. CASE /\ IrpComplete(i, irp[i], "cancelled", f)
           /\ issued' = [issued EXCEPT ![t] = None] /\ Returns(t)
  <2> HIDE DEF f
  <2>1. HasIssuer(i) /\ Live(irp[i], HasIssuer(i))
    BY <1>2 DEF HasIssuer, Live
  <2>2. \A u \in Threads : /\ pc'[u] = "sem" <=> pc[u] = "sem"
                           /\ pc'[u] = "lock" <=> pc[u] = "lock"
                           /\ pc'[u] = "port" <=> pc[u] = "port"
    BY <1>1, <1>4 DEF Returns, Issuing, WaitInv, RequestInv, IoTypes
  <2>3. SyncInv' /\ PortInv'
    BY <1>1, <1>2, <1>4, <2>1, <2>2, CompletionKeepsPort
  <2>4. blocked' \subseteq blocked /\ \E r : irp' = [irp EXCEPT ![i] = r]
    BY <1>4 DEF IrpComplete, Wake
  <2>5. IssuerInv' /\ IssuersAwake'
    BY <1>1, <1>4, <2>3, <2>4, ReturnKeepsIssuers DEF Returns
  <2> QED BY <2>3, <2>5 DEF WaitInv
<1>5. CASE ~ irp[i].completed /\ Block(t, "irp", 0) /\ UNCHANGED <<irp, issued, port, got>>
  <2>1. /\ pc' = [pc EXCEPT ![t] = "irp"] /\ blocked' = blocked \cup {t} /\ wakeTick' = [wakeTick EXCEPT ![t] = 0]
        /\ pc \in [Threads -> Places] /\ blocked \subseteq Threads
    BY <1>5 DEF Block, WaitInv, RequestInv, IoTypes, SyncInv, SyncTypes
  <2>2. SyncInv' /\ PortInv'
    BY <1>1, <1>5, <2>1, CallKeepsWaits DEF Issuing
  <2>3. IssuerInv'
    BY <1>1, <1>5, <2>1 DEF WaitInv, IssuerInv
  <2>4. IssuersAwake'
    BY <1>5, <2>1 DEF WaitInv, IssuersAwake
  <2> QED BY <2>2, <2>3, <2>4 DEF WaitInv
<1>6. \/ /\ irp' = [irp EXCEPT ![i] = Kept(Finished(irp[i], irp[i].status))]
         /\ issued' = [issued EXCEPT ![t] = None] /\ Returns(t) /\ UNCHANGED <<blocked, wakeTick, port, got>>
      \/ IrpComplete(i, irp[i], "cancelled", f) /\ issued' = [issued EXCEPT ![t] = None] /\ Returns(t)
      \/ ~ irp[i].completed /\ Block(t, "irp", 0) /\ UNCHANGED <<irp, issued, port, got>>
  BY Zenon DEF FinishSync
<1> HIDE DEF i, f
<1> QED BY <1>3, <1>4, <1>5, <1>6

\* A request that ends during its system call may post a packet at once.
LEMMA IssueAtOnceKeepsWaits ==
  ASSUME WaitInv, RequestInv', NEW t \in Threads, NEW i \in Requests, NEW kind \in Kinds,
         NEW st \in {"success", "error"}, IssueAtOnce(t, i, kind, st)
  PROVE  WaitInv'
<1> DEFINE r == Prepared(t, kind)
           after == Finished(Completed(r, st), st)
<1>1. /\ irp[i].refs = 0 /\ IrpComplete(i, r, st, after)
      /\ UNCHANGED <<pc, waitSem, timedOut, sem, mutex, units, issued>>
  BY DEF IssueAtOnce, Allocatable, sync
<1>2. ~ r.pended
  BY DEF Prepared, Unused
<1> HIDE DEF r, after
<1>3. SyncInv' /\ PortInv'
  BY <1>1, <1>2, CompletionKeepsPort
<1>4. blocked' \subseteq blocked /\ irp' = [irp EXCEPT ![i] = Kept(after)]
  BY <1>1 DEF IrpComplete, Wake
<1>5. \A u \in Threads : issued[u] # i
  BY <1>1, FreeIsUnused DEF WaitInv, HasIssuer
<1>6. \A u \in Threads : issued[u] # None => irp'[issued[u]] = irp[issued[u]]
  BY <1>4, <1>5 DEF WaitInv, RequestInv, IoTypes
<1>7. \A u \in Threads : pc[u] = "irp" => issued[u] # None
  BY DEF WaitInv, RequestInv, HandsInv, Issuing
<1>8. IssuerInv' /\ IssuersAwake'
  BY <1>1, <1>3, <1>4, <1>6, <1>7, IssuersAside DEF WaitInv
<1> QED BY <1>3, <1>8 DEF WaitInv

\* A pending request ends: in the section that makes it satisfiable, by its
\* cancellation, or when serve_writers has copied it.
LEMMA EndKeepsWaits ==
  ASSUME WaitInv, RequestInv', NEW i \in Requests, NEW st, Live(irp[i], HasIssuer(i)),
         IrpComplete(i, irp[i], st, Completed(irp[i], st)),
         UNCHANGED <<waitSem, timedOut, sem, mutex, units, issued>>,
         \A u \in Threads : pc'[u] = pc[u] \/ (pc[u] = "accept" /\ pc'[u] = "out")
  PROVE  WaitInv'
<1>1. SyncInv' /\ PortInv'
  BY CompletionKeepsPort
<1>2. IssuerInv' /\ IssuersAwake'
  BY <1>1, CompletionWakesIssuer
<1> QED BY <1>1, <1>2 DEF WaitInv

LEMMA AcceptedKeepsWaits ==
  ASSUME WaitInv, RequestInv', NEW t \in Threads, NEW st \in {"success", "error"}, Accepted(t, st)
  PROVE  WaitInv'
<1> DEFINE i == accepting[t]
<1>1. pc[t] = "accept" /\ pc' = [pc EXCEPT ![t] = "out"] /\ UNCHANGED <<waitSem, timedOut, sem, mutex, units, issued>>
  BY DEF Accepted, Returns, sync
<1>2. i \in Requests /\ irp[i].refs > 0 /\ ~ irp[i].completed
  BY <1>1 DEF WaitInv, RequestInv, IoTypes, HandsInv, AcceptInv
<1>3. IrpComplete(i, irp[i], st, Completed(irp[i], st))
  BY <1>2 DEF Accepted
<1>4. Live(irp[i], HasIssuer(i))
  <2>1. Good(irp[i], HasIssuer(i)) /\ irp[i].refs # 0
    BY <1>2 DEF WaitInv, RequestInv, RecordInv, IoTypes, Recs
  <2> QED BY <2>1, UnusedIsFree DEF Good
<1>5. \A u \in Threads : pc'[u] = pc[u] \/ (pc[u] = "accept" /\ pc'[u] = "out")
  BY <1>1 DEF WaitInv, RequestInv, IoTypes
<1> HIDE DEF i
<1> QED BY <1>1, <1>2, <1>3, <1>4, <1>5, EndKeepsWaits

\* serve_writers takes a request off its list.
LEMMA AcceptKeepsWaits ==
  ASSUME WaitInv, RequestInv', NEW t \in Threads, NEW i \in Requests, Accept(t, i)
  PROVE  WaitInv'
<1>1. /\ pc[t] = "out" /\ pc' = [pc EXCEPT ![t] = "accept"] /\ irp' = [irp EXCEPT ![i].listed = FALSE]
      /\ UNCHANGED <<blocked, wakeTick, waitSem, timedOut, sem, mutex, units, issued, port, got>>
  BY DEF Accept, MayCall, sync
<1>2. SyncInv' /\ PortInv'
  BY <1>1, CallKeepsWaits
<1>3. irp \in [Requests -> Recs] /\ issued \in [Threads -> Requests \cup {None}] /\ pc \in [Threads -> Places]
  BY DEF WaitInv, RequestInv, IoTypes
<1>4. \A j \in Requests : /\ irp'[j].kind = irp[j].kind /\ irp'[j].thread = irp[j].thread
                          /\ irp'[j].completed = irp[j].completed
  BY <1>1, <1>3 DEF Recs
<1>5. \A u \in Threads : pc'[u] = "irp" => pc[u] = "irp" /\ issued[u] \in Requests
  BY <1>1, <1>3 DEF WaitInv, RequestInv, HandsInv, Issuing
<1>6. IssuerInv' /\ IssuersAwake'
  BY <1>1, <1>2, <1>3, <1>4, <1>5, IssuersAside DEF WaitInv
<1> QED BY <1>2, <1>6 DEF WaitInv

\* ipc_io_thread_exit: what it cancels or disowns, no issuer waits for.
LEMMA ThreadExitKeepsWaits ==
  ASSUME WaitInv, RequestInv', NEW t \in Threads, ThreadExit(t)
  PROVE  WaitInv'
<1> DEFINE mine == {i \in Requests : irp[i].refs > 0 /\ irp[i].pended /\ ~irp[i].completed /\ irp[i].thread = t}
           agnostic == {i \in mine : irp[i].kind \in {"packet", "skip"}}
           left(i) == [irp[i] EXCEPT !.thread = None]
           c(i) == Completed(left(i), "cancelled")
<1>1. /\ irp' = [i \in Requests |-> IF i \notin mine THEN irp[i]
                                   ELSE IF i \in agnostic THEN left(i) ELSE Kept(c(i))]
      /\ pc[t] = "out"
  BY Zenon DEF ThreadExit
<1>2. UNCHANGED <<pc, blocked, wakeTick, waitSem, timedOut, sem, mutex, units, issued, port, got>>
  BY DEF ThreadExit, threads, sync
<1>3. SyncInv'
  BY <1>2, Elsewhere DEF WaitInv, SyncInv, SyncTypes, DeadlinesInv
<1>4. PortInv'
  BY <1>2, <1>3, PortAside DEF WaitInv
<1>5. irp \in [Requests -> Recs] /\ issued \in [Threads -> Requests \cup {None}] /\ issued[t] = None
  BY <1>1 DEF WaitInv, RequestInv, IoTypes, HandsInv, Issuing
<1>6. ASSUME NEW i \in mine PROVE i \in Requests /\ irp[i].thread = t
  OBVIOUS
<1>7. ASSUME NEW i \in Requests PROVE left(i).kind = irp[i].kind /\ c(i).kind = irp[i].kind
  BY <1>5 DEF Completed, Recs
<1> HIDE DEF mine, left, c
<1>8. ASSUME NEW u \in Threads, issued[u] \in mine
      PROVE  irp[issued[u]].kind # "sync" /\ irp'[issued[u]].kind = irp[issued[u]].kind
  <2>1. issued[u] \in Requests /\ irp[issued[u]].thread = t
    BY <1>6, <1>8
  <2>2. u # t /\ t \in Threads
    BY <1>5, <2>1, KindTypes
  <2>3. irp[issued[u]].kind # "sync"
    BY <2>1, <2>2, KindTypes DEF WaitInv, IssuerInv
  <2>4. CASE issued[u] \in agnostic
    BY <1>1, <1>7, <1>8, <2>1, <2>3, <2>4
  <2>5. CASE issued[u] \notin agnostic
    <3>1. irp'[issued[u]] = Kept(c(issued[u])) /\ issued'[u] = issued[u]
      BY <1>1, <1>2, <1>8, <2>1, <2>5
    <3>2. irp'[issued[u]] = c(issued[u])
      BY <2>1, <3>1, IssuedIsKept
    <3> QED BY <1>7, <2>1, <2>3, <3>2
  <2> QED BY <2>4, <2>5
<1>9. \A u \in Threads : issued[u] # None /\ issued[u] \notin mine => irp'[issued[u]] = irp[issued[u]]
  BY <1>1, <1>5
<1>10. \A u \in Threads : pc[u] = "irp" => issued[u] # None
  BY DEF WaitInv, RequestInv, HandsInv, Issuing
<1>11. IssuerInv'
  BY <1>2, <1>8, <1>9, <1>10 DEF WaitInv, IssuerInv
<1>12. IssuersAwake'
  <2> SUFFICES ASSUME NEW u \in blocked, pc[u] = "irp" PROVE ~ irp'[issued[u]].completed
    BY <1>2 DEF IssuersAwake
  <2>1. u \in Threads /\ irp[issued[u]].kind = "sync" /\ issued[u] # None
    BY <1>10 DEF WaitInv, SyncInv, SyncTypes, IssuerInv
  <2>2. issued[u] \notin mine
    BY <1>8, <2>1
  <2> QED BY <1>9, <2>1, <2>2 DEF WaitInv, IssuersAwake
<1> QED BY <1>3, <1>4, <1>11, <1>12 DEF WaitInv

\* The caller of port_remove has found the port and is not on its list yet.
LEMMA PortFoundKeepsWaits ==
  ASSUME WaitInv, RequestInv', NEW t \in Threads, PortFound(t)
  PROVE  WaitInv'
<1>1. /\ pc[t] = "out" /\ pc' = [pc EXCEPT ![t] = "found"]
      /\ UNCHANGED <<blocked, wakeTick, waitSem, timedOut, sem, mutex, units, irp, issued, port, got>>
  BY DEF PortFound, MayCall, sync, ivars
<1>2. SyncInv' /\ PortInv'
  BY <1>1, CallKeepsWaits
<1>3. pc \in [Threads -> Places] /\ blocked \subseteq Threads
  BY DEF WaitInv, RequestInv, IoTypes, SyncInv, SyncTypes
<1>4. IssuerInv' /\ IssuersAwake'
  BY <1>1, <1>3 DEF WaitInv, IssuerInv, IssuersAwake
<1> QED BY <1>2, <1>4 DEF WaitInv

\* port_remove: packets at once, none, or the head of the waiters while none is queued.
LEMMA PortRemoveKeepsWaits ==
  ASSUME WaitInv, RequestInv', NEW t \in Threads, NEW n \in Nat, NEW poll, PortRemove(t, n, poll)
  PROVE  WaitInv'
<1>1. /\ pc[t] = "found" /\ t \notin blocked
      /\ UNCHANGED <<waitSem, timedOut, sem, mutex, units, irp, issued, got>>
  BY DEF PortRemove, Runs, sync
<1>2. /\ port \in [packets : Seq(Requests), waiters : Seq(Threads), closed : BOOLEAN]
      /\ got \in [Threads -> Requests \cup {None}] /\ IsInjective(port.waiters)
      /\ port.waiters \in Seq(Threads) /\ port.packets \in Seq(Requests)
      /\ pc \in [Threads -> Places] /\ blocked \subseteq Threads
  BY DEF WaitInv, PortInv, RequestInv, IoTypes, SyncInv, SyncTypes
<1>3. CASE Returns(t) /\ UNCHANGED <<blocked, wakeTick>>
  <2>1. pc' = [pc EXCEPT ![t] = "out"] /\ UNCHANGED <<blocked, wakeTick>>
    BY <1>3 DEF Returns
  <2>2. SyncInv'
    BY <1>1, <2>1, MovesElsewhere DEF WaitInv, Places
  <2>3. IssuerInv' /\ IssuersAwake'
    BY <1>1, <1>2, <2>1 DEF WaitInv, IssuerInv, IssuersAwake
  <2>4. CASE port' = port
    <3>1. PortInv'
      BY <1>1, <2>1, <2>4, CallKeepsWaits
    <3> QED BY <2>2, <2>3, <3>1 DEF WaitInv
  <2>5. CASE port.packets # <<>> /\ \E k \in 1 .. MaxBatch : port' = [port EXCEPT !.packets = SubSeq(@, k + 1, Len(@))]
    <3>1. PICK k \in 1 .. MaxBatch : port' = [port EXCEPT !.packets = SubSeq(@, k + 1, Len(@))]
      BY <2>5
    <3>2. k + 1 \in Nat \ {0}
      BY IoAssumption
    <3>3. SubSeq(port.packets, k + 1, Len(port.packets)) \in Seq(Requests)
      BY <1>2, <3>2, PacketsTaken
    <3>4. /\ port' \in [packets : Seq(Requests), waiters : Seq(Threads), closed : BOOLEAN]
          /\ port'.waiters = port.waiters
      BY <1>2, <3>1, <3>3
    <3>5. \A u \in blocked : pc[u] # "port"
      BY <2>5 DEF WaitInv, PortInv
    <3>6. PortInv'
      BY <1>1, <1>2, <2>1, <3>4, <3>5 DEF WaitInv, PortInv
    <3> QED BY <2>2, <2>3, <3>6 DEF WaitInv
  <2>6. port' = port \/ (port.packets # <<>> /\ \E k \in 1 .. MaxBatch :
                          port' = [port EXCEPT !.packets = SubSeq(@, k + 1, Len(@))])
    <3>1. CASE port.packets # <<>>
      BY <3>1 DEF PortRemove
    <3>2. CASE port.packets = <<>>
      <4>1. ~ (port' = [port EXCEPT !.waiters = <<t>> \o @] /\ Block(t, "port", n))
        BY <1>1, <2>1 DEF Block
      <4> QED BY <3>2, <4>1 DEF PortRemove
    <3> QED BY <3>1, <3>2
  <2> QED BY <2>4, <2>5, <2>6
<1>4. CASE port.packets = <<>> /\ ~ port.closed /\ port' = [port EXCEPT !.waiters = <<t>> \o @] /\ Block(t, "port", n)
  <2>1. pc' = [pc EXCEPT ![t] = "port"] /\ blocked' = blocked \cup {t} /\ wakeTick' = [wakeTick EXCEPT ![t] = n]
    BY <1>4 DEF Block
  <2>2. SyncInv'
    BY <1>1, <2>1, MovesElsewhere DEF WaitInv, Places
  <2>3. pc'[t] = "port" /\ \A u \in Threads \ {t} : pc'[u] = pc[u]
    BY <1>2, <2>1
  <2>4. IssuerInv' /\ IssuersAwake'
    BY <1>1, <1>2, <2>1, <2>3 DEF WaitInv, IssuerInv, IssuersAwake
  <2>5. t \notin ToSet(port.waiters) /\ got[t] = None
    BY <1>1 DEF WaitInv, PortInv
  <2>6. /\ <<t>> \o port.waiters \in Seq(Threads) /\ IsInjective(<<t>> \o port.waiters)
        /\ ToSet(<<t>> \o port.waiters) = ToSet(port.waiters) \cup {t}
    BY <1>2, <2>5, PushList
  <2> DEFINE w == <<t>> \o port.waiters
  <2> HIDE DEF w
  <2>7. /\ port' \in [packets : Seq(Requests), waiters : Seq(Threads), closed : BOOLEAN]
        /\ port'.waiters = w /\ port'.packets = port.packets /\ port'.closed = port.closed
    BY <1>2, <1>4, <2>6 DEF w
  <2>8. ToSet(port'.waiters) = ToSet(port.waiters) \cup {t} /\ IsInjective(port'.waiters)
    BY <2>6, <2>7 DEF w
  <2>9. \A u \in blocked' : pc'[u] = "port" => port'.packets = <<>> /\ ~ port'.closed /\ got'[u] = None
    BY <1>1, <1>2, <1>4, <2>1, <2>3, <2>5, <2>7 DEF WaitInv, PortInv
  <2>10. \A u \in Threads :
           /\ u \in ToSet(port'.waiters) => pc'[u] = "port" /\ got'[u] = None
           /\ (u \in blocked' /\ pc'[u] = "port") => u \in ToSet(port'.waiters)
           /\ got'[u] # None => pc'[u] = "port"
    BY <1>1, <2>1, <2>3, <2>5, <2>8 DEF WaitInv, PortInv
  <2>11. PortInv'
    BY <1>1, <1>2, <2>7, <2>8, <2>9, <2>10 DEF PortInv
  <2> QED BY <2>2, <2>4, <2>11 DEF WaitInv
<1>5. \/ Returns(t) /\ UNCHANGED <<blocked, wakeTick>>
      \/ port.packets = <<>> /\ ~ port.closed /\ port' = [port EXCEPT !.waiters = <<t>> \o @] /\ Block(t, "port", n)
  BY DEF PortRemove
<1> QED BY <1>3, <1>4, <1>5

\* ... and its end: off the list, with the packet it was handed.
LEMMA PortReturnKeepsWaits ==
  ASSUME WaitInv, RequestInv', NEW t \in Threads, PortRemoveReturns(t)
  PROVE  WaitInv'
<1> DEFINE first == IF got[t] = None THEN 0 ELSE 1
<1>1. PICK k \in 1 .. MaxBatch : port' = [port EXCEPT !.waiters = Unlinked(@, {t}),
                                                      !.packets = SubSeq(@, k - first + 1, Len(@))]
  BY Zenon DEF PortRemoveReturns
<1>2. /\ pc[t] = "port" /\ t \notin blocked /\ got' = [got EXCEPT ![t] = None]
      /\ wakeTick' = [wakeTick EXCEPT ![t] = 0] /\ pc' = [pc EXCEPT ![t] = "out"]
      /\ UNCHANGED <<blocked, waitSem, timedOut, sem, mutex, units, irp, issued>>
  BY DEF PortRemoveReturns, Runs, Returns, sync
<1>3. /\ port \in [packets : Seq(Requests), waiters : Seq(Threads), closed : BOOLEAN]
      /\ got \in [Threads -> Requests \cup {None}] /\ IsInjective(port.waiters)
      /\ port.waiters \in Seq(Threads) /\ port.packets \in Seq(Requests)
      /\ pc \in [Threads -> Places] /\ blocked \subseteq Threads
  BY DEF WaitInv, PortInv, RequestInv, IoTypes, SyncInv, SyncTypes
<1>4. k - first + 1 \in Nat \ {0}
  BY IoAssumption
<1> HIDE DEF first
<1> DEFINE w == Unlinked(port.waiters, {t})
           p == SubSeq(port.packets, k - first + 1, Len(port.packets))
<1>5. w \in Seq(Threads) /\ IsInjective(w) /\ ToSet(w) = ToSet(port.waiters) \ {t}
  BY <1>3, UnlinkedFacts
<1>6. p \in Seq(Requests) /\ (port.packets = <<>> => p = <<>>)
  BY <1>3, <1>4, PacketsTaken
<1>7. port' = [port EXCEPT !.waiters = w, !.packets = p]
  BY <1>1
<1> HIDE DEF w, p
<1>8. /\ port' \in [packets : Seq(Requests), waiters : Seq(Threads), closed : BOOLEAN]
      /\ port'.waiters = w /\ port'.packets = p /\ port'.closed = port.closed
  BY <1>3, <1>5, <1>6, <1>7
<1>9. /\ pc'[t] = "out" /\ got'[t] = None /\ got' \in [Threads -> Requests \cup {None}]
      /\ \A u \in Threads \ {t} : pc'[u] = pc[u] /\ got'[u] = got[u]
  BY <1>2, <1>3
<1>10. SyncInv'
  BY <1>2, MovesElsewhere DEF WaitInv, Places
<1>11. IssuerInv' /\ IssuersAwake'
  BY <1>2, <1>3, <1>9 DEF WaitInv, IssuerInv, IssuersAwake
<1>12. \A u \in blocked' : pc'[u] = "port" => port'.packets = <<>> /\ ~ port'.closed /\ got'[u] = None
  BY <1>2, <1>3, <1>6, <1>8, <1>9 DEF WaitInv, PortInv
<1>13. \A u \in Threads :
         /\ u \in ToSet(port'.waiters) => pc'[u] = "port" /\ got'[u] = None
         /\ (u \in blocked' /\ pc'[u] = "port") => u \in ToSet(port'.waiters)
         /\ got'[u] # None => pc'[u] = "port"
  BY <1>2, <1>5, <1>8, <1>9 DEF WaitInv, PortInv
<1>14. PortInv'
  BY <1>5, <1>8, <1>9, <1>12, <1>13 DEF PortInv
<1> QED BY <1>10, <1>11, <1>14 DEF WaitInv

\* iocp_handle_closed wakes everybody on the list.
LEMMA PortCloseKeepsWaits ==
  ASSUME WaitInv, RequestInv', PortClose
  PROVE  WaitInv'
<1>1. /\ port' = [port EXCEPT !.closed = TRUE] /\ Wake(ToSet(port.waiters))
      /\ UNCHANGED <<pc, waitSem, timedOut, sem, mutex, units, irp, issued, got>>
  BY DEF PortClose, sync
<1>2. blocked' = blocked \ ToSet(port.waiters) /\ blocked \subseteq Threads
  BY <1>1 DEF Wake, WaitInv, SyncInv, SyncTypes
<1>3. SyncInv'
  BY <1>1, WakesElsewhere DEF WaitInv, PortInv
<1>4. IssuerInv' /\ IssuersAwake'
  BY <1>1, <1>2 DEF WaitInv, IssuerInv, IssuersAwake
<1>5. /\ port' \in [packets : Seq(Requests), waiters : Seq(Threads), closed : BOOLEAN]
      /\ port'.waiters = port.waiters
  BY <1>1 DEF WaitInv, PortInv
<1>6. \A u \in blocked' : pc[u] # "port"
  BY <1>2 DEF WaitInv, PortInv
<1>7. PortInv'
  BY <1>1, <1>5, <1>6 DEF WaitInv, PortInv
<1> QED BY <1>3, <1>4, <1>7 DEF WaitInv

-----------------------------------------------------------------------------
(* The theorems. *)

\* No request is allocated, and no thread is in a call, when the system starts.
LEMMA InitHasNoRequests == Init => RequestInv
<1> SUFFICES ASSUME Init PROVE RequestInv
  OBVIOUS
<1>1. IoTypes
  BY UnusedIsFree DEF Init, SyncInit, IoTypes, Places
<1>2. HandsInv
  BY DEF Init, SyncInit, HandsInv, Issuing
<1>3. RecordInv
  BY KindTypes DEF Init, RecordInv, Good, HasIssuer
<1>4. AcceptInv
  BY DEF Init, AcceptInv
<1> QED BY <1>1, <1>2, <1>3, <1>4 DEF RequestInv

\* Every step of the system keeps the account of the requests.
LEMMA NextKeepsAccount ==
  ASSUME CancelAccepted = FALSE, RequestInv, Next
  PROVE  RequestInv'
<1>1. ASSUME NEW i \in Requests, NEW st \in {"success", "error"}, Complete(i, st) PROVE RequestInv'
  <2>1. /\ irp[i].listed /\ irp' = [irp EXCEPT ![i] = Kept(Completed(irp[i], st))]
        /\ UNCHANGED <<pc, issued, accepting>>
    BY <1>1 DEF Complete, IrpComplete
  <2> QED BY <2>1, CompleteStep DEF Status
<1>2. ASSUME NEW i \in Requests, Cancel(i) PROVE RequestInv'
  <2>1. /\ irp[i].listed /\ irp' = [irp EXCEPT ![i] = Kept(Completed(irp[i], "cancelled"))]
        /\ UNCHANGED <<pc, issued, accepting>>
    BY <1>2 DEF Cancel, Cancellable, IrpComplete
  <2> QED BY <2>1, CompleteStep DEF Status
<1> QED BY <1>1, <1>2, SyncSteps, PortSteps, IssueAtOnceStep, IssuePendingStep, FinishAsyncStep,
           FinishSyncStep, AcceptStep, AcceptedStep, ThreadExitStep DEF Next

\* At every moment each IRP is either free and in nobody's hands, or it pends or
\* has pended, holds one reference for its issuer and one for its queue, and was
\* reported exactly as far as its completion and its kind require; as long as no
\* request is cancelled while serve_writers copies it.
THEOREM RequestsAccounted == CancelAccepted = FALSE => (Spec => []RequestInv)
<1> SUFFICES ASSUME CancelAccepted = FALSE PROVE Spec => []RequestInv
  OBVIOUS
<1>1. RequestInv /\ UNCHANGED vars => RequestInv'
  BY PcStays DEF vars, svars, ivars, threads
<1>2. RequestInv /\ [Next]_vars => RequestInv'
  BY <1>1, NextKeepsAccount
<1> QED BY <1>2, InitHasNoRequests, PTL DEF Spec

\* irp_put frees an IRP exactly when its system call and its queue have let go of
\* it, for any number of threads and requests, as long as no request is cancelled
\* while serve_writers copies it.
THEOREM RequestsOutliveUsers == CancelAccepted = FALSE => (Spec => []RequestOutlivesUsers)
<1> SUFFICES ASSUME CancelAccepted = FALSE PROVE Spec => []RequestOutlivesUsers
  OBVIOUS
<1>1. RequestInv => RequestOutlivesUsers
  <2> SUFFICES ASSUME RequestInv PROVE RequestOutlivesUsers
    OBVIOUS
  <2>1. ASSUME NEW i \in Requests
        PROVE  irp[i].refs = Cardinality({t \in Threads : issued[t] = i})
                             + (IF irp[i].pended /\ ~ irp[i].completed THEN 1 ELSE 0)
    <3> DEFINE issuers == {t \in Threads : issued[t] = i}
    <3>1. Good(irp[i], HasIssuer(i))
      BY DEF RequestInv, RecordInv
    <3>2. CASE HasIssuer(i)
      <4>1. PICK t \in Threads : issued[t] = i
        BY <3>2 DEF HasIssuer
      <4>2. issuers = {t}
        BY <4>1, KindTypes DEF RequestInv, HandsInv
      <4>3. Cardinality(issuers) = 1
        BY <4>2, FS_Singleton
      <4>4. irp[i].pended /\ irp[i].refs = 1 + (IF irp[i].completed THEN 0 ELSE 1)
        BY <3>1, <3>2 DEF Good, Live
      <4> QED BY <4>3, <4>4
    <3>3. CASE ~ HasIssuer(i)
      <4>1. issuers = {}
        BY <3>3 DEF HasIssuer
      <4>2. Cardinality(issuers) = 0
        BY <4>1, FS_EmptySet
      <4> HIDE DEF issuers
      <4>3. CASE irp[i] = Unused
        BY <4>2, <4>3 DEF Unused, issuers
      <4>4. CASE Live(irp[i], HasIssuer(i))
        <5>1. irp[i].pended /\ irp[i].refs = (IF irp[i].completed THEN 0 ELSE 1)
          BY <3>3, <4>4 DEF Live
        <5> QED BY <4>2, <5>1 DEF issuers
      <4> QED BY <3>1, <4>3, <4>4 DEF Good
    <3> QED BY <3>2, <3>3
  <2>2. \A t \in Threads : accepting[t] # None => irp[accepting[t]].refs > 0
    BY DEF RequestInv, AcceptInv
  <2> QED BY <2>1, <2>2 DEF RequestOutlivesUsers
<1> QED BY <1>1, RequestsAccounted, PTL

\* The end of every request is reported once, to its issuer or to its event or
\* port, whatever it raced with, except for the cancellation of a request that
\* serve_writers copies.
THEOREM CompletionsReportedOnce == CancelAccepted = FALSE => (Spec => []ReportedOnce)
<1> SUFFICES ASSUME CancelAccepted = FALSE PROVE Spec => []ReportedOnce
  OBVIOUS
<1>1. Reported(Unused)
  BY DEF Reported, Unused
<1>2. RequestInv => ReportedOnce
  BY <1>1, FreeIsUnused DEF ReportedOnce
<1> QED BY <1>2, RequestsAccounted, PTL

\* Nobody sleeps and nothing is queued when the system starts.
LEMMA InitHasNoWaiters == Init => WaitInv
<1> SUFFICES ASSUME Init PROVE WaitInv
  OBVIOUS
<1>1. RequestInv
  BY InitHasNoRequests
<1>2. /\ pc = [t \in Threads |-> "out"] /\ blocked = {} /\ waitSem = {} /\ timedOut = {}
      /\ wakeTick = [t \in Threads |-> 0] /\ sem = [count |-> 0, waiters |-> <<>>]
      /\ mutex = [owner |-> None, waiters |-> <<>>] /\ units = 0
      /\ issued = [t \in Threads |-> None] /\ got = [t \in Threads |-> None]
      /\ port = [packets |-> <<>>, waiters |-> <<>>, closed |-> FALSE]
  BY DEF Init, SyncInit
<1>3. ToSet(<<>>) = {} /\ IsInjective(<<>>)
  BY DEF ToSet, IsInjective
<1>4. SyncTypes /\ DeadlinesInv /\ SemInv
  BY <1>2 DEF SyncTypes, DeadlinesInv, SemInv
<1>5. UnitsBalanced
  <2>1. Served = {}
    BY <1>2 DEF Served
  <2>2. units = 0 /\ sem.count = 0 /\ sem.waiters = <<>> /\ Cardinality({}) = 0
    BY <1>2, FS_EmptySet
  <2>3. units = sem.count + Cardinality(Served)
    BY <2>1, <2>2
  <2> QED BY <2>2, <2>3 DEF UnitsBalanced, Served
<1>6. ListsExact
  BY <1>2, <1>3 DEF ListsExact
<1>7. IssuerInv /\ IssuersAwake
  BY <1>2 DEF IssuerInv, IssuersAwake
<1>8. PortInv
  BY <1>2, <1>3 DEF PortInv
<1> QED BY <1>1, <1>4, <1>5, <1>6, <1>7, <1>8 DEF WaitInv, SyncInv

\* Every step of the system keeps the lists, the links and the port exact.
LEMMA NextKeepsWaits ==
  ASSUME CancelAccepted = FALSE, WaitInv, Next
  PROVE  WaitInv'
<1>1. RequestInv /\ RequestInv'
  BY NextKeepsAccount DEF WaitInv
<1>2. ASSUME \/ OnSemPost \/ OnTick
             \/ \E t \in Threads : \/ OnSleep(t) \/ OnSleepReturns(t) \/ OnSemWait(t) \/ OnSemWaitReturns(t)
                                   \/ OnMutexLock(t) \/ OnMutexUnlock(t) \/ OnKill(t)
      PROVE  WaitInv'
  <2>1. SyncInv'
    BY <1>1, <1>2, SyncStepsKeep DEF WaitInv
  <2> QED BY <1>1, <1>2, <2>1, SyncKeepsWaits DEF WaitInv
<1>3. ASSUME NEW i \in Requests, NEW st \in {"success", "error"}, Complete(i, st) PROVE WaitInv'
  <2>1. /\ irp[i].listed /\ IrpComplete(i, irp[i], st, Completed(irp[i], st))
        /\ UNCHANGED <<pc, waitSem, timedOut, sem, mutex, units, issued>>
    BY <1>3 DEF Complete, sync
  <2> QED BY <1>1, <2>1, ListedIsLive, EndKeepsWaits
<1>4. ASSUME NEW i \in Requests, Cancel(i) PROVE WaitInv'
  <2>1. /\ irp[i].listed /\ IrpComplete(i, irp[i], "cancelled", Completed(irp[i], "cancelled"))
        /\ UNCHANGED <<pc, waitSem, timedOut, sem, mutex, units, issued>>
    BY <1>4 DEF Cancel, Cancellable, sync
  <2> QED BY <1>1, <2>1, ListedIsLive, EndKeepsWaits
<1>5. ASSUME NEW t \in Threads, NEW n \in Ticks \cup {0}, NEW poll \in BOOLEAN, PortRemove(t, n, poll)
      PROVE  WaitInv'
  <2>1. n \in Nat
    BY TicksAreNat
  <2> QED BY <1>1, <1>5, <2>1, PortRemoveKeepsWaits
<1> QED BY <1>1, <1>2, <1>3, <1>4, <1>5, IssueAtOnceKeepsWaits, IssuePendingKeepsWaits, FinishAsyncKeepsWaits,
           FinishSyncKeepsWaits, AcceptKeepsWaits, AcceptedKeepsWaits, ThreadExitKeepsWaits,
           PortFoundKeepsWaits, PortReturnKeepsWaits, PortCloseKeepsWaits DEF Next

\* Each waiter list holds exactly the threads that block in it, wait_sem and wake_tick
\* are set on nobody else, irp->thread names the thread that sleeps for the request,
\* and a waiter of the port is on its list until it leaves port_remove or has a packet;
\* as long as no request is cancelled while serve_writers copies it.
THEOREM WaitersAccounted == CancelAccepted = FALSE => (Spec => []WaitInv)
<1> SUFFICES ASSUME CancelAccepted = FALSE PROVE Spec => []WaitInv
  OBVIOUS
<1>1. ASSUME WaitInv, UNCHANGED vars PROVE WaitInv'
  <2>1. /\ UNCHANGED <<pc, blocked, wakeTick, waitSem, timedOut, sem, mutex, units>>
        /\ UNCHANGED <<irp, issued, accepting, port, got>>
    BY <1>1 DEF vars, svars, ivars, threads, sync
  <2>2. RequestInv'
    BY <1>1, <2>1, PcStays DEF WaitInv
  <2>3. SyncInv'
    BY <1>1, <2>1, Elsewhere DEF WaitInv, SyncInv, SyncTypes, DeadlinesInv
  <2>4. IssuerInv' /\ IssuersAwake' /\ PortInv'
    BY <1>1, <2>1 DEF WaitInv, IssuerInv, IssuersAwake, PortInv
  <2> QED BY <2>2, <2>3, <2>4 DEF WaitInv
<1>2. WaitInv /\ [Next]_vars => WaitInv'
  BY <1>1, NextKeepsWaits
<1> QED BY <1>2, InitHasNoWaiters, PTL DEF Spec

\* Neither a unit, nor a sleeper, nor a link of a waiter list is lost between sem_post,
\* the tick's time-outs, terminations and mutex_unlock, for any number of threads, as
\* long as no request is cancelled while serve_writers copies it.
THEOREM NobodyIsStranded == CancelAccepted = FALSE => (Spec => []NoStrandedWaiter)
<1> SUFFICES ASSUME CancelAccepted = FALSE PROVE Spec => []NoStrandedWaiter
  OBVIOUS
<1>1. WaitInv => NoStrandedWaiter
  BY DEF WaitInv, SyncInv, NoStrandedWaiter
<1> QED BY <1>1, WaitersAccounted, PTL

\* No issuer sleeps on a completed request and no port waiter beside a queued packet
\* or on a closed port, whatever completion, cancellation, deadline and termination
\* it raced with, except for the cancellation of a request that serve_writers has taken
\* off its list and still copies (npfs.c:334-344): the code allows it, and the copy
\* then uses freed memory, of which nothing can be said.
THEOREM NobodySleepsThrough == CancelAccepted = FALSE => (Spec => []NoMissedCompletion)
<1> SUFFICES ASSUME CancelAccepted = FALSE PROVE Spec => []NoMissedCompletion
  OBVIOUS
<1>1. WaitInv => NoMissedCompletion
  BY DEF WaitInv, IssuersAwake, PortInv, NoMissedCompletion
<1> QED BY <1>1, WaitersAccounted, PTL
=============================================================================
