-------------------------- MODULE TelemetryProofs --------------------------
(***************************************************************************)
(* The two classes the rest of cll-telemetry is built on: the safety       *)
(* properties of TaskWithDelayThread for any number of clients and of      *)
(* threads, and of FileEventBatch for any events, sizes and limits and any *)
(* number of failures.                                                     *)
(***************************************************************************)
EXTENDS TaskWithDelayThread, FileEventBatch, FiniteSetTheorems, WellFoundedInduction,
        SequenceTheorems, TLAPS

-----------------------------------------------------------------------------
(* TaskWithDelayThread *)

\* Only a requester that joins the previous worker keeps the mutex over a step.
MutexInv == \A r \in Requesters : rpc[r] = "join" <=> mutex = r

\* `running' is set exactly while a worker is in the loop or about to be started.
RunningInv ==
    running = TRUE <=> \/ \E w \in Workers : pc[w] \in InLoop
                       \/ \E r \in Requesters : rpc[r] = "join"

\* A pending task keeps `running' set.
PendingInv == hasPendingTask = TRUE => running = TRUE

\* The contract: from the call of terminate on, no requester is in requestRun.
ContractInv == opc # "idle" => \A r \in Requesters : rpc[r] = "idle"

\* A worker that waits, or has been woken, still has its task to take.
WaitInv == \A w \in Workers : pc[w] \in {"waiting", "woken"} => hasPendingTask = TRUE

\* The inductive invariant.
IInv ==
    /\ TypeOK
    /\ OneWorker
    /\ MutexInv
    /\ RunningInv
    /\ PendingInv
    /\ ContractInv
    /\ WaitInv
    /\ NoLostWakeup
    /\ StoppedClean

\* Initially no worker exists and nothing is requested.
LEMMA InitIInv == Init => IInv
  BY IdentityAssumption
     DEF Init, IInv, TypeOK, OneWorker, MutexInv, RunningInv, PendingInv, ContractInv, WaitInv,
         NoLostWakeup, StoppedClean, WorkerPC, RequesterPC, OwnerPC, InLoop, joinable

\* Starting a worker after the owned one was joined leaves exactly one worker.
LEMMA StartThread ==
  ASSUME TypeOK, OneWorker, canJoin, NEW w \in Workers, startThread(w)
  PROVE  /\ thread' = w
         /\ pc' = [v \in Workers |-> IF v = w THEN "start" ELSE "none"]
  BY IdentityAssumption
     DEF TypeOK, OneWorker, startThread, joined, canJoin, joinable

\* Every step preserves the inductive invariant.
LEMMA NextIInv == IInv /\ [Next]_vars => IInv'
<1> SUFFICES ASSUME IInv, [Next]_vars PROVE IInv'
  OBVIOUS
<1> USE IdentityAssumption
        DEF IInv, WorkerPC, RequesterPC, OwnerPC, InLoop, joinable, flags
<1>1. ASSUME NEW r \in Requesters, opc = "idle", NEW immediate \in BOOLEAN,
             requestRun(r, immediate)
      PROVE  IInv'
  <2>1. CASE ~running /\ joinable
    <3>1. /\ mutex' = r /\ rpc' = [rpc EXCEPT ![r] = "join"]
          /\ UNCHANGED <<thread, pc, stopping, opc, destructing>>
          /\ hasPendingTask' = TRUE /\ running' = TRUE
          /\ runImmediately' \in BOOLEAN
      BY <1>1, <2>1 DEF requestRun, TypeOK
    <3>2. \A w \in Workers : pc[w] \notin InLoop
      BY <2>1 DEF RunningInv
    <3> QED
      BY <1>1, <3>1, <3>2
         DEF requestRun, TypeOK, OneWorker, MutexInv, RunningInv, PendingInv, ContractInv, WaitInv,
             NoLostWakeup, StoppedClean
  <2>2. CASE ~running /\ ~joinable
    <3>1. PICK w \in Workers : startThread(w)
      BY <1>1, <2>2 DEF requestRun
    <3>2. /\ thread' = w
          /\ pc' = [v \in Workers |-> IF v = w THEN "start" ELSE "none"]
      BY <2>2, <3>1, StartThread DEF canJoin
    <3>3. /\ UNCHANGED <<mutex, rpc, stopping, opc, destructing>>
          /\ hasPendingTask' = TRUE /\ running' = TRUE
          /\ runImmediately' \in BOOLEAN
      BY <1>1, <2>2, <3>1 DEF requestRun, startThread, TypeOK
    <3> QED
      BY <1>1, <3>2, <3>3
         DEF TypeOK, OneWorker, MutexInv, RunningInv, PendingInv, ContractInv, WaitInv,
             NoLostWakeup, StoppedClean
  <2>3. CASE running
    <3>1. /\ rpc' = [rpc EXCEPT ![r] = IF immediate THEN "notify" ELSE "idle"]
          /\ UNCHANGED <<mutex, thread, pc, stopping, opc, destructing>>
          /\ hasPendingTask' = TRUE /\ running' = TRUE
          /\ runImmediately' \in BOOLEAN
          /\ rpc[r] = "idle"
      BY <1>1, <2>3 DEF requestRun, TypeOK
    <3>2. runImmediately' => runImmediately \/ immediate
      BY <1>1 DEF requestRun
    <3>3. MutexInv' /\ RunningInv' /\ PendingInv'
      BY <2>3, <3>1 DEF TypeOK, MutexInv, RunningInv, PendingInv
    <3>4. NoLostWakeup'
      <4>1. CASE immediate
        BY <3>1, <4>1 DEF NoLostWakeup, TypeOK
      <4>2. CASE ~immediate
        BY <3>1, <3>2, <4>2 DEF NoLostWakeup, TypeOK
      <4> QED
        BY <4>1, <4>2
    <3> QED
      BY <1>1, <3>1, <3>3, <3>4 DEF TypeOK, OneWorker, ContractInv, WaitInv, StoppedClean
  <2> QED
    BY <2>1, <2>2, <2>3
<1>2. ASSUME NEW r \in Requesters, requestRunJoin(r) PROVE IInv'
  <2>1. PICK w \in Workers : startThread(w)
    BY <1>2 DEF requestRunJoin
  <2>2. /\ thread' = w
        /\ pc' = [v \in Workers |-> IF v = w THEN "start" ELSE "none"]
    BY <1>2, <2>1, StartThread DEF requestRunJoin
  <2>3. /\ mutex' = Nobody /\ rpc' = [rpc EXCEPT ![r] = "idle"]
        /\ rpc[r] = "join"
        /\ UNCHANGED <<flags, opc, destructing>>
    BY <1>2, <2>1 DEF requestRunJoin, startThread
  <2>4. running = TRUE /\ opc = "idle"
    BY <2>3 DEF RunningInv, ContractInv
  <2> QED
    BY <2>2, <2>3, <2>4
       DEF TypeOK, OneWorker, MutexInv, RunningInv, PendingInv, ContractInv, WaitInv,
           NoLostWakeup, StoppedClean
<1>3. ASSUME NEW r \in Requesters, requestRunNotify(r) PROVE IInv'
  <2>1. pc' = [w \in Workers |-> IF pc[w] = "waiting" THEN "woken" ELSE pc[w]]
    BY <1>3 DEF requestRunNotify, notify_all
  <2>2. /\ rpc' = [rpc EXCEPT ![r] = "idle"] /\ rpc[r] = "notify"
        /\ UNCHANGED <<mutex, flags, thread, opc, destructing>>
    BY <1>3 DEF requestRunNotify
  <2> QED
    BY <2>1, <2>2
       DEF TypeOK, OneWorker, MutexInv, RunningInv, PendingInv, ContractInv, WaitInv,
           NoLostWakeup, StoppedClean
<1>4. ASSUME \A r \in Requesters : rpc[r] = "idle", NEW dtor \in BOOLEAN, terminate(dtor)
      PROVE  IInv'
  BY <1>4
     DEF terminate, TypeOK, OneWorker, MutexInv, RunningInv, PendingInv, ContractInv, WaitInv,
         NoLostWakeup, StoppedClean
<1>5. CASE terminateNotify
  BY <1>5
     DEF terminateNotify, notify_all, TypeOK, OneWorker, MutexInv, RunningInv, PendingInv,
         ContractInv, WaitInv, NoLostWakeup, StoppedClean
<1>6. CASE terminateJoin
  <2>1. /\ opc = "join" /\ opc' \in {"terminated", "destroyed"}
        /\ thread' = Nobody
        /\ UNCHANGED <<mutex, flags, rpc, destructing>>
    BY <1>6 DEF terminateJoin
  <2>2. pc' = [w \in Workers |-> "none"]
    BY <1>6 DEF terminateJoin, joined, canJoin, OneWorker, TypeOK
  <2>3. \A w \in Workers : pc[w] \notin InLoop
    BY <1>6 DEF terminateJoin, canJoin, OneWorker
  <2>4. \A r \in Requesters : rpc[r] = "idle"
    BY <2>1 DEF ContractInv
  <2>5. running = FALSE /\ hasPendingTask = FALSE
    BY <2>3, <2>4 DEF RunningInv, PendingInv, TypeOK
  <2> QED
    BY <2>1, <2>2, <2>4, <2>5
       DEF TypeOK, OneWorker, MutexInv, RunningInv, PendingInv, ContractInv, WaitInv,
           NoLostWakeup, StoppedClean
<1>7. ASSUME NEW w \in Workers, doThreadLoop(w) PROVE IInv'
  <2>1. /\ pc[w] \in {"start", "relock"} /\ mutex = Nobody
        /\ UNCHANGED <<mutex, thread, rpc, opc, destructing, stopping>>
    BY <1>7 DEF doThreadLoop, takeTask
  <2>2. /\ thread = w /\ opc \notin {"terminated", "destroyed"} /\ running = TRUE
        /\ \A v \in Workers : v # w => pc[v] = "none"
        /\ \A r \in Requesters : rpc[r] # "join"
    BY <2>1 DEF OneWorker, StoppedClean, RunningInv, MutexInv
  <2>3. CASE ~hasPendingTask
    <3>1. running' = FALSE /\ pc' = [pc EXCEPT ![w] = "exiting"]
          /\ UNCHANGED <<hasPendingTask, runImmediately>>
      BY <1>7, <2>3 DEF doThreadLoop, takeTask
    <3>2. \A v \in Workers : pc'[v] \notin InLoop /\ pc'[v] # "waiting"
      BY <2>2, <3>1 DEF TypeOK
    <3> QED
      BY <2>1, <2>2, <2>3, <3>1, <3>2
         DEF TypeOK, OneWorker, MutexInv, RunningInv, PendingInv, ContractInv, WaitInv,
             NoLostWakeup, StoppedClean
  <2>4. CASE hasPendingTask /\ ~runImmediately /\ ~stopping
    <3>1. pc' = [pc EXCEPT ![w] = "waiting"] /\ UNCHANGED flags
      BY <1>7, <2>4 DEF doThreadLoop, takeTask
    <3> QED
      BY <2>1, <2>2, <2>4, <3>1
         DEF TypeOK, OneWorker, MutexInv, RunningInv, PendingInv, ContractInv, WaitInv,
             NoLostWakeup, StoppedClean
  <2>5. CASE hasPendingTask /\ (runImmediately \/ stopping)
    <3>1. takeTask(w)
      BY <1>7, <2>5 DEF doThreadLoop
    <3> QED
      BY <2>1, <2>2, <3>1
         DEF takeTask, TypeOK, OneWorker, MutexInv, RunningInv, PendingInv, ContractInv, WaitInv,
             NoLostWakeup, StoppedClean
  <2> QED
    BY <2>3, <2>4, <2>5
<1>8. ASSUME NEW w \in Workers, waitTimeout(w) PROVE IInv'
  BY <1>8
     DEF waitTimeout, TypeOK, OneWorker, MutexInv, RunningInv, PendingInv, ContractInv, WaitInv,
         NoLostWakeup, StoppedClean
<1>9. ASSUME NEW w \in Workers, resume(w) PROVE IInv'
  <2>1. /\ pc[w] = "woken" /\ takeTask(w)
        /\ UNCHANGED <<mutex, thread, rpc, opc, destructing>>
    BY <1>9 DEF resume
  <2>2. /\ opc \notin {"terminated", "destroyed"} /\ running = TRUE
        /\ \A v \in Workers : v # w => pc[v] = "none"
    BY <2>1 DEF OneWorker, StoppedClean, RunningInv
  <2> QED
    BY <2>1, <2>2
       DEF takeTask, TypeOK, OneWorker, MutexInv, RunningInv, PendingInv, ContractInv, WaitInv,
           NoLostWakeup, StoppedClean
<1>10. ASSUME NEW w \in Workers, function(w) PROVE IInv'
  BY <1>10
     DEF function, TypeOK, OneWorker, MutexInv, RunningInv, PendingInv, ContractInv, WaitInv,
         NoLostWakeup, StoppedClean
<1>11. ASSUME NEW w \in Workers, threadExit(w) PROVE IInv'
  BY <1>11
     DEF threadExit, TypeOK, OneWorker, MutexInv, RunningInv, PendingInv, ContractInv, WaitInv,
         NoLostWakeup, StoppedClean
<1>12. CASE UNCHANGED vars
  BY <1>12
     DEF vars, TypeOK, OneWorker, MutexInv, RunningInv, PendingInv, ContractInv, WaitInv,
         NoLostWakeup, StoppedClean
<1> QED
  BY <1>1, <1>2, <1>3, <1>4, <1>5, <1>6, <1>7, <1>8, <1>9, <1>10, <1>11, <1>12
     DEF Next, RequestStep, OwnerStep, WorkerStep, Destroyed

\* Every state of a behaviour of TaskWithDelayThread satisfies the invariant.
THEOREM Invariance == Spec => []IInv
  BY InitIInv, NextIInv, PTL DEF Spec

\* Type correctness.
THEOREM TypeCorrect == Spec => []TypeOK
<1>1. IInv => TypeOK
  BY DEF IInv
<1> QED
  BY <1>1, Invariance, PTL

\* The function runs on one thread at a time, and `thread' owns it.
THEOREM OneWorkerAtATime == Spec => []OneWorker
<1>1. IInv => OneWorker
  BY DEF IInv
<1> QED
  BY <1>1, Invariance, PTL

\* A requested run is never forgotten.
THEOREM RequestsAreNotLost == Spec => []NoLostRequest
<1>1. IInv => NoLostRequest
  BY DEF IInv, TypeOK, PendingInv, RunningInv, NoLostRequest
<1> QED
  BY <1>1, Invariance, PTL

\* An immediate request or terminate never leaves a worker asleep for its delay.
THEOREM WakeupsAreNotLost == Spec => []NoLostWakeup
<1>1. IInv => NoLostWakeup
  BY DEF IInv
<1> QED
  BY <1>1, Invariance, PTL

\* terminate returns with the worker joined and nothing pending.
THEOREM TerminateIsClean == Spec => []StoppedClean
<1>1. IInv => StoppedClean
  BY DEF IInv
<1> QED
  BY <1>1, Invariance, PTL

\* Initially the task is idle and open.
LEMMA InitTask == Init => Task!Init
  BY DEF Init, Task!Init, executing, phase

\* Taking the task begins a run.
LEMMA TakeIsBegin ==
  ASSUME IInv, NEW w \in Workers, pc[w] \in InLoop \ {"running"}, hasPendingTask, takeTask(w),
         UNCHANGED opc
  PROVE  Task!Begin
<1>1. \A v \in Workers : pc[v] # "running"
  BY DEF IInv, OneWorker, InLoop
<1>2. \E v \in Workers : pc'[v] = "running"
  BY DEF takeTask, IInv, TypeOK
<1> QED
  BY <1>1, <1>2 DEF takeTask, Task!Begin, executing, phase

\* Every step of the threads is a step of the abstract task, or invisible to it.
LEMMA NextTask == IInv /\ [Next]_vars => [Task!Next]_(Task!vars)
<1> SUFFICES ASSUME IInv, [Next]_vars PROVE [Task!Next]_(Task!vars)
  OBVIOUS
<1> USE IdentityAssumption DEF flags
<1>1. ASSUME NEW r \in Requesters, opc = "idle", NEW immediate \in BOOLEAN,
             requestRun(r, immediate)
      PROVE  phase = "open" /\ Task!Request
  <2>1. hasPendingTask' = TRUE /\ opc' = opc
    BY <1>1 DEF requestRun
  <2>2. \A w \in Workers : pc'[w] = "running" <=> pc[w] = "running"
    <3>1. CASE UNCHANGED pc
      BY <3>1
    <3>2. CASE ~running /\ ~joinable
      <4>1. PICK w \in Workers : startThread(w)
        BY <1>1, <3>2 DEF requestRun
      <4>2. pc' = [v \in Workers |-> IF v = w THEN "start" ELSE "none"]
        BY <3>2, <4>1, StartThread DEF canJoin, IInv
      <4>3. \A v \in Workers : pc[v] # "running"
        BY <3>2 DEF IInv, OneWorker, joinable
      <4> QED
        BY <4>2, <4>3
    <3> QED
      BY <1>1, <3>1, <3>2 DEF requestRun
  <2> QED
    BY <1>1, <2>1, <2>2 DEF Task!Request, executing, phase
<1>2. ASSUME NEW r \in Requesters, requestRunJoin(r) PROVE UNCHANGED Task!vars
  <2>1. PICK w \in Workers : startThread(w)
    BY <1>2 DEF requestRunJoin
  <2>2. pc' = [v \in Workers |-> IF v = w THEN "start" ELSE "none"]
    BY <1>2, <2>1, StartThread DEF requestRunJoin, IInv
  <2>3. \A v \in Workers : pc[v] # "running"
    BY <1>2 DEF requestRunJoin, canJoin, joinable, IInv, OneWorker
  <2> QED
    BY <1>2, <2>2, <2>3 DEF requestRunJoin, Task!vars, executing, phase
<1>3. ASSUME NEW r \in Requesters, requestRunNotify(r) PROVE UNCHANGED Task!vars
  BY <1>3 DEF requestRunNotify, notify_all, IInv, TypeOK, Task!vars, executing, phase
<1>4. ASSUME NEW dtor \in BOOLEAN, terminate(dtor) PROVE Task!Stop
  BY <1>4 DEF terminate, Task!Stop, executing, phase
<1>5. ASSUME terminateNotify PROVE UNCHANGED Task!vars
  BY <1>5 DEF terminateNotify, notify_all, IInv, TypeOK, Task!vars, executing, phase
<1>6. ASSUME terminateJoin PROVE Task!Stopped
  <2>1. \A w \in Workers : pc[w] \notin InLoop /\ pc'[w] # "running"
    BY <1>6 DEF terminateJoin, canJoin, joinable, joined, IInv, OneWorker, TypeOK, InLoop
  <2>2. \A r \in Requesters : rpc[r] = "idle"
    BY <1>6 DEF terminateJoin, IInv, ContractInv
  <2>3. ~hasPendingTask
    BY <2>1, <2>2 DEF IInv, RunningInv, PendingInv
  <2> QED
    BY <1>6, <2>1, <2>3 DEF terminateJoin, Task!Stopped, executing, phase, InLoop
<1>7. ASSUME NEW w \in Workers, doThreadLoop(w) PROVE [Task!Next]_(Task!vars)
  <2>1. CASE ~hasPendingTask
    BY <1>7, <2>1 DEF doThreadLoop, takeTask, IInv, TypeOK, Task!vars, executing, phase
  <2>2. CASE hasPendingTask /\ ~runImmediately /\ ~stopping
    BY <1>7, <2>2 DEF doThreadLoop, takeTask, IInv, TypeOK, Task!vars, executing, phase
  <2>3. CASE hasPendingTask /\ (runImmediately \/ stopping)
    BY <1>7, <2>3, TakeIsBegin DEF doThreadLoop, InLoop, Task!Next
  <2> QED
    BY <2>1, <2>2, <2>3
<1>8. ASSUME NEW w \in Workers, resume(w) PROVE Task!Begin
  BY <1>8, TakeIsBegin DEF resume, IInv, WaitInv, InLoop
<1>9. ASSUME NEW w \in Workers, function(w) PROVE Task!End
  <2>1. \A v \in Workers : pc'[v] # "running"
    BY <1>9 DEF function, IInv, OneWorker, TypeOK
  <2> QED
    BY <1>9, <2>1 DEF function, Task!End, executing, phase
<1>10. ASSUME NEW w \in Workers, waitTimeout(w) \/ threadExit(w)
       PROVE  UNCHANGED Task!vars
  BY <1>10 DEF waitTimeout, threadExit, IInv, TypeOK, Task!vars, executing, phase
<1>11. CASE UNCHANGED vars
  BY <1>11 DEF vars, Task!vars, executing, phase
<1> QED
  BY <1>1, <1>2, <1>3, <1>4, <1>5, <1>6, <1>7, <1>8, <1>9, <1>10, <1>11
     DEF Next, RequestStep, OwnerStep, WorkerStep, Destroyed, Task!Next

\* TaskWithDelayThread implements the abstract task for any number of clients and threads.
THEOREM Implementation == Spec => ImplementsTask
  BY InitTask, NextTask, Invariance, PTL DEF Spec, ImplementsTask, Task!Spec

-----------------------------------------------------------------------------
(* FileEventBatch: arithmetic and induction *)

\* A nonempty set of natural numbers has a least element.
LEMMA Least ==
    ASSUME NEW T \in SUBSET Nat, T # {}
    PROVE  \E n \in T : \A m \in T : n <= m
<1>1. \E x \in T : \A y \in T : <<y, x>> \notin OpToRel(<, Nat)
  BY NatLessThanWellFounded, WFMin, Zenon
<1>2. \A x, y \in Nat : x < y => <<x, y>> \in OpToRel(<, Nat)
  BY Zenon DEF OpToRel
<1>3. \E x \in T : \A y \in T : ~(y < x)
  BY <1>1, <1>2, Zenon
<1> QED BY <1>3

\* Induction up to n.
LEMMA Climb ==
    ASSUME NEW n \in Nat, NEW T, 0 \in T, \A k \in 1..n : k - 1 \in T => k \in T
    PROVE  \A k \in 0..n : k \in T
<1> DEFINE B == {k \in 0..n : k \notin T}
<1> SUFFICES ASSUME B # {} PROVE FALSE
  OBVIOUS
<1>0. B \in SUBSET Nat
  OBVIOUS
<1>1. PICK k \in B : \A j \in B : k <= j
  <2> HIDE DEF B
  <2> QED BY <1>0, Least
<1>2. k \in 1..n /\ k - 1 \in 0..n
  BY <1>1
<1>3. k - 1 \in T
  BY <1>1, <1>2
<1> QED BY <1>1, <1>2, <1>3

\* The length of a file after a write: Max of two natural numbers.
LEMMA MaxOfTwo ==
    ASSUME NEW a \in Nat, NEW b \in Nat
    PROVE  Max({a, b}) = IF a >= b THEN a ELSE b
<1>1. \E x \in {a, b} : \A y \in {a, b} : x >= y
  OBVIOUS
<1>2. PICK m : m = Max({a, b})
  OBVIOUS
<1>3. m \in {a, b} /\ \A y \in {a, b} : m >= y
  BY <1>1, <1>2 DEF Max
<1> QED BY <1>2, <1>3

\* Min of a nonempty set of natural numbers is the least of them.
LEMMA MinOf ==
    ASSUME NEW T \in SUBSET Nat, T # {}
    PROVE  Min(T) \in T /\ \A y \in T : Min(T) <= y
<1>1. \E x \in T : \A y \in T : x <= y
  BY Least
<1> QED BY <1>1 DEF Min

-----------------------------------------------------------------------------
(* Cells *)

AnyCell == {Hole} \cup (Events \X Nat)
Disks   == Seq(AnyCell)

\* The first o cells.
LEMMA HeadOf ==
    ASSUME NEW d \in Disks, NEW o \in 0..Len(d), NEW r, r = SubSeq(d, 1, o)
    PROVE  /\ r \in Disks /\ Len(r) = o
           /\ \A i \in 1..o : r[i] = d[i]
BY DEF Disks

\* The cells of an event: the last one, and no other, is a newline.
LEMMA CellsOf ==
    ASSUME NEW e \in Events
    PROVE  /\ Size[e] \in Nat \ {0}
           /\ Cells(e) \in Disks /\ Len(Cells(e)) = Size[e]
           /\ \A i \in 1..Size[e] : Cells(e)[i] = <<e, i>> /\ (IsNewline(<<e, i>>) <=> i = Size[e])
           /\ ~IsNewline(Hole)
<1>1. PICK n : n = Size[e] /\ n \in Nat \ {0}
  BY SizeAssumption
<1>2. \A i \in 1..n : <<e, i>> \in AnyCell
  BY DEF AnyCell
<1>3. PICK c : c = Cells(e) /\ c = [i \in 1..n |-> <<e, i>>]
  BY <1>1 DEF Cells
<1>4. c \in Seq(AnyCell) /\ Len(c) = n
  BY <1>1, <1>2, <1>3
<1>5. \A i \in 1..n : c[i] = <<e, i>> /\ (IsNewline(<<e, i>>) <=> i = n)
  <2>1. \A i \in 1..n : <<e, i>> # Hole
    BY SizeAssumption DEF Hole
  <2> QED BY <1>1, <1>3, <2>1 DEF IsNewline
<1>6. ~IsNewline(Hole)
  BY DEF IsNewline
<1> QED BY <1>1, <1>3, <1>4, <1>5, <1>6 DEF Disks

\* The first o cells of an event.
LEMMA HeadCells ==
    ASSUME NEW e \in Events, NEW o \in 0..Size[e], NEW c, c = SubSeq(Cells(e), 1, o)
    PROVE  o \in Nat /\ c \in Disks /\ Len(c) = o /\ \A i \in 1..o : c[i] = <<e, i>>
<1>0. PICK z \in Nat : z = Size[e]
  BY SizeAssumption
<1>1. PICK a : /\ a = Cells(e) /\ a \in Disks /\ Len(a) = z
               /\ \A i \in 1..z : a[i] = <<e, i>>
  <2>1. Cells(e) \in Disks /\ Len(Cells(e)) = z
    BY <1>0, CellsOf
  <2>2. Cells(e) = [i \in 1..z |-> <<e, i>>]
    BY <1>0 DEF Cells
  <2> QED BY <2>1, <2>2
<1>2. o \in Nat /\ o \in 0..Len(a) /\ c = SubSeq(a, 1, o) /\ \A i \in 1..o : i \in 1..z
  BY <1>0, <1>1
<1>3. c \in Disks /\ Len(c) = o /\ \A i \in 1..o : c[i] = a[i]
  BY <1>1, <1>2, HeadOf
<1> QED BY <1>1, <1>2, <1>3

\* write() at pos: its cells lie at pos, what was there elsewhere stays, a gap is zeros.
LEMMA Written ==
    ASSUME NEW d \in Disks, NEW pos \in Nat, NEW c \in Disks, NEW w, w = WriteAt(d, pos, c)
    PROVE  /\ w \in Disks
           /\ Len(w) = IF Len(d) >= pos + Len(c) THEN Len(d) ELSE pos + Len(c)
           /\ \A i \in 1..Len(w) : w[i] = IF i > pos /\ i <= pos + Len(c) THEN c[i - pos]
                                          ELSE IF i <= Len(d) THEN d[i] ELSE Hole
<1>1. PICK m \in Nat, n \in Nat : m = Len(d) /\ n = Len(c)
  BY DEF Disks
<1>2. PICK x \in Nat : x = Max({m, pos + n}) /\ x = IF m >= pos + n THEN m ELSE pos + n
  BY MaxOfTwo
<1>3. w = [i \in 1..x |-> IF i > pos /\ i <= pos + n THEN c[i - pos]
                          ELSE IF i <= m THEN d[i] ELSE Hole]
  BY <1>1, <1>2 DEF WriteAt
<1>4. \A i \in 1..x : (IF i > pos /\ i <= pos + n THEN c[i - pos]
                       ELSE IF i <= m THEN d[i] ELSE Hole) \in AnyCell
  BY <1>1 DEF Disks, AnyCell
<1>5. w \in Seq(AnyCell) /\ Len(w) = x
  BY <1>3, <1>4
<1> QED BY <1>1, <1>2, <1>3, <1>5 DEF Disks

\* ftruncate() keeps the first n cells.
LEMMA Truncated ==
    ASSUME NEW d \in Disks, NEW n \in Nat, NEW t, t = ftruncate(d, n)
    PROVE  /\ t \in Disks /\ Len(t) = n
           /\ \A i \in 1..n : t[i] = IF i <= Len(d) THEN d[i] ELSE Hole
<1>1. \A i \in 1..n : (IF i <= Len(d) THEN d[i] ELSE Hole) \in AnyCell
  BY DEF Disks, AnyCell
<1>2. t = [i \in 1..n |-> IF i <= Len(d) THEN d[i] ELSE Hole]
  BY DEF ftruncate
<1>3. t \in Seq(AnyCell) /\ Len(t) = n
  BY <1>1, <1>2
<1> QED BY <1>2, <1>3 DEF Disks

\* What follows the first s cells.
LEMMA RestOf ==
    ASSUME NEW d \in Disks, NEW s \in 0..Len(d), NEW r, r = SubSeq(d, s + 1, Len(d))
    PROVE  /\ r \in Disks /\ Len(r) = Len(d) - s
           /\ \A i \in 1..Len(r) : r[i] = d[s + i]
BY DEF Disks

-----------------------------------------------------------------------------
(* Lines *)

\* The lines that end in the first n cells of d.
Upto(d, n)  == {j \in Newlines(d) : j <= n}
Lines(d, n) == Cardinality(Upto(d, n))

\* They are counted cell by cell.
LEMMA LinesCounted ==
    ASSUME NEW d \in Disks
    PROVE  /\ Newlines(d) \in SUBSET (1..Len(d)) /\ Len(d) \in Nat
           /\ \A n \in Nat : Lines(d, n) \in Nat /\ IsFiniteSet(Upto(d, n))
           /\ Lines(d, 0) = 0
           /\ Upto(d, Len(d)) = Newlines(d)
           /\ \A n \in 1..Len(d) :
                 Lines(d, n) = IF IsNewline(d[n]) THEN Lines(d, n - 1) + 1 ELSE Lines(d, n - 1)
<1>1. DOMAIN d = 1..Len(d) /\ Len(d) \in Nat
  BY DEF Disks
<1>2. PICK N : /\ N = Newlines(d) /\ N \in SUBSET (1..Len(d))
               /\ \A j \in 1..Len(d) : (j \in N => IsNewline(d[j])) /\ (IsNewline(d[j]) => j \in N)
  <2>1. PICK D : D = 1..Len(d) /\ DOMAIN d = D
    BY <1>1
  <2>2. Newlines(d) = {j \in D : IsNewline(d[j])}
    BY <2>1 DEF Newlines
  <2> QED BY <2>1, <2>2, Zenon
<1>3. IsFiniteSet(N)
  <2>1. IsFiniteSet(1..Len(d))
    BY <1>1, FS_Interval
  <2> QED BY <1>2, <2>1, FS_Subset
<1>4. ASSUME NEW n \in Nat PROVE Lines(d, n) \in Nat /\ IsFiniteSet(Upto(d, n))
  <2>1. Upto(d, n) \in SUBSET N
    BY <1>2 DEF Upto
  <2>2. IsFiniteSet(Upto(d, n))
    BY <1>3, <2>1, FS_Subset
  <2> QED BY <2>2, FS_CardinalityType DEF Lines
<1>5. Lines(d, 0) = 0
  <2>1. Upto(d, 0) = {}
    BY <1>1, <1>2 DEF Upto
  <2> QED BY <2>1, FS_EmptySet DEF Lines
<1>6. Upto(d, Len(d)) = Newlines(d)
  BY <1>1, <1>2 DEF Upto
<1>7. ASSUME NEW n \in 1..Len(d)
      PROVE  Lines(d, n) = IF IsNewline(d[n]) THEN Lines(d, n - 1) + 1 ELSE Lines(d, n - 1)
  <2>1. n - 1 \in Nat /\ n \in Nat
    BY <1>1
  <2>2. PICK A, B : A = Upto(d, n) /\ B = Upto(d, n - 1) /\ IsFiniteSet(B) /\ IsFiniteSet(A)
    BY <1>4, <2>1
  <2>3. CASE IsNewline(d[n])
    <3>1. A = B \cup {n} /\ n \notin B
      BY <1>1, <1>2, <2>1, <2>2, <2>3 DEF Upto
    <3>2. Cardinality(A) = Cardinality(B) + 1
      BY <2>2, <3>1, FS_AddElement
    <3> QED BY <2>2, <2>3, <3>2 DEF Lines
  <2>4. CASE ~IsNewline(d[n])
    <3>1. A = B
      BY <1>1, <1>2, <2>1, <2>2, <2>4 DEF Upto
    <3> QED BY <2>2, <2>4, <3>1 DEF Lines
  <2> QED BY <2>3, <2>4
<1> QED BY <1>1, <1>2, <1>4, <1>5, <1>6, <1>7

\* Files that begin with the same cells have the same lines in them.
LEMMA LinesSame ==
    ASSUME NEW d \in Disks, NEW w \in Disks, NEW n \in Nat, n <= Len(d), n <= Len(w),
           \A i \in 1..n : w[i] = d[i]
    PROVE  Upto(w, n) = Upto(d, n) /\ Lines(w, n) = Lines(d, n)
<1>1. DOMAIN d = 1..Len(d) /\ DOMAIN w = 1..Len(w) /\ Len(d) \in Nat /\ Len(w) \in Nat
  BY DEF Disks
<1>2. Upto(w, n) = Upto(d, n)
  BY <1>1 DEF Upto, Newlines
<1> QED BY <1>2 DEF Lines

\* The k-th line has an end.
LEMMA KthLine ==
    ASSUME NEW d \in Disks, NEW k \in Nat, k <= Cardinality(Newlines(d))
    PROVE  /\ LineEnd(d, k) \in 0..Len(d) /\ Lines(d, LineEnd(d, k)) = k
           /\ IF k = 0 THEN LineEnd(d, k) = 0
              ELSE LineEnd(d, k) \in Newlines(d) /\ LineEnd(d, k) > 0 /\ IsNewline(d[LineEnd(d, k)])
<1>1. PICK N \in Nat : N = Len(d)
  BY LinesCounted
<1>2. CASE k = 0
  <2>1. LineEnd(d, k) = 0
    BY <1>2 DEF LineEnd
  <2> QED BY <1>1, <1>2, <2>1, LinesCounted
<1>3. CASE k # 0
  <2> DEFINE T == {m \in 0..N : Lines(d, m) >= k}
  <2>1. T \in SUBSET Nat /\ N \in T
    <3>1. Lines(d, N) = Cardinality(Newlines(d))
      BY <1>1, LinesCounted DEF Lines
    <3> QED BY <1>1, <3>1
  <2>2. PICK m \in T : \A j \in T : m <= j
    <3> HIDE DEF T
    <3> QED BY <2>1, Least
  <2>3. m \in 1..N /\ m - 1 \in Nat /\ m - 1 \notin T
    <3>1. m # 0
      BY <1>3, <2>2, LinesCounted
    <3> QED BY <2>2, <3>1
  <2>4. Lines(d, m - 1) < k /\ Lines(d, m - 1) \in Nat /\ Lines(d, m) >= k
    BY <2>2, <2>3, LinesCounted
  <2>5. Lines(d, m) = IF IsNewline(d[m]) THEN Lines(d, m - 1) + 1 ELSE Lines(d, m - 1)
    BY <1>1, <2>3, LinesCounted
  <2>6. Lines(d, m) = k /\ IsNewline(d[m])
    BY <2>4, <2>5
  <2>7. m \in Newlines(d)
    <3>1. m \in DOMAIN d
      BY <1>1, <2>3 DEF Disks
    <3> QED BY <2>6, <3>1 DEF Newlines
  <2>8. \E i \in Newlines(d) : Lines(d, i) = k
    BY <2>6, <2>7
  <2>9. PICK i : i = LineEnd(d, k) /\ i \in Newlines(d) /\ Lines(d, i) = k
    <3>1. LineEnd(d, k) = CHOOSE i \in Newlines(d) : Lines(d, i) = k
      BY <1>3 DEF LineEnd, Lines, Upto
    <3> QED BY <2>8, <3>1
  <2>10. IsNewline(d[i])
    BY <2>9 DEF Newlines
  <2>11. i \in 1..N
    BY <1>1, <2>9, LinesCounted
  <2> QED BY <1>1, <1>3, <2>9, <2>10, <2>11
<1> QED BY <1>2, <1>3

\* The end of the last line: nothing behind it is a newline.
LEMMA LastLine ==
    ASSUME NEW d \in Disks, NEW E, E = LineEnd(d, Cardinality(Newlines(d)))
    PROVE  /\ E \in 0..Len(d) /\ (E = 0 \/ IsNewline(d[E])) /\ Cardinality(Newlines(d)) \in Nat
           /\ \A j \in Newlines(d) : j <= E
<1>1. PICK k \in Nat : k = Cardinality(Newlines(d)) /\ k = Lines(d, Len(d))
  BY LinesCounted DEF Lines
<1>2. /\ E \in 0..Len(d) /\ Lines(d, E) = k
      /\ IF k = 0 THEN E = 0 ELSE E \in Newlines(d) /\ E > 0 /\ IsNewline(d[E])
  <2>1. k <= Cardinality(Newlines(d)) /\ E = LineEnd(d, k)
    BY <1>1
  <2> QED BY <2>1, KthLine
<1>3. \A j \in Newlines(d) : j <= E
  <2>1. PICK A, B : A = Upto(d, E) /\ B = Newlines(d)
    OBVIOUS
  <2>2. IsFiniteSet(B) /\ A \in SUBSET B
    BY <2>1, LinesCounted DEF Upto
  <2>3. Cardinality(A) = Cardinality(B)
    BY <1>1, <1>2, <2>1 DEF Lines
  <2>4. A = B
    BY <2>2, <2>3, FS_Subset
  <2> QED BY <2>1, <2>4 DEF Upto
<1> QED BY <1>1, <1>2, <1>3

\* The lines of what follows a cut.
LEMMA LinesBehind ==
    ASSUME NEW d \in Disks, NEW s \in 0..Len(d), NEW r \in Disks, Len(r) = Len(d) - s,
           \A i \in 1..Len(r) : r[i] = d[s + i]
    PROVE  Cardinality(Newlines(r)) = Cardinality(Newlines(d)) - Lines(d, s)
<1>1. PICK n \in Nat : n = Len(r) /\ s + n = Len(d) /\ s \in Nat
  <2>1. Len(r) \in Nat /\ Len(d) \in Nat
    BY DEF Disks
  <2>2. PICK n, m : n = Len(r) /\ m = Len(d) /\ n \in Nat /\ m \in Nat
    BY <2>1
  <2>3. s \in Nat /\ n = m - s
    BY <2>2
  <2>4. n \in Nat /\ s + n = m
    BY <2>2, <2>3
  <2> QED BY <2>2, <2>3, <2>4
<1> DEFINE T == {k \in 0..n : Lines(r, k) = Lines(d, s + k) - Lines(d, s)}
<1>2. Lines(d, s) \in Nat /\ Lines(r, 0) = 0
  BY <1>1, LinesCounted
<1>3. 0 \in T
  BY <1>1, <1>2
<1>4. ASSUME NEW k \in 1..n, k - 1 \in T PROVE k \in T
  <2>1. PICK m : m = s + k /\ m \in 1..Len(d) /\ m - 1 = s + (k - 1) /\ m - 1 \in Nat /\ k - 1 \in Nat
    BY <1>1
  <2>2. r[k] = d[m]
    BY <1>1, <2>1
  <2>3. Lines(r, k) = IF IsNewline(r[k]) THEN Lines(r, k - 1) + 1 ELSE Lines(r, k - 1)
    BY <1>1, LinesCounted
  <2>4. Lines(d, m) = IF IsNewline(d[m]) THEN Lines(d, m - 1) + 1 ELSE Lines(d, m - 1)
    BY <2>1, LinesCounted
  <2>5. Lines(r, k - 1) = Lines(d, m - 1) - Lines(d, s)
    BY <1>4, <2>1
  <2>6. Lines(d, m - 1) \in Nat
    BY <2>1, LinesCounted
  <2>7. Lines(r, k) = Lines(d, m) - Lines(d, s)
    BY <1>2, <2>2, <2>3, <2>4, <2>5, <2>6
  <2> QED BY <1>1, <2>1, <2>7
<1>5. n \in T
  <2> HIDE DEF T
  <2>1. \A k \in 0..n : k \in T
    BY <1>3, <1>4, Climb
  <2> QED BY <1>1, <2>1
<1>6. Lines(r, Len(r)) = Cardinality(Newlines(r)) /\ Lines(d, Len(d)) = Cardinality(Newlines(d))
  BY LinesCounted DEF Lines
<1> QED BY <1>1, <1>5, <1>6

\* An event appended is one line more.
LEMMA OneLineMore ==
    ASSUME NEW d \in Disks, NEW e \in Events, NEW w, w = WriteAt(d, Len(d), Cells(e))
    PROVE  /\ w \in Disks /\ Len(w) = Len(d) + Size[e]
           /\ \A i \in 1..Len(d) : w[i] = d[i]
           /\ \A i \in 1..Size[e] : w[Len(d) + i] = <<e, i>>
           /\ IsNewline(w[Len(w)])
           /\ Cardinality(Newlines(w)) = Cardinality(Newlines(d)) + 1
<1>0. Len(d) \in Nat /\ Size[e] \in Nat \ {0}
  BY CellsOf DEF Disks
<1>1. PICK n, z : n = Len(d) /\ z = Size[e] /\ n \in Nat /\ z \in Nat \ {0}
  BY <1>0, Zenon
<1>2. PICK c : /\ c = Cells(e) /\ c \in Disks /\ Len(c) = z
               /\ \A i \in 1..z : c[i] = <<e, i>> /\ (IsNewline(<<e, i>>) <=> i = z)
  BY <1>1, CellsOf
<1>3. /\ w \in Disks /\ Len(w) = n + z
      /\ \A i \in 1..Len(w) : w[i] = IF i > n /\ i <= n + z THEN c[i - n]
                                     ELSE IF i <= n THEN d[i] ELSE Hole
  <2>1. w = WriteAt(d, n, c) /\ n \in Nat
    BY <1>1, <1>2
  <2>2. /\ w \in Disks
        /\ Len(w) = IF Len(d) >= n + Len(c) THEN Len(d) ELSE n + Len(c)
        /\ \A i \in 1..Len(w) : w[i] = IF i > n /\ i <= n + Len(c) THEN c[i - n]
                                       ELSE IF i <= Len(d) THEN d[i] ELSE Hole
    BY <1>2, <2>1, Written
  <2> QED BY <1>1, <1>2, <2>2
<1>4. \A i \in 1..n : w[i] = d[i]
  <2> SUFFICES ASSUME NEW i \in 1..n PROVE w[i] = d[i]
    OBVIOUS
  <2>1. i \in 1..Len(w) /\ ~(i > n) /\ i <= n
    BY <1>1, <1>3
  <2> QED BY <1>3, <2>1
<1>5. \A i \in 1..z : w[n + i] = <<e, i>>
  <2> SUFFICES ASSUME NEW i \in 1..z PROVE w[n + i] = <<e, i>>
    OBVIOUS
  <2>1. PICK j : j = n + i /\ j \in 1..(n + z) /\ j > n /\ j <= n + z /\ j - n = i
    BY <1>1
  <2>2. w[j] = c[i]
    BY <1>3, <2>1
  <2> QED BY <1>2, <2>1, <2>2
<1>6. IsNewline(w[n + z]) /\ \A i \in 1..z : i # z => ~IsNewline(w[n + i])
  <2>1. z \in 1..z
    BY <1>1
  <2> QED BY <1>2, <1>5, <2>1
<1>7. Newlines(w) = Newlines(d) \cup {n + z} /\ n + z \notin Newlines(d)
  <2>1. DOMAIN w = 1..(n + z) /\ DOMAIN d = 1..n
    BY <1>1, <1>3 DEF Disks
  <2>2. \A j \in 1..(n + z) : j \in 1..n \/ (j - n \in 1..z /\ j = n + (j - n))
    BY <1>1
  <2>3. n + z \notin 1..n /\ n + z \in 1..(n + z) /\ \A j \in 1..n : j \in 1..(n + z)
    BY <1>1
  <2>4. ASSUME NEW j \in Newlines(w) PROVE j \in Newlines(d) \cup {n + z}
    <3>1. j \in 1..(n + z) /\ IsNewline(w[j])
      BY <2>1 DEF Newlines
    <3>2. CASE j \in 1..n
      BY <1>4, <2>1, <3>1, <3>2 DEF Newlines
    <3>3. CASE j - n \in 1..z /\ j = n + (j - n)
      BY <1>6, <3>1, <3>3
    <3> QED BY <2>2, <3>1, <3>2, <3>3
  <2>5. ASSUME NEW j \in Newlines(d) PROVE j \in Newlines(w)
    BY <1>4, <2>1, <2>3 DEF Newlines
  <2>6. n + z \in Newlines(w) /\ n + z \notin Newlines(d)
    BY <1>6, <2>1, <2>3 DEF Newlines
  <2> QED BY <2>4, <2>5, <2>6
<1>8. Cardinality(Newlines(w)) = Cardinality(Newlines(d)) + 1
  <2>1. IsFiniteSet(Newlines(d))
    BY <1>1, LinesCounted
  <2> QED BY <1>7, <2>1, FS_AddElement
<1> QED BY <1>1, <1>3, <1>4, <1>5, <1>6, <1>8

-----------------------------------------------------------------------------
(* The inductive invariant of the file *)

Objects == [open : BOOLEAN, pos : Nat, fileSize : Nat, eventCount : Int, streamAtEnd : BOOLEAN,
            finalized : BOOLEAN, maxCount : Nat, maxSize : Nat]

\* Event e stands at cell p + 1 as a line of its own, within the first n cells.
Stands(d, e, p, n) == /\ p + Size[e] <= n
                      /\ \A i \in 1..Size[e] : d[p + i] = <<e, i>>
                      /\ p = 0 \/ IsNewline(d[p])
AllStand(d, n, evts) == \A e \in evts : \E p \in Nat : Stands(d, e, p, n)

\* The cells the code still looks at: an open object those up to its cached length.
Reach(f, d) == IF f.open THEN f.fileSize ELSE Len(d)

\* The events that must survive: all that are pending or, once a write() of addEvent failed,
\* those stored before.
Guarded == (IF errors.add = 0 THEN ToSet(stored) ELSE older) \ acked

FileTypes ==
    /\ disk \in Disks /\ file \in Objects /\ list \in [events : Nat, size : Int]
    /\ errors \in [add : Nat, copy : Nat] /\ cuts \in Nat
    /\ stored \in Seq(Events) /\ older \subseteq ToSet(stored)

\* The list in flight ends with a line, whatever was written since.
InBounds(d, f, l) ==
    /\ f.open => f.fileSize <= Len(d) /\ (f.streamAtEnd => f.pos >= f.fileSize)
    /\ l # NoList => f.open /\ l.size \in 0..f.fileSize /\ (l.size = 0 \/ IsNewline(d[l.size]))

EndsInLine(d) == Len(d) = 0 \/ IsNewline(d[Len(d)])

\* What the object has cached is right; if something was appended since the list was taken,
\* the file is longer than the list.
Cached(d, f, l, c) ==
    f.open =>
        /\ f.fileSize = Len(d)
        /\ f.streamAtEnd => f.pos = Len(d) /\ (l # NoList => l.size < Len(d))
        /\ l # NoList => l.events = Lines(d, l.size)
        /\ c = 0 => f.eventCount = Cardinality(Newlines(d)) /\ EndsInLine(d)

FileInv ==
    /\ FileTypes
    /\ InBounds(disk, file, list)
    /\ errors.add = 0 => Cached(disk, file, list, errors.copy)
    /\ errors.copy = 0 /\ cuts = 0 => AllStand(disk, Reach(file, disk), Guarded)

\* Events stay where the front of the file stays.
LEMMA StandStill ==
    ASSUME NEW d, NEW w, NEW n \in Nat, NEW m \in Nat, n <= m, \A i \in 1..n : w[i] = d[i],
           NEW G \in SUBSET Events, NEW H, AllStand(d, n, H), G \subseteq H
    PROVE  AllStand(w, m, G)
<1> SUFFICES ASSUME NEW e \in G PROVE \E p \in Nat : Stands(w, e, p, m)
  BY DEF AllStand
<1>1. PICK p \in Nat : Stands(d, e, p, n)
  BY DEF AllStand
<1>2. PICK z \in Nat : z = Size[e] /\ z > 0
  BY SizeAssumption
<1>3. p + z <= n /\ (\A i \in 1..z : d[p + i] = <<e, i>>) /\ (p = 0 \/ IsNewline(d[p]))
  BY <1>1, <1>2 DEF Stands
<1>4. \A i \in 1..z : w[p + i] = <<e, i>>
  <2> SUFFICES ASSUME NEW i \in 1..z PROVE w[p + i] = <<e, i>>
    OBVIOUS
  <2>1. p + i \in 1..n
    BY <1>2, <1>3
  <2> QED BY <1>3, <2>1
<1>5. p = 0 \/ IsNewline(w[p])
  <2>1. p # 0 => p \in 1..n
    BY <1>2, <1>3
  <2> QED BY <1>3, <2>1
<1>6. p + z <= m
  BY <1>3
<1> QED BY <1>2, <1>4, <1>5, <1>6 DEF Stands

\* The cells of an event that stands in the file.
LEMMA StandsWhole ==
    ASSUME NEW d \in Disks, NEW e \in Events, NEW p \in Nat, p + Size[e] <= Len(d),
           \A i \in 1..Size[e] : d[p + i] = <<e, i>>
    PROVE  SubSeq(d, p + 1, p + Size[e]) = Cells(e)
<1>1. PICK z \in Nat : z = Size[e] /\ z > 0
  BY SizeAssumption
<1>2. PICK s : s = SubSeq(d, p + 1, p + z)
  OBVIOUS
<1>3. Len(d) \in Nat /\ d \in Seq(AnyCell)
  BY DEF Disks
<1>4. s = [i \in 1..z |-> d[p + i]]
  BY <1>1, <1>2, <1>3
<1> QED BY <1>1, <1>2, <1>4 DEF Cells

\* Events behind a line end stay whole when the lines before it are cut off.
LEMMA StandBehind ==
    ASSUME NEW d, NEW r, NEW n \in Nat, NEW s \in 0..n, s = 0 \/ IsNewline(d[s]),
           NEW m \in Nat, n - s <= m, \A i \in 1..(n - s) : r[i] = d[s + i],
           NEW G \in SUBSET Events, NEW H, AllStand(d, n, H), G \subseteq H,
           \A e \in G : \A p \in Nat : Stands(d, e, p, n) => ~(p + Size[e] <= s)
    PROVE  AllStand(r, m, G)
<1> SUFFICES ASSUME NEW e \in G PROVE \E p \in Nat : Stands(r, e, p, m)
  BY DEF AllStand
<1>1. PICK p \in Nat : Stands(d, e, p, n)
  BY DEF AllStand
<1>2. PICK z \in Nat : z = Size[e] /\ z > 0
  BY SizeAssumption
<1>3. p + z <= n /\ (\A i \in 1..z : d[p + i] = <<e, i>>) /\ (p = 0 \/ IsNewline(d[p])) /\ p + z > s
  BY <1>1, <1>2 DEF Stands
<1>4. p >= s
  <2> SUFFICES ASSUME p < s PROVE FALSE
    BY <1>3
  <2>1. PICK i : i = s - p /\ i \in 1..z /\ i # z /\ p + i = s
    BY <1>2, <1>3
  <2>2. d[s] = <<e, i>> /\ IsNewline(d[s])
    BY <1>3, <2>1
  <2> QED BY <1>2, <2>1, <2>2, CellsOf
<1>5. PICK q \in Nat : q = p - s /\ q + z <= m /\ q + z <= n - s
  BY <1>3, <1>4
<1>6. \A i \in 1..z : r[q + i] = <<e, i>>
  <2> SUFFICES ASSUME NEW i \in 1..z PROVE r[q + i] = <<e, i>>
    OBVIOUS
  <2>1. q + i \in 1..(n - s) /\ s + (q + i) = p + i
    BY <1>4, <1>5
  <2>2. r[q + i] = d[s + (q + i)]
    BY <2>1
  <2> QED BY <1>3, <2>1, <2>2
<1>7. q = 0 \/ IsNewline(r[q])
  <2> SUFFICES ASSUME q # 0 PROVE IsNewline(r[q])
    OBVIOUS
  <2>1. q \in 1..(n - s) /\ s + q = p /\ p # 0
    BY <1>2, <1>4, <1>5
  <2>2. r[q] = d[s + q]
    BY <2>1
  <2> QED BY <1>3, <2>1, <2>2
<1> QED BY <1>2, <1>5, <1>6, <1>7 DEF Stands

\* The fields of the object, the list and the counters have their types, and the guarded
\* events are events.
LEMMA FileFields ==
    ASSUME FileInv
    PROVE  /\ file.open \in BOOLEAN /\ file.pos \in Nat /\ file.fileSize \in Nat /\ file.eventCount \in Int
           /\ file.streamAtEnd \in BOOLEAN
           /\ errors.add \in Nat /\ errors.copy \in Nat /\ cuts \in Nat /\ Len(disk) \in Nat
           /\ list.events \in Nat /\ list.size \in Int
           /\ Guarded \in SUBSET Events /\ Reach(file, disk) \in 0..Len(disk)
<1>1. FileTypes /\ InBounds(disk, file, list)
  BY DEF FileInv
<1>2. /\ file.open \in BOOLEAN /\ file.pos \in Nat /\ file.fileSize \in Nat /\ file.eventCount \in Int
      /\ file.streamAtEnd \in BOOLEAN
  BY <1>1 DEF FileTypes, Objects
<1>3. /\ errors.add \in Nat /\ errors.copy \in Nat /\ cuts \in Nat /\ Len(disk) \in Nat
      /\ list.events \in Nat /\ list.size \in Int
  BY <1>1 DEF FileTypes, Disks
<1>4. Guarded \in SUBSET Events
  <2>1. ToSet(stored) \in SUBSET Events
    BY <1>1 DEF FileTypes, ToSet
  <2> QED BY <1>1, <2>1 DEF FileTypes, Guarded
<1>5. Reach(file, disk) \in 0..Len(disk)
  BY <1>1, <1>2, <1>3 DEF Reach, InBounds
<1> QED BY <1>2, <1>3, <1>4, <1>5

\* A step that leaves the file and what the object knows of it, and at most drops the list,
\* keeps the invariant.
LEMMA FileSame ==
    ASSUME FileInv, disk' = disk, file' \in Objects, file'.open = file.open, file'.pos = file.pos,
           file'.fileSize = file.fileSize, file'.eventCount = file.eventCount,
           file'.streamAtEnd = file.streamAtEnd, list' = list \/ list' = NoList,
           errors' = errors, cuts' = cuts, stored' = stored, acked' = acked, older' = older
    PROVE  FileInv'
<1>1. FileTypes'
  <2>1. NoList \in [events : Nat, size : Int]
    BY DEF NoList
  <2> QED BY <2>1 DEF FileInv, FileTypes
<1>2. InBounds(disk, file, list)'
  BY DEF FileInv, InBounds
<1>3. (errors.add = 0 => Cached(disk, file, list, errors.copy))'
  BY DEF FileInv, Cached
<1>4. (errors.copy = 0 /\ cuts = 0 => AllStand(disk, Reach(file, disk), Guarded))'
  <2>1. Reach(file', disk') = Reach(file, disk) /\ Guarded' = Guarded
    BY DEF Reach, Guarded
  <2> QED BY <2>1 DEF FileInv
<1> QED BY <1>1, <1>2, <1>3, <1>4 DEF FileInv

\* The object is gone (destructor or death): the invariant only asks that the guarded events
\* stand somewhere in the file.
LEMMA FileLeft ==
    ASSUME FileInv, file' = Closed, list' = NoList, disk' \in Disks, errors' \in [add : Nat, copy : Nat],
           cuts' \in Nat, stored' \in Seq(Events), older' \subseteq ToSet(stored'),
           errors'.copy = 0 /\ cuts' = 0 => AllStand(disk', Len(disk'), Guarded')
    PROVE  FileInv'
<1>1. Closed.open = FALSE /\ Closed \in Objects
  BY DEF Closed, Objects
<1>2. NoList \in [events : Nat, size : Int]
  BY DEF NoList
<1>3. FileTypes'
  BY <1>1, <1>2 DEF FileTypes
<1>4. InBounds(disk', file', list')
  BY <1>1 DEF InBounds
<1>5. Cached(disk', file', list', errors'.copy)
  BY <1>1 DEF Cached
<1>6. Reach(file', disk') = Len(disk')
  BY <1>1 DEF Reach
<1> QED BY <1>3, <1>4, <1>5, <1>6 DEF FileInv

\* The constructor trims what follows the last line: no guarded event ends there, and the
\* length and the count are then those of the file.
LEMMA OpenKept ==
    ASSUME FileInv, NEW limit \in FileLimits, NEW write \in BOOLEAN, open(limit, write)
    PROVE  FileInv'
<1>1. PICK d, E, k : d = disk /\ E = LineEnd(disk, k) /\ k = Cardinality(Newlines(disk))
  OBVIOUS
<1>2. /\ ~file.open /\ disk' = ftruncate(d, E) /\ list' = list /\ stored' = stored /\ acked' = acked
      /\ cuts' = cuts /\ errors' = errors /\ older' = older
      /\ file' = [open |-> TRUE, pos |-> Len(d), fileSize |-> E, eventCount |-> k,
                  streamAtEnd |-> FALSE, finalized |-> ~write, maxCount |-> limit[1],
                  maxSize |-> limit[2]]
  BY <1>1 DEF open, history
<1>3. d \in Disks /\ Len(d) \in Nat /\ Guarded \in SUBSET Events /\ list = NoList
  BY <1>1, <1>2, FileFields DEF FileInv, FileTypes, InBounds
<1>4. E \in 0..Len(d) /\ (E = 0 \/ IsNewline(d[E])) /\ k \in Nat /\ \A j \in Newlines(d) : j <= E
  BY <1>1, <1>3, LastLine
<1>5. E \in Nat /\ E <= Len(d)
  BY <1>3, <1>4
<1>6. disk' \in Disks /\ Len(disk') = E /\ \A i \in 1..E : disk'[i] = d[i]
  <2>0. PICK w : w = disk' /\ w = ftruncate(d, E)
    BY <1>2
  <2>1. w \in Disks /\ Len(w) = E /\ \A i \in 1..E : w[i] = IF i <= Len(d) THEN d[i] ELSE Hole
    BY <1>3, <1>5, <2>0, Truncated
  <2>2. \A i \in 1..E : i <= Len(d)
    BY <1>3, <1>5
  <2>3. \A i \in 1..E : w[i] = d[i]
    BY <2>1, <2>2
  <2> QED BY <2>0, <2>1, <2>3
<1>7. Newlines(disk') = Newlines(d)
  <2>1. PICK w \in Disks : w = disk' /\ Len(w) = E /\ \A i \in 1..E : w[i] = d[i]
    BY <1>6
  <2>2. Upto(w, E) = Upto(d, E)
    BY <1>3, <1>5, <2>1, LinesSame
  <2>3. Upto(w, E) = Newlines(w)
    BY <2>1, LinesCounted
  <2>4. Upto(d, E) = Newlines(d)
    BY <1>4 DEF Upto
  <2> QED BY <2>1, <2>2, <2>3, <2>4
<1>8. /\ file' \in Objects /\ file'.open = TRUE /\ file'.fileSize = E /\ file'.eventCount = k
      /\ file'.streamAtEnd = FALSE
  <2>1. limit[1] \in Nat /\ limit[2] \in Nat
    BY LimitAssumption
  <2> QED BY <1>2, <1>3, <1>4, <1>5, <2>1 DEF Objects
<1>9. FileTypes'
  BY <1>2, <1>6, <1>8 DEF FileInv, FileTypes
<1>10. InBounds(disk', file', list')
  BY <1>2, <1>3, <1>5, <1>6, <1>8 DEF InBounds
<1>11. Cached(disk', file', list', errors'.copy)
  <2>1. EndsInLine(disk')
    <3>1. E # 0 => disk'[E] = d[E]
      BY <1>5, <1>6
    <3> QED BY <1>4, <1>6, <3>1 DEF EndsInLine
  <2> QED BY <1>1, <1>2, <1>3, <1>6, <1>7, <1>8, <2>1 DEF Cached
<1>12. ASSUME errors'.copy = 0, cuts' = 0 PROVE AllStand(disk', Reach(file', disk'), Guarded')
  <2>1. Reach(file', disk') = E /\ Guarded' = Guarded /\ Reach(file, disk) = Len(d)
    BY <1>1, <1>2, <1>8 DEF Reach, Guarded
  <2>2. AllStand(d, Len(d), Guarded)
    BY <1>1, <1>2, <1>12, <2>1 DEF FileInv
  <2>3. AllStand(d, E, Guarded)
    <3> SUFFICES ASSUME NEW e \in Guarded PROVE \E p \in Nat : Stands(d, e, p, E)
      BY DEF AllStand
    <3>1. PICK p \in Nat : Stands(d, e, p, Len(d))
      BY <2>2 DEF AllStand
    <3>2. PICK z \in Nat : z = Size[e] /\ z > 0
      BY <1>3, SizeAssumption
    <3>3. p + z <= Len(d) /\ d[p + z] = <<e, z>>
      BY <3>1, <3>2 DEF Stands
    <3>4. IsNewline(d[p + z])
      <4>1. IsNewline(<<e, z>>)
        BY <1>3, <3>2, CellsOf
      <4> QED BY <3>3, <4>1
    <3>5. p + z \in Newlines(d)
      <4>1. p + z \in 1..Len(d) /\ DOMAIN d = 1..Len(d)
        BY <1>3, <3>2, <3>3 DEF Disks
      <4> QED BY <3>4, <4>1 DEF Newlines
    <3>6. p + z <= E
      BY <1>4, <3>5
    <3> QED BY <3>1, <3>2, <3>6 DEF Stands
  <2>4. PICK w, G : w = disk' /\ G = Guarded /\ G \in SUBSET Events
    BY <1>3
  <2>5. AllStand(w, E, G)
    BY <1>5, <1>6, <2>3, <2>4, StandStill
  <2> QED BY <2>1, <2>4, <2>5
<1> QED BY <1>9, <1>10, <1>11, <1>12 DEF FileInv

\* seekToEnd: the descriptor stands at or behind the cached length, and exactly at the end of
\* the file as long as no write() failed in addEvent.
LEMMA Sought ==
    ASSUME FileInv, file.open, NEW f, f = seekToEnd(file)
    PROVE  /\ f \in Objects /\ f.open = TRUE /\ f.streamAtEnd = TRUE /\ f.eventCount = file.eventCount
           /\ f.fileSize \in Nat /\ f.pos \in Nat
           /\ f.fileSize >= file.fileSize /\ f.fileSize <= Len(disk) /\ f.pos >= f.fileSize
           /\ errors.add = 0 => f.pos = Len(disk) /\ f.fileSize = Len(disk)
<1>1. file \in Objects /\ InBounds(disk, file, list) /\ (errors.add = 0 => Cached(disk, file, list, errors.copy))
  BY DEF FileInv, FileTypes
<1>2. Len(disk) \in Nat /\ file.open \in BOOLEAN /\ file.fileSize \in Nat /\ file.pos \in Nat
      /\ file.streamAtEnd \in BOOLEAN
  BY FileFields
<1>3. CASE file.streamAtEnd
  <2>1. f = file
    BY <1>3 DEF seekToEnd
  <2> QED BY <1>1, <1>2, <1>3, <2>1 DEF InBounds, Cached
<1>4. CASE ~file.streamAtEnd
  <2>1. f = [file EXCEPT !.pos = Len(disk), !.fileSize = Len(disk), !.streamAtEnd = TRUE]
    BY <1>4 DEF seekToEnd
  <2>2. /\ f \in Objects /\ f.open = file.open /\ f.streamAtEnd = TRUE /\ f.eventCount = file.eventCount
        /\ f.pos = Len(disk) /\ f.fileSize = Len(disk)
    BY <1>1, <1>2, <2>1 DEF Objects
  <2> QED BY <1>1, <1>2, <2>2 DEF InBounds
<1> QED BY <1>3, <1>4

\* What is written at or behind fileSize leaves the front of the file.
LEMMA FrontStays ==
    ASSUME NEW d \in Disks, NEW n \in Nat, n <= Len(d), NEW pos \in Nat, pos >= n, NEW c \in Disks,
           NEW w, w = WriteAt(d, pos, c)
    PROVE  /\ w \in Disks /\ Len(w) \in Nat /\ Len(w) >= Len(d) /\ Len(w) >= pos + Len(c)
           /\ \A i \in 1..n : w[i] = d[i]
<1>1. Len(d) \in Nat /\ Len(c) \in Nat
  BY DEF Disks
<1>2. /\ w \in Disks
      /\ Len(w) = IF Len(d) >= pos + Len(c) THEN Len(d) ELSE pos + Len(c)
      /\ \A i \in 1..Len(w) : w[i] = IF i > pos /\ i <= pos + Len(c) THEN c[i - pos]
                                     ELSE IF i <= Len(d) THEN d[i] ELSE Hole
  BY Written
<1>3. Len(w) \in Nat /\ Len(w) >= Len(d) /\ Len(w) >= pos + Len(c)
  BY <1>1, <1>2
<1>4. \A i \in 1..n : w[i] = d[i]
  <2> SUFFICES ASSUME NEW i \in 1..n PROVE w[i] = d[i]
    OBVIOUS
  <2>1. i \in 1..Len(w) /\ ~(i > pos) /\ i <= Len(d)
    BY <1>1, <1>3
  <2> QED BY <1>2, <2>1
<1> QED BY <1>2, <1>3, <1>4

\* The event appended stands at the end of what was there, if that ended with a line.
LEMMA NewStands ==
    ASSUME NEW d \in Disks, NEW e \in Events, NEW w, NEW m \in Nat, Len(d) + Size[e] <= m,
           \A i \in 1..Size[e] : w[Len(d) + i] = <<e, i>>,
           Len(d) = 0 \/ IsNewline(w[Len(d)])
    PROVE  \E p \in Nat : Stands(w, e, p, m)
<1>1. Len(d) \in Nat
  BY DEF Disks
<1> QED BY <1>1 DEF Stands

\* What an append does to the events in the file: o cells of e written at the descriptor.
LEMMA Appended ==
    ASSUME FileInv, file.open, NEW e \in Events, NEW f, f = seekToEnd(file), NEW o \in 0..Size[e],
           NEW w, w = WriteAt(disk, f.pos, SubSeq(Cells(e), 1, o))
    PROVE  /\ w \in Disks /\ Len(w) \in Nat /\ Len(w) >= f.fileSize + o
           /\ \A i \in 1..f.fileSize : w[i] = disk[i]
           /\ errors.copy = 0 /\ cuts = 0 => AllStand(w, Len(w), Guarded) /\ AllStand(w, f.fileSize, Guarded)
           /\ errors.copy = 0 /\ errors.add = 0 /\ o = Size[e] =>
                 \E p \in Nat : Stands(w, e, p, f.fileSize + o)
<1>1. /\ f \in Objects /\ f.fileSize \in Nat /\ f.pos \in Nat
      /\ f.fileSize >= file.fileSize /\ f.fileSize <= Len(disk) /\ f.pos >= f.fileSize
      /\ errors.add = 0 => f.pos = Len(disk) /\ f.fileSize = Len(disk)
  BY Sought
<1>2. /\ file.fileSize \in Nat /\ Len(disk) \in Nat /\ Guarded \in SUBSET Events
      /\ errors.add \in Nat /\ errors.copy \in Nat
  BY FileFields
<1>3. disk \in Disks
  BY DEF FileInv, FileTypes
<1>4. PICK c : /\ c = SubSeq(Cells(e), 1, o) /\ c \in Disks /\ Len(c) = o
               /\ \A i \in 1..o : c[i] = <<e, i>>
  BY HeadCells
<1>5. o \in Nat
  BY HeadCells
<1>6. PICK d, n, m, pos : d = disk /\ n = f.fileSize /\ m = file.fileSize /\ pos = f.pos
  OBVIOUS
<1>7. /\ d \in Disks /\ n \in Nat /\ n <= Len(d) /\ pos \in Nat /\ pos >= n /\ m \in Nat /\ m <= n
      /\ w = WriteAt(d, pos, c)
  BY <1>1, <1>2, <1>3, <1>4, <1>6
<1>8. /\ w \in Disks /\ Len(w) \in Nat /\ Len(w) >= Len(d) /\ Len(w) >= pos + Len(c)
      /\ \A i \in 1..n : w[i] = d[i]
  <2>1. c \in Disks
    BY <1>4
  <2>2. d \in Disks
    BY <1>7
  <2>3. n \in Nat /\ n <= Len(d)
    BY <1>7
  <2>4. pos \in Nat /\ pos >= n
    BY <1>7
  <2>5. PICK v : v = w /\ v = WriteAt(d, pos, c)
    BY <1>7
  <2>6. /\ v \in Disks /\ Len(v) \in Nat /\ Len(v) >= Len(d) /\ Len(v) >= pos + Len(c)
        /\ \A i \in 1..n : v[i] = d[i]
    BY <2>1, <2>2, <2>3, <2>4, <2>5, FrontStays
  <2> QED BY <2>5, <2>6
<1>9. Len(w) >= n + o /\ Len(w) >= n
  BY <1>4, <1>5, <1>7, <1>8
<1>10. ASSUME errors.copy = 0, cuts = 0
       PROVE  AllStand(w, Len(w), Guarded) /\ AllStand(w, n, Guarded)
  <2>1. PICK G : G = Guarded /\ G \in SUBSET Events /\ AllStand(d, m, G)
    BY <1>2, <1>6, <1>10 DEF FileInv, Reach
  <2>2. \A i \in 1..m : w[i] = d[i]
    BY <1>7, <1>8
  <2>3. AllStand(w, n, G)
    BY <1>7, <2>1, <2>2, StandStill
  <2>4. PICK x : x = Len(w) /\ x \in Nat /\ m <= x
    BY <1>7, <1>8, <1>9
  <2>5. AllStand(w, x, G)
    BY <1>7, <2>1, <2>2, <2>4, StandStill
  <2> QED BY <2>1, <2>3, <2>4, <2>5
<1>11. ASSUME errors.copy = 0, errors.add = 0, o = Size[e]
       PROVE  \E p \in Nat : Stands(w, e, p, n + o)
  <2>1. pos = Len(d) /\ n = Len(d) /\ Len(d) \in Nat
    BY <1>1, <1>2, <1>6, <1>11
  <2>2. EndsInLine(d)
    BY <1>6, <1>11 DEF FileInv, Cached
  <2>3. \A i \in 1..Len(w) : w[i] = IF i > pos /\ i <= pos + Len(c) THEN c[i - pos]
                                    ELSE IF i <= Len(d) THEN d[i] ELSE Hole
    <3>1. PICK v : v = w /\ v = WriteAt(d, pos, c)
      BY <1>7
    <3>2. d \in Disks /\ pos \in Nat /\ c \in Disks
      BY <1>4, <1>7
    <3>3. \A i \in 1..Len(v) : v[i] = IF i > pos /\ i <= pos + Len(c) THEN c[i - pos]
                                     ELSE IF i <= Len(d) THEN d[i] ELSE Hole
      BY <3>1, <3>2, Written
    <3> QED BY <3>1, <3>3
  <2>4. \A i \in 1..o : w[Len(d) + i] = <<e, i>>
    <3> SUFFICES ASSUME NEW i \in 1..o PROVE w[Len(d) + i] = <<e, i>>
      OBVIOUS
    <3>1. PICK j : /\ j = Len(d) + i /\ j \in 1..Len(w) /\ j > pos /\ j <= pos + Len(c) /\ j - pos = i
      BY <1>4, <1>5, <1>9, <2>1
    <3>2. w[j] = c[i]
      BY <2>3, <3>1
    <3> QED BY <1>4, <3>1, <3>2
  <2>5. Len(d) = 0 \/ IsNewline(w[Len(d)])
    <3>1. Len(d) # 0 => w[Len(d)] = d[Len(d)]
      BY <1>8, <2>1
    <3> QED BY <2>2, <3>1 DEF EndsInLine
  <2>6. PICK x : x = n + o /\ x \in Nat /\ Len(d) + Size[e] <= x
    <3>1. PICK z : z = Size[e] /\ o = z
      BY <1>11
    <3>2. n + o \in Nat /\ Len(d) + z <= n + o
      BY <1>5, <1>7, <2>1, <3>1
    <3> QED BY <3>1, <3>2, Zenon
  <2>7. \E p \in Nat : Stands(w, e, p, x)
    BY <1>7, <1>11, <2>4, <2>5, <2>6, NewStands
  <2> QED BY <2>6, <2>7
<1> QED BY <1>6, <1>8, <1>9, <1>10, <1>11

\* All the cells of an event.
LEMMA AllCells ==
    ASSUME NEW e \in Events
    PROVE  SubSeq(Cells(e), 1, Size[e]) = Cells(e) /\ Size[e] \in 0..Size[e] /\ Size[e] \in Nat
<1>1. PICK a : a = Cells(e) /\ a \in Seq(AnyCell) /\ Len(a) = Size[e] /\ Size[e] \in Nat
  BY CellsOf DEF Disks
<1>2. SubSeq(a, 1, Len(a)) = a
  BY <1>1
<1> QED BY <1>1, <1>2

\* addEvent keeps the invariant: what it writes lies behind every guarded event and behind
\* the list in flight.
LEMMA AddKept ==
    ASSUME FileInv, NEW e \in Events, addEvent(e)
    PROVE  FileInv'
<1>1. PICK f : f = seekToEnd(file)
  OBVIOUS
<1>2. /\ file.open /\ disk' = WriteAt(disk, f.pos, Cells(e))
      /\ file' = [f EXCEPT !.pos = @ + Size[e], !.fileSize = @ + Size[e], !.eventCount = @ + 1]
      /\ stored' = Append(stored, e) /\ list' = list /\ acked' = acked /\ cuts' = cuts
      /\ errors' = errors /\ older' = older
  BY <1>1 DEF addEvent
<1>3. /\ f \in Objects /\ f.open = TRUE /\ f.streamAtEnd = TRUE /\ f.eventCount = file.eventCount
      /\ f.fileSize \in Nat /\ f.pos \in Nat
      /\ f.fileSize >= file.fileSize /\ f.fileSize <= Len(disk) /\ f.pos >= f.fileSize
      /\ errors.add = 0 => f.pos = Len(disk) /\ f.fileSize = Len(disk)
  BY <1>1, <1>2, Sought
<1>4. /\ file.fileSize \in Nat /\ Len(disk) \in Nat /\ Guarded \in SUBSET Events
      /\ errors.add \in Nat /\ errors.copy \in Nat /\ cuts \in Nat
  BY FileFields
<1>5. PICK o : o = Size[e] /\ o \in 0..Size[e] /\ o \in Nat /\ SubSeq(Cells(e), 1, o) = Cells(e)
  BY AllCells
<1>6. PICK w : w = disk' /\ w = WriteAt(disk, f.pos, SubSeq(Cells(e), 1, o))
  BY <1>2, <1>5
<1>7. PICK n : n = f.fileSize /\ n \in Nat
  BY <1>3
<1>8. /\ w \in Disks /\ Len(w) \in Nat /\ Len(w) >= n + o
      /\ \A i \in 1..n : w[i] = disk[i]
      /\ errors.copy = 0 /\ cuts = 0 => AllStand(w, n, Guarded)
      /\ errors.copy = 0 /\ errors.add = 0 => \E p \in Nat : Stands(w, e, p, n + o)
  BY <1>1, <1>2, <1>5, <1>6, <1>7, Appended
<1>9. /\ file' \in Objects /\ file'.open = TRUE /\ file'.streamAtEnd = TRUE
      /\ file'.pos = f.pos + o /\ file'.fileSize = n + o /\ file'.eventCount = file.eventCount + 1
  <2>1. f.eventCount \in Int /\ o \in Nat
    BY <1>3, <1>5 DEF Objects
  <2>2. file' = [f EXCEPT !.pos = f.pos + o, !.fileSize = f.fileSize + o, !.eventCount = f.eventCount + 1]
    BY <1>2, <1>3, <1>5 DEF Objects
  <2>3. PICK a, b, c : a = f.pos + o /\ b = f.fileSize + o /\ c = f.eventCount + 1
    OBVIOUS
  <2>4. a \in Nat /\ b \in Nat /\ c \in Int
    BY <1>3, <2>1, <2>3, SMTT(60)
  <2>5. file' = [f EXCEPT !.pos = a, !.fileSize = b, !.eventCount = c]
    BY <2>2, <2>3
  <2>6. /\ file' \in Objects /\ file'.open = f.open /\ file'.streamAtEnd = f.streamAtEnd
        /\ file'.pos = a /\ file'.fileSize = b /\ file'.eventCount = c
    BY <1>3, <2>4, <2>5 DEF Objects
  <2> QED BY <1>3, <1>7, <2>3, <2>6
<1>10. ToSet(stored') = ToSet(stored) \cup {e} /\ stored' \in Seq(Events)
  <2>1. stored' = Append(stored, e) /\ stored \in Seq(Events)
    BY <1>2 DEF FileInv, FileTypes
  <2> QED BY <2>1 DEF ToSet
<1>11. FileTypes'
  <2>1. disk' \in Disks
    BY <1>6, <1>8
  <2>2. older' \subseteq ToSet(stored')
    BY <1>2, <1>10 DEF FileInv, FileTypes
  <2> QED BY <1>2, <1>9, <1>10, <2>1, <2>2 DEF FileInv, FileTypes
<1>12. InBounds(disk', file', list')
  <2>1. file'.fileSize <= Len(w) /\ file'.pos >= file'.fileSize
    BY <1>3, <1>5, <1>7, <1>8, <1>9
  <2>2. ASSUME list # NoList
        PROVE  list.size \in 0..file'.fileSize /\ (list.size = 0 \/ IsNewline(w[list.size]))
    <3>1. PICK s \in Nat : s = list.size /\ s <= file.fileSize /\ (s = 0 \/ IsNewline(disk[s]))
      BY <1>4, <2>2 DEF FileInv, InBounds
    <3>2. s <= n /\ s <= n + o
      BY <1>3, <1>4, <1>5, <1>7, <3>1
    <3>3. s # 0 => w[s] = disk[s]
      BY <1>7, <1>8, <3>2
    <3>4. s \in 0..file'.fileSize
      BY <1>5, <1>7, <1>9, <3>2
    <3> QED BY <3>1, <3>3, <3>4
  <2> QED BY <1>2, <1>6, <1>9, <2>1, <2>2 DEF InBounds
<1>13. ASSUME errors'.add = 0 PROVE Cached(disk', file', list', errors'.copy)
  <2>1. f.pos = Len(disk) /\ n = Len(disk) /\ Cached(disk, file, list, errors.copy)
    BY <1>2, <1>3, <1>7, <1>13 DEF FileInv
  <2>2. PICK d : d = disk /\ d \in Disks /\ Len(d) = n
    BY <2>1 DEF FileInv, FileTypes
  <2>3. w = WriteAt(d, Len(d), Cells(e))
    BY <1>5, <1>6, <2>1, <2>2
  <2>4. /\ Len(w) = n + o /\ IsNewline(w[Len(w)])
        /\ Cardinality(Newlines(w)) = Cardinality(Newlines(d)) + 1
    BY <1>5, <2>2, <2>3, OneLineMore
  <2>5. file'.fileSize = Len(w) /\ file'.pos = Len(w)
    BY <1>9, <2>1, <2>4
  <2>6. ASSUME list # NoList PROVE list.size < Len(w) /\ list.events = Lines(w, list.size)
    <3>1. PICK s \in Nat : s = list.size /\ s <= file.fileSize
      BY <1>4, <2>6 DEF FileInv, InBounds
    <3>2. s <= n
      BY <1>3, <1>4, <1>7, <3>1
    <3>3. s < Len(w) /\ s <= Len(w) /\ s <= Len(d)
      <4>1. o > 0
        BY <1>5, CellsOf
      <4> QED BY <1>5, <1>7, <2>2, <2>4, <3>2, <4>1
    <3>4. \A i \in 1..s : w[i] = d[i]
      BY <1>7, <1>8, <2>2, <3>2
    <3>5. Lines(w, s) = Lines(d, s)
      BY <1>8, <2>2, <3>3, <3>4, LinesSame
    <3>6. list.events = Lines(d, s)
      BY <1>2, <2>1, <2>2, <2>6, <3>1 DEF Cached
    <3> QED BY <3>1, <3>3, <3>5, <3>6
  <2>7. errors.copy = 0 => file'.eventCount = Cardinality(Newlines(w)) /\ EndsInLine(w)
    <3>1. errors.copy = 0 => file.eventCount = Cardinality(Newlines(d))
      BY <1>2, <2>1, <2>2 DEF Cached
    <3> QED BY <1>9, <2>4, <3>1 DEF EndsInLine
  <2> QED BY <1>2, <1>6, <1>9, <2>5, <2>6, <2>7 DEF Cached
<1>14. ASSUME errors'.copy = 0, cuts' = 0 PROVE AllStand(disk', Reach(file', disk'), Guarded')
  <2>1. Reach(file', disk') = n + o
    BY <1>9 DEF Reach
  <2>2. PICK G, x : G = Guarded /\ x = n + o /\ x \in Nat /\ n <= x /\ G \in SUBSET Events
    BY <1>4, <1>5, <1>7
  <2>3. AllStand(w, n, G)
    BY <1>2, <1>8, <1>14, <2>2
  <2>4. AllStand(w, x, G)
    BY <1>7, <2>2, <2>3, StandStill
  <2>5. CASE errors.add = 0
    <3>1. Guarded' \subseteq G \cup {e}
      BY <1>2, <1>10, <2>2, <2>5 DEF Guarded
    <3>2. \E p \in Nat : Stands(w, e, p, x)
      BY <1>2, <1>8, <1>14, <2>2, <2>5
    <3>3. AllStand(w, x, Guarded')
      BY <2>4, <3>1, <3>2 DEF AllStand
    <3> QED BY <1>6, <2>1, <2>2, <3>3
  <2>6. CASE errors.add # 0
    <3>1. Guarded' = G
      BY <1>2, <2>2, <2>6 DEF Guarded
    <3> QED BY <1>6, <2>1, <2>2, <2>4, <3>1
  <2> QED BY <2>5, <2>6
<1> QED BY <1>11, <1>12, <1>13, <1>14 DEF FileInv

\* A death in addEvent keeps the invariant: what it left lies behind every guarded event, and
\* an event that was written whole stands.
LEMMA CrashAddKept ==
    ASSUME FileInv, NEW e \in Events, crashInAddEvent(e)
    PROVE  FileInv'
<1>1. PICK f : f = seekToEnd(file)
  OBVIOUS
<1>2. /\ file.open /\ file' = Closed /\ list' = NoList /\ acked' = acked /\ cuts' = cuts
      /\ errors' = errors /\ older' = older
  BY DEF crashInAddEvent
<1>3. PICK o \in 1..Size[e] : /\ disk' = WriteAt(disk, f.pos, SubSeq(Cells(e), 1, o))
                              /\ stored' = IF o = Size[e] THEN Append(stored, e) ELSE stored
  BY <1>1 DEF crashInAddEvent
<1>4. o \in 0..Size[e] /\ o \in Nat
  BY AllCells
<1>5. PICK w : w = disk' /\ w = WriteAt(disk, f.pos, SubSeq(Cells(e), 1, o))
  BY <1>3
<1>6. /\ f.fileSize \in Nat
      /\ errors.add = 0 => f.pos = Len(disk) /\ f.fileSize = Len(disk)
  BY <1>1, <1>2, Sought
<1>7. /\ w \in Disks /\ Len(w) \in Nat /\ Len(w) >= f.fileSize + o
      /\ errors.copy = 0 /\ cuts = 0 => AllStand(w, Len(w), Guarded)
      /\ errors.copy = 0 /\ errors.add = 0 /\ o = Size[e] =>
            \E p \in Nat : Stands(w, e, p, f.fileSize + o)
  BY <1>1, <1>2, <1>4, <1>5, Appended
<1>8. /\ ToSet(stored') \subseteq ToSet(stored) \cup {e} /\ ToSet(stored) \subseteq ToSet(stored')
      /\ stored' \in Seq(Events) /\ (o # Size[e] => stored' = stored)
  <2>1. CASE o = Size[e]
    <3>1. stored' = Append(stored, e) /\ stored \in Seq(Events)
      BY <1>3, <2>1 DEF FileInv, FileTypes
    <3>2. ToSet(stored') = ToSet(stored) \cup {e} /\ stored' \in Seq(Events)
      BY <3>1 DEF ToSet
    <3> QED BY <2>1, <3>2
  <2>2. CASE o # Size[e]
    BY <1>3, <2>2 DEF FileInv, FileTypes
  <2> QED BY <2>1, <2>2
<1>9. ASSUME errors'.copy = 0, cuts' = 0 PROVE AllStand(disk', Len(disk'), Guarded')
  <2>1. PICK G : G = Guarded /\ AllStand(w, Len(w), G)
    BY <1>2, <1>7, <1>9
  <2>2. CASE errors.add = 0 /\ o = Size[e]
    <3>1. Guarded' \subseteq G \cup {e}
      BY <1>2, <1>8, <2>1, <2>2 DEF Guarded
    <3>2. PICK p \in Nat : Stands(w, e, p, f.fileSize + o)
      BY <1>2, <1>7, <1>9, <2>2
    <3>3. Stands(w, e, p, Len(w))
      <4>1. Size[e] \in Nat
        BY AllCells
      <4> QED BY <1>4, <1>6, <1>7, <3>2, <4>1, SMTT(60) DEF Stands
    <3>4. AllStand(w, Len(w), Guarded')
      BY <2>1, <3>1, <3>3 DEF AllStand
    <3> QED BY <1>5, <3>4
  <2>3. CASE errors.add # 0 \/ o # Size[e]
    <3>1. Guarded' = G
      BY <1>2, <1>8, <2>1, <2>3 DEF Guarded
    <3> QED BY <1>5, <2>1, <3>1
  <2> QED BY <2>2, <2>3
<1>10. /\ disk' \in Disks /\ errors' \in [add : Nat, copy : Nat] /\ cuts' \in Nat
       /\ older' \subseteq ToSet(stored')
  BY <1>2, <1>5, <1>7, <1>8 DEF FileInv, FileTypes
<1> QED BY <1>2, <1>8, <1>9, <1>10, FileLeft

\* A write() that fails in addEvent keeps the invariant: the cut to the cached length costs no
\* guarded event and not the end of the list in flight.
LEMMA AddFailedKept ==
    ASSUME FileInv, NEW e \in Events, addEventFailed(e)
    PROVE  FileInv'
<1>1. PICK f : f = seekToEnd(file)
  OBVIOUS
<1>2. /\ file.open /\ list' = list /\ acked' = acked /\ cuts' = cuts /\ stored' = stored
      /\ errors' = [errors EXCEPT !.add = @ + 1]
      /\ older' = IF errors.add = 0 THEN ToSet(stored) ELSE older
  BY DEF addEventFailed
<1>3. PICK o \in 0..(Size[e] - 1) :
         /\ disk' = IF o > 0
                    THEN ftruncate(WriteAt(disk, f.pos, SubSeq(Cells(e), 1, o)), f.fileSize)
                    ELSE disk
         /\ file' = [f EXCEPT !.pos = @ + o]
  BY <1>1 DEF addEventFailed
<1>4. o \in 0..Size[e] /\ o \in Nat
  BY AllCells
<1>5. /\ f \in Objects /\ f.open = TRUE /\ f.streamAtEnd = TRUE
      /\ f.fileSize \in Nat /\ f.pos \in Nat
      /\ f.fileSize >= file.fileSize /\ f.fileSize <= Len(disk) /\ f.pos >= f.fileSize
  BY <1>1, <1>2, Sought
<1>6. /\ file.fileSize \in Nat /\ Len(disk) \in Nat /\ Guarded \in SUBSET Events
      /\ errors.add \in Nat /\ errors.copy \in Nat /\ cuts \in Nat
  BY FileFields
<1>7. PICK n : n = f.fileSize /\ n \in Nat
  BY <1>5
<1>8. PICK t : t = disk' /\ t \in Disks /\ Len(t) \in Nat /\ n <= Len(t) /\ \A i \in 1..n : t[i] = disk[i]
  <2>1. CASE o = 0
    BY <1>3, <1>5, <1>6, <1>7, <2>1 DEF FileInv, FileTypes
  <2>2. CASE o > 0
    <3>1. PICK w : w = WriteAt(disk, f.pos, SubSeq(Cells(e), 1, o))
      OBVIOUS
    <3>2. /\ w \in Disks /\ Len(w) \in Nat /\ Len(w) >= n + o
          /\ \A i \in 1..n : w[i] = disk[i]
      BY <1>1, <1>2, <1>4, <1>7, <3>1, Appended
    <3>3. PICK v : v = disk' /\ v = ftruncate(w, n)
      BY <1>3, <1>7, <2>2, <3>1
    <3>4. v \in Disks /\ Len(v) = n /\ \A i \in 1..n : v[i] = IF i <= Len(w) THEN w[i] ELSE Hole
      <4>1. w \in Disks
        BY <3>2
      <4>2. n \in Nat
        BY <1>7
      <4>3. PICK u : u = v /\ u = ftruncate(w, n)
        BY <3>3
      <4>4. u \in Disks /\ Len(u) = n /\ \A i \in 1..n : u[i] = IF i <= Len(w) THEN w[i] ELSE Hole
        BY <4>1, <4>2, <4>3, Truncated
      <4> QED BY <4>3, <4>4
    <3>5. \A i \in 1..n : i <= Len(w)
      BY <1>4, <1>7, <3>2
    <3>6. \A i \in 1..n : v[i] = disk[i]
      BY <3>2, <3>4, <3>5
    <3> QED BY <1>7, <3>3, <3>4, <3>6
  <2> QED BY <1>4, <2>1, <2>2
<1>9. /\ file' \in Objects /\ file'.open = TRUE /\ file'.streamAtEnd = TRUE
      /\ file'.pos = f.pos + o /\ file'.fileSize = n
  BY <1>3, <1>4, <1>5, <1>7 DEF Objects
<1>10. errors' \in [add : Nat, copy : Nat] /\ errors'.add # 0 /\ errors'.copy = errors.copy
  BY <1>2, <1>6 DEF FileInv, FileTypes
<1>11. FileTypes'
  BY <1>2, <1>8, <1>9, <1>10 DEF FileInv, FileTypes
<1>12. InBounds(disk', file', list')
  <2>1. file'.fileSize <= Len(t) /\ file'.pos >= file'.fileSize
    BY <1>4, <1>5, <1>7, <1>8, <1>9
  <2>2. ASSUME list # NoList
        PROVE  list.size \in 0..file'.fileSize /\ (list.size = 0 \/ IsNewline(t[list.size]))
    <3>1. PICK s \in Nat : s = list.size /\ s <= file.fileSize /\ (s = 0 \/ IsNewline(disk[s]))
      BY <1>6, <2>2 DEF FileInv, InBounds
    <3>2. s <= n
      BY <1>5, <1>6, <1>7, <3>1
    <3>3. s # 0 => t[s] = disk[s]
      BY <1>7, <1>8, <3>2
    <3>4. s \in 0..file'.fileSize
      BY <1>7, <1>9, <3>2
    <3> QED BY <3>1, <3>3, <3>4
  <2> QED BY <1>2, <1>8, <1>9, <2>1, <2>2 DEF InBounds
<1>13. ASSUME errors'.copy = 0, cuts' = 0 PROVE AllStand(disk', Reach(file', disk'), Guarded')
  <2>1. Reach(file', disk') = n /\ Reach(file, disk) = file.fileSize /\ Guarded' = Guarded
    BY <1>2, <1>9, <1>10 DEF Reach, Guarded
  <2>2. PICK G, m, d : G = Guarded /\ m = file.fileSize /\ d = disk
    OBVIOUS
  <2>3. AllStand(d, m, G) /\ m \in Nat /\ m <= n /\ G \in SUBSET Events
    BY <1>2, <1>5, <1>6, <1>7, <1>10, <1>13, <2>1, <2>2 DEF FileInv
  <2>4. \A i \in 1..m : t[i] = d[i]
    BY <1>7, <1>8, <2>2, <2>3
  <2>5. AllStand(t, n, G)
    BY <1>7, <2>3, <2>4, StandStill
  <2> QED BY <1>8, <2>1, <2>2, <2>5
<1> QED BY <1>10, <1>11, <1>12, <1>13 DEF FileInv

\* getEventsForUpload: the list ends with a line the file has, and counts its lines.
LEMMA GetKept ==
    ASSUME FileInv, NEW limit \in UploadLimits, getEventsForUpload(limit)
    PROVE  FileInv'
<1>1. PICK n, m, b, k :
         /\ n = Min({limit[2], ReadCap, file.fileSize}) /\ m = Min({n, Len(disk)})
         /\ b = SubSeq(disk, 1, m) /\ k = Min({limit[1], Cardinality(Newlines(b))})
  OBVIOUS
<1>2. /\ file.open /\ list' = [events |-> k, size |-> LineEnd(b, k)]
      /\ file' = [file EXCEPT !.pos = Len(b), !.streamAtEnd = FALSE]
      /\ disk' = disk /\ stored' = stored /\ acked' = acked /\ cuts' = cuts /\ errors' = errors
      /\ older' = older
  BY <1>1 DEF getEventsForUpload, history
<1>3. PICK d, z : d = disk /\ z = file.fileSize /\ d \in Disks /\ z \in Nat /\ Len(d) \in Nat /\ z <= Len(d)
  BY <1>2, FileFields DEF FileInv, FileTypes, InBounds
<1>4. limit[1] \in Nat /\ limit[2] \in Nat /\ ReadCap \in Nat
  BY LimitAssumption, CapAssumption
<1>5. n \in Nat /\ n <= z
  <2>1. PICK T : T = {limit[2], ReadCap, z}
    OBVIOUS
  <2>2. T \in SUBSET Nat /\ T # {} /\ z \in T /\ n = Min(T)
    BY <1>1, <1>3, <1>4, <2>1
  <2> QED BY <2>2, MinOf
<1>6. m \in Nat /\ m <= n /\ m <= Len(d)
  <2>1. PICK T : T = {n, Len(d)}
    OBVIOUS
  <2>2. T \in SUBSET Nat /\ T # {} /\ n \in T /\ Len(d) \in T /\ m = Min(T)
    BY <1>1, <1>3, <1>5, <2>1
  <2> QED BY <2>2, MinOf
<1>7. b \in Disks /\ Len(b) = m /\ \A i \in 1..m : b[i] = d[i]
  <2>1. m \in 0..Len(d) /\ b = SubSeq(d, 1, m)
    BY <1>1, <1>3, <1>6
  <2> QED BY <1>3, <2>1, HeadOf
<1>8. PICK c \in Nat : c = Cardinality(Newlines(b))
  BY <1>7, LinesCounted DEF Lines
<1>9. k \in Nat /\ k <= c
  <2>1. PICK T : T = {limit[1], c}
    OBVIOUS
  <2>2. T \in SUBSET Nat /\ T # {} /\ c \in T /\ k = Min(T)
    BY <1>1, <1>4, <1>8, <2>1
  <2> QED BY <2>2, MinOf
<1>10. PICK s : s = LineEnd(b, k) /\ s \in 0..m /\ Lines(b, s) = k /\ (s = 0 \/ IsNewline(b[s]))
  <2>1. k <= Cardinality(Newlines(b))
    BY <1>8, <1>9
  <2> QED BY <1>7, <1>9, <2>1, KthLine
<1>11. s \in Nat /\ s <= m /\ s <= z /\ s <= Len(d) /\ (s = 0 \/ IsNewline(d[s]))
  BY <1>3, <1>5, <1>6, <1>7, <1>10, SMTT(60)
<1>12. Lines(d, s) = k
  <2>1. \A i \in 1..s : b[i] = d[i]
    BY <1>6, <1>7, <1>11
  <2>2. Lines(b, s) = Lines(d, s)
    BY <1>3, <1>6, <1>7, <1>11, <2>1, LinesSame
  <2> QED BY <1>10, <2>2, Zenon
<1>13. /\ file' \in Objects /\ file'.open = file.open /\ file'.streamAtEnd = FALSE
       /\ file'.fileSize = z /\ file'.eventCount = file.eventCount
  <2>1. file \in Objects /\ Len(b) \in Nat
    BY <1>6, <1>7 DEF FileInv, FileTypes
  <2> QED BY <1>2, <1>3, <2>1 DEF Objects
<1>14. list' \in [events : Nat, size : Int] /\ list'.size = s /\ list'.events = k
  BY <1>2, <1>9, <1>10, <1>11
<1>15. FileTypes'
  BY <1>2, <1>13, <1>14 DEF FileInv, FileTypes
<1>16. InBounds(disk', file', list')
  BY <1>2, <1>3, <1>11, <1>13, <1>14 DEF InBounds
<1>17. ASSUME errors'.add = 0 PROVE Cached(disk', file', list', errors'.copy)
  <2>1. Cached(disk, file, list, errors.copy)
    BY <1>2, <1>17 DEF FileInv
  <2> QED BY <1>2, <1>3, <1>12, <1>13, <1>14, <2>1 DEF Cached
<1>18. Reach(file', disk') = Reach(file, disk) /\ Guarded' = Guarded
  BY <1>2, <1>3, <1>13 DEF Reach, Guarded
<1> QED BY <1>2, <1>15, <1>16, <1>17, <1>18 DEF FileInv

\* What is reported uploaded: every event that stands in the cells of the list.
LEMMA Reported ==
    ASSUME FileInv, file.open, list # NoList, acked' = acked \cup EventsIn(list.size),
           stored' = stored, older' = older, errors'.add = errors.add
    PROVE  /\ Guarded' \in SUBSET Events /\ Guarded' \subseteq Guarded
           /\ \A e \in Guarded' : \A p \in Nat :
                 Stands(disk, e, p, file.fileSize) => ~(p + Size[e] <= list.size)
<1>1. Guarded \in SUBSET Events /\ file.fileSize \in Nat /\ Len(disk) \in Nat /\ disk \in Disks
  BY FileFields DEF FileInv, FileTypes
<1>2. Guarded' \subseteq Guarded
  BY DEF Guarded
<1>3. Guarded' \subseteq ToSet(stored)
  BY DEF Guarded, FileInv, FileTypes
<1>4. ASSUME NEW e \in Guarded', NEW p \in Nat, Stands(disk, e, p, file.fileSize), p + Size[e] <= list.size
      PROVE  FALSE
  <2>1. e \in Events /\ e \notin acked' /\ e \in ToSet(stored)
    BY <1>1, <1>2, <1>3 DEF Guarded
  <2>2. PICK z \in Nat : z = Size[e]
    BY <2>1, SizeAssumption
  <2>3. PICK s \in Nat : s = list.size /\ s <= file.fileSize /\ file.fileSize <= Len(disk)
    BY <1>1 DEF FileInv, InBounds
  <2>4. p + z <= Len(disk) /\ p \in 0..(s - z)
    BY <1>1, <1>4, <2>2, <2>3
  <2>5. SubSeq(disk, p + 1, p + z) = Cells(e)
    <3>1. PICK d : d = disk /\ d \in Disks
      BY <1>1
    <3>2. p + Size[e] <= Len(d) /\ \A i \in 1..Size[e] : d[p + i] = <<e, i>>
      BY <1>4, <2>2, <2>4, <3>1 DEF Stands
    <3>3. SubSeq(d, p + 1, p + Size[e]) = Cells(e)
      BY <2>1, <3>1, <3>2, StandsWhole
    <3> QED BY <2>2, <3>1, <3>3
  <2>6. e \in EventsIn(s)
    BY <2>1, <2>2, <2>4, <2>5 DEF EventsIn
  <2> QED BY <2>1, <2>3, <2>6
<1> QED BY <1>1, <1>2, <1>4

\* onEventsUploaded with the whole file in the list: every guarded event was in it, and
\* streamAtEnd is not set, for after an append the file would be longer than the list.
LEMMA AllUploadedKept ==
    ASSUME FileInv, onAllEventsUploaded
    PROVE  FileInv'
<1>1. /\ file.open /\ list # NoList /\ file.fileSize = list.size /\ disk' = <<>>
      /\ file' = IF file.finalized THEN Closed ELSE [file EXCEPT !.fileSize = 0, !.eventCount = 0]
      /\ acked' = acked \cup EventsIn(list.size) /\ list' = NoList
      /\ stored' = stored /\ cuts' = cuts /\ errors' = errors /\ older' = older
  BY DEF onAllEventsUploaded
<1>2. /\ file.pos \in Nat /\ file.fileSize \in Nat /\ Len(disk) \in Nat
      /\ errors \in [add : Nat, copy : Nat] /\ cuts \in Nat /\ stored \in Seq(Events)
      /\ older \subseteq ToSet(stored) /\ file \in Objects
  BY FileFields DEF FileInv, FileTypes
<1>3. <<>> \in Disks /\ Len(<<>>) = 0 /\ NoList \in [events : Nat, size : Int]
  BY DEF Disks, NoList
<1>4. ASSUME errors'.copy = 0, cuts' = 0 PROVE Guarded' = {}
  <2> SUFFICES ASSUME NEW e \in Guarded' PROVE FALSE
    OBVIOUS
  <2>1. /\ Guarded' \in SUBSET Events /\ Guarded' \subseteq Guarded
        /\ \A p \in Nat : Stands(disk, e, p, file.fileSize) => ~(p + Size[e] <= list.size)
    BY <1>1, Reported
  <2>2. AllStand(disk, file.fileSize, Guarded)
    BY <1>1, <1>4 DEF FileInv, Reach
  <2>3. PICK p \in Nat : Stands(disk, e, p, file.fileSize)
    BY <2>1, <2>2 DEF AllStand
  <2> QED BY <1>1, <2>1, <2>3 DEF Stands
<1>5. ASSUME errors'.copy = 0, cuts' = 0, NEW n PROVE AllStand(disk', n, Guarded')
  BY <1>4, <1>5 DEF AllStand
<1>6. CASE file.finalized
  <2>1. file' = Closed
    BY <1>1, <1>6
  <2>2. disk' \in Disks
    BY <1>1, <1>3
  <2> QED BY <1>1, <1>2, <1>5, <2>1, <2>2, FileLeft
<1>7. CASE ~file.finalized
  <2>1. /\ file' \in Objects /\ file'.open = file.open /\ file'.pos = file.pos /\ file'.fileSize = 0
        /\ file'.eventCount = 0 /\ file'.streamAtEnd = file.streamAtEnd
    <3>1. file' = [file EXCEPT !.fileSize = 0, !.eventCount = 0]
      BY <1>1, <1>7
    <3>2. file \in Objects
      BY <1>2
    <3>3. PICK f, g, k, z : f = file /\ g = file' /\ k = 0 /\ z = 0
      OBVIOUS
    <3>4. f \in Objects /\ k \in Nat /\ z \in Int /\ g = [f EXCEPT !.fileSize = k, !.eventCount = z]
      BY <3>1, <3>2, <3>3
    <3>5. /\ g \in Objects /\ g.open = f.open /\ g.pos = f.pos /\ g.fileSize = k
          /\ g.eventCount = z /\ g.streamAtEnd = f.streamAtEnd
      BY <3>4 DEF Objects
    <3> QED BY <3>3, <3>5
  <2>2. FileTypes'
    BY <1>1, <1>2, <1>3, <2>1 DEF FileTypes
  <2>3. InBounds(disk', file', list')
    BY <1>1, <1>2, <1>3, <2>1 DEF InBounds
  <2>4. ASSUME errors'.add = 0 PROVE Cached(disk', file', list', errors'.copy)
    <3>1. Cached(disk, file, list, errors.copy)
      BY <1>1, <2>4 DEF FileInv
    <3>2. ~file.streamAtEnd
      BY <1>1, <1>2, <3>1 DEF Cached
    <3>3. Cardinality(Newlines(disk')) = 0
      <4>1. Newlines(<<>>) = {}
        BY DEF Newlines
      <4> QED BY <1>1, <4>1, FS_EmptySet
    <3> QED BY <1>1, <1>3, <2>1, <3>2, <3>3 DEF Cached, EndsInLine
  <2> QED BY <1>5, <2>2, <2>3, <2>4 DEF FileInv
<1> QED BY <1>6, <1>7

\* What the list leaves of the file, and the events in it.
LEMMA Remains ==
    ASSUME FileInv, file.open, list # NoList, acked' = acked \cup EventsIn(list.size),
           stored' = stored, older' = older, errors'.add = errors.add,
           NEW r, r = SubSeq(disk, list.size + 1, Len(disk))
    PROVE  /\ list.size \in 0..Len(disk) /\ r \in Disks /\ Len(r) \in Nat /\ Len(r) = Len(disk) - list.size
           /\ \A i \in 1..Len(r) : r[i] = disk[list.size + i]
           /\ \A w, m : /\ m \in Nat /\ Len(r) <= m /\ (\A i \in 1..Len(r) : w[i] = r[i])
                        /\ errors.copy = 0 /\ cuts = 0
                        => AllStand(w, m, Guarded')
<1>1. PICK d, s, n : d = disk /\ s = list.size /\ n = file.fileSize
  OBVIOUS
<1>2. /\ d \in Disks /\ n \in Nat /\ Len(d) \in Nat /\ n <= Len(d) /\ s \in 0..n /\ s \in Nat
      /\ s <= Len(d) /\ (s = 0 \/ IsNewline(d[s]))
  <2>1. /\ d \in Disks /\ n \in Nat /\ Len(d) \in Nat
    BY <1>1, FileFields DEF FileInv, FileTypes
  <2>2. n <= Len(d) /\ s \in 0..n /\ (s = 0 \/ IsNewline(d[s]))
    BY <1>1 DEF FileInv, InBounds
  <2> QED BY <2>1, <2>2
<1>3. /\ r \in Disks /\ Len(r) = Len(d) - s
      /\ \A i \in 1..Len(r) : r[i] = d[s + i]
  <2>1. PICK q : q = r /\ q = SubSeq(d, s + 1, Len(d))
    BY <1>1
  <2>2. s \in 0..Len(d)
    BY <1>2
  <2>3. /\ q \in Disks /\ Len(q) = Len(d) - s
        /\ \A i \in 1..Len(q) : q[i] = d[s + i]
    BY <1>2, <2>1, <2>2, RestOf
  <2> QED BY <2>1, <2>3
<1>4. PICK x, y : /\ x = Len(r) /\ y = Len(d) /\ x \in Nat /\ y \in Nat /\ x = y - s
                  /\ n \in Nat /\ s \in Nat /\ n - s <= x
  <2>1. PICK x, y : x = Len(r) /\ y = Len(d)
    OBVIOUS
  <2>2. x = y - s /\ y \in Nat /\ n \in Nat /\ s \in Nat /\ n <= y /\ s <= y
    BY <1>2, <1>3, <2>1, Zenon
  <2>3. x \in Nat /\ n - s <= x
    BY <2>2
  <2> QED BY <2>1, <2>2, <2>3, Zenon
<1>5. PICK G, H : /\ G = Guarded' /\ H = Guarded /\ G \in SUBSET Events /\ G \subseteq H
                  /\ \A e \in G : \A p \in Nat : Stands(d, e, p, n) => ~(p + Size[e] <= s)
  BY <1>1, Reported
<1>6. ASSUME NEW w, NEW m \in Nat, x <= m, \A i \in 1..x : w[i] = r[i], errors.copy = 0, cuts = 0
      PROVE  AllStand(w, m, G)
  <2>1. AllStand(d, n, H)
    BY <1>1, <1>5, <1>6 DEF FileInv, Reach
  <2>2. \A i \in 1..(n - s) : w[i] = d[s + i]
    <3> SUFFICES ASSUME NEW i \in 1..(n - s) PROVE w[i] = d[s + i]
      OBVIOUS
    <3>0. x \in Nat /\ n \in Nat /\ s \in Nat /\ n - s <= x
      BY <1>4, Zenon
    <3>1. i \in 1..x
      BY <3>0
    <3> QED BY <1>3, <1>4, <1>6, <3>1
  <2>3. n - s <= m
    <3>0. x \in Nat /\ n \in Nat /\ s \in Nat /\ n - s <= x /\ x <= m
      BY <1>4, <1>6, Zenon
    <3> QED BY <3>0
  <2> QED BY <1>2, <1>5, <1>6, <2>1, <2>2, <2>3, StandBehind
<1>7. list.size \in 0..Len(disk)
  BY <1>1, <1>2
<1>8. \A w, m : /\ m \in Nat /\ Len(r) <= m /\ (\A i \in 1..Len(r) : w[i] = r[i])
                /\ errors.copy = 0 /\ cuts = 0
                => AllStand(w, m, Guarded')
  BY <1>4, <1>5, <1>6
<1> QED BY <1>1, <1>3, <1>4, <1>7, <1>8

\* onEventsUploaded: the events behind the list move to the front whole, and the count goes
\* down by the lines of the list.
LEMMA UploadedKept ==
    ASSUME FileInv, onEventsUploaded
    PROVE  FileInv'
<1>1. PICK r : r = SubSeq(disk, list.size + 1, Len(disk))
  OBVIOUS
<1>2. /\ file.open /\ list # NoList /\ file.fileSize # list.size /\ disk' = r
      /\ file' = [file EXCEPT !.pos = Len(r), !.fileSize = Len(r), !.eventCount = @ - list.events]
      /\ acked' = acked \cup EventsIn(list.size) /\ list' = NoList
      /\ stored' = stored /\ cuts' = cuts /\ errors' = errors /\ older' = older
  BY <1>1 DEF onEventsUploaded
<1>3. /\ list.size \in 0..Len(disk) /\ r \in Disks /\ Len(r) \in Nat /\ Len(r) = Len(disk) - list.size
      /\ \A i \in 1..Len(r) : r[i] = disk[list.size + i]
      /\ errors.copy = 0 /\ cuts = 0 => AllStand(r, Len(r), Guarded')
  <2>1. errors'.add = errors.add
    BY <1>2
  <2>2. /\ list.size \in 0..Len(disk) /\ r \in Disks /\ Len(r) \in Nat /\ Len(r) = Len(disk) - list.size
        /\ \A i \in 1..Len(r) : r[i] = disk[list.size + i]
        /\ \A w, m : /\ m \in Nat /\ Len(r) <= m /\ (\A i \in 1..Len(r) : w[i] = r[i])
                     /\ errors.copy = 0 /\ cuts = 0
                     => AllStand(w, m, Guarded')
    BY <1>1, <1>2, <2>1, Remains
  <2>3. Len(r) <= Len(r)
    BY <2>2
  <2> QED BY <2>2, <2>3, Zenon
<1>4. /\ file.eventCount \in Int /\ list.events \in Nat /\ file \in Objects /\ Len(disk) \in Nat
      /\ disk \in Disks /\ cuts \in Nat
  BY FileFields DEF FileInv, FileTypes
<1>5. /\ file' \in Objects /\ file'.open = file.open /\ file'.pos = Len(r) /\ file'.fileSize = Len(r)
      /\ file'.eventCount = file.eventCount - list.events
  <2>1. PICK k : k = file.eventCount - list.events /\ k \in Int
    BY <1>4
  <2>2. file' = [file EXCEPT !.pos = Len(r), !.fileSize = Len(r), !.eventCount = k]
    BY <1>2, <1>4, <2>1 DEF Objects
  <2> QED BY <1>3, <1>4, <2>1, <2>2 DEF Objects
<1>6. FileTypes'
  <2>1. NoList \in [events : Nat, size : Int]
    BY DEF NoList
  <2> QED BY <1>2, <1>3, <1>5, <2>1 DEF FileInv, FileTypes
<1>7. InBounds(disk', file', list')
  BY <1>2, <1>3, <1>5 DEF InBounds
<1>8. ASSUME errors'.add = 0 PROVE Cached(disk', file', list', errors'.copy)
  <2>1. Cached(disk, file, list, errors.copy)
    BY <1>2, <1>8 DEF FileInv
  <2>2. PICK d, s : d = disk /\ s = list.size
    OBVIOUS
  <2>3. Cardinality(Newlines(r)) = Cardinality(Newlines(d)) - Lines(d, s)
    <3>1. /\ d \in Disks /\ s \in 0..Len(d) /\ r \in Disks /\ Len(r) = Len(d) - s
          /\ \A i \in 1..Len(r) : r[i] = d[s + i]
      BY <1>3, <1>4, <2>2
    <3> QED BY <3>1, LinesBehind
  <2>4. ASSUME errors.copy = 0
        PROVE  file'.eventCount = Cardinality(Newlines(r)) /\ EndsInLine(r)
    <3>1. file.eventCount = Cardinality(Newlines(d)) /\ list.events = Lines(d, s) /\ EndsInLine(d)
      BY <1>2, <2>1, <2>2, <2>4 DEF Cached
    <3>2. EndsInLine(r)
      <4>1. Len(r) # 0 => Len(r) \in 1..Len(r) /\ s + Len(r) = Len(d) /\ Len(d) # 0
        BY <1>3, <1>4, <2>2
      <4>2. Len(r) # 0 => r[Len(r)] = d[Len(d)]
        BY <1>3, <2>2, <4>1
      <4> QED BY <3>1, <4>1, <4>2 DEF EndsInLine
    <3> QED BY <1>5, <2>3, <3>1, <3>2
  <2> QED BY <1>2, <1>5, <2>4 DEF Cached
<1>9. ASSUME errors'.copy = 0, cuts' = 0 PROVE AllStand(disk', Reach(file', disk'), Guarded')
  <2>1. Reach(file', disk') = Len(r)
    BY <1>2, <1>5 DEF Reach
  <2> QED BY <1>2, <1>3, <1>9, <2>1
<1> QED BY <1>6, <1>7, <1>8, <1>9 DEF FileInv

\* A write() that fails in the copy keeps what the invariant still says of the file.
LEMMA UploadedFailedKept ==
    ASSUME FileInv, onEventsUploadedFailed
    PROVE  FileInv'
<1>1. PICK r : r = SubSeq(disk, list.size + 1, Len(disk))
  OBVIOUS
<1>2. /\ file.open /\ list # NoList
      /\ errors' = [errors EXCEPT !.copy = @ + 1]
      /\ acked' = acked \cup EventsIn(list.size) /\ list' = NoList
      /\ stored' = stored /\ cuts' = cuts /\ older' = older
  BY <1>1 DEF onEventsUploadedFailed
<1>3. PICK o \in 0..(Len(r) - 1) :
         /\ disk' = SubSeq(r, 1, o)
         /\ file' = [file EXCEPT !.pos = o, !.fileSize = o, !.eventCount = @ - list.events]
  BY <1>1, Zenon DEF onEventsUploadedFailed
<1>4. /\ errors' \in [add : Nat, copy : Nat] /\ errors'.copy # 0 /\ errors'.add = errors.add
  BY <1>2 DEF FileInv, FileTypes
<1>5. r \in Disks /\ Len(r) \in Nat
  BY <1>1, <1>2, <1>4, Remains
<1>6. o \in Nat /\ o \in 0..Len(r)
  BY <1>5
<1>7. disk' \in Disks /\ Len(disk') = o
  <2>1. PICK h : h = disk' /\ h = SubSeq(r, 1, o)
    BY <1>3
  <2>2. h \in Disks /\ Len(h) = o
    BY <1>5, <1>6, <2>1, HeadOf
  <2> QED BY <2>1, <2>2
<1>8. /\ file.eventCount \in Int /\ list.events \in Nat /\ file \in Objects
  BY FileFields DEF FileInv, FileTypes
<1>9. /\ file' \in Objects /\ file'.open = file.open /\ file'.pos = o /\ file'.fileSize = o
  <2>1. PICK k : k = file.eventCount - list.events /\ k \in Int
    BY <1>8
  <2>2. file' = [file EXCEPT !.pos = o, !.fileSize = o, !.eventCount = k]
    BY <1>3, <1>8, <2>1 DEF Objects
  <2> QED BY <1>6, <1>8, <2>1, <2>2 DEF Objects
<1>10. FileTypes'
  <2>1. NoList \in [events : Nat, size : Int]
    BY DEF NoList
  <2> QED BY <1>2, <1>4, <1>7, <1>9, <2>1 DEF FileInv, FileTypes
<1>11. InBounds(disk', file', list')
  BY <1>2, <1>6, <1>7, <1>9 DEF InBounds
<1>12. Cached(disk', file', list', errors'.copy)
  BY <1>2, <1>4, <1>7, <1>9 DEF Cached
<1> QED BY <1>4, <1>10, <1>11, <1>12 DEF FileInv

\* A death in the copy: when all of the rest had been copied, every guarded event stands in
\* the copy at the front.
LEMMA CrashCopyKept ==
    ASSUME FileInv, crashInCopy
    PROVE  FileInv'
<1>1. PICK r : r = SubSeq(disk, list.size + 1, Len(disk))
  OBVIOUS
<1>2. /\ file.open /\ list # NoList
      /\ acked' = acked \cup EventsIn(list.size) /\ list' = NoList /\ file' = Closed
      /\ stored' = stored /\ errors' = errors /\ older' = older
  BY DEF crashInCopy
<1>3. PICK o \in 1..Len(r) : /\ disk' = WriteAt(disk, 0, SubSeq(r, 1, o))
                             /\ cuts' = IF o < Len(r) THEN cuts + 1 ELSE cuts
  BY <1>1 DEF crashInCopy
<1>4. /\ r \in Disks /\ Len(r) \in Nat
      /\ \A w, m : /\ m \in Nat /\ Len(r) <= m /\ (\A i \in 1..Len(r) : w[i] = r[i])
                   /\ errors.copy = 0 /\ cuts = 0
                   => AllStand(w, m, Guarded')
  <2>1. errors'.add = errors.add
    BY <1>2
  <2> QED BY <1>1, <1>2, <2>1, Remains
<1>5. cuts \in Nat /\ disk \in Disks /\ Len(disk) \in Nat
  BY FileFields DEF FileInv, FileTypes
<1>6. PICK h : h = SubSeq(r, 1, o) /\ h \in Disks /\ Len(h) = o /\ \A i \in 1..o : h[i] = r[i]
  <2>1. o \in 0..Len(r)
    BY <1>4
  <2>2. PICK h : h = SubSeq(r, 1, o)
    OBVIOUS
  <2>3. h \in Disks /\ Len(h) = o /\ \A i \in 1..o : h[i] = r[i]
    BY <1>4, <2>1, <2>2, HeadOf
  <2> QED BY <2>2, <2>3
<1>7. PICK w : /\ w = disk' /\ w \in Disks /\ Len(w) \in Nat /\ Len(w) >= o
               /\ \A i \in 1..o : w[i] = r[i]
  <2>1. PICK d, w : d = disk /\ w = disk' /\ d \in Disks /\ w = WriteAt(d, 0, h) /\ Len(d) \in Nat
    BY <1>3, <1>5, <1>6
  <2>2. /\ w \in Disks
        /\ Len(w) = IF Len(d) >= 0 + Len(h) THEN Len(d) ELSE 0 + Len(h)
        /\ \A i \in 1..Len(w) : w[i] = IF i > 0 /\ i <= 0 + Len(h) THEN h[i - 0]
                                       ELSE IF i <= Len(d) THEN d[i] ELSE Hole
    <3>1. d \in Disks /\ 0 \in Nat /\ h \in Disks
      BY <1>6, <2>1
    <3>2. PICK v : v = w /\ v = WriteAt(d, 0, h)
      BY <2>1
    <3>3. /\ v \in Disks
          /\ Len(v) = IF Len(d) >= 0 + Len(h) THEN Len(d) ELSE 0 + Len(h)
          /\ \A i \in 1..Len(v) : v[i] = IF i > 0 /\ i <= 0 + Len(h) THEN h[i - 0]
                                         ELSE IF i <= Len(d) THEN d[i] ELSE Hole
      BY <3>1, <3>2, Written
    <3> QED BY <3>2, <3>3
  <2>3. o \in Nat /\ Len(w) \in Nat /\ Len(w) >= o
    BY <1>4, <1>6, <2>1, <2>2
  <2>4. \A i \in 1..o : w[i] = r[i]
    <3> SUFFICES ASSUME NEW i \in 1..o PROVE w[i] = r[i]
      OBVIOUS
    <3>1. i \in 1..Len(w) /\ i > 0 /\ i <= 0 + Len(h) /\ i - 0 = i
      BY <1>6, <2>3
    <3>2. w[i] = h[i]
      BY <2>2, <3>1
    <3> QED BY <1>6, <3>2
  <2> QED BY <2>1, <2>2, <2>3, <2>4
<1>8. ASSUME errors'.copy = 0, cuts' = 0 PROVE AllStand(disk', Len(disk'), Guarded')
  <2>1. o = Len(r) /\ cuts = 0
    BY <1>3, <1>4, <1>5, <1>8
  <2>2. Len(w) \in Nat /\ Len(r) <= Len(w) /\ (\A i \in 1..Len(r) : w[i] = r[i]) /\ errors.copy = 0
    BY <1>2, <1>4, <1>7, <1>8, <2>1
  <2>3. AllStand(w, Len(w), Guarded')
    BY <1>4, <2>1, <2>2, Zenon
  <2> QED BY <1>7, <2>3
<1>9. /\ disk' \in Disks /\ errors' \in [add : Nat, copy : Nat] /\ cuts' \in Nat /\ stored' \in Seq(Events)
      /\ older' \subseteq ToSet(stored')
  <2>1. cuts' \in Nat
    BY <1>3, <1>5
  <2> QED BY <1>2, <1>7, <2>1 DEF FileInv, FileTypes
<1> QED BY <1>2, <1>8, <1>9, FileLeft

\* An empty file satisfies the invariant.
LEMMA FileStart ==
    ASSUME FileInit
    PROVE  FileInv
<1>1. /\ disk = <<>> /\ file = Closed /\ list = NoList /\ stored = <<>> /\ acked = {} /\ cuts = 0
      /\ errors = [add |-> 0, copy |-> 0] /\ older = {}
  BY DEF FileInit
<1>2. Closed.open = FALSE /\ Closed \in Objects /\ NoList \in [events : Nat, size : Int]
  BY DEF Closed, Objects, NoList
<1>3. <<>> \in Disks /\ ToSet(<<>>) = {}
  BY DEF Disks, ToSet
<1>4. FileTypes
  BY <1>1, <1>2, <1>3 DEF FileTypes
<1>5. InBounds(disk, file, list) /\ Cached(disk, file, list, errors.copy)
  BY <1>1, <1>2 DEF InBounds, Cached
<1>6. Guarded = {}
  BY <1>1, <1>3 DEF Guarded
<1>7. AllStand(disk, Reach(file, disk), Guarded)
  BY <1>6 DEF AllStand
<1> QED BY <1>4, <1>5, <1>7 DEF FileInv

\* Every step of the file keeps the invariant.
LEMMA FileStep ==
    ASSUME FileInv, [FileNext]_fileVars
    PROVE  FileInv'
<1>0. file \in Objects /\ FileTypes
  BY DEF FileInv, FileTypes
<1>1. ASSUME NEW limit \in FileLimits, NEW write \in BOOLEAN, open(limit, write) PROVE FileInv'
  BY <1>1, OpenKept
<1>2. ASSUME NEW limit \in FileLimits, setLimit(limit) PROVE FileInv'
  <2>1. limit[1] \in Nat /\ limit[2] \in Nat
    BY LimitAssumption
  <2>2. file' = [file EXCEPT !.maxCount = limit[1], !.maxSize = limit[2]]
    BY <1>2 DEF setLimit
  <2>3. /\ file' \in Objects /\ file'.open = file.open /\ file'.pos = file.pos
        /\ file'.fileSize = file.fileSize /\ file'.eventCount = file.eventCount
        /\ file'.streamAtEnd = file.streamAtEnd
    BY <1>0, <2>1, <2>2 DEF Objects
  <2> QED BY <1>2, <2>3, FileSame DEF setLimit, history
<1>3. ASSUME setFinalized PROVE FileInv'
  <2>1. file' = [file EXCEPT !.finalized = TRUE]
    BY <1>3 DEF setFinalized
  <2>2. /\ file' \in Objects /\ file'.open = file.open /\ file'.pos = file.pos
        /\ file'.fileSize = file.fileSize /\ file'.eventCount = file.eventCount
        /\ file'.streamAtEnd = file.streamAtEnd
    BY <1>0, <2>1 DEF Objects
  <2> QED BY <1>3, <2>2, FileSame DEF setFinalized, history
<1>4. ASSUME NEW e \in Untried, addEvent(e) \/ addEventRejected(e) \/ addEventFailed(e) \/ crashInAddEvent(e)
      PROVE  FileInv'
  <2>1. e \in Events
    BY DEF Untried
  <2>2. CASE addEventRejected(e)
    BY <1>0, <2>2, FileSame DEF addEventRejected
  <2> QED BY <1>4, <2>1, <2>2, AddKept, AddFailedKept, CrashAddKept
<1>5. ASSUME NEW limit \in UploadLimits, getEventsForUpload(limit) PROVE FileInv'
  BY <1>5, GetKept
<1>6. ASSUME uploadFailed PROVE FileInv'
  BY <1>0, <1>6, FileSame DEF uploadFailed, history
<1>7. ASSUME onEventsUploaded \/ onAllEventsUploaded \/ onEventsUploadedFailed \/ crashInCopy PROVE FileInv'
  BY <1>7, UploadedKept, AllUploadedKept, UploadedFailedKept, CrashCopyKept
<1>8. ASSUME close PROVE FileInv'
  <2>1. /\ file.open /\ file' = Closed /\ list' = NoList /\ disk' = disk /\ stored' = stored
        /\ acked' = acked /\ cuts' = cuts /\ errors' = errors /\ older' = older
    BY <1>8 DEF close, history
  <2>2. ASSUME errors'.copy = 0, cuts' = 0 PROVE AllStand(disk', Len(disk'), Guarded')
    <3>1. PICK d, n, m, G : d = disk /\ n = file.fileSize /\ m = Len(disk) /\ G = Guarded
      OBVIOUS
    <3>2. AllStand(d, n, G)
      BY <2>1, <2>2, <3>1 DEF FileInv, Reach
    <3>3. n \in Nat /\ m \in Nat /\ n <= m /\ G \in SUBSET Events
      BY <2>1, <3>1, FileFields DEF FileInv, InBounds
    <3>4. AllStand(d, m, G)
      BY <3>2, <3>3, StandStill
    <3>5. Guarded' = G
      BY <2>1, <3>1 DEF Guarded
    <3> QED BY <2>1, <3>1, <3>4, <3>5
  <2>3. /\ disk' \in Disks /\ errors' \in [add : Nat, copy : Nat] /\ cuts' \in Nat
        /\ stored' \in Seq(Events) /\ older' \subseteq ToSet(stored')
    BY <1>0, <2>1 DEF FileTypes
  <2> QED BY <2>1, <2>2, <2>3, FileLeft
<1>9. ASSUME UNCHANGED fileVars PROVE FileInv'
  BY <1>0, <1>9, FileSame DEF fileVars, history
<1> QED BY <1>1, <1>2, <1>3, <1>4, <1>5, <1>6, <1>7, <1>8, <1>9 DEF FileNext

\* The inductive invariant holds throughout.
LEMMA FileInvariant == FileSpec => []FileInv
BY FileStart, FileStep, PTL DEF FileSpec

\* For any events, sizes and limits: the length that FileEventBatch has cached is the file's,
\* the count is its number of lines, and the seek is skipped only at the end of the file,
\* until a write() of addEvent fails.
THEOREM CacheIsExact == FileSpec => []CacheExact
<1>1. ASSUME FileInv PROVE CacheExact
  BY <1>1 DEF FileInv, Cached, CacheExact
<1> QED BY <1>1, FileInvariant, PTL

\* Every guarded event is a line of the file.
LEMMA GuardedStand ==
    ASSUME FileInv, errors.copy = 0, cuts = 0, NEW e \in Guarded
    PROVE  \E p \in 0..Len(disk) : LineAt(e, p)
<1>1. PICK d, n : d = disk /\ n = Reach(file, disk) /\ n \in 0..Len(d) /\ Len(d) \in Nat /\ d \in Disks
  BY FileFields DEF FileInv, FileTypes
<1>2. e \in Events
  BY FileFields
<1>3. PICK p \in Nat : Stands(d, e, p, n)
  BY <1>1, <1>2 DEF FileInv, AllStand
<1>4. PICK z \in Nat : z = Size[e]
  BY <1>2, SizeAssumption
<1>5. p + z <= n /\ p + z <= Len(d) /\ p \in 0..Len(d)
  BY <1>1, <1>3, <1>4 DEF Stands
<1>6. SubSeq(d, p + 1, p + Size[e]) = Cells(e)
  <2>1. p + Size[e] <= Len(d) /\ \A i \in 1..Size[e] : d[p + i] = <<e, i>>
    BY <1>3, <1>4, <1>5 DEF Stands
  <2> QED BY <1>1, <1>2, <2>1, StandsWhole
<1>7. p + Size[e] <= Len(disk) /\ (p = 0 \/ IsNewline(disk[p]))
  BY <1>1, <1>3, <1>4, <1>5 DEF Stands
<1>8. LineAt(e, p)
  BY <1>1, <1>6, <1>7 DEF LineAt
<1> QED BY <1>1, <1>5, <1>8

\* For any events, sizes and limits and any number of failures: a write() that fails in
\* addEvent never costs an event stored before the first that failed.
THEOREM OlderSurvive == FileSpec => []OlderEventsSurvive
<1>1. ASSUME FileInv PROVE OlderEventsSurvive
  <2> SUFFICES ASSUME errors.copy = 0, cuts = 0, NEW e \in older \ acked
               PROVE  \E p \in 0..Len(disk) : LineAt(e, p)
    BY DEF OlderEventsSurvive
  <2>1. e \in Guarded
    BY <1>1 DEF FileInv, FileTypes, Guarded
  <2> QED BY <1>1, <2>1, GuardedStand
<1> QED BY <1>1, FileInvariant, PTL

\* What NothingLost says of the file while no copy was cut, but for the order of the lines:
\* an event stored and not reported uploaded is a line of the file.
PendingStand ==
    AllWritesWorked /\ cuts = 0 =>
        \A e \in ToSet(stored) \ acked : \E p \in 0..Len(disk) : LineAt(e, p)

\* For any events, sizes and limits: whatever death came between, in addEvent or after a
\* whole copy in onEventsUploaded, FileEventBatch keeps every pending event as a line.
THEOREM PendingSurvive == FileSpec => []PendingStand
<1>1. ASSUME FileInv PROVE PendingStand
  <2> SUFFICES ASSUME errors.add = 0, errors.copy = 0, cuts = 0, NEW e \in ToSet(stored) \ acked
               PROVE  \E p \in 0..Len(disk) : LineAt(e, p)
    BY DEF PendingStand, AllWritesWorked
  <2>1. e \in Guarded
    BY DEF Guarded
  <2> QED BY <1>1, <2>1, GuardedStand
<1> QED BY <1>1, FileInvariant, PTL

-----------------------------------------------------------------------------
(* The file as a queue *)

\* The first m cells of d are the lines of the events ev[k + 1] .. ev[n], and the line of
\* ev[i] ends at cell at[i].
Laid(d, ev, k, n, m, at) ==
    /\ at \in [k..n -> Nat] /\ at[k] = 0 /\ at[n] = m
    /\ \A i \in (k + 1)..n : at[i] = at[i - 1] + Size[ev[i]]
    /\ \A i \in (k + 1)..n : \A j \in 1..Size[ev[i]] : d[at[i - 1] + j] = <<ev[i], j>>

\* Ends of lines lie in the order of the lines.
LEMMA LaidOrder ==
    ASSUME NEW ev \in Seq(Events), NEW k \in Nat, NEW n \in Nat, k <= n, n = Len(ev), NEW d, NEW m, NEW at,
           Laid(d, ev, k, n, m, at)
    PROVE  \A i, j \in k..n : i <= j => at[i] \in Nat /\ at[j] \in Nat /\ at[i] + (j - i) <= at[j]
<1>1. /\ \A i \in k..n : at[i] \in Nat
      /\ \A i \in (k + 1)..n : Size[ev[i]] \in Nat /\ Size[ev[i]] > 0 /\ at[i] = at[i - 1] + Size[ev[i]]
  <2>1. \A i \in (k + 1)..n : ev[i] \in Events
    OBVIOUS
  <2>2. \A i \in (k + 1)..n : Size[ev[i]] \in Nat /\ Size[ev[i]] > 0
    BY <2>1, SizeAssumption
  <2>3. \A i \in (k + 1)..n : at[i] = at[i - 1] + Size[ev[i]]
    BY DEF Laid
  <2>4. \A i \in k..n : at[i] \in Nat
    BY DEF Laid
  <2> QED BY <2>2, <2>3, <2>4
<1> SUFFICES ASSUME NEW i \in k..n, NEW j \in k..n, i <= j
             PROVE  at[i] + (j - i) <= at[j]
  BY <1>1
<1> DEFINE T == {x \in 0..(n - i) : at[i] + x <= at[i + x]}
<1>2. 0 \in T
  BY <1>1
<1>3. ASSUME NEW x \in 1..(n - i), x - 1 \in T PROVE x \in T
  <2>1. PICK y : y = i + x /\ y \in (k + 1)..n /\ y - 1 = i + (x - 1) /\ y - 1 \in k..n /\ y \in k..n
    OBVIOUS
  <2>2. at[y] = at[y - 1] + Size[ev[y]] /\ Size[ev[y]] \in Nat /\ Size[ev[y]] > 0 /\ at[y - 1] \in Nat
    BY <1>1, <2>1
  <2>3. at[i] + (x - 1) <= at[y - 1] /\ at[i] \in Nat
    BY <1>1, <1>3, <2>1
  <2>4. at[i] + x <= at[y]
    BY <2>2, <2>3, SMTT(60)
  <2> QED BY <2>1, <2>4
<1>4. j - i \in T
  <2>1. n - i \in Nat /\ j - i \in 0..(n - i)
    OBVIOUS
  <2> HIDE DEF T
  <2>2. \A x \in 0..(n - i) : x \in T
    BY <1>2, <1>3, <2>1, Climb
  <2> QED BY <2>1, <2>2
<1>5. i + (j - i) = j
  OBVIOUS
<1> QED BY <1>4, <1>5

\* The lines end in order and within the first m cells.
LEMMA LaidBounds ==
    ASSUME NEW ev \in Seq(Events), NEW k \in Nat, NEW n \in Nat, k <= n, n = Len(ev), NEW d, NEW m, NEW at,
           Laid(d, ev, k, n, m, at)
    PROVE  /\ \A i \in k..n : at[i] \in Nat /\ at[i] <= m
           /\ \A i, j \in k..n : i <= j => at[i] <= at[j]
           /\ at[n] = m /\ m \in Nat /\ at[k] = 0
<1>1. \A i \in k..n : at[i] \in Nat
  BY DEF Laid
<1>2. ASSUME NEW i \in k..n, NEW j \in k..n, i <= j PROVE at[i] <= at[j]
  <2>1. PICK a, b : a = at[i] /\ b = at[j] /\ a \in Nat /\ b \in Nat /\ a + (j - i) <= b
    BY <1>1, <1>2, LaidOrder
  <2>2. a <= b
    BY <1>2, <2>1
  <2> QED BY <2>1, <2>2
<1>3. at[n] = m /\ at[k] = 0 /\ n \in k..n
  BY DEF Laid
<1>4. m \in Nat
  BY <1>1, <1>3
<1>5. \A i \in k..n : i <= n
  OBVIOUS
<1>6. \A i \in k..n : at[i] <= m
  BY <1>2, <1>3, <1>5
<1> QED BY <1>1, <1>2, <1>3, <1>4, <1>6

\* Cell q belongs to the line of some ev[i].
Covered(d, ev, k, n, at, q) ==
    \E i \in (k + 1)..n : \E j \in 1..Size[ev[i]] : q = at[i - 1] + j /\ d[q] = <<ev[i], j>>

\* Every cell belongs to a line.
LEMMA LaidCover ==
    ASSUME NEW ev \in Seq(Events), NEW k \in Nat, NEW n \in Nat, k <= n, n = Len(ev), NEW d, NEW m, NEW at,
           Laid(d, ev, k, n, m, at), NEW q \in 1..m
    PROVE  Covered(d, ev, k, n, at, q)
<1> DEFINE T == {i \in Nat : i \in k..n /\ at[i] >= q}
<1>1. \A i \in k..n : at[i] \in Nat
  BY DEF Laid
<1>2. m \in Nat /\ n \in T /\ T \in SUBSET Nat
  <2>1. n \in k..n /\ at[n] = m
    BY DEF Laid
  <2> QED BY <1>1, <2>1
<1>3. PICK i \in T : \A x \in T : i <= x
  <2> HIDE DEF T
  <2> QED BY <1>2, Least
<1>4. i # k
  <2>1. at[k] = 0
    BY DEF Laid
  <2> QED BY <1>3, <2>1
<1>5. i \in (k + 1)..n /\ i - 1 \in k..n /\ i - 1 \in Nat /\ i - 1 \notin T
  BY <1>3, <1>4
<1>6. at[i - 1] < q /\ at[i - 1] \in Nat /\ q <= at[i]
  BY <1>1, <1>3, <1>5
<1>7. at[i] = at[i - 1] + Size[ev[i]] /\ \A j \in 1..Size[ev[i]] : d[at[i - 1] + j] = <<ev[i], j>>
  BY <1>5 DEF Laid
<1>8. PICK z \in Nat : z = Size[ev[i]]
  <2>1. ev[i] \in Events
    BY <1>5
  <2> QED BY <2>1, SizeAssumption
<1>9. PICK j : j = q - at[i - 1] /\ j \in 1..z /\ q = at[i - 1] + j
  <2>1. PICK a, b : a = at[i - 1] /\ b = at[i]
    OBVIOUS
  <2>2. a \in Nat /\ a < q /\ q <= b /\ b = a + z /\ q \in Nat /\ z \in Nat
    BY <1>2, <1>6, <1>7, <1>8, <2>1
  <2>3. q - a \in 1..z /\ q = a + (q - a)
    BY <2>2
  <2> QED BY <2>1, <2>3
<1>10. d[q] = <<ev[i], j>>
  BY <1>7, <1>8, <1>9
<1> QED BY <1>5, <1>8, <1>9, <1>10 DEF Covered

\* The newlines are the ends of the lines.
LEMMA LaidNewlines ==
    ASSUME NEW ev \in Seq(Events), NEW k \in Nat, NEW n \in Nat, k <= n, n = Len(ev), NEW d, NEW m, NEW at,
           Laid(d, ev, k, n, m, at)
    PROVE  /\ \A i \in (k + 1)..n : IsNewline(d[at[i]])
           /\ \A q \in 1..m : IsNewline(d[q]) => \E i \in (k + 1)..n : q = at[i]
           /\ m = 0 \/ IsNewline(d[m])
<1>1. ASSUME NEW i \in (k + 1)..n PROVE IsNewline(d[at[i]])
  <2>1. PICK e \in Events : e = ev[i]
    OBVIOUS
  <2>2. PICK z \in Nat : z = Size[e] /\ z \in 1..z
    BY SizeAssumption
  <2>3. at[i] = at[i - 1] + z /\ d[at[i - 1] + z] = <<e, z>>
    BY <2>1, <2>2 DEF Laid
  <2>4. IsNewline(<<e, z>>)
    BY <2>2, CellsOf
  <2> QED BY <2>3, <2>4
<1>2. ASSUME NEW q \in 1..m, IsNewline(d[q]) PROVE \E i \in (k + 1)..n : q = at[i]
  <2>1. PICK i \in (k + 1)..n : \E j \in 1..Size[ev[i]] : q = at[i - 1] + j /\ d[q] = <<ev[i], j>>
    <3>1. Covered(d, ev, k, n, at, q)
      BY LaidCover
    <3> QED BY <3>1, Zenon DEF Covered
  <2>2. PICK e \in Events : e = ev[i]
    OBVIOUS
  <2>3. PICK j \in 1..Size[e] : q = at[i - 1] + j /\ d[q] = <<e, j>>
    BY <2>1, <2>2
  <2>4. j = Size[e]
    BY <1>2, <2>3, CellsOf
  <2>5. at[i] = at[i - 1] + Size[e]
    BY <2>2 DEF Laid
  <2> QED BY <2>3, <2>4, <2>5
<1>3. m = 0 \/ IsNewline(d[m])
  <2>1. CASE n = k
    BY <2>1 DEF Laid
  <2>2. CASE n # k
    <3>1. n \in (k + 1)..n /\ at[n] = m
      BY <2>2 DEF Laid
    <3> QED BY <1>1, <3>1
  <2> QED BY <2>1, <2>2
<1> QED BY <1>1, <1>2, <1>3

\* The lines are counted by their events.
LEMMA LaidLines ==
    ASSUME NEW ev \in Seq(Events), NEW k \in Nat, NEW n \in Nat, k <= n, n = Len(ev), NEW d \in Disks,
           NEW m, NEW at, Laid(d, ev, k, n, m, at), m <= Len(d)
    PROVE  \A i \in k..n : at[i] \in 0..Len(d) /\ Lines(d, at[i]) = i - k
<1>0. Len(d) \in Nat /\ DOMAIN d = 1..Len(d)
  BY DEF Disks
<1>1. \A i \in k..n : at[i] \in Nat /\ at[i] \in 0..Len(d)
  <2> SUFFICES ASSUME NEW i \in k..n PROVE at[i] \in Nat /\ at[i] \in 0..Len(d)
    OBVIOUS
  <2>1. n \in k..n /\ at[n] = m
    BY DEF Laid
  <2>2. at[i] \in Nat /\ at[n] \in Nat /\ at[i] + (n - i) <= at[n]
    BY <2>1, LaidOrder
  <2> QED BY <1>0, <2>1, <2>2
<1> DEFINE T == {x \in 0..(n - k) : Lines(d, at[k + x]) = x}
<1>2. 0 \in T
  <2>1. at[k + 0] = 0 /\ 0 \in 0..(n - k)
    BY DEF Laid
  <2> QED BY <2>1, LinesCounted
<1>3. ASSUME NEW x \in 1..(n - k), x - 1 \in T PROVE x \in T
  <2>1. PICK y : y = k + x /\ y \in (k + 1)..n /\ y - 1 = k + (x - 1) /\ y - 1 \in k..n /\ y \in k..n
    OBVIOUS
  <2>2. PICK e \in Events : e = ev[y]
    BY <2>1
  <2>3. PICK z \in Nat : z = Size[e] /\ z > 0
    BY SizeAssumption
  <2>4. PICK a, b : /\ a = at[y - 1] /\ b = at[y] /\ a \in Nat /\ b \in Nat /\ b = a + z /\ b <= Len(d)
                    /\ \A j \in 1..z : d[a + j] = <<e, j>>
    <3>1. at[y] = at[y - 1] + z /\ \A j \in 1..z : d[at[y - 1] + j] = <<e, j>>
      BY <2>1, <2>2, <2>3 DEF Laid
    <3>2. at[y] \in Nat /\ at[y] <= Len(d) /\ at[y - 1] \in Nat
      BY <1>0, <1>1, <2>1
    <3> QED BY <3>1, <3>2
  <2>5. Upto(d, b) = Upto(d, a) \cup {b} /\ b \notin Upto(d, a)
    <3>1. IsNewline(d[b])
      <4>1. z \in 1..z /\ IsNewline(<<e, z>>)
        BY <2>3, CellsOf
      <4> QED BY <2>4, <4>1
    <3>2. ASSUME NEW q \in 1..Len(d), IsNewline(d[q]), q <= b, q > a PROVE q = b
      <4>1. PICK j : j = q - a /\ j \in 1..z /\ q = a + j
        <5>1. q \in Nat /\ a \in Nat /\ z \in Nat /\ q <= a + z /\ q > a
          BY <1>0, <2>3, <2>4, <3>2
        <5>2. q - a \in 1..z /\ q = a + (q - a)
          BY <5>1
        <5> QED BY <5>2
      <4>2. d[q] = <<e, j>>
        BY <2>4, <4>1
      <4>3. j = z
        BY <2>3, <3>2, <4>1, <4>2, CellsOf
      <4> QED BY <2>4, <4>1, <4>3
    <3>3. b \in Newlines(d)
      BY <1>0, <2>3, <2>4, <3>1 DEF Newlines
    <3>4. \A q \in Newlines(d) : q \in 1..Len(d) /\ IsNewline(d[q])
      BY <1>0 DEF Newlines
    <3>5. ASSUME NEW q \in Upto(d, b) PROVE q \in Upto(d, a) \cup {b}
      BY <2>4, <3>2, <3>4, SMTT(60) DEF Upto
    <3>6. ASSUME NEW q \in Upto(d, a) PROVE q \in Upto(d, b) /\ q # b
      BY <1>0, <2>3, <2>4, <3>4 DEF Upto
    <3>7. b \in Upto(d, b)
      BY <2>4, <3>3 DEF Upto
    <3> QED BY <3>5, <3>6, <3>7
  <2>6. Lines(d, b) = Lines(d, a) + 1
    <3>1. IsFiniteSet(Upto(d, a))
      BY <2>4, LinesCounted
    <3> QED BY <2>5, <3>1, FS_AddElement DEF Lines
  <2>7. Lines(d, a) = x - 1
    BY <1>3, <2>1, <2>4
  <2>8. Lines(d, b) = x
    BY <2>6, <2>7
  <2>9. Lines(d, at[k + x]) = x
    BY <2>1, <2>4, <2>8
  <2> QED BY <2>9
<1>4. ASSUME NEW i \in k..n PROVE Lines(d, at[i]) = i - k
  <2>1. n - k \in Nat /\ i - k \in 0..(n - k) /\ k + (i - k) = i
    OBVIOUS
  <2>2. \A x \in 0..(n - k) : x \in T
    <3> HIDE DEF T
    <3> QED BY <1>2, <1>3, <2>1, Climb
  <2>3. i - k \in T
    BY <2>1, <2>2
  <2> QED BY <2>1, <2>3
<1> QED BY <1>1, <1>4

\* A line end is the end of some event, or the beginning of the file.
LEMMA LaidEnds ==
    ASSUME NEW ev \in Seq(Events), NEW k \in Nat, NEW n \in Nat, k <= n, n = Len(ev), NEW d, NEW m \in Nat, NEW at,
           Laid(d, ev, k, n, m, at), NEW s \in 0..m, s = 0 \/ IsNewline(d[s])
    PROVE  \E j \in k..n : s = at[j]
<1>1. CASE s = 0
  <2>1. k \in k..n /\ at[k] = 0
    BY DEF Laid
  <2> QED BY <1>1, <2>1
<1>2. CASE s # 0
  <2>1. s \in 1..m /\ IsNewline(d[s])
    BY <1>2
  <2>2. \A q \in 1..m : IsNewline(d[q]) => \E i \in (k + 1)..n : q = at[i]
    BY LaidNewlines
  <2>3. PICK i \in (k + 1)..n : s = at[i]
    BY <2>1, <2>2
  <2>4. i \in k..n
    OBVIOUS
  <2> QED BY <2>3, <2>4
<1> QED BY <1>1, <1>2

\* What is laid out in the first m cells does not depend on those behind them.
LEMMA LaidFront ==
    ASSUME NEW ev \in Seq(Events), NEW k \in Nat, NEW n \in Nat, k <= n, n = Len(ev), NEW d, NEW m \in Nat, NEW at,
           Laid(d, ev, k, n, m, at), NEW w, \A q \in 1..m : w[q] = d[q]
    PROVE  Laid(w, ev, k, n, m, at)
<1>1. ASSUME NEW i \in (k + 1)..n, NEW j \in 1..Size[ev[i]]
      PROVE  w[at[i - 1] + j] = <<ev[i], j>>
  <2>1. i - 1 \in k..n /\ i \in k..n /\ ev[i] \in Events
    OBVIOUS
  <2>2. PICK z \in Nat : z = Size[ev[i]]
    BY <2>1, SizeAssumption
  <2>3. PICK a, b : a = at[i - 1] /\ b = at[i] /\ a \in Nat /\ b \in Nat /\ b <= m
    BY <2>1, LaidBounds
  <2>4. b = a + z /\ d[a + j] = <<ev[i], j>>
    BY <2>2, <2>3 DEF Laid
  <2>5. a + j \in 1..m
    <3>1. j \in 1..z
      BY <2>2
    <3>2. j \in 1..z /\ z \in Nat /\ a \in Nat /\ a + z <= m
      BY <2>2, <2>3, <2>4, <3>1
    <3> QED BY <3>2
  <2> QED BY <2>3, <2>4, <2>5
<1>2. /\ at \in [k..n -> Nat] /\ at[k] = 0 /\ at[n] = m
      /\ \A i \in (k + 1)..n : at[i] = at[i - 1] + Size[ev[i]]
  BY DEF Laid
<1> QED BY <1>1, <1>2 DEF Laid

\* One more event is written behind the others.
LEMMA LaidMore ==
    ASSUME NEW ev \in Seq(Events), NEW k \in Nat, NEW n \in Nat, k <= n, n = Len(ev), NEW w, NEW m \in Nat, NEW at,
           Laid(w, ev, k, n, m, at), NEW e \in Events, NEW fv, fv = Append(ev, e),
           \A j \in 1..Size[e] : w[m + j] = <<e, j>>
    PROVE  \E bt : Laid(w, fv, k, n + 1, m + Size[e], bt)
<1>1. PICK z \in Nat : z = Size[e]
  BY SizeAssumption
<1> DEFINE bt == [i \in k..(n + 1) |-> IF i = n + 1 THEN m + z ELSE at[i]]
<1>2. /\ \A i \in k..n : at[i] \in Nat
      /\ at[k] = 0 /\ at[n] = m
  BY DEF Laid
<1>3. bt \in [k..(n + 1) -> Nat]
  <2>1. \A i \in k..(n + 1) : i # n + 1 => i \in k..n
    OBVIOUS
  <2> QED BY <1>1, <1>2, <2>1
<1>4. /\ \A i \in k..n : bt[i] = at[i]
      /\ bt[n + 1] = m + z
  <2>1. \A i \in k..n : i \in k..(n + 1) /\ i # n + 1
    OBVIOUS
  <2>2. n + 1 \in k..(n + 1)
    OBVIOUS
  <2> QED BY <2>1, <2>2
<1> HIDE DEF bt
<1>5. fv[n + 1] = e /\ \A i \in (k + 1)..n : fv[i] = ev[i]
  <2>1. \A i \in (k + 1)..n : i \in 1..Len(ev)
    OBVIOUS
  <2> QED BY <2>1
<1>6. bt[k] = 0 /\ bt[n + 1] = m + z
  <2>1. k \in k..n
    OBVIOUS
  <2> QED BY <1>2, <1>4, <2>1
<1>7. ASSUME NEW i \in (k + 1)..(n + 1)
      PROVE  /\ bt[i] = bt[i - 1] + Size[fv[i]]
             /\ \A j \in 1..Size[fv[i]] : w[bt[i - 1] + j] = <<fv[i], j>>
  <2>1. CASE i = n + 1
    <3>1. fv[i] = e /\ i - 1 = n /\ n \in k..n
      BY <1>5, <2>1
    <3>2. bt[i - 1] = m /\ bt[i] = m + z
      BY <1>2, <1>4, <2>1, <3>1
    <3> QED BY <1>1, <3>1, <3>2
  <2>2. CASE i # n + 1
    <3>1. i \in (k + 1)..n /\ i \in k..n /\ i - 1 \in k..n
      BY <2>2
    <3>2. bt[i] = at[i] /\ bt[i - 1] = at[i - 1] /\ fv[i] = ev[i]
      BY <1>4, <1>5, <3>1
    <3>3. at[i] = at[i - 1] + Size[ev[i]] /\ \A j \in 1..Size[ev[i]] : w[at[i - 1] + j] = <<ev[i], j>>
      BY <3>1 DEF Laid
    <3> QED BY <3>2, <3>3
  <2> QED BY <2>1, <2>2
<1>8. Laid(w, fv, k, n + 1, m + z, bt)
  BY <1>3, <1>6, <1>7 DEF Laid
<1> QED BY <1>1, <1>8

\* r is what lies in d behind its first s cells, up to cell m.
Behind(r, d, s, m) == \A q \in 1..(m - s) : r[q] = d[s + q]
LaidOut(r, ev, k, n, m) == \E bt : Laid(r, ev, k, n, m, bt)

\* Where a cell of a line that begins behind cell a lies once the first s cells are gone.
LEMMA CutPlace ==
    ASSUME NEW s \in Nat, NEW a \in Nat, NEW z \in Nat, NEW m \in Nat, s <= a, a + z <= m, NEW x \in 1..z
    PROVE  (a - s) + x \in 1..(m - s) /\ s + ((a - s) + x) = a + x
OBVIOUS

\* Without the lines up to ev[j], the others are laid out as before.
LEMMA LaidCut ==
    ASSUME NEW ev \in Seq(Events), NEW k \in Nat, NEW n \in Nat, k <= n, n = Len(ev), NEW d, NEW m \in Nat, NEW at,
           Laid(d, ev, k, n, m, at), NEW r
    PROVE  \A j \in k..n : Behind(r, d, at[j], m) => LaidOut(r, ev, j, n, m - at[j])
<1> SUFFICES ASSUME NEW j \in k..n, NEW s, s = at[j], \A q \in 1..(m - s) : r[q] = d[s + q]
             PROVE  \E bt : Laid(r, ev, j, n, m - s, bt)
  BY DEF Behind, LaidOut
<1>1. s \in Nat /\ s <= m /\ at[n] = m /\ j \in Nat
  BY LaidBounds
<1> DEFINE bt == [i \in j..n |-> at[i] - s]
<1>2. \A i \in j..n : i \in k..n /\ at[i] \in Nat /\ s <= at[i] /\ at[i] - s \in Nat
  <2> SUFFICES ASSUME NEW i \in j..n PROVE at[i] \in Nat /\ s <= at[i] /\ at[i] - s \in Nat
    OBVIOUS
  <2>1. i \in k..n /\ j <= i
    OBVIOUS
  <2>2. PICK a : a = at[i] /\ a \in Nat /\ s <= a
    BY <2>1, LaidBounds
  <2>3. a - s \in Nat
    BY <1>1, <2>2
  <2> QED BY <2>2, <2>3
<1>3. bt \in [j..n -> Nat] /\ \A i \in j..n : bt[i] = at[i] - s
  BY <1>2
<1> HIDE DEF bt
<1>4. bt[j] = 0 /\ bt[n] = m - s
  <2>1. j \in j..n /\ n \in j..n
    OBVIOUS
  <2> QED BY <1>1, <1>3, <2>1, SMTT(60)
<1>5. ASSUME NEW i \in (j + 1)..n
      PROVE  /\ bt[i] = bt[i - 1] + Size[ev[i]]
             /\ \A x \in 1..Size[ev[i]] : r[bt[i - 1] + x] = <<ev[i], x>>
  <2>1. i \in (k + 1)..n /\ i \in j..n /\ i - 1 \in j..n /\ ev[i] \in Events /\ i <= n /\ n \in k..n /\ i \in k..n
    OBVIOUS
  <2>2. PICK z \in Nat : z = Size[ev[i]]
    BY <2>1, SizeAssumption
  <2>3. PICK a, b : /\ a = at[i - 1] /\ b = at[i] /\ a \in Nat /\ b \in Nat /\ s <= a /\ b = a + z
                    /\ b <= m
    <3>1. at[i] = at[i - 1] + z
      BY <2>1, <2>2 DEF Laid
    <3>2. at[i] <= m
      BY <2>1, LaidBounds
    <3> QED BY <1>2, <2>1, <3>1, <3>2
  <2>4. \A x \in 1..z : d[a + x] = <<ev[i], x>>
    BY <2>1, <2>2, <2>3 DEF Laid
  <2>6. bt[i] = b - s /\ bt[i - 1] = a - s
    BY <1>3, <2>1, <2>3
  <2>7. bt[i] = bt[i - 1] + z
    <3>1. b - s = (a - s) + z
      <4>1. a \in Nat /\ b = a + z /\ z \in Nat /\ s \in Nat
        BY <1>1, <2>2, <2>3
      <4> QED BY <4>1
    <3> QED BY <2>6, <3>1
  <2>8. ASSUME NEW x \in 1..z PROVE r[bt[i - 1] + x] = <<ev[i], x>>
    <3>1. PICK q : q = (a - s) + x /\ q \in 1..(m - s) /\ s + q = a + x
      <4>1. s \in Nat /\ a \in Nat /\ z \in Nat /\ s <= a /\ a + z <= m /\ m \in Nat
        BY <1>1, <2>2, <2>3
      <4>2. (a - s) + x \in 1..(m - s) /\ s + ((a - s) + x) = a + x
        BY <4>1, CutPlace, SMTT(60)
      <4> QED BY <4>2
    <3>2. r[q] = d[s + q]
      BY <3>1
    <3> QED BY <2>4, <2>6, <3>1, <3>2
  <2> QED BY <2>2, <2>7, <2>8
<1>6. Laid(r, ev, j, n, m - s, bt)
  BY <1>3, <1>4, <1>5 DEF Laid
<1> QED BY <1>6

\* EventsIn for a file and a record of stored events: those whole in the first s cells.
Within(d, ev, s) == {e \in ToSet(ev) : \E p \in 0..(s - Size[e]) : SubSeq(d, p + 1, p + Size[e]) = Cells(e)}
Between(ev, k, j) == {ev[i] : i \in (k + 1)..j}

\* What a list that ends with ev[j] reports: the events of its lines.
LEMMA LaidEvents ==
    ASSUME NEW d \in Disks, NEW ev \in Seq(Events), NEW k \in Nat, NEW n \in Nat, k <= n, n = Len(ev),
           NEW m \in Nat, m <= Len(d), NEW at, Laid(d, ev, k, n, m, at)
    PROVE  \A j \in k..n : Within(d, ev, at[j]) = Between(ev, k, j)
<1> SUFFICES ASSUME NEW j \in k..n, NEW s, s = at[j] PROVE Within(d, ev, s) = {ev[i] : i \in (k + 1)..j}
  BY DEF Between
<1>1. d \in Disks /\ ev \in Seq(Events) /\ Len(ev) = n /\ m <= Len(d) /\ Laid(d, ev, k, n, m, at)
  OBVIOUS
<1>2. s \in Nat /\ s <= m /\ j \in Nat /\ Len(d) \in Nat /\ \A i \in k..n : at[i] \in Nat
  <2>1. n \in k..n /\ j <= n /\ at[n] = m
    BY <1>1 DEF Laid
  <2>2. at[j] \in Nat /\ at[j] + (n - j) <= at[n]
    BY <1>1, <2>1, LaidOrder
  <2>3. \A i \in k..n : at[i] \in Nat
    BY <1>1 DEF Laid
  <2>4. Len(d) \in Nat
    BY <1>1 DEF Disks
  <2> QED BY <2>1, <2>2, <2>3, <2>4
<1>3. ASSUME NEW i \in (k + 1)..j PROVE ev[i] \in Within(d, ev, s)
  <2>1. i \in (k + 1)..n /\ i - 1 \in k..n /\ i \in k..n /\ i <= j /\ i \in 1..Len(ev)
    BY <1>1
  <2>2. PICK e \in Events : e = ev[i] /\ e \in ToSet(ev)
    BY <1>1, <2>1 DEF ToSet
  <2>3. PICK z \in Nat : z = Size[e]
    BY SizeAssumption
  <2>4. PICK p : /\ p = at[i - 1] /\ p \in Nat /\ at[i] = p + z /\ \A x \in 1..z : d[p + x] = <<e, x>>
    BY <1>1, <1>2, <2>1, <2>2, <2>3 DEF Laid
  <2>5. p + z <= s
    <3>1. at[i] + (j - i) <= at[j]
      BY <1>1, <2>1, LaidOrder
    <3> QED BY <1>2, <2>1, <2>3, <2>4, <3>1, SMTT(60)
  <2>6. SubSeq(d, p + 1, p + Size[e]) = Cells(e)
    <3>1. p + Size[e] <= Len(d)
      BY <1>1, <1>2, <2>3, <2>4, <2>5, SMTT(60)
    <3> QED BY <1>1, <2>3, <2>4, <3>1, StandsWhole
  <2>7. p \in 0..(s - Size[e])
    <3>1. p \in Nat /\ z \in Nat /\ s \in Nat /\ p + z <= s
      BY <1>2, <2>3, <2>4, <2>5
    <3>2. p \in 0..(s - z)
      BY <3>1
    <3> QED BY <2>3, <3>2
  <2> QED BY <1>1, <2>2, <2>6, <2>7 DEF Within
<1>4. ASSUME NEW e \in Within(d, ev, s) PROVE e \in {ev[i] : i \in (k + 1)..j}
  <2>1. e \in Events
    BY <1>1 DEF Within, ToSet
  <2>2. PICK z \in Nat : z = Size[e] /\ z > 0
    BY <2>1, SizeAssumption
  <2>3. PICK p \in 0..(s - z) : SubSeq(d, p + 1, p + z) = Cells(e)
    BY <1>1, <2>2 DEF Within
  <2>4. PICK q : q = p + 1 /\ q \in 1..s /\ q \in 1..m /\ p + z <= Len(d)
    <3>1. p \in Nat /\ z \in Nat /\ z > 0 /\ s \in Nat /\ s <= m /\ m <= Len(d) /\ Len(d) \in Nat
      BY <1>1, <1>2, <2>2
    <3>2. PICK y : y = Len(d) /\ m <= y /\ y \in Nat
      BY <3>1
    <3>3. p + z <= s
      BY <3>1
    <3>4. p + 1 \in 1..s /\ p + 1 \in 1..m /\ p + z <= y
      BY <3>1, <3>2, <3>3
    <3> QED BY <3>2, <3>4
  <2>5. d[q] = <<e, 1>>
    <3>1. PICK c : c = Cells(e) /\ c = SubSeq(d, p + 1, p + z)
      BY <2>3
    <3>2. c[1] = <<e, 1>>
      <4>1. 1 \in 1..z
        BY <2>2
      <4> QED BY <2>2, <3>1, <4>1 DEF Cells
    <3>3. c[1] = d[p + 1]
      <4>1. d \in Seq(AnyCell) /\ p + 1 \in Nat /\ p + z \in Nat /\ p + 1 <= p + z
        BY <1>1, <1>2, <2>2 DEF Disks
      <4> QED BY <1>2, <2>4, <3>1, <4>1
    <3> QED BY <2>4, <3>2, <3>3
  <2>6. Covered(d, ev, k, n, at, q)
    BY <1>1, <2>4, LaidCover
  <2>7. PICK i \in (k + 1)..n : \E x \in 1..Size[ev[i]] : q = at[i - 1] + x /\ d[q] = <<ev[i], x>>
    BY <2>6, Zenon DEF Covered
  <2>8. PICK x \in 1..Size[ev[i]] : q = at[i - 1] + x /\ d[q] = <<ev[i], x>>
    BY <2>7
  <2>9. e = ev[i]
    BY <2>5, <2>8
  <2>10. i <= j
    <3> SUFFICES ASSUME j < i PROVE FALSE
      BY <1>2
    <3>1. i - 1 \in k..n /\ j <= i - 1
      BY <1>2
    <3>2. PICK a : a = at[i - 1] /\ a \in Nat /\ s <= a
      BY <1>1, <3>1, LaidBounds
    <3>4. x \in Nat /\ x > 0
      <4>1. Size[ev[i]] \in Nat
        BY <2>1, <2>2, <2>9
      <4> QED BY <4>1
    <3>5. q = a + x /\ q <= s
      BY <1>2, <2>4, <2>8, <3>2
    <3>6. a \in Nat /\ s <= a /\ x \in Nat /\ x > 0 /\ a + x <= s /\ s \in Nat
      BY <1>2, <3>2, <3>4, <3>5
    <3> QED BY <3>6
  <2>11. i \in (k + 1)..j
    BY <1>2, <2>10
  <2> QED BY <2>9, <2>11
<1> QED BY <1>1, <1>3, <1>4

\* The events reported are the first k, the others lie in the first m cells, and what a death
\* in addEvent left behind them has no newline.
Sent(ev, k) == {ev[i] : i \in 1..k}
NoLine(d, m) == \A q \in (m + 1)..Len(d) : ~IsNewline(d[q])
QueuedAt(d, ev, ack, k, m, at, o) ==
    /\ k \in Nat /\ k <= Len(ev) /\ m \in Nat /\ m <= Len(d)
    /\ Laid(d, ev, k, Len(ev), m, at) /\ ack = Sent(ev, k)
    /\ o => m = Len(d)
    /\ NoLine(d, m)
IsQueued(d, ev, ack, o) == \E k, m, at : QueuedAt(d, ev, ack, k, m, at, o)
FileQueue == ~torn /\ AllWritesWorked => IsQueued(disk, stored, acked, file.open)

\* The constructor trims the fragment that a death in addEvent left behind the last newline.
LEMMA QueueOpen ==
    ASSUME FileInv, FileQueue, NEW limit \in FileLimits, NEW write \in BOOLEAN, open(limit, write)
    PROVE  FileQueue'
<1>1. PICK d, E : d = disk /\ E = LineEnd(disk, Cardinality(Newlines(disk)))
  OBVIOUS
<1>2. /\ ~file.open /\ disk' = ftruncate(d, E) /\ stored' = stored /\ acked' = acked
      /\ torn' = torn /\ errors' = errors
  BY <1>1 DEF open, history
<1>3. d \in Disks /\ Len(d) \in Nat /\ stored \in Seq(Events)
  BY <1>1, FileFields DEF FileInv, FileTypes
<1>4. E \in 0..Len(d) /\ (E = 0 \/ IsNewline(d[E])) /\ \A j \in Newlines(d) : j <= E
  BY <1>1, <1>3, LastLine
<1> SUFFICES ASSUME ~torn, AllWritesWorked PROVE IsQueued(disk', stored', acked', file'.open)
  BY <1>2 DEF FileQueue, AllWritesWorked
<1>5. PICK k, m, at : QueuedAt(d, stored, acked, k, m, at, file.open)
  BY <1>1 DEF FileQueue, IsQueued
<1>6. PICK n, ev : n = Len(ev) /\ ev = stored
  OBVIOUS
<1>7. /\ ev \in Seq(Events) /\ n \in Nat /\ k \in Nat /\ k <= n /\ m \in Nat /\ m <= Len(d)
      /\ Laid(d, ev, k, n, m, at) /\ acked = Sent(ev, k) /\ NoLine(d, m)
  BY <1>3, <1>5, <1>6 DEF QueuedAt
<1>8. E = m
  <2>1. m = 0 \/ IsNewline(d[m])
    BY <1>6, <1>7, LaidNewlines
  <2>2. DOMAIN d = 1..Len(d)
    BY <1>3 DEF Disks
  <2>3. m <= E
    <3>1. CASE m = 0
      BY <1>3, <1>4, <3>1
    <3>2. CASE m # 0
      <4>1. m \in 1..Len(d) /\ IsNewline(d[m])
        BY <1>3, <1>7, <2>1, <3>2
      <4>2. m \in Newlines(d)
        BY <2>2, <4>1 DEF Newlines
      <4> QED BY <1>4, <4>2
    <3> QED BY <3>1, <3>2
  <2>4. ~(E > m)
    <3> SUFFICES ASSUME E > m PROVE FALSE
      OBVIOUS
    <3>1. E \in (m + 1)..Len(d) /\ E # 0
      BY <1>3, <1>4, <1>7
    <3> QED BY <1>4, <1>7, <3>1 DEF NoLine
  <2> QED BY <1>3, <1>4, <1>7, <2>3, <2>4
<1>9. PICK w : w = disk' /\ w \in Disks /\ Len(w) = m /\ \A i \in 1..m : w[i] = d[i]
  <2>1. PICK w : w = disk' /\ w = ftruncate(d, m)
    BY <1>2, <1>8
  <2>2. w \in Disks /\ Len(w) = m /\ \A i \in 1..m : w[i] = IF i <= Len(d) THEN d[i] ELSE Hole
    BY <1>3, <1>7, <2>1, Truncated
  <2>3. \A i \in 1..m : i <= Len(d)
    BY <1>3, <1>7
  <2>4. \A i \in 1..m : w[i] = d[i]
    BY <2>2, <2>3
  <2> QED BY <2>1, <2>2, <2>4
<1>10. Laid(w, ev, k, n, m, at)
  BY <1>6, <1>7, <1>9, LaidFront
<1>11. NoLine(w, m)
  BY <1>7, <1>9 DEF NoLine
<1>12. \A o : QueuedAt(w, ev, acked, k, m, at, o)
  BY <1>6, <1>7, <1>9, <1>10, <1>11 DEF QueuedAt
<1> QED BY <1>2, <1>6, <1>9, <1>12 DEF IsQueued

\* A cell of a fragment of o cells behind the first y is not the last of a line of z.
LEMMA FragmentPlace ==
    ASSUME NEW y \in Nat, NEW o \in Nat, NEW z \in Nat, o < z, NEW q \in (y + 1)..(y + o)
    PROVE  \E i \in 1..o : q = y + i /\ i \in 1..z /\ i # z
<1>1. q - y \in 1..o /\ q = y + (q - y) /\ q - y \in 1..z /\ q - y # z
  OBVIOUS
<1> QED BY <1>1

\* An event, or the first o cells of it, is appended.
LEMMA QueueGrows ==
    ASSUME FileInv, file.open, errors.add = 0, NEW e \in Events, NEW f, f = seekToEnd(file),
           NEW o \in 1..Size[e], NEW w, w = WriteAt(disk, f.pos, SubSeq(Cells(e), 1, o)),
           IsQueued(disk, stored, acked, file.open)
    PROVE  /\ o = Size[e] => IsQueued(w, Append(stored, e), acked, TRUE)
           /\ o # Size[e] => IsQueued(w, stored, acked, FALSE)
<1>1. PICK z : z = Size[e] /\ z \in Nat /\ z > 0 /\ o \in Nat /\ o <= z /\ o \in 0..Size[e]
  BY SizeAssumption
<1>2. PICK d : d = disk /\ d \in Disks /\ Len(d) \in Nat /\ f.pos = Len(d)
  BY FileFields, Sought DEF FileInv, FileTypes
<1>3. PICK c : c = SubSeq(Cells(e), 1, o) /\ c \in Disks /\ Len(c) = o /\ \A i \in 1..o : c[i] = <<e, i>>
  BY <1>1, HeadCells
<1>4. PICK y : y = Len(d) /\ y \in Nat
  BY <1>2
<1>5. /\ w \in Disks /\ Len(w) = y + o
      /\ \A i \in 1..y : w[i] = d[i]
      /\ \A i \in 1..o : w[y + i] = <<e, i>>
  <2>1. PICK v : v = w /\ v = WriteAt(d, y, c)
    BY <1>2, <1>3, <1>4
  <2>2. d \in Disks /\ y \in Nat /\ c \in Disks
    BY <1>2, <1>3, <1>4
  <2>3. /\ v \in Disks
        /\ Len(v) = IF Len(d) >= y + Len(c) THEN Len(d) ELSE y + Len(c)
        /\ \A i \in 1..Len(v) : v[i] = IF i > y /\ i <= y + Len(c) THEN c[i - y]
                                       ELSE IF i <= Len(d) THEN d[i] ELSE Hole
    BY <2>1, <2>2, Written
  <2>4. Len(v) = y + o
    <3>1. o > 0
      BY <1>1
    <3> QED BY <1>1, <1>3, <1>4, <2>3, <3>1
  <2>5. ASSUME NEW i \in 1..y PROVE v[i] = d[i]
    <3>1. i \in 1..Len(v) /\ ~(i > y) /\ i <= Len(d)
      BY <1>1, <1>4, <2>4
    <3> QED BY <2>3, <3>1
  <2>6. ASSUME NEW i \in 1..o PROVE v[y + i] = <<e, i>>
    <3>1. PICK q : q = y + i /\ q \in 1..Len(v) /\ q > y /\ q <= y + Len(c) /\ q - y = i
      BY <1>1, <1>3, <1>4, <2>4
    <3>2. v[q] = c[i]
      BY <2>3, <3>1
    <3> QED BY <1>3, <3>1, <3>2
  <2> QED BY <2>1, <2>3, <2>4, <2>5, <2>6
<1>6. PICK k, m, at : QueuedAt(d, stored, acked, k, m, at, file.open)
  BY <1>2 DEF IsQueued
<1>7. PICK n, ev : n = Len(ev) /\ ev = stored
  OBVIOUS
<1>8. /\ ev \in Seq(Events) /\ n \in Nat /\ k \in Nat /\ k <= n /\ m = y
      /\ Laid(d, ev, k, n, y, at) /\ acked = Sent(ev, k)
  <2>1. stored \in Seq(Events)
    BY DEF FileInv, FileTypes
  <2> QED BY <1>4, <1>6, <1>7, <2>1 DEF QueuedAt
<1>9. Laid(w, ev, k, n, y, at)
  BY <1>4, <1>5, <1>7, <1>8, LaidFront, SMTT(60)
<1>10. ASSUME o = Size[e] PROVE IsQueued(w, Append(stored, e), acked, TRUE)
  <2>1. PICK fv : fv = Append(ev, e)
    OBVIOUS
  <2>2. PICK bt : Laid(w, fv, k, n + 1, y + z, bt)
    <3>1. \A j \in 1..Size[e] : w[y + j] = <<e, j>>
      BY <1>5, <1>10
    <3>2. PICK v : v = w /\ Laid(v, ev, k, n, y, at) /\ \A j \in 1..Size[e] : v[y + j] = <<e, j>>
      BY <1>9, <3>1
    <3>3. y \in Nat /\ n = Len(ev) /\ ev \in Seq(Events) /\ n \in Nat /\ k \in Nat /\ k <= n
      BY <1>4, <1>7, <1>8
    <3>4. \E bt : Laid(v, fv, k, n + 1, y + Size[e], bt)
      BY <2>1, <3>2, <3>3, LaidMore
    <3> QED BY <1>1, <3>2, <3>4
  <2>3. Len(fv) = n + 1 /\ \A i \in 1..n : fv[i] = ev[i]
    BY <1>7, <1>8, <2>1
  <2>4. Sent(fv, k) = Sent(ev, k)
    <3>1. \A i \in 1..k : fv[i] = ev[i]
      BY <1>8, <2>3
    <3> QED BY <3>1 DEF Sent
  <2>5. NoLine(w, y + z) /\ Len(w) = y + z /\ y + z \in Nat /\ k <= n + 1
    <3>1. Len(w) = y + z /\ y \in Nat /\ z \in Nat /\ k \in Nat /\ n \in Nat /\ k <= n
      BY <1>1, <1>4, <1>5, <1>8, <1>10
    <3>2. y + z \in Nat /\ k <= n + 1
      BY <3>1
    <3>3. NoLine(w, Len(w))
      <4>1. \A q \in (Len(w) + 1)..Len(w) : FALSE
        BY <3>1, <3>2
      <4> QED BY <4>1, Zenon DEF NoLine
    <3> QED BY <3>1, <3>2, <3>3
  <2>6. QueuedAt(w, fv, acked, k, y + z, bt, TRUE)
    BY <1>8, <2>2, <2>3, <2>4, <2>5 DEF QueuedAt
  <2> QED BY <1>7, <2>1, <2>6 DEF IsQueued
<1>11. ASSUME o # Size[e] PROVE IsQueued(w, stored, acked, FALSE)
  <2>1. NoLine(w, y)
    <3> SUFFICES ASSUME NEW q \in (y + 1)..Len(w) PROVE ~IsNewline(w[q])
      BY DEF NoLine
    <3>1. PICK i : i \in 1..o /\ q = y + i /\ i \in 1..Size[e] /\ i # Size[e]
      <4>1. y \in Nat /\ o \in Nat /\ z \in Nat /\ o < z
        BY <1>1, <1>4, <1>11
      <4>2. q \in (y + 1)..(y + o)
        BY <1>5
      <4>3. \E i \in 1..o : q = y + i /\ i \in 1..z /\ i # z
        BY <4>1, <4>2, FragmentPlace
      <4> QED BY <1>1, <4>3
    <3>2. w[q] = <<e, i>>
      BY <1>5, <3>1
    <3>3. ~IsNewline(<<e, i>>)
      BY <3>1, CellsOf
    <3> QED BY <3>2, <3>3
  <2>2. y <= Len(w)
    BY <1>1, <1>4, <1>5
  <2>3. QueuedAt(w, ev, acked, k, y, at, FALSE)
    BY <1>4, <1>7, <1>8, <1>9, <2>1, <2>2 DEF QueuedAt
  <2> QED BY <1>7, <2>3 DEF IsQueued
<1> QED BY <1>10, <1>11

\* addEvent puts one more line behind the others.
LEMMA QueueAdd ==
    ASSUME FileInv, FileQueue, NEW e \in Events, addEvent(e)
    PROVE  FileQueue'
<1>1. PICK f : f = seekToEnd(file)
  OBVIOUS
<1>2. /\ file.open /\ disk' = WriteAt(disk, f.pos, Cells(e)) /\ stored' = Append(stored, e)
      /\ acked' = acked /\ torn' = torn /\ errors' = errors
  BY <1>1 DEF addEvent
<1> SUFFICES ASSUME ~torn, AllWritesWorked PROVE IsQueued(disk', stored', acked', file'.open)
  BY <1>2 DEF FileQueue, AllWritesWorked
<1>3. PICK o : o = Size[e] /\ o \in 1..Size[e] /\ SubSeq(Cells(e), 1, o) = Cells(e)
  <2>1. Size[e] \in Nat \ {0}
    BY CellsOf
  <2> QED BY <2>1, AllCells
<1>4. PICK w : w = disk' /\ w = WriteAt(disk, f.pos, SubSeq(Cells(e), 1, o))
  BY <1>2, <1>3
<1>5. IsQueued(disk, stored, acked, file.open) /\ errors.add = 0
  BY DEF FileQueue, AllWritesWorked
<1>6. IsQueued(w, Append(stored, e), acked, TRUE)
  BY <1>1, <1>2, <1>3, <1>4, <1>5, QueueGrows
<1>7. IsQueued(w, stored', acked', file'.open)
  BY <1>2, <1>6 DEF IsQueued, QueuedAt
<1> QED BY <1>4, <1>7

\* A death in addEvent leaves the whole line, or a fragment that has no newline.
LEMMA QueueCrash ==
    ASSUME FileInv, FileQueue, NEW e \in Events, crashInAddEvent(e)
    PROVE  FileQueue'
<1>1. PICK f : f = seekToEnd(file)
  OBVIOUS
<1>2. /\ file.open /\ file' = Closed /\ acked' = acked /\ torn' = torn /\ errors' = errors
  BY DEF crashInAddEvent
<1>3. PICK o \in 1..Size[e] : /\ disk' = WriteAt(disk, f.pos, SubSeq(Cells(e), 1, o))
                              /\ stored' = IF o = Size[e] THEN Append(stored, e) ELSE stored
  BY <1>1 DEF crashInAddEvent
<1> SUFFICES ASSUME ~torn, AllWritesWorked PROVE IsQueued(disk', stored', acked', file'.open)
  BY <1>2 DEF FileQueue, AllWritesWorked
<1>4. PICK w : w = disk' /\ w = WriteAt(disk, f.pos, SubSeq(Cells(e), 1, o))
  BY <1>3
<1>5. IsQueued(disk, stored, acked, file.open) /\ errors.add = 0
  BY DEF FileQueue, AllWritesWorked
<1>6. /\ o = Size[e] => IsQueued(w, Append(stored, e), acked, TRUE)
      /\ o # Size[e] => IsQueued(w, stored, acked, FALSE)
  BY <1>1, <1>2, <1>4, <1>5, QueueGrows
<1>7. file'.open = FALSE
  BY <1>2 DEF Closed
<1>8. CASE o = Size[e]
  <2>1. IsQueued(w, stored', acked', TRUE)
    BY <1>2, <1>3, <1>6, <1>8
  <2>2. IsQueued(w, stored', acked', FALSE)
    BY <2>1 DEF IsQueued, QueuedAt
  <2> QED BY <1>4, <1>7, <2>2
<1>9. CASE o # Size[e]
  BY <1>2, <1>3, <1>4, <1>6, <1>7, <1>9
<1> QED BY <1>8, <1>9

\* What the report of the first t cells does to the queue: it moves the boundary between the
\* events reported and those in the file.
LEMMA QueueCut ==
    ASSUME NEW d \in Disks, NEW ev \in Seq(Events), NEW ack, IsQueued(d, ev, ack, TRUE),
           NEW t \in 0..Len(d), t = 0 \/ IsNewline(d[t]), NEW r \in Disks, Len(r) = Len(d) - t,
           \A i \in 1..Len(r) : r[i] = d[t + i]
    PROVE  IsQueued(r, ev, ack \cup Within(d, ev, t), TRUE)
<1>1. PICK n \in Nat : n = Len(ev)
  OBVIOUS
<1>2. PICK k, m, at : QueuedAt(d, ev, ack, k, m, at, TRUE)
  BY DEF IsQueued
<1>3. Len(d) \in Nat
  BY DEF Disks
<1>4. /\ k \in Nat /\ k <= n /\ m \in Nat /\ m = Len(d) /\ m <= Len(d)
      /\ Laid(d, ev, k, n, m, at) /\ ack = Sent(ev, k)
  BY <1>1, <1>2, <1>3 DEF QueuedAt
<1>5. PICK j \in k..n : t = at[j]
  <2>1. t \in 0..m /\ (t = 0 \/ IsNewline(d[t]))
    BY <1>4
  <2> QED BY <1>1, <1>4, <2>1, LaidEnds
<1>6. Within(d, ev, t) = {ev[i] : i \in (k + 1)..j}
  <2>1. k \in Nat /\ k <= n /\ m \in Nat /\ m <= Len(d) /\ Laid(d, ev, k, n, m, at)
    BY <1>4
  <2>2. n \in Nat /\ n = Len(ev)
    BY <1>1
  <2>3. \A y \in k..n : Within(d, ev, at[y]) = Between(ev, k, y)
    BY <2>1, <2>2, LaidEvents
  <2>4. Within(d, ev, at[j]) = Between(ev, k, j)
    BY <1>5, <2>3, Zenon
  <2> QED BY <1>5, <2>4 DEF Between
<1>7. PICK x : x = ack \cup Within(d, ev, t)
  OBVIOUS
<1>8. x = Sent(ev, j) /\ j \in Nat /\ j <= n
  <2>1. j \in Nat /\ j <= n /\ \A i \in 1..j : i \in 1..k \/ i \in (k + 1)..j
    BY <1>1, <1>4
  <2>2. \A i \in (k + 1)..j : i \in 1..j
    BY <1>4, <2>1
  <2>3. \A i \in 1..k : i \in 1..j
    BY <1>4, <2>1
  <2> QED BY <1>4, <1>6, <1>7, <2>1, <2>2, <2>3 DEF Sent
<1>9. PICK bt : Laid(r, ev, j, n, m - t, bt)
  <2>1. Behind(r, d, t, m)
    BY <1>4 DEF Behind
  <2>2. \A y \in k..n : Behind(r, d, at[y], m) => LaidOut(r, ev, y, n, m - at[y])
    BY <1>1, <1>4, LaidCut
  <2>3. LaidOut(r, ev, j, n, m - t)
    BY <1>5, <2>1, <2>2, Zenon
  <2> QED BY <2>3 DEF LaidOut
<1>10. m - t = Len(r) /\ m - t \in Nat
  BY <1>3, <1>4
<1>11. NoLine(r, m - t)
  <2>1. \A q \in (Len(r) + 1)..Len(r) : FALSE
    BY <1>10
  <2> QED BY <1>10, <2>1 DEF NoLine
<1>12. QueuedAt(r, ev, x, j, m - t, bt, TRUE)
  BY <1>1, <1>8, <1>9, <1>10, <1>11 DEF QueuedAt
<1> QED BY <1>7, <1>12 DEF IsQueued

\* A file that is a queue with an object open is one with the object gone, which may end in
\* a fragment.
LEMMA QueueAny ==
    ASSUME NEW d, NEW ev, NEW ack, IsQueued(d, ev, ack, TRUE), NEW o
    PROVE  IsQueued(d, ev, ack, o)
BY DEF IsQueued, QueuedAt

\* onEventsUploaded, with and without something behind the list.
LEMMA QueueUploaded ==
    ASSUME FileInv, FileQueue, onEventsUploaded \/ onAllEventsUploaded
    PROVE  FileQueue'
<1>1. /\ file.open /\ list # NoList /\ acked' = acked \cup EventsIn(list.size) /\ stored' = stored
      /\ torn' = torn /\ errors' = errors /\ older' = older
  BY DEF onEventsUploaded, onAllEventsUploaded
<1> SUFFICES ASSUME ~torn, AllWritesWorked PROVE IsQueued(disk', stored', acked', file'.open)
  BY <1>1 DEF FileQueue, AllWritesWorked
<1>2. IsQueued(disk, stored, acked, file.open) /\ errors.add = 0
  BY DEF FileQueue, AllWritesWorked
<1>3. PICK s : s = list.size
  OBVIOUS
<1>4. PICK r : r = SubSeq(disk, list.size + 1, Len(disk))
  OBVIOUS
<1>5. /\ s \in 0..Len(disk) /\ r \in Disks /\ Len(r) \in Nat /\ Len(r) = Len(disk) - s
      /\ \A i \in 1..Len(r) : r[i] = disk[s + i]
  <2>1. errors'.add = errors.add
    BY <1>1
  <2> QED BY <1>1, <1>3, <1>4, <2>1, Remains
<1>6. IsQueued(r, stored, acked', TRUE)
  <2>1. PICK d, ev, t : d = disk /\ ev = stored /\ t = s /\ d \in Disks /\ ev \in Seq(Events)
    BY DEF FileInv, FileTypes
  <2>2. t \in 0..Len(d) /\ Len(r) = Len(d) - t /\ r \in Disks /\ \A i \in 1..Len(r) : r[i] = d[t + i]
    BY <1>5, <2>1
  <2>3. t = 0 \/ IsNewline(d[t])
    BY <1>1, <1>3, <2>1 DEF FileInv, InBounds
  <2>4. IsQueued(d, ev, acked, TRUE)
    BY <1>1, <1>2, <2>1
  <2>5. IsQueued(r, ev, acked \cup Within(d, ev, t), TRUE)
    BY <2>1, <2>2, <2>3, <2>4, QueueCut
  <2>6. acked' = acked \cup Within(d, ev, t)
    BY <1>1, <1>3, <2>1 DEF EventsIn, Within
  <2> QED BY <2>1, <2>5, <2>6
<1>7. disk' = r
  <2>1. CASE onEventsUploaded
    BY <1>4, <2>1 DEF onEventsUploaded
  <2>2. CASE onAllEventsUploaded
    <3>1. disk' = <<>> /\ file.fileSize = s
      BY <1>3, <2>2 DEF onAllEventsUploaded
    <3>2. file.fileSize = Len(disk) /\ Len(disk) \in Nat
      BY <1>1, <1>2, FileFields DEF FileInv, Cached
    <3>3. Len(r) = 0 /\ r \in Seq(AnyCell)
      BY <1>5, <3>1, <3>2 DEF Disks
    <3>4. r = <<>>
      BY <3>3
    <3> QED BY <3>1, <3>4
  <2> QED BY <2>1, <2>2
<1>8. IsQueued(r, stored, acked', file'.open)
  BY <1>6, QueueAny
<1> QED BY <1>1, <1>7, <1>8

\* A new file is an empty queue.
LEMMA QueueStart ==
    ASSUME FileInit
    PROVE  FileQueue
<1>1. disk = <<>> /\ stored = <<>> /\ acked = {} /\ file = Closed
  BY DEF FileInit
<1>2. PICK at : at = [i \in 0..0 |-> 0]
  OBVIOUS
<1>3. Laid(<<>>, <<>>, 0, 0, 0, at)
  BY <1>2 DEF Laid
<1>4. Sent(<<>>, 0) = {} /\ NoLine(<<>>, 0) /\ Len(<<>>) = 0
  BY DEF Sent, NoLine
<1>5. \A o : QueuedAt(<<>>, <<>>, {}, 0, 0, at, o)
  BY <1>3, <1>4 DEF QueuedAt
<1> QED BY <1>1, <1>5 DEF FileQueue, IsQueued

\* Every step keeps the queue: one that a failed write or a death in the copy spoils is
\* outside what FileQueue promises.
LEMMA QueueStep ==
    ASSUME FileInv, FileQueue, [FileNext]_fileVars
    PROVE  FileQueue'
<1>1. ASSUME disk' = disk, stored' = stored, acked' = acked, torn' = torn, errors' = errors,
             file'.open = file.open \/ file'.open = FALSE
      PROVE  FileQueue'
  <2> SUFFICES ASSUME ~torn, AllWritesWorked PROVE IsQueued(disk, stored, acked, file'.open)
    BY <1>1 DEF FileQueue, AllWritesWorked
  <2>1. PICK k, m, at : QueuedAt(disk, stored, acked, k, m, at, file.open)
    BY DEF FileQueue, IsQueued
  <2>2. QueuedAt(disk, stored, acked, k, m, at, file'.open)
    BY <1>1, <2>1 DEF QueuedAt
  <2> QED BY <2>2 DEF IsQueued
<1>2. file \in Objects
  BY DEF FileInv, FileTypes
<1>3. ASSUME NEW limit \in FileLimits, NEW write \in BOOLEAN, open(limit, write) PROVE FileQueue'
  BY <1>3, QueueOpen
<1>4. ASSUME NEW limit \in FileLimits, setLimit(limit) PROVE FileQueue'
  <2>1. file'.open = file.open
    BY <1>2, <1>4 DEF setLimit, Objects
  <2> QED BY <1>1, <1>4, <2>1 DEF setLimit, history
<1>5. ASSUME setFinalized PROVE FileQueue'
  <2>1. file'.open = file.open
    BY <1>2, <1>5 DEF setFinalized, Objects
  <2> QED BY <1>1, <1>5, <2>1 DEF setFinalized, history
<1>6. ASSUME NEW e \in Untried, addEvent(e) \/ addEventRejected(e) \/ addEventFailed(e) \/ crashInAddEvent(e)
      PROVE  FileQueue'
  <2>1. e \in Events
    BY DEF Untried
  <2>2. CASE addEventRejected(e)
    BY <1>1, <2>2 DEF addEventRejected
  <2>3. CASE addEventFailed(e)
    <3>1. errors'.add # 0
      BY <2>3, FileFields DEF addEventFailed, FileInv, FileTypes
    <3> QED BY <3>1 DEF FileQueue, AllWritesWorked
  <2> QED BY <1>6, <2>1, <2>2, <2>3, QueueAdd, QueueCrash
<1>7. ASSUME NEW limit \in UploadLimits, getEventsForUpload(limit) PROVE FileQueue'
  <2>1. file'.open = file.open
    BY <1>2, <1>7 DEF getEventsForUpload, Objects
  <2> QED BY <1>1, <1>7, <2>1 DEF getEventsForUpload, history
<1>8. ASSUME uploadFailed PROVE FileQueue'
  BY <1>1, <1>8 DEF uploadFailed, history
<1>9. ASSUME onEventsUploadedFailed PROVE FileQueue'
  <2>1. errors'.copy # 0
    BY <1>9, FileFields DEF onEventsUploadedFailed, FileInv, FileTypes
  <2> QED BY <2>1 DEF FileQueue, AllWritesWorked
<1>10. ASSUME onEventsUploaded \/ onAllEventsUploaded PROVE FileQueue'
  BY <1>10, QueueUploaded
<1>11. ASSUME crashInCopy PROVE FileQueue'
  BY <1>11 DEF crashInCopy, FileQueue
<1>12. ASSUME close PROVE FileQueue'
  <2>1. file'.open = FALSE
    BY <1>12 DEF close, Closed
  <2> QED BY <1>1, <1>12, <2>1 DEF close, history
<1>13. ASSUME UNCHANGED fileVars PROVE FileQueue'
  BY <1>1, <1>13 DEF fileVars, history
<1> QED BY <1>3, <1>4, <1>5, <1>6, <1>7, <1>8, <1>9, <1>10, <1>11, <1>12, <1>13 DEF FileNext

\* The file read line by line: the first t events are the reported ones, and line i is
\* event t + i.
ReadsAs(d, ev, ack, l, t) ==
    /\ t >= 0 /\ ack = Sent(ev, t)
    /\ LineEnd(d, l) = Len(d)
    /\ \A i \in 1..l : SubSeq(d, LineEnd(d, i - 1) + 1, LineEnd(d, i)) = Cells(ev[t + i])

\* A queue is read that way, with as many lines as the file has newlines.
LEMMA QueueLines ==
    ASSUME NEW d \in Disks, NEW ev \in Seq(Events), NEW ack, IsQueued(d, ev, ack, TRUE),
           NEW l, l = Cardinality(Newlines(d)), NEW t, t = Len(ev) - l
    PROVE  ReadsAs(d, ev, ack, l, t)
<1>1. PICK n \in Nat : n = Len(ev)
  OBVIOUS
<1>2. PICK k, m, at : QueuedAt(d, ev, ack, k, m, at, TRUE)
  BY DEF IsQueued
<1>3. Len(d) \in Nat
  BY DEF Disks
<1>4. /\ k \in Nat /\ k <= n /\ m \in Nat /\ m = Len(d) /\ m <= Len(d)
      /\ Laid(d, ev, k, n, m, at) /\ ack = Sent(ev, k)
  BY <1>1, <1>2, <1>3 DEF QueuedAt
<1>5. \A i \in k..n : at[i] \in 0..Len(d) /\ Lines(d, at[i]) = i - k
  BY <1>1, <1>4, LaidLines
<1>6. l = n - k /\ l \in Nat /\ t = k
  <2>1. n \in k..n /\ at[n] = Len(d)
    BY <1>4 DEF Laid
  <2>2. Lines(d, Len(d)) = n - k
    BY <1>5, <2>1
  <2>3. Lines(d, Len(d)) = l
    BY LinesCounted DEF Lines
  <2>4. l = n - k
    BY <2>2, <2>3
  <2> QED BY <1>1, <1>4, <2>4
<1>7. ASSUME NEW i \in 0..l PROVE LineEnd(d, i) = at[k + i]
  <2>1. i \in Nat /\ i <= Cardinality(Newlines(d))
    BY <1>6
  <2>2. PICK q : q = LineEnd(d, i) /\ q \in 0..m /\ Lines(d, q) = i /\ (q = 0 \/ IsNewline(d[q]))
    BY <1>4, <2>1, KthLine
  <2>3. PICK j \in k..n : q = at[j]
    BY <1>1, <1>4, <2>2, LaidEnds
  <2>4. j - k = i
    BY <1>5, <2>2, <2>3
  <2>5. j = k + i
    BY <1>4, <2>1, <2>4
  <2> QED BY <2>2, <2>3, <2>5
<1>8. LineEnd(d, l) = Len(d)
  <2>1. l \in 0..l /\ k + l = n
    BY <1>1, <1>4, <1>6
  <2>2. at[n] = Len(d)
    BY <1>4 DEF Laid
  <2> QED BY <1>7, <2>1, <2>2
<1>9. ASSUME NEW i \in 1..l
      PROVE  SubSeq(d, LineEnd(d, i - 1) + 1, LineEnd(d, i)) = Cells(ev[t + i])
  <2>1. PICK x : x = k + i /\ x \in (k + 1)..n /\ x - 1 = k + (i - 1) /\ i \in 0..l /\ i - 1 \in 0..l
                 /\ x \in k..n /\ x - 1 \in k..n
    BY <1>1, <1>4, <1>6
  <2>2. PICK e \in Events : e = ev[x]
    BY <1>1, <1>4, <2>1
  <2>3. PICK p, b : /\ p = at[x - 1] /\ b = at[x] /\ p \in Nat /\ b = p + Size[e] /\ b <= Len(d)
                    /\ \A j \in 1..Size[e] : d[p + j] = <<e, j>>
    <3>1. at[x] = at[x - 1] + Size[e] /\ \A j \in 1..Size[e] : d[at[x - 1] + j] = <<e, j>>
      BY <1>4, <2>1, <2>2 DEF Laid
    <3>2. at[x - 1] \in Nat /\ at[x] <= m
      BY <1>1, <1>4, <2>1, LaidBounds
    <3> QED BY <1>4, <3>1, <3>2
  <2>4. SubSeq(d, p + 1, p + Size[e]) = Cells(e)
    BY <2>3, StandsWhole
  <2>5. LineEnd(d, i - 1) = p /\ LineEnd(d, i) = p + Size[e]
    BY <1>7, <2>1, <2>3
  <2>6. ev[t + i] = e
    BY <1>6, <2>1, <2>2
  <2> QED BY <2>4, <2>5, <2>6
<1>10. t \in Nat /\ t >= 0
  BY <1>4, <1>6
<1>11. ack = Sent(ev, t)
  BY <1>4, <1>6
<1> QED BY <1>8, <1>9, <1>10, <1>11, Zenon DEF ReadsAs

\* For any events, sizes and limits: unless a write failed or the process died inside the
\* copy of onEventsUploaded, the file an object has open holds, in the order addEvent stored
\* them, exactly the lines of the events behind those reported as uploaded, with no fragment
\* between or behind them.
THEOREM FileIsQueue == FileSpec => []ExactQueue
<1>1. ASSUME FileInv, FileQueue PROVE ExactQueue
  <2> SUFFICES ASSUME ~torn, file.open, AllWritesWorked,
                      NEW lines, lines = Cardinality(Newlines(disk)), NEW sent, sent = Len(stored) - lines
               PROVE  /\ sent >= 0 /\ acked = {stored[i] : i \in 1..sent}
                      /\ LineEnd(disk, lines) = Len(disk)
                      /\ \A i \in 1..lines :
                            SubSeq(disk, LineEnd(disk, i - 1) + 1, LineEnd(disk, i)) = Cells(stored[sent + i])
    BY DEF ExactQueue
  <2>1. PICK d, ev : d = disk /\ ev = stored /\ d \in Disks /\ ev \in Seq(Events)
    BY <1>1 DEF FileInv, FileTypes
  <2>2. IsQueued(d, ev, acked, TRUE)
    BY <1>1, <2>1 DEF FileQueue, IsQueued, QueuedAt
  <2>3. PICK l, t : l = lines /\ t = sent /\ l = Cardinality(Newlines(d)) /\ t = Len(ev) - l
    BY <2>1
  <2>4. ReadsAs(d, ev, acked, l, t)
    <3>1. d \in Disks /\ ev \in Seq(Events)
      BY <2>1
    <3>2. l = Cardinality(Newlines(d)) /\ t = Len(ev) - l
      BY <2>3
    <3> QED BY <2>2, <3>1, <3>2, QueueLines
  <2>5. /\ t >= 0 /\ acked = {ev[i] : i \in 1..t} /\ LineEnd(d, l) = Len(d)
        /\ \A i \in 1..l : SubSeq(d, LineEnd(d, i - 1) + 1, LineEnd(d, i)) = Cells(ev[t + i])
    BY <2>4 DEF ReadsAs, Sent
  <2> QED BY <2>1, <2>3, <2>5
<1>2. FileInit => FileQueue
  BY QueueStart
<1>3. FileInv /\ FileQueue /\ [FileNext]_fileVars => FileQueue'
  BY QueueStep
<1> QED BY <1>1, <1>2, <1>3, FileInvariant, PTL DEF FileSpec

=============================================================================
