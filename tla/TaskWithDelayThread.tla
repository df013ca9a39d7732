------------------------ MODULE TaskWithDelayThread ------------------------
(***************************************************************************)
(* cll::TaskWithDelayThread: a worker thread that runs `function' some     *)
(* time after a run was requested.  Client threads (Requesters) call       *)
(* requestRun, one owner thread calls terminate and at last the destructor.*)
(*                                                                         *)
(* A step is one critical section of `mutex', or one of the operations the *)
(* code does without it (notify_all, join, the user function).  `mutex' is *)
(* a variable because requestRun joins the previous worker while holding   *)
(* it; every other critical section is one step and leaves it free.        *)
(***************************************************************************)
EXTENDS Naturals

CONSTANTS
    Requesters,   \* the threads that call requestRun
    Workers,      \* identities of the threads doThreadLoop runs on
    Nobody        \* a free mutex; a std::thread that is not joinable

ASSUME IdentityAssumption ==
    /\ Nobody \notin Requesters
    /\ Nobody \notin Workers

VARIABLES
    mutex,           \* the requester that holds TaskWithDelayThread::mutex, or Nobody
    running, hasPendingTask, runImmediately, stopping,    \* the four flags
    thread,          \* the std::thread member: the worker it owns, or Nobody
    pc,              \* where each worker is in doThreadLoop
    rpc,             \* where each requester is in requestRun
    opc,             \* where the owner is in terminate
    destructing      \* the owner's current terminate is the destructor's

flags == <<running, hasPendingTask, runImmediately, stopping>>
vars  == <<mutex, flags, thread, pc, rpc, opc, destructing>>

(***************************************************************************)
(* Worker program counters.                                                *)
(*   none     no such thread (never started, or joined)                    *)
(*   start    started, wants the mutex for the first time (line 10)        *)
(*   waiting  in cv.wait_for, not yet woken                                *)
(*   woken    timed out, notified or woken spuriously; wants the mutex     *)
(*   running  inside function(), without the mutex                         *)
(*   relock   function() returned; wants the mutex (line 21)               *)
(*   exiting  has cleared `running' and released the mutex                 *)
(*   exited   the thread has ended and can be joined                       *)
(***************************************************************************)
WorkerPC == {"none", "start", "waiting", "woken", "running", "relock",
             "exiting", "exited"}
InLoop   == {"start", "waiting", "woken", "running", "relock"}

RequesterPC == {"idle", "join", "notify"}
OwnerPC     == {"idle", "notify", "join", "terminated", "destroyed"}

Init ==
    /\ mutex = Nobody
    /\ running = FALSE /\ hasPendingTask = FALSE
    /\ runImmediately = FALSE /\ stopping = FALSE
    /\ thread = Nobody
    /\ pc  = [w \in Workers |-> "none"]
    /\ rpc = [r \in Requesters |-> "idle"]
    /\ opc = "idle" /\ destructing = FALSE

-----------------------------------------------------------------------------
(* doThreadLoop *)

\* hasPendingTask = false; runImmediately = false; lock.unlock(); function()
takeTask(w) ==
    /\ hasPendingTask' = FALSE
    /\ runImmediately' = FALSE
    /\ pc' = [pc EXCEPT ![w] = "running"]
    /\ UNCHANGED <<running, stopping>>

\* Mutant: the loop is left only if the thread is not stopping
\* (`while (hasPendingTask || stopping)').
doThreadLoop_LoopsWhileStopping(w) ==
    /\ pc[w] \in {"start", "relock"}
    /\ mutex = Nobody
    /\ \/ /\ ~hasPendingTask /\ ~stopping
          /\ running' = FALSE
          /\ pc' = [pc EXCEPT ![w] = "exiting"]
          /\ UNCHANGED <<hasPendingTask, runImmediately, stopping>>
       \/ /\ hasPendingTask /\ ~runImmediately /\ ~stopping
          /\ pc' = [pc EXCEPT ![w] = "waiting"]
          /\ UNCHANGED flags
       \/ /\ (hasPendingTask /\ runImmediately) \/ stopping
          /\ takeTask(w)
    /\ UNCHANGED <<mutex, thread, rpc, opc, destructing>>

\* The loop test after the mutex was obtained: leave, wait, or take the task.
doThreadLoop(w) ==
    /\ pc[w] \in {"start", "relock"}
    /\ mutex = Nobody
    /\ \/ /\ ~hasPendingTask
          /\ running' = FALSE
          /\ pc' = [pc EXCEPT ![w] = "exiting"]
          /\ UNCHANGED <<hasPendingTask, runImmediately, stopping>>
       \/ /\ hasPendingTask /\ ~runImmediately /\ ~stopping
          /\ pc' = [pc EXCEPT ![w] = "waiting"]
          /\ UNCHANGED flags
       \/ /\ hasPendingTask /\ (runImmediately \/ stopping)
          /\ takeTask(w)
    /\ UNCHANGED <<mutex, thread, rpc, opc, destructing>>

\* Mutant: cv.wait in place of cv.wait_for; only a notification wakes the worker.
waitTimeout_Never(w) ==
    /\ pc[w] = "waiting" /\ runImmediately
    /\ pc' = [pc EXCEPT ![w] = "woken"]
    /\ UNCHANGED <<mutex, flags, thread, rpc, opc, destructing>>

\* wait_for gives up after `delay'; it may also return spuriously.
waitTimeout(w) ==
    /\ pc[w] = "waiting"
    /\ pc' = [pc EXCEPT ![w] = "woken"]
    /\ UNCHANGED <<mutex, flags, thread, rpc, opc, destructing>>

\* wait_for has no predicate: once woken the task is taken whatever woke it.
resume(w) ==
    /\ pc[w] = "woken"
    /\ mutex = Nobody
    /\ takeTask(w)
    /\ UNCHANGED <<mutex, thread, rpc, opc, destructing>>

\* Mutant: hasPendingTask is cleared after the function, not before it.
function_ClearsPending(w) ==
    /\ pc[w] = "running"
    /\ hasPendingTask' = FALSE
    /\ pc' = [pc EXCEPT ![w] = "relock"]
    /\ UNCHANGED <<mutex, running, runImmediately, stopping, thread, rpc, opc, destructing>>

\* The task function returns.
function(w) ==
    /\ pc[w] = "running"
    /\ pc' = [pc EXCEPT ![w] = "relock"]
    /\ UNCHANGED <<mutex, flags, thread, rpc, opc, destructing>>

\* The thread ends after doThreadLoop returned.
threadExit(w) ==
    /\ pc[w] = "exiting"
    /\ pc' = [pc EXCEPT ![w] = "exited"]
    /\ UNCHANGED <<mutex, flags, thread, rpc, opc, destructing>>

-----------------------------------------------------------------------------
(* The condition variable and the std::thread member *)

notify_all == pc' = [w \in Workers |-> IF pc[w] = "waiting" THEN "woken" ELSE pc[w]]

\* pc after join() on the owned worker and, if w is not Nobody, the start of w.
joined(ppc) == [w \in Workers |-> IF w = thread THEN "none" ELSE ppc[w]]

\* join() can return: there is nothing to join, or the worker has ended.
joinable == thread # Nobody
canJoin  == joinable => pc[thread] = "exited"

\* thread = std::thread(doThreadLoop), in a fresh thread.
startThread(w) ==
    /\ joined(pc)[w] = "none"
    /\ thread' = w
    /\ pc' = [joined(pc) EXCEPT ![w] = "start"]

-----------------------------------------------------------------------------
(* requestRun *)

\* Mutant: thread.joinable() is taken to mean that the worker is running.
requestRun_JoinableMeansRunning(r, immediate) ==
    /\ rpc[r] = "idle"
    /\ mutex = Nobody
    /\ hasPendingTask' = TRUE
    /\ runImmediately' = (runImmediately \/ immediate)
    /\ running' = TRUE
    /\ \/ /\ ~joinable
          /\ \E w \in Workers : startThread(w)
          /\ UNCHANGED <<mutex, rpc>>
       \/ /\ joinable
          /\ rpc' = [rpc EXCEPT ![r] = IF immediate THEN "notify" ELSE "idle"]
          /\ UNCHANGED <<mutex, thread, pc>>
    /\ UNCHANGED <<stopping, opc, destructing>>

\* Mutant: an immediate request does not notify the condition variable.
requestRun_NoNotify(r, immediate) ==
    /\ rpc[r] = "idle"
    /\ mutex = Nobody
    /\ hasPendingTask' = TRUE
    /\ runImmediately' = (runImmediately \/ immediate)
    /\ running' = TRUE
    /\ \/ /\ ~running /\ joinable
          /\ mutex' = r
          /\ rpc' = [rpc EXCEPT ![r] = "join"]
          /\ UNCHANGED <<thread, pc>>
       \/ /\ ~running /\ ~joinable
          /\ \E w \in Workers : startThread(w)
          /\ UNCHANGED <<mutex, rpc>>
       \/ /\ running
          /\ UNCHANGED <<mutex, thread, pc, rpc>>
    /\ UNCHANGED <<stopping, opc, destructing>>

\* The critical section up to the start of the worker, or up to the join.
requestRun(r, immediate) ==
    /\ rpc[r] = "idle"
    /\ mutex = Nobody
    /\ hasPendingTask' = TRUE
    /\ runImmediately' = (runImmediately \/ immediate)
    /\ running' = TRUE
    /\ \/ /\ ~running /\ joinable
          /\ mutex' = r
          /\ rpc' = [rpc EXCEPT ![r] = "join"]
          /\ UNCHANGED <<thread, pc>>
       \/ /\ ~running /\ ~joinable
          /\ \E w \in Workers : startThread(w)
          /\ UNCHANGED <<mutex, rpc>>
       \/ /\ running
          /\ rpc' = [rpc EXCEPT ![r] = IF immediate THEN "notify" ELSE "idle"]
          /\ UNCHANGED <<mutex, thread, pc>>
    /\ UNCHANGED <<stopping, opc, destructing>>

\* Mutant: the previous worker is detached, not joined.
requestRunJoin_Detach(r) ==
    /\ rpc[r] = "join"
    /\ \E w \in Workers : /\ pc[w] = "none"
                          /\ thread' = w
                          /\ pc' = [pc EXCEPT ![w] = "start"]
    /\ mutex' = Nobody
    /\ rpc' = [rpc EXCEPT ![r] = "idle"]
    /\ UNCHANGED <<flags, opc, destructing>>

\* Mutant: the lock is handed to the worker that was just started.
requestRunJoin_HandOver(r) ==
    /\ rpc[r] = "join"
    /\ canJoin
    /\ \E w \in Workers : startThread(w) /\ mutex' = w
    /\ rpc' = [rpc EXCEPT ![r] = "idle"]
    /\ UNCHANGED <<flags, opc, destructing>>

\* The previous worker has ended: join it, start the next one, unlock.
requestRunJoin(r) ==
    /\ rpc[r] = "join"
    /\ canJoin
    /\ \E w \in Workers : startThread(w)
    /\ mutex' = Nobody
    /\ rpc' = [rpc EXCEPT ![r] = "idle"]
    /\ UNCHANGED <<flags, opc, destructing>>

\* cv.notify_all() after the unlock of an immediate request.
requestRunNotify(r) ==
    /\ rpc[r] = "notify"
    /\ notify_all
    /\ rpc' = [rpc EXCEPT ![r] = "idle"]
    /\ UNCHANGED <<mutex, flags, thread, opc, destructing>>

-----------------------------------------------------------------------------
(* terminate, called directly or by the destructor *)

terminate(dtor) ==
    /\ opc \in {"idle", "terminated"}
    /\ mutex = Nobody
    /\ runImmediately' = TRUE
    /\ stopping' = TRUE
    /\ opc' = "notify"
    /\ destructing' = dtor
    /\ UNCHANGED <<mutex, running, hasPendingTask, thread, pc, rpc>>

terminateNotify ==
    /\ opc = "notify"
    /\ notify_all
    /\ opc' = "join"
    /\ UNCHANGED <<mutex, flags, thread, rpc, destructing>>

\* Mutant: terminate does not join.
terminateJoin_NoJoin ==
    /\ opc = "join"
    /\ opc' = IF destructing THEN "destroyed" ELSE "terminated"
    /\ UNCHANGED <<mutex, flags, thread, pc, rpc, destructing>>

\* if (thread.joinable()) thread.join(): done without the mutex.
terminateJoin ==
    /\ opc = "join"
    /\ canJoin
    /\ pc' = joined(pc)
    /\ thread' = Nobody
    /\ opc' = IF destructing THEN "destroyed" ELSE "terminated"
    /\ UNCHANGED <<mutex, flags, rpc, destructing>>

-----------------------------------------------------------------------------
(***************************************************************************)
(* The clients keep the contract of the header: "No more runs should be    *)
(* requested after this function is called."  requestRun is called only    *)
(* before terminate is, and terminate once no requestRun is in progress.   *)
(***************************************************************************)
RequestStep(r) ==
    \/ /\ opc = "idle"
       /\ \E immediate \in BOOLEAN : requestRun(r, immediate)
    \/ requestRunJoin(r)
    \/ requestRunNotify(r)

OwnerStep ==
    \/ /\ \A r \in Requesters : rpc[r] = "idle"
       /\ \E dtor \in BOOLEAN : terminate(dtor)
    \/ terminateNotify
    \/ terminateJoin

WorkerStep(w) ==
    \/ doThreadLoop(w) \/ waitTimeout(w) \/ resume(w)
    \/ function(w) \/ threadExit(w)

\* The object is gone: nothing is left to do.
Destroyed == opc = "destroyed" /\ UNCHANGED vars

Next ==
    \/ \E r \in Requesters : RequestStep(r)
    \/ OwnerStep
    \/ \E w \in Workers : WorkerStep(w)
    \/ Destroyed

(***************************************************************************)
(* Fairness: a thread that can go on does so (the scheduler), wait_for     *)
(* times out, the user function returns.  Nothing obliges a client to make *)
(* another request, nor the owner to call terminate.                       *)
(***************************************************************************)
Fairness ==
    /\ \A w \in Workers :
          /\ WF_vars(doThreadLoop(w))
          /\ WF_vars(waitTimeout(w))
          /\ WF_vars(resume(w))
          /\ WF_vars(function(w))
          /\ WF_vars(threadExit(w))
    /\ \A r \in Requesters : WF_vars(requestRunJoin(r)) /\ WF_vars(requestRunNotify(r))
    /\ WF_vars(terminateNotify) /\ WF_vars(terminateJoin)

Spec     == Init /\ [][Next]_vars
FairSpec == Spec /\ Fairness

-----------------------------------------------------------------------------
(* Properties *)

\* Every variable keeps its type.
TypeOK ==
    /\ mutex \in Requesters \cup {Nobody}
    /\ running \in BOOLEAN /\ hasPendingTask \in BOOLEAN
    /\ runImmediately \in BOOLEAN /\ stopping \in BOOLEAN
    /\ thread \in Workers \cup {Nobody}
    /\ pc \in [Workers -> WorkerPC]
    /\ rpc \in [Requesters -> RequesterPC]
    /\ opc \in OwnerPC
    /\ destructing \in BOOLEAN

\* Every worker that was started and not yet joined is the one `thread' owns:
\* the function never runs on two threads at once and no thread is left behind
\* when requestRun starts the next one.
OneWorker == \A w \in Workers : pc[w] # "none" => thread = w

\* A request is never lost: while hasPendingTask is set, a worker is in the loop
\* and will test it again, or a requester that is about to start one holds the
\* mutex.  The window is a request made just as the worker decides to leave.
NoLostRequest ==
    hasPendingTask => \/ \E w \in Workers : pc[w] \in InLoop
                      \/ \E r \in Requesters : rpc[r] = "join"

\* No wakeup is lost: a worker sits out its delay although an immediate run was
\* requested, or terminate called, only while the notify_all for it is still to
\* come (the flags are set under the mutex, the notification is sent after it).
NoLostWakeup ==
    (\E w \in Workers : pc[w] = "waiting") /\ (runImmediately \/ stopping) =>
        \/ \E r \in Requesters : rpc[r] = "notify"
        \/ opc = "notify"

\* When terminate has returned, every requested run was made and the worker was
\* joined, so that the destructor of `thread' finds nothing joinable.
StoppedClean ==
    opc \in {"terminated", "destroyed"} =>
        /\ ~hasPendingTask
        /\ ~joinable
        /\ \A w \in Workers : pc[w] = "none"

\* terminate blocks "until the thread is stopped", and does return.
TerminateReturns == (opc = "notify") ~> (opc \in {"terminated", "destroyed"})

\* What the class promises to its clients: see module DelayedTask.
executing == \E w \in Workers : pc[w] = "running"
phase     == CASE opc = "idle" -> "open"
               [] opc \in {"notify", "join"} -> "stopping"
               [] OTHER -> "stopped"
Task == INSTANCE DelayedTask WITH requested <- hasPendingTask

\* Every step of the threads is a step of the abstract task or invisible: a run takes all
\* the requests made before it, runs do not overlap, terminate waits for the last one.
ImplementsTask == Task!Spec

\* And nothing is postponed for ever.
ImplementsFairTask == Task!FairSpec

=============================================================================
