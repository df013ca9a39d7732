---------------------------- MODULE EventManager ----------------------------
(***************************************************************************)
(* cll::EventManager: the threads that call add, the two upload tasks and  *)
(* the owner, which calls start and the destructor.                        *)
(*                                                                         *)
(* Each TaskWithDelayThread is the abstract task of module DelayedTask,    *)
(* which TaskWithDelayThread implements.  The two disk-backed batches are  *)
(* first-in first-out queues (module EventQueue), which module             *)
(* MultiFileEventBatch shows of the critical one; of the normal one, whose *)
(* BufferedEventBatch is a queue only until the buffer is flushed during   *)
(* an upload, it is an assumption.  The list of a post is any non-empty    *)
(* prefix of the batch (module EventUploader looks into sendEvents).       *)
(***************************************************************************)
EXTENDS Integers, SequencesExt

CONSTANTS
    Events,       \* each is passed to add once, by a thread of its own
    Realtime,     \* those with the flag LatencyRealtime
    Critical,     \* those with the flag PersistenceCritical
    Leftover,     \* normal events a previous process left on the disk
    MemoryLimit,  \* limit of realtimeMemoryBatch
    MaxRefusals   \* how often a storage refuses an event (too large, disk full)

ASSUME FlagAssumption == Realtime \subseteq Events /\ Critical \subseteq Events
ASSUME LimitAssumption == MemoryLimit \in Nat /\ MaxRefusals \in Nat
ASSUME LeftoverAssumption ==
    /\ Leftover \in Seq(ToSet(Leftover)) /\ IsInjective(Leftover)
    /\ ToSet(Leftover) \cap Events = {}

VARIABLES
    storage,        \* the events of criticalStorageBatch and normalStorageBatch
    memory,         \* the events of realtimeMemoryBatch
    adding,         \* where each call of add is: new, requestRealtime, requestMain, added, dropped
    mainRequested, mainExecuting, mainPhase,    \* mainUploadTask
    rtRequested, rtExecuting, rtPhase,          \* realtimeUploadTask
    mpc, sending,   \* the main worker in uploadTasks; the batch and the length it sends
    rpc, rtCount,   \* the realtime worker in uploadRealtimeTasks; the length it sends
    transfer,       \* the events of transferAllEvents not yet added to a storage
    opc,            \* where the owner is
    received,       \* how often the server acknowledged each event
    refused         \* the events no storage took

mainTask   == <<mainRequested, mainExecuting, mainPhase>>
rtTask     == <<rtRequested, rtExecuting, rtPhase>>
mainWorker == <<mpc, sending>>
rtWorker   == <<rpc, rtCount, transfer>>
vars == <<storage, memory, adding, mainTask, rtTask, mainWorker, rtWorker, opc, received, refused>>

mainUploadTask == INSTANCE DelayedTask WITH
    requested <- mainRequested, executing <- mainExecuting, phase <- mainPhase
realtimeUploadTask == INSTANCE DelayedTask WITH
    requested <- rtRequested, executing <- rtExecuting, phase <- rtPhase

Kinds     == {"critical", "normal"}
Kind(e)   == IF e \in Critical THEN "critical" ELSE "normal"
AllEvents == Events \cup ToSet(Leftover)

\* A post of evts that the server accepts.
Occurrences(e, evts) == Cardinality({i \in DOMAIN evts : evts[i] = e})
acknowledge(evts) == received' = [e \in AllEvents |-> received[e] + Occurrences(e, evts)]

NotSending == <<"normal", 0>>

Init ==
    /\ storage = [k \in Kinds |-> IF k = "normal" THEN Leftover ELSE <<>>]
    /\ memory = <<>>
    /\ adding = [e \in Events |-> "new"]
    /\ mainUploadTask!Init /\ realtimeUploadTask!Init
    /\ mpc = "idle" /\ sending = NotSending
    /\ rpc = "idle" /\ rtCount = 0 /\ transfer = <<>>
    /\ opc = "created"
    /\ received = [e \in AllEvents |-> 0] /\ refused = {}

-----------------------------------------------------------------------------
(* EventManager::add: the event is put in a batch, then a run is requested. *)

\* addEvent of the event's storage: it is appended, or refused.
store(e) == storage' = [storage EXCEPT ![Kind(e)] = Append(@, e)] /\ UNCHANGED refused
refuse(e) ==
    /\ Cardinality(refused) < MaxRefusals
    /\ refused' = refused \cup {e}
    /\ UNCHANGED storage

\* A realtime event goes to memory, and to the storage if memory is full: a step from the
\* test on, although the lock of the memory's batch is not held any more in the storage's.
add(e) ==
    /\ opc \in {"created", "started"}
    /\ adding[e] = "new"
    /\ \/ /\ e \in Realtime /\ Len(memory) < MemoryLimit
          /\ memory' = Append(memory, e)
          /\ adding' = [adding EXCEPT ![e] = "requestRealtime"]
          /\ UNCHANGED <<storage, refused>>
       \/ /\ e \notin Realtime \/ Len(memory) >= MemoryLimit
          /\ \/ store(e) /\ adding' = [adding EXCEPT ![e] = "requestMain"]
             \/ refuse(e) /\ adding' = [adding EXCEPT ![e] = "dropped"]
          /\ UNCHANGED memory
    /\ UNCHANGED <<mainTask, rtTask, mainWorker, rtWorker, opc, received>>

addRequest(e) ==
    /\ \/ adding[e] = "requestRealtime" /\ realtimeUploadTask!Request /\ UNCHANGED mainTask
       \/ adding[e] = "requestMain" /\ mainUploadTask!Request /\ UNCHANGED rtTask
    /\ adding' = [adding EXCEPT ![e] = "added"]
    /\ UNCHANGED <<storage, memory, mainWorker, rtWorker, opc, received, refused>>

-----------------------------------------------------------------------------
(* EventManager::uploadTasks, on the worker of mainUploadTask. *)

mainBegin ==
    /\ mpc = "idle"
    /\ mainUploadTask!Begin
    /\ mpc' = "loop"
    /\ UNCHANGED <<storage, memory, adding, rtTask, sending, rtWorker, opc, received, refused>>

\* The loop test: isStopping, then normalStorageBatch, then criticalStorageBatch.
mainTest ==
    /\ \/ mpc = "loop" /\ mpc' = CASE mainPhase # "open" -> "leaving"
                                   [] mainPhase = "open" /\ storage["normal"] # <<>> -> "send"
                                   [] OTHER -> "testCritical"
       \/ mpc = "testCritical" /\ mpc' = IF storage["critical"] # <<>> THEN "send" ELSE "leaving"
    /\ UNCHANGED <<storage, memory, adding, mainTask, rtTask, sending, rtWorker, opc, received,
                   refused>>

\* The function returns.
mainEnd ==
    /\ mpc = "leaving"
    /\ mainUploadTask!End
    /\ mpc' = "idle"
    /\ UNCHANGED <<storage, memory, adding, rtTask, sending, rtWorker, opc, received, refused>>

\* Critical events go first; n is what the limits of a post allow.
mainSend ==
    /\ mpc = "send"
    /\ LET k == IF storage["critical"] # <<>> THEN "critical" ELSE "normal"
       IN  \E n \in 1..Len(storage[k]) : sending' = <<k, n>>
    /\ mpc' = "post"
    /\ UNCHANGED <<storage, memory, adding, mainTask, rtTask, rtWorker, opc, received, refused>>

mainAccepted ==
    /\ mpc = "post"
    /\ acknowledge(SubSeq(storage[sending[1]], 1, sending[2]))
    /\ mpc' = "done"
    /\ UNCHANGED <<storage, memory, adding, mainTask, rtTask, sending, rtWorker, opc, refused>>

\* The upload failed; sleep does not wait (module TaskWithDelayThread).
mainFailed ==
    /\ mpc = "post"
    /\ mpc' = "loop" /\ sending' = NotSending
    /\ UNCHANGED <<storage, memory, adding, mainTask, rtTask, rtWorker, opc, received, refused>>

mainUploaded ==
    /\ mpc = "done"
    /\ storage' = [storage EXCEPT ![sending[1]] = SubSeq(@, sending[2] + 1, Len(@))]
    /\ mpc' = "loop" /\ sending' = NotSending
    /\ UNCHANGED <<memory, adding, mainTask, rtTask, rtWorker, opc, received, refused>>

-----------------------------------------------------------------------------
(* EventManager::uploadRealtimeTasks, on the worker of realtimeUploadTask. *)

rtBegin ==
    /\ rpc = "idle"
    /\ realtimeUploadTask!Begin
    /\ rpc' = "loop"
    /\ UNCHANGED <<storage, memory, adding, mainTask, mainWorker, rtCount, transfer, opc,
                   received, refused>>

\* Mutant: the loop is left when the task is stopping, as in uploadTasks.
rtTest_StopsWithTask ==
    /\ rpc = "loop"
    /\ rpc' = IF memory # <<>> /\ rtPhase = "open" THEN "send" ELSE "leaving"
    /\ UNCHANGED <<storage, memory, adding, mainTask, rtTask, mainWorker, rtCount, transfer, opc,
                   received, refused>>

\* The loop test: it does not look at isStopping.
rtTest ==
    /\ rpc = "loop"
    /\ rpc' = IF memory # <<>> THEN "send" ELSE "leaving"
    /\ UNCHANGED <<storage, memory, adding, mainTask, rtTask, mainWorker, rtCount, transfer, opc,
                   received, refused>>

rtEnd ==
    /\ rpc = "leaving"
    /\ realtimeUploadTask!End
    /\ rpc' = "idle"
    /\ UNCHANGED <<storage, memory, adding, mainTask, mainWorker, rtCount, transfer, opc,
                   received, refused>>

rtSend ==
    /\ rpc = "send"
    /\ \E n \in 1..Len(memory) : rtCount' = n
    /\ rpc' = "post"
    /\ UNCHANGED <<storage, memory, adding, mainTask, rtTask, mainWorker, transfer, opc,
                   received, refused>>

rtAccepted ==
    /\ rpc = "post"
    /\ acknowledge(SubSeq(memory, 1, rtCount))
    /\ rpc' = "done"
    /\ UNCHANGED <<storage, memory, adding, mainTask, rtTask, mainWorker, rtCount, transfer,
                   opc, refused>>

\* MemoryEventBatch::onEventsUploaded.
rtUploaded ==
    /\ rpc = "done"
    /\ memory' = SubSeq(memory, rtCount + 1, Len(memory))
    /\ rpc' = "loop" /\ rtCount' = 0
    /\ UNCHANGED <<storage, adding, mainTask, rtTask, mainWorker, transfer, opc, received,
                   refused>>

\* Mutant: the events that were sent are transferred, and all are removed.
transferAllEvents_SentOnly ==
    /\ rpc = "post"
    /\ transfer' = SubSeq(memory, 1, rtCount)
    /\ memory' = <<>>
    /\ rpc' = "transfer" /\ rtCount' = 0
    /\ UNCHANGED <<storage, adding, mainTask, rtTask, mainWorker, opc, received, refused>>

\* The upload failed: all the events are moved out of memory.
transferAllEvents ==
    /\ rpc = "post"
    /\ transfer' = memory
    /\ memory' = <<>>
    /\ rpc' = "transfer" /\ rtCount' = 0
    /\ UNCHANGED <<storage, adding, mainTask, rtTask, mainWorker, opc, received, refused>>

\* Each is added to its storage; the result of addEvent is not looked at.
transferEvent ==
    /\ rpc = "transfer" /\ transfer # <<>>
    /\ store(Head(transfer)) \/ refuse(Head(transfer))
    /\ transfer' = Tail(transfer)
    /\ UNCHANGED <<memory, adding, mainTask, rtTask, mainWorker, rpc, rtCount, opc, received>>

\* Mutant: no run of the main task is requested for the transferred events.
transferRequest_None ==
    /\ rpc = "transfer" /\ transfer = <<>>
    /\ rpc' = "loop"
    /\ UNCHANGED <<storage, memory, adding, mainTask, rtTask, mainWorker, rtCount, transfer,
                   opc, received, refused>>

transferRequest ==
    /\ rpc = "transfer" /\ transfer = <<>>
    /\ mainUploadTask!Request
    /\ rpc' = "loop"
    /\ UNCHANGED <<storage, memory, adding, rtTask, mainWorker, rtCount, transfer, opc,
                   received, refused>>

-----------------------------------------------------------------------------
(* The owner *)

\* A step of the owner that leaves the batches and the workers alone.
OwnerMoves(from, to) ==
    /\ opc = from /\ opc' = to
    /\ UNCHANGED <<storage, memory, adding, mainWorker, rtWorker, received, refused>>

start == OwnerMoves("created", "started") /\ mainUploadTask!Request /\ UNCHANGED rtTask

\* The destructor calls mainUploadTask->terminate().  No thread is in add then, and none
\* calls it again.
destroy ==
    /\ \A e \in Events : adding[e] \notin {"requestRealtime", "requestMain"}
    /\ \E from \in {"created", "started"} : OwnerMoves(from, "stopMain")
    /\ mainUploadTask!Stop /\ UNCHANGED rtTask

\* It has returned; realtimeUploadTask->terminate().
terminateRealtime ==
    /\ OwnerMoves("stopMain", "stopRealtime")
    /\ mainUploadTask!Stopped /\ realtimeUploadTask!Stop

\* That has returned.  The members are destroyed in reverse order of declaration, and the
\* destructors of the tasks terminate them again: realtimeUploadTask ...
deleteRealtime ==
    /\ \/ OwnerMoves("stopRealtime", "stopRealtime") /\ realtimeUploadTask!Stopped
       \/ OwnerMoves("stopRealtime", "deleteRealtime") /\ rtPhase = "stopped"
          /\ realtimeUploadTask!Stop
    /\ UNCHANGED mainTask

\* ... then mainUploadTask.
deleteMain ==
    /\ OwnerMoves("deleteRealtime", "deleteMain")
    /\ realtimeUploadTask!Stopped /\ mainUploadTask!Stop

destroyed == OwnerMoves("deleteMain", "destroyed") /\ mainUploadTask!Stopped /\ UNCHANGED rtTask

-----------------------------------------------------------------------------
AddStep(e) == add(e) \/ addRequest(e)
MainStep   == \/ mainBegin \/ mainTest \/ mainEnd \/ mainSend
              \/ mainAccepted \/ mainFailed \/ mainUploaded
RtStep     == \/ rtBegin \/ rtTest \/ rtEnd \/ rtSend \/ rtAccepted \/ rtUploaded
              \/ transferAllEvents \/ transferEvent \/ transferRequest
OwnerStep  == \/ start \/ destroy \/ terminateRealtime \/ deleteRealtime \/ deleteMain
              \/ destroyed

\* All is quiet; only the owner may still act.
Quiet == /\ ~mainRequested /\ ~mainExecuting /\ ~rtRequested /\ ~rtExecuting
         /\ UNCHANGED vars

Next == (\E e \in Events : AddStep(e)) \/ MainStep \/ RtStep \/ OwnerStep \/ Quiet

(***************************************************************************)
(* Fairness: the two tasks keep the promise of DelayedTask, a call of add  *)
(* goes on to its request, a destructor in progress goes on, and a server  *)
(* that is asked again and again accepts in the end.                       *)
(***************************************************************************)
Fairness ==
    /\ WF_vars(MainStep) /\ SF_vars(mainAccepted)
    /\ WF_vars(RtStep)
    /\ \A e \in Events : WF_vars(addRequest(e))
    /\ WF_vars(terminateRealtime \/ deleteRealtime \/ deleteMain \/ destroyed)

Spec     == Init /\ [][Next]_vars
FairSpec == Spec /\ Fairness

-----------------------------------------------------------------------------
(* Properties *)

\* An event that was added is in exactly one place until it is received: the events of a
\* failed realtime upload change places while others are added and uploaded, and none is
\* lost, received twice, or kept after it was received.
Remaining(evts, n) == SubSeq(evts, n + 1, Len(evts))
ExactlyOnePlace ==
    \A e \in AllEvents :
        received[e] + Occurrences(e, transfer)
          + Occurrences(e, Remaining(memory, IF rpc = "done" THEN rtCount ELSE 0))
          + Occurrences(e, Remaining(storage[Kind(e)], IF mpc = "done" /\ sending[1] = Kind(e)
                                                       THEN sending[2] ELSE 0))
        = IF e \in refused \/ (e \in Events /\ adding[e] = "new") THEN 0 ELSE 1

\* The realtime events exist in memory only: when the manager is destroyed each was sent or
\* has been moved to a storage, and no worker is left.
MemoryIsSaved ==
    opc = "destroyed" => /\ memory = <<>> /\ transfer = <<>>
                         /\ ~mainExecuting /\ ~rtExecuting /\ ~mainRequested /\ ~rtRequested

\* Every event is received in the end, unless it is refused or the manager is destroyed.
EventuallyReceived ==
    \A e \in Events : adding[e] \in {"requestRealtime", "requestMain"}
                         ~> (received[e] > 0 \/ e \in refused \/ opc = "destroyed")

=============================================================================
