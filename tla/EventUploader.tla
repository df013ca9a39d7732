--------------------------- MODULE EventUploader ---------------------------
(***************************************************************************)
(* EventManager::uploadTasks and EventUploader::sendEvents on one storage, *)
(* the critical MultiFileEventBatch: the upload thread takes a list, posts *)
(* it and reports it uploaded, while other threads add events and the      *)
(* configuration changes the limits.  Each call into the storage is a step *)
(* of module MultiFileEventBatch; the threads interleave between them.     *)
(* The open() calls succeed and the process goes on.                       *)
(***************************************************************************)
EXTENDS MultiFileEventBatch

CONSTANT
    SizeMax      \* SIZE_MAX: no list is larger

ASSUME SizeMaxAssumption == SizeMax \in Nat

VARIABLES
    limits,      \* uploaderMaxEvents, uploaderMaxSize
    update,      \* the limits onConfigurationUpdated is storing, or Nothing
    pc,          \* where the upload thread is
    args,        \* maxCount and maxSize of the current sendEvents
    evts,        \* the events in its list
    canRetry,    \* a 401 may still be answered by a second post
    seen,        \* events stored when getEventsForUpload last returned no list to sendEvents
    accepted,    \* events addEvent accepted, in order; the others are lost ("Event dropped")
    received,    \* events the server acknowledged with 200, in order
    dropped      \* events sendEvents gave up, in order

clients == <<limits, update, accepted>>    \* what only the other threads write
outcome == <<received, dropped>>
call    == <<args, evts, canRetry, seen>>
uploaderVars == <<vars, clients, pc, call, outcome>>

(***************************************************************************)
(* The upload thread's program counter.                                    *)
(*   loop   the loop test of uploadTasks                                   *)
(*   args   one of uploaderMaxEvents and uploaderMaxSize was read          *)
(*   get    sendEvents(EventBatch): getEventsForUpload(maxCount, maxSize)  *)
(*   empty  no list: batch.hasEvents()?                                    *)
(*   first  getEventsForUpload(1, SIZE_MAX)                                *)
(*   drop   onEventsUploaded of that first event                           *)
(*   post   sendEvents(BatchedEventList)                                   *)
(*   done   onEventsUploaded of the list                                   *)
(***************************************************************************)

Nothing == <<>>

UploaderInit ==
    /\ Init
    /\ limits = batch.limit /\ update = Nothing
    /\ pc = "loop" /\ args = limits /\ evts = <<>> /\ canRetry = TRUE /\ seen = {}
    /\ accepted = <<>> /\ received = <<>> /\ dropped = <<>>

-----------------------------------------------------------------------------
(* The other threads *)

\* EventManager::add; the event is dropped if the storage does not take it.
add(e) ==
    /\ AddEvent(e) /\ UNCHANGED failures
    /\ accepted' = IF accepts(batch, e, {}) THEN Append(accepted, e) ELSE accepted
    /\ UNCHANGED <<limits, update, pc, call, outcome>>

\* EventManager::onConfigurationUpdated (on the realtime worker, say) sets the limits of the
\* files, then uploaderMaxSize, then uploaderMaxEvents.
onConfigurationUpdated(limit) ==
    /\ update = Nothing /\ limit # limits
    /\ update' = limit
    /\ SetFileLimits(limit)
    /\ UNCHANGED <<limits, pc, call, accepted, outcome>>

storeLimits ==
    /\ update # Nothing
    /\ IF limits[2] # update[2]
       THEN limits' = [limits EXCEPT ![2] = update[2]] /\ UNCHANGED update
       ELSE limits' = update /\ update' = Nothing
    /\ UNCHANGED <<vars, pc, call, accepted, outcome>>

-----------------------------------------------------------------------------
(* The upload thread *)

\* Mutant: a batch that has only one event is left for later.
uploadTasks_KeepsLast ==
    /\ pc = "loop"
    /\ Len(Contents(batch)) > 1
    /\ \E i \in 1..2 : args' = [j \in 1..2 |-> IF j = i THEN limits[j] ELSE None]
    /\ pc' = "args"
    /\ UNCHANGED <<vars, clients, evts, canRetry, seen, outcome>>

\* while (hasEvents()) ... sendEvents(batch, uploaderMaxEvents, uploaderMaxSize), which reads
\* the two atomics one after the other, in an order the language leaves open.
uploadTasks ==
    /\ pc = "loop"
    /\ hasEvents(batch)
    /\ \E i \in 1..2 : args' = [j \in 1..2 |-> IF j = i THEN limits[j] ELSE None]
    /\ pc' = "args"
    /\ UNCHANGED <<vars, clients, evts, canRetry, seen, outcome>>

readLimit ==
    /\ pc = "args"
    /\ args' = [j \in 1..2 |-> IF args[j] = None THEN limits[j] ELSE args[j]]
    /\ pc' = "get"
    /\ UNCHANGED <<vars, clients, evts, canRetry, seen, outcome>>

\* The list getEventsForUpload returns, and what it holds.
TakeList(maxCount, maxSize, found, missing) ==
    /\ GetEventsForUpload(<<maxCount, maxSize>>) /\ UNCHANGED failures
    /\ evts' = IF list' = NullList THEN <<>>
               ELSE SubSeq(Content(batch', front(batch')), 1, list'.count)
    /\ pc' = IF list' = NullList THEN missing ELSE found

\* Mutant: the atomics are read again, not the arguments of the call.
sendEvents_RereadsLimits ==
    /\ pc = "get"
    /\ TakeList(limits[1], limits[2], "post", "empty")
    /\ canRetry' = TRUE
    /\ seen' = IF list' = NullList THEN ToSet(Contents(batch)) ELSE seen
    /\ UNCHANGED <<clients, args, outcome>>

sendEvents ==
    /\ pc = "get"
    /\ TakeList(args[1], args[2], "post", "empty")
    /\ canRetry' = TRUE
    /\ seen' = IF list' = NullList THEN ToSet(Contents(batch)) ELSE seen
    /\ UNCHANGED <<clients, args, outcome>>

\* "Failed to get any event from the batch", or the batch is empty by now.
noList ==
    /\ pc = "empty"
    /\ pc' = IF hasEvents(batch) THEN "first" ELSE "loop"
    /\ UNCHANGED <<vars, clients, call, outcome>>

getFirst ==
    /\ pc = "first"
    /\ TakeList(1, SizeMax, "drop", "loop")
    /\ UNCHANGED <<clients, args, canRetry, seen, outcome>>

dropFirst ==
    /\ pc = "drop"
    /\ OnEventsUploaded
    /\ dropped' = dropped \o evts
    /\ pc' = "get" /\ evts' = <<>>
    /\ UNCHANGED <<clients, args, canRetry, seen, received>>

\* The server answers 200.
postAccepted ==
    /\ pc = "post"
    /\ received' = received \o evts
    /\ pc' = "done"
    /\ UNCHANGED <<vars, clients, call, dropped>>

\* Mutant: the list is reported uploaded whatever the server answered.
postFailed_ReportsAnyway ==
    /\ pc = "post"
    /\ pc' = "done"
    /\ UNCHANGED <<vars, clients, call, outcome>>

\* HttpError, 429, 503 or another status; the list stays in the storage.  The sleep
\* that follows does not wait (module TaskWithDelayThread).  An HttpError may also come
\* after the server took the list: it then gets the events again, which `received', the
\* acknowledged ones, does not count.
postFailed ==
    /\ pc = "post"
    /\ UploadFailed
    /\ pc' = "loop" /\ evts' = <<>>
    /\ UNCHANGED <<clients, args, canRetry, seen, outcome>>

\* 401: the upload steps refresh their tokens and, if one could, the list is posted
\* once more; otherwise it is postFailed.
postUnauthorized ==
    /\ pc = "post" /\ canRetry
    /\ canRetry' = FALSE
    /\ UNCHANGED <<vars, clients, pc, args, evts, seen, outcome>>

uploaded ==
    /\ pc = "done"
    /\ OnEventsUploaded
    /\ pc' = "loop" /\ evts' = <<>>
    /\ UNCHANGED <<clients, args, canRetry, seen, outcome>>

UploadStep == \/ uploadTasks \/ readLimit \/ sendEvents \/ noList \/ getFirst \/ dropFirst
              \/ postAccepted \/ postFailed \/ postUnauthorized \/ uploaded

\* uploadTasks returns when there are no events; the next add requests it again.
Idle == pc = "loop" /\ ~hasEvents(batch) /\ UNCHANGED uploaderVars

UploaderNext ==
    \/ \E e \in Events : add(e)
    \/ \E limit \in FileLimits : onConfigurationUpdated(limit)
    \/ storeLimits
    \/ UploadStep
    \/ Idle

(***************************************************************************)
(* Fairness: the upload thread goes on, and a server that is asked again   *)
(* and again accepts in the end.                                           *)
(***************************************************************************)
Fairness ==
    /\ WF_uploaderVars(UploadStep)
    /\ SF_uploaderVars(postAccepted)

UploaderSpec == UploaderInit /\ [][UploaderNext]_uploaderVars
FairSpec     == UploaderSpec /\ Fairness

-----------------------------------------------------------------------------
(* Properties *)

\* The events an upload in progress has delivered and not yet removed.
Delivered == IF pc = "done" THEN Len(evts) ELSE 0

\* The server acknowledges every event exactly once and in order, however adds, rotations and new
\* limits interleave with the posts and their failures: what it has acknowledged, then
\* what is stored, is what was accepted, without the events given up on purpose.
ExactlyOnce ==
    LET stored == SubSeq(Contents(batch), Delivered + 1, Len(Contents(batch)))
    IN  received \o stored = Without(accepted, ToSet(dropped))

\* An event no file takes was refused; the refusal leaves an empty file behind (rotate).
AnyRefused == tried # ToSet(accepted)

\* "Failed to get any event from the batch": an event is given up only if the limits of
\* this sendEvents forbid to post it, or if it was added between the two looks at the
\* batch, and the latter only after an event no file takes was refused: the first look
\* then removes the empty file and finds nothing, the second takes what came since.
Unsendable(e) == args[1] = 0 \/ Size[e] > args[2]
DropsOnlyUnsendable ==
    [][dropFirst => \A i \in DOMAIN evts :
                       Unsendable(evts[i]) \/ (AnyRefused /\ evts[i] \notin seen)]_uploaderVars

\* Every accepted event reaches the server or is given up, unless an event no file takes
\* was refused: the empty file it leaves may become oldestBatch, for which hasEvents is
\* true and getEventsForUpload returns no list, again and again.
EventuallyUploaded ==
    \A e \in Events : e \in ToSet(accepted) ~> \/ e \in ToSet(received) \cup ToSet(dropped)
                                              \/ AnyRefused

=============================================================================
