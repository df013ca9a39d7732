------------------------ MODULE MultiFileEventBatch ------------------------
(***************************************************************************)
(* A cll::MultiFileEventBatch shared by the threads that add events and by *)
(* the upload thread, over restarts of the process.  The upload thread has *)
(* one list in flight at a time (EventUploader::sendEvents); the others    *)
(* add events, and with them rotate the files, while it is.                *)
(***************************************************************************)
EXTENDS EventFiles

CONSTANTS
    Events,          \* each is offered to addEvent at most once
    FileLimits,      \* the limits setFileLimits and the constructor get
    UploadLimits,    \* <<maxCount, maxSize>> of getEventsForUpload
    MaxOpenErrors    \* bound on the open() calls that fail

ASSUME SizeAssumption  == Size \in [Events -> Nat \ {0}]
ASSUME LimitAssumption == FileLimits \subseteq Nat \X Nat /\ UploadLimits \subseteq Nat \X Nat
ASSUME ErrorAssumption == MaxOpenErrors \in Nat

VARIABLES
    batch,     \* the storage of module EventFiles
    list,      \* the list in flight, NullList if none
    tried,     \* events already offered
    failures   \* open() calls that failed

vars == <<batch, list, tried, failures>>

\* The ids open() fails for in an operation that opens at most the given ones.
BadIds(ids) == {bad \in SUBSET ids : Cardinality(bad) \in 0..(MaxOpenErrors - failures)}

Init ==
    /\ \E limit \in FileLimits : batch = openStorage(<<>>, limit, {})
    /\ list = NullList /\ tried = {} /\ failures = 0

AddEvent(e) ==
    /\ e \notin tried
    /\ tried' = tried \cup {e}
    /\ \E bad \in BadIds({batch.newest + 1} \ DOMAIN batch.disk) :
          /\ batch' = addEvent(batch, e, bad)
          /\ failures' = failures + Cardinality(bad)
    /\ UNCHANGED list

GetEventsForUpload(limit) ==
    /\ list = NullList
    /\ \E bad \in BadIds(ToSet(batch.oldBatches)) :
          /\ batch' = checkOldestBatch(batch, bad)
          /\ failures' = failures + Cardinality(bad)
    /\ list' = getEventsForUpload(batch', limit[1], limit[2])
    /\ UNCHANGED tried

OnEventsUploaded ==
    /\ list # NullList
    /\ batch' = onEventsUploaded(batch, list)
    /\ list' = NullList
    /\ UNCHANGED <<tried, failures>>

UploadFailed ==
    /\ list # NullList
    /\ list' = NullList
    /\ UNCHANGED <<batch, tried, failures>>

SetFileLimits(limit) ==
    /\ batch' = setFileLimits(batch, limit)
    /\ UNCHANGED <<list, tried, failures>>

\* The process ends, by a crash or not, and the next one opens the files.
Restart(limit) ==
    /\ \E bad \in BadIds({Max(DOMAIN batch.disk \cup {0})}) :
          /\ batch' = openStorage(batch.disk, limit, bad)
          /\ failures' = failures + Cardinality(bad)
    /\ list' = NullList
    /\ UNCHANGED tried

Next ==
    \/ \E e \in Events : AddEvent(e)
    \/ \E limit \in UploadLimits : GetEventsForUpload(limit)
    \/ OnEventsUploaded
    \/ UploadFailed
    \/ \E limit \in FileLimits : SetFileLimits(limit) \/ Restart(limit)

Spec == Init /\ [][Next]_vars

-----------------------------------------------------------------------------
(* Properties *)

\* Every file of the directory that holds an event is one oldestBatch, oldBatches or
\* newestBatch refers to, whatever rotations, uploads and restarts came before, up to the
\* first open() that fails; and hasEvents, for which uploadTasks goes on, says so.
NoEventsForgotten ==
    failures = 0 =>
        \A id \in DOMAIN batch.disk :
            batch.disk[id] # <<>> => id \in ToSet(FileOrder(batch)) /\ hasEvents(batch)

\* An event of the storage, in whichever file, leaves it only by an upload that held
\* it, and the events leave in the order they came: the storage is an EventQueue, up to
\* the first open() that fails (an old file that cannot be opened counts as empty, and
\* checkOldestBatch removes it with its events).
Queue == INSTANCE EventQueue WITH queue <- Contents(batch), taken <- list.count
IsQueue == Queue!Init /\ [][failures' = 0 => [Queue!Next]_(Queue!vars)]_vars

=============================================================================
