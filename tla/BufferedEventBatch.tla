------------------------- MODULE BufferedEventBatch -------------------------
(***************************************************************************)
(* cll::BufferedEventBatch: a MemoryEventBatch in front of a               *)
(* MultiFileEventBatch.  Events wait in memory until the buffer is full,   *)
(* then all of them are moved to the files.  An upload takes events of the *)
(* files first and, when those are exhausted, of the buffer in the same    *)
(* list.  Each operation holds the batch's mutex; an upload holds it only  *)
(* while it takes its list and while it reports the list uploaded.         *)
(*                                                                         *)
(* `batch' and `list' of module MultiFileEventBatch are the wrapped batch  *)
(* and the list taken of it.  Its open() calls succeed.                    *)
(***************************************************************************)
EXTENDS MultiFileEventBatch

CONSTANT
    BufferLimit    \* bufferedItemCount

ASSUME BufferAssumption == BufferLimit \in Nat \ {0}

VARIABLES
    mem,        \* the events of the MemoryEventBatch
    upload,     \* the BufferedEventList in flight: its list of mem, and its events
    added,      \* events for which addEvent returned true, in order
    sent,       \* events of the lists that were reported uploaded, in order
    refused,    \* events the wrapped batch refused during a flush (logged)
    crashed,    \* events in the buffer of a process that was killed
    overlapped  \* the buffer was flushed while a list of its events was in flight

history == <<added, sent, refused, crashed, overlapped>>
bufferedVars == <<vars, mem, upload, history>>

-----------------------------------------------------------------------------
NoUpload == [mem |-> NullList, evts |-> <<>>, null |-> TRUE]

\* The events a list of evts carries.
Carried(evts, l) == IF l = NullList THEN <<>> ELSE SubSeq(evts, 1, l.count)

\* MemoryEventBatch::getEventsForUpload
memEventsForUpload(maxCount, maxSize) ==
    IF maxCount = 0 \/ maxSize = 0 \/ mem = <<>> THEN NullList
    ELSE prefixList(mem, maxCount, maxSize)

BufferedInit ==
    /\ Init
    /\ mem = <<>> /\ upload = NoUpload
    /\ added = <<>> /\ sent = <<>> /\ refused = {} /\ crashed = {} /\ overlapped = FALSE

\* flushInternal: add the events of the buffer to the files, one after the other.
flushInternal ==
    LET step(s, e) == [batch   |-> addEvent(s.batch, e, {}),
                       refused |-> IF accepts(s.batch, e, {}) THEN s.refused
                                   ELSE s.refused \cup {e}]
    IN  FoldLeft(step, [batch |-> batch, refused |-> refused], mem)

\* The buffer is flushed and then holds evts.
Flushed(evts) ==
    /\ batch' = flushInternal.batch /\ refused' = flushInternal.refused
    /\ mem' = evts
    /\ overlapped' = (overlapped \/ upload.mem # NullList)

AddBuffered(e) ==
    /\ e \notin tried
    /\ tried' = tried \cup {e}
    /\ added' = Append(added, e)
    /\ \/ /\ Len(mem) < BufferLimit
          /\ mem' = Append(mem, e)
          /\ UNCHANGED <<batch, refused, overlapped>>
       \/ /\ Len(mem) >= BufferLimit
          /\ Flushed(<<e>>)
    /\ UNCHANGED <<list, failures, upload, sent, crashed>>

\* flush() from outside; the destructor's is part of RestartFlushed.
Flush ==
    /\ Flushed(<<>>)
    /\ UNCHANGED <<list, tried, failures, upload, added, sent, crashed>>

\* EventManager::uploadTasks asks for a list only if hasEvents returned true.
HasEvents == mem # <<>> \/ hasEvents(batch)

\* The wrapped batch is asked if it has events.
WrappedList(limit) ==
    IF hasEvents(batch) THEN GetEventsForUpload(limit) /\ UNCHANGED failures
    ELSE UNCHANGED vars

\* The list of the buffer, of the files or of both.
BufferedList(m) ==
    [mem |-> m, null |-> FALSE,
     evts |-> Carried(Content(batch', front(batch')), list') \o Carried(mem, m)]

\* Mutant: events of the buffer are merged although the files have more.
GetBuffered_MergesEarly(limit) ==
    /\ upload = NoUpload
    /\ HasEvents
    /\ WrappedList(limit)
    /\ upload' = BufferedList(
           IF list' = NullList THEN memEventsForUpload(limit[1], limit[2])
           ELSE memEventsForUpload(limit[1] - list'.count, limit[2] - list'.size))
    /\ UNCHANGED <<mem, history>>

GetBuffered(limit) ==
    /\ upload = NoUpload
    /\ HasEvents
    /\ WrappedList(limit)
    /\ upload' = BufferedList(
           IF list' = NullList THEN memEventsForUpload(limit[1], limit[2])
           ELSE IF list'.more THEN NullList
           ELSE memEventsForUpload(limit[1] - list'.count, limit[2] - list'.size))
    /\ UNCHANGED <<mem, history>>

\* MemoryEventBatch::onEventsUploaded erases the first count items, whichever they are
\* by now (and if there are fewer, runs past the end: nothing is claimed then).
memEventsUploaded ==
    mem' = IF upload.mem = NullList THEN mem ELSE SubSeq(mem, upload.mem.count + 1, Len(mem))

\* A list that wraps no list is a null pointer its first use dereferences: the
\* process is killed (Crash) before it can report anything.
Usable == upload # NoUpload /\ (list # NullList \/ upload.mem # NullList)

BufferedUploaded ==
    /\ Usable
    /\ IF list = NullList THEN UNCHANGED vars ELSE OnEventsUploaded
    /\ memEventsUploaded
    /\ sent' = sent \o upload.evts
    /\ upload' = NoUpload
    /\ UNCHANGED <<added, refused, crashed, overlapped>>

BufferedFailed ==
    /\ Usable
    /\ list' = NullList /\ upload' = NoUpload
    /\ UNCHANGED <<batch, tried, failures, mem, history>>

\* EventManager::onConfigurationUpdated changes the limits of the wrapped batch.
SetWrappedLimits(limit) ==
    /\ SetFileLimits(limit)
    /\ UNCHANGED <<mem, upload, history>>

\* The destructor flushes; the next process opens the files.
RestartFlushed(limit) ==
    /\ batch' = openStorage(flushInternal.batch.disk, limit, {})
    /\ refused' = flushInternal.refused
    /\ mem' = <<>> /\ list' = NullList /\ upload' = NoUpload
    /\ UNCHANGED <<tried, failures, added, sent, crashed, overlapped>>

\* The process is killed: the buffer is lost.
Crash(limit) ==
    /\ Restart(limit) /\ UNCHANGED failures
    /\ crashed' = crashed \cup ToSet(mem)
    /\ mem' = <<>> /\ upload' = NoUpload
    /\ UNCHANGED <<added, sent, refused, overlapped>>

BufferedNext ==
    \/ \E e \in Events : AddBuffered(e)
    \/ Flush
    \/ \E limit \in UploadLimits : GetBuffered(limit)
    \/ BufferedUploaded \/ BufferedFailed
    \/ \E limit \in FileLimits :
          SetWrappedLimits(limit) \/ RestartFlushed(limit) \/ Crash(limit)

BufferedSpec == BufferedInit /\ [][BufferedNext]_bufferedVars

-----------------------------------------------------------------------------
(* Properties *)

\* The events in the batch, the oldest first.
Held == Contents(batch) \o mem

\* The batch as a queue: what was accepted is sent, or still held, unless the process was
\* killed while it was buffered; nothing is both sent and held, and sent events followed by
\* held ones are in the order they were accepted.  This ends with the first event that is
\* too large for a file: the empty file it leaves behind lets the buffer overtake the files;
\* and with a flush while a list of the buffer's events is being uploaded, which makes
\* MemoryEventBatch::onEventsUploaded erase events that were never sent.
NothingLost == refused = {} /\ ~overlapped => sent \o Held = Without(added, crashed)

=============================================================================
