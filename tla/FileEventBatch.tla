--------------------------- MODULE FileEventBatch ---------------------------
(***************************************************************************)
(* cll::FileEventBatch: a queue of serialized events in one file.  New     *)
(* events are appended, uploaded ones are cut off the front by copying the *)
(* rest of the file over them in place.                                    *)
(*                                                                         *)
(* The file is a sequence of cells; event e takes Size[e] cells, the last  *)
(* of which is its '\n'.  The object caches the file's length, its event   *)
(* count and whether the descriptor stands at the end.  Every operation    *)
(* holds streamMutex throughout and is one step; a process that dies in    *)
(* the middle of one leaves the file as the system calls so far made it.   *)
(***************************************************************************)
EXTENDS Integers, SequencesExt

CONSTANTS
    Events,          \* each is offered to addEvent at most once
    Size,            \* cells of each event
    NoEvent,         \* owner of the zero bytes of a hole
    FileLimits,      \* <<maxCount, maxSize>> pairs given to setLimit; 0 is no limit
    UploadLimits,    \* <<maxCount, maxSize>> pairs given to getEventsForUpload
    ReadCap,         \* the 1 MiB cap of getEventsForUpload, in cells
    MaxWriteErrors,  \* bound on the write() calls of addEvent that fail
    MaxCopyErrors,   \* bound on the write() calls of onEventsUploaded that fail
    MaxCuts          \* bound on the deaths in the middle of the copy of onEventsUploaded

ASSUME SizeAssumption == Size \in [Events -> Nat \ {0}] /\ NoEvent \notin Events
ASSUME CapAssumption  == ReadCap \in Nat \ {0} /\ MaxCuts \in Nat
ASSUME LimitAssumption == FileLimits \subseteq Nat \X Nat /\ UploadLimits \subseteq Nat \X Nat

VARIABLES
    disk,     \* the file's cells; an absent file is created empty by open()
    file,     \* the FileEventBatch object
    list,     \* the BatchedEventList in flight
    stored,   \* events written whole to the file, in order
    acked,    \* stored events that were reported uploaded
    tried,    \* events already offered
    torn,     \* the process died inside the copy of onEventsUploaded
    cuts,     \* how often it did before the copy was complete
    errors,   \* write() calls that failed so far in addEvent and in onEventsUploaded
    older     \* events stored before the first of them

history  == <<stored, acked, tried, torn, cuts, errors, older>>
fileVars == <<disk, file, list, history>>

-----------------------------------------------------------------------------
(* Cells and lines *)

Hole        == <<NoEvent, 0>>
Cells(e)    == [i \in 1..Size[e] |-> <<e, i>>]
IsNewline(c) == c # Hole /\ c[2] = Size[c[1]]
Newlines(d) == {i \in DOMAIN d : IsNewline(d[i])}

\* pwrite(d, cells, pos): a gap between the end and pos is filled with zeros.
WriteAt(d, pos, cells) ==
    [i \in 1..Max({Len(d), pos + Len(cells)}) |->
        IF i > pos /\ i <= pos + Len(cells) THEN cells[i - pos]
        ELSE IF i <= Len(d) THEN d[i] ELSE Hole]

ftruncate(d, n) == [i \in 1..n |-> IF i <= Len(d) THEN d[i] ELSE Hole]

\* The end of the k-th line of d, 0 for k = 0.
LineEnd(d, k) ==
    IF k = 0 THEN 0
    ELSE CHOOSE i \in Newlines(d) : Cardinality({j \in Newlines(d) : j <= i}) = k

-----------------------------------------------------------------------------
(* The object *)

Closed == [open |-> FALSE, pos |-> 0, fileSize |-> 0, eventCount |-> 0,
           streamAtEnd |-> FALSE, finalized |-> FALSE, maxCount |-> 0, maxSize |-> 0]
NoList == [events |-> 0, size |-> -1]

FileInit ==
    /\ disk = <<>> /\ file = Closed /\ list = NoList
    /\ stored = <<>> /\ acked = {} /\ tried = {}
    /\ torn = FALSE /\ cuts = 0 /\ errors = [add |-> 0, copy |-> 0] /\ older = {}

\* Mutant: what follows the last line is not trimmed.
open_NoTrim(limit, write) ==
    /\ ~file.open
    /\ file' = [open |-> TRUE, pos |-> Len(disk), fileSize |-> Len(disk),
                eventCount |-> Cardinality(Newlines(disk)), streamAtEnd |-> FALSE,
                finalized |-> ~write, maxCount |-> limit[1], maxSize |-> limit[2]]
    /\ UNCHANGED <<disk, list, history>>

\* The constructor: countEventsInFile counts the lines and trims what follows the
\* last one.  The MultiFileEventBatch that opens the file sets its limit.
open(limit, write) ==
    LET lines == Newlines(disk)
        end   == LineEnd(disk, Cardinality(lines))
    IN  /\ ~file.open
        /\ disk' = ftruncate(disk, end)
        /\ file' = [open |-> TRUE, pos |-> Len(disk), fileSize |-> end,
                    eventCount |-> Cardinality(lines), streamAtEnd |-> FALSE,
                    finalized |-> ~write, maxCount |-> limit[1], maxSize |-> limit[2]]
        /\ UNCHANGED <<list, history>>

setLimit(limit) ==
    /\ file.open
    /\ file' = [file EXCEPT !.maxCount = limit[1], !.maxSize = limit[2]]
    /\ UNCHANGED <<disk, list, history>>

setFinalized ==
    /\ file.open
    /\ file' = [file EXCEPT !.finalized = TRUE]
    /\ UNCHANGED <<disk, list, history>>

canAddEvent(f, size) ==
    /\ ~f.finalized
    /\ f.maxSize = 0 \/ f.fileSize + size <= f.maxSize
    /\ f.maxCount = 0 \/ f.eventCount + 1 <= f.maxCount

\* Mutant: an append after a read does not seek back to the end.
seekToEnd_Skipped(f) == f

seekToEnd(f) ==
    IF f.streamAtEnd THEN f
    ELSE [f EXCEPT !.pos = Len(disk), !.fileSize = Len(disk), !.streamAtEnd = TRUE]

\* addEvent returned false before it wrote anything.
addEventRejected(e) ==
    /\ file.open /\ ~canAddEvent(file, Size[e])
    /\ tried' = tried \cup {e}
    /\ UNCHANGED <<disk, file, list, stored, acked, torn, cuts, errors, older>>

addEvent(e) ==
    LET f == seekToEnd(file)
    IN  /\ file.open /\ canAddEvent(file, Size[e])
        /\ disk' = WriteAt(disk, f.pos, Cells(e))
        /\ file' = [f EXCEPT !.pos = @ + Size[e], !.fileSize = @ + Size[e],
                             !.eventCount = @ + 1]
        /\ stored' = Append(stored, e)
        /\ tried' = tried \cup {e}
        /\ UNCHANGED <<list, acked, torn, cuts, errors, older>>

\* Mutant: the cut takes o cells of the event before as well.
addEventFailed_CutsTooMuch(e) ==
    LET f == seekToEnd(file)
    IN  /\ file.open /\ canAddEvent(file, Size[e])
        /\ errors.add < MaxWriteErrors
        /\ errors' = [errors EXCEPT !.add = @ + 1]
        /\ older' = IF errors.add = 0 THEN ToSet(stored) ELSE older
        /\ \E o \in 0..Min({Size[e] - 1, f.fileSize}) :
              /\ disk' = ftruncate(disk, f.fileSize - o)
              /\ file' = [f EXCEPT !.pos = @ + o]
        /\ tried' = tried \cup {e}
        /\ UNCHANGED <<list, stored, acked, torn, cuts>>

\* write() fails after o cells; if it wrote any, the file is cut back to fileSize.
\* The descriptor stays where the write left it.
addEventFailed(e) ==
    LET f == seekToEnd(file)
    IN  /\ file.open /\ canAddEvent(file, Size[e])
        /\ errors.add < MaxWriteErrors
        /\ errors' = [errors EXCEPT !.add = @ + 1]
        /\ older' = IF errors.add = 0 THEN ToSet(stored) ELSE older
        /\ \E o \in 0..(Size[e] - 1) :
              /\ disk' = IF o > 0
                         THEN ftruncate(WriteAt(disk, f.pos, SubSeq(Cells(e), 1, o)), f.fileSize)
                         ELSE disk
              /\ file' = [f EXCEPT !.pos = @ + o]
        /\ tried' = tried \cup {e}
        /\ UNCHANGED <<list, stored, acked, torn, cuts>>

\* Mutant: the list keeps the incomplete line at its end.
getEventsForUpload_KeepsPartialLine(limit) ==
    LET n    == Min({limit[2], ReadCap, file.fileSize})
        buf  == SubSeq(disk, 1, Min({n, Len(disk)}))
        evts == Min({limit[1], Cardinality(Newlines(buf))})
    IN  /\ file.open /\ list = NoList
        /\ file.fileSize # 0 /\ limit[1] # 0
        /\ list' = [events |-> evts, size |-> Len(buf)]
        /\ file' = [file EXCEPT !.pos = Len(buf), !.streamAtEnd = FALSE]
        /\ UNCHANGED <<disk, history>>

\* What getEventsForUpload reads: whole lines within the first maxSize cells.
getEventsForUpload(limit) ==
    LET n    == Min({limit[2], ReadCap, file.fileSize})
        buf  == SubSeq(disk, 1, Min({n, Len(disk)}))
        evts == Min({limit[1], Cardinality(Newlines(buf))})
    IN  /\ file.open /\ list = NoList
        /\ file.fileSize # 0 /\ limit[1] # 0
        /\ list' = [events |-> evts, size |-> LineEnd(buf, evts)]
        /\ file' = [file EXCEPT !.pos = Len(buf), !.streamAtEnd = FALSE]
        /\ UNCHANGED <<disk, history>>

\* The upload failed: the list is dropped and the events stay.
uploadFailed ==
    /\ list # NoList
    /\ list' = NoList
    /\ UNCHANGED <<disk, file, history>>

\* The stored events that lie whole in the first n cells: those the list held.
EventsIn(n) == {e \in ToSet(stored) :
                   \E p \in 0..(n - Size[e]) : SubSeq(disk, p + 1, p + Size[e]) = Cells(e)}

\* The whole file was uploaded: empty it, or remove it if no event may follow.
onAllEventsUploaded ==
    /\ file.open /\ list # NoList
    /\ file.fileSize = list.size
    /\ disk' = <<>>
    /\ file' = IF file.finalized THEN Closed
               ELSE [file EXCEPT !.fileSize = 0, !.eventCount = 0]
    /\ acked' = acked \cup EventsIn(list.size)
    /\ list' = NoList
    /\ UNCHANGED <<stored, tried, torn, cuts, errors, older>>

\* Copy what follows the uploaded events to the front, then cut the file.
onEventsUploaded ==
    LET rest == SubSeq(disk, list.size + 1, Len(disk))
    IN  /\ file.open /\ list # NoList
        /\ file.fileSize # list.size
        /\ disk' = rest
        /\ file' = [file EXCEPT !.pos = Len(rest), !.fileSize = Len(rest),
                                !.eventCount = @ - list.events]
        /\ acked' = acked \cup EventsIn(list.size)
        /\ list' = NoList
        /\ UNCHANGED <<stored, tried, torn, cuts, errors, older>>

\* write() fails after o cells of the copy: the rest of the buffer, and with a file no
\* longer than the buffer all of it, is given up and the file is cut to what was copied.
onEventsUploadedFailed ==
    LET rest == SubSeq(disk, list.size + 1, Len(disk))
    IN  /\ file.open /\ list # NoList
        /\ file.fileSize # list.size
        /\ errors.copy < MaxCopyErrors
        /\ errors' = [errors EXCEPT !.copy = @ + 1]
        /\ \E o \in 0..(Len(rest) - 1) :
              /\ disk' = SubSeq(rest, 1, o)
              /\ file' = [file EXCEPT !.pos = o, !.fileSize = o,
                                      !.eventCount = @ - list.events]
        /\ acked' = acked \cup EventsIn(list.size)
        /\ list' = NoList
        /\ UNCHANGED <<stored, tried, torn, cuts, older>>

-----------------------------------------------------------------------------
(* The end of the object or of the process *)

\* The destructor closes the descriptor; a process that dies between two operations, or
\* because onEventsUploaded throws when it cannot open the file for reading, leaves the same.
close ==
    /\ file.open
    /\ file' = Closed /\ list' = NoList
    /\ UNCHANGED <<disk, history>>

\* The process dies in addEvent after o cells were written.
crashInAddEvent(e) ==
    LET f == seekToEnd(file)
    IN  /\ file.open /\ canAddEvent(file, Size[e])
        /\ \E o \in 1..Size[e] :
              /\ disk' = WriteAt(disk, f.pos, SubSeq(Cells(e), 1, o))
              /\ stored' = IF o = Size[e] THEN Append(stored, e) ELSE stored
        /\ tried' = tried \cup {e}
        /\ file' = Closed /\ list' = NoList
        /\ UNCHANGED <<acked, torn, cuts, errors, older>>

\* The process dies in the copy of onEventsUploaded, after o cells were written over the
\* front of the file and before it was cut.  The events were uploaded.
crashInCopy ==
    LET rest == SubSeq(disk, list.size + 1, Len(disk))
    IN  /\ file.open /\ list # NoList
        /\ file.fileSize # list.size
        /\ \E o \in 1..Len(rest) :
              /\ disk' = WriteAt(disk, 0, SubSeq(rest, 1, o))
              /\ cuts' = IF o < Len(rest) THEN cuts + 1 ELSE cuts
        /\ cuts' <= MaxCuts
        /\ acked' = acked \cup EventsIn(list.size)
        /\ torn' = TRUE
        /\ file' = Closed /\ list' = NoList
        /\ UNCHANGED <<stored, tried, errors, older>>

-----------------------------------------------------------------------------
Untried == Events \ tried

FileNext ==
    \/ \E limit \in FileLimits, write \in BOOLEAN : open(limit, write)
    \/ \E limit \in FileLimits : setLimit(limit)
    \/ setFinalized
    \/ \E e \in Untried : \/ addEvent(e) \/ addEventRejected(e)
                          \/ addEventFailed(e) \/ crashInAddEvent(e)
    \/ \E limit \in UploadLimits : getEventsForUpload(limit)
    \/ uploadFailed \/ onEventsUploaded \/ onAllEventsUploaded \/ onEventsUploadedFailed
    \/ close \/ crashInCopy

FileSpec == FileInit /\ [][FileNext]_fileVars

-----------------------------------------------------------------------------
(* Properties *)

\* Events not yet reported uploaded, in the order they were stored.
Pending == SelectSeq(stored, LAMBDA e : e \notin acked)

\* No write() has failed so far.  One that fails in addEvent may leave the descriptor behind
\* the end, and the next event then a hole; what it never does is OlderEventsSurvive.
AllWritesWorked == errors.add = 0 /\ errors.copy = 0

\* What the next append relies on: the cached length is the file's, the cached count is
\* its number of lines and, when the code skips the seek, the descriptor stands at the
\* end.  A copy of onEventsUploaded that fails half way spoils only the count.
CacheExact ==
    file.open /\ errors.add = 0 =>
        /\ file.fileSize = Len(disk)
        /\ file.streamAtEnd => file.pos = Len(disk)
        /\ errors.copy = 0 => file.eventCount = Cardinality(Newlines(disk))

\* An event stands in the file as a line of its own at cell p + 1.
LineAt(e, p) == /\ p + Size[e] <= Len(disk)
                /\ SubSeq(disk, p + 1, p + Size[e]) = Cells(e)
                /\ p = 0 \/ IsNewline(disk[p])

\* No event is lost: one that was stored and not reported uploaded stands whole in
\* the file, whatever crash came between, and before every event stored later.  A death
\* in the middle of the copy may cost the one event the copy had reached.
NothingLost ==
    AllWritesWorked =>
        \E lost \in kSubset(Min({cuts, Len(Pending)}), DOMAIN Pending) :
        \E at \in [DOMAIN Pending \ lost -> 0..Len(disk)] :
            /\ \A i \in DOMAIN at : LineAt(Pending[i], at[i])
            /\ \A i, j \in DOMAIN at : i < j => at[i] < at[j]

\* Unless the process died inside the copy, the file is a queue: the events reported uploaded
\* are the first that were stored, and the lines of the file are the others in their order,
\* with no fragment behind.
ExactQueue ==
    ~torn /\ file.open /\ AllWritesWorked =>
        LET lines == Cardinality(Newlines(disk))
            sent  == Len(stored) - lines
        IN  /\ sent >= 0 /\ acked = {stored[i] : i \in 1..sent}
            /\ LineEnd(disk, lines) = Len(disk)
            /\ \A i \in 1..lines :
                  SubSeq(disk, LineEnd(disk, i - 1) + 1, LineEnd(disk, i)) = Cells(stored[sent + i])

\* A write that fails in addEvent never costs an event stored before it (a copy that
\* fails gives up what it could not copy, one that is cut may cost an event).
OlderEventsSurvive ==
    errors.copy = 0 /\ cuts = 0 =>
        \A e \in older \ acked : \E p \in 0..Len(disk) : LineAt(e, p)

=============================================================================
