----------------------------- MODULE EventFiles -----------------------------
(***************************************************************************)
(* The operations of cll::MultiFileEventBatch as functions from a storage  *)
(* state to the next one: a queue of events kept in a sequence of numbered *)
(* files.  The modules whose state contains such a storage use them.       *)
(*                                                                         *)
(* A file is the sequence of its events.  Module FileEventBatch shows that *)
(* FileEventBatch keeps that sequence, its length in bytes and its count   *)
(* exactly.  Each operation holds batchPointerMutex throughout.            *)
(***************************************************************************)
EXTENDS Integers, SequencesExt

CONSTANTS
    Size      \* the serialized size of each event

None == -1    \* a null oldestBatch

(***************************************************************************)
(* A storage s:                                                            *)
(*   disk       the files by id                                            *)
(*   oldest     id of the file oldestBatch has open, or None               *)
(*   oldBatches ids of the full files after it                             *)
(*   newest     newestBatchId, the file events are appended to             *)
(*   fds        ids of the open files whose open() succeeded               *)
(*   limit      <<fileMaxEvents, fileMaxSize>>; 0 is no limit              *)
(* `bad' is the set of ids open() fails for during an operation.           *)
(***************************************************************************)
TotalSize(evts) == FoldLeft(LAMBDA n, e : n + Size[e], 0, evts)

Stored(s, id) == IF id \in DOMAIN s.disk THEN s.disk[id] ELSE <<>>

\* What an open FileEventBatch sees of its file: nothing if open() failed.
Content(s, id) == IF id \in s.fds THEN Stored(s, id) ELSE <<>>

\* openBatch(id): the file is created if it does not exist.
openBatch(s, id, bad) ==
    IF id \in bad THEN s
    ELSE [s EXCEPT !.fds = @ \cup {id},
                   !.disk = [i \in DOMAIN @ \cup {id} |-> Stored(s, i)]]

removeFile(s, id) == [s EXCEPT !.disk = Restrict(@, DOMAIN @ \ {id}), !.fds = @ \ {id}]

\* The ids of the files found in the directory, sorted.
Ascending(ids) == CHOOSE seq \in [1..Cardinality(ids) -> ids] :
                     \A i, j \in DOMAIN seq : i < j => seq[i] < seq[j]

\* The constructor on the files a previous process left: the last one is the newest.
openStorage(disk, limit, bad) ==
    LET ids == Ascending(DOMAIN disk)
        new == IF ids = <<>> THEN 0 ELSE Last(ids)
    IN  openBatch([disk |-> disk, oldest |-> None, newest |-> new, fds |-> {}, limit |-> limit,
                   oldBatches |-> IF ids = <<>> THEN <<>> ELSE Front(ids)], new, bad)

\* Without an oldestBatch, open the first old file that has events; the files
\* before it, which have none when they are opened, are removed.
checkOldestBatch(s, bad) ==
    LET full == {i \in DOMAIN s.oldBatches :
                    s.oldBatches[i] \notin bad /\ Stored(s, s.oldBatches[i]) # <<>>}
        last == IF full = {} THEN Len(s.oldBatches) ELSE Min(full) - 1
        gone == {s.oldBatches[i] : i \in 1..last}
        next == IF full = {} THEN None ELSE s.oldBatches[Min(full)]
    IN  IF s.oldest # None THEN s
        ELSE [s EXCEPT !.disk = Restrict(@, DOMAIN @ \ gone),
                       !.oldest = next,
                       !.fds = @ \cup ({next} \ {None}),
                       !.oldBatches = SubSeq(@, last + (IF full = {} THEN 1 ELSE 2), Len(@))]

\* FileEventBatch::canAddEvent of the newest file, which is never finalized.
canAddEvent(s, e) ==
    /\ s.limit[2] = 0 \/ TotalSize(Content(s, s.newest)) + Size[e] <= s.limit[2]
    /\ s.limit[1] = 0 \/ Len(Content(s, s.newest)) + 1 <= s.limit[1]

\* Mutant: the full file is always queued behind the old ones.
rotate_NeverOldest(s, bad) ==
    openBatch([s EXCEPT !.oldBatches = Append(@, s.newest), !.fds = @ \ {s.newest},
                        !.newest = @ + 1], s.newest + 1, bad)

\* Mutant: the full file is not queued if there is an older one.
rotate_Orphans(s, bad) ==
    openBatch([s EXCEPT !.oldest = IF @ = None THEN s.newest ELSE @,
                        !.fds = IF s.oldest = None THEN @ ELSE @ \ {s.newest},
                        !.newest = @ + 1], s.newest + 1, bad)

\* The newest file is full: it becomes the oldest if there is no other.
rotate(s, bad) ==
    LET lone == s.oldest = None /\ s.oldBatches = <<>>
    IN  openBatch([s EXCEPT !.oldest = IF lone THEN s.newest ELSE @,
                            !.oldBatches = IF lone THEN @ ELSE Append(@, s.newest),
                            !.fds = IF lone THEN @ ELSE @ \ {s.newest},
                            !.newest = @ + 1], s.newest + 1, bad)

roomFor(s, e, bad) == IF canAddEvent(s, e) THEN s ELSE rotate(s, bad)

\* FileEventBatch::addEvent of the newest file, after the rotation, returns true.
accepts(s, e, bad) == LET r == roomFor(s, e, bad)
                      IN  r.newest \in r.fds /\ canAddEvent(r, e)

addEvent(s, e, bad) ==
    LET r == roomFor(s, e, bad)
    IN  IF accepts(s, e, bad) THEN [r EXCEPT !.disk[r.newest] = Append(@, e)] ELSE r

\* The file getEventsForUpload reads and onEventsUploaded cuts.
front(s) == IF s.oldest # None THEN s.oldest ELSE s.newest

\* FileEventBatch::getEventsForUpload: the longest prefix within the limits, or
\* null if there is nothing to read.  The prefix may be empty and the list not null.
NullList == [count |-> -1, size |-> 0, more |-> FALSE]

prefixList(evts, maxCount, maxSize) ==
    LET fits == {n \in 0..Min({maxCount, Len(evts)}) : TotalSize(SubSeq(evts, 1, n)) <= maxSize}
        n    == Max(fits)
    IN  [count |-> n, size |-> TotalSize(SubSeq(evts, 1, n)), more |-> n < Len(evts)]

\* Takes the storage after checkOldestBatch.
getEventsForUpload(s, maxCount, maxSize) ==
    LET evts == Content(s, front(s))
    IN  IF evts = <<>> \/ maxCount = 0 THEN NullList
        ELSE LET l == prefixList(evts, maxCount, maxSize)
             IN  [l EXCEPT !.more = @ \/ s.oldest # None]

onEventsUploaded(s, list) ==
    LET id == front(s)
        whole == TotalSize(Content(s, id)) = list.size
    IN  IF id \notin s.fds
        THEN IF s.oldest = None THEN s ELSE [s EXCEPT !.oldest = None]
        ELSE IF whole /\ s.oldest # None
        THEN [removeFile(s, id) EXCEPT !.oldest = None]
        ELSE [s EXCEPT !.disk[id] = IF whole THEN <<>> ELSE SubSeq(@, list.count + 1, Len(@))]

hasEvents(s) == s.oldBatches # <<>> \/ s.oldest # None \/ Content(s, s.newest) # <<>>

setFileLimits(s, limit) == [s EXCEPT !.limit = limit]

\* The files the object refers to, oldest first, and their events in the order they were
\* added.  (A file of the directory that is not among them is never read again.)
FileOrder(s) == (IF s.oldest = None THEN <<>> ELSE <<s.oldest>>) \o Append(s.oldBatches, s.newest)
Contents(s)  == FlattenSeq([i \in DOMAIN FileOrder(s) |-> Stored(s, FileOrder(s)[i])])

\* The events of a sequence that are not in a set.
Without(seq, out) == FlattenSeq([i \in DOMAIN seq |-> IF seq[i] \in out THEN <<>> ELSE <<seq[i]>>])

=============================================================================
