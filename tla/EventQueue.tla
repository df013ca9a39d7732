----------------------------- MODULE EventQueue -----------------------------
(***************************************************************************)
(* What an EventBatch promises to EventManager: a first-in first-out queue *)
(* of events.  An upload takes a prefix of the queue without removing it;  *)
(* the events leave the queue when the upload is reported done, and stay   *)
(* when it fails or the process ends.  Events may be added meanwhile.      *)
(***************************************************************************)
EXTENDS Integers, Sequences

CONSTANTS Events

VARIABLES
    queue,    \* the events accepted and not yet reported uploaded
    taken     \* length of the prefix being uploaded, -1 if none is

vars == <<queue, taken>>

Init == queue = <<>> /\ taken = -1

\* addEvent returned true.
Add(e) == queue' = Append(queue, e) /\ UNCHANGED taken

\* getEventsForUpload returned a list.
Take(n) ==
    /\ taken = -1
    /\ n \in 0..Len(queue)
    /\ taken' = n
    /\ UNCHANGED queue

\* onEventsUploaded.
Done ==
    /\ taken # -1
    /\ queue' = SubSeq(queue, taken + 1, Len(queue))
    /\ taken' = -1

\* The upload failed, or the process ended during it.
Release ==
    /\ taken # -1
    /\ taken' = -1
    /\ UNCHANGED queue

Next ==
    \/ \E e \in Events : Add(e)
    \/ \E n \in 0..Len(queue) : Take(n)
    \/ Done
    \/ Release

Spec == Init /\ [][Next]_vars

=============================================================================
