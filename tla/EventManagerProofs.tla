------------------------- MODULE EventManagerProofs -------------------------
(***************************************************************************)
(* Proofs about EventManager, for any events, flags and limits.            *)
(***************************************************************************)
EXTENDS EventManager, FiniteSetTheorems, TLAPS

-----------------------------------------------------------------------------
(* Occurrences of an event in a sequence *)

\* The places of an event are finitely many.
LEMMA OccurrencesCount ==
    ASSUME NEW S, NEW s \in Seq(S), NEW e
    PROVE  IsFiniteSet({i \in DOMAIN s : s[i] = e}) /\ Occurrences(e, s) \in Nat
<1>1. DOMAIN s = 1..Len(s) /\ Len(s) \in Nat
  OBVIOUS
<1>2. IsFiniteSet(1..Len(s))
  BY <1>1, FS_Interval
<1>3. IsFiniteSet({i \in DOMAIN s : s[i] = e})
  BY <1>1, <1>2, FS_Subset
<1> QED BY <1>3, FS_CardinalityType DEF Occurrences

\* An empty sequence has none.
LEMMA OccurrencesEmpty == \A e : Occurrences(e, <<>>) = 0
<1>1. \A e : {i \in DOMAIN <<>> : <<>>[i] = e} = {}
  OBVIOUS
<1> QED BY <1>1, FS_EmptySet DEF Occurrences

\* What Append adds.
LEMMA OccurrencesAppend ==
    ASSUME NEW S, NEW s \in Seq(S), NEW x \in S, NEW e
    PROVE  Occurrences(e, Append(s, x)) = Occurrences(e, s) + (IF x = e THEN 1 ELSE 0)
<1> DEFINE A == {i \in DOMAIN s : s[i] = e}
           B == {i \in DOMAIN Append(s, x) : Append(s, x)[i] = e}
<1>0. Occurrences(e, s) = Cardinality(A) /\ Occurrences(e, Append(s, x)) = Cardinality(B)
  BY DEF Occurrences
<1>1. IsFiniteSet(A) /\ Cardinality(A) \in Nat
  BY OccurrencesCount, FS_CardinalityType
<1>2. CASE x = e
  <2>1. B = A \cup {Len(s) + 1} /\ Len(s) + 1 \notin A
    BY <1>2
  <2> HIDE DEF A, B
  <2> QED BY <1>0, <1>1, <1>2, <2>1, FS_AddElement
<1>3. CASE x # e
  <2>1. B = A
    BY <1>3
  <2> HIDE DEF A, B
  <2> QED BY <1>0, <1>1, <1>3, <2>1
<1> QED BY <1>2, <1>3

\* A prefix and the rest share them out.
LEMMA OccurrencesSplit ==
    ASSUME NEW S, NEW s \in Seq(S), NEW n \in 0..Len(s), NEW e
    PROVE  /\ SubSeq(s, 1, n) \in Seq(S) /\ Remaining(s, n) \in Seq(S)
           /\ Occurrences(e, s) = Occurrences(e, SubSeq(s, 1, n)) + Occurrences(e, Remaining(s, n))
<1> DEFINE p == SubSeq(s, 1, n)
           q == Remaining(s, n)
           A == {i \in DOMAIN s : s[i] = e}
           P == {i \in DOMAIN p : p[i] = e}
           Q == {i \in DOMAIN q : q[i] = e}
           R == {i \in A : n < i}
           shift == [i \in Q |-> i + n]
<1>1. p \in Seq(S) /\ DOMAIN p = 1..n /\ \A i \in 1..n : p[i] = s[i]
  OBVIOUS
<1>2. q \in Seq(S) /\ DOMAIN q = 1..(Len(s) - n) /\ \A i \in 1..(Len(s) - n) : q[i] = s[i + n]
  BY DEF Remaining
<1>3. IsFiniteSet(A) /\ IsFiniteSet(P) /\ IsFiniteSet(Q) /\ IsFiniteSet(R)
  <2>1. IsFiniteSet(A) /\ IsFiniteSet(P) /\ IsFiniteSet(Q)
    BY <1>1, <1>2, OccurrencesCount
  <2>2. R \subseteq A
    OBVIOUS
  <2> QED BY <2>1, <2>2, FS_Subset
<1>4. A = P \cup R /\ P \cap R = {}
  BY <1>1
<1>5. Cardinality(A) = Cardinality(P) + Cardinality(R)
  <2> HIDE DEF A, P, R
  <2>1. Cardinality(P \cap R) = 0
    BY <1>4, FS_EmptySet
  <2>2. Cardinality(P) \in Nat /\ Cardinality(R) \in Nat
    BY <1>3, FS_CardinalityType
  <2> QED BY <1>3, <1>4, <2>1, <2>2, FS_Union
<1>6. Cardinality(R) = Cardinality(Q)
  <2>1. shift \in [Q -> R]
    BY <1>2
  <2>2. \A i, j \in Q : shift[i] = shift[j] => i = j
    BY <1>2
  <2>3. \A j \in R : \E i \in Q : shift[i] = j
    <3> SUFFICES ASSUME NEW j \in R PROVE j - n \in Q /\ shift[j - n] = j
      OBVIOUS
    <3>1. j \in 1..Len(s) /\ n < j /\ s[j] = e /\ n \in Nat
      OBVIOUS
    <3>2. j - n \in 1..(Len(s) - n) /\ (j - n) + n = j
      BY <3>1
    <3>3. j - n \in Q
      BY <3>1, <3>2, <1>2
    <3> QED BY <3>2, <3>3
  <2>4. shift \in Bijection(Q, R)
    <3> HIDE DEF shift, Q, R
    <3> QED BY <2>1, <2>2, <2>3 DEF Bijection, Injection, Surjection, IsInjective
  <2> HIDE DEF shift, Q, R
  <2>5. ExistsBijection(Q, R)
    BY <2>4 DEF ExistsBijection
  <2> QED BY <2>5, <1>3, FS_Bijection
<1>7. /\ Occurrences(e, s) = Cardinality(A) /\ Occurrences(e, p) = Cardinality(P)
      /\ Occurrences(e, q) = Cardinality(Q)
  BY DEF Occurrences
<1> HIDE DEF A, P, Q, R, p, q
<1>8. Occurrences(e, s) = Occurrences(e, p) + Occurrences(e, q)
  BY <1>5, <1>6, <1>7
<1> QED BY <1>1, <1>2, <1>8 DEF p, q

\* Nothing is cut off, all is cut off, or an event comes behind what is cut off.
LEMMA RemainingSequences ==
    ASSUME NEW S, NEW s \in Seq(S), NEW x \in S
    PROVE  /\ Remaining(s, 0) = s
           /\ \A n \in 0..Len(s) : Remaining(Append(s, x), n) = Append(Remaining(s, n), x)
<1>1. Remaining(s, 0) = s
  BY DEF Remaining
<1>2. ASSUME NEW n \in 0..Len(s) PROVE Remaining(Append(s, x), n) = Append(Remaining(s, n), x)
  <2> DEFINE a == Remaining(Append(s, x), n)
             b == Append(Remaining(s, n), x)
  <2>1. a \in Seq(S) /\ Len(a) = Len(s) + 1 - n
           /\ \A i \in 1..Len(a) : a[i] = Append(s, x)[i + n]
    BY DEF Remaining
  <2>2. b \in Seq(S) /\ Len(b) = Len(s) + 1 - n
           /\ \A i \in 1..Len(b) : b[i] = Append(s, x)[i + n]
    BY DEF Remaining
  <2> HIDE DEF a, b
  <2>3. a = b
    BY <2>1, <2>2
  <2> QED BY <2>3 DEF a, b
<1> QED BY <1>1, <1>2

\* The head and the tail share them out.
LEMMA OccurrencesTail ==
    ASSUME NEW S, NEW s \in Seq(S), s # <<>>, NEW e
    PROVE  /\ Head(s) \in S /\ Tail(s) \in Seq(S)
           /\ Occurrences(e, s) = (IF Head(s) = e THEN 1 ELSE 0) + Occurrences(e, Tail(s))
<1>1. 1 \in 0..Len(s) /\ Head(s) \in S /\ Tail(s) \in Seq(S)
  OBVIOUS
<1>2. Remaining(s, 1) = Tail(s)
  BY DEF Remaining
<1>3. DOMAIN SubSeq(s, 1, 1) = {1} /\ SubSeq(s, 1, 1)[1] = Head(s)
  BY <1>1
<1>4. {i \in DOMAIN SubSeq(s, 1, 1) : SubSeq(s, 1, 1)[i] = e} = IF Head(s) = e THEN {1} ELSE {}
  BY <1>3
<1>5. Occurrences(e, SubSeq(s, 1, 1)) = IF Head(s) = e THEN 1 ELSE 0
  <2>1. Cardinality({1}) = 1 /\ Cardinality({}) = 0
    BY FS_Singleton, FS_EmptySet
  <2> QED BY <1>4, <2>1 DEF Occurrences
<1>6. Occurrences(e, s) = Occurrences(e, SubSeq(s, 1, 1)) + Occurrences(e, Remaining(s, 1))
  BY <1>1, OccurrencesSplit
<1> QED BY <1>1, <1>2, <1>5, <1>6

-----------------------------------------------------------------------------
(* The inductive invariant *)

\* The events that a storage is there for.
OfKind(k) == {e \in AllEvents : Kind(e) = k}

Types ==
    /\ storage \in [Kinds -> Seq(AllEvents)]
    /\ memory \in Seq(AllEvents) /\ transfer \in Seq(AllEvents)
    /\ adding \in [Events -> {"new", "requestRealtime", "requestMain", "added", "dropped"}]
    /\ mainRequested \in BOOLEAN /\ mainExecuting \in BOOLEAN
    /\ rtRequested \in BOOLEAN /\ rtExecuting \in BOOLEAN
    /\ mainPhase \in {"open", "stopping", "stopped"} /\ rtPhase \in {"open", "stopping", "stopped"}
    /\ mpc \in {"idle", "loop", "testCritical", "leaving", "send", "post", "done"}
    /\ rpc \in {"idle", "loop", "leaving", "send", "post", "done", "transfer"}
    /\ sending \in Kinds \X Nat /\ rtCount \in Nat
    /\ opc \in {"created", "started", "stopMain", "stopRealtime", "deleteRealtime", "deleteMain",
                "destroyed"}

\* A worker is in its function exactly while the task executes.
Workers ==
    /\ mpc # "idle" <=> mainExecuting
    /\ rpc # "idle" <=> rtExecuting
    /\ rpc # "transfer" => transfer = <<>>

\* Once the destructor runs no thread is in add.
NoAdds == opc \notin {"created", "started"} =>
             \A e \in Events : adding[e] \notin {"requestRealtime", "requestMain"}

\* Events in memory have a run of the realtime task ahead that will look at them.
MemoryIsWatched ==
    memory # <<>> => \/ rtRequested
                     \/ rpc \notin {"idle", "leaving"}
                     \/ \E e \in Events : adding[e] = "requestRealtime"

\* What the destructor has waited for so far.
Destruction ==
    /\ opc \in {"deleteRealtime", "deleteMain", "destroyed"}
          \/ (opc = "stopRealtime" /\ rtPhase = "stopped") => ~rtRequested /\ ~rtExecuting
    /\ opc = "destroyed" => ~mainRequested /\ ~mainExecuting

IInv == Types /\ Workers /\ NoAdds /\ MemoryIsWatched /\ Destruction

\* An upload that is under way sends a prefix of its batch, and every storage has events of
\* its kind only.
Sending ==
    /\ mpc \in {"post", "done"} => sending[2] <= Len(storage[sending[1]])
    /\ rpc \in {"post", "done"} => rtCount <= Len(memory)
    /\ \A k \in Kinds : storage[k] \in Seq(OfKind(k))
    /\ received \in [AllEvents -> Nat]

\* An event that was not added was not refused.
NewNotRefused == \A e \in Events : adding[e] = "new" => e \notin refused

PInv == IInv /\ Sending /\ NewNotRefused /\ ExactlyOnePlace

-----------------------------------------------------------------------------
(* The two tasks and the workers *)

\* It holds at the start.
LEMMA InitIInv == Init => IInv
<1> SUFFICES ASSUME Init PROVE IInv
  OBVIOUS
<1>1. Leftover \in Seq(AllEvents)
  BY LeftoverAssumption DEF AllEvents
<1>2. storage \in [Kinds -> Seq(AllEvents)] /\ memory \in Seq(AllEvents)
         /\ transfer \in Seq(AllEvents)
  BY <1>1 DEF Init
<1>4. sending \in Kinds \X Nat /\ rtCount \in Nat
  BY DEF Init, NotSending, Kinds
<1>5. Types
  BY <1>2, <1>4 DEF Init, Types, mainUploadTask!Init, realtimeUploadTask!Init
<1>3. Workers /\ NoAdds /\ MemoryIsWatched /\ Destruction
  BY DEF Init, Workers, NoAdds, MemoryIsWatched, Destruction, mainUploadTask!Init,
         realtimeUploadTask!Init
<1> QED BY <1>3, <1>5 DEF IInv

\* Every event that can be added has a storage.
LEMMA StoreTypes ==
    ASSUME Types, NEW e \in AllEvents, store(e)
    PROVE  storage' \in [Kinds -> Seq(AllEvents)]
BY DEF Types, store, Kind, Kinds

\* The steps of the threads that call add keep it.
LEMMA AddIInv == ASSUME IInv, NEW e \in Events, AddStep(e) PROVE IInv'
<1>0. e \in AllEvents
  BY DEF AllEvents
<1>1. CASE add(e)
  <2>1. storage' \in [Kinds -> Seq(AllEvents)]
    <3>1. storage' = storage \/ store(e)
      BY <1>1 DEF add, refuse
    <3> QED BY <3>1, <1>0, StoreTypes DEF IInv, Types
  <2>2. memory' \in Seq(AllEvents)
    <3>1. memory' = memory \/ memory' = Append(memory, e)
      BY <1>1 DEF add
    <3>2. memory \in Seq(AllEvents)
      BY DEF IInv, Types
    <3> QED BY <3>1, <3>2, <1>0
  <2>3. adding' \in [Events -> {"new", "requestRealtime", "requestMain", "added", "dropped"}]
    BY <1>1 DEF IInv, Types, add
  <2>4. opc \in {"created", "started"}
        /\ UNCHANGED <<mainTask, rtTask, mainWorker, rtWorker, opc, received>>
    BY <1>1 DEF add
  <2>5. Types'
    BY <2>1, <2>2, <2>3, <2>4 DEF IInv, Types, mainTask, rtTask, mainWorker, rtWorker
  <2>6. MemoryIsWatched'
    <3>1. CASE memory' = memory
      <4>1. \A d \in Events : adding[d] = "requestRealtime" => adding'[d] = "requestRealtime"
        BY <1>1 DEF add, IInv, Types
      <4> QED BY <3>1, <4>1, <2>4 DEF IInv, MemoryIsWatched, rtTask, rtWorker
    <3>2. CASE adding'[e] = "requestRealtime"
      BY <3>2 DEF MemoryIsWatched
    <3> QED BY <1>1, <3>1, <3>2 DEF add, IInv, Types
  <2>7. Workers' /\ NoAdds' /\ Destruction'
    BY <2>4 DEF IInv, Workers, NoAdds, Destruction, mainTask, rtTask, mainWorker, rtWorker
  <2> QED BY <2>5, <2>6, <2>7 DEF IInv
<1>2. CASE addRequest(e)
  <2>1. /\ adding[e] \in {"requestRealtime", "requestMain"}
        /\ adding' = [adding EXCEPT ![e] = "added"]
        /\ UNCHANGED <<storage, memory, mainWorker, rtWorker, opc, received, refused>>
        /\ mainRequested' \in BOOLEAN /\ rtRequested' \in BOOLEAN
        /\ UNCHANGED <<mainExecuting, rtExecuting, mainPhase, rtPhase>>
        /\ (adding[e] = "requestRealtime" \/ rtRequested) => rtRequested'
    BY <1>2 DEF addRequest, mainUploadTask!Request, realtimeUploadTask!Request, mainTask, rtTask,
                IInv, Types
  <2>2. opc \in {"created", "started"}
    BY <2>1 DEF IInv, NoAdds, Types
  <2>3. Types'
    BY <2>1 DEF IInv, Types, mainWorker, rtWorker
  <2>4. MemoryIsWatched'
    BY <2>1 DEF IInv, Types, MemoryIsWatched, rtWorker
  <2>5. Workers' /\ NoAdds' /\ Destruction'
    BY <2>1, <2>2 DEF IInv, Workers, NoAdds, Destruction, mainWorker, rtWorker
  <2> QED BY <2>3, <2>4, <2>5 DEF IInv
<1> QED BY <1>1, <1>2 DEF AddStep

\* What only the main worker and its task change.
LEMMA MainIInv == ASSUME IInv, MainStep PROVE IInv'
<1>0. UNCHANGED <<memory, adding, rtTask, rtWorker, opc>>
  BY DEF MainStep, mainBegin, mainTest, mainEnd, mainSend, mainAccepted, mainFailed, mainUploaded
<1>1. /\ mpc' \in {"idle", "loop", "testCritical", "leaving", "send", "post", "done"}
      /\ mainRequested' \in BOOLEAN /\ mainExecuting' \in BOOLEAN /\ mainPhase' = mainPhase
      /\ mpc' # "idle" <=> mainExecuting'
      /\ opc = "destroyed" => ~mainRequested' /\ ~mainExecuting'
  <2>1. CASE mainBegin
    BY <2>1 DEF mainBegin, mainUploadTask!Begin, IInv, Types, Workers, Destruction
  <2>2. CASE mainTest
    BY <2>2 DEF mainTest, mainTask, IInv, Types, Workers, Destruction
  <2>3. CASE mainEnd
    BY <2>3 DEF mainEnd, mainUploadTask!End, IInv, Types, Workers, Destruction
  <2>4. CASE mainSend
    BY <2>4 DEF mainSend, mainTask, IInv, Types, Workers, Destruction
  <2>5. CASE mainAccepted
    BY <2>5 DEF mainAccepted, mainTask, IInv, Types, Workers, Destruction
  <2>6. CASE mainFailed
    BY <2>6 DEF mainFailed, mainTask, IInv, Types, Workers, Destruction
  <2>7. CASE mainUploaded
    BY <2>7 DEF mainUploaded, mainTask, IInv, Types, Workers, Destruction
  <2> QED BY <2>1, <2>2, <2>3, <2>4, <2>5, <2>6, <2>7 DEF MainStep
<1>2. storage' \in [Kinds -> Seq(AllEvents)] /\ sending' \in Kinds \X Nat
  <2>1. CASE mainSend
    <3> DEFINE k == IF storage["critical"] # <<>> THEN "critical" ELSE "normal"
    <3>1. k \in Kinds
      BY DEF Kinds
    <3>2. PICK n \in 1..Len(storage[k]) : sending' = <<k, n>>
      BY <2>1 DEF mainSend
    <3>3. n \in Nat
      BY <3>1 DEF IInv, Types
    <3> QED BY <3>1, <3>2, <3>3, <2>1 DEF mainSend, IInv, Types
  <2>2. CASE mainUploaded
    <3>1. sending[1] \in Kinds /\ sending[2] \in Nat /\ storage[sending[1]] \in Seq(AllEvents)
      BY DEF IInv, Types
    <3>2. SubSeq(storage[sending[1]], sending[2] + 1, Len(storage[sending[1]])) \in Seq(AllEvents)
      BY <3>1
    <3>3. sending' \in Kinds \X Nat
      BY <2>2 DEF mainUploaded, NotSending, Kinds
    <3> QED BY <3>1, <3>2, <3>3, <2>2 DEF mainUploaded, IInv, Types
  <2>3. CASE mainFailed
    BY <2>3 DEF mainFailed, NotSending, Kinds, IInv, Types
  <2>4. CASE UNCHANGED <<storage, sending>>
    BY <2>4 DEF IInv, Types
  <2> QED BY <2>1, <2>2, <2>3, <2>4 DEF MainStep, mainBegin, mainTest, mainEnd, mainAccepted
<1>4. Types'
  BY <1>0, <1>1, <1>2 DEF IInv, Types, rtTask, rtWorker
<1>5. Workers' /\ NoAdds' /\ MemoryIsWatched' /\ Destruction'
  BY <1>0, <1>1 DEF IInv, Workers, NoAdds, MemoryIsWatched, Destruction, rtTask, rtWorker
<1> QED BY <1>4, <1>5 DEF IInv

\* What only the realtime worker and its task change, and the request of the main task.
LEMMA RtIInv == ASSUME IInv, RtStep PROVE IInv'
<1>0. UNCHANGED <<adding, mainWorker, opc, mainExecuting, mainPhase, rtPhase>>
      /\ mainRequested' \in BOOLEAN
  BY DEF RtStep, rtBegin, rtTest, rtEnd, rtSend, rtAccepted, rtUploaded, transferAllEvents,
         transferEvent, transferRequest, mainUploadTask!Request, realtimeUploadTask!Begin,
         realtimeUploadTask!End, mainTask, rtTask, IInv, Types
<1>1. /\ rpc' \in {"idle", "loop", "leaving", "send", "post", "done", "transfer"}
      /\ rtRequested' \in BOOLEAN /\ rtExecuting' \in BOOLEAN
      /\ rpc' # "idle" <=> rtExecuting'
      /\ rpc' # "transfer" => transfer' = <<>>
      /\ MemoryIsWatched'
  <2>1. CASE rtBegin
    BY <2>1 DEF rtBegin, realtimeUploadTask!Begin, IInv, Types, Workers, MemoryIsWatched
  <2>2. CASE rtTest
    BY <2>2 DEF rtTest, rtTask, IInv, Types, Workers, MemoryIsWatched
  <2>3. CASE rtEnd
    BY <2>3 DEF rtEnd, realtimeUploadTask!End, IInv, Types, Workers, MemoryIsWatched
  <2>4. CASE rtSend
    BY <2>4 DEF rtSend, rtTask, IInv, Types, Workers, MemoryIsWatched
  <2>5. CASE rtAccepted
    BY <2>5 DEF rtAccepted, rtTask, IInv, Types, Workers, MemoryIsWatched
  <2>6. CASE rtUploaded
    BY <2>6 DEF rtUploaded, rtTask, IInv, Types, Workers, MemoryIsWatched
  <2>7. CASE transferAllEvents
    BY <2>7 DEF transferAllEvents, rtTask, IInv, Types, Workers, MemoryIsWatched
  <2>8. CASE transferEvent
    BY <2>8 DEF transferEvent, rtTask, IInv, Types, Workers, MemoryIsWatched
  <2>9. CASE transferRequest
    BY <2>9 DEF transferRequest, rtTask, IInv, Types, Workers, MemoryIsWatched
  <2> QED BY <2>1, <2>2, <2>3, <2>4, <2>5, <2>6, <2>7, <2>8, <2>9 DEF RtStep
<1>2. /\ storage' \in [Kinds -> Seq(AllEvents)] /\ memory' \in Seq(AllEvents)
      /\ transfer' \in Seq(AllEvents) /\ rtCount' \in Nat
  <2>0. /\ storage \in [Kinds -> Seq(AllEvents)] /\ memory \in Seq(AllEvents)
        /\ transfer \in Seq(AllEvents) /\ rtCount \in Nat
    BY DEF IInv, Types
  <2>1. CASE rtSend
    BY <2>0, <2>1 DEF rtSend
  <2>2. CASE rtUploaded
    BY <2>0, <2>2 DEF rtUploaded
  <2>3. CASE transferAllEvents
    BY <2>0, <2>3 DEF transferAllEvents
  <2>4. CASE transferEvent
    <3>1. Head(transfer) \in AllEvents /\ Tail(transfer) \in Seq(AllEvents)
      BY <2>0, <2>4 DEF transferEvent
    <3>2. storage' = storage \/ store(Head(transfer))
      BY <2>4 DEF transferEvent, refuse
    <3>3. storage' \in [Kinds -> Seq(AllEvents)]
      BY <2>0, <3>1, <3>2, StoreTypes DEF IInv
    <3> QED BY <2>0, <2>4, <3>1, <3>3 DEF transferEvent
  <2>5. CASE UNCHANGED <<storage, memory, transfer, rtCount>>
    BY <2>0, <2>5
  <2> QED BY <2>1, <2>2, <2>3, <2>4, <2>5 DEF RtStep, rtBegin, rtTest, rtEnd, rtAccepted,
                                              transferRequest
<1>3. opc \in {"deleteRealtime", "deleteMain", "destroyed"}
         \/ (opc = "stopRealtime" /\ rtPhase = "stopped") => FALSE
  BY DEF RtStep, rtBegin, rtTest, rtEnd, rtSend, rtAccepted, rtUploaded, transferAllEvents,
         transferEvent, transferRequest, realtimeUploadTask!Begin, IInv, Destruction, Workers
<1>4. Types'
  BY <1>0, <1>1, <1>2 DEF IInv, Types, mainWorker
<1>5. Workers' /\ NoAdds' /\ Destruction'
  BY <1>0, <1>1, <1>3 DEF IInv, Workers, NoAdds, Destruction, mainWorker
<1> QED BY <1>1, <1>4, <1>5 DEF IInv

\* The owner's steps.
LEMMA OwnerIInv == ASSUME IInv, OwnerStep PROVE IInv'
<1>0. /\ UNCHANGED <<storage, memory, adding, mainWorker, rtWorker>>
      /\ UNCHANGED <<mainExecuting, rtRequested, rtExecuting>>
      /\ mainRequested' \in BOOLEAN
      /\ mainPhase' \in {"open", "stopping", "stopped"} /\ rtPhase' \in {"open", "stopping", "stopped"}
      /\ opc' \in {"created", "started", "stopMain", "stopRealtime", "deleteRealtime", "deleteMain",
                "destroyed"}
  BY DEF OwnerStep, start, destroy, terminateRealtime, deleteRealtime, deleteMain, destroyed,
         OwnerMoves, mainUploadTask!Request, mainUploadTask!Stop, mainUploadTask!Stopped,
         realtimeUploadTask!Stop, realtimeUploadTask!Stopped, mainTask, rtTask, IInv, Types
<1>1. NoAdds' /\ Destruction'
  BY DEF OwnerStep, start, destroy, terminateRealtime, deleteRealtime, deleteMain, destroyed,
         OwnerMoves, mainUploadTask!Request, mainUploadTask!Stop, mainUploadTask!Stopped,
         realtimeUploadTask!Stop, realtimeUploadTask!Stopped, mainTask, rtTask, IInv, Types,
         NoAdds, Destruction
<1>2. Types'
  BY <1>0 DEF IInv, Types, mainWorker, rtWorker
<1>3. Workers' /\ MemoryIsWatched'
  BY <1>0 DEF IInv, Workers, MemoryIsWatched, mainWorker, rtWorker
<1> QED BY <1>1, <1>2, <1>3 DEF IInv

\* Every step keeps it.
LEMMA StepIInv == IInv /\ [Next]_vars => IInv'
<1> SUFFICES ASSUME IInv, [Next]_vars PROVE IInv'
  OBVIOUS
<1>1. CASE UNCHANGED vars
  BY <1>1 DEF vars, mainTask, rtTask, mainWorker, rtWorker, IInv, Types, Workers, NoAdds,
              MemoryIsWatched, Destruction
<1> QED BY <1>1, AddIInv, MainIInv, RtIInv, OwnerIInv DEF Next, Quiet

\* When the manager is destroyed, no realtime event is left in memory, no event is on its way
\* to a storage and no worker is left, for any events, limits and interleavings.
THEOREM MemoryIsSavedHolds == Spec => []MemoryIsSaved
<1>1. IInv => MemoryIsSaved
  BY DEF IInv, Types, Workers, NoAdds, MemoryIsWatched, Destruction, MemoryIsSaved
<1> QED BY <1>1, InitIInv, StepIInv, PTL DEF Spec

-----------------------------------------------------------------------------
(* Exactly one place *)

\* What is left of memory and of a storage when what the server has just acknowledged is
\* removed.
MemoryLeft     == Remaining(memory, IF rpc = "done" THEN rtCount ELSE 0)
StorageLeft(k) == Remaining(storage[k], IF mpc = "done" /\ sending[1] = k THEN sending[2] ELSE 0)

\* The places of an event, and how many there should be.
Places(e) == received[e] + Occurrences(e, transfer) + Occurrences(e, MemoryLeft)
                + Occurrences(e, StorageLeft(Kind(e)))
Expected(e) == IF e \in refused \/ (e \in Events /\ adding[e] = "new") THEN 0 ELSE 1

\* ExactlyOnePlace in these terms, before and after a step.
LEMMA ExactlyOnePlaceDef ==
    /\ ExactlyOnePlace <=> \A e \in AllEvents : Places(e) = Expected(e)
    /\ ExactlyOnePlace' <=> \A e \in AllEvents : Places(e)' = Expected(e)'
BY DEF ExactlyOnePlace, Places, Expected, MemoryLeft, StorageLeft

\* Every event has a storage.
LEMMA KindType == \A e \in AllEvents : Kind(e) \in Kinds /\ e \in OfKind(Kind(e))
BY DEF Kind, Kinds, OfKind

\* The counts are numbers.
LEMMA PlacesTypes ==
    ASSUME Types, Sending
    PROVE  /\ MemoryLeft \in Seq(AllEvents)
           /\ \A k \in Kinds : StorageLeft(k) \in Seq(OfKind(k))
           /\ \A e \in AllEvents :
                 /\ received[e] \in Nat /\ Occurrences(e, transfer) \in Nat
                 /\ Occurrences(e, MemoryLeft) \in Nat
                 /\ Occurrences(e, StorageLeft(Kind(e))) \in Nat
<1>1. MemoryLeft \in Seq(AllEvents)
  <2>1. (IF rpc = "done" THEN rtCount ELSE 0) \in 0..Len(memory) /\ memory \in Seq(AllEvents)
    BY DEF Types, Sending
  <2> QED BY <2>1, OccurrencesSplit DEF MemoryLeft
<1>2. ASSUME NEW k \in Kinds PROVE StorageLeft(k) \in Seq(OfKind(k))
  <2>1. storage[k] \in Seq(OfKind(k))
    BY DEF Sending
  <2>2. (IF mpc = "done" /\ sending[1] = k THEN sending[2] ELSE 0) \in 0..Len(storage[k])
    BY <2>1 DEF Types, Sending
  <2> QED BY <2>1, <2>2, OccurrencesSplit DEF StorageLeft
<1>3. transfer \in Seq(AllEvents) /\ received \in [AllEvents -> Nat]
  BY DEF Types, Sending
<1> QED BY <1>1, <1>2, <1>3, KindType, OccurrencesCount

\* The same after a step.
LEMMA PlacesTypesPrime ==
    ASSUME Types', Sending'
    PROVE  /\ MemoryLeft' \in Seq(AllEvents)
           /\ \A k \in Kinds : StorageLeft(k)' \in Seq(OfKind(k))
<1>1. MemoryLeft' \in Seq(AllEvents)
  <2>1. (IF rpc' = "done" THEN rtCount' ELSE 0) \in 0..Len(memory') /\ memory' \in Seq(AllEvents)
    BY DEF Types, Sending
  <2> QED BY <2>1, OccurrencesSplit DEF MemoryLeft
<1>2. ASSUME NEW k \in Kinds PROVE StorageLeft(k)' \in Seq(OfKind(k))
  <2>1. storage'[k] \in Seq(OfKind(k))
    BY DEF Sending
  <2>2. (IF mpc' = "done" /\ sending'[1] = k THEN sending'[2] ELSE 0) \in 0..Len(storage'[k])
    BY <2>1 DEF Types, Sending
  <2> QED BY <2>1, <2>2, OccurrencesSplit DEF StorageLeft
<1> QED BY <1>1, <1>2

\* addEvent of a storage puts the event in exactly one place more.
LEMMA StoreStep ==
    ASSUME Types, Sending, NEW x \in AllEvents, store(x), UNCHANGED mainWorker
    PROVE  /\ \A k \in Kinds : storage'[k] \in Seq(OfKind(k)) /\ Len(storage'[k]) >= Len(storage[k])
           /\ \A e \in AllEvents :
                 Occurrences(e, StorageLeft(Kind(e))') =
                    Occurrences(e, StorageLeft(Kind(e))) + (IF x = e THEN 1 ELSE 0)
<1>1. Kind(x) \in Kinds /\ x \in OfKind(Kind(x))
  BY KindType
<1>2. /\ storage'[Kind(x)] = Append(storage[Kind(x)], x)
      /\ \A k \in Kinds \ {Kind(x)} : storage'[k] = storage[k]
  BY <1>1 DEF store, Types
<1>3. \A k \in Kinds : storage[k] \in Seq(OfKind(k))
  BY DEF Sending
<1>4. \A k \in Kinds : storage'[k] \in Seq(OfKind(k)) /\ Len(storage'[k]) >= Len(storage[k])
  <2>1. storage'[Kind(x)] \in Seq(OfKind(Kind(x)))
           /\ Len(storage'[Kind(x)]) >= Len(storage[Kind(x)])
    BY <1>1, <1>2, <1>3
  <2>2. \A k \in Kinds : Len(storage[k]) \in Nat
    BY <1>3
  <2> QED BY <1>2, <1>3, <2>1, <2>2, SMTT(60)
<1>5. ASSUME NEW e \in AllEvents
      PROVE  Occurrences(e, StorageLeft(Kind(e))') =
                Occurrences(e, StorageLeft(Kind(e))) + (IF x = e THEN 1 ELSE 0)
  <2>1. Kind(e) \in Kinds
    BY KindType
  <2> DEFINE n == IF mpc = "done" /\ sending[1] = Kind(e) THEN sending[2] ELSE 0
  <2>2. n \in 0..Len(storage[Kind(e)])
    BY <1>3, <2>1 DEF Types, Sending
  <2>3. StorageLeft(Kind(e)) = Remaining(storage[Kind(e)], n)
           /\ StorageLeft(Kind(e))' = Remaining(storage'[Kind(e)], n)
    BY DEF StorageLeft, mainWorker
  <2> HIDE DEF n
  <2>4. StorageLeft(Kind(e)) \in Seq(OfKind(Kind(e)))
    BY <2>1, PlacesTypes
  <2>5. Occurrences(e, StorageLeft(Kind(e))) \in Nat
    BY PlacesTypes
  <2>6. CASE Kind(e) = Kind(x)
    <3>1. StorageLeft(Kind(e))' = Append(StorageLeft(Kind(e)), x)
      BY <2>6, <2>2, <2>3, <1>1, <1>2, <1>3, RemainingSequences
    <3> QED BY <3>1, <2>4, <2>6, <1>1, OccurrencesAppend
  <2>7. CASE Kind(e) # Kind(x)
    <3>1. x # e
      BY <2>7
    <3>2. storage'[Kind(e)] = storage[Kind(e)]
      BY <2>1, <2>7, <1>2
    <3> QED BY <3>1, <3>2, <2>3, <2>5
  <2> QED BY <2>6, <2>7
<1> QED BY <1>4, <1>5

\* Steps that move no event.
LEMMA NothingMoves ==
    ASSUME PInv, UNCHANGED <<storage, memory, received, transfer, refused>>,
           UNCHANGED mainWorker \/ (mpc # "done" /\ mpc' # "done"),
           UNCHANGED <<rpc, rtCount>> \/ (rpc # "done" /\ rpc' # "done"),
           \A e \in Events : adding'[e] = "new" <=> adding[e] = "new"
    PROVE  ExactlyOnePlace' /\ NewNotRefused'
<1>1. MemoryLeft' = MemoryLeft
  BY DEF MemoryLeft
<1>2. \A k : StorageLeft(k)' = StorageLeft(k)
  BY DEF StorageLeft, mainWorker
<1>3. \A e \in AllEvents : Places(e)' = Places(e) /\ Expected(e)' = Expected(e)
  BY <1>1, <1>2 DEF Places, Expected
<1>4. ExactlyOnePlace'
  BY <1>3, ExactlyOnePlaceDef DEF PInv
<1>5. NewNotRefused'
  BY DEF PInv, NewNotRefused
<1> QED BY <1>4, <1>5

\* EventManager::add.
LEMMA AddPInv ==
    ASSUME PInv, NEW x \in Events, AddStep(x)
    PROVE  Sending' /\ NewNotRefused' /\ ExactlyOnePlace'
<1>0. x \in AllEvents /\ Types /\ Sending
  BY DEF AllEvents, PInv, IInv
<1>1. CASE addRequest(x)
  <2>1. /\ UNCHANGED <<storage, memory, mainWorker, rtWorker, received, refused>>
        /\ \A e \in Events : adding'[e] = "new" <=> adding[e] = "new"
    BY <1>0, <1>1 DEF addRequest, Types
  <2>2. ExactlyOnePlace' /\ NewNotRefused'
    BY <2>1, NothingMoves DEF rtWorker
  <2>3. Sending'
    BY <1>0, <2>1 DEF Sending, mainWorker, rtWorker
  <2> QED BY <2>2, <2>3
<1>2. ASSUME add(x) PROVE Sending' /\ NewNotRefused' /\ ExactlyOnePlace'
  <2>0. /\ UNCHANGED <<mainWorker, rtWorker, received>> /\ adding[x] = "new"
        /\ \A e \in Events \ {x} : adding'[e] = adding[e]
    BY <1>0, <1>2 DEF add, Types
  <2>1. x \notin refused /\ Places(x) = 0 /\ \A e \in AllEvents : Places(e) = Expected(e)
    BY <2>0, <1>0, ExactlyOnePlaceDef DEF PInv, NewNotRefused, Expected
  <2>2. CASE memory' = Append(memory, x) /\ adding'[x] = "requestRealtime" /\ UNCHANGED <<storage, refused>>
    <3> DEFINE n == IF rpc = "done" THEN rtCount ELSE 0
    <3>1. n \in 0..Len(memory) /\ memory \in Seq(AllEvents)
      BY <1>0 DEF Types, Sending
    <3>2. MemoryLeft = Remaining(memory, n) /\ MemoryLeft' = Remaining(Append(memory, x), n)
      BY <2>0, <2>2 DEF MemoryLeft, rtWorker
    <3> HIDE DEF n
    <3>3. MemoryLeft' = Append(MemoryLeft, x) /\ MemoryLeft \in Seq(AllEvents)
      BY <1>0, <3>1, <3>2, RemainingSequences, PlacesTypes
    <3>4. \A k : StorageLeft(k)' = StorageLeft(k)
      BY <2>0, <2>2 DEF StorageLeft, mainWorker
    <3>5. ASSUME NEW e \in AllEvents PROVE Places(e)' = Expected(e)'
      <4>1. Occurrences(e, MemoryLeft') = Occurrences(e, MemoryLeft) + (IF x = e THEN 1 ELSE 0)
        BY <1>0, <3>3, OccurrencesAppend
      <4>2. Places(e)' = received[e] + Occurrences(e, transfer) + Occurrences(e, MemoryLeft')
                           + Occurrences(e, StorageLeft(Kind(e)))
        BY <2>0, <3>4 DEF Places, rtWorker
      <4>3. Places(e)' = Places(e) + (IF x = e THEN 1 ELSE 0)
        BY <1>0, <4>1, <4>2, PlacesTypes DEF Places
      <4>4. CASE e = x
        BY <4>3, <4>4, <2>1, <2>2 DEF Expected
      <4>5. CASE e # x
        BY <4>3, <4>5, <2>0, <2>1, <2>2 DEF Expected
      <4> QED BY <4>4, <4>5
    <3>6. ExactlyOnePlace'
      BY <3>5, ExactlyOnePlaceDef
    <3>7. Sending'
      BY <1>0, <2>0, <2>2, <3>1 DEF Sending, Types, mainWorker, rtWorker
    <3>8. NewNotRefused'
      BY <2>0, <2>2 DEF PInv, NewNotRefused
    <3> QED BY <3>6, <3>7, <3>8
  <2>3. CASE store(x) /\ adding'[x] = "requestMain" /\ UNCHANGED memory
    <3>1. MemoryLeft' = MemoryLeft
      BY <2>0, <2>3 DEF MemoryLeft, rtWorker
    <3>5. ASSUME NEW e \in AllEvents PROVE Places(e)' = Expected(e)'
      <4>1. Occurrences(e, StorageLeft(Kind(e))') =
               Occurrences(e, StorageLeft(Kind(e))) + (IF x = e THEN 1 ELSE 0)
        BY <1>0, <2>0, <2>3, StoreStep
      <4>2. Places(e)' = received[e] + Occurrences(e, transfer) + Occurrences(e, MemoryLeft)
                           + Occurrences(e, StorageLeft(Kind(e))')
        BY <2>0, <3>1 DEF Places, rtWorker
      <4>3. Places(e)' = Places(e) + (IF x = e THEN 1 ELSE 0)
        BY <1>0, <4>1, <4>2, PlacesTypes DEF Places
      <4>4. CASE e = x
        BY <4>3, <4>4, <2>1, <2>3 DEF Expected, store
      <4>5. CASE e # x
        BY <4>3, <4>5, <2>0, <2>1, <2>3 DEF Expected, store
      <4> QED BY <4>4, <4>5
    <3>6. ExactlyOnePlace'
      BY <3>5, ExactlyOnePlaceDef
    <3>7. Sending'
      <4>1. \A k \in Kinds : storage'[k] \in Seq(OfKind(k)) /\ Len(storage'[k]) >= Len(storage[k])
        BY <1>0, <2>0, <2>3, StoreStep
      <4> QED BY <1>0, <2>0, <2>3, <4>1 DEF Sending, Types, mainWorker, rtWorker
    <3>8. NewNotRefused'
      BY <2>0, <2>3 DEF PInv, NewNotRefused, store
    <3> QED BY <3>6, <3>7, <3>8
  <2>4. CASE refuse(x) /\ adding'[x] = "dropped" /\ UNCHANGED memory
    <3>1. MemoryLeft' = MemoryLeft /\ \A k : StorageLeft(k)' = StorageLeft(k)
      BY <2>0, <2>4 DEF MemoryLeft, StorageLeft, refuse, mainWorker, rtWorker
    <3>2. \A e \in AllEvents : Places(e)' = Places(e) /\ Expected(e)' = Expected(e)
      BY <2>0, <2>1, <2>4, <3>1 DEF Places, Expected, refuse, rtWorker
    <3>3. ExactlyOnePlace'
      BY <2>1, <3>2, ExactlyOnePlaceDef
    <3>4. Sending'
      BY <1>0, <2>0, <2>4 DEF Sending, refuse, mainWorker, rtWorker
    <3>5. NewNotRefused'
      BY <2>0, <2>4 DEF PInv, NewNotRefused, refuse
    <3> QED BY <3>3, <3>4, <3>5
  <2> QED BY <1>0, <1>2, <2>2, <2>3, <2>4 DEF add, Types
<1> QED BY <1>1, <1>2 DEF AddStep

\* uploadTasks: an event leaves its storage only when the server has it.
LEMMA MainPInv ==
    ASSUME PInv, MainStep
    PROVE  Sending' /\ NewNotRefused' /\ ExactlyOnePlace'
<1>0. /\ Types /\ Sending /\ UNCHANGED <<memory, adding, rtWorker, refused>>
      /\ \A e \in AllEvents : Places(e) = Expected(e)
  BY ExactlyOnePlaceDef DEF PInv, IInv, MainStep, mainBegin, mainTest, mainEnd, mainSend,
        mainAccepted, mainFailed, mainUploaded
<1>m. MemoryLeft' = MemoryLeft
  BY <1>0 DEF MemoryLeft, rtWorker
<1>n. NewNotRefused'
  BY <1>0 DEF PInv, NewNotRefused
<1>t. /\ sending[1] \in Kinds /\ sending[2] \in Nat
      /\ \A k \in Kinds : storage[k] \in Seq(OfKind(k)) /\ Len(storage[k]) \in Nat
  BY <1>0 DEF Types, Sending
<1>1. ASSUME UNCHANGED <<storage, received>>, mpc # "done", mpc' # "done",
             mpc' = "post" => sending'[2] <= Len(storage[sending'[1]])
      PROVE  Sending' /\ NewNotRefused' /\ ExactlyOnePlace'
  <2>1. NewNotRefused' /\ ExactlyOnePlace'
    BY <1>0, <1>1, NothingMoves DEF rtWorker
  <2>2. Sending'
    BY <1>0, <1>1 DEF Sending, rtWorker
  <2> QED BY <2>1, <2>2
<1>2. CASE mainBegin
  BY <1>1, <1>2 DEF mainBegin
<1>3. CASE mainTest
  BY <1>1, <1>3 DEF mainTest
<1>4. CASE mainEnd
  BY <1>1, <1>4 DEF mainEnd
<1>5. CASE mainSend
  <2> DEFINE k == IF storage["critical"] # <<>> THEN "critical" ELSE "normal"
  <2>1. k \in Kinds
    BY DEF Kinds
  <2>2. PICK n \in 1..Len(storage[k]) : sending' = <<k, n>>
    BY <1>5 DEF mainSend
  <2>3. sending'[1] = k /\ sending'[2] = n /\ n <= Len(storage[k])
    BY <2>1, <2>2, <1>t
  <2> HIDE DEF k
  <2>4. UNCHANGED <<storage, received>> /\ mpc = "send" /\ mpc' = "post"
    BY <1>5 DEF mainSend
  <2> QED BY <2>3, <2>4, <1>1
<1>6. CASE mainAccepted
  <2> DEFINE k == sending[1]
             n == sending[2]
             sent == SubSeq(storage[k], 1, n)
  <2>1. /\ mpc = "post" /\ mpc' = "done" /\ UNCHANGED <<storage, sending>>
        /\ received' = [e \in AllEvents |-> received[e] + Occurrences(e, sent)]
    BY <1>6 DEF mainAccepted, acknowledge
  <2>2. k \in Kinds /\ n \in 0..Len(storage[k]) /\ storage[k] \in Seq(OfKind(k))
    BY <1>0, <1>t, <2>1 DEF Sending
  <2>3. sent \in Seq(OfKind(k))
    BY <2>2, OccurrencesSplit
  <2> HIDE DEF k, n, sent
  <2>4. ASSUME NEW e \in AllEvents
        PROVE  /\ received'[e] = received[e] + Occurrences(e, sent)
               /\ Occurrences(e, sent) \in Nat
               /\ Occurrences(e, StorageLeft(Kind(e))) =
                     Occurrences(e, sent) + Occurrences(e, StorageLeft(Kind(e))')
    <3>1. received'[e] = received[e] + Occurrences(e, sent) /\ Occurrences(e, sent) \in Nat
      BY <2>1, <2>3, OccurrencesCount
    <3>2. Kind(e) \in Kinds /\ storage[Kind(e)] \in Seq(OfKind(Kind(e)))
      BY <1>t, KindType
    <3>3. StorageLeft(Kind(e)) = storage[Kind(e)]
      <4>1. Remaining(storage[Kind(e)], 0) = storage[Kind(e)]
        BY <3>2, KindType, RemainingSequences
      <4> QED BY <2>1, <4>1 DEF StorageLeft
    <3>4. CASE Kind(e) = k
      <4>1. StorageLeft(Kind(e))' = Remaining(storage[k], n)
        BY <2>1, <3>4 DEF StorageLeft, k, n
      <4>2. Occurrences(e, storage[k]) = Occurrences(e, sent) + Occurrences(e, Remaining(storage[k], n))
        BY <2>2, OccurrencesSplit DEF sent
      <4> QED BY <3>1, <3>3, <3>4, <4>1, <4>2
    <3>5. CASE Kind(e) # k
      <4>1. StorageLeft(Kind(e))' = StorageLeft(Kind(e))
        BY <2>1, <3>5 DEF StorageLeft, k
      <4>2. {i \in DOMAIN sent : sent[i] = e} = {}
        BY <2>3, <3>5 DEF OfKind
      <4>3. Occurrences(e, sent) = 0
        BY <4>2, FS_EmptySet DEF Occurrences
      <4>4. Occurrences(e, StorageLeft(Kind(e))) \in Nat
        BY <1>0, PlacesTypes
      <4> QED BY <3>1, <4>1, <4>3, <4>4
    <3> QED BY <3>4, <3>5
  <2>5. Sending'
    <3>1. received' \in [AllEvents -> Nat]
      <4>1. \A e \in AllEvents : received[e] + Occurrences(e, sent) \in Nat
        BY <2>4, <1>0, PlacesTypes
      <4> QED BY <2>1, <4>1
    <3> QED BY <3>1, <2>1, <1>0 DEF Sending, rtWorker
  <2>6. \A e \in AllEvents : Places(e)' = Places(e) /\ Expected(e)' = Expected(e)
    <3> TAKE e \in AllEvents
    <3>1. Expected(e)' = Expected(e)
      BY <1>0 DEF Expected
    <3>2. Places(e)' = received'[e] + Occurrences(e, transfer) + Occurrences(e, MemoryLeft)
                          + Occurrences(e, StorageLeft(Kind(e))')
      BY <1>0, <1>m DEF Places, rtWorker
    <3>3. /\ received[e] \in Nat /\ Occurrences(e, transfer) \in Nat
          /\ Occurrences(e, MemoryLeft) \in Nat /\ Occurrences(e, StorageLeft(Kind(e))) \in Nat
      BY <1>0, PlacesTypes
    <3>4. Kind(e) \in Kinds /\ StorageLeft(Kind(e))' \in Seq(OfKind(Kind(e)))
      <4>1. Types' /\ Sending'
        BY <2>5, MainIInv DEF PInv, IInv
      <4> QED BY <4>1, KindType, PlacesTypesPrime
    <3>5. Occurrences(e, StorageLeft(Kind(e))') \in Nat
      BY <3>4, OccurrencesCount
    <3>6. Places(e)' = Places(e)
      BY <2>4, <3>2, <3>3, <3>5 DEF Places
    <3> QED BY <3>1, <3>6
  <2> QED BY <2>5, <2>6, <1>0, <1>n, ExactlyOnePlaceDef
<1>7. CASE mainFailed
  BY <1>1, <1>7 DEF mainFailed
<1>8. CASE mainUploaded
  <2> DEFINE k == sending[1]
             n == sending[2]
  <2>1. /\ mpc = "done" /\ mpc' = "loop" /\ received' = received
        /\ storage' = [storage EXCEPT ![k] = Remaining(storage[k], n)]
    BY <1>8 DEF mainUploaded, Remaining
  <2>2. k \in Kinds /\ n \in 0..Len(storage[k]) /\ storage[k] \in Seq(OfKind(k))
    BY <1>0, <1>t, <2>1 DEF Sending
  <2>3. Remaining(storage[k], n) \in Seq(OfKind(k))
    BY <2>2, OccurrencesSplit
  <2>4. ASSUME NEW j \in Kinds PROVE storage'[j] = StorageLeft(j) /\ storage'[j] \in Seq(OfKind(j))
    <3>1. CASE j = k
      BY <3>1, <2>1, <2>2, <2>3, <1>0 DEF StorageLeft, Types
    <3>2. CASE j # k
      <4>1. OfKind(j) # {} => Remaining(storage[j], 0) = storage[j]
        BY <1>t, RemainingSequences
      <4> QED BY <3>2, <4>1, <2>1, <1>t, <1>0 DEF StorageLeft, Types, Remaining
    <3> QED BY <3>1, <3>2
  <2>5. Sending'
    BY <1>0, <2>1, <2>4 DEF Sending, rtWorker
  <2>6. ASSUME NEW e \in AllEvents PROVE StorageLeft(Kind(e))' = StorageLeft(Kind(e))
    <3>1. Kind(e) \in Kinds /\ e \in OfKind(Kind(e))
      BY KindType
    <3>2. Remaining(storage'[Kind(e)], 0) = storage'[Kind(e)]
      BY <3>1, <2>4, RemainingSequences
    <3> QED BY <3>1, <3>2, <2>1, <2>4 DEF StorageLeft
  <2>7. \A e \in AllEvents : Places(e)' = Places(e) /\ Expected(e)' = Expected(e)
    BY <2>1, <2>6, <1>0, <1>m DEF Places, Expected, rtWorker
  <2> QED BY <2>5, <2>7, <1>0, <1>n, ExactlyOnePlaceDef
<1> QED BY <1>2, <1>3, <1>4, <1>5, <1>6, <1>7, <1>8 DEF MainStep

\* uploadRealtimeTasks: an event leaves memory when the server has it, or for its storage.
LEMMA RtPInv ==
    ASSUME PInv, RtStep
    PROVE  Sending' /\ NewNotRefused' /\ ExactlyOnePlace'
<1>0. /\ Types /\ Sending /\ Workers /\ UNCHANGED <<adding, mainWorker>>
      /\ \A e \in AllEvents : Places(e) = Expected(e)
  BY ExactlyOnePlaceDef DEF PInv, IInv, RtStep, rtBegin, rtTest, rtEnd, rtSend, rtAccepted,
        rtUploaded, transferAllEvents, transferEvent, transferRequest
<1>t. memory \in Seq(AllEvents) /\ transfer \in Seq(AllEvents) /\ rtCount \in Nat
      /\ Len(memory) \in Nat
  BY <1>0 DEF Types
<1>p. \A e \in AllEvents :
         /\ received[e] \in Nat /\ Occurrences(e, transfer) \in Nat
         /\ Occurrences(e, MemoryLeft) \in Nat /\ Occurrences(e, StorageLeft(Kind(e))) \in Nat
  BY <1>0, PlacesTypes
<1>s. ASSUME storage' = storage PROVE \A k : StorageLeft(k)' = StorageLeft(k)
  BY <1>0, <1>s DEF StorageLeft, mainWorker
<1>n. ASSUME refused' = refused PROVE NewNotRefused' /\ \A e : Expected(e)' = Expected(e)
  BY <1>0, <1>n DEF PInv, NewNotRefused, Expected
<1>z. Remaining(memory, 0) = memory
  BY <1>t DEF Remaining
<1>1. ASSUME UNCHANGED <<storage, memory, received, transfer, refused>>, rpc # "done", rpc' # "done",
             rpc' = "post" => rtCount' <= Len(memory)
      PROVE  Sending' /\ NewNotRefused' /\ ExactlyOnePlace'
  <2>1. NewNotRefused' /\ ExactlyOnePlace'
    BY <1>0, <1>1, NothingMoves
  <2>2. Sending'
    BY <1>0, <1>1 DEF Sending, mainWorker
  <2> QED BY <2>1, <2>2
<1>2. CASE rtBegin
  BY <1>1, <1>2 DEF rtBegin
<1>3. CASE rtTest
  BY <1>1, <1>3 DEF rtTest
<1>4. CASE rtEnd
  BY <1>1, <1>4 DEF rtEnd
<1>5. CASE rtSend
  BY <1>1, <1>5, <1>t DEF rtSend
<1>6. CASE rtAccepted
  <2> DEFINE sent == SubSeq(memory, 1, rtCount)
  <2>1. /\ rpc = "post" /\ rpc' = "done"
        /\ UNCHANGED <<storage, memory, transfer, rtCount, refused>>
        /\ received' = [e \in AllEvents |-> received[e] + Occurrences(e, sent)]
    BY <1>6 DEF rtAccepted, acknowledge
  <2>2. rtCount \in 0..Len(memory)
    BY <2>1, <1>0, <1>t DEF Sending
  <2>3. MemoryLeft = memory /\ MemoryLeft' = Remaining(memory, rtCount)
    BY <2>1, <1>z DEF MemoryLeft
  <2>4. sent \in Seq(AllEvents) /\ Remaining(memory, rtCount) \in Seq(AllEvents)
    BY <2>2, <1>t, OccurrencesSplit
  <2> HIDE DEF sent
  <2>5. ASSUME NEW e \in AllEvents
        PROVE  /\ received[e] + Occurrences(e, sent) \in Nat
               /\ Places(e)' = Places(e)
    <3>1. Occurrences(e, memory) = Occurrences(e, sent) + Occurrences(e, Remaining(memory, rtCount))
      BY <2>2, <1>t, OccurrencesSplit DEF sent
    <3>2. Occurrences(e, sent) \in Nat /\ Occurrences(e, Remaining(memory, rtCount)) \in Nat
      BY <2>4, OccurrencesCount
    <3>3. Places(e)' = received[e] + Occurrences(e, sent) + Occurrences(e, transfer)
                          + Occurrences(e, Remaining(memory, rtCount))
                          + Occurrences(e, StorageLeft(Kind(e)))
      BY <2>1, <2>3, <1>s DEF Places
    <3> QED BY <3>1, <3>2, <3>3, <2>3, <1>p DEF Places
  <2>6. Sending'
    BY <2>1, <2>2, <2>5, <1>0 DEF Sending, mainWorker
  <2> QED BY <2>1, <2>5, <2>6, <1>0, <1>n, ExactlyOnePlaceDef
<1>7. CASE rtUploaded
  <2>1. /\ rpc = "done" /\ rpc' = "loop"
        /\ UNCHANGED <<storage, transfer, received, refused>>
        /\ memory' = Remaining(memory, rtCount)
    BY <1>7 DEF rtUploaded, Remaining
  <2>2. rtCount \in 0..Len(memory)
    BY <2>1, <1>0, <1>t DEF Sending
  <2>3. memory' \in Seq(AllEvents)
    BY <2>1, <2>2, <1>t, OccurrencesSplit
  <2>4. MemoryLeft' = MemoryLeft
    <3>1. Remaining(memory', 0) = memory'
      BY <2>3 DEF Remaining
    <3> QED BY <3>1, <2>1 DEF MemoryLeft
  <2>5. \A e \in AllEvents : Places(e)' = Places(e)
    BY <2>1, <2>4, <1>s DEF Places
  <2>6. Sending'
    BY <2>1, <1>0 DEF Sending, mainWorker
  <2> QED BY <2>1, <2>5, <2>6, <1>0, <1>n, ExactlyOnePlaceDef
<1>8. CASE transferAllEvents
  <2>1. /\ rpc = "post" /\ rpc' = "transfer" /\ transfer = <<>>
        /\ UNCHANGED <<storage, received, refused>>
        /\ transfer' = memory /\ memory' = <<>>
    BY <1>8, <1>0 DEF transferAllEvents, Workers
  <2>2. MemoryLeft = memory /\ MemoryLeft' = <<>>
    <3>1. Remaining(<<>>, 0) = <<>>
      BY DEF Remaining
    <3> QED BY <3>1, <2>1, <1>z DEF MemoryLeft
  <2>3. ASSUME NEW e \in AllEvents PROVE Places(e)' = Places(e)
    <3>1. Occurrences(e, <<>>) = 0
      BY OccurrencesEmpty
    <3>2. Places(e)' = received[e] + Occurrences(e, memory) + Occurrences(e, <<>>)
                          + Occurrences(e, StorageLeft(Kind(e)))
      BY <2>1, <2>2, <1>s DEF Places
    <3>3. Places(e) = received[e] + Occurrences(e, <<>>) + Occurrences(e, memory)
                          + Occurrences(e, StorageLeft(Kind(e)))
      BY <2>1, <2>2 DEF Places
    <3>4. received[e] \in Nat /\ Occurrences(e, memory) \in Nat
          /\ Occurrences(e, StorageLeft(Kind(e))) \in Nat
      BY <2>2, <1>p
    <3> QED BY <3>1, <3>2, <3>3, <3>4
  <2>4. Sending'
    BY <2>1, <1>0 DEF Sending, mainWorker
  <2> QED BY <2>1, <2>3, <2>4, <1>0, <1>n, ExactlyOnePlaceDef
<1>9. CASE transferEvent
  <2> DEFINE x == Head(transfer)
  <2>1. /\ rpc = "transfer" /\ rpc' = "transfer" /\ transfer # <<>>
        /\ UNCHANGED <<memory, received, rtCount>> /\ transfer' = Tail(transfer)
        /\ store(x) \/ refuse(x)
    BY <1>9 DEF transferEvent
  <2>2. x \in AllEvents /\ Tail(transfer) \in Seq(AllEvents)
    BY <2>1, <1>t, OccurrencesTail
  <2>3. MemoryLeft' = MemoryLeft
    BY <2>1 DEF MemoryLeft
  <2>4. ASSUME NEW e \in AllEvents
        PROVE  /\ Occurrences(e, transfer) = (IF x = e THEN 1 ELSE 0) + Occurrences(e, transfer')
               /\ Occurrences(e, transfer') \in Nat
    BY <2>1, <2>2, <1>t, OccurrencesTail, OccurrencesCount
  <2> HIDE DEF x
  <2>5. Expected(x) = 1
    <3>1. Occurrences(x, transfer) >= 1
      BY <2>2, <2>4
    <3>2. Places(x) >= 1
      BY <3>1, <2>2, <1>p, SMTT(60) DEF Places
    <3> QED BY <3>2, <2>2, <1>0 DEF Expected
  <2>6. x \notin refused /\ (x \in Events => adding[x] # "new")
    BY <2>5 DEF Expected
  <2>7. CASE store(x)
    <3>1. /\ \A k \in Kinds : storage'[k] \in Seq(OfKind(k)) /\ Len(storage'[k]) >= Len(storage[k])
          /\ \A e \in AllEvents :
                Occurrences(e, StorageLeft(Kind(e))') =
                   Occurrences(e, StorageLeft(Kind(e))) + (IF x = e THEN 1 ELSE 0)
      BY <2>2, <2>7, <1>0, StoreStep
    <3>2. ASSUME NEW e \in AllEvents PROVE Places(e)' = Places(e)
      <4>1. Places(e)' = received[e] + Occurrences(e, transfer') + Occurrences(e, MemoryLeft)
                            + Occurrences(e, StorageLeft(Kind(e))')
        BY <2>1, <2>3 DEF Places
      <4> QED BY <4>1, <3>1, <2>4, <1>p, SMTT(60) DEF Places
    <3>3. Sending'
      BY <3>1, <2>1, <1>0 DEF Sending, Types, mainWorker
    <3>4. refused' = refused
      BY <2>7 DEF store
    <3> QED BY <3>2, <3>3, <3>4, <1>0, <1>n, ExactlyOnePlaceDef
  <2>8. CASE refuse(x)
    <3>1. storage' = storage /\ refused' = refused \cup {x}
      BY <2>8 DEF refuse
    <3>2. ASSUME NEW e \in AllEvents PROVE Places(e)' = Expected(e)'
      <4>1. Places(e)' = received[e] + Occurrences(e, transfer') + Occurrences(e, MemoryLeft)
                            + Occurrences(e, StorageLeft(Kind(e)))
        BY <2>1, <2>3, <3>1, <1>s DEF Places
      <4>2. Places(e) = Places(e)' + (IF x = e THEN 1 ELSE 0) /\ Places(e)' \in Nat
        BY <4>1, <2>4, <1>p DEF Places
      <4>3. CASE e = x
        <5>1. Expected(e)' = 0
          BY <3>1, <4>3 DEF Expected
        <5> QED BY <5>1, <4>2, <4>3, <2>5, <1>0
      <4>4. CASE e # x
        <5>1. Expected(e)' = Expected(e)
          BY <3>1, <4>4, <1>0 DEF Expected
        <5> QED BY <5>1, <4>2, <4>4, <1>0
      <4> QED BY <4>3, <4>4
    <3>3. Sending'
      BY <3>1, <2>1, <1>0 DEF Sending, mainWorker
    <3>4. NewNotRefused'
      BY <3>1, <2>6, <1>0 DEF PInv, NewNotRefused
    <3> QED BY <3>2, <3>3, <3>4, ExactlyOnePlaceDef
  <2> QED BY <2>1, <2>7, <2>8
<1>10. CASE transferRequest
  BY <1>1, <1>10 DEF transferRequest
<1> QED BY <1>2, <1>3, <1>4, <1>5, <1>6, <1>7, <1>8, <1>9, <1>10 DEF RtStep

\* Every event of the previous process is in the normal storage, once; no other is anywhere.
LEMMA InitPInv == Init => PInv
<1> SUFFICES ASSUME Init PROVE PInv
  OBVIOUS
<1>1. IInv
  BY InitIInv
<1>2. \A e \in AllEvents : e \in Events \/ (e \in ToSet(Leftover) /\ e \notin Events)
  BY LeftoverAssumption DEF AllEvents
<1>3. Leftover \in Seq(OfKind("normal"))
  <2>1. \A e \in ToSet(Leftover) : e \in OfKind("normal")
    BY LeftoverAssumption, FlagAssumption DEF OfKind, AllEvents, Kind
  <2> QED BY <2>1, LeftoverAssumption
<1>4. /\ storage["normal"] = Leftover /\ storage["critical"] = <<>>
      /\ memory = <<>> /\ transfer = <<>> /\ mpc = "idle" /\ rpc = "idle"
      /\ received = [e \in AllEvents |-> 0] /\ refused = {} /\ adding = [e \in Events |-> "new"]
  BY DEF Init, Kinds
<1>5. Sending
  <2>1. \A k \in Kinds : storage[k] \in Seq(OfKind(k))
    <3>1. storage["normal"] \in Seq(OfKind("normal"))
      BY <1>3, <1>4
    <3>2. storage["critical"] \in Seq(OfKind("critical"))
      BY <1>4
    <3> QED BY <3>1, <3>2 DEF Kinds
  <2>2. received \in [AllEvents -> Nat]
    BY <1>4
  <2> QED BY <1>4, <2>1, <2>2 DEF Sending
<1>6. NewNotRefused
  BY <1>4 DEF NewNotRefused
<1>7. ASSUME NEW e \in AllEvents PROVE Places(e) = Expected(e)
  <2>1. Remaining(<<>>, 0) = <<>> /\ Remaining(Leftover, 0) = Leftover
    BY <1>3 DEF Remaining
  <2>2. Occurrences(e, <<>>) = 0
    BY OccurrencesEmpty
  <2>3. Places(e) = 0 + 0 + 0 + Occurrences(e, storage[Kind(e)])
    <3>1. StorageLeft(Kind(e)) = storage[Kind(e)] /\ MemoryLeft = <<>>
      BY <2>1, <1>4, KindType DEF StorageLeft, MemoryLeft, Kinds
    <3> QED BY <3>1, <2>2, <1>4 DEF Places
  <2>4. CASE e \in Events
    <3>1. Occurrences(e, Leftover) = 0
      <4>1. {i \in DOMAIN Leftover : Leftover[i] = e} = {}
        BY <2>4, LeftoverAssumption DEF ToSet
      <4> QED BY <4>1, FS_EmptySet DEF Occurrences
    <3>2. Occurrences(e, storage[Kind(e)]) = 0
      BY <3>1, <2>2, <1>4, KindType DEF Kinds
    <3> QED BY <3>2, <2>3, <2>4, <1>4 DEF Expected
  <2>5. CASE e \notin Events
    <3>1. Kind(e) = "normal" /\ e \in ToSet(Leftover)
      BY <2>5, <1>2, FlagAssumption DEF Kind
    <3>2. PICK j \in DOMAIN Leftover : Leftover[j] = e
      BY <3>1 DEF ToSet
    <3>3. {i \in DOMAIN Leftover : Leftover[i] = e} = {j}
      BY <3>2, LeftoverAssumption DEF IsInjective
    <3>4. Occurrences(e, Leftover) = 1
      BY <3>3, FS_Singleton DEF Occurrences
    <3> QED BY <3>1, <3>4, <2>3, <2>5, <1>4 DEF Expected
  <2> QED BY <2>4, <2>5
<1> QED BY <1>1, <1>5, <1>6, <1>7, ExactlyOnePlaceDef DEF PInv

\* Every step keeps every event in its place.
LEMMA StepPInv == PInv /\ [Next]_vars => PInv'
<1> SUFFICES ASSUME PInv, [Next]_vars PROVE PInv'
  OBVIOUS
<1>1. IInv'
  BY StepIInv DEF PInv
<1>2. ASSUME UNCHANGED <<storage, memory, adding, mainWorker, rtWorker, received, refused>>
      PROVE  Sending' /\ NewNotRefused' /\ ExactlyOnePlace'
  <2>1. NewNotRefused' /\ ExactlyOnePlace'
    BY <1>2, NothingMoves DEF rtWorker
  <2>2. Sending'
    BY <1>2 DEF PInv, Sending, mainWorker, rtWorker
  <2> QED BY <2>1, <2>2
<1>3. ASSUME OwnerStep PROVE Sending' /\ NewNotRefused' /\ ExactlyOnePlace'
  <2>1. UNCHANGED <<storage, memory, adding, mainWorker, rtWorker, received, refused>>
    BY <1>3 DEF OwnerStep, start, destroy, terminateRealtime, deleteRealtime, deleteMain,
                destroyed, OwnerMoves
  <2> QED BY <1>2, <2>1, Zenon
<1>4. ASSUME UNCHANGED vars PROVE Sending' /\ NewNotRefused' /\ ExactlyOnePlace'
  <2>1. UNCHANGED <<storage, memory, adding, mainWorker, rtWorker, received, refused>>
    BY <1>4 DEF vars
  <2> QED BY <1>2, <2>1, Zenon
<1>5. Sending' /\ NewNotRefused' /\ ExactlyOnePlace'
  <2>1. \/ \E e \in Events : AddStep(e)
        \/ MainStep \/ RtStep \/ OwnerStep \/ UNCHANGED vars
    BY DEF Next, Quiet
  <2> QED BY <2>1, <1>3, <1>4, AddPInv, MainPInv, RtPInv, Zenon
<1> QED BY <1>1, <1>5 DEF PInv

\* An event is in exactly one place until the server has it: the batches, the list of a
\* failed realtime upload and the server's acknowledgements together neither lose nor
\* duplicate one, for any events, flags, limits, refusals and interleavings.
THEOREM ExactlyOnePlaceHolds == Spec => []ExactlyOnePlace
<1>1. PInv => ExactlyOnePlace
  BY DEF PInv
<1> QED BY <1>1, InitPInv, StepPInv, PTL DEF Spec

=============================================================================
