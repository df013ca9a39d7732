----------------------- MODULE ConnectionBufferProofs -----------------------
(***************************************************************************)
(* Proofs about ConnectionBuffer, for any number and lengths of messages   *)
(* and any size of the buffer and its limit.                               *)
(***************************************************************************)
EXTENDS ConnectionBuffer, WellFoundedInduction, TLAPS

-----------------------------------------------------------------------------
(* The stream *)

\* A nonempty set of natural numbers has a least element.
LEMMA Least ==
    ASSUME NEW T \in SUBSET Nat, T # {}
    PROVE  \E n \in T : \A m \in T : n <= m
<1>1. \E x \in T : \A y \in T : <<y, x>> \notin OpToRel(<, Nat)
  BY NatLessThanWellFounded, WFMin, Zenon
<1>2. \A x, y \in Nat : x < y => <<x, y>> \in OpToRel(<, Nat)
  BY Zenon DEF OpToRel
<1>3. \E x \in T : \A y \in T : ~(y < x)
  BY <1>1, <1>2, Zenon
<1> QED BY <1>3

\* The lengths of the messages.
Stream == Size \in [1 .. N -> Sizes]

\* A message begins where the one before it ends.
LEMMA FirstEquation ==
    First = [m \in 1 .. N + 1 |-> IF m = 1 THEN 1 ELSE First[m - 1] + Size[m - 1]]
<1> DEFINE P(k, f) == f = [m \in 1 .. k |-> IF m = 1 THEN 1 ELSE f[m - 1] + Size[m - 1]]
           T == {k \in 1 .. N + 1 : ~ \E f : P(k, f)}
<1>0. N \in Nat
  BY NAssumption
<1>1. T = {}
  <2> SUFFICES ASSUME T # {} PROVE FALSE
    OBVIOUS
  <2>0. T \in SUBSET Nat
    BY <1>0
  <2> HIDE DEF T
  <2>1. PICK k \in T : \A m \in T : k <= m
    BY Least, <2>0
  <2>2. k \in 1 .. N + 1 /\ ~ \E f : P(k, f)
    BY <2>1 DEF T
  <2>3. k # 1
    <3>1. P(1, [m \in 1 .. 1 |-> 1])
      OBVIOUS
    <3> QED BY <3>1, <2>2
  <2>4. k - 1 \in 1 .. N + 1 /\ ~(k <= k - 1)
    BY <2>2, <2>3, <1>0
  <2>5. PICK h : P(k - 1, h)
    <3>1. k - 1 \notin T
      BY <2>1, <2>4
    <3> QED BY <3>1, <2>4 DEF T
  <2> DEFINE g == [m \in 1 .. k |-> IF m = k THEN h[k - 1] + Size[k - 1] ELSE h[m]]
  <2>6. P(k, g)
    <3>1. \A m \in 1 .. k : g[m] = IF m = 1 THEN 1 ELSE g[m - 1] + Size[m - 1]
      <4> SUFFICES ASSUME NEW m \in 1 .. k
                   PROVE  g[m] = IF m = 1 THEN 1 ELSE g[m - 1] + Size[m - 1]
        OBVIOUS
      <4>1. CASE m = k
        BY <4>1, <2>2, <2>3, <1>0
      <4>2. CASE m # k
        <5>1. m \in 1 .. (k - 1) /\ g[m] = h[m]
          BY <4>2, <2>2, <1>0
        <5>2. h[m] = IF m = 1 THEN 1 ELSE h[m - 1] + Size[m - 1]
          BY <5>1, <2>5
        <5>3. m # 1 => m - 1 \in 1 .. k /\ m - 1 # k
          BY <4>2, <2>2, <1>0
        <5> QED BY <5>1, <5>2, <5>3
      <4> QED BY <4>1, <4>2
    <3> HIDE DEF g
    <3>2. g = [m \in 1 .. k |-> g[m]]
      BY DEF g
    <3> QED BY <3>1, <3>2
  <2> QED BY <2>6, <2>2
<1>2. \E f : P(N + 1, f)
  <2>1. N + 1 \in 1 .. N + 1 /\ N + 1 \notin T
    BY <1>0, <1>1, SMTT(60)
  <2> QED BY <2>1
<1>3. First = CHOOSE f : P(N + 1, f)
  BY DEF First
<1>4. P(N + 1, First)
  BY <1>2, <1>3
<1> QED BY <1>4

\* Where messages begin: each two bytes or more behind the one before.
LEMMA FirstFacts ==
    ASSUME Stream
    PROVE  /\ First[1] = 1
           /\ \A m \in 1 .. N : First[m + 1] = First[m] + Size[m] /\ Size[m] \in Nat /\ Size[m] >= 2
           /\ \A m \in 1 .. N + 1 : First[m] \in Nat /\ First[m] >= 1
           /\ \A m, k \in 1 .. N + 1 : m < k => First[m] < First[k]
<1>0. N \in Nat
  BY NAssumption
<1>1. First[1] = 1
  BY FirstEquation, <1>0
<1>2. ASSUME NEW m \in 1 .. N PROVE First[m + 1] = First[m] + Size[m] /\ Size[m] \in Nat /\ Size[m] >= 2
  <2>1. m + 1 \in 1 .. N + 1 /\ m + 1 # 1 /\ (m + 1) - 1 = m
    BY <1>0
  <2>2. \A k \in 1 .. N + 1 : First[k] = IF k = 1 THEN 1 ELSE First[k - 1] + Size[k - 1]
    BY FirstEquation
  <2>3. First[m + 1] = First[(m + 1) - 1] + Size[(m + 1) - 1]
    BY <2>1, <2>2
  <2>4. First[m + 1] = First[m] + Size[m]
    BY <2>1, <2>3
  <2>5. Size[m] \in Sizes
    BY DEF Stream
  <2>6. Size[m] \in Nat /\ Size[m] >= 2
    <3>1. Size[m] \in Nat /\ Size[m] # 0 /\ Size[m] # 1
      BY <2>5, SizesAssumption
    <3> QED BY <3>1
  <2> QED BY <2>4, <2>6
<1>3. \A m \in 1 .. N + 1 : First[m] \in Nat /\ First[m] >= 1
  <2> DEFINE T == {m \in 1 .. N + 1 : ~(First[m] \in Nat /\ First[m] >= 1)}
  <2> SUFFICES ASSUME T # {} PROVE FALSE
    OBVIOUS
  <2>0. T \in SUBSET Nat
    BY <1>0
  <2> HIDE DEF T
  <2>1. PICK k \in T : \A m \in T : k <= m
    BY Least, <2>0
  <2>2. k \in 1 .. N + 1 /\ ~(First[k] \in Nat /\ First[k] >= 1) /\ k # 1
    BY <2>1, <1>1 DEF T
  <2>3. k - 1 \in 1 .. N /\ k - 1 \in 1 .. N + 1 /\ ~(k <= k - 1) /\ (k - 1) + 1 = k
    BY <2>2, <1>0
  <2>4. First[k - 1] \in Nat /\ First[k - 1] >= 1
    BY <2>1, <2>3 DEF T
  <2>5. First[k] = First[k - 1] + Size[k - 1] /\ Size[k - 1] \in Nat
    BY <2>3, <1>2
  <2> QED BY <2>2, <2>4, <2>5
<1>4. ASSUME NEW m \in 1 .. N + 1 PROVE \A k \in 1 .. N + 1 : m < k => First[m] < First[k]
  <2> DEFINE T == {k \in 1 .. N + 1 : m < k /\ ~(First[m] < First[k])}
  <2> SUFFICES ASSUME T # {} PROVE FALSE
    OBVIOUS
  <2>0. T \in SUBSET Nat
    BY <1>0
  <2> HIDE DEF T
  <2>1. PICK k \in T : \A j \in T : k <= j
    BY Least, <2>0
  <2>2. k \in 1 .. N + 1 /\ m < k /\ ~(First[m] < First[k])
    BY <2>1 DEF T
  <2>3. k - 1 \in 1 .. N /\ k - 1 \in 1 .. N + 1 /\ ~(k <= k - 1) /\ (k - 1) + 1 = k
           /\ (m = k - 1 \/ m < k - 1)
    BY <2>2, <1>0
  <2>4. m < k - 1 => First[m] < First[k - 1]
    BY <2>1, <2>3 DEF T
  <2>5. First[k] = First[k - 1] + Size[k - 1] /\ Size[k - 1] \in Nat /\ Size[k - 1] >= 2
    BY <2>3, <1>2
  <2>6. First[m] \in Nat /\ First[k - 1] \in Nat /\ First[k] \in Nat
    BY <1>3, <2>2, <2>3
  <2> QED BY <2>2, <2>3, <2>4, <2>5, <2>6
<1> QED BY <1>1, <1>2, <1>3, <1>4

\* A byte belongs to one message.
LEMMA MessageOfByte ==
    ASSUME Stream, NEW m \in 1 .. N, NEW p \in Nat, First[m] <= p, p < First[m + 1]
    PROVE  MessageAt(p) = m
<1>0. N \in Nat /\ m + 1 \in 1 .. N + 1 /\ m \in 1 .. N + 1
  BY NAssumption
<1> DEFINE k == MessageAt(p)
<1>1. k \in 1 .. N /\ First[k] <= p /\ p < First[k + 1]
  BY DEF MessageAt
<1> HIDE DEF k
<1>2. k + 1 \in 1 .. N + 1 /\ k \in 1 .. N + 1
  BY <1>0, <1>1
<1>3. First[m] \in Nat /\ First[k] \in Nat /\ First[k + 1] \in Nat /\ First[m + 1] \in Nat
  BY <1>0, <1>2, FirstFacts
<1>4. ~(k < m)
  <2> SUFFICES ASSUME k < m PROVE FALSE
    OBVIOUS
  <2>1. k + 1 = m \/ k + 1 < m
    BY <1>0, <1>1
  <2>2. First[k + 1] <= First[m]
    BY <2>1, <1>0, <1>2, <1>3, FirstFacts
  <2> QED BY <2>2, <1>1, <1>3
<1>5. ~(m < k)
  <2> SUFFICES ASSUME m < k PROVE FALSE
    OBVIOUS
  <2>1. m + 1 = k \/ m + 1 < k
    BY <1>0, <1>1
  <2>2. First[m + 1] <= First[k]
    BY <2>1, <1>0, <1>2, <1>3, FirstFacts
  <2> QED BY <2>2, <1>1, <1>3
<1> QED BY <1>0, <1>1, <1>4, <1>5 DEF k

\* Every byte of the stream belongs to a message.
LEMMA ByteHasMessage ==
    ASSUME Stream, NEW p \in Nat, 1 <= p, p < First[N + 1]
    PROVE  MessageAt(p) \in 1 .. N /\ First[MessageAt(p)] <= p /\ p < First[MessageAt(p) + 1]
<1>0. N \in Nat
  BY NAssumption
<1> DEFINE T == {k \in 1 .. N + 1 : p < First[k]}
<1>1. T \in SUBSET Nat /\ T # {}
  BY <1>0
<1> HIDE DEF T
<1>2. PICK k \in T : \A j \in T : k <= j
  BY <1>1, Least
<1>3. k \in 1 .. N + 1 /\ p < First[k] /\ k # 1
  BY <1>2, FirstFacts DEF T
<1>4. k - 1 \in 1 .. N /\ k - 1 \in 1 .. N + 1 /\ (k - 1) + 1 = k /\ ~(k <= k - 1)
  BY <1>0, <1>3
<1>5. ~(p < First[k - 1]) /\ First[k - 1] \in Nat
  BY <1>2, <1>4, FirstFacts DEF T
<1>6. \E m \in 1 .. N : First[m] <= p /\ p < First[m + 1]
  BY <1>3, <1>4, <1>5
<1> QED BY <1>6 DEF MessageAt

-----------------------------------------------------------------------------
(* The inductive invariant *)

\* The messages delivered so far, and the position in the stream of the byte before the
\* buffer, of the last byte before `start', and of the last byte in the buffer.
Done == Len(delivered)
Gone == First[Done + 1] - 1
Base == Gone - start
Seen == Base + off

Types ==
    /\ Stream /\ LastJson \in 1 .. N
    /\ written \in Nat /\ written <= First[N + 1] - 1
    /\ pc \in {"idle", "loop", "process"}
    /\ size \in Nat /\ 0 < size /\ size <= MAX_BUFFER_SIZE
    /\ buf \in Seq(Nat) /\ off <= size
    /\ start \in Nat /\ start <= off
    /\ check \in Nat
    /\ delivered \in Seq(Seq(Nat))

\* The buffer holds consecutive bytes of the stream; the next message begins at `start'.
Window == /\ \A i \in 1 .. off : buf[i] = Base + i
          /\ Seen <= written

\* When the reader has processed what it read, the next message is not complete.
Incomplete == pc # "process" /\ Done < N => Seen < First[Done + 2] - 1

\* The end of a message in json is not among the bytes that were searched before.
Searched == pc = "process" /\ Done < LastJson =>
               start <= check /\ check <= off /\ Base + check < First[Done + 2] - 1

IInv == Types /\ MessagesWhole /\ Window /\ Incomplete /\ Searched

-----------------------------------------------------------------------------
(* The steps *)

\* The numbers of the invariant, as integers.
LEMMA Numbers ==
    ASSUME IInv
    PROVE  /\ N \in Nat /\ Stream /\ Done \in 0 .. N /\ Done + 1 \in 1 .. N + 1 /\ off \in Nat
           /\ First[Done + 1] \in Nat /\ Gone \in Nat /\ Gone + 1 = First[Done + 1]
           /\ Base \in Int /\ Seen \in Int /\ Base + start = Gone /\ Base + off = Seen
           /\ Done < N => /\ Done + 1 \in 1 .. N /\ (Done + 1) + 1 = Done + 2
                          /\ First[Done + 2] = First[Done + 1] + Size[Done + 1]
                          /\ Size[Done + 1] \in Nat /\ Size[Done + 1] >= 2
                          /\ First[Done + 2] \in Nat
<1>1. N \in Nat /\ Stream /\ Done \in 0 .. N /\ off \in Nat /\ start \in Nat
  BY NAssumption DEF IInv, Types, MessagesWhole, Done, off
<1>2. Done + 1 \in 1 .. N + 1
  BY <1>1
<1>3. First[Done + 1] \in Nat /\ First[Done + 1] >= 1
  BY <1>1, <1>2, FirstFacts
<1>4. /\ Gone \in Nat /\ Gone + 1 = First[Done + 1] /\ Base \in Int /\ Seen \in Int
      /\ Base + start = Gone /\ Base + off = Seen
  BY <1>1, <1>3 DEF Gone, Base, Seen
<1>5. ASSUME Done < N
      PROVE  /\ Done + 1 \in 1 .. N /\ (Done + 1) + 1 = Done + 2
             /\ First[Done + 2] = First[Done + 1] + Size[Done + 1]
             /\ Size[Done + 1] \in Nat /\ Size[Done + 1] >= 2
             /\ First[Done + 2] \in Nat
  <2>1. Done + 1 \in 1 .. N /\ (Done + 1) + 1 = Done + 2
    BY <1>1, <1>5
  <2>2. /\ First[(Done + 1) + 1] = First[Done + 1] + Size[Done + 1]
        /\ Size[Done + 1] \in Nat /\ Size[Done + 1] >= 2
    BY <1>1, <2>1, FirstFacts
  <2> QED BY <1>3, <2>1, <2>2
<1> QED BY <1>1, <1>2, <1>3, <1>4, <1>5

\* The positions only depend on the stream, on what was delivered and on `start'.
LEMMA Positions ==
    /\ UNCHANGED stream => First' = First /\ (\A p : MessageAt(p)' = MessageAt(p))
                           /\ (\A m : Whole(m)' = Whole(m)) /\ (Stream => Stream')
    /\ UNCHANGED <<stream, delivered>> => Done' = Done /\ Gone' = Gone
                                          /\ (MessagesWhole => MessagesWhole')
BY DEF stream, First, MessageAt, Whole, Done, Gone, Stream, MessagesWhole

\* The next byte to read is the one after those in the buffer.
LEMMA ReadSoFarIsSeen == ASSUME IInv PROVE ReadSoFar = Seen
<1>1. CASE buf = <<>>
  <2>1. off = 0 /\ start = 0
    BY <1>1 DEF IInv, Types, off
  <2> QED BY <1>1, <2>1, Numbers DEF ReadSoFar, Seen, Base, Gone, Done
<1>2. CASE buf # <<>>
  <2>1. off \in 1 .. off
    BY <1>2 DEF IInv, Types, off
  <2>2. buf[off] = Base + off
    BY <2>1 DEF IInv, Window
  <2> QED BY <1>2, <2>2, Numbers DEF ReadSoFar
<1> QED BY <1>1, <1>2

\* read() into a buffer that holds the bytes up to Seen, of which `st' are delivered.
LEMMA ReadStep ==
    ASSUME IInv, pc = "loop", UNCHANGED <<stream, written, delivered>>,
           NEW b \in Seq(Nat), NEW s \in Nat, NEW st \in Nat,
           start' = st, size' = s, 0 < s, s <= MAX_BUFFER_SIZE, Len(b) <= s, st <= Len(b),
           (Gone - st) + Len(b) = Seen, \A i \in 1 .. Len(b) : b[i] = (Gone - st) + i,
           Read(b, s)
    PROVE  IInv'
<1> DEFINE n == Smaller(written - Seen, s - Len(b))
<1>0. Len(b) \in Nat /\ written \in Nat /\ Seen <= written /\ check \in Nat
  BY DEF IInv, Types, Window
<1>1. n \in Nat /\ n <= written - Seen /\ n <= s - Len(b)
  <2>1. written - Seen \in Nat /\ s - Len(b) \in Nat
    BY <1>0, Numbers, SMTT(60)
  <2> QED BY <2>1 DEF Smaller
<1>2. Base' = Gone - st /\ Done' = Done /\ First' = First /\ MessagesWhole' /\ Stream'
  BY Positions, Numbers DEF Base, IInv
<1>3. /\ LastJson' \in 1 .. N /\ written' \in Nat /\ written' <= First[N + 1] - 1
      /\ size' \in Nat /\ 0 < size' /\ size' <= MAX_BUFFER_SIZE
      /\ start' \in Nat /\ delivered' \in Seq(Seq(Nat))
  BY DEF IInv, Types, stream
<1>4. /\ n = 0 => pc' = "idle" /\ buf' = b /\ check' = check
      /\ n # 0 => /\ pc' = "process" /\ buf' = b \o Bytes(Seen + 1, Seen + n)
                  /\ check' = Len(b)
  BY ReadSoFarIsSeen DEF Read
<1> HIDE DEF n
<1>5. CASE n = 0
  <2>1. off' = Len(b) /\ Seen' = Seen
    BY <1>2, <1>4, <1>5 DEF off, Seen
  <2>2. Types'
    BY <1>2, <1>3, <1>4, <1>5, <2>1, <1>0 DEF Types
  <2>3. Window'
    BY <1>2, <1>4, <1>5, <2>1, <1>0 DEF Window
  <2>4. Incomplete' /\ Searched'
    BY <1>2, <1>4, <1>5, <2>1 DEF IInv, Incomplete, Searched
  <2> QED BY <1>2, <2>2, <2>3, <2>4 DEF IInv
<1>6. CASE n # 0
  <2> DEFINE t == Bytes(Seen + 1, Seen + n)
  <2>0. Seen \in Int /\ Gone \in Nat /\ Seen >= 0
    BY <1>0, Numbers, SMTT(60)
  <2>1. Len(t) = n /\ t \in Seq(Nat) /\ \A j \in 1 .. n : t[j] = Seen + j
    <3>1. (Seen + n) - (Seen + 1) + 1 = n
      BY <1>1, <2>0
    <3>2. t = [i \in 1 .. n |-> (Seen + 1) + i - 1]
      BY <3>1 DEF Bytes
    <3>3. \A i \in 1 .. n : (Seen + 1) + i - 1 = Seen + i /\ Seen + i \in Nat
      BY <1>1, <2>0
    <3> QED BY <1>1, <3>2, <3>3
  <2> HIDE DEF t
  <2>2. buf' = b \o t /\ pc' = "process" /\ check' = Len(b)
    BY <1>4, <1>6 DEF t
  <2>3. /\ off' = Len(b) + n /\ buf' \in Seq(Nat)
        /\ \A i \in 1 .. Len(b) + n : buf'[i] = IF i <= Len(b) THEN b[i] ELSE t[i - Len(b)]
    <3>1. buf' \in Seq(Nat) /\ Len(buf') = Len(b) + n
      BY <2>1, <2>2
    <3>2. \A i \in 1 .. Len(b) + n : buf'[i] = IF i <= Len(b) THEN b[i] ELSE t[i - Len(b)]
      BY <2>1, <2>2
    <3> QED BY <3>1, <3>2 DEF off
  <2>4. \A i \in 1 .. Len(b) + n : buf'[i] = (Gone - st) + i
    <3> SUFFICES ASSUME NEW i \in 1 .. Len(b) + n PROVE buf'[i] = (Gone - st) + i
      OBVIOUS
    <3>1. CASE i <= Len(b)
      BY <3>1, <2>3, <1>0
    <3>2. CASE ~(i <= Len(b))
      <4>1. i - Len(b) \in 1 .. n
        BY <3>2, <1>0, <1>1
      <4>2. buf'[i] = Seen + (i - Len(b))
        <5>1. buf'[i] = t[i - Len(b)]
          BY <3>2, <2>3
        <5> QED BY <5>1, <4>1, <2>1
      <4>3. i \in Int /\ Len(b) \in Int /\ Seen \in Int /\ Gone - st \in Int
        BY <1>0, <1>1, <2>0
      <4>4. Seen + (i - Len(b)) = (Gone - st) + i
        BY <4>3
      <4> QED BY <4>2, <4>4
    <3> QED BY <3>1, <3>2
  <2>5. Seen' = Seen + n
    BY <1>2, <2>3, <2>0, <1>0, <1>1 DEF Seen
  <2>6. Types'
    BY <1>0, <1>1, <1>2, <1>3, <2>2, <2>3 DEF Types
  <2>7. Window'
    BY <1>0, <1>1, <1>2, <2>3, <2>4, <2>5, <2>0 DEF Window
  <2>8. Incomplete'
    BY <2>2 DEF Incomplete
  <2>9. Searched'
    <3> SUFFICES ASSUME Done' < LastJson' 
                 PROVE  start' <= check' /\ check' <= off' /\ Base' + check' < First'[Done' + 2] - 1
      BY DEF Searched
    <3>0. LastJson' = LastJson /\ LastJson \in 1 .. N
      BY DEF IInv, Types, stream
    <3>1. Done < N
      BY <1>2, <3>0, Numbers, SMTT(60)
    <3>2. Seen < First[Done + 2] - 1
      BY <3>1 DEF IInv, Incomplete
    <3>3. Base' + check' = Seen
      BY <1>2, <2>2
    <3> QED BY <3>2, <3>3, <1>0, <1>1, <1>2, <2>2, <2>3, SMTT(60)
  <2> QED BY <1>2, <2>6, <2>7, <2>8, <2>9 DEF IInv
<1> QED BY <1>5, <1>6

\* A step that leaves the buffer, the deliveries and the stream alone and does not begin to
\* process.
LEMMA IdleStep ==
    ASSUME IInv, pc # "process", pc' \in {"idle", "loop"}, written' \in Nat, written <= written',
           written' <= First[N + 1] - 1,
           UNCHANGED <<stream, size, buf, start, check, delivered>>
    PROVE  IInv'
<1>1. First' = First /\ Done' = Done /\ Gone' = Gone /\ MessagesWhole' /\ Stream'
  BY Positions DEF IInv, Types
<1>2. off' = off /\ Base' = Base /\ Seen' = Seen
  BY <1>1 DEF off, Base, Seen
<1>3. Types'
  BY <1>1, <1>2 DEF IInv, Types, stream
<1>4. Window'
  <2>1. Seen \in Int /\ Seen <= written /\ written \in Nat
    BY Numbers DEF IInv, Window, Types
  <2>2. Seen' <= written'
    BY <2>1, <1>2
  <2> QED BY <1>2, <2>2 DEF IInv, Window
<1>5. Incomplete' /\ Searched'
  BY <1>1, <1>2 DEF IInv, Incomplete, Searched
<1> QED BY <1>1, <1>3, <1>4, <1>5 DEF IInv

\* The peer writes no more than the stream.
LEMMA WriteStep == ASSUME IInv, Write PROVE IInv'
<1>0. N \in Nat /\ Stream /\ written \in Nat /\ written < First[N + 1] - 1
  BY NAssumption DEF IInv, Types, Write
<1>1. N + 1 \in 1 .. N + 1 /\ First[N + 1] \in Nat
  BY <1>0, FirstFacts
<1> DEFINE m == MessageAt(written + 1)
<1>2. m \in 1 .. N /\ First[m] <= written + 1 /\ written + 1 < First[m + 1]
  BY <1>0, <1>1, ByteHasMessage
<1> HIDE DEF m
<1>3. m + 1 \in 1 .. N + 1 /\ m \in 1 .. N + 1 /\ (m + 1 = N + 1 \/ m + 1 < N + 1)
  BY <1>0, <1>2
<1>4. First[m] \in Nat /\ First[m + 1] \in Nat /\ First[m] < First[m + 1]
         /\ First[m + 1] <= First[N + 1]
  <2>1. First[m] \in Nat /\ First[m + 1] \in Nat /\ First[m] < First[m + 1]
    BY <1>0, <1>3, FirstFacts
  <2>2. m + 1 < N + 1 => First[m + 1] < First[N + 1]
    BY <1>0, <1>1, <1>3, FirstFacts
  <2> QED BY <2>1, <2>2, <1>1, <1>3
<1>5. written' \in written + 1 .. First[m + 1] - 1
  BY DEF Write, m
<1>6. written' \in Nat /\ written <= written' /\ written' <= First[N + 1] - 1
  BY <1>0, <1>1, <1>2, <1>4, <1>5
<1>7. UNCHANGED <<stream, pc, size, buf, start, check, delivered>>
  BY DEF Write, reader
<1>8. CASE pc # "process"
  BY <1>6, <1>7, <1>8, IdleStep DEF IInv, Types
<1>9. CASE pc = "process"
  <2>1. First' = First /\ Done' = Done /\ Gone' = Gone /\ MessagesWhole' /\ Stream'
    BY <1>7, Positions DEF IInv, Types
  <2>2. off' = off /\ Base' = Base /\ Seen' = Seen
    BY <1>7, <2>1 DEF off, Base, Seen
  <2>3. Types'
    BY <1>6, <1>7, <2>1, <2>2 DEF IInv, Types, stream
  <2>4. Window'
    <3>1. Seen \in Int /\ Seen <= written /\ written \in Nat
      BY Numbers DEF IInv, Window, Types
    <3>2. Seen' <= written'
      BY <3>1, <2>2, <1>6
    <3> QED BY <1>7, <2>2, <3>2 DEF IInv, Window
  <2>5. Incomplete' /\ Searched'
    BY <1>7, <1>9, <2>1, <2>2 DEF IInv, Incomplete, Searched, stream
  <2> QED BY <2>1, <2>3, <2>4, <2>5 DEF IInv
<1> QED BY <1>8, <1>9

\* What check_read_message_complete says of the bytes in the buffer: the length of the next
\* message if all of it is there, and -1 if not.
LEMMA CompleteIsRight ==
    ASSUME IInv, pc = "process", off > start
    PROVE  /\ Done < N
           /\ Seen >= First[Done + 2] - 1 => Complete = Size[Done + 1]
           /\ Seen < First[Done + 2] - 1 => Complete = -1
<1>0. /\ start \in Nat /\ off \in Nat /\ check \in Nat /\ buf \in Seq(Nat) /\ LastJson \in 1 .. N
      /\ Stream /\ \A i \in 1 .. off : buf[i] = Base + i
  BY Numbers DEF IInv, Types, Window
<1>1. Done < N
  <2>1. Seen <= written /\ written <= First[N + 1] - 1 /\ written \in Nat
    BY DEF IInv, Types, Window
  <2>2. Gone < Seen
    BY <1>0, Numbers
  <2>3. Done = N => FALSE
    <3> SUFFICES ASSUME Done = N PROVE FALSE
      OBVIOUS
    <3>1. Gone = First[N + 1] - 1 /\ Gone \in Nat /\ Seen \in Int
      BY Numbers DEF Gone
    <3> QED BY <3>1, <2>1, <2>2
  <2> QED BY <2>3, Numbers
<1> DEFINE z == Size[Done + 1]
           e == start + z
           last == First[Done + 2] - 1
<1>2. /\ Done + 1 \in 1 .. N /\ First[(Done + 1) + 1] = last + 1
      /\ Gone \in Nat /\ First[Done + 1] = Gone + 1 /\ z \in Nat /\ z >= 2 /\ last = Gone + z
      /\ Base \in Int /\ Seen \in Int /\ Base + start = Gone /\ Base + off = Seen
      /\ last \in Nat
  <2>1. /\ Done + 1 \in 1 .. N /\ First[(Done + 1) + 1] = First[Done + 2]
        /\ First[Done + 2] = First[Done + 1] + z /\ First[Done + 2] \in Nat
        /\ First[Done + 1] = Gone + 1 /\ Gone \in Nat /\ z \in Nat /\ z >= 2
        /\ Base \in Int /\ Seen \in Int /\ Base + start = Gone /\ Base + off = Seen
    BY <1>1, Numbers
  <2> HIDE DEF z
  <2> QED BY <2>1
<1>3. e = start + z
  OBVIOUS
<1> HIDE DEF z, e, last
<1>4. e \in Nat /\ start < e /\ last = Base + e
  BY <1>0, <1>2, <1>3
<1>5. Seen >= last <=> e <= off
  BY <1>0, <1>2, <1>4
<1>6. ASSUME NEW i \in 1 .. off, start < i, i <= e
      PROVE  buf[i] = Base + i /\ MessageAt(buf[i]) = Done + 1
  <2>1. buf[i] = Base + i
    BY <1>0
  <2>2. Base + i \in Nat /\ First[Done + 1] <= Base + i /\ Base + i < First[(Done + 1) + 1]
    BY <1>0, <1>2, <1>4, <1>6
  <2>3. MessageAt(Base + i) = Done + 1
    BY <1>0, <1>2, <2>2, MessageOfByte
  <2> QED BY <2>1, <2>3
<1>7. (e <= off => Complete = z) /\ (~(e <= off) => Complete = -1)
  <2>1. CASE Done < LastJson
    <3> DEFINE ends == {i \in check + 1 .. off : buf[i] = First[MessageAt(buf[i]) + 1] - 1}
    <3>1. start <= check /\ check <= off /\ Base + check < last
      BY <2>1 DEF IInv, Searched, last
    <3>2. check < e
      BY <3>1, <1>0, <1>2, <1>4
    <3>3. \A i \in ends : e <= i
      <4> SUFFICES ASSUME NEW i \in check + 1 .. off, i < e,
                          buf[i] = First[MessageAt(buf[i]) + 1] - 1
                   PROVE  FALSE
        BY <1>0, <1>4
      <4>1. i \in 1 .. off /\ start < i /\ i <= e
        BY <1>0, <1>4, <3>1
      <4>2. buf[i] = Base + i /\ buf[i] = First[(Done + 1) + 1] - 1
        BY <4>1, <1>6
      <4>3. Base + i = last
        BY <4>2, <1>2
      <4> QED BY <4>1, <4>3, <1>0, <1>2, <1>4
    <3>4. e <= off => e \in ends
      <4> SUFFICES ASSUME e <= off PROVE e \in ends
        OBVIOUS
      <4>1. e \in check + 1 .. off /\ e \in 1 .. off
        BY <1>0, <1>4, <3>1, <3>2
      <4>2. buf[e] = Base + e /\ MessageAt(buf[e]) = Done + 1
        BY <4>1, <1>4, <1>6
      <4>3. First[(Done + 1) + 1] - 1 = Base + e
        BY <1>2, <1>4
      <4> QED BY <4>1, <4>2, <4>3
    <3>5. \A i \in ends : i \in Nat /\ i <= off
      BY <1>0
    <3>6. Complete = IF ends = {} THEN -1
                     ELSE (CHOOSE i \in ends : \A j \in ends : i <= j) - start
      BY <2>1 DEF Complete, JsonComplete, Done
    <3> HIDE DEF ends
    <3>7. CASE e <= off
      <4>1. e \in ends /\ \A j \in ends : e <= j
        BY <3>3, <3>4, <3>7
      <4>2. \A i \in ends : (\A j \in ends : i <= j) => i = e
        BY <4>1, <3>5, <1>4
      <4>3. (CHOOSE i \in ends : \A j \in ends : i <= j) = e
        BY <4>1, <4>2
      <4>4. Complete = e - start
        BY <3>6, <4>1, <4>3
      <4>5. Complete = z
        BY <4>4, <1>0, <1>2, <1>3
      <4> QED BY <4>5, <3>7
    <3>8. CASE ~(e <= off)
      <4>1. ends = {}
        BY <3>3, <3>5, <3>8, <1>0, <1>4
      <4> QED BY <4>1, <3>6, <3>8
    <3> QED BY <3>7, <3>8
  <2>2. CASE ~(Done < LastJson)
    <3>1. start + 1 \in 1 .. off /\ start < start + 1 /\ start + 1 <= e
      BY <1>0, <1>2, <1>3
    <3>2. MessageAt(buf[start + 1]) = Done + 1
      BY <3>1, <1>6
    <3>3. Complete = IF off - start >= z THEN z ELSE -1
      BY <2>2, <3>2 DEF Complete, CborComplete, Done, z
    <3>4. off - start >= z <=> e <= off
      BY <1>0, <1>2, <1>3
    <3> QED BY <3>3, <3>4
  <2> QED BY <2>1, <2>2
<1>8. Seen >= last => Complete = z
  BY <1>5, <1>7
<1>9. Seen < last => Complete = -1
  <2> SUFFICES ASSUME Seen < last PROVE Complete = -1
    OBVIOUS
  <2>1. ~(Seen >= last)
    BY <1>2
  <2> QED BY <2>1, <1>5, <1>7
<1> QED BY <1>1, <1>8, <1>9 DEF z, last

\* check_read_message_complete only accepts a message that is in the buffer.
LEMMA ProcessMessageStep == ASSUME IInv, ProcessMessage PROVE IInv'
<1> DEFINE z == Size[Done + 1]
           w == SubSeq(buf, start + 1, start + z)
<1>0. /\ start \in Nat /\ off \in Nat /\ size \in Nat /\ buf \in Seq(Nat) /\ LastJson \in 1 .. N
      /\ Stream /\ (\A i \in 1 .. off : buf[i] = Base + i) /\ delivered \in Seq(Seq(Nat))
      /\ off = Len(buf)
  BY Numbers DEF IInv, Types, Window, off
<1>1. pc = "process" /\ off > start /\ Complete >= 0
  BY DEF ProcessMessage, MoreToProcess
<1>2. /\ Done < N
      /\ Seen >= First[Done + 2] - 1 => Complete = z
      /\ Seen < First[Done + 2] - 1 => Complete = -1
  BY <1>1, CompleteIsRight
<1>3. /\ Done \in Nat /\ N \in Nat /\ Done + 1 \in 1 .. N /\ (Done + 1) + 1 = Done + 2
      /\ First[Done + 2] \in Nat /\ First[Done + 2] = First[Done + 1] + z
      /\ z \in Nat /\ z >= 2
      /\ Gone \in Nat /\ Gone + 1 = First[Done + 1]
      /\ Base \in Int /\ Seen \in Int /\ Base + start = Gone /\ Base + off = Seen
  BY <1>2, Numbers
<1>4. Seen >= First[Done + 2] - 1 /\ Complete = z
  <2>1. ~(Seen < First[Done + 2] - 1)
    BY <1>1, <1>2
  <2> QED BY <2>1, <1>2, <1>3
<1>5. /\ delivered' = Append(delivered, w) /\ start' = start + z /\ check' = start + z
      /\ pc' = "process" /\ buf' = buf /\ size' = size /\ written' = written
      /\ UNCHANGED stream
  BY <1>1, <1>4 DEF ProcessMessage, CheckFrom
<1> HIDE DEF z
<1>6. start + z <= off
  BY <1>0, <1>3, <1>4
<1>7. w = Whole(Done + 1) /\ w \in Seq(Nat)
  <2>1. Len(w) = z /\ w \in Seq(Nat) /\ \A i \in 1 .. z : w[i] = buf[start + i]
    <3>1. w \in Seq(Nat)
      BY <1>0, <1>3, <1>6, SMTT(60)
    <3>2. Len(w) = z
      BY <1>0, <1>3, <1>6
    <3>3. \A i \in 1 .. z : w[i] = buf[start + i]
      BY <1>0, <1>3, <1>6
    <3> QED BY <3>1, <3>2, <3>3
  <2> HIDE DEF w
  <2>2. \A i \in 1 .. z : w[i] = Gone + i
    <3> SUFFICES ASSUME NEW i \in 1 .. z PROVE w[i] = Gone + i
      OBVIOUS
    <3>1. start + i \in 1 .. off
      BY <1>0, <1>3, <1>6
    <3>2. w[i] = Base + (start + i)
      BY <3>1, <1>0, <2>1
    <3> QED BY <3>2, <1>0, <1>3
  <2>3. Whole(Done + 1) = [i \in 1 .. z |-> (Gone + 1) + i - 1]
    <3>1. (First[(Done + 1) + 1] - 1) - First[Done + 1] + 1 = z
      BY <1>3
    <3> QED BY <3>1, <1>3 DEF Whole, Bytes
  <2>4. \A i \in 1 .. z : (Gone + 1) + i - 1 = Gone + i
    BY <1>3
  <2>5. w = [i \in 1 .. z |-> w[i]]
    BY <2>1, <1>3
  <2>6. w = [i \in 1 .. z |-> (Gone + 1) + i - 1]
    BY <2>2, <2>4, <2>5
  <2> QED BY <2>1, <2>3, <2>6
<1> HIDE DEF w
<1>8. /\ First' = First /\ (\A m : Whole(m)' = Whole(m)) /\ Stream'
      /\ LastJson' = LastJson /\ off' = off
  BY <1>0, <1>5, Positions DEF stream, off
<1>9. Done' = Done + 1 /\ delivered' \in Seq(Seq(Nat))
      /\ (\A i \in 1 .. Done : delivered'[i] = delivered[i]) /\ delivered'[Done + 1] = w
  BY <1>0, <1>5, <1>7 DEF Done
<1>10. MessagesWhole'
  <2>1. \A i \in 1 .. Done + 1 : delivered'[i] = Whole(i)
    <3> SUFFICES ASSUME NEW i \in 1 .. Done + 1 PROVE delivered'[i] = Whole(i)
      OBVIOUS
    <3>1. CASE i = Done + 1
      BY <3>1, <1>7, <1>9
    <3>2. CASE i # Done + 1
      <4>1. i \in 1 .. Done
        BY <3>2, <1>3
      <4> QED BY <4>1, <1>9 DEF IInv, MessagesWhole, Done
    <3> QED BY <3>1, <3>2
  <2>2. Len(delivered') = Done + 1 /\ Done + 1 <= N
    BY <1>3, <1>9 DEF Done
  <2>3. \A i \in 1 .. Len(delivered') : delivered'[i] = Whole(i)'
    BY <1>8, <2>1, <2>2
  <2> QED BY <2>2, <2>3 DEF MessagesWhole
<1>11. Base' = Base /\ Seen' = Seen /\ Gone' = Gone + z
  <2>1. Gone' = First[Done + 2] - 1
    BY <1>3, <1>8, <1>9 DEF Gone
  <2>2. Gone' = Gone + z
    BY <1>3, <2>1
  <2>3. Base' = Base
    BY <1>0, <1>3, <1>5, <2>2 DEF Base
  <2> QED BY <2>2, <2>3, <1>8 DEF Seen
<1>12. Types'
  BY <1>0, <1>3, <1>5, <1>6, <1>8, <1>9 DEF IInv, Types
<1>13. Window'
  BY <1>5, <1>8, <1>11 DEF IInv, Window
<1>14. Incomplete'
  BY <1>5 DEF Incomplete
<1>15. Searched'
  <2> SUFFICES ASSUME Done' < LastJson'
               PROVE  start' <= check' /\ check' <= off' /\ Base' + check' < First'[Done' + 2] - 1
    BY DEF Searched
  <2>1. (Done + 1) + 1 \in 1 .. N
    <3>1. Done + 1 < LastJson
      BY <1>8, <1>9
    <3>2. Done \in Nat /\ N \in Nat /\ LastJson \in 1 .. N
      BY <1>0, <1>3
    <3> QED BY <3>1, <3>2
  <2>2. First[((Done + 1) + 1) + 1] = First[(Done + 1) + 1] + Size[(Done + 1) + 1]
           /\ Size[(Done + 1) + 1] \in Nat /\ Size[(Done + 1) + 1] >= 2
    BY <1>0, <2>1, FirstFacts
  <2>3. ((Done + 1) + 1) + 1 = (Done + 1) + 2
    BY <1>3
  <2>4. First[(Done + 1) + 2] > First[Done + 2] /\ First[(Done + 1) + 2] \in Nat
    BY <1>3, <2>2, <2>3
  <2>5. Base + (start + z) = First[Done + 2] - 1
    <3>1. First[Done + 2] = (Gone + 1) + z
      BY <1>3
    <3>2. Base + start = Gone /\ Gone \in Nat /\ Base \in Int /\ z \in Nat
      BY <1>3
    <3> QED BY <3>1, <3>2, <1>0
  <2>6. Base' + check' < First'[Done' + 2] - 1
    <3>1. Base' + check' = First[Done + 2] - 1
      BY <1>5, <1>11, <2>5
    <3>2. First'[Done' + 2] = First[(Done + 1) + 2]
      BY <1>8, <1>9
    <3>3. First[Done + 2] \in Nat
      BY <1>3
    <3> QED BY <2>4, <3>1, <3>2, <3>3
  <2> QED BY <2>6, <1>0, <1>3, <1>5, <1>6, <1>8
<1> QED BY <1>10, <1>12, <1>13, <1>14, <1>15 DEF IInv

\* The reader leaves the inner loop only when the rest is no message.
LEMMA ProcessEndsStep == ASSUME IInv, ProcessEnds PROVE IInv'
<1>1. pc = "process" /\ pc' = "loop" /\ ~MoreToProcess
         /\ UNCHANGED <<stream, written, size, buf, start, check, delivered>>
  BY DEF ProcessEnds
<1>2. First' = First /\ Done' = Done /\ Gone' = Gone
  BY <1>1, Positions
<1>3. MessagesWhole' /\ Stream'
  BY <1>1, Positions DEF IInv, Types
<1>4. off' = off /\ Base' = Base /\ Seen' = Seen
  BY <1>1, <1>2 DEF off, Base, Seen
<1>5. Types' /\ Window' /\ Searched'
  BY <1>1, <1>2, <1>3, <1>4 DEF IInv, Types, Window, Searched, stream
<1>6. ASSUME Done < N PROVE Seen < First[Done + 2] - 1
  <2>1. start \in Nat /\ off \in Nat /\ start <= off
    BY Numbers DEF IInv, Types
  <2>2. CASE off > start
    <3>1. ~(Complete >= 0)
      BY <1>1, <2>2 DEF MoreToProcess
    <3>2. ~(Seen >= First[Done + 2] - 1)
      <4> SUFFICES ASSUME Seen >= First[Done + 2] - 1 PROVE FALSE
        OBVIOUS
      <4>1. Complete = Size[Done + 1]
        BY <1>1, <2>2, CompleteIsRight
      <4>2. Size[Done + 1] \in Nat
        BY <1>6, Numbers
      <4> QED BY <3>1, <4>1, <4>2
    <3> QED BY <3>2, <1>6, Numbers
  <2>3. CASE ~(off > start)
    <3>1. off = start
      BY <2>1, <2>3
    <3>2. Seen = Gone
      BY <3>1, Numbers
    <3> DEFINE z == Size[Done + 1]
    <3>3. First[Done + 2] = First[Done + 1] + z /\ z \in Nat /\ z >= 2 /\ Gone \in Nat
             /\ Gone + 1 = First[Done + 1]
      BY <1>6, Numbers
    <3> HIDE DEF z
    <3> QED BY <3>2, <3>3
  <2> QED BY <2>2, <2>3
<1>7. Incomplete'
  BY <1>2, <1>4, <1>6 DEF Incomplete
<1> QED BY <1>3, <1>5, <1>7 DEF IInv

\* read() with room left, in a larger buffer, or after the rest was moved to its start.
LEMMA ReadSteps == ASSUME IInv, ReadMore \/ GrowAndRead \/ MoveAndRead PROVE IInv'
<1>0. /\ pc = "loop" /\ UNCHANGED <<stream, written, delivered>>
      /\ size \in Nat /\ 0 < size /\ size <= MAX_BUFFER_SIZE /\ MAX_BUFFER_SIZE \in Nat
      /\ buf \in Seq(Nat) /\ off = Len(buf) /\ off <= size /\ off \in Nat
      /\ start \in Nat /\ start <= off /\ (\A i \in 1 .. off : buf[i] = Base + i)
  BY BufferAssumption, Numbers
  DEF IInv, Types, Window, ReadMore, GrowAndRead, MoveAndRead, off
<1>1. /\ Gone \in Nat /\ Base \in Int /\ Seen \in Int /\ Base = Gone - start
      /\ Base + off = Seen /\ Base + start = Gone
  BY Numbers DEF Base
<1>2. CASE ReadMore
  BY <1>0, <1>1, <1>2, ReadStep DEF ReadMore
<1>3. CASE GrowAndRead
  <2>1. size' = Smaller(2 * size, MAX_BUFFER_SIZE) /\ size < MAX_BUFFER_SIZE
    BY <1>3 DEF GrowAndRead, Grown
  <2>2. size' \in Nat /\ 0 < size' /\ size' <= MAX_BUFFER_SIZE /\ size <= size'
    BY <1>0, <2>1 DEF Smaller
  <2>3. Read(buf, size') /\ start' = start
    BY <1>3 DEF GrowAndRead
  <2>4. Len(buf) <= size'
    BY <1>0, <2>2
  <2> QED BY <1>0, <1>1, <2>2, <2>3, <2>4, ReadStep
<1>4. CASE MoveAndRead
  <2> DEFINE b == SubSeq(buf, start + 1, off)
  <2>1. Read(b, size) /\ start' = 0 /\ size' = size
    BY <1>4 DEF MoveAndRead
  <2>2. b \in Seq(Nat) /\ Len(b) = off - start /\ \A i \in 1 .. off - start : b[i] = buf[start + i]
    <3>1. b \in Seq(Nat)
      BY <1>0
    <3>2. Len(b) = off - start
      BY <1>0
    <3>3. \A i \in 1 .. off - start : b[i] = buf[start + i]
      BY <1>0
    <3> QED BY <3>1, <3>2, <3>3
  <2> HIDE DEF b
  <2>3. \A i \in 1 .. Len(b) : b[i] = (Gone - 0) + i
    <3> SUFFICES ASSUME NEW i \in 1 .. off - start PROVE b[i] = (Gone - 0) + i
      BY <2>2
    <3>1. start + i \in 1 .. off
      BY <1>0
    <3>2. b[i] = Base + (start + i)
      BY <3>1, <1>0, <2>2
    <3> QED BY <3>2, <1>0, <1>1
  <2>4. (Gone - 0) + Len(b) = Seen /\ Len(b) <= size /\ 0 <= Len(b)
    BY <1>0, <1>1, <2>2
  <2> QED BY <1>0, <2>1, <2>2, <2>3, <2>4, ReadStep
<1> QED BY <1>2, <1>3, <1>4

\* Nothing is read and nothing is delivered.
LEMMA InitIsRight == Init => IInv
<1> SUFFICES ASSUME Init PROVE IInv
  OBVIOUS
<1>0. /\ N \in Nat /\ N >= 1 /\ Stream /\ LastJson \in 1 .. N /\ written = 0 /\ pc = "idle"
      /\ size = BUFFER_SIZE /\ buf = <<>> /\ start = 0 /\ check = 0 /\ delivered = <<>>
      /\ off = 0 /\ Done = 0
  BY NAssumption DEF Init, Stream, off, Done
<1>1. First[1] = 1 /\ First[N + 1] \in Nat /\ First[N + 1] >= 1
  BY <1>0, FirstFacts
<1>2. First[1 + 1] = First[1] + Size[1] /\ Size[1] \in Nat /\ Size[1] >= 2
  <2>1. 1 \in 1 .. N
    BY <1>0
  <2> QED BY <1>0, <2>1, FirstFacts
<1>3. First[Done + 1] = 1 /\ First[Done + 2] = 1 + Size[1]
  BY <1>0, <1>1, <1>2
<1>4. Gone = 0 /\ Base = 0 /\ Seen = 0
  BY <1>0, <1>3 DEF Gone, Base, Seen
<1>5. Types
  BY <1>0, <1>1, BufferAssumption DEF Types
<1>6. MessagesWhole /\ Window /\ Searched
  BY <1>0, <1>4 DEF MessagesWhole, Window, Searched
<1>7. Incomplete
  BY <1>2, <1>3, <1>4 DEF Incomplete
<1> QED BY <1>5, <1>6, <1>7 DEF IInv

\* Every step keeps the invariant.
LEMMA NextKeeps == IInv /\ [Next]_vars => IInv'
<1> SUFFICES ASSUME IInv, [Next]_vars PROVE IInv'
  OBVIOUS
<1>1. CASE Write
  BY <1>1, WriteStep
<1>2. CASE Wake \/ TooBig
  <2>1. written \in Nat /\ written <= First[N + 1] - 1
    BY DEF IInv, Types
  <2>2. /\ pc # "process" /\ pc' \in {"idle", "loop"} /\ written' = written
        /\ UNCHANGED <<stream, size, buf, start, check, delivered>>
    BY <1>2 DEF Wake, TooBig
  <2>3. written' \in Nat /\ written <= written' /\ written' <= First[N + 1] - 1
    BY <2>1, <2>2
  <2> QED BY <2>2, <2>3, IdleStep
<1>3. CASE ReadMore \/ GrowAndRead \/ MoveAndRead
  BY <1>3, ReadSteps
<1>4. CASE ProcessMessage
  BY <1>4, ProcessMessageStep
<1>5. CASE ProcessEnds
  BY <1>5, ProcessEndsStep
<1>6. CASE UNCHANGED vars
  <2>1. UNCHANGED <<stream, written, pc, size, buf, start, check, delivered>>
    BY <1>6 DEF vars, reader
  <2>2. First' = First /\ Done' = Done /\ Gone' = Gone
    BY <2>1, Positions
  <2>3. MessagesWhole' /\ Stream'
    BY <2>1, Positions DEF IInv, Types
  <2>4. off' = off /\ Base' = Base /\ Seen' = Seen
    BY <2>1, <2>2 DEF off, Base, Seen
  <2>5. Types' /\ Window' /\ Incomplete' /\ Searched'
    BY <2>1, <2>2, <2>3, <2>4 DEF IInv, Types, Window, Incomplete, Searched, stream
  <2> QED BY <2>3, <2>5 DEF IInv
<1> QED BY <1>1, <1>2, <1>3, <1>4, <1>5, <1>6 DEF Next, HandleData

-----------------------------------------------------------------------------
\* However the reads cut the stream, handle_data_available hands the messages on whole and
\* in the order in which they were sent, for any lengths of messages and any buffer.  (After
\* an overlapping memcpy has garbled the buffer the model claims nothing: the reader stops.)
THEOREM MessagesWholeHolds == Spec => []MessagesWhole
<1>1. IInv => MessagesWhole
  BY DEF IInv
<1> QED BY <1>1, InitIsRight, NextKeeps, PTL DEF Spec

=============================================================================
