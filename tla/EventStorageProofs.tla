------------------------- MODULE EventStorageProofs -------------------------
(***************************************************************************)
(* Proofs about MultiFileEventBatch, the operations of EventFiles it is    *)
(* made of, the EventUploader that empties it and the BufferedEventBatch   *)
(* in front of it, for any events, sizes and limits, any number of files   *)
(* and any number of restarts.  As long as no open() fails, no stored      *)
(* event is forgotten and the files implement the queue of module          *)
(* EventQueue; the server gets every event once; the buffer adds no loss   *)
(* but that of the events it holds when the process is killed.             *)
(***************************************************************************)
EXTENDS EventUploader, BufferedEventBatch, FiniteSetTheorems, NaturalsInduction, WellFoundedInduction,
        SequenceTheorems, TLAPS

-----------------------------------------------------------------------------
(* Folds of the community modules over 1..n *)

\* Induction for a set of numbers.
LEMMA Climb ==
    ASSUME NEW n \in Nat, NEW T, 0 \in T, \A k \in 1..n : k - 1 \in T => k \in T
    PROVE  \A k \in 0..n : k \in T
<1> DEFINE U == {k \in 0..n : k \notin T}
<1> SUFFICES ASSUME U # {} PROVE FALSE
  OBVIOUS
<1>1. U \in SUBSET Nat
  OBVIOUS
<1>2. PICK x \in U : \A y \in U : ~(y < x)
  <2>1. \E x \in U : \A y \in U : <<y, x>> \notin OpToRel(<, Nat)
    BY <1>1, NatLessThanWellFounded, WFMin, Zenon
  <2>2. \A x, y \in Nat : x < y => <<x, y>> \in OpToRel(<, Nat)
    BY Zenon DEF OpToRel
  <2> QED BY <1>1, <2>1, <2>2, Zenon
<1>3. x \in 1..n /\ x \notin T
  BY <1>2
<1>4. x - 1 \notin U /\ x - 1 \in 0..n
  BY <1>2, <1>3
<1>5. x - 1 \in T
  BY <1>4
<1> QED BY <1>3, <1>5

\* A function defined by recursion on its argument exists.
IsStep(n, V, G) == G \in [(1..n) \X V -> V]
IsChain(f, n, V, b, G) ==
    f \in [0..n -> V] /\ f[0] = b /\ \A k \in 1..n : f[k] = G[<<k, f[k - 1]>>]

\* A function whose value at k is computed from its value at k - 1 exists.
LEMMA Recursion ==
    ASSUME NEW n \in Nat, NEW V, NEW b \in V, NEW G, IsStep(n, V, G)
    PROVE  \E f : IsChain(f, n, V, b, G)
<1> USE DEF IsStep
<1> DEFINE Good(m) == {f \in [0..m -> V] : f[0] = b /\ \A k \in 1..m : f[k] = G[<<k, f[k - 1]>>]}
           T == {m \in 0..n : Good(m) # {}}
<1>1. 0 \in T
  <2>1. [k \in 0..0 |-> b] \in Good(0)
    OBVIOUS
  <2> QED BY <2>1
<1>2. ASSUME NEW m \in 1..n, m - 1 \in T PROVE m \in T
  <2>1. PICK f : f \in Good(m - 1)
    BY <1>2
  <2>2. f \in [0..(m - 1) -> V] /\ f[0] = b /\ \A k \in 1..(m - 1) : f[k] = G[<<k, f[k - 1]>>]
    BY <2>1
  <2> DEFINE v == G[<<m, f[m - 1]>>]
             h == [k \in 0..m |-> IF k = m THEN v ELSE f[k]]
  <2>3. v \in V
    <3>1. f[m - 1] \in V
      BY <2>2
    <3>2. <<m, f[m - 1]>> \in (1..n) \X V
      BY <3>1
    <3> QED BY <3>2
  <2>4. \A k \in 1..(m - 1) : k \in 0..m /\ k - 1 \in 0..m /\ k # m /\ k - 1 # m /\ k \in 0..(m - 1) /\ k - 1 \in 0..(m - 1)
    OBVIOUS
  <2>5. h \in [0..m -> V]
    <3> HIDE DEF v
    <3>1. \A k \in 0..m : k # m => k \in 0..(m - 1)
      OBVIOUS
    <3> QED BY <2>2, <2>3, <3>1
  <2>6. h[0] = b /\ h[m] = v /\ h[m - 1] = f[m - 1]
    <3>1. 0 \in 0..m /\ m - 1 \in 0..m /\ m \in 0..m /\ 0 # m /\ m - 1 # m
      OBVIOUS
    <3> HIDE DEF v
    <3> QED BY <2>2, <3>1
  <2>7. \A k \in 1..m : h[k] = G[<<k, h[k - 1]>>]
    <3> SUFFICES ASSUME NEW k \in 1..m PROVE h[k] = G[<<k, h[k - 1]>>]
      OBVIOUS
    <3>1. CASE k = m
      <4> HIDE DEF h
      <4> QED BY <3>1, <2>6
    <3>2. CASE k # m
      <4>1. k \in 1..(m - 1)
        BY <3>2
      <4>2. h[k] = f[k] /\ h[k - 1] = f[k - 1]
        <5> HIDE DEF v
        <5> QED BY <4>1, <2>4
      <4> QED BY <4>1, <4>2, <2>2
    <3> QED BY <3>1, <3>2
  <2>8. h \in Good(m)
    <3> HIDE DEF h
    <3> QED BY <2>5, <2>6, <2>7
  <2>9. Good(m) # {} /\ m \in 0..n
    <3> HIDE DEF Good
    <3> QED BY <2>8
  <2> HIDE DEF Good
  <2> QED BY <2>9
<1>3. n \in T
  <2> HIDE DEF T
  <2>1. \A k \in 0..n : k \in T
    BY <1>1, <1>2, Climb
  <2> QED BY <2>1
<1> QED BY <1>3 DEF IsChain

\* Max is the greatest element of a set of indices.
LEMMA Greatest ==
    ASSUME NEW n \in Nat, NEW s \in SUBSET (1..n), s # {}
    PROVE  Max(s) \in s /\ \A y \in s : Max(s) >= y
<1>1. PICK x \in s : \A y \in s : x >= y
  <2> SUFFICES ASSUME \A x \in s : \E y \in s : ~(x >= y) PROVE FALSE
    OBVIOUS
  <2> DEFINE W == {k \in 0..n : \A x \in s : x <= n - k}
  <2>1. 0 \in W
    OBVIOUS
  <2>2. \A k \in 1..n : k - 1 \in W => k \in W
    <3> SUFFICES ASSUME NEW k \in 1..n, k - 1 \in W PROVE k \in W
      OBVIOUS
    <3>1. \A x \in s : x \in Int /\ x <= n - k + 1
      OBVIOUS
    <3>2. n - k + 1 \notin s
      BY <3>1
    <3> QED BY <3>1, <3>2
  <2>3. \A k \in W : k \in 0..n /\ \A x \in s : x <= n - k
    OBVIOUS
  <2> HIDE DEF W
  <2>4. n \in W
    <3>1. \A k \in 0..n : k \in W
      BY <2>1, <2>2, Climb
    <3> QED BY <3>1
  <2>5. \A x \in s : x <= n - n
    BY <2>3, <2>4
  <2>6. PICK x : x \in s
    OBVIOUS
  <2>7. x \in 1..n /\ x <= n - n
    BY <2>5, <2>6
  <2> QED BY <2>7
<1> QED BY <1>1 DEF Max

\* The function the library's folds are defined by exists, and its values at the first k
\* indices follow each other.
IsFold(f, n, V, b, G) ==
    /\ f \in [SUBSET (1..n) -> V]
    /\ f = [s \in SUBSET (1..n) |-> IF s = {} THEN b ELSE G[<<Max(s), f[s \ {Max(s)}]>>]]

\* It exists for every step G, whatever the number of indices.
LEMMA Fold ==
    ASSUME NEW n \in Nat, NEW V, NEW b \in V, NEW G, IsStep(n, V, G)
    PROVE  \E f : IsFold(f, n, V, b, G)
<1> USE DEF IsStep
<1> DEFINE Dom(k) == {s \in SUBSET (1..n) : \A i \in s : i <= k}
           Val(f, s) == IF s = {} THEN b ELSE G[<<Max(s), f[s \ {Max(s)}]>>]
           Good(k) == {f \in [Dom(k) -> V] : \A s \in Dom(k) : f[s] = Val(f, s)}
           T == {k \in 0..n : Good(k) # {}}
<1>1. \A s \in SUBSET (1..n) : s # {} => Max(s) \in s /\ \A y \in s : Max(s) >= y
  BY Greatest
<1>2. \A k \in 0..n : {} \in Dom(k)
  OBVIOUS
<1>3. \A k \in 1..n : \A s \in Dom(k) : s # {} => s \ {Max(s)} \in Dom(k - 1) /\ Max(s) \in 1..n
  <2> SUFFICES ASSUME NEW k \in 1..n, NEW s \in Dom(k), s # {}
               PROVE  s \ {Max(s)} \in Dom(k - 1) /\ Max(s) \in 1..n
    OBVIOUS
  <2>1. PICK m : m = Max(s)
    OBVIOUS
  <2>2. m \in s /\ \A y \in s : m >= y
    BY <1>1, <2>1
  <2>3. \A i \in s \ {m} : i <= k - 1
    BY <2>2
  <2> QED BY <2>1, <2>2, <2>3
<1>4. \A k \in 1..n : Dom(k - 1) \subseteq Dom(k)
  OBVIOUS
<1>5. Dom(0) = {{}}
  OBVIOUS
<1>6. Dom(n) = SUBSET (1..n)
  OBVIOUS
<1> HIDE DEF Dom
<1>7. 0 \in T
  <2>1. [s \in Dom(0) |-> b] \in Good(0)
    BY <1>5
  <2> HIDE DEF Good
  <2> QED BY <2>1
<1>8. ASSUME NEW k \in 1..n, k - 1 \in T PROVE k \in T
  <2>1. PICK f : f \in Good(k - 1)
    BY <1>8
  <2>2. f \in [Dom(k - 1) -> V] /\ \A s \in Dom(k - 1) : f[s] = Val(f, s)
    BY <2>1
  <2> DEFINE h == [s \in Dom(k) |-> Val(f, s)]
  <2>3. \A s \in Dom(k) : Val(f, s) \in V
    <3> SUFFICES ASSUME NEW s \in Dom(k), s # {} PROVE G[<<Max(s), f[s \ {Max(s)}]>>] \in V
      OBVIOUS
    <3>1. f[s \ {Max(s)}] \in V /\ Max(s) \in 1..n
      BY <1>3, <2>2
    <3>2. PICK p : p = <<Max(s), f[s \ {Max(s)}]>>
      OBVIOUS
    <3>3. p \in (1..n) \X V
      BY <3>1, <3>2
    <3> QED BY <3>2, <3>3
  <2>4. \A s \in Dom(k - 1) : h[s] = f[s]
    <3> HIDE DEF Val
    <3> QED BY <1>4, <2>2
  <2>5. \A s \in Dom(k) : h[s] = Val(h, s)
    <3> SUFFICES ASSUME NEW s \in Dom(k) PROVE h[s] = Val(h, s)
      OBVIOUS
    <3>1. h[s] = Val(f, s)
      BY Zenon DEF h
    <3>2. Val(h, s) = Val(f, s)
      <4>1. s # {} => h[s \ {Max(s)}] = f[s \ {Max(s)}]
        <5> HIDE DEF h
        <5> QED BY <1>3, <2>4
      <4> HIDE DEF h
      <4> QED BY <4>1
    <3> QED BY <3>1, <3>2, Zenon
  <2>6. h \in [Dom(k) -> V]
    <3> HIDE DEF Val
    <3> QED BY <2>3
  <2>7. h \in Good(k)
    <3> HIDE DEF h, Val
    <3> QED BY <2>5, <2>6
  <2>8. Good(k) # {} /\ k \in 0..n
    <3> HIDE DEF Good
    <3> QED BY <2>7
  <2> HIDE DEF Good
  <2> QED BY <2>8
<1>9. n \in T
  <2> HIDE DEF T
  <2>1. \A k \in 0..n : k \in T
    BY <1>7, <1>8, Climb
  <2> QED BY <2>1
<1>10. PICK f : f \in Good(n)
  <2> HIDE DEF Good
  <2> QED BY <1>9
<1>11. f \in [SUBSET (1..n) -> V] /\ \A s \in SUBSET (1..n) : f[s] = Val(f, s)
  BY <1>6, <1>10
<1>12. f = [s \in SUBSET (1..n) |-> Val(f, s)]
  <2> HIDE DEF Val
  <2> QED BY <1>11
<1> QED BY <1>11, <1>12 DEF IsFold

-----------------------------------------------------------------------------
(* The size of a list of events *)

\* A fold over a sequence goes through its elements in order: here the total size.
LEMMA SizeFold ==
    ASSUME NEW ev \in Seq(Events)
    PROVE  \E f \in [0..Len(ev) -> Nat] :
              /\ f[0] = 0 /\ \A k \in 1..Len(ev) : f[k] = f[k - 1] + Size[ev[k]]
              /\ TotalSize(ev) = f[Len(ev)]
<1>1. PICK n \in Nat : n = Len(ev)
  OBVIOUS
<1> DEFINE G == [p \in (1..n) \X Nat |-> p[2] + Size[ev[p[1]]]]
           Step(e, s) == e[s \ {Max(s)}] + Size[ev[Max(s)]]
           it == CHOOSE e : e = [s \in SUBSET (1..n) |-> IF s = {} THEN 0 ELSE Step(e, s)]
<1>2. \A k \in 1..n : Size[ev[k]] \in Nat
  BY <1>1, SizeAssumption
<1>3. G \in [(1..n) \X Nat -> Nat]
  BY <1>2
<1>4. \A k \in 1..n, v \in Nat : G[<<k, v>>] = v + Size[ev[k]]
  OBVIOUS
<1>5. \A s \in SUBSET (1..n) : s # {} => Max(s) \in 1..n /\ s \ {Max(s)} \in SUBSET (1..n)
  BY Greatest
<1> HIDE DEF G
<1>6. PICK h : IsFold(h, n, Nat, 0, G)
  <2>1. 0 \in Nat /\ IsStep(n, Nat, G)
    BY <1>3 DEF IsStep
  <2> QED BY <2>1, <1>1, Fold
<1>7. \A s \in SUBSET (1..n) : h[s] = IF s = {} THEN 0 ELSE Step(h, s)
  BY <1>4, <1>5, <1>6 DEF IsFold
<1>8. h = [s \in SUBSET (1..n) |-> IF s = {} THEN 0 ELSE Step(h, s)]
  <2> HIDE DEF Step
  <2> QED BY <1>6, <1>7 DEF IsFold
<1>9. it = [s \in SUBSET (1..n) |-> IF s = {} THEN 0 ELSE Step(it, s)]
  BY <1>8
<1>10. TotalSize(ev) = it[1..n]
  <2>1. DOMAIN ev = 1..n
    BY <1>1
  <2> QED BY <2>1 DEF TotalSize, FoldLeft, MapThenFoldSet
<1> HIDE DEF it
<1>11. it[{}] = 0
  BY <1>9
<1>12. \A s \in SUBSET (1..n) : s # {} => it[s] = Step(it, s)
  BY <1>9
<1> DEFINE f == [k \in 0..n |-> it[1..k]]
<1>13. f[0] = 0
  <2>1. 1..0 = {}
    OBVIOUS
  <2> QED BY <2>1, <1>11
<1>14. \A k \in 1..n : f[k] = f[k - 1] + Size[ev[k]]
  <2> SUFFICES ASSUME NEW k \in 1..n PROVE f[k] = f[k - 1] + Size[ev[k]]
    OBVIOUS
  <2>1. /\ 1..k \in SUBSET (1..n)
        /\ k \in 1..k /\ k - 1 \in 0..n /\ k \in 0..n
    OBVIOUS
  <2>2. Max(1..k) = k
    <3>1. PICK s \in SUBSET (1..n) : s = 1..k
      BY <2>1
    <3>2. PICK m : m = Max(s)
      OBVIOUS
    <3>3. m \in s /\ \A y \in s : m >= y
      BY <2>1, <3>1, <3>2, Greatest, Zenon
    <3>4. m = k
      BY <2>1, <3>1, <3>3
    <3> QED BY <3>1, <3>2, <3>4
  <2>3. (1..k) \ {k} = 1..(k - 1)
    OBVIOUS
  <2>4. it[1..k] = it[1..(k - 1)] + Size[ev[k]]
    BY <1>12, <2>1, <2>2, <2>3
  <2> QED BY <2>1, <2>4
<1>15. f \in [0..n -> Nat]
  <2> DEFINE T == {k \in 0..n : f[k] \in Nat}
  <2>1. 0 \in T
    <3> HIDE DEF f
    <3> QED BY <1>13
  <2>2. \A k \in 1..n : k - 1 \in T => k \in T
    <3> HIDE DEF f
    <3> QED BY <1>14, <1>2
  <2> HIDE DEF T
  <2>3. \A k \in 0..n : k \in T
    BY <2>1, <2>2, Climb
  <2>4. \A k \in 0..n : f[k] \in Nat
    BY <2>3 DEF T
  <2> QED BY <2>4
<1>16. TotalSize(ev) = f[n]
  BY <1>10
<1> HIDE DEF f
<1> QED BY <1>1, <1>13, <1>14, <1>15, <1>16

\* The size of a sequence of events, one by one.
LEMMA SizeOf ==
    /\ TotalSize(<<>>) = 0
    /\ \A ev \in Seq(Events) : TotalSize(ev) \in Nat
    /\ \A ev \in Seq(Events), e \in Events :
          TotalSize(Append(ev, e)) = TotalSize(ev) + Size[e]
<1>1. TotalSize(<<>>) = 0
  <2>1. <<>> \in Seq(Events) /\ Len(<<>>) = 0
    OBVIOUS
  <2> QED BY <2>1, SizeFold
<1>2. \A ev \in Seq(Events) : TotalSize(ev) \in Nat
  <2> SUFFICES ASSUME NEW ev \in Seq(Events) PROVE TotalSize(ev) \in Nat
    OBVIOUS
  <2>1. Len(ev) \in 0..Len(ev)
    OBVIOUS
  <2> QED BY <2>1, SizeFold
<1>3. ASSUME NEW ev \in Seq(Events), NEW e \in Events
      PROVE  TotalSize(Append(ev, e)) = TotalSize(ev) + Size[e]
  <2>1. PICK n \in Nat : n = Len(ev)
    OBVIOUS
  <2>2. PICK f \in [0..n -> Nat] :
              /\ f[0] = 0 /\ \A k \in 1..n : f[k] = f[k - 1] + Size[ev[k]]
              /\ TotalSize(ev) = f[n]
    BY <2>1, SizeFold
  <2>3. PICK l \in Seq(Events) : l = Append(ev, e)
    OBVIOUS
  <2>4. Len(l) = n + 1 /\ l[n + 1] = e /\ \A k \in 1..n : l[k] = ev[k]
    BY <2>1, <2>3
  <2>5. PICK g \in [0..(n + 1) -> Nat] :
              /\ g[0] = 0 /\ \A k \in 1..(n + 1) : g[k] = g[k - 1] + Size[l[k]]
              /\ TotalSize(l) = g[n + 1]
    BY <2>4, SizeFold
  <2>6. \A k \in 1..n : g[k - 1] = f[k - 1] => g[k] = f[k]
    <3> SUFFICES ASSUME NEW k \in 1..n, g[k - 1] = f[k - 1] PROVE g[k] = f[k]
      OBVIOUS
    <3>1. k \in 1..(n + 1)
      OBVIOUS
    <3>2. g[k] = g[k - 1] + Size[l[k]] /\ f[k] = f[k - 1] + Size[ev[k]] /\ l[k] = ev[k]
      BY <3>1, <2>2, <2>4, <2>5
    <3> QED BY <3>2
  <2>7. \A k \in 0..n : g[k] = f[k]
    <3>1. g[0] = f[0]
      BY <2>2, <2>5
    <3> DEFINE T == {k \in 0..n : g[k] = f[k]}
    <3>2. 0 \in T /\ \A k \in 1..n : k - 1 \in T => k \in T
      BY <2>6, <3>1
    <3> HIDE DEF T
    <3>3. \A k \in 0..n : k \in T
      BY <3>2, Climb
    <3> QED BY <3>3 DEF T
  <2>8. g[n + 1] = g[n] + Size[l[n + 1]] /\ g[n] = f[n]
    <3>1. n + 1 \in 1..(n + 1) /\ (n + 1) - 1 = n /\ n \in 0..n
      OBVIOUS
    <3> QED BY <3>1, <2>5, <2>7
  <2> QED BY <2>2, <2>3, <2>4, <2>5, <2>8
<1> QED BY <1>1, <1>2, <1>3

\* Events take room: a prefix that is as large as the whole is the whole.
LEMMA SizeOfPrefix ==
    ASSUME NEW ev \in Seq(Events), NEW n \in 0..Len(ev)
    PROVE  /\ TotalSize(SubSeq(ev, 1, n)) \in Nat
           /\ TotalSize(SubSeq(ev, 1, n)) = TotalSize(ev) => n = Len(ev)
<1>1. PICK N \in Nat : N = Len(ev)
  OBVIOUS
<1> DEFINE f == [k \in 0..N |-> TotalSize(SubSeq(ev, 1, k))]
<1>2. \A k \in 0..N : SubSeq(ev, 1, k) \in Seq(Events)
  BY <1>1
<1>3. \A k \in 0..N : f[k] \in Nat
  BY <1>2, SizeOf
<1>4. \A k \in 1..N : f[k] > f[k - 1]
  <2> SUFFICES ASSUME NEW k \in 1..N PROVE f[k] > f[k - 1]
    OBVIOUS
  <2>0. k - 1 \in 0..N
    OBVIOUS
  <2>1. PICK p \in Seq(Events) : p = SubSeq(ev, 1, k - 1)
    BY <1>2, <2>0
  <2>2. SubSeq(ev, 1, k) = Append(p, ev[k]) /\ ev[k] \in Events
    BY <1>1, <2>1
  <2>3. TotalSize(Append(p, ev[k])) = TotalSize(p) + Size[ev[k]]
    BY <2>2, SizeOf
  <2>4. Size[ev[k]] \in Nat /\ Size[ev[k]] > 0 /\ TotalSize(p) \in Nat
    BY <2>2, SizeAssumption, SizeOf
  <2>5. f[k] = TotalSize(Append(p, ev[k])) /\ f[k - 1] = TotalSize(p)
    BY <2>1, <2>2, SMTT(60)
  <2> HIDE DEF f
  <2> QED BY <2>3, <2>4, <2>5
<1>5. f[N] = TotalSize(ev) /\ f[n] = TotalSize(SubSeq(ev, 1, n))
  <2>1. SubSeq(ev, 1, N) = ev
    BY <1>1
  <2>2. N \in 0..N /\ n \in 0..N
    BY <1>1
  <2> QED BY <2>1, <2>2
<1> HIDE DEF f
<1> DEFINE T == {j \in 0..(N - n) : j > 0 => f[n + j] > f[n]}
<1>6. 0 \in T
  BY <1>1
<1>7. \A j \in 1..(N - n) : j - 1 \in T => j \in T
  <2> SUFFICES ASSUME NEW j \in 1..(N - n), j - 1 \in T PROVE j \in T
    OBVIOUS
  <2>1. n + j \in 1..N /\ (n + j) - 1 = n + (j - 1) /\ n + j \in 0..N /\ n + (j - 1) \in 0..N /\ n \in 0..N
    BY <1>1
  <2>2. f[n + j] > f[n + (j - 1)] /\ f[n + j] \in Nat /\ f[n + (j - 1)] \in Nat /\ f[n] \in Nat
    BY <2>1, <1>3, <1>4
  <2>3. j - 1 = 0 => f[n + (j - 1)] = f[n]
    BY <2>1
  <2> QED BY <2>2, <2>3
<1>8. \A j \in T : j > 0 => f[n + j] > f[n]
  OBVIOUS
<1> HIDE DEF T
<1>9. N - n \in T
  <2>1. N - n \in Nat
    BY <1>1
  <2>2. \A j \in 0..(N - n) : j \in T
    BY <1>6, <1>7, <2>1, Climb
  <2> QED BY <2>1, <2>2
<1>10. n # N => f[N] > f[n]
  <2>1. N - n \in Nat /\ n + (N - n) = N /\ (n # N => N - n > 0)
    BY <1>1
  <2> QED BY <1>8, <1>9, <2>1
<1>11. f[N] \in Nat /\ f[n] \in Nat
  BY <1>1, <1>3
<1> QED BY <1>1, <1>5, <1>10, <1>11

-----------------------------------------------------------------------------
(* Joining the contents of files *)

\* The contents of a file.
Files == Seq(Events)

\* FlattenSeq, file by file.
IsFlatten(f, ss) ==
    /\ f \in [0..Len(ss) -> Files]
    /\ f[0] = <<>> /\ \A k \in 1..Len(ss) : f[k] = f[k - 1] \o ss[k]
    /\ FlattenSeq(ss) = f[Len(ss)]

\* The function FlattenSeq is defined by exists.
LEMMA FlattenFold ==
    ASSUME NEW ss \in Seq(Files)
    PROVE  \E f : IsFlatten(f, ss)
<1>1. PICK n \in Nat : n = Len(ss)
  OBVIOUS
<1> DEFINE G == [p \in (1..n) \X Files |-> p[2] \o ss[p[1]]]
<1>2. \A k \in 1..n : ss[k] \in Files
  BY <1>1
<1>3. \A v, w \in Files : v \o w \in Files
  BY DEF Files
<1>3a. <<>> \in Files
  BY DEF Files
<1>3b. \A v \in Files : <<>> \o v = v
  BY DEF Files
<1>4. IsStep(n, Files, G)
  BY <1>2, <1>3 DEF IsStep
<1>5. PICK h : IsChain(h, n, Files, <<>>, G)
  BY <1>1, <1>3a, <1>4, Recursion
<1>6. h \in [0..n -> Files] /\ h[0] = <<>>
  BY <1>5 DEF IsChain
<1>7. \A k \in 1..n : h[k] = h[k - 1] \o ss[k]
  <2> SUFFICES ASSUME NEW k \in 1..n PROVE h[k] = h[k - 1] \o ss[k]
    OBVIOUS
  <2>1. h[k] = G[<<k, h[k - 1]>>]
    BY <1>5 DEF IsChain
  <2>2. h[k - 1] \in Files
    BY <1>6
  <2> QED BY <2>1, <2>2
<1> HIDE DEF G
<1>8. CASE n = 0
  <2>1. FlattenSeq(ss) = <<>>
    <3>0. Len(ss) = 0
      BY <1>1, <1>8
    <3>1. ss = <<>>
      BY <3>0
    <3> QED BY <3>0, <3>1 DEF FlattenSeq
  <2>2. IsFlatten(h, ss)
    BY <1>1, <1>6, <1>7, <1>8, <2>1 DEF IsFlatten
  <2> QED BY <2>2
<1>9. CASE n # 0
  <2> DEFINE Val(e, i) == IF i = 1 THEN ss[i] ELSE e[i - 1] \o ss[i]
             it == CHOOSE e : e = [i \in 1..n |-> Val(e, i)]
             g == [i \in 1..n |-> h[i]]
  <2>1. \A i \in 1..n : g[i] = Val(g, i)
    <3> SUFFICES ASSUME NEW i \in 1..n PROVE g[i] = Val(g, i)
      OBVIOUS
    <3>1. CASE i = 1
      <4>1. h[1] = h[0] \o ss[1] /\ ss[1] \in Files
        <5>1. 1 \in 1..n /\ 1 - 1 = 0
          BY <3>1
        <5>2. h[1] = h[1 - 1] \o ss[1]
          BY <5>1, <1>7
        <5> QED BY <5>1, <5>2, <1>2
      <4>2. h[1] = ss[1]
        BY <4>1, <1>6, <1>3b
      <4> QED BY <3>1, <4>2
    <3>2. CASE i # 1
      <4>1. i - 1 \in 1..n
        BY <3>2
      <4> QED BY <1>7, <3>2, <4>1
    <3> QED BY <3>1, <3>2
  <2>2. g = [i \in 1..n |-> Val(g, i)]
    <3> HIDE DEF Val
    <3> QED BY <2>1
  <2>3. it = [i \in 1..n |-> Val(it, i)]
    <3> HIDE DEF g, Val
    <3> QED BY <2>2
  <2>4. FlattenSeq(ss) = it[n]
    <3>1. Len(ss) # 0
      BY <1>1, <1>9
    <3> QED BY <3>1, <1>1 DEF FlattenSeq
  <2> HIDE DEF it
  <2> DEFINE T == {k \in 0..n : k > 0 => it[k] = h[k]}
  <2>5. 0 \in T
    OBVIOUS
  <2>6. \A k \in 1..n : k - 1 \in T => k \in T
    <3> SUFFICES ASSUME NEW k \in 1..n, k - 1 \in T PROVE it[k] = h[k]
      OBVIOUS
    <3>1. it[k] = Val(it, k)
      BY <2>3
    <3>2. h[k] = Val(g, k)
      <4>1. g[k] = h[k]
        OBVIOUS
      <4> QED BY <4>1, <2>1
    <3>3. k # 1 => it[k - 1] = h[k - 1] /\ g[k - 1] = h[k - 1]
      OBVIOUS
    <3> HIDE DEF g, T
    <3> QED BY <3>1, <3>2, <3>3
  <2>7. n \in T
    <3> HIDE DEF T
    <3>1. \A k \in 0..n : k \in T
      BY <1>1, <2>5, <2>6, Climb
    <3> QED BY <1>1, <3>1
  <2>8. it[n] = h[n]
    BY <2>7, <1>9, <1>1
  <2>9. IsFlatten(h, ss)
    BY <1>1, <1>6, <1>7, <2>4, <2>8 DEF IsFlatten
  <2> QED BY <2>9
<1> QED BY <1>1, <1>8, <1>9

\* FlattenSeq one file at a time: what is appended to the list of files is appended to the events.
LEMMA Flatten ==
    /\ FlattenSeq(<<>>) = <<>>
    /\ \A ss \in Seq(Files) : FlattenSeq(ss) \in Files
    /\ \A ss \in Seq(Files), t \in Files :
          FlattenSeq(Append(ss, t)) = FlattenSeq(ss) \o t
<1>1. FlattenSeq(<<>>) = <<>>
  BY DEF FlattenSeq
<1>2. ASSUME NEW ss \in Seq(Files) PROVE FlattenSeq(ss) \in Files
  <2>1. PICK f : IsFlatten(f, ss)
    BY FlattenFold
  <2>2. Len(ss) \in 0..Len(ss)
    OBVIOUS
  <2> QED BY <2>1, <2>2 DEF IsFlatten
<1>3. ASSUME NEW ss \in Seq(Files), NEW t \in Files
      PROVE  FlattenSeq(Append(ss, t)) = FlattenSeq(ss) \o t
  <2>1. PICK n \in Nat : n = Len(ss)
    OBVIOUS
  <2>2. PICK f : IsFlatten(f, ss)
    BY FlattenFold
  <2>3. PICK l : l = Append(ss, t) /\ l \in Seq(Files)
    <3>1. Append(ss, t) \in Seq(Files)
      OBVIOUS
    <3> QED BY <3>1
  <2>4. Len(l) = n + 1 /\ l[n + 1] = t /\ \A k \in 1..n : l[k] = ss[k]
    BY <2>1, <2>3
  <2>5. PICK g : IsFlatten(g, l)
    BY <2>3, FlattenFold
  <2>5a. f[0] = <<>> /\ (\A k \in 1..n : f[k] = f[k - 1] \o ss[k]) /\ FlattenSeq(ss) = f[n]
    BY <2>1, <2>2 DEF IsFlatten
  <2>5b. g[0] = <<>> /\ (\A k \in 1..(n + 1) : g[k] = g[k - 1] \o l[k]) /\ FlattenSeq(l) = g[n + 1]
    BY <2>4, <2>5 DEF IsFlatten
  <2>6. \A k \in 1..n : g[k - 1] = f[k - 1] => g[k] = f[k]
    <3> SUFFICES ASSUME NEW k \in 1..n, g[k - 1] = f[k - 1] PROVE g[k] = f[k]
      OBVIOUS
    <3>1. k \in 1..(n + 1)
      OBVIOUS
    <3>2. g[k] = g[k - 1] \o l[k] /\ f[k] = f[k - 1] \o ss[k] /\ l[k] = ss[k]
      BY <3>1, <2>5a, <2>4, <2>5b
    <3> QED BY <3>2
  <2>7. \A k \in 0..n : g[k] = f[k]
    <3> DEFINE T == {k \in 0..n : g[k] = f[k]}
    <3>2. 0 \in T /\ \A k \in 1..n : k - 1 \in T => k \in T
      BY <2>5a, <2>5b, <2>6
    <3> HIDE DEF T
    <3>3. \A k \in 0..n : k \in T
      BY <2>1, <3>2, Climb
    <3> QED BY <3>3 DEF T
  <2>8. g[n + 1] = g[n] \o l[n + 1] /\ g[n] = f[n]
    <3>1. n + 1 \in 1..(n + 1) /\ (n + 1) - 1 = n /\ n \in 0..n
      OBVIOUS
    <3>2. g[n + 1] = g[(n + 1) - 1] \o l[n + 1]
      BY <2>5b, <3>1
    <3> QED BY <3>1, <3>2, <2>7
  <2> QED BY <2>5a, <2>3, <2>4, <2>5b, <2>8
<1> QED BY <1>1, <1>2, <1>3

\* The events of two lists of files, one behind the other.
LEMMA FlattenConcat ==
    ASSUME NEW a \in Seq(Files), NEW b \in Seq(Files)
    PROVE  FlattenSeq(a \o b) = FlattenSeq(a) \o FlattenSeq(b)
<1>1. PICK n \in Nat : n = Len(b)
  OBVIOUS
<1> DEFINE p(k) == SubSeq(b, 1, k)
           T == {k \in 0..n : FlattenSeq(a \o p(k)) = FlattenSeq(a) \o FlattenSeq(p(k))}
<1>2. \A ss \in Seq(Files) : FlattenSeq(ss) \in Files
  BY Flatten
<1>2a. \A ss \in Seq(Files), t \in Files : FlattenSeq(Append(ss, t)) = FlattenSeq(ss) \o t
  BY Flatten
<1>2b. FlattenSeq(<<>>) = <<>>
  BY Flatten
<1>2c. \A u, v, w \in Files : (u \o v) \o w = u \o (v \o w)
  BY DEF Files
<1>2d. \A v \in Files : v \o <<>> = v
  BY DEF Files
<1>2e. b \in Seq(Files) /\ a \in Seq(Files)
  OBVIOUS
<1>3. 0 \in T
  <2>1. p(0) = <<>> /\ a \o p(0) = a
    BY <1>2e
  <2> HIDE DEF p
  <2>2. FlattenSeq(a \o p(0)) = FlattenSeq(a) \o FlattenSeq(p(0))
    BY <2>1, <1>2, <1>2b, <1>2d, <1>2e
  <2>3. 0 \in 0..n
    BY <1>1
  <2> QED BY <2>2, <2>3
<1>4. ASSUME NEW k \in 1..n, k - 1 \in T PROVE k \in T
  <2>1. PICK q : q = p(k - 1) /\ q \in Seq(Files)
    <3>1. k - 1 \in 0..Len(b)
      BY <1>1
    <3>2. SubSeq(b, 1, k - 1) \in Seq(Files)
      BY <3>1
    <3> QED BY <3>2
  <2>2. PICK t : t = b[k] /\ t \in Files
    BY <1>1, <1>2e
  <2>3. p(k) = Append(q, t)
    <3>1. k \in 1..Len(b)
      BY <1>1
    <3>2. SubSeq(b, 1, k) = Append(SubSeq(b, 1, k - 1), b[k])
      BY <3>1
    <3> QED BY <3>2, <2>1, <2>2
  <2>4. a \o p(k) = Append(a \o q, t) /\ a \o q \in Seq(Files)
    BY <1>2e, <2>1, <2>2, <2>3
  <2>5. FlattenSeq(a \o q) = FlattenSeq(a) \o FlattenSeq(q)
    BY <1>4, <2>1
  <2> HIDE DEF p
  <2>6. FlattenSeq(a \o p(k)) = FlattenSeq(a \o q) \o t /\ FlattenSeq(p(k)) = FlattenSeq(q) \o t
    BY <1>2a, <2>1, <2>2, <2>3, <2>4
  <2>7. FlattenSeq(a) \in Files /\ FlattenSeq(q) \in Files
    BY <1>2, <1>2e, <2>1
  <2>8. (FlattenSeq(a) \o FlattenSeq(q)) \o t = FlattenSeq(a) \o (FlattenSeq(q) \o t)
    BY <1>2c, <2>2, <2>7
  <2>9. FlattenSeq(a \o p(k)) = FlattenSeq(a) \o FlattenSeq(p(k))
    BY <2>5, <2>6, <2>8
  <2> QED BY <2>9
<1>5. n \in T
  <2> HIDE DEF T
  <2>1. \A k \in 0..n : k \in T
    BY <1>1, <1>3, <1>4, Climb
  <2> QED BY <1>1, <2>1
<1>6. p(n) = b
  BY <1>1, <1>2e
<1> HIDE DEF p
<1> QED BY <1>5, <1>6

\* Empty files add nothing.
LEMMA FlattenEmpty ==
    ASSUME NEW a \in Seq(Files), \A i \in 1..Len(a) : a[i] = <<>>
    PROVE  FlattenSeq(a) = <<>>
<1>0. PICK f : IsFlatten(f, a)
  BY FlattenFold
<1>1. f[0] = <<>> /\ (\A k \in 1..Len(a) : f[k] = f[k - 1] \o a[k]) /\ FlattenSeq(a) = f[Len(a)]
  BY <1>0 DEF IsFlatten
<1> DEFINE T == {k \in 0..Len(a) : f[k] = <<>>}
<1>2. 0 \in T
  BY <1>1
<1>3. ASSUME NEW k \in 1..Len(a), k - 1 \in T PROVE k \in T
  <2>1. f[k] = <<>> \o <<>>
    BY <1>1, <1>3
  <2> QED BY <2>1
<1>4. Len(a) \in Nat /\ Len(a) \in 0..Len(a)
  OBVIOUS
<1>5. Len(a) \in T
  <2> HIDE DEF T
  <2>1. \A k \in 0..Len(a) : k \in T
    BY <1>2, <1>3, <1>4, Climb
  <2> QED BY <1>4, <2>1
<1> QED BY <1>1, <1>5

-----------------------------------------------------------------------------
(* The contents of a storage, file by file *)

\* The directory, the contents of a file by id, and of the files of a list.
Disks == UNION {[D -> Files] : D \in SUBSET Nat}
At(d, i) == IF i \in DOMAIN d THEN d[i] ELSE <<>>
All(d, ids) == [k \in 1..Len(ids) |-> At(d, ids[k])]
Cat(d, ids) == FlattenSeq(All(d, ids))

\* The contents of files can be appended to and joined.
LEMMA FilesClosed ==
    /\ <<>> \in Files
    /\ \A v, w \in Files : v \o w \in Files
    /\ \A v \in Files, e \in Events : Append(v, e) \in Files
    /\ \A v \in Files : v \o <<>> = v /\ <<>> \o v = v
    /\ \A u, v, w \in Files : (u \o v) \o w = u \o (v \o w)
<1>1. <<>> \in Files
  BY DEF Files
<1>2. \A v, w \in Files : v \o w \in Files
  BY DEF Files
<1>3. \A v \in Files, e \in Events : Append(v, e) \in Files
  BY DEF Files
<1>4. \A v \in Files : v \o <<>> = v /\ <<>> \o v = v
  BY DEF Files
<1>5. \A u, v, w \in Files : (u \o v) \o w = u \o (v \o w)
  BY DEF Files
<1> QED BY <1>1, <1>2, <1>3, <1>4, <1>5

\* Joined sequences hold their events in the same order however they are grouped.
Grouped(x, y, z) == (x \o y) \o z = x \o (y \o z)

\* Concatenation is associative.
LEMMA Regroup ==
    ASSUME NEW x \in Files, NEW y \in Files, NEW z \in Files
    PROVE  Grouped(x, y, z)
<1>1. x \in Seq(Events) /\ y \in Seq(Events) /\ z \in Seq(Events)
  BY DEF Files
<1>2. (x \o y) \o z = x \o (y \o z)
  BY <1>1, ConcatAssociative
<1> QED BY <1>2 DEF Grouped

\* What a disk holds at an id, written or not, is the contents of a file.
LEMMA DiskType ==
    ASSUME NEW d \in Disks
    PROVE  /\ DOMAIN d \in SUBSET Nat
           /\ d \in [DOMAIN d -> Files]
           /\ \A i : At(d, i) \in Files
<1>1. PICK D \in SUBSET Nat : d \in [D -> Files]
  BY DEF Disks
<1>2. DOMAIN d = D
  BY <1>1
<1>3. \A i : At(d, i) \in Files
  BY <1>1, FilesClosed DEF At
<1> QED BY <1>1, <1>2, <1>3

\* A function from ids to contents is a disk.
LEMMA IsDisk ==
    ASSUME NEW D \in SUBSET Nat, NEW d \in [D -> Files]
    PROVE  d \in Disks
BY DEF Disks

\* The contents of listed files are contents.
LEMMA AllType ==
    ASSUME NEW d \in Disks, NEW ids \in Seq(Nat)
    PROVE  All(d, ids) \in Seq(Files) /\ Len(All(d, ids)) = Len(ids)
<1>1. \A k \in 1..Len(ids) : At(d, ids[k]) \in Files
  BY DiskType
<1>2. PICK n \in Nat : n = Len(ids)
  OBVIOUS
<1>3. \A k \in 1..n : At(d, ids[k]) \in Files
  BY <1>1, <1>2
<1> HIDE DEF At
<1>4. [k \in 1..n |-> At(d, ids[k])] \in Seq(Files)
  BY <1>2, <1>3
<1> QED BY <1>2, <1>4 DEF All

\* The joined contents of listed files are events.
LEMMA CatType ==
    ASSUME NEW d \in Disks, NEW ids \in Seq(Nat)
    PROVE  Cat(d, ids) \in Files
BY AllType, Flatten DEF Cat

\* No files, no events.
LEMMA CatEmpty ==
    ASSUME NEW d \in Disks
    PROVE  Cat(d, <<>>) = <<>>
<1>1. All(d, <<>>) = <<>>
  BY DEF All
<1> QED BY <1>1, Flatten DEF Cat

\* One more file in the list.
LEMMA CatAppend ==
    ASSUME NEW d \in Disks, NEW ids \in Seq(Nat), NEW i \in Nat
    PROVE  Cat(d, Append(ids, i)) = Cat(d, ids) \o At(d, i)
<1>1. PICK a : a = All(d, ids) /\ a \in Seq(Files) /\ Len(a) = Len(ids)
  BY AllType
<1>2. PICK b : b = All(d, Append(ids, i)) /\ b \in Seq(Files) /\ Len(b) = Len(ids) + 1
  <2>1. Append(ids, i) \in Seq(Nat) /\ Len(Append(ids, i)) = Len(ids) + 1
    OBVIOUS
  <2> QED BY <2>1, AllType
<1>3. PICK t : t = At(d, i) /\ t \in Files
  BY DiskType
<1>4. b = Append(a, t)
  <2>0. PICK n \in Nat : n = Len(ids)
    OBVIOUS
  <2>1. \A k \in 1..n : a[k] = At(d, ids[k])
    BY <1>1, <2>0 DEF All
  <2>2. \A k \in 1..n : b[k] = At(d, ids[k])
    BY <1>2, <2>0 DEF All
  <2>3. b[n + 1] = t
    BY <1>2, <1>3, <2>0 DEF All
  <2>4. Len(a) = n /\ Len(b) = n + 1
    BY <1>1, <1>2, <2>0
  <2> HIDE DEF At
  <2>5. \A k \in 1..n : a[k] = b[k]
    BY <2>1, <2>2
  <2> QED BY <2>0, <2>3, <2>4, <2>5, <1>1, <1>2, <1>3
<1>5. FlattenSeq(Append(a, t)) = FlattenSeq(a) \o t
  BY <1>1, <1>3, Flatten
<1> QED BY <1>1, <1>2, <1>3, <1>4, <1>5 DEF Cat

\* Two disks that agree on the listed files hold the same events there.
LEMMA CatSame ==
    ASSUME NEW d, NEW e, NEW ids \in Seq(Nat),
           \A k \in 1..Len(ids) : At(d, ids[k]) = At(e, ids[k])
    PROVE  Cat(d, ids) = Cat(e, ids)
<1>1. All(d, ids) = All(e, ids)
  <2> HIDE DEF At
  <2> QED BY DEF All
<1> QED BY <1>1 DEF Cat

\* Two lists of files, one behind the other.
LEMMA CatConcat ==
    ASSUME NEW d \in Disks, NEW a \in Seq(Nat), NEW b \in Seq(Nat)
    PROVE  Cat(d, a \o b) = Cat(d, a) \o Cat(d, b)
<1>1. PICK x : x = All(d, a) /\ x \in Seq(Files) /\ Len(x) = Len(a)
  BY AllType
<1>2. PICK y : y = All(d, b) /\ y \in Seq(Files) /\ Len(y) = Len(b)
  BY AllType
<1>3. PICK z : z = All(d, a \o b) /\ z \in Seq(Files) /\ Len(z) = Len(a) + Len(b)
  <2>1. a \o b \in Seq(Nat) /\ Len(a \o b) = Len(a) + Len(b)
    OBVIOUS
  <2> QED BY <2>1, AllType
<1>4. z = x \o y
  <2>0. PICK n \in Nat, m \in Nat : n = Len(a) /\ m = Len(b)
    OBVIOUS
  <2>1. \A k \in 1..n : x[k] = At(d, a[k])
    BY <1>1, <2>0 DEF All
  <2>2. \A k \in 1..m : y[k] = At(d, b[k])
    BY <1>2, <2>0 DEF All
  <2>3. \A k \in 1..(n + m) : z[k] = At(d, (a \o b)[k])
    BY <1>3, <2>0 DEF All
  <2>4. \A k \in 1..(n + m) : (a \o b)[k] = IF k <= n THEN a[k] ELSE b[k - n]
    BY <2>0
  <2>5. \A k \in 1..(n + m) : z[k] = IF k <= n THEN x[k] ELSE y[k - n]
    <3> SUFFICES ASSUME NEW k \in 1..(n + m) PROVE z[k] = IF k <= n THEN x[k] ELSE y[k - n]
      OBVIOUS
    <3> HIDE DEF At
    <3>1. CASE k <= n
      BY <2>0, <2>1, <2>3, <2>4, <3>1
    <3>2. CASE ~(k <= n)
      <4>1. k - n \in 1..m
        BY <2>0, <3>2
      <4> QED BY <4>1, <2>2, <2>3, <2>4, <3>2
    <3> QED BY <3>1, <3>2
  <2>6. Len(x) = n /\ Len(y) = m /\ Len(z) = n + m
    BY <1>1, <1>2, <1>3, <2>0
  <2> QED BY <2>0, <2>5, <2>6, <1>1, <1>2, <1>3
<1>5. FlattenSeq(x \o y) = FlattenSeq(x) \o FlattenSeq(y)
  BY <1>1, <1>2, FlattenConcat
<1> QED BY <1>1, <1>2, <1>3, <1>4, <1>5 DEF Cat

\* Files that are all empty hold no events.
LEMMA CatNothing ==
    ASSUME NEW d \in Disks, NEW ids \in Seq(Nat), \A k \in 1..Len(ids) : At(d, ids[k]) = <<>>
    PROVE  Cat(d, ids) = <<>>
<1>1. PICK x : x = All(d, ids) /\ x \in Seq(Files) /\ Len(x) = Len(ids)
  BY AllType
<1>2. \A k \in 1..Len(x) : x[k] = <<>>
  BY <1>1 DEF All
<1> QED BY <1>1, <1>2, FlattenEmpty DEF Cat

-----------------------------------------------------------------------------
(* A storage whose files are all there *)

\* The states of a storage.
Storages == [disk : Disks, oldest : Nat \cup {None}, oldBatches : Seq(Nat), newest : Nat,
             fds : SUBSET Nat, limit : Nat \X Nat]

\* The files are in the order of their ids.
Ordered(s) ==
    /\ \A i, j \in 1..Len(s.oldBatches) : i < j => s.oldBatches[i] < s.oldBatches[j]
    /\ \A i \in 1..Len(s.oldBatches) : /\ s.oldBatches[i] < s.newest
                                       /\ s.oldest # None => s.oldest < s.oldBatches[i]
    /\ s.oldest # None => s.oldest < s.newest

\* The ids a storage knows.
Ids(s) == {i \in Nat : \/ i = s.oldest
                       \/ i = s.newest
                       \/ \E k \in 1..Len(s.oldBatches) : i = s.oldBatches[k]}

\* The invariant of a storage: the files are in the order of their ids, the directory holds
\* the ones it knows and no other, and the oldest and the newest are open.
Sound(s) ==
    /\ s \in Storages
    /\ Ordered(s)
    /\ DOMAIN s.disk = Ids(s)
    /\ s.fds = {i \in Nat : i = s.oldest \/ i = s.newest}

\* What oldestBatch, the old files and the newest one contribute.
First(s) == IF s.oldest = None THEN <<>> ELSE At(s.disk, s.oldest)
Parts(s) == (First(s) \o Cat(s.disk, s.oldBatches)) \o At(s.disk, s.newest)

\* contents is what the oldest, the old and the newest file hold, in this order.
LEMMA ContentsParts ==
    ASSUME NEW s \in Storages
    PROVE  Contents(s) = Parts(s) /\ Contents(s) \in Files
<1>1. PICK d \in Disks : d = s.disk
  BY DEF Storages
<1>2. PICK ob \in Seq(Nat) : ob = s.oldBatches
  BY DEF Storages
<1>3. PICK new \in Nat : new = s.newest
  BY DEF Storages
<1>4. PICK a : a = IF s.oldest = None THEN <<>> ELSE <<s.oldest>>
  OBVIOUS
<1>5. a \in Seq(Nat)
  BY <1>4 DEF Storages
<1>6. Cat(d, a) = First(s) /\ First(s) \in Files
  <2>1. CASE s.oldest = None
    BY <2>1, <1>1, <1>4, CatEmpty, FilesClosed DEF First
  <2>2. CASE s.oldest # None
    <3>1. PICK o \in Nat : o = s.oldest
      BY <2>2 DEF Storages
    <3>2. a = Append(<<>>, o) /\ <<>> \in Seq(Nat)
      BY <2>2, <3>1, <1>4
    <3>3. Cat(d, a) = Cat(d, <<>>) \o At(d, o)
      BY <1>1, <3>1, <3>2, CatAppend
    <3>4. At(d, o) \in Files /\ Cat(d, <<>>) = <<>>
      BY <1>1, DiskType, CatEmpty
    <3>5. <<>> \o At(d, o) = At(d, o)
      BY <3>4, FilesClosed
    <3> QED BY <1>1, <2>2, <3>1, <3>3, <3>4, <3>5 DEF First
  <2> QED BY <2>1, <2>2
<1>7. FileOrder(s) = a \o Append(ob, new)
  BY <1>2, <1>3, <1>4 DEF FileOrder
<1>8. PICK c : c = a \o Append(ob, new) /\ c \in Seq(Nat)
  <2>1. Append(ob, new) \in Seq(Nat)
    BY <1>2, <1>3
  <2>2. a \o Append(ob, new) \in Seq(Nat)
    BY <1>5, <2>1
  <2> QED BY <2>2
<1>9. Contents(s) = Cat(d, c)
  <2>1. DOMAIN c = 1..Len(c)
    BY <1>8
  <2> QED BY <1>1, <1>7, <1>8, <2>1 DEF Contents, Stored, Cat, All, At
<1>10. Cat(d, c) = Cat(d, a) \o (Cat(d, ob) \o At(d, new))
  <2>1. Append(ob, new) \in Seq(Nat)
    BY <1>2, <1>3
  <2>2. Cat(d, a \o Append(ob, new)) = Cat(d, a) \o Cat(d, Append(ob, new))
    BY <1>1, <1>5, <2>1, CatConcat
  <2>3. Cat(d, Append(ob, new)) = Cat(d, ob) \o At(d, new)
    BY <1>1, <1>2, <1>3, CatAppend
  <2> QED BY <1>8, <2>2, <2>3
<1>11. Cat(d, ob) \in Files /\ At(d, new) \in Files /\ Cat(d, a) \in Files
  BY <1>1, <1>2, <1>6, CatType, DiskType
<1>12. (Cat(d, a) \o Cat(d, ob)) \o At(d, new) = Cat(d, a) \o (Cat(d, ob) \o At(d, new))
  BY <1>11, FilesClosed
<1>13. (Cat(d, a) \o Cat(d, ob)) \o At(d, new) \in Files
  BY <1>11, FilesClosed
<1> QED BY <1>1, <1>2, <1>3, <1>6, <1>9, <1>10, <1>12, <1>13 DEF Parts

\* openBatch of a new file.
Grown(d, id) == [i \in DOMAIN d \cup {id} |-> At(d, i)]

\* open() with O_CREAT leaves a disk.
LEMMA NewFile ==
    ASSUME NEW d \in Disks, NEW id \in Nat
    PROVE  Grown(d, id) \in Disks /\ DOMAIN Grown(d, id) = DOMAIN d \cup {id}
<1>1. DOMAIN d \cup {id} \in SUBSET Nat
  BY DiskType
<1>2. Grown(d, id) \in [DOMAIN d \cup {id} -> Files]
  BY DiskType DEF Grown
<1> QED BY <1>1, <1>2, IsDisk

\* A file that open() created is empty, every other keeps its contents.
LEMMA NewFileAt ==
    ASSUME NEW d, NEW id, NEW i
    PROVE  At(Grown(d, id), i) = At(d, i)
BY DEF At, Grown

\* A storage by its fields.
Record(d, o, ob, n, f, l) ==
    [disk |-> d, oldest |-> o, oldBatches |-> ob, newest |-> n, fds |-> f, limit |-> l]

\* A storage is the record of its fields.
LEMMA RecordOf ==
    ASSUME NEW s \in Storages
    PROVE  s = Record(s.disk, s.oldest, s.oldBatches, s.newest, s.fds, s.limit)
BY DEF Storages, Record

\* openBatch when open() succeeds.
LEMMA Opened ==
    ASSUME NEW d, NEW o, NEW ob, NEW n, NEW f, NEW l, NEW id
    PROVE  openBatch(Record(d, o, ob, n, f, l), id, {})
              = Record(Grown(d, id), o, ob, n, f \cup {id}, l)
BY DEF Record, openBatch, Stored, At, Grown

\* rotate when the newest file is the only one: it becomes the oldest and stays open.
LEMMA RotatedAlone ==
    ASSUME NEW d, NEW o, NEW ob, NEW n, NEW f, NEW l, NEW m, m = n + 1, o = None, ob = <<>>,
           NEW g, g = f \cup {m}
    PROVE  rotate(Record(d, o, ob, n, f, l), {}) = Record(Grown(d, m), n, ob, m, g, l)
BY DEF Record, rotate, openBatch, Stored, At, Grown

\* The open files when one is opened in place of another.
Swap(f, n, m) == (f \ {n}) \cup {m}

\* rotate when there are older files: the full file joins the old ones and is closed.
LEMMA RotatedBehind ==
    ASSUME NEW d, NEW o, NEW ob, NEW n, NEW f, NEW l, NEW m, m = n + 1,
           ~(o = None /\ ob = <<>>)
    PROVE  rotate(Record(d, o, ob, n, f, l), {})
              = Record(Grown(d, m), o, Append(ob, n), m, Swap(f, n, m), l)
BY DEF Record, rotate, openBatch, Stored, At, Grown, Swap

\* The fields of the record.
LEMMA RecordFields ==
    ASSUME NEW d, NEW o, NEW ob, NEW n, NEW f, NEW l, NEW s, s = Record(d, o, ob, n, f, l)
    PROVE  /\ s.disk = d /\ s.oldest = o /\ s.oldBatches = ob
           /\ s.newest = n /\ s.fds = f /\ s.limit = l
BY DEF Record

\* The record of well-typed fields is a storage.
LEMMA RecordType ==
    ASSUME NEW d \in Disks, NEW o \in Nat \cup {None}, NEW ob \in Seq(Nat), NEW n \in Nat,
           NEW f \in SUBSET Nat, NEW l \in Nat \X Nat
    PROVE  Record(d, o, ob, n, f, l) \in Storages
BY DEF Record, Storages

\* The types of a storage's fields.
LEMMA StorageTypes ==
    ASSUME NEW s \in Storages
    PROVE  /\ s.disk \in Disks /\ s.oldest \in Nat \cup {None} /\ s.oldBatches \in Seq(Nat)
           /\ s.newest \in Nat /\ s.fds \in SUBSET Nat /\ s.limit \in Nat \X Nat
BY DEF Storages

\* What rotate keeps: the invariant, the events, the limits, and the file uploads are read from.
Rotated(s, r) ==
    /\ Sound(r)
    /\ Contents(r) = Contents(s)
    /\ r.limit = s.limit
    /\ (s.oldest = None => s.oldBatches = <<>>) =>
          /\ r.oldest # None
          /\ At(r.disk, front(r)) = At(s.disk, front(s))
    /\ s.oldest = None /\ s.oldBatches # <<>> => r.oldest = None
    /\ At(r.disk, r.newest) = <<>>

\* The newest file is full.
LEMMA RotateRecord ==
    ASSUME NEW d \in Disks, NEW o \in Nat \cup {None}, NEW ob \in Seq(Nat), NEW n \in Nat,
           NEW f \in SUBSET Nat, NEW l \in Nat \X Nat,
           NEW s, s = Record(d, o, ob, n, f, l), Sound(s), NEW r, r = rotate(s, {}),
           NEW m \in Nat, m = n + 1, NEW e, e = Grown(d, m)
    PROVE  Rotated(s, r)
<1> SUFFICES /\ Sound(r)
             /\ Contents(r) = Contents(s)
             /\ r.limit = s.limit
             /\ (s.oldest = None => s.oldBatches = <<>>) =>
                   /\ r.oldest # None
                   /\ At(r.disk, front(r)) = At(s.disk, front(s))
             /\ s.oldest = None /\ s.oldBatches # <<>> => r.oldest = None
             /\ At(r.disk, r.newest) = <<>>
  BY DEF Rotated
<1>1. s \in Storages
  BY DEF Sound
<1>3. /\ s.disk = d /\ s.oldest = o /\ s.oldBatches = ob
      /\ s.newest = n /\ s.fds = f /\ s.limit = l
  BY RecordFields
<1>3b. (o = None \/ o \in Nat) /\ None \notin Nat /\ None # n /\ None # m
  BY DEF None
<1>5. e \in Disks /\ DOMAIN e = DOMAIN d \cup {m} /\ \A i \in Nat : At(e, i) = At(d, i)
  <2>1. \A i \in Nat : At(e, i) = At(d, i)
    <3> SUFFICES ASSUME NEW i \in Nat PROVE At(e, i) = At(d, i)
      OBVIOUS
    <3> QED BY NewFileAt
  <2> QED BY <2>1, NewFile
<1>6. /\ \A i, j \in 1..Len(ob) : i < j => ob[i] < ob[j]
      /\ \A i \in 1..Len(ob) : ob[i] < n /\ (o # None => o < ob[i])
      /\ o # None => o < n
  BY <1>3 DEF Sound, Ordered
<1>7. f = {i \in Nat : i = o \/ i = n}
  BY <1>3 DEF Sound
<1>8. \A i : i \in DOMAIN d <=> i \in Nat /\ (i = o \/ i = n \/ \E k \in 1..Len(ob) : i = ob[k])
  BY <1>3 DEF Sound, Ids
<1>9. m \notin DOMAIN d /\ n \in DOMAIN d
  <2>1. \A k \in 1..Len(ob) : ob[k] # m
    <3> SUFFICES ASSUME NEW k \in 1..Len(ob) PROVE ob[k] # m
      OBVIOUS
    <3>1. ob[k] < n /\ ob[k] \in Nat
      BY <1>6
    <3> QED BY <3>1
  <2>2. o # m
    BY <1>3b, <1>6
  <2> QED BY <1>8, <2>1, <2>2, SMTT(60)
<1>10. At(d, m) = <<>>
  BY <1>9 DEF At
<1>11. Contents(s) = (First(s) \o Cat(d, ob)) \o At(d, n)
  BY <1>1, <1>3, ContentsParts DEF Parts
<1>12. Cat(d, ob) \in Files /\ At(d, n) \in Files
  BY CatType, DiskType
<1>13. CASE o = None /\ ob = <<>>
  <2>0. PICK g : g = f \cup {m} /\ g \in SUBSET Nat
    OBVIOUS
  <2>1. r = Record(e, n, ob, m, g, l)
    BY <1>13, <2>0, RotatedAlone, SMTT(60)
  <2>2. /\ r.disk = e /\ r.oldest = n /\ r.oldBatches = ob
        /\ r.newest = m /\ r.fds = g /\ r.limit = l
        /\ r \in Storages
    BY <1>5, <2>0, <2>1, RecordFields, RecordType
  <2>3. Len(ob) = 0 /\ n # None /\ n < m
    BY <1>13 DEF None
  <2>4. Ordered(r)
    BY <2>2, <2>3 DEF Ordered
  <2>5. r.fds = {i \in Nat : i = r.oldest \/ i = r.newest}
    <3>1. f = {n}
      BY <1>3b, <1>7, <1>13
    <3> QED BY <2>0, <2>2, <3>1
  <2>6. DOMAIN r.disk = Ids(r)
    <3>1. \A i : i \in DOMAIN d <=> i = n
      BY <1>3b, <1>8, <1>13, <2>3
    <3>2. \A i : i \in DOMAIN e <=> i = n \/ i = m
      BY <1>5, <3>1
    <3>3. \A i : i \in Ids(r) <=> i = n \/ i = m
      BY <2>2, <2>3 DEF Ids
    <3> QED BY <2>2, <3>2, <3>3
  <2>7. Contents(r) = Contents(s)
    <3>1. First(s) = <<>> /\ First(r) = At(d, n)
      BY <1>3, <1>5, <1>13, <2>2, <2>3 DEF First
    <3>2. Cat(d, ob) = <<>> /\ Cat(e, ob) = <<>>
      BY <1>5, <1>13, CatEmpty
    <3>3. Contents(r) = (First(r) \o Cat(e, ob)) \o At(e, m)
      BY <2>2, ContentsParts DEF Parts
    <3>4. Contents(r) = (At(d, n) \o <<>>) \o <<>>
      BY <1>5, <1>10, <3>1, <3>2, <3>3
    <3>5. Contents(s) = (<<>> \o <<>>) \o At(d, n)
      BY <1>11, <3>1, <3>2
    <3>6. <<>> \in Files
      BY FilesClosed
    <3> QED BY <1>12, <3>4, <3>5, <3>6, FilesClosed
  <2>8. At(r.disk, front(r)) = At(s.disk, front(s))
    BY <1>3, <1>5, <1>13, <2>2, <2>3 DEF front
  <2>9. At(r.disk, r.newest) = <<>> /\ s.oldBatches = <<>>
    BY <1>3, <1>5, <1>10, <1>13, <2>2
  <2> QED BY <1>3, <2>2, <2>3, <2>4, <2>5, <2>6, <2>7, <2>8, <2>9 DEF Sound
<1>14. CASE ~(o = None /\ ob = <<>>)
  <2>0. PICK q : q = Append(ob, n) /\ q \in Seq(Nat) /\ Len(q) = Len(ob) + 1
                 /\ q[Len(ob) + 1] = n /\ \A k \in 1..Len(ob) : q[k] = ob[k]
    <3>1. Append(ob, n) \in Seq(Nat) /\ Len(Append(ob, n)) = Len(ob) + 1
          /\ Append(ob, n)[Len(ob) + 1] = n /\ \A k \in 1..Len(ob) : Append(ob, n)[k] = ob[k]
      OBVIOUS
    <3> QED BY <3>1
  <2>0a. PICK g : g = (f \ {n}) \cup {m} /\ g \in SUBSET Nat
    OBVIOUS
  <2>1. r = Record(e, o, q, m, g, l)
    <3>1. q = Append(ob, n)
      BY <2>0
    <3>2. g = Swap(f, n, m)
      BY <2>0a DEF Swap
    <3> QED BY <1>14, <3>1, <3>2, RotatedBehind
  <2>2. /\ r.disk = e /\ r.oldest = o /\ r.oldBatches = q
        /\ r.newest = m /\ r.fds = g /\ r.limit = l
        /\ r \in Storages
    <3>1. q \in Seq(Nat) /\ g \in SUBSET Nat
      BY <2>0, <2>0a
    <3> QED BY <1>5, <2>1, <3>1, RecordFields, RecordType
  <2>3. PICK N \in Nat : N = Len(ob)
    OBVIOUS
  <2>4. \A k \in 1..(N + 1) : IF k = N + 1 THEN q[k] = n ELSE k \in 1..N /\ q[k] = ob[k]
    BY <2>0, <2>3
  <2>5. \A k \in 1..N : ob[k] \in Nat
    BY <2>3
  <2>6. Ordered(r)
    <3>1. \A i, j \in 1..(N + 1) : i < j => q[i] < q[j]
      <4> SUFFICES ASSUME NEW i \in 1..(N + 1), NEW j \in 1..(N + 1), i < j PROVE q[i] < q[j]
        OBVIOUS
      <4>1. i \in 1..N /\ q[i] = ob[i]
        BY <2>3, <2>4
      <4>2. CASE j = N + 1
        BY <1>6, <2>3, <2>4, <4>1, <4>2
      <4>3. CASE j # N + 1
        <5>1. j \in 1..N /\ q[j] = ob[j]
          BY <2>4, <4>3
        <5> QED BY <1>6, <2>3, <4>1, <5>1
      <4> QED BY <4>2, <4>3
    <3>2. \A i \in 1..(N + 1) : q[i] < m /\ (o # None => o < q[i])
      BY <1>3b, <1>6, <2>3, <2>4, <2>5, SMTT(60)
    <3>3. o # None => o < m
      BY <1>3b, <1>6
    <3> QED BY <2>0, <2>2, <2>3, <3>1, <3>2, <3>3 DEF Ordered
  <2>7. r.fds = {i \in Nat : i = r.oldest \/ i = r.newest}
    <3>1. o # n
      BY <1>3b, <1>6
    <3> QED BY <1>7, <2>0a, <2>2, <3>1
  <2>8. DOMAIN r.disk = Ids(r)
    <3>1. \A i : i \in DOMAIN e <=> i \in Nat /\ (i = o \/ i = n \/ i = m \/ \E k \in 1..N : i = ob[k])
      BY <1>5, <1>8, <2>3
    <3>2. \A i : (\E k \in 1..(N + 1) : i = q[k]) <=> i = n \/ \E k \in 1..N : i = ob[k]
      <4> SUFFICES ASSUME NEW i
                   PROVE  (\E k \in 1..(N + 1) : i = q[k]) <=> i = n \/ \E k \in 1..N : i = ob[k]
        OBVIOUS
      <4>1. ASSUME NEW k \in 1..(N + 1), i = q[k] PROVE i = n \/ \E j \in 1..N : i = ob[j]
        BY <2>4, <4>1
      <4>2. ASSUME NEW k \in 1..N, i = ob[k] PROVE \E j \in 1..(N + 1) : i = q[j]
        <5>1. k \in 1..(N + 1) /\ q[k] = ob[k]
          BY <2>0, <2>3
        <5> QED BY <4>2, <5>1
      <4>3. i = n => \E j \in 1..(N + 1) : i = q[j]
        BY <2>0, <2>3
      <4> QED BY <4>1, <4>2, <4>3
    <3>3. \A i : i \in Ids(r) <=> i \in Nat /\ (i = o \/ i = m \/ \E k \in 1..(N + 1) : i = q[k])
      BY <2>0, <2>2, <2>3 DEF Ids
    <3>4. \A i : i \in Ids(r) <=> i \in DOMAIN e
      BY <3>1, <3>2, <3>3
    <3> QED BY <2>2, <3>4
  <2>9. Contents(r) = Contents(s)
    <3>1. First(r) = First(s) /\ First(s) \in Files
      <4>1. First(r) = First(s)
        BY <1>3, <1>5, <2>2 DEF First
      <4>2. First(s) \in Files
        BY <1>3, DiskType, FilesClosed DEF First
      <4> QED BY <4>1, <4>2
    <3>2. Cat(e, q) = Cat(d, ob) \o At(d, n)
      <4>1. Cat(e, q) = Cat(d, q)
        <5>1. \A k \in 1..Len(q) : At(e, q[k]) = At(d, q[k])
          BY <1>5, <2>0, SMTT(60)
        <5> QED BY <2>0, <5>1, CatSame
      <4> QED BY <2>0, <4>1, CatAppend
    <3>3. Contents(r) = (First(r) \o Cat(e, q)) \o At(e, m)
      BY <2>2, ContentsParts DEF Parts
    <3>4. Contents(r) = (First(s) \o (Cat(d, ob) \o At(d, n))) \o <<>>
      BY <1>5, <1>10, <3>1, <3>2, <3>3
    <3>5. Contents(s) = (First(s) \o Cat(d, ob)) \o At(d, n)
      BY <1>11
    <3>6. (First(s) \o Cat(d, ob)) \o At(d, n) = First(s) \o (Cat(d, ob) \o At(d, n))
      BY <1>12, <3>1, FilesClosed
    <3>7. First(s) \o (Cat(d, ob) \o At(d, n)) \in Files
      BY <1>12, <3>1, FilesClosed
    <3> QED BY <3>4, <3>5, <3>6, <3>7, FilesClosed
  <2>10. ASSUME s.oldest = None => s.oldBatches = <<>>
         PROVE  r.oldest # None /\ At(r.disk, front(r)) = At(s.disk, front(s))
    BY <1>3, <1>5, <1>14, <2>2, <2>10 DEF front
  <2>11. At(r.disk, r.newest) = <<>> /\ r.oldest = s.oldest
    BY <1>3, <1>5, <1>10, <2>2
  <2> QED BY <1>3, <2>2, <2>6, <2>7, <2>8, <2>9, <2>10, <2>11 DEF Sound
<1> QED BY <1>13, <1>14

\* rotate keeps the invariant and every event.
LEMMA Rotate ==
    ASSUME NEW s, Sound(s), NEW r, r = rotate(s, {})
    PROVE  Rotated(s, r)
<1>1. s \in Storages
  BY DEF Sound
<1>2. PICK d, o, ob, n, f, l : /\ s = Record(d, o, ob, n, f, l)
                              /\ d \in Disks /\ o \in Nat \cup {None} /\ ob \in Seq(Nat)
                              /\ n \in Nat /\ f \in SUBSET Nat /\ l \in Nat \X Nat
  BY <1>1, RecordOf, StorageTypes
<1>3. PICK m \in Nat : m = n + 1
  BY <1>2
<1>4. PICK e : e = Grown(d, m)
  OBVIOUS
<1> QED BY <1>2, <1>3, <1>4, RotateRecord

-----------------------------------------------------------------------------
(* One file changes *)

\* A directory with one file rewritten.
Put(d, i, v) == [d EXCEPT ![i] = v]

\* A file that is rewritten leaves a disk.
LEMMA PutType ==
    ASSUME NEW d \in Disks, NEW i \in DOMAIN d, NEW v \in Files
    PROVE  Put(d, i, v) \in Disks /\ DOMAIN Put(d, i, v) = DOMAIN d
<1>1. DOMAIN d \in SUBSET Nat /\ d \in [DOMAIN d -> Files]
  BY DiskType
<1>2. Put(d, i, v) \in [DOMAIN d -> Files]
  BY <1>1 DEF Put
<1> QED BY <1>1, <1>2, IsDisk

\* The file that is rewritten has the new contents,
LEMMA PutAt ==
    ASSUME NEW d, NEW i \in DOMAIN d, NEW v
    PROVE  At(Put(d, i, v), i) = v
BY DEF At, Put

\* and every other the contents it had.
LEMMA PutOther ==
    ASSUME NEW d, NEW i, NEW v, NEW j, j # i
    PROVE  At(Put(d, i, v), j) = At(d, j)
BY DEF At, Put

\* A storage on another directory.
OnDisk(s, d) == [s EXCEPT !.disk = d]

\* The same files, one of them with other contents.
LEMMA PutSound ==
    ASSUME NEW s, Sound(s), NEW i \in DOMAIN s.disk, NEW v \in Files,
           NEW w, w = OnDisk(s, Put(s.disk, i, v))
    PROVE  /\ Sound(w)
           /\ w.disk = Put(s.disk, i, v) /\ w.oldest = s.oldest /\ w.oldBatches = s.oldBatches
           /\ w.newest = s.newest /\ w.limit = s.limit
<1>1. s \in Storages
  BY DEF Sound
<1>2. s.disk \in Disks
  BY <1>1, StorageTypes
<1>3. Put(s.disk, i, v) \in Disks /\ DOMAIN Put(s.disk, i, v) = DOMAIN s.disk
  BY <1>2, PutType
<1>4. PICK e : e = Put(s.disk, i, v)
  OBVIOUS
<1>5. w = [s EXCEPT !.disk = e] /\ e \in Disks /\ DOMAIN e = DOMAIN s.disk
  BY <1>3, <1>4 DEF OnDisk
<1>6. /\ w \in Storages
      /\ w.disk = e /\ w.oldest = s.oldest /\ w.oldBatches = s.oldBatches
      /\ w.newest = s.newest /\ w.limit = s.limit /\ w.fds = s.fds
  BY <1>1, <1>5 DEF Storages
<1>7. Ordered(w)
  BY <1>6 DEF Sound, Ordered
<1>8. DOMAIN w.disk = Ids(w)
  BY <1>5, <1>6 DEF Sound, Ids
<1>9. w.fds = {k \in Nat : k = w.oldest \/ k = w.newest}
  BY <1>6 DEF Sound
<1> QED BY <1>4, <1>6, <1>7, <1>8, <1>9 DEF Sound

\* The ids of a storage are different.
LEMMA Distinct ==
    ASSUME NEW s, Sound(s)
    PROVE  /\ s.oldest # s.newest
           /\ \A k \in 1..Len(s.oldBatches) : s.oldBatches[k] # s.newest /\ s.oldBatches[k] # s.oldest
           /\ s.newest \in DOMAIN s.disk /\ s.newest \in s.fds
           /\ s.oldest # None => s.oldest \in DOMAIN s.disk /\ s.oldest \in s.fds
<1>1. /\ s.disk \in Disks /\ s.oldest \in Nat \cup {None} /\ s.oldBatches \in Seq(Nat)
      /\ s.newest \in Nat
  BY StorageTypes DEF Sound
<1>2. None \notin Nat
  BY DEF None
<1>3. s.oldest # s.newest
  BY <1>1, <1>2 DEF Sound, Ordered
<1>4. ASSUME NEW k \in 1..Len(s.oldBatches)
      PROVE  s.oldBatches[k] # s.newest /\ s.oldBatches[k] # s.oldest
  <2>1. s.oldBatches[k] \in Nat
    BY <1>1
  <2>2. s.oldBatches[k] < s.newest /\ (s.oldest # None => s.oldest < s.oldBatches[k])
    BY DEF Sound, Ordered
  <2> QED BY <1>1, <1>2, <2>1, <2>2
<1>5. s.newest \in DOMAIN s.disk /\ s.newest \in s.fds
  BY <1>1 DEF Sound, Ids
<1>6. s.oldest # None => s.oldest \in DOMAIN s.disk /\ s.oldest \in s.fds
  BY <1>1 DEF Sound, Ids
<1> QED BY <1>3, <1>4, <1>5, <1>6

\* What is appended to the last part is appended to the whole.
LEMMA AppendBehind ==
    ASSUME NEW p \in Seq(Events), NEW q \in Seq(Events), NEW e \in Events
    PROVE  p \o Append(q, e) = Append(p \o q, e)
OBVIOUS

\* FileEventBatch::addEvent of the newest file.
Written(s, e) == [s EXCEPT !.disk[s.newest] = Append(@, e)]

\* The event is the last of the storage.
LEMMA Wrote ==
    ASSUME NEW s, Sound(s), NEW e \in Events,
           NEW w, w = Written(s, e)
    PROVE  /\ Sound(w)
           /\ Contents(w) = Append(Contents(s), e)
           /\ w.oldest = s.oldest /\ w.oldBatches = s.oldBatches /\ w.limit = s.limit
           /\ At(w.disk, front(w)) = IF s.oldest = None THEN Append(At(s.disk, front(s)), e)
                                     ELSE At(s.disk, front(s))
<1>1. s \in Storages
  BY DEF Sound
<1>2. /\ s.disk \in Disks /\ s.oldest \in Nat \cup {None} /\ s.oldBatches \in Seq(Nat)
      /\ s.newest \in Nat
  BY <1>1, StorageTypes
<1>3. s.newest \in DOMAIN s.disk /\ s.oldest # s.newest
      /\ \A k \in 1..Len(s.oldBatches) : s.oldBatches[k] # s.newest
  BY Distinct
<1>4. PICK old : old = At(s.disk, s.newest) /\ old \in Files /\ old = s.disk[s.newest]
  BY <1>2, <1>3, DiskType DEF At
<1>5. PICK v : v = Append(old, e) /\ v \in Files
  BY <1>4, FilesClosed
<1>6. PICK n : n = s.newest /\ n \in DOMAIN s.disk
  BY <1>3
<1>6a. w = OnDisk(s, Put(s.disk, n, v))
  BY <1>1, <1>4, <1>5, <1>6 DEF Put, Storages, OnDisk, Written
<1>7. /\ Sound(w)
      /\ w.disk = Put(s.disk, n, v) /\ w.oldest = s.oldest /\ w.oldBatches = s.oldBatches
      /\ w.newest = n /\ w.limit = s.limit
  BY <1>5, <1>6, <1>6a, PutSound
<1>7a. \A j : j # n => At(w.disk, j) = At(s.disk, j)
  <2> SUFFICES ASSUME NEW j, j # n PROVE At(w.disk, j) = At(s.disk, j)
    OBVIOUS
  <2> QED BY <1>7, PutOther
<1>8. At(w.disk, w.newest) = v
  BY <1>6, <1>7, PutAt
<1>9. First(w) = First(s)
  <2>1. s.oldest # None => At(w.disk, s.oldest) = At(s.disk, s.oldest)
    BY <1>3, <1>6, <1>7a
  <2> QED BY <1>7, <2>1 DEF First
<1>10. Cat(w.disk, w.oldBatches) = Cat(s.disk, s.oldBatches)
  <2>0. PICK d, dd, ob : /\ d = s.disk /\ dd = w.disk /\ ob = s.oldBatches
                        /\ d \in Disks /\ dd \in Disks /\ ob \in Seq(Nat)
    BY <1>2, <1>7, StorageTypes DEF Sound
  <2>1. \A k \in 1..Len(ob) : At(dd, ob[k]) = At(d, ob[k])
    <3> SUFFICES ASSUME NEW k \in 1..Len(ob) PROVE At(dd, ob[k]) = At(d, ob[k])
      OBVIOUS
    <3>1. ob[k] # n
      BY <1>3, <1>6, <2>0
    <3> QED BY <1>7a, <2>0, <3>1
  <2>2. Cat(dd, ob) = Cat(d, ob)
    BY <2>0, <2>1, CatSame
  <2> QED BY <1>7, <2>0, <2>2
<1>11. PICK p : p = First(s) \o Cat(s.disk, s.oldBatches) /\ p \in Files
  <2>1. First(s) \in Files
    BY <1>2, DiskType, FilesClosed DEF First
  <2>2. Cat(s.disk, s.oldBatches) \in Files
    BY <1>2, CatType
  <2> QED BY <2>1, <2>2, FilesClosed
<1>12. Contents(s) = p \o old
  BY <1>1, <1>4, <1>11, ContentsParts DEF Parts
<1>13. Contents(w) = p \o v
  <2>1. w \in Storages
    BY <1>7 DEF Sound
  <2> QED BY <2>1, <1>8, <1>9, <1>10, <1>11, ContentsParts DEF Parts
<1>14. p \o Append(old, e) = Append(p \o old, e)
  <2>1. p \in Seq(Events) /\ old \in Seq(Events)
    BY <1>4, <1>11 DEF Files
  <2> QED BY <2>1, AppendBehind
<1>15. At(w.disk, front(w)) = IF s.oldest = None THEN Append(At(s.disk, front(s)), e)
                              ELSE At(s.disk, front(s))
  <2>1. CASE s.oldest = None
    BY <1>4, <1>5, <1>6, <1>7, <1>8, <2>1 DEF front
  <2>2. CASE s.oldest # None
    <3>1. At(w.disk, s.oldest) = At(s.disk, s.oldest)
      BY <1>3, <1>6, <1>7a
    <3> QED BY <1>7, <2>2, <3>1 DEF front
  <2> QED BY <2>1, <2>2
<1> QED BY <1>5, <1>7, <1>12, <1>13, <1>14, <1>15

\* No list is cut out of the middle: without an oldestBatch the newest file is the only one.
Settled(s) == s.oldest = None => s.oldBatches = <<>>

\* oldestBatch, if there is one, has an event.
Solid(s) == s.oldest # None => At(s.disk, s.oldest) # <<>>

\* addEvent, with or without a new file before it, appends the event to the storage.
LEMMA EventAdded ==
    ASSUME NEW s, Sound(s), NEW e \in Events, NEW a, a = addEvent(s, e, {})
    PROVE  /\ Sound(a)
           /\ Contents(a) = IF accepts(s, e, {}) THEN Append(Contents(s), e) ELSE Contents(s)
           /\ Settled(s) => /\ Settled(a)
                            /\ \E x \in Files : At(a.disk, front(a)) = At(s.disk, front(s)) \o x
<1>1. PICK r : r = roomFor(s, e, {})
  OBVIOUS
<1>2. /\ Sound(r)
      /\ Contents(r) = Contents(s)
      /\ Settled(s) => Settled(r) /\ At(r.disk, front(r)) = At(s.disk, front(s))
  <2>1. CASE canAddEvent(s, e)
    BY <1>1, <2>1 DEF roomFor
  <2>2. CASE ~canAddEvent(s, e)
    <3>1. r = rotate(s, {})
      BY <1>1, <2>2 DEF roomFor
    <3> QED BY <3>1, Rotate DEF Settled, Rotated
  <2> QED BY <2>1, <2>2
<1>3. a = IF accepts(s, e, {}) THEN Written(r, e) ELSE r
  BY <1>1, Zenon DEF addEvent, Written
<1>4. At(r.disk, front(r)) \in Files
  <2>1. r.disk \in Disks
    BY <1>2, StorageTypes DEF Sound
  <2> QED BY <2>1, DiskType
<1>5. PICK y : y = At(r.disk, front(r)) /\ y \in Files
  BY <1>4
<1>6. y = y \o <<>> /\ <<>> \in Files /\ <<e>> \in Files /\ Append(y, e) = y \o <<e>>
  BY <1>5 DEF Files
<1>7. CASE accepts(s, e, {})
  <2>1. a = Written(r, e)
    BY <1>3, <1>7
  <2>2. /\ Sound(a) /\ Contents(a) = Append(Contents(r), e)
        /\ a.oldest = r.oldest /\ a.oldBatches = r.oldBatches
        /\ At(a.disk, front(a)) = IF r.oldest = None THEN Append(y, e) ELSE y
    BY <1>2, <1>5, <2>1, Wrote
  <2>3. \E x \in Files : At(a.disk, front(a)) = y \o x
    BY <1>6, <2>2
  <2> QED BY <1>2, <1>5, <1>7, <2>2, <2>3 DEF Settled
<1>8. CASE ~accepts(s, e, {})
  <2>1. a = r
    BY <1>3, <1>8
  <2> QED BY <1>2, <1>5, <1>6, <1>8, <2>1
<1> QED BY <1>7, <1>8

-----------------------------------------------------------------------------
(* checkOldestBatch *)

\* Min is the least element of a set of indices.
LEMMA Least ==
    ASSUME NEW T \in SUBSET Nat, T # {}
    PROVE  Min(T) \in T /\ \A y \in T : Min(T) <= y
<1>1. PICK x \in T : \A y \in T : ~(y < x)
  <2>1. \E x \in T : \A y \in T : <<y, x>> \notin OpToRel(<, Nat)
    BY NatLessThanWellFounded, WFMin, Zenon
  <2>2. \A x, y \in Nat : x < y => <<x, y>> \in OpToRel(<, Nat)
    BY Zenon DEF OpToRel
  <2> QED BY <2>1, <2>2, Zenon
<1>2. \A y \in T : x <= y
  <2> SUFFICES ASSUME NEW y \in T PROVE x <= y
    OBVIOUS
  <2>1. x \in Nat /\ y \in Nat /\ ~(y < x)
    BY <1>1
  <2> QED BY <2>1
<1> QED BY <1>1, <1>2 DEF Min

\* A directory without some of its files.
Kept(d, g) == Restrict(d, DOMAIN d \ g)

\* A directory without some of its files is a disk.
LEMMA KeptType ==
    ASSUME NEW d \in Disks, NEW g
    PROVE  Kept(d, g) \in Disks /\ DOMAIN Kept(d, g) = DOMAIN d \ g
<1>1. DOMAIN d \ g \in SUBSET Nat
  BY DiskType
<1>2. Kept(d, g) \in [DOMAIN d \ g -> Files]
  BY DiskType DEF Kept, Restrict
<1> QED BY <1>1, <1>2, IsDisk

\* Removed files are gone, the others keep their contents.
LEMMA KeptAt ==
    ASSUME NEW d, NEW g, NEW i, i \notin g
    PROVE  At(Kept(d, g), i) = At(d, i)
BY DEF At, Kept, Restrict

\* The old files with events, the first k of the old files, and the ones after them.
Full(d, ob)   == {i \in DOMAIN ob : At(d, ob[i]) # <<>>}
Before(ob, k) == {ob[i] : i \in 1..k}
After(ob, k)  == SubSeq(ob, k + 1, Len(ob))

\* checkOldestBatch when no old file has events.
LEMMA CheckedNone ==
    ASSUME NEW d, NEW o, NEW ob, NEW n, NEW f, NEW l, o = None, Full(d, ob) = {}
    PROVE  checkOldestBatch(Record(d, o, ob, n, f, l), {})
              = Record(Kept(d, Before(ob, Len(ob))), o, After(ob, Len(ob)), n, f, l)
<1>1. f = f \cup ({None} \ {None})
  OBVIOUS
<1>2. {i \in DOMAIN ob : ob[i] \notin {} /\ Stored(Record(d, o, ob, n, f, l), ob[i]) # <<>>} = {}
  BY DEF Full, Stored, At, Record
<1> QED BY <1>1, <1>2 DEF Record, checkOldestBatch, Kept, Before, After

\* The old files that have events.
FullOf(s) == {i \in DOMAIN s.oldBatches :
                 s.oldBatches[i] \notin {} /\ Stored(s, s.oldBatches[i]) # <<>>}

Also(f, x)          == f \cup ({x} \ {None})
From(ob, from)      == SubSeq(ob, from, Len(ob))
Skip(s, g, x, from) == [s EXCEPT !.disk = Kept(@, g), !.oldest = x, !.fds = Also(@, x),
                                 !.oldBatches = From(@, from)]

\* checkOldestBatch when an old file has events: the ones before it are removed.
LEMMA Skipped ==
    ASSUME NEW s, s.oldest = None, FullOf(s) # {}
    PROVE  checkOldestBatch(s, {})
              = Skip(s, Before(s.oldBatches, Min(FullOf(s)) - 1), s.oldBatches[Min(FullOf(s))],
                     (Min(FullOf(s)) - 1) + 2)
BY DEF checkOldestBatch, Skip, Before, FullOf, Kept, Also, From

\* A storage and its fields.
Fields(w, d, x, ob, n, f, l) ==
    /\ w \in Storages
    /\ w.disk = d /\ w.oldest = x /\ w.oldBatches = ob
    /\ w.newest = n /\ w.fds = f /\ w.limit = l

\* A storage with four fields replaced.
With(s, d, x, f, ob) == [s EXCEPT !.disk = d, !.oldest = x, !.fds = f, !.oldBatches = ob]

\* Four fields assigned, the others kept.
LEMMA FourFields ==
    ASSUME NEW s \in Storages, NEW d \in Disks, NEW x \in Nat \cup {None}, NEW f \in SUBSET Nat,
           NEW ob \in Seq(Nat), NEW w, w = With(s, d, x, f, ob)
    PROVE  Fields(w, d, x, ob, s.newest, f, s.limit)
<1>1. w \in Storages
  BY DEF Storages, With
<1>2. /\ w.disk = d /\ w.oldest = x /\ w.fds = f /\ w.oldBatches = ob
      /\ w.newest = s.newest /\ w.limit = s.limit
  BY DEF Storages, With
<1> QED BY <1>1, <1>2 DEF Fields

\* The fields of the storage checkOldestBatch leaves.
LEMMA SkipFields ==
    ASSUME NEW s \in Storages, NEW g, NEW x \in Nat, NEW from \in Nat \ {0}
    PROVE  Fields(Skip(s, g, x, from), Kept(s.disk, g), x, From(s.oldBatches, from), s.newest,
                  Also(s.fds, x), s.limit)
<1>1. PICK d : d = Kept(s.disk, g) /\ d \in Disks
  BY KeptType, StorageTypes
<1>2. PICK f : f = Also(s.fds, x) /\ f \in SUBSET Nat
  <2>1. Also(s.fds, x) = s.fds \cup {x}
    BY DEF Also, None
  <2>2. s.fds \cup {x} \in SUBSET Nat
    BY StorageTypes
  <2> QED BY <2>1, <2>2
<1>3. PICK ob : ob = From(s.oldBatches, from) /\ ob \in Seq(Nat)
  <2>1. PICK b \in Seq(Nat) : b = s.oldBatches
    BY StorageTypes
  <2>2. SubSeq(b, from, Len(b)) \in Seq(Nat)
    BY <2>1
  <2> QED BY <2>1, <2>2 DEF From
<1>4. PICK w : w = Skip(s, g, x, from)
  OBVIOUS
<1>5. w = With(s, d, x, f, ob)
  <2>1. w = With(s, Kept(s.disk, g), x, Also(s.fds, x), From(s.oldBatches, from))
    BY <1>4, Zenon DEF Skip, With
  <2> QED BY <1>1, <1>2, <1>3, <2>1, Zenon
<1>6. Fields(w, d, x, ob, s.newest, f, s.limit)
  BY <1>1, <1>2, <1>3, <1>5, FourFields
<1> QED BY <1>1, <1>2, <1>3, <1>4, <1>6

\* The old file that becomes the oldest.
IsNext(s, k) == s.oldest = None /\ FullOf(s) # {} /\ k = Min(FullOf(s))

\* The old file k is the first that has events: it becomes the oldest.
LEMMA CheckedNext ==
    ASSUME NEW s \in Storages, NEW k \in Nat, IsNext(s, k), s.oldBatches[k] \in Nat,
           NEW j \in Nat, j = k - 1
    PROVE  Fields(checkOldestBatch(s, {}), Kept(s.disk, Before(s.oldBatches, j)), s.oldBatches[k],
                  After(s.oldBatches, k), s.newest, Also(s.fds, s.oldBatches[k]), s.limit)
<1>1. PICK b, x : b = s.oldBatches /\ x = s.oldBatches[k] /\ x \in Nat
  OBVIOUS
<1>2. PICK m \in Nat \ {0} : m = k + 1
  OBVIOUS
<1>3. (k - 1) + 2 = m /\ k - 1 = j
  BY <1>2
<1>4. checkOldestBatch(s, {}) = Skip(s, Before(b, j), x, m)
  <2>1. checkOldestBatch(s, {}) = Skip(s, Before(b, k - 1), x, (k - 1) + 2)
    BY <1>1, Skipped DEF IsNext
  <2> QED BY <1>3, <2>1
<1>5. From(b, m) = After(b, k)
  BY <1>2 DEF From, After
<1>6. PICK g : g = Before(b, j)
  OBVIOUS
<1>7. Fields(Skip(s, g, x, m), Kept(s.disk, g), x, From(s.oldBatches, m), s.newest,
             Also(s.fds, x), s.limit)
  BY <1>1, SkipFields
<1> QED BY <1>1, <1>4, <1>5, <1>6, <1>7

\* The files before and after the k-th.
Split(b, k, M, p, q) ==
    /\ p \in Seq(Nat) /\ q \in Seq(Nat) /\ Len(p) = k - 1 /\ Len(q) = M
    /\ \A i \in 1..(k - 1) : p[i] = b[i]
    /\ \A i \in 1..M : q[i] = b[k + i]
    /\ b = Append(p, b[k]) \o q

\* The list of old files around its k-th.
LEMMA SplitAt ==
    ASSUME NEW b \in Seq(Nat), NEW N \in Nat, N = Len(b), NEW k \in 1..N, NEW M \in Nat, M = N - k
    PROVE  \E p : Split(b, k, M, p, After(b, k))
<1>0. \A i \in 1..N : b[i] \in Nat
  OBVIOUS
<1>1. /\ After(b, k) \in Seq(Nat) /\ Len(After(b, k)) = M
      /\ \A i \in 1..M : After(b, k)[i] = b[k + i]
  <2>1. PICK m \in Int : m = k + 1
    OBVIOUS
  <2>2. \A i \in m..N : b[i] \in Nat
    BY <1>0, <2>1
  <2>3. /\ SubSeq(b, m, N) \in Seq(Nat)
        /\ Len(SubSeq(b, m, N)) = IF m <= N THEN N - m + 1 ELSE 0
        /\ \A i \in 1..(N - m + 1) : SubSeq(b, m, N)[i] = b[m + i - 1]
    BY <2>2, SubSeqProperties
  <2>4. PICK q : q = SubSeq(b, m, N) /\ q = After(b, k)
    BY <2>1 DEF After
  <2>5. N - m + 1 = M /\ (IF m <= N THEN N - m + 1 ELSE 0) = M /\ \A i \in 1..M : m + i - 1 = k + i
    BY <2>1
  <2> QED BY <2>3, <2>4, <2>5
<1>2. PICK p : p = SubSeq(b, 1, k - 1) /\ p \in Seq(Nat) /\ Len(p) = k - 1
               /\ \A i \in 1..(k - 1) : p[i] = b[i]
  <2>1. PICK j \in Int : j = k - 1
    OBVIOUS
  <2>2. \A i \in 1..j : b[i] \in Nat
    BY <1>0, <2>1
  <2>3. /\ SubSeq(b, 1, j) \in Seq(Nat)
        /\ Len(SubSeq(b, 1, j)) = IF 1 <= j THEN j - 1 + 1 ELSE 0
        /\ \A i \in 1..(j - 1 + 1) : SubSeq(b, 1, j)[i] = b[1 + i - 1]
    BY <2>2, SubSeqProperties
  <2>4. (IF 1 <= j THEN j - 1 + 1 ELSE 0) = j /\ j - 1 + 1 = j /\ \A i \in 1..j : 1 + i - 1 = i
    BY <2>1
  <2> QED BY <2>1, <2>3, <2>4
<1>3. SubSeq(b, 1, k) \o SubSeq(b, k + 1, N) = b
  <2>1. SubSeq(b, 1, N) = b
    BY SubSeqFull
  <2>2. SubSeq(b, 1, k) \o SubSeq(b, k + 1, N) = SubSeq(b, 1, N)
    BY ConcatAdjacentSubSeq
  <2> QED BY <2>1, <2>2
<1>4. SubSeq(b, 1, k) = p \o <<b[k]>>
  BY <1>2, SubSeqRecursiveSecond
<1>5. p \o <<b[k]>> = Append(p, b[k])
  BY <1>0, <1>2, AppendIsConcat
<1>6. b = Append(p, b[k]) \o After(b, k)
  BY <1>3, <1>4, <1>5 DEF After
<1> QED BY <1>1, <1>2, <1>6 DEF Split

\* The storage s, checked, is c: its fields, the place k of the next file x and the lists around it.
Advance(s, c, d, b, n, f, l, N, k, M, j, x, g, e, p, q, h) ==
    /\ d \in Disks /\ b \in Seq(Nat) /\ n \in Nat /\ Fields(s, d, None, b, n, f, l)
    /\ N \in Nat /\ N = Len(b) /\ k \in 1..N /\ M \in Nat /\ M = N - k
    /\ j \in Nat /\ j = k - 1 /\ x \in Nat /\ x = b[k]
    /\ \A i \in 1..j : At(d, b[i]) = <<>>
    /\ g = Before(b, j) /\ e \in Disks /\ e = Kept(d, g) /\ Split(b, k, M, p, q)
    /\ h = Also(f, x) /\ Fields(c, e, x, q, n, h, l)

\* The old file b[k] becomes the oldest; the ones before it are empty and removed.
LEMMA NextOldest ==
    ASSUME NEW s, NEW c, NEW d, NEW b, NEW n, NEW f, NEW l, NEW N, NEW k, NEW M, NEW j, NEW x,
           NEW g, NEW e, NEW p, NEW q, NEW h, Sound(s),
           Advance(s, c, d, b, n, f, l, N, k, M, j, x, g, e, p, q, h)
    PROVE  Sound(c) /\ Contents(c) = Contents(s)
<1>0. /\ d \in Disks /\ b \in Seq(Nat) /\ n \in Nat /\ Fields(s, d, None, b, n, f, l)
      /\ N \in Nat /\ N = Len(b) /\ k \in 1..N /\ M \in Nat /\ M = N - k
      /\ j \in Nat /\ j = k - 1 /\ x \in Nat /\ x = b[k]
      /\ \A i \in 1..j : At(d, b[i]) = <<>>
      /\ g = Before(b, j) /\ e \in Disks /\ e = Kept(d, g) /\ Split(b, k, M, p, q)
      /\ h = Also(f, x) /\ Fields(c, e, x, q, n, h, l)
  BY DEF Advance
<1> USE <1>0
<1>1. q \in Seq(Nat) /\ Len(q) = M /\ \A i \in 1..M : q[i] = b[k + i]
  BY DEF Split
<1>2. p \in Seq(Nat) /\ Len(p) = j /\ (\A i \in 1..j : p[i] = b[i]) /\ b = Append(p, x) \o q
  BY DEF Split
<1>3. /\ s.disk = d /\ s.oldest = None /\ s.oldBatches = b /\ s.newest = n /\ s.fds = f
      /\ s \in Storages
  BY DEF Fields
<1>4. /\ c.disk = e /\ c.oldest = x /\ c.oldBatches = q /\ c.newest = n /\ c.fds = h
      /\ c \in Storages
  BY DEF Fields
<1>5. /\ \A u, v \in 1..N : u < v => b[u] < b[v]
      /\ \A u \in 1..N : b[u] < n
  BY <1>3 DEF Sound, Ordered
<1>6. None \notin Nat /\ x # None
  BY DEF None
<1>7. \A i : i \in DOMAIN d <=> i \in Nat /\ (i = n \/ \E u \in 1..N : i = b[u])
  BY <1>3, <1>6 DEF Sound, Ids
<1>8. \A u \in 1..N : b[u] \in Nat
  OBVIOUS
<1>9. \A i : i \in g <=> \E u \in 1..j : i = b[u]
  BY DEF Before
<1>10. n \notin g /\ \A u \in k..N : b[u] \notin g
  <2>1. n \notin g
    <3> SUFFICES ASSUME NEW u \in 1..j, n = b[u] PROVE FALSE
      BY <1>9
    <3>1. u \in 1..N
      OBVIOUS
    <3> QED BY <1>5, <3>1
  <2>2. ASSUME NEW u \in k..N PROVE b[u] \notin g
    <3> SUFFICES ASSUME NEW v \in 1..j, b[u] = b[v] PROVE FALSE
      BY <1>9
    <3>1. u \in 1..N /\ v \in 1..N /\ v < u
      OBVIOUS
    <3>2. b[v] < b[u] /\ b[u] \in Nat
      BY <1>5, <1>8, <3>1
    <3> QED BY <3>2
  <2> QED BY <2>1, <2>2
<1>11. DOMAIN e = DOMAIN d \ g
  BY KeptType
<1>12. \A i : i \notin g => At(e, i) = At(d, i)
  <2> SUFFICES ASSUME NEW i, i \notin g PROVE At(e, i) = At(d, i)
    OBVIOUS
  <2> QED BY KeptAt
<1>13. Ordered(c)
  <2>1. \A u, v \in 1..M : u < v => q[u] < q[v]
    <3> SUFFICES ASSUME NEW u \in 1..M, NEW v \in 1..M, u < v PROVE q[u] < q[v]
      OBVIOUS
    <3>1. k + u \in 1..N /\ k + v \in 1..N /\ k + u < k + v
      BY <1>1
    <3>2. PICK y \in 1..N, z \in 1..N : y = k + u /\ z = k + v /\ y < z
      BY <3>1
    <3>3. b[y] < b[z] /\ q[u] = b[y] /\ q[v] = b[z]
      BY <1>1, <1>5, <3>2
    <3> QED BY <3>3
  <2>2. \A u \in 1..M : q[u] < n /\ x < q[u]
    <3> SUFFICES ASSUME NEW u \in 1..M PROVE q[u] < n /\ x < q[u]
      OBVIOUS
    <3>1. PICK y \in 1..N : y = k + u /\ k < y
      BY <1>1
    <3>2. b[y] < n /\ b[k] < b[y] /\ q[u] = b[y]
      BY <1>1, <1>5, <3>1
    <3> QED BY <3>2
  <2>3. x < n
    BY <1>5
  <2> QED BY <1>1, <1>4, <2>1, <2>2, <2>3 DEF Ordered
<1>14. DOMAIN c.disk = Ids(c)
  <2>1. \A i : i \in Ids(c) <=> i \in Nat /\ (i = x \/ i = n \/ \E u \in 1..M : i = q[u])
    BY <1>1, <1>4 DEF Ids
  <2>2. \A i : (i = x \/ \E u \in 1..M : i = q[u]) <=> \E u \in k..N : i = b[u]
    <3> SUFFICES ASSUME NEW i
                 PROVE  (i = x \/ \E u \in 1..M : i = q[u]) <=> \E u \in k..N : i = b[u]
      OBVIOUS
    <3>1. i = x => \E u \in k..N : i = b[u]
      OBVIOUS
    <3>2. ASSUME NEW u \in 1..M, i = q[u] PROVE \E v \in k..N : i = b[v]
      <4>1. k + u \in k..N /\ q[u] = b[k + u]
        BY <1>1
      <4> QED BY <3>2, <4>1
    <3>3. ASSUME NEW u \in k..N, i = b[u] PROVE i = x \/ \E v \in 1..M : i = q[v]
      <4>1. CASE u = k
        BY <3>3, <4>1
      <4>2. CASE u # k
        <5>1. u - k \in 1..M /\ k + (u - k) = u
          BY <1>1, <4>2
        <5>2. q[u - k] = b[u]
          BY <1>1, <5>1
        <5> QED BY <3>3, <5>1, <5>2
      <4> QED BY <4>1, <4>2
    <3> QED BY <3>1, <3>2, <3>3
  <2>3. \A i : (\E u \in 1..N : i = b[u])
                  <=> (\E u \in 1..j : i = b[u]) \/ (\E u \in k..N : i = b[u])
    <3>1. 1..N = (1..j) \cup (k..N)
      OBVIOUS
    <3> QED BY <3>1
  <2>4. \A i : i \in DOMAIN e <=> i \in Nat /\ (i = n \/ \E u \in k..N : i = b[u])
    BY <1>7, <1>9, <1>10, <1>11, <2>3
  <2>5. \A i : i \in DOMAIN e <=> i \in Ids(c)
    BY <2>1, <2>2, <2>4
  <2> QED BY <1>4, <2>5
<1>15. c.fds = {i \in Nat : i = c.oldest \/ i = c.newest}
  <2>1. f = {i \in Nat : i = None \/ i = n}
    BY <1>3 DEF Sound
  <2>2. h = {i \in Nat : i = x \/ i = n}
    BY <1>6, <2>1 DEF Also
  <2> QED BY <1>4, <2>2
<1>16. Contents(c) = Contents(s)
  <2>1. First(s) = <<>> /\ First(c) = At(d, x)
    <3>1. x \notin g
      BY <1>10
    <3> QED BY <1>3, <1>4, <1>6, <1>12, <3>1 DEF First
  <2>2. At(e, n) = At(d, n)
    BY <1>10, <1>12
  <2>3. Cat(e, q) = Cat(d, q)
    <3>1. \A u \in 1..M : At(e, q[u]) = At(d, q[u])
      <4> SUFFICES ASSUME NEW u \in 1..M PROVE At(e, q[u]) = At(d, q[u])
        OBVIOUS
      <4>1. k + u \in k..N /\ q[u] = b[k + u]
        BY <1>1
      <4>2. q[u] \notin g
        BY <1>10, <4>1
      <4> QED BY <1>12, <4>2
    <3> QED BY <1>1, <3>1, CatSame
  <2>4. Cat(d, b) = At(d, x) \o Cat(d, q)
    <3>1. Append(p, x) \in Seq(Nat)
      BY <1>2
    <3>2. Cat(d, b) = Cat(d, Append(p, x)) \o Cat(d, q)
      <4>1. PICK r \in Seq(Nat) : r = Append(p, x)
        BY <3>1
      <4>2. Cat(d, r \o q) = Cat(d, r) \o Cat(d, q)
        BY <1>1, CatConcat
      <4> QED BY <1>2, <4>1, <4>2
    <3>3. Cat(d, Append(p, x)) = Cat(d, p) \o At(d, x)
      BY <1>2, CatAppend
    <3>4. Cat(d, p) = <<>>
      <4>1. \A i \in 1..Len(p) : At(d, p[i]) = <<>>
        BY <1>2
      <4> QED BY <1>2, <4>1, CatNothing
    <3>5. At(d, x) \in Files
      BY DiskType
    <3> QED BY <3>2, <3>3, <3>4, <3>5, FilesClosed
  <2>5. Contents(s) = (First(s) \o Cat(d, b)) \o At(d, n)
    BY <1>3, ContentsParts DEF Parts
  <2>6. Contents(c) = (First(c) \o Cat(e, q)) \o At(e, n)
    BY <1>4, ContentsParts DEF Parts
  <2>7. Cat(d, b) \in Files
    BY CatType
  <2>8. <<>> \o Cat(d, b) = Cat(d, b)
    BY <2>7, FilesClosed
  <2> QED BY <2>1, <2>2, <2>3, <2>4, <2>5, <2>6, <2>8
<1> QED BY <1>4, <1>13, <1>14, <1>15, <1>16 DEF Sound

\* No old file has events: they are all removed.
LEMMA NoOldest ==
    ASSUME NEW s, Sound(s), NEW d \in Disks, NEW b \in Seq(Nat), NEW n \in Nat, NEW f, NEW l,
           Fields(s, d, None, b, n, f, l),
           NEW N \in Nat, N = Len(b), \A i \in 1..N : At(d, b[i]) = <<>>,
           NEW g, g = Before(b, N), NEW e \in Disks, e = Kept(d, g),
           NEW c, Fields(c, e, None, <<>>, n, f, l)
    PROVE  Sound(c) /\ Contents(c) = Contents(s)
<1>3. /\ s.disk = d /\ s.oldest = None /\ s.oldBatches = b /\ s.newest = n /\ s.fds = f
      /\ s \in Storages
  BY DEF Fields
<1>4. /\ c.disk = e /\ c.oldest = None /\ c.oldBatches = <<>> /\ c.newest = n /\ c.fds = f
      /\ c \in Storages
  BY DEF Fields
<1>5. \A u \in 1..N : b[u] < n /\ b[u] \in Nat
  BY <1>3 DEF Sound, Ordered
<1>6. None \notin Nat
  BY DEF None
<1>7. \A i : i \in DOMAIN d <=> i \in Nat /\ (i = n \/ \E u \in 1..N : i = b[u])
  BY <1>3, <1>6 DEF Sound, Ids
<1>9. \A i : i \in g <=> \E u \in 1..N : i = b[u]
  BY DEF Before
<1>10. n \notin g
  <2> SUFFICES ASSUME NEW u \in 1..N, n = b[u] PROVE FALSE
    BY <1>9
  <2> QED BY <1>5
<1>11. DOMAIN e = DOMAIN d \ g
  BY KeptType
<1>12. At(e, n) = At(d, n)
  BY <1>10, KeptAt
<1>13. Ordered(c)
  <2>1. Len(c.oldBatches) = 0
    BY <1>4
  <2> QED BY <1>4, <2>1 DEF Ordered
<1>14. DOMAIN c.disk = Ids(c)
  <2>0. Len(c.oldBatches) = 0
    BY <1>4
  <2>1. \A i : i \in Ids(c) <=> i = n
    BY <1>4, <1>6, <2>0 DEF Ids
  <2>2. \A i : i \in DOMAIN e <=> i = n
    BY <1>7, <1>9, <1>10, <1>11
  <2> QED BY <1>4, <2>1, <2>2
<1>15. c.fds = {i \in Nat : i = c.oldest \/ i = c.newest}
  <2>1. f = {i \in Nat : i = None \/ i = n}
    BY <1>3 DEF Sound
  <2> QED BY <1>4, <2>1
<1>16. Contents(c) = Contents(s)
  <2>1. First(s) = <<>> /\ First(c) = <<>>
    BY <1>3, <1>4 DEF First
  <2>2. Cat(d, b) = <<>> /\ Cat(e, <<>>) = <<>>
    BY CatNothing, CatEmpty
  <2>5. Contents(s) = (First(s) \o Cat(d, b)) \o At(d, n)
    BY <1>3, ContentsParts DEF Parts
  <2>6. Contents(c) = (First(c) \o Cat(e, <<>>)) \o At(e, n)
    BY <1>4, ContentsParts DEF Parts
  <2> QED BY <1>12, <2>1, <2>2, <2>5, <2>6
<1> QED BY <1>4, <1>13, <1>14, <1>15, <1>16 DEF Sound

\* The fields of the storage when every old file was removed.
LEMMA CheckedNoneFields ==
    ASSUME NEW d \in Disks, NEW b \in Seq(Nat), NEW n \in Nat, NEW f \in SUBSET Nat,
           NEW l \in Nat \X Nat, Full(d, b) = {}
    PROVE  Fields(checkOldestBatch(Record(d, None, b, n, f, l), {}), Kept(d, Before(b, Len(b))),
                  None, <<>>, n, f, l)
<1>1. PICK e \in Disks : e = Kept(d, Before(b, Len(b)))
  BY KeptType
<1>2. After(b, Len(b)) = <<>> /\ <<>> \in Seq(Nat)
  BY DEF After
<1>3. checkOldestBatch(Record(d, None, b, n, f, l), {}) = Record(e, None, <<>>, n, f, l)
  BY <1>1, <1>2, CheckedNone
<1>4. Record(e, None, <<>>, n, f, l) \in Storages
  BY <1>2, RecordType
<1>5. PICK c : c = Record(e, None, <<>>, n, f, l)
  OBVIOUS
<1>6. Fields(c, e, None, <<>>, n, f, l)
  BY <1>4, <1>5, RecordFields DEF Fields
<1> QED BY <1>1, <1>3, <1>5, <1>6

\* checkOldestBatch keeps the events of the storage, and settles where they are read from.
LEMMA OldestChecked ==
    ASSUME NEW s, Sound(s), NEW c, c = checkOldestBatch(s, {})
    PROVE  /\ Sound(c) /\ Contents(c) = Contents(s) /\ Settled(c) /\ c.limit = s.limit
           /\ Solid(s) => Solid(c)
<1>1. s \in Storages
  BY DEF Sound
<1>2. CASE s.oldest # None
  <2>1. c = s
    BY <1>2 DEF checkOldestBatch
  <2> QED BY <1>2, <2>1 DEF Settled
<1>3. CASE s.oldest = None
  <2>1. PICK d, b, n, f, l : /\ d = s.disk /\ b = s.oldBatches /\ n = s.newest /\ f = s.fds /\ l = s.limit
                             /\ d \in Disks /\ b \in Seq(Nat) /\ n \in Nat /\ f \in SUBSET Nat
                             /\ l \in Nat \X Nat
    BY <1>1, StorageTypes
  <2>1a. d \in Disks /\ b \in Seq(Nat) /\ n \in Nat
    BY <2>1
  <2>2. s = Record(d, None, b, n, f, l)
    BY <1>1, <1>3, <2>1, RecordOf
  <2>3. Fields(s, d, None, b, n, f, l)
    BY <1>1, <1>3, <2>1 DEF Fields
  <2>4. FullOf(s) = Full(d, b)
    BY <2>1 DEF FullOf, Full, Stored, At
  <2>5. PICK N \in Nat : N = Len(b)
    BY <2>1
  <2>6. \A i : i \in Full(d, b) <=> i \in 1..N /\ At(d, b[i]) # <<>>
    BY <2>1, <2>5 DEF Full
  <2>7. CASE Full(d, b) = {}
    <3>1. Fields(c, Kept(d, Before(b, Len(b))), None, <<>>, n, f, l)
      BY <2>1, <2>2, <2>7, CheckedNoneFields
    <3>2. PICK g : g = Before(b, N)
      OBVIOUS
    <3>3. PICK e \in Disks : e = Kept(d, g)
      BY <2>1, KeptType
    <3>4. Fields(c, e, None, <<>>, n, f, l)
      BY <2>5, <3>1, <3>2, <3>3
    <3>5. \A i \in 1..N : At(d, b[i]) = <<>>
      BY <2>6, <2>7
    <3>6. Sound(c) /\ Contents(c) = Contents(s)
      BY <2>1a, <2>3, <2>5, <3>2, <3>3, <3>4, <3>5, NoOldest
    <3>7. Settled(c) /\ c.limit = s.limit /\ Solid(c)
      BY <2>1, <3>4 DEF Settled, Solid, Fields
    <3> QED BY <3>6, <3>7
  <2>8. CASE Full(d, b) # {}
    <3>1. Full(d, b) \in SUBSET Nat
      BY <2>6
    <3>2. PICK k : k = Min(Full(d, b)) /\ k \in Full(d, b) /\ \A y \in Full(d, b) : k <= y
      BY <2>8, <3>1, Least
    <3>3. k \in 1..N /\ At(d, b[k]) # <<>> /\ b[k] \in Nat
      BY <2>1, <2>5, <2>6, <3>2
    <3>4. PICK j \in Nat, M \in Nat : j = k - 1 /\ M = N - k
      BY <3>3
    <3>5. \A i \in 1..j : At(d, b[i]) = <<>>
      <4> SUFFICES ASSUME NEW i \in 1..j, At(d, b[i]) # <<>> PROVE FALSE
        OBVIOUS
      <4>1. i \in 1..N /\ i < k
        BY <3>3, <3>4
      <4>2. i \in Full(d, b)
        BY <2>6, <4>1
      <4> QED BY <3>2, <3>3, <4>1, <4>2
    <3>6. IsNext(s, k)
      BY <1>3, <2>4, <2>8, <3>2 DEF IsNext
    <3>7. Fields(c, Kept(d, Before(b, j)), b[k], After(b, k), n, Also(f, b[k]), l)
      <4>1. k \in Nat /\ s.oldBatches[k] \in Nat
        BY <2>1, <3>3
      <4>2. j = k - 1 /\ j \in Nat
        BY <3>4
      <4>3. Fields(checkOldestBatch(s, {}), Kept(s.disk, Before(s.oldBatches, j)), s.oldBatches[k],
                  After(s.oldBatches, k), s.newest, Also(s.fds, s.oldBatches[k]), s.limit)
        BY <1>1, <3>6, <4>1, <4>2, CheckedNext
      <4> QED BY <2>1, <4>3
    <3>8. PICK x, g, h, q : x = b[k] /\ g = Before(b, j) /\ h = Also(f, x) /\ q = After(b, k)
      OBVIOUS
    <3>9. PICK e : e = Kept(d, g) /\ e \in Disks
      BY <2>1, KeptType
    <3>10. PICK p : Split(b, k, M, p, q)
      BY <2>1, <2>5, <3>3, <3>4, <3>8, SplitAt
    <3>11. Fields(c, e, x, q, n, h, l) /\ x \in Nat
      BY <3>3, <3>7, <3>8, <3>9
    <3>11a. x = b[k] /\ g = Before(b, j) /\ h = Also(f, x) /\ k \in 1..N
      BY <3>3, <3>8
    <3>11b. Advance(s, c, d, b, n, f, l, N, k, M, j, x, g, e, p, q, h)
      BY <2>1a, <2>3, <2>5, <3>4, <3>5, <3>9, <3>10, <3>11, <3>11a DEF Advance
    <3>12. Sound(c) /\ Contents(c) = Contents(s)
      BY <3>11b, NextOldest
    <3>13. Settled(c) /\ c.limit = s.limit
      <4>1. c.oldest = x /\ c.limit = l
        BY <3>11 DEF Fields
      <4>2. x # None
        BY <3>11 DEF None
      <4> QED BY <2>1, <4>1, <4>2 DEF Settled
    <3>14. Solid(c)
      <4>1. At(d, x) # <<>> /\ \A i \in 1..j : b[i] # x
        BY <3>3, <3>5, <3>8
      <4>2. x \notin g
        BY <3>8, <4>1 DEF Before
      <4>3. At(e, x) = At(d, x)
        BY <3>9, <4>2, KeptAt
      <4> QED BY <3>11, <4>1, <4>3 DEF Solid, Fields
    <3> QED BY <3>12, <3>13, <3>14
  <2> QED BY <2>7, <2>8
<1> QED BY <1>2, <1>3

-----------------------------------------------------------------------------
(* The list in flight *)

\* Max is the greatest element of a set of counts.
LEMMA Greatest0 ==
    ASSUME NEW n \in Nat, NEW T \in SUBSET (0..n), T # {}
    PROVE  Max(T) \in T
<1> DEFINE U == {i \in 0..n : n - i \in T}
<1>1. U \in SUBSET Nat /\ U # {}
  <2>1. PICK x \in T : TRUE
    OBVIOUS
  <2>2. n - x \in 0..n /\ n - (n - x) = x
    BY <2>1
  <2>3. n - x \in U
    BY <2>1, <2>2
  <2>4. U \in SUBSET Nat
    OBVIOUS
  <2> HIDE DEF U
  <2> QED BY <2>3, <2>4
<1>2. Min(U) \in U /\ \A y \in U : Min(U) <= y
  <2> HIDE DEF U
  <2> QED BY <1>1, Least
<1>3. PICK m \in 0..n : n - m \in T /\ \A y \in U : m <= y
  BY <1>2
<1>4. \A y \in T : n - m >= y
  <2> SUFFICES ASSUME NEW y \in T PROVE n - m >= y
    OBVIOUS
  <2>1. n - y \in 0..n /\ n - (n - y) = y
    OBVIOUS
  <2>2. n - y \in U
    BY <2>1
  <2>3. m <= n - y
    BY <1>3, <2>2
  <2> QED BY <2>1, <2>3
<1>5. \E x \in T : \A y \in T : x >= y
  BY <1>3, <1>4
<1> QED BY <1>5 DEF Max

\* The first k events, and the others.
Prefix(v, k) == SubSeq(v, 1, k)
Cut(v, k)    == SubSeq(v, k + 1, Len(v))

\* The list holds the first events of the file.
IsList(l, v) == l.count \in 0..Len(v) /\ l.size = TotalSize(Prefix(v, l.count))

\* The empty prefix has size 0.
LEMMA PrefixZero ==
    ASSUME NEW v \in Seq(Events)
    PROVE  TotalSize(Prefix(v, 0)) = 0
<1>1. Prefix(v, 0) = <<>>
  BY DEF Prefix
<1> QED BY <1>1, SizeOf

\* A prefix of a prefix.
LEMMA PrefixLonger ==
    ASSUME NEW v \in Seq(Events), NEW x \in Seq(Events), NEW k \in 0..Len(v)
    PROVE  Prefix(v \o x, k) = Prefix(v, k) /\ k \in 0..Len(v \o x)
<1>1. CASE k = 0
  BY <1>1 DEF Prefix
<1>2. CASE k # 0
  BY <1>2, SubSeqOfConcat1 DEF Prefix
<1>3. k \in 0..Len(v \o x)
  OBVIOUS
<1> QED BY <1>1, <1>2, <1>3

\* Cutting the first events does not touch what is behind them.
LEMMA CutBehind ==
    ASSUME NEW p \in Seq(Events), NEW w \in Seq(Events), NEW k, k = Len(p)
    PROVE  Cut(p \o w, k) = w
<1>1. PICK K \in Nat, W \in Nat : K = Len(p) /\ W = Len(w)
  OBVIOUS
<1>2. Len(p \o w) = K + W
  BY <1>1, ConcatProperties
<1>3. CASE W = 0
  <2>1. w = <<>>
    BY <1>1, <1>3, EmptySeq
  <2>2. SubSeq(p \o w, K + 1, K + W) = <<>>
    BY <1>3, SubSeqEmpty
  <2> QED BY <1>1, <1>2, <2>1, <2>2 DEF Cut
<1>4. CASE W # 0
  <2>1. PICK m, n : m = K + 1 /\ n = K + W /\ m \in (K + 1)..(K + W) /\ n \in (K + 1)..(K + W)
                    /\ m - K = 1 /\ n - K = W
    BY <1>4
  <2>2. SubSeq(p \o w, m, n) = SubSeq(w, m - K, n - K)
    BY <1>1, <2>1, SubSeqOfConcat2
  <2>3. SubSeq(w, 1, W) = w
    BY <1>1, SubSeqFull
  <2>4. SubSeq(p \o w, m, n) = w
    BY <2>1, <2>2, <2>3
  <2> QED BY <1>1, <1>2, <2>1, <2>4 DEF Cut
<1> QED BY <1>3, <1>4

\* A prefix and what it leaves are the whole.
LEMMA Halves ==
    ASSUME NEW v \in Seq(Events), NEW k \in 0..Len(v)
    PROVE  /\ Prefix(v, k) \in Seq(Events) /\ Len(Prefix(v, k)) = k
           /\ Cut(v, k) \in Seq(Events)
           /\ v = Prefix(v, k) \o Cut(v, k)
<1>1. Prefix(v, k) \in Seq(Events) /\ Len(Prefix(v, k)) = k
  BY DEF Prefix
<1>2. Cut(v, k) \in Seq(Events)
  BY DEF Cut
<1>3. SubSeq(v, 1, k) \o SubSeq(v, k + 1, Len(v)) = SubSeq(v, 1, Len(v))
  <2>1. PICK N \in Nat : N = Len(v)
    OBVIOUS
  <2>2. 1 \in 1..(Len(v) + 1) /\ k \in (1 - 1)..Len(v) /\ N \in k..Len(v)
    BY <2>1
  <2>3. SubSeq(v, 1, k) \o SubSeq(v, k + 1, N) = SubSeq(v, 1, N)
    BY <2>2, ConcatAdjacentSubSeq
  <2> QED BY <2>1, <2>3
<1>4. SubSeq(v, 1, Len(v)) = v
  BY SubSeqFull
<1> QED BY <1>1, <1>2, <1>3, <1>4 DEF Prefix, Cut

\* Cutting the first k events of two joined sequences is cutting them from the first.
LEMMA CutFront ==
    ASSUME NEW v \in Seq(Events), NEW r \in Seq(Events), NEW k \in 0..Len(v)
    PROVE  Cut(v \o r, k) = Cut(v, k) \o r
<1>1. PICK p \in Seq(Events), c \in Seq(Events) : p = Prefix(v, k) /\ c = Cut(v, k) /\ v = p \o c /\ Len(p) = k
  BY Halves
<1>2. (p \o c) \o r = p \o (c \o r)
  BY ConcatAssociative, SMTT(60)
<1>3. c \o r \in Seq(Events)
  BY ConcatProperties
<1>4. PICK w \in Seq(Events) : w = c \o r
  BY <1>3
<1>5. Cut(p \o w, k) = w
  BY <1>1, CutBehind
<1>6. v \o r = p \o w
  BY <1>1, <1>2, <1>4
<1> QED BY <1>1, <1>4, <1>5, <1>6

\* Cutting everything leaves the rest.
LEMMA CutAll ==
    ASSUME NEW v \in Seq(Events)
    PROVE  Cut(v, Len(v)) = <<>> /\ \A k \in 0..Len(v) : Cut(v, k) \in Seq(Events)
BY DEF Cut

\* The file uploads are read from is open: oldestBatch, or the newest without one.
LEMMA FrontOpen ==
    ASSUME NEW s, Sound(s)
    PROVE  /\ front(s) \in DOMAIN s.disk /\ front(s) \in s.fds
           /\ Content(s, front(s)) = At(s.disk, front(s))
           /\ At(s.disk, front(s)) \in Seq(Events)
<1>1. front(s) \in DOMAIN s.disk /\ front(s) \in s.fds
  BY Distinct DEF front
<1>2. s.disk \in Disks
  BY StorageTypes DEF Sound
<1>3. At(s.disk, front(s)) \in Files
  BY <1>2, DiskType
<1> QED BY <1>1, <1>3 DEF Content, Stored, At, Files

\* The list getEventsForUpload cuts from a file.
LEMMA PrefixListed ==
    ASSUME NEW v \in Seq(Events), NEW mc \in Nat, NEW ms \in Nat, NEW l, l = prefixList(v, mc, ms)
    PROVE  IsList(l, v)
<1>1. PICK N \in Nat : N = Len(v)
  OBVIOUS
<1>2. PICK m : m = Min({mc, N}) /\ m \in Nat /\ m <= N
  <2>1. {mc, N} \in SUBSET Nat /\ {mc, N} # {}
    OBVIOUS
  <2>2. Min({mc, N}) \in {mc, N} /\ \A y \in {mc, N} : Min({mc, N}) <= y
    BY <2>1, Least
  <2> QED BY <2>2
<1>3. PICK T : T = {n \in 0..m : TotalSize(Prefix(v, n)) <= ms}
  OBVIOUS
<1>4. T \in SUBSET (0..m) /\ T # {}
  <2>1. 0 \in 0..m /\ TotalSize(Prefix(v, 0)) <= ms
    BY <1>2, PrefixZero
  <2>2. 0 \in T
    BY <1>3, <2>1
  <2> QED BY <1>3, <2>2
<1>5. Max(T) \in T
  BY <1>2, <1>4, Greatest0
<1>6. PICK n : n = Max(T) /\ n \in 0..N
  <2>1. PICK n : n = Max(T) /\ n \in 0..m
    BY <1>4, <1>5, Zenon
  <2>2. n \in 0..N
    BY <1>2, <2>1
  <2> QED BY <2>1, <2>2
<1>7. l = [count |-> n, size |-> TotalSize(Prefix(v, n)), more |-> n < N]
  BY <1>1, <1>2, <1>3, <1>6 DEF prefixList, Prefix
<1>8. l.count = n /\ l.size = TotalSize(Prefix(v, n))
  BY <1>7
<1> QED BY <1>1, <1>6, <1>8 DEF IsList

\* getEventsForUpload of the file uploads are read from.
LEMMA ListTaken ==
    ASSUME NEW s, Sound(s), NEW mc \in Nat, NEW ms \in Nat, NEW l, l = getEventsForUpload(s, mc, ms)
    PROVE  l = NullList \/ IsList(l, At(s.disk, front(s)))
<1>1. PICK v \in Seq(Events) : v = At(s.disk, front(s)) /\ v = Content(s, front(s))
  BY FrontOpen
<1>2. CASE v = <<>> \/ mc = 0
  BY <1>1, <1>2 DEF getEventsForUpload
<1>3. CASE ~(v = <<>> \/ mc = 0)
  <2>1. PICK p : p = prefixList(v, mc, ms)
    OBVIOUS
  <2>2. IsList(p, v)
    BY <2>1, PrefixListed
  <2>3. l = [p EXCEPT !.more = @ \/ s.oldest # None]
    BY <1>1, <1>3, <2>1, Zenon DEF getEventsForUpload
  <2>4. l.count = p.count /\ l.size = p.size
    BY <2>3
  <2> QED BY <1>1, <2>2, <2>4 DEF IsList
<1> QED BY <1>2, <1>3

\* The events of a settled storage: the file uploads are read from, then the others.
LEMMA FrontFirst ==
    ASSUME NEW s, Sound(s), Settled(s)
    PROVE  \E r \in Files : /\ Contents(s) = At(s.disk, front(s)) \o r
                            /\ s.oldest = None => r = <<>>
                            /\ s.oldest # None => r = Cat(s.disk, s.oldBatches) \o At(s.disk, s.newest)
<1>1. PICK d, b, n : /\ d = s.disk /\ b = s.oldBatches /\ n = s.newest /\ s \in Storages
                     /\ d \in Disks /\ b \in Seq(Nat) /\ n \in Nat
  BY StorageTypes DEF Sound
<1>2. Contents(s) = (First(s) \o Cat(d, b)) \o At(d, n)
  BY <1>1, ContentsParts DEF Parts
<1>3. Cat(d, b) \in Files /\ At(d, n) \in Files /\ <<>> \in Files
  BY <1>1, CatType, DiskType, FilesClosed
<1>4. CASE s.oldest = None
  <2>1. First(s) = <<>> /\ Cat(d, b) = <<>> /\ front(s) = n
    BY <1>1, <1>4, CatEmpty DEF First, Settled, front
  <2>2. Contents(s) = At(d, n) \o <<>>
    BY <1>2, <1>3, <2>1, FilesClosed
  <2> QED BY <1>1, <1>3, <1>4, <2>1, <2>2
<1>5. CASE s.oldest # None
  <2>1. First(s) = At(d, front(s))
    BY <1>1, <1>5 DEF First, front
  <2>2. At(d, front(s)) \in Files
    BY <1>1, DiskType
  <2>3. Contents(s) = At(d, front(s)) \o (Cat(d, b) \o At(d, n))
    BY <1>2, <1>3, <2>1, <2>2, FilesClosed
  <2>4. Cat(d, b) \o At(d, n) \in Files
    BY <1>3, FilesClosed
  <2> QED BY <1>1, <1>5, <2>3, <2>4
<1> QED BY <1>4, <1>5

\* Removing the events of the list.
LEMMA Whole ==
    ASSUME NEW v \in Seq(Events), NEW l, IsList(l, v)
    PROVE  /\ TotalSize(v) = l.size <=> l.count = Len(v)
           /\ TotalSize(v) = l.size => Cut(v, l.count) = <<>>
<1>1. PICK k \in 0..Len(v) : k = l.count /\ l.size = TotalSize(Prefix(v, k))
  BY DEF IsList
<1>2. TotalSize(Prefix(v, k)) = TotalSize(v) => k = Len(v)
  BY SizeOfPrefix DEF Prefix
<1>3. Prefix(v, Len(v)) = v
  BY SubSeqFull DEF Prefix
<1>4. Cut(v, Len(v)) = <<>>
  BY CutAll
<1> QED BY <1>1, <1>2, <1>3, <1>4

\* The storage without its oldest file.
Removed(s, id) == [removeFile(s, id) EXCEPT !.oldest = None]
Closed(f, id) == f \ {id}

\* The storage after remove() of the oldest file.
LEMMA RemovedFields ==
    ASSUME NEW s \in Storages, NEW id
    PROVE  Fields(Removed(s, id), Kept(s.disk, {id}), None, s.oldBatches, s.newest,
                  Closed(s.fds, id), s.limit)
<1>1. PICK d : d = Kept(s.disk, {id}) /\ d \in Disks
  BY KeptType, StorageTypes
<1>2. PICK f : f = Closed(s.fds, id) /\ f \in SUBSET Nat
  <2>1. Closed(s.fds, id) \in SUBSET Nat
    BY StorageTypes DEF Closed
  <2> QED BY <2>1
<1>3. PICK w : w = Removed(s, id)
  OBVIOUS
<1>4. w = [[s EXCEPT !.disk = d, !.fds = f] EXCEPT !.oldest = None]
  BY <1>1, <1>2, <1>3, Zenon DEF Removed, removeFile, Kept, Closed
<1>5. w \in Storages
  BY <1>1, <1>2, <1>4 DEF Storages
<1>6. /\ w.disk = d /\ w.oldest = None /\ w.fds = f /\ w.oldBatches = s.oldBatches
      /\ w.newest = s.newest /\ w.limit = s.limit
  BY <1>1, <1>2, <1>4 DEF Storages
<1> QED BY <1>1, <1>2, <1>3, <1>5, <1>6 DEF Fields

\* What onEventsUploaded does to the file.
LEMMA UploadedFile ==
    ASSUME NEW s, Sound(s), NEW l, NEW v \in Seq(Events), v = At(s.disk, front(s)), IsList(l, v)
    PROVE  onEventsUploaded(s, l) =
              IF l.count = Len(v) /\ s.oldest # None THEN Removed(s, front(s))
              ELSE OnDisk(s, Put(s.disk, front(s), Cut(v, l.count)))
<1>1. front(s) \in s.fds /\ front(s) \in DOMAIN s.disk /\ Content(s, front(s)) = v /\ s.disk[front(s)] = v
  BY FrontOpen DEF At
<1>2. TotalSize(v) = l.size <=> l.count = Len(v)
  BY Whole
<1>3. CASE l.count = Len(v) /\ s.oldest # None
  <2>1. onEventsUploaded(s, l) = [removeFile(s, front(s)) EXCEPT !.oldest = None]
    BY <1>1, <1>2, <1>3, Zenon DEF onEventsUploaded
  <2> QED BY <1>3, <2>1 DEF Removed
<1>4. CASE ~(l.count = Len(v) /\ s.oldest # None)
  <2>1. onEventsUploaded(s, l)
          = [s EXCEPT !.disk[front(s)] = IF TotalSize(v) = l.size THEN <<>>
                                         ELSE SubSeq(@, l.count + 1, Len(@))]
    BY <1>1, <1>2, <1>4, Zenon DEF onEventsUploaded
  <2>2. (IF TotalSize(v) = l.size THEN <<>> ELSE SubSeq(v, l.count + 1, Len(v))) = Cut(v, l.count)
    BY Whole DEF Cut
  <2>3. onEventsUploaded(s, l) = [s EXCEPT !.disk = [s.disk EXCEPT ![front(s)] = Cut(v, l.count)]]
    BY <1>1, <2>1, <2>2, Zenon
  <2> QED BY <1>4, <2>3, Zenon DEF OnDisk, Put
<1> QED BY <1>3, <1>4

-----------------------------------------------------------------------------
(* onEventsUploaded *)

\* The events behind the file uploads are read from.
IsRest(s, r) ==
    /\ r \in Files
    /\ s.oldest = None => r = <<>>
    /\ s.oldest # None => r = Cat(s.disk, s.oldBatches) \o At(s.disk, s.newest)

\* There are events behind the front, possibly none.
LEMMA RestExists ==
    ASSUME NEW s, Sound(s), Settled(s)
    PROVE  \E r : IsRest(s, r) /\ Contents(s) = At(s.disk, front(s)) \o r
BY FrontFirst DEF IsRest

\* They are all the events but the ones of the front file.
LEMMA RestIs ==
    ASSUME NEW s, Sound(s), Settled(s), NEW r, IsRest(s, r)
    PROVE  Contents(s) = At(s.disk, front(s)) \o r
BY FrontFirst DEF IsRest

\* The first file is written.
LEMMA FrontPut ==
    ASSUME NEW s, Sound(s), Settled(s), NEW w \in Files, NEW r, IsRest(s, r),
           NEW u, u = OnDisk(s, Put(s.disk, front(s), w))
    PROVE  Sound(u) /\ Contents(u) = w \o r /\ u.limit = s.limit
<1>1. PICK id : id = front(s) /\ id \in DOMAIN s.disk
  BY FrontOpen
<1>2. u = OnDisk(s, Put(s.disk, id, w))
  BY <1>1
<1>3. /\ Sound(u)
      /\ u.disk = Put(s.disk, id, w) /\ u.oldest = s.oldest /\ u.oldBatches = s.oldBatches
      /\ u.newest = s.newest /\ u.limit = s.limit
  BY <1>1, <1>2, PutSound
<1>4. Settled(u) /\ front(u) = id
  BY <1>1, <1>3 DEF Settled, front
<1>5. At(u.disk, front(u)) = w
  BY <1>1, <1>3, <1>4, PutAt
<1>6. \A j : j # id => At(u.disk, j) = At(s.disk, j)
  <2> SUFFICES ASSUME NEW j, j # id PROVE At(u.disk, j) = At(s.disk, j)
    OBVIOUS
  <2> QED BY <1>3, PutOther
<1>7. IsRest(u, r)
  <2>1. CASE s.oldest = None
    BY <1>3, <2>1 DEF IsRest
  <2>2. CASE s.oldest # None
    <3>1. id = s.oldest
      BY <1>1, <2>2 DEF front
    <3>2. At(u.disk, u.newest) = At(s.disk, s.newest)
      BY <1>3, <1>6, <3>1, Distinct
    <3>3. PICK d, e, b : /\ d = s.disk /\ e = u.disk /\ b = s.oldBatches
                         /\ d \in Disks /\ e \in Disks /\ b \in Seq(Nat)
      BY <1>3, StorageTypes DEF Sound
    <3>4. \A k \in 1..Len(b) : At(d, b[k]) = At(e, b[k])
      <4> SUFFICES ASSUME NEW k \in 1..Len(b) PROVE At(d, b[k]) = At(e, b[k])
        OBVIOUS
      <4>1. b[k] # id
        BY <3>1, <3>3, Distinct
      <4> QED BY <1>6, <3>3, <4>1
    <3>4a. b \in Seq(Nat)
      BY <3>3
    <3>5. Cat(d, b) = Cat(e, b)
      BY <3>4, <3>4a, CatSame
    <3> QED BY <1>3, <2>2, <3>2, <3>3, <3>5 DEF IsRest
  <2> QED BY <2>1, <2>2
<1>8. Contents(u) = At(u.disk, front(u)) \o r
  BY <1>3, <1>4, <1>7, RestIs
<1> QED BY <1>3, <1>5, <1>8

\* The first file is removed; the next getEventsForUpload looks for another.
LEMMA FrontRemoved ==
    ASSUME NEW s, Sound(s), s.oldest # None, NEW r, IsRest(s, r), NEW u, u = Removed(s, front(s))
    PROVE  Sound(u) /\ Contents(u) = r /\ u.limit = s.limit
<1>1. PICK d, o, b, n, f, l : /\ d = s.disk /\ o = s.oldest /\ b = s.oldBatches /\ n = s.newest
                              /\ f = s.fds /\ l = s.limit /\ s \in Storages
                              /\ d \in Disks /\ o \in Nat /\ b \in Seq(Nat) /\ n \in Nat /\ f \in SUBSET Nat
  BY StorageTypes DEF Sound
<1>1a. d \in Disks /\ o \in Nat /\ b \in Seq(Nat) /\ n \in Nat /\ None \notin Nat
  BY <1>1 DEF None
<1>2. front(s) = o
  BY <1>1 DEF front
<1>3. PICK e : e = Kept(d, {o}) /\ e \in Disks /\ DOMAIN e = DOMAIN d \ {o}
  BY <1>1a, KeptType
<1>4. Fields(u, e, None, b, n, Closed(f, o), l)
  <2>1. Fields(Removed(s, o), Kept(s.disk, {o}), None, s.oldBatches, s.newest, Closed(s.fds, o), s.limit)
    BY <1>1, RemovedFields
  <2> QED BY <1>1, <1>2, <1>3, <2>1
<1>5. /\ u \in Storages /\ u.disk = e /\ u.oldest = None /\ u.oldBatches = b /\ u.newest = n
      /\ u.fds = Closed(f, o) /\ u.limit = l
  BY <1>4 DEF Fields
<1>6. o # n /\ \A k \in 1..Len(b) : b[k] # o
  BY <1>1, Distinct
<1>7. Ordered(u)
  BY <1>1, <1>5 DEF Ordered, Sound
<1>8. DOMAIN u.disk = Ids(u)
  <2>1. \A i : i \in DOMAIN d <=> i \in Nat /\ (i = o \/ i = n \/ \E k \in 1..Len(b) : i = b[k])
    BY <1>1 DEF Sound, Ids
  <2>2. \A i : i \in Ids(u) <=> i \in Nat /\ (i = n \/ \E k \in 1..Len(b) : i = b[k])
    BY <1>1a, <1>5 DEF Ids
  <2>3. \A i : i \in DOMAIN e <=> i \in Ids(u)
    BY <1>3, <1>6, <2>1, <2>2
  <2> QED BY <1>5, <2>3
<1>9. u.fds = {i \in Nat : i = u.oldest \/ i = u.newest}
  <2>1. f = {i \in Nat : i = o \/ i = n}
    BY <1>1 DEF Sound
  <2>2. Closed(f, o) = {i \in Nat : i = None \/ i = n}
    BY <1>1a, <1>6, <2>1 DEF Closed
  <2> QED BY <1>5, <2>2
<1>10. \A j : j # o => At(e, j) = At(d, j)
  <2> SUFFICES ASSUME NEW j, j # o PROVE At(e, j) = At(d, j)
    OBVIOUS
  <2>1. j \notin {o}
    OBVIOUS
  <2> QED BY <1>3, <2>1, KeptAt
<1>11. Cat(e, b) = Cat(d, b)
  <2>1. \A k \in 1..Len(b) : At(e, b[k]) = At(d, b[k])
    BY <1>6, <1>10
  <2> QED BY <1>1a, <2>1, CatSame
<1>12. Contents(u) = (First(u) \o Cat(e, b)) \o At(e, n)
  BY <1>5, ContentsParts DEF Parts
<1>13. First(u) = <<>> /\ At(e, n) = At(d, n)
  BY <1>5, <1>6, <1>10 DEF First
<1>14. Cat(d, b) \in Files
  BY <1>1a, CatType
<1>15. r = Cat(d, b) \o At(d, n)
  BY <1>1 DEF IsRest
<1>16. Contents(u) = r
  BY <1>11, <1>12, <1>13, <1>14, <1>15, FilesClosed
<1> QED BY <1>1, <1>5, <1>7, <1>8, <1>9, <1>16 DEF Sound

\* onEventsUploaded removes the events of its list, and only these, from the front.
LEMMA Uploaded ==
    ASSUME NEW s, Sound(s), Settled(s), NEW l, IsList(l, At(s.disk, front(s))),
           NEW u, u = onEventsUploaded(s, l)
    PROVE  Sound(u) /\ Contents(u) = Cut(Contents(s), l.count) /\ u.limit = s.limit
<1>1. PICK v \in Seq(Events) : v = At(s.disk, front(s))
  BY FrontOpen
<1>2. IsList(l, v)
  BY <1>1
<1>3. PICK r : IsRest(s, r) /\ Contents(s) = v \o r
  BY <1>1, RestExists
<1>4. PICK k \in 0..Len(v) : k = l.count
  BY <1>2 DEF IsList
<1>5. r \in Seq(Events)
  BY <1>3 DEF IsRest, Files
<1>6. Cut(v \o r, k) = Cut(v, k) \o r /\ Cut(v, k) \in Seq(Events)
  BY <1>5, CutFront, CutAll
<1>7. u = IF l.count = Len(v) /\ s.oldest # None THEN Removed(s, front(s))
          ELSE OnDisk(s, Put(s.disk, front(s), Cut(v, l.count)))
  BY <1>1, <1>2, UploadedFile
<1>8. CASE l.count = Len(v) /\ s.oldest # None
  <2>1. u = Removed(s, front(s))
    BY <1>7, <1>8
  <2>2. Sound(u) /\ Contents(u) = r /\ u.limit = s.limit
    BY <1>3, <1>8, <2>1, FrontRemoved
  <2>3. Cut(v, k) = <<>>
    BY <1>4, <1>8, CutAll
  <2>4. <<>> \o r = r
    BY <1>5
  <2> QED BY <1>3, <1>4, <1>6, <2>2, <2>3, <2>4
<1>9. CASE ~(l.count = Len(v) /\ s.oldest # None)
  <2>1. PICK w : w = Cut(v, k) /\ w \in Files
    BY <1>6 DEF Files
  <2>2. u = OnDisk(s, Put(s.disk, front(s), w))
    BY <1>4, <1>7, <1>9, <2>1
  <2>3. Sound(u) /\ Contents(u) = w \o r /\ u.limit = s.limit
    BY <1>3, <2>1, <2>2, FrontPut
  <2> QED BY <1>3, <1>4, <1>6, <2>1, <2>3
<1> QED BY <1>8, <1>9

-----------------------------------------------------------------------------
(* The constructor on the files of a previous process *)

\* A strictly increasing function of 1..n into itself is the identity.
LEMMA StrictlyUp ==
    ASSUME NEW n \in Nat, NEW m \in [1..n -> 1..n], \A i, j \in 1..n : i < j => m[i] < m[j]
    PROVE  \A i \in 1..n : m[i] = i
<1> DEFINE T == {k \in 0..n : \A i \in 1..n : i <= k => m[i] >= i}
           U == {k \in 0..n : \A i \in 1..n : i > n - k => m[i] <= i}
<1>1. \A i \in 1..n : m[i] \in 1..n
  OBVIOUS
<1>2. \A k \in 0..n : k \in T
  <2>1. 0 \in T
    OBVIOUS
  <2>2. ASSUME NEW k \in 1..n, k - 1 \in T PROVE k \in T
    <3> SUFFICES ASSUME NEW i \in 1..n, i <= k PROVE m[i] >= i
      OBVIOUS
    <3>1. CASE i <= k - 1
      BY <2>2, <3>1
    <3>2. CASE i = k /\ k = 1
      BY <1>1, <3>2
    <3>3. CASE i = k /\ k # 1
      <4>1. k - 1 \in 1..n
        BY <3>3
      <4>2. m[k - 1] >= k - 1 /\ m[k - 1] < m[k] /\ m[k] \in Int /\ m[k - 1] \in Int
        BY <1>1, <2>2, <4>1
      <4> QED BY <3>3, <4>2
    <3> QED BY <3>1, <3>2, <3>3
  <2> HIDE DEF T
  <2> QED BY <2>1, <2>2, Climb
<1>3. \A k \in 0..n : k \in U
  <2>1. 0 \in U
    OBVIOUS
  <2>2. ASSUME NEW k \in 1..n, k - 1 \in U PROVE k \in U
    <3> SUFFICES ASSUME NEW i \in 1..n, i > n - k PROVE m[i] <= i
      OBVIOUS
    <3>1. CASE i > n - (k - 1)
      BY <2>2, <3>1
    <3>2. CASE i = n - k + 1 /\ k = 1
      BY <1>1, <3>2
    <3>3. CASE i = n - k + 1 /\ k # 1
      <4>1. i + 1 \in 1..n /\ i + 1 > n - (k - 1)
        BY <3>3
      <4>2. m[i + 1] <= i + 1 /\ m[i] < m[i + 1] /\ m[i] \in Int /\ m[i + 1] \in Int
        BY <1>1, <2>2, <4>1
      <4> QED BY <4>2
    <3> QED BY <3>1, <3>2, <3>3
  <2> HIDE DEF U
  <2> QED BY <2>1, <2>2, Climb
<1>4. n \in T /\ n \in U
  <2> HIDE DEF T, U
  <2> QED BY <1>2, <1>3
<1>5. \A i \in 1..n : m[i] >= i /\ m[i] <= i
  BY <1>4
<1> QED BY <1>1, <1>5

\* The directory is listed in the order of the ids.
Sorted(q, n) == \A i, j \in 1..n : i < j => q[i] < q[j]

\* The sorted directory is the only increasing list of its ids.
LEMMA AscendingIs ==
    ASSUME NEW q \in Seq(Nat), NEW n \in Nat, n = Len(q), Sorted(q, n),
           NEW D, \A i : i \in D <=> \E k \in 1..n : i = q[k]
    PROVE  Ascending(D) = q
<1>1. q \in [1..n -> D] /\ DOMAIN q = 1..n /\ \A k \in 1..n : q[k] \in Nat
  OBVIOUS
<1>2. Cardinality(D) = n
  <2>1. \A i, j \in 1..n : q[i] = q[j] => i = j
    <3> SUFFICES ASSUME NEW i \in 1..n, NEW j \in 1..n, q[i] = q[j], i # j PROVE FALSE
      OBVIOUS
    <3>1. i < j \/ j < i
      OBVIOUS
    <3> QED BY <1>1, <3>1 DEF Sorted
  <2>2. q \in Injection(1..n, D)
    BY <1>1, <2>1, Zenon DEF Injection, IsInjective
  <2>3. q \in Surjection(1..n, D)
    BY <1>1, Zenon DEF Surjection
  <2>4. ExistsBijection(1..n, D)
    BY <2>2, <2>3, Zenon DEF ExistsBijection, Bijection
  <2> QED BY <2>4, FS_CountingElements
<1>3. q \in [1..Cardinality(D) -> D] /\ \A i, j \in DOMAIN q : i < j => q[i] < q[j]
  BY <1>1, <1>2 DEF Sorted
<1>4. PICK z : z = Ascending(D) /\ z \in [1..n -> D] /\ \A i, j \in DOMAIN z : i < j => z[i] < z[j]
  BY <1>2, <1>3, Zenon DEF Ascending
<1>5. \A i, j \in 1..n : i < j => z[i] < z[j]
  BY <1>4
<1>6. \A i \in 1..n : \E k \in 1..n : z[i] = q[k]
  BY <1>4
<1>7. PICK m : m = [i \in 1..n |-> CHOOSE k \in 1..n : z[i] = q[k]]
  OBVIOUS
<1>8. \A i \in 1..n : m[i] \in 1..n /\ z[i] = q[m[i]]
  <2> SUFFICES ASSUME NEW i \in 1..n PROVE m[i] \in 1..n /\ z[i] = q[m[i]]
    OBVIOUS
  <2>1. m[i] = CHOOSE k \in 1..n : z[i] = q[k]
    BY <1>7
  <2> QED BY <1>6, <2>1
<1>9. m \in [1..n -> 1..n]
  BY <1>7, <1>8
<1>10. \A i, j \in 1..n : i < j => m[i] < m[j]
  <2> SUFFICES ASSUME NEW i \in 1..n, NEW j \in 1..n, i < j, ~(m[i] < m[j]) PROVE FALSE
    OBVIOUS
  <2>1. PICK a \in 1..n, b \in 1..n : a = m[i] /\ b = m[j] /\ q[a] < q[b]
    BY <1>5, <1>8
  <2>2. b = a \/ b < a
    BY <2>1
  <2>3. q[a] \in Nat /\ q[b] \in Nat
    BY <1>1
  <2> QED BY <2>1, <2>2, <2>3, SMTT(60) DEF Sorted
<1>11. \A i \in 1..n : m[i] = i
  BY <1>9, <1>10, StrictlyUp
<1>12. \A i \in 1..n : z[i] = q[i]
  BY <1>8, <1>11
<1>13. z = q
  BY <1>1, <1>4, <1>12
<1> QED BY <1>4, <1>13

\* The old files of the next process: the oldest and the others, before the newest.
IsOld(p, P, n, D) ==
    /\ p \in Seq(Nat) /\ P \in Nat /\ Len(p) = P /\ n \in Nat
    /\ Sorted(p, P)
    /\ \A i \in 1..P : p[i] < n
    /\ \A i : i \in D <=> i = n \/ \E k \in 1..P : i = p[k]

\* They exist, and with the newest they are the files in the order of their events.
LEMMA OldFiles ==
    ASSUME NEW s, Sound(s)
    PROVE  \E p, P : /\ IsOld(p, P, s.newest, DOMAIN s.disk)
                     /\ FileOrder(s) = Append(p, s.newest)
<1>1. PICK o, b, n, D, N : /\ o = s.oldest /\ b = s.oldBatches /\ n = s.newest /\ D = DOMAIN s.disk /\ N = Len(b)
                        /\ o \in Nat \cup {None} /\ b \in Seq(Nat) /\ n \in Nat
  BY StorageTypes DEF Sound
<1>2. (o = None \/ o \in Nat) /\ None \notin Nat /\ b \in Seq(Nat) /\ n \in Nat /\ N = Len(b) /\ N \in Nat
  BY <1>1 DEF None
<1>3. /\ \A i, j \in 1..N : i < j => b[i] < b[j]
      /\ \A i \in 1..N : b[i] < n /\ b[i] \in Nat /\ (o # None => o < b[i])
      /\ o # None => o < n
  <2>1. \A i \in 1..N : b[i] \in Nat
    BY <1>2
  <2> QED BY <1>1, <2>1 DEF Sound, Ordered
<1>4. \A i : i \in D <=> i \in Nat /\ (i = o \/ i = n \/ \E k \in 1..N : i = b[k])
  BY <1>1 DEF Sound, Ids
<1>5. CASE o = None
  <2>1. IsOld(b, N, n, D)
    BY <1>2, <1>3, <1>4, <1>5 DEF IsOld, Sorted
  <2>2. FileOrder(s) = <<>> \o Append(b, n)
    BY <1>1, <1>5 DEF FileOrder
  <2>3. Append(b, n) \in Seq(Nat)
    BY <1>2
  <2>4. FileOrder(s) = Append(b, n)
    BY <2>2, <2>3, ConcatEmptySeq
  <2> QED BY <1>1, <2>1, <2>4
<1>6. CASE o # None
  <2>0. o \in Nat /\ <<o>> \in Seq(Nat)
    BY <1>2, <1>6
  <2>1. PICK p : /\ p = <<o>> \o b /\ p \in Seq(Nat) /\ Len(p) = N + 1 /\ p[1] = o
                 /\ \A i \in 2..(N + 1) : p[i] = b[i - 1]
    <3>1. <<o>> \o b \in Seq(Nat) /\ Len(<<o>> \o b) = N + 1 /\ (<<o>> \o b)[1] = o
      BY <1>2, <2>0
    <3>2. \A i \in 2..(N + 1) : (<<o>> \o b)[i] = b[i - 1]
      BY <1>2, <2>0
    <3> QED BY <3>1, <3>2
  <2>2. PICK P \in Nat : P = N + 1
    BY <1>2
  <2>3. \A i \in 1..P : IF i = 1 THEN p[i] = o ELSE i - 1 \in 1..N /\ p[i] = b[i - 1]
    BY <1>2, <2>1, <2>2
  <2>4. Sorted(p, P)
    <3> SUFFICES ASSUME NEW i \in 1..P, NEW j \in 1..P, i < j PROVE p[i] < p[j]
      BY DEF Sorted
    <3>1. j - 1 \in 1..N /\ p[j] = b[j - 1]
      BY <1>2, <2>2, <2>3
    <3>2. CASE i = 1
      BY <1>3, <1>6, <2>3, <3>1, <3>2
    <3>3. CASE i # 1
      <4>1. i - 1 \in 1..N /\ p[i] = b[i - 1] /\ i - 1 < j - 1
        BY <1>2, <2>2, <2>3, <3>3
      <4> QED BY <1>3, <3>1, <4>1
    <3> QED BY <3>2, <3>3
  <2>5. \A i \in 1..P : p[i] < n
    BY <1>3, <1>6, <2>3
  <2>6. \A i : (\E k \in 1..P : i = p[k]) <=> i = o \/ \E k \in 1..N : i = b[k]
    <3> SUFFICES ASSUME NEW i PROVE (\E k \in 1..P : i = p[k]) <=> i = o \/ \E k \in 1..N : i = b[k]
      OBVIOUS
    <3>1. ASSUME NEW k \in 1..P, i = p[k] PROVE i = o \/ \E x \in 1..N : i = b[x]
      BY <2>3, <3>1
    <3>2. i = o => \E k \in 1..P : i = p[k]
      BY <1>2, <2>1, <2>2
    <3>3. ASSUME NEW k \in 1..N, i = b[k] PROVE \E x \in 1..P : i = p[x]
      <4>1. k + 1 \in 2..(N + 1) /\ k + 1 \in 1..P /\ (k + 1) - 1 = k
        BY <1>2, <2>2
      <4>2. p[k + 1] = b[k]
        BY <2>1, <4>1
      <4> QED BY <3>3, <4>1, <4>2
    <3> QED BY <3>1, <3>2, <3>3
  <2>7. \A i : i \in D <=> i = n \/ \E k \in 1..P : i = p[k]
    BY <1>2, <1>3, <1>4, <2>0, <2>6
  <2>8. IsOld(p, P, n, D)
    BY <1>2, <2>1, <2>2, <2>4, <2>5, <2>7 DEF IsOld
  <2>9. FileOrder(s) = <<o>> \o Append(b, n)
    BY <1>1, <1>6 DEF FileOrder
  <2>10. <<o>> \o Append(b, n) = Append(<<o>> \o b, n)
    BY <1>2, <2>0
  <2> QED BY <1>1, <2>1, <2>8, <2>9, <2>10
<1> QED BY <1>5, <1>6

\* The files are found again, in the order they had.
LEMMA Found ==
    ASSUME NEW p, NEW P, NEW n, NEW D, IsOld(p, P, n, D), NEW q, q = Append(p, n)
    PROVE  Ascending(D) = q /\ q # <<>> /\ Last(q) = n /\ Front(q) = p
<1>1. p \in Seq(Nat) /\ P \in Nat /\ Len(p) = P /\ n \in Nat
  BY DEF IsOld
<1>2. PICK N \in Nat : N = P + 1
  BY <1>1
<1>3. q \in Seq(Nat) /\ Len(q) = N /\ q[N] = n /\ q # <<>> /\ \A i \in 1..P : q[i] = p[i]
  <2>1. Append(p, n) \in Seq(Nat) /\ Len(Append(p, n)) = P + 1 /\ Append(p, n) # <<>>
        /\ Append(p, n)[P + 1] = n
    BY <1>1, AppendProperties
  <2>2. \A i \in 1..P : Append(p, n)[i] = p[i]
    BY <1>1, AppendProperties
  <2> QED BY <1>2, <2>1, <2>2
<1>4. Sorted(q, N)
  <2> SUFFICES ASSUME NEW i \in 1..N, NEW j \in 1..N, i < j PROVE q[i] < q[j]
    BY DEF Sorted
  <2>1. i \in 1..P /\ q[i] = p[i]
    BY <1>1, <1>2, <1>3
  <2>2. CASE j = N
    BY <1>3, <2>1, <2>2 DEF IsOld
  <2>3. CASE j # N
    <3>1. j \in 1..P /\ q[j] = p[j]
      BY <1>1, <1>2, <1>3, <2>3
    <3> QED BY <2>1, <3>1 DEF IsOld, Sorted
  <2> QED BY <2>2, <2>3
<1>5. \A i : i \in D <=> \E k \in 1..N : i = q[k]
  <2> SUFFICES ASSUME NEW i PROVE i \in D <=> \E k \in 1..N : i = q[k]
    OBVIOUS
  <2>1. i \in D <=> i = n \/ \E k \in 1..P : i = p[k]
    BY DEF IsOld
  <2>2. ASSUME NEW k \in 1..N, i = q[k] PROVE i = n \/ \E x \in 1..P : i = p[x]
    <3>1. k = N \/ k \in 1..P
      BY <1>1, <1>2
    <3> QED BY <1>3, <2>2, <3>1
  <2>3. i = n => \E k \in 1..N : i = q[k]
    <3>1. N \in 1..N
      BY <1>1, <1>2
    <3> QED BY <1>3, <3>1
  <2>4. ASSUME NEW k \in 1..P, i = p[k] PROVE \E x \in 1..N : i = q[x]
    <3>1. k \in 1..N
      BY <1>1, <1>2
    <3> QED BY <1>3, <2>4, <3>1
  <2> QED BY <2>1, <2>2, <2>3, <2>4
<1>6. Ascending(D) = q
  BY <1>3, <1>4, <1>5, AscendingIs, ZenonT(60)
<1>7. Last(q) = n
  BY <1>3 DEF Last
<1>8. Front(q) = p
  <2>1. PICK w : w = SubSeq(q, 1, P) /\ w \in Seq(Nat) /\ Len(w) = P /\ \A i \in 1..P : w[i] = q[i]
    <3>1. SubSeq(q, 1, P) \in Seq(Nat) /\ Len(SubSeq(q, 1, P)) = P
      BY <1>1, <1>2, <1>3
    <3>2. \A i \in 1..P : SubSeq(q, 1, P)[i] = q[i]
      BY <1>1, <1>2, <1>3
    <3> QED BY <3>1, <3>2
  <2>2. w = p
    BY <1>1, <1>3, <2>1, SeqEqual
  <2>3. N - 1 = P
    BY <1>1, <1>2
  <2> QED BY <1>3, <2>1, <2>2, <2>3 DEF Front
<1> QED BY <1>3, <1>6, <1>7, <1>8

\* The constructor of a storage whose directory holds the ids q, in order.
LEMMA OpenStorage ==
    ASSUME NEW d, NEW l, NEW q, q = Ascending(DOMAIN d), q # <<>>,
           NEW p, p = Front(q), NEW n, n = Last(q)
    PROVE  openStorage(d, l, {}) = Record(Grown(d, n), None, p, n, {n}, l)
<1>1. openStorage(d, l, {}) = openBatch(Record(d, None, p, n, {}, l), n, {})
  BY DEF openStorage, Record
<1>2. openBatch(Record(d, None, p, n, {}, l), n, {}) = Record(Grown(d, n), None, p, n, {} \cup {n}, l)
  BY Opened
<1>3. {} \cup {n} = {n}
  OBVIOUS
<1> QED BY <1>1, <1>2, <1>3

\* A restart finds every event again.
LEMMA Reopened ==
    ASSUME NEW s, Sound(s), NEW l \in Nat \X Nat, NEW c, c = openStorage(s.disk, l, {})
    PROVE  Sound(c) /\ Contents(c) = Contents(s) /\ c.limit = l
<1>1. PICK p, P : /\ IsOld(p, P, s.newest, DOMAIN s.disk)
                  /\ FileOrder(s) = Append(p, s.newest)
  BY OldFiles
<1>2. PICK d, n, q, D : /\ d = s.disk /\ n = s.newest /\ q = Append(p, n) /\ D = DOMAIN d
                        /\ d \in Disks /\ s \in Storages
  BY StorageTypes DEF Sound
<1>3. IsOld(p, P, n, D) /\ q = Append(p, n)
  BY <1>1, <1>2
<1>4. Ascending(D) = q /\ q # <<>> /\ Last(q) = n /\ Front(q) = p
  BY <1>3, Found
<1>5. PICK e : e = Grown(d, n)
  OBVIOUS
<1>6. c = Record(e, None, p, n, {n}, l)
  <2>1. q = Ascending(DOMAIN d) /\ p = Front(q) /\ n = Last(q) /\ q # <<>>
    BY <1>2, <1>4
  <2>2. openStorage(d, l, {}) = Record(Grown(d, n), None, p, n, {n}, l)
    BY <2>1, OpenStorage
  <2> QED BY <1>2, <1>5, <2>2
<1>7. p \in Seq(Nat) /\ P \in Nat /\ Len(p) = P /\ n \in Nat /\ None \notin Nat /\ d \in Disks
  BY <1>2, <1>3 DEF IsOld, None
<1>8. e \in Disks /\ DOMAIN e = D
  <2>1. Grown(d, n) \in Disks /\ DOMAIN Grown(d, n) = DOMAIN d \cup {n}
    BY <1>7, NewFile
  <2>2. n \in DOMAIN d
    BY <1>2, <1>3 DEF IsOld
  <2> QED BY <1>2, <1>5, <2>1, <2>2
<1>9. /\ c \in Storages /\ c.disk = e /\ c.oldest = None /\ c.oldBatches = p /\ c.newest = n
      /\ c.fds = {n} /\ c.limit = l
  <2>1. PICK f : f = {n} /\ f \in SUBSET Nat
    BY <1>7
  <2>1a. PICK x : x = None /\ x \in Nat \cup {None}
    OBVIOUS
  <2>2. c = Record(e, x, p, n, f, l)
    BY <1>6, <2>1, <2>1a
  <2>2a. f \in SUBSET Nat /\ x \in Nat \cup {None}
    BY <2>1, <2>1a
  <2>3. c \in Storages
    BY <1>7, <1>8, <2>2, <2>2a, RecordType
  <2>4. /\ c.disk = e /\ c.oldest = x /\ c.oldBatches = p /\ c.newest = n
        /\ c.fds = f /\ c.limit = l
    BY <2>2, RecordFields
  <2> QED BY <2>1, <2>1a, <2>3, <2>4
<1>10. Ordered(c)
  BY <1>3, <1>7, <1>9 DEF Ordered, IsOld, Sorted
<1>11. DOMAIN c.disk = Ids(c)
  <2>1. \A i : i \in Ids(c) <=> i \in Nat /\ (i = n \/ \E k \in 1..P : i = p[k])
    BY <1>7, <1>9 DEF Ids
  <2>2. \A k \in 1..P : p[k] \in Nat
    BY <1>7
  <2>3. \A i : i \in D <=> i = n \/ \E k \in 1..P : i = p[k]
    BY <1>3 DEF IsOld
  <2>4. \A i : i \in D <=> i \in Ids(c)
    BY <1>7, <2>1, <2>2, <2>3, SMTT(60)
  <2> QED BY <1>8, <1>9, <2>4
<1>12. c.fds = {i \in Nat : i = c.oldest \/ i = c.newest}
  BY <1>7, <1>9
<1>13. Contents(c) = Contents(s)
  <2>1. FileOrder(s) = q
    BY <1>1, <1>2
  <2>2. FileOrder(c) = q
    <3>1. q \in Seq(Nat)
      BY <1>2, <1>7
    <3>2. FileOrder(c) = <<>> \o q
      BY <1>2, <1>9 DEF FileOrder
    <3> QED BY <3>1, <3>2, ConcatEmptySeq
  <2>3. \A i : Stored(c, i) = Stored(s, i)
    <3> SUFFICES ASSUME NEW i PROVE Stored(c, i) = Stored(s, i)
      OBVIOUS
    <3>1. At(Grown(d, n), i) = At(d, i)
      BY NewFileAt
    <3> QED BY <1>2, <1>5, <1>9, <3>1 DEF Stored, At
  <2>4. [i \in DOMAIN q |-> Stored(c, q[i])] = [i \in DOMAIN q |-> Stored(s, q[i])]
    BY <2>3
  <2> QED BY <2>1, <2>2, <2>4 DEF Contents
<1> QED BY <1>9, <1>10, <1>11, <1>12, <1>13 DEF Sound

\* The first process finds no file.
LEMMA Fresh ==
    ASSUME NEW l \in Nat \X Nat, NEW c, c = openStorage(<<>>, l, {})
    PROVE  Sound(c) /\ Contents(c) = <<>> /\ c.limit = l /\ Settled(c)
<1>0. PICK d : d = <<>> /\ DOMAIN d = {}
  OBVIOUS
<1>1. Ascending({}) = <<>>
  <2>0. <<>> \in Seq(Nat) /\ Len(<<>>) = 0
    BY EmptySeq
  <2>1. PICK q : q = <<>> /\ q \in Seq(Nat) /\ Len(q) = 0
    BY <2>0, Zenon
  <2>2. PICK D : D = {} /\ \A i : i \in D <=> \E k \in 1..0 : i = q[k]
    BY SMTT(60)
  <2>3. Sorted(q, 0)
    BY DEF Sorted
  <2>3a. PICK z \in Nat : z = 0
    OBVIOUS
  <2>3b. /\ q \in Seq(Nat) /\ z = Len(q) /\ Sorted(q, z)
         /\ \A i : i \in D <=> \E k \in 1..z : i = q[k]
    BY <2>1, <2>2, <2>3, <2>3a
  <2>4. Ascending(D) = q
    BY <2>3b, AscendingIs
  <2> QED BY <2>1, <2>2, <2>4
<1>2. PICK e : e = Grown(d, 0)
  OBVIOUS
<1>3. c = Record(e, None, <<>>, 0, {0}, l)
  <2>1. Ascending(DOMAIN d) = <<>>
    BY <1>0, <1>1
  <2>2. openStorage(d, l, {}) = openBatch(Record(d, None, <<>>, 0, {}, l), 0, {})
    BY <2>1 DEF openStorage, Record
  <2>3. openBatch(Record(d, None, <<>>, 0, {}, l), 0, {}) = Record(Grown(d, 0), None, <<>>, 0, {} \cup {0}, l)
    BY Opened
  <2>4. {} \cup {0} = {0}
    OBVIOUS
  <2> QED BY <1>0, <1>2, <2>2, <2>3, <2>4
<1>4. DOMAIN e = {0} /\ e \in Disks /\ \A i : At(e, i) = <<>>
  <2>1. DOMAIN e = {0}
    BY <1>0, <1>2 DEF Grown
  <2>2. \A i : At(e, i) = <<>>
    <3> SUFFICES ASSUME NEW i PROVE At(e, i) = <<>>
      OBVIOUS
    <3>1. At(e, i) = At(d, i)
      BY <1>2, NewFileAt
    <3> QED BY <1>0, <3>1 DEF At
  <2>3. e = [i \in {0} |-> At(d, i)]
    BY <1>0, <1>2 DEF Grown
  <2>4. At(d, 0) \in Files
    BY <1>0, FilesClosed DEF At
  <2>5. e \in [{0} -> Files]
    <3> HIDE DEF At
    <3> QED BY <2>3, <2>4
  <2>6. {0} \in SUBSET Nat
    OBVIOUS
  <2> QED BY <2>1, <2>2, <2>5, <2>6, IsDisk
<1>5. /\ c \in Storages /\ c.disk = e /\ c.oldest = None /\ c.oldBatches = <<>> /\ c.newest = 0
      /\ c.fds = {0} /\ c.limit = l
  <2>0. <<>> \in Seq(Nat)
    BY EmptySeq
  <2>0a. {0} \in SUBSET Nat
    OBVIOUS
  <2>1. PICK f : f = {0} /\ f \in SUBSET Nat
    BY <2>0a
  <2>1a. PICK b, x : b = <<>> /\ b \in Seq(Nat) /\ x = None /\ x \in Nat \cup {None}
    BY <2>0
  <2>2. c = Record(e, x, b, 0, f, l)
    BY <1>3, <2>1, <2>1a
  <2>2a. f \in SUBSET Nat /\ b \in Seq(Nat) /\ x \in Nat \cup {None} /\ e \in Disks
    BY <1>4, <2>1, <2>1a
  <2>3. c \in Storages
    BY <2>2, <2>2a, RecordType
  <2>4. /\ c.disk = e /\ c.oldest = x /\ c.oldBatches = b /\ c.newest = 0
        /\ c.fds = f /\ c.limit = l
    BY <2>2, RecordFields
  <2> QED BY <2>1, <2>1a, <2>3, <2>4
<1>6. None \notin Nat /\ Len(c.oldBatches) = 0
  BY <1>5 DEF None
<1>7. Ordered(c)
  BY <1>5, <1>6 DEF Ordered
<1>8. DOMAIN c.disk = Ids(c)
  <2>1. \A i : i \in Ids(c) <=> i = 0
    BY <1>5, <1>6 DEF Ids
  <2> QED BY <1>4, <1>5, <2>1
<1>9. c.fds = {i \in Nat : i = c.oldest \/ i = c.newest}
  BY <1>5, <1>6
<1>10. Contents(c) = <<>>
  <2>1. Contents(c) = (First(c) \o Cat(e, <<>>)) \o At(e, 0)
    BY <1>5, ContentsParts DEF Parts
  <2>2. First(c) = <<>> /\ Cat(e, <<>>) = <<>> /\ At(e, 0) = <<>>
    BY <1>4, <1>5, CatEmpty DEF First
  <2> QED BY <2>1, <2>2
<1> QED BY <1>5, <1>7, <1>8, <1>9, <1>10 DEF Sound, Settled

-----------------------------------------------------------------------------
(* The storage shared by the threads *)

\* The list in flight holds the first events of the file uploads are read from.
InFlight(s, l) == l = NullList \/ (Settled(s) /\ IsList(l, At(s.disk, front(s))))

\* The inductive invariant: a storage whose open() calls all succeeded is sound, and its list
\* in flight is up to date.
StorageInv == /\ failures \in Nat
              /\ failures = 0 => Sound(batch) /\ InFlight(batch, list)

\* A step that leaves failures = 0 opened every file it wanted.
LEMMA NoBadIds ==
    ASSUME NEW n \in Nat, NEW bad, NEW ids, IsFiniteSet(ids), bad \in SUBSET ids,
           NEW c, c = Cardinality(bad), c \in 0..(MaxOpenErrors - n), n + c = 0
    PROVE  n = 0 /\ bad = {}
<1>1. n = 0 /\ c = 0
  BY ErrorAssumption
<1>2. IsFiniteSet(bad)
  BY FS_Subset
<1>3. bad = {}
  BY <1>1, <1>2, FS_EmptySet
<1> QED BY <1>1, <1>3

\* A storage knows finitely many files.
LEMMA FiniteIds ==
    ASSUME NEW b \in Seq(Nat)
    PROVE  IsFiniteSet(ToSet(b))
<1>1. IsFiniteSet(1..Len(b))
  BY FS_Interval
<1>2. DOMAIN b = 1..Len(b)
  OBVIOUS
<1>3. PICK D, T : D = 1..Len(b) /\ T = ToSet(b)
  OBVIOUS
<1>4. b \in [D -> T] /\ \A t \in T : \E i \in D : b[i] = t
  BY <1>2, <1>3 DEF ToSet
<1>5. b \in Surjection(D, T)
  BY <1>4, Zenon DEF Surjection
<1> QED BY <1>1, <1>3, <1>5, FS_Surjection

\* setFileLimits
LEMMA LimitSet ==
    ASSUME NEW s, Sound(s), NEW l \in Nat \X Nat, NEW t, t = setFileLimits(s, l)
    PROVE  Sound(t) /\ Contents(t) = Contents(s) /\ t.disk = s.disk /\ front(t) = front(s)
           /\ (Settled(s) => Settled(t))
<1>1. s \in Storages
  BY DEF Sound
<1>2. t = [s EXCEPT !.limit = l]
  BY DEF setFileLimits
<1>3. /\ t \in Storages /\ t.disk = s.disk /\ t.oldest = s.oldest /\ t.oldBatches = s.oldBatches
      /\ t.newest = s.newest /\ t.fds = s.fds
  BY <1>1, <1>2 DEF Storages
<1>4. Ordered(t) /\ Ids(t) = Ids(s)
  <2>1. Ordered(t)
    BY <1>3 DEF Ordered, Sound
  <2>2. Ids(t) = Ids(s)
    BY <1>3 DEF Ids
  <2> QED BY <2>1, <2>2
<1>5. Sound(t)
  BY <1>3, <1>4 DEF Sound
<1>6. Parts(t) = Parts(s)
  BY <1>3 DEF Parts, First
<1>7. Contents(t) = Contents(s)
  BY <1>1, <1>3, <1>6, ContentsParts
<1> QED BY <1>3, <1>5, <1>7 DEF front, Settled

\* While the list is in flight, more events may be stored behind the ones it holds.
LEMMA StillListed ==
    ASSUME NEW v \in Seq(Events), NEW x \in Seq(Events), NEW l, IsList(l, v)
    PROVE  IsList(l, v \o x)
<1>1. PICK k \in 0..Len(v) : k = l.count /\ l.size = TotalSize(Prefix(v, k))
  BY DEF IsList
<1>2. Prefix(v \o x, k) = Prefix(v, k) /\ k \in 0..Len(v \o x)
  BY PrefixLonger
<1> QED BY <1>1, <1>2 DEF IsList

\* An event that arrives while a list is in flight is stored behind the events of the list.
LEMMA AddedInFlight ==
    ASSUME NEW s, Sound(s), NEW e \in Events, NEW a, a = addEvent(s, e, {}), NEW l, InFlight(s, l)
    PROVE  InFlight(a, l)
<1>1. CASE l = NullList
  BY <1>1 DEF InFlight
<1>2. CASE l # NullList
  <2>1. Settled(s) /\ IsList(l, At(s.disk, front(s)))
    BY <1>2 DEF InFlight
  <2>2. Settled(a) /\ \E x \in Files : At(a.disk, front(a)) = At(s.disk, front(s)) \o x
    BY <2>1, EventAdded
  <2>3. PICK v, x : v = At(s.disk, front(s)) /\ x \in Files /\ At(a.disk, front(a)) = v \o x
    BY <2>2
  <2>4. v \in Seq(Events) /\ x \in Seq(Events)
    BY <2>3, FrontOpen DEF Files
  <2>5. IsList(l, v \o x)
    BY <2>1, <2>3, <2>4, StillListed
  <2> QED BY <2>2, <2>3, <2>5 DEF InFlight
<1> QED BY <1>1, <1>2

\* hasEvents tells whether a storage holds an event.
LEMMA NoEvents ==
    ASSUME NEW s, Sound(s), ~hasEvents(s)
    PROVE  Contents(s) = <<>>
<1>1. s \in Storages
  BY DEF Sound
<1>2. s.oldBatches = <<>> /\ s.oldest = None /\ Content(s, s.newest) = <<>>
  BY DEF hasEvents
<1>3. At(s.disk, s.newest) = <<>>
  BY <1>2, Distinct DEF Content, Stored, At
<1>4. First(s) = <<>> /\ Cat(s.disk, s.oldBatches) = <<>>
  BY <1>1, <1>2, StorageTypes, CatEmpty DEF First
<1>5. Contents(s) = (First(s) \o Cat(s.disk, s.oldBatches)) \o At(s.disk, s.newest)
  BY <1>1, ContentsParts DEF Parts
<1> QED BY <1>3, <1>4, <1>5

\* Every action as a step of the storage, as long as no open() has failed.
LEMMA AddStep ==
    ASSUME StorageInv, NEW e \in Events, AddEvent(e)
    PROVE  /\ failures' \in Nat
           /\ failures' = 0 => /\ failures = 0 /\ Sound(batch) /\ batch' = addEvent(batch, e, {})
                               /\ list' = list
<1>1. PICK bad \in BadIds({batch.newest + 1} \ DOMAIN batch.disk) :
         batch' = addEvent(batch, e, bad) /\ failures' = failures + Cardinality(bad)
  BY DEF AddEvent
<1>2. PICK ids, c : /\ ids = {batch.newest + 1} \ DOMAIN batch.disk /\ c = Cardinality(bad)
                    /\ bad \in SUBSET ids /\ c \in 0..(MaxOpenErrors - failures)
  BY <1>1 DEF BadIds
<1>3. IsFiniteSet(ids)
  <2>1. IsFiniteSet({batch.newest + 1})
    BY FS_Singleton
  <2> QED BY <1>2, <2>1, FS_Subset
<1>4. failures \in Nat /\ failures' = failures + c
  BY <1>1, <1>2 DEF StorageInv
<1>5. failures' \in Nat
  BY <1>2, <1>4, ErrorAssumption
<1>6. ASSUME failures' = 0 PROVE failures = 0 /\ bad = {}
  BY <1>2, <1>3, <1>4, <1>6, NoBadIds
<1> QED BY <1>1, <1>5, <1>6 DEF AddEvent, StorageInv

\* getEventsForUpload without a failed open() is checkOldestBatch, then a list.
LEMMA GetStep ==
    ASSUME StorageInv, NEW limit, GetEventsForUpload(limit)
    PROVE  /\ failures' \in Nat
           /\ failures' = 0 => /\ failures = 0 /\ Sound(batch) /\ batch' = checkOldestBatch(batch, {})
                               /\ list = NullList
                               /\ list' = getEventsForUpload(batch', limit[1], limit[2])
<1>1. PICK bad \in BadIds(ToSet(batch.oldBatches)) :
         batch' = checkOldestBatch(batch, bad) /\ failures' = failures + Cardinality(bad)
  BY DEF GetEventsForUpload
<1>2. PICK ids, c : /\ ids = ToSet(batch.oldBatches) /\ c = Cardinality(bad)
                    /\ bad \in SUBSET ids /\ c \in 0..(MaxOpenErrors - failures)
  BY <1>1 DEF BadIds
<1>4. failures \in Nat /\ failures' = failures + c
  BY <1>1, <1>2 DEF StorageInv
<1>5. failures' \in Nat /\ (failures' = 0 => failures = 0)
  BY <1>2, <1>4, ErrorAssumption
<1>6. ASSUME failures' = 0 PROVE failures = 0 /\ bad = {}
  <2>1. Sound(batch)
    BY <1>5, <1>6 DEF StorageInv
  <2>2. PICK b : b = batch.oldBatches /\ b \in Seq(Nat)
    BY <2>1, StorageTypes DEF Sound
  <2>3. IsFiniteSet(ids)
    BY <1>2, <2>2, FiniteIds
  <2> QED BY <1>2, <1>4, <1>6, <2>3, NoBadIds
<1> QED BY <1>1, <1>5, <1>6 DEF GetEventsForUpload, StorageInv

\* getEventsForUpload keeps the invariant, whatever limits it is given.
LEMMA GetKept ==
    ASSUME StorageInv, NEW limit, limit[1] \in Nat, limit[2] \in Nat, GetEventsForUpload(limit)
    PROVE  StorageInv'
<1>1. SUFFICES ASSUME failures' = 0 PROVE Sound(batch') /\ InFlight(batch', list')
  BY GetStep DEF StorageInv
<1>2. /\ Sound(batch) /\ batch' = checkOldestBatch(batch, {})
      /\ list' = getEventsForUpload(batch', limit[1], limit[2])
  BY <1>1, GetStep
<1>3. Sound(batch') /\ Settled(batch')
  BY <1>2, OldestChecked
<1>4. PICK mc \in Nat, ms \in Nat : mc = limit[1] /\ ms = limit[2]
  OBVIOUS
<1>5. list' = NullList \/ IsList(list', At(batch'.disk, front(batch')))
  BY <1>2, <1>3, <1>4, ListTaken
<1> QED BY <1>3, <1>5 DEF InFlight

\* Restart without a failed open() opens the directory it finds.
LEMMA RestartStep ==
    ASSUME StorageInv, NEW limit \in FileLimits, Restart(limit)
    PROVE  /\ failures' \in Nat
           /\ failures' = 0 => /\ failures = 0 /\ Sound(batch)
                               /\ batch' = openStorage(batch.disk, limit, {}) /\ list' = NullList
<1>1. PICK bad \in BadIds({Max(DOMAIN batch.disk \cup {0})}) :
         batch' = openStorage(batch.disk, limit, bad) /\ failures' = failures + Cardinality(bad)
  BY DEF Restart
<1>2. PICK ids, c : /\ ids = {Max(DOMAIN batch.disk \cup {0})} /\ c = Cardinality(bad)
                    /\ bad \in SUBSET ids /\ c \in 0..(MaxOpenErrors - failures)
  BY <1>1 DEF BadIds
<1>3. IsFiniteSet(ids)
  BY <1>2, FS_Singleton
<1>4. failures \in Nat /\ failures' = failures + c
  BY <1>1, <1>2 DEF StorageInv
<1>5. failures' \in Nat
  BY <1>2, <1>4, ErrorAssumption
<1>6. ASSUME failures' = 0 PROVE failures = 0 /\ bad = {}
  BY <1>2, <1>3, <1>4, <1>6, NoBadIds
<1> QED BY <1>1, <1>5, <1>6 DEF Restart, StorageInv

\* No list is a list in flight too, and no other has its count.
LEMMA NullListed ==
    /\ NullList.count = -1 /\ NullList.count \notin Nat
    /\ \A s : InFlight(s, NullList)
    /\ \A s, l : InFlight(s, l) /\ l # NullList => l.count \in Nat
<1>1. NullList.count = -1
  BY DEF NullList
<1>2. \A s : InFlight(s, NullList)
  BY DEF InFlight
<1>3. \A s, l : InFlight(s, l) /\ l # NullList => l.count \in Nat
  BY DEF InFlight, IsList
<1> QED BY <1>1, <1>2, <1>3

\* The invariant holds at first.
LEMMA StorageInit ==
    ASSUME Init
    PROVE  StorageInv /\ Contents(batch) = <<>> /\ list.count = -1
<1>1. PICK limit \in FileLimits : batch = openStorage(<<>>, limit, {})
  BY DEF Init
<1>2. limit \in Nat \X Nat
  BY LimitAssumption
<1>3. Sound(batch) /\ Contents(batch) = <<>>
  BY <1>1, <1>2, Fresh
<1> QED BY <1>3, NullListed DEF Init, StorageInv

\* Every step keeps the invariant.
LEMMA StorageNext ==
    ASSUME StorageInv, [Next]_vars
    PROVE  StorageInv'
<1>1. CASE UNCHANGED vars
  BY <1>1 DEF StorageInv, vars
<1>2. ASSUME NEW e \in Events, AddEvent(e) PROVE StorageInv'
  <2>1. SUFFICES ASSUME failures' = 0 PROVE Sound(batch') /\ InFlight(batch', list')
    BY <1>2, AddStep DEF StorageInv
  <2>2. failures = 0 /\ Sound(batch) /\ batch' = addEvent(batch, e, {}) /\ list' = list
    BY <1>2, <2>1, AddStep
  <2>3. InFlight(batch, list)
    BY <2>2 DEF StorageInv
  <2> QED BY <2>2, <2>3, EventAdded, AddedInFlight
<1>3. ASSUME NEW limit \in UploadLimits, GetEventsForUpload(limit) PROVE StorageInv'
  <2>1. limit[1] \in Nat /\ limit[2] \in Nat
    BY LimitAssumption
  <2> QED BY <1>3, <2>1, GetKept
<1>4. CASE OnEventsUploaded
  <2>1. SUFFICES ASSUME failures' = 0 PROVE Sound(batch') /\ InFlight(batch', list')
    BY <1>4 DEF StorageInv, OnEventsUploaded
  <2>2. Sound(batch) /\ InFlight(batch, list) /\ list # NullList
    BY <1>4, <2>1 DEF StorageInv, OnEventsUploaded
  <2>3. Settled(batch) /\ IsList(list, At(batch.disk, front(batch)))
    BY <2>2 DEF InFlight
  <2>4. batch' = onEventsUploaded(batch, list) /\ list' = NullList
    BY <1>4 DEF OnEventsUploaded
  <2> QED BY <2>2, <2>3, <2>4, Uploaded, NullListed
<1>5. CASE UploadFailed
  BY <1>5, NullListed DEF StorageInv, UploadFailed
<1>6. ASSUME NEW limit \in FileLimits, SetFileLimits(limit) PROVE StorageInv'
  <2>1. SUFFICES ASSUME failures' = 0 PROVE Sound(batch') /\ InFlight(batch', list')
    BY <1>6 DEF StorageInv, SetFileLimits
  <2>2. Sound(batch) /\ InFlight(batch, list) /\ batch' = setFileLimits(batch, limit) /\ list' = list
    BY <1>6, <2>1 DEF StorageInv, SetFileLimits
  <2>3. limit \in Nat \X Nat
    BY LimitAssumption
  <2>4. Sound(batch') /\ batch'.disk = batch.disk /\ front(batch') = front(batch) /\ (Settled(batch) => Settled(batch'))
    BY <2>2, <2>3, LimitSet
  <2> QED BY <2>2, <2>4 DEF InFlight
<1>7. ASSUME NEW limit \in FileLimits, Restart(limit) PROVE StorageInv'
  <2>1. SUFFICES ASSUME failures' = 0 PROVE Sound(batch') /\ InFlight(batch', list')
    BY <1>7, RestartStep DEF StorageInv
  <2>2. Sound(batch) /\ batch' = openStorage(batch.disk, limit, {}) /\ list' = NullList
    BY <1>7, <2>1, RestartStep
  <2>3. limit \in Nat \X Nat
    BY LimitAssumption
  <2> QED BY <2>2, <2>3, Reopened, NullListed
<1> QED BY <1>1, <1>2, <1>3, <1>4, <1>5, <1>6, <1>7 DEF Next

\* The inductive invariant holds in every reachable state.
LEMMA StorageSound == Spec => []StorageInv
<1>1. Init => StorageInv
  BY StorageInit
<1>2. StorageInv /\ [Next]_vars => StorageInv'
  BY StorageNext
<1> QED BY <1>1, <1>2, PTL DEF Spec

\* A sound storage refers to every file of its directory, and hasEvents knows of each event.
LEMMA KnownFiles ==
    ASSUME NEW s, Sound(s), NEW id \in DOMAIN s.disk, s.disk[id] # <<>>
    PROVE  id \in ToSet(FileOrder(s)) /\ hasEvents(s)
<1>1. PICK ob \in Seq(Nat), new \in Nat : ob = s.oldBatches /\ new = s.newest
  BY StorageTypes DEF Sound
<1>2. PICK a : a = IF s.oldest = None THEN <<>> ELSE <<s.oldest>>
  OBVIOUS
<1>3. a \in Seq(Nat)
  BY <1>2, StorageTypes DEF Sound
<1>4. PICK n \in Nat, m \in Nat : n = Len(a) /\ m = Len(ob)
  BY <1>1, <1>3
<1>5. PICK f : f = FileOrder(s) /\ f = a \o Append(ob, new)
  BY <1>1, <1>2 DEF FileOrder
<1>6. /\ DOMAIN f = 1..(n + m + 1) /\ f[n + m + 1] = new
      /\ \A k \in 1..n : f[k] = a[k]
      /\ \A k \in 1..m : f[n + k] = ob[k]
  <2>1. PICK p \in Seq(Nat) : p = Append(ob, new) /\ Len(p) = m + 1 /\ p[m + 1] = new
                              /\ \A k \in 1..m : p[k] = ob[k]
    <3>1. PICK o \in Seq(Nat) : o = ob /\ Len(o) = m
      BY <1>4
    <3>2. /\ Append(o, new) \in Seq(Nat) /\ Len(Append(o, new)) = Len(o) + 1
          /\ Append(o, new)[Len(o) + 1] = new /\ \A k \in 1..Len(o) : Append(o, new)[k] = o[k]
      BY AppendProperties
    <3> QED BY <3>1, <3>2
  <2>3. PICK c \in Seq(Nat) : c = a \o p /\ Len(c) = n + m + 1
    <3>1. PICK x \in Seq(Nat), y \in Seq(Nat) : x = a /\ y = p /\ Len(x) = n /\ Len(y) = m + 1
      BY <1>3, <1>4, <2>1
    <3>2. x \o y \in Seq(Nat) /\ Len(x \o y) = Len(x) + Len(y)
      BY ConcatProperties
    <3>3. n + (m + 1) = n + m + 1
      OBVIOUS
    <3> QED BY <3>1, <3>2, <3>3
  <2>4. \A k \in 1..n : c[k] = a[k]
    BY <1>3, <1>4, <2>1, <2>3, ConcatProperties
  <2>5. \A k \in 1..(m + 1) : c[n + k] = p[k]
    BY <1>3, <1>4, <2>1, <2>3, ConcatProperties
  <2>6. m + 1 \in 1..(m + 1) /\ n + (m + 1) = n + m + 1 /\ \A k \in 1..m : k \in 1..(m + 1)
    OBVIOUS
  <2> QED BY <1>5, <2>1, <2>3, <2>4, <2>5, <2>6
<1>7. \A k \in 1..(n + m + 1) : f[k] \in ToSet(FileOrder(s))
  BY <1>5, <1>6 DEF ToSet
<1>8. id \in Nat /\ (id = s.oldest \/ id = new \/ \E k \in 1..m : id = ob[k])
  BY <1>1, <1>4 DEF Sound, Ids
<1>9. CASE id = s.oldest
  <2>1. s.oldest # None
    BY <1>8, <1>9 DEF None
  <2>2. n = 1 /\ a[1] = id
    BY <1>2, <1>4, <1>9, <2>1
  <2>3. f[1] = id /\ 1 \in 1..(n + m + 1)
    BY <1>6, <2>2
  <2> QED BY <1>7, <2>1, <2>3 DEF hasEvents
<1>10. CASE id = new
  <2>1. n + m + 1 \in 1..(n + m + 1)
    OBVIOUS
  <2>2. Content(s, s.newest) # <<>>
    BY <1>1, <1>10, Distinct DEF Content, Stored
  <2> QED BY <1>6, <1>7, <1>10, <2>1, <2>2 DEF hasEvents
<1>11. ASSUME NEW k \in 1..m, id = ob[k] PROVE id \in ToSet(FileOrder(s)) /\ hasEvents(s)
  <2>1. n + k \in 1..(n + m + 1) /\ f[n + k] = id
    BY <1>6, <1>11
  <2>2. ob # <<>>
    BY <1>4, <1>11
  <2> QED BY <1>1, <1>7, <2>1, <2>2 DEF hasEvents
<1> QED BY <1>8, <1>9, <1>10, <1>11

\* As long as no open() fails, no file of the directory that holds an event is one the object
\* does not refer to, and hasEvents does not return false while there is such a file, however
\* the files are filled, rotated, emptied and removed and wherever the process ends:
\* uploadTasks goes on until the last event is gone.
THEOREM NothingForgotten == Spec => []NoEventsForgotten
<1>1. StorageInv => NoEventsForgotten
  <2> SUFFICES ASSUME StorageInv, failures = 0, NEW id \in DOMAIN batch.disk, batch.disk[id] # <<>>
               PROVE  id \in ToSet(FileOrder(batch)) /\ hasEvents(batch)
    BY DEF NoEventsForgotten
  <2>1. Sound(batch)
    BY DEF StorageInv
  <2> QED BY <2>1, KnownFiles
<1> QED BY <1>1, StorageSound, PTL

-----------------------------------------------------------------------------
(* The storage is a queue *)

\* A list in flight holds a prefix of the stored events.
LEMMA ListInQueue ==
    ASSUME NEW s, Sound(s), Settled(s), NEW l, IsList(l, At(s.disk, front(s)))
    PROVE  l.count \in 0..Len(Contents(s))
<1>1. PICK v \in Seq(Events), r \in Seq(Events) : v = At(s.disk, front(s)) /\ Contents(s) = v \o r
  BY RestExists, FrontOpen DEF IsRest, Files
<1>2. PICK k \in 0..Len(v) : k = l.count
  BY <1>1 DEF IsList
<1>3. k \in 0..Len(v \o r)
  BY PrefixLonger
<1> QED BY <1>1, <1>2, <1>3

\* Every step of the storage that fails no open() is a step of the queue of its contents.
LEMMA QueueStep ==
    ASSUME StorageInv, [Next]_vars, failures' = 0
    PROVE  [Queue!Next]_(Queue!vars)
<1> DEFINE q == Contents(batch)
           n == list.count
<1>1. CASE UNCHANGED vars
  BY <1>1 DEF vars, Queue!vars
<1>2. ASSUME NEW e \in Events, AddEvent(e) PROVE [Queue!Next]_(Queue!vars)
  <2>1. Sound(batch) /\ batch' = addEvent(batch, e, {}) /\ list' = list
    BY <1>2, AddStep
  <2>2. Contents(batch') = IF accepts(batch, e, {}) THEN Append(Contents(batch), e) ELSE Contents(batch)
    BY <2>1, EventAdded
  <2>3. CASE accepts(batch, e, {})
    <3>1. Queue!Add(e)
      BY <2>1, <2>2, <2>3 DEF Queue!Add
    <3> QED BY <3>1 DEF Queue!Next
  <2>4. CASE ~accepts(batch, e, {})
    BY <2>1, <2>2, <2>4 DEF Queue!vars
  <2> QED BY <2>3, <2>4
<1>3. ASSUME NEW limit \in UploadLimits, GetEventsForUpload(limit) PROVE [Queue!Next]_(Queue!vars)
  <2>1. /\ Sound(batch) /\ batch' = checkOldestBatch(batch, {}) /\ list = NullList
        /\ list' = getEventsForUpload(batch', limit[1], limit[2])
    BY <1>3, GetStep
  <2>2. Sound(batch') /\ Settled(batch') /\ Contents(batch') = Contents(batch)
    BY <2>1, OldestChecked
  <2>3. PICK mc \in Nat, ms \in Nat : mc = limit[1] /\ ms = limit[2]
    BY LimitAssumption
  <2>4. list' = NullList \/ IsList(list', At(batch'.disk, front(batch')))
    BY <2>1, <2>2, <2>3, ListTaken
  <2>5. CASE list' = NullList
    BY <2>1, <2>2, <2>5 DEF Queue!vars
  <2>6. CASE IsList(list', At(batch'.disk, front(batch')))
    <3>1. PICK k : k = list'.count /\ k \in 0..Len(Contents(batch))
      BY <2>2, <2>6, ListInQueue
    <3>2. list.count = -1
      BY <2>1, NullListed
    <3>3. Queue!Take(k)
      BY <2>2, <3>1, <3>2 DEF Queue!Take
    <3> QED BY <3>1, <3>3 DEF Queue!Next
  <2> QED BY <2>4, <2>5, <2>6
<1>4. CASE OnEventsUploaded
  <2>1. failures = 0 /\ list # NullList /\ batch' = onEventsUploaded(batch, list) /\ list' = NullList
    BY <1>4 DEF OnEventsUploaded
  <2>2. Sound(batch) /\ InFlight(batch, list)
    BY <2>1 DEF StorageInv
  <2>3. Settled(batch) /\ IsList(list, At(batch.disk, front(batch)))
    BY <2>1, <2>2 DEF InFlight
  <2>4. Contents(batch') = Cut(Contents(batch), list.count)
    BY <2>1, <2>2, <2>3, Uploaded
  <2>5. list.count # -1 /\ list'.count = -1
    BY <2>1, <2>2, NullListed
  <2>6. Queue!Done
    BY <2>4, <2>5 DEF Queue!Done, Cut
  <2> QED BY <2>6 DEF Queue!Next
<1>5. CASE UploadFailed
  <2>1. failures = 0 /\ list # NullList /\ list' = NullList /\ batch' = batch
    BY <1>5 DEF UploadFailed
  <2>2. list.count # -1 /\ list'.count = -1
    BY <2>1, NullListed DEF StorageInv
  <2>3. Queue!Release
    BY <2>1, <2>2 DEF Queue!Release
  <2> QED BY <2>3 DEF Queue!Next
<1>6. ASSUME NEW limit \in FileLimits, SetFileLimits(limit) PROVE [Queue!Next]_(Queue!vars)
  <2>1. failures = 0 /\ batch' = setFileLimits(batch, limit) /\ list' = list
    BY <1>6 DEF SetFileLimits
  <2>2. Sound(batch) /\ limit \in Nat \X Nat
    BY <2>1, LimitAssumption DEF StorageInv
  <2>3. Contents(batch') = Contents(batch)
    BY <2>1, <2>2, LimitSet
  <2> QED BY <2>1, <2>3 DEF Queue!vars
<1>7. ASSUME NEW limit \in FileLimits, Restart(limit) PROVE [Queue!Next]_(Queue!vars)
  <2>1. failures = 0 /\ Sound(batch) /\ batch' = openStorage(batch.disk, limit, {}) /\ list' = NullList
    BY <1>7, RestartStep
  <2>2. limit \in Nat \X Nat
    BY LimitAssumption
  <2>3. Contents(batch') = Contents(batch)
    BY <2>1, <2>2, Reopened
  <2>4. list'.count = -1
    BY <2>1, NullListed
  <2>5. CASE list = NullList
    BY <2>1, <2>3, <2>5 DEF Queue!vars
  <2>6. CASE list # NullList
    <3>1. list.count # -1
      BY <2>1, <2>6, NullListed DEF StorageInv
    <3>2. Queue!Release
      BY <2>3, <2>4, <3>1 DEF Queue!Release
    <3> QED BY <3>2 DEF Queue!Next
  <2> QED BY <2>5, <2>6
<1> QED BY <1>1, <1>2, <1>3, <1>4, <1>5, <1>6, <1>7 DEF Next

\* As long as no open() fails, the files are one queue: addEvent appends, getEventsForUpload
\* hands out a prefix, onEventsUploaded removes exactly this prefix though events were added and
\* files rotated meanwhile, and rotation, limits and restarts neither lose nor reorder an event.
THEOREM StorageIsQueue == Spec => IsQueue
<1>1. Init => Queue!Init
  BY StorageInit DEF Queue!Init
<1>2. StorageInv /\ [Next]_vars => [failures' = 0 => [Queue!Next]_(Queue!vars)]_vars
  BY QueueStep
<1> QED BY <1>1, <1>2, StorageSound, PTL DEF Spec, IsQueue

-----------------------------------------------------------------------------
(* Sequences without some of their events *)

\* Induction on sequences of events.
LEMMA ByAppend ==
    ASSUME NEW T, <<>> \in T, \A v \in Files, e \in Events : v \in T => Append(v, e) \in T
    PROVE  \A v \in Files : v \in T
<1> SUFFICES ASSUME NEW v \in Seq(Events) PROVE v \in T
  BY DEF Files
<1>1. PICK n \in Nat : n = Len(v)
  OBVIOUS
<1> DEFINE U == {k \in 0..n : Prefix(v, k) \in T}
<1>2. 0 \in U
  <2>1. Prefix(v, 0) = <<>>
    BY SubSeqEmpty DEF Prefix
  <2> QED BY <2>1
<1>3. ASSUME NEW k \in 1..n, k - 1 \in U PROVE k \in U
  <2>1. PICK p \in Seq(Events), e \in Events : p = Prefix(v, k - 1) /\ e = v[k]
    <3>1. k - 1 \in 0..Len(v) /\ v[k] \in Events
      BY <1>1
    <3>2. Prefix(v, k - 1) \in Seq(Events)
      BY <3>1, Halves
    <3> QED BY <3>1, <3>2
  <2>2. Prefix(v, k) = Append(p, e)
    <3>1. k \in 1..Len(v) /\ 1 \in 1..Len(v)
      BY <1>1
    <3>2. SubSeq(v, 1, k) = SubSeq(v, 1, k - 1) \o <<v[k]>>
      BY <3>1, SubSeqRecursiveSecond
    <3>3. Prefix(v, k) = p \o <<e>>
      BY <2>1, <3>2 DEF Prefix
    <3> QED BY <3>3, AppendIsConcat
  <2>3. Append(p, e) \in T
    <3>1. p \in T
      BY <1>3, <2>1
    <3>2. p \in Files
      BY <2>1 DEF Files
    <3> QED BY <3>1, <3>2
  <2>4. Prefix(v, k) \in T
    BY <2>2, <2>3, Zenon
  <2>5. k \in 0..n
    OBVIOUS
  <2> QED BY <2>4, <2>5
<1> HIDE DEF U
<1>4. n \in U
  <2>1. \A k \in 0..n : k \in U
    BY <1>2, <1>3, Climb
  <2> QED BY <2>1
<1>5. Prefix(v, n) = v
  BY <1>1, SubSeqFull DEF Prefix
<1> QED BY <1>4, <1>5 DEF U

\* The events of a sequence.
LEMMA ToSetOf ==
    /\ ToSet(<<>>) = {}
    /\ \A v \in Files, e \in Events : ToSet(Append(v, e)) = ToSet(v) \cup {e}
    /\ \A v \in Files, w \in Files : ToSet(v \o w) = ToSet(v) \cup ToSet(w)
<1>1. ToSet(<<>>) = {}
  BY DEF ToSet
<1>2. ASSUME NEW v \in Seq(Events), NEW e \in Events PROVE ToSet(Append(v, e)) = ToSet(v) \cup {e}
  <2>0. Append(v, e) \in Seq(Events) /\ Len(v) \in Nat
    BY AppendProperties
  <2>1. PICK n \in Nat, a \in Seq(Events) : n = Len(v) /\ a = Append(v, e)
    BY <2>0
  <2>2. Len(a) = n + 1 /\ (\A i \in 1..n : a[i] = v[i]) /\ a[n + 1] = e
    BY <2>1, AppendProperties
  <2>3. DOMAIN v = 1..n /\ DOMAIN a = 1..(n + 1)
    BY <2>1, <2>2
  <2>4. ToSet(a) = ToSet(v) \cup {e}
    BY <2>2, <2>3 DEF ToSet
  <2> QED BY <2>1, <2>4
<1>3. ASSUME NEW v \in Seq(Events), NEW w \in Seq(Events) PROVE ToSet(v \o w) = ToSet(v) \cup ToSet(w)
  <2>1. Range(v \o w) = Range(v) \cup Range(w)
    BY RangeConcatenation
  <2> QED BY <2>1 DEF Range, ToSet
<1> QED BY <1>1, <1>2, <1>3 DEF Files

\* What an event leaves.
Piece(e, out) == IF e \in out THEN <<>> ELSE <<e>>
Pieces(seq, out) == [i \in DOMAIN seq |-> Piece(seq[i], out)]

\* What a sequence keeps, event by event.
LEMMA PiecesType ==
    ASSUME NEW v \in Files, NEW out
    PROVE  /\ Pieces(v, out) \in Seq(Files) /\ Len(Pieces(v, out)) = Len(v)
           /\ Without(v, out) = FlattenSeq(Pieces(v, out))
<1>1. \A i \in DOMAIN v : Piece(v[i], out) \in Files
  BY DEF Files, Piece
<1>2. Pieces(v, out) \in Seq(Files) /\ Len(Pieces(v, out)) = Len(v)
  BY <1>1 DEF Pieces, Files
<1>3. Without(v, out) = FlattenSeq(Pieces(v, out))
  BY Zenon DEF Without, Pieces, Piece
<1> QED BY <1>2, <1>3

\* One event at a time.
LEMMA WithoutAppend ==
    /\ \A out : Without(<<>>, out) = <<>>
    /\ \A v \in Files : \A out : Without(v, out) \in Files
    /\ \A v \in Files, e \in Events : \A out :
          Without(Append(v, e), out) = IF e \in out THEN Without(v, out) ELSE Append(Without(v, out), e)
<1>1. ASSUME NEW out PROVE Without(<<>>, out) = <<>>
  <2>1. <<>> \in Files /\ Len(<<>>) = 0
    BY DEF Files
  <2>2. Pieces(<<>>, out) = <<>>
    BY <2>1, PiecesType
  <2> QED BY <2>1, <2>2, PiecesType, Flatten
<1>2. ASSUME NEW v \in Files, NEW out PROVE Without(v, out) \in Files
  BY PiecesType, Flatten
<1>3. ASSUME NEW v \in Files, NEW e \in Events, NEW out
      PROVE  Without(Append(v, e), out) = IF e \in out THEN Without(v, out) ELSE Append(Without(v, out), e)
  <2>1. PICK w \in Files : w = Append(v, e)
    BY FilesClosed
  <2>2. PICK p \in Seq(Files), q \in Seq(Files), t \in Files :
           p = Pieces(v, out) /\ q = Pieces(w, out) /\ t = Piece(e, out)
    <3>1. Piece(e, out) \in Files
      BY DEF Piece, Files
    <3> QED BY <3>1, PiecesType
  <2>3. q = Append(p, t)
    <3>0. Len(w) = Len(v) + 1
      BY <2>1 DEF Files
    <3>1. Len(q) = Len(v) + 1 /\ Len(p) = Len(v)
      BY <3>0, <2>2, PiecesType
    <3>2. \A i \in 1..Len(v) : q[i] = p[i]
      BY <2>1, <2>2 DEF Pieces, Files
    <3>3. q[Len(v) + 1] = t
      BY <2>1, <2>2 DEF Pieces, Files
    <3>4. /\ Append(p, t) \in Seq(Files) /\ Len(Append(p, t)) = Len(v) + 1
          /\ \A i \in 1..Len(v) : Append(p, t)[i] = p[i]
          /\ Append(p, t)[Len(v) + 1] = t
      BY <3>1, AppendProperties
    <3>5. PICK a \in Seq(Files) : a = Append(p, t)
      BY <3>4
    <3>6. Len(v) \in Nat
      BY DEF Files
    <3>7. \A i \in 1..Len(q) : q[i] = a[i]
      BY <3>1, <3>2, <3>3, <3>4, <3>5, <3>6
    <3> QED BY <3>1, <3>4, <3>5, <3>7, SeqEqual
  <2>4. Without(w, out) = Without(v, out) \o t
    <3>1. Without(w, out) = FlattenSeq(q) /\ Without(v, out) = FlattenSeq(p)
      BY <2>2, PiecesType
    <3> QED BY <2>3, <3>1, Flatten
  <2>5. \A x \in Files : x \o <<>> = x /\ x \o <<e>> = Append(x, e)
    BY DEF Files
  <2>6. Without(v, out) \in Files
    BY <1>2
  <2> QED BY <2>1, <2>2, <2>4, <2>5, <2>6 DEF Piece
<1> QED BY <1>1, <1>2, <1>3

\* Two sequences, one behind the other.
LEMMA WithoutConcat ==
    ASSUME NEW v \in Files, NEW w \in Files, NEW out
    PROVE  Without(v \o w, out) = Without(v, out) \o Without(w, out)
<1> DEFINE T == {x \in Files : Without(v \o x, out) = Without(v, out) \o Without(x, out)}
<1>1. <<>> \in T
  <2>1. Without(v, out) \in Files
    BY WithoutAppend
  <2>2. v \o <<>> = v /\ Without(v, out) \o <<>> = Without(v, out) /\ <<>> \in Files
    BY <2>1, FilesClosed
  <2>3. Without(<<>>, out) = <<>>
    BY WithoutAppend
  <2> QED BY <2>2, <2>3
<1>2. ASSUME NEW x \in Files, NEW e \in Events, x \in T PROVE Append(x, e) \in T
  <2>1. PICK y \in Files, a \in Files, b \in Files, c \in Files :
            /\ y = Append(x, e) /\ a = Without(v, out) /\ b = Without(x, out) /\ c = v \o x
    BY WithoutAppend, FilesClosed
  <2>2. v \o y = Append(c, e) /\ Append(a \o b, e) = a \o Append(b, e)
    BY <2>1, AppendBehind, ZenonT(60) DEF Files
  <2>3. Without(c, out) = a \o b
    BY <1>2, <2>1
  <2>4. /\ Without(Append(c, e), out) = IF e \in out THEN Without(c, out) ELSE Append(Without(c, out), e)
        /\ Without(y, out) = IF e \in out THEN b ELSE Append(b, e)
    BY <2>1, WithoutAppend
  <2>5. Without(v \o y, out) = a \o Without(y, out)
    BY <2>2, <2>3, <2>4
  <2> QED BY <2>1, <2>5
<1> HIDE DEF T
<1>3. w \in T
  BY <1>1, <1>2, ByAppend
<1> QED BY <1>3 DEF T

\* The elements that stay are elements of the sequence, and none of those taken out.
LEMMA WithoutRange ==
    ASSUME NEW v \in Files, NEW out
    PROVE  \A x \in ToSet(Without(v, out)) : x \in ToSet(v) /\ x \notin out
<1> DEFINE T == {y \in Files : \A x \in ToSet(Without(y, out)) : x \in ToSet(y) /\ x \notin out}
<1>0. ToSet(<<>>) = {}
  BY ToSetOf
<1>1. <<>> \in T
  <2>1. Without(<<>>, out) = <<>> /\ <<>> \in Files
    BY WithoutAppend, FilesClosed
  <2> QED BY <1>0, <2>1
<1>2. ASSUME NEW y \in Files, NEW e \in Events, y \in T PROVE Append(y, e) \in T
  <2>1. PICK a \in Files, b \in Files : a = Without(y, out) /\ b = Append(y, e)
    BY WithoutAppend, FilesClosed
  <2>2. Without(b, out) = IF e \in out THEN a ELSE Append(a, e)
    BY <2>1, WithoutAppend
  <2>3. ToSet(b) = ToSet(y) \cup {e} /\ ToSet(Append(a, e)) = ToSet(a) \cup {e}
    BY <2>1, ToSetOf
  <2>4. \A x \in ToSet(a) : x \in ToSet(y) /\ x \notin out
    BY <1>2, <2>1
  <2>5. CASE e \in out
    <3>1. Without(b, out) = a
      BY <2>2, <2>5
    <3>2. \A x \in ToSet(Without(b, out)) : x \in ToSet(b) /\ x \notin out
      BY <3>1, <2>3, <2>4
    <3> QED BY <2>1, <3>2
  <2>6. CASE e \notin out
    <3>1. Without(b, out) = Append(a, e)
      BY <2>2, <2>6
    <3>2. \A x \in ToSet(Without(b, out)) : x \in ToSet(b) /\ x \notin out
      BY <3>1, <2>3, <2>4, <2>6
    <3> QED BY <2>1, <3>2
  <2> QED BY <2>5, <2>6
<1> HIDE DEF T
<1>3. v \in T
  BY <1>1, <1>2, ByAppend
<1> QED BY <1>3 DEF T

\* Nothing is taken out.
LEMMA WithoutNone ==
    ASSUME NEW v \in Files, NEW out, \A x \in ToSet(v) : x \notin out
    PROVE  Without(v, out) = v
<1> DEFINE T == {y \in Files : (\A x \in ToSet(y) : x \notin out) => Without(y, out) = y}
<1>1. <<>> \in T
  BY WithoutAppend, FilesClosed
<1>2. ASSUME NEW y \in Files, NEW e \in Events, y \in T PROVE Append(y, e) \in T
  <2>1. PICK b \in Files : b = Append(y, e)
    BY FilesClosed
  <2>2. ASSUME \A x \in ToSet(b) : x \notin out PROVE Without(b, out) = b
    <3>1. ToSet(b) = ToSet(y) \cup {e}
      BY <2>1, ToSetOf
    <3>2. e \notin out /\ Without(y, out) = y
      BY <1>2, <2>2, <3>1
    <3> QED BY <2>1, <3>2, WithoutAppend
  <2> QED BY <2>1, <2>2
<1> HIDE DEF T
<1>3. v \in T
  BY <1>1, <1>2, ByAppend
<1> QED BY <1>3 DEF T

\* Everything is.
LEMMA WithoutAll ==
    ASSUME NEW v \in Files, NEW out, \A x \in ToSet(v) : x \in out
    PROVE  Without(v, out) = <<>>
<1> DEFINE T == {y \in Files : (\A x \in ToSet(y) : x \in out) => Without(y, out) = <<>>}
<1>1. <<>> \in T
  BY WithoutAppend, FilesClosed
<1>2. ASSUME NEW y \in Files, NEW e \in Events, y \in T PROVE Append(y, e) \in T
  <2>1. PICK b \in Files : b = Append(y, e)
    BY FilesClosed
  <2>2. ASSUME \A x \in ToSet(b) : x \in out PROVE Without(b, out) = <<>>
    <3>1. ToSet(b) = ToSet(y) \cup {e}
      BY <2>1, ToSetOf
    <3>2. e \in out /\ Without(y, out) = <<>>
      BY <1>2, <2>2, <3>1
    <3> QED BY <2>1, <3>2, WithoutAppend
  <2> QED BY <2>1, <2>2
<1> HIDE DEF T
<1>3. v \in T
  BY <1>1, <1>2, ByAppend
<1> QED BY <1>3 DEF T

\* More is taken out.
LEMMA WithoutTwice ==
    ASSUME NEW v \in Files, NEW out, NEW more, NEW both, both = out \cup more
    PROVE  Without(v, both) = Without(Without(v, out), more)
<1> DEFINE T == {y \in Files : Without(y, both) = Without(Without(y, out), more)}
<1>1. <<>> \in T
  BY WithoutAppend, FilesClosed
<1>2. ASSUME NEW y \in Files, NEW e \in Events, y \in T PROVE Append(y, e) \in T
  <2>1. PICK b \in Files, a \in Files, c \in Files :
            b = Append(y, e) /\ a = Without(y, out) /\ c = Without(y, both)
    BY WithoutAppend, FilesClosed
  <2>2. Without(b, both) = IF e \in both THEN c ELSE Append(c, e)
    BY <2>1, WithoutAppend
  <2>3. Without(b, out) = IF e \in out THEN a ELSE Append(a, e)
    BY <2>1, WithoutAppend
  <2>4. Without(Append(a, e), more) = IF e \in more THEN Without(a, more) ELSE Append(Without(a, more), e)
    BY <2>1, WithoutAppend
  <2>5. c = Without(a, more)
    BY <1>2, <2>1
  <2>6. Without(b, both) = Without(Without(b, out), more)
    <3>1. CASE e \in out
      BY <2>2, <2>3, <2>5, <3>1
    <3>2. CASE e \notin out
      <4>1. Without(b, out) = Append(a, e)
        BY <2>3, <3>2
      <4>2. e \in both <=> e \in more
        BY <3>2
      <4>3. Without(Append(a, e), more) = IF e \in both THEN c ELSE Append(c, e)
        BY <2>4, <2>5, <4>2
      <4> QED BY <2>2, <4>1, <4>3
    <3> QED BY <3>1, <3>2
  <2> QED BY <2>1, <2>6
<1> HIDE DEF T
<1>3. v \in T
  BY <1>1, <1>2, ByAppend
<1> QED BY <1>3 DEF T

\* An event occurs once.
Once(v) == \A i, j \in 1..Len(v) : v[i] = v[j] => i = j

\* A new event occurs once.
LEMMA OnceAppend ==
    ASSUME NEW v \in Files, NEW e \in Events
    PROVE  Once(Append(v, e)) <=> Once(v) /\ e \notin ToSet(v)
<1>0. Append(v, e) \in Seq(Events) /\ Len(v) \in Nat
  BY AppendProperties DEF Files
<1>1. PICK n \in Nat, a \in Seq(Events) : n = Len(v) /\ a = Append(v, e)
  BY <1>0
<1>2. Len(a) = n + 1 /\ (\A i \in 1..n : a[i] = v[i]) /\ a[n + 1] = e
  BY <1>1, AppendProperties DEF Files
<1>3. e \in ToSet(v) <=> \E i \in 1..n : v[i] = e
  BY <1>1 DEF ToSet, Files
<1>4. Once(v) <=> \A i, j \in 1..n : v[i] = v[j] => i = j
  BY <1>1 DEF Once
<1>5. Once(a) <=> \A i, j \in 1..(n + 1) : a[i] = a[j] => i = j
  BY <1>2 DEF Once
<1>6. ASSUME Once(a) PROVE Once(v) /\ e \notin ToSet(v)
  <2>1. \A i, j \in 1..n : v[i] = v[j] => i = j
    BY <1>2, <1>5, <1>6
  <2>2. ~\E i \in 1..n : v[i] = e
    BY <1>2, <1>5, <1>6
  <2> QED BY <2>1, <2>2, <1>3, <1>4
<1>7. ASSUME Once(v), e \notin ToSet(v) PROVE Once(a)
  <2>1. \A i \in 1..n : v[i] # e
    BY <1>3, <1>7
  <2>2. ASSUME NEW i \in 1..(n + 1), NEW j \in 1..(n + 1), a[i] = a[j] PROVE i = j
    <3>1. CASE i \in 1..n /\ j \in 1..n
      BY <1>2, <1>4, <1>7, <2>2, <3>1
    <3>2. CASE i = n + 1 /\ j \in 1..n
      BY <1>2, <2>1, <2>2, <3>2
    <3>3. CASE j = n + 1 /\ i \in 1..n
      BY <1>2, <2>1, <2>2, <3>3
    <3>4. CASE i = n + 1 /\ j = n + 1
      BY <3>4
    <3> QED BY <3>1, <3>2, <3>3, <3>4
  <2> QED BY <2>2, <1>5
<1> QED BY <1>1, <1>6, <1>7

\* An event of the first half is not in the second.
LEMMA OnceConcat ==
    ASSUME NEW v \in Files, NEW w \in Files, Once(v \o w)
    PROVE  \A x \in ToSet(v) : x \notin ToSet(w)
<1> SUFFICES ASSUME NEW x \in ToSet(v), x \in ToSet(w) PROVE FALSE
  OBVIOUS
<1>1. PICK i \in 1..Len(v), j \in 1..Len(w) : v[i] = x /\ w[j] = x
  BY DEF ToSet, Files
<1>2. PICK n \in Nat, m \in Nat : n = Len(v) /\ m = Len(w)
  BY DEF Files
<1>3. Len(v \o w) = n + m /\ (v \o w)[i] = v[i] /\ (v \o w)[n + j] = w[j]
  BY <1>1, <1>2 DEF Files
<1>4. i \in 1..(n + m) /\ n + j \in 1..(n + m) /\ i # n + j
  BY <1>1, <1>2
<1> QED BY <1>1, <1>3, <1>4 DEF Once

\* What stays occurs once.
LEMMA OnceWithout ==
    ASSUME NEW v \in Files, Once(v), NEW out
    PROVE  Once(Without(v, out))
<1> DEFINE T == {y \in Files : Once(y) => Once(Without(y, out))}
<1>1. <<>> \in T
  <2>1. Once(<<>>)
    BY DEF Once
  <2> QED BY <2>1, WithoutAppend, FilesClosed
<1>2. ASSUME NEW y \in Files, NEW e \in Events, y \in T PROVE Append(y, e) \in T
  <2>1. PICK b \in Files, a \in Files : b = Append(y, e) /\ a = Without(y, out)
    BY WithoutAppend, FilesClosed
  <2>2. ASSUME Once(b) PROVE Once(Without(b, out))
    <3>1. Once(y) /\ e \notin ToSet(y)
      BY <2>1, <2>2, OnceAppend
    <3>2. Once(a)
      BY <1>2, <2>1, <3>1
    <3>3. e \notin ToSet(a)
      BY <2>1, <3>1, WithoutRange
    <3>4. Once(Append(a, e))
      BY <3>2, <3>3, OnceAppend
    <3>5. Without(b, out) = IF e \in out THEN a ELSE Append(a, e)
      BY <2>1, WithoutAppend
    <3> QED BY <3>2, <3>4, <3>5
  <2> QED BY <2>1, <2>2
<1> HIDE DEF T
<1>3. v \in T
  BY <1>1, <1>2, ByAppend
<1> QED BY <1>3 DEF T

-----------------------------------------------------------------------------
(* The uploader *)

\* The list holds the first events of the storage, and they are evs.
Carries(q, l, evs) == /\ l # NullList /\ evs \in Files /\ l.count = Len(evs)
                      /\ \E r \in Files : q = evs \o r

\* The storage of the uploader, where every open() succeeds.
Works == StorageInv /\ failures = 0

\* What the storage's invariant says of it.
LEMMA WorksType ==
    ASSUME Works
    PROVE  Sound(batch) /\ InFlight(batch, list) /\ Contents(batch) \in Files
<1>1. Sound(batch) /\ InFlight(batch, list)
  BY DEF Works, StorageInv
<1> QED BY <1>1, ContentsParts DEF Sound

\* getEventsForUpload hands out the first events, or nothing.
LEMMA Taken ==
    ASSUME Works, NEW mc \in Nat, NEW ms \in Nat, NEW found, NEW missing,
           TakeList(mc, ms, found, missing)
    PROVE  /\ Works' /\ Contents(batch') = Contents(batch) /\ tried' = tried
           /\ \/ list' = NullList /\ evts' = <<>> /\ pc' = missing
              \/ Carries(Contents(batch), list', evts') /\ pc' = found
<1>0. PICK limit : limit = <<mc, ms>>
  OBVIOUS
<1>1. limit = <<mc, ms>> /\ limit[1] = mc /\ limit[2] = ms
  BY <1>0
<1>2. GetEventsForUpload(limit) /\ failures' = failures
  BY <1>1 DEF TakeList
<1>3. StorageInv' /\ failures' = 0
  BY <1>1, <1>2, GetKept DEF Works
<1>4. /\ Sound(batch) /\ batch' = checkOldestBatch(batch, {})
      /\ list' = getEventsForUpload(batch', mc, ms)
  BY <1>1, <1>2, <1>3, GetStep DEF Works
<1>5. Sound(batch') /\ Settled(batch') /\ Contents(batch') = Contents(batch)
  BY <1>4, OldestChecked
<1>6. list' = NullList \/ IsList(list', At(batch'.disk, front(batch')))
  BY <1>4, <1>5, ListTaken
<1>7. tried' = tried
  BY <1>2 DEF GetEventsForUpload
<1>8. CASE list' = NullList
  <2>1. evts' = <<>> /\ pc' = missing
    BY <1>8 DEF TakeList
  <2> QED BY <1>3, <1>5, <1>7, <1>8, <2>1 DEF Works
<1>9. CASE list' # NullList
  <2>1. PICK v \in Seq(Events), r \in Seq(Events) :
           /\ v = At(batch'.disk, front(batch')) /\ v = Content(batch', front(batch'))
           /\ Contents(batch') = v \o r
    BY <1>5, RestExists, FrontOpen DEF IsRest, Files
  <2>2. PICK k \in 0..Len(v) : k = list'.count
    BY <1>6, <1>9, <2>1 DEF IsList
  <2>3. evts' = Prefix(v, k) /\ pc' = found
    BY <1>9, <2>1, <2>2 DEF TakeList, Prefix
  <2>4. PICK p \in Seq(Events), c \in Seq(Events) : p = evts' /\ Len(p) = k /\ v = p \o c
    BY <2>3, Halves
  <2>5. (p \o c) \o r = p \o (c \o r) /\ c \o r \in Files
    <3>1. (p \o c) \o r = p \o (c \o r)
      BY ConcatAssociative, SMTT(60)
    <3>2. c \o r \in Seq(Events)
      BY ConcatProperties
    <3> QED BY <3>1, <3>2 DEF Files
  <2>6. Contents(batch) = p \o (c \o r)
    BY <1>5, <2>1, <2>4, <2>5
  <2>7. Carries(Contents(batch), list', evts')
    BY <1>9, <2>2, <2>4, <2>5, <2>6 DEF Carries, Files
  <2> QED BY <1>3, <1>5, <1>7, <2>3, <2>7 DEF Works
<1> QED BY <1>8, <1>9

\* onEventsUploaded removes what the list held.
LEMMA Reported ==
    ASSUME Works, NEW r \in Files, Contents(batch) = evts \o r, evts \in Files,
           list.count = Len(evts), OnEventsUploaded
    PROVE  Works' /\ Contents(batch') = r /\ tried' = tried /\ list' = NullList
<1>1. /\ list # NullList /\ batch' = onEventsUploaded(batch, list) /\ list' = NullList
      /\ tried' = tried /\ failures' = failures
  BY DEF OnEventsUploaded
<1>2. [Next]_vars
  BY DEF Next
<1>3. Works'
  BY <1>1, <1>2, StorageNext DEF Works
<1>4. Sound(batch) /\ Settled(batch) /\ IsList(list, At(batch.disk, front(batch)))
  BY <1>1, WorksType DEF InFlight
<1>5. Contents(batch') = Cut(Contents(batch), list.count)
  BY <1>1, <1>4, Uploaded
<1>6. Cut(evts \o r, list.count) = r
  BY CutBehind DEF Files
<1> QED BY <1>1, <1>3, <1>5, <1>6

\* addEvent appends its event, or refuses it.
LEMMA Accepted ==
    ASSUME Works, NEW e \in Events, AddEvent(e), failures' = failures
    PROVE  /\ Works' /\ e \notin tried /\ tried' = tried \cup {e} /\ list' = list
           /\ Contents(batch') = IF accepts(batch, e, {}) THEN Append(Contents(batch), e)
                                 ELSE Contents(batch)
<1>1. [Next]_vars
  BY DEF Next
<1>2. Works'
  BY <1>1, StorageNext DEF Works
<1>3. Sound(batch) /\ batch' = addEvent(batch, e, {}) /\ list' = list
  BY AddStep DEF Works
<1>4. e \notin tried /\ tried' = tried \cup {e}
  BY DEF AddEvent
<1> QED BY <1>2, <1>3, <1>4, EventAdded

\* New limits of the files.
LEMMA Limited ==
    ASSUME Works, NEW limit \in FileLimits, SetFileLimits(limit)
    PROVE  Works' /\ Contents(batch') = Contents(batch) /\ tried' = tried /\ list' = list
<1>1. /\ batch' = setFileLimits(batch, limit) /\ list' = list /\ tried' = tried
      /\ failures' = failures
  BY DEF SetFileLimits
<1>2. [Next]_vars
  BY DEF Next
<1>3. Works'
  BY <1>1, <1>2, StorageNext DEF Works
<1>4. limit \in Nat \X Nat
  BY LimitAssumption
<1> QED BY <1>1, <1>3, <1>4, WorksType, LimitSet

\* What the threads of the uploader hold: limits as the configurations give them, and from
\* readLimit on the arguments of sendEvents.
Reading == {"get", "empty", "first", "drop"}
Holding == {"drop", "post", "done"}
ThreadInv ==
    /\ limits \in Nat \X Nat
    /\ update = Nothing \/ update \in Nat \X Nat
    /\ pc = "args" => \A j \in 1..2 : args[j] \in Nat \cup {None}
    /\ pc \in Reading => args[1] \in Nat /\ args[2] \in Nat

\* The list of the upload thread holds the first events of the storage.
HoldInv ==
    IF pc \in Holding THEN Carries(Contents(batch), list, evts)
    ELSE list = NullList /\ evts = <<>>

\* The events, in their order: acknowledged, then stored.
Behind(r) == Without(accepted, ToSet(dropped)) = received \o r
QueueInv ==
    IF pc = "done" THEN \E r \in Files : Contents(batch) = evts \o r /\ Behind(r)
    ELSE Behind(Contents(batch))

\* Every event is accepted once, and only accepted events are given up.
HistoryInv ==
    /\ accepted \in Files /\ received \in Files /\ dropped \in Files
    /\ Once(accepted) /\ (\A e \in ToSet(accepted) : e \in tried)
    /\ \A e \in ToSet(dropped) : e \in ToSet(accepted)

\* The inductive invariant.
UploaderInv == Works /\ ThreadInv /\ HoldInv /\ QueueInv /\ HistoryInv

\* The invariant is all that ExactlyOnce needs.
LEMMA InvExactlyOnce ==
    ASSUME UploaderInv
    PROVE  ExactlyOnce
<1>1. PICK q \in Files : q = Contents(batch)
  BY WorksType DEF UploaderInv
<1>2. CASE pc = "done"
  <2>1. PICK r \in Files : q = evts \o r /\ Behind(r)
    BY <1>1, <1>2 DEF UploaderInv, QueueInv
  <2>2. evts \in Files
    BY <1>2 DEF UploaderInv, HoldInv, Holding, Carries
  <2>3. PICK k : k = Len(evts) /\ Delivered = k
    BY <1>2 DEF Delivered
  <2>4. Cut(evts \o r, k) = r
    BY <2>2, <2>3, CutBehind DEF Files
  <2>5. SubSeq(q, k + 1, Len(q)) = r
    BY <2>1, <2>4 DEF Cut
  <2> QED BY <1>1, <2>1, <2>3, <2>5 DEF ExactlyOnce, Behind
<1>3. CASE pc # "done"
  <2>1. Behind(q)
    BY <1>1, <1>3 DEF UploaderInv, QueueInv
  <2>2. Delivered = 0
    BY <1>3 DEF Delivered
  <2>3. SubSeq(q, 0 + 1, Len(q)) = q
    <3>1. SubSeq(q, 1, Len(q)) = q
      BY SubSeqFull DEF Files
    <3>2. 0 + 1 = 1
      OBVIOUS
    <3> QED BY <3>1, <3>2
  <2> QED BY <1>1, <2>1, <2>2, <2>3 DEF ExactlyOnce, Behind
<1> QED BY <1>2, <1>3

\* The invariant holds at first.
LEMMA UploaderStart ==
    ASSUME UploaderInit
    PROVE  UploaderInv
<1>1. Init
  BY DEF UploaderInit
<1>2. PICK limit \in FileLimits : batch = openStorage(<<>>, limit, {})
  BY <1>1 DEF Init
<1>3. limit \in Nat \X Nat
  BY LimitAssumption
<1>4. batch.limit = limit /\ Contents(batch) = <<>>
  BY <1>2, <1>3, Fresh
<1>5. Works /\ list = NullList
  BY <1>1, StorageInit DEF Works, Init
<1>6. ThreadInv
  BY <1>3, <1>4 DEF UploaderInit, ThreadInv, Reading
<1>7. HoldInv
  BY <1>5 DEF UploaderInit, HoldInv, Holding
<1>8. HistoryInv
  <2>1. ToSet(<<>>) = {} /\ <<>> \in Files /\ Once(<<>>)
    BY ToSetOf, FilesClosed DEF Once
  <2> QED BY <2>1 DEF UploaderInit, HistoryInv
<1>9. QueueInv
  <2>1. Without(<<>>, ToSet(<<>>)) = <<>> /\ <<>> \o <<>> = <<>>
    BY WithoutAppend, FilesClosed
  <2> QED BY <1>4, <2>1 DEF UploaderInit, QueueInv, Behind
<1> QED BY <1>5, <1>6, <1>7, <1>8, <1>9 DEF UploaderInv

\* EventManager::add while the upload thread is anywhere.
LEMMA AddKept ==
    ASSUME UploaderInv, NEW e \in Events, add(e)
    PROVE  UploaderInv'
<1>1. /\ AddEvent(e) /\ failures' = failures
      /\ accepted' = IF accepts(batch, e, {}) THEN Append(accepted, e) ELSE accepted
      /\ limits' = limits /\ update' = update /\ pc' = pc /\ args' = args /\ evts' = evts
      /\ received' = received /\ dropped' = dropped
  BY DEF add, call, outcome
<1>2. PICK q \in Files : q = Contents(batch)
  BY WorksType DEF UploaderInv
<1>3. /\ Works' /\ e \notin tried /\ tried' = tried \cup {e} /\ list' = list
      /\ Contents(batch') = IF accepts(batch, e, {}) THEN Append(q, e) ELSE q
  BY <1>1, <1>2, Accepted DEF UploaderInv
<1>4. ThreadInv'
  BY <1>1 DEF UploaderInv, ThreadInv
<1>5. e \notin ToSet(accepted) /\ e \notin ToSet(dropped)
  BY <1>3 DEF UploaderInv, HistoryInv
<1>6. CASE ~accepts(batch, e, {})
  <2>1. Contents(batch') = q /\ accepted' = accepted
    BY <1>1, <1>3, <1>6
  <2>2. HoldInv' /\ QueueInv'
    BY <1>1, <1>2, <1>3, <2>1 DEF UploaderInv, HoldInv, QueueInv, Behind
  <2>3. HistoryInv'
    BY <1>1, <1>3, <2>1 DEF UploaderInv, HistoryInv
  <2> QED BY <1>3, <1>4, <2>2, <2>3 DEF UploaderInv
<1>7. CASE accepts(batch, e, {})
  <2>1. Contents(batch') = Append(q, e) /\ accepted' = Append(accepted, e)
    BY <1>1, <1>3, <1>7
  <2>2. accepted \in Files /\ received \in Files
    BY DEF UploaderInv, HistoryInv
  <2>3. HistoryInv'
    <3>1. accepted' \in Files /\ ToSet(accepted') = ToSet(accepted) \cup {e}
      BY <2>1, <2>2, FilesClosed, ToSetOf
    <3>2. Once(accepted')
      BY <1>5, <2>1, <2>2, OnceAppend DEF UploaderInv, HistoryInv
    <3> QED BY <1>1, <1>3, <3>1, <3>2 DEF UploaderInv, HistoryInv
  <2>4. Without(accepted', ToSet(dropped')) = Append(Without(accepted, ToSet(dropped)), e)
    <3>1. PICK d : d = ToSet(dropped) /\ d = ToSet(dropped') /\ e \notin d
      BY <1>1, <1>5
    <3>2. Without(Append(accepted, e), d) = Append(Without(accepted, d), e)
      BY <2>2, <3>1, WithoutAppend
    <3> QED BY <2>1, <3>1, <3>2
  <2>5. \A r \in Files : Behind(r) => Behind(Append(r, e))'
    <3> SUFFICES ASSUME NEW r \in Files, Behind(r) PROVE Behind(Append(r, e))'
      OBVIOUS
    <3>1. received \o Append(r, e) = Append(received \o r, e)
      BY <2>2, AppendBehind DEF Files
    <3> QED BY <1>1, <2>4, <3>1 DEF Behind
  <2>6. \A r, x \in Files : q = x \o r => Append(q, e) = x \o Append(r, e) /\ Append(r, e) \in Files
    BY AppendBehind, FilesClosed DEF Files
  <2>7. HoldInv'
    <3>1. CASE pc \in Holding
      <4>1. Carries(q, list, evts)
        BY <1>2, <3>1 DEF UploaderInv, HoldInv
      <4>2. PICK r \in Files : evts \in Files /\ q = evts \o r
        BY <4>1 DEF Carries
      <4>3. PICK y \in Files : y = Append(r, e) /\ Append(q, e) = evts \o y
        BY <2>6, <4>2
      <4>4. Carries(Append(q, e), list, evts)
        BY <4>1, <4>3 DEF Carries
      <4> QED BY <1>1, <1>3, <2>1, <3>1, <4>4 DEF HoldInv
    <3>2. CASE pc \notin Holding
      BY <1>1, <1>3, <3>2 DEF UploaderInv, HoldInv
    <3> QED BY <3>1, <3>2
  <2>8. QueueInv'
    <3>1. CASE pc = "done"
      <4>1. PICK r \in Files : q = evts \o r /\ Behind(r)
        BY <1>2, <3>1 DEF UploaderInv, QueueInv
      <4>2. evts \in Files
        BY <3>1 DEF UploaderInv, HoldInv, Holding, Carries
      <4>3. PICK y \in Files : y = Append(r, e)
        BY FilesClosed
      <4>4. Contents(batch') = evts' \o y /\ Behind(y)'
        BY <1>1, <2>1, <2>5, <2>6, <4>1, <4>2, <4>3
      <4> QED BY <1>1, <3>1, <4>4 DEF QueueInv
    <3>2. CASE pc # "done"
      <4>1. Behind(q)
        BY <1>2, <3>2 DEF UploaderInv, QueueInv
      <4>2. Behind(Contents(batch))'
        BY <2>1, <2>5, <4>1
      <4> QED BY <1>1, <3>2, <4>2 DEF QueueInv
    <3> QED BY <3>1, <3>2
  <2> QED BY <1>3, <1>4, <2>3, <2>7, <2>8 DEF UploaderInv
<1> QED BY <1>6, <1>7

\* A step that leaves the storage, the list and the events as they are.
LEMMA CallKept ==
    ASSUME UploaderInv, Works', Contents(batch') = Contents(batch), list' = list, tried' = tried,
           evts' = evts, accepted' = accepted, received' = received, dropped' = dropped,
           pc' \in Holding <=> pc \in Holding, pc' = "done" <=> pc = "done", ThreadInv'
    PROVE  UploaderInv'
<1>1. HoldInv'
  BY DEF UploaderInv, HoldInv
<1>2. QueueInv'
  BY DEF UploaderInv, QueueInv, Behind
<1>3. HistoryInv'
  BY DEF UploaderInv, HistoryInv
<1> QED BY <1>1, <1>2, <1>3 DEF UploaderInv

\* sendEvents and getFirst, wherever they go on.
LEMMA TakeKept ==
    ASSUME UploaderInv, pc \notin Holding, NEW mc \in Nat, NEW ms \in Nat, NEW found, NEW missing,
           TakeList(mc, ms, found, missing), found \in Holding \ {"done"}, missing \notin Holding,
           accepted' = accepted, received' = received, dropped' = dropped, ThreadInv'
    PROVE  UploaderInv'
<1>1. PICK q \in Files : q = Contents(batch)
  BY WorksType DEF UploaderInv
<1>2. /\ Works' /\ Contents(batch') = q /\ tried' = tried
      /\ \/ list' = NullList /\ evts' = <<>> /\ pc' = missing
         \/ Carries(q, list', evts') /\ pc' = found
  BY <1>1, Taken DEF UploaderInv
<1>3. HoldInv'
  BY <1>2 DEF HoldInv
<1>4. pc # "done" /\ pc' # "done"
  BY <1>2 DEF Holding
<1>5. Behind(q)
  BY <1>1, <1>4 DEF UploaderInv, QueueInv
<1>6. QueueInv'
  BY <1>2, <1>4, <1>5 DEF QueueInv, Behind
<1>7. HistoryInv'
  BY <1>2 DEF UploaderInv, HistoryInv
<1> QED BY <1>2, <1>3, <1>6, <1>7 DEF UploaderInv

\* The first event is given up.
LEMMA DropKept ==
    ASSUME UploaderInv, dropFirst
    PROVE  UploaderInv'
<1>1. /\ pc = "drop" /\ OnEventsUploaded /\ dropped' = dropped \o evts /\ pc' = "get" /\ evts' = <<>>
      /\ limits' = limits /\ update' = update /\ args' = args
      /\ accepted' = accepted /\ received' = received
  BY DEF dropFirst, clients
<1>2. PICK q \in Files : q = Contents(batch)
  BY WorksType DEF UploaderInv
<1>3. Carries(q, list, evts) /\ Behind(q)
  BY <1>1, <1>2 DEF UploaderInv, HoldInv, QueueInv, Holding
<1>4. PICK r \in Files : q = evts \o r /\ evts \in Files /\ list.count = Len(evts)
  BY <1>3 DEF Carries
<1>5. Works' /\ Contents(batch') = r /\ tried' = tried /\ list' = NullList
  BY <1>1, <1>2, <1>4, Reported DEF UploaderInv
<1>6. ThreadInv'
  BY <1>1 DEF UploaderInv, ThreadInv, Reading
<1>7. HoldInv'
  BY <1>1, <1>5 DEF HoldInv, Holding
<1>8. /\ accepted \in Files /\ received \in Files /\ dropped \in Files
      /\ Once(accepted) /\ (\A e \in ToSet(accepted) : e \in tried)
      /\ \A e \in ToSet(dropped) : e \in ToSet(accepted)
  BY DEF UploaderInv, HistoryInv
<1>9. PICK out, more, both : /\ out = ToSet(dropped) /\ more = ToSet(evts) /\ both = out \cup more
                             /\ both = ToSet(dropped')
  BY <1>1, <1>4, <1>8, ToSetOf
<1>10. PICK w \in Files : w = Without(accepted, out) /\ w = received \o q
  BY <1>3, <1>8, <1>9, WithoutAppend DEF Behind
<1>11. Once(w)
  BY <1>8, <1>10, OnceWithout
<1>12. /\ received \o (evts \o r) = w /\ (received \o evts) \o r = w /\ received \o evts \in Files
  <2>1. PICK x \in Files, y \in Files : x = received /\ y = evts
    BY <1>4, <1>8
  <2>2. Grouped(x, y, r) /\ x \o y \in Files
    BY Regroup, FilesClosed
  <2> QED BY <1>4, <1>10, <2>1, <2>2 DEF Grouped
<1>13. \A x \in ToSet(received) : x \notin more
  <2>1. \A x \in ToSet(received) : x \notin ToSet(evts \o r)
    BY <1>2, <1>4, <1>8, <1>11, <1>12, OnceConcat
  <2>2. ToSet(evts \o r) = ToSet(evts) \cup ToSet(r)
    BY <1>4, ToSetOf
  <2> QED BY <1>9, <2>1, <2>2
<1>14. \A x \in ToSet(r) : x \notin more
  <2>1. \A x \in ToSet(received \o evts) : x \notin ToSet(r)
    BY <1>11, <1>12, OnceConcat
  <2>2. ToSet(received \o evts) = ToSet(received) \cup ToSet(evts)
    BY <1>4, <1>8, ToSetOf
  <2> QED BY <1>9, <2>1, <2>2
<1>15. Without(w, more) = received \o r
  <2>1. Without(received, more) = received /\ Without(r, more) = r
    BY <1>8, <1>13, <1>14, WithoutNone
  <2>2. Without(evts, more) = <<>>
    BY <1>4, <1>9, WithoutAll
  <2>3. Without(evts \o r, more) = r
    <3>1. PICK v \in Files : v = evts
      BY <1>4
    <3>2. Without(v \o r, more) = Without(v, more) \o Without(r, more)
      BY WithoutConcat
    <3>3. <<>> \o r = r
      BY FilesClosed
    <3> QED BY <2>1, <2>2, <3>1, <3>2, <3>3
  <2>4. Without(received \o q, more) = Without(received, more) \o Without(q, more)
    <3>1. PICK v \in Files : v = received
      BY <1>8
    <3>2. Without(v \o q, more) = Without(v, more) \o Without(q, more)
      BY WithoutConcat
    <3> QED BY <3>1, <3>2
  <2> QED BY <1>4, <1>10, <2>1, <2>3, <2>4
<1>16. QueueInv'
  <2>1. Without(accepted, both) = received \o r
    <3>1. PICK v \in Files : v = accepted
      BY <1>8
    <3>2. Without(v, both) = Without(Without(v, out), more)
      BY <1>9, WithoutTwice
    <3> QED BY <1>10, <1>15, <3>1, <3>2
  <2>2. Without(accepted', ToSet(dropped')) = received' \o Contents(batch')
    BY <1>1, <1>5, <1>9, <2>1
  <2> QED BY <1>1, <2>2 DEF QueueInv, Behind
<1>17. HistoryInv'
  <2>1. \A e \in ToSet(evts) : e \in ToSet(accepted)
    <3>1. \A e \in ToSet(w) : e \in ToSet(accepted)
      BY <1>8, <1>10, WithoutRange
    <3>2. ToSet(w) = ToSet(received) \cup ToSet(evts \o r) /\ ToSet(evts \o r) = ToSet(evts) \cup ToSet(r)
      BY <1>2, <1>4, <1>8, <1>12, ToSetOf
    <3> QED BY <3>1, <3>2
  <2>2. dropped' \in Files
    BY <1>1, <1>4, <1>8, FilesClosed
  <2>3. \A e \in ToSet(dropped') : e \in ToSet(accepted)
    BY <1>8, <1>9, <2>1
  <2> QED BY <1>1, <1>5, <1>8, <2>2, <2>3 DEF HistoryInv
<1> QED BY <1>5, <1>6, <1>7, <1>16, <1>17 DEF UploaderInv

\* A pair of limits has two numbers, and readLimit completes them.
LEMMA Pairs ==
    ASSUME NEW p \in Nat \X Nat
    PROVE  p[1] \in Nat /\ p[2] \in Nat /\ \A j \in 1..2 : p[j] \in Nat
<1>1. p[1] \in Nat /\ p[2] \in Nat
  OBVIOUS
<1>2. \A j \in 1..2 : j = 1 \/ j = 2
  OBVIOUS
<1> QED BY <1>1, <1>2

\* storeLimits keeps the limits a pair.
LEMMA PairStored ==
    ASSUME NEW p \in Nat \X Nat, NEW x \in Nat
    PROVE  [p EXCEPT ![2] = x] \in Nat \X Nat
OBVIOUS

\* The server acknowledges the list.
LEMMA PostKept ==
    ASSUME UploaderInv, postAccepted
    PROVE  UploaderInv'
<1>1. /\ pc = "post" /\ pc' = "done" /\ received' = received \o evts /\ UNCHANGED vars
      /\ limits' = limits /\ update' = update /\ accepted' = accepted /\ evts' = evts /\ dropped' = dropped
  BY DEF postAccepted, clients, call
<1>2. PICK q \in Files : q = Contents(batch)
  BY WorksType DEF UploaderInv
<1>3. /\ Works' /\ Contents(batch') = q /\ list' = list /\ tried' = tried
  BY <1>1, <1>2 DEF vars, UploaderInv, Works, StorageInv
<1>4. Carries(q, list, evts) /\ Behind(q)
  BY <1>1, <1>2 DEF UploaderInv, HoldInv, QueueInv, Holding
<1>5. PICK r \in Files : q = evts \o r /\ evts \in Files
  BY <1>4 DEF Carries
<1>6. received \in Files
  BY DEF UploaderInv, HistoryInv
<1>7. ThreadInv'
  BY <1>1 DEF UploaderInv, ThreadInv, Reading
<1>8. HoldInv'
  BY <1>1, <1>3, <1>4 DEF HoldInv, Holding
<1>9. QueueInv'
  <2>1. received \o (evts \o r) = (received \o evts) \o r
    <3>1. PICK x \in Files, y \in Files : x = received /\ y = evts
      BY <1>5, <1>6
    <3>2. Grouped(x, y, r)
      BY Regroup
    <3> QED BY <3>1, <3>2 DEF Grouped
  <2>2. Behind(r)'
    BY <1>1, <1>4, <1>5, <2>1 DEF Behind
  <2> QED BY <1>1, <1>3, <1>5, <2>2 DEF QueueInv
<1>10. HistoryInv'
  <2>1. received' \in Files
    BY <1>1, <1>5, <1>6, FilesClosed
  <2> QED BY <1>1, <1>3, <2>1 DEF UploaderInv, HistoryInv
<1> QED BY <1>3, <1>7, <1>8, <1>9, <1>10 DEF UploaderInv

\* It does not: the list is forgotten, the events stay.
LEMMA FailKept ==
    ASSUME UploaderInv, postFailed
    PROVE  UploaderInv'
<1>1. /\ pc = "post" /\ UploadFailed /\ pc' = "loop" /\ evts' = <<>>
      /\ limits' = limits /\ update' = update /\ accepted' = accepted
      /\ received' = received /\ dropped' = dropped
  BY DEF postFailed, clients, outcome
<1>2. /\ list' = NullList /\ batch' = batch /\ tried' = tried /\ failures' = failures
  BY <1>1 DEF UploadFailed
<1>3. Works'
  <2>1. [Next]_vars
    BY <1>1 DEF Next
  <2> QED BY <1>2, <2>1, StorageNext DEF UploaderInv, Works
<1>4. Behind(Contents(batch))
  BY <1>1 DEF UploaderInv, QueueInv
<1>5. ThreadInv'
  BY <1>1 DEF UploaderInv, ThreadInv, Reading
<1>6. HoldInv'
  BY <1>1, <1>2 DEF HoldInv, Holding
<1>7. QueueInv'
  BY <1>1, <1>2, <1>4 DEF QueueInv, Behind
<1>8. HistoryInv'
  BY <1>1, <1>2 DEF UploaderInv, HistoryInv
<1> QED BY <1>3, <1>5, <1>6, <1>7, <1>8 DEF UploaderInv

\* The list was acknowledged and leaves the storage.
LEMMA DoneKept ==
    ASSUME UploaderInv, uploaded
    PROVE  UploaderInv'
<1>1. /\ pc = "done" /\ OnEventsUploaded /\ pc' = "loop" /\ evts' = <<>>
      /\ limits' = limits /\ update' = update /\ accepted' = accepted
      /\ received' = received /\ dropped' = dropped
  BY DEF uploaded, clients, outcome
<1>2. PICK q \in Files : q = Contents(batch)
  BY WorksType DEF UploaderInv
<1>3. PICK r \in Files : q = evts \o r /\ Behind(r)
  BY <1>1, <1>2 DEF UploaderInv, QueueInv
<1>4. evts \in Files /\ list.count = Len(evts)
  BY <1>1 DEF UploaderInv, HoldInv, Holding, Carries
<1>5. Works' /\ Contents(batch') = r /\ tried' = tried /\ list' = NullList
  BY <1>1, <1>2, <1>3, <1>4, Reported DEF UploaderInv
<1>6. ThreadInv'
  BY <1>1 DEF UploaderInv, ThreadInv, Reading
<1>7. HoldInv'
  BY <1>1, <1>5 DEF HoldInv, Holding
<1>8. QueueInv'
  BY <1>1, <1>3, <1>5 DEF QueueInv, Behind
<1>9. HistoryInv'
  BY <1>1, <1>5 DEF UploaderInv, HistoryInv
<1> QED BY <1>5, <1>6, <1>7, <1>8, <1>9 DEF UploaderInv

\* Every step keeps the invariant.
LEMMA UploaderStep ==
    ASSUME UploaderInv, [UploaderNext]_uploaderVars
    PROVE  UploaderInv'
<1>0. /\ Works /\ limits \in Nat \X Nat /\ (update = Nothing \/ update \in Nat \X Nat)
      /\ limits[1] \in Nat /\ limits[2] \in Nat /\ \A j \in 1..2 : limits[j] \in Nat
  BY Pairs DEF UploaderInv, ThreadInv
<1>s. ASSUME UNCHANGED vars
      PROVE  Works' /\ Contents(batch') = Contents(batch) /\ list' = list /\ tried' = tried
  BY <1>s, <1>0 DEF vars, Works, StorageInv
<1>1. CASE UNCHANGED uploaderVars
  <2>1. UNCHANGED vars /\ pc' = pc
    BY <1>1 DEF uploaderVars
  <2>2. ThreadInv'
    BY <1>1 DEF uploaderVars, clients, call, UploaderInv, ThreadInv
  <2> QED BY <1>1, <1>s, <2>1, <2>2, CallKept DEF uploaderVars, clients, call, outcome
<1>2. ASSUME NEW e \in Events, add(e) PROVE UploaderInv'
  BY <1>2, AddKept
<1>3. ASSUME NEW limit \in FileLimits, onConfigurationUpdated(limit) PROVE UploaderInv'
  <2>1. /\ SetFileLimits(limit) /\ update' = limit /\ limits' = limits /\ pc' = pc
        /\ args' = args /\ evts' = evts /\ accepted' = accepted /\ received' = received /\ dropped' = dropped
    BY <1>3 DEF onConfigurationUpdated, call, outcome
  <2>2. limit \in Nat \X Nat
    BY LimitAssumption
  <2>3. ThreadInv'
    BY <2>1, <2>2 DEF UploaderInv, ThreadInv
  <2> QED BY <1>0, <2>1, <2>3, Limited, CallKept
<1>4. CASE storeLimits
  <2>1. /\ UNCHANGED vars /\ pc' = pc /\ update # Nothing
        /\ args' = args /\ evts' = evts /\ accepted' = accepted /\ received' = received /\ dropped' = dropped
    BY <1>4 DEF storeLimits, call, outcome
  <2>2. update \in Nat \X Nat /\ update[2] \in Nat
    BY <1>0, <2>1, Pairs
  <2>3. limits' \in Nat \X Nat /\ (update' = Nothing \/ update' \in Nat \X Nat)
    <3>1. CASE limits[2] # update[2]
      <4>1. limits' = [limits EXCEPT ![2] = update[2]] /\ update' = update
        BY <1>4, <3>1 DEF storeLimits
      <4>2. [limits EXCEPT ![2] = update[2]] \in Nat \X Nat
        BY <1>0, <2>2, PairStored
      <4> QED BY <2>2, <4>1, <4>2
    <3>2. CASE limits[2] = update[2]
      <4>1. limits' = update /\ update' = Nothing
        BY <1>4, <3>2 DEF storeLimits
      <4> QED BY <2>2, <4>1
    <3> QED BY <3>1, <3>2
  <2>4. ThreadInv'
    BY <2>1, <2>3 DEF UploaderInv, ThreadInv
  <2> QED BY <1>s, <2>1, <2>4, CallKept
<1>5. CASE uploadTasks
  <2>1. /\ UNCHANGED vars /\ pc = "loop" /\ pc' = "args" /\ limits' = limits /\ update' = update
        /\ evts' = evts /\ accepted' = accepted /\ received' = received /\ dropped' = dropped
    BY <1>5 DEF uploadTasks, clients, outcome
  <2>2. PICK i \in 1..2 : args' = [j \in 1..2 |-> IF j = i THEN limits[j] ELSE None]
    BY <1>5 DEF uploadTasks
  <2>3. \A j \in 1..2 : args'[j] \in Nat \cup {None}
    BY <1>0, <2>2
  <2>4. ThreadInv'
    BY <2>1, <2>3 DEF UploaderInv, ThreadInv, Reading
  <2>5. (pc' \in Holding <=> pc \in Holding) /\ (pc' = "done" <=> pc = "done")
    BY <2>1 DEF Holding
  <2> QED BY <1>s, <2>1, <2>4, <2>5, CallKept
<1>6. CASE readLimit
  <2>1. /\ UNCHANGED vars /\ pc = "args" /\ pc' = "get" /\ limits' = limits /\ update' = update
        /\ evts' = evts /\ accepted' = accepted /\ received' = received /\ dropped' = dropped
        /\ args' = [j \in 1..2 |-> IF args[j] = None THEN limits[j] ELSE args[j]]
    BY <1>6 DEF readLimit, clients, outcome
  <2>2. \A j \in 1..2 : args[j] \in Nat \cup {None}
    BY <2>1 DEF UploaderInv, ThreadInv
  <2>3. \A j \in 1..2 : args'[j] \in Nat
    BY <1>0, <2>1, <2>2
  <2>4. args'[1] \in Nat /\ args'[2] \in Nat
    BY <2>3
  <2>5. ThreadInv'
    BY <2>1, <2>4 DEF UploaderInv, ThreadInv
  <2>6. (pc' \in Holding <=> pc \in Holding) /\ (pc' = "done" <=> pc = "done")
    BY <2>1 DEF Holding
  <2> QED BY <1>s, <2>1, <2>5, <2>6, CallKept
<1>7. CASE sendEvents
  <2>1. /\ pc = "get" /\ TakeList(args[1], args[2], "post", "empty") /\ limits' = limits /\ update' = update
        /\ args' = args /\ accepted' = accepted /\ received' = received /\ dropped' = dropped
    BY <1>7 DEF sendEvents, clients, outcome
  <2>2. args[1] \in Nat /\ args[2] \in Nat
    BY <2>1 DEF UploaderInv, ThreadInv, Reading
  <2>3. pc' \in {"post", "empty"}
    BY <2>1 DEF TakeList
  <2>4. ThreadInv'
    BY <2>1, <2>2, <2>3 DEF UploaderInv, ThreadInv
  <2>5. PICK mc \in Nat, ms \in Nat : mc = args[1] /\ ms = args[2]
    BY <2>2
  <2>6. pc \notin Holding /\ "post" \in Holding \ {"done"} /\ "empty" \notin Holding
    BY <2>1 DEF Holding
  <2> QED BY <2>1, <2>4, <2>5, <2>6, TakeKept
<1>8. CASE noList
  <2>1. /\ UNCHANGED vars /\ pc = "empty" /\ pc' \in {"first", "loop"} /\ limits' = limits /\ update' = update
        /\ args' = args /\ evts' = evts /\ accepted' = accepted /\ received' = received /\ dropped' = dropped
    BY <1>8 DEF noList, clients, outcome, call
  <2>2. ThreadInv'
    BY <2>1 DEF UploaderInv, ThreadInv, Reading
  <2>3. (pc' \in Holding <=> pc \in Holding) /\ (pc' = "done" <=> pc = "done")
    BY <2>1 DEF Holding
  <2> QED BY <1>s, <2>1, <2>2, <2>3, CallKept
<1>9. CASE getFirst
  <2>1. /\ pc = "first" /\ TakeList(1, SizeMax, "drop", "loop") /\ limits' = limits /\ update' = update
        /\ args' = args /\ accepted' = accepted /\ received' = received /\ dropped' = dropped
    BY <1>9 DEF getFirst, clients, outcome
  <2>2. pc' \in {"drop", "loop"}
    BY <2>1 DEF TakeList
  <2>3. ThreadInv'
    BY <2>1, <2>2 DEF UploaderInv, ThreadInv, Reading
  <2>4. pc \notin Holding /\ "drop" \in Holding \ {"done"} /\ "loop" \notin Holding
    BY <2>1 DEF Holding
  <2>5. 1 \in Nat /\ SizeMax \in Nat
    BY SizeMaxAssumption
  <2> QED BY <2>1, <2>3, <2>4, <2>5, TakeKept
<1>10. CASE dropFirst
  BY <1>10, DropKept
<1>11. CASE postAccepted
  BY <1>11, PostKept
<1>12. CASE postFailed
  BY <1>12, FailKept
<1>13. CASE postUnauthorized
  <2>1. /\ UNCHANGED vars /\ pc' = pc /\ limits' = limits /\ update' = update
        /\ args' = args /\ evts' = evts /\ accepted' = accepted /\ received' = received /\ dropped' = dropped
    BY <1>13 DEF postUnauthorized, clients, outcome
  <2>2. ThreadInv'
    BY <2>1 DEF UploaderInv, ThreadInv
  <2> QED BY <1>s, <2>1, <2>2, CallKept
<1>14. CASE uploaded
  BY <1>14, DoneKept
<1>15. CASE Idle
  BY <1>1, <1>15 DEF Idle
<1> QED BY <1>1, <1>2, <1>3, <1>4, <1>5, <1>6, <1>7, <1>8, <1>9, <1>10, <1>11, <1>12, <1>13, <1>14, <1>15
        DEF UploaderNext, UploadStep

\* The server gets every accepted event exactly once and in order, for any events, sizes and
\* limits, however adds, rotations and new limits interleave with posts, refusals and retries.
THEOREM UploadedExactlyOnce == UploaderSpec => []ExactlyOnce
<1>1. UploaderInit => UploaderInv
  BY UploaderStart
<1>2. UploaderInv /\ [UploaderNext]_uploaderVars => UploaderInv'
  BY UploaderStep
<1>3. UploaderInv => ExactlyOnce
  BY InvExactlyOnce
<1> QED BY <1>1, <1>2, <1>3, PTL DEF UploaderSpec

-----------------------------------------------------------------------------
(* The buffer in front of the files *)

\* addEvent, when it stores its event, makes no empty file the oldest.
LEMMA SolidAdded ==
    ASSUME NEW s, Sound(s), Solid(s), NEW e \in Events, accepts(s, e, {}), NEW a, a = addEvent(s, e, {})
    PROVE  Solid(a)
<1>1. PICK r : r = roomFor(s, e, {})
  OBVIOUS
<1>2. a = Written(r, e) /\ canAddEvent(r, e)
  BY <1>1, Zenon DEF addEvent, accepts, Written
<1>3. Sound(r) /\ Solid(r)
  <2>1. CASE canAddEvent(s, e)
    BY <1>1, <2>1 DEF roomFor
  <2>2. CASE ~canAddEvent(s, e)
    <3>1. Rotated(s, r)
      BY <1>1, <2>2, Rotate DEF roomFor
    <3>2. Content(s, s.newest) = At(s.disk, s.newest)
      BY Distinct DEF Content, Stored, At
    <3>3. Content(r, r.newest) = <<>>
      <4>1. Sound(r) /\ At(r.disk, r.newest) = <<>>
        BY <3>1 DEF Rotated
      <4> QED BY <4>1, Distinct DEF Content, Stored, At
    <3>4. At(s.disk, s.newest) # <<>>
      <4>1. SUFFICES ASSUME Content(s, s.newest) = Content(r, r.newest) PROVE FALSE
        BY <3>2, <3>3
      <4>2. r.limit = s.limit
        BY <3>1 DEF Rotated
      <4>3. canAddEvent(s, e) <=> canAddEvent(r, e)
        BY <4>1, <4>2 DEF canAddEvent
      <4> QED BY <1>2, <2>2, <4>3
    <3>5. CASE s.oldest = None => s.oldBatches = <<>>
      <4>1. At(s.disk, front(s)) # <<>>
        BY <3>4 DEF front, Solid
      <4>2. r.oldest # None /\ At(r.disk, front(r)) = At(s.disk, front(s)) /\ Sound(r)
        BY <3>1, <3>5 DEF Rotated
      <4> QED BY <4>1, <4>2 DEF Solid, front
    <3>6. CASE s.oldest = None /\ s.oldBatches # <<>>
      BY <3>1, <3>6 DEF Rotated, Solid
    <3> QED BY <3>5, <3>6
  <2> QED BY <2>1, <2>2
<1>4. a.oldest = r.oldest /\ At(a.disk, front(a)) = IF r.oldest = None THEN Append(At(r.disk, front(r)), e)
                                     ELSE At(r.disk, front(r))
  BY <1>2, <1>3, Wrote
<1> QED BY <1>3, <1>4 DEF Solid, front

\* onEventsUploaded removes the oldest file when it removes its last event.
LEMMA SolidUploaded ==
    ASSUME NEW s, Sound(s), Settled(s), NEW l, IsList(l, At(s.disk, front(s))),
           NEW u, u = onEventsUploaded(s, l)
    PROVE  Solid(u)
<1>1. PICK v \in Seq(Events) : v = At(s.disk, front(s))
  BY FrontOpen
<1>2. IsList(l, v)
  BY <1>1
<1>3. u = IF l.count = Len(v) /\ s.oldest # None THEN Removed(s, front(s))
          ELSE OnDisk(s, Put(s.disk, front(s), Cut(v, l.count)))
  BY <1>1, <1>2, UploadedFile
<1>4. CASE l.count = Len(v) /\ s.oldest # None
  <2>1. Fields(Removed(s, front(s)), Kept(s.disk, {front(s)}), None, s.oldBatches, s.newest,
               Closed(s.fds, front(s)), s.limit)
    BY RemovedFields DEF Sound
  <2>2. u.oldest = None
    BY <1>3, <1>4, <2>1 DEF Fields
  <2> QED BY <2>2 DEF Solid
<1>5. CASE s.oldest # None /\ l.count # Len(v)
  <2>1. PICK k \in 0..Len(v) : k = l.count /\ k < Len(v)
    BY <1>2, <1>5 DEF IsList
  <2>2. Cut(v, k) \in Seq(Events) /\ Cut(v, k) # <<>>
    <3>1. Len(Cut(v, k)) = Len(v) - k
      BY <2>1 DEF Cut
    <3> QED BY <2>1, <3>1, CutAll
  <2>3. PICK w : w = Cut(v, k) /\ w \in Files /\ w # <<>>
    BY <2>2 DEF Files
  <2>4. PICK id : id = front(s) /\ id \in DOMAIN s.disk
    BY FrontOpen
  <2>5. u = OnDisk(s, Put(s.disk, id, w))
    BY <1>3, <1>5, <2>1, <2>3, <2>4
  <2>6. u.disk = Put(s.disk, id, w) /\ u.oldest = s.oldest
    BY <2>3, <2>4, <2>5, PutSound
  <2>7. At(u.disk, id) = w
    BY <2>4, <2>6, PutAt
  <2>8. id = s.oldest
    BY <1>5, <2>4 DEF front
  <2> QED BY <2>3, <2>6, <2>7, <2>8 DEF Solid
<1>6. CASE s.oldest = None
  <2>1. PICK k \in 0..Len(v) : k = l.count
    BY <1>2 DEF IsList
  <2>3. PICK w : w = Cut(v, k) /\ w \in Files
    BY CutAll DEF Files
  <2>4. PICK id : id = front(s) /\ id \in DOMAIN s.disk
    BY FrontOpen
  <2>5. u = OnDisk(s, Put(s.disk, id, w))
    BY <1>3, <1>6, <2>1, <2>3, <2>4
  <2>6. u.oldest = s.oldest
    BY <2>3, <2>4, <2>5, PutSound
  <2> QED BY <1>6, <2>6 DEF Solid
<1> QED BY <1>4, <1>5, <1>6

\* Without an open oldest file there is nothing to say.
LEMMA SolidOpened ==
    ASSUME NEW disk, NEW l, NEW c, c = openStorage(disk, l, {})
    PROVE  Solid(c)
<1>1. c.oldest = None
  BY DEF openStorage, openBatch
<1> QED BY <1>1 DEF Solid

\* A list keeps to the limits it was asked for, and says whether it leaves events.
LEMMA PrefixBounds ==
    ASSUME NEW v \in Seq(Events), NEW mc \in Nat, NEW ms \in Nat, NEW l, l = prefixList(v, mc, ms)
    PROVE  /\ IsList(l, v) /\ l.count \in 0..mc /\ l.size \in 0..ms
           /\ l.more <=> l.count # Len(v)
<1>1. PICK N \in Nat : N = Len(v)
  OBVIOUS
<1>2. PICK m : m = Min({mc, N}) /\ m \in Nat /\ m <= N /\ m <= mc
  <2>1. {mc, N} \in SUBSET Nat /\ {mc, N} # {}
    OBVIOUS
  <2>2. Min({mc, N}) \in {mc, N} /\ \A y \in {mc, N} : Min({mc, N}) <= y
    BY <2>1, Least
  <2> QED BY <2>2
<1>3. PICK T : T = {n \in 0..m : TotalSize(Prefix(v, n)) <= ms}
  OBVIOUS
<1>4. T \in SUBSET (0..m) /\ T # {}
  <2>1. 0 \in 0..m /\ TotalSize(Prefix(v, 0)) <= ms
    BY <1>2, PrefixZero
  <2>2. 0 \in T
    BY <1>3, <2>1
  <2> QED BY <1>3, <2>2
<1>5. Max(T) \in T
  BY <1>2, <1>4, Greatest0
<1>6. PICK n : n = Max(T) /\ n \in 0..m /\ TotalSize(Prefix(v, n)) <= ms
  BY <1>3, <1>5
<1>7. n \in 0..N /\ n \in 0..mc
  BY <1>2, <1>6
<1>8. l = [count |-> n, size |-> TotalSize(Prefix(v, n)), more |-> n < N]
  BY <1>1, <1>2, <1>3, <1>6 DEF prefixList, Prefix
<1>9. l.count = n /\ l.size = TotalSize(Prefix(v, n)) /\ (l.more <=> n < N)
  <2>1. PICK z, q : z = TotalSize(Prefix(v, n)) /\ q = (n < N)
    OBVIOUS
  <2>2. l = [count |-> n, size |-> z, more |-> q]
    BY <1>8, <2>1, Zenon
  <2>3. l.count = n /\ l.size = z /\ l.more = q
    BY <2>2
  <2> QED BY <2>1, <2>3
<1>10. TotalSize(Prefix(v, n)) \in Nat
  BY <1>1, <1>7, SizeOfPrefix DEF Prefix
<1> QED BY <1>1, <1>6, <1>7, <1>9, <1>10 DEF IsList

\* getEventsForUpload returns null only if there is nothing to upload, and a list that has
\* no more events holds all of them.
LEMMA ListOfFront ==
    ASSUME NEW s, Sound(s), Settled(s), NEW mc \in Nat, NEW ms \in Nat,
           NEW l, l = getEventsForUpload(s, mc, ms)
    PROVE  \/ l = NullList /\ (mc = 0 \/ (Solid(s) => Contents(s) = <<>>))
           \/ /\ l # NullList /\ l.count \in 0..mc /\ l.size \in 0..ms
              /\ ~l.more => Len(Contents(s)) = l.count
<1>1. PICK v \in Seq(Events) : v = At(s.disk, front(s)) /\ v = Content(s, front(s))
  BY FrontOpen
<1>2. PICK r \in Files : Contents(s) = v \o r /\ (s.oldest = None => r = <<>>)
  BY <1>1, FrontFirst
<1>3. CASE v = <<>> \/ mc = 0
  <2>1. l = NullList
    BY <1>1, <1>3 DEF getEventsForUpload
  <2>2. v = <<>> /\ Solid(s) => s.oldest = None
    BY <1>1 DEF Solid, front
  <2> QED BY <1>2, <1>3, <2>1, <2>2
<1>4. CASE ~(v = <<>> \/ mc = 0)
  <2>1. PICK p : p = prefixList(v, mc, ms)
    OBVIOUS
  <2>2. /\ p.count \in 0..mc /\ p.size \in 0..ms
        /\ p.more <=> p.count # Len(v)
    BY <2>1, PrefixBounds
  <2>3. l = [p EXCEPT !.more = @ \/ s.oldest # None]
    BY <1>1, <1>4, <2>1, Zenon DEF getEventsForUpload
  <2>4. p = [count |-> p.count, size |-> p.size, more |-> p.more]
    BY <2>1, Zenon DEF prefixList
  <2>5. l.count = p.count /\ l.size = p.size /\ (l.more <=> p.more \/ s.oldest # None)
    BY <2>3, <2>4
  <2>6. l # NullList
    BY <2>2, <2>5, NullListed
  <2>7. ~l.more => Len(Contents(s)) = l.count
    BY <1>2, <2>2, <2>5
  <2> QED BY <2>2, <2>5, <2>6, <2>7
<1> QED BY <1>3, <1>4

\* What flushInternal has done after some of the events of the buffer.
Flushing == {s \in [batch : Storages, refused : SUBSET Events] : Sound(s.batch)}
FlushStep(s, e) == [batch   |-> addEvent(s.batch, e, {}),
                    refused |-> IF accepts(s.batch, e, {}) THEN s.refused ELSE s.refused \cup {e}]

\* It goes on.
LEMMA FlushStepType ==
    ASSUME NEW s \in Flushing, NEW e \in Events
    PROVE  FlushStep(s, e) \in Flushing
<1>1. PICK a : a = addEvent(s.batch, e, {})
  OBVIOUS
<1>2. Sound(a)
  BY <1>1, EventAdded DEF Flushing
<1>3. a \in Storages
  BY <1>2 DEF Sound
<1>4. PICK d : d = (IF accepts(s.batch, e, {}) THEN s.refused ELSE s.refused \cup {e}) /\ d \in SUBSET Events
  BY DEF Flushing
<1>5. FlushStep(s, e) = [batch |-> a, refused |-> d]
  BY <1>1, <1>4 DEF FlushStep
<1> QED BY <1>2, <1>3, <1>4, <1>5 DEF Flushing

\* flushInternal goes through the buffer in order.
LEMMA FlushFold ==
    ASSUME Sound(batch), refused \in SUBSET Events, mem \in Seq(Events)
    PROVE  \E f \in [0..Len(mem) -> Flushing] :
              /\ f[0] = [batch |-> batch, refused |-> refused]
              /\ \A k \in 1..Len(mem) : f[k] = FlushStep(f[k - 1], mem[k])
              /\ flushInternal = f[Len(mem)]
<1>0. PICK ev \in Seq(Events) : ev = mem
  OBVIOUS
<1>1. PICK n \in Nat : n = Len(ev)
  BY <1>0, LenProperties
<1>1b. PICK b : b = [batch |-> batch, refused |-> refused]
  OBVIOUS
<1>1a. b \in Flushing
  BY <1>1b DEF Flushing, Sound
<1> DEFINE G == [p \in (1..n) \X Flushing |-> FlushStep(p[2], ev[p[1]])]
           Step(e, s) == FlushStep(e[s \ {Max(s)}], ev[Max(s)])
           it == CHOOSE e : e = [s \in SUBSET (1..n) |-> IF s = {} THEN b ELSE Step(e, s)]
<1>2. \A k \in 1..n : ev[k] \in Events
  BY <1>1
<1>3. G \in [(1..n) \X Flushing -> Flushing]
  BY <1>2, FlushStepType
<1>4. \A k \in 1..n, v \in Flushing : G[<<k, v>>] = FlushStep(v, ev[k])
  OBVIOUS
<1>5. \A s \in SUBSET (1..n) : s # {} => Max(s) \in 1..n /\ s \ {Max(s)} \in SUBSET (1..n)
  BY Greatest
<1> HIDE DEF G
<1>6. PICK h : IsFold(h, n, Flushing, b, G)
  <2>1. IsStep(n, Flushing, G)
    BY <1>3 DEF IsStep
  <2> QED BY <2>1, <1>1, <1>1a, Fold
<1>7. \A s \in SUBSET (1..n) : h[s] = IF s = {} THEN b ELSE Step(h, s)
  BY <1>4, <1>5, <1>6 DEF IsFold
<1>8. h = [s \in SUBSET (1..n) |-> IF s = {} THEN b ELSE Step(h, s)]
  <2> HIDE DEF Step
  <2> QED BY <1>6, <1>7 DEF IsFold
<1>9. it = [s \in SUBSET (1..n) |-> IF s = {} THEN b ELSE Step(it, s)]
  BY <1>8
<1>10. flushInternal = it[1..n]
  <2>1. DOMAIN ev = 1..n
    BY <1>1
  <2> QED BY <1>0, <1>1, <1>1b, <2>1 DEF flushInternal, FoldLeft, MapThenFoldSet, FlushStep
<1> HIDE DEF it
<1>11. it[{}] = b
  BY <1>9
<1>12. \A s \in SUBSET (1..n) : s # {} => it[s] = Step(it, s)
  BY <1>9
<1> DEFINE f == [k \in 0..n |-> it[1..k]]
<1>13. f[0] = b
  <2>1. 1..0 = {}
    OBVIOUS
  <2> QED BY <2>1, <1>11
<1>14. \A k \in 1..n : f[k] = FlushStep(f[k - 1], ev[k])
  <2> SUFFICES ASSUME NEW k \in 1..n PROVE f[k] = FlushStep(f[k - 1], ev[k])
    OBVIOUS
  <2>1. /\ 1..k \in SUBSET (1..n)
        /\ k \in 1..k /\ k - 1 \in 0..n /\ k \in 0..n
    OBVIOUS
  <2>2. Max(1..k) = k
    <3>1. PICK s \in SUBSET (1..n) : s = 1..k
      BY <2>1
    <3>2. PICK m : m = Max(s)
      OBVIOUS
    <3>3. m \in s /\ \A y \in s : m >= y
      BY <2>1, <3>1, <3>2, Greatest
    <3> QED BY <2>1, <3>1, <3>2, <3>3
  <2>3. (1..k) \ {k} = 1..(k - 1)
    OBVIOUS
  <2>4. it[1..k] = FlushStep(it[1..(k - 1)], ev[k])
    BY <1>12, <2>1, <2>2, <2>3
  <2> QED BY <2>1, <2>4
<1>15. f \in [0..n -> Flushing]
  <2> DEFINE T == {k \in 0..n : f[k] \in Flushing}
  <2>1. 0 \in T
    <3> HIDE DEF f
    <3> QED BY <1>1a, <1>13
  <2>2. \A k \in 1..n : k - 1 \in T => k \in T
    <3> HIDE DEF f
    <3> QED BY <1>14, <1>2, FlushStepType
  <2> HIDE DEF T
  <2>3. \A k \in 0..n : k \in T
    BY <2>1, <2>2, Climb
  <2>4. \A k \in 0..n : f[k] \in Flushing
    BY <2>3 DEF T
  <2> QED BY <2>4
<1>16. flushInternal = f[n]
  BY <1>10
<1> HIDE DEF f
<1> QED BY <1>0, <1>1, <1>1b, <1>13, <1>14, <1>15, <1>16

\* The storage b with the events of v, of which some may have been refused.
FlushedTo(s, b, d, v) ==
    /\ Sound(s.batch) /\ s.refused \in SUBSET Events /\ d \subseteq s.refused
    /\ \A l : InFlight(b, l) => InFlight(s.batch, l)
    /\ s.refused = {} => Contents(s.batch) = Contents(b) \o v /\ (Solid(b) => Solid(s.batch))

\* One event more.
LEMMA FlushOne ==
    ASSUME NEW b, Sound(b), NEW d \in SUBSET Events, NEW v \in Files, NEW s, FlushedTo(s, b, d, v),
           NEW e \in Events, NEW t, t = FlushStep(s, e)
    PROVE  FlushedTo(t, b, d, Append(v, e))
<1>1. PICK c, a, x : c = s.batch /\ x = s.refused /\ a = addEvent(c, e, {})
  OBVIOUS
<1>2. Sound(c) /\ x \in SUBSET Events /\ d \subseteq x
  BY <1>1 DEF FlushedTo
<1>3. Sound(a) /\ Contents(a) = IF accepts(c, e, {}) THEN Append(Contents(c), e) ELSE Contents(c)
  BY <1>1, <1>2, EventAdded
<1>4. t.batch = a /\ t.refused = IF accepts(c, e, {}) THEN x ELSE x \cup {e}
  BY <1>1 DEF FlushStep
<1>5. t.refused \in SUBSET Events /\ d \subseteq t.refused
  BY <1>2, <1>4
<1>6. \A l : InFlight(b, l) => InFlight(t.batch, l)
  <2> SUFFICES ASSUME NEW l, InFlight(b, l) PROVE InFlight(a, l)
    BY <1>4
  <2>1. InFlight(c, l)
    BY <1>1 DEF FlushedTo
  <2> QED BY <1>1, <1>2, <2>1, AddedInFlight
<1>7. ASSUME t.refused = {} PROVE Contents(t.batch) = Contents(b) \o Append(v, e) /\ (Solid(b) => Solid(t.batch))
  <2>1. accepts(c, e, {}) /\ x = {}
    BY <1>4, <1>7
  <2>2. Contents(c) = Contents(b) \o v /\ (Solid(b) => Solid(c))
    BY <1>1, <2>1 DEF FlushedTo
  <2>3. PICK q \in Files : q = Contents(b)
    BY ContentsParts DEF Sound
  <2>4. Append(q \o v, e) = q \o Append(v, e)
    <3>1. v \in Seq(Events) /\ q \in Seq(Events) /\ <<e>> \in Seq(Events) /\ q \o v \in Seq(Events)
      BY <2>3 DEF Files
    <3>2. Append(q \o v, e) = (q \o v) \o <<e>> /\ Append(v, e) = v \o <<e>>
      BY <3>1, AppendIsConcat
    <3>3. (q \o v) \o <<e>> = q \o (v \o <<e>>)
      BY <3>1, ConcatAssociative
    <3> QED BY <3>2, <3>3
  <2>5. Contents(a) = q \o Append(v, e)
    BY <1>3, <2>1, <2>2, <2>3, <2>4
  <2>6. Solid(b) => Solid(a)
    BY <1>1, <1>2, <2>1, <2>2, SolidAdded
  <2> QED BY <1>4, <2>3, <2>5, <2>6
<1> QED BY <1>3, <1>4, <1>5, <1>6, <1>7 DEF FlushedTo

\* flushInternal moves the events of the buffer behind those of the files.
LEMMA FlushAll ==
    ASSUME Sound(batch), refused \in SUBSET Events, mem \in Files
    PROVE  FlushedTo(flushInternal, batch, refused, mem)
<1>1. PICK v, b, d : v = mem /\ b = batch /\ d = refused /\ v \in Files /\ d \in SUBSET Events
  OBVIOUS
<1>1a. v \in Files /\ d \in SUBSET Events
  BY <1>1
<1> USE <1>1a
<1>2. PICK n \in Nat : n = Len(v)
  BY DEF Files
<1>3. PICK f \in [0..n -> Flushing] : /\ f[0] = [batch |-> b, refused |-> d]
                                      /\ \A k \in 1..n : f[k] = FlushStep(f[k - 1], v[k])
                                      /\ flushInternal = f[n]
  BY <1>1, <1>2, FlushFold DEF Files
<1>4. \A k \in 0..n : Prefix(v, k) \in Files
  BY <1>2, Halves DEF Files
<1> DEFINE T == {k \in 0..n : FlushedTo(f[k], b, d, Prefix(v, k))}
<1>5. 0 \in T
  <2>1. Prefix(v, 0) = <<>>
    BY DEF Prefix, Files
  <2>2. Contents(b) \in Files /\ Contents(b) \o <<>> = Contents(b)
    BY <1>1, ContentsParts, FilesClosed DEF Sound
  <2>3. f[0].batch = b /\ f[0].refused = d
    BY <1>3
  <2>4. FlushedTo(f[0], b, d, <<>>)
    BY <1>1, <2>2, <2>3 DEF FlushedTo
  <2> QED BY <1>2, <2>1, <2>4
<1>6. ASSUME NEW k \in 1..n, k - 1 \in T PROVE k \in T
  <2>1. FlushedTo(f[k - 1], b, d, Prefix(v, k - 1)) /\ k - 1 \in 0..n
    BY <1>6
  <2>2. PICK p \in Files, e \in Events : p = Prefix(v, k - 1) /\ e = v[k]
    BY <1>2, <1>4, <2>1 DEF Files
  <2>3. Prefix(v, k) = Append(p, e)
    BY <1>2, <2>2, SubSeqRecursiveSecond DEF Prefix, Files
  <2>4. PICK s : s = f[k - 1] /\ f[k] = FlushStep(s, e)
    BY <1>3, <2>2
  <2>5. FlushedTo(f[k], b, d, Append(p, e))
    BY <1>1, <2>1, <2>2, <2>4, FlushOne
  <2>6. k \in 0..n /\ FlushedTo(f[k], b, d, Prefix(v, k))
    BY <2>3, <2>5
  <2> QED BY <2>6
<1>7. n \in T
  <2> HIDE DEF T
  <2>1. \A k \in 0..n : k \in T
    BY <1>2, <1>5, <1>6, Climb
  <2> QED BY <1>2, <2>1
<1>8. Prefix(v, n) = v
  BY <1>2, SubSeqFull DEF Prefix, Files
<1> QED BY <1>1, <1>3, <1>7, <1>8

\* The list in flight holds the first events, l.count of the files and u.mem.count of the
\* buffer, and takes events of the buffer only if it takes all of the files.
Lists(q, m, l, u) ==
    \E f, g, r, t \in Files :
        /\ u.evts = f \o g /\ q = f \o r /\ m = g \o t
        /\ IF l = NullList THEN f = <<>> ELSE l.count = Len(f)
        /\ IF u.mem = NullList THEN g = <<>> ELSE u.mem.count = Len(g) /\ r = <<>>

\* Nothing was refused by the files, and no list had its buffer flushed away.
Claim == refused = {} /\ ~overlapped

BufferTypes ==
    /\ mem \in Files /\ refused \in SUBSET Events /\ overlapped \in BOOLEAN
    /\ upload.mem = NullList \/ upload.mem.count \in Nat
    /\ upload = NoUpload => list = NullList

\* The events that were added and not lost in a crash, in their order: sent, then held.
BufferQueue ==
    /\ added \in Files /\ sent \in Files /\ Once(added)
    /\ \A x \in ToSet(added) \cup crashed : x \in tried
    /\ sent \o (Contents(batch) \o mem) = Without(added, crashed)

BufferInv ==
    /\ Works /\ BufferTypes
    /\ Claim => Solid(batch) /\ Lists(Contents(batch), mem, list, upload) /\ BufferQueue

\* Nothing is in flight.
LEMMA NoLists ==
    ASSUME NEW q \in Files, NEW m \in Files
    PROVE  Lists(q, m, NullList, NoUpload)
<1>1. <<>> \in Files /\ q = <<>> \o q /\ m = <<>> \o m /\ <<>> = <<>> \o <<>>
  BY FilesClosed
<1>2. NoUpload.evts = <<>> /\ NoUpload.mem = NullList
  BY DEF NoUpload
<1> QED BY <1>1, <1>2 DEF Lists

\* Events are stored and buffered behind the ones of the list.
LEMMA MoreBuffered ==
    ASSUME NEW q \in Files, NEW m \in Files, NEW w \in Files, NEW l, NEW u, Lists(q, m, l, u)
    PROVE  /\ Lists(q, m \o w, l, u)
           /\ u.mem = NullList => \A x \in Files : Lists(q \o x, w, l, u)
<1>1. PICK f \in Files, g \in Files, r \in Files, t \in Files :
        /\ u.evts = f \o g /\ q = f \o r /\ m = g \o t
        /\ IF l = NullList THEN f = <<>> ELSE l.count = Len(f)
        /\ IF u.mem = NullList THEN g = <<>> ELSE u.mem.count = Len(g) /\ r = <<>>
  BY DEF Lists
<1>2. m \o w = g \o (t \o w) /\ t \o w \in Files
  <2>1. (g \o t) \o w = g \o (t \o w) /\ t \o w \in Files
    <3>1. g \in Seq(Events) /\ t \in Seq(Events) /\ w \in Seq(Events)
      BY DEF Files
    <3>2. (g \o t) \o w = g \o (t \o w)
      BY <3>1, ConcatAssociative
    <3> QED BY <3>2, FilesClosed
  <2> QED BY <1>1, <2>1
<1>3. Lists(q, m \o w, l, u)
  BY <1>1, <1>2 DEF Lists
<1>4. ASSUME u.mem = NullList, NEW x \in Files PROVE Lists(q \o x, w, l, u)
  <2>1. q \o x = f \o (r \o x) /\ r \o x \in Files /\ w = <<>> \o w
    <3>1. (f \o r) \o x = f \o (r \o x) /\ r \o x \in Files /\ w = <<>> \o w
      <4>1. f \in Seq(Events) /\ r \in Seq(Events) /\ x \in Seq(Events)
        BY DEF Files
      <4>2. (f \o r) \o x = f \o (r \o x)
        BY <4>1, ConcatAssociative
      <4> QED BY <4>2, FilesClosed
    <3> QED BY <1>1, <3>1
  <2> QED BY <1>1, <1>4, <2>1 DEF Lists
<1> QED BY <1>3, <1>4

\* The buffer is flushed and then holds w.
LEMMA FlushKept ==
    ASSUME BufferInv, NEW w \in Files, Flushed(w), list' = list, failures' = failures, upload' = upload
    PROVE  /\ Works' /\ BufferTypes'
           /\ Claim' => /\ Claim /\ Solid(batch') /\ Contents(batch') = Contents(batch) \o mem
                        /\ Lists(Contents(batch'), w, list, upload)
<1>1. PICK F, b : F = flushInternal /\ b = batch
  OBVIOUS
<1>2. Sound(batch) /\ InFlight(batch, list) /\ Contents(batch) \in Files /\ failures = 0
  BY WorksType DEF BufferInv, Works
<1>3. mem \in Files /\ refused \in SUBSET Events /\ overlapped \in BOOLEAN
  BY DEF BufferInv, BufferTypes
<1>4. FlushedTo(F, batch, refused, mem)
  BY <1>1, <1>2, <1>3, FlushAll
<1>5. /\ batch' = F.batch /\ refused' = F.refused /\ mem' = w
      /\ overlapped' = (overlapped \/ upload.mem # NullList)
  BY <1>1 DEF Flushed
<1>6. Works'
  <2>1. Sound(batch') /\ InFlight(batch', list')
    BY <1>2, <1>4, <1>5 DEF FlushedTo
  <2> QED BY <1>2, <2>1 DEF Works, StorageInv
<1>7. BufferTypes'
  <2>1. refused' \in SUBSET Events /\ overlapped' \in BOOLEAN
    BY <1>4, <1>5 DEF FlushedTo
  <2> QED BY <1>5, <2>1 DEF BufferTypes, BufferInv
<1>8. ASSUME Claim'
      PROVE  /\ Claim /\ Solid(batch') /\ Contents(batch') = Contents(batch) \o mem
             /\ Lists(Contents(batch'), w, list, upload)
  <2>1. F.refused = {} /\ ~overlapped /\ upload.mem = NullList
    BY <1>5, <1>8 DEF Claim
  <2>2. refused = {}
    BY <1>4, <2>1 DEF FlushedTo
  <2>3. Claim
    BY <2>1, <2>2 DEF Claim
  <2>4. Solid(batch) /\ Lists(Contents(batch), mem, list, upload)
    BY <2>3 DEF BufferInv
  <2>5. Solid(batch') /\ Contents(batch') = Contents(batch) \o mem
    BY <1>4, <1>5, <2>1, <2>4 DEF FlushedTo
  <2>6. PICK q, m, l, u : /\ q = Contents(batch) /\ m = mem /\ l = list /\ u = upload
                          /\ q \in Files /\ m \in Files
    BY <1>2, <1>3
  <2>7. Lists(q \o m, w, l, u)
    BY <2>1, <2>4, <2>6, MoreBuffered
  <2> QED BY <2>3, <2>5, <2>6, <2>7
<1> QED BY <1>6, <1>7, <1>8

\* Flush
LEMMA FlushStepKept ==
    ASSUME BufferInv, Flush
    PROVE  BufferInv'
<1>1. <<>> \in Files /\ Flushed(<<>>) /\ list' = list /\ failures' = failures /\ upload' = upload
      /\ tried' = tried /\ added' = added /\ sent' = sent /\ crashed' = crashed /\ mem' = <<>>
  BY FilesClosed DEF Flush, Flushed
<1>2. /\ Works' /\ BufferTypes'
      /\ Claim' => /\ Claim /\ Solid(batch') /\ Contents(batch') = Contents(batch) \o mem
                   /\ Lists(Contents(batch'), <<>>, list, upload)
  BY <1>1, FlushKept
<1>3. ASSUME Claim' PROVE BufferQueue'
  <2>1. BufferQueue /\ mem \in Files /\ Contents(batch) \in Files
    BY <1>2, <1>3, WorksType DEF BufferInv, BufferTypes
  <2>2. PICK q, m : q = Contents(batch) /\ m = mem /\ q \in Files /\ m \in Files
    BY <2>1
  <2>3. (q \o m) \o <<>> = q \o m
    BY <2>2, FilesClosed
  <2>4. Contents(batch') \o mem' = Contents(batch) \o mem
    BY <1>1, <1>2, <1>3, <2>2, <2>3
  <2> QED BY <1>1, <2>1, <2>4 DEF BufferQueue
<1> QED BY <1>1, <1>2, <1>3 DEF BufferInv

\* The queue with one event more.
LEMMA QueuedBehind ==
    ASSUME BufferQueue, NEW e \in Events, e \notin tried, NEW q \in Files, NEW m \in Files,
           q = Contents(batch), m = mem
    PROVE  /\ sent \o (q \o Append(m, e)) = Without(Append(added, e), crashed)
           /\ sent \o ((q \o m) \o <<e>>) = Without(Append(added, e), crashed)
           /\ Append(added, e) \in Files /\ Once(Append(added, e))
           /\ \A x \in ToSet(Append(added, e)) \cup crashed : x \in tried \cup {e}
<1>0. sent \in Files /\ added \in Files
  BY DEF BufferQueue
<1>1. PICK s \in Files, a \in Files : s = sent /\ a = added
  BY <1>0
<1>1a. PICK c : c = crashed
  OBVIOUS
<1>2. e \notin c /\ e \notin ToSet(a) /\ Once(a) /\ s \o (q \o m) = Without(a, c)
  BY <1>1, <1>1a DEF BufferQueue
<1>3. Without(Append(a, e), c) = Append(Without(a, c), e)
  <2>1. Without(Append(a, e), c) = IF e \in c THEN Without(a, c) ELSE Append(Without(a, c), e)
    BY WithoutAppend
  <2> QED BY <1>2, <2>1
<1>4. Append(s \o (q \o m), e) = s \o (q \o Append(m, e)) /\ Append(s \o (q \o m), e) = s \o ((q \o m) \o <<e>>)
  <2>1. <<e>> \in Files /\ q \o m \in Files /\ s \o (q \o m) \in Files
    BY <1>1, FilesClosed DEF Files
  <2>2. Append(s \o (q \o m), e) = (s \o (q \o m)) \o <<e>> /\ Append(m, e) = m \o <<e>>
    BY <2>1, AppendIsConcat DEF Files
  <2>3. PICK z \in Files : z = <<e>>
    BY <2>1
  <2>3a. (s \o (q \o m)) \o z = s \o ((q \o m) \o z) /\ (q \o m) \o z = q \o (m \o z)
    <3>1. /\ s \in Seq(Events) /\ q \in Seq(Events) /\ m \in Seq(Events)
          /\ q \o m \in Seq(Events) /\ z \in Seq(Events)
      BY <2>1 DEF Files
    <3>2. (q \o m) \o z = q \o (m \o z)
      <4>1. q \in Seq(Events) /\ m \in Seq(Events) /\ z \in Seq(Events)
        BY <3>1
      <4> QED BY <4>1, ConcatAssociative, SMTT(60)
    <3>3. PICK y \in Seq(Events) : y = q \o m
      BY <3>1
    <3>4. (s \o y) \o z = s \o (y \o z)
      BY <3>1, ConcatAssociative
    <3> QED BY <3>2, <3>3, <3>4
  <2> QED BY <2>2, <2>3, <2>3a
<1>5. Append(a, e) \in Files /\ Once(Append(a, e)) /\ ToSet(Append(a, e)) = ToSet(a) \cup {e}
  BY <1>1, <1>2, FilesClosed, OnceAppend, ToSetOf
<1>6. \A x \in ToSet(Append(a, e)) \cup c : x \in tried \cup {e}
  BY <1>1, <1>1a, <1>5 DEF BufferQueue
<1> QED BY <1>1, <1>1a, <1>2, <1>3, <1>4, <1>5, <1>6

\* addEvent, with or without a flush.
LEMMA AddBufferedKept ==
    ASSUME BufferInv, NEW e \in Events, AddBuffered(e)
    PROVE  BufferInv'
<1>1. /\ e \notin tried /\ tried' = tried \cup {e} /\ added' = Append(added, e)
      /\ list' = list /\ failures' = failures /\ upload' = upload /\ sent' = sent /\ crashed' = crashed
  BY DEF AddBuffered
<1>2. PICK q, m : /\ q = Contents(batch) /\ m = mem /\ q \in Files /\ m \in Files
  BY WorksType DEF BufferInv, BufferTypes
<1>3. <<e>> \in Files /\ Append(m, e) = m \o <<e>> /\ Append(m, e) \in Files
  BY <1>2, FilesClosed, AppendIsConcat DEF Files
<1>4. CASE mem' = Append(mem, e) /\ UNCHANGED <<batch, refused, overlapped>>
  <2>1. Works'
    BY <1>1, <1>4 DEF BufferInv, Works, StorageInv
  <2>2. BufferTypes'
    BY <1>1, <1>2, <1>3, <1>4 DEF BufferInv, BufferTypes
  <2>3. ASSUME Claim' PROVE Solid(batch') /\ Lists(Contents(batch'), mem', list', upload') /\ BufferQueue'
    <3>1. Claim
      BY <1>4, <2>3 DEF Claim
    <3>2. Solid(batch) /\ Lists(q, m, list, upload) /\ BufferQueue
      BY <1>2, <3>1 DEF BufferInv
    <3>3. PICK l, u : l = list /\ u = upload
      OBVIOUS
    <3>4. Lists(q, m \o <<e>>, l, u)
      BY <1>2, <1>3, <3>2, <3>3, MoreBuffered
    <3>5. /\ sent \o (q \o Append(m, e)) = Without(Append(added, e), crashed)
          /\ Append(added, e) \in Files /\ Once(Append(added, e))
          /\ \A x \in ToSet(Append(added, e)) \cup crashed : x \in tried \cup {e}
      BY <1>1, <1>2, <3>2, QueuedBehind
    <3>6. batch' = batch /\ mem' = Append(m, e) /\ sent \in Files
      BY <1>2, <1>4, <3>2 DEF BufferQueue
    <3>7. BufferQueue'
      BY <1>1, <1>2, <3>5, <3>6 DEF BufferQueue
    <3> QED BY <1>1, <1>2, <1>3, <3>2, <3>3, <3>4, <3>6, <3>7
  <2> QED BY <2>1, <2>2, <2>3 DEF BufferInv
<1>5. CASE Flushed(<<e>>)
  <2>1. /\ Works' /\ BufferTypes'
        /\ Claim' => /\ Claim /\ Solid(batch') /\ Contents(batch') = Contents(batch) \o mem
                     /\ Lists(Contents(batch'), <<e>>, list, upload)
    BY <1>1, <1>3, <1>5, FlushKept
  <2>2. mem' = <<e>>
    BY <1>5 DEF Flushed
  <2>3. ASSUME Claim' PROVE BufferQueue'
    <3>1. BufferQueue
      BY <2>1, <2>3 DEF BufferInv
    <3>2. /\ sent \o ((q \o m) \o <<e>>) = Without(Append(added, e), crashed)
          /\ Append(added, e) \in Files /\ Once(Append(added, e))
          /\ \A x \in ToSet(Append(added, e)) \cup crashed : x \in tried \cup {e}
      BY <1>1, <1>2, <3>1, QueuedBehind
    <3>3. Contents(batch') = q \o m /\ sent \in Files
      BY <1>2, <2>1, <2>3, <3>1 DEF BufferQueue
    <3> QED BY <1>1, <2>2, <3>2, <3>3 DEF BufferQueue
  <2> QED BY <1>1, <2>1, <2>2, <2>3 DEF BufferInv
<1> QED BY <1>4, <1>5 DEF AddBuffered

\* A list of q with its events f and the rest r.
ListedOf(q, l, limit, f, r) ==
    /\ q = f \o r
    /\ IF l = NullList THEN f = <<>> /\ (limit[1] = 0 \/ r = <<>>)
       ELSE l.count = Len(f) /\ (~l.more => r = <<>>)

\* The list of the wrapped batch holds its first events, and is null only if there are none
\* or none were asked for.
LEMMA WrappedTaken ==
    ASSUME Works, list = NullList, NEW limit \in UploadLimits, WrappedList(limit)
    PROVE  /\ Works' /\ Contents(batch') = Contents(batch) /\ tried' = tried
           /\ list' # NullList => list'.count \in 0..limit[1] /\ list'.size \in 0..limit[2]
           /\ Solid(batch) =>
                /\ Solid(batch')
                /\ \E f \in Files, r \in Files :
                      /\ Carried(Content(batch', front(batch')), list') = f
                      /\ ListedOf(Contents(batch), list', limit, f, r)
<1>1. Sound(batch) /\ Contents(batch) \in Files /\ failures = 0 /\ StorageInv
  BY WorksType DEF Works
<1>2. PICK mc \in Nat, ms \in Nat : limit = <<mc, ms>> /\ limit[1] = mc /\ limit[2] = ms
  BY LimitAssumption
<1>3. CASE ~hasEvents(batch)
  <2>1. batch' = batch /\ list' = list /\ tried' = tried /\ failures' = failures
    BY <1>3 DEF WrappedList, vars
  <2>2. Works'
    BY <2>1 DEF Works, StorageInv
  <2>3. Contents(batch) = <<>>
    BY <1>1, <1>3, NoEvents
  <2>4. PICK z \in Files : z = <<>> /\ z \o z = z
    BY FilesClosed
  <2>5. Carried(Content(batch', front(batch')), list') = z
    BY <2>1, <2>4 DEF Carried
  <2>6. ListedOf(Contents(batch), list', limit, z, z)
    BY <2>1, <2>3, <2>4 DEF ListedOf
  <2> QED BY <2>1, <2>2, <2>5, <2>6
<1>4. CASE hasEvents(batch)
  <2>1. GetEventsForUpload(limit) /\ failures' = failures
    BY <1>4 DEF WrappedList
  <2>2. StorageInv' /\ tried' = tried
    BY <1>1, <1>2, <2>1, GetKept DEF GetEventsForUpload
  <2>3. batch' = checkOldestBatch(batch, {}) /\ list' = getEventsForUpload(batch', mc, ms)
    BY <1>1, <1>2, <2>1, GetStep
  <2>4. PICK b, c, l : b = batch /\ c = batch' /\ l = list'
    OBVIOUS
  <2>5. /\ Sound(c) /\ Settled(c) /\ Contents(c) = Contents(b)
        /\ Solid(b) => Solid(c)
    BY <1>1, <2>3, <2>4, OldestChecked
  <2>5a. l # NullList => l.count \in 0..mc /\ l.size \in 0..ms
    BY <2>3, <2>4, <2>5, ListOfFront
  <2>6. ASSUME Solid(b)
        PROVE  \E f \in Files, r \in Files :
                  /\ Carried(Content(c, front(c)), l) = f
                  /\ ListedOf(Contents(b), l, limit, f, r)
    <3>0. Solid(c) /\ l = getEventsForUpload(c, mc, ms)
      BY <2>3, <2>4, <2>5, <2>6
    <3>1. \/ l = NullList /\ (mc = 0 \/ Contents(c) = <<>>)
          \/ /\ l # NullList /\ l.count \in 0..mc /\ l.size \in 0..ms
             /\ ~l.more => Len(Contents(c)) = l.count
      BY <2>5, <3>0, ListOfFront
    <3>2. l = NullList \/ IsList(l, At(c.disk, front(c)))
      BY <2>5, <3>0, ListTaken
    <3>3. CASE l = NullList
      <4>1. PICK z \in Files, q \in Files : z = <<>> /\ q = Contents(b) /\ z \o q = q
        BY <1>1, <2>4, FilesClosed
      <4>2. Carried(Content(c, front(c)), l) = z
        BY <3>3, <4>1 DEF Carried
      <4>3. ListedOf(Contents(b), l, limit, z, q)
        BY <1>2, <2>5, <3>1, <3>3, <4>1 DEF ListedOf
      <4> QED BY <4>2, <4>3
    <3>4. CASE l # NullList
      <4>1. PICK v \in Seq(Events) : v = At(c.disk, front(c)) /\ v = Content(c, front(c))
        BY <2>5, FrontOpen
      <4>2. PICK r \in Files : Contents(c) = v \o r
        BY <2>5, <4>1, FrontFirst
      <4>3. PICK k \in 0..Len(v) : k = l.count
        BY <3>2, <3>4, <4>1 DEF IsList
      <4>4. PICK f \in Seq(Events), d \in Seq(Events) : f = Prefix(v, k) /\ d = Cut(v, k) /\ v = f \o d /\ Len(f) = k
        BY Halves
      <4>5. (f \o d) \o r = f \o (d \o r) /\ d \o r \in Seq(Events)
        <5>1. r \in Seq(Events)
          BY DEF Files
        <5>2. (f \o d) \o r = f \o (d \o r)
          BY <5>1, ConcatAssociative
        <5> QED BY <5>1, <5>2, ConcatProperties
      <4>6. PICK y \in Seq(Events) : y = d \o r /\ Contents(c) = f \o y
        BY <4>2, <4>4, <4>5
      <4>7. ~l.more => y = <<>>
        <5> SUFFICES ASSUME ~l.more PROVE y = <<>>
          OBVIOUS
        <5>1. Len(f \o y) = k
          BY <3>1, <3>4, <4>3, <4>6
        <5>2. Len(f \o y) = Len(f) + Len(y)
          BY ConcatProperties
        <5>3. Len(y) \in Nat /\ k \in Nat
          OBVIOUS
        <5>4. Len(y) = 0
          BY <4>4, <5>1, <5>2, <5>3
        <5> QED BY <5>4, EmptySeq
      <4>8. Carried(Content(c, front(c)), l) = f
        BY <3>4, <4>1, <4>3, <4>4 DEF Carried, Prefix
      <4>9. ListedOf(Contents(b), l, limit, f, y)
        BY <1>2, <2>5, <3>1, <3>4, <4>3, <4>4, <4>6, <4>7 DEF ListedOf
      <4>10. f \in Files /\ y \in Files
        BY DEF Files
      <4> QED BY <4>8, <4>9, <4>10
    <3> QED BY <3>3, <3>4
  <2> QED BY <1>1, <1>2, <2>1, <2>2, <2>4, <2>5, <2>5a, <2>6 DEF Works
<1> QED BY <1>3, <1>4

\* The list of the buffer holds its first events.
LEMMA MemTaken ==
    ASSUME mem \in Files, NEW mc \in Nat, NEW ms \in Nat, NEW m,
           m = NullList \/ m = memEventsForUpload(mc, ms)
    PROVE  \E g \in Files, t \in Files :
              /\ mem = g \o t /\ Carried(mem, m) = g
              /\ IF m = NullList THEN g = <<>> ELSE m.count = Len(g) /\ mc # 0
<1>1. PICK v \in Seq(Events) : v = mem
  BY DEF Files
<1>2. CASE m = NullList
  <2>1. PICK z \in Files, q \in Files : z = <<>> /\ q = mem /\ z \o q = q
    BY FilesClosed
  <2> QED BY <1>2, <2>1 DEF Carried
<1>3. CASE m # NullList
  <2>1. m = prefixList(v, mc, ms) /\ mc # 0
    BY <1>1, <1>3 DEF memEventsForUpload
  <2>2. IsList(m, v)
    BY <2>1, PrefixListed
  <2>3. PICK k \in 0..Len(v) : k = m.count
    BY <2>2 DEF IsList
  <2>4. PICK g \in Seq(Events), t \in Seq(Events) : g = Prefix(v, k) /\ v = g \o t /\ Len(g) = k
    BY Halves
  <2>5. Carried(mem, m) = g
    BY <1>1, <1>3, <2>3, <2>4 DEF Carried, Prefix
  <2> QED BY <1>1, <1>3, <2>1, <2>3, <2>4, <2>5 DEF Files
<1> QED BY <1>2, <1>3

\* getEventsForUpload
LEMMA GetBufferedKept ==
    ASSUME BufferInv, NEW limit \in UploadLimits, GetBuffered(limit)
    PROVE  BufferInv'
<1>1. /\ upload = NoUpload /\ WrappedList(limit) /\ mem' = mem /\ added' = added /\ sent' = sent
      /\ refused' = refused /\ crashed' = crashed /\ overlapped' = overlapped
  BY DEF GetBuffered, history
<1>2. Works /\ list = NullList /\ mem \in Files /\ Contents(batch) \in Files
  BY <1>1, WorksType DEF BufferInv, BufferTypes
<1>3. /\ Works' /\ Contents(batch') = Contents(batch) /\ tried' = tried
      /\ list' # NullList => list'.count \in 0..limit[1] /\ list'.size \in 0..limit[2]
      /\ Solid(batch) =>
           /\ Solid(batch')
           /\ \E f \in Files, r \in Files :
                 /\ Carried(Content(batch', front(batch')), list') = f
                 /\ ListedOf(Contents(batch), list', limit, f, r)
  BY <1>1, <1>2, WrappedTaken
<1>4. PICK m : /\ upload' = BufferedList(m)
               /\ m = IF list' = NullList THEN memEventsForUpload(limit[1], limit[2])
                      ELSE IF list'.more THEN NullList
                      ELSE memEventsForUpload(limit[1] - list'.count, limit[2] - list'.size)
  BY Zenon DEF GetBuffered
<1>5. PICK M \in Nat, N \in Nat : limit = <<M, N>> /\ limit[1] = M /\ limit[2] = N
  BY LimitAssumption
<1>6. PICK mc \in Nat, ms \in Nat :
         /\ m = NullList \/ m = memEventsForUpload(mc, ms)
         /\ m # NullList /\ list' = NullList => mc = M
         /\ m # NullList /\ list' # NullList => ~list'.more
  <2>1. CASE list' = NullList
    BY <1>4, <1>5, <2>1
  <2>2. CASE list' # NullList
    <3>1. PICK x \in Nat, y \in Nat : x = limit[1] - list'.count /\ y = limit[2] - list'.size
      BY <1>3, <1>5, <2>2
    <3> QED BY <1>4, <2>2, <3>1
  <2> QED BY <2>1, <2>2
<1>7. PICK g \in Files, t \in Files :
         /\ mem = g \o t /\ Carried(mem, m) = g
         /\ IF m = NullList THEN g = <<>> ELSE m.count = Len(g) /\ mc # 0
  BY <1>2, <1>6, MemTaken
<1>8. /\ upload'.mem = m /\ upload' # NoUpload
      /\ upload'.evts = Carried(Content(batch', front(batch')), list') \o Carried(mem, m)
  <2>1. PICK ev : ev = Carried(Content(batch', front(batch')), list') \o Carried(mem, m)
    OBVIOUS
  <2>2. upload' = [mem |-> m, null |-> FALSE, evts |-> ev]
    BY <1>4, <2>1 DEF BufferedList
  <2>3. upload'.mem = m /\ upload'.evts = ev /\ upload'.null = FALSE
    BY <2>2
  <2>4. NoUpload.null = TRUE
    BY DEF NoUpload
  <2> QED BY <2>1, <2>3, <2>4
<1>9. BufferTypes'
  <2>1. Len(g) \in Nat
    BY DEF Files
  <2>2. upload'.mem = NullList \/ upload'.mem.count \in Nat
    BY <1>7, <1>8, <2>1
  <2> QED BY <1>1, <1>8, <2>2 DEF BufferTypes, BufferInv
<1>10. ASSUME Claim' PROVE Solid(batch') /\ Lists(Contents(batch'), mem', list', upload') /\ BufferQueue'
  <2>1. Claim
    BY <1>1, <1>10 DEF Claim
  <2>2. Solid(batch) /\ BufferQueue
    BY <2>1 DEF BufferInv
  <2>3. PICK f \in Files, r \in Files :
           /\ Carried(Content(batch', front(batch')), list') = f
           /\ ListedOf(Contents(batch), list', limit, f, r)
    BY <1>3, <2>2
  <2>4. /\ Contents(batch) = f \o r
        /\ IF list' = NullList THEN f = <<>> /\ (M = 0 \/ r = <<>>)
           ELSE list'.count = Len(f) /\ (~list'.more => r = <<>>)
    BY <1>5, <2>3 DEF ListedOf
  <2>5. m # NullList => r = <<>>
    BY <1>6, <1>7, <2>4
  <2>6. PICK q, w, l, u : q = Contents(batch) /\ w = mem /\ l = list' /\ u = upload'
    OBVIOUS
  <2>7. /\ u.evts = f \o g /\ q = f \o r /\ w = g \o t
        /\ IF l = NullList THEN f = <<>> ELSE l.count = Len(f)
        /\ IF u.mem = NullList THEN g = <<>> ELSE u.mem.count = Len(g) /\ r = <<>>
    BY <1>7, <1>8, <2>3, <2>4, <2>5, <2>6
  <2>8. Lists(q, w, l, u)
    BY <2>7 DEF Lists
  <2>9. BufferQueue'
    BY <1>1, <1>3, <2>2 DEF BufferQueue
  <2> QED BY <1>1, <1>3, <2>2, <2>6, <2>8, <2>9
<1> QED BY <1>3, <1>9, <1>10 DEF BufferInv

\* No list, and nothing else changed.
LEMMA UploadEnded ==
    ASSUME BufferInv, Works', mem' \in Files, upload' = NoUpload, list' = NullList,
           refused' = refused, overlapped' = overlapped
    PROVE  /\ BufferTypes'
           /\ Lists(Contents(batch'), mem', list', upload')
<1>1. NoUpload.mem = NullList
  BY DEF NoUpload
<1>2. BufferTypes'
  BY <1>1 DEF BufferTypes, BufferInv
<1>3. Sound(batch')
  BY DEF Works, StorageInv
<1>4. PICK q, w : q = Contents(batch') /\ w = mem' /\ q \in Files /\ w \in Files
  BY <1>3, ContentsParts DEF Sound
<1>5. Lists(q, w, NullList, NoUpload)
  BY <1>4, NoLists
<1> QED BY <1>2, <1>4, <1>5

\* A list that was not uploaded.
LEMMA BufferedFailedKept ==
    ASSUME BufferInv, BufferedFailed
    PROVE  BufferInv'
<1>1. /\ list' = NullList /\ upload' = NoUpload /\ batch' = batch /\ tried' = tried /\ failures' = failures
      /\ mem' = mem /\ added' = added /\ sent' = sent
      /\ refused' = refused /\ crashed' = crashed /\ overlapped' = overlapped
  BY DEF BufferedFailed, history
<1>2. Works'
  BY <1>1, NullListed DEF BufferInv, Works, StorageInv
<1>3. BufferTypes' /\ Lists(Contents(batch'), mem', list', upload')
  BY <1>1, <1>2, UploadEnded DEF BufferInv, BufferTypes
<1>4. ASSUME Claim' PROVE Solid(batch') /\ BufferQueue'
  BY <1>1, <1>4 DEF BufferInv, Claim, BufferQueue
<1> QED BY <1>2, <1>3, <1>4 DEF BufferInv

\* New limits of the wrapped batch.
LEMMA SetWrappedLimitsKept ==
    ASSUME BufferInv, NEW limit \in FileLimits, SetWrappedLimits(limit)
    PROVE  BufferInv'
<1>1. /\ SetFileLimits(limit) /\ upload' = upload /\ mem' = mem /\ added' = added /\ sent' = sent
      /\ refused' = refused /\ crashed' = crashed /\ overlapped' = overlapped
  BY DEF SetWrappedLimits, history
<1>2. Works' /\ Contents(batch') = Contents(batch) /\ tried' = tried /\ list' = list
  BY <1>1, Limited DEF BufferInv
<1>3. ASSUME Solid(batch) PROVE Solid(batch')
  <2>1. batch' = [batch EXCEPT !.limit = limit] /\ batch \in Storages
    BY <1>1, WorksType DEF SetFileLimits, setFileLimits, Sound, BufferInv
  <2>2. batch'.oldest = batch.oldest /\ batch'.disk = batch.disk
    BY <2>1 DEF Storages
  <2> QED BY <1>3, <2>2 DEF Solid
<1>4. BufferTypes'
  BY <1>1, <1>2 DEF BufferInv, BufferTypes
<1>5. ASSUME Claim' PROVE Solid(batch') /\ Lists(Contents(batch'), mem', list', upload') /\ BufferQueue'
  BY <1>1, <1>2, <1>3, <1>5 DEF BufferInv, Claim, BufferQueue
<1> QED BY <1>2, <1>4, <1>5 DEF BufferInv

\* Taking events of both the files and the buffer leaves no gap.
NoGap(s, f, g, r, t) == (s \o (f \o g)) \o (r \o t) = s \o ((f \o r) \o (g \o t))

\* A list takes events of the buffer only with the last ones of the files.
LEMMA Shifted ==
    ASSUME NEW s \in Files, NEW f \in Files, NEW g \in Files, NEW r \in Files, NEW t \in Files,
           g = <<>> \/ r = <<>>
    PROVE  NoGap(s, f, g, r, t)
<1>1. PICK S, F, G, R, T : /\ S = s /\ F = f /\ G = g /\ R = r /\ T = t
                           /\ S \in Seq(Events) /\ F \in Seq(Events) /\ G \in Seq(Events)
                           /\ R \in Seq(Events) /\ T \in Seq(Events)
  BY DEF Files
<1>2. CASE g = <<>>
  <2>1. f \o g = f /\ g \o t = t
    BY <1>2, FilesClosed
  <2>2. PICK y \in Seq(Events) : y = R \o T
    BY <1>1, ConcatProperties
  <2>3. (S \o F) \o y = S \o (F \o y)
    <3>1. S \in Seq(Events) /\ F \in Seq(Events)
      BY <1>1
    <3> QED BY <3>1, ConcatAssociative, SMTT(60)
  <2>4. (F \o R) \o T = F \o (R \o T)
    <3>1. R \in Seq(Events) /\ F \in Seq(Events) /\ T \in Seq(Events)
      BY <1>1
    <3> QED BY <3>1, ConcatAssociative
  <2> QED BY <1>1, <2>1, <2>2, <2>3, <2>4 DEF NoGap
<1>3. CASE r = <<>>
  <2>1. f \o r = f /\ r \o t = t
    BY <1>3, FilesClosed
  <2>2. PICK y \in Seq(Events) : y = F \o G
    BY <1>1, ConcatProperties
  <2>3. (S \o y) \o T = S \o (y \o T)
    <3>1. S \in Seq(Events) /\ T \in Seq(Events)
      BY <1>1
    <3> QED BY <3>1, ConcatAssociative
  <2>4. (F \o G) \o T = F \o (G \o T)
    <3>1. G \in Seq(Events) /\ F \in Seq(Events) /\ T \in Seq(Events)
      BY <1>1
    <3> QED BY <3>1, ConcatAssociative
  <2> QED BY <1>1, <2>1, <2>2, <2>3, <2>4 DEF NoGap
<1> QED BY <1>2, <1>3

\* The files' part of a list that was uploaded.
LEMMA WrappedUploaded ==
    ASSUME Works, IF list = NullList THEN UNCHANGED vars ELSE OnEventsUploaded
    PROVE  /\ Works' /\ list' = NullList /\ tried' = tried
           /\ Solid(batch) => Solid(batch')
           /\ list = NullList => batch' = batch
           /\ \A f \in Files, r \in Files :
                 list # NullList /\ Contents(batch) = f \o r /\ list.count = Len(f) => Contents(batch') = r
<1>1. CASE list = NullList
  <2>1. batch' = batch /\ list' = list /\ tried' = tried /\ failures' = failures
    BY <1>1 DEF vars
  <2>2. Works'
    BY <2>1 DEF Works, StorageInv
  <2> QED BY <1>1, <2>1, <2>2
<1>2. CASE list # NullList
  <2>1. /\ OnEventsUploaded /\ batch' = onEventsUploaded(batch, list) /\ list' = NullList
        /\ tried' = tried /\ failures' = failures
    BY <1>2 DEF OnEventsUploaded
  <2>2. [Next]_vars
    BY <2>1 DEF Next
  <2>3. Works'
    BY <2>1, <2>2, StorageNext DEF Works
  <2>4. Sound(batch) /\ Settled(batch) /\ IsList(list, At(batch.disk, front(batch)))
    BY <1>2, WorksType DEF InFlight
  <2>5. Contents(batch') = Cut(Contents(batch), list.count)
    BY <2>1, <2>4, Uploaded
  <2>6. Solid(batch')
    BY <2>1, <2>4, SolidUploaded
  <2>7. ASSUME NEW f \in Files, NEW r \in Files, Contents(batch) = f \o r, list.count = Len(f)
        PROVE  Contents(batch') = r
    <3>1. f \in Seq(Events) /\ r \in Seq(Events)
      BY DEF Files
    <3>2. PICK k : k = list.count /\ k = Len(f)
      BY <2>7
    <3>3. Cut(f \o r, k) = r
      BY <3>1, <3>2, CutBehind
    <3> QED BY <2>5, <2>7, <3>2, <3>3
  <2> QED BY <1>2, <2>1, <2>3, <2>6, <2>7
<1> QED BY <1>1, <1>2

\* onEventsUploaded
LEMMA BufferedUploadedKept ==
    ASSUME BufferInv, BufferedUploaded
    PROVE  BufferInv'
<1>1. /\ IF list = NullList THEN UNCHANGED vars ELSE OnEventsUploaded
      /\ mem' = IF upload.mem = NullList THEN mem ELSE SubSeq(mem, upload.mem.count + 1, Len(mem))
      /\ sent' = sent \o upload.evts /\ upload' = NoUpload /\ added' = added
      /\ refused' = refused /\ crashed' = crashed /\ overlapped' = overlapped
  BY Zenon DEF BufferedUploaded, memEventsUploaded
<1>2. Works /\ mem \in Files /\ (upload.mem = NullList \/ upload.mem.count \in Nat)
  BY DEF BufferInv, BufferTypes
<1>3. /\ Works' /\ list' = NullList /\ tried' = tried
      /\ Solid(batch) => Solid(batch')
      /\ list = NullList => batch' = batch
      /\ \A f \in Files, r \in Files :
            list # NullList /\ Contents(batch) = f \o r /\ list.count = Len(f) => Contents(batch') = r
  BY <1>1, <1>2, WrappedUploaded
<1>4. mem' \in Files
  <2>1. CASE upload.mem = NullList
    BY <1>1, <1>2, <2>1
  <2>2. CASE upload.mem # NullList
    <3>1. PICK v \in Seq(Events), k \in Nat : v = mem /\ k = upload.mem.count
      BY <1>2, <2>2 DEF Files
    <3>2. SubSeq(v, k + 1, Len(v)) \in Seq(Events)
      OBVIOUS
    <3> QED BY <1>1, <2>2, <3>1, <3>2 DEF Files
  <2> QED BY <2>1, <2>2
<1>5. BufferTypes' /\ Lists(Contents(batch'), mem', list', upload')
  BY <1>1, <1>3, <1>4, UploadEnded
<1>6. ASSUME Claim' PROVE Solid(batch') /\ BufferQueue'
  <2>1. Claim
    BY <1>1, <1>6 DEF Claim
  <2>2. Solid(batch) /\ BufferQueue /\ Lists(Contents(batch), mem, list, upload)
    BY <2>1 DEF BufferInv
  <2>3. PICK f \in Files, g \in Files, r \in Files, t \in Files :
           /\ upload.evts = f \o g /\ Contents(batch) = f \o r /\ mem = g \o t
           /\ IF list = NullList THEN f = <<>> ELSE list.count = Len(f)
           /\ IF upload.mem = NullList THEN g = <<>> ELSE upload.mem.count = Len(g) /\ r = <<>>
    BY <2>2 DEF Lists
  <2>4. Contents(batch') = r
    <3>1. CASE list = NullList
      <4>1. <<>> \o r = r
        BY FilesClosed
      <4> QED BY <1>3, <2>3, <3>1, <4>1
    <3>2. CASE list # NullList
      BY <1>3, <2>3, <3>2
    <3> QED BY <3>1, <3>2
  <2>5. mem' = t
    <3>1. CASE upload.mem = NullList
      <4>1. <<>> \o t = t
        BY FilesClosed
      <4> QED BY <1>1, <2>3, <3>1, <4>1
    <3>2. CASE upload.mem # NullList
      <4>1. g \in Seq(Events) /\ t \in Seq(Events)
        BY DEF Files
      <4>2. PICK k : k = upload.mem.count /\ k = Len(g)
        BY <2>3, <3>2
      <4>3. Cut(g \o t, k) = t
        BY <4>1, <4>2, CutBehind
      <4>4. mem' = Cut(mem, k)
        BY <1>1, <3>2, <4>2 DEF Cut
      <4> QED BY <2>3, <4>3, <4>4
    <3> QED BY <3>1, <3>2
  <2>6. sent \in Files /\ sent \o ((f \o r) \o (g \o t)) = Without(added, crashed)
    BY <2>2, <2>3 DEF BufferQueue
  <2>7. PICK s \in Files : s = sent
    BY <2>6
  <2>8. (s \o (f \o g)) \o (r \o t) = s \o ((f \o r) \o (g \o t))
    <3>1. g = <<>> \/ r = <<>>
      BY <2>3
    <3>2. NoGap(s, f, g, r, t)
      BY <3>1, Shifted
    <3> QED BY <3>2 DEF NoGap
  <2>9. s \o (f \o g) \in Files
    BY FilesClosed
  <2>10. sent' = s \o (f \o g)
    BY <1>1, <2>3, <2>7
  <2>11. sent' \o (Contents(batch') \o mem') = Without(added, crashed)
    BY <2>4, <2>5, <2>6, <2>7, <2>8, <2>10
  <2> QED BY <1>1, <1>3, <2>2, <2>9, <2>10, <2>11 DEF BufferQueue
<1> QED BY <1>3, <1>5, <1>6 DEF BufferInv

\* The destructor flushes, and the next process finds the events in the files.
LEMMA RestartFlushedKept ==
    ASSUME BufferInv, NEW limit \in FileLimits, RestartFlushed(limit)
    PROVE  BufferInv'
<1>1. PICK F : F = flushInternal
  OBVIOUS
<1>2. /\ batch' = openStorage(F.batch.disk, limit, {}) /\ refused' = F.refused
      /\ mem' = <<>> /\ list' = NullList /\ upload' = NoUpload
      /\ tried' = tried /\ failures' = failures /\ added' = added /\ sent' = sent
      /\ crashed' = crashed /\ overlapped' = overlapped
  BY <1>1 DEF RestartFlushed
<1>3. /\ Sound(batch) /\ mem \in Files /\ refused \in SUBSET Events /\ failures = 0
      /\ Contents(batch) \in Files /\ overlapped \in BOOLEAN
  BY WorksType DEF BufferInv, BufferTypes, Works
<1>4. FlushedTo(F, batch, refused, mem)
  BY <1>1, <1>3, FlushAll
<1>5. PICK c : c = F.batch /\ Sound(c)
  BY <1>4 DEF FlushedTo
<1>6. limit \in Nat \X Nat
  BY LimitAssumption
<1>7. Sound(batch') /\ Contents(batch') = Contents(c) /\ Solid(batch')
  BY <1>2, <1>5, <1>6, Reopened, SolidOpened
<1>8. Works'
  BY <1>2, <1>3, <1>7, NullListed DEF Works, StorageInv
<1>9. BufferTypes'
  <2>1. NoUpload.mem = NullList /\ <<>> \in Files
    BY FilesClosed DEF NoUpload
  <2>2. refused' \in SUBSET Events
    BY <1>2, <1>4 DEF FlushedTo
  <2> QED BY <1>2, <1>3, <2>1, <2>2 DEF BufferTypes
<1>10. ASSUME Claim' PROVE Lists(Contents(batch'), mem', list', upload') /\ BufferQueue'
  <2>1. F.refused = {} /\ ~overlapped
    BY <1>2, <1>10 DEF Claim
  <2>2. Claim
    BY <1>4, <2>1 DEF Claim, FlushedTo
  <2>3. BufferQueue
    BY <2>2 DEF BufferInv
  <2>4. PICK q \in Files, m \in Files : q = Contents(batch) /\ m = mem
    BY <1>3
  <2>5. Contents(batch') = q \o m
    BY <1>4, <1>5, <1>7, <2>1, <2>4 DEF FlushedTo
  <2>6. q \o m \in Files
    BY FilesClosed
  <2>6a. PICK z \in Files : z = q \o m
    BY <2>6
  <2>7. z \o <<>> = z /\ <<>> \in Files
    BY FilesClosed
  <2>8. Lists(z, <<>>, NullList, NoUpload)
    BY <2>7, NoLists
  <2>9. Contents(batch') \o mem' = Contents(batch) \o mem
    BY <1>2, <2>4, <2>5, <2>6a, <2>7
  <2>10. BufferQueue'
    BY <1>2, <2>3, <2>9 DEF BufferQueue
  <2> QED BY <1>2, <2>5, <2>6a, <2>8, <2>10
<1> QED BY <1>7, <1>8, <1>9, <1>10 DEF BufferInv

\* The events a that were added, without those of c, are sent or held.
Queued(s, q, m, a, c) == s \o (q \o m) = Without(a, c)

\* A killed process takes its buffer with it, and nothing else.
LEMMA BufferGone ==
    ASSUME NEW a \in Files, Once(a), NEW c, NEW s \in Files, NEW q \in Files, NEW m \in Files,
           Queued(s, q, m, a, c), NEW d, d = c \cup ToSet(m)
    PROVE  Queued(s, q, <<>>, a, d)
<1>1. PICK M : M = ToSet(m)
  OBVIOUS
<1>2. PICK p \in Files : p = s \o q /\ p \o m = Without(a, c)
  <2>1. s \in Seq(Events) /\ q \in Seq(Events) /\ m \in Seq(Events)
    BY DEF Files
  <2>2. (s \o q) \o m = s \o (q \o m)
    BY <2>1, ConcatAssociative
  <2>3. s \o q \in Files
    BY FilesClosed
  <2> QED BY <2>2, <2>3 DEF Queued
<1>3. Without(a, d) = Without(Without(a, c), M)
  BY <1>1, WithoutTwice
<1>4. Once(p \o m)
  <2>1. Once(Without(a, c))
    BY OnceWithout
  <2> QED BY <1>2, <2>1
<1>5. \A x \in ToSet(p) : x \notin M
  BY <1>1, <1>4, OnceConcat
<1>6. Without(p \o m, M) = Without(p, M) \o Without(m, M)
  BY WithoutConcat, SMTT(60)
<1>7. Without(p, M) = p
  BY <1>5, WithoutNone
<1>8. Without(m, M) = <<>>
  BY <1>1, WithoutAll
<1>9. p \o <<>> = p
  BY FilesClosed
<1>10. q \o <<>> = q
  BY FilesClosed
<1> QED BY <1>2, <1>3, <1>6, <1>7, <1>8, <1>9, <1>10 DEF Queued

\* The process is killed.
LEMMA CrashKept ==
    ASSUME BufferInv, NEW limit \in FileLimits, Crash(limit)
    PROVE  BufferInv'
<1>1. /\ Restart(limit) /\ failures' = failures /\ crashed' = crashed \cup ToSet(mem)
      /\ mem' = <<>> /\ upload' = NoUpload /\ added' = added /\ sent' = sent
      /\ refused' = refused /\ overlapped' = overlapped
  BY DEF Crash
<1>2. Works /\ mem \in Files /\ Contents(batch) \in Files
  BY WorksType DEF BufferInv, BufferTypes
<1>3. Sound(batch) /\ batch' = openStorage(batch.disk, limit, {}) /\ list' = NullList /\ tried' = tried
  BY <1>1, <1>2, RestartStep DEF Works, Restart
<1>4. limit \in Nat \X Nat
  BY LimitAssumption
<1>5. Sound(batch') /\ Contents(batch') = Contents(batch) /\ Solid(batch')
  BY <1>3, <1>4, Reopened, SolidOpened
<1>6. Works'
  BY <1>1, <1>2, <1>3, <1>5, NullListed DEF Works, StorageInv
<1>7. mem' \in Files
  BY <1>1, FilesClosed
<1>8. BufferTypes' /\ Lists(Contents(batch'), mem', list', upload')
  BY <1>1, <1>3, <1>6, <1>7, UploadEnded
<1>9. ASSUME Claim' PROVE BufferQueue'
  <2>1. Claim
    BY <1>1, <1>9 DEF Claim
  <2>2. BufferQueue
    BY <2>1 DEF BufferInv
  <2>3. PICK a \in Files, s \in Files, q \in Files, m \in Files :
           a = added /\ s = sent /\ q = Contents(batch) /\ m = mem
    BY <1>2, <2>2 DEF BufferQueue
  <2>4. PICK c, d : c = crashed /\ d = c \cup ToSet(m)
    OBVIOUS
  <2>5. Once(a) /\ Queued(s, q, m, a, c)
    BY <2>2, <2>3, <2>4 DEF BufferQueue, Queued
  <2>6. Queued(s, q, <<>>, a, d)
    BY <2>4, <2>5, BufferGone
  <2>8. \A x \in ToSet(m) : x \in tried
    <3>1. ToSet(s \o (q \o m)) = ToSet(s) \cup (ToSet(q) \cup ToSet(m))
      <4>1. PICK w \in Files : w = q \o m
        BY FilesClosed
      <4>2. ToSet(s \o w) = ToSet(s) \cup ToSet(w) /\ ToSet(q \o m) = ToSet(q) \cup ToSet(m)
        BY ToSetOf
      <4> QED BY <4>1, <4>2
    <3>2. \A x \in ToSet(Without(a, c)) : x \in ToSet(a)
      BY WithoutRange
    <3> QED BY <2>2, <2>3, <2>5, <3>1, <3>2 DEF BufferQueue, Queued
  <2>9. crashed' = d
    BY <1>1, <2>3, <2>4
  <2>10. \A x \in ToSet(added') \cup crashed' : x \in tried'
    BY <1>1, <1>3, <2>2, <2>4, <2>8, <2>9 DEF BufferQueue
  <2>11. sent' \o (Contents(batch') \o mem') = Without(added', crashed')
    BY <1>1, <1>5, <2>3, <2>6, <2>9 DEF Queued
  <2> QED BY <1>1, <2>2, <2>10, <2>11 DEF BufferQueue
<1> QED BY <1>5, <1>6, <1>8, <1>9 DEF BufferInv

\* The invariant holds at first.
LEMMA BufferStart ==
    ASSUME BufferedInit
    PROVE  BufferInv
<1>1. /\ Init /\ mem = <<>> /\ upload = NoUpload /\ added = <<>> /\ sent = <<>>
      /\ refused = {} /\ crashed = {} /\ overlapped = FALSE
  BY DEF BufferedInit
<1>2. StorageInv /\ Contents(batch) = <<>> /\ failures = 0 /\ list = NullList
  BY <1>1, StorageInit DEF Init
<1>3. <<>> \in Files /\ <<>> \o <<>> = <<>> /\ Without(<<>>, {}) = <<>> /\ ToSet(<<>>) = {}
  BY FilesClosed, WithoutAppend, ToSetOf
<1>4. Once(<<>>)
  BY DEF Once
<1>5. BufferTypes
  <2>1. NoUpload.mem = NullList
    BY DEF NoUpload
  <2> QED BY <1>1, <1>2, <1>3, <2>1 DEF BufferTypes
<1>6. Solid(batch)
  BY <1>1, SolidOpened DEF Init
<1>7. Lists(<<>>, <<>>, NullList, NoUpload)
  BY <1>3, NoLists
<1>8. BufferQueue
  BY <1>1, <1>2, <1>3, <1>4 DEF BufferQueue
<1> QED BY <1>1, <1>2, <1>5, <1>6, <1>7, <1>8 DEF BufferInv, Works

\* Every step keeps the invariant.
LEMMA BufferStep ==
    ASSUME BufferInv, [BufferedNext]_bufferedVars
    PROVE  BufferInv'
<1>1. ASSUME NEW e \in Events, AddBuffered(e) PROVE BufferInv'
  BY <1>1, AddBufferedKept
<1>2. CASE Flush
  BY <1>2, FlushStepKept
<1>3. ASSUME NEW limit \in UploadLimits, GetBuffered(limit) PROVE BufferInv'
  BY <1>3, GetBufferedKept
<1>4. CASE BufferedUploaded
  BY <1>4, BufferedUploadedKept
<1>5. CASE BufferedFailed
  BY <1>5, BufferedFailedKept
<1>6. ASSUME NEW limit \in FileLimits, SetWrappedLimits(limit) PROVE BufferInv'
  BY <1>6, SetWrappedLimitsKept
<1>7. ASSUME NEW limit \in FileLimits, RestartFlushed(limit) PROVE BufferInv'
  BY <1>7, RestartFlushedKept
<1>8. ASSUME NEW limit \in FileLimits, Crash(limit) PROVE BufferInv'
  BY <1>8, CrashKept
<1>9. CASE UNCHANGED bufferedVars
  <2>1. /\ batch' = batch /\ list' = list /\ tried' = tried /\ failures' = failures
        /\ mem' = mem /\ upload' = upload /\ added' = added /\ sent' = sent
        /\ refused' = refused /\ crashed' = crashed /\ overlapped' = overlapped
    BY <1>9 DEF bufferedVars, vars, history
  <2>2. Works' <=> Works
    BY <2>1 DEF Works, StorageInv
  <2>3. BufferTypes' <=> BufferTypes
    BY <2>1 DEF BufferTypes
  <2>4. (Claim' <=> Claim) /\ (BufferQueue' <=> BufferQueue)
    BY <2>1 DEF Claim, BufferQueue
  <2> QED BY <2>1, <2>2, <2>3, <2>4 DEF BufferInv
<1> QED BY <1>1, <1>2, <1>3, <1>4, <1>5, <1>6, <1>7, <1>8, <1>9 DEF BufferedNext

\* The buffer in front of the files loses no event and changes no order, for every buffer and
\* file limit: what addEvent accepted is what was sent followed by what is held, without the
\* events that were in the buffer of a killed process.
THEOREM BufferLosesNothing == BufferedSpec => []NothingLost
<1>1. BufferedInit => BufferInv
  BY BufferStart
<1>2. BufferInv /\ [BufferedNext]_bufferedVars => BufferInv'
  BY BufferStep
<1>3. BufferInv => NothingLost
  BY DEF BufferInv, Claim, BufferQueue, NothingLost, Held
<1> QED BY <1>1, <1>2, <1>3, PTL DEF BufferedSpec

=============================================================================
