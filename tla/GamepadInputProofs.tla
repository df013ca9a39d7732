-------------------------- MODULE GamepadInputProofs --------------------------
(***************************************************************************)
(* Proofs about GamepadInput, for any number of devices, of changes and of *)
(* events the kernel keeps.                                                *)
(***************************************************************************)
EXTENDS GamepadInput, FiniteSetTheorems, WellFoundedInduction, TLAPS

-----------------------------------------------------------------------------
(* The enumeration, a fold *)

\* A nonempty set of natural numbers has a least element.
LEMMA Least ==
    ASSUME NEW T \in SUBSET Nat, T # {}
    PROVE  \E n \in T : \A m \in T : n <= m
<1>1. \E x \in T : \A y \in T : <<y, x>> \notin OpToRel(<, Nat)
  BY NatLessThanWellFounded, WFMin, Zenon
<1>2. \A x, y \in Nat : x < y => <<x, y>> \in OpToRel(<, Nat)
  BY Zenon DEF OpToRel
<1>3. \E x \in T : \A y \in T : ~(y < x)
  BY <1>1, <1>2, Zenon
<1> QED BY <1>3

\* Max is the greatest element of a set of indices.
LEMMA Greatest ==
    ASSUME NEW n \in Nat, NEW s \in SUBSET (1..n), s # {}
    PROVE  Max(s) \in s /\ \A y \in s : Max(s) >= y
<1> DEFINE T == {m \in Nat : \E x \in s : m = n - x}
<1>1. T \in SUBSET Nat /\ T # {}
  <2>1. PICK x : x \in s
    OBVIOUS
  <2>2. n - x \in Nat
    BY <2>1
  <2>3. n - x \in T
    BY <2>1, <2>2
  <2> QED BY <2>3
<1>2. \A y \in s : y \in Nat /\ n - y \in T
  OBVIOUS
<1>3. \A m \in T : m \in Nat /\ \E x \in s : m = n - x
  OBVIOUS
<1> HIDE DEF T
<1>4. PICK m \in T : \A k \in T : m <= k
  BY <1>1, Least
<1>5. PICK x \in s : m = n - x
  BY <1>3
<1>6. \A y \in s : x >= y
  <2> SUFFICES ASSUME NEW y \in s PROVE x >= y
    OBVIOUS
  <2>1. n - x <= n - y
    BY <1>2, <1>4, <1>5
  <2> QED BY <2>1, <1>2
<1> QED BY <1>6 DEF Max

\* What FoldLeft folds is a function that satisfies its recursive definition.
LEMMA FoldOfOrder ==
    ASSUME NEW n \in Nat, NEW order, DOMAIN order = 1..n
    PROVE  \E f : /\ FoldLeft(onDeviceAdded, Current, order) = f[1..n]
                  /\ f[{}] = Current
                  /\ \A s \in SUBSET (1..n) :
                        s # {} => f[s] = onDeviceAdded(f[s \ {Max(s)}], order[Max(s)])
<1> DEFINE Step(s, p) == onDeviceAdded(p, order[Max(s)])
           Dom(k) == {s \in SUBSET (1..n) : Cardinality(s) <= k}
           P(k, f) == f = [s \in Dom(k) |-> IF s = {} THEN Current
                                            ELSE Step(s, f[s \ {Max(s)}])]
           T == {k \in 0..n : ~ \E f : P(k, f)}
<1> HIDE DEF Step
<1>1. \A s \in SUBSET (1..n) : IsFiniteSet(s) /\ Cardinality(s) \in Nat /\ Cardinality(s) <= n
  <2> SUFFICES ASSUME NEW s \in SUBSET (1..n)
               PROVE  IsFiniteSet(s) /\ Cardinality(s) \in Nat /\ Cardinality(s) <= n
    OBVIOUS
  <2> DEFINE I == 1..n
  <2>1. IsFiniteSet(I) /\ Cardinality(I) = n /\ s \in SUBSET I
    BY FS_Interval
  <2> HIDE DEF I
  <2>2. IsFiniteSet(s) /\ Cardinality(s) <= n
    BY <2>1, FS_Subset
  <2> QED BY <2>2, FS_CardinalityType
<1>2. \A s \in SUBSET (1..n) : s # {} =>
         /\ s \ {Max(s)} \in SUBSET (1..n)
         /\ Cardinality(s \ {Max(s)}) = Cardinality(s) - 1
  <2> SUFFICES ASSUME NEW s \in SUBSET (1..n), s # {}
               PROVE  Cardinality(s \ {Max(s)}) = Cardinality(s) - 1
    OBVIOUS
  <2>1. Max(s) \in s
    BY Greatest
  <2> QED BY <1>1, <2>1, FS_RemoveElement
<1>3. \A s \in SUBSET (1..n) : Cardinality(s) <= 0 => s = {}
  BY <1>1, FS_EmptySet
<1>4. Cardinality({}) = 0
  BY FS_EmptySet
<1>5. T = {}
  <2> SUFFICES ASSUME T # {} PROVE FALSE
    OBVIOUS
  <2>0. T \in SUBSET Nat
    OBVIOUS
  <2> HIDE DEF T
  <2>1. PICK k \in T : \A m \in T : k <= m
    BY Least, <2>0
  <2>2. k \in 0..n /\ ~ \E f : P(k, f)
    BY <2>1 DEF T
  <2>3. k # 0
    <3>1. Dom(0) = {{}}
      BY <1>3, <1>4
    <3> HIDE DEF Dom
    <3>2. P(0, [s \in Dom(0) |-> Current])
      BY <3>1
    <3> QED BY <3>2, <2>2
  <2>4. k - 1 \in 0..n /\ ~(k <= k - 1) /\ k \in Nat
    BY <2>2, <2>3
  <2>5. PICK h : P(k - 1, h)
    <3>1. k - 1 \notin T
      BY <2>1, <2>4
    <3> QED BY <3>1, <2>4 DEF T
  <2> DEFINE g == [s \in Dom(k) |-> IF s \in Dom(k - 1) THEN h[s]
                                    ELSE Step(s, h[s \ {Max(s)}])]
  <2>6. \A s \in Dom(k) : s # {} => s \ {Max(s)} \in Dom(k - 1) /\ s \ {Max(s)} \in Dom(k)
    <3> SUFFICES ASSUME NEW s \in Dom(k), s # {}
                 PROVE  s \ {Max(s)} \in Dom(k - 1) /\ s \ {Max(s)} \in Dom(k)
      OBVIOUS
    <3> DEFINE t == s \ {Max(s)}
    <3>1. t \in SUBSET (1..n) /\ Cardinality(t) = Cardinality(s) - 1
      BY <1>2
    <3>2. Cardinality(s) \in Nat /\ Cardinality(s) <= k
      BY <1>1
    <3> HIDE DEF t
    <3>3. Cardinality(t) <= k - 1 /\ Cardinality(t) <= k
      BY <3>1, <3>2, <2>4
    <3>4. t \in Dom(k - 1) /\ t \in Dom(k)
      BY <3>1, <3>3
    <3> QED BY <3>4 DEF t
  <2>7. {} \in Dom(k - 1)
    BY <1>4, <2>4
  <2>8. \A s \in Dom(k - 1) : h[s] = IF s = {} THEN Current ELSE Step(s, h[s \ {Max(s)}])
    BY <2>5
  <2> HIDE DEF Dom
  <2>9. \A s \in Dom(k) : g[s] = IF s = {} THEN Current ELSE Step(s, g[s \ {Max(s)}])
    BY <2>6, <2>7, <2>8
  <2>10. g = [s \in Dom(k) |-> g[s]]
    OBVIOUS
  <2> HIDE DEF g
  <2>11. P(k, g)
    BY <2>9, <2>10
  <2> QED BY <2>11, <2>2
<1>6. PICK h : P(n, h)
  <2> HIDE DEF P
  <2>1. n \in 0..n
    OBVIOUS
  <2>2. \E h : P(n, h)
    BY <1>5, <2>1
  <2> QED BY <2>2
<1>7. Dom(n) = SUBSET (1..n)
  BY <1>1
<1> HIDE DEF Dom
<1> DEFINE f == CHOOSE e : e = [s \in SUBSET (1..n) |-> IF s = {} THEN Current
                                   ELSE Step(s, e[s \ {Max(s)}])]
<1>8. f = [s \in SUBSET (1..n) |-> IF s = {} THEN Current ELSE Step(s, f[s \ {Max(s)}])]
  BY <1>6, <1>7
<1>9. FoldLeft(onDeviceAdded, Current, order) = f[1..n]
  BY DEF FoldLeft, MapThenFoldSet, Step
<1> HIDE DEF f
<1>10. f[{}] = Current
  BY <1>8
<1>11. \A s \in SUBSET (1..n) : s # {} => f[s] = Step(s, f[s \ {Max(s)}])
  BY <1>8
<1> QED BY <1>9, <1>10, <1>11 DEF Step

\* The enumeration adds a joystick for each device, with the indices in order.
LEMMA EnumerateAdds ==
    ASSUME IsFiniteSet(plugged), joysticks = <<>>, takenGamepadLowId = 0, DOMAIN gamepads = {},
           NEW order \in SetToSeqs(plugged), Becomes(FoldLeft(onDeviceAdded, Current, order)),
           NEW n, n = Cardinality(plugged)
    PROVE  /\ joysticks' = [k \in 1..n |-> Opened(order[k], k - 1)]
           /\ takenGamepadLowId' = n
           /\ gamepads' = [i \in 0..(n - 1) |-> {}]
           /\ history' = history
<1>1. n \in Nat /\ order \in [1..n -> plugged]
  BY FS_CardinalityType DEF SetToSeqs
<1>2. PICK f : /\ FoldLeft(onDeviceAdded, Current, order) = f[1..n]
               /\ f[{}] = Current
               /\ \A s \in SUBSET (1..n) :
                     s # {} => f[s] = onDeviceAdded(f[s \ {Max(s)}], order[Max(s)])
  BY <1>1, FoldOfOrder
<1> DEFINE Js(k) == [i \in 1..k |-> Opened(order[i], i - 1)]
           Gs(k) == [i \in 0..(k - 1) |-> {}]
           S(k) == [joysticks |-> Js(k), low |-> k, gamepads |-> Gs(k), history |-> history]
           T == {k \in 0..n : f[1..k] # S(k)}
<1>3. T = {}
  <2> SUFFICES ASSUME T # {} PROVE FALSE
    OBVIOUS
  <2>0. T \in SUBSET Nat
    BY <1>1
  <2> HIDE DEF T
  <2>1. PICK k \in T : \A m \in T : k <= m
    BY Least, <2>0
  <2> HIDE DEF S
  <2>2. k \in 0..n /\ f[1..k] # S(k)
    BY <2>1 DEF T
  <2>3. k # 0
    <3>1. f[1..0] = Current
      BY <1>2
    <3>2. joysticks = Js(0) /\ gamepads = Gs(0)
      <4>1. gamepads = [i \in {} |-> {}]
        OBVIOUS
      <4> QED BY <4>1
    <3>3. Current = S(0)
      BY <3>2 DEF Current, S
    <3> QED BY <3>1, <3>3, <2>2
  <2>4. k \in Nat /\ k - 1 \in 0..n /\ ~(k <= k - 1) /\ k \in 1..n /\ k - 1 \in Nat
    BY <2>2, <2>3, <1>1
  <2>5. f[1..(k - 1)] = S(k - 1)
    BY <2>1, <2>4 DEF T
  <2>6. Max(1..k) = k
    <3>1. 1..k \in SUBSET (1..n) /\ 1..k # {} /\ k \in 1..k
      BY <1>1, <2>4
    <3>2. Max(1..k) \in 1..k /\ Max(1..k) >= k
      BY <3>1, <1>1, Greatest
    <3> QED BY <3>2, <2>4
  <2>7. f[1..k] = onDeviceAdded(S(k - 1), order[k])
    <3>1. 1..k \in SUBSET (1..n) /\ 1..k # {} /\ (1..k) \ {k} = 1..(k - 1)
      BY <1>1, <2>4
    <3>2. f[1..k] = onDeviceAdded(f[(1..k) \ {k}], order[k])
      BY <3>1, <1>2, <2>6
    <3> QED BY <3>1, <3>2, <2>5
  <2>8. order[k] \in plugged
    BY <1>1, <2>4
  <2> DEFINE js == Opened(order[k], k - 1)
  <2>9. onDeviceAdded(S(k - 1), order[k]) =
           [joysticks |-> Append(Js(k - 1), js), low |-> (k - 1) + 1,
            gamepads |-> [i \in DOMAIN Gs(k - 1) \cup {k - 1} |->
                             IF i \in DOMAIN Gs(k - 1) THEN Gs(k - 1)[i] ELSE {}],
            history |-> history]
    BY <2>8 DEF onDeviceAdded, takeGamepadId, S
  <2>10. Append(Js(k - 1), js) = Js(k)
    <3> DEFINE a == Append(Js(k - 1), js)
               R == {Opened(order[i], i - 1) : i \in 1..k}
    <3>1. Js(k - 1) \in Seq(R) /\ Len(Js(k - 1)) = k - 1 /\ js \in R
      <4>1. \A i \in 1..k : Opened(order[i], i - 1) \in R
        BY <1>1, <2>4
      <4> HIDE DEF R
      <4> QED BY <4>1, <2>4
    <3> HIDE DEF R, js
    <3>2. Len(a) = k /\ DOMAIN a = 1..k /\ a \in Seq(R)
      BY <3>1, <2>4
    <3>3. \A i \in 1..k : a[i] = IF i = k THEN js ELSE Js(k - 1)[i]
      BY <3>1, <2>4
    <3>4. \A i \in 1..k : a[i] = Opened(order[i], i - 1)
      <4> SUFFICES ASSUME NEW i \in 1..k
                   PROVE  a[i] = Opened(order[i], i - 1)
        OBVIOUS
      <4> HIDE DEF a
      <4>1. CASE i = k
        BY <4>1, <3>3 DEF js
      <4>2. CASE i # k
        <5>1. i \in 1..(k - 1)
          BY <4>2, <2>4
        <5> QED BY <4>2, <5>1, <3>3
      <4> QED BY <4>1, <4>2
    <3> HIDE DEF a
    <3>5. a = [i \in 1..k |-> a[i]]
      BY <3>2
    <3>6. a = Js(k)
      BY <3>4, <3>5
    <3> QED BY <3>6 DEF a
  <2>11. [i \in DOMAIN Gs(k - 1) \cup {k - 1} |->
             IF i \in DOMAIN Gs(k - 1) THEN Gs(k - 1)[i] ELSE {}] = Gs(k)
    <3>1. DOMAIN Gs(k - 1) = 0..((k - 1) - 1) /\ DOMAIN Gs(k - 1) \cup {k - 1} = 0..(k - 1)
      BY <2>4
    <3> QED BY <3>1
  <2>12. (k - 1) + 1 = k
    BY <2>4
  <2>13. onDeviceAdded(S(k - 1), order[k]) = S(k)
    BY <2>9, <2>10, <2>11, <2>12 DEF S
  <2> QED BY <2>2, <2>7, <2>13
<1>4. f[1..n] = S(n)
  <2> HIDE DEF S
  <2>1. n \in 0..n
    BY <1>1
  <2> QED BY <1>3, <2>1
<1>5. Becomes(S(n))
  <2> HIDE DEF S
  <2> QED BY <1>2, <1>4
<1> QED BY <1>5 DEF Becomes

-----------------------------------------------------------------------------
(* The devices *)

Report   == Presses \cup Moves
Event    == Report \cup {Dropped}
Hats     == (SUBSET Directions) \cup {Unwritten}
Joystick == [dev : Devices, id : Nat, hat : Hats,
             down : SUBSET Buttons, known : SUBSET Buttons, buffer : Seq(Event)]
Happened == [early : BOOLEAN, gap : BOOLEAN, spoiled : SUBSET Nat, shadowed : SUBSET Nat]

Types ==
    /\ plugged \in SUBSET Devices /\ udev \in Seq({"add", "remove"} \X Devices)
    /\ joysticks \in Seq(Joystick)
    /\ keyEvents \in Seq(Ids \X BOOLEAN) /\ motionEvents \in Seq(Ids)
    /\ view \in [Ids -> SUBSET Buttons] /\ events \in Nat /\ events <= MaxEvents
    /\ needsQueueGamepadInput \in BOOLEAN
    /\ looper \in {At("start"), At("scan"), At("poll"), At("udev")} \cup
                  ({"joystick"} \X (Nat \ {0}))
    /\ history \in Happened

\* The devices have not been enumerated yet.
Unread == looper \in {At("start"), At("scan")}

\* Without a gap the indices are those of LinuxJoystickManager::joysticks.
Indices ==
    /\ takenGamepadLowId = Len(joysticks)
    /\ \A k \in 1..Len(joysticks) : joysticks[k].id = k - 1
    /\ gamepads \in [0..(Len(joysticks) - 1) -> SUBSET Buttons]

\* There is an index for every joystick that is there or to come.
Count == /\ Unread => joysticks = <<>> /\ Len(udev) <= events
         /\ Len(joysticks) + Len(udev) <= Cardinality(Devices) + events

HasJoystick(d) == \E k \in 1..Len(joysticks) : joysticks[k].dev = d
OneEach == \A j, k \in 1..Len(joysticks) : joysticks[j].dev = joysticks[k].dev => j = k

\* The events of a device that the monitor still has: two times "add" have a "remove" in
\* between; the first one is "remove" if the device has a joystick; and with the last one
\* the joysticks will be right.
Alternate(d) == \A i, j \in 1..Len(udev) :
                   i < j /\ udev[i] = <<"add", d>> /\ udev[j] = <<"add", d>> =>
                      \E m \in 1..Len(udev) : i < m /\ m < j /\ udev[m] = <<"remove", d>>
FirstRemove(d) == \A j \in 1..Len(udev) :
                     HasJoystick(d) /\ udev[j] = <<"add", d>> =>
                        \E m \in 1..Len(udev) : m < j /\ udev[m] = <<"remove", d>>
AddIsLast(d) == \E i \in 1..Len(udev) :
                   /\ udev[i] = <<"add", d>>
                   /\ \A m \in 1..Len(udev) : i < m => udev[m] # <<"remove", d>>
NoRemove(d) == \A i \in 1..Len(udev) : udev[i] # <<"remove", d>>
WillBeRight(d) == /\ d \in plugged => AddIsLast(d) \/ (HasJoystick(d) /\ NoRemove(d))
                  /\ d \notin plugged => ~AddIsLast(d) /\ (HasJoystick(d) => ~NoRemove(d))
Pending(d) == Alternate(d) /\ FirstRemove(d) /\ WillBeRight(d)

\* Before the enumeration the monitor only has the events of devices that are gone.
OnlyRemoves == \A i \in 1..Len(udev) : udev[i][1] = "remove" /\ udev[i][2] \notin plugged

Devs == /\ Unread => OnlyRemoves /\ (looper = At("start") => udev = <<>>)
        /\ ~Unread => OneEach /\ \A d \in Devices : Pending(d)

Sound == Types /\ Indices /\ Count /\ (history.early = TRUE \/ Devs)

\* The devices of the joysticks are the same, in the same order.
SameDevs == Len(joysticks') = Len(joysticks)
            /\ \A k \in 1..Len(joysticks) : joysticks'[k].dev = joysticks[k].dev
                                            /\ joysticks'[k].id = joysticks[k].id

\* What a report is about, and what it says.
LEMMA ReportIs ==
    ASSUME NEW e \in Report
    PROVE  /\ e[1] \subseteq Buttons /\ e[2] \subseteq e[1] /\ e # Dropped
           /\ e \in Presses => e[1] = {"A"}
           /\ e \in Moves => /\ e[1] \subseteq Directions /\ "A" \notin e[1] /\ e[2] # e[1]
                             /\ e[1] = {"left", "right"} \/ e[1] = {"up", "down"}
<1>1. Axes = {{"left", "right"}, {"up", "down"}} /\ Directions = {"left", "right", "up", "down"}
  BY DEF Axes, Directions
<1>2. CASE e \in Presses
  <2>1. e[1] = {"A"} /\ e[2] \subseteq {"A"} /\ Len(e) = 2
    BY <1>2 DEF Presses
  <2>2. e # Dropped
    BY <2>1 DEF Dropped
  <2>3. e \notin Moves
    BY <1>1, <2>1 DEF Moves
  <2> QED BY <1>2, <2>1, <2>2, <2>3 DEF Buttons
<1>3. CASE e \in Moves
  <2>1. e[1] \in Axes /\ e[2] \subseteq e[1] /\ e[2] # e[1] /\ Len(e) = 2
    BY <1>3 DEF Moves
  <2>2. e # Dropped
    BY <2>1 DEF Dropped
  <2>3. e[1] = {"left", "right"} \/ e[1] = {"up", "down"}
    BY <1>1, <2>1
  <2>4. e[1] \subseteq Directions /\ "A" \notin e[1]
    BY <1>1, <2>3
  <2>5. e \notin Presses
    BY <2>4 DEF Presses
  <2> QED BY <1>3, <2>1, <2>2, <2>3, <2>4, <2>5 DEF Buttons
<1> QED BY <1>2, <1>3 DEF Report

\* What the devices report are reports.
LEMMA ReportsAre == \A e \in Reports : e \in Report /\ e \in Event
BY PadAssumption DEF Report, Event

\* A joystick that was just opened.
LEMMA OpenedIs ==
    ASSUME NEW d \in Devices, NEW i \in Nat
    PROVE  /\ Opened(d, i) \in Joystick /\ Opened(d, i).dev = d /\ Opened(d, i).id = i
           /\ Opened(d, i).hat = Unwritten /\ Opened(d, i).down = {}
           /\ Opened(d, i).known = {"A"} /\ Opened(d, i).buffer = <<>>
<1>1. {"A"} \in SUBSET Buttons /\ {} \in SUBSET Buttons
  BY DEF Buttons
<1>2. PICK b, h, kn : b = <<>> /\ h = Unwritten /\ kn = {"A"}
  OBVIOUS
<1>3. b \in Seq(Event) /\ h \in Hats /\ kn \in SUBSET Buttons
  BY <1>1, <1>2 DEF Hats
<1> DEFINE r == [dev |-> d, id |-> i, hat |-> h, down |-> {}, known |-> kn, buffer |-> b]
<1>4. Opened(d, i) = r
  BY <1>2 DEF Opened
<1>5. r \in Joystick
  BY <1>1, <1>3 DEF Joystick
<1>6. r.dev = d /\ r.id = i /\ r.hat = h /\ r.down = {} /\ r.known = kn /\ r.buffer = b
  OBVIOUS
<1> HIDE DEF r
<1> QED BY <1>2, <1>4, <1>5, <1>6

\* A device has a joystick if it had one.
LEMMA SameJoysticks ==
    ASSUME SameDevs PROVE (OneEach => OneEach') /\ \A d : HasJoystick(d)' <=> HasJoystick(d)
BY DEF SameDevs, OneEach, HasJoystick

\* A step that leaves the devices alone.
LEMMA QuietDevices ==
    ASSUME Types, Indices, Count, history.early = TRUE \/ Devs,
           UNCHANGED <<plugged, udev, takenGamepadLowId>>, SameDevs,
           gamepads' \in [0..(Len(joysticks) - 1) -> SUBSET Buttons], joysticks' \in Seq(Joystick),
           Unread' <=> Unread, looper' = At("start") => looper = At("start"),
           events' \in Nat, events <= events', history'.early = history.early
    PROVE  Indices' /\ Count' /\ (history'.early = TRUE \/ Devs')
<1>0. Len(joysticks) \in Nat /\ Len(udev) \in Nat /\ events \in Nat /\ Cardinality(Devices) \in Nat
      /\ joysticks \in Seq(Joystick)
  BY PadAssumption, FS_CardinalityType DEF Types
<1>1. Indices'
  BY DEF Indices, SameDevs
<1>2. Count'
  <2>1. Len(joysticks') = Len(joysticks) /\ udev' = udev
    BY DEF SameDevs
  <2>2. joysticks = <<>> => joysticks' = <<>>
    BY <1>0, <2>1
  <2>3. Len(joysticks') + Len(udev') <= Cardinality(Devices) + events'
    BY <1>0, <2>1 DEF Count
  <2>4. Unread => joysticks = <<>> /\ Len(udev) <= events
    BY DEF Count
  <2>5. Unread' => joysticks' = <<>> /\ Len(udev') <= events'
    BY <1>0, <2>1, <2>2, <2>4
  <2> QED BY <2>3, <2>5 DEF Count
<1>3. ASSUME Devs PROVE Devs'
  <2>1. \A d : HasJoystick(d)' <=> HasJoystick(d)
    BY SameJoysticks
  <2>2. \A d : Pending(d) => Pending(d)'
    <3> SUFFICES ASSUME NEW d, Pending(d) PROVE Pending(d)'
      OBVIOUS
    <3>1. Alternate(d)'
      BY DEF Pending, Alternate
    <3>2. FirstRemove(d)'
      BY <2>1 DEF Pending, FirstRemove
    <3>3. (AddIsLast(d)' <=> AddIsLast(d)) /\ (NoRemove(d)' <=> NoRemove(d))
      BY DEF AddIsLast, NoRemove
    <3>4. WillBeRight(d)'
      BY <2>1, <3>3 DEF Pending, WillBeRight
    <3> QED BY <3>1, <3>2, <3>4 DEF Pending
  <2>3. OneEach => OneEach'
    BY SameJoysticks
  <2>4. OnlyRemoves => OnlyRemoves'
    BY DEF OnlyRemoves
  <2> QED BY <1>3, <2>2, <2>3, <2>4 DEF Devs
<1> QED BY <1>1, <1>2, <1>3

\* onDeviceAdded.
LEMMA Added ==
    ASSUME Types, Indices, NEW d \in Devices, Becomes(onDeviceAdded(Current, d)),
           NEW n, n = Len(joysticks)
    PROVE  /\ n \in Nat /\ history' = history
           /\ d \notin plugged => UNCHANGED <<joysticks, takenGamepadLowId, gamepads>>
           /\ d \in plugged =>
                /\ takenGamepadLowId' = n + 1 /\ Len(joysticks') = n + 1
                /\ joysticks' \in Seq(Joystick) /\ \A k \in 1..n : joysticks'[k] = joysticks[k]
                /\ joysticks'[n + 1] = Opened(d, n)
                /\ gamepads' \in [0..n -> SUBSET Buttons] /\ gamepads'[n] = {}
                /\ \A i \in 0..(n - 1) : gamepads'[i] = gamepads[i]
<1>0. n \in Nat /\ joysticks \in Seq(Joystick)
  BY DEF Types
<1>1. CASE d \notin plugged
  BY <1>0, <1>1 DEF Becomes, onDeviceAdded, Current
<1>2. CASE d \in plugged
  <2> DEFINE js == Opened(d, n)
  <2>1. /\ joysticks' = Append(joysticks, js) /\ takenGamepadLowId' = n + 1 /\ history' = history
        /\ gamepads' = [i \in DOMAIN gamepads \cup {n} |->
                           IF i \in DOMAIN gamepads THEN gamepads[i] ELSE {}]
    BY <1>2 DEF Becomes, onDeviceAdded, Current, takeGamepadId, Indices
  <2>2. DOMAIN gamepads = 0..(n - 1) /\ \A i \in 0..(n - 1) : gamepads[i] \in SUBSET Buttons
    BY DEF Indices
  <2>3. /\ gamepads' \in [0..n -> SUBSET Buttons] /\ gamepads'[n] = {}
        /\ \A i \in 0..(n - 1) : gamepads'[i] = gamepads[i]
    <3>1. DOMAIN gamepads \cup {n} = 0..n /\ n \notin DOMAIN gamepads
      BY <2>2, <1>0
    <3> QED BY <2>1, <2>2, <3>1
  <2>4. js \in Joystick
    BY <1>0, OpenedIs
  <2> HIDE DEF js
  <2>5. /\ Len(joysticks') = n + 1 /\ joysticks' \in Seq(Joystick)
        /\ (\A k \in 1..n : joysticks'[k] = joysticks[k]) /\ joysticks'[n + 1] = js
    BY <1>0, <2>1, <2>4
  <2> QED BY <1>0, <1>2, <2>1, <2>3, <2>5 DEF js
<1> QED BY <1>1, <1>2

\* onDeviceRemoved, as long as the greatest index is put back first.
LEMMA Removed ==
    ASSUME Types, Indices, NEW d \in Devices, Becomes(onDeviceRemoved(Current, d)),
           history'.gap # TRUE, NEW n, n = Len(joysticks)
    PROVE  /\ n \in Nat /\ history' \in Happened
           /\ history'.early = history.early /\ history'.shadowed = history.shadowed
           /\ ~HasJoystick(d) => UNCHANGED <<joysticks, takenGamepadLowId, gamepads, history>>
           /\ HasJoystick(d) =>
                /\ n > 0 /\ joysticks[n].dev = d
                /\ (\A k \in 1..(n - 1) : joysticks[k].dev # d)
                /\ takenGamepadLowId' = n - 1 /\ Len(joysticks') = n - 1
                /\ joysticks' \in Seq(Joystick) /\ (\A k \in 1..(n - 1) : joysticks'[k] = joysticks[k])
                /\ gamepads' \in [0..(n - 2) -> SUBSET Buttons]
                /\ (\A i \in 0..(n - 2) : gamepads'[i] = gamepads[i])
                /\ history.spoiled \subseteq history'.spoiled
                /\ (gamepads[n - 1] # {} => n - 1 \in history'.spoiled)
<1>0. n \in Nat /\ joysticks \in Seq(Joystick) /\ history \in Happened
  BY DEF Types
<1> DEFINE I == {i \in 1..n : joysticks[i].dev = d}
           k == SelectInSeq(joysticks, LAMBDA js : js.dev = d)
<1>1. k = IF I # {} THEN Min(I) ELSE 0
  BY DEF SelectInSeq
<1>2. HasJoystick(d) <=> I # {}
  BY DEF HasJoystick
<1>3. CASE I = {}
  <2>1. k = 0
    BY <1>1, <1>3
  <2>2. onDeviceRemoved(Current, d) = Current
    <3> HIDE DEF k
    <3>1. SelectInSeq(Current.joysticks, LAMBDA js : js.dev = d) = 0
      BY <2>1 DEF k, Current
    <3> QED BY <3>1 DEF onDeviceRemoved
  <2>3. UNCHANGED <<joysticks, takenGamepadLowId, gamepads, history>>
    BY <2>2 DEF Becomes, Current
  <2> QED BY <1>0, <1>2, <1>3, <2>3
<1>4. CASE I # {}
  <2>1. k \in I /\ \A i \in I : k <= i
    <3>1. I \in SUBSET Nat
      BY <1>0
    <3>2. k = Min(I)
      BY <1>1, <1>4
    <3> HIDE DEF I, k
    <3>3. \E i \in I : \A j \in I : i <= j
      BY <1>4, <3>1, Least
    <3> QED BY <3>2, <3>3 DEF Min
  <2>2. k \in 1..n /\ joysticks[k].dev = d /\ \A i \in 1..(k - 1) : joysticks[i].dev # d
    <3> HIDE DEF k
    <3>1. k \in 1..n /\ joysticks[k].dev = d
      BY <2>1
    <3>2. ASSUME NEW i \in 1..(k - 1) PROVE joysticks[i].dev # d
      <4>1. i \in 1..n /\ ~(k <= i)
        BY <1>0, <3>1
      <4> QED BY <4>1, <2>1
    <3> QED BY <3>1, <3>2
  <2> DEFINE id == joysticks[k].id
  <2>3. onDeviceRemoved(Current, d) =
          [joysticks |-> RemoveAt(joysticks, k),
           low       |-> putGamepadIdBack(takenGamepadLowId, id),
           gamepads  |-> [i \in DOMAIN gamepads \ {id} |-> gamepads[i]],
           history   |-> [history EXCEPT
              !.gap     = @ \/ \E j \in DOMAIN joysticks : joysticks[j].id > id,
              !.spoiled = IF id \in DOMAIN gamepads /\ gamepads[id] # {}
                          THEN @ \cup {id} ELSE @]]
    <3>1. k # 0
      BY <2>2, <1>0
    <3> QED BY <3>1 DEF onDeviceRemoved, Current
  <2> HIDE DEF k
  <2>4. id = k - 1 /\ DOMAIN gamepads = 0..(n - 1) /\ takenGamepadLowId = n
        /\ (\A i \in 0..(n - 1) : gamepads[i] \in SUBSET Buttons) /\ id \in Nat
    BY <1>0, <2>2 DEF Indices
  <2> HIDE DEF id
  <2>5. /\ joysticks' = RemoveAt(joysticks, k)
        /\ takenGamepadLowId' = putGamepadIdBack(takenGamepadLowId, id)
        /\ gamepads' = [i \in DOMAIN gamepads \ {id} |-> gamepads[i]]
        /\ history' = [history EXCEPT
              !.gap     = @ \/ \E j \in DOMAIN joysticks : joysticks[j].id > id,
              !.spoiled = IF id \in DOMAIN gamepads /\ gamepads[id] # {}
                          THEN @ \cup {id} ELSE @]
    BY <2>3 DEF Becomes
  <2>6. /\ history' \in Happened /\ history'.early = history.early
        /\ history'.shadowed = history.shadowed
        /\ history'.spoiled = IF id \in DOMAIN gamepads /\ gamepads[id] # {}
                              THEN history.spoiled \cup {id} ELSE history.spoiled
        /\ ~ \E j \in DOMAIN joysticks : joysticks[j].id > id
    BY <1>0, <2>4, <2>5 DEF Happened
  <2>7. k = n
    <3>1. DOMAIN joysticks = 1..n /\ n \in 1..n
      BY <1>0, <2>2
    <3>2. joysticks[n].id = n - 1
      BY <3>1 DEF Indices
    <3>3. ~(n - 1 > id)
      BY <2>6, <3>1, <3>2
    <3> QED BY <3>3, <2>2, <2>4, <1>0
  <2>8. takenGamepadLowId' = n - 1
    BY <2>4, <2>5, <2>7, <1>0 DEF putGamepadIdBack
  <2>9. /\ Len(joysticks') = n - 1 /\ joysticks' \in Seq(Joystick)
        /\ \A i \in 1..(n - 1) : joysticks'[i] = joysticks[i]
    <3>1. joysticks' = SubSeq(joysticks, 1, n - 1) \o SubSeq(joysticks, n + 1, n)
      BY <2>5, <2>7 DEF RemoveAt
    <3>2. SubSeq(joysticks, n + 1, n) = <<>>
      BY <1>0
    <3>3. SubSeq(joysticks, 1, n - 1) \in Seq(Joystick) /\ Len(SubSeq(joysticks, 1, n - 1)) = n - 1
            /\ \A i \in 1..(n - 1) : SubSeq(joysticks, 1, n - 1)[i] = joysticks[i]
      BY <1>0, <2>2
    <3> QED BY <3>1, <3>2, <3>3
  <2>10. /\ gamepads' \in [0..(n - 2) -> SUBSET Buttons]
         /\ \A i \in 0..(n - 2) : gamepads'[i] = gamepads[i]
    <3>1. DOMAIN gamepads \ {id} = 0..(n - 2) /\ \A i \in 0..(n - 2) : i \in 0..(n - 1)
      BY <1>0, <2>2, <2>4, <2>7
    <3> QED BY <2>4, <2>5, <3>1
  <2>11. id \in DOMAIN gamepads /\ id = n - 1
    BY <1>0, <2>2, <2>4, <2>7
  <2> QED BY <1>0, <1>2, <1>4, <2>2, <2>6, <2>7, <2>8, <2>9, <2>10, <2>11
<1> QED BY <1>3, <1>4

\* A new event of a device that is plugged in or pulled out.
LEMMA Announced ==
    ASSUME NEW d \in Devices, udev \in Seq({"add", "remove"} \X Devices), SameDevs,
           OneEach /\ \A e \in Devices : Pending(e),
           \/ d \notin plugged /\ plugged' = plugged \cup {d} /\ udev' = Append(udev, <<"add", d>>)
           \/ d \in plugged /\ plugged' = plugged \ {d} /\ udev' = Append(udev, <<"remove", d>>)
    PROVE  OneEach' /\ \A e \in Devices : Pending(e)'
<1> DEFINE L == Len(udev)
           x == IF d \notin plugged THEN <<"add", d>> ELSE <<"remove", d>>
<1>1. /\ L \in Nat /\ Len(udev') = L + 1 /\ (\A i \in 1..L : udev'[i] = udev[i])
      /\ udev'[L + 1] = x
  <2>1. x \in {"add", "remove"} \X Devices /\ udev' = Append(udev, x)
    BY DEF x
  <2> HIDE DEF x
  <2> QED BY <2>1
<1>2. OneEach' /\ \A e : HasJoystick(e)' <=> HasJoystick(e)
  BY SameJoysticks
<1>3. \A i \in 1..(L + 1) : i \in 1..L \/ i = L + 1
  BY <1>1
<1>4. \A i \in 1..L : i \in 1..(L + 1) /\ i < L + 1 /\ ~(L + 1 < i)
  BY <1>1
<1> SUFFICES ASSUME NEW e \in Devices PROVE Pending(e)'
  BY <1>2
<1>5. Pending(e)
  OBVIOUS
<1> HIDE DEF L
<1>6. CASE e # d
  <2>1. x # <<"add", e>> /\ x # <<"remove", e>>
    BY <1>6 DEF x
  <2> HIDE DEF x
  <2>2. e \in plugged' <=> e \in plugged
    BY <1>6
  <2>3. Alternate(e)'
    <3> SUFFICES ASSUME NEW i \in 1..(L + 1), NEW j \in 1..(L + 1), i < j,
                        udev'[i] = <<"add", e>>, udev'[j] = <<"add", e>>
                 PROVE  \E m \in 1..(L + 1) : i < m /\ m < j /\ udev'[m] = <<"remove", e>>
      BY <1>1 DEF Alternate
    <3>1. i \in 1..L
      BY <1>1
    <3>2. j \in 1..L
      BY <1>1, <1>3, <2>1
    <3>3. PICK m \in 1..L : i < m /\ m < j /\ udev[m] = <<"remove", e>>
      BY <1>1, <1>5, <3>1, <3>2 DEF Pending, Alternate, L
    <3> QED BY <1>1, <1>4, <3>3
  <2>4. FirstRemove(e)'
    BY <1>1, <1>2, <1>3, <1>4, <1>5, <2>1 DEF Pending, FirstRemove, L
  <2>5. (AddIsLast(e)' <=> AddIsLast(e)) /\ (NoRemove(e)' <=> NoRemove(e))
    BY <1>1, <1>3, <1>4, <2>1 DEF AddIsLast, NoRemove, L
  <2>6. WillBeRight(e)'
    BY <1>2, <1>5, <2>2, <2>5 DEF Pending, WillBeRight
  <2> QED BY <2>3, <2>4, <2>6 DEF Pending
<1>7. CASE e = d /\ d \notin plugged
  <2>1. x = <<"add", e>> /\ x # <<"remove", e>> /\ e \in plugged'
    BY <1>7 DEF x
  <2> HIDE DEF x
  <2>2. ~AddIsLast(e) /\ (HasJoystick(e) => ~NoRemove(e))
    BY <1>5, <1>7 DEF Pending, WillBeRight
  <2>3. Alternate(e)'
    <3> SUFFICES ASSUME NEW i \in 1..(L + 1), NEW j \in 1..(L + 1), i < j,
                        udev'[i] = <<"add", e>>, udev'[j] = <<"add", e>>
                 PROVE  \E m \in 1..(L + 1) : i < m /\ m < j /\ udev'[m] = <<"remove", e>>
      BY <1>1 DEF Alternate
    <3>1. i \in 1..L
      BY <1>1
    <3>2. CASE j \in 1..L
      <4>1. PICK m \in 1..L : i < m /\ m < j /\ udev[m] = <<"remove", e>>
        BY <1>1, <1>5, <3>1, <3>2 DEF Pending, Alternate, L
      <4> QED BY <1>1, <1>4, <4>1
    <3>3. CASE j = L + 1
      <4>1. PICK m \in 1..L : i < m /\ udev[m] = <<"remove", e>>
        BY <1>1, <2>2, <3>1 DEF AddIsLast, L
      <4> QED BY <1>1, <1>4, <3>3, <4>1
    <3> QED BY <1>3, <3>2, <3>3
  <2>4. FirstRemove(e)'
    BY <1>1, <1>2, <1>3, <1>4, <1>5, <2>1, <2>2 DEF Pending, FirstRemove, NoRemove, L
  <2>5. AddIsLast(e)'
    BY <1>1, <1>3, <1>4, <2>1 DEF AddIsLast, L
  <2>6. WillBeRight(e)'
    BY <2>1, <2>5 DEF WillBeRight
  <2> QED BY <2>3, <2>4, <2>6 DEF Pending
<1>8. CASE e = d /\ d \in plugged
  <2>1. x = <<"remove", e>> /\ x # <<"add", e>> /\ e \notin plugged'
    BY <1>8 DEF x
  <2> HIDE DEF x
  <2>3. Alternate(e)'
    <3> SUFFICES ASSUME NEW i \in 1..(L + 1), NEW j \in 1..(L + 1), i < j,
                        udev'[i] = <<"add", e>>, udev'[j] = <<"add", e>>
                 PROVE  \E m \in 1..(L + 1) : i < m /\ m < j /\ udev'[m] = <<"remove", e>>
      BY <1>1 DEF Alternate
    <3>1. i \in 1..L
      BY <1>1
    <3>2. j \in 1..L
      BY <1>1, <1>3, <2>1
    <3>3. PICK m \in 1..L : i < m /\ m < j /\ udev[m] = <<"remove", e>>
      BY <1>1, <1>5, <3>1, <3>2 DEF Pending, Alternate, L
    <3> QED BY <1>1, <1>4, <3>3
  <2>4. FirstRemove(e)'
    BY <1>1, <1>2, <1>3, <1>4, <1>5, <2>1 DEF Pending, FirstRemove, L
  <2>5. ~AddIsLast(e)' /\ ~NoRemove(e)'
    BY <1>1, <1>3, <1>4, <2>1, SMTT(60) DEF AddIsLast, NoRemove, L
  <2>6. WillBeRight(e)'
    BY <2>1, <2>5 DEF WillBeRight
  <2> QED BY <2>3, <2>4, <2>6 DEF Pending
<1> QED BY <1>6, <1>7, <1>8

\* The first event of the monitor is handled: the others are still as they must be.
LEMMA ReadEvent ==
    ASSUME NEW d \in Devices, udev \in Seq({"add", "remove"} \X Devices), udev # <<>>,
           Len(udev') = Len(udev) - 1, \A i \in 1..(Len(udev) - 1) : udev'[i] = udev[i + 1],
           plugged' = plugged, \A e \in Devices : Pending(e),
           \A e \in Devices \ {d} : HasJoystick(e)' <=> HasJoystick(e),
           \/ /\ Head(udev) = <<"add", d>>
              /\ (d \in plugged => HasJoystick(d)')
              /\ (d \notin plugged => (HasJoystick(d)' <=> HasJoystick(d)))
           \/ Head(udev) = <<"remove", d>> /\ ~HasJoystick(d)'
    PROVE  \A e \in Devices : Pending(e)'
<1> DEFINE L == Len(udev)
           x == udev[1]
<1>1. /\ L \in Nat /\ L >= 1 /\ Len(udev') = L - 1
      /\ (\A i \in 1..(L - 1) : udev'[i] = udev[i + 1]) /\ x = Head(udev)
  OBVIOUS
<1>2. \A i \in 1..(L - 1) : i + 1 \in 1..L /\ 1 < i + 1 /\ 1 \in 1..L
  BY <1>1
<1>3. \A i \in 1..L : i = 1 \/ (i - 1 \in 1..(L - 1) /\ (i - 1) + 1 = i)
  BY <1>1
<1>4. \A i \in 1..L : i # 1 => udev'[i - 1] = udev[i]
  BY <1>1, <1>3
<1> SUFFICES ASSUME NEW e \in Devices PROVE Pending(e)'
  OBVIOUS
<1>5. Pending(e)
  OBVIOUS
<1> HIDE DEF L
\* What is behind the first event stays as it is.
<1>6. Alternate(e)'
  <2>0. Len(udev') = L - 1
    BY <1>1
  <2>1. ASSUME NEW i \in 1..(L - 1), NEW j \in 1..(L - 1), i < j,
               udev'[i] = <<"add", e>>, udev'[j] = <<"add", e>>
        PROVE  \E m \in 1..(L - 1) : i < m /\ m < j /\ udev'[m] = <<"remove", e>>
    <3>1. i + 1 \in 1..L /\ j + 1 \in 1..L /\ i + 1 < j + 1
      BY <1>1, <2>1
    <3>2. PICK m \in 1..L : i + 1 < m /\ m < j + 1 /\ udev[m] = <<"remove", e>>
      BY <1>1, <1>5, <2>1, <3>1, ZenonT(60) DEF Pending, Alternate, L
    <3>3. m - 1 \in 1..(L - 1) /\ i < m - 1 /\ m - 1 < j /\ m # 1
      BY <1>1, <3>2
    <3> QED BY <1>4, <3>2, <3>3
  <2> QED BY <2>0, <2>1 DEF Alternate
<1>7. AddIsLast(e)' => AddIsLast(e)
  <2> SUFFICES ASSUME AddIsLast(e)' PROVE AddIsLast(e)
    OBVIOUS
  <2>1. PICK i \in 1..(L - 1) : /\ udev'[i] = <<"add", e>>
                                /\ \A m \in 1..(L - 1) : i < m => udev'[m] # <<"remove", e>>
    BY <1>1 DEF AddIsLast
  <2>2. i + 1 \in 1..L /\ udev[i + 1] = <<"add", e>>
    BY <1>1, <1>2, <2>1
  <2>3. ASSUME NEW m \in 1..L, i + 1 < m PROVE udev[m] # <<"remove", e>>
    <3>1. m # 1 /\ m - 1 \in 1..(L - 1) /\ i < m - 1
      BY <1>1, <2>3
    <3> QED BY <1>4, <2>1, <3>1
  <2> QED BY <2>2, <2>3 DEF AddIsLast, L
<1>8. ASSUME NEW i \in 1..L, i # 1, udev[i] = <<"add", e>>,
             \A m \in 1..L : i < m => udev[m] # <<"remove", e>>
      PROVE  AddIsLast(e)'
  <2>1. i - 1 \in 1..(L - 1) /\ udev'[i - 1] = <<"add", e>>
    BY <1>3, <1>4, <1>8
  <2>2. ASSUME NEW m \in 1..(L - 1), i - 1 < m PROVE udev'[m] # <<"remove", e>>
    <3>1. m + 1 \in 1..L /\ i < m + 1
      BY <1>1, <2>2
    <3>2. udev[m + 1] # <<"remove", e>>
      BY <1>8, <3>1
    <3> QED BY <1>1, <3>2
  <2> QED BY <1>1, <2>1, <2>2 DEF AddIsLast
<1>9. ASSUME x # <<"remove", e>> PROVE NoRemove(e)' <=> NoRemove(e)
  <2>0. Len(udev') = L - 1
    BY <1>1
  <2>1. ASSUME NoRemove(e)', NEW i \in 1..L PROVE udev[i] # <<"remove", e>>
    <3>1. CASE i = 1
      BY <1>9, <3>1
    <3>2. CASE i # 1
      <4>1. i - 1 \in 1..(L - 1) /\ udev'[i - 1] = udev[i]
        BY <1>3, <1>4, <3>2
      <4> QED BY <2>0, <2>1, <4>1 DEF NoRemove
    <3> QED BY <3>1, <3>2
  <2>2. ASSUME NoRemove(e), NEW i \in 1..(L - 1) PROVE udev'[i] # <<"remove", e>>
    BY <1>1, <1>2, <2>2 DEF NoRemove, L
  <2> QED BY <2>0, <2>1, <2>2 DEF NoRemove, L
<1>10. CASE e # d
  <2>1. x # <<"add", e>> /\ x # <<"remove", e>>
    BY <1>1, <1>10
  <2>2. HasJoystick(e)' <=> HasJoystick(e)
    BY <1>10
  <2>3. FirstRemove(e)'
    <3> SUFFICES ASSUME NEW j \in 1..(L - 1), HasJoystick(e), udev'[j] = <<"add", e>>
                 PROVE  \E m \in 1..(L - 1) : m < j /\ udev'[m] = <<"remove", e>>
      BY <1>1, <2>2 DEF FirstRemove
    <3>1. j + 1 \in 1..L /\ udev[j + 1] = <<"add", e>>
      BY <1>1, <1>2
    <3>2. PICK m \in 1..L : m < j + 1 /\ udev[m] = <<"remove", e>>
      BY <1>5, <3>1 DEF Pending, FirstRemove, L
    <3>3. m # 1 /\ m - 1 \in 1..(L - 1) /\ m - 1 < j
      BY <1>1, <2>1, <3>2
    <3> QED BY <1>4, <3>2, <3>3
  <2>4. AddIsLast(e) => AddIsLast(e)'
    BY <1>8, <2>1 DEF AddIsLast, L
  <2>5. WillBeRight(e)'
    BY <1>5, <1>7, <1>9, <2>1, <2>2, <2>4 DEF Pending, WillBeRight
  <2> QED BY <1>6, <2>3, <2>5 DEF Pending
<1>11. CASE e = d /\ x = <<"add", d>>
  <2>1. ~HasJoystick(e)
    <3>1. HasJoystick(e) => \E m \in 1..L : m < 1 /\ udev[m] = <<"remove", e>>
      BY <1>1, <1>5, <1>11 DEF Pending, FirstRemove, L
    <3> QED BY <3>1, <1>1
  <2>2. x # <<"remove", e>>
    BY <1>11
  <2>3. (d \in plugged => HasJoystick(d)') /\ (d \notin plugged => ~HasJoystick(d)')
    BY <1>1, <1>11, <2>1, <2>2
  <2>4. FirstRemove(e)'
    <3> SUFFICES ASSUME NEW j \in 1..(L - 1), udev'[j] = <<"add", e>>
                 PROVE  \E m \in 1..(L - 1) : m < j /\ udev'[m] = <<"remove", e>>
      BY <1>1 DEF FirstRemove
    <3>1. j + 1 \in 1..L /\ udev[j + 1] = <<"add", e>> /\ 1 < j + 1 /\ 1 \in 1..L
      BY <1>1, <1>2
    <3>2. PICK m \in 1..L : 1 < m /\ m < j + 1 /\ udev[m] = <<"remove", e>>
      BY <1>5, <1>11, <3>1 DEF Pending, Alternate, L
    <3>3. m # 1 /\ m - 1 \in 1..(L - 1) /\ m - 1 < j
      BY <1>1, <3>2
    <3> QED BY <1>4, <3>2, <3>3
  <2>5. ASSUME d \in plugged PROVE AddIsLast(e)' \/ NoRemove(e)'
    <3>1. AddIsLast(e)
      BY <1>5, <1>11, <2>1, <2>5 DEF Pending, WillBeRight
    <3>2. PICK i \in 1..L : /\ udev[i] = <<"add", e>>
                            /\ \A m \in 1..L : i < m => udev[m] # <<"remove", e>>
      BY <3>1 DEF AddIsLast, L
    <3>3. CASE i = 1
      BY <1>1, <1>2, <3>2, <3>3 DEF NoRemove
    <3>4. CASE i # 1
      BY <1>8, <3>2, <3>4
    <3> QED BY <3>3, <3>4
  <2>6. WillBeRight(e)'
    BY <1>5, <1>7, <1>11, <2>3, <2>5 DEF Pending, WillBeRight
  <2> QED BY <1>6, <2>4, <2>6 DEF Pending
<1>12. CASE e = d /\ x = <<"remove", d>>
  <2>1. ~HasJoystick(e)'
    <3>1. Head(udev) # <<"add", d>>
      BY <1>1, <1>12
    <3> QED BY <3>1, <1>12
  <2>2. ~NoRemove(e) /\ x # <<"add", e>>
    BY <1>1, <1>12 DEF NoRemove, L
  <2>3. FirstRemove(e)'
    BY <2>1 DEF FirstRemove
  <2>4. AddIsLast(e) => AddIsLast(e)'
    BY <1>8, <2>2 DEF AddIsLast, L
  <2>5. WillBeRight(e)'
    BY <1>5, <1>7, <2>1, <2>2, <2>4 DEF Pending, WillBeRight
  <2> QED BY <1>6, <2>3, <2>5 DEF Pending
<1> QED BY <1>1, <1>10, <1>11, <1>12

\* The inductive invariant of DevicesMatch.
DInv == Sound \/ (~Unread /\ history.gap = TRUE /\ "gap" \in DOMAIN history)

Places == {At("start"), At("scan"), At("poll"), At("udev")} \cup ({"joystick"} \X (Nat \ {0}))

\* Initially nothing was enumerated and nothing is to be read.
LEMMA InitSound == PadInit => Sound
<1> SUFFICES ASSUME PadInit PROVE Sound
  OBVIOUS
<1>0. Cardinality(Devices) \in Nat /\ MaxEvents \in Nat
  BY PadAssumption, FS_CardinalityType
<1>1. Types
  <2>1. history \in Happened
    BY DEF PadInit, NoHistory, Happened
  <2>2. view \in [Ids -> SUBSET Buttons]
    BY DEF PadInit
  <2> QED BY <1>0, <2>1, <2>2 DEF PadInit, Types
<1>2. joysticks = <<>> /\ udev = <<>> /\ gamepads = <<>> /\ takenGamepadLowId = 0 /\ events = 0
      /\ Len(joysticks) = 0 /\ Len(udev) = 0 /\ looper = At("start")
  BY DEF PadInit
<1>3. Indices
  <2>1. gamepads \in [0..(0 - 1) -> SUBSET Buttons]
    <3>1. 0..(0 - 1) = {}
      OBVIOUS
    <3> QED BY <1>2, <3>1
  <2> QED BY <1>2, <2>1 DEF Indices
<1>4. Count
  BY <1>0, <1>2 DEF Count
<1>5. Devs
  BY <1>2 DEF Devs, OnlyRemoves, Unread
<1> QED BY <1>1, <1>3, <1>4, <1>5 DEF Sound

\* A step that leaves the devices, the joysticks and the indices alone.
LEMMA QuietStep ==
    ASSUME Sound, UNCHANGED <<plugged, udev, takenGamepadLowId>>, SameDevs,
           gamepads' \in [0..(Len(joysticks) - 1) -> SUBSET Buttons], joysticks' \in Seq(Joystick),
           keyEvents' \in Seq(Ids \X BOOLEAN), motionEvents' \in Seq(Ids),
           view' \in [Ids -> SUBSET Buttons], needsQueueGamepadInput' \in BOOLEAN,
           looper' \in Places, Unread' <=> Unread, looper' = At("start") => looper = At("start"),
           events' \in Nat, events <= events', events' <= MaxEvents,
           history' \in Happened, history'.early = history.early
    PROVE  Sound'
<1>1. Indices' /\ Count' /\ (history'.early = TRUE \/ Devs')
  BY QuietDevices DEF Sound
<1>2. Types'
  BY DEF Sound, Types, Places
<1> QED BY <1>1, <1>2 DEF Sound

\* A device is plugged in.
LEMMA PlugStep == ASSUME Sound, NEW d \in Devices, Plug(d) PROVE Sound'
<1>0. /\ Len(udev) \in Nat /\ events \in Nat /\ Cardinality(Devices) \in Nat /\ MaxEvents \in Nat
      /\ joysticks \in Seq(Joystick) /\ udev \in Seq({"add", "remove"} \X Devices)
      /\ history \in Happened /\ Len(joysticks) \in Nat
  BY PadAssumption, FS_CardinalityType DEF Sound, Types
<1>1. /\ d \notin plugged /\ plugged' = plugged \cup {d} /\ events' = events + 1
      /\ events < MaxEvents
      /\ udev' = IF looper = At("start") THEN udev ELSE Append(udev, <<"add", d>>)
      /\ UNCHANGED <<joysticks, takenGamepadLowId, gamepads, keyEvents, motionEvents, view,
                     needsQueueGamepadInput, looper>>
  BY DEF Plug, manager, queue
<1>2. history' \in Happened
      /\ (history'.early # TRUE => history.early # TRUE /\ looper # At("scan"))
  BY <1>0 DEF Plug, Happened
<1>3. udev' \in Seq({"add", "remove"} \X Devices) /\ Len(udev') <= Len(udev) + 1
        /\ Len(udev') \in Nat
  BY <1>0, <1>1
<1>4. Types'
  BY <1>0, <1>1, <1>2, <1>3 DEF Sound, Types
<1>5. Indices'
  BY <1>1 DEF Sound, Indices
<1>6. Count'
  <2>1. (Unread' <=> Unread) /\ joysticks' = joysticks
    BY <1>1 DEF Unread
  <2>2. /\ Unread => joysticks = <<>> /\ Len(udev) <= events
        /\ Len(joysticks) + Len(udev) <= Cardinality(Devices) + events
    BY DEF Sound, Count
  <2>3. /\ Unread' => joysticks' = <<>> /\ Len(udev') <= events'
    BY <1>0, <1>1, <1>3, <2>1, <2>2
  <2>4. Len(joysticks') + Len(udev') <= Cardinality(Devices) + events'
    BY <1>0, <1>1, <1>3, <2>1, <2>2
  <2> QED BY <2>3, <2>4 DEF Count
<1>7. ASSUME history'.early # TRUE PROVE Devs'
  <2>1. Devs /\ looper # At("scan") /\ looper' = looper
    BY <1>1, <1>2, <1>7 DEF Sound
  <2>2. CASE looper = At("start")
    <3>1. udev' = <<>>
      BY <1>1, <2>1, <2>2 DEF Devs, Unread
    <3>2. Unread'
      BY <2>1, <2>2 DEF Unread
    <3>3. OnlyRemoves'
      BY <3>1 DEF OnlyRemoves
    <3> QED BY <3>1, <3>2, <3>3 DEF Devs
  <2>3. CASE looper # At("start")
    <3>1. ~Unread /\ ~Unread'
      BY <2>1, <2>3 DEF Unread
    <3>2. SameDevs
      BY <1>1 DEF SameDevs
    <3>3. OneEach' /\ \A e \in Devices : Pending(e)'
      BY <1>0, <1>1, <2>1, <2>3, <3>1, <3>2, Announced DEF Devs
    <3> QED BY <3>1, <3>3 DEF Devs
  <2> QED BY <2>2, <2>3
<1> QED BY <1>4, <1>5, <1>6, <1>7 DEF Sound

\* The joysticks with other buffers and buttons.
LEMMA JoysticksUpdated ==
    ASSUME joysticks \in Seq(Joystick), joysticks' \in [DOMAIN joysticks -> Joystick],
           \A k \in 1..Len(joysticks) : joysticks'[k].dev = joysticks[k].dev
                                        /\ joysticks'[k].id = joysticks[k].id
    PROVE  joysticks' \in Seq(Joystick) /\ SameDevs
<1> DEFINE n == Len(joysticks)
<1>1. n \in Nat /\ DOMAIN joysticks = 1..n
  OBVIOUS
<1>2. joysticks' \in [1..n -> Joystick]
  BY <1>1
<1>3. joysticks' \in Seq(Joystick) /\ Len(joysticks') = n
  BY <1>1, <1>2
<1> QED BY <1>3 DEF SameDevs

\* A joystick with another buffer.
LEMMA OtherBuffer ==
    ASSUME NEW j \in Joystick, NEW b \in Seq(Event)
    PROVE  /\ [j EXCEPT !.buffer = b] \in Joystick
           /\ [j EXCEPT !.buffer = b].dev = j.dev /\ [j EXCEPT !.buffer = b].id = j.id
           /\ [j EXCEPT !.buffer = b].down = j.down /\ [j EXCEPT !.buffer = b].buffer = b
           /\ [j EXCEPT !.buffer = b].known = j.known /\ [j EXCEPT !.buffer = b].hat = j.hat
BY DEF Joystick

\* The joysticks are joysticks, and their indices are natural numbers.
LEMMA AllJoysticks ==
    ASSUME joysticks \in Seq(Joystick)
    PROVE  \A j \in ToSet(joysticks) : j \in Joystick /\ j.id \in Nat
<1>1. \A j \in ToSet(joysticks) : j \in Joystick
  BY DEF ToSet
<1> QED BY <1>1 DEF Joystick

\* The joysticks of a device that is pulled out.
LEMMA UnplugJoysticks ==
    ASSUME joysticks \in Seq(Joystick), NEW d \in Devices, Unplug(d)
    PROVE  joysticks' \in Seq(Joystick) /\ SameDevs
<1>1. joysticks' = [k \in DOMAIN joysticks |->
                       IF joysticks[k].dev = d THEN [joysticks[k] EXCEPT !.buffer = <<>>]
                       ELSE joysticks[k]]
  BY DEF Unplug
<1>2. \A j \in Joystick : /\ [j EXCEPT !.buffer = <<>>] \in Joystick
                          /\ [j EXCEPT !.buffer = <<>>].dev = j.dev
                          /\ [j EXCEPT !.buffer = <<>>].id = j.id
  <2>1. <<>> \in Seq(Event)
    OBVIOUS
  <2> QED BY <2>1, OtherBuffer
<1>3. \A k \in DOMAIN joysticks : joysticks[k] \in Joystick
  OBVIOUS
<1>4. joysticks' \in [DOMAIN joysticks -> Joystick]
  BY <1>1, <1>2, <1>3
<1>5. \A k \in 1..Len(joysticks) : joysticks'[k].dev = joysticks[k].dev
                                   /\ joysticks'[k].id = joysticks[k].id
  BY <1>1, <1>2, <1>3
<1> QED BY <1>4, <1>5, JoysticksUpdated

\* What the kernel stores for a reader.
LEMMA StoredIsJoystick ==
    ASSUME NEW j \in Joystick, NEW e \in Report
    PROVE  /\ Stored(j, e) \in Joystick
           /\ Stored(j, e).dev = j.dev /\ Stored(j, e).id = j.id /\ Stored(j, e).hat = j.hat
           /\ Stored(j, e).down = (j.down \ e[1]) \cup e[2]
           /\ Stored(j, e).known = j.known \cup e[1]
           /\ Stored(j, e).buffer =
                 IF Len(j.buffer) < EvdevLimit THEN Append(j.buffer, e) ELSE <<Dropped>>
<1> DEFINE dn == (j.down \ e[1]) \cup e[2]
           kn == j.known \cup e[1]
           bf == IF Len(j.buffer) < EvdevLimit THEN Append(j.buffer, e) ELSE <<Dropped>>
<1>1. dn \in SUBSET Buttons /\ kn \in SUBSET Buttons
  <2>1. j.down \in SUBSET Buttons /\ j.known \in SUBSET Buttons
    BY DEF Joystick
  <2>2. e[1] \subseteq Buttons /\ e[2] \subseteq Buttons
    BY ReportIs
  <2> QED BY <2>1, <2>2
<1>2. bf \in Seq(Event)
  <2>1. e \in Event /\ Dropped \in Event /\ j.buffer \in Seq(Event)
    BY DEF Joystick, Event
  <2> HIDE DEF bf
  <2>2. Append(j.buffer, e) \in Seq(Event)
    BY <2>1
  <2>3. <<Dropped>> \in Seq(Event)
    BY <2>1
  <2> QED BY <2>2, <2>3 DEF bf
<1>3. Stored(j, e) = [j EXCEPT !.down = dn, !.known = kn, !.buffer = bf]
  BY DEF Stored
<1> HIDE DEF dn, kn, bf
<1> DEFINE new == [j EXCEPT !.down = dn, !.known = kn, !.buffer = bf]
<1>4. new \in Joystick
  BY <1>1, <1>2 DEF Joystick
<1>5. /\ new.dev = j.dev /\ new.id = j.id /\ new.hat = j.hat
      /\ new.down = dn /\ new.known = kn /\ new.buffer = bf
  BY DEF Joystick
<1> HIDE DEF new
<1>6. Stored(j, e) = new
  BY <1>3 DEF new
<1> QED BY <1>4, <1>5, <1>6 DEF dn, kn, bf

\* The joysticks of a device that reports a button.
LEMMA ChangeJoysticks ==
    ASSUME joysticks \in Seq(Joystick), NEW d \in Devices, NEW e \in Report, Change(d, e)
    PROVE  joysticks' \in Seq(Joystick) /\ SameDevs
<1>1. joysticks' = [k \in DOMAIN joysticks |->
                       IF joysticks[k].dev = d THEN Stored(joysticks[k], e)
                       ELSE joysticks[k]]
  BY DEF Change
<1>3. \A k \in DOMAIN joysticks : joysticks[k] \in Joystick
  OBVIOUS
<1>4. joysticks' \in [DOMAIN joysticks -> Joystick]
  BY <1>1, <1>3, StoredIsJoystick
<1>5. \A k \in 1..Len(joysticks) : joysticks'[k].dev = joysticks[k].dev
                                   /\ joysticks'[k].id = joysticks[k].id
  <2> SUFFICES ASSUME NEW k \in 1..Len(joysticks)
               PROVE  joysticks'[k].dev = joysticks[k].dev /\ joysticks'[k].id = joysticks[k].id
    OBVIOUS
  <2>1. k \in DOMAIN joysticks /\ joysticks[k] \in Joystick
    BY <1>3
  <2> DEFINE js == joysticks[k]
  <2>2. joysticks'[k] = IF js.dev = d THEN Stored(js, e) ELSE js
    BY <1>1, <2>1
  <2>3. js \in Joystick
    BY <2>1
  <2> HIDE DEF js
  <2>4. Stored(js, e).dev = js.dev /\ Stored(js, e).id = js.id
    BY <2>3, StoredIsJoystick, ZenonT(60)
  <2>5. joysticks'[k].dev = js.dev /\ joysticks'[k].id = js.id
    BY <2>2, <2>4
  <2> QED BY <2>5 DEF js
<1> QED BY <1>4, <1>5, JoysticksUpdated

\* A device is pulled out.
LEMMA UnplugStep == ASSUME Sound, NEW d \in Devices, Unplug(d) PROVE Sound'
<1>0. /\ Len(udev) \in Nat /\ events \in Nat /\ Cardinality(Devices) \in Nat /\ MaxEvents \in Nat
      /\ joysticks \in Seq(Joystick) /\ udev \in Seq({"add", "remove"} \X Devices)
      /\ history \in Happened /\ Len(joysticks) \in Nat
  BY PadAssumption, FS_CardinalityType DEF Sound, Types
<1>1. /\ d \in plugged /\ plugged' = plugged \ {d} /\ events' = events + 1
      /\ events < MaxEvents
      /\ udev' = IF looper = At("start") THEN udev ELSE Append(udev, <<"remove", d>>)
      /\ UNCHANGED <<takenGamepadLowId, gamepads, keyEvents, motionEvents, view,
                     needsQueueGamepadInput, looper>>
  BY DEF Unplug, queue
<1>2. joysticks' \in Seq(Joystick) /\ SameDevs
  BY <1>0, UnplugJoysticks
<1>3. history' \in Happened /\ history'.early = history.early
  <2> DEFINE s == {js.id : js \in {j \in ToSet(joysticks) : j.dev = d /\ j.buffer # <<>>}}
  <2>1. s \in SUBSET Nat
    <3>1. \A j \in ToSet(joysticks) : j.id \in Nat
      BY <1>0, AllJoysticks
    <3> QED BY <3>1
  <2>2. history' = [history EXCEPT !.spoiled = @ \cup s]
    BY DEF Unplug
  <2> HIDE DEF s
  <2> QED BY <1>0, <2>1, <2>2 DEF Happened
<1>4. udev' \in Seq({"add", "remove"} \X Devices) /\ Len(udev') <= Len(udev) + 1
        /\ Len(udev') \in Nat
  BY <1>0, <1>1
<1>5. Types'
  BY <1>0, <1>1, <1>2, <1>3, <1>4 DEF Sound, Types
<1>6. Indices'
  BY <1>1, <1>2 DEF Sound, Indices, SameDevs
<1>7. Count'
  <2>1. (Unread' <=> Unread) /\ Len(joysticks') = Len(joysticks)
    BY <1>1, <1>2 DEF Unread, SameDevs
  <2>2. /\ Unread => joysticks = <<>> /\ Len(udev) <= events
        /\ Len(joysticks) + Len(udev) <= Cardinality(Devices) + events
    BY DEF Sound, Count
  <2>3. joysticks = <<>> => joysticks' = <<>>
    BY <1>2, <2>1
  <2>4. Unread' => joysticks' = <<>> /\ Len(udev') <= events'
    BY <1>0, <1>1, <1>4, <2>1, <2>2, <2>3
  <2>5. Len(joysticks') + Len(udev') <= Cardinality(Devices) + events'
    BY <1>0, <1>1, <1>4, <2>1, <2>2
  <2> QED BY <2>4, <2>5 DEF Count
<1>8. ASSUME Devs PROVE Devs'
  <2>1. looper' = looper /\ (Unread' <=> Unread)
    BY <1>1 DEF Unread
  <2>2. CASE Unread
    <3>1. OnlyRemoves /\ (looper = At("start") => udev = <<>>)
      BY <1>8, <2>2 DEF Devs
    <3>2. looper' = At("start") => udev' = <<>>
      BY <1>1, <2>1, <3>1
    <3>3. OnlyRemoves'
      <4>1. CASE looper = At("start")
        BY <2>1, <3>2, <4>1 DEF OnlyRemoves
      <4>2. CASE looper # At("start")
        <5> DEFINE x == <<"remove", d>>
        <5>1. x[1] = "remove" /\ x[2] = d /\ x \in {"add", "remove"} \X Devices
          OBVIOUS
        <5>2. udev' = Append(udev, x)
          BY <1>1, <4>2
        <5> HIDE DEF x
        <5>3. Len(udev') = Len(udev) + 1 /\ udev'[Len(udev) + 1] = x
                /\ \A i \in 1..Len(udev) : udev'[i] = udev[i]
          BY <1>0, <5>1, <5>2
        <5>4. ASSUME NEW i \in 1..(Len(udev) + 1)
              PROVE  udev'[i][1] = "remove" /\ udev'[i][2] \notin plugged'
          <6>1. CASE i = Len(udev) + 1
            BY <1>1, <5>1, <5>3, <6>1
          <6>2. CASE i # Len(udev) + 1
            <7>1. i \in 1..Len(udev)
              BY <1>0, <6>2
            <7> QED BY <1>1, <3>1, <5>3, <7>1 DEF OnlyRemoves
          <6> QED BY <6>1, <6>2
        <5> QED BY <5>3, <5>4 DEF OnlyRemoves
      <4> QED BY <4>1, <4>2
    <3> QED BY <2>1, <2>2, <3>2, <3>3 DEF Devs
  <2>3. CASE ~Unread
    <3>1. looper # At("start")
      BY <2>3 DEF Unread
    <3>2. OneEach' /\ \A e \in Devices : Pending(e)'
      BY <1>0, <1>1, <1>2, <1>8, <2>3, <3>1, Announced DEF Devs
    <3> QED BY <2>1, <2>3, <3>2 DEF Devs
  <2> QED BY <2>2, <2>3
<1> QED BY <1>3, <1>5, <1>6, <1>7, <1>8 DEF Sound

\* A device reports a button.
LEMMA ChangeStep ==
    ASSUME Sound, NEW d \in Devices, NEW e \in Report, Change(d, e)
    PROVE  Sound'
<1>0. events \in Nat /\ MaxEvents \in Nat /\ joysticks \in Seq(Joystick) /\ history \in Happened
  BY PadAssumption DEF Sound, Types
<1>1. /\ events' = events + 1 /\ events < MaxEvents
      /\ UNCHANGED <<plugged, udev, takenGamepadLowId, gamepads, keyEvents, motionEvents, view,
                     needsQueueGamepadInput, looper>>
  BY DEF Change, queue, device
<1>2. joysticks' \in Seq(Joystick) /\ SameDevs
  BY <1>0, ChangeJoysticks
<1>3. history' \in Happened /\ history'.early = history.early
  <2> DEFINE s == {js.id : js \in {j \in ToSet(joysticks) :
                                      j.dev = d /\ Len(j.buffer) = EvdevLimit}}
  <2>1. s \in SUBSET Nat
    <3>1. \A j \in ToSet(joysticks) : j.id \in Nat
      BY <1>0, AllJoysticks
    <3> QED BY <3>1
  <2>2. history' = [history EXCEPT !.spoiled = @ \cup s]
    BY DEF Change
  <2> HIDE DEF s
  <2> QED BY <1>0, <2>1, <2>2 DEF Happened
<1>4. Unread' <=> Unread
  BY <1>1 DEF Unread
<1>5. /\ gamepads' \in [0..(Len(joysticks) - 1) -> SUBSET Buttons]
      /\ keyEvents' \in Seq(Ids \X BOOLEAN) /\ motionEvents' \in Seq(Ids)
      /\ view' \in [Ids -> SUBSET Buttons] /\ needsQueueGamepadInput' \in BOOLEAN
      /\ looper' \in Places /\ events' \in Nat /\ events <= events' /\ events' <= MaxEvents
  BY <1>0, <1>1 DEF Sound, Types, Indices, Places
<1> QED BY <1>1, <1>2, <1>3, <1>4, <1>5, QuietStep

\* The enumeration reaches every device once.
LEMMA OrderIsOnto ==
    ASSUME IsFiniteSet(plugged), NEW order \in SetToSeqs(plugged), NEW n, n = Cardinality(plugged)
    PROVE  /\ n \in Nat /\ order \in [1..n -> plugged]
           /\ \A i, j \in 1..n : order[i] = order[j] => i = j
           /\ \A d \in plugged : \E i \in 1..n : order[i] = d
<1>1. /\ n \in Nat /\ order \in [1..n -> plugged]
      /\ \A i, j \in 1..n : order[i] = order[j] => i = j
  BY FS_CardinalityType DEF SetToSeqs
<1> DEFINE D == 1..n
<1>2. IsFiniteSet(D) /\ Cardinality(D) = n
  BY <1>1, FS_Interval
<1>3. order \in [D -> plugged] /\ \A i, j \in D : order[i] = order[j] => i = j
  BY <1>1
<1> HIDE DEF D
<1>4. order \in Injection(D, plugged)
  BY <1>3 DEF Injection, IsInjective
<1>5. order \in Surjection(D, plugged)
  BY <1>2, <1>4, FS_Injection
<1>6. \A d \in plugged : \E i \in D : order[i] = d
  BY <1>5 DEF Surjection
<1> QED BY <1>1, <1>6 DEF D

\* The devices that are there are enumerated.
LEMMA EnumerateStep == ASSUME Sound, Enumerate PROVE Sound'
<1>0. /\ Len(udev) \in Nat /\ events \in Nat /\ Cardinality(Devices) \in Nat /\ MaxEvents \in Nat
      /\ IsFiniteSet(plugged) /\ Cardinality(plugged) \in Nat
      /\ Cardinality(plugged) <= Cardinality(Devices) /\ plugged \in SUBSET Devices
  BY PadAssumption, FS_CardinalityType, FS_Subset DEF Sound, Types
<1>1. /\ looper = At("scan") /\ looper' = At("poll")
      /\ UNCHANGED <<plugged, udev, needsQueueGamepadInput, keyEvents, motionEvents, view, events>>
  BY DEF Enumerate, device, queue
<1>2. Unread /\ ~Unread'
  BY <1>1 DEF Unread, At
<1>3. joysticks = <<>> /\ takenGamepadLowId = 0 /\ DOMAIN gamepads = {} /\ Len(udev) <= events
  <2>1. joysticks = <<>> /\ Len(joysticks) = 0 /\ Len(udev) <= events
    BY <1>2 DEF Sound, Count
  <2>2. takenGamepadLowId = 0 /\ DOMAIN gamepads = 0..(0 - 1)
    BY <2>1 DEF Sound, Indices
  <2> QED BY <2>1, <2>2
<1>4. PICK order \in SetToSeqs(plugged) : Becomes(FoldLeft(onDeviceAdded, Current, order))
  BY DEF Enumerate
<1> DEFINE n == Cardinality(plugged)
           Js(k) == Opened(order[k], k - 1)
<1>5. /\ joysticks' = [k \in 1..n |-> Js(k)] /\ takenGamepadLowId' = n
      /\ gamepads' = [i \in 0..(n - 1) |-> {}] /\ history' = history
  BY <1>0, <1>3, <1>4, EnumerateAdds
<1>6. /\ n \in Nat /\ order \in [1..n -> plugged]
      /\ \A i, j \in 1..n : order[i] = order[j] => i = j
      /\ \A d \in plugged : \E i \in 1..n : order[i] = d
  BY <1>0, <1>4, OrderIsOnto
<1> HIDE DEF n
<1>7. \A k \in 1..n : Js(k) \in Joystick /\ Js(k).dev = order[k] /\ Js(k).id = k - 1
  <2> SUFFICES ASSUME NEW k \in 1..n
               PROVE  Js(k) \in Joystick /\ Js(k).dev = order[k] /\ Js(k).id = k - 1
    OBVIOUS
  <2>1. order[k] \in Devices /\ k - 1 \in Nat
    BY <1>0, <1>6
  <2> QED BY <2>1, OpenedIs
<1> HIDE DEF Js
<1>8. /\ joysticks' \in Seq(Joystick) /\ Len(joysticks') = n
      /\ \A k \in 1..n : joysticks'[k].dev = order[k] /\ joysticks'[k].id = k - 1
  <2>1. joysticks' \in [1..n -> Joystick]
    BY <1>5, <1>7
  <2>2. joysticks' \in Seq(Joystick) /\ Len(joysticks') = n
    BY <1>6, <2>1
  <2> QED BY <1>5, <1>7, <2>2
<1>9. Types'
  BY <1>1, <1>5, <1>8 DEF Sound, Types
<1>10. Indices'
  BY <1>5, <1>8 DEF Indices
<1>11. Count'
  <2>1. Len(joysticks') + Len(udev') <= Cardinality(Devices) + events'
    BY <1>0, <1>1, <1>3, <1>6, <1>8 DEF n
  <2> QED BY <1>2, <2>1 DEF Count
<1>12. ASSUME Devs PROVE Devs'
  <2>1. OneEach'
    BY <1>6, <1>8 DEF OneEach
  <2>2. \A d : HasJoystick(d)' <=> d \in plugged
    <3> SUFFICES ASSUME NEW d PROVE HasJoystick(d)' <=> d \in plugged
      OBVIOUS
    <3>1. HasJoystick(d)' <=> \E k \in 1..n : order[k] = d
      BY <1>8 DEF HasJoystick
    <3> QED BY <1>6, <3>1
  <2>3. \A i \in 1..Len(udev') : udev'[i][1] = "remove" /\ udev'[i][2] \notin plugged'
    BY <1>1, <1>2, <1>12 DEF Devs, OnlyRemoves
  <2>4. ASSUME NEW d \in Devices PROVE Pending(d)'
    <3>1. \A i \in 1..Len(udev') : udev'[i] # <<"add", d>>
      <4>1. <<"add", d>>[1] # "remove"
        OBVIOUS
      <4> QED BY <2>3, <4>1
    <3>2. Alternate(d)' /\ FirstRemove(d)' /\ ~AddIsLast(d)'
      BY <3>1 DEF Alternate, FirstRemove, AddIsLast
    <3>3. d \in plugged => NoRemove(d)'
      <4> SUFFICES ASSUME d \in plugged, NEW i \in 1..Len(udev') PROVE udev'[i] # <<"remove", d>>
        BY DEF NoRemove
      <4>1. <<"remove", d>>[2] \in plugged'
        BY <1>1
      <4> QED BY <2>3, <4>1
    <3>4. WillBeRight(d)'
      BY <1>1, <2>2, <3>2, <3>3 DEF WillBeRight
    <3> QED BY <3>2, <3>4 DEF Pending
  <2> QED BY <1>2, <2>1, <2>4 DEF Devs
<1> QED BY <1>5, <1>9, <1>10, <1>11, <1>12 DEF Sound

\* An event of the monitor is read.
LEMMA PollMonitorStep == ASSUME Sound, PollMonitor, history'.gap # TRUE PROVE Sound'
<1>0. /\ Len(udev) \in Nat /\ events \in Nat /\ Cardinality(Devices) \in Nat
      /\ joysticks \in Seq(Joystick) /\ udev \in Seq({"add", "remove"} \X Devices)
      /\ history \in Happened /\ Len(joysticks) \in Nat /\ udev # <<>>
  BY PadAssumption, FS_CardinalityType DEF Sound, Types, PollMonitor
<1>1. /\ looper = At("udev") /\ udev' = Tail(udev)
      /\ UNCHANGED <<plugged, needsQueueGamepadInput, keyEvents, motionEvents, view, events, looper>>
  BY DEF PollMonitor, queue
<1>2. ~Unread /\ ~Unread'
  BY <1>1 DEF Unread, At
<1> DEFINE n == Len(joysticks)
<1>3. PICK d \in Devices :
        /\ d = Head(udev)[2] /\ Head(udev) \in {<<"add", d>>, <<"remove", d>>}
        /\ Head(udev)[1] = "add" <=> Head(udev) = <<"add", d>>
  <2>1. Head(udev) \in {"add", "remove"} \X Devices
    BY <1>0
  <2> DEFINE h == Head(udev)
  <2> HIDE DEF h
  <2>2. h \in {"add", "remove"} \X Devices
    BY <2>1 DEF h
  <2>3. /\ h[2] \in Devices /\ h \in {<<"add", h[2]>>, <<"remove", h[2]>>}
        /\ h[1] = "add" <=> h = <<"add", h[2]>>
    BY <2>2
  <2> QED BY <2>3 DEF h
<1>4. /\ Len(udev') = Len(udev) - 1 /\ udev' \in Seq({"add", "remove"} \X Devices)
      /\ \A i \in 1..(Len(udev) - 1) : udev'[i] = udev[i + 1]
  BY <1>0, <1>1
<1>5. \/ Head(udev) = <<"add", d>> /\ Becomes(onDeviceAdded(Current, d))
      \/ Head(udev) = <<"remove", d>> /\ Becomes(onDeviceRemoved(Current, d))
  BY <1>3 DEF PollMonitor
<1>6. ASSUME NEW m \in Nat, m <= n + 1, Len(joysticks') = m, joysticks' \in Seq(Joystick),
             history' \in Happened, Indices', history'.early = history.early,
             Devs => OneEach' /\ \A e \in Devices : Pending(e)'
      PROVE  Sound'
  <2>1. Types'
    BY <1>1, <1>4, <1>6 DEF Sound, Types
  <2>2. Len(joysticks) + Len(udev) <= Cardinality(Devices) + events
    BY DEF Sound, Count
  <2>3. Len(joysticks') + Len(udev') <= Cardinality(Devices) + events'
    BY <1>0, <1>1, <1>4, <1>6, <2>2
  <2>4. Count'
    BY <1>2, <2>3 DEF Count
  <2>5. Devs => Devs'
    BY <1>2, <1>6 DEF Devs
  <2> QED BY <1>6, <2>1, <2>4, <2>5 DEF Sound
<1>7. ASSUME Devs, NEW e \in Devices PROVE Pending(e) /\ OneEach
  BY <1>2, <1>7 DEF Devs
<1>8. ASSUME UNCHANGED <<joysticks, takenGamepadLowId, gamepads, history>>,
             \/ Head(udev) = <<"add", d>> /\ d \notin plugged
             \/ Head(udev) = <<"remove", d>> /\ ~HasJoystick(d)
      PROVE  Sound'
  <2>1. SameDevs
    BY <1>8 DEF SameDevs
  <2>2. Indices'
    BY <1>8 DEF Sound, Indices
  <2>3. \A e : HasJoystick(e)' <=> HasJoystick(e)
    BY <2>1, SameJoysticks
  <2>4. ASSUME Devs PROVE OneEach' /\ \A e \in Devices : Pending(e)'
    <3>1. OneEach'
      BY <1>3, <1>7, <2>1, <2>4, SameJoysticks
    <3>2. \A e \in Devices : Pending(e)
      BY <1>7, <2>4
    <3>3. \/ Head(udev) = <<"add", d>> /\ d \notin plugged
          \/ Head(udev) = <<"remove", d>> /\ ~HasJoystick(d)'
      BY <1>8, <2>3
    <3>4. \A e \in Devices : Pending(e)'
      BY <1>0, <1>1, <1>3, <1>4, <2>3, <3>2, <3>3, ReadEvent
    <3> QED BY <3>1, <3>4
  <2> QED BY <1>0, <1>6, <1>8, <2>2, <2>4
<1>9. CASE Head(udev) = <<"add", d>> /\ Becomes(onDeviceAdded(Current, d)) /\ d \in plugged
  <2>1. /\ n \in Nat /\ history' = history
        /\ takenGamepadLowId' = n + 1 /\ Len(joysticks') = n + 1
        /\ joysticks' \in Seq(Joystick) /\ \A k \in 1..n : joysticks'[k] = joysticks[k]
        /\ joysticks'[n + 1] = Opened(d, n)
        /\ gamepads' \in [0..n -> SUBSET Buttons]
    BY <1>3, <1>9, Added DEF Sound
  <2> HIDE DEF n
  <2>2. joysticks'[n + 1].dev = d /\ joysticks'[n + 1].id = n
    BY <2>1 DEF Opened
  <2>3. \A k \in 1..(n + 1) : k \in 1..n \/ k = n + 1
    BY <2>1
  <2>4. n + 1 \in 1..(n + 1) /\ \A k \in 1..n : k \in 1..(n + 1)
    BY <2>1
  <2>5. Indices'
    <3>1. \A k \in 1..n : joysticks[k].id = k - 1
      BY DEF Sound, Indices, n
    <3>2. \A k \in 1..(n + 1) : joysticks'[k].id = k - 1
      <4> SUFFICES ASSUME NEW k \in 1..(n + 1) PROVE joysticks'[k].id = k - 1
        OBVIOUS
      <4>1. CASE k \in 1..n
        BY <2>1, <3>1, <4>1
      <4>2. CASE k = n + 1
        BY <2>1, <2>2, <4>2
      <4> QED BY <2>3, <4>1, <4>2
    <3>3. (n + 1) - 1 = n
      BY <2>1
    <3> QED BY <2>1, <3>2, <3>3 DEF Indices
  <2>6. \A e : HasJoystick(e)' <=> HasJoystick(e) \/ e = d
    BY <2>1, <2>2, <2>3, <2>4 DEF HasJoystick, n
  <2>7. ASSUME Devs PROVE OneEach' /\ \A e \in Devices : Pending(e)'
    <3>1. ~HasJoystick(d)
      <4>1. FirstRemove(d)
        BY <1>3, <1>7, <2>7 DEF Pending
      <4>2. 1 \in 1..Len(udev) /\ udev[1] = <<"add", d>>
        BY <1>0, <1>9
      <4> QED BY <4>1, <4>2 DEF FirstRemove
    <3>2. \A k \in 1..n : joysticks'[k].dev # d
      BY <2>1, <3>1 DEF HasJoystick, n
    <3>3. OneEach
      BY <1>3, <1>7, <2>7
    <3>4. OneEach'
      <4> SUFFICES ASSUME NEW j \in 1..(n + 1), NEW k \in 1..(n + 1),
                          joysticks'[j].dev = joysticks'[k].dev
                   PROVE  j = k
        BY <2>1 DEF OneEach
      <4>1. CASE j \in 1..n /\ k \in 1..n
        BY <2>1, <3>3, <4>1 DEF OneEach, n
      <4>2. CASE j \notin 1..n \/ k \notin 1..n
        BY <2>2, <2>3, <3>2, <4>2
      <4> QED BY <4>1, <4>2
    <3>5. \A e \in Devices : Pending(e)
      BY <1>7, <2>7
    <3>6. \A e \in Devices : Pending(e)'
      BY <1>0, <1>1, <1>3, <1>4, <1>9, <2>6, <3>5, ReadEvent
    <3> QED BY <3>4, <3>6
  <2>8. n + 1 \in Nat
    BY <2>1
  <2>9. history' \in Happened /\ history'.early = history.early
    BY <1>0, <2>1
  <2> QED BY <1>6, <2>1, <2>5, <2>7, <2>8, <2>9 DEF n
<1>10. CASE Head(udev) = <<"add", d>> /\ Becomes(onDeviceAdded(Current, d)) /\ d \notin plugged
  <2>1. UNCHANGED <<joysticks, takenGamepadLowId, gamepads, history>>
    BY <1>3, <1>10, Added DEF Sound
  <2> QED BY <1>8, <1>10, <2>1
<1>11. CASE Head(udev) = <<"remove", d>> /\ Becomes(onDeviceRemoved(Current, d)) /\ HasJoystick(d)
  <2>1. /\ n \in Nat /\ history' \in Happened /\ history'.early = history.early
        /\ n > 0 /\ joysticks[n].dev = d /\ (\A k \in 1..(n - 1) : joysticks[k].dev # d)
        /\ takenGamepadLowId' = n - 1 /\ Len(joysticks') = n - 1
        /\ joysticks' \in Seq(Joystick) /\ (\A k \in 1..(n - 1) : joysticks'[k] = joysticks[k])
        /\ gamepads' \in [0..(n - 2) -> SUBSET Buttons]
    BY <1>3, <1>11, Removed DEF Sound
  <2> HIDE DEF n
  <2>2. \A k \in 1..(n - 1) : k \in 1..n
    BY <2>1
  <2>3. Indices'
    <3>1. \A k \in 1..n : joysticks[k].id = k - 1
      BY DEF Sound, Indices, n
    <3>2. (n - 1) - 1 = n - 2
      BY <2>1
    <3> QED BY <2>1, <2>2, <3>1, <3>2 DEF Indices
  <2>4. \A k \in 1..n : k \in 1..(n - 1) \/ k = n
    BY <2>1
  <2>5. \A e : HasJoystick(e)' <=> HasJoystick(e) /\ e # d
    <3> SUFFICES ASSUME NEW e PROVE HasJoystick(e)' <=> HasJoystick(e) /\ e # d
      OBVIOUS
    <3>1. HasJoystick(e)' <=> \E k \in 1..(n - 1) : joysticks[k].dev = e
      BY <2>1 DEF HasJoystick
    <3>2. HasJoystick(e) <=> \E k \in 1..n : joysticks[k].dev = e
      BY DEF HasJoystick, n
    <3> QED BY <2>1, <2>2, <2>4, <3>1, <3>2
  <2>6. ASSUME Devs PROVE OneEach' /\ \A e \in Devices : Pending(e)'
    <3>1. OneEach
      BY <1>3, <1>7, <2>6
    <3>2. OneEach'
      BY <2>1, <2>2, <3>1 DEF OneEach, n
    <3>3. \A e \in Devices : Pending(e)
      BY <1>7, <2>6
    <3>4. \A e \in Devices : Pending(e)'
      BY <1>0, <1>1, <1>3, <1>4, <1>11, <2>5, <3>3, ReadEvent
    <3> QED BY <3>2, <3>4
  <2>7. n - 1 \in Nat /\ n - 1 <= n + 1
    BY <2>1
  <2> QED BY <1>6, <2>1, <2>3, <2>6, <2>7 DEF n
<1>12. CASE Head(udev) = <<"remove", d>> /\ Becomes(onDeviceRemoved(Current, d)) /\ ~HasJoystick(d)
  <2>1. UNCHANGED <<joysticks, takenGamepadLowId, gamepads, history>>
    BY <1>3, <1>12, Removed DEF Sound
  <2> QED BY <1>8, <1>12, <2>1
<1> QED BY <1>5, <1>9, <1>10, <1>11, <1>12

\* A step of the looper that changes neither the joysticks nor their gamepads.
LEMMA LooperOnly ==
    ASSUME Sound,
           UNCHANGED <<plugged, udev, joysticks, takenGamepadLowId, gamepads, events, history>>,
           keyEvents' \in Seq(Ids \X BOOLEAN), motionEvents' \in Seq(Ids),
           view' \in [Ids -> SUBSET Buttons], needsQueueGamepadInput' \in BOOLEAN,
           looper' \in Places, Unread' <=> Unread, looper' = At("start") => looper = At("start")
    PROVE  Sound'
<1>1. SameDevs
  BY DEF SameDevs
<1>2. /\ gamepads' \in [0..(Len(joysticks) - 1) -> SUBSET Buttons] /\ joysticks' \in Seq(Joystick)
      /\ events' \in Nat /\ events <= events' /\ events' <= MaxEvents
      /\ history' \in Happened /\ history'.early = history.early
  BY DEF Sound, Types, Indices
<1> QED BY <1>1, <1>2, QuietStep

\* While joysticks are polled, Polled is the position of one of them, and then the next.
LEMMA Polling ==
    ASSUME Sound, Polled \in DOMAIN joysticks
    PROVE  /\ Polled \in Nat /\ Polled \in 1..Len(joysticks) /\ looper = <<"joystick", Polled>>
           /\ ~Unread /\ <<"joystick", Polled + 1>> \in Places
           /\ joysticks[Polled] \in Joystick /\ joysticks[Polled].id = Polled - 1
           /\ Polled - 1 \in 0..(Len(joysticks) - 1) /\ Polled - 1 \in Ids
<1>1. joysticks \in Seq(Joystick) /\ looper \in Places
  BY DEF Sound, Types, Places
<1>2. Len(joysticks) \in Nat /\ Polled \in Nat /\ Polled >= 1 /\ Polled <= Len(joysticks)
  BY <1>1
<1>3. looper \notin {At("start"), At("scan"), At("poll"), At("udev")}
  <2>1. Polled # 0
    BY <1>2
  <2> QED BY <2>1 DEF At, Polled
<1>4. looper = <<"joystick", Polled>>
  BY <1>1, <1>3 DEF Places, Polled
<1>5. <<"joystick", Polled + 1>> \in Places
  <2>1. Polled + 1 \in Nat \ {0}
    BY <1>2
  <2> HIDE DEF Polled
  <2> QED BY <2>1 DEF Places
<1>6. ~Unread
  BY <1>3 DEF Unread
<1>7. joysticks[Polled].id = Polled - 1
  BY <1>2 DEF Sound, Indices
<1>8. Polled - 1 \in 0..(Len(joysticks) - 1) /\ Polled - 1 \in Ids
  <2>1. /\ Len(joysticks) + Len(udev) <= Cardinality(Devices) + events
        /\ Len(udev) \in Nat /\ events \in Nat /\ events <= MaxEvents
    BY DEF Sound, Types, Count
  <2>2. Cardinality(Devices) \in Nat /\ MaxEvents \in Nat
    BY PadAssumption, FS_CardinalityType
  <2> HIDE DEF Polled
  <2> QED BY <1>2, <2>1, <2>2 DEF Ids
<1> QED BY <1>1, <1>2, <1>4, <1>5, <1>6, <1>7, <1>8

\* The places of the looper differ.
LEMMA PlacesDiffer ==
    /\ At("poll") \in Places /\ At("udev") \in Places /\ At("scan") \in Places
    /\ At("poll") \notin {At("start"), At("scan"), At("udev")}
    /\ At("udev") \notin {At("start"), At("scan")} /\ At("scan") # At("start")
    /\ <<"joystick", 1>> \in Places
    /\ \A k : <<"joystick", k>> \notin {At("start"), At("scan"), At("poll"), At("udev")}
BY DEF At, Places

\* The steps of the looper between its reads.
LEMMA LooperSteps ==
    ASSUME Sound,
           \/ StartMonitor \/ Attach \/ (\E f \in BOOLEAN : onWindowFocused(f)) \/ Update
           \/ MonitorEmpty \/ JoystickEmpty \/ PollReturns
    PROVE  Sound'
<1>0. /\ keyEvents \in Seq(Ids \X BOOLEAN) /\ motionEvents \in Seq(Ids) /\ looper \in Places
      /\ view \in [Ids -> SUBSET Buttons] /\ needsQueueGamepadInput \in BOOLEAN
  BY DEF Sound, Types, Places
<1>1. CASE StartMonitor
  BY <1>0, <1>1, LooperOnly, PlacesDiffer DEF StartMonitor, Unread, device, manager, queue
<1>2. CASE Attach
  BY <1>0, <1>2, LooperOnly DEF Attach, Unread, device, manager, queue
<1>3. CASE \E f \in BOOLEAN : onWindowFocused(f)
  BY <1>0, <1>3, LooperOnly DEF onWindowFocused, Unread, device, manager, queue
<1>4. CASE Update
  BY <1>0, <1>4, LooperOnly, PlacesDiffer DEF Update, Polls, Unread, device, manager, queue
<1>5. CASE MonitorEmpty
  BY <1>0, <1>5, LooperOnly, PlacesDiffer DEF MonitorEmpty, Unread, device, manager, queue
<1>6. CASE JoystickEmpty
  <2>1. ~Unread /\ <<"joystick", Polled + 1>> \in Places /\ looper' = <<"joystick", Polled + 1>>
    BY <1>6, Polling DEF JoystickEmpty
  <2>2. ~Unread' /\ looper' # At("start")
    BY <2>1, PlacesDiffer DEF Unread
  <2> QED BY <1>0, <1>6, <2>1, <2>2, LooperOnly DEF JoystickEmpty, device, manager, queue
<1>7. CASE PollReturns
  <2>1. looper' = At("poll") /\ ~Unread' /\ ~Unread
    BY <1>7, PlacesDiffer DEF PollReturns, Unread
  <2>2. needsQueueGamepadInput' \in BOOLEAN
    BY <1>7 DEF PollReturns, Requeue
  <2> QED BY <1>0, <1>7, <2>1, <2>2, LooperOnly, PlacesDiffer DEF PollReturns, device, manager, queue
<1> QED BY <1>1, <1>2, <1>3, <1>4, <1>5, <1>6, <1>7

\* The game handles a key event.
LEMMA HandleKeyStep == ASSUME Sound, HandleKey PROVE Sound'
<1>0. /\ keyEvents \in Seq(Ids \X BOOLEAN) /\ motionEvents \in Seq(Ids) /\ looper \in Places
      /\ view \in [Ids -> SUBSET Buttons] /\ needsQueueGamepadInput \in BOOLEAN
      /\ keyEvents # <<>>
  BY DEF Sound, Types, Places, HandleKey
<1> DEFINE id == Head(keyEvents)[1]
           v == IF Head(keyEvents)[2] THEN view[id] \cup {"A"} ELSE view[id] \ {"A"}
<1>1. Head(keyEvents) \in Ids \X BOOLEAN /\ Tail(keyEvents) \in Seq(Ids \X BOOLEAN)
  BY <1>0
<1>2. id \in Ids
  BY <1>1
<1>3. view' = [view EXCEPT ![id] = v] /\ keyEvents' = Tail(keyEvents)
  BY DEF HandleKey
<1>4. v \in SUBSET Buttons
  <2> HIDE DEF id
  <2> QED BY <1>0, <1>2 DEF Buttons
<1> HIDE DEF id, v
<1>5. view' \in [Ids -> SUBSET Buttons]
  BY <1>0, <1>2, <1>3, <1>4
<1> QED BY <1>0, <1>1, <1>3, <1>5, LooperOnly DEF HandleKey, Unread, device, manager, queue

\* The game handles a motion event.
LEMMA HandleMotionStep == ASSUME Sound, HandleMotion PROVE Sound'
<1>0. /\ keyEvents \in Seq(Ids \X BOOLEAN) /\ motionEvents \in Seq(Ids) /\ looper \in Places
      /\ view \in [Ids -> SUBSET Buttons] /\ needsQueueGamepadInput \in BOOLEAN
      /\ motionEvents # <<>>
  BY DEF Sound, Types, Places, HandleMotion
<1> DEFINE id == Head(motionEvents)
           v == (view[id] \ Directions) \cup axisFunction(id)
<1>1. id \in Ids /\ Tail(motionEvents) \in Seq(Ids)
  BY <1>0
<1>3. view' = [view EXCEPT ![id] = v] /\ motionEvents' = Tail(motionEvents)
  BY DEF HandleMotion
<1>4. v \in SUBSET Buttons
  <2> HIDE DEF id
  <2>1. axisFunction(id) \subseteq Buttons
    BY DEF axisFunction, Shown, Buttons
  <2>2. view[id] \in SUBSET Buttons
    BY <1>0, <1>1
  <2> QED BY <2>1, <2>2
<1> HIDE DEF id, v
<1>5. view' \in [Ids -> SUBSET Buttons]
  BY <1>0, <1>1, <1>3, <1>4
<1> QED BY <1>0, <1>1, <1>3, <1>5, LooperOnly DEF HandleMotion, Unread, device, manager, queue

\* A joystick with another buffer and hat.
Other(j, b, h) == [j EXCEPT !.buffer = b, !.hat = h]

\* It is a joystick that differs in nothing else.
LEMMA OtherHat ==
    ASSUME NEW j \in Joystick, NEW b \in Seq(Event), NEW h \in Hats
    PROVE  /\ Other(j, b, h) \in Joystick /\ Other(j, b, h).dev = j.dev
           /\ Other(j, b, h).id = j.id /\ Other(j, b, h).down = j.down
           /\ Other(j, b, h).known = j.known /\ Other(j, b, h).buffer = b /\ Other(j, b, h).hat = h
<1>1. /\ Other(j, b, h) \in Joystick
      /\ Other(j, b, h).dev = j.dev /\ Other(j, b, h).id = j.id
  BY DEF Joystick, Other
<1>2. /\ Other(j, b, h).down = j.down /\ Other(j, b, h).known = j.known
      /\ Other(j, b, h).buffer = b /\ Other(j, b, h).hat = h
  BY DEF Joystick, Other
<1> QED BY <1>1, <1>2

\* What a read of joystick p's descriptor changes.
Kept(k) == /\ joysticks'[k].dev = joysticks[k].dev /\ joysticks'[k].id = joysticks[k].id
           /\ joysticks'[k].down = joysticks[k].down /\ joysticks'[k].known = joysticks[k].known
Read(p, b, h) ==
    /\ joysticks' \in Seq(Joystick) /\ SameDevs /\ Kept(p)
    /\ joysticks'[p].buffer = b /\ joysticks'[p].hat = h
    /\ \A k \in 1..Len(joysticks) : k # p => joysticks'[k] = joysticks[k]

\* The joysticks after a read of the polled one's descriptor.
LEMMA BufferRead ==
    ASSUME Sound, Polled \in DOMAIN joysticks, NEW b \in Seq(Event),
           NEW h \in Hats,
           \/ joysticks' = [joysticks EXCEPT ![Polled].buffer = b, ![Polled].hat = h]
           \/ joysticks' = [joysticks EXCEPT ![Polled].buffer = b] /\ h = joysticks[Polled].hat
    PROVE  Read(Polled, b, h)
<1>1. joysticks \in Seq(Joystick) /\ joysticks[Polled] \in Joystick /\ Polled \in 1..Len(joysticks)
      /\ DOMAIN joysticks = 1..Len(joysticks)
  BY Polling DEF Sound, Types
<1>2. PICK p : p = Polled
  OBVIOUS
<1> DEFINE js == joysticks[p]
           r == joysticks'[p]
<1>3. js \in Joystick /\ p \in DOMAIN joysticks
  BY <1>1, <1>2
<1>4. /\ DOMAIN joysticks' = DOMAIN joysticks
      /\ \A k \in DOMAIN joysticks : k # p => joysticks'[k] = joysticks[k]
      /\ \/ r = Other(js, b, h)
         \/ r = [js EXCEPT !.buffer = b] /\ h = js.hat
  BY <1>1, <1>2 DEF Other
<1> HIDE DEF r, js
<1>5. /\ r \in Joystick /\ r.dev = js.dev /\ r.id = js.id /\ r.down = js.down
      /\ r.known = js.known /\ r.buffer = b /\ r.hat = h
  <2>1. CASE r = Other(js, b, h)
    BY <1>3, <2>1, OtherHat
  <2>2. CASE r = [js EXCEPT !.buffer = b] /\ h = js.hat
    BY <1>3, <2>2, OtherBuffer
  <2> QED BY <1>4, <2>1, <2>2
<1>6. joysticks' \in [DOMAIN joysticks -> Joystick]
  <2>1. \A k \in DOMAIN joysticks : joysticks'[k] \in Joystick
    BY <1>1, <1>4, <1>5 DEF r
  <2>2. joysticks' = [k \in DOMAIN joysticks' |-> joysticks'[k]]
    <3>1. CASE joysticks' = [joysticks EXCEPT ![Polled].buffer = b, ![Polled].hat = h]
      BY <3>1
    <3>2. CASE joysticks' = [joysticks EXCEPT ![Polled].buffer = b]
      BY <3>2
    <3> QED BY <3>1, <3>2
  <2> QED BY <1>4, <2>1, <2>2
<1>7. \A k \in 1..Len(joysticks) : joysticks'[k].dev = joysticks[k].dev
                                   /\ joysticks'[k].id = joysticks[k].id
  <2> SUFFICES ASSUME NEW k \in 1..Len(joysticks)
               PROVE  joysticks'[k].dev = joysticks[k].dev /\ joysticks'[k].id = joysticks[k].id
    OBVIOUS
  <2>1. CASE k = p
    BY <1>5, <2>1 DEF r, js
  <2>2. CASE k # p
    <3>1. joysticks'[k] = joysticks[k]
      BY <1>1, <1>4, <2>2
    <3> QED BY <3>1
  <2> QED BY <2>1, <2>2
<1>8. joysticks' \in Seq(Joystick) /\ SameDevs
  BY <1>1, <1>6, <1>7, JoysticksUpdated
<1>9. Kept(p)
  BY <1>5 DEF Kept, r, js
<1>10. Read(p, b, h)
  BY <1>1, <1>4, <1>5, <1>8, <1>9 DEF Read, r
<1> QED BY <1>2, <1>10

\* The kernel dropped events.
LEMMA SyncDroppedStep == ASSUME Sound, SyncDropped PROVE Sound'
<1>1. /\ Polled \in DOMAIN joysticks /\ joysticks' = [joysticks EXCEPT ![Polled].buffer = <<>>]
      /\ looper' = <<"joystick", Polled + 1>>
      /\ UNCHANGED <<plugged, udev, takenGamepadLowId, gamepads, needsQueueGamepadInput, keyEvents,
                     motionEvents, view, events, history>>
  BY DEF SyncDropped, device, queue
<1>2. joysticks' \in Seq(Joystick) /\ SameDevs
  <2>1. <<>> \in Seq(Event)
    OBVIOUS
  <2>2. PICK h : h = joysticks[Polled].hat
    OBVIOUS
  <2>3. h \in Hats
    BY <1>1, <2>2, Polling DEF Joystick
  <2>4. Read(Polled, <<>>, h)
    BY <1>1, <2>1, <2>2, <2>3, BufferRead
  <2> QED BY <2>4 DEF Read
<1>3. ~Unread /\ ~Unread' /\ looper' \in Places /\ looper' # At("start")
  BY <1>1, Polling, PlacesDiffer DEF Unread
<1>4. /\ gamepads' \in [0..(Len(joysticks) - 1) -> SUBSET Buttons]
      /\ keyEvents' \in Seq(Ids \X BOOLEAN) /\ motionEvents' \in Seq(Ids)
      /\ view' \in [Ids -> SUBSET Buttons] /\ needsQueueGamepadInput' \in BOOLEAN
      /\ events' \in Nat /\ events <= events' /\ events' <= MaxEvents
      /\ history' \in Happened /\ history'.early = history.early
  BY <1>1 DEF Sound, Types, Indices
<1> QED BY <1>1, <1>2, <1>3, <1>4, QuietStep

\* onGamepadButton keeps the types.
LEMMA ButtonTypes ==
    ASSUME Sound, NEW id \in 0..(Len(joysticks) - 1), id \in Ids, NEW bs,
           NEW down \in SUBSET Buttons, onGamepadButton(id, bs, down)
    PROVE  /\ gamepads' \in [0..(Len(joysticks) - 1) -> SUBSET Buttons]
           /\ keyEvents' \in Seq(Ids \X BOOLEAN) /\ motionEvents' \in Seq(Ids)
           /\ needsQueueGamepadInput' \in BOOLEAN
           /\ history' \in Happened /\ history'.early = history.early
<1>0. /\ gamepads \in [0..(Len(joysticks) - 1) -> SUBSET Buttons] /\ id \in Nat
      /\ keyEvents \in Seq(Ids \X BOOLEAN) /\ motionEvents \in Seq(Ids)
      /\ needsQueueGamepadInput \in BOOLEAN /\ history \in Happened
  BY DEF Sound, Types, Indices
<1>1. CASE id \notin DOMAIN gamepads \/ Unchanged(id, bs, down)
  BY <1>0, <1>1 DEF onGamepadButton
<1>2. CASE ~(id \notin DOMAIN gamepads \/ Unchanged(id, bs, down))
  <2> DEFINE g == (gamepads[id] \ bs) \cup down
             D == 0..(Len(joysticks) - 1)
  <2>1. g \in SUBSET Buttons /\ gamepads' = [gamepads EXCEPT ![id] = g]
    BY <1>0, <1>2 DEF onGamepadButton
  <2>2. gamepads' \in [D -> SUBSET Buttons]
    <3>1. gamepads \in [D -> SUBSET Buttons] /\ id \in D
      BY <1>0
    <3> HIDE DEF g, D
    <3> QED BY <2>1, <3>1
  <2> DEFINE K == Ids \X BOOLEAN
             x == <<id, down # {}>>
  <2>3. Append(keyEvents, <<id, down # {}>>) \in Seq(Ids \X BOOLEAN)
    <3>1. x \in K /\ keyEvents \in Seq(K)
      BY <1>0
    <3> HIDE DEF K, x
    <3>2. Append(keyEvents, x) \in Seq(K)
      BY <3>1
    <3> QED BY <3>2 DEF K, x
  <2>4. Append(motionEvents, id) \in Seq(Ids)
    BY <1>0
  <2> DEFINE more == history.shadowed \cup {id}
             less == history.shadowed \ {id}
  <2>6. more \in SUBSET Nat /\ less \in SUBSET Nat
    BY <1>0 DEF Happened
  <2>7. \/ history' = history \/ history' = [history EXCEPT !.shadowed = less]
        \/ history' = [history EXCEPT !.shadowed = more]
    BY <1>2 DEF onGamepadButton
  <2> HIDE DEF more, less
  <2>8. history' \in Happened /\ history'.early = history.early
    BY <1>0, <2>6, <2>7 DEF Happened
  <2>9. /\ keyEvents' \in {keyEvents, Append(keyEvents, <<id, down # {}>>)}
        /\ motionEvents' \in {motionEvents, Append(motionEvents, id)}
        /\ needsQueueGamepadInput' \in {needsQueueGamepadInput, FALSE}
    BY <1>2 DEF onGamepadButton
  <2> QED BY <1>0, <2>2, <2>3, <2>4, <2>8, <2>9
<1> QED BY <1>1, <1>2

\* What is read, e, and what becomes of it: the hat's bits and the buttons that are passed on.
Merged(e, hat, down) == \E v \in SUBSET Directions : /\ down = (v \ e[1]) \cup e[2]
                                                     /\ hat # Unwritten => v = hat
Passed(bf, e, hat, hat1, bs, down) ==
    /\ bf \in Seq(Event) /\ bf # <<>> /\ Head(bf) = e /\ Tail(bf) \in Seq(Event)
    /\ \/ /\ e \in Presses /\ hat1 = hat /\ bs = e[1] /\ down = e[2]
       \/ e \in Moves /\ bs = Directions /\ hat1 = down /\ Merged(e, hat, down)

\* It is read from the polled joystick.
Handled(e, hat1, bs, down) ==
    /\ Passed(joysticks[Polled].buffer, e, joysticks[Polled].hat, hat1, bs, down)
    /\ Read(Polled, Tail(joysticks[Polled].buffer), hat1)
    /\ onGamepadButton(Polled - 1, bs, down)

\* Polling reads a report and passes it on.
LEMMA EventRead ==
    ASSUME Sound, PollJoystick
    PROVE  \E e \in Report, hat1 \in Hats, bs, down \in SUBSET Buttons :
              Handled(e, hat1, bs, down)
<1>1. joysticks[Polled] \in Joystick /\ joysticks[Polled].id = Polled - 1
      /\ Polled \in DOMAIN joysticks
  BY Polling DEF PollJoystick
<1>2. PICK bf, hat : bf = joysticks[Polled].buffer /\ hat = joysticks[Polled].hat
  OBVIOUS
<1>3. bf \in Seq(Event) /\ bf # <<>> /\ hat \in Hats
  BY <1>1, <1>2 DEF Joystick, PollJoystick
<1>4. PICK e : e = Head(bf)
  OBVIOUS
<1>5. e \in Report /\ Tail(bf) \in Seq(Event)
  <2>1. e \in Event /\ Tail(bf) \in Seq(Event)
    BY <1>3, <1>4
  <2>2. e # Dropped
    BY <1>2, <1>4 DEF PollJoystick
  <2> QED BY <2>1, <2>2 DEF Event
<1>6. PICK t : t = Tail(bf)
  OBVIOUS
<1>7. e[1] \subseteq Buttons /\ e[2] \subseteq e[1] /\ Directions \subseteq Buttons
  BY <1>5, ReportIs DEF Buttons
<1>8. CASE ButtonEvent(e)
  <2>1. /\ e \in Presses /\ onGamepadButton(Polled - 1, e[1], e[2])
        /\ joysticks' = [joysticks EXCEPT ![Polled].buffer = t]
    BY <1>1, <1>2, <1>6, <1>8 DEF ButtonEvent
  <2>2. Read(Polled, t, hat)
    BY <1>1, <1>2, <1>3, <1>5, <1>6, <2>1, BufferRead
  <2>3. Passed(bf, e, hat, hat, e[1], e[2])
    BY <1>3, <1>4, <1>5, <2>1 DEF Passed
  <2>4. e[1] \in SUBSET Buttons /\ e[2] \in SUBSET Buttons
    BY <1>7
  <2>5. Handled(e, hat, e[1], e[2])
    BY <1>2, <1>6, <2>1, <2>2, <2>3, Zenon DEF Handled
  <2> QED BY <1>3, <1>5, <2>4, <2>5, Zenon
<1>9. CASE HatEvent(e)
  <2>1. e \in Moves
    BY <1>9 DEF HatEvent
  <2>2. PICK v \in hatValues(joysticks[Polled]) :
           /\ joysticks' = [joysticks EXCEPT ![Polled].buffer = Tail(@),
                                             ![Polled].hat = (v \ e[1]) \cup e[2]]
           /\ onGamepadButton(joysticks[Polled].id, Directions, (v \ e[1]) \cup e[2])
    BY <1>9 DEF HatEvent
  <2>3. v \in SUBSET Directions /\ (hat # Unwritten => v = hat)
    <3>1. v \in IF hat = Unwritten THEN Garbage ELSE {hat}
      BY <1>2, <2>2 DEF hatValues
    <3>2. Garbage \subseteq SUBSET Directions
      BY PadAssumption, Zenon
    <3> QED BY <1>3, <3>1, <3>2 DEF Hats
  <2>4. PICK h : h = (v \ e[1]) \cup e[2]
    OBVIOUS
  <2>5. h \in SUBSET Directions /\ h \in SUBSET Buttons /\ Directions \in SUBSET Buttons
    BY <1>5, <1>7, <2>1, <2>3, <2>4, ReportIs
  <2>6. h \in Hats
    BY <2>5 DEF Hats
  <2>7. /\ joysticks' = [joysticks EXCEPT ![Polled].buffer = t, ![Polled].hat = h]
        /\ onGamepadButton(Polled - 1, Directions, h)
    BY <1>1, <1>2, <1>6, <2>2, <2>4
  <2>8. Read(Polled, t, h)
    BY <1>1, <1>5, <1>6, <2>7, <2>6, BufferRead
  <2>9. Passed(bf, e, hat, h, Directions, h)
    <3>1. Merged(e, hat, h)
      BY <2>3, <2>4 DEF Merged
    <3> QED BY <1>3, <1>4, <1>5, <2>1, <3>1 DEF Passed
  <2>10. Handled(e, h, Directions, h)
    BY <1>2, <1>6, <2>7, <2>8, <2>9, Zenon DEF Handled
  <2> QED BY <1>5, <2>5, <2>10, <2>6, Zenon
<1> QED BY <1>2, <1>4, <1>8, <1>9 DEF PollJoystick

\* An event of a joystick is read.
LEMMA PollJoystickStep == ASSUME Sound, PollJoystick PROVE Sound'
<1>1. /\ Polled \in DOMAIN joysticks
      /\ UNCHANGED <<plugged, udev, takenGamepadLowId, looper, view, events>>
  BY DEF PollJoystick, device
<1>2. PICK e \in Report, hat1 \in Hats, bs, down \in SUBSET Buttons :
           Handled(e, hat1, bs, down)
  BY EventRead
<1>3. joysticks' \in Seq(Joystick) /\ SameDevs /\ onGamepadButton(Polled - 1, bs, down)
  BY <1>2 DEF Handled, Read
<1>4. Polled - 1 \in 0..(Len(joysticks) - 1) /\ Polled - 1 \in Ids
  BY <1>1, Polling
<1>5. /\ gamepads' \in [0..(Len(joysticks) - 1) -> SUBSET Buttons]
      /\ keyEvents' \in Seq(Ids \X BOOLEAN) /\ motionEvents' \in Seq(Ids)
      /\ needsQueueGamepadInput' \in BOOLEAN
      /\ history' \in Happened /\ history'.early = history.early
  BY <1>2, <1>3, <1>4, ButtonTypes
<1>6. Unread' <=> Unread
  BY <1>1 DEF Unread
<1>7. /\ view' \in [Ids -> SUBSET Buttons] /\ looper' \in Places
      /\ events' \in Nat /\ events <= events' /\ events' <= MaxEvents
  BY <1>1 DEF Sound, Types, Places
<1> QED BY <1>1, <1>3, <1>5, <1>6, <1>7, QuietStep

\* Once the devices were enumerated a gap is not forgotten.
LEMMA GapStays ==
    ASSUME ~Unread, "gap" \in DOMAIN history, [PadNext]_padVars
    PROVE  ~Unread' /\ "gap" \in DOMAIN history' /\ (history.gap = TRUE => history'.gap = TRUE)
<1> DEFINE Remembered == "gap" \in DOMAIN history' /\ (history.gap = TRUE => history'.gap = TRUE)
<1>0. CASE UNCHANGED <<looper, history>>
  BY <1>0 DEF Unread
<1>1. ASSUME NEW d \in Devices, Plug(d) \/ Unplug(d) PROVE UNCHANGED looper /\ Remembered
  BY <1>1 DEF Plug, Unplug
<1>2. ASSUME NEW d \in Devices, NEW e \in Reports, Change(d, e)
      PROVE  UNCHANGED looper /\ Remembered
  BY <1>2 DEF Change
<1>3. ASSUME PollJoystick PROVE UNCHANGED looper /\ Remembered
  <2>1. \E id, bs, down : onGamepadButton(id, bs, down)
    BY <1>3 DEF PollJoystick, ButtonEvent, HatEvent
  <2>2. \/ UNCHANGED history
        \/ \E S : history' = [history EXCEPT !.shadowed = S]
    BY <2>1 DEF onGamepadButton
  <2>3. UNCHANGED looper
    BY <1>3 DEF PollJoystick
  <2> QED BY <2>2, <2>3, SMTT(30)
<1>4. ASSUME PollMonitor PROVE UNCHANGED looper /\ Remembered
  <2> DEFINE d == Head(udev)[2]
  <2>0. UNCHANGED looper
    BY <1>4 DEF PollMonitor
  <2>1. CASE history' = onDeviceAdded(Current, d).history
    <3>1. history' = history
      BY <2>1 DEF onDeviceAdded, Current
    <3> QED BY <2>0, <3>1
  <2>2. CASE history' = onDeviceRemoved(Current, d).history
    <3>1. \/ history' = history
          \/ \E S, g : history' = [history EXCEPT !.gap = @ \/ g, !.spoiled = S]
      BY <2>2 DEF onDeviceRemoved, Current
    <3> QED BY <2>0, <3>1
  <2> QED BY <1>4, <2>1, <2>2 DEF PollMonitor, Becomes
<1>5. ~StartMonitor /\ ~Enumerate
  BY DEF StartMonitor, Enumerate, Unread
<1>6. CASE UNCHANGED padVars
  BY <1>0, <1>6 DEF padVars
<1>7. ASSUME Attach \/ (\E f \in BOOLEAN : onWindowFocused(f)) \/ HandleKey \/ HandleMotion
      PROVE  UNCHANGED <<looper, history>>
  BY <1>7 DEF Attach, onWindowFocused, HandleKey, HandleMotion
<1>8. ASSUME Update \/ MonitorEmpty \/ JoystickEmpty \/ PollReturns \/ SyncDropped
      PROVE  ~Unread' /\ UNCHANGED history
  <2>1. \/ looper' = At("udev") \/ looper' = At("poll") \/ \E k : looper' = <<"joystick", k>>
    BY <1>8 DEF Update, MonitorEmpty, JoystickEmpty, PollReturns, SyncDropped
  <2>2. ~Unread'
    BY <2>1, PlacesDiffer DEF Unread
  <2> QED BY <1>8, <2>2 DEF Update, MonitorEmpty, JoystickEmpty, PollReturns, SyncDropped
<1>9. UNCHANGED looper => ~Unread'
  BY DEF Unread
<1> QED BY <1>0, <1>1, <1>2, <1>3, <1>4, <1>5, <1>6, <1>7, <1>8, <1>9 DEF PadNext, LooperStep

\* A step that does nothing.
LEMMA SoundStutters == ASSUME Sound, UNCHANGED padVars PROVE Sound'
<1>1. UNCHANGED <<plugged, udev, joysticks, takenGamepadLowId, gamepads, events, history, keyEvents,
                  motionEvents, view, needsQueueGamepadInput, looper>>
  BY DEF padVars, device, manager, queue
<1>2. /\ keyEvents' \in Seq(Ids \X BOOLEAN) /\ motionEvents' \in Seq(Ids) /\ looper' \in Places
      /\ view' \in [Ids -> SUBSET Buttons] /\ needsQueueGamepadInput' \in BOOLEAN
      /\ (Unread' <=> Unread)
  BY <1>1 DEF Sound, Types, Places, Unread
<1> QED BY <1>1, <1>2, LooperOnly

\* Every step that leaves no gap behind keeps the joysticks sound.
LEMMA SoundStep == ASSUME Sound, [PadNext]_padVars, history'.gap # TRUE \/ ~PollMonitor PROVE Sound'
<1>1. CASE UNCHANGED padVars
  BY <1>1, SoundStutters
<1>2. CASE \E d \in Devices : Plug(d) \/ Unplug(d)
  BY <1>2, PlugStep, UnplugStep
<1>3. CASE \E d \in Devices, e \in Reports : Change(d, e)
  BY <1>3, ChangeStep, ReportsAre
<1>4. CASE Enumerate
  BY <1>4, EnumerateStep
<1>5. CASE PollMonitor
  BY <1>5, PollMonitorStep
<1>6. CASE \/ StartMonitor \/ Attach \/ (\E f \in BOOLEAN : onWindowFocused(f)) \/ Update
           \/ MonitorEmpty \/ JoystickEmpty \/ PollReturns
  BY <1>6, LooperSteps
<1>7. CASE PollJoystick \/ SyncDropped \/ HandleKey \/ HandleMotion
  BY <1>7, PollJoystickStep, SyncDroppedStep, HandleKeyStep, HandleMotionStep
<1> QED BY <1>1, <1>2, <1>3, <1>4, <1>5, <1>6, <1>7 DEF PadNext, LooperStep

\* The invariant holds always.
LEMMA DInvHolds == PadSpec => []DInv
<1>1. PadInit => DInv
  BY InitSound DEF DInv
<1>2. DInv /\ [PadNext]_padVars => DInv'
  <2> SUFFICES ASSUME DInv, [PadNext]_padVars PROVE DInv'
    OBVIOUS
  <2>1. CASE ~Unread /\ history.gap = TRUE /\ "gap" \in DOMAIN history
    BY <2>1, GapStays DEF DInv
  <2>2. CASE Sound
    <3>1. CASE history'.gap # TRUE \/ ~PollMonitor
      BY <2>2, <3>1, SoundStep DEF DInv
    <3>2. CASE history'.gap = TRUE /\ PollMonitor
      <4>1. "gap" \in DOMAIN history
        <5>1. history \in Happened
          BY <2>2 DEF Sound, Types
        <5> QED BY <5>1 DEF Happened
      <4>2. ~Unread
        BY <3>2, PlacesDiffer DEF PollMonitor, Unread
      <4> QED BY <3>2, <4>1, <4>2, GapStays DEF DInv
    <3> QED BY <3>1, <3>2
  <2> QED BY <2>1, <2>2 DEF DInv
<1> QED BY <1>1, <1>2, PTL DEF PadSpec

\* Whatever is plugged in and pulled out, and whenever the looper comes to read it: when the
\* monitor's events have been read, LinuxJoystickManager has one joystick for each device that
\* is there and no other, all with their own index, and the window knows exactly those
\* gamepads; unless a device was added twice or takeGamepadId came to an index again.
THEOREM DevicesMatchHolds == PadSpec => []DevicesMatch
<1>1. DInv => DevicesMatch
  <2> SUFFICES ASSUME DInv, udev = <<>>, looper \notin {At("start"), At("scan")},
                      ~history.early, ~history.gap
               PROVE  /\ ToSet([k \in DOMAIN joysticks |-> joysticks[k].dev]) = plugged
                      /\ \A j, k \in DOMAIN joysticks : j # k =>
                            joysticks[j].dev # joysticks[k].dev /\ joysticks[j].id # joysticks[k].id
                      /\ DOMAIN gamepads = {joysticks[k].id : k \in DOMAIN joysticks}
    BY DEF DevicesMatch
  <2>1. Sound
    BY DEF DInv
  <2>2. ~Unread
    BY DEF Unread
  <2>3. OneEach /\ \A d \in Devices : Pending(d)
    BY <2>1, <2>2 DEF Sound, Devs
  <2> DEFINE n == Len(joysticks)
  <2>4. /\ n \in Nat /\ DOMAIN joysticks = 1..n /\ joysticks \in Seq(Joystick)
        /\ plugged \in SUBSET Devices
    BY <2>1 DEF Sound, Types
  <2>5. \A k \in 1..n : joysticks[k].id = k - 1
    BY <2>1 DEF Sound, Indices
  <2>6. DOMAIN gamepads = 0..(n - 1)
    BY <2>1 DEF Sound, Indices
  <2>7. \A d \in Devices : d \in plugged <=> HasJoystick(d)
    <3> SUFFICES ASSUME NEW d \in Devices PROVE d \in plugged <=> HasJoystick(d)
      OBVIOUS
    <3>1. WillBeRight(d)
      BY <2>3 DEF Pending
    <3>2. Len(udev) = 0
      OBVIOUS
    <3>3. ~AddIsLast(d) /\ NoRemove(d)
      BY <3>2 DEF AddIsLast, NoRemove
    <3> QED BY <3>1, <3>3 DEF WillBeRight
  <2>8. \A k \in 1..n : joysticks[k].dev \in Devices
    <3>1. \A k \in 1..n : joysticks[k] \in Joystick
      BY <2>4
    <3> HIDE DEF n
    <3> QED BY <3>1 DEF Joystick
  <2>9. ToSet([k \in DOMAIN joysticks |-> joysticks[k].dev]) = {joysticks[k].dev : k \in 1..n}
    BY <2>4 DEF ToSet
  <2>10. \A d : HasJoystick(d) <=> \E k \in 1..n : joysticks[k].dev = d
    BY DEF HasJoystick
  <2>11. \A j, k \in 1..n : joysticks[j].dev = joysticks[k].dev => j = k
    BY <2>3 DEF OneEach
  <2> HIDE DEF n
  <2>12. {joysticks[k].dev : k \in 1..n} = plugged
    BY <2>4, <2>7, <2>8, <2>10
  <2>13. \A j, k \in 1..n : j # k => joysticks[j].id # joysticks[k].id
    BY <2>4, <2>5
  <2>14. {joysticks[k].id : k \in 1..n} = 0..(n - 1)
    <3>1. \A k \in 1..n : k - 1 \in 0..(n - 1)
      BY <2>4
    <3>2. \A i \in 0..(n - 1) : i + 1 \in 1..n /\ (i + 1) - 1 = i
      BY <2>4
    <3>3. \A i \in 0..(n - 1) : \E k \in 1..n : joysticks[k].id = i
      BY <2>5, <3>2
    <3> QED BY <2>5, <3>1, <3>3
  <2> QED BY <2>4, <2>6, <2>9, <2>11, <2>12, <2>13, <2>14
<1> QED BY <1>1, DInvHolds, PTL

-----------------------------------------------------------------------------
(* The buttons *)

\* The last of the events s about x says whether b is in T; without any, F and T agree on b.
Settles(s, x, b, F, T) ==
    /\ \A i \in 1..Len(s) : s[i][1] = x /\ (\A j \in 1..Len(s) : i < j => s[j][1] # x)
                               => (s[i][2] = TRUE <=> b \in T)
    /\ (\A i \in 1..Len(s) : s[i][1] # x) => (b \in F <=> b \in T)

\* Only what F and T say of b matters.
LEMMA SettlesSame ==
    ASSUME NEW s, NEW x, NEW b, NEW F, NEW T, NEW F1, NEW T1, Settles(s, x, b, F, T),
           b \in F1 <=> b \in F, b \in T1 <=> b \in T
    PROVE  Settles(s, x, b, F1, T1)
BY DEF Settles

\* An event that is added.
LEMMA SettlesAppend ==
    ASSUME NEW S, NEW s \in Seq(S), NEW e \in S, NEW x, NEW b, NEW F, NEW T, NEW T1,
           \/ e[1] # x /\ Settles(s, x, b, F, T) /\ (b \in T1 <=> b \in T)
           \/ e[1] = x /\ (e[2] = TRUE <=> b \in T1)
    PROVE  Settles(Append(s, e), x, b, F, T1)
<1> DEFINE L == Len(s)
           t == Append(s, e)
<1>1. L \in Nat /\ Len(t) = L + 1 /\ t[L + 1] = e /\ \A i \in 1..L : t[i] = s[i]
  OBVIOUS
<1> HIDE DEF t
<1>2. \A i \in 1..(L + 1) : i \in 1..L \/ i = L + 1
  BY <1>1
<1>3. L + 1 \in 1..(L + 1) /\ \A i \in 1..L : i \in 1..(L + 1) /\ i < L + 1
  BY <1>1
<1>4. CASE e[1] # x /\ Settles(s, x, b, F, T) /\ (b \in T1 <=> b \in T)
  <2>1. /\ \A i \in 1..L : s[i][1] = x /\ (\A j \in 1..L : i < j => s[j][1] # x)
                               => (s[i][2] = TRUE <=> b \in T)
        /\ (\A i \in 1..L : s[i][1] # x) => (b \in F <=> b \in T)
    BY <1>4 DEF Settles
  <2> HIDE DEF L
  <2>2. ASSUME NEW i \in 1..(L + 1), t[i][1] = x, \A j \in 1..(L + 1) : i < j => t[j][1] # x
        PROVE  t[i][2] = TRUE <=> b \in T1
    <3>1. i \in 1..L
      BY <1>1, <1>2, <1>4, <2>2
    <3>2. \A j \in 1..L : i < j => s[j][1] # x
      BY <1>1, <1>3, <2>2
    <3> QED BY <1>1, <1>4, <2>1, <2>2, <3>1, <3>2
  <2>3. ASSUME \A i \in 1..(L + 1) : t[i][1] # x PROVE b \in F <=> b \in T1
    <3>1. \A i \in 1..L : s[i][1] # x
      BY <1>1, <1>3, <2>3
    <3> QED BY <1>4, <2>1, <3>1
  <2>4. Settles(t, x, b, F, T1)
    BY <1>1, <2>2, <2>3 DEF Settles
  <2> QED BY <2>4 DEF t
<1>5. CASE e[1] = x /\ (e[2] = TRUE <=> b \in T1)
  <2> HIDE DEF L
  <2>1. ASSUME NEW i \in 1..(L + 1), \A j \in 1..(L + 1) : i < j => t[j][1] # x
        PROVE  t[i][2] = TRUE <=> b \in T1
    <3>1. i = L + 1
      BY <1>1, <1>2, <1>3, <1>5, <2>1
    <3> QED BY <1>1, <1>5, <3>1
  <2>2. ~ \A i \in 1..(L + 1) : t[i][1] # x
    BY <1>1, <1>3, <1>5
  <2>3. Settles(t, x, b, F, T1)
    BY <1>1, <2>1, <2>2 DEF Settles
  <2> QED BY <2>3 DEF t
<1> QED BY <1>4, <1>5

\* The first event is handled.
LEMMA SettlesTail ==
    ASSUME NEW S, NEW s \in Seq(S), s # <<>>, NEW x, NEW b, NEW F, NEW F1, NEW T,
           Settles(s, x, b, F, T),
           \/ Head(s)[1] # x /\ (b \in F1 <=> b \in F)
           \/ Head(s)[1] = x /\ (Head(s)[2] = TRUE <=> b \in F1)
    PROVE  Settles(Tail(s), x, b, F1, T)
<1> DEFINE L == Len(s)
           t == Tail(s)
           h == Head(s)
<1>1. L \in Nat /\ L >= 1 /\ Len(t) = L - 1 /\ h = s[1] /\ \A i \in 1..(L - 1) : t[i] = s[i + 1]
  OBVIOUS
<1>2. /\ \A i \in 1..L : s[i][1] = x /\ (\A j \in 1..L : i < j => s[j][1] # x)
                             => (s[i][2] = TRUE <=> b \in T)
      /\ (\A i \in 1..L : s[i][1] # x) => (b \in F <=> b \in T)
  BY DEF Settles
<1>3. \/ h[1] # x /\ (b \in F1 <=> b \in F)
      \/ h[1] = x /\ (h[2] = TRUE <=> b \in F1)
  OBVIOUS
<1> HIDE DEF L, t, h
<1>4. \A i \in 1..L : i = 1 \/ (i - 1 \in 1..(L - 1) /\ t[i - 1] = s[i])
  BY <1>1
<1>5. ASSUME NEW i \in 1..(L - 1), t[i][1] = x, \A j \in 1..(L - 1) : i < j => t[j][1] # x
      PROVE  t[i][2] = TRUE <=> b \in T
  <2>1. i + 1 \in 1..L /\ s[i + 1] = t[i]
    BY <1>1
  <2>2. ASSUME NEW j \in 1..L, i + 1 < j PROVE s[j][1] # x
    <3>1. j - 1 \in 1..(L - 1) /\ i < j - 1 /\ t[j - 1] = s[j]
      BY <1>1, <1>4, <2>2
    <3> QED BY <1>5, <3>1
  <2> QED BY <1>2, <1>5, <2>1, <2>2
<1>6. ASSUME \A i \in 1..(L - 1) : t[i][1] # x PROVE b \in F1 <=> b \in T
  <2>1. \A i \in 1..L : i = 1 \/ s[i][1] # x
    BY <1>4, <1>6
  <2>2. 1 \in 1..L /\ \A j \in 1..L : 1 < j => j # 1
    BY <1>1
  <2>3. CASE h[1] # x
    BY <1>1, <1>2, <1>3, <2>1, <2>3
  <2>4. CASE h[1] = x
    BY <1>1, <1>2, <1>3, <2>1, <2>2, <2>4
  <2> QED BY <2>3, <2>4
<1>7. Settles(t, x, b, F1, T)
  BY <1>1, <1>5, <1>6 DEF Settles
<1> QED BY <1>7 DEF t

\* The same for the events s of a device, each about some buttons.
About(s, b) == \E i \in 1..Len(s) : b \in s[i][1]
Tells(s, b, F, T) ==
    /\ \A i \in 1..Len(s) : b \in s[i][1] /\ (\A j \in 1..Len(s) : i < j => b \notin s[j][1])
                               => (b \in s[i][2] <=> b \in T)
    /\ (\A i \in 1..Len(s) : b \notin s[i][1]) => (b \in F <=> b \in T)

\* Only what F and T say of b matters.
LEMMA TellsSame ==
    ASSUME NEW s, NEW b, NEW F, NEW T, NEW F1, NEW T1, Tells(s, b, F, T),
           b \in F1 <=> b \in F, b \in T1 <=> b \in T
    PROVE  Tells(s, b, F1, T1)
BY DEF Tells

\* An event that is added.
LEMMA TellsAppend ==
    ASSUME NEW S, NEW s \in Seq(S), NEW e \in S, NEW b, NEW F, NEW T, NEW T1,
           \/ b \notin e[1] /\ Tells(s, b, F, T) /\ (b \in T1 <=> b \in T)
           \/ b \in e[1] /\ (b \in e[2] <=> b \in T1)
    PROVE  Tells(Append(s, e), b, F, T1)
<1> DEFINE L == Len(s)
           t == Append(s, e)
<1>1. L \in Nat /\ Len(t) = L + 1 /\ t[L + 1] = e /\ \A i \in 1..L : t[i] = s[i]
  OBVIOUS
<1> HIDE DEF t
<1>2. \A i \in 1..(L + 1) : i \in 1..L \/ i = L + 1
  BY <1>1
<1>3. L + 1 \in 1..(L + 1) /\ \A i \in 1..L : i \in 1..(L + 1) /\ i < L + 1
  BY <1>1
<1>4. CASE b \notin e[1] /\ Tells(s, b, F, T) /\ (b \in T1 <=> b \in T)
  <2>1. /\ \A i \in 1..L : b \in s[i][1] /\ (\A j \in 1..L : i < j => b \notin s[j][1])
                               => (b \in s[i][2] <=> b \in T)
        /\ (\A i \in 1..L : b \notin s[i][1]) => (b \in F <=> b \in T)
    BY <1>4 DEF Tells
  <2> HIDE DEF L
  <2>2. ASSUME NEW i \in 1..(L + 1), b \in t[i][1], \A j \in 1..(L + 1) : i < j => b \notin t[j][1]
        PROVE  b \in t[i][2] <=> b \in T1
    <3>1. i \in 1..L
      BY <1>1, <1>2, <1>4, <2>2
    <3>2. \A j \in 1..L : i < j => b \notin s[j][1]
      BY <1>1, <1>3, <2>2
    <3> QED BY <1>1, <1>4, <2>1, <2>2, <3>1, <3>2
  <2>3. ASSUME \A i \in 1..(L + 1) : b \notin t[i][1] PROVE b \in F <=> b \in T1
    <3>1. \A i \in 1..L : b \notin s[i][1]
      BY <1>1, <1>3, <2>3
    <3> QED BY <1>4, <2>1, <3>1
  <2>4. Tells(t, b, F, T1)
    BY <1>1, <2>2, <2>3 DEF Tells
  <2> QED BY <2>4 DEF t
<1>5. CASE b \in e[1] /\ (b \in e[2] <=> b \in T1)
  <2> HIDE DEF L
  <2>1. ASSUME NEW i \in 1..(L + 1), \A j \in 1..(L + 1) : i < j => b \notin t[j][1]
        PROVE  b \in t[i][2] <=> b \in T1
    <3>1. i = L + 1
      BY <1>1, <1>2, <1>3, <1>5, <2>1
    <3> QED BY <1>1, <1>5, <3>1
  <2>2. ~ \A i \in 1..(L + 1) : b \notin t[i][1]
    BY <1>1, <1>3, <1>5
  <2>3. Tells(t, b, F, T1)
    BY <1>1, <2>1, <2>2 DEF Tells
  <2> QED BY <2>3 DEF t
<1> QED BY <1>4, <1>5

\* The first event is handled.
LEMMA TellsTail ==
    ASSUME NEW S, NEW s \in Seq(S), s # <<>>, NEW b, NEW F, NEW F1, NEW T,
           Tells(s, b, F, T),
           \/ b \notin Head(s)[1] /\ (b \in F1 <=> b \in F)
           \/ b \in Head(s)[1] /\ (b \in Head(s)[2] <=> b \in F1)
           \/ About(Tail(s), b)
    PROVE  Tells(Tail(s), b, F1, T)
<1> DEFINE L == Len(s)
           t == Tail(s)
           h == Head(s)
<1>1. L \in Nat /\ L >= 1 /\ Len(t) = L - 1 /\ h = s[1] /\ \A i \in 1..(L - 1) : t[i] = s[i + 1]
  OBVIOUS
<1>2. /\ \A i \in 1..L : b \in s[i][1] /\ (\A j \in 1..L : i < j => b \notin s[j][1])
                             => (b \in s[i][2] <=> b \in T)
      /\ (\A i \in 1..L : b \notin s[i][1]) => (b \in F <=> b \in T)
  BY DEF Tells
<1>3. \/ b \notin h[1] /\ (b \in F1 <=> b \in F)
      \/ b \in h[1] /\ (b \in h[2] <=> b \in F1)
      \/ \E i \in 1..(L - 1) : b \in t[i][1]
  BY <1>1 DEF About
<1> HIDE DEF L, t, h
<1>4. \A i \in 1..L : i = 1 \/ (i - 1 \in 1..(L - 1) /\ t[i - 1] = s[i])
  BY <1>1
<1>5. ASSUME NEW i \in 1..(L - 1), b \in t[i][1], \A j \in 1..(L - 1) : i < j => b \notin t[j][1]
      PROVE  b \in t[i][2] <=> b \in T
  <2>1. i + 1 \in 1..L /\ s[i + 1] = t[i]
    BY <1>1
  <2>2. ASSUME NEW j \in 1..L, i + 1 < j PROVE b \notin s[j][1]
    <3>1. j - 1 \in 1..(L - 1) /\ i < j - 1 /\ t[j - 1] = s[j]
      BY <1>1, <1>4, <2>2
    <3> QED BY <1>5, <3>1
  <2> QED BY <1>2, <1>5, <2>1, <2>2
<1>6. ASSUME \A i \in 1..(L - 1) : b \notin t[i][1] PROVE b \in F1 <=> b \in T
  <2>1. \A i \in 1..L : i = 1 \/ b \notin s[i][1]
    BY <1>4, <1>6
  <2>2. 1 \in 1..L /\ \A j \in 1..L : 1 < j => j # 1
    BY <1>1
  <2>3. CASE b \notin h[1]
    BY <1>1, <1>2, <1>3, <1>6, <2>1, <2>3
  <2>4. CASE b \in h[1]
    BY <1>1, <1>2, <1>3, <1>6, <2>1, <2>2, <2>4
  <2> QED BY <2>3, <2>4
<1>7. Tells(t, b, F1, T)
  BY <1>1, <1>5, <1>6 DEF Tells
<1> QED BY <1>7 DEF t


\* What is in the buffer after an event was added.
LEMMA AboutAppend ==
    ASSUME NEW S, NEW s \in Seq(S), NEW e \in S, NEW b, b \in e[1] \/ About(s, b)
    PROVE  About(Append(s, e), b)
<1> DEFINE L == Len(s)
           t == Append(s, e)
<1>1. L \in Nat /\ Len(t) = L + 1 /\ t[L + 1] = e /\ \A i \in 1..L : t[i] = s[i]
  OBVIOUS
<1>2. b \in e[1] \/ \E i \in 1..L : b \in s[i][1]
  BY DEF About
<1> HIDE DEF t, L
<1>3. L + 1 \in 1..(L + 1) /\ \A i \in 1..L : i \in 1..(L + 1)
  BY <1>1
<1>4. \E i \in 1..Len(t) : b \in t[i][1]
  BY <1>1, <1>2, <1>3
<1> QED BY <1>4 DEF About, t

\* What the first event was not about is left in the others.
LEMMA AboutTail ==
    ASSUME NEW S, NEW s \in Seq(S), s # <<>>, NEW b, About(s, b), b \notin Head(s)[1]
    PROVE  About(Tail(s), b)
<1> DEFINE L == Len(s)
           t == Tail(s)
<1>1. L \in Nat /\ L >= 1 /\ Len(t) = L - 1 /\ Head(s) = s[1]
      /\ \A i \in 1..(L - 1) : t[i] = s[i + 1]
  OBVIOUS
<1>2. PICK i \in 1..L : b \in s[i][1]
  BY DEF About
<1>3. i # 1
  BY <1>1, <1>2
<1> HIDE DEF t, L
<1>4. i - 1 \in 1..(L - 1) /\ (i - 1) + 1 = i
  BY <1>1, <1>2, <1>3
<1>5. b \in t[i - 1][1]
  BY <1>1, <1>2, <1>4
<1>6. \E k \in 1..Len(t) : b \in t[k][1]
  BY <1>1, <1>4, <1>5
<1> QED BY <1>6 DEF About, t

\* The buttons of a gamepad as the window knows them.
Pressed(id) == IF id \in DOMAIN gamepads THEN gamepads[id] ELSE {}

\* The key events in the queue make the game's view of the buttons that of the window; a
\* direction of which the two differ has its motion event in the queue, and one is there if
\* none is asked for.
KeysRight ==
    \A id \in Ids \ history.spoiled : Settles(keyEvents, id, "A", view[id], Pressed(id))
MotionsRight ==
    \A id \in Ids \ (history.spoiled \cup history.shadowed) :
        (\A i \in 1..Len(motionEvents) : motionEvents[i] # id) =>
            \A c \in Directions : c \in view[id] <=> c \in Shown(Pressed(id))
Asked == needsQueueGamepadInput = FALSE => motionEvents # <<>> /\ looper[1] = "joystick"

\* A joystick's buffer makes the window's view what was reported, where something was;
\* hatValues are the directions that the window knows, or all that was reported of them is
\* still in the buffer; and only whole axes are known, with one direction down at most.
InOrder(bf) == Len(bf) <= EvdevLimit /\ \A i \in 1..Len(bf) : bf[i] # Dropped
HatRight(js, pressed) ==
    IF js.hat = Unwritten THEN \A c \in js.known \cap Directions : About(js.buffer, c)
    ELSE \A c \in Directions : c \in js.hat <=> c \in pressed
WholeAxes(js) ==
    /\ "A" \in js.known
    /\ "right" \in js.known => "left" \in js.known
    /\ "down" \in js.known => "up" \in js.known
    /\ ~("left" \in js.down /\ "right" \in js.down) /\ ~("up" \in js.down /\ "down" \in js.down)
BufferRight(js, pressed) ==
    /\ InOrder(js.buffer) /\ WholeAxes(js) /\ HatRight(js, pressed)
    /\ \A b \in js.known : Tells(js.buffer, b, pressed, js.down)
BuffersRight ==
    \A k \in 1..Len(joysticks) :
        k - 1 \notin history.spoiled => BufferRight(joysticks[k], gamepads[k - 1])

Game == KeysRight /\ MotionsRight /\ Asked /\ BuffersRight

\* The game sees the same of what has the same directions.
LEMMA ShownSame ==
    ASSUME NEW F, NEW G, \A c \in Directions : c \in F <=> c \in G
    PROVE  \A c \in Directions : c \in Shown(F) <=> c \in Shown(G)
<1>1. "left" \in Directions /\ "up" \in Directions
  BY DEF Directions, Axes
<1> QED BY <1>1 DEF Shown

\* The parts of Game after a step.
LEMMA GameNext ==
    /\ (\A id \in Ids : id \notin history'.spoiled =>
           Settles(keyEvents', id, "A", view'[id], Pressed(id)')) => KeysRight'
    /\ (\A id \in Ids : /\ id \notin history'.spoiled /\ id \notin history'.shadowed
                        /\ \A i \in 1..Len(motionEvents') : motionEvents'[i] # id
           => \A c \in Directions : c \in view'[id] <=> c \in Shown(Pressed(id)')) => MotionsRight'
    /\ (\A k \in 1..Len(joysticks') : k - 1 \notin history'.spoiled =>
           BufferRight(joysticks'[k], gamepads'[k - 1])) => BuffersRight'
<1>0. Ids' = Ids
  BY DEF Ids
<1>1. ASSUME \A id \in Ids : id \notin history'.spoiled =>
                Settles(keyEvents', id, "A", view'[id], Pressed(id)')
      PROVE  KeysRight'
  BY <1>0, <1>1 DEF KeysRight, Settles
<1>2. ASSUME \A id \in Ids :
                /\ id \notin history'.spoiled /\ id \notin history'.shadowed
                /\ \A i \in 1..Len(motionEvents') : motionEvents'[i] # id
                => \A c \in Directions : c \in view'[id] <=> c \in Shown(Pressed(id)')
      PROVE  MotionsRight'
  BY <1>0, <1>2, Zenon DEF MotionsRight, Shown, Directions, Axes
<1>3. ASSUME \A k \in 1..Len(joysticks') : k - 1 \notin history'.spoiled =>
                BufferRight(joysticks'[k], gamepads'[k - 1])
      PROVE  BuffersRight'
  BY <1>3, Zenon DEF BuffersRight, BufferRight, InOrder, HatRight, WholeAxes, Tells, About, Dropped,
                     Unwritten, Directions, Axes
<1> QED BY <1>1, <1>2, <1>3

\* Initially no button is down.
LEMMA InitGame == PadInit => Game
<1> SUFFICES ASSUME PadInit PROVE Game
  OBVIOUS
<1>1. /\ Len(keyEvents) = 0 /\ Len(motionEvents) = 0 /\ Len(joysticks) = 0
      /\ needsQueueGamepadInput = TRUE /\ \A id \in Ids : view[id] = {}
  BY DEF PadInit
<1>2. \A id \in Ids : Pressed(id) = {}
  <2>1. DOMAIN gamepads = {}
    BY DEF PadInit
  <2> QED BY <2>1 DEF Pressed
<1>3. KeysRight
  BY <1>1, <1>2 DEF KeysRight, Settles
<1>4. MotionsRight
  BY <1>1, <1>2 DEF MotionsRight, Shown
<1>5. Asked /\ BuffersRight
  BY <1>1 DEF Asked, BuffersRight
<1> QED BY <1>3, <1>4, <1>5 DEF Game

\* A step that leaves the queue and the game's view alone, and the buttons as far as they are
\* not spoiled.
LEMMA ViewKept ==
    ASSUME Game, UNCHANGED <<keyEvents, motionEvents, view>>,
           history.spoiled \subseteq history'.spoiled, history.shadowed = history'.shadowed,
           \A id \in Ids \ history'.spoiled : Pressed(id)' = Pressed(id)
    PROVE  KeysRight' /\ MotionsRight'
<1>1. \A id \in Ids : id \notin history'.spoiled =>
          Settles(keyEvents', id, "A", view'[id], Pressed(id)')
  BY DEF Game, KeysRight
<1>2. ASSUME NEW id \in Ids, id \notin history'.spoiled, id \notin history'.shadowed,
             \A i \in 1..Len(motionEvents') : motionEvents'[i] # id
      PROVE  \A c \in Directions : c \in view'[id] <=> c \in Shown(Pressed(id)')
  <2>1. Pressed(id)' = Pressed(id) /\ view'[id] = view[id]
    BY <1>2
  <2>2. \A c \in Directions : c \in view[id] <=> c \in Shown(Pressed(id))
    BY <1>2 DEF Game, MotionsRight
  <2> QED BY <2>1, <2>2
<1> QED BY <1>1, <1>2, GameNext, Zenon

\* A step that leaves the joysticks alone too.
LEMMA GameKept ==
    ASSUME Game, UNCHANGED <<keyEvents, motionEvents, view, joysticks, gamepads>>,
           history'.spoiled = history.spoiled, history'.shadowed = history.shadowed, Asked'
    PROVE  Game'
<1>1. \A id : Pressed(id)' = Pressed(id)
  BY DEF Pressed
<1>2. KeysRight' /\ MotionsRight'
  BY <1>1, ViewKept
<1>3. BuffersRight'
  <2>1. \A k \in 1..Len(joysticks') : k - 1 \notin history'.spoiled =>
            BufferRight(joysticks'[k], gamepads'[k - 1])
    BY DEF Game, BuffersRight
  <2> QED BY <2>1, GameNext
<1> QED BY <1>2, <1>3 DEF Game

\* The steps that neither read nor report a button.
LEMMA GameOther ==
    ASSUME Sound, Game,
           \/ StartMonitor \/ Attach \/ (\E f \in BOOLEAN : onWindowFocused(f)) \/ Update
           \/ MonitorEmpty \/ JoystickEmpty \/ PollReturns \/ (\E d \in Devices : Plug(d))
           \/ UNCHANGED padVars
    PROVE  Game'
<1>1. UNCHANGED <<keyEvents, motionEvents, view, joysticks, gamepads>>
  BY DEF StartMonitor, Attach, onWindowFocused, Update, MonitorEmpty, JoystickEmpty, PollReturns,
         Plug, padVars, manager, queue
<1>2. history'.spoiled = history.spoiled /\ history'.shadowed = history.shadowed
  <2>1. CASE \E d \in Devices : Plug(d)
    <3>1. history \in Happened
      BY DEF Sound, Types
    <3> QED BY <2>1, <3>1 DEF Plug, Happened
  <2>2. CASE UNCHANGED history
    BY <2>2
  <2> QED BY <2>1, <2>2 DEF StartMonitor, Attach, onWindowFocused, Update, MonitorEmpty,
                            JoystickEmpty, PollReturns, padVars
<1>3. Asked'
  <2>0. \A pc : At(pc)[1] = pc
    BY DEF At
  <2>1. CASE UNCHANGED <<looper, needsQueueGamepadInput>>
    BY <1>1, <2>1 DEF Game, Asked
  <2>2. CASE (StartMonitor \/ Update \/ MonitorEmpty) /\ UNCHANGED needsQueueGamepadInput
    <3>1. looper \in {At("start"), At("poll"), At("udev")}
      BY <2>2 DEF StartMonitor, Update, MonitorEmpty, Polls
    <3>2. looper[1] # "joystick"
      BY <2>0, <3>1
    <3>3. ~(needsQueueGamepadInput = FALSE)
      BY <3>2 DEF Game, Asked
    <3> QED BY <2>2, <3>3 DEF Asked
  <2>3. CASE JoystickEmpty
    <3>1. looper' = <<"joystick", Polled + 1>> /\ UNCHANGED <<needsQueueGamepadInput, motionEvents>>
      BY <2>3 DEF JoystickEmpty, queue
    <3>2. looper'[1] = "joystick"
      BY <3>1
    <3> QED BY <3>1, <3>2 DEF Game, Asked
  <2>4. CASE PollReturns
    BY <2>4 DEF PollReturns, Requeue, Asked
  <2> QED BY <2>1, <2>2, <2>3, <2>4 DEF StartMonitor, Attach, onWindowFocused, Update, MonitorEmpty,
                                        Plug, padVars
<1> QED BY <1>1, <1>2, <1>3, GameKept

\* Only the buffer, the hat and the buttons of a joystick matter.
LEMMA BufferSame ==
    ASSUME NEW js, NEW js1, NEW pressed, BufferRight(js, pressed),
           js1.buffer = js.buffer, js1.down = js.down, js1.known = js.known, js1.hat = js.hat
    PROVE  BufferRight(js1, pressed)
BY DEF BufferRight, HatRight, WholeAxes

\* A joystick that was just opened.
LEMMA BufferFresh == ASSUME NEW d, NEW i PROVE BufferRight(Opened(d, i), {})
<1>1. PICK js : js = Opened(d, i)
  OBVIOUS
<1>2. js.buffer = <<>> /\ js.down = {} /\ js.known = {"A"} /\ js.hat = Unwritten
  BY <1>1 DEF Opened
<1>3. Len(js.buffer) = 0
  BY <1>2
<1>4. InOrder(js.buffer)
  BY <1>3, PadAssumption DEF InOrder
<1>5. WholeAxes(js)
  BY <1>2 DEF WholeAxes
<1>6. HatRight(js, {})
  <2>1. "A" \notin Directions
    BY DEF Directions, Axes
  <2> QED BY <1>2, <2>1 DEF HatRight
<1>7. \A b \in js.known : Tells(js.buffer, b, {}, js.down)
  BY <1>2, <1>3 DEF Tells
<1>8. BufferRight(js, {})
  BY <1>4, <1>5, <1>6, <1>7 DEF BufferRight
<1> QED BY <1>1, <1>8

\* An event that the kernel stores.
LEMMA StoredRight ==
    ASSUME NEW js \in Joystick, NEW pressed, BufferRight(js, pressed), Len(js.buffer) < EvdevLimit,
           NEW e \in Report
    PROVE  BufferRight(Stored(js, e), pressed)
<1>1. PICK new, bf : new = Stored(js, e) /\ bf = js.buffer
  OBVIOUS
<1>2. /\ new.down = (js.down \ e[1]) \cup e[2] /\ new.known = js.known \cup e[1]
      /\ new.hat = js.hat /\ new.buffer = Append(bf, e)
  BY <1>1, StoredIsJoystick, ZenonT(60)
<1>3. bf \in Seq(Event) /\ e \in Event
  BY <1>1 DEF Joystick, Event
<1>4. /\ e # Dropped /\ e[2] \subseteq e[1]
      /\ e[1] = {"A"} \/ ((e[1] = {"left", "right"} \/ e[1] = {"up", "down"}) /\ e[2] # e[1])
  <2>1. e \in Presses \/ e \in Moves
    BY DEF Report
  <2> QED BY <2>1, ReportIs
<1>5. /\ InOrder(bf) /\ WholeAxes(js) /\ HatRight(js, pressed)
      /\ \A c \in js.known : Tells(bf, c, pressed, js.down)
  BY <1>1 DEF BufferRight
<1>6. InOrder(new.buffer)
  <2>1. /\ Len(new.buffer) = Len(bf) + 1 /\ Len(bf) \in Nat /\ Len(bf) < EvdevLimit
        /\ \A i \in 1..(Len(bf) + 1) : new.buffer[i] = IF i = Len(bf) + 1 THEN e ELSE bf[i]
    BY <1>1, <1>2, <1>3
  <2>2. Len(new.buffer) <= EvdevLimit
    BY <2>1, PadAssumption
  <2>3. ASSUME NEW i \in 1..Len(new.buffer) PROVE new.buffer[i] # Dropped
    <3>1. i \in 1..Len(bf) \/ i = Len(bf) + 1
      BY <2>1
    <3>2. \A k \in 1..Len(bf) : bf[k] # Dropped
      BY <1>5 DEF InOrder
    <3> QED BY <1>4, <2>1, <3>1, <3>2
  <2> QED BY <2>2, <2>3 DEF InOrder
<1>7. WholeAxes(new)
  <2>1. /\ "A" \in js.known
        /\ "right" \in js.known => "left" \in js.known
        /\ "down" \in js.known => "up" \in js.known
        /\ ~("left" \in js.down /\ "right" \in js.down) /\ ~("up" \in js.down /\ "down" \in js.down)
    BY <1>5 DEF WholeAxes
  <2>2. CASE e[1] = {"A"}
    BY <1>2, <1>4, <2>1, <2>2 DEF WholeAxes
  <2>3. CASE e[1] = {"left", "right"} /\ e[2] # e[1]
    <3>1. ~("left" \in e[2] /\ "right" \in e[2]) /\ "up" \notin e[2] /\ "down" \notin e[2]
      BY <1>4, <2>3
    <3> QED BY <1>2, <2>1, <2>3, <3>1 DEF WholeAxes
  <2>4. CASE e[1] = {"up", "down"} /\ e[2] # e[1]
    <3>1. ~("up" \in e[2] /\ "down" \in e[2]) /\ "left" \notin e[2] /\ "right" \notin e[2]
      BY <1>4, <2>4
    <3> QED BY <1>2, <2>1, <2>4, <3>1 DEF WholeAxes
  <2> QED BY <1>4, <2>2, <2>3, <2>4
<1>8. HatRight(new, pressed)
  <2>1. CASE js.hat = Unwritten
    <3>1. ASSUME NEW c \in new.known \cap Directions PROVE About(new.buffer, c)
      <4>1. c \in e[1] \/ About(bf, c)
        BY <1>1, <1>2, <1>5, <2>1, <3>1 DEF HatRight
      <4>2. About(Append(bf, e), c)
        BY <1>3, <4>1, AboutAppend
      <4> QED BY <1>2, <4>2
    <3> QED BY <1>2, <2>1, <3>1 DEF HatRight
  <2>2. CASE js.hat # Unwritten
    BY <1>2, <1>5, <2>2 DEF HatRight
  <2> QED BY <2>1, <2>2
<1>9. ASSUME NEW c \in new.known PROVE Tells(new.buffer, c, pressed, new.down)
  <2>1. PICK T, T1 : T = js.down /\ T1 = new.down
    OBVIOUS
  <2>2. c \in e[1] \/ (c \notin e[1] /\ Tells(bf, c, pressed, T))
    BY <1>2, <1>5, <1>9, <2>1
  <2>3. \/ c \notin e[1] /\ Tells(bf, c, pressed, T) /\ (c \in T1 <=> c \in T)
        \/ c \in e[1] /\ (c \in e[2] <=> c \in T1)
    BY <1>2, <1>4, <2>1, <2>2
  <2>4. Tells(Append(bf, e), c, pressed, T1)
    BY <1>3, <2>3, TellsAppend
  <2> QED BY <1>2, <2>1, <2>4
<1>10. BufferRight(new, pressed)
  BY <1>6, <1>7, <1>8, <1>9 DEF BufferRight
<1> QED BY <1>1, <1>10

\* A device is pulled out: what it had not delivered is lost.
LEMMA UnplugGame == ASSUME Sound, Game, NEW d \in Devices, Unplug(d) PROVE Game'
<1>0. /\ joysticks \in Seq(Joystick) /\ history \in Happened
      /\ DOMAIN joysticks = 1..Len(joysticks) /\ Len(joysticks) \in Nat
      /\ \A k \in 1..Len(joysticks) : joysticks[k] \in Joystick /\ joysticks[k].id = k - 1
  BY DEF Sound, Types, Indices
<1>1. /\ UNCHANGED <<gamepads, keyEvents, motionEvents, view, needsQueueGamepadInput, looper>>
      /\ joysticks' = [k \in DOMAIN joysticks |->
                          IF joysticks[k].dev = d THEN [joysticks[k] EXCEPT !.buffer = <<>>]
                          ELSE joysticks[k]]
  BY DEF Unplug, queue
<1> DEFINE s == {js.id : js \in {j \in ToSet(joysticks) : j.dev = d /\ j.buffer # <<>>}}
<1>2. /\ history'.spoiled = history.spoiled \cup s /\ history'.shadowed = history.shadowed
  BY <1>0 DEF Unplug, Happened
<1>3. \A id : Pressed(id)' = Pressed(id)
  BY <1>1 DEF Pressed
<1>4. KeysRight' /\ MotionsRight'
  BY <1>1, <1>2, <1>3, ViewKept
<1>5. Asked'
  BY <1>1 DEF Game, Asked
<1>6. Len(joysticks') = Len(joysticks)
  BY <1>0, UnplugJoysticks DEF SameDevs
<1>7. BuffersRight'
  <2> SUFFICES ASSUME NEW k \in 1..Len(joysticks), k - 1 \notin history'.spoiled
               PROVE  BufferRight(joysticks'[k], gamepads[k - 1])
    BY <1>1, <1>6, GameNext
  <2> DEFINE js == joysticks[k]
             new == joysticks'[k]
  <2>1. js \in Joystick /\ js \in ToSet(joysticks) /\ js.id = k - 1
    BY <1>0 DEF ToSet
  <2>2. BufferRight(js, gamepads[k - 1])
    BY <1>2 DEF Game, BuffersRight
  <2>3. js.dev = d => js.buffer = <<>>
    <3> HIDE DEF js
    <3>1. k - 1 \notin s
      BY <1>2
    <3> QED BY <2>1, <3>1
  <2>4. new = IF js.dev = d THEN [js EXCEPT !.buffer = <<>>] ELSE js
    BY <1>0, <1>1
  <2> HIDE DEF js, new
  <2>5. new.buffer = js.buffer /\ new.down = js.down /\ new.known = js.known /\ new.hat = js.hat
    <3>1. <<>> \in Seq(Event)
      OBVIOUS
    <3>2. /\ [js EXCEPT !.buffer = <<>>].buffer = <<>> /\ [js EXCEPT !.buffer = <<>>].down = js.down
          /\ [js EXCEPT !.buffer = <<>>].known = js.known /\ [js EXCEPT !.buffer = <<>>].hat = js.hat
      BY <2>1, <3>1, OtherBuffer
    <3> QED BY <2>3, <2>4, <3>2
  <2>6. BufferRight(new, gamepads[k - 1])
    BY <2>2, <2>5, BufferSame
  <2> QED BY <2>6 DEF new
<1> QED BY <1>4, <1>5, <1>7 DEF Game

\* A device reports a button: the kernel stores the event, or the gamepad is spoiled.
LEMMA ChangeGame ==
    ASSUME Sound, Game, NEW d \in Devices, NEW e \in Report, Change(d, e)
    PROVE  Game'
<1>0. /\ joysticks \in Seq(Joystick) /\ history \in Happened
      /\ DOMAIN joysticks = 1..Len(joysticks) /\ Len(joysticks) \in Nat
      /\ \A k \in 1..Len(joysticks) : joysticks[k] \in Joystick /\ joysticks[k].id = k - 1
  BY DEF Sound, Types, Indices
<1>1. /\ UNCHANGED <<gamepads, keyEvents, motionEvents, view, needsQueueGamepadInput, looper>>
      /\ joysticks' = [k \in DOMAIN joysticks |->
                          IF joysticks[k].dev = d THEN Stored(joysticks[k], e)
                          ELSE joysticks[k]]
  BY DEF Change, queue
<1> DEFINE s == {js.id : js \in {j \in ToSet(joysticks) : j.dev = d /\ Len(j.buffer) = EvdevLimit}}
<1>2. /\ history'.spoiled = history.spoiled \cup s /\ history'.shadowed = history.shadowed
  BY <1>0 DEF Change, Happened
<1>3. \A id : Pressed(id)' = Pressed(id)
  BY <1>1 DEF Pressed
<1>4. KeysRight' /\ MotionsRight'
  BY <1>1, <1>2, <1>3, ViewKept
<1>5. Asked'
  BY <1>1 DEF Game, Asked
<1>6. Len(joysticks') = Len(joysticks)
  BY <1>0, ChangeJoysticks DEF SameDevs
<1>7. BuffersRight'
  <2> SUFFICES ASSUME NEW k \in 1..Len(joysticks), k - 1 \notin history'.spoiled
               PROVE  BufferRight(joysticks'[k], gamepads[k - 1])
    BY <1>1, <1>6, GameNext
  <2> DEFINE js == joysticks[k]
             new == joysticks'[k]
  <2>1. js \in Joystick /\ js \in ToSet(joysticks) /\ js.id = k - 1
    BY <1>0 DEF ToSet
  <2>2. BufferRight(js, gamepads[k - 1])
    BY <1>2 DEF Game, BuffersRight
  <2>3. js.dev = d => Len(js.buffer) # EvdevLimit
    <3> HIDE DEF js
    <3>1. k - 1 \notin s
      BY <1>2
    <3> QED BY <2>1, <3>1
  <2>4. new = IF js.dev = d THEN Stored(js, e) ELSE js
    BY <1>0, <1>1
  <2> HIDE DEF js, new
  <2>5. js.dev = d => Len(js.buffer) < EvdevLimit
    <3>1. Len(js.buffer) <= EvdevLimit
      BY <2>2 DEF BufferRight, InOrder
    <3>2. js.buffer \in Seq(Event)
      BY <2>1 DEF Joystick
    <3>3. Len(js.buffer) \in Nat
      BY <3>2
    <3> QED BY <2>3, <3>1, <3>3, PadAssumption
  <2>6. BufferRight(new, gamepads[k - 1])
    <3>1. CASE js.dev = d
      BY <2>1, <2>2, <2>4, <2>5, <3>1, StoredRight
    <3>2. CASE js.dev # d
      BY <2>2, <2>4, <3>2
    <3> QED BY <3>1, <3>2
  <2> QED BY <2>6 DEF new
<1> QED BY <1>4, <1>5, <1>7 DEF Game

\* The joysticks that are enumerated have no button down.
LEMMA EnumerateGame == ASSUME Sound, Game, Enumerate PROVE Game'
<1>0. IsFiniteSet(plugged)
  BY PadAssumption, FS_Subset DEF Sound, Types
<1>1. /\ looper = At("scan") /\ looper' = At("poll")
      /\ UNCHANGED <<needsQueueGamepadInput, keyEvents, motionEvents, view>>
  BY DEF Enumerate, queue
<1>2. joysticks = <<>> /\ takenGamepadLowId = 0 /\ DOMAIN gamepads = {}
  <2>1. joysticks = <<>> /\ Len(joysticks) = 0
    BY <1>1 DEF Sound, Count, Unread
  <2>2. takenGamepadLowId = 0 /\ DOMAIN gamepads = 0..(0 - 1)
    BY <2>1 DEF Sound, Indices
  <2> QED BY <2>1, <2>2
<1>3. PICK order \in SetToSeqs(plugged) : Becomes(FoldLeft(onDeviceAdded, Current, order))
  BY DEF Enumerate
<1> DEFINE n == Cardinality(plugged)
           Js(k) == Opened(order[k], k - 1)
<1>4. /\ joysticks' = [k \in 1..n |-> Js(k)] /\ n \in Nat
      /\ gamepads' = [i \in 0..(n - 1) |-> {}] /\ history' = history
  BY <1>0, <1>2, <1>3, EnumerateAdds, FS_CardinalityType
<1> HIDE DEF n
<1>5. \A k : BufferRight(Js(k), {})
  BY BufferFresh
<1> HIDE DEF Js
<1>6. \A id : Pressed(id) = {} /\ Pressed(id)' = {}
  BY <1>2, <1>4 DEF Pressed
<1>7. KeysRight' /\ MotionsRight'
  BY <1>1, <1>4, <1>6, ViewKept
<1>8. Asked'
  <2>1. looper[1] # "joystick"
    BY <1>1 DEF At
  <2> QED BY <1>1, <2>1 DEF Game, Asked
<1>9. BuffersRight'
  <2>1. Len(joysticks') = n
    BY <1>4
  <2> SUFFICES ASSUME NEW k \in 1..n PROVE BufferRight(joysticks'[k], gamepads'[k - 1])
    BY <2>1, GameNext
  <2>2. joysticks'[k] = Js(k) /\ k - 1 \in 0..(n - 1)
    BY <1>4
  <2>3. gamepads'[k - 1] = {}
    BY <1>4, <2>2
  <2>4. BufferRight(Js(k), {})
    BY <1>5
  <2> QED BY <2>2, <2>3, <2>4
<1> QED BY <1>7, <1>8, <1>9 DEF Game

\* A gamepad comes with no button down, and is spoiled if it goes with one.
LEMMA PollMonitorGame == ASSUME Sound, Game, PollMonitor, history'.gap # TRUE PROVE Game'
<1>0. /\ udev \in Seq({"add", "remove"} \X Devices) /\ udev # <<>> /\ history \in Happened
      /\ Types /\ Indices
  BY DEF Sound, Types, PollMonitor
<1>1. UNCHANGED <<needsQueueGamepadInput, keyEvents, motionEvents, view, looper>>
  BY DEF PollMonitor, queue
<1>2. Asked'
  BY <1>1 DEF Game, Asked
<1>3. PICK d \in Devices : \/ Becomes(onDeviceAdded(Current, d))
                           \/ Becomes(onDeviceRemoved(Current, d))
  <2>1. Head(udev) \in {"add", "remove"} \X Devices
    BY <1>0
  <2>2. Head(udev)[2] \in Devices
    BY <2>1
  <2> QED BY <2>2 DEF PollMonitor
<1> DEFINE n == Len(joysticks)
<1>4. DOMAIN gamepads = 0..(n - 1) /\ n \in Nat
  BY <1>0 DEF Types, Indices
<1>5. \A k \in 1..n : k - 1 \notin history.spoiled => BufferRight(joysticks[k], gamepads[k - 1])
  BY DEF Game, BuffersRight
<1>6. CASE UNCHANGED <<joysticks, gamepads, history>>
  BY <1>1, <1>2, <1>6, GameKept
<1>7. CASE Becomes(onDeviceAdded(Current, d)) /\ d \in plugged
  <2>1. /\ history' = history /\ Len(joysticks') = n + 1
        /\ \A k \in 1..n : joysticks'[k] = joysticks[k]
        /\ joysticks'[n + 1] = Opened(d, n)
        /\ gamepads' \in [0..n -> SUBSET Buttons] /\ gamepads'[n] = {}
        /\ \A i \in 0..(n - 1) : gamepads'[i] = gamepads[i]
    BY <1>0, <1>7, Added
  <2> HIDE DEF n
  <2>2. \A id : Pressed(id)' = Pressed(id)
    <3> SUFFICES ASSUME NEW id PROVE Pressed(id)' = Pressed(id)
      OBVIOUS
    <3>1. DOMAIN gamepads' = 0..n /\ (id \in 0..n <=> id \in 0..(n - 1) \/ id = n)
          /\ ~(n \in 0..(n - 1))
      BY <1>4, <2>1
    <3> QED BY <1>4, <2>1, <3>1 DEF Pressed
  <2>3. KeysRight' /\ MotionsRight'
    BY <1>1, <2>1, <2>2, ViewKept
  <2>4. BuffersRight'
    <3> SUFFICES ASSUME NEW k \in 1..(n + 1), k - 1 \notin history.spoiled
                 PROVE  BufferRight(joysticks'[k], gamepads'[k - 1])
      BY <2>1, GameNext
    <3>1. CASE k \in 1..n
      <4>1. k - 1 \in 0..(n - 1)
        BY <1>4, <3>1
      <4>2. joysticks'[k] = joysticks[k] /\ gamepads'[k - 1] = gamepads[k - 1]
        BY <2>1, <3>1, <4>1
      <4>3. BufferRight(joysticks[k], gamepads[k - 1])
        BY <1>5, <3>1
      <4> QED BY <4>2, <4>3
    <3>2. CASE k = n + 1
      <4>1. k - 1 = n
        BY <1>4, <3>2
      <4>2. BufferRight(Opened(d, n), {})
        BY BufferFresh
      <4> QED BY <2>1, <3>2, <4>1, <4>2
    <3> QED BY <1>4, <3>1, <3>2
  <2> QED BY <1>2, <2>3, <2>4 DEF Game
<1>8. CASE Becomes(onDeviceRemoved(Current, d)) /\ HasJoystick(d)
  <2>1. /\ n > 0 /\ history'.shadowed = history.shadowed /\ Len(joysticks') = n - 1
        /\ (\A k \in 1..(n - 1) : joysticks'[k] = joysticks[k])
        /\ gamepads' \in [0..(n - 2) -> SUBSET Buttons]
        /\ (\A i \in 0..(n - 2) : gamepads'[i] = gamepads[i])
        /\ history.spoiled \subseteq history'.spoiled
        /\ (gamepads[n - 1] # {} => n - 1 \in history'.spoiled)
    BY <1>0, <1>8, Removed
  <2> HIDE DEF n
  <2>2. \A id \in Ids \ history'.spoiled : Pressed(id)' = Pressed(id)
    <3> SUFFICES ASSUME NEW id \in Ids, id \notin history'.spoiled PROVE Pressed(id)' = Pressed(id)
      OBVIOUS
    <3>1. DOMAIN gamepads' = 0..(n - 2) /\ (id \in 0..(n - 1) <=> id \in 0..(n - 2) \/ id = n - 1)
          /\ ~(n - 1 \in 0..(n - 2))
      BY <1>4, <2>1
    <3> QED BY <1>4, <2>1, <3>1 DEF Pressed
  <2>3. KeysRight' /\ MotionsRight'
    BY <1>1, <2>1, <2>2, ViewKept
  <2>4. BuffersRight'
    <3> SUFFICES ASSUME NEW k \in 1..(n - 1), k - 1 \notin history'.spoiled
                 PROVE  BufferRight(joysticks'[k], gamepads'[k - 1])
      BY <2>1, GameNext
    <3>1. k - 1 \in 0..(n - 2) /\ k \in 1..n
      BY <1>4, <2>1
    <3>2. joysticks'[k] = joysticks[k] /\ gamepads'[k - 1] = gamepads[k - 1]
      BY <2>1, <3>1
    <3>3. BufferRight(joysticks[k], gamepads[k - 1])
      BY <1>5, <2>1, <3>1
    <3> QED BY <3>2, <3>3
  <2> QED BY <1>2, <2>3, <2>4 DEF Game
<1>9. CASE Becomes(onDeviceAdded(Current, d)) /\ d \notin plugged
  BY <1>0, <1>6, <1>9, Added
<1>10. CASE Becomes(onDeviceRemoved(Current, d)) /\ ~HasJoystick(d)
  BY <1>0, <1>6, <1>10, Removed
<1> QED BY <1>3, <1>7, <1>8, <1>9, <1>10

\* What the kernel dropped is given up, but the gamepad is spoiled already.
LEMMA SyncDroppedGame == ASSUME Sound, Game, SyncDropped PROVE Game'
<1>1. /\ Polled \in DOMAIN joysticks /\ joysticks' = [joysticks EXCEPT ![Polled].buffer = <<>>]
      /\ looper' = <<"joystick", Polled + 1>> /\ joysticks[Polled].buffer # <<>>
      /\ Head(joysticks[Polled].buffer) = Dropped
      /\ UNCHANGED <<gamepads, needsQueueGamepadInput, keyEvents, motionEvents, view, history>>
  BY DEF SyncDropped, queue
<1>2. SameDevs /\ \A k \in 1..Len(joysticks) : k # Polled => joysticks'[k] = joysticks[k]
  <2>1. PICK b, h : b = <<>> /\ h = joysticks[Polled].hat
    OBVIOUS
  <2>2. b \in Seq(Event) /\ h \in Hats
    BY <1>1, <2>1, Polling DEF Joystick
  <2>3. Read(Polled, b, h)
    BY <1>1, <2>1, <2>2, BufferRead
  <2> QED BY <2>3 DEF Read
<1>3. Polled \in 1..Len(joysticks) /\ joysticks[Polled] \in Joystick
  BY <1>1, Polling
<1>4. \A id : Pressed(id)' = Pressed(id)
  BY <1>1 DEF Pressed
<1>5. KeysRight' /\ MotionsRight'
  BY <1>1, <1>4, ViewKept
<1>6. Asked'
  <2>1. looper'[1] = "joystick"
    BY <1>1
  <2> QED BY <1>1, <2>1 DEF Game, Asked
<1>7. Polled - 1 \in history.spoiled
  <2> SUFFICES ASSUME Polled - 1 \notin history.spoiled PROVE FALSE
    OBVIOUS
  <2> DEFINE bf == joysticks[Polled].buffer
  <2>1. \A i \in 1..Len(bf) : bf[i] # Dropped
    BY <1>3 DEF Game, BuffersRight, BufferRight, InOrder
  <2>2. bf \in Seq(Event) /\ bf # <<>> /\ Head(bf) = Dropped
    BY <1>1, <1>3 DEF Joystick
  <2> HIDE DEF bf
  <2>3. 1 \in 1..Len(bf) /\ bf[1] = Dropped
    BY <2>2
  <2> QED BY <2>1, <2>3
<1>8. BuffersRight'
  <2>1. Len(joysticks') = Len(joysticks)
    BY <1>2 DEF SameDevs
  <2> SUFFICES ASSUME NEW k \in 1..Len(joysticks), k - 1 \notin history.spoiled
               PROVE  BufferRight(joysticks'[k], gamepads[k - 1])
    BY <1>1, <2>1, GameNext
  <2>2. BufferRight(joysticks[k], gamepads[k - 1])
    BY DEF Game, BuffersRight
  <2>3. joysticks'[k] = joysticks[k]
    BY <1>2, <1>7
  <2> QED BY <2>2, <2>3
<1> QED BY <1>5, <1>6, <1>8 DEF Game

\* A key event changes the game's view to what the event says.
LEMMA HandleKeyGame == ASSUME Sound, Game, HandleKey PROVE Game'
<1>0. /\ keyEvents \in Seq(Ids \X BOOLEAN) /\ keyEvents # <<>> /\ view \in [Ids -> SUBSET Buttons]
  BY DEF Sound, Types, HandleKey
<1> DEFINE h == Head(keyEvents)
           v == IF h[2] THEN view[h[1]] \cup {"A"} ELSE view[h[1]] \ {"A"}
<1>1. /\ view' = [view EXCEPT ![h[1]] = v] /\ keyEvents' = Tail(keyEvents)
      /\ UNCHANGED <<joysticks, gamepads, needsQueueGamepadInput, motionEvents, looper, history>>
  BY DEF HandleKey, manager
<1>2. h \in Ids \X BOOLEAN
  BY <1>0
<1> HIDE DEF h
<1>3. h[1] \in Ids /\ h[2] \in BOOLEAN
  BY <1>2
<1>4. ("A" \in v <=> h[2] = TRUE) /\ \A c \in Directions : c \in v <=> c \in view[h[1]]
  <2>1. "A" \notin Directions
    BY DEF Directions, Axes
  <2> QED BY <1>3, <2>1
<1> HIDE DEF v
<1>5. \A id \in Ids : view'[id] = IF id = h[1] THEN v ELSE view[id]
  BY <1>0, <1>1
<1>6. \A id : Pressed(id)' = Pressed(id)
  BY <1>1 DEF Pressed
<1>7. KeysRight'
  <2> SUFFICES ASSUME NEW id \in Ids, id \notin history.spoiled
               PROVE  Settles(keyEvents', id, "A", view'[id], Pressed(id))
    BY <1>1, <1>6, GameNext
  <2> DEFINE F == view[id]
             F1 == view'[id]
             T == Pressed(id)
  <2>1. Settles(keyEvents, id, "A", F, T)
    BY DEF Game, KeysRight
  <2>2. \/ Head(keyEvents)[1] # id /\ ("A" \in F1 <=> "A" \in F)
        \/ Head(keyEvents)[1] = id /\ (Head(keyEvents)[2] = TRUE <=> "A" \in F1)
    BY <1>4, <1>5 DEF h
  <2> HIDE DEF F, F1, T
  <2>3. Settles(Tail(keyEvents), id, "A", F1, T)
    BY <1>0, <2>1, <2>2, SettlesTail
  <2> QED BY <1>1, <2>3 DEF F1, T
<1>8. MotionsRight'
  <2> SUFFICES ASSUME NEW id \in Ids, id \notin history.spoiled, id \notin history.shadowed,
                      \A i \in 1..Len(motionEvents) : motionEvents[i] # id
               PROVE  \A c \in Directions : c \in view'[id] <=> c \in Shown(Pressed(id))
    BY <1>1, <1>6, GameNext
  <2>1. \A c \in Directions : c \in view'[id] <=> c \in view[id]
    BY <1>4, <1>5
  <2>2. \A c \in Directions : c \in view[id] <=> c \in Shown(Pressed(id))
    BY DEF Game, MotionsRight
  <2> QED BY <2>1, <2>2
<1>9. Asked'
  BY <1>1 DEF Game, Asked
<1>10. BuffersRight'
  <2>1. \A k \in 1..Len(joysticks') : k - 1 \notin history'.spoiled =>
            BufferRight(joysticks'[k], gamepads'[k - 1])
    BY <1>1 DEF Game, BuffersRight
  <2> QED BY <2>1, GameNext
<1> QED BY <1>7, <1>8, <1>9, <1>10 DEF Game

\* A motion event makes the game look at the gamepad of now.
LEMMA HandleMotionGame == ASSUME Sound, Game, HandleMotion PROVE Game'
<1>0. /\ motionEvents \in Seq(Ids) /\ motionEvents # <<>> /\ view \in [Ids -> SUBSET Buttons]
      /\ looper = At("poll")
  BY DEF Sound, Types, HandleMotion
<1> DEFINE h == Head(motionEvents)
           v == (view[h] \ Directions) \cup axisFunction(h)
<1>1. /\ view' = [view EXCEPT ![h] = v] /\ motionEvents' = Tail(motionEvents)
      /\ UNCHANGED <<joysticks, gamepads, needsQueueGamepadInput, keyEvents, looper, history>>
  BY DEF HandleMotion, manager
<1>2. /\ h \in Ids /\ h = motionEvents[1] /\ Len(motionEvents) \in Nat /\ Len(motionEvents) >= 1
      /\ Len(motionEvents') = Len(motionEvents) - 1
      /\ \A i \in 1..(Len(motionEvents) - 1) : motionEvents'[i] = motionEvents[i + 1]
  BY <1>0, <1>1
<1> HIDE DEF h
<1>3. axisFunction(h) = Shown(Pressed(h)) /\ axisFunction(h) \subseteq Directions
  BY DEF axisFunction, Pressed, Shown
<1>4. (\A c \in Directions : c \in v <=> c \in Shown(Pressed(h))) /\ ("A" \in v <=> "A" \in view[h])
  <2>1. "A" \notin Directions
    BY DEF Directions, Axes
  <2> QED BY <1>3, <2>1
<1> HIDE DEF v
<1>5. \A id \in Ids : view'[id] = IF id = h THEN v ELSE view[id]
  BY <1>0, <1>1
<1>6. \A id : Pressed(id)' = Pressed(id)
  BY <1>1 DEF Pressed
<1>7. KeysRight'
  <2> SUFFICES ASSUME NEW id \in Ids, id \notin history.spoiled
               PROVE  Settles(keyEvents, id, "A", view'[id], Pressed(id))
    BY <1>1, <1>6, GameNext
  <2> DEFINE F == view[id]
             F1 == view'[id]
             T == Pressed(id)
  <2>1. Settles(keyEvents, id, "A", F, T)
    BY DEF Game, KeysRight
  <2>2. "A" \in F1 <=> "A" \in F
    BY <1>4, <1>5
  <2> HIDE DEF F, F1, T
  <2>3. Settles(keyEvents, id, "A", F1, T)
    BY <2>1, <2>2, SettlesSame
  <2> QED BY <2>3 DEF F1, T
<1>8. MotionsRight'
  <2> SUFFICES ASSUME NEW id \in Ids, id \notin history.spoiled, id \notin history.shadowed,
                      \A i \in 1..Len(motionEvents') : motionEvents'[i] # id
               PROVE  \A c \in Directions : c \in view'[id] <=> c \in Shown(Pressed(id))
    BY <1>1, <1>6, GameNext
  <2>1. CASE id = h
    BY <1>4, <1>5, <2>1
  <2>2. CASE id # h
    <3>1. ASSUME NEW i \in 1..Len(motionEvents) PROVE motionEvents[i] # id
      <4>1. CASE i = 1
        BY <1>2, <2>2, <4>1
      <4>2. CASE i # 1
        <5>1. i - 1 \in 1..(Len(motionEvents) - 1) /\ (i - 1) + 1 = i
          BY <1>2, <4>2
        <5> QED BY <1>2, <5>1
      <4> QED BY <4>1, <4>2
    <3>2. \A c \in Directions : c \in view[id] <=> c \in Shown(Pressed(id))
      BY <3>1 DEF Game, MotionsRight
    <3> QED BY <1>5, <2>2, <3>2
  <2> QED BY <2>1, <2>2
<1>9. Asked'
  <2>1. looper[1] # "joystick"
    BY <1>0 DEF At
  <2>2. ~(needsQueueGamepadInput = FALSE)
    BY <2>1 DEF Game, Asked
  <2> QED BY <1>1, <2>2 DEF Asked
<1>10. BuffersRight'
  <2>1. \A k \in 1..Len(joysticks') : k - 1 \notin history'.spoiled =>
            BufferRight(joysticks'[k], gamepads'[k - 1])
    BY <1>1 DEF Game, BuffersRight
  <2> QED BY <2>1, GameNext
<1> QED BY <1>7, <1>8, <1>9, <1>10 DEF Game

\* What onGamepadButton does: the gamepad has what was reported, and the game will hear of it.
SameOf(id, bs) == \A c \in bs : c \in gamepads'[id] <=> c \in gamepads[id]
Effect(id, bs, down) ==
    /\ id \in DOMAIN gamepads /\ DOMAIN gamepads' = DOMAIN gamepads
    /\ \A i \in DOMAIN gamepads : i # id => gamepads'[i] = gamepads[i]
    /\ \A c \in bs : c \in gamepads'[id] <=> c \in down
    /\ SameOf(id, Buttons \ bs)
    /\ history'.spoiled = history.spoiled
    /\ \/ keyEvents' = keyEvents /\ SameOf(id, {"A"})
       \/ bs = {"A"} /\ keyEvents' = Append(keyEvents, <<id, down # {}>>)
    /\ \/ /\ motionEvents' = motionEvents /\ history'.shadowed = history.shadowed
          /\ SameOf(id, Directions) \/ id \in ToSet(motionEvents)
       \/ motionEvents' = motionEvents /\ history'.shadowed = history.shadowed \cup {id}
       \/ motionEvents' = Append(motionEvents, id) /\ history'.shadowed = history.shadowed \ {id}
    /\ needsQueueGamepadInput' = FALSE => motionEvents' # <<>>

\* onGamepadButton has that effect.
LEMMA ButtonEffect ==
    ASSUME Sound, Game, NEW id \in 0..(Len(joysticks) - 1), NEW bs, bs = {"A"} \/ bs = Directions,
           NEW down, down \subseteq bs, onGamepadButton(id, bs, down)
    PROVE  Effect(id, bs, down)
<1>0. /\ gamepads \in [0..(Len(joysticks) - 1) -> SUBSET Buttons] /\ id \in DOMAIN gamepads
      /\ motionEvents \in Seq(Ids) /\ needsQueueGamepadInput \in BOOLEAN /\ history \in Happened
  BY DEF Sound, Types, Indices
<1>1. needsQueueGamepadInput = FALSE => motionEvents # <<>>
  BY DEF Game, Asked
<1>2. "A" \notin Directions /\ Directions \subseteq Buttons /\ "A" \in Buttons
  BY DEF Directions, Axes, Buttons
<1>3. CASE Unchanged(id, bs, down)
  <2>1. UNCHANGED <<gamepads, keyEvents, motionEvents, needsQueueGamepadInput, history>>
    BY <1>3 DEF onGamepadButton
  <2>2. \A c \in bs : c \in gamepads[id] <=> c \in down
    BY <1>3 DEF Unchanged
  <2>3. \A B : SameOf(id, B)
    BY <2>1 DEF SameOf
  <2> QED BY <1>0, <1>1, <2>1, <2>2, <2>3 DEF Effect
<1>4. CASE ~Unchanged(id, bs, down)
  <2> DEFINE g == (gamepads[id] \ bs) \cup down
  <2>1. gamepads' = [gamepads EXCEPT ![id] = g]
    BY <1>0, <1>4 DEF onGamepadButton
  <2>2. (\A c \in bs : c \in g <=> c \in down) /\ \A c : c \notin bs => (c \in g <=> c \in gamepads[id])
    OBVIOUS
  <2> HIDE DEF g
  <2>3. /\ gamepads'[id] = g /\ DOMAIN gamepads' = DOMAIN gamepads
        /\ \A i \in DOMAIN gamepads : i # id => gamepads'[i] = gamepads[i]
    BY <1>0, <2>1
  <2>4. SameOf(id, Buttons \ bs) /\ \A c \in bs : c \in gamepads'[id] <=> c \in down
    BY <2>2, <2>3 DEF SameOf
  <2>5. CASE bs = {"A"}
    <3>1. /\ keyEvents' = Append(keyEvents, <<id, down # {}>>)
          /\ UNCHANGED <<motionEvents, needsQueueGamepadInput, history>>
      BY <1>0, <1>4, <2>5 DEF onGamepadButton
    <3>2. SameOf(id, Directions)
      BY <1>2, <2>2, <2>3, <2>5 DEF SameOf
    <3> QED BY <1>0, <1>1, <2>3, <2>4, <2>5, <3>1, <3>2 DEF Effect
  <2>6. CASE bs = Directions
    <3>0. bs # {"A"}
      BY <1>2, <2>6
    <3>1. SameOf(id, {"A"})
      BY <1>2, <2>2, <2>3, <2>6 DEF SameOf
    <3>2. keyEvents' = keyEvents
      BY <1>0, <1>4, <3>0 DEF onGamepadButton
    <3>3. CASE needsQueueGamepadInput
      <4>1. /\ motionEvents' = Append(motionEvents, id)
            /\ history' = [history EXCEPT !.shadowed = @ \ {id}]
        BY <1>0, <1>4, <3>0, <3>3 DEF onGamepadButton
      <4>2. history'.spoiled = history.spoiled /\ history'.shadowed = history.shadowed \ {id}
        BY <1>0, <4>1 DEF Happened
      <4>3. motionEvents' # <<>>
        BY <1>0, <4>1, SMTT(60)
      <4> QED BY <1>0, <2>3, <2>4, <3>1, <3>2, <4>1, <4>2, <4>3 DEF Effect
    <3>4. CASE ~needsQueueGamepadInput
      <4>1. motionEvents # <<>> /\ motionEvents' = motionEvents
        BY <1>0, <1>1, <1>4, <3>0, <3>4 DEF onGamepadButton
      <4>2. CASE id \in ToSet(motionEvents)
        <5>1. history' = history
          BY <1>0, <1>4, <3>0, <3>4, <4>2 DEF onGamepadButton
        <5> QED BY <1>0, <2>3, <2>4, <3>1, <3>2, <4>1, <4>2, <5>1 DEF Effect
      <4>3. CASE id \notin ToSet(motionEvents)
        <5>1. history' = [history EXCEPT !.shadowed = @ \cup {id}]
          BY <1>0, <1>4, <3>0, <3>4, <4>1, <4>3 DEF onGamepadButton
        <5>2. history'.spoiled = history.spoiled /\ history'.shadowed = history.shadowed \cup {id}
          BY <1>0, <5>1 DEF Happened
        <5> QED BY <1>0, <2>3, <2>4, <3>1, <3>2, <4>1, <5>2 DEF Effect
      <4> QED BY <4>2, <4>3
    <3> QED BY <3>3, <3>4
  <2> QED BY <2>5, <2>6
<1> QED BY <1>3, <1>4

\* F1 are the buttons F after the window was told which of bs are down.
Follows(F, F1, bs, down) == /\ \A c \in bs : c \in F1 <=> c \in down
                            /\ \A c \in Buttons \ bs : c \in F1 <=> c \in F

\* The buffer and the hat of a joystick that was read stay right for the buttons passed on.
LEMMA PassedRight ==
    ASSUME NEW js \in Joystick, NEW new, NEW F, NEW F1, BufferRight(js, F),
           NEW e \in Report, NEW bs, NEW down, Passed(js.buffer, e, js.hat, new.hat, bs, down),
           new.down = js.down, new.known = js.known, new.buffer = Tail(js.buffer),
           Follows(F, F1, bs, down)
    PROVE  BufferRight(new, F1)
<1>0. (\A c \in bs : c \in F1 <=> c \in down) /\ \A c \in Buttons \ bs : c \in F1 <=> c \in F
  BY DEF Follows
<1>1. PICK bf, t, D, K : bf = js.buffer /\ t = Tail(bf) /\ D = js.down /\ K = js.known
  OBVIOUS
<1>2. /\ new.buffer = t /\ new.down = D /\ new.known = K /\ K \subseteq Buttons
      /\ bf \in Seq(Event) /\ bf # <<>> /\ Head(bf) = e
  BY <1>1 DEF Passed, Joystick
<1>3. InOrder(bf) /\ WholeAxes(js) /\ HatRight(js, F) /\ \A c \in K : Tells(bf, c, F, D)
  BY <1>1 DEF BufferRight
<1>4. InOrder(t)
  <2>1. /\ Len(bf) \in Nat /\ Len(t) = Len(bf) - 1
        /\ \A i \in 1..(Len(bf) - 1) : t[i] = bf[i + 1] /\ i + 1 \in 1..Len(bf)
    BY <1>1, <1>2
  <2>2. Len(t) <= EvdevLimit
    BY <1>3, <2>1, PadAssumption DEF InOrder
  <2>3. \A i \in 1..Len(t) : t[i] # Dropped
    BY <1>3, <2>1 DEF InOrder
  <2> QED BY <2>2, <2>3 DEF InOrder
<1>5. WholeAxes(new)
  BY <1>1, <1>2, <1>3 DEF WholeAxes
<1>6. /\ "A" \notin Directions /\ Directions \subseteq Buttons /\ Unwritten \notin SUBSET Directions
      /\ Buttons \ Directions = {"A"}
  BY DEF Directions, Axes, Buttons, Unwritten
<1>7. HatRight(new, F1) /\ \A c \in K : \/ c \notin e[1] /\ (c \in F1 <=> c \in F)
                                        \/ c \in e[1] /\ (c \in e[2] <=> c \in F1)
                                        \/ About(t, c)
  <2>1. CASE e \in Presses
    <3>1. e[1] = {"A"} /\ e \notin Moves
      BY <2>1, ReportIs
    <3>2. new.hat = js.hat /\ bs = e[1] /\ down = e[2]
      BY <3>1 DEF Passed
    <3>3. ASSUME NEW c \in Directions PROVE c \in Buttons /\ c \notin e[1] /\ (c \in F1 <=> c \in F)
      BY <1>0, <1>6, <3>1, <3>2
    <3>4. HatRight(new, F1)
      <4>1. CASE js.hat = Unwritten
        <5>1. ASSUME NEW c \in K \cap Directions PROVE About(t, c)
          <6>1. About(bf, c) /\ c \notin Head(bf)[1]
            BY <1>1, <1>2, <1>3, <3>3, <4>1 DEF HatRight
          <6> QED BY <1>1, <1>2, <6>1, AboutTail
        <5> QED BY <1>2, <3>2, <4>1, <5>1 DEF HatRight
      <4>2. CASE js.hat # Unwritten
        BY <1>3, <3>2, <3>3, <4>2 DEF HatRight
      <4> QED BY <4>1, <4>2
    <3> QED BY <1>0, <1>2, <3>2, <3>4
  <2>2. CASE e \in Moves
    <3>1. e[1] \subseteq Directions /\ "A" \notin e[1] /\ e[2] \subseteq e[1]
      BY <2>2, ReportIs
    <3>2. e \notin Presses
      BY <3>1, ReportIs
    <3>3. bs = Directions /\ new.hat = down
      BY <3>2 DEF Passed
    <3>4. PICK v \in SUBSET Directions : /\ down = (v \ e[1]) \cup e[2]
                                         /\ js.hat # Unwritten => v = js.hat
      <4>1. Merged(e, js.hat, down)
        BY <3>2 DEF Passed
      <4> QED BY <4>1 DEF Merged
    <3>5. new.hat # Unwritten
      BY <1>6, <3>1, <3>3, <3>4
    <3>6. HatRight(new, F1)
      BY <1>0, <3>3, <3>5 DEF HatRight
    <3>7. ASSUME NEW c \in K
          PROVE  \/ c \notin e[1] /\ (c \in F1 <=> c \in F)
                 \/ c \in e[1] /\ (c \in e[2] <=> c \in F1)
                 \/ About(t, c)
      <4>1. CASE c \notin Directions
        BY <1>0, <1>2, <3>1, <3>3, <3>7, <4>1
      <4>2. CASE c \in e[1]
        BY <1>0, <3>1, <3>3, <3>4, <4>2
      <4>3. CASE c \in Directions /\ c \notin e[1] /\ js.hat # Unwritten
        <5>1. c \in F1 <=> c \in js.hat
          BY <1>0, <3>1, <3>3, <3>4, <4>3
        <5>2. c \in js.hat <=> c \in F
          BY <1>3, <4>3 DEF HatRight
        <5> QED BY <4>3, <5>1, <5>2
      <4>4. CASE c \in Directions /\ c \notin e[1] /\ js.hat = Unwritten
        <5>1. About(bf, c) /\ c \notin Head(bf)[1]
          BY <1>1, <1>2, <1>3, <3>7, <4>4 DEF HatRight
        <5>2. About(t, c)
          BY <1>1, <1>2, <5>1, AboutTail
        <5> QED BY <5>2
      <4> QED BY <4>1, <4>2, <4>3, <4>4
    <3> QED BY <3>6, <3>7
  <2> QED BY <2>1, <2>2 DEF Report
<1>8. ASSUME NEW c \in K PROVE Tells(t, c, F1, D)
  <2>1. /\ Tells(bf, c, F, D)
        /\ \/ c \notin Head(bf)[1] /\ (c \in F1 <=> c \in F)
           \/ c \in Head(bf)[1] /\ (c \in Head(bf)[2] <=> c \in F1)
           \/ About(Tail(bf), c)
    BY <1>1, <1>2, <1>3, <1>7, <1>8
  <2>2. Tells(Tail(bf), c, F1, D)
    BY <1>2, <2>1, TellsTail
  <2> QED BY <1>1, <2>2
<1> QED BY <1>2, <1>4, <1>5, <1>7, <1>8 DEF BufferRight

\* An event of a joystick is read.
LEMMA PollJoystickGame == ASSUME Sound, Game, PollJoystick PROVE Game'
<1>0. /\ keyEvents \in Seq(Ids \X BOOLEAN) /\ motionEvents \in Seq(Ids)
      /\ joysticks \in Seq(Joystick)
  BY DEF Sound, Types
<1>1. Polled \in DOMAIN joysticks /\ UNCHANGED <<looper, view>>
  BY DEF PollJoystick
<1>2. PICK e \in Report, hat1 \in Hats, bs, down \in SUBSET Buttons : Handled(e, hat1, bs, down)
  BY EventRead
<1>3. PICK p, id, dn : p = Polled /\ id = p - 1 /\ dn = (down # {})
  OBVIOUS
<1>4. /\ Passed(joysticks[p].buffer, e, joysticks[p].hat, hat1, bs, down)
      /\ Read(p, Tail(joysticks[p].buffer), hat1) /\ onGamepadButton(id, bs, down)
  BY <1>2, <1>3 DEF Handled
<1>5. /\ p \in 1..Len(joysticks) /\ id \in 0..(Len(joysticks) - 1) /\ id \in Ids
      /\ looper = <<"joystick", p>> /\ Len(joysticks) \in Nat
  <2>1. /\ Polled \in 1..Len(joysticks) /\ Polled - 1 \in 0..(Len(joysticks) - 1)
        /\ Polled - 1 \in Ids /\ looper = <<"joystick", Polled>>
    BY <1>1, Polling
  <2> HIDE DEF Polled
  <2> QED BY <1>0, <1>3, <2>1
<1>6. (bs = {"A"} \/ bs = Directions) /\ down \subseteq bs
  <2>1. e[2] \subseteq e[1] /\ (e \in Presses => e[1] = {"A"})
        /\ (e \in Moves => e[1] \subseteq Directions)
    BY ReportIs
  <2>2. e \in Moves /\ Merged(e, joysticks[p].hat, down) => down \subseteq Directions
    BY <2>1 DEF Merged
  <2> QED BY <1>4, <2>1, <2>2 DEF Passed
<1>7. Effect(id, bs, down)
  BY <1>4, <1>5, <1>6, ButtonEffect
<1>8. /\ id \in DOMAIN gamepads /\ DOMAIN gamepads' = DOMAIN gamepads
      /\ \A i \in DOMAIN gamepads : i # id => gamepads'[i] = gamepads[i]
      /\ history'.spoiled = history.spoiled
      /\ needsQueueGamepadInput' = FALSE => motionEvents' # <<>>
  BY <1>7 DEF Effect
<1>9. /\ Pressed(id)' = gamepads'[id] /\ Pressed(id) = gamepads[id]
      /\ \A i \in Ids : i # id => Pressed(i)' = Pressed(i)
  BY <1>8 DEF Pressed
<1>10. Asked'
  <2>1. looper'[1] = "joystick"
    BY <1>1, <1>5
  <2> QED BY <1>8, <2>1 DEF Asked
<1>11. KeysRight'
  <2> SUFFICES ASSUME NEW i \in Ids, i \notin history.spoiled
               PROVE  Settles(keyEvents', i, "A", view[i], Pressed(i)')
    BY <1>1, <1>8, GameNext
  <2>1. PICK F, T, T1 : F = view[i] /\ T = Pressed(i) /\ T1 = Pressed(i)'
    OBVIOUS
  <2>2. Settles(keyEvents, i, "A", F, T)
    BY <2>1 DEF Game, KeysRight
  <2>3. i # id => T1 = T
    BY <1>9, <2>1
  <2>4. CASE keyEvents' = keyEvents /\ SameOf(id, {"A"})
    <3>1. "A" \in gamepads'[id] <=> "A" \in gamepads[id]
      BY <2>4 DEF SameOf
    <3>2. "A" \in T1 <=> "A" \in T
      BY <1>9, <2>1, <2>3, <3>1
    <3>3. Settles(keyEvents, i, "A", F, T1)
      BY <2>2, <3>2, SettlesSame
    <3> QED BY <2>1, <2>4, <3>3
  <2>5. CASE bs = {"A"} /\ keyEvents' = Append(keyEvents, <<id, down # {}>>)
    <3>1. dn \in BOOLEAN /\ (dn = TRUE <=> "A" \in down)
      <4>1. down # {} <=> "A" \in down
        BY <1>6, <2>5
      <4> QED BY <1>3, <4>1
    <3>2. PICK x : x = <<id, dn>>
      OBVIOUS
    <3>3. x[1] = id /\ x[2] = dn /\ x \in Ids \X BOOLEAN
      BY <1>5, <3>1, <3>2
    <3>4. i = id => ("A" \in T1 <=> dn = TRUE)
      <4>1. "A" \in gamepads'[id] <=> "A" \in down
        BY <1>7, <2>5 DEF Effect
      <4> QED BY <1>9, <2>1, <3>1, <4>1
    <3>5. \/ x[1] # i /\ Settles(keyEvents, i, "A", F, T) /\ ("A" \in T1 <=> "A" \in T)
          \/ x[1] = i /\ (x[2] = TRUE <=> "A" \in T1)
      BY <2>2, <2>3, <3>3, <3>4
    <3>6. Settles(Append(keyEvents, x), i, "A", F, T1)
      BY <1>0, <3>3, <3>5, SettlesAppend
    <3>7. keyEvents' = Append(keyEvents, x)
      BY <1>3, <2>5, <3>2
    <3> QED BY <2>1, <3>6, <3>7
  <2> QED BY <1>7, <2>4, <2>5 DEF Effect
<1>12. MotionsRight'
  <2>0. \/ /\ motionEvents' = motionEvents /\ history'.shadowed = history.shadowed
           /\ SameOf(id, Directions) \/ id \in ToSet(motionEvents)
        \/ motionEvents' = motionEvents /\ history'.shadowed = history.shadowed \cup {id}
        \/ motionEvents' = Append(motionEvents, id) /\ history'.shadowed = history.shadowed \ {id}
    BY <1>7 DEF Effect
  <2> SUFFICES ASSUME NEW i \in Ids, i \notin history.spoiled, i \notin history'.shadowed,
                      \A m \in 1..Len(motionEvents') : motionEvents'[m] # i
               PROVE  \A c \in Directions : c \in view[i] <=> c \in Shown(Pressed(i)')
    BY <1>1, <1>8, GameNext
  <2>1. /\ \A m \in 1..Len(motionEvents) : motionEvents[m] # i
        /\ motionEvents' = Append(motionEvents, id) => i # id
    <3>1. CASE motionEvents' = motionEvents
      <4>1. motionEvents # Append(motionEvents, id)
        <5>1. Len(Append(motionEvents, id)) = Len(motionEvents) + 1 /\ Len(motionEvents) \in Nat
          BY <1>0, <1>5
        <5> QED BY <5>1
      <4> QED BY <3>1, <4>1
    <3>2. CASE motionEvents' = Append(motionEvents, id)
      <4> DEFINE L == Len(motionEvents)
      <4>1. /\ L \in Nat /\ Len(motionEvents') = L + 1 /\ motionEvents'[L + 1] = id
            /\ \A m \in 1..L : motionEvents'[m] = motionEvents[m]
        BY <1>0, <1>5, <3>2
      <4> HIDE DEF L
      <4>2. L + 1 \in 1..(L + 1) /\ \A m \in 1..L : m \in 1..(L + 1)
        BY <4>1
      <4> QED BY <4>1, <4>2 DEF L
    <3> QED BY <2>0, <3>1, <3>2
  <2>2. i \notin history.shadowed => \A c \in Directions : c \in view[i] <=> c \in Shown(Pressed(i))
    BY <2>1 DEF Game, MotionsRight
  <2>3. CASE i # id
    <3>1. i \notin history.shadowed
      BY <2>0, <2>3
    <3> QED BY <1>9, <2>2, <2>3, <3>1
  <2>4. CASE i = id
    <3>1. id \notin ToSet(motionEvents)
      BY <1>0, <2>1, <2>4 DEF ToSet
    <3>2. history'.shadowed = history.shadowed /\ SameOf(id, Directions)
      BY <2>0, <2>1, <2>4, <3>1
    <3>3. PICK G, G1 : G = Pressed(i) /\ G1 = Pressed(i)'
      OBVIOUS
    <3>4. \A c \in Directions : c \in G <=> c \in G1
      BY <1>9, <2>4, <3>2, <3>3 DEF SameOf
    <3>5. \A c \in Directions : c \in Shown(G) <=> c \in Shown(G1)
      BY <3>4, ShownSame
    <3> QED BY <2>2, <2>4, <3>2, <3>3, <3>5
  <2> QED BY <2>3, <2>4
<1>13. BuffersRight'
  <2>0. Len(joysticks') = Len(joysticks)
    BY <1>4 DEF Read, SameDevs
  <2> SUFFICES ASSUME NEW k \in 1..Len(joysticks), k - 1 \notin history.spoiled
               PROVE  BufferRight(joysticks'[k], gamepads'[k - 1])
    BY <1>8, <2>0, GameNext
  <2>1. PICK js, new, F, F1 : /\ js = joysticks[k] /\ new = joysticks'[k]
                              /\ F = gamepads[k - 1] /\ F1 = gamepads'[k - 1]
    OBVIOUS
  <2>2. BufferRight(js, F) /\ js \in Joystick
    BY <1>0, <2>1 DEF Game, BuffersRight
  <2>3. CASE k # p
    <3>1. k - 1 \in 0..(Len(joysticks) - 1) /\ k - 1 # id
      BY <1>3, <1>5, <2>3
    <3>2. F1 = F
      <4>1. k - 1 \in DOMAIN gamepads
        BY <3>1 DEF Sound, Indices
      <4> QED BY <1>8, <2>1, <3>1, <4>1
    <3>3. new = js
      BY <1>4, <2>1, <2>3 DEF Read
    <3> QED BY <2>1, <2>2, <3>2, <3>3
  <2>4. CASE k = p
    <3>1. F1 = gamepads'[id] /\ F = gamepads[id]
      BY <1>3, <2>1, <2>4
    <3>2. /\ new.down = js.down /\ new.known = js.known
          /\ new.buffer = Tail(js.buffer) /\ new.hat = hat1
      BY <1>4, <2>1, <2>4 DEF Read, Kept
    <3>3. Passed(js.buffer, e, js.hat, new.hat, bs, down)
      BY <1>4, <2>1, <2>4, <3>2
    <3>4. Follows(F, F1, bs, down)
      BY <1>7, <3>1 DEF Follows, Effect, SameOf
    <3>5. BufferRight(new, F1)
      BY <2>2, <3>2, <3>3, <3>4, PassedRight
    <3> QED BY <2>1, <3>5
  <2> QED BY <2>3, <2>4
<1> QED BY <1>10, <1>11, <1>12, <1>13 DEF Game

\* The inductive invariant of GameIsRight.
GInv == (Sound /\ Game) \/ (~Unread /\ history.gap = TRUE /\ "gap" \in DOMAIN history)

\* It holds always.
LEMMA GInvHolds == PadSpec => []GInv
<1>1. PadInit => GInv
  BY InitSound, InitGame DEF GInv
<1>2. GInv /\ [PadNext]_padVars => GInv'
  <2> SUFFICES ASSUME GInv, [PadNext]_padVars PROVE GInv'
    OBVIOUS
  <2>1. CASE ~Unread /\ history.gap = TRUE /\ "gap" \in DOMAIN history
    BY <2>1, GapStays DEF GInv
  <2>2. CASE Sound /\ Game
    <3>1. CASE history'.gap # TRUE \/ ~PollMonitor
      <4>1. Sound'
        BY <2>2, <3>1, SoundStep
      <4>2. Game'
        <5>1. CASE \E d \in Devices : Unplug(d)
          BY <2>2, <5>1, UnplugGame
        <5>2. CASE \E d \in Devices, e \in Reports : Change(d, e)
          BY <2>2, <5>2, ChangeGame, ReportsAre
        <5>3. CASE PollMonitor
          BY <2>2, <3>1, <5>3, PollMonitorGame
        <5>4. CASE Enumerate \/ PollJoystick \/ SyncDropped \/ HandleKey \/ HandleMotion
          BY <2>2, <5>4, EnumerateGame, PollJoystickGame, SyncDroppedGame, HandleKeyGame,
             HandleMotionGame
        <5>5. CASE \/ StartMonitor \/ Attach \/ (\E f \in BOOLEAN : onWindowFocused(f)) \/ Update
                   \/ MonitorEmpty \/ JoystickEmpty \/ PollReturns \/ (\E d \in Devices : Plug(d))
                   \/ UNCHANGED padVars
          BY <2>2, <5>5, GameOther
        <5> QED BY <5>1, <5>2, <5>3, <5>4, <5>5 DEF PadNext, LooperStep
      <4> QED BY <4>1, <4>2 DEF GInv
    <3>2. CASE history'.gap = TRUE /\ PollMonitor
      <4>1. "gap" \in DOMAIN history
        <5>1. history \in Happened
          BY <2>2 DEF Sound, Types
        <5> QED BY <5>1 DEF Happened
      <4>2. ~Unread
        BY <3>2, PlacesDiffer DEF PollMonitor, Unread
      <4> QED BY <3>2, <4>1, <4>2, GapStays DEF GInv
    <3> QED BY <3>1, <3>2
  <2> QED BY <2>1, <2>2 DEF GInv
<1> QED BY <1>1, <1>2, PTL DEF PadSpec

\* However the devices, the window and the game interleave, and whatever was in the memory of
\* hatValues: when nothing is on its way the game takes exactly those buttons to be down that
\* the device last reported down, except where a gamepad went with a button down, the kernel
\* dropped events or, for directions, another gamepad's motion event took its place or the
\* device has not reported their axis yet.
THEOREM GameIsRightHolds == PadSpec => []GameIsRight
<1>1. GInv => GameIsRight
  <2> SUFFICES ASSUME GInv, Quiet, ~history.gap, NEW k \in DOMAIN joysticks,
                      joysticks[k].id \notin history.spoiled, NEW known,
                      known = joysticks[k].known \ (IF joysticks[k].id \in history.shadowed
                                                    THEN Directions ELSE {})
               PROVE  view[joysticks[k].id] \cap known = joysticks[k].down \cap known
    BY DEF GameIsRight
  <2>1. Sound /\ Game
    BY DEF GInv
  <2>2. PICK n, id, js : n = Len(joysticks) /\ id = k - 1 /\ js = joysticks[k]
    OBVIOUS
  <2>3. /\ n \in Nat /\ k \in 1..n /\ js.id = id /\ js \in Joystick
        /\ js.buffer = <<>> /\ keyEvents = <<>> /\ motionEvents = <<>>
    BY <2>1, <2>2 DEF Sound, Types, Indices, Quiet, HasEvents
  <2>4. id \in Ids /\ id \in 0..(n - 1)
    <3>1. /\ n + Len(udev) <= Cardinality(Devices) + events
          /\ Len(udev) \in Nat /\ events \in Nat /\ events <= MaxEvents
      BY <2>1, <2>2 DEF Sound, Types, Count
    <3>2. Cardinality(Devices) \in Nat /\ MaxEvents \in Nat
      BY PadAssumption, FS_CardinalityType
    <3> QED BY <2>2, <2>3, <3>1, <3>2 DEF Ids
  <2>5. PICK V, G, D, K : V = view[id] /\ G = gamepads[id] /\ D = js.down /\ K = js.known
    OBVIOUS
  <2>6. Len(js.buffer) = 0 /\ Len(keyEvents) = 0 /\ Len(motionEvents) = 0
    BY <2>3
  <2>7. Pressed(id) = G
    BY <2>1, <2>2, <2>4, <2>5 DEF Sound, Indices, Pressed
  <2>8. id \notin history.spoiled
    BY <2>2, <2>3
  <2>9. BufferRight(js, G)
    <3>1. k \in 1..Len(joysticks) /\ k - 1 \notin history.spoiled
      BY <2>2, <2>3, <2>8
    <3>2. BufferRight(joysticks[k], gamepads[k - 1])
      BY <2>1, <3>1 DEF Game, BuffersRight
    <3> QED BY <2>2, <2>5, <3>2
  <2>10. \A b \in K : b \in G <=> b \in D
    BY <2>5, <2>6, <2>9 DEF BufferRight, Tells
  <2>11. /\ "right" \in K => "left" \in K
         /\ "down" \in K => "up" \in K
         /\ ~("left" \in D /\ "right" \in D) /\ ~("up" \in D /\ "down" \in D)
         /\ K \subseteq Buttons
    BY <2>3, <2>5, <2>9 DEF BufferRight, WholeAxes, Joystick
  <2>12. "A" \in V <=> "A" \in G
    <3>1. Settles(keyEvents, id, "A", V, G)
      BY <2>1, <2>4, <2>5, <2>7, <2>8 DEF Game, KeysRight
    <3> QED BY <2>6, <3>1 DEF Settles
  <2>13. id \notin history.shadowed => \A c \in Directions : c \in V <=> c \in Shown(G)
    <3> SUFFICES ASSUME id \notin history.shadowed
                 PROVE  \A c \in Directions : c \in V <=> c \in Shown(G)
      OBVIOUS
    <3>1. \A i \in 1..Len(motionEvents) : motionEvents[i] # id
      BY <2>6
    <3>2. \A c \in Directions : c \in view[id] <=> c \in Shown(Pressed(id))
      BY <2>1, <2>4, <2>8, <3>1 DEF Game, MotionsRight
    <3> QED BY <2>5, <2>7, <3>2
  <2>14. known = K \ (IF id \in history.shadowed THEN Directions ELSE {})
    BY <2>2, <2>3, <2>5
  <2>15. ASSUME NEW c \in known PROVE c \in V <=> c \in D
    <3>1. c \in K /\ (c \in Directions => id \notin history.shadowed) /\ c \in Buttons
      BY <2>11, <2>14, <2>15
    <3>2. CASE c = "A"
      BY <2>10, <2>12, <3>1, <3>2
    <3>3. CASE c \in Directions
      <4>1. c \in V <=> c \in Shown(G)
        BY <2>13, <3>1, <3>3
      <4>2. c \in Shown(G) <=> /\ c \in G
                               /\ c = "right" => "left" \notin G
                               /\ c = "down" => "up" \notin G
        BY <3>3 DEF Shown
      <4>3. c \in G => (c = "right" => "left" \notin G) /\ (c = "down" => "up" \notin G)
        BY <2>10, <2>11, <3>1
      <4> QED BY <2>10, <3>1, <4>1, <4>2, <4>3
    <3> QED BY <3>1, <3>2, <3>3 DEF Buttons
  <2>16. V \cap known = D \cap known
    BY <2>15
  <2> QED BY <2>2, <2>3, <2>5, <2>16
<1> QED BY <1>1, GInvHolds, PTL

=============================================================================
