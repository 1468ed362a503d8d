--------------------------- MODULE SlotTimerProofs ---------------------------
(***************************************************************************)
(* Proofs about SlotTimer, for every size of the wheel: the type           *)
(* invariant, that the lists and the count agree with the elements, that   *)
(* a callback is early by no more ticks than the loop was late with, and   *)
(* that the wheel implements TimerQueue.                                   *)
(***************************************************************************)
EXTENDS SlotTimer, FiniteSetTheorems, WellFoundedInduction, TLAPS

-----------------------------------------------------------------------------
(***************************************************************************)
(* The inductive invariant                                                 *)
(***************************************************************************)
ElementRecord == [running: BOOLEAN, tick: 0 .. MaxTime, interval: 0 .. MaxInterval,
                  array: Array, slot: Nat]

LoopRecord ==
    [at: {"waiting", "run", "callback", "move", "drain", "stopped", "broken"},
     actTick: Nat, calls: Nat, array: Array, calling: SUBSET Element, due: Nat]

\* slotList is a function of functions of sequences.
IsLists(lists) ==
    /\ lists = [j \in Array |-> lists[j]]
    /\ \A j \in Array : lists[j] \in [Slot(j) -> Seq(Element)]

WheelOK ==
    /\ actSlot \in [Array -> Nat] /\ \A j \in Array : actSlot[j] \in Slot(j)
    /\ offset \in [Array -> Nat]

LoopOK ==
    /\ now \in Nat /\ expiry \in Nat
    /\ loop \in LoopRecord
    /\ running \in BOOLEAN /\ stopEvent \in BOOLEAN /\ late \in Nat
    /\ stopping \in SUBSET Element

\* A handle names a list, that of an element which was just unlinked too.
ListsOK ==
    /\ IsLists(slotList)
    /\ elem \in [Element -> ElementRecord]
    /\ \A e \in Element : elem[e].slot \in Slot(elem[e].array)

\* An element is in a list exactly when it runs, once, and in the list that its
\* handle names.
Links(lists, el) ==
    /\ \A j \in Array : \A k \in Slot(j) :
         /\ IsInjective(lists[j][k])
         /\ \A e \in Range(lists[j][k]) : el[e].running /\ el[e].array = j /\ el[e].slot = k
    /\ \A e \in Element :
         el[e].running => /\ el[e].slot \in Slot(el[e].array)
                          /\ e \in Range(lists[el[e].array][el[e].slot])

Running(el) == {e \in Element : el[e].running}

Counted == IsFiniteSet(Running(elem)) /\ count = Cardinality(Running(elem))

\* Array j has begun its next round, and array j + 1 has not moved yet.
Ahead(j) ==
    \/ loop.at = "drain" /\ loop.array = j
    \/ loop.at = "move" /\ loop.array = j + 1

\* Where the round of array j ends, as far as array j + 1 knows.
RoundEnd(j) == IF Ahead(j) THEN offset[j] ELSE offset[j] + TicksPerArray(j)

\* The next array begins where the round of an array ends.
Aligned == \A j \in 1 .. Levels - 1 : TickBegin(j + 1) = RoundEnd(j)

\* An array is drained when it is at its first slot; the slot it moves from is
\* empty; the last array does not move.
Turning ==
    /\ loop.at \in {"waiting", "run", "callback"} => loop.array = 1
    /\ loop.at = "drain" => loop.array # LastArray /\ actSlot[loop.array] = 0
    /\ loop.at = "move" => slotList[loop.array][actSlot[loop.array]] = <<>>
    /\ actSlot[LastArray] = 0 /\ offset[LastArray] = InitOffset[LastArray]

\* The first tick of a slot: those before the current one are of the next round.
SlotBegin(j, k) ==
    offset[j] + k * TicksPerSlot[j] + (IF k < actSlot[j] THEN TicksPerArray(j) ELSE 0)

\* An element is in the slot of its tick.  Only the current slot of the first
\* array has elements that are overdue; the first slot of the last array has all
\* that is far away.
InWindow(j, k, tick) ==
    \/ j = LastArray /\ k = 0 /\ tick >= RoundEnd(Levels)
    \/ /\ j # LastArray
       /\ tick < SlotBegin(j, k) + TicksPerSlot[j]
       /\ tick >= SlotBegin(j, k) \/ (j = 1 /\ k = actSlot[1])

Placed ==
    \A e \in Element : elem[e].running => InWindow(elem[e].array, elem[e].slot, elem[e].tick)

Resting == loop.at \in {"waiting", "stopped", "broken"}

\* The first array has moved in this turn of the loop.
Moved ==
    \/ loop.at \in {"drain", "stopped", "broken"}
    \/ loop.at = "move" /\ loop.array # 1

Clock ==
    /\ now <= MaxTick
    /\ Resting => expiry <= MaxTick + 1
    /\ ~Resting => expiry <= now /\ loop.actTick <= now
    /\ Position <= now + expiry + (IF Moved THEN 1 ELSE 0)
    /\ late <= now
    /\ loop.at = "waiting" => Position <= expiry + late /\ now <= expiry + late
    /\ ~Resting => /\ now <= expiry + late
                   /\ Position <= expiry + late + (IF Moved THEN 1 ELSE 0)
    /\ loop.at = "callback" => loop.due <= now + late

WheelInv ==
    /\ WheelOK /\ ListsOK /\ Links(slotList, elem) /\ Counted
    /\ Aligned /\ Turning /\ Placed

IndInv == LoopOK /\ WheelInv /\ Clock

-----------------------------------------------------------------------------
(***************************************************************************)
(* Arithmetic.  The widths of the arrays and their first offsets are       *)
(* defined by recursion; that such functions exist follows from the least  *)
(* number up to which they would not.                                      *)
(***************************************************************************)
\* A set of natural numbers that is not empty has a least element.
LEMMA Least ==
    ASSUME NEW T \in SUBSET Nat, T # {}
    PROVE  \E m \in T : \A k \in T : m <= k
<1> DEFINE R == {p \in Nat \X Nat : p[1] < p[2]}
<1>1. R = OpToRel(<, Nat)
  BY DEF OpToRel
<1>2. IsWellFoundedOn(R, Nat)
  BY <1>1, NatLessThanWellFounded
<1>3. PICK m \in T : \A y \in T : ~(<<y, m>> \in R)
  <2> HIDE DEF R
  <2> QED
    BY <1>2, WFMin
<1>4. \A y \in T : y \in Nat /\ m \in Nat /\ ~(y < m)
  BY <1>3
<1>5. QED
  BY <1>4

LEMMA ProductNat ==
    \A x, y, z \in Nat : x * y + z \in Nat
OBVIOUS

Follows(g, n, a, b, c) ==
    \A j \in 1 .. n : g[j] = IF j = 1 THEN c ELSE a[j - 1] * g[j - 1] + b[j - 1]

\* A sequence of numbers given by its first and by a linear recurrence exists.
LEMMA Recurrence ==
    ASSUME NEW a \in [Nat -> Nat], NEW b \in [Nat -> Nat], NEW c \in Nat
    PROVE  \A n \in Nat : \E g \in [1 .. n -> Nat] : Follows(g, n, a, b, c)
<1> DEFINE T == {n \in Nat : ~\E g \in [1 .. n -> Nat] : Follows(g, n, a, b, c)}
<1>1. SUFFICES ASSUME T # {} PROVE FALSE
  OBVIOUS
<1>2. PICK m \in T : \A k \in T : m <= k
  BY <1>1, Least
<1>3. CASE m = 0
  <2>1. [i \in 1 .. 0 |-> 0] \in [1 .. m -> Nat]
    BY <1>3
  <2>2. Follows([i \in 1 .. 0 |-> 0], m, a, b, c)
    BY <1>3 DEF Follows
  <2>3. QED
    BY <2>1, <2>2
<1>4. CASE m # 0
  <2>0. m \in Nat /\ m - 1 \in Nat /\ ~(m <= m - 1)
    BY <1>4
  <2>1. m - 1 \in Nat /\ m - 1 \notin T
    <3> HIDE DEF T
    <3> QED
      BY <1>2, <2>0
  <2>2. PICK g \in [1 .. m - 1 -> Nat] : Follows(g, m - 1, a, b, c)
    BY <2>1
  <2> DEFINE h == [i \in 1 .. m |-> IF i < m THEN g[i]
                                    ELSE IF i = 1 THEN c ELSE a[i - 1] * g[i - 1] + b[i - 1]]
  <2>3. \A i \in 1 .. m : h[i] \in Nat
    <3>1. TAKE i \in 1 .. m
    <3>2. CASE i < m
      <4>1. i \in 1 .. m - 1 /\ h[i] = g[i]
        BY <2>0, <3>2
      <4>2. QED
        BY <4>1
    <3>3. CASE i = m /\ i = 1
      BY <3>3
    <3>4. CASE i = m /\ i # 1
      <4>1. i - 1 \in 1 .. m - 1 /\ i - 1 \in Nat
        BY <2>0, <3>4
      <4>2. g[i - 1] \in Nat /\ a[i - 1] \in Nat /\ b[i - 1] \in Nat
        BY <4>1, <2>2
      <4>3. a[i - 1] * g[i - 1] + b[i - 1] \in Nat
        BY <4>2, ProductNat, Zenon
      <4>4. QED
        BY <4>3, <3>4
    <3>5. QED
      BY <3>2, <3>3, <3>4
  <2>4. h \in [1 .. m -> Nat]
    BY <2>3
  <2>5. Follows(h, m, a, b, c)
    <3>1. SUFFICES ASSUME NEW i \in 1 .. m
                   PROVE  h[i] = IF i = 1 THEN c ELSE a[i - 1] * h[i - 1] + b[i - 1]
      BY DEF Follows
    <3>2. i # 1 => h[i - 1] = g[i - 1]
      OBVIOUS
    <3>3. CASE i < m
      <4>1. i \in 1 .. m - 1
        BY <3>3
      <4>2. g[i] = IF i = 1 THEN c ELSE a[i - 1] * g[i - 1] + b[i - 1]
        BY <4>1, <2>2 DEF Follows
      <4>3. h[i] = g[i]
        BY <3>3
      <4>4. QED
        BY <3>2, <4>2, <4>3
    <3>4. CASE i = m
      <4>1. h[i] = IF i = 1 THEN c ELSE a[i - 1] * g[i - 1] + b[i - 1]
        BY <3>4
      <4>2. QED
        BY <3>2, <4>1
    <3>5. QED
      BY <3>3, <3>4
  <2>6. QED
    BY <2>4, <2>5
<1>5. QED
  BY <1>3, <1>4

\* The widths of slots: each array's slots are as wide as the array before.
LEMMA Widths ==
    /\ TicksPerSlot \in [1 .. Levels -> Nat]
    /\ TicksPerSlot[1] = 1
    /\ \A j \in 1 .. Levels - 1 : TicksPerSlot[j + 1] = TicksPerArray(j)
<1>0. Slots1 \in Nat /\ Slots2 \in Nat /\ Levels \in Nat /\ Levels # 0
  BY SlotTimerAssumption
<1> DEFINE a == [j \in Nat |-> NumberSlots(j)]
           b == [j \in Nat |-> 0]
<1>1. a \in [Nat -> Nat] /\ b \in [Nat -> Nat]
  BY <1>0 DEF NumberSlots
<1>2. PICK g \in [1 .. Levels -> Nat] : Follows(g, Levels, a, b, 1)
  <2> HIDE DEF a, b
  <2> QED
    BY <1>0, <1>1, Recurrence
<1>3. \A j \in 1 .. Levels : g[j] = IF j = 1 THEN 1 ELSE NumberSlots(j - 1) * g[j - 1]
  <2>1. TAKE j \in 1 .. Levels
  <2>2. g[j] = IF j = 1 THEN 1 ELSE a[j - 1] * g[j - 1] + b[j - 1]
    BY <1>2 DEF Follows
  <2>3. CASE j = 1
    BY <2>2, <2>3
  <2>4. CASE j # 1
    <3>1. j - 1 \in Nat /\ j - 1 \in 1 .. Levels
      BY <2>4, <1>0
    <3>2. a[j - 1] = NumberSlots(j - 1) /\ b[j - 1] = 0 /\ g[j - 1] \in Nat /\ NumberSlots(j - 1) \in Nat
      BY <3>1, <1>0 DEF NumberSlots
    <3>3. QED
      BY <2>2, <2>4, <3>2
  <2>5. QED
    BY <2>3, <2>4
<1>4. g = [j \in 1 .. Levels |-> IF j = 1 THEN 1 ELSE NumberSlots(j - 1) * g[j - 1]]
  BY <1>3
<1>5. TicksPerSlot = [j \in 1 .. Levels |-> IF j = 1 THEN 1
                                            ELSE NumberSlots(j - 1) * TicksPerSlot[j - 1]]
  BY <1>4 DEF TicksPerSlot
<1>6. TicksPerSlot[1] = 1
  BY <1>0, <1>5
<1>7. \A j \in 1 .. Levels - 1 : TicksPerSlot[j + 1] = NumberSlots(j) * TicksPerSlot[j]
  <2>1. TAKE j \in 1 .. Levels - 1
  <2>2. j + 1 \in 1 .. Levels /\ j + 1 # 1 /\ (j + 1) - 1 = j
    BY <1>0
  <2>3. QED
    BY <1>5, <2>2
<1>8. \A j \in 1 .. Levels : TicksPerSlot[j] \in Nat
  <2> DEFINE T == {j \in Nat : j \in 1 .. Levels /\ TicksPerSlot[j] \notin Nat}
  <2>1. SUFFICES ASSUME T # {} PROVE FALSE
    OBVIOUS
  <2>2. PICK m \in T : \A k \in T : m <= k
    BY <2>1, Least
  <2>3. m # 1 /\ m \in 1 .. Levels
    BY <1>6
  <2>4. m - 1 \in Nat /\ m - 1 \in 1 .. Levels - 1 /\ (m - 1) + 1 = m /\ ~(m <= m - 1) /\ m - 1 \in 1 .. Levels
    BY <2>3, <1>0
  <2>5. TicksPerSlot[m - 1] \in Nat
    BY <2>2, <2>4
  <2>6. TicksPerSlot[m] = NumberSlots(m - 1) * TicksPerSlot[m - 1] /\ NumberSlots(m - 1) \in Nat
    BY <1>0, <1>7, <2>4 DEF NumberSlots
  <2>7. QED
    BY <2>5, <2>6
<1>9. QED
  BY <1>5, <1>6, <1>7, <1>8 DEF TicksPerArray

LEMMA Positive ==
    /\ \A j \in Array : NumberSlots(j) \in Nat /\ NumberSlots(j) >= 1
    /\ \A j \in 1 .. Levels : /\ TicksPerSlot[j] \in Nat /\ TicksPerSlot[j] >= 1
                              /\ TicksPerArray(j) \in Nat /\ TicksPerArray(j) >= 1
<1>0. Slots1 \in Nat /\ Slots1 >= 1 /\ Slots2 \in Nat /\ Slots2 >= 1 /\ Levels \in Nat
  BY SlotTimerAssumption
<1>1. \A j \in Array : NumberSlots(j) \in Nat /\ NumberSlots(j) >= 1
  BY <1>0 DEF NumberSlots
<1>2. \A x, y \in Nat : x >= 1 /\ y >= 1 => x * y \in Nat /\ x * y >= 1
  OBVIOUS
<1>3. 1 .. Levels \subseteq Array
  BY <1>0 DEF Array, LastArray
<1>4. \A j \in 1 .. Levels : TicksPerSlot[j] >= 1
  <2> DEFINE T == {j \in Nat : j \in 1 .. Levels /\ ~(TicksPerSlot[j] >= 1)}
  <2>1. SUFFICES ASSUME T # {} PROVE FALSE
    BY <1>0
  <2>2. PICK m \in T : \A k \in T : m <= k
    BY <2>1, Least
  <2>3. m # 1 /\ m \in 1 .. Levels /\ m \in Nat /\ ~(TicksPerSlot[m] >= 1)
    BY Widths
  <2>4. m - 1 \in Nat /\ m - 1 \in 1 .. Levels - 1 /\ (m - 1) + 1 = m /\ ~(m <= m - 1) /\ m - 1 \in 1 .. Levels
    BY <2>3, <1>0
  <2>5. TicksPerSlot[m - 1] >= 1 /\ TicksPerSlot[m - 1] \in Nat
    BY <2>2, <2>4, Widths
  <2>6. TicksPerSlot[m] = NumberSlots(m - 1) * TicksPerSlot[m - 1]
    BY <2>4, Widths DEF TicksPerArray
  <2>7. NumberSlots(m - 1) \in Nat /\ NumberSlots(m - 1) >= 1
    BY <1>1, <1>3, <2>4
  <2>8. TicksPerSlot[m] >= 1
    BY <1>2, <2>5, <2>6, <2>7
  <2>9. QED
    BY <2>3, <2>8
<1>5. \A j \in 1 .. Levels : TicksPerArray(j) \in Nat /\ TicksPerArray(j) >= 1
  <2>1. TAKE j \in 1 .. Levels
  <2>2. TicksPerSlot[j] \in Nat /\ TicksPerSlot[j] >= 1 /\ NumberSlots(j) \in Nat /\ NumberSlots(j) >= 1
    BY <1>1, <1>3, <1>4, Widths
  <2>3. QED
    BY <1>2, <2>2 DEF TicksPerArray
<1>6. QED
  BY <1>1, <1>4, <1>5, Widths

\* The offsets that init gives.
LEMMA Offsets ==
    /\ InitOffset \in [Array -> Nat]
    /\ InitOffset[1] = 0
    /\ \A j \in 1 .. Levels : InitOffset[j + 1] = InitOffset[j] + TicksPerArray(j)
<1>0. Levels \in Nat /\ Levels # 0 /\ LastArray \in Nat /\ LastArray = Levels + 1 /\ Array = 1 .. LastArray
  BY SlotTimerAssumption DEF LastArray, Array
<1> DEFINE a == [j \in Nat |-> 1]
           b == [j \in Nat |-> IF j \in 1 .. Levels THEN TicksPerArray(j) ELSE 0]
<1>1. a \in [Nat -> Nat] /\ b \in [Nat -> Nat]
  BY Positive
<1>2. PICK g \in [1 .. LastArray -> Nat] : Follows(g, LastArray, a, b, 0)
  <2> HIDE DEF a, b
  <2> QED
    BY <1>0, <1>1, Recurrence
<1>3. \A j \in Array : g[j] = IF j = 1 THEN 0 ELSE g[j - 1] + TicksPerArray(j - 1)
  <2>1. TAKE j \in Array
  <2>2. g[j] = IF j = 1 THEN 0 ELSE a[j - 1] * g[j - 1] + b[j - 1]
    BY <1>0, <1>2 DEF Follows
  <2>3. CASE j = 1
    BY <2>2, <2>3
  <2>4. CASE j # 1
    <3>1. j - 1 \in Nat /\ j - 1 \in 1 .. Levels /\ j - 1 \in 1 .. LastArray
      BY <2>4, <1>0
    <3>2. a[j - 1] = 1 /\ b[j - 1] = TicksPerArray(j - 1) /\ g[j - 1] \in Nat /\ TicksPerArray(j - 1) \in Nat
      BY <3>1, Positive
    <3>3. 1 * g[j - 1] = g[j - 1]
      BY <3>2
    <3>4. QED
      BY <2>2, <2>4, <3>2, <3>3
  <2>5. QED
    BY <2>3, <2>4
<1>4. g = [j \in Array |-> IF j = 1 THEN 0 ELSE g[j - 1] + TicksPerArray(j - 1)]
  BY <1>0, <1>3
<1>5. InitOffset = [j \in Array |-> IF j = 1 THEN 0 ELSE InitOffset[j - 1] + TicksPerArray(j - 1)]
  BY <1>4 DEF InitOffset
<1>6. InitOffset[1] = 0
  BY <1>0, <1>5
<1>7. \A j \in 1 .. Levels : InitOffset[j + 1] = InitOffset[j] + TicksPerArray(j)
  <2>1. TAKE j \in 1 .. Levels
  <2>2. j + 1 \in Array /\ j + 1 # 1 /\ (j + 1) - 1 = j
    BY <1>0
  <2>3. QED
    BY <1>5, <2>2
<1>8. \A j \in Array : InitOffset[j] \in Nat
  <2> DEFINE T == {j \in Nat : j \in Array /\ InitOffset[j] \notin Nat}
  <2>1. SUFFICES ASSUME T # {} PROVE FALSE
    BY <1>0
  <2>2. PICK m \in T : \A k \in T : m <= k
    BY <2>1, Least
  <2>3. m # 1 /\ m \in Array /\ m \in Nat /\ InitOffset[m] \notin Nat
    BY <1>6
  <2>4. m - 1 \in Nat /\ m - 1 \in 1 .. Levels /\ (m - 1) + 1 = m /\ ~(m <= m - 1) /\ m - 1 \in Array
    BY <2>3, <1>0
  <2>5. InitOffset[m - 1] \in Nat
    BY <2>2, <2>4
  <2>6. InitOffset[m] = InitOffset[m - 1] + TicksPerArray(m - 1) /\ TicksPerArray(m - 1) \in Nat
    BY <1>7, <2>4, Positive
  <2>7. QED
    BY <2>3, <2>5, <2>6
<1>9. QED
  BY <1>5, <1>6, <1>7, <1>8

-----------------------------------------------------------------------------
(***************************************************************************)
(* The lists                                                               *)
(***************************************************************************)
\* Taking the first element out of a list.
LEMMA TailTakes ==
    ASSUME NEW s \in Seq(Element), s # <<>>, IsInjective(s)
    PROVE  /\ Tail(s) \in Seq(Element) /\ IsInjective(Tail(s))
           /\ Head(s) \in Range(s) /\ Head(s) \in Element
           /\ Range(Tail(s)) = Range(s) \ {Head(s)}
<1>1. /\ Tail(s) \in Seq(Element) /\ Len(s) \in Nat /\ Len(s) >= 1 /\ Len(Tail(s)) = Len(s) - 1
      /\ \A i \in 1 .. Len(s) - 1 : Tail(s)[i] = s[i + 1]
      /\ DOMAIN s = 1 .. Len(s) /\ DOMAIN Tail(s) = 1 .. Len(s) - 1
      /\ Head(s) = s[1] /\ s[1] \in Element
  OBVIOUS
<1>2. \A i, j \in 1 .. Len(s) : s[i] = s[j] => i = j
  BY <1>1 DEF IsInjective
<1>3. IsInjective(Tail(s))
  <2>1. SUFFICES ASSUME NEW i \in 1 .. Len(s) - 1, NEW j \in 1 .. Len(s) - 1, Tail(s)[i] = Tail(s)[j]
                 PROVE  i = j
    BY <1>1 DEF IsInjective
  <2>2. i + 1 \in 1 .. Len(s) /\ j + 1 \in 1 .. Len(s) /\ s[i + 1] = s[j + 1]
    BY <1>1, <2>1
  <2>3. i + 1 = j + 1
    BY <1>2, <2>2
  <2>4. QED
    BY <2>3
<1>4. ASSUME NEW x PROVE x \in Range(Tail(s)) <=> x \in Range(s) /\ x # Head(s)
  <2>1. ASSUME x \in Range(Tail(s)) PROVE x \in Range(s) /\ x # Head(s)
    <3>1. PICK i \in 1 .. Len(s) - 1 : x = Tail(s)[i]
      BY <1>1, <2>1 DEF Range
    <3>2. i + 1 \in 1 .. Len(s) /\ x = s[i + 1] /\ i + 1 # 1 /\ 1 \in 1 .. Len(s)
      BY <1>1, <3>1
    <3>3. QED
      BY <1>1, <1>2, <3>2 DEF Range
  <2>2. ASSUME x \in Range(s), x # Head(s) PROVE x \in Range(Tail(s))
    <3>1. PICK i \in 1 .. Len(s) : x = s[i]
      BY <1>1, <2>2 DEF Range
    <3>2. i # 1
      BY <1>1, <2>2, <3>1
    <3>3. i - 1 \in 1 .. Len(s) - 1 /\ (i - 1) + 1 = i
      BY <1>1, <3>2
    <3>4. Tail(s)[i - 1] = x
      BY <1>1, <3>1, <3>3
    <3>5. QED
      BY <1>1, <3>3, <3>4 DEF Range
  <2>3. QED
    BY <2>1, <2>2
<1>5. Range(Tail(s)) = Range(s) \ {Head(s)}
  BY <1>4 DEF Range
<1>6. Head(s) \in Range(s)
  <2>1. 1 \in 1 .. Len(s)
    BY <1>1
  <2>2. QED
    BY <1>1, <2>1 DEF Range
<1>7. QED
  BY <1>1, <1>3, <1>5, <1>6

\* del takes out the element and no other.
LEMMA DelTakes ==
    ASSUME NEW s \in Seq(Element), IsInjective(s), NEW e \in Range(s)
    PROVE  /\ RemoveFirst(s, e) \in Seq(Element) /\ IsInjective(RemoveFirst(s, e))
           /\ Range(RemoveFirst(s, e)) = Range(s) \ {e}
<1>1. Len(s) \in Nat /\ DOMAIN s = 1 .. Len(s) /\ \A i \in 1 .. Len(s) : s[i] \in Element
  OBVIOUS
<1>2. \A i, j \in 1 .. Len(s) : s[i] = s[j] => i = j
  BY <1>1 DEF IsInjective
<1>3. PICK k \in 1 .. Len(s) : e = s[k]
  BY <1>1 DEF Range
<1>4. {i \in 1 .. Len(s) : s[i] = e} = {k}
  BY <1>2, <1>3
<1>5. \A y \in {k} : k <= y
  OBVIOUS
<1>6. Min({k}) = k
  BY <1>5 DEF Min
<1>7. SelectInSeq(s, LAMBDA v : v = e) = k
  BY <1>4, <1>6 DEF SelectInSeq
<1>8. RemoveFirst(s, e) = SubSeq(s, 1, k - 1) \o SubSeq(s, k + 1, Len(s))
  BY <1>3, <1>7 DEF RemoveFirst, RemoveAt
<1> DEFINE a == SubSeq(s, 1, k - 1)
           b == SubSeq(s, k + 1, Len(s))
           r == RemoveFirst(s, e)
<1>9. a \in Seq(Element) /\ Len(a) = k - 1 /\ \A i \in 1 .. k - 1 : a[i] = s[i]
  OBVIOUS
<1>10. b \in Seq(Element) /\ Len(b) = Len(s) - k /\ \A i \in 1 .. Len(s) - k : b[i] = s[k + i]
  OBVIOUS
<1>11. r = a \o b
  BY <1>8
<1> HIDE DEF a, b, r
<1>12. r \in Seq(Element) /\ Len(r) = Len(s) - 1 /\ DOMAIN r = 1 .. Len(s) - 1
  <2>0. Len(s) \in Nat /\ Len(a) = k - 1 /\ Len(b) = Len(s) - k
    BY <1>1, <1>9, <1>10
  <2>1. a \o b \in Seq(Element) /\ Len(a \o b) = Len(s) - 1
    <3>1. a \in Seq(Element) /\ b \in Seq(Element)
      BY <1>9, <1>10
    <3>2. a \o b \in Seq(Element) /\ Len(a \o b) = Len(a) + Len(b)
      BY <3>1
    <3>3. QED
      BY <2>0, <3>2
  <2>2. r \in Seq(Element) /\ Len(r) = Len(s) - 1
    BY <1>11, <2>1
  <2>3. QED
    BY <2>2
<1>13. \A i \in 1 .. Len(s) - 1 : r[i] = IF i < k THEN s[i] ELSE s[i + 1]
  <2>1. TAKE i \in 1 .. Len(s) - 1
  <2>2. CASE i < k
    <3>1. i \in 1 .. k - 1 /\ (a \o b)[i] = a[i]
      BY <1>1, <1>9, <1>10, <2>2
    <3>2. QED
      BY <1>9, <1>11, <2>2, <3>1
  <2>3. CASE ~(i < k)
    <3>1. i - (k - 1) \in 1 .. Len(s) - k /\ k + (i - (k - 1)) = i + 1
      BY <1>1, <2>3
    <3>2. (a \o b)[i] = b[i - (k - 1)]
      BY <1>9, <1>10, <2>3, <3>1
    <3>3. QED
      BY <1>10, <1>11, <2>3, <3>1, <3>2
  <2>4. QED
    BY <2>2, <2>3
<1>14. IsInjective(r)
  <2>1. SUFFICES ASSUME NEW i \in 1 .. Len(s) - 1, NEW j \in 1 .. Len(s) - 1, r[i] = r[j]
                 PROVE  i = j
    BY <1>12 DEF IsInjective
  <2>2. (IF i < k THEN i ELSE i + 1) \in 1 .. Len(s) /\ (IF j < k THEN j ELSE j + 1) \in 1 .. Len(s)
    BY <1>1
  <2>3. s[IF i < k THEN i ELSE i + 1] = s[IF j < k THEN j ELSE j + 1]
    BY <1>13, <2>1
  <2>4. (IF i < k THEN i ELSE i + 1) = (IF j < k THEN j ELSE j + 1)
    BY <1>2, <2>2, <2>3
  <2>5. QED
    BY <1>1, <2>4
<1>15. ASSUME NEW x PROVE x \in Range(r) <=> x \in Range(s) /\ x # e
  <2>1. ASSUME x \in Range(r) PROVE x \in Range(s) /\ x # e
    <3>1. PICK i \in 1 .. Len(s) - 1 : x = r[i]
      BY <1>12, <2>1 DEF Range
    <3>2. (IF i < k THEN i ELSE i + 1) \in 1 .. Len(s) /\ (IF i < k THEN i ELSE i + 1) # k
      BY <1>1
    <3>3. x = s[IF i < k THEN i ELSE i + 1]
      BY <1>13, <3>1
    <3>4. QED
      BY <1>1, <1>2, <1>3, <3>2, <3>3 DEF Range
  <2>2. ASSUME x \in Range(s), x # e PROVE x \in Range(r)
    <3>1. PICK i \in 1 .. Len(s) : x = s[i]
      BY <1>1, <2>2 DEF Range
    <3>2. i # k
      BY <1>3, <2>2, <3>1
    <3>3. CASE i < k
      <4>1. i \in 1 .. Len(s) - 1 /\ r[i] = x
        BY <1>1, <1>13, <3>1, <3>3
      <4>2. QED
        BY <1>12, <4>1 DEF Range
    <3>4. CASE i > k
      <4>1. i - 1 \in 1 .. Len(s) - 1 /\ ~(i - 1 < k) /\ (i - 1) + 1 = i
        BY <1>1, <3>4
      <4>2. r[i - 1] = x
        BY <1>13, <3>1, <4>1
      <4>3. QED
        BY <1>12, <4>1, <4>2 DEF Range
    <3>5. QED
      BY <3>2, <3>3, <3>4
  <2>3. QED
    BY <2>1, <2>2
<1>16. Range(r) = Range(s) \ {e}
  BY <1>15 DEF Range
<1>17. QED
  BY <1>12, <1>14, <1>16 DEF r

LEMMA AppendPuts ==
    ASSUME NEW s \in Seq(Element), IsInjective(s), NEW e \in Element, e \notin Range(s)
    PROVE  /\ Append(s, e) \in Seq(Element) /\ IsInjective(Append(s, e))
           /\ Range(Append(s, e)) = Range(s) \cup {e}
<1> DEFINE r == Append(s, e)
<1>1. /\ r \in Seq(Element) /\ Len(s) \in Nat /\ Len(r) = Len(s) + 1
      /\ DOMAIN s = 1 .. Len(s) /\ DOMAIN r = 1 .. Len(s) + 1
      /\ \A i \in 1 .. Len(s) : r[i] = s[i]
      /\ r[Len(s) + 1] = e
  OBVIOUS
<1> HIDE DEF r
<1>2. \A i, j \in 1 .. Len(s) : s[i] = s[j] => i = j
  BY <1>1 DEF IsInjective
<1>3. \A i \in 1 .. Len(s) : s[i] # e
  BY <1>1 DEF Range
<1>4. \A i \in 1 .. Len(s) + 1 : i \in 1 .. Len(s) \/ i = Len(s) + 1
  BY <1>1
<1>5. IsInjective(r)
  <2>1. SUFFICES ASSUME NEW i \in 1 .. Len(s) + 1, NEW j \in 1 .. Len(s) + 1, r[i] = r[j]
                 PROVE  i = j
    BY <1>1 DEF IsInjective
  <2>2. QED
    BY <1>1, <1>2, <1>3, <1>4, <2>1
<1>6. ASSUME NEW x PROVE x \in Range(r) <=> x \in Range(s) \/ x = e
  <2>1. ASSUME x \in Range(r) PROVE x \in Range(s) \/ x = e
    <3>1. PICK i \in 1 .. Len(s) + 1 : x = r[i]
      BY <1>1, <2>1 DEF Range
    <3>2. QED
      BY <1>1, <1>4, <3>1 DEF Range
  <2>2. ASSUME x \in Range(s) PROVE x \in Range(r)
    <3>1. PICK i \in 1 .. Len(s) : x = s[i]
      BY <1>1, <2>2 DEF Range
    <3>2. i \in 1 .. Len(s) + 1 /\ x = r[i]
      BY <1>1, <3>1
    <3>3. QED
      BY <1>1, <3>2 DEF Range
  <2>3. e \in Range(r)
    <3>1. Len(s) + 1 \in 1 .. Len(s) + 1
      BY <1>1
    <3>2. QED
      BY <1>1, <3>1 DEF Range
  <2>4. QED
    BY <2>1, <2>2, <2>3
<1>7. Range(r) = Range(s) \cup {e}
  BY <1>6 DEF Range
<1>8. QED
  BY <1>1, <1>5, <1>7 DEF r

Replaced(lists, j, k, s) == [lists EXCEPT ![j][k] = s]

\* A list is replaced and the others stay.
LEMMA ListReplaced ==
    ASSUME NEW lists, IsLists(lists), NEW j \in Array, NEW k \in Slot(j),
           NEW s \in Seq(Element)
    PROVE  /\ IsLists(Replaced(lists, j, k, s))
           /\ Replaced(lists, j, k, s)[j][k] = s
           /\ \A i \in Array : \A h \in Slot(i) :
                i # j \/ h # k => Replaced(lists, j, k, s)[i][h] = lists[i][h]
<1> DEFINE new == Replaced(lists, j, k, s)
<1>1. DOMAIN lists = Array /\ \A i \in Array : lists[i] \in [Slot(i) -> Seq(Element)]
  BY DEF IsLists
<1>2. new = [i \in Array |-> IF i = j THEN [lists[j] EXCEPT ![k] = s] ELSE lists[i]]
  BY <1>1, Zenon DEF Replaced
<1> HIDE DEF new
<1>3. [lists[j] EXCEPT ![k] = s] \in [Slot(j) -> Seq(Element)]
  BY <1>1
<1>4. \A i \in Array : new[i] = IF i = j THEN [lists[j] EXCEPT ![k] = s] ELSE lists[i]
  BY <1>2
<1>5. IsLists(new)
  BY <1>1, <1>2, <1>3, <1>4 DEF IsLists
<1>6. new[j][k] = s
  BY <1>1, <1>4
<1>7. ASSUME NEW i \in Array, NEW h \in Slot(i), i # j \/ h # k
      PROVE  new[i][h] = lists[i][h]
  <2>1. CASE i # j
    BY <1>4, <2>1
  <2>2. CASE i = j
    BY <1>1, <1>4, <1>7, <2>2
  <2>3. QED
    BY <2>1, <2>2
<1>8. QED
  BY <1>5, <1>6, <1>7 DEF new

Updated(el, e, r) == [el EXCEPT ![e] = r]

LEMMA ElementUpdated ==
    ASSUME NEW el \in [Element -> ElementRecord], NEW e \in Element, NEW r \in ElementRecord
    PROVE  /\ Updated(el, e, r) \in [Element -> ElementRecord] /\ Updated(el, e, r)[e] = r
           /\ \A x \in Element : x # e => Updated(el, e, r)[x] = el[x]
BY DEF Updated

\* An element is unlinked: it no longer runs, and leaves its list.
LEMMA TakeLinks ==
    ASSUME NEW lists, IsLists(lists), NEW el \in [Element -> ElementRecord], Links(lists, el),
           NEW j \in Array, NEW k \in Slot(j), NEW e \in Range(lists[j][k]),
           NEW s \in Seq(Element), IsInjective(s), Range(s) = Range(lists[j][k]) \ {e},
           NEW r \in ElementRecord, ~r.running
    PROVE  /\ IsLists(Replaced(lists, j, k, s)) /\ Updated(el, e, r) \in [Element -> ElementRecord]
           /\ Links(Replaced(lists, j, k, s), Updated(el, e, r))
           /\ e \in Element /\ Running(Updated(el, e, r)) = Running(el) \ {e}
<1> DEFINE new == Replaced(lists, j, k, s)
           en == Updated(el, e, r)
<1>1. /\ IsLists(new) /\ new[j][k] = s
      /\ \A i \in Array : \A h \in Slot(i) : i # j \/ h # k => new[i][h] = lists[i][h]
  BY ListReplaced
<1> HIDE DEF new
<1>2. e \in Element /\ el[e].running /\ el[e].array = j /\ el[e].slot = k
  <2>1. lists[j][k] \in Seq(Element)
    BY DEF IsLists
  <2>2. \A q \in Seq(Element) : Range(q) \subseteq Element
    BY DEF Range
  <2>3. QED
    BY <2>1, <2>2 DEF Links
<1>3. /\ en \in [Element -> ElementRecord] /\ en[e] = r
      /\ \A x \in Element : x # e => en[x] = el[x]
  <2>1. e \in Element
    BY <1>2
  <2>2. QED
    BY <2>1 DEF Updated
<1> HIDE DEF en
<1>4. ASSUME NEW i \in Array, NEW h \in Slot(i)
      PROVE  /\ IsInjective(new[i][h])
             /\ \A x \in Range(new[i][h]) : en[x].running /\ en[x].array = i /\ en[x].slot = h
  <2>1. CASE i = j /\ h = k
    <3>1. IsInjective(new[i][h]) /\ Range(new[i][h]) = Range(lists[i][h]) \ {e}
      BY <1>1, <2>1
    <3>2. ASSUME NEW x \in Range(new[i][h])
          PROVE  en[x].running /\ en[x].array = i /\ en[x].slot = h
      <4>1. x \in Range(lists[i][h]) /\ x # e
        BY <3>1, <3>2
      <4>2. el[x].running /\ el[x].array = i /\ el[x].slot = h
        BY <4>1 DEF Links
      <4>3. en[x] = el[x]
        <5>1. x \in Element
          <6>1. lists[i][h] \in Seq(Element)
            BY DEF IsLists
          <6>2. QED
            BY <4>1, <6>1 DEF Range
        <5>2. QED
          BY <1>3, <4>1, <5>1
      <4>4. QED
        BY <4>2, <4>3
    <3>3. QED
      BY <3>1, <3>2
  <2>2. CASE i # j \/ h # k
    <3>1. new[i][h] = lists[i][h]
      BY <1>1, <2>2
    <3>2. IsInjective(lists[i][h])
      BY DEF Links
    <3>3. ASSUME NEW x \in Range(lists[i][h])
          PROVE  en[x].running /\ en[x].array = i /\ en[x].slot = h
      <4>1. el[x].running /\ el[x].array = i /\ el[x].slot = h
        BY DEF Links
      <4>2. x # e
        BY <1>2, <2>2, <4>1
      <4>3. en[x] = el[x]
        <5>1. x \in Element
          <6>1. lists[i][h] \in Seq(Element)
            BY DEF IsLists
          <6>2. QED
            BY <6>1 DEF Range
        <5>2. QED
          BY <1>3, <4>2, <5>1
      <4>4. QED
        BY <4>1, <4>3
    <3>4. QED
      BY <3>1, <3>2, <3>3
  <2>3. QED
    BY <2>1, <2>2
<1>5. ASSUME NEW x \in Element, en[x].running
      PROVE  en[x].slot \in Slot(en[x].array) /\ x \in Range(new[en[x].array][en[x].slot])
  <2>1. x # e /\ en[x] = el[x]
    BY <1>3, <1>5
  <2>2. el[x].slot \in Slot(el[x].array) /\ x \in Range(lists[el[x].array][el[x].slot])
    BY <1>5, <2>1 DEF Links
  <2>3. el[x].array \in Array
    BY DEF ElementRecord
  <2>4. CASE el[x].array = j /\ el[x].slot = k
    BY <1>1, <2>1, <2>2, <2>4
  <2>5. CASE el[x].array # j \/ el[x].slot # k
    BY <1>1, <2>1, <2>2, <2>3, <2>5
  <2>6. QED
    BY <2>4, <2>5
<1>6. Links(new, en)
  BY <1>4, <1>5 DEF Links
<1>7. Running(en) = Running(el) \ {e}
  BY <1>2, <1>3 DEF Running
<1>8. QED
  BY <1>1, <1>2, <1>3, <1>6, <1>7 DEF new, en

\* An element that does not run is started and enters a list.
LEMMA PutLinks ==
    ASSUME NEW lists, IsLists(lists), NEW el \in [Element -> ElementRecord], Links(lists, el),
           NEW j \in Array, NEW k \in Slot(j), NEW e \in Element, ~el[e].running,
           NEW r \in ElementRecord, r.running, r.array = j, r.slot = k
    PROVE  /\ IsLists(Replaced(lists, j, k, Append(lists[j][k], e)))
           /\ Updated(el, e, r) \in [Element -> ElementRecord]
           /\ Links(Replaced(lists, j, k, Append(lists[j][k], e)), Updated(el, e, r))
           /\ Running(Updated(el, e, r)) = Running(el) \cup {e}
<1> DEFINE new == Replaced(lists, j, k, Append(lists[j][k], e))
           en == Updated(el, e, r)
<1>0. lists[j][k] \in Seq(Element) /\ IsInjective(lists[j][k]) /\ e \notin Range(lists[j][k])
  BY DEF IsLists, Links
<1> DEFINE s == Append(lists[j][k], e)
<1>1. s \in Seq(Element) /\ IsInjective(s) /\ Range(s) = Range(lists[j][k]) \cup {e}
  BY <1>0, AppendPuts
<1>2. new = Replaced(lists, j, k, s)
  OBVIOUS
<1> HIDE DEF s, new
<1>3. /\ IsLists(new) /\ new[j][k] = s
      /\ \A i \in Array : \A h \in Slot(i) : i # j \/ h # k => new[i][h] = lists[i][h]
  BY <1>1, <1>2, ListReplaced
<1>4. /\ en \in [Element -> ElementRecord] /\ en[e] = r
      /\ \A x \in Element : x # e => en[x] = el[x]
  BY ElementUpdated
<1> HIDE DEF en
<1>5. ASSUME NEW i \in Array, NEW h \in Slot(i)
      PROVE  /\ IsInjective(new[i][h])
             /\ \A x \in Range(new[i][h]) : en[x].running /\ en[x].array = i /\ en[x].slot = h
  <2>1. \A x \in Range(lists[i][h]) : en[x].running /\ en[x].array = i /\ en[x].slot = h
    <3>1. TAKE x \in Range(lists[i][h])
    <3>2. el[x].running /\ el[x].array = i /\ el[x].slot = h
      BY DEF Links
    <3>3. x \in Element
      <4>1. lists[i][h] \in Seq(Element)
        BY DEF IsLists
      <4>2. QED
        BY <4>1 DEF Range
    <3>4. x # e /\ en[x] = el[x]
      BY <1>4, <3>2, <3>3
    <3>5. QED
      BY <3>2, <3>4
  <2>2. CASE i = j /\ h = k
    <3>1. IsInjective(new[i][h]) /\ Range(new[i][h]) = Range(lists[i][h]) \cup {e}
      BY <1>1, <1>3, <2>2
    <3>2. en[e].running /\ en[e].array = i /\ en[e].slot = h
      BY <1>4, <2>2
    <3>3. QED
      BY <2>1, <3>1, <3>2
  <2>3. CASE i # j \/ h # k
    <3>1. new[i][h] = lists[i][h]
      BY <1>3, <2>3
    <3>2. IsInjective(lists[i][h])
      BY DEF Links
    <3>3. QED
      BY <2>1, <3>1, <3>2
  <2>4. QED
    BY <2>2, <2>3
<1>6. ASSUME NEW x \in Element, en[x].running
      PROVE  en[x].slot \in Slot(en[x].array) /\ x \in Range(new[en[x].array][en[x].slot])
  <2>1. CASE x = e
    BY <1>1, <1>3, <1>4, <2>1
  <2>2. CASE x # e
    <3>1. en[x] = el[x]
      BY <1>4, <2>2
    <3>2. el[x].slot \in Slot(el[x].array) /\ x \in Range(lists[el[x].array][el[x].slot])
      BY <1>6, <3>1 DEF Links
    <3>3. el[x].array \in Array
      BY DEF ElementRecord
    <3>4. CASE el[x].array = j /\ el[x].slot = k
      BY <1>1, <1>3, <3>1, <3>2, <3>4
    <3>5. CASE el[x].array # j \/ el[x].slot # k
      BY <1>3, <3>1, <3>2, <3>3, <3>5
    <3>6. QED
      BY <3>4, <3>5
  <2>3. QED
    BY <2>1, <2>2
<1>7. Links(new, en)
  BY <1>5, <1>6 DEF Links
<1>8. Running(en) = Running(el) \cup {e}
  BY <1>4 DEF Running
<1>9. QED
  BY <1>3, <1>4, <1>7, <1>8 DEF new, en

-----------------------------------------------------------------------------
(***************************************************************************)
(* The wheel                                                               *)
(***************************************************************************)
LEMMA Monotone ==
    \A x, y \in Int, w \in Nat : x <= y => x * w <= y * w
OBVIOUS

LEMMA Distributive ==
    \A x, y, w \in Int : (x + y) * w = x * w + y * w /\ (x - y) * w = x * w - y * w /\ (x + 1) * w = x * w + w
OBVIOUS

LEMMA Quotient ==
    \A x \in Nat, w \in Nat \ {0} :
        x \div w \in Nat /\ (x \div w) * w <= x /\ x < (x \div w) * w + w
OBVIOUS

LEMMA Remainder ==
    \A x \in Nat, n \in Nat \ {0} :
        /\ x % n \in 0 .. n - 1
        /\ x < n => x % n = x
        /\ x >= n /\ x < n + n => x % n = x - n
OBVIOUS

\* The slot that insert computes has the tick: the slots before the current one
\* are those of the next round.
LEMMA SlotOfTick ==
    \A o, a, n, w, t, k :
        /\ o \in Nat /\ a \in Nat /\ n \in Nat \ {0} /\ w \in Nat \ {0} /\ a < n
        /\ t \in Nat /\ t >= o + a * w /\ t < o + a * w + n * w
        /\ k = ((t - o) \div w) % n
        => /\ k \in 0 .. n - 1
           /\ o + k * w + (IF k < a THEN n * w ELSE 0) <= t
           /\ t < o + k * w + (IF k < a THEN n * w ELSE 0) + w
<1> TAKE o, a, n, w, t, k
<1> HAVE /\ o \in Nat /\ a \in Nat /\ n \in Nat \ {0} /\ w \in Nat \ {0} /\ a < n
         /\ t \in Nat /\ t >= o + a * w /\ t < o + a * w + n * w
         /\ k = ((t - o) \div w) % n
<1> DEFINE x == t - o
           q == x \div w
<1>0. a * w \in Nat /\ n * w \in Nat
  OBVIOUS
<1>1. x \in Nat /\ a * w <= x /\ x < a * w + n * w /\ t = o + x
  BY <1>0
<1>2. q \in Nat /\ q * w <= x /\ x < q * w + w
  BY <1>1, Quotient
<1>3. k = q % n
  OBVIOUS
<1> HIDE DEF x, q
<1>4. q >= a
  <2>1. SUFFICES ASSUME q + 1 <= a PROVE FALSE
    BY <1>2
  <2>2. (q + 1) * w <= a * w
    BY <1>2, <2>1, Monotone
  <2>3. (q + 1) * w = q * w + w
    BY <1>2, Distributive
  <2>4. q * w \in Nat
    BY <1>2
  <2>5. QED
    BY <1>0, <1>1, <1>2, <2>2, <2>3, <2>4
<1>5. q < a + n
  <2>1. SUFFICES ASSUME a + n <= q PROVE FALSE
    BY <1>2
  <2>2. (a + n) * w <= q * w
    BY <1>2, <2>1, Monotone
  <2>3. (a + n) * w = a * w + n * w
    BY Distributive
  <2>4. q * w \in Nat
    BY <1>2
  <2>5. QED
    BY <1>0, <1>1, <1>2, <2>2, <2>3, <2>4
<1>6. CASE q < n
  <2>1. k = q
    BY <1>2, <1>3, <1>6, Remainder
  <2>2. ~(k < a)
    BY <1>2, <1>4, <2>1
  <2>3. q * w \in Nat
    BY <1>2
  <2>4. o + q * w <= t /\ t < o + q * w + w
    BY <1>1, <1>2, <2>3
  <2>5. k \in 0 .. n - 1
    BY <1>2, <1>6, <2>1
  <2>6. QED
    BY <2>1, <2>2, <2>3, <2>4, <2>5
<1>7. CASE q >= n
  <2>0. q < n + n
    BY <1>2, <1>5
  <2>1. k = q - n
    BY <1>2, <1>3, <1>7, <2>0, Remainder
  <2>2. k < a /\ k \in 0 .. n - 1
    BY <1>2, <1>5, <1>7, <2>1
  <2>3. k * w = q * w - n * w
    BY <1>2, <2>1, Distributive
  <2>4. q * w \in Nat
    BY <1>2
  <2>5. o + k * w + n * w <= t /\ t < o + k * w + n * w + w
    BY <1>0, <1>1, <1>2, <2>3, <2>4
  <2>6. QED
    BY <2>2, <2>5
<1>8. QED
  BY <1>2, <1>6, <1>7

LEMMA Arrays ==
    /\ Levels \in Nat /\ Levels >= 1 /\ LastArray \in Nat /\ LastArray = Levels + 1
    /\ \A j : j \in Array <=> j \in 1 .. Levels + 1
    /\ \A j : j \in 1 .. Levels <=> j \in Array /\ j # LastArray
    /\ 1 \in Array /\ 1 # LastArray /\ Levels \in Array /\ LastArray \in Array
BY SlotTimerAssumption DEF Array, LastArray

\* Products and sums of the wheel are natural numbers.
LEMMA Ticks ==
    ASSUME WheelOK, NEW j \in 1 .. Levels
    PROVE  /\ j \in Array /\ offset[j] \in Nat
           /\ actSlot[j] \in Nat /\ actSlot[j] < NumberSlots(j)
           /\ NumberSlots(j) \in Nat \ {0} /\ TicksPerSlot[j] \in Nat \ {0}
           /\ TicksPerArray(j) \in Nat /\ TicksPerArray(j) >= TicksPerSlot[j]
           /\ actSlot[j] * TicksPerSlot[j] \in Nat
           /\ actSlot[j] * TicksPerSlot[j] + TicksPerSlot[j] <= TicksPerArray(j)
           /\ TickBegin(j) \in Nat /\ TickBegin(j) = offset[j] + actSlot[j] * TicksPerSlot[j]
           /\ TickEnd(j) \in Nat /\ TickEnd(j) = TickBegin(j) + TicksPerArray(j)
           /\ \A k \in Nat : k * TicksPerSlot[j] \in Nat
<1>1. j \in Array
  BY Arrays
<1>2. /\ NumberSlots(j) \in Nat \ {0} /\ TicksPerSlot[j] \in Nat \ {0} /\ TicksPerArray(j) \in Nat
      /\ TicksPerArray(j) = NumberSlots(j) * TicksPerSlot[j]
  BY <1>1, Positive DEF TicksPerArray
<1>3. actSlot[j] \in Nat /\ actSlot[j] < NumberSlots(j) /\ offset[j] \in Nat
  BY <1>1, <1>2 DEF WheelOK, Slot
<1>4. \A k \in Nat : k * TicksPerSlot[j] \in Nat
  BY <1>2
<1>5. actSlot[j] * TicksPerSlot[j] + TicksPerSlot[j] <= TicksPerArray(j)
  <2>1. (actSlot[j] + 1) * TicksPerSlot[j] <= NumberSlots(j) * TicksPerSlot[j]
    BY <1>2, <1>3, Monotone
  <2>2. (actSlot[j] + 1) * TicksPerSlot[j] = actSlot[j] * TicksPerSlot[j] + TicksPerSlot[j]
    <3> DEFINE a == actSlot[j]
               w == TicksPerSlot[j]
    <3>1. a \in Int /\ w \in Int
      BY <1>2, <1>3
    <3>2. (a + 1) * w = a * w + w
      <4> HIDE DEF a, w
      <4> QED
        BY <3>1, Distributive
    <3>3. QED
      BY <3>2
  <2>3. QED
    BY <1>2, <2>1, <2>2
<1>6. actSlot[j] * TicksPerSlot[j] \in Nat
  BY <1>3, <1>4
<1>7. TicksPerArray(j) >= TicksPerSlot[j]
  BY <1>2, <1>5, <1>6
<1>8. QED
  BY <1>1, <1>2, <1>3, <1>4, <1>5, <1>6, <1>7 DEF TickBegin, TickEnd

\* insert finds the first array whose window has the tick.
LEMMA ArrayFound ==
    ASSUME WheelOK, NEW i \in Array, NEW t \in Nat
    PROVE  /\ InsertArray(i, t) \in Array /\ InsertArray(i, t) >= i
           /\ InsertArray(i, t) = LastArray \/ t < TickEnd(InsertArray(i, t))
           /\ \A k \in i .. InsertArray(i, t) - 1 : k \in 1 .. Levels /\ t >= TickEnd(k)
<1> DEFINE T == {j \in Nat : j \in i .. LastArray /\ (j = LastArray \/ t < TickEnd(j))}
           P(j) == /\ j = LastArray \/ t < TickEnd(j)
                   /\ \A k \in i .. j - 1 : t >= TickEnd(k)
<1>0. i \in Nat /\ i >= 1 /\ LastArray \in Nat /\ i <= LastArray /\ LastArray = Levels + 1 /\ Levels \in Nat
  BY Arrays
<1>1. LastArray \in T
  BY <1>0
<1>2. PICK m \in T : \A k \in T : m <= k
  BY <1>1, Least
<1>3. m \in i .. LastArray /\ P(m)
  <2>1. m \in Nat /\ m \in i .. LastArray /\ (m = LastArray \/ t < TickEnd(m))
    OBVIOUS
  <2>2. ASSUME NEW k \in i .. m - 1
        PROVE  t >= TickEnd(k)
    <3>1. k \in Nat /\ k \in i .. LastArray /\ ~(m <= k) /\ k \in 1 .. Levels
      BY <1>0, <2>1
    <3>2. ~(t < TickEnd(k))
      BY <1>2, <3>1
    <3>3. TickEnd(k) \in Nat
      BY <3>1, Ticks
    <3>4. QED
      BY <3>2, <3>3
  <2>3. QED
    BY <2>1, <2>2
<1>4. InsertArray(i, t) = CHOOSE j \in i .. LastArray : P(j)
  BY DEF InsertArray
<1>5. InsertArray(i, t) \in i .. LastArray /\ P(InsertArray(i, t))
  <2> HIDE DEF P
  <2> QED
    BY <1>3, <1>4
<1>6. QED
  BY <1>0, <1>5, Arrays

\* insert finds the slot of the tick in that array.
LEMMA SlotFound ==
    ASSUME WheelOK, NEW j \in Array, NEW t \in Nat,
           j = LastArray => t >= RoundEnd(Levels),
           j # LastArray => t < TickEnd(j) /\ (j = 1 \/ t >= TickBegin(j))
    PROVE  InsertSlot(j, t) \in Slot(j) /\ InWindow(j, InsertSlot(j, t), t)
<1>1. CASE j = LastArray
  <2>1. 0 \in Slot(j)
    BY Positive DEF Slot
  <2>2. InsertSlot(j, t) = 0
    BY <1>1 DEF InsertSlot
  <2>3. QED
    BY <1>1, <2>1, <2>2 DEF InWindow
<1>2. CASE j # LastArray
  <2>0. j \in 1 .. Levels
    BY <1>2, Arrays
  <2> DEFINE o == offset[j]
             a == actSlot[j]
             n == NumberSlots(j)
             w == TicksPerSlot[j]
             k == InsertSlot(j, t)
  <2>1. /\ o \in Nat /\ a \in Nat /\ n \in Nat \ {0} /\ w \in Nat \ {0} /\ a < n
        /\ a * w \in Nat /\ n * w \in Nat
        /\ TickBegin(j) = o + a * w /\ TickEnd(j) = o + a * w + n * w
    BY <2>0, Ticks DEF TickBegin, TickEnd, TicksPerArray
  <2>2. \A h : SlotBegin(j, h) = o + h * w + (IF h < a THEN n * w ELSE 0)
    BY DEF SlotBegin, TicksPerArray
  <2>3. CASE t <= TickBegin(j)
    <3>1. k = a
      BY <1>2, <2>3 DEF InsertSlot
    <3>2. k \in Slot(j)
      BY <3>1 DEF WheelOK
    <3>3. SlotBegin(j, k) = TickBegin(j)
      <4> HIDE DEF o, a, n, w, k
      <4> QED
        BY <2>1, <2>2, <3>1
    <3>4. t < TickBegin(j) + w
      <4> HIDE DEF o, a, n, w, k
      <4> QED
        BY <2>1, <2>3
    <3>5. j = 1 \/ t >= TickBegin(j)
      BY <1>2
    <3>6. QED
      BY <1>2, <3>1, <3>2, <3>3, <3>4, <3>5 DEF InWindow
  <2>4. CASE ~(t <= TickBegin(j))
    <3>1. k = ((t - o) \div w) % n
      BY <1>2, <2>4 DEF InsertSlot
    <3>2. t < TickEnd(j)
      BY <1>2
    <3>3. /\ k \in 0 .. n - 1
          /\ o + k * w + (IF k < a THEN n * w ELSE 0) <= t
          /\ t < o + k * w + (IF k < a THEN n * w ELSE 0) + w
      <4> HIDE DEF o, a, n, w, k
      <4>1. t >= o + a * w /\ t < o + a * w + n * w
        BY <2>1, <2>4, <3>2
      <4>2. QED
        BY <2>1, <3>1, <4>1, SlotOfTick
    <3>4. k \in Slot(j)
      BY <3>3 DEF Slot
    <3>5. SlotBegin(j, k) <= t /\ t < SlotBegin(j, k) + w
      <4> HIDE DEF o, a, n, w, k
      <4> QED
        BY <2>2, <3>3
    <3>6. SlotBegin(j, k) \in Nat
      <4> HIDE DEF o, a, n, w, k
      <4>1. k * w \in Nat
        BY <2>1, <3>3
      <4>2. QED
        BY <2>1, <2>2, <4>1
    <3>7. QED
      BY <1>2, <3>4, <3>5, <3>6 DEF InWindow
  <2>5. QED
    BY <2>3, <2>4
<1>3. QED
  BY <1>1, <1>2

\* Where a round ends, the next array begins: an element beyond an array is not
\* before the next one.
LEMMA Rounds ==
    ASSUME WheelOK, Aligned, loop \in LoopRecord
    PROVE  /\ \A j \in 1 .. Levels : /\ RoundEnd(j) \in Nat /\ RoundEnd(j) <= TickEnd(j)
                                     /\ RoundEnd(j) <= offset[j] + TicksPerArray(j)
           /\ \A j \in 1 .. Levels - 1 : /\ j \in 1 .. Levels /\ j + 1 \in 1 .. Levels
                                         /\ TickBegin(j + 1) = RoundEnd(j)
<1>1. ASSUME NEW j \in 1 .. Levels
      PROVE  /\ RoundEnd(j) \in Nat /\ RoundEnd(j) <= TickEnd(j)
             /\ RoundEnd(j) <= offset[j] + TicksPerArray(j)
  <2>1. RoundEnd(j) = offset[j] \/ RoundEnd(j) = offset[j] + TicksPerArray(j)
    BY DEF RoundEnd
  <2>2. /\ offset[j] \in Nat /\ TicksPerArray(j) \in Nat /\ actSlot[j] * TicksPerSlot[j] \in Nat
        /\ TickEnd(j) = offset[j] + actSlot[j] * TicksPerSlot[j] + TicksPerArray(j)
    BY Ticks
  <2>3. QED
    BY <2>1, <2>2
<1>2. \A j \in 1 .. Levels - 1 : j \in 1 .. Levels /\ j + 1 \in 1 .. Levels
  BY Arrays
<1>3. QED
  BY <1>1, <1>2 DEF Aligned

LEMMA Placing ==
    ASSUME WheelOK, Aligned, loop \in LoopRecord, NEW i \in 1 .. Levels, NEW t \in Nat,
           i = 1 \/ t >= TickBegin(i)
    PROVE  /\ InsertArray(i, t) \in Array
           /\ InsertSlot(InsertArray(i, t), t) \in Slot(InsertArray(i, t))
           /\ InWindow(InsertArray(i, t), InsertSlot(InsertArray(i, t), t), t)
<1> DEFINE j == InsertArray(i, t)
<1>1. /\ j \in Array /\ j >= i /\ (j = LastArray \/ t < TickEnd(j))
      /\ \A k \in i .. j - 1 : k \in 1 .. Levels /\ t >= TickEnd(k)
  <2>1. i \in Array
    BY Arrays
  <2>2. QED
    BY <2>1, ArrayFound
<1> HIDE DEF j
<1>2. i \in Nat /\ j \in Nat /\ i >= 1
  BY <1>1, Arrays
<1>3. CASE j = i
  <2>1. j # LastArray
    BY <1>3, Arrays
  <2>2. QED
    BY <1>1, <1>3, <2>1, SlotFound DEF j
<1>4. CASE j # i
  <2>1. j - 1 \in i .. j - 1 /\ (j - 1) + 1 = j
    BY <1>1, <1>2, <1>4
  <2>2. j - 1 \in 1 .. Levels /\ t >= TickEnd(j - 1)
    BY <1>1, <2>1
  <2>3. t >= RoundEnd(j - 1)
    <3>1. RoundEnd(j - 1) \in Nat /\ RoundEnd(j - 1) <= TickEnd(j - 1) /\ TickEnd(j - 1) \in Nat
      BY <2>2, Rounds, Ticks
    <3>2. QED
      BY <2>2, <3>1
  <2>4. CASE j = LastArray
    <3>1. j - 1 = Levels
      BY <2>4, Arrays
    <3>2. t >= RoundEnd(Levels)
      BY <2>3, <3>1
    <3>3. QED
      BY <1>1, <2>4, <3>2, SlotFound DEF j
  <2>5. CASE j # LastArray
    <3>1. j - 1 \in 1 .. Levels - 1
      BY <1>1, <1>2, <2>2, <2>5, Arrays
    <3>2. TickBegin((j - 1) + 1) = RoundEnd(j - 1)
      BY <3>1, Rounds
    <3>3. t >= TickBegin(j)
      BY <2>1, <2>3, <3>2
    <3>4. QED
      BY <1>1, <2>5, <3>3, SlotFound DEF j
  <2>6. QED
    BY <2>4, <2>5
<1>5. QED
  BY <1>3, <1>4

\* insert: the element, which is in no list, enters the one of its tick.
LEMMA Inserted ==
    ASSUME WheelOK, Aligned, loop \in LoopRecord,
           NEW i \in 1 .. Levels, NEW tick \in 0 .. MaxTime, i = 1 \/ tick >= TickBegin(i),
           NEW interval \in 0 .. MaxInterval,
           NEW lists, IsLists(lists), elem \in [Element -> ElementRecord],
           NEW el \in [Element -> ElementRecord], Links(lists, el),
           NEW e \in Element, ~el[e].running, \A x \in Element : x # e => el[x] = elem[x],
           Insert(i, e, lists, tick, interval)
    PROVE  /\ IsLists(slotList') /\ elem' \in [Element -> ElementRecord]
           /\ Links(slotList', elem') /\ Running(elem') = Running(el) \cup {e}
           /\ elem'[e].running /\ elem'[e].tick = tick
           /\ InWindow(elem'[e].array, elem'[e].slot, tick)
           /\ \A x \in Element : x # e => elem'[x] = elem[x]
<1> DEFINE j == InsertArray(i, tick)
           k == InsertSlot(j, tick)
           r == [running |-> TRUE, tick |-> tick, interval |-> interval, array |-> j, slot |-> k]
<1>0. tick \in Nat /\ MaxTime \in Nat
  BY SlotTimerAssumption DEF MaxTime
<1>1. j \in Array /\ k \in Slot(j) /\ InWindow(j, k, tick)
  BY <1>0, Placing
<1>2. slotList' = [lists EXCEPT ![j][k] = Append(lists[j][k], e)] /\ elem' = [elem EXCEPT ![e] = r]
  BY DEF Insert
<1> HIDE DEF j, k
<1>3. k \in Nat
  BY <1>1, Positive DEF Slot
<1>4. r \in ElementRecord
  BY <1>0, <1>1, <1>3 DEF ElementRecord
<1>5. r.running /\ r.array = j /\ r.slot = k /\ r.tick = tick
  OBVIOUS
<1> HIDE DEF r
<1>6. slotList' = Replaced(lists, j, k, Append(lists[j][k], e))
  BY <1>2 DEF Replaced
<1>7. elem' = Updated(el, e, r)
  <2>1. \A x \in Element : elem'[x] = Updated(el, e, r)[x]
    <3>1. \A x \in Element : elem'[x] = IF x = e THEN r ELSE elem[x]
      BY <1>2
    <3>2. Updated(el, e, r)[e] = r /\ \A x \in Element : x # e => Updated(el, e, r)[x] = el[x]
      BY <1>4, ElementUpdated
    <3>3. QED
      BY <3>1, <3>2
  <2>2. elem' = [x \in Element |-> elem'[x]]
    BY <1>2
  <2>3. Updated(el, e, r) = [x \in Element |-> Updated(el, e, r)[x]]
    BY DEF Updated
  <2>4. QED
    BY <2>1, <2>2, <2>3
<1>8. /\ IsLists(slotList') /\ elem' \in [Element -> ElementRecord]
      /\ Links(slotList', elem') /\ Running(elem') = Running(el) \cup {e}
  BY <1>1, <1>4, <1>5, <1>6, <1>7, PutLinks
<1>9. elem'[e] = r /\ \A x \in Element : x # e => elem'[x] = elem[x]
  BY <1>2
<1>10. QED
  BY <1>1, <1>5, <1>8, <1>9

LEMMA PositionBound ==
    ASSUME IndInv
    PROVE  /\ Position \in Nat /\ Position <= 2 * (MaxTick + 1)
           /\ Position = offset[1] + actSlot[1] /\ Position = TickBegin(1)
           /\ offset[1] \in Nat /\ actSlot[1] \in Nat /\ TicksPerSlot[1] = 1
<1>1. offset[1] \in Nat /\ actSlot[1] \in Nat
  BY Arrays DEF IndInv, WheelInv, WheelOK
<1>2. now \in Nat /\ expiry \in Nat /\ MaxTick \in Nat
  BY SlotTimerAssumption DEF IndInv, WheelInv, LoopOK
<1>3. Position <= now + expiry + 1 /\ now <= MaxTick /\ expiry <= MaxTick + 1
  BY <1>1, <1>2 DEF IndInv, WheelInv, Clock, Position
<1>4. TicksPerSlot[1] = 1
  BY Widths
<1>5. actSlot[1] * 1 = actSlot[1]
  BY <1>1
<1>6. TickBegin(1) = offset[1] + actSlot[1]
  BY <1>4, <1>5 DEF TickBegin
<1>7. QED
  BY <1>1, <1>2, <1>3, <1>4, <1>6 DEF Position

\* An element leaves its list: del.
LEMMA Unlinks ==
    ASSUME IndInv, NEW j \in Array, NEW k \in Slot(j), NEW e, e \in Range(slotList[j][k]),
           NEW s \in Seq(Element), IsInjective(s), Range(s) = Range(slotList[j][k]) \ {e},
           Unlink(e, Replaced(slotList, j, k, s))
    PROVE  /\ ListsOK' /\ Links(slotList', elem') /\ Counted'
           /\ e \in Element /\ elem[e].running /\ ~elem'[e].running
           /\ \A x \in Element : x # e => elem'[x] = elem[x]
<1>1. IsLists(slotList) /\ elem \in [Element -> ElementRecord] /\ Links(slotList, elem)
  BY DEF IndInv, WheelInv, ListsOK
<1>2. e \in Element
  <2>1. slotList[j][k] \in Seq(Element)
    BY <1>1 DEF IsLists
  <2>2. QED
    BY <2>1 DEF Range
<1>3. elem[e] \in ElementRecord /\ elem[e].running
  BY <1>1, <1>2 DEF Links
<1> DEFINE r == Unlinked(e)
<1>4. r \in ElementRecord /\ ~r.running
  <2>1. elem[e].array \in Array /\ elem[e].slot \in Nat
    BY <1>3 DEF ElementRecord
  <2>2. 0 \in 0 .. MaxTime /\ 0 \in 0 .. MaxInterval /\ 1 \in Array
    BY SlotTimerAssumption, Arrays DEF MaxTime
  <2>3. QED
    BY <2>1, <2>2 DEF Unlinked, ElementRecord
<1> HIDE DEF r
<1>5. /\ slotList' = Replaced(slotList, j, k, s) /\ elem' = Updated(elem, e, r)
      /\ count' = count - 1
  BY DEF Unlink, Updated, r
<1>6. /\ IsLists(slotList') /\ elem' \in [Element -> ElementRecord]
      /\ Links(slotList', elem') /\ Running(elem') = Running(elem) \ {e}
  <2>1. \A q \in Seq(Element), x \in ElementRecord :
          IsInjective(q) /\ Range(q) = Range(slotList[j][k]) \ {e} /\ ~x.running
          => /\ IsLists(Replaced(slotList, j, k, q)) /\ Updated(elem, e, x) \in [Element -> ElementRecord]
             /\ Links(Replaced(slotList, j, k, q), Updated(elem, e, x))
             /\ Running(Updated(elem, e, x)) = Running(elem) \ {e}
    BY <1>1, TakeLinks, SMTT(60)
  <2>2. QED
    BY <1>4, <1>5, <2>1, SMTT(60)
<1>7. IsFiniteSet(Running(elem)) /\ count = Cardinality(Running(elem)) /\ e \in Running(elem)
  BY <1>2, <1>3 DEF IndInv, WheelInv, Counted, Running
<1>8. /\ IsFiniteSet(Running(elem) \ {e})
      /\ Cardinality(Running(elem) \ {e}) = Cardinality(Running(elem)) - 1
  BY <1>7, FS_RemoveElement
<1>9. Counted'
  BY <1>5, <1>6, <1>7, <1>8 DEF Counted
<1>10. elem'[e] = r /\ \A x \in Element : x # e => elem'[x] = elem[x]
  BY <1>1, <1>2, <1>5 DEF Updated
<1>11. \A x \in Element : elem'[x].slot \in Slot(elem'[x].array)
  <2>1. elem[e].slot \in Slot(elem[e].array) /\ 0 \in Slot(1)
    BY <1>2, Positive, Arrays DEF IndInv, WheelInv, ListsOK, Slot
  <2>2. r.slot \in Slot(r.array)
    BY <2>1 DEF r, Unlinked
  <2>3. QED
    BY <1>10, <2>2 DEF IndInv, WheelInv, ListsOK
<1>12. QED
  BY <1>2, <1>3, <1>4, <1>6, <1>9, <1>10, <1>11 DEF ListsOK

\* The first element of a list is inserted again: a periodic element, or one
\* that is moved to a finer array.
LEMMA Reinserts ==
    ASSUME IndInv, NEW i \in 1 .. Levels, NEW j \in Array, NEW k \in Slot(j),
           slotList[j][k] # <<>>, NEW e, e = Head(slotList[j][k]),
           NEW tick \in 0 .. MaxTime, NEW interval \in 0 .. MaxInterval,
           i = 1 \/ tick >= TickBegin(i),
           UNCHANGED count,
           Insert(i, e, Replaced(slotList, j, k, Tail(slotList[j][k])), tick, interval)
    PROVE  /\ ListsOK' /\ Links(slotList', elem') /\ Counted'
           /\ e \in Element /\ elem[e].running
           /\ elem'[e].running /\ elem'[e].tick = tick
           /\ InWindow(elem'[e].array, elem'[e].slot, tick)
           /\ \A x \in Element : x # e => elem'[x] = elem[x]
<1>1. /\ IsLists(slotList) /\ elem \in [Element -> ElementRecord] /\ Links(slotList, elem)
      /\ WheelOK /\ Aligned /\ loop \in LoopRecord
  BY DEF IndInv, WheelInv, ListsOK, LoopOK
<1> DEFINE l == slotList[j][k]
           s == Tail(l)
<1>2. l \in Seq(Element) /\ IsInjective(l) /\ l # <<>>
  BY <1>1 DEF IsLists, Links
<1>3. /\ s \in Seq(Element) /\ IsInjective(s) /\ Range(s) = Range(l) \ {e}
      /\ e \in Range(l) /\ e \in Element
  BY <1>2, TailTakes
<1> HIDE DEF s
<1>4. elem[e] \in ElementRecord /\ elem[e].running
  BY <1>1, <1>3 DEF Links
<1> DEFINE r == [elem[e] EXCEPT !.running = FALSE]
           lists == Replaced(slotList, j, k, s)
           el == Updated(elem, e, r)
<1>5. r \in ElementRecord /\ ~r.running
  BY <1>4 DEF ElementRecord
<1> HIDE DEF r
<1>6. /\ IsLists(lists) /\ el \in [Element -> ElementRecord] /\ Links(lists, el)
      /\ Running(el) = Running(elem) \ {e}
  BY <1>1, <1>3, <1>5, TakeLinks
<1>7. ~el[e].running /\ \A x \in Element : x # e => el[x] = elem[x]
  BY <1>1, <1>3, <1>5 DEF Updated
<1>8. Insert(i, e, lists, tick, interval)
  BY DEF s
<1> HIDE DEF lists, el
<1>9. /\ IsLists(slotList') /\ elem' \in [Element -> ElementRecord]
      /\ Links(slotList', elem') /\ Running(elem') = Running(el) \cup {e}
      /\ elem'[e].running /\ elem'[e].tick = tick
      /\ InWindow(elem'[e].array, elem'[e].slot, tick)
      /\ \A x \in Element : x # e => elem'[x] = elem[x]
  BY <1>1, <1>3, <1>6, <1>7, <1>8, Inserted
<1>10. Running(elem') = Running(elem)
  <2>1. e \in Running(elem)
    BY <1>3, <1>4 DEF Running
  <2>2. QED
    BY <1>6, <1>9, <2>1
<1>11. Counted'
  BY <1>10 DEF IndInv, WheelInv, Counted
<1>12. \A x \in Element : elem'[x].slot \in Slot(elem'[x].array)
  BY <1>3, <1>9 DEF IndInv, WheelInv, ListsOK, Links
<1>13. QED
  BY <1>3, <1>4, <1>9, <1>11, <1>12 DEF ListsOK

\* start.
LEMMA Starts ==
    ASSUME IndInv, NEW e \in Element,
           NEW tick \in now + MinAhead .. Position + MaxAhead, NEW interval \in {0, MaxInterval},
           Start(e, tick, interval)
    PROVE  /\ ListsOK' /\ Links(slotList', elem') /\ Counted'
           /\ tick \in Nat /\ ~elem[e].running
           /\ elem'[e].running /\ elem'[e].tick = tick
           /\ InWindow(elem'[e].array, elem'[e].slot, tick)
           /\ \A x \in Element : x # e => elem'[x] = elem[x]
<1>1. /\ IsLists(slotList) /\ elem \in [Element -> ElementRecord] /\ Links(slotList, elem)
      /\ WheelOK /\ Aligned /\ loop \in LoopRecord
  BY DEF IndInv, WheelInv, ListsOK, LoopOK
<1>2. tick \in 0 .. MaxTime /\ tick \in Nat
  <2>1. now \in Nat /\ Position \in Nat /\ Position <= 2 * (MaxTick + 1)
    BY PositionBound DEF IndInv, WheelInv, LoopOK
  <2>2. MinAhead \in Nat /\ MaxAhead \in Nat /\ MaxTick \in Nat /\ MaxInterval \in Nat
    BY SlotTimerAssumption
  <2>3. QED
    BY <2>1, <2>2 DEF MaxTime
<1>3. interval \in 0 .. MaxInterval /\ 1 \in 1 .. Levels
  BY SlotTimerAssumption
<1>4. ~elem[e].running /\ Insert(1, e, slotList, tick, interval) /\ count' = count + 1
  BY DEF Start
<1>5. /\ IsLists(slotList') /\ elem' \in [Element -> ElementRecord]
      /\ Links(slotList', elem') /\ Running(elem') = Running(elem) \cup {e}
      /\ elem'[e].running /\ elem'[e].tick = tick
      /\ InWindow(elem'[e].array, elem'[e].slot, tick)
      /\ \A x \in Element : x # e => elem'[x] = elem[x]
  BY <1>1, <1>2, <1>3, <1>4, Inserted
<1>6. IsFiniteSet(Running(elem)) /\ count = Cardinality(Running(elem)) /\ e \notin Running(elem)
  BY <1>4 DEF IndInv, WheelInv, Counted, Running
<1>7. /\ IsFiniteSet(Running(elem) \cup {e})
      /\ Cardinality(Running(elem) \cup {e}) = Cardinality(Running(elem)) + 1
  BY <1>6, FS_AddElement
<1>8. Counted'
  BY <1>4, <1>5, <1>6, <1>7 DEF Counted
<1>9. \A x \in Element : elem'[x].slot \in Slot(elem'[x].array)
  BY <1>5 DEF IndInv, WheelInv, ListsOK, Links
<1>10. QED
  BY <1>2, <1>4, <1>5, <1>8, <1>9 DEF ListsOK

-----------------------------------------------------------------------------
(***************************************************************************)
(* The steps, and what they leave of the wheel                             *)
(***************************************************************************)
\* While no array moves, the slots keep their ticks.
LEMMA WindowKept ==
    ASSUME UNCHANGED <<actSlot, offset>>, Ahead(Levels)' <=> Ahead(Levels)
    PROVE  \A j, k, t : InWindow(j, k, t)' <=> InWindow(j, k, t)
<1>1. RoundEnd(Levels)' = RoundEnd(Levels)
  BY DEF RoundEnd
<1>2. \A j, k : SlotBegin(j, k)' = SlotBegin(j, k)
  BY DEF SlotBegin
<1>3. QED
  BY <1>1, <1>2 DEF InWindow

LEMMA PlacedKept ==
    ASSUME IndInv, UNCHANGED <<actSlot, offset>>, Ahead(Levels)' <=> Ahead(Levels),
           NEW e, \A x \in Element : x # e => elem'[x] = elem[x],
           elem'[e].running => InWindow(elem'[e].array, elem'[e].slot, elem'[e].tick)
    PROVE  Placed'
<1>1. \A j, k, t : InWindow(j, k, t)' <=> InWindow(j, k, t)
  BY WindowKept
<1>2. \A x \in Element : elem'[x].running => InWindow(elem'[x].array, elem'[x].slot, elem'[x].tick)
  BY DEF IndInv, WheelInv, Placed
<1>3. \A x \in Element : elem'[x].running => InWindow(elem[x].array, elem[x].slot, elem[x].tick)'
  BY <1>1, <1>2 DEF InWindow, RoundEnd, SlotBegin
<1>4. QED
  BY <1>3 DEF Placed

LEMMA AlignedKept ==
    ASSUME IndInv, UNCHANGED <<actSlot, offset>>, \A j \in 1 .. Levels : Ahead(j)' <=> Ahead(j)
    PROVE  WheelOK' /\ Aligned'
<1>1. WheelOK'
  BY DEF IndInv, WheelInv, WheelOK
<1>2. \A j \in 1 .. Levels - 1 : TickBegin(j + 1)' = TickBegin(j + 1) /\ RoundEnd(j)' = RoundEnd(j)
  BY Arrays DEF TickBegin, RoundEnd
<1>3. QED
  BY <1>1, <1>2 DEF IndInv, WheelInv, Aligned

LEMMA StartWheel ==
    ASSUME IndInv, NEW e \in Element,
           NEW tick \in now + MinAhead .. Position + MaxAhead, NEW interval \in {0, MaxInterval},
           Start(e, tick, interval)
    PROVE  WheelInv'
<1>1. UNCHANGED <<actSlot, offset, loop>>
  BY DEF Start
<1>2. \A j : Ahead(j)' <=> Ahead(j)
  BY <1>1 DEF Ahead
<1>3. WheelOK' /\ Aligned'
  BY <1>1, <1>2, AlignedKept
<1>4. /\ ListsOK' /\ Links(slotList', elem') /\ Counted'
      /\ elem'[e].tick = tick /\ InWindow(elem'[e].array, elem'[e].slot, tick)
      /\ \A x \in Element : x # e => elem'[x] = elem[x]
  BY Starts
<1>5. Placed'
  BY <1>1, <1>2, <1>4, PlacedKept
<1>6. Turning'
  BY <1>1 DEF IndInv, WheelInv, Turning, Start, MutexFree
<1>7. QED
  BY <1>3, <1>4, <1>5, <1>6 DEF WheelInv

\* The element of a stop leaves its list.
LEMMA Deletes ==
    ASSUME IndInv, NEW e \in Element, Del(e)
    PROVE  /\ ListsOK' /\ Links(slotList', elem') /\ Counted'
           /\ elem[e].running /\ ~elem'[e].running
           /\ \A x \in Element : x # e => elem'[x] = elem[x]
<1> DEFINE j == elem[e].array
           k == elem[e].slot
           l == slotList[j][k]
<1>1. /\ IsLists(slotList) /\ elem \in [Element -> ElementRecord] /\ Links(slotList, elem)
  BY DEF IndInv, WheelInv, ListsOK
<1>2. /\ e \in Range(l)
      /\ Unlink(e, [slotList EXCEPT ![j][k] = RemoveFirst(l, e)])
  BY DEF Del, Linked
<1>3. j \in Array
  BY <1>1 DEF ElementRecord
<1>4. k \in Slot(j)
  BY DEF IndInv, WheelInv, ListsOK
<1>5. l \in Seq(Element) /\ IsInjective(l)
  BY <1>1, <1>3, <1>4 DEF IsLists, Links
<1>6. /\ RemoveFirst(l, e) \in Seq(Element) /\ IsInjective(RemoveFirst(l, e))
      /\ Range(RemoveFirst(l, e)) = Range(l) \ {e}
  BY <1>2, <1>5, DelTakes
<1>7. Unlink(e, Replaced(slotList, j, k, RemoveFirst(l, e)))
  BY <1>2 DEF Replaced
<1> HIDE DEF j, k
<1>8. QED
  BY <1>2, <1>3, <1>4, <1>6, <1>7, Unlinks

\* A step that leaves the wheel and its elements alone.
LEMMA FrameWheel ==
    ASSUME IndInv, UNCHANGED <<wheel, elem, count>>,
           \A j \in 1 .. Levels : Ahead(j)' <=> Ahead(j), Turning'
    PROVE  WheelInv'
<1>1. UNCHANGED <<actSlot, offset, slotList, elem, count>>
  BY DEF wheel
<1>2. WheelOK' /\ Aligned'
  BY <1>1, AlignedKept
<1>3. ListsOK' /\ Links(slotList', elem') /\ Counted'
  BY <1>1 DEF IndInv, WheelInv, ListsOK, Counted
<1>4. Placed'
  <2>1. CASE Element = {}
    BY <2>1 DEF Placed
  <2>2. CASE Element # {}
    <3>1. PICK e \in Element : TRUE
      BY <2>2
    <3>2. elem'[e].running => InWindow(elem'[e].array, elem'[e].slot, elem'[e].tick)
      BY <1>1 DEF IndInv, WheelInv, Placed
    <3>3. Ahead(Levels)' <=> Ahead(Levels)
      BY SlotTimerAssumption
    <3>4. QED
      BY <1>1, <3>2, <3>3, PlacedKept
  <2>3. QED
    BY <2>1, <2>2
<1>5. QED
  BY <1>2, <1>3, <1>4 DEF WheelInv

LEMMA LoopTypes ==
    ASSUME IndInv
    PROVE  /\ loop \in LoopRecord /\ loop.array \in Array /\ loop.array \in Nat
           /\ loop.actTick \in Nat /\ loop.calls \in Nat
           /\ now \in Nat /\ expiry \in Nat /\ running \in BOOLEAN /\ stopEvent \in BOOLEAN
           /\ late \in Nat /\ stopping \in SUBSET Element
<1>1. loop \in LoopRecord
  BY DEF IndInv, LoopOK
<1>2. loop.array \in Array /\ loop.actTick \in Nat /\ loop.calls \in Nat
  BY <1>1 DEF LoopRecord
<1>3. QED
  BY <1>1, <1>2, Arrays DEF IndInv, LoopOK

\* remove, of an element that is in its list or is not.
LEMMA RemoveWheel ==
    ASSUME IndInv, NEW e \in Element, MutexFree, UNCHANGED <<actSlot, offset>>, RemoveElement(e)
    PROVE  WheelInv'
<1>1. CASE Del(e)
  <2>1. loop' = loop
    BY <1>1 DEF Del
  <2>2. \A j : Ahead(j)' <=> Ahead(j)
    BY <2>1 DEF Ahead
  <2>3. WheelOK' /\ Aligned'
    BY <2>2, AlignedKept
  <2>4. /\ ListsOK' /\ Links(slotList', elem') /\ Counted' /\ ~elem'[e].running
        /\ \A x \in Element : x # e => elem'[x] = elem[x]
    BY <1>1, Deletes
  <2>5. Placed'
    BY <2>2, <2>4, PlacedKept
  <2>6. Turning'
    BY <2>1 DEF IndInv, WheelInv, Turning, MutexFree
  <2>7. QED
    BY <2>3, <2>4, <2>5, <2>6 DEF WheelInv
<1>2. CASE DelBreaks(e)
  <2>1. loop' = [loop EXCEPT !.at = "broken"] /\ UNCHANGED <<wheel, elem, count>>
    BY <1>2 DEF DelBreaks, wheel
  <2>2. loop'.at = "broken"
    BY <2>1, LoopTypes DEF LoopRecord
  <2>3. \A j : ~Ahead(j)' /\ ~Ahead(j)
    BY <2>2 DEF Ahead, MutexFree
  <2>4. Turning'
    BY <2>1, <2>2 DEF IndInv, WheelInv, Turning, wheel
  <2>5. QED
    BY <2>1, <2>3, <2>4, FrameWheel
<1>3. QED
  BY <1>1, <1>2 DEF RemoveElement

\* The element that the loop calls is not ahead of the wheel.
LEMMA Called ==
    ASSUME IndInv, ActList # <<>>
    PROVE  /\ Head(ActList) \in Element
           /\ elem[Head(ActList)].running
           /\ elem[Head(ActList)].tick \in Nat /\ elem[Head(ActList)].tick <= Position
           /\ elem[Head(ActList)].interval \in 0 .. MaxInterval
           /\ ActList \in Seq(Element) /\ IsInjective(ActList)
           /\ 1 \in Array /\ actSlot[1] \in Slot(1)
<1> DEFINE e == Head(ActList)
           k == actSlot[1]
<1>1. 1 \in Array /\ k \in Slot(1) /\ 1 # LastArray
  BY Arrays DEF IndInv, WheelInv, WheelOK
<1>2. ActList \in Seq(Element) /\ IsInjective(ActList)
  BY <1>1 DEF IndInv, WheelInv, ListsOK, IsLists, Links, ActList
<1>3. e \in Range(ActList) /\ e \in Element
  BY <1>2, TailTakes
<1>4. elem[e].running /\ elem[e].array = 1 /\ elem[e].slot = k
  BY <1>1, <1>3 DEF IndInv, WheelInv, Links, ActList
<1>5. elem[e] \in ElementRecord
  BY <1>3 DEF IndInv, WheelInv, ListsOK
<1>6. elem[e].tick \in Nat /\ elem[e].interval \in 0 .. MaxInterval
  BY <1>5, SlotTimerAssumption DEF ElementRecord, MaxTime
<1>7. InWindow(1, k, elem[e].tick)
  BY <1>3, <1>4 DEF IndInv, WheelInv, Placed
<1>8. elem[e].tick < SlotBegin(1, k) + TicksPerSlot[1]
  BY <1>1, <1>7 DEF InWindow
<1>9. SlotBegin(1, k) = Position
  <2>1. k \in Nat /\ offset[1] \in Nat /\ TicksPerSlot[1] = 1 /\ k * 1 = k /\ ~(k < k)
    BY PositionBound
  <2>2. QED
    BY <2>1, PositionBound DEF SlotBegin
<1>10. elem[e].tick <= Position
  BY <1>6, <1>8, <1>9, PositionBound
<1>11. QED
  BY <1>1, <1>2, <1>3, <1>4, <1>6, <1>10

LEMMA RunCallWheel ==
    ASSUME IndInv, RunCall
    PROVE  WheelInv' /\ \A x \in Element : x # Head(ActList) => elem'[x] = elem[x]
<1> DEFINE k == actSlot[1]
           l == slotList[1][k]
           e == Head(l)
<1>0. ActList = l
  BY DEF ActList
<1>1. ActList # <<>> /\ loop.at = "run" /\ UNCHANGED <<actSlot, offset>>
  BY DEF RunCall
<1>2. /\ e \in Element /\ elem[e].running /\ elem[e].tick \in Nat /\ elem[e].tick <= Position
      /\ elem[e].interval \in 0 .. MaxInterval /\ ActList \in Seq(Element) /\ IsInjective(ActList)
      /\ 1 \in Array /\ k \in Slot(1)
  BY <1>0, <1>1, Called
<1>3. loop'.at = "callback" /\ loop'.array = loop.array /\ loop.array = 1
  <2>1. loop' = [loop EXCEPT !.at = "callback", !.calls = loop.calls + 1,
                             !.calling = {e}, !.due = elem[e].tick]
    BY <1>0 DEF RunCall
  <2>2. QED
    BY <1>1, <2>1, LoopTypes DEF LoopRecord, IndInv, WheelInv, Turning
<1>4. \A j : ~Ahead(j)' /\ ~Ahead(j)
  BY <1>1, <1>3 DEF Ahead
<1>5. WheelOK' /\ Aligned'
  BY <1>1, <1>4, AlignedKept
<1>6. Turning'
  BY <1>1, <1>3 DEF IndInv, WheelInv, Turning
<1>7. CASE elem[e].interval = 0
  <2>1. Unlink(e, [slotList EXCEPT ![1][k] = Tail(l)])
    BY <1>0, <1>7 DEF RunCall, Unlink
  <2>2. Unlink(e, Replaced(slotList, 1, k, Tail(l)))
    BY <2>1 DEF Replaced
  <2>3. /\ Tail(l) \in Seq(Element) /\ IsInjective(Tail(l))
        /\ e \in Range(l) /\ Range(Tail(l)) = Range(l) \ {e}
    BY <1>0, <1>1, <1>2, TailTakes
  <2> HIDE DEF k, e
  <2>4. /\ ListsOK' /\ Links(slotList', elem') /\ Counted' /\ ~elem'[e].running
        /\ \A x \in Element : x # e => elem'[x] = elem[x]
    <3>1. \A q, x, h :
            /\ q \in Seq(Element) /\ h \in Slot(1) /\ x \in Range(slotList[1][h])
            /\ IsInjective(q) /\ Range(q) = Range(slotList[1][h]) \ {x}
            /\ Unlink(x, Replaced(slotList, 1, h, q))
            => /\ ListsOK' /\ Links(slotList', elem') /\ Counted' /\ ~elem'[x].running
               /\ \A y \in Element : y # x => elem'[y] = elem[y]
      BY <1>2, Unlinks
    <3>2. QED
      BY <1>2, <2>2, <2>3, <3>1
  <2>5. Placed'
    BY <1>1, <1>4, <2>4, PlacedKept
  <2>6. QED
    BY <1>0, <1>5, <1>6, <2>4, <2>5 DEF WheelInv, e
<1>8. CASE elem[e].interval # 0
  <2> DEFINE interval == elem[e].interval
             tick == elem[e].tick + interval
  <2>1. /\ Insert(1, e, [slotList EXCEPT ![1][k] = Tail(l)], tick, interval)
        /\ UNCHANGED count
    BY <1>0, <1>8 DEF RunCall
  <2>2. Insert(1, e, Replaced(slotList, 1, k, Tail(l)), tick, interval)
    BY <2>1 DEF Replaced
  <2>3. tick \in 0 .. MaxTime
    <3> DEFINE t == elem[e].tick
    <3>1. /\ t \in Nat /\ t <= Position /\ interval \in 0 .. MaxInterval /\ Position \in Nat
          /\ Position <= 2 * (MaxTick + 1) /\ MaxInterval \in Nat /\ MaxTick \in Nat /\ MaxAhead \in Nat
      BY <1>2, PositionBound, SlotTimerAssumption
    <3> HIDE DEF t, interval
    <3>2. t + interval \in 0 .. MaxTime
      BY <3>1 DEF MaxTime
    <3>3. QED
      BY <3>2 DEF t
  <2>4. 1 \in 1 .. Levels
    BY Arrays
  <2>5. interval \in 0 .. MaxInterval /\ l # <<>>
    BY <1>0, <1>1, <1>2
  <2> HIDE DEF tick, interval, k, e
  <2>6. e = Head(slotList[1][k])
    BY DEF e
  <2>7. /\ ListsOK' /\ Links(slotList', elem') /\ Counted'
        /\ elem'[e].tick = tick /\ InWindow(elem'[e].array, elem'[e].slot, tick)
        /\ \A x \in Element : x # e => elem'[x] = elem[x]
    <3> DEFINE Taken(h, x, u, v) ==
                 /\ h \in Slot(1) /\ slotList[1][h] # <<>> /\ x = Head(slotList[1][h])
                 /\ u \in 0 .. MaxTime /\ v \in 0 .. MaxInterval
                 /\ Insert(1, x, Replaced(slotList, 1, h, Tail(slotList[1][h])), u, v)
               Relinked(x, u) ==
                 /\ ListsOK' /\ Links(slotList', elem') /\ Counted'
                 /\ elem'[x].tick = u /\ InWindow(elem'[x].array, elem'[x].slot, u)
                 /\ \A y \in Element : y # x => elem'[y] = elem[y]
    <3>1. \A h, x, u, v : Taken(h, x, u, v) => Relinked(x, u)
      BY <1>2, <2>1, <2>4, Reinserts
    <3>2. Taken(k, e, tick, interval)
      BY <1>2, <2>2, <2>3, <2>5, <2>6
    <3> HIDE DEF Taken, Relinked
    <3>3. Relinked(e, tick)
      BY <3>1, <3>2
    <3>4. QED
      BY <3>3 DEF Relinked
  <2>8. Placed'
    BY <1>1, <1>4, <2>7, PlacedKept
  <2>9. QED
    BY <1>0, <1>5, <1>6, <2>7, <2>8 DEF WheelInv, e
<1>9. QED
  BY <1>0, <1>7, <1>8

\* What is drained belongs to the round that the finer array has just begun.
LEMMA Drained ==
    ASSUME IndInv, loop.at = "drain",
           NEW j, j = loop.array, NEW k, k = actSlot[j + 1], slotList[j + 1][k] # <<>>,
           NEW e, e = Head(slotList[j + 1][k])
    PROVE  /\ j \in 1 .. Levels /\ j + 1 \in Array /\ k \in Slot(j + 1)
           /\ e \in Element /\ elem[e].running
           /\ elem[e].tick \in 0 .. MaxTime /\ elem[e].interval \in 0 .. MaxInterval
           /\ elem[e].tick >= TickBegin(j)
<1>1. j \in 1 .. Levels /\ j \in Nat /\ j >= 1 /\ actSlot[j] = 0
  BY LoopTypes, Arrays DEF IndInv, WheelInv, Turning
<1>2. j + 1 \in Array /\ j + 1 # 1 /\ (j + 1 = LastArray <=> j = Levels)
  BY <1>1, Arrays
<1>3. k \in Slot(j + 1) /\ k \in Nat
  BY <1>2 DEF IndInv, WheelInv, WheelOK
<1> DEFINE l == slotList[j + 1][k]
<1>4. l \in Seq(Element) /\ IsInjective(l)
  BY <1>2, <1>3 DEF IndInv, WheelInv, ListsOK, IsLists, Links
<1>5. e \in Range(l) /\ e \in Element
  BY <1>4, TailTakes
<1>6. elem[e].running /\ elem[e].array = j + 1 /\ elem[e].slot = k
  <2>1. PICK n \in Array : n = j + 1
    BY <1>2
  <2>2. \A x \in Range(slotList[n][k]) :
          elem[x].running /\ elem[x].array = n /\ elem[x].slot = k
    BY <1>3, <2>1 DEF IndInv, WheelInv, Links
  <2>3. QED
    BY <1>5, <2>1, <2>2
<1>7. elem[e] \in ElementRecord
  BY <1>5 DEF IndInv, WheelInv, ListsOK
<1>8. elem[e].tick \in 0 .. MaxTime /\ elem[e].interval \in 0 .. MaxInterval
  BY <1>7 DEF ElementRecord
<1>9. InWindow(j + 1, k, elem[e].tick)
  BY <1>5, <1>6 DEF IndInv, WheelInv, Placed
<1> DEFINE t == elem[e].tick
<1>10. TickBegin(j) = offset[j] /\ RoundEnd(j) = offset[j] /\ offset[j] \in Nat
  <2>1. actSlot[j] * TicksPerSlot[j] = 0 /\ TickBegin(j) = offset[j] + actSlot[j] * TicksPerSlot[j]
        /\ offset[j] \in Nat
    <3>1. TicksPerSlot[j] \in Nat /\ offset[j] \in Nat
      BY <1>1, Ticks DEF IndInv, WheelInv
    <3>2. 0 * TicksPerSlot[j] = 0
      BY <3>1
    <3>3. QED
      BY <1>1, <3>1, <3>2 DEF TickBegin
  <2>2. RoundEnd(j) = offset[j]
    BY DEF RoundEnd, Ahead
  <2>3. QED
    BY <2>1, <2>2
<1>11. t >= RoundEnd(j)
  <2>1. CASE j = Levels
    <3>1. j + 1 = LastArray
      BY <1>2, <2>1
    <3>2. t >= RoundEnd(Levels)
      BY <1>9, <3>1 DEF InWindow
    <3>3. QED
      BY <2>1, <3>2
  <2>2. CASE j # Levels
    <3>1. j + 1 # LastArray /\ j \in 1 .. Levels - 1 /\ j + 1 \in 1 .. Levels
      BY <1>1, <1>2, <2>2, Arrays
    <3>2. t >= SlotBegin(j + 1, k)
      BY <1>2, <1>9, <3>1 DEF InWindow
    <3>3. SlotBegin(j + 1, k) = TickBegin(j + 1)
      <4>1. ~(k < k)
        BY <1>3
      <4>2. TickBegin(j + 1) = offset[j + 1] + k * TicksPerSlot[j + 1]
        BY DEF TickBegin
      <4>3. TickBegin(j + 1) \in Nat
        BY <3>1, Ticks DEF IndInv, WheelInv
      <4>4. SlotBegin(j + 1, k) = offset[j + 1] + k * TicksPerSlot[j + 1] + 0
        BY <4>1 DEF SlotBegin
      <4>5. QED
        BY <4>2, <4>3, <4>4
    <3>4. TickBegin(j + 1) = RoundEnd(j)
      BY <3>1 DEF IndInv, WheelInv, Aligned
    <3>5. QED
      BY <3>2, <3>3, <3>4
  <2>3. QED
    BY <2>1, <2>2
<1>12. QED
  BY <1>1, <1>2, <1>3, <1>5, <1>6, <1>8, <1>10, <1>11

LEMMA DrainWheel ==
    ASSUME IndInv, Drain
    PROVE  /\ WheelInv'
           /\ \A x \in Element : /\ elem'[x].running <=> elem[x].running
                                 /\ elem'[x].tick = elem[x].tick
<1> DEFINE j == loop.array
           k == actSlot[j + 1]
           l == slotList[j + 1][k]
           e == Head(l)
<1>1. loop.at = "drain" /\ UNCHANGED <<actSlot, offset, count>>
  BY DEF Drain
<1>2. j \in 1 .. Levels /\ j \in Nat /\ j >= 1
  BY <1>1, LoopTypes, Arrays DEF IndInv, WheelInv, Turning
<1>3. CASE l # <<>>
  <2>1. loop' = loop /\ Insert(j, e, [slotList EXCEPT ![j + 1][k] = Tail(l)], elem[e].tick, elem[e].interval)
    BY <1>3 DEF Drain
  <2>2. Insert(j, e, Replaced(slotList, j + 1, k, Tail(l)), elem[e].tick, elem[e].interval)
    BY <2>1 DEF Replaced
  <2>3. \A i : Ahead(i)' <=> Ahead(i)
    BY <2>1 DEF Ahead
  <2>4. WheelOK' /\ Aligned'
    BY <1>1, <2>3, AlignedKept
  <2>5. /\ j \in 1 .. Levels /\ j + 1 \in Array /\ k \in Slot(j + 1)
        /\ e \in Element /\ elem[e].running
        /\ elem[e].tick \in 0 .. MaxTime /\ elem[e].interval \in 0 .. MaxInterval
        /\ elem[e].tick >= TickBegin(j)
    BY <1>1, <1>3, Drained
  <2>6. /\ ListsOK' /\ Links(slotList', elem') /\ Counted' /\ elem'[e].running
        /\ elem'[e].tick = elem[e].tick
        /\ InWindow(elem'[e].array, elem'[e].slot, elem[e].tick)
        /\ \A x \in Element : x # e => elem'[x] = elem[x]
    <3> DEFINE Taken(i, n, h, x, u, v) ==
                 /\ i \in 1 .. Levels /\ n \in Array /\ h \in Slot(n)
                 /\ slotList[n][h] # <<>> /\ x = Head(slotList[n][h])
                 /\ u \in 0 .. MaxTime /\ v \in 0 .. MaxInterval /\ u >= TickBegin(i)
                 /\ Insert(i, x, Replaced(slotList, n, h, Tail(slotList[n][h])), u, v)
               Relinked(x, u) ==
                 /\ ListsOK' /\ Links(slotList', elem') /\ Counted' /\ elem'[x].running
                 /\ elem'[x].tick = u /\ InWindow(elem'[x].array, elem'[x].slot, u)
                 /\ \A y \in Element : y # x => elem'[y] = elem[y]
    <3>1. \A i, n, h, x, u, v : Taken(i, n, h, x, u, v) => Relinked(x, u)
      BY <1>1, Reinserts
    <3> DEFINE n == j + 1
               u == elem[e].tick
               v == elem[e].interval
    <3>2. Taken(j, n, k, e, u, v)
      BY <1>3, <2>2, <2>5
    <3> HIDE DEF Taken, Relinked, n, u, v, j, k, e
    <3>3. Relinked(e, u)
      BY <3>1, <3>2
    <3>4. QED
      BY <3>3 DEF Relinked, u
  <2>7. Placed'
    BY <1>1, <2>3, <2>6, PlacedKept
  <2>8. Turning'
    BY <1>1, <2>1 DEF IndInv, WheelInv, Turning
  <2>9. \A x \in Element : (elem'[x].running <=> elem[x].running) /\ elem'[x].tick = elem[x].tick
    <3> HIDE DEF e
    <3> QED
      BY <2>5, <2>6
  <2>10. QED
    BY <2>4, <2>6, <2>7, <2>8, <2>9 DEF WheelInv
<1>4. CASE l = <<>>
  <2>1. loop' = [loop EXCEPT !.at = "move", !.array = j + 1] /\ UNCHANGED <<slotList, elem>>
    BY <1>4 DEF Drain
  <2>2. loop'.at = "move" /\ loop'.array = j + 1
    BY <2>1, LoopTypes DEF LoopRecord
  <2>3. \A i \in 1 .. Levels : Ahead(i)' <=> Ahead(i)
    BY <1>1, <1>2, <2>2, Arrays DEF Ahead
  <2>4. Turning'
    BY <1>1, <1>4, <2>1, <2>2 DEF IndInv, WheelInv, Turning
  <2>5. UNCHANGED <<wheel, elem, count>>
    BY <1>1, <2>1 DEF wheel
  <2>6. WheelInv'
    BY <2>3, <2>4, <2>5, FrameWheel
  <2>7. QED
    BY <2>1, <2>6
<1>5. QED
  BY <1>3, <1>4

\* An array moves on from a slot that is empty: its other slots keep their
\* ticks, whether it begins another round or not.
LEMMA SlotsKept ==
    ASSUME IndInv, MoveSlot, NEW j, j = loop.array
    PROVE  /\ j \in 1 .. Levels /\ j \in Array
           /\ slotList[j][actSlot[j]] = <<>>
           /\ WheelOK'
           /\ \A i \in Array : i # j => actSlot'[i] = actSlot[i] /\ offset'[i] = offset[i]
           /\ TickBegin(j)' = TickBegin(j) + TicksPerSlot[j]
           /\ \A k \in Slot(j) : k # actSlot[j] => SlotBegin(j, k)' = SlotBegin(j, k)
           /\ \/ loop'.at \in {"waiting", "stopped"} /\ loop'.array = 1 /\ offset'[j] = offset[j]
              \/ /\ loop'.at = "drain" /\ loop'.array = j /\ actSlot'[j] = 0
                 /\ offset'[j] = offset[j] + TicksPerArray(j)
<1>0. /\ loop.at = "move" /\ j # LastArray /\ UNCHANGED slotList
      /\ actSlot' = [actSlot EXCEPT ![j] = (actSlot[j] + 1) % NumberSlots(j)]
  BY DEF MoveSlot
<1>1. j \in Array /\ j \in 1 .. Levels
  BY <1>0, LoopTypes, Arrays
<1>2. slotList[j][actSlot[j]] = <<>>
  BY <1>0 DEF IndInv, WheelInv, Turning
<1> DEFINE a == actSlot[j]
           n == NumberSlots(j)
           w == TicksPerSlot[j]
           o == offset[j]
<1>3. /\ a \in Nat /\ n \in Nat \ {0} /\ w \in Nat \ {0} /\ o \in Nat /\ a < n
      /\ a * w \in Nat /\ n * w \in Nat /\ TicksPerArray(j) = n * w
      /\ TickBegin(j) = o + a * w
      /\ actSlot \in [Array -> Nat] /\ offset \in [Array -> Nat]
      /\ \A i \in Array : actSlot[i] \in Slot(i)
  BY <1>1, Ticks DEF IndInv, WheelInv, WheelOK, TicksPerArray
<1>4. (a + 1) * w = a * w + w
  <2> HIDE DEF a, w
  <2> QED
    BY <1>3, Distributive
<1>5. \A i \in Array : i # j => actSlot'[i] = actSlot[i]
  BY <1>0, <1>3
<1>6. CASE a + 1 < n
  <2>1. (a + 1) % n = a + 1
    <3>1. a + 1 \in Nat
      BY <1>3
    <3> HIDE DEF a, n
    <3>2. QED
      BY <1>3, <1>6, <3>1, Remainder
  <2>2. actSlot' = [actSlot EXCEPT ![j] = a + 1] /\ actSlot'[j] = a + 1
    BY <1>0, <1>1, <1>3, <2>1
  <2>3. offset' = offset /\ (loop' = Idle \/ loop' = [Idle EXCEPT !.at = "stopped"])
    <3>1. ~(a + 1 = n)
      BY <1>3, <1>6
    <3>2. AfterRun(offset[1] + actSlot'[1]) /\ UNCHANGED offset
      BY <3>1 DEF MoveSlot
    <3>3. QED
      BY <3>2 DEF AfterRun
  <2>4. loop'.at \in {"waiting", "stopped"} /\ loop'.array = 1
    BY <2>3 DEF Idle
  <2>5. a + 1 \in Slot(j)
    BY <1>3, <1>6 DEF Slot
  <2>6. WheelOK'
    BY <1>1, <1>3, <2>2, <2>3, <2>5 DEF WheelOK
  <2>7. TickBegin(j)' = o + (a + 1) * w
    BY <2>2, <2>3 DEF TickBegin
  <2>8. TickBegin(j)' = TickBegin(j) + w
    <3> HIDE DEF a, w, o
    <3> QED
      BY <1>3, <1>4, <2>7
  <2>9. ASSUME NEW k \in Slot(j), k # a
        PROVE  SlotBegin(j, k)' = SlotBegin(j, k)
    <3>1. k < actSlot'[j] <=> k < actSlot[j]
      BY <1>3, <2>2, <2>9 DEF Slot
    <3>2. QED
      BY <2>3, <3>1 DEF SlotBegin
  <2>10. QED
    BY <1>1, <1>2, <1>5, <2>3, <2>4, <2>6, <2>8, <2>9
<1>7. CASE a + 1 = n
  <2>1. (a + 1) % n = 0
    <3> HIDE DEF a, n
    <3>1. n % n = n - n
      BY <1>3, Remainder
    <3>2. n - n = 0
      BY <1>3
    <3> QED
      BY <1>7, <3>1, <3>2
  <2>2. actSlot' = [actSlot EXCEPT ![j] = 0] /\ actSlot'[j] = 0
    BY <1>0, <1>1, <1>3, <2>1
  <2>3. /\ offset' = [offset EXCEPT ![j] = o + TicksPerArray(j)]
        /\ loop' = [loop EXCEPT !.at = "drain"]
    BY <1>3, <1>7 DEF MoveSlot
  <2>4. loop'.at = "drain" /\ loop'.array = j
    BY <2>3, LoopTypes DEF LoopRecord
  <2>5. offset'[j] = o + n * w /\ \A i \in Array : i # j => offset'[i] = offset[i]
    BY <1>1, <1>3, <2>3
  <2>6. WheelOK'
    <3>1. 0 \in Slot(j) /\ o + n * w \in Nat
      BY <1>3 DEF Slot
    <3>2. actSlot' \in [Array -> Nat] /\ \A i \in Array : actSlot'[i] \in Slot(i)
      BY <1>1, <1>3, <1>5, <2>2, <3>1
    <3>3. offset' \in [Array -> Nat]
      BY <1>1, <1>3, <2>3, <3>1
    <3>4. QED
      BY <3>2, <3>3 DEF WheelOK
  <2>7. TickBegin(j)' = TickBegin(j) + w
    <3>1. TickBegin(j)' = (o + n * w) + 0 * w
      BY <2>2, <2>5 DEF TickBegin
    <3>2. n * w = a * w + w /\ 0 * w = 0
      BY <1>3, <1>4, <1>7
    <3> HIDE DEF a, w, o, n
    <3>3. QED
      BY <1>3, <3>1, <3>2
  <2>8. ASSUME NEW k \in Slot(j), k # a
        PROVE  SlotBegin(j, k)' = SlotBegin(j, k)
    <3>1. k \in Nat /\ k < a /\ ~(k < 0) /\ k * w \in Nat
      BY <1>3, <1>7, <2>8 DEF Slot
    <3>2. SlotBegin(j, k)' = (o + n * w) + k * w + 0
      BY <2>2, <2>5, <3>1 DEF SlotBegin
    <3>3. SlotBegin(j, k) = o + k * w + n * w
      BY <1>3, <3>1 DEF SlotBegin
    <3> HIDE DEF a, w, o, n
    <3>4. QED
      BY <1>3, <3>1, <3>2, <3>3
  <2>9. QED
    BY <1>1, <1>2, <1>3, <1>5, <2>2, <2>4, <2>5, <2>6, <2>7, <2>8
<1>8. QED
  <2>1. a + 1 < n \/ a + 1 = n
    BY DEF MoveSlot
  <2>2. QED
    BY <1>6, <1>7, <2>1

LEMMA MoveSlotWheel ==
    ASSUME IndInv, MoveSlot
    PROVE  WheelInv'
<1>0. SUFFICES ASSUME NEW j, j = loop.array PROVE WheelInv'
  OBVIOUS
<1>1. /\ j \in 1 .. Levels /\ j \in Array /\ slotList[j][actSlot[j]] = <<>>
      /\ WheelOK'
      /\ \A i \in Array : i # j => actSlot'[i] = actSlot[i] /\ offset'[i] = offset[i]
      /\ TickBegin(j)' = TickBegin(j) + TicksPerSlot[j]
      /\ \A k \in Slot(j) : k # actSlot[j] => SlotBegin(j, k)' = SlotBegin(j, k)
      /\ \/ loop'.at \in {"waiting", "stopped"} /\ loop'.array = 1 /\ offset'[j] = offset[j]
         \/ /\ loop'.at = "drain" /\ loop'.array = j /\ actSlot'[j] = 0
            /\ offset'[j] = offset[j] + TicksPerArray(j)
  BY <1>0, SlotsKept
<1>2. loop.at = "move" /\ UNCHANGED <<slotList, elem, count>>
  BY DEF MoveSlot
<1>3. ListsOK' /\ Links(slotList', elem') /\ Counted'
  BY <1>2 DEF IndInv, WheelInv, ListsOK, Counted
<1>4. WheelOK /\ Aligned /\ Turning /\ Placed
  BY DEF IndInv, WheelInv
<1>5. \A i \in 1 .. Levels : i \in Array /\ (i = j - 1 \/ ~Ahead(i))
  BY <1>0, <1>1, <1>2, Arrays DEF Ahead
\* The end of the round that array i is in is the same as before, unless array
\* i + 1 has just caught up.
<1>6. ASSUME NEW i \in 1 .. Levels, i # j - 1
      PROVE  RoundEnd(i)' = RoundEnd(i)
  <2>1. RoundEnd(i) = offset[i] + TicksPerArray(i)
    BY <1>5, <1>6 DEF RoundEnd
  <2>2. CASE loop'.at \in {"waiting", "stopped"}
    <3>1. ~Ahead(i)'
      BY <2>2 DEF Ahead
    <3>2. offset'[i] = offset[i]
      BY <1>1, <1>5, <2>2
    <3>3. QED
      BY <2>1, <3>1, <3>2 DEF RoundEnd
  <2>3. CASE loop'.at = "drain" /\ i = j
    <3>1. Ahead(i)'
      BY <1>1, <2>3 DEF Ahead
    <3>2. offset'[i] = offset[i] + TicksPerArray(i)
      BY <1>1, <2>3
    <3>3. QED
      BY <2>1, <3>1, <3>2 DEF RoundEnd
  <2>4. CASE loop'.at = "drain" /\ i # j
    <3>1. ~Ahead(i)'
      BY <1>1, <2>4 DEF Ahead
    <3>2. offset'[i] = offset[i]
      BY <1>1, <1>5, <2>4
    <3>3. QED
      BY <2>1, <3>1, <3>2 DEF RoundEnd
  <2>5. QED
    BY <1>1, <2>2, <2>3, <2>4
<1>7. Aligned'
  <2>1. SUFFICES ASSUME NEW i \in 1 .. Levels - 1
                 PROVE  TickBegin(i + 1)' = RoundEnd(i)'
    BY DEF Aligned
  <2>2. i \in 1 .. Levels /\ i + 1 \in 1 .. Levels /\ i \in Array /\ i + 1 \in Array /\ i # i + 1
    BY Arrays
  <2>3. TickBegin(i + 1) = RoundEnd(i)
    BY <1>4 DEF Aligned
  <2>4. CASE i = j - 1
    <3>1. i + 1 = j
      BY <1>1, <2>4
    <3>2. RoundEnd(i) = offset[i]
      BY <1>0, <1>2, <3>1 DEF RoundEnd, Ahead
    <3>3. ~Ahead(i)'
      BY <1>1, <2>2, <3>1 DEF Ahead
    <3>4. offset'[i] = offset[i]
      BY <1>1, <2>2, <3>1
    <3>5. RoundEnd(i)' = offset[i] + TicksPerArray(i)
      BY <3>3, <3>4 DEF RoundEnd
    <3>6. TicksPerSlot[i + 1] = TicksPerArray(i)
      BY Widths
    <3>7. TickBegin(i + 1)' = TickBegin(i + 1) + TicksPerSlot[i + 1]
      BY <1>1, <3>1
    <3>8. QED
      BY <2>3, <3>2, <3>5, <3>6, <3>7
  <2>5. CASE i # j - 1
    <3>1. i + 1 # j
      BY <1>1, <2>5
    <3>2. TickBegin(i + 1)' = TickBegin(i + 1)
      BY <1>1, <2>2, <3>1 DEF TickBegin
    <3>3. QED
      BY <1>6, <2>2, <2>3, <2>5, <3>2
  <2>6. QED
    BY <2>4, <2>5
<1>8. Turning'
  <2>1. LastArray \in Array /\ LastArray # j
    BY <1>1, Arrays
  <2>2. actSlot'[LastArray] = 0 /\ offset'[LastArray] = InitOffset[LastArray]
    BY <1>1, <1>4, <2>1 DEF Turning
  <2>3. QED
    BY <1>1, <2>1, <2>2 DEF Turning
<1>9. Placed'
  <2>1. SUFFICES ASSUME NEW e \in Element, elem[e].running
                 PROVE  InWindow(elem[e].array, elem[e].slot, elem[e].tick)'
    BY <1>2 DEF Placed
  <2>2. PICK i, k, t : i = elem[e].array /\ k = elem[e].slot /\ t = elem[e].tick
    OBVIOUS
  <2>3. /\ i \in Array /\ k \in Slot(i) /\ e \in Range(slotList[i][k]) /\ InWindow(i, k, t)
        /\ elem'[e].array = i /\ elem'[e].slot = k /\ elem'[e].tick = t
    BY <1>2, <1>4, <2>1, <2>2 DEF IndInv, WheelInv, ListsOK, ElementRecord, Links, Placed
  <2>4. CASE i = LastArray
    <3>1. t >= RoundEnd(Levels) /\ k = 0
      BY <2>3, <2>4 DEF InWindow
    <3>2. RoundEnd(Levels)' = RoundEnd(Levels)
      BY <1>1, <1>6, Arrays
    <3>3. QED
      BY <2>3, <2>4, <3>1, <3>2 DEF InWindow
  <2>5. CASE i # LastArray /\ i # j
    <3>1. /\ t < SlotBegin(i, k) + TicksPerSlot[i]
          /\ t >= SlotBegin(i, k) \/ (i = 1 /\ k = actSlot[1])
      BY <2>3, <2>5 DEF InWindow
    <3>2. SlotBegin(i, k)' = SlotBegin(i, k) /\ actSlot'[i] = actSlot[i]
      BY <1>1, <2>3, <2>5 DEF SlotBegin
    <3>3. QED
      BY <2>3, <2>5, <3>1, <3>2 DEF InWindow
  <2>6. CASE i = j
    <3>1. i # LastArray
      BY <1>1, <2>6, Arrays
    <3>2. k # actSlot[i]
      <4>1. Range(<<>>) = {}
        BY DEF Range
      <4>2. QED
        BY <1>1, <2>3, <2>6, <4>1
    <3>3. t < SlotBegin(i, k) + TicksPerSlot[i] /\ t >= SlotBegin(i, k)
      BY <2>3, <3>1, <3>2 DEF InWindow
    <3>4. SlotBegin(i, k)' = SlotBegin(i, k)
      BY <1>1, <2>3, <2>6, <3>2
    <3>5. QED
      BY <2>3, <3>1, <3>3, <3>4 DEF InWindow
  <2>7. QED
    BY <2>4, <2>5, <2>6
<1>10. QED
  BY <1>1, <1>3, <1>7, <1>8, <1>9 DEF WheelInv

\* The loop waits again or has ended.
LEMMA Returned ==
    ASSUME IndInv, NEW p, AfterRun(p)
    PROVE  /\ loop'.at \in {"waiting", "stopped"} /\ loop'.array = 1
           /\ loop' \in LoopRecord /\ stopEvent' \in BOOLEAN
           /\ loop'.at = "waiting" <=> running
<1>1. loop' = Idle \/ loop' = [Idle EXCEPT !.at = "stopped"]
  BY DEF AfterRun
<1>2. Idle \in LoopRecord /\ [Idle EXCEPT !.at = "stopped"] \in LoopRecord
  BY Arrays DEF Idle, LoopRecord
<1>3. stopEvent' \in BOOLEAN
  BY LoopTypes DEF AfterRun
<1>4. QED
  BY <1>1, <1>2, <1>3 DEF AfterRun, Idle

\* The steps of the loop that leave the wheel, the last array's turn aside.
LEMMA LoopWheel ==
    ASSUME IndInv, LoopBegin \/ LoopEnds \/ CallbackReturns \/ RunLimit \/ RunEmpty
    PROVE  WheelInv'
<1>1. UNCHANGED <<wheel, elem, count>>
  BY DEF LoopBegin, LoopEnds, CallbackReturns, RunLimit, RunEmpty
<1>2. loop.array = 1 /\ loop.at \in {"waiting", "run", "callback"}
  BY DEF LoopBegin, LoopEnds, CallbackReturns, RunLimit, RunEmpty, IndInv, WheelInv, Turning
<1>3. /\ loop'.array = 1
      /\ \/ loop'.at \in {"waiting", "run", "stopped"}
         \/ loop'.at = "move" /\ slotList[1][actSlot[1]] = <<>>
  <2>1. CASE LoopBegin
    BY <2>1 DEF LoopBegin, Idle
  <2>2. CASE LoopEnds
    BY <1>2, <2>2, LoopTypes DEF LoopEnds, LoopRecord
  <2>3. CASE CallbackReturns
    BY <1>2, <2>3, LoopTypes DEF CallbackReturns, LoopRecord
  <2>4. CASE RunLimit
    BY <2>4, Returned DEF RunLimit
  <2>5. CASE RunEmpty
    BY <1>2, <2>5, LoopTypes DEF RunEmpty, LoopRecord, ActList
  <2>6. QED
    BY <2>1, <2>2, <2>3, <2>4, <2>5
<1>4. \A j \in 1 .. Levels : ~Ahead(j) /\ ~Ahead(j)'
  BY <1>2, <1>3 DEF Ahead
<1>5. Turning'
  BY <1>1, <1>3 DEF IndInv, WheelInv, Turning, wheel
<1>6. QED
  BY <1>1, <1>4, <1>5, FrameWheel

\* The steps that leave the loop where it is.
LEMMA AsideWheel ==
    ASSUME IndInv, UNCHANGED <<wheel, elem, count, loop>>
    PROVE  WheelInv'
<1>1. \A j \in 1 .. Levels : Ahead(j)' <=> Ahead(j)
  BY DEF Ahead
<1>2. Turning'
  BY DEF IndInv, WheelInv, Turning, wheel
<1>3. QED
  BY <1>1, <1>2, FrameWheel

\* The last array does not move, and its list has been drained: no element is
\* in it that the array before it could take now.
LEMMA MoveLastWheel ==
    ASSUME IndInv, MoveLast
    PROVE  WheelInv'
<1>1. /\ UNCHANGED <<actSlot, offset, slotList, elem, count>>
      /\ loop.at = "move" /\ loop.array = LastArray
  BY DEF MoveLast, wheel
<1>2. loop'.at \in {"waiting", "stopped"} /\ loop'.array = 1
  BY Returned DEF MoveLast
<1>3. \A j \in 1 .. Levels - 1 : ~Ahead(j) /\ ~Ahead(j)'
  BY <1>1, <1>2, Arrays DEF Ahead
<1>4. WheelOK'
  BY <1>1 DEF IndInv, WheelInv, WheelOK
<1>5. Aligned'
  <2>1. \A j \in 1 .. Levels - 1 : TickBegin(j + 1)' = TickBegin(j + 1) /\ RoundEnd(j)' = RoundEnd(j)
    BY <1>1, <1>3 DEF TickBegin, RoundEnd
  <2>2. QED
    BY <2>1 DEF IndInv, WheelInv, Aligned
<1>6. ListsOK' /\ Links(slotList', elem') /\ Counted'
  BY <1>1 DEF IndInv, WheelInv, ListsOK, Counted
<1>7. Turning'
  BY <1>1, <1>2 DEF IndInv, WheelInv, Turning
<1>8. Placed'
  <2>1. SUFFICES ASSUME NEW e \in Element, elem[e].running
                 PROVE  InWindow(elem[e].array, elem[e].slot, elem[e].tick)'
    BY <1>1 DEF Placed
  <2>2. PICK i, k, t : i = elem[e].array /\ k = elem[e].slot /\ t = elem[e].tick
    OBVIOUS
  <2>3. /\ i \in Array /\ k \in Slot(i) /\ e \in Range(slotList[i][k]) /\ InWindow(i, k, t)
        /\ elem'[e].array = i /\ elem'[e].slot = k /\ elem'[e].tick = t
    BY <1>1, <2>1, <2>2 DEF IndInv, WheelInv, ListsOK, ElementRecord, Links, Placed
  <2>4. slotList[LastArray][0] = <<>>
    BY <1>1 DEF IndInv, WheelInv, Turning
  <2>5. i # LastArray
    <3>1. Range(<<>>) = {}
      BY DEF Range
    <3>2. QED
      BY <2>3, <2>4, <3>1 DEF InWindow
  <2>6. SlotBegin(i, k)' = SlotBegin(i, k)
    BY <1>1 DEF SlotBegin
  <2>7. QED
    BY <1>1, <2>3, <2>5, <2>6 DEF InWindow
<1>9. QED
  BY <1>4, <1>5, <1>6, <1>7, <1>8 DEF WheelInv

\* Every step keeps the wheel.
LEMMA WheelStep ==
    ASSUME IndInv, [Next]_vars
    PROVE  WheelInv'
<1>1. CASE LoopStep
  BY <1>1, LoopWheel, RunCallWheel, MoveSlotWheel, MoveLastWheel, DrainWheel DEF LoopStep
<1>2. CASE StopSlotTimerLoopSync \/ Tick \/ UNCHANGED vars
  <2>1. UNCHANGED <<wheel, elem, count, loop>>
    BY <1>2 DEF StopSlotTimerLoopSync, Tick, vars
  <2>2. QED
    BY <2>1, AsideWheel
<1>3. ASSUME NEW e \in Element, StopChecks(e)
      PROVE  WheelInv'
  <2>1. UNCHANGED <<wheel, elem, count, loop>>
    BY <1>3 DEF StopChecks
  <2>2. QED
    BY <2>1, AsideWheel
<1>4. ASSUME NEW e \in Element, Stop(e) \/ StopRemoves(e)
      PROVE  WheelInv'
  <2>1. MutexFree /\ UNCHANGED <<actSlot, offset>> /\ RemoveElement(e)
    BY <1>4 DEF Stop, StopRemoves
  <2>2. QED
    BY <2>1, RemoveWheel
<1>5. ASSUME NEW e \in Element, NEW t \in now + MinAhead .. Position + MaxAhead,
             NEW i \in {0, MaxInterval}, Start(e, t, i)
      PROVE  WheelInv'
  BY <1>5, StartWheel
<1>6. QED
  BY <1>1, <1>2, <1>3, <1>4, <1>5 DEF Next

-----------------------------------------------------------------------------
(***************************************************************************)
(* The wheel and the clock                                                 *)
(***************************************************************************)
\* What the clock's invariant says, with the types that its sums need.
LEMMA ClockFacts ==
    ASSUME IndInv
    PROVE  /\ now \in Nat /\ expiry \in Nat /\ loop.actTick \in Nat /\ Position \in Nat
           /\ late \in Nat /\ MaxTick \in Nat /\ late <= now /\ now <= MaxTick
           /\ Resting => expiry <= MaxTick + 1
           /\ ~Resting => expiry <= now /\ loop.actTick <= now
           /\ Position <= now + expiry + 1
           /\ ~Moved => Position <= now + expiry
           /\ loop.at = "waiting" => Position <= expiry + late /\ now <= expiry + late
           /\ ~Resting => now <= expiry + late /\ Position <= expiry + late + 1
           /\ ~Resting /\ ~Moved => Position <= expiry + late
           /\ loop.at = "callback" => loop.due <= now + late
<1>1. /\ now \in Nat /\ expiry \in Nat /\ loop.actTick \in Nat /\ Position \in Nat
      /\ late \in Nat /\ MaxTick \in Nat
  BY LoopTypes, PositionBound, SlotTimerAssumption
<1>2. Clock
  BY DEF IndInv
<1>3. QED
  BY <1>1, <1>2 DEF Clock

\* Where the first array is.
LEMMA PositionMoves ==
    ASSUME IndInv, MoveSlot
    PROVE  Position' = IF loop.array = 1 THEN Position + 1 ELSE Position
<1>1. SUFFICES ASSUME NEW j, j = loop.array
               PROVE  Position' = IF j = 1 THEN Position + 1 ELSE Position
  OBVIOUS
<1>2. /\ WheelOK' /\ 1 \in Array
      /\ \A i \in Array : i # j => actSlot'[i] = actSlot[i] /\ offset'[i] = offset[i]
      /\ TickBegin(j)' = TickBegin(j) + TicksPerSlot[j]
  BY <1>1, SlotsKept, Arrays
<1>3. CASE j = 1
  <2>1. TickBegin(1)' = offset'[1] + actSlot'[1] * 1 /\ TicksPerSlot[1] = 1
    BY Widths DEF TickBegin
  <2>2. actSlot'[1] * 1 = actSlot'[1]
    BY <1>2 DEF WheelOK
  <2>3. TickBegin(1)' = Position'
    BY <2>1, <2>2 DEF Position
  <2>4. TickBegin(1)' = TickBegin(1) + TicksPerSlot[1]
    BY <1>2, <1>3
  <2>5. QED
    BY <1>3, <2>1, <2>3, <2>4, PositionBound
<1>4. CASE j # 1
  BY <1>2, <1>4 DEF Position
<1>5. QED
  BY <1>3, <1>4

\* When run returns, the timer expires again at the next tick, or at once.
LEMMA ReturnedClock ==
    ASSUME IndInv, AfterRun(Position'), UNCHANGED <<now, late, running>>, ~Resting,
           Position' \in Nat, Position' <= now + expiry + 1, Position' <= expiry + late + 1
    PROVE  Clock' /\ expiry' \in Nat
<1>1. /\ loop'.at \in {"waiting", "stopped"}
      /\ loop'.at = "waiting" <=> running
  BY Returned
<1>2. /\ running /\ Position' > loop.actTick => expiry' = expiry + 1
      /\ ~(running /\ Position' > loop.actTick) => expiry' = expiry
  BY DEF AfterRun
<1>3. Resting' /\ (Moved' <=> ~running)
  BY <1>1 DEF Resting, Moved
<1>4. expiry' \in Nat /\ expiry' <= MaxTick + 1
  BY <1>2, ClockFacts
<1>5. CASE running
  <2>1. Position' <= now + expiry'
    BY <1>2, <1>5, ClockFacts
  <2>2. Position' <= expiry' + late /\ now <= expiry' + late
    BY <1>2, <1>5, ClockFacts
  <2>3. QED
    BY <1>1, <1>3, <1>4, <1>5, <2>1, <2>2, ClockFacts DEF Clock
<1>6. CASE ~running
  BY <1>1, <1>2, <1>3, <1>4, <1>6, ClockFacts DEF Clock
<1>7. QED
  BY <1>5, <1>6

LEMMA MoveClock ==
    ASSUME IndInv, RunLimit \/ MoveSlot \/ MoveLast
    PROVE  Clock' /\ LoopOK'
<1>1. UNCHANGED <<now, late, running, stopping>> /\ loop.at \in {"run", "move"} /\ ~Resting
  BY DEF RunLimit, MoveSlot, MoveLast, Resting
<1>2. Position' \in Nat /\ Position' <= now + expiry + 1 /\ Position' <= expiry + late + 1
  <2>1. CASE RunLimit \/ MoveLast
    <3>1. Position' = Position
      BY <2>1 DEF RunLimit, MoveLast, wheel, Position
    <3>2. QED
      BY <1>1, <3>1, ClockFacts
  <2>2. CASE MoveSlot
    <3>1. loop.at = "move"
      BY <2>2 DEF MoveSlot
    <3>2. CASE loop.array = 1
      <4>1. ~Moved /\ Position' = Position + 1
        BY <2>2, <3>1, <3>2, PositionMoves DEF Moved
      <4>2. QED
        BY <1>1, <4>1, ClockFacts
    <3>3. CASE loop.array # 1
      <4>1. Position' = Position
        BY <2>2, <3>3, PositionMoves
      <4>2. QED
        BY <1>1, <4>1, ClockFacts
    <3>4. QED
      BY <3>2, <3>3
  <2>3. QED
    BY <2>1, <2>2
<1>3. CASE AfterRun(Position')
  <2>1. Clock' /\ expiry' \in Nat
    BY <1>1, <1>2, <1>3, ReturnedClock
  <2>2. loop' \in LoopRecord /\ stopEvent' \in BOOLEAN
    BY <1>3, Returned
  <2>3. QED
    BY <1>1, <2>1, <2>2, LoopTypes DEF LoopOK
<1>4. CASE loop' = [loop EXCEPT !.at = "drain"] /\ UNCHANGED <<expiry, stopEvent>>
  <2>1. loop' \in LoopRecord /\ loop'.at = "drain" /\ loop'.actTick = loop.actTick
    BY <1>4, LoopTypes DEF LoopRecord
  <2>2. ~Resting' /\ Moved'
    BY <2>1 DEF Resting, Moved
  <2>3. Clock'
    BY <1>1, <1>2, <1>4, <2>1, <2>2, ClockFacts DEF Clock
  <2>4. QED
    BY <1>1, <1>4, <2>1, <2>3, LoopTypes DEF LoopOK
<1>5. QED
  <2>1. CASE RunLimit \/ MoveLast
    <3>1. Position' = Position
      BY <2>1 DEF RunLimit, MoveLast, wheel, Position
    <3>2. QED
      BY <1>3, <2>1, <3>1 DEF RunLimit, MoveLast
  <2>2. CASE MoveSlot
    <3>1. CASE AfterRun(offset[1] + actSlot'[1]) /\ UNCHANGED offset
      <4>1. Position' = offset[1] + actSlot'[1]
        BY <3>1 DEF Position
      <4>2. QED
        BY <1>3, <3>1, <4>1
    <3>2. QED
      BY <1>4, <2>2, <3>1 DEF MoveSlot
  <2>3. QED
    BY <2>1, <2>2

\* The other steps leave the wheel where it is.
LEMMA TurnClock ==
    ASSUME IndInv, LoopBegin \/ LoopEnds \/ RunCall \/ CallbackReturns \/ RunEmpty \/ Drain
    PROVE  Clock' /\ LoopOK'
<1>1. UNCHANGED <<now, expiry, late, running, stopping>> /\ Position' = Position
  BY DEF LoopBegin, LoopEnds, RunCall, CallbackReturns, RunEmpty, Drain, wheel, Position
<1>2. stopEvent' \in BOOLEAN
  BY LoopTypes DEF LoopBegin, LoopEnds, RunCall, CallbackReturns, RunEmpty, Drain
<1>3. loop' \in LoopRecord /\ Clock'
  <2>1. CASE LoopBegin
    <3>1. /\ loop' = [Idle EXCEPT !.at = "run", !.actTick = now]
          /\ loop.at = "waiting" /\ expiry <= now
      BY <2>1 DEF LoopBegin
    <3>2. loop' \in LoopRecord /\ loop'.at = "run" /\ loop'.actTick = now
      BY <3>1, LoopTypes, Arrays DEF Idle, LoopRecord
    <3>3. Resting /\ ~Moved /\ ~Resting' /\ ~Moved'
      BY <3>1, <3>2 DEF Resting, Moved
    <3>4. QED
      BY <1>1, <3>1, <3>2, <3>3, ClockFacts DEF Clock
  <2>2. CASE LoopEnds
    <3>1. loop' = [loop EXCEPT !.at = "stopped"] /\ loop.at = "waiting"
      BY <2>2 DEF LoopEnds
    <3>2. loop' \in LoopRecord /\ loop'.at = "stopped"
      BY <3>1, LoopTypes DEF LoopRecord
    <3>3. Resting /\ Resting' /\ Moved'
      BY <3>1, <3>2 DEF Resting, Moved
    <3>4. QED
      BY <1>1, <3>2, <3>3, ClockFacts DEF Clock
  <2>3. CASE RunCall
    <3>1. /\ loop' = [loop EXCEPT !.at = "callback", !.calls = loop.calls + 1,
                                  !.calling = {Head(ActList)}, !.due = elem[Head(ActList)].tick]
          /\ loop.at = "run" /\ ActList # <<>>
      BY <2>3 DEF RunCall, ActList
    <3>2. /\ Head(ActList) \in Element
          /\ elem[Head(ActList)].tick \in Nat /\ elem[Head(ActList)].tick <= Position
      BY <3>1, Called
    <3>3. /\ loop' \in LoopRecord /\ loop'.at = "callback" /\ loop'.actTick = loop.actTick
          /\ loop'.due = elem[Head(ActList)].tick
      <4> DEFINE h == Head(ActList)
                 t == elem[h].tick
                 n == loop.calls + 1
                 c == {h}
      <4>1. c \in SUBSET Element /\ t \in Nat /\ n \in Nat
        BY <3>2, LoopTypes
      <4>2. loop' = [loop EXCEPT !.at = "callback", !.calls = n, !.calling = c, !.due = t]
        BY <3>1
      <4> HIDE DEF h, t, n, c
      <4>3. loop' \in LoopRecord /\ loop'.at = "callback" /\ loop'.actTick = loop.actTick /\ loop'.due = t
        BY <4>1, <4>2, LoopTypes DEF LoopRecord
      <4>4. QED
        BY <4>3 DEF h, t
    <3>4. ~Resting /\ ~Moved /\ ~Resting' /\ ~Moved'
      BY <3>1, <3>3 DEF Resting, Moved
    <3> DEFINE t == elem[Head(ActList)].tick
    <3>5. t \in Nat /\ t <= Position /\ loop'.due = t
      BY <3>2, <3>3
    <3> HIDE DEF t
    <3>6. QED
      BY <1>1, <3>3, <3>4, <3>5, ClockFacts DEF Clock
  <2>4. CASE CallbackReturns \/ RunEmpty \/ Drain
    <3>1. /\ loop' \in LoopRecord /\ loop'.actTick = loop.actTick
          /\ \/ loop.at \in {"run", "callback"} /\ loop'.at = "run"
             \/ loop.at = "run" /\ loop'.at = "move" /\ loop'.array = 1
             \/ /\ loop.at = "drain"
                /\ loop'.at = "drain" \/ (loop'.at = "move" /\ loop'.array # 1)
      <4>1. CASE CallbackReturns
        BY <4>1, LoopTypes DEF CallbackReturns, LoopRecord
      <4>2. CASE RunEmpty
        BY <4>2, LoopTypes, Arrays DEF RunEmpty, LoopRecord
      <4>3. CASE Drain
        <5>1. loop.at = "drain" /\ loop.array \in Array /\ loop.array # LastArray
          BY <4>3, LoopTypes DEF Drain, IndInv, WheelInv, Turning
        <5>2. loop.array + 1 \in Array /\ loop.array + 1 # 1
          BY <5>1, Arrays
        <5>3. loop' = loop \/ loop' = [loop EXCEPT !.at = "move", !.array = loop.array + 1]
          BY <4>3 DEF Drain
        <5>4. QED
          BY <5>1, <5>2, <5>3, LoopTypes DEF LoopRecord
      <4>4. QED
        BY <2>4, <4>1, <4>2, <4>3
    <3>2. ~Resting /\ ~Resting' /\ loop'.at # "callback" /\ loop'.at # "waiting" /\ (Moved => Moved')
      BY <3>1 DEF Resting, Moved
    <3>3. QED
      BY <1>1, <3>1, <3>2, ClockFacts DEF Clock
  <2>5. QED
    BY <2>1, <2>2, <2>3, <2>4
<1>4. QED
  BY <1>1, <1>2, <1>3, LoopTypes DEF LoopOK

LEMMA AsideClock ==
    ASSUME IndInv, NEW e \in Element,
           \/ Stop(e) \/ StopChecks(e) \/ StopRemoves(e)
           \/ \E t, i : Start(e, t, i)
    PROVE  Clock' /\ LoopOK'
<1>1. UNCHANGED <<now, expiry, late, running, stopEvent>> /\ Position' = Position
  BY DEF Stop, StopChecks, StopRemoves, Start, wheel, Position
<1>2. stopping' \in SUBSET Element
  BY LoopTypes DEF Stop, StopChecks, StopRemoves, Start
<1>3. \/ loop' = loop
      \/ loop' = [loop EXCEPT !.at = "broken"] /\ loop.at \in {"waiting", "callback"}
  BY DEF Stop, StopChecks, StopRemoves, Start, RemoveElement, Del, DelBreaks, MutexFree
<1>4. CASE loop' = loop
  BY <1>1, <1>2, <1>4, LoopTypes DEF IndInv, Clock, LoopOK, Resting, Moved
<1>5. CASE loop' = [loop EXCEPT !.at = "broken"] /\ loop.at \in {"waiting", "callback"}
  <2>1. loop' \in LoopRecord /\ loop'.at = "broken"
    BY <1>5, LoopTypes DEF LoopRecord
  <2>2. Resting' /\ Moved'
    BY <2>1 DEF Resting, Moved
  <2>3. expiry <= MaxTick + 1
    BY ClockFacts
  <2>4. Clock'
    BY <1>1, <2>1, <2>2, <2>3, ClockFacts DEF Clock
  <2>5. QED
    BY <1>1, <1>2, <2>1, <2>4, LoopTypes DEF LoopOK
<1>6. QED
  BY <1>3, <1>4, <1>5

LEMMA TickClock ==
    ASSUME IndInv, Tick
    PROVE  Clock' /\ LoopOK'
<1>1. /\ now' = now + 1 /\ now < MaxTick /\ loop' = loop /\ expiry' = expiry
      /\ late' = IF loop.at # "waiting" \/ expiry <= now THEN late + 1 ELSE late
      /\ UNCHANGED <<running, stopEvent, stopping>> /\ Position' = Position
  BY DEF Tick, wheel, Position
<1>2. /\ (Resting' <=> Resting) /\ (Moved' <=> Moved)
      /\ late' \in Nat /\ late <= late' /\ late' <= now'
  <2>1. (Resting' <=> Resting) /\ (Moved' <=> Moved)
    BY <1>1 DEF Resting, Moved
  <2>2. late' = late \/ late' = late + 1
    BY <1>1
  <2>3. QED
    BY <1>1, <2>1, <2>2, ClockFacts
<1>3. loop.at = "waiting" => Resting
  BY DEF Resting
<1>4. Clock'
  <2>1. now' \in Nat /\ now' <= MaxTick /\ Position' <= now' + expiry' + (IF Moved' THEN 1 ELSE 0)
    BY <1>1, <1>2, ClockFacts
  <2>2. Resting' => expiry' <= MaxTick + 1
    BY <1>1, <1>2, ClockFacts
  <2>3. ~Resting' => /\ expiry' <= now' /\ loop'.actTick <= now' /\ now' <= expiry' + late'
                     /\ Position' <= expiry' + late' + (IF Moved' THEN 1 ELSE 0)
    BY <1>1, <1>2, <1>3, ClockFacts
  <2>4. loop'.at = "waiting" => Position' <= expiry' + late' /\ now' <= expiry' + late'
    BY <1>1, <1>2, ClockFacts
  <2>5. loop'.at = "callback" => loop'.due <= now' + late'
    BY <1>1, <1>2, LoopTypes, ClockFacts DEF LoopRecord
  <2>6. QED
    BY <1>2, <2>1, <2>2, <2>3, <2>4, <2>5 DEF Clock
<1>5. QED
  BY <1>1, <1>2, <1>4, ClockFacts, LoopTypes DEF LoopOK

-----------------------------------------------------------------------------
(***************************************************************************)
(* The invariant                                                           *)
(***************************************************************************)
LEMMA InitInv ==
    ASSUME Init
    PROVE  IndInv
<1>1. /\ now = 0 /\ expiry = 0 /\ actSlot = [j \in Array |-> 0] /\ offset = InitOffset
      /\ slotList = [j \in Array |-> [k \in Slot(j) |-> <<>>]]
      /\ count = 0 /\ loop = Idle /\ running = TRUE /\ stopEvent = FALSE
      /\ stopping = {} /\ late = 0
      /\ elem = [e \in Element |-> [running |-> FALSE, tick |-> 0, interval |-> 0,
                                    array |-> 1, slot |-> 0]]
  BY DEF Init
<1>2. LoopOK /\ loop.at = "waiting" /\ loop.array = 1
  BY <1>1, Arrays DEF LoopOK, LoopRecord, Idle
<1>3. \A j \in Array : 0 \in Slot(j)
  BY Positive DEF Slot
<1>4. WheelOK
  BY <1>1, <1>3, Offsets DEF WheelOK
<1>5. \A e \in Element : ~elem[e].running /\ elem[e].array = 1 /\ elem[e].slot = 0
  BY <1>1
<1>6. ListsOK
  <2>1. IsLists(slotList)
    BY <1>1 DEF IsLists
  <2>2. MaxTime \in Nat /\ MaxInterval \in Nat
    BY SlotTimerAssumption DEF MaxTime
  <2>3. [running |-> FALSE, tick |-> 0, interval |-> 0, array |-> 1, slot |-> 0] \in ElementRecord
    BY <2>2, Arrays DEF ElementRecord
  <2>4. elem \in [Element -> ElementRecord]
    BY <1>1, <2>3
  <2>5. QED
    BY <1>3, <1>5, <2>1, <2>4, Arrays DEF ListsOK
<1>7. Links(slotList, elem)
  <2>1. Range(<<>>) = {} /\ IsInjective(<<>>)
    BY DEF Range, IsInjective
  <2>2. \A j \in Array : \A k \in Slot(j) : slotList[j][k] = <<>>
    BY <1>1
  <2>3. QED
    BY <1>5, <2>1, <2>2 DEF Links
<1>8. Counted
  <2>1. Running(elem) = {}
    BY <1>5 DEF Running
  <2>2. QED
    BY <1>1, <2>1, FS_EmptySet DEF Counted
<1>9. Aligned
  <2>1. SUFFICES ASSUME NEW j \in 1 .. Levels - 1
                 PROVE  TickBegin(j + 1) = RoundEnd(j)
    BY DEF Aligned
  <2>2. j \in 1 .. Levels /\ j + 1 \in 1 .. Levels /\ j + 1 \in Array /\ j \in Array
    BY Arrays
  <2>3. RoundEnd(j) = InitOffset[j] + TicksPerArray(j)
    BY <1>1, <1>2 DEF RoundEnd, Ahead
  <2>4. TickBegin(j + 1) = InitOffset[j + 1] + 0 * TicksPerSlot[j + 1]
    BY <1>1, <2>2 DEF TickBegin
  <2>5. 0 * TicksPerSlot[j + 1] = 0
    <3>1. TicksPerSlot[j + 1] \in Nat
      BY <2>2, Positive
    <3>2. QED
      BY <3>1
  <2>6. InitOffset[j + 1] = InitOffset[j] + TicksPerArray(j) /\ InitOffset[j + 1] \in Nat
    BY <2>2, Offsets
  <2>7. QED
    BY <2>3, <2>4, <2>5, <2>6
<1>10. Turning
  BY <1>1, <1>2, Arrays DEF Turning
<1>11. Placed
  BY <1>5 DEF Placed
<1>12. Clock
  <2>1. Position = 0
    BY <1>1, Offsets, Arrays DEF Position
  <2>2. Resting /\ ~Moved
    BY <1>2 DEF Resting, Moved
  <2>3. QED
    BY <1>1, <1>2, <2>1, <2>2, SlotTimerAssumption DEF Clock
<1>13. QED
  BY <1>2, <1>4, <1>6, <1>7, <1>8, <1>9, <1>10, <1>11, <1>12 DEF IndInv, WheelInv

LEMMA InvStep ==
    ASSUME IndInv, [Next]_vars
    PROVE  IndInv'
<1>1. WheelInv'
  BY WheelStep
<1>2. Clock' /\ LoopOK'
  <2>1. CASE LoopStep
    BY <2>1, MoveClock, TurnClock DEF LoopStep
  <2>2. CASE StopSlotTimerLoopSync
    <3>1. /\ UNCHANGED <<now, expiry, loop, late, stopping>> /\ Position' = Position
          /\ running' = FALSE /\ stopEvent' = FALSE
      BY <2>2 DEF StopSlotTimerLoopSync, wheel, Position
    <3>2. QED
      BY <3>1, LoopTypes DEF IndInv, Clock, LoopOK, Resting, Moved
  <2>3. CASE Tick
    BY <2>3, TickClock
  <2>4. ASSUME NEW e \in Element, Stop(e) \/ StopChecks(e) \/ StopRemoves(e) \/ \E t, i : Start(e, t, i)
        PROVE  Clock' /\ LoopOK'
    BY <2>4, AsideClock
  <2>5. CASE UNCHANGED vars
    <3>1. UNCHANGED <<now, expiry, loop, late, stopping, running, stopEvent>> /\ Position' = Position
      BY <2>5 DEF vars, wheel, Position
    <3>2. QED
      BY <3>1 DEF IndInv, Clock, LoopOK, Resting, Moved
  <2>6. QED
    BY <2>1, <2>2, <2>3, <2>4, <2>5 DEF Next
<1>3. QED
  BY <1>1, <1>2 DEF IndInv

LEMMA Invariance == Spec => []IndInv
<1>1. Init => IndInv
  BY InitInv
<1>2. IndInv /\ [Next]_vars => IndInv'
  BY InvStep
<1>3. QED
  BY <1>1, <1>2, PTL DEF Spec

\* No array's round began later than the first array is, but for its offset.
LEMMA OffsetBound ==
    ASSUME IndInv, NEW i \in Array
    PROVE  offset[i] \in Nat /\ offset[i] <= Position + InitOffset[i]
<1>1. /\ \A j \in Array : offset[j] \in Nat /\ InitOffset[j] \in Nat
      /\ Position \in Nat /\ offset[1] <= Position /\ InitOffset[1] = 0
  BY PositionBound, Offsets DEF IndInv, WheelInv, WheelOK
<1> DEFINE T == {j \in Nat : j \in 1 .. Levels /\ ~(offset[j] <= Position + InitOffset[j])}
<1>2. CASE T = {}
  <2>1. CASE i = LastArray
    BY <1>1, <2>1 DEF IndInv, WheelInv, Turning
  <2>2. CASE i # LastArray
    <3>1. i \in 1 .. Levels /\ i \in Nat
      BY <2>2, Arrays
    <3>2. QED
      BY <1>1, <1>2, <3>1
  <2>3. QED
    BY <2>1, <2>2
<1>3. CASE T # {}
  <2>1. PICK m \in T : \A k \in T : m <= k
    BY <1>3, Least
  <2>2. m \in Nat /\ m \in 1 .. Levels /\ m # 1 /\ ~(offset[m] <= Position + InitOffset[m])
    BY <1>1
  <2>3. PICK p : p = m - 1
    OBVIOUS
  <2>4. p \in 1 .. Levels - 1 /\ p \in 1 .. Levels /\ p + 1 = m /\ ~(m <= p) /\ p \in Nat
    BY <2>2, <2>3, Arrays
  <2>5. offset[p] <= Position + InitOffset[p]
    BY <2>1, <2>4
  <2>6. TickBegin(m) <= offset[p] + TicksPerArray(p)
    <3>1. /\ TickBegin(p + 1) = RoundEnd(p)
          /\ RoundEnd(p) <= offset[p] + TicksPerArray(p)
      BY <2>4, Rounds, LoopTypes DEF IndInv, WheelInv
    <3>2. QED
      BY <2>4, <3>1
  <2>7. /\ offset[m] \in Nat /\ TickBegin(m) \in Nat /\ offset[m] <= TickBegin(m)
        /\ offset[p] \in Nat /\ TicksPerArray(p) \in Nat /\ p \in Array /\ m \in Array
    <3>1. WheelOK
      BY DEF IndInv, WheelInv
    <3>2. /\ offset[m] \in Nat /\ TickBegin(m) \in Nat /\ actSlot[m] * TicksPerSlot[m] \in Nat
          /\ TickBegin(m) = offset[m] + actSlot[m] * TicksPerSlot[m] /\ m \in Array
      BY <2>2, <3>1, Ticks
    <3>3. offset[p] \in Nat /\ TicksPerArray(p) \in Nat /\ p \in Array
      BY <2>4, <3>1, Ticks
    <3>4. QED
      BY <3>2, <3>3
  <2>8. InitOffset[m] = InitOffset[p] + TicksPerArray(p)
    BY <2>4, Offsets
  <2>9. QED
    BY <1>1, <2>2, <2>5, <2>6, <2>7, <2>8
<1>4. QED
  BY <1>2, <1>3

\* The lists hold the elements that run.
LEMMA RunningInLists ==
    ASSUME IndInv
    PROVE  InLists = Running(elem)
<1>1. Links(slotList, elem) /\ IsLists(slotList) /\ elem \in [Element -> ElementRecord]
  BY DEF IndInv, WheelInv, ListsOK
<1>2. ASSUME NEW e \in InLists
      PROVE  e \in Running(elem)
  <2>1. PICK j \in Array : e \in UNION {Range(slotList[j][k]) : k \in Slot(j)}
    BY <1>2 DEF InLists
  <2>2. PICK k \in Slot(j) : e \in Range(slotList[j][k])
    BY <2>1
  <2>3. slotList[j][k] \in Seq(Element)
    BY <1>1 DEF IsLists
  <2>4. e \in Element
    BY <2>2, <2>3 DEF Range
  <2>5. elem[e].running
    BY <1>1, <2>2 DEF Links
  <2>6. QED
    BY <2>4, <2>5 DEF Running
<1>3. ASSUME NEW e \in Running(elem)
      PROVE  e \in InLists
  <2>1. e \in Element /\ elem[e].running
    BY DEF Running
  <2>2. PICK j, k : j = elem[e].array /\ k = elem[e].slot
    OBVIOUS
  <2>3. j \in Array /\ k \in Slot(j) /\ e \in Range(slotList[j][k])
    BY <1>1, <2>1, <2>2 DEF Links, ElementRecord
  <2>4. QED
    BY <2>3 DEF InLists
<1>4. QED
  BY <1>2, <1>3

-----------------------------------------------------------------------------
(***************************************************************************)
(* The theorems                                                            *)
(***************************************************************************)
\* Every variable has its type: in particular the offsets stay within what the
\* clock allows, and an element is at most once in a list, whatever insert,
\* del and the moving of the arrays do to the lists.
THEOREM TypeCorrect == Spec => []TypeOK
<1>1. ASSUME IndInv
      PROVE  TypeOK
  <2>1. /\ now \in 0 .. MaxTick /\ running \in BOOLEAN /\ stopEvent \in BOOLEAN
        /\ stopping \subseteq Element /\ late \in 0 .. MaxTick
        /\ loop.at \in {"waiting", "run", "callback", "move", "drain", "stopped", "broken"}
    BY <1>1, LoopTypes, ClockFacts DEF LoopRecord
  <2>2. expiry \in 0 .. MaxTick + 1
    BY <1>1, ClockFacts
  <2>3. \A j \in Array : actSlot[j] \in Slot(j) /\ offset[j] \in 0 .. MaxTime + InitOffset[j]
    <3>1. TAKE j \in Array
    <3>2. actSlot[j] \in Slot(j)
      BY <1>1 DEF IndInv, WheelInv, WheelOK
    <3>3. offset[j] \in Nat /\ offset[j] <= Position + InitOffset[j] /\ InitOffset[j] \in Nat
      BY <1>1, OffsetBound, Offsets
    <3>4. Position \in Nat /\ Position <= MaxTime /\ MaxTime \in Nat
      BY <1>1, PositionBound, SlotTimerAssumption DEF MaxTime
    <3>5. QED
      BY <3>2, <3>3, <3>4
  <2>4. \A j \in Array : \A k \in Slot(j) :
          Range(slotList[j][k]) \subseteq Element /\ IsInjective(slotList[j][k])
    <3>1. TAKE j \in Array
    <3>2. TAKE k \in Slot(j)
    <3>3. slotList[j][k] \in Seq(Element) /\ IsInjective(slotList[j][k])
      BY <1>1 DEF IndInv, WheelInv, ListsOK, IsLists, Links
    <3>4. QED
      BY <3>3 DEF Range
  <2>5. elem \in [Element -> [running: BOOLEAN, tick: 0 .. MaxTime,
                              interval: 0 .. MaxInterval, array: Array,
                              slot: 0 .. Slots1 + Slots2]]
    <3> DEFINE R == [running: BOOLEAN, tick: 0 .. MaxTime, interval: 0 .. MaxInterval,
                     array: Array, slot: 0 .. Slots1 + Slots2]
    <3>1. elem \in [Element -> ElementRecord]
      BY <1>1 DEF IndInv, WheelInv, ListsOK
    <3>2. ASSUME NEW e \in Element
          PROVE  elem[e] \in R
      <4>1. elem[e] \in ElementRecord /\ elem[e].slot \in Slot(elem[e].array)
        BY <1>1, <3>1 DEF IndInv, WheelInv, ListsOK
      <4>2. elem[e].slot \in 0 .. Slots1 + Slots2
        BY <4>1, SlotTimerAssumption DEF ElementRecord, Slot, NumberSlots
      <4>3. QED
        BY <4>1, <4>2 DEF ElementRecord
    <3> HIDE DEF R
    <3>3. elem \in [Element -> R]
      BY <3>1, <3>2
    <3>4. QED
      BY <3>3 DEF R
  <2>6. count \in Int
    BY <1>1, FS_CardinalityType DEF IndInv, WheelInv, Counted
  <2>7. QED
    BY <2>1, <2>2, <2>3, <2>4, <2>5, <2>6 DEF TypeOK
<1>2. QED
  BY <1>1, Invariance, PTL

\* An element runs exactly when some slot list holds it, and the timer counts
\* the elements in its lists: insert, del, the refilling of an array and the
\* inserting of a periodic element lose none and link none twice.
THEOREM ListsCounted == Spec => []CountAgrees
<1>1. ASSUME IndInv
      PROVE  CountAgrees
  <2>1. InLists = {e \in Element : elem[e].running}
    BY <1>1, RunningInLists DEF Running
  <2>2. count = Cardinality(InLists)
    BY <1>1, RunningInLists DEF IndInv, WheelInv, Counted
  <2>3. QED
    BY <2>1, <2>2 DEF CountAgrees
<1>2. QED
  BY <1>1, Invariance, PTL

\* A callback runs before its tick by no more ticks than the I/O thread has been
\* late with; while the thread keeps up with the clock none is early.
THEOREM CallbacksNotEarly == Spec => []NeverEarly
<1>1. ASSUME IndInv
      PROVE  NeverEarly
  BY <1>1, ClockFacts DEF NeverEarly
<1>2. QED
  BY <1>1, Invariance, PTL

-----------------------------------------------------------------------------
(***************************************************************************)
(* The wheel implements TimerQueue.  The first array's turns are the       *)
(* ticks; the turns of the other arrays, and what they drain, change no    *)
(* element's tick.                                                         *)
(***************************************************************************)
\* A slot that is not the current one begins after the current one.
LEMMA SlotsAfter ==
    ASSUME WheelOK, NEW j \in 1 .. Levels, NEW k \in Slot(j)
    PROVE  /\ SlotBegin(j, k) \in Nat /\ SlotBegin(j, k) >= TickBegin(j)
           /\ k # actSlot[j] => SlotBegin(j, k) > TickBegin(j)
<1> DEFINE a == actSlot[j]
           w == TicksPerSlot[j]
           o == offset[j]
           r == TicksPerArray(j)
<1>1. /\ o \in Nat /\ a \in Nat /\ w \in Nat \ {0} /\ r \in Nat /\ a * w \in Nat
      /\ a * w + w <= r /\ TickBegin(j) = o + a * w /\ k * w \in Nat /\ k \in Nat
      /\ SlotBegin(j, k) = o + k * w + (IF k < a THEN r ELSE 0)
  BY Ticks, Positive DEF Slot, SlotBegin
<1> HIDE DEF a, w, o, r
<1>2. CASE k < a
  BY <1>1, <1>2 DEF a
<1>3. CASE k = a
  BY <1>1, <1>3 DEF a
<1>4. CASE k > a
  <2>1. (a + 1) * w <= k * w /\ (a + 1) * w = a * w + w
    BY <1>1, <1>4, Monotone, Distributive
  <2>2. QED
    BY <1>1, <1>4, <2>1 DEF a
<1>5. QED
  BY <1>1, <1>2, <1>3, <1>4

\* When the first array moves from its slot, no element is due before the next.
LEMMA NoneDue ==
    ASSUME IndInv, loop.at = "move", loop.array = 1, NEW e \in Element, elem[e].running
    PROVE  elem[e].tick \in Nat /\ elem[e].tick > Position
<1>1. WheelOK /\ Aligned /\ loop \in LoopRecord
  BY LoopTypes DEF IndInv, WheelInv
<1>2. ASSUME NEW j \in 1 .. Levels
      PROVE  TickBegin(j) \in Nat /\ RoundEnd(j) \in Nat /\ RoundEnd(j) > TickBegin(j)
  <2>1. j + 1 # 1 /\ RoundEnd(j) = offset[j] + TicksPerArray(j)
    BY <1>2, Arrays DEF RoundEnd, Ahead
  <2>2. /\ offset[j] \in Nat /\ actSlot[j] * TicksPerSlot[j] \in Nat /\ TicksPerSlot[j] \in Nat \ {0}
        /\ TicksPerArray(j) \in Nat
        /\ actSlot[j] * TicksPerSlot[j] + TicksPerSlot[j] <= TicksPerArray(j)
        /\ TickBegin(j) = offset[j] + actSlot[j] * TicksPerSlot[j]
    BY <1>1, Ticks
  <2>3. QED
    BY <2>1, <2>2
<1>3. ASSUME NEW i \in 1 .. Levels
      PROVE  TickBegin(i) >= Position
  <2> DEFINE T == {j \in Nat : j \in 1 .. Levels /\ ~(TickBegin(j) >= Position)}
  <2>1. SUFFICES ASSUME T # {} PROVE FALSE
    <3>1. i \in Nat
      BY Arrays
    <3>2. QED
      BY <3>1
  <2>2. PICK m \in T : \A k \in T : m <= k
    BY <2>1, Least
  <2>3. m \in Nat /\ m \in 1 .. Levels /\ ~(TickBegin(m) >= Position) /\ m # 1
    BY PositionBound
  <2>4. PICK p : p = m - 1
    OBVIOUS
  <2>5. p \in 1 .. Levels - 1 /\ p \in 1 .. Levels /\ p + 1 = m /\ ~(m <= p) /\ p \in Nat
    BY <2>3, <2>4, Arrays
  <2>6. TickBegin(p) >= Position
    BY <2>2, <2>5
  <2>7. TickBegin(m) = RoundEnd(p)
    BY <1>1, <2>5, Rounds
  <2>8. QED
    BY <1>2, <2>3, <2>5, <2>6, <2>7, PositionBound
<1>4. PICK j, k, t : j = elem[e].array /\ k = elem[e].slot /\ t = elem[e].tick
  OBVIOUS
<1>5. /\ j \in Array /\ k \in Slot(j) /\ e \in Range(slotList[j][k]) /\ InWindow(j, k, t)
  BY <1>4 DEF IndInv, WheelInv, ListsOK, ElementRecord, Links, Placed
<1>6. t \in Nat
  <2>1. elem[e] \in ElementRecord
    BY DEF IndInv, WheelInv, ListsOK
  <2>2. QED
    BY <1>4, <2>1, SlotTimerAssumption DEF ElementRecord, MaxTime
<1>7. t > Position
  <2>1. CASE j = LastArray
    <3>1. t >= RoundEnd(Levels)
      BY <1>5, <2>1 DEF InWindow
    <3>2. Levels \in 1 .. Levels
      BY Arrays
    <3>3. QED
      BY <1>2, <1>3, <1>6, <3>1, <3>2, PositionBound
  <2>2. CASE j # LastArray
    <3>1. j \in 1 .. Levels
      BY <1>5, <2>2, Arrays
    <3>2. k # actSlot[j] => t > TickBegin(j)
      <4>1. k # actSlot[j] => t >= SlotBegin(j, k)
        BY <1>5, <2>2 DEF InWindow
      <4>2. QED
        BY <1>1, <1>2, <1>5, <1>6, <3>1, <4>1, SlotsAfter
    <3>3. CASE j = 1
      <4>1. slotList[1][actSlot[1]] = <<>> /\ Range(<<>>) = {}
        BY DEF IndInv, WheelInv, Turning, Range
      <4>2. k # actSlot[j]
        BY <1>5, <3>3, <4>1
      <4>3. QED
        BY <3>2, <3>3, <4>2, PositionBound
    <3>4. CASE j # 1
      <4>1. PICK p : p = j - 1
        OBVIOUS
      <4>2. p \in 1 .. Levels - 1 /\ p \in 1 .. Levels /\ p + 1 = j
        BY <3>1, <3>4, <4>1, Arrays
      <4>3. TickBegin(j) = RoundEnd(p)
        BY <1>1, <4>2, Rounds
      <4>4. TickBegin(j) > Position /\ TickBegin(j) \in Nat
        BY <1>2, <1>3, <4>2, <4>3, PositionBound
      <4>5. t >= SlotBegin(j, k)
        BY <1>5, <2>2, <3>4 DEF InWindow
      <4>6. SlotBegin(j, k) >= TickBegin(j) /\ SlotBegin(j, k) \in Nat
        BY <1>1, <1>5, <3>1, SlotsAfter
      <4>7. QED
        BY <1>6, <4>4, <4>5, <4>6, PositionBound
    <3>5. QED
      BY <3>3, <3>4
  <2>3. QED
    BY <2>1, <2>2
<1>8. QED
  BY <1>4, <1>6, <1>7

\* What the abstract queue sees of an element.
LEMMA Dues ==
    ASSUME IndInv, NEW e \in Element
    PROVE  /\ elem[e].tick \in Nat /\ elem[e].running \in BOOLEAN
           /\ ~elem[e].running => DueTick[e] = -1
           /\ elem[e].running => DueTick[e] \in Nat /\ DueTick[e] # -1
           /\ elem[e].running /\ elem[e].tick <= Position => DueTick[e] = Position
           /\ elem[e].running /\ elem[e].tick >= Position => DueTick[e] = elem[e].tick
<1>1. elem[e] \in ElementRecord
  BY DEF IndInv, WheelInv, ListsOK
<1>2. elem[e].tick \in Nat /\ elem[e].running \in BOOLEAN
  BY <1>1, SlotTimerAssumption DEF ElementRecord, MaxTime
<1>3. DueTick[e] = IF ~elem[e].running THEN -1
                   ELSE IF elem[e].tick < Position THEN Position ELSE elem[e].tick
  BY DEF DueTick
<1>4. QED
  BY <1>2, <1>3, PositionBound

LEMMA DuesAfter ==
    ASSUME IndInv', NEW e \in Element
    PROVE  /\ elem'[e].tick \in Nat /\ Position' \in Nat
           /\ ~elem'[e].running => DueTick'[e] = -1
           /\ elem'[e].running => DueTick'[e] \in Nat /\ DueTick'[e] # -1
           /\ elem'[e].running /\ elem'[e].tick <= Position' => DueTick'[e] = Position'
           /\ elem'[e].running /\ elem'[e].tick >= Position' => DueTick'[e] = elem'[e].tick
<1>1. elem'[e] \in ElementRecord
  BY DEF IndInv, WheelInv, ListsOK
<1>2. elem'[e].tick \in Nat
  BY <1>1, SlotTimerAssumption DEF ElementRecord, MaxTime
<1>3. offset'[1] \in Nat /\ actSlot'[1] \in Nat /\ Position' = offset'[1] + actSlot'[1]
  BY Arrays DEF IndInv, WheelInv, WheelOK, Position
<1>4. DueTick'[e] = IF ~elem'[e].running THEN -1
                    ELSE IF elem'[e].tick < Position' THEN Position' ELSE elem'[e].tick
  BY DEF DueTick
<1>5. QED
  BY <1>2, <1>3, <1>4

\* A step that changes no element's tick, and does not move the first array.
LEMMA QueueKept ==
    ASSUME \A e \in Element : /\ elem'[e].running <=> elem[e].running
                              /\ elem'[e].tick = elem[e].tick,
           Position' = Position
    PROVE  DueTick' = DueTick
BY DEF DueTick

\* A step that changes one element's.
LEMMA QueueChanged ==
    ASSUME NEW e \in Element, \A x \in Element : x # e => elem'[x] = elem[x], Position' = Position
    PROVE  DueTick' = [DueTick EXCEPT ![e] = DueTick'[e]]
<1>1. \A x \in Element : x # e => DueTick'[x] = DueTick[x]
  BY DEF DueTick
<1>2. DueTick = [x \in Element |-> DueTick[x]] /\ DueTick' = [x \in Element |-> DueTick'[x]]
  BY DEF DueTick
<1> HIDE DEF DueTick
<1>3. QED
  BY <1>1, <1>2

LEMMA RunCallQueue ==
    ASSUME IndInv, IndInv', RunCall
    PROVE  Queue!Kept
<1>1. PICK e : e = Head(ActList)
  OBVIOUS
<1>2. loop.at = "run" /\ ActList # <<>> /\ UNCHANGED <<actSlot, offset>>
  BY DEF RunCall
<1>3. e \in Element /\ elem[e].running /\ elem[e].tick <= Position /\ elem[e].interval \in 0 .. MaxInterval
  BY <1>1, <1>2, Called
<1>4. Position' = Position
  BY <1>2 DEF Position
<1>5. DueTick[e] = Position
  BY <1>3, Dues
<1>6. \A x \in Element : x # e => elem'[x] = elem[x]
  BY <1>1, RunCallWheel
<1>7. DueTick' = [DueTick EXCEPT ![e] = DueTick'[e]]
  BY <1>3, <1>4, <1>6, QueueChanged
<1>8. elem \in [Element -> ElementRecord]
  BY DEF IndInv, WheelInv, ListsOK
<1>9. CASE elem[e].interval = 0
  <2>1. elem' = [elem EXCEPT ![e] = Unlinked(e)]
    BY <1>1, <1>9 DEF RunCall, ActList
  <2>2. elem'[e] = Unlinked(e)
    BY <1>3, <1>8, <2>1
  <2>3. ~elem'[e].running
    BY <2>2 DEF Unlinked
  <2>4. DueTick'[e] = -1
    BY <1>3, <2>3, DuesAfter
  <2>5. Queue!Call(e)
    BY <1>4, <1>5, <1>7, <2>4 DEF Queue!Call, Queue!NotDue
  <2>6. QED
    BY <1>3, <2>5 DEF Queue!Kept
<1>10. CASE elem[e].interval # 0
  <2> DEFINE v == elem[e].interval
             t == elem[e].tick + v
  <2>1. \E lists : Insert(1, e, lists, t, v)
    BY <1>1, <1>10 DEF RunCall, ActList
  <2>2. \E i, k : elem' = [elem EXCEPT ![e] = [running |-> TRUE, tick |-> t,
                              interval |-> v, array |-> i, slot |-> k]]
    BY <2>1 DEF Insert
  <2>3. elem'[e].running /\ elem'[e].tick = t
    <3> HIDE DEF t, v
    <3> QED
      BY <1>3, <1>8, <2>2
  <2>4. t \in Nat /\ t <= Position + MaxInterval /\ Position \in Nat /\ MaxInterval \in Nat
    <3> DEFINE s == elem[e].tick
    <3>1. s \in Nat /\ s <= Position /\ v \in 0 .. MaxInterval /\ Position \in Nat /\ MaxInterval \in Nat
      BY <1>3, Dues, PositionBound, SlotTimerAssumption
    <3> HIDE DEF s, v
    <3>2. s + v \in Nat /\ s + v <= Position + MaxInterval
      BY <3>1
    <3>3. QED
      BY <3>1, <3>2 DEF s
  <2> HIDE DEF t, v
  <2>5. DueTick'[e] \in Position .. Position + MaxInterval
    BY <1>3, <1>4, <2>3, <2>4, DuesAfter
  <2>6. Queue!Call(e)
    BY <1>4, <1>5, <1>7, <2>5 DEF Queue!Call
  <2>7. QED
    BY <1>3, <2>6 DEF Queue!Kept
<1>11. QED
  BY <1>9, <1>10

LEMMA MoveSlotQueue ==
    ASSUME IndInv, IndInv', MoveSlot
    PROVE  Queue!Kept \/ (DueTick' = DueTick /\ Position' = Position)
<1>1. loop.at = "move" /\ elem' = elem
  BY DEF MoveSlot
<1>2. CASE loop.array # 1
  <2>1. Position' = Position
    BY <1>2, PositionMoves
  <2>2. QED
    BY <1>1, <2>1, QueueKept
<1>3. CASE loop.array = 1
  <2>1. Position' = Position + 1
    BY <1>3, PositionMoves
  <2>2. ASSUME NEW e \in Element
        PROVE  DueTick[e] # Position /\ DueTick'[e] = DueTick[e]
    <3>1. CASE elem[e].running
      <4>1. elem[e].tick \in Nat /\ elem[e].tick > Position /\ Position \in Nat
        BY <1>1, <1>3, <3>1, NoneDue, PositionBound
      <4>2. DueTick[e] = elem[e].tick
        BY <3>1, <4>1, Dues
      <4>3. DueTick'[e] = elem[e].tick
        BY <1>1, <2>1, <3>1, <4>1, DuesAfter
      <4>4. QED
        BY <4>1, <4>2, <4>3
    <3>2. CASE ~elem[e].running
      <4>1. DueTick[e] = -1 /\ Position \in Nat
        BY <3>2, Dues, PositionBound
      <4>2. DueTick'[e] = -1
        BY <1>1, <3>2, DuesAfter
      <4>3. QED
        BY <4>1, <4>2
    <3>3. QED
      BY <3>1, <3>2
  <2>3. DueTick' = DueTick
    <3>1. DueTick = [x \in Element |-> DueTick[x]] /\ DueTick' = [x \in Element |-> DueTick'[x]]
      BY DEF DueTick
    <3> HIDE DEF DueTick
    <3>2. QED
      BY <2>2, <3>1
  <2>4. Queue!Advance
    BY <2>1, <2>2, <2>3 DEF Queue!Advance
  <2>5. QED
    BY <2>4 DEF Queue!Kept
<1>4. QED
  BY <1>2, <1>3

LEMMA StartQueue ==
    ASSUME IndInv, IndInv', NEW e \in Element,
           NEW t \in now + MinAhead .. Position + MaxAhead, NEW i \in {0, MaxInterval},
           Start(e, t, i)
    PROVE  Queue!Kept
<1>1. ~elem[e].running /\ UNCHANGED <<actSlot, offset>>
  BY DEF Start
<1>2. Position' = Position
  BY <1>1 DEF Position
<1>3. /\ elem'[e].tick = t /\ \A x \in Element : x # e => elem'[x] = elem[x]
  BY Starts
<1>4. elem'[e].running
  <2>1. \E j, k : elem' = [elem EXCEPT ![e] = [running |-> TRUE, tick |-> t,
                              interval |-> i, array |-> j, slot |-> k]]
    BY DEF Start, Insert
  <2>2. elem \in [Element -> ElementRecord]
    BY DEF IndInv, WheelInv, ListsOK
  <2>3. QED
    BY <2>1, <2>2
<1>5. DueTick'[e] \in Nat /\ DueTick'[e] >= Position
  BY <1>2, <1>4, DuesAfter
<1>6. DueTick[e] = -1
  BY <1>1, Dues
<1>7. DueTick' = [DueTick EXCEPT ![e] = DueTick'[e]]
  BY <1>2, <1>3, QueueChanged
<1>8. Queue!Start(e)
  BY <1>2, <1>5, <1>6, <1>7 DEF Queue!Start, Queue!NotDue
<1>9. QED
  BY <1>8 DEF Queue!Kept

LEMMA RemoveQueue ==
    ASSUME IndInv, IndInv', NEW e \in Element, UNCHANGED <<actSlot, offset>>, RemoveElement(e)
    PROVE  Queue!Kept \/ Broken'
<1>1. CASE DelBreaks(e)
  <2>1. loop'.at = "broken"
    BY <1>1, LoopTypes DEF DelBreaks, LoopRecord
  <2>2. QED
    BY <2>1 DEF Broken
<1>2. CASE Del(e)
  <2>1. /\ elem[e].running /\ ~elem'[e].running
        /\ \A x \in Element : x # e => elem'[x] = elem[x]
    BY <1>2, Deletes
  <2>2. Position' = Position
    BY DEF Position
  <2>3. DueTick[e] # -1 /\ DueTick'[e] = -1
    BY <2>1, Dues, DuesAfter
  <2>4. DueTick' = [DueTick EXCEPT ![e] = DueTick'[e]]
    BY <2>1, <2>2, QueueChanged
  <2>5. Queue!Stop(e)
    BY <2>2, <2>3, <2>4 DEF Queue!Stop, Queue!NotDue
  <2>6. QED
    BY <2>5 DEF Queue!Kept
<1>3. QED
  BY <1>1, <1>2 DEF RemoveElement

\* A timer whose lists are broken stays so.
LEMMA BrokenForGood ==
    ASSUME IndInv, [Next]_vars, Broken
    PROVE  Broken'
<1>1. ~LoopStep
  BY DEF Broken, LoopStep, LoopBegin, LoopEnds, RunCall, CallbackReturns, RunLimit, RunEmpty,
         MoveSlot, MoveLast, Drain
<1>2. ~MutexFree
  BY DEF Broken, MutexFree
<1>3. loop' = loop
  BY <1>1, <1>2 DEF Next, StopSlotTimerLoopSync, Tick, Stop, StopChecks, StopRemoves, Start, vars
<1>4. QED
  BY <1>3 DEF Broken

LEMMA QueueStep ==
    ASSUME IndInv, IndInv', [Next]_vars
    PROVE  [Queue!Next]_<<DueTick, Position, Broken>>
<1>1. SUFFICES ASSUME ~Broken' PROVE [Queue!Next]_<<DueTick, Position, Broken>>
  BY DEF Queue!Next
<1>2. ~Broken
  BY <1>1, BrokenForGood
<1>3. SUFFICES Queue!Kept \/ (DueTick' = DueTick /\ Position' = Position)
  <2>1. ~Broken /\ ~Broken'
    BY <1>1, <1>2
  <2>2. Broken' = Broken
    BY <2>1 DEF Broken
  <2>3. QED
    BY <2>1, <2>2 DEF Queue!Next
<1>4. CASE LoopBegin \/ LoopEnds \/ CallbackReturns \/ RunLimit \/ RunEmpty \/ MoveLast
           \/ StopSlotTimerLoopSync \/ Tick \/ UNCHANGED vars \/ \E e \in Element : StopChecks(e)
  <2>1. elem' = elem /\ Position' = Position
    BY <1>4 DEF LoopBegin, LoopEnds, CallbackReturns, RunLimit, RunEmpty, MoveLast,
                StopSlotTimerLoopSync, Tick, vars, StopChecks, wheel, Position
  <2>2. QED
    BY <2>1, QueueKept
<1>5. CASE Drain
  <2>1. Position' = Position
    BY <1>5 DEF Drain, Position
  <2>2. QED
    BY <1>5, <2>1, DrainWheel, QueueKept
<1>6. CASE RunCall
  BY <1>6, RunCallQueue
<1>7. CASE MoveSlot
  BY <1>7, MoveSlotQueue
<1>8. ASSUME NEW e \in Element, Stop(e) \/ StopRemoves(e)
      PROVE  Queue!Kept
  <2>1. UNCHANGED <<actSlot, offset>> /\ RemoveElement(e)
    BY <1>8 DEF Stop, StopRemoves
  <2>2. QED
    BY <1>1, <2>1, RemoveQueue
<1>9. ASSUME NEW e \in Element, NEW t \in now + MinAhead .. Position + MaxAhead,
             NEW i \in {0, MaxInterval}, Start(e, t, i)
      PROVE  Queue!Kept
  BY <1>9, StartQueue
<1>10. QED
  BY <1>4, <1>5, <1>6, <1>7, <1>8, <1>9 DEF Next, LoopStep

\* The wheel implements the queue: whichever array an element is put into and
\* however often it is moved on, it is called at its tick, or at once if the
\* wheel has passed it, and the wheel never turns past an element, until a stop
\* breaks the lists.
THEOREM WheelImplementsQueue == Spec => TimerQueueRefined
<1>1. ASSUME Init
      PROVE  Queue!Init
  <2>1. Position = 0
    BY <1>1, Offsets, Arrays DEF Init, Position
  <2>2. DueTick = [e \in Element |-> -1]
    BY <1>1 DEF Init, DueTick
  <2>3. Broken = FALSE
    BY <1>1 DEF Init, Idle, Broken
  <2>4. QED
    BY <2>1, <2>2, <2>3 DEF Queue!Init, Queue!NotDue
<1>2. IndInv /\ IndInv' /\ [Next]_vars => [Queue!Next]_<<DueTick, Position, Broken>>
  BY QueueStep
<1>3. QED
  BY <1>1, <1>2, Invariance, PTL DEF Spec, TimerQueueRefined, Queue!Spec
=============================================================================
