----------------------------- MODULE TimerProofs ---------------------------
(***************************************************************************)
(* Proofs about the timers.  The array of the heap holds what it should    *)
(* (HeapConsistent), in the order that the loops of Heap.cpp restore       *)
(* (HeapOrder), for any elements and times; the IdleTaskThread uses it by  *)
(* its operations only, and so sleeps past no timer (NeverSleepsPast) and  *)
(* signals no task that is gone (IdleConsistent).  The queue of            *)
(* TimeoutTask.cpp lists the timeouts that exist and each is served in     *)
(* time (TimeoutsKept) for any number of them.                             *)
(***************************************************************************)
EXTENDS IdleTimer, TimeoutTasks, FiniteSetTheorems, SequenceTheorems, NaturalsInduction, WellFoundedInduction,
        TLAPS

----------------------------------------------------------------------------
(* TimerHeap: the array *)

\* A swap of two slots of the array keeps its members.
LEMMA SwapKeeps ==
    ASSUME HeapConsistent, NEW i \in 1 .. Len(fHeap), NEW j \in 1 .. Len(fHeap), i # j, SwapElems(i, j)
    PROVE  /\ fHeap' \in Seq(Elems) /\ Len(fHeap') = Len(fHeap)
           /\ fHeap'[i] = fHeap[j] /\ fHeap'[j] = fHeap[i]
           /\ \A k \in 1 .. Len(fHeap) : k # i /\ k # j => fHeap'[k] = fHeap[k]
<1>1. fHeap \in Seq(Elems)
  BY DEF HeapConsistent, HeapTypeOK
<1> QED
  BY <1>1 DEF SwapElems

LEMMA SwapMembers ==
    ASSUME HeapConsistent, NEW i \in 1 .. Len(fHeap), NEW j \in 1 .. Len(fHeap), i # j, SwapElems(i, j),
           fCurrentHeap' = fCurrentHeap
    PROVE  Membership'
<1> DEFINE n == Len(fHeap)
<1>1. fCurrentHeap = {fHeap[k] : k \in 1 .. n} /\ \A k, l \in 1 .. n : fHeap[k] = fHeap[l] => k = l
  BY DEF HeapConsistent, Membership, CurrentHeapSize
<1>2. /\ Len(fHeap') = n /\ fHeap'[i] = fHeap[j] /\ fHeap'[j] = fHeap[i]
      /\ \A k \in 1 .. n : k # i /\ k # j => fHeap'[k] = fHeap[k]
  BY SwapKeeps
<1> HIDE DEF n
<1>3. \A k, l \in 1 .. n : fHeap'[k] = fHeap'[l] => k = l
  BY <1>1, <1>2, SMTT(30) DEF n
<1>4. {fHeap'[k] : k \in 1 .. n} = {fHeap[k] : k \in 1 .. n}
  BY <1>2, SMTT(30) DEF n
<1> QED
  BY <1>1, <1>2, <1>3, <1>4 DEF Membership, CurrentHeapSize, n

\* Which slot ShiftDown goes on with.
LEMMA LeastChild ==
    ASSUME HeapConsistent, NEW i \in 1 .. Len(fHeap)
    PROVE  /\ Least(i) \in 1 .. Len(fHeap) /\ Least(i) \in {i, 2 * i, 2 * i + 1}
           /\ At(Least(i)) <= At(i)
           /\ \A k \in {2 * i, 2 * i + 1} : k <= Len(fHeap) => At(Least(i)) <= At(k)
           /\ Least(i) # i => At(Least(i)) < At(i)
<1>1. Len(fHeap) \in Nat /\ \A k \in 1 .. Len(fHeap) : At(k) \in Int
  BY DEF HeapConsistent, HeapTypeOK, At
<1> DEFINE left  == 2 * i
           right == 2 * i + 1
           least == IF left < fFreeIndex /\ At(left) < At(i) THEN left ELSE i
<1>2. Least(i) = IF right < fFreeIndex /\ At(right) < At(least) THEN right ELSE least
  BY DEF Least
<1>3. least \in 1 .. Len(fHeap) /\ At(least) <= At(i) /\ (left <= Len(fHeap) => At(least) <= At(left))
      /\ (least # i => At(least) < At(i))
  BY <1>1 DEF fFreeIndex, CurrentHeapSize
<1> QED
  BY <1>1, <1>2, <1>3 DEF fFreeIndex, CurrentHeapSize

----------------------------------------------------------------------------
(* TimerHeap: the order while a loop runs, in terms of the values a of the  *)
(* slots 1 .. n.  ShiftUp has one slot that may be smaller than its parent, *)
(* ShiftDown one that may be larger than its children; around that slot the *)
(* order holds across two levels.                                           *)

Parent(i) == i \div 2

LEMMA Parents ==
    \A i \in Nat : i > 1 => /\ Parent(i) \in Nat /\ Parent(i) >= 1 /\ Parent(i) < i
                            /\ i = 2 * Parent(i) \/ i = 2 * Parent(i) + 1
  BY DEF Parent

LEMMA Children == \A i \in Nat : Parent(2 * i) = i /\ Parent(2 * i + 1) = i
  BY DEF Parent

Ordered(a, n) == \A i \in 2 .. n : a[Parent(i)] <= a[i]

Bridged(a, n, p) == \A i \in 2 .. n : Parent(i) = p /\ p > 1 => a[Parent(p)] <= a[i]

UpOrder(a, n, p) == Bridged(a, n, p) /\ \A i \in 2 .. n : i # p => a[Parent(i)] <= a[i]

DownOrder(a, n, p) == Bridged(a, n, p) /\ \A i \in 2 .. n : Parent(i) # p => a[Parent(i)] <= a[i]

Exchanged(a, b, n, p, q) ==
    b[p] = a[q] /\ b[q] = a[p] /\ \A k \in 1 .. n : k # p /\ k # q => b[k] = a[k]

LEMMA UpSwapOrder ==
    ASSUME NEW n \in Nat, NEW a \in [1 .. n -> Int], NEW b \in [1 .. n -> Int], NEW p \in 2 .. n, NEW q,
           q = Parent(p), a[p] < a[q], Exchanged(a, b, n, p, q), UpOrder(a, n, p)
    PROVE  UpOrder(b, n, q)
<1>0. q \in 1 .. n /\ q < p
  BY Parents
<1>1. SUFFICES ASSUME NEW i \in 2 .. n
               PROVE  (i # q => b[Parent(i)] <= b[i]) /\ (Parent(i) = q /\ q > 1 => b[Parent(q)] <= b[i])
  BY DEF UpOrder, Bridged
<1>2. Parent(i) \in 1 .. n /\ Parent(i) < i
  BY Parents
<1>3. PICK h \in 1 .. n : h = Parent(i) /\ h < i
  BY <1>2
<1>4. (i # p => a[h] <= a[i]) /\ (h = p => a[q] <= a[i])
  BY <1>3 DEF UpOrder, Bridged
<1>5. /\ b[p] = a[q] /\ b[q] = a[p]
      /\ h # p /\ h # q => b[h] = a[h]
      /\ i # p /\ i # q => b[i] = a[i]
  BY DEF Exchanged
<1>6. a[h] \in Int /\ a[i] \in Int /\ a[p] \in Int /\ a[q] \in Int
  BY <1>0
<1>7. ASSUME i # q PROVE b[h] <= b[i]
  <2>1. CASE i = p
    BY <1>3, <1>5, <1>6, <2>1
  <2>2. CASE i # p
    BY <1>4, <1>5, <1>6, <1>7, <2>2
  <2> QED
    BY <2>1, <2>2
<1>8. ASSUME h = q, q > 1 PROVE b[Parent(q)] <= b[i]
  <2>1. Parent(q) \in 1 .. n /\ Parent(q) < q
    BY <1>0, <1>8, Parents
  <2>2. PICK g \in 1 .. n : g = Parent(q) /\ g < q
    BY <2>1
  <2>3. a[g] <= a[q]
    BY <1>0, <1>8, <2>2 DEF UpOrder
  <2>4. b[g] = a[g] /\ a[g] \in Int
    BY <1>0, <2>2 DEF Exchanged
  <2>5. CASE i = p
    BY <1>5, <2>2, <2>3, <2>4, <2>5
  <2>6. CASE i # p
    BY <1>3, <1>4, <1>5, <1>6, <1>8, <2>2, <2>3, <2>4, <2>6
  <2> QED
    BY <2>5, <2>6
<1> QED
  BY <1>3, <1>7, <1>8

LEMMA DownSwapOrder ==
    ASSUME NEW n \in Nat, NEW a \in [1 .. n -> Int], NEW b \in [1 .. n -> Int], NEW p \in 1 .. n, NEW m \in 2 .. n,
           p = Parent(m), a[m] < a[p], Exchanged(a, b, n, p, m), DownOrder(a, n, p),
           \A i \in 2 .. n : Parent(i) = p => a[m] <= a[i]
    PROVE  DownOrder(b, n, m)
<1>0. p < m
  BY Parents
<1>1. SUFFICES ASSUME NEW i \in 2 .. n
               PROVE  (Parent(i) # m => b[Parent(i)] <= b[i]) /\ (Parent(i) = m => b[p] <= b[i])
  BY DEF DownOrder, Bridged
<1>2. Parent(i) \in 1 .. n /\ Parent(i) < i
  BY Parents
<1>3. PICK h \in 1 .. n : h = Parent(i) /\ h < i
  BY <1>2
<1>4. (h # p => a[h] <= a[i]) /\ (h = p => a[m] <= a[i])
  BY <1>3 DEF DownOrder
<1>5. /\ b[p] = a[m] /\ b[m] = a[p]
      /\ h # p /\ h # m => b[h] = a[h]
      /\ i # p /\ i # m => b[i] = a[i]
  BY DEF Exchanged
<1>6. a[h] \in Int /\ a[i] \in Int /\ a[p] \in Int /\ a[m] \in Int
  OBVIOUS
<1>7. i = p => a[h] <= a[m]
  BY <1>3 DEF DownOrder, Bridged
<1>8. ASSUME h # m PROVE b[h] <= b[i]
  <2>1. CASE i = p
    BY <1>0, <1>3, <1>5, <1>6, <1>7, <1>8, <2>1
  <2>2. CASE i = m
    BY <1>3, <1>5, <1>6, <2>2
  <2>3. CASE i # p /\ i # m
    BY <1>4, <1>5, <1>6, <1>8, <2>3
  <2> QED
    BY <2>1, <2>2, <2>3
<1>9. h = m => b[p] <= b[i]
  <2>1. h = m => i # p /\ i # m /\ h # p
    BY <1>0, <1>3
  <2> QED
    BY <1>4, <1>5, <2>1
<1> QED
  BY <1>3, <1>8, <1>9

LEMMA UpStops ==
    ASSUME NEW n \in Nat, NEW a \in [1 .. n -> Int], NEW p \in 1 .. n, UpOrder(a, n, p),
           ~(p > 1 /\ a[p] < a[Parent(p)])
    PROVE  Ordered(a, n)
<1>1. SUFFICES ASSUME NEW i \in 2 .. n, i = p PROVE a[Parent(i)] <= a[i]
  BY DEF UpOrder, Ordered
<1>2. Parent(i) \in 1 .. n
  BY Parents
<1> QED
  BY <1>1, <1>2

LEMMA DownStops ==
    ASSUME NEW n \in Nat, NEW a, NEW p, DownOrder(a, n, p), \A i \in 2 .. n : Parent(i) = p => a[p] <= a[i]
    PROVE  Ordered(a, n)
  BY DEF DownOrder, Ordered

LEMMA InsertOrder ==
    ASSUME NEW n \in Nat, NEW a, NEW b, Ordered(a, n), \A k \in 1 .. n : b[k] = a[k]
    PROVE  UpOrder(b, n + 1, n + 1)
<1>1. SUFFICES ASSUME NEW i \in 2 .. n + 1
               PROVE  Parent(i) # n + 1 /\ (i # n + 1 => b[Parent(i)] <= b[i])
  BY DEF UpOrder, Bridged
<1>2. Parent(i) \in Nat /\ Parent(i) >= 1 /\ Parent(i) < i
  BY Parents
<1>3. ASSUME i # n + 1 PROVE b[Parent(i)] <= b[i]
  <2>1. i \in 2 .. n /\ Parent(i) \in 1 .. n /\ i \in 1 .. n
    BY <1>2, <1>3
  <2>2. a[Parent(i)] <= a[i]
    BY <2>1 DEF Ordered
  <2> QED
    BY <2>1, <2>2
<1> QED
  BY <1>2, <1>3

\* The value of one slot is changed: up if it gets smaller, down if larger.
LEMMA ChangeOrder ==
    ASSUME NEW n \in Nat, NEW a \in [1 .. n -> Int], NEW b \in [1 .. n -> Int], NEW p \in 1 .. n,
           Ordered(a, n), \A k \in 1 .. n : k # p => b[k] = a[k]
    PROVE  /\ b[p] < a[p] => UpOrder(b, n, p)
           /\ b[p] > a[p] => DownOrder(b, n, p)
<1>1. ASSUME NEW i \in 2 .. n
      PROVE  /\ Parent(i) = p /\ p > 1 => b[Parent(p)] <= b[i]
             /\ i # p /\ Parent(i) # p => b[Parent(i)] <= b[i]
             /\ i # p /\ b[p] < a[p] => b[Parent(i)] <= b[i]
             /\ Parent(i) # p /\ b[p] > a[p] => b[Parent(i)] <= b[i]
  <2>1. Parent(i) \in 1 .. n /\ Parent(i) < i
    BY Parents
  <2>2. PICK h \in 1 .. n : h = Parent(i) /\ h < i
    BY <2>1
  <2>3. a[h] <= a[i]
    BY <2>2 DEF Ordered
  <2>4. \A k \in 1 .. n : a[k] \in Int /\ b[k] \in Int
    OBVIOUS
  <2>5. ASSUME h = p, p > 1 PROVE b[Parent(p)] <= b[i]
    <3>1. Parent(p) \in 1 .. n /\ Parent(p) < p
      BY <2>5, Parents
    <3>2. a[Parent(p)] <= a[p]
      BY <2>5 DEF Ordered
    <3> QED
      BY <2>2, <2>3, <2>4, <2>5, <3>1, <3>2
  <2>6. (i # p /\ h # p => b[h] <= b[i]) /\ (i # p /\ b[p] < a[p] => b[h] <= b[i]) /\ (h # p /\ b[p] > a[p] => b[h] <= b[i])
    <3>1. a[h] \in Int /\ b[h] \in Int /\ a[i] \in Int /\ b[i] \in Int /\ a[p] \in Int /\ b[p] \in Int
      BY <2>2, <2>4
    <3>2. (h # p => b[h] = a[h]) /\ (i # p => b[i] = a[i])
      BY <2>2
    <3> QED
      BY <2>3, <3>1, <3>2
  <2> QED
    BY <2>2, <2>5, <2>6
<1> QED
  BY <1>1 DEF UpOrder, DownOrder, Bridged

\* The last leaf takes slot p.
LEMMA ExtractOrder ==
    ASSUME NEW n \in Nat, NEW a \in [1 .. n -> Int], NEW p \in 1 .. n, NEW b,
           Ordered(a, n), \A k \in 1 .. n - 1 : b[k] = IF k = p THEN a[n] ELSE a[k],
           p > 1 => a[Parent(p)] <= a[n]
    PROVE  DownOrder(b, n - 1, p)
<1>1. SUFFICES ASSUME NEW i \in 2 .. n - 1
               PROVE  /\ Parent(i) = p /\ p > 1 => b[Parent(p)] <= b[i]
                      /\ Parent(i) # p => b[Parent(i)] <= b[i]
  BY DEF DownOrder, Bridged
<1>2. Parent(i) \in 1 .. n - 1 /\ Parent(i) < i
  BY Parents
<1>3. PICK h \in 1 .. n - 1 : h = Parent(i) /\ h < i
  BY <1>2
<1>4. a[h] <= a[i]
  BY <1>3 DEF Ordered
<1>5. \A k \in 1 .. n : a[k] \in Int
  OBVIOUS
<1>6. ASSUME h = p, p > 1 PROVE b[Parent(p)] <= b[i]
  <2>1. Parent(p) \in 1 .. n - 1 /\ Parent(p) < p
    BY <1>6, Parents
  <2>2. a[Parent(p)] <= a[p]
    BY <1>6 DEF Ordered
  <2>3. b[Parent(p)] = a[Parent(p)] /\ b[i] = a[i]
    BY <1>3, <1>6, <2>1
  <2> QED
    BY <1>3, <1>4, <1>5, <1>6, <2>1, <2>2, <2>3
<1>7. h # p => b[h] <= b[i]
  BY <1>3, <1>4
<1> QED
  BY <1>3, <1>6, <1>7

----------------------------------------------------------------------------
(* TimerHeap: the inductive invariant *)

Values == [k \in 1 .. Len(fHeap) |-> At(k)]

OrderInv ==
    ~misplaced => /\ shift = "none" => Ordered(Values, Len(fHeap))
                  /\ shift = "up" => UpOrder(Values, Len(fHeap), pos)
                  /\ shift = "down" => DownOrder(Values, Len(fHeap), pos)

HeapInv == HeapConsistent /\ OrderInv

LEMMA InvOrdersHeap == HeapInv => HeapOrder
<1> SUFFICES ASSUME HeapInv, shift = "none", ~misplaced, NEW i \in 2 .. Len(fHeap)
             PROVE  At(i \div 2) <= At(i)
  BY DEF HeapOrder, sanityCheck, CurrentHeapSize
<1>1. Parent(i) \in 1 .. Len(fHeap)
  BY Parents DEF HeapInv, HeapConsistent, HeapTypeOK
<1>2. Values[Parent(i)] <= Values[i]
  BY DEF HeapInv, OrderInv, Ordered
<1> QED
  BY <1>1, <1>2 DEF Values, Parent

LEMMA HeapInvInit == HeapInit => HeapInv
<1> SUFFICES ASSUME HeapInit PROVE HeapInv
  OBVIOUS
<1>1. fHeap = <<>> /\ Len(fHeap) = 0 /\ fHeap \in Seq(Elems)
  BY DEF HeapInit
<1>2. misplaced \in BOOLEAN
  BY Zenon DEF HeapInit
<1>3. fArraySize \in Nat /\ fArraySize > 1
  BY HeapAssumption DEF HeapInit
<1>4. HeapTypeOK
  BY <1>1, <1>2, <1>3 DEF HeapInit, HeapTypeOK
<1>5. Membership
  BY <1>1 DEF HeapInit, Membership, CurrentHeapSize
<1>6. InBounds
  BY <1>1, <1>3 DEF InBounds, CurrentHeapSize
<1>7. OrderInv
  BY <1>1 DEF HeapInit, OrderInv, Ordered
<1> QED
  BY <1>4, <1>5, <1>6, <1>7 DEF HeapInv, HeapConsistent

LEMMA HeapFacts ==
    ASSUME HeapInv
    PROVE  /\ HeapConsistent /\ OrderInv /\ Len(fHeap) \in Nat
           /\ fHeap \in Seq(Elems) /\ fValue \in [Elems -> Int]
           /\ Values \in [1 .. Len(fHeap) -> Int]
           /\ \A k \in 1 .. Len(fHeap) : fHeap[k] \in Elems /\ Values[k] = At(k) /\ At(k) \in Int
           /\ shift = "up" => pos \in 1 .. Len(fHeap)
           /\ shift = "down" => pos \in 1 .. Len(fHeap) + 1
  BY DEF HeapInv, HeapConsistent, HeapTypeOK, CurrentHeapSize, fFreeIndex, At, Values

\* The array and the values stay: only the loop ends.
LEMMA LoopEnds ==
    ASSUME HeapInv, shift' = "none", UNCHANGED <<fHeap, pos, fArraySize, fValue, fCurrentHeap, misplaced>>,
           ~misplaced => Ordered(Values, Len(fHeap))
    PROVE  HeapInv'
<1>1. HeapConsistent'
  BY DEF HeapInv, HeapConsistent, HeapTypeOK, Membership, InBounds, CurrentHeapSize, fFreeIndex
<1>2. Values' = Values
  BY DEF Values, At
<1> QED
  BY <1>1, <1>2 DEF HeapInv, OrderInv

\* The two slots of a swap exchange their values.
LEMMA SwapStep ==
    ASSUME HeapInv, shift # "none", shift' = shift, NEW i \in 1 .. Len(fHeap), NEW j \in 1 .. Len(fHeap), i # j,
           SwapElems(i, j), pos' = j, UNCHANGED <<fArraySize, fValue, fCurrentHeap, misplaced>>
    PROVE  /\ HeapConsistent' /\ Len(fHeap') = Len(fHeap)
           /\ Values' \in [1 .. Len(fHeap) -> Int]
           /\ Exchanged(Values, Values', Len(fHeap), i, j)
<1>1. /\ fHeap' \in Seq(Elems) /\ Len(fHeap') = Len(fHeap)
      /\ fHeap'[i] = fHeap[j] /\ fHeap'[j] = fHeap[i]
      /\ \A k \in 1 .. Len(fHeap) : k # i /\ k # j => fHeap'[k] = fHeap[k]
  BY HeapFacts, SwapKeeps
<1>2. Membership'
  BY HeapFacts, SwapMembers
<1>3. HeapTypeOK' /\ InBounds'
  BY <1>1 DEF HeapInv, HeapConsistent, HeapTypeOK, InBounds, CurrentHeapSize, fFreeIndex
<1>4. Values' = [k \in 1 .. Len(fHeap) |-> fValue[fHeap'[k]]]
  BY <1>1 DEF Values, At
<1>5. Values' \in [1 .. Len(fHeap) -> Int]
  BY <1>1, <1>4, HeapFacts
<1>6. Exchanged(Values, Values', Len(fHeap), i, j)
  BY <1>1, <1>4 DEF Exchanged, Values, At
<1> QED
  BY <1>1, <1>2, <1>3, <1>5, <1>6 DEF HeapConsistent

LEMMA ShiftUpStep == HeapInv /\ ShiftUp => HeapInv'
<1> SUFFICES ASSUME HeapInv, ShiftUp PROVE HeapInv'
  OBVIOUS
<1>0. /\ shift = "up" /\ pos \in 1 .. Len(fHeap) /\ UNCHANGED <<fArraySize, fValue, fCurrentHeap, misplaced>>
      /\ ~misplaced => UpOrder(Values, Len(fHeap), pos)
  BY HeapFacts DEF ShiftUp, OrderInv
<1>1. CASE pos > 1 /\ At(pos) < At(Parent(pos))
  <2>1. PICK p \in 2 .. Len(fHeap), q \in 1 .. Len(fHeap) : p = pos /\ q = Parent(p) /\ p # q
    BY <1>0, <1>1, Parents
  <2>2. SwapElems(p, q) /\ pos' = q /\ shift' = shift /\ Values[p] < Values[q]
    BY <1>1, <2>1, HeapFacts DEF ShiftUp, Parent
  <2>3. /\ HeapConsistent' /\ Len(fHeap') = Len(fHeap)
        /\ Values' \in [1 .. Len(fHeap) -> Int]
        /\ Exchanged(Values, Values', Len(fHeap), p, q)
    BY <1>0, <2>1, <2>2, SwapStep
  <2>4. ~misplaced => UpOrder(Values', Len(fHeap), q)
    BY <1>0, <2>1, <2>2, <2>3, HeapFacts, UpSwapOrder
  <2> QED
    BY <1>0, <2>2, <2>3, <2>4 DEF HeapInv, OrderInv
<1>2. CASE ~(pos > 1 /\ At(pos) < At(Parent(pos)))
  <2>1. shift' = "none" /\ UNCHANGED <<fHeap, pos>>
    BY <1>2 DEF ShiftUp, Parent
  <2>2. ~(pos > 1 /\ Values[pos] < Values[Parent(pos)])
    BY <1>0, <1>2, HeapFacts, Parents
  <2>3. ~misplaced => Ordered(Values, Len(fHeap))
    BY <1>0, <2>2, HeapFacts, UpStops
  <2> QED
    BY <1>0, <2>1, <2>3, LoopEnds
<1> QED
  BY <1>1, <1>2

LEMMA ShiftDownStep == HeapInv /\ ShiftDown => HeapInv'
<1> SUFFICES ASSUME HeapInv, ShiftDown PROVE HeapInv'
  OBVIOUS
<1>0. /\ shift = "down" /\ pos \in 1 .. Len(fHeap) + 1 /\ UNCHANGED <<fArraySize, fValue, fCurrentHeap, misplaced>>
      /\ ~misplaced => DownOrder(Values, Len(fHeap), pos)
  BY HeapFacts DEF ShiftDown, OrderInv
<1>1. ASSUME pos < fFreeIndex
      PROVE  /\ pos \in 1 .. Len(fHeap)
             /\ Least(pos) \in 1 .. Len(fHeap) /\ Least(pos) \in {pos, 2 * pos, 2 * pos + 1}
             /\ Least(pos) # pos => Values[Least(pos)] < Values[pos]
             /\ \A i \in 2 .. Len(fHeap) : Parent(i) = pos => Values[Least(pos)] <= Values[i]
  <2>1. pos \in 1 .. Len(fHeap)
    BY <1>0, <1>1, HeapFacts DEF fFreeIndex, CurrentHeapSize
  <2>2. /\ Least(pos) \in 1 .. Len(fHeap) /\ Least(pos) \in {pos, 2 * pos, 2 * pos + 1}
        /\ \A k \in {2 * pos, 2 * pos + 1} : k <= Len(fHeap) => At(Least(pos)) <= At(k)
        /\ Least(pos) # pos => At(Least(pos)) < At(pos)
    BY <2>1, HeapFacts, LeastChild
  <2>3. \A i \in 2 .. Len(fHeap) : Parent(i) = pos => i \in {2 * pos, 2 * pos + 1}
    BY Parents
  <2>4. \A i \in 2 .. Len(fHeap) : Parent(i) = pos => At(Least(pos)) <= At(i)
    BY <2>2, <2>3
  <2> QED
    BY <2>1, <2>2, <2>4, HeapFacts
<1>2. CASE pos < fFreeIndex /\ Least(pos) # pos
  <2>1. PICK p \in 1 .. Len(fHeap), m \in 1 .. Len(fHeap) :
           p = pos /\ m = Least(pos) /\ p = Parent(m) /\ p # m /\ m \in 2 .. Len(fHeap)
    <3>1. pos \in Nat /\ pos >= 1 /\ Least(pos) \in Nat /\ Least(pos) > 1
      BY <1>1, <1>2
    <3>2. Parent(Least(pos)) = pos
      <4>1. Least(pos) = 2 * pos \/ Least(pos) = 2 * pos + 1
        BY <1>1, <1>2
      <4> QED
        BY <3>1, <4>1, Children
    <3> QED
      BY <1>1, <1>2, <3>1, <3>2
  <2>2. SwapElems(p, m) /\ pos' = m /\ shift' = shift
    BY <1>2, <2>1, Zenon DEF ShiftDown
  <2>3. /\ HeapConsistent' /\ Len(fHeap') = Len(fHeap)
        /\ Values' \in [1 .. Len(fHeap) -> Int]
        /\ Exchanged(Values, Values', Len(fHeap), p, m)
    BY <1>0, <2>1, <2>2, SwapStep, Zenon
  <2>4. Values[m] < Values[p] /\ \A i \in 2 .. Len(fHeap) : Parent(i) = p => Values[m] <= Values[i]
    BY <1>1, <1>2, <2>1
  <2>5. Len(fHeap) \in Nat /\ Values \in [1 .. Len(fHeap) -> Int]
    BY HeapFacts
  <2>6. ASSUME ~misplaced PROVE DownOrder(Values', Len(fHeap), m)
    <3>1. DownOrder(Values, Len(fHeap), p)
      BY <1>0, <2>1, <2>6
    <3> QED
      BY <2>1, <2>3, <2>4, <2>5, <3>1, DownSwapOrder, Zenon
  <2> QED
    BY <1>0, <2>2, <2>3, <2>6 DEF HeapInv, OrderInv
<1>3. CASE ~(pos < fFreeIndex /\ Least(pos) # pos)
  <2>1. shift' = "none" /\ UNCHANGED <<fHeap, pos>>
    BY <1>3 DEF ShiftDown
  <2>2. \A i \in 2 .. Len(fHeap) : Parent(i) = pos => Values[pos] <= Values[i]
    <3>1. CASE pos < fFreeIndex
      BY <1>1, <1>3, <3>1
    <3>2. CASE ~(pos < fFreeIndex)
      <4>1. pos = Len(fHeap) + 1 /\ Len(fHeap) \in Nat
        BY <1>0, <3>2, HeapFacts DEF fFreeIndex, CurrentHeapSize
      <4>2. \A i \in 2 .. Len(fHeap) : Parent(i) < pos
        BY <4>1, Parents
      <4> QED
        BY <4>1, <4>2
    <3> QED
      BY <3>1, <3>2
  <2>3. ~misplaced => Ordered(Values, Len(fHeap))
    BY <1>0, <2>2, HeapFacts, DownStops
  <2> QED
    BY <1>0, <2>1, <2>3, LoopEnds
<1> QED
  BY <1>2, <1>3

LEMMA InsertStep ==
    ASSUME HeapInv, NEW e \in Elems, NEW v \in Times, Insert(e, v)
    PROVE  HeapInv'
<1> DEFINE n == Len(fHeap)
<1>0. /\ shift = "none" /\ e \notin fCurrentHeap /\ fValue' = [fValue EXCEPT ![e] = v]
      /\ fArraySize' = GrownArray(fArraySize) /\ fHeap' = Append(fHeap, e)
      /\ fCurrentHeap' = fCurrentHeap \cup {e} /\ shift' = "up" /\ pos' = n + 1 /\ misplaced' = misplaced
  BY DEF Insert, fFreeIndex, CurrentHeapSize
<1>1. /\ n \in Nat /\ fHeap \in Seq(Elems) /\ fValue \in [Elems -> Int] /\ v \in Int
      /\ fArraySize \in Nat /\ n < fArraySize /\ fCurrentHeap \subseteq Elems
      /\ fCurrentHeap = {fHeap[k] : k \in 1 .. n}
      /\ \A k, l \in 1 .. n : fHeap[k] = fHeap[l] => k = l
  BY HeapFacts, HeapAssumption DEF HeapConsistent, HeapTypeOK, Membership, InBounds, CurrentHeapSize
<1>2. /\ fHeap' \in Seq(Elems) /\ Len(fHeap') = n + 1 /\ fHeap'[n + 1] = e
      /\ \A k \in 1 .. n : fHeap'[k] = fHeap[k] /\ fHeap[k] # e /\ fHeap[k] \in Elems
  BY <1>0, <1>1
<1> HIDE DEF n
<1>3. misplaced' \in BOOLEAN
  BY <1>0, Zenon, HeapFacts DEF HeapConsistent, HeapTypeOK
<1>4. fArraySize' \in Nat /\ n + 1 < fArraySize'
  BY <1>0, <1>1 DEF GrownArray, fFreeIndex, CurrentHeapSize, n
<1>5. HeapTypeOK' /\ InBounds'
  BY <1>0, <1>1, <1>2, <1>3, <1>4 DEF HeapTypeOK, InBounds, CurrentHeapSize, fFreeIndex
<1>6. Membership'
  <2>0. \A k \in 1 .. n + 1 : k \in 1 .. n \/ k = n + 1
    BY <1>1
  <2>1. ASSUME NEW k \in 1 .. n + 1, NEW l \in 1 .. n + 1, fHeap'[k] = fHeap'[l] PROVE k = l
    <3>1. (k \in 1 .. n \/ k = n + 1) /\ (l \in 1 .. n \/ l = n + 1)
      BY <2>0
    <3> QED
      BY <1>1, <1>2, <2>1, <3>1
  <2>2. {fHeap'[k] : k \in 1 .. n + 1} = {fHeap[k] : k \in 1 .. n} \cup {e}
    <3>1. ASSUME NEW k \in 1 .. n + 1 PROVE fHeap'[k] \in {fHeap[j] : j \in 1 .. n} \cup {e}
      BY <1>2, <2>0
    <3>2. ASSUME NEW k \in 1 .. n PROVE fHeap[k] \in {fHeap'[j] : j \in 1 .. n + 1}
      <4>1. k \in 1 .. n + 1 /\ fHeap'[k] = fHeap[k]
        BY <1>1, <1>2
      <4> QED
        BY <4>1, Zenon
    <3>3. e \in {fHeap'[j] : j \in 1 .. n + 1}
      <4>1. n + 1 \in 1 .. n + 1 /\ fHeap'[n + 1] = e
        BY <1>1, <1>2
      <4> QED
        BY <4>1, Zenon
    <3> QED
      BY <3>1, <3>2, <3>3, Zenon
  <2> QED
    BY <1>0, <1>1, <1>2, <2>1, <2>2 DEF Membership, CurrentHeapSize
<1>7. \A k \in 1 .. n : Values'[k] = Values[k]
  BY <1>0, <1>1, <1>2 DEF Values, At, n
<1>8. ~misplaced => UpOrder(Values', n + 1, n + 1)
  <2>1. ~misplaced => Ordered(Values, n)
    BY <1>0, HeapFacts DEF OrderInv, n
  <2> QED
    BY <1>1, <1>7, <2>1, InsertOrder
<1> QED
  BY <1>0, <1>2, <1>5, <1>6, <1>8 DEF HeapInv, HeapConsistent, OrderInv

\* ExtractMin and Remove: unless the leaf stays below a larger parent.
LEMMA ExtractStep ==
    ASSUME HeapInv, shift = "none", NEW i \in 1 .. Len(fHeap), Extract(i), misplaced' \in BOOLEAN,
           ~misplaced' => ~misplaced /\ (i > 1 => At(Parent(i)) <= At(Len(fHeap)))
    PROVE  HeapInv'
<1> DEFINE n == Len(fHeap)
<1>0. /\ fHeap' = [k \in 1 .. n - 1 |-> IF k = i THEN fHeap[n] ELSE fHeap[k]]
      /\ fCurrentHeap' = fCurrentHeap \ {fHeap[i]} /\ shift' = "down" /\ pos' = i
      /\ fArraySize' = fArraySize /\ fValue' = fValue
  BY DEF Extract, fFreeIndex, CurrentHeapSize
<1>1. /\ n \in Nat /\ n >= 1 /\ i \in 1 .. n /\ fHeap \in Seq(Elems) /\ fValue \in [Elems -> Int]
      /\ fArraySize \in Nat /\ n < fArraySize /\ fCurrentHeap \subseteq Elems
      /\ fCurrentHeap = {fHeap[k] : k \in 1 .. n}
      /\ \A k, l \in 1 .. n : fHeap[k] = fHeap[l] => k = l
      /\ \A k \in 1 .. n : fHeap[k] \in Elems
  BY HeapFacts DEF HeapConsistent, HeapTypeOK, Membership, InBounds, CurrentHeapSize
<1>2. n - 1 \in Nat /\ \A k \in 1 .. n - 1 : fHeap'[k] = IF k = i THEN fHeap[n] ELSE fHeap[k]
  BY <1>0, <1>1
<1>3. fHeap' \in [1 .. n - 1 -> Elems]
  BY <1>0, <1>1
<1>4. fHeap' \in Seq(Elems) /\ Len(fHeap') = n - 1
  BY <1>2, <1>3
<1> HIDE DEF n
<1>5. HeapTypeOK' /\ InBounds'
  BY <1>0, <1>1, <1>4 DEF HeapTypeOK, InBounds, CurrentHeapSize, fFreeIndex
<1>6. Membership'
  <2>0. \A k \in 1 .. n - 1 : k \in 1 .. n /\ k # n
    BY <1>1
  <2>1. ASSUME NEW k \in 1 .. n - 1, NEW l \in 1 .. n - 1, fHeap'[k] = fHeap'[l] PROVE k = l
    <3>1. k \in 1 .. n /\ k # n /\ l \in 1 .. n /\ l # n /\ n \in 1 .. n
      BY <1>1, <2>0
    <3>2. /\ fHeap'[k] = IF k = i THEN fHeap[n] ELSE fHeap[k]
          /\ fHeap'[l] = IF l = i THEN fHeap[n] ELSE fHeap[l]
      BY <1>2
    <3> QED
      BY <1>1, <2>1, <3>1, <3>2
  <2>2. {fHeap'[k] : k \in 1 .. n - 1} = {fHeap[k] : k \in 1 .. n} \ {fHeap[i]}
    <3>1. ASSUME NEW k \in 1 .. n - 1 PROVE \E l \in 1 .. n : fHeap'[k] = fHeap[l] /\ l # i
      <4>1. k \in 1 .. n /\ n \in 1 .. n /\ k # n /\ fHeap'[k] = IF k = i THEN fHeap[n] ELSE fHeap[k]
        BY <1>1, <1>2, <2>0
      <4>2. CASE k = i
        BY <4>1, <4>2
      <4>3. CASE k # i
        BY <4>1, <4>3
      <4> QED
        BY <4>2, <4>3
    <3>2. ASSUME NEW l \in 1 .. n, l # i PROVE \E k \in 1 .. n - 1 : fHeap'[k] = fHeap[l]
      <4>1. CASE l = n
        BY <1>1, <1>2, <3>2, <4>1
      <4>2. CASE l # n
        BY <1>1, <1>2, <3>2, <4>2
      <4> QED
        BY <4>1, <4>2
    <3>3. \A l \in 1 .. n : fHeap[l] = fHeap[i] => l = i
      BY <1>1
    <3>4. ASSUME NEW x \in {fHeap'[k] : k \in 1 .. n - 1} PROVE x \in {fHeap[k] : k \in 1 .. n} \ {fHeap[i]}
      <4>1. PICK l \in 1 .. n : x = fHeap[l] /\ l # i
        BY <3>1
      <4> QED
        BY <3>3, <4>1
    <3>5. ASSUME NEW x \in {fHeap[k] : k \in 1 .. n} \ {fHeap[i]} PROVE x \in {fHeap'[k] : k \in 1 .. n - 1}
      <4>1. PICK l \in 1 .. n : x = fHeap[l] /\ l # i
        OBVIOUS
      <4> QED
        BY <3>2, <4>1
    <3> QED
      BY <3>4, <3>5
  <2> QED
    BY <1>0, <1>1, <1>4, <2>1, <2>2 DEF Membership, CurrentHeapSize
<1>7. \A k \in 1 .. n - 1 : Values'[k] = IF k = i THEN Values[n] ELSE Values[k]
  BY <1>0, <1>1, <1>2, <1>4 DEF Values, At, n
<1>8. ASSUME ~misplaced' PROVE DownOrder(Values', n - 1, i)
  <2>1. Ordered(Values, n)
    BY <1>8, HeapFacts DEF OrderInv, n
  <2>2. i > 1 => Values[Parent(i)] <= Values[n]
    <3>1. i > 1 => Parent(i) \in 1 .. n
      BY <1>1, Parents
    <3>2. n \in 1 .. n /\ \A k \in 1 .. n : Values[k] = At(k)
      BY <1>1, HeapFacts DEF n
    <3> QED
      BY <1>8, <3>1, <3>2 DEF n
  <2>3. Values \in [1 .. n -> Int]
    BY HeapFacts DEF n
  <2> QED
    BY <1>1, <1>7, <2>1, <2>2, <2>3, ExtractOrder
<1> QED
  BY <1>0, <1>4, <1>5, <1>6, <1>8 DEF HeapInv, HeapConsistent, OrderInv

LEMMA UpdateStep ==
    ASSUME HeapInv, NEW e \in Elems, NEW v \in Times, NEW f \in Flags, Update(e, v, f)
    PROVE  HeapInv'
<1> DEFINE n == Len(fHeap)
<1>0. /\ shift = "none" /\ fValue' = [fValue EXCEPT ![e] = v]
      /\ fHeap' = fHeap /\ fArraySize' = fArraySize /\ fCurrentHeap' = fCurrentHeap /\ misplaced' = misplaced
  BY DEF Update
<1>1. PICK i \in 1 .. n : /\ fHeap[i] = e /\ pos' = i
                          /\ (v < At(i) /\ shift' = "up") \/ (v > At(i) /\ shift' = "down")
  BY DEF Update, CurrentHeapSize
<1>2. /\ n \in Nat /\ fValue \in [Elems -> Int] /\ v \in Int /\ Values \in [1 .. n -> Int]
      /\ \A k \in 1 .. n : fHeap[k] \in Elems
      /\ \A k, l \in 1 .. n : fHeap[k] = fHeap[l] => k = l
  BY HeapFacts, HeapAssumption DEF HeapConsistent, Membership, CurrentHeapSize
<1>3. HeapConsistent'
  <2>1. HeapTypeOK'
    BY <1>0, <1>1, <1>2, HeapFacts DEF HeapConsistent, HeapTypeOK, CurrentHeapSize, fFreeIndex
  <2> QED
    BY <1>0, <2>1 DEF HeapInv, HeapConsistent, Membership, InBounds, CurrentHeapSize
<1>4. Values' = [k \in 1 .. n |-> fValue'[fHeap[k]]]
  BY <1>0 DEF Values, At
<1>5. /\ Values' \in [1 .. n -> Int] /\ Values'[i] = v /\ Values[i] = At(i)
      /\ \A k \in 1 .. n : k # i => Values'[k] = Values[k]
  BY <1>0, <1>1, <1>2, <1>4 DEF Values, At
<1> HIDE DEF n
<1>6. ASSUME ~misplaced
      PROVE  (v < At(i) => UpOrder(Values', n, i)) /\ (v > At(i) => DownOrder(Values', n, i))
  <2>1. Ordered(Values, n)
    BY <1>0, <1>6, HeapFacts DEF OrderInv, n
  <2> QED
    BY <1>2, <1>5, <2>1, ChangeOrder
<1>7. Len(fHeap') = n
  BY <1>0 DEF n
<1> QED
  BY <1>0, <1>1, <1>3, <1>6, <1>7 DEF HeapInv, OrderInv

LEMMA HeapStep == HeapInv /\ [HeapNext]_heapVars => HeapInv'
<1> SUFFICES ASSUME HeapInv, [HeapNext]_heapVars PROVE HeapInv'
  OBVIOUS
<1>1. CASE ShiftUp
  BY <1>1, ShiftUpStep
<1>2. CASE ShiftDown
  BY <1>2, ShiftDownStep
<1>3. CASE ExtractMin
  <2>1. shift = "none" /\ Extract(1) /\ misplaced' = misplaced /\ 1 \in 1 .. Len(fHeap)
    BY <1>3, HeapFacts DEF ExtractMin, Extract, fFreeIndex, CurrentHeapSize
  <2>2. misplaced' \in BOOLEAN
    BY <2>1, Zenon DEF HeapInv, HeapConsistent, HeapTypeOK
  <2>3. ~misplaced' => ~misplaced /\ (1 > 1 => At(Parent(1)) <= At(Len(fHeap)))
    BY <2>1
  <2> QED
    BY <2>1, <2>2, <2>3, ExtractStep
<1>4. ASSUME NEW e \in Elems, RemoveElem(e) PROVE HeapInv'
  <2>1. PICK i \in 1 .. Len(fHeap) :
           /\ shift = "none" /\ Extract(i)
           /\ misplaced' = (misplaced \/ (i > 1 /\ At(Len(fHeap)) < At(Parent(i))))
    BY <1>4 DEF RemoveElem, CurrentHeapSize, Parent
  <2>2. misplaced' \in BOOLEAN
    BY <2>1, Zenon
  <2>3. i > 1 => At(Parent(i)) \in Int /\ At(Len(fHeap)) \in Int
    BY HeapFacts, Parents
  <2>4. ~misplaced' => ~misplaced /\ ~(i > 1 /\ At(Len(fHeap)) < At(Parent(i)))
    BY <2>1, Zenon
  <2>5. ~misplaced' => ~misplaced /\ (i > 1 => At(Parent(i)) <= At(Len(fHeap)))
    BY <2>3, <2>4
  <2> QED
    BY <2>1, <2>2, <2>5, ExtractStep
<1>5. CASE UNCHANGED heapVars
  <2>1. HeapConsistent'
    BY <1>5 DEF heapVars, HeapInv, HeapConsistent, HeapTypeOK, Membership, InBounds, CurrentHeapSize, fFreeIndex
  <2>2. Values' = Values
    BY <1>5 DEF heapVars, Values, At
  <2> QED
    BY <1>5, <2>1, <2>2 DEF heapVars, HeapInv, OrderInv
<1> QED
  BY <1>1, <1>2, <1>3, <1>4, <1>5, InsertStep, UpdateStep DEF HeapNext

\* The array of Heap.cpp holds every element whose fCurrentHeap is this heap
\* exactly once, and no others, and never outgrows its allocation: Insert,
\* ExtractMin, Remove, Update and every exchange of the loops keep it so.
THEOREM HeapIsConsistent == HeapSpec => []HeapConsistent
<1>1. HeapInv => HeapConsistent
  BY DEF HeapInv
<1> QED
  BY <1>1, HeapInvInit, HeapStep, PTL DEF HeapSpec

\* When no loop runs, no timer is due before its parent in the array, unless
\* Remove put a leaf below a larger parent: ShiftUp and ShiftDown of Heap.cpp
\* restore the order that Insert, ExtractMin, Remove and Update disturb.
THEOREM HeapStaysOrdered == HeapSpec => []HeapOrder
  BY InvOrdersHeap, HeapInvInit, HeapStep, PTL DEF HeapSpec

----------------------------------------------------------------------------
(* IdleTimer *)

LEMMA LeastSlot ==
    ASSUME NEW S \in SUBSET Nat, S # {}
    PROVE  \E k \in S : \A j \in S : k <= j
<1>1. PICK k \in S : \A j \in S : ~(<<j, k>> \in OpToRel(<, Nat))
  BY NatLessThanWellFounded, WFMin, Zenon
<1>2. \A j \in S : ~(j < k)
  BY <1>1, Zenon DEF OpToRel
<1> QED
  BY <1>2

\* PeekMin of an ordered heap is its minimum: the first slot smaller than the root
\* would be smaller than its parent, which is not.
LEMMA RootIsLeast ==
    ASSUME NEW n \in Nat, NEW a \in [1 .. n -> Int], Ordered(a, n), NEW i \in 1 .. n
    PROVE  a[1] <= a[i]
<1> DEFINE S == {k \in 1 .. n : a[k] < a[1]}
<1>1. SUFFICES ASSUME S # {} PROVE FALSE
  BY DEF S
<1>0. S \in SUBSET Nat
  OBVIOUS
<1> HIDE DEF S
<1>2. PICK k \in S : \A j \in S : k <= j
  BY <1>0, <1>1, LeastSlot
<1>3. k \in 2 .. n /\ a[k] < a[1]
  BY <1>2 DEF S
<1>4. Parent(k) \in 1 .. n /\ Parent(k) < k
  BY <1>3, Parents
<1>5. ~(a[Parent(k)] < a[1])
  BY <1>2, <1>4 DEF S
<1>6. a[Parent(k)] <= a[k]
  BY <1>3 DEF Ordered
<1> QED
  BY <1>3, <1>4, <1>5, <1>6

LEMMA PeekMinIsLeast ==
    ASSUME HeapInv, shift = "none", ~misplaced, NEW t \in fCurrentHeap
    PROVE  CurrentHeapSize > 0 /\ At(1) <= fValue[t]
<1>1. PICK i \in 1 .. Len(fHeap) : fHeap[i] = t
  BY DEF HeapInv, HeapConsistent, Membership, CurrentHeapSize
<1>2. Ordered(Values, Len(fHeap))
  BY DEF HeapInv, OrderInv
<1>0. Len(fHeap) \in Nat /\ Values \in [1 .. Len(fHeap) -> Int]
  BY HeapFacts
<1>3. Values[1] <= Values[i] /\ 1 \in 1 .. Len(fHeap)
  <2> DEFINE n == Len(fHeap) a == Values
  <2>1. n \in Nat /\ a \in [1 .. n -> Int] /\ Ordered(a, n) /\ i \in 1 .. n
    BY <1>0, <1>2
  <2> HIDE DEF n, a
  <2>2. a[1] <= a[i] /\ 1 \in 1 .. n
    BY <2>1, RootIsLeast
  <2> QED
    BY <2>2 DEF n, a
<1> QED
  BY <1>0, <1>1, <1>3 DEF Values, At, CurrentHeapSize

\* Every step of a caller or of the thread is a step of the heap, or leaves it alone.
LEMMA IdleHeapStep == [IdleNext]_idleVars => [HeapNext]_heapVars
<1> SUFFICES ASSUME [IdleNext]_idleVars PROVE [HeapNext]_heapVars
  OBVIOUS
<1>1. ASSUME NEW t \in Elems, NEW timeout \in IdleTimeouts, SetIdleTimer(t, timeout) PROVE [HeapNext]_heapVars
  BY <1>1 DEF SetIdleTimer, SetValue, HeapNext, Flags
<1>2. ASSUME NEW t \in Elems, CancelTimeout(t) \/ Destroy(t) \/ RunTask(t) PROVE [HeapNext]_heapVars
  BY <1>2 DEF CancelTimeout, Destroy, RunTask, HeapNext
<1>3. CASE IdleShift \/ PopDue
  BY <1>3 DEF IdleShift, PopDue, HeapNext
<1>4. CASE IdleRelease \/ CheckHeap \/ SignalIdle \/ Sleep \/ Relock \/ IdleWaitEnds \/ IdleTick
  BY <1>4 DEF IdleRelease, CheckHeap, SignalIdle, Sleep, Relock, IdleWaitEnds, IdleTick
<1>5. CASE UNCHANGED idleVars
  BY <1>5 DEF idleVars
<1> QED
  BY <1>1, <1>2, <1>3, <1>4, <1>5 DEF IdleNext, Entry

\* The IdleTaskThread and its callers implement the heap of TimerHeap: whatever is
\* shown of that heap holds for the timers.
THEOREM IdleImplementsHeap == IdleSpec => HeapSpec
<1>1. IdleInit => HeapInit
  BY DEF IdleInit, IdleState
<1> QED
  BY <1>1, IdleHeapStep, PTL DEF IdleSpec, HeapSpec

IdleInv == HeapInv /\ IdleConsistent /\ NeverSleepsPast

LEMMA IdleInvInit == IdleInit => IdleInv
<1> SUFFICES ASSUME IdleInit PROVE IdleInv
  OBVIOUS
<1>1. Horizon \in Nat /\ MaxTime \in Nat
  BY IdleAssumption DEF Horizon
<1>2. HeapInit
  BY DEF IdleInit, IdleState
<1>3. now \in 0 .. Horizon /\ fValue \in [Elems -> 0 .. MaxTime] /\ msec \in 0 .. now /\ sleptAt \in 0 .. now
  BY <1>1, <1>2 DEF IdleInit, IdleState, HeapInit
<1>4. stop \in BOOLEAN
  BY Zenon DEF IdleInit, IdleState
<1>5. IdleConsistent
  BY <1>2, <1>3, <1>4 DEF IdleInit, IdleState, HeapInit, IdleTypeOK, IdleConsistent, SignalsLiveTask
<1>6. NeverSleepsPast
  BY DEF IdleInit, IdleState, NeverSleepsPast, SleepsUntilLowest
<1> QED
  BY <1>2, <1>5, <1>6, HeapInvInit DEF IdleInv

LEMMA IdleStep == IdleInv /\ [IdleNext]_idleVars => IdleInv'
<1> SUFFICES ASSUME IdleInv, [IdleNext]_idleVars PROVE IdleInv'
  OBVIOUS
<1> USE IdleAssumption
<1>0. /\ HeapInv /\ IdleTypeOK /\ SignalsLiveTask /\ NeverSleepsPast /\ Horizon \in Nat
      /\ fCurrentHeap = {fHeap[i] : i \in 1 .. Len(fHeap)} /\ Len(fHeap) \in Nat
  BY HeapFacts DEF IdleInv, IdleConsistent, Horizon, HeapInv, HeapConsistent, Membership, CurrentHeapSize
<1>00. HeapInv'
  BY <1>0, IdleHeapStep, HeapStep
<1>01. SUFFICES IdleTypeOK' /\ SignalsLiveTask' /\ NeverSleepsPast'
  BY <1>00 DEF IdleInv, IdleConsistent
<1> DEFINE Goal == IdleTypeOK' /\ SignalsLiveTask' /\ NeverSleepsPast'
<1>1. ASSUME NEW t \in Elems, NEW timeout \in IdleTimeouts, SetIdleTimer(t, timeout) PROVE Goal
  <2>1. /\ t \in alive /\ pc' # "asleep" /\ pc' # "signal" /\ pc' \in {pc, "awake"}
        /\ UNCHANGED <<now, msec, elem, waitVars, signalled, alive, stop>>
    BY <1>1 DEF SetIdleTimer, MayCall, Locked, Wake
  <2>2. fValue' \in [Elems -> 0 .. MaxTime] /\ fCurrentHeap' \subseteq fCurrentHeap \cup {t}
    BY <1>0, <1>1 DEF SetIdleTimer, SetValue, Insert, Update, heapVars, IdleTypeOK
  <2>3. IdleTypeOK'
    BY <1>0, <2>1, <2>2 DEF IdleTypeOK, waitVars, Horizon
  <2> QED
    BY <1>0, <2>1, <2>2, <2>3 DEF SignalsLiveTask, NeverSleepsPast, SleepsUntilLowest
<1>2. ASSUME NEW t \in Elems, CancelTimeout(t) \/ Destroy(t) PROVE Goal
  <2>1. /\ UNCHANGED <<now, pc, msec, elem, waitVars, stop>> /\ pc # "signal"
        /\ signalled' \subseteq signalled /\ alive \ {t} \subseteq alive' /\ alive' \subseteq alive
    BY <1>2 DEF CancelTimeout, Destroy, MayCall, Locked
  <2>2. /\ fValue' = fValue /\ fCurrentHeap' \subseteq fCurrentHeap
        /\ ~misplaced' => ~misplaced
        /\ t \notin fCurrentHeap'
    <3>1. CASE RemoveElem(t)
      <4>1. PICK i \in 1 .. CurrentHeapSize :
               /\ fHeap[i] = t /\ Extract(i)
               /\ misplaced' = (misplaced \/ (i > 1 /\ At(CurrentHeapSize) < At(i \div 2)))
        BY <3>1 DEF RemoveElem
      <4>2. ~misplaced' => ~misplaced
        BY <4>1, Zenon
      <4> QED
        BY <4>1, <4>2 DEF Extract
    <3>2. CASE t \notin fCurrentHeap /\ UNCHANGED heapVars
      BY <3>2 DEF heapVars
    <3> QED
      BY <1>2, <3>1, <3>2 DEF CancelTimeout, Destroy
  <2>3. IdleTypeOK'
    BY <1>0, <2>1, <2>2 DEF IdleTypeOK, waitVars, Horizon
  <2>4. SignalsLiveTask'
    BY <1>0, <2>1, <2>2 DEF SignalsLiveTask
  <2>5. NeverSleepsPast'
    BY <1>0, <2>1, <2>2 DEF NeverSleepsPast, SleepsUntilLowest, waitVars
  <2> QED
    BY <2>3, <2>4, <2>5
<1>3. ASSUME NEW t \in Elems, RunTask(t) PROVE Goal
  BY <1>0, <1>3 DEF RunTask, IdleTypeOK, SignalsLiveTask, NeverSleepsPast, SleepsUntilLowest, heapVars, waitVars, Horizon
<1>4. CASE IdleShift
  BY <1>0, <1>4 DEF IdleShift, ShiftUp, ShiftDown, IdleTypeOK, SignalsLiveTask, NeverSleepsPast, SleepsUntilLowest,
                    waitVars, Horizon
<1>5. CASE IdleRelease \/ IdleWaitEnds \/ Relock
  BY <1>0, <1>5 DEF IdleRelease, IdleWaitEnds, Relock, IdleTypeOK, SignalsLiveTask, NeverSleepsPast,
                    SleepsUntilLowest, heapVars, waitVars, Horizon
<1>6. CASE CheckHeap
  <2>1. pc' = "asleep" => fCurrentHeap = {}
    BY <1>0, <1>6 DEF CheckHeap, CurrentHeapSize
  <2>2. IdleTypeOK'
    BY <1>0, <1>6 DEF CheckHeap, IdleTypeOK, heapVars, waitVars, Horizon
  <2>3. SignalsLiveTask'
    BY <1>0, <1>6 DEF CheckHeap, SignalsLiveTask, heapVars
  <2> QED
    BY <1>6, <2>1, <2>2, <2>3 DEF CheckHeap, NeverSleepsPast, SleepsUntilLowest, heapVars
<1>7. CASE PopDue
  <2>1. /\ fHeap[1] \in fCurrentHeap /\ elem' = fHeap[1] /\ pc' = "signal" /\ fCurrentHeap' \subseteq fCurrentHeap
        /\ UNCHANGED <<now, msec, waitVars, signalled, alive, stop, fValue>>
    BY <1>0, <1>7 DEF PopDue, ExtractMin, Extract, CurrentHeapSize
  <2> QED
    BY <1>0, <2>1 DEF IdleTypeOK, SignalsLiveTask, NeverSleepsPast, SleepsUntilLowest, waitVars, Horizon
<1>8. CASE SignalIdle
  BY <1>0, <1>8 DEF SignalIdle, IdleTypeOK, SignalsLiveTask, NeverSleepsPast, SleepsUntilLowest, heapVars, waitVars,
                    Horizon
<1>9. CASE Sleep
  <2>0. UNCHANGED <<heapVars, now, msec, elem, signalled, alive, stop>> /\ shift = "none"
    BY <1>9 DEF Sleep
  <2>1. CASE CurrentHeapSize = 0
    BY <1>0, <1>9, <2>1 DEF Sleep, IdleTypeOK, SignalsLiveTask, NeverSleepsPast, SleepsUntilLowest, heapVars, waitVars,
                            Horizon
  <2>2. CASE CurrentHeapSize # 0
    <3>1. At(1) > msec /\ pc' = "asleep" /\ sleptAt' = now /\ wakeAt' = now + (At(1) - msec)
      BY <1>9, <2>2 DEF Sleep
    <3>2. At(1) \in Int /\ msec \in Int /\ now \in Nat
      BY <1>0, <2>2, HeapFacts DEF IdleTypeOK, CurrentHeapSize
    <3>3. wakeAt' \in Nat
      BY <3>1, <3>2
    <3>4. IdleTypeOK'
      BY <1>0, <2>0, <3>1, <3>3 DEF IdleTypeOK, heapVars, Horizon
    <3>5. SignalsLiveTask'
      BY <1>0, <2>0, <3>1 DEF SignalsLiveTask, heapVars
    <3>6. ASSUME ~misplaced, NEW t \in fCurrentHeap PROVE wakeAt' <= fValue[t] + (now - msec)
      <4>1. At(1) <= fValue[t] /\ fValue[t] \in Int
        BY <1>0, <2>0, <3>6, PeekMinIsLeast DEF IdleTypeOK
      <4> QED
        BY <3>1, <3>2, <4>1
    <3>7. NeverSleepsPast'
      BY <2>0, <3>1, <3>6 DEF NeverSleepsPast, SleepsUntilLowest, heapVars
    <3> QED
      BY <3>4, <3>5, <3>7
  <2> QED
    BY <2>1, <2>2
<1>10. CASE IdleTick
  BY <1>0, <1>10 DEF IdleTick, IdleTypeOK, SignalsLiveTask, NeverSleepsPast, SleepsUntilLowest, heapVars, waitVars,
                     Horizon
<1>11. CASE UNCHANGED idleVars
  BY <1>0, <1>11 DEF idleVars, IdleTypeOK, SignalsLiveTask, NeverSleepsPast, SleepsUntilLowest, heapVars, waitVars,
                     Horizon
<1> QED
  BY <1>1, <1>2, <1>3, <1>4, <1>5, <1>6, <1>7, <1>8, <1>9, <1>10, <1>11 DEF IdleNext, Entry

\* For any tasks and timeouts, and however long a turn of its loop takes, the
\* IdleTaskThread sleeps past no timer by more than that turn took, until a Remove has
\* put a leaf of its heap below a larger parent.
THEOREM ThreadNeverOversleeps == IdleSpec => []NeverSleepsPast
<1>1. IdleInv => NeverSleepsPast
  BY DEF IdleInv
<1> QED
  BY <1>1, IdleInvInit, IdleStep, PTL DEF IdleSpec

\* The IdleTaskThread signals only tasks that exist, whoever is destroyed when, even
\* with a heap that is out of order.
THEOREM IdleIsConsistent == IdleSpec => []IdleConsistent
<1>1. IdleInv => IdleConsistent
  BY DEF IdleInv
<1> QED
  BY <1>1, IdleInvInit, IdleStep, PTL DEF IdleSpec

----------------------------------------------------------------------------
(* TimeoutTasks: the queue *)

\* The elements of the ring: the sentinel, those of the list and the sentinel again.
Node(s, i) == IF i \in 1 .. Len(s) THEN s[i] ELSE fSentinel

\* No element twice.
Distinct(s) == \A i, j \in 1 .. Len(s) : s[i] = s[j] => i = j

\* The queue is the ring of the elements of a list.
Ring(q, s, T) ==
    /\ q.fNext \in [T \cup {fSentinel} -> T \cup {fSentinel, nullptr}]
    /\ q.fPrev \in [T \cup {fSentinel} -> T \cup {fSentinel, nullptr}]
    /\ s \in Seq(T) /\ Distinct(s)
    /\ q.members = {s[i] : i \in 1 .. Len(s)} /\ q.fLength = Len(s)
    /\ \A i \in 0 .. Len(s) : q.fPrev[Node(s, i)] = Node(s, i + 1) /\ q.fNext[Node(s, i + 1)] = Node(s, i)

\* Only the sentinel is in the ring twice.
RingNodes(s, T, L) ==
    /\ Node(s, 0) = 0 /\ Node(s, L + 1) = 0
    /\ \A i \in 1 .. L : Node(s, i) = s[i] /\ s[i] \in T
    /\ \A i \in 0 .. L + 1 : Node(s, i) \in T \cup {0}
    /\ \A i, j \in 0 .. L : Node(s, i) = Node(s, j) => i = j
    /\ \A i, j \in 1 .. L + 1 : Node(s, i) = Node(s, j) => i = j

LEMMA NodesDiffer ==
    ASSUME NEW T, T \subseteq Nat \ {0}, NEW s \in Seq(T), NEW L \in Nat, L = Len(s), Distinct(s)
    PROVE  RingNodes(s, T, L)
<1>1. \A i \in 1 .. L : s[i] \in T
  BY ElementOfSeq
<1>2. Node(s, 0) = 0 /\ Node(s, L + 1) = 0 /\ \A i \in 1 .. L : Node(s, i) = s[i]
  BY DEF Node, fSentinel
<1>3. 0 \notin T
  OBVIOUS
<1>4. ASSUME NEW i \in 0 .. L + 1 PROVE Node(s, i) \in T \cup {0} /\ (i = 0 \/ i = L + 1 \/ (i \in 1 .. L /\ Node(s, i) \in T))
  BY <1>1, <1>2
<1>5. ASSUME NEW i \in 0 .. L, NEW j \in 0 .. L, Node(s, i) = Node(s, j) PROVE i = j
  <2>1. i = 0 \/ i \in 1 .. L
    OBVIOUS
  <2>2. j = 0 \/ j \in 1 .. L
    OBVIOUS
  <2>. QED
    BY <1>1, <1>2, <1>3, <1>5, <2>1, <2>2 DEF Distinct
<1>6. ASSUME NEW i \in 1 .. L + 1, NEW j \in 1 .. L + 1, Node(s, i) = Node(s, j) PROVE i = j
  <2>1. i = L + 1 \/ i \in 1 .. L
    OBVIOUS
  <2>2. j = L + 1 \/ j \in 1 .. L
    OBVIOUS
  <2>. QED
    BY <1>1, <1>2, <1>3, <1>6, <2>1, <2>2 DEF Distinct
<1>. QED
  BY <1>1, <1>2, <1>4, <1>5, <1>6 DEF RingNodes

\* EnQueue() puts an element in at the end of the list.
LEMMA EnQueueRing ==
    ASSUME NEW T, T \subseteq Nat \ {0}, NEW q, NEW s, Ring(q, s, T), NEW t \in T, t \notin q.members
    PROVE  Ring(EnQueue(q, t), Append(s, t), T)
<1>1. s \in Seq(T) /\ Distinct(s)
  BY DEF Ring
<1>2. PICK L \in Nat : L = Len(s)
  BY <1>1, LenProperties
<1>3. /\ Node(s, 0) = 0 /\ Node(s, L + 1) = 0
      /\ \A i \in 1 .. L : Node(s, i) = s[i] /\ s[i] \in T
      /\ \A i \in 0 .. L + 1 : Node(s, i) \in T \cup {0}
      /\ \A i, j \in 0 .. L : Node(s, i) = Node(s, j) => i = j
      /\ \A i, j \in 1 .. L + 1 : Node(s, i) = Node(s, j) => i = j
  <2>1. RingNodes(s, T, L)
    BY <1>1, <1>2, NodesDiffer
  <2>. QED
    BY <2>1 DEF RingNodes
<1>4. \A i \in 1 .. L : s[i] # t
  BY <1>2 DEF Ring
<1>5. 0 \notin T /\ t # 0
  OBVIOUS
<1>6. \A i \in 0 .. L + 1 : Node(s, i) # t
  <2>1. SUFFICES ASSUME NEW i \in 0 .. L + 1 PROVE Node(s, i) # t
    OBVIOUS
  <2>2. i = 0 \/ i = L + 1 \/ i \in 1 .. L
    OBVIOUS
  <2>. QED
    BY <1>3, <1>4, <1>5, <2>2
<1>7. PICK u : u = Append(s, t)
  OBVIOUS
<1>8. u \in Seq(T) /\ Len(u) = L + 1 /\ (\A i \in 1 .. L : u[i] = s[i]) /\ u[L + 1] = t
  BY <1>1, <1>2, <1>7, AppendProperties
<1>9. (\A i \in 0 .. L : Node(u, i) = Node(s, i)) /\ Node(u, L + 1) = t /\ Node(u, L + 2) = 0
  BY <1>2, <1>8 DEF Node, fSentinel
<1>10. /\ q.fNext \in [T \cup {0} -> T \cup {0, nullptr}]
       /\ q.fPrev \in [T \cup {0} -> T \cup {0, nullptr}]
       /\ q.members = {s[i] : i \in 1 .. L} /\ q.fLength = L
       /\ \A i \in 0 .. L : q.fPrev[Node(s, i)] = Node(s, i + 1) /\ q.fNext[Node(s, i + 1)] = Node(s, i)
  BY <1>2 DEF Ring, fSentinel
<1>11. PICK last : last = q.fNext[0]
  OBVIOUS
<1>12. last = Node(s, L) /\ last \in T \cup {0}
  BY <1>3, <1>10, <1>11
<1>13. PICK e : e = EnQueue(q, t)
  OBVIOUS
<1>14. /\ e.fNext = [q.fNext EXCEPT ![t] = last, ![0] = t]
       /\ e.fPrev = [q.fPrev EXCEPT ![t] = 0, ![last] = t]
       /\ e.members = q.members \cup {t} /\ e.fLength = q.fLength + 1
  BY <1>11, <1>13 DEF EnQueue, IsMember, fSentinel
<1>15. /\ e.fNext \in [T \cup {0} -> T \cup {0, nullptr}]
       /\ e.fPrev \in [T \cup {0} -> T \cup {0, nullptr}]
  BY <1>10, <1>12, <1>14
<1>16. ASSUME NEW i \in 0 .. L + 1 PROVE e.fPrev[Node(u, i)] = Node(u, i + 1) /\ e.fNext[Node(u, i + 1)] = Node(u, i)
  <2>1. /\ e.fPrev[t] = 0 /\ e.fPrev[last] = t
        /\ \A x \in T \cup {0} : x # t /\ x # last => e.fPrev[x] = q.fPrev[x]
    BY <1>6, <1>10, <1>12, <1>14
  <2>2. /\ e.fNext[t] = last /\ e.fNext[0] = t
        /\ \A x \in T \cup {0} : x # t /\ x # 0 => e.fNext[x] = q.fNext[x]
    BY <1>5, <1>10, <1>14
  <2>3. CASE i < L
    <3>1. i \in 0 .. L /\ i + 1 \in 0 .. L /\ i + 1 \in 1 .. L
      BY <2>3
    <3>2. Node(u, i) = Node(s, i) /\ Node(u, i + 1) = Node(s, i + 1)
      BY <1>9, <3>1
    <3>3. Node(s, i) # t /\ Node(s, i) # last /\ Node(s, i) \in T \cup {0}
      BY <1>3, <1>6, <1>12, <2>3, <3>1
    <3>4. Node(s, i + 1) # t /\ Node(s, i + 1) \in T /\ Node(s, i + 1) # 0
      BY <1>3, <1>5, <1>6, <3>1
    <3>5. q.fPrev[Node(s, i)] = Node(s, i + 1) /\ q.fNext[Node(s, i + 1)] = Node(s, i)
      BY <1>10, <3>1
    <3>. QED
      BY <2>1, <2>2, <3>2, <3>3, <3>4, <3>5, Zenon
  <2>4. CASE i = L
    BY <1>9, <1>12, <2>1, <2>2, <2>4
  <2>5. CASE i = L + 1
    BY <1>9, <2>1, <2>2, <2>5
  <2>. QED
    BY <2>3, <2>4, <2>5
<1>17. \A i, j \in 1 .. L + 1 : u[i] = u[j] => i = j
  <2>1. SUFFICES ASSUME NEW i \in 1 .. L + 1, NEW j \in 1 .. L + 1, u[i] = u[j] PROVE i = j
    OBVIOUS
  <2>2. (i = L + 1 \/ i \in 1 .. L) /\ (j = L + 1 \/ j \in 1 .. L)
    OBVIOUS
  <2>. QED
    BY <1>1, <1>2, <1>4, <1>8, <2>1, <2>2 DEF Distinct
<1>18. e.members = {u[i] : i \in 1 .. L + 1}
  <2>1. \A x : (x \in {u[i] : i \in 1 .. L + 1}) <=> (\E i \in 1 .. L : x = s[i]) \/ x = t
    <3>1. \A i : i \in 1 .. L + 1 <=> i \in 1 .. L \/ i = L + 1
      OBVIOUS
    <3>. QED
      BY <1>8, <3>1, Zenon
  <2>. QED
    BY <1>10, <1>14, <2>1
<1>19. e.fLength = L + 1
  BY <1>10, <1>14
<1>. QED
  BY <1>7, <1>8, <1>13, <1>15, <1>16, <1>17, <1>18, <1>19 DEF Ring, Distinct, fSentinel

\* What is left of a list when its k-th element is taken out.
IsWithout(r, s, k) ==
    /\ Len(r) = Len(s) - 1
    /\ \A j \in 1 .. Len(s) - 1 : r[j] = IF j < k THEN s[j] ELSE s[j + 1]

LEMMA RemoveFirstKeeps ==
    ASSUME NEW T, NEW q \in Seq(T), NEW k \in 1 .. Len(q), Distinct(q)
    PROVE  /\ RemoveFirst(q, q[k]) \in Seq(T) /\ Len(RemoveFirst(q, q[k])) = Len(q) - 1
           /\ \A j \in 1 .. Len(q) - 1 : RemoveFirst(q, q[k])[j] = IF j < k THEN q[j] ELSE q[j + 1]
<1>1. {j \in 1 .. Len(q) : q[j] = q[k]} = {k} /\ Len(q) \in Nat /\ k \in Nat
  BY DEF Distinct
<1>2. Min({k}) = k
  BY <1>1 DEF Min
<1>3. SelectInSeq(q, LAMBDA v : v = q[k]) = k
  BY <1>1, <1>2 DEF SelectInSeq
<1>4. RemoveFirst(q, q[k]) = SubSeq(q, 1, k - 1) \o SubSeq(q, k + 1, Len(q))
  BY <1>3 DEF RemoveFirst, RemoveAt
<1> DEFINE before == SubSeq(q, 1, k - 1)
           after  == SubSeq(q, k + 1, Len(q))
<1>5. before \in Seq(T) /\ Len(before) = k - 1 /\ \A j \in 1 .. k - 1 : before[j] = q[j]
  BY <1>1
<1>6. after \in Seq(T) /\ Len(after) = Len(q) - k /\ \A j \in 1 .. Len(q) - k : after[j] = q[k + j]
  BY <1>1
<1> HIDE DEF before, after
<1>7. before \o after \in Seq(T) /\ Len(before \o after) = Len(q) - 1
  <2>1. before \o after \in Seq(T)
    BY <1>5, <1>6
  <2>2. Len(before \o after) = Len(before) + Len(after)
    BY <1>5, <1>6, ConcatProperties
  <2> QED
    BY <1>1, <1>5, <1>6, <2>1, <2>2
<1>8. ASSUME NEW j \in 1 .. Len(q) - 1 PROVE (before \o after)[j] = IF j < k THEN q[j] ELSE q[j + 1]
  <2>1. CASE j < k
    BY <1>1, <1>5, <1>6, <2>1
  <2>2. CASE ~(j < k)
    <3>1. j - (k - 1) \in 1 .. Len(q) - k /\ k + (j - (k - 1)) = j + 1
      BY <1>1, <2>2
    <3>2. (before \o after)[j] = after[j - (k - 1)]
      BY <1>1, <1>5, <1>6, <2>2
    <3>3. after[j - (k - 1)] = q[k + (j - (k - 1))]
      BY <1>6, <3>1
    <3> QED
      BY <2>2, <3>1, <3>2, <3>3
  <2> QED
    BY <2>1, <2>2
<1> QED
  BY <1>4, <1>7, <1>8 DEF before, after

\* Remove() takes the k-th element of the list out.
LEMMA RemoveRing ==
    ASSUME NEW T, T \subseteq Nat \ {0}, NEW q, NEW s, Ring(q, s, T), NEW k \in 1 .. Len(s),
           NEW r \in Seq(T), IsWithout(r, s, k)
    PROVE  Ring(QueueRemove(q, s[k]), r, T)
<1>1. s \in Seq(T) /\ Distinct(s)
  BY DEF Ring
<1>2. PICK L \in Nat : L = Len(s)
  BY <1>1, LenProperties
<1>3. /\ Node(s, 0) = 0 /\ Node(s, L + 1) = 0
      /\ \A i \in 1 .. L : Node(s, i) = s[i] /\ s[i] \in T
      /\ \A i \in 0 .. L + 1 : Node(s, i) \in T \cup {0}
      /\ \A i, j \in 0 .. L : Node(s, i) = Node(s, j) => i = j
      /\ \A i, j \in 1 .. L + 1 : Node(s, i) = Node(s, j) => i = j
  <2>1. RingNodes(s, T, L)
    BY <1>1, <1>2, NodesDiffer
  <2>. QED
    BY <2>1 DEF RingNodes
<1>4. /\ k \in 1 .. L /\ L - 1 \in Nat
      /\ Len(r) = L - 1 /\ \A j \in 1 .. L - 1 : r[j] = IF j < k THEN s[j] ELSE s[j + 1]
  BY <1>2 DEF IsWithout
<1>5. ASSUME NEW i \in 0 .. L PROVE Node(r, i) = IF i < k THEN Node(s, i) ELSE Node(s, i + 1)
  <2>1. CASE i \in 1 .. L - 1
    <3>1. Node(r, i) = r[i]
      BY <1>4, <2>1 DEF Node
    <3>2. i \in 1 .. L /\ i + 1 \in 1 .. L
      BY <1>4, <2>1
    <3>. QED
      BY <1>3, <1>4, <2>1, <3>1, <3>2
  <2>2. CASE i = 0
    BY <1>3, <1>4, <2>2 DEF Node, fSentinel
  <2>3. CASE i = L
    BY <1>3, <1>4, <2>3 DEF Node, fSentinel
  <2>. QED
    BY <1>4, <2>1, <2>2, <2>3
<1>6. /\ q.fNext \in [T \cup {0} -> T \cup {0, nullptr}]
      /\ q.fPrev \in [T \cup {0} -> T \cup {0, nullptr}]
      /\ q.members = {s[i] : i \in 1 .. L} /\ q.fLength = L
      /\ \A i \in 0 .. L : q.fPrev[Node(s, i)] = Node(s, i + 1) /\ q.fNext[Node(s, i + 1)] = Node(s, i)
  BY <1>2 DEF Ring, fSentinel
<1>7. PICK t : t = s[k]
  OBVIOUS
<1>8. t \in q.members /\ t \in T
  BY <1>3, <1>4, <1>6, <1>7
<1>9. q.fPrev[t] = Node(s, k + 1) /\ q.fNext[t] = Node(s, k - 1)
  <2>1. k \in 0 .. L /\ k - 1 \in 0 .. L /\ (k - 1) + 1 = k
    BY <1>4
  <2>. QED
    BY <1>3, <1>4, <1>6, <1>7, <2>1
<1>10. PICK a, b : a = Node(s, k + 1) /\ b = Node(s, k - 1)
  OBVIOUS
<1>11. a \in T \cup {0} /\ b \in T \cup {0}
  BY <1>3, <1>4, <1>10
<1>12. PICK e : e = QueueRemove(q, t)
  OBVIOUS
<1>13. /\ e.fNext = [q.fNext EXCEPT ![a] = b]
       /\ e.fPrev = [q.fPrev EXCEPT ![b] = a]
       /\ e.members = q.members \ {t} /\ e.fLength = q.fLength - 1
  BY <1>8, <1>9, <1>10, <1>12 DEF QueueRemove, IsMember
<1>14. /\ e.fNext \in [T \cup {0} -> T \cup {0, nullptr}]
       /\ e.fPrev \in [T \cup {0} -> T \cup {0, nullptr}]
  BY <1>6, <1>11, <1>13
<1>15. ASSUME NEW i \in 0 .. L - 1 PROVE e.fPrev[Node(r, i)] = Node(r, i + 1) /\ e.fNext[Node(r, i + 1)] = Node(r, i)
  <2>1. e.fPrev[b] = a /\ \A x \in T \cup {0} : x # b => e.fPrev[x] = q.fPrev[x]
    BY <1>6, <1>11, <1>13
  <2>2. e.fNext[a] = b /\ \A x \in T \cup {0} : x # a => e.fNext[x] = q.fNext[x]
    BY <1>6, <1>11, <1>13
  <2>3. i \in 0 .. L /\ i + 1 \in 0 .. L /\ i + 1 \in 1 .. L + 1 /\ k + 1 \in 1 .. L + 1 /\ k - 1 \in 0 .. L
    BY <1>4
  <2>4. CASE i = k - 1
    <3>1. Node(r, i) = b /\ Node(r, i + 1) = a
      BY <1>4, <1>5, <1>10, <2>3, <2>4
    <3>. QED
      BY <2>1, <2>2, <3>1
  <2>5. CASE i < k - 1
    <3>1. Node(r, i) = Node(s, i) /\ Node(r, i + 1) = Node(s, i + 1)
      BY <1>4, <1>5, <2>3, <2>5
    <3>2. Node(s, i) # b
      BY <1>3, <1>4, <1>10, <2>3, <2>5
    <3>3. Node(s, i + 1) # a
      BY <1>3, <1>4, <1>10, <2>3, <2>5
    <3>4. q.fPrev[Node(s, i)] = Node(s, i + 1) /\ q.fNext[Node(s, i + 1)] = Node(s, i)
      BY <1>6, <2>3
    <3>5. Node(s, i) \in T \cup {0} /\ Node(s, i + 1) \in T \cup {0}
      BY <1>3, <2>3
    <3>. QED
      BY <2>1, <2>2, <3>1, <3>2, <3>3, <3>4, <3>5
  <2>6. CASE i > k - 1
    <3>0. i + 1 \in 1 .. L /\ i + 2 \in 1 .. L + 1 /\ i + 1 \in 0 .. L
      BY <1>4
    <3>1. Node(r, i) = Node(s, i + 1) /\ Node(r, i + 1) = Node(s, i + 2)
      BY <1>4, <1>5, <2>3, <2>6
    <3>2. Node(s, i + 1) # b
      BY <1>3, <1>4, <1>10, <2>3, <2>6, <3>0
    <3>3. Node(s, i + 2) # a
      BY <1>3, <1>4, <1>10, <2>3, <2>6, <3>0
    <3>4. q.fPrev[Node(s, i + 1)] = Node(s, i + 2) /\ q.fNext[Node(s, i + 2)] = Node(s, i + 1)
      <4>1. PICK j \in 0 .. L : j = i + 1
        BY <3>0
      <4>2. q.fPrev[Node(s, j)] = Node(s, j + 1) /\ q.fNext[Node(s, j + 1)] = Node(s, j) /\ j + 1 = i + 2
        BY <1>6, <4>1
      <4>. QED
        BY <4>1, <4>2
    <3>5. Node(s, i + 1) \in T \cup {0} /\ Node(s, i + 2) \in T \cup {0}
      BY <1>3, <3>0
    <3>. QED
      BY <2>1, <2>2, <3>1, <3>2, <3>3, <3>4, <3>5
  <2>. QED
    BY <1>4, <2>3, <2>4, <2>5, <2>6
<1>16. Distinct(r)
  <2>1. SUFFICES ASSUME NEW i \in 1 .. L - 1, NEW j \in 1 .. L - 1, r[i] = r[j] PROVE i = j
    BY <1>4 DEF Distinct
  <2>2. PICK x \in 1 .. L : x = IF i < k THEN i ELSE i + 1
    BY <1>4
  <2>3. PICK y \in 1 .. L : y = IF j < k THEN j ELSE j + 1
    BY <1>4
  <2>4. r[i] = s[x] /\ r[j] = s[y]
    BY <1>4, <2>2, <2>3
  <2>5. x = y
    BY <1>1, <1>2, <2>1, <2>4 DEF Distinct
  <2>. QED
    BY <1>4, <2>2, <2>3, <2>5
<1>17. e.members = {r[i] : i \in 1 .. L - 1}
  <2>1. ASSUME NEW x PROVE (\E i \in 1 .. L - 1 : x = r[i]) <=> ((\E i \in 1 .. L : x = s[i]) /\ x # t)
    <3>1. ASSUME NEW i \in 1 .. L - 1, x = r[i] PROVE (\E j \in 1 .. L : x = s[j]) /\ x # t
      <4>1. PICK j \in 1 .. L : j = IF i < k THEN i ELSE i + 1
        BY <1>4
      <4>2. x = s[j] /\ j # k
        BY <1>4, <3>1, <4>1
      <4>. QED
        BY <1>1, <1>2, <1>4, <1>7, <4>2 DEF Distinct
    <3>2. ASSUME NEW i \in 1 .. L, x = s[i], x # t PROVE \E j \in 1 .. L - 1 : x = r[j]
      <4>1. i # k
        BY <1>7, <3>2
      <4>2. PICK j \in 1 .. L - 1 : i = IF j < k THEN j ELSE j + 1
        <5>1. CASE i < k
          BY <1>4, <5>1
        <5>2. CASE i > k
          <6>1. i - 1 \in 1 .. L - 1 /\ ~(i - 1 < k) /\ i = (i - 1) + 1
            BY <1>4, <5>2
          <6>. QED
            BY <6>1
        <5>. QED
          BY <1>4, <4>1, <5>1, <5>2
      <4>3. x = r[j]
        BY <1>4, <3>2, <4>2
      <4>. QED
        BY <4>3
    <3>. QED
      BY <3>1, <3>2
  <2>2. \A x : x \in e.members <=> (\E i \in 1 .. L : x = s[i]) /\ x # t
    BY <1>6, <1>13
  <2>3. \A x : x \in e.members <=> x \in {r[i] : i \in 1 .. L - 1}
    BY ONLY <2>1, <2>2, Zenon
  <2>. QED
    BY <2>3, Zenon
<1>18. e.fLength = L - 1
  BY <1>6, <1>13
<1>. QED
  BY <1>4, <1>7, <1>12, <1>14, <1>15, <1>16, <1>17, <1>18 DEF Ring, fSentinel

\* The iterator goes through the list.
LEMMA RingLists ==
    ASSUME NEW T, T \subseteq Nat \ {0}, NEW q, NEW s, Ring(q, s, T)
    PROVE  Lists(q, s)
<1>1. s \in Seq(T) /\ Distinct(s)
  BY DEF Ring
<1>2. PICK L \in Nat : L = Len(s) /\ DOMAIN s = 1 .. L
  BY <1>1, LenProperties
<1>3. /\ Node(s, 0) = 0 /\ Node(s, L + 1) = 0
      /\ \A i \in 1 .. L : Node(s, i) = s[i] /\ s[i] \in T
  <2>1. RingNodes(s, T, L)
    BY <1>1, <1>2, NodesDiffer
  <2>. QED
    BY <2>1 DEF RingNodes
<1>4. /\ q.fLength = L
      /\ \A i \in 0 .. L : q.fPrev[Node(s, i)] = Node(s, i + 1) /\ q.fNext[Node(s, i + 1)] = Node(s, i)
  BY <1>2 DEF Ring
<1>5. GetHead(q) = IF L = 0 THEN nullptr ELSE s[1]
  <2>1. q.fPrev[0] = Node(s, 1)
    BY <1>3, <1>4
  <2>2. L # 0 => Node(s, 1) = s[1] /\ L > 0
    BY <1>3
  <2>. QED
    BY <1>4, <2>1, <2>2 DEF GetHead, fSentinel
<1>6. s = <<>> <=> L = 0
  BY <1>1, <1>2, EmptySeq
<1>7. ASSUME NEW i \in 1 .. L PROVE IterNext(q, s[i]) = IF i = L THEN nullptr ELSE s[i + 1]
  <2>1. q.fNext[0] = s[L] /\ L > 0
    BY <1>3, <1>4
  <2>2. GetTail(q) = s[L]
    BY <1>4, <2>1 DEF GetTail, fSentinel
  <2>3. i # L => s[i] # s[L] /\ i + 1 \in 1 .. L
    BY <1>1, <1>2 DEF Distinct
  <2>4. q.fPrev[s[i]] = Node(s, i + 1)
    BY <1>3, <1>4
  <2>. QED
    BY <1>3, <2>2, <2>3, <2>4 DEF IterNext
<1>. QED
  BY <1>2, <1>4, <1>5, <1>6, <1>7 DEF Lists

----------------------------------------------------------------------------
(* TimeoutTasks: the sleeping time *)

\* What n turns of the loop can add to the interval.
Slack(n) == n * (Second - 1)

\* The longest sleep.
Longest == kInterval + Slack(NumTimeouts)

\* Run() has gone through the first p - 1 elements of the list.
Place(p) == scan.current = IF p <= Len(registered) THEN registered[p] ELSE nullptr

\* Nothing that Run() has looked at is late, and what it let wait will be no later
\* than the rest of its turns can make it.
OnTime(p) ==
    /\ scan.interval + Slack(Len(registered) + 1 - p) <= Longest
    /\ \A i \in 1 .. p - 1 :
          /\ late[registered[i]] = 0
          /\ registered[i] \in seen =>
                scan.interval + Slack(Len(registered) + 1 - p) <= fTimeoutAtThisTime[registered[i]] + 1 + Slack(NumTimeouts)
    /\ \A i \in p .. Len(registered) :
          late[registered[i]] <= Slack(NumTimeouts) + (IF registered[i] \in seen THEN 1 ELSE kInterval)

\* Each timeout is served in time if Run() is called in wake ticks.
Asleep ==
    /\ wake \in 0 .. Longest
    /\ \A t \in constructed : late[t] + wake <= Longest
    /\ \A t \in seen : late[t] + wake <= fTimeoutAtThisTime[t] + 1 + Slack(NumTimeouts)

TimeInv ==
    IF scan.running THEN \E p \in 1 .. Len(registered) + 1 : Place(p) /\ (~killed => OnTime(p))
    ELSE scan.current = nullptr /\ (~killed => Asleep)

TimeTypeOK ==
    /\ fTimeoutAtThisTime \in [Timeouts -> Nat \cup {Never}]
    /\ fTimeoutInMilSecs \in [Timeouts -> Nat] /\ late \in [Timeouts -> Nat]
    /\ fTask \in [Timeouts -> BOOLEAN]
    /\ scan.interval \in Nat
    /\ scan = [current |-> scan.current, interval |-> scan.interval, running |-> scan.running]

QueueInv ==
    /\ Ring(timeouts, registered, Timeouts)
    /\ constructed = timeouts.members /\ Cardinality(constructed) = Len(registered)

\* Only a timeout that is due and has a task is late, and only one that is set is
\* waited for.
LateInv ==
    /\ \A t \in Timeouts : late[t] # 0 => fTimeoutAtThisTime[t] = 0 /\ fTask[t]
    /\ seen \subseteq constructed /\ \A t \in seen : fTimeoutAtThisTime[t] \in Nat
    /\ setting \subseteq constructed

TimeoutInv == TimeTypeOK /\ QueueInv /\ LateInv /\ TimeInv

LEMMA Slacks ==
    /\ \A n \in Nat : Slack(n) \in Nat /\ Slack(n + 1) = Slack(n) + Second - 1
    /\ Slack(0) = 0
    /\ \A m, n \in Nat : m <= n => Slack(m) <= Slack(n)
    /\ Second \in Nat /\ kInterval \in Nat /\ NumTimeouts \in Nat /\ Longest \in Nat
<1>1. PICK d \in Nat : d = Second - 1
  BY TimeoutAssumption
<1>2. \A n \in Nat : n * d \in Nat /\ (n + 1) * d = n * d + d
  OBVIOUS
<1>3. ASSUME NEW m \in Nat, NEW n \in Nat, m <= n PROVE m * d <= n * d
  <2>1. PICK k \in Nat : n = m + k
    BY <1>3
  <2>2. (m + k) * d = m * d + k * d /\ k * d \in Nat /\ m * d \in Nat
    OBVIOUS
  <2>. QED
    BY <2>1, <2>2
<1>4. \A n : Slack(n) = n * d
  BY <1>1 DEF Slack
<1>5. Second \in Nat /\ kInterval \in Nat /\ NumTimeouts \in Nat
  BY TimeoutAssumption
<1>6. \A n \in Nat : Slack(n) \in Nat /\ Slack(n + 1) = Slack(n) + Second - 1
  <2>1. \A n \in Nat : Slack(n) \in Nat /\ Slack(n + 1) = Slack(n) + d
    BY <1>2, <1>4
  <2>. QED
    BY <1>1, <1>5, <2>1
<1>7. Slack(0) = 0
  BY <1>4
<1>8. \A m, n \in Nat : m <= n => Slack(m) <= Slack(n)
  BY <1>3, <1>4
<1>9. Longest \in Nat
  BY <1>5, <1>6 DEF Longest
<1>. QED
  BY <1>5, <1>6, <1>7, <1>8, <1>9

\* What the queue says of the list.
LEMMA QueueFacts ==
    ASSUME QueueInv
    PROVE  /\ registered \in Seq(Timeouts) /\ Distinct(registered) /\ Lists(timeouts, registered)
           /\ Len(registered) \in Nat /\ Len(registered) <= NumTimeouts /\ constructed \subseteq Timeouts
           /\ \A i \in 1 .. Len(registered) : registered[i] \in constructed
           /\ \A t \in constructed : \E i \in 1 .. Len(registered) : registered[i] = t
<1>0. Timeouts \subseteq Nat \ {0} /\ IsFiniteSet(Timeouts) /\ Cardinality(Timeouts) = NumTimeouts
  <2>1. NumTimeouts \in Nat /\ Timeouts = 1 .. NumTimeouts
    BY Slacks DEF Timeouts
  <2>2. IsFiniteSet(1 .. NumTimeouts) /\ Cardinality(1 .. NumTimeouts) = NumTimeouts
    BY <2>1, FS_Interval
  <2>. QED
    BY <2>1, <2>2
<1>1. registered \in Seq(Timeouts) /\ Distinct(registered) /\ constructed = {registered[i] : i \in 1 .. Len(registered)}
  BY DEF QueueInv, Ring
<1>2. Lists(timeouts, registered)
  BY <1>0, RingLists DEF QueueInv
<1>3. Len(registered) \in Nat /\ \A i \in 1 .. Len(registered) : registered[i] \in Timeouts
  BY <1>1, LenProperties, ElementOfSeq
<1>4. constructed \subseteq Timeouts
  BY <1>1, <1>3
<1>5. Cardinality(constructed) <= NumTimeouts
  BY <1>0, <1>4, FS_Subset
<1>. QED
  BY <1>1, <1>2, <1>3, <1>4, <1>5 DEF QueueInv

LEMMA TimeoutInvInit == TimeoutInit => TimeoutInv
<1>1. SUFFICES ASSUME TimeoutInit PROVE TimeoutInv
  OBVIOUS
<1>2. TimeTypeOK
  BY <1>1 DEF TimeoutInit, TimeTypeOK, NoScan
<1>3. QueueInv
  <2>1. registered = <<>> /\ constructed = {} /\ timeouts = NewQueue(Timeouts)
    BY <1>1 DEF TimeoutInit
  <2>2. Len(<<>>) = 0 /\ <<>> \in Seq(Timeouts)
    OBVIOUS
  <2>3. Cardinality({}) = 0
    BY FS_EmptySet
  <2>4. /\ timeouts.fNext = [e \in Timeouts \cup {0} |-> IF e = 0 THEN 0 ELSE nullptr]
        /\ timeouts.fPrev = [e \in Timeouts \cup {0} |-> IF e = 0 THEN 0 ELSE nullptr]
        /\ timeouts.members = {} /\ timeouts.fLength = 0
    BY <2>1 DEF NewQueue, fSentinel
  <2>5. Node(<<>>, 0) = 0 /\ Node(<<>>, 1) = 0
    BY <2>2 DEF Node, fSentinel
  <2>6. Ring(timeouts, <<>>, Timeouts)
    <3>1. Distinct(<<>>) /\ {} = {<<>>[i] : i \in 1 .. Len(<<>>)}
      BY <2>2 DEF Distinct
    <3>2. \A i \in 0 .. Len(<<>>) : timeouts.fPrev[Node(<<>>, i)] = Node(<<>>, i + 1) /\ timeouts.fNext[Node(<<>>, i + 1)] = Node(<<>>, i)
      BY <2>2, <2>4, <2>5
    <3>. QED
      BY <2>2, <2>4, <3>1, <3>2 DEF Ring, fSentinel
  <2>. QED
    BY <2>1, <2>2, <2>3, <2>4, <2>6 DEF QueueInv
<1>4. LateInv
  BY <1>1 DEF TimeoutInit, LateInv
<1>5. TimeInv
  BY <1>1, Slacks DEF TimeoutInit, TimeInv, NoScan, Asleep
<1>. QED
  BY <1>2, <1>3, <1>4, <1>5 DEF TimeoutInv

\* A timeout that is set anew, or a task that is set, delays nobody.
LEMMA RenewedStep ==
    ASSUME TimeoutInv, NEW t \in Timeouts, NEW v \in Nat \cup {Never},
           UNCHANGED <<constructed, timeouts, scan, wake, killed, registered, fTask>>,
           setting' \subseteq constructed, fTimeoutInMilSecs' \in [Timeouts -> Nat],
           fTimeoutAtThisTime' = [fTimeoutAtThisTime EXCEPT ![t] = v], Renewed(t)
    PROVE  TimeoutInv'
<1>1. /\ late' = [late EXCEPT ![t] = 0] /\ seen' = seen \ {t}
      /\ late \in [Timeouts -> Nat] /\ fTimeoutAtThisTime \in [Timeouts -> Nat \cup {Never}]
  BY DEF Renewed, TimeoutInv, TimeTypeOK
<1>2. TimeTypeOK'
  BY <1>1 DEF TimeoutInv, TimeTypeOK
<1>3. QueueInv'
  BY DEF TimeoutInv, QueueInv
<1>4. /\ \A u \in Timeouts : late'[u] <= late[u] /\ late'[u] \in Nat /\ late[u] \in Nat /\ (late[u] = 0 => late'[u] = 0)
      /\ \A u \in Timeouts : u # t => late'[u] = late[u] /\ fTimeoutAtThisTime'[u] = fTimeoutAtThisTime[u]
      /\ late'[t] = 0 /\ t \notin seen' /\ \A u : u \in seen' <=> u \in seen /\ u # t
  BY <1>1
<1>5. LateInv'
  <2>1. constructed \subseteq Timeouts
    BY QueueFacts DEF TimeoutInv
  <2>2. /\ \A u \in Timeouts : late[u] # 0 => fTimeoutAtThisTime[u] = 0 /\ fTask[u]
        /\ seen \subseteq constructed /\ \A u \in seen : fTimeoutAtThisTime[u] \in Nat
    BY DEF TimeoutInv, LateInv
  <2>. QED
    BY <1>4, <2>1, <2>2 DEF LateInv
<1>6. TimeInv'
  <2>0. /\ Slack(NumTimeouts) \in Nat /\ kInterval \in Nat /\ constructed \subseteq Timeouts /\ seen \subseteq constructed
        /\ Longest \in Nat /\ Len(registered) \in Nat
        /\ \A i \in 1 .. Len(registered) : registered[i] \in Timeouts
    BY Slacks, QueueFacts DEF TimeoutInv, LateInv
  <2>1. ASSUME NEW p \in 1 .. Len(registered) + 1, OnTime(p) PROVE OnTime(p)'
    <3>1. scan.interval + Slack(Len(registered) + 1 - p) <= Longest
      BY <2>1 DEF OnTime
    <3>2. ASSUME NEW i \in 1 .. p - 1
          PROVE  /\ late'[registered[i]] = 0
                 /\ registered[i] \in seen' =>
                       scan.interval + Slack(Len(registered) + 1 - p) <= fTimeoutAtThisTime'[registered[i]] + 1 + Slack(NumTimeouts)
      <4>1. PICK u \in Timeouts : u = registered[i]
        BY <2>0
      <4>2. late[u] = 0 /\ (u \in seen => scan.interval + Slack(Len(registered) + 1 - p) <= fTimeoutAtThisTime[u] + 1 + Slack(NumTimeouts))
        BY <2>1, <4>1 DEF OnTime
      <4>. QED
        BY <1>4, <4>1, <4>2
    <3>3. ASSUME NEW i \in p .. Len(registered)
          PROVE  late'[registered[i]] <= Slack(NumTimeouts) + (IF registered[i] \in seen' THEN 1 ELSE kInterval)
      <4>1. PICK u \in Timeouts : u = registered[i]
        BY <2>0
      <4>2. late[u] <= Slack(NumTimeouts) + (IF u \in seen THEN 1 ELSE kInterval)
        BY <2>1, <4>1 DEF OnTime
      <4>3. CASE u = t
        BY <1>4, <2>0, <4>1, <4>3
      <4>4. CASE u # t
        BY <1>4, <4>1, <4>2, <4>4
      <4>. QED
        BY <4>3, <4>4
    <3>. QED
      BY <3>1, <3>2, <3>3 DEF OnTime, Slack, Longest
  <2>2. ASSUME Asleep PROVE Asleep'
    <3>1. wake \in 0 .. Longest /\ wake \in Nat
      BY <2>2, <2>0 DEF Asleep
    <3>2. ASSUME NEW u \in constructed PROVE late'[u] + wake <= Longest
      <4>1. late[u] + wake <= Longest /\ u \in Timeouts
        BY <2>0, <2>2 DEF Asleep
      <4>. QED
        BY <1>4, <2>0, <3>1, <4>1
    <3>3. ASSUME NEW u \in seen' PROVE late'[u] + wake <= fTimeoutAtThisTime'[u] + 1 + Slack(NumTimeouts)
      <4>1. u \in seen /\ u \in Timeouts /\ u # t
        BY <1>4, <2>0, <3>3
      <4>2. late[u] + wake <= fTimeoutAtThisTime[u] + 1 + Slack(NumTimeouts)
        BY <2>2, <4>1 DEF Asleep
      <4>. QED
        BY <1>4, <4>1, <4>2
    <3>. QED
      BY <3>1, <3>2, <3>3 DEF Asleep, Slack, Longest
  <2>. QED
    BY <2>1, <2>2 DEF TimeoutInv, TimeInv, Place
<1>. QED
  BY <1>2, <1>3, <1>5, <1>6 DEF TimeoutInv

\* SetTask() and the first half of SetTimeout() change nothing that is measured.
LEMMA QuietStep ==
    ASSUME TimeoutInv, setting' \subseteq constructed, fTimeoutInMilSecs' \in [Timeouts -> Nat],
           fTask' \in [Timeouts -> BOOLEAN], \A t \in Timeouts : fTask[t] => fTask'[t],
           UNCHANGED <<constructed, timeouts, scan, wake, killed, registered, late, seen, fTimeoutAtThisTime>>
    PROVE  TimeoutInv'
<1>1. TimeTypeOK' /\ QueueInv'
  BY DEF TimeoutInv, TimeTypeOK, QueueInv
<1>2. LateInv'
  BY DEF TimeoutInv, LateInv
<1>3. TimeInv'
  <2>1. \A p : OnTime(p)' <=> OnTime(p)
    BY DEF OnTime, Slack, Longest
  <2>2. Asleep' <=> Asleep
    BY DEF Asleep, Slack, Longest
  <2>. QED
    BY <2>1, <2>2 DEF TimeoutInv, TimeInv, Place
<1>. QED
  BY <1>1, <1>2, <1>3 DEF TimeoutInv

LEMMA SettersStep ==
    ASSUME TimeoutInv, NEW t \in Timeouts
    PROVE  /\ SetTask(t) => TimeoutInv'
           /\ SetTimeout(t) => TimeoutInv'
           /\ SetTimeoutEnds(t) => TimeoutInv'
           /\ RefreshTimeout(t) => TimeoutInv'
<1>1. setting \subseteq constructed
  BY DEF TimeoutInv, LateInv
<1>2. ASSUME SetTask(t) PROVE TimeoutInv'
  <2>1. /\ fTimeoutInMilSecs' \in [Timeouts -> Nat] /\ setting' \subseteq constructed
        /\ UNCHANGED <<constructed, timeouts, scan, wake, killed, registered, late, seen, fTimeoutAtThisTime>>
    BY <1>1, <1>2 DEF SetTask, TimeoutInv, TimeTypeOK
  <2>2. fTask \in [Timeouts -> BOOLEAN] /\ fTask' = [fTask EXCEPT ![t] = TRUE]
    BY <1>2, Zenon DEF SetTask, TimeoutInv, TimeTypeOK
  <2>3. fTask' \in [Timeouts -> BOOLEAN]
    BY <2>2, Zenon
  <2>4. \A u \in Timeouts : fTask[u] => fTask'[u]
    BY <2>2, Zenon
  <2>. QED
    BY <2>1, <2>3, <2>4, QuietStep
<1>3. ASSUME SetTimeout(t) PROVE TimeoutInv'
  <2>1. /\ fTimeoutInMilSecs' \in [Timeouts -> Nat] /\ setting' \subseteq constructed
        /\ UNCHANGED <<fTask, constructed, timeouts, scan, wake, killed, registered, late, seen, fTimeoutAtThisTime>>
    BY <1>1, <1>3, TimeoutAssumption DEF SetTimeout, TimeoutInv, TimeTypeOK
  <2>2. fTask' \in [Timeouts -> BOOLEAN] /\ \A u \in Timeouts : fTask[u] => fTask'[u]
    BY <2>1, Zenon DEF TimeoutInv, TimeTypeOK
  <2>. QED
    BY <2>1, <2>2, QuietStep
<1>4. fTimeoutInMilSecs[t] \in Nat
  BY DEF TimeoutInv, TimeTypeOK
<1>5. ASSUME SetTimeoutEnds(t) PROVE TimeoutInv'
  <2>1. PICK v \in Nat \cup {Never} : v = From(fTimeoutInMilSecs[t])
    BY <1>4 DEF From
  <2>2. /\ UNCHANGED <<constructed, timeouts, scan, wake, killed, registered, fTask>>
        /\ setting' \subseteq constructed /\ fTimeoutInMilSecs' \in [Timeouts -> Nat]
        /\ fTimeoutAtThisTime' = [fTimeoutAtThisTime EXCEPT ![t] = v] /\ Renewed(t)
    BY <1>1, <1>5, <2>1 DEF SetTimeoutEnds, TimeoutInv, TimeTypeOK
  <2>. QED
    BY <2>2, RenewedStep
<1>6. ASSUME RefreshTimeout(t) PROVE TimeoutInv'
  <2>1. PICK v \in Nat \cup {Never} : v = fTimeoutInMilSecs[t]
    BY <1>4
  <2>2. /\ UNCHANGED <<constructed, timeouts, scan, wake, killed, registered, fTask>>
        /\ setting' \subseteq constructed /\ fTimeoutInMilSecs' \in [Timeouts -> Nat]
        /\ fTimeoutAtThisTime' = [fTimeoutAtThisTime EXCEPT ![t] = v] /\ Renewed(t)
    BY <1>1, <1>6, <2>1 DEF RefreshTimeout, TimeoutInv, TimeTypeOK
  <2>. QED
    BY <2>2, RenewedStep
<1>. QED
  BY <1>2, <1>3, <1>5, <1>6

\* Objects come and go while nobody is in Run().
LEMMA ListedStep ==
    ASSUME TimeoutInv, NEW t \in Timeouts, NEW v \in Nat \cup {Never}, NEW b \in BOOLEAN,
           ~scan.running, UNCHANGED <<scan, wake, killed, setting>>, QueueInv',
           constructed' \subseteq constructed \cup {t}, constructed \ {t} \subseteq constructed', setting \subseteq constructed',
           fTimeoutInMilSecs' \in [Timeouts -> Nat], fTask' = [fTask EXCEPT ![t] = b],
           fTimeoutAtThisTime' = [fTimeoutAtThisTime EXCEPT ![t] = v], Renewed(t)
    PROVE  TimeoutInv'
<1>1. /\ late' = [late EXCEPT ![t] = 0] /\ seen' = seen \ {t}
      /\ late \in [Timeouts -> Nat] /\ fTimeoutAtThisTime \in [Timeouts -> Nat \cup {Never}]
  BY DEF Renewed, TimeoutInv, TimeTypeOK
<1>2. fTask \in [Timeouts -> BOOLEAN] /\ fTask' \in [Timeouts -> BOOLEAN]
  BY Zenon DEF TimeoutInv, TimeTypeOK
<1>3. TimeTypeOK'
  BY <1>1, <1>2 DEF TimeoutInv, TimeTypeOK
<1>4. /\ \A u \in Timeouts : late'[u] \in Nat /\ late[u] \in Nat
      /\ \A u \in Timeouts : u # t => late'[u] = late[u] /\ fTimeoutAtThisTime'[u] = fTimeoutAtThisTime[u]
      /\ late'[t] = 0 /\ t \notin seen' /\ \A u : u \in seen' <=> u \in seen /\ u # t
  BY <1>1
<1>5. \A u \in Timeouts : u # t => (fTask'[u] <=> fTask[u])
  BY <1>2, Zenon
<1>6. /\ Slack(NumTimeouts) \in Nat /\ constructed \subseteq Timeouts /\ seen \subseteq constructed /\ Longest \in Nat
  BY Slacks, QueueFacts DEF TimeoutInv, LateInv
<1>7. LateInv'
  <2>1. /\ \A u \in Timeouts : late[u] # 0 => fTimeoutAtThisTime[u] = 0 /\ fTask[u]
        /\ seen \subseteq constructed /\ \A u \in seen : fTimeoutAtThisTime[u] \in Nat
    BY DEF TimeoutInv, LateInv
  <2>2. ASSUME NEW u \in Timeouts, late'[u] # 0 PROVE fTimeoutAtThisTime'[u] = 0 /\ fTask'[u]
    BY <1>4, <1>5, <2>1, <2>2
  <2>3. ASSUME NEW u \in seen' PROVE fTimeoutAtThisTime'[u] \in Nat /\ u \in constructed'
    BY <1>4, <1>6, <2>1
  <2>. QED
    BY <2>2, <2>3 DEF LateInv
<1>8. TimeInv'
  <2>1. ASSUME Asleep PROVE Asleep'
    <3>1. wake \in 0 .. Longest /\ wake \in Nat
      BY <2>1, <1>6 DEF Asleep
    <3>2. ASSUME NEW u \in constructed' PROVE late'[u] + wake <= Longest
      <4>1. CASE u = t
        BY <1>4, <1>6, <3>1, <4>1
      <4>2. CASE u # t
        <5>1. u \in constructed /\ u \in Timeouts
          BY <1>6, <4>2
        <5>2. late[u] + wake <= Longest
          BY <2>1, <5>1 DEF Asleep
        <5>. QED
          BY <1>4, <4>2, <5>1, <5>2
      <4>. QED
        BY <4>1, <4>2
    <3>3. ASSUME NEW u \in seen' PROVE late'[u] + wake <= fTimeoutAtThisTime'[u] + 1 + Slack(NumTimeouts)
      <4>1. u \in seen /\ u \in Timeouts /\ u # t
        BY <1>4, <1>6, <3>3
      <4>2. late[u] + wake <= fTimeoutAtThisTime[u] + 1 + Slack(NumTimeouts)
        BY <2>1, <4>1 DEF Asleep
      <4>. QED
        BY <1>4, <4>1, <4>2
    <3>. QED
      BY <3>1, <3>2, <3>3 DEF Asleep, Slack, Longest
  <2>. QED
    BY <2>1 DEF TimeoutInv, TimeInv
<1>. QED
  BY <1>3, <1>7, <1>8 DEF TimeoutInv

LEMMA ConstructStep ==
    ASSUME TimeoutInv, NEW t \in Timeouts, Construct(t)
    PROVE  TimeoutInv'
<1>1. PICK v \in Nat \cup {Never} : fTimeoutAtThisTime' = [fTimeoutAtThisTime EXCEPT ![t] = v]
  BY TimeoutAssumption DEF Construct, From
<1>2. fTimeoutInMilSecs' \in [Timeouts -> Nat]
  BY TimeoutAssumption DEF Construct, TimeoutInv, TimeTypeOK
<1>3. PICK b \in BOOLEAN : fTask' = [fTask EXCEPT ![t] = b]
  BY Zenon DEF Construct
<1>4. /\ t \notin constructed /\ ~scan.running /\ UNCHANGED <<scan, wake, killed, setting>>
      /\ timeouts' = EnQueue(timeouts, t) /\ constructed' = constructed \cup {t}
      /\ registered' = Append(registered, t) /\ Renewed(t)
  BY DEF Construct
<1>5. QueueInv'
  <2>1. Ring(timeouts, registered, Timeouts) /\ constructed = timeouts.members /\ Timeouts \subseteq Nat \ {0}
    BY Slacks DEF TimeoutInv, QueueInv, Timeouts
  <2>2. Ring(timeouts', registered', Timeouts)
    BY <1>4, <2>1, EnQueueRing
  <2>3. timeouts'.members = constructed'
    BY <1>4, <2>1 DEF EnQueue, IsMember
  <2>4. Cardinality(constructed') = Len(registered')
    <3>1. constructed \subseteq 1 .. NumTimeouts /\ registered \in Seq(Timeouts) /\ Cardinality(constructed) = Len(registered)
      BY QueueFacts DEF TimeoutInv, QueueInv, Timeouts
    <3>2. IsFiniteSet(constructed)
      <4>1. IsFiniteSet(1 .. NumTimeouts)
        BY Slacks, FS_Interval
      <4>. QED
        BY <3>1, <4>1, FS_Subset
    <3>3. Cardinality(constructed') = Cardinality(constructed) + 1
      BY <1>4, <3>2, FS_AddElement
    <3>4. Len(registered') = Len(registered) + 1
      BY <1>4, <3>1, AppendProperties
    <3>. QED
      BY <3>1, <3>3, <3>4
  <2>. QED
    BY <2>2, <2>3, <2>4 DEF QueueInv, Timeouts
<1>6. setting \subseteq constructed'
  BY <1>4 DEF TimeoutInv, LateInv
<1>. QED
  BY <1>1, <1>2, <1>3, <1>4, <1>5, <1>6, ListedStep

LEMMA DestructStep ==
    ASSUME TimeoutInv, NEW t \in Timeouts, Destruct(t)
    PROVE  TimeoutInv'
<1>1. fTimeoutAtThisTime' = [fTimeoutAtThisTime EXCEPT ![t] = Never]
  BY DEF Destruct, Gone
<1>2. fTimeoutInMilSecs' \in [Timeouts -> Nat]
  BY DEF Destruct, Gone, TimeoutInv, TimeTypeOK
<1>3. fTask' = [fTask EXCEPT ![t] = FALSE]
  BY Zenon DEF Destruct, Gone
<1>4. /\ t \in constructed /\ t \notin setting /\ ~scan.running /\ UNCHANGED <<scan, wake, killed, setting>>
      /\ timeouts' = QueueRemove(timeouts, t) /\ constructed' = constructed \ {t}
      /\ registered' = RemoveFirst(registered, t) /\ Renewed(t)
  BY DEF Destruct, Gone
<1>5. QueueInv'
  <2>1. Ring(timeouts, registered, Timeouts) /\ constructed = timeouts.members /\ Timeouts \subseteq Nat \ {0}
    BY Slacks DEF TimeoutInv, QueueInv, Timeouts
  <2>2. PICK k \in 1 .. Len(registered) : t = registered[k]
    BY <1>4, QueueFacts DEF TimeoutInv
  <2>3. registered \in Seq(Timeouts) /\ Distinct(registered) /\ Len(registered) \in Nat
    BY QueueFacts DEF TimeoutInv
  <2>4. registered' \in Seq(Timeouts) /\ IsWithout(registered', registered, k)
    BY <1>4, <2>2, <2>3, RemoveFirstKeeps DEF IsWithout
  <2>5. Ring(timeouts', registered', Timeouts)
    BY <1>4, <2>1, <2>2, <2>4, RemoveRing
  <2>6. timeouts'.members = constructed'
    BY <1>4, <2>1 DEF QueueRemove, IsMember
  <2>7. Cardinality(constructed') = Len(registered')
    <3>1. constructed \subseteq 1 .. NumTimeouts /\ Cardinality(constructed) = Len(registered)
      BY QueueFacts DEF TimeoutInv, QueueInv, Timeouts
    <3>2. IsFiniteSet(constructed)
      <4>1. IsFiniteSet(1 .. NumTimeouts)
        BY Slacks, FS_Interval
      <4>. QED
        BY <3>1, <4>1, FS_Subset
    <3>3. Cardinality(constructed') = Cardinality(constructed) - 1
      BY <1>4, <3>2, FS_RemoveElement
    <3>4. Len(registered') = Len(registered) - 1
      BY <2>4 DEF IsWithout
    <3>. QED
      BY <3>1, <3>3, <3>4
  <2>. QED
    BY <2>5, <2>6, <2>7 DEF QueueInv, Timeouts
<1>6. setting \subseteq constructed'
  BY <1>4 DEF TimeoutInv, LateInv
<1>7. Never \in Nat \cup {Never} /\ FALSE \in BOOLEAN
  OBVIOUS
<1>8. constructed' \subseteq constructed \cup {t} /\ constructed \ {t} \subseteq constructed'
  BY <1>4
<1>. QED
  BY <1>1, <1>2, <1>3, <1>4, <1>5, <1>6, <1>7, <1>8, ListedStep

LEMMA RunBeginsStep ==
    ASSUME TimeoutInv, RunBegins
    PROVE  TimeoutInv'
<1>1. /\ wake = 0 /\ ~scan.running
      /\ UNCHANGED <<fTimeoutAtThisTime, fTimeoutInMilSecs, fTask, constructed, setting, timeouts, killed, registered, late, seen>>
  BY DEF RunBegins
<1>2. QueueInv' /\ LateInv'
  BY <1>1 DEF TimeoutInv, QueueInv, LateInv
<1>3. CASE killed
  <2>1. scan' = scan
    BY <1>3 DEF RunBegins
  <2>2. TimeTypeOK'
    BY <1>1, <2>1 DEF TimeoutInv, TimeTypeOK
  <2>3. TimeInv'
    BY <1>1, <1>3, <2>1 DEF TimeoutInv, TimeInv
  <2>. QED
    BY <1>2, <2>2, <2>3 DEF TimeoutInv
<1>4. CASE ~killed
  <2>1. scan' = [current |-> GetHead(timeouts), interval |-> kInterval, running |-> TRUE]
    BY <1>4 DEF RunBegins
  <2>2. TimeTypeOK'
    <3>1. scan'.interval \in Nat
      BY <2>1, Slacks
    <3>2. scan' = [current |-> scan'.current, interval |-> scan'.interval, running |-> scan'.running]
      BY <2>1
    <3>. QED
      BY <1>1, <3>1, <3>2 DEF TimeoutInv, TimeTypeOK
  <2>3. PICK L \in Nat : L = Len(registered) /\ L <= NumTimeouts
    BY QueueFacts DEF TimeoutInv
  <2>4. Place(1)'
    <3>1. GetHead(timeouts) = IF registered = <<>> THEN nullptr ELSE registered[1]
      BY QueueFacts DEF TimeoutInv, Lists
    <3>2. registered = <<>> <=> L = 0
      <4>1. registered \in Seq(Timeouts)
        BY QueueFacts DEF TimeoutInv
      <4>. QED
        BY <2>3, <4>1, EmptySeq
    <3>3. scan'.current = GetHead(timeouts)
      BY <2>1
    <3>. QED
      BY <1>1, <2>3, <3>1, <3>2, <3>3 DEF Place
  <2>5. OnTime(1)'
    <3>1. scan'.interval = kInterval
      BY <2>1
    <3>2. L + 1 - 1 = L /\ Slack(L) <= Slack(NumTimeouts) /\ Slack(L) \in Nat /\ Slack(NumTimeouts) \in Nat /\ kInterval \in Nat
      BY <2>3, Slacks
    <3>3. kInterval + Slack(L + 1 - 1) <= Longest
      BY <3>2 DEF Longest
    <3>4. ASSUME NEW i \in 1 .. L
          PROVE  late[registered[i]] <= Slack(NumTimeouts) + (IF registered[i] \in seen THEN 1 ELSE kInterval)
      <4>1. PICK u \in constructed : u = registered[i]
        BY <2>3, QueueFacts DEF TimeoutInv
      <4>2. u \in Timeouts /\ late[u] \in Nat /\ wake = 0 /\ wake \in Nat
        BY <1>1, QueueFacts DEF TimeoutInv, TimeTypeOK
      <4>3. late[u] + wake <= Longest
        BY <1>1, <1>4 DEF TimeoutInv, TimeInv, Asleep
      <4>4. ASSUME u \in seen PROVE late[u] <= Slack(NumTimeouts) + 1
        <5>1. late[u] + wake <= fTimeoutAtThisTime[u] + 1 + Slack(NumTimeouts)
          BY <1>1, <1>4, <4>4 DEF TimeoutInv, TimeInv, Asleep
        <5>2. late[u] # 0 => fTimeoutAtThisTime[u] = 0
          BY <4>2 DEF TimeoutInv, LateInv
        <5>. QED
          BY <3>2, <4>2, <5>1, <5>2
      <4>. QED
        BY <3>2, <4>1, <4>2, <4>3, <4>4 DEF Longest
    <3>. QED
      BY <1>1, <2>3, <3>1, <3>3, <3>4 DEF OnTime, Longest, Slack
  <2>6. TimeInv'
    <3>1. 1 \in 1 .. Len(registered') + 1 /\ scan'.running
      BY <1>1, <2>1, <2>3
    <3>. QED
      BY <2>4, <2>5, <3>1 DEF TimeInv
  <2>. QED
    BY <1>2, <2>2, <2>6 DEF TimeoutInv
<1>. QED
  BY <1>3, <1>4

LEMMA RunEndsStep ==
    ASSUME TimeoutInv, RunEnds
    PROVE  TimeoutInv'
<1>1. /\ scan.running /\ scan.current = nullptr /\ scan' = NoScan /\ wake' = (IF killed THEN 0 ELSE scan.interval)
      /\ UNCHANGED <<fTimeoutAtThisTime, fTimeoutInMilSecs, fTask, constructed, setting, timeouts, killed, registered, late, seen>>
  BY DEF RunEnds
<1>2. QueueInv' /\ LateInv'
  BY <1>1 DEF TimeoutInv, QueueInv, LateInv
<1>3. TimeTypeOK'
  BY <1>1 DEF TimeoutInv, TimeTypeOK, NoScan
<1>4. ASSUME ~killed PROVE Asleep'
  <2>1. PICK L \in Nat : L = Len(registered) /\ \A i \in 1 .. L : registered[i] \in Timeouts
    BY QueueFacts DEF TimeoutInv
  <2>2. PICK p \in 1 .. L + 1 : Place(p) /\ OnTime(p)
    BY <1>1, <1>4, <2>1 DEF TimeoutInv, TimeInv
  <2>3. p = L + 1
    <3>1. ASSUME p <= L PROVE FALSE
      <4>1. registered[p] \in Timeouts /\ nullptr = registered[p]
        BY <1>1, <2>1, <2>2, <3>1 DEF Place
      <4>. QED
        BY <4>1 DEF Timeouts, nullptr
    <3>. QED
      BY <3>1
  <2>4. scan.interval \in Nat /\ Slack(L + 1 - p) = 0
    BY <2>3, Slacks DEF TimeoutInv, TimeTypeOK
  <2>5. /\ scan.interval <= Longest
        /\ \A i \in 1 .. L : /\ late[registered[i]] = 0
                             /\ registered[i] \in seen => scan.interval <= fTimeoutAtThisTime[registered[i]] + 1 + Slack(NumTimeouts)
    <3>1. p - 1 = L
      BY <2>3
    <3>. QED
      BY <2>1, <2>2, <2>4, <3>1 DEF OnTime
  <2>6. wake' = scan.interval
    BY <1>1, <1>4
  <2>7. ASSUME NEW u \in constructed PROVE late[u] + scan.interval <= Longest
    <3>1. PICK i \in 1 .. L : registered[i] = u
      BY <2>1, QueueFacts DEF TimeoutInv
    <3>. QED
      BY <2>4, <2>5, <3>1
  <2>8. ASSUME NEW u \in seen PROVE late[u] + scan.interval <= fTimeoutAtThisTime[u] + 1 + Slack(NumTimeouts)
    <3>1. u \in constructed
      BY DEF TimeoutInv, LateInv
    <3>2. PICK i \in 1 .. L : registered[i] = u
      BY <2>1, <3>1, QueueFacts DEF TimeoutInv
    <3>. QED
      BY <2>4, <2>5, <3>2
  <2>9. scan.interval \in 0 .. Longest
    <3>1. Longest \in Nat
      BY Slacks
    <3>. QED
      BY <2>4, <2>5, <3>1
  <2>. QED
    BY <1>1, <2>6, <2>7, <2>8, <2>9 DEF Asleep, Longest, Slack
<1>5. TimeInv'
  BY <1>1, <1>4 DEF TimeInv, NoScan
<1>. QED
  BY <1>2, <1>3, <1>5 DEF TimeoutInv

LEMMA StopTaskStep ==
    ASSUME TimeoutInv, StopTask
    PROVE  TimeoutInv'
<1>1. TimeTypeOK' /\ QueueInv' /\ LateInv'
  BY DEF StopTask, TimeoutInv, TimeTypeOK, QueueInv, LateInv
<1>2. TimeInv'
  BY DEF StopTask, TimeoutInv, TimeInv, Place
<1>. QED
  BY <1>1, <1>2 DEF TimeoutInv

LEMMA TickStep ==
    ASSUME TimeoutInv, Tick
    PROVE  TimeoutInv'
<1>1. /\ ~scan.running /\ wake # 0 /\ wake # Never /\ wake' = wake - 1
      /\ UNCHANGED <<fTimeoutInMilSecs, fTask, constructed, setting, timeouts, scan, killed, registered, seen>>
  BY DEF Tick
<1>2. /\ late \in [Timeouts -> Nat] /\ fTimeoutAtThisTime \in [Timeouts -> Nat \cup {Never}] /\ Never \notin Nat
      /\ constructed \subseteq Timeouts /\ seen \subseteq constructed
      /\ \A u \in seen : fTimeoutAtThisTime[u] \in Nat
  BY QueueFacts, TimeoutAssumption DEF TimeoutInv, TimeTypeOK, LateInv
<1>3. /\ late' \in [Timeouts -> Nat] /\ fTimeoutAtThisTime' \in [Timeouts -> Nat \cup {Never}]
      /\ \A u \in Timeouts : /\ late'[u] = late[u] \/ (late'[u] = late[u] + 1 /\ fTimeoutAtThisTime[u] = 0 /\ fTask[u])
                             /\ fTimeoutAtThisTime[u] = 0 => fTimeoutAtThisTime'[u] = 0
                             /\ fTimeoutAtThisTime[u] \in Nat /\ fTimeoutAtThisTime[u] # 0 =>
                                   fTimeoutAtThisTime'[u] = fTimeoutAtThisTime[u] - 1
  BY <1>2 DEF Tick, Due
<1>4. TimeTypeOK' /\ QueueInv'
  BY <1>1, <1>3 DEF TimeoutInv, TimeTypeOK, QueueInv
<1>5. \A u \in Timeouts : late[u] # 0 => fTimeoutAtThisTime[u] = 0 /\ fTask[u]
  BY DEF TimeoutInv, LateInv
<1>6. LateInv'
  <2>1. ASSUME NEW u \in Timeouts, late'[u] # 0 PROVE fTimeoutAtThisTime'[u] = 0 /\ fTask'[u]
    BY <1>1, <1>3, <1>5, <2>1
  <2>2. ASSUME NEW u \in seen PROVE fTimeoutAtThisTime'[u] \in Nat
    <3>1. u \in Timeouts /\ fTimeoutAtThisTime[u] \in Nat
      BY <1>2
    <3>. QED
      BY <1>3, <3>1
  <2>. QED
    BY <1>1, <2>1, <2>2 DEF TimeoutInv, LateInv
<1>7. ASSUME ~killed PROVE Asleep'
  <2>1. Asleep
    BY <1>1, <1>7 DEF TimeoutInv, TimeInv
  <2>2. wake \in Nat /\ wake > 0 /\ wake <= Longest /\ Longest \in Nat /\ Slack(NumTimeouts) \in Nat
    <3>1. Longest \in Nat /\ Slack(NumTimeouts) \in Nat
      BY Slacks
    <3>2. wake \in 0 .. Longest
      BY <2>1 DEF Asleep
    <3>. QED
      BY <1>1, <3>1, <3>2
  <2>3. ASSUME NEW u \in constructed PROVE late'[u] + (wake - 1) <= Longest
    <3>1. u \in Timeouts /\ late[u] \in Nat /\ late[u] + wake <= Longest
      BY <1>2, <2>1 DEF Asleep
    <3>. QED
      BY <1>3, <2>2, <3>1
  <2>4. ASSUME NEW u \in seen PROVE late'[u] + (wake - 1) <= fTimeoutAtThisTime'[u] + 1 + Slack(NumTimeouts)
    <3>1. u \in Timeouts /\ late[u] \in Nat /\ fTimeoutAtThisTime[u] \in Nat /\ late[u] + wake <= fTimeoutAtThisTime[u] + 1 + Slack(NumTimeouts)
      BY <1>2, <2>1 DEF Asleep
    <3>. QED
      BY <1>3, <2>2, <3>1
  <2>5. wake - 1 \in 0 .. Longest
    BY <2>2
  <2>. QED
    BY <1>1, <2>3, <2>4, <2>5 DEF Asleep, Longest, Slack
<1>8. TimeInv'
  BY <1>1, <1>7 DEF TimeoutInv, TimeInv
<1>. QED
  BY <1>4, <1>6, <1>8 DEF TimeoutInv

\* One turn of the loop makes the interval longer by less than a second, and at most
\* a second longer than a timeout that is let wait.
LEMMA IntervalGrows ==
    ASSUME TimeTypeOK, NEW t \in Timeouts, NEW x, x = IF Due(t) THEN scan.interval ELSE Interval(scan.interval, t)
    PROVE  /\ x \in Nat /\ x <= scan.interval + Second - 1
           /\ Waits(t) => fTimeoutAtThisTime[t] \in Nat /\ x <= fTimeoutAtThisTime[t] + Second
<1>1. scan.interval \in Nat /\ Second \in Nat \ {0} /\ fTimeoutAtThisTime[t] \in Nat \cup {Never}
  BY TimeoutAssumption DEF TimeTypeOK
<1>2. Waits(t) => fTimeoutAtThisTime[t] \in Nat /\ ~Due(t)
  BY <1>1 DEF Waits
<1>3. CASE ~Due(t) /\ Waits(t) /\ scan.interval > fTimeoutAtThisTime[t]
  <2>1. x = fTimeoutAtThisTime[t] + Second
    BY <1>3 DEF Interval
  <2>. QED
    BY <1>1, <1>2, <1>3, <2>1
<1>4. CASE ~(~Due(t) /\ Waits(t) /\ scan.interval > fTimeoutAtThisTime[t])
  <2>1. x = scan.interval
    BY <1>4 DEF Interval
  <2>. QED
    BY <1>1, <1>2, <1>4, <2>1
<1>. QED
  BY <1>3, <1>4

LEMMA VisitStep ==
    ASSUME TimeoutInv, Visit
    PROVE  TimeoutInv'
<1>1. PICK t : t = scan.current
  OBVIOUS
<1>2. PICK x : x = IF Due(t) THEN scan.interval ELSE Interval(scan.interval, t)
  OBVIOUS
<1>3. PICK y : y = IterNext(timeouts, t)
  OBVIOUS
<1>4. /\ scan.running /\ t # nullptr
      /\ late' = IF Due(t) /\ fTask[t] THEN [late EXCEPT ![t] = 0] ELSE late
      /\ seen' = IF Waits(t) THEN seen \cup {t} ELSE seen \ {t}
      /\ UNCHANGED <<fTimeoutAtThisTime, fTimeoutInMilSecs, fTask, constructed, setting, timeouts, wake, killed, registered>>
  BY <1>1 DEF Visit
<1>5. scan' = [current |-> y, interval |-> x, running |-> TRUE]
  <2>1. scan' = [scan EXCEPT !.current = y, !.interval = x]
    BY <1>1, <1>2, <1>3 DEF Visit
  <2>2. scan = [current |-> scan.current, interval |-> scan.interval, running |-> scan.running]
    BY DEF TimeoutInv, TimeTypeOK
  <2>3. scan' = [current |-> y, interval |-> x, running |-> scan.running]
    BY <2>1, <2>2
  <2>4. scan.running = TRUE
    BY <1>4
  <2>. QED
    BY <2>3, <2>4
<1>6. PICK L \in Nat : /\ L = Len(registered) /\ L <= NumTimeouts
                       /\ \A i \in 1 .. L : registered[i] \in Timeouts /\ registered[i] \in constructed
                       /\ \A i, j \in 1 .. L : registered[i] = registered[j] => i = j
  BY QueueFacts DEF TimeoutInv, Distinct
<1>7. PICK p \in 1 .. L + 1 : Place(p) /\ (~killed => OnTime(p))
  BY <1>4, <1>6 DEF TimeoutInv, TimeInv
<1>8. p \in 1 .. L /\ t = registered[p] /\ t \in Timeouts /\ t \in constructed
  BY <1>1, <1>4, <1>6, <1>7 DEF Place
<1>9. y = IF p = L THEN nullptr ELSE registered[p + 1]
  <2>1. Lists(timeouts, registered) /\ DOMAIN registered = 1 .. L
    <3>1. Lists(timeouts, registered) /\ registered \in Seq(Timeouts)
      BY QueueFacts DEF TimeoutInv
    <3>. QED
      BY <1>6, <3>1, LenProperties
  <2>. QED
    BY <1>3, <1>6, <1>8, <2>1 DEF Lists
<1>10. Place(p + 1)'
  BY <1>4, <1>5, <1>6, <1>8, <1>9 DEF Place
<1>11. /\ x \in Nat /\ x <= scan.interval + Second - 1
       /\ Waits(t) => fTimeoutAtThisTime[t] \in Nat /\ x <= fTimeoutAtThisTime[t] + Second
  BY <1>2, <1>8, IntervalGrows DEF TimeoutInv
<1>12. /\ late \in [Timeouts -> Nat]
       /\ \A u \in Timeouts : late[u] # 0 => fTimeoutAtThisTime[u] = 0 /\ fTask[u]
       /\ seen \subseteq constructed /\ \A u \in seen : fTimeoutAtThisTime[u] \in Nat
       /\ setting \subseteq constructed
  BY DEF TimeoutInv, TimeTypeOK, LateInv
<1>13. /\ late' \in [Timeouts -> Nat] /\ late'[t] = 0
       /\ \A u \in Timeouts : u # t => late'[u] = late[u] /\ (u \in seen' <=> u \in seen)
       /\ t \in seen' => Waits(t)
  <2>1. late' \in [Timeouts -> Nat] /\ \A u \in Timeouts : u # t => late'[u] = late[u]
    BY <1>4, <1>12
  <2>2. late'[t] = 0
    BY <1>4, <1>8, <1>12 DEF Due
  <2>3. (\A u \in Timeouts : u # t => (u \in seen' <=> u \in seen)) /\ (t \in seen' => Waits(t))
    BY <1>4
  <2>. QED
    BY <2>1, <2>2, <2>3
<1>14. TimeTypeOK'
  BY <1>4, <1>5, <1>11, <1>13 DEF TimeoutInv, TimeTypeOK
<1>15. QueueInv'
  BY <1>4 DEF TimeoutInv, QueueInv
<1>16. LateInv'
  <2>1. ASSUME NEW u \in Timeouts, late'[u] # 0 PROVE fTimeoutAtThisTime'[u] = 0 /\ fTask'[u]
    BY <1>4, <1>12, <1>13, <2>1
  <2>2. ASSUME NEW u \in seen' PROVE u \in constructed' /\ fTimeoutAtThisTime'[u] \in Nat
    <3>1. u = t \/ u \in seen
      BY <1>4
    <3>. QED
      BY <1>4, <1>8, <1>11, <1>12, <1>13, <3>1
  <2>. QED
    BY <1>4, <1>12, <2>1, <2>2 DEF LateInv
<1>17. ASSUME ~killed PROVE OnTime(p + 1)'
  <2>1. PICK m \in Nat : m = L - p
    BY <1>8
  <2>2. L + 1 - p = m + 1 /\ L + 1 - (p + 1) = m /\ m + 1 <= NumTimeouts
    <3>1. NumTimeouts \in Nat
      BY Slacks
    <3>. QED
      BY <1>6, <1>8, <2>1, <3>1
  <2>3. PICK a \in Nat, z \in Nat : a = Slack(m) /\ z = Slack(NumTimeouts)
    BY Slacks
  <2>4. Slack(m + 1) = a + Second - 1 /\ Slack(m + 1) <= z /\ Second \in Nat /\ kInterval \in Nat
    BY <2>2, <2>3, Slacks
  <2>5. scan.interval \in Nat /\ Longest \in Nat
    BY Slacks DEF TimeoutInv, TimeTypeOK
  <2>6. x + a <= scan.interval + Slack(m + 1)
    BY <1>11, <2>4, <2>5
  <2>7. x + a <= Longest
    <3>1. scan.interval + Slack(m + 1) <= Longest
      BY <1>6, <1>7, <1>17, <2>2 DEF OnTime
    <3>2. PICK w \in Int : w = Slack(m + 1)
      BY <2>4
    <3>. QED
      BY <1>11, <2>5, <2>6, <3>1, <3>2
  <2>8. ASSUME NEW i \in 1 .. p
        PROVE  late'[registered[i]] = 0 /\ (registered[i] \in seen' => x + a <= fTimeoutAtThisTime[registered[i]] + 1 + z)
    <3>1. CASE i = p
      BY <1>8, <1>11, <1>13, <2>4, <3>1
    <3>2. CASE i # p
      <4>1. i \in 1 .. p - 1 /\ i \in 1 .. L
        BY <1>8, <3>2
      <4>2. PICK u \in Timeouts : u = registered[i] /\ u # t
        BY <1>6, <1>8, <3>2, <4>1
      <4>3. late[u] = 0 /\ (u \in seen => scan.interval + Slack(m + 1) <= fTimeoutAtThisTime[u] + 1 + z)
        BY <1>6, <1>7, <1>17, <2>2, <2>3, <4>1, <4>2 DEF OnTime
      <4>4. u \in seen => x + a <= fTimeoutAtThisTime[u] + 1 + z
        <5>1. PICK w \in Int : w = Slack(m + 1)
          BY <2>4
        <5>2. u \in seen => fTimeoutAtThisTime[u] \in Nat
          BY <1>12
        <5>. QED
          BY <1>11, <2>5, <2>6, <4>3, <5>1, <5>2
      <4>. QED
        BY <1>13, <4>2, <4>3, <4>4
    <3>. QED
      BY <3>1, <3>2
  <2>9. ASSUME NEW i \in p + 1 .. L
        PROVE  late'[registered[i]] <= z + (IF registered[i] \in seen' THEN 1 ELSE kInterval)
    <3>1. i \in p .. L /\ i \in 1 .. L /\ i # p
      BY <1>8
    <3>2. PICK u \in Timeouts : u = registered[i] /\ u # t
      BY <1>6, <1>8, <3>1
    <3>3. late[u] <= z + (IF u \in seen THEN 1 ELSE kInterval)
      BY <1>6, <1>7, <1>17, <2>3, <3>1, <3>2 DEF OnTime
    <3>. QED
      BY <1>13, <3>2, <3>3
  <2>10. scan'.interval = x /\ (p + 1) - 1 = p
    BY <1>5, <1>8
  <2>. QED
    BY <1>4, <1>6, <2>2, <2>3, <2>7, <2>8, <2>9, <2>10 DEF OnTime, Longest, Slack
<1>18. TimeInv'
  <2>1. p + 1 \in 1 .. Len(registered') + 1 /\ scan'.running /\ (killed' <=> killed)
    BY <1>4, <1>5, <1>6, <1>8
  <2>. QED
    BY <1>10, <1>17, <2>1 DEF TimeInv
<1>. QED
  BY <1>14, <1>15, <1>16, <1>18 DEF TimeoutInv

LEMMA TimeoutStep == TimeoutInv /\ [TimeoutNext]_ttVars => TimeoutInv'
<1>1. SUFFICES ASSUME TimeoutInv, [TimeoutNext]_ttVars PROVE TimeoutInv'
  OBVIOUS
<1>2. CASE UNCHANGED ttVars
  <2>1. UNCHANGED <<fTimeoutAtThisTime, fTimeoutInMilSecs, fTask, constructed, setting, timeouts, scan, wake, killed, registered, late, seen>>
    BY <1>2 DEF ttVars
  <2>2. /\ setting' \subseteq constructed /\ fTimeoutInMilSecs' \in [Timeouts -> Nat]
    BY <1>1, <2>1 DEF TimeoutInv, LateInv, TimeTypeOK
  <2>3. fTask' \in [Timeouts -> BOOLEAN] /\ \A t \in Timeouts : fTask[t] => fTask'[t]
    BY <1>1, <2>1, Zenon DEF TimeoutInv, TimeTypeOK
  <2>. QED
    BY <1>1, <2>1, <2>2, <2>3, QuietStep
<1>3. CASE TimeoutNext
  BY <1>1, <1>3, ConstructStep, DestructStep, SettersStep, RunBeginsStep, VisitStep, RunEndsStep, StopTaskStep, TickStep
     DEF TimeoutNext
<1>. QED
  BY <1>1, <1>2, <1>3

LEMMA TimeoutInvKeeps == TimeoutInv => TimeoutsKept
<1>1. SUFFICES ASSUME TimeoutInv PROVE TimeoutsKept
  OBVIOUS
<1>2. /\ timeouts.members = constructed /\ timeouts.fLength = Cardinality(constructed) /\ Lists(timeouts, registered)
  BY <1>1, QueueFacts DEF TimeoutInv, QueueInv, Ring
<1>3. Creep = Slack(NumTimeouts) /\ Slack(NumTimeouts) \in Nat /\ kInterval \in Nat
  BY Slacks DEF Creep, Slack
<1>4. PICK L \in Nat : /\ L = Len(registered)
                       /\ \A i \in 1 .. L : registered[i] \in constructed
                       /\ \A u \in constructed : u \in Timeouts /\ \E i \in 1 .. L : registered[i] = u
  BY <1>1, QueueFacts DEF TimeoutInv
<1>5. CASE scan.running
  <2>1. PICK p \in 1 .. L + 1 : Place(p) /\ (~killed => OnTime(p))
    BY <1>1, <1>4, <1>5 DEF TimeoutInv, TimeInv
  <2>2. scan.current # nullptr => scan.current \in constructed
    BY <1>4, <2>1 DEF Place
  <2>3. ASSUME ~killed, NEW u \in constructed PROVE late[u] <= Creep + (IF u \in seen THEN 1 ELSE kInterval)
    <3>1. PICK i \in 1 .. L : registered[i] = u
      BY <1>4
    <3>2. CASE i < p
      <4>1. i \in 1 .. p - 1
        BY <3>2
      <4>2. late[u] = 0
        BY <2>1, <2>3, <3>1, <4>1 DEF OnTime
      <4>. QED
        BY <1>3, <4>2
    <3>3. CASE ~(i < p)
      <4>1. i \in p .. L
        BY <3>3
      <4>. QED
        BY <1>3, <1>4, <2>1, <2>3, <3>1, <4>1 DEF OnTime
    <3>. QED
      BY <3>2, <3>3
  <2>. QED
    BY <1>2, <2>2, <2>3 DEF TimeoutsKept
<1>6. CASE ~scan.running
  <2>1. scan.current = nullptr /\ (~killed => Asleep)
    BY <1>1, <1>6 DEF TimeoutInv, TimeInv
  <2>2. ASSUME ~killed, NEW u \in constructed PROVE late[u] <= Creep + (IF u \in seen THEN 1 ELSE kInterval)
    <3>1. u \in Timeouts /\ late[u] \in Nat
      BY <1>1, <1>4 DEF TimeoutInv, TimeTypeOK
    <3>2. wake \in Nat /\ late[u] + wake <= Longest /\ Longest \in Nat
      <4>1. Longest \in Nat
        BY Slacks
      <4>. QED
        BY <2>1, <2>2, <4>1 DEF Asleep
    <3>3. ASSUME u \in seen PROVE late[u] <= Creep + 1
      <4>1. late[u] + wake <= fTimeoutAtThisTime[u] + 1 + Slack(NumTimeouts)
        BY <2>1, <2>2, <3>3 DEF Asleep
      <4>2. late[u] # 0 => fTimeoutAtThisTime[u] = 0
        BY <1>1, <3>1 DEF TimeoutInv, LateInv
      <4>. QED
        BY <1>3, <3>1, <3>2, <4>1, <4>2
    <3>. QED
      BY <1>3, <3>1, <3>2, <3>3 DEF Longest
  <2>. QED
    BY <1>2, <2>1, <2>2 DEF TimeoutsKept
<1>. QED
  BY <1>5, <1>6

\* For any number of TimeoutTasks, any periods and any length of a second: the queue
\* that Run() of TimeoutTask.cpp goes through lists the objects that exist, and a
\* timeout is signalled no later than the creep of the interval allows.
THEOREM TimeoutsAreKept == TimeoutSpec => []TimeoutsKept
  BY TimeoutInvInit, TimeoutStep, TimeoutInvKeeps, PTL DEF TimeoutSpec
============================================================================
