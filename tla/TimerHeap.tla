----------------------------- MODULE TimerHeap -----------------------------
(***************************************************************************)
(* The binary min-heap of CFCore/Heap.cpp that orders timers: the heap of  *)
(* every TaskThread and of the IdleTaskThread.  The two loops ShiftUp and  *)
(* ShiftDown run one iteration per step; no other operation starts before  *)
(* the loop has ended.  A caller sets the value of an element before it    *)
(* inserts it.                                                             *)
(***************************************************************************)
EXTENDS Integers, Sequences, FiniteSets

CONSTANTS
    Elems,       \* HeapElem objects
    Times,       \* the times they are inserted with
    InStartSize  \* argument of the constructor

ASSUME HeapAssumption == Times \subseteq Int /\ InStartSize \in Nat

VARIABLES
    fHeap,         \* fHeap[1 .. fFreeIndex - 1]
    fArraySize,    \* slots allocated, slot 0 is not used
    fValue,        \* of each element
    fCurrentHeap,  \* elements whose fCurrentHeap is this heap
    shift,         \* "none", or the loop that is running: "up", "down"
    pos,           \* swapPos of ShiftUp, parent of ShiftDown
    misplaced      \* history: Remove put a leaf below a larger parent

heapVars == <<fHeap, fArraySize, fValue, fCurrentHeap, shift, pos, misplaced>>

CurrentHeapSize == Len(fHeap)
fFreeIndex == CurrentHeapSize + 1

At(i) == fValue[fHeap[i]]

HeapInit ==
    /\ fHeap = <<>>
    /\ fArraySize = IF InStartSize < 2 THEN 2 ELSE InStartSize
    /\ fValue = [e \in Elems |-> 0]
    /\ fCurrentHeap = {}
    /\ shift = "none" /\ pos = 0 /\ misplaced = FALSE

----------------------------------------------------------------------------

SwapElems(i, j) == fHeap' = [fHeap EXCEPT ![i] = fHeap[j], ![j] = fHeap[i]]

ShiftUp ==
    /\ shift = "up"
    /\ LET parent == pos \div 2 IN
       IF pos > 1 /\ At(pos) < At(parent)
       THEN SwapElems(pos, parent) /\ pos' = parent /\ UNCHANGED shift
       ELSE shift' = "none" /\ UNCHANGED <<fHeap, pos>>
    /\ UNCHANGED <<fArraySize, fValue, fCurrentHeap, misplaced>>

\* Mutant: the right child is not looked at.
LeastLeft(i) == IF 2 * i < fFreeIndex /\ At(2 * i) < At(i) THEN 2 * i ELSE i

\* The smallest of a slot and its children.
Least(i) ==
    LET left  == 2 * i
        right == 2 * i + 1
        least == IF left < fFreeIndex /\ At(left) < At(i) THEN left ELSE i
    IN IF right < fFreeIndex /\ At(right) < At(least) THEN right ELSE least

ShiftDown ==
    /\ shift = "down"
    /\ IF pos < fFreeIndex /\ Least(pos) # pos
       THEN SwapElems(pos, Least(pos)) /\ pos' = Least(pos) /\ UNCHANGED shift
       ELSE shift' = "none" /\ UNCHANGED <<fHeap, pos>>
    /\ UNCHANGED <<fArraySize, fValue, fCurrentHeap, misplaced>>

\* The array is doubled when its last slot is taken.
GrownArray(size) == IF fFreeIndex >= size THEN 2 * size ELSE size

\* SetValue by the caller, then Insert.
Insert(e, v) ==
    /\ shift = "none"
    /\ e \notin fCurrentHeap
    /\ fValue' = [fValue EXCEPT ![e] = v]
    /\ fArraySize' = GrownArray(fArraySize)
    /\ fHeap' = Append(fHeap, e)
    /\ fCurrentHeap' = fCurrentHeap \cup {e}
    /\ shift' = "up" /\ pos' = fFreeIndex
    /\ UNCHANGED misplaced

\* Mutant: the element taken out is not told that it left the heap.
ExtractKeepsMember(i) ==
    /\ i < fFreeIndex
    /\ fHeap' = [k \in 1 .. CurrentHeapSize - 1 |->
                    IF k = i THEN fHeap[CurrentHeapSize] ELSE fHeap[k]]
    /\ shift' = "down" /\ pos' = i
    /\ UNCHANGED <<fArraySize, fValue, fCurrentHeap>>

\* The last leaf replaces the element taken out, and is moved down.
Extract(i) ==
    /\ i < fFreeIndex
    /\ fHeap' = [k \in 1 .. CurrentHeapSize - 1 |->
                    IF k = i THEN fHeap[CurrentHeapSize] ELSE fHeap[k]]
    /\ fCurrentHeap' = fCurrentHeap \ {fHeap[i]}
    /\ shift' = "down" /\ pos' = i
    /\ UNCHANGED <<fArraySize, fValue>>

ExtractMin == shift = "none" /\ Extract(1) /\ UNCHANGED misplaced

\* Extract never moves the leaf up, so that it may stay below a larger parent.
RemoveElem(e) ==
    /\ shift = "none"
    /\ e \in fCurrentHeap
    /\ \E i \in 1 .. CurrentHeapSize :
          /\ fHeap[i] = e
          /\ Extract(i)
          /\ misplaced' = (misplaced \/ (i > 1 /\ At(CurrentHeapSize) < At(i \div 2)))

\* flag is heapUpdateFlagExpectUp, -ExpectDown or -None.
Update(e, v, flag) ==
    /\ shift = "none"
    /\ \E i \in 1 .. CurrentHeapSize :
          /\ fHeap[i] = e
          /\ \/ v < At(i) /\ flag # "expectDown" /\ shift' = "up"
             \/ v > At(i) /\ flag # "expectUp" /\ shift' = "down"
          /\ pos' = i
    /\ fValue' = [fValue EXCEPT ![e] = v]
    /\ UNCHANGED <<fHeap, fArraySize, fCurrentHeap, misplaced>>

Flags == {"none", "expectUp", "expectDown"}

HeapNext ==
    \/ ShiftUp \/ ShiftDown \/ ExtractMin
    \/ \E e \in Elems, v \in Times : Insert(e, v) \/ \E f \in Flags : Update(e, v, f)
    \/ \E e \in Elems : RemoveElem(e)

HeapSpec == HeapInit /\ [][HeapNext]_heapVars

----------------------------------------------------------------------------
(* Properties *)

HeapTypeOK ==
    /\ fHeap \in Seq(Elems)
    /\ fArraySize \in Nat
    /\ fValue \in [Elems -> Int]
    /\ fCurrentHeap \subseteq Elems
    /\ shift \in {"none", "up", "down"}
    /\ pos \in Nat /\ misplaced \in BOOLEAN
    /\ shift = "up" => pos \in 1 .. CurrentHeapSize
    /\ shift = "down" => pos \in 1 .. fFreeIndex

\* An element is in the array once if its fCurrentHeap says so, and not at all
\* otherwise: a timer fires once for every time it was set.
Membership ==
    /\ fCurrentHeap = {fHeap[i] : i \in 1 .. CurrentHeapSize}
    /\ \A i, j \in 1 .. CurrentHeapSize : fHeap[i] = fHeap[j] => i = j

\* Slot fFreeIndex - 1 exists: no operation writes outside the array.
InBounds == CurrentHeapSize < fArraySize

\* The array holds exactly the members of the heap.
HeapConsistent == HeapTypeOK /\ Membership /\ InBounds

\* The assertions of Heap::sanityCheck(), which Insert, Extract and Remove call: no
\* element is smaller than its parent.
sanityCheck == shift = "none" => \A i \in 2 .. CurrentHeapSize : At(i \div 2) <= At(i)

\* The order is kept by Insert, ExtractMin and Update, and by every Remove that does
\* not put a leaf below a larger parent: PeekMin, by which the threads decide how long
\* to sleep and which timer to fire, returns the earliest until such a Remove.
HeapOrder == ~misplaced => sanityCheck
============================================================================
