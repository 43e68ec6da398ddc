--------------------------- MODULE RWMutexProofs ---------------------------
(***************************************************************************)
(* The counters of RWMutex are exact for any threads; a single writer      *)
(* excludes everybody else.                                                *)
(***************************************************************************)
EXTENDS RWMutex, FiniteSetTheorems, TLAPS

USE DEF Users

LEMMA FiniteStates == \A S \in SUBSET Users : IsFiniteSet(S) /\ Cardinality(S) \in Nat
  BY FiniteUsers, FS_Subset, FS_CardinalityType

\* One thread more, or one less, in a set of threads.
LEMMA CountUp ==
    ASSUME NEW S \in SUBSET Users, NEW p \in Users, p \notin S
    PROVE  Cardinality(S \cup {p}) = Cardinality(S) + 1
  BY FiniteStates, FS_AddElement

LEMMA CountDown ==
    ASSUME NEW S \in SUBSET Users, NEW p \in S
    PROVE  Cardinality(S \ {p}) = Cardinality(S) - 1
  BY FiniteStates, FS_RemoveElement

LEMMA CountNone ==
    ASSUME NEW S \in SUBSET Users
    PROVE  Cardinality(S) \in Nat /\ (Cardinality(S) = 0 <=> S = {})
  BY FiniteStates, FS_EmptySet

LEMMA InitType == Init => TypeOK
  BY DEF Init, TypeOK

LEMMA TypeStep == TypeOK /\ [Next]_vars => TypeOK'
<1> SUFFICES ASSUME TypeOK, [Next]_vars PROVE TypeOK'
  OBVIOUS
<1> USE DEF TypeOK
<1>1. ASSUME NEW p \in Readers, LockRead(p) PROVE TypeOK'
  BY <1>1 DEF LockRead, MustWaitToRead, activeWriter
<1>2. ASSUME NEW p \in Writers, LockWrite(p) PROVE TypeOK'
  BY <1>2 DEF LockWrite
<1>3. ASSUME NEW p \in Users, RetryRead(p) PROVE TypeOK'
  BY <1>3 DEF RetryRead, MustWaitToRead, activeWriter
<1>4. ASSUME NEW p \in Users, RetryWrite(p) PROVE TypeOK'
  BY <1>4 DEF RetryWrite
<1>5. ASSUME NEW p \in Users, Unlock(p) PROVE TypeOK'
  <2>1. fState' \in Int /\ fState' >= -1 /\ UNCHANGED <<fReadWaiters, fWriteWaiters>>
    BY <1>5 DEF Unlock, activeWriter
  <2>2. \E W \in SUBSET Users, s \in {"writeAwake", "readAwake", "out"} :
           /\ Leave(p, W, s)
           /\ s = "writeAwake" => \A q \in W : at[q] = "writeAsleep"
           /\ s = "readAwake" => \A q \in W : at[q] = "readAsleep"
           /\ s = "out" => W = {}
    BY <1>5 DEF Unlock, OneOf, InState
  <2> QED
    BY <2>1, <2>2 DEF Leave
<1>6. ASSUME NEW p \in Users, WaitEnds(p) PROVE TypeOK'
  BY <1>6 DEF WaitEnds
<1>7. CASE UNCHANGED vars
  BY <1>7 DEF vars
<1> QED
  BY <1>1, <1>2, <1>3, <1>4, <1>5, <1>6, <1>7 DEF Next, TryLockRead, TryLockWrite
----------------------------------------------------------------------------
(* The waiters.  For the counters it does not matter whether a waiting      *)
(* thread is asleep or awake.                                               *)

ReadWaiting  == InState("readAsleep") \cup InState("readAwake")
WriteWaiting == InState("writeAsleep") \cup InState("writeAwake")

LEMMA WaitersStep == TypeOK /\ WaitersCounted /\ [Next]_vars => WaitersCounted'
<1> SUFFICES ASSUME TypeOK, WaitersCounted, [Next]_vars PROVE WaitersCounted'
  OBVIOUS
<1>1. /\ fReadWaiters = Cardinality(ReadWaiting) /\ fWriteWaiters = Cardinality(WriteWaiting)
      /\ ReadWaiting \in SUBSET Users /\ WriteWaiting \in SUBSET Users
  BY DEF WaitersCounted, ReadWaiting, WriteWaiting, InState
<1>2. SUFFICES /\ fReadWaiters' = Cardinality(ReadWaiting')
               /\ fWriteWaiters' = Cardinality(WriteWaiting')
  BY DEF WaitersCounted, ReadWaiting, WriteWaiting
<1> USE DEF TypeOK
<1>3. ASSUME NEW p \in Readers, LockRead(p)
      PROVE  fReadWaiters' = Cardinality(ReadWaiting') /\ fWriteWaiters' = Cardinality(WriteWaiting')
  <2>1. WriteWaiting' = WriteWaiting /\ fWriteWaiters' = fWriteWaiters
    BY <1>3 DEF LockRead, WriteWaiting, InState
  <2>2. CASE MustWaitToRead
    <3>1. ReadWaiting' = ReadWaiting \cup {p} /\ p \notin ReadWaiting /\ fReadWaiters' = fReadWaiters + 1
      BY <1>3, <2>2 DEF LockRead, ReadWaiting, InState
    <3> QED
      BY <1>1, <2>1, <3>1, CountUp
  <2>3. CASE ~MustWaitToRead
    <3>1. ReadWaiting' = ReadWaiting /\ fReadWaiters' = fReadWaiters
      BY <1>3, <2>3 DEF LockRead, ReadWaiting, InState
    <3> QED
      BY <1>1, <2>1, <3>1
  <2> QED
    BY <2>2, <2>3
<1>4. ASSUME NEW p \in Writers, LockWrite(p)
      PROVE  fReadWaiters' = Cardinality(ReadWaiting') /\ fWriteWaiters' = Cardinality(WriteWaiting')
  <2>1. ReadWaiting' = ReadWaiting /\ fReadWaiters' = fReadWaiters
    BY <1>4 DEF LockWrite, ReadWaiting, InState
  <2>2. CASE MustWaitToWrite
    <3>1. WriteWaiting' = WriteWaiting \cup {p} /\ p \notin WriteWaiting /\ fWriteWaiters' = fWriteWaiters + 1
      BY <1>4, <2>2 DEF LockWrite, WriteWaiting, InState
    <3> QED
      BY <1>1, <2>1, <3>1, CountUp
  <2>3. CASE ~MustWaitToWrite
    <3>1. WriteWaiting' = WriteWaiting /\ fWriteWaiters' = fWriteWaiters
      BY <1>4, <2>3 DEF LockWrite, WriteWaiting, InState
    <3> QED
      BY <1>1, <2>1, <3>1
  <2> QED
    BY <2>2, <2>3
<1>5. ASSUME NEW p \in Users, RetryRead(p)
      PROVE  fReadWaiters' = Cardinality(ReadWaiting') /\ fWriteWaiters' = Cardinality(WriteWaiting')
  <2>1. WriteWaiting' = WriteWaiting /\ fWriteWaiters' = fWriteWaiters
    BY <1>5 DEF RetryRead, WriteWaiting, InState
  <2>2. CASE MustWaitToRead
    <3>1. ReadWaiting' = ReadWaiting /\ fReadWaiters' = fReadWaiters
      BY <1>5, <2>2 DEF RetryRead, ReadWaiting, InState
    <3> QED
      BY <1>1, <2>1, <3>1
  <2>3. CASE ~MustWaitToRead
    <3>1. ReadWaiting' = ReadWaiting \ {p} /\ p \in ReadWaiting /\ fReadWaiters' = fReadWaiters - 1
      BY <1>5, <2>3 DEF RetryRead, ReadWaiting, InState
    <3> QED
      BY <1>1, <2>1, <3>1, CountDown
  <2> QED
    BY <2>2, <2>3
<1>6. ASSUME NEW p \in Users, RetryWrite(p)
      PROVE  fReadWaiters' = Cardinality(ReadWaiting') /\ fWriteWaiters' = Cardinality(WriteWaiting')
  <2>1. ReadWaiting' = ReadWaiting /\ fReadWaiters' = fReadWaiters
    BY <1>6 DEF RetryWrite, ReadWaiting, InState
  <2>2. CASE MustWaitToWrite
    <3>1. WriteWaiting' = WriteWaiting /\ fWriteWaiters' = fWriteWaiters
      BY <1>6, <2>2 DEF RetryWrite, WriteWaiting, InState
    <3> QED
      BY <1>1, <2>1, <3>1
  <2>3. CASE ~MustWaitToWrite
    <3>1. WriteWaiting' = WriteWaiting \ {p} /\ p \in WriteWaiting /\ fWriteWaiters' = fWriteWaiters - 1
      BY <1>6, <2>3 DEF RetryWrite, WriteWaiting, InState
    <3> QED
      BY <1>1, <2>1, <3>1, CountDown
  <2> QED
    BY <2>2, <2>3
<1>7. ASSUME NEW p \in Users, Unlock(p) \/ WaitEnds(p)
      PROVE  fReadWaiters' = Cardinality(ReadWaiting') /\ fWriteWaiters' = Cardinality(WriteWaiting')
  <2>1. UNCHANGED <<fReadWaiters, fWriteWaiters>>
    BY <1>7 DEF Unlock, WaitEnds
  <2>2. CASE WaitEnds(p)
    <3>1. ReadWaiting' = ReadWaiting /\ WriteWaiting' = WriteWaiting
      BY <2>2 DEF WaitEnds, ReadWaiting, WriteWaiting, InState
    <3> QED
      BY <1>1, <2>1, <3>1
  <2>3. CASE Unlock(p)
    <3>1. PICK W \in SUBSET Users, s \in {"writeAwake", "readAwake", "out"} :
             /\ Leave(p, W, s)
             /\ s = "writeAwake" => \A q \in W : at[q] = "writeAsleep"
             /\ s = "readAwake" => \A q \in W : at[q] = "readAsleep"
             /\ s = "out" => W = {}
      BY <2>3 DEF Unlock, OneOf, InState
    <3>2. at[p] \in {"reading", "writing"}
      BY <2>3 DEF Unlock
    <3>3. ReadWaiting' = ReadWaiting /\ WriteWaiting' = WriteWaiting
      BY <3>1, <3>2 DEF Leave, ReadWaiting, WriteWaiting, InState
    <3> QED
      BY <1>1, <2>1, <3>3
  <2> QED
    BY <1>7, <2>2, <2>3
<1>8. CASE UNCHANGED vars
  <2>1. ReadWaiting' = ReadWaiting /\ WriteWaiting' = WriteWaiting
    BY <1>8 DEF vars, ReadWaiting, WriteWaiting, InState
  <2> QED
    BY <1>1, <1>8, <2>1 DEF vars
<1> QED
  BY <1>3, <1>4, <1>5, <1>6, <1>7, <1>8 DEF Next, TryLockRead, TryLockWrite

\* Whatever the order of wakeups, and with any number of writers, no waiter is
\* forgotten by the counters or stays in them.
THEOREM WaitersAreCounted == Spec => [](TypeOK /\ WaitersCounted)
<1>1. Init => TypeOK /\ WaitersCounted
  <2>1. Init => InState("readAsleep") \cup InState("readAwake") = {}
             /\ InState("writeAsleep") \cup InState("writeAwake") = {}
    BY DEF Init, InState
  <2> QED
    BY <2>1, InitType, FS_EmptySet DEF Init, WaitersCounted
<1>2. TypeOK /\ WaitersCounted /\ [Next]_vars => (TypeOK /\ WaitersCounted)'
  BY TypeStep, WaitersStep
<1> QED
  BY <1>1, <1>2, PTL DEF Spec

----------------------------------------------------------------------------
(* Exclusion, with a single writer *)

SingleWriter == \A v, w \in Writers : v = w

LEMMA ExclusionStep ==
    ASSUME SingleWriter, TypeOK, Exclusion, [Next]_vars
    PROVE  Exclusion'
<1>0. Reading \in SUBSET Users /\ Writing \in SUBSET Users
  BY DEF Reading, Writing, InState
<1>1. \A p \in Writing : p \in Writers
  BY DEF TypeOK, Writing, InState
<1>2. Cardinality(Reading) \in Nat /\ (Cardinality(Reading) = 0 <=> Reading = {})
  BY <1>0, CountNone
<1>3. /\ fState < 0 <=> Writing # {}
      /\ fState > 0 => Writing = {}
      /\ fState <= 0 => Reading = {}
      /\ Writing = {} => fState = Cardinality(Reading)
  BY <1>2 DEF Exclusion
\* A step into or out of the lock is described by the two sets and fState.
<1>4. ASSUME UNCHANGED <<Reading, Writing, fState>> PROVE Exclusion'
  BY <1>4 DEF Exclusion
<1>5. ASSUME NEW p \in Users, p \notin Reading, ~activeWriter, Reading' = Reading \cup {p},
             Writing' = Writing, fState' = fState + 1
      PROVE  Exclusion'
  <2>1. Writing = {}
    BY <1>3, <1>5 DEF activeWriter
  <2>2. Cardinality(Reading') = Cardinality(Reading) + 1
    BY <1>0, <1>5, CountUp
  <2> QED
    BY <1>3, <1>5, <2>1, <2>2 DEF Exclusion
<1>6. ASSUME NEW p \in Writers, at[p] # "writing", ~activeReaders, Reading' = Reading,
             Writing' = Writing \cup {p}, fState' = -1
      PROVE  Exclusion'
  <2>1. Writing = {}
    BY <1>1, <1>6 DEF SingleWriter, Writing, InState
  <2>2. Reading = {}
    BY <1>3, <1>6 DEF activeReaders, TypeOK
  <2> QED
    BY <1>6, <2>1, <2>2 DEF Exclusion
<1>7. ASSUME NEW p \in Readers, LockRead(p) PROVE Exclusion'
  <2>1. CASE MustWaitToRead
    <3>1. UNCHANGED <<Reading, Writing, fState>>
      BY <1>7, <2>1 DEF LockRead, Reading, Writing, InState, TypeOK
    <3> QED
      BY <1>4, <3>1
  <2>2. CASE ~MustWaitToRead
    <3>1. p \notin Reading /\ Reading' = Reading \cup {p} /\ Writing' = Writing /\ fState' = fState + 1
      BY <1>7, <2>2 DEF LockRead, Reading, Writing, InState, TypeOK
    <3> QED
      BY <1>5, <2>2, <3>1 DEF MustWaitToRead
  <2> QED
    BY <2>1, <2>2
<1>8. ASSUME NEW p \in Users, RetryRead(p) PROVE Exclusion'
  <2>1. CASE MustWaitToRead
    <3>1. UNCHANGED <<Reading, Writing, fState>>
      BY <1>8, <2>1 DEF RetryRead, Reading, Writing, InState, TypeOK
    <3> QED
      BY <1>4, <3>1
  <2>2. CASE ~MustWaitToRead
    <3>1. p \notin Reading /\ Reading' = Reading \cup {p} /\ Writing' = Writing /\ fState' = fState + 1
      BY <1>8, <2>2 DEF RetryRead, Reading, Writing, InState, TypeOK
    <3> QED
      BY <1>5, <2>2, <3>1 DEF MustWaitToRead
  <2> QED
    BY <2>1, <2>2
<1>9. ASSUME NEW p \in Writers, LockWrite(p) PROVE Exclusion'
  <2>1. CASE MustWaitToWrite
    <3>1. UNCHANGED <<Reading, Writing, fState>>
      BY <1>9, <2>1 DEF LockWrite, Reading, Writing, InState, TypeOK
    <3> QED
      BY <1>4, <3>1
  <2>2. CASE ~MustWaitToWrite
    <3>1. at[p] # "writing" /\ Reading' = Reading /\ Writing' = Writing \cup {p} /\ fState' = -1
      BY <1>9, <2>2 DEF LockWrite, Reading, Writing, InState, TypeOK
    <3> QED
      BY <1>6, <2>2, <3>1 DEF MustWaitToWrite
  <2> QED
    BY <2>1, <2>2
<1>10. ASSUME NEW p \in Users, RetryWrite(p) PROVE Exclusion'
  <2>1. CASE MustWaitToWrite
    <3>1. UNCHANGED <<Reading, Writing, fState>>
      BY <1>10, <2>1 DEF RetryWrite, Reading, Writing, InState, TypeOK
    <3> QED
      BY <1>4, <3>1
  <2>2. CASE ~MustWaitToWrite
    <3>1. /\ at[p] # "writing" /\ Reading' = Reading /\ Writing' = Writing \cup {p} /\ fState' = -1
          /\ p \in Writers
      BY <1>10, <2>2 DEF RetryWrite, Reading, Writing, InState, TypeOK
    <3> QED
      BY <1>6, <2>2, <3>1 DEF MustWaitToWrite
  <2> QED
    BY <2>1, <2>2
<1>11. ASSUME NEW p \in Users, Unlock(p) PROVE Exclusion'
  <2>1. PICK W \in SUBSET Users, s \in {"writeAwake", "readAwake", "out"} :
           /\ Leave(p, W, s)
           /\ s = "writeAwake" => \A q \in W : at[q] = "writeAsleep"
           /\ s = "readAwake" => \A q \in W : at[q] = "readAsleep"
           /\ s = "out" => W = {}
    BY <1>11 DEF Unlock, OneOf, InState
  <2>2. Reading' = Reading \ {p} /\ Writing' = Writing \ {p}
    BY <2>1 DEF Leave, Reading, Writing, InState, TypeOK
  <2>3. p \in Reading \/ p \in Writing
    BY <1>11 DEF Unlock, Reading, Writing, InState
  <2>4. CASE activeWriter
    <3>1. Reading = {} /\ Writing' = {} /\ fState' = 0
      BY <1>3, <1>11, <2>2, <2>3, <2>4 DEF Exclusion, Unlock, activeWriter
    <3>2. Reading' = {} /\ Cardinality(Reading') = 0
      BY <2>2, <3>1, FS_EmptySet
    <3> QED
      BY <3>1, <3>2 DEF Exclusion
  <2>5. CASE ~activeWriter
    <3>1. Writing = {} /\ p \in Reading /\ fState = Cardinality(Reading)
      BY <1>3, <2>3, <2>5 DEF activeWriter
    <3>2. Cardinality(Reading') = Cardinality(Reading) - 1
      BY <1>0, <2>2, <3>1, CountDown
    <3>3. fState >= 1
      BY <1>2, <3>1
    <3>4. fState' = fState - 1
      BY <1>2, <1>11, <2>5, <3>1, <3>3 DEF Unlock
    <3> QED
      BY <2>2, <3>1, <3>2, <3>4 DEF Exclusion
  <2> QED
    BY <2>4, <2>5
<1>12. ASSUME NEW p \in Users, WaitEnds(p) PROVE Exclusion'
  <2>1. UNCHANGED <<Reading, Writing, fState>>
    BY <1>12 DEF WaitEnds, Reading, Writing, InState, TypeOK
  <2> QED
    BY <1>4, <2>1
<1>13. CASE UNCHANGED vars
  <2>1. UNCHANGED <<Reading, Writing, fState>>
    BY <1>13 DEF vars, Reading, Writing, InState
  <2> QED
    BY <1>4, <2>1
<1> QED
  BY <1>7, <1>8, <1>9, <1>10, <1>11, <1>12, <1>13 DEF Next, TryLockRead, TryLockWrite

\* With one writer thread the lock excludes, for any number of readers.
THEOREM SingleWriterExcludes ==
    ASSUME SingleWriter PROVE Spec => []Exclusion
<1>1. Init => TypeOK /\ Exclusion
  <2>1. Init => Reading = {} /\ Writing = {}
    BY DEF Init, Reading, Writing, InState
  <2> QED
    BY <2>1, InitType, FS_EmptySet DEF Init, Exclusion
<1>2. TypeOK /\ Exclusion /\ [Next]_vars => (TypeOK /\ Exclusion)'
  BY TypeStep, ExclusionStep
<1> QED
  BY <1>1, <1>2, PTL DEF Spec

============================================================================
