------------------------------ MODULE RWMutex ------------------------------
(***************************************************************************)
(* The reader/writer lock of CFCore/RWMutex.cpp: one counter fState guarded *)
(* by fInternalLock and two condition variables.  A method runs atomically *)
(* under fInternalLock up to its end or to its Wait, which releases it;    *)
(* a thread that wakes up tests its condition again.                       *)
(***************************************************************************)
EXTENDS Integers, FiniteSets

CONSTANTS
    Readers,   \* threads that call LockRead / TryLockRead
    Writers    \* threads that call LockWrite / TryLockWrite

Users == Readers \cup Writers

ASSUME FiniteUsers == IsFiniteSet(Users)

VARIABLES
    fState,          \* -1: writer, 0: free, > 0: number of readers
    fReadWaiters,    \* number of waiting readers
    fWriteWaiters,   \* number of waiting writers
    at               \* where each thread is

vars == <<fState, fReadWaiters, fWriteWaiters, at>>

\* A waiting thread is asleep in Cond::Wait, or awake and about to retake
\* fInternalLock.
Init ==
    /\ fState = 0 /\ fReadWaiters = 0 /\ fWriteWaiters = 0
    /\ at = [p \in Users |-> "out"]

activeReaders  == fState > 0
activeWriter   == fState < 0
active         == fState # 0
waitingWriters == fWriteWaiters > 0

InState(s) == {p \in Users : at[p] = s}

----------------------------------------------------------------------------
(* LockRead *)

\* Mutant: a reader waits for the writers that wait, not for the active one.
MustWaitForWaiters == waitingWriters

\* The loop condition of LockRead.
MustWaitToRead == activeWriter \/ waitingWriters

\* From the call to the end or to the first Wait.
LockRead(p) ==
    /\ at[p] = "out"
    /\ IF MustWaitToRead
       THEN /\ at' = [at EXCEPT ![p] = "readAsleep"]
            /\ fReadWaiters' = fReadWaiters + 1
            /\ UNCHANGED fState
       ELSE /\ at' = [at EXCEPT ![p] = "reading"]
            /\ fState' = fState + 1
            /\ UNCHANGED fReadWaiters
    /\ UNCHANGED fWriteWaiters

\* Mutant: removeReadWaiter is forgotten after a wait.
RetryReadStillCounted(p) ==
    /\ at[p] = "readAwake"
    /\ at' = [at EXCEPT ![p] = IF MustWaitToRead THEN "readAsleep" ELSE "reading"]
    /\ fState' = IF MustWaitToRead THEN fState ELSE fState + 1
    /\ UNCHANGED <<fReadWaiters, fWriteWaiters>>

\* The test after Wait returned.
RetryRead(p) ==
    /\ at[p] = "readAwake"
    /\ IF MustWaitToRead
       THEN /\ at' = [at EXCEPT ![p] = "readAsleep"]
            /\ UNCHANGED <<fState, fReadWaiters>>
       ELSE /\ at' = [at EXCEPT ![p] = "reading"]
            /\ fReadWaiters' = fReadWaiters - 1
            /\ fState' = fState + 1
    /\ UNCHANGED fWriteWaiters

\* Only the success of a TryLock changes anything; it calls LockRead under the
\* recursive fInternalLock.
TryLockRead(p) == ~activeWriter /\ ~waitingWriters /\ LockRead(p)

----------------------------------------------------------------------------
(* LockWrite *)

\* The loop condition of LockWrite.
MustWaitToWrite == activeReaders

LockWrite(p) ==
    /\ at[p] = "out"
    /\ IF MustWaitToWrite
       THEN /\ at' = [at EXCEPT ![p] = "writeAsleep"]
            /\ fWriteWaiters' = fWriteWaiters + 1
            /\ UNCHANGED fState
       ELSE /\ at' = [at EXCEPT ![p] = "writing"]
            /\ fState' = -1
            /\ UNCHANGED fWriteWaiters
    /\ UNCHANGED fReadWaiters

RetryWrite(p) ==
    /\ at[p] = "writeAwake"
    /\ IF MustWaitToWrite
       THEN /\ at' = [at EXCEPT ![p] = "writeAsleep"]
            /\ UNCHANGED <<fState, fWriteWaiters>>
       ELSE /\ at' = [at EXCEPT ![p] = "writing"]
            /\ fWriteWaiters' = fWriteWaiters - 1
            /\ fState' = -1
    /\ UNCHANGED fReadWaiters

TryLockWrite(p) == ~active /\ ~waitingWriters /\ LockWrite(p)

----------------------------------------------------------------------------
(* Unlock *)

\* Cond::Signal wakes one thread that is asleep, if there is one.
OneOf(S) == IF S = {} THEN {{}} ELSE {{q} : q \in S}

\* p leaves, and the threads in woken are woken up.
Leave(p, woken, awake) ==
    at' = [q \in Users |-> IF q = p THEN "out" ELSE IF q \in woken THEN awake ELSE at[q]]

\* Mutant: a writer that leaves signals the next writer but not the readers.
UnlockSilent(p) ==
    /\ at[p] \in {"reading", "writing"}
    /\ fState' = IF activeWriter \/ fState - 1 <= 0 THEN 0 ELSE fState - 1
    /\ \E w \in OneOf(InState("writeAsleep")) : Leave(p, w, "writeAwake")
    /\ UNCHANGED <<fReadWaiters, fWriteWaiters>>

\* Mutant: a reader that leaves signals the writers only if it was not the last.
UnlockOffByOne(p) ==
    /\ at[p] \in {"reading", "writing"}
    /\ \/ /\ activeWriter
          /\ fState' = 0
          /\ \/ /\ waitingWriters
                /\ \E w \in OneOf(InState("writeAsleep")) : Leave(p, w, "writeAwake")
             \/ /\ ~waitingWriters
                /\ Leave(p, InState("readAsleep"), "readAwake")
       \/ /\ ~activeWriter
          /\ fState' = fState - 1
          /\ IF fState - 1 > 0
             THEN \E w \in OneOf(InState("writeAsleep")) : Leave(p, w, "writeAwake")
             ELSE Leave(p, {}, "writeAwake")
    /\ UNCHANGED <<fReadWaiters, fWriteWaiters>>

\* Unlock goes by fState, not by what the caller had locked.
Unlock(p) ==
    /\ at[p] \in {"reading", "writing"}
    /\ \/ /\ activeWriter
          /\ fState' = 0
          /\ \/ /\ waitingWriters
                /\ \E w \in OneOf(InState("writeAsleep")) : Leave(p, w, "writeAwake")
             \/ /\ ~waitingWriters
                /\ Leave(p, InState("readAsleep"), "readAwake")
       \/ /\ ~activeWriter
          /\ fState - 1 > 0
          /\ fState' = fState - 1
          /\ Leave(p, {}, "out")
       \/ /\ ~activeWriter
          /\ ~(fState - 1 > 0)
          /\ fState' = 0
          /\ \E w \in OneOf(InState("writeAsleep")) : Leave(p, w, "writeAwake")
    /\ UNCHANGED <<fReadWaiters, fWriteWaiters>>

\* A wait ends by itself: spuriously, or after eMaxWait milliseconds.
WaitEnds(p) ==
    /\ at[p] \in {"readAsleep", "writeAsleep"}
    /\ at' = [at EXCEPT ![p] = IF at[p] = "readAsleep" THEN "readAwake" ELSE "writeAwake"]
    /\ UNCHANGED <<fState, fReadWaiters, fWriteWaiters>>

Next ==
    \/ \E p \in Readers : LockRead(p) \/ TryLockRead(p)
    \/ \E p \in Writers : LockWrite(p) \/ TryLockWrite(p)
    \/ \E p \in Users : RetryRead(p) \/ RetryWrite(p) \/ Unlock(p) \/ WaitEnds(p)

Spec == Init /\ [][Next]_vars

\* Who is in the lock leaves it and who was woken tests again.  No wait is
\* assumed to end by itself: eMaxWait is 0x0FFFFFFF ms, three days.
Fairness == \A p \in Users : WF_vars(RetryRead(p) \/ RetryWrite(p)) /\ WF_vars(Unlock(p))

FairSpec == Spec /\ Fairness

----------------------------------------------------------------------------
(* Properties *)

TypeOK ==
    /\ fState \in Int /\ fState >= -1
    /\ fReadWaiters \in Int /\ fWriteWaiters \in Int
    /\ at \in [Users -> {"out", "readAsleep", "readAwake", "reading",
                         "writeAsleep", "writeAwake", "writing"}]
    /\ \A p \in Users : /\ at[p] \in {"readAsleep", "readAwake", "reading"} => p \in Readers
                        /\ at[p] \in {"writeAsleep", "writeAwake", "writing"} => p \in Writers

Reading == InState("reading")
Writing == InState("writing")

\* The counters of waiters are exact whatever the order of wakeups: a wrong
\* fWriteWaiters would shut the readers out for ever.
WaitersCounted ==
    /\ fReadWaiters = Cardinality(InState("readAsleep") \cup InState("readAwake"))
    /\ fWriteWaiters = Cardinality(InState("writeAsleep") \cup InState("writeAwake"))

\* RWMutex.h, on activeWriter: "only one".
OneWriter == Cardinality(Writing) <= 1

\* A writer is alone in the lock, and fState says who is in it.
Exclusion ==
    /\ Writing # {} => Reading = {}
    /\ \A p, q \in Writing : p = q
    /\ fState = IF Writing # {} THEN -1 ELSE Cardinality(Reading)

\* No wakeup is lost: a waiting writer enters, since it shuts new readers out.
WriterEnters ==
    \A p \in Writers : at[p] \in {"writeAsleep", "writeAwake"} ~> at[p] = "writing"

\* ... and so does a waiting reader, once no new writer comes.
ReaderEnters ==
    <>[][~\E p \in Writers : LockWrite(p)]_vars =>
        \A p \in Readers : at[p] \in {"readAsleep", "readAwake"} ~> at[p] = "reading"
============================================================================
