----------------------------- MODULE IdleTimer -----------------------------
(***************************************************************************)
(* The IdleTaskThread of CFThread/IdleTask.cpp: one thread that sends      *)
(* kIdleEvent to IdleTasks when their timers come due.  fIdleHeap is the   *)
(* heap of module TimerHeap, with one element for each task.  fHeapMutex   *)
(* guards it: the thread holds the mutex except while it waits on          *)
(* fHeapCond, and a caller until the loop of its heap operation has ended. *)
(***************************************************************************)
EXTENDS TimerHeap

CONSTANTS
    IdleTimeouts, \* arguments of SetIdleTimer, in milliseconds
    PollInterval, \* how long the thread waits while the heap is empty (1000)
    MaxTime,      \* bound: timers are set for this time at the latest
    MaxLag,       \* bound: time that passes during one turn of the thread's loop
    NoTask

ASSUME IdleAssumption ==
    /\ Times \subseteq 0 .. MaxTime /\ IdleTimeouts \subseteq Nat
    /\ PollInterval \in Nat /\ MaxTime \in Nat /\ MaxLag \in Nat
    /\ NoTask \notin Elems

VARIABLES
    now,          \* Time::Milliseconds()
    pc,           \* where the thread is
    msec,         \* its local: the time at the beginning of the turn
    elem,         \* its local: the task taken from the heap
    sleptAt, wakeAt, \* begin and end of its timed wait
    signalled,    \* tasks that were sent kIdleEvent
    alive,        \* tasks that are not destroyed
    stop          \* fStopRequested

waitVars == <<sleptAt, wakeAt>>
idleVars == <<heapVars, now, pc, msec, elem, waitVars, signalled, alive, stop>>

IdleState(place, time, stopped) ==
    /\ HeapInit
    /\ now = time /\ pc = place /\ msec = 0 /\ elem = NoTask /\ sleptAt = 0 /\ wakeAt = 0
    /\ signalled = {} /\ alive = Elems /\ stop = stopped

IdleInit == IdleState("check", 0, FALSE)

\* Mutant: the mutex is let go while a task is signalled.
LockedToPop == pc \in {"check", "pop"}

\* The thread holds fHeapMutex.
Locked == pc \in {"check", "pop", "signal"}

----------------------------------------------------------------------------
(* Callers *)

\* Each call takes fHeapMutex, for a task that exists.  CFMain() releases the
\* thread when no other thread is left to call.
MayCall(t) == ~Locked /\ shift = "none" /\ t \in alive /\ ~stop

\* fHeapCond.Signal()
Wake == pc' = IF pc = "asleep" THEN "awake" ELSE pc

\* A pending timer is moved to an earlier time, never to a later one.
SetValue(t, time) ==
    /\ time \in Times
    /\ IF t \notin fCurrentHeap THEN Insert(t, time)
       ELSE IF time < fValue[t] THEN Update(t, time, "expectUp")
       ELSE UNCHANGED heapVars

\* Mutant: the thread is woken up for a new timer only, not for an earlier one.
SetIdleTimerQuiet(t, timeout) ==
    /\ MayCall(t)
    /\ SetValue(t, now + timeout)
    /\ IF t \in fCurrentHeap THEN UNCHANGED pc ELSE Wake
    /\ UNCHANGED <<now, msec, elem, waitVars, signalled, alive, stop>>

SetIdleTimer(t, timeout) ==
    /\ MayCall(t)
    /\ SetValue(t, now + timeout)
    /\ Wake
    /\ UNCHANGED <<now, msec, elem, waitVars, signalled, alive, stop>>

CancelTimeout(t) ==
    /\ MayCall(t)
    /\ RemoveElem(t)
    /\ UNCHANGED <<now, pc, msec, elem, waitVars, signalled, alive, stop>>

\* ~IdleTask() cancels the timer under the same mutex.
Destroy(t) ==
    /\ MayCall(t)
    /\ IF t \in fCurrentHeap THEN RemoveElem(t) ELSE UNCHANGED heapVars
    /\ alive' = alive \ {t}
    /\ signalled' = signalled \ {t}
    /\ UNCHANGED <<now, pc, msec, elem, waitVars, stop>>

\* The task runs on the event it was sent.
RunTask(t) ==
    /\ t \in signalled
    /\ signalled' = signalled \ {t}
    /\ UNCHANGED <<heapVars, now, pc, msec, elem, waitVars, alive, stop>>

\* IdleTask::Release(): StopAndWaitForThread, by the main thread at the end.
IdleRelease ==
    /\ ~stop
    /\ stop' = TRUE
    /\ UNCHANGED <<heapVars, now, pc, msec, elem, waitVars, signalled, alive>>

\* One more iteration of the loop of a heap operation.
IdleShift ==
    /\ ShiftUp \/ ShiftDown
    /\ UNCHANGED <<now, pc, msec, elem, waitVars, signalled, alive, stop>>

----------------------------------------------------------------------------
(* IdleTaskThread::Entry() *)

\* Mutant: the stop request is not looked at.
CheckHeapDeaf ==
    /\ pc = "check" /\ shift = "none"
    /\ IF CurrentHeapSize > 0 THEN pc' = "pop" /\ UNCHANGED waitVars
       ELSE pc' = "asleep" /\ sleptAt' = now /\ wakeAt' = now + PollInterval
    /\ msec' = now
    /\ UNCHANGED <<heapVars, now, elem, signalled, alive, stop>>

\* Mutant: a stop request is looked at before the timers that are left.
CheckHeapStops ==
    /\ pc = "check" /\ shift = "none"
    /\ IF stop THEN pc' = "exit" /\ UNCHANGED <<msec, waitVars>>
       ELSE IF CurrentHeapSize > 0 THEN pc' = "pop" /\ msec' = now /\ UNCHANGED waitVars
       ELSE pc' = "asleep" /\ sleptAt' = now /\ wakeAt' = now + PollInterval /\ msec' = now
    /\ UNCHANGED <<heapVars, now, elem, signalled, alive, stop>>

\* A stop request is seen only while there is no timer.
CheckHeap ==
    /\ pc = "check" /\ shift = "none"
    /\ IF CurrentHeapSize > 0
       THEN pc' = "pop" /\ msec' = now /\ UNCHANGED waitVars
       ELSE IF stop THEN pc' = "exit" /\ UNCHANGED <<msec, waitVars>>
       ELSE /\ pc' = "asleep"
            /\ sleptAt' = now /\ wakeAt' = now + PollInterval
            /\ msec' = now
    /\ UNCHANGED <<heapVars, now, elem, signalled, alive, stop>>

\* A task whose time has come is taken from the heap, as long as PeekMin gives one.
PopDue ==
    /\ pc = "pop" /\ CurrentHeapSize > 0 /\ At(1) <= msec
    /\ ExtractMin
    /\ elem' = fHeap[1]
    /\ pc' = "signal"
    /\ UNCHANGED <<now, msec, waitVars, signalled, alive, stop>>

SignalIdle ==
    /\ pc = "signal" /\ shift = "none"
    /\ signalled' = signalled \cup {elem}
    /\ pc' = "pop"
    /\ UNCHANGED <<heapVars, now, msec, elem, waitVars, alive, stop>>

\* PeekMin is not due: sleep for as long as it was away at msec.
Sleep ==
    /\ pc = "pop" /\ shift = "none"
    /\ IF CurrentHeapSize = 0 THEN pc' = "check" /\ UNCHANGED waitVars
       ELSE /\ At(1) > msec /\ pc' = "asleep"
            /\ sleptAt' = now /\ wakeAt' = now + (At(1) - msec)
    /\ UNCHANGED <<heapVars, now, msec, elem, signalled, alive, stop>>

\* The timed wait is over, or ends spuriously.
IdleWaitEnds ==
    /\ pc = "asleep"
    /\ pc' = "awake"
    /\ UNCHANGED <<heapVars, now, msec, elem, waitVars, signalled, alive, stop>>

Relock ==
    /\ pc = "awake" /\ shift = "none"
    /\ pc' = "check"
    /\ UNCHANGED <<heapVars, now, msec, elem, waitVars, signalled, alive, stop>>

Entry == CheckHeap \/ PopDue \/ SignalIdle \/ Sleep \/ Relock

Horizon == MaxTime + MaxLag + PollInterval

\* Time passes; the wait does not end later than it should.
IdleTick ==
    /\ now < Horizon
    /\ pc \in {"pop", "signal"} => now - msec < MaxLag
    /\ pc = "asleep" => now < wakeAt
    /\ now' = now + 1
    /\ UNCHANGED <<heapVars, pc, msec, elem, waitVars, signalled, alive, stop>>

IdleNext ==
    \/ \E t \in Elems :
          \/ \E timeout \in IdleTimeouts : SetIdleTimer(t, timeout)
          \/ CancelTimeout(t) \/ Destroy(t) \/ RunTask(t)
    \/ IdleShift \/ IdleRelease \/ Entry \/ IdleWaitEnds \/ IdleTick

\* The threads run, time passes, and a wait ends when its time has come, or at
\* the end of the modelled time.
IdleFairness ==
    /\ WF_idleVars(Entry) /\ WF_idleVars(IdleShift) /\ WF_idleVars(IdleTick)
    /\ WF_idleVars(IdleWaitEnds /\ (now >= wakeAt \/ now = Horizon))

IdleSpec == IdleInit /\ [][IdleNext]_idleVars /\ IdleFairness

----------------------------------------------------------------------------
(* Properties *)

IdleTypeOK ==
    /\ now \in 0 .. Horizon
    /\ fCurrentHeap \subseteq Elems /\ fValue \in [Elems -> 0 .. MaxTime]
    /\ pc \in {"check", "pop", "signal", "asleep", "awake", "exit"}
    /\ msec \in 0 .. now /\ elem \in Elems \cup {NoTask}
    /\ sleptAt \in 0 .. now /\ wakeAt \in Nat
    /\ signalled \subseteq Elems /\ alive \subseteq Elems
    /\ stop \in BOOLEAN

\* The comment in IdleTaskThread::Entry(): "If there is a lowest tick count, then we
\* need to sleep until that Time".  The thread sleeps past no timer in the heap,
\* except by the time its own turn took.
SleepsUntilLowest ==
    pc = "asleep" => \A t \in fCurrentHeap : wakeAt <= fValue[t] + (sleptAt - msec)

\* The thread sleeps past no timer, whatever was set, moved, cancelled or destroyed
\* and whenever it was woken up, as long as no Remove has put a leaf of the heap below
\* a larger parent: from then on PeekMin may not be the earliest.
NeverSleepsPast == ~misplaced => SleepsUntilLowest

\* The task the thread is about to signal is not destroyed: ~IdleTask() waits
\* for fHeapMutex, which is kept from ExtractMin to Signal.
SignalsLiveTask == (pc = "signal" => elem \in alive) /\ fCurrentHeap \subseteq alive

\* The heap, the thread and the tasks agree.
IdleConsistent == IdleTypeOK /\ SignalsLiveTask

\* A timer that is set fires, unless it is cancelled.
TimerFires == \A t \in Elems : t \in fCurrentHeap ~> t \notin fCurrentHeap

\* StopAndWaitForThread returns: the thread first waits for the timers that are
\* left.
StopReturns == stop ~> pc = "exit"
============================================================================
