-------------------------- MODULE TaskSchedProofs --------------------------
(***************************************************************************)
(* Proofs, for any number of tasks, threads and callers of Signal(), of    *)
(* what MCTaskSched checks on small instances, and that every step of      *)
(* TaskSched is a step of TaskLifecycle or leaves its variables alone.     *)
(***************************************************************************)
EXTENDS TaskSched, SequenceTheorems, TLAPS

----------------------------------------------------------------------------
(* Queues *)

Member(u, q) == \E i \in DOMAIN q : q[i] = u
NoRepeat(q)  == \A i, j \in DOMAIN q : q[i] = q[j] => i = j

\* Appending a new element to a queue (BlockingQueue::EnQueue).
LEMMA AppendFacts ==
    ASSUME NEW S, NEW q \in Seq(S), NEW x \in S
    PROVE  /\ Append(q, x) \in Seq(S)
           /\ \A u : Member(u, Append(q, x)) <=> Member(u, q) \/ u = x
           /\ NoRepeat(q) /\ ~Member(x, q) => NoRepeat(Append(q, x))
<1>1. /\ Append(q, x) \in Seq(S)
      /\ DOMAIN Append(q, x) = 1 .. Len(q) + 1
      /\ DOMAIN q = 1 .. Len(q) /\ Len(q) \in Nat
      /\ \A i \in 1 .. Len(q) : Append(q, x)[i] = q[i]
      /\ Append(q, x)[Len(q) + 1] = x
  OBVIOUS
<1>2. ASSUME NEW u PROVE Member(u, Append(q, x)) <=> Member(u, q) \/ u = x
  <2>1. ASSUME Member(u, Append(q, x)) PROVE Member(u, q) \/ u = x
    BY <1>1, <2>1 DEF Member
  <2>2. ASSUME Member(u, q) PROVE Member(u, Append(q, x))
    BY <1>1, <2>2 DEF Member
  <2>3. Member(x, Append(q, x))
    BY <1>1 DEF Member
  <2> QED
    BY <2>1, <2>2, <2>3
<1>3. NoRepeat(q) /\ ~Member(x, q) => NoRepeat(Append(q, x))
  BY <1>1 DEF NoRepeat, Member
<1> QED
  BY <1>1, <1>2, <1>3

\* Taking the first element of a queue (BlockingQueue::DeQueueBlocking).
LEMMA TailFacts ==
    ASSUME NEW S, NEW q \in Seq(S), q # <<>>, NoRepeat(q)
    PROVE  /\ Tail(q) \in Seq(S) /\ Head(q) \in S
           /\ Member(Head(q), q)
           /\ \A u : Member(u, Tail(q)) <=> Member(u, q) /\ u # Head(q)
           /\ NoRepeat(Tail(q))
<1>1. /\ Tail(q) \in Seq(S) /\ Head(q) \in S
      /\ Len(q) \in Nat /\ Len(q) > 0
      /\ DOMAIN q = 1 .. Len(q)
      /\ DOMAIN Tail(q) = 1 .. Len(q) - 1
      /\ \A i \in 1 .. Len(q) - 1 : Tail(q)[i] = q[i + 1]
      /\ Head(q) = q[1]
  OBVIOUS
<1>2. ASSUME NEW u PROVE Member(u, Tail(q)) <=> Member(u, q) /\ u # Head(q)
  <2>1. ASSUME Member(u, Tail(q)) PROVE Member(u, q) /\ u # Head(q)
    BY <1>1, <2>1 DEF Member, NoRepeat
  <2>2. ASSUME Member(u, q), u # Head(q) PROVE Member(u, Tail(q))
    <3>1. PICK i \in 1 .. Len(q) : q[i] = u
      BY <1>1, <2>2 DEF Member
    <3>2. i # 1 /\ i - 1 \in 1 .. Len(q) - 1
      BY <1>1, <2>2, <3>1
    <3>3. Tail(q)[i - 1] = u
      BY <1>1, <3>1, <3>2
    <3> QED
      BY <1>1, <3>2, <3>3 DEF Member
  <2> QED
    BY <2>1, <2>2
<1>3. NoRepeat(Tail(q))
  BY <1>1 DEF NoRepeat
<1>4. Member(Head(q), q)
  BY <1>1 DEF Member
<1> QED
  BY <1>1, <1>2, <1>3, <1>4

----------------------------------------------------------------------------
(* Type correctness *)

LEMMA InitType == Init => TypeOK
  BY SchedAssumption DEF Init, TypeOK, EventFlags, kAlive, kIdleEvent, PCs, Holding,
     SigCalls, NoCall, Callers, Threads
\* What the actions use of the fields of a call.
LEMMA CallType ==
    ASSUME TypeOK, NEW c \in Callers, sig[c].at # "idle"
    PROVE  sig[c].task \in Tasks /\ sig[c].events \in EventFlags /\ kAlive \in sig[c].events
  BY DEF TypeOK, SigCalls

\* An action of the scheduler keeps the types.
LEMMA TypeStep == TypeOK /\ [Next]_vars => TypeOK'
<1> SUFFICES ASSUME TypeOK, [Next]_vars PROVE TypeOK'
  OBVIOUS
<1> USE SchedAssumption DEF TypeOK, Callers, EventFlags, kAlive, kIdleEvent, PCs, Holding,
      taskVars, threadVars
<1>1. ASSUME NEW c \in Callers, NEW t \in Tasks, NEW e \in Events, SignalEnter(c, t, e)
      PROVE  TypeOK'
  BY <1>1 DEF SignalEnter, SigCalls
<1>2. ASSUME NEW c \in Callers, SignalOr(c) PROVE TypeOK'
  <2>1. sig[c].task \in Tasks /\ sig[c].events \in EventFlags /\ kAlive \in sig[c].events
    BY <1>2, CallType DEF SignalOr
  <2>2. [sig[c] EXCEPT !.at = "place"] \in SigCalls /\ NoCall \in SigCalls
    <3>1. sig[c] \in SigCalls
      OBVIOUS
    <3>2. ASSUME NEW r \in SigCalls PROVE [r EXCEPT !.at = "place"] \in SigCalls
      BY DEF SigCalls
    <3>3. NoCall \in SigCalls
      BY DEF SigCalls, NoCall
    <3> QED
      BY <3>1, <3>2, <3>3
  <2>3. sig' \in [Callers -> SigCalls]
    BY <1>2, <2>2 DEF SignalOr
  <2>4. ASSUME NEW d \in Callers, sig'[d].at # "idle" PROVE sig'[d].task # NoTask /\ kAlive \in sig'[d].events
    <3>1. CASE d = c
      BY <1>2, <2>1, <2>4, <3>1 DEF SignalOr, SigCalls, NoCall
    <3>2. CASE d # c
      BY <1>2, <2>4, <3>2 DEF SignalOr
    <3> QED
      BY <3>1, <3>2
  <2>5. fEvents' \in [Tasks -> EventFlags]
    BY <1>2, <2>1 DEF SignalOr
  <2> QED
    BY <1>2, <2>3, <2>4, <2>5 DEF SignalOr
<1>3. ASSUME NEW c \in Callers, SignalPlace(c) PROVE TypeOK'
  <2>1. sig[c].task \in Tasks
    BY <1>3, CallType DEF SignalPlace
  <2>2. \A th \in Threads : EnQueue(sig[c].task, th) => fTaskQueue' \in [Threads -> Seq(Tasks)]
    BY <2>1 DEF EnQueue
  <2>3. sig' \in [Callers -> SigCalls] /\ \A d \in Callers : sig'[d].at # "idle" => sig'[d].task # NoTask /\ kAlive \in sig'[d].events
    <3>1. NoCall \in SigCalls /\ NoCall.at = "idle"
      BY DEF SigCalls, NoCall
    <3> QED
      BY <1>3, <3>1 DEF SignalPlace
  <2>4. fTaskQueue' \in [Threads -> Seq(Tasks)] /\ fUseThisThread' \in [Tasks -> Threads \cup {NoThread}]
    <3>1. PickerThreads(sig[c].task) \subseteq Threads
      BY DEF PickerThreads, Threads
    <3>2. fUseThisThread' \in [Tasks -> Threads \cup {NoThread}]
      BY <1>3, <2>1 DEF SignalPlace
    <3>3. \E th \in Threads : EnQueue(sig[c].task, th)
      BY <1>3, <2>1, <3>1 DEF SignalPlace
    <3> QED
      BY <2>2, <3>2, <3>3
  <2> QED
    BY <1>3, <2>3, <2>4 DEF SignalPlace
<1>4. ASSUME NEW th \in Threads, TakeTimer(th) PROVE TypeOK'
  BY <1>4 DEF TakeTimer, Found
<1>5. ASSUME NEW th \in Threads, NoTimerDue(th) \/ WaitExpires(th) PROVE TypeOK'
  <2>1. CASE NoTimerDue(th)
    BY <2>1 DEF NoTimerDue
  <2>2. CASE WaitExpires(th)
    BY <2>2 DEF WaitExpires
  <2> QED
    BY <1>5, <2>1, <2>2
<1>6. ASSUME NEW th \in Threads, DeQueue(th) PROVE TypeOK'
  <2>1. Head(fTaskQueue[th]) \in Tasks /\ Tail(fTaskQueue[th]) \in Seq(Tasks)
    BY <1>6 DEF DeQueue
  <2> QED
    BY <1>6, <2>1 DEF DeQueue, Found
<1>7. ASSUME NEW th \in Threads, BeginRun(th) PROVE TypeOK'
  BY <1>7 DEF BeginRun
<1>8. ASSUME NEW th \in Threads, GetEvents(th) PROVE TypeOK'
  BY <1>8 DEF GetEvents
<1>9. ASSUME NEW th \in Threads, ForceSameThread(th) PROVE TypeOK'
  BY <1>9 DEF ForceSameThread
<1>10. ASSUME NEW th \in Threads, Return(th) PROVE TypeOK'
  BY <1>10 DEF Return
<1>11. ASSUME NEW th \in Threads, Delete(th) PROVE TypeOK'
  BY <1>11 DEF Delete
<1>12. ASSUME NEW th \in Threads, LoadExpected(th) PROVE TypeOK'
  BY <1>12 DEF LoadExpected
<1>13. ASSUME NEW th \in Threads, Exchange(th) PROVE TypeOK'
  BY <1>13 DEF Exchange
<1>14. ASSUME NEW th \in Threads, StoreExpected(th) PROVE TypeOK'
  BY <1>14 DEF StoreExpected
<1>15. ASSUME NEW th \in Threads, InsertTimer(th) PROVE TypeOK'
  BY <1>15 DEF InsertTimer
<1>16. ASSUME NEW th \in Threads, SendStopRequest(th) PROVE TypeOK'
  BY <1>16 DEF SendStopRequest
<1>17. ASSUME NEW t \in Tasks, TimerExpires(t) PROVE TypeOK'
  BY <1>17 DEF TimerExpires
<1>18. CASE UNCHANGED vars
  BY <1>18 DEF vars
<1> QED
  BY <1>1, <1>2, <1>3, <1>4, <1>5, <1>6, <1>7, <1>8, <1>9, <1>10,
     <1>11, <1>12, <1>13, <1>14, <1>15, <1>16, <1>17, <1>18
     DEF Next, RunNext, Signal, Entry, WaitForTask

\* Every variable of the scheduler keeps its type: a thread that works on a
\* task has one, and so has a caller inside Signal().
THEOREM TypeCorrect == Spec => []TypeOK
  BY InitType, TypeStep, PTL DEF Spec

----------------------------------------------------------------------------
(* Safety.  The invariants are inductive together, with the observation     *)
(* that a task is about to be deleted only once it was marked dead.         *)

DoomedIsDead == \A th \in Threads : pc[th] = "delete" => ~Valid(theTask[th])

Inv == TypeOK /\ OnePlace /\ AliveIffScheduled /\ DeadStaysOut /\ SameThread
       /\ ExitOnlyOnStop /\ DoomedIsDead

LEMMA InitInv == Init => Inv
<1> SUFFICES ASSUME Init PROVE Inv
  OBVIOUS
<1>1. TypeOK
  BY InitType
<1>2. \A t \in Tasks :
         /\ \A th \in Threads : ~Kept(t, th)
         /\ \A c \in Callers : ~Placing(t, c)
  BY DEF Init, Kept, InQueue, Running, Placing, Holding, NoCall
<1>3. OnePlace
  BY <1>2 DEF OnePlace, Kept, Init
<1>4. AliveIffScheduled /\ DeadStaysOut /\ SameThread
  BY <1>2 DEF AliveIffScheduled, Scheduled, DeadStaysOut, SameThread, Init, Valid
<1>5. ExitOnlyOnStop /\ DoomedIsDead
  BY DEF ExitOnlyOnStop, DoomedIsDead, Init
<1> QED
  BY <1>1, <1>3, <1>4, <1>5 DEF Inv

\* A step that moves no task, changes no kAlive bit and no name.
Still ==
    /\ UNCHANGED <<fTaskQueue, fHeap, fTaskName>>
    /\ \A u \in Tasks, x \in Threads : Running(u, x)' <=> Running(u, x)
    /\ \A u \in Tasks, d \in Callers : Placing(u, d)' <=> Placing(u, d)
    /\ \A u \in Tasks : kAlive \in fEvents'[u] <=> kAlive \in fEvents[u]

\* ... keeps the invariants about places.
LEMMA StillStep ==
    ASSUME Inv, TypeOK', Still,
           \A u \in Tasks, x \in Threads : Running(u, x) => (pc[x] = "delete" <=> pc'[x] = "delete")
    PROVE  OnePlace' /\ AliveIffScheduled' /\ DeadStaysOut'
<1>1. \A u \in Tasks, x \in Threads : InQueue(u, x)' <=> InQueue(u, x)
  BY DEF Still, InQueue
<1>2. \A u \in Tasks :
         /\ \A x \in Threads : Kept(u, x)' <=> Kept(u, x)
         /\ Valid(u)' <=> Valid(u)
         /\ Scheduled(u)' <=> Scheduled(u)
  BY <1>1 DEF Still, Kept, Valid, Scheduled
<1>3. OnePlace'
  BY <1>1, <1>2 DEF Inv, OnePlace, Still
<1>4. AliveIffScheduled'
  BY <1>2 DEF Inv, AliveIffScheduled, Still
<1>5. DeadStaysOut'
  BY <1>2 DEF Inv, DeadStaysOut, Still
<1> QED
  BY <1>3, <1>4, <1>5

\* Steps of a thread that leave its task where it is.
LEMMA StayingSteps ==
    ASSUME Inv, TypeOK', NEW th \in Threads,
           \/ NoTimerDue(th) \/ WaitExpires(th) \/ BeginRun(th) \/ GetEvents(th)
           \/ ForceSameThread(th) \/ LoadExpected(th) \/ StoreExpected(th)
    PROVE  Inv'
<1>1. /\ \A x \in Threads : x # th => pc'[x] = pc[x]
      /\ pc'[th] \in Holding <=> pc[th] \in Holding
      /\ pc[th] # "delete" /\ pc'[th] # "delete"
      /\ pc'[th] = "exit" => stop[th]
      /\ UNCHANGED <<theTask, sig, stop, fTaskQueue, fHeap, fTaskName>>
  BY DEF Inv, TypeOK, NoTimerDue, WaitExpires, BeginRun, GetEvents, ForceSameThread,
     LoadExpected, StoreExpected, Holding, PCs, taskVars, threadVars
<1>2. \A u \in Tasks : kAlive \in fEvents'[u] <=> kAlive \in fEvents[u]
  <2>1. CASE GetEvents(th)
    <3>1. theTask[th] \in Tasks
      BY <2>1 DEF Inv, TypeOK, GetEvents, Holding
    <3> QED
      BY <2>1, <3>1 DEF Inv, TypeOK, GetEvents
  <2>2. CASE UNCHANGED fEvents
    BY <2>2
  <2> QED
    BY <2>1, <2>2 DEF NoTimerDue, WaitExpires, BeginRun, ForceSameThread, LoadExpected,
       StoreExpected, taskVars
<1>3. Still
  BY <1>1, <1>2 DEF Still, Running, Placing
<1>4. OnePlace' /\ AliveIffScheduled' /\ DeadStaysOut'
  BY <1>1, <1>3, StillStep
<1>5. \A u \in Tasks : fUseThisThread'[u] = fUseThisThread[u]
                       \/ (Running(u, th) /\ fUseThisThread'[u] \in {NoThread, th})
  <2>1. CASE BeginRun(th)
    BY <2>1 DEF Inv, TypeOK, BeginRun, Running, Holding
  <2>2. CASE ForceSameThread(th)
    BY <2>2 DEF Inv, TypeOK, ForceSameThread, Running, Holding
  <2>3. CASE ~BeginRun(th) /\ ~ForceSameThread(th)
    BY <2>3 DEF NoTimerDue, WaitExpires, GetEvents, LoadExpected, StoreExpected, taskVars
  <2> QED
    BY <2>1, <2>2, <2>3
<1>6. \A u \in Tasks, x \in Threads : Kept(u, x)' <=> Kept(u, x)
  BY <1>1, <1>3 DEF Still, Kept, InQueue
<1>7. SameThread'
  <2> SUFFICES ASSUME NEW u \in Tasks, NEW x \in Threads, Kept(u, x)
               PROVE  fUseThisThread'[u] \in {NoThread, x}
    BY <1>6 DEF SameThread
  <2>1. CASE fUseThisThread'[u] = fUseThisThread[u]
    BY <2>1 DEF Inv, SameThread
  <2>2. CASE Running(u, th) /\ fUseThisThread'[u] \in {NoThread, th}
    BY <2>2 DEF Inv, OnePlace, Kept
  <2> QED
    BY <1>5, <2>1, <2>2
<1>8. ExitOnlyOnStop' /\ DoomedIsDead'
  BY <1>1 DEF Inv, ExitOnlyOnStop, DoomedIsDead, Valid
<1> QED
  BY <1>4, <1>7, <1>8 DEF Inv

\* Steps of the callers and of the environment that move no task.
LEMMA OutsideSteps ==
    ASSUME Inv, TypeOK',
           \/ \E c \in Callers, t \in Tasks, e \in Events : SignalEnter(c, t, e)
           \/ \E t \in Tasks : TimerExpires(t)
           \/ \E th \in Threads : SendStopRequest(th)
           \/ UNCHANGED vars
    PROVE  Inv'
<1>1. /\ UNCHANGED <<fTaskQueue, fHeap, fTaskName, fEvents, fUseThisThread, pc, theTask>>
      /\ \A th \in Threads : stop[th] => stop'[th]
  BY DEF Inv, TypeOK, SignalEnter, TimerExpires, SendStopRequest, vars, taskVars, threadVars
<1>2. \A u \in Tasks, d \in Callers : Placing(u, d)' <=> Placing(u, d)
  <2>1. ASSUME NEW c \in Callers, NEW t \in Tasks, NEW e \in Events, SignalEnter(c, t, e)
        PROVE  \A u \in Tasks, d \in Callers : Placing(u, d)' <=> Placing(u, d)
    BY <2>1 DEF Inv, TypeOK, SignalEnter, Placing
  <2>2. CASE UNCHANGED sig
    BY <2>2 DEF Placing
  <2> QED
    BY <2>1, <2>2 DEF TimerExpires, SendStopRequest, vars
<1>3. Still
  BY <1>1, <1>2 DEF Still, Running
<1>4. OnePlace' /\ AliveIffScheduled' /\ DeadStaysOut'
  BY <1>1, <1>3, StillStep
<1>5. SameThread' /\ ExitOnlyOnStop' /\ DoomedIsDead'
  BY <1>1 DEF Inv, SameThread, Kept, InQueue, Running, ExitOnlyOnStop, DoomedIsDead, Valid
<1> QED
  BY <1>4, <1>5 DEF Inv

\* Signal() sets kAlive: the first caller to do so takes charge of the task.
LEMMA SignalOrStep ==
    ASSUME Inv, TypeOK', NEW c \in Callers, SignalOr(c)
    PROVE  Inv'
<1> DEFINE t == sig[c].task
<1>1. t \in Tasks /\ kAlive \in sig[c].events
  BY CallType DEF Inv, SignalOr
<1>2. /\ UNCHANGED <<fTaskQueue, fHeap, fTaskName, fUseThisThread, pc, theTask, stop>>
      /\ sig[c].at = "or"
  BY DEF SignalOr, threadVars
<1>3. \A u \in Tasks : kAlive \in fEvents'[u] <=> kAlive \in fEvents[u] \/ u = t
  BY <1>1 DEF Inv, TypeOK, SignalOr
<1>4. \A u \in Tasks, d \in Callers :
         Placing(u, d)' <=> Placing(u, d) \/ (d = c /\ u = t /\ kAlive \notin fEvents[t])
  <2> SUFFICES ASSUME NEW u \in Tasks, NEW d \in Callers
               PROVE  Placing(u, d)' <=> Placing(u, d) \/ (d = c /\ u = t /\ kAlive \notin fEvents[t])
    OBVIOUS
  <2>1. CASE d # c
    BY <2>1 DEF Inv, TypeOK, SignalOr, Placing
  <2>2. CASE d = c /\ kAlive \in fEvents[t]
    BY <2>2 DEF Inv, TypeOK, SignalOr, Placing, NoCall
  <2>3. CASE d = c /\ kAlive \notin fEvents[t]
    <3>1. sig'[c].at = "place" /\ sig'[c].task = t
      BY <2>3 DEF Inv, TypeOK, SignalOr, SigCalls
    <3> QED
      BY <1>2, <2>3, <3>1 DEF Placing
  <2> QED
    BY <2>1, <2>2, <2>3
<1>5. \A u \in Tasks, x \in Threads :
         /\ Kept(u, x)' <=> Kept(u, x)
         /\ InQueue(u, x)' <=> InQueue(u, x)
         /\ Running(u, x)' <=> Running(u, x)
  BY <1>2 DEF Kept, InQueue, Running
<1>6. \A u \in Tasks : Valid(u)' <=> Valid(u)
  BY <1>2 DEF Valid
<1>7. kAlive \notin fEvents[t] => Valid(t) /\ ~Scheduled(t)
  BY <1>1 DEF Inv, AliveIffScheduled, DeadStaysOut
<1>8. OnePlace'
  BY <1>1, <1>2, <1>4, <1>5, <1>7 DEF Inv, OnePlace, Scheduled
<1>9. AliveIffScheduled'
  <2>1. \A u \in Tasks : Scheduled(u)' <=> Scheduled(u) \/ (u = t /\ kAlive \notin fEvents[t])
    BY <1>4, <1>5 DEF Scheduled
  <2> QED
    BY <1>1, <1>3, <1>6, <2>1 DEF Inv, AliveIffScheduled
<1>10. DeadStaysOut'
  BY <1>2, <1>3, <1>4, <1>5, <1>6, <1>7 DEF Inv, DeadStaysOut
<1>11. SameThread' /\ ExitOnlyOnStop' /\ DoomedIsDead'
  BY <1>2, <1>5 DEF Inv, SameThread, ExitOnlyOnStop, DoomedIsDead, Valid
<1> QED
  BY <1>8, <1>9, <1>10, <1>11 DEF Inv

\* ... and hands it to a queue.
LEMMA SignalPlaceStep ==
    ASSUME Inv, TypeOK', NEW c \in Callers, SignalPlace(c)
    PROVE  Inv'
<1> DEFINE t == sig[c].task
<1>1. t \in Tasks /\ Placing(t, c)
  BY CallType DEF Inv, SignalPlace, Placing
<1>2. /\ UNCHANGED <<fHeap, fTaskName, fEvents, pc, theTask, stop>>
      /\ \A u \in Tasks : u # t => fUseThisThread'[u] = fUseThisThread[u]
  BY <1>1 DEF Inv, TypeOK, SignalPlace, threadVars
<1>3. PICK to \in Threads : EnQueue(t, to) /\ fUseThisThread'[t] \in {NoThread, to}
  <2>1. PickerThreads(t) \subseteq Threads
    BY DEF PickerThreads, Threads
  <2> QED
    BY <1>1, <2>1, SchedAssumption DEF Inv, TypeOK, SignalPlace
<1>4. Valid(t) /\ \A x \in Threads : ~Kept(t, x)
  BY <1>1 DEF Inv, OnePlace, DeadStaysOut
<1>5. /\ \A u \in Tasks, x \in Threads : InQueue(u, x)' <=> InQueue(u, x) \/ (u = t /\ x = to)
      /\ \A x \in Threads : NoRepeat(fTaskQueue'[x])
  <2>1. fTaskQueue[to] \in Seq(Tasks) /\ NoRepeat(fTaskQueue[to]) /\ ~Member(t, fTaskQueue[to])
    BY <1>4 DEF Inv, TypeOK, OnePlace, NoRepeat, Member, Kept, InQueue
  <2>2. fTaskQueue'[to] = Append(fTaskQueue[to], t)
    BY <1>3, <1>4 DEF Inv, TypeOK, EnQueue, Kept
  <2>3. \A x \in Threads : x # to => fTaskQueue'[x] = fTaskQueue[x]
    BY <1>3 DEF Inv, TypeOK, EnQueue
  <2>4. \A u \in Tasks : Member(u, fTaskQueue'[to]) <=> Member(u, fTaskQueue[to]) \/ u = t
    BY <1>1, <2>1, <2>2, AppendFacts
  <2>5. NoRepeat(fTaskQueue'[to])
    BY <1>1, <2>1, <2>2, AppendFacts
  <2>6. \A u \in Tasks, x \in Threads : InQueue(u, x)' <=> InQueue(u, x) \/ (u = t /\ x = to)
    BY <2>3, <2>4 DEF InQueue, Member
  <2> QED
    BY <2>3, <2>5, <2>6 DEF Inv, OnePlace, NoRepeat
<1>6. \A u \in Tasks, d \in Callers : Placing(u, d)' <=> Placing(u, d) /\ d # c
  BY DEF Inv, TypeOK, SignalPlace, Placing, NoCall
<1>7. \A u \in Tasks : Valid(u)' <=> Valid(u)
  BY <1>2 DEF Valid
<1>8. \A u \in Tasks, x \in Threads :
         /\ Running(u, x)' <=> Running(u, x)
         /\ Kept(u, x)' <=> Kept(u, x) \/ (u = t /\ x = to)
  BY <1>2, <1>5 DEF Running, Kept
<1>9. OnePlace'
  <2>1. \A u \in Tasks, x \in Threads :
          /\ ~(InQueue(u, x)' /\ u \in fHeap'[x])
          /\ ~(Running(u, x)' /\ (InQueue(u, x)' \/ u \in fHeap'[x]))
    BY <1>2, <1>4, <1>5, <1>8 DEF Inv, OnePlace, Kept
  <2>2. \A u \in Tasks, x, y \in Threads : Kept(u, x)' /\ Kept(u, y)' => x = y
    BY <1>4, <1>8 DEF Inv, OnePlace
  <2>3. \A u \in Tasks, x \in Threads, d \in Callers : ~(Kept(u, x)' /\ Placing(u, d)')
    BY <1>1, <1>4, <1>6, <1>8 DEF Inv, OnePlace
  <2>4. \A u \in Tasks, d, e \in Callers : Placing(u, d)' /\ Placing(u, e)' => d = e
    BY <1>6 DEF Inv, OnePlace
  <2> QED
    BY <1>5, <2>1, <2>2, <2>3, <2>4 DEF OnePlace, NoRepeat
<1>10. AliveIffScheduled'
  <2>1. \A u \in Tasks : Scheduled(u)' <=> Scheduled(u)
    BY <1>1, <1>6, <1>8, <1>3 DEF Inv, OnePlace, Scheduled, Placing
  <2> QED
    BY <1>2, <1>7, <2>1 DEF Inv, AliveIffScheduled
<1>11. DeadStaysOut'
  BY <1>2, <1>4, <1>6, <1>7, <1>8 DEF Inv, DeadStaysOut
<1>12. SameThread'
  BY <1>2, <1>3, <1>4, <1>8 DEF Inv, SameThread
<1>13. ExitOnlyOnStop' /\ DoomedIsDead'
  BY <1>2 DEF Inv, ExitOnlyOnStop, DoomedIsDead, Valid
<1> QED
  BY <1>9, <1>10, <1>11, <1>12, <1>13 DEF Inv

\* A task that leaves a queue or a heap for the hands of the thread.  The two
\* ways to find a task differ only in what they take it from.
LEMMA TakeStep ==
    ASSUME Inv, TypeOK', NEW th \in Threads, NEW t \in Tasks,
           pc[th] \notin Holding, Kept(t, th), Found(th, t),
           UNCHANGED <<fEvents, fTaskName, fUseThisThread, sig, stop>>,
           \A x \in Threads : NoRepeat(fTaskQueue'[x]),
           \A u \in Tasks, x \in Threads :
              /\ InQueue(u, x)' => InQueue(u, x) /\ ~(u = t /\ x = th)
              /\ u \in fHeap'[x] => u \in fHeap[x] /\ ~(u = t /\ x = th)
              /\ (u # t \/ x # th) /\ InQueue(u, x) => InQueue(u, x)'
              /\ (u # t \/ x # th) /\ u \in fHeap[x] => u \in fHeap'[x]
    PROVE  Inv'
<1>1. Valid(t)
  <2>1. ~Running(t, th)
    BY DEF Running
  <2> QED
    BY <2>1 DEF Inv, DeadStaysOut
<1>2. /\ pc' = [pc EXCEPT ![th] = "begin"]
      /\ theTask' = [theTask EXCEPT ![th] = t]
  BY <1>1 DEF Found
<1>3. \A u \in Tasks, x \in Threads : Running(u, x)' <=> Running(u, x) \/ (u = t /\ x = th)
  BY <1>2 DEF Inv, TypeOK, Running, Holding
<1>4. \A u \in Tasks, x \in Threads : Kept(u, x)' <=> Kept(u, x)
  BY <1>3 DEF Kept
<1>5. \A u \in Tasks, d \in Callers : Placing(u, d)' <=> Placing(u, d)
  BY DEF Placing
<1>6. \A u \in Tasks : Valid(u)' <=> Valid(u)
  BY DEF Valid
<1>7. OnePlace'
  <2>1. \A u \in Tasks, x \in Threads : ~(InQueue(u, x)' /\ u \in fHeap'[x])
    BY DEF Inv, OnePlace
  <2>2. \A u \in Tasks, x \in Threads : ~(Running(u, x)' /\ (InQueue(u, x)' \/ u \in fHeap'[x]))
    BY <1>3 DEF Inv, OnePlace
  <2>3. \A u \in Tasks, x, y \in Threads : Kept(u, x)' /\ Kept(u, y)' => x = y
    BY <1>4 DEF Inv, OnePlace
  <2>4. \A u \in Tasks, x \in Threads, d \in Callers : ~(Kept(u, x)' /\ Placing(u, d)')
    BY <1>4, <1>5 DEF Inv, OnePlace
  <2>5. \A u \in Tasks, d, e \in Callers : Placing(u, d)' /\ Placing(u, e)' => d = e
    BY <1>5 DEF Inv, OnePlace
  <2> QED
    BY <2>1, <2>2, <2>3, <2>4, <2>5 DEF OnePlace, NoRepeat
<1>8. AliveIffScheduled'
  <2>1. \A u \in Tasks : Scheduled(u)' <=> Scheduled(u)
    BY <1>4, <1>5 DEF Scheduled
  <2> QED
    BY <1>6, <2>1 DEF Inv, AliveIffScheduled
<1>9. DeadStaysOut'
  <2> SUFFICES ASSUME NEW u \in Tasks, ~Valid(u)
               PROVE  /\ kAlive \in fEvents[u]
                      /\ \A d \in Callers : ~Placing(u, d)
                      /\ \A x \in Threads : Kept(u, x) => Running(u, x)' /\ pc'[x] = "delete"
    BY <1>4, <1>5, <1>6 DEF DeadStaysOut
  <2>1. ASSUME NEW x \in Threads, Kept(u, x) PROVE Running(u, x)' /\ pc'[x] = "delete"
    <3>1. Running(u, x) /\ pc[x] = "delete"
      BY <2>1 DEF Inv, DeadStaysOut
    <3>2. x # th
      BY <3>1 DEF Holding
    <3> QED
      BY <1>2, <1>3, <3>1, <3>2 DEF Inv, TypeOK
  <2> QED
    BY <2>1 DEF Inv, DeadStaysOut
<1>10. SameThread'
  BY <1>4 DEF Inv, SameThread
<1>11. ExitOnlyOnStop' /\ DoomedIsDead'
  BY <1>2 DEF Inv, TypeOK, ExitOnlyOnStop, DoomedIsDead, Valid
<1> QED
  BY <1>7, <1>8, <1>9, <1>10, <1>11 DEF Inv

LEMMA TakeTimerStep ==
    ASSUME Inv, TypeOK', NEW th \in Threads, TakeTimer(th)
    PROVE  Inv'
<1>1. PICK t \in fHeap[th] : fHeap' = [fHeap EXCEPT ![th] = @ \ {t}] /\ Found(th, t)
  BY DEF TakeTimer
<1>2. /\ pc[th] \notin Holding /\ t \in Tasks /\ Kept(t, th)
      /\ UNCHANGED <<fEvents, fTaskName, fUseThisThread, sig, stop, fTaskQueue>>
  BY <1>1 DEF Inv, TypeOK, TakeTimer, Holding, Kept, taskVars
<1>3. \A u \in Tasks, x \in Threads : u \in fHeap'[x] <=> u \in fHeap[x] /\ ~(u = t /\ x = th)
  BY <1>1 DEF Inv, TypeOK
<1>4. \A u \in Tasks, x \in Threads : InQueue(u, x)' <=> InQueue(u, x)
  BY <1>2 DEF InQueue
<1>5. ~InQueue(t, th)
  BY <1>1, <1>2 DEF Inv, OnePlace
<1>6. \A x \in Threads : NoRepeat(fTaskQueue'[x])
  BY <1>2 DEF Inv, OnePlace, NoRepeat
<1> QED
  BY <1>1, <1>2, <1>3, <1>4, <1>5, <1>6, TakeStep

LEMMA DeQueueStep ==
    ASSUME Inv, TypeOK', NEW th \in Threads, DeQueue(th)
    PROVE  Inv'
<1> DEFINE q == fTaskQueue[th]
           t == Head(q)
<1>1. q \in Seq(Tasks) /\ q # <<>> /\ NoRepeat(q)
  BY DEF Inv, TypeOK, DeQueue, OnePlace, NoRepeat
<1>2. /\ t \in Tasks /\ Member(t, q)
      /\ \A u : Member(u, Tail(q)) <=> Member(u, q) /\ u # t
      /\ NoRepeat(Tail(q))
  BY <1>1, TailFacts
<1>3. /\ pc[th] \notin Holding /\ Found(th, t)
      /\ fTaskQueue' = [fTaskQueue EXCEPT ![th] = Tail(q)]
      /\ UNCHANGED <<fEvents, fTaskName, fUseThisThread, sig, stop, fHeap>>
  BY DEF DeQueue, Holding, taskVars
<1>4. fTaskQueue'[th] = Tail(q) /\ \A x \in Threads : x # th => fTaskQueue'[x] = fTaskQueue[x]
  BY <1>3 DEF Inv, TypeOK
<1>5. InQueue(t, th) /\ Kept(t, th)
  BY <1>2 DEF InQueue, Member, Kept
<1>6. t \notin fHeap[th]
  BY <1>2, <1>5 DEF Inv, OnePlace
<1>7. \A u \in Tasks, x \in Threads : InQueue(u, x)' <=> InQueue(u, x) /\ ~(u = t /\ x = th)
  <2>1. \A u \in Tasks : Member(u, fTaskQueue'[th]) <=> Member(u, fTaskQueue[th]) /\ u # t
    BY <1>2, <1>4
  <2> QED
    BY <1>4, <2>1 DEF InQueue, Member
<1>8. \A x \in Threads : NoRepeat(fTaskQueue'[x])
  BY <1>2, <1>4 DEF Inv, OnePlace, NoRepeat
<1> HIDE DEF q, t
<1> QED
  BY <1>2, <1>3, <1>5, <1>6, <1>7, <1>8, TakeStep

\* What a thread inside the loop of Entry() knows of its task.
LEMMA HeldTask ==
    ASSUME Inv, NEW th \in Threads, pc[th] \in Holding
    PROVE  /\ theTask[th] \in Tasks /\ Running(theTask[th], th) /\ Kept(theTask[th], th)
           /\ kAlive \in fEvents[theTask[th]]
           /\ \A x \in Threads : Kept(theTask[th], x) => x = th
           /\ \A c \in Callers : ~Placing(theTask[th], c)
           /\ ~InQueue(theTask[th], th) /\ theTask[th] \notin fHeap[th]
           /\ pc[th] # "delete" => Valid(theTask[th])
<1>1. theTask[th] \in Tasks /\ Running(theTask[th], th) /\ Kept(theTask[th], th)
  BY DEF Inv, TypeOK, Running, Kept
<1>2. kAlive \in fEvents[theTask[th]]
  BY <1>1 DEF Inv, AliveIffScheduled, DeadStaysOut, Scheduled
<1>3. pc[th] # "delete" => Valid(theTask[th])
  BY <1>1 DEF Inv, DeadStaysOut
<1> QED
  BY <1>1, <1>2, <1>3 DEF Inv, OnePlace

\* A thread that marks its task dead keeps it until it is deleted.
LEMMA ReturnStep ==
    ASSUME Inv, TypeOK', NEW th \in Threads, Return(th)
    PROVE  Inv'
<1> DEFINE t == theTask[th]
<1>1. /\ t \in Tasks /\ Valid(t) /\ kAlive \in fEvents[t]
      /\ \A x \in Threads : Kept(t, x) => x = th
      /\ \A c \in Callers : ~Placing(t, c)
      /\ Running(t, th)
  BY HeldTask DEF Return, Holding
<1>2. PICK next \in {"delete", "cas", "insert"} :
        /\ pc' = [pc EXCEPT ![th] = next]
        /\ fTaskName' = IF next = "delete" THEN [fTaskName EXCEPT ![t] = "D"] ELSE fTaskName
  BY DEF Return
<1>3. UNCHANGED <<fTaskQueue, fHeap, fEvents, fUseThisThread, theTask, sig, stop>>
  BY DEF Return
<1>4. \A u \in Tasks : Valid(u)' <=> Valid(u) /\ ~(u = t /\ next = "delete")
  BY <1>1, <1>2 DEF Inv, TypeOK, Valid
<1>5. \A u \in Tasks, x \in Threads :
         /\ Running(u, x)' <=> Running(u, x)
         /\ InQueue(u, x)' <=> InQueue(u, x)
         /\ Kept(u, x)' <=> Kept(u, x)
  <2>1. \A x \in Threads : pc'[x] \in Holding <=> pc[x] \in Holding
    BY <1>2 DEF Inv, TypeOK, Holding, Return
  <2> QED
    BY <1>3, <2>1 DEF Running, Kept, InQueue
<1>6. \A u \in Tasks, d \in Callers : Placing(u, d)' <=> Placing(u, d)
  BY <1>3 DEF Placing
<1>7. OnePlace' /\ SameThread'
  BY <1>3, <1>5, <1>6 DEF Inv, OnePlace, SameThread
<1>8. AliveIffScheduled'
  <2>1. \A u \in Tasks : Scheduled(u)' <=> Scheduled(u)
    BY <1>5, <1>6 DEF Scheduled
  <2> QED
    BY <1>3, <1>4, <2>1 DEF Inv, AliveIffScheduled
<1>9. DeadStaysOut'
  <2> SUFFICES ASSUME NEW u \in Tasks, ~Valid(u)'
               PROVE  /\ kAlive \in fEvents[u]
                      /\ \A d \in Callers : ~Placing(u, d)
                      /\ \A x \in Threads : Kept(u, x) => Running(u, x) /\ pc'[x] = "delete"
    BY <1>3, <1>5, <1>6 DEF DeadStaysOut
  <2>1. CASE u = t
    BY <1>1, <1>2, <1>4, <2>1 DEF Inv, TypeOK
  <2>2. CASE u # t
    <3>1. ASSUME NEW x \in Threads, Kept(u, x) PROVE Running(u, x) /\ pc'[x] = "delete"
      <4>1. Running(u, x) /\ pc[x] = "delete"
        BY <1>4, <2>2, <3>1 DEF Inv, DeadStaysOut
      <4>2. x # th
        BY <2>2, <4>1 DEF Running
      <4> QED
        BY <1>2, <4>1, <4>2 DEF Inv, TypeOK
    <3> QED
      BY <1>4, <2>2, <3>1 DEF Inv, DeadStaysOut
  <2> QED
    BY <2>1, <2>2
<1>10. ExitOnlyOnStop'
  BY <1>2, <1>3 DEF Inv, TypeOK, ExitOnlyOnStop
<1>11. DoomedIsDead'
  <2> SUFFICES ASSUME NEW x \in Threads, pc'[x] = "delete" PROVE ~Valid(theTask[x])'
    BY <1>3 DEF DoomedIsDead
  <2>1. CASE x = th
    BY <1>1, <1>2, <1>3, <2>1 DEF Inv, TypeOK, Valid
  <2>2. CASE x # th
    <3>1. pc[x] = "delete" /\ theTask[x] \in Tasks /\ ~Valid(theTask[x])
      BY <1>2, <2>2 DEF Inv, TypeOK, Holding, DoomedIsDead
    <3> QED
      BY <1>2, <1>3, <3>1 DEF Inv, TypeOK, Valid
  <2> QED
    BY <2>1, <2>2
<1> QED
  BY <1>7, <1>8, <1>9, <1>10, <1>11 DEF Inv

\* A thread lets go of its task: the task is deleted, its mask was exchanged
\* for 0, or it went to the thread's heap.
LEMMA ReleaseStep ==
    ASSUME Inv, TypeOK', NEW th \in Threads, pc[th] \in Holding,
           pc' = [pc EXCEPT ![th] = "wait"],
           theTask' = [theTask EXCEPT ![th] = NoTask],
           UNCHANGED <<fTaskQueue, fUseThisThread, sig, stop>>,
           \A u \in Tasks : Valid(u)' <=> Valid(u),
           NEW kept \in BOOLEAN,
           \A u \in Tasks, x \in Threads :
              u \in fHeap'[x] <=> u \in fHeap[x] \/ (kept /\ u = theTask[th] /\ x = th),
           \A u \in Tasks : kAlive \in fEvents'[u] <=>
              kAlive \in fEvents[u] /\ (u = theTask[th] /\ Valid(u) => kept),
           kept => Valid(theTask[th])
    PROVE  Inv'
<1> DEFINE t == theTask[th]
<1>1. /\ t \in Tasks /\ Kept(t, th) /\ kAlive \in fEvents[t]
      /\ \A x \in Threads : Kept(t, x) => x = th
      /\ \A c \in Callers : ~Placing(t, c)
      /\ ~InQueue(t, th) /\ t \notin fHeap[th]
  BY HeldTask
<1>2. \A u \in Tasks, x \in Threads :
         /\ InQueue(u, x)' <=> InQueue(u, x)
         /\ Running(u, x)' <=> Running(u, x) /\ x # th
  BY DEF Inv, TypeOK, InQueue, Running, Holding
<1>3. \A u \in Tasks, x \in Threads :
         Kept(u, x)' <=> Kept(u, x) /\ (u = t => kept)
  <2> SUFFICES ASSUME NEW u \in Tasks, NEW x \in Threads
               PROVE  Kept(u, x)' <=> Kept(u, x) /\ (u = t => kept)
    OBVIOUS
  <2>1. CASE u = t
    BY <1>1, <1>2, <2>1 DEF Kept
  <2>2. CASE u # t
    <3>1. ~Running(u, th)
      BY <2>2 DEF Running
    <3> QED
      BY <1>2, <2>2, <3>1 DEF Kept
  <2> QED
    BY <2>1, <2>2
<1>4. \A u \in Tasks, d \in Callers : Placing(u, d)' <=> Placing(u, d)
  BY DEF Placing
<1>5. OnePlace'
  <2>1. \A u \in Tasks, x \in Threads : ~(InQueue(u, x)' /\ u \in fHeap'[x])
    BY <1>1, <1>2 DEF Inv, OnePlace
  <2>2. \A u \in Tasks, x \in Threads : ~(Running(u, x)' /\ (InQueue(u, x)' \/ u \in fHeap'[x]))
    BY <1>1, <1>2 DEF Inv, OnePlace
  <2>3. \A u \in Tasks, x, y \in Threads : Kept(u, x)' /\ Kept(u, y)' => x = y
    BY <1>3 DEF Inv, OnePlace
  <2>4. \A u \in Tasks, x \in Threads, d \in Callers : ~(Kept(u, x)' /\ Placing(u, d)')
    BY <1>3, <1>4 DEF Inv, OnePlace
  <2>5. \A u \in Tasks, d, e \in Callers : Placing(u, d)' /\ Placing(u, e)' => d = e
    BY <1>4 DEF Inv, OnePlace
  <2> QED
    BY <2>1, <2>2, <2>3, <2>4, <2>5 DEF Inv, OnePlace
<1>6. AliveIffScheduled'
  <2> SUFFICES ASSUME NEW u \in Tasks, Valid(u)
               PROVE  kAlive \in fEvents'[u] <=> Scheduled(u)'
    BY DEF AliveIffScheduled
  <2>1. CASE u = t
    BY <1>1, <1>3, <1>4, <2>1 DEF Scheduled
  <2>2. CASE u # t
    <3>1. Scheduled(u)' <=> Scheduled(u)
      BY <1>3, <1>4, <2>2 DEF Scheduled
    <3> QED
      BY <2>2, <3>1 DEF Inv, AliveIffScheduled
  <2> QED
    BY <2>1, <2>2
<1>7. DeadStaysOut'
  <2> SUFFICES ASSUME NEW u \in Tasks, ~Valid(u)
               PROVE  /\ kAlive \in fEvents'[u]
                      /\ \A d \in Callers : ~Placing(u, d)
                      /\ \A x \in Threads : Kept(u, x)' => Running(u, x)' /\ pc'[x] = "delete"
    BY <1>4 DEF DeadStaysOut
  <2>1. ASSUME NEW x \in Threads, Kept(u, x)' PROVE Running(u, x)' /\ pc'[x] = "delete"
    <3>1. u # t /\ Running(u, x) /\ pc[x] = "delete"
      BY <1>3, <2>1 DEF Inv, DeadStaysOut
    <3>2. x # th
      BY <3>1 DEF Running
    <3> QED
      BY <1>2, <3>1, <3>2 DEF Inv, TypeOK
  <2> QED
    BY <2>1 DEF Inv, DeadStaysOut
<1>8. SameThread'
  BY <1>3 DEF Inv, SameThread
<1>9. ExitOnlyOnStop'
  BY DEF Inv, TypeOK, ExitOnlyOnStop
<1>10. DoomedIsDead'
  <2> SUFFICES ASSUME NEW x \in Threads, pc'[x] = "delete" PROVE ~Valid(theTask[x])'
    BY DEF DoomedIsDead
  <2>1. x # th /\ pc[x] = "delete" /\ theTask'[x] = theTask[x] /\ theTask[x] \in Tasks
    BY DEF Inv, TypeOK, Holding
  <2>2. ~Valid(theTask[x])
    BY <2>1 DEF Inv, DoomedIsDead
  <2> QED
    BY <2>1, <2>2 DEF Valid
<1> QED
  BY <1>5, <1>6, <1>7, <1>8, <1>9, <1>10 DEF Inv

\* The three ways to let go.
LEMMA ReleasingSteps ==
    ASSUME Inv, TypeOK', NEW th \in Threads,
           Delete(th) \/ Exchange(th) \/ InsertTimer(th)
    PROVE  Inv'
<1> DEFINE t == theTask[th]
<1>1. pc[th] \in Holding
  BY DEF Delete, Exchange, InsertTimer, Holding
<1>2. t \in Tasks /\ kAlive \in fEvents[t] /\ (pc[th] # "delete" => Valid(t))
  BY <1>1, HeldTask
<1>3. CASE Delete(th)
  <2>1. \A u \in Tasks : Valid(u)' <=> Valid(u)
    <3>1. ~Valid(t)
      BY <1>3 DEF Inv, DoomedIsDead, Delete
    <3> QED
      BY <1>2, <1>3, <3>1 DEF Inv, TypeOK, Delete, Valid
  <2>2. \A u \in Tasks : kAlive \in fEvents'[u] <=>
           kAlive \in fEvents[u] /\ (u = theTask[th] /\ Valid(u) => FALSE)
    <3>1. ~Valid(t)
      BY <1>3 DEF Inv, DoomedIsDead, Delete
    <3> QED
      BY <1>3, <3>1 DEF Delete
  <2> QED
    BY <1>1, <1>3, <2>1, <2>2, ReleaseStep DEF Delete
<1>4. CASE Exchange(th) /\ fEvents[t] = expected[th]
  <2>1. \A u \in Tasks : Valid(u)' <=> Valid(u)
    BY <1>4 DEF Exchange, Valid
  <2>2. \A u \in Tasks : kAlive \in fEvents'[u] <=>
           kAlive \in fEvents[u] /\ (u = theTask[th] /\ Valid(u) => FALSE)
    BY <1>2, <1>4 DEF Inv, TypeOK, Exchange
  <2> QED
    BY <1>1, <1>4, <2>1, <2>2, ReleaseStep DEF Exchange
<1>5. CASE Exchange(th) /\ fEvents[t] # expected[th]
  <2>1. /\ UNCHANGED <<fEvents, fTaskName, fUseThisThread, fTaskQueue, fHeap, theTask, sig, stop>>
        /\ pc' = [pc EXCEPT ![th] = "store"] /\ pc[th] = "xchg"
    BY <1>5 DEF Exchange
  <2>2. \A u \in Tasks, x \in Threads : Running(u, x)' <=> Running(u, x)
    BY <2>1 DEF Inv, TypeOK, Running, Holding
  <2>3. Still
    BY <2>1, <2>2 DEF Still, Placing
  <2>4. OnePlace' /\ AliveIffScheduled' /\ DeadStaysOut'
    <3>1. \A u \in Tasks, x \in Threads : Running(u, x) => (pc[x] = "delete" <=> pc'[x] = "delete")
      BY <2>1 DEF Inv, TypeOK
    <3> QED
      BY <2>3, <3>1, StillStep
  <2>5. SameThread'
    BY <2>1, <2>2 DEF Inv, SameThread, Kept, InQueue
  <2>6. ExitOnlyOnStop' /\ DoomedIsDead'
    BY <2>1 DEF Inv, TypeOK, ExitOnlyOnStop, DoomedIsDead, Valid
  <2> QED
    BY <2>4, <2>5, <2>6 DEF Inv
<1>6. CASE InsertTimer(th)
  <2>1. \A u \in Tasks : Valid(u)' <=> Valid(u)
    BY <1>6 DEF InsertTimer, Valid
  <2>2. \A u \in Tasks : kAlive \in fEvents'[u] <=>
           kAlive \in fEvents[u] /\ (u = theTask[th] /\ Valid(u) => TRUE)
    BY <1>2, <1>6 DEF Inv, TypeOK, InsertTimer, kAlive, kIdleEvent
  <2>3. \A u \in Tasks, x \in Threads :
           u \in fHeap'[x] <=> u \in fHeap[x] \/ (TRUE /\ u = theTask[th] /\ x = th)
    BY <1>6 DEF Inv, TypeOK, InsertTimer
  <2> QED
    BY <1>1, <1>2, <1>6, <2>1, <2>2, <2>3, ReleaseStep DEF InsertTimer
<1> QED
  BY <1>3, <1>4, <1>5, <1>6

LEMMA InvStep == Inv /\ [Next]_vars => Inv'
<1> SUFFICES ASSUME Inv, [Next]_vars PROVE Inv'
  OBVIOUS
<1>1. TypeOK'
  BY TypeStep DEF Inv
<1>2. CASE \E c \in Callers : Signal(c)
  BY <1>1, <1>2, OutsideSteps, SignalOrStep, SignalPlaceStep DEF Signal
<1>3. ASSUME NEW th \in Threads, Entry(th) PROVE Inv'
  <2>1. CASE TakeTimer(th) \/ DeQueue(th) \/ Return(th)
    BY <1>1, <2>1, TakeTimerStep, DeQueueStep, ReturnStep
  <2>2. CASE \/ NoTimerDue(th) \/ WaitExpires(th) \/ BeginRun(th) \/ GetEvents(th)
             \/ ForceSameThread(th) \/ LoadExpected(th) \/ StoreExpected(th)
    BY <1>1, <2>2, StayingSteps
  <2>3. CASE Delete(th) \/ Exchange(th) \/ InsertTimer(th)
    BY <1>1, <2>3, ReleasingSteps
  <2> QED
    BY <1>3, <2>1, <2>2, <2>3 DEF Entry, WaitForTask
<1>4. CASE \/ \E t \in Tasks : TimerExpires(t)
           \/ \E th \in Threads : SendStopRequest(th)
           \/ UNCHANGED vars
  BY <1>1, <1>4, OutsideSteps
<1> QED
  BY <1>2, <1>3, <1>4 DEF Next, RunNext

LEMMA Invariance == Spec => []Inv
  BY InitInv, InvStep, PTL DEF Spec

\* Run() is never re-entered: however many callers signal a task while it runs,
\* waits in a queue or in a timer heap, it is in one place.
THEOREM RunNotReentered == Spec => []OnePlace
<1>1. Inv => OnePlace
  BY DEF Inv
<1> QED
  BY <1>1, Invariance, PTL

\* kAlive tells the truth: a live task that Signal() leaves alone is scheduled.
THEOREM NoTaskStranded == Spec => []AliveIffScheduled
<1>1. Inv => AliveIffScheduled
  BY DEF Inv
<1> QED
  BY <1>1, Invariance, PTL

\* A dead task is not scheduled again by a Signal() that races its deletion.
THEOREM DeadNotScheduled == Spec => []DeadStaysOut
<1>1. Inv => DeadStaysOut
  BY DEF Inv
<1> QED
  BY <1>1, Invariance, PTL

\* ForceSameThread() is honoured across queues and timers.
THEOREM ForceSameThreadHonoured == Spec => []SameThread
<1>1. Inv => SameThread
  BY DEF Inv
<1> QED
  BY <1>1, Invariance, PTL

\* A TaskThread quits only on a stop request, never because it met a dead task.
THEOREM QuitsOnlyOnStop == Spec => []ExitOnlyOnStop
<1>1. Inv => ExitOnlyOnStop
  BY DEF Inv
<1> QED
  BY <1>1, Invariance, PTL

----------------------------------------------------------------------------
(***************************************************************************)
(* The scheduler of TaskSched implements TaskLifecycle, for any number of  *)
(* tasks, threads and callers.                                             *)
(***************************************************************************)

\* A task whose place, name, kAlive bit and request did not change.
Untouched(u) ==
    /\ Valid(u)' <=> Valid(u)
    /\ kAlive \in fEvents'[u] <=> kAlive \in fEvents[u]
    /\ fUseThisThread'[u] = fUseThisThread[u]
    /\ \A x \in Threads :
          /\ Running(u, x)' <=> Running(u, x)
          /\ (InQueue(u, x)' \/ u \in fHeap'[x]) <=> (InQueue(u, x) \/ u \in fHeap[x])

\* The abstract state of a task.
SameImage(u) ==
    statusOf'[u] = statusOf[u] /\ runnerOf'[u] = runnerOf[u] /\ boundOf'[u] = boundOf[u]

LEMMA UntouchedImage ==
    ASSUME NEW u \in Tasks, Untouched(u)
    PROVE  SameImage(u)
<1>1. RunnersOf(u)' = RunnersOf(u)
  BY DEF Untouched, RunnersOf, Running
<1>2. KeepersOf(u)' = KeepersOf(u)
  BY DEF Untouched, KeepersOf
<1>3. runnerOf'[u] = runnerOf[u]
  BY <1>1 DEF runnerOf
<1>4. boundOf'[u] = boundOf[u]
  BY <1>2 DEF boundOf, Untouched
<1>5. statusOf'[u] = statusOf[u]
  BY <1>1 DEF statusOf, Untouched
<1> QED
  BY <1>3, <1>4, <1>5 DEF SameImage

\* What the mapping gives a task that a thread runs, one that a thread keeps in
\* its queue or heap, and one that no thread has.
ImageFacts ==
    \A u \in Tasks :
        /\ \A th \in Threads : Running(u, th) =>
              /\ runnerOf[u] = th /\ boundOf[u] = fUseThisThread[u]
              /\ statusOf[u] = IF Valid(u) THEN "running" ELSE "gone"
        /\ \A th \in Threads : InQueue(u, th) \/ u \in fHeap[th] =>
              statusOf[u] = "ready" /\ runnerOf[u] = NoThread /\ boundOf[u] = th
        /\ (\A th \in Threads : ~Kept(u, th)) =>
              /\ runnerOf[u] = NoThread /\ boundOf[u] = fUseThisThread[u]
              /\ statusOf[u] = IF ~Valid(u) THEN "gone"
                               ELSE IF kAlive \in fEvents[u] THEN "ready" ELSE "idle"

LEMMA Images == Inv => ImageFacts
<1> SUFFICES ASSUME Inv, NEW u \in Tasks
             PROVE  ImageFacts!(u)
  BY DEF ImageFacts
<1>1. ASSUME NEW th \in Threads, Running(u, th)
      PROVE  /\ runnerOf[u] = th /\ boundOf[u] = fUseThisThread[u]
             /\ statusOf[u] = IF Valid(u) THEN "running" ELSE "gone"
  <2>1. RunnersOf(u) = {th} /\ KeepersOf(u) = {}
    BY <1>1 DEF Inv, OnePlace, Kept, RunnersOf, KeepersOf, Running
  <2> QED
    BY <2>1 DEF runnerOf, boundOf, statusOf
<1>2. ASSUME NEW th \in Threads, InQueue(u, th) \/ u \in fHeap[th]
      PROVE  statusOf[u] = "ready" /\ runnerOf[u] = NoThread /\ boundOf[u] = th
  <2>1. KeepersOf(u) = {th} /\ RunnersOf(u) = {}
    BY <1>2 DEF Inv, OnePlace, Kept, RunnersOf, KeepersOf, Running
  <2>2. Valid(u) /\ kAlive \in fEvents[u]
    BY <1>2 DEF Inv, OnePlace, DeadStaysOut, AliveIffScheduled, Scheduled, Kept
  <2> QED
    BY <2>1, <2>2 DEF runnerOf, boundOf, statusOf
<1>3. ASSUME \A th \in Threads : ~Kept(u, th)
      PROVE  /\ runnerOf[u] = NoThread /\ boundOf[u] = fUseThisThread[u]
             /\ statusOf[u] = IF ~Valid(u) THEN "gone"
                              ELSE IF kAlive \in fEvents[u] THEN "ready" ELSE "idle"
  <2>1. KeepersOf(u) = {} /\ RunnersOf(u) = {}
    BY <1>3 DEF Kept, RunnersOf, KeepersOf, Running
  <2> QED
    BY <2>1 DEF runnerOf, boundOf, statusOf
<1> QED
  BY <1>1, <1>2, <1>3

LEMMA ImagesNext == Inv' => ImageFacts'
  BY Images, PTL

\* The maps after a step that touched one task.
LEMMA OneTouched ==
    ASSUME NEW t \in Tasks, \A u \in Tasks : u # t => Untouched(u)
    PROVE  /\ statusOf' = [statusOf EXCEPT ![t] = statusOf'[t]]
           /\ runnerOf' = [runnerOf EXCEPT ![t] = runnerOf'[t]]
           /\ boundOf' = [boundOf EXCEPT ![t] = boundOf'[t]]
           /\ statusOf'[t] = statusOf[t] => statusOf' = statusOf
           /\ runnerOf'[t] = runnerOf[t] => runnerOf' = runnerOf
           /\ boundOf'[t] = boundOf[t] => boundOf' = boundOf
<1>1. \A u \in Tasks : u # t => SameImage(u)
  BY UntouchedImage
<1>2. /\ statusOf = [u \in Tasks |-> statusOf[u]] /\ statusOf' = [u \in Tasks |-> statusOf'[u]]
      /\ runnerOf = [u \in Tasks |-> runnerOf[u]] /\ runnerOf' = [u \in Tasks |-> runnerOf'[u]]
      /\ boundOf = [u \in Tasks |-> boundOf[u]] /\ boundOf' = [u \in Tasks |-> boundOf'[u]]
  BY DEF statusOf, runnerOf, boundOf
<1> QED
  BY <1>1, <1>2 DEF SameImage

LEMMA NoneTouched ==
    ASSUME \A u \in Tasks : Untouched(u)
    PROVE  UNCHANGED <<statusOf, runnerOf, boundOf>>
<1>1. \A u \in Tasks : SameImage(u)
  BY UntouchedImage
<1>2. /\ statusOf = [u \in Tasks |-> statusOf[u]] /\ statusOf' = [u \in Tasks |-> statusOf'[u]]
      /\ runnerOf = [u \in Tasks |-> runnerOf[u]] /\ runnerOf' = [u \in Tasks |-> runnerOf'[u]]
      /\ boundOf = [u \in Tasks |-> boundOf[u]] /\ boundOf' = [u \in Tasks |-> boundOf'[u]]
  BY DEF statusOf, runnerOf, boundOf
<1> QED
  BY <1>1, <1>2 DEF SameImage
----------------------------------------------------------------------------
(* The steps *)

\* Steps that leave every task where it is.
LEMMA QuietSteps ==
    ASSUME Inv, Inv', NEW th \in Threads,
           \/ NoTimerDue(th) \/ WaitExpires(th) \/ GetEvents(th) \/ LoadExpected(th)
           \/ StoreExpected(th) \/ (Exchange(th) /\ fEvents[theTask[th]] # expected[th])
    PROVE  UNCHANGED <<statusOf, runnerOf, boundOf>>
<1>1. /\ \A x \in Threads : pc'[x] \in Holding <=> pc[x] \in Holding
      /\ UNCHANGED <<theTask, fTaskQueue, fHeap, fTaskName, fUseThisThread>>
  BY DEF Inv, TypeOK, NoTimerDue, WaitExpires, GetEvents, LoadExpected, StoreExpected,
     Exchange, Holding, PCs, taskVars
<1>2. \A u \in Tasks : kAlive \in fEvents'[u] <=> kAlive \in fEvents[u]
  <2>1. CASE GetEvents(th)
    <3>1. theTask[th] \in Tasks
      BY <2>1 DEF Inv, TypeOK, GetEvents, Holding
    <3> QED
      BY <2>1, <3>1 DEF Inv, TypeOK, GetEvents
  <2>2. CASE UNCHANGED fEvents
    BY <2>2
  <2> QED
    BY <2>1, <2>2 DEF NoTimerDue, WaitExpires, LoadExpected, StoreExpected, Exchange, taskVars
<1>3. \A u \in Tasks : Untouched(u)
  BY <1>1, <1>2 DEF Untouched, Running, InQueue, Valid
<1> QED
  BY <1>3, NoneTouched

LEMMA QuietOutside ==
    ASSUME Inv,
           \/ \E c \in Callers, t \in Tasks, e \in Events : SignalEnter(c, t, e)
           \/ \E t \in Tasks : TimerExpires(t)
           \/ \E x \in Threads : SendStopRequest(x)
           \/ UNCHANGED vars
    PROVE  UNCHANGED <<statusOf, runnerOf, boundOf>>
<1>1. UNCHANGED <<fEvents, theTask, pc, fTaskQueue, fHeap, fTaskName, fUseThisThread>>
  BY DEF SignalEnter, TimerExpires, SendStopRequest, vars, taskVars, threadVars
<1>2. \A u \in Tasks : Untouched(u)
  BY <1>1 DEF Untouched, Running, InQueue, Valid
<1> QED
  BY <1>2, NoneTouched

\* Run() is entered, or asks for its thread.
LEMMA BindStep ==
    ASSUME Inv, Inv', NEW th \in Threads, BeginRun(th) \/ ForceSameThread(th)
    PROVE  \E t \in Tasks : Lifecycle!Bind(t)
<1>1. pc[th] \in Holding /\ pc[th] # "delete"
  BY DEF BeginRun, ForceSameThread, Holding
<1>2. PICK t \in Tasks : t = theTask[th] /\ Running(t, th) /\ Valid(t)
  BY <1>1, HeldTask
<1>3. /\ \A x \in Threads : pc'[x] \in Holding <=> pc[x] \in Holding
      /\ UNCHANGED <<theTask, fTaskQueue, fHeap, fTaskName, fEvents>>
  BY DEF Inv, TypeOK, BeginRun, ForceSameThread, Holding, threadVars
<1>4. /\ \A u \in Tasks : u # t => fUseThisThread'[u] = fUseThisThread[u]
      /\ fUseThisThread'[t] \in {NoThread, th}
  BY <1>2 DEF Inv, TypeOK, BeginRun, ForceSameThread
<1>5. \A u \in Tasks : u # t => Untouched(u)
  BY <1>3, <1>4 DEF Untouched, Running, InQueue, Valid
<1>6. statusOf[t] = "running" /\ runnerOf[t] = th
  BY <1>2, Images DEF ImageFacts
<1>7. Running(t, th)' /\ Valid(t)'
  BY <1>2, <1>3 DEF Running, Valid
<1>8. statusOf'[t] = "running" /\ runnerOf'[t] = th /\ boundOf'[t] = fUseThisThread'[t]
  BY <1>2, <1>7, ImagesNext DEF ImageFacts
<1>9. statusOf' = statusOf /\ runnerOf' = runnerOf /\ boundOf' = [boundOf EXCEPT ![t] = boundOf'[t]]
  BY <1>2, <1>5, <1>6, <1>8, OneTouched
<1> QED
  BY <1>4, <1>6, <1>8, <1>9 DEF Lifecycle!Bind

\* The first Signal() of an idle task.
LEMMA WakeStep ==
    ASSUME Inv, Inv', NEW c \in Callers, SignalOr(c)
    PROVE  (\E t \in Tasks : Lifecycle!Wake(t)) \/ UNCHANGED <<statusOf, runnerOf, boundOf>>
<1>1. PICK t \in Tasks : t = sig[c].task /\ kAlive \in sig[c].events
  BY CallType DEF Inv, SignalOr
<1>2. UNCHANGED <<fTaskQueue, fHeap, fTaskName, fUseThisThread, pc, theTask>>
  BY DEF SignalOr, threadVars
<1>3. \A u \in Tasks : kAlive \in fEvents'[u] <=> kAlive \in fEvents[u] \/ u = t
  BY <1>1 DEF Inv, TypeOK, SignalOr
<1>4. \A u \in Tasks : u # t \/ kAlive \in fEvents[t] => Untouched(u)
  BY <1>2, <1>3 DEF Untouched, Running, InQueue, Valid
<1>5. CASE kAlive \in fEvents[t]
  BY <1>4, <1>5, NoneTouched
<1>6. CASE kAlive \notin fEvents[t]
  <2>1. Valid(t) /\ \A x \in Threads : ~Kept(t, x)
    BY <1>6 DEF Inv, AliveIffScheduled, DeadStaysOut, Scheduled
  <2>2. Valid(t)' /\ \A x \in Threads : ~Kept(t, x)'
    BY <1>2, <2>1 DEF Valid, Kept, InQueue, Running
  <2>3. statusOf[t] = "idle" /\ runnerOf[t] = NoThread /\ boundOf[t] = fUseThisThread[t]
    BY <1>6, <2>1, Images DEF ImageFacts
  <2>4. statusOf'[t] = "ready" /\ runnerOf'[t] = NoThread /\ boundOf'[t] = fUseThisThread'[t]
    BY <1>3, <2>2, ImagesNext DEF ImageFacts
  <2>5. statusOf' = [statusOf EXCEPT ![t] = "ready"] /\ runnerOf' = runnerOf /\ boundOf' = boundOf
    BY <1>2, <1>4, <2>3, <2>4, OneTouched
  <2> QED
    BY <2>3, <2>5 DEF Lifecycle!Wake
<1> QED
  BY <1>5, <1>6

\* The task is placed on a queue: the one it asked for, or a chosen one.
LEMMA ChooseStep ==
    ASSUME Inv, Inv', NEW c \in Callers, SignalPlace(c)
    PROVE  \/ \E t \in Tasks, th \in Threads : Lifecycle!Choose(t, th)
           \/ UNCHANGED <<statusOf, runnerOf, boundOf>>
<1>1. PICK t \in Tasks : t = sig[c].task /\ Placing(t, c)
  BY CallType DEF Inv, SignalPlace, Placing
<1>2. /\ UNCHANGED <<fHeap, fTaskName, fEvents, pc, theTask>>
      /\ \A u \in Tasks : u # t => fUseThisThread'[u] = fUseThisThread[u]
  BY <1>1 DEF Inv, TypeOK, SignalPlace, threadVars
<1>3. PICK to \in Threads : EnQueue(t, to) /\ fUseThisThread[t] \in {NoThread, to}
  <2>1. PickerThreads(t) \subseteq Threads
    BY DEF PickerThreads, Threads
  <2> QED
    BY <1>1, <2>1, SchedAssumption DEF Inv, TypeOK, SignalPlace
<1>4. Valid(t) /\ kAlive \in fEvents[t] /\ \A x \in Threads : ~Kept(t, x)
  BY <1>1 DEF Inv, OnePlace, DeadStaysOut, AliveIffScheduled, Scheduled
<1>5. /\ fTaskQueue'[to] = Append(fTaskQueue[to], t)
      /\ \A x \in Threads : x # to => fTaskQueue'[x] = fTaskQueue[x]
      /\ fTaskQueue[to] \in Seq(Tasks)
  BY <1>3, <1>4 DEF Inv, TypeOK, EnQueue, Kept
<1>6. \A u \in Tasks, x \in Threads : InQueue(u, x)' <=> InQueue(u, x) \/ (u = t /\ x = to)
  <2>1. \A u \in Tasks : Member(u, fTaskQueue'[to]) <=> Member(u, fTaskQueue[to]) \/ u = t
    BY <1>5, AppendFacts
  <2> QED
    BY <1>5, <2>1 DEF InQueue, Member
<1>7. \A u \in Tasks : u # t => Untouched(u)
  BY <1>2, <1>6 DEF Untouched, Running, Valid
<1>8. statusOf[t] = "ready" /\ runnerOf[t] = NoThread /\ boundOf[t] = fUseThisThread[t]
  BY <1>4, Images DEF ImageFacts
<1>9. statusOf'[t] = "ready" /\ runnerOf'[t] = NoThread /\ boundOf'[t] = to
  <2>1. InQueue(t, to)'
    BY <1>6
  <2> QED
    BY <2>1, ImagesNext DEF ImageFacts
<1>10. /\ statusOf' = statusOf /\ runnerOf' = runnerOf
       /\ boundOf' = [boundOf EXCEPT ![t] = to]
       /\ boundOf[t] = to => boundOf' = boundOf
  BY <1>7, <1>8, <1>9, OneTouched
<1>11. CASE fUseThisThread[t] = to
  BY <1>8, <1>10, <1>11
<1>12. CASE fUseThisThread[t] = NoThread
  BY <1>8, <1>10, <1>12 DEF Lifecycle!Choose
<1> QED
  BY <1>3, <1>11, <1>12

\* A thread takes a task from its queue or heap.
LEMMA StartStep ==
    ASSUME Inv, Inv', NEW th \in Threads, TakeTimer(th) \/ DeQueue(th)
    PROVE  \E t \in Tasks : Lifecycle!Start(t, th)
<1>1. PICK t \in Tasks : /\ InQueue(t, th) \/ t \in fHeap[th]
                         /\ Found(th, t)
                         /\ \A u \in Tasks, x \in Threads : u # t =>
                              /\ InQueue(u, x)' <=> InQueue(u, x)
                              /\ u \in fHeap'[x] <=> u \in fHeap[x]
  <2>1. CASE TakeTimer(th)
    <3>1. PICK t \in fHeap[th] : fHeap' = [fHeap EXCEPT ![th] = @ \ {t}] /\ Found(th, t)
      BY <2>1 DEF TakeTimer
    <3>2. t \in Tasks /\ \A u \in Tasks, x \in Threads : u # t => (u \in fHeap'[x] <=> u \in fHeap[x])
      BY <3>1 DEF Inv, TypeOK
    <3>3. \A u \in Tasks, x \in Threads : InQueue(u, x)' <=> InQueue(u, x)
      BY <2>1 DEF TakeTimer, InQueue
    <3> QED
      BY <3>1, <3>2, <3>3
  <2>2. CASE DeQueue(th)
    <3>1. PICK t : t = Head(fTaskQueue[th])
      OBVIOUS
    <3>2. fTaskQueue[th] \in Seq(Tasks) /\ fTaskQueue[th] # <<>> /\ NoRepeat(fTaskQueue[th])
      BY <2>2 DEF Inv, TypeOK, DeQueue, OnePlace, NoRepeat
    <3>3. /\ t \in Tasks /\ Member(t, fTaskQueue[th])
          /\ \A u : Member(u, Tail(fTaskQueue[th])) <=> Member(u, fTaskQueue[th]) /\ u # t
      BY <3>1, <3>2, TailFacts
    <3>4. /\ fTaskQueue'[th] = Tail(fTaskQueue[th])
          /\ \A x \in Threads : x # th => fTaskQueue'[x] = fTaskQueue[x]
          /\ UNCHANGED fHeap /\ Found(th, t)
      BY <2>2, <3>1 DEF Inv, TypeOK, DeQueue
    <3>5. \A u \in Tasks, x \in Threads : u # t => (InQueue(u, x)' <=> InQueue(u, x))
      <4>1. \A u \in Tasks : u # t => (Member(u, fTaskQueue'[th]) <=> Member(u, fTaskQueue[th]))
        BY <3>3, <3>4
      <4> QED
        BY <3>4, <4>1 DEF InQueue, Member
    <3>6. InQueue(t, th)
      BY <3>3 DEF InQueue, Member
    <3> QED
      BY <3>3, <3>4, <3>5, <3>6
  <2> QED
    BY <2>1, <2>2
<1>2. /\ pc[th] \notin Holding
      /\ UNCHANGED <<fEvents, fTaskName, fUseThisThread>>
  BY DEF TakeTimer, DeQueue, Holding, taskVars
<1>3. statusOf[t] = "ready" /\ runnerOf[t] = NoThread /\ boundOf[t] = th
  BY <1>1, Images DEF ImageFacts
<1>4. Valid(t) /\ Kept(t, th)
  <2>1. ~Running(t, th)
    BY <1>2 DEF Running
  <2> QED
    BY <1>1, <2>1 DEF Inv, DeadStaysOut, Kept
<1>5. /\ pc' = [pc EXCEPT ![th] = "begin"]
      /\ theTask' = [theTask EXCEPT ![th] = t]
  BY <1>1, <1>4 DEF Found
<1>6. \A u \in Tasks, x \in Threads : Running(u, x)' <=> Running(u, x) \/ (u = t /\ x = th)
  BY <1>2, <1>5 DEF Inv, TypeOK, Running, Holding
<1>7. \A u \in Tasks : u # t => Untouched(u)
  <2>1. \A u \in Tasks : Valid(u)' <=> Valid(u)
    BY <1>2 DEF Valid
  <2> QED
    BY <1>1, <1>2, <1>6, <2>1 DEF Untouched
<1>8. statusOf'[t] = "running" /\ runnerOf'[t] = th /\ boundOf'[t] \in {th, NoThread}
  <2>1. Valid(t)' /\ Running(t, th)'
    BY <1>2, <1>4, <1>6 DEF Valid
  <2>2. fUseThisThread'[t] \in {th, NoThread}
    BY <1>2, <1>4 DEF Inv, SameThread
  <2> QED
    BY <2>1, <2>2, ImagesNext DEF ImageFacts
<1>9. \A u \in Tasks : runnerOf[u] # th
  <2> SUFFICES ASSUME NEW u \in Tasks PROVE runnerOf[u] # th
    OBVIOUS
  <2>1. RunnersOf(u) \subseteq Threads \ {th}
    BY <1>2 DEF RunnersOf
  <2>2. CASE RunnersOf(u) = {}
    BY <2>2, SchedAssumption DEF runnerOf, Callers
  <2>3. CASE RunnersOf(u) # {}
    BY <2>1, <2>3 DEF runnerOf
  <2> QED
    BY <2>2, <2>3
<1>10. /\ statusOf' = [statusOf EXCEPT ![t] = "running"]
       /\ runnerOf' = [runnerOf EXCEPT ![t] = th]
       /\ boundOf' = [boundOf EXCEPT ![t] = boundOf'[t]]
  BY <1>7, <1>8, OneTouched
<1> QED
  BY <1>3, <1>8, <1>9, <1>10 DEF Lifecycle!Start

\* Run() returned; only a negative value shows.
LEMMA DieStep ==
    ASSUME Inv, Inv', NEW th \in Threads, Return(th)
    PROVE  (\E t \in Tasks : Lifecycle!Die(t)) \/ UNCHANGED <<statusOf, runnerOf, boundOf>>
<1>1. PICK t \in Tasks : t = theTask[th] /\ Running(t, th) /\ Valid(t)
  BY HeldTask DEF Return, Holding
<1>2. PICK next \in {"delete", "cas", "insert"} :
        /\ pc' = [pc EXCEPT ![th] = next]
        /\ fTaskName' = IF next = "delete" THEN [fTaskName EXCEPT ![t] = "D"] ELSE fTaskName
  BY <1>1 DEF Return
<1>3. /\ UNCHANGED <<fTaskQueue, fHeap, fEvents, fUseThisThread, theTask>>
      /\ \A x \in Threads : pc'[x] \in Holding <=> pc[x] \in Holding
  BY <1>2 DEF Inv, TypeOK, Return, Holding
<1>4. \A u \in Tasks : Valid(u)' <=> Valid(u) /\ ~(u = t /\ next = "delete")
  BY <1>1, <1>2 DEF Inv, TypeOK, Valid
<1>5. \A u \in Tasks : u # t \/ next # "delete" => Untouched(u)
  BY <1>3, <1>4 DEF Untouched, Running, InQueue
<1>6. CASE next # "delete"
  BY <1>5, <1>6, NoneTouched
<1>7. CASE next = "delete"
  <2>1. statusOf[t] = "running" /\ runnerOf[t] = th /\ boundOf[t] = fUseThisThread[t]
    BY <1>1, Images DEF ImageFacts
  <2>2. ~Valid(t)' /\ Running(t, th)'
    BY <1>1, <1>3, <1>4, <1>7 DEF Running
  <2>3. statusOf'[t] = "gone" /\ runnerOf'[t] = th /\ boundOf'[t] = fUseThisThread'[t]
    BY <2>2, ImagesNext DEF ImageFacts
  <2>4. statusOf' = [statusOf EXCEPT ![t] = "gone"] /\ runnerOf' = runnerOf /\ boundOf' = boundOf
    BY <1>3, <1>5, <2>1, <2>3, OneTouched
  <2> QED
    BY <2>1, <2>4 DEF Lifecycle!Die
<1> QED
  BY <1>6, <1>7

\* A thread lets go of its task.
LEMMA LetGoStep ==
    ASSUME Inv, Inv', NEW th \in Threads,
           Delete(th) \/ InsertTimer(th) \/ (Exchange(th) /\ fEvents[theTask[th]] = expected[th])
    PROVE  \E t \in Tasks : Lifecycle!Bury(t) \/ Lifecycle!Rest(t) \/ Lifecycle!Rearm(t)
<1>1. PICK t \in Tasks : /\ t = theTask[th] /\ Running(t, th) /\ kAlive \in fEvents[t]
                         /\ pc[th] # "delete" => Valid(t)
                         /\ \A x \in Threads : Kept(t, x) => x = th
                         /\ ~InQueue(t, th) /\ t \notin fHeap[th]
  BY HeldTask DEF Delete, InsertTimer, Exchange, Holding
<1>2. /\ pc' = [pc EXCEPT ![th] = "wait"] /\ theTask' = [theTask EXCEPT ![th] = NoTask]
      /\ UNCHANGED <<fTaskQueue, fUseThisThread>>
  BY DEF Delete, InsertTimer, Exchange
<1>3. \A u \in Tasks, x \in Threads : /\ InQueue(u, x)' <=> InQueue(u, x)
                                      /\ Running(u, x)' <=> Running(u, x) /\ x # th
  BY <1>2 DEF Inv, TypeOK, InQueue, Running, Holding
<1>4. \A u \in Tasks : u # t => ~Running(u, th)
  BY <1>1 DEF Running
<1>5. \A x \in Threads : ~Running(t, x)'
  BY <1>1, <1>3 DEF Kept
<1>6. runnerOf[t] = th /\ boundOf[t] = fUseThisThread[t]
      /\ statusOf[t] = IF Valid(t) THEN "running" ELSE "gone"
  BY <1>1, Images DEF ImageFacts
<1>7. CASE InsertTimer(th)
  <2>1. /\ UNCHANGED fTaskName /\ Valid(t)
        /\ \A u \in Tasks : kAlive \in fEvents'[u] <=> kAlive \in fEvents[u]
        /\ \A u \in Tasks, x \in Threads : u \in fHeap'[x] <=> u \in fHeap[x] \/ (u = t /\ x = th)
    BY <1>1, <1>7 DEF Inv, TypeOK, InsertTimer, kAlive, kIdleEvent
  <2>2. \A u \in Tasks : u # t => Untouched(u)
    BY <1>2, <1>3, <1>4, <2>1 DEF Untouched, Valid
  <2>3. statusOf'[t] = "ready" /\ runnerOf'[t] = NoThread /\ boundOf'[t] = th
    BY <2>1, ImagesNext DEF ImageFacts
  <2>4. /\ statusOf' = [statusOf EXCEPT ![t] = "ready"]
        /\ runnerOf' = [runnerOf EXCEPT ![t] = NoThread] /\ boundOf' = [boundOf EXCEPT ![t] = th]
    BY <2>2, <2>3, OneTouched
  <2> QED
    BY <1>6, <2>1, <2>4 DEF Lifecycle!Rearm
<1>8. CASE ~InsertTimer(th)
  <2>1. UNCHANGED fHeap
    BY <1>8 DEF Delete, Exchange
  <2>2. \A x \in Threads : ~Kept(t, x)'
    BY <1>1, <1>3, <1>5, <2>1 DEF Kept
  <2>3. runnerOf'[t] = NoThread /\ boundOf'[t] = fUseThisThread'[t]
        /\ statusOf'[t] = IF ~Valid(t)' THEN "gone"
                          ELSE IF kAlive \in fEvents'[t] THEN "ready" ELSE "idle"
    BY <2>2, ImagesNext DEF ImageFacts
  <2>4. CASE Delete(th)
    <3>1. ~Valid(t) /\ ~Valid(t)' /\ UNCHANGED fEvents
          /\ \A u \in Tasks : Valid(u)' <=> Valid(u)
      BY <1>1, <2>4 DEF Inv, TypeOK, DoomedIsDead, Delete, Valid
    <3>2. \A u \in Tasks : u # t => Untouched(u)
      BY <1>2, <1>3, <1>4, <2>1, <3>1 DEF Untouched
    <3>3. statusOf' = statusOf /\ boundOf' = boundOf /\ runnerOf' = [runnerOf EXCEPT ![t] = NoThread]
      BY <1>2, <1>6, <2>3, <3>1, <3>2, OneTouched
    <3> QED
      BY <1>6, <3>1, <3>3 DEF Lifecycle!Bury
  <2>5. CASE Exchange(th) /\ fEvents[theTask[th]] = expected[th]
    <3>1. /\ Valid(t) /\ UNCHANGED fTaskName
          /\ fEvents' = [fEvents EXCEPT ![t] = {}]
      BY <1>1, <2>5 DEF Exchange
    <3>2. Valid(t)' /\ kAlive \notin fEvents'[t]
      BY <3>1 DEF Inv, TypeOK, Valid
    <3>3. \A u \in Tasks : u # t => Untouched(u)
      BY <1>2, <1>3, <1>4, <2>1, <3>1 DEF Inv, TypeOK, Untouched, Valid
    <3>4. /\ statusOf' = [statusOf EXCEPT ![t] = "idle"] /\ boundOf' = boundOf
          /\ runnerOf' = [runnerOf EXCEPT ![t] = NoThread]
      BY <1>2, <1>6, <2>3, <3>2, <3>3, OneTouched
    <3> QED
      BY <1>6, <3>1, <3>4 DEF Lifecycle!Rest
  <2> QED
    BY <1>8, <2>4, <2>5
<1> QED
  BY <1>7, <1>8

----------------------------------------------------------------------------

LEMMA InitImage == Init => Lifecycle!Init
<1> SUFFICES ASSUME Init PROVE Lifecycle!Init
  OBVIOUS
<1>1. \A u \in Tasks : RunnersOf(u) = {} /\ KeepersOf(u) = {} /\ Valid(u) /\ kAlive \notin fEvents[u]
  BY DEF Init, RunnersOf, KeepersOf, InQueue, Holding, Valid
<1> QED
  BY <1>1 DEF Init, Lifecycle!Init, statusOf, runnerOf, boundOf

LEMMA StepImage ==
    Inv /\ Inv' /\ [Next]_vars => Lifecycle!Next \/ UNCHANGED <<statusOf, runnerOf, boundOf>>
<1> SUFFICES ASSUME Inv, Inv', [Next]_vars
             PROVE  Lifecycle!Next \/ UNCHANGED <<statusOf, runnerOf, boundOf>>
  OBVIOUS
<1>1. CASE \E c \in Callers : Signal(c)
  BY <1>1, QuietOutside, WakeStep, ChooseStep DEF Signal, Lifecycle!Next
<1>2. ASSUME NEW th \in Threads, Entry(th)
      PROVE  Lifecycle!Next \/ UNCHANGED <<statusOf, runnerOf, boundOf>>
  <2>1. CASE TakeTimer(th) \/ DeQueue(th)
    BY <2>1, StartStep DEF Lifecycle!Next
  <2>2. CASE \/ NoTimerDue(th) \/ WaitExpires(th) \/ GetEvents(th) \/ LoadExpected(th)
             \/ StoreExpected(th) \/ (Exchange(th) /\ fEvents[theTask[th]] # expected[th])
    BY <2>2, QuietSteps
  <2>3. CASE BeginRun(th) \/ ForceSameThread(th)
    BY <2>3, BindStep DEF Lifecycle!Next
  <2>4. CASE Return(th)
    BY <2>4, DieStep DEF Lifecycle!Next
  <2>5. CASE \/ Delete(th) \/ InsertTimer(th)
             \/ (Exchange(th) /\ fEvents[theTask[th]] = expected[th])
    BY <2>5, LetGoStep DEF Lifecycle!Next
  <2> QED
    BY <1>2, <2>1, <2>2, <2>3, <2>4, <2>5 DEF Entry, WaitForTask
<1>3. CASE \/ \E t \in Tasks : TimerExpires(t)
           \/ \E th \in Threads : SendStopRequest(th)
           \/ UNCHANGED vars
  BY <1>3, QuietOutside
<1> QED
  BY <1>1, <1>2, <1>3 DEF Next, RunNext

\* Queues, heaps, masks and the static of the exchange loop implement the life
\* of a task: at most one thread at a time, on the thread it is bound to, and
\* nothing after its death.
THEOREM SchedulerRefinesLifecycle == Spec => ImplementsLifecycle
<1>1. Inv /\ Inv' /\ [Next]_vars => [Lifecycle!Next]_(Lifecycle!lifecycleVars)
  BY StepImage DEF Lifecycle!lifecycleVars
<1> QED
  BY <1>1, InitImage, Invariance, PTL DEF Spec, ImplementsLifecycle, Lifecycle!Spec

============================================================================
