----------------------------- MODULE TaskSched -----------------------------
(***************************************************************************)
(* The task scheduler of CFThread/Task.cpp: Task, TaskThread and the queue *)
(* each TaskThread owns (CFCore/ConcurrentQueue.cpp).                      *)
(*                                                                         *)
(* A Task carries an event mask fEvents.  Signal() ors events and the bit  *)
(* kAlive into it; the caller that turned kAlive on places the task on the *)
(* queue of one TaskThread.  The thread runs the task until Run() returns  *)
(* 0 and the mask could be exchanged for 0, or Run() asks for a timer      *)
(* (> 0: the thread's own heap) or for its deletion (< 0).                 *)
(*                                                                         *)
(* What is left to other modules: the order inside a timer heap            *)
(* (TimerHeap; here an element of fHeap is due or not), the global         *)
(* reader/writer lock taken around Run() (RWMutex), and creating and       *)
(* deleting the pool's threads (here the pool exists, and stopping it is   *)
(* the stop request RemoveThreads sends).                                  *)
(***************************************************************************)
EXTENDS Naturals, Sequences, FiniteSets

CONSTANTS
    Tasks,            \* the Task objects
    ShortThreads,     \* TaskThreads sShortTaskThreadPicker draws from
    BlockingThreads,  \* TaskThreads sBlockingTaskThreadPicker draws from
    Signallers,       \* other threads calling Signal: EventThread, IdleTaskThread
    Events,           \* the event bits callers send
    BlockingTasks,    \* tasks given to SetThreadPicker(GetBlockingTaskThreadPicker())
    DefaultThread,    \* fDefaultThread of each task, NoThread when it is null
    NoThread,         \* nullptr
    NoTask            \* nullptr

Threads == ShortThreads \cup BlockingThreads
Callers == Signallers \cup Threads

ASSUME SchedAssumption ==
    /\ ShortThreads # {} /\ BlockingThreads # {}   \* CFMain forces both >= 1
    /\ Threads \cap Signallers = {}
    /\ NoThread \notin Callers /\ NoTask \notin Tasks
    /\ BlockingTasks \subseteq Tasks
    /\ DefaultThread \in [Tasks -> Threads \cup {NoThread}]

kAlive     == "kAlive"
kIdleEvent == "kIdleEvent"
EventFlags == SUBSET (Events \cup {kAlive, kIdleEvent})

VARIABLES
    fEvents,         \* [Tasks -> EventFlags]
    fTaskName,       \* "live_", "D" once marked dead, "freed" once deleted
    fUseThisThread,  \* [Tasks -> Threads \cup {NoThread}]
    fTaskQueue,      \* [Threads -> Seq(Tasks)], the BlockingQueue of a thread
    fHeap,           \* [Threads -> SUBSET Tasks], the timer heap of a thread
    due,             \* tasks whose heap value is <= the current time
    pc,              \* where each TaskThread is in Entry()/WaitForTask()
    theTask,         \* the local of Entry()
    expected,        \* what a thread's compare_exchange loaded or observed
    val,             \* the function-local static of Entry(), one for all threads
    sig,             \* the Signal() call each caller is in
    stop             \* fStopRequested of each TaskThread

taskVars   == <<fEvents, fTaskName, fUseThisThread>>
threadVars == <<pc, theTask, expected, val, stop>>
vars == <<fEvents, fTaskName, fUseThisThread, fTaskQueue, fHeap, due,
          pc, theTask, expected, val, sig, stop>>

NoCall == [at |-> "idle", task |-> NoTask, events |-> {}]

Holding == {"begin", "getevents", "run", "delete", "cas", "xchg", "store", "insert"}
PCs     == Holding \cup {"wait", "dequeue", "exit"}

Init ==
    /\ fEvents = [t \in Tasks |-> {}]
    /\ fTaskName = [t \in Tasks |-> "live_"]
    /\ fUseThisThread = [t \in Tasks |-> NoThread]
    /\ fTaskQueue = [th \in Threads |-> <<>>]
    /\ fHeap = [th \in Threads |-> {}]
    /\ due = {}
    /\ pc = [th \in Threads |-> "wait"]
    /\ theTask = [th \in Threads |-> NoTask]
    /\ expected = [th \in Threads |-> {}]
    /\ val = {kAlive}
    /\ sig = [c \in Callers |-> NoCall]
    /\ stop = [th \in Threads |-> FALSE]

----------------------------------------------------------------------------
(* Task::Signal(), in its three atomic pieces.  A TaskThread calls it from *)
(* inside Run(); the other callers call it at any time.                    *)

Valid(t) == fTaskName[t] = "live_"

CanCall(c) == c \in Threads => pc[c] = "run"

\* The Valid() test.  Callers hold no reference to a deleted task (Task.h:
\* "watch those dangling references").
SignalEnter(c, t, e) ==
    /\ sig[c].at = "idle"
    /\ CanCall(c)
    /\ Valid(t)
    /\ sig' = [sig EXCEPT ![c] = [at |-> "or", task |-> t, events |-> {e, kAlive}]]
    /\ UNCHANGED <<taskVars, fTaskQueue, fHeap, due, threadVars>>

\* Mutant: the test of kAlive in the old mask is dropped.
SignalOrAlways(c) ==
    /\ sig[c].at = "or"
    /\ fEvents' = [fEvents EXCEPT ![sig[c].task] = @ \cup sig[c].events]
    /\ sig' = [sig EXCEPT ![c].at = "place"]
    /\ UNCHANGED <<fTaskName, fUseThisThread, fTaskQueue, fHeap, due, threadVars>>

\* fEvents.fetch_or(events): the caller that finds kAlive off goes on.
SignalOr(c) ==
    LET t == sig[c].task IN
    /\ sig[c].at = "or"
    /\ fEvents' = [fEvents EXCEPT ![t] = @ \cup sig[c].events]
    /\ sig' = [sig EXCEPT ![c] = IF kAlive \in fEvents[t] THEN NoCall
                                 ELSE [@ EXCEPT !.at = "place"]]
    /\ UNCHANGED <<fTaskName, fUseThisThread, fTaskQueue, fHeap, due, threadVars>>

PickerThreads(t) == IF t \in BlockingTasks THEN BlockingThreads ELSE ShortThreads

InQueue(t, th) == \E i \in DOMAIN fTaskQueue[th] : fTaskQueue[th][i] = t

\* BlockingQueue::EnQueue and Queue::EnQueue: nothing to do for a member.
EnQueue(t, th) ==
    fTaskQueue' = [fTaskQueue EXCEPT ![th] = IF InQueue(t, th) THEN @ ELSE Append(@, t)]

\* Mutant: the picker is used even for a task that asked for a thread.
SignalPlaceAnywhere(c) ==
    /\ sig[c].at = "place"
    /\ \E th \in PickerThreads(sig[c].task) : EnQueue(sig[c].task, th)
    /\ sig' = [sig EXCEPT ![c] = NoCall]
    /\ UNCHANGED <<taskVars, fHeap, due, threadVars>>

\* Placing the task: on fUseThisThread, else fDefaultThread, else round robin
\* over the picker's threads (any of them here).  That there are threads is
\* SchedAssumption (the code tests sNumTaskThreads, CFMain creates some).
SignalPlace(c) ==
    LET t == sig[c].task
        wanted == IF DefaultThread[t] # NoThread /\ fUseThisThread[t] = NoThread
                  THEN DefaultThread[t] ELSE fUseThisThread[t]
    IN
    /\ sig[c].at = "place"
    /\ fUseThisThread' = [fUseThisThread EXCEPT ![t] = wanted]
    /\ \E th \in IF wanted # NoThread THEN {wanted} ELSE PickerThreads(t) : EnQueue(t, th)
    /\ sig' = [sig EXCEPT ![c] = NoCall]
    /\ UNCHANGED <<fEvents, fTaskName, fHeap, due, threadVars>>

----------------------------------------------------------------------------
(* TaskThread::WaitForTask() *)

\* A task was found: Entry() leaves at once if the task is not Valid().
Found(th, t) ==
    /\ theTask' = [theTask EXCEPT ![th] = t]
    /\ pc' = [pc EXCEPT ![th] = IF Valid(t) THEN "begin" ELSE "exit"]

\* The heap is looked at first: its minimum is due.
TakeTimer(th) ==
    /\ pc[th] = "wait"
    /\ \E t \in fHeap[th] \cap due :
          /\ fHeap' = [fHeap EXCEPT ![th] = @ \ {t}]
          /\ due' = due \ {t}
          /\ Found(th, t)
    /\ UNCHANGED <<taskVars, fTaskQueue, expected, val, sig, stop>>

NoTimerDue(th) ==
    /\ pc[th] = "wait"
    /\ fHeap[th] \cap due = {}
    /\ pc' = [pc EXCEPT ![th] = "dequeue"]
    /\ UNCHANGED <<taskVars, fTaskQueue, fHeap, due, theTask, expected, val, sig, stop>>

\* DeQueueBlocking returns an element, at once or after its timed wait.
DeQueue(th) ==
    /\ pc[th] = "dequeue"
    /\ fTaskQueue[th] # <<>>
    /\ fTaskQueue' = [fTaskQueue EXCEPT ![th] = Tail(@)]
    /\ Found(th, Head(fTaskQueue[th]))
    /\ UNCHANGED <<taskVars, fHeap, due, expected, val, sig, stop>>

\* Mutant: the wait goes on although a timer of the heap came due.
WaitForever(th) ==
    /\ pc[th] = "dequeue"
    /\ fTaskQueue[th] = <<>> /\ stop[th]
    /\ pc' = [pc EXCEPT ![th] = "exit"]
    /\ UNCHANGED <<taskVars, fTaskQueue, fHeap, due, theTask, expected, val, sig, stop>>

\* The wait (never shorter than 10 ms, never unbounded) ends with an empty queue.
WaitExpires(th) ==
    /\ pc[th] = "dequeue"
    /\ fTaskQueue[th] = <<>>
    /\ pc' = [pc EXCEPT ![th] = IF stop[th] THEN "exit" ELSE "wait"]
    /\ UNCHANGED <<taskVars, fTaskQueue, fHeap, due, theTask, expected, val, sig, stop>>

----------------------------------------------------------------------------
(* TaskThread::Entry(), the loop around Run() *)

\* Each invocation of Run must ask for its thread again.
BeginRun(th) ==
    /\ pc[th] = "begin"
    /\ fUseThisThread' = [fUseThisThread EXCEPT ![theTask[th]] = NoThread]
    /\ pc' = [pc EXCEPT ![th] = "getevents"]
    /\ UNCHANGED <<fEvents, fTaskName, fTaskQueue, fHeap, due, theTask, expected,
                   val, sig, stop>>

\* Every Run() of the framework starts with GetEvents(): fetch_and(kAlive).
GetEvents(th) ==
    /\ pc[th] = "getevents"
    /\ fEvents' = [fEvents EXCEPT ![theTask[th]] = @ \cap {kAlive}]
    /\ pc' = [pc EXCEPT ![th] = "run"]
    /\ UNCHANGED <<fTaskName, fUseThisThread, fTaskQueue, fHeap, due, theTask,
                   expected, val, sig, stop>>

ForceSameThread(th) ==
    /\ pc[th] = "run" /\ sig[th].at = "idle"
    /\ fUseThisThread[theTask[th]] # th
    /\ fUseThisThread' = [fUseThisThread EXCEPT ![theTask[th]] = th]
    /\ UNCHANGED <<fEvents, fTaskName, fTaskQueue, fHeap, due, threadVars, sig>>

\* Mutant: a task marked dead has its event mask cleared.
ReturnClearsMask(th) ==
    /\ pc[th] = "run" /\ sig[th].at = "idle"
    /\ \E next \in {"delete", "cas", "insert"} :
          /\ pc' = [pc EXCEPT ![th] = next]
          /\ fTaskName' = IF next = "delete"
                          THEN [fTaskName EXCEPT ![theTask[th]] = "D"] ELSE fTaskName
          /\ fEvents' = IF next = "delete"
                        THEN [fEvents EXCEPT ![theTask[th]] = {}] ELSE fEvents
    /\ UNCHANGED <<fUseThisThread, fTaskQueue, fHeap, due, theTask, expected, val, sig, stop>>

\* Run() returns < 0 (the task is marked dead), 0 or > 0.
Return(th) ==
    /\ pc[th] = "run" /\ sig[th].at = "idle"
    /\ \E next \in {"delete", "cas", "insert"} :
          /\ pc' = [pc EXCEPT ![th] = next]
          /\ fTaskName' = IF next = "delete"
                          THEN [fTaskName EXCEPT ![theTask[th]] = "D"] ELSE fTaskName
    /\ UNCHANGED <<fEvents, fUseThisThread, fTaskQueue, fHeap, due, theTask,
                   expected, val, sig, stop>>

\* delete theTask.  The destructors (EventContext::Cleanup, ~TimeoutTask) wait
\* until no other thread is inside Signal() on the task.
Delete(th) ==
    /\ pc[th] = "delete"
    /\ \A c \in Callers : sig[c].task # theTask[th]
    /\ fTaskName' = [fTaskName EXCEPT ![theTask[th]] = "freed"]
    /\ pc' = [pc EXCEPT ![th] = "wait"]
    /\ theTask' = [theTask EXCEPT ![th] = NoTask]
    /\ UNCHANGED <<fEvents, fUseThisThread, fTaskQueue, fHeap, due, expected, val,
                   sig, stop>>

\* fEvents.compare_exchange_weak(val, 0) in the steps it compiles to: load the
\* shared static, exchange, and on failure store what was observed in it.
LoadExpected(th) ==
    /\ pc[th] = "cas"
    /\ expected' = [expected EXCEPT ![th] = val]
    /\ pc' = [pc EXCEPT ![th] = "xchg"]
    /\ UNCHANGED <<taskVars, fTaskQueue, fHeap, due, theTask, val, sig, stop>>

Exchange(th) ==
    LET t == theTask[th]
        equal == fEvents[t] = expected[th]
    IN
    /\ pc[th] = "xchg"
    /\ fEvents' = IF equal THEN [fEvents EXCEPT ![t] = {}] ELSE fEvents
    /\ expected' = IF equal THEN expected ELSE [expected EXCEPT ![th] = fEvents[t]]
    /\ pc' = [pc EXCEPT ![th] = IF equal THEN "wait" ELSE "store"]
    /\ theTask' = IF equal THEN [theTask EXCEPT ![th] = NoTask] ELSE theTask
    /\ UNCHANGED <<fTaskName, fUseThisThread, fTaskQueue, fHeap, due, val, sig, stop>>

\* Mutant: the loop ends after a failed exchange too.
StoreExpectedAndLeave(th) ==
    /\ pc[th] = "store"
    /\ val' = expected[th]
    /\ pc' = [pc EXCEPT ![th] = "wait"]
    /\ theTask' = [theTask EXCEPT ![th] = NoTask]
    /\ UNCHANGED <<taskVars, fTaskQueue, fHeap, due, expected, sig, stop>>

StoreExpected(th) ==
    /\ pc[th] = "store"
    /\ val' = expected[th]
    /\ pc' = [pc EXCEPT ![th] = "begin"]
    /\ UNCHANGED <<taskVars, fTaskQueue, fHeap, due, theTask, expected, sig, stop>>

\* Mutant: the mask is replaced by kIdleEvent instead of extended by it.
InsertTimerDead(th) ==
    /\ pc[th] = "insert"
    /\ fHeap' = [fHeap EXCEPT ![th] = @ \cup {theTask[th]}]
    /\ fEvents' = [fEvents EXCEPT ![theTask[th]] = {kIdleEvent}]
    /\ pc' = [pc EXCEPT ![th] = "wait"]
    /\ theTask' = [theTask EXCEPT ![th] = NoTask]
    /\ UNCHANGED <<fTaskName, fUseThisThread, fTaskQueue, due, expected, val, sig, stop>>

\* theTimeout > 0: into this thread's heap, kIdleEvent on, kAlive kept.
InsertTimer(th) ==
    /\ pc[th] = "insert"
    /\ fHeap' = [fHeap EXCEPT ![th] = @ \cup {theTask[th]}]
    /\ fEvents' = [fEvents EXCEPT ![theTask[th]] = @ \cup {kIdleEvent}]
    /\ pc' = [pc EXCEPT ![th] = "wait"]
    /\ theTask' = [theTask EXCEPT ![th] = NoTask]
    /\ UNCHANGED <<fTaskName, fUseThisThread, fTaskQueue, due, expected, val, sig, stop>>

----------------------------------------------------------------------------
(* The environment: the clock, and TaskThreadPool::RemoveThreads. *)

TimerExpires(t) ==
    /\ t \notin due
    /\ \E th \in Threads : t \in fHeap[th]
    /\ due' = due \cup {t}
    /\ UNCHANGED <<taskVars, fTaskQueue, fHeap, threadVars, sig>>

\* SendStopRequest() to one thread, then to the next.
SendStopRequest(th) ==
    /\ ~stop[th]
    /\ stop' = [stop EXCEPT ![th] = TRUE]
    /\ UNCHANGED <<taskVars, fTaskQueue, fHeap, due, pc, theTask, expected, val, sig>>

Signal(c) == (\E t \in Tasks, e \in Events : SignalEnter(c, t, e)) \/ SignalOr(c) \/ SignalPlace(c)

WaitForTask(th) == TakeTimer(th) \/ NoTimerDue(th) \/ DeQueue(th) \/ WaitExpires(th)

Entry(th) ==
    \/ WaitForTask(th) \/ BeginRun(th) \/ GetEvents(th) \/ ForceSameThread(th)
    \/ Return(th) \/ Delete(th) \/ LoadExpected(th) \/ Exchange(th)
    \/ StoreExpected(th) \/ InsertTimer(th)

\* The pool at work, and the pool being stopped as well.
RunNext ==
    \/ \E c \in Callers : Signal(c)
    \/ \E th \in Threads : Entry(th)
    \/ \E t \in Tasks : TimerExpires(t)

Next == RunNext \/ \E th \in Threads : SendStopRequest(th)

Spec == Init /\ [][Next]_vars

RunSpec == Init /\ [][RunNext]_vars

\* Every thread keeps running, Run() returns, a call of Signal() that began is
\* finished, and time passes.  Nothing obliges anybody to call Signal(), to
\* ask for a thread or to stop the pool.
Fairness ==
    /\ \A c \in Callers : WF_vars(SignalOr(c) \/ SignalPlace(c))
    /\ \A th \in Threads :
          /\ WF_vars(WaitForTask(th))
          /\ WF_vars(BeginRun(th) \/ GetEvents(th) \/ Return(th) \/ Delete(th) \/ LoadExpected(th)
                     \/ Exchange(th) \/ StoreExpected(th) \/ InsertTimer(th))
    /\ \A t \in Tasks : WF_vars(TimerExpires(t))

FairSpec == Spec /\ Fairness

----------------------------------------------------------------------------
(* Properties *)

SigCalls == [at : {"idle", "or", "place"}, task : Tasks \cup {NoTask}, events : EventFlags]

TypeOK ==
    /\ fEvents \in [Tasks -> EventFlags]
    /\ fTaskName \in [Tasks -> {"live_", "D", "freed"}]
    /\ fUseThisThread \in [Tasks -> Threads \cup {NoThread}]
    /\ fTaskQueue \in [Threads -> Seq(Tasks)]
    /\ fHeap \in [Threads -> SUBSET Tasks]
    /\ due \subseteq Tasks
    /\ pc \in [Threads -> PCs]
    /\ theTask \in [Threads -> Tasks \cup {NoTask}]
    /\ \A th \in Threads : pc[th] \in Holding => theTask[th] # NoTask
    /\ expected \in [Threads -> EventFlags]
    /\ val \in EventFlags
    /\ sig \in [Callers -> SigCalls]
    /\ \A c \in Callers : sig[c].at # "idle" => sig[c].task # NoTask /\ kAlive \in sig[c].events
    /\ stop \in [Threads -> BOOLEAN]

\* Where a scheduled task can be: in the queue or the heap of a thread, run by
\* a thread, or in the hands of the caller of Signal() about to enqueue it.
Running(t, th) == theTask[th] = t /\ pc[th] \in Holding
Kept(t, th)    == InQueue(t, th) \/ t \in fHeap[th] \/ Running(t, th)
Placing(t, c)  == sig[c].at = "place" /\ sig[c].task = t
Scheduled(t)   == (\E th \in Threads : Kept(t, th)) \/ (\E c \in Callers : Placing(t, c))

\* A task is in one place at a time, once, whoever signals it meanwhile; in
\* particular Run() is never re-entered.
OnePlace ==
    /\ \A t \in Tasks, th \in Threads :
          /\ ~(InQueue(t, th) /\ t \in fHeap[th])
          /\ ~(Running(t, th) /\ (InQueue(t, th) \/ t \in fHeap[th]))
          /\ \A other \in Threads : Kept(t, th) /\ Kept(t, other) => th = other
          /\ \A c \in Callers : ~(Kept(t, th) /\ Placing(t, c))
    /\ \A t \in Tasks, c, d \in Callers : Placing(t, c) /\ Placing(t, d) => c = d
    /\ \A th \in Threads : \A i, j \in DOMAIN fTaskQueue[th] :
          fTaskQueue[th][i] = fTaskQueue[th][j] => i = j

\* kAlive is on exactly while the task is scheduled.  A live task with kAlive
\* on and nowhere to be found would never run again, since Signal() leaves it
\* alone.
AliveIffScheduled == \A t \in Tasks : Valid(t) => (kAlive \in fEvents[t] <=> Scheduled(t))

\* A task that asked for its deletion keeps kAlive, so that a Signal() that
\* read its name too early does not schedule it again.
DeadStaysOut ==
    \A t \in Tasks : ~Valid(t) =>
        /\ kAlive \in fEvents[t]
        /\ \A c \in Callers : ~Placing(t, c)
        /\ \A th \in Threads : Kept(t, th) => Running(t, th) /\ pc[th] = "delete"

\* A task that asked for its thread with ForceSameThread() is only ever queued
\* for, kept in the heap of, and run by that thread.
SameThread ==
    \A t \in Tasks, th \in Threads : Kept(t, th) => fUseThisThread[t] \in {NoThread, th}

\* A TaskThread leaves Entry() only when it was asked to stop: it never meets
\* a task that is not Valid().
ExitOnlyOnStop == \A th \in Threads : pc[th] = "exit" => stop[th]

\* The comment at Task.cpp:336-339: an event that sneaks in as Run() returns
\* makes Run() be invoked again, so kAlive goes off only when no event is left.
NoEventDropped ==
    [][\A t \in Tasks : kAlive \in fEvents[t] /\ kAlive \notin fEvents'[t]
                          => fEvents[t] = {kAlive}]_vars

\* A call that starts new work: Signal(), or a Run() that asks for a timer.
NewWork ==
    \/ \E c \in Callers, t \in Tasks, e \in Events : SignalEnter(c, t, e)
    \/ \E th \in Threads : pc[th] = "run" /\ pc'[th] = "insert"

Waiting(t) == Scheduled(t) /\ \A th \in Threads : ~Running(t, th)

Runs(t) == \E th \in Threads : pc[th] = "run" /\ theTask[th] = t

\* A task placed on a queue or a heap reaches Run() once new work ceases, in
\* a pool that is not stopped.  Without the first condition it may starve: a
\* TaskThread looks at its timers before its queue, and keeps a task that is
\* signalled in every Run().  Without the second it may be abandoned: a thread
\* that leaves Entry() leaves the timers of its heap behind.
ScheduledRuns ==
    (<>[][~NewWork]_vars /\ [](\A th \in Threads : ~stop[th]))
        => \A t \in Tasks : Waiting(t) ~> Runs(t)

----------------------------------------------------------------------------
(* The scheduler implements TaskLifecycle.  A task is bound to the thread   *)
(* whose queue or heap it is in, else to the one it asked for.              *)

RunnersOf(t) == {th \in Threads : theTask[th] = t /\ pc[th] \in Holding}

KeepersOf(t) == {th \in Threads : InQueue(t, th) \/ t \in fHeap[th]}

statusOf == [t \in Tasks |->
    IF ~Valid(t) THEN "gone"
    ELSE IF RunnersOf(t) # {} THEN "running"
    ELSE IF kAlive \in fEvents[t] THEN "ready" ELSE "idle"]

runnerOf == [t \in Tasks |->
    IF RunnersOf(t) = {} THEN NoThread ELSE CHOOSE th \in RunnersOf(t) : TRUE]

boundOf == [t \in Tasks |->
    IF KeepersOf(t) = {} THEN fUseThisThread[t] ELSE CHOOSE th \in KeepersOf(t) : TRUE]

Lifecycle == INSTANCE TaskLifecycle
             WITH status <- statusOf, runner <- runnerOf, bound <- boundOf

\* Whatever the interleaving of Signal() and Entry(), a task goes through its
\* life one thread at a time, and on the thread it was bound to.
ImplementsLifecycle == Lifecycle!Spec

=============================================================================
