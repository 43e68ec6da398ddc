---------------------------- MODULE TimeoutTasks ---------------------------
(***************************************************************************)
(* TimeoutTask and TimeoutTaskThread (CFThread/TimeoutTask.cpp): one task  *)
(* goes through all timeouts, signals the tasks whose time has come and    *)
(* tells when it is to run again.  fMutex is held over a run and by the    *)
(* constructor and destructor; a timeout is changed without it.            *)
(*                                                                         *)
(* Times count from now: fTimeoutAtThisTime falls with every tick and      *)
(* stays at zero once it has passed.  A run takes no time, and begins as   *)
(* soon as it is due: the threads of the pool are free.                    *)
(***************************************************************************)
EXTENDS Queue, FiniteSets, SequencesExt

CONSTANTS
    NumTimeouts,           \* bound: the TimeoutTasks, 1..NumTimeouts
    Second,                \* ticks of 1000 milliseconds
    kInterval,             \* ticks of kIntervalSeconds
    Periods,               \* arguments of SetTimeout()
    Never                  \* a fTimeoutAtThisTime of zero

ASSUME TimeoutAssumption ==
    /\ {NumTimeouts, Second, kInterval} \subseteq Nat \ {0}
    /\ Periods \subseteq Nat /\ Never \notin Nat

VARIABLES
    fTimeoutAtThisTime, fTimeoutInMilSecs,
    fTask,                 \* whether it is set
    constructed,           \* which objects exist
    setting,               \* those inside of SetTimeout(), between its assignments
    timeouts,              \* TimeoutTaskThread::fQueue
    scan,                  \* the iterator of Run() and its intervalMilli
    wake,                  \* ticks until Run() is called, or Never
    killed,                \* kKillEvent was signalled
    registered,            \* history: constructed objects, the oldest first
    late,                  \* history: ticks that a timeout with a task has been due
    seen                   \* history: those that the last run found and let wait

ttVars == <<fTimeoutAtThisTime, fTimeoutInMilSecs, fTask, constructed, setting, timeouts, scan, wake, killed,
            registered, late, seen>>

Timeouts == 1..NumTimeouts

\* Run() is not going on.
NoScan == [current |-> nullptr, interval |-> 0, running |-> FALSE]

\* Initialize(): the task is made and signalled.
TimeoutInit ==
    /\ fTimeoutAtThisTime = [t \in Timeouts |-> Never] /\ fTimeoutInMilSecs = [t \in Timeouts |-> 0]
    /\ fTask = [t \in Timeouts |-> FALSE] /\ constructed = {} /\ setting = {}
    /\ timeouts = NewQueue(Timeouts) /\ scan = NoScan /\ wake = 0 /\ killed = FALSE
    /\ registered = <<>> /\ late = [t \in Timeouts |-> 0] /\ seen = {}

\* A timeout that changes has not been seen and is not late.
Renewed(t) == late' = [late EXCEPT ![t] = 0] /\ seen' = seen \ {t}

\* The value of fTimeoutAtThisTime for a period.
From(period) == IF period = 0 THEN Never ELSE period

\* The constructor sets the timeout before the lock is taken and nobody else sees it.
Construct(t) ==
    /\ t \notin constructed /\ ~scan.running
    /\ \E period \in Periods :
          /\ fTimeoutInMilSecs' = [fTimeoutInMilSecs EXCEPT ![t] = period]
          /\ fTimeoutAtThisTime' = [fTimeoutAtThisTime EXCEPT ![t] = From(period)]
    /\ \E set \in BOOLEAN : fTask' = [fTask EXCEPT ![t] = set]
    /\ timeouts' = EnQueue(timeouts, t)
    /\ constructed' = constructed \cup {t} /\ registered' = Append(registered, t) /\ Renewed(t)
    /\ UNCHANGED <<setting, scan, wake, killed>>

\* The memory of an object is given back.
Gone(t) ==
    /\ fTimeoutAtThisTime' = [fTimeoutAtThisTime EXCEPT ![t] = Never]
    /\ fTimeoutInMilSecs' = [fTimeoutInMilSecs EXCEPT ![t] = 0] /\ fTask' = [fTask EXCEPT ![t] = FALSE]
    /\ constructed' = constructed \ {t} /\ registered' = RemoveFirst(registered, t) /\ Renewed(t)

Destruct(t) ==
    /\ t \in constructed \ setting /\ ~scan.running
    /\ timeouts' = QueueRemove(timeouts, t)
    /\ Gone(t)
    /\ UNCHANGED <<setting, scan, wake, killed>>

SetTask(t) ==
    /\ t \in constructed /\ ~fTask[t]
    /\ fTask' = [fTask EXCEPT ![t] = TRUE]
    /\ UNCHANGED <<fTimeoutAtThisTime, fTimeoutInMilSecs, constructed, setting, timeouts, scan, wake, killed,
                   registered, late, seen>>

\* SetTimeout() up to and after its second assignment.
SetTimeout(t) ==
    /\ t \in constructed \ setting
    /\ \E period \in Periods : fTimeoutInMilSecs' = [fTimeoutInMilSecs EXCEPT ![t] = period]
    /\ setting' = setting \cup {t}
    /\ UNCHANGED <<fTimeoutAtThisTime, fTask, constructed, timeouts, scan, wake, killed, registered, late, seen>>

SetTimeoutEnds(t) ==
    /\ t \in setting
    /\ fTimeoutAtThisTime' = [fTimeoutAtThisTime EXCEPT ![t] = From(fTimeoutInMilSecs[t])]
    /\ setting' = setting \ {t} /\ Renewed(t)
    /\ UNCHANGED <<fTimeoutInMilSecs, fTask, constructed, timeouts, scan, wake, killed, registered>>

\* A period of zero, which is never in SetTimeout(), is now.
RefreshTimeout(t) ==
    /\ t \in constructed \ setting
    /\ fTimeoutAtThisTime' = [fTimeoutAtThisTime EXCEPT ![t] = fTimeoutInMilSecs[t]] /\ Renewed(t)
    /\ UNCHANGED <<fTimeoutInMilSecs, fTask, constructed, setting, timeouts, scan, wake, killed, registered>>

----------------------------------------------------------------------------
(* TimeoutTaskThread::Run() *)

\* A kill event ends the runs; else the lock is taken.
RunBegins ==
    /\ wake = 0 /\ ~scan.running
    /\ IF killed THEN wake' = Never /\ UNCHANGED scan
       ELSE scan' = [current |-> GetHead(timeouts), interval |-> kInterval, running |-> TRUE] /\ UNCHANGED wake
    /\ UNCHANGED <<fTimeoutAtThisTime, fTimeoutInMilSecs, fTask, constructed, setting, timeouts, killed, registered,
                   late, seen>>

Due(t) == fTimeoutAtThisTime[t] = 0
Waits(t) == fTimeoutAtThisTime[t] # Never /\ ~Due(t) /\ fTimeoutInMilSecs[t] > 0

\* Mutant: the longest interval is taken and not the shortest.
IntervalLongest(interval, t) ==
    IF Waits(t) /\ interval < fTimeoutAtThisTime[t] THEN fTimeoutAtThisTime[t] + Second ELSE interval

\* One second past a timeout that would else be slept past.
Interval(interval, t) ==
    IF Waits(t) /\ interval > fTimeoutAtThisTime[t] THEN fTimeoutAtThisTime[t] + Second ELSE interval

\* One turn of the loop: the task of a timeout that is due is signalled, in each run
\* again.
Visit ==
    LET t == scan.current IN
    /\ scan.running /\ t # nullptr
    /\ scan' = [scan EXCEPT !.current = IterNext(timeouts, t),
                            !.interval = IF Due(t) THEN @ ELSE Interval(@, t)]
    /\ late' = IF Due(t) /\ fTask[t] THEN [late EXCEPT ![t] = 0] ELSE late
    /\ seen' = IF Waits(t) THEN seen \cup {t} ELSE seen \ {t}
    /\ UNCHANGED <<fTimeoutAtThisTime, fTimeoutInMilSecs, fTask, constructed, setting, timeouts, wake, killed, registered>>

RunEnds ==
    /\ scan.running /\ scan.current = nullptr
    /\ wake' = (IF killed THEN 0 ELSE scan.interval) /\ scan' = NoScan
    /\ UNCHANGED <<fTimeoutAtThisTime, fTimeoutInMilSecs, fTask, constructed, setting, timeouts, killed, registered,
                   late, seen>>

\* StopTask(): the kill event gets the task run.
StopTask ==
    /\ ~killed /\ killed' = TRUE
    /\ wake' = 0
    /\ UNCHANGED <<fTimeoutAtThisTime, fTimeoutInMilSecs, fTask, constructed, setting, timeouts, scan, registered,
                   late, seen>>

\* Time passes.  After the kill it is of no interest.
Tick ==
    /\ ~scan.running /\ wake \notin {0, Never}
    /\ wake' = wake - 1
    /\ fTimeoutAtThisTime' = [t \in Timeouts |->
          IF fTimeoutAtThisTime[t] \in {0, Never} THEN fTimeoutAtThisTime[t] ELSE fTimeoutAtThisTime[t] - 1]
    /\ late' = [t \in Timeouts |-> IF t \in constructed /\ Due(t) /\ fTask[t] THEN late[t] + 1 ELSE late[t]]
    /\ UNCHANGED <<fTimeoutInMilSecs, fTask, constructed, setting, timeouts, scan, killed, registered, seen>>

TimeoutNext ==
    \/ \E t \in Timeouts : \/ Construct(t) \/ Destruct(t) \/ SetTask(t)
                           \/ SetTimeout(t) \/ SetTimeoutEnds(t) \/ RefreshTimeout(t)
    \/ RunBegins \/ Visit \/ RunEnds \/ StopTask \/ Tick

TimeoutSpec == TimeoutInit /\ [][TimeoutNext]_ttVars

----------------------------------------------------------------------------
\* The iterator of a queue goes through the elements of a list, in their order.
Lists(q, elems) ==
    /\ q.fLength = Len(elems)
    /\ GetHead(q) = IF elems = <<>> THEN nullptr ELSE elems[1]
    /\ \A i \in DOMAIN elems : IterNext(q, elems[i]) = IF i = Len(elems) THEN nullptr ELSE elems[i + 1]

\* How much longer than the interval it began with a run can make its sleep: each
\* timeout that it shortens the sleep for adds a second to what was the shortest.
Creep == NumTimeouts * (Second - 1)

\* The thread's queue is the list of the objects that exist, and Run() looks at one of
\* them.  A timeout that the last run let wait is signalled "1 second past this task's
\* timeout", or that much later for every other one; a timeout that was set since is
\* late by the default interval at most, or that much more.
TimeoutsKept ==
    /\ timeouts.members = constructed /\ timeouts.fLength = Cardinality(constructed) /\ Lists(timeouts, registered)
    /\ scan.current # nullptr => scan.current \in constructed
    /\ ~killed => \A t \in constructed : late[t] <= Creep + (IF t \in seen THEN 1 ELSE kInterval)
============================================================================
