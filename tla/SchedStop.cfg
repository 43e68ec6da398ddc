CONSTANTS
 t1 = t1
 t2 = t2
 s1 = s1
 s2 = s2
 b1 = b1
 ev = ev
 c1 = c1
 Tasks = {t1, t2}
 ShortThreads = {s1}
 BlockingThreads = {b1}
 Signallers = {c1}
 Events = {ev}
 BlockingTasks = {t2}
 DefaultThread <- NoDefault
 NoThread = NoThread
 NoTask = NoTask
SPECIFICATION FairSpec
INVARIANTS ExitOnlyOnStop DeadStaysOut
PROPERTIES ScheduledRuns
CHECK_DEADLOCK FALSE
