CONSTANTS
 t1 = t1
 t2 = t2
 s1 = s1
 s2 = s2
 b1 = b1
 ev = ev
 c1 = c1
 Tasks = {t1}
 ShortThreads = {s1}
 BlockingThreads = {b1}
 Signallers = {c1}
 Events = {ev}
 BlockingTasks = {}
 DefaultThread <- NoDefault
 NoThread = NoThread
 NoTask = NoTask
SPECIFICATION FairSpec
PROPERTIES NoEventDropped
CHECK_DEADLOCK FALSE
