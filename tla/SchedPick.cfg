CONSTANTS
 t1 = t1
 t2 = t2
 s1 = s1
 s2 = s2
 b1 = b1
 ev = ev
 c1 = c1
 Tasks = {t1, t2}
 ShortThreads = {s1, s2}
 BlockingThreads = {b1}
 Signallers = {c1}
 Events = {ev}
 BlockingTasks = {}
 DefaultThread <- OneDefault
 NoThread = NoThread
 NoTask = NoTask
SPECIFICATION RunSpec
INVARIANTS OnePlace AliveIffScheduled SameThread
PROPERTIES ImplementsLifecycle
