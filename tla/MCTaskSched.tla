---------------------------- MODULE MCTaskSched ----------------------------
EXTENDS TaskSched
CONSTANTS t1, t2, s1, s2, b1, ev, c1
NoDefault == [t \in Tasks |-> NoThread]
OneDefault == [t \in Tasks |-> IF t = t2 THEN s2 ELSE NoThread]
============================================================================
