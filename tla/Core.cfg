CONSTANTS
 Parts = {"lock", "table", "idle", "server"}
 Readers = {p1, p2, p3, w1}
 Writers = {w1}
 r1 = r1
 r2 = r2
 r3 = r3
 k1 = k1
 k2 = k2
 Refs = {r1, r2, r3}
 Keys = {k1, k2}
 fString <- Strings
 Indices = {0, 1}
 Hash <- OneSlot
 RefUsers = {u1, u2}
 NoRef = NoRef
 Elems = {i1, i2}
 Times = {0, 1, 2}
 InStartSize = 2
 IdleTimeouts = {1, 2}
 PollInterval = 1
 MaxTime = 2
 MaxLag = 1
 NoTask = NoTask
 Sessions = {"s1"}
 MaxBacklog = 1
SPECIFICATION CoreSpec
INVARIANTS WaitersCounted Exclusion SafeWhileHeld TableConsistent NeverSleepsPast IdleConsistent OnlyLateRegistered
PROPERTIES WriterEnters ReaderEnters UnRegisterReturns TimerFires StopReturns ShutdownCompletes
