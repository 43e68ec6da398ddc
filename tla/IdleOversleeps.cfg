CONSTANTS
 Parts = {"idle"}
 Readers = {p1}
 Writers = {}
 r1 = r1
 r2 = r2
 r3 = r3
 k1 = k1
 k2 = k2
 Refs = {r1, r2, r3}
 Keys = {k1, k2}
 fString <- Strings
 Indices = {0, 1}
 Hash <- OneSlot
 RefUsers = {u1}
 NoRef = NoRef
 Elems = {i1, i2, i3, i4, i5, i6, i7}
 Times = {0, 1, 2}
 InStartSize = 2
 IdleTimeouts = {0, 1, 2}
 PollInterval = 1
 MaxTime = 2
 MaxLag = 0
 NoTask = NoTask
 Sessions = {"s1"}
 MaxBacklog = 1
SPECIFICATION CoreSpec
VIEW IdleView
INVARIANT SleepsUntilLowest
