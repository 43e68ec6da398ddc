CONSTANTS
 th1 = th1
 th2 = th2
 Threads = {th1, th2}
 NoThread = NoThread
 Scripts <- Clients
 BufferSize = 4
 ResponseSize = 2
 SendBuffer = 3
 MaxRead = 1
 Blank = Blank
CHECK_DEADLOCK FALSE
SPECIFICATION FairSpec
INVARIANTS WholeRequests BufferExact NoStalledRequest ResponsesWhole LockOwner
PROPERTIES HangupEnds
