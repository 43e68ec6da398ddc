CONSTANTS
 Contexts = {c1, c2}
 Fds = {f1, f2}
 Ids = {1, 2}
 NoFd = NoFd
 NoContext = NoContext
SPECIFICATION FairSpec
PROPERTIES OneShotEventDelivered
