CONSTANTS
 Parts = {"client"}
 Elems = {e1, e2, e3, e4, e5, e6}
 Times = {0, 1, 2}
 InStartSize = 1
 r1 = r1
 r2 = r2
 Readers = {r1, r2}
 NoReader = NoReader
 Files = {"fa", "fb"}
 FileLength <- TwoFiles
 kBufferUnitSize = 1
 UnitCounts = {0, 2}
 IncCounts = {0, 1}
 Requests <- Reads
 MaxBuffers = 2
 MaxFaults = 1
 FirstSize = 64
 kOutputBufferSizeInBytes = 2
 Length = 5
 VecSizes = {0, 1, 2}
 CF_MAX_RESPONSE_BUFFER_SIZE = 2
 kSendBufferLen = 12
 ResponseHead = 2
 MaxMessages = 2
 MaxData = 2
 InPieces = TRUE
 Callers = {u1, u2, u3}
 NoCaller = NoCaller
 Addrs = {"a"}
 Sources = {"x", "any"}
 AnySource = "any"
 kLowestUDPPort = 4
 kHighestUDPPort = 7
 Privileged = 2
 Foreign <- Other
 Letters <- MCLetters
 LowerCase <- MCLowerCase
 Bytes <- MCBytes
 Wrap = 1000000
 HexOf <- MCHexOf
 EightBit = {"e8"}
 Headers <- MCHeaders
 kMinHeaderSizeInBytes = 40
 kConfParserMaxLineSize = 40
 kConfParserMaxParamSize = 8
 kConfParserMaxParamValues = 3
 GMTOffset = 2
 kUpdateInterval = 3
 BlockLen = 8
 WordLen = 1
 kHashLen = 16
 Magic <- MCMagic
 Rounds <- MCRounds
 Repeats = 9
 NumTimeouts = 2
 Second = 2
 kInterval = 5
 Periods = {0, 5}
 Never = Never
SPECIFICATION DataSpec
VIEW DataView
CHECK_DEADLOCK FALSE
INVARIANT ReceivedExact
