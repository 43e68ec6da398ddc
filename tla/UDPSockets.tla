----------------------------- MODULE UDPSockets ----------------------------
(***************************************************************************)
(* UDPSocketPool and UDPDemuxer (CFSocket): pairs of UDP sockets on        *)
(* adjacent ports, counted and shared among callers that expect packets    *)
(* from different sources.  A caller gets a pair, registers its task for   *)
(* its source in the demuxer of the pair's second socket, unregisters and  *)
(* releases.  Getting and registering are two steps.                       *)
(*                                                                         *)
(* A pair is named by its address and its first port.  The port number is  *)
(* a UInt16: the search for a free pair does not end at kHighestUDPPort,   *)
(* which no even number equals, but starts again from 0.                   *)
(***************************************************************************)
EXTENDS Integers, Sequences, FiniteSets, SequencesExt

CONSTANTS
    Callers, NoCaller,
    Addrs,               \* local addresses
    Sources, AnySource,  \* remote address and port; AnySource is (0, 0)
    kLowestUDPPort, kHighestUDPPort,
    Privileged,          \* ports below this one cannot be bound
    Foreign              \* ports that other processes may hold

ASSUME PortAssumption ==
    /\ kLowestUDPPort \in Nat /\ kHighestUDPPort \in Nat /\ Privileged \in Nat \ {0, 1}
    /\ AnySource \in Sources /\ NoCaller \notin Callers /\ IsFiniteSet(Callers)

NoPair == <<"nullptr", 0>>

VARIABLES
    fUDPQueue,   \* pairs
    fRefCount,   \* [Addrs \X ports -> Nat]
    fHashTable,  \* of the demuxers: the tasks registered, [pair, source, task]
    fDemuxer,    \* whether the sockets were made with kWantsDemuxer
    fPoolMutex,      \* the caller that is still looking for ports, or NoCaller
    foreign,     \* ports held by other processes
    udpCall      \* [Callers -> the pair held and the source it is for]

udpVars == <<fUDPQueue, fRefCount, fHashTable, fDemuxer, fPoolMutex, foreign, udpCall>>

Ports == 0..kHighestUDPPort

None == [at |-> "out", pair |-> NoPair, addr |-> 0, src |-> AnySource]

UDPInit ==
    /\ fUDPQueue = <<>> /\ fRefCount = [p \in Addrs \X Ports |-> 0]
    /\ fHashTable = {} /\ fDemuxer \in BOOLEAN
    /\ fPoolMutex = NoCaller /\ foreign = {}
    /\ udpCall = [c \in Callers |-> None]

PortsOf(pair) == {<<pair[1], pair[2]>>, <<pair[1], pair[2] + 1>>}

\* Both sockets of a pair can be bound.  Port 0, for which bind() takes any free
\* port, is only met together with port 1, which cannot be bound.
Binds(pair) ==
    \A b \in PortsOf(pair) :
        /\ b[2] >= Privileged /\ b \notin foreign
        /\ \A i \in DOMAIN fUDPQueue : b \notin PortsOf(fUDPQueue[i])

----------------------------------------------------------------------------
(* UDPDemuxer *)

GetTask(pair, src) == {e \in fHashTable : e.pair = pair /\ e.src = src}

AddrInMap(pair, src) == GetTask(pair, src) # {}

\* RegisterTask() is refused with EPERM if the source has a task already.
RegisterTask(c) ==
    LET u == udpCall[c] IN
    /\ u.at = "got" /\ fDemuxer
    /\ udpCall' = [udpCall EXCEPT ![c].at = IF AddrInMap(u.pair, u.src) THEN "refused" ELSE "registered"]
    /\ fHashTable' = IF AddrInMap(u.pair, u.src) THEN fHashTable
                     ELSE fHashTable \cup {[pair |-> u.pair, src |-> u.src, task |-> c]}
    /\ UNCHANGED <<fUDPQueue, fRefCount, fDemuxer, fPoolMutex, foreign>>

\* UnregisterTask() finds the task by its source and compares it.
UnregisterTask(c) ==
    LET found == GetTask(udpCall[c].pair, udpCall[c].src) IN
    /\ udpCall[c].at \in {"registered", "refused"}
    /\ fHashTable' = fHashTable \ {e \in found : e.task = c}
    /\ udpCall' = [udpCall EXCEPT ![c].at = "unregistered"]
    /\ UNCHANGED <<fUDPQueue, fRefCount, fDemuxer, fPoolMutex, foreign>>

----------------------------------------------------------------------------
(* UDPSocketPool *)

Got(c, pair, src) == udpCall' = [udpCall EXCEPT ![c] = [@ EXCEPT !.at = "got", !.pair = pair, !.src = src]]

\* A new pair is queued.
Created(c, pair, src) ==
    /\ fUDPQueue' = Append(fUDPQueue, pair)
    /\ fRefCount' = [fRefCount EXCEPT ![pair] = 1]
    /\ Got(c, pair, src)

\* The ports tried for a caller that leaves the port open, in order.
Tried(k) == (kLowestUDPPort + 2 * k) % (kHighestUDPPort + 1)

\* CreateUDPSocketPair(), if no socket can be opened (opens is FALSE), the port that
\* is asked for is taken, or there is a pair of ports.  Else the search goes on.
CreateUDPSocketPair(c, addr, port, src, opens) ==
    LET free == {k \in 0..(kHighestUDPPort \div 2) : Binds(<<addr, Tried(k)>>)}
        first == CHOOSE k \in free : \A j \in free : k <= j
    IN \/ /\ ~opens \/ (port # 0 /\ (port >= kHighestUDPPort \/ ~Binds(<<addr, port>>)))
          /\ UNCHANGED <<fUDPQueue, fRefCount, fPoolMutex, udpCall>>
       \/ /\ opens /\ port # 0 /\ port < kHighestUDPPort /\ Binds(<<addr, port>>)
          /\ Created(c, <<addr, port>>, src) /\ UNCHANGED fPoolMutex
       \/ /\ opens /\ port = 0 /\ free # {}
          /\ Created(c, <<addr, Tried(first)>>, src) /\ UNCHANGED fPoolMutex
       \/ /\ opens /\ port = 0 /\ free = {}
          /\ fPoolMutex' = c
          /\ udpCall' = [udpCall EXCEPT ![c] = [@ EXCEPT !.at = "searching", !.addr = addr, !.src = src]]
          /\ UNCHANGED <<fUDPQueue, fRefCount>>

\* A pair that is free by now is found.
SearchGoesOn(c) ==
    LET u == udpCall[c] IN
    /\ u.at = "searching" /\ fPoolMutex' = NoCaller
    /\ \E k \in 0..(kHighestUDPPort \div 2) :
          Binds(<<u.addr, Tried(k)>>) /\ Created(c, <<u.addr, Tried(k)>>, u.src)
    /\ UNCHANGED <<fHashTable, fDemuxer, foreign>>

\* Mutant: a pair that is shared is not counted again.
SharedUncounted(c, pair, src) == Got(c, pair, src) /\ UNCHANGED <<fUDPQueue, fRefCount, fPoolMutex>>

Shared(c, pair, src) ==
    /\ fRefCount' = [fRefCount EXCEPT ![pair] = @ + 1]
    /\ Got(c, pair, src)
    /\ UNCHANGED <<fUDPQueue, fPoolMutex>>

\* GetUDPSocketPair(): the first pair in the queue on the address, and the port if
\* one is given, that has no task for the source or for all sources.  If the pair
\* on the given port has one, there is none; without a source none is looked for.
GetUDPSocketPair(c, addr, port, src, opens) ==
    LET Fits(pair) == pair[1] = addr /\ (port = 0 \/ pair[2] = port)
        Shares(pair) == ~fDemuxer \/ (~AddrInMap(pair, AnySource) /\ ~AddrInMap(pair, src))
        i == SelectInSeq(fUDPQueue, LAMBDA pair : Fits(pair) /\ Shares(pair))
        taken == port # 0 /\ \E j \in DOMAIN fUDPQueue : Fits(fUDPQueue[j])
    IN
    /\ udpCall[c].at = "out" /\ fPoolMutex = NoCaller
    /\ IF src # AnySource /\ i # 0 THEN Shared(c, fUDPQueue[i], src)
       ELSE IF src # AnySource /\ taken THEN UNCHANGED <<fUDPQueue, fRefCount, fPoolMutex, udpCall>>
       ELSE CreateUDPSocketPair(c, addr, port, src, opens)
    /\ UNCHANGED <<fHashTable, fDemuxer, foreign>>

\* ReleaseUDPSocketPair(): the last one closes the sockets.
ReleaseUDPSocketPair(c) ==
    LET pair == udpCall[c].pair IN
    /\ fPoolMutex = NoCaller
    /\ udpCall[c].at = "unregistered" \/ (udpCall[c].at = "got" /\ ~fDemuxer)
    /\ fRefCount' = [fRefCount EXCEPT ![pair] = @ - 1]
    /\ fUDPQueue' = IF fRefCount[pair] = 1 THEN RemoveFirst(fUDPQueue, pair) ELSE fUDPQueue
    /\ udpCall' = [udpCall EXCEPT ![c] = None]
    /\ UNCHANGED <<fHashTable, fDemuxer, fPoolMutex, foreign>>

\* Another process binds or closes a port.
ForeignPort(b) ==
    /\ \A i \in DOMAIN fUDPQueue : b \notin PortsOf(fUDPQueue[i])
    /\ foreign' = IF b \in foreign THEN foreign \ {b} ELSE foreign \cup {b}
    /\ UNCHANGED <<fUDPQueue, fRefCount, fHashTable, fDemuxer, fPoolMutex, udpCall>>

UDPNext ==
    \/ \E c \in Callers :
          \/ \E addr \in Addrs, port \in Ports, src \in Sources, opens \in BOOLEAN :
                GetUDPSocketPair(c, addr, port, src, opens)
          \/ SearchGoesOn(c)
          \/ RegisterTask(c) \/ UnregisterTask(c) \/ ReleaseUDPSocketPair(c)
    \/ \E b \in Foreign : ForeignPort(b)

UDPSpec == UDPInit /\ [][UDPNext]_udpVars

----------------------------------------------------------------------------
(* Properties *)

\* A pair is queued as long as somebody holds it, counted once for each holder and
\* alone on its two ports, whatever was shared, refused or searched for; a task
\* is in a demuxer only while its caller holds that pair, and no source has two.
PairsConsistent ==
    /\ \A c \in Callers : udpCall[c].pair # NoPair => udpCall[c].pair \in ToSet(fUDPQueue)
    /\ \A i \in DOMAIN fUDPQueue :
           /\ fRefCount[fUDPQueue[i]] = Cardinality({c \in Callers : udpCall[c].pair = fUDPQueue[i]})
           /\ fRefCount[fUDPQueue[i]] > 0
           /\ \A j \in DOMAIN fUDPQueue : i # j => PortsOf(fUDPQueue[i]) \cap PortsOf(fUDPQueue[j]) = {}
    /\ \A e, f \in fHashTable :
           /\ udpCall[e.task].pair = e.pair /\ udpCall[e.task].at = "registered"
           /\ e.pair = f.pair /\ e.src = f.src => e = f
============================================================================
