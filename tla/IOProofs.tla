------------------------------ MODULE IOProofs -----------------------------
(***************************************************************************)
(* Proofs about the sockets, the streams and the files' pools, for any     *)
(* callers, addresses, ports, files, requests and sizes of buffers and     *)
(* vectors: a call of a client socket waits for the right event            *)
(* (WaitsForTheRightEvent) and its streams stay whole (StreamsWhole), the  *)
(* pool of UDP sockets hands out ports that are apart (PairsConsistent),   *)
(* the map and the queue of the file cache agree (PoolConsistent), a read  *)
(* gives what the file has (ReadsExact), and a response reaches the        *)
(* connection once and in order (StreamInOrder).                           *)
(***************************************************************************)
EXTENDS ClientSocket, UDPSockets, FileSource, ResponseStream,
        FiniteSetTheorems, SequenceTheorems, WellFoundedInduction, TLAPS

----------------------------------------------------------------------------
(* ClientSocket *)

\* A TCPClientSocket has one socket, and an HTTPClientSocket receives when its
\* GET has left the send buffer.
WaitInv ==
    /\ kind \in {"tcp", "http"}
    /\ kind = "tcp" => fSocketP = "socket"
    /\ pending = "receiving" => kind = "http" /\ fSendBuffer = <<>>
    /\ WaitsForTheRightEvent

LEMMA WaitStep ==
    ASSUME WaitInv, [ClientNext]_csVars
    PROVE  WaitInv'
<1>. USE DEF WaitInv, WaitsForTheRightEvent, Out, In
<1>1. CASE UNCHANGED csVars
  BY <1>1 DEF csVars
<1>2. ASSUME NEW s \in Names, Established(s) \/ Breaks(s) PROVE WaitInv'
  BY <1>2 DEF Established, Breaks, SetLink
<1>3. ASSUME NEW n, ServerSends(n) PROVE WaitInv'
  BY <1>3 DEF ServerSends
<1>4. ASSUME NEW n, NEW err, SendV(n, err) PROVE WaitInv'
  <2>1. UNCHANGED kind
    BY <1>4 DEF SendV
  <2>2. CASE err = "OS_NoErr"
    <3>1. PICK buffer : SendSendBuffer(Out, buffer, n, "send")
      BY <1>4, <2>2 DEF SendV
    <3>. QED
      BY <2>1, <3>1 DEF SendSendBuffer
  <2>3. CASE err # "OS_NoErr"
    <3>1. NotConnected(Out, "send", err)
      BY <1>4, <2>3 DEF SendV
    <3>. QED
      BY <2>1, <3>1 DEF NotConnected
  <2>. QED
    BY <2>2, <2>3
<1>5. ASSUME NEW n, NEW err, ReadGet(n, err) PROVE WaitInv'
  <2>1. UNCHANGED kind /\ kind = "http"
    BY <1>5 DEF ReadGet
  <2>2. CASE err = "OS_NoErr"
    <3> DEFINE buffer == IF "get" \in connected THEN fSendBuffer ELSE GetRequest
    <3>1. \/ fSendBuffer' = <<>> /\ pending' = "receiving"
          \/ /\ fSendBuffer' = buffer /\ fSocketP' = "get" /\ fEventMask' = {"EV_WR"}
             /\ pending' = "read" \/ pending' = "failed"
      BY <1>5, <2>2 DEF ReadGet
    <3>2. buffer # <<>>
      BY <1>5, ClientAssumption DEF ReadGet, GetRequest
    <3>. QED
      BY <2>1, <3>1, <3>2
  <2>3. CASE err # "OS_NoErr"
    <3>1. NotConnected("get", "read", err)
      BY <1>5, <2>3 DEF ReadGet
    <3>. QED
      BY <2>1, <3>1 DEF NotConnected
  <2>. QED
    BY <2>2, <2>3
<1>6. CASE ReadAgain
  BY <1>6 DEF ReadAgain
<1>7. CASE ReceiveSome
  <2>1. /\ UNCHANGED <<kind, fSendBuffer, fSocketP, fEventMask>>
        /\ pending' = "none" \/ pending' = pending
    BY <1>7 DEF ReceiveSome
  <2>. QED
    BY <2>1
<1>8. CASE ReceiveNone
  <2>1. /\ UNCHANGED <<kind, fSendBuffer>> /\ pending = "receiving"
        /\ \/ UNCHANGED <<pending, fSocketP, fEventMask>>
           \/ /\ fSocketP' = "get" /\ fEventMask' = {"EV_RE"}
              /\ pending' = "read" \/ pending' = "failed"
    BY <1>8 DEF ReceiveNone
  <2>. QED
    BY <2>1
<1>9. ASSUME NEW n \in Nat, NEW err, ClientRead(n, err) PROVE WaitInv'
  <2>1. /\ UNCHANGED <<kind, fSendBuffer>>
        /\ kind = "http" => fSendBuffer = <<>>
        /\ \/ n > 0 /\ pending' = "none"
           \/ n = 0 /\ fEventMask' = {"EV_RE"} /\ (pending' = "read" \/ pending' = "failed")
        /\ fSocketP' = IF kind = "http" /\ n = 0 THEN "get" ELSE IF err = "EINPROGRESS" THEN In ELSE fSocketP
    BY <1>9 DEF ClientRead
  <2>. QED
    BY <2>1
<1>. QED
  BY <1>1, <1>2, <1>3, <1>4, <1>5, <1>6, <1>7, <1>8, <1>9, ClientAssumption DEF ClientNext, Sizes

\* A call of a client socket that is to be repeated waits for the socket and the
\* direction that stopped it (GetEventMask and GetSocket of ClientSocket.h): a read
\* for data, unless its GET is still to be sent.
THEOREM ClientWaitsRight == ClientSpec => []WaitsForTheRightEvent
<1>1. ClientInit => WaitInv
  BY DEF ClientInit, WaitInv, WaitsForTheRightEvent, Out, In
<1>2. WaitInv /\ [ClientNext]_csVars => WaitInv'
  BY WaitStep
<1>3. WaitInv => WaitsForTheRightEvent
  BY DEF WaitInv
<1>. QED
  BY <1>1, <1>2, <1>3, PTL DEF ClientSpec

----------------------------------------------------------------------------
(* UDPSockets *)

LEMMA SmallestExists ==
    ASSUME NEW S \in SUBSET Nat, S # {}
    PROVE  \E k \in S : \A j \in S : k <= j
<1>1. PICK k \in S : \A j \in S : ~(<<j, k>> \in OpToRel(<, Nat))
  BY NatLessThanWellFounded, WFMin, Zenon
<1>2. \A j \in S : ~(j < k)
  BY <1>1, Zenon DEF OpToRel
<1> QED
  BY <1>2

\* What SelectInSeq finds is in the sequence.
LEMMA FirstIsFound == ASSUME NEW S \in SUBSET Nat, S # {} PROVE Min(S) \in S
  BY SmallestExists DEF Min

UDPCalls == [at : {"out", "searching", "got", "registered", "refused", "unregistered"},
             pair : (Addrs \X Ports) \cup {NoPair}, addr : Addrs \cup {0}, src : Sources]

UDPTypeOK ==
    /\ fUDPQueue \in Seq(Addrs \X Ports)
    /\ fRefCount \in [Addrs \X Ports -> Int]
    /\ udpCall \in [Callers -> UDPCalls]

\* A caller holds a pair from the moment it got one; a search is for an address.
CallsFit ==
    \A c \in Callers : /\ udpCall[c].pair = NoPair <=> udpCall[c].at \in {"out", "searching"}
                       /\ udpCall[c].at = "searching" => udpCall[c].addr \in Addrs

Holders(pair) == {c \in Callers : udpCall[c].pair = pair}

HeldQueued == \A c \in Callers : udpCall[c].pair # NoPair => \E i \in DOMAIN fUDPQueue : fUDPQueue[i] = udpCall[c].pair

HoldersCounted ==
    \A i \in DOMAIN fUDPQueue :
        /\ fUDPQueue[i] # NoPair
        /\ fRefCount[fUDPQueue[i]] = Cardinality(Holders(fUDPQueue[i])) /\ fRefCount[fUDPQueue[i]] > 0

PortsApart ==
    \A i, j \in DOMAIN fUDPQueue : i # j => PortsOf(fUDPQueue[i]) \cap PortsOf(fUDPQueue[j]) = {}

\* A task is registered for the source that its caller got the pair for: with that
\* source UnregisterTask finds it.
TasksHeld ==
    \A e \in fHashTable : /\ e.task \in Callers /\ udpCall[e.task].at = "registered"
                          /\ udpCall[e.task].pair = e.pair /\ udpCall[e.task].src = e.src

OnePerSource == \A e, f \in fHashTable : e.pair = f.pair /\ e.src = f.src => e = f

UDPInv == UDPTypeOK /\ CallsFit /\ HeldQueued /\ HoldersCounted /\ PortsApart /\ TasksHeld /\ OnePerSource

LEMMA UDPInvConsistent == UDPInv => PairsConsistent
<1> SUFFICES ASSUME UDPInv PROVE PairsConsistent
  OBVIOUS
<1>1. \A c \in Callers : udpCall[c].pair # NoPair => udpCall[c].pair \in ToSet(fUDPQueue)
  BY DEF UDPInv, HeldQueued, ToSet
<1>2. ASSUME NEW i \in DOMAIN fUDPQueue
      PROVE  /\ fRefCount[fUDPQueue[i]] = Cardinality({c \in Callers : udpCall[c].pair = fUDPQueue[i]})
             /\ fRefCount[fUDPQueue[i]] > 0
             /\ \A j \in DOMAIN fUDPQueue : i # j => PortsOf(fUDPQueue[i]) \cap PortsOf(fUDPQueue[j]) = {}
  BY DEF UDPInv, HoldersCounted, Holders, PortsApart
<1>3. ASSUME NEW e \in fHashTable, NEW f \in fHashTable
      PROVE  /\ udpCall[e.task].pair = e.pair /\ udpCall[e.task].at = "registered"
             /\ e.pair = f.pair /\ e.src = f.src => e = f
  BY DEF UDPInv, TasksHeld, OnePerSource
<1> QED
  BY <1>1, <1>2, <1>3 DEF PairsConsistent

LEMMA UDPInvInit == UDPInit => UDPInv
<1> SUFFICES ASSUME UDPInit PROVE UDPInv
  OBVIOUS
<1>1. UDPTypeOK
  BY PortAssumption DEF UDPInit, UDPTypeOK, UDPCalls, None
<1>2. CallsFit /\ HeldQueued
  BY DEF UDPInit, CallsFit, HeldQueued, None
<1>3. fUDPQueue = <<>> /\ fHashTable = {}
  BY DEF UDPInit
<1> QED
  BY <1>1, <1>2, <1>3 DEF UDPInv, HoldersCounted, PortsApart, TasksHeld, OnePerSource

LEMMA PairPorts == \A pair \in Addrs \X Ports : pair \in PortsOf(pair)
  BY DEF PortsOf

\* The ports of a pair that can be bound are nobody's.
LEMMA BoundIsNew ==
    ASSUME NEW pair \in Addrs \X Ports, Binds(pair)
    PROVE  /\ pair # NoPair
           /\ \A i \in DOMAIN fUDPQueue : /\ PortsOf(pair) \cap PortsOf(fUDPQueue[i]) = {}
                                          /\ fUDPQueue[i] # pair
<1>1. pair \in PortsOf(pair)
  BY PairPorts
<1>2. pair[2] >= Privileged
  BY <1>1 DEF Binds
<1>3. pair # NoPair
  BY <1>2, PortAssumption DEF NoPair
<1> QED
  BY <1>1, <1>3 DEF Binds

LEMMA UDPFacts ==
    ASSUME UDPInv
    PROVE  /\ UDPTypeOK /\ CallsFit /\ HeldQueued /\ HoldersCounted /\ PortsApart /\ TasksHeld /\ OnePerSource
           /\ Len(fUDPQueue) \in Nat /\ DOMAIN fUDPQueue = 1 .. Len(fUDPQueue)
           /\ \A i \in DOMAIN fUDPQueue : fUDPQueue[i] \in Addrs \X Ports
           /\ \A pair : IsFiniteSet(Holders(pair)) /\ Cardinality(Holders(pair)) \in Nat
<1>1. \A pair : IsFiniteSet(Holders(pair)) /\ Cardinality(Holders(pair)) \in Nat
  <2> SUFFICES ASSUME NEW pair PROVE IsFiniteSet(Holders(pair)) /\ Cardinality(Holders(pair)) \in Nat
    OBVIOUS
  <2>1. IsFiniteSet(Holders(pair))
    BY PortAssumption, FS_Subset DEF Holders
  <2> QED
    BY <2>1, FS_CardinalityType
<1> QED
  BY <1>1 DEF UDPInv, UDPTypeOK

----------------------------------------------------------------------------

\* A caller without a pair gets a new one.
LEMMA CreatedStep ==
    ASSUME UDPInv, NEW c \in Callers, NEW pair \in Addrs \X Ports, NEW src \in Sources,
           udpCall[c].at \in {"out", "searching"}, Binds(pair), Created(c, pair, src), fHashTable' = fHashTable
    PROVE  UDPInv'
<1> DEFINE n == Len(fUDPQueue)
<1>0. /\ fUDPQueue' = Append(fUDPQueue, pair) /\ fRefCount' = [fRefCount EXCEPT ![pair] = 1]
      /\ udpCall' = [udpCall EXCEPT ![c] = [@ EXCEPT !.at = "got", !.pair = pair, !.src = src]]
  BY DEF Created, Got
<1>1. /\ UDPTypeOK /\ n \in Nat /\ DOMAIN fUDPQueue = 1 .. n
      /\ \A i \in 1 .. n : fUDPQueue[i] \in Addrs \X Ports
  BY UDPFacts
<1>2. /\ Len(fUDPQueue') = n + 1 /\ DOMAIN fUDPQueue' = 1 .. n + 1 /\ fUDPQueue'[n + 1] = pair
      /\ \A i \in 1 .. n : fUDPQueue'[i] = fUDPQueue[i]
      /\ \A i \in 1 .. n + 1 : i \in 1 .. n \/ i = n + 1
  BY <1>0, <1>1
<1>3. /\ udpCall'[c].at = "got" /\ udpCall'[c].pair = pair /\ udpCall'[c].src = src
      /\ \A d \in Callers : d # c => udpCall'[d] = udpCall[d]
  BY <1>0, <1>1 DEF UDPTypeOK, UDPCalls
<1>4. /\ pair # NoPair
      /\ \A i \in 1 .. n : PortsOf(pair) \cap PortsOf(fUDPQueue[i]) = {} /\ fUDPQueue[i] # pair
  BY <1>1, BoundIsNew
<1>5. udpCall[c].pair = NoPair
  BY UDPFacts DEF CallsFit
<1> HIDE DEF n
<1>6. UDPTypeOK'
  <2>1. fUDPQueue' \in Seq(Addrs \X Ports)
    BY <1>0, <1>1 DEF UDPTypeOK
  <2>2. fRefCount' \in [Addrs \X Ports -> Int]
    BY <1>0, <1>1 DEF UDPTypeOK
  <2>3. udpCall \in [Callers -> UDPCalls]
    BY <1>1 DEF UDPTypeOK
  <2>4. [udpCall[c] EXCEPT !.at = "got", !.pair = pair, !.src = src] \in UDPCalls
    BY <2>3 DEF UDPCalls
  <2>5. udpCall' \in [Callers -> UDPCalls]
    BY <1>0, <2>3, <2>4
  <2> QED
    BY <2>1, <2>2, <2>5 DEF UDPTypeOK
<1>7. CallsFit'
  BY <1>3, <1>4, UDPFacts DEF CallsFit
<1>8. HeldQueued'
  <2> SUFFICES ASSUME NEW d \in Callers, udpCall'[d].pair # NoPair
               PROVE  \E i \in 1 .. n + 1 : fUDPQueue'[i] = udpCall'[d].pair
    BY <1>2 DEF HeldQueued
  <2>1. CASE d = c
    BY <1>1, <1>2, <1>3, <2>1
  <2>2. CASE d # c
    <3>1. \E i \in 1 .. n : fUDPQueue[i] = udpCall[d].pair
      BY <1>1, <1>3, <2>2, UDPFacts DEF HeldQueued
    <3> QED
      BY <1>1, <1>2, <1>3, <2>2, <3>1
  <2> QED
    BY <2>1, <2>2
<1>9. HoldersCounted'
  <2> SUFFICES ASSUME NEW i \in 1 .. n + 1
               PROVE  /\ fUDPQueue'[i] # NoPair
                      /\ fRefCount'[fUDPQueue'[i]] = Cardinality({d \in Callers : udpCall'[d].pair = fUDPQueue'[i]})
                      /\ fRefCount'[fUDPQueue'[i]] > 0
    BY <1>2 DEF HoldersCounted, Holders
  <2>1. CASE i = n + 1
    <3>1. \A d \in Callers : d # c => udpCall[d].pair # pair
      BY <1>1, <1>4, UDPFacts DEF HeldQueued
    <3>2. {d \in Callers : udpCall'[d].pair = pair} = {c}
      BY <1>3, <3>1
    <3>3. fRefCount'[pair] = 1
      BY <1>0, <1>1 DEF UDPTypeOK
    <3>4. Cardinality({c}) = 1
      BY FS_Singleton
    <3>5. fUDPQueue'[i] = pair /\ fRefCount'[pair] > 0
      BY <1>2, <2>1, <3>3
    <3> QED
      BY <1>4, <3>2, <3>3, <3>4, <3>5, Zenon
  <2>2. CASE i \in 1 .. n
    <3>1. {d \in Callers : udpCall'[d].pair = fUDPQueue[i]} = Holders(fUDPQueue[i])
      <4>1. fUDPQueue[i] # NoPair
        BY <1>1, <2>2, UDPFacts DEF HoldersCounted
      <4> QED
        BY <1>3, <1>4, <1>5, <2>2, <4>1 DEF Holders
    <3>2. fRefCount'[fUDPQueue[i]] = fRefCount[fUDPQueue[i]]
      BY <1>0, <1>1, <1>4, <2>2 DEF UDPTypeOK
    <3>3. /\ fUDPQueue[i] # NoPair
          /\ fRefCount[fUDPQueue[i]] = Cardinality(Holders(fUDPQueue[i])) /\ fRefCount[fUDPQueue[i]] > 0
      BY <1>1, <2>2, UDPFacts DEF HoldersCounted
    <3> QED
      BY <1>2, <2>2, <3>1, <3>2, <3>3 DEF Holders
  <2> QED
    BY <1>2, <2>1, <2>2
<1>10. PortsApart'
  <2> SUFFICES ASSUME NEW i \in 1 .. n + 1, NEW j \in 1 .. n + 1, i # j
               PROVE  PortsOf(fUDPQueue'[i]) \cap PortsOf(fUDPQueue'[j]) = {}
    BY <1>2 DEF PortsApart, PortsOf
  <2>1. CASE i \in 1 .. n /\ j \in 1 .. n
    BY <1>1, <1>2, <2>1, UDPFacts DEF PortsApart
  <2>2. CASE i = n + 1 /\ j \in 1 .. n
    BY <1>2, <1>4, <2>2
  <2>3. CASE j = n + 1 /\ i \in 1 .. n
    BY <1>2, <1>4, <2>3
  <2> QED
    BY <1>2, <2>1, <2>2, <2>3
<1>11. TasksHeld' /\ OnePerSource'
  BY <1>3, UDPFacts DEF TasksHeld, OnePerSource
<1> QED
  BY <1>6, <1>7, <1>8, <1>9, <1>10, <1>11 DEF UDPInv

\* A caller without a pair joins the holders of one that is queued.
LEMMA SharedStep ==
    ASSUME UDPInv, NEW c \in Callers, NEW k \in DOMAIN fUDPQueue, NEW src \in Sources,
           udpCall[c].at = "out", Shared(c, fUDPQueue[k], src), fHashTable' = fHashTable
    PROVE  UDPInv'
<1>1. /\ UDPTypeOK /\ \A i \in DOMAIN fUDPQueue : fUDPQueue[i] \in Addrs \X Ports /\ fUDPQueue[i] # NoPair
      /\ udpCall[c].pair = NoPair
  BY UDPFacts DEF HoldersCounted, CallsFit
<1>2. PICK pair \in Addrs \X Ports : pair = fUDPQueue[k] /\ pair # NoPair
  BY <1>1
<1>3. /\ fUDPQueue' = fUDPQueue /\ fRefCount' = [fRefCount EXCEPT ![pair] = @ + 1]
      /\ udpCall' = [udpCall EXCEPT ![c] = [@ EXCEPT !.at = "got", !.pair = pair, !.src = src]]
  BY <1>2 DEF Shared, Got
<1>4. /\ udpCall'[c].at = "got" /\ udpCall'[c].pair = pair /\ udpCall'[c].src = src
      /\ \A d \in Callers : d # c => udpCall'[d] = udpCall[d]
  BY <1>1, <1>3 DEF UDPTypeOK, UDPCalls
<1>5. UDPTypeOK'
  <2>1. fRefCount' \in [Addrs \X Ports -> Int]
    BY <1>1, <1>3 DEF UDPTypeOK
  <2>2. [udpCall[c] EXCEPT !.at = "got", !.pair = pair, !.src = src] \in UDPCalls
    BY <1>1 DEF UDPTypeOK, UDPCalls
  <2>3. udpCall' \in [Callers -> UDPCalls]
    BY <1>1, <1>3, <2>2 DEF UDPTypeOK
  <2> QED
    BY <1>1, <1>3, <2>1, <2>3 DEF UDPTypeOK
<1>6. CallsFit'
  BY <1>2, <1>4, UDPFacts DEF CallsFit
<1>7. HeldQueued'
  BY <1>2, <1>3, <1>4, UDPFacts DEF HeldQueued
<1>8. HoldersCounted'
  <2> SUFFICES ASSUME NEW i \in DOMAIN fUDPQueue
               PROVE  /\ fRefCount'[fUDPQueue[i]] = Cardinality({d \in Callers : udpCall'[d].pair = fUDPQueue[i]})
                      /\ fRefCount'[fUDPQueue[i]] > 0
    BY <1>1, <1>3 DEF HoldersCounted, Holders
  <2>1. PICK p \in Addrs \X Ports : p = fUDPQueue[i] /\ p # NoPair
    BY <1>1
  <2>2. fRefCount[p] = Cardinality(Holders(p)) /\ fRefCount[p] > 0 /\ fRefCount[p] \in Int
    BY <1>1, <2>1, UDPFacts DEF HoldersCounted, UDPTypeOK
  <2>3. CASE p = pair
    <3>1. {d \in Callers : udpCall'[d].pair = p} = Holders(p) \cup {c} /\ c \notin Holders(p)
      BY <1>1, <1>4, <2>1, <2>3 DEF Holders
    <3>2. Cardinality(Holders(p) \cup {c}) = Cardinality(Holders(p)) + 1
      BY <3>1, UDPFacts, FS_AddElement
    <3>3. fRefCount'[p] = fRefCount[p] + 1
      BY <1>1, <1>3, <2>3 DEF UDPTypeOK
    <3>4. fRefCount'[p] = Cardinality(Holders(p) \cup {c}) /\ fRefCount'[p] > 0
      BY <2>2, <3>2, <3>3
    <3> QED
      BY <2>1, <3>1, <3>4, Zenon
  <2>4. CASE p # pair
    <3>1. {d \in Callers : udpCall'[d].pair = p} = Holders(p)
      BY <1>1, <1>4, <2>1, <2>4 DEF Holders
    <3>2. fRefCount'[p] = fRefCount[p]
      BY <1>1, <1>3, <2>4 DEF UDPTypeOK
    <3> QED
      BY <2>1, <2>2, <3>1, <3>2
  <2> QED
    BY <2>3, <2>4
<1>9. PortsApart'
  BY <1>3, UDPFacts DEF PortsApart
<1>10. TasksHeld' /\ OnePerSource'
  BY <1>4, UDPFacts DEF TasksHeld, OnePerSource
<1> QED
  BY <1>5, <1>6, <1>7, <1>8, <1>9, <1>10 DEF UDPInv

\* The queue, the counts and who holds what stay.
LEMMA HoldingStays ==
    ASSUME UDPInv, UNCHANGED <<fUDPQueue, fRefCount>>, udpCall' \in [Callers -> UDPCalls],
           \A d \in Callers : udpCall'[d].pair = udpCall[d].pair
    PROVE  UDPTypeOK' /\ HeldQueued' /\ HoldersCounted' /\ PortsApart'
<1>1. UDPTypeOK'
  BY UDPFacts DEF UDPTypeOK
<1>2. HeldQueued'
  BY UDPFacts DEF HeldQueued
<1>3. \A p : {d \in Callers : udpCall'[d].pair = p} = Holders(p)
  BY DEF Holders
<1>4. HoldersCounted'
  <2> SUFFICES ASSUME NEW i \in DOMAIN fUDPQueue
               PROVE  /\ fUDPQueue[i] # NoPair
                      /\ fRefCount[fUDPQueue[i]] = Cardinality({d \in Callers : udpCall'[d].pair = fUDPQueue[i]})
                      /\ fRefCount[fUDPQueue[i]] > 0
    BY DEF HoldersCounted, Holders
  <2>1. {d \in Callers : udpCall'[d].pair = fUDPQueue[i]} = Holders(fUDPQueue[i])
    BY <1>3
  <2> QED
    BY <2>1, UDPFacts DEF HoldersCounted
<1>5. PortsApart'
  BY UDPFacts DEF PortsApart
<1> QED
  BY <1>1, <1>2, <1>4, <1>5

LEMMA PoolStays ==
    ASSUME UDPInv, UNCHANGED <<fUDPQueue, fRefCount, fHashTable, udpCall>>
    PROVE  UDPInv'
<1>1. udpCall' \in [Callers -> UDPCalls] /\ \A d \in Callers : udpCall'[d].pair = udpCall[d].pair
  BY UDPFacts DEF UDPTypeOK
<1>2. UDPTypeOK' /\ HeldQueued' /\ HoldersCounted' /\ PortsApart'
  BY <1>1, HoldingStays
<1>3. CallsFit' /\ TasksHeld' /\ OnePerSource'
  BY UDPFacts DEF CallsFit, TasksHeld, OnePerSource
<1> QED
  BY <1>2, <1>3 DEF UDPInv

LEMMA SearchStep ==
    ASSUME UDPInv, NEW c \in Callers, NEW addr \in Addrs, NEW src \in Sources, udpCall[c].at = "out",
           udpCall' = [udpCall EXCEPT ![c] = [@ EXCEPT !.at = "searching", !.addr = addr, !.src = src]],
           UNCHANGED <<fUDPQueue, fRefCount, fHashTable>>
    PROVE  UDPInv'
<1>1. udpCall \in [Callers -> UDPCalls] /\ udpCall[c].pair = NoPair
  BY UDPFacts DEF UDPTypeOK, CallsFit
<1>2. /\ udpCall'[c].at = "searching" /\ udpCall'[c].pair = NoPair /\ udpCall'[c].addr = addr
      /\ \A d \in Callers : d # c => udpCall'[d] = udpCall[d]
  BY <1>1 DEF UDPCalls
<1>3. [udpCall[c] EXCEPT !.at = "searching", !.addr = addr, !.src = src] \in UDPCalls
  BY <1>1 DEF UDPCalls
<1>4. udpCall' \in [Callers -> UDPCalls]
  BY <1>1, <1>3
<1>5. UDPTypeOK' /\ HeldQueued' /\ HoldersCounted' /\ PortsApart'
  BY <1>1, <1>2, <1>4, HoldingStays
<1>6. CallsFit'
  BY <1>2, UDPFacts DEF CallsFit
<1>7. TasksHeld' /\ OnePerSource'
  BY <1>2, UDPFacts DEF TasksHeld, OnePerSource
<1> QED
  BY <1>5, <1>6, <1>7 DEF UDPInv

\* A caller that holds a pair goes on.
LEMMA HolderMoves ==
    ASSUME UDPInv, NEW c \in Callers, udpCall[c].at \notin {"out", "searching"},
           NEW to \in {"registered", "refused", "unregistered"},
           udpCall' = [udpCall EXCEPT ![c].at = to], UNCHANGED <<fUDPQueue, fRefCount>>
    PROVE  /\ UDPTypeOK' /\ HeldQueued' /\ HoldersCounted' /\ PortsApart' /\ CallsFit'
           /\ udpCall'[c].at = to /\ udpCall'[c].pair = udpCall[c].pair /\ udpCall'[c].src = udpCall[c].src
           /\ \A d \in Callers : d # c => udpCall'[d] = udpCall[d]
<1>1. udpCall \in [Callers -> UDPCalls]
  BY UDPFacts DEF UDPTypeOK
<1>2. /\ udpCall'[c].at = to /\ udpCall'[c].pair = udpCall[c].pair /\ udpCall'[c].src = udpCall[c].src
      /\ \A d \in Callers : d # c => udpCall'[d] = udpCall[d]
  BY <1>1 DEF UDPCalls
<1>3. [udpCall[c] EXCEPT !.at = to] \in UDPCalls
  BY <1>1 DEF UDPCalls
<1>4. udpCall' \in [Callers -> UDPCalls]
  BY <1>1, <1>3
<1>5. UDPTypeOK' /\ HeldQueued' /\ HoldersCounted' /\ PortsApart'
  BY <1>2, <1>4, HoldingStays
<1>6. CallsFit'
  BY <1>2, UDPFacts DEF CallsFit
<1> QED
  BY <1>2, <1>5, <1>6

LEMMA RegisterStep ==
    ASSUME UDPInv, NEW c \in Callers, RegisterTask(c)
    PROVE  UDPInv'
<1> DEFINE u == udpCall[c]
<1>0. u.at = "got" /\ UNCHANGED <<fUDPQueue, fRefCount>>
  BY DEF RegisterTask
<1>1. CASE AddrInMap(u.pair, u.src)
  <2>1. udpCall' = [udpCall EXCEPT ![c].at = "refused"] /\ fHashTable' = fHashTable
    BY <1>1 DEF RegisterTask
  <2>2. /\ UDPTypeOK' /\ HeldQueued' /\ HoldersCounted' /\ PortsApart' /\ CallsFit'
        /\ \A d \in Callers : d # c => udpCall'[d] = udpCall[d]
    BY <1>0, <2>1, HolderMoves
  <2>3. TasksHeld' /\ OnePerSource'
    BY <1>0, <2>1, <2>2, UDPFacts DEF TasksHeld, OnePerSource
  <2> QED
    BY <2>2, <2>3 DEF UDPInv
<1>2. CASE ~AddrInMap(u.pair, u.src)
  <2> DEFINE new == [pair |-> u.pair, src |-> u.src, task |-> c]
  <2>1. udpCall' = [udpCall EXCEPT ![c].at = "registered"] /\ fHashTable' = fHashTable \cup {new}
    BY <1>2 DEF RegisterTask
  <2>2. /\ UDPTypeOK' /\ HeldQueued' /\ HoldersCounted' /\ PortsApart' /\ CallsFit'
        /\ udpCall'[c].at = "registered" /\ udpCall'[c].pair = u.pair /\ udpCall'[c].src = u.src
        /\ \A d \in Callers : d # c => udpCall'[d] = udpCall[d]
    BY <1>0, <2>1, HolderMoves
  <2>3. TasksHeld'
    BY <1>0, <2>1, <2>2, UDPFacts DEF TasksHeld
  <2>4. \A e \in fHashTable : ~(e.pair = new.pair /\ e.src = new.src)
    BY <1>2 DEF AddrInMap, GetTask
  <2>5. OnePerSource'
    BY <2>1, <2>4, UDPFacts DEF OnePerSource
  <2> QED
    BY <2>2, <2>3, <2>5 DEF UDPInv
<1> QED
  BY <1>1, <1>2

LEMMA UnregisterStep ==
    ASSUME UDPInv, NEW c \in Callers, UnregisterTask(c)
    PROVE  UDPInv'
<1>1. /\ udpCall[c].at \in {"registered", "refused"} /\ UNCHANGED <<fUDPQueue, fRefCount>>
      /\ udpCall' = [udpCall EXCEPT ![c].at = "unregistered"]
      /\ fHashTable' = fHashTable \ {e \in GetTask(udpCall[c].pair, udpCall[c].src) : e.task = c}
  BY DEF UnregisterTask
<1>2. /\ UDPTypeOK' /\ HeldQueued' /\ HoldersCounted' /\ PortsApart' /\ CallsFit'
      /\ \A d \in Callers : d # c => udpCall'[d] = udpCall[d]
  BY <1>1, HolderMoves
<1>3. \A e \in fHashTable' : e \in fHashTable /\ e.task # c
  BY <1>1, UDPFacts DEF TasksHeld, GetTask
<1>4. TasksHeld' /\ OnePerSource'
  BY <1>2, <1>3, UDPFacts DEF TasksHeld, OnePerSource
<1> QED
  BY <1>2, <1>4 DEF UDPInv

\* The only place where an element stands is closed.
LEMMA RemoveFirstKeeps ==
    ASSUME NEW T, NEW q \in Seq(T), NEW k \in 1 .. Len(q), \A j \in 1 .. Len(q) : q[j] = q[k] => j = k
    PROVE  /\ RemoveFirst(q, q[k]) \in Seq(T) /\ Len(RemoveFirst(q, q[k])) = Len(q) - 1
           /\ \A j \in 1 .. Len(q) - 1 : RemoveFirst(q, q[k])[j] = IF j < k THEN q[j] ELSE q[j + 1]
<1>1. {j \in 1 .. Len(q) : q[j] = q[k]} = {k} /\ Len(q) \in Nat /\ k \in Nat
  OBVIOUS
<1>2. Min({k}) = k
  BY <1>1 DEF Min
<1>3. SelectInSeq(q, LAMBDA v : v = q[k]) = k
  BY <1>1, <1>2 DEF SelectInSeq
<1>4. RemoveFirst(q, q[k]) = SubSeq(q, 1, k - 1) \o SubSeq(q, k + 1, Len(q))
  BY <1>3 DEF RemoveFirst, RemoveAt
<1> DEFINE before == SubSeq(q, 1, k - 1)
           after  == SubSeq(q, k + 1, Len(q))
<1>5. before \in Seq(T) /\ Len(before) = k - 1 /\ \A j \in 1 .. k - 1 : before[j] = q[j]
  BY <1>1
<1>6. after \in Seq(T) /\ Len(after) = Len(q) - k /\ \A j \in 1 .. Len(q) - k : after[j] = q[k + j]
  BY <1>1
<1> HIDE DEF before, after
<1>7. before \o after \in Seq(T) /\ Len(before \o after) = Len(q) - 1
  <2>1. before \o after \in Seq(T)
    BY <1>5, <1>6
  <2>2. Len(before \o after) = Len(before) + Len(after)
    BY <1>5, <1>6, ConcatProperties
  <2> QED
    BY <1>1, <1>5, <1>6, <2>1, <2>2
<1>8. ASSUME NEW j \in 1 .. Len(q) - 1 PROVE (before \o after)[j] = IF j < k THEN q[j] ELSE q[j + 1]
  <2>1. CASE j < k
    BY <1>1, <1>5, <1>6, <2>1
  <2>2. CASE ~(j < k)
    <3>1. j - (k - 1) \in 1 .. Len(q) - k /\ k + (j - (k - 1)) = j + 1
      BY <1>1, <2>2
    <3>2. (before \o after)[j] = after[j - (k - 1)]
      BY <1>1, <1>5, <1>6, <2>2
    <3>3. after[j - (k - 1)] = q[k + (j - (k - 1))]
      BY <1>6, <3>1
    <3> QED
      BY <2>2, <3>1, <3>2, <3>3
  <2> QED
    BY <2>1, <2>2
<1> QED
  BY <1>4, <1>7, <1>8 DEF before, after

LEMMA ReleaseStep ==
    ASSUME UDPInv, NEW c \in Callers, ReleaseUDPSocketPair(c)
    PROVE  UDPInv'
<1> DEFINE n == Len(fUDPQueue)
<1>0. udpCall[c].at \in {"unregistered", "got"} /\ fHashTable' = fHashTable /\ udpCall' = [udpCall EXCEPT ![c] = None]
  BY DEF ReleaseUDPSocketPair
<1>1. /\ UDPTypeOK /\ n \in Nat /\ DOMAIN fUDPQueue = 1 .. n
      /\ \A i \in 1 .. n : fUDPQueue[i] \in Addrs \X Ports /\ fUDPQueue[i] # NoPair
  BY UDPFacts DEF HoldersCounted
<1>2. udpCall[c].pair # NoPair
  BY <1>0, UDPFacts DEF CallsFit
<1>3. PICK k \in 1 .. n, pair \in Addrs \X Ports : pair = fUDPQueue[k] /\ pair = udpCall[c].pair
  BY <1>1, <1>2, UDPFacts DEF HeldQueued
<1>4. \A j \in 1 .. n : fUDPQueue[j] = pair => j = k
  BY <1>1, <1>3, UDPFacts, PairPorts DEF PortsApart
<1>5. /\ fRefCount' = [fRefCount EXCEPT ![pair] = @ - 1]
      /\ fUDPQueue' = IF fRefCount[pair] = 1 THEN RemoveFirst(fUDPQueue, pair) ELSE fUDPQueue
  BY <1>3 DEF ReleaseUDPSocketPair
<1>6. /\ udpCall'[c] = None /\ None \in UDPCalls /\ None.pair = NoPair /\ None.at = "out"
      /\ \A d \in Callers : d # c => udpCall'[d] = udpCall[d]
  BY <1>0, <1>1, PortAssumption DEF UDPTypeOK, UDPCalls, None
<1>7. udpCall' \in [Callers -> UDPCalls] /\ fRefCount' \in [Addrs \X Ports -> Int]
  BY <1>0, <1>1, <1>5, <1>6 DEF UDPTypeOK
<1>8. CallsFit'
  BY <1>6, UDPFacts DEF CallsFit
<1>9. TasksHeld' /\ OnePerSource'
  BY <1>0, <1>6, UDPFacts DEF TasksHeld, OnePerSource
<1> HIDE DEF n
\* What is said of a pair that stays queued.
<1>10. ASSUME NEW p \in Addrs \X Ports, NEW i \in 1 .. n, p = fUDPQueue[i], p # pair \/ fRefCount[pair] # 1
       PROVE  fRefCount'[p] = Cardinality({d \in Callers : udpCall'[d].pair = p}) /\ fRefCount'[p] > 0
  <2>1. fRefCount[p] = Cardinality(Holders(p)) /\ fRefCount[p] > 0 /\ fRefCount[p] \in Int /\ p # NoPair
    BY <1>1, <1>10, UDPFacts DEF HoldersCounted, UDPTypeOK
  <2>2. CASE p = pair
    <3>1. {d \in Callers : udpCall'[d].pair = p} = Holders(p) \ {c} /\ c \in Holders(p)
      BY <1>3, <1>6, <2>1, <2>2 DEF Holders
    <3>2. Cardinality(Holders(p) \ {c}) = Cardinality(Holders(p)) - 1
      BY <3>1, UDPFacts, FS_RemoveElement
    <3>3. fRefCount'[p] = fRefCount[p] - 1
      BY <1>1, <1>5, <2>2 DEF UDPTypeOK
    <3>4. fRefCount'[p] = Cardinality(Holders(p) \ {c}) /\ fRefCount'[p] > 0
      BY <1>10, <2>1, <2>2, <3>2, <3>3
    <3> QED
      BY <3>1, <3>4
  <2>3. CASE p # pair
    <3>1. {d \in Callers : udpCall'[d].pair = p} = Holders(p)
      BY <1>3, <1>6, <2>1, <2>3 DEF Holders
    <3>2. fRefCount'[p] = fRefCount[p]
      BY <1>1, <1>5, <2>3 DEF UDPTypeOK
    <3> QED
      BY <2>1, <3>1, <3>2
  <2> QED
    BY <2>2, <2>3
<1>11. CASE fRefCount[pair] = 1
  <2>1. /\ fUDPQueue' \in Seq(Addrs \X Ports) /\ Len(fUDPQueue') = n - 1
        /\ \A j \in 1 .. n - 1 : fUDPQueue'[j] = IF j < k THEN fUDPQueue[j] ELSE fUDPQueue[j + 1]
    <3>1. fUDPQueue \in Seq(Addrs \X Ports) /\ \A j \in 1 .. Len(fUDPQueue) : fUDPQueue[j] = fUDPQueue[k] => j = k
      BY <1>1, <1>3, <1>4 DEF UDPTypeOK, n
    <3>2. fUDPQueue' = RemoveFirst(fUDPQueue, fUDPQueue[k]) /\ k \in 1 .. Len(fUDPQueue)
      BY <1>3, <1>5, <1>11 DEF n
    <3> QED
      BY <3>1, <3>2, RemoveFirstKeeps DEF n
  <2>2. n - 1 \in Nat /\ DOMAIN fUDPQueue' = 1 .. n - 1
    BY <1>1, <1>3, <2>1
  \* Which of the old places a new one is.
  <2>3. \A j \in 1 .. n - 1 : \E i \in 1 .. n : i # k /\ i = (IF j < k THEN j ELSE j + 1) /\ fUDPQueue'[j] = fUDPQueue[i]
    BY <1>1, <1>3, <2>1, <2>2
  <2>4. \A i \in 1 .. n : i # k => \E j \in 1 .. n - 1 : fUDPQueue'[j] = fUDPQueue[i]
    <3> SUFFICES ASSUME NEW i \in 1 .. n, i # k PROVE \E j \in 1 .. n - 1 : fUDPQueue'[j] = fUDPQueue[i]
      OBVIOUS
    <3>1. CASE i < k
      BY <1>1, <1>3, <2>1, <3>1
    <3>2. CASE i > k
      <4>1. i - 1 \in 1 .. n - 1 /\ ~(i - 1 < k) /\ (i - 1) + 1 = i
        BY <1>1, <1>3, <3>2
      <4> QED
        BY <2>1, <4>1
    <3> QED
      BY <1>1, <1>3, <3>1, <3>2
  <2>5. Holders(pair) = {c}
    <3>1. Cardinality(Holders(pair)) = 1 /\ IsFiniteSet(Holders(pair)) /\ c \in Holders(pair)
      BY <1>1, <1>3, <1>11, UDPFacts DEF HoldersCounted, Holders
    <3>2. PICK x : Holders(pair) = {x}
      BY <3>1, FS_Singleton
    <3> QED
      BY <3>1, <3>2
  <2>6. HeldQueued'
    <3> SUFFICES ASSUME NEW d \in Callers, udpCall'[d].pair # NoPair
                 PROVE  \E j \in 1 .. n - 1 : fUDPQueue'[j] = udpCall'[d].pair
      BY <2>2 DEF HeldQueued
    <3>1. d # c /\ udpCall'[d] = udpCall[d] /\ udpCall[d].pair # pair
      BY <1>6, <2>5 DEF Holders
    <3>2. PICK i \in 1 .. n : fUDPQueue[i] = udpCall[d].pair
      BY <1>1, <3>1, UDPFacts DEF HeldQueued
    <3> QED
      BY <1>3, <2>4, <3>1, <3>2
  <2>7. HoldersCounted'
    <3> SUFFICES ASSUME NEW j \in 1 .. n - 1
                 PROVE  /\ fUDPQueue'[j] # NoPair
                        /\ fRefCount'[fUDPQueue'[j]] = Cardinality({d \in Callers : udpCall'[d].pair = fUDPQueue'[j]})
                        /\ fRefCount'[fUDPQueue'[j]] > 0
      BY <2>2 DEF HoldersCounted, Holders
    <3>1. PICK i \in 1 .. n : i # k /\ fUDPQueue'[j] = fUDPQueue[i]
      BY <2>3
    <3>2. PICK p \in Addrs \X Ports : p = fUDPQueue[i] /\ p # NoPair
      BY <1>1
    <3>3. p # pair
      BY <1>4, <3>1, <3>2
    <3>4. fRefCount'[p] = Cardinality({d \in Callers : udpCall'[d].pair = p}) /\ fRefCount'[p] > 0
      BY <1>10, <3>2, <3>3
    <3> QED
      BY <3>1, <3>2, <3>4, Zenon
  <2>8. PortsApart'
    <3> SUFFICES ASSUME NEW j \in 1 .. n - 1, NEW l \in 1 .. n - 1, j # l
                 PROVE  PortsOf(fUDPQueue'[j]) \cap PortsOf(fUDPQueue'[l]) = {}
      BY <2>2 DEF PortsApart, PortsOf
    <3>1. PICK i \in 1 .. n : i = (IF j < k THEN j ELSE j + 1) /\ fUDPQueue'[j] = fUDPQueue[i]
      BY <2>3
    <3>2. PICK m \in 1 .. n : m = (IF l < k THEN l ELSE l + 1) /\ fUDPQueue'[l] = fUDPQueue[m]
      BY <2>3
    <3>3. i # m
      BY <1>3, <3>1, <3>2
    <3> QED
      BY <1>1, <3>1, <3>2, <3>3, UDPFacts DEF PortsApart
  <2>9. UDPTypeOK'
    BY <1>7, <2>1 DEF UDPTypeOK
  <2> QED
    BY <1>8, <1>9, <2>6, <2>7, <2>8, <2>9 DEF UDPInv
<1>12. CASE fRefCount[pair] # 1
  <2>1. fUDPQueue' = fUDPQueue
    BY <1>5, <1>12
  <2>2. UDPTypeOK' /\ PortsApart'
    BY <1>1, <1>7, <2>1, UDPFacts DEF UDPTypeOK, PortsApart
  <2>3. HeldQueued'
    BY <1>6, <2>1, UDPFacts DEF HeldQueued
  <2>4. HoldersCounted'
    <3> SUFFICES ASSUME NEW i \in 1 .. n
                 PROVE  /\ fUDPQueue[i] # NoPair
                        /\ fRefCount'[fUDPQueue[i]] = Cardinality({d \in Callers : udpCall'[d].pair = fUDPQueue[i]})
                        /\ fRefCount'[fUDPQueue[i]] > 0
      BY <1>1, <2>1 DEF HoldersCounted, Holders
    <3>1. PICK p \in Addrs \X Ports : p = fUDPQueue[i] /\ p # NoPair
      BY <1>1
    <3>2. fRefCount'[p] = Cardinality({d \in Callers : udpCall'[d].pair = p}) /\ fRefCount'[p] > 0
      BY <1>10, <1>12, <3>1
    <3> QED
      BY <3>1, <3>2, Zenon
  <2> QED
    BY <1>8, <1>9, <2>2, <2>3, <2>4 DEF UDPInv
<1> QED
  BY <1>11, <1>12

\* Every port that is tried is one.
LEMMA TriedIsPort == \A k \in Nat : Tried(k) \in Ports
<1> SUFFICES ASSUME NEW k \in Nat PROVE Tried(k) \in Ports
  OBVIOUS
<1>1. kHighestUDPPort \in Nat /\ kLowestUDPPort \in Nat
  BY PortAssumption
<1>2. PICK x \in Int, h \in Nat : x = kLowestUDPPort + 2 * k /\ h = kHighestUDPPort + 1 /\ h > 0
  BY <1>1
<1>3. x % h \in 0 .. h - 1
  BY <1>2
<1> QED
  BY <1>1, <1>2, <1>3 DEF Tried, Ports

LEMMA GetStep ==
    ASSUME UDPInv, NEW c \in Callers, NEW addr \in Addrs, NEW port \in Ports, NEW src \in Sources, NEW opens \in BOOLEAN,
           GetUDPSocketPair(c, addr, port, src, opens)
    PROVE  UDPInv'
<1> DEFINE fits == {i \in 1 .. Len(fUDPQueue) :
                       /\ fUDPQueue[i][1] = addr /\ (port = 0 \/ fUDPQueue[i][2] = port)
                       /\ ~fDemuxer \/ (~AddrInMap(fUDPQueue[i], AnySource) /\ ~AddrInMap(fUDPQueue[i], src))}
           first == IF fits # {} THEN Min(fits) ELSE 0
<1>0. udpCall[c].at = "out" /\ fHashTable' = fHashTable
  BY DEF GetUDPSocketPair
<1>1. \/ first # 0 /\ Shared(c, fUDPQueue[first], src)
      \/ UNCHANGED <<fUDPQueue, fRefCount, udpCall>>
      \/ CreateUDPSocketPair(c, addr, port, src, opens)
  BY DEF GetUDPSocketPair, SelectInSeq
<1>2. first # 0 => first \in fits
  <2>1. fits \in SUBSET Nat
    OBVIOUS
  <2> HIDE DEF fits
  <2> QED
    BY <2>1, FirstIsFound
<1>3. ASSUME first # 0, Shared(c, fUDPQueue[first], src) PROVE UDPInv'
  <2>1. first \in DOMAIN fUDPQueue
    BY <1>2, <1>3, UDPFacts
  <2> HIDE DEF first
  <2> QED
    BY <1>0, <1>3, <2>1, SharedStep
<1>4. ASSUME UNCHANGED <<fUDPQueue, fRefCount, udpCall>> PROVE UDPInv'
  BY <1>0, <1>4, PoolStays
<1>5. ASSUME CreateUDPSocketPair(c, addr, port, src, opens) PROVE UDPInv'
  <2> DEFINE free == {k \in 0 .. (kHighestUDPPort \div 2) : Binds(<<addr, Tried(k)>>)}
             least == CHOOSE k \in free : \A j \in free : k <= j
  <2>1. \/ UNCHANGED <<fUDPQueue, fRefCount, udpCall>>
        \/ Binds(<<addr, port>>) /\ Created(c, <<addr, port>>, src)
        \/ free # {} /\ Created(c, <<addr, Tried(least)>>, src)
        \/ /\ udpCall' = [udpCall EXCEPT ![c] = [@ EXCEPT !.at = "searching", !.addr = addr, !.src = src]]
           /\ UNCHANGED <<fUDPQueue, fRefCount>>
    BY <1>5 DEF CreateUDPSocketPair
  <2>2. ASSUME Binds(<<addr, port>>), Created(c, <<addr, port>>, src) PROVE UDPInv'
    BY <1>0, <2>2, CreatedStep
  <2>3. ASSUME free # {}, Created(c, <<addr, Tried(least)>>, src) PROVE UDPInv'
    <3>1. free \in SUBSET Nat
      BY PortAssumption
    <3>2. least \in free
      BY <2>3, <3>1, SmallestExists
    <3>3. Binds(<<addr, Tried(least)>>) /\ Tried(least) \in Ports
      BY <3>1, <3>2, TriedIsPort
    <3> HIDE DEF least
    <3>4. PICK pair \in Addrs \X Ports : pair = <<addr, Tried(least)>>
      BY <3>3
    <3> QED
      BY <1>0, <2>3, <3>3, <3>4, CreatedStep
  <2> QED
    BY <1>0, <1>4, <2>1, <2>2, <2>3, SearchStep
<1> QED
  BY <1>1, <1>3, <1>4, <1>5

LEMMA UDPStep == UDPInv /\ [UDPNext]_udpVars => UDPInv'
<1> SUFFICES ASSUME UDPInv, [UDPNext]_udpVars PROVE UDPInv'
  OBVIOUS
<1>1. ASSUME NEW c \in Callers, SearchGoesOn(c) PROVE UDPInv'
  <2>1. PICK k \in 0 .. (kHighestUDPPort \div 2) :
           /\ Binds(<<udpCall[c].addr, Tried(k)>>)
           /\ Created(c, <<udpCall[c].addr, Tried(k)>>, udpCall[c].src)
    BY <1>1 DEF SearchGoesOn
  <2>2. udpCall[c].at = "searching" /\ fHashTable' = fHashTable
    BY <1>1 DEF SearchGoesOn
  <2>3. udpCall[c].addr \in Addrs /\ udpCall[c].src \in Sources
    BY <2>2, UDPFacts DEF CallsFit, UDPTypeOK, UDPCalls
  <2>4. Tried(k) \in Ports
    BY TriedIsPort, PortAssumption
  <2>5. PICK pair \in Addrs \X Ports, src \in Sources : pair = <<udpCall[c].addr, Tried(k)>> /\ src = udpCall[c].src
    BY <2>3, <2>4
  <2> QED
    BY <2>1, <2>2, <2>5, CreatedStep
<1>2. ASSUME NEW b \in Foreign, ForeignPort(b) PROVE UDPInv'
  BY <1>2, PoolStays DEF ForeignPort
<1>3. CASE UNCHANGED udpVars
  BY <1>3, PoolStays DEF udpVars
<1> QED
  BY <1>1, <1>2, <1>3, GetStep, RegisterStep, UnregisterStep, ReleaseStep DEF UDPNext

\* A pair of UDP sockets stays in the pool's queue as long as a caller holds it, is
\* counted once for every holder, and shares no port with another pair; a demuxer
\* knows a task only while its caller holds the pair.
THEOREM PairsStayConsistent == UDPSpec => []PairsConsistent
  BY UDPInvConsistent, UDPInvInit, UDPStep, PTL DEF UDPSpec

----------------------------------------------------------------------------
(* FileSource: the map, the queue and what a buffer believes *)

\* PoolConsistent, about the set of the buffers in the queue.
Mapped(S, map, idx) ==
    /\ \A b \in S : idx[b] \in DOMAIN map /\ map[idx[b]] = b
    /\ \A i \in DOMAIN map : map[i] # 0 => map[i] \in S /\ idx[map[i]] = i

LEMMA PoolIsMapped ==
    PoolConsistent <=> IsInjective(fQueue) /\ Mapped(ToSet(fQueue), fFileMapArray, fArrayIndex)
BY DEF PoolConsistent, Mapped

\* The parts of a queue, the map without some buffers, and a queue with an element
\* that is removed and put in again.
Oldest(q, c) == SubSeq(q, 1, c)
Newest(q, c) == SubSeq(q, c + 1, Len(q))
Evicted(map, U) == [i \in DOMAIN map |-> IF map[i] \in U THEN 0 ELSE map[i]]
Requeued(q, b) == Append(RemoveFirst(q, b), b)

\* The buffers that are deleted leave the map.
LEMMA EvictKeeps ==
    ASSUME NEW S, NEW T, NEW U, NEW map, NEW idx, Mapped(S, map, idx), U \cap T = {}, S = U \cup T,
           NEW m, m = Evicted(map, U)
    PROVE  Mapped(T, m, idx)
<1>1. ASSUME NEW b \in T PROVE idx[b] \in DOMAIN m /\ m[idx[b]] = b
  BY DEF Mapped, Evicted
<1>2. ASSUME NEW i \in DOMAIN m, m[i] # 0 PROVE m[i] \in T /\ idx[m[i]] = i
  BY <1>2 DEF Mapped, Evicted
<1>. QED
  BY <1>1, <1>2 DEF Mapped

\* A buffer takes a block that none has; the others keep theirs.
LEMMA TakeKeeps ==
    ASSUME NEW S \in SUBSET Buffers, NEW map, NEW idx, Mapped(S, map, idx),
           NEW b \in Buffers, NEW index \in DOMAIN map, map[index] = 0,
           NEW m, m = TakeBuffer(map, b, index),
           NEW id, id = [e \in Buffers |-> IF e = b THEN index ELSE IF e \in Buffers \ S THEN -1 ELSE idx[e]]
    PROVE  Mapped(S \cup {b}, m, id)
<1>0. \A e \in Buffers : e # 0
  BY FileAssumption DEF Buffers
<1>1. DOMAIN m = DOMAIN map /\ \A i \in DOMAIN map : m[i] = IF i = index THEN b ELSE IF map[i] = b THEN 0 ELSE map[i]
  BY DEF TakeBuffer
<1>2. id[b] = index /\ \A e \in S : e # b => id[e] = idx[e]
  OBVIOUS
<1>3. ASSUME NEW e \in S \cup {b} PROVE id[e] \in DOMAIN m /\ m[id[e]] = e
  <2>1. CASE e = b
    BY <1>1, <1>2, <2>1
  <2>2. CASE e # b
    <3>1. e \in S /\ id[e] = idx[e] /\ idx[e] \in DOMAIN map /\ map[idx[e]] = e /\ e # 0
      BY <1>0, <1>2, <2>2 DEF Mapped
    <3>. QED
      BY <1>1, <2>2, <3>1
  <2>. QED
    BY <2>1, <2>2
<1>4. ASSUME NEW i \in DOMAIN m, m[i] # 0 PROVE m[i] \in S \cup {b} /\ id[m[i]] = i
  <2>1. CASE i = index
    BY <1>1, <1>2, <2>1
  <2>2. CASE i # index
    <3>1. m[i] = map[i] /\ map[i] # b /\ map[i] # 0 /\ i \in DOMAIN map
      BY <1>1, <1>4, <2>2
    <3>2. map[i] \in S /\ idx[map[i]] = i
      BY <3>1 DEF Mapped
    <3>. QED
      BY <1>2, <3>1, <3>2
  <2>. QED
    BY <2>1, <2>2
<1>. QED
  BY <1>3, <1>4 DEF Mapped

\* A buffer that has the block stays where it is.
LEMMA HitKeeps ==
    ASSUME NEW S \in SUBSET Buffers, NEW map, NEW idx, Mapped(S, map, idx),
           NEW b \in S, NEW index \in DOMAIN map, map[index] = b, b # 0,
           NEW id, id = [e \in Buffers |-> IF e = b THEN index ELSE IF e \in Buffers \ S THEN -1 ELSE idx[e]]
    PROVE  Mapped(S, map, id)
<1>1. idx[b] = index
  BY DEF Mapped
<1>2. \A e \in S : id[e] = idx[e]
  BY <1>1
<1>. QED
  BY <1>2 DEF Mapped

\* Sequences without repetitions.
LEMMA PartDistinct ==
    ASSUME NEW T, NEW q \in Seq(T), IsInjective(q), NEW c \in 0 .. Len(q),
           NEW old, old = Oldest(q, c), NEW kept, kept = Newest(q, c)
    PROVE  /\ kept \in Seq(T) /\ Len(kept) = Len(q) - c /\ IsInjective(kept)
           /\ old \in Seq(T) /\ Len(old) = c
           /\ ToSet(q) = ToSet(old) \cup ToSet(kept) /\ ToSet(old) \cap ToSet(kept) = {}
<1>1. PICK n \in Nat : n = Len(q) /\ DOMAIN q = 1 .. n
  BY LenProperties
<1>2. \A i \in 1 .. n : q[i] \in T
  BY <1>1, ElementOfSeq
<1>3. c \in Nat /\ c <= n
  BY <1>1
<1>4. old \in Seq(T) /\ Len(old) = c /\ \A k \in 1 .. c : old[k] = q[k]
  BY <1>1, <1>2, <1>3 DEF Oldest
<1>5. kept \in Seq(T) /\ Len(kept) = n - c /\ \A k \in 1 .. n - c : kept[k] = q[c + k]
  BY <1>1, <1>2, <1>3 DEF Newest
<1>6. DOMAIN old = 1 .. c /\ DOMAIN kept = 1 .. n - c
  BY <1>4, <1>5, LenProperties
<1>7. \A i, j \in 1 .. n : q[i] = q[j] => i = j
  BY <1>1, Zenon DEF IsInjective
<1>8. IsInjective(kept)
  <2>1. ASSUME NEW i \in 1 .. n - c, NEW j \in 1 .. n - c, kept[i] = kept[j] PROVE i = j
    <3>1. c + i \in 1 .. n /\ c + j \in 1 .. n
      BY <1>3
    <3>2. q[c + i] = q[c + j]
      BY <1>5, <2>1, Zenon
    <3>3. c + i = c + j
      BY <1>7, <3>1, <3>2, Zenon
    <3>. QED
      BY <1>3, <3>3
  <2>. QED
    BY <1>6, <2>1, Zenon DEF IsInjective
<1>9. ToSet(old) \cap ToSet(kept) = {}
  <2>1. ASSUME NEW i \in 1 .. c, NEW j \in 1 .. n - c PROVE old[i] # kept[j]
    <3>1. i \in 1 .. n /\ c + j \in 1 .. n /\ i # c + j
      BY <1>3
    <3>2. q[i] # q[c + j]
      BY <1>7, <3>1, Zenon
    <3>. QED
      BY <1>4, <1>5, <3>2, Zenon
  <2>2. ToSet(old) = {old[i] : i \in 1 .. c} /\ ToSet(kept) = {kept[i] : i \in 1 .. n - c}
    BY <1>6, Zenon DEF ToSet
  <2>3. ASSUME NEW x \in ToSet(old), x \in ToSet(kept) PROVE FALSE
    <3>1. PICK i \in 1 .. c : x = old[i]
      BY <2>2, Zenon
    <3>2. PICK j \in 1 .. n - c : x = kept[j]
      BY <2>2, <2>3, Zenon
    <3>. QED
      BY <2>1, <3>1, <3>2
  <2>. QED
    BY <2>3
<1>10. ToSet(q) = ToSet(old) \cup ToSet(kept)
  <2>1. ASSUME NEW i \in 1 .. n PROVE q[i] \in ToSet(old) \cup ToSet(kept)
    <3>1. CASE i <= c
      <4>1. i \in 1 .. c
        BY <1>3, <3>1
      <4>. QED
        BY <1>4, <1>6, <4>1, Zenon DEF ToSet
    <3>2. CASE ~(i <= c)
      <4>1. PICK j \in 1 .. n - c : i = c + j
        <5>1. i - c \in 1 .. n - c /\ i = c + (i - c)
          BY <1>3, <3>2
        <5>. QED
          BY <5>1
      <4>2. kept[j] = q[i]
        BY <1>5, <4>1, Zenon
      <4>. QED
        BY <1>6, <4>1, <4>2, Zenon DEF ToSet
    <3>. QED
      BY <3>1, <3>2
  <2>2. ASSUME NEW i \in 1 .. c PROVE old[i] \in ToSet(q)
    <3>1. i \in 1 .. n
      BY <1>3
    <3>. QED
      BY <1>1, <1>4, <3>1, Zenon DEF ToSet
  <2>3. ASSUME NEW i \in 1 .. n - c PROVE kept[i] \in ToSet(q)
    <3>1. c + i \in 1 .. n
      BY <1>3
    <3>. QED
      BY <1>1, <1>5, <3>1, Zenon DEF ToSet
  <2>4. ToSet(old) = {old[i] : i \in 1 .. c} /\ ToSet(kept) = {kept[i] : i \in 1 .. n - c}
    BY <1>6, Zenon DEF ToSet
  <2>5. ToSet(q) = {q[i] : i \in 1 .. n}
    BY <1>1, Zenon DEF ToSet
  <2>6. ToSet(q) \subseteq ToSet(old) \cup ToSet(kept)
    BY <2>1, <2>5, Zenon
  <2>7. ToSet(old) \subseteq ToSet(q)
    BY <2>2, <2>4, Zenon
  <2>8. ToSet(kept) \subseteq ToSet(q)
    BY <2>3, <2>4, Zenon
  <2>. QED
    BY <2>6, <2>7, <2>8, Zenon
<1>. QED
  BY <1>1, <1>4, <1>5, <1>8, <1>9, <1>10, Zenon

\* Remove() of a queue.
LEMMA RemovedDistinct ==
    ASSUME NEW T, NEW q \in Seq(T), IsInjective(q), NEW b \in T, NEW s, s = RemoveFirst(q, b)
    PROVE  s \in Seq(T) /\ IsInjective(s) /\ ToSet(s) = ToSet(q) \ {b}
<1>1. PICK n \in Nat : n = Len(q) /\ DOMAIN q = 1 .. n
  BY LenProperties
<1>2. \A i, j \in 1 .. n : q[i] = q[j] => i = j
  BY <1>1, Zenon DEF IsInjective
<1>3. CASE ~\E i \in 1 .. n : q[i] = b
  <2>1. s = q
    BY <1>1, <1>3, Zenon DEF RemoveFirst
  <2>2. b \notin ToSet(q)
    BY <1>1, <1>3, Zenon DEF ToSet
  <2>. QED
    BY <2>1, <2>2
<1>4. CASE \E i \in 1 .. n : q[i] = b
  <2>1. PICK k \in 1 .. n : q[k] = b
    BY <1>4
  <2>2. \A j \in 1 .. Len(q) : q[j] = q[k] => j = k
    BY <1>1, <1>2, Zenon
  <2>3. /\ s \in Seq(T) /\ Len(s) = n - 1
        /\ \A j \in 1 .. n - 1 : s[j] = IF j < k THEN q[j] ELSE q[j + 1]
    <3>1. /\ RemoveFirst(q, q[k]) \in Seq(T) /\ Len(RemoveFirst(q, q[k])) = Len(q) - 1
          /\ \A j \in 1 .. Len(q) - 1 : RemoveFirst(q, q[k])[j] = IF j < k THEN q[j] ELSE q[j + 1]
      BY <1>1, <2>2, RemoveFirstKeeps
    <3>. QED
      BY <1>1, <2>1, <3>1, Zenon
  <2>4. DOMAIN s = 1 .. n - 1
    BY <2>3, LenProperties
  <2>5. ASSUME NEW j \in 1 .. n - 1
        PROVE  \E h \in 1 .. n : h # k /\ s[j] = q[h] /\ ((h = j /\ j < k) \/ (h = j + 1 /\ ~(j < k)))
    <3>1. CASE j < k
      <4>1. j \in 1 .. n /\ j # k
        BY <1>1, <3>1
      <4>2. s[j] = q[j]
        BY <2>3, <3>1, Zenon
      <4>3. j # k /\ s[j] = q[j] /\ ((j = j /\ j < k) \/ (j = j + 1 /\ ~(j < k)))
        BY <3>1, <4>1, <4>2
      <4>. QED
        BY <4>1, <4>3, Zenon
    <3>2. CASE ~(j < k)
      <4>1. j + 1 \in 1 .. n /\ j + 1 # k
        BY <1>1, <3>2
      <4>2. s[j] = q[j + 1]
        BY <2>3, <3>2, Zenon
      <4>. QED
        BY <3>2, <4>1, <4>2, Zenon
    <3>. QED
      BY <3>1, <3>2
  <2>6. IsInjective(s)
    <3>1. ASSUME NEW i \in 1 .. n - 1, NEW j \in 1 .. n - 1, s[i] = s[j] PROVE i = j
      <4>1. PICK h \in 1 .. n : s[i] = q[h] /\ ((h = i /\ i < k) \/ (h = i + 1 /\ ~(i < k)))
        BY <2>5
      <4>2. PICK l \in 1 .. n : s[j] = q[l] /\ ((l = j /\ j < k) \/ (l = j + 1 /\ ~(j < k)))
        BY <2>5
      <4>3. h = l
        BY <1>2, <3>1, <4>1, <4>2, Zenon
      <4>4. h \in Nat /\ l \in Nat /\ k \in Nat /\ i \in Nat /\ j \in Nat
        BY <1>1
      <4>. QED
        BY <4>1, <4>2, <4>3, <4>4
    <3>. QED
      BY <2>4, <3>1, Zenon DEF IsInjective
  <2>7. ASSUME NEW h \in 1 .. n, h # k PROVE q[h] \in ToSet(s)
    <3>1. CASE h < k
      <4>1. h \in 1 .. n - 1
        BY <1>1, <3>1
      <4>2. s[h] = q[h]
        BY <2>3, <3>1, <4>1, Zenon
      <4>. QED
        BY <2>4, <4>1, <4>2, Zenon DEF ToSet
    <3>2. CASE ~(h < k)
      <4>1. PICK j \in 1 .. n - 1 : h = j + 1 /\ ~(j < k)
        <5>1. h - 1 \in 1 .. n - 1 /\ h = (h - 1) + 1 /\ ~(h - 1 < k)
          BY <1>1, <2>7, <3>2
        <5>. QED
          BY <5>1
      <4>2. s[j] = q[h]
        BY <2>3, <4>1, Zenon
      <4>. QED
        BY <2>4, <4>1, <4>2, Zenon DEF ToSet
    <3>. QED
      BY <3>1, <3>2
  <2>8. ToSet(s) \subseteq ToSet(q) \ {b}
    <3>1. ASSUME NEW j \in 1 .. n - 1 PROVE s[j] \in ToSet(q) /\ s[j] # b
      <4>1. PICK h \in 1 .. n : h # k /\ s[j] = q[h]
        BY <2>5
      <4>2. q[h] # b
        BY <1>2, <2>1, <4>1, Zenon
      <4>. QED
        BY <1>1, <4>1, <4>2, Zenon DEF ToSet
    <3>. QED
      BY <2>4, <3>1, Zenon DEF ToSet
  <2>9. ToSet(q) \ {b} \subseteq ToSet(s)
    <3>1. ASSUME NEW h \in 1 .. n, q[h] # b PROVE q[h] \in ToSet(s)
      BY <2>1, <2>7, <3>1, Zenon
    <3>. QED
      BY <1>1, <3>1, Zenon DEF ToSet
  <2>. QED
    BY <2>3, <2>6, <2>8, <2>9, Zenon
<1>. QED
  BY <1>3, <1>4

\* Remove() and EnQueue(): the element is last, and there once.
LEMMA RequeueDistinct ==
    ASSUME NEW T, NEW q \in Seq(T), IsInjective(q), NEW b \in T,
           NEW u, u = Requeued(q, b)
    PROVE  u \in Seq(T) /\ IsInjective(u) /\ ToSet(u) = ToSet(q) \cup {b}
<1>1. PICK s : s = RemoveFirst(q, b)
  OBVIOUS
<1>2. s \in Seq(T) /\ IsInjective(s) /\ ToSet(s) = ToSet(q) \ {b}
  BY <1>1, RemovedDistinct
<1>3. PICK n \in Nat : n = Len(s) /\ DOMAIN s = 1 .. n
  BY <1>2, LenProperties
<1>4. u = Append(s, b)
  BY <1>1 DEF Requeued
<1>5. /\ u \in Seq(T) /\ Len(u) = n + 1 /\ u[n + 1] = b
      /\ \A i \in 1 .. n : u[i] = s[i]
  BY <1>2, <1>3, <1>4, AppendProperties
<1>6. DOMAIN u = 1 .. n + 1 /\ \A i \in 1 .. n + 1 : i \in 1 .. n \/ i = n + 1
  BY <1>3, <1>5, LenProperties
<1>7. \A i \in 1 .. n : s[i] # b
  BY <1>2, <1>3, Zenon DEF ToSet
<1>8. \A i, j \in 1 .. n : s[i] = s[j] => i = j
  BY <1>2, <1>3, Zenon DEF IsInjective
<1>9. IsInjective(u)
  <2>1. ASSUME NEW i \in 1 .. n + 1, NEW j \in 1 .. n + 1, u[i] = u[j] PROVE i = j
    BY <1>5, <1>6, <1>7, <1>8, <2>1, Zenon
  <2>. QED
    BY <1>6, <2>1, Zenon DEF IsInjective
<1>10. ToSet(u) = ToSet(s) \cup {b}
  <2>1. 1 .. n \subseteq 1 .. n + 1 /\ n + 1 \in 1 .. n + 1
    BY <1>3
  <2>2. ASSUME NEW i \in 1 .. n + 1 PROVE u[i] \in ToSet(s) \cup {b}
    BY <1>3, <1>5, <1>6, Zenon DEF ToSet
  <2>3. ASSUME NEW i \in 1 .. n PROVE s[i] \in ToSet(u)
    BY <1>5, <1>6, <2>1, Zenon DEF ToSet
  <2>4. b \in ToSet(u)
    BY <1>5, <1>6, <2>1, Zenon DEF ToSet
  <2>. QED
    BY <1>3, <1>6, <2>2, <2>3, <2>4, Zenon DEF ToSet
<1>11. ToSet(u) = ToSet(q) \cup {b}
  BY <1>2, <1>10, Zenon
<1>. QED
  BY <1>5, <1>9, <1>11

----------------------------------------------------------------------------
(* FileSource: the steps *)

CallRecords(O) == [phase : O, pos : O, len : O, index : Nat, cached : O, out : O, tainted : O]

\* Of a call only the index of its block counts here.
CallsTyped == \E O : call \in [Readers -> CallRecords(O)]

\* The map reaches from the first block to some last one.
MapSized ==
    DOMAIN fFileMapArray # {} =>
        fDataBufferSize \in Nat \ {0} /\ \E m \in Nat : DOMAIN fFileMapArray = 0 .. m

\* GetBuffer() is called for a block of the map.
BlockInMap == \A r \in Readers : call[r].phase = "block" => call[r].index \in DOMAIN fFileMapArray

\* There are buffers enough for the limit.
LimitFits == fQueue \in Seq(Buffers) /\ fMaxBuffers \in 1 .. MaxBuffers /\ fBufferInc \in Nat

FileInv == fFile \in Files /\ LimitFits /\ CallsTyped /\ MapSized /\ BlockInMap /\ PoolConsistent

LEMMA Blocks ==
    ASSUME NEW a \in Nat, NEW b \in Nat, NEW d \in Nat \ {0}
    PROVE  a \div d \in Nat /\ (a + b) \div d \in Nat /\ a \div d <= (a + b) \div d
OBVIOUS

LEMMA LastBlock ==
    ASSUME MapSized, NEW i \in Nat, i <= GetMaxBuffIndex
    PROVE  i \in DOMAIN fFileMapArray
<1>1. CASE DOMAIN fFileMapArray = {}
  <2>1. Cardinality(DOMAIN fFileMapArray) = 0
    BY <1>1, FS_EmptySet
  <2>. QED
    BY <2>1 DEF GetMaxBuffIndex
<1>2. CASE DOMAIN fFileMapArray # {}
  <2>1. PICK m \in Nat : DOMAIN fFileMapArray = 0 .. m
    BY <1>2 DEF MapSized
  <2>2. Cardinality(0 .. m) = m + 1
    BY FS_Interval
  <2>3. GetMaxBuffIndex = m
    BY <2>1, <2>2 DEF GetMaxBuffIndex
  <2>. QED
    BY <2>1, <2>3
<1>. QED
  BY <1>1, <1>2

\* A buffer that is not in a queue shorter than the number of buffers.
LEMMA BufferIsFree ==
    ASSUME NEW q \in Seq(Buffers), Len(q) < MaxBuffers
    PROVE  /\ Buffers \ ToSet(q) # {}
           /\ (CHOOSE n \in Buffers \ ToSet(q) : \A m \in Buffers \ ToSet(q) : n <= m) \in Buffers \ ToSet(q)
<1>1. PICK n \in Nat : n = Len(q) /\ DOMAIN q = 1 .. n /\ q \in [1 .. n -> Buffers]
  BY LenProperties
<1>2. ToSet(q) = {q[i] : i \in 1 .. n}
  BY <1>1, Zenon DEF ToSet
<1>3. q \in Surjection(1 .. n, ToSet(q))
  <2>1. q \in [1 .. n -> ToSet(q)]
    BY <1>1, <1>2
  <2>2. \A t \in ToSet(q) : \E s \in 1 .. n : q[s] = t
    BY <1>2
  <2>. QED
    BY <2>1, <2>2 DEF Surjection
<1>4. IsFiniteSet(1 .. n) /\ Cardinality(1 .. n) = n
  BY FS_Interval
<1>5. IsFiniteSet(ToSet(q)) /\ Cardinality(ToSet(q)) <= n
  BY <1>3, <1>4, FS_Surjection
<1>6. Cardinality(Buffers) = MaxBuffers
  BY FS_Interval, FileAssumption DEF Buffers
<1>7. ToSet(q) # Buffers
  <2>1. MaxBuffers \in Nat /\ n < MaxBuffers
    BY <1>1, FileAssumption
  <2>. QED
    BY <1>5, <1>6, <2>1
<1>8. ToSet(q) \subseteq Buffers
  BY <1>1, <1>2
<1>9. Buffers \ ToSet(q) # {} /\ Buffers \ ToSet(q) \in SUBSET Nat
  <2>1. Buffers \in SUBSET Nat
    BY FileAssumption DEF Buffers
  <2>. QED
    BY <1>7, <1>8, <2>1
<1>10. \E k \in Buffers \ ToSet(q) : \A j \in Buffers \ ToSet(q) : k <= j
  BY <1>9, SmallestExists
<1>. QED
  BY <1>9, <1>10

\* One call goes on; the map keeps its size.
LEMMA CallGoesOn ==
    ASSUME FileInv, NEW r \in Readers, NEW O, NEW c \in CallRecords(O), call' = [call EXCEPT ![r] = c],
           DOMAIN fFileMapArray' = DOMAIN fFileMapArray, UNCHANGED fDataBufferSize,
           c.phase = "block" => c.index \in DOMAIN fFileMapArray
    PROVE  CallsTyped' /\ MapSized' /\ BlockInMap'
<1>1. PICK P : call \in [Readers -> CallRecords(P)]
  BY DEF FileInv, CallsTyped
<1>2. CallRecords(P) \subseteq CallRecords(O \cup P) /\ CallRecords(O) \subseteq CallRecords(O \cup P)
  BY DEF CallRecords
<1>3. call' \in [Readers -> CallRecords(O \cup P)]
  BY <1>1, <1>2
<1>4. CallsTyped'
  BY <1>3 DEF CallsTyped
<1>5. \A q \in Readers : call'[q] = IF q = r THEN c ELSE call[q]
  BY <1>1
<1>6. BlockInMap'
  BY <1>5 DEF FileInv, BlockInMap
<1>7. MapSized'
  BY DEF FileInv, MapSized
<1>. QED
  BY <1>4, <1>6, <1>7

\* What a call may become.
LEMMA CallFields ==
    ASSUME FileInv, NEW r \in Readers
    PROVE  \E O : call[r] \in CallRecords(O)
BY DEF FileInv, CallsTyped

LEMMA PoolUntouched ==
    ASSUME FileInv, UNCHANGED <<fFile, poolVars>>, CallsTyped', MapSized', BlockInMap'
    PROVE  FileInv'
<1>1. PoolConsistent'
  BY DEF FileInv, PoolConsistent, poolVars
<1>2. LimitFits' /\ fFile' \in Files
  BY DEF FileInv, LimitFits, poolVars
<1>. QED
  BY <1>1, <1>2 DEF FileInv

\* What GetBuffer() does for the call of r: kept is the queue without the buffers
\* that are too many, S the buffers in it and m the map of them; the block gets b.
Chooses(r, kept, S, m, b, filled) ==
    /\ kept \in Seq(Buffers) /\ IsInjective(kept) /\ S = ToSet(kept) /\ S \in SUBSET Buffers
    /\ DOMAIN m = DOMAIN fFileMapArray /\ Mapped(S, m, fArrayIndex)
    /\ \A i \in DOMAIN m : m[i] # 0 => m[i] = fFileMapArray[i]
    /\ call[r].index \in DOMAIN m /\ b \in Buffers /\ b # 0
    /\ m[call[r].index] # 0 => b \in S /\ b = m[call[r].index]
    /\ filled = (b \notin Buffers \ S /\ fArrayIndex[b] = call[r].index)

Takes(r, kept, S, m, b, filled) ==
    /\ fQueue' = Append(RemoveFirst(kept, b), b)
    /\ fFileMapArray' = IF filled THEN m ELSE TakeBuffer(m, b, call[r].index)
    /\ fArrayIndex' = [e \in Buffers |-> IF e = b THEN call[r].index ELSE IF e \in Buffers \ S THEN -1 ELSE fArrayIndex[e]]
    /\ fFill' = [e \in Buffers |-> IF e \in Buffers \ S THEN 0 ELSE fFill[e]]
    /\ fData' = [e \in Buffers |-> IF e \in Buffers \ S THEN <<>> ELSE fData[e]]
    /\ spoiled' = {i \in spoiled : fFileMapArray'[i] # 0}
    /\ call' = [call EXCEPT ![r].phase = IF filled THEN "copy" ELSE "seek"]
    /\ UNCHANGED <<fFile, fPosition, fDataBufferSize, fMaxBuffers, fBufferInc, fMutex, raced>>

\* GetBuffer(): what is too much is deleted, and the block has a buffer.
LEMMA GetBufferTakes ==
    ASSUME FileInv, NEW r \in Readers, GetBuffer(r)
    PROVE  \E kept, S, m, b, filled : Chooses(r, kept, S, m, b, filled) /\ Takes(r, kept, S, m, b, filled)
<1>1. PICK q, map, idx, n : q = fQueue /\ map = fFileMapArray /\ idx = fArrayIndex /\ n = Len(q)
  OBVIOUS
<1>2. /\ q \in Seq(Buffers) /\ n \in Nat /\ IsInjective(q) /\ Mapped(ToSet(q), map, idx)
      /\ fMaxBuffers \in 1 .. MaxBuffers
  BY <1>1, PoolIsMapped, LenProperties DEF FileInv, LimitFits
<1>3. PICK c : c = IF n > fMaxBuffers THEN n - fMaxBuffers ELSE 0
  OBVIOUS
<1>4. c \in 0 .. n /\ n - c <= fMaxBuffers /\ n - c \in Nat /\ (n - c = 0 => n = 0)
  BY <1>2, <1>3, FileAssumption
<1>5. PICK old, kept : old = SubSeq(q, 1, c) /\ kept = SubSeq(q, c + 1, n)
  OBVIOUS
<1>6. /\ kept \in Seq(Buffers) /\ Len(kept) = n - c /\ IsInjective(kept)
      /\ old \in Seq(Buffers) /\ Len(old) = c
      /\ ToSet(q) = ToSet(old) \cup ToSet(kept) /\ ToSet(old) \cap ToSet(kept) = {}
  <2>1. c \in 0 .. Len(q) /\ kept = Newest(q, c)
    BY <1>1, <1>4, <1>5, Zenon DEF Newest
  <2>2. /\ kept \in Seq(Buffers) /\ Len(kept) = Len(q) - c /\ IsInjective(kept)
        /\ old \in Seq(Buffers) /\ Len(old) = c
        /\ ToSet(q) = ToSet(old) \cup ToSet(kept) /\ ToSet(old) \cap ToSet(kept) = {}
    <3>1. q \in Seq(Buffers) /\ IsInjective(q) /\ old = Oldest(q, c)
      BY <1>2, <1>5, Zenon DEF Oldest
    <3>. QED
      BY <2>1, <3>1, PartDistinct
  <2>. QED
    BY <1>1, <2>2, Zenon
<1>7. PICK m : m = Evicted(map, ToSet(old))
  OBVIOUS
<1>8. DOMAIN m = DOMAIN map /\ Mapped(ToSet(kept), m, idx)
  <2>1. PICK A, B, C : A = ToSet(q) /\ B = ToSet(old) /\ C = ToSet(kept)
    OBVIOUS
  <2>2. A = B \cup C /\ B \cap C = {} /\ Mapped(A, map, idx)
    BY <1>2, <1>6, <2>1, Zenon
  <2>3. m = Evicted(map, B)
    BY <1>7, <2>1, Zenon
  <2>4. Mapped(C, m, idx)
    BY <2>2, <2>3, EvictKeeps
  <2>5. DOMAIN m = DOMAIN map
    BY <2>3 DEF Evicted
  <2>. QED
    BY <2>1, <2>4, <2>5, Zenon
<1>9. PICK S : S = ToSet(kept)
  OBVIOUS
<1>10. S \in SUBSET Buffers
  <2>1. \A i \in DOMAIN kept : kept[i] \in Buffers
    BY <1>6, LenProperties
  <2>. QED
    BY <1>9, <2>1 DEF ToSet
<1>11. PICK index : index = call[r].index
  OBVIOUS
<1>12. index \in DOMAIN m
  BY <1>1, <1>8, <1>11, Zenon DEF FileInv, BlockInMap, GetBuffer, Phase
<1>12a. PICK free : free = CHOOSE k \in Buffers \ S : \A l \in Buffers \ S : k <= l
  BY Zenon
<1>13. PICK b : b = IF m[index] # 0 THEN m[index] ELSE IF Len(kept) < fMaxBuffers THEN free ELSE Head(kept)
  BY Zenon
<1>14. PICK filled : filled = (b \notin Buffers \ S /\ idx[b] = index)
  OBVIOUS
<1>15. /\ fQueue' = Append(RemoveFirst(kept, b), b)
       /\ fFileMapArray' = IF filled THEN m ELSE TakeBuffer(m, b, index)
       /\ fArrayIndex' = [e \in Buffers |-> IF e = b THEN index ELSE IF e \in Buffers \ S THEN -1 ELSE idx[e]]
       /\ fFill' = [e \in Buffers |-> IF e \in Buffers \ S THEN 0 ELSE fFill[e]]
       /\ fData' = [e \in Buffers |-> IF e \in Buffers \ S THEN <<>> ELSE fData[e]]
       /\ spoiled' = {i \in spoiled : fFileMapArray'[i] # 0}
       /\ call' = [call EXCEPT ![r].phase = IF filled THEN "copy" ELSE "seek"]
       /\ UNCHANGED <<fFile, fPosition, fDataBufferSize, fMaxBuffers, fBufferInc, fMutex, raced>>
  <2>. DEFINE o  == DeleteOldBuffs
              k0 == SubSeq(fQueue, Len(o) + 1, Len(fQueue))
              m0 == [i \in DOMAIN fFileMapArray |->
                         IF \E k \in DOMAIN o : o[k] = fFileMapArray[i] THEN 0 ELSE fFileMapArray[i]]
              un == Buffers \ ToSet(k0)
              c0 == CHOOSE k \in un : \A l \in un : k <= l
              b0 == IF m0[call[r].index] # 0 THEN m0[call[r].index]
                    ELSE IF Len(k0) < fMaxBuffers THEN c0 ELSE Head(k0)
              f0 == b0 \notin un /\ fArrayIndex[b0] = call[r].index
  <2>1. /\ fQueue' = Append(RemoveFirst(k0, b0), b0)
        /\ fFileMapArray' = IF f0 THEN m0 ELSE TakeBuffer(m0, b0, call[r].index)
        /\ fArrayIndex' = [e \in Buffers |-> IF e = b0 THEN call[r].index ELSE IF e \in un THEN -1 ELSE fArrayIndex[e]]
        /\ fFill' = [e \in Buffers |-> IF e \in un THEN 0 ELSE fFill[e]]
        /\ fData' = [e \in Buffers |-> IF e \in un THEN <<>> ELSE fData[e]]
        /\ spoiled' = {i \in spoiled : fFileMapArray'[i] # 0}
        /\ call' = [call EXCEPT ![r].phase = IF f0 THEN "copy" ELSE "seek"]
        /\ UNCHANGED <<fFile, fPosition, fDataBufferSize, fMaxBuffers, fBufferInc, fMutex, raced>>
    BY Zenon DEF GetBuffer
  <2>2. o = old
    BY <1>1, <1>3, <1>5 DEF DeleteOldBuffs
  <2>3. k0 = kept
    BY <1>1, <1>5, <1>6, <2>2
  <2>4. m0 = m
    BY <1>1, <1>7, <2>2 DEF ToSet, Evicted
  <2>. HIDE DEF o, k0, m0
  <2>5. un = Buffers \ S
    BY <1>9, <2>3, Zenon
  <2>. HIDE DEF un
  <2>6. c0 = free
    BY <1>12a, <2>5, Zenon
  <2>. HIDE DEF c0
  <2>7. b0 = b
    BY <1>11, <1>13, <2>3, <2>4, <2>6, Zenon
  <2>. HIDE DEF b0
  <2>8. f0 = filled
    BY <1>1, <1>11, <1>14, <2>5, <2>7, Zenon
  <2>. HIDE DEF f0
  <2>. QED
    BY <1>1, <1>11, <2>1, <2>3, <2>4, <2>5, <2>7, <2>8, Zenon
<1>16. b \in Buffers /\ (m[index] # 0 => b \in S /\ b = m[index]) /\ (b # 0)
  <2>1. CASE m[index] # 0
    <3>1. b = m[index]
      BY <1>13, <2>1
    <3>2. m[index] \in S
      BY <1>8, <1>9, <1>12, <2>1 DEF Mapped
    <3>. QED
      BY <1>10, <2>1, <3>1, <3>2
  <2>2. CASE m[index] = 0 /\ Len(kept) < fMaxBuffers
    <3>1. b = CHOOSE k \in Buffers \ S : \A l \in Buffers \ S : k <= l
      BY <1>12a, <1>13, <2>2, Zenon
    <3>2. Len(kept) < MaxBuffers
      BY <1>2, <1>4, <1>6, <2>2, FileAssumption
    <3>3. b \in Buffers \ S
      BY <1>6, <1>9, <3>1, <3>2, BufferIsFree, Zenon
    <3>. QED
      BY <2>2, <3>3, FileAssumption DEF Buffers
  <2>3. CASE m[index] = 0 /\ ~(Len(kept) < fMaxBuffers)
    <3>1. Len(kept) > 0
      BY <1>2, <1>4, <1>6, <2>3, FileAssumption
    <3>2. b = Head(kept)
      BY <1>13, <2>3
    <3>3. kept # <<>>
      BY <1>6, <3>1, EmptySeq
    <3>4. b \in Buffers
      BY <1>6, <3>2, <3>3, HeadTailProperties
    <3>. QED
      BY <2>3, <3>4, FileAssumption DEF Buffers
  <2>. QED
    BY <2>1, <2>2, <2>3
<1>17. Mapped(S, m, fArrayIndex) /\ DOMAIN m = DOMAIN fFileMapArray
  BY <1>1, <1>8, <1>9, Zenon
<1>18. \A i \in DOMAIN m : m[i] # 0 => m[i] = fFileMapArray[i]
  BY <1>1, <1>7, <1>8 DEF Evicted
<1>19. Chooses(r, kept, S, m, b, filled)
  BY <1>1, <1>6, <1>9, <1>10, <1>11, <1>12, <1>14, <1>16, <1>17, <1>18, Zenon DEF Chooses
<1>20. Takes(r, kept, S, m, b, filled)
  BY <1>1, <1>11, <1>15, Zenon DEF Takes
<1>. QED
  BY <1>19, <1>20, Zenon

\* The buffer holds the block exactly if the map has one for it.
LEMMA HitIsFilled ==
    ASSUME NEW r, NEW kept, NEW S, NEW m, NEW b, NEW filled, Chooses(r, kept, S, m, b, filled)
    PROVE  filled <=> m[call[r].index] # 0
<1>1. ASSUME m[call[r].index] # 0 PROVE filled
  <2>1. b \in S /\ b = m[call[r].index] /\ fArrayIndex[b] = call[r].index
    BY <1>1 DEF Chooses, Mapped
  <2>. QED
    BY <2>1 DEF Chooses
<1>2. ASSUME filled PROVE m[call[r].index] # 0
  <2>1. b \in S /\ fArrayIndex[b] = call[r].index /\ b # 0
    BY <1>2 DEF Chooses
  <2>2. m[fArrayIndex[b]] = b
    BY <2>1 DEF Chooses, Mapped
  <2>. QED
    BY <2>1, <2>2
<1>. QED
  BY <1>1, <1>2

LEMMA GetBufferStep ==
    ASSUME FileInv, NEW r \in Readers, GetBuffer(r)
    PROVE  FileInv'
<1>1. PICK kept, S, m, b, filled : Chooses(r, kept, S, m, b, filled) /\ Takes(r, kept, S, m, b, filled)
  BY GetBufferTakes
<1>2. PICK index, idx : index = call[r].index /\ idx = fArrayIndex
  OBVIOUS
<1>6. kept \in Seq(Buffers) /\ IsInjective(kept)
  BY <1>1 DEF Chooses
<1>9. S = ToSet(kept) /\ S \in SUBSET Buffers
  BY <1>1 DEF Chooses
<1>12. index \in DOMAIN m /\ DOMAIN m = DOMAIN fFileMapArray
  BY <1>1, <1>2 DEF Chooses
<1>14. filled <=> m[index] # 0
  BY <1>1, <1>2, HitIsFilled
<1>15. /\ fQueue' = Append(RemoveFirst(kept, b), b)
       /\ fFileMapArray' = IF filled THEN m ELSE TakeBuffer(m, b, index)
       /\ fArrayIndex' = [e \in Buffers |-> IF e = b THEN index ELSE IF e \in Buffers \ S THEN -1 ELSE idx[e]]
       /\ call' = [call EXCEPT ![r].phase = IF filled THEN "copy" ELSE "seek"]
       /\ UNCHANGED <<fFile, fDataBufferSize, fMaxBuffers, fBufferInc>>
  BY <1>1, <1>2, Zenon DEF Takes
<1>16. b \in Buffers /\ (m[index] # 0 => b \in S /\ b = m[index]) /\ b # 0
  BY <1>1, <1>2 DEF Chooses
<1>17. fQueue' \in Seq(Buffers) /\ IsInjective(fQueue') /\ ToSet(fQueue') = S \cup {b}
  <2>1. PICK u : u = Requeued(kept, b)
    OBVIOUS
  <2>2. u \in Seq(Buffers) /\ IsInjective(u) /\ ToSet(u) = ToSet(kept) \cup {b}
    <3>1. kept \in Seq(Buffers) /\ IsInjective(kept) /\ b \in Buffers
      BY <1>6, <1>16
    <3>. QED
      BY <2>1, <3>1, RequeueDistinct
  <2>. QED
    BY <1>9, <1>15, <2>1, <2>2, Zenon DEF Requeued
<1>18. PICK id : id = [e \in Buffers |-> IF e = b THEN index ELSE IF e \in Buffers \ S THEN -1 ELSE idx[e]]
  OBVIOUS
<1>19. Mapped(S, m, idx)
  BY <1>1, <1>2, Zenon DEF Chooses
<1>20. DOMAIN fFileMapArray' = DOMAIN m /\ Mapped(S \cup {b}, fFileMapArray', id)
  <2>1. CASE m[index] # 0
    <3>1. b \in S /\ m[index] = b /\ fFileMapArray' = m
      BY <1>14, <1>15, <1>16, <2>1
    <3>2. Mapped(S, m, id)
      BY <1>9, <1>12, <1>16, <1>18, <1>19, <3>1, HitKeeps
    <3>3. S \cup {b} = S
      BY <3>1
    <3>. QED
      BY <3>1, <3>2, <3>3
  <2>2. CASE m[index] = 0
    <3>1. fFileMapArray' = TakeBuffer(m, b, index)
      BY <1>14, <1>15, <2>2
    <3>2. Mapped(S \cup {b}, TakeBuffer(m, b, index), id)
      BY <1>9, <1>12, <1>16, <1>18, <1>19, <2>2, TakeKeeps
    <3>3. DOMAIN TakeBuffer(m, b, index) = DOMAIN m
      BY DEF TakeBuffer
    <3>. QED
      BY <3>1, <3>2, <3>3, Zenon
  <2>. QED
    BY <2>1, <2>2
<1>21. PoolConsistent'
  <2>1. Mapped(ToSet(fQueue'), fFileMapArray', fArrayIndex')
    BY <1>15, <1>17, <1>18, <1>20, Zenon
  <2>. QED
    BY <1>17, <2>1, Zenon DEF PoolConsistent, Mapped
<1>22. CallsTyped' /\ MapSized' /\ BlockInMap'
  <2>1. PICK O : call[r] \in CallRecords(O)
    BY CallFields
  <2>2. PICK p : p = (IF filled THEN "copy" ELSE "seek") /\ p # "block"
    OBVIOUS
  <2>3. PICK k : k = [call[r] EXCEPT !.phase = p]
    OBVIOUS
  <2>4. k \in CallRecords(O \cup {p}) /\ k.phase = p
    BY <2>1, <2>3 DEF CallRecords
  <2>5. call' = [call EXCEPT ![r] = k]
    BY <1>15, <2>2, <2>3
  <2>6. DOMAIN fFileMapArray' = DOMAIN fFileMapArray
    BY <1>12, <1>20, Zenon
  <2>. QED
    BY <1>15, <2>2, <2>4, <2>5, <2>6, CallGoesOn
<1>23. LimitFits' /\ fFile' \in Files
  BY <1>15, <1>17 DEF FileInv, LimitFits
<1>. QED
  BY <1>21, <1>22, <1>23 DEF FileInv

\* A new map and an empty queue.
LEMMA AllocateStep ==
    ASSUME FileInv, NEW u \in UnitCounts, NEW k \in IncCounts, AllocateFileCache(u, k)
    PROVE  FileInv'
<1>1. fNumBuffSizeUnits' \in Nat \ {0}
  <2>1. kBufferUnitSize \in Nat \ {0} /\ u \in Nat /\ kBufferUnitSize \div kBufferUnitSize \in Nat
    BY FileAssumption, Blocks
  <2>. QED
    BY <2>1 DEF AllocateFileCache, NumBuffSizeUnits
<1>2. fDataBufferSize' \in Nat \ {0}
  <2>1. \A x, y \in Nat \ {0} : x * y \in Nat \ {0}
    OBVIOUS
  <2>. QED
    BY <1>1, <2>1, FileAssumption, Zenon DEF AllocateFileCache
<1>3. PICK m \in Nat : fFileMapArray' = [i \in 0 .. m |-> 0]
  <2>1. FileLength[fFile] \in Nat
    BY FileAssumption DEF FileInv
  <2>2. FileLength[fFile] \div fDataBufferSize' \in Nat
    BY <1>2, <2>1, Blocks
  <2>. QED
    BY <2>2 DEF AllocateFileCache
<1>4. fQueue' = <<>> /\ UNCHANGED <<fFile, call>> /\ Quiet
  BY DEF AllocateFileCache
<1>5. fMaxBuffers' \in 1 .. MaxBuffers /\ fBufferInc' \in Nat
  <2>1. k \in 0 .. MaxBuffers /\ MaxBuffers \in Nat \ {0}
    BY FileAssumption
  <2>. QED
    BY <2>1 DEF AllocateFileCache, FileInv, LimitFits
<1>6. LimitFits' /\ fFile' \in Files
  BY <1>4, <1>5 DEF FileInv, LimitFits
<1>7. CallsTyped'
  BY <1>4 DEF FileInv, CallsTyped
<1>8. BlockInMap'
  BY <1>4 DEF BlockInMap, Quiet, Phase
<1>9. MapSized'
  BY <1>2, <1>3 DEF MapSized
<1>10. PoolConsistent'
  <2>1. DOMAIN <<>> = {} /\ ToSet(<<>>) = {}
    BY DEF ToSet
  <2>2. IsInjective(<<>>)
    BY <2>1 DEF IsInjective
  <2>. QED
    BY <1>3, <1>4, <2>1, <2>2 DEF PoolConsistent
<1>. QED
  BY <1>6, <1>7, <1>8, <1>9, <1>10 DEF FileInv

\* A call changes and nothing of the pool.
LEMMA CallStep ==
    ASSUME FileInv, UNCHANGED <<fFile, poolVars>>, NEW r \in Readers, NEW O, NEW c \in CallRecords(O),
           call' = [call EXCEPT ![r] = c], c.phase = "block" => c.index \in DOMAIN fFileMapArray
    PROVE  FileInv'
<1>1. CallsTyped' /\ MapSized' /\ BlockInMap'
  <2>1. DOMAIN fFileMapArray' = DOMAIN fFileMapArray /\ UNCHANGED fDataBufferSize
    BY DEF poolVars
  <2>. QED
    BY <2>1, CallGoesOn
<1>. QED
  BY <1>1, PoolUntouched

\* Read() goes through the cache for blocks of the map only.
LEMMA ReadStep ==
    ASSUME FileInv, NEW r \in Readers, NEW pos \in Nat, NEW len \in Nat, Read(r, pos, len)
    PROVE  FileInv'
<1>1. UNCHANGED <<fFile, poolVars>>
  BY DEF Read
<1>2. PICK O : call[r] \in CallRecords(O)
  BY CallFields
<1>3. CASE ~Initialized \/ ~fCacheEnabled \/ GetBuffIndex(pos + len) > GetMaxBuffIndex
  <2>1. PICK c : c = [call[r] EXCEPT !.phase = "seek", !.pos = pos, !.len = len]
    OBVIOUS
  <2>2. call' = [call EXCEPT ![r] = c]
    BY <1>3, <2>1 DEF Read
  <2>3. c \in CallRecords(O \cup {"seek", pos, len}) /\ c.phase # "block"
    BY <1>2, <2>1 DEF CallRecords
  <2>. QED
    BY <1>1, <2>2, <2>3, CallStep
<1>4. CASE ~(~Initialized \/ ~fCacheEnabled \/ GetBuffIndex(pos + len) > GetMaxBuffIndex)
  <2>1. ReadFromCache(r, pos, len)
    BY <1>4 DEF Read
  <2>2. CASE pos >= FileLength[fFile]
    <3>1. PICK c : c = [call[r] EXCEPT !.phase = "done", !.pos = pos, !.len = len]
      OBVIOUS
    <3>2. call' = [call EXCEPT ![r] = c]
      BY <2>1, <2>2, <3>1 DEF ReadFromCache
    <3>3. c \in CallRecords(O \cup {"done", pos, len}) /\ c.phase # "block"
      BY <1>2, <3>1 DEF CallRecords
    <3>. QED
      BY <1>1, <3>2, <3>3, CallStep
  <2>3. CASE ~(pos >= FileLength[fFile])
    <3>1. PICK i : i = GetBuffIndex(pos)
      OBVIOUS
    <3>2. i \in Nat /\ i \in DOMAIN fFileMapArray
      <4>1. fDataBufferSize \in Nat \ {0} /\ MapSized
        BY <1>4 DEF FileInv, MapSized, Initialized
      <4>2. PICK l : l = GetBuffIndex(pos + len)
        OBVIOUS
      <4>3. i \in Nat /\ l \in Nat /\ i <= l
        BY <3>1, <4>1, <4>2, Blocks DEF GetBuffIndex
      <4>4. ~(l > GetMaxBuffIndex) /\ GetMaxBuffIndex \in Int
        <5>1. PICK k \in Nat : DOMAIN fFileMapArray = 0 .. k
          BY <1>4, <4>1 DEF MapSized, Initialized
        <5>2. Cardinality(0 .. k) = k + 1
          BY FS_Interval
        <5>. QED
          BY <1>4, <4>2, <5>1, <5>2 DEF GetMaxBuffIndex
      <4>5. i <= GetMaxBuffIndex
        BY <4>3, <4>4
      <4>. QED
        BY <4>1, <4>3, <4>5, LastBlock
    <3>3. PICK c : c = [call[r] EXCEPT !.phase = "block", !.pos = pos, !.len = len, !.cached = TRUE, !.index = i]
      OBVIOUS
    <3>4. call' = [call EXCEPT ![r] = c]
      BY <2>1, <2>3, <3>1, <3>3 DEF ReadFromCache
    <3>5. c \in CallRecords(O \cup {"block", pos, len, TRUE}) /\ c.index = i
      BY <1>2, <3>2, <3>3 DEF CallRecords
    <3>. QED
      BY <1>1, <3>2, <3>4, <3>5, CallStep
  <2>. QED
    BY <2>2, <2>3
<1>. QED
  BY <1>3, <1>4

\* Copy() goes on to a block of the map.
LEMMA CopyStep ==
    ASSUME FileInv, NEW r \in Readers, Copy(r)
    PROVE  FileInv'
<1>1. UNCHANGED <<fFile, poolVars>>
  BY DEF Copy
<1>2. PICK O : call[r] \in CallRecords(O)
  BY CallFields
<1>. DEFINE c    == call[r]
            b    == fFileMapArray[c.index]
            left == c.len - Len(c.out)
            n    == IF left >= fFill[b] - BuffPos(c) THEN fFill[b] - BuffPos(c) ELSE left
            out  == c.out \o SubSeq(fData[b], BuffPos(c) + 1, BuffPos(c) + n)
            eof  == BuffPos(c) = 0 /\ left <= fDataBufferSize /\ fFill[b] < left
            more == ~eof /\ c.index + 1 <= GetBuffIndex(c.pos + c.len) /\ c.index + 1 <= GetMaxBuffIndex
            p    == IF n < 0 THEN "undefined" ELSE IF more THEN "block" ELSE "done"
            i    == IF more THEN c.index + 1 ELSE c.index
            o    == IF n < 0 THEN c.out ELSE out
            t    == c.tainted \/ c.index \in spoiled
<1>3. call' = [call EXCEPT ![r] = [@ EXCEPT !.phase = p, !.index = i, !.out = o, !.tainted = t]]
  BY DEF Copy
<1>4. more => c.index + 1 <= GetMaxBuffIndex
  OBVIOUS
<1>. HIDE DEF n, out, more, o, t
<1>5. c.index \in Nat
  BY <1>2 DEF CallRecords
<1>6. p = "block" => more
  OBVIOUS
<1>7. i \in Nat /\ (more => i = c.index + 1)
  BY <1>5
<1>. HIDE DEF p, i
<1>8. PICK later : later = [call[r] EXCEPT !.phase = p, !.index = i, !.out = o, !.tainted = t]
  OBVIOUS
<1>9. call' = [call EXCEPT ![r] = later]
  BY <1>3, <1>8
<1>10. later \in CallRecords(O \cup {p, o, t}) /\ later.phase = p /\ later.index = i
  BY <1>2, <1>7, <1>8 DEF CallRecords
<1>11. more => c.index + 1 \in DOMAIN fFileMapArray
  BY <1>4, <1>5, LastBlock DEF FileInv
<1>12. later.phase = "block" => later.index \in DOMAIN fFileMapArray
  BY <1>6, <1>7, <1>10, <1>11
<1>. QED
  BY <1>1, <1>9, <1>10, <1>12, CallStep

\* The other steps of a call.
LEMMA DiskStep ==
    ASSUME FileInv, NEW r \in Readers
    PROVE  /\ ReadOn(r) => FileInv'
           /\ Seek(r) => FileInv'
           /\ Return(r) => FileInv'
<1>1. PICK O : call[r] \in CallRecords(O)
  BY CallFields
<1>2. ASSUME ReadOn(r) PROVE FileInv'
  <2>1. PICK c : c = [call[r] EXCEPT !.phase = "disk", !.pos = fPosition, !.len = 1]
    OBVIOUS
  <2>2. call' = [call EXCEPT ![r] = c] /\ UNCHANGED <<fFile, poolVars>>
    BY <1>2, <2>1 DEF ReadOn
  <2>3. c \in CallRecords(O \cup {"disk", fPosition, 1}) /\ c.phase # "block"
    BY <1>1, <2>1 DEF CallRecords
  <2>. QED
    BY <2>2, <2>3, CallStep
<1>3. ASSUME Seek(r) PROVE FileInv'
  <2>1. PICK c : c = [call[r] EXCEPT !.phase = "disk"]
    OBVIOUS
  <2>2. call' = [call EXCEPT ![r] = c] /\ UNCHANGED <<fFile, poolVars>>
    BY <1>3, <2>1 DEF Seek
  <2>3. c \in CallRecords(O \cup {"disk"}) /\ c.phase # "block"
    BY <1>1, <2>1 DEF CallRecords
  <2>. QED
    BY <2>2, <2>3, CallStep
<1>4. ASSUME Return(r) PROVE FileInv'
  <2>1. call' = [call EXCEPT ![r] = Idle] /\ UNCHANGED <<fFile, poolVars>>
    BY <1>4 DEF Return
  <2>2. Idle \in CallRecords({"idle", 0, FALSE, <<>>}) /\ Idle.phase # "block"
    BY DEF Idle, CallRecords
  <2>. QED
    BY <2>1, <2>2, CallStep
<1>. QED
  BY <1>2, <1>3, <1>4

LEMMA ReadFromDiskStep ==
    ASSUME FileInv, NEW r \in Readers, NEW ok \in BOOLEAN, ReadFromDisk(r, ok)
    PROVE  FileInv'
<1>1. PICK O : call[r] \in CallRecords(O)
  BY CallFields
<1>2. PICK p, o, t : /\ call' = [call EXCEPT ![r].phase = p, ![r].out = o, ![r].tainted = t]
                     /\ p # "block"
  <2>. DEFINE c     == call[r]
              bytes == IF ok THEN DiskBytes(IF c.cached THEN fDataBufferSize ELSE c.len) ELSE <<>>
              p0    == IF ~ok THEN "failed" ELSE IF c.cached THEN "copy" ELSE "done"
              o0    == IF c.cached THEN c.out ELSE bytes
              t0    == c.tainted \/ r \in raced
  <2>1. call' = [call EXCEPT ![r].phase = p0, ![r].out = o0, ![r].tainted = t0]
    <3>1. call' = [call EXCEPT ![r].phase = IF ~ok THEN "failed" ELSE IF c.cached THEN "copy" ELSE "done",
                               ![r].out = IF c.cached THEN @ ELSE bytes,
                               ![r].tainted = @ \/ r \in raced]
      BY DEF ReadFromDisk
    <3>2. r \in DOMAIN call /\ \A f \in {"phase", "out", "tainted"} : f \in DOMAIN call[r]
      BY <1>1 DEF FileInv, CallsTyped, CallRecords
    <3>. HIDE DEF bytes
    <3>. QED
      BY <3>1, <3>2
  <2>2. p0 # "block"
    OBVIOUS
  <2>. HIDE DEF p0, o0, t0
  <2>. QED
    BY <2>1, <2>2
<1>3. PICK c : c = [call[r] EXCEPT !.phase = p, !.out = o, !.tainted = t]
  OBVIOUS
<1>4. call' = [call EXCEPT ![r] = c]
  BY <1>2, <1>3 DEF FileInv, CallsTyped
<1>5. c \in CallRecords(O \cup {p, o, t}) /\ c.phase # "block"
  BY <1>1, <1>2, <1>3 DEF CallRecords
<1>6. UNCHANGED <<fFile, fFileMapArray, fDataBufferSize, fQueue, fMaxBuffers, fBufferInc, fArrayIndex>>
  BY DEF ReadFromDisk
<1>7. CallsTyped' /\ MapSized' /\ BlockInMap'
  BY <1>4, <1>5, <1>6, CallGoesOn
<1>8. PoolConsistent' /\ LimitFits' /\ fFile' \in Files
  BY <1>6 DEF FileInv, PoolConsistent, LimitFits
<1>. QED
  BY <1>7, <1>8 DEF FileInv

LEMMA FileStep == FileInv /\ [FileNext]_fsVars => FileInv'
<1>. SUFFICES ASSUME FileInv, [FileNext]_fsVars PROVE FileInv'
  OBVIOUS
<1>1. ASSUME UNCHANGED call, UNCHANGED <<fFileMapArray, fDataBufferSize>> PROVE CallsTyped' /\ MapSized' /\ BlockInMap'
  BY <1>1 DEF FileInv, CallsTyped, MapSized, BlockInMap
<1>2. CASE UNCHANGED fsVars
  BY <1>1, <1>2, PoolUntouched DEF fsVars, poolVars
<1>3. ASSUME NEW f \in Files, Set(f) PROVE FileInv'
  <2>1. CallsTyped' /\ MapSized' /\ BlockInMap'
    BY <1>1, <1>3 DEF Set, poolVars
  <2>2. LimitFits' /\ PoolConsistent' /\ fFile' \in Files
    BY <1>3 DEF Set, poolVars, FileInv, LimitFits, PoolConsistent
  <2>. QED
    BY <2>1, <2>2 DEF FileInv
<1>4. ASSUME NEW e \in BOOLEAN, EnableFileCache(e) PROVE FileInv'
  BY <1>1, <1>4, PoolUntouched DEF EnableFileCache, poolVars
<1>5. ASSUME NEW n, SetMaxBuffers(n) PROVE FileInv'
  <2>1. CallsTyped' /\ MapSized' /\ BlockInMap'
    BY <1>1, <1>5 DEF SetMaxBuffers
  <2>2. LimitFits' /\ PoolConsistent' /\ fFile' \in Files
    BY <1>5 DEF SetMaxBuffers, FileInv, LimitFits, PoolConsistent
  <2>. QED
    BY <2>1, <2>2 DEF FileInv
<1>6. CASE IncMaxBuffers \/ DecMaxBuffers
  BY <1>5, <1>6 DEF IncMaxBuffers, DecMaxBuffers
<1>7. ASSUME NEW r \in Readers, NEW q \in Requests[r], Read(r, q[1], q[2]) PROVE FileInv'
  <2>1. q \in Nat \X Nat
    BY FileAssumption
  <2>. QED
    BY <1>7, <2>1, ReadStep
<1>. QED
  BY <1>2, <1>3, <1>4, <1>6, <1>7, AllocateStep, GetBufferStep, CopyStep, DiskStep, ReadFromDiskStep DEF FileNext

LEMMA FileInvInit == FileInit => FileInv
<1>1. SUFFICES ASSUME FileInit PROVE FileInv
  OBVIOUS
<1>2. DOMAIN <<>> = {} /\ ToSet(<<>>) = {} /\ IsInjective(<<>>) /\ <<>> \in Seq(Buffers)
  BY EmptySeq DEF ToSet, IsInjective
<1>3. Idle \in CallRecords({"idle", 0, FALSE, <<>>}) /\ Idle.phase # "block"
  BY DEF Idle, CallRecords
<1>4. call = [r \in Readers |-> Idle]
  BY <1>1 DEF FileInit
<1>5. call \in [Readers -> CallRecords({"idle", 0, FALSE, <<>>})]
  BY <1>3, <1>4
<1>6. CallsTyped
  BY <1>5 DEF CallsTyped
<1>7. BlockInMap
  BY <1>3, <1>4 DEF BlockInMap
<1>8. LimitFits /\ MapSized /\ PoolConsistent
  BY <1>1, <1>2, FileAssumption DEF FileInit, LimitFits, MapSized, PoolConsistent
<1>. QED
  BY <1>1, <1>6, <1>7, <1>8 DEF FileInv, FileInit

\* The map and the queue of FileSource.cpp's buffers name the same buffers, each one
\* once, whatever GetBuffer() evicts and AllocateFileCache(), IncMaxBuffers() and
\* DecMaxBuffers() allow.
THEOREM PoolStaysConsistent == FileSpec => []PoolConsistent
<1>1. FileInv => PoolConsistent
  BY DEF FileInv
<1>. QED
  BY <1>1, FileInvInit, FileStep, PTL DEF FileSpec

----------------------------------------------------------------------------
(* FileSource: blocks, and the bytes of a file *)

\* Block numbers and positions.
LEMMA BlockBounds ==
    ASSUME NEW a \in Nat, NEW d \in Nat \ {0}, NEW i, i = a \div d
    PROVE  i \in Nat /\ i * d \in Nat /\ i * d <= a /\ a < i * d + d
OBVIOUS

LEMMA BlockOrder ==
    ASSUME NEW i \in Nat, NEW j \in Nat, NEW d \in Nat \ {0}
    PROVE  /\ i * d \in Nat /\ (i + 1) * d = i * d + d
           /\ i < j => i * d + d <= j * d
           /\ i <= j => i * d <= j * d
<1>1. i * d \in Nat /\ (i + 1) * d = i * d + d
  OBVIOUS
<1>2. ASSUME i <= j PROVE i * d <= j * d
  BY <1>2
<1>3. ASSUME i < j PROVE (i + 1) * d <= j * d
  BY <1>3
<1>. QED
  BY <1>1, <1>2, <1>3

LEMMA BlockReached ==
    ASSUME NEW a \in Nat, NEW d \in Nat \ {0}, NEW i \in Nat
    PROVE  i <= a \div d <=> i * d <= a
<1>1. PICK j : j = a \div d
  OBVIOUS
<1>2. j \in Nat /\ j * d \in Nat /\ j * d <= a /\ a < j * d + d
  BY <1>1, BlockBounds
<1>3. i <= j => i * d <= j * d
  BY <1>2, BlockOrder
<1>4. j < i => j * d + d <= i * d
  BY <1>2, BlockOrder
<1>5. i * d \in Nat
  BY BlockOrder
<1>. QED
  BY <1>1, <1>2, <1>3, <1>4, <1>5

\* A sequence of n bytes of a file.
BytesFrom(s, f, from, n) ==
    s \in Seq({f} \X Nat) /\ Len(s) = n /\ DOMAIN s = 1 .. n /\ \A i \in 1 .. n : s[i] = <<f, from + i - 1>>

LEMMA ContentSeq ==
    ASSUME NEW f, NEW from \in Nat, NEW n \in Nat, NEW s, s = Content(f, from, n)
    PROVE  BytesFrom(s, f, from, n)
<1>1. \A i \in 1 .. n : from + i - 1 \in Nat
  OBVIOUS
<1>2. s = [i \in 1 .. n |-> <<f, from + i - 1>>]
  BY DEF Content
<1>3. s \in [1 .. n -> {f} \X Nat]
  BY <1>1, <1>2
<1>4. s \in Seq({f} \X Nat)
  BY <1>3, SeqDef
<1>5. Len(s) = n
  BY <1>2, <1>3, <1>4, LenProperties
<1>. QED
  BY <1>2, <1>3, <1>4, <1>5 DEF BytesFrom

LEMMA NoContent == ASSUME NEW f, NEW from PROVE Content(f, from, 0) = <<>>
BY DEF Content

\* t is k bytes out of n bytes of a file, from the place a on.
PartOf(t, f, from, n, a, k) ==
    /\ from \in Nat /\ n \in Nat /\ a \in Nat /\ k \in Nat /\ a + k <= n
    /\ t = SubSeq(Content(f, from, n), a + 1, a + k)

LEMMA ContentPart ==
    ASSUME NEW t, NEW f, NEW from, NEW n, NEW a, NEW k, PartOf(t, f, from, n, a, k)
    PROVE  t = Content(f, from + a, k)
<1>0. from \in Nat /\ n \in Nat /\ a \in Nat /\ k \in Nat /\ a + k <= n
  BY DEF PartOf
<1>1. PICK s : s = Content(f, from, n) /\ t = SubSeq(s, a + 1, a + k)
  BY DEF PartOf
<1>2. s \in Seq({f} \X Nat) /\ Len(s) = n /\ DOMAIN s = 1 .. n /\ \A i \in 1 .. n : s[i] = <<f, from + i - 1>>
  <2>1. BytesFrom(s, f, from, n)
    BY <1>0, <1>1, ContentSeq
  <2>. QED
    BY <2>1 DEF BytesFrom
<1>3. a + 1 \in 1 .. Len(s) + 1 /\ a + k \in (a + 1) - 1 .. Len(s)
  BY <1>0, <1>2
<1>4. t = [i \in 1 .. k |-> s[i + a]]
  BY <1>0, <1>1, <1>2, <1>3, SubSeqProperties
<1>5. \A i \in 1 .. k : s[i + a] = <<f, from + a + i - 1>>
  <2>1. ASSUME NEW i \in 1 .. k PROVE i + a \in 1 .. n /\ from + (i + a) - 1 = from + a + i - 1
    BY <1>0
  <2>. QED
    BY <1>0, <1>2, <2>1
<1>. QED
  BY <1>1, <1>4, <1>5 DEF Content

\* u is n bytes of a file and the k bytes that follow.
Joined(u, f, from, n, k) ==
    from \in Nat /\ n \in Nat /\ k \in Nat /\ u = Content(f, from, n) \o Content(f, from + n, k)

LEMMA ContentJoin ==
    ASSUME NEW u, NEW f, NEW from, NEW n, NEW k, Joined(u, f, from, n, k)
    PROVE  u = Content(f, from, n + k)
<1>0. from \in Nat /\ n \in Nat /\ k \in Nat
  BY DEF Joined
<1>1. PICK s, t : s = Content(f, from, n) /\ t = Content(f, from + n, k) /\ u = s \o t
  BY DEF Joined
<1>2. s \in Seq({f} \X Nat) /\ Len(s) = n /\ \A i \in 1 .. n : s[i] = <<f, from + i - 1>>
  <2>1. BytesFrom(s, f, from, n)
    BY <1>0, <1>1, ContentSeq
  <2>. QED
    BY <2>1 DEF BytesFrom
<1>3. t \in Seq({f} \X Nat) /\ Len(t) = k /\ \A i \in 1 .. k : t[i] = <<f, from + n + i - 1>>
  <2>1. from + n \in Nat
    BY <1>0
  <2>2. BytesFrom(t, f, from + n, k)
    BY <1>0, <1>1, <2>1, ContentSeq
  <2>. QED
    BY <1>0, <2>2 DEF BytesFrom
<1>4. u \in Seq({f} \X Nat) /\ Len(u) = n + k
  BY <1>0, <1>1, <1>2, <1>3, ConcatProperties
<1>5. ASSUME NEW i \in 1 .. n + k PROVE u[i] = <<f, from + i - 1>>
  <2>0. u[i] = IF i <= n THEN s[i] ELSE t[i - n]
    BY <1>0, <1>1, <1>2, <1>3, ConcatProperties, SMTT(20)
  <2>1. CASE i <= n
    BY <1>0, <1>2, <2>0, <2>1
  <2>2. CASE ~(i <= n)
    <3>1. i - n \in 1 .. k /\ from + n + (i - n) - 1 = from + i - 1
      BY <1>0, <2>2
    <3>. QED
      BY <1>0, <1>3, <2>0, <2>2, <3>1
  <2>. QED
    BY <2>1, <2>2
<1>6. u = [i \in 1 .. n + k |-> u[i]]
  BY <1>0, <1>4, LenProperties
<1>. QED
  BY <1>1, <1>5, <1>6 DEF Content

\* What a file of length L has of n bytes, and what a read of position p has when it
\* comes to block i of size d.
FileHas(L, from, n) == IF L - from <= 0 THEN 0 ELSE IF L - from < n THEN L - from ELSE n
Covered(L, p, i, d) == IF i = p \div d THEN 0 ELSE (IF i * d <= L THEN i * d ELSE L) - p

\* One turn of the loop of ReadFromCache(), over a block that starts at x.
LEMMA TurnCounts ==
    ASSUME NEW L \in Nat, NEW p \in Nat, NEW l \in Nat, NEW d \in Nat \ {0}, NEW x \in Nat, p < L, x <= p + l,
           NEW first \in BOOLEAN, first => x <= p /\ p < x + d, ~first => p < x,
           NEW so, so = IF first THEN 0 ELSE (IF x <= L THEN x ELSE L) - p,
           NEW fill, fill = IF L - x <= 0 THEN 0 ELSE IF L - x < d THEN L - x ELSE d,
           NEW at, at = IF first THEN p - x ELSE 0,
           NEW n, n = IF l - so >= fill - at THEN fill - at ELSE l - so
    PROVE  /\ so \in Nat /\ fill \in Nat /\ at \in Nat /\ n \in Nat /\ at + n <= fill
           /\ n = 0 \/ p + so = x + at
           /\ ~(at = 0 /\ l - so <= d /\ fill < l - so) /\ x + d <= p + l =>
                  so + n = (IF x + d <= L THEN x + d ELSE L) - p
           /\ (at = 0 /\ l - so <= d /\ fill < l - so) \/ ~(x + d <= p + l) =>
                  so + n = IF L - p < l THEN L - p ELSE l
<1>1. CASE first
  BY <1>1
<1>2. CASE ~first
  BY <1>2
<1>. QED
  BY <1>1, <1>2

\* What such a turn, over block i, comes to: so bytes were there before it, it copies
\* n bytes from the place at of the fill bytes in the buffer.
Turn(L, p, l, d, i, so, fill, at, n) ==
    /\ so \in Nat /\ fill \in Nat /\ at \in Nat /\ n \in Nat /\ at + n <= fill
    /\ n = 0 \/ p + so = i * d + at
    /\ ~(at = 0 /\ l - so <= d /\ fill < l - so) /\ i + 1 <= (p + l) \div d => so + n = Covered(L, p, i + 1, d)
    /\ (at = 0 /\ l - so <= d /\ fill < l - so) \/ ~(i + 1 <= (p + l) \div d) => so + n = FileHas(L, p, l)

LEMMA CopyCounts ==
    ASSUME NEW L \in Nat, NEW p \in Nat, NEW l \in Nat, NEW d \in Nat \ {0}, NEW i \in Nat, p < L,
           p \div d <= i, i <= (p + l) \div d,
           NEW so, so = Covered(L, p, i, d),
           NEW fill, fill = FileHas(L, i * d, d),
           NEW at, at = IF i = p \div d THEN p - i * d ELSE 0,
           NEW n, n = IF l - so >= fill - at THEN fill - at ELSE l - so
    PROVE  Turn(L, p, l, d, i, so, fill, at, n)
<1>1. PICK i0, x, first : i0 = p \div d /\ x = i * d /\ first = (i = i0)
  OBVIOUS
<1>2. i0 \in Nat /\ i0 * d \in Nat /\ i0 * d <= p /\ p < i0 * d + d
  BY <1>1, BlockBounds
<1>3. x \in Nat /\ (i + 1) * d = x + d /\ (i0 < i => i0 * d + d <= x)
  BY <1>1, <1>2, BlockOrder
<1>4. x <= p + l
  <2>1. p + l \in Nat
    OBVIOUS
  <2>. QED
    BY <1>1, <2>1, BlockReached
<1>5. i + 1 <= (p + l) \div d <=> x + d <= p + l
  <2>1. p + l \in Nat /\ i + 1 \in Nat
    OBVIOUS
  <2>2. i + 1 <= (p + l) \div d <=> (i + 1) * d <= p + l
    BY ONLY <2>1, BlockReached, d \in Nat \ {0}
  <2>. QED
    BY <1>3, <2>2
<1>6. first \in BOOLEAN /\ (first => x <= p /\ p < x + d) /\ (~first => p < x)
  <2>1. first => x = i0 * d
    BY <1>1
  <2>2. i0 <= i
    BY <1>1
  <2>3. ~first => i # i0
    BY <1>1, Zenon
  <2>4. ~first => i0 < i
    BY <1>2, <2>2, <2>3
  <2>. QED
    BY <1>1, <1>2, <1>3, <2>1, <2>4
<1>7. /\ so = IF first THEN 0 ELSE (IF x <= L THEN x ELSE L) - p
      /\ fill = IF L - x <= 0 THEN 0 ELSE IF L - x < d THEN L - x ELSE d
      /\ at = IF first THEN p - x ELSE 0
  BY <1>1 DEF Covered, FileHas
<1>8. Covered(L, p, i + 1, d) = (IF x + d <= L THEN x + d ELSE L) - p
  <2>1. i + 1 # i0
    BY <1>1, <1>2
  <2>. QED
    BY <1>1, <1>3, <2>1 DEF Covered
<1>9. FileHas(L, p, l) = IF L - p < l THEN L - p ELSE l
  BY DEF FileHas
<1>10. /\ so \in Nat /\ fill \in Nat /\ at \in Nat /\ n \in Nat /\ at + n <= fill
       /\ n = 0 \/ p + so = x + at
       /\ ~(at = 0 /\ l - so <= d /\ fill < l - so) /\ x + d <= p + l =>
              so + n = (IF x + d <= L THEN x + d ELSE L) - p
       /\ (at = 0 /\ l - so <= d /\ fill < l - so) \/ ~(x + d <= p + l) =>
              so + n = IF L - p < l THEN L - p ELSE l
  <2>1. n = IF l - so >= fill - at THEN fill - at ELSE l - so
    OBVIOUS
  <2>. QED
    BY ONLY L \in Nat, p \in Nat, l \in Nat, d \in Nat \ {0}, p < L, <1>3, <1>4, <1>6, <1>7, <2>1, TurnCounts
<1>. QED
  BY <1>1, <1>5, <1>8, <1>9, <1>10 DEF Turn

\* The bytes of a turn, put behind those of the turns before.
Copied(out, f, p, so, x, fill, at, n) ==
    /\ p \in Nat /\ so \in Nat /\ x \in Nat /\ fill \in Nat /\ at \in Nat /\ n \in Nat
    /\ at + n <= fill /\ (n = 0 \/ p + so = x + at)
    /\ out = Content(f, p, so) \o SubSeq(Content(f, x, fill), at + 1, at + n)

LEMMA TurnBytes ==
    ASSUME NEW out, NEW f, NEW p, NEW so, NEW x, NEW fill, NEW at, NEW n, Copied(out, f, p, so, x, fill, at, n)
    PROVE  out = Content(f, p, so + n)
<1>1. p \in Nat /\ so \in Nat /\ x \in Nat /\ fill \in Nat /\ at \in Nat /\ n \in Nat /\ at + n <= fill
  BY DEF Copied
<1>2. PICK s, t : s = Content(f, x, fill) /\ t = SubSeq(s, at + 1, at + n) /\ out = Content(f, p, so) \o t
  BY DEF Copied
<1>3. t = Content(f, x + at, n)
  <2>1. PartOf(t, f, x, fill, at, n)
    BY <1>1, <1>2, Zenon DEF PartOf
  <2>. QED
    BY <2>1, ContentPart
<1>4. Content(f, x + at, n) = Content(f, p + so, n)
  <2>1. CASE n = 0
    BY <2>1, NoContent
  <2>2. CASE p + so = x + at
    BY <2>2
  <2>. QED
    BY <2>1, <2>2 DEF Copied
<1>5. Joined(out, f, p, so, n)
  BY <1>1, <1>2, <1>3, <1>4, Zenon DEF Joined
<1>. QED
  BY <1>5, ContentJoin

----------------------------------------------------------------------------
(* FileSource: what a read gives *)

\* The parts of what holds of a call c: its arguments; the lock; the buffer of its
\* block; what it has copied; what it gives.
Fits(c) == c.pos \in Nat /\ c.len \in Nat /\ (c.phase = "idle" => c = Idle)

LockHeld(c, r, mutex) ==
    /\ c.phase \in {"block", "copy", "undefined"} => c.cached
    /\ c.cached /\ c.phase \in {"block", "seek", "disk", "copy", "undefined"} => mutex = r

HasBuffer(c, map) ==
    c.cached /\ c.phase \in {"seek", "disk", "copy"} => c.index \in DOMAIN map /\ map[c.index] # 0

Progress(c, f, d, last) ==
    c.cached /\ c.phase \in {"block", "seek", "disk", "copy"} =>
        /\ c.pos < FileLength[f] /\ c.pos \div d <= c.index
        /\ c.index <= (c.pos + c.len) \div d /\ (c.pos + c.len) \div d <= last
        /\ ~c.tainted => c.out = Content(f, c.pos, Covered(FileLength[f], c.pos, c.index, d))

Exact(c, f) ==
    ~c.tainted =>
        /\ c.phase = "done" => c.out = Content(f, c.pos, FileHas(FileLength[f], c.pos, c.len))
        /\ c.phase # "undefined"

\* A reader between Seek() and read() is alone there and at its place, or raced.
AtDisk(r) ==
    Phase(r, "disk") /\ r \notin raced =>
        fPosition = Target(r) /\ \A q \in Readers \ {r} : ~Phase(q, "disk")

CallRight(r) ==
    /\ Fits(call[r]) /\ LockHeld(call[r], r, fMutex) /\ HasBuffer(call[r], fFileMapArray)
    /\ Progress(call[r], fFile, fDataBufferSize, GetMaxBuffIndex) /\ Exact(call[r], fFile)
    /\ AtDisk(r)

\* The buffer of a block holds what the file has of it.
BlockFilled(f, i, d, b, fill, data) ==
    /\ fill[b] = FileHas(FileLength[f], i * d, d)
    /\ data[b] = Content(f, i * d, FileHas(FileLength[f], i * d, d))

FillsBlock(c, i) == c.cached /\ c.phase \in {"seek", "disk"} /\ c.index = i

\* So does the buffer of every block that is neither spoiled nor being filled.
BlocksRight ==
    \A i \in DOMAIN fFileMapArray :
        fFileMapArray[i] # 0 /\ i \notin spoiled /\ (\A r \in Readers : ~FillsBlock(call[r], i)) =>
            BlockFilled(fFile, i, fDataBufferSize, fFileMapArray[i], fFill, fData)

ReadInv ==
    /\ FileInv /\ fPosition \in Nat /\ DOMAIN fFill = Buffers /\ DOMAIN fData = Buffers
    /\ BlocksRight /\ \A r \in Readers : CallRight(r)

LEMMA ReadInvExact == ReadInv => ReadsExact
<1>. SUFFICES ASSUME ReadInv, NEW r \in Readers, ~call[r].tainted
              PROVE  /\ Phase(r, "done") =>
                            LET left == FileLength[fFile] - call[r].pos
                                n == IF left < 0 THEN 0 ELSE IF left < call[r].len THEN left ELSE call[r].len
                            IN call[r].out = Content(fFile, call[r].pos, n)
                     /\ ~Phase(r, "undefined")
  BY DEF ReadsExact
<1>1. Exact(call[r], fFile) /\ call[r].pos \in Nat /\ call[r].len \in Nat /\ FileLength[fFile] \in Nat
  BY FileAssumption DEF ReadInv, CallRight, Fits, FileInv
<1>2. PICK L, p, l : L = FileLength[fFile] /\ p = call[r].pos /\ l = call[r].len
  OBVIOUS
<1>3. FileHas(L, p, l) = IF L - p < 0 THEN 0 ELSE IF L - p < l THEN L - p ELSE l
  BY <1>1, <1>2 DEF FileHas
<1>. QED
  BY <1>1, <1>2, <1>3 DEF Exact, Phase

\* A step of one reader and the calls of the others.
LEMMA OthersStay ==
    ASSUME ReadInv, NEW r \in Readers, NEW c, call' = [call EXCEPT ![r] = c],
           UNCHANGED <<fFile, fDataBufferSize>>, DOMAIN fFileMapArray' = DOMAIN fFileMapArray,
           fFileMapArray' = fFileMapArray \/ fMutex = r,
           NEW q \in Readers, q # r, fMutex = q => fMutex' = q,
           Phase(q, "disk") /\ q \notin raced' => q \notin raced /\ fPosition' = fPosition /\ c.phase # "disk"
    PROVE  CallRight(q)'
<1>1. CallRight(q) /\ DOMAIN call = Readers
  BY DEF ReadInv, FileInv, CallsTyped
<1>2. \A s \in Readers : s # r => call'[s] = call[s]
  BY <1>1
<1>3. call'[r] = c
  BY <1>1
<1>4. GetMaxBuffIndex' = GetMaxBuffIndex
  BY DEF GetMaxBuffIndex
<1>5. Fits(call[q])' /\ Progress(call[q], fFile, fDataBufferSize, GetMaxBuffIndex)' /\ Exact(call[q], fFile)'
  BY <1>1, <1>2, <1>4 DEF CallRight
<1>6. LockHeld(call[q], q, fMutex)'
  BY <1>1, <1>2 DEF CallRight, LockHeld
<1>7. HasBuffer(call[q], fFileMapArray)'
  <2>1. CASE fFileMapArray' = fFileMapArray
    BY <1>1, <1>2, <2>1 DEF CallRight
  <2>2. CASE fMutex = r
    <3>1. ~(call[q].cached /\ call[q].phase \in {"seek", "disk", "copy"})
      BY <1>1, <2>2 DEF CallRight, LockHeld
    <3>. QED
      BY <1>2, <3>1 DEF HasBuffer
  <2>. QED
    BY <2>1, <2>2
<1>8. AtDisk(q)'
  <2>. SUFFICES ASSUME Phase(q, "disk")', q \notin raced'
                PROVE  (fPosition = Target(q) /\ \A s \in Readers \ {q} : ~Phase(s, "disk"))'
    BY DEF AtDisk
  <2>1. Phase(q, "disk")
    BY <1>2 DEF Phase
  <2>2. q \notin raced /\ fPosition' = fPosition /\ c.phase # "disk"
    BY <2>1
  <2>3. fPosition = Target(q) /\ \A s \in Readers \ {q} : ~Phase(s, "disk")
    BY <1>1, <2>1, <2>2 DEF CallRight, AtDisk
  <2>4. Target(q)' = Target(q)
    BY <1>2 DEF Target
  <2>5. ASSUME NEW s \in Readers \ {q} PROVE ~Phase(s, "disk")'
    BY <1>2, <1>3, <2>2, <2>3 DEF Phase
  <2>. QED
    BY <2>2, <2>3, <2>4, <2>5
<1>. QED
  BY <1>5, <1>6, <1>7, <1>8 DEF CallRight

\* A step that leaves the buffers alone and ends no fill.
LEMMA BlocksStay ==
    ASSUME ReadInv, NEW r \in Readers, NEW c, call' = [call EXCEPT ![r] = c],
           UNCHANGED <<fFile, fDataBufferSize, fFileMapArray, fFill, fData, spoiled>>,
           call[r].phase \in {"seek", "disk"} /\ call[r].cached =>
               c.cached /\ c.phase \in {"seek", "disk"} /\ c.index = call[r].index
    PROVE  BlocksRight'
<1>1. DOMAIN call = Readers
  BY DEF ReadInv, FileInv, CallsTyped
<1>2. \A s \in Readers : call'[s] = IF s = r THEN c ELSE call[s]
  BY <1>1
<1>3. ASSUME NEW i, \A s \in Readers : ~FillsBlock(call'[s], i)
      PROVE  \A s \in Readers : ~FillsBlock(call[s], i)
  BY <1>2, <1>3 DEF FillsBlock
<1>. QED
  BY <1>3 DEF ReadInv, BlocksRight

\* A step of one reader that leaves the buffers alone.
LEMMA ReaderStep ==
    ASSUME ReadInv, FileInv', NEW r \in Readers, NEW c, call' = [call EXCEPT ![r] = c],
           UNCHANGED <<fFile, poolVars, spoiled>>, fPosition' \in Nat,
           call[r].phase \in {"seek", "disk"} /\ call[r].cached =>
               c.cached /\ c.phase \in {"seek", "disk"} /\ c.index = call[r].index,
           \A q \in Readers : q # r => (fMutex = q => fMutex' = q),
           \A q \in Readers : q # r /\ Phase(q, "disk") /\ q \notin raced' =>
                                  q \notin raced /\ fPosition' = fPosition /\ c.phase # "disk",
           CallRight(r)'
    PROVE  ReadInv'
<1>1. UNCHANGED <<fDataBufferSize, fFileMapArray, fFill, fData>>
  BY DEF poolVars
<1>2. BlocksRight'
  BY <1>1, BlocksStay
<1>3. ASSUME NEW q \in Readers, q # r PROVE CallRight(q)'
  BY <1>1, <1>3, OthersStay
<1>. QED
  BY <1>1, <1>2, <1>3 DEF ReadInv

\* A call that is new or has ended.
LEMMA ReturnReads ==
    ASSUME ReadInv, FileInv', NEW r \in Readers, Return(r)
    PROVE  ReadInv'
<1>1. call' = [call EXCEPT ![r] = Idle] /\ UNCHANGED <<fFile, poolVars, spoiled, fPosition, fMutex>>
  BY DEF Return
<1>2. call[r].phase \in {"done", "failed"} /\ raced' = raced \ {r} /\ fPosition \in Nat /\ DOMAIN call = Readers
  BY DEF Return, ReadInv, FileInv, CallsTyped
<1>3. call'[r] = Idle
  BY <1>1, <1>2
<1>4. CallRight(r)'
  BY <1>3 DEF CallRight, Idle, Fits, LockHeld, HasBuffer, Progress, Exact, AtDisk, Phase
<1>5. ASSUME NEW q \in Readers, q # r, Phase(q, "disk"), q \notin raced'
      PROVE  q \notin raced /\ fPosition' = fPosition /\ Idle.phase # "disk"
  BY <1>1, <1>2, <1>5 DEF Idle
<1>. QED
  BY <1>1, <1>2, <1>4, <1>5, ReaderStep

LEMMA FreshCall ==
    ASSUME ReadInv, NEW r \in Readers, Phase(r, "idle")
    PROVE  call[r] = Idle
BY DEF ReadInv, CallRight, Fits, Phase

\* An access to the disk is alone there, or it and all the others are raced.
LEMMA AccessReads ==
    ASSUME ReadInv, FileInv', NEW r \in Readers, NEW c, call' = [call EXCEPT ![r] = c],
           UNCHANGED <<fFile, poolVars, spoiled, fMutex>>, fPosition' \in Nat,
           call[r].phase \in {"seek", "disk"} /\ call[r].cached =>
               c.cached /\ c.phase \in {"seek", "disk"} /\ c.index = call[r].index,
           raced' = (raced \ {r}) \cup Cut(r) \cup (IF Cut(r) # {} THEN {r} ELSE {}),
           c.phase = "disk", fPosition' = IF c.cached THEN c.index * fDataBufferSize ELSE c.pos,
           Fits(c), LockHeld(c, r, fMutex), HasBuffer(c, fFileMapArray),
           Progress(c, fFile, fDataBufferSize, GetMaxBuffIndex), Exact(c, fFile)
    PROVE  ReadInv'
<1>1. DOMAIN call = Readers
  BY DEF ReadInv, FileInv, CallsTyped
<1>2. call'[r] = c /\ \A q \in Readers : q # r => call'[q] = call[q]
  BY <1>1
<1>3. UNCHANGED <<fDataBufferSize, fFileMapArray, GetMaxBuffIndex>>
  BY DEF poolVars, GetMaxBuffIndex
<1>4. ASSUME NEW q \in Readers, q # r, Phase(q, "disk") PROVE q \in raced' /\ r \in raced'
  <2>1. q \in Cut(r)
    BY <1>4 DEF Cut
  <2>. QED
    BY <2>1
<1>5. AtDisk(r)'
  <2>. SUFFICES ASSUME r \notin raced'
                PROVE  (fPosition = Target(r) /\ \A q \in Readers \ {r} : ~Phase(q, "disk"))'
    BY DEF AtDisk
  <2>1. (fPosition = Target(r))'
    BY <1>2, <1>3 DEF Target
  <2>2. ASSUME NEW q \in Readers \ {r} PROVE ~Phase(q, "disk")'
    BY <1>2, <1>4 DEF Phase
  <2>. QED
    BY <2>1, <2>2
<1>6. CallRight(r)'
  BY <1>2, <1>3, <1>5 DEF CallRight
<1>. QED
  BY <1>4, <1>6, ReaderStep

LEMMA SeekReads ==
    ASSUME ReadInv, FileInv', NEW r \in Readers, Seek(r)
    PROVE  ReadInv'
<1>1. PICK O : call[r] \in CallRecords(O)
  BY CallFields DEF ReadInv
<1>2. PICK c : c = [call[r] EXCEPT !.phase = "disk"]
  OBVIOUS
<1>3. call' = [call EXCEPT ![r] = c] /\ UNCHANGED <<fFile, poolVars, spoiled, fMutex>> /\ fPosition' = Target(r)
      /\ raced' = (raced \ {r}) \cup Cut(r) \cup (IF Cut(r) # {} THEN {r} ELSE {})
      /\ call[r].phase = "seek"
  BY <1>2 DEF Seek, Phase
<1>4. /\ c.phase = "disk" /\ c.pos = call[r].pos /\ c.len = call[r].len /\ c.index = call[r].index
      /\ c.cached = call[r].cached /\ c.out = call[r].out /\ c.tainted = call[r].tainted
  BY <1>1, <1>2 DEF CallRecords
<1>5. CallRight(r)
  BY DEF ReadInv
<1>6. Fits(c) /\ LockHeld(c, r, fMutex) /\ HasBuffer(c, fFileMapArray) /\ Exact(c, fFile)
      /\ Progress(c, fFile, fDataBufferSize, GetMaxBuffIndex)
  BY <1>3, <1>4, <1>5 DEF CallRight, Fits, LockHeld, HasBuffer, Exact, Progress
<1>7. fPosition' = IF c.cached THEN c.index * fDataBufferSize ELSE c.pos
  BY <1>3, <1>4 DEF Target
<1>8. fPosition' \in Nat
  <2>1. CASE c.cached
    <3>1. DOMAIN fFileMapArray # {} /\ c.index \in Nat
      BY <1>1, <1>4, <1>6, <2>1 DEF HasBuffer, CallRecords
    <3>2. fDataBufferSize \in Nat
      BY <3>1 DEF ReadInv, FileInv, MapSized
    <3>3. c.index * fDataBufferSize \in Nat
      BY <3>1, <3>2
    <3>. QED
      BY <1>7, <2>1, <3>3
  <2>2. CASE ~c.cached
    BY <1>6, <1>7, <2>2 DEF Fits
  <2>. QED
    BY <2>1, <2>2
<1>. QED
  BY <1>3, <1>4, <1>6, <1>7, <1>8, AccessReads

LEMMA ReadOnReads ==
    ASSUME ReadInv, FileInv', NEW r \in Readers, ReadOn(r)
    PROVE  ReadInv'
<1>1. call[r] = Idle
  BY FreshCall DEF ReadOn
<1>2. PICK c : c = [Idle EXCEPT !.phase = "disk", !.pos = fPosition, !.len = 1]
  OBVIOUS
<1>3. call' = [call EXCEPT ![r] = c] /\ UNCHANGED <<fFile, poolVars, spoiled, fMutex>> /\ fPosition' = fPosition
      /\ raced' = (raced \ {r}) \cup Cut(r) \cup (IF Cut(r) # {} THEN {r} ELSE {})
  BY <1>1, <1>2 DEF ReadOn
<1>4. c.phase = "disk" /\ c.pos = fPosition /\ c.len = 1 /\ c.cached = FALSE
  BY <1>2 DEF Idle
<1>5. call[r].phase = "idle" /\ fPosition \in Nat
  BY <1>1 DEF Idle, ReadInv
<1>6. Fits(c) /\ LockHeld(c, r, fMutex) /\ HasBuffer(c, fFileMapArray) /\ Exact(c, fFile)
      /\ Progress(c, fFile, fDataBufferSize, GetMaxBuffIndex)
  BY <1>4, <1>5 DEF Fits, LockHeld, HasBuffer, Exact, Progress
<1>7. fPosition' = IF c.cached THEN c.index * fDataBufferSize ELSE c.pos
  BY <1>3, <1>4
<1>. QED
  BY <1>3, <1>4, <1>5, <1>6, <1>7, AccessReads

\* A call of Read() at a position.
LEMMA StartReads ==
    ASSUME ReadInv, FileInv', NEW r \in Readers, NEW pos \in Nat, NEW len \in Nat, Read(r, pos, len)
    PROVE  ReadInv'
<1>1. call[r] = Idle /\ DOMAIN call = Readers /\ call[r].phase = "idle"
  BY FreshCall DEF Read, ReadInv, FileInv, CallsTyped, Phase
<1>2. UNCHANGED <<fFile, poolVars, spoiled, raced, fPosition>> /\ fPosition' \in Nat
  BY DEF Read, ReadInv
<1>3. ASSUME NEW c, call' = [call EXCEPT ![r] = c], c.phase # "disk", CallRight(r)', fMutex = NoReader \/ fMutex' = fMutex
      PROVE  ReadInv'
  <2>1. \A q \in Readers : q # r => (fMutex = q => fMutex' = q)
    BY <1>3, FileAssumption
  <2>. QED
    BY <1>1, <1>2, <1>3, <2>1, ReaderStep
<1>4. CASE ~Initialized \/ ~fCacheEnabled \/ GetBuffIndex(pos + len) > GetMaxBuffIndex
  <2>1. PICK c : c = [Idle EXCEPT !.phase = "seek", !.pos = pos, !.len = len]
    OBVIOUS
  <2>2. call' = [call EXCEPT ![r] = c] /\ fMutex' = fMutex
    BY <1>1, <1>4, <2>1 DEF Read
  <2>3. c.phase = "seek" /\ c.pos = pos /\ c.len = len /\ c.cached = FALSE
    BY <2>1 DEF Idle
  <2>4. call'[r] = c
    BY <1>1, <2>2
  <2>5. CallRight(r)'
    BY <2>3, <2>4 DEF CallRight, Fits, LockHeld, HasBuffer, Progress, Exact, AtDisk, Phase
  <2>. QED
    BY <1>3, <2>2, <2>3, <2>5
<1>5. CASE ~(~Initialized \/ ~fCacheEnabled \/ GetBuffIndex(pos + len) > GetMaxBuffIndex)
  <2>1. ReadFromCache(r, pos, len)
    BY <1>5 DEF Read
  <2>2. PICK L : L = FileLength[fFile] /\ L \in Nat
    BY FileAssumption DEF ReadInv, FileInv
  <2>3. CASE pos >= FileLength[fFile]
    <3>1. PICK c : c = [Idle EXCEPT !.phase = "done", !.pos = pos, !.len = len]
      OBVIOUS
    <3>2. call' = [call EXCEPT ![r] = c] /\ fMutex' = fMutex
      BY <1>1, <2>1, <2>3, <3>1 DEF ReadFromCache
    <3>3. c.phase = "done" /\ c.pos = pos /\ c.len = len /\ c.cached = FALSE /\ c.out = <<>>
      BY <3>1 DEF Idle
    <3>4. call'[r] = c
      BY <1>1, <3>2
    <3>5. FileHas(L, pos, len) = 0
      BY <2>2, <2>3 DEF FileHas
    <3>6. Exact(c, fFile)
      BY <2>2, <3>3, <3>5, NoContent DEF Exact
    <3>7. CallRight(r)'
      BY <1>2, <3>3, <3>4, <3>6 DEF CallRight, Fits, LockHeld, HasBuffer, Progress, AtDisk, Phase
    <3>. QED
      BY <1>3, <3>2, <3>3, <3>7
  <2>4. CASE ~(pos >= FileLength[fFile])
    <3>1. PICK i, d, j : i = GetBuffIndex(pos) /\ d = fDataBufferSize /\ j = GetBuffIndex(pos + len)
      OBVIOUS
    <3>2. PICK c : c = [Idle EXCEPT !.phase = "block", !.pos = pos, !.len = len, !.cached = TRUE, !.index = i]
      OBVIOUS
    <3>3. call' = [call EXCEPT ![r] = c] /\ fMutex' = r /\ fMutex = NoReader
      BY <1>1, <2>1, <2>4, <3>1, <3>2 DEF ReadFromCache
    <3>4. c.phase = "block" /\ c.pos = pos /\ c.len = len /\ c.cached = TRUE /\ c.index = i /\ c.out = <<>>
      BY <3>2 DEF Idle
    <3>5. call'[r] = c
      BY <1>1, <3>3
    <3>6. d \in Nat \ {0} /\ GetMaxBuffIndex \in Int
      <4>1. d \in Nat \ {0} /\ \E k \in Nat : DOMAIN fFileMapArray = 0 .. k
        BY <1>5, <3>1 DEF ReadInv, FileInv, MapSized, Initialized
      <4>2. PICK k \in Nat : DOMAIN fFileMapArray = 0 .. k
        BY <4>1
      <4>3. Cardinality(0 .. k) = k + 1
        BY FS_Interval
      <4>. QED
        BY <4>1, <4>2, <4>3 DEF GetMaxBuffIndex
    <3>7. i \in Nat /\ j \in Nat /\ i <= j /\ j <= GetMaxBuffIndex
      <4>1. i \in Nat /\ j \in Nat /\ i <= j
        BY <3>1, <3>6, Blocks DEF GetBuffIndex
      <4>. QED
        BY <1>5, <3>1, <3>6, <4>1
    <3>8. Progress(c, fFile, d, GetMaxBuffIndex)
      <4>1. i = pos \div d /\ j = (pos + len) \div d
        BY <3>1 DEF GetBuffIndex
      <4>2. Covered(L, pos, i, d) = 0
        BY <4>1 DEF Covered
      <4>3. c.out = Content(fFile, pos, Covered(L, pos, i, d))
        BY <3>4, <4>2, NoContent
      <4>4. pos < L /\ pos \div d <= i /\ i <= (pos + len) \div d /\ (pos + len) \div d <= GetMaxBuffIndex
        BY <2>2, <2>4, <3>7, <4>1
      <4>. QED
        BY <2>2, <3>4, <4>3, <4>4 DEF Progress
    <3>9. UNCHANGED <<fDataBufferSize, GetMaxBuffIndex>>
      BY <1>2 DEF poolVars, GetMaxBuffIndex
    <3>10. CallRight(r)'
      BY <1>2, <3>1, <3>3, <3>4, <3>5, <3>8, <3>9 DEF CallRight, Fits, LockHeld, HasBuffer, Exact, AtDisk, Phase
    <3>. QED
      BY <1>3, <3>3, <3>4, <3>10
  <2>. QED
    BY <2>3, <2>4
<1>. QED
  BY <1>4, <1>5

\* What the disk has where a call is.
LEMMA DiskHas ==
    ASSUME ReadInv, NEW n \in Nat
    PROVE  /\ DiskBytes(n) = Content(fFile, fPosition, FileHas(FileLength[fFile], fPosition, n))
           /\ FileHas(FileLength[fFile], fPosition, n) \in Nat
           /\ Len(DiskBytes(n)) = FileHas(FileLength[fFile], fPosition, n)
<1>1. PICK L, p : L = FileLength[fFile] /\ p = fPosition /\ L \in Nat /\ p \in Nat
  BY FileAssumption DEF ReadInv, FileInv
<1>2. PICK a : a = FileHas(L, p, n)
  OBVIOUS
<1>3. a \in Nat
  BY <1>1, <1>2 DEF FileHas
<1>4. DiskBytes(n) = Content(fFile, p, a)
  BY <1>1, <1>2 DEF DiskBytes, FileHas
<1>5. BytesFrom(Content(fFile, p, a), fFile, p, a)
  BY <1>1, <1>3, ContentSeq
<1>6. Len(Content(fFile, p, a)) = a
  BY <1>5 DEF BytesFrom
<1>. QED
  BY <1>1, <1>2, <1>3, <1>4, <1>6

\* ReadFromDisk() fills the block of a call that holds the lock, or its own buffer.
LEMMA DiskReads ==
    ASSUME ReadInv, FileInv', NEW r \in Readers, NEW ok \in BOOLEAN, ReadFromDisk(r, ok)
    PROVE  ReadInv'
<1>1. PICK O : call[r] \in CallRecords(O)
  BY CallFields DEF ReadInv
<1>2. CallRight(r) /\ DOMAIN call = Readers /\ Phase(r, "disk") /\ fPosition \in Nat
  BY DEF ReadInv, FileInv, CallsTyped, ReadFromDisk
<1>3. PICK size : size = IF call[r].cached THEN fDataBufferSize ELSE call[r].len
  OBVIOUS
<1>4. PICK bytes : bytes = IF ok THEN DiskBytes(size) ELSE <<>>
  OBVIOUS
<1>5. PICK p, o, t : /\ p = IF ~ok THEN "failed" ELSE IF call[r].cached THEN "copy" ELSE "done"
                     /\ o = IF call[r].cached THEN call[r].out ELSE bytes
                     /\ t = (call[r].tainted \/ r \in raced)
  OBVIOUS
<1>6. PICK c : c = [call[r] EXCEPT !.phase = p, !.out = o, !.tainted = t]
  OBVIOUS
<1>7. call' = [call EXCEPT ![r] = c]
  <2>1. call' = [call EXCEPT ![r].phase = IF ~ok THEN "failed" ELSE IF call[r].cached THEN "copy" ELSE "done",
                             ![r].out = IF call[r].cached THEN @ ELSE bytes,
                             ![r].tainted = @ \/ r \in raced]
    BY <1>3, <1>4 DEF ReadFromDisk
  <2>2. \A f \in {"phase", "out", "tainted"} : f \in DOMAIN call[r]
    BY <1>1 DEF CallRecords
  <2>. QED
    BY <1>2, <1>5, <1>6, <2>1, <2>2
<1>8. /\ c.phase = p /\ c.pos = call[r].pos /\ c.len = call[r].len /\ c.index = call[r].index /\ c.index \in Nat
      /\ c.cached = call[r].cached /\ c.out = o /\ c.tainted = t
  BY <1>1, <1>6 DEF CallRecords
<1>9. call'[r] = c /\ \A q \in Readers : q # r => call'[q] = call[q]
  BY <1>2, <1>7
<1>10. /\ UNCHANGED <<fFile, fDataBufferSize, fFileMapArray, raced, GetMaxBuffIndex>>
       /\ fPosition' = fPosition + Len(bytes)
       /\ fMutex' = IF call[r].cached /\ ~ok THEN NoReader ELSE fMutex
  BY <1>3, <1>4 DEF ReadFromDisk, GetMaxBuffIndex
<1>11. call[r].cached => fDataBufferSize \in Nat \ {0} /\ fMutex = r
  <2>1. call[r].cached => DOMAIN fFileMapArray # {} /\ fMutex = r
    BY <1>2 DEF CallRight, HasBuffer, LockHeld, Phase
  <2>. QED
    BY <2>1 DEF ReadInv, FileInv, MapSized
<1>12. size \in Nat
  BY <1>2, <1>3, <1>11 DEF CallRight, Fits
<1>13. PICK a : a = FileHas(FileLength[fFile], fPosition, size)
  OBVIOUS
<1>14. a \in Nat /\ (ok => bytes = Content(fFile, fPosition, a) /\ Len(bytes) = a) /\ fPosition' \in Nat
  <2>1. a \in Nat /\ (ok => bytes = Content(fFile, fPosition, a) /\ Len(bytes) = a)
    BY <1>4, <1>12, <1>13, DiskHas
  <2>2. ~ok => Len(bytes) = 0
    BY <1>4, EmptySeq
  <2>. QED
    BY <1>2, <1>10, <2>1, <2>2
<1>15. r \notin raced => fPosition = Target(r)
  BY <1>2 DEF CallRight, AtDisk
<1>16. ASSUME NEW q \in Readers, q # r, Phase(q, "disk") PROVE q \in raced'
  <2>1. AtDisk(q)
    BY DEF ReadInv, CallRight
  <2>. QED
    BY <1>2, <1>10, <1>16, <2>1 DEF AtDisk
<1>17. p \in {"failed", "copy", "done"} /\ (p = "copy" => call[r].cached /\ ok) /\ (p = "done" => ~call[r].cached /\ ok)
  BY <1>5
<1>18. Fits(c)
  BY <1>2, <1>8, <1>17 DEF CallRight, Fits
<1>19. CASE ~call[r].cached
  <2>1. UNCHANGED <<poolVars, spoiled, fMutex>>
    BY <1>19 DEF ReadFromDisk, poolVars
  <2>2. Exact(c, fFile)
    <3>1. ASSUME ~t, p = "done" PROVE o = Content(fFile, c.pos, FileHas(FileLength[fFile], c.pos, c.len))
      <4>1. fPosition = c.pos /\ ok /\ o = bytes /\ size = c.len
        BY <1>3, <1>5, <1>8, <1>15, <1>19, <3>1 DEF Target
      <4>. QED
        BY <1>13, <1>14, <4>1
    <3>. QED
      BY <1>8, <1>17, <3>1 DEF Exact
  <2>3. CallRight(r)'
    BY <1>8, <1>9, <1>10, <1>17, <1>18, <1>19, <2>2 DEF CallRight, LockHeld, HasBuffer, Progress, AtDisk, Phase
  <2>4. \A q \in Readers : q # r /\ Phase(q, "disk") /\ q \notin raced' =>
                               q \notin raced /\ fPosition' = fPosition /\ c.phase # "disk"
    BY <1>16
  <2>. QED
    BY <1>7, <1>10, <1>14, <1>19, <2>1, <2>3, <2>4, ReaderStep
<1>20. CASE call[r].cached
  <2>1. PICK b, i : b = fFileMapArray[i] /\ i = call[r].index
    OBVIOUS
  <2>2. /\ fFill' = [fFill EXCEPT ![b] = Len(bytes)]
        /\ fData' = IF ok THEN [fData EXCEPT ![b] = bytes] ELSE fData
        /\ spoiled' = IF ok /\ r \notin raced THEN spoiled \ {i} ELSE spoiled \cup {i}
    BY <1>3, <1>4, <1>20, <2>1 DEF ReadFromDisk
  <2>3. DOMAIN fFill = Buffers /\ DOMAIN fData = Buffers /\ DOMAIN fFill' = Buffers /\ DOMAIN fData' = Buffers
    BY <2>2 DEF ReadInv
  <2>4. i \in DOMAIN fFileMapArray /\ b # 0
    BY <1>2, <1>20, <2>1 DEF CallRight, HasBuffer, Phase
  <2>5. fQueue \in Seq(Buffers) /\ Mapped(ToSet(fQueue), fFileMapArray, fArrayIndex)
    BY PoolIsMapped DEF ReadInv, FileInv, LimitFits
  <2>6. ToSet(fQueue) \subseteq Buffers
    <3>1. \A k \in DOMAIN fQueue : fQueue[k] \in Buffers
      BY <2>5, LenProperties
    <3>. QED
      BY <3>1 DEF ToSet
  <2>7. b \in Buffers /\ \A k \in DOMAIN fFileMapArray : fFileMapArray[k] # 0 /\ k # i => fFileMapArray[k] # b
    BY <2>1, <2>4, <2>5, <2>6 DEF Mapped
  <2>8. BlocksRight'
    <3>. SUFFICES ASSUME NEW k \in DOMAIN fFileMapArray, fFileMapArray[k] # 0, k \notin spoiled',
                         \A q \in Readers : ~FillsBlock(call'[q], k)
                  PROVE  BlockFilled(fFile, k, fDataBufferSize, fFileMapArray[k], fFill', fData')
      BY <1>10 DEF BlocksRight
    <3>1. CASE k = i
      <4>1. ok /\ r \notin raced
        BY <2>2, <3>1
      <4>2. fPosition = i * fDataBufferSize
        BY <1>15, <1>20, <2>1, <4>1 DEF Target
      <4>3. fFill'[b] = a /\ fData'[b] = Content(fFile, i * fDataBufferSize, a)
        BY <1>14, <2>2, <2>3, <2>7, <4>1, <4>2
      <4>4. a = FileHas(FileLength[fFile], i * fDataBufferSize, fDataBufferSize)
        BY <1>3, <1>13, <1>20, <4>2
      <4>. QED
        BY <2>1, <3>1, <4>3, <4>4 DEF BlockFilled
    <3>2. CASE k # i
      <4>1. k \notin spoiled
        BY <2>2, <3>2
      <4>2. \A q \in Readers : ~FillsBlock(call[q], k)
        BY <1>9, <2>1, <3>2 DEF FillsBlock
      <4>3. BlockFilled(fFile, k, fDataBufferSize, fFileMapArray[k], fFill, fData)
        BY <4>1, <4>2 DEF ReadInv, BlocksRight
      <4>4. fFill'[fFileMapArray[k]] = fFill[fFileMapArray[k]] /\ fData'[fFileMapArray[k]] = fData[fFileMapArray[k]]
        <5>1. fFileMapArray[k] # b
          BY <2>7, <3>2
        <5>2. fFileMapArray[k] \in Buffers
          BY <2>5, <2>6 DEF Mapped
        <5>. QED
          BY <2>2, <2>3, <5>1, <5>2
      <4>. QED
        BY <4>3, <4>4 DEF BlockFilled
    <3>. QED
      BY <3>1, <3>2
  <2>9. CallRight(r)'
    <3>1. LockHeld(c, r, fMutex') /\ HasBuffer(c, fFileMapArray) /\ Exact(c, fFile)
      BY <1>2, <1>8, <1>10, <1>11, <1>17, <1>20, <2>1, <2>4 DEF LockHeld, HasBuffer, Exact
    <3>2. Progress(c, fFile, fDataBufferSize, GetMaxBuffIndex)
      <4>1. Progress(call[r], fFile, fDataBufferSize, GetMaxBuffIndex) /\ call[r].phase = "disk" /\ o = call[r].out
        BY <1>2, <1>5, <1>20 DEF CallRight, Phase
      <4>2. ~t => ~call[r].tainted
        BY <1>5
      <4>. QED
        BY <1>8, <1>20, <4>1, <4>2 DEF Progress
    <3>3. AtDisk(r)'
      BY <1>8, <1>9, <1>17 DEF AtDisk, Phase
    <3>. QED
      BY <1>9, <1>10, <1>18, <3>1, <3>2, <3>3 DEF CallRight
  <2>10. ASSUME NEW q \in Readers, q # r PROVE CallRight(q)'
    <3>1. fMutex = q => fMutex' = q
      BY <1>11, <1>20, <2>10
    <3>2. Phase(q, "disk") => q \in raced'
      BY <1>16, <2>10
    <3>. QED
      BY <1>7, <1>10, <2>10, <3>1, <3>2, OthersStay
  <2>. QED
    BY <1>14, <2>3, <2>8, <2>9, <2>10 DEF ReadInv
<1>. QED
  BY <1>19, <1>20

\* GetBuffer() leaves the blocks of the other buffers as they are.
LEMMA GetBufferReads ==
    ASSUME ReadInv, FileInv', NEW r \in Readers, GetBuffer(r)
    PROVE  ReadInv'
<1>1. PICK kept, S, m, b, filled : Chooses(r, kept, S, m, b, filled) /\ Takes(r, kept, S, m, b, filled)
  BY GetBufferTakes DEF ReadInv
<1>2. PICK O : call[r] \in CallRecords(O)
  BY CallFields DEF ReadInv
<1>3. CallRight(r) /\ DOMAIN call = Readers /\ call[r].phase = "block" /\ fPosition \in Nat
  BY Zenon DEF ReadInv, FileInv, CallsTyped, GetBuffer, Phase
<1>4. PICK i, p : i = call[r].index /\ p = IF filled THEN "copy" ELSE "seek"
  OBVIOUS
<1>5. PICK c : c = [call[r] EXCEPT !.phase = p]
  OBVIOUS
<1>6. call' = [call EXCEPT ![r] = c]
  BY <1>1, <1>4, <1>5 DEF Takes
<1>7. /\ c.phase = p /\ c.pos = call[r].pos /\ c.len = call[r].len /\ c.index = i
      /\ c.cached = call[r].cached /\ c.out = call[r].out /\ c.tainted = call[r].tainted
  BY <1>2, <1>4, <1>5 DEF CallRecords
<1>8. call'[r] = c /\ \A q \in Readers : q # r => call'[q] = call[q]
  BY <1>3, <1>6
<1>9. filled <=> m[i] # 0
  BY <1>1, <1>4, HitIsFilled
<1>10. /\ fFileMapArray' = IF filled THEN m ELSE TakeBuffer(m, b, i)
       /\ spoiled' = {k \in spoiled : fFileMapArray'[k] # 0}
       /\ UNCHANGED <<fFile, fPosition, fDataBufferSize, fMutex, raced>>
  BY <1>1, <1>4 DEF Takes
<1>10a. /\ DOMAIN fFill' = Buffers /\ DOMAIN fData' = Buffers
        /\ \A e \in S : e \in Buffers => fFill'[e] = fFill[e] /\ fData'[e] = fData[e]
  BY <1>1 DEF Takes
<1>11. i \in DOMAIN m /\ DOMAIN m = DOMAIN fFileMapArray /\ DOMAIN fFileMapArray' = DOMAIN fFileMapArray /\ b # 0
  BY <1>1, <1>4, <1>10 DEF Chooses, TakeBuffer
<1>12. fMutex = r /\ call[r].cached
  BY <1>3 DEF CallRight, LockHeld
<1>13. p \in {"copy", "seek"} /\ (p = "copy" <=> filled)
  BY <1>4
<1>14. ASSUME NEW k \in DOMAIN m, k # i \/ filled, fFileMapArray'[k] # 0
       PROVE  fFileMapArray'[k] = fFileMapArray[k] /\ fFileMapArray[k] \in S /\ fFileMapArray[k] \in Buffers
  <2>1. fFileMapArray'[k] = m[k] /\ m[k] # 0
    BY <1>10, <1>14 DEF TakeBuffer
  <2>. QED
    BY <1>1, <2>1 DEF Chooses, Mapped
<1>15. BlocksRight'
  <2>. SUFFICES ASSUME NEW k \in DOMAIN m, fFileMapArray'[k] # 0, k \notin spoiled',
                       \A q \in Readers : ~FillsBlock(call'[q], k)
                PROVE  BlockFilled(fFile, k, fDataBufferSize, fFileMapArray'[k], fFill', fData')
    BY <1>10, <1>11 DEF BlocksRight
  <2>1. k # i \/ filled
    BY <1>7, <1>8, <1>12, <1>13 DEF FillsBlock
  <2>2. fFileMapArray'[k] = fFileMapArray[k] /\ fFileMapArray[k] \in S /\ fFileMapArray[k] \in Buffers
    BY <1>14, <2>1
  <2>3. k \notin spoiled
    BY <1>10
  <2>4. \A q \in Readers : ~FillsBlock(call[q], k)
    BY <1>3, <1>8 DEF FillsBlock
  <2>5. BlockFilled(fFile, k, fDataBufferSize, fFileMapArray[k], fFill, fData)
    BY <1>11, <2>2, <2>3, <2>4 DEF ReadInv, BlocksRight
  <2>. QED
    BY <1>10a, <2>2, <2>5 DEF BlockFilled
<1>16. CallRight(r)'
  <2>1. fFileMapArray'[i] # 0
    BY <1>9, <1>10, <1>11 DEF TakeBuffer
  <2>2. GetMaxBuffIndex' = GetMaxBuffIndex
    BY <1>11 DEF GetMaxBuffIndex
  <2>3. Fits(c) /\ LockHeld(c, r, fMutex) /\ HasBuffer(c, fFileMapArray') /\ Exact(c, fFile)
    BY <1>3, <1>7, <1>11, <1>12, <1>13, <2>1 DEF CallRight, Fits, LockHeld, HasBuffer, Exact
  <2>4. Progress(c, fFile, fDataBufferSize, GetMaxBuffIndex)
    BY <1>3, <1>4, <1>7 DEF CallRight, Progress
  <2>5. AtDisk(r)'
    BY <1>7, <1>8, <1>13 DEF AtDisk, Phase
  <2>. QED
    BY <1>8, <1>10, <2>2, <2>3, <2>4, <2>5 DEF CallRight
<1>17. ASSUME NEW q \in Readers, q # r PROVE CallRight(q)'
  <2>1. c.phase # "disk"
    BY <1>7, <1>13
  <2>. QED
    BY <1>6, <1>10, <1>11, <1>12, <1>17, <2>1, OthersStay
<1>. QED
  BY <1>3, <1>10, <1>10a, <1>15, <1>16, <1>17 DEF ReadInv

\* One turn of the loop, from a block that holds what the file has.
LEMMA CopyReads ==
    ASSUME ReadInv, FileInv', NEW r \in Readers, Copy(r)
    PROVE  ReadInv'
<1>1. PICK O : call[r] \in CallRecords(O)
  BY CallFields DEF ReadInv
<1>2. CallRight(r) /\ DOMAIN call = Readers /\ call[r].phase = "copy" /\ fPosition \in Nat
  BY DEF ReadInv, FileInv, CallsTyped, Copy, Phase
<1>3. PICK x, i, d, b, l : x = call[r] /\ i = x.index /\ d = fDataBufferSize /\ b = fFileMapArray[i] /\ l = x.len
  OBVIOUS
<1>4. PICK at, left, fill : at = BuffPos(x) /\ left = l - Len(x.out) /\ fill = fFill[b]
  OBVIOUS
<1>5. PICK n, eof : n = (IF left >= fill - at THEN fill - at ELSE left) /\ eof = (at = 0 /\ left <= d /\ fill < left)
  OBVIOUS
<1>6. PICK out, more : /\ out = x.out \o SubSeq(fData[b], at + 1, at + n)
                       /\ more = (~eof /\ i + 1 <= GetBuffIndex(x.pos + l) /\ i + 1 <= GetMaxBuffIndex)
  OBVIOUS
<1>7. PICK p, j, o, t : /\ p = IF n < 0 THEN "undefined" ELSE IF more THEN "block" ELSE "done"
                        /\ j = (IF more THEN i + 1 ELSE i) /\ o = (IF n < 0 THEN x.out ELSE out)
                        /\ t = (x.tainted \/ i \in spoiled)
  OBVIOUS
<1>8. PICK c : c = [x EXCEPT !.phase = p, !.index = j, !.out = o, !.tainted = t]
  OBVIOUS
<1>9. /\ call' = [call EXCEPT ![r] = c] /\ fMutex' = (IF n < 0 \/ more THEN r ELSE NoReader)
      /\ UNCHANGED <<fFile, fPosition, poolVars, spoiled, raced>>
  <2>. DEFINE c0   == call[r]
              b0   == fFileMapArray[c0.index]
              l0   == c0.len - Len(c0.out)
              n0   == IF l0 >= fFill[b0] - BuffPos(c0) THEN fFill[b0] - BuffPos(c0) ELSE l0
              out0 == c0.out \o SubSeq(fData[b0], BuffPos(c0) + 1, BuffPos(c0) + n0)
              eof0 == BuffPos(c0) = 0 /\ l0 <= fDataBufferSize /\ fFill[b0] < l0
              m0   == ~eof0 /\ c0.index + 1 <= GetBuffIndex(c0.pos + c0.len) /\ c0.index + 1 <= GetMaxBuffIndex
  <2>1. /\ call' = [call EXCEPT ![r] = [@ EXCEPT
                        !.phase = IF n0 < 0 THEN "undefined" ELSE IF m0 THEN "block" ELSE "done",
                        !.index = IF m0 THEN c0.index + 1 ELSE c0.index,
                        !.out = IF n0 < 0 THEN c0.out ELSE out0,
                        !.tainted = c0.tainted \/ c0.index \in spoiled]]
        /\ fMutex' = (IF n0 < 0 \/ m0 THEN r ELSE NoReader)
        /\ UNCHANGED <<fFile, fPosition, poolVars, spoiled, raced>>
    BY DEF Copy
  <2>2. l0 = left /\ b0 = b
    BY <1>3, <1>4, Zenon
  <2>3. n0 = n
    BY <1>3, <1>4, <1>5, <2>2, Zenon
  <2>4. eof0 = eof
    BY <1>3, <1>4, <1>5, <2>2, Zenon
  <2>. HIDE DEF n0, eof0
  <2>5. out0 = out
    BY <1>3, <1>4, <1>6, <2>2, <2>3, Zenon
  <2>6. m0 = more
    BY <1>3, <1>6, <2>4, Zenon
  <2>. HIDE DEF out0, m0
  <2>. QED
    BY <1>2, <1>3, <1>7, <1>8, <2>1, <2>3, <2>5, <2>6, Zenon
<1>10. c.phase = p /\ c.pos = x.pos /\ c.len = l /\ c.index = j /\ c.cached = x.cached /\ c.out = o /\ c.tainted = t
       /\ i \in Nat
  BY <1>1, <1>3, <1>8 DEF CallRecords
<1>11. call'[r] = c
  BY <1>2, <1>9
<1>12. x.cached /\ fMutex = r /\ i \in DOMAIN fFileMapArray /\ b # 0 /\ x.pos \in Nat /\ l \in Nat
  BY <1>2, <1>3 DEF CallRight, LockHeld, HasBuffer, Fits
<1>13. d \in Nat \ {0} /\ GetMaxBuffIndex \in Int
  <2>1. d \in Nat \ {0} /\ \E k \in Nat : DOMAIN fFileMapArray = 0 .. k
    BY <1>3, <1>12 DEF ReadInv, FileInv, MapSized
  <2>2. PICK k \in Nat : DOMAIN fFileMapArray = 0 .. k
    BY <2>1
  <2>3. Cardinality(0 .. k) = k + 1
    BY FS_Interval
  <2>. QED
    BY <2>1, <2>2, <2>3 DEF GetMaxBuffIndex
<1>14. PICK L : L = FileLength[fFile] /\ L \in Nat
  BY FileAssumption DEF ReadInv, FileInv
<1>15. PICK so : so = Covered(L, x.pos, i, d)
  OBVIOUS
<1>16. /\ x.pos < L /\ x.pos \div d <= i /\ i <= (x.pos + l) \div d /\ (x.pos + l) \div d <= GetMaxBuffIndex
       /\ ~x.tainted => x.out = Content(fFile, x.pos, so)
  BY <1>2, <1>3, <1>12, <1>14, <1>15 DEF CallRight, Progress
<1>17. p \in {"undefined", "block", "done"} /\ (p = "block" <=> ~(n < 0) /\ more) /\ (p = "undefined" <=> n < 0)
  BY <1>7
<1>18. (p = "block" => j = i + 1) /\ (p = "block" => o = out) /\ (p = "done" => o = out)
       /\ (~t => ~x.tainted /\ i \notin spoiled)
  BY <1>7
<1>19. (x.pos + l) \div d \in Int
  <2>1. x.pos + l \in Nat
    BY <1>12
  <2>2. PICK k : k = (x.pos + l) \div d
    OBVIOUS
  <2>. QED
    BY <1>13, <2>1, <2>2, BlockBounds
<1>20. more <=> ~eof /\ i + 1 <= (x.pos + l) \div d
  <2>1. GetBuffIndex(x.pos + l) = (x.pos + l) \div d
    BY <1>3 DEF GetBuffIndex
  <2>2. i + 1 <= (x.pos + l) \div d => i + 1 <= GetMaxBuffIndex
    BY <1>10, <1>13, <1>16, <1>19
  <2>. QED
    BY <1>6, <2>1, <2>2
<1>21. ASSUME ~t
       PROVE  /\ p # "undefined"
              /\ p = "block" => out = Content(fFile, x.pos, Covered(L, x.pos, i + 1, d))
              /\ p = "done" => out = Content(fFile, x.pos, FileHas(L, x.pos, l))
  <2>1. x.out = Content(fFile, x.pos, so) /\ i \notin spoiled
    BY <1>16, <1>18, <1>21
  <2>2. BlockFilled(fFile, i, d, b, fFill, fData)
    <3>1. ASSUME NEW q \in Readers PROVE ~FillsBlock(call[q], i)
      <4>1. LockHeld(call[q], q, fMutex)
        BY DEF ReadInv, CallRight
      <4>. QED
        BY <1>2, <1>12, <4>1 DEF LockHeld, FillsBlock
    <3>. QED
      BY <1>3, <1>12, <2>1, <3>1 DEF ReadInv, BlocksRight
  <2>3. fill = FileHas(L, i * d, d) /\ fData[b] = Content(fFile, i * d, fill)
    BY <1>4, <1>14, <2>2 DEF BlockFilled
  <2>4. at = IF i = x.pos \div d THEN x.pos - i * d ELSE 0
    BY <1>3, <1>4 DEF BuffPos, GetBuffIndex
  <2>5. PICK e : e = IF l - so >= fill - at THEN fill - at ELSE l - so
    OBVIOUS
  <2>6. PICK pos : pos = x.pos /\ pos \in Nat
    BY <1>12
  <2>7a. Turn(L, pos, l, d, i, so, fill, at, e)
    <3>1. /\ L \in Nat /\ pos \in Nat /\ l \in Nat /\ d \in Nat \ {0} /\ i \in Nat /\ pos < L /\ pos \div d <= i
          /\ i <= (pos + l) \div d /\ so = Covered(L, pos, i, d)
          /\ at = IF i = pos \div d THEN pos - i * d ELSE 0
      BY <1>10, <1>12, <1>13, <1>14, <1>15, <1>16, <2>4, <2>6, Zenon
    <3>. QED
      BY ONLY <2>3, <2>5, <3>1, CopyCounts
  <2>7. /\ so \in Nat /\ fill \in Nat /\ at \in Nat /\ e \in Nat /\ at + e <= fill
        /\ e = 0 \/ pos + so = i * d + at
        /\ ~(at = 0 /\ l - so <= d /\ fill < l - so) /\ i + 1 <= (pos + l) \div d =>
               so + e = Covered(L, pos, i + 1, d)
        /\ (at = 0 /\ l - so <= d /\ fill < l - so) \/ ~(i + 1 <= (pos + l) \div d) =>
               so + e = FileHas(L, pos, l)
    BY <2>7a DEF Turn
  <2>8. Len(x.out) = so
    <3>1. BytesFrom(x.out, fFile, x.pos, so)
      BY <1>12, <2>1, <2>7, ContentSeq
    <3>. QED
      BY <3>1 DEF BytesFrom
  <2>9. left = l - so
    BY <1>4, <2>8
  <2>10. n = e
    BY <1>5, <2>5, <2>9, Zenon
  <2>11. i * d \in Nat
    BY <1>10, <1>13, BlockOrder
  <2>12. out = Content(fFile, pos, so + e)
    <3>1. out = x.out \o SubSeq(fData[b], at + 1, at + e) /\ x.out = Content(fFile, pos, so)
      BY <1>6, <2>1, <2>6, <2>10, Zenon
    <3>2. Copied(out, fFile, pos, so, i * d, fill, at, e)
      BY <2>3, <2>6, <2>7, <2>11, <3>1, Zenon DEF Copied
    <3>. QED
      BY <3>2, TurnBytes
  <2>13. eof <=> (at = 0 /\ l - so <= d /\ fill < l - so)
    BY <1>5, <2>9, Zenon
  <2>14. (more => so + e = Covered(L, pos, i + 1, d)) /\ (~more => so + e = FileHas(L, pos, l))
    BY <1>20, <2>6, <2>7, <2>13, Zenon
  <2>15. ~(n < 0)
    BY <2>7, <2>10
  <2>. QED
    BY <1>17, <2>6, <2>12, <2>14, <2>15
<1>22. Exact(c, fFile)
  BY <1>10, <1>14, <1>18, <1>21 DEF Exact
<1>23. Progress(c, fFile, d, GetMaxBuffIndex)
  <2>. SUFFICES ASSUME p = "block"
                PROVE  /\ x.pos < L /\ x.pos \div d <= j /\ j <= (x.pos + l) \div d /\ (x.pos + l) \div d <= GetMaxBuffIndex
                       /\ ~t => o = Content(fFile, x.pos, Covered(L, x.pos, j, d))
    BY <1>10, <1>14, <1>17 DEF Progress
  <2>1. j = i + 1 /\ o = out /\ more
    BY <1>17, <1>18
  <2>2. x.pos \div d \in Int
    <3>1. PICK k : k = x.pos \div d
      OBVIOUS
    <3>. QED
      BY <1>12, <1>13, <3>1, BlockBounds
  <2>3. x.pos \div d <= i + 1
    BY <1>10, <1>16, <2>2
  <2>. QED
    BY <1>16, <1>20, <1>21, <2>1, <2>3
<1>24. CallRight(r)'
  <2>1. Fits(c) /\ HasBuffer(c, fFileMapArray)
    BY <1>10, <1>12, <1>17 DEF Fits, HasBuffer
  <2>2. LockHeld(c, r, fMutex')
    BY <1>9, <1>10, <1>12, <1>17 DEF LockHeld
  <2>3. UNCHANGED <<fDataBufferSize, fFileMapArray, GetMaxBuffIndex>>
    BY <1>9 DEF poolVars, GetMaxBuffIndex
  <2>4. AtDisk(r)'
    BY <1>10, <1>11, <1>17 DEF AtDisk, Phase
  <2>. QED
    BY <1>3, <1>9, <1>11, <1>22, <1>23, <2>1, <2>2, <2>3, <2>4 DEF CallRight
<1>25. \A q \in Readers : q # r => (fMutex = q => fMutex' = q)
  BY <1>12
<1>26. \A q \in Readers : q # r /\ Phase(q, "disk") /\ q \notin raced' =>
                              q \notin raced /\ fPosition' = fPosition /\ c.phase # "disk"
  BY <1>9, <1>10, <1>17
<1>27. fPosition' \in Nat /\ ~(call[r].phase \in {"seek", "disk"})
  BY <1>2, <1>9
<1>. QED
  BY <1>9, <1>24, <1>25, <1>26, <1>27, ReaderStep

\* No call is under way.
LEMMA QuietCalls ==
    ASSUME ReadInv, Quiet, UNCHANGED call, NEW r \in Readers
    PROVE  CallRight(r)'
<1>1. call'[r] = Idle
  BY FreshCall DEF Quiet
<1>. QED
  BY <1>1 DEF CallRight, Idle, Fits, LockHeld, HasBuffer, Progress, Exact, AtDisk, Phase

LEMMA SetReads ==
    ASSUME ReadInv, FileInv', NEW f \in Files, Set(f)
    PROVE  ReadInv'
<1>1. /\ Quiet /\ fFile' = f /\ fPosition' = 0
      /\ spoiled' = {i \in DOMAIN fFileMapArray : fFileMapArray[i] # 0 /\ (i \in spoiled \/ f # fFile)}
      /\ UNCHANGED <<fDataBufferSize, fFileMapArray, fFill, fData, call>>
  BY DEF Set, poolVars
<1>2. BlocksRight'
  BY <1>1 DEF ReadInv, BlocksRight
<1>3. \A r \in Readers : CallRight(r)'
  BY <1>1, QuietCalls
<1>. QED
  BY <1>1, <1>2, <1>3 DEF ReadInv

LEMMA AllocateReads ==
    ASSUME ReadInv, FileInv', NEW u \in UnitCounts, NEW k \in IncCounts, AllocateFileCache(u, k)
    PROVE  ReadInv'
<1>1. /\ Quiet /\ UNCHANGED <<fFile, fPosition, call>>
      /\ fFill' = [b \in Buffers |-> 0] /\ fData' = [b \in Buffers |-> <<>>]
      /\ \A i \in DOMAIN fFileMapArray' : fFileMapArray'[i] = 0
  BY DEF AllocateFileCache
<1>2. BlocksRight'
  BY <1>1 DEF BlocksRight
<1>3. \A r \in Readers : CallRight(r)'
  BY <1>1, QuietCalls
<1>. QED
  BY <1>1, <1>2, <1>3 DEF ReadInv

LEMMA ReadInvStep == ReadInv /\ [FileNext]_fsVars => ReadInv'
<1>. SUFFICES ASSUME ReadInv, [FileNext]_fsVars PROVE ReadInv'
  OBVIOUS
<1>1. FileInv'
  BY FileStep DEF ReadInv
<1>2. ASSUME UNCHANGED <<fFile, fPosition, fDataBufferSize, fFileMapArray, fFill, fData, fMutex, call, spoiled, raced>>
      PROVE  ReadInv'
  <2>1. BlocksRight'
    BY <1>2 DEF ReadInv, BlocksRight
  <2>2. ASSUME NEW r \in Readers PROVE CallRight(r)'
    BY <1>2 DEF ReadInv, CallRight, GetMaxBuffIndex, AtDisk, Target, Phase
  <2>. QED
    BY <1>1, <1>2, <2>1, <2>2 DEF ReadInv
<1>3. CASE UNCHANGED fsVars
  BY <1>2, <1>3 DEF fsVars, poolVars
<1>4. ASSUME NEW e \in BOOLEAN, EnableFileCache(e) PROVE ReadInv'
  BY <1>2, <1>4 DEF EnableFileCache, poolVars
<1>5. ASSUME NEW n, SetMaxBuffers(n) PROVE ReadInv'
  BY <1>2, <1>5 DEF SetMaxBuffers
<1>6. CASE IncMaxBuffers \/ DecMaxBuffers
  BY <1>5, <1>6 DEF IncMaxBuffers, DecMaxBuffers
<1>7. ASSUME NEW r \in Readers, NEW q \in Requests[r], Read(r, q[1], q[2]) PROVE ReadInv'
  <2>1. q \in Nat \X Nat
    BY FileAssumption
  <2>. QED
    BY <1>1, <1>7, <2>1, StartReads
<1>. QED
  BY <1>1, <1>3, <1>4, <1>6, <1>7, SetReads, AllocateReads, GetBufferReads, CopyReads, SeekReads, ReturnReads,
     ReadOnReads, DiskReads DEF FileNext

LEMMA ReadInvInit == FileInit => ReadInv
<1>. SUFFICES ASSUME FileInit PROVE ReadInv
  OBVIOUS
<1>1. FileInv
  BY FileInvInit
<1>2. fPosition \in Nat /\ DOMAIN fFill = Buffers /\ DOMAIN fData = Buffers /\ DOMAIN fFileMapArray = {}
  BY DEF FileInit
<1>3. ASSUME NEW r \in Readers PROVE CallRight(r)
  <2>1. call[r] = Idle
    BY DEF FileInit
  <2>. QED
    BY <2>1 DEF CallRight, Idle, Fits, LockHeld, HasBuffer, Progress, Exact, AtDisk, Phase
<1>. QED
  BY <1>1, <1>2, <1>3 DEF ReadInv, BlocksRight

\* A read of FileSource.cpp, through the cache or from the disk, gives what the file has
\* at its position and no less, over any number of blocks and whatever GetBuffer() evicts
\* and other readers do meanwhile, unless another access to the disk cut into it or it
\* copied from a block whose fill had failed or been cut into, or was of another file.
THEOREM ReadsStayExact == FileSpec => []ReadsExact
<1>. QED
  BY ReadInvInit, ReadInvStep, ReadInvExact, PTL DEF FileSpec

----------------------------------------------------------------------------
(* ResponseStream *)

\* What a sequence has behind its first b elements.
Behind(t, b) == SubSeq(t, b + 1, Len(t))

LEMMA BehindSeq ==
    ASSUME NEW S, NEW t \in Seq(S), NEW b \in 0 .. Len(t)
    PROVE  /\ Behind(t, b) \in Seq(S)
           /\ Len(Behind(t, b)) = Len(t) - b
           /\ \A i \in 1 .. Len(t) - b : Behind(t, b)[i] = t[b + i]
<1>1. \A i \in b + 1 .. Len(t) : t[i] \in S
  BY ElementOfSeq
<1>2. Len(t) \in Nat
  BY LenProperties
<1> QED
  BY <1>1, <1>2, SubSeqProperties DEF Behind

LEMMA FrontSeq ==
    ASSUME NEW S, NEW t \in Seq(S), NEW b \in 0 .. Len(t)
    PROVE  /\ SubSeq(t, 1, b) \in Seq(S)
           /\ Len(SubSeq(t, 1, b)) = b
           /\ \A i \in 1 .. b : SubSeq(t, 1, b)[i] = t[i]
<1>1. \A i \in 1 .. b : t[i] \in S
  BY ElementOfSeq
<1>2. Len(t) \in Nat
  BY LenProperties
<1> QED
  BY <1>1, <1>2, SubSeqProperties

\* A sequence cut in two.
LEMMA CutJoins ==
    ASSUME NEW S, NEW t \in Seq(S), NEW b \in 0 .. Len(t)
    PROVE  SubSeq(t, 1, b) \o Behind(t, b) = t
<1> DEFINE u == SubSeq(t, 1, b)
           v == Behind(t, b)
<1>1. u \in Seq(S) /\ Len(u) = b /\ \A i \in 1 .. b : u[i] = t[i]
  BY FrontSeq
<1>2. v \in Seq(S) /\ Len(v) = Len(t) - b /\ \A i \in 1 .. Len(t) - b : v[i] = t[b + i]
  BY BehindSeq
<1>3. Len(t) \in Nat
  BY LenProperties
<1> HIDE DEF u, v
<1>4. u \o v \in Seq(S) /\ Len(u \o v) = Len(t)
      /\ \A i \in 1 .. Len(t) : (u \o v)[i] = IF i <= b THEN u[i] ELSE v[i - b]
  BY <1>1, <1>2, <1>3, ConcatProperties
<1>5. \A i \in 1 .. Len(t) : (u \o v)[i] = t[i]
  <2> TAKE i \in 1 .. Len(t)
  <2>1. CASE i <= b
    BY <1>1, <1>4, <2>1
  <2>2. CASE ~(i <= b)
    <3>1. i - b \in 1 .. Len(t) - b
      BY <1>3, <2>2
    <3>2. v[i - b] = t[b + (i - b)] /\ b + (i - b) = i
      BY <1>2, <3>1
    <3> QED
      BY <1>4, <2>2, <3>2
  <2> QED
    BY <2>1, <2>2
<1>6. u \o v = t
  BY <1>4, <1>5, SeqEqual
<1> QED
  BY <1>6 DEF u, v

\* What is added at the end stays at the end.
LEMMA BehindJoined ==
    ASSUME NEW S, NEW t \in Seq(S), NEW s \in Seq(S), NEW b \in 0 .. Len(t)
    PROVE  Behind(t \o s, b) = Behind(t, b) \o s
<1>1. Len(t) \in Nat /\ Len(s) \in Nat
  BY LenProperties
<1>2. t \o s \in Seq(S) /\ Len(t \o s) = Len(t) + Len(s)
      /\ \A i \in 1 .. Len(t) + Len(s) : (t \o s)[i] = IF i <= Len(t) THEN t[i] ELSE s[i - Len(t)]
  BY ConcatProperties
<1>3. b \in 0 .. Len(t \o s)
  BY <1>1, <1>2
<1> DEFINE u == t \o s
           v == Behind(t, b)
           w == Behind(u, b)
<1>4. v \in Seq(S) /\ Len(v) = Len(t) - b /\ \A i \in 1 .. Len(t) - b : v[i] = t[b + i]
  BY BehindSeq
<1>5. w \in Seq(S) /\ Len(w) = Len(u) - b /\ \A i \in 1 .. Len(u) - b : w[i] = u[b + i]
  BY <1>2, <1>3, BehindSeq
<1>6. v \o s \in Seq(S) /\ Len(v \o s) = Len(v) + Len(s)
      /\ \A i \in 1 .. Len(v) + Len(s) : (v \o s)[i] = IF i <= Len(v) THEN v[i] ELSE s[i - Len(v)]
  BY <1>4, ConcatProperties
<1> HIDE DEF v, w, u
<1>7. Len(w) = Len(v \o s)
  BY <1>1, <1>2, <1>4, <1>5, <1>6 DEF u
<1>8. \A i \in 1 .. Len(w) : w[i] = (v \o s)[i]
  <2> TAKE i \in 1 .. Len(w)
  <2>1. Len(w) = Len(t) + Len(s) - b /\ w[i] = u[b + i] /\ b + i \in 1 .. Len(t) + Len(s)
    BY <1>1, <1>2, <1>5 DEF u
  <2>2. w[i] = IF b + i <= Len(t) THEN t[b + i] ELSE s[(b + i) - Len(t)]
    BY <1>2, <2>1 DEF u
  <2>3. i \in 1 .. Len(v) + Len(s)
    BY <1>6, <1>7
  <2>4. CASE i <= Len(v)
    <3>1. b + i <= Len(t) /\ i \in 1 .. Len(t) - b
      BY <1>1, <1>4, <2>4
    <3>2. (v \o s)[i] = v[i]
      BY <1>6, <2>3, <2>4
    <3> QED
      BY <1>4, <2>2, <3>1, <3>2
  <2>5. CASE ~(i <= Len(v))
    <3>1. ~(b + i <= Len(t)) /\ (b + i) - Len(t) = i - Len(v)
      BY <1>1, <1>4, <2>5
    <3>2. (v \o s)[i] = s[i - Len(v)]
      BY <1>6, <2>3, <2>5
    <3> QED
      BY <2>2, <3>1, <3>2, Zenon
  <2> QED
    BY <2>4, <2>5
<1>9. w = v \o s
  BY <1>5, <1>6, <1>7, <1>8, SeqEqual
<1> QED
  BY <1>9 DEF w, v, u

\* Cutting twice.
LEMMA BehindBehind ==
    ASSUME NEW S, NEW t \in Seq(S), NEW b \in 0 .. Len(t), NEW n \in 0 .. Len(t) - b
    PROVE  Behind(Behind(t, b), n) = Behind(t, b + n)
<1>1. Len(t) \in Nat
  BY LenProperties
<1> DEFINE v == Behind(t, b)
           w == Behind(t, b + n)
           x == Behind(v, n)
<1>2. v \in Seq(S) /\ Len(v) = Len(t) - b /\ \A i \in 1 .. Len(t) - b : v[i] = t[b + i]
  BY BehindSeq
<1>3. b + n \in 0 .. Len(t)
  BY <1>1
<1>4. w \in Seq(S) /\ Len(w) = Len(t) - (b + n) /\ \A i \in 1 .. Len(t) - (b + n) : w[i] = t[(b + n) + i]
  BY <1>3, BehindSeq
<1>5. x \in Seq(S) /\ Len(x) = Len(v) - n /\ \A i \in 1 .. Len(v) - n : x[i] = v[n + i]
  <2>1. n \in 0 .. Len(v)
    BY <1>2
  <2> HIDE DEF v
  <2> QED
    BY <1>2, <2>1, BehindSeq, Zenon
<1> HIDE DEF v, w, x
<1>6. Len(x) = Len(w)
  BY <1>1, <1>2, <1>4, <1>5
<1>7. \A i \in 1 .. Len(x) : x[i] = w[i]
  <2> TAKE i \in 1 .. Len(x)
  <2>1. n + i \in 1 .. Len(t) - b /\ i \in 1 .. Len(t) - (b + n) /\ i \in 1 .. Len(v) - n
    BY <1>1, <1>2, <1>4, <1>5
  <2>2. b + (n + i) = (b + n) + i
    BY <2>1
  <2>3. x[i] = v[n + i] /\ v[n + i] = t[b + (n + i)] /\ w[i] = t[(b + n) + i]
    BY <1>2, <1>4, <1>5, <2>1
  <2> QED
    BY <2>2, <2>3, Zenon
<1>8. x = w
  BY <1>4, <1>5, <1>6, <1>7, SeqEqual
<1> QED
  BY <1>8 DEF x, v, w

\* The first n of a joined sequence, when they end in its first part and when not.
LEMMA FrontOfFirst ==
    ASSUME NEW S, NEW u \in Seq(S), NEW v \in Seq(S), NEW n \in 0 .. Len(u)
    PROVE  SubSeq(u \o v, 1, n) = SubSeq(u, 1, n)
<1> DEFINE w == u \o v
           x == SubSeq(w, 1, n)
           y == SubSeq(u, 1, n)
<1>1. Len(u) \in Nat /\ Len(v) \in Nat
  BY LenProperties
<1>2. w \in Seq(S) /\ Len(w) = Len(u) + Len(v)
      /\ \A i \in 1 .. Len(u) + Len(v) : w[i] = IF i <= Len(u) THEN u[i] ELSE v[i - Len(u)]
  BY ConcatProperties
<1> HIDE DEF w
<1>3. n \in 0 .. Len(w)
  BY <1>1, <1>2
<1>4. x \in Seq(S) /\ Len(x) = n /\ \A i \in 1 .. n : x[i] = w[i]
  BY <1>2, <1>3, FrontSeq
<1>5. y \in Seq(S) /\ Len(y) = n /\ \A i \in 1 .. n : y[i] = u[i]
  BY FrontSeq
<1> HIDE DEF x, y
<1>6. \A i \in 1 .. n : x[i] = y[i]
  BY <1>1, <1>2, <1>4, <1>5
<1>7. x = y
  BY <1>4, <1>5, <1>6, SeqEqual
<1> QED
  BY <1>7 DEF x, y, w

\* n is the sum of k and l.
Adds(n, k, l) == n = k + l

LEMMA FrontPastFirst ==
    ASSUME NEW S, NEW u \in Seq(S), NEW v \in Seq(S), NEW k \in 0 .. Len(v), NEW n, Adds(n, Len(u), k)
    PROVE  SubSeq(u \o v, 1, n) = u \o SubSeq(v, 1, k)
<1> DEFINE w == u \o v
           x == SubSeq(w, 1, n)
           f == SubSeq(v, 1, k)
           y == u \o f
<1> USE DEF Adds
<1>1. Len(u) \in Nat /\ Len(v) \in Nat
  BY LenProperties
<1>2. w \in Seq(S) /\ Len(w) = Len(u) + Len(v)
      /\ \A i \in 1 .. Len(u) + Len(v) : w[i] = IF i <= Len(u) THEN u[i] ELSE v[i - Len(u)]
  BY ConcatProperties
<1> HIDE DEF w
<1>3. n \in 0 .. Len(w)
  BY <1>1, <1>2
<1>4. x \in Seq(S) /\ Len(x) = n /\ \A i \in 1 .. n : x[i] = w[i]
  BY <1>2, <1>3, FrontSeq
<1>5. f \in Seq(S) /\ Len(f) = k /\ \A i \in 1 .. k : f[i] = v[i]
  BY FrontSeq
<1> HIDE DEF x, f
<1>6. y \in Seq(S) /\ Len(y) = n
      /\ \A i \in 1 .. n : y[i] = IF i <= Len(u) THEN u[i] ELSE f[i - Len(u)]
  BY <1>5, ConcatProperties
<1> HIDE DEF y
<1>7. \A i \in 1 .. n : x[i] = y[i]
  <2> TAKE i \in 1 .. n
  <2>1. i \in 1 .. Len(u) + Len(v)
    BY <1>1, <1>2, <1>3
  <2>2. CASE i <= Len(u)
    BY <1>2, <1>4, <1>6, <2>1, <2>2
  <2>3. CASE ~(i <= Len(u))
    <3>1. i - Len(u) \in 1 .. k
      BY <1>1, <2>3
    <3> QED
      BY <1>2, <1>4, <1>5, <1>6, <2>1, <2>3, <3>1
  <2> QED
    BY <2>2, <2>3
<1>8. x = y
  BY <1>4, <1>6, <1>7, SeqEqual
<1> QED
  BY <1>8 DEF x, y, w, f

\* The bytes the caller writes, put together and taken apart.
LEMMA DataSeq ==
    ASSUME NEW a \in Nat, NEW n \in Nat
    PROVE  Data(a, n) \in Seq(Int) /\ Len(Data(a, n)) = n /\ \A i \in 1 .. n : Data(a, n)[i] = a + i - 1
<1>1. Data(a, n) \in [1 .. n -> Int]
  BY DEF Data
<1>2. Data(a, n) \in Seq(Int)
  BY <1>1, SeqDef
<1>3. Len(Data(a, n)) = n
  BY <1>1, <1>2, LenProperties DEF Data
<1> QED
  BY <1>2, <1>3 DEF Data

JoinTo(u, v, w) == u \o v = w

LEMMA DataJoins ==
    ASSUME NEW a \in Nat, NEW m \in Nat, NEW n \in Nat, NEW b, NEW k, Adds(b, a, m), Adds(k, m, n)
    PROVE  JoinTo(Data(a, m), Data(b, n), Data(a, k))
<1> DEFINE u == Data(a, m)
           v == Data(b, n)
           w == Data(a, k)
<1> USE DEF Adds
<1>1. u \in Seq(Int) /\ Len(u) = m /\ \A i \in 1 .. m : u[i] = a + i - 1
  BY DataSeq
<1>2. v \in Seq(Int) /\ Len(v) = n /\ \A i \in 1 .. n : v[i] = b + i - 1
  <2>1. b \in Nat
    OBVIOUS
  <2> QED
    BY <2>1, DataSeq, Zenon
<1>3. w \in Seq(Int) /\ Len(w) = k /\ \A i \in 1 .. k : w[i] = a + i - 1
  BY DataSeq
<1> HIDE DEF u, v, w
<1>4. u \o v \in Seq(Int) /\ Len(u \o v) = k
      /\ \A i \in 1 .. k : (u \o v)[i] = IF i <= m THEN u[i] ELSE v[i - m]
  BY <1>1, <1>2, ConcatProperties, Zenon
<1>5. \A i \in 1 .. k : (u \o v)[i] = w[i]
  <2> TAKE i \in 1 .. k
  <2>1. CASE i <= m
    BY <1>1, <1>3, <1>4, <2>1
  <2>2. CASE ~(i <= m)
    <3>1. i - m \in 1 .. n
      BY <2>2
    <3>2. v[i - m] = b + (i - m) - 1
      BY <1>2, <3>1
    <3>3. v[i - m] = a + i - 1
      BY <3>1, <3>2
    <3> QED
      BY <1>3, <1>4, <2>2, <3>3
  <2> QED
    BY <2>1, <2>2
<1>6. u \o v = w
  BY <1>3, <1>4, <1>5, SeqEqual
<1> QED
  BY <1>6 DEF u, v, w, JoinTo

LEMMA DataFront ==
    ASSUME NEW a \in Nat, NEW n \in Nat, NEW k \in 0 .. n
    PROVE  SubSeq(Data(a, n), 1, k) = Data(a, k)
<1> DEFINE u == Data(a, n)
           v == Data(a, k)
           w == SubSeq(u, 1, k)
<1>1. u \in Seq(Int) /\ Len(u) = n /\ \A i \in 1 .. n : u[i] = a + i - 1
  BY DataSeq
<1>2. v \in Seq(Int) /\ Len(v) = k /\ \A i \in 1 .. k : v[i] = a + i - 1
  BY DataSeq
<1> HIDE DEF u, v
<1>3. w \in Seq(Int) /\ Len(w) = k /\ \A i \in 1 .. k : w[i] = u[i]
  BY <1>1, FrontSeq
<1> HIDE DEF w
<1>4. w = v
  BY <1>1, <1>2, <1>3, SeqEqual
<1> QED
  BY <1>4 DEF u, v, w

IsBehind(u, t, b) == u = Behind(t, b)

LEMMA DataBehind ==
    ASSUME NEW a \in Nat, NEW n \in Nat, NEW k \in 0 .. n, NEW b, NEW m \in Nat, Adds(b, a, k), Adds(n, k, m)
    PROVE  IsBehind(Data(b, m), Data(a, n), k)
<1> DEFINE u == Data(a, n)
           v == Data(b, m)
           w == Behind(u, k)
<1> USE DEF Adds
<1>1. u \in Seq(Int) /\ Len(u) = n /\ \A i \in 1 .. n : u[i] = a + i - 1
  BY DataSeq
<1>2. v \in Seq(Int) /\ Len(v) = m /\ \A i \in 1 .. m : v[i] = b + i - 1
  <2>1. b \in Nat /\ m \in Nat
    OBVIOUS
  <2> QED
    BY <2>1, DataSeq, Zenon
<1> HIDE DEF u, v
<1>3. w \in Seq(Int) /\ Len(w) = n - k /\ \A i \in 1 .. n - k : w[i] = u[k + i]
  BY ONLY <1>1, k \in 0 .. n, BehindSeq, Zenon
<1> HIDE DEF w
<1>4. \A i \in 1 .. n - k : w[i] = v[i]
  <2> TAKE i \in 1 .. n - k
  <2>1. k + i \in 1 .. n
    OBVIOUS
  <2> QED
    BY <1>1, <1>2, <1>3, <2>1
<1>5. w = v
  BY <1>2, <1>3, <1>4, SeqEqual
<1> QED
  BY <1>5, Zenon DEF u, v, w, IsBehind

\* A formatter whose buffer can grow; what its size and its first buffer are does
\* not matter.
Formatters(O) == [text : Seq(Int), size : O, written : Nat, grows : O, moved : O, original : O]
Growing(f) == (\E O : f \in Formatters(O)) /\ f.grows

LEMMA GrowingFields == ASSUME NEW f, Growing(f) PROVE f.text \in Seq(Int) /\ f.written \in Nat /\ f.grows
  BY DEF Growing, Formatters

LEMMA NewFormatterGrows ==
    ASSUME NEW size
    PROVE  Growing(Formatter(size, TRUE)) /\ Formatter(size, TRUE).text = <<>> /\ Formatter(size, TRUE).written = 0
<1> DEFINE O == {size, TRUE, FALSE, <<>>}
<1>1. ASSUME NEW y \in O, NEW m \in O
      PROVE  LET f == [text |-> <<>>, size |-> size, written |-> 0, grows |-> y, moved |-> m, original |-> <<>>]
             IN f \in Formatters(O) /\ f.text = <<>> /\ f.written = 0 /\ f.grows = y
  <2>1. <<>> \in Seq(Int)
    OBVIOUS
  <2> QED
    BY <2>1 DEF Formatters
<1>2. TRUE \in O /\ FALSE \in O
  BY Zenon
<1> HIDE DEF O
<1> QED
  BY <1>1, <1>2, Zenon DEF Formatter, Growing

LEMMA AddedGrows ==
    ASSUME NEW O, NEW f \in Formatters(O), NEW s \in Seq(Int)
    PROVE  /\ Added(f, s) \in Formatters(O)
           /\ Added(f, s).text = f.text \o s
           /\ Added(f, s).written = f.written + Len(s)
           /\ Added(f, s).grows = f.grows
<1>1. f.text \in Seq(Int) /\ f.written \in Nat /\ Len(s) \in Nat
  BY LenProperties DEF Formatters
<1>2. f.written + Len(s) \in Nat /\ f.text \o s \in Seq(Int)
  BY <1>1, ConcatProperties
<1> QED
  BY <1>2 DEF Formatters, Added

LEMMA MovedGrows ==
    ASSUME NEW O, NEW f \in Formatters(O), NEW s \in Seq(Int), NEW size
    PROVE  LET g == MovedTo(f, s, size)
           IN  /\ \E P : g \in Formatters(P)
               /\ g.text = f.text \o s
               /\ g.written = f.written + Len(s)
               /\ g.grows = f.grows
<1> DEFINE g == Added(f, s)
           x == IF f.moved THEN g.original ELSE SubSeq(f.text \o s, 1, f.size)
           P == O \cup {size, TRUE, x}
<1>1. g \in Formatters(O) /\ g.text = f.text \o s /\ g.written = f.written + Len(s) /\ g.grows = f.grows
  BY AddedGrows
<1>2. MovedTo(f, s, size) = [g EXCEPT !.size = size, !.moved = TRUE, !.original = x]
  BY Zenon DEF MovedTo
<1> HIDE DEF g, x
<1>3. g \in Formatters(P)
  BY <1>1 DEF Formatters
<1>4. ASSUME NEW y \in P
      PROVE  LET h == [g EXCEPT !.size = size, !.moved = y, !.original = x]
             IN h \in Formatters(P) /\ h.text = g.text /\ h.written = g.written /\ h.grows = g.grows
  <2>1. size \in P /\ x \in P
    OBVIOUS
  <2> HIDE DEF P
  <2> QED
    BY <1>3, <2>1 DEF Formatters
<1>5. TRUE \in P
  BY Zenon
<1> HIDE DEF P
<1> QED
  BY <1>1, <1>2, <1>4, <1>5, Zenon

\* Put() on a buffer that can grow drops nothing, whatever room there is.
LEMMA PutAll ==
    ASSUME NEW f, Growing(f), NEW s \in Seq(Int)
    PROVE  /\ Growing(Put(f, s))
           /\ Put(f, s).text = f.text \o s
           /\ Put(f, s).written = f.written + Len(s)
<1>1. PICK O : f \in Formatters(O)
  BY Zenon DEF Growing
<1>2. f.grows
  BY Zenon DEF Growing
<1>3. Put(f, s) = Added(f, s) \/ \E size : Put(f, s) = MovedTo(f, s, size)
  BY <1>2, Zenon DEF Put
<1> DEFINE Fine(g) == (\E P : g \in Formatters(P)) /\ g.text = f.text \o s
                      /\ g.written = f.written + Len(s) /\ g.grows = f.grows
<1>4. Fine(Added(f, s))
  BY <1>1, AddedGrows
<1>5. \A size : Fine(MovedTo(f, s, size))
  BY <1>1, MovedGrows, Zenon
<1>6. Fine(Put(f, s))
  <2> HIDE DEF Fine
  <2> QED
    BY <1>3, <1>4, <1>5, Zenon
<1> QED
  BY <1>2, <1>6, Zenon DEF Growing

LEMMA ResetGrows ==
    ASSUME NEW f, Growing(f)
    PROVE  Growing(Reset(f, 0)) /\ Reset(f, 0).text = <<>> /\ Reset(f, 0).written = f.written
<1>1. PICK O : f \in Formatters(O)
  BY Zenon DEF Growing
<1>2. SubSeq(f.text, 1, 0) = <<>> /\ <<>> \in Seq(Int)
  BY SubSeqEmpty
<1>3. Reset(f, 0) \in Formatters(O) /\ Reset(f, 0).text = <<>> /\ Reset(f, 0).written = f.written
      /\ Reset(f, 0).grows = f.grows
  BY <1>1, <1>2 DEF Formatters, Reset
<1> QED
  BY <1>3, Zenon DEF Growing

\* The count of what was sent past the buffer.
CountOn(f, k) == [f EXCEPT !.written = @ + k]

LEMMA CountedGrows ==
    ASSUME NEW f, Growing(f), NEW k \in Nat
    PROVE  Growing(CountOn(f, k)) /\ CountOn(f, k).text = f.text /\ CountOn(f, k).written = f.written + k
<1>1. PICK O : f \in Formatters(O)
  BY Zenon DEF Growing
<1>2. f.written + k \in Nat
  BY GrowingFields
<1>3. CountOn(f, k) \in Formatters(O) /\ CountOn(f, k).text = f.text /\ CountOn(f, k).written = f.written + k
      /\ CountOn(f, k).grows = f.grows
  BY <1>1, <1>2 DEF Formatters, CountOn
<1> QED
  BY <1>3, Zenon DEF Growing

----------------------------------------------------------------------------
\* Folds over one or two elements, unfolded.
Sums(iter, S, seq) ==
    iter = [s \in SUBSET S |->
              IF s = {} THEN 0
              ELSE seq[CHOOSE x \in s : TRUE] + iter[s \ {CHOOSE x \in s : TRUE}]]

LEMMA SumUnfolds ==
    ASSUME NEW seq
    PROVE FoldSeq(+, 0, seq) = (CHOOSE iter : Sums(iter, DOMAIN seq, seq))[DOMAIN seq]
  BY DEF FoldSeq, FoldFunction, FoldFunctionOnSet, MapThenFoldSet, Sums

LEMMA SumOfNone == FoldSeq(+, 0, <<>>) = 0
<1> DEFINE iter0 == [s \in SUBSET {} |-> 0]
<1>1. DOMAIN <<>> = {}
  OBVIOUS
<1>2. Sums(iter0, {}, <<>>)
  BY DEF Sums
<1>3. \A iter : Sums(iter, {}, <<>>) => iter[{}] = 0
  BY DEF Sums
<1> QED
  BY <1>1, <1>2, <1>3, SumUnfolds

LEMMA SumOfOne == ASSUME NEW k \in Nat PROVE FoldSeq(+, 0, <<k>>) = k
<1> DEFINE iter0 == [s \in SUBSET {1} |-> IF s = {} THEN 0 ELSE k]
<1>1. DOMAIN <<k>> = {1} /\ <<k>>[1] = k
  OBVIOUS
<1>2. \A s \in SUBSET {1} : s # {} => s = {1}
  OBVIOUS
<1>3. (CHOOSE x \in {1} : TRUE) = 1
  OBVIOUS
<1>4. {1} \ {1} = {}
  OBVIOUS
<1>5. Sums(iter0, {1}, <<k>>)
  <2>1. ASSUME NEW s \in SUBSET {1}
        PROVE  iter0[s] = IF s = {} THEN 0 ELSE <<k>>[CHOOSE x \in s : TRUE] + iter0[s \ {CHOOSE x \in s : TRUE}]
    <3>1. CASE s = {}
      BY <3>1
    <3>2. CASE s = {1}
      BY <1>1, <1>3, <1>4, <3>2
    <3> QED
      BY <1>2, <3>1, <3>2
  <2>2. iter0 = [s \in SUBSET {1} |-> iter0[s]]
    BY Zenon
  <2> HIDE DEF iter0
  <2> QED
    BY <2>1, <2>2, Zenon DEF Sums
<1>6. \A iter : Sums(iter, {1}, <<k>>) => iter[{1}] = k
  <2> SUFFICES ASSUME NEW iter, Sums(iter, {1}, <<k>>) PROVE iter[{1}] = k
    OBVIOUS
  <2>1. iter[{}] = 0
    BY DEF Sums
  <2>2. iter[{1}] = <<k>>[CHOOSE x \in {1} : TRUE] + iter[{1} \ {CHOOSE x \in {1} : TRUE}]
    BY DEF Sums
  <2> QED
    BY <1>1, <1>3, <1>4, <2>1, <2>2
<1> QED
  BY <1>1, <1>5, <1>6, SumUnfolds

\* The two orders in which a set of two is summed up.
LEMMA SumOfTwo == ASSUME NEW k \in Nat, NEW l \in Nat PROVE FoldSeq(+, 0, <<k, l>>) = k + l
<1> DEFINE S == {1, 2}
           seq == <<k, l>>
           iter0 == [s \in SUBSET S |-> (IF 1 \in s THEN k ELSE 0) + (IF 2 \in s THEN l ELSE 0)]
<1>1. DOMAIN seq = S /\ seq[1] = k /\ seq[2] = l
  OBVIOUS
<1>2. \A s \in SUBSET S : s # {} => (CHOOSE x \in s : TRUE) \in s
  OBVIOUS
<1>4. ASSUME NEW s \in SUBSET S, NEW x \in s PROVE seq[x] + iter0[s \ {x}] = iter0[s]
  <2>1. s \ {x} \in SUBSET S /\ x \in S
    OBVIOUS
  <2>2. CASE x = 1
    BY <1>1, <2>1, <2>2
  <2>3. CASE x = 2
    BY <1>1, <2>1, <2>3
  <2> QED
    BY <2>1, <2>2, <2>3
<1>5. iter0[{}] = 0 /\ iter0[S] = k + l
  OBVIOUS
<1>6. iter0 = [s \in SUBSET S |-> iter0[s]]
  BY Zenon
<1> HIDE DEF iter0, seq, S
<1>7. Sums(iter0, S, seq)
  <2>1. ASSUME NEW s \in SUBSET S
        PROVE  iter0[s] = IF s = {} THEN 0 ELSE seq[CHOOSE x \in s : TRUE] + iter0[s \ {CHOOSE x \in s : TRUE}]
    BY <1>2, <1>4, <1>5, Zenon
  <2> QED
    BY <1>6, <2>1, Zenon DEF Sums
<1>8. ASSUME NEW iter, Sums(iter, S, seq) PROVE iter[S] = k + l
  <2> DEFINE c(s) == CHOOSE x \in s : TRUE
  <2>1. iter[{}] = 0
    BY <1>8 DEF Sums
  <2>2. \A s \in SUBSET S : s # {} => iter[s] = seq[c(s)] + iter[s \ {c(s)}]
    BY <1>8, Zenon DEF Sums
  <2>3. c({1}) = 1 /\ c({2}) = 2
    OBVIOUS
  <2>4. {1} \ {1} = {} /\ {2} \ {2} = {} /\ {1} \in SUBSET S /\ {2} \in SUBSET S /\ {1} # {} /\ {2} # {}
    BY DEF S
  <2>5. iter[{1}] = k + 0 /\ iter[{2}] = l + 0
    <3> HIDE DEF c
    <3> QED
      BY <1>1, <2>1, <2>2, <2>3, <2>4, Zenon
  <2>6. c(S) = 1 \/ c(S) = 2
    BY DEF S
  <2>7. S \ {1} = {2} /\ S \ {2} = {1} /\ S \in SUBSET S /\ S # {}
    BY DEF S
  <2> HIDE DEF c
  <2>8. iter[S] = k + iter[{2}] \/ iter[S] = l + iter[{1}]
    BY <1>1, <2>2, <2>6, <2>7, Zenon
  <2> QED
    BY <2>5, <2>8
<1>9. PICK iter : Sums(iter, S, seq) /\ FoldSeq(+, 0, seq) = iter[S]
  BY <1>1, <1>7, SumUnfolds, Zenon
<1> QED
  BY <1>8, <1>9 DEF seq

LEMMA JoinsAssociate == \A s, t, u \in Seq(Int) : (s \o t) \o u = s \o (t \o u)
<1> SUFFICES ASSUME NEW s \in Seq(Int), NEW t \in Seq(Int), NEW u \in Seq(Int)
             PROVE  (s \o t) \o u = s \o (t \o u)
  OBVIOUS
<1> QED
  BY ConcatAssociative, SMTT(20)

Flattens(flatten, seqs) ==
    flatten = [i \in 1 .. Len(seqs) |-> IF i = 1 THEN seqs[i] ELSE flatten[i - 1] \o seqs[i]]

LEMMA FlattenUnfolds ==
    ASSUME NEW seqs, Len(seqs) # 0
    PROVE  FlattenSeq(seqs) = (CHOOSE flatten : Flattens(flatten, seqs))[Len(seqs)]
  BY DEF FlattenSeq, Flattens

LEMMA FlattenNone == FlattenSeq(<<>>) = <<>>
  BY DEF FlattenSeq

LEMMA FlattenOne == ASSUME NEW u PROVE FlattenSeq(<<u>>) = u
<1> DEFINE s == <<u>>
<1>1. Len(s) = 1 /\ s[1] = u
  OBVIOUS
<1> HIDE DEF s
<1>2. Flattens([i \in 1 .. 1 |-> u], s)
  BY <1>1 DEF Flattens
<1>3. \A f : Flattens(f, s) => f[1] = u
  BY <1>1 DEF Flattens
<1>4. FlattenSeq(s) = u
  BY <1>1, <1>2, <1>3, FlattenUnfolds
<1> QED
  BY <1>4 DEF s

LEMMA FlattenTwo == ASSUME NEW u, NEW v PROVE FlattenSeq(<<u, v>>) = u \o v
<1> DEFINE s == <<u, v>>
<1>1. Len(s) = 2 /\ s[1] = u /\ s[2] = v
  OBVIOUS
<1> HIDE DEF s
<1> DEFINE f0 == [i \in 1 .. 2 |-> IF i = 1 THEN u ELSE u \o v]
<1>2. f0[1] = u /\ f0[2] = u \o v
  OBVIOUS
<1>3. f0 = [i \in 1 .. 2 |-> IF i = 1 THEN s[i] ELSE f0[i - 1] \o s[i]]
  <2>1. \A i \in 1 .. 2 : f0[i] = IF i = 1 THEN s[i] ELSE f0[i - 1] \o s[i]
    <3> HIDE DEF f0
    <3>1. 2 - 1 = 1 /\ \A i \in 1 .. 2 : i = 1 \/ i = 2
      OBVIOUS
    <3> QED
      BY <1>1, <1>2, <3>1
  <2>2. f0 = [i \in 1 .. 2 |-> f0[i]]
    BY Zenon
  <2> HIDE DEF f0
  <2> QED
    BY <2>1, <2>2, Zenon
<1> HIDE DEF f0
<1>4. Flattens(f0, s)
  BY <1>1, <1>3, Zenon DEF Flattens
<1>5. ASSUME NEW f, Flattens(f, s) PROVE f[2] = u \o v
  <2>1. \A i \in 1 .. 2 : f[i] = IF i = 1 THEN s[i] ELSE f[i - 1] \o s[i]
    BY <1>1, <1>5, Zenon DEF Flattens
  <2>2. f[1] = u
    BY <1>1, <2>1
  <2>3. f[2] = f[1] \o v
    BY <1>1, <2>1
  <2> QED
    BY <2>2, <2>3
<1>6. FlattenSeq(s) = u \o v
  BY <1>1, <1>4, <1>5, FlattenUnfolds
<1> QED
  BY <1>6 DEF s

----------------------------------------------------------------------------
\* PutRest() with its parts named.
EndOf(vecs, i) == Len(FlattenSeq(SubSeq(vecs, 1, i)))
CurVec(vecs, done) == CHOOSE i \in 1 .. Len(vecs) : EndOf(vecs, i) > done /\ EndOf(vecs, i - 1) <= done
RestOf(vecs, done, i) ==
    IF i = CurVec(vecs, done) THEN SubSeq(vecs[i], done - EndOf(vecs, i - 1) + 1, Len(vecs[i])) ELSE vecs[i]
PutsInto(iter, f, vecs, done, S, c) ==
    iter = [s \in SUBSET S |->
              IF s = {} THEN f
              ELSE Put(iter[s \ {Max(s)}], RestOf(vecs, done, [k \in 1 .. (Len(vecs) - c + 1) |-> c + k - 1][Max(s)]))]

LEMMA PutRestUnfolds ==
    ASSUME NEW f, NEW vecs, NEW done
    PROVE  LET c == CurVec(vecs, done)
               S == 1 .. (Len(vecs) - c + 1)
           IN PutRest(f, vecs, done) = (CHOOSE iter : PutsInto(iter, f, vecs, done, S, c))[S]
  BY DEF PutRest, FoldLeft, MapThenFoldSet, PutsInto, EndOf, CurVec, RestOf

LEMMA MaxOne == Max({1}) = 1
  BY DEF Max
LEMMA MaxTwo == Max({2}) = 2 /\ Max({1, 2}) = 2
  BY DEF Max

\* The rest of the last vector alone.
LEMMA PutsLast ==
    ASSUME NEW f, NEW vecs, NEW done, CurVec(vecs, done) = Len(vecs), Len(vecs) \in Nat
    PROVE  PutRest(f, vecs, done) = Put(f, RestOf(vecs, done, Len(vecs)))
<1> DEFINE c == Len(vecs)
           S == 1 .. (Len(vecs) - c + 1)
           idx == [k \in 1 .. (Len(vecs) - c + 1) |-> c + k - 1]
           r == RestOf(vecs, done, c)
           iter0 == [s \in SUBSET {1} |-> IF s = {} THEN f ELSE Put(f, r)]
<1>1. S = {1}
  OBVIOUS
<1>2. idx[1] = c
  OBVIOUS
<1> HIDE DEF S, idx, r, c
<1>3. \A s \in SUBSET {1} : s = {} \/ s = {1}
  OBVIOUS
<1>4. {1} \ {1} = {} /\ {1} # {} /\ {} \in SUBSET {1} /\ {1} \in SUBSET {1}
  OBVIOUS
<1>5. iter0[{}] = f /\ iter0[{1}] = Put(f, r)
  BY <1>4
<1>6. iter0 = [s \in SUBSET {1} |-> iter0[s]]
  BY Zenon
<1> HIDE DEF iter0
<1>7. ASSUME NEW s \in SUBSET {1}
      PROVE  iter0[s] = IF s = {} THEN f ELSE Put(iter0[s \ {Max(s)}], RestOf(vecs, done, idx[Max(s)]))
  <2>1. CASE s = {}
    BY <1>5, <2>1, Zenon
  <2>2. CASE s = {1}
    BY <1>2, <1>4, <1>5, <2>2, MaxOne, Zenon DEF r
  <2> QED
    BY <1>3, <2>1, <2>2
<1>8. PutsInto(iter0, f, vecs, done, {1}, c)
  BY <1>6, <1>7, Zenon DEF PutsInto, idx
<1>9. ASSUME NEW iter, PutsInto(iter, f, vecs, done, {1}, c) PROVE iter[{1}] = Put(f, r)
  <2>1. \A s \in SUBSET {1} : iter[s] = IF s = {} THEN f ELSE Put(iter[s \ {Max(s)}], RestOf(vecs, done, idx[Max(s)]))
    BY <1>9, Zenon DEF PutsInto, idx
  <2>2. iter[{}] = f
    BY <1>4, <2>1, Zenon
  <2> QED
    BY <1>2, <1>4, <2>1, <2>2, MaxOne, Zenon DEF r
<1>10. PutRest(f, vecs, done) = (CHOOSE iter : PutsInto(iter, f, vecs, done, S, c))[S]
  BY PutRestUnfolds, Zenon DEF S, c
<1>11. PutsInto(CHOOSE iter : PutsInto(iter, f, vecs, done, {1}, c), f, vecs, done, {1}, c)
  BY <1>8, Zenon
<1> QED
  BY <1>1, <1>9, <1>10, <1>11, Zenon DEF r, c

\* The rest of the first vector and then the second.
LEMMA PutsBoth ==
    ASSUME NEW f, NEW vecs, NEW done, CurVec(vecs, done) = 1, Len(vecs) = 2
    PROVE  PutRest(f, vecs, done) = Put(Put(f, RestOf(vecs, done, 1)), RestOf(vecs, done, 2))
<1> DEFINE S == 1 .. (Len(vecs) - 1 + 1)
           idx == [k \in 1 .. (Len(vecs) - 1 + 1) |-> 1 + k - 1]
           r == RestOf(vecs, done, 1)
           q == RestOf(vecs, done, 2)
           iter0 == [s \in SUBSET {1, 2} |->
                       IF s = {} THEN f
                       ELSE IF s = {1} THEN Put(f, r)
                       ELSE IF s = {2} THEN Put(f, q) ELSE Put(Put(f, r), q)]
<1>1. S = {1, 2}
  OBVIOUS
<1>2. idx[1] = 1 /\ idx[2] = 2
  OBVIOUS
<1> HIDE DEF S, idx, r, q
<1>3. \A s \in SUBSET {1, 2} : s = {} \/ s = {1} \/ s = {2} \/ s = {1, 2}
  OBVIOUS
<1>4. /\ {1} \ {1} = {} /\ {2} \ {2} = {} /\ {1, 2} \ {2} = {1}
      /\ {1} # {} /\ {2} # {} /\ {1, 2} # {} /\ {1} # {2} /\ {1, 2} # {1} /\ {1, 2} # {2}
      /\ {} \in SUBSET {1, 2} /\ {1} \in SUBSET {1, 2} /\ {2} \in SUBSET {1, 2} /\ {1, 2} \in SUBSET {1, 2}
  OBVIOUS
<1>5. iter0[{}] = f /\ iter0[{1}] = Put(f, r) /\ iter0[{2}] = Put(f, q) /\ iter0[{1, 2}] = Put(Put(f, r), q)
  BY <1>4, Zenon
<1>6. iter0 = [s \in SUBSET {1, 2} |-> iter0[s]]
  BY Zenon
<1> HIDE DEF iter0
<1>7. ASSUME NEW s \in SUBSET {1, 2}
      PROVE  iter0[s] = IF s = {} THEN f ELSE Put(iter0[s \ {Max(s)}], RestOf(vecs, done, idx[Max(s)]))
  <2>1. CASE s = {}
    BY <1>5, <2>1, Zenon
  <2>2. CASE s = {1}
    BY <1>2, <1>4, <1>5, <2>2, MaxOne, Zenon DEF r
  <2>3. CASE s = {2}
    BY <1>2, <1>4, <1>5, <2>3, MaxTwo, Zenon DEF q
  <2>4. CASE s = {1, 2}
    BY <1>2, <1>4, <1>5, <2>4, MaxTwo, Zenon DEF q
  <2> QED
    BY <1>3, <2>1, <2>2, <2>3, <2>4, Zenon
<1>8. PutsInto(iter0, f, vecs, done, {1, 2}, 1)
  BY <1>6, <1>7, Zenon DEF PutsInto, idx
<1>9. ASSUME NEW iter, PutsInto(iter, f, vecs, done, {1, 2}, 1) PROVE iter[{1, 2}] = Put(Put(f, r), q)
  <2>1. \A s \in SUBSET {1, 2} :
            iter[s] = IF s = {} THEN f ELSE Put(iter[s \ {Max(s)}], RestOf(vecs, done, idx[Max(s)]))
    BY <1>9, Zenon DEF PutsInto, idx
  <2>2. iter[{}] = f
    BY <1>4, <2>1, Zenon
  <2>3. iter[{1}] = Put(f, r)
    BY <1>2, <1>4, <2>1, <2>2, MaxOne, ZenonT(40) DEF r
  <2>4. iter[{1, 2}] = Put(iter[{1, 2} \ {Max({1, 2})}], RestOf(vecs, done, idx[Max({1, 2})]))
    BY <1>4, <2>1, Zenon
  <2> QED
    BY <1>2, <1>4, <2>3, <2>4, MaxTwo, Zenon DEF q
<1>10. PutRest(f, vecs, done) = (CHOOSE iter : PutsInto(iter, f, vecs, done, S, 1))[S]
  BY PutRestUnfolds, Zenon DEF S
<1>11. PutsInto(CHOOSE iter : PutsInto(iter, f, vecs, done, {1, 2}, 1), f, vecs, done, {1, 2}, 1)
  BY <1>8, Zenon
<1> QED
  BY <1>1, <1>9, <1>10, <1>11, Zenon DEF r, q

LEMMA OneFronts ==
    ASSUME NEW a
    PROVE  /\ Len(<<a>>) = 1 /\ <<a>>[1] = a /\ 1 .. Len(<<a>>) = {1}
           /\ SubSeq(<<a>>, 1, 0) = <<>> /\ SubSeq(<<a>>, 1, 1) = <<a>>
<1>1. <<a>> \in Seq({a}) /\ Len(<<a>>) = 1
  OBVIOUS
<1>2. SubSeq(<<a>>, 1, 0) = <<>>
  BY SubSeqEmpty
<1>3. SubSeq(<<a>>, 1, 1) = <<a>>
  BY ONLY <1>1, SubSeqFull
<1>4. 1 .. 1 = {1} /\ <<a>>[1] = a
  OBVIOUS
<1> QED
  BY <1>1, <1>2, <1>3, <1>4, Zenon

LEMMA TwoFronts ==
    ASSUME NEW a, NEW b
    PROVE  /\ Len(<<a, b>>) = 2 /\ <<a, b>>[1] = a /\ <<a, b>>[2] = b /\ 1 .. Len(<<a, b>>) = {1, 2}
           /\ SubSeq(<<a, b>>, 1, 0) = <<>> /\ SubSeq(<<a, b>>, 1, 1) = <<a>> /\ SubSeq(<<a, b>>, 1, 2) = <<a, b>>
<1> DEFINE s == <<a, b>>
           t == SubSeq(s, 1, 1)
<1>1. s \in Seq({a, b}) /\ <<a>> \in Seq({a, b}) /\ Len(s) = 2 /\ Len(<<a>>) = 1 /\ <<a>>[1] = a /\ s[1] = a
      /\ s[2] = b
  OBVIOUS
<1>2. SubSeq(s, 1, 0) = <<>>
  BY SubSeqEmpty
<1>3. 1 .. 2 = {1, 2} /\ 1 \in 0 .. 2
  OBVIOUS
<1> HIDE DEF s
<1>4. SubSeq(s, 1, 2) = s
  BY ONLY <1>1, SubSeqFull
<1>5. t \in Seq({a, b}) /\ Len(t) = 1 /\ \A i \in 1 .. 1 : t[i] = s[i]
  BY <1>1, <1>3, FrontSeq
<1> HIDE DEF t
<1>6. t = <<a>>
  <2>1. \A i \in 1 .. 1 : t[i] = <<a>>[i]
    BY <1>1, <1>5
  <2> QED
    BY <1>1, <1>5, <2>1, SeqEqual
<1> QED
  BY <1>1, <1>2, <1>3, <1>4, <1>6, Zenon DEF s, t

\* h is f with what w, of length n, has behind its first x bytes.
PutsRest(f, h, w, x, n) ==
    Growing(h) /\ h.text = f.text \o Behind(w, x) /\ h.written = f.written + (n - x)

\* What is left of the vectors is put into the buffer, all of it and once.
LEMMA PutRestOfOne ==
    ASSUME NEW f, NEW u \in Seq(Int), NEW done \in Nat, Growing(f), done < Len(u)
    PROVE  PutsRest(f, PutRest(f, <<u>>, done), u, done, Len(u))
<1> DEFINE vecs == <<u>>
<1>1. Len(vecs) = 1 /\ vecs[1] = u /\ SubSeq(vecs, 1, 1) = vecs /\ SubSeq(vecs, 1, 0) = <<>> /\ 1 .. Len(vecs) = {1}
  BY OneFronts, Zenon
<1>2. EndOf(vecs, 0) = 0 /\ EndOf(vecs, 1) = Len(u)
  <2>1. Len(<<>>) = 0
    OBVIOUS
  <2> QED
    BY <1>1, <2>1, FlattenNone, FlattenOne, Zenon DEF EndOf
<1> HIDE DEF vecs
<1>3. Len(u) \in Nat
  BY LenProperties
<1>4. CurVec(vecs, done) = 1
  BY <1>1, <1>2, <1>3 DEF CurVec
<1>5. RestOf(vecs, done, 1) = Behind(u, done)
  BY <1>1, <1>2, <1>3, <1>4, SMTT(20) DEF RestOf, Behind
<1>6. PutRest(f, vecs, done) = Put(f, Behind(u, done))
  <2>1. CurVec(vecs, done) = Len(vecs) /\ Len(vecs) \in Nat
    BY <1>1, <1>4
  <2> QED
    BY <1>1, <1>5, <2>1, PutsLast, Zenon
<1>7. Behind(u, done) \in Seq(Int) /\ Len(Behind(u, done)) = Len(u) - done
  BY <1>3, BehindSeq
<1> QED
  BY <1>6, <1>7, PutAll DEF vecs, PutsRest

LEMMA PutRestOfTwo ==
    ASSUME NEW f, NEW u \in Seq(Int), NEW v \in Seq(Int), NEW done \in Nat, NEW n,
           Growing(f), Adds(n, Len(u), Len(v)), done < n
    PROVE  PutsRest(f, PutRest(f, <<u, v>>, done), u \o v, done, n)
<1> DEFINE vecs == <<u, v>>
<1>1. /\ Len(vecs) = 2 /\ vecs[1] = u /\ vecs[2] = v /\ 1 .. Len(vecs) = {1, 2}
      /\ SubSeq(vecs, 1, 2) = vecs /\ SubSeq(vecs, 1, 1) = <<u>> /\ SubSeq(vecs, 1, 0) = <<>>
  BY TwoFronts, Zenon
<1>2. Len(u) \in Nat /\ Len(v) \in Nat /\ Len(u \o v) = Len(u) + Len(v) /\ f.text \in Seq(Int) /\ f.written \in Nat
  BY LenProperties, ConcatProperties, GrowingFields
<1>3. EndOf(vecs, 0) = 0 /\ EndOf(vecs, 1) = Len(u) /\ EndOf(vecs, 2) = Len(u) + Len(v)
  <2>1. Len(<<>>) = 0
    OBVIOUS
  <2> QED
    BY <1>1, <1>2, <2>1, FlattenNone, FlattenOne, FlattenTwo, Zenon DEF EndOf
<1> HIDE DEF vecs
<1>4. CASE done < Len(u)
  <2>1. CurVec(vecs, done) = 1
    BY <1>1, <1>2, <1>3, <1>4 DEF CurVec
  <2>2. RestOf(vecs, done, 1) = Behind(u, done)
    <3>1. 1 - 1 = 0 /\ done - 0 = done
      OBVIOUS
    <3> QED
      BY <1>1, <1>3, <2>1, <3>1, Zenon DEF RestOf, Behind
  <2>3. RestOf(vecs, done, 2) = v
    BY <1>1, <2>1 DEF RestOf
  <2> DEFINE b == Behind(u, done)
             g == Put(f, b)
  <2>4. PutRest(f, vecs, done) = Put(g, v)
    BY <1>1, <2>1, <2>2, <2>3, PutsBoth, ZenonT(40)
  <2>5. b \in Seq(Int) /\ Len(b) = Len(u) - done
    BY <1>2, <1>4, BehindSeq
  <2>6. Behind(u \o v, done) = b \o v
    <3>1. done \in 0 .. Len(u)
      BY <1>2, <1>4
    <3> QED
      BY <3>1, BehindJoined
  <2> HIDE DEF b
  <2>7. Growing(g) /\ g.text = f.text \o b /\ g.written = f.written + Len(b)
    BY <2>5, PutAll
  <2> HIDE DEF g
  <2>8. Growing(Put(g, v)) /\ Put(g, v).text = g.text \o v /\ Put(g, v).written = g.written + Len(v)
    BY <2>7, PutAll
  <2>9. (f.text \o b) \o v = f.text \o (b \o v)
    <3> DEFINE t == f.text
    <3>1. t \in Seq(Int) /\ b \in Seq(Int) /\ v \in Seq(Int)
      BY <1>2, <2>5
    <3> HIDE DEF t
    <3>2. (t \o b) \o v = t \o (b \o v)
      BY <3>1, JoinsAssociate, Zenon
    <3> QED
      BY <3>2 DEF t
  <2>10. f.written + Len(b) + Len(v) = f.written + (n - done)
    BY <1>2, <2>5 DEF Adds
  <2> QED
    BY <2>4, <2>6, <2>7, <2>8, <2>9, <2>10, Zenon DEF vecs, PutsRest
<1>5. CASE ~(done < Len(u))
  <2>1. CurVec(vecs, done) = 2
    BY <1>1, <1>2, <1>3, <1>5 DEF CurVec, Adds
  <2> DEFINE k == done - Len(u)
             b == Behind(v, k)
  <2>2. k \in Nat /\ k < Len(v) /\ k \in 0 .. Len(v)
    BY <1>2, <1>5 DEF Adds
  <2>3. RestOf(vecs, done, 2) = b
    <3>1. 2 - 1 = 1
      OBVIOUS
    <3> QED
      BY <1>1, <1>3, <2>1, <3>1, Zenon DEF RestOf, Behind
  <2>4. PutRest(f, vecs, done) = Put(f, b)
    <3>1. CurVec(vecs, done) = Len(vecs) /\ Len(vecs) \in Nat
      BY <1>1, <2>1
    <3> HIDE DEF b
    <3>2. PutRest(f, vecs, done) = Put(f, RestOf(vecs, done, Len(vecs)))
      BY <3>1, PutsLast, Zenon
    <3> QED
      BY <1>1, <2>3, <3>2, Zenon
  <2>5. b \in Seq(Int) /\ Len(b) = Len(v) - k
    BY <2>2, BehindSeq
  <2>6. Behind(u \o v, done) = b
    <3>1. Len(u) \in 0 .. Len(u) /\ u \o v \in Seq(Int) /\ Len(u) \in 0 .. Len(u \o v) /\ k \in 0 .. Len(u \o v) - Len(u)
      BY <1>2, <2>2, ConcatProperties
    <3>2. Behind(u, Len(u)) = <<>>
      BY <1>2, SubSeqEmpty DEF Behind
    <3>3. Behind(u \o v, Len(u)) = v
      <4>1. Behind(u \o v, Len(u)) = Behind(u, Len(u)) \o v
        BY <3>1, BehindJoined
      <4> QED
        BY <3>2, <4>1, ConcatEmptySeq
    <3> HIDE DEF k
    <3>4. Behind(Behind(u \o v, Len(u)), k) = Behind(u \o v, Len(u) + k)
      BY <3>1, BehindBehind
    <3>5. Len(u) + k = done
      BY <1>2 DEF k
    <3> QED
      BY <3>3, <3>4, <3>5
  <2> HIDE DEF b
  <2>7. Growing(Put(f, b)) /\ Put(f, b).text = f.text \o b /\ Put(f, b).written = f.written + Len(b)
    BY <2>5, PutAll
  <2>8. f.written + Len(b) = f.written + (n - done)
    BY <1>2, <2>5 DEF Adds
  <2> QED
    BY <2>4, <2>6, <2>7, <2>8, Zenon DEF vecs, PutsRest
<1> QED
  BY <1>4, <1>5

\* The sum of the lengths, and the vectors the caller has them for.
Total(lengths) == FoldSeq(+, 0, lengths)
VecsOf(from, lengths) ==
    [i \in 1 .. Len(lengths) |-> Data(from + FoldSeq(+, 0, SubSeq(lengths, 1, i - 1)), lengths[i])]

\* The formatter and the sent part of its buffer when a send() took n bytes with
\* amt of them in the buffer.
AfterSend(f, n, amt) == IF amt > 0 /\ n >= amt THEN Reset(f, 0) ELSE f
SentTo(b, n, amt) == IF amt > 0 /\ n >= amt THEN 0 ELSE IF amt > 0 THEN b + n ELSE b

LEMMA WriteVParts ==
    ASSUME NEW lengths, NEW type, NEW n, NEW err, WriteV(lengths, type, n, err)
    PROVE  LET amt == Len(Unsent)
               x == SentOfVectors(n, amt)
               g == AfterSend(fOut, n, amt)
           IN /\ SocketWriteV(Unsent \o Data(next, Total(lengths)), n, err)
              /\ fBytesSentInBuffer' = SentTo(fBytesSentInBuffer, n, amt)
              /\ Written
              /\ \/ err \notin {"CF_NoErr", "EAGAIN"} /\ fOut' = g /\ next' = next
                 \/ /\ x # Total(lengths)
                    /\ fOut' = PutRest(CountOn(g, x), VecsOf(next, lengths), x) /\ next' = next + Total(lengths)
                 \/ fOut' = CountOn(g, x) /\ next' = next + x
  BY Zenon DEF WriteV, AfterSend, SentTo, CountOn, Total, VecsOf

LEMMA VecsOfOne ==
    ASSUME NEW a \in Nat, NEW k \in Nat
    PROVE  Total(<<k>>) = k /\ VecsOf(a, <<k>>) = <<Data(a, k)>>
<1>1. FoldSeq(+, 0, <<k>>) = k
  BY SumOfOne
<1>2. FoldSeq(+, 0, SubSeq(<<k>>, 1, 1 - 1)) = 0
  <2>1. SubSeq(<<k>>, 1, 1 - 1) = <<>>
    BY SubSeqEmpty
  <2> QED
    BY <2>1, SumOfNone, Zenon
<1>3. 1 .. Len(<<k>>) = {1} /\ <<k>>[1] = k
  BY OneFronts, Zenon
<1> DEFINE h(i) == Data(a + FoldSeq(+, 0, SubSeq(<<k>>, 1, i - 1)), <<k>>[i])
<1>4. h(1) = Data(a, k)
  <2>1. a + 0 = a
    OBVIOUS
  <2> QED
    BY <1>2, <1>3, <2>1, Zenon
<1>5. VecsOf(a, <<k>>) = [i \in {1} |-> h(i)]
  BY <1>3, Zenon DEF VecsOf
<1> HIDE DEF h
<1>6. [i \in {1} |-> h(i)] = <<h(1)>>
  <2>1. \A v : v = h(1) => [i \in {1} |-> v] = <<v>>
    OBVIOUS
  <2>2. [i \in {1} |-> h(i)] = [i \in {1} |-> h(1)]
    OBVIOUS
  <2> QED
    BY <2>1, <2>2, Zenon
<1> QED
  BY <1>1, <1>4, <1>5, <1>6, Zenon DEF Total

LEMMA VecsOfTwo ==
    ASSUME NEW a \in Nat, NEW k \in Nat, NEW l \in Nat
    PROVE  Total(<<k, l>>) = k + l /\ VecsOf(a, <<k, l>>) = <<Data(a, k), Data(a + k, l)>>
<1>1. FoldSeq(+, 0, <<k, l>>) = k + l
  BY SumOfTwo
<1>2. FoldSeq(+, 0, SubSeq(<<k, l>>, 1, 1 - 1)) = 0
  <2>1. SubSeq(<<k, l>>, 1, 1 - 1) = <<>>
    BY SubSeqEmpty
  <2> QED
    BY <2>1, SumOfNone, Zenon
<1>3. FoldSeq(+, 0, SubSeq(<<k, l>>, 1, 2 - 1)) = k
  <2>1. 2 - 1 = 1
    OBVIOUS
  <2>2. SubSeq(<<k, l>>, 1, 2 - 1) = <<k>>
    BY <2>1, TwoFronts, Zenon
  <2>3. FoldSeq(+, 0, <<k>>) = k
    BY SumOfOne
  <2> QED
    BY <2>2, <2>3, Zenon
<1>4. 1 .. Len(<<k, l>>) = {1, 2} /\ <<k, l>>[1] = k /\ <<k, l>>[2] = l
  BY TwoFronts, Zenon
<1> DEFINE h(i) == Data(a + FoldSeq(+, 0, SubSeq(<<k, l>>, 1, i - 1)), <<k, l>>[i])
<1>5. h(1) = Data(a, k) /\ h(2) = Data(a + k, l)
  <2>1. a + 0 = a
    OBVIOUS
  <2> QED
    BY <1>2, <1>3, <1>4, <2>1, Zenon
<1>6. VecsOf(a, <<k, l>>) = [i \in {1, 2} |-> h(i)]
  BY <1>4, Zenon DEF VecsOf
<1> HIDE DEF h
<1>7. [i \in {1, 2} |-> h(i)] = <<h(1), h(2)>>
  OBVIOUS
<1> QED
  BY <1>1, <1>5, <1>6, <1>7, Zenon DEF Total

LEMMA SendCounts ==
    ASSUME NEW f, NEW n \in Nat, NEW amt \in Nat, NEW b \in Nat
    PROVE  /\ n < amt => SentOfVectors(n, amt) = 0 /\ AfterSend(f, n, amt) = f /\ SentTo(b, n, amt) = b + n
           /\ ~(n < amt) => SentOfVectors(n, amt) = n - amt
           /\ ~(n < amt) /\ amt > 0 => AfterSend(f, n, amt) = Reset(f, 0) /\ SentTo(b, n, amt) = 0
           /\ ~(n < amt) /\ ~(amt > 0) => AfterSend(f, n, amt) = f /\ SentTo(b, n, amt) = b
  BY DEF SentOfVectors, AfterSend, SentTo

\* A send() of what is in the buffer, U, and of t bytes from a on: it takes n of them,
\* x of which are the vectors'.
Sends(f, b, s, a, t, n, U, x, g, c, s1) ==
    /\ U = Behind(f.text, b) /\ n <= Len(U \o Data(a, t))
    /\ x = SentOfVectors(n, Len(U)) /\ g = AfterSend(f, n, Len(U))
    /\ c = SentTo(b, n, Len(U)) /\ s1 = s \o SubSeq(U \o Data(a, t), 1, n)

Keeps(f, s, a, t, n, U, x, g, c, s1) ==
    /\ Growing(g) /\ g.written = f.written
    /\ c \in 0 .. Len(g.text) /\ s1 \in Seq(Int)
    /\ x \in 0 .. t /\ (n = 0 => x = 0)
    /\ s1 \o Behind(g.text, c) = (s \o U) \o Data(a, x)

\* What a send() of the buffer and the vectors takes is cut from the front of both:
\* what was on the connection, what is now, and the vectors' share of it.
LEMMA SendKeeps ==
    ASSUME NEW f, NEW b \in 0 .. Len(f.text), NEW s \in Seq(Int), NEW a \in Nat, NEW t \in Nat, NEW n \in Nat,
           NEW U, NEW x, NEW g, NEW c, NEW s1, Growing(f), Sends(f, b, s, a, t, n, U, x, g, c, s1)
    PROVE  Keeps(f, s, a, t, n, U, x, g, c, s1)
<1> USE DEF Sends, Keeps
<1>1. U \in Seq(Int) /\ Len(U) = Len(f.text) - b /\ f.text \in Seq(Int) /\ Len(f.text) \in Nat
  BY GrowingFields, BehindSeq, LenProperties
<1>0. Len(U) \in Nat /\ b \in Nat
  BY <1>1
<1>2. Data(a, t) \in Seq(Int) /\ Len(Data(a, t)) = t
  BY DataSeq
<1> DEFINE D == Data(a, t)
           W == U \o D
<1>3. W \in Seq(Int) /\ Len(W) = Len(U) + t /\ n <= Len(W)
  <2>1. D \in Seq(Int) /\ Len(D) = t /\ n <= Len(W)
    BY <1>2, Zenon
  <2>2. Len(U \o D) = Len(U) + Len(D) /\ U \o D \in Seq(Int)
    <3> HIDE DEF D
    <3> QED
      BY ONLY <1>1, <2>1, ConcatProperties
  <2> HIDE DEF D
  <2> QED
    BY <2>1, <2>2, Zenon
<1> HIDE DEF W
<1>4. s1 \in Seq(Int)
  <2>1. n \in 0 .. Len(W)
    BY <1>1, <1>3
  <2>2. SubSeq(W, 1, n) \in Seq(Int)
    BY <1>3, <2>1, FrontSeq
  <2> QED
    BY <2>2, ConcatProperties DEF W
<1>5. x \in 0 .. t /\ (n = 0 => x = 0)
  BY <1>1, <1>3 DEF SentOfVectors
<1>6. Growing(g) /\ g.written = f.written
  BY ResetGrows, Zenon DEF AfterSend
<1>7. CASE n < Len(U)
  <2>1. x = 0 /\ g = f /\ c = b + n
    BY <1>0, <1>7, SendCounts, Zenon
  <2>2. c \in 0 .. Len(f.text) /\ n \in 0 .. Len(U) /\ n \in 0 .. Len(f.text) - b
    BY ONLY <1>0, <1>1, <1>7, <2>1, n \in Nat, b \in 0 .. Len(f.text), SMTT(20)
  <2>3. SubSeq(W, 1, n) = SubSeq(U, 1, n)
    BY <1>1, <1>2, <2>2, FrontOfFirst DEF W
  <2>4. Behind(g.text, c) = Behind(U, n)
    <3>1. Behind(Behind(f.text, b), n) = Behind(f.text, b + n)
      BY ONLY <1>1, <2>2, b \in 0 .. Len(f.text), BehindBehind
    <3> QED
      BY <2>1, <3>1, Zenon
  <2>5. Data(a, x) = <<>>
    BY <2>1 DEF Data
  <2> DEFINE P == SubSeq(U, 1, n)
             Q == Behind(U, n)
  <2>6. P \in Seq(Int) /\ Q \in Seq(Int) /\ P \o Q = U
    BY <1>1, <2>2, FrontSeq, BehindSeq, CutJoins
  <2> HIDE DEF P, Q
  <2>7. (s \o P) \o Q = s \o (P \o Q)
    BY <2>6, JoinsAssociate, Zenon
  <2>8. s1 = s \o P
    BY <2>3, Zenon DEF P, W
  <2>9. s1 \o Behind(g.text, c) = s \o U
    BY <2>4, <2>6, <2>7, <2>8, Zenon DEF Q
  <2>10. (s \o U) \o <<>> = s \o U
    <3>1. s \o U \in Seq(Int)
      BY <1>1, ConcatProperties
    <3> QED
      BY <3>1, ConcatEmptySeq
  <2> QED
    BY <1>4, <1>5, <1>6, <2>1, <2>2, <2>5, <2>9, <2>10
<1>8. CASE ~(n < Len(U))
  <2>0. x = n - Len(U)
    BY <1>0, <1>8, SendCounts, Zenon
  <2>1. Adds(n, Len(U), x)
    BY ONLY <1>0, <2>0, n \in Nat DEF Adds
  <2>2. c \in 0 .. Len(g.text) /\ Behind(g.text, c) = <<>>
    <3>1. CASE Len(U) > 0
      <4>0. g = AfterSend(f, n, Len(U)) /\ c = SentTo(b, n, Len(U))
        OBVIOUS
      <4>1. g = Reset(f, 0) /\ c = 0
        <5>1. n >= Len(U)
          BY ONLY <1>0, <1>8, n \in Nat
        <5> QED
          BY ONLY <3>1, <4>0, <5>1, Zenon DEF AfterSend, SentTo
      <4>2. g.text = <<>> /\ Len(<<>>) = 0
        BY <4>1, ResetGrows
      <4>3. Behind(<<>>, 0) = <<>>
        BY SubSeqEmpty DEF Behind
      <4> QED
        BY <4>1, <4>2, <4>3
    <3>2. CASE ~(Len(U) > 0)
      <4>1. g = f /\ c = b /\ b = Len(f.text)
        <5>1. g = f /\ c = b
          BY <1>0, <1>8, <3>2, SendCounts, Zenon
        <5>2. b = Len(f.text)
          BY ONLY <1>0, <1>1, <3>2, b \in 0 .. Len(f.text)
        <5> QED
          BY <5>1, <5>2
      <4>2. Behind(f.text, Len(f.text)) = <<>>
        BY <1>1, SubSeqEmpty DEF Behind
      <4> QED
        BY <1>1, <4>1, <4>2
    <3> QED
      BY <3>1, <3>2
  <2>3. SubSeq(W, 1, n) = U \o SubSeq(D, 1, x)
    <3>1. x \in 0 .. Len(D)
      BY <1>2, <1>5
    <3>2. D \in Seq(Int)
      BY <1>2
    <3> HIDE DEF D
    <3>3. SubSeq(U \o D, 1, n) = U \o SubSeq(D, 1, x)
      BY ONLY <1>1, <2>1, <3>1, <3>2, FrontPastFirst, ZenonT(40)
    <3> QED
      BY <3>3, Zenon DEF W
  <2>4. SubSeq(D, 1, x) = Data(a, x)
    BY <1>5, DataFront
  <2> DEFINE E == Data(a, x)
  <2>5. E \in Seq(Int)
    BY <1>5, DataSeq
  <2>6. s1 = s \o (U \o E)
    BY <2>3, <2>4, Zenon DEF W
  <2> HIDE DEF E
  <2>7. s \o (U \o E) = (s \o U) \o E
    BY <1>1, <2>5, JoinsAssociate, Zenon
  <2>8. s1 \o <<>> = s1
    BY <1>4, ConcatEmptySeq
  <2> QED
    BY <1>4, <1>5, <1>6, <2>2, <2>6, <2>7, <2>8, Zenon DEF E
<1> QED
  BY <1>7, <1>8

\* What the caller believes it has written is on the connection or in the buffer.
InOrder(s, f, b, nx) == s \o Behind(f.text, b) = Data(1, nx - 1) /\ f.written = nx - 1

StreamTypeOK ==
    /\ Growing(fOut)
    /\ fBytesSentInBuffer \in 0 .. Len(fOut.text)
    /\ next \in Nat \ {0}
    /\ sent \in Seq(Int) /\ fSendTail \in Seq(Int)
    /\ mixed \in BOOLEAN /\ ofClient \in BOOLEAN
    /\ ~ofClient => fSendTail = <<>>

StreamInv == StreamTypeOK /\ StreamInOrder

LEMMA UnsentIsBehind == Unsent = Behind(fOut.text, fBytesSentInBuffer)
  BY Zenon DEF Unsent, Behind, GetCurrentOffset

LEMMA PlainOrder ==
    ASSUME fSendTail = <<>>, sent \in Seq(Int)
    PROVE  StreamInOrder <=> (~mixed => InOrder(sent, fOut, fBytesSentInBuffer, next))
<1>1. sent \o <<>> = sent
  BY ConcatEmptySeq
<1> QED
  BY <1>1, UnsentIsBehind, Zenon DEF StreamInOrder, InOrder

\* A step of a writer: it may not have been in order with what the client socket
\* still holds, and otherwise it goes on where the stream stood.
LEMMA WriterStep ==
    ASSUME StreamInv, Written, Growing(fOut'), fBytesSentInBuffer' \in 0 .. Len(fOut'.text),
           next' \in Nat \ {0}, sent' \in Seq(Int),
           InOrder(sent, fOut, fBytesSentInBuffer, next) => InOrder(sent', fOut', fBytesSentInBuffer', next')
    PROVE  StreamInv'
<1>1. mixed' = (mixed \/ fSendTail # <<>>) /\ ofClient' = ofClient /\ fSendTail' = fSendTail
  BY Zenon DEF Written
<1>2. StreamTypeOK'
  BY <1>1, Zenon DEF StreamInv, StreamTypeOK
<1>3. CASE fSendTail = <<>>
  <2>1. ~mixed => InOrder(sent, fOut, fBytesSentInBuffer, next)
    BY <1>3, PlainOrder, Zenon DEF StreamInv, StreamTypeOK
  <2>2. mixed' = mixed
    BY <1>1, <1>3, Zenon DEF StreamInv, StreamTypeOK
  <2>3. ~mixed' => InOrder(sent', fOut', fBytesSentInBuffer', next')
    BY <2>1, <2>2, Zenon
  <2>4. fSendTail' = <<>>
    BY <1>1, <1>3
  <2>5. (fSendTail = <<>>)' /\ (sent \in Seq(Int))'
    BY <2>4
  <2>6. StreamInOrder' <=> (~mixed => InOrder(sent, fOut, fBytesSentInBuffer, next))'
    BY <2>5, PlainOrder, PTL
  <2> QED
    BY <1>2, <2>3, <2>6, Zenon DEF StreamInv
<1>4. CASE fSendTail # <<>>
  BY <1>1, <1>2, <1>4, Zenon DEF StreamInv, StreamInOrder
<1> QED
  BY <1>3, <1>4

LEMMA PutStep == ASSUME StreamInv, NEW n \in Nat, PutBytes(n) PROVE StreamInv'
<1> DEFINE d == Data(next, n)
           b == fBytesSentInBuffer
           t == fOut.text
<1>1. Growing(fOut) /\ b \in 0 .. Len(t) /\ next \in Nat \ {0} /\ sent \in Seq(Int) /\ t \in Seq(Int)
      /\ fOut.written \in Nat
  BY GrowingFields, Zenon DEF StreamInv, StreamTypeOK
<1>2. fOut' = Put(fOut, d) /\ next' = next + n /\ Written /\ b' = b /\ sent' = sent
  BY Zenon DEF PutBytes
<1>3. d \in Seq(Int) /\ Len(d) = n
  BY <1>1, DataSeq
<1> HIDE DEF d
<1>4. Growing(fOut') /\ fOut'.text = t \o d /\ fOut'.written = fOut.written + n
  BY <1>1, <1>2, <1>3, PutAll, Zenon
<1> HIDE DEF b, t
<1>5. Len(t \o d) = Len(t) + n /\ Len(t) \in Nat
  BY <1>1, <1>3, ConcatProperties, LenProperties
<1>6. b' \in 0 .. Len(fOut'.text)
  BY <1>1, <1>2, <1>4, <1>5
<1>7. next' \in Nat \ {0}
  BY <1>1, <1>2
<1>8. ASSUME InOrder(sent, fOut, b, next)
      PROVE  InOrder(sent', fOut', b', next')
  <2> DEFINE u == Behind(t, b)
  <2>1. sent \o u = Data(1, next - 1) /\ fOut.written = next - 1
    BY <1>8, Zenon DEF InOrder, t
  <2>2. Behind(t \o d, b) = u \o d /\ u \in Seq(Int)
    BY <1>1, <1>3, BehindJoined, BehindSeq
  <2> HIDE DEF u
  <2>3. sent \o (u \o d) = (sent \o u) \o d
    BY <1>1, <1>3, <2>2, JoinsAssociate, Zenon
  <2> DEFINE m == next - 1
             k == next' - 1
  <2>4. m \in Nat /\ Adds(next, 1, m) /\ Adds(k, m, n) /\ 1 \in Nat
    BY <1>1, <1>2 DEF Adds
  <2> HIDE DEF m, k
  <2>5. Data(1, m) \o Data(next, n) = Data(1, k)
    <3>1. JoinTo(Data(1, m), Data(next, n), Data(1, k))
      BY <1>1, <2>4, DataJoins, Zenon
    <3> QED
      BY <3>1, Zenon DEF JoinTo
  <2>6. sent' \o Behind(fOut'.text, b') = Data(1, k)
    BY <1>2, <1>4, <2>1, <2>2, <2>3, <2>5, Zenon DEF d, m
  <2>7. fOut'.written = k
    BY <1>4, <2>1, <2>4 DEF m, Adds
  <2> QED
    BY <2>6, <2>7, Zenon DEF InOrder, k
<1> QED
  BY <1>1, <1>2, <1>4, <1>6, <1>7, <1>8, WriterStep, Zenon DEF b

\* From one state of a stream to the next: y more bytes from a on.
GoesOn(s, f, b, s1, h, c, a, y) ==
    /\ Growing(h) /\ c \in 0 .. Len(h.text) /\ s1 \in Seq(Int) /\ y \in Nat
    /\ h.written = f.written + y
    /\ s1 \o Behind(h.text, c) = (s \o Behind(f.text, b)) \o Data(a, y)

LEMMA GoesOnStep ==
    ASSUME StreamInv, Written, NEW y \in Nat, next' = next + y,
           GoesOn(sent, fOut, fBytesSentInBuffer, sent', fOut', fBytesSentInBuffer', next, y)
    PROVE  StreamInv'
<1> DEFINE b == fBytesSentInBuffer
<1>1. Growing(fOut') /\ b' \in 0 .. Len(fOut'.text) /\ sent' \in Seq(Int) /\ fOut'.written = fOut.written + y
      /\ sent' \o Behind(fOut'.text, b') = (sent \o Behind(fOut.text, b)) \o Data(next, y)
  BY Zenon DEF GoesOn
<1>2. next \in Nat \ {0} /\ fOut.written \in Nat
  BY GrowingFields, Zenon DEF StreamInv, StreamTypeOK
<1>3. next' \in Nat \ {0}
  BY <1>2
<1>4. ASSUME InOrder(sent, fOut, b, next)
      PROVE  InOrder(sent', fOut', b', next')
  <2> DEFINE m == next - 1
             k == next' - 1
  <2>1. sent \o Behind(fOut.text, b) = Data(1, m) /\ fOut.written = m
    BY <1>4, Zenon DEF InOrder
  <2>2. m \in Nat /\ Adds(next, 1, m) /\ Adds(k, m, y) /\ 1 \in Nat
    BY <1>2 DEF Adds
  <2> HIDE DEF m, k
  <2>3. JoinTo(Data(1, m), Data(next, y), Data(1, k))
    BY <2>2, DataJoins, Zenon
  <2>4. Data(1, m) \o Data(next, y) = Data(1, k)
    BY <2>3, Zenon DEF JoinTo
  <2>5. sent' \o Behind(fOut'.text, b') = Data(1, k)
    BY <1>1, <2>1, <2>4, Zenon
  <2>6. fOut'.written = k
    BY <1>1, <2>1, <2>2 DEF Adds
  <2> QED
    BY <2>5, <2>6, Zenon DEF InOrder, k
<1> QED
  BY <1>1, <1>3, <1>4, WriterStep, Zenon

\* What PutRest() makes of f when x of t bytes from a on were sent.
RestPut(f, h, a, x, t) ==
    /\ Growing(h)
    /\ h.text = f.text \o Data(a + x, t - x)
    /\ h.written = f.written + (t - x)

CanPut(a, lengths) ==
    /\ Total(lengths) \in Nat
    /\ \A f, x : Growing(f) /\ x \in Nat /\ x < Total(lengths)
                    => RestPut(f, PutRest(f, VecsOf(a, lengths), x), a, x, Total(lengths))

LEMMA OneCanPut == ASSUME NEW a \in Nat, NEW k \in Nat PROVE CanPut(a, <<k>>)
<1> DEFINE d == Data(a, k)
<1>1. Total(<<k>>) = k /\ VecsOf(a, <<k>>) = <<d>>
  BY VecsOfOne
<1>2. d \in Seq(Int) /\ Len(d) = k
  BY DataSeq
<1>3. ASSUME NEW f, NEW x \in Nat, Growing(f), x < k
      PROVE  RestPut(f, PutRest(f, <<d>>, x), a, x, k)
  <2>1. IsBehind(Data(a + x, k - x), Data(a, k), x)
    <3> DEFINE p == a + x
               q == k - x
    <3>1. q \in Nat /\ x \in 0 .. k /\ Adds(p, a, x) /\ Adds(k, x, q)
      BY <1>3 DEF Adds
    <3> HIDE DEF p, q
    <3>2. IsBehind(Data(p, q), Data(a, k), x)
      BY <3>1, DataBehind, Zenon
    <3> QED
      BY <3>2 DEF p, q
  <2>2. Behind(d, x) = Data(a + x, k - x)
    BY <2>1, Zenon DEF IsBehind
  <2> HIDE DEF d
  <2>3. PutsRest(f, PutRest(f, <<d>>, x), d, x, k)
    BY <1>2, <1>3, PutRestOfOne, Zenon
  <2> QED
    BY <2>2, <2>3, Zenon DEF RestPut, PutsRest
<1> QED
  BY <1>1, <1>3, Zenon DEF CanPut

LEMMA TwoCanPut == ASSUME NEW a \in Nat, NEW k \in Nat, NEW l \in Nat PROVE CanPut(a, <<k, l>>)
<1> DEFINE c == a + k
           t == k + l
           d == Data(a, k)
           e == Data(c, l)
<1>0. c \in Nat /\ t \in Nat /\ Adds(c, a, k) /\ Adds(t, k, l)
  BY DEF Adds
<1>1. Total(<<k, l>>) = t /\ VecsOf(a, <<k, l>>) = <<d, e>>
  BY VecsOfTwo
<1> HIDE DEF c, t
<1>2. d \in Seq(Int) /\ Len(d) = k /\ e \in Seq(Int) /\ Len(e) = l
  BY <1>0, DataSeq
<1>3. d \o e = Data(a, t)
  <2>1. JoinTo(Data(a, k), Data(c, l), Data(a, t))
    BY <1>0, DataJoins, Zenon
  <2> QED
    BY <2>1, Zenon DEF JoinTo
<1>4. ASSUME NEW f, NEW x \in Nat, Growing(f), x < t
      PROVE  RestPut(f, PutRest(f, <<d, e>>, x), a, x, t)
  <2>1. IsBehind(Data(a + x, t - x), Data(a, t), x)
    <3> DEFINE p == a + x
               q == t - x
    <3>1. q \in Nat /\ x \in 0 .. t /\ Adds(p, a, x) /\ Adds(t, x, q)
      BY <1>0, <1>4 DEF Adds
    <3> HIDE DEF p, q
    <3>2. IsBehind(Data(p, q), Data(a, t), x)
      BY <1>0, <3>1, DataBehind, Zenon
    <3> QED
      BY <3>2 DEF p, q
  <2>2. Behind(d \o e, x) = Data(a + x, t - x)
    BY <1>3, <2>1, Zenon DEF IsBehind
  <2> HIDE DEF d, e
  <2>3. PutsRest(f, PutRest(f, <<d, e>>, x), d \o e, x, t)
    BY <1>0, <1>2, <1>4, PutRestOfTwo, Zenon
  <2> QED
    BY <2>2, <2>3, Zenon DEF RestPut, PutsRest
<1> QED
  BY <1>0, <1>1, <1>4, Zenon DEF CanPut

LEMMA WriteVStep ==
    ASSUME StreamInv, NEW lengths, NEW type, NEW n \in Nat, NEW err,
           CanPut(next, lengths), WriteV(lengths, type, n, err)
    PROVE  StreamInv'
<1> DEFINE b == fBytesSentInBuffer
           U == Unsent
           T == Total(lengths)
           x == SentOfVectors(n, Len(U))
           g == AfterSend(fOut, n, Len(U))
<1>1. Growing(fOut) /\ b \in 0 .. Len(fOut.text) /\ next \in Nat /\ sent \in Seq(Int) /\ fOut.written \in Nat
  <2>1. next \in Nat \ {0}
    BY Zenon DEF StreamInv, StreamTypeOK
  <2> QED
    BY <2>1, GrowingFields, Zenon DEF StreamInv, StreamTypeOK
<1>2. /\ SocketWriteV(U \o Data(next, T), n, err) /\ Written
      /\ b' = SentTo(b, n, Len(U))
      /\ \/ err \notin {"CF_NoErr", "EAGAIN"} /\ fOut' = g /\ next' = next
         \/ /\ x # T
            /\ fOut' = PutRest(CountOn(g, x), VecsOf(next, lengths), x) /\ next' = next + T
         \/ fOut' = CountOn(g, x) /\ next' = next + x
  BY WriteVParts, Zenon
<1>3. T \in Nat
  BY Zenon DEF CanPut
<1>4. n <= Len(U \o Data(next, T)) /\ sent' = sent \o SubSeq(U \o Data(next, T), 1, n)
      /\ (err = "CF_NoErr" \/ n = 0)
  BY <1>2, Zenon DEF SocketWriteV
<1>5. Sends(fOut, b, sent, next, T, n, U, x, g, b', sent')
  BY <1>2, <1>4, UnsentIsBehind, Zenon DEF Sends
<1> HIDE DEF T, x, g, b, U
<1>6. /\ Growing(g) /\ g.written = fOut.written
      /\ b' \in 0 .. Len(g.text) /\ sent' \in Seq(Int)
      /\ x \in 0 .. T /\ (n = 0 => x = 0)
      /\ sent' \o Behind(g.text, b') = (sent \o U) \o Data(next, x)
  <2>1. Keeps(fOut, sent, next, T, n, U, x, g, b', sent')
    BY <1>1, <1>3, <1>5, SendKeeps, Zenon
  <2> QED
    BY <2>1, Zenon DEF Keeps
<1>7. U = Behind(fOut.text, b)
  BY UnsentIsBehind DEF U, b
<1>8. x \in Nat /\ x <= T
  BY <1>3, <1>6
<1>9. CASE err \notin {"CF_NoErr", "EAGAIN"} /\ fOut' = g /\ next' = next
  <2>1. x = 0
    BY <1>4, <1>6, <1>9
  <2>2. GoesOn(sent, fOut, b, sent', fOut', b', next, 0)
    <3>1. 0 \in Nat /\ fOut.written + 0 = fOut.written
      BY <1>1
    <3> QED
      BY <1>6, <1>7, <1>9, <2>1, <3>1, Zenon DEF GoesOn
  <2>3. next' = next + 0 /\ 0 \in Nat
    BY <1>1, <1>9
  <2> QED
    BY <1>2, <2>2, <2>3, GoesOnStep, Zenon DEF b
<1>10. Growing(CountOn(g, x)) /\ CountOn(g, x).text = g.text /\ CountOn(g, x).written = g.written + x
  BY <1>6, <1>8, CountedGrows, Zenon
<1>11. CASE fOut' = CountOn(g, x) /\ next' = next + x
  <2>1. GoesOn(sent, fOut, b, sent', fOut', b', next, x)
    BY <1>6, <1>7, <1>8, <1>10, <1>11, Zenon DEF GoesOn
  <2> QED
    BY <1>2, <1>8, <1>11, <2>1, GoesOnStep, Zenon DEF b
<1>12. CASE /\ x # T
            /\ fOut' = PutRest(CountOn(g, x), VecsOf(next, lengths), x) /\ next' = next + T
  <2> DEFINE p == next + x
             q == T - x
             D == Data(p, q)
             V == Behind(g.text, b')
             Y == sent \o U
             X == Data(next, x)
  <2>1. x < T
    BY <1>3, <1>8, <1>12
  <2>2. RestPut(CountOn(g, x), fOut', next, x, T)
    BY <1>8, <1>10, <1>12, <2>1, Zenon DEF CanPut, T
  <2>3. Growing(fOut') /\ fOut'.text = g.text \o D /\ fOut'.written = (g.written + x) + q
    BY <1>10, <2>2, Zenon DEF RestPut
  <2>4. p \in Nat /\ q \in Nat /\ Adds(p, next, x) /\ Adds(T, x, q)
    BY <1>1, <1>3, <1>8 DEF Adds
  <2> HIDE DEF p, q
  <2>5. D \in Seq(Int) /\ Len(D) = q
    BY <2>4, DataSeq, Zenon
  <2>6. X \in Seq(Int)
    BY <1>1, <1>8, DataSeq, Zenon
  <2>7. X \o D = Data(next, T)
    <3>1. JoinTo(Data(next, x), Data(p, q), Data(next, T))
      BY <1>1, <1>8, <2>4, DataJoins, Zenon
    <3> QED
      BY <3>1, Zenon DEF JoinTo
  <2> HIDE DEF D, X
  <2>8. g.text \in Seq(Int) /\ g.written \in Nat
    BY <1>6, GrowingFields, Zenon
  <2>9. V \in Seq(Int)
    BY <1>6, <2>8, BehindSeq, Zenon
  <2>10. Y \in Seq(Int)
    <3>1. U \in Seq(Int)
      BY <1>1, <1>7, GrowingFields, BehindSeq, Zenon
    <3> QED
      BY <1>1, <3>1, ConcatProperties
  <2>11. Behind(fOut'.text, b') = V \o D
    BY <1>6, <2>3, <2>5, <2>8, BehindJoined, Zenon
  <2>12. sent' \o V = Y \o X
    BY <1>6, Zenon DEF X
  <2> HIDE DEF V, Y
  <2>13. sent' \o (V \o D) = (sent' \o V) \o D
    BY <1>6, <2>5, <2>9, JoinsAssociate, Zenon
  <2>14. (Y \o X) \o D = Y \o (X \o D)
    BY <2>5, <2>6, <2>10, JoinsAssociate, Zenon
  <2>15. sent' \o Behind(fOut'.text, b') = (sent \o U) \o Data(next, T)
    BY <2>7, <2>11, <2>12, <2>13, <2>14, Zenon DEF Y
  <2>16. fOut'.written = fOut.written + T
    BY <1>1, <1>3, <1>6, <1>8, <2>3, <2>4 DEF Adds
  <2>17. b' \in 0 .. Len(fOut'.text)
    <3>1. Len(g.text \o D) = Len(g.text) + Len(D) /\ Len(g.text) \in Nat
      BY <2>5, <2>8, ConcatProperties, LenProperties
    <3> QED
      BY <1>6, <2>3, <2>4, <2>5, <3>1
  <2>18. GoesOn(sent, fOut, b, sent', fOut', b', next, T)
    BY <1>3, <1>6, <1>7, <2>3, <2>15, <2>16, <2>17, Zenon DEF GoesOn
  <2> QED
    BY <1>2, <1>3, <1>12, <2>18, GoesOnStep, Zenon DEF b
<1> QED
  BY <1>2, <1>9, <1>11, <1>12, Zenon

LEMMA FlushStep == ASSUME StreamInv, ~ofClient, NEW n \in Nat, NEW err, Flush(n, err) PROVE StreamInv'
<1> DEFINE b == fBytesSentInBuffer
           U == Unsent
           g == AfterSend(fOut, n, Len(U))
<1>1. Growing(fOut) /\ b \in 0 .. Len(fOut.text) /\ next \in Nat /\ sent \in Seq(Int) /\ fOut.written \in Nat
      /\ mixed \in BOOLEAN /\ fSendTail = <<>>
  <2>1. next \in Nat \ {0}
    BY Zenon DEF StreamInv, StreamTypeOK
  <2> QED
    BY <2>1, GrowingFields, Zenon DEF StreamInv, StreamTypeOK
<1>2. U = Behind(fOut.text, b)
  BY UnsentIsBehind, Zenon
<1>3. U \in Seq(Int) /\ Len(U) \in Nat
  <2>1. Behind(fOut.text, b) \in Seq(Int)
    BY <1>1, GrowingFields, BehindSeq, Zenon
  <2> QED
    BY <1>2, <2>1, LenProperties
<1>4. /\ U # <<>> /\ SocketWriteV(U, n, err) /\ next' = next
      /\ ofClient' = ofClient /\ fSendTail' = fSendTail /\ mixed' = mixed
      /\ IF n = Len(U) THEN fOut' = Reset(fOut, 0) /\ b' = 0 ELSE b' = b + n /\ fOut' = fOut
  BY Zenon DEF Flush, clientVars
<1>5. n <= Len(U) /\ sent' = sent \o SubSeq(U, 1, n)
  BY <1>4, Zenon DEF SocketWriteV
<1>6. Data(next, 0) = <<>> /\ U \o Data(next, 0) = U
  <2>1. Data(next, 0) = <<>>
    BY DEF Data
  <2>2. U \o <<>> = U
    <3> HIDE DEF U
    <3> QED
      BY <1>3, ConcatEmptySeq
  <2> QED
    BY <2>1, <2>2, Zenon
<1> HIDE DEF b, U
<1>7. Len(U) > 0
  BY <1>3, <1>4, EmptySeq
<1>8. fOut' = g /\ b' = SentTo(b, n, Len(U)) /\ SentOfVectors(n, Len(U)) = 0
  <2>1. CASE n = Len(U)
    <3>1. ~(n < Len(U)) /\ n - Len(U) = 0
      BY <1>3, <2>1
    <3>2. b \in Nat
      BY <1>1
    <3> QED
      BY <1>3, <1>4, <1>7, <2>1, <3>1, <3>2, SendCounts, Zenon
  <2>2. CASE n # Len(U)
    <3>1. n < Len(U)
      BY <1>3, <1>5, <2>2
    <3>2. b \in Nat
      BY <1>1
    <3> QED
      BY <1>3, <1>4, <2>2, <3>1, <3>2, SendCounts, Zenon
  <2> QED
    BY <2>1, <2>2
<1> HIDE DEF g
<1>9. Keeps(fOut, sent, next, 0, n, U, 0, g, b', sent')
  <2>1. 0 \in Nat
    OBVIOUS
  <2>2. Sends(fOut, b, sent, next, 0, n, U, 0, g, b', sent')
    BY <1>2, <1>5, <1>6, <1>8, Zenon DEF Sends, g
  <2> QED
    BY <1>1, <2>1, <2>2, SendKeeps, Zenon
<1>10. GoesOn(sent, fOut, b, sent', fOut', b', next, 0)
  <2>1. 0 \in Nat /\ fOut.written + 0 = fOut.written
    BY <1>1
  <2> QED
    BY <1>2, <1>8, <1>9, <2>1, Zenon DEF GoesOn, Keeps
<1>11. next' = next + 0 /\ 0 \in Nat
  BY <1>1, <1>4
<1>12. Written
  BY <1>1, <1>4, Zenon DEF Written
<1> QED
  BY <1>10, <1>11, <1>12, GoesOnStep, Zenon DEF b

\* What the client's socket is to send next, and what is left in the buffer then.
ClientMessage == IF fSendTail = <<>> THEN Portion ELSE fSendTail
Later == Behind(Unsent, Len(Portion))

LEMMA PortionSeq ==
    ASSUME StreamInv
    PROVE  /\ Unsent \in Seq(Int) /\ Portion \in Seq(Int) /\ Len(Portion) \in 0 .. Len(Unsent)
           /\ Len(Unsent) = Len(fOut.text) - fBytesSentInBuffer /\ Portion \o Later = Unsent /\ Later \in Seq(Int)
           /\ Portion = SubSeq(Unsent, 1, Len(Portion))
<1> DEFINE U == Unsent
           M == CF_MAX_RESPONSE_BUFFER_SIZE
           m == IF Len(U) < M THEN Len(U) ELSE M
<1>1. U \in Seq(Int) /\ Len(U) = Len(fOut.text) - fBytesSentInBuffer
  <2>1. fBytesSentInBuffer \in 0 .. Len(fOut.text) /\ fOut.text \in Seq(Int)
    BY GrowingFields, Zenon DEF StreamInv, StreamTypeOK
  <2> QED
    BY <2>1, UnsentIsBehind, BehindSeq
<1>2. Portion = SubSeq(U, 1, m)
  BY Zenon DEF Portion
<1> HIDE DEF U
<1>3. Len(U) \in Nat /\ M \in Nat
  BY <1>1, LenProperties, StreamAssumption
<1>4. m \in 0 .. Len(U)
  BY <1>3
<1> HIDE DEF m
<1>5. Portion \in Seq(Int) /\ Len(Portion) = m
  BY <1>1, <1>2, <1>4, FrontSeq
<1>6. Later = Behind(U, m) /\ Later \in Seq(Int)
  BY <1>1, <1>4, <1>5, BehindSeq DEF Later, U
<1>7. SubSeq(U, 1, m) \o Behind(U, m) = U
  BY <1>1, <1>4, CutJoins
<1> QED
  BY <1>1, <1>2, <1>4, <1>5, <1>6, <1>7, Zenon DEF U

\* The order of the stream as a flush of a client sees it.
LEMMA ClientOrder ==
    ASSUME StreamInv
    PROVE  StreamInOrder <=> (~mixed => (sent \o ClientMessage) \o Later = Data(1, next - 1) /\ fOut.written = next - 1)
<1>1. sent \in Seq(Int) /\ Portion \in Seq(Int) /\ Later \in Seq(Int) /\ Portion \o Later = Unsent
  BY PortionSeq, Zenon DEF StreamInv, StreamTypeOK
<1>2. CASE fSendTail = <<>>
  <2>1. ClientMessage = Portion
    BY <1>2, Zenon DEF ClientMessage
  <2>2. (sent \o Portion) \o Later = sent \o Unsent
    <3>1. (sent \o Portion) \o Later = sent \o (Portion \o Later)
      BY <1>1, JoinsAssociate, Zenon
    <3> QED
      BY <1>1, <3>1, Zenon
  <2>3. sent \o <<>> = sent
    BY <1>1, ConcatEmptySeq
  <2> QED
    BY <1>2, <2>1, <2>2, <2>3, Zenon DEF StreamInOrder
<1>3. CASE fSendTail # <<>>
  BY <1>3, Zenon DEF StreamInOrder, ClientMessage, Later, Behind
<1> QED
  BY <1>2, <1>3

LEMMA ClientFlushStep == ASSUME StreamInv, ofClient, NEW n \in Nat, NEW err, ClientFlush(n, err) PROVE StreamInv'
<1> DEFINE b == fBytesSentInBuffer
           M == ClientMessage
           F == SubSeq(M, 1, n)
           G == Behind(M, n)
<1>1. Growing(fOut) /\ b \in 0 .. Len(fOut.text) /\ next \in Nat \ {0} /\ sent \in Seq(Int)
      /\ fSendTail \in Seq(Int) /\ mixed \in BOOLEAN /\ fOut.text \in Seq(Int) /\ fOut.written \in Nat
  BY GrowingFields, Zenon DEF StreamInv, StreamTypeOK
<1>2. /\ n <= Len(M) /\ (err = "CF_NoErr" <=> n = Len(M))
      /\ sent' = sent \o F /\ fSendTail' = G
      /\ IF err # "CF_NoErr" THEN fOut' = fOut /\ b' = b
         ELSE IF Portion = Unsent THEN fOut' = Reset(fOut, 0) /\ b' = 0
         ELSE b' = b + Len(Portion) /\ fOut' = fOut
      /\ next' = next /\ ofClient' = ofClient /\ mixed' = mixed
  BY Zenon DEF ClientFlush, ClientSend, ClientMessage, Behind
<1>3. M \in Seq(Int) /\ Len(M) \in Nat
  <2>1. M \in Seq(Int)
    BY <1>1, PortionSeq, Zenon DEF ClientMessage
  <2> HIDE DEF M
  <2> QED
    BY <2>1, LenProperties
<1> HIDE DEF M
<1>4. F \in Seq(Int) /\ G \in Seq(Int) /\ F \o G = M /\ Len(G) = Len(M) - n
  <2>1. n \in 0 .. Len(M)
    BY <1>2, <1>3
  <2> QED
    BY <1>3, <2>1, FrontSeq, BehindSeq, CutJoins
<1> HIDE DEF F, G
<1>5. sent' \in Seq(Int)
  BY <1>1, <1>2, <1>4, ConcatProperties
<1>6. sent' \o fSendTail' = sent \o M
  <2>1. (sent \o F) \o G = sent \o (F \o G)
    BY <1>1, <1>4, JoinsAssociate, Zenon
  <2> QED
    BY <1>2, <1>4, <2>1, Zenon
<1>7. ~mixed => (sent \o M) \o Later = Data(1, next - 1) /\ fOut.written = next - 1
  BY ClientOrder, Zenon DEF StreamInv, M
<1>8. /\ Unsent \in Seq(Int) /\ Portion \in Seq(Int) /\ Len(Portion) \in 0 .. Len(Unsent) /\ Later \in Seq(Int)
      /\ Len(Unsent) = Len(fOut.text) - b /\ Portion = SubSeq(Unsent, 1, Len(Portion)) /\ Portion \o Later = Unsent
  BY PortionSeq, Zenon
<1>9. CASE err # "CF_NoErr"
  <2>1. fOut' = fOut /\ b' = b /\ n # Len(M)
    BY <1>2, <1>9, Zenon
  <2>2. fSendTail' # <<>>
    <3>1. Len(G) # 0 /\ Len(<<>>) = 0
      BY <1>2, <1>3, <1>4, <2>1
    <3> QED
      BY <1>2, <3>1, Zenon
  <2>3. Unsent' = Unsent /\ Portion' = Portion
    BY <2>1, Zenon DEF Unsent, Portion
  <2>4. StreamTypeOK'
    BY <1>1, <1>2, <1>4, <1>5, <2>1, Zenon DEF StreamTypeOK
  <2>5. StreamInOrder'
    BY <1>2, <1>6, <1>7, <2>1, <2>2, <2>3, Zenon DEF StreamInOrder, Later, Behind
  <2> QED
    BY <2>4, <2>5, Zenon DEF StreamInv
<1>10. CASE err = "CF_NoErr"
  <2>1. n = Len(M)
    BY <1>2, <1>10, Zenon
  <2>2. fSendTail' = <<>>
    <3>1. Len(G) = 0
      BY <1>3, <1>4, <2>1
    <3> QED
      BY <1>2, <1>4, <3>1, EmptySeq
  <2>3. Growing(fOut') /\ b' \in 0 .. Len(fOut'.text) /\ Behind(fOut'.text, b') = Later /\ fOut'.written = fOut.written
    <3>1. CASE Portion = Unsent
      <4>1. fOut' = Reset(fOut, 0) /\ b' = 0
        BY <1>2, <1>10, <3>1, Zenon
      <4>2. Growing(fOut') /\ fOut'.text = <<>> /\ fOut'.written = fOut.written /\ Len(<<>>) = 0
        BY <1>1, <4>1, ResetGrows
      <4>3. Behind(<<>>, 0) = <<>>
        BY SubSeqEmpty DEF Behind
      <4>4. Later = <<>>
        <5>1. Len(Unsent) \in Nat
          BY <1>8, LenProperties
        <5> QED
          BY <3>1, <5>1, SubSeqEmpty DEF Later, Behind
      <4> QED
        BY <4>1, <4>2, <4>3, <4>4
    <3>2. CASE Portion # Unsent
      <4>1. fOut' = fOut /\ b' = b + Len(Portion)
        BY <1>2, <1>10, <3>2, Zenon
      <4> DEFINE m == Len(Portion)
      <4>2. m \in 0 .. Len(fOut.text) - b /\ b + m \in 0 .. Len(fOut.text)
        <5>1. Len(fOut.text) \in Nat
          BY <1>1, LenProperties
        <5> QED
          BY <1>1, <1>8, <5>1
      <4>3. Later = Behind(Behind(fOut.text, b), m)
        BY UnsentIsBehind, Zenon DEF Later
      <4> HIDE DEF m, b
      <4>4. Behind(Behind(fOut.text, b), m) = Behind(fOut.text, b + m)
        BY <1>1, <4>2, BehindBehind
      <4> QED
        BY <1>1, <4>1, <4>2, <4>3, <4>4, Zenon DEF m
    <3> QED
      BY <3>1, <3>2
  <2>4. StreamTypeOK'
    BY <1>1, <1>2, <1>4, <1>5, <2>3, Zenon DEF StreamTypeOK
  <2>5. Unsent' = Later
    BY <2>3, Zenon DEF Unsent, Behind, GetCurrentOffset
  <2>6. StreamInOrder'
    BY <1>2, <1>6, <1>7, <2>2, <2>3, <2>5, Zenon DEF StreamInOrder
  <2> QED
    BY <2>4, <2>6, Zenon DEF StreamInv
<1> QED
  BY <1>9, <1>10

LEMMA StreamInvInit == StreamInit => StreamInv
<1> SUFFICES ASSUME StreamInit PROVE StreamInv
  OBVIOUS
<1>1. fOut = Formatter(kOutputBufferSizeInBytes, TRUE) /\ fBytesSentInBuffer = 0 /\ next = 1 /\ sent = <<>>
      /\ ofClient \in BOOLEAN /\ fSendTail = <<>> /\ mixed = FALSE
  BY Zenon DEF StreamInit
<1>2. Growing(fOut) /\ fOut.text = <<>> /\ fOut.written = 0
  BY <1>1, NewFormatterGrows, Zenon
<1>3. <<>> \in Seq(Int) /\ Len(<<>>) = 0 /\ 0 \in 0 .. 0 /\ 1 \in Nat \ {0} /\ 1 - 1 = 0
  OBVIOUS
<1>4. StreamTypeOK
  BY <1>1, <1>2, <1>3, Zenon DEF StreamTypeOK
<1>5. Behind(<<>>, 0) = <<>> /\ <<>> \o <<>> = <<>> /\ Data(1, 0) = <<>>
  <2>1. Behind(<<>>, 0) = <<>>
    BY SubSeqEmpty DEF Behind
  <2>2. <<>> \o <<>> = <<>>
    BY <1>3, ConcatEmptySeq
  <2>3. Data(1, 0) = <<>>
    BY DEF Data
  <2> QED
    BY <2>1, <2>2, <2>3
<1>6. InOrder(sent, fOut, fBytesSentInBuffer, next)
  BY <1>1, <1>2, <1>3, <1>5, Zenon DEF InOrder
<1>7. StreamInOrder
  BY <1>1, <1>3, <1>6, PlainOrder, Zenon
<1> QED
  BY <1>4, <1>7, Zenon DEF StreamInv

LEMMA StreamStep == StreamInv /\ [StreamNext]_rsVars => StreamInv'
<1> SUFFICES ASSUME StreamInv, [StreamNext]_rsVars PROVE StreamInv'
  OBVIOUS
<1>1. next \in Nat
  BY DEF StreamInv, StreamTypeOK
<1>2. \A k \in VecSizes : k \in Nat
  BY StreamAssumption
<1>3. \A n \in 0 .. Length : n \in Nat
  BY StreamAssumption
<1>4. \A k \in VecSizes : CanPut(next, <<k>>)
  BY <1>1, <1>2, OneCanPut, Zenon
<1>5. \A k, l \in VecSizes : CanPut(next, <<k, l>>)
  BY <1>1, <1>2, TwoCanPut, Zenon
<1>6. ASSUME NEW k \in VecSizes, PutBytes(k) PROVE StreamInv'
  BY <1>2, <1>6, PutStep, Zenon
<1>7. ASSUME NEW n \in Nat, NEW err, NEW type, NEW k \in VecSizes, NEW l \in VecSizes, WriteV(<<k, l>>, type, n, err)
      PROVE  StreamInv'
  BY <1>5, <1>7, WriteVStep, Zenon
<1>8. ASSUME NEW n \in Nat, NEW err, ~ofClient, ServerStep(n, err) PROVE StreamInv'
  <2>1. CASE Flush(n, err)
    BY <1>8, <2>1, FlushStep, Zenon
  <2>2. ASSUME NEW k \in VecSizes, NEW flag, SessionWrite(k, flag, n, err) PROVE StreamInv'
    <3>1. PICK type : WriteV(<<k>>, type, n, err)
      BY <2>2, Zenon DEF SessionWrite
    <3> QED
      BY <1>4, <3>1, WriteVStep, Zenon
  <2>3. ASSUME NEW k \in VecSizes, NEW l \in VecSizes, SessionWriteV(<<k, l>>, n, err) PROVE StreamInv'
    BY <1>7, <2>3, Zenon DEF SessionWriteV
  <2> QED
    BY <1>7, <1>8, <2>1, <2>2, <2>3, Zenon DEF ServerStep
<1>9. ASSUME NEW n \in Nat, NEW err, ofClient, ClientStep(n, err) PROVE StreamInv'
  <2>1. CASE ClientFlush(n, err)
    BY <1>9, <2>1, ClientFlushStep, Zenon
  <2> QED
    BY <1>7, <1>9, <2>1, Zenon DEF ClientStep, ClientWriteV
<1>10. CASE UNCHANGED rsVars
  <2>1. /\ fOut' = fOut /\ fBytesSentInBuffer' = fBytesSentInBuffer /\ next' = next /\ sent' = sent
        /\ ofClient' = ofClient /\ fSendTail' = fSendTail /\ mixed' = mixed
    BY <1>10, Zenon DEF rsVars, clientVars
  <2>2. StreamTypeOK'
    BY <2>1, Zenon DEF StreamInv, StreamTypeOK
  <2>3. StreamInOrder'
    BY <2>1, Zenon DEF StreamInv, StreamInOrder, Unsent, Portion
  <2> QED
    BY <2>2, <2>3, Zenon DEF StreamInv
<1> QED
  BY <1>3, <1>6, <1>8, <1>9, <1>10, Zenon DEF StreamNext

\* For any sizes of the buffer and of the vectors, whatever send() takes: what the
\* caller wrote reaches the connection once and in order (Put(), WriteV(), Flush()).
THEOREM StreamStaysInOrder == StreamSpec => []StreamInOrder
<1>1. StreamInv => StreamInOrder
  BY Zenon DEF StreamInv
<1> QED
  BY <1>1, StreamInvInit, StreamStep, PTL DEF StreamSpec

----------------------------------------------------------------------------
(* ClientSocket: the stream of messages *)

\* Induction on numbers, for a set.
LEMMA AllReached ==
    ASSUME NEW S, 0 \in S, \A k \in Nat : k \in S => k + 1 \in S
    PROVE  \A k \in Nat : k \in S
<1> DEFINE T == {k \in Nat : k \notin S}
<1> SUFFICES ASSUME T # {} PROVE FALSE
  OBVIOUS
<1>1. PICK k \in T : \A j \in T : k <= j
  <2>1. T \in SUBSET Nat
    OBVIOUS
  <2> HIDE DEF T
  <2> QED
    BY <2>1, SmallestExists
<1>2. k \in Nat /\ k # 0
  BY <1>1
<1>3. k - 1 \in Nat /\ k - 1 \notin T /\ (k - 1) + 1 = k
  BY <1>1, <1>2
<1> QED
  BY <1>1, <1>3

\* The recursion of FlattenSeq over the first n of the sequences e.
Flat(f, e, n) == f = [i \in 1 .. n |-> IF i = 1 THEN e[i] ELSE f[i - 1] \o e[i]]

LEMMA FlatAt ==
    ASSUME NEW f, NEW e, NEW n \in Nat, Flat(f, e, n)
    PROVE  /\ 1 <= n => f[1] = e[1]
           /\ \A i \in 1 .. n : i # 1 => f[i] = f[i - 1] \o e[i]
<1>1. \A i \in 1 .. n : f[i] = IF i = 1 THEN e[i] ELSE f[i - 1] \o e[i]
  BY Zenon DEF Flat
<1>2. 1 <= n => 1 \in 1 .. n
  OBVIOUS
<1>3. 1 <= n => f[1] = e[1]
  BY <1>1, <1>2, Zenon
<1> QED
  BY <1>1, <1>3, Zenon

LEMMA FlatExists == ASSUME NEW e PROVE \A n \in Nat : \E f : Flat(f, e, n)
<1> DEFINE S == {n \in Nat : \E f : Flat(f, e, n)}
<1>1. 0 \in S
  <2>1. Flat([i \in 1 .. 0 |-> 0], e, 0)
    BY DEF Flat
  <2> QED
    BY <2>1
<1>2. ASSUME NEW n \in Nat, n \in S PROVE n + 1 \in S
  <2>1. PICK f : Flat(f, e, n)
    BY <1>2
  <2> DEFINE x == IF n = 0 THEN e[1] ELSE f[n] \o e[n + 1]
             g == [i \in 1 .. n + 1 |-> IF i = n + 1 THEN x ELSE f[i]]
  <2>2. \A i \in 1 .. n + 1 : g[i] = IF i = 1 THEN e[i] ELSE g[i - 1] \o e[i]
    <3> TAKE i \in 1 .. n + 1
    <3>1. CASE i = n + 1 /\ n = 0
      BY <3>1
    <3>2. CASE i = n + 1 /\ n # 0
      <4>1. i # 1 /\ i - 1 = n /\ n \in 1 .. n + 1 /\ n # n + 1
        BY <3>2
      <4> QED
        BY <3>2, <4>1
    <3>3. CASE i # n + 1
      <4>1. i \in 1 .. n /\ g[i] = f[i]
        BY <3>3
      <4>2. CASE i = 1
        <5>1. 1 <= n
          BY <4>1, <4>2
        <5>2. f[1] = e[1]
          BY <2>1, <5>1, FlatAt, Zenon
        <5> HIDE DEF g
        <5> QED
          BY <4>1, <4>2, <5>2, Zenon
      <4>3. CASE i # 1
        <5>1. i - 1 \in 1 .. n + 1 /\ i - 1 # n + 1
          BY <4>1, <4>3
        <5>2. g[i - 1] = f[i - 1]
          BY <5>1
        <5>3. f[i] = f[i - 1] \o e[i]
          BY <2>1, <4>1, <4>3, FlatAt
        <5> HIDE DEF g
        <5> QED
          BY <4>1, <4>3, <5>2, <5>3
      <4> QED
        BY <4>2, <4>3
    <3> QED
      BY <3>1, <3>2, <3>3
  <2>3. g = [i \in 1 .. n + 1 |-> g[i]]
    BY Zenon
  <2> HIDE DEF g
  <2>4. Flat(g, e, n + 1)
    BY <2>2, <2>3, Zenon DEF Flat
  <2> QED
    BY <2>4
<1> HIDE DEF S
<1>3. \A n \in Nat : n \in S
  BY <1>1, <1>2, AllReached
<1> QED
  BY <1>3 DEF S

\* Two of them agree where both go.
LEMMA FlatAgree ==
    ASSUME NEW e, NEW f, NEW g, NEW n \in Nat, Flat(f, e, n), Flat(g, e, n + 1)
    PROVE  \A i \in 1 .. n : f[i] = g[i]
<1> DEFINE S == {i \in Nat : i \in 1 .. n => f[i] = g[i]}
<1>1. 0 \in S
  OBVIOUS
<1>2. ASSUME NEW k \in Nat, k \in S PROVE k + 1 \in S
  <2> SUFFICES ASSUME k + 1 \in 1 .. n PROVE f[k + 1] = g[k + 1]
    OBVIOUS
  <2>0. n + 1 \in Nat /\ 1 <= n /\ 1 <= n + 1
    OBVIOUS
  <2>1. CASE k = 0
    <3>1. f[1] = e[1]
      BY <2>0, FlatAt
    <3>2. g[1] = e[1]
      BY <2>0, FlatAt
    <3> QED
      BY <2>1, <3>1, <3>2
  <2>2. CASE k # 0
    <3>1. k \in 1 .. n /\ k + 1 # 1 /\ (k + 1) - 1 = k /\ k + 1 \in 1 .. n + 1
      BY <2>2
    <3>2. f[k] = g[k]
      BY <1>2, <3>1
    <3>3. f[k + 1] = f[(k + 1) - 1] \o e[k + 1]
      BY <3>1, FlatAt
    <3>4. g[k + 1] = g[(k + 1) - 1] \o e[k + 1]
      BY <2>0, <3>1, FlatAt
    <3> QED
      BY <3>1, <3>2, <3>3, <3>4
  <2> QED
    BY <2>1, <2>2
<1> HIDE DEF S
<1>3. \A i \in Nat : i \in S
  BY <1>1, <1>2, AllReached
<1> QED
  BY <1>3 DEF S

LEMMA FlatSeq ==
    ASSUME NEW e, NEW f, NEW n \in Nat, Flat(f, e, n), \A i \in 1 .. n : e[i] \in Seq(Int)
    PROVE  \A i \in 1 .. n : f[i] \in Seq(Int)
<1> DEFINE S == {i \in Nat : i \in 1 .. n => f[i] \in Seq(Int)}
<1>1. 0 \in S
  OBVIOUS
<1>2. ASSUME NEW k \in Nat, k \in S PROVE k + 1 \in S
  <2> SUFFICES ASSUME k + 1 \in 1 .. n PROVE f[k + 1] \in Seq(Int)
    OBVIOUS
  <2>1. CASE k = 0
    <3>0. 1 <= n
      OBVIOUS
    <3>1. f[1] = e[1]
      BY <3>0, FlatAt, Zenon
    <3> QED
      BY <2>1, <3>1
  <2>2. CASE k # 0
    <3>1. k \in 1 .. n /\ k + 1 # 1 /\ (k + 1) - 1 = k
      BY <2>2
    <3>2. f[k] \in Seq(Int) /\ e[k + 1] \in Seq(Int)
      BY <1>2, <3>1
    <3>3. f[k + 1] = f[(k + 1) - 1] \o e[k + 1]
      BY <3>1, FlatAt, Zenon
    <3>4. f[k + 1] = f[k] \o e[k + 1]
      BY <3>1, <3>3
    <3> QED
      BY <3>2, <3>4, ConcatProperties
  <2> QED
    BY <2>1, <2>2
<1> HIDE DEF S
<1>3. \A i \in Nat : i \in S
  BY <1>1, <1>2, AllReached
<1> QED
  BY <1>3 DEF S

\* encodeVec() of a socket of kind kd, and the first n messages as they are sent.
EncVec(kd, k) == IF kd = "tcp" THEN Message(k) ELSE Base64encode(Message(k))
Messages(kd, n) == FlattenSeq([k \in 1 .. n |-> EncVec(kd, k)])
Posted(kd, n) == IF kd = "http" /\ n > 0 THEN PostRequest \o Messages(kd, n) ELSE Messages(kd, n)

LEMMA EncVecSeq ==
    ASSUME NEW kd, NEW k \in Nat
    PROVE  EncVec(kd, k) \in Seq(Int) /\ EncVec(kd, k) # <<>>
<1> DEFINE m == <<k, k>>
           e == EncodeGroup(m)
<1>1. m \in Seq(Int) /\ m # <<>>
  OBVIOUS
<1>2. Len(m) = 2 /\ SubSeq(m, 1, 2) = m /\ m[1] = k /\ m[2] = k
  BY TwoFronts, Zenon
<1> HIDE DEF m
<1>3. Group(m, 1, 3) = m
  <2>1. 3 * 1 - 3 + 1 = 1 /\ ~(3 * 1 < 2)
    OBVIOUS
  <2> QED
    BY <1>2, <2>1, Zenon DEF Group
<1>4. (Len(m) + 2) \div 3 = 1
  BY <1>2
<1>5. [g \in 1 .. 1 |-> EncodeGroup(Group(m, g, 3))] = <<e>>
  <2>1. 1 .. 1 = {1}
    OBVIOUS
  <2>2. [g \in {1} |-> EncodeGroup(Group(m, g, 3))] = [g \in {1} |-> e]
    BY <1>3
  <2> HIDE DEF e
  <2>3. [g \in {1} |-> e] = <<e>>
    OBVIOUS
  <2> QED
    BY <2>1, <2>2, <2>3, Zenon
<1>6. Base64encode(m) = e
  BY <1>4, <1>5, FlattenOne, Zenon DEF Base64encode
<1>7. e \in Seq(Int) /\ e # <<>>
  <2> DEFINE b == k \div 4
             c == (k % 4) * 16 + k \div 16
             d == (k % 16) * 4 + 0 \div 64
  <2>1. e = <<b, c>> \o <<d>> \o <<Pad>>
    <3>1. 1 <= 2 /\ 2 <= 2 /\ ~(3 <= 2) /\ 2 # 1 /\ 2 < 3
      OBVIOUS
    <3> QED
      BY <1>2, <3>1, Zenon DEF EncodeGroup
  <2>2. b \in Int /\ c \in Int /\ d \in Int /\ Pad \in Int
    BY DEF Pad
  <2> HIDE DEF b, c, d
  <2>3. <<b, c>> \in Seq(Int) /\ <<d>> \in Seq(Int) /\ <<Pad>> \in Seq(Int) /\ Len(<<b, c>>) = 2
    BY <2>2
  <2>4. <<b, c>> \o <<d>> \in Seq(Int) /\ Len(<<b, c>> \o <<d>>) = 2 + Len(<<d>>)
    BY <2>3, ConcatProperties
  <2> DEFINE w == <<b, c>> \o <<d>>
  <2>5. w \in Seq(Int) /\ Len(w) > 0
    BY <2>3, <2>4, LenProperties
  <2> HIDE DEF w
  <2>6. w \o <<Pad>> \in Seq(Int) /\ w \o <<Pad>> # <<>>
    BY <2>3, <2>5, ConcatProperties, ConcatEqualIffEmpty
  <2> QED
    BY <2>1, <2>6, Zenon DEF w
<1> QED
  BY <1>1, <1>6, <1>7, Zenon DEF EncVec, Message, m

LEMMA MessagesNone == ASSUME NEW kd PROVE Messages(kd, 0) = <<>>
<1>1. [k \in 1 .. 0 |-> EncVec(kd, k)] = <<>>
  OBVIOUS
<1> QED
  BY <1>1, FlattenNone, Zenon DEF Messages

LEMMA MessagesFlat ==
    ASSUME NEW kd, NEW n \in Nat, n # 0, NEW e, e = [i \in Nat |-> EncVec(kd, i)]
    PROVE  Messages(kd, n) = (CHOOSE f : Flat(f, e, n))[n]
<1> DEFINE s == [k \in 1 .. n |-> EncVec(kd, k)]
<1>1. s \in Seq(Seq(Int)) /\ Len(s) = n
  <2>1. \A k \in 1 .. n : EncVec(kd, k) \in Seq(Int)
    BY EncVecSeq
  <2>2. s \in [1 .. n -> Seq(Int)]
    BY <2>1
  <2>3. s \in Seq(Seq(Int))
    BY <2>2, SeqDef
  <2>4. DOMAIN s = 1 .. n
    OBVIOUS
  <2> HIDE DEF s
  <2> QED
    BY <2>2, <2>3, <2>4, LenProperties
<1>2. \A i \in 1 .. n : s[i] = e[i]
  OBVIOUS
<1> HIDE DEF s
<1>3. \A f : Flattens(f, s) <=> Flat(f, e, n)
  <2> TAKE f
  <2>1. [i \in 1 .. n |-> IF i = 1 THEN s[i] ELSE f[i - 1] \o s[i]]
            = [i \in 1 .. n |-> IF i = 1 THEN e[i] ELSE f[i - 1] \o e[i]]
    BY <1>2, Zenon
  <2> QED
    BY <1>1, <2>1, Zenon DEF Flattens, Flat
<1>4. (CHOOSE f : Flattens(f, s)) = (CHOOSE f : Flat(f, e, n))
  BY <1>3, Zenon
<1>5. FlattenSeq(s) = (CHOOSE f : Flattens(f, s))[n]
  <2>1. Len(s) # 0
    BY <1>1
  <2> QED
    BY <1>1, <2>1, FlattenUnfolds, Zenon
<1> QED
  BY <1>4, <1>5, Zenon DEF Messages, s

LEMMA MessagesGrow ==
    ASSUME NEW kd, NEW n \in Nat
    PROVE  /\ Messages(kd, n) \in Seq(Int)
           /\ Messages(kd, n + 1) = Messages(kd, n) \o EncVec(kd, n + 1)
<1> DEFINE e == [i \in Nat |-> EncVec(kd, i)]
           f == CHOOSE h : Flat(h, e, n)
           g == CHOOSE h : Flat(h, e, n + 1)
<1>1. n + 1 \in Nat /\ n + 1 # 0
  OBVIOUS
<1>2. e[n + 1] = EncVec(kd, n + 1) /\ e[1] = EncVec(kd, 1)
  BY <1>1
<1>3. \A i \in 1 .. n + 1 : e[i] \in Seq(Int)
  BY EncVecSeq
<1>4. Messages(kd, n + 1) = g[n + 1]
  BY <1>1, MessagesFlat, Zenon
<1>5. n # 0 => Messages(kd, n) = f[n]
  BY MessagesFlat, Zenon
<1> HIDE DEF e
<1>6. Flat(f, e, n) /\ Flat(g, e, n + 1)
  BY <1>1, FlatExists, Zenon
<1> HIDE DEF f, g
<1>7. CASE n = 0
  <2>1. Messages(kd, n) = <<>> /\ <<>> \in Seq(Int)
    BY <1>7, MessagesNone
  <2>2. g[1] = e[1]
    <3>1. 1 <= n + 1
      BY <1>7
    <3> QED
      BY <1>1, <1>6, <3>1, FlatAt, Zenon
  <2>3. n + 1 = 1
    BY <1>7
  <2>4. Messages(kd, n + 1) = EncVec(kd, n + 1)
    BY <1>2, <1>4, <2>2, <2>3
  <2>5. <<>> \o EncVec(kd, n + 1) = EncVec(kd, n + 1)
    BY <1>1, EncVecSeq, ConcatEmptySeq
  <2> QED
    BY <2>1, <2>4, <2>5
<1>8. CASE n # 0
  <2>1. n \in 1 .. n /\ n + 1 \in 1 .. n + 1 /\ n + 1 # 1 /\ (n + 1) - 1 = n
    BY <1>8
  <2>2. g[n + 1] = g[(n + 1) - 1] \o e[n + 1]
    BY <1>1, <1>6, <2>1, FlatAt, Zenon
  <2>3. f[n] = g[n]
    <3>1. \A i \in 1 .. n : f[i] = g[i]
      BY <1>6, FlatAgree
    <3> QED
      BY <2>1, <3>1
  <2>4. \A i \in 1 .. n : e[i] \in Seq(Int)
    BY <1>3
  <2>5. f[n] \in Seq(Int)
    BY <1>6, <2>1, <2>4, FlatSeq, Zenon
  <2> QED
    BY <1>2, <1>4, <1>5, <1>8, <2>1, <2>2, <2>3, <2>5, Zenon
<1> QED
  BY <1>7, <1>8

\* What a new message adds to the stream.
LEMMA PostedGrows ==
    ASSUME NEW kd, NEW n \in Nat, kd \in {"tcp", "http"}
    PROVE  /\ Posted(kd, 0) = <<>>
           /\ Posted(kd, n + 1) = IF kd = "http" /\ n = 0 THEN PostRequest \o EncVec(kd, n + 1)
                                  ELSE Posted(kd, n) \o EncVec(kd, n + 1)
<1>1. Messages(kd, n) \in Seq(Int) /\ Messages(kd, n + 1) = Messages(kd, n) \o EncVec(kd, n + 1)
  BY MessagesGrow
<1>2. Posted(kd, 0) = <<>>
  BY MessagesNone DEF Posted
<1>3. n + 1 > 0 /\ n + 1 \in Nat
  OBVIOUS
<1>4. CASE kd = "tcp"
  <2>1. kd # "http"
    BY <1>4
  <2> QED
    BY <1>1, <1>2, <2>1, Zenon DEF Posted
<1>5. CASE kd = "http"
  <2>1. Posted(kd, n + 1) = PostRequest \o Messages(kd, n + 1)
    BY <1>3, <1>5, Zenon DEF Posted
  <2>2. CASE n = 0
    <3>1. Messages(kd, n) = <<>>
      BY <2>2, MessagesNone
    <3>2. <<>> \o EncVec(kd, n + 1) = EncVec(kd, n + 1)
      BY <1>3, EncVecSeq, ConcatEmptySeq
    <3> QED
      BY <1>1, <1>2, <1>5, <2>1, <2>2, <3>1, <3>2, Zenon
  <2>3. CASE n # 0
    <3>1. n > 0
      BY <2>3
    <3>2. Posted(kd, n) = PostRequest \o Messages(kd, n)
      BY <1>5, <3>1, Zenon DEF Posted
    <3>3. PostRequest \in Seq(Int)
      BY DEF PostRequest
    <3>4. EncVec(kd, n + 1) \in Seq(Int)
      BY <1>3, EncVecSeq
    <3>5. (PostRequest \o Messages(kd, n)) \o EncVec(kd, n + 1) = PostRequest \o (Messages(kd, n) \o EncVec(kd, n + 1))
      BY <1>1, <3>3, <3>4, JoinsAssociate, Zenon
    <3> QED
      BY <1>1, <1>2, <2>1, <2>3, <3>2, <3>5, Zenon
  <2> QED
    BY <2>2, <2>3
<1> QED
  BY <1>4, <1>5

WholeTypeOK ==
    /\ kind \in {"tcp", "http"} /\ pending \in {"none", "send", "read", "receiving", "failed"}
    /\ handed \in Nat /\ inbox \in Nat /\ fSentLength \in Nat /\ fGetReceived \in Int /\ outRcvLen \in Int
    /\ fSendBuffer \in Seq(Int) /\ wire \in [Names -> Seq(Int)]
    /\ reply \in Seq(Int) /\ delivered \in Seq(Int)

\* What is on the wire and in the send buffer, while nothing is being sent and while
\* a message is; the connection for the POST is begun by the first message.
SendSide ==
    /\ pending \in {"none", "read", "receiving"} => wire[Out] = Posted(kind, handed)
    /\ pending = "none" \/ (kind = "tcp" /\ pending \notin {"send", "failed"})
           => fSendBuffer = <<>> /\ fSentLength = 0
    /\ pending = "send" => /\ wire[Out] \o Behind(fSendBuffer, fSentLength) = Posted(kind, handed)
                           /\ fSendBuffer # <<>> /\ fSentLength \in 0 .. Len(fSendBuffer)
                           /\ handed > 0
    /\ kind = "http" /\ pending # "failed" => ("post" \in connected <=> handed > 0)

\* The length of the answer to the GET, and that it and all that was read behind it
\* were told apart.
HeadLength == IF kind = "tcp" THEN 0 ELSE ResponseHead
Answered == HeadLength <= inbox /\ delivered = SubSeq(reply, HeadLength + 1, inbox)

\* The GET is being sent or its answer received.
Asking == pending = "receiving" \/ (pending = "read" /\ (fSendBuffer # <<>> \/ fSentLength # 0))

ReadSide ==
    /\ inbox <= Len(reply)
    /\ kind = "tcp" => Answered /\ pending # "receiving"
    /\ kind = "http" =>
        /\ "get" \notin connected => inbox = 0 /\ delivered = <<>>
        /\ "get" \in connected /\ pending # "failed" /\ ~Asking => Answered
        /\ pending \in {"receiving", "read"} => "get" \in connected
        /\ Asking => delivered = <<>>
        /\ pending = "receiving" => fSendBuffer = <<>> /\ fSentLength # 0

WholeInv == WholeTypeOK /\ SendSide /\ ReadSide

LEMMA EncodeIsEncVec == \A k : encodeVec(k) = EncVec(kind, k)
  BY Zenon DEF encodeVec, EncVec

LEMMA WholeInvWhole == WholeInv => StreamsWhole
<1> SUFFICES ASSUME WholeInv PROVE StreamsWhole
  OBVIOUS
<1>1. FlattenSeq([k \in 1 .. handed |-> encodeVec(k)]) = Messages(kind, handed)
  BY EncodeIsEncVec, Zenon DEF Messages
<1>2. pending = "none" => wire[Out] = Posted(kind, handed)
  BY DEF WholeInv, SendSide
<1>3. pending = "send" => wire[Out] \o Behind(fSendBuffer, fSentLength) = Posted(kind, handed)
  BY Zenon DEF WholeInv, SendSide
<1>4. pending \in {"none", "send"} /\ inbox > 0 => delivered = SubSeq(reply, HeadLength + 1, inbox)
  <2> SUFFICES ASSUME pending \in {"none", "send"}, inbox > 0 PROVE Answered
    BY DEF Answered
  <2>1. ~Asking /\ pending # "failed" /\ inbox # 0
    BY DEF Asking, WholeInv, WholeTypeOK
  <2> QED
    BY <2>1, Zenon DEF WholeInv, WholeTypeOK, ReadSide
<1> QED
  BY <1>1, <1>2, <1>3, <1>4, Zenon DEF StreamsWhole, Posted, Behind, HeadLength

LEMMA WholeInvInit == ClientInit => WholeInv
<1> SUFFICES ASSUME ClientInit PROVE WholeInv
  OBVIOUS
<1>1. /\ kind \in {"tcp", "http"} /\ connected = {} /\ fSendBuffer = <<>> /\ fSentLength = 0
      /\ fGetReceived = 0 /\ outRcvLen = 0 /\ pending = "none" /\ handed = 0
      /\ wire = [s \in Names |-> <<>>] /\ reply = <<>> /\ inbox = 0 /\ delivered = <<>>
  BY DEF ClientInit
<1>2. <<>> \in Seq(Int) /\ Len(<<>>) = 0
  OBVIOUS
<1>3. WholeTypeOK
  BY <1>1, <1>2 DEF WholeTypeOK
<1>4. SendSide
  <2>1. Out \in Names /\ wire[Out] = <<>>
    BY <1>1 DEF Out, Names
  <2>2. Posted(kind, 0) = <<>>
    BY <1>1, PostedGrows
  <2>3. pending \notin {"send", "failed"} /\ pending # "send" /\ ~(0 > 0)
    BY <1>1
  <2> QED
    BY <1>1, <2>1, <2>2, <2>3, Zenon DEF SendSide
<1>5. ReadSide
  <2>1. kind = "tcp" => Answered
    <3>1. SubSeq(<<>>, 0 + 1, 0) = <<>>
      BY SubSeqEmpty
    <3> QED
      BY <1>1, <3>1 DEF Answered, HeadLength
  <2>2. ~Asking
    BY <1>1 DEF Asking
  <2>3. 0 <= 0 /\ pending # "receiving" /\ pending \notin {"receiving", "read"} /\ "get" \notin connected
    BY <1>1
  <2> QED
    BY <1>1, <1>2, <2>1, <2>2, <2>3, Zenon DEF ReadSide
<1> QED
  BY <1>3, <1>4, <1>5 DEF WholeInv

LEMMA ConnectFacts ==
    ASSUME NEW s, NEW err, Connect(s, err)
    PROVE  /\ connected' = connected \/ connected' = connected \cup {s}
           /\ err = "OS_NoErr" => s \in connected'
           /\ err # "OS_NoErr" => s \notin connected
           /\ err = "EINPROGRESS" => s \in connected'
<1>1. CASE s \in connected
  BY <1>1 DEF Connect
<1>2. CASE s \notin connected
  BY <1>2 DEF Connect
<1> QED
  BY <1>1, <1>2

\* What is read and the connections keep the streams whole as long as the caller's
\* side of the read does not move.
LEMMA SetLinkWhole ==
    ASSUME WholeInv, UNCHANGED <<kind, connected, fSendBuffer, fSentLength, fGetReceived, outRcvLen,
                                 pending, handed, wire, reply, inbox, delivered>>
    PROVE  WholeInv'
<1>1. /\ kind' = kind /\ connected' = connected /\ fSendBuffer' = fSendBuffer /\ fSentLength' = fSentLength
      /\ fGetReceived' = fGetReceived /\ outRcvLen' = outRcvLen /\ pending' = pending /\ handed' = handed
      /\ wire' = wire /\ reply' = reply /\ inbox' = inbox /\ delivered' = delivered
  OBVIOUS
<1>2. WholeTypeOK' = WholeTypeOK
  BY <1>1 DEF WholeTypeOK
<1>3. SendSide' = SendSide
  BY <1>1 DEF SendSide, Out
<1>4. ReadSide' = ReadSide
  BY <1>1 DEF ReadSide, Answered, Asking, HeadLength
<1> QED
  BY <1>2, <1>3, <1>4 DEF WholeInv

LEMMA FrontStays ==
    ASSUME NEW s \in Seq(Int), NEW t \in Seq(Int), NEW a \in Nat, NEW b \in Nat, b <= Len(s)
    PROVE  SubSeq(s \o t, a + 1, b) = SubSeq(s, a + 1, b)
  OBVIOUS

LEMMA ServerSendsWhole ==
    ASSUME WholeInv, NEW n \in Nat, ServerSends(n)
    PROVE  WholeInv'
<1> DEFINE t == [i \in 1 .. n |-> Len(reply) + i]
<1>1. /\ kind' = kind /\ connected' = connected /\ fSendBuffer' = fSendBuffer /\ fSentLength' = fSentLength
      /\ fGetReceived' = fGetReceived /\ outRcvLen' = outRcvLen /\ pending' = pending /\ handed' = handed
      /\ wire' = wire /\ inbox' = inbox /\ delivered' = delivered
  BY DEF ServerSends
<1>2. reply' = reply \o t
  BY DEF ServerSends
<1>3. reply \in Seq(Int) /\ inbox \in Nat /\ inbox <= Len(reply) /\ Len(reply) \in Nat
  BY DEF WholeInv, WholeTypeOK, ReadSide
<1>4. t \in Seq(Int) /\ Len(t) \in Nat
  <2>1. t \in [1 .. n -> Int]
    BY <1>3
  <2> HIDE DEF t
  <2> QED
    BY <2>1, SeqDef
<1> HIDE DEF t
<1>5. reply' \in Seq(Int) /\ inbox' <= Len(reply')
  BY <1>1, <1>2, <1>3, <1>4
<1>6. Answered' = Answered
  <2>1. HeadLength \in Nat /\ HeadLength' = HeadLength
    BY <1>1, ClientAssumption DEF HeadLength
  <2>2. SubSeq(reply \o t, HeadLength + 1, inbox) = SubSeq(reply, HeadLength + 1, inbox)
    BY <1>3, <1>4, <2>1, FrontStays
  <2> QED
    BY <1>1, <1>2, <2>1, <2>2 DEF Answered
<1>7. WholeTypeOK'
  BY <1>1, <1>5 DEF WholeInv, WholeTypeOK
<1>8. SendSide' = SendSide
  BY <1>1 DEF SendSide, Out
<1>9. ReadSide'
  BY <1>1, <1>5, <1>6 DEF WholeInv, ReadSide, Asking
<1> QED
  BY <1>7, <1>8, <1>9 DEF WholeInv

----------------------------------------------------------------------------

\* What a call of SendV has to send: the rest of the last message, or a new one, the
\* first of an HTTPClientSocket behind its POST.
SendK == IF pending = "send" THEN handed ELSE handed + 1
SendFirst == IF kind = "http" /\ "post" \notin connected THEN PostRequest \o encodeVec(SendK)
             ELSE IF kind = "tcp" /\ fSendBuffer = <<>> THEN encodeVec(SendK) ELSE fSendBuffer
ToSend == IF SendFirst = <<>> THEN encodeVec(SendK) ELSE SendFirst

LEMMA ToSendWhole ==
    ASSUME WholeInv, pending \in {"none", "send"}
    PROVE  /\ ToSend \in Seq(Int) /\ ToSend # <<>> /\ SendK \in Nat /\ SendK > 0
           /\ fSentLength \in 0 .. Len(ToSend)
           /\ wire[Out] \o Behind(ToSend, fSentLength) = Posted(kind, SendK)
           /\ Out \notin connected => SendFirst = ToSend
<1>0. /\ WholeTypeOK /\ SendSide
  BY DEF WholeInv
<1>1. handed \in Nat /\ kind \in {"tcp", "http"} /\ fSendBuffer \in Seq(Int) /\ fSentLength \in Nat
  BY <1>0 DEF WholeTypeOK
<1>2. SendK \in Nat /\ (pending = "none" => SendK = handed + 1) /\ (pending = "send" => SendK = handed)
  BY <1>1 DEF SendK
<1>3. encodeVec(SendK) = EncVec(kind, SendK) /\ encodeVec(SendK) \in Seq(Int) /\ encodeVec(SendK) # <<>>
  BY <1>2, EncVecSeq, EncodeIsEncVec
<1> DEFINE e == encodeVec(SendK)
           p == PostRequest \o e
<1>4. p \in Seq(Int) /\ p # <<>>
  <2>1. PostRequest \in Seq(Int)
    BY DEF PostRequest
  <2> HIDE DEF e
  <2>2. e \in Seq(Int) /\ e # <<>>
    BY <1>3 DEF e
  <2> QED
    BY <2>1, <2>2, ConcatProperties, ConcatEqualIffEmpty
<1>5. CASE pending = "send"
  <2>1. handed > 0 /\ fSendBuffer # <<>> /\ fSentLength \in 0 .. Len(fSendBuffer)
        /\ wire[Out] \o Behind(fSendBuffer, fSentLength) = Posted(kind, handed)
    BY <1>0, <1>5, Zenon DEF SendSide
  <2>2. kind = "http" => "post" \in connected
    <3>1. pending # "failed"
      BY <1>5
    <3> QED
      BY <1>0, <2>1, <3>1, Zenon DEF SendSide
  <2>3. SendFirst = fSendBuffer /\ ToSend = fSendBuffer
    BY <2>1, <2>2, Zenon DEF SendFirst, ToSend
  <2> QED
    BY <1>1, <1>2, <1>5, <2>1, <2>3, Zenon
<1>6. CASE pending = "none"
  <2>1. fSendBuffer = <<>> /\ fSentLength = 0 /\ wire[Out] = Posted(kind, handed)
        /\ (kind = "http" => ("post" \in connected <=> handed > 0))
    BY <1>0, <1>6 DEF SendSide
  <2>2. SendK > 0 /\ SendK = handed + 1
    BY <1>1, <1>2, <1>6
  <2>3. ASSUME ToSend \in Seq(Int) PROVE Behind(ToSend, 0) = ToSend /\ 0 \in 0 .. Len(ToSend)
    BY <2>3 DEF Behind
  <2>4. /\ Posted(kind, 0) = <<>>
        /\ Posted(kind, handed + 1) = IF kind = "http" /\ handed = 0 THEN PostRequest \o EncVec(kind, handed + 1)
                                      ELSE Posted(kind, handed) \o EncVec(kind, handed + 1)
    BY <1>1, PostedGrows
  <2>5. CASE kind = "http" /\ "post" \notin connected
    <3>1. SendFirst = p /\ ToSend = p
      BY <1>4, <2>5, Zenon DEF SendFirst, ToSend
    <3>2. handed = 0
      BY <1>1, <2>1, <2>5
    <3>3. <<>> \o p = p
      BY <1>4, ConcatEmptySeq
    <3>4. Posted(kind, SendK) = p
      BY <1>3, <2>2, <2>4, <2>5, <3>2, Zenon
    <3>5. wire[Out] = <<>>
      BY <2>1, <2>4, <3>2, Zenon
    <3>6. Behind(ToSend, fSentLength) = p /\ fSentLength \in 0 .. Len(ToSend) /\ ToSend \in Seq(Int)
      BY <1>4, <2>1, <2>3, <3>1, Zenon
    <3> QED
      BY <1>2, <1>4, <2>2, <3>1, <3>3, <3>4, <3>5, <3>6, Zenon
  <2>6. CASE ~(kind = "http" /\ "post" \notin connected)
    <3>1. ToSend = e
      BY <1>3, <2>1, <2>6, Zenon DEF SendFirst, ToSend
    <3>2. ~(kind = "http" /\ handed = 0)
      BY <2>1, <2>6
    <3>3. Posted(kind, SendK) = Posted(kind, handed) \o e
      BY <1>3, <2>2, <2>4, <3>2, Zenon
    <3>4. Behind(ToSend, fSentLength) = e /\ fSentLength \in 0 .. Len(ToSend) /\ ToSend \in Seq(Int)
      BY <1>3, <2>1, <2>3, <3>1, Zenon
    <3>5. Out \notin connected => SendFirst = ToSend
      <4> SUFFICES ASSUME Out \notin connected PROVE SendFirst = ToSend
        OBVIOUS
      <4>1. kind = "tcp"
        BY <1>1, <2>6 DEF Out
      <4>2. SendFirst = e
        BY <2>1, <2>6, <4>1, Zenon DEF SendFirst
      <4> QED
        BY <3>1, <4>2, Zenon
    <3> QED
      BY <1>2, <1>3, <2>1, <2>2, <3>1, <3>3, <3>4, <3>5, Zenon
  <2> QED
    BY <2>5, <2>6
<1> QED
  BY <1>5, <1>6

\* The reading side while a message is sent.
LEMMA ReadSideStays ==
    ASSUME WholeInv, UNCHANGED <<kind, reply, inbox, delivered>>,
           pending \in {"none", "send"}, pending' \in {"none", "send", "failed"},
           kind = "http" => ("get" \in connected' <=> "get" \in connected)
    PROVE  ReadSide'
<1>1. kind' = kind /\ reply' = reply /\ inbox' = inbox /\ delivered' = delivered
  OBVIOUS
<1>2. ~Asking /\ ~Asking' /\ pending # "failed" /\ pending' # "receiving" /\ pending' \notin {"receiving", "read"}
  BY DEF Asking
<1>3. Answered' = Answered
  BY <1>1 DEF Answered, HeadLength
<1>4. ReadSide
  BY DEF WholeInv
<1> QED
  BY <1>1, <1>2, <1>3, <1>4, Zenon DEF ReadSide

\* A cut of the rest goes from the buffer to the wire.
LEMMA RestMoves ==
    ASSUME NEW w \in Seq(Int), NEW t \in Seq(Int), NEW b \in 0 .. Len(t), NEW n \in 0 .. Len(t) - b
    PROVE  /\ SubSeq(Behind(t, b), 1, n) \in Seq(Int)
           /\ (w \o SubSeq(Behind(t, b), 1, n)) \o Behind(t, b + n) = w \o Behind(t, b)
           /\ n = Len(t) - b => w \o SubSeq(Behind(t, b), 1, n) = w \o Behind(t, b)
<1> DEFINE u == Behind(t, b)
           f == SubSeq(u, 1, n)
           r == Behind(u, n)
<1>1. u \in Seq(Int) /\ Len(u) = Len(t) - b /\ n \in 0 .. Len(u)
  BY BehindSeq
<1>2. r = Behind(t, b + n)
  BY BehindBehind
<1> HIDE DEF u
<1>3. f \o r = u /\ f \in Seq(Int) /\ r \in Seq(Int)
  BY <1>1, CutJoins, BehindSeq, FrontSeq
<1>4. n = Len(u) => f = u
  BY <1>1
<1> HIDE DEF f, r
<1>5. (w \o f) \o r = w \o (f \o r)
  BY <1>3, JoinsAssociate, Zenon
<1> QED
  BY <1>1, <1>2, <1>3, <1>4, <1>5, Zenon DEF u, f, r

LEMMA SendVWhole ==
    ASSUME WholeInv, NEW n \in Nat, NEW err, SendV(n, err)
    PROVE  WholeInv'
<1>0. WholeTypeOK /\ SendSide
  BY DEF WholeInv
<1>1. /\ pending \in {"none", "send"} /\ handed' = SendK /\ Connect(Out, err)
      /\ kind' = kind /\ fGetReceived' = fGetReceived /\ outRcvLen' = outRcvLen
      /\ reply' = reply /\ inbox' = inbox /\ delivered' = delivered
  BY Zenon DEF SendV, SendK
<1>2. err = "OS_NoErr" => SendSendBuffer(Out, ToSend, n, "send")
  BY Zenon DEF SendV, SendK, SendFirst, ToSend
<1>3. err # "OS_NoErr" => /\ NotConnected(Out, "send", err) /\ fSendBuffer' = SendFirst
                          /\ fSentLength' = fSentLength /\ wire' = wire
  BY Zenon DEF SendV, SendK, SendFirst
<1>4. /\ ToSend \in Seq(Int) /\ ToSend # <<>> /\ SendK \in Nat /\ SendK > 0
      /\ fSentLength \in 0 .. Len(ToSend)
      /\ wire[Out] \o Behind(ToSend, fSentLength) = Posted(kind, SendK)
      /\ Out \notin connected => SendFirst = ToSend
  BY <1>1, ToSendWhole
<1>5. /\ connected' = connected \/ connected' = connected \cup {Out}
      /\ err = "OS_NoErr" => Out \in connected'
      /\ err # "OS_NoErr" => Out \notin connected
      /\ err = "EINPROGRESS" => Out \in connected'
  BY <1>1, ConnectFacts
<1>6. Out' = Out /\ Out \in Names /\ (kind = "http" => Out = "post") /\ wire[Out] \in Seq(Int)
      /\ wire \in [Names -> Seq(Int)] /\ kind \in {"tcp", "http"}
  BY <1>0, <1>1 DEF Out, Names, WholeTypeOK
<1> DEFINE b == fSentLength
           rest == Behind(ToSend, b)
<1>7. rest \in Seq(Int) /\ Len(rest) = Len(ToSend) - b
  BY <1>4, BehindSeq
<1>8. CASE err # "OS_NoErr"
  <2>1. fSendBuffer' = ToSend /\ fSentLength' = b /\ wire' = wire
    BY <1>3, <1>4, <1>5, <1>8, Zenon
  <2>2. pending' = IF err = "EINPROGRESS" THEN "send" ELSE "failed"
    BY <1>3, <1>8 DEF NotConnected
  <2>3. pending' \in {"send", "failed"} /\ pending' # "none" /\ (pending' = "send" => Out \in connected')
        /\ pending' \notin {"none", "read", "receiving"}
    BY <1>5, <2>2
  <2>4. WholeTypeOK'
    BY <1>0, <1>1, <1>4, <2>1, <2>3 DEF WholeTypeOK
  <2>5. SendSide'
    <3>1. fSentLength' \in 0 .. Len(fSendBuffer') /\ fSendBuffer' # <<>> /\ handed' > 0
      BY <1>1, <1>4, <2>1
    <3>2. wire'[Out'] \o Behind(fSendBuffer', fSentLength') = Posted(kind', handed')
      BY <1>1, <1>4, <1>6, <2>1, Zenon
    <3> QED
      BY <1>1, <1>6, <2>3, <3>1, <3>2, Zenon DEF SendSide
  <2>6. ReadSide'
    <3>1. kind = "http" => ("get" \in connected' <=> "get" \in connected)
      BY <1>5, <1>6
    <3> QED
      BY <1>1, <2>3, <3>1, ReadSideStays
  <2> QED
    BY <2>4, <2>5, <2>6 DEF WholeInv
<1>9. CASE err = "OS_NoErr"
  <2> DEFINE f == SubSeq(rest, 1, n)
  <2>1. n <= Len(rest) /\ wire' = [wire EXCEPT ![Out] = @ \o f]
    BY <1>2, <1>9, Zenon DEF SendSendBuffer, Behind
  <2>2. n = Len(rest) => fSendBuffer' = <<>> /\ fSentLength' = 0 /\ pending' = "none"
    BY <1>2, <1>9, Zenon DEF SendSendBuffer, Behind
  <2>3. n # Len(rest) => fSendBuffer' = ToSend /\ fSentLength' = b + n /\ (pending' = "send" \/ pending' = "failed")
    BY <1>2, <1>9, Zenon DEF SendSendBuffer, Behind
  <2>4. b \in 0 .. Len(ToSend) /\ n \in 0 .. Len(ToSend) - b /\ b + n \in 0 .. Len(ToSend)
    BY <1>4, <1>7, <2>1
  <2>5. /\ f \in Seq(Int)
        /\ (wire[Out] \o f) \o Behind(ToSend, b + n) = wire[Out] \o rest
        /\ n = Len(ToSend) - b => wire[Out] \o f = wire[Out] \o rest
    BY <1>4, <1>6, <2>4, RestMoves
  <2> HIDE DEF f, rest
  <2>6. wire'[Out] = wire[Out] \o f /\ wire[Out] \o f \in Seq(Int)
    BY <1>6, <2>1, <2>5, ConcatProperties
  <2>7. wire' \in [Names -> Seq(Int)]
    BY <1>6, <2>1, <2>6
  <2>8. pending' \in {"none", "send", "failed"} /\ fSendBuffer' \in Seq(Int) /\ fSentLength' \in Nat
        /\ pending' \notin {"read", "receiving"}
    <3>1. CASE n = Len(rest)
      BY <2>2, <3>1
    <3>2. CASE n # Len(rest)
      BY <1>4, <2>3, <2>4, <3>2
    <3> QED
      BY <3>1, <3>2
  <2>9. WholeTypeOK'
    BY <1>0, <1>1, <1>4, <2>7, <2>8 DEF WholeTypeOK
  <2>10. SendSide'
    <3>1. ASSUME pending' = "none" PROVE fSendBuffer' = <<>> /\ fSentLength' = 0 /\ wire'[Out'] = Posted(kind', handed')
      <4>1. n = Len(rest)
        BY <2>3, <3>1
      <4>2. wire[Out] \o f = wire[Out] \o rest
        BY <1>7, <2>5, <4>1
      <4> QED
        BY <1>1, <1>4, <1>6, <2>2, <2>6, <4>1, <4>2, Zenon DEF rest
    <3>2. ASSUME pending' = "send"
          PROVE  /\ wire'[Out'] \o Behind(fSendBuffer', fSentLength') = Posted(kind', handed')
                 /\ fSendBuffer' # <<>> /\ fSentLength' \in 0 .. Len(fSendBuffer') /\ handed' > 0
      <4>1. n # Len(rest)
        BY <2>2, <3>2
      <4>2. fSendBuffer' = ToSend /\ fSentLength' = b + n
        BY <2>3, <4>1
      <4> QED
        BY <1>1, <1>4, <1>6, <2>4, <2>5, <2>6, <4>2, Zenon DEF rest
    <3>3. kind' = "http" => ("post" \in connected' <=> handed' > 0)
      BY <1>1, <1>4, <1>5, <1>6, <1>9
    <3>4. ~(kind' = "tcp" /\ pending' \notin {"send", "failed"}) \/ pending' = "none"
      BY <2>8
    <3>5. pending' \in {"none", "read", "receiving"} => pending' = "none"
      BY <2>8
    <3> QED
      BY <3>1, <3>2, <3>3, <3>4, <3>5, Zenon DEF SendSide
  <2>11. ReadSide'
    <3>1. kind = "http" => ("get" \in connected' <=> "get" \in connected)
      BY <1>5, <1>6
    <3> QED
      BY <1>1, <2>8, <3>1, ReadSideStays
  <2> QED
    BY <2>9, <2>10, <2>11 DEF WholeInv
<1> QED
  BY <1>8, <1>9

LEMMA ReadGetWhole ==
    ASSUME WholeInv, NEW n \in Nat, NEW err, ReadGet(n, err)
    PROVE  WholeInv'
<1> DEFINE buffer == IF "get" \in connected THEN fSendBuffer ELSE GetRequest
           b == fSentLength
<1>0. WholeTypeOK /\ SendSide /\ ReadSide
  BY DEF WholeInv
<1>1. /\ kind = "http" /\ pending \in {"none", "read"} /\ ("get" \notin connected \/ fSendBuffer # <<>>)
      /\ Connect("get", err)
      /\ kind' = kind /\ fGetReceived' = fGetReceived /\ handed' = handed
      /\ reply' = reply /\ inbox' = inbox /\ delivered' = delivered
  BY Zenon DEF ReadGet
<1>2. err # "OS_NoErr" => /\ NotConnected("get", "read", err) /\ fSendBuffer' = buffer
                          /\ fSentLength' = b /\ wire' = wire /\ outRcvLen' = outRcvLen
  BY Zenon DEF ReadGet
<1>3. err = "OS_NoErr" =>
          /\ n <= Len(buffer) - b
          /\ wire' = [wire EXCEPT !["get"] = @ \o SubSeq(buffer, b + 1, b + n)]
          /\ \/ fSendBuffer' = <<>> /\ fSentLength' = 1 /\ outRcvLen' = 0 /\ pending' = "receiving"
             \/ /\ fSendBuffer' = buffer /\ fSentLength' = b + n /\ outRcvLen' = outRcvLen
                /\ pending' = "read" \/ pending' = "failed"
  BY Zenon DEF ReadGet
<1>4. /\ connected' = connected \/ connected' = connected \cup {"get"}
      /\ err = "OS_NoErr" => "get" \in connected'
      /\ err # "OS_NoErr" => "get" \notin connected
      /\ err = "EINPROGRESS" => "get" \in connected'
  BY <1>1, ConnectFacts
<1>5. /\ handed \in Nat /\ inbox \in Nat /\ b \in Nat /\ fSendBuffer \in Seq(Int) /\ wire \in [Names -> Seq(Int)]
      /\ "get" \in Names /\ "post" \in Names /\ wire["get"] \in Seq(Int)
  BY <1>0 DEF WholeTypeOK, Names
<1>6. buffer \in Seq(Int) /\ buffer # <<>>
  <2>1. GetRequest \in Seq(Int) /\ GetRequest # <<>>
    BY DEF GetRequest
  <2> QED
    BY <1>1, <1>5, <2>1, Zenon
<1>7. delivered = <<>>
  <2>1. CASE "get" \notin connected
    BY <1>0, <1>1, <2>1, Zenon DEF ReadSide
  <2>2. CASE "get" \in connected
    <3>1. fSendBuffer # <<>>
      BY <1>1, <2>2
    <3>2. pending # "none"
      BY <1>0, <3>1, Zenon DEF SendSide
    <3>3. Asking
      BY <1>1, <3>1, <3>2 DEF Asking
    <3> QED
      BY <1>0, <1>1, <3>3, Zenon DEF ReadSide
  <2> QED
    BY <2>1, <2>2
<1>8. wire["post"] = Posted(kind, handed) /\ ("post" \in connected <=> handed > 0) /\ Out = "post" /\ Out' = "post"
  <2>1. Out = "post" /\ Out' = "post"
    BY <1>1 DEF Out
  <2>2. pending \in {"none", "read", "receiving"} /\ pending # "failed"
    BY <1>1
  <2> QED
    BY <1>0, <1>1, <2>1, <2>2, Zenon DEF SendSide
<1> HIDE DEF buffer
<1>9. /\ wire' \in [Names -> Seq(Int)] /\ wire'["post"] = wire["post"]
      /\ fSendBuffer' \in Seq(Int) /\ fSentLength' \in Nat /\ outRcvLen' \in Int
  <2>1. CASE err # "OS_NoErr"
    BY <1>0, <1>2, <1>5, <1>6, <2>1 DEF WholeTypeOK
  <2>2. CASE err = "OS_NoErr"
    <3> DEFINE t == SubSeq(buffer, b + 1, b + n)
    <3>1. n <= Len(buffer) - b /\ wire' = [wire EXCEPT !["get"] = @ \o t]
      BY <1>3, <2>2, Zenon
    <3>2. t \in Seq(Int)
      <4>1. b + 1 \in 1 .. Len(buffer) + 1 /\ b + n \in b .. Len(buffer)
        BY <1>5, <1>6, <3>1
      <4> QED
        BY <1>5, <1>6, <3>1, <4>1, SubSeqProperties
    <3> HIDE DEF t
    <3>3. wire["get"] \o t \in Seq(Int)
      BY <1>5, <3>2, ConcatProperties
    <3>4. wire' \in [Names -> Seq(Int)] /\ wire'["post"] = wire["post"]
      BY <1>5, <3>1, <3>3
    <3>5. CASE fSendBuffer' = <<>> /\ fSentLength' = 1 /\ outRcvLen' = 0
      BY <3>4, <3>5
    <3>6. CASE fSendBuffer' = buffer /\ fSentLength' = b + n /\ outRcvLen' = outRcvLen
      BY <1>0, <1>5, <1>6, <3>4, <3>6 DEF WholeTypeOK
    <3> QED
      BY <1>3, <2>2, <3>5, <3>6, Zenon
  <2> QED
    BY <2>1, <2>2
<1>10. /\ pending' \in {"read", "receiving", "failed"}
       /\ pending' = "read" => fSendBuffer' # <<>>
       /\ pending' = "receiving" => fSendBuffer' = <<>> /\ fSentLength' # 0
       /\ pending' # "failed" => "get" \in connected'
  <2>1. CASE err # "OS_NoErr"
    <3>1. pending' = IF err = "EINPROGRESS" THEN "read" ELSE "failed"
      BY <1>2, <2>1 DEF NotConnected
    <3>2. fSendBuffer' = buffer
      BY <1>2, <2>1
    <3> QED
      BY <1>4, <1>6, <3>1, <3>2
  <2>2. CASE err = "OS_NoErr"
    <3>1. CASE fSendBuffer' = <<>> /\ fSentLength' = 1 /\ pending' = "receiving"
      BY <1>4, <2>2, <3>1
    <3>2. CASE fSendBuffer' = buffer /\ (pending' = "read" \/ pending' = "failed")
      BY <1>4, <1>6, <2>2, <3>2
    <3> QED
      BY <1>3, <2>2, <3>1, <3>2, Zenon
  <2> QED
    BY <2>1, <2>2
<1>11. WholeTypeOK'
  BY <1>0, <1>1, <1>9, <1>10 DEF WholeTypeOK
<1>12. SendSide'
  <2>1. pending' # "none" /\ kind' # "tcp" /\ pending' # "send"
    BY <1>1, <1>10
  <2>2. "post" \in connected' <=> "post" \in connected
    BY <1>4
  <2> QED
    BY <1>1, <1>8, <1>9, <2>1, <2>2, Zenon DEF SendSide
<1>13. ReadSide'
  <2>1. kind' = "http" /\ kind' # "tcp" /\ inbox' <= Len(reply')
    BY <1>0, <1>1 DEF ReadSide
  <2>2. pending' # "failed" => Asking'
    BY <1>10 DEF Asking
  <2>3. "get" \notin connected' => inbox' = 0
    BY <1>0, <1>1, <1>4 DEF ReadSide
  <2>4. pending' \in {"receiving", "read"} => pending' # "failed"
    OBVIOUS
  <2> QED
    BY <1>1, <1>7, <1>10, <2>1, <2>2, <2>3, <2>4, Zenon DEF ReadSide
<1> QED
  BY <1>11, <1>12, <1>13 DEF WholeInv

LEMMA ReadAgainWhole == ASSUME WholeInv, ReadAgain PROVE WholeInv'
<1>0. WholeTypeOK /\ SendSide /\ ReadSide
  BY DEF WholeInv
<1>1. /\ kind = "http" /\ pending = "read" /\ "get" \in connected /\ fSendBuffer = <<>> /\ fSentLength > 0
      /\ outRcvLen' = 0 /\ pending' = "receiving"
      /\ kind' = kind /\ connected' = connected /\ fSendBuffer' = fSendBuffer /\ fSentLength' = fSentLength
      /\ fGetReceived' = fGetReceived /\ handed' = handed
      /\ wire' = wire /\ reply' = reply /\ inbox' = inbox /\ delivered' = delivered
  BY DEF ReadAgain
<1>2. WholeTypeOK'
  BY <1>0, <1>1 DEF WholeTypeOK
<1>3. SendSide'
  BY <1>0, <1>1 DEF SendSide, Out
<1>4. ReadSide'
  <2>1. Asking /\ Asking' /\ fSentLength # 0
    BY <1>0, <1>1 DEF Asking, WholeTypeOK
  <2> QED
    BY <1>0, <1>1, <2>1 DEF ReadSide
<1> QED
  BY <1>2, <1>3, <1>4 DEF WholeInv

LEMMA ReceiveNoneWhole == ASSUME WholeInv, ReceiveNone PROVE WholeInv'
<1>0. WholeTypeOK /\ SendSide /\ ReadSide
  BY DEF WholeInv
<1>1. /\ pending = "receiving" /\ pending' \in {"receiving", "read", "failed"}
      /\ fGetReceived' = fGetReceived + outRcvLen
      /\ kind' = kind /\ connected' = connected /\ fSendBuffer' = fSendBuffer /\ fSentLength' = fSentLength
      /\ outRcvLen' = outRcvLen /\ handed' = handed
      /\ wire' = wire /\ reply' = reply /\ inbox' = inbox /\ delivered' = delivered
  BY DEF ReceiveNone
<1>2. kind = "http"
  BY <1>0, <1>1 DEF ReadSide, WholeTypeOK
<1>3. WholeTypeOK'
  BY <1>0, <1>1 DEF WholeTypeOK
<1>4. SendSide'
  BY <1>0, <1>1, <1>2 DEF SendSide, Out
<1>5. ReadSide'
  <2>1. Asking /\ fSendBuffer = <<>> /\ fSentLength # 0 /\ "get" \in connected /\ delivered = <<>>
    BY <1>0, <1>1, <1>2 DEF Asking, ReadSide
  <2>2. pending' # "failed" => Asking'
    BY <1>1, <2>1 DEF Asking
  <2> QED
    BY <1>0, <1>1, <1>2, <2>1, <2>2 DEF ReadSide
<1> QED
  BY <1>3, <1>4, <1>5 DEF WholeInv

LEMMA PartSeq ==
    ASSUME NEW s \in Seq(Int), NEW a \in Nat, NEW b \in Nat, b <= Len(s)
    PROVE  SubSeq(s, a + 1, b) \in Seq(Int)
  OBVIOUS

LEMMA PartsJoin ==
    ASSUME NEW s \in Seq(Int), NEW a \in Nat, NEW b \in Nat, NEW c \in Nat, a <= b, b <= c, c <= Len(s)
    PROVE  SubSeq(s, a + 1, b) \o SubSeq(s, b + 1, c) = SubSeq(s, a + 1, c)
<1>1. a + 1 \in 1 .. Len(s) + 1 /\ b \in (a + 1) - 1 .. Len(s) /\ c \in b .. Len(s)
  OBVIOUS
<1> QED
  BY <1>1, ConcatAdjacentSubSeq

LEMMA ReceiveSomeWhole == ASSUME WholeInv, ReceiveSome PROVE WholeInv'
<1> DEFINE n == IF Available <= kSendBufferLen - fGetReceived THEN Available
                ELSE kSendBufferLen - fGetReceived
           total == fGetReceived + n
<1>0. WholeTypeOK /\ SendSide /\ ReadSide
  BY DEF WholeInv
<1>1. /\ pending = "receiving" /\ n > 0 /\ inbox' = inbox + n
      /\ kind' = kind /\ connected' = connected /\ fSendBuffer' = fSendBuffer /\ handed' = handed
      /\ wire' = wire /\ reply' = reply
  BY Zenon DEF ReceiveSome
<1>2. \/ /\ inbox + n >= ResponseHead
         /\ delivered' = delivered \o SubSeq(reply, ResponseHead + 1, inbox + n)
         /\ outRcvLen' = total - ResponseHead
         /\ fGetReceived' = 0 /\ fSentLength' = 0 /\ pending' = "none"
      \/ /\ outRcvLen' = n /\ fGetReceived' = total
         /\ delivered' = delivered /\ fSentLength' = fSentLength /\ pending' = pending
  BY Zenon DEF ReceiveSome
<1>3. kind = "http" /\ Out' = Out
  BY <1>0, <1>1 DEF ReadSide, WholeTypeOK, Out
<1>4. Asking /\ fSendBuffer = <<>> /\ fSentLength # 0 /\ "get" \in connected /\ delivered = <<>>
  BY <1>0, <1>1, <1>3 DEF Asking, ReadSide
<1>5. /\ reply \in Seq(Int) /\ inbox \in Nat /\ Len(reply) \in Nat /\ inbox <= Len(reply)
      /\ fGetReceived \in Int /\ ResponseHead \in Nat /\ kSendBufferLen \in Nat
  BY <1>0, ClientAssumption DEF WholeTypeOK, ReadSide
<1>6. n \in Nat /\ inbox + n <= Len(reply) /\ total \in Int
  <2>1. Available = Len(reply) - inbox
    BY DEF Available
  <2> QED
    BY <1>1, <1>5, <2>1
<1> HIDE DEF n, total
<1>7. wire[Out] = Posted(kind, handed) /\ ("post" \in connected <=> handed > 0)
  BY <1>0, <1>1, <1>3 DEF SendSide
<1>8. CASE /\ inbox + n >= ResponseHead
           /\ delivered' = delivered \o SubSeq(reply, ResponseHead + 1, inbox + n)
           /\ outRcvLen' = total - ResponseHead
           /\ fGetReceived' = 0 /\ fSentLength' = 0 /\ pending' = "none"
  <2> DEFINE t == SubSeq(reply, ResponseHead + 1, inbox + n)
  <2>0. inbox + n \in Nat
    BY <1>5, <1>6
  <2>1. t \in Seq(Int)
    BY <1>5, <1>6, <2>0, PartSeq
  <2>2. <<>> \o t = t
    BY <2>1, ConcatEmptySeq
  <2>3. delivered' = t
    BY <1>4, <1>8, <2>2, Zenon
  <2>4. Answered'
    <3>1. HeadLength' = ResponseHead
      BY <1>1, <1>3 DEF HeadLength
    <3>2. ResponseHead <= inbox'
      BY <1>1, <1>5, <1>6, <1>8
    <3> QED
      BY <1>1, <2>3, <3>1, <3>2, Zenon DEF Answered
  <2>5. WholeTypeOK'
    <3>1. outRcvLen' \in Int /\ inbox' \in Nat
      BY <1>1, <1>5, <1>6, <1>8, <2>0
    <3>2. delivered' \in Seq(Int)
      BY <2>1, <2>3, Zenon
    <3> QED
      BY <1>0, <1>1, <1>8, <3>1, <3>2 DEF WholeTypeOK
  <2>6. SendSide'
    BY <1>1, <1>3, <1>4, <1>7, <1>8 DEF SendSide
  <2>7. ReadSide'
    <3>1. ~Asking'
      BY <1>8 DEF Asking
    <3>2. inbox' <= Len(reply') /\ kind' = "http" /\ kind' # "tcp" /\ "get" \in connected'
          /\ pending' \notin {"receiving", "read"} /\ pending' # "receiving"
      BY <1>1, <1>3, <1>4, <1>6, <1>8
    <3> QED
      BY <2>4, <3>1, <3>2, Zenon DEF ReadSide
  <2> QED
    BY <2>5, <2>6, <2>7 DEF WholeInv
<1>9. CASE /\ outRcvLen' = n /\ fGetReceived' = total
           /\ delivered' = delivered /\ fSentLength' = fSentLength /\ pending' = pending
  <2>1. WholeTypeOK'
    BY <1>0, <1>1, <1>5, <1>6, <1>9 DEF WholeTypeOK
  <2>2. SendSide'
    BY <1>0, <1>1, <1>3, <1>4, <1>7, <1>9 DEF SendSide
  <2>3. ReadSide'
    <3>1. Asking'
      BY <1>1, <1>9 DEF Asking
    <3>2. inbox' <= Len(reply') /\ kind' = "http" /\ kind' # "tcp" /\ "get" \in connected' /\ delivered' = <<>>
          /\ fSendBuffer' = <<>> /\ fSentLength' # 0
      BY <1>1, <1>3, <1>4, <1>6, <1>9
    <3> QED
      BY <3>1, <3>2, Zenon DEF ReadSide
  <2> QED
    BY <2>1, <2>2, <2>3 DEF WholeInv
<1> QED
  BY <1>2, <1>8, <1>9, Zenon

LEMMA ClientReadWhole ==
    ASSUME WholeInv, NEW n \in Nat, NEW err, ClientRead(n, err)
    PROVE  WholeInv'
<1>0. WholeTypeOK /\ SendSide /\ ReadSide
  BY DEF WholeInv
<1>1. /\ pending \in {"none", "read"} /\ (kind = "http" => "get" \in connected /\ fSendBuffer = <<>> /\ fSentLength = 0)
      /\ Connect(In, err)
      /\ n <= Available /\ inbox' = inbox + n
      /\ delivered' = delivered \o SubSeq(reply, inbox + 1, inbox + n)
      /\ kind' = kind /\ fSendBuffer' = fSendBuffer /\ fSentLength' = fSentLength /\ fGetReceived' = fGetReceived
      /\ handed' = handed /\ wire' = wire /\ reply' = reply
  BY Zenon DEF ClientRead
<1>2. (outRcvLen' = n \/ outRcvLen' = outRcvLen) /\ pending' \in {"none", "read", "failed"}
  BY DEF ClientRead
<1>3. /\ reply \in Seq(Int) /\ inbox \in Nat /\ Len(reply) \in Nat /\ inbox <= Len(reply)
      /\ outRcvLen \in Int /\ kind \in {"tcp", "http"}
  BY <1>0 DEF WholeTypeOK, ReadSide
<1>4. inbox + n \in Nat /\ inbox + n <= Len(reply)
  BY <1>1, <1>3 DEF Available
<1>5. fSendBuffer = <<>> /\ fSentLength = 0
  <2>1. kind = "tcp" => pending \notin {"send", "failed"}
    BY <1>1
  <2> QED
    BY <1>0, <1>1, <1>3, <2>1, Zenon DEF SendSide
<1>6. ~Asking /\ ~Asking'
  BY <1>1, <1>2, <1>5 DEF Asking
<1>7. Answered
  <2>1. pending # "failed"
    BY <1>1
  <2>2. CASE kind = "tcp"
    BY <1>0, <2>2, Zenon DEF ReadSide
  <2>3. CASE kind = "http"
    BY <1>0, <1>1, <1>6, <2>1, <2>3, Zenon DEF ReadSide
  <2> QED
    BY <1>3, <2>2, <2>3
<1>8. HeadLength \in Nat /\ HeadLength' = HeadLength
  BY <1>1, ClientAssumption DEF HeadLength
<1>9. Answered' /\ delivered' \in Seq(Int)
  <2> DEFINE h == HeadLength
  <2>1. h <= inbox /\ delivered = SubSeq(reply, h + 1, inbox)
    BY <1>7 DEF Answered
  <2> HIDE DEF h
  <2>2. h \in Nat
    BY <1>8 DEF h
  <2>3. SubSeq(reply, h + 1, inbox) \o SubSeq(reply, inbox + 1, inbox + n) = SubSeq(reply, h + 1, inbox + n)
    <3>1. inbox <= inbox + n
      BY <1>3
    <3> QED
      BY <1>3, <1>4, <2>1, <2>2, <3>1, PartsJoin, Zenon
  <2>4. delivered' = SubSeq(reply, h + 1, inbox + n)
    BY <1>1, <2>1, <2>3, Zenon
  <2>5. SubSeq(reply, h + 1, inbox + n) \in Seq(Int)
    BY <1>3, <1>4, <2>2, PartSeq
  <2>6. h <= inbox'
    BY <1>1, <1>3, <2>1, <2>2
  <2> QED
    BY <1>1, <1>8, <2>4, <2>5, <2>6, Zenon DEF Answered, h
<1>10. /\ connected' = connected \/ connected' = connected \cup {In}
       /\ kind = "http" => In = "get" /\ "get" \in connected
  BY <1>1, ConnectFacts DEF In
<1>11. WholeTypeOK'
  BY <1>0, <1>1, <1>2, <1>3, <1>4, <1>9 DEF WholeTypeOK
<1>12. SendSide'
  <2>1. wire[Out] = Posted(kind, handed) /\ (kind = "http" => ("post" \in connected <=> handed > 0)) /\ Out' = Out
    BY <1>0, <1>1 DEF SendSide, Out
  <2>2. kind = "http" => ("post" \in connected' <=> "post" \in connected)
    BY <1>10
  <2>3. pending' # "send"
    BY <1>2
  <2> QED
    BY <1>1, <1>5, <2>1, <2>2, <2>3, Zenon DEF SendSide
<1>13. ReadSide'
  <2>1. pending' # "receiving" /\ inbox' <= Len(reply')
    BY <1>1, <1>2, <1>4
  <2>2. kind = "http" => "get" \in connected'
    BY <1>10
  <2> QED
    BY <1>1, <1>6, <1>9, <2>1, <2>2, Zenon DEF ReadSide
<1> QED
  BY <1>11, <1>12, <1>13 DEF WholeInv

LEMMA WholeStep == WholeInv /\ [ClientNext]_csVars => WholeInv'
<1> SUFFICES ASSUME WholeInv, [ClientNext]_csVars PROVE WholeInv'
  OBVIOUS
<1>1. CASE UNCHANGED csVars
  BY <1>1, SetLinkWhole DEF csVars
<1>2. ASSUME NEW s \in Names, Established(s) \/ Breaks(s) PROVE WholeInv'
  BY <1>2, SetLinkWhole DEF Established, Breaks, SetLink
<1>3. ASSUME NEW n \in 1 .. (ResponseHead + MaxData), ServerSends(n) PROVE WholeInv'
  <2>1. n \in Nat
    BY ClientAssumption
  <2> QED
    BY <1>3, <2>1, ServerSendsWhole
<1>4. ASSUME NEW n \in Sizes, NEW err \in Errors, SendV(n, err) \/ ReadGet(n, err) \/ ClientRead(n, err)
      PROVE  WholeInv'
  <2>1. n \in Nat
    BY ClientAssumption DEF Sizes
  <2> QED
    BY <1>4, <2>1, SendVWhole, ReadGetWhole, ClientReadWhole
<1> QED
  BY <1>1, <1>2, <1>3, <1>4, ReadAgainWhole, ReceiveSomeWhole, ReceiveNoneWhole, Zenon DEF ClientNext

\* However often a call of a client socket stopped halfway, what was sent and what is
\* left of its buffer is what the caller handed over (SendSendBuffer, encodeVec), and
\* what the caller read is what the server sent behind its answer.
THEOREM ClientStreamsWhole == ClientSpec => []StreamsWhole
<1>1. ClientInit => WholeInv
  BY WholeInvInit
<1>2. WholeInv /\ [ClientNext]_csVars => WholeInv'
  BY WholeStep
<1>3. WholeInv => StreamsWhole
  BY WholeInvWhole
<1>. QED
  BY <1>1, <1>2, <1>3, PTL DEF ClientSpec
============================================================================
