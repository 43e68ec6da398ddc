------------------------- MODULE HTTPSessionProofs -------------------------
(***************************************************************************)
(* Proofs about HTTPSession, for every set of scripts, every number of     *)
(* threads and every size of the buffers: the request buffer is accounted  *)
(* for to the byte (BufferExact), the mutexes of the session are held by   *)
(* the thread that will unlock them (LockOwner), a session that sleeps has *)
(* used what it has (NoStalledRequest), responses go out whole and in      *)
(* order (ResponsesWhole), and requests are handled as they were sent,     *)
(* however recv() cuts the stream (WholeRequests).                         *)
(***************************************************************************)
EXTENDS HTTPSession, SequenceTheorems, WellFoundedInduction, TLAPS

\* recv() has not returned more than the client sent.
StreamInv ==
    /\ msgs \in Scripts
    /\ sent \in Nat /\ rcvd \in Nat /\ rcvd <= sent

BufferInv ==
    /\ fLen \in Nat /\ fRetreatBytes \in Nat /\ fRetreatBytesRead \in Nat /\ fCurOffset \in Nat
    /\ fRequestPtr \in BOOLEAN
    /\ BufferExact

\* While the body is read, no more of it is there than the head announced.
BodyInv == fState = "FilteringRequest" /\ alive => fRequest.len \in 0 .. ContentLength

\* The states before HaveCompleteMessage have no request: its two assertions.
NoRequestYet ==
    fState \in {"ReadingFirstRequest", "ReadingRequest", "HaveCompleteMessage"} /\ alive
        => fRequest = NoRequest

ThreadInv ==
    /\ runner \in Threads \cup {NoThread} /\ fUseThisThread \in Threads \cup {NoThread}
    /\ lock = Free \/ lock \in [holder : Threads, count : {1}]
    /\ alive \in BOOLEAN
    /\ runner # NoThread => alive

IInv == StreamInv /\ BufferInv /\ BodyInv /\ NoRequestYet /\ ThreadInv /\ LockOwner

----------------------------------------------------------------------------
\* The smaller of two numbers.
LEMMA MinOfTwo ==
    ASSUME NEW a \in Int, NEW b \in Int
    PROVE  /\ Min({a, b}) \in Int
           /\ Min({a, b}) = a \/ Min({a, b}) = b
           /\ Min({a, b}) <= a /\ Min({a, b}) <= b
<1>1. \E x \in {a, b} : \A y \in {a, b} : x <= y
  OBVIOUS
<1>. QED
  BY <1>1 DEF Min

\* Sums of the three counters of the request buffer.
LEMMA SumZero ==
    ASSUME NEW x \in Nat, NEW y \in Nat, NEW z \in Nat, z = x + y
    PROVE  z = x + 0 + y
OBVIOUS

\* Bytes move from one counter to another.
LEMMA SumMoved ==
    ASSUME NEW x \in Nat, NEW y \in Nat, NEW z \in Nat, NEW k \in Nat, k <= z
    PROVE  y + k \in Nat /\ z - k \in Nat /\ x + y + z = x + (y + k) + (z - k)
OBVIOUS

\* An offset below fCurOffset is inside the buffer.
LEMMA Smaller ==
    ASSUME NEW x \in Nat, NEW y \in Nat, NEW z \in Nat, x <= y, y < z
    PROVE  x < z
OBVIOUS

\* kRequestBufferSizeInBytes is a natural number.
LEMMA BufferSizeNat == BufferSize \in Nat
BY SessionAssumption

Message == [head : Nat \ {0}, body : Nat, keep : BOOLEAN, parses : BOOLEAN, data : BOOLEAN]

\* The messages of the script.
LEMMA Script ==
    ASSUME StreamInv
    PROVE  /\ msgs \in Seq(Message) /\ Len(msgs) \in Nat
           /\ \A n \in 1 .. Len(msgs) : msgs[n] \in Message
<1>1. msgs \in Seq(Message)
  BY SessionAssumption DEF StreamInv, Message
<1>. QED
  BY <1>1, LenProperties, ElementOfSeq

\* The length of a body is a natural number.
LEMMA ContentLengthNat ==
    ASSUME StreamInv
    PROVE  ContentLength \in Nat
<1>1. \A n \in DOMAIN msgs : msgs[n].body \in Nat
  BY Script, LenProperties DEF Message
<1>. QED
  BY <1>1 DEF ContentLength

\* A step that leaves the head and the script alone leaves ContentLength alone.
LEMMA ContentLengthSame ==
    ASSUME UNCHANGED <<msgs, fLen, fRequestBuffer>>
    PROVE  ContentLength' = ContentLength
BY DEF ContentLength, Parsed, RequestHead, Cells, Size

\* A request is no nullptr.
LEMMA RequestIsThere ==
    ASSUME NEW m, NEW b, NEW l \in Nat
    PROVE  Request(m, b, l) # NoRequest /\ Request(m, b, l).len = l
BY DEF Request, NoRequest

\* Whatever Scan finds, the head and what is put back are what was there.
LEMMA ScanExact ==
    ASSUME NEW buffer, NEW len \in Nat, NEW curOffset, Scan(buffer, len, curOffset)
    PROVE  /\ fLen' \in Nat /\ fRetreatBytes' \in Nat
           /\ len = fLen' + fRetreatBytes'
           /\ fRequestPtr' \in BOOLEAN
           /\ ~fRequestPtr' => fRetreatBytes' = 0
           /\ fState' \in {fState, "HaveCompleteMessage"}
<1>1. \A i \in HeadEnds(buffer, len) : i \in 1 .. len
  BY DEF HeadEnds
<1>2. CASE \E head \in HeadEnds(buffer, len) :
               /\ fLen' = head /\ fRetreatBytes' = len - head
               /\ fRequestPtr' = TRUE /\ fState' = "HaveCompleteMessage"
  <2>1. fLen' \in Nat /\ fRetreatBytes' \in Nat /\ len = fLen' + fRetreatBytes'
    BY <1>1, <1>2
  <2>. QED
    BY <1>2, <2>1
<1>3. CASE /\ fLen' = len /\ fRetreatBytes' = 0
           /\ fRequestPtr' \in BOOLEAN /\ fState' \in {fState, "HaveCompleteMessage"}
  <2>1. fLen' \in Nat /\ fRetreatBytes' \in Nat /\ len = fLen' + fRetreatBytes'
    BY <1>3
  <2>. QED
    BY <1>3, <2>1
<1>. QED
  BY <1>2, <1>3 DEF Scan

----------------------------------------------------------------------------
\* A new session satisfies the invariant.
LEMMA InitInv == Init => IInv
<1>. SUFFICES ASSUME Init PROVE IInv
  OBVIOUS
<1>1. StreamInv
  BY DEF Init, StreamInv
<1>2. /\ fLen \in Nat /\ fRetreatBytes = 0 /\ fRetreatBytes \in Nat
      /\ fRetreatBytesRead = 0 /\ fRetreatBytesRead \in Nat /\ fCurOffset \in Nat
      /\ fCurOffset = fLen + fRetreatBytesRead + fRetreatBytes /\ fCurOffset < BufferSize
  BY SessionAssumption DEF Init
<1>3. BufferInv
  <2>1. fRequestPtr \in BOOLEAN
    BY DEF Init
  <2>. QED
    BY <1>2, <2>1, Zenon DEF BufferInv, BufferExact
<1>4. BodyInv /\ NoRequestYet
  BY DEF Init, BodyInv, NoRequestYet
<1>5. ThreadInv
  BY DEF Init, ThreadInv
<1>6. LockOwner
  BY DEF Init, LockOwner, Free
<1>. QED
  BY <1>1, <1>3, <1>4, <1>5, <1>6 DEF IInv

\* Steps of the client, the event thread and the timeout task.
LEMMA EnvironmentStep ==
    ASSUME IInv, ClientSends \/ ClientReads \/ ClientCloses \/ ProcessEvent \/ TimeoutExpires
    PROVE  IInv'
<1>1. UNCHANGED <<msgs, rcvd, inputVars, fState, fRequest, lock, runVars>>
  BY DEF ClientSends, ClientReads, ClientCloses, ProcessEvent, TimeoutExpires, Signal, clientVars
<1>2. StreamInv'
  BY <1>1 DEF IInv, StreamInv, ClientSends, ClientReads, ClientCloses, ProcessEvent,
       TimeoutExpires, Signal, clientVars
<1>3. ContentLength' = ContentLength
  BY <1>1, ContentLengthSame DEF inputVars
<1>. QED
  BY <1>1, <1>2, <1>3 DEF IInv, BufferInv, BufferExact, BodyInv, NoRequestYet, ThreadInv,
       LockOwner, inputVars, runVars

----------------------------------------------------------------------------
(* Run(), one lemma per group of actions *)

\* The beginning of a Run(): the thread that holds the mutexes is the one.
LEMMA BeginRunStep ==
    ASSUME IInv, NEW th \in Threads, BeginRun(th)
    PROVE  IInv'
<1>1. /\ UNCHANGED <<msgs, sent, rcvd, inputVars, fRequest, lock, alive>>
      /\ runner = NoThread /\ runner' = th /\ fUseThisThread' = NoThread /\ alive
      /\ fUseThisThread \in {NoThread, th} /\ fState' \in {fState, "TimedOut"}
  BY DEF BeginRun, clientVars
<1>2. ContentLength' = ContentLength
  BY <1>1, ContentLengthSame DEF inputVars
<1>3. StreamInv' /\ BufferInv'
  BY <1>1 DEF IInv, StreamInv, BufferInv, BufferExact, inputVars
<1>4. BodyInv' /\ NoRequestYet'
  BY <1>1, <1>2 DEF IInv, BodyInv, NoRequestYet, NoRequest, Request
<1>5. ThreadInv' /\ LockOwner'
  BY <1>1, SessionAssumption DEF IInv, ThreadInv, LockOwner, Free, NoRequest, Request
<1>. QED
  BY <1>3, <1>4, <1>5 DEF IInv

\* CleanupRequestAndResponse gives the mutexes back.
LEMMA CleanupFrees ==
    ASSUME IInv, runner # NoThread, CleanupRequestAndResponse
    PROVE  lock' = Free /\ fRequest' = NoRequest
<1>1. fRequest' = NoRequest
  BY DEF CleanupRequestAndResponse, NoRequest, Request
<1>2. CASE lock = Free
  BY <1>1, <1>2 DEF CleanupRequestAndResponse, Free
<1>3. CASE lock \in [holder : Threads, count : {1}]
  <2>1. lock.holder = runner /\ ~(lock.count > 1)
    BY <1>3 DEF IInv, LockOwner
  <2>. QED
    BY <1>1, <2>1 DEF CleanupRequestAndResponse
<1>. QED
  BY <1>2, <1>3 DEF IInv, ThreadInv

\* The end of the session: Run() returns -1, the destructor has nothing left to do.
LEMMA EndSessionStep ==
    ASSUME IInv, EndSession
    PROVE  IInv'
<1>1. /\ UNCHANGED <<msgs, sent, rcvd, inputVars, fState, fUseThisThread>>
      /\ runner # NoThread /\ runner' = NoThread /\ alive' = FALSE
      /\ CleanupRequestAndResponse
  BY DEF EndSession, clientVars
<1>2. lock' = Free /\ fRequest' = NoRequest
  BY <1>1, CleanupFrees
<1>3. StreamInv' /\ BufferInv'
  BY <1>1 DEF IInv, StreamInv, BufferInv, BufferExact, inputVars
<1>4. BodyInv' /\ NoRequestYet' /\ ThreadInv'
  BY <1>1, <1>2 DEF IInv, BodyInv, NoRequestYet, ThreadInv, Free
<1>5. LockOwner'
  BY <1>2 DEF LockOwner, Free
<1>. QED
  BY <1>3, <1>4, <1>5 DEF IInv

\* The end of a request: its mutexes are free for the next one.
LEMMA CleaningUpStep ==
    ASSUME IInv, CleaningUp
    PROVE  IInv'
<1>1. /\ UNCHANGED <<msgs, sent, rcvd, inputVars, fUseThisThread, runner, alive>>
      /\ runner # NoThread /\ fState' = "ReadingRequest"
      /\ CleanupRequestAndResponse
  BY DEF CleaningUp, In, clientVars, runVars
<1>2. lock' = Free /\ fRequest' = NoRequest
  BY <1>1, CleanupFrees
<1>3. StreamInv' /\ BufferInv'
  BY <1>1 DEF IInv, StreamInv, BufferInv, BufferExact, inputVars
<1>4. BodyInv' /\ NoRequestYet' /\ ThreadInv'
  BY <1>1, <1>2 DEF IInv, BodyInv, NoRequestYet, ThreadInv, Free
<1>5. LockOwner'
  BY <1>2 DEF LockOwner, Free
<1>. QED
  BY <1>3, <1>4, <1>5 DEF IInv

\* The mutexes are locked once: there was no request and no lock before.
LEMMA HaveCompleteMessageStep ==
    ASSUME IInv, HaveCompleteMessage
    PROVE  IInv'
<1>1. /\ UNCHANGED <<msgs, sent, rcvd, inputVars, runVars>>
      /\ runner # NoThread /\ fState = "HaveCompleteMessage"
      /\ fState' \in {"SendingResponse", "FilteringRequest"}
      /\ fRequest' = Request(0, <<>>, 0)
      /\ lock' = [holder |-> runner, count |-> lock.count + 1]
  BY DEF HaveCompleteMessage, In, clientVars
<1>2. ContentLength' \in Nat
  BY <1>1, ContentLengthSame, ContentLengthNat DEF IInv, inputVars
<1>3. StreamInv' /\ BufferInv'
  BY <1>1 DEF IInv, StreamInv, BufferInv, BufferExact, inputVars
<1>4. fRequest' # NoRequest /\ fRequest'.len = 0
  BY <1>1, RequestIsThere
<1>5. BodyInv' /\ NoRequestYet'
  BY <1>1, <1>2, <1>4 DEF BodyInv, NoRequestYet
<1>6. alive /\ lock.count = 0
  BY <1>1 DEF IInv, ThreadInv, NoRequestYet, LockOwner
<1>7. ThreadInv' /\ LockOwner'
  BY <1>1, <1>4, <1>6, SessionAssumption DEF IInv, ThreadInv, LockOwner, runVars, NoRequest, Request
<1>. QED
  BY <1>3, <1>5, <1>7 DEF IInv

\* Dispatch() changes neither the buffer nor the locks.
LEMMA ProcessingRequestStep ==
    ASSUME IInv, ProcessingRequest
    PROVE  IInv'
<1>1. /\ UNCHANGED <<msgs, sent, rcvd, inputVars, runVars, fRequest, lock>>
      /\ fState' = "SendingResponse"
  BY DEF ProcessingRequest, clientVars
<1>2. StreamInv' /\ BufferInv'
  BY <1>1 DEF IInv, StreamInv, BufferInv, BufferExact, inputVars
<1>3. BodyInv' /\ NoRequestYet'
  BY <1>1 DEF BodyInv, NoRequestYet
<1>4. ThreadInv' /\ LockOwner'
  BY <1>1 DEF IInv, ThreadInv, LockOwner, runVars, NoRequest, Request
<1>. QED
  BY <1>2, <1>3, <1>4 DEF IInv

\* A response that does not go out at once: the thread stays the same.
LEMMA SendingResponseStep ==
    ASSUME IInv, SendingResponse
    PROVE  IInv'
<1>1. /\ UNCHANGED <<msgs, sent, rcvd, inputVars, fRequest, lock, alive>>
      /\ runner # NoThread /\ fState = "SendingResponse"
      /\ \/ fState' = "CleaningUp" /\ UNCHANGED <<fUseThisThread, runner>>
         \/ fState' = fState /\ fUseThisThread' = runner /\ runner' = NoThread
  BY DEF SendingResponse, In, Await, clientVars
<1>2. StreamInv' /\ BufferInv'
  BY <1>1 DEF IInv, StreamInv, BufferInv, BufferExact, inputVars
<1>3. BodyInv' /\ NoRequestYet'
  BY <1>1 DEF BodyInv, NoRequestYet
<1>4. ThreadInv' /\ LockOwner'
  BY <1>1 DEF IInv, ThreadInv, LockOwner, Free, NoRequest, Request
<1>. QED
  BY <1>2, <1>3, <1>4 DEF IInv

\* While a request is read there is no request and no lock.
LEMMA ReadingStep ==
    ASSUME IInv, Reading, UNCHANGED <<fRequest, lock, alive, fUseThisThread>>,
           fState' \in {fState, "HaveCompleteMessage"},
           runner' \in {runner, NoThread}
    PROVE  BodyInv' /\ NoRequestYet' /\ ThreadInv' /\ LockOwner'
<1>1. fState \in {"ReadingFirstRequest", "ReadingRequest"} /\ runner # NoThread /\ alive
  BY DEF Reading, In, IInv, ThreadInv
<1>2. fRequest = NoRequest /\ lock.count = 0
  BY <1>1 DEF IInv, NoRequestYet, LockOwner
<1>3. BodyInv' /\ NoRequestYet'
  BY <1>1, <1>2 DEF BodyInv, NoRequestYet, NoRequest, Request
<1>4. ThreadInv'
  BY <1>1 DEF IInv, ThreadInv, Free
<1>5. LockOwner'
  BY <1>2 DEF LockOwner, NoRequest, Request
<1>. QED
  BY <1>3, <1>4, <1>5

\* What is left of the last read becomes the start of the buffer.
LEMMA TakeLeftoverStep ==
    ASSUME IInv, TakeLeftover
    PROVE  IInv'
<1>1. /\ UNCHANGED <<msgs, sent, rcvd, runVars, fRequest, lock>>
      /\ Reading
      /\ fCurOffset' = fRetreatBytes /\ fRetreatBytesRead' = 0
      /\ Scan(fRequestBuffer', fRetreatBytes, fRetreatBytes)
  BY DEF TakeLeftover, clientVars
<1>2. /\ fLen' \in Nat /\ fRetreatBytes' \in Nat
      /\ fRetreatBytes = fLen' + fRetreatBytes'
      /\ fRequestPtr' \in BOOLEAN
      /\ ~fRequestPtr' => fRetreatBytes' = 0
      /\ fState' \in {fState, "HaveCompleteMessage"}
  BY <1>1, ScanExact DEF IInv, BufferInv
<1>3. /\ fRetreatBytesRead' \in Nat /\ fCurOffset' \in Nat /\ fCurOffset' < BufferSize
      /\ fCurOffset' = fLen' + fRetreatBytesRead' + fRetreatBytes'
  <2>1. /\ fRetreatBytes \in Nat /\ fRetreatBytes <= fCurOffset
        /\ fCurOffset \in Nat /\ fCurOffset < BufferSize
    BY DEF IInv, BufferInv, BufferExact
  <2>2. fCurOffset' = fRetreatBytes /\ fRetreatBytesRead' = 0
    BY <1>1
  <2>3. fLen' \in Nat /\ fRetreatBytes' \in Nat /\ fRetreatBytes = fLen' + fRetreatBytes'
    BY <1>2
  <2>4. fRetreatBytes = fLen' + 0 + fRetreatBytes'
    BY <2>1, <2>3, SumZero
  <2>5. fRetreatBytes < BufferSize /\ 0 \in Nat
    BY <2>1, BufferSizeNat, Smaller
  <2>. QED
    BY <2>1, <2>2, <2>4, <2>5, Zenon
<1>4. BufferInv'
  BY <1>1, <1>2, <1>3, Zenon DEF BufferInv, BufferExact
<1>5. StreamInv'
  BY <1>1 DEF IInv, StreamInv
<1>6. BodyInv' /\ NoRequestYet' /\ ThreadInv' /\ LockOwner'
  BY <1>1, <1>2, ReadingStep DEF runVars
<1>. QED
  BY <1>4, <1>5, <1>6 DEF IInv

\* The read is no longer than the room in the buffer.
LEMMA ReadSocketStep ==
    ASSUME IInv, ReadSocket
    PROVE  IInv'
<1>. DEFINE space == BufferSize - fCurOffset - 1
            n == ReadLength(space)
<1>1. /\ UNCHANGED <<msgs, sent, fRequest, lock, alive, fUseThisThread>>
      /\ Reading /\ ~fRequestPtr /\ runner' \in {runner, NoThread}
  BY DEF ReadSocket, Await, clientVars
<1>2. /\ fLen \in Nat /\ fRetreatBytes = 0 /\ fRetreatBytesRead = 0
      /\ fCurOffset \in Nat /\ fCurOffset = fLen /\ fCurOffset < BufferSize
      /\ fRequestPtr \in BOOLEAN
  <2>1. fRetreatBytes = 0 /\ fRetreatBytesRead = 0
    BY <1>1 DEF IInv, BufferInv, BufferExact
  <2>. QED
    BY <2>1 DEF IInv, BufferInv, BufferExact
<1>3. n \in Int /\ n <= space /\ n <= sent - rcvd
  <2>1. space \in Int /\ Available \in Int
    BY <1>2, SessionAssumption DEF IInv, StreamInv, Available
  <2>. QED
    BY <2>1, MinOfTwo DEF ReadLength, Available
<1>4. CASE UNCHANGED <<rcvd, inputVars, fState>>
  <2>1. StreamInv' /\ BufferInv'
    BY <1>1, <1>4 DEF IInv, StreamInv, BufferInv, BufferExact, inputVars
  <2>2. BodyInv' /\ NoRequestYet' /\ ThreadInv' /\ LockOwner'
    BY <1>1, <1>4, ReadingStep
  <2>. QED
    BY <2>1, <2>2 DEF IInv
<1>5. CASE /\ n > 0 /\ rcvd' = rcvd + n /\ fCurOffset' = fCurOffset + n
           /\ Scan(fRequestBuffer', fLen + n, fCurOffset + n)
           /\ UNCHANGED fRetreatBytesRead
  <2>1. fLen + n \in Nat
    BY <1>2, <1>3, <1>5
  <2>2. /\ fLen' \in Nat /\ fRetreatBytes' \in Nat
        /\ fLen + n = fLen' + fRetreatBytes'
        /\ fRequestPtr' \in BOOLEAN
        /\ ~fRequestPtr' => fRetreatBytes' = 0
        /\ fState' \in {fState, "HaveCompleteMessage"}
    BY <1>5, <2>1, ScanExact
  <2>3. /\ fRetreatBytesRead' = 0 /\ fRetreatBytesRead' \in Nat
        /\ fCurOffset' \in Nat /\ fCurOffset' < BufferSize
        /\ fCurOffset' = fLen' + fRetreatBytesRead' + fRetreatBytes'
    <3>1. n > 0 /\ fCurOffset' = fCurOffset + n /\ fRetreatBytesRead' = fRetreatBytesRead
      BY <1>5
    <3>2. fLen' \in Nat /\ fRetreatBytes' \in Nat /\ fLen + n = fLen' + fRetreatBytes'
      BY <2>2
    <3>3. /\ fLen \in Nat /\ fRetreatBytesRead = 0
          /\ fCurOffset \in Nat /\ fCurOffset = fLen
      BY <1>2
    <3>4. fLen + n = fLen' + 0 + fRetreatBytes'
      BY <2>1, <3>2, SumZero
    <3>5. fLen + n < BufferSize /\ 0 \in Nat
      BY <1>3, <3>3, BufferSizeNat
    <3>. QED
      BY <2>1, <3>1, <3>3, <3>4, <3>5, Zenon
  <2>4. BufferInv'
    BY <2>2, <2>3, Zenon DEF BufferInv, BufferExact
  <2>5. StreamInv'
    BY <1>1, <1>3, <1>5 DEF IInv, StreamInv
  <2>6. BodyInv' /\ NoRequestYet' /\ ThreadInv' /\ LockOwner'
    BY <1>1, <2>2, ReadingStep
  <2>. QED
    BY <2>4, <2>5, <2>6 DEF IInv
<1>. QED
  BY <1>4, <1>5 DEF ReadSocket

\* The body is read from what was put back and then from the socket, never past
\* its announced length; a session that waits keeps its thread.
LEMMA FilteringRequestStep ==
    ASSUME IInv, FilteringRequest
    PROVE  IInv'
<1>. DEFINE need == ContentLength - fRequest.len
            back == Min({need, fRetreatBytes})
            fails == need > back /\ ReadFails(need - back)
            n == IF fails THEN 0 ELSE ReadLength(need - back)
<1>1. /\ UNCHANGED <<msgs, sent, fRequestBuffer, fLen, fCurOffset, fRequestPtr, lock, alive>>
      /\ runner # NoThread /\ fState = "FilteringRequest"
      /\ fRetreatBytes' = fRetreatBytes - back
      /\ fRetreatBytesRead' = fRetreatBytesRead + back
      /\ rcvd' = rcvd + n
      /\ \E b : fRequest' = Request(Parsed, b, fRequest.len + back + n)
      /\ \/ /\ back + n = need /\ fState' = "ProcessingRequest"
            /\ UNCHANGED <<fUseThisThread, runner>>
         \/ /\ back + n < need /\ fState' = fState
            /\ fUseThisThread' = runner /\ runner' = NoThread
  BY DEF FilteringRequest, In, ReadRetreat, WouldBlock, Await, clientVars
<1>2. alive /\ ContentLength \in Nat /\ fRequest.len \in 0 .. ContentLength
  BY <1>1, ContentLengthNat DEF IInv, ThreadInv, BodyInv
<1>3. /\ fRetreatBytes \in Nat /\ fRetreatBytesRead \in Nat
      /\ rcvd \in Nat /\ sent \in Nat /\ rcvd <= sent
  BY DEF IInv, BufferInv, StreamInv
<1>4. need \in Nat
  BY <1>2
<1>5. back \in Nat /\ back <= need /\ back <= fRetreatBytes
  <2>1. need \in Int /\ fRetreatBytes \in Int
    BY <1>3, <1>4
  <2>. HIDE DEF need
  <2>2. /\ back \in Int /\ (back = need \/ back = fRetreatBytes)
        /\ back <= need /\ back <= fRetreatBytes
    BY <2>1, MinOfTwo
  <2>. HIDE DEF back
  <2>. QED
    BY <1>3, <1>4, <2>2
<1>6. n \in Nat /\ n <= need - back /\ n <= sent - rcvd
  <2>. HIDE DEF need, back
  <2>1. CASE fails
    BY <1>3, <1>4, <1>5, <2>1
  <2>2. CASE ~fails
    <3>1. n = Min({need - back, Available}) /\ need - back \in Int /\ Available \in Int
      BY <1>3, <1>4, <1>5, <2>2 DEF ReadLength, Available
    <3>. HIDE DEF n
    <3>2. /\ n \in Int /\ (n = need - back \/ n = Available)
          /\ n <= need - back /\ n <= Available
      BY <3>1, MinOfTwo
    <3>. QED
      BY <1>3, <1>4, <1>5, <3>2 DEF Available
  <2>. QED
    BY <2>1, <2>2
<1>. HIDE DEF n, back, fails
<1>7. /\ fRetreatBytesRead + back \in Nat /\ fRetreatBytes - back \in Nat
      /\ fLen + fRetreatBytesRead + fRetreatBytes
            = fLen + (fRetreatBytesRead + back) + (fRetreatBytes - back)
  BY <1>3, <1>5, SumMoved DEF IInv, BufferInv
<1>8. BufferInv'
  <2>1. /\ fRequestPtr' = fRequestPtr /\ fLen' = fLen /\ fCurOffset' = fCurOffset
        /\ fRetreatBytes' = fRetreatBytes - back
        /\ fRetreatBytesRead' = fRetreatBytesRead + back
    BY <1>1
  <2>2. fCurOffset' = fLen' + fRetreatBytesRead' + fRetreatBytes'
    BY <1>7, <2>1, Zenon DEF IInv, BufferInv, BufferExact
  <2>3. ASSUME ~fRequestPtr PROVE fRetreatBytes - back = 0 /\ fRetreatBytesRead + back = 0
    <3>1. fRetreatBytes = 0 /\ fRetreatBytesRead = 0
      BY <2>3 DEF IInv, BufferInv, BufferExact
    <3>. QED
      BY <1>5, <3>1
  <2>. QED
    BY <1>7, <2>1, <2>2, <2>3, Zenon DEF IInv, BufferInv, BufferExact
<1>9. StreamInv'
  BY <1>1, <1>3, <1>6 DEF IInv, StreamInv
<1>10. fRequest' # NoRequest /\ fRequest # NoRequest /\ fRequest'.len = fRequest.len + back + n
  <2>1. fRequest.len + back + n \in Nat
    BY <1>2, <1>5, <1>6
  <2>2. fRequest # NoRequest
    BY <1>2 DEF NoRequest, Request
  <2>. QED
    BY <1>1, <2>1, <2>2, RequestIsThere
<1>11. BodyInv' /\ NoRequestYet'
  <2>1. ContentLength' = ContentLength
    BY <1>1, ContentLengthSame
  <2>. QED
    BY <1>1, <1>2, <1>5, <1>6, <1>10, <2>1 DEF BodyInv, NoRequestYet
<1>12. ThreadInv' /\ LockOwner'
  BY <1>1, <1>2, <1>10 DEF IInv, ThreadInv, LockOwner, Free, NoRequest, Request
<1>. QED
  BY <1>8, <1>9, <1>11, <1>12 DEF IInv

----------------------------------------------------------------------------
\* Every step of the session, its client and the two signalling threads
\* preserves the invariant.
LEMMA NextInv == IInv /\ [Next]_vars => IInv'
<1>. SUFFICES ASSUME IInv, [Next]_vars PROVE IInv'
  OBVIOUS
<1>1. CASE UNCHANGED vars
  <2>1. UNCHANGED <<msgs, sent, rcvd, inputVars, fState, fRequest, lock, runVars>>
    BY <1>1 DEF vars, clientVars
  <2>2. ContentLength' = ContentLength
    BY <2>1, ContentLengthSame DEF inputVars
  <2>. QED
    BY <2>1, <2>2 DEF IInv, StreamInv, BufferInv, BufferExact, BodyInv, NoRequestYet, ThreadInv,
         LockOwner, inputVars, runVars
<1>2. CASE ClientSends \/ ClientReads \/ ClientCloses \/ ProcessEvent \/ TimeoutExpires
  BY <1>2, EnvironmentStep
<1>3. CASE Run
  BY <1>3, BeginRunStep, TakeLeftoverStep, ReadSocketStep, HaveCompleteMessageStep,
     FilteringRequestStep, ProcessingRequestStep, SendingResponseStep, CleaningUpStep,
     EndSessionStep DEF Run
<1>. QED
  BY <1>1, <1>2, <1>3 DEF Next

\* The invariant holds in every state of every session.
THEOREM SessionInvariant == Spec => []IInv
BY InitInv, NextInv, PTL DEF Spec

\* The request buffer is accounted for: what ReadRequest reads fits into it with
\* its '\0', and the leftover that is moved to the front is the leftover.
THEOREM BufferTheorem == Spec => []BufferExact
<1>1. IInv => BufferExact
  BY DEF IInv, BufferInv
<1>. QED
  BY <1>1, SessionInvariant, PTL

\* The mutexes are held by the thread that runs the session next, which alone can
\* unlock them, and by nobody between two requests or after the session.
THEOREM LockTheorem == Spec => []LockOwner
<1>1. IInv => LockOwner
  BY DEF IInv
<1>. QED
  BY <1>1, SessionInvariant, PTL

----------------------------------------------------------------------------
(* What a sleeping session has used *)

\* A buffer that is not marked as complete holds no complete head, and a session
\* that waits for input waits for a head, or has used up what was put back.
SleepInv ==
    /\ ~fRequestPtr => HeadEnds(fRequestBuffer, fLen) = {}
    /\ alive /\ runner = NoThread /\ watch = "EV_RE" =>
          IF fState = "FilteringRequest" THEN fRetreatBytes = 0 ELSE ~fRequestPtr

\* Scan leaves a buffer unmarked only if it found no head in it.
LEMMA ScanFindsHeads ==
    ASSUME msgs' = msgs, NEW len, NEW curOffset, Scan(fRequestBuffer', len, curOffset), ~fRequestPtr'
    PROVE  HeadEnds(fRequestBuffer, fLen)' = {}
<1>1. HeadEnds(fRequestBuffer', len) = {} /\ fLen' = len
  BY DEF Scan
<1>. QED
  BY <1>1 DEF HeadEnds, IsDataPacket, EndsHead

\* A step that leaves the buffer alone.
LEMMA HeadsStay ==
    ASSUME SleepInv, UNCHANGED <<msgs, fRequestBuffer, fLen, fRequestPtr>>
    PROVE  ~fRequestPtr' => HeadEnds(fRequestBuffer, fLen)' = {}
BY DEF SleepInv, HeadEnds, IsDataPacket, EndsHead

LEMMA SleepStep == IInv /\ SleepInv /\ [Next]_vars => SleepInv'
<1>. SUFFICES ASSUME IInv, SleepInv, [Next]_vars PROVE SleepInv'
  OBVIOUS
<1>1. ASSUME UNCHANGED <<msgs, inputVars, fState, runner, watch, alive>> PROVE SleepInv'
  BY <1>1, HeadsStay DEF SleepInv, inputVars
<1>2. CASE UNCHANGED vars \/ ClientSends \/ ClientReads \/ ClientCloses \/ ProcessEvent \/ TimeoutExpires
  BY <1>1, <1>2 DEF vars, ClientSends, ClientReads, ClientCloses, ProcessEvent, TimeoutExpires, Signal,
       clientVars, runVars
<1>3. ASSUME UNCHANGED <<msgs, inputVars>>, runner' # NoThread \/ ~alive' \/ watch' # "EV_RE" PROVE SleepInv'
  BY <1>3, HeadsStay DEF SleepInv, inputVars
<1>4. ASSUME NEW th \in Threads, BeginRun(th) PROVE SleepInv'
  BY <1>3, <1>4, SessionAssumption DEF BeginRun, clientVars
<1>5. CASE HaveCompleteMessage \/ ProcessingRequest \/ CleaningUp
  BY <1>3, <1>5 DEF HaveCompleteMessage, ProcessingRequest, CleaningUp, In, clientVars, runVars
<1>6. CASE SendingResponse
  BY <1>3, <1>6 DEF SendingResponse, In, Await, clientVars
<1>7. CASE EndSession
  BY <1>3, <1>7 DEF EndSession, clientVars
<1>8. CASE TakeLeftover
  <2>1. msgs' = msgs /\ runner' = runner /\ runner # NoThread /\ Scan(fRequestBuffer', fRetreatBytes, fRetreatBytes)
    BY <1>8 DEF TakeLeftover, Reading, In, clientVars, runVars
  <2>. QED
    BY <2>1, ScanFindsHeads DEF SleepInv
<1>9. CASE ReadSocket
  <2>. DEFINE n == ReadLength(BufferSize - fCurOffset - 1)
  <2>1. msgs' = msgs /\ ~fRequestPtr /\ runner # NoThread /\ fState # "FilteringRequest"
    BY <1>9 DEF ReadSocket, Reading, In, clientVars
  <2>2. CASE UNCHANGED <<inputVars, fState>>
    BY <2>1, <2>2, HeadsStay DEF SleepInv, inputVars
  <2>3. CASE Scan(fRequestBuffer', fLen + n, fCurOffset + n) /\ runner' = runner
    BY <2>1, <2>3, ScanFindsHeads DEF SleepInv
  <2>. QED
    BY <1>9, <2>2, <2>3 DEF ReadSocket
<1>10. CASE FilteringRequest
  <2>. DEFINE need == ContentLength - fRequest.len
              back == Min({need, fRetreatBytes})
              fails == need > back /\ ReadFails(need - back)
              n == IF fails THEN 0 ELSE ReadLength(need - back)
  <2>1. /\ UNCHANGED <<msgs, fRequestBuffer, fLen, fRequestPtr>> /\ runner # NoThread /\ alive
        /\ fState = "FilteringRequest" /\ fRetreatBytes' = fRetreatBytes - back
        /\ (back + n < need /\ fState' = fState) \/ runner' = runner
    BY <1>10 DEF FilteringRequest, ReadRetreat, WouldBlock, Await, In, clientVars, IInv, ThreadInv
  <2>2. need \in Nat /\ fRetreatBytes \in Nat /\ sent - rcvd \in Nat
    BY <2>1, ContentLengthNat DEF IInv, BodyInv, BufferInv, StreamInv
  <2>3. back \in Int /\ (back = need \/ back = fRetreatBytes) /\ back <= need
    <3>. HIDE DEF need
    <3>. QED
      BY <2>2, MinOfTwo
  <2>. HIDE DEF back, need
  <2>4. n \in Nat \/ need - back < 0
    <3>1. CASE fails
      BY <3>1
    <3>2. CASE ~fails
      <4>1. n = Min({need - back, Available}) /\ need - back \in Int /\ Available \in Int /\ Available >= 0
        BY <2>2, <2>3, <3>2 DEF ReadLength, Available
      <4>. HIDE DEF n
      <4>2. n \in Int /\ (n = need - back \/ n = Available)
        BY <4>1, MinOfTwo
      <4>. QED
        BY <2>2, <2>3, <4>1, <4>2
    <3>. QED
      BY <3>1, <3>2
  <2>. HIDE DEF n
  <2>5. back + n < need => fRetreatBytes - back = 0
    BY <2>2, <2>3, <2>4
  <2>6. ~fRequestPtr' => HeadEnds(fRequestBuffer, fLen)' = {}
    BY <2>1, HeadsStay
  <2>. QED
    BY <2>1, <2>5, <2>6 DEF SleepInv
<1>. QED
  BY <1>2, <1>4, <1>5, <1>6, <1>7, <1>8, <1>9, <1>10 DEF Next, Run

\* A session that sleeps until more input comes has used what is in its buffer: no
\* request that has arrived waits for the next one to wake the session up.
THEOREM NoRequestStalls == Spec => []NoStalledRequest
<1>1. Init => SleepInv
  BY DEF Init, SleepInv, HeadEnds, IsDataPacket
<1>2. SleepInv => NoStalledRequest
  BY DEF SleepInv, NoStalledRequest
<1>. QED
  BY <1>1, <1>2, SleepStep, SessionInvariant, PTL DEF Spec

----------------------------------------------------------------------------
(* What the client gets *)

Cell == Nat \X Nat

\* A cell and the one behind it.
Follows(now, next) ==
    IF now[2] < ResponseSize THEN next = <<now[1], now[2] + 1>>
    ELSE next[2] = 1 /\ next[1] \in {now[1], now[1] + 1}

Chained(s) ==
    /\ s # <<>> => s[1] = <<1, 1>>
    /\ \A k \in 1 .. Len(s) - 1 : Follows(s[k], s[k + 1])

\* The cells that send() took and those that wait for it.
Unsent == SubSeq(fOutputBuffer, fBytesSentInBuffer + 1, Len(fOutputBuffer))
Written == delivered \o Unsent

\* A response was begun whose first cell may not have been written yet.
Building == fState \in {"FilteringRequest", "ProcessingRequest", "SendingResponse"}

\* The responses that may be the last one written: while a response is being
\* built, also the one before it.
LastWritten == IF Building THEN {responses - 1, responses} ELSE {responses}

\* The cells end with the end of a response of the set; 0 stands for none.
EndsWhole(s, last) ==
    IF s = <<>> THEN 0 \in last ELSE s[Len(s)][2] = ResponseSize /\ s[Len(s)][1] \in last

OutputInv ==
    /\ delivered \in Seq(Cell) /\ fOutputBuffer \in Seq(Cell)
    /\ fBytesSentInBuffer \in 0 .. Len(fOutputBuffer)
    /\ responses \in Nat /\ unread \in 0 .. SendBuffer
    /\ Chained(Written)
    /\ fState # "TimedOut" => EndsWhole(Written, LastWritten)
    /\ Building => responses > 0

\* The cells of a sequence behind another one, and of a part of a sequence.
Joined(u, s, t) ==
    /\ Len(u) = Len(s) + Len(t)
    /\ \A k \in 1 .. Len(s) : u[k] = s[k]
    /\ \A k \in 1 .. Len(t) : u[Len(s) + k] = t[k]

LEMMA ConcatCells ==
    ASSUME NEW S, NEW s \in Seq(S), NEW t \in Seq(S), NEW n, n = Len(s), NEW m, m = Len(t),
           NEW u, u = s \o t
    PROVE  /\ n \in Nat /\ m \in Nat
           /\ u \in Seq(S) /\ Len(u) = n + m
           /\ \A k \in 1 .. n : u[k] = s[k]
           /\ \A k \in 1 .. m : u[n + k] = t[k]
<1>1. n \in Nat /\ m \in Nat
  BY LenProperties
<1>2. /\ s \o t \in Seq(S)
      /\ Len(s \o t) = Len(s) + Len(t)
      /\ \A i \in 1 .. Len(s) + Len(t) : (s \o t)[i] = IF i <= Len(s) THEN s[i] ELSE t[i - Len(s)]
  BY ConcatProperties
<1>3. /\ u \in Seq(S)
      /\ Len(u) = n + m
      /\ \A i \in 1 .. n + m : u[i] = IF i <= n THEN s[i] ELSE t[i - n]
  BY <1>2, Zenon
<1>4. ASSUME NEW k \in 1 .. m PROVE u[n + k] = t[k]
  <2>1. n + k \in 1 .. n + m /\ ~(n + k <= n) /\ n + k - n = k
    BY <1>1
  <2>2. u[n + k] = t[n + k - n]
    BY <1>3, <2>1
  <2>. QED
    BY <2>1, <2>2, Zenon
<1>5. ASSUME NEW k \in 1 .. n PROVE u[k] = s[k]
  <2>1. k \in 1 .. n + m /\ k <= n
    BY <1>1
  <2>. QED
    BY <1>3, <2>1, Zenon
<1>. QED
  BY <1>1, <1>3, <1>4, <1>5

LEMMA ConcatJoined ==
    ASSUME NEW S, NEW s \in Seq(S), NEW t \in Seq(S)
    PROVE  s \o t \in Seq(S) /\ Joined(s \o t, s, t)
BY ConcatCells DEF Joined

LEMMA PartCells ==
    ASSUME NEW S, NEW s \in Seq(S), NEW a \in Nat, NEW b \in Nat, a <= b, b <= Len(s),
           NEW u, u = SubSeq(s, a + 1, b)
    PROVE  /\ u \in Seq(S) /\ Len(u) = b - a
           /\ \A k \in 1 .. b - a : u[k] = s[a + k]
<1>1. Len(s) \in Nat
  BY LenProperties
<1>2. a + 1 \in Int /\ b \in Int /\ \A i \in a + 1 .. b : i \in 1 .. Len(s)
  BY <1>1
<1>3. \A i \in a + 1 .. b : s[i] \in S
  BY <1>2, ElementOfSeq
<1>4. /\ u \in Seq(S)
      /\ Len(u) = IF a + 1 <= b THEN b - (a + 1) + 1 ELSE 0
      /\ \A k \in 1 .. b - (a + 1) + 1 : u[k] = s[a + 1 + k - 1]
  BY <1>2, <1>3, SubSeqProperties
<1>5. (IF a + 1 <= b THEN b - (a + 1) + 1 ELSE 0) = b - a
  OBVIOUS
<1>6. ASSUME NEW k \in 1 .. b - a PROVE u[k] = s[a + k]
  <2>1. k \in 1 .. b - (a + 1) + 1 /\ a + 1 + k - 1 = a + k
    OBVIOUS
  <2>. QED
    BY <1>4, <2>1, Zenon
<1>. QED
  BY <1>4, <1>5, <1>6, Zenon

IsResponse(t, r) == Len(t) = ResponseSize /\ \A j \in 1 .. ResponseSize : t[j] = <<r, j>>

\* A response behind whole responses.
LEMMA ChainGrows ==
    ASSUME NEW s \in Seq(Cell), Chained(s), NEW r \in Nat \ {0}, EndsWhole(s, {r - 1, r}),
           NEW t \in Seq(Cell), IsResponse(t, r),
           NEW u \in Seq(Cell), Joined(u, s, t)
    PROVE  /\ Chained(u)
           /\ u # <<>> /\ u[Len(u)] = <<r, ResponseSize>>
<1>1. PICK R \in Nat : R = ResponseSize /\ R > 0
  BY SessionAssumption
<1>2. Len(t) = R /\ \A j \in 1 .. R : t[j] = <<r, j>>
  BY <1>1 DEF IsResponse
<1>3. PICK n \in Nat : n = Len(s)
  BY LenProperties
<1>4. /\ n \in Nat
      /\ Len(u) = n + R
      /\ \A k \in 1 .. n : u[k] = s[k]
      /\ \A k \in 1 .. R : u[n + k] = t[k]
  BY <1>2, <1>3, Zenon DEF Joined
<1>5. \A k \in 1 .. R : u[n + k] = <<r, k>>
  BY <1>2, <1>4, Zenon
<1>6. u[n + R] = <<r, R>>
  <2>1. R \in 1 .. R
    BY <1>1
  <2>. QED
    BY <1>5, <2>1, Zenon
<1>7. u # <<>>
  <2>1. Len(u) # 0
    BY <1>1, <1>4
  <2>. QED
    BY <2>1, EmptySeq, Zenon
<1>8. u[1] = <<1, 1>>
  <2>1. CASE s = <<>>
    <3>1. n = 0 /\ r = 1
      BY <1>3, <2>1, EmptySeq DEF EndsWhole
    <3>2. 1 \in 1 .. R /\ n + 1 = 1
      BY <1>1, <3>1
    <3>3. u[n + 1] = <<r, 1>>
      BY <1>5, <3>2, Zenon
    <3>. QED
      BY <3>1, <3>2, <3>3
  <2>2. CASE s # <<>>
    <3>1. n \in Nat \ {0}
      BY <1>3, <2>2, EmptySeq
    <3>2. 1 \in 1 .. n
      BY <3>1
    <3>3. u[1] = s[1]
      BY <1>4, <3>2, Zenon
    <3>4. s[1] = <<1, 1>>
      BY <2>2 DEF Chained
    <3>. QED
      BY <3>3, <3>4
  <2>. QED
    BY <2>1, <2>2
<1>9. ASSUME NEW k \in 1 .. n + R - 1 PROVE Follows(u[k], u[k + 1])
  <2>1. CASE k < n
    <3>1. k \in 1 .. n - 1 /\ k \in 1 .. n /\ k + 1 \in 1 .. n
      BY <1>1, <1>4, <2>1
    <3>2. u[k] = s[k] /\ u[k + 1] = s[k + 1]
      BY <1>4, <3>1, Zenon
    <3>3. Follows(s[k], s[k + 1])
      BY <1>3, <3>1, Zenon DEF Chained
    <3>. QED
      BY <3>2, <3>3, Zenon
  <2>2. CASE k = n
    <3>1. k \in 1 .. n /\ 1 \in 1 .. R /\ n # 0
      BY <1>1, <1>4, <2>2
    <3>2. u[k] = s[n] /\ u[k + 1] = <<r, 1>>
      BY <1>4, <1>5, <2>2, <3>1, Zenon
    <3>3. s # <<>>
      BY <1>3, <3>1, EmptySeq
    <3>4. s[n][2] = R /\ s[n][1] \in {r - 1, r}
      BY <1>1, <1>3, <3>3 DEF EndsWhole
    <3>5. s[n] \in Cell
      BY <1>3, <2>2, <3>1, ElementOfSeq
    <3>6. PICK now \in Cell : now = s[n]
      BY <3>5
    <3>7. PICK next : next = <<r, 1>>
      OBVIOUS
    <3>8. next[2] = 1 /\ next[1] \in {now[1], now[1] + 1} /\ ~(now[2] < R)
      BY <1>1, <3>4, <3>6, <3>7 DEF Cell
    <3>9. Follows(now, next)
      BY <1>1, <3>8 DEF Follows
    <3>. QED
      BY <3>2, <3>6, <3>7, <3>9, Zenon
  <2>3. CASE k > n
    <3>1. PICK j \in 1 .. R : k = n + j /\ j + 1 \in 1 .. R /\ k + 1 = n + (j + 1) /\ j < R
      <4>1. k - n \in 1 .. R /\ k = n + (k - n) /\ k - n + 1 \in 1 .. R /\ k + 1 = n + (k - n + 1) /\ k - n < R
        BY <1>1, <1>4, <2>3
      <4>. QED
        BY <4>1
    <3>2. u[k] = <<r, j>> /\ u[k + 1] = <<r, j + 1>>
      BY <1>5, <3>1, Zenon
    <3>3. Follows(<<r, j>>, <<r, j + 1>>)
      BY <1>1, <3>1 DEF Follows
    <3>. QED
      BY <3>2, <3>3, Zenon
  <2>4. n \in Nat /\ k \in Nat
    BY <1>1, <1>4
  <2>5. k < n \/ k = n \/ k > n
    BY <2>4
  <2>. QED
    BY <2>1, <2>2, <2>3, <2>5, Zenon
<1>10. Chained(u)
  <2>1. 1 .. Len(u) - 1 = 1 .. n + R - 1
    BY <1>4
  <2>2. \A k \in 1 .. Len(u) - 1 : Follows(u[k], u[k + 1])
    BY <1>9, <2>1, Zenon
  <2>. QED
    BY <1>8, <2>2, Zenon DEF Chained
<1>. QED
  BY <1>1, <1>4, <1>6, <1>7, <1>10, Zenon

Rest(f, b) == SubSeq(f, b + 1, Len(f))
Taken(f, b, n) == SubSeq(f, b + 1, b + n)

\* The response is put behind what is not sent yet.
LEMMA RestGrows ==
    ASSUME NEW S, NEW d \in Seq(S), NEW f \in Seq(S), NEW t \in Seq(S), NEW b \in 0 .. Len(f),
           NEW g \in Seq(S), Joined(g, f, t)
    PROVE  d \o Rest(g, b) = (d \o Rest(f, b)) \o t
<1>1. PICK n \in Nat, m \in Nat : n = Len(f) /\ m = Len(t)
  BY LenProperties
<1>2. /\ n \in Nat /\ m \in Nat
      /\ Len(g) = n + m
      /\ \A k \in 1 .. n : g[k] = f[k]
      /\ \A k \in 1 .. m : g[n + k] = t[k]
  BY <1>1, Zenon DEF Joined
<1>3. b \in Nat /\ b <= n /\ b <= n + m /\ n + m \in Nat
  BY <1>1, <1>2
<1>4. PICK rest : rest = SubSeq(f, b + 1, n)
  OBVIOUS
<1>5. PICK all : all = SubSeq(g, b + 1, n + m)
  OBVIOUS
<1>6. n <= Len(f) /\ n + m <= Len(g)
  BY <1>1, <1>2
<1>7. /\ rest \in Seq(S) /\ Len(rest) = n - b
      /\ \A k \in 1 .. n - b : rest[k] = f[b + k]
  BY <1>2, <1>3, <1>4, <1>6, PartCells
<1>8. /\ all \in Seq(S) /\ Len(all) = n + m - b
      /\ \A k \in 1 .. n + m - b : all[k] = g[b + k]
  <2>1. PICK w \in Nat : w = n + m
    BY <1>3
  <2>2. /\ g \in Seq(S) /\ b \in Nat /\ w \in Nat
        /\ b <= w /\ w <= Len(g) /\ all = SubSeq(g, b + 1, w)
    BY <1>2, <1>3, <1>5, <1>6, <2>1
  <2>3. all \in Seq(S) /\ Len(all) = w - b /\ \A k \in 1 .. w - b : all[k] = g[b + k]
    BY ONLY <2>2, PartCells, SMTT(20)
  <2>4. w - b = n + m - b
    BY <2>1
  <2>. QED
    BY <2>3, <2>4, Zenon
<1>9. PICK both : both = rest \o t
  OBVIOUS
<1>10. PICK c \in Nat : c = n - b
  BY <1>2, <1>3
<1>11. /\ both \in Seq(S) /\ Len(both) = c + m
       /\ \A k \in 1 .. c : both[k] = rest[k]
       /\ \A k \in 1 .. m : both[c + k] = t[k]
  <2>1. rest \in Seq(S) /\ c = Len(rest)
    BY <1>7, <1>10
  <2>. QED
    BY <1>1, <1>9, <2>1, ConcatCells
<1>12. Len(all) = Len(both)
  BY <1>2, <1>3, <1>8, <1>10, <1>11
<1>13. ASSUME NEW i \in 1 .. Len(all) PROVE all[i] = both[i]
  <2>0. i \in 1 .. n + m - b
    BY <1>8
  <2>1. CASE i <= c
    <3>1. i \in 1 .. n - b /\ i \in 1 .. c /\ b + i \in 1 .. n
      BY <1>2, <1>3, <1>10, <2>0, <2>1
    <3>. QED
      BY <1>2, <1>7, <1>8, <1>11, <2>0, <3>1, Zenon
  <2>2. CASE i > c
    <3>1. PICK j \in 1 .. m : i = c + j /\ b + i = n + j
      <4>1. i - c \in 1 .. m /\ i = c + (i - c) /\ b + i = n + (i - c)
        BY <1>2, <1>3, <1>10, <2>0, <2>2
      <4>. QED
        BY <4>1
    <3>2. all[i] = g[b + i]
      BY <1>8, <2>0, Zenon
    <3>. QED
      BY <1>2, <1>11, <3>1, <3>2, Zenon
  <2>. QED
    BY <1>10, <2>0, <2>1, <2>2
<1>14. all = both
  BY <1>8, <1>11, <1>12, <1>13, SeqEqual, Zenon
<1>15. (d \o rest) \o t = d \o (rest \o t)
  <2>1. rest \in Seq(S)
    BY <1>7
  <2>2. \A s \in Seq(S) : (d \o s) \o t = d \o (s \o t)
    BY ConcatAssociative, SMTT(20)
  <2>. QED
    BY <2>1, <2>2, Zenon
<1>. QED
  BY <1>1, <1>2, <1>4, <1>5, <1>9, <1>14, <1>15, Zenon DEF Rest

\* What send() takes moves from the rest to what was delivered.
LEMMA SentMoves ==
    ASSUME NEW S, NEW d \in Seq(S), NEW f \in Seq(S), NEW b \in 0 .. Len(f), NEW n \in 0 .. Len(f) - b
    PROVE  /\ d \o Taken(f, b, n) \in Seq(S)
           /\ (d \o Taken(f, b, n)) \o Rest(f, b + n) = d \o Rest(f, b)
<1>1. PICK l : l = Len(f)
  OBVIOUS
<1>2. l \in Nat /\ b \in Nat /\ n \in Nat /\ b + n \in Nat /\ b <= b + n /\ b + n <= l /\ b <= l
  BY <1>1, LenProperties
<1>3. PICK x, y, z : x = SubSeq(f, b + 1, b + n) /\ y = SubSeq(f, b + n + 1, l) /\ z = SubSeq(f, b + 1, l)
  OBVIOUS
<1>4. PICK c \in Nat, e \in Nat : c = b + n /\ e = l - c
  BY <1>2
<1>5. b <= c /\ c <= l /\ l <= l /\ c - b = n /\ l - b = n + e
  BY <1>2, <1>4
<1>6. x \in Seq(S) /\ Len(x) = n /\ \A k \in 1 .. n : x[k] = f[b + k]
  <2>1. x \in Seq(S) /\ Len(x) = c - b /\ \A k \in 1 .. c - b : x[k] = f[b + k]
    <3>1. x = SubSeq(f, b + 1, c) /\ c <= Len(f)
      BY <1>1, <1>3, <1>4, <1>5, Zenon
    <3>. QED
      BY <1>2, <1>5, <3>1, PartCells
  <2>. QED
    BY <1>5, <2>1, Zenon
<1>7. y \in Seq(S) /\ Len(y) = e /\ \A k \in 1 .. e : y[k] = f[c + k]
  <2>1. y \in Seq(S) /\ Len(y) = l - c /\ \A k \in 1 .. l - c : y[k] = f[c + k]
    BY <1>1, <1>2, <1>3, <1>4, <1>5, PartCells
  <2>. QED
    BY <1>4, <2>1, Zenon
<1>8. z \in Seq(S) /\ Len(z) = n + e /\ \A k \in 1 .. n + e : z[k] = f[b + k]
  <2>1. z \in Seq(S) /\ Len(z) = l - b /\ \A k \in 1 .. l - b : z[k] = f[b + k]
    BY <1>1, <1>2, <1>3, <1>5, PartCells
  <2>. QED
    BY <1>5, <2>1, Zenon
<1>9. PICK both : both = x \o y
  OBVIOUS
<1>10. /\ both \in Seq(S) /\ Len(both) = n + e
       /\ \A k \in 1 .. n : both[k] = x[k]
       /\ \A k \in 1 .. e : both[n + k] = y[k]
  <2>1. x \in Seq(S) /\ n = Len(x)
    BY <1>6
  <2>2. y \in Seq(S) /\ e = Len(y)
    BY <1>7
  <2>. QED
    BY <1>9, <2>1, <2>2, ConcatCells
<1>11. ASSUME NEW i \in 1 .. Len(both) PROVE both[i] = z[i]
  <2>0. i \in 1 .. n + e
    BY <1>10, Zenon
  <2>1. CASE i <= n
    <3>1. i \in 1 .. n
      BY <2>0, <2>1
    <3>. QED
      BY <1>6, <1>8, <1>10, <2>0, <3>1, Zenon
  <2>2. CASE i > n
    <3>1. PICK j \in 1 .. e : i = n + j /\ b + i = c + j
      <4>1. i - n \in 1 .. e /\ i = n + (i - n) /\ b + i = c + (i - n)
        BY <1>2, <1>4, <2>0, <2>2
      <4>. QED
        BY <4>1
    <3>2. z[i] = f[c + j] /\ both[i] = y[j]
      BY <1>8, <1>10, <2>0, <3>1, Zenon
    <3>. QED
      BY <1>7, <3>1, <3>2, Zenon
  <2>. QED
    BY <1>2, <2>0, <2>1, <2>2
<1>12. Len(both) = Len(z)
  BY <1>8, <1>10, Zenon
<1>13. both = z
  BY <1>8, <1>10, <1>11, <1>12, SeqEqual, Zenon
<1>14. (d \o x) \o y = d \o (x \o y)
  <2>1. x \in Seq(S) /\ y \in Seq(S)
    BY <1>6, <1>7
  <2>. QED
    BY <2>1, ConcatAssociative, SMTT(20)
<1>15. d \o x \in Seq(S)
  BY <1>6, ConcatProperties, Zenon
<1>. QED
  BY <1>1, <1>3, <1>9, <1>13, <1>14, <1>15, Zenon DEF Rest, Taken

\* What was written and not sent is behind what was sent.
LEMMA WrittenCells ==
    ASSUME OutputInv
    PROVE  Written \in Seq(Cell) /\ Joined(Written, delivered, Unsent)
<1>1. PICK C : C = Cell
  OBVIOUS
<1>2. PICK d, f, b : d = delivered /\ f = fOutputBuffer /\ b = fBytesSentInBuffer
  OBVIOUS
<1>3. d \in Seq(C) /\ f \in Seq(C) /\ b \in 0 .. Len(f)
  BY <1>1, <1>2 DEF OutputInv
<1>4. Len(f) \in Nat /\ b \in Nat /\ b <= Len(f) /\ Len(f) <= Len(f)
  BY <1>3, LenProperties
<1>5. SubSeq(f, b + 1, Len(f)) \in Seq(C)
  BY <1>3, <1>4, PartCells
<1>6. Unsent \in Seq(C)
  BY <1>2, <1>5, Zenon DEF Unsent
<1>7. \A s \in Seq(C) : d \o s \in Seq(C) /\ Joined(d \o s, d, s)
  BY <1>3, ConcatJoined
<1>. QED
  BY <1>1, <1>2, <1>6, <1>7, Zenon DEF Written

\* The steps that write and send nothing.
LEMMA OutputKept ==
    ASSUME OutputInv,
           UNCHANGED <<delivered, fOutputBuffer, fBytesSentInBuffer, responses>>,
           unread' \in 0 .. SendBuffer,
           fState' # "TimedOut" => fState # "TimedOut" /\ (Building' <=> Building)
    PROVE  OutputInv'
<1>1. Written' = Written
  BY Zenon DEF Written, Unsent
<1>2. CASE fState' = "TimedOut"
  BY <1>1, <1>2 DEF OutputInv, Building
<1>3. CASE fState' # "TimedOut"
  <2>1. LastWritten' = LastWritten
    BY <1>3, Zenon DEF LastWritten
  <2>2. EndsWhole(Written, LastWritten)'
    BY <1>1, <1>3, <2>1, Zenon DEF OutputInv, EndsWhole
  <2>3. Chained(Written)'
    BY <1>1, Zenon DEF OutputInv, Chained, Follows
  <2>. QED
    BY <1>3, <2>2, <2>3 DEF OutputInv
<1>. QED
  BY <1>2, <1>3

\* A response is begun behind whole responses.
LEMMA OutputBegun ==
    ASSUME OutputInv, HaveCompleteMessage
    PROVE  OutputInv'
<1>1. Written' = Written
  BY DEF HaveCompleteMessage, outputVars, Written, Unsent
<1>2. /\ UNCHANGED <<delivered, fOutputBuffer, fBytesSentInBuffer, unread>>
      /\ responses' = responses + 1 /\ responses \in Nat
      /\ fState = "HaveCompleteMessage" /\ Building'
  BY DEF HaveCompleteMessage, outputVars, In, Building, OutputInv
<1>3. EndsWhole(Written, {responses})
  BY <1>2 DEF OutputInv, LastWritten, Building
<1>4. PICK w : w = Written
  OBVIOUS
<1>4a. PICK r \in Nat : r = responses
  BY <1>2
<1>5. EndsWhole(w, {r})
  BY <1>3, <1>4, <1>4a, Zenon
<1>6. EndsWhole(w, {(r + 1) - 1, r + 1})
  <2>1. r \in {(r + 1) - 1, r + 1}
    OBVIOUS
  <2>2. CASE w = <<>>
    BY <1>5, <2>1, <2>2 DEF EndsWhole
  <2>3. CASE w # <<>>
    BY <1>5, <2>1, <2>3, Zenon DEF EndsWhole
  <2>. QED
    BY <2>2, <2>3
<1>7. LastWritten' = {(r + 1) - 1, r + 1}
  BY <1>2, <1>4a DEF LastWritten
<1>8. EndsWhole(Written, LastWritten)'
  BY <1>1, <1>4, <1>6, <1>7, Zenon DEF EndsWhole
<1>9. Chained(Written)'
  BY <1>1, Zenon DEF OutputInv, Chained, Follows
<1>10. responses' \in Nat /\ responses' > 0
  BY <1>2
<1>. QED
  BY <1>2, <1>8, <1>9, <1>10, Zenon DEF OutputInv

\* The response goes behind what was written, whatever send() takes of it.
LEMMA OutputSent ==
    ASSUME OutputInv, SendingResponse
    PROVE  OutputInv'
<1>0. PICK r \in Nat \ {0} : r = responses
  BY DEF OutputInv, SendingResponse, In, Building
<1>1. PICK d, f, b, v : d = delivered /\ f = fOutputBuffer /\ b = fBytesSentInBuffer /\ v = unread
  OBVIOUS
<1>2. PICK C : C = Cell
  OBVIOUS
<1>3. d \in Seq(C) /\ f \in Seq(C) /\ b \in 0 .. Len(f) /\ v \in 0 .. SendBuffer
  BY <1>1, <1>2 DEF OutputInv
<1>4. PICK t : t = [j \in 1 .. ResponseSize |-> <<r, j>>]
  OBVIOUS
<1>5. t \in Seq(C) /\ IsResponse(t, r)
  BY <1>0, <1>2, <1>4, SessionAssumption DEF IsResponse, Cell
<1>6. PICK g \in Seq(C) : g = f \o t /\ Joined(g, f, t)
  BY <1>3, <1>5, ConcatJoined
<1>7. b \in 0 .. Len(g)
  <2>1. Len(g) = Len(f) + Len(t) /\ Len(f) \in Nat /\ Len(t) \in Nat
    BY <1>3, <1>5, <1>6, LenProperties DEF Joined
  <2>. QED
    BY <1>3, <2>1
<1>8. PICK l \in Nat : l = Len(g)
  BY LenProperties
<1>9. PICK n : /\ n \in 0 .. l - b /\ v + n \in 0 .. SendBuffer
               /\ Flush(g, n)
               /\ fState' = "CleaningUp" \/ fState' = "SendingResponse"
               /\ responses' = r
  <2>1. PICK k : /\ k = IF conn = "reset" THEN 0 ELSE Min({l - b, SendBuffer - v})
                 /\ Flush(g, k)
                 /\ fState' = "CleaningUp" \/ fState' = "SendingResponse"
                 /\ responses' = r
    BY <1>0, <1>1, <1>4, <1>6, <1>8 DEF SendingResponse, SetupResponse, In
  <2>2. l - b \in Nat /\ SendBuffer - v \in Nat /\ v \in Nat /\ SendBuffer \in Nat
    BY <1>3, <1>7, <1>8, SessionAssumption
  <2>3. k \in 0 .. l - b /\ v + k \in 0 .. SendBuffer
    <3>1. CASE conn = "reset"
      BY <2>1, <2>2, <3>1
    <3>2. CASE conn # "reset"
      <4>1. k = Min({l - b, SendBuffer - v})
        BY <2>1, <3>2
      <4>2. PICK x \in Nat, y \in Nat : x = l - b /\ y = SendBuffer - v
        BY <2>2
      <4>3. k \in Nat /\ k <= x /\ k <= y
        <5>1. k = Min({x, y}) /\ x \in Int /\ y \in Int
          BY <4>1, <4>2
        <5>2. (k = x \/ k = y) /\ k <= x /\ k <= y
          BY <5>1, MinOfTwo
        <5>. QED
          BY <5>2
      <4>. QED
        BY <2>2, <4>2, <4>3
    <3>. QED
      BY <3>1, <3>2
  <2>. QED
    BY <2>1, <2>3
<1>10. PICK w : w = d \o Rest(f, b)
  OBVIOUS
<1>11. w = Written
  BY <1>1, <1>10, Zenon DEF Written, Unsent, Rest
<1>12. d \o Rest(g, b) = w \o t
  <2>1. d \in Seq(C) /\ f \in Seq(C) /\ t \in Seq(C) /\ b \in 0 .. Len(f) /\ g \in Seq(C) /\ Joined(g, f, t)
    BY <1>3, <1>5, <1>6
  <2>2. d \o Rest(g, b) = (d \o Rest(f, b)) \o t
    BY <2>1, RestGrows, SMTT(60)
  <2>. QED
    BY <1>10, <2>2, Zenon
<1>13. /\ d \o Taken(g, b, n) \in Seq(C)
       /\ (d \o Taken(g, b, n)) \o Rest(g, b + n) = w \o t
  <2>1. d \in Seq(C) /\ g \in Seq(C) /\ b \in 0 .. Len(g) /\ n \in 0 .. Len(g) - b
    BY <1>3, <1>6, <1>7, <1>8, <1>9
  <2>2. /\ d \o Taken(g, b, n) \in Seq(C)
        /\ (d \o Taken(g, b, n)) \o Rest(g, b + n) = d \o Rest(g, b)
    BY ONLY <2>1, SentMoves, ZenonT(40)
  <2>. QED
    BY <1>12, <2>2, Zenon
<1>14. /\ delivered' = d \o Taken(g, b, n)
       /\ unread' = v + n
       /\ IF b + n = Len(g) THEN fOutputBuffer' = <<>> /\ fBytesSentInBuffer' = 0
          ELSE fOutputBuffer' = g /\ fBytesSentInBuffer' = b + n
  BY <1>1, <1>9 DEF Flush, Taken
<1>15. /\ fOutputBuffer' \in Seq(C) /\ fBytesSentInBuffer' \in 0 .. Len(fOutputBuffer')
       /\ Rest(fOutputBuffer', fBytesSentInBuffer') = Rest(g, b + n)
  <2>1. CASE b + n = Len(g)
    <3>1. Rest(g, b + n) = <<>>
      BY <1>8, <2>1, SubSeqEmpty DEF Rest
    <3>2. Rest(<<>>, 0) = <<>>
      BY SubSeqEmpty DEF Rest
    <3>3. <<>> \in Seq(C) /\ Len(<<>>) = 0
      BY EmptySeq
    <3>4. fOutputBuffer' = <<>> /\ fBytesSentInBuffer' = 0
      BY <1>14, <2>1
    <3>5. 0 \in 0 .. Len(<<>>)
      BY <3>3
    <3>. QED
      BY <3>1, <3>2, <3>3, <3>4, <3>5, Zenon
  <2>2. CASE b + n # Len(g)
    <3>1. fOutputBuffer' = g /\ fBytesSentInBuffer' = b + n
      BY <1>14, <2>2
    <3>2. b + n \in 0 .. Len(g)
      BY <1>7, <1>8, <1>9
    <3>. QED
      BY <1>6, <3>1, <3>2, Zenon
  <2>. QED
    BY <2>1, <2>2
<1>16. Written' = w \o t
  BY <1>13, <1>14, <1>15, Zenon DEF Written, Unsent, Rest
<1>17. w \in Seq(Cell) /\ Chained(w) /\ EndsWhole(w, {r - 1, r})
  <2>1. Written \in Seq(Cell)
    BY WrittenCells
  <2>2. Building /\ fState # "TimedOut"
    BY DEF SendingResponse, In, Building
  <2>3. LastWritten = {r - 1, r}
    BY <1>0, <2>2, Zenon DEF LastWritten
  <2>. QED
    BY <1>11, <2>1, <2>2, <2>3, Zenon DEF OutputInv
<1>18. PICK u \in Seq(Cell) : u = w \o t /\ Joined(u, w, t)
  <2>1. w \in Seq(C) /\ t \in Seq(C)
    BY <1>2, <1>5, <1>17, Zenon
  <2>2. w \o t \in Seq(C) /\ Joined(w \o t, w, t)
    BY <2>1, ConcatJoined
  <2>. QED
    BY <1>2, <2>2, Zenon
<1>19. Chained(u) /\ u # <<>> /\ u[Len(u)] = <<r, ResponseSize>>
  <2>1. t \in Seq(Cell)
    BY <1>2, <1>5, Zenon
  <2>. QED
    BY <1>0, <1>5, <1>17, <1>18, <2>1, ChainGrows
<1>20. Chained(Written)'
  BY <1>16, <1>18, <1>19, Zenon DEF Chained, Follows
<1>21. EndsWhole(Written, LastWritten)'
  <2>1. r \in LastWritten'
    BY <1>9 DEF LastWritten
  <2>2. u[Len(u)][2] = ResponseSize /\ u[Len(u)][1] = r
    BY <1>19
  <2>. QED
    BY <1>16, <1>18, <1>19, <2>1, <2>2, Zenon DEF EndsWhole
<1>22. responses' \in Nat /\ responses' > 0
  BY <1>9
<1>. QED
  BY <1>2, <1>9, <1>13, <1>14, <1>15, <1>20, <1>21, <1>22, Zenon DEF OutputInv

LEMMA OutputStep ==
    ASSUME OutputInv, [Next]_vars
    PROVE  OutputInv'
<1>. USE DEF Building
<1>0. unread \in 0 .. SendBuffer /\ SendBuffer \in Nat
  BY SessionAssumption DEF OutputInv
<1>1. CASE UNCHANGED vars
  BY <1>0, <1>1, OutputKept DEF vars, outputVars
<1>2. CASE ClientSends
  BY <1>0, <1>2, OutputKept DEF ClientSends, outputVars
<1>3. CASE ClientReads
  BY <1>0, <1>3, OutputKept DEF ClientReads
<1>4. CASE ClientCloses
  BY <1>0, <1>4, OutputKept DEF ClientCloses, outputVars
<1>5. CASE ProcessEvent \/ TimeoutExpires
  BY <1>0, <1>5, OutputKept DEF ProcessEvent, TimeoutExpires, Signal, outputVars
<1>6. ASSUME NEW th \in Threads, BeginRun(th) PROVE OutputInv'
  BY <1>0, <1>6, OutputKept DEF BeginRun, outputVars
<1>7. CASE TakeLeftover
  BY <1>0, <1>7, OutputKept DEF TakeLeftover, Reading, In, Scan, outputVars
<1>8. CASE ReadSocket
  <2>1. UNCHANGED <<outputVars, responses>> /\ ~Building /\ fState # "TimedOut"
    BY <1>8 DEF ReadSocket, Reading, In
  <2>2. fState' = fState \/ fState' = "HaveCompleteMessage"
    <3>1. \A buffer, len, offset : Scan(buffer, len, offset) => fState' = fState \/ fState' = "HaveCompleteMessage"
      BY DEF Scan
    <3>. QED
      BY <1>8, <3>1, Zenon DEF ReadSocket
  <2>. QED
    BY <1>0, <2>1, <2>2, OutputKept DEF outputVars
<1>9. CASE HaveCompleteMessage
  BY <1>9, OutputBegun
<1>10. CASE FilteringRequest
  BY <1>0, <1>10, OutputKept DEF FilteringRequest, WouldBlock, In, outputVars
<1>11. CASE ProcessingRequest
  BY <1>0, <1>11, OutputKept DEF ProcessingRequest, In, outputVars
<1>12. CASE SendingResponse
  BY <1>12, OutputSent
<1>13. CASE CleaningUp
  BY <1>0, <1>13, OutputKept DEF CleaningUp, In, outputVars
<1>14. CASE EndSession
  BY <1>0, <1>14, OutputKept DEF EndSession, outputVars
<1>. QED
  BY <1>1, <1>2, <1>3, <1>4, <1>5, <1>6, <1>7, <1>8, <1>9, <1>10, <1>11, <1>12, <1>13, <1>14
     DEF Next, Run

\* What was sent is the beginning of what was written.
LEMMA SentIsWhole ==
    ASSUME OutputInv
    PROVE  ResponsesWhole
<1>1. PICK d, w, x : d = delivered /\ w = Written /\ x = Unsent
  OBVIOUS
<1>2. d \in Seq(Cell) /\ w \in Seq(Cell) /\ Joined(w, d, x) /\ Chained(w)
  BY <1>1, WrittenCells, Zenon DEF OutputInv
<1>3. PICK n \in Nat, m \in Nat : n = Len(d) /\ m = Len(w)
  BY <1>2, LenProperties
<1>4. n <= m
  <2>1. Unsent \in Seq(Cell)
    BY DEF OutputInv, Unsent
  <2>2. Len(x) \in Nat
    BY <1>1, <2>1, LenProperties
  <2>. QED
    BY <1>2, <1>3, <2>2 DEF Joined
<1>5. \A k \in 1 .. n : w[k] = d[k]
  BY <1>2, <1>3, Zenon DEF Joined
<1>6. d # <<>> => d[1] = <<1, 1>>
  <2>1. SUFFICES ASSUME d # <<>> PROVE d[1] = <<1, 1>>
    OBVIOUS
  <2>2. n # 0 /\ 1 \in 1 .. n /\ m # 0
    BY <1>2, <1>3, <1>4, <2>1, EmptySeq
  <2>3. w # <<>>
    BY <1>3, <2>2, EmptySeq
  <2>. QED
    BY <1>2, <1>5, <2>2, <2>3, Zenon DEF Chained
<1>7. ASSUME NEW k \in 1 .. n - 1 PROVE Follows(d[k], d[k + 1])
  <2>1. k \in 1 .. n /\ k + 1 \in 1 .. n /\ k \in 1 .. m - 1
    BY <1>4
  <2>2. Follows(w[k], w[k + 1])
    BY <1>2, <1>3, <2>1, Zenon DEF Chained
  <2>. QED
    BY <1>5, <2>1, <2>2, Zenon
<1>. QED
  BY <1>1, <1>3, <1>6, <1>7, Zenon DEF ResponsesWhole, Follows

\* The cells the client gets are whole responses in the order of the requests,
\* and only the last one may be cut off (HTTPResponseStream::Flush after a send()
\* that took a part, and the response that HTTPSession::Run builds again behind it).
THEOREM ResponsesComeWhole == Spec => []ResponsesWhole
<1>1. Init => OutputInv
  <2>1. SUFFICES ASSUME Init PROVE OutputInv
    OBVIOUS
  <2>2. /\ delivered = <<>> /\ fOutputBuffer = <<>> /\ fBytesSentInBuffer = 0
        /\ responses = 0 /\ unread = 0 /\ fState = "ReadingFirstRequest"
    BY <2>1 DEF Init
  <2>3. SubSeq(<<>>, 0 + 1, Len(<<>>)) = <<>>
    BY SubSeqEmpty
  <2>4. Written = <<>>
    BY <2>2, <2>3 DEF Written, Unsent
  <2>5. Chained(Written) /\ EndsWhole(Written, LastWritten)
    BY <2>2, <2>4 DEF Chained, EndsWhole, LastWritten, Building
  <2>. QED
    BY <2>2, <2>5, SessionAssumption DEF OutputInv, Building
<1>2. OutputInv /\ [Next]_vars => OutputInv'
  BY OutputStep
<1>. QED
  BY <1>1, <1>2, SentIsWhole, PTL DEF Spec

----------------------------------------------------------------------------
(* What the requests are made of *)

\* A set of numbers that is not empty has a smallest one.
LEMMA SmallestExists ==
    ASSUME NEW S \in SUBSET Nat, S # {}
    PROVE  \E k \in S : \A j \in S : k <= j
<1>1. PICK k \in S : \A j \in S : ~(<<j, k>> \in OpToRel(<, Nat))
  BY NatLessThanWellFounded, WFMin, Zenon
<1>2. \A j \in S : ~(j < k)
  BY <1>1, Zenon DEF OpToRel
<1> QED
  BY <1>2

\* What holds at 0 and goes from one number to the next holds for all of them.
LEMMA Reaches ==
    ASSUME NEW N \in Nat, NEW T, 0 \in T, \A m \in 1 .. N : m - 1 \in T => m \in T
    PROVE  \A m \in 0 .. N : m \in T
<1>. DEFINE Bad == {m \in 0 .. N : m \notin T}
<1>1. SUFFICES ASSUME Bad # {} PROVE FALSE
  OBVIOUS
<1>2. Bad \in SUBSET Nat
  OBVIOUS
<1>3. PICK k \in Bad : \A j \in Bad : k <= j
  BY <1>1, <1>2, SmallestExists
<1>4. k # 0 /\ k \in 1 .. N /\ k - 1 \in 0 .. N /\ ~(k <= k - 1)
  BY <1>3
<1>5. k - 1 \in T
  BY <1>3, <1>4
<1>. QED
  BY <1>3, <1>4, <1>5

\* The streams of the first messages, as the recursion of StreamOf builds them.
Built(g, ms, m) == g = [n \in 0 .. m |-> IF n = 0 THEN <<>> ELSE g[n - 1] \o Cells(n, ms[n])]

\* One message more.
LEMMA BuiltStep ==
    ASSUME NEW ms, NEW m \in Nat \ {0}, NEW g, Built(g, ms, m - 1)
    PROVE  \E h : Built(h, ms, m)
<1>. DEFINE h == [n \in 0 .. m |-> IF n = m THEN g[m - 1] \o Cells(m, ms[m]) ELSE g[n]]
<1>1. ASSUME NEW n \in 0 .. m PROVE h[n] = IF n = 0 THEN <<>> ELSE h[n - 1] \o Cells(n, ms[n])
  <2>1. CASE n = m
    <3>1. m - 1 \in 0 .. m /\ m - 1 # m /\ n # 0 /\ m \in 0 .. m
      BY <2>1
    <3>2. h[m - 1] = g[m - 1] /\ h[m] = g[m - 1] \o Cells(m, ms[m])
      BY <3>1, Zenon
    <3>. QED
      BY <2>1, <3>1, <3>2, Zenon
  <2>2. CASE n # m
    <3>1. n \in 0 .. m - 1
      BY <2>2
    <3>2. h[n] = g[n] /\ g[n] = IF n = 0 THEN <<>> ELSE g[n - 1] \o Cells(n, ms[n])
      BY <2>2, <3>1, Zenon DEF Built
    <3>3. n # 0 => n - 1 \in 0 .. m /\ n - 1 # m
      BY <3>1
    <3>4. n # 0 => h[n - 1] = g[n - 1]
      BY <3>3, Zenon
    <3>. QED
      BY <3>2, <3>4, Zenon
  <2>. QED
    BY <2>1, <2>2
<1>2. h = [n \in 0 .. m |-> IF n = 0 THEN <<>> ELSE h[n - 1] \o Cells(n, ms[n])]
  <2>. DEFINE f == [n \in 0 .. m |-> IF n = 0 THEN <<>> ELSE h[n - 1] \o Cells(n, ms[n])]
  <2>1. \A n \in 0 .. m : h[n] = f[n]
    BY <1>1, Zenon
  <2>2. DOMAIN h = 0 .. m /\ DOMAIN f = 0 .. m
    BY Zenon
  <2>. QED
    BY <2>1, <2>2, Zenon
<1>. HIDE DEF h
<1>. QED
  BY <1>2, Zenon DEF Built

\* The recursion of StreamOf has a solution.
LEMMA StreamBuilt ==
    ASSUME NEW ms, Len(ms) \in Nat
    PROVE  \E g : Built(g, ms, Len(ms)) /\ StreamOf(ms) = g[Len(ms)]
<1>. DEFINE T == {m \in Nat : \E g : Built(g, ms, m)}
<1>1. 0 \in T
  <2>. DEFINE g == [n \in 0 .. 0 |-> <<>>]
  <2>1. g = [n \in 0 .. 0 |-> IF n = 0 THEN <<>> ELSE g[n - 1] \o Cells(n, ms[n])]
    <3>1. \A n \in 0 .. 0 : n = 0
      OBVIOUS
    <3>. QED
      BY <3>1, Zenon
  <2>. HIDE DEF g
  <2>. QED
    BY <2>1 DEF Built
<1>2. ASSUME NEW m \in 1 .. Len(ms), m - 1 \in T PROVE m \in T
  <2>1. m \in Nat \ {0}
    BY <1>2
  <2>2. \E h : Built(h, ms, m)
    BY <1>2, <2>1, BuiltStep
  <2>. QED
    BY <2>1, <2>2
<1>3. Len(ms) \in T
  <2>. HIDE DEF T
  <2>1. \A m \in 0 .. Len(ms) : m \in T
    BY <1>1, <1>2, Reaches
  <2>. QED
    BY <2>1
<1>4. \E g : Built(g, ms, Len(ms))
  BY <1>3
<1>. QED
  BY <1>4, Zenon DEF StreamOf, Built

\* Where the messages lie in a stream of the first m of them.
LaidTo(S, ms, m, s) ==
    /\ s \in Seq(Cell)
    /\ S \in [1 .. m + 1 -> Nat] /\ S[1] = 0 /\ S[m + 1] = Len(s)
    /\ \A n \in 1 .. m : S[n + 1] = S[n] + Size(ms[n]) /\ S[n + 1] <= Len(s)
    /\ \A n \in 1 .. m : \A i \in 1 .. Size(ms[n]) : s[S[n] + i] = <<n, i>>

\* The cells of a message.
LEMMA CellsOf ==
    ASSUME NEW n \in Nat, NEW x \in Message
    PROVE  /\ Size(x) \in Nat
           /\ Cells(n, x) \in Seq(Cell) /\ Len(Cells(n, x)) = Size(x)
           /\ \A i \in 1 .. Size(x) : Cells(n, x)[i] = <<n, i>>
<1>1. Size(x) \in Nat
  BY DEF Size, Message
<1>. QED
  BY <1>1 DEF Cells, Cell

\* A message is put behind the ones that lie in the stream.
LEMMA LaidStep ==
    ASSUME NEW ms \in Seq(Message), NEW m \in 1 .. Len(ms), NEW S, NEW s, LaidTo(S, ms, m - 1, s),
           NEW t, t = s \o Cells(m, ms[m])
    PROVE  \E R : LaidTo(R, ms, m, t)
<1>1. m \in Nat /\ ms[m] \in Message /\ m - 1 \in Nat /\ m - 1 + 1 = m
  BY ElementOfSeq, LenProperties
<1>2. PICK c, z : c = Cells(m, ms[m]) /\ z = Size(ms[m])
  OBVIOUS
<1>3. z \in Nat /\ c \in Seq(Cell) /\ Len(c) = z /\ \A i \in 1 .. z : c[i] = <<m, i>>
  BY <1>1, <1>2, CellsOf, Zenon
<1>4. /\ s \in Seq(Cell) /\ S \in [1 .. m -> Nat] /\ S[1] = 0 /\ S[m] = Len(s)
      /\ \A n \in 1 .. m - 1 : S[n + 1] = S[n] + Size(ms[n]) /\ S[n + 1] <= Len(s)
      /\ \A n \in 1 .. m - 1 : \A i \in 1 .. Size(ms[n]) : s[S[n] + i] = <<n, i>>
  BY <1>1, Zenon DEF LaidTo
<1>5. PICK l \in Nat : l = Len(s)
  BY <1>4, LenProperties
<1>6. /\ t \in Seq(Cell) /\ Len(t) = l + z
      /\ \A k \in 1 .. l : t[k] = s[k]
      /\ \A k \in 1 .. z : t[l + k] = c[k]
  BY <1>2, <1>3, <1>4, <1>5, ConcatCells
<1>. DEFINE R == [n \in 1 .. m + 1 |-> IF n = m + 1 THEN l + z ELSE S[n]]
<1>7. R \in [1 .. m + 1 -> Nat] /\ R[m + 1] = l + z /\ \A n \in 1 .. m : R[n] = S[n]
  BY <1>1, <1>3, <1>4
<1>. HIDE DEF R
<1>8. R[1] = 0 /\ R[m + 1] = Len(t)
  <2>1. 1 \in 1 .. m
    BY <1>1
  <2>. QED
    BY <1>4, <1>6, <1>7, <2>1, Zenon
<1>9. ASSUME NEW n \in 1 .. m PROVE R[n + 1] = R[n] + Size(ms[n]) /\ R[n + 1] <= Len(t)
  <2>1. CASE n = m
    <3>1. R[n] = l /\ R[n + 1] = l + z /\ Size(ms[n]) = z
      BY <1>2, <1>4, <1>5, <1>7, <2>1, Zenon
    <3>. QED
      BY <1>3, <1>5, <1>6, <3>1
  <2>2. CASE n # m
    <3>1. n \in 1 .. m - 1 /\ n + 1 \in 1 .. m
      BY <1>1, <2>2
    <3>2. R[n] = S[n] /\ R[n + 1] = S[n + 1] /\ S[n + 1] = S[n] + Size(ms[n]) /\ S[n + 1] <= l /\ S[n + 1] \in Nat
      BY <1>4, <1>5, <1>7, <3>1
    <3>. QED
      BY <1>3, <1>5, <1>6, <3>2
  <2>. QED
    BY <2>1, <2>2
<1>10. ASSUME NEW n \in 1 .. m, NEW i \in 1 .. Size(ms[n]) PROVE t[R[n] + i] = <<n, i>>
  <2>1. CASE n = m
    <3>1. R[n] = l /\ i \in 1 .. z
      BY <1>2, <1>4, <1>5, <1>7, <2>1, Zenon
    <3>. QED
      BY <1>3, <1>6, <2>1, <3>1, Zenon
  <2>2. CASE n # m
    <3>1. n \in 1 .. m - 1
      BY <1>1, <2>2
    <3>2. R[n] = S[n] /\ S[n] \in Nat /\ s[S[n] + i] = <<n, i>>
      BY <1>4, <1>7, <3>1
    <3>3. S[n + 1] = S[n] + Size(ms[n]) /\ S[n + 1] <= l
      BY <1>4, <1>5, <3>1, Zenon
    <3>4. Size(ms[n]) \in Nat
      <4>1. n \in Nat /\ ms[n] \in Message
        BY ElementOfSeq, LenProperties
      <4>. QED
        BY <4>1, CellsOf
    <3>5. S[n] + i \in 1 .. l
      BY <1>5, <3>2, <3>3, <3>4
    <3>. QED
      BY <1>6, <3>2, <3>5, Zenon
  <2>. QED
    BY <2>1, <2>2
<1>11. LaidTo(R, ms, m, t)
  BY <1>6, <1>7, <1>8, <1>9, <1>10, Zenon DEF LaidTo
<1>. QED
  BY <1>11

\* The messages lie one behind the other in the stream of the client.
LEMMA StreamLaid ==
    ASSUME NEW ms \in Seq(Message)
    PROVE  \E S : LaidTo(S, ms, Len(ms), StreamOf(ms))
<1>1. PICK N \in Nat : N = Len(ms)
  BY LenProperties
<1>2. PICK g : Built(g, ms, N) /\ StreamOf(ms) = g[N]
  BY <1>1, StreamBuilt
<1>. DEFINE T == {m \in Nat : \E S : LaidTo(S, ms, m, g[m])}
<1>3. 0 \in T
  <2>1. g[0] = <<>>
    <3>1. 0 \in 0 .. N
      BY <1>1
    <3>. QED
      BY <1>2, <3>1, Zenon DEF Built
  <2>. DEFINE S == [n \in 1 .. 0 + 1 |-> 0]
  <2>2. S \in [1 .. 0 + 1 -> Nat] /\ S[1] = 0 /\ S[0 + 1] = 0
    OBVIOUS
  <2>. HIDE DEF S
  <2>3. <<>> \in Seq(Cell) /\ Len(<<>>) = 0
    BY EmptySeq
  <2>4. \A n \in 1 .. 0 : FALSE
    OBVIOUS
  <2>5. LaidTo(S, ms, 0, <<>>)
    BY <2>2, <2>3, <2>4, Zenon DEF LaidTo
  <2>. QED
    BY <2>1, <2>5
<1>4. ASSUME NEW m \in 1 .. N, m - 1 \in T PROVE m \in T
  <2>1. PICK S : LaidTo(S, ms, m - 1, g[m - 1])
    BY <1>4
  <2>2. m \in 0 .. N /\ m # 0 /\ m \in Nat
    BY <1>1
  <2>3. g[m] = g[m - 1] \o Cells(m, ms[m])
    BY <1>2, <2>2, Zenon DEF Built
  <2>4. m \in 1 .. Len(ms)
    BY <1>1
  <2>5. \E R : LaidTo(R, ms, m, g[m])
    BY <2>1, <2>3, <2>4, LaidStep
  <2>. QED
    BY <2>2, <2>5
<1>5. N \in T
  <2>. HIDE DEF T
  <2>1. \A m \in 0 .. N : m \in T
    BY <1>3, <1>4, Reaches
  <2>. QED
    BY <2>1
<1>. QED
  BY <1>1, <1>2, <1>5

----------------------------------------------------------------------------
\* A cell of fRequestBuffer.
BufferCell == Cell \cup {Blank}

\* The message whose request is the next one to be dispatched.
Turn == Len(dispatched) + 1

\* All messages before it left the stream in order, and its head fits.
Expected ==
    /\ Len(dispatched) < Len(msgs) /\ WellFramed(Len(dispatched))
    /\ msgs[Turn].head < BufferSize

CellsTyped ==
    /\ dispatched \in Seq([head : Seq(BufferCell), body : Seq(BufferCell)])
    /\ fRequestBuffer \in [0 .. BufferSize - 1 -> BufferCell]
    /\ fRequest.body \in Seq(BufferCell)
    /\ sent <= Len(stream)

\* The n cells of the buffer behind the first ones are those of s behind p.
CellsAt(s, buffer, from, n, p) == \A i \in 0 .. n - 1 : buffer[from + i] = s[p + 1 + i]

\* What was put back, and what is not known to be a head yet, was received last.
Buffered ==
    /\ CellsAt(stream, fRequestBuffer, fLen + fRetreatBytesRead, fRetreatBytes, rcvd - fRetreatBytes)
    /\ ~fRequestPtr => CellsAt(stream, fRequestBuffer, 0, fLen, rcvd - fLen)

\* From the arrival of a head to the clean-up fRequestPtr is set.
HeadKept ==
    fState \in {"HaveCompleteMessage", "FilteringRequest", "ProcessingRequest", "SendingResponse", "CleaningUp"}
        => fRequestPtr

\* How many cells of the stream were used up by requests.
Position == IF fRequestPtr THEN rcvd - fRetreatBytes ELSE rcvd - fLen

\* The head of the message k, which starts behind p, and n cells of its body were used.
HeadRead(k, p, n) ==
    /\ fRequestPtr /\ fLen = msgs[k].head
    /\ \A i \in 1 .. fLen : fRequestBuffer[i - 1] = <<k, i>>
    /\ Position = p + fLen + n

\* The body is what comes behind the head.
BodyRead(k) ==
    /\ Len(fRequest.body) = fRequest.len
    /\ \A i \in 1 .. fRequest.len : fRequest.body[i] = <<k, fLen + i>>

Between == {"ReadingFirstRequest", "ReadingRequest", "SendingResponse", "CleaningUp"}
Handling == {"FilteringRequest", "ProcessingRequest"}

\* Where the session is in the stream: between two messages at the start of the next one,
\* and while it handles a request behind what it has read of its message.
AtWork(S) ==
    alive /\ Expected =>
        /\ fState \in Between => Position = S[Turn]
        /\ fState = "HaveCompleteMessage" => err # "E2BIG" /\ HeadRead(Turn, S[Turn], 0)
        /\ fState \in Handling => HeadRead(Turn, S[Turn], fRequest.len) /\ BodyRead(Turn)
        /\ fState = "ProcessingRequest" => fRequest.len = ContentLength

Laid(S) == LaidTo(S, msgs, Len(msgs), stream)

\* The requests are framed as the messages are; S is where each message starts.
Framed(S) == Laid(S) /\ CellsTyped /\ Buffered /\ HeadKept /\ AtWork(S) /\ WholeRequests

FrameInv == \E S : Framed(S)

----------------------------------------------------------------------------
\* The message that is expected.
LEMMA ExpectedMessage ==
    ASSUME NEW S, StreamInv, Laid(S), CellsTyped, Expected
    PROVE  /\ Turn \in 1 .. Len(msgs) /\ Turn \in Nat /\ msgs[Turn] \in Message
           /\ msgs[Turn].head \in Nat \ {0} /\ msgs[Turn].body \in Nat
           /\ msgs[Turn].head < BufferSize
           /\ S[Turn] \in Nat /\ S[Turn + 1] = S[Turn] + (msgs[Turn].head + msgs[Turn].body)
           /\ S[Turn + 1] <= Len(stream)
           /\ \A i \in 1 .. msgs[Turn].head + msgs[Turn].body : stream[S[Turn] + i] = <<Turn, i>>
<1>1. Len(dispatched) \in Nat
  BY LenProperties DEF CellsTyped
<1>2. Len(msgs) \in Nat /\ \A n \in 1 .. Len(msgs) : msgs[n] \in Message
  BY Script
<1>3. Turn \in 1 .. Len(msgs) /\ Turn \in Nat
  BY <1>1, <1>2 DEF Turn, Expected
<1>4. msgs[Turn] \in Message
  BY <1>2, <1>3, Zenon
<1>5. msgs[Turn].head \in Nat \ {0} /\ msgs[Turn].body \in Nat
  BY <1>4 DEF Message
<1>6. /\ S \in [1 .. Len(msgs) + 1 -> Nat]
      /\ S[Turn + 1] = S[Turn] + Size(msgs[Turn]) /\ S[Turn + 1] <= Len(stream)
      /\ \A i \in 1 .. Size(msgs[Turn]) : stream[S[Turn] + i] = <<Turn, i>>
  BY <1>3, Zenon DEF Laid, LaidTo
<1>7. S[Turn] \in Nat
  <2>1. Turn \in 1 .. Len(msgs) + 1
    BY <1>2, <1>3
  <2>. QED
    BY <1>6, <2>1, Zenon
<1>. QED
  BY <1>3, <1>4, <1>5, <1>6, <1>7, Zenon DEF Expected, Size

\* What ReadRequest finds at the start of a message that is expected: its head, as soon
\* as all of it is there.
LEMMA ScanFrames ==
    ASSUME NEW S, StreamInv, Laid(S), CellsTyped, Expected,
           NEW buffer, NEW len \in Nat, CellsAt(stream, buffer, 0, len, S[Turn]),
           Scan(buffer, len, len)
    PROVE  \/ /\ fRequestPtr' = FALSE /\ fLen' = len /\ fRetreatBytes' = 0 /\ fState' = fState
           \/ /\ fRequestPtr' = TRUE /\ fState' = "HaveCompleteMessage" /\ err' = "arrived"
              /\ fLen' = msgs[Turn].head /\ fRetreatBytes' = len - fLen'
              /\ \A i \in 1 .. fLen' : buffer[i - 1] = <<Turn, i>>
<1>1. PICK k, p, h : k = Turn /\ p = S[Turn] /\ h = msgs[Turn].head
  OBVIOUS
<1>2. /\ k \in Nat /\ p \in Nat /\ h \in Nat \ {0} /\ h < BufferSize /\ msgs[k] \in Message
      /\ h = msgs[k].head
      /\ \A i \in 1 .. h : stream[p + i] = <<k, i>>
  <2>1. /\ k \in Nat /\ p \in Nat /\ h \in Nat \ {0} /\ h < BufferSize /\ msgs[k].body \in Nat
        /\ h = msgs[k].head /\ msgs[k] \in Message
        /\ \A i \in 1 .. h + msgs[k].body : stream[p + i] = <<k, i>>
    BY <1>1, ExpectedMessage, Zenon
  <2>2. \A i \in 1 .. h : i \in 1 .. h + msgs[k].body
    BY <2>1
  <2>. QED
    BY <2>1, <2>2, Zenon
<1>3. ASSUME NEW i \in 1 .. len, i <= h PROVE buffer[i - 1] = <<k, i>>
  <2>1. i - 1 \in 0 .. len - 1 /\ 0 + (i - 1) = i - 1 /\ p + 1 + (i - 1) = p + i /\ i \in 1 .. h
    BY <1>2, <1>3
  <2>2. buffer[0 + (i - 1)] = stream[p + 1 + (i - 1)]
    BY <1>1, <2>1, Zenon DEF CellsAt
  <2>. QED
    BY <1>2, <2>1, <2>2, Zenon
<1>. DEFINE ends == HeadEnds(buffer, len)
<1>4. /\ \A i \in ends : i \in 1 .. len /\ h <= i
      /\ h <= len => h \in ends
  <2>1. CASE len = 0
    BY <1>2, <2>1 DEF HeadEnds, IsDataPacket
  <2>2. CASE len # 0
    <3>1. buffer[1 - 1] = <<k, 1>> /\ 1 - 1 = 0
      <4>1. 1 \in 1 .. len /\ 1 <= h
        BY <1>2, <2>2
      <4>. QED
        BY <1>3, <4>1
    <3>2. buffer[0] = <<k, 1>> /\ len > 0
      BY <2>2, <3>1
    <3>3. IsDataPacket(buffer, len) <=> msgs[k].data
      BY <3>2 DEF IsDataPacket
    <3>4. CASE msgs[k].data
      <4>1. ends = {h} \cap 1 .. len
        BY <1>2, <3>2, <3>3, <3>4 DEF HeadEnds
      <4>. QED
        BY <1>2, <4>1
    <3>5. CASE ~msgs[k].data
      <4>1. ends = {i \in 1 .. len : EndsHead(buffer[i - 1])}
        BY <3>3, <3>5, Zenon DEF HeadEnds
      <4>2. ASSUME NEW i \in 1 .. len, i <= h PROVE EndsHead(buffer[i - 1]) <=> i = h
        <5>1. buffer[i - 1] = <<k, i>>
          BY <1>3, <4>2
        <5>. QED
          BY <1>2, <3>5, <5>1 DEF EndsHead
      <4>3. h <= len => h \in 1 .. len /\ h <= h
        BY <1>2
      <4>4. \A i \in 1 .. len : i \in Nat /\ (i <= h \/ h <= i)
        BY <1>2
      <4>5. h <= h
        BY <1>2
      <4>. HIDE DEF ends
      <4>. QED
        BY <4>1, <4>2, <4>3, <4>4, <4>5, Zenon
    <3>. QED
      BY <3>4, <3>5
  <2>. QED
    BY <2>1, <2>2
<1>. HIDE DEF ends
<1>5. \/ \E head \in ends :
            /\ \A i \in ends : head <= i
            /\ fLen' = head /\ fRetreatBytes' = len - head
            /\ fRequestPtr' = TRUE
            /\ err' = "arrived" /\ fState' = "HaveCompleteMessage"
      \/ ends = {} /\ len = BufferSize - 1
      \/ /\ ends = {} /\ fLen' = len /\ fRetreatBytes' = 0 /\ fRequestPtr' = FALSE
         /\ fState' = fState
  BY DEF Scan, ends
<1>6. CASE h <= len
  <2>1. h \in ends
    BY <1>4, <1>6
  <2>2. PICK head \in ends :
            /\ \A i \in ends : head <= i
            /\ fLen' = head /\ fRetreatBytes' = len - head
            /\ fRequestPtr' = TRUE
            /\ err' = "arrived" /\ fState' = "HaveCompleteMessage"
    BY <1>5, <2>1
  <2>3. head = h
    BY <1>2, <1>4, <2>1, <2>2
  <2>4. \A i \in 1 .. h : buffer[i - 1] = <<k, i>>
    <3>1. \A i \in 1 .. h : i \in 1 .. len /\ i <= h
      BY <1>2, <1>6
    <3>. QED
      BY <1>3, <3>1
  <2>. QED
    BY <1>1, <2>2, <2>3, <2>4, Zenon
<1>7. CASE ~(h <= len)
  <2>1. ends = {}
    BY <1>2, <1>4, <1>7
  <2>2. len # BufferSize - 1
    BY <1>2, <1>7, BufferSizeNat
  <2>. QED
    BY <1>5, <2>1, <2>2, Zenon
<1>. QED
  BY <1>6, <1>7

\* Whatever it finds, the buffer holds what was received.
LEMMA ScanBuffered ==
    ASSUME NEW len \in Nat, NEW p \in Int, CellsAt(stream, fRequestBuffer', 0, len, p),
           Scan(fRequestBuffer', len, len), fRetreatBytesRead' = 0, rcvd' = p + len,
           stream' = stream
    PROVE  Buffered'
<1>1. PICK b, l, r, s : b = fRequestBuffer' /\ l = fLen' /\ r = fRetreatBytes' /\ s = stream
  OBVIOUS
<1>2. l \in Nat /\ r \in Nat /\ len = l + r /\ (~fRequestPtr' => r = 0)
  BY <1>1, ScanExact
<1>3. \A i \in 0 .. len - 1 : b[0 + i] = s[p + 1 + i]
  BY <1>1, Zenon DEF CellsAt
<1>4. ASSUME NEW i \in 0 .. r - 1 PROVE b[(l + 0) + i] = s[(rcvd' - r) + 1 + i]
  <2>1. l + i \in 0 .. len - 1
    BY <1>2
  <2>2. 0 + (l + i) = (l + 0) + i /\ p + 1 + (l + i) = (rcvd' - r) + 1 + i
    BY <1>2
  <2>3. b[0 + (l + i)] = s[p + 1 + (l + i)]
    BY <1>3, <2>1
  <2>. QED
    BY <2>2, <2>3, Zenon
<1>5. ASSUME ~fRequestPtr', NEW i \in 0 .. l - 1 PROVE b[0 + i] = s[(rcvd' - l) + 1 + i]
  <2>1. l = len /\ rcvd' - l = p
    BY <1>2, <1>5
  <2>. QED
    BY <1>3, <1>5, <2>1, Zenon
<1>. QED
  BY <1>1, <1>4, <1>5, Zenon DEF Buffered, CellsAt

----------------------------------------------------------------------------
\* A step that receives and dispatches nothing.
LEMMA FrameSame ==
    ASSUME NEW S, Framed(S),
           UNCHANGED <<msgs, stream, dispatched, rcvd, fRequestBuffer, fLen, fRetreatBytes, fRetreatBytesRead,
                       fRequestPtr>>,
           sent' <= Len(stream), fRequest'.body \in Seq(BufferCell), HeadKept', AtWork(S)'
    PROVE  Framed(S)'
<1>1. Laid(S)'
  BY DEF Framed, Laid
<1>2. CellsTyped'
  BY DEF Framed, CellsTyped
<1>3. Buffered'
  BY DEF Framed, Buffered
<1>4. WholeRequests'
  BY Zenon DEF Framed, WholeRequests, WellFramed, Cells, Size
<1>. QED
  BY <1>1, <1>2, <1>3, <1>4 DEF Framed

\* As long as nothing is dispatched, the same message is expected.
LEMMA ExpectedSame ==
    ASSUME UNCHANGED <<msgs, dispatched>>
    PROVE  (Expected' <=> Expected) /\ Turn' = Turn
BY Zenon DEF Expected, Turn, WellFramed

\* The steps in which the request stays where it is, and those between requests.
LEMMA WorkStays ==
    ASSUME NEW S, AtWork(S), alive' => alive,
           UNCHANGED <<msgs, dispatched, rcvd, fRequestBuffer, fLen, fRetreatBytes, fRequestPtr>>,
           \/ fState' = "TimedOut"
           \/ fState' = fState /\ UNCHANGED <<fRequest, err>>
           \/ fState \in Between /\ fState' \in Between
           \/ ~alive'
    PROVE  AtWork(S)'
<1>1. SUFFICES ASSUME alive, alive', Expected
               PROVE  /\ fState' \in Between => Position' = S[Turn]
                      /\ fState' = "HaveCompleteMessage" => err' # "E2BIG" /\ HeadRead(Turn, S[Turn], 0)'
                      /\ fState' \in Handling => HeadRead(Turn, S[Turn], fRequest.len)' /\ BodyRead(Turn)'
                      /\ fState' = "ProcessingRequest" => fRequest'.len = ContentLength'
  BY ExpectedSame, Zenon DEF AtWork
<1>2. Position' = Position /\ ContentLength' = ContentLength /\ Turn' = Turn
  BY ContentLengthSame, ExpectedSame DEF Position
<1>3. /\ fState \in Between => Position = S[Turn]
      /\ fState = "HaveCompleteMessage" => err # "E2BIG" /\ HeadRead(Turn, S[Turn], 0)
      /\ fState \in Handling => HeadRead(Turn, S[Turn], fRequest.len) /\ BodyRead(Turn)
      /\ fState = "ProcessingRequest" => fRequest.len = ContentLength
  BY <1>1, Zenon DEF AtWork
<1>4. CASE fState' = fState /\ UNCHANGED <<fRequest, err>>
  <2>1. HeadRead(Turn, S[Turn], 0)' <=> HeadRead(Turn, S[Turn], 0)
    BY <1>2, Zenon DEF HeadRead
  <2>2. HeadRead(Turn, S[Turn], fRequest.len)' <=> HeadRead(Turn, S[Turn], fRequest.len)
    BY <1>2, <1>4, Zenon DEF HeadRead
  <2>3. BodyRead(Turn)' <=> BodyRead(Turn)
    BY <1>2, <1>4, Zenon DEF BodyRead
  <2>. QED
    BY <1>2, <1>3, <1>4, <2>1, <2>2, <2>3, Zenon
<1>5. CASE fState' = "TimedOut"
  BY <1>5 DEF Between, Handling
<1>6. CASE fState \in Between /\ fState' \in Between
  <2>1. fState' # "HaveCompleteMessage" /\ fState' \notin Handling /\ fState' # "ProcessingRequest"
    BY <1>6 DEF Between, Handling
  <2>. QED
    BY <1>2, <1>3, <1>6, <2>1, Zenon
<1>. QED
  BY <1>1, <1>4, <1>5, <1>6

\* No request has no body.
LEMMA NoBody == NoRequest.body \in Seq(BufferCell) /\ NoRequest.body = <<>>
BY EmptySeq DEF NoRequest, Request

\* The steps that neither read nor dispatch.
LEMMA QuietFrames ==
    ASSUME NEW S, IInv, Framed(S),
           \/ UNCHANGED vars \/ ClientSends \/ ClientReads \/ ClientCloses \/ ProcessEvent \/ TimeoutExpires
           \/ \E th \in Threads : BeginRun(th)
           \/ SendingResponse \/ CleaningUp \/ EndSession
    PROVE  Framed(S)'
<1>1. /\ UNCHANGED <<msgs, stream, dispatched, rcvd, fRequestBuffer, fLen, fRetreatBytes, fRetreatBytesRead,
                     fRequestPtr>>
      /\ alive' => alive
  BY DEF vars, ClientSends, ClientReads, ClientCloses, ProcessEvent, TimeoutExpires, Signal, BeginRun,
       SendingResponse, CleaningUp, EndSession, clientVars, inputVars, runVars, IInv, ThreadInv
<1>2. sent' <= Len(stream)
  <2>1. sent <= Len(stream) /\ Len(stream) \in Nat
    BY LenProperties DEF Framed, CellsTyped, Laid, LaidTo
  <2>2. sent' = sent \/ sent' \in sent + 1 .. Len(stream)
    BY DEF vars, ClientSends, ClientReads, ClientCloses, ProcessEvent, TimeoutExpires, Signal, BeginRun,
       SendingResponse, CleaningUp, EndSession, clientVars
  <2>3. sent \in Nat
    BY DEF IInv, StreamInv
  <2>. QED
    BY <2>1, <2>2, <2>3
<1>3. fRequest' = fRequest \/ fRequest' = NoRequest
  BY DEF vars, ClientSends, ClientReads, ClientCloses, ProcessEvent, TimeoutExpires, Signal, BeginRun,
       SendingResponse, CleaningUp, EndSession, CleanupRequestAndResponse, NoRequest, Request
<1>4. fRequest'.body \in Seq(BufferCell)
  BY <1>3, NoBody, Zenon DEF Framed, CellsTyped
<1>5. \/ fState' = "TimedOut"
      \/ fState' = fState /\ UNCHANGED <<fRequest, err>>
      \/ fState \in Between /\ fState' \in Between /\ (fState = "CleaningUp" \/ fState = "SendingResponse")
      \/ ~alive' /\ fState' = fState
  <2>1. CASE \/ UNCHANGED vars \/ ClientSends \/ ClientReads \/ ClientCloses \/ ProcessEvent \/ TimeoutExpires
             \/ \E th \in Threads : BeginRun(th)
    BY <2>1 DEF vars, ClientSends, ClientReads, ClientCloses, ProcessEvent, TimeoutExpires, Signal, BeginRun
  <2>2. CASE SendingResponse
    BY <2>2 DEF SendingResponse, In, Between
  <2>3. CASE CleaningUp
    BY <2>3 DEF CleaningUp, In, Between
  <2>4. CASE EndSession
    BY <2>4 DEF EndSession
  <2>. QED
    BY <2>1, <2>2, <2>3, <2>4
<1>6. HeadKept'
  BY <1>1, <1>5 DEF Framed, HeadKept
<1>7. AtWork(S)'
  BY <1>1, <1>5, WorkStays DEF Framed
<1>. QED
  BY <1>1, <1>2, <1>4, <1>6, <1>7, FrameSame

\* A request is begun with its head, and with nothing of its body.
LEMMA HaveFrames ==
    ASSUME NEW S, IInv, Framed(S), HaveCompleteMessage
    PROVE  Framed(S)'
<1>1. /\ UNCHANGED <<msgs, stream, dispatched, rcvd, fRequestBuffer, fLen, fRetreatBytes, fRetreatBytesRead,
                     fRequestPtr, sent, alive, err>>
      /\ fRequest' = Request(0, <<>>, 0) /\ fState = "HaveCompleteMessage"
      /\ fState' = IF err = "E2BIG" THEN "SendingResponse" ELSE "FilteringRequest"
  BY DEF HaveCompleteMessage, In, clientVars, inputVars, runVars
<1>2. fRequest'.body = <<>> /\ fRequest'.len = 0
  BY <1>1 DEF Request
<1>3. <<>> \in Seq(BufferCell) /\ Len(<<>>) = 0
  BY EmptySeq
<1>4. HeadKept'
  BY <1>1 DEF HeadKept, Framed
<1>5. AtWork(S)'
  <2>1. SUFFICES ASSUME alive, Expected
                 PROVE  /\ fState' \in Between => Position' = S[Turn]
                        /\ fState' = "HaveCompleteMessage" => err' # "E2BIG" /\ HeadRead(Turn, S[Turn], 0)'
                        /\ fState' \in Handling => HeadRead(Turn, S[Turn], fRequest.len)' /\ BodyRead(Turn)'
                        /\ fState' = "ProcessingRequest" => fRequest'.len = ContentLength'
    BY <1>1, ExpectedSame, Zenon DEF AtWork
  <2>2. err # "E2BIG" /\ HeadRead(Turn, S[Turn], 0)
    BY <1>1, <2>1, Zenon DEF AtWork, Framed
  <2>3. fState' = "FilteringRequest"
    BY <1>1, <2>2
  <2>4. Turn' = Turn /\ Position' = Position
    BY <1>1, ExpectedSame DEF Position
  <2>5. HeadRead(Turn, S[Turn], fRequest.len)'
    BY <1>1, <1>2, <2>2, <2>4, Zenon DEF HeadRead
  <2>6. BodyRead(Turn)'
    <3>1. \A i \in 1 .. 0 : FALSE
      OBVIOUS
    <3>. QED
      BY <1>2, <1>3, <3>1, Zenon DEF BodyRead
  <2>. QED
    BY <2>3, <2>5, <2>6 DEF Between
<1>. QED
  BY <1>1, <1>2, <1>3, <1>4, <1>5, FrameSame DEF Framed, CellsTyped

----------------------------------------------------------------------------
\* The buffer is filled from where it ends, and looked at.
LEMMA ReadFrames ==
    ASSUME NEW S, IInv, Framed(S), fState \in {"ReadingFirstRequest", "ReadingRequest"},
           UNCHANGED <<msgs, stream, sent, dispatched, fRequest, alive>>,
           NEW len \in Nat, Scan(fRequestBuffer', len, len), fRetreatBytesRead' = 0,
           NEW p \in Int, p = Position, rcvd' = p + len,
           CellsAt(stream, fRequestBuffer', 0, len, p),
           fRequestBuffer' \in [0 .. BufferSize - 1 -> BufferCell]
    PROVE  Framed(S)'
<1>1. Laid(S)' /\ CellsTyped'
  BY DEF Framed, Laid, CellsTyped
<1>2. Buffered'
  BY ScanBuffered
<1>3. WholeRequests'
  BY Zenon DEF Framed, WholeRequests, WellFramed, Cells, Size
<1>4. HeadKept'
  BY DEF HeadKept, Scan
<1>5. AtWork(S)'
  <2>1. SUFFICES ASSUME alive, Expected
                 PROVE  /\ fState' \in Between => Position' = S[Turn]
                        /\ fState' = "HaveCompleteMessage" => err' # "E2BIG" /\ HeadRead(Turn, S[Turn], 0)'
                        /\ fState' \in Handling => HeadRead(Turn, S[Turn], fRequest.len)' /\ BodyRead(Turn)'
                        /\ fState' = "ProcessingRequest" => fRequest'.len = ContentLength'
    BY ExpectedSame, Zenon DEF AtWork
  <2>2. p = S[Turn]
    BY <2>1 DEF AtWork, Framed, Between
  <2>3. Turn' = Turn
    BY ExpectedSame
  <2>4. CellsAt(stream, fRequestBuffer', 0, len, S[Turn])
    BY <2>2, Zenon
  <2>5. \/ /\ fRequestPtr' = FALSE /\ fLen' = len /\ fRetreatBytes' = 0 /\ fState' = fState
        \/ /\ fRequestPtr' = TRUE /\ fState' = "HaveCompleteMessage" /\ err' = "arrived"
           /\ fLen' = msgs[Turn].head /\ fRetreatBytes' = len - fLen'
           /\ \A i \in 1 .. fLen' : fRequestBuffer'[i - 1] = <<Turn, i>>
    BY <2>1, <2>4, ScanFrames DEF Framed, IInv
  <2>6. CASE fRequestPtr' = FALSE /\ fLen' = len /\ fState' = fState
    <3>1. Position' = S[Turn]
      BY <2>2, <2>6 DEF Position
    <3>. QED
      BY <2>6, <3>1 DEF Handling
  <2>7. CASE /\ fRequestPtr' = TRUE /\ fState' = "HaveCompleteMessage" /\ err' = "arrived"
             /\ fLen' = msgs[Turn].head /\ fRetreatBytes' = len - fLen'
             /\ \A i \in 1 .. fLen' : fRequestBuffer'[i - 1] = <<Turn, i>>
    <3>1. fLen' \in Nat
      BY ScanExact
    <3>2. Position' = S[Turn] + fLen' + 0
      <4>1. Position' = rcvd' - fRetreatBytes'
        BY <2>7 DEF Position
      <4>2. PICK l \in Nat : l = fLen'
        BY <3>1
      <4>3. Position' = (p + len) - (len - l)
        BY <2>7, <4>1, <4>2
      <4>4. (p + len) - (len - l) = p + l + 0
        OBVIOUS
      <4>. QED
        BY <2>2, <4>2, <4>3, <4>4, Zenon
    <3>3. HeadRead(Turn, S[Turn], 0)'
      BY <2>3, <2>7, <3>2, Zenon DEF HeadRead
    <3>. QED
      BY <2>7, <3>3 DEF Between, Handling
  <2>. QED
    BY <2>5, <2>6, <2>7
<1>. QED
  BY <1>1, <1>2, <1>3, <1>4, <1>5 DEF Framed

\* What is moved to the front of the buffer is what was received last.
LEMMA TakeFrames ==
    ASSUME NEW S, IInv, Framed(S), TakeLeftover
    PROVE  Framed(S)'
<1>1. /\ UNCHANGED <<msgs, stream, sent, dispatched, fRequest, alive, rcvd>>
      /\ fState \in {"ReadingFirstRequest", "ReadingRequest"} /\ fRequestPtr
      /\ fRequestBuffer' = [i \in DOMAIN fRequestBuffer |->
           IF i < fRetreatBytes THEN fRequestBuffer[i + fLen + fRetreatBytesRead]
           ELSE fRequestBuffer[i]]
      /\ fRetreatBytesRead' = 0
      /\ Scan(fRequestBuffer', fRetreatBytes, fRetreatBytes)
  BY DEF TakeLeftover, Reading, In, clientVars, runVars
<1>2. PICK b, l, q, r, B : b = fRequestBuffer /\ l = fLen /\ q = fRetreatBytesRead /\ r = fRetreatBytes /\ B = BufferSize
  OBVIOUS
<1>3. l \in Nat /\ q \in Nat /\ r \in Nat /\ B \in Nat /\ l + q + r < B
  <2>1. l \in Nat /\ q \in Nat /\ r \in Nat /\ fCurOffset = l + q + r /\ fCurOffset < B
    BY <1>2 DEF IInv, BufferInv, BufferExact
  <2>. QED
    BY <1>2, <2>1, BufferSizeNat
<1>4. b \in [0 .. B - 1 -> BufferCell]
  BY <1>2 DEF Framed, CellsTyped
<1>5. fRequestBuffer' = [i \in 0 .. B - 1 |-> IF i < r THEN b[i + l + q] ELSE b[i]]
  BY <1>1, <1>2, <1>4
<1>6. fRequestBuffer' \in [0 .. B - 1 -> BufferCell]
  <2>1. ASSUME NEW i \in 0 .. B - 1, i < r PROVE i + l + q \in 0 .. B - 1
    BY <1>3, <2>1
  <2>2. ASSUME NEW i \in 0 .. B - 1 PROVE (IF i < r THEN b[i + l + q] ELSE b[i]) \in BufferCell
    BY <1>4, <2>1, Zenon
  <2>. QED
    BY <1>5, <2>2, Zenon
<1>7. PICK p \in Int : p = rcvd - r /\ p = Position /\ rcvd = p + r
  <2>1. rcvd \in Nat
    BY DEF IInv, StreamInv
  <2>2. Position = rcvd - r
    BY <1>1, <1>2 DEF Position
  <2>. QED
    BY <1>3, <2>1, <2>2
<1>8. \A i \in 0 .. r - 1 : b[(l + q) + i] = stream[p + 1 + i]
  BY <1>2, <1>7, Zenon DEF Framed, Buffered, CellsAt
<1>9. CellsAt(stream, fRequestBuffer', 0, r, p)
  <2>1. ASSUME NEW i \in 0 .. r - 1 PROVE fRequestBuffer'[0 + i] = stream[p + 1 + i]
    <3>1. i \in 0 .. B - 1 /\ i < r /\ 0 + i = i /\ i + l + q = (l + q) + i
      BY <1>3
    <3>2. fRequestBuffer'[i] = b[i + l + q]
      BY <1>5, <3>1, Zenon
    <3>. QED
      BY <1>8, <3>1, <3>2, Zenon
  <2>. QED
    BY <2>1, Zenon DEF CellsAt
<1>10. rcvd' = p + r /\ Scan(fRequestBuffer', r, r) /\ fRequestBuffer' \in [0 .. BufferSize - 1 -> BufferCell]
  BY <1>1, <1>2, <1>6, <1>7, Zenon
<1>. QED
  BY <1>1, <1>3, <1>7, <1>9, <1>10, ReadFrames

\* What is received goes behind what is in the buffer.
LEMMA SocketFrames ==
    ASSUME NEW S, IInv, Framed(S), ReadSocket
    PROVE  Framed(S)'
<1>. DEFINE space == BufferSize - fCurOffset - 1
<1>1. /\ UNCHANGED <<msgs, stream, sent, dispatched, fRequest, alive>>
      /\ fState \in {"ReadingFirstRequest", "ReadingRequest"} /\ ~fRequestPtr
  BY DEF ReadSocket, Reading, In, clientVars
<1>2. CASE UNCHANGED <<rcvd, inputVars, fState, err>>
  <2>1. AtWork(S)'
    BY <1>1, <1>2, WorkStays DEF Framed, inputVars
  <2>2. HeadKept'
    BY <1>2 DEF Framed, HeadKept, inputVars
  <2>. QED
    BY <1>1, <1>2, <2>1, <2>2, FrameSame DEF Framed, CellsTyped, inputVars
<1>3. CASE /\ ReadLength(space) > 0
           /\ rcvd' = rcvd + ReadLength(space)
           /\ fRequestBuffer' = [i \in DOMAIN fRequestBuffer |->
                 IF i \in fCurOffset .. fCurOffset + ReadLength(space) - 1 THEN stream[rcvd + 1 + i - fCurOffset]
                 ELSE fRequestBuffer[i]]
           /\ Scan(fRequestBuffer', fLen + ReadLength(space), fCurOffset + ReadLength(space))
           /\ UNCHANGED fRetreatBytesRead
  <2>1. PICK b, l, n, B, q : b = fRequestBuffer /\ l = fLen /\ n = ReadLength(space) /\ B = BufferSize /\ q = rcvd
    OBVIOUS
  <2>2. fCurOffset = l /\ l \in Nat /\ B \in Nat /\ q \in Nat /\ l < B /\ fRetreatBytesRead = 0
    <3>1. fRetreatBytes = 0 /\ fRetreatBytesRead = 0 /\ l \in Nat
      BY <1>1, <2>1 DEF IInv, BufferInv, BufferExact
    <3>2. fCurOffset = l + fRetreatBytesRead + fRetreatBytes /\ fCurOffset < B
      BY <2>1 DEF IInv, BufferInv, BufferExact
    <3>3. B \in Nat /\ q \in Nat
      BY <2>1, BufferSizeNat DEF IInv, StreamInv
    <3>. QED
      BY <3>1, <3>2, <3>3
  <2>3. n \in Nat \ {0} /\ l + n <= B - 1 /\ q + n <= sent
    <3>1. sent \in Nat /\ Available \in Int /\ Available = sent - q
      BY <2>1, <2>2 DEF IInv, StreamInv, Available
    <3>2. space \in Int /\ space = B - l - 1
      BY <2>1, <2>2
    <3>. HIDE DEF space
    <3>3. n \in Int /\ n <= space /\ n <= Available
      BY <2>1, <3>1, <3>2, MinOfTwo DEF ReadLength
    <3>4. n > 0
      BY <1>3, <2>1
    <3>. QED
      BY <2>2, <3>1, <3>2, <3>3, <3>4
  <2>4. /\ rcvd' = q + n /\ Scan(fRequestBuffer', l + n, l + n) /\ fRetreatBytesRead' = 0
        /\ fRequestBuffer' = [i \in DOMAIN b |-> IF i \in l .. l + n - 1 THEN stream[q + 1 + i - l] ELSE b[i]]
    BY <1>3, <2>1, <2>2, Zenon
  <2>5. b \in [0 .. B - 1 -> BufferCell] /\ stream \in Seq(Cell) /\ sent <= Len(stream)
    BY <2>1 DEF Framed, CellsTyped, Laid, LaidTo
  <2>6. fRequestBuffer' = [i \in 0 .. B - 1 |-> IF i \in l .. l + n - 1 THEN stream[q + 1 + i - l] ELSE b[i]]
    BY <2>4, <2>5
  <2>7. fRequestBuffer' \in [0 .. B - 1 -> BufferCell]
    <3>1. ASSUME NEW i \in l .. l + n - 1 PROVE stream[q + 1 + i - l] \in BufferCell
      <4>1. Len(stream) \in Nat /\ sent \in Nat
        BY <2>5, LenProperties DEF IInv, StreamInv
      <4>2. q + 1 + i - l \in 1 .. Len(stream)
        BY <2>2, <2>3, <2>5, <4>1
      <4>. QED
        BY <2>5, <4>2, ElementOfSeq DEF BufferCell
    <3>2. ASSUME NEW i \in 0 .. B - 1
          PROVE  (IF i \in l .. l + n - 1 THEN stream[q + 1 + i - l] ELSE b[i]) \in BufferCell
      BY <2>5, <3>1, Zenon
    <3>. QED
      BY <2>6, <3>2, Zenon
  <2>8. PICK p \in Int : p = q - l /\ p = Position /\ q + n = p + (l + n)
    <3>1. Position = q - l
      BY <1>1, <2>1 DEF Position
    <3>. QED
      BY <2>2, <2>3, <3>1
  <2>9. \A i \in 0 .. l - 1 : b[0 + i] = stream[p + 1 + i]
    BY <1>1, <2>1, <2>8, Zenon DEF Framed, Buffered, CellsAt
  <2>10. ASSUME NEW i \in 0 .. (l + n) - 1 PROVE fRequestBuffer'[0 + i] = stream[p + 1 + i]
    <3>0. i \in 0 .. B - 1 /\ 0 + i = i
      BY <2>2, <2>3
    <3>1. CASE i < l
      <4>1. i \in 0 .. l - 1 /\ i \notin l .. l + n - 1
        BY <2>2, <3>1
      <4>2. fRequestBuffer'[i] = b[i]
        BY <2>6, <3>0, <4>1, Zenon
      <4>. QED
        BY <2>9, <3>0, <4>1, <4>2, Zenon
    <3>2. CASE ~(i < l)
      <4>1. i \in l .. l + n - 1 /\ q + 1 + i - l = p + 1 + i
        BY <2>2, <2>3, <2>8, <3>2
      <4>. QED
        BY <2>6, <3>0, <4>1, Zenon
    <3>. QED
      BY <3>1, <3>2
  <2>11. CellsAt(stream, fRequestBuffer', 0, l + n, p)
    BY <2>10, Zenon DEF CellsAt
  <2>12. l + n \in Nat /\ rcvd' = p + (l + n) /\ fRequestBuffer' \in [0 .. BufferSize - 1 -> BufferCell]
    <3>1. l + n \in Nat
      BY <2>2, <2>3
    <3>. QED
      BY <2>1, <2>4, <2>7, <2>8, <3>1, Zenon
  <2>. QED
    BY <1>1, <2>4, <2>8, <2>11, <2>12, ReadFrames
<1>. QED
  BY <1>2, <1>3 DEF ReadSocket

----------------------------------------------------------------------------
\* A head that was read as it was sent parses to its message.
LEMMA HeadParses ==
    ASSUME StreamInv, NEW k \in Nat, msgs[k] \in Message, fLen = msgs[k].head,
           \A i \in 1 .. fLen : fRequestBuffer[i - 1] = <<k, i>>
    PROVE  /\ RequestHead \in Seq(Cell) /\ Len(RequestHead) = fLen
           /\ \A i \in 1 .. fLen : RequestHead[i] = <<k, i>>
           /\ Parsed = k
<1>1. PICK h, b, r : h = fLen /\ b = msgs[k].body /\ r = RequestHead
  OBVIOUS
<1>2. h \in Nat \ {0} /\ b \in Nat /\ h <= h + b /\ Size(msgs[k]) = h + b
  BY <1>1 DEF Message, Size
<1>3. r = [i \in 1 .. h |-> fRequestBuffer[i - 1]]
  BY <1>1 DEF RequestHead
<1>4. \A i \in 1 .. h : r[i] = <<k, i>>
  BY <1>1, <1>3, Zenon
<1>5. r \in Seq(Cell) /\ Len(r) = h
  <2>1. r = [i \in 1 .. h |-> <<k, i>>]
    BY <1>1, <1>3, Zenon
  <2>. QED
    BY <1>2, <2>1 DEF Cell
<1>6. PICK c : c = Cells(k, msgs[k])
  OBVIOUS
<1>7. c \in Seq(Cell) /\ Len(c) = h + b /\ \A i \in 1 .. h + b : c[i] = <<k, i>>
  BY <1>2, <1>6, CellsOf, Zenon
<1>8. PICK u : u = SubSeq(c, 0 + 1, h)
  OBVIOUS
<1>9. u \in Seq(Cell) /\ Len(u) = h - 0 /\ \A i \in 1 .. h - 0 : u[i] = c[0 + i]
  <2>1. 0 \in Nat /\ h \in Nat /\ 0 <= h /\ h <= Len(c)
    BY <1>2, <1>7
  <2>. QED
    BY ONLY <1>7, <1>8, <2>1, PartCells
<1>10. u = r
  <2>1. Len(u) = Len(r)
    BY <1>2, <1>5, <1>9
  <2>2. ASSUME NEW i \in 1 .. Len(u) PROVE u[i] = r[i]
    <3>1. i \in 1 .. h /\ i \in 1 .. h - 0 /\ 0 + i = i /\ i \in 1 .. h + b
      BY <1>2, <1>9
    <3>. QED
      BY <1>4, <1>7, <1>9, <3>1, Zenon
  <2>. QED
    BY <1>5, <1>9, <2>1, <2>2, SeqEqual, Zenon
<1>11. r[1][1] = k
  <2>1. 1 \in 1 .. h
    BY <1>2
  <2>2. r[1] = <<k, 1>>
    BY <1>4, <2>1, Zenon
  <2>. QED
    BY <2>2
<1>12. Parsed = k
  <2>1. 0 + 1 = 1 /\ fLen = h /\ msgs[k].head = h
    BY <1>1
  <2>2. r = SubSeq(Cells(k, msgs[k]), 1, msgs[k].head)
    BY <1>6, <1>8, <1>10, <2>1, Zenon
  <2>. QED
    BY <1>1, <1>11, <2>2, Zenon DEF Parsed
<1>. QED
  BY <1>1, <1>4, <1>5, <1>12, Zenon

\* Its body is the one it announces.
LEMMA BodyAnnounced ==
    ASSUME StreamInv, NEW k \in 1 .. Len(msgs), Parsed = k
    PROVE  ContentLength = IF msgs[k].parses THEN msgs[k].body ELSE 0
<1>1. DOMAIN msgs = 1 .. Len(msgs)
  BY Script, LenProperties
<1>. QED
  BY <1>1, Zenon DEF ContentLength

\* SetupRequest, by what it takes from the buffer and from the socket.
LEMMA FilteringReads ==
    ASSUME IInv, FilteringRequest
    PROVE  \E b \in Nat, n \in Nat :
             /\ b <= fRetreatBytes /\ n <= sent - rcvd /\ fRequest.len + b + n <= ContentLength
             /\ n > 0 => b = fRetreatBytes
             /\ fRetreatBytes' = fRetreatBytes - b
             /\ fRetreatBytesRead' = fRetreatBytesRead + b
             /\ rcvd' = rcvd + n
             /\ fRequest' = Request(Parsed,
                    (fRequest.body \o [i \in 1 .. b |-> fRequestBuffer[fLen + fRetreatBytesRead + i - 1]])
                        \o SubSeq(stream, rcvd + 1, rcvd + n),
                    fRequest.len + b + n)
             /\ \/ fState' = "ProcessingRequest" /\ fRequest.len + b + n = ContentLength
                \/ fState' = "FilteringRequest"
<1>. DEFINE need == ContentLength - fRequest.len
            back == Min({need, fRetreatBytes})
            fails == need > back /\ ReadFails(need - back)
            n == IF fails THEN 0 ELSE ReadLength(need - back)
<1>1. /\ fState = "FilteringRequest" /\ runner # NoThread
      /\ fRetreatBytes' = fRetreatBytes - back
      /\ fRetreatBytesRead' = fRetreatBytesRead + back
      /\ rcvd' = rcvd + n
      /\ fRequest' = Request(Parsed,
                    (fRequest.body \o [i \in 1 .. back |-> fRequestBuffer[fLen + fRetreatBytesRead + i - 1]])
                        \o SubSeq(stream, rcvd + 1, rcvd + n),
                    fRequest.len + back + n)
      /\ (back + n = need /\ fState' = "ProcessingRequest") \/ fState' = fState
  BY DEF FilteringRequest, In, ReadRetreat, WouldBlock
<1>2. ContentLength \in Nat /\ fRequest.len \in 0 .. ContentLength
  BY <1>1, ContentLengthNat DEF IInv, ThreadInv, BodyInv
<1>3. fRetreatBytes \in Nat /\ rcvd \in Nat /\ sent \in Nat /\ rcvd <= sent
  BY DEF IInv, BufferInv, StreamInv
<1>4. need \in Nat
  BY <1>2
<1>5. back \in Nat /\ back <= need /\ back <= fRetreatBytes /\ (back = need \/ back = fRetreatBytes)
  <2>1. need \in Int /\ fRetreatBytes \in Int
    BY <1>3, <1>4
  <2>. HIDE DEF need
  <2>2. /\ back \in Int /\ (back = need \/ back = fRetreatBytes)
        /\ back <= need /\ back <= fRetreatBytes
    BY <2>1, MinOfTwo
  <2>. HIDE DEF back
  <2>. QED
    BY <1>3, <1>4, <2>2
<1>6. n \in Nat /\ n <= need - back /\ n <= sent - rcvd
  <2>. HIDE DEF need, back
  <2>1. CASE fails
    BY <1>3, <1>4, <1>5, <2>1
  <2>2. CASE ~fails
    <3>1. n = Min({need - back, Available}) /\ need - back \in Int /\ Available \in Int
      BY <1>3, <1>4, <1>5, <2>2 DEF ReadLength, Available
    <3>. HIDE DEF n
    <3>2. /\ n \in Int /\ (n = need - back \/ n = Available)
          /\ n <= need - back /\ n <= Available
      BY <3>1, MinOfTwo
    <3>. QED
      BY <1>3, <1>4, <1>5, <3>2 DEF Available
  <2>. QED
    BY <2>1, <2>2
<1>. HIDE DEF n, back, fails
<1>7. /\ fRequest.len + back + n <= ContentLength
      /\ n > 0 => back = fRetreatBytes
      /\ back + n = need => fRequest.len + back + n = ContentLength
  BY <1>2, <1>5, <1>6
<1>. QED
  BY <1>1, <1>5, <1>6, <1>7, Zenon

\* A body grows by cells from two places.
LEMMA BodyGrows ==
    ASSUME NEW C, NEW body \in Seq(C), NEW x \in Seq(C), NEW y \in Seq(C), NEW L, L = Len(body),
           NEW b, b = Len(x), NEW n, n = Len(y), NEW all, all = (body \o x) \o y
    PROVE  /\ all \in Seq(C) /\ Len(all) = L + b + n
           /\ \A i \in 1 .. L : all[i] = body[i]
           /\ \A i \in 1 .. b : all[L + i] = x[i]
           /\ \A i \in 1 .. n : all[L + b + i] = y[i]
<1>1. L \in Nat /\ b \in Nat /\ n \in Nat
  BY LenProperties
<1>2. PICK w : w = body \o x
  OBVIOUS
<1>3. /\ w \in Seq(C) /\ Len(w) = L + b
      /\ \A i \in 1 .. L : w[i] = body[i]
      /\ \A i \in 1 .. b : w[L + i] = x[i]
  BY <1>2, ConcatCells
<1>4. PICK m \in Nat : m = L + b
  BY <1>1
<1>5. /\ all \in Seq(C) /\ Len(all) = m + n
      /\ \A i \in 1 .. m : all[i] = w[i]
      /\ \A i \in 1 .. n : all[m + i] = y[i]
  <2>1. m = Len(w) /\ all = w \o y /\ w \in Seq(C)
    BY <1>2, <1>3, <1>4, Zenon
  <2>. QED
    BY <2>1, ConcatCells
<1>6. \A i \in 1 .. L : i \in 1 .. m
  BY <1>1, <1>4
<1>7. \A i \in 1 .. b : L + i \in 1 .. m
  BY <1>1, <1>4
<1>. QED
  BY <1>3, <1>4, <1>5, <1>6, <1>7, Zenon

\* The body goes on where it ended, in the buffer or in the socket.
LEMMA FilterFrames ==
    ASSUME NEW S, IInv, Framed(S), FilteringRequest
    PROVE  Framed(S)'
<1>1. /\ UNCHANGED <<msgs, stream, sent, dispatched, fRequestBuffer, fLen, fRequestPtr, alive, err>>
      /\ fState = "FilteringRequest" /\ alive
  BY DEF FilteringRequest, In, clientVars, IInv, ThreadInv
<1>2. PICK l, q, r, c, p, s, f, L, body :
          /\ l = fLen /\ q = fRetreatBytesRead /\ r = fRetreatBytes /\ c = rcvd /\ p = ContentLength
          /\ s = stream /\ f = fRequestBuffer /\ L = fRequest.len /\ body = fRequest.body
  OBVIOUS
<1>3. PICK b \in Nat, n \in Nat :
             /\ b <= r /\ n <= sent - c /\ L + b + n <= p
             /\ n > 0 => b = r
             /\ fRetreatBytes' = r - b
             /\ fRetreatBytesRead' = q + b
             /\ rcvd' = c + n
             /\ fRequest' = Request(Parsed,
                    (body \o [i \in 1 .. b |-> f[l + q + i - 1]]) \o SubSeq(s, c + 1, c + n),
                    L + b + n)
             /\ \/ fState' = "ProcessingRequest" /\ L + b + n = p
                \/ fState' = "FilteringRequest"
  BY <1>2, FilteringReads, Zenon
<1>4. /\ l \in Nat /\ q \in Nat /\ r \in Nat /\ c \in Nat /\ p \in Nat /\ L \in Nat /\ sent \in Nat
      /\ BufferSize \in Nat /\ l + q + r < BufferSize
  <2>1. l \in Nat /\ q \in Nat /\ r \in Nat /\ fCurOffset = l + q + r /\ fCurOffset < BufferSize
    BY <1>2 DEF IInv, BufferInv, BufferExact
  <2>2. c \in Nat /\ sent \in Nat
    BY <1>2 DEF IInv, StreamInv
  <2>3. p \in Nat /\ L \in 0 .. p
    BY <1>1, <1>2, ContentLengthNat DEF IInv, BodyInv
  <2>. QED
    BY <2>1, <2>2, <2>3, BufferSizeNat
<1>5. f \in [0 .. BufferSize - 1 -> BufferCell] /\ s \in Seq(Cell) /\ sent <= Len(s) /\ body \in Seq(BufferCell)
      /\ Len(s) \in Nat
  BY <1>2, LenProperties DEF Framed, CellsTyped, Laid, LaidTo
<1>6. PICK x, y : x = [i \in 1 .. b |-> f[l + q + i - 1]] /\ y = SubSeq(s, c + 1, c + n)
  OBVIOUS
<1>7. x \in Seq(BufferCell) /\ Len(x) = b /\ \A i \in 1 .. b : x[i] = f[l + q + i - 1]
  <2>1. \A i \in 1 .. b : l + q + i - 1 \in 0 .. BufferSize - 1
    BY <1>3, <1>4
  <2>2. \A i \in 1 .. b : f[l + q + i - 1] \in BufferCell
    BY <1>5, <2>1
  <2>. QED
    BY <1>6, <2>2
<1>8. y \in Seq(BufferCell) /\ Len(y) = n /\ \A i \in 1 .. n : y[i] = s[c + i]
  <2>1. PICK m \in Nat : m = c + n
    BY <1>4
  <2>2. c <= m /\ m <= Len(s) /\ m - c = n
    BY <1>3, <1>4, <1>5, <2>1
  <2>3. y = SubSeq(s, c + 1, m)
    BY <1>6, <2>1
  <2>4. y \in Seq(Cell) /\ Len(y) = m - c /\ \A i \in 1 .. m - c : y[i] = s[c + i]
    BY ONLY <1>4, <1>5, <2>2, <2>3, PartCells
  <2>5. Cell \subseteq BufferCell
    BY DEF BufferCell
  <2>6. Seq(Cell) \subseteq Seq(BufferCell)
    BY <2>5
  <2>. QED
    BY <2>2, <2>4, <2>6, Zenon
<1>9. PICK all : all = (body \o x) \o y
  OBVIOUS
<1>10. /\ fRequest'.body = all /\ fRequest'.len = L + b + n
  BY <1>3, <1>6, <1>9 DEF Request
<1>11. PICK K : K = Len(body)
  OBVIOUS
<1>12. /\ all \in Seq(BufferCell) /\ Len(all) = K + b + n
       /\ \A i \in 1 .. K : all[i] = body[i]
       /\ \A i \in 1 .. b : all[K + i] = x[i]
       /\ \A i \in 1 .. n : all[K + b + i] = y[i]
  <2>1. /\ body \in Seq(BufferCell) /\ x \in Seq(BufferCell) /\ y \in Seq(BufferCell)
        /\ K = Len(body) /\ b = Len(x) /\ n = Len(y)
    BY <1>5, <1>7, <1>8, <1>11
  <2>. QED
    BY ONLY <1>9, <2>1, BodyGrows
<1>13. Laid(S)' /\ CellsTyped' /\ WholeRequests'
  <2>1. Laid(S)' /\ CellsTyped'
    BY <1>1, <1>10, <1>12 DEF Framed, Laid, CellsTyped
  <2>2. WholeRequests'
    BY <1>1, Zenon DEF Framed, WholeRequests, WellFramed, Cells, Size
  <2>. QED
    BY <2>1, <2>2
<1>14. fRequestPtr /\ HeadKept'
  <2>1. fRequestPtr
    BY <1>1 DEF Framed, HeadKept
  <2>. QED
    BY <1>1, <2>1 DEF HeadKept
<1>15. \A i \in 0 .. r - 1 : f[l + q + i] = s[(c - r) + 1 + i]
  BY <1>2, Zenon DEF Framed, Buffered, CellsAt
<1>16. Buffered'
  <2>1. ASSUME NEW i \in 0 .. (r - b) - 1 PROVE f[l + (q + b) + i] = s[((c + n) - (r - b)) + 1 + i]
    <3>1. n = 0 /\ b + i \in 0 .. r - 1
      BY <1>3, <1>4
    <3>2. l + q + (b + i) = l + (q + b) + i /\ (c - r) + 1 + (b + i) = ((c + n) - (r - b)) + 1 + i
      BY <1>3, <1>4, <3>1
    <3>3. f[l + q + (b + i)] = s[(c - r) + 1 + (b + i)]
      BY <1>15, <3>1
    <3>. QED
      BY <3>2, <3>3, Zenon
  <2>2. CellsAt(s, f, l + (q + b), r - b, (c + n) - (r - b))
    BY <2>1, Zenon DEF CellsAt
  <2>. QED
    BY <1>1, <1>2, <1>3, <1>14, <2>2, Zenon DEF Buffered
<1>17. AtWork(S)'
  <2>1. SUFFICES ASSUME Expected
                 PROVE  /\ HeadRead(Turn, S[Turn], fRequest.len)' /\ BodyRead(Turn)'
                        /\ fState' = "ProcessingRequest" => fRequest'.len = ContentLength'
    <3>1. fState' \notin Between /\ fState' # "HaveCompleteMessage"
      BY <1>3 DEF Between
    <3>. QED
      BY <1>1, <3>1, ExpectedSame, Zenon DEF AtWork
  <2>2. PICK k, z, h : k = Turn /\ z = S[Turn] /\ h = msgs[Turn].body
    OBVIOUS
  <2>3. HeadRead(k, z, L) /\ BodyRead(k)
    BY <1>1, <1>2, <2>1, <2>2, Zenon DEF Framed, AtWork, Handling
  <2>4. /\ k \in 1 .. Len(msgs) /\ k \in Nat /\ z \in Nat /\ h \in Nat /\ msgs[k] \in Message
        /\ h = msgs[k].body /\ msgs[k].head = l
        /\ \A i \in 1 .. l + h : s[z + i] = <<k, i>>
    <3>1. msgs[k].head = l
      BY <1>2, <2>3 DEF HeadRead
    <3>. QED
      BY <1>2, <2>1, <2>2, <3>1, ExpectedMessage, Zenon DEF Framed, IInv
  <2>5. c - r = z + l + L
    BY <1>2, <1>14, <2>3 DEF HeadRead, Position
  <2>6. K = L /\ \A i \in 1 .. L : body[i] = <<k, l + i>>
    BY <1>2, <1>11, <2>3, Zenon DEF BodyRead
  <2>7. p <= h
    <3>1. Parsed = k
      BY <1>2, <2>3, <2>4, HeadParses DEF HeadRead, IInv
    <3>2. p = IF msgs[k].parses THEN h ELSE 0
      BY <1>2, <2>4, <3>1, BodyAnnounced DEF IInv
    <3>. QED
      BY <2>4, <3>2
  <2>8. ASSUME NEW i \in 1 .. L + b + n PROVE all[i] = <<k, l + i>>
    <3>1. CASE i <= L
      <4>1. i \in 1 .. L
        BY <1>4, <3>1
      <4>. QED
        BY <1>12, <2>6, <4>1, Zenon
    <3>2. CASE i > L /\ i <= L + b
      <4>1. PICK j \in 1 .. b : i = L + j /\ l + i = l + L + j
        <5>1. i - L \in 1 .. b /\ i = L + (i - L) /\ l + i = l + L + (i - L)
          BY <1>4, <3>2
        <5>. QED
          BY <5>1
      <4>2. all[i] = f[l + q + j - 1]
        BY <1>7, <1>12, <2>6, <4>1, Zenon
      <4>3. j - 1 \in 0 .. r - 1 /\ l + q + (j - 1) = l + q + j - 1
        BY <1>3, <1>4
      <4>4. f[l + q + (j - 1)] = s[(c - r) + 1 + (j - 1)]
        BY <1>15, <4>3
      <4>5. (c - r) + 1 + (j - 1) = z + (l + L + j) /\ l + L + j \in 1 .. l + h
        BY <1>3, <1>4, <2>4, <2>5, <2>7
      <4>6. s[z + (l + L + j)] = <<k, l + L + j>>
        BY <2>4, <4>5, Zenon
      <4>. QED
        BY <4>1, <4>2, <4>3, <4>4, <4>5, <4>6, Zenon
    <3>3. CASE i > L + b
      <4>1. PICK j \in 1 .. n : i = L + b + j /\ l + i = l + L + b + j
        <5>1. i - (L + b) \in 1 .. n /\ i = L + b + (i - (L + b)) /\ l + i = l + L + b + (i - (L + b))
          BY <1>4, <3>3
        <5>. QED
          BY <5>1
      <4>2. all[i] = s[c + j]
        BY <1>8, <1>12, <2>6, <4>1, Zenon
      <4>3. b = r
        BY <1>3, <4>1
      <4>4. c + j = z + (l + L + b + j) /\ l + L + b + j \in 1 .. l + h
        BY <1>3, <1>4, <2>4, <2>5, <2>7, <4>3
      <4>5. s[z + (l + L + b + j)] = <<k, l + L + b + j>>
        BY <2>4, <4>4, Zenon
      <4>. QED
        BY <4>1, <4>2, <4>4, <4>5, Zenon
    <3>4. i <= L \/ (i > L /\ i <= L + b) \/ i > L + b
      BY <1>4
    <3>. QED
      BY <3>1, <3>2, <3>3, <3>4
  <2>9. Turn' = k /\ ContentLength' = p
    BY <1>1, <1>2, <2>2, ExpectedSame, ContentLengthSame
  <2>10. BodyRead(Turn)'
    <3>1. Len(all) = L + b + n
      BY <1>12, <2>6, Zenon
    <3>. QED
      BY <1>1, <1>2, <1>10, <2>8, <2>9, <3>1, Zenon DEF BodyRead
  <2>11. HeadRead(Turn, S[Turn], fRequest.len)'
    <3>1. Position' = z + l + (L + b + n)
      <4>1. Position' = (c + n) - (r - b)
        BY <1>1, <1>3, <1>14 DEF Position
      <4>2. (c + n) - (r - b) = z + l + (L + b + n)
        <5>1. c - r = z + l + L /\ c \in Nat /\ r \in Nat /\ z \in Nat /\ l \in Nat /\ L \in Nat
          BY <1>4, <2>4, <2>5
        <5>. QED
          BY ONLY <5>1, b \in Nat, n \in Nat
      <4>. QED
        BY <4>1, <4>2, Zenon
    <3>2. \A i \in 1 .. l : f[i - 1] = <<k, i>>
      BY <1>2, <2>3, Zenon DEF HeadRead
    <3>. QED
      BY <1>1, <1>2, <1>10, <1>14, <2>2, <2>4, <2>9, <3>1, <3>2, Zenon DEF HeadRead
  <2>12. fState' = "ProcessingRequest" => fRequest'.len = ContentLength'
    <3>1. "ProcessingRequest" # "FilteringRequest"
      OBVIOUS
    <3>. QED
      BY <1>3, <1>10, <2>9, <3>1, Zenon
  <2>. QED
    BY <2>10, <2>11, <2>12
<1>. QED
  BY <1>13, <1>14, <1>16, <1>17 DEF Framed

\* What Dispatch() is given is the message, and the next one starts where it ends.
LEMMA DispatchFrames ==
    ASSUME NEW S, IInv, Framed(S), ProcessingRequest
    PROVE  Framed(S)'
<1>1. /\ UNCHANGED <<msgs, stream, sent, rcvd, fRequestBuffer, fLen, fRetreatBytes, fRetreatBytesRead, fRequestPtr,
                     fRequest, alive, err>>
      /\ dispatched' = Append(dispatched, [head |-> RequestHead, body |-> fRequest.body])
      /\ fState = "ProcessingRequest" /\ alive /\ fState' = "SendingResponse"
  BY DEF ProcessingRequest, In, clientVars, inputVars, runVars, IInv, ThreadInv
<1>2. PICK D, d, x : D = Len(dispatched) /\ d = dispatched /\ x = [head |-> RequestHead, body |-> fRequest.body]
  OBVIOUS
<1>. DEFINE R == [head : Seq(BufferCell), body : Seq(BufferCell)]
<1>3. x \in R
  <2>1. RequestHead \in Seq(BufferCell)
    <3>1. fLen \in Nat /\ \A i \in 1 .. fLen : i - 1 \in 0 .. BufferSize - 1
      <4>1. /\ fLen \in Nat /\ fRetreatBytes \in Nat /\ fRetreatBytesRead \in Nat
            /\ fCurOffset = fLen + fRetreatBytesRead + fRetreatBytes /\ fCurOffset < BufferSize
        BY DEF IInv, BufferInv, BufferExact
      <4>. QED
        BY <4>1, BufferSizeNat
    <3>2. \A i \in 1 .. fLen : fRequestBuffer[i - 1] \in BufferCell
      BY <3>1 DEF Framed, CellsTyped
    <3>. QED
      BY <3>1, <3>2 DEF RequestHead
  <2>2. fRequest.body \in Seq(BufferCell)
    BY DEF Framed, CellsTyped
  <2>. QED
    BY <1>2, <2>1, <2>2
<1>4. d \in Seq(R) /\ D \in Nat /\ D = Len(d)
  BY <1>2, LenProperties DEF Framed, CellsTyped
<1>. HIDE DEF R
<1>5. /\ dispatched' \in Seq(R) /\ Len(dispatched') = D + 1
      /\ \A i \in 1 .. D : dispatched'[i] = d[i]
      /\ dispatched'[D + 1] = x
  <2>1. dispatched' = Append(d, x)
    BY <1>1, <1>2
  <2>. QED
    BY <1>3, <1>4, <2>1, AppendProperties
<1>6. Laid(S)' /\ CellsTyped' /\ Buffered' /\ HeadKept'
  <2>1. Laid(S)' /\ Buffered'
    BY <1>1 DEF Framed, Laid, Buffered
  <2>2. CellsTyped'
    BY <1>1, <1>5 DEF Framed, CellsTyped, R
  <2>3. HeadKept'
    BY <1>1 DEF Framed, HeadKept
  <2>. QED
    BY <2>1, <2>2, <2>3
<1>7. D + 1 <= Len(msgs) /\ WellFramed(D + 1) => Expected
  <2>1. SUFFICES ASSUME D + 1 <= Len(msgs), WellFramed(D + 1) PROVE Expected
    OBVIOUS
  <2>2. Len(msgs) \in Nat
    BY Script DEF IInv
  <2>3. D < Len(msgs) /\ D + 1 \in 1 .. D + 1 /\ \A k \in 1 .. D : k \in 1 .. D + 1
    BY <1>4, <2>1, <2>2
  <2>4. WellFramed(D) /\ msgs[D + 1].head < BufferSize
    BY <2>1, <2>3, Zenon DEF WellFramed
  <2>. QED
    BY <1>2, <2>3, <2>4, Zenon DEF Expected, Turn
<1>8. ASSUME Expected, WellFramed(D + 1)
      PROVE  /\ x.head \o x.body = Cells(D + 1, msgs[D + 1])
             /\ Position = S[D + 2]
  <2>1. PICK k, z, h, b : k = Turn /\ z = S[Turn] /\ h = msgs[Turn].head /\ b = msgs[Turn].body
    OBVIOUS
  <2>2. k = D + 1 /\ k + 1 = D + 2
    BY <1>2, <1>4, <2>1 DEF Turn
  <2>3. /\ k \in 1 .. Len(msgs) /\ k \in Nat /\ z \in Nat /\ h \in Nat /\ b \in Nat /\ msgs[k] \in Message
        /\ h = msgs[k].head /\ b = msgs[k].body
        /\ S[k + 1] = z + (h + b)
    BY <1>8, <2>1, ExpectedMessage, Zenon DEF Framed, IInv
  <2>4. HeadRead(k, z, fRequest.len) /\ BodyRead(k) /\ fRequest.len = ContentLength
    BY <1>1, <1>8, <2>1, Zenon DEF Framed, AtWork, Handling
  <2>5. /\ RequestHead \in Seq(Cell) /\ Len(RequestHead) = h
        /\ \A i \in 1 .. h : RequestHead[i] = <<k, i>>
        /\ Parsed = k /\ fLen = h
    <3>1. fLen = h
      BY <2>3, <2>4 DEF HeadRead
    <3>2. \A i \in 1 .. fLen : fRequestBuffer[i - 1] = <<k, i>>
      BY <2>4 DEF HeadRead
    <3>. QED
      BY <2>3, <3>1, <3>2, HeadParses, Zenon DEF IInv
  <2>6. ContentLength = b
    <3>1. msgs[k].parses \/ b = 0
      <4>1. k \in 1 .. D + 1
        BY <1>4, <2>2
      <4>. QED
        BY <1>8, <2>3, <4>1, Zenon DEF WellFramed
    <3>2. ContentLength = IF msgs[k].parses THEN b ELSE 0
      BY <2>3, <2>5, BodyAnnounced DEF IInv
    <3>. QED
      BY <3>1, <3>2
  <2>7. PICK u, v, w, c : u = RequestHead /\ v = fRequest.body /\ w = u \o v /\ c = Cells(k, msgs[k])
    OBVIOUS
  <2>8. /\ v \in Seq(BufferCell) /\ Len(v) = b /\ \A i \in 1 .. b : v[i] = <<k, h + i>>
    BY <2>4, <2>5, <2>6, <2>7, Zenon DEF BodyRead, Framed, CellsTyped
  <2>9. u \in Seq(BufferCell) /\ Len(u) = h /\ \A i \in 1 .. h : u[i] = <<k, i>>
    <3>1. x.head \in Seq(BufferCell)
      BY <1>3 DEF R
    <3>. QED
      BY <1>2, <2>5, <2>7, <3>1, Zenon
  <2>10. /\ w \in Seq(BufferCell) /\ Len(w) = h + b
         /\ \A i \in 1 .. h : w[i] = u[i]
         /\ \A i \in 1 .. b : w[h + i] = v[i]
    <3>1. u \in Seq(BufferCell) /\ v \in Seq(BufferCell) /\ h = Len(u) /\ b = Len(v) /\ w = u \o v
      BY <2>7, <2>8, <2>9
    <3>. QED
      BY ONLY <3>1, ConcatCells
  <2>11. c \in Seq(Cell) /\ Len(c) = h + b /\ \A i \in 1 .. h + b : c[i] = <<k, i>>
    <3>1. Size(msgs[k]) = h + b
      BY <2>3 DEF Size
    <3>. QED
      BY <2>3, <2>7, <3>1, CellsOf, Zenon
  <2>12. ASSUME NEW i \in 1 .. h + b PROVE w[i] = c[i]
    <3>1. CASE i <= h
      <4>1. i \in 1 .. h
        BY <2>3, <3>1
      <4>. QED
        BY <2>9, <2>10, <2>11, <4>1, Zenon
    <3>2. CASE ~(i <= h)
      <4>1. PICK j \in 1 .. b : i = h + j
        <5>1. i - h \in 1 .. b /\ i = h + (i - h)
          BY <2>3, <3>2
        <5>. QED
          BY <5>1
      <4>. QED
        BY <2>8, <2>10, <2>11, <4>1, Zenon
    <3>. QED
      BY <3>1, <3>2
  <2>13. w = c
    <3>1. Len(w) = Len(c) /\ \A i \in 1 .. Len(w) : w[i] = c[i]
      BY <2>10, <2>11, <2>12, Zenon
    <3>2. \A s, t : s \in Seq(BufferCell) /\ t \in Seq(BufferCell) /\ Len(s) = Len(t)
                      /\ (\A i \in 1 .. Len(s) : s[i] = t[i]) => s = t
      BY SeqEqual
    <3>3. c \in Seq(BufferCell)
      <4>1. Cell \subseteq BufferCell
        BY DEF BufferCell
      <4>. QED
        BY <2>11, <4>1
    <3>. QED
      BY <2>10, <3>1, <3>2, <3>3, Zenon
  <2>14. Position = z + (h + b)
    <3>1. Position = z + fLen + fRequest.len
      BY <2>4 DEF HeadRead
    <3>. QED
      BY <2>3, <2>4, <2>5, <2>6, <3>1, SMTT(20)
  <2>15. x.head = u /\ x.body = v
    BY <1>2, <2>7
  <2>. QED
    BY <2>2, <2>3, <2>7, <2>13, <2>14, <2>15, Zenon
<1>9. WholeRequests'
  <2>1. SUFFICES ASSUME NEW k \in 1 .. D + 1, k <= Len(msgs), WellFramed(k)
                 PROVE  dispatched'[k].head \o dispatched'[k].body = Cells(k, msgs[k])
    BY <1>1, <1>5, Zenon DEF WholeRequests, WellFramed, Cells, Size
  <2>2. CASE k = D + 1
    BY <1>5, <1>7, <1>8, <2>1, <2>2, Zenon
  <2>3. CASE k # D + 1
    <3>1. k \in 1 .. D
      BY <1>4, <2>3
    <3>2. d[k].head \o d[k].body = Cells(k, msgs[k])
      BY <1>2, <2>1, <3>1, Zenon DEF Framed, WholeRequests
    <3>. QED
      BY <1>5, <3>1, <3>2, Zenon
  <2>. QED
    BY <2>2, <2>3
<1>10. AtWork(S)'
  <2>1. SUFFICES ASSUME Expected' PROVE Position' = S[Turn']
    BY <1>1 DEF AtWork, Between, Handling
  <2>2. D + 1 < Len(msgs) /\ WellFramed(D + 1) /\ Turn' = D + 1 + 1
    BY <1>1, <1>5, <2>1, Zenon DEF Expected, Turn, WellFramed
  <2>3. D + 1 <= Len(msgs) /\ D + 1 + 1 = D + 2
    <3>1. Len(msgs) \in Nat
      BY Script DEF IInv
    <3>. QED
      BY <1>4, <2>2, <3>1
  <2>4. Position = S[D + 2]
    BY <1>7, <1>8, <2>2, <2>3
  <2>5. Position' = Position
    BY <1>1 DEF Position
  <2>. QED
    BY <2>2, <2>3, <2>4, <2>5, Zenon
<1>. QED
  BY <1>6, <1>9, <1>10 DEF Framed

----------------------------------------------------------------------------
\* Nothing was received yet: the first message starts at the start of the stream.
LEMMA FrameInit == Init => FrameInv
<1>1. SUFFICES ASSUME Init PROVE FrameInv
  OBVIOUS
<1>2. /\ msgs \in Scripts /\ stream = StreamOf(msgs) /\ sent = 0 /\ rcvd = 0
      /\ fRequestBuffer = [i \in 0 .. BufferSize - 1 |-> Blank]
      /\ fLen = 0 /\ fRetreatBytes = 0 /\ fRetreatBytesRead = 0 /\ fRequestPtr = FALSE
      /\ fState = "ReadingFirstRequest" /\ fRequest = NoRequest /\ dispatched = <<>>
  BY <1>1 DEF Init
<1>3. msgs \in Seq(Message)
  BY <1>2, SessionAssumption DEF Message
<1>4. PICK S : Laid(S)
  BY <1>2, <1>3, StreamLaid DEF Laid
<1>5. Len(dispatched) = 0 /\ Turn = 1
  BY <1>2, EmptySeq DEF Turn
<1>6. CellsTyped
  <2>1. Len(stream) \in Nat
    BY <1>4, LenProperties DEF Laid, LaidTo
  <2>2. fRequestBuffer \in [0 .. BufferSize - 1 -> BufferCell]
    BY <1>2 DEF BufferCell
  <2>. QED
    BY <1>2, <2>1, <2>2, NoBody, EmptySeq DEF CellsTyped
<1>7. Buffered
  <2>1. \A i \in 0 .. 0 - 1 : FALSE
    OBVIOUS
  <2>. QED
    BY <1>2, <2>1, Zenon DEF Buffered, CellsAt
<1>8. HeadKept
  BY <1>2 DEF HeadKept
<1>9. AtWork(S)
  <2>1. Position = 0
    BY <1>2 DEF Position
  <2>2. S[1] = 0
    BY <1>4 DEF Laid, LaidTo
  <2>. QED
    BY <1>2, <1>5, <2>1, <2>2 DEF AtWork, Handling
<1>10. WholeRequests
  <2>1. \A k \in 1 .. 0 : FALSE
    OBVIOUS
  <2>. QED
    BY <1>5, <2>1, Zenon DEF WholeRequests
<1>. QED
  BY <1>4, <1>6, <1>7, <1>8, <1>9, <1>10 DEF FrameInv, Framed

\* Every step keeps the messages apart.
LEMMA FrameStep == IInv /\ FrameInv /\ [Next]_vars => FrameInv'
<1>. SUFFICES ASSUME IInv, FrameInv, [Next]_vars PROVE FrameInv'
  OBVIOUS
<1>1. PICK S : Framed(S)
  BY DEF FrameInv
<1>2. Framed(S)'
  BY <1>1, QuietFrames, HaveFrames, TakeFrames, SocketFrames, FilterFrames, DispatchFrames DEF Next, Run
<1>. QED
  BY <1>2 DEF FrameInv

\* However recv() cuts the stream and whatever was read behind the request before, the
\* k-th request that Dispatch() is given is the k-th message, its head and its body whole
\* (HTTPRequestStream::ReadRequest and Read, and HTTPSession::SetupRequest).
THEOREM RequestsAreWhole == Spec => []WholeRequests
<1>1. FrameInv => WholeRequests
  BY DEF FrameInv, Framed
<1>. QED
  BY <1>1, FrameInit, FrameStep, SessionInvariant, PTL DEF Spec
============================================================================
