---------------------------- MODULE HTTPSession ----------------------------
(***************************************************************************)
(* One connection of the HTTP server: HTTPSession::Run with the buffers of *)
(* HTTPRequestStream and HTTPResponseStream, over a non-blocking socket.   *)
(*                                                                         *)
(* The client's bytes are cells <<n, i>>, the i-th cell of its n-th        *)
(* message; a message is a head of some cells and a body.  What ends a     *)
(* head in the code, an empty line, a first line without blanks or the     *)
(* length in a '$' packet, is its last cell.  A response is                *)
(* ResponseSize cells <<r, j>>.                                            *)
(*                                                                         *)
(* A head that does not start where a message starts does not parse.       *)
(* Nothing in src/ counts object holders, decodes base64 (fDecode) or sets *)
(* fRequestBodyLen: those branches are left out.  fReadMutex and           *)
(* fSessionMutex are locked and unlocked together: they are one lock.      *)
(***************************************************************************)
EXTENDS Integers, Sequences, FiniteSetsExt

CONSTANTS
    Threads, NoThread,
    Scripts,       \* what clients send: sequences of [head, body, keep, parses, data]
    BufferSize,    \* kRequestBufferSizeInBytes
    ResponseSize,  \* cells of a response
    SendBuffer,    \* cells the kernel takes before send() would block
    MaxRead,       \* bound: the client reads until it has read so many cells
    Blank          \* a cell of fRequestBuffer that was never written

ASSUME SessionAssumption ==
    /\ NoThread \notin Threads
    /\ Scripts \subseteq Seq([head : Nat \ {0}, body : Nat, keep : BOOLEAN, parses : BOOLEAN,
                               data : BOOLEAN])
    /\ BufferSize \in Nat /\ BufferSize >= 2
    /\ ResponseSize \in Nat \ {0} /\ SendBuffer \in Nat \ {0}

VARIABLES
    msgs, stream,      \* what the client will send, as messages and as cells
    sent, rcvd,        \* cells of stream written by the client, taken by recv()
    conn,              \* the connection as the client left it
    unread,            \* cells in the send buffer
    fRequestBuffer, fLen, fRetreatBytes, fRetreatBytesRead, fCurOffset,
    fRequestPtr,       \* fRequestPtr # NULL
    fOutputBuffer, fBytesSentInBuffer,
    fConnected,        \* kConnected of fSocket
    fLiveSession, fState, err, fRequest,
    watch,             \* the event last requested of fSocket
    events,            \* fEvents of the task
    runner,            \* the thread in Run()
    fUseThisThread,
    lock,              \* holder and count of fReadMutex and fSessionMutex
    alive,             \* not deleted yet
    dispatched,        \* history: what Dispatch() was given
    responses,         \* history: responses begun
    delivered          \* history: cells send() took

clientVars == <<msgs, stream, sent, conn>>
inputVars  == <<fRequestBuffer, fLen, fRetreatBytes, fRetreatBytesRead, fCurOffset, fRequestPtr>>
outputVars == <<fOutputBuffer, fBytesSentInBuffer, unread, delivered>>
runVars    == <<watch, runner, fUseThisThread, alive, fLiveSession>>
vars == <<clientVars, rcvd, inputVars, outputVars, fConnected, fState, err, fRequest, events,
          lock, runVars, dispatched, responses>>

Size(s) == s.head + s.body

Cells(n, s) == [i \in 1 .. Size(s) |-> <<n, i>>]

StreamOf(ms) ==
    LET upTo[n \in 0 .. Len(ms)] == IF n = 0 THEN <<>> ELSE upTo[n - 1] \o Cells(n, ms[n])
    IN upTo[Len(ms)]

\* A request: the message it was parsed to, and fHTTPBody with its Len; and nullptr.
Request(message, body, len) == [message |-> message, body |-> body, len |-> len]

NoRequest == Request(0, <<>>, -1)

Free == [holder |-> NoThread, count |-> 0]

\* The listener has set the socket and asked for EV_RE.
Init ==
    /\ msgs \in Scripts
    /\ stream = StreamOf(msgs)
    /\ sent = 0 /\ rcvd = 0 /\ unread = 0 /\ conn = "open"
    /\ fRequestBuffer = [i \in 0 .. BufferSize - 1 |-> Blank]
    /\ fLen = 0 /\ fRetreatBytes = 0 /\ fRetreatBytesRead = 0 /\ fCurOffset = 0
    /\ fRequestPtr = FALSE
    /\ fOutputBuffer = <<>> /\ fBytesSentInBuffer = 0
    /\ fConnected = TRUE /\ fLiveSession = TRUE
    /\ fState = "ReadingFirstRequest" /\ err = "none" /\ fRequest = NoRequest
    /\ watch = "EV_RE" /\ events = {}
    /\ runner = NoThread /\ fUseThisThread = NoThread /\ lock = Free /\ alive = TRUE
    /\ dispatched = <<>> /\ responses = 0 /\ delivered = <<>>

----------------------------------------------------------------------------
(* The client, the event thread and the timeout task *)

ClientSends ==
    /\ conn = "open" /\ alive
    /\ \E n \in sent + 1 .. Len(stream) : sent' = n
    /\ UNCHANGED <<msgs, stream, conn, rcvd, inputVars, outputVars, fConnected, fState, err,
                   fRequest, events, lock, runVars, dispatched, responses>>

ClientReads ==
    /\ alive /\ conn # "reset" /\ unread > 0
    /\ Len(delivered) - unread < MaxRead
    /\ \E n \in 0 .. unread - 1 : unread' = n
    /\ UNCHANGED <<clientVars, rcvd, inputVars, fOutputBuffer, fBytesSentInBuffer, delivered,
                   fConnected, fState, err, fRequest, events, lock, runVars, dispatched,
                   responses>>

\* The client stops sending, or goes away.
ClientCloses ==
    /\ alive
    /\ conn' \in {"fin", "reset"} /\ conn # conn' /\ conn # "reset"
    /\ UNCHANGED <<msgs, stream, sent, rcvd, inputVars, outputVars, fConnected, fState, err,
                   fRequest, events, lock, runVars, dispatched, responses>>

\* A reset is reported whatever was asked for.
Ready ==
    \/ conn = "reset"
    \/ watch = "EV_RE" /\ (sent > rcvd \/ conn = "fin")
    \/ watch = "EV_WR" /\ unread < SendBuffer

Signal(event) ==
    /\ alive
    /\ event \notin events
    /\ events' = events \cup {event}
    /\ UNCHANGED <<clientVars, rcvd, inputVars, outputVars, fConnected, fState, err, fRequest,
                   lock, runVars, dispatched, responses>>

\* Socket events are level triggered: they come as long as the cause is there.
ProcessEvent == Ready /\ Signal("io")

\* TimeoutTaskThread::Run after fTimeoutInMilSecs without a RefreshTimeout().
TimeoutExpires == Signal("timeout")

----------------------------------------------------------------------------
(* The task: how a Run() begins and ends *)

\* fRequestKeepAlive, false until a head is parsed.
KeepAlive == fRequest.message # 0 /\ msgs[fRequest.message].keep

\* fRequest is deleted, the session told to end unless the request asked to be
\* kept alive, and the mutexes unlocked; Unlock() does nothing for a thread that
\* does not hold the mutex.
CleanupRequestAndResponse ==
    /\ events' = IF fRequest # NoRequest /\ ~KeepAlive THEN events \cup {"kill"} ELSE events
    /\ fRequest' = NoRequest
    /\ lock' = CASE lock.holder # runner -> lock
                 [] lock.count > 1       -> [lock EXCEPT !.count = @ - 1]
                 [] OTHER                -> Free

\* GetEvents(); a timeout ends the session whatever it is doing, and the
\* destructor cleans up on the same thread.
BeginRun(th) ==
    /\ alive /\ runner = NoThread /\ events # {}
    /\ fUseThisThread \in {NoThread, th}
    /\ runner' = th
    /\ fUseThisThread' = NoThread
    /\ events' = {}
    /\ fLiveSession' = (fLiveSession /\ "kill" \notin events)
    /\ fState' = IF "timeout" \in events THEN "TimedOut" ELSE fState
    /\ UNCHANGED <<clientVars, rcvd, inputVars, outputVars, fConnected, err, fRequest, lock,
                   watch, alive, dispatched, responses>>

IsLiveSession == fConnected /\ fLiveSession

In(state) == runner # NoThread /\ IsLiveSession /\ fState = state

\* Run() returns -1, at once on a timeout and else behind the loop.
EndSession ==
    /\ runner # NoThread
    /\ fState = "TimedOut" \/ ~IsLiveSession
    /\ CleanupRequestAndResponse
    /\ alive' = FALSE
    /\ runner' = NoThread
    /\ UNCHANGED <<clientVars, rcvd, inputVars, outputVars, fConnected, fState, err, watch,
                   fUseThisThread, fLiveSession, dispatched, responses>>

\* Run() returns 0 after a RequestEvent().
Await(event) ==
    /\ watch' = event
    /\ runner' = NoThread

----------------------------------------------------------------------------
(* Socket::Read *)

Available == sent - rcvd

\* recv() fails, or returns 0: at the end of the stream, and for a length of 0.
ReadFails(length) == conn = "reset" \/ length = 0 \/ (Available = 0 /\ conn = "fin")

\* How many cells recv() returns when it does not fail; 0 is EAGAIN.
ReadLength(length) == Min({length, Available})

\* Mutant: an error does not turn off the connected state.
DisconnectNever(fails) == UNCHANGED fConnected

Disconnect(fails) == fConnected' = (fConnected /\ ~fails)

----------------------------------------------------------------------------
(* HTTPRequestStream::ReadRequest *)

IsDataPacket(buffer, len) == len > 0 /\ buffer[0][2] = 1 /\ msgs[buffer[0][1]].data

EndsHead(cell) == ~msgs[cell[1]].data /\ cell[2] = msgs[cell[1]].head

\* Where a complete head, or the '$' packet at the start, ends.
HeadEnds(buffer, len) ==
    IF IsDataPacket(buffer, len) THEN {msgs[buffer[0][1]].head} \cap 1 .. len
    ELSE {i \in 1 .. len : EndsHead(buffer[i - 1])}

\* What is behind the first head is put back.  A full buffer without a head is
\* E2BIG, but not one that starts with '$'.
Scan(buffer, len, curOffset) ==
    LET ends == HeadEnds(buffer, len)
        full == curOffset = BufferSize - 1 /\ ~IsDataPacket(buffer, len)
    IN
    \/ \E head \in ends :
          /\ \A i \in ends : head <= i
          /\ fLen' = head /\ fRetreatBytes' = len - head
          /\ fRequestPtr' = TRUE
          /\ err' = "arrived" /\ fState' = "HaveCompleteMessage"
    \/ /\ ends = {} /\ full
       /\ fLen' = len /\ fRetreatBytes' = 0
       /\ fRequestPtr' = TRUE
       /\ err' = "E2BIG" /\ fState' = "HaveCompleteMessage"
    \/ /\ ends = {} /\ ~full
       /\ fLen' = len /\ fRetreatBytes' = 0
       /\ fRequestPtr' = FALSE
       /\ UNCHANGED <<err, fState>>

\* Only later requests are read under fReadMutex, held for one pass of the loop.
MayLock == lock.holder \in {NoThread, runner}

Reading == In("ReadingFirstRequest") \/ (In("ReadingRequest") /\ MayLock)

\* Mutant: the leftover is taken from behind the head.
TakeLeftoverBody ==
    /\ Reading /\ fRequestPtr
    /\ fRequestBuffer' = [i \in DOMAIN fRequestBuffer |->
           IF i < fRetreatBytes THEN fRequestBuffer[i + fLen] ELSE fRequestBuffer[i]]
    /\ fCurOffset' = fRetreatBytes
    /\ fRetreatBytesRead' = 0
    /\ Scan(fRequestBuffer', fRetreatBytes, fRetreatBytes)
    /\ UNCHANGED <<clientVars, rcvd, outputVars, fConnected, fRequest, events, lock, runVars,
                   dispatched, responses>>

\* Mutant: the leftover is looked at only when more data has come.
TakeLeftoverUnscanned ==
    /\ Reading /\ fRequestPtr
    /\ fRequestBuffer' = [i \in DOMAIN fRequestBuffer |->
           IF i < fRetreatBytes THEN fRequestBuffer[i + fLen + fRetreatBytesRead]
           ELSE fRequestBuffer[i]]
    /\ fCurOffset' = fRetreatBytes /\ fLen' = fRetreatBytes
    /\ fRetreatBytes' = 0 /\ fRetreatBytesRead' = 0
    /\ fRequestPtr' = FALSE
    /\ UNCHANGED <<clientVars, rcvd, outputVars, fConnected, fState, err, fRequest, events, lock,
                   runVars, dispatched, responses>>

\* The last request is done: what was read behind its head and its body moves
\* to the front of the buffer and may already hold a request.
TakeLeftover ==
    /\ Reading /\ fRequestPtr
    /\ fRequestBuffer' = [i \in DOMAIN fRequestBuffer |->
           IF i < fRetreatBytes THEN fRequestBuffer[i + fLen + fRetreatBytesRead]
           ELSE fRequestBuffer[i]]
    /\ fCurOffset' = fRetreatBytes
    /\ fRetreatBytesRead' = 0
    /\ Scan(fRequestBuffer', fRetreatBytes, fRetreatBytes)
    /\ UNCHANGED <<clientVars, rcvd, outputVars, fConnected, fRequest, events, lock, runVars,
                   dispatched, responses>>

\* Nothing new in the buffer: one read from the socket.  Without data the session
\* waits for it; an error ends the loop of Run(), the socket being unconnected.
ReadSocket ==
    LET space == BufferSize - fCurOffset - 1
        n == ReadLength(space)
    IN
    /\ Reading /\ ~fRequestPtr
    /\ \/ /\ ReadFails(space)
          /\ Disconnect(TRUE)
          /\ UNCHANGED <<rcvd, inputVars, fState, err, watch, runner>>
       \/ /\ ~ReadFails(space) /\ n = 0
          /\ Await("EV_RE")
          /\ UNCHANGED <<rcvd, inputVars, fState, err, fConnected>>
       \/ /\ ~ReadFails(space) /\ n > 0
          /\ rcvd' = rcvd + n
          /\ fRequestBuffer' = [i \in DOMAIN fRequestBuffer |->
                 IF i \in fCurOffset .. fCurOffset + n - 1 THEN stream[rcvd + 1 + i - fCurOffset]
                 ELSE fRequestBuffer[i]]
          /\ fCurOffset' = fCurOffset + n
          /\ Scan(fRequestBuffer', fLen + n, fCurOffset + n)
          /\ UNCHANGED <<fRetreatBytesRead, fConnected, watch, runner>>
    /\ UNCHANGED <<clientVars, outputVars, fRequest, events, lock, fUseThisThread, alive,
                   fLiveSession, dispatched, responses>>

----------------------------------------------------------------------------
(* HTTPSession::Run, one action per state *)

\* The mutexes are locked until the response is out.
HaveCompleteMessage ==
    /\ In("HaveCompleteMessage") /\ MayLock
    /\ fRequest' = Request(0, <<>>, 0)
    /\ lock' = [holder |-> runner, count |-> lock.count + 1]
    /\ responses' = responses + 1
    /\ fState' = IF err = "E2BIG" THEN "SendingResponse" ELSE "FilteringRequest"
    /\ UNCHANGED <<clientVars, rcvd, inputVars, outputVars, fConnected, err, events, runVars,
                   dispatched>>

RequestHead == [i \in 1 .. fLen |-> fRequestBuffer[i - 1]]

\* HTTPPacket::Parse: the message whose head was read, 0 if it is none.
Parsed ==
    LET n == RequestHead[1][1] IN
    IF RequestHead = SubSeq(Cells(n, msgs[n]), 1, msgs[n].head) THEN n ELSE 0

\* A body is read only when the head parsed to the end.
ContentLength ==
    IF Parsed \in DOMAIN msgs /\ msgs[Parsed].parses THEN msgs[Parsed].body ELSE 0

\* Mutant: the position behind the bytes read is not moved.
ReadRetreatInPlace(n) ==
    /\ fRetreatBytes' = fRetreatBytes - n
    /\ UNCHANGED fRetreatBytesRead

\* HTTPRequestStream::Read, the bytes that were put back.
ReadRetreat(n) ==
    /\ fRetreatBytes' = fRetreatBytes - n
    /\ fRetreatBytesRead' = fRetreatBytesRead + n

\* Mutant: the session does not ask for its thread.
WouldBlockAnywhere ==
    /\ Await("EV_RE")
    /\ UNCHANGED <<fUseThisThread, fState>>

\* Part of the body is missing: the mutexes stay locked, by this thread.
WouldBlock ==
    /\ fUseThisThread' = runner
    /\ Await("EV_RE")
    /\ UNCHANGED fState

\* SetupRequest: the bytes put back, then one read from the socket.  An error of
\* the socket is a short read, too.
FilteringRequest ==
    LET need == ContentLength - fRequest.len
        back == Min({need, fRetreatBytes})
        fails == need > back /\ ReadFails(need - back)
        n == IF fails THEN 0 ELSE ReadLength(need - back)
    IN
    /\ In("FilteringRequest")
    /\ ReadRetreat(back)
    /\ rcvd' = rcvd + n
    /\ Disconnect(fails)
    /\ LET putBack == [i \in 1 .. back |-> fRequestBuffer[fLen + fRetreatBytesRead + i - 1]]
           received == SubSeq(stream, rcvd + 1, rcvd + n)
       IN fRequest' = Request(Parsed, fRequest.body \o putBack \o received,
                              fRequest.len + back + n)
    /\ \/ back + n = need /\ fState' = "ProcessingRequest"
          /\ UNCHANGED <<fUseThisThread, watch, runner>>
       \/ back + n < need /\ WouldBlock
    /\ UNCHANGED <<clientVars, fRequestBuffer, fLen, fCurOffset, fRequestPtr, outputVars, err,
                   events, lock, alive, fLiveSession, dispatched, responses>>

\* The 505 of kPreprocessingRequest is overruled there: every request whose head
\* arrived is dispatched, also one that does not parse.
ProcessingRequest ==
    /\ In("ProcessingRequest")
    /\ dispatched' = Append(dispatched, [head |-> RequestHead, body |-> fRequest.body])
    /\ fState' = "SendingResponse"
    /\ UNCHANGED <<clientVars, rcvd, inputVars, outputVars, fConnected, err, fRequest, events,
                   lock, runVars, responses>>

\* SetupResponse: status line, headers and body are put into the output buffer.
SetupResponse == fOutputBuffer \o [j \in 1 .. ResponseSize |-> <<responses, j>>]

\* Mutant: what was sent is not counted when some data is left.
FlushAgain(buffer, n) ==
    /\ delivered' = delivered \o SubSeq(buffer, fBytesSentInBuffer + 1, fBytesSentInBuffer + n)
    /\ unread' = unread + n
    /\ IF fBytesSentInBuffer + n = Len(buffer)
       THEN fOutputBuffer' = <<>> /\ fBytesSentInBuffer' = 0
       ELSE fOutputBuffer' = buffer /\ UNCHANGED fBytesSentInBuffer

\* HTTPResponseStream::Flush when send() takes n cells.
Flush(buffer, n) ==
    /\ delivered' = delivered \o SubSeq(buffer, fBytesSentInBuffer + 1, fBytesSentInBuffer + n)
    /\ unread' = unread + n
    /\ IF fBytesSentInBuffer + n = Len(buffer)
       THEN fOutputBuffer' = <<>> /\ fBytesSentInBuffer' = 0
       ELSE fOutputBuffer' = buffer /\ fBytesSentInBuffer' = fBytesSentInBuffer + n

\* The response is built again each time the socket has become writeable.  A
\* dead socket sends nothing and looks like a full one.
SendingResponse ==
    LET buffer == SetupResponse
        amtInBuffer == Len(buffer) - fBytesSentInBuffer
        fails == conn = "reset"
        n == IF fails THEN 0 ELSE Min({amtInBuffer, SendBuffer - unread})
    IN
    /\ In("SendingResponse")
    /\ Flush(buffer, n)
    /\ Disconnect(fails)
    /\ \/ n = amtInBuffer /\ fState' = "CleaningUp"
          /\ UNCHANGED <<fUseThisThread, watch, runner>>
       \/ n < amtInBuffer /\ fUseThisThread' = runner /\ Await("EV_WR") /\ UNCHANGED fState
    /\ UNCHANGED <<clientVars, rcvd, inputVars, err, fRequest, events, lock, alive, fLiveSession,
                   dispatched, responses>>

CleaningUp ==
    /\ In("CleaningUp")
    /\ CleanupRequestAndResponse
    /\ fState' = "ReadingRequest"
    /\ UNCHANGED <<clientVars, rcvd, inputVars, outputVars, fConnected, err, runVars, dispatched,
                   responses>>

Run ==
    \/ \E th \in Threads : BeginRun(th)
    \/ TakeLeftover \/ ReadSocket
    \/ HaveCompleteMessage \/ FilteringRequest \/ ProcessingRequest \/ SendingResponse
    \/ CleaningUp
    \/ EndSession

Next == ClientSends \/ ClientReads \/ ClientCloses \/ ProcessEvent \/ TimeoutExpires \/ Run

Spec == Init /\ [][Next]_vars

\* A task that was signalled runs, and a level triggered event reaches it (the
\* scheduler's ScheduledRuns and the event loop's LevelEventDelivered).
FairSpec == Spec /\ WF_vars(Run) /\ WF_vars(ProcessEvent)

----------------------------------------------------------------------------
(* Properties *)

\* Messages before n leave the stream where the next one starts: none is too big
\* for the buffer, and none has a body its head does not announce.
WellFramed(n) ==
    \A k \in 1 .. n : /\ msgs[k].head < BufferSize
                      /\ msgs[k].parses \/ msgs[k].body = 0

\* The k-th request that is dispatched is the k-th message, its head and its body
\* whole and nothing of the next one in it, however recv() cuts the stream.
WholeRequests ==
    \A k \in 1 .. Len(dispatched) : k <= Len(msgs) /\ WellFramed(k) =>
        dispatched[k].head \o dispatched[k].body = Cells(k, msgs[k])

\* fCurOffset counts what the buffer holds: the head, what was read of the rest
\* and what is left of it; the '\0' of the buffer stays free (the assertion
\* fRequest.Len < kRequestBufferSizeInBytes).
BufferExact ==
    /\ fCurOffset = fLen + fRetreatBytesRead + fRetreatBytes
    /\ fCurOffset < BufferSize
    /\ ~fRequestPtr => fRetreatBytes = 0 /\ fRetreatBytesRead = 0

\* A session that sleeps until there is more input has used what it has: no
\* complete request stays in the buffer, no part of a body before a body.
NoStalledRequest ==
    alive /\ runner = NoThread /\ watch = "EV_RE" =>
        IF fState = "FilteringRequest" THEN fRetreatBytes = 0
        ELSE HeadEnds(fRequestBuffer, fLen) = {}

\* What the client gets is whole responses, in the order of the requests, each
\* cell followed by the next one of its response and the last one by the start
\* of a response; only the last response may be cut off.
ResponsesWhole ==
    /\ delivered # <<>> => delivered[1] = <<1, 1>>
    /\ \A k \in 1 .. Len(delivered) - 1 :
          LET now == delivered[k]
              next == delivered[k + 1]
          IN IF now[2] < ResponseSize THEN next = <<now[1], now[2] + 1>>
             ELSE next[2] = 1 /\ next[1] \in {now[1], now[1] + 1}

\* The mutexes are held exactly from the arrival of a request to the clean-up, by
\* the thread that runs the session or that it asked for with ForceSameThread:
\* an Unlock() on another thread would be lost and the session stuck.
LockOwner ==
    /\ lock.count = (IF fRequest = NoRequest THEN 0 ELSE 1)
    /\ lock.count > 0 => alive /\ lock.holder = (IF runner = NoThread THEN fUseThisThread
                                                 ELSE runner)

\* A session whose client is gone ends, wherever it was waiting, without the help
\* of the timeout.
HangupEnds == conn = "reset" ~> ~alive

\* The comment in Run() on EAGAIN: "we are currently flow-controlled and should
\* wait for the Socket to become writeable again", and then send on.  Each cell of
\* a response goes out once.
ResponseOnce ==
    \A k, l \in 1 .. Len(delivered) : delivered[k] = delivered[l] => k = l
============================================================================
