---------------------------- MODULE ClientSocket ---------------------------
(***************************************************************************)
(* ClientSocket (CFSocket/ClientSocket.cpp) with the parts of Socket and   *)
(* TCPSocket it calls: a TCPClientSocket, which sends and reads over one   *)
(* connection, and an HTTPClientSocket, which reads the answer to a GET on *)
(* one connection and posts base64 on another.  Every call may stop        *)
(* halfway with EAGAIN or EINPROGRESS; the caller waits for the event that *)
(* GetEventMask() and GetSocket() name and calls again.                    *)
(*                                                                         *)
(* As ClientSocket.h demands, a new call is made when the last one is      *)
(* through.  After any other error the caller gives the object up.         *)
(***************************************************************************)
EXTENDS Base64, FiniteSets

CONSTANTS
    kSendBufferLen,
    ResponseHead,   \* length of the server's answer to the GET, \r\n\r\n included
    MaxMessages,    \* bound: messages sent
    MaxData,        \* bound: bytes the server sends behind its answer
    InPieces        \* whether the answer to the GET may arrive in several pieces

ASSUME ClientAssumption ==
    /\ {kSendBufferLen, ResponseHead, MaxMessages, MaxData} \subseteq Nat
    /\ InPieces \in BOOLEAN

VARIABLES
    kind,          \* "tcp" or "http"
    bound,         \* sockets with kBound
    connected,     \* sockets with kConnected, set as soon as connect() was called
    link,          \* what the kernel has of each connection
    fSendBuffer, fSentLength,
    fSocketP, fEventMask,
    fGetReceived,  \* bytes received of the answer to the GET
    outRcvLen,     \* what the last Read() wrote through its argument
    pending,       \* the call that is to be repeated
    handed,        \* messages the caller has handed over
    wire,          \* [socket -> bytes sent]
    reply,         \* bytes the server has sent
    inbox,         \* how many of them were read
    delivered      \* bytes given to the caller

csVars == <<kind, bound, connected, link, fSendBuffer, fSentLength, fSocketP, fEventMask,
            fGetReceived, outRcvLen, pending, handed, wire, reply, inbox, delivered>>

\* The socket messages are sent on, and the one that is read.
Out == IF kind = "tcp" THEN "socket" ELSE "post"
In == IF kind = "tcp" THEN "socket" ELSE "get"

Names == {"socket", "get", "post"}

\* The TCPClientSocket opens and binds its socket in the constructor.
ClientInit ==
    /\ kind \in {"tcp", "http"}
    /\ bound = IF kind = "tcp" THEN {"socket"} ELSE {}
    /\ connected = {}
    /\ link = [s \in Names |-> "closed"]
    /\ fSendBuffer = <<>> /\ fSentLength = 0
    /\ fSocketP = (IF kind = "tcp" THEN "socket" ELSE "none") /\ fEventMask = {}
    /\ fGetReceived = 0 /\ outRcvLen = 0
    /\ pending = "none" /\ handed = 0
    /\ wire = [s \in Names |-> <<>>]
    /\ reply = <<>> /\ inbox = 0 /\ delivered = <<>>

GetRequest == <<71, 69>>
PostRequest == <<80, 79>>
Message(k) == <<k, k>>

\* TCPClientSocket copies the vectors, HTTPClientSocket::encodeVec() encodes them.
encodeVec(k) == IF kind = "tcp" THEN Message(k) ELSE Base64encode(Message(k))

----------------------------------------------------------------------------
(* The kernel *)

SetLink(s, from, to) ==
    /\ link[s] = from
    /\ link' = [link EXCEPT ![s] = to]
    /\ UNCHANGED <<kind, bound, connected, fSendBuffer, fSentLength, fSocketP, fEventMask,
                   fGetReceived, outRcvLen, pending, handed, wire, reply, inbox, delivered>>

Established(s) == SetLink(s, "connecting", "up")
Breaks(s) == SetLink(s, "up", "broken") \/ SetLink(s, "connecting", "broken")

\* The server sends n bytes: the answer to the GET before anything else.
ServerSends(n) ==
    LET head == IF kind = "tcp" THEN 0 ELSE ResponseHead IN
    /\ link[In] = "up"
    /\ kind = "http" => wire["get"] = GetRequest
    /\ Len(reply) + n <= head + MaxData
    /\ InPieces \/ Len(reply) >= head \/ n >= head
    /\ reply' = reply \o [i \in 1..n |-> Len(reply) + i]
    /\ UNCHANGED <<kind, bound, connected, link, fSendBuffer, fSentLength, fSocketP, fEventMask,
                   fGetReceived, outRcvLen, pending, handed, wire, inbox, delivered>>

----------------------------------------------------------------------------
(* Calls *)

\* Open() and Connect() on a socket; "err" is what Connect() returns.
Connect(s, err) ==
    IF s \in connected
    THEN err = "OS_NoErr" /\ UNCHANGED <<bound, connected, link>>
    ELSE /\ bound' = bound \cup {s}
         /\ \/ err = "OpenError" /\ s \notin bound /\ UNCHANGED <<connected, link>>
            \/ /\ connected' = connected \cup {s}
               /\ \/ err = "OS_NoErr" /\ link' = [link EXCEPT ![s] = "up"]
                  \/ err = "EINPROGRESS" /\ link' = [link EXCEPT ![s] = "connecting"]
                  \/ err = "ECONNREFUSED" /\ UNCHANGED link

Errors == {"OS_NoErr", "EINPROGRESS", "ECONNREFUSED", "OpenError"}

\* Mutant: only an answer is waited for, not the end of connect().
NotConnectedDeaf(s, op, err) ==
    /\ err # "OS_NoErr"
    /\ pending' = IF err = "EINPROGRESS" THEN op ELSE "failed"
    /\ fSocketP' = IF err = "EINPROGRESS" THEN s ELSE fSocketP
    /\ fEventMask' = IF err = "EINPROGRESS" THEN {"EV_RE"} ELSE fEventMask

\* Connect() has not finished: the event to wait for, or the end.
NotConnected(s, op, err) ==
    /\ err # "OS_NoErr"
    /\ pending' = IF err = "EINPROGRESS" THEN op ELSE "failed"
    /\ fSocketP' = IF err = "EINPROGRESS" THEN s ELSE fSocketP
    /\ fEventMask' = IF err = "EINPROGRESS" THEN {"EV_RE", "EV_WR"} ELSE fEventMask

\* Mutant: the sent length starts anew with every call.
SendSendBufferAgain(s, buffer, n, op) ==
    /\ link[s] \in {"up", "connecting"} /\ n < Len(buffer)
    /\ wire' = [wire EXCEPT ![s] = @ \o SubSeq(buffer, 1, n)]
    /\ fSendBuffer' = buffer /\ fSentLength' = 0
    /\ pending' = op
    /\ fSocketP' = s /\ fEventMask' = {"EV_WR"}

\* SendSendBuffer(): n bytes in all before send() takes no more, which is
\* EAGAIN, an error of the connection, or the end of the buffer.
SendSendBuffer(s, buffer, n, op) ==
    LET rest == SubSeq(buffer, fSentLength + 1, Len(buffer)) IN
    /\ n <= Len(rest)
    /\ link'[s] # "up" => n = 0
    /\ wire' = [wire EXCEPT ![s] = @ \o SubSeq(rest, 1, n)]
    /\ IF n = Len(rest)
       THEN fSendBuffer' = <<>> /\ fSentLength' = 0 /\ pending' = "none"
            /\ UNCHANGED <<fSocketP, fEventMask>>
       ELSE /\ fSendBuffer' = buffer /\ fSentLength' = fSentLength + n
            /\ fSocketP' = s /\ fEventMask' = {"EV_WR"}
            /\ pending' = IF link'[s] \in {"up", "connecting"} THEN op ELSE "failed"

\* SendV(): a new message, or the rest of the last one.  On a connection that is
\* not up the HTTPClientSocket begins the buffer with its POST.
SendV(n, err) ==
    LET k == IF pending = "send" THEN handed ELSE handed + 1
        first == IF kind = "http" /\ "post" \notin connected THEN PostRequest \o encodeVec(k)
                 ELSE IF kind = "tcp" /\ fSendBuffer = <<>> THEN encodeVec(k) ELSE fSendBuffer
        buffer == IF first = <<>> THEN encodeVec(k) ELSE first
    IN
    /\ pending \in {"none", "send"} /\ k <= MaxMessages
    /\ Len(buffer) < kSendBufferLen
    /\ handed' = k
    /\ Connect(Out, err)
    /\ IF err = "OS_NoErr" THEN SendSendBuffer(Out, buffer, n, "send")
       ELSE /\ n = 0 /\ NotConnected(Out, "send", err)
            /\ fSendBuffer' = first /\ UNCHANGED <<fSentLength, wire>>
    /\ UNCHANGED <<kind, fGetReceived, outRcvLen, reply, inbox, delivered>>

\* HTTPClientSocket::Read() until its GET is sent; fSentLength = 1 says that the
\* answer is to be received.
ReadGet(n, err) ==
    LET buffer == IF "get" \in connected THEN fSendBuffer ELSE GetRequest IN
    /\ kind = "http" /\ pending \in {"none", "read"}
    /\ "get" \notin connected \/ fSendBuffer # <<>>
    /\ Connect("get", err)
    /\ IF err # "OS_NoErr"
       THEN /\ n = 0 /\ NotConnected("get", "read", err)
            /\ fSendBuffer' = buffer /\ UNCHANGED <<fSentLength, wire, outRcvLen>>
       ELSE LET rest == Len(buffer) - fSentLength IN
            /\ n <= rest /\ (link'["get"] # "up" => n = 0)
            /\ wire' = [wire EXCEPT !["get"] = @ \o SubSeq(buffer, fSentLength + 1, fSentLength + n)]
            /\ IF n = rest
               THEN /\ fSendBuffer' = <<>> /\ fSentLength' = 1
                    /\ outRcvLen' = 0 /\ pending' = "receiving"
                    /\ UNCHANGED <<fSocketP, fEventMask>>
               ELSE /\ fSendBuffer' = buffer /\ fSentLength' = fSentLength + n
                    /\ fSocketP' = "get" /\ fEventMask' = {"EV_WR"}
                    /\ pending' = IF link'["get"] \in {"up", "connecting"} THEN "read" ELSE "failed"
                    /\ UNCHANGED outRcvLen
    /\ UNCHANGED <<kind, fGetReceived, handed, reply, inbox, delivered>>

\* Read() is called again for the answer.
ReadAgain ==
    /\ kind = "http" /\ pending = "read" /\ "get" \in connected
    /\ fSendBuffer = <<>> /\ fSentLength > 0
    /\ outRcvLen' = 0 /\ pending' = "receiving"
    /\ UNCHANGED <<kind, bound, connected, link, fSendBuffer, fSentLength, fSocketP, fEventMask,
                   fGetReceived, handed, wire, reply, inbox, delivered>>

Available == Len(reply) - inbox

\* A turn of the receiving loop that gets what there is.  strstr() finds the end
\* of the answer if the buffer holds all of it without a gap.
ReceiveSome ==
    LET n == IF Available <= kSendBufferLen - fGetReceived THEN Available
             ELSE kSendBufferLen - fGetReceived
        total == fGetReceived + n
        found == fGetReceived = inbox /\ inbox + n >= ResponseHead
    IN
    /\ pending = "receiving" /\ link["get"] = "up"
    /\ n > 0
    /\ inbox' = inbox + n
    /\ IF found
       THEN /\ delivered' = delivered \o SubSeq(reply, ResponseHead + 1, inbox + n)
            /\ outRcvLen' = total - ResponseHead
            /\ fGetReceived' = 0 /\ fSentLength' = 0 /\ pending' = "none"
       ELSE /\ outRcvLen' = n /\ fGetReceived' = total
            /\ UNCHANGED <<delivered, fSentLength, pending>>
    /\ UNCHANGED <<kind, bound, connected, link, fSendBuffer, fSocketP, fEventMask, handed, wire, reply>>

\* A turn that gets none: Socket::Read() leaves outRcvLen as it was, the loop
\* adds it up again and goes on unless it is zero.
ReceiveNone ==
    /\ pending = "receiving"
    /\ Available = 0 \/ link["get"] # "up"
    /\ fGetReceived + outRcvLen <= kSendBufferLen
    /\ fGetReceived' = fGetReceived + outRcvLen
    /\ IF outRcvLen > 0 THEN UNCHANGED <<pending, fSocketP, fEventMask>>
       ELSE /\ pending' = IF link["get"] = "up" THEN "read" ELSE "failed"
            /\ fSocketP' = "get" /\ fEventMask' = {"EV_RE"}
    /\ UNCHANGED <<kind, bound, connected, link, fSendBuffer, fSentLength, outRcvLen, handed, wire,
                   reply, inbox, delivered>>

\* Read() of a TCPClientSocket, and of an HTTPClientSocket that has the answer.
\* The result of Connect() is not looked at.
ClientRead(n, err) ==
    /\ pending \in {"none", "read"}
    /\ kind = "http" => "get" \in connected /\ fSendBuffer = <<>> /\ fSentLength = 0
    /\ Connect(In, err)
    /\ n <= Available /\ (n = 0 => Available = 0 \/ link'[In] # "up") /\ (link'[In] # "up" => n = 0)
    /\ inbox' = inbox + n
    /\ delivered' = delivered \o SubSeq(reply, inbox + 1, inbox + n)
    /\ outRcvLen' = IF n = 0 THEN outRcvLen ELSE n
    /\ IF n > 0 THEN pending' = "none" /\ UNCHANGED fEventMask
       ELSE /\ fEventMask' = {"EV_RE"}
            /\ pending' = IF link'[In] \in {"up", "connecting"} THEN "read" ELSE "failed"
    /\ fSocketP' = IF kind = "http" /\ n = 0 THEN "get"
                   ELSE IF err = "EINPROGRESS" THEN In ELSE fSocketP
    /\ UNCHANGED <<kind, fSendBuffer, fSentLength, fGetReceived, handed, wire, reply>>

Sizes == 0..kSendBufferLen

ClientNext ==
    \/ \E s \in Names : Established(s) \/ Breaks(s)
    \/ \E n \in 1..(ResponseHead + MaxData) : ServerSends(n)
    \/ \E n \in Sizes, err \in Errors : SendV(n, err) \/ ReadGet(n, err) \/ ClientRead(n, err)
    \/ ReadAgain \/ ReceiveSome \/ ReceiveNone

ClientSpec == ClientInit /\ [][ClientNext]_csVars

----------------------------------------------------------------------------
(* Properties *)

\* What was sent and what is left of the send buffer is what the caller handed
\* over, in order, each message once, however often a call stopped halfway; and
\* the caller has been given the bytes behind the server's answer, in order.
StreamsWhole ==
    LET messages == FlattenSeq([k \in 1..handed |-> encodeVec(k)])
        posted == IF kind = "http" /\ handed > 0 THEN PostRequest \o messages ELSE messages
        head == IF kind = "tcp" THEN 0 ELSE ResponseHead
    IN /\ pending = "none" => wire[Out] = posted
       /\ pending = "send" => wire[Out] \o SubSeq(fSendBuffer, fSentLength + 1, Len(fSendBuffer)) = posted
       /\ pending \in {"none", "send"} /\ inbox > 0 => delivered = SubSeq(reply, head + 1, inbox)

\* ClientSocket.h: "caller should use GetEventMask and GetSocket to wait for a
\* Socket event".  A pending call waits for an event of the socket and the direction
\* that stopped it: a send, and a read whose GET has not left the send buffer, until
\* more can be sent, any other read until there is data.  The comment in
\* SendSendBuffer() speaks of "a read event on the POST Socket", where the code, and
\* this property, wait for EV_WR.
WaitsForTheRightEvent ==
    /\ pending = "send" => fSocketP = Out /\ "EV_WR" \in fEventMask
    /\ pending = "read" /\ kind = "http" /\ fSendBuffer # <<>> => fSocketP = In /\ "EV_WR" \in fEventMask
    /\ pending = "read" /\ (kind = "tcp" \/ fSendBuffer = <<>>) => fSocketP = In /\ "EV_RE" \in fEventMask

\* The comment in SendSendBuffer(): a length "should be reset to zero before
\* passing its pointer".  The count of bytes received is what was received.
ReceivedExact == pending = "receiving" => fGetReceived = inbox
============================================================================
