--------------------------- MODULE ResponseStream --------------------------
(***************************************************************************)
(* HTTPResponseStream (CFHttp/HTTPResponseStream.cpp): the output buffer   *)
(* of a session, a ResizeableStringFormatter, in front of a socket whose   *)
(* send() takes any part of what it is given, or nothing (EAGAIN), or      *)
(* fails.  One caller writes the bytes 1, 2, 3, ... in order, by Put() or  *)
(* by WriteV() with two vectors, and goes on where the length that WriteV  *)
(* reports says it got to.                                                 *)
(*                                                                         *)
(* HTTPClientResponseStream is the same stream in front of a ClientSocket, *)
(* whose Send() keeps what the kernel did not take and sends that, and     *)
(* nothing else, when it is called the next time.                          *)
(***************************************************************************)
EXTENDS StringFormatter

CONSTANTS
    kOutputBufferSizeInBytes,
    Length,      \* bound: bytes the caller has to write
    VecSizes,    \* sizes of a vector
    CF_MAX_RESPONSE_BUFFER_SIZE

ASSUME StreamAssumption ==
    kOutputBufferSizeInBytes \in Nat \ {0} /\ Length \in Nat /\ VecSizes \subseteq Nat
    /\ CF_MAX_RESPONSE_BUFFER_SIZE \in Nat \ {0}

VARIABLES
    fOut,                \* the formatter
    fBytesSentInBuffer,
    refreshed,           \* whether the last call refreshed the timeout
    next,                \* the caller's next byte
    sent,                \* what the kernel has taken
    isConnected,         \* kConnected of the socket
    ofClient,            \* whether it is a HTTPClientResponseStream
    fSendTail,           \* what its ClientSocket still has to send
    mixed                \* history: a byte was written while there was such a tail

clientVars == <<ofClient, fSendTail, mixed>>
rsVars == <<fOut, fBytesSentInBuffer, refreshed, next, sent, isConnected, clientVars>>

StreamInit ==
    /\ fOut = Formatter(kOutputBufferSizeInBytes, TRUE)
    /\ fBytesSentInBuffer = 0
    /\ refreshed = FALSE /\ next = 1 /\ sent = <<>> /\ isConnected = TRUE
    /\ ofClient \in BOOLEAN /\ fSendTail = <<>> /\ mixed = FALSE

SendTypes == {"kDontBuffer", "kAllOrNothing", "kAlwaysBuffer"}

Data(from, n) == [i \in 1..n |-> from + i - 1]

Unsent == SubSeq(fOut.text, fBytesSentInBuffer + 1, GetCurrentOffset(fOut))

\* The caller writes something.
Written == mixed' = (mixed \/ fSendTail # <<>>) /\ UNCHANGED <<ofClient, fSendTail>>

\* The caller writes into the buffer.
PutBytes(n) ==
    /\ n > 0 /\ next + n <= Length + 1
    /\ fOut' = Put(fOut, Data(next, n))
    /\ next' = next + n
    /\ refreshed' = FALSE
    /\ Written
    /\ UNCHANGED <<fBytesSentInBuffer, sent, isConnected>>

\* Socket::WriteV() or Send() of bytes: the first n are sent, err is returned.  Any
\* error but EAGAIN ends kConnected.
SocketWriteV(bytes, n, err) ==
    /\ n <= Len(bytes)
    /\ err = "CF_NoErr" \/ n = 0
    /\ bytes # <<>> /\ n = 0 => err # "CF_NoErr"
    /\ isConnected <=> err # "ENOTCONN"
    /\ isConnected' = (isConnected /\ err # "EPIPE")
    /\ sent' = sent \o SubSeq(bytes, 1, n)

SendErrors == {"CF_NoErr", "EAGAIN", "EPIPE", "ENOTCONN"}

\* How much of the caller's vectors was sent.
SentOfVectors(n, inBuffer) == IF n >= inBuffer THEN n - inBuffer ELSE 0

\* What is left of the vectors, each put into the buffer on its own.
PutRest(f, vecs, done) ==
    LET End(i) == Len(FlattenSeq(SubSeq(vecs, 1, i)))
        curVec == CHOOSE i \in 1..Len(vecs) : End(i) > done /\ End(i - 1) <= done
        Rest(i) == IF i = curVec THEN SubSeq(vecs[i], done - End(i - 1) + 1, Len(vecs[i])) ELSE vecs[i]
    IN FoldLeft(LAMBDA g, i : Put(g, Rest(i)), f, [k \in 1..(Len(vecs) - curVec + 1) |-> curVec + k - 1])

\* WriteV() with the lengths of the vectors; n bytes reach the socket.  The
\* caller has got to where outLengthSent says, which an error leaves alone.
WriteV(lengths, inSendType, n, err) ==
    LET inTotalLength == FoldSeq(+, 0, lengths)
        vecs == [i \in 1..Len(lengths) |->
                    Data(next + FoldSeq(+, 0, SubSeq(lengths, 1, i - 1)), lengths[i])]
        amtInBuffer == Len(Unsent)
        flushed == amtInBuffer > 0 /\ n >= amtInBuffer
        theLengthSent == SentOfVectors(n, amtInBuffer)
        theFormatter == IF flushed THEN Reset(fOut, 0) ELSE fOut
        counted == [theFormatter EXCEPT !.written = @ + theLengthSent]
        buffers == /\ theLengthSent # inTotalLength
                   /\ \/ inSendType = "kAlwaysBuffer"
                      \/ inSendType = "kAllOrNothing" /\ theLengthSent > 0
    IN
    /\ next + inTotalLength <= Length + 1
    /\ SocketWriteV(Unsent \o Data(next, inTotalLength), n, err)
    /\ fBytesSentInBuffer' = IF flushed THEN 0
                             ELSE IF amtInBuffer > 0 THEN fBytesSentInBuffer + n ELSE fBytesSentInBuffer
    /\ refreshed' = (err = "CF_NoErr")
    /\ Written
    /\ IF err \notin {"CF_NoErr", "EAGAIN"}
       THEN fOut' = theFormatter /\ UNCHANGED next
       ELSE IF buffers
       THEN fOut' = PutRest(counted, vecs, theLengthSent) /\ next' = next + inTotalLength
       ELSE fOut' = counted /\ next' = next + theLengthSent

\* HTTPSessionInterface::Write() and WriteV(): one vector, buffered if the flag
\* asks for it, or the caller's vectors, never buffered.
SessionWrite(length, flag, n, err) ==
    WriteV(<<length>>, IF flag = "cfWriteFlagsBufferData" THEN "kAlwaysBuffer" ELSE "kDontBuffer", n, err)
SessionWriteV(lengths, n, err) == WriteV(lengths, "kDontBuffer", n, err)

\* Mutant: what was sent is not counted if some is left.
FlushForgets(n, err) ==
    /\ Unsent # <<>>
    /\ SocketWriteV(Unsent, n, err)
    /\ refreshed' = (n > 0)
    /\ fOut' = (IF n = Len(Unsent) THEN Reset(fOut, 0) ELSE fOut)
    /\ fBytesSentInBuffer' = IF n = Len(Unsent) THEN 0 ELSE fBytesSentInBuffer
    /\ UNCHANGED <<next, clientVars>>

\* Flush(): whatever Send() returns, all is well or the caller is to try again.
Flush(n, err) ==
    /\ Unsent # <<>>
    /\ SocketWriteV(Unsent, n, err)
    /\ refreshed' = (n > 0)
    /\ IF n = Len(Unsent)
       THEN fOut' = Reset(fOut, 0) /\ fBytesSentInBuffer' = 0
       ELSE fBytesSentInBuffer' = fBytesSentInBuffer + n /\ UNCHANGED fOut
    /\ UNCHANGED <<next, clientVars>>

\* ClientSocket::Send() of bytes, of which the first time all are kept: n of those
\* that are still to be sent reach the kernel.
ClientSend(bytes, n, err) ==
    LET message == IF fSendTail = <<>> THEN bytes ELSE fSendTail
    IN /\ n <= Len(message) /\ (err = "CF_NoErr" <=> n = Len(message))
       /\ isConnected \/ n = 0
       /\ isConnected <=> err # "ENOTCONN"
       /\ isConnected' = (isConnected /\ err # "EPIPE")
       /\ sent' = sent \o SubSeq(message, 1, n)
       /\ fSendTail' = SubSeq(message, n + 1, Len(message))

\* What the next turn of HTTPClientResponseStream::Flush() hands to the socket.
Portion == SubSeq(Unsent, 1, IF Len(Unsent) < CF_MAX_RESPONSE_BUFFER_SIZE THEN Len(Unsent) ELSE CF_MAX_RESPONSE_BUFFER_SIZE)

\* One turn of its loop, which goes on until all is sent or an error comes.  It
\* counts the portion of now when the one of an earlier call was sent.
ClientFlush(n, err) ==
    /\ Unsent # <<>>
    /\ ClientSend(Portion, n, err)
    /\ IF err # "CF_NoErr" THEN UNCHANGED <<fOut, fBytesSentInBuffer>>
       ELSE IF Portion = Unsent THEN fOut' = Reset(fOut, 0) /\ fBytesSentInBuffer' = 0
       ELSE fBytesSentInBuffer' = fBytesSentInBuffer + Len(Portion) /\ UNCHANGED fOut
    /\ refreshed' = FALSE
    /\ UNCHANGED <<next, ofClient, mixed>>

\* HTTPClientResponseStream::WriteV() writes past the ClientSocket to its TCPSocket.
ClientWriteV(lengths, inSendType, n, err) == WriteV(lengths, inSendType, n, err)

ServerStep(n, err) ==
    \/ Flush(n, err)
    \/ \E k \in VecSizes, flag \in {"none", "cfWriteFlagsBufferData"} : SessionWrite(k, flag, n, err)
    \/ \E k, l \in VecSizes : SessionWriteV(<<k, l>>, n, err)
    \/ \E k, l \in VecSizes, type \in SendTypes : WriteV(<<k, l>>, type, n, err)

ClientStep(n, err) ==
    \/ ClientFlush(n, err)
    \/ \E k, l \in VecSizes, type \in SendTypes : ClientWriteV(<<k, l>>, type, n, err)

StreamNext ==
    \/ \E k \in VecSizes : PutBytes(k)
    \/ \E n \in 0..Length, err \in SendErrors : IF ofClient THEN ClientStep(n, err) ELSE ServerStep(n, err)

StreamSpec == StreamInit /\ [][StreamNext]_rsVars

----------------------------------------------------------------------------
(* Properties *)

\* The bytes on the connection and then the unsent rest of the buffer are what
\* the caller believes it has written, in order, none lost or doubled, whatever
\* send() took and however the buffer grew; fBytesWritten counts them.  On a client's
\* stream this is so if nothing is written between a Flush() that failed and the one
\* that ends it; what the socket then has to send is the end of the portion.
StreamInOrder ==
    ~mixed => /\ sent \o fSendTail \o (IF fSendTail = <<>> THEN Unsent ELSE SubSeq(Unsent, Len(Portion) + 1, Len(Unsent)))
                     = Data(1, next - 1)
              /\ fOut.written = next - 1
============================================================================
