----------------------------- MODULE HTTPPacket ----------------------------
(***************************************************************************)
(* HTTPPacket and HTTPProtocol (CFHttp): the head of a message is parsed   *)
(* into a packet, and a packet builds the head of a message.  A header or  *)
(* method name is one symbol.                                              *)
(***************************************************************************)
EXTENDS QueryParamList, StringFormatter

CONSTANTS
    Headers,                 \* names of the headers the packet keeps
    kMinHeaderSizeInBytes    \* size of the buffer a head is built in (512)

ASSUME PacketAssumption == Headers \subseteq Letters /\ kMinHeaderSizeInBytes \in Nat

----------------------------------------------------------------------------
(***************************************************************************)
(* The tables of HTTPProtocol (CFHttp) that an HTTPStatusCode indexes, and *)
(* the search in them.  A word is one symbol, an index starts at one.      *)
(***************************************************************************)

sStatusCodes ==
    <<100, 101, 200, 201, 202, 203, 204, 205, 206, 300, 301, 302, 303, 304, 305, 307,
      400, 401, 402, 403, 404, 405, 406, 407, 408, 409, 410, 411, 412, 413, 414, 415,
      416, 417, 500, 501, 502, 503, 504, 505>>

sStatusCodeAsStrings ==
    <<<<"1", "0", "0">>, <<"1", "0", "1">>, <<"2", "0", "0">>, <<"2", "0", "1">>, <<"2", "0", "2">>,
      <<"2", "0", "3">>, <<"2", "0", "4">>, <<"2", "0", "5">>, <<"2", "0", "6">>, <<"3", "0", "0">>,
      <<"3", "0", "1">>, <<"3", "0", "2">>, <<"3", "0", "3">>, <<"3", "0", "4">>, <<"3", "0", "5">>,
      <<"3", "0", "7">>, <<"4", "0", "0">>, <<"4", "0", "1">>, <<"4", "0", "2">>, <<"4", "0", "3">>,
      <<"4", "0", "4">>, <<"4", "0", "5">>, <<"4", "0", "6">>, <<"4", "0", "7">>, <<"4", "0", "8">>,
      <<"4", "0", "9">>, <<"4", "1", "0">>, <<"4", "1", "1">>, <<"4", "1", "2">>, <<"4", "1", "3">>,
      <<"4", "1", "4">>, <<"4", "1", "5">>, <<"4", "1", "6">>, <<"4", "1", "7">>, <<"5", "0", "0">>,
      <<"5", "0", "1">>, <<"5", "0", "2">>, <<"5", "0", "3">>, <<"5", "0", "4">>, <<"5", "0", "5">>>>

\* The words of each reason.
ReasonWords ==
    <<<<"Continue">>, <<"Switching", "Protocols">>, <<"OK">>, <<"Created">>, <<"Accepted">>,
      <<"Non", "Authoritative", "Information">>, <<"No", "Content">>, <<"Reset", "Content">>,
      <<"Partial", "Content">>, <<"Multiple", "Choices">>, <<"Moved", "Permanently">>, <<"Found">>,
      <<"See", "Other">>, <<"Not", "Modified">>, <<"Use", "Proxy">>, <<"Temporary", "Redirect">>,
      <<"Bad", "Request">>, <<"Unauthorized">>, <<"Payment", "Required">>, <<"Forbidden">>,
      <<"Not", "Found">>, <<"Method", "Not", "Allowed">>, <<"Not", "Acceptable">>,
      <<"Proxy", "Authentication", "Required">>, <<"Request", "Time-out">>, <<"Conflict">>, <<"Gone">>,
      <<"Length", "Required">>, <<"Precondition", "Failed">>, <<"Request", "Entity", "Too", "Large">>,
      <<"Request-URI", "Too", "Large">>, <<"Unsupported", "Media", "Type">>,
      <<"Request", "Range", "Not", "Satisfiable">>, <<"Expectation", "Failed">>,
      <<"Internal", "Server", "Error">>, <<"Not", "Implemented">>, <<"Bad", "Gateway">>,
      <<"Service", "Unavailable">>, <<"Gateway", "Timeout">>, <<"HTTP", "Version", "not", "supported">>>>

sStatusCodeStrings ==
    [x \in DOMAIN ReasonWords |->
        FlattenSeq([i \in DOMAIN ReasonWords[x] |-> IF i = 1 THEN <<ReasonWords[x][i]>> ELSE <<" ", ReasonWords[x][i]>>])]

httpNumStatusCodes == 40
httpInternalServerError == 35

\* The first index with this code; an unknown code is an error of the server.
GetStatusCodeEnum(inCode) ==
    LET x == SelectInSeq(SubSeq(sStatusCodes, 1, httpNumStatusCodes), LAMBDA c : c = inCode)
    IN IF x = 0 THEN httpInternalServerError ELSE x

sStreamTypes == <<<<"R", "T", "S", "P">>, <<"R", "T", "M", "P">>, <<"H", "L", "S">>>>

\* The index of a type, or zero.
GetStreamType(s) ==
    IF Len(s) \in 3..4 THEN SelectInSeq(sStreamTypes, LAMBDA t : EqualIgnoreCase(s, t)) ELSE 0

----------------------------------------------------------------------------
(* HTTPPacket *)

sURLStopConditions == {"\t", "\n", "\r", " ", "?"}

Methods == {"GET", "HEAD", "POST", "OPTIONS", "PUT", "DELETE", "TRACE", "CONNECT"}

\* The guess from the first letter is confirmed, and PUT is tried last.
GetMethod(s) == IF Len(s) = 1 /\ s[1] \in Methods THEN s[1] ELSE "httpIllegalMethod"

\* A VIP header is guessed from its first letter, the others are compared in turn.
GetHeader(s) ==
    IF \E h \in Headers : EqualIgnoreCase(s, <<h>>)
    THEN CHOOSE h \in Headers : EqualIgnoreCase(s, <<h>>) ELSE "httpIllegalHeader"

sVersionStrings == {<<"HTTP", "/", v, ".", w>> : v \in {"0", "1"}, w \in {"0", "1", "9"}}
                   \ {<<"HTTP", "/", "0", ".", "0">>, <<"HTTP", "/", "0", ".", "1">>,
                      <<"HTTP", "/", "1", ".", "9">>}

GetVersion(s) ==
    IF \E v \in sVersionStrings : EqualIgnoreCase(s, v)
    THEN CHOOSE v \in sVersionStrings : EqualIgnoreCase(s, v) ELSE <<"httpIllegalVersion">>

\* A packet before Parse().
Packet ==
    [type |-> "httpIllegalType", method |-> "httpIllegalMethod", version |-> <<"httpIllegalVersion">>,
     scheme |-> Null, host |-> Null, relative |-> Null, path |-> Null, query |-> <<>>,
     keepAlive |-> FALSE, fields |-> [h \in Headers |-> Null], error |-> "CF_NoErr"]

\* What a parsing function works on: the parser and the packet.
Failed(k) == [k EXCEPT !.packet.error = "CF_BadArgument"]

\* Every function ends with ExpectEOL(), which must find one.
EndLine(k) ==
    IF ExpectsEOL(k.parser) THEN [k EXCEPT !.parser = ExpectEOL(@)] ELSE Failed(k)

\* A full URI is taken apart into scheme, host and the rest.
splitURL(packet, url) ==
    LET colon == ConsumeUntil(url, {":"})
        name == ConsumeLength(colon, 3)
        slash == ConsumeUntil(name, {"/"})
    IN IF PeekFast(url) = "/" THEN [packet EXCEPT !.relative = url.stream]
       ELSE [packet EXCEPT !.scheme = Taken(url, colon), !.host = Taken(name, slash),
                           !.relative = SubSeq(url.stream, slash.start + 1, Len(url.stream))]

\* The query, if the URI ended with a question mark.
splitQuery(k) ==
    LET start == ConsumeLength(k.parser, 1)
        last == ConsumeUntilWhitespace(start)
    IN IF AtEnd(k.parser) \/ PeekFast(k.parser) # "?" THEN k
       ELSE [k EXCEPT !.parser = last, !.packet.query = Taken(start, last)]

\* The path is what the URI decodes to.
decodePath(k) ==
    LET decoded == DecodeURL(k.packet.relative, Len(k.packet.relative) + 1)
    IN IF decoded.error # "none" THEN Failed(k) ELSE [k EXCEPT !.packet.path = Tail(decoded.text)]

parseURI(k) ==
    LET uri == ConsumeUntil(k.parser, sURLStopConditions)
        url == Parser(Taken(k.parser, uri), PeekFast(uri))
    IN decodePath(splitQuery([k EXCEPT !.parser = uri, !.packet = splitURL(@, url)]))

\* The functions of Parse() go on while there is no error.
ParsesOn(k) == k.packet.error = "CF_NoErr"

\* After the URI: the version, up to the end of the line.
parseVersion(k) ==
    LET v == ConsumeWhitespace(k.parser)
        last == ConsumeUntil(v, sEOLMask)
    IN IF ~ParsesOn(k) THEN k
       ELSE EndLine([k EXCEPT !.parser = last,
                       !.packet.version = IF Taken(v, last) = <<>> THEN @ ELSE GetVersion(Taken(v, last))])

\* After the method: the URI and the version.
parseRequest(k) ==
    parseVersion(parseURI([k EXCEPT !.parser = ConsumeWhitespace(@), !.packet.type = "httpRequestType"]))

\* A method begins a request, "HTTP" and a status code a response; a response
\* has one word after the code.  Any other word is skipped if it ends its line.
parseRequestLine(k) ==
    LET w == ConsumeWord(k.parser)
        word == Taken(k.parser, w)
        method == GetMethod(word)
        code == ConsumeUntilDigit(ConsumeUntilWhitespace(w))
        after == ConsumeInteger(code)
        reason == ConsumeUntilWhitespace(ConsumeWhitespace(after))
        read == [k EXCEPT !.packet.method = method]
        request == method # "httpIllegalMethod"
    IN IF request \/ (word = <<"HTTP">> /\ IntegerConsumed(code) = 0)
       THEN parseRequest([read EXCEPT !.parser = IF request THEN w ELSE after])
       ELSE EndLine(IF word # <<"HTTP">> THEN [read EXCEPT !.parser = w]
                    ELSE [read EXCEPT !.parser = reason, !.packet.type = "httpResponseType"])

\* Everything but "close" keeps the connection.
setKeepAlive(packet, value) ==
    [packet EXCEPT !.keepAlive = ~EqualIgnoreCase(value, <<"close">>)]

\* A header line; of a header that comes again the last value is kept.
parseHeader(k) ==
    LET colon == GetThru(k.parser, ":")
        header == GetHeader(Taken(k.parser, ConsumeUntil(k.parser, {":"})))
        start == Expect(colon, " ")
        last == ConsumeUntil(start, sEOLMask)
        value == Taken(start, last)
        packet == IF header = "Connection" THEN setKeepAlive(k.packet, value) ELSE k.packet
    IN IF ~FoundThru(k.parser, ":") THEN Failed([k EXCEPT !.parser = colon])
       ELSE IF ~ExpectsEOL(last) THEN Failed([k EXCEPT !.parser = last])
       ELSE [parser |-> ExpectEOL(last),
             packet |-> IF header \in Headers THEN [packet EXCEPT !.fields[header] = value] ELSE packet]

\* The loop of parseHeaders(): headers up to an empty line.
NextHeader(k) ==
    IF ParsesOn(k) /\ PeekFast(k.parser) \notin sEOLMask THEN parseHeader(k) ELSE k

parseHeaders(k) ==
    LET After[i \in 0..(GetDataRemaining(k.parser) + 1)] == IF i = 0 THEN k ELSE NextHeader(After[i - 1])
        Ended(end) == IF ParsesOn(end) THEN [end EXCEPT !.parser = ExpectEOL(@)] ELSE end
    IN IF ParsesOn(k) THEN Ended(After[GetDataRemaining(k.parser) + 1]) ELSE k

\* The loop of Parse() around parseRequestLine().
NextLine(k) ==
    IF ParsesOn(k) /\ k.packet.type = "httpIllegalType" THEN parseRequestLine(k) ELSE k

ParsePacket(head, behind) ==
    LET After[i \in 0..(Len(head) + 1)] ==
          IF i = 0 THEN [parser |-> Parser(head, behind), packet |-> Packet] ELSE NextLine(After[i - 1])
    IN parseHeaders(After[Len(head) + 1]).packet

----------------------------------------------------------------------------
(* Building a head *)

EOL == <<"\r", "\n">>

\* The strings that make up a line, one Put() each.
AppendResponseHeader(header, value) == <<<<header>>, <<":", " ">>, value, EOL>>

putStatusLine(status, version) ==
    <<version, <<" ">>, sStatusCodeAsStrings[status], <<" ">>, sStatusCodeStrings[status], EOL>>

putMethedLine(method, version) == <<<<method>>, <<" ">>, <<"/">>, <<" ">>, version, EOL>>

PutInTurn(strings) == FoldLeft(Put, Formatter(kMinHeaderSizeInBytes, TRUE), strings)

\* The server header, the date and the origin header follow the status line.
CreateResponseHeader(status, version, server, date) ==
    PutInTurn(putStatusLine(status, version)
              \o AppendResponseHeader("Server", server) \o AppendResponseHeader("Date", date)
              \o AppendResponseHeader("Access-Control-Allow-Origin", <<"*">>))

CreateRequestHeader(method, version, server) ==
    PutInTurn(putMethedLine(method, version) \o AppendResponseHeader("User-Agent", server))

\* GetCompleteHTTPHeader(): fHTTPHeader->Ptr is the first buffer even when the
\* formatter has left it for a larger one.  What lies behind it is unknown.
GetCompleteHTTPHeader(f) ==
    LET g == Put(f, EOL)
    IN IF g.moved THEN SubSeq(g.original \o [i \in 1..Len(g.text) |-> "other"], 1, Len(g.text))
       ELSE g.text
============================================================================
