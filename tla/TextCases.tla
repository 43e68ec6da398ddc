---------------------------- MODULE TextCases ------------------------------
(***************************************************************************)
(* What is written must be read back: the operators that write and read    *)
(* text, composed over an input.  The variable "input" is a record whose   *)
(* "op" says which ones it is for; the inputs are put together from parts, *)
(* so that the parts say what has to come out.                             *)
(***************************************************************************)
EXTENDS HTTPPacket, HTTPDispatcher, ConfParser, DateTranslator, UserAgentParser, Base64, MD5, Utils, Queue

VARIABLE input

----------------------------------------------------------------------------
(* What one half encodes the other decodes *)

Base64Inverts(c) ==
    LET coded == Base64encode(c.bytes)
    IN Base64decode(coded) = c.bytes /\ nbytesdecoded(coded) = Len(c.bytes)

\* A path of segments.  "." and ".." are taken out, without the segment before.
PathOf(segments) == FlattenSeq([i \in 1..Len(segments) |-> <<"/">> \o segments[i]])

DotSegments == {<<".">>, <<".", ".">>}

Cleaned(segments) ==
    LET shown == SelectSeq(segments, LAMBDA s : s \notin DotSegments)
    IN PathOf(IF Last(segments) \in DotSegments THEN Append(shown, <<>>) ELSE shown)

\* The decoded path, or an error, if the room for either is too small.
URLInverts(c) ==
    LET path == PathOf(c.segments)
        encoded == EncodeURL(path, c.room)
        decoded == DecodeURL(encoded.text, c.room)
    IN /\ Len(encoded.text) <= c.room
       /\ encoded.error = "none" => decoded = [text |-> Cleaned(c.segments), error |-> "none"]
       /\ encoded.error # "none" => \E s \in Suffixes(path) :
              s # <<>> /\ Len(encoded.text) + Len(EncodedChar(s[1])) > c.room

\* A date comes back from its text, whatever the case of the month.
DateInverts(c) ==
    LET text == UpdateDateBuffer(c.tm, c.weekday)
        read == [c.tm EXCEPT !.hour = @ + GMTOffset]
    IN /\ ParseDate(text) = read
       /\ ParseDate([i \in 1..Len(text) |-> sCaseInsensitiveMask(text[i])]) = read
       /\ ParseDate(Tail(text)) = NoDate

\* The buffer of a date is never older than the interval it is kept for.
DateIsRecent(c) == c.now - InexactUpdate(c.last, c.now) \in 0..kUpdateInterval

\* The pairs of a query, each value as it is, encoded, or in quotes.
Quoted(s) == <<"\"">> \o s \o <<"\"">>

Argument(s) == FlattenSeq([i \in 1..Len(s) |-> IF s[i] = " " THEN <<"+">> ELSE EncodedChar(s[i])])

QueryOf(pairs) ==
    LET Text(p) == Argument(p.name) \o <<"=">> \o
                   (IF p.quoted THEN Quoted(p.value) ELSE Argument(p.value))
    IN FlattenSeq([i \in 1..Len(pairs) |-> IF i = 1 THEN Text(pairs[i]) ELSE <<"&">> \o Text(pairs[i])])

\* A name has the value that came first with it.
FirstFound(c, name) ==
    LET i == SelectInSeq(c.pairs, LAMBDA p : EqualIgnoreCase(p.name, name))
    IN DoFindCGIValueForParam(BulidList(QueryOf(c.pairs)), name) = IF i = 0 THEN Null ELSE c.pairs[i].value

QueryNames(c) == {c.pairs[i].name : i \in DOMAIN c.pairs} \cup {<<"none">>}

\* In a query that gives no name twice every name has its value.
QueryInverts(c) ==
    (\A i, j \in DOMAIN c.pairs : EqualIgnoreCase(c.pairs[i].name, c.pairs[j].name) => i = j)
        => \A name \in QueryNames(c) : FirstFound(c, name)

\* A formatter keeps what is put, whole if it can grow and from its start if it
\* cannot, inside of its buffer; the text first seen stays in the old buffer.
Formatted(c) ==
    LET fresh == Formatter(c.size, c.grows)
        put == FoldLeft(Put, fresh, c.strings)
        all == FlattenSeq(c.strings)
        again == Put(Reset(put, 1), <<"x">>)
    IN /\ Len(put.text) <= put.size
       /\ put.written = Len(put.text)
       /\ IF c.grows THEN put.text = all ELSE IsPrefix(put.text, all) \/ Len(put.text) >= c.size - 1
       /\ put.moved => IsPrefix(put.original, all) /\ put.size > c.size
       /\ Len(put.text) > 1 => again.text = <<put.text[1], "x">> /\ again.written = put.written + 1
       /\ c.size > 1 =>
            /\ PutFmtStr(fresh, all).text = SubSeq(all, 1, IF c.grows \/ Len(all) < c.size THEN Len(all) ELSE c.size - 1)
            /\ c.grows => PutFilePath(fresh, all, <<"x">>).text
                            = IF all = <<>> \/ Last(all) = "/" THEN all \o <<"x">> ELSE all \o <<"/", "x">>

\* A digest, from its definition: the message, a one bit, zeros, and the number of
\* its bits in two words, in whole blocks.
DigestOf(message) ==
    LET bits == 8 * Len(message)
        zeros == (-(Len(message) + 1 + 2 * WordLen)) % BlockLen
        padded == message \o <<128>> \o [i \in 1..zeros |-> 0] \o Encode(<<bits % Word, (bits \div Word) % Word>>)
        Block(k) == SubSeq(padded, (k - 1) * BlockLen + 1, k * BlockLen)
    IN Encode(FoldLeft(MD5Transform, Magic, [k \in 1..(Len(padded) \div BlockLen) |-> Block(k)]))

\* However a message is cut into pieces, its digest is the same.
DigestWhole(c) ==
    LET Cut(k) == [i \in 1..c.lengths[k] |-> (37 * i + k) % 256]
        pieces == [k \in 1..Len(c.lengths) |-> Cut(k)]
    IN Digest(pieces) = DigestOf(FlattenSeq(pieces))

\* The digests of HTTP authentication: the parts with colons between them; a session's
\* first hash can be kept and the rest added to it.
Colons(parts) == FlattenSeq([i \in 1..Len(parts) |-> IF i = 1 THEN parts[i] ELSE sColon \o parts[i]])

AuthDigest(c) ==
    LET u == <<117>>
        ha1 == CalcHA1(c.algorithm, u, c.realm, c.password, c.nonce, u)
        kept == CalcMD5HA1(u, c.realm, c.password)
        ha2 == HashToString(DigestOf(Colons(IF c.qop = sQopAuthInt THEN <<u, c.nonce, c.realm>> ELSE <<u, c.nonce>>)))
    IN /\ kept = DigestOf(Colons(<<u, c.realm, c.password>>))
       /\ ha1 = IF c.algorithm = sMD5Sess THEN CalcHA1Md5Sess(kept, c.nonce, u) ELSE HashToString(kept)
       /\ CalcRequestDigest(ha1, c.nonce, u, c.password, c.given, c.qop, u, c.nonce, c.realm)
              = HashToString(DigestOf(Colons(IF c.given THEN <<ha1, c.nonce, u, c.password, c.qop, ha2>>
                                             ELSE <<ha1, c.nonce, ha2>>)))

\* A password is verified by encoding it with what was stored as the salt, as long as
\* all of it was stored.
Verifies(stored, full, c) ==
    /\ IsPrefix(stored, full) /\ (stored = full \/ Len(stored) = c.room - 1)
    /\ MD5Encode(c.password, full, 64) = full /\ ToSet(Letters64(Digest(<<c.salt>>))) \subseteq ToSet(itoa64)

PasswordVerifies(c) == Verifies(MD5Encode(c.password, c.salt, c.room), MD5Encode(c.password, c.salt, 64), c)

\* An integer comes back from the network, its high byte first on it.
OrderInverts(c) ==
    LET sent == HostToNetworkSInt64(c.bytes)
    IN sent = Reverse(c.bytes) /\ NetworkToHostSInt64(sent) = c.bytes

\* All directories of a path are there if no file was in the way, and nothing else is new.
DirsMade(c) ==
    LET r == RecursiveMakeDir(c.fs, c.path)
        Upto(n) == SubSeq(c.path, 1, n)
        blocked == {n \in 1..Len(c.path) : Upto(n) \in c.fs.files}
    IN /\ r.fs.files = c.fs.files
       /\ r.fs.dirs = c.fs.dirs \cup {Upto(n) : n \in {k \in 1..Len(c.path) : \A b \in blocked : k < b}}
       /\ r.error = IF blocked = {} THEN "OS_NoErr" ELSE "EEXIST"

\* The calls of Queue::Test() whose result is not the one it expects.
TestFails(calls) == {i \in 1..Len(calls) : TestStates(calls)[i].gave # calls[i].expect}

\* The queue gives what was put first, whatever is removed, and an iterator comes to
\* each element once.
QueueExact ==
    LET Iterated(i) == TestStates(TestFifo \o TestIter)[Len(TestFifo) + i].gave
    IN /\ TestFails(TestFifo \o TestRemove) = {}
       /\ {Iterated(i) : i \in 1..3} = {1, 2, 3} /\ Iterated(4) = nullptr

\* Buffers that were put back are given out again, the oldest first, before a new one
\* is made; none is given to two.  A call is to get one, or to put one that is out.
PoolExact(c) ==
    LET Turn(s, k) ==
            LET got == PoolGet(s.pool)
                other == IF c.calls[k] = "put" THEN Head(s.out) ELSE Last(s.out)
            IN IF c.calls[k] = "get"
               THEN [s EXCEPT !.pool = got, !.out = Append(@, got.out), !.free = IF @ = <<>> THEN @ ELSE Tail(@),
                              !.right = @ /\ got.out \notin ToSet(s.out)
                                          /\ got.out = IF s.free = <<>> THEN s.pool.fTotNumBuffers + 1 ELSE Head(s.free)]
               ELSE IF s.out = <<>> THEN s
               ELSE [s EXCEPT !.pool = PoolPut(@, other), !.out = SelectSeq(@, LAMBDA b : b # other),
                              !.free = Append(@, other)]
        start == [pool |-> NewPool(Len(c.calls)), out |-> <<>>, free |-> <<>>, right |-> TRUE]
        end == FoldLeft(Turn, start, [k \in 1..Len(c.calls) |-> k])
    IN end.right /\ end.pool.fTotNumBuffers = Len(end.out) + Len(end.free)

\* What one half writes, encodes, puts or stores the other reads, decodes, gets or
\* verifies, at every length, alignment and size of the buffer; of queries, those that
\* give no name twice.
RoundTrips ==
    /\ input.op = "base64" => Base64Inverts(input)
    /\ input.op = "url" => URLInverts(input)
    /\ input.op = "date" => DateInverts(input)
    /\ input.op = "recent" => DateIsRecent(input)
    /\ input.op = "query" => QueryInverts(input)
    /\ input.op = "format" => Formatted(input)
    /\ input.op = "digest" => DigestWhole(input)
    /\ input.op = "auth" => AuthDigest(input)
    /\ input.op = "password" => PasswordVerifies(input)
    /\ input.op = "swap" => OrderInverts(input)
    /\ input.op = "mkdir" => DirsMade(input)
    /\ input.op = "queue" => QueueExact
    /\ input.op = "pool" => PoolExact(input)

----------------------------------------------------------------------------
(* What a message says is what is read from it *)

\* The parsers after one, two, ... lines.
AfterLine(p, n) ==
    LET After[i \in 0..n] == IF i = 0 THEN p ELSE GetThruEOL(After[i - 1]) IN After

\* Lines are told apart by \r, \n or \r\n, and counted.
LinesRead(c) ==
    LET n == Len(c.lines)
        text == FlattenSeq([i \in 1..n |-> c.lines[i].text \o c.lines[i].eol])
        after == AfterLine(Parser(text, NUL), n)
    IN /\ \A i \in 1..n : LineTaken(after[i - 1]) = c.lines[i].text /\ after[i].line = i + 1
       /\ AtEnd(after[n])

\* A time of h:m:s.f or s.f, and the same number as an integer and a float; blanks
\* around a word, quotes around it, and the place of one text in another.
WordsRead(c) ==
    LET n == Number(c.digits)
        Read(text) == NPTConsumed(Parser(text, NUL))
        spaced == <<" ", "\t">> \o c.digits \o <<" ">>
    IN /\ IntegerConsumed(ConsumeUntilDigit(Parser(spaced, NUL))) = n
       /\ FloatConsumed(Parser(c.digits \o <<".">> \o c.digits, NUL)).value
              = <<n * 10 ^ Len(c.digits) + n, 10 ^ Len(c.digits)>>
       /\ Read(c.digits) = <<n, 1>>
       /\ Read(<<"1", ":", "2", ":">> \o c.digits) = <<3720 + n, 1>>
       /\ Read(<<"1", ":", "2", ":", "3", ".">> \o c.digits)
              = <<3723 * 10 ^ Len(c.digits) + n, 10 ^ Len(c.digits)>>
       /\ TrimWhitespace(spaced) = c.digits /\ RemoveWhitespace(spaced) = c.digits
       /\ UnQuote(Quoted(c.digits)) = c.digits
       /\ FindStringCase(spaced, c.digits, TRUE) = 2
       /\ FindStringCase(<<"b", "A">> \o c.digits, <<"a">> \o c.digits, FALSE) = 1
       /\ FindStringCase(<<"b", "A">> \o c.digits, <<"a">> \o c.digits, TRUE) = -1
       /\ NumEqualIgnoreCase(<<"A">> \o c.digits, <<"a">>, 1)
       /\ Taken(Parser(spaced, NUL), ConsumeWordAndFSlash(Parser(spaced, NUL))) = <<>>

\* A request of a method, a URI and headers is parsed into them.  "eol" ends its lines.
RequestText(c) ==
    <<c.method, " ">> \o (IF c.host = Null THEN <<>> ELSE <<"http", ":", "/", "/">> \o c.host)
    \o EncodeURL(PathOf(c.segments), 64).text
    \o (IF c.query = <<>> THEN <<>> ELSE <<"?">> \o c.query)
    \o <<" ", "HTTP", "/", "1", ".", "1">> \o c.eol
    \o FlattenSeq([i \in 1..Len(c.headers) |-> <<c.headers[i].name, ":">> \o c.headers[i].value \o c.eol])
    \o c.eol

\* The last value of a header counts; anything but "close" keeps the connection.
RequestIs(p, c) ==
    LET LastOf(h) == SelectLastInSeq(c.headers, LAMBDA x : EqualIgnoreCase(<<x.name>>, <<h>>))
        Value(h) == LET v == c.headers[LastOf(h)].value IN IF v # <<>> /\ v[1] = " " THEN Tail(v) ELSE v
    IN /\ p.error = "CF_NoErr" /\ p.type = "httpRequestType" /\ p.method = c.method
       /\ p.version = <<"HTTP", "/", "1", ".", "1">>
       /\ p.host = c.host /\ p.query = c.query
       /\ p.path = Tail(Cleaned(c.segments))
       /\ \A h \in Headers : p.fields[h] = IF LastOf(h) = 0 THEN Null ELSE Value(h)
       /\ p.keepAlive = (LastOf("Connection") # 0 /\ ~EqualIgnoreCase(Value("Connection"), <<"close">>))

RequestRead(c) == RequestIs(ParsePacket(RequestText(c), NUL), c)

\* A head that is built, and fits into the first buffer, is parsed into its parts.
HeadIs(p, c) ==
    LET server == IF c.method = "none" THEN "Server" ELSE "User-Agent"
    IN /\ p.error = "CF_NoErr" /\ p.fields[server] = c.server
       /\ p.type = (IF c.method = "none" THEN "httpResponseType" ELSE "httpRequestType")
       /\ c.method = "none" => p.fields["Date"] = c.date

HeadParsed(head, c) == Len(head) < kMinHeaderSizeInBytes => HeadIs(ParsePacket(head, NUL), c)

HeadBuilt(c) ==
    LET version == <<"HTTP", "/", "1", ".", "1">>
    IN GetCompleteHTTPHeader(IF c.method = "none" THEN CreateResponseHeader(c.status, version, c.server, c.date)
                             ELSE CreateRequestHeader(c.method, version, c.server))

\* This is so for requests, and for responses whose reason is one word.
HeadRead(c) == c.method # "none" \/ Len(ReasonWords[c.status]) = 1 => HeadParsed(HeadBuilt(c), c)

\* The three tables of status codes agree, and a code that is in none of them is an
\* error of the server; the type of a stream is found whatever its case.
StatusRead(c) ==
    LET x == GetStatusCodeEnum(c.code)
    IN /\ c.code \in ToSet(sStatusCodes) => sStatusCodes[x] = c.code /\ Number(sStatusCodeAsStrings[x]) = c.code
       /\ c.code \notin ToSet(sStatusCodes) => sStatusCodes[x] = 500
       /\ Len(sStatusCodes) = httpNumStatusCodes /\ Len(sStatusCodeStrings) = httpNumStatusCodes
       /\ \A i \in DOMAIN sStreamTypes :
             LET lower == [k \in 1..Len(sStreamTypes[i]) |-> sCaseInsensitiveMask(sStreamTypes[i][k])]
             IN GetStreamType(lower) = i /\ GetStreamType(Tail(lower)) = 0

\* The fields of a user agent; the first of a name counts.  A system that is followed
\* by its version gives both, unless there is a field for the version.
AgentRead(c) ==
    LET Whole(f) == f.data \o IF f.version = <<>> THEN <<>> ELSE <<"%", "2", "0">> \o f.version
        text == <<"Agent", " ", "(">> \o
                FlattenSeq([i \in 1..Len(c.fields) |->
                               (IF i = 1 THEN <<>> ELSE <<";", " ">>) \o c.fields[i].id \o <<"=">> \o Whole(c.fields[i])])
                \o <<")">>
        First(id) == SelectInSeq(c.fields, LAMBDA f : f.id = <<id>>)
        split == First("Core") # 0 /\ First("osver") = 0
        fields == Parse(text, NUL)
    IN \A id \in sFieldIDs :
          fields[id] = IF split /\ id = "Core" THEN c.fields[First("Core")].data
                       ELSE IF split /\ id = "osver" THEN c.fields[First("Core")].version
                       ELSE IF First(id) = 0 THEN Null ELSE Whole(c.fields[First(id)])

\* A configuration file of names and values, in quotes where a value needs them,
\* with comments and empty lines between them: the setter gets all up to the first
\* that it refuses.  An empty file is an error.
ConfWord(w) ==
    IF ToSet(w) \cap (Control \cup {"\""}) = {} THEN w
    ELSE Quoted(FlattenSeq([i \in 1..Len(w) |-> IF w[i] = "\"" THEN <<"\"", "\"">> ELSE <<w[i]>>]))

\* "r" is the result of reading it with and without values that are NULL.
Configured(r, c) ==
    LET k == SelectInSeq(c.entries, LAMBDA e : e[1] = c.refused)
        bare == SelectInSeq(c.entries, LAMBDA e : e[2] = <<>>)
    IN /\ r[TRUE].set = (IF k = 0 THEN c.entries ELSE SubSeq(c.entries, 1, k))
       /\ r[TRUE].error = (IF k = 0 /\ c.entries # <<>> THEN 0 ELSE -1)
       /\ r[FALSE].set = (IF bare = 0 \/ (k # 0 /\ k < bare) THEN r[TRUE].set ELSE SubSeq(c.entries, 1, bare - 1))

ConfRead(c) ==
    LET Line(e) == c.indent \o ConfWord(e[1])
                   \o FlattenSeq([i \in 1..Len(e[2]) |-> <<" ">> \o ConfWord(e[2][i])]) \o <<"\n">>
        file == FlattenSeq([i \in 1..Len(c.entries) |-> <<"#", "\n", "\n">> \o Line(c.entries[i])])
    IN Configured([allowNullValues \in BOOLEAN |-> ParseConfigFile(file, allowNullValues, {c.refused})], c)

\* However qsort() leaves mappers of one kind, the handler is one of the most
\* special kind that matches.
Dispatched(c) ==
    LET built == {BuildPathMatcher(m) : m \in ToSet(c.table)}
        fits == {m \in built : Match(m, c.path)}
    IN /\ Mappers(c.table) # {}
       /\ \A mappers \in Mappers(Append(c.table, [path |-> Null, func |-> Null])) :
              IF fits = {} THEN Dispatch(mappers, c.path) = "CF_FileNotFound"
              ELSE \E m \in fits : /\ Dispatch(mappers, c.path) = m.func
                                   /\ \A o \in fits : m.type <= o.type

\* The addresses are those of the interfaces that are up, the loopback not first
\* if there is another, and nothing is written behind the array, as long as the
\* interfaces stay.  An open address stands for a local one.
AddressesFound(c) ==
    LET r == Initialize(c.interfaces, c.dns)
        up == SelectSeq(c.interfaces, Counted)
        addrs == {up[i].addr : i \in DOMAIN up}
        open == SetOpenIPAddrs(r.array, c.atoms, c.pairs)
    IN (\A i \in DOMAIN c.interfaces : ~c.interfaces[i].gone) =>
            /\ {r.array[i].fIPAddr : i \in DOMAIN r.array} = addrs /\ r.overrun = 0
            /\ \A i \in DOMAIN r.array : r.array[i].fDNSName = DNSName(c.dns, r.array[i].fIPAddr)
            /\ addrs \ {LocalHost} # {} => r.array[1].fIPAddr # LocalHost
            /\ \A a \in addrs : IsLocalIPAddr(r.array, open, a) /\ GetLocalDNSStr(r.array, a) = DNSName(c.dns, a)
            /\ \A i \in DOMAIN open : LET a == ConvertToLocalAddr(open, open[i].fIPAddr) IN
                   /\ a \in addrs /\ ~IsMulticastIPAddr(a)
                   /\ IsLocalIPAddr(r.array, open, open[i].fIPAddr)
                   /\ ConvertToLocalAddr(open, LocalHost) = LocalHost

\* A text that is put together from parts, a message, a file, a table or the list of
\* interfaces, is taken apart into the same parts: requests, and heads that fit their
\* buffer and whose reason is one word; user agents with text before the parentheses;
\* interfaces that do not vanish in between.
MessagesRead ==
    /\ input.op = "lines" => LinesRead(input)
    /\ input.op = "words" => WordsRead(input)
    /\ input.op = "request" => RequestRead(input)
    /\ input.op = "head" => HeadRead(input)
    /\ input.op = "status" => StatusRead(input)
    /\ input.op = "agent" => AgentRead(input)
    /\ input.op = "conf" => ConfRead(input)
    /\ input.op = "dispatch" => Dispatched(input)
    /\ input.op = "addresses" => AddressesFound(input)

============================================================================
