------------------------------- MODULE MCData ------------------------------
(***************************************************************************)
(* The heap, the file cache, the sockets' buffers, the timeouts and the    *)
(* texts, one at a time: a behaviour is one of the part that the initial   *)
(* state picks.  A text is only read: its part takes no step.              *)
(***************************************************************************)
EXTENDS TimerHeap, FileSource, ResponseStream, ClientSocket, UDPSockets, TimeoutTasks, TextCases, TLC
CONSTANTS Parts, r1, r2
VARIABLE part

\* The elements of the heap are interchangeable, and the value of one that is not in
\* it is not read before it is set: states are told apart by what is in each slot,
\* whether it is there a second time and whether it knows that it is there.
HeapView ==
    LET Slot(i) == <<At(i), CHOOSE j \in 1..i : fHeap[j] = fHeap[i] /\ \A k \in 1..(j - 1) : fHeap[k] # fHeap[i],
                     fHeap[i] \in fCurrentHeap>>
    IN <<[i \in 1..CurrentHeapSize |-> Slot(i)], Cardinality(fCurrentHeap), fArraySize, shift, pos, misplaced>>

DataView == <<HeapView, fsVars, rsVars, csVars, udpVars, ttVars, input, part>>

----------------------------------------------------------------------------
(* Symbols *)

Capitals == ToSet(Alphabet)
Small == <<"a", "b", "c", "d", "e", "f", "g", "h", "i", "j", "k", "l", "m", "n", "o",
           "p", "q", "r", "s", "t", "u", "v", "w", "x", "y", "z">>
MCHeaders == {"Server", "Date", "User-Agent", "Access-Control-Allow-Origin", "Connection", "Host"}
MCLowerCase == [c \in Capitals |-> Small[CHOOSE n \in 1..26 : Alphabet[n] = c]]
               @@ "Close" :> "close" @@ "Keep-Alive" :> "keep-alive" @@ "HOST" :> "host" @@ "Host" :> "host"
MCLetters == Capitals \cup ToSet(Small) \cup MCHeaders \cup Methods \cup sFieldIDs \cup DOMAIN MCLowerCase
             \cup {"HTTP", "http", "www", "close", "keep-alive", "none", "Agent", "Mac"}
             \cup UNION {ToSet(words) : words \in ToSet(ReasonWords)}
MCHexOf == " " :> <<"2", "0">> @@ "%" :> <<"2", "5">> @@ "?" :> <<"3", "F">> @@ "&" :> <<"2", "6">>
           @@ "=" :> <<"3", "D">> @@ "\"" :> <<"2", "2">> @@ "e8" :> <<"E", "8">> @@ "a" :> <<"6", "1">>
MCBytes == MCLetters \cup Digits \cup Blanks \cup DOMAIN MCHexOf \cup
           {"\r", "\n", "-", "_", "/", ".", ":", ";", ",", "(", ")", "*", "+", "#", "\\0", "other"}

----------------------------------------------------------------------------
(* Inputs *)

UpTo(S, n) == UNION {[1..k -> S] : k \in 0..n}

Segments == {<<>>, <<".">>, <<".", ".">>, <<".", ".", ".">>, <<"a", ".">>, <<".", "a">>, <<" ", "%">>, <<"e8">>}

Base64Inputs == [op : {"base64"}, bytes : UpTo({0, 77, 255}, 5)]
URLInputs == [op : {"url"}, segments : UpTo(Segments, 3) \ {<<>>}, room : {0, 4, 16}]
DateInputs ==
    [op : {"date"}, weekday : {<<"S", "u", "n">>},
     tm : [mday : {1, 30}, mon : 0..11, year : {99, 117}, hour : {0, 23}, min : {59}, sec : {7}]]
RecentInputs == {c \in [op : {"recent"}, last : 0..4, now : 0..6] : c.last <= c.now}
QueryInputs ==
    [op : {"query"}, pairs : UpTo([name : {<<"a">>, <<"A">>, <<"b", " ">>},
                                   value : {<<>>, <<"%", "a">>, <<"b", " ", "b">>}, quoted : {FALSE}]
                                  \cup [name : {<<"a">>}, value : {<<"b">>, <<>>}, quoted : {TRUE}], 2)]
FormatInputs ==
    [op : {"format"}, size : {0, 1, 3, 4}, grows : BOOLEAN,
     strings : UpTo({<<"a">>, <<"a", "/">>, <<"a", "b", "c", "d", "e">>}, 3)]

LineInputs ==
    [op : {"lines"}, lines : {l \in UpTo([text : {<<>>, <<"a", " ">>}, eol : {<<"\r">>, <<"\n">>, <<"\r", "\n">>}], 3) :
        \A i \in 1..(Len(l) - 1) : ~(l[i].eol = <<"\r">> /\ l[i + 1].text = <<>> /\ l[i + 1].eol = <<"\n">>)}]
WordInputs == [op : {"words"}, digits : {<<"7">>, <<"0", "9">>, <<"1", "0", "5">>}]
RequestInputs ==
    [op : {"request"}, method : {"PUT"}, host : {Null, <<"www">>},
     segments : {<<<<>>>>, <<<<"a">>, <<".">>, <<"b", " ">>>>}, query : {<<>>, <<"a", "=", "b">>},
     eol : {<<"\n">>, <<"\r", "\n">>},
     headers : UpTo([name : {"Connection"}, value : {<<" ", "Close">>, <<"none">>}]
                    \cup [name : {"Host"}, value : {<<" ", "www", ":", "8">>}]
                    \cup [name : {"HOST", "none"}, value : {<<>>}], 2)]
HeadInputs ==
    [op : {"head"}, method : {"none", "GET"}, status : DOMAIN sStatusCodes,
     server : {<<"a">>, <<"a", " ", "b", ":", "c">>}, date : {<<"D">>, <<"D", " ", "G", "M", "T">>}]
AgentInputs ==
    LET Field(id, data, version) == [id |-> <<id>>, data |-> data, version |-> version]
    IN [op : {"agent"},
        fields : UpTo({Field("qtid", <<"a", " ", "b">>, <<>>), Field("qtid", <<"c">>, <<>>), Field("none", <<"x">>, <<>>),
                       Field("osver", <<"9">>, <<>>), Field("Core", <<"Mac">>, <<"8">>)}, 3)]
ConfInputs ==
    [op : {"conf"}, indent : {<<>>, <<" ", "e8">>}, refused : {<<"b">>, <<"c">>},
     entries : UpTo({<<n, v>> : n \in {<<"a">>, <<"b">>, <<"a", " ">>},
                                v \in {<<>>, <<<<"x", "y">>>>, <<<<"x", " ", "\"">>, <<"#">>>>}}, 2)]
DispatchInputs ==
    LET Path(p) == [path |-> p, func |-> p]
    IN [op : {"dispatch"}, path : {<<"a">>, <<"a", "/", "b">>, <<"c", ".", "h">>, <<"a", ".", "h">>},
        table : {t \in UpTo({Path(<<"a">>), Path(<<"a", "/", "*">>), Path(<<"/", "*">>), Path(<<"*", ".", "h">>), Path(<<"/">>)}, 4) :
                    IsInjective(t)}]
Interfaces ==
    LET If(a, up, inet, gone) == [addr |-> a, up |-> up, inet |-> inet, gone |-> gone]
    IN {If(LocalHost, TRUE, TRUE, FALSE), If(<<10, 0, 0, 1>>, TRUE, TRUE, FALSE), If(<<10, 0, 0, 2>>, TRUE, TRUE, FALSE),
        If(<<10, 0, 0, 3>>, FALSE, TRUE, FALSE), If(<<0, 0, 0, 9>>, TRUE, FALSE, FALSE), If(<<10, 0, 0, 4>>, TRUE, TRUE, TRUE)}
AddressInputs ==
    [op : {"addresses"}, interfaces : {s \in UpTo(Interfaces, 4) : IsInjective(s) /\ \E i \in DOMAIN s : s[i].addr = <<10, 0, 0, 1>>},
     dns : {<<10, 0, 0, 1>> :> <<"host">>}, pairs : {<<>>, <<<<"p">>, <<"q", ":", "l">>>>},
     atoms : {<<"p">> :> <<8, 8, 8, 1>> @@ <<"q">> :> <<8, 8, 8, 2>> @@ <<"l">> :> <<10, 0, 0, 1>>}]

\* Where messages end: in a block with room for the length, just not, at its end, and
\* where the low word of the count overflows.
DigestInputs == [op : {"digest"}, lengths : UpTo({0, 1, 5, 6, 7, 8, 9, 31, 32, 33}, 2) \cup [1..3 -> {1, 7, 17}]]
AuthInputs ==
    [op : {"auth"}, algorithm : {sMD5Sess, <<109>>}, realm : {<<>>, <<1, 2, 3>>}, password : {<<9>>},
     nonce : {<<>>, <<5, 6, 7, 8, 9>>}, given : BOOLEAN, qop : {sQopAuthInt, <<97>>, <<>>}]
PasswordInputs ==
    [op : {"password"}, password : {<<>>, <<7>>, [i \in 1..16 |-> i], [i \in 1..17 |-> 65]},
     salt : {<<>>, <<83>>, <<83, 36, 84>>, [i \in 1..8 |-> 97], [i \in 1..9 |-> 97]}, room : {1, 20, 33, 64}]
SwapInputs == [op : {"swap"}, bytes : {<<0, 1, 2, 3, 4, 5, 6, 7>>, <<255, 1, 2, 3, 4, 5, 6, 255>>, <<0, 0, 0, 0, 0, 0, 0, 128>>}]
DirInputs ==
    LET Paths == {<<"a">>, <<"a", "b">>, <<"a", "b", "c">>, <<"b">>}
        Tree(fs) == fs.dirs \cap fs.files = {} /\ \A p \in (fs.dirs \cup fs.files) \ {<<>>} : Front(p) \in fs.dirs
    IN {c \in [op : {"mkdir"}, path : Paths, fs : [dirs : {d \cup {<<>>} : d \in SUBSET Paths}, files : SUBSET Paths]] : Tree(c.fs)}
QueueInputs == {[op |-> "queue"]}
PoolInputs == [op : {"pool"}, calls : UpTo({"get", "put", "put last"}, 6)]
StatusInputs == [op : {"status"}, code : ToSet(sStatusCodes) \cup {0, 306, 999}]

MCMagic == [i \in 1..16 |-> (17 * i) % 256]

\* Rounds that depend on every word and its place.  (SubSeq makes TLC evaluate the
\* elements once.)
MCRounds(state, words) ==
    LET w == SubSeq(words, 1, Len(words))
        sum == FoldLeft(LAMBDA a, x : (7 * a + x + 1) % 256, 0, w)
    IN SubSeq([i \in 1..16 |-> (3 * state[i] + state[(i % 16) + 1] + sum + i * w[(i % Len(w)) + 1]) % 256], 1, 16)

TextInput ==
    \/ input \in Base64Inputs \/ input \in URLInputs \/ input \in DateInputs \/ input \in RecentInputs
    \/ input \in QueryInputs \/ input \in FormatInputs \/ input \in LineInputs \/ input \in WordInputs
    \/ input \in RequestInputs \/ input \in HeadInputs \/ input \in AgentInputs \/ input \in ConfInputs
    \/ input \in DispatchInputs \/ input \in AddressInputs
    \/ input \in DigestInputs \/ input \in AuthInputs \/ input \in PasswordInputs \/ input \in SwapInputs
    \/ input \in DirInputs \/ input \in QueueInputs \/ input \in PoolInputs \/ input \in StatusInputs

----------------------------------------------------------------------------

Other == {<<"a", 4>>}

TwoFiles == "fa" :> 3 @@ "fb" :> 1
Reads == r1 :> {<<0, 3>>, <<1, 2>>} @@ r2 :> {<<0, 1>>}

DataInit ==
    /\ part \in Parts
    /\ HeapInit /\ FileInit /\ StreamInit /\ ClientInit /\ UDPInit /\ TimeoutInit
    /\ part # "file" => fFile = "fa"
    /\ part # "stream" => ~ofClient
    /\ part # "client" => kind = "tcp"
    /\ part # "udp" => fDemuxer
    /\ IF part = "text" THEN TextInput ELSE input = [op |-> "none"]

\* A behaviour of the timeouts ends with their thread, one of a client's stream when
\* nothing is said of it any more.
DataNext ==
    /\ \/ part = "heap" /\ HeapNext /\ UNCHANGED <<fsVars, rsVars, csVars, udpVars, ttVars>>
       \/ part = "file" /\ FileNext /\ UNCHANGED <<heapVars, rsVars, csVars, udpVars, ttVars>>
       \/ part = "stream" /\ ~mixed /\ StreamNext /\ UNCHANGED <<heapVars, fsVars, csVars, udpVars, ttVars>>
       \/ part = "client" /\ ClientNext /\ UNCHANGED <<heapVars, fsVars, rsVars, udpVars, ttVars>>
       \/ part = "udp" /\ UDPNext /\ UNCHANGED <<heapVars, fsVars, rsVars, csVars, ttVars>>
       \/ part = "timeout" /\ wake # Never /\ TimeoutNext /\ UNCHANGED <<heapVars, fsVars, rsVars, csVars, udpVars>>
    /\ UNCHANGED <<part, input>>

dataVars == <<heapVars, fsVars, rsVars, csVars, udpVars, ttVars, input, part>>

DataSpec == DataInit /\ [][DataNext]_dataVars
============================================================================
