-------------------------- MODULE QueryParamList ---------------------------
(***************************************************************************)
(* QueryParamList (CFHttp): the name and value pairs of a form encoded     *)
(* query string.  Its PLDoubleLinkedList is a sequence, the head first.    *)
(***************************************************************************)
EXTENDS StringTranslator

\* DecodeArg(): %XX, %% and + are decoded, a wrong escape is left as it is and
\* an unfinished one is lost.
DecodeArg(s) ==
    LET Decode(r, c) ==
          CASE r.state = "kLastWasText" ->
                 IF c = "%" THEN [r EXCEPT !.state = "kPctEscape"]
                 ELSE [r EXCEPT !.text = Append(@, IF c = "+" THEN " " ELSE c)]
            [] r.state = "kPctEscape" ->
                 IF c = "%" THEN [r EXCEPT !.text = Append(@, "%"), !.state = "kLastWasText"]
                 ELSE IF c \in HexDigits THEN [r EXCEPT !.first = c, !.state = "kRcvHexDigitOne"]
                 ELSE [r EXCEPT !.text = @ \o <<"%", c>>, !.state = "kLastWasText"]
            [] r.state = "kRcvHexDigitOne" ->
                 [r EXCEPT !.state = "kLastWasText",
                           !.text = @ \o IF c \in HexDigits THEN <<CharOf(r.first, c)>>
                                         ELSE <<"%", r.first, c>>]
    IN FoldLeft(Decode, [text |-> <<>>, state |-> "kLastWasText", first |-> ""], CString(s)).text

Pair(name, value) == [name |-> DecodeArg(name), value |-> DecodeArg(value)]

\* AddNameValuePairToList(): AddNode() puts the node before the head.
AddNameValuePairToList(list, name, value) == <<Pair(name, value)>> \o list

\* The value behind the '=', in quotes or up to the next '&'.
ConsumeValue(e) ==
    LET open == ConsumeLength(e, 1)
        close == ConsumeUntil(open, {"\""})
    IN IF PeekFast(e) = "\""
       THEN [value |-> Taken(open, close), parser |-> ConsumeUntil(ConsumeLength(close, 1), {"&"})]
       ELSE [value |-> Taken(e, ConsumeUntil(e, {"&"})), parser |-> ConsumeUntil(e, {"&"})]

\* One turn of the loop: a name that no '=' follows ends the string unused.
ConsumePair(st) ==
    LET q == ConsumeUntil(st.parser, {"="})
        v == ConsumeValue(ConsumeLength(q, 1))
    IN IF GetDataRemaining(st.parser) = 0 THEN st
       ELSE IF GetDataRemaining(q) = 0 THEN [st EXCEPT !.parser = q]
       ELSE [parser |-> ConsumeLength(v.parser, 1),
             list |-> AddNameValuePairToList(st.list, Taken(st.parser, q), v.value)]

BulidList(query) ==
    LET After[i \in 0..Len(query)] ==
          IF i = 0 THEN [parser |-> Parser(query, NUL), list |-> <<>>] ELSE ConsumePair(After[i - 1])
    IN After[Len(query)].list

\* ForEachUntil() from the head: the value of the pair that was added last.
DoFindCGIValueForParam(list, name) ==
    LET i == SelectInSeq(list, LAMBDA nvPair : EqualIgnoreCase(nvPair.name, name))
    IN IF i = 0 THEN Null ELSE list[i].value
============================================================================
