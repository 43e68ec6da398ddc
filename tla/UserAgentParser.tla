-------------------------- MODULE UserAgentParser --------------------------
(***************************************************************************)
(* UserAgentParser (CFHttp): the fields between the parentheses of a       *)
(* User-Agent header, "qtid=...;os=...".                                   *)
(***************************************************************************)
EXTENDS StringParser

sFieldIDs == {"qtid", "qtver", "lang", "Core", "osver", "cpu"}
sEOLWhitespaceEqualMask == {"\t", "\n", "\r", " ", "="}
sEOLSemicolonCloseParenMask == {"\t", "\n", "\r", ")", ";"}

\* One turn of the loop: id and data of a field; the first one of an id counts.
\* An empty id or empty data ends it.
ParseField(st) ==
    LET id == ConsumeWhitespace(ConsumeLength(st.parser, 1))
        equal == ConsumeUntil(id, sEOLWhitespaceEqualMask)
        data == ConsumeLength(ConsumeUntil(equal, {"="}), 1)
        last == ConsumeUntil(data, sEOLSemicolonCloseParenMask)
        name == Taken(id, equal)
    IN IF st.done \/ name = <<>> \/ Taken(data, last) = <<>> THEN [st EXCEPT !.done = TRUE]
       ELSE [st EXCEPT !.parser = last,
               !.fields = [f \in sFieldIDs |-> IF name = <<f>> /\ st.fields[f] = Null
                                               THEN Taken(data, last) ELSE st.fields[f]]]

\* An OS that contains its version, as "Mac%209.2": the version is taken from it.
\* At least three bytes follow from the % on.
SplitOS(fields) ==
    LET os == fields["Core"]
        i == SelectInSeq(os, LAMBDA c : c = "%")
    IN IF os = Null \/ fields["osver"] # Null \/ i = 0 THEN fields
       ELSE [fields EXCEPT !["osver"] = SubSeq(os, i + 3, Len(os)), !["Core"] = SubSeq(os, 1, i - 1)]

\* Nothing is looked for unless something precedes the '('.
Parse(stream, behind) ==
    LET open == ConsumeUntil(Parser(stream, behind), {"("})
        none == [f \in sFieldIDs |-> Null]
        After[i \in 0..(Len(stream) + 1)] ==
          IF i = 0 THEN [parser |-> open, fields |-> none, done |-> open.start = 0]
          ELSE ParseField(After[i - 1])
    IN SplitOS(After[Len(stream) + 1].fields)
============================================================================
