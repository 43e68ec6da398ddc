----------------------------- MODULE ConfParser ----------------------------
(***************************************************************************)
(* ParseConfigFile() of CFBasic/ConfParser.cpp with GetWord.c and Trim.c.  *)
(* A file is the sequence of its bytes; the setter callback is a function  *)
(* of the parameter and its values that says whether it refuses them.      *)
(***************************************************************************)
EXTENDS StringTranslator

CONSTANTS
    kConfParserMaxLineSize,
    kConfParserMaxParamSize,
    kConfParserMaxParamValues

ASSUME ConfAssumption ==
    /\ kConfParserMaxLineSize \in Nat \ {0, 1}
    /\ kConfParserMaxParamSize \in Nat \ {0} /\ kConfParserMaxParamValues \in Nat \ {0}

\* Bytes up to 0x20.  TrimLeft() compares a signed char: a byte above 127 is
\* blank to it, and not to GetWord().
Control == {" ", "\t", "\r", "\n"}

Dropped(s, set) ==
    LET i == SelectInSeq(s, LAMBDA c : c \notin set) IN IF i = 0 THEN <<>> ELSE SubSeq(s, i, Len(s))

TrimLeft(s) == Dropped(s, Control \cup EightBit)

\* A word and what follows it.  A longer one is cut into several.
GetWord(from, limit) ==
    LET s == Dropped(from, Control)
        i == SelectInSeq(s, LAMBDA c : c \in Control)
        n == IF i = 0 THEN Len(s) ELSE i - 1
        taken == IF n < limit THEN n ELSE limit
    IN [word |-> SubSeq(s, 1, taken), next |-> SubSeq(s, taken + 1, Len(s))]

\* Quotes are doubled inside a quoted word; a quote by itself ends it.
GetQuotedWord(from, limit) ==
    LET s == Dropped(from, Control)
        Copy(r, c) ==
          IF r.done \/ Len(r.word) = limit THEN [r EXCEPT !.done = TRUE]
          ELSE IF c = "\"" /\ ~r.quote THEN [r EXCEPT !.quote = TRUE, !.read = @ + 1]
          ELSE IF c # "\"" /\ r.quote THEN [r EXCEPT !.done = TRUE]
          ELSE [r EXCEPT !.word = Append(@, c), !.quote = FALSE, !.read = @ + 1]
        r == FoldLeft(Copy, [word |-> <<>>, quote |-> FALSE, done |-> FALSE, read |-> 1], Tail(s))
    IN IF s = <<>> \/ s[1] # "\"" THEN [word |-> <<>>, next |-> s]
       ELSE [word |-> r.word, next |-> SubSeq(s, r.read + 1, Len(s))]

NextWord(s) ==
    IF s[1] = "\"" THEN GetQuotedWord(s, kConfParserMaxParamSize)
    ELSE GetWord(s, kConfParserMaxParamSize)

\* The values behind the name; what is too much for the array is not read.
Values(next) ==
    LET Add(st, value) == [values |-> Append(st.values, value.word), next |-> value.next]
        After[i \in 0..kConfParserMaxParamValues] ==
          IF i = 0 THEN [values |-> <<>>, next |-> next]
          ELSE LET st == After[i - 1]
                   s == TrimLeft(st.next)
               IN IF s = <<>> THEN [st EXCEPT !.next = <<>>] ELSE Add(st, NextWord(s))
    IN After[kConfParserMaxParamValues].values

\* fgets(): a piece ends with the line or with the buffer.
Piece(file) ==
    LET i == SelectInSeq(file, LAMBDA c : c = "\n")
        n == IF i = 0 THEN Len(file) ELSE i
    IN IF n < kConfParserMaxLineSize - 1 THEN n ELSE kConfParserMaxLineSize - 1

\* A name and its values: "set" collects what the setter was called with; it refuses
\* the names in "refused".
SetParam(st, name, values, allowNullValues, refused) ==
    IF values = <<>> /\ ~allowNullValues THEN [st EXCEPT !.error = -1]
    ELSE [st EXCEPT !.set = Append(@, <<name, values>>), !.error = IF name \in refused THEN -1 ELSE 0]

\* A piece of a line.
ParseLine(st, line, allowNullValues, refused) ==
    LET s == TrimLeft(CString(line))
        Named(name) == SetParam(st, name.word, Values(name.next), allowNullValues, refused)
    IN IF s = <<>> \/ s[1] = "#" THEN [st EXCEPT !.error = 0] ELSE Named(NextWord(s))

\* The loop ends at the end of the file or with the first error.  A piece ends a line
\* or fills the buffer.
ParseConfigFile(file, allowNullValues, refused) ==
    LET turns == Len(SelectSeq(file, LAMBDA c : c = "\n")) + Len(file) \div (kConfParserMaxLineSize - 1) + 1
        After[i \in 0..turns] ==
          IF i = 0 THEN [file |-> file, error |-> -1, set |-> <<>>]
          ELSE LET st == After[i - 1]
                   n == Piece(st.file)
                   rest == [st EXCEPT !.file = SubSeq(@, n + 1, Len(@))]
               IN IF n = 0 \/ (st.error # 0 /\ i > 1) THEN st
                  ELSE ParseLine(rest, SubSeq(st.file, 1, n), allowNullValues, refused)
    IN After[turns]
============================================================================
