-------------------------- MODULE StringTranslator -------------------------
(***************************************************************************)
(* StringTranslator (CFCore): URLs.  HexOf gives the hexadecimal digits    *)
(* that %X writes for a symbol: two, but one for the control characters.   *)
(***************************************************************************)
EXTENDS StringParser

CONSTANTS
    HexOf,        \* function: the digits of the symbols that can be encoded
    EightBit      \* symbols for bytes above 127

ASSUME TranslatorAssumption == EightBit \subseteq DOMAIN HexOf

HexDigits == Digits \cup {"A", "B", "C", "D", "E", "F", "a", "b", "c", "d", "e", "f"}

\* The byte with a hexadecimal code, in either case.
CharOf(h1, h2) ==
    LET Same(c) == EqualIgnoreCase(HexOf[c], <<h1, h2>>)
    IN IF \E c \in DOMAIN HexOf : Same(c) THEN CHOOSE c \in DOMAIN HexOf : Same(c) ELSE "other"

\* The characters that EncodeURL() encodes.
Escaped == EightBit \cup
    {" ", "\r", "\n", "\t", "<", ">", "#", "%", "{", "}", "|", "\\", "^", "~",
     "[", "]", "backquote", ";", "?", "@", "=", "&", "$", "\""}

\* Three bytes are counted for "%%%X"; of a one digit code the third one is the
\* terminator.
EncodedChar(c) ==
    IF c \in Escaped THEN SubSeq(<<"%">> \o HexOf[c] \o <<NUL>>, 1, 3) ELSE <<c>>

Translated == [text |-> <<>>, error |-> "none"]

EncodeURL(s, destLen) ==
    LET Encode(r, c) ==
          IF r.error # "none" THEN r
          ELSE IF Len(r.text) + Len(EncodedChar(c)) > destLen
          THEN [r EXCEPT !.error = "OS_NotEnoughSpace"]
          ELSE [r EXCEPT !.text = @ \o EncodedChar(c)]
    IN FoldLeft(Encode, Translated, s)

\* Mutant: a delimiter takes back the dots, but not the delimiter before them.
CopyCharLeaves(r, c) ==
    IF r.query THEN [r EXCEPT !.text = Append(@, c)]
    ELSE LET kept == IF c = "/" /\ r.dots \in 1..2
                     THEN SubSeq(r.text, 1, Len(r.text) - r.dots) ELSE r.text
             counts == c = "." /\ (r.dots > 0 \/ Last(kept) = "/")
         IN [r EXCEPT !.text = Append(kept, c),
                      !.dots = IF counts THEN @ + 1 ELSE IF c = "." THEN @ ELSE 0]

\* A decoded character is copied.  Outside the query the "." and ".." that a
\* delimiter ends are taken back, with the delimiter before them.
CopyChar(r, c) ==
    IF r.query THEN [r EXCEPT !.text = Append(@, c)]
    ELSE LET kept == IF c = "/" /\ r.dots \in 1..2
                     THEN SubSeq(r.text, 1, Len(r.text) - r.dots - 1) ELSE r.text
             counts == c = "." /\ (r.dots > 0 \/ Last(kept) = "/")
         IN [r EXCEPT !.text = Append(kept, c),
                      !.dots = IF counts THEN @ + 1 ELSE IF c = "." THEN @ ELSE 0]

\* "escape" holds what was read of a % sequence.  The query begins at a ? that is
\* not encoded, and leaves the dots counted so far.
DecodeURL(s, destLen) ==
    LET Bad(r) == [r EXCEPT !.error = "OS_BadURLFormat"]
        Decode(r, c) ==
          CASE r.error # "none" -> r
            [] r.error = "none" /\ r.escape # <<>> ->
                 IF c \notin HexDigits THEN Bad(r)
                 ELSE IF Len(r.escape) = 1 THEN [r EXCEPT !.escape = <<"%", c>>]
                 ELSE CopyChar([r EXCEPT !.escape = <<>>], CharOf(r.escape[2], c))
            [] r.error = "none" /\ r.escape = <<>> ->
                 IF Len(r.text) = destLen THEN [r EXCEPT !.error = "OS_NotEnoughSpace"]
                 ELSE IF c = "%" THEN [r EXCEPT !.escape = <<"%">>]
                 ELSE IF c = NUL THEN Bad(r)
                 ELSE CopyChar([r EXCEPT !.query = @ \/ c = "?"], c)
        start == [text |-> <<>>, error |-> "none", escape |-> <<>>, dots |-> 0, query |-> FALSE]
        end == FoldLeft(Decode, start, s)
    IN IF s = <<>> \/ s[1] # "/" \/ (end.error = "none" /\ end.escape # <<>>)
       THEN [text |-> <<>>, error |-> "OS_BadURLFormat"]
       ELSE [text |-> IF end.dots <= 2 THEN SubSeq(end.text, 1, Len(end.text) - end.dots) ELSE end.text,
             error |-> end.error]
============================================================================
