--------------------------- MODULE StringParser ----------------------------
(***************************************************************************)
(* StrPtrLen (CFCore/StrPtrLen.cpp): a pointer and a length into bytes     *)
(* that somebody else owns.  A string is the sequence of the bytes it      *)
(* covers.  A byte is a one-character TLA+ string; a symbol such as "abc"  *)
(* stands for a run of letters that no operation takes apart.              *)
(***************************************************************************)
EXTENDS Integers, Sequences, FiniteSets, SequencesExt

CONSTANTS
    Letters,      \* symbols for letters, the longer ones for words
    LowerCase     \* function: the lower case of the capitals among them

ASSUME LetterAssumption == DOMAIN LowerCase \subseteq Letters

NUL == "\\0"
Digits == {"0", "1", "2", "3", "4", "5", "6", "7", "8", "9"}
Blanks == {" ", "\t"}

\* A string whose Ptr is null.
Null == <<"null">>

\* sCaseInsensitiveMask: its 130 entries cover the bytes of these symbols.
sCaseInsensitiveMask(c) == IF c \in DOMAIN LowerCase THEN LowerCase[c] ELSE c

\* Two null strings are equal, and a null string equals no other.
Equal(s, compare) == s = compare

\* The characters at every position of the first len are the same letter.
SameLetters(s, compare, len) ==
    \A x \in 1..len : sCaseInsensitiveMask(s[x]) = sCaseInsensitiveMask(compare[x])

EqualIgnoreCase(s, compare) == Len(s) = Len(compare) /\ SameLetters(s, compare, Len(s))

NumEqualIgnoreCase(s, compare, len) == len <= Len(s) /\ SameLetters(s, compare, len)

ToUpper(s) ==
    [x \in DOMAIN s |-> IF \E c \in DOMAIN LowerCase : LowerCase[c] = s[x]
                        THEN CHOOSE c \in DOMAIN LowerCase : LowerCase[c] = s[x] ELSE s[x]]

\* CopyAsCString, and every other string that ends at its first NUL byte.
CString(s) ==
    LET z == SelectInSeq(s, LAMBDA c : c = NUL) IN IF z = 0 THEN s ELSE SubSeq(s, 1, z - 1)

\* strstr(): the offset at which query begins first, -1 for none.
strstr(s, query) ==
    LET At(i) == SubSeq(s, i + 1, i + Len(query)) = query
        found == {i \in 0..(Len(s) - Len(query)) : At(i)}
    IN IF found = {} THEN -1 ELSE CHOOSE i \in found : \A j \in found : i <= j

\* FindStringCase() searches a terminated copy; its result is an offset into
\* the string itself.  Nothing is found in a null or empty string.
FindStringCase(s, query, caseSensitive) ==
    IF s = Null \/ s = <<>> THEN -1
    ELSE IF caseSensitive THEN strstr(CString(s), query)
    ELSE strstr(ToUpper(CString(s)), ToUpper(query))

RemoveWhitespace(s) == SelectSeq(s, LAMBDA c : c \notin Blanks)

TrimLeadingWhitespace(s) ==
    LET first == SelectInSeq(s, LAMBDA c : c \notin Blanks)
    IN IF first = 0 THEN <<>> ELSE SubSeq(s, first, Len(s))

TrimTrailingWhitespace(s) ==
    SubSeq(s, 1, SelectLastInSeq(s, LAMBDA c : c \notin Blanks))

TrimWhitespace(s) == TrimTrailingWhitespace(TrimLeadingWhitespace(s))

----------------------------------------------------------------------------
(***************************************************************************)
(* StringParser (CFCore/StringParser.cpp) as operators on a parser: the    *)
(* stream it reads, how many bytes of it are behind fStartGet, and the     *)
(* line number.  advanceMark() and PeekFast() also read the byte that      *)
(* follows the stream in memory, which "behind" is.  A parser of a null    *)
(* stream is one of an empty stream.                                       *)
(***************************************************************************)

CONSTANTS
    Bytes,        \* all symbols
    Wrap          \* one more than the largest UInt32

ASSUME ParserAssumption ==
    /\ Letters \cup Digits \cup Blanks \cup {"\r", "\n", "?", "-", "_", "/"} \subseteq Bytes
    /\ Wrap \in Nat \ {0}

\* The stop masks.
sWordMask == Letters \cup {"-", "_"}
sNonWordMask == Bytes \ sWordMask
sNonWordFSlashMask == Bytes \ (sWordMask \cup {"/"})
sDigitMask == Digits
sEOLMask == {"\r", "\n"}
sEOLWhitespaceMask == {"\t", "\n", "\r", " "}
sNonWhitespaceMask == Bytes \ {"\t", "\n", "\r", " "}
sEOLWhitespaceQueryMask == sEOLWhitespaceMask \cup {"?"}

Parser(stream, behind) == [stream |-> stream, behind |-> behind, start |-> 0, line |-> 1]

\* The i-th byte of the stream, the byte behind it included.
ByteAt(p, i) == IF i <= Len(p.stream) THEN p.stream[i] ELSE p.behind

PeekFast(p) == ByteAt(p, p.start + 1)

GetDataRemaining(p) == Len(p.stream) - p.start

\* advanceMark() counts \n and the \r that no \n follows.
IsBoundary(p, i) ==
    \/ ByteAt(p, i) = "\n"
    \/ ByteAt(p, i) = "\r" /\ ByteAt(p, i + 1) # "\n"

\* advanceMark() until n bytes are consumed.
advanceMark(p, n) ==
    [p EXCEPT !.start = n,
              !.line = @ + Cardinality({i \in (p.start + 1)..n : IsBoundary(p, i)})]

\* The string a call that took the parser from p to q puts into outString.
Taken(p, q) == SubSeq(p.stream, p.start + 1, q.start)

\* How far the parser is when the next byte is in stop or there is none.
StopAt(p, stop) ==
    LET i == SelectInSubSeq(p.stream, p.start + 1, Len(p.stream), LAMBDA c : c \in stop)
    IN IF i = 0 THEN Len(p.stream) ELSE i - 1

ConsumeUntil(p, stop) == advanceMark(p, StopAt(p, stop))

ConsumeWord(p) == ConsumeUntil(p, sNonWordMask)
ConsumeWordAndFSlash(p) == ConsumeUntil(p, sNonWordFSlashMask)
ConsumeWhitespace(p) == ConsumeUntil(p, sNonWhitespaceMask)
ConsumeUntilWhitespace(p) == ConsumeUntil(p, sEOLWhitespaceMask)
ConsumeUntilDigit(p) == ConsumeUntil(p, sDigitMask)

\* No caller passes a negative length, which would back up uncounted.
ConsumeLength(p, length) ==
    advanceMark(p, IF GetDataRemaining(p) < length THEN Len(p.stream) ELSE p.start + length)

DigitValue(c) == CHOOSE n \in 0..9 : c = <<"0", "1", "2", "3", "4", "5", "6", "7", "8", "9">>[n + 1]

ConsumeDigits(p) == ConsumeUntil(p, Bytes \ Digits)

Number(s) == FoldLeft(LAMBDA v, c : (v * 10 + DigitValue(c)) % Wrap, 0, s)

ConsumeInteger(p) == ConsumeDigits(p)
IntegerConsumed(p) == Number(Taken(p, ConsumeInteger(p)))

AtEnd(p) == p.start >= Len(p.stream)

Expects(p, c) == ~AtEnd(p) /\ PeekFast(p) = c

\* The parser after Expect(c), which returns Expects(p, c).
Expect(p, c) == IF Expects(p, c) THEN advanceMark(p, p.start + 1) ELSE p

\* A float is the pair of a numerator and a denominator.
FloatConsumed(p) ==
    LET dot == Expect(ConsumeDigits(p), ".")
        q == ConsumeDigits(dot)
    IN [parser |-> q,
        value |-> <<Number(Taken(p, ConsumeDigits(p)) \o Taken(dot, q)), 10 ^ Len(Taken(dot, q))>>]

\* ConsumeNPT() reads seconds, or hours:minutes:seconds, with a fraction: up to
\* four numbers.  The separator after the i-th decides whether there is another.
NPTNumbers(p) ==
    LET f[i \in 0..4] ==
          IF i = 0 THEN [parser |-> p, numbers |-> <<>>, clock |-> FALSE, more |-> TRUE]
          ELSE LET s == f[i - 1]
                   q == ConsumeDigits(s.parser)
                   fraction == Expects(q, ".") /\ (i = 1 \/ (s.clock /\ i = 3))
                   colon == Expects(q, ":") /\ (i = 1 \/ (s.clock /\ i = 2))
               IN IF ~s.more THEN s
                  ELSE
                  [parser |-> IF fraction \/ colon THEN advanceMark(q, q.start + 1) ELSE q,
                   numbers |-> Append(s.numbers, Taken(s.parser, q)),
                   clock |-> s.clock \/ colon,
                   more |-> fraction \/ colon]
    IN f[4]

\* What the numbers say: whole seconds and the fraction.
NPTValue(r) ==
    LET n(i) == IF i <= Len(r.numbers) THEN r.numbers[i] ELSE <<>>
        Seconds == IF r.clock THEN Number(n(1)) * 3600 + Number(n(2)) * 60 + Number(n(3))
                   ELSE Number(n(1))
        fraction == IF r.clock THEN n(4) ELSE n(2)
    IN <<Seconds * 10 ^ Len(fraction) + Number(fraction), 10 ^ Len(fraction)>>

NPTConsumed(p) == NPTValue(NPTNumbers(p))

ExpectsEOL(p) == ~AtEnd(p) /\ PeekFast(p) \in sEOLMask

\* Mutant: \r\n ends two lines.
ExpectEOLShort(p) == IF ExpectsEOL(p) THEN advanceMark(p, p.start + 1) ELSE p

\* The parser after ExpectEOL() and after ConsumeEOL(): \r, \n or \r\n.
ExpectEOL(p) ==
    IF ~ExpectsEOL(p) THEN p
    ELSE LET q == advanceMark(p, p.start + 1)
         IN IF PeekFast(p) = "\r" THEN Expect(q, "\n") ELSE q

GetThru(p, c) == Expect(ConsumeUntil(p, {c}), c)
FoundThru(p, c) == Expects(ConsumeUntil(p, {c}), c)

GetThruEOL(p) == ExpectEOL(ConsumeUntil(p, sEOLMask))

\* What GetThruEOL() puts into outString.
LineTaken(p) == Taken(p, ConsumeUntil(p, sEOLMask))

\* Each end is looked at by itself: the quotes need not match.
UnQuote(s) ==
    LET quotes == {"\"", "'"}
        tail == IF s[1] \in quotes THEN Tail(s) ELSE s
    IN IF Len(s) < 2 THEN s ELSE IF Last(tail) \in quotes THEN Front(tail) ELSE tail
============================================================================
