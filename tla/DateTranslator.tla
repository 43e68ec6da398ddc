--------------------------- MODULE DateTranslator --------------------------
(***************************************************************************)
(* DateTranslator (CFCore): RFC 1123 dates.  A date is the tm struct that  *)
(* is handed to mktime() and filled by gmtime().                           *)
(***************************************************************************)
EXTENDS StringParser

CONSTANTS GMTOffset, kUpdateInterval

kDateBufferLen == 29

kMonthHashTable ==
    <<12, 12, 12, 12, 12, 12, 12, 12, 12, 11,
       1, 12, 12, 12, 12, 12, 12, 12, 12, 12,
      12, 12,  0, 12, 12, 12,  7, 12, 12,  2,
      12, 12,  3, 12, 12,  9,  4,  8, 12, 12,
       6, 12,  5, 12, 12, 12, 12, 12, 10, 12>>

kMonthHashTableSize == 49

Alphabet == <<"A", "B", "C", "D", "E", "F", "G", "H", "I", "J", "K", "L", "M", "N", "O",
              "P", "Q", "R", "S", "T", "U", "V", "W", "X", "Y", "Z">>

\* convertCharToMonthTableIndex(): toupper(c) - 'A', for letters and digits.
LetterIndex(c) ==
    LET upper == ToUpper(<<c>>)[1]
    IN IF c \in Digits THEN DigitValue(c) - 17 ELSE (CHOOSE n \in 1..26 : Alphabet[n] = upper) - 1

MonthIndex(a, b, c) == LetterIndex(a) + LetterIndex(b) + LetterIndex(c)

NoDate == [mday |-> 0]

\* ParseDate(): the name of the day is skipped and the rest read in order.
ParseDate(s) ==
    LET day == ConsumeLength(Parser(s, NUL), 5)
        month == ConsumeWhitespace(ConsumeInteger(day))
        At(i) == s[month.start + i]
        index == MonthIndex(At(1), At(2), At(3))
        year == ConsumeLength(month, 4)
        hour == ConsumeWhitespace(ConsumeInteger(year))
        min == ConsumeLength(ConsumeInteger(hour), 1)
        sec == ConsumeLength(ConsumeInteger(min), 1)
    IN IF \/ Len(s) # kDateBufferLen
          \/ GetDataRemaining(month) < 4
          \/ index \notin 0..kMonthHashTableSize
          \/ kMonthHashTable[index + 1] >= 12
       THEN NoDate
       ELSE [mday |-> IntegerConsumed(day), mon |-> kMonthHashTable[index + 1],
             year |-> IntegerConsumed(year) - 1900,
             hour |-> IntegerConsumed(hour) + GMTOffset,
             min |-> IntegerConsumed(min), sec |-> IntegerConsumed(sec)]

MonthNames ==
    <<<<"J", "a", "n">>, <<"F", "e", "b">>, <<"M", "a", "r">>, <<"A", "p", "r">>,
      <<"M", "a", "y">>, <<"J", "u", "n">>, <<"J", "u", "l">>, <<"A", "u", "g">>,
      <<"S", "e", "p">>, <<"O", "c", "t">>, <<"N", "o", "v">>, <<"D", "e", "c">>>>

Decimal(n, width) ==
    [i \in 1..width |->
        <<"0", "1", "2", "3", "4", "5", "6", "7", "8", "9">>[((n \div 10 ^ (width - i)) % 10) + 1]]

\* UpdateDateBuffer(): strftime with "%a, %d %b %Y %H:%M:%S GMT".
UpdateDateBuffer(tm, weekday) ==
    weekday \o <<",", " ">> \o Decimal(tm.mday, 2) \o <<" ">> \o MonthNames[tm.mon + 1]
    \o <<" ">> \o Decimal(tm.year + 1900, 4) \o <<" ">> \o Decimal(tm.hour, 2) \o <<":">>
    \o Decimal(tm.min, 2) \o <<":">> \o Decimal(tm.sec, 2) \o <<" ", "G", "M", "T">>

\* DateBuffer::InexactUpdate(): the time of the last update after a call at now.
InexactUpdate(fLastDateUpdate, now) ==
    IF fLastDateUpdate = 0 \/ fLastDateUpdate + kUpdateInterval < now THEN now ELSE fLastDateUpdate
============================================================================
