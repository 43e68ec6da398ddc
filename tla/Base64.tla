------------------------------- MODULE Base64 ------------------------------
(***************************************************************************)
(* CFBasic/base64.c.  A plain byte is a number below 256, a coded one its  *)
(* place in basis_64, and Pad is '=' or any other byte that pr2six rejects.*)
(***************************************************************************)
EXTENDS Integers, Sequences, SequencesExt

Pad == 64

\* One to three bytes become four.
EncodeGroup(t) ==
    LET b(i) == IF i <= Len(t) THEN t[i] ELSE 0
    IN <<b(1) \div 4, (b(1) % 4) * 16 + b(2) \div 16>>
       \o (IF Len(t) = 1 THEN <<Pad>> ELSE <<(b(2) % 16) * 4 + b(3) \div 64>>)
       \o (IF Len(t) < 3 THEN <<Pad>> ELSE <<b(3) % 64>>)

Group(s, g, n) == SubSeq(s, n * g - n + 1, IF n * g < Len(s) THEN n * g ELSE Len(s))

Base64encode(string) ==
    FlattenSeq([g \in 1..((Len(string) + 2) \div 3) |-> EncodeGroup(Group(string, g, 3))])

\* nprbytes: how many bytes come before the first that is not in the alphabet.
nprbytes(coded) ==
    LET i == SelectInSeq(coded, LAMBDA c : c = Pad) IN IF i = 0 THEN Len(coded) ELSE i - 1

\* Two to four coded bytes become one to three; a single one is ignored.
DecodeGroup(t) ==
    (IF Len(t) > 1 THEN <<(t[1] * 4 + t[2] \div 16) % 256>> ELSE <<>>)
    \o (IF Len(t) > 2 THEN <<(t[2] * 16 + t[3] \div 4) % 256>> ELSE <<>>)
    \o (IF Len(t) > 3 THEN <<(t[3] * 64 + t[4]) % 256>> ELSE <<>>)

Base64decode(coded) ==
    LET s == SubSeq(coded, 1, nprbytes(coded))
    IN FlattenSeq([g \in 1..((Len(s) + 3) \div 4) |-> DecodeGroup(Group(s, g, 4))])

\* The length that Base64decode() returns.
nbytesdecoded(coded) ==
    LET n == nprbytes(coded) IN ((n + 3) \div 4) * 3 - ((4 - n) % 4)
============================================================================
