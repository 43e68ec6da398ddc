-------------------------- MODULE StringFormatter --------------------------
(***************************************************************************)
(* StringFormatter and ResizeableStringFormatter (CFCore) as operators on  *)
(* a formatter: the bytes from fStartPut to fCurrentPut, the size of the   *)
(* buffer, the count fBytesWritten, whether BufferIsFull() can enlarge the *)
(* buffer, and what the first buffer was left with when it was outgrown.   *)
(***************************************************************************)
EXTENDS Integers, Sequences, SequencesExt

CONSTANT FirstSize    \* size of the first buffer if there was none (64)

ASSUME FormatterAssumption == FirstSize \in Nat \ {0, 1}

\* original: what is in the buffer the formatter was made with, for as long as
\* that is the buffer.
Formatter(size, grows) ==
    [text |-> <<>>, size |-> size, written |-> 0, grows |-> grows, moved |-> FALSE, original |-> <<>>]

GetCurrentOffset(f) == Len(f.text)
GetSpaceLeft(f) == f.size - Len(f.text)

\* Reset(): fBytesWritten goes on counting.
Reset(f, inNumBytesToLeave) == [f EXCEPT !.text = SubSeq(@, 1, inNumBytesToLeave)]

\* BufferIsFull() doubles the buffer until need bytes leave one to spare.
Grown(size, need) ==
    LET Doubled[k \in 0..(need + FirstSize)] ==
            IF k = 0 THEN size
            ELSE IF Doubled[k - 1] = 0 THEN FirstSize ELSE 2 * Doubled[k - 1]
        k == CHOOSE n \in 0..(need + FirstSize) :
                Doubled[n] > need /\ \A m \in 0..(n - 1) : Doubled[m] <= need
    IN Doubled[k]

Added(f, s) == [f EXCEPT !.text = @ \o s, !.written = @ + Len(s)]

\* The buffer is left for a larger one.  What fitted into it was put there first.
MovedTo(f, s, size) ==
    [Added(f, s) EXCEPT !.size = size, !.moved = TRUE,
        !.original = IF f.moved THEN @ ELSE SubSeq(f.text \o s, 1, f.size)]

\* A single byte may take the last place of the buffer, a longer string leaves
\* it free: the string is cut, or the buffer grows.
Put(f, s) ==
    IF Len(s) = 1 /\ GetSpaceLeft(f) > 0 THEN Added(f, s)
    ELSE IF Len(s) < GetSpaceLeft(f) THEN Added(f, s)
    ELSE IF f.grows THEN MovedTo(f, s, Grown(f.size, Len(f.text) + Len(s)))
    ELSE IF GetSpaceLeft(f) = 0 THEN f
    ELSE Added(f, SubSeq(s, 1, GetSpaceLeft(f) - 1))

\* PutFmtStr() of a text s needs room for the terminator that vsnprintf writes.
\* It is not called on a full buffer that cannot grow, where the cut has length -1.
PutFmtStr(f, s) ==
    IF Len(s) < GetSpaceLeft(f) THEN Added(f, s)
    ELSE IF f.grows THEN MovedTo(f, s, Grown(f.size, Len(f.text) + Len(s)))
    ELSE Added(f, SubSeq(s, 1, GetSpaceLeft(f) - 1))

\* PutFilePath() with a delimiter between the two parts unless there is one.
PutFilePath(f, path, name) ==
    LET g == IF path = <<>> THEN f
             ELSE IF Last(path) = "/" THEN Put(f, path) ELSE Put(Put(f, path), <<"/">>)
    IN IF name = <<>> THEN g ELSE Put(g, name)
============================================================================
