-------------------------------- MODULE MD5 --------------------------------
(***************************************************************************)
(* CFBasic/md5.c: a message is handed over in pieces, gathered into blocks *)
(* and padded, and CFBasic/md5digest.cpp: what is digested for HTTP        *)
(* authentication and for stored passwords.  Bytes are numbers.  What the  *)
(* rounds of MD5Transform() compute of a block is a parameter.             *)
(***************************************************************************)
EXTENDS Integers, Sequences, SequencesExt

CONSTANTS
    BlockLen,              \* bytes of a block (64)
    WordLen,               \* bytes of a UInt32 (4)
    kHashLen,              \* bytes of a digest (16)
    Magic,                 \* the state that MD5_Init() loads
    Rounds(_, _),          \* the state after a block of words
    Repeats                \* how often MD5Encode() digests again (1000)

\* A count of bits that is a whole number of blocks must stay one when it overflows.
ASSUME MD5Assumption ==
    /\ {BlockLen, WordLen, kHashLen, Repeats} \subseteq Nat \ {0}
    /\ (256 ^ WordLen) % (8 * BlockLen) = 0 /\ 2 * WordLen < BlockLen /\ kHashLen % WordLen = 0

Word == 256 ^ WordLen

\* Words to bytes and back, the low byte first.
Encode(words) ==
    [i \in 1..(Len(words) * WordLen) |->
        (words[(i - 1) \div WordLen + 1] \div 256 ^ ((i - 1) % WordLen)) % 256]

Decode(bytes) ==
    [i \in 1..(Len(bytes) \div WordLen) |->
        FoldRight(LAMBDA b, w : b + 256 * w, SubSeq(bytes, (i - 1) * WordLen + 1, i * WordLen), 0)]

MD5Transform(state, block) == Rounds(state, Decode(block))

\* The buffer holds whatever was in memory.
MD5_Init == [count |-> <<0, 0>>, state |-> Magic, buffer |-> [i \in 1..BlockLen |-> 255]]

MD5_memcpy(buffer, index, bytes) ==
    [i \in 1..BlockLen |-> IF i \in (index + 1)..(index + Len(bytes)) THEN bytes[i - index] ELSE buffer[i]]

\* How many bytes are in the buffer.
Index(context) == (context.count[1] \div 8) % BlockLen

\* Two words count the bits.
AddBits(count, inputLen) ==
    LET bits == (8 * inputLen) % Word
        low == (count[1] + bits) % Word
    IN <<low, (count[2] + (IF low < bits THEN 1 ELSE 0) + (8 * inputLen) \div Word) % Word>>

\* Fill the buffer and transform it, transform whole blocks, buffer the rest.
MD5_Update(context, input) ==
    LET n == Len(input)
        index == Index(context)
        partLen == BlockLen - index
        whole == (n - partLen) \div BlockLen
        first == MD5_memcpy(context.buffer, index, SubSeq(input, 1, partLen))
        Block(k) == SubSeq(input, partLen + (k - 1) * BlockLen + 1, partLen + k * BlockLen)
        counted == [context EXCEPT !.count = AddBits(@, n)]
    IN IF n >= partLen
       THEN [counted EXCEPT
                !.state = FoldLeft(MD5Transform, MD5Transform(@, first), [k \in 1..whole |-> Block(k)]),
                !.buffer = MD5_memcpy(first, 0, SubSeq(input, partLen + whole * BlockLen + 1, n))]
       ELSE [counted EXCEPT !.buffer = MD5_memcpy(@, index, input)]

PADDING == [i \in 1..BlockLen |-> IF i = 1 THEN 128 ELSE 0]

\* Pad, append the length before padding, and give the state out as the digest.
MD5_Final(context) ==
    LET room == BlockLen - 2 * WordLen
        index == Index(context)
        padLen == IF index < room THEN room - index ELSE BlockLen + room - index
        padded == MD5_Update(context, SubSeq(PADDING, 1, padLen))
    IN Encode(MD5_Update(padded, Encode(context.count)).state)

Digest(pieces) == MD5_Final(FoldLeft(MD5_Update, MD5_Init, pieces))

----------------------------------------------------------------------------
(* md5digest.cpp *)

sColon == <<58>>
sMD5Sess == <<109, 100, 53, 45, 115, 101, 115, 115>>
sQopAuthInt == <<97, 117, 116, 104, 45, 105, 110, 116>>

HashToString(aHash) ==
    LET Digit(d) == IF d <= 9 THEN d + 48 ELSE d + 87
    IN [i \in 1..(2 * Len(aHash)) |->
           LET b == aHash[(i + 1) \div 2] IN Digit(IF i % 2 = 1 THEN b \div 16 ELSE b % 16)]

CalcMD5HA1(userName, realm, userPassword) ==
    Digest(<<userName, sColon, realm, sColon, userPassword>>)

CalcHA1Md5Sess(hashA1, nonce, cNonce) ==
    HashToString(Digest(<<hashA1, sColon, nonce, sColon, cNonce>>))

CalcHA1(algorithm, userName, realm, userPassword, nonce, cNonce) ==
    LET aHash == Digest(<<userName, sColon, realm, sColon, userPassword>>)
    IN HashToString(IF algorithm = sMD5Sess THEN Digest(<<aHash, sColon, nonce, sColon, cNonce>>) ELSE aHash)

\* "given" is whether there is a qop: a pointer that is not NULL.
CalcRequestDigest(hA1, nonce, nonceCount, cNonce, given, qop, method, digestUri, hEntity) ==
    LET a2 == <<method, sColon, digestUri>> \o (IF qop = sQopAuthInt THEN <<sColon, hEntity>> ELSE <<>>)
        hA2 == HashToString(Digest(a2))
        counted == IF given THEN <<nonceCount, sColon, cNonce, sColon, qop, sColon>> ELSE <<>>
    IN HashToString(Digest(<<hA1, sColon, nonce, sColon>> \o counted \o <<hA2>>))

dufr_id == <<36, 100, 117, 102, 114, 36>>

itoa64 == <<46, 47>> \o [i \in 1..10 |-> i + 47] \o [i \in 1..26 |-> i + 64] \o [i \in 1..26 |-> i + 96]

to64(v, n) == [i \in 1..n |-> itoa64[1 + ((v \div 64 ^ (i - 1)) % 64)]]

\* The salt of an encoded password, or of a plain one up to '$' or eight bytes.
Salt(salt) ==
    LET sp == IF IsPrefix(dufr_id, salt) THEN SubSeq(salt, Len(dufr_id) + 1, Len(salt)) ELSE salt
        dollar == SelectInSeq(sp, LAMBDA b : b = 36)
        limit == IF Len(sp) < 8 THEN Len(sp) ELSE 8
    IN SubSeq(sp, 1, IF dollar # 0 /\ dollar <= limit THEN dollar - 1 ELSE limit)

\* As many bytes of the hash as the password has, and one byte for each bit of its
\* length: the hash, which is zero by then, or the first of the password.
Stretched(pw, hash) ==
    LET Min16(n) == IF n > kHashLen THEN kHashLen ELSE n
        turns == (Len(pw) + kHashLen - 1) \div kHashLen
        bits == CHOOSE k \in 0..Len(pw) : 2 ^ k > Len(pw) /\ \A j \in 0..(k - 1) : 2 ^ j <= Len(pw)
    IN [k \in 1..turns |-> SubSeq(hash, 1, Min16(Len(pw) - (k - 1) * kHashLen))]
       \o [k \in 1..bits |-> IF (Len(pw) \div 2 ^ (k - 1)) % 2 = 1 THEN <<0>> ELSE <<pw[1]>>]

\* The hash once more, in turn i.
DigestAgain(pw, sp, hash, i) ==
    LET odd == i % 2 = 1 IN
    Digest(<<IF odd THEN pw ELSE hash>>
           \o (IF i % 3 # 0 THEN <<sp>> ELSE <<>>) \o (IF i % 7 # 0 THEN <<pw>> ELSE <<>>)
           \o <<IF odd THEN hash ELSE pw>>)

\* The bytes of the hash in groups of three, and the one that is left.
Letters64(hash) ==
    LET Group64(a, b, c) == to64(hash[a] * 65536 + hash[b] * 256 + hash[c], 4)
    IN Group64(1, 7, 13) \o Group64(2, 8, 14) \o Group64(3, 9, 15) \o Group64(4, 10, 16)
       \o Group64(5, 11, 6) \o to64(hash[12], 2)

\* The hash of a password and its salt.
PasswordHash(pw, sp) ==
    LET first == Digest(<<pw, dufr_id, sp>> \o Stretched(pw, Digest(<<pw, sp, pw>>)))
    IN FoldLeft(LAMBDA h, i : DigestAgain(pw, sp, h, i), first, [i \in 1..Repeats |-> i - 1])

\* strncpy(): at most nbytes - 1 bytes are copied to the result.
Copied(passwd, nbytes) == SubSeq(passwd, 1, IF Len(passwd) < nbytes THEN Len(passwd) ELSE nbytes - 1)

MD5Encode(pw, salt, nbytes) ==
    LET sp == Salt(salt) IN Copied(dufr_id \o sp \o <<36>> \o Letters64(PasswordHash(pw, sp)), nbytes)
============================================================================
