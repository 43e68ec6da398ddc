-------------------------------- MODULE Utils ------------------------------
(***************************************************************************)
(* Utils (CFCore/Utils.cpp): the byte order of a 64 bit integer, and the   *)
(* directories of a path.                                                  *)
(***************************************************************************)
EXTENDS Integers, Sequences, SequencesExt

\* A SInt64 is its eight bytes, the low one first.  Shifted to the left by 8 * n, or
\* to the right by -8 * n, which fills up with the sign.
Shifted(bytes, n) ==
    LET sign == IF bytes[8] >= 128 THEN 255 ELSE 0
    IN [i \in 1..8 |-> IF i - n \in 1..8 THEN bytes[i - n] ELSE IF n < 0 THEN sign ELSE 0]

\* Each term of the disjunction is one byte, masked out of a shifted integer; the
\* first is not masked.
Swapped(bytes) ==
    LET Term(i) == Shifted(bytes, 2 * i - 9)[i]
    IN [i \in 1..8 |-> Term(i)]

HostToNetworkSInt64(hostOrdered) == Swapped(hostOrdered)
NetworkToHostSInt64(networkOrdered) == Swapped(networkOrdered)

----------------------------------------------------------------------------
(* A file system: its directories and files, each a path.  The empty path  *)
(* is the root, which is always there.                                     *)

\* mkdir() and stat() need the directory that holds the name.
MakeDir(fs, inPath) ==
    IF inPath \in fs.dirs THEN [fs |-> fs, error |-> "OS_NoErr"]
    ELSE IF inPath \in fs.files THEN [fs |-> fs, error |-> "EEXIST"]
    ELSE IF Front(inPath) \in fs.dirs THEN [fs |-> [fs EXCEPT !.dirs = @ \cup {inPath}], error |-> "OS_NoErr"]
    ELSE [fs |-> fs, error |-> "ENOENT"]

\* The path up to each '/' but the first, and the whole path.
RecursiveMakeDir(fs, inPath) ==
    FoldLeft(LAMBDA r, n : IF r.error = "OS_NoErr" THEN MakeDir(r.fs, SubSeq(inPath, 1, n)) ELSE r,
             [fs |-> fs, error |-> "OS_NoErr"], [n \in 1..Len(inPath) |-> n])

----------------------------------------------------------------------------
(***************************************************************************)
(* SocketUtils (CFSocket): the addresses of this machine, read once from   *)
(* the kernel, and the open addresses that stand for them behind a NAT.    *)
(* An address is the sequence of its four bytes.  A network interface has  *)
(* an address (inet says whether it is one of the AF_INET family), is up   *)
(* or not, and may be gone by the time its flags are asked for.            *)
(***************************************************************************)

LocalHost == <<127, 0, 0, 1>>
NoAddr == <<0, 0, 0, 0>>

\* The first walk over the interfaces counts those that are up, and takes the name
\* away from those that are down.  One that is gone is not counted and keeps it.
Counted(ifr) == ~ifr.gone /\ ifr.up /\ ifr.inet
Named(ifr) == ifr.gone \/ ifr.up

\* A DNS name is stored with an address, or the address itself if there is none.
DNSName(dns, addr) == IF addr \in DOMAIN dns THEN dns[addr] ELSE addr

\* If the loopback interface is the first, it changes places with the second.
LoopbackSecond(array) ==
    IF Len(array) > 1 /\ array[1].fIPAddr = LocalHost
    THEN [array EXCEPT ![1] = array[2], ![2] = array[1]] ELSE array

\* Initialize(): the second walk stores what still has a name in an array that has
\* room for sNumIPAddrs; it does not look for the end of it.
Initialize(interfaces, dns) ==
    LET sNumIPAddrs == Len(SelectSeq(interfaces, Counted))
        stored == SelectSeq(interfaces, LAMBDA ifr : Named(ifr) /\ ifr.inet)
        info == [i \in 1..Len(stored) |->
                    [fIPAddr |-> stored[i].addr, fDNSName |-> DNSName(dns, stored[i].addr)]]
    IN [array |-> LoopbackSecond(SubSeq(info, 1, sNumIPAddrs)), overrun |-> Len(info) - sNumIPAddrs]

\* inet_aton() of a string; NoAddr stands for what it leaves if it fails.
inet_aton(atoms, s) == IF s \in DOMAIN atoms THEN atoms[s] ELSE NoAddr

\* SetOpenIPAddrs(): "public:private", or "public" for the first local address.  The
\* arrays are replaced as a whole.
SetOpenIPAddrs(array, atoms, pairs) ==
    LET Colon(s) == SelectInSeq(s, LAMBDA c : c = ":")
        Public(s) == IF Colon(s) = 0 THEN s ELSE SubSeq(s, 1, Colon(s) - 1)
        Private(s) == IF Colon(s) = 0 THEN <<>> ELSE SubSeq(s, Colon(s) + 1, Len(s))
    IN [i \in 1..Len(pairs) |->
           [fIPAddr |-> inet_aton(atoms, Public(pairs[i])),
            fLocalIPAddr |-> IF Private(pairs[i]) # <<>> THEN inet_aton(atoms, Private(pairs[i]))
                             ELSE array[1].fIPAddr]]

\* The first open address that is this one gives the local one; it returns whether
\* there is one.
ConvertToLocalAddr(open, addr) ==
    LET i == SelectInSeq(open, LAMBDA o : o.fIPAddr = addr)
    IN IF i = 0 THEN addr ELSE open[i].fLocalIPAddr

IsLocalIPAddr(array, open, addr) ==
    \/ \E i \in DOMAIN open : open[i].fIPAddr = addr
    \/ \E i \in DOMAIN array : array[i].fIPAddr = addr

\* Class D.
IsMulticastIPAddr(addr) == addr[1] \div 16 = 14

\* Socket::GetLocalAddrStr() and GetLocalDNSStr() of a bound socket, null if the
\* address is none of this machine's.
GetLocalAddrStr(array, addr) ==
    IF \E i \in DOMAIN array : array[i].fIPAddr = addr THEN addr ELSE NoAddr
GetLocalDNSStr(array, addr) ==
    LET i == SelectInSeq(array, LAMBDA a : a.fIPAddr = addr)
    IN IF i = 0 THEN GetLocalAddrStr(array, addr) ELSE array[i].fDNSName
============================================================================
