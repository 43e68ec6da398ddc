----------------------------- MODULE CoreProofs ----------------------------
(***************************************************************************)
(* Proofs about the table of references and the server, for any objects,   *)
(* users and sessions.                                                     *)
(***************************************************************************)
EXTENDS RefTable, Server, FiniteSetTheorems, TLAPS

----------------------------------------------------------------------------
(* RefTable: chains.  A chain without repetitions is what Unlink is used on. *)

NoRepeats(chain) == \A j, k \in DOMAIN chain : fString[chain[j]] = fString[chain[k]] => j = k

\* Unlink takes r out of a chain and keeps the others in order.
LEMMA UnlinkKeepsOthers ==
    ASSUME NEW chain \in Seq(Refs), NEW r \in Refs, NoRepeats(chain)
    PROVE  /\ Unlink(chain, r) \in Seq(Refs)
           /\ NoRepeats(Unlink(chain, r))
           /\ \A j \in DOMAIN Unlink(chain, r) :
                 Unlink(chain, r)[j] # r /\ \E k \in DOMAIN chain : chain[k] = Unlink(chain, r)[j]
<1>1. CASE Places(chain, r) = {}
  BY <1>1 DEF Unlink, Places
<1>2. CASE Places(chain, r) # {}
  <2>1. PICK k \in Places(chain, r) : TRUE
    BY <1>2
  <2>2. k \in 1 .. Len(chain) /\ chain[k] = r /\ \A j \in 1 .. Len(chain) : chain[j] = r => j = k
    BY <2>1 DEF Places, NoRepeats
  <2>3. Places(chain, r) = {k}
    BY <2>2 DEF Places
  <2>4. k = CHOOSE l \in Places(chain, r) : \A j \in Places(chain, r) : l <= j
    BY <2>2, <2>3
  <2> DEFINE rest == [j \in 1 .. Len(chain) - 1 |-> IF j < k THEN chain[j] ELSE chain[j + 1]]
  <2>5. Unlink(chain, r) = rest
    BY <1>2, <2>4 DEF Unlink
  <2>6. Len(chain) \in Nat /\ Len(chain) - 1 \in Nat /\ DOMAIN rest = 1 .. Len(chain) - 1
    BY <2>2
  <2>7. \A j \in 1 .. Len(chain) - 1 : rest[j] \in Refs
    BY <2>2, <2>6
  <2>8. rest \in Seq(Refs)
    BY <2>6, <2>7
  <2>9. \A j \in DOMAIN rest : rest[j] # r /\ \E l \in DOMAIN chain : chain[l] = rest[j]
    <3> SUFFICES ASSUME NEW j \in 1 .. Len(chain) - 1
                 PROVE  rest[j] # r /\ \E l \in DOMAIN chain : chain[l] = rest[j]
      BY <2>6
    <3>1. CASE j < k
      BY <2>2, <2>6, <3>1
    <3>2. CASE ~(j < k)
      BY <2>2, <2>6, <3>2
    <3> QED
      BY <3>1, <3>2
  <2>10. NoRepeats(rest)
    BY <2>2, <2>6 DEF NoRepeats
  <2> QED
    BY <2>5, <2>8, <2>9, <2>10
<1> QED
  BY <1>1, <1>2

\* A Ref that is not a repetition goes in front.
LEMMA AddInFront ==
    ASSUME NEW chain \in Seq(Refs), NEW r \in Refs, NoRepeats(chain),
           \A k \in DOMAIN chain : fString[chain[k]] # fString[r]
    PROVE  /\ <<r>> \o chain \in Seq(Refs)
           /\ NoRepeats(<<r>> \o chain)
           /\ \A j \in DOMAIN (<<r>> \o chain) :
                 \/ (<<r>> \o chain)[j] = r
                 \/ \E k \in DOMAIN chain : chain[k] = (<<r>> \o chain)[j]
  BY DEF NoRepeats

----------------------------------------------------------------------------
(* RefTable: the table, as a set of members *)

Sound(table) ==
    /\ table \in [Indices -> Seq(Refs)]
    /\ \A i \in Indices : /\ NoRepeats(table[i])
                          /\ \A k \in DOMAIN table[i] : IndexOf(table[i][k]) = i

Members(table) == {r \in Refs : \E k \in DOMAIN table[IndexOf(r)] : table[IndexOf(r)][k] = r}

LEMMA IndexType == \A r \in Refs : IndexOf(r) \in Indices /\ fString[r] \in Keys
  BY RefAssumption DEF IndexOf

LEMMA SoundTable == RefTypeOK => (KeysUnique <=> Sound(fHashTable))
  BY DEF RefTypeOK, KeysUnique, Sound, NoRepeats

LEMMA MembersInTable == \A r \in Refs : InTable(r) <=> r \in Members(fHashTable)
  BY DEF InTable, Chained, Members

LEMMA AddSound ==
    ASSUME NEW table, Sound(table), NEW r \in Refs,
           \A q \in Members(table) : fString[q] # fString[r]
    PROVE  Sound(Add(table, r)) /\ Members(Add(table, r)) \subseteq Members(table) \cup {r}
<1> DEFINE i == IndexOf(r)
           new == Add(table, r)
<1>1. i \in Indices /\ table[i] \in Seq(Refs) /\ NoRepeats(table[i])
  BY IndexType DEF Sound
<1>2. \A k \in DOMAIN table[i] : table[i][k] \in Refs /\ IndexOf(table[i][k]) = i
  BY <1>1 DEF Sound
<1>3. \A k \in DOMAIN table[i] : table[i][k] \in Members(table)
  BY <1>2 DEF Members
<1>4. \A k \in DOMAIN table[i] : fString[table[i][k]] # fString[r]
  BY <1>3
<1>5. /\ <<r>> \o table[i] \in Seq(Refs)
      /\ NoRepeats(<<r>> \o table[i])
      /\ \A j \in DOMAIN (<<r>> \o table[i]) :
            \/ (<<r>> \o table[i])[j] = r
            \/ \E k \in DOMAIN table[i] : table[i][k] = (<<r>> \o table[i])[j]
  BY <1>1, <1>4, AddInFront
<1>6. /\ new[i] = <<r>> \o table[i] /\ \A j \in Indices \ {i} : new[j] = table[j]
      /\ new \in [Indices -> Seq(Refs)]
  BY <1>1, <1>5 DEF Sound, Add
<1>7. \A k \in DOMAIN new[i] : IndexOf(new[i][k]) = i
  BY <1>2, <1>5, <1>6
<1>8. Sound(new)
  BY <1>5, <1>6, <1>7 DEF Sound
<1>9. ASSUME NEW q \in Members(new), q # r PROVE q \in Members(table)
  <2>1. CASE IndexOf(q) = i
    <3>1. PICK j \in DOMAIN new[i] : new[i][j] = q
      BY <2>1 DEF Members
    <3>2. \E k \in DOMAIN table[i] : table[i][k] = new[i][j]
      BY <1>5, <1>6, <1>9, <3>1
    <3> QED
      BY <1>3, <3>1, <3>2
  <2>2. CASE IndexOf(q) # i
    BY <1>6, <1>9, <2>2, IndexType DEF Members
  <2> QED
    BY <2>1, <2>2
<1> QED
  BY <1>8, <1>9

LEMMA RemoveSound ==
    ASSUME NEW table, Sound(table), NEW r \in Refs
    PROVE  Sound(Remove(table, r)) /\ Members(Remove(table, r)) \subseteq Members(table) \ {r}
<1> DEFINE i == IndexOf(r)
           new == Remove(table, r)
           chain == Unlink(table[i], r)
<1>1. i \in Indices /\ table[i] \in Seq(Refs) /\ NoRepeats(table[i])
  BY IndexType DEF Sound
<1>2. \A k \in DOMAIN table[i] : table[i][k] \in Refs /\ IndexOf(table[i][k]) = i
  BY <1>1 DEF Sound
<1>3. \A k \in DOMAIN table[i] : table[i][k] \in Members(table)
  BY <1>2 DEF Members
<1>5. /\ chain \in Seq(Refs) /\ NoRepeats(chain)
      /\ \A j \in DOMAIN chain : chain[j] # r /\ \E k \in DOMAIN table[i] : table[i][k] = chain[j]
  BY <1>1, UnlinkKeepsOthers
<1>6. /\ new[i] = chain /\ \A j \in Indices \ {i} : new[j] = table[j]
      /\ new \in [Indices -> Seq(Refs)]
  BY <1>1, <1>5 DEF Sound, Remove
<1>7. \A k \in DOMAIN new[i] : IndexOf(new[i][k]) = i
  BY <1>2, <1>5, <1>6
<1>8. Sound(new)
  BY <1>5, <1>6, <1>7 DEF Sound
<1>9. ASSUME NEW q \in Members(new) PROVE q \in Members(table) /\ q # r
  <2>1. CASE IndexOf(q) = i
    BY <1>3, <1>5, <1>6, <1>9, <2>1 DEF Members
  <2>2. CASE IndexOf(q) # i
    BY <1>6, <1>9, <2>2, IndexType DEF Members
  <2> QED
    BY <2>1, <2>2
<1> QED
  BY <1>8, <1>9

\* Map finds the one member with the key, or there is none.
LEMMA MapFinds ==
    ASSUME Sound(fHashTable), NEW key \in Keys
    PROVE  IF Map(key) = NoRef THEN \A q \in Members(fHashTable) : fString[q] # key
           ELSE /\ Map(key) \in Members(fHashTable) /\ fString[Map(key)] = key
                /\ \A q \in Members(fHashTable) : fString[q] = key => q = Map(key)
<1> DEFINE i == Hash[key]
           chain == fHashTable[i]
           match == {k \in DOMAIN chain : fString[chain[k]] = key}
<1>1. i \in Indices /\ chain \in Seq(Refs) /\ NoRepeats(chain)
  BY RefAssumption DEF Sound
<1>2. \A k \in DOMAIN chain : chain[k] \in Refs /\ IndexOf(chain[k]) = i
  BY <1>1 DEF Sound
<1>3. \A k \in DOMAIN chain : chain[k] \in Members(fHashTable) /\ chain[k] # NoRef
  BY <1>2, RefAssumption DEF Members
<1>4. \A q \in Members(fHashTable) : fString[q] = key => \E k \in match : chain[k] = q
  BY DEF Members, IndexOf
<1>5. CASE match = {}
  BY <1>4, <1>5 DEF Map
<1>6. CASE match # {}
  <2>1. PICK k \in match : TRUE
    BY <1>6
  <2>2. match = {k}
    BY <1>1, <2>1 DEF NoRepeats
  <2>3. k \in Nat
    BY <1>1, <2>1
  <2>4. k = CHOOSE l \in match : \A j \in match : l <= j
    BY <2>2, <2>3
  <2>5. Map(key) = chain[k]
    BY <1>6, <2>4 DEF Map
  <2> QED
    BY <1>3, <1>4, <2>1, <2>2, <2>5
<1> QED
  BY <1>5, <1>6

----------------------------------------------------------------------------
(* RefTable: the inductive invariant.  SafeWhileHeld needs the exact counts *)
(* when an owner takes its Ref out, and members that are alive when a user  *)
(* resolves; the counts need SafeWhileHeld when a place is used again.      *)

RefInv == TableConsistent /\ SafeWhileHeld

LEMMA UsersCounted ==
    \A S \in SUBSET RefUsers : Cardinality(S) \in Nat /\ (Cardinality(S) = 0 <=> S = {})
  BY RefAssumption, FS_Subset, FS_CardinalityType, FS_EmptySet

LEMMA OneUserMore ==
    ASSUME NEW S \in SUBSET RefUsers, NEW u \in RefUsers, u \notin S
    PROVE  Cardinality(S \cup {u}) = Cardinality(S) + 1
  BY RefAssumption, FS_Subset, FS_AddElement

LEMMA OneUserLess ==
    ASSUME NEW S \in SUBSET RefUsers, NEW u \in S
    PROVE  Cardinality(S \ {u}) = Cardinality(S) - 1
  BY RefAssumption, FS_Subset, FS_RemoveElement

LEMMA RefInvInit == RefInit => RefInv
<1> SUFFICES ASSUME RefInit PROVE RefInv
  OBVIOUS
<1>1. RefTypeOK
  BY DEF RefInit, RefTypeOK
<1>2. \A r \in Refs : UsersOf(r) = {}
  BY RefAssumption DEF RefInit, UsersOf
<1>3. CountExact
  BY <1>2, FS_EmptySet DEF RefInit, CountExact
<1>4. \A i \in Indices : DOMAIN fHashTable[i] = {}
  BY DEF RefInit
<1>5. KeysUnique /\ TableAlive /\ SafeWhileHeld
  BY <1>4, IndexType DEF RefInit, KeysUnique, TableAlive, InTable, Chained, SafeWhileHeld
<1> QED
  BY <1>1, <1>3, <1>5 DEF RefInv, TableConsistent

\* Nobody uses a Ref whose count is zero.
LEMMA UnusedRef == RefInv => \A r \in Refs : fRefCount[r] = 0 => UsersOf(r) = {}
  BY UsersCounted DEF RefInv, TableConsistent, CountExact, UsersOf

\* The counts do not depend on the table or the owners.
LEMMA CountsKept == CountExact /\ UNCHANGED <<fRefCount, held>> => CountExact'
  BY DEF CountExact, UsersOf

\* The facts about the table for the proofs of the actions.
LEMMA TableFacts ==
    ASSUME RefInv
    PROVE  /\ RefTypeOK /\ Sound(fHashTable) /\ CountExact /\ SafeWhileHeld
           /\ \A r \in Members(fHashTable) : r \in Refs /\ owner[r] \notin {"new", "gone"}
  BY SoundTable, MembersInTable DEF RefInv, TableConsistent, TableAlive, Members

LEMMA TableGoal ==
    ASSUME RefTypeOK', Sound(fHashTable'), CountExact', SafeWhileHeld',
           \A r \in Members(fHashTable') : owner'[r] \notin {"new", "gone"}
    PROVE  RefInv'
<1>1. KeysUnique'
  BY DEF RefTypeOK, KeysUnique, Sound, NoRepeats
<1>2. TableAlive'
  BY DEF TableAlive, InTable, Chained, Members
<1> QED
  BY <1>1, <1>2 DEF RefInv, TableConsistent

\* An owner takes out a Ref that nobody uses.
LEMMA TakeOutStep ==
    ASSUME RefInv, NEW r \in Refs, fRefCount[r] = 0, TakeOut(r), UNCHANGED <<fRefCount, held>>
    PROVE  RefInv'
<1>1. Sound(fHashTable') /\ Members(fHashTable') \subseteq Members(fHashTable) \ {r}
  BY TableFacts, RemoveSound DEF TakeOut
<1>2. RefTypeOK'
  BY <1>1, TableFacts DEF RefTypeOK, Sound, TakeOut
<1>3. \A q \in Members(fHashTable') : owner'[q] \notin {"new", "gone"}
  BY <1>1, TableFacts DEF RefTypeOK, TakeOut
<1>4. SafeWhileHeld'
  BY TableFacts, UnusedRef DEF RefTypeOK, SafeWhileHeld, TakeOut, UsersOf
<1> QED
  BY <1>1, <1>2, <1>3, <1>4, TableFacts, CountsKept, TableGoal

\* A new Ref enters the table.
LEMMA EnterStep ==
    ASSUME RefInv, NEW r \in Refs, owner[r] = "new", UNCHANGED <<fRefCount, held>>,
           owner' = [owner EXCEPT ![r] = "registered"],
           Sound(fHashTable'), Members(fHashTable') \subseteq Members(fHashTable) \cup {r}
    PROVE  RefInv'
<1>1. RefTypeOK'
  BY TableFacts DEF RefTypeOK, Sound
<1>2. \A q \in Members(fHashTable') : owner'[q] \notin {"new", "gone"}
  BY TableFacts DEF RefTypeOK
<1>3. SafeWhileHeld'
  BY TableFacts DEF RefTypeOK, SafeWhileHeld
<1> QED
  BY <1>1, <1>2, <1>3, TableFacts, CountsKept, TableGoal

\* An owner waits, or stops to wait.
LEMMA WaitStep ==
    ASSUME RefInv, NEW r \in Refs, owner[r] \in {"registered", "asleep", "awake"},
           NEW s \in {"asleep", "awake"}, owner' = [owner EXCEPT ![r] = s],
           UNCHANGED <<fHashTable, fRefCount, held>>
    PROVE  RefInv'
<1>1. RefTypeOK' /\ SafeWhileHeld'
  BY TableFacts DEF RefTypeOK, SafeWhileHeld
<1>2. \A q \in Members(fHashTable') : owner'[q] \notin {"new", "gone"}
  BY TableFacts DEF RefTypeOK
<1> QED
  BY <1>1, <1>2, TableFacts, CountsKept, TableGoal

\* A user gets hold of a member.
LEMMA UseStep ==
    ASSUME RefInv, NEW u \in RefUsers, held[u] = NoRef, NEW r \in Members(fHashTable), Use(u, r),
           UNCHANGED <<fHashTable, owner>>
    PROVE  RefInv'
<1>0. r \in Refs /\ owner[r] \notin {"new", "gone"}
  BY TableFacts
<1>1. RefTypeOK' /\ SafeWhileHeld'
  BY <1>0, TableFacts DEF RefTypeOK, SafeWhileHeld, Use
<1>2. UsersOf(r)' = UsersOf(r) \cup {u} /\ u \notin UsersOf(r) /\ UsersOf(r) \in SUBSET RefUsers
  BY <1>0, TableFacts, RefAssumption DEF RefTypeOK, UsersOf, Use
<1>3. \A q \in Refs \ {r} : UsersOf(q)' = UsersOf(q)
  BY <1>0, TableFacts, RefAssumption DEF RefTypeOK, UsersOf, Use
<1>4. fRefCount'[r] = fRefCount[r] + 1 /\ \A q \in Refs \ {r} : fRefCount'[q] = fRefCount[q]
  BY <1>0, TableFacts DEF RefTypeOK, Use
<1>5. CountExact'
  BY <1>0, <1>2, <1>3, <1>4, TableFacts, OneUserMore DEF CountExact
<1> QED
  BY <1>1, <1>5, TableFacts, TableGoal

LEMMA ReleaseStep ==
    ASSUME RefInv, NEW u \in RefUsers, Release(u)
    PROVE  RefInv'
<1>0. PICK r \in Refs : held[u] = r
  BY TableFacts DEF Release, RefTypeOK
<1>1. UsersOf(r)' = UsersOf(r) \ {u} /\ u \in UsersOf(r) /\ UsersOf(r) \in SUBSET RefUsers
  BY <1>0, TableFacts, RefAssumption DEF RefTypeOK, UsersOf, Release
<1>2. \A q \in Refs \ {r} : UsersOf(q)' = UsersOf(q)
  BY <1>0, TableFacts, RefAssumption DEF RefTypeOK, UsersOf, Release
<1>3. fRefCount'[r] = fRefCount[r] - 1 /\ \A q \in Refs \ {r} : fRefCount'[q] = fRefCount[q]
  BY <1>0, TableFacts DEF RefTypeOK, Release
<1>4. fRefCount[r] # 0 /\ fRefCount[r] \in Nat
  BY <1>0, <1>1, UnusedRef, TableFacts DEF RefTypeOK
<1>5. CountExact'
  BY <1>0, <1>1, <1>2, <1>3, TableFacts, OneUserLess DEF CountExact
<1>6. RefTypeOK' /\ SafeWhileHeld'
  BY <1>0, <1>4, TableFacts DEF RefTypeOK, SafeWhileHeld, Release
<1>7. \A q \in Members(fHashTable') : owner'[q] \notin {"new", "gone"}
  BY <1>0, TableFacts DEF RefTypeOK, Release
<1>8. fHashTable' = fHashTable
  BY DEF Release
<1> QED
  BY <1>5, <1>6, <1>7, <1>8, TableFacts, TableGoal

LEMMA RefStep == RefInv /\ [RefNext]_refVars => RefInv'
<1> SUFFICES ASSUME RefInv, [RefNext]_refVars PROVE RefInv'
  OBVIOUS
<1>0. Sound(fHashTable) /\ \A r \in Refs : fString[r] \in Keys /\ fRefCount[r] \in Nat
  BY TableFacts, IndexType DEF RefTypeOK
<1>1. ASSUME NEW r \in Refs, Register(r) PROVE RefInv'
  <2>1. CASE Map(fString[r]) = NoRef
    <3>1. Sound(Add(fHashTable, r)) /\ Members(Add(fHashTable, r)) \subseteq Members(fHashTable) \cup {r}
      BY <1>0, <2>1, MapFinds, AddSound
    <3> QED
      BY <1>1, <2>1, <3>1, EnterStep DEF Register
  <2>2. CASE Map(fString[r]) # NoRef
    BY <1>0, <1>1, <2>2, EnterStep DEF Register
  <2> QED
    BY <2>1, <2>2
<1>2. ASSUME NEW r \in Refs, UnRegister(r) \/ RetryUnRegister(r) \/ TryUnRegister(r) PROVE RefInv'
  <2>1. CASE fRefCount[r] > 0
    BY <1>0, <1>2, <2>1, WaitStep DEF UnRegister, RetryUnRegister, TryUnRegister
  <2>2. CASE ~(fRefCount[r] > 0)
    BY <1>0, <1>2, <2>2, TakeOutStep DEF UnRegister, RetryUnRegister, TryUnRegister
  <2> QED
    BY <2>1, <2>2
<1>3. ASSUME NEW r \in Refs, Swap(r) PROVE RefInv'
  <2> DEFINE old == Map(fString[r])
             rest == Remove(fHashTable, old)
  <2>1. /\ old \in Members(fHashTable) /\ old \in Refs
        /\ \A q \in Members(fHashTable) : fString[q] = fString[r] => q = old
    BY <1>0, <1>3, MapFinds DEF Swap, Members
  <2>2. Sound(rest) /\ Members(rest) \subseteq Members(fHashTable) \ {old}
    BY <1>0, <2>1, RemoveSound
  <2>3. Sound(Add(rest, r)) /\ Members(Add(rest, r)) \subseteq Members(rest) \cup {r}
    BY <2>1, <2>2, AddSound
  <2> QED
    BY <1>3, <2>2, <2>3, EnterStep DEF Swap
<1>4. ASSUME NEW r \in Refs, SpuriousWakeup(r) PROVE RefInv'
  BY <1>4, WaitStep DEF SpuriousWakeup
<1>5. ASSUME NEW r \in Refs, Create(r) PROVE RefInv'
  <2>1. UsersOf(r) = {} /\ \A q \in Refs : UsersOf(q)' = UsersOf(q)
    BY <1>5, TableFacts, RefAssumption DEF Create, UsersOf, SafeWhileHeld
  <2>2. CountExact'
    BY <1>5, <2>1, TableFacts, FS_EmptySet DEF Create, CountExact, RefTypeOK
  <2>3. RefTypeOK' /\ SafeWhileHeld'
    BY <1>5, <2>1, TableFacts DEF RefTypeOK, SafeWhileHeld, Create, UsersOf
  <2>4. \A q \in Members(fHashTable') : owner'[q] \notin {"new", "gone"}
    BY <1>5, TableFacts DEF RefTypeOK, Create
  <2> QED
    BY <1>0, <1>5, <2>2, <2>3, <2>4, TableGoal DEF Create
<1>6. ASSUME NEW u \in RefUsers, Release(u) PROVE RefInv'
  BY <1>6, ReleaseStep
<1>7. ASSUME NEW u \in RefUsers, NEW key \in Keys, Resolve(u, key) PROVE RefInv'
  BY <1>0, <1>7, MapFinds, UseStep DEF Resolve
<1>8. ASSUME NEW u \in RefUsers, NEW r \in Refs, RegisterOrResolve(u, r) PROVE RefInv'
  <2>1. CASE Map(fString[r]) # NoRef
    BY <1>0, <1>8, <2>1, MapFinds, UseStep DEF RegisterOrResolve
  <2>2. CASE Map(fString[r]) = NoRef
    <3>1. Sound(Add(fHashTable, r)) /\ Members(Add(fHashTable, r)) \subseteq Members(fHashTable) \cup {r}
      BY <1>0, <2>2, MapFinds, AddSound
    <3> QED
      BY <1>8, <2>2, <3>1, EnterStep DEF RegisterOrResolve
  <2> QED
    BY <2>1, <2>2
<1>9. CASE UNCHANGED refVars
  BY <1>9 DEF refVars, RefInv, TableConsistent, RefTypeOK, CountExact, UsersOf, KeysUnique, TableAlive,
              InTable, Chained, SafeWhileHeld
<1> QED
  BY <1>1, <1>2, <1>3, <1>4, <1>5, <1>6, <1>7, <1>8, <1>9 DEF RefNext

\* "Once the Ref is resolved, it is safe to use until you call Release", for
\* any number of objects, users and slots and any keys that collide.
THEOREM ResolvedIsSafe == RefSpec => []SafeWhileHeld
<1>1. RefInv => SafeWhileHeld
  BY DEF RefInv
<1> QED
  BY <1>1, RefInvInit, RefStep, PTL DEF RefSpec

\* Counts, chains and owners of the RefTable agree through Register, Resolve,
\* Swap, UnRegister and Release in any order.
THEOREM TableIsConsistent == RefSpec => []TableConsistent
<1>1. RefInv => TableConsistent
  BY DEF RefInv
<1> QED
  BY <1>1, RefInvInit, RefStep, PTL DEF RefSpec

----------------------------------------------------------------------------
(* Server.  OnlyLateRegistered needs the meaning of the flags: from step 2  *)
(* on kDisableEvent stays set, and the two flags of WaitProcessState() are  *)
(* set only while CFMain() waits for them.  Once kDisableEvent is set, no   *)
(* first request is past its test but the late ones, so that the table      *)
(* grows by late contexts only; what else was in it when the clean-up began *)
(* is listed, and gone when it ends.                                        *)

Contexts == Sessions \cup {Listener}

Watches == [Contexts -> {"never", "armed", "fired", "removed", "closed"}]
SessionStates == [Sessions -> {"free", "new", "open", "signalled", "asking"}]

ServerTypes == watch \in Watches /\ session \in SessionStates /\ accepted \in Sessions \cup {NoEvent}

FlagsKept ==
    /\ mainStep \in {"disabled", "cleaning"} \/ CleanDone => "kDisableEvent" \in sState
    /\ "kCleanEvent" \in sState => mainStep \in {"cleaning", "exited"} /\ "kDisableEvent" \in sState
    /\ "kKillListener" \in sState => mainStep \in {"killing", "exited"}

\* First requests past their test of kDisableEvent.
FirstRequests == {s \in Sessions : session[s] = "asking" /\ watch[s] = "never"}

RequestsLate == "kDisableEvent" \in sState => FirstRequests \subseteq late

CleanListed == loop = "clean" => "kCleanEvent" \in sState /\ Registered \subseteq listed \cup late

ServerInv == ServerTypes /\ FlagsKept /\ RequestsLate /\ CleanListed /\ OnlyLateRegistered

LEMMA ServerInvInit == ServerInit => ServerInv
<1> SUFFICES ASSUME ServerInit PROVE ServerInv
  OBVIOUS
<1>1. ServerTypes
  BY DEF ServerInit, ServerState, ServerTypes, Contexts, Watches, SessionStates
<1>2. FlagsKept /\ RequestsLate /\ CleanListed /\ OnlyLateRegistered
  BY DEF ServerInit, ServerState, FlagsKept, RequestsLate, CleanListed, OnlyLateRegistered, CleanDone
<1> QED
  BY <1>1, <1>2 DEF ServerInv

\* What the operations of EventContext make of well-formed watches.
LEMMA WatchesKept ==
    ASSUME NEW w \in Watches, NEW c
    PROVE  /\ Watched(w, c) \in Watches
           /\ Requested(w, c) \in Watches
           /\ Removed(w, c) \in Watches
           /\ CleanedUp(w, c) \in Watches
           /\ Fired(w, c) \in Watches
  BY DEF Watched, Requested, Removed, CleanedUp, Fired, Watches

LEMMA FreshKept ==
    ASSUME NEW w \in Watches, NEW outcome
    PROVE  /\ Fresh(w, outcome) \in Watches
           /\ \A x \in Contexts : Fresh(w, outcome)[x] \in {w[x], "never", "closed"}
           /\ \A x \in Contexts : Fresh(w, outcome)[x] = w[x] \/ (x = NewSession /\ ~NoSession(outcome))
  BY DEF Fresh, Watches

\* A new session object was free.
LEMMA NewSessionIsFree ==
    ASSUME NEW outcome, ~NoSession(outcome)
    PROVE  NewSession \in Sessions /\ session[NewSession] = "free"
<1>1. NewSession # NoEvent
  BY DEF NoSession
<1> QED
  BY <1>1, Zenon DEF NewSession

\* With kDisableEvent set the calls that test it do nothing.
LEMMA DisabledCalls ==
    ASSUME NEW w, NEW c, "kDisableEvent" \in sState
    PROVE  Requested(w, c) = w /\ Removed(w, c) = w /\ \A slow : Slowed(w, slow) = w
  BY DEF Requested, Removed, Slowed, Allowed

\* What is asked of a step that leaves the flags alone and does not begin a clean-up:
\* with kDisableEvent set it makes no first request, and registers late contexts only.
QuietStep ==
    /\ ServerTypes' /\ UNCHANGED <<sState, late, listed>>
    /\ loop' = loop \/ loop' # "clean"
    /\ mainStep' \in {mainStep, "exited"}
    /\ "kDisableEvent" \in sState => /\ FirstRequests' \subseteq FirstRequests
                                     /\ Registered' \subseteq Registered \cup late

LEMMA QuietKeeps == ServerInv /\ QuietStep => ServerInv'
<1> SUFFICES ASSUME ServerInv, QuietStep PROVE ServerInv'
  OBVIOUS
<1>1. FlagsKept'
  BY DEF ServerInv, QuietStep, FlagsKept, CleanDone
<1>2. RequestsLate'
  BY DEF ServerInv, QuietStep, RequestsLate
<1>3. CleanListed'
  BY DEF ServerInv, QuietStep, CleanListed, FlagsKept
<1>4. CleanDone' => CleanDone
  BY DEF QuietStep, CleanDone
<1>5. OnlyLateRegistered'
  BY <1>4 DEF ServerInv, QuietStep, OnlyLateRegistered, FlagsKept
<1> QED
  BY <1>1, <1>2, <1>3, <1>5 DEF ServerInv, QuietStep

\* The sets that QuietStep speaks of, from one context to the next.
LEMMA SetsGrow ==
    ASSUME ServerTypes, ServerTypes'
    PROVE  /\ (\A x \in Contexts : watch'[x] \in {"never", "closed"} \/ x \in Registered \cup late)
                  => Registered' \subseteq Registered \cup late
           /\ (\A s \in Sessions : session'[s] = "asking" /\ watch'[s] = "never"
                       => session[s] = "asking" /\ watch[s] = "never")
                  => FirstRequests' \subseteq FirstRequests
<1>1. DOMAIN watch' = Contexts
  BY DEF ServerTypes, Watches
<1> QED
  BY <1>1 DEF FirstRequests, Registered

\* The steps of CFMain().
LEMMA MainKeeps ==
    ASSUME ServerInv, NEW from, NEW to, NEW flags, MainTo(from, to, flags),
           \/ from = "running" /\ to = "killing" /\ flags = {"kKillListener"}
           \/ from = "killing" /\ to = "disabled" /\ flags = {"kDisableEvent"} /\ "kKillListener" \notin sState
           \/ from = "disabled" /\ to = "cleaning" /\ flags = {"kCleanEvent"}
           \/ /\ CleanDone /\ flags = {}
              /\ to \in {"joining", "stopped", "timeoutKilled", "removing", "removed", "timeoutReleased", "done"}
    PROVE  ServerInv'
<1>0. /\ mainStep = from /\ mainStep' = to /\ sState' = sState \cup flags
      /\ UNCHANGED <<loop, listed, watch, session, accepted>>
      /\ late' = IF to = "disabled" THEN FirstRequests ELSE late
  BY DEF MainTo, loopVars, FirstRequests
<1>1. ServerTypes' /\ Registered' = Registered /\ FirstRequests' = FirstRequests
  BY <1>0 DEF ServerInv, ServerTypes, Registered, FirstRequests
<1>2. FlagsKept'
  BY <1>0 DEF ServerInv, FlagsKept, CleanDone
<1>3. RequestsLate'
  BY <1>0, <1>1 DEF ServerInv, RequestsLate, FlagsKept
<1>4. CleanListed'
  BY <1>0, <1>1 DEF ServerInv, CleanListed, FlagsKept
<1>5. OnlyLateRegistered'
  BY <1>0, <1>1 DEF ServerInv, OnlyLateRegistered, FlagsKept, CleanDone
<1> QED
  BY <1>1, <1>2, <1>3, <1>4, <1>5 DEF ServerInv

\* ProcessEvent() of the listener on the EventThread, and the two halves of Run().
LEMMA ListenerKeeps ==
    ASSUME ServerInv, UNCHANGED <<sState, late, listed>>, loop' = loop \/ loop' # "clean",
           NEW outcome, NEW slow,
           \/ ListenerProcessEvent(outcome, slow) /\ UNCHANGED accepted
           \/ ListenerRun(outcome)
    PROVE  ServerInv'
<1> DEFINE free == NewSession
           w == IF ListenerRun(outcome) THEN Requested(watch, Listener) ELSE watch
           fresh == Fresh(w, outcome)
<1>0. ServerTypes /\ watch \in Watches /\ session \in SessionStates
  BY DEF ServerInv, ServerTypes
<1>1. w \in Watches
  BY <1>0, WatchesKept
<1>2. fresh \in Watches /\ \A x \in Contexts : fresh[x] \in {w[x], "never", "closed"}
  BY <1>1, FreshKept
<1>3. \A x \in Contexts : fresh[x] = w[x] \/ (x = free /\ ~NoSession(outcome))
  BY <1>1, FreshKept
<1>4. ~NoSession(outcome) => free \in Sessions /\ session[free] = "free"
  BY NewSessionIsFree
<1>5. mainStep' \in {mainStep, "exited"}
  BY DEF ListenerProcessEvent, ListenerRun, Accept
<1>6. \/ session' = session /\ NoSession(outcome)
      \/ /\ ~NoSession(outcome)
         /\ \/ session' = [session EXCEPT ![free] = "open"]
            \/ session' = [session EXCEPT ![free] = "new"]
  BY DEF ListenerProcessEvent, ListenerRun
<1>7. session' \in SessionStates /\ accepted' \in Sessions \cup {NoEvent}
  BY <1>0, <1>4, <1>6 DEF SessionStates, ServerTypes, ListenerProcessEvent, ListenerRun
<1>8. \/ watch' = watch /\ NoSession(outcome)
      \/ watch' = fresh
      \/ watch' = Slowed(watch, slow) /\ NoSession(outcome)
      \/ watch' = Slowed(Requested(fresh, free), slow)
  BY DEF ListenerProcessEvent, ListenerRun, Fresh, NoSession
<1>9. watch' \in Watches
  BY <1>0, <1>2, <1>8, WatchesKept DEF Slowed
<1>10. ServerTypes'
  BY <1>7, <1>9 DEF ServerTypes
<1>11. ASSUME "kDisableEvent" \in sState
       PROVE  FirstRequests' \subseteq FirstRequests /\ Registered' \subseteq Registered \cup late
  <2>1. w = watch /\ (watch' = fresh \/ (watch' = watch /\ NoSession(outcome)))
    BY <1>8, <1>11, DisabledCalls
  <2>2. \A x \in Contexts : watch'[x] \in {watch[x], "never", "closed"}
    BY <1>2, <2>1
  <2>3. \A x \in Contexts : watch[x] \in {"never", "closed"} \/ x \in Registered
    BY <1>0 DEF Registered, Watches
  <2>4. ASSUME NEW s \in Sessions, session'[s] = "asking", watch'[s] = "never"
        PROVE  session[s] = "asking" /\ watch[s] = "never"
    <3>1. session[s] = "asking" /\ (NoSession(outcome) \/ s # free)
      BY <1>0, <1>4, <1>6, <2>4 DEF SessionStates
    <3>2. watch'[s] = watch[s]
      BY <1>3, <2>1, <3>1 DEF Contexts
    <3> QED
      BY <2>4, <3>1, <3>2
  <2>5. \A x \in Contexts : watch'[x] \in {"never", "closed"} \/ x \in Registered \cup late
    BY <2>2, <2>3
  <2> QED
    BY <1>0, <1>10, <2>4, <2>5, SetsGrow
<1> QED
  BY <1>5, <1>10, <1>11, QuietKeeps DEF QuietStep

\* Steps on a task thread: each is about one session, and takes it past its test of
\* kDisableEvent only if that is not set.
LEMMA TaskKeeps ==
    ASSUME ServerInv, UNCHANGED <<sState, late, listed, mainStep>>, loop' = loop \/ loop' # "clean",
           accepted' \in {accepted, NoEvent},
           NEW s \in Sessions, NEW state \in {"free", "new", "open", "signalled", "asking"},
           session' = [session EXCEPT ![s] = state],
           state = "asking" => Allowed \/ session[s] = "asking",
           NEW slow,
           \/ watch' = watch
           \/ watch' = Slowed(watch, slow)
           \/ watch' = CleanedUp(watch, s)
           \/ session[s] = "asking" /\ watch' = Watched(watch, s)
           \/ session[s] = "asking" /\ watch' = Slowed(Watched(watch, s), slow)
    PROVE  ServerInv'
<1>0. ServerTypes /\ watch \in Watches /\ session \in SessionStates
  BY DEF ServerInv, ServerTypes
<1>1. watch' \in Watches
  BY <1>0, WatchesKept DEF Slowed
<1>2. session' \in SessionStates
  BY <1>0 DEF SessionStates
<1>3. ServerTypes'
  BY <1>0, <1>1, <1>2 DEF ServerTypes
<1>4. ASSUME "kDisableEvent" \in sState
      PROVE  FirstRequests' \subseteq FirstRequests /\ Registered' \subseteq Registered \cup late
  <2>1. \A t \in Sessions : session'[t] = "asking" => session[t] = "asking"
    BY <1>0, <1>4 DEF Allowed, SessionStates
  <2>2. \/ watch' = watch \/ watch' = CleanedUp(watch, s)
        \/ session[s] = "asking" /\ watch' = Watched(watch, s)
    BY <1>4, DisabledCalls
  <2>3. \A x \in Contexts : x # s => watch'[x] = watch[x]
    BY <1>0, <2>2 DEF CleanedUp, Watched, Watches
  <2>4. watch'[s] \in {"never", "closed"} \/ s \in Registered \cup late
    <3>1. s \in Contexts
      BY DEF Contexts
    <3>2. CASE watch[s] \in {"armed", "fired", "removed"}
      BY <1>0, <3>1, <3>2 DEF Registered, Watches
    <3>3. CASE watch[s] = "never" /\ session[s] = "asking"
      BY <1>4, <3>3 DEF ServerInv, RequestsLate, FirstRequests
    <3>4. CASE watch[s] \in {"never", "closed"} /\ ~(watch[s] = "never" /\ session[s] = "asking")
      BY <1>0, <2>2, <3>1, <3>4 DEF CleanedUp, Watched, Watches
    <3> QED
      BY <1>0, <3>1, <3>2, <3>3, <3>4 DEF Watches
  <2>5. \A x \in Contexts : watch[x] \in {"never", "closed"} \/ x \in Registered
    BY <1>0 DEF Registered, Watches
  <2>6. \A x \in Contexts : watch'[x] \in {"never", "closed"} \/ x \in Registered \cup late
    BY <2>3, <2>4, <2>5
  <2>7. \A x \in Contexts : watch'[x] = "never" => watch[x] = "never"
    BY <1>0, <2>2 DEF CleanedUp, Watched, Watches
  <2>8. \A t \in Sessions : session'[t] = "asking" /\ watch'[t] = "never"
                             => session[t] = "asking" /\ watch[t] = "never"
    BY <2>1, <2>7 DEF Contexts
  <2> QED
    BY <1>0, <1>3, <2>6, <2>8, SetsGrow
<1> QED
  BY <1>3, <1>4, QuietKeeps DEF QuietStep

\* A context leaves the table, or its watch fires.
LEMMA LeavingKeeps ==
    ASSUME ServerInv, UNCHANGED <<sState, late, listed, mainStep, session, accepted>>, loop' = loop \/ loop' # "clean",
           NEW c \in Contexts,
           \/ watch' = CleanedUp(watch, c)
           \/ watch[c] = "armed" /\ watch' = Fired(watch, c)
           \/ watch' = watch
    PROVE  ServerInv' /\ Registered' \subseteq Registered
<1>0. ServerTypes /\ watch \in Watches
  BY DEF ServerInv, ServerTypes
<1>1. watch' \in Watches
  BY <1>0, WatchesKept
<1>2. ServerTypes'
  BY <1>0, <1>1 DEF ServerTypes
<1>3. \A x \in Contexts : watch'[x] = watch[x] \/ watch'[x] = "closed" \/ watch[x] = "armed"
  BY <1>0 DEF CleanedUp, Fired, Watches
<1>4. \A x \in Contexts : watch'[x] = "never" => watch[x] = "never"
  BY <1>0 DEF CleanedUp, Fired, Watches
<1>5. Registered' \subseteq Registered
  BY <1>0, <1>1, <1>3 DEF Registered, Watches
<1>6. FirstRequests' \subseteq FirstRequests
  BY <1>4 DEF FirstRequests, Contexts
<1> QED
  BY <1>2, <1>5, <1>6, QuietKeeps DEF QuietStep

LEMMA MainStep == ServerInv /\ Main => ServerInv'
<1> SUFFICES ASSUME ServerInv, Main PROVE ServerInv'
  OBVIOUS
<1>1. ASSUME NEW from, NEW to, NEW err, Startup(from, to, err), loop' \in {loop, "wait"},
             <<from, to>> \in {<<"base", "threads">>, <<"threads", "framework">>, <<"framework", "services">>}
      PROVE  ServerInv'
  <2>1. /\ mainStep = from /\ mainStep' \in {to, "failed"} /\ ~CleanDone' /\ mainStep' \notin {"disabled", "cleaning"}
        /\ mainStep \notin {"killing", "cleaning", "exited"}
    BY <1>1 DEF Startup, CleanDone
  <2>2. UNCHANGED <<sState, late, listed, watch, session, accepted>>
    BY <1>1 DEF Startup
  <2>3. Registered' = Registered /\ FirstRequests' = FirstRequests /\ ServerTypes'
    BY <2>2 DEF ServerInv, ServerTypes, Registered, FirstRequests
  <2>4. FlagsKept'
    BY <2>1, <2>2 DEF ServerInv, FlagsKept
  <2>5. RequestsLate' /\ CleanListed' /\ OnlyLateRegistered'
    BY <1>1, <2>1, <2>2, <2>3 DEF ServerInv, RequestsLate, CleanListed, OnlyLateRegistered
  <2> QED
    BY <2>3, <2>4, <2>5 DEF ServerInv
<1>2. ASSUME NEW err \in BOOLEAN, AfterInitBase(err) \/ AfterConfigThreads(err) \/ AfterConfigFramework(err)
      PROVE  ServerInv'
  BY <1>1, <1>2 DEF AfterInitBase, AfterConfigThreads, AfterConfigFramework
<1>3. ASSUME NEW bound \in BOOLEAN, StartupCustomServices(bound) PROVE ServerInv'
  <2>1. /\ mainStep = "services" /\ mainStep' = "running" /\ ~CleanDone'
        /\ UNCHANGED <<sState, late, loop, listed, session, accepted>>
        /\ watch' \in {watch, Requested(watch, Listener)}
    BY <1>3 DEF StartupCustomServices, loopVars, CleanDone
  <2>2. watch \in Watches /\ ServerTypes
    BY DEF ServerInv, ServerTypes
  <2>3. watch' \in Watches
    BY <2>1, <2>2, WatchesKept
  <2>4. ServerTypes'
    BY <2>1, <2>2, <2>3 DEF ServerTypes
  <2>5. FlagsKept' /\ OnlyLateRegistered'
    BY <2>1 DEF ServerInv, FlagsKept, OnlyLateRegistered
  <2>6. RequestsLate'
    <3>1. ASSUME "kDisableEvent" \in sState PROVE FirstRequests' = FirstRequests
      BY <2>1, <3>1, DisabledCalls DEF FirstRequests
    <3> QED
      BY <2>1, <3>1 DEF ServerInv, RequestsLate
  <2>7. CleanListed'
    BY <2>1 DEF ServerInv, CleanListed, FlagsKept
  <2> QED
    BY <2>4, <2>5, <2>6, <2>7 DEF ServerInv
<1>4. CASE KillListener
  BY <1>4, MainKeeps DEF KillListener
<1>5. CASE DisableEvent
  BY <1>5, MainKeeps DEF DisableEvent
<1>6. CASE CleanEvent
  BY <1>6, MainKeeps DEF CleanEvent
<1>7. CASE SocketRelease \/ select_stopevents \/ StopTask \/ SendStopRequests
  <2>1. CleanDone
    BY <1>7 DEF SocketRelease, select_stopevents, StopTask, SendStopRequests, MainTo, CleanDone
  <2> QED
    BY <1>7, <2>1, MainKeeps DEF SocketRelease, select_stopevents, StopTask, SendStopRequests
<1>8. CASE RemoveThreads \/ TimeoutRelease \/ IdleTaskRelease
  <2>1. CleanDone
    BY <1>8 DEF RemoveThreads, TimeoutRelease, IdleTaskRelease, MainTo, CleanDone
  <2> QED
    BY <1>8, <2>1, MainKeeps DEF RemoveThreads, TimeoutRelease, IdleTaskRelease
<1> QED
  BY <1>2, <1>3, <1>4, <1>5, <1>6, <1>7, <1>8 DEF Main

\* The EventThread.
LEMMA LoopStep == ServerInv /\ EventThreadStep => ServerInv'
<1> SUFFICES ASSUME ServerInv, EventThreadStep PROVE ServerInv'
  OBVIOUS
<1>0. Listener \in Contexts /\ ServerTypes /\ watch \in Watches /\ session \in SessionStates
  BY DEF ServerInv, ServerTypes, Contexts
<1>1. CASE StopRequested
  <2>1. UNCHANGED <<sState, late, listed, mainStep, session, accepted, watch>> /\ loop' = "ended"
    BY <1>1 DEF StopRequested, LoopTo
  <2> QED
    BY <1>0, <2>1, LeavingKeeps
<1>2. CASE CheckState
  <2>0. UNCHANGED <<mainStep, session, late, accepted>>
    BY <1>2 DEF CheckState, LoopTo
  <2>1. CASE "kKillListener" \in sState
    <3>1. /\ loop' # "clean" /\ listed' = listed /\ sState' = sState \ {"kKillListener"}
          /\ watch' \in {watch, Removed(watch, Listener)}
      BY <1>2, <2>1 DEF CheckState, LoopTo, Cleared, Onwards
    <3>2. ~CleanDone' /\ mainStep \in {"killing", "exited"}
      BY <2>0, <2>1 DEF ServerInv, FlagsKept, CleanDone
    <3>3. ServerTypes'
      BY <1>0, <2>0, <3>1, WatchesKept DEF ServerTypes
    <3>4. FlagsKept' /\ CleanListed' /\ OnlyLateRegistered'
      BY <2>0, <3>1, <3>2 DEF ServerInv, FlagsKept, CleanListed, OnlyLateRegistered
    <3>5. RequestsLate'
      <4>1. ASSUME "kDisableEvent" \in sState PROVE FirstRequests' = FirstRequests
        BY <2>0, <3>1, <4>1, DisabledCalls DEF FirstRequests
      <4> QED
        BY <2>0, <3>1, <4>1 DEF ServerInv, RequestsLate
    <3> QED
      BY <3>3, <3>4, <3>5 DEF ServerInv
  <2>2. CASE "kCleanEvent" \in sState /\ "kKillListener" \notin sState
    <3>1. UNCHANGED <<sState, watch>> /\ listed' = Registered
      BY <1>2, <2>2 DEF CheckState
    <3>2. Registered' = Registered /\ FirstRequests' = FirstRequests /\ ServerTypes'
      BY <1>0, <2>0, <3>1 DEF Registered, FirstRequests, ServerTypes
    <3>3. FlagsKept' /\ RequestsLate' /\ CleanListed' /\ OnlyLateRegistered'
      BY <2>0, <2>2, <3>1, <3>2
         DEF ServerInv, FlagsKept, RequestsLate, CleanListed, OnlyLateRegistered, CleanDone
    <3> QED
      BY <3>2, <3>3 DEF ServerInv
  <2>3. CASE "kCleanEvent" \notin sState /\ "kKillListener" \notin sState
    <3>1. UNCHANGED <<sState, listed, watch>> /\ loop' # "clean"
      BY <1>2, <2>3 DEF CheckState, LoopTo, Onwards
    <3> QED
      BY <1>0, <2>0, <3>1, LeavingKeeps
  <2> QED
    BY <2>1, <2>2, <2>3
<1>3. CASE CleanEnds
  <2>1. /\ UNCHANGED <<mainStep, session, late, accepted, watch, listed>> /\ loop = "clean" /\ loop' # "clean"
        /\ sState' = sState \ {"kCleanEvent"} /\ Registered \cap listed = {}
    BY <1>3 DEF CleanEnds, LoopTo, Onwards
  <2>2. Registered' = Registered /\ FirstRequests' = FirstRequests /\ ServerTypes'
    BY <1>0, <2>1 DEF Registered, FirstRequests, ServerTypes
  <2>3. Registered \subseteq late
    BY <2>1 DEF ServerInv, CleanListed
  <2>4. FlagsKept'
    BY <2>1 DEF ServerInv, FlagsKept, CleanDone, CleanListed
  <2>5. RequestsLate' /\ CleanListed' /\ OnlyLateRegistered'
    BY <2>1, <2>2, <2>3 DEF ServerInv, RequestsLate, CleanListed, OnlyLateRegistered
  <2> QED
    BY <2>2, <2>4, <2>5 DEF ServerInv
<1>4. ASSUME NEW c \in Contexts, CleanContext(c) PROVE ServerInv'
  <2>1. /\ UNCHANGED <<sState, late, listed, mainStep, session, accepted>> /\ loop' = loop
        /\ watch' = CleanedUp(watch, c)
    BY <1>4 DEF CleanContext, LoopTo
  <2> QED
    BY <2>1, LeavingKeeps
<1>5. ASSUME NEW c \in Sessions \cup {Listener, NoEvent}, WaitEvent(c) PROVE ServerInv'
  <2>1. UNCHANGED <<sState, late, listed, mainStep, session, accepted>> /\ loop' = "check"
    BY <1>5 DEF WaitEvent, LoopTo
  <2>2. CASE c = NoEvent
    <3>1. watch' = watch
      BY <1>5, <2>2 DEF WaitEvent
    <3> QED
      BY <1>0, <2>1, <3>1, LeavingKeeps
  <2>3. CASE c # NoEvent
    <3>1. c \in Contexts /\ watch[c] = "armed" /\ watch' = Fired(watch, c)
      BY <1>5, <2>3 DEF WaitEvent, Contexts
    <3> QED
      BY <2>1, <3>1, LeavingKeeps
  <2> QED
    BY <2>2, <2>3
<1>6. ASSUME NEW o \in AcceptOutcomes, NEW slow \in BOOLEAN, ServerProcessEvent(o, slow) PROVE ServerInv'
  <2>1. UNCHANGED <<sState, late, listed, accepted>> /\ loop' = "wait"
    BY <1>6 DEF ServerProcessEvent, LoopTo
  <2>2. CASE UNCHANGED <<mainStep, watch, session>>
    BY <1>0, <2>1, <2>2, LeavingKeeps
  <2>3. CASE ListenerProcessEvent(o, slow)
    BY <2>1, <2>3, ListenerKeeps
  <2>4. CASE theCurrentEvent \in Registered /\ theCurrentEvent # Listener
    <3>1. PICK s \in Sessions : s = theCurrentEvent
      BY <1>0, <2>4 DEF Registered, Watches, Contexts
    <3>2. PICK state \in {"free", "new", "open", "signalled", "asking"} :
             state = IF session[s] = "open" THEN "signalled" ELSE session[s]
      BY <1>0 DEF SessionStates
    <3>3. session' = [session EXCEPT ![s] = state] /\ UNCHANGED <<mainStep, watch>>
      BY <1>6, <2>4, <3>1, <3>2 DEF ServerProcessEvent
    <3> QED
      BY <2>1, <3>2, <3>3, TaskKeeps
  <2> QED
    BY <1>6, <2>2, <2>3, <2>4 DEF ServerProcessEvent
<1> QED
  BY <1>1, <1>2, <1>3, <1>4, <1>5, <1>6 DEF EventThreadStep, Clean, Contexts

LEMMA ServerStep == ServerInv /\ [ServerNext]_svVars => ServerInv'
<1> SUFFICES ASSUME ServerInv, [ServerNext]_svVars PROVE ServerInv'
  OBVIOUS
<1>0. Listener \in Contexts /\ ServerTypes /\ accepted \in Sessions \cup {NoEvent} /\ session \in SessionStates
  BY DEF ServerInv, ServerTypes, Contexts
<1>1. CASE Main
  BY <1>1, MainStep
<1>2. CASE EventThreadStep
  BY <1>2, LoopStep
<1>3. CASE ListenerKilled
  <2>1. /\ UNCHANGED <<sState, late, listed, mainStep, session, accepted, loop>>
        /\ watch' = CleanedUp(watch, Listener)
    BY <1>3 DEF ListenerKilled, mainVars, loopVars
  <2> QED
    BY <1>0, <2>1, LeavingKeeps
<1>4. ASSUME NEW o \in AcceptOutcomes, ListenerRun(o) PROVE ServerInv'
  <2>1. UNCHANGED <<sState, late, listed, loop>>
    BY <1>4 DEF ListenerRun, loopVars
  <2> QED
    BY <1>4, <2>1, ListenerKeeps
<1>5. CASE ListenerAsks
  <2>1. PICK s \in Sessions : s = accepted
    BY <1>0, <1>5 DEF ListenerAsks
  <2>2. PICK state \in {"open", "asking"} : state = IF Allowed THEN "asking" ELSE "open"
    OBVIOUS
  <2>3. /\ UNCHANGED <<sState, late, listed, mainStep, accepted, loop, watch>>
        /\ session' = [session EXCEPT ![s] = state]
    BY <1>5, <2>1, <2>2 DEF ListenerAsks, mainVars, loopVars
  <2> QED
    BY <2>2, <2>3, TaskKeeps
<1>6. ASSUME NEW slow \in BOOLEAN, ListenerRunEnds(slow) PROVE ServerInv'
  <2>1. PICK s \in Sessions : s = accepted
    BY <1>0, <1>6 DEF ListenerRunEnds
  <2>2. PICK state \in {"free", "new", "open", "signalled", "asking"} :
           state = IF session[s] = "asking" THEN "open" ELSE session[s]
    BY <1>0 DEF SessionStates
  <2>3. /\ UNCHANGED <<sState, late, listed, mainStep, loop>> /\ accepted' = NoEvent
        /\ session' = [session EXCEPT ![s] = state]
        /\ \/ watch' = Slowed(watch, slow)
           \/ session[s] = "asking" /\ watch' = Slowed(Watched(watch, s), slow)
    BY <1>6, <2>1, <2>2 DEF ListenerRunEnds, mainVars, loopVars
  <2> QED
    BY <2>2, <2>3, TaskKeeps
<1>7. ASSUME NEW s \in Sessions, NEW ends \in BOOLEAN, NEW exit \in BOOLEAN, SessionRun(s, ends, exit) PROVE ServerInv'
  <2>1. PICK state \in {"free", "open", "asking"} :
           state = IF ends THEN "free" ELSE IF Allowed THEN "asking" ELSE "open"
    OBVIOUS
  <2>2. /\ UNCHANGED <<sState, late, listed, mainStep, loop, accepted>>
        /\ session' = [session EXCEPT ![s] = state]
        /\ watch' = CleanedUp(watch, s) \/ watch' = watch
    BY <1>7, <2>1 DEF SessionRun, loopVars
  <2> QED
    BY <2>1, <2>2, TaskKeeps
<1>8. ASSUME NEW s \in Sessions, SessionRequests(s) \/ SessionTimesOut(s) PROVE ServerInv'
  <2>1. UNCHANGED <<sState, late, listed, mainStep, loop, accepted>>
    BY <1>8 DEF SessionRequests, SessionTimesOut, mainVars, loopVars
  <2>2. CASE SessionRequests(s)
    <3>1. session[s] = "asking" /\ session' = [session EXCEPT ![s] = "open"] /\ watch' = Watched(watch, s)
      BY <2>2 DEF SessionRequests
    <3> QED
      BY <2>1, <3>1, TaskKeeps
  <2>3. CASE SessionTimesOut(s)
    <3>1. session' = [session EXCEPT ![s] = "free"] /\ watch' = CleanedUp(watch, s)
      BY <2>3 DEF SessionTimesOut
    <3> QED
      BY <2>1, <3>1, TaskKeeps
  <2> QED
    BY <1>8, <2>2, <2>3
<1>9. CASE DoIdle \/ TimerExpires \/ ClientConnects \/ UNCHANGED svVars
  <2>1. UNCHANGED <<sState, late, listed, mainStep, session, accepted, watch, loop>>
    BY <1>9 DEF DoIdle, TimerExpires, ClientConnects, svVars, mainVars, loopVars
  <2> QED
    BY <1>0, <2>1, LeavingKeeps
<1> QED
  BY <1>1, <1>2, <1>3, <1>4, <1>5, <1>6, <1>7, <1>8, <1>9 DEF ServerNext, ListenerTask, SessionTask

\* From the end of step 3 of the shutdown on, the table and epoll hold late first
\* requests only, for any number of sessions and whatever they do during and after
\* the clean-up.
THEOREM CleanLeavesOnlyLate == ServerSpec => []OnlyLateRegistered
<1>1. ServerInv => OnlyLateRegistered
  BY DEF ServerInv
<1> QED
  BY <1>1, ServerInvInit, ServerStep, PTL DEF ServerSpec
============================================================================
