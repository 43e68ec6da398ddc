----------------------------- MODULE RefTable ------------------------------
(***************************************************************************)
(* The table of reference counted objects of CFCore/Ref.cpp, over the      *)
(* chained HashTable of CFCore/include/CF/HashTable.h.  RefUsers resolve a    *)
(* key to a Ref, use the object and release the Ref; the owner of an       *)
(* object takes its Ref out of the table with UnRegister, which waits      *)
(* until nobody uses it, and then destroys the object.  fMutex makes every *)
(* method atomic, up to the Wait in UnRegister.                            *)
(***************************************************************************)
EXTENDS Integers, Sequences, FiniteSets

CONSTANTS
    Refs,     \* Ref objects
    Keys,     \* the strings of Refs
    fString,  \* [Refs -> Keys]
    Indices,  \* slots of the hash table
    Hash,     \* [Keys -> Indices], HashString and ComputeIndex
    RefUsers,    \* threads that resolve
    NoRef     \* nullptr

ASSUME RefAssumption ==
    /\ fString \in [Refs -> Keys]
    /\ Hash \in [Keys -> Indices]
    /\ NoRef \notin Refs
    /\ IsFiniteSet(RefUsers)

VARIABLES
    fHashTable,  \* [Indices -> Seq(Refs)], the chains
    fRefCount,   \* [Refs -> Int]
    held,        \* the Ref each user has resolved
    owner        \* where the owner of each Ref is

refVars == <<fHashTable, fRefCount, held, owner>>

RefInit ==
    /\ fHashTable = [i \in Indices |-> <<>>]
    /\ fRefCount = [r \in Refs |-> 0]
    /\ held = [u \in RefUsers |-> NoRef]
    /\ owner = [r \in Refs |-> "new"]

----------------------------------------------------------------------------
(* HashTable *)

IndexOf(r) == Hash[fString[r]]

Chained(r, i) == \E k \in DOMAIN fHashTable[i] : fHashTable[i][k] = r

InTable(r) == Chained(r, IndexOf(r))

\* The first Ref of the key's chain that has the key.
Map(key) ==
    LET chain == fHashTable[Hash[key]]
        match == {k \in DOMAIN chain : fString[chain[k]] = key}
    IN IF match = {} THEN NoRef
       ELSE chain[CHOOSE k \in match : \A j \in match : k <= j]

\* In front of its chain.
Add(table, r) == [table EXCEPT ![IndexOf(r)] = <<r>> \o @]

Places(chain, r) == {k \in DOMAIN chain : chain[k] = r}

\* Nothing to do when it is not there: "sometimes remove is called 2x ( swap,
\* then un register )".
Unlink(chain, r) ==
    IF Places(chain, r) = {} THEN chain
    ELSE LET k == CHOOSE k \in Places(chain, r) : \A j \in Places(chain, r) : k <= j
         IN [j \in 1 .. Len(chain) - 1 |-> IF j < k THEN chain[j] ELSE chain[j + 1]]

Remove(table, r) == [table EXCEPT ![IndexOf(r)] = Unlink(@, r)]

----------------------------------------------------------------------------
(* RefTable *)

\* A duplicate is refused with EPERM, which RequestEvent() ignores: the owner
\* goes on in either case.
Register(r) ==
    /\ owner[r] = "new"
    /\ fHashTable' = IF Map(fString[r]) = NoRef THEN Add(fHashTable, r) ELSE fHashTable
    /\ owner' = [owner EXCEPT ![r] = "registered"]
    /\ UNCHANGED <<fRefCount, held>>

\* Mutant: the user is not counted.
UseUncounted(u, r) == held' = [held EXCEPT ![u] = r] /\ UNCHANGED fRefCount

\* u gets hold of the Ref that is in the table under the key.
Use(u, r) ==
    /\ held' = [held EXCEPT ![u] = r]
    /\ fRefCount' = [fRefCount EXCEPT ![r] = @ + 1]

\* Resolve of a key that is not in the table returns nullptr.
Resolve(u, key) ==
    /\ held[u] = NoRef
    /\ Map(key) # NoRef
    /\ Use(u, Map(key))
    /\ UNCHANGED <<fHashTable, owner>>

RegisterOrResolve(u, r) ==
    /\ owner[r] = "new" /\ held[u] = NoRef
    /\ IF Map(fString[r]) # NoRef
       THEN Use(u, Map(fString[r])) /\ UNCHANGED <<fHashTable, owner>>
       ELSE /\ fHashTable' = Add(fHashTable, r)
            /\ owner' = [owner EXCEPT ![r] = "registered"]
            /\ UNCHANGED <<fRefCount, held>>

\* Mutant: the waiting owner is not woken up.
ReleaseSilent(u) ==
    /\ held[u] # NoRef
    /\ fRefCount' = [fRefCount EXCEPT ![held[u]] = @ - 1]
    /\ held' = [held EXCEPT ![u] = NoRef]
    /\ UNCHANGED <<fHashTable, owner>>

\* fCond.Signal() wakes the owner that waits for this Ref.
Release(u) ==
    LET r == held[u] IN
    /\ r # NoRef
    /\ fRefCount' = [fRefCount EXCEPT ![r] = @ - 1]
    /\ held' = [held EXCEPT ![u] = NoRef]
    /\ owner' = IF owner[r] = "asleep" THEN [owner EXCEPT ![r] = "awake"] ELSE owner
    /\ UNCHANGED fHashTable

\* Out of the table for good; the owner destroys the object.
TakeOut(r) ==
    /\ fHashTable' = Remove(fHashTable, r)
    /\ owner' = [owner EXCEPT ![r] = "gone"]

\* Called with refCount 0, its default.
UnRegister(r) ==
    /\ owner[r] = "registered"
    /\ IF fRefCount[r] > 0
       THEN owner' = [owner EXCEPT ![r] = "asleep"] /\ UNCHANGED fHashTable
       ELSE TakeOut(r)
    /\ UNCHANGED <<fRefCount, held>>

\* Mutant: the count is not tested again after the wait.
RetryUnRegisterBlind(r) ==
    /\ owner[r] = "awake"
    /\ TakeOut(r)
    /\ UNCHANGED <<fRefCount, held>>

\* The count is tested again: others may have resolved the Ref meanwhile.
RetryUnRegister(r) ==
    /\ owner[r] = "awake"
    /\ IF fRefCount[r] > 0
       THEN owner' = [owner EXCEPT ![r] = "asleep"] /\ UNCHANGED fHashTable
       ELSE TakeOut(r)
    /\ UNCHANGED <<fRefCount, held>>

TryUnRegister(r) ==
    /\ owner[r] = "registered"
    /\ fRefCount[r] = 0
    /\ TakeOut(r)
    /\ UNCHANGED <<fRefCount, held>>

\* A new Ref takes the place of the one under its key, whose users keep it and
\* whose owner still calls UnRegister.
Swap(r) ==
    LET old == Map(fString[r]) IN
    /\ owner[r] = "new"
    /\ old # NoRef
    /\ fHashTable' = Add(Remove(fHashTable, old), r)
    /\ owner' = [owner EXCEPT ![r] = "registered"]
    /\ UNCHANGED <<fRefCount, held>>

\* pthread_cond_wait returns without a signal.
SpuriousWakeup(r) ==
    /\ owner[r] = "asleep"
    /\ owner' = [owner EXCEPT ![r] = "awake"]
    /\ UNCHANGED <<fHashTable, fRefCount, held>>

\* Another object in the place of a destroyed one.
Create(r) ==
    /\ owner[r] = "gone"
    /\ owner' = [owner EXCEPT ![r] = "new"]
    /\ fRefCount' = [fRefCount EXCEPT ![r] = 0]
    /\ UNCHANGED <<fHashTable, held>>

RefNext ==
    \/ \E r \in Refs : \/ Register(r) \/ UnRegister(r) \/ RetryUnRegister(r)
                       \/ TryUnRegister(r) \/ Swap(r) \/ SpuriousWakeup(r) \/ Create(r)
    \/ \E u \in RefUsers : \/ Release(u)
                        \/ \E key \in Keys : Resolve(u, key)
                        \/ \E r \in Refs : RegisterOrResolve(u, r)

\* RefUsers release in a timely manner, as Ref.h demands of them, and a woken owner
\* runs.  Nothing makes a wait end by itself.
RefFairness ==
    /\ \A u \in RefUsers : WF_refVars(Release(u))
    /\ \A r \in Refs : WF_refVars(RetryUnRegister(r))

RefSpec == RefInit /\ [][RefNext]_refVars /\ RefFairness

----------------------------------------------------------------------------
(* Properties *)

RefTypeOK ==
    /\ fHashTable \in [Indices -> Seq(Refs)]
    /\ fRefCount \in [Refs -> Nat]
    /\ held \in [RefUsers -> Refs \cup {NoRef}]
    /\ owner \in [Refs -> {"new", "registered", "asleep", "awake", "gone"}]

UsersOf(r) == {u \in RefUsers : held[u] = r}

\* "Once the Ref is resolved, it is safe to use until you call Release": its
\* object is not destroyed, whatever was swapped or unregistered meanwhile.
SafeWhileHeld == \A u \in RefUsers : held[u] # NoRef => owner[held[u]] \notin {"gone", "new"}

\* The count is the number of users: it never wraps below zero.
CountExact == \A r \in Refs : fRefCount[r] = Cardinality(UsersOf(r))

\* A key leads to one Ref, and a chain holds a Ref once and only Refs that hash
\* to it.
KeysUnique ==
    \A i \in Indices : \A j, k \in DOMAIN fHashTable[i] :
        /\ IndexOf(fHashTable[i][j]) = i
        /\ fString[fHashTable[i][j]] = fString[fHashTable[i][k]] => j = k

\* Only objects that exist can be resolved.
TableAlive == \A r \in Refs : InTable(r) => owner[r] \notin {"new", "gone"}

\* The table is sound: counts, keys and objects agree.
TableConsistent == RefTypeOK /\ CountExact /\ KeysUnique /\ TableAlive

\* UnRegister returns once nobody new resolves the Ref.
UnRegisterReturns ==
    \A r \in Refs :
        <>[][~\E u \in RefUsers : held'[u] = r /\ held[u] = NoRef]_refVars =>
            (owner[r] \in {"asleep", "awake"} ~> owner[r] = "gone")
============================================================================
