-------------------------- MODULE EventLoopProofs --------------------------
(***************************************************************************)
(* A watched descriptor leads to its owner, and a context that the         *)
(* EventThread holds is registered, for any contexts, descriptors and ids. *)
(***************************************************************************)
EXTENDS EventLoop, FiniteSetTheorems, TLAPS

\* Each descriptor belongs to one context, which uses it or closes it.
OneOwner ==
    /\ \A c \in Contexts : fFileDesc[c] = NoFd \/ closing[c] = NoFd
    /\ \A c, d \in Contexts : c # d =>
          /\ fFileDesc[c] # NoFd => fFileDesc[c] # fFileDesc[d] /\ fFileDesc[c] # closing[d]
          /\ closing[c] # NoFd => closing[c] # closing[d]

\* epoll forgets a descriptor before its number is given out again.
WatchedInUse == \A fd \in Fds : interest[fd] # "none" => InUse(fd)

\* The table is the inverse of fUniqueID.  A context is in it from the first
\* RequestEvent() to the end of UnRegister().
IdsMatch ==
    /\ \A c \in Contexts : fUniqueID[c] # 0 => fRefTable[fUniqueID[c]] = c
    /\ \A id \in Ids : fRefTable[id] # NoContext => fUniqueID[fRefTable[id]] = id
    /\ \A c \in Contexts : fWatchEventCalled[c] => fFileDesc[c] # NoFd /\ fUniqueID[c] # 0
    /\ \A c \in Contexts : fUniqueID[c] # 0 => fWatchEventCalled[c] \/ closing[c] # NoFd

\* What the EventThread holds is in the table.
HeldHasId ==
    /\ pc = "process" => theContext # NoContext
    /\ theContext # NoContext => fUniqueID[theContext] # 0

LoopInv == TypeOK /\ WatchedResolves /\ OneOwner /\ WatchedInUse /\ IdsMatch /\ HeldHasId

LEMMA IdsPositive == \A id \in Ids : id \in Nat /\ id > 0
  BY LoopAssumption

LEMMA InvImpliesConsistent == LoopInv => LoopConsistent
<1> SUFFICES ASSUME LoopInv PROVE LoopConsistent
  OBVIOUS
<1>1. theContext # NoContext => theContext \in Contexts /\ fUniqueID[theContext] \in Ids \cup {0}
  BY DEF LoopInv, TypeOK
<1>2. HeldIsRegistered
  BY <1>1, LoopAssumption DEF LoopInv, HeldHasId, HeldIsRegistered, IdsMatch
<1> QED
  BY <1>2 DEF LoopInv, LoopConsistent

LEMMA InvInit == Init => LoopInv
<1> SUFFICES ASSUME Init PROVE LoopInv
  OBVIOUS
<1>1. TypeOK
  <2>1. fWatchEventCalled \in [Contexts -> BOOLEAN]
    BY Zenon DEF Init
  <2> QED
    BY <2>1, LoopAssumption DEF Init, TypeOK
<1>2. WatchedResolves /\ OneOwner /\ WatchedInUse /\ HeldHasId
  BY DEF Init, WatchedResolves, Owns, OneOwner, WatchedInUse, HeldHasId
<1>3. IdsMatch
  BY DEF Init, IdsMatch
<1> QED
  BY <1>1, <1>2, <1>3 DEF LoopInv

----------------------------------------------------------------------------
(* Calls on contexts *)

LEMMA OpenStep ==
    ASSUME LoopInv, NEW c \in Contexts, NEW fd \in Fds, Open(c, fd)
    PROVE  LoopInv'
<1> USE DEF LoopInv
<1>0. fd # NoFd /\ interest[fd] = "none"
  BY LoopAssumption DEF Open, WatchedInUse
<1>1. TypeOK'
  BY DEF Open, TypeOK, batchVars, threadVars
<1>2. WatchedResolves'
  BY <1>0 DEF Open, TypeOK, WatchedResolves, Owns
<1>3. OneOwner'
  BY DEF Open, TypeOK, OneOwner, Owns, InUse
<1>4. WatchedInUse'
  BY DEF Open, TypeOK, WatchedInUse, InUse, Owns
<1>5. IdsMatch' /\ HeldHasId'
  BY <1>0 DEF Open, TypeOK, IdsMatch, HeldHasId, threadVars, Owns
<1> QED
  BY <1>1, <1>2, <1>3, <1>4, <1>5

\* A context changes the watch of its own descriptor: the other descriptors
\* still lead to their owners.
LEMMA OwnWatchChanged ==
    ASSUME LoopInv, NEW c \in Contexts, fFileDesc[c] # NoFd, UNCHANGED <<fFileDesc, closing>>,
           NEW mask \in {"none", "level", "oneshot"}, NEW id \in Ids \cup {0},
           interest' = [interest EXCEPT ![fFileDesc[c]] = mask],
           gDataMap' = [gDataMap EXCEPT ![fFileDesc[c]] = id],
           mask # "none" => id # 0 /\ fUniqueID'[c] = id /\ fRefTable'[id] = c,
           \A d \in Contexts \ {c} : fUniqueID[d] # 0 =>
               fUniqueID'[d] = fUniqueID[d] /\ fRefTable'[fUniqueID[d]] = fRefTable[fUniqueID[d]]
    PROVE  /\ interest' \in [Fds -> {"none", "level", "oneshot", "fired"}]
           /\ gDataMap' \in [Fds -> Ids \cup {0}]
           /\ WatchedResolves' /\ WatchedInUse'
<1> USE DEF LoopInv
<1>1. fFileDesc[c] \in Fds
  BY DEF TypeOK
<1>2. /\ interest' \in [Fds -> {"none", "level", "oneshot", "fired"}]
      /\ gDataMap' \in [Fds -> Ids \cup {0}]
  BY <1>1 DEF TypeOK
<1>3. WatchedInUse'
  BY <1>1 DEF TypeOK, WatchedInUse, InUse
<1>4. WatchedResolves'
  <2> SUFFICES ASSUME NEW d \in Contexts, fFileDesc[d] # NoFd, interest'[fFileDesc[d]] # "none"
               PROVE  gDataMap'[fFileDesc[d]] = fUniqueID'[d] /\ fUniqueID'[d] > 0 /\ fRefTable'[fUniqueID'[d]] = d
    BY DEF WatchedResolves, Owns
  <2>1. CASE d = c
    BY <1>1, <2>1, IdsPositive DEF TypeOK
  <2>2. CASE d # c
    <3>1. fFileDesc[d] # fFileDesc[c] /\ fFileDesc[d] \in Fds
      BY <2>2 DEF OneOwner, TypeOK
    <3>2. interest[fFileDesc[d]] # "none" /\ gDataMap'[fFileDesc[d]] = gDataMap[fFileDesc[d]]
      BY <1>1, <3>1 DEF TypeOK
    <3>3. gDataMap[fFileDesc[d]] = fUniqueID[d] /\ fUniqueID[d] > 0 /\ fRefTable[fUniqueID[d]] = d
      BY <3>2 DEF WatchedResolves, Owns
    <3> QED
      BY <2>2, <3>2, <3>3
  <2> QED
    BY <2>1, <2>2
<1> QED
  BY <1>2, <1>3, <1>4

\* The same when epoll refuses the change.
LEMMA WatchesUnchanged ==
    ASSUME LoopInv, UNCHANGED <<interest, gDataMap, fFileDesc, closing, fUniqueID, fRefTable>>
    PROVE  WatchedResolves' /\ WatchedInUse'
  BY DEF LoopInv, WatchedResolves, WatchedInUse, Owns, InUse

LEMMA WatchFirstStep ==
    ASSUME LoopInv, NEW c \in Contexts, NEW mask \in {"level", "oneshot"}, Owns(c), WatchFirst(c, mask),
           UNCHANGED <<fFileDesc, closing, ready, batchVars, threadVars, signalled>>
    PROVE  LoopInv'
<1> USE DEF LoopInv
<1>0. fFileDesc[c] # NoFd /\ closing[c] = NoFd
  BY DEF Owns, OneOwner
<1>1. ~fWatchEventCalled[c]
  BY DEF WatchFirst
<1>2. fUniqueID[c] = 0
  BY <1>0, <1>1, Zenon DEF IdsMatch
<1>3. PICK id \in Ids :
         /\ fRefTable[id] = NoContext
         /\ fUniqueID' = [fUniqueID EXCEPT ![c] = id]
         /\ fRefTable' = [fRefTable EXCEPT ![id] = c]
         /\ select_watchevent(fFileDesc[c], id, mask)
  BY DEF WatchFirst
<1>4. id # 0 /\ fUniqueID'[c] = id /\ fRefTable'[id] = c
  BY <1>3, IdsPositive DEF TypeOK
<1>5. \A d \in Contexts \ {c} : fUniqueID'[d] = fUniqueID[d]
  BY <1>3 DEF TypeOK
<1>6. \A d \in Contexts : fUniqueID[d] # 0 => fUniqueID[d] # id
  BY <1>3, LoopAssumption DEF TypeOK, IdsMatch
<1>7. \A j \in Ids \ {id} : fRefTable'[j] = fRefTable[j]
  BY <1>3 DEF TypeOK
<1>8. /\ interest' \in [Fds -> {"none", "level", "oneshot", "fired"}] /\ gDataMap' \in [Fds -> Ids \cup {0}]
      /\ WatchedResolves' /\ WatchedInUse'
  <2>1. \A d \in Contexts \ {c} : fUniqueID[d] # 0 =>
           fUniqueID'[d] = fUniqueID[d] /\ fRefTable'[fUniqueID[d]] = fRefTable[fUniqueID[d]]
    BY <1>5, <1>6, <1>7 DEF TypeOK
  <2>2. /\ interest' = [interest EXCEPT ![fFileDesc[c]] = mask]
        /\ gDataMap' = [gDataMap EXCEPT ![fFileDesc[c]] = id]
    BY <1>3 DEF select_watchevent
  <2> QED
    BY <1>0, <1>4, <2>1, <2>2, OwnWatchChanged
<1>9. fWatchEventCalled' = [fWatchEventCalled EXCEPT ![c] = TRUE]
  BY DEF WatchFirst
<1>10. TypeOK'
  <2>1. fWatchEventCalled' \in [Contexts -> BOOLEAN]
    BY <1>9 DEF TypeOK
  <2> QED
    BY <1>3, <1>8, <2>1 DEF TypeOK, batchVars, threadVars
<1>11. OneOwner' /\ HeldHasId'
  BY <1>2, <1>4, <1>5 DEF OneOwner, HeldHasId, TypeOK, threadVars
<1>12. IdsMatch'
  <2>1. \A d \in Contexts : fUniqueID'[d] # 0 => fRefTable'[fUniqueID'[d]] = d
    BY <1>4, <1>5, <1>6, <1>7 DEF IdsMatch, TypeOK
  <2>2. \A j \in Ids : fRefTable'[j] # NoContext => fUniqueID'[fRefTable'[j]] = j
    BY <1>2, <1>4, <1>5, <1>7, IdsPositive DEF IdsMatch, TypeOK
  <2>3. \A d \in Contexts \ {c} : fWatchEventCalled'[d] = fWatchEventCalled[d]
    BY <1>9 DEF TypeOK
  <2>4. fWatchEventCalled'[c]
    BY <1>9, Zenon DEF TypeOK
  <2>5. \A d \in Contexts : fWatchEventCalled'[d] => fFileDesc'[d] # NoFd /\ fUniqueID'[d] # 0
    BY <1>0, <1>4, <1>5, <2>3, Zenon DEF IdsMatch
  <2>6. \A d \in Contexts : fUniqueID'[d] # 0 => fWatchEventCalled'[d] \/ closing'[d] # NoFd
    BY <1>5, <2>3, <2>4, Zenon DEF IdsMatch
  <2> QED
    BY <2>1, <2>2, <2>5, <2>6 DEF IdsMatch
<1> QED
  BY <1>8, <1>10, <1>11, <1>12

\* A call that leaves the contexts and the table alone.
LEMMA SameContexts ==
    ASSUME LoopInv, UNCHANGED <<fFileDesc, fUniqueID, fWatchEventCalled, closing, fRefTable, pc, theContext>>
    PROVE  OneOwner' /\ IdsMatch' /\ HeldHasId'
  BY DEF LoopInv, OneOwner, IdsMatch, HeldHasId

\* A context that was watched before: EV_RM, or a new mask.
LEMMA WatchAgainStep ==
    ASSUME LoopInv, NEW c \in Contexts, NEW mask \in {"none", "level", "oneshot"}, fWatchEventCalled[c],
           IF mask = "none" THEN select_removeevent(fFileDesc[c])
           ELSE select_modwatch(fFileDesc[c], fUniqueID[c], mask),
           UNCHANGED <<userVars, fRefTable>>
    PROVE  /\ interest' \in [Fds -> {"none", "level", "oneshot", "fired"}]
           /\ gDataMap' \in [Fds -> Ids \cup {0}]
           /\ WatchedResolves' /\ WatchedInUse'
<1>1. fFileDesc[c] # NoFd /\ fUniqueID[c] # 0 /\ fRefTable[fUniqueID[c]] = c
  BY Zenon DEF LoopInv, IdsMatch
<1>2. UNCHANGED <<fFileDesc, fUniqueID, closing, fRefTable>>
  BY DEF userVars
<1>3. fUniqueID[c] \in Ids \cup {0}
  BY DEF LoopInv, TypeOK
<1>4. CASE UNCHANGED <<interest, gDataMap>>
  BY <1>2, <1>4, WatchesUnchanged DEF LoopInv, TypeOK
<1>5. CASE mask = "none" /\ interest' = [interest EXCEPT ![fFileDesc[c]] = "none"]
           /\ gDataMap' = [gDataMap EXCEPT ![fFileDesc[c]] = 0]
  BY <1>1, <1>2, <1>5, OwnWatchChanged
<1>6. CASE mask # "none" /\ interest' = [interest EXCEPT ![fFileDesc[c]] = mask]
           /\ gDataMap' = [gDataMap EXCEPT ![fFileDesc[c]] = fUniqueID[c]]
  BY <1>1, <1>2, <1>3, <1>6, OwnWatchChanged
<1> QED
  BY <1>4, <1>5, <1>6 DEF select_removeevent, select_modwatch

LEMMA RequestEventStep ==
    ASSUME LoopInv, NEW c \in Contexts, NEW mask \in Masks, RequestEvent(c, mask)
    PROVE  LoopInv'
<1>1. CASE mask # "none" /\ WatchFirst(c, mask)
  BY <1>1, WatchFirstStep DEF RequestEvent, Masks
<1>2. CASE WatchAgain(c, mask)
  <2>1. /\ fWatchEventCalled[c]
        /\ IF mask = "none" THEN select_removeevent(fFileDesc[c])
           ELSE select_modwatch(fFileDesc[c], fUniqueID[c], mask)
        /\ UNCHANGED <<fUniqueID, fWatchEventCalled, fRefTable>>
    BY <1>2 DEF WatchAgain
  <2>2. UNCHANGED <<fFileDesc, closing, ready, batchVars, threadVars, signalled>>
    BY DEF RequestEvent
  <2>3. /\ interest' \in [Fds -> {"none", "level", "oneshot", "fired"}] /\ gDataMap' \in [Fds -> Ids \cup {0}]
        /\ WatchedResolves' /\ WatchedInUse'
    BY <2>1, <2>2, WatchAgainStep DEF Masks, userVars
  <2>4. OneOwner' /\ IdsMatch' /\ HeldHasId'
    BY <2>1, <2>2, SameContexts DEF threadVars
  <2>5. TypeOK'
    BY <2>1, <2>2, <2>3 DEF LoopInv, TypeOK, batchVars, threadVars
  <2> QED
    BY <2>3, <2>4, <2>5 DEF LoopInv
<1> QED
  BY <1>1, <1>2 DEF RequestEvent

LEMMA RunTaskStep ==
    ASSUME LoopInv, NEW c \in Contexts, RunTask(c)
    PROVE  LoopInv'
<1>1. /\ interest' \in [Fds -> {"none", "level", "oneshot", "fired"}] /\ gDataMap' \in [Fds -> Ids \cup {0}]
      /\ WatchedResolves' /\ WatchedInUse'
  <2>1. UNCHANGED <<userVars, fRefTable>>
    BY DEF RunTask
  <2>2. CASE Owns(c) /\ fWatchEventCalled[c]
    BY <2>1, <2>2, WatchAgainStep DEF RunTask
  <2>3. CASE UNCHANGED <<interest, gDataMap>>
    BY <2>1, <2>3, WatchesUnchanged DEF LoopInv, TypeOK, userVars
  <2> QED
    BY <2>2, <2>3 DEF RunTask
<1>2. OneOwner' /\ IdsMatch' /\ HeldHasId'
  BY SameContexts DEF RunTask, userVars, threadVars
<1>3. ready' \subseteq Fds /\ signalled' \subseteq Contexts
  BY DEF RunTask, LoopInv, TypeOK
<1>4. TypeOK'
  BY <1>1, <1>3 DEF RunTask, LoopInv, TypeOK, userVars, batchVars, threadVars
<1> QED
  BY <1>1, <1>2, <1>4 DEF LoopInv

\* The context keeps its id until UnRegister() has returned, and epoll keeps
\* watching the descriptor until it is closed.
LEMMA CleanupStep ==
    ASSUME LoopInv, NEW c \in Contexts, Cleanup(c)
    PROVE  LoopInv'
<1> USE DEF LoopInv
<1>1. /\ fFileDesc[c] # NoFd /\ closing[c] = NoFd
      /\ closing' = [closing EXCEPT ![c] = fFileDesc[c]]
      /\ fFileDesc' = [fFileDesc EXCEPT ![c] = NoFd]
      /\ fWatchEventCalled' = [fWatchEventCalled EXCEPT ![c] = FALSE]
      /\ UNCHANGED <<fUniqueID, fRefTable, ready, batchVars, threadVars, signalled>>
      /\ UNCHANGED <<interest, gDataMap>>
  BY DEF Cleanup, Owns, OneOwner, select_removeevent
<1>2. TypeOK'
  <2>1. fWatchEventCalled' \in [Contexts -> BOOLEAN]
    BY <1>1 DEF TypeOK
  <2> QED
    BY <1>1, <2>1 DEF TypeOK, batchVars, threadVars
<1>3. WatchedResolves'
  BY <1>1 DEF TypeOK, WatchedResolves, Owns
<1>4. OneOwner'
  BY <1>1 DEF TypeOK, OneOwner
<1>5. WatchedInUse'
  BY <1>1 DEF TypeOK, WatchedInUse, InUse
<1>6. IdsMatch'
  <2>1. \A d \in Contexts \ {c} : /\ fWatchEventCalled'[d] = fWatchEventCalled[d] /\ closing'[d] = closing[d]
                                  /\ fFileDesc'[d] = fFileDesc[d]
    BY <1>1 DEF TypeOK
  <2>2. ~fWatchEventCalled'[c] /\ closing'[c] # NoFd
    BY <1>1 DEF TypeOK
  <2> QED
    BY <1>1, <2>1, <2>2, Zenon DEF IdsMatch
<1>7. HeldHasId'
  BY <1>1 DEF HeldHasId, threadVars
<1> QED
  BY <1>2, <1>3, <1>4, <1>5, <1>6, <1>7

\* UnRegister() has waited for the EventThread: the id it takes out of the
\* table is not the one of theContext.
LEMMA UnRegisterStep ==
    ASSUME LoopInv, NEW c \in Contexts, UnRegister(c)
    PROVE  LoopInv'
<1> USE DEF LoopInv
<1>1. /\ closing[c] # NoFd /\ fFileDesc[c] = NoFd /\ closing[c] \in Fds
      /\ fUniqueID[c] # 0 => theContext # c
      /\ fRefTable' = [id \in Ids |-> IF id = fUniqueID[c] THEN NoContext ELSE fRefTable[id]]
      /\ signalled' = signalled \ {c}
      /\ closing' = [closing EXCEPT ![c] = NoFd]
      /\ interest' = [interest EXCEPT ![closing[c]] = "none"]
      /\ ready' = ready \ {closing[c]}
      /\ fUniqueID' = [fUniqueID EXCEPT ![c] = 0]
      /\ UNCHANGED <<fFileDesc, fWatchEventCalled, gDataMap, batchVars, threadVars>>
  BY IdsPositive DEF UnRegister, Close, OneOwner, TypeOK
<1>2. TypeOK'
  BY <1>1 DEF TypeOK, batchVars, threadVars
<1>3. \A d \in Contexts \ {c} : /\ fUniqueID'[d] = fUniqueID[d]
                                /\ fUniqueID[d] # 0 => fRefTable'[fUniqueID[d]] = fRefTable[fUniqueID[d]]
  BY <1>1 DEF TypeOK, IdsMatch
<1>4. \A d \in Contexts : fFileDesc[d] # NoFd => d # c /\ fFileDesc[d] # closing[c]
  BY <1>1 DEF OneOwner
<1>5. WatchedResolves'
  <2> SUFFICES ASSUME NEW d \in Contexts, fFileDesc[d] # NoFd, interest'[fFileDesc[d]] # "none"
               PROVE  gDataMap[fFileDesc[d]] = fUniqueID'[d] /\ fUniqueID'[d] > 0 /\ fRefTable'[fUniqueID'[d]] = d
    BY <1>1 DEF WatchedResolves, Owns
  <2>1. interest[fFileDesc[d]] # "none"
    BY <1>1, <1>4 DEF TypeOK
  <2>2. gDataMap[fFileDesc[d]] = fUniqueID[d] /\ fUniqueID[d] > 0 /\ fRefTable[fUniqueID[d]] = d
    BY <2>1 DEF WatchedResolves, Owns
  <2>3. d # c /\ fUniqueID[d] # 0
    BY <1>4, <2>2
  <2>4. fUniqueID'[d] = fUniqueID[d] /\ fRefTable'[fUniqueID[d]] = fRefTable[fUniqueID[d]]
    BY <1>3, <2>3
  <2> QED
    BY <2>2, <2>4
<1>6. OneOwner'
  BY <1>1 DEF TypeOK, OneOwner
<1>7. WatchedInUse'
  BY <1>1 DEF TypeOK, WatchedInUse, InUse
<1>8. IdsMatch'
  <2>1. \A d \in Contexts : fUniqueID'[d] # 0 => fRefTable'[fUniqueID'[d]] = d
    BY <1>1, <1>3 DEF TypeOK, IdsMatch
  <2>2. \A id \in Ids : fRefTable'[id] # NoContext => fUniqueID'[fRefTable'[id]] = id
    BY <1>1, <1>3 DEF TypeOK, IdsMatch
  <2>3. fUniqueID'[c] = 0 /\ ~fWatchEventCalled[c]
    <3>1. ~fWatchEventCalled[c]
      BY <1>1, Zenon DEF IdsMatch
    <3> QED
      BY <1>1, <3>1 DEF TypeOK
  <2>4. \A d \in Contexts \ {c} : closing'[d] = closing[d] /\ fUniqueID'[d] = fUniqueID[d]
    BY <1>1, <1>3 DEF TypeOK
  <2>5. fFileDesc' = fFileDesc /\ fWatchEventCalled' = fWatchEventCalled
    BY <1>1
  <2>6. \A d \in Contexts : fWatchEventCalled[d] => fFileDesc[d] # NoFd /\ fUniqueID'[d] # 0
    BY <2>3, <2>4, Zenon DEF IdsMatch
  <2>7. \A d \in Contexts : fUniqueID'[d] # 0 => fWatchEventCalled[d] \/ closing'[d] # NoFd
    BY <2>3, <2>4, Zenon DEF IdsMatch
  <2> QED
    BY <2>1, <2>2, <2>5, <2>6, <2>7 DEF IdsMatch
<1>9. HeldHasId'
  BY <1>1, <1>3 DEF HeldHasId, TypeOK, threadVars
<1> QED
  BY <1>2, <1>5, <1>6, <1>7, <1>8, <1>9

----------------------------------------------------------------------------
(* The EventThread *)

\* The events of one epoll_wait() fill the array.
LEMMA EventsFillArray ==
    ASSUME NEW S \in SUBSET Fds, NEW events \in SetToSeqs(S)
    PROVE  events \in Seq(Fds) /\ Cardinality(S) \in Nat /\ Len(events) = Cardinality(S)
<1>1. Cardinality(S) \in Nat
  BY LoopAssumption, FS_Subset, FS_CardinalityType
<1>2. events \in [1 .. Cardinality(S) -> S]
  BY DEF SetToSeqs
<1> QED
  BY <1>1, <1>2

LEMMA EpollWaitStep == LoopInv /\ EpollWait => LoopInv'
<1> SUFFICES ASSUME LoopInv, EpollWait PROVE LoopInv'
  OBVIOUS
<1> DEFINE S == ready \cap Armed
<1>1. S \in SUBSET Fds /\ gEpollEvents' \in SetToSeqs(S) /\ gCurTotalEvents' = Cardinality(S) /\ gCurEventReadPos' = 0
  BY DEF EpollWait, Armed
<1>2. gEpollEvents' \in Seq(Fds) /\ Cardinality(S) \in Nat /\ Len(gEpollEvents') = Cardinality(S)
  BY <1>1, EventsFillArray
<1>3. \A fd \in Fds : interest'[fd] # "none" <=> interest[fd] # "none"
  BY DEF EpollWait, LoopInv, TypeOK
<1>4. TypeOK'
  BY <1>1, <1>2 DEF EpollWait, LoopInv, TypeOK, userVars, threadVars
<1>5. WatchedResolves' /\ WatchedInUse'
  BY <1>3 DEF EpollWait, LoopInv, TypeOK, WatchedResolves, WatchedInUse, Owns, InUse, userVars
<1>6. OneOwner' /\ IdsMatch' /\ HeldHasId'
  BY SameContexts DEF EpollWait, userVars, threadVars
<1> QED
  BY <1>4, <1>5, <1>6 DEF LoopInv

LEMMA TakeEventStep == LoopInv /\ TakeEvent => LoopInv'
<1> SUFFICES ASSUME LoopInv, TakeEvent PROVE LoopInv'
  OBVIOUS
<1> DEFINE next == gCurEventReadPos + 1
<1>1. next \in 1 .. gCurTotalEvents /\ gCurTotalEvents \in Nat /\ gCurTotalEvents <= Len(gEpollEvents)
  BY DEF TakeEvent, LoopInv, TypeOK
<1>2. er_data' \in Ids \cup {0}
  <2>1. gEpollEvents[next] \in Fds
    BY <1>1 DEF LoopInv, TypeOK
  <2>. QED
    BY <2>1 DEF TakeEvent, LoopInv, TypeOK
<1>3. TypeOK'
  BY <1>1, <1>2 DEF TakeEvent, LoopInv, TypeOK, userVars
<1>4. WatchedResolves' /\ WatchedInUse'
  BY WatchesUnchanged DEF TakeEvent, userVars
<1>5. OneOwner' /\ IdsMatch' /\ HeldHasId'
  BY DEF TakeEvent, LoopInv, userVars, OneOwner, IdsMatch, HeldHasId
<1> QED
  BY <1>3, <1>4, <1>5 DEF LoopInv

LEMMA ResolveStep == LoopInv /\ (Resolve \/ ProcessEvent \/ Release) => LoopInv'
<1> SUFFICES ASSUME LoopInv, Resolve \/ ProcessEvent \/ Release PROVE LoopInv'
  OBVIOUS
<1>0. UNCHANGED <<userVars, fRefTable, gDataMap, interest>>
  BY DEF Resolve, ProcessEvent, Release
<1>1. TypeOK'
  <2>1. /\ theContext' \in Contexts \cup {NoContext} /\ signalled' \subseteq Contexts
        /\ pc' \in {"wait", "resolve", "process", "release"}
    BY DEF Resolve, ProcessEvent, Release, LoopInv, TypeOK, HeldHasId
  <2> QED
    BY <1>0, <2>1 DEF Resolve, ProcessEvent, Release, LoopInv, TypeOK, userVars, batchVars
<1>2. WatchedResolves' /\ WatchedInUse'
  BY <1>0, WatchesUnchanged DEF userVars
<1>3. OneOwner' /\ IdsMatch'
  BY <1>0 DEF LoopInv, userVars, OneOwner, IdsMatch
<1>4. HeldHasId'
  <2>1. CASE Resolve
    <3>1. CASE theContext' = NoContext
      BY <2>1, <3>1 DEF Resolve, HeldHasId
    <3>2. CASE theContext' # NoContext
      <4>1. er_data \in Ids /\ theContext' = fRefTable[er_data]
        BY <2>1, <3>2 DEF Resolve, LoopInv, TypeOK
      <4>2. fUniqueID[theContext'] = er_data
        BY <3>2, <4>1 DEF LoopInv, IdsMatch
      <4> QED
        BY <1>0, <3>2, <4>1, <4>2, IdsPositive DEF HeldHasId, userVars
    <3> QED
      BY <3>1, <3>2
  <2>2. CASE ProcessEvent \/ Release
    BY <1>0, <2>2 DEF ProcessEvent, Release, LoopInv, HeldHasId, userVars
  <2> QED
    BY <2>1, <2>2
<1> QED
  BY <1>1, <1>2, <1>3, <1>4 DEF LoopInv

----------------------------------------------------------------------------

LEMMA InvStep == LoopInv /\ [Next]_vars => LoopInv'
<1> SUFFICES ASSUME LoopInv, [Next]_vars PROVE LoopInv'
  OBVIOUS
<1>1. ASSUME NEW fd \in Fds, DataArrives(fd) PROVE LoopInv'
  BY <1>1 DEF DataArrives, userVars, batchVars, threadVars, LoopInv, TypeOK, WatchedResolves, OneOwner,
              WatchedInUse, IdsMatch, HeldHasId, Owns, InUse
<1>2. CASE UNCHANGED vars
  BY <1>2 DEF vars, userVars, batchVars, threadVars, LoopInv, TypeOK, WatchedResolves, OneOwner,
              WatchedInUse, IdsMatch, HeldHasId, Owns, InUse
<1> QED
  BY <1>1, <1>2, OpenStep, RequestEventStep, RunTaskStep, CleanupStep, UnRegisterStep, EpollWaitStep,
     TakeEventStep, ResolveStep DEF Next, Entry

\* For any contexts, descriptors and ids, and descriptor numbers that are used
\* again: a watched descriptor leads to its owner and to nobody else, and no
\* context is taken out of the table while the EventThread holds it.
THEOREM LoopIsConsistent == Spec => []LoopConsistent
  BY InvInit, InvStep, InvImpliesConsistent, PTL DEF Spec

============================================================================
