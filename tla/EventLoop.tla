----------------------------- MODULE EventLoop -----------------------------
(***************************************************************************)
(* Socket events: EventContext and EventThread (CFSocket/EventContext.cpp) *)
(* over the epoll layer of CFSocket/epollev.cpp.                           *)
(*                                                                         *)
(* A context owns a descriptor.  RequestEvent() gives it a unique id,      *)
(* registers it under that id in the EventThread's RefTable and watches    *)
(* the descriptor; gDataMap remembers the id of each watched descriptor.   *)
(* The EventThread takes the events of an epoll_wait one at a time, finds  *)
(* the context through gDataMap and the table, and calls its ProcessEvent, *)
(* which signals the context's task.  Cleanup() may run meanwhile: it      *)
(* waits in UnRegister() while the EventThread holds the context.          *)
(*                                                                         *)
(* The calls of one context come from its task, one after the other.       *)
(* SnarfEventContext and the shutdown by CFState are left out.  An id is   *)
(* drawn from the free ones and registered in one step: two draws are not  *)
(* interleaved here.                                                       *)
(***************************************************************************)
EXTENDS Naturals, Sequences, FiniteSets, SequencesExt

CONSTANTS
    Contexts,   \* EventContext objects
    Fds,        \* descriptors the kernel hands out
    Ids,        \* unique ids, 0 is none
    NoFd,       \* kInvalidFileDesc
    NoContext   \* nullptr

ASSUME LoopAssumption ==
    /\ Ids \subseteq Nat \ {0}
    /\ IsFiniteSet(Fds)
    /\ NoFd \notin Fds /\ NoContext \notin Contexts

VARIABLES
    fFileDesc,          \* [Contexts -> Fds \cup {NoFd}]
    fUniqueID,          \* [Contexts -> Ids \cup {0}]
    fWatchEventCalled,  \* [Contexts -> BOOLEAN]
    closing,            \* the local fd of a Cleanup() that has not closed it yet
    fRefTable,          \* [Ids -> Contexts \cup {NoContext}]
    gDataMap,           \* [Fds -> Ids \cup {0}], 0 when there is no entry
    interest,           \* what epoll watches of each descriptor
    ready,              \* descriptors with unread data
    gEpollEvents,       \* the events of the last epoll_wait
    gCurEventReadPos, gCurTotalEvents,
    pc,                 \* where the EventThread is
    er_data,            \* theCurrentEvent of Entry(): the id of its descriptor
    theContext,         \* the context Entry() has resolved
    signalled           \* contexts whose task was sent kReadEvent

userVars   == <<fFileDesc, fUniqueID, fWatchEventCalled, closing>>
batchVars  == <<gEpollEvents, gCurEventReadPos, gCurTotalEvents>>
threadVars == <<pc, er_data, theContext>>
vars == <<userVars, fRefTable, gDataMap, interest, ready, batchVars, threadVars, signalled>>

Init ==
    /\ fFileDesc = [c \in Contexts |-> NoFd]
    /\ fUniqueID = [c \in Contexts |-> 0]
    /\ fWatchEventCalled = [c \in Contexts |-> FALSE]
    /\ closing = [c \in Contexts |-> NoFd]
    /\ fRefTable = [id \in Ids |-> NoContext]
    /\ gDataMap = [fd \in Fds |-> 0]
    /\ interest = [fd \in Fds |-> "none"]
    /\ ready = {}
    /\ gEpollEvents = <<>> /\ gCurEventReadPos = 0 /\ gCurTotalEvents = 0
    /\ pc = "wait" /\ er_data = 0
    /\ theContext = NoContext
    /\ signalled = {}

Owns(c)   == fFileDesc[c] # NoFd
InUse(fd) == \E c \in Contexts : fd \in {fFileDesc[c], closing[c]}

----------------------------------------------------------------------------
(* The kernel *)

\* A socket is opened or accepted and handed to a context.
Open(c, fd) ==
    /\ ~Owns(c) /\ closing[c] = NoFd
    /\ ~InUse(fd)
    /\ fFileDesc' = [fFileDesc EXCEPT ![c] = fd]
    /\ UNCHANGED <<fUniqueID, fWatchEventCalled, closing, fRefTable, gDataMap, interest,
                   ready, batchVars, threadVars, signalled>>

DataArrives(fd) ==
    /\ InUse(fd)
    /\ fd \notin ready
    /\ ready' = ready \cup {fd}
    /\ UNCHANGED <<userVars, fRefTable, gDataMap, interest, batchVars, threadVars, signalled>>

----------------------------------------------------------------------------
(* EventContext, called by the context's task *)

\* epoll_ctl(MOD) fails with ENOENT on a descriptor that is not watched.
select_modwatch(fd, id, mask) ==
    IF interest[fd] = "none" THEN UNCHANGED <<interest, gDataMap>>
    ELSE /\ interest' = [interest EXCEPT ![fd] = mask]
         /\ gDataMap' = [gDataMap EXCEPT ![fd] = id]

\* epoll_ctl(ADD) and the entry of gDataMap, under sMapLock.
select_watchevent(fd, id, mask) ==
    /\ interest' = [interest EXCEPT ![fd] = mask]
    /\ gDataMap' = [gDataMap EXCEPT ![fd] = id]

select_removeevent(fd) ==
    IF fd = NoFd \/ interest[fd] = "none" THEN UNCHANGED <<interest, gDataMap>>
    ELSE /\ interest' = [interest EXCEPT ![fd] = "none"]
         /\ gDataMap' = [gDataMap EXCEPT ![fd] = 0]

\* The first RequestEvent(): a free id, Register(), select_watchevent().
WatchFirst(c, mask) ==
    /\ ~fWatchEventCalled[c]
    /\ \E id \in Ids :
          /\ fRefTable[id] = NoContext
          /\ fUniqueID' = [fUniqueID EXCEPT ![c] = id]
          /\ fRefTable' = [fRefTable EXCEPT ![id] = c]
          /\ select_watchevent(fFileDesc[c], id, mask)
    /\ fWatchEventCalled' = [fWatchEventCalled EXCEPT ![c] = TRUE]

\* EV_RM, and every RequestEvent() after the first one.
WatchAgain(c, mask) ==
    /\ fWatchEventCalled[c]
    /\ IF mask = "none" THEN select_removeevent(fFileDesc[c])
       ELSE select_modwatch(fFileDesc[c], fUniqueID[c], mask)
    /\ UNCHANGED <<fUniqueID, fWatchEventCalled, fRefTable>>

\* mask is "level" for EV_RE, "oneshot" for EV_REOS and "none" for EV_RM.
RequestEvent(c, mask) ==
    /\ Owns(c)
    /\ (mask # "none" /\ WatchFirst(c, mask)) \/ WatchAgain(c, mask)
    /\ UNCHANGED <<fFileDesc, closing, ready, batchVars, threadVars, signalled>>

\* The task runs on kReadEvent: it reads what there is and asks for more, as
\* HTTPSession::Run does.  The event may be for a descriptor it has given up.
RunTask(c) ==
    /\ c \in signalled
    /\ signalled' = signalled \ {c}
    /\ IF Owns(c) THEN ready' = ready \ {fFileDesc[c]} ELSE UNCHANGED ready
    /\ IF Owns(c) /\ fWatchEventCalled[c]
       THEN select_modwatch(fFileDesc[c], fUniqueID[c], "level")
       ELSE UNCHANGED <<interest, gDataMap>>
    /\ UNCHANGED <<userVars, fRefTable, batchVars, threadVars>>

\* Cleanup() up to UnRegister(): select_removeevent is given the descriptor
\* that was just overwritten, and fails.
Cleanup(c) ==
    /\ Owns(c)
    /\ closing' = [closing EXCEPT ![c] = fFileDesc[c]]
    /\ fFileDesc' = [fFileDesc EXCEPT ![c] = NoFd]
    /\ fWatchEventCalled' = [fWatchEventCalled EXCEPT ![c] = FALSE]
    /\ IF fUniqueID[c] > 0 THEN select_removeevent(NoFd) ELSE UNCHANGED <<interest, gDataMap>>
    /\ UNCHANGED <<fUniqueID, fRefTable, ready, batchVars, threadVars, signalled>>

\* close(): the kernel forgets the descriptor; its number is free again.
Close(c) ==
    /\ closing' = [closing EXCEPT ![c] = NoFd]
    /\ interest' = [interest EXCEPT ![closing[c]] = "none"]
    /\ ready' = ready \ {closing[c]}
    /\ fUniqueID' = [fUniqueID EXCEPT ![c] = 0]
    /\ UNCHANGED <<fFileDesc, fWatchEventCalled, gDataMap, batchVars, threadVars>>

\* Mutant: UnRegister() does not wait for the EventThread.
UnRegisterAtOnce(c) ==
    /\ closing[c] # NoFd
    /\ fRefTable' = [id \in Ids |-> IF id = fUniqueID[c] THEN NoContext ELSE fRefTable[id]]
    /\ signalled' = signalled \ {c}
    /\ Close(c)

\* UnRegister() returns once nobody holds the context; the rest of Cleanup(),
\* and the end of the context and of its task.
UnRegister(c) ==
    /\ closing[c] # NoFd
    /\ fUniqueID[c] > 0 => theContext # c
    /\ fRefTable' = [id \in Ids |-> IF id = fUniqueID[c] THEN NoContext ELSE fRefTable[id]]
    /\ signalled' = signalled \ {c}
    /\ Close(c)

----------------------------------------------------------------------------
(* EventThread::Entry() *)

Armed == {fd \in Fds : interest[fd] \in {"level", "oneshot"}}

\* epoll_wait() returns all events (MAX_EPOLL_FD is 20000), in any order; a one
\* shot descriptor is then off.
EpollWait ==
    LET S == ready \cap Armed IN
    /\ pc = "wait" /\ gCurTotalEvents = 0
    /\ S # {}
    /\ gEpollEvents' \in SetToSeqs(S)
    /\ gCurTotalEvents' = Cardinality(S)
    /\ interest' = [fd \in Fds |->
           IF fd \in S /\ interest[fd] = "oneshot" THEN "fired" ELSE interest[fd]]
    /\ gCurEventReadPos' = 0
    /\ UNCHANGED <<userVars, fRefTable, gDataMap, ready, threadVars, signalled>>

\* Mutant: the end of the array is tested before an event is taken.
TakeUnlessLast ==
    LET last == gCurEventReadPos >= gCurTotalEvents - 1 IN
    /\ pc = "wait" /\ gCurTotalEvents > 0
    /\ IF last THEN gCurEventReadPos' = 0 /\ gCurTotalEvents' = 0 /\ UNCHANGED threadVars
       ELSE /\ er_data' = gDataMap[gEpollEvents[gCurEventReadPos + 1]]
            /\ gCurEventReadPos' = gCurEventReadPos + 1
            /\ pc' = "resolve"
            /\ UNCHANGED <<gCurTotalEvents, theContext>>
    /\ UNCHANGED <<userVars, fRefTable, gDataMap, interest, ready, gEpollEvents, signalled>>

\* The next event of the array, and the id of its descriptor.  An array that is done
\* with is never read again: the model forgets it.
TakeEvent ==
    LET next == gCurEventReadPos + 1
        done == next >= gCurTotalEvents - 1
    IN
    /\ pc = "wait" /\ gCurTotalEvents > 0
    /\ er_data' = gDataMap[gEpollEvents[next]]
    /\ gCurEventReadPos' = IF done THEN 0 ELSE next
    /\ gCurTotalEvents' = IF done THEN 0 ELSE gCurTotalEvents
    /\ gEpollEvents' = IF done THEN <<>> ELSE gEpollEvents
    /\ pc' = "resolve"
    /\ UNCHANGED <<userVars, fRefTable, gDataMap, interest, ready, theContext,
                   signalled>>

\* Nothing is done for an id that is null or no longer in the table.
Resolve ==
    /\ pc = "resolve"
    /\ theContext' = IF er_data = 0 THEN NoContext ELSE fRefTable[er_data]
    /\ pc' = IF theContext' = NoContext THEN "wait" ELSE "process"
    /\ UNCHANGED <<userVars, fRefTable, gDataMap, interest, ready, batchVars, er_data,
                   signalled>>

\* EventContext::ProcessEvent: fTask->Signal(kReadEvent).
ProcessEvent ==
    /\ pc = "process"
    /\ signalled' = signalled \cup {theContext}
    /\ pc' = "release"
    /\ UNCHANGED <<userVars, fRefTable, gDataMap, interest, ready, batchVars, er_data,
                   theContext>>

Release ==
    /\ pc = "release"
    /\ theContext' = NoContext
    /\ pc' = "wait"
    /\ UNCHANGED <<userVars, fRefTable, gDataMap, interest, ready, batchVars, er_data,
                   signalled>>

Entry == EpollWait \/ TakeEvent \/ Resolve \/ ProcessEvent \/ Release

Masks == {"level", "oneshot", "none"}

Next ==
    \/ \E c \in Contexts :
          \/ \E fd \in Fds : Open(c, fd)
          \/ \E mask \in Masks : RequestEvent(c, mask)
          \/ RunTask(c) \/ Cleanup(c) \/ UnRegister(c)
    \/ \E fd \in Fds : DataArrives(fd)
    \/ Entry

Spec == Init /\ [][Next]_vars

\* The EventThread runs, tasks that were signalled run, and a Cleanup() that
\* waits for the table's mutex gets it: Release() signals it each time.
FairSpec ==
    /\ Spec
    /\ WF_vars(Entry)
    /\ \A c \in Contexts : WF_vars(RunTask(c)) /\ SF_vars(UnRegister(c))

----------------------------------------------------------------------------
(* Properties *)

TypeOK ==
    /\ fFileDesc \in [Contexts -> Fds \cup {NoFd}]
    /\ fUniqueID \in [Contexts -> Ids \cup {0}]
    /\ fWatchEventCalled \in [Contexts -> BOOLEAN]
    /\ closing \in [Contexts -> Fds \cup {NoFd}]
    /\ fRefTable \in [Ids -> Contexts \cup {NoContext}]
    /\ gDataMap \in [Fds -> Ids \cup {0}]
    /\ interest \in [Fds -> {"none", "level", "oneshot", "fired"}]
    /\ ready \subseteq Fds /\ signalled \subseteq Contexts
    /\ gEpollEvents \in Seq(Fds)
    /\ gCurTotalEvents \in 0 .. Len(gEpollEvents)
    /\ gCurTotalEvents > 0 => gCurEventReadPos \in 0 .. gCurTotalEvents - 1
    /\ pc \in {"wait", "resolve", "process", "release"}
    /\ er_data \in Ids \cup {0}
    /\ theContext \in Contexts \cup {NoContext}

\* A watched descriptor leads to its owner through gDataMap and the table, also
\* when the kernel has given its number out again and its old entry is stale.
WatchedResolves ==
    \A c \in Contexts : Owns(c) /\ interest[fFileDesc[c]] # "none" =>
        /\ gDataMap[fFileDesc[c]] = fUniqueID[c]
        /\ fUniqueID[c] > 0
        /\ fRefTable[fUniqueID[c]] = c

\* The comment in TCPListenerSocket::Run: ProcessEvent cannot be going on when
\* the object gets deleted, "because the resolve / release mechanism of
\* EventContext will ensure this Thread will block".
HeldIsRegistered ==
    theContext # NoContext => \E id \in Ids : fRefTable[id] = theContext

\* The contexts, the table, gDataMap and epoll agree, and the event thread holds no
\* context that is gone.
LoopConsistent == TypeOK /\ WatchedResolves /\ HeldIsRegistered

\* Events of level triggered descriptors reach the context's task, although
\* epoll_waitevent discards some: epoll reports them again.
LevelEventDelivered ==
    <>[][~\E fd \in Fds : DataArrives(fd)]_vars =>
        \A c \in Contexts, fd \in Fds :
            (fFileDesc[c] = fd /\ interest[fd] = "level" /\ fd \in ready)
                ~> (c \in signalled \/ fFileDesc[c] # fd \/ interest[fd] # "level")

\* EventContext.h on ProcessEvent: "When an event occurs on this file
\* descriptor, this function will get called."
OneShotEventDelivered ==
    \A c \in Contexts, fd \in Fds :
        (fFileDesc[c] = fd /\ interest[fd] = "fired")
            ~> (c \in signalled \/ fFileDesc[c] # fd \/ interest[fd] # "fired")
============================================================================
