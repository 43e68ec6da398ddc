------------------------------- MODULE MCCore ------------------------------
(***************************************************************************)
(* The lock, the table, the idle timers and the server, one at a time: a   *)
(* behaviour is one of the part that the initial state picks, and nothing  *)
(* happens in the others, which do not run: the idle thread has ended and  *)
(* the server has failed to start.                                         *)
(***************************************************************************)
EXTENDS RWMutex, RefTable, IdleTimer, Server, TLC
CONSTANTS Parts, r1, r2, r3, k1, k2
VARIABLE part

\* r1 and r2 have the same string, as before and after a Swap; both strings hash
\* to the same slot.
Strings == r1 :> k1 @@ r2 :> k1 @@ r3 :> k2
OneSlot == [k \in Keys |-> 0]

allVars == <<vars, refVars, idleVars, svVars, part>>

CoreInit ==
    /\ part \in Parts
    /\ Init /\ RefInit
    /\ IF part = "idle" THEN IdleInit ELSE IdleState("exit", Horizon, TRUE)
    /\ IF part = "server" THEN ServerInit ELSE ServerState("failed")

\* The server ends, and so does the modelled time; the others never do.
Ended == ((part = "server" /\ ~Running) \/ (part = "idle" /\ now = Horizon)) /\ UNCHANGED allVars

CoreNext ==
    \/ part = "lock" /\ Next /\ UNCHANGED <<refVars, idleVars, svVars, part>>
    \/ part = "table" /\ RefNext /\ UNCHANGED <<vars, idleVars, svVars, part>>
    \/ part = "idle" /\ IdleNext /\ UNCHANGED <<vars, refVars, svVars, part>>
    \/ part = "server" /\ ServerNext /\ UNCHANGED <<vars, refVars, idleVars, part>>
    \/ Ended

CoreSpec ==
    /\ CoreInit /\ [][CoreNext]_allVars
    /\ Fairness /\ RefFairness /\ IdleFairness /\ ServerFairness

\* The timers are interchangeable, and the value of one that is not in the heap is
\* not read: states are told apart by the value in each slot.
IdleView ==
    <<[i \in 1..CurrentHeapSize |-> At(i)], fArraySize, shift, pos, misplaced, now, pc, msec, elem = NoTask,
      waitVars, Cardinality(signalled), Cardinality(alive), stop, part>>
============================================================================
