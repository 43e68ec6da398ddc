-------------------------------- MODULE Queue ------------------------------
(***************************************************************************)
(* Queue and QueueIter (CFCore/Queue.cpp): a ring of elements through a    *)
(* sentinel.  The ring is a value; an element is a number, the sentinel is *)
(* zero.  What fNext and fPrev of an element outside of the ring are is    *)
(* kept: nobody clears them.                                               *)
(***************************************************************************)
EXTENDS Integers, Sequences

fSentinel == 0
nullptr == -1

\* "members" are the elements whose fQueue is this queue.
NewQueue(elems) ==
    [fNext |-> [e \in elems \cup {fSentinel} |-> IF e = fSentinel THEN fSentinel ELSE nullptr],
     fPrev |-> [e \in elems \cup {fSentinel} |-> IF e = fSentinel THEN fSentinel ELSE nullptr],
     members |-> {}, fLength |-> 0]

IsMember(q, elem) == elem \in q.members

EnQueue(q, elem) ==
    LET last == q.fNext[fSentinel]
    IN IF IsMember(q, elem) THEN q
       ELSE [fNext |-> [q.fNext EXCEPT ![elem] = last, ![fSentinel] = elem],
             fPrev |-> [q.fPrev EXCEPT ![elem] = fSentinel, ![last] = elem],
             members |-> q.members \cup {elem}, fLength |-> q.fLength + 1]

GetHead(q) == IF q.fLength > 0 THEN q.fPrev[fSentinel] ELSE nullptr
GetTail(q) == IF q.fLength > 0 THEN q.fNext[fSentinel] ELSE nullptr

\* The queue without its head, which is what DeQueue() returns.
DeQueue(q) ==
    LET elem == q.fPrev[fSentinel]
    IN IF q.fLength > 0
       THEN [fNext |-> [q.fNext EXCEPT ![q.fPrev[elem]] = fSentinel],
             fPrev |-> [q.fPrev EXCEPT ![fSentinel] = q.fPrev[elem]],
             members |-> q.members \ {elem}, fLength |-> q.fLength - 1]
       ELSE q

QueueRemove(q, elem) ==
    IF IsMember(q, elem)
    THEN [fNext |-> [q.fNext EXCEPT ![q.fPrev[elem]] = q.fNext[elem]],
          fPrev |-> [q.fPrev EXCEPT ![q.fNext[elem]] = q.fPrev[elem]],
          members |-> q.members \ {elem}, fLength |-> q.fLength - 1]
    ELSE q

\* An iterator is its current element; it goes from the head to the tail.
IterNext(q, current) == IF current = GetTail(q) THEN nullptr ELSE q.fPrev[current]

----------------------------------------------------------------------------
(* Queue::Test() *)

\* A step: a call with its element, and what it has to give.
Call(op, elem) == [op |-> op, elem |-> elem, expect |-> nullptr]
Gives(op, elem) == [op |-> op, elem |-> nullptr, expect |-> elem]
Ends(head, tail) == <<Gives("GetHead", head), Gives("GetTail", tail)>>

TestFifo ==
    Ends(nullptr, nullptr) \o <<Call("EnQueue", 1)>> \o Ends(1, 1)
    \o <<Gives("DeQueue", 1)>> \o Ends(nullptr, nullptr)
    \o <<Call("EnQueue", 1), Call("EnQueue", 2)>> \o Ends(1, 2)
    \o <<Gives("DeQueue", 1)>> \o Ends(2, 2) \o <<Gives("DeQueue", 2)>>
    \o <<Call("EnQueue", 1), Call("EnQueue", 2), Call("EnQueue", 3)>> \o Ends(1, 3)
    \o <<Gives("DeQueue", 1)>> \o Ends(2, 3) \o <<Gives("DeQueue", 2)>> \o Ends(3, 3)
    \o <<Gives("DeQueue", 3), Call("EnQueue", 1), Call("EnQueue", 2), Call("EnQueue", 3)>>

TestIter ==
    <<Gives("QueueIter", 3), Gives("Next", 2), Gives("Next", 1), Gives("Next", nullptr)>>

TestRemove ==
    <<Call("Remove", 1)>> \o Ends(2, 3) \o <<Call("Remove", 1)>> \o Ends(2, 3)
    \o <<Call("Remove", 3)>> \o Ends(2, 2)

\* A state of the test: the queue, the iterator and what the last call gave.
TestStep(s, call) ==
    LET q == s.q
        next == IF s.iter = nullptr THEN nullptr ELSE IterNext(q, s.iter)
        Is(op) == call.op = op
    IN [q |-> IF Is("EnQueue") THEN EnQueue(q, call.elem)
              ELSE IF Is("Remove") THEN QueueRemove(q, call.elem)
              ELSE IF Is("DeQueue") THEN DeQueue(q) ELSE q,
        iter |-> IF Is("QueueIter") THEN GetHead(q) ELSE IF Is("Next") THEN next ELSE s.iter,
        gave |-> IF Is("GetHead") \/ Is("DeQueue") \/ Is("QueueIter") THEN GetHead(q)
                 ELSE IF Is("GetTail") THEN GetTail(q) ELSE IF Is("Next") THEN next ELSE nullptr]

\* The states of the test after each of its calls.
TestStates(calls) ==
    LET After[i \in 0..Len(calls)] ==
            IF i = 0 THEN [q |-> NewQueue(1..3), iter |-> nullptr, gave |-> nullptr]
            ELSE TestStep(After[i - 1], calls[i])
    IN After
----------------------------------------------------------------------------
(***************************************************************************)
(* BufferPool (CFCore/BufferPool.cpp): buffers that are made when none is  *)
(* free and never given back to the system.  The element that links a      *)
(* buffer is in front of it, in the same allocation: both are one number.  *)
(***************************************************************************)

\* "bound" many buffers can be made; "out" is what Get() returned last.
NewPool(bound) == [fQueue |-> NewQueue(1..bound), fTotNumBuffers |-> 0, out |-> nullptr]

PoolGet(p) ==
    IF p.fQueue.fLength = 0 THEN [p EXCEPT !.fTotNumBuffers = @ + 1, !.out = p.fTotNumBuffers + 1]
    ELSE [p EXCEPT !.fQueue = DeQueue(@), !.out = GetHead(p.fQueue)]

PoolPut(p, inBuffer) == [p EXCEPT !.fQueue = EnQueue(@, inBuffer)]
============================================================================
