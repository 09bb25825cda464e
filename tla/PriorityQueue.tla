---------------------------- MODULE PriorityQueue ----------------------------
(***************************************************************************)
(* The priority_queue of stl_queue.h: a vector that it keeps a heap.  When  *)
(* the vector or a comparison throws, the handlers clear the vector.       *)
(***************************************************************************)
EXTENDS Heaps, FiniteSets, TLC

CONSTANTS Keys,            \* what the comparison compares
          MaxQueue         \* bound on the elements that the modelled client pushes

VARIABLES queue,           \* the container c
          call

vars == << queue, call >>

end == Len(queue) + 1

Init == queue = << >> /\ call = [op |-> "construct", threw |-> FALSE, turn |-> 0]

Becomes(s, c) == queue' = s /\ call' = c @@ [threw |-> FALSE, turn |-> 1 - call.turn]

\* __STL_UNWIND(c.clear()), wherever push_back, push_heap or pop_heap has thrown
Throws(op) == queue' = << >> /\ call' = [op |-> op, threw |-> TRUE, turn |-> 1 - call.turn]

\* Mutant: the heap is left as it was, with the new element behind it.
PushedBack(x) == Append(queue, x)
Pushed(x) == PushHeap(Append(queue, x), 1, end + 1)

Push(x) == Becomes(Pushed(x), [op |-> "push", x |-> x]) \/ Throws("push")

Pop ==
    /\ queue # << >>
    /\ \/ Becomes(SubSeq(PopHeap(queue, 1, end), 1, Len(queue) - 1), [op |-> "pop"])
       \/ Throws("pop")

\* A queue that is made of this one's elements and of some more
Construct(s) ==
    Becomes(MakeHeap(queue \o s, 1, end + Len(s)), [op |-> "make", more |-> s])

Element == [key : Keys]

Next ==
    \/ \E x \in Element : Len(queue) < MaxQueue /\ Push(x)
    \/ Pop
    \/ \E x, y \in Element : Len(queue) + 2 <= MaxQueue /\ Construct(<< x, y >>)

Spec == Init /\ [][Next]_vars

-----------------------------------------------------------------------------
(* Properties *)

\* The vector is a heap, so that front() is the element that comes last in the order.
WellFormed == IsHeap(queue, 1, end)

Number(s, x) == Cardinality({i \in DOMAIN s : s[i] = x})
Largest(s, x) == Number(s, x) > 0 /\ \A i \in DOMAIN s : ~Less(x, s[i])

\* A queue is a bag, of which pop takes a largest element: the one that top() returns.
Promise(c, s, r) ==
    \/ c.threw /\ r = << >>
    \/ c.op = "push" /\ \A x \in Element : Number(r, x) = Number(Append(s, c.x), x)
    \/ c.op = "make" /\ \A x \in Element : Number(r, x) = Number(s \o c.more, x)
    \/ /\ c.op = "pop" /\ Largest(s, s[1])
       /\ \A x \in Element : Number(r, x) = Number(s, x) - (IF x = s[1] THEN 1 ELSE 0)

ImplementsQueue == [][Promise(call', queue, queue')]_vars
=============================================================================
