-------------------------------- MODULE List --------------------------------
(***************************************************************************)
(* The doubly linked lists of stl_list.h: each is a circle of nodes through *)
(* a header, which is a node without an element.  An operation is a        *)
(* sequence of steps on a memory m (see ListNodes), with the links m.prev  *)
(* and the headers m.head, where those of sort's local lists come after    *)
(* the clients' ones; m.fill counts the lists that sort has in use.        *)
(***************************************************************************)
EXTENDS ListNodes

CONSTANTS Counters         \* the length of sort's __counter, 64 in the code

VARIABLES memory,          \* next, prev and data of the nodes, and the headers of Lists
          bad, call

vars == << memory, bad, call >>

\* Lists is 1 .. Len(head): list x's header is the node x at first.
Init ==
    LET circle == [n \in Node |-> IF n \in Lists THEN n ELSE Nil] IN
    /\ memory = [next |-> circle, prev |-> circle, head |-> [x \in Lists |-> x],
                 data |-> [n \in Node |-> IF n \in Lists THEN Raw ELSE Free]]
    /\ bad = FALSE /\ call = [op |-> "construct", turn |-> 0]

Start(fuel) ==
    memory @@ [fuel |-> fuel, threw |-> FALSE, bad |-> FALSE, node |-> Nil, fill |-> 0]

Begin(m, x) == m.next[m.head[x]]
End(m, x) == m.head[x]
Empty(m, x) == Begin(m, x) = End(m, x)

-----------------------------------------------------------------------------
(* Links *)

LinkBefore(m, pos, n) ==
    [m EXCEPT !.next[n] = pos, !.prev[n] = m.prev[pos], !.next[m.prev[pos]] = n, !.prev[pos] = n]

\* Mutant: the node before the range still has it as its next one.
TransferKeepingNext(m, pos, first, last) ==
    IF pos = last THEN m
    ELSE [m EXCEPT !.next[m.prev[last]] = pos, !.next[m.prev[pos]] = first,
                   !.prev[pos] = m.prev[last], !.prev[last] = m.prev[first],
                   !.prev[first] = m.prev[pos]]

\* Moves [first, last) before pos: every link is read before it is overwritten.
Transfer(m, pos, first, last) ==
    IF pos = last THEN m
    ELSE [m EXCEPT !.next[m.prev[last]] = pos, !.next[m.prev[first]] = last,
                   !.next[m.prev[pos]] = first,
                   !.prev[pos] = m.prev[last], !.prev[last] = m.prev[first],
                   !.prev[first] = m.prev[pos]]

InsertBefore(m, pos, value) ==
    LET made == CreateNode(m, value) IN
    IF made.threw THEN made ELSE LinkBefore(made, pos, made.node)

Erase(m, pos) ==
    PutNode(DestroyData([m EXCEPT !.next[m.prev[pos]] = m.next[pos],
                                  !.prev[m.next[pos]] = m.prev[pos]], pos), pos)

RECURSIVE InsertFill(_, _, _, _), EraseRange(_, _, _)
InsertFill(m, pos, n, arg) ==
    IF n = 0 \/ m.threw THEN m
    ELSE InsertFill(InsertBefore(m, pos, Argument(m, arg)), pos, n - 1, arg)

EraseRange(m, first, last) ==
    IF first = last THEN m ELSE EraseRange(Erase(m, first), m.next[first], last)

\* insert of [first, last) of another list
RECURSIVE InsertRange(_, _, _, _)
InsertRange(m, pos, first, last) ==
    IF first = last \/ m.threw THEN m
    ELSE InsertRange(InsertBefore(m, pos, m.data[first]), pos, m.next[first], last)

-----------------------------------------------------------------------------
(* Changing what a list holds *)

RECURSIVE ResizeFrom(_, _, _, _, _)
ResizeFrom(m, x, i, n, arg) ==
    IF i # End(m, x) /\ n > 0 THEN ResizeFrom(m, x, m.next[i], n - 1, arg)
    ELSE IF n = 0 THEN EraseRange(m, i, End(m, x))
    ELSE InsertFill(m, End(m, x), n, arg)

Resize(m, x, n, arg) == ResizeFrom(m, x, Begin(m, x), n, arg)

\* _M_fill_assign, and operator= and assign of [first, last)
RECURSIVE FillFrom(_, _, _, _, _), AssignFrom(_, _, _, _, _)
FillFrom(m, x, i, n, arg) ==
    IF m.threw THEN m
    ELSE IF i # End(m, x) /\ n > 0
    THEN FillFrom(AssignData(m, i, Argument(m, arg)), x, m.next[i], n - 1, arg)
    ELSE IF n > 0 THEN InsertFill(m, End(m, x), n, arg)
    ELSE EraseRange(m, i, End(m, x))

AssignFrom(m, x, i, first, last) ==
    IF m.threw THEN m
    ELSE IF i # End(m, x) /\ first # last
    THEN AssignFrom(AssignData(m, i, m.data[first]), x, m.next[i], m.next[first], last)
    ELSE IF first = last THEN EraseRange(m, i, End(m, x))
    ELSE InsertRange(m, End(m, x), first, last)

Assign(m, x, y) == AssignFrom(m, x, Begin(m, x), Begin(m, y), End(m, y))

RECURSIVE RemoveFrom(_, _, _, _), UniqueFrom(_, _, _)
RemoveFrom(m, i, last, value) ==
    LET compared == Spend(m) IN
    IF i = last \/ m.threw THEN m
    ELSE IF compared.threw THEN compared
    ELSE RemoveFrom(IF m.data[i] = value THEN Erase(compared, i) ELSE compared,
                    m.next[i], last, value)

UniqueFrom(m, i, last) ==
    LET next == m.next[i]
        compared == Compare(m, i, next) IN
    IF next = last THEN m
    ELSE IF compared.threw THEN compared
    ELSE IF m.data[i] = m.data[next] THEN UniqueFrom(Erase(compared, next), i, last)
    ELSE UniqueFrom(compared, next, last)

Remove(m, x, value) == RemoveFrom(m, Begin(m, x), End(m, x), value)
Unique(m, x) == IF Empty(m, x) THEN m ELSE UniqueFrom(m, Begin(m, x), End(m, x))

-----------------------------------------------------------------------------
(* Moving nodes *)

SpliceAll(m, pos, y) == IF Empty(m, y) THEN m ELSE Transfer(m, pos, Begin(m, y), End(m, y))

SpliceOne(m, pos, i) ==
    IF pos = i \/ pos = m.next[i] THEN m ELSE Transfer(m, pos, i, m.next[i])

SpliceRange(m, pos, first, last) == IF first = last THEN m ELSE Transfer(m, pos, first, last)

\* Mutant: of two equivalent elements, the argument's comes first.
RECURSIVE MergeUnstably(_, _, _, _, _)
MergeUnstably(m, first1, last1, first2, last2) ==
    LET compared == Compare(m, first2, first1) IN
    IF first2 = last2 THEN m
    ELSE IF first1 = last1 THEN Transfer(m, last1, first2, last2)
    ELSE IF compared.threw THEN compared
    ELSE IF ~Less(m.data[first1], m.data[first2])
    THEN MergeUnstably(Transfer(compared, first1, first2, m.next[first2]),
                       first1, last1, m.next[first2], last2)
    ELSE MergeUnstably(compared, m.next[first1], last1, first2, last2)

RECURSIVE MergeFrom(_, _, _, _, _)
MergeFrom(m, first1, last1, first2, last2) ==
    LET compared == Compare(m, first2, first1) IN
    IF first2 = last2 THEN m
    ELSE IF first1 = last1 THEN Transfer(m, last1, first2, last2)
    ELSE IF compared.threw THEN compared
    ELSE IF Less(m.data[first2], m.data[first1])
    THEN MergeFrom(Transfer(compared, first1, first2, m.next[first2]),
                   first1, last1, m.next[first2], last2)
    ELSE MergeFrom(compared, m.next[first1], last1, first2, last2)

Merge(m, x, y) == MergeFrom(m, Begin(m, x), End(m, x), Begin(m, y), End(m, y))

\* __List_base_reverse goes around the circle.
Reverse(m, x) ==
    LET chain == ChainTo(m.next, Begin(m, x), End(m, x), MaxNodes)
        circle == {End(m, x)} \union {chain[i] : i \in DOMAIN chain} IN
    [m EXCEPT !.next = [n \in Node |-> IF n \in circle THEN m.prev[n] ELSE @[n]],
              !.prev = [n \in Node |-> IF n \in circle THEN m.next[n] ELSE @[n]]]

SwapHeads(m, x, y) == [m EXCEPT !.head[x] = m.head[y], !.head[y] = m.head[x]]

-----------------------------------------------------------------------------
(* Sorting: __counter[i] is empty or has 2^i sorted elements. *)

CarryList == Len(memory.head) + 1
CounterList(i) == CarryList + 1 + i

\* The constructors of n local lists, and the destructors of all of them
RECURSIVE MakeLists(_, _), DestroyLists(_)
MakeLists(m, n) ==
    LET got == GetNode(m) IN
    IF n = 0 THEN m
    ELSE IF got.threw THEN got
    ELSE MakeLists([got EXCEPT !.next[got.node] = got.node, !.prev[got.node] = got.node,
                               !.head = Append(@, got.node)], n - 1)

DestroyLists(m) ==
    LET x == Len(m.head)
        cleared == EraseRange(m, Begin(m, x), End(m, x)) IN
    IF x < CarryList THEN m
    ELSE DestroyLists(PutNode([cleared EXCEPT !.head = SubSeq(@, 1, x - 1)], End(m, x)))

\* Puts the carry into the first empty counter, merging on the way there.
RECURSIVE CarryTo(_, _)
CarryTo(m, i) ==
    LET merged == Merge(m, CounterList(i), CarryList) IN
    IF i < m.fill /\ ~Empty(m, CounterList(i))
    THEN IF merged.threw THEN merged
         ELSE CarryTo(SwapHeads(merged, CarryList, CounterList(i)), i + 1)
    ELSE [SwapHeads(m, CarryList, CounterList(i)) EXCEPT !.fill = IF i = @ THEN @ + 1 ELSE @]

RECURSIVE Distribute(_, _), Collect(_, _)
Distribute(m, x) ==
    IF m.threw \/ Empty(m, x) THEN m
    ELSE Distribute(CarryTo(SpliceOne(m, Begin(m, CarryList), Begin(m, x)), 0), x)

Collect(m, i) ==
    IF m.threw \/ i >= m.fill THEN m
    ELSE Collect(Merge(m, CounterList(i), CounterList(i - 1)), i + 1)

Sort(m, x) ==
    LET made == MakeLists(m, Counters + 1)
        sorted == Collect(Distribute(made, x), 1) IN
    IF Empty(m, x) \/ m.next[Begin(m, x)] = End(m, x) THEN m
    ELSE DestroyLists(IF made.threw THEN made
                      ELSE IF sorted.threw THEN sorted
                      ELSE SwapHeads(sorted, x, CounterList(sorted.fill - 1)))

-----------------------------------------------------------------------------
(* Calls *)

Chain(x) == ChainTo(memory.next, memory.next[memory.head[x]], memory.head[x], MaxNodes)
Content(x) == [i \in DOMAIN Chain(x) |-> << Chain(x)[i], memory.data[Chain(x)[i]] >>]
Size(x) == Len(Chain(x))
At(x, pos) == IF pos = Size(x) THEN memory.head[x] ELSE Chain(x)[pos + 1]

Finish(x, m, c) ==
    /\ memory' = [next |-> m.next, prev |-> m.prev, data |-> m.data, head |-> m.head]
    /\ bad' = (bad \/ m.bad)
    /\ call' = c @@ [on |-> x, threw |-> m.threw, turn |-> 1 - call.turn]

\* Every call, with each of the things that it needs failing
Call(x, Operation(_), c) ==
    \E k \in 0 .. Plenty - Operation(Start(Plenty)).fuel :
        Finish(x, Operation(Start(IF k = 0 THEN Plenty ELSE k - 1)), c)

Given(arg) == IF arg \in Node THEN memory.data[arg] ELSE arg

CallInsert(x, pos, arg) ==
    Call(x, LAMBDA m : InsertBefore(m, At(x, pos), Argument(m, arg)),
         Replaces(pos, pos, << Given(arg) >>))

CallInsertFill(x, pos, n, arg) ==
    Call(x, LAMBDA m : InsertFill(m, At(x, pos), n, arg), Replaces(pos, pos, Times(n, Given(arg))))

CallInsertRange(x, pos, y) ==
    /\ x # y
    /\ Call(x, LAMBDA m : InsertRange(m, At(x, pos), Begin(m, y), End(m, y)),
            Replaces(pos, pos, [i \in 1 .. Size(y) |-> memory.data[Chain(y)[i]]]))

CallErase(x, pos) == Call(x, LAMBDA m : Erase(m, At(x, pos)), Replaces(pos, pos + 1, << >>))

CallEraseRange(x, from, to) ==
    Call(x, LAMBDA m : EraseRange(m, At(x, from), At(x, to)), Replaces(from, to, << >>))

CallResize(x, n, arg) ==
    Call(x, LAMBDA m : Resize(m, x, n, arg),
         IF n <= Size(x) THEN Replaces(n, Size(x), << >>)
         ELSE Replaces(Size(x), Size(x), Times(n - Size(x), Given(arg))))

CallAssignFill(x, n, arg) ==
    Call(x, LAMBDA m : FillFrom(m, x, Begin(m, x), n, arg),
         [op |-> "assign", values |-> Times(n, Given(arg))])

CallAssign(x, y) ==
    /\ x # y
    /\ Call(x, LAMBDA m : Assign(m, x, y),
            [op |-> "assign", values |-> [i \in 1 .. Size(y) |-> memory.data[Chain(y)[i]]]])

\* The value is no element of the list itself: remove goes on to compare with it (:718)
\* after it has erased an element.
CallRemove(x, value) ==
    Call(x, LAMBDA m : Remove(m, x, value), [op |-> "remove", value |-> value])

CallUnique(x) == Call(x, LAMBDA m : Unique(m, x), [op |-> "unique"])
CallReverse(x) == Call(x, LAMBDA m : Reverse(m, x), [op |-> "reverse"])
CallSort(x) == Call(x, LAMBDA m : Sort(m, x), [op |-> "sort"])

\* A list that is merged with itself may never stop moving two of its nodes.
CallMerge(x, y) ==
    x # y /\ Call(x, LAMBDA m : Merge(m, x, y), [op |-> "merge", other |-> y])

CallSpliceAll(x, pos, y) ==
    x # y /\ Call(x, LAMBDA m : SpliceAll(m, At(x, pos), y), Moves(pos, y, 0, Size(y)))

CallSpliceOne(x, pos, y, i) ==
    Call(x, LAMBDA m : SpliceOne(m, At(x, pos), At(y, i)), Moves(pos, y, i, i + 1))

\* The position is not in the range that moves.
CallSpliceRange(x, pos, y, from, to) ==
    /\ x = y => pos \notin from .. to - 1
    /\ Call(x, LAMBDA m : SpliceRange(m, At(x, pos), At(y, from), At(y, to)), Moves(pos, y, from, to))

CallSwap(x, y) ==
    x # y /\ Call(x, LAMBDA m : SwapHeads(m, x, y), [op |-> "swap", other |-> y])

CONSTANT MaxElements       \* bound on the elements that the modelled clients keep

Elements == Len(SelectSeq(memory.data, LAMBDA d : d \in Value))
Arguments == Value \union {n \in Node : memory.data[n] \in Value}

Next ==
    \E x \in Lists :
        \/ \E arg \in Arguments : \E n \in 0 .. MaxElements - Elements :
             \/ \E pos \in 0 .. Size(x) :
                  \/ n = 1 /\ CallInsert(x, pos, arg)
                  \/ CallInsertFill(x, pos, n, arg)
             \/ \E k \in 0 .. Size(x) : CallResize(x, n + k, arg) \/ CallAssignFill(x, n + k, arg)
        \/ \E pos \in 0 .. Size(x) - 1 : CallErase(x, pos)
        \/ \E from, to \in 0 .. Size(x) : from <= to /\ CallEraseRange(x, from, to)
        \/ \E value \in Value : CallRemove(x, value)
        \/ CallUnique(x) \/ CallReverse(x) \/ CallSort(x)
        \/ \E y \in Lists :
             \/ CallMerge(x, y) \/ CallSwap(x, y)
             \/ Elements + Size(y) <= MaxElements + Size(x) /\ CallAssign(x, y)
             \/ \E pos \in 0 .. Size(x) :
                  \/ Elements + Size(y) <= MaxElements /\ CallInsertRange(x, pos, y)
                  \/ CallSpliceAll(x, pos, y)
                  \/ \E i \in 0 .. Size(y) - 1 : CallSpliceOne(x, pos, y, i)
                  \/ \E from, to \in 0 .. Size(y) : from <= to /\ CallSpliceRange(x, pos, y, from, to)

Spec == Init /\ [][Next]_vars

-----------------------------------------------------------------------------
(* Properties *)

TypeOK ==
    /\ memory.next \in [Node -> Node \union {Nil}] /\ memory.prev \in [Node -> Node \union {Nil}]
    /\ memory.data \in [Node -> Value \union {Raw, Free}]
    /\ memory.head \in [Lists -> Node] /\ bad \in BOOLEAN

\* The two links of the nodes that are in use are inverse, every list is a circle
\* through its own header, and no node is anywhere but in the lists.
WellFormed ==
    /\ \A n \in Node : memory.data[n] # Free =>
         /\ {memory.next[n], memory.prev[n]} \subseteq Node
         /\ memory.prev[memory.next[n]] = n /\ memory.next[memory.prev[n]] = n
    /\ \A x \in Lists : memory.data[memory.head[x]] = Raw
    /\ \A n \in Node :
         memory.data[n] # Free <=> \E x \in Lists :
             n = memory.head[x] \/ \E i \in DOMAIN Chain(x) : Chain(x)[i] = n

\* No node or element is misused.
NothingLost == ~bad

\* The lists are what their calls say, node by node.
Contract == INSTANCE AbstractLists WITH content <- [x \in Lists |-> Content(x)]
ImplementsLists == Contract!ListsSpec

\* What a list holds does not depend on which nodes hold it.
Shape == << [x \in Lists |-> [i \in DOMAIN Content(x) |-> Content(x)[i][2]]], WellFormed, bad >>
=============================================================================
