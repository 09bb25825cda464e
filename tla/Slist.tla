-------------------------------- MODULE Slist --------------------------------
(***************************************************************************)
(* The singly linked lists of stl_slist.h.  A list is its _M_head, which    *)
(* has a link and no element, and the last node's link is null.  What comes *)
(* before a node is found by a walk from the head.  The heads are numbered *)
(* after the nodes; those of sort's local lists exist during the call only. *)
(***************************************************************************)
EXTENDS ListNodes

CONSTANTS Counters         \* the length of sort's __counter, 64 in the code

VARIABLES memory,          \* next, of the nodes and the heads, and data of the nodes
          bad, call

vars == << memory, bad, call >>

HeadOf(x) == MaxNodes + x
ClientHeads == {MaxNodes + x : x \in Lists}

Init ==
    /\ memory = [next |-> [n \in Node \union ClientHeads |-> Nil], data |-> [n \in Node |-> Free]]
    /\ bad = FALSE /\ call = [op |-> "construct", turn |-> 0]

Start(fuel) == memory @@ [fuel |-> fuel, threw |-> FALSE, bad |-> FALSE, node |-> Nil, fill |-> 0]

Empty(m, x) == m.next[HeadOf(x)] = Nil

\* __slist_previous
RECURSIVE Previous(_, _, _)
Previous(m, head, n) ==
    IF head = Nil \/ m.next[head] = n THEN head ELSE Previous(m, m.next[head], n)

-----------------------------------------------------------------------------
(* Links *)

\* __slist_make_link
MakeLink(m, prev, n) == [m EXCEPT !.next[n] = m.next[prev], !.next[prev] = n]

\* Moves (beforeFirst, beforeLast] behind pos: __slist_splice_after
SpliceAfter(m, pos, beforeFirst, beforeLast) ==
    IF pos = beforeFirst \/ pos = beforeLast THEN m
    ELSE [m EXCEPT !.next[beforeFirst] = m.next[beforeLast], !.next[pos] = m.next[beforeFirst],
                   !.next[beforeLast] = m.next[pos]]

\* ... and all of the list with that head
SpliceAfterAll(m, pos, head) ==
    LET last == Previous(m, head, Nil) IN
    IF last = head THEN m
    ELSE [m EXCEPT !.next[pos] = m.next[head], !.next[head] = Nil, !.next[last] = m.next[pos]]

\* _M_insert_after, _M_insert_after_fill and _M_insert_after_range
RECURSIVE InsertAfterFill(_, _, _, _), InsertAfterRange(_, _, _)
InsertAfter(m, pos, value) ==
    LET made == CreateNode(m, value) IN
    IF made.threw THEN made ELSE MakeLink(made, pos, made.node)

InsertAfterFill(m, pos, n, arg) ==
    LET inserted == InsertAfter(m, pos, Argument(m, arg)) IN
    IF n = 0 \/ m.threw THEN m ELSE InsertAfterFill(inserted, inserted.node, n - 1, arg)

InsertAfterRange(m, pos, first) ==
    LET inserted == InsertAfter(m, pos, m.data[first]) IN
    IF first = Nil \/ m.threw THEN m ELSE InsertAfterRange(inserted, inserted.node, m.next[first])

Release(m, n) == PutNode(DestroyData(m, n), n)

\* _M_erase_after
EraseAfter(m, pos) == Release([m EXCEPT !.next[pos] = m.next[m.next[pos]]], m.next[pos])

RECURSIVE ReleaseTo(_, _, _)
ReleaseTo(m, n, last) == IF n = last THEN m ELSE ReleaseTo(Release(m, n), m.next[n], last)

EraseAfterTo(m, beforeFirst, last) ==
    [ReleaseTo(m, m.next[beforeFirst], last) EXCEPT !.next[beforeFirst] = last]

-----------------------------------------------------------------------------
(* Changing what a list holds *)

RECURSIVE ResizeFrom(_, _, _, _)
ResizeFrom(m, n, length, arg) ==
    IF m.next[n] # Nil /\ length > 0 THEN ResizeFrom(m, m.next[n], length - 1, arg)
    ELSE IF m.next[n] # Nil THEN EraseAfterTo(m, n, Nil)
    ELSE InsertAfterFill(m, n, length, arg)

\* _M_fill_assign, and operator= and assign of what follows from first
RECURSIVE FillFrom(_, _, _, _), AssignFrom(_, _, _)
FillFrom(m, prev, n, arg) ==
    LET i == m.next[prev] IN
    IF m.threw THEN m
    ELSE IF i # Nil /\ n > 0 THEN FillFrom(AssignData(m, i, Argument(m, arg)), i, n - 1, arg)
    ELSE IF n > 0 THEN InsertAfterFill(m, prev, n, arg)
    ELSE EraseAfterTo(m, prev, Nil)

AssignFrom(m, prev, first) ==
    LET i == m.next[prev] IN
    IF m.threw THEN m
    ELSE IF i # Nil /\ first # Nil
    THEN AssignFrom(AssignData(m, i, m.data[first]), i, m.next[first])
    ELSE IF first = Nil THEN EraseAfterTo(m, prev, Nil)
    ELSE InsertAfterRange(m, prev, first)

RECURSIVE RemoveAfter(_, _, _), UniqueFrom(_, _)
RemoveAfter(m, cur, value) ==
    LET i == m.next[cur]
        compared == Spend(m) IN
    IF i = Nil THEN m
    ELSE IF compared.threw THEN compared
    ELSE IF m.data[i] = value THEN RemoveAfter(EraseAfter(compared, cur), cur, value)
    ELSE RemoveAfter(compared, i, value)

UniqueFrom(m, cur) ==
    LET i == m.next[cur]
        compared == Compare(m, cur, i) IN
    IF i = Nil THEN m
    ELSE IF compared.threw THEN compared
    ELSE IF m.data[cur] = m.data[i] THEN UniqueFrom(EraseAfter(compared, cur), cur)
    ELSE UniqueFrom(compared, i)

Unique(m, x) == IF Empty(m, x) THEN m ELSE UniqueFrom(m, m.next[HeadOf(x)])

-----------------------------------------------------------------------------
(* Moving nodes *)

SpliceAll(m, x, pos, y) ==
    IF Empty(m, y) THEN m
    ELSE SpliceAfter(m, Previous(m, HeadOf(x), pos), HeadOf(y), Previous(m, HeadOf(y), Nil))

SpliceOne(m, x, pos, y, i) ==
    SpliceAfter(m, Previous(m, HeadOf(x), pos), Previous(m, HeadOf(y), i), i)

SpliceRange(m, x, pos, y, first, last) ==
    IF first = last THEN m
    ELSE SpliceAfter(m, Previous(m, HeadOf(x), pos), Previous(m, HeadOf(y), first),
                     Previous(m, first, last))

\* Behind n1, elements of the list with head y come in where they are less.
RECURSIVE MergeFrom(_, _, _)
MergeFrom(m, n1, y) ==
    LET first1 == m.next[n1]
        first2 == m.next[y]
        compared == Compare(m, first2, first1) IN
    IF first2 = Nil THEN m
    ELSE IF first1 = Nil THEN [m EXCEPT !.next[n1] = first2, !.next[y] = Nil]
    ELSE IF compared.threw THEN compared
    ELSE IF Less(m.data[first2], m.data[first1])
    THEN MergeFrom(SpliceAfter(compared, n1, y, first2), first2, y)
    ELSE MergeFrom(compared, first1, y)

Merge(m, x, y) == MergeFrom(m, HeadOf(x), HeadOf(y))

\* __slist_reverse: the nodes from n on go before those from result on.
RECURSIVE ReverseOnto(_, _, _)
ReverseOnto(m, result, n) ==
    IF n = Nil THEN << m, result >>
    ELSE ReverseOnto([m EXCEPT !.next[n] = result], n, m.next[n])

Reverse(m, x) ==
    LET reversed == ReverseOnto(m, Nil, m.next[HeadOf(x)]) IN
    IF Empty(m, x) THEN m ELSE [reversed[1] EXCEPT !.next[HeadOf(x)] = reversed[2]]

SwapHeads(m, x, y) ==
    [m EXCEPT !.next[HeadOf(x)] = m.next[HeadOf(y)], !.next[HeadOf(y)] = m.next[HeadOf(x)]]

-----------------------------------------------------------------------------
(* Sorting: __counter[i] is empty or has 2^i sorted elements. *)

CarryList == 1 + CHOOSE x \in Lists : \A y \in Lists : y <= x
CounterList(i) == CarryList + 1 + i

MakeLists(m) ==
    [m EXCEPT !.next = @ @@ [n \in HeadOf(CarryList) .. HeadOf(CounterList(Counters - 1)) |-> Nil]]

RECURSIVE DestroyFrom(_, _)
DestroyFrom(m, x) ==
    IF x = CounterList(Counters) THEN [m EXCEPT !.next = [n \in DOMAIN memory.next |-> m.next[n]]]
    ELSE DestroyFrom(EraseAfterTo(m, HeadOf(x), Nil), x + 1)

\* Mutant: the counter is merged into the carry.
RECURSIVE CarryToUnstably(_, _)
CarryToUnstably(m, i) ==
    LET merged == Merge(m, CarryList, CounterList(i)) IN
    IF i < m.fill /\ ~Empty(m, CounterList(i))
    THEN IF merged.threw THEN merged ELSE CarryToUnstably(merged, i + 1)
    ELSE [SwapHeads(m, CarryList, CounterList(i)) EXCEPT !.fill = IF i = @ THEN @ + 1 ELSE @]

\* Puts the carry into the first empty counter, merging on the way there.
RECURSIVE CarryTo(_, _)
CarryTo(m, i) ==
    LET merged == Merge(m, CounterList(i), CarryList) IN
    IF i < m.fill /\ ~Empty(m, CounterList(i))
    THEN IF merged.threw THEN merged
         ELSE CarryTo(SwapHeads(merged, CarryList, CounterList(i)), i + 1)
    ELSE [SwapHeads(m, CarryList, CounterList(i)) EXCEPT !.fill = IF i = @ THEN @ + 1 ELSE @]

RECURSIVE Distribute(_, _), Collect(_, _)
Distribute(m, x) ==
    IF m.threw \/ Empty(m, x) THEN m
    ELSE Distribute(CarryTo(SpliceAfter(m, HeadOf(CarryList), HeadOf(x), m.next[HeadOf(x)]), 0), x)

Collect(m, i) ==
    IF m.threw \/ i >= m.fill THEN m
    ELSE Collect(Merge(m, CounterList(i), CounterList(i - 1)), i + 1)

Sort(m, x) ==
    LET sorted == Collect(Distribute(MakeLists(m), x), 1) IN
    IF Empty(m, x) \/ m.next[m.next[HeadOf(x)]] = Nil THEN m
    ELSE DestroyFrom(IF sorted.threw THEN sorted
                     ELSE SwapHeads(sorted, x, CounterList(sorted.fill - 1)), CarryList)

-----------------------------------------------------------------------------
(* Calls *)

Chain(x) == ChainTo(memory.next, memory.next[HeadOf(x)], Nil, MaxNodes)
Content(x) == [i \in DOMAIN Chain(x) |-> << Chain(x)[i], memory.data[Chain(x)[i]] >>]
Size(x) == Len(Chain(x))

\* end() is null; before_begin() is the head.
At(x, pos) == IF pos = Size(x) THEN Nil ELSE Chain(x)[pos + 1]
Before(x, pos) == IF pos = 0 THEN HeadOf(x) ELSE Chain(x)[pos]

Finish(x, m, c) ==
    /\ memory' = [next |-> m.next, data |-> m.data]
    /\ bad' = (bad \/ m.bad)
    /\ call' = c @@ [on |-> x, threw |-> m.threw, turn |-> 1 - call.turn]

\* Every call, with each of the things that it needs failing
Call(x, Operation(_), c) ==
    \E k \in 0 .. Plenty - Operation(Start(Plenty)).fuel :
        Finish(x, Operation(Start(IF k = 0 THEN Plenty ELSE k - 1)), c)

Given(arg) == IF arg \in Node THEN memory.data[arg] ELSE arg
ValuesOf(y) == [i \in 1 .. Size(y) |-> memory.data[Chain(y)[i]]]

\* push_front, insert_after and, with a walk to the position, insert
CallInsertAfter(x, pos, n, arg) ==
    Call(x, LAMBDA m : InsertAfterFill(m, Before(x, pos), n, arg),
         Replaces(pos, pos, Times(n, Given(arg))))

CallInsert(x, pos, n, arg) ==
    Call(x, LAMBDA m : InsertAfterFill(m, Previous(m, HeadOf(x), At(x, pos)), n, arg),
         Replaces(pos, pos, Times(n, Given(arg))))

CallInsertRange(x, pos, y) ==
    /\ x # y
    /\ Call(x, LAMBDA m : InsertAfterRange(m, Previous(m, HeadOf(x), At(x, pos)), m.next[HeadOf(y)]),
            Replaces(pos, pos, ValuesOf(y)))

\* pop_front, erase_after and erase
CallEraseAfter(x, pos) ==
    Call(x, LAMBDA m : EraseAfter(m, Before(x, pos)), Replaces(pos, pos + 1, << >>))

CallErase(x, pos) ==
    Call(x, LAMBDA m : EraseAfter(m, Previous(m, HeadOf(x), At(x, pos))), Replaces(pos, pos + 1, << >>))

CallEraseRange(x, from, to) ==
    Call(x, LAMBDA m : EraseAfterTo(m, Previous(m, HeadOf(x), At(x, from)), At(x, to)),
         Replaces(from, to, << >>))

CallResize(x, n, arg) ==
    Call(x, LAMBDA m : ResizeFrom(m, HeadOf(x), n, arg),
         IF n <= Size(x) THEN Replaces(n, Size(x), << >>)
         ELSE Replaces(Size(x), Size(x), Times(n - Size(x), Given(arg))))

CallAssignFill(x, n, arg) ==
    Call(x, LAMBDA m : FillFrom(m, HeadOf(x), n, arg),
         [op |-> "assign", values |-> Times(n, Given(arg))])

CallAssign(x, y) ==
    /\ x # y
    /\ Call(x, LAMBDA m : AssignFrom(m, HeadOf(x), m.next[HeadOf(y)]),
            [op |-> "assign", values |-> ValuesOf(y)])

\* The value is no element of the list itself: remove goes on to compare with it (:857)
\* after it has erased an element.
CallRemove(x, value) ==
    Call(x, LAMBDA m : RemoveAfter(m, HeadOf(x), value), [op |-> "remove", value |-> value])

CallUnique(x) == Call(x, LAMBDA m : Unique(m, x), [op |-> "unique"])
CallReverse(x) == Call(x, LAMBDA m : Reverse(m, x), [op |-> "reverse"])
CallSort(x) == Call(x, LAMBDA m : Sort(m, x), [op |-> "sort"])

\* A list that is merged with itself may become a circle.
CallMerge(x, y) ==
    x # y /\ Call(x, LAMBDA m : Merge(m, x, y), [op |-> "merge", other |-> y])

CallSpliceAfterAll(x, pos, y) ==
    /\ x # y
    /\ Call(x, LAMBDA m : SpliceAfterAll(m, Before(x, pos), HeadOf(y)), Moves(pos, y, 0, Size(y)))

CallSpliceAll(x, pos, y) ==
    x # y /\ Call(x, LAMBDA m : SpliceAll(m, x, At(x, pos), y), Moves(pos, y, 0, Size(y)))

CallSpliceAfterOne(x, pos, y, i) ==
    Call(x, LAMBDA m : SpliceAfter(m, Before(x, pos), Before(y, i), m.next[Before(y, i)]),
         Moves(pos, y, i, i + 1))

CallSpliceOne(x, pos, y, i) ==
    Call(x, LAMBDA m : SpliceOne(m, x, At(x, pos), y, At(y, i)), Moves(pos, y, i, i + 1))

\* The position is not in the range that moves.
CallSpliceAfterRange(x, pos, y, from, to) ==
    /\ from < to /\ (x = y => pos \notin from + 1 .. to - 1)
    /\ Call(x, LAMBDA m : SpliceAfter(m, Before(x, pos), Before(y, from), Before(y, to)),
            Moves(pos, y, from, to))

CallSpliceRange(x, pos, y, from, to) ==
    /\ x = y => pos \notin from + 1 .. to - 1
    /\ Call(x, LAMBDA m : SpliceRange(m, x, At(x, pos), y, At(y, from), At(y, to)),
            Moves(pos, y, from, to))

CallSwap(x, y) ==
    x # y /\ Call(x, LAMBDA m : SwapHeads(m, x, y), [op |-> "swap", other |-> y])

CONSTANT MaxElements       \* bound on the elements that the modelled clients keep

Elements == Len(SelectSeq(memory.data, LAMBDA d : d \in Value))
Arguments == Value \union {n \in Node : memory.data[n] \in Value}

Next ==
    \E x \in Lists :
        \/ \E arg \in Arguments : \E n \in 0 .. MaxElements - Elements :
             \/ \E pos \in 0 .. Size(x) : CallInsertAfter(x, pos, n, arg) \/ CallInsert(x, pos, n, arg)
             \/ \E k \in 0 .. Size(x) : CallResize(x, n + k, arg) \/ CallAssignFill(x, n + k, arg)
        \/ \E pos \in 0 .. Size(x) - 1 : CallEraseAfter(x, pos) \/ CallErase(x, pos)
        \/ \E from, to \in 0 .. Size(x) : from <= to /\ CallEraseRange(x, from, to)
        \/ \E value \in Value : CallRemove(x, value)
        \/ CallUnique(x) \/ CallReverse(x) \/ CallSort(x)
        \/ \E y \in Lists :
             \/ CallMerge(x, y) \/ CallSwap(x, y)
             \/ Elements + Size(y) <= MaxElements + Size(x) /\ CallAssign(x, y)
             \/ \E pos \in 0 .. Size(x) :
                  \/ Elements + Size(y) <= MaxElements /\ CallInsertRange(x, pos, y)
                  \/ CallSpliceAfterAll(x, pos, y) \/ CallSpliceAll(x, pos, y)
                  \/ \E i \in 0 .. Size(y) - 1 :
                       CallSpliceAfterOne(x, pos, y, i) \/ CallSpliceOne(x, pos, y, i)
                  \/ \E from, to \in 0 .. Size(y) :
                       /\ from <= to
                       /\ \/ CallSpliceAfterRange(x, pos, y, from, to)
                          \/ CallSpliceRange(x, pos, y, from, to)

Spec == Init /\ [][Next]_vars

-----------------------------------------------------------------------------
(* Properties *)

TypeOK ==
    /\ memory.next \in [Node \union ClientHeads -> Node \union {Nil}]
    /\ memory.data \in [Node -> Value \union {Raw, Free}] /\ bad \in BOOLEAN

\* The lists are chains that end, share no node, and have all that are in use.
WellFormed ==
    /\ \A x \in Lists : Chain(x) # << >> => memory.next[Chain(x)[Size(x)]] = Nil
    /\ \A x, y \in Lists : \A i \in DOMAIN Chain(x), j \in DOMAIN Chain(y) :
         Chain(x)[i] = Chain(y)[j] => x = y /\ i = j
    /\ \A n \in Node :
         memory.data[n] # Free <=> \E x \in Lists : \E i \in DOMAIN Chain(x) : Chain(x)[i] = n

\* No node or element is misused.
NothingLost == ~bad

\* The lists are what their calls say, node by node.
Contract == INSTANCE AbstractLists WITH content <- [x \in Lists |-> Content(x)]
ImplementsLists == Contract!ListsSpec

\* What a list holds does not depend on which nodes hold it.
Shape == << [x \in Lists |-> [i \in DOMAIN Content(x) |-> Content(x)[i][2]]], WellFormed, bad >>
=============================================================================
