------------------------------- MODULE Deque --------------------------------
(***************************************************************************)
(* The deques of stl_deque.h: blocks of m.buf cells, the "nodes", found   *)
(* through an array of pointers, the "map".  A position is the number of   *)
(* cells from the beginning of the map's first node, so an iterator's node *)
(* and cur are its quotient and remainder.  An operation is a sequence of  *)
(* steps on a memory m (see Elements), where m.map holds the blocks of the *)
(* nodes and 0 for a pointer to none, and blocks from m.next on are unused. *)
(***************************************************************************)
EXTENDS Elements

CONSTANTS Value, Deques,
          Ranges,            \* the sequences of values that clients pass as ranges
          BufSizes,          \* values of __deque_buf_size, which are 1 to 512 in the code
          InitialMapSize,    \* _S_initial_map_size, 8 in the code
          MaxSize,           \* bound, for each of them, on the elements that clients keep
          Plenty             \* more allocations and copies than any call makes

VARIABLES deque,             \* [Deques -> [buf, map, start, finish]], with the nodes in the map
          bad,               \* an element was misused, or one or a node lost
          call               \* the last call

vars == << deque, bad, call >>

EmptyNode(m) == Times(m.buf, Raw)

NodeOf(m, p) == p \div m.buf
StartNode(m) == NodeOf(m, m.start)
FinishNode(m) == NodeOf(m, m.finish)
NodesOf(m) == FinishNode(m) - StartNode(m) + 1
Size(m) == m.finish - m.start

\* _M_initialize_map: the map for some nodes, and the first of them
MapSizeFor(nodes) == Larger(InitialMapSize, nodes + 2)
Centred(mapSize, nodes) == (mapSize - nodes) \div 2

\* An empty deque has one node.
EmptyDeque(buf, first) ==
    [buf |-> buf, start |-> first * buf, finish |-> first * buf,
     map |-> [i \in 1 .. MapSizeFor(1) |-> IF i = first + 1 THEN Times(buf, Raw) ELSE << >>]]

Init ==
    /\ \E buf \in BufSizes : deque = [x \in Deques |-> EmptyDeque(buf, Centred(MapSizeFor(1), 1))]
    /\ bad = FALSE /\ call = [op |-> "construct", turn |-> 0]

\* The nodes, in the order of the map, are blocks 1, 2, ...
Start(d, fuel) ==
    [mem |-> [b \in 0 .. NodesOf(d) + MaxSize[d.buf] + 2 |->
                IF b \in 1 .. NodesOf(d) THEN d.map[StartNode(d) + b] ELSE << >>],
     map |-> [i \in DOMAIN d.map |->
                IF i - StartNode(d) \in 1 .. NodesOf(d) THEN i - StartNode(d) ELSE 0],
     buf |-> d.buf, start |-> d.start, finish |-> d.finish, next |-> NodesOf(d) + 1,
     fuel |-> fuel, threw |-> FALSE, bad |-> FALSE]

BlockAt(m, node) == IF node + 1 \in DOMAIN m.map THEN m.map[node + 1] ELSE 0
Addr(m, p) == << BlockAt(m, NodeOf(m, p)), (p % m.buf) + 1 >>
At(m, from, to) == [j \in 1 .. to - from |-> Addr(m, from + j - 1)]
Elems(m, from, to) == Read(m, At(m, from, to))

\* An element; an argument is a value of its own, or the index of an element.
Element(m, i) == Cell(m, Addr(m, m.start + i))
Argument(m, arg) == IF arg \in Value THEN arg ELSE Element(m, arg)

-----------------------------------------------------------------------------
(* Nodes and the map *)

\* _M_create_nodes and the loops of _M_new_elements_at_front and _at_back, for
\* nodes [from, to): those allocated are freed if one cannot be.
NewNodes(m, from, to) ==
    IF m.threw THEN m
    ELSE IF m.fuel < to - from THEN Spend(m, to - from)
    ELSE [Spend(m, to - from) EXCEPT
            !.map = [i \in DOMAIN @ |->
                       IF i \in from + 1 .. to THEN m.next + (i - 1 - from) ELSE @[i]],
            !.mem = [b \in DOMAIN @ |->
                       IF b \in m.next .. m.next + (to - from) - 1 THEN EmptyNode(m) ELSE @[b]],
            !.next = @ + (to - from)]

DestroyNodes(m, from, to) ==
    LET blocks == {BlockAt(m, node) : node \in from .. to - 1} IN
    Misused([m EXCEPT !.map = [i \in DOMAIN @ |-> IF i \in from + 1 .. to THEN 0 ELSE @[i]],
                      !.mem = [b \in DOMAIN @ |-> IF b \in blocks THEN << >> ELSE @[b]]],
            0 \in blocks \/ \E b \in blocks : ValuesIn(m.mem[b]) \ {Raw} # {})

\* The pointers [start.node, finish.node] go to first and after of a map of some
\* size; what is left elsewhere points to no node.
MoveMap(m, mapSize, first) ==
    LET offset == first - StartNode(m) IN
    [m EXCEPT !.map = [i \in 1 .. mapSize |->
                         IF i - 1 - offset \in StartNode(m) .. FinishNode(m)
                         THEN m.map[i - offset] ELSE 0],
              !.start = @ + offset * m.buf, !.finish = @ + offset * m.buf]

LargerMapSize(m, add) == Len(m.map) + Larger(Len(m.map), add) + 2
NewFirst(m, mapSize, add, atFront) ==
    Centred(mapSize, NodesOf(m) + add) + IF atFront THEN add ELSE 0

ReallocateMap(m, add, atFront) ==
    IF Len(m.map) > 2 * (NodesOf(m) + add)
    THEN MoveMap(m, Len(m.map), NewFirst(m, Len(m.map), add, atFront))
    ELSE IF m.fuel = 0 THEN Spend(m, 1)
    ELSE MoveMap(Spend(m, 1), LargerMapSize(m, add),
                 NewFirst(m, LargerMapSize(m, add), add, atFront))

\* Mutant: room for the new nodes but not for finish's own.
ReserveMapAtBackTight(m, add) ==
    IF ~m.threw /\ add > Len(m.map) - FinishNode(m) THEN ReallocateMap(m, add, FALSE) ELSE m

ReserveMapAtBack(m, add) ==
    IF ~m.threw /\ add + 1 > Len(m.map) - FinishNode(m) THEN ReallocateMap(m, add, FALSE) ELSE m

ReserveMapAtFront(m, add) ==
    IF ~m.threw /\ add > StartNode(m) THEN ReallocateMap(m, add, TRUE) ELSE m

NodesFor(m, n) == (n + m.buf - 1) \div m.buf

NodesBefore(m, add) == NewNodes(m, StartNode(m) - add, StartNode(m))
NodesBehind(m, add) == NewNodes(m, FinishNode(m) + 1, FinishNode(m) + 1 + add)

\* _M_new_elements_at_front, _M_new_elements_at_back
NewElementsAtFront(m, n) == NodesBefore(ReserveMapAtFront(m, NodesFor(m, n)), NodesFor(m, n))
NewElementsAtBack(m, n) == NodesBehind(ReserveMapAtBack(m, NodesFor(m, n)), NodesFor(m, n))

RoomAtFront(m) == m.start % m.buf
RoomAtBack(m) == m.buf - (m.finish % m.buf) - 1

ReserveElementsAtFront(m, n) ==
    IF n > RoomAtFront(m) THEN NewElementsAtFront(m, n - RoomAtFront(m)) ELSE m
ReserveElementsAtBack(m, n) ==
    IF n > RoomAtBack(m) THEN NewElementsAtBack(m, n - RoomAtBack(m)) ELSE m

-----------------------------------------------------------------------------
(* Elements at the ends *)

\* _M_start or _M_finish moves over new elements, or their nodes go.
NewStart(m, p) ==
    IF m.threw THEN DestroyNodes(m, NodeOf(m, p), StartNode(m)) ELSE [m EXCEPT !.start = p]
NewFinish(m, p) ==
    IF m.threw THEN DestroyNodes(m, FinishNode(m) + 1, NodeOf(m, p) + 1)
    ELSE [m EXCEPT !.finish = p]

\* Elements before _M_start or behind _M_finish, in nodes that are there
BuildAtFront(m, values) ==
    IF m.threw THEN m
    ELSE NewStart(UninitializedCopy(m, values, At(m, m.start - Len(values), m.start)),
                  m.start - Len(values))

BuildAtBack(m, values) ==
    IF m.threw THEN m
    ELSE NewFinish(UninitializedCopy(m, values, At(m, m.finish, m.finish + Len(values))),
                   m.finish + Len(values))

InsertAtFront(m, values) == BuildAtFront(ReserveElementsAtFront(m, Len(values)), values)
InsertAtBack(m, values) == BuildAtBack(ReserveElementsAtBack(m, Len(values)), values)

\* A local copy of the argument, which is destroyed on every way out
LocalCopy(m) == IF m.threw THEN m ELSE Spend(m, 1)

\* push_front and push_back copy their argument if they need a node.
PushFront(m, value) ==
    InsertAtFront(IF RoomAtFront(m) = 0 THEN LocalCopy(m) ELSE m, << value >>)
PushBack(m, value) ==
    InsertAtBack(IF RoomAtBack(m) = 0 THEN LocalCopy(m) ELSE m, << value >>)

\* The last steps of erase; pop_front and pop_back are those for one element, and
\* clear keeps the first node.
DropFront(m, n) ==
    IF m.threw THEN m
    ELSE [DestroyNodes(Destroy(m, At(m, m.start, m.start + n)),
                       StartNode(m), NodeOf(m, m.start + n))
            EXCEPT !.start = @ + n]
DropBack(m, n) ==
    IF m.threw THEN m
    ELSE [DestroyNodes(Destroy(m, At(m, m.finish - n, m.finish)),
                       NodeOf(m, m.finish - n) + 1, FinishNode(m) + 1)
            EXCEPT !.finish = @ - n]

PopFront(m) == DropFront(m, 1)
PopBack(m) == DropBack(m, 1)
Clear(m) == DropBack(m, Size(m))

-----------------------------------------------------------------------------
(* Elements inside: the shorter side moves. *)

\* Assign to the elements from an index on; copy n of them to where others are.
AtIndex(m, i, n) == At(m, m.start + i, m.start + i + n)
Put(m, i, values) == CopyForward(m, values, AtIndex(m, i, Len(values)))
CopyDown(m, from, n, to) == CopyForward(m, Read(m, AtIndex(m, from, n)), AtIndex(m, to, n))
CopyUp(m, from, n, to) == CopyBackward(m, Read(m, AtIndex(m, from, n)), AtIndex(m, to, n))

\* _M_insert_aux of one element: an end is doubled first.
InsertBefore(m, i, value) == Put(CopyDown(m, 2, i - 1, 1), i, << value >>)
InsertBehind(m, i, value) == Put(CopyUp(m, i, Size(m) - 2 - i, i + 1), i, << value >>)

InsertInside(m, i, value) ==
    IF i < Size(m) \div 2
    THEN InsertBefore(PushFront(LocalCopy(m), Element(m, 0)), i, value)
    ELSE InsertBehind(PushBack(LocalCopy(m), Element(m, Size(m) - 1)), i, value)

InsertOne(m, i, value) ==
    IF i = 0 THEN PushFront(m, value)
    ELSE IF i = Size(m) THEN PushBack(m, value)
    ELSE InsertInside(m, i, value)

\* _M_insert_aux of many, with room before _M_start: some of the elements before i
\* and perhaps some of the new ones are constructed, the others assigned.
FewAtFront(m, i, values) ==
    LET n == Len(values) IN
    Put(CopyDown(BuildAtFront(m, Elems(m, m.start, m.start + n)), 2 * n, i - n, n), i, values)

ManyAtFront(m, i, values) ==
    Put(BuildAtFront(m, Elems(m, m.start, m.start + i) \o First(values, Len(values) - i)),
        Len(values), Last(values, i))

\* The same with room behind _M_finish
FewAtBack(m, i, values) ==
    LET n == Len(values) IN
    Put(CopyUp(BuildAtBack(m, Elems(m, m.finish - n, m.finish)), i, Size(m) - i - n, i + n),
        i, values)

ManyAtBack(m, i, values) ==
    LET after == Size(m) - i IN
    Put(BuildAtBack(m, Last(values, Len(values) - after) \o Elems(m, m.start + i, m.finish)),
        i, First(values, after))

InsertFront(m, i, values) ==
    IF m.threw THEN m
    ELSE IF i >= Len(values) THEN FewAtFront(m, i, values) ELSE ManyAtFront(m, i, values)

InsertBack(m, i, values) ==
    IF m.threw THEN m
    ELSE IF Size(m) - i > Len(values) THEN FewAtBack(m, i, values) ELSE ManyAtBack(m, i, values)

InsertMany(m, i, values) ==
    IF i < Size(m) \div 2 THEN InsertFront(ReserveElementsAtFront(m, Len(values)), i, values)
    ELSE InsertBack(ReserveElementsAtBack(m, Len(values)), i, values)

\* insert of a range, and of n copies, whose argument is copied first inside.
InsertRange(m, i, values) ==
    IF i = 0 THEN InsertAtFront(m, values)
    ELSE IF i = Size(m) THEN InsertAtBack(m, values)
    ELSE InsertMany(m, i, values)

InsertFill(m, i, n, value) ==
    InsertRange(IF i \in 1 .. Size(m) - 1 THEN LocalCopy(m) ELSE m, i, Times(n, value))

EraseOne(m, i) ==
    IF i < Size(m) \div 2 THEN PopFront(CopyUp(m, 0, i, 1))
    ELSE PopBack(CopyDown(m, i + 1, Size(m) - i - 1, i))

EraseRange(m, from, to) ==
    IF from = 0 /\ to = Size(m) THEN Clear(m)
    ELSE IF from < (Size(m) - (to - from)) \div 2
    THEN DropFront(CopyUp(m, 0, from, to - from), to - from)
    ELSE DropBack(CopyDown(m, to, Size(m) - to, from), to - from)

Resize(m, n, value) ==
    IF n < Size(m) THEN EraseRange(m, n, Size(m)) ELSE InsertFill(m, Size(m), n - Size(m), value)

\* operator= and assign
AssignRange(m, values) ==
    IF Len(values) <= Size(m) THEN EraseRange(Put(m, 0, values), Len(values), Size(m))
    ELSE InsertRange(Put(m, 0, First(values, Size(m))), Size(m),
                     Last(values, Len(values) - Size(m)))

\* assign of n copies looks at its argument again after it has erased the rest.
FillAll(m, arg) == Put(m, 0, Times(Size(m), Argument(m, arg)))
AssignFill(m, n, arg) ==
    IF n > Size(m) THEN InsertFill(FillAll(m, arg), Size(m), n - Size(m), Argument(m, arg))
    ELSE FillAll(EraseRange(m, n, Size(m)), arg)

-----------------------------------------------------------------------------
(* Constructors and the destructor *)

\* _M_initialize_map: a map, and the nodes for some elements in the middle of it
InitializeMap(m, n) ==
    LET nodes == NodeOf(m, n) + 1
        first == Centred(MapSizeFor(nodes), nodes)
    IN NewNodes([Spend(m, 1) EXCEPT !.map = [i \in 1 .. MapSizeFor(nodes) |-> 0],
                                    !.start = first * m.buf, !.finish = first * m.buf],
                first, first + nodes)

\* The elements are constructed where they are to be; ~_Deque_base frees the nodes
\* if one of them throws.
BuildInitial(m, values) ==
    IF m.threw THEN m
    ELSE UninitializedCopy([m EXCEPT !.finish = @ + Len(values)], values,
                           At(m, m.start, m.start + Len(values)))

FreeNodes(m) == DestroyNodes(m, StartNode(m), FinishNode(m) + 1)

\* ~deque and ~_Deque_base of the deque that has the map and the iterators of d
DestroyDeque(m, d) ==
    FreeNodes(DropBack([m EXCEPT !.map = d.map, !.start = d.start, !.finish = d.finish], Size(d)))

WithIterators(m, d) == [m EXCEPT !.map = d.map, !.start = d.start, !.finish = d.finish]

\* deque(values).swap(*this), and the end of the temporary
TakeOver(m, built) ==
    IF ~built.threw THEN WithIterators(DestroyDeque(built, m), built)
    ELSE WithIterators(IF \A i \in DOMAIN built.map : built.map[i] = 0 THEN built
                       ELSE FreeNodes(built), m)

Rebuild(m, values) ==
    IF m.fuel = 0 THEN Spend(m, 1)
    ELSE TakeOver(m, BuildInitial(InitializeMap(m, Len(values)), values))

-----------------------------------------------------------------------------
(* Calls *)

Nodes(m) == [i \in DOMAIN m.map |-> m.mem[m.map[i]]]
Lost(m) == \E b \in DOMAIN m.mem : m.mem[b] # << >> /\ \A i \in DOMAIN m.map : m.map[i] # b

\* The call ends with m, for which it had everything it needed or not.
Finish(x, m, c) ==
    /\ deque' = [deque EXCEPT ![x].map = Nodes(m), ![x].start = m.start, ![x].finish = m.finish]
    /\ bad' = (bad \/ m.bad \/ Lost(m))
    /\ call' = [op |-> "replace", on |-> x, turn |-> 1 - call.turn, threw |-> m.threw,
                from |-> c.from, to |-> c.to, values |-> c.values, strong |-> c.strong]

Call(x, Operation(_), c) ==
    \E k \in 0 .. Plenty - Operation(Start(deque[x], Plenty)).fuel :
        LET fuel == IF k = 0 THEN Plenty ELSE k - 1 IN
        Finish(x, Operation(Start(deque[x], fuel)), c)

\* It replaces [from, to); it has no effect if it throws when it is strong.
Replaces(from, to, values, strong) ==
    [from |-> from, to |-> to, values |-> values, strong |-> strong]

CellAt(d, p) == d.map[NodeOf(d, p) + 1][(p % d.buf) + 1]
Content(d) == [j \in 1 .. Size(d) |-> CellAt(d, d.start + j - 1)]

Count(x) == Size(deque[x])
Most(x) == MaxSize[deque[x].buf]
AtEnd(x, i) == i \in {0, Count(x)}
Given(x, arg) == IF arg \in Value THEN arg ELSE CellAt(deque[x], deque[x].start + arg)

CallInsert(x, i, arg) ==
    Call(x, LAMBDA m : InsertOne(m, i, Argument(m, arg)),
         Replaces(i, i, << Given(x, arg) >>, AtEnd(x, i)))

CallPushFront(x, arg) ==
    Call(x, LAMBDA m : PushFront(m, Argument(m, arg)), Replaces(0, 0, << Given(x, arg) >>, TRUE))

CallPushBack(x, arg) ==
    Call(x, LAMBDA m : PushBack(m, Argument(m, arg)),
         Replaces(Count(x), Count(x), << Given(x, arg) >>, TRUE))

CallInsertFill(x, i, n, arg) ==
    Call(x, LAMBDA m : InsertFill(m, i, n, Argument(m, arg)),
         Replaces(i, i, Times(n, Given(x, arg)), AtEnd(x, i)))

CallInsertRange(x, i, values) ==
    Call(x, LAMBDA m : InsertRange(m, i, values), Replaces(i, i, values, AtEnd(x, i)))

CallResize(x, n, arg) ==
    Call(x, LAMBDA m : Resize(m, n, Argument(m, arg)),
         Replaces(Smaller(n, Count(x)), Count(x),
                  IF n < Count(x) THEN << >> ELSE Times(n - Count(x), Given(x, arg)), TRUE))

CallErase(x, i) ==
    Call(x, LAMBDA m : EraseOne(m, i),
         Replaces(i, i + 1, << >>, i = 0 \/ i + 1 = Count(x)))

CallEraseRange(x, from, to) ==
    Call(x, LAMBDA m : EraseRange(m, from, to),
         Replaces(from, to, << >>, to = Count(x) \/ (from = 0 /\ Count(x) >= to + 2)))

CallPopFront(x) == Count(x) > 0 /\ Call(x, PopFront, Replaces(0, 1, << >>, TRUE))
CallPopBack(x) == Count(x) > 0 /\ Call(x, PopBack, Replaces(Count(x) - 1, Count(x), << >>, TRUE))
CallClear(x) == Call(x, Clear, Replaces(0, Count(x), << >>, TRUE))

CallAssignFill(x, n, arg) ==
    Call(x, LAMBDA m : AssignFill(m, n, arg),
         Replaces(0, Count(x), Times(n, Given(x, arg)), FALSE))

CallAssign(x, y) ==
    /\ x # y
    /\ Call(x, LAMBDA m : AssignRange(m, Content(deque[y])),
            Replaces(0, Count(x), Content(deque[y]), FALSE))

CallRebuild(x, values) ==
    Call(x, LAMBDA m : Rebuild(m, values), Replaces(0, Count(x), values, TRUE))

CallSwap(x, y) ==
    /\ x # y
    /\ deque' = [deque EXCEPT ![x] = deque[y], ![y] = deque[x]]
    /\ call' = [op |-> "swap", on |-> x, from |-> y, turn |-> 1 - call.turn]
    /\ UNCHANGED bad

\* A value of its own, or the first or the last element
Arguments(x) == Value \union ({0, Count(x) - 1} \intersect 0 .. Count(x) - 1)

\* assign(n, e) erases before it fills, so e must not be one of those erased.
Survives(n, arg) == arg \in Value \union 0 .. n - 1

Next ==
    \E x \in Deques :
        \/ \E arg \in Arguments(x) :
             \/ Count(x) < Most(x) /\ (CallPushFront(x, arg) \/ CallPushBack(x, arg))
             \/ \E i \in 0 .. Count(x) : Count(x) < Most(x) /\ CallInsert(x, i, arg)
             \/ \E n \in 0 .. Most(x) : Survives(n, arg) /\ CallAssignFill(x, n, arg)
        \/ \E value \in Value :
             \/ \E i \in 0 .. Count(x) : \E n \in 0 .. Most(x) - Count(x) :
                  CallInsertFill(x, i, n, value)
             \/ \E n \in 0 .. Most(x) : CallResize(x, n, value)
        \/ \E i \in 0 .. Count(x) - 1 : CallErase(x, i)
        \/ \E from, to \in 0 .. Count(x) : from <= to /\ CallEraseRange(x, from, to)
        \/ CallPopFront(x) \/ CallPopBack(x) \/ CallClear(x)
        \/ \E y \in Deques : CallAssign(x, y) \/ CallSwap(x, y)
        \/ \E values \in Ranges :
             \/ CallRebuild(x, values)
             \/ \E i \in 0 .. Count(x) :
                  Count(x) + Len(values) <= Most(x) /\ CallInsertRange(x, i, values)

Spec == Init /\ [][Next]_vars

-----------------------------------------------------------------------------
(* Properties *)

TypeOK ==
    /\ \A x \in Deques :
         /\ \A i \in DOMAIN deque[x].map : deque[x].map[i] \in Seq(Value \union {Raw})
         /\ deque[x].start \in Nat /\ deque[x].finish \in Nat
    /\ bad \in BOOLEAN

\* The class invariants that stl_deque.h lists: finish is dereferenceable, the map
\* points to nodes exactly from start's to finish's, and the cells between start
\* and finish are the ones that hold elements.
WellFormed ==
    \A x \in Deques :
        LET d == deque[x] IN
        /\ d.start <= d.finish /\ FinishNode(d) < Len(d.map)
        /\ \A i \in DOMAIN d.map :
             /\ Len(d.map[i]) = IF i - 1 \in StartNode(d) .. FinishNode(d) THEN d.buf ELSE 0
             /\ \A c \in DOMAIN d.map[i] :
                  d.map[i][c] # Raw <=> (i - 1) * d.buf + c - 1 \in d.start .. d.finish - 1

\* No element is misused, also where a call's argument is an element that the
\* call moves, and no element or node is lost when something throws.
NothingLost == ~bad

\* The deques are the sequences that their calls say.
Sequence == INSTANCE AbstractSequences
              WITH Containers <- Deques, content <- [x \in Deques |-> Content(deque[x])]
ImplementsSequences == Sequence!SequencesSpec
=============================================================================
