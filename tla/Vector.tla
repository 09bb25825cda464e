------------------------------- MODULE Vector -------------------------------
(***************************************************************************)
(* The vectors of stl_vector.h: one block of memory, whose first cells hold *)
(* the elements.  An operation is a sequence of steps on a memory m (see   *)
(* Elements), with the vector's block "old" and, while it is replaced, the *)
(* block "new"; m.size is _M_finish, and m.built what "new" holds.         *)
(***************************************************************************)
EXTENDS Elements

CONSTANTS Value, Vectors,
          Plenty           \* more allocations and copies than any call makes

VARIABLES vector,          \* [Vectors -> [cells, size]]
          bad,             \* an element was misused
          call             \* the last call

vars == << vector, bad, call >>

Init ==
    /\ vector = [x \in Vectors |-> [cells |-> << >>, size |-> 0]]
    /\ bad = FALSE /\ call = [op |-> "construct", turn |-> 0]

Start(v, fuel) ==
    [mem |-> [b \in {"old", "new"} |-> IF b = "old" THEN v.cells ELSE << >>],
     size |-> v.size, built |-> 0, fuel |-> fuel, threw |-> FALSE, bad |-> FALSE]

Capacity(m) == Len(m.mem["old"])
OldCells(from, to) == Cells("old", from, to)
Olds(m, from, to) == Read(m, OldCells(from, to))

\* An argument is a value of its own, or the position of an element.
Argument(m, arg) == IF arg \in Value THEN arg ELSE Cell(m, << "old", arg + 1 >>)

Finished(m, n) == IF m.threw THEN m ELSE [m EXCEPT !.size = n]

-----------------------------------------------------------------------------
(* Replacing the block *)

\* The next elements of the new block; _M_allocate of the new block
Extend(m, values) ==
    LET n == UninitializedCopy(m, values, Cells("new", m.built, m.built + Len(values))) IN
    IF n.threw THEN n ELSE [n EXCEPT !.built = @ + Len(values)]

\* If there was an exception the new block goes, else it takes the old one's place.
Unwind(m) ==
    IF m.mem["new"] = << >> THEN m
    ELSE Deallocate(Destroy(m, Cells("new", 0, m.built)), "new")

Adopt(m) ==
    LET freed == Deallocate(Destroy(m, OldCells(0, m.size)), "old")
        taken == [b \in {"old", "new"} |-> IF b = "old" THEN m.mem["new"] ELSE << >>] IN
    [freed EXCEPT !.mem = taken, !.size = m.built]

Replace(m) == IF m.threw THEN Unwind(m) ELSE Adopt(m)

\* _M_allocate_and_copy
CopyToNew(m, n, values) == Replace(Extend(Allocate(m, "new", n), values))

\* The last branches of _M_insert_aux and _M_fill_insert
InsertInNew(m, pos, values, length) ==
    Replace(Extend(Extend(Extend(Allocate(m, "new", length), Olds(m, 0, pos)), values),
                   Olds(m, pos, m.size)))

Doubled(m) == IF m.size = 0 THEN 1 ELSE 2 * m.size
Enlarged(m, n) == m.size + Larger(m.size, n)

-----------------------------------------------------------------------------
(* Operations *)

Reserve(m, n) == IF Capacity(m) < n THEN CopyToNew(m, n, Olds(m, 0, m.size)) ELSE m

\* construct(_M_finish, ...), ++_M_finish
ConstructAtEnd(m, values) ==
    Finished(UninitializedCopy(m, values, OldCells(m.size, m.size + Len(values))), m.size + Len(values))

\* A local copy of the argument, which is destroyed on every way out
LocalCopy(m) == IF m.threw THEN m ELSE Spend(m, 1)

\* _M_insert_aux with room: the last element moves up first.
ShiftUp(m, pos, n) ==
    CopyBackward(m, Olds(m, pos, m.size - 2 * n), OldCells(pos + n, m.size - n))

InsertInside(m, pos, value) ==
    CopyForward(ShiftUp(LocalCopy(ConstructAtEnd(m, Olds(m, m.size - 1, m.size))), pos, 1),
                << value >>, OldCells(pos, pos + 1))

\* push_back and insert of one element
InsertOne(m, pos, arg) ==
    IF m.size = Capacity(m) THEN InsertInNew(m, pos, << Argument(m, arg) >>, Doubled(m))
    ELSE IF pos = m.size THEN ConstructAtEnd(m, << Argument(m, arg) >>)
    ELSE InsertInside(m, pos, Argument(m, arg))

\* _M_fill_insert and _M_range_insert with room, for less elements than come after
\* pos, and for as many or more
InsertFew(m, pos, values) ==
    CopyForward(ShiftUp(ConstructAtEnd(m, Olds(m, m.size - Len(values), m.size)), pos, Len(values)),
                values, OldCells(pos, pos + Len(values)))

\* Mutant: the wrong values go behind the end.
InsertManySwapped(m, pos, values) ==
    LET after == m.size - pos IN
    CopyForward(ConstructAtEnd(ConstructAtEnd(m, First(values, Len(values) - after)),
                               Olds(m, pos, m.size)),
                Last(values, after), OldCells(pos, m.size))

InsertMany(m, pos, values) ==
    LET after == m.size - pos IN
    CopyForward(ConstructAtEnd(ConstructAtEnd(m, Last(values, Len(values) - after)),
                               Olds(m, pos, m.size)),
                First(values, after), OldCells(pos, m.size))

\* Mutant: a cell too many.
RoomAndOne(m) == Capacity(m) - m.size + 1
Room(m) == Capacity(m) - m.size

InsertAll(m, pos, values) ==
    IF values = << >> THEN m
    ELSE IF Room(m) < Len(values) THEN InsertInNew(m, pos, values, Enlarged(m, Len(values)))
    ELSE IF m.size - pos > Len(values) THEN InsertFew(m, pos, values)
    ELSE InsertMany(m, pos, values)

\* insert(pos, n, x): the fill copies its argument before anything moves.
InsertFill(m, pos, n, arg) ==
    InsertAll(IF n > 0 /\ Room(m) >= n THEN LocalCopy(m) ELSE m, pos, Times(n, Argument(m, arg)))

\* destroy [n, _M_finish)
Truncate(m, n) ==
    IF m.threw THEN m ELSE [Destroy(m, OldCells(n, m.size)) EXCEPT !.size = n]

Erase(m, from, to) ==
    Truncate(CopyForward(m, Olds(m, to, m.size), OldCells(from, from + m.size - to)),
             from + m.size - to)

Resize(m, n, arg) ==
    IF n < m.size THEN Erase(m, n, m.size) ELSE InsertFill(m, m.size, n - m.size, arg)

\* operator= and assign
AssignAll(m, values) ==
    IF Len(values) > Capacity(m) THEN CopyToNew(m, Len(values), values)
    ELSE IF Len(values) <= m.size
    THEN Truncate(CopyForward(m, values, OldCells(0, Len(values))), Len(values))
    ELSE ConstructAtEnd(CopyForward(m, First(values, m.size), OldCells(0, m.size)),
                        Last(values, Len(values) - m.size))

PopBack(m) == Truncate(m, m.size - 1)

-----------------------------------------------------------------------------
(* Calls *)

Content(v) == SubSeq(v.cells, 1, v.size)

\* The call ends with m, for which it had everything it needed or not.
Finish(x, m, c) ==
    /\ vector' = [vector EXCEPT ![x] = [cells |-> m.mem["old"], size |-> m.size]]
    /\ bad' = (bad \/ m.bad \/ m.mem["new"] # << >>)
    /\ call' = [op |-> "replace", on |-> x, turn |-> 1 - call.turn, threw |-> m.threw,
                from |-> c.from, to |-> c.to, values |-> c.values, strong |-> c.strong]

Call(x, Operation(_), c) ==
    \E k \in 0 .. Plenty - Operation(Start(vector[x], Plenty)).fuel :
        LET fuel == IF k = 0 THEN Plenty ELSE k - 1 IN
        Finish(x, Operation(Start(vector[x], fuel)), c)

\* It replaces [from, to); it has no effect if it throws when it is strong.
Replaces(from, to, values, strong) ==
    [from |-> from, to |-> to, values |-> values, strong |-> strong]

Size(x) == vector[x].size
Full(x, n) == Size(x) + n > Len(vector[x].cells)
Given(x, arg) == IF arg \in Value THEN arg ELSE vector[x].cells[arg + 1]

CallInsert(x, pos, arg) ==
    Call(x, LAMBDA m : InsertOne(m, pos, arg),
         Replaces(pos, pos, << Given(x, arg) >>, pos = Size(x) \/ Full(x, 1)))

CallInsertFill(x, pos, n, arg) ==
    Call(x, LAMBDA m : InsertFill(m, pos, n, arg),
         Replaces(pos, pos, Times(n, Given(x, arg)), pos = Size(x) \/ Full(x, n)))

CallInsertRange(x, pos, values) ==
    Call(x, LAMBDA m : InsertAll(m, pos, values),
         Replaces(pos, pos, values, pos = Size(x) \/ Full(x, Len(values))))

CallResize(x, n, arg) ==
    Call(x, LAMBDA m : Resize(m, n, arg),
         Replaces(Smaller(n, Size(x)), Size(x),
                  IF n < Size(x) THEN << >> ELSE Times(n - Size(x), Given(x, arg)), TRUE))

CallErase(x, from, to) ==
    Call(x, LAMBDA m : Erase(m, from, to), Replaces(from, to, << >>, to = Size(x)))

CallPopBack(x) ==
    Size(x) > 0 /\ Call(x, PopBack, Replaces(Size(x) - 1, Size(x), << >>, TRUE))

CallReserve(x, n) ==
    Call(x, LAMBDA m : Reserve(m, n), Replaces(Size(x), Size(x), << >>, TRUE))

CallAssignFill(x, n, arg) ==
    Call(x, LAMBDA m : AssignAll(m, Times(n, Argument(m, arg))),
         Replaces(0, Size(x), Times(n, Given(x, arg)), n > Len(vector[x].cells)))

CallAssign(x, y) ==
    /\ x # y
    /\ Call(x, LAMBDA m : AssignAll(m, Content(vector[y])),
            Replaces(0, Size(x), Content(vector[y]), Size(y) > Len(vector[x].cells)))

CallSwap(x, y) ==
    /\ x # y
    /\ vector' = [vector EXCEPT ![x] = vector[y], ![y] = vector[x]]
    /\ call' = [op |-> "swap", on |-> x, from |-> y, turn |-> 1 - call.turn]
    /\ UNCHANGED bad

CONSTANT MaxSize           \* bound on the elements that the modelled clients keep

Arguments(x) == Value \union 0 .. Size(x) - 1

Next ==
    \E x \in Vectors :
        \/ \E arg \in Arguments(x) : \E pos \in 0 .. Size(x) :
             \/ Size(x) < MaxSize /\ CallInsert(x, pos, arg)
             \/ \E n \in 0 .. MaxSize - Size(x) : CallInsertFill(x, pos, n, arg)
        \/ \E arg \in Arguments(x) : \E n \in 0 .. MaxSize :
             CallResize(x, n, arg) \/ CallAssignFill(x, n, arg)
        \/ \E from, to \in 0 .. Size(x) : from <= to /\ CallErase(x, from, to)
        \/ CallPopBack(x)
        \/ \E n \in 0 .. MaxSize : CallReserve(x, n)
        \/ \E y \in Vectors :
             \/ CallAssign(x, y) \/ CallSwap(x, y)
             \/ \E pos \in 0 .. Size(x) :
                  /\ x # y /\ Size(x) + Size(y) <= MaxSize
                  /\ CallInsertRange(x, pos, Content(vector[y]))

Spec == Init /\ [][Next]_vars

-----------------------------------------------------------------------------
(* Properties *)

TypeOK ==
    /\ \A x \in Vectors :
         /\ vector[x].cells \in Seq(Value \union {Raw})
         /\ vector[x].size \in 0 .. Len(vector[x].cells)
    /\ bad \in BOOLEAN

\* Exactly the cells before _M_finish hold elements, whatever threw.
WellFormed ==
    \A x \in Vectors : \A i \in DOMAIN vector[x].cells :
        (vector[x].cells[i] # Raw) <=> (i <= vector[x].size)

\* No element is misused, also where a call's argument is an element that the
\* call moves, and no element or block is lost when something throws.
NothingLost == ~bad

\* The vectors are the sequences that their calls say.
Sequence == INSTANCE AbstractSequences
              WITH Containers <- Vectors, content <- [x \in Vectors |-> Content(vector[x])]
ImplementsSequences == Sequence!SequencesSpec
=============================================================================
