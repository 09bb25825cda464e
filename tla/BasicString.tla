----------------------------- MODULE BasicString -----------------------------
(***************************************************************************)
(* The strings of the file string: like a vector, with a null character     *)
(* behind the last one that is an element like the others.  An operation   *)
(* is a sequence of steps on a memory m (see Elements), with the string's  *)
(* block "old" and, while it is replaced, the block "new"; m.size is where *)
(* _M_finish points, and m.built where __new_finish does.                  *)
(*                                                                         *)
(* An allocation and the construction of a character may throw; the moves  *)
(* and assignments of char_traits do not.                                  *)
(***************************************************************************)
EXTENDS Elements, StringSearch

CONSTANTS Strings,
          NullChar,
          InitialCells,    \* what a new string has room for, 8 in the code
          Plenty,          \* more allocations and constructions than any call makes
          InsertedMayThrow \* may the copy of the character of _M_insert_aux throw?

VARIABLES string,          \* [Strings -> [cells, size]]
          bad, call

vars == << string, bad, call >>

Init ==
    /\ string = [x \in Strings |->
                   [cells |-> << NullChar >> \o Times(InitialCells - 1, Raw), size |-> 0]]
    /\ bad = FALSE /\ call = [op |-> "construct", turn |-> 0]

Start(s, fuel) ==
    [mem |-> [b \in {"old", "new"} |-> IF b = "old" THEN s.cells ELSE << >>],
     size |-> s.size, built |-> 0, fuel |-> fuel, threw |-> FALSE, bad |-> FALSE]

Capacity(m) == Len(m.mem["old"]) - 1
OldCells(from, to) == Cells("old", from, to)
Olds(m, from, to) == Read(m, OldCells(from, to))

\* assign, copy and move of char_traits
Move(m, values, at) == IF m.threw THEN m ELSE Assign(m, values, at)

Build(m, values, from) == UninitializedCopy(m, values, OldCells(from, from + Len(values)))
Finished(m, n) == IF m.threw THEN m ELSE [m EXCEPT !.size = n]

-----------------------------------------------------------------------------
(* Replacing the block *)

Extend(m, values) ==
    LET n == UninitializedCopy(m, values, Cells("new", m.built, m.built + Len(values))) IN
    IF n.threw THEN n ELSE [n EXCEPT !.built = @ + Len(values)]

Unwind(m) ==
    IF m.mem["new"] = << >> THEN m
    ELSE Deallocate(Destroy(m, Cells("new", 0, m.built)), "new")

Adopt(m) ==
    LET freed == Deallocate(Destroy(m, OldCells(0, m.size + 1)), "old")
        taken == [b \in {"old", "new"} |-> IF b = "old" THEN m.mem["new"] ELSE << >>] IN
    [freed EXCEPT !.mem = taken, !.size = m.built]

\* _M_construct_null(__new_finish), and then the new block takes the old one's place.
Terminate(m) ==
    LET n == UninitializedCopy(m, << NullChar >>, Cells("new", m.built, m.built + 1)) IN
    IF n.threw THEN Unwind(n) ELSE Adopt(n)

InsertInNew(m, pos, values, length) ==
    Terminate(Extend(Extend(Extend(Allocate(m, "new", length), Olds(m, 0, pos)), values),
                     Olds(m, pos, m.size)))

\* _M_insert_aux constructs its one character while __new_finish is still __new_start: if
\* that throws, the handler knows of no character in the new block.  Without
\* InsertedMayThrow, it has fuel of its own.
ExtendByOne(m, c) ==
    LET n == Extend(IF InsertedMayThrow THEN m ELSE [m EXCEPT !.fuel = @ + 1], << c >>) IN
    IF n.threw /\ ~m.threw THEN [n EXCEPT !.built = 0] ELSE n

InsertOneInNew(m, pos, c) ==
    Terminate(Extend(ExtendByOne(Extend(Allocate(m, "new", m.size + Larger(m.size, 1) + 1),
                                        Olds(m, 0, pos)), c), Olds(m, pos, m.size)))

Enlarged(m, n) == m.size + Larger(m.size, n) + 1

-----------------------------------------------------------------------------
(* Operations *)

\* reserve always gets a new block, which may be a smaller one.
Reserve(m, n) == InsertInNew(m, m.size, << >>, Larger(n, m.size) + 1)

\* What comes behind the old null, the new null, and the first character over the old
\* one: the end of append and push_back
AppendInPlace(m, values) ==
    LET built == Build(m, Tail(values), m.size + 1)
        null == Build(built, << NullChar >>, m.size + Len(values))
        unwound == IF null.threw /\ ~built.threw
                   THEN Destroy(null, OldCells(m.size + 1, m.size + Len(values))) ELSE null IN
    Finished(Move(unwound, << Head(values) >>, OldCells(m.size, m.size + 1)),
             m.size + Len(values))

\* Mutant: room for the characters only.
HasRoomWithoutNull(m, n) == m.size + n <= Capacity(m) + 1
HasRoom(m, n) == m.size + n <= Capacity(m)

AppendFill(m, n, c) ==
    LET roomy == IF HasRoom(m, n) THEN m ELSE Reserve(m, m.size + Larger(m.size, n)) IN
    IF n = 0 THEN m ELSE IF roomy.threw THEN roomy ELSE AppendInPlace(roomy, Times(n, c))

AppendRange(m, values) ==
    IF values = << >> THEN m
    ELSE IF HasRoom(m, Len(values)) THEN AppendInPlace(m, values)
    ELSE InsertInNew(m, m.size, values, Enlarged(m, Len(values)))

PushBack(m, c) == AppendFill(m, 1, c)

\* _M_insert_aux: the null moves up first.
InsertAux(m, pos, c) ==
    IF HasRoom(m, 1)
    THEN LET built == Build(m, << NullChar >>, m.size + 1) IN
         Finished(Move(Move(built, Olds(m, pos, m.size), OldCells(pos + 1, m.size + 1)),
                       << c >>, OldCells(pos, pos + 1)), m.size + 1)
    ELSE InsertOneInNew(m, pos, c)

InsertOne(m, pos, c) == IF pos = m.size THEN PushBack(m, c) ELSE InsertAux(m, pos, c)

\* insert with room, of less characters than come after pos, and of as many or more
InsertFew(m, pos, values) ==
    LET n == Len(values)
        built == Finished(Build(m, Olds(m, m.size - n + 1, m.size + 1), m.size + 1), m.size + n) IN
    Move(Move(built, Olds(m, pos, m.size - n + 1), OldCells(pos + n, m.size + 1)),
         values, OldCells(pos, pos + n))

\* Mutant: a handler that does not destroy the first part.
InsertManyLeaking(m, pos, values) ==
    LET n == Len(values)
        after == m.size - pos
        first == Build(m, Last(values, n - after - 1), m.size + 1)
        both == Build(first, Olds(m, pos, m.size + 1), m.size + n - after) IN
    Finished(Move(both, First(values, after + 1), OldCells(pos, m.size + 1)), m.size + n)

InsertMany(m, pos, values) ==
    LET n == Len(values)
        after == m.size - pos
        first == Build(m, Last(values, n - after - 1), m.size + 1)
        both == Build(first, Olds(m, pos, m.size + 1), m.size + n - after)
        unwound == IF both.threw /\ ~first.threw
                   THEN Destroy(both, OldCells(m.size + 1, m.size + n - after)) ELSE both IN
    Finished(Move(unwound, First(values, after + 1), OldCells(pos, m.size + 1)), m.size + n)

InsertAll(m, pos, values) ==
    IF values = << >> THEN m
    ELSE IF ~HasRoom(m, Len(values)) THEN InsertInNew(m, pos, values, Enlarged(m, Len(values)))
    ELSE IF m.size - pos >= Len(values) THEN InsertFew(m, pos, values)
    ELSE InsertMany(m, pos, values)

\* The null moves down with the characters before it.
Erase(m, from, to) ==
    LET n == m.size - (to - from) IN
    IF from = to THEN m
    ELSE Finished(Destroy(Move(m, Olds(m, to, m.size + 1), OldCells(from, n + 1)),
                          OldCells(n + 1, m.size + 1)), n)

Resize(m, n, c) == IF n <= m.size THEN Erase(m, n, m.size) ELSE AppendFill(m, n - m.size, c)

Clear(m) ==
    IF m.size = 0 THEN m
    ELSE Finished(Destroy(Move(m, << NullChar >>, OldCells(0, 1)), OldCells(1, m.size + 1)), 0)

PopBack(m) ==
    Finished(Destroy(Move(m, << NullChar >>, OldCells(m.size - 1, m.size)),
                     OldCells(m.size, m.size + 1)), m.size - 1)

\* The characters that are there are assigned to, and the others appended.
AssignFill(m, n, c) ==
    LET assigned == Move(m, Times(Smaller(n, m.size), c), OldCells(0, Smaller(n, m.size))) IN
    IF n <= m.size THEN Erase(assigned, n, m.size) ELSE AppendFill(assigned, n - m.size, c)

AssignRange(m, values) ==
    LET n == Len(values)
        assigned == Move(m, First(values, m.size), OldCells(0, Smaller(n, m.size))) IN
    IF n <= m.size THEN Erase(assigned, n, m.size)
    ELSE AppendRange(assigned, Last(values, n - m.size))

ReplaceRange(m, from, to, values) ==
    LET n == Len(values)
        assigned == Move(m, First(values, to - from), OldCells(from, Smaller(to, from + n))) IN
    IF n <= to - from THEN Erase(assigned, from + n, to)
    ELSE InsertAll(assigned, to, Last(values, n - (to - from)))

\* A string that is constructed, by _M_range_initialize, in the place of another one
RangeInitialize(m, values) == Terminate(Extend(Allocate(m, "new", Len(values) + 1), values))

-----------------------------------------------------------------------------
(* Calls *)

Content(s) == SubSeq(s.cells, 1, s.size)

Finish(x, m, c) ==
    /\ string' = [string EXCEPT ![x] = [cells |-> m.mem["old"], size |-> m.size]]
    /\ bad' = (bad \/ m.bad \/ m.mem["new"] # << >>)
    /\ call' = [op |-> "replace", on |-> x, turn |-> 1 - call.turn, threw |-> m.threw,
                from |-> c.from, to |-> c.to, values |-> c.values, strong |-> c.strong]

Call(x, Operation(_), c) ==
    \E k \in 0 .. Plenty - Operation(Start(string[x], Plenty)).fuel :
        Finish(x, Operation(Start(string[x], IF k = 0 THEN Plenty ELSE k - 1)), c)

\* It replaces [from, to); it has no effect if it throws when it is strong.
Replaces(from, to, values, strong) ==
    [from |-> from, to |-> to, values |-> values, strong |-> strong]

Size(x) == string[x].size

CallReserve(x, n) ==
    Call(x, LAMBDA m : Reserve(m, n), Replaces(Size(x), Size(x), << >>, TRUE))
CallPushBack(x, c) ==
    Call(x, LAMBDA m : PushBack(m, c), Replaces(Size(x), Size(x), << c >>, TRUE))
CallAppendFill(x, n, c) ==
    Call(x, LAMBDA m : AppendFill(m, n, c), Replaces(Size(x), Size(x), Times(n, c), TRUE))
CallAppend(x, values) ==
    Call(x, LAMBDA m : AppendRange(m, values), Replaces(Size(x), Size(x), values, TRUE))
CallInsert(x, pos, c) ==
    Call(x, LAMBDA m : InsertOne(m, pos, c), Replaces(pos, pos, << c >>, TRUE))
CallInsertAll(x, pos, values) ==
    Call(x, LAMBDA m : InsertAll(m, pos, values), Replaces(pos, pos, values, TRUE))
CallErase(x, from, to) ==
    Call(x, LAMBDA m : Erase(m, from, to), Replaces(from, to, << >>, TRUE))
CallPopBack(x) ==
    Size(x) > 0 /\ Call(x, PopBack, Replaces(Size(x) - 1, Size(x), << >>, TRUE))
CallClear(x) == Call(x, Clear, Replaces(0, Size(x), << >>, TRUE))
CallResize(x, n, c) ==
    Call(x, LAMBDA m : Resize(m, n, c),
         IF n <= Size(x) THEN Replaces(n, Size(x), << >>, TRUE)
         ELSE Replaces(Size(x), Size(x), Times(n - Size(x), c), TRUE))
CallAssignFill(x, n, c) ==
    Call(x, LAMBDA m : AssignFill(m, n, c), Replaces(0, Size(x), Times(n, c), FALSE))
CallAssign(x, values) ==
    Call(x, LAMBDA m : AssignRange(m, values), Replaces(0, Size(x), values, FALSE))
CallReplace(x, from, to, values) ==
    Call(x, LAMBDA m : ReplaceRange(m, from, to, values), Replaces(from, to, values, FALSE))
CallConstruct(x, values) ==
    Call(x, LAMBDA m : RangeInitialize(m, values), Replaces(0, Size(x), values, TRUE))

CallSwap(x, y) ==
    /\ x # y
    /\ string' = [string EXCEPT ![x] = string[y], ![y] = string[x]]
    /\ call' = [op |-> "swap", on |-> x, from |-> y, turn |-> 1 - call.turn]
    /\ UNCHANGED bad

CONSTANT MaxLength         \* bound on the characters that the modelled clients keep

\* A part of another string, or of this one, where append allows that
Part(y, from, to) == SubSeq(Content(string[y]), from + 1, to)

Next ==
    \E x \in Strings :
        \/ \E c \in Value : \E n \in 0 .. MaxLength :
             \/ CallResize(x, n, c) \/ CallAssignFill(x, n, c)
             \/ Size(x) + n <= MaxLength /\ CallAppendFill(x, n, c)
             \/ \E pos \in 0 .. Size(x) :
                  /\ Size(x) + n <= MaxLength
                  /\ CallInsertAll(x, pos, Times(n, c)) \/ (n = 1 /\ CallInsert(x, pos, c))
        \/ \E c \in Value : Size(x) < MaxLength /\ CallPushBack(x, c)
        \/ \E n \in 0 .. MaxLength : CallReserve(x, n)
        \/ CallPopBack(x) \/ CallClear(x)
        \/ \E from, to \in 0 .. Size(x) :
             /\ from <= to
             /\ \/ CallErase(x, from, to)
                \/ CallConstruct(x, Part(x, from, to))
                \/ Size(x) + to - from <= MaxLength /\ CallAppend(x, Part(x, from, to))
                \/ \E c \in Value : \E n \in 0 .. MaxLength - Size(x) + to - from :
                     CallReplace(x, from, to, Times(n, c))
        \/ \E y \in Strings :
             \/ CallSwap(x, y)
             \/ \E from, to \in 0 .. Size(y) :
                  /\ x # y /\ from <= to
                  /\ \/ CallAssign(x, Part(y, from, to))
                     \/ CallConstruct(x, Part(y, from, to))
                     \/ /\ Size(x) + to - from <= MaxLength
                        /\ \/ CallAppend(x, Part(y, from, to))
                           \/ \E pos \in 0 .. Size(x) : CallInsertAll(x, pos, Part(y, from, to))
                           \/ \E pos, end \in 0 .. Size(x) :
                                pos <= end /\ CallReplace(x, pos, end, Part(y, from, to))

Spec == Init /\ [][Next]_vars

-----------------------------------------------------------------------------
(* Properties *)

TypeOK ==
    /\ \A x \in Strings :
         /\ string[x].cells \in Seq(Value \union {NullChar, Raw})
         /\ string[x].size \in 0 .. Len(string[x].cells)
    /\ bad \in BOOLEAN

\* The class invariants: the characters, a null behind them, and raw memory.
WellFormed ==
    \A x \in Strings : LET n == string[x].size IN
        /\ n < Len(string[x].cells) /\ string[x].cells[n + 1] = NullChar
        /\ \A i \in DOMAIN string[x].cells :
             /\ i <= n => string[x].cells[i] \in Value
             /\ i > n + 1 => string[x].cells[i] = Raw

\* No character is misused, and no character or block is lost.  With InsertedMayThrow, one
\* insertion does lose characters.
NothingLost == ~bad

\* A part of a string and a short one compare, and every search for the short one in
\* the string finds what it should, from wherever it starts.
Patterns == UNION {[1 .. n -> Value] : n \in 0 .. 2}
SearchesAgree ==
    \A x \in Strings : LET s == Content(string[x]) IN
        \A p \in Patterns : \A pos \in 0 .. Len(s) + 1 \union {Npos - 2, Npos} :
            /\ FindsFirst(s, p, pos) /\ FindsLast(s, p, pos)
            /\ pos <= Len(s) => \A n \in {0, 1, 2, Npos} : Compares(Substr(s, pos, n), p)

\* The strings are the sequences that their calls say.
Sequence == INSTANCE AbstractSequences
              WITH Containers <- Strings, content <- [x \in Strings |-> Content(string[x])]
ImplementsSequences == Sequence!SequencesSpec
=============================================================================
