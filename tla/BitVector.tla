------------------------------ MODULE BitVector ------------------------------
(***************************************************************************)
(* The vectors of bool of stl_bvector.h, which pack WordBit bits into a     *)
(* word.  An iterator is a word and an offset in it.  An operation is a    *)
(* sequence of steps on a memory m: m.block maps the vector's block "old"  *)
(* and, while it is replaced, the block "new" to bits, which are Raw where *)
(* nothing was written; m.finish is _M_finish, m.at the iterator that a    *)
(* copy has returned.  Nothing but an allocation throws.                   *)
(***************************************************************************)
EXTENDS Integers, Sequences, TLC

CONSTANTS Vectors,
          WordBit,         \* the bits of a word, 32 in the code
          Raw

VARIABLES bits,            \* [Vectors -> [block, finish, dangling]]
          bad, call

vars == << bits, bad, call >>

-----------------------------------------------------------------------------
(* Iterators *)

Iterator(b, p, offset) == [block |-> b, p |-> p, offset |-> offset]
Begin(b) == Iterator(b, 0, 0)

\* _M_bump_up and _M_bump_down
Up(i) == IF i.offset = WordBit - 1 THEN [i EXCEPT !.offset = 0, !.p = @ + 1]
         ELSE [i EXCEPT !.offset = @ + 1]
Down(i) == IF i.offset = 0 THEN [i EXCEPT !.offset = WordBit - 1, !.p = @ - 1]
           ELSE [i EXCEPT !.offset = @ - 1]

\* Division and remainder as C has them: towards zero, with the dividend's sign
Quotient(n) == IF n < 0 THEN -((-n) \div WordBit) ELSE n \div WordBit
Remainder(n) == n - WordBit * Quotient(n)

\* Mutant: a negative remainder stays in the same word.
PlusSameWord(i, n) ==
    LET sum == n + i.offset IN
    IF Remainder(sum) < 0
    THEN [i EXCEPT !.p = @ + Quotient(sum), !.offset = Remainder(sum) + WordBit]
    ELSE [i EXCEPT !.p = @ + Quotient(sum), !.offset = Remainder(sum)]

\* _M_incr
Plus(i, n) ==
    LET sum == n + i.offset IN
    IF Remainder(sum) < 0
    THEN [i EXCEPT !.p = @ + Quotient(sum) - 1, !.offset = Remainder(sum) + WordBit]
    ELSE [i EXCEPT !.p = @ + Quotient(sum), !.offset = Remainder(sum)]

Minus(i, j) == WordBit * (i.p - j.p) + i.offset - j.offset

-----------------------------------------------------------------------------
(* Memory *)

Index(i) == WordBit * i.p + i.offset + 1
Words(n) == (n + WordBit - 1) \div WordBit

Init ==
    /\ bits = [x \in Vectors |->
                 [block |-> << >>, finish |-> Begin("old"), dangling |-> FALSE]]
    /\ bad = FALSE /\ call = [op |-> "construct", turn |-> 0]

Start(v, fails) ==
    [block |-> [b \in {"old", "new"} |-> IF b = "old" THEN v.block ELSE << >>],
     finish |-> v.finish, at |-> v.finish, fails |-> fails, threw |-> FALSE, bad |-> FALSE]

Bits(m, b) == m.block[b]
Get(m, i) == IF Index(i) \in DOMAIN Bits(m, i.block) THEN Bits(m, i.block)[Index(i)] ELSE Raw

Put(m, i, bit) ==
    IF Index(i) \in DOMAIN Bits(m, i.block) /\ bit # Raw
    THEN [m EXCEPT !.block[i.block] = [@ EXCEPT ![Index(i)] = bit]]
    ELSE [m EXCEPT !.bad = TRUE]

\* copy of n bits, copy_backward, and copy of values that come from elsewhere
RECURSIVE Copy(_, _, _, _), CopyBackward(_, _, _, _), CopyValues(_, _, _)
Copy(m, first, n, result) ==
    IF n <= 0 THEN [m EXCEPT !.at = result]
    ELSE Copy(Put(m, result, Get(m, first)), Up(first), n - 1, Up(result))

CopyBackward(m, last, n, result) ==
    IF n <= 0 THEN m
    ELSE CopyBackward(Put(m, Down(result), Get(m, Down(last))), Down(last), n - 1, Down(result))

CopyValues(m, values, result) ==
    IF values = << >> THEN [m EXCEPT !.at = result]
    ELSE CopyValues(Put(m, result, Head(values)), Tail(values), Up(result))

\* fill of all of the vector's words
FillWords(m, bit) == [m EXCEPT !.block["old"] = [i \in DOMAIN @ |-> bit]]

BitAlloc(m, n) ==
    IF m.fails THEN [m EXCEPT !.threw = TRUE]
    ELSE [m EXCEPT !.block["new"] = [i \in 1 .. WordBit * Words(n) |-> Raw]]

\* The new block, which holds the bits before m.at, becomes the vector's.
Adopt(m) ==
    [m EXCEPT !.block = [old |-> m.block["new"], new |-> << >>], !.finish = [m.at EXCEPT !.block = "old"]]

Size(m) == Minus(m.finish, Begin("old"))
EndOfStorage(m) == Iterator("old", Len(Bits(m, "old")) \div WordBit, 0)
Capacity(m) == Minus(EndOfStorage(m), Begin("old"))
Full(m) == m.finish.p = EndOfStorage(m).p

-----------------------------------------------------------------------------
(* Operations *)

\* A larger block, with values before pos
InsertInNew(m, pos, values, length) ==
    LET got == BitAlloc(m, length)
        before == Copy(got, Begin("old"), Minus(pos, Begin("old")), Begin("new"))
        put == CopyValues(before, values, before.at) IN
    IF got.threw THEN got ELSE Adopt(Copy(put, pos, Minus(m.finish, pos), put.at))

\* Mutant: the bits move up from the front.
InsertInPlaceForward(m, pos, values) ==
    LET n == Len(values)
        moved == Copy(m, pos, Minus(m.finish, pos), Plus(pos, n)) IN
    [CopyValues(moved, values, pos) EXCEPT !.finish = Plus(@, n)]

InsertInPlace(m, pos, values) ==
    LET n == Len(values)
        moved == CopyBackward(m, m.finish, Minus(m.finish, pos), Plus(m.finish, n)) IN
    [CopyValues(moved, values, pos) EXCEPT !.finish = Plus(@, n)]

\* push_back, and insert of a bit
InsertOne(m, pos, bit) ==
    IF Full(m)
    THEN InsertInNew(m, pos, << bit >>, IF Size(m) = 0 THEN WordBit ELSE 2 * Size(m))
    ELSE IF pos = m.finish THEN [Put(m, m.finish, bit) EXCEPT !.finish = Up(@)]
    ELSE InsertInPlace(m, pos, << bit >>)

\* _M_insert_range and _M_fill_insert
InsertAll(m, pos, values) ==
    LET n == Len(values) IN
    IF n = 0 THEN m
    ELSE IF Capacity(m) - Size(m) >= n THEN InsertInPlace(m, pos, values)
    ELSE InsertInNew(m, pos, values, Size(m) + (IF n > Size(m) THEN n ELSE Size(m)))

EraseOne(m, pos) ==
    LET n == Minus(m.finish, Plus(pos, 1)) IN
    [IF Plus(pos, 1) = m.finish THEN m ELSE Copy(m, Plus(pos, 1), n, pos) EXCEPT !.finish = Down(@)]

EraseRange(m, first, last) ==
    LET moved == Copy(m, last, Minus(m.finish, last), first) IN [moved EXCEPT !.finish = moved.at]

At(n) == Plus(Begin("old"), n)
Times(n, bit) == [i \in 1 .. n |-> bit]

Resize(m, n, bit) ==
    IF n < Size(m) THEN EraseRange(m, At(n), m.finish)
    ELSE InsertAll(m, m.finish, Times(n - Size(m), bit))

\* _M_fill_assign writes all of the words.
AssignFill(m, n, bit) ==
    IF n > Size(m) THEN LET filled == FillWords(m, bit) IN
                        InsertAll(filled, filled.finish, Times(n - Size(m), bit))
    ELSE FillWords(EraseRange(m, At(n), m.finish), bit)

\* _M_assign_aux
AssignRange(m, values) ==
    LET n == Len(values)
        put == CopyValues(m, SubSeq(values, 1, IF n < Size(m) THEN n ELSE Size(m)), Begin("old")) IN
    IF n < Size(m) THEN EraseRange(put, put.at, m.finish)
    ELSE InsertAll(put, m.finish, SubSeq(values, Size(m) + 1, n))

\* _M_initialize of a vector that has no block, and what a constructor does then
Construct(m, values) ==
    LET got == BitAlloc(m, Len(values)) IN
    IF got.threw THEN got ELSE Adopt(CopyValues(got, values, Begin("new")))

\* operator=: the block is gone before the new one is there.
Assign(m, values) ==
    IF Len(values) > Capacity(m) THEN Construct(m, values)
    ELSE [CopyValues(m, values, Begin("old")) EXCEPT !.finish = At(Len(values))]

Reserve(m, n) == IF Capacity(m) < n THEN InsertInNew(m, m.finish, << >>, n) ELSE m

\* The bits behind the end flip, too.
Flip(m) ==
    [m EXCEPT !.block["old"] = [i \in DOMAIN @ |-> IF @[i] = Raw THEN Raw ELSE ~@[i]]]

-----------------------------------------------------------------------------
(* Calls *)

Content(x) == SubSeq(bits[x].block, 1, Index(bits[x].finish) - 1)
Count(x) == Len(Content(x))

\* What is behind the end means nothing between two calls.
Finish(x, m, c, dangling) ==
    /\ bits' = [bits EXCEPT ![x] =
                  [block |-> [i \in DOMAIN Bits(m, "old") |->
                                IF i < Index(m.finish) THEN Bits(m, "old")[i] ELSE Raw],
                   finish |-> m.finish, dangling |-> dangling]]
    /\ bad' = (bad \/ m.bad \/ Bits(m, "new") # << >>)
    /\ call' = c @@ [op |-> "replace", on |-> x, threw |-> m.threw, turn |-> 1 - call.turn]

\* Clients let go of a vector that was left without its block.
Call(x, Operation(_), c) ==
    /\ ~bits[x].dangling
    /\ \E fails \in BOOLEAN :
         LET m == Operation(Start(bits[x], fails)) IN
         (fails => m.threw) /\ Finish(x, m, c, FALSE)

Replaces(from, to, values, strong) ==
    [from |-> from, to |-> to, values |-> values, strong |-> strong]

CallInsert(x, pos, bit) ==
    Call(x, LAMBDA m : InsertOne(m, At(pos), bit), Replaces(pos, pos, << bit >>, TRUE))

CallInsertAll(x, pos, values) ==
    Call(x, LAMBDA m : InsertAll(m, At(pos), values), Replaces(pos, pos, values, TRUE))

CallErase(x, pos) ==
    Call(x, LAMBDA m : EraseOne(m, At(pos)), Replaces(pos, pos + 1, << >>, TRUE))

CallPopBack(x) ==
    /\ Count(x) > 0
    /\ Call(x, LAMBDA m : [m EXCEPT !.finish = Down(@)], Replaces(Count(x) - 1, Count(x), << >>, TRUE))

CallEraseRange(x, from, to) ==
    Call(x, LAMBDA m : EraseRange(m, At(from), At(to)), Replaces(from, to, << >>, TRUE))

CallResize(x, n, bit) ==
    Call(x, LAMBDA m : Resize(m, n, bit),
         IF n < Count(x) THEN Replaces(n, Count(x), << >>, TRUE)
         ELSE Replaces(Count(x), Count(x), Times(n - Count(x), bit), TRUE))

\* What was assigned stays when there is no memory for the rest.
CallAssignFill(x, n, bit) ==
    Call(x, LAMBDA m : AssignFill(m, n, bit), Replaces(0, Count(x), Times(n, bit), FALSE))

CallAssignRange(x, y) ==
    x # y /\ Call(x, LAMBDA m : AssignRange(m, Content(y)), Replaces(0, Count(x), Content(y), FALSE))

CallConstruct(x, values) ==
    Call(x, LAMBDA m : Construct(m, values), Replaces(0, Count(x), values, TRUE))

CallAssign(x, y) ==
    /\ x # y /\ ~bits[x].dangling /\ ~bits[y].dangling
    /\ \E fails \in BOOLEAN :
         LET m == Assign(Start(bits[x], fails), Content(y)) IN
         /\ fails => m.threw
         /\ Finish(x, m, Replaces(0, Count(x), Content(y), FALSE), m.threw)

CallReserve(x, n) ==
    Call(x, LAMBDA m : Reserve(m, n), Replaces(Count(x), Count(x), << >>, TRUE))

CallFlip(x) ==
    Call(x, Flip, Replaces(0, Count(x), [i \in 1 .. Count(x) |-> ~Content(x)[i]], TRUE))

\* operator[] and the assignment to the reference that it returns
CallSet(x, pos, bit) ==
    Call(x, LAMBDA m : Put(m, At(pos), bit), Replaces(pos, pos + 1, << bit >>, TRUE))

CallSwap(x, y) ==
    /\ x # y /\ ~bits[x].dangling /\ ~bits[y].dangling
    /\ bits' = [bits EXCEPT ![x] = bits[y], ![y] = bits[x]]
    /\ call' = [op |-> "swap", on |-> x, from |-> y, turn |-> 1 - call.turn]
    /\ UNCHANGED bad

CONSTANT MaxBits           \* bound on the bits that the modelled clients keep in a vector

Next ==
    \E x \in Vectors :
        \/ \E bit \in BOOLEAN : \E pos \in 0 .. Count(x) :
             \/ Count(x) < MaxBits /\ CallInsert(x, pos, bit)
             \/ \E n \in 0 .. MaxBits - Count(x) : CallInsertAll(x, pos, Times(n, bit))
             \/ pos < Count(x) /\ CallSet(x, pos, bit)
        \/ \E bit \in BOOLEAN : \E n \in 0 .. MaxBits :
             \/ CallResize(x, n, bit) \/ CallAssignFill(x, n, bit)
             \/ CallConstruct(x, Times(n, bit))
        \/ \E pos \in 0 .. Count(x) - 1 : CallErase(x, pos)
        \/ \E from, to \in 0 .. Count(x) : from <= to /\ CallEraseRange(x, from, to)
        \/ CallPopBack(x) \/ CallFlip(x)
        \/ \E n \in 0 .. MaxBits : CallReserve(x, n)
        \/ \E y \in Vectors :
             \/ CallAssign(x, y) \/ CallAssignRange(x, y) \/ CallSwap(x, y)
             \/ \E pos \in 0 .. Count(x) :
                  /\ x # y /\ Count(x) + Count(y) <= MaxBits
                  /\ CallInsertAll(x, pos, Content(y))

Spec == Init /\ [][Next]_vars

-----------------------------------------------------------------------------
(* Properties *)

TypeOK ==
    /\ \A x \in Vectors :
         /\ bits[x].block \in Seq(BOOLEAN \union {Raw})
         /\ bits[x].finish.p \in Nat /\ bits[x].finish.offset \in 0 .. WordBit - 1
         /\ bits[x].dangling \in BOOLEAN
    /\ bad \in BOOLEAN

\* The vector's bits are written, and begin() + i and end() - j meet, wherever in a
\* word the two are.
WellFormed ==
    \A x \in Vectors :
        LET n == Count(x) IN
        /\ Index(bits[x].finish) - 1 <= Len(bits[x].block)
        /\ \A i \in 1 .. n : bits[x].block[i] # Raw
        /\ \A i \in 0 .. n : Plus(bits[x].finish, i - n) = At(i) /\ Minus(At(i), Begin("old")) = i

\* No bit outside of the block or unwritten is read or written, and no block leaks.
NothingLost == ~bad

\* The vectors are the sequences that their calls say.
Sequence == INSTANCE AbstractSequences
              WITH Containers <- Vectors, content <- [x \in Vectors |-> Content(x)]
ImplementsSequences == Sequence!SequencesSpec
=============================================================================
