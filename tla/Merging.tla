------------------------------- MODULE Merging -------------------------------
(***************************************************************************)
(* Rotations, binary searches, merges, stable_sort and the set operations    *)
(* (stl_algo.h).  An algorithm with a buffer is called with the size of the *)
(* one that it got: get_temporary_buffer halves its request until malloc   *)
(* succeeds, down to none.  bad says that one has written past its buffer. *)
(***************************************************************************)
EXTENDS Sorting
LOCAL INSTANCE FiniteSetsExt
LOCAL INSTANCE SequencesExt

CONSTANTS ChunkSize,          \* __stl_chunk_size, 7 in the code
          InplaceThreshold    \* the 15 of __inplace_stable_sort

ASSUME MergingAssumption == ChunkSize \in Nat \ {0} /\ InplaceThreshold \in Nat \ {0, 1}

\* s with block from position first on
Overwritten(s, first, block) ==
    SubSeq(s, 1, first - 1) \o block \o SubSeq(s, first + Len(block), Len(s))

Between(s, first, last) == SubSeq(s, first, last - 1)

(* Reversals and rotations *)

RECURSIVE ReverseBidirectional(_, _, _)
ReverseBidirectional(s, first, last) ==
    IF first = last \/ first = last - 1 THEN s
    ELSE ReverseBidirectional(Swapped(s, first, last - 1), first + 1, last - 1)

RECURSIVE ReverseRandom(_, _, _)
ReverseRandom(s, first, last) ==
    IF first < last THEN ReverseRandom(Swapped(s, first, last - 1), first + 1, last - 1) ELSE s

\* The loops of __rotate for forward iterators: in the first one, second is not reset at the end.
RECURSIVE RotateSwaps(_, _, _, _, _, _)
RotateSwaps(s, first, second, middle, last, resets) ==
    IF second = last THEN [s |-> s, first |-> first, middle |-> middle]
    ELSE LET reached == first + 1 = middle
         IN RotateSwaps(Swapped(s, first, second), first + 1,
                        IF resets /\ ~reached /\ second + 1 = last THEN middle ELSE second + 1,
                        IF reached THEN second + 1 ELSE middle, last, resets)

RotateForward(s, first, middle, last) ==
    LET once == RotateSwaps(s, first, middle, middle, last, FALSE)
    IN [s |-> RotateSwaps(once.s, once.first, once.middle, once.middle, last, TRUE).s, at |-> once.first]

RECURSIVE SwapEnds(_, _, _, _)
SwapEnds(s, first, middle, last) ==
    IF first = middle \/ middle = last THEN [s |-> s, first |-> first, last |-> last]
    ELSE SwapEnds(Swapped(s, first, last - 1), first + 1, middle, last - 1)

RotateBidirectional(s, first, middle, last) ==
    LET turned == ReverseBidirectional(ReverseBidirectional(s, first, middle), middle, last)
        ends == SwapEnds(turned, first, middle, last)
    IN IF ends.first = middle
       THEN [s |-> ReverseBidirectional(ends.s, middle, ends.last), at |-> ends.last]
       ELSE [s |-> ReverseBidirectional(ends.s, ends.first, middle), at |-> ends.first]

RECURSIVE Gcd(_, _)
Gcd(m, n) == IF n = 0 THEN m ELSE Gcd(n, m % n)

\* The overload of __rotate for random access iterators moves the elements along their cycles: a
\* step of the loop moves one element down by l or up by k, if it can, and then one.
RECURSIVE CycleUp(_, _, _, _, _, _)
CycleUp(s, base, p, k, l, steps) ==
    IF steps = 0 THEN [s |-> s, p |-> p]
    ELSE LET down == p > base + l
             q == IF down THEN p - l ELSE p
             r == IF down THEN [s EXCEPT ![p] = s[p - l]] ELSE s
         IN CycleUp([r EXCEPT ![q] = r[q + k]], base, q + k, k, l, steps - 1)

RECURSIVE CycleDown(_, _, _, _, _, _)
CycleDown(s, last, p, k, l, steps) ==
    IF steps = 0 THEN [s |-> s, p |-> p]
    ELSE LET up == p < last - k
             q == IF up THEN p + k ELSE p
             r == IF up THEN [s EXCEPT ![p] = s[p + k]] ELSE s
         IN CycleDown([r EXCEPT ![q] = r[q - l]], last, q - l, k, l, steps - 1)

RotateRandom(s, first, middle, last) ==
    LET k == middle - first
        l == last - middle
        d == Gcd(last - first, k)
        cycle(r, i) ==
            LET start == first + i - 1
                moved == IF k < l THEN CycleUp(r, start, start, k, l, l \div d)
                         ELSE CycleDown(r, last, start, k, l, k \div d - 1)
            IN [moved.s EXCEPT ![moved.p] = r[start]]
    IN [s |-> IF k = l THEN Overwritten(Overwritten(s, first, Between(s, middle, last)),
                                        middle, Between(s, first, middle))
              ELSE FoldLeft(cycle, s, [i \in 1 .. d |-> i]),
        at |-> first + l]

\* rotate, which returns where the first element has gone.  The tag of random access
\* iterators does not match __rotate's overload for them, but the bidirectional one.
Rotate(s, first, middle, last, category) ==
    IF first = middle THEN [s |-> s, at |-> last]
    ELSE IF middle = last THEN [s |-> s, at |-> first]
    ELSE IF category = "forward" THEN RotateForward(s, first, middle, last)
    ELSE RotateBidirectional(s, first, middle, last)

(* Binary searches *)

RECURSIVE LowerBoundFrom(_, _, _, _)
LowerBoundFrom(s, first, len, x) ==
    LET half == len \div 2
    IN IF len = 0 THEN first
       ELSE IF Less(s[first + half], x) THEN LowerBoundFrom(s, first + half + 1, len - half - 1, x)
       ELSE LowerBoundFrom(s, first, half, x)

\* Mutant: upper_bound stops before elements that equal x.
UpperBoundStrict(s, first, last, x) == LowerBoundFrom(s, first, last - first, x)

RECURSIVE UpperBoundFrom(_, _, _, _)
UpperBoundFrom(s, first, len, x) ==
    LET half == len \div 2
    IN IF len = 0 THEN first
       ELSE IF Less(x, s[first + half]) THEN UpperBoundFrom(s, first, half, x)
       ELSE UpperBoundFrom(s, first + half + 1, len - half - 1, x)

LowerBound(s, first, last, x) == LowerBoundFrom(s, first, last - first, x)
UpperBound(s, first, last, x) == UpperBoundFrom(s, first, last - first, x)

RECURSIVE EqualRangeFrom(_, _, _, _)
EqualRangeFrom(s, first, len, x) ==
    LET half == len \div 2
        middle == first + half
    IN IF len = 0 THEN << first, first >>
       ELSE IF Less(s[middle], x) THEN EqualRangeFrom(s, middle + 1, len - half - 1, x)
       ELSE IF Less(x, s[middle]) THEN EqualRangeFrom(s, first, half, x)
       ELSE << LowerBound(s, first, middle, x), UpperBound(s, middle + 1, first + len, x) >>

EqualRange(s, first, last, x) == EqualRangeFrom(s, first, last - first, x)

BinarySearch(s, first, last, x) ==
    LET i == LowerBound(s, first, last, x) IN i # last /\ ~Less(x, s[i])

(* Merges *)

RECURSIVE Merged(_, _)
Merged(x, y) ==
    IF x = << >> \/ y = << >> THEN x \o y
    ELSE IF Less(Head(y), Head(x)) THEN << Head(y) >> \o Merged(x, Tail(y))
    ELSE << Head(x) >> \o Merged(Tail(x), y)

\* merge of a buffer and [middle, last) to the range that begins at result and may overlap the latter
RECURSIVE MergeForward(_, _, _, _, _)
MergeForward(s, buffer, middle, last, result) ==
    IF buffer = << >> THEN Overwritten(s, result, Between(s, middle, last))
    ELSE IF middle = last THEN Overwritten(s, result, buffer)
    ELSE IF Less(s[middle], Head(buffer))
         THEN MergeForward([s EXCEPT ![result] = s[middle]], buffer, middle + 1, last, result + 1)
         ELSE MergeForward([s EXCEPT ![result] = Head(buffer)], Tail(buffer), middle, last, result + 1)

\* __merge_backward of [first, middle) and a buffer to the range that ends at result
RECURSIVE MergeBackward(_, _, _, _, _)
MergeBackward(s, first, middle, buffer, result) ==
    LET top == Len(buffer)
    IN IF first = middle THEN Overwritten(s, result - top, buffer)
       ELSE IF top = 0 THEN Overwritten(s, result - (middle - first), Between(s, first, middle))
       ELSE IF Less(buffer[top], s[middle - 1])
            THEN MergeBackward([s EXCEPT ![result - 1] = s[middle - 1]], first, middle - 1, buffer, result - 1)
            ELSE MergeBackward([s EXCEPT ![result - 1] = buffer[top]], first, middle,
                               SubSeq(buffer, 1, top - 1), result - 1)

\* Where a merge without room divides its halves: the longer one in the middle,
\* and the other one so that equal elements keep their order.
Cuts(s, first, middle, last) ==
    LET len1 == middle - first
        len2 == last - middle
    IN IF len1 > len2
       THEN LET cut == first + len1 \div 2 IN << cut, LowerBound(s, middle, last, s[cut]) >>
       ELSE LET cut == middle + len2 \div 2 IN << UpperBound(s, first, middle, s[cut]), cut >>

RECURSIVE MergeWithoutBuffer(_, _, _, _)
MergeWithoutBuffer(s, first, middle, last) ==
    LET cut == Cuts(s, first, middle, last)
        turned == Rotate(s, cut[1], middle, cut[2], "bidirectional")
        below == MergeWithoutBuffer(turned.s, first, cut[1], turned.at)
    IN IF first = middle \/ middle = last THEN s
       ELSE IF last - first = 2 THEN IF Less(s[middle], s[first]) THEN Swapped(s, first, middle) ELSE s
       ELSE MergeWithoutBuffer(below, turned.at, cut[2], last)

\* __rotate_adaptive, whose copies through the buffer exchange the two parts
RotateAdaptive(s, first, middle, last, size) ==
    LET len1 == middle - first
        len2 == last - middle
    IN IF len1 <= size \/ (len1 > len2 /\ len2 <= size)
       THEN [s |-> Overwritten(s, first, Between(s, middle, last) \o Between(s, first, middle)),
             at |-> first + len2]
       ELSE Rotate(s, first, middle, last, "bidirectional")

RECURSIVE MergeAdaptive(_, _, _, _, _)
MergeAdaptive(s, first, middle, last, size) ==
    LET len1 == middle - first
        len2 == last - middle
        cut == Cuts(s, first, middle, last)
        turned == RotateAdaptive(s, cut[1], middle, cut[2], size)
        below == MergeAdaptive(turned.s, first, cut[1], turned.at, size)
    IN IF len1 <= len2 /\ len1 <= size THEN MergeForward(s, Between(s, first, middle), middle, last, first)
       ELSE IF len2 <= size THEN MergeBackward(s, first, middle, Between(s, middle, last), last)
       ELSE MergeAdaptive(below, turned.at, cut[2], last, size)

\* inplace_merge with a buffer of that size, or none
InplaceMerge(s, first, middle, last, size) ==
    IF first = middle \/ middle = last THEN s
    ELSE IF size = 0 THEN MergeWithoutBuffer(s, first, middle, last)
    ELSE MergeAdaptive(s, first, middle, last, size)

(* stable_sort *)

RECURSIVE InplaceStableSort(_, _, _)
InplaceStableSort(w, first, last) ==
    LET middle == first + (last - first) \div 2
        halves == InplaceStableSort(InplaceStableSort(w, first, middle), middle, last)
    IN IF last - first < InplaceThreshold THEN InsertionSort(w, first, last)
       ELSE [halves EXCEPT !.s = MergeWithoutBuffer(halves.s, first, middle, last)]

RECURSIVE ChunkInsertionSort(_, _, _)
ChunkInsertionSort(w, first, last) ==
    IF last - first < ChunkSize THEN InsertionSort(w, first, last)
    ELSE ChunkInsertionSort(InsertionSort(w, first, first + ChunkSize), first + ChunkSize, last)

\* __merge_sort_loop: merges of neighbours of step elements each
RECURSIVE MergeSortLoop(_, _)
MergeSortLoop(x, step) ==
    LET cut == Min({step, Len(x)})
    IN IF Len(x) < 2 * step THEN Merged(SubSeq(x, 1, cut), SubSeq(x, cut + 1, Len(x)))
       ELSE Merged(SubSeq(x, 1, step), SubSeq(x, step + 1, 2 * step))
            \o MergeSortLoop(SubSeq(x, 2 * step + 1, Len(x)), step)

\* To the buffer and back, with steps that double
RECURSIVE MergeRounds(_, _)
MergeRounds(x, step) ==
    IF step >= Len(x) THEN x ELSE MergeRounds(MergeSortLoop(MergeSortLoop(x, step), 2 * step), 4 * step)

MergeSortWithBuffer(w, first, last, size) ==
    LET chunks == ChunkInsertionSort(w, first, last)
    IN [s |-> Overwritten(chunks.s, first, MergeRounds(Between(chunks.s, first, last), ChunkSize)),
        bad |-> chunks.bad \/ (ChunkSize < last - first /\ last - first > size)]

\* Mutant: the halves are taken to fit into the buffer if the smaller one does.
HalfRoundedDown(first, last) == (last - first) \div 2

HalfOf(first, last) == (last - first + 1) \div 2

RECURSIVE StableSortAdaptive(_, _, _, _)
StableSortAdaptive(w, first, last, size) ==
    LET len == HalfOf(first, last)
        middle == first + len
        halves == IF len > size
                  THEN StableSortAdaptive(StableSortAdaptive(w, first, middle, size), middle, last, size)
                  ELSE MergeSortWithBuffer(MergeSortWithBuffer(w, first, middle, size), middle, last, size)
    IN [halves EXCEPT !.s = MergeAdaptive(halves.s, first, middle, last, size)]

StableSort(s, first, last, size) ==
    IF size = 0 THEN InplaceStableSort(Work(s), first, last)
    ELSE StableSortAdaptive(Work(s), first, last, size)

(* Set operations on sorted ranges *)

RECURSIVE Includes(_, _)
Includes(x, y) ==
    IF y = << >> THEN TRUE
    ELSE IF x = << >> \/ Less(Head(y), Head(x)) THEN FALSE
    ELSE Includes(Tail(x), IF Less(Head(x), Head(y)) THEN y ELSE Tail(y))

RECURSIVE SetUnion(_, _)
SetUnion(x, y) ==
    IF x = << >> \/ y = << >> THEN x \o y
    ELSE IF Less(Head(x), Head(y)) THEN << Head(x) >> \o SetUnion(Tail(x), y)
    ELSE IF Less(Head(y), Head(x)) THEN << Head(y) >> \o SetUnion(x, Tail(y))
    ELSE << Head(x) >> \o SetUnion(Tail(x), Tail(y))

RECURSIVE SetIntersection(_, _)
SetIntersection(x, y) ==
    IF x = << >> \/ y = << >> THEN << >>
    ELSE IF Less(Head(x), Head(y)) THEN SetIntersection(Tail(x), y)
    ELSE IF Less(Head(y), Head(x)) THEN SetIntersection(x, Tail(y))
    ELSE << Head(x) >> \o SetIntersection(Tail(x), Tail(y))

RECURSIVE SetDifference(_, _)
SetDifference(x, y) ==
    IF x = << >> \/ y = << >> THEN x
    ELSE IF Less(Head(x), Head(y)) THEN << Head(x) >> \o SetDifference(Tail(x), y)
    ELSE SetDifference(IF Less(Head(y), Head(x)) THEN x ELSE Tail(x), Tail(y))

RECURSIVE SetSymmetricDifference(_, _)
SetSymmetricDifference(x, y) ==
    IF x = << >> \/ y = << >> THEN x \o y
    ELSE IF Less(Head(x), Head(y)) THEN << Head(x) >> \o SetSymmetricDifference(Tail(x), y)
    ELSE IF Less(Head(y), Head(x)) THEN << Head(y) >> \o SetSymmetricDifference(x, Tail(y))
    ELSE SetSymmetricDifference(Tail(x), Tail(y))
=============================================================================
