------------------------------- MODULE Sorting -------------------------------
(***************************************************************************)
(* sort, partial_sort and nth_element (stl_algo.h).  The unguarded loops of  *)
(* the code look for an element without looking for the end of the range;  *)
(* here they stop at it, and bad says that they have not found one before. *)
(* A work record w is the range with bad.                                  *)
(***************************************************************************)
EXTENDS Heaps
LOCAL INSTANCE FiniteSetsExt
LOCAL INSTANCE SequencesExt

CONSTANT Threshold        \* __stl_threshold, 16 in the code

ASSUME ThresholdAssumption == Threshold \in Nat \ {0}

Work(s) == [s |-> s, bad |-> FALSE]

Median(x, y, z) ==
    IF Less(x, y) THEN IF Less(y, z) THEN y ELSE IF Less(x, z) THEN z ELSE x
    ELSE IF Less(x, z) THEN x ELSE IF Less(y, z) THEN z ELSE y

MedianOf(s, first, last) == Median(s[first], s[first + (last - first) \div 2], s[last - 1])

\* Mutant: the loop from above does not stop at elements that equal the pivot.
NotAboveStrict(s, pivot, lo, last) == {p \in lo .. last - 1 : Less(s[p], pivot)}

NotBelow(s, pivot, first, hi) == {p \in first .. hi - 1 : ~Less(s[p], pivot)}
NotAbove(s, pivot, lo, last) == {p \in lo .. last - 1 : ~Less(pivot, s[p])}

\* __unguarded_partition of [lo, hi), of which [first, last) is left
RECURSIVE PartitionFrom(_, _, _, _, _, _)
PartitionFrom(s, lo, hi, first, last, pivot) ==
    LET up == NotBelow(s, pivot, first, hi)
        down == NotAbove(s, pivot, lo, last)
        i == Min(up)
        j == Max(down)
    IN IF up = {} \/ down = {} THEN [s |-> s, at |-> hi, bad |-> TRUE]
       ELSE IF i >= j THEN [s |-> s, at |-> i, bad |-> FALSE]
       ELSE PartitionFrom(Swapped(s, i, j), lo, hi, i + 1, j, pivot)

UnguardedPartition(s, first, last) ==
    PartitionFrom(s, first, last, first, last, MedianOf(s, first, last))

\* s with the element at last moved down to p, as copy_backward or the loop of an insertion does
MovedDown(s, p, last) ==
    SubSeq(s, 1, p - 1) \o << s[last] >> \o SubSeq(s, p, last - 1) \o SubSeq(s, last + 1, Len(s))

\* __unguarded_linear_insert of the element at last, which needs one from first on that is not larger
UnguardedInsert(w, first, last) ==
    LET stops == NotAbove(w.s, w.s[last], first, last)
    IN IF stops = {} THEN [w EXCEPT !.bad = TRUE] ELSE [w EXCEPT !.s = MovedDown(w.s, Max(stops) + 1, last)]

LinearInsert(w, first, last) ==
    IF Less(w.s[last], w.s[first]) THEN [w EXCEPT !.s = MovedDown(w.s, first, last)]
    ELSE UnguardedInsert(w, first, last)

InsertionSort(w, first, last) ==
    FoldLeft(LAMBDA v, i : LinearInsert(v, first, first + i), w, [i \in 1 .. last - first - 1 |-> i])

\* __unguarded_insertion_sort of [middle, last) into the sorted [first, middle)
UnguardedInsertionSort(w, first, middle, last) ==
    FoldLeft(LAMBDA v, i : UnguardedInsert(v, first, middle + i - 1), w, [i \in 1 .. last - middle |-> i])

FinalInsertionSort(w, first, last) ==
    IF last - first > Threshold
    THEN UnguardedInsertionSort(InsertionSort(w, first, first + Threshold), first, first + Threshold, last)
    ELSE InsertionSort(w, first, last)

\* Mutant: an element that replaces another in the heap is not replaced by it.
SelectOverwriting(s, first, middle, last) ==
    LET step(r, i) == LET p == middle + i - 1 IN
            IF Less(r[p], r[first]) THEN AdjustHeap(r, first, 0, middle - first, r[p]) ELSE r
    IN FoldLeft(step, s, [i \in 1 .. last - middle |-> i])

\* Elements of [middle, last) that are smaller than the top of the heap before them replace it.
Select(s, first, middle, last) ==
    LET step(r, i) == LET p == middle + i - 1 IN
            IF Less(r[p], r[first]) THEN PopTo(r, first, middle, p, r[p]) ELSE r
    IN FoldLeft(step, s, [i \in 1 .. last - middle |-> i])

PartialSort(s, first, middle, last) ==
    SortHeap(Select(MakeHeap(s, first, middle), first, middle, last), first, middle)

RECURSIVE Lg(_)
Lg(n) == IF n = 1 THEN 0 ELSE 1 + Lg(n \div 2)

RECURSIVE IntrosortLoop(_, _, _, _)
IntrosortLoop(w, first, last, depth) ==
    IF last - first <= Threshold THEN w
    ELSE IF depth = 0 THEN [w EXCEPT !.s = PartialSort(w.s, first, last, last)]
    ELSE LET cut == UnguardedPartition(w.s, first, last)
             above == IntrosortLoop([s |-> cut.s, bad |-> w.bad \/ cut.bad], cut.at, last, depth - 1)
         IN IntrosortLoop(above, first, cut.at, depth - 1)

\* sort, whose recursion is factor times the logarithm deep; factor is 2 in the code
Sort(s, first, last, factor) ==
    IF first = last THEN Work(s)
    ELSE FinalInsertionSort(IntrosortLoop(Work(s), first, last, factor * Lg(last - first)), first, last)

\* partial_sort_copy of s to a range of n elements
PartialSortCopy(s, n) ==
    LET kept == SubSeq(s, 1, Min({n, Len(s)}))
        step(r, x) == IF Less(x, r[1]) THEN AdjustHeap(r, 1, 0, Len(r), x) ELSE r
    IN IF n = 0 THEN << >>
       ELSE SortHeap(FoldLeft(step, MakeHeap(kept, 1, Len(kept) + 1), SubSeq(s, Len(kept) + 1, Len(s))), 1, Len(kept) + 1)

RECURSIVE NthElementFrom(_, _, _, _)
NthElementFrom(w, first, nth, last) ==
    IF last - first <= 3 THEN InsertionSort(w, first, last)
    ELSE LET cut == UnguardedPartition(w.s, first, last)
             v == [s |-> cut.s, bad |-> w.bad \/ cut.bad]
         IN IF cut.at <= nth THEN NthElementFrom(v, cut.at, nth, last)
            ELSE NthElementFrom(v, first, nth, cut.at)

NthElement(s, first, nth, last) == NthElementFrom(Work(s), first, nth, last)
=============================================================================
