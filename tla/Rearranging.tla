----------------------------- MODULE Rearranging -----------------------------
(***************************************************************************)
(* Partitions, removals, permutations, shuffles and samples (stl_algo.h).   *)
(* The predicate holds for elements whose keys are below a limit, and the  *)
(* random numbers are a choice: choice[n] is that of __random_number(n).   *)
(* An algorithm that returns an iterator or a truth value does it in at.   *)
(***************************************************************************)
EXTENDS Merging
LOCAL INSTANCE FiniteSetsExt
LOCAL INSTANCE SequencesExt

Holds(x, limit) == x.key < limit

\* find_if and find_if(not1(...)) from first on
FindIf(s, first, last, limit, holds) ==
    Min({p \in first .. last - 1 : Holds(s[p], limit) = holds} \union {last})

PartitionForward(s, first, last, limit) ==
    LET from == FindIf(s, first, last, limit, FALSE)
        step(r, i) == LET p == from + i IN
            IF Holds(r.s[p], limit) THEN [s |-> Swapped(r.s, r.at, p), at |-> r.at + 1] ELSE r
    IN FoldLeft(step, [s |-> s, at |-> from], [i \in 1 .. last - from - 1 |-> i])

RECURSIVE PartitionBidirectional(_, _, _, _)
PartitionBidirectional(s, first, last, limit) ==
    LET i == FindIf(s, first, last, limit, FALSE)
        j == Max({p \in i + 1 .. last - 1 : Holds(s[p], limit)} \union {i})
    IN IF i = j \/ i = last THEN [s |-> s, at |-> i]
       ELSE PartitionBidirectional(Swapped(s, i, j), i + 1, j, limit)

Partition(s, first, last, limit, category) ==
    IF category = "forward" THEN PartitionForward(s, first, last, limit)
    ELSE PartitionBidirectional(s, first, last, limit)

RECURSIVE InplaceStablePartition(_, _, _, _, _)
InplaceStablePartition(s, first, last, limit, category) ==
    LET middle == first + (last - first) \div 2
        lower == InplaceStablePartition(s, first, middle, limit, category)
        upper == InplaceStablePartition(lower.s, middle, last, limit, category)
    IN IF last - first = 1 THEN [s |-> s, at |-> IF Holds(s[first], limit) THEN last ELSE first]
       ELSE Rotate(upper.s, lower.at, middle, upper.at, category)

RECURSIVE StablePartitionAdaptive(_, _, _, _, _, _)
StablePartitionAdaptive(s, first, last, limit, size, category) ==
    LET middle == first + (last - first) \div 2
        lower == StablePartitionAdaptive(s, first, middle, limit, size, category)
        upper == StablePartitionAdaptive(lower.s, middle, last, limit, size, category)
        kept == SelectSeq(Between(s, first, last), LAMBDA x : Holds(x, limit))
        buffer == SelectSeq(Between(s, first, last), LAMBDA x : ~Holds(x, limit))
    IN IF last - first <= size
       THEN [s |-> Overwritten(s, first, kept \o buffer), at |-> first + Len(kept)]
       ELSE Rotate(upper.s, lower.at, middle, upper.at, category)

StablePartition(s, first, last, limit, size, category) ==
    IF first = last THEN [s |-> s, at |-> first]
    ELSE IF size = 0 THEN InplaceStablePartition(s, first, last, limit, category)
    ELSE StablePartitionAdaptive(s, first, last, limit, size, category)

\* The loops of remove_copy and of unique_copy, where the result is the range itself: it
\* trails behind, and elements of the rest are left as they were or have been moved.
RemoveCopy(s, first, last, result, x) ==
    LET step(r, i) == LET p == first + i - 1 IN
            IF Same(r.s[p], x) THEN r ELSE [s |-> [r.s EXCEPT ![r.at] = r.s[p]], at |-> r.at + 1]
    IN FoldLeft(step, [s |-> s, at |-> result], [i \in 1 .. last - first |-> i])

Find(s, first, last, x) == Min({p \in first .. last - 1 : Same(s[p], x)} \union {last})

RemoveAll(s, first, last, x) ==
    LET from == Find(s, first, last, x)
    IN IF from = last THEN [s |-> s, at |-> last] ELSE RemoveCopy(s, from + 1, last, from, x)

AdjacentFind(s, first, last) ==
    Min({p \in first .. last - 2 : Same(s[p], s[p + 1])} \union {last})

UniqueCopy(s, first, last, result) ==
    LET step(r, i) == LET p == first + i IN
            IF Same(r.s[r.at], r.s[p]) THEN r ELSE [s |-> [r.s EXCEPT ![r.at + 1] = r.s[p]], at |-> r.at + 1]
        copied == FoldLeft(step, [s |-> [s EXCEPT ![result] = s[first]], at |-> result],
                           [i \in 1 .. last - first - 1 |-> i])
    IN IF first = last THEN [s |-> s, at |-> result] ELSE [copied EXCEPT !.at = copied.at + 1]

Unique(s, first, last) ==
    LET from == AdjacentFind(s, first, last) IN UniqueCopy(s, from, last, from)

\* The loops of next_permutation look from the end for an ascent, and for an element to swap.
NextPermutation(s, first, last) ==
    LET ascents == {i \in first .. last - 2 : Less(s[i], s[i + 1])}
        i == Max(ascents)
        j == Max({p \in first .. last - 1 : Less(s[i], s[p])})
    IN IF ascents = {} THEN [s |-> ReverseBidirectional(s, first, last), at |-> FALSE]
       ELSE [s |-> ReverseBidirectional(Swapped(s, i, j), i + 1, last), at |-> TRUE]

PrevPermutation(s, first, last) ==
    LET descents == {i \in first .. last - 2 : Less(s[i + 1], s[i])}
        i == Max(descents)
        j == Max({p \in first .. last - 1 : Less(s[p], s[i])})
    IN IF descents = {} THEN [s |-> ReverseBidirectional(s, first, last), at |-> FALSE]
       ELSE [s |-> ReverseBidirectional(Swapped(s, i, j), i + 1, last), at |-> TRUE]

RandomShuffle(s, first, last, choice) ==
    FoldLeft(LAMBDA r, i : Swapped(r, first + i, first + choice[i + 1]), s, [i \in 1 .. last - first - 1 |-> i])

\* random_sample_n: m elements are still to be chosen among the remaining ones.
RECURSIVE RandomSampleN(_, _, _)
RandomSampleN(s, m, choice) ==
    IF m = 0 THEN << >>
    ELSE IF choice[Len(s)] < m THEN << Head(s) >> \o RandomSampleN(Tail(s), m - 1, choice)
    ELSE RandomSampleN(Tail(s), m, choice)

\* random_sample to a range of n elements
RandomSample(s, n, choice) ==
    LET step(out, t) == IF choice[t] < n THEN [out EXCEPT ![choice[t] + 1] = s[t]] ELSE out
    IN FoldLeft(step, SubSeq(s, 1, Min({n, Len(s)})), [i \in 1 .. Len(s) - n |-> n + i])
=============================================================================
