------------------------------ MODULE Algorithms ------------------------------
(***************************************************************************)
(* Calls of the algorithms on one range of at most a few elements, or on the *)
(* part of it without its ends.  The first heap elements of the range are    *)
(* the heap of a client, like a priority_queue, that pushes and pops; other  *)
(* calls end it.  A client erases what remove and unique leave behind.       *)
(***************************************************************************)
EXTENDS Searching, Numeric, TLC
LOCAL INSTANCE FiniteSetsExt
LOCAL INSTANCE Functions

CONSTANTS Shapes,          \* the keys of the elements at the beginning
          DepthFactors     \* 2 in the code: the others let short ranges reach the depth limit

ASSUME AlgorithmsAssumption == Shapes \subseteq Seq(Nat) /\ DepthFactors \subseteq Nat

VARIABLES range, heap, call, bad

vars == << range, heap, call, bad >>

Init ==
    /\ \E keys \in Shapes : range = [i \in DOMAIN keys |-> [key |-> keys[i], id |-> i]]
    /\ heap = 0 /\ bad = FALSE
    /\ call = [op |-> "none"]

end == Len(range) + 1

Parts == {<< 1, end >>} \union (IF end > 3 THEN {<< 2, end - 1 >>} ELSE {})

Categories == {"forward", "bidirectional"}
Limits == {range[i].key : i \in DOMAIN range} \union {0}

\* The sizes of the buffers that get_temporary_buffer may return
RECURSIVE Halves(_)
Halves(n) == IF n = 0 THEN {0} ELSE {n} \union Halves(n \div 2)

Called(op, part, c) == [op |-> op, first |-> part[1], last |-> part[2]] @@ c

Rearrange(op, part, c, s) ==
    /\ range' = s /\ heap' = 0 /\ UNCHANGED bad
    /\ call' = Called(op, part, c)

RearrangeUnguarded(op, part, c, w) ==
    /\ range' = w.s /\ heap' = 0 /\ bad' = (bad \/ w.bad)
    /\ call' = Called(op, part, c)

Ordered(s, first, last) == \A i \in first .. last - 2 : ~Less(s[i + 1], s[i])

CallSort == \E part \in Parts, factor \in DepthFactors :
    RearrangeUnguarded("sort", part, << >>, Sort(range, part[1], part[2], factor))

CallStableSort == \E part \in Parts : \E size \in Halves(part[2] - part[1]) :
    RearrangeUnguarded("stable_sort", part, << >>, StableSort(range, part[1], part[2], size))

CallPartialSort == \E part \in Parts : \E mid \in part[1] .. part[2] :
    Rearrange("partial_sort", part, [mid |-> mid], PartialSort(range, part[1], mid, part[2]))

CallNthElement == \E part \in Parts : \E nth \in part[1] .. part[2] :
    RearrangeUnguarded("nth_element", part, [mid |-> nth], NthElement(range, part[1], nth, part[2]))

CallInplaceMerge == \E part \in Parts : \E mid \in part[1] .. part[2], size \in Halves(part[2] - part[1]) :
    /\ Ordered(range, part[1], mid) /\ Ordered(range, mid, part[2])
    /\ Rearrange("inplace_merge", part, << >>, InplaceMerge(range, part[1], mid, part[2], size))

CallPartition == \E part \in Parts, limit \in Limits, category \in Categories :
    LET done == Partition(range, part[1], part[2], limit, category)
    IN Rearrange("partition", part, [limit |-> limit, at |-> done.at], done.s)

CallStablePartition == \E part \in Parts, limit \in Limits, category \in Categories :
    \E size \in Halves(part[2] - part[1]) :
        LET done == StablePartition(range, part[1], part[2], limit, size, category)
        IN Rearrange("stable_partition", part, [limit |-> limit, at |-> done.at], done.s)

CallRotate == \E part \in Parts, category \in Categories : \E mid \in part[1] .. part[2] :
    LET done == Rotate(range, part[1], mid, part[2], category)
    IN Rearrange("rotate", part, [mid |-> mid, at |-> done.at], done.s)

\* The overload of __rotate that no iterator's tag selects
CallRotateRandom == \E part \in Parts : \E mid \in part[1] + 1 .. part[2] :
    LET done == RotateRandom(range, part[1], mid, part[2])
    IN Rearrange("rotate", part, [mid |-> mid, at |-> done.at], done.s)

CallReverse == \E part \in Parts :
    \/ Rearrange("reverse", part, << >>, ReverseBidirectional(range, part[1], part[2]))
    \/ Rearrange("reverse", part, << >>, ReverseRandom(range, part[1], part[2]))

\* The numbers __random_number may return for 1 to n
RandomChoices(n) == {c \in [1 .. n -> 0 .. n - 1] : \A i \in 1 .. n : c[i] < i}

CallRandomShuffle == \E part \in Parts : \E choice \in RandomChoices(part[2] - part[1]) :
    Rearrange("random_shuffle", part, << >>, RandomShuffle(range, part[1], part[2], choice))

CallNextPermutation == \E part \in Parts :
    LET done == NextPermutation(range, part[1], part[2])
    IN Rearrange("next_permutation", part, [at |-> done.at], done.s)

CallPrevPermutation == \E part \in Parts :
    LET done == PrevPermutation(range, part[1], part[2])
    IN Rearrange("prev_permutation", part, [at |-> done.at], done.s)

CallRemove == \E key \in Limits :
    LET done == RemoveAll(range, 1, end, [key |-> key])
    IN Rearrange("remove", << 1, end >>, [limit |-> key], Between(done.s, 1, done.at))

CallUnique ==
    LET done == Unique(range, 1, end)
    IN Rearrange("unique", << 1, end >>, << >>, Between(done.s, 1, done.at))

Heap(op, last, h, s) ==
    /\ range' = s /\ heap' = h /\ UNCHANGED bad
    /\ call' = Called(op, << 1, last >>, << >>)

CallMakeHeap == \E last \in 1 .. end : Heap("make_heap", last, last - 1, MakeHeap(range, 1, last))
CallPushHeap == heap + 1 < end /\ Heap("push_heap", heap + 2, heap + 1, PushHeap(range, 1, heap + 2))
CallPopHeap == heap > 0 /\ Heap("pop_heap", heap + 1, heap - 1, PopHeap(range, 1, heap + 1))
CallSortHeap == Heap("sort_heap", heap + 1, 0, SortHeap(range, 1, heap + 1))

Next ==
    \/ CallSort \/ CallStableSort \/ CallPartialSort \/ CallNthElement \/ CallInplaceMerge
    \/ CallPartition \/ CallStablePartition \/ CallRotate \/ CallRotateRandom \/ CallReverse
    \/ CallRandomShuffle \/ CallNextPermutation \/ CallPrevPermutation \/ CallRemove \/ CallUnique
    \/ CallMakeHeap \/ CallPushHeap \/ CallPopHeap \/ CallSortHeap

Spec == Init /\ [][Next]_vars
-----------------------------------------------------------------------------
\* The range holds elements that it held at the beginning, each at most once:
\* no algorithm loses one behind the copies that others leave.
TypeOK ==
    /\ \E keys \in Shapes : \A i \in DOMAIN range :
         range[i].id \in DOMAIN keys /\ range[i].key = keys[range[i].id]
    /\ \A i, j \in DOMAIN range : i # j => range[i] # range[j]
    /\ heap \in 0 .. Len(range)

\* The loops without a guard of sort, stable_sort and nth_element find an element
\* that stops them before they leave what they have been given, and no merge is
\* longer than the buffer that it got.
StaysInside == ~bad

\* The heap of the client stays one as it pushes and pops, whatever its size.
HeapKept == \A i \in 2 .. heap : ~Less(range[i \div 2], range[i])

Promised == INSTANCE AbstractAlgorithms

\* Each call does what it promises to the elements of its part of the range, and nothing to others.
ImplementsAlgorithms == Promised!AlgorithmsSpec

Patterns == UNION {[1 .. n -> [key : Limits]] : n \in 0 .. 3}

Occurrences(y) == {p \in 1 .. end - Len(y) : \A i \in DOMAIN y : Same(range[p + i - 1], y[i])}

Number(s, k) == Cardinality({i \in DOMAIN s : s[i].key = k})

FirstWith(P(_)) == Min({i \in DOMAIN range : P(i)} \union {end})

SequencesFound ==
    /\ \A y \in Patterns :
         /\ SearchFor(range, 1, end, y) = Min(Occurrences(y) \union {end})
         /\ LET found == IF Occurrences(y) = {} THEN end ELSE Max(Occurrences(y))
            IN FindEndForward(range, 1, end, y) = found /\ FindEndBidirectional(range, 1, end, y) = found
         /\ FindFirstOf(range, 1, end, y) = FirstWith(LAMBDA i : \E j \in DOMAIN y : Same(range[i], y[j]))
    /\ \A k \in Limits, n \in 0 .. end :
         SearchN(range, 1, end, n, [key |-> k]) = Min(Occurrences([i \in 1 .. n |-> [key |-> k]]) \union {end})

ElementsFound ==
    /\ \A k \in Limits : Count(range, 1, end, [key |-> k]) = Number(range, k)
    /\ range # << >> =>
         /\ MaxElement(range, 1, end) = FirstWith(LAMBDA i : \A j \in DOMAIN range : ~Less(range[i], range[j]))
         /\ MinElement(range, 1, end) = FirstWith(LAMBDA i : \A j \in DOMAIN range : ~Less(range[j], range[i]))
    /\ \A last \in 1 .. end :
         IsHeap(range, 1, last) <=> \A i \in 2 .. last - 1 : ~Less(range[i \div 2], range[i])

BoundsFound == Ordered(range, 1, end) =>
    \A k \in Limits :
        LET x == [key |-> k]
            lower == FirstWith(LAMBDA i : range[i].key >= k)
            upper == FirstWith(LAMBDA i : range[i].key > k)
        IN /\ LowerBound(range, 1, end, x) = lower /\ UpperBound(range, 1, end, x) = upper
           /\ EqualRange(range, 1, end, x) = << lower, upper >>
           /\ BinarySearch(range, 1, end, x) <=> lower # upper

Combines(s, number(_)) == Ordered(s, 1, Len(s) + 1) /\ \A k \in Limits : Number(s, k) = number(k)

SetsCombined == \A mid \in 1 .. end : Ordered(range, 1, mid) /\ Ordered(range, mid, end) =>
    LET x == Between(range, 1, mid)
        y == Between(range, mid, end)
        more(k) == Max({Number(x, k), Number(y, k)})
        less(k) == Min({Number(x, k), Number(y, k)})
    IN /\ Combines(SetUnion(x, y), more)
       /\ Combines(SetIntersection(x, y), less)
       /\ Combines(SetDifference(x, y), LAMBDA k : Number(x, k) - less(k))
       /\ Combines(SetSymmetricDifference(x, y), LAMBDA k : more(k) - less(k))
       /\ Includes(x, y) <=> \A k \in Limits : Number(y, k) <= Number(x, k)

Elements(s) == {s[i] : i \in DOMAIN s}

SmallestCopied == \A n \in 0 .. end :
    LET s == PartialSortCopy(range, n)
    IN /\ Ordered(s, 1, Len(s) + 1) /\ Elements(s) \subseteq Elements(range)
       /\ Cardinality(Elements(s)) = Min({n, Len(range)})
       /\ \A x \in Elements(range) \ Elements(s), y \in Elements(s) : ~Less(x, y)

\* Each outcome is that of equally many choices of random numbers.
Fair(outcome(_), outcomes) ==
    \A x \in outcomes :
        Cardinality({c \in RandomChoices(Len(range)) : outcome(c) = x}) * Cardinality(outcomes)
        = Cardinality(RandomChoices(Len(range)))

RandomnessFair == Len(range) = 4 =>
    /\ Fair(LAMBDA c : RandomShuffle(range, 1, end, c),
            {[i \in 1 .. 4 |-> range[p[i]]] : p \in Permutations(1 .. 4)})
    /\ \A n \in 0 .. 4 :
         /\ Fair(LAMBDA c : Elements(RandomSample(range, n, c)), kSubset(n, Elements(range)))
         /\ Fair(LAMBDA c : Elements(RandomSampleN(range, n, c)), kSubset(n, Elements(range)))

Keys == [i \in DOMAIN range |-> range[i].key]

Sum(s, n) == Accumulate(s, 1, n + 1, 0)

Repeated(s, n) == [i \in 1 .. n * Len(s) |-> s[1 + ((i - 1) % Len(s))]]

\* Sums and differences undo each other, in place or elsewhere, and a power is as many copies.
NumbersAgree ==
    LET m == Keys \o Keys
        sums == [n \in DOMAIN Keys |-> Sum(Keys, n)]
    IN /\ \A result \in {1, end} :
            LET summed == PartialSum(m, 1, end, result)
            IN /\ SubSeq(summed, result, result + Len(range) - 1) = sums
               /\ result = end => SubSeq(summed, 1, end - 1) = Keys
               /\ AdjacentDifference(summed, result, result + Len(range), result) = m
       /\ InnerProduct(m, 1, end, end, 1) = 1 + Sum([i \in DOMAIN Keys |-> Keys[i] * Keys[i]], Len(Keys))
       /\ \A p \in 2 .. end - 1 : AdjacentDifference(Iota(m, 1, end, 3), 1, end, 1)[p] = 1
       /\ range # << >> => \A n \in 0 .. 12 : Power(Keys, n) = Repeated(Keys, n)

\* One order and two functions: a range is before another when it is its beginning
\* or has the smaller element where they first differ.
RangesCompared ==
    \A y \in {[i \in DOMAIN p |-> p[i].key] : p \in Patterns} \union {Keys} :
        LET before(s, t) == \/ Len(s) < Len(t) /\ \A i \in DOMAIN s : s[i] = t[i]
                            \/ \E n \in DOMAIN s \cap DOMAIN t :
                                 s[n] < t[n] /\ \A i \in 1 .. n - 1 : s[i] = t[i]
            sign == LexicographicalCompare3Way(Keys, y)
        IN /\ LexicographicalCompare(Keys, y) <=> before(Keys, y)
           /\ sign = (IF Keys = y THEN 0 ELSE IF before(Keys, y) THEN -1 ELSE 1)
           /\ \A first \in 1 .. end - Len(y) :
                LET at == Mismatch(Keys, first, first + Len(y), y)
                IN /\ \A i \in first .. at - 1 : Keys[i] = y[1 + i - first]
                   /\ EqualRanges(Keys, first, first + Len(y), y) <=> at = first + Len(y)

\* Subsets of two dimensions that fit into the range, and masks and lists of its indices
Gslices ==
    {g \in [start : 0 .. 1, lengths : (1 .. 3) \X (1 .. 2), strides : (0 .. 3) \X (0 .. 2)] :
        g.start + (g.lengths[1] - 1) * g.strides[1] + (g.lengths[2] - 1) * g.strides[2] < Len(range)}

\* A gslice has its indices in the order of the dimensions, as one that has more dimensions;
\* what is assigned to a subset is found there, and nothing changes elsewhere; an index that
\* occurs twice is combined with twice; shifts move each element, round the end or out.
ValarraysAgree ==
    LET size == Len(range)
        Put(indices) == AssignSubset(Keys, indices, [i \in DOMAIN indices |-> 10 * i], FALSE)
        Stays(indices, y) ==
            \A i \in DOMAIN Keys : (\A j \in DOMAIN indices : indices[j] # i - 1) => y[i] = Keys[i]
    IN /\ \A g \in Gslices :
            LET at == GsliceIndices(g)
                width == g.lengths[2]
                added == AssignSubset(Keys, at, [i \in DOMAIN at |-> 10], TRUE) IN
            /\ at = [i \in 1 .. g.lengths[1] * width |->
                        g.start + ((i - 1) \div width) * g.strides[1] + ((i - 1) % width) * g.strides[2]]
            /\ Len(at) = GsliceSize(g)
            /\ GsliceIndices([start |-> g.start, lengths |-> << g.lengths[1], 1, width >>,
                             strides |-> << g.strides[1], 7, g.strides[2] >>]) = at
            /\ width = 1 => SliceIndices([start |-> g.start, length |-> g.lengths[1],
                                          stride |-> g.strides[1]]) = at
            /\ IsInjective(at) => Subset(Put(at), at) = [i \in DOMAIN at |-> 10 * i]
            /\ Stays(at, Put(at))
            /\ \A i \in DOMAIN Keys :
                 added[i] = Keys[i] + 10 * Cardinality({j \in DOMAIN at : at[j] = i - 1})
       /\ \A mask \in [DOMAIN Keys -> BOOLEAN] :
            LET at == MaskIndices(mask) IN
            /\ IsInjective(at) /\ \A i \in DOMAIN mask : mask[i] <=> \E j \in DOMAIN at : at[j] = i - 1
            /\ Subset(Put(at), at) = [i \in DOMAIN at |-> 10 * i] /\ Stays(at, Put(at))
       /\ size > 0 => \A n \in -(size + 2) .. size + 2 : \A i \in DOMAIN Keys :
            /\ Shift(Keys, n)[i] = (IF i + n \in DOMAIN Keys THEN Keys[i + n] ELSE 0)
            /\ CShift(Keys, n)[i] = Keys[1 + ((i - 1 + n) % size)]

\* Searches return the first (find_end the last) of what they look for, binary ones the
\* bounds between which equal elements are; set operations count equal elements as sets
\* with repetitions do; partial_sort_copy copies the smallest; shuffles and samples are fair;
\* sums, differences and powers are those of arithmetic, comparisons those of words, and
\* subsets and shifts of a valarray those of its indices.
ResultsAgree ==
    /\ SequencesFound /\ ElementsFound /\ BoundsFound /\ SetsCombined
    /\ SmallestCopied /\ RandomnessFair /\ NumbersAgree /\ RangesCompared
    /\ ValarraysAgree
=============================================================================
