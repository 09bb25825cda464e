-------------------------- MODULE AbstractAlgorithms --------------------------
(***************************************************************************)
(* What the algorithms that change a range promise.  A call is made on      *)
(* [first, last) of the range, mid is an iterator between them, and at is  *)
(* what it has returned.  Elements are told apart even if they are equal.  *)
(***************************************************************************)
EXTENDS Integers, Sequences, FiniteSets, TLC

VARIABLES range, call

Less(x, y) == x.key < y.key
Same(x, y) == x.key = y.key
Index(s, x) == CHOOSE i \in DOMAIN s : s[i] = x

Part(c) == c.first .. c.last - 1

Permuted(c, s, r) ==
    /\ Len(r) = Len(s)
    /\ \A i \in DOMAIN s \ Part(c) : r[i] = s[i]
    /\ {r[i] : i \in Part(c)} = {s[i] : i \in Part(c)}

Sorted(r, first, last) == \A i, j \in first .. last - 1 : i < j => ~Less(r[j], r[i])

\* The elements of [first, middle) do not come after those of [middle, last) in the order.
Divided(r, first, middle, last) == \A i \in first .. middle - 1, j \in middle .. last - 1 : ~Less(r[j], r[i])

\* Equal elements keep their order.
Stable(c, s, r) ==
    \A i, j \in Part(c) : i < j /\ Same(r[i], r[j]) => Index(s, r[i]) < Index(s, r[j])

Parted(c, r) == \A i \in Part(c) : r[i].key < c.limit <=> i < c.at

StablyParted(c, s, r) ==
    \A i, j \in Part(c) : i < j /\ (j < c.at \/ i >= c.at) => Index(s, r[i]) < Index(s, r[j])

Rotated(c, s, r) ==
    /\ c.at = c.first + c.last - c.mid
    /\ r = SubSeq(s, 1, c.first - 1) \o SubSeq(s, c.mid, c.last - 1) \o SubSeq(s, c.first, c.mid - 1)
           \o SubSeq(s, c.last, Len(s))

Before(x, y) ==
    \E i \in DOMAIN x : Less(x[i], y[i]) /\ \A j \in 1 .. i - 1 : Same(x[j], y[j])

\* y is the next one after x of the arrangements of x, or the first one if there is none.
Follows(x, y, returned) ==
    LET arrangements == {[i \in DOMAIN x |-> x[p[i]]] : p \in Permutations(DOMAIN x)}
    IN IF returned
       THEN Before(x, y) /\ \A z \in arrangements : ~(Before(x, z) /\ Before(z, y))
       ELSE \A z \in arrangements : ~Before(x, z) /\ ~Before(z, y)

Between(s, c) == SubSeq(s, c.first, c.last - 1)
Mirrored(s) == [i \in DOMAIN s |-> [s[i] EXCEPT !.key = -s[i].key]]

\* The elements that satisfy a condition, in their order
Chosen(s, positions) == [i \in 1 .. Cardinality(positions) |->
    s[CHOOSE p \in positions : Cardinality({q \in positions : q < p}) = i - 1]]

Promise(c, s, r) ==
    \/ c.op \in {"sort", "sort_heap"} /\ Permuted(c, s, r) /\ Sorted(r, c.first, c.last)
    \/ c.op \in {"stable_sort", "inplace_merge"}
       /\ Permuted(c, s, r) /\ Sorted(r, c.first, c.last) /\ Stable(c, s, r)
    \/ c.op = "partial_sort"
       /\ Permuted(c, s, r) /\ Sorted(r, c.first, c.mid) /\ Divided(r, c.first, c.mid, c.last)
    \/ c.op = "nth_element"
       /\ Permuted(c, s, r) /\ Divided(r, c.first, c.mid, c.last)
       /\ (c.mid < c.last => Divided(r, c.first, c.mid + 1, c.last))
    \/ c.op = "partition" /\ Permuted(c, s, r) /\ Parted(c, r)
    \/ c.op = "stable_partition" /\ Permuted(c, s, r) /\ Parted(c, r) /\ StablyParted(c, s, r)
    \/ c.op = "rotate" /\ Rotated(c, s, r)
    \/ c.op = "reverse"
       /\ r = [i \in DOMAIN s |-> IF i \in Part(c) THEN s[c.first + c.last - 1 - i] ELSE s[i]]
    \/ c.op \in {"random_shuffle", "make_heap", "push_heap"} /\ Permuted(c, s, r)
    \/ c.op = "pop_heap" /\ Permuted(c, s, r) /\ Divided(r, c.first, c.last - 1, c.last)
    \/ c.op = "next_permutation"
       /\ Permuted(c, s, r) /\ Follows(Between(s, c), Between(r, c), c.at)
    \/ c.op = "prev_permutation"
       /\ Permuted(c, s, r) /\ Follows(Mirrored(Between(s, c)), Mirrored(Between(r, c)), c.at)
    \/ c.op = "remove" /\ r = Chosen(s, {i \in DOMAIN s : s[i].key # c.limit})
    \/ c.op = "unique" /\ r = Chosen(s, {i \in DOMAIN s : i = 1 \/ ~Same(s[i - 1], s[i])})

AlgorithmsSpec ==
    /\ \A i, j \in DOMAIN range : i # j => range[i] # range[j]
    /\ [][Promise(call', range, range')]_<< range, call >>
=============================================================================
