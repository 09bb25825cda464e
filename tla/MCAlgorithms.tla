----------------------------- MODULE MCAlgorithms -----------------------------
(***************************************************************************)
(* Model-checking instance of the algorithms: ranges of five elements with  *)
(* several patterns of equal keys, and one of six for the calls that divide  *)
(* what they are given.                                                    *)
(***************************************************************************)
EXTENDS Algorithms

SomeShapes == {<< 1, 2, 3, 4, 5 >>, << 1, 1, 2, 2, 3 >>, << 1, 1, 1, 2, 2 >>, << 1, 1, 2, 2, 3, 3 >>}

CallsOnSix == {"rotate", "reverse", "sort", "stable_sort", "partial_sort", "nth_element", "inplace_merge"}

View == << range, heap, bad >>

MCNext == Next /\ (Len(range) > 5 => call'.op \in CallsOnSix)

MCSpec == Init /\ [][MCNext]_vars
=============================================================================
