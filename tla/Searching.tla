------------------------------ MODULE Searching ------------------------------
(***************************************************************************)
(* search, search_n, find_end, find_first_of, count, min_element and          *)
(* max_element (stl_algo.h), for a pattern y                               *)
(***************************************************************************)
EXTENDS Rearranging
LOCAL INSTANCE FiniteSetsExt
LOCAL INSTANCE SequencesExt

\* How many elements from current on match those of y from position p on
RECURSIVE Matching(_, _, _, _, _)
Matching(s, current, last, y, p) ==
    IF current < last /\ p <= Len(y) /\ Same(s[current], y[p])
    THEN 1 + Matching(s, current + 1, last, y, p + 1) ELSE 0

\* Mutant: after a mismatch, the search goes on where it happened.
SearchOnSkipping(at, matched) == at + 1 + matched

SearchOn(at, matched) == at + 1

RECURSIVE SearchFrom(_, _, _, _)
SearchFrom(s, first, last, y) ==
    LET at == Find(s, first, last, y[1])
        matched == Matching(s, at + 1, last, y, 2)
    IN IF at >= last - 1 THEN last
       ELSE IF 1 + matched = Len(y) THEN at
       ELSE IF at + 1 + matched = last THEN last
       ELSE SearchFrom(s, SearchOn(at, matched), last, y)

SearchFor(s, first, last, y) ==
    IF first = last \/ y = << >> THEN first
    ELSE IF Len(y) = 1 THEN Find(s, first, last, y[1])
    ELSE SearchFrom(s, first, last, y)

RECURSIVE SearchNFrom(_, _, _, _, _)
SearchNFrom(s, first, last, count, x) ==
    LET run == Matching(s, first + 1, last, [i \in 1 .. count |-> x], 2)
    IN IF first = last THEN last
       ELSE IF run = count - 1 THEN first
       ELSE SearchNFrom(s, Find(s, first + 1 + run, last, x), last, count, x)

SearchN(s, first, last, count, x) ==
    IF count <= 0 THEN first ELSE SearchNFrom(s, Find(s, first, last, x), last, count, x)

RECURSIVE FindEndFrom(_, _, _, _, _)
FindEndFrom(s, first, last, y, result) ==
    LET found == SearchFor(s, first, last, y)
    IN IF found = last THEN result ELSE FindEndFrom(s, found + 1, last, y, found)

FindEndForward(s, first, last, y) ==
    IF y = << >> THEN last ELSE FindEndFrom(s, first, last, y, last)

\* A search with reverse iterators: offset is the distance of what it finds from last.
FindEndBidirectional(s, first, last, y) ==
    LET back == Reverse(Between(s, first, last))
        offset == SearchFor(back, 1, Len(back) + 1, Reverse(y)) - 1
    IN IF offset = Len(back) THEN last ELSE last - offset - Len(y)

FindFirstOf(s, first, last, y) ==
    Min({p \in first .. last - 1 : \E i \in DOMAIN y : Same(s[p], y[i])} \union {last})

Count(s, first, last, x) ==
    FoldLeft(LAMBDA n, e : IF Same(e, x) THEN n + 1 ELSE n, 0, Between(s, first, last))

MaxElement(s, first, last) ==
    FoldLeft(LAMBDA r, i : IF Less(s[r], s[first + i]) THEN first + i ELSE r, first,
             [i \in 1 .. last - first - 1 |-> i])

MinElement(s, first, last) ==
    FoldLeft(LAMBDA r, i : IF Less(s[first + i], s[r]) THEN first + i ELSE r, first,
             [i \in 1 .. last - first - 1 |-> i])
=============================================================================
