----------------------------- MODULE StringSearch -----------------------------
(***************************************************************************)
(* The searches and comparisons of basic_string: how they bound the range  *)
(* that they give to an algorithm, and what they make of its answer.       *)
(* Positions are counted from 0; s[i + 1] is the character at position i.  *)
(* What search, find_end, find_first_of and find_if return is what Searching *)
(* shows of them.                                                           *)
(***************************************************************************)
EXTENDS Naturals, Sequences

CONSTANTS Value,           \* the characters, which have an order
          CharLess(_, _),
          Npos             \* the largest size_type

SizeType == 0 .. Npos
Smallest(i, j) == IF i < j THEN i ELSE j

\* The least and the greatest position of a set, where there is one
LeastOr(positions, none) ==
    IF positions = {} THEN none ELSE CHOOSE i \in positions : \A j \in positions : i <= j
GreatestOr(positions, none) ==
    IF positions = {} THEN none ELSE CHOOSE i \in positions : \A j \in positions : i >= j

Characters(p) == {p[i] : i \in DOMAIN p}

\* p is at position i, and ends at last or before.
OccursAt(s, i, p, last) == i + Len(p) <= last /\ SubSeq(s, i + 1, i + Len(p)) = p

-----------------------------------------------------------------------------
(* What the algorithms return for [first, last) of s *)

SearchIn(s, first, last, p) == LeastOr({i \in first .. last : OccursAt(s, i, p, last)}, last)
FindEndIn(s, last, p) == GreatestOr({i \in 0 .. last : OccursAt(s, i, p, last)}, last)

\* find_if and find_first_of look for one of some characters; with reverse iterators
\* they return the base of one, which is behind the character, or 0 for rend().
FindIn(s, first, last, chars) == LeastOr({i \in first .. last - 1 : s[i + 1] \in chars}, last)
ReverseFindIn(s, last, chars) == GreatestOr({i \in 1 .. last : s[i] \in chars}, 0)

\* Traits::compare of n characters: below 0, 0 and above 0 are "less", "equal", "greater".
CompareN(s, t, n) ==
    LET i == LeastOr({k \in 1 .. n : s[k] # t[k]}, 0) IN
    IF i = 0 THEN "equal" ELSE IF CharLess(s[i], t[i]) THEN "less" ELSE "greater"

-----------------------------------------------------------------------------
(* The members of basic_string *)

FoundBefore(i, last) == IF i # last THEN i ELSE Npos
FoundBase(base) == IF base # 0 THEN base - 1 ELSE Npos

\* The sum of two numbers of type size_type wraps around.
Find(s, p, pos) ==
    IF (pos + Len(p)) % (Npos + 1) > Len(s) THEN Npos
    ELSE FoundBefore(SearchIn(s, pos, Len(s), p), Len(s))

FindChar(s, c, pos) ==
    IF pos >= Len(s) THEN Npos ELSE FoundBefore(FindIn(s, pos, Len(s), {c}), Len(s))

RFind(s, p, pos) ==
    LET last == Smallest(Len(s) - Len(p), pos) + Len(p) IN
    IF Len(p) > Len(s) THEN Npos
    ELSE IF Len(p) = 0 THEN Smallest(Len(s), pos)
    ELSE FoundBefore(FindEndIn(s, last, p), last)

FindFirstOf(s, p, pos) ==
    IF pos >= Len(s) THEN Npos ELSE FoundBefore(FindIn(s, pos, Len(s), Characters(p)), Len(s))

FindFirstNotOf(s, p, pos) ==
    IF pos > Len(s) THEN Npos
    ELSE FoundBefore(FindIn(s, pos, Len(s), Value \ Characters(p)), Len(s))

\* Mutant: the character at pos is left out.
FindLastBefore(s, chars, pos) ==
    IF Len(s) < 1 THEN Npos ELSE FoundBase(ReverseFindIn(s, Smallest(Len(s) - 1, pos), chars))

\* rfind of a character, find_last_of and find_last_not_of
FindLast(s, chars, pos) ==
    IF Len(s) < 1 THEN Npos ELSE FoundBase(ReverseFindIn(s, Smallest(Len(s) - 1, pos) + 1, chars))

FindLastOf(s, p, pos) == FindLast(s, Characters(p), pos)
FindLastNotOf(s, p, pos) == FindLast(s, Value \ Characters(p), pos)
RFindChar(s, c, pos) == FindLast(s, {c}, pos)

\* _M_compare
Compare(s, t) ==
    LET cmp == CompareN(s, t, Smallest(Len(s), Len(t))) IN
    IF cmp # "equal" THEN cmp
    ELSE IF Len(s) < Len(t) THEN "less" ELSE IF Len(s) > Len(t) THEN "greater" ELSE "equal"

\* substr, and the part of a string that compare compares: at most n from pos
Substr(s, pos, n) == SubSeq(s, pos + 1, pos + Smallest(n, Len(s) - pos))

-----------------------------------------------------------------------------
(* What is promised of them *)

Least(positions) == LeastOr(positions, Npos)
Greatest(positions) == GreatestOr(positions, Npos)
Positions(s) == 0 .. Len(s) - 1

\* Where p is in s, and where s has one of the characters
Occurrences(s, p) == {i \in 0 .. Len(s) : OccursAt(s, i, p, Len(s))}
Places(s, chars) == {i \in Positions(s) : s[i + 1] \in chars}

Prefix(s, t) == Len(s) <= Len(t) /\ SubSeq(t, 1, Len(s)) = s
Before(s, t) ==
    \/ Prefix(s, t) /\ s # t
    \/ \E i \in DOMAIN s \cap DOMAIN t :
         SubSeq(s, 1, i - 1) = SubSeq(t, 1, i - 1) /\ CharLess(s[i], t[i])

\* Every search returns the first or the last position from pos on, or npos. An empty
\* string is not found at the end, and positions are such that pos + n does not wrap.
FindsFirst(s, p, pos) ==
    LET from == {i \in SizeType : i >= pos} IN
    /\ pos + Len(p) <= Npos =>
         Find(s, p, pos) = Least({i \in Occurrences(s, p) \cap from : i < Len(s)})
    /\ FindFirstOf(s, p, pos) = Least(Places(s, Characters(p)) \cap from)
    /\ FindFirstNotOf(s, p, pos) = Least(Places(s, Value \ Characters(p)) \cap from)
    /\ \A c \in Value : FindChar(s, c, pos) = Least(Places(s, {c}) \cap from)

FindsLast(s, p, pos) ==
    /\ RFind(s, p, pos) = Greatest(Occurrences(s, p) \cap 0 .. pos)
    /\ FindLastOf(s, p, pos) = Greatest(Places(s, Characters(p)) \cap 0 .. pos)
    /\ FindLastNotOf(s, p, pos) = Greatest(Places(s, Value \ Characters(p)) \cap 0 .. pos)
    /\ \A c \in Value : RFindChar(s, c, pos) = Greatest(Places(s, {c}) \cap 0 .. pos)

\* compare is a total order: that of the first difference, or of the lengths.
Compares(s, t) ==
    Compare(s, t) = IF s = t THEN "equal" ELSE IF Before(s, t) THEN "less" ELSE "greater"
=============================================================================
