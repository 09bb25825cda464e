--------------------------- MODULE AbstractStrings --------------------------
(***************************************************************************)
(* What stl_rope.h promises of ropes: they behave as strings that are      *)
(* values.  An operation changes the rope it is called for and no other,   *)
(* swap both, and one that throws changes nothing, rotate excepted.        *)
(***************************************************************************)
EXTENDS Naturals, Sequences
LOCAL INSTANCE SequencesExt

CONSTANTS Ropes,
          Texts,     \* the character sequences that clients pass
          Chars      \* the single characters that they pass

VARIABLE string      \* [rope -> sequence of characters]

\* Characters from .. to - 1 of s, counted from 0 and cut off at the end.
Sub(s, from, to) == SubSeq(s, from + 1, IF to < Len(s) THEN to ELSE Len(s))
Splice(s, from, to, t) == Sub(s, 0, from) \o t \o Sub(s, to, Len(s))

\* Of x's next value; the other ropes keep theirs in StringsNext.
Becomes(x, s) == string'[x] = s

Assign(x, y) == Becomes(x, string[y])
Clear(x) == Becomes(x, << >>)
Construct(x, t) == Becomes(x, t)
AppendChars(x, t) == Becomes(x, string[x] \o t)
Prepend(x, t) == Becomes(x, t \o string[x])
AppendRope(x, y) == Becomes(x, string[x] \o string[y])
Substr(x, y, p, n) == Becomes(x, Sub(string[y], p, p + n))
Insert(x, p, t) == Becomes(x, Splice(string[x], p, p, t))
Replace(x, p, n, y) == Becomes(x, Splice(string[x], p, p + n, string[y]))
Erase(x, p, n) == Becomes(x, Splice(string[x], p, p + n, << >>))
ConstructFill(x, c) == string'[x] # << >> /\ \A i \in DOMAIN string'[x] : string'[x][i] = c
SetChar(x, p, c) == p < Len(string[x]) /\ Becomes(x, Splice(string[x], p, p + 1, << c >>))

\* One that throws keeps the parts that it has put in place.
Rotate(x, first, middle, last) ==
    LET parts == << Sub(string[x], 0, first), Sub(string[x], middle, last),
                    Sub(string[x], first, middle), Sub(string[x], last, Len(string[x])) >>
    IN \E k \in 1 .. 4 : Becomes(x, FlattenSeq(SubSeq(parts, 1, k)))

Positions(x) == 0 .. Len(string[x])

StringsInit == string = [x \in Ropes |-> << >>]

Operation(x) ==
    \/ Clear(x)
    \/ \E y \in Ropes : Assign(x, y) \/ AppendRope(x, y)
    \/ \E t \in Texts : Construct(x, t) \/ AppendChars(x, t)
    \/ \E c \in Chars : Construct(x, << c >>) \/ ConstructFill(x, c) \/ Prepend(x, << c >>)
    \/ \E y \in Ropes : \E p, n \in Positions(y) : Substr(x, y, p, n)
    \/ \E p \in Positions(x) :
         \/ \E t \in Texts : Insert(x, p, t)
         \/ \E c \in Chars : SetChar(x, p, c)
         \/ \E n \in Positions(x) :
              \/ Erase(x, p, n) \/ \E y \in Ropes : Replace(x, p, n, y)
              \/ \E q \in Positions(x) : Rotate(x, p, n, q)

Swap(x, y) == string' = [string EXCEPT ![x] = string[y], ![y] = string[x]]

StringsNext ==
    \E x \in Ropes :
        \/ string' = [string EXCEPT ![x] = string'[x]] /\ Operation(x)
        \/ \E y \in Ropes : Swap(x, y)

StringsSpec == StringsInit /\ [][StringsNext]_string
=============================================================================
