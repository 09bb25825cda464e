---------------------------- MODULE AbstractLists ----------------------------
(***************************************************************************)
(* What list and slist promise.  A list is a sequence of elements, and an   *)
(* element is the node that it lives in and its value.  Iterators point to  *)
(* nodes, so that the promises are about nodes, not only about values: an   *)
(* element moves within a list or to another one without being copied, and *)
(* insertions and assignments keep the nodes that are there.  When a call   *)
(* throws, it has done a part of its work, from the front.                 *)
(***************************************************************************)
EXTENDS Naturals, Sequences

CONSTANTS Lists,
          Less(_, _)       \* the order of merge and sort

VARIABLES content,         \* [Lists -> sequences of << node, value >>]
          call             \* the last call: op, on, threw, turn, and what op needs

LOCAL Values(s) == [i \in DOMAIN s |-> s[i][2]]
LOCAL Nodes(s) == {s[i][1] : i \in DOMAIN s}
LOCAL Range(s) == {s[i] : i \in DOMAIN s}
LOCAL First(s, n) == SubSeq(s, 1, n)
LOCAL Rest(s, n) == SubSeq(s, n + 1, Len(s))
LOCAL Least(i, j) == IF i < j THEN i ELSE j

Distinct(s) == \A i, j \in DOMAIN s : s[i][1] = s[j][1] => i = j
Fresh(s) == Distinct(s) /\ \A x \in Lists : Nodes(s) \cap Nodes(content[x]) = {}

Sorted(s) == \A i, j \in DOMAIN s : i < j => ~Less(s[j][2], s[i][2])

\* r holds the elements of s in order, those that are equivalent as s has them.
StablySorted(r, s) ==
    /\ Range(r) = Range(s) /\ Len(r) = Len(s) /\ Sorted(r)
    /\ \A i, j \in DOMAIN s : \A k, l \in DOMAIN r :
         s[i] = r[k] /\ s[j] = r[l] /\ i < j /\ ~Less(s[j][2], s[i][2]) => k < l

\* r has the elements of s and of t, each in the order that it had.
Interleaves(r, s, t) ==
    /\ SelectSeq(r, LAMBDA e : e \in Range(s)) = s
    /\ SelectSeq(r, LAMBDA e : e \notin Range(s)) = t

\* The elements that differ from v, and those that differ from the one before
Without(s, v) == SelectSeq(s, LAMBDA e : e[2] # v)
Firsts(s) == SelectSeq(s, LAMBDA e : \A i \in DOMAIN s : s[i] = e /\ i > 1 => s[i - 1][2] # e[2])

-----------------------------------------------------------------------------
(* What may become of the list that is called, s, which is then r *)

\* [from, to) gives way to new elements with the given values.
Replaced(c, s, r) ==
    LET n == Len(r) + c.to - c.from - Len(s)
        new == SubSeq(r, c.from + 1, c.from + n) IN
    /\ n >= 0
    /\ r = First(s, c.from) \o new \o Rest(s, c.to) /\ Fresh(new)
    /\ IF c.threw THEN n < Len(c.values) /\ Values(new) = First(c.values, n)
       ELSE Values(new) = c.values

\* The first k values are assigned, or inserted behind the old elements.
AssignedUpTo(k, c, s, r) ==
    LET kept == Least(Len(r), Len(s)) IN
    /\ Values(r) = First(c.values, k) \o (IF c.threw THEN Rest(Values(s), k) ELSE << >>)
    /\ \A i \in 1 .. kept : r[i][1] = s[i][1]
    /\ Fresh(Rest(r, kept))

Assigned(c, s, r) ==
    IF c.threw THEN \E k \in 0 .. Len(c.values) - 1 : AssignedUpTo(k, c, s, r)
    ELSE AssignedUpTo(Len(c.values), c, s, r)

\* Those that are unwanted among the first k are gone.
Removed(c, s, r) ==
    \E k \in 0 .. Len(s) :
        /\ ~c.threw => k = Len(s)
        /\ r = (IF c.op = "unique" THEN Firsts(First(s, k)) ELSE Without(First(s, k), c.value))
                 \o Rest(s, k)

\* A sort that throws loses elements, and keeps what is left in any order.
SortedOrPart(c, s, r) ==
    IF c.threw THEN Range(r) \subseteq Range(s) /\ Distinct(r) ELSE StablySorted(r, s)

\* [from, to) moves before pos, within one list.
MovedWithin(c, s) ==
    LET moved == SubSeq(s, c.from + 1, c.to) IN
    IF c.pos <= c.from
    THEN First(s, c.pos) \o moved \o SubSeq(s, c.pos + 1, c.from) \o Rest(s, c.to)
    ELSE First(s, c.from) \o SubSeq(s, c.to + 1, c.pos) \o moved \o Rest(s, c.pos)

Alone(c, s, r) ==
    \/ c.op = "replace" /\ Replaced(c, s, r)
    \/ c.op = "assign" /\ Assigned(c, s, r)
    \/ c.op \in {"remove", "unique"} /\ Removed(c, s, r)
    \/ c.op = "sort" /\ SortedOrPart(c, s, r)
    \/ c.op = "reverse" /\ r = [i \in DOMAIN s |-> s[Len(s) + 1 - i]]
    \/ c.op = "move" /\ c.other = c.on /\ r = MovedWithin(c, s)

-----------------------------------------------------------------------------
(* ... and of the other list that is called, t, which is then u *)

Moved(c, s, t, r, u) ==
    /\ r = First(s, c.pos) \o SubSeq(t, c.from + 1, c.to) \o Rest(s, c.pos)
    /\ u = First(t, c.from) \o Rest(t, c.to)

\* The elements of t that have not come to s are still in t.
Merged(c, s, t, r, u) ==
    /\ \E k \in 0 .. Len(t) : Interleaves(r, s, First(t, k)) /\ u = Rest(t, k)
    /\ ~c.threw => u = << >> /\ (Sorted(s) /\ Sorted(t) => StablySorted(r, s \o t))

Together(c, s, t, r, u) ==
    \/ c.op = "swap" /\ r = t /\ u = s
    \/ c.op = "move" /\ Moved(c, s, t, r, u)
    \/ c.op = "merge" /\ Merged(c, s, t, r, u)

-----------------------------------------------------------------------------

ListsInit ==
    content = [x \in Lists |-> << >>] /\ call = [op |-> "construct", turn |-> 0]

Step(c) ==
    /\ IF "other" \in DOMAIN c /\ c.other # c.on
       THEN Together(c, content[c.on], content[c.other], content'[c.on], content'[c.other])
       ELSE Alone(c, content[c.on], content'[c.on])
    /\ \A x \in Lists :
         x # c.on /\ ("other" \in DOMAIN c => x # c.other) => content'[x] = content[x]

ListsNext == call'.turn = 1 - call.turn /\ Step(call')

ListsSpec == ListsInit /\ [][ListsNext]_<< content, call >>
=============================================================================
