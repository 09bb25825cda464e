------------------------------- MODULE RbTree -------------------------------
(***************************************************************************)
(* The red-black trees of stl_tree.h, which set, map, multiset and multimap *)
(* are made of.  A node has the name of the element that it holds: nodes   *)
(* are relinked, and elements are never moved between nodes.  An insertion *)
(* that throws does so before it changes anything and is not modelled; the *)
(* copy of a tree may stop at any node.  Where the code is written twice,  *)
(* for left and for right, a side is a parameter here.                     *)
(***************************************************************************)
EXTENDS Naturals, Sequences, FiniteSets, TLC

CONSTANTS Element,
          key,             \* [Element -> Nat], what _KeyOfValue gives
          Trees,
          Header, Null

VARIABLES tree,            \* [Trees -> [node, count]]
          call             \* the last call

vars == << tree, call >>

Sides == {"left", "right"}
Other(side) == IF side = "left" THEN "right" ELSE "left"

FreeNode == [color |-> "free", parent |-> Null, left |-> Null, right |-> Null]

EmptyTree ==
    [node |-> [a \in Element \union {Header} |->
                 IF a = Header
                 THEN [color |-> "red", parent |-> Null, left |-> Header, right |-> Header]
                 ELSE FreeNode],
     count |-> 0]

Init == tree = [x \in Trees |-> EmptyTree] /\ call = [op |-> "construct", turn |-> 0]

-----------------------------------------------------------------------------
(* The base class: nodes, iterators, rotations.  t maps addresses to nodes. *)

Root(t) == t[Header].parent
Leftmost(t) == t[Header].left
Rightmost(t) == t[Header].right

IsRed(t, a) == a # Null /\ t[a].color = "red"
Paint(t, a, color) == IF a = Null THEN t ELSE [t EXCEPT ![a].color = color]
SetParent(t, a, p) == IF a = Null THEN t ELSE [t EXCEPT ![a].parent = p]

\* _S_minimum and _S_maximum
RECURSIVE Extreme(_, _, _)
Extreme(t, a, side) == IF t[a][side] = Null THEN a ELSE Extreme(t, t[a][side], side)

\* The first node on the way up from a that is not its parent's child there.
RECURSIVE Climb(_, _, _)
Climb(t, a, side) == IF a = t[t[a].parent][side] THEN Climb(t, t[a].parent, side) ELSE a

Increment(t, a) ==
    IF t[a].right # Null THEN Extreme(t, t[a].right, "left")
    ELSE LET top == Climb(t, a, "right") IN
         IF t[top].right # t[top].parent THEN t[top].parent ELSE top

Decrement(t, a) ==
    IF t[a].color = "red" /\ t[t[a].parent].parent = a THEN t[a].right
    ELSE IF t[a].left # Null THEN Extreme(t, t[a].left, "right")
    ELSE t[Climb(t, a, "left")].parent

\* The link that leads to a leads to b.
Relink(t, a, b) ==
    IF a = Root(t) THEN [t EXCEPT ![Header].parent = b]
    ELSE IF a = t[t[a].parent].left THEN [t EXCEPT ![t[a].parent].left = b]
    ELSE [t EXCEPT ![t[a].parent].right = b]

\* a goes down to the side, and its child b comes up from the other one.
RotateWith(t, a, b, side) ==
    SetParent([Relink(t, a, b) EXCEPT ![a][Other(side)] = t[b][side], ![a].parent = b,
                                      ![b][side] = a, ![b].parent = t[a].parent],
              t[b][side], a)
Rotate(t, a, side) == RotateWith(t, a, t[a][Other(side)], side)

-----------------------------------------------------------------------------
(* Insertion *)

\* _Rb_tree_rebalance: the parent p of the red node a is red, too; side is
\* where p is below the grandparent g.
RECURSIVE Rebalance(_, _)

RotateUp(t, p, g, side) ==
    Rotate(Paint(Paint(t, p, "black"), g, "red"), g, Other(side))

RebalanceBelow(t, a, p, g, side) ==
    IF IsRed(t, t[g][Other(side)])
    THEN Rebalance(Paint(Paint(Paint(t, p, "black"), t[g][Other(side)], "black"), g, "red"), g)
    ELSE IF a = t[p][Other(side)]
    THEN Rebalance(RotateUp(Rotate(t, p, side), a, g, side), p)
    ELSE Rebalance(RotateUp(t, p, g, side), a)

SideOf(t, p, g) == IF p = t[g].left THEN "left" ELSE "right"

Rebalance(t, a) ==
    IF a = Root(t) \/ ~IsRed(t, t[a].parent) THEN Paint(t, Root(t), "black")
    ELSE RebalanceBelow(t, a, t[a].parent, t[t[a].parent].parent,
                        SideOf(t, t[a].parent, t[t[a].parent].parent))

\* The ends are kept in the header.
LinkLeft(t, p, e) ==
    IF p = Header THEN [t EXCEPT ![Header] = [@ EXCEPT !.left = e, !.parent = e, !.right = e]]
    ELSE IF p = Leftmost(t) THEN [t EXCEPT ![p].left = e, ![Header].left = e]
    ELSE [t EXCEPT ![p].left = e]

LinkRight(t, p, e) ==
    IF p = Rightmost(t) THEN [t EXCEPT ![p].right = e, ![Header].right = e]
    ELSE [t EXCEPT ![p].right = e]

\* _M_insert; asLeft says that the first argument is not null.
InsertBelow(s, asLeft, p, e) ==
    LET linked == IF p = Header \/ asLeft \/ key[e] < key[p]
                  THEN LinkLeft(s.node, p, e) ELSE LinkRight(s.node, p, e)
        leaf == [color |-> "red", parent |-> p, left |-> Null, right |-> Null]
    IN [node |-> Rebalance([linked EXCEPT ![e] = leaf], e), count |-> s.count + 1]

\* Where the search for e ends below a, whose parent is p.
RECURSIVE Descend(_, _, _, _)
Descend(t, a, p, e) ==
    IF a = Null THEN p
    ELSE Descend(t, IF key[e] < key[a] THEN t[a].left ELSE t[a].right, a, e)

InsertEqual(s, e) == InsertBelow(s, FALSE, Descend(s.node, Root(s.node), Header, e), e)

InsertUniqueBelow(s, p, e) ==
    IF p = Header \/ key[e] < key[p]
    THEN IF p = Leftmost(s.node) \/ key[Decrement(s.node, p)] < key[e]
         THEN InsertBelow(s, FALSE, p, e) ELSE s
    ELSE IF key[p] < key[e] THEN InsertBelow(s, FALSE, p, e) ELSE s

InsertUnique(s, e) == InsertUniqueBelow(s, Descend(s.node, Root(s.node), Header, e), e)

\* With a hint, the position before which e may go.  Before(a, b) says that a may
\* precede b: less for unique keys, not greater for equal ones.
HintFits(s, position, e, Before(_, _)) ==
    /\ position = Header \/ Before(e, position)
    /\ position = Leftmost(s.node) \/ Before(Decrement(s.node, position), e)

InsertAt(s, position, e) ==
    IF position = Leftmost(s.node) THEN InsertBelow(s, TRUE, position, e)
    ELSE IF position = Header THEN InsertBelow(s, FALSE, Rightmost(s.node), e)
    ELSE IF s.node[Decrement(s.node, position)].right = Null
    THEN InsertBelow(s, FALSE, Decrement(s.node, position), e)
    ELSE InsertBelow(s, TRUE, position, e)

\* Mutant: the hint fits an equal key.
InsertUniqueHintBeforeEqual(s, position, e) ==
    IF s.count > 0 /\ HintFits(s, position, e, LAMBDA a, b : key[a] <= key[b])
    THEN InsertAt(s, position, e) ELSE InsertUnique(s, e)

InsertUniqueHint(s, position, e) ==
    IF s.count > 0 /\ HintFits(s, position, e, LAMBDA a, b : key[a] < key[b])
    THEN InsertAt(s, position, e) ELSE InsertUnique(s, e)

InsertEqualHint(s, position, e) ==
    IF s.count > 0 /\ HintFits(s, position, e, LAMBDA a, b : key[a] <= key[b])
    THEN InsertAt(s, position, e) ELSE InsertEqual(s, e)

-----------------------------------------------------------------------------
(* Erasure *)

\* _Rb_tree_rebalance_for_erase, after the relinking: the subtree a below p lacks
\* a black node; w is its sibling.
RECURSIVE FixBlack(_, _, _)

IsBlack(t, a) == ~IsRed(t, a)

\* The last two cases: a nephew is red, and after them nothing is lacking.
LiftSibling(t, p, w, side) ==
    Rotate(Paint(Paint(Paint(t, w, t[p].color), p, "black"), t[w][Other(side)], "black"), p, side)

\* Mutant: the far nephew is taken to be red.
RaiseNephewUnrotated(t, p, w, side) == LiftSibling(t, p, w, side)

RaiseNephew(t, p, w, side) ==
    IF IsBlack(t, t[w][Other(side)])
    THEN LiftSibling(Rotate(Paint(Paint(t, t[w][side], "black"), w, "red"), w, Other(side)),
                     p, t[w][side], side)
    ELSE LiftSibling(t, p, w, side)

FixBelow(t, a, p, w, side) ==
    IF IsRed(t, w)
    THEN FixBlack(Rotate(Paint(Paint(t, w, "black"), p, "red"), p, side), a, p)
    ELSE IF IsBlack(t, t[w].left) /\ IsBlack(t, t[w].right)
    THEN FixBlack(Paint(t, w, "red"), p, t[p].parent)
    ELSE Paint(RaiseNephew(t, p, w, side), a, "black")

FixBlack(t, a, p) ==
    IF a = Root(t) \/ IsRed(t, a) THEN Paint(t, a, "black")
    ELSE IF a = t[p].left THEN FixBelow(t, a, p, t[p].right, "left")
    ELSE FixBelow(t, a, p, t[p].left, "right")

\* z has two children: its successor y, whose right child is a, takes its place
\* and its color.
Succeed(t, z, y, a) ==
    LET near == y = t[z].right
        out == IF near THEN t ELSE SetParent([t EXCEPT ![t[y].parent].left = a], a, t[y].parent)
        placed == [Relink(out, z, y) EXCEPT
                     ![y] = [color |-> t[z].color, parent |-> t[z].parent, left |-> t[z].left,
                             right |-> IF near THEN a ELSE t[z].right]]
        joined == SetParent(SetParent(placed, t[z].left, y), placed[y].right, y)
    IN IF t[y].color = "red" THEN joined
       ELSE FixBlack(joined, a, IF near THEN y ELSE t[y].parent)

\* z has the child a, or none: a takes its place.
Bypass(t, z, a) ==
    LET out == SetParent(Relink(t, z, a), a, t[z].parent)
        end(side) == IF z # t[Header][side] THEN t[Header][side]
                     ELSE IF t[z][Other(side)] = Null THEN t[z].parent ELSE Extreme(t, a, side)
        kept == [out EXCEPT ![Header] = [@ EXCEPT !.left = end("left"), !.right = end("right")]]
    IN IF t[z].color = "red" THEN kept ELSE FixBlack(kept, a, t[z].parent)

Unlink(t, z) ==
    IF t[z].left = Null THEN Bypass(t, z, t[z].right)
    ELSE IF t[z].right = Null THEN Bypass(t, z, t[z].left)
    ELSE LET y == Extreme(t, t[z].right, "left") IN Succeed(t, z, y, t[y].right)

EraseNode(s, z) == [node |-> [Unlink(s.node, z) EXCEPT ![z] = FreeNode], count |-> s.count - 1]

\* _M_erase: the nodes that it reaches and releases without rebalancing.
RECURSIVE Below(_, _)
Below(t, a) == IF a = Null THEN {} ELSE {a} \union Below(t, t[a].right) \union Below(t, t[a].left)
Release(t, a) == [b \in DOMAIN t |-> IF b \in Below(t, a) THEN FreeNode ELSE t[b]]

Cleared(s) ==
    IF s.count = 0 THEN s
    ELSE [node |-> [Release(s.node, Root(s.node)) EXCEPT ![Header] = EmptyTree.node[Header]],
          count |-> 0]

\* erase(first, last); the iterator is advanced before its node goes.
RECURSIVE EraseEach(_, _, _)
EraseEach(s, first, last) ==
    IF first = last THEN s
    ELSE EraseEach(EraseNode(s, first), Increment(s.node, first), last)

EraseRange(s, first, last) ==
    IF first = Leftmost(s.node) /\ last = Header THEN Cleared(s) ELSE EraseEach(s, first, last)

-----------------------------------------------------------------------------
(* Searches *)

\* The last node on the way down that is not before k (equal), or that is after k.
RECURSIVE Bound(_, _, _, _, _)
Bound(t, a, y, k, equal) ==
    IF a = Null THEN y
    ELSE IF k < key[a] \/ (equal /\ k = key[a]) THEN Bound(t, t[a].left, a, k, equal)
    ELSE Bound(t, t[a].right, y, k, equal)

LowerBound(t, k) == Bound(t, Root(t), Header, k, TRUE)
UpperBound(t, k) == Bound(t, Root(t), Header, k, FALSE)
Find(t, k) ==
    IF LowerBound(t, k) = Header \/ k < key[LowerBound(t, k)] THEN Header ELSE LowerBound(t, k)

EraseKey(s, k) == EraseRange(s, LowerBound(s.node, k), UpperBound(s.node, k))

-----------------------------------------------------------------------------
(* Copies.  m is [node, fuel, threw]: the clone after the last fuel throws.  *)

RECURSIVE CopyTree(_, _, _, _), CopySpine(_, _, _)

Clone(m, from, a, p) ==
    IF m.fuel = 0 THEN [m EXCEPT !.threw = TRUE]
    ELSE [m EXCEPT !.fuel = @ - 1,
                   !.node[a] = [FreeNode EXCEPT !.color = from[a].color, !.parent = p]]

CopyRight(m, from, a) ==
    IF m.threw \/ from[a].right = Null THEN m
    ELSE LET r == CopyTree(m, from, from[a].right, a) IN
         IF r.threw THEN r ELSE [r EXCEPT !.node[a].right = from[a].right]

CopyLeft(m, from, a) ==
    IF m.threw \/ from[a].left = Null THEN m
    ELSE LET c == Clone(m, from, from[a].left, a) IN
         CopySpine(IF c.threw THEN c ELSE [c EXCEPT !.node[a].left = from[a].left],
                   from, from[a].left)

CopySpine(m, from, a) == IF m.threw THEN m ELSE CopyLeft(CopyRight(m, from, a), from, a)

\* Mutant: nothing is released.
CopyTreeKept(m, from, a, p) == CopySpine(Clone(m, from, a, p), from, a)

\* _M_copy: what was copied below a is released if any of it throws.
CopyTree(m, from, a, p) ==
    LET top == Clone(m, from, a, p)
        r == CopySpine(top, from, a)
    IN IF top.threw \/ ~r.threw THEN r ELSE [r EXCEPT !.node = Release(@, a)]

\* operator=, with a copy that throws after fuel clones
Assigned(s, from, fuel) ==
    LET m == CopyTree([node |-> s.node, fuel |-> fuel, threw |-> FALSE],
                      from.node, Root(from.node), Header)
        top == Root(from.node)
    IN IF Root(from.node) = Null THEN s
       ELSE IF m.threw THEN [s EXCEPT !.node = m.node]
       ELSE [node |-> [m.node EXCEPT ![Header] =
                         [@ EXCEPT !.parent = top, !.left = Extreme(m.node, top, "left"),
                                   !.right = Extreme(m.node, top, "right")]],
             count |-> from.count]

-----------------------------------------------------------------------------
(* Calls *)

\* The call c is made, and tree x becomes s.
Return(x, s, c) ==
    tree' = [tree EXCEPT ![x] = s] /\ call' = c @@ [on |-> x, turn |-> 1 - call.turn]

Nodes(x) == {e \in Element : tree[x].node[e] # FreeNode}
Positions(x) == Nodes(x) \union {Header}

CallInsertUnique(x, e) ==
    Return(x, InsertUnique(tree[x], e), [op |-> "insert_unique", element |-> e])
CallInsertEqual(x, e) ==
    Return(x, InsertEqual(tree[x], e), [op |-> "insert_equal", element |-> e])
CallInsertUniqueHint(x, p, e) ==
    Return(x, InsertUniqueHint(tree[x], p, e), [op |-> "insert_unique", element |-> e])
CallInsertEqualHint(x, p, e) ==
    Return(x, InsertEqualHint(tree[x], p, e), [op |-> "insert_equal", element |-> e])

CallErase(x, p) ==
    Return(x, EraseNode(tree[x], p), [op |-> "erase", elements |-> {p}])
CallEraseKey(x, e) ==
    Return(x, EraseKey(tree[x], key[e]), [op |-> "erase_key", element |-> e])

\* The elements from first to last are those whose keys and places are between.
RECURSIVE InOrder(_, _)
InOrder(t, a) ==
    IF a = Null THEN << >> ELSE InOrder(t, t[a].left) \o << a >> \o InOrder(t, t[a].right)

CallEraseRange(x) ==
    LET order == InOrder(tree[x].node, Root(tree[x].node)) \o << Header >> IN
    \E i, j \in DOMAIN order :
        /\ i <= j
        /\ Return(x, EraseRange(tree[x], order[i], order[j]),
                  [op |-> "erase", elements |-> {order[k] : k \in i .. j - 1}])

CallClear(x) == Return(x, Cleared(tree[x]), [op |-> "clear"])

CallAssign(x, y, fuel) ==
    /\ x # y
    /\ Return(x, Assigned(Cleared(tree[x]), tree[y], fuel),
              [op |-> IF fuel < tree[y].count THEN "assign throws" ELSE "assign", from |-> y])

\* The headers are exchanged, and with them everything below.
CallSwap(x, y) ==
    /\ x # y
    /\ tree' = [tree EXCEPT ![x] = tree[y], ![y] = tree[x]]
    /\ call' = [op |-> "swap", on |-> x, from |-> y, turn |-> 1 - call.turn]

Next ==
    \E x \in Trees :
        \/ \E e \in Element \ Nodes(x) :
             \/ CallInsertUnique(x, e) \/ CallInsertEqual(x, e)
             \/ \E p \in Positions(x) : CallInsertUniqueHint(x, p, e) \/ CallInsertEqualHint(x, p, e)
        \/ \E p \in Nodes(x) : CallErase(x, p)
        \/ \E e \in Element : CallEraseKey(x, e)
        \/ CallEraseRange(x) \/ CallClear(x)
        \/ \E y \in Trees : CallSwap(x, y) \/ \E fuel \in 0 .. tree[y].count : CallAssign(x, y, fuel)

Spec == Init /\ [][Next]_vars

-----------------------------------------------------------------------------
(* Properties *)

TypeOK ==
    \A x \in Trees :
        /\ tree[x].count \in 0 .. Cardinality(Element)
        /\ \A a \in Element \union {Header} :
             /\ tree[x].node[a].color \in {"red", "black", "free"}
             /\ {tree[x].node[a].parent, tree[x].node[a].left, tree[x].node[a].right}
                  \subseteq Element \union {Header, Null}

RECURSIVE BlackCount(_, _)
BlackCount(t, a) ==
    IF a = Null THEN 0
    ELSE (IF t[a].color = "black" THEN 1 ELSE 0)
       + (IF a = Root(t) THEN 0 ELSE BlackCount(t, t[a].parent))

\* __rb_verify: what the code itself checks of a tree, by iterating over it.
VerifyNode(t, a) ==
    /\ t[a].color = "red" => ~IsRed(t, t[a].left) /\ ~IsRed(t, t[a].right)
    /\ t[a].left # Null => ~(key[a] < key[t[a].left])
    /\ t[a].right # Null => ~(key[t[a].right] < key[a])
    /\ t[a].left = Null /\ t[a].right = Null => BlackCount(t, a) = BlackCount(t, Leftmost(t))

Verify(s) ==
    IF s.count = 0 \/ Leftmost(s.node) = Header
    THEN s.count = 0 /\ Leftmost(s.node) = Header /\ Rightmost(s.node) = Header
    ELSE /\ \A a \in Below(s.node, Root(s.node)) : VerifyNode(s.node, a)
         /\ Leftmost(s.node) = Extreme(s.node, Root(s.node), "left")
         /\ Rightmost(s.node) = Extreme(s.node, Root(s.node), "right")

\* What makes a tree work, more than __rb_verify sees: the links up are those
\* down, the root is black, every path has as many black nodes, the keys are in
\* order, and iterating in either direction gives that order.
LinksAgree(t) ==
    \A a \in Below(t, Root(t)) \union {Header} :
        LET below == IF a = Header THEN {t[a].parent} ELSE {t[a].left, t[a].right} IN
        \A b \in below \ {Null} : t[b].parent = a

BlacksAgree(t) ==
    LET ends == {a \in Below(t, Root(t)) : t[a].left = Null \/ t[a].right = Null} IN
    /\ \A a, b \in ends : BlackCount(t, a) = BlackCount(t, b)
    /\ Root(t) # Null => t[Root(t)].color = "black"
    /\ t[Header].color = "red"

OrderAgrees(t, order) ==
    /\ \A i \in 1 .. Len(order) - 1 :
         /\ key[order[i]] <= key[order[i + 1]]
         /\ Increment(t, order[i]) = order[i + 1] /\ Decrement(t, order[i + 1]) = order[i]
    /\ order # << >> => /\ Increment(t, order[Len(order)]) = Header
                       /\ Decrement(t, Header) = order[Len(order)]
                       /\ order[1] = Leftmost(t)

WellFormed ==
    \A x \in Trees :
        /\ Verify(tree[x])
        /\ LinksAgree(tree[x].node) /\ BlacksAgree(tree[x].node)
        /\ OrderAgrees(tree[x].node, InOrder(tree[x].node, Root(tree[x].node)))

\* Every node that is allocated is in the tree, and the count is theirs: also
\* after a copy that threw.
NothingLost ==
    \A x \in Trees :
        /\ Nodes(x) = Below(tree[x].node, Root(tree[x].node))
        /\ tree[x].count = Cardinality(Nodes(x))

\* A search finds the first node that is not before the key, or after it.
SearchesAgree ==
    \A x \in Trees : \A e \in Element :
        LET t == tree[x].node  k == key[e]
            order == InOrder(t, Root(t)) \o << Header >>
            first(Skip(_)) == CHOOSE i \in DOMAIN order :
                                /\ \A j \in 1 .. i - 1 : Skip(order[j])
                                /\ order[i] = Header \/ ~Skip(order[i])
        IN /\ LowerBound(t, k) = order[first(LAMBDA a : key[a] < k)]
           /\ UpperBound(t, k) = order[first(LAMBDA a : key[a] <= k)]
           /\ Find(t, k) = Header <=> \A a \in Nodes(x) : key[a] # k

\* The trees are the containers that their calls say.
Sets == INSTANCE AbstractSets WITH Containers <- Trees, content <- [x \in Trees |-> Nodes(x)]
ImplementsSets == Sets!SetsSpec
=============================================================================
