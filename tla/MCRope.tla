------------------------------- MODULE MCRope -------------------------------
(***************************************************************************)
(* Model-checking instances of RopeIterators, of which Init picks one:     *)
(* "pair", two ropes that share trees of leaves, "deep", one rope that     *)
(* grows until it is rebalanced, "lazy", functions and their substrings,   *)
(* "walk", an iterator of a rope that is changed under it, and "copies",   *)
(* two of them.  CallsSpec is an instance of its own, of a few operations  *)
(* only, for the runs that show where the code departs from its comments.  *)
(***************************************************************************)
EXTENDS RopeIterators

CONSTANTS rx, ry, ca, cb, cc, cd, it1, it2, MaxNodes, MaxPairLen, MaxWalkLen, MaxCopiesLen
TwoRopes == {rx, ry}
TwoIterators == {it1, it2}
LongText == << ca, cb, ca, cb >>
SomeTexts == {<< >>, << ca >>, << ca, cb >>, LongText, << cc, cd >>}
SomeChars == {cb}

VARIABLE instance

MCInit == Init /\ IteratorsInit /\ instance \in {"pair", "deep", "lazy", "walk", "copies"}

Bounds ==
    /\ instance = "pair" =>
         /\ Cardinality(Nodes) <= MaxNodes
         /\ \A p \in Nodes : heap[p].tag # "function"
         /\ \A z \in Ropes : Size(heap, tree[z]) <= MaxPairLen
    /\ instance = "lazy" => \A z \in Ropes : Size(heap, tree[z]) <= Len(LongText)
    /\ instance = "walk" =>
         Live \subseteq {it1} /\ Size(heap, tree[rx]) + Size(heap, tree[ry]) <= MaxWalkLen
    /\ instance = "copies" => Size(heap, tree[rx]) + Size(heap, tree[ry]) <= MaxCopiesLen

\* In "pair", no text is longer than its ropes.
Share ==
    \/ \E z \in Ropes : Update(z, {<< >>, << ca >>, << ca, cb >>}, MaxPairLen)
    \/ \E z \in Ropes : CStr(z) \/ DeleteCStr(z)
    \/ Swap(rx, ry)
    \/ \E p, q, r \in 0 .. Size(heap, tree[rx]) : p < q /\ q < r /\ Rotate(rx, p, q, r)

\* In "deep", rx grows at the front, so that its tree is a chain.
Grow == PushFront(rx, cb) \/ AppendChars(rx, << ca, cb >>) \/ Rebalance(rx)

\* In "lazy", substrings are long enough to be lazy themselves.
Cut ==
    \/ ConstructFunction(rx, LongText) \/ CStr(ry) \/ AppendChars(ry, << ca >>) \/ Assign(rx, ry)
    \/ \E p, n \in 0 .. Size(heap, tree[rx]) : Substr(ry, rx, p, n)

\* In "walk" and "copies", rx is built, with different characters, before there
\* are iterators on it; then it is changed again when they have noticed the
\* last change.
Build ==
    \/ \E text \in {<< ca, cb >>, << cc, cd >>} : AppendChars(rx, text)
    \/ ConstructFunction(rx, LongText) \/ PushFront(rx, cb) \/ AppendRope(rx, rx)

Change == AppendChars(rx, << cc, cd >>) \/ EraseOne(rx, 0)

Walk ==
    \/ \E i \in Iterators : IteratorStep(i) /\ (iter'[i] # Nil => iter'[i].rope = rx)
    \/ Live = {} /\ Build /\ UNCHANGED iter
    \/ /\ Live # {} /\ \A i \in Live : iter[i].root = tree[rx]
       /\ \/ Change /\ Invalidate({rx})
          \/ SwapRopes(rx, ry)
    \/ FlattenRope(rx) \/ DeleteString(rx)

MCNext ==
    /\ \/ instance = "pair" /\ Share /\ UNCHANGED iter
       \/ instance = "deep" /\ Grow /\ UNCHANGED iter
       \/ instance = "lazy" /\ Cut /\ UNCHANGED iter
       \/ instance \in {"walk", "copies"} /\ Walk
    /\ UNCHANGED instance /\ Bounds'

MCSpec == MCInit /\ [][MCNext]_<< allVars, instance >>

\* A few operations on two short ropes, without iterators.
CallsInit == Init /\ IteratorsInit /\ instance = "calls"

CallsNext ==
    /\ \E z \in Ropes :
         \/ \E text \in {<< ca >>, << ca, cb >>} : Construct(z, text) \/ AppendChars(z, text)
         \/ \E c \in Chars : ConstructChar(z, c)
         \/ AppendRope(z, ry) \/ CStr(z)
         \/ \E p \in 1 .. Size(heap, tree[z]) : EraseOne(z, p - 1)
    /\ UNCHANGED << iter, instance >>
    /\ Cardinality(Nodes') <= MaxNodes

CallsSpec == CallsInit /\ [][CallsNext]_<< allVars, instance >>

\* States that differ in the addresses only are the same: number the nodes in
\* the order in which they are reached.
RECURSIVE Visit(_, _)
Visit(seen, p) ==
    IF p = Nil \/ Contains(seen, p) THEN seen
    ELSE Visit(Visit(seen \o << p >>, heap[p].left), heap[p].right)

Root(i) == IF iter[i] = Nil THEN Nil ELSE iter[i].root
Numbered(ps, is) ==
    LET reached == FoldLeft(Visit, << >>, ps \o [k \in DOMAIN is |-> Root(is[k])])
        order == reached \o SetToSeq(Nodes \ Range(reached))
        new(p) == IF p \notin Nodes THEN p ELSE CHOOSE j \in DOMAIN order : order[j] = p
    IN << [j \in DOMAIN order |-> [heap[order[j]] EXCEPT !.left = new(@), !.right = new(@)]],
          [k \in DOMAIN ps |-> new(ps[k])],
          [k \in DOMAIN is |->
              IF iter[is[k]] = Nil THEN Nil
              ELSE [iter[is[k]] EXCEPT !.root = new(@),
                                       !.path = [n \in DOMAIN @ |-> new(@[n])]]] >>

\* The two ropes of "pair" and the two iterators of "copies" are interchangeable.
View == << {Numbered(<< tree[rx], tree[ry] >>, << it1, it2 >>)}
             \union CASE instance = "pair" ->
                           {Numbered(<< tree[ry], tree[rx] >>, << it1, it2 >>)}
                      [] instance = "copies" ->
                           {Numbered(<< tree[rx], tree[ry] >>, << it2, it1 >>)}
                      [] OTHER -> {},
           asserts, sizes, instance >>
=============================================================================
