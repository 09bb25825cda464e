--------------------------- MODULE RopeIterators ---------------------------
(***************************************************************************)
(* The iterators of stl_rope.h over the trees of Rope.  An iterator keeps  *)
(* a pointer into a buffer of characters and the lower end of the path to  *)
(* the leaf that they come from, from which it finds the next leaf.  A     *)
(* mutable iterator also holds a reference to the root of its path, by     *)
(* which it notices that its rope got another tree; a const iterator does  *)
(* not, and is lost when its rope is changed.  Pointers to characters are *)
(* offsets into what they point to.                                        *)
(***************************************************************************)
EXTENDS Rope

CONSTANTS Iterators,
          PathCacheLen,   \* _S_path_cache_len, 4
          DirectionBits,  \* of _M_path_directions, 8
          IteratorBufLen  \* _S_iterator_buf_len, 15

ASSUME RopeIteratorsAssumption ==
    /\ {PathCacheLen, DirectionBits, IteratorBufLen} \subseteq Nat \ {0}
    /\ PathCacheLen <= DirectionBits + 1

VARIABLE iter   \* [iterator -> its fields, or Nil]

ropeVars == vars
allVars == << vars, iter >>

\* _M_buf_ptr and _M_buf_end, from _M_buf_start on, which is in a leaf, in the
\* flattened string of the root, or in the iterator itself, as text.
NoBuffer == [in |-> "none", at |-> 0, end |-> 0, text |-> << >>]
Buffer(where, at, end, text) == [in |-> where, at |-> at, end |-> end, text |-> text]

\* path is _M_path_end up to _M_leaf_index; dirs are the bits of
\* _M_path_directions from the lowest on; ok says that each __stl_assert held.
IteratorAt(x, const, root, pos) ==
    [rope |-> x, const |-> const, root |-> root, pos |-> pos, leafpos |-> 0,
     path |-> << >>, dirs |-> << >>, buf |-> NoBuffer, ok |-> TRUE]

\* The path is valid only if the buffer is.
Uncached(it) == [it EXCEPT !.leafpos = 0, !.path = << >>, !.dirs = << >>, !.buf = NoBuffer]
Asserted(it, holds) == [it EXCEPT !.ok = @ /\ holds]

-----------------------------------------------------------------------------
(* The buffer and the path                                                 *)

\* A part of a leaf without characters of its own: from its start on, or
\* around the position, and never past its end.
WindowStart(pos, leafpos, end) ==
    IF leafpos + IteratorBufLen <= pos
    THEN Min({pos - IteratorBufLen \div 4, end - IteratorBufLen})
    ELSE leafpos

SetBuf(h, it) ==
    LET leaf == Last(it.path)
        end == it.leafpos + h[leaf].size
        from == WindowStart(it.pos, it.leafpos, end)
        to == Min({from + IteratorBufLen, end})
        text == SubSeq(Flatten(h, leaf), from - it.leafpos + 1, to - it.leafpos)
    IN CASE h[leaf].tag = "leaf" ->
              [it EXCEPT !.buf = Buffer("leaf", it.pos - it.leafpos, h[leaf].size, << >>)]
         [] h[leaf].tag \in {"function", "substringfn"} ->
              [it EXCEPT !.buf = Buffer("tmp", it.pos - from, to - from, text)]
         [] h[leaf].tag = "concat" -> Asserted(it, FALSE)

\* Only the last nodes of a path are kept.
Pushed(path, p) ==
    LET longer == Append(path, p) IN
    SubSeq(longer, Max({1, Len(longer) - PathCacheLen + 1}), Len(longer))

ShiftedIn(right, dirs) ==
    << right >> \o SubSeq(dirs, 1, Min({Len(dirs), DirectionBits - 1}))

TurnLeft(h, it) ==
    [it EXCEPT !.path = Pushed(@, h[Last(@)].left), !.dirs = ShiftedIn(FALSE, @)]
TurnRight(h, it) ==
    [it EXCEPT !.path = Pushed(@, h[Last(@)].right), !.dirs = ShiftedIn(TRUE, @),
               !.leafpos = @ + h[h[Last(it.path)].left].size]

\* From the node at the end of the path down to the leaf of the position
RECURSIVE Descend(_, _)
Descend(h, it) ==
    LET node == h[Last(it.path)] IN
    IF node.tag # "concat" THEN it
    ELSE IF it.pos >= it.leafpos + h[node.left].size THEN Descend(h, TurnRight(h, it))
    ELSE Descend(h, TurnLeft(h, it))

\* A root with a flattened string is treated as a leaf.
SetCache(h, it) ==
    LET root == h[it.root]
        start == [Asserted(Uncached(it), it.pos <= root.size) EXCEPT !.path = << it.root >>]
    IN IF it.pos >= root.size THEN [start EXCEPT !.path = << >>]
       ELSE IF root.cstr # << >>
            THEN [start EXCEPT !.buf = Buffer("cstr", it.pos, root.size, << >>)]
       ELSE SetBuf(h, Descend(h, start))

RECURSIVE LeftMost(_, _)
LeftMost(h, it) ==
    IF h[Last(it.path)].tag = "concat" THEN LeftMost(h, TurnLeft(h, it)) ELSE it

\* Out of the right child of parent
ClimbFromRight(h, it, parent) ==
    [it EXCEPT !.path = Front(@), !.dirs = Tail(@), !.leafpos = @ - h[h[parent].left].size]

\* The position is behind the node at the end of the path: up to the first
\* parent that the path left to the left, and down into its right child.
RECURSIVE NextLeaf(_, _)
NextLeaf(h, it) ==
    LET parent == it.path[Len(it.path) - 1]
        above == [it EXCEPT !.path = Front(@), !.dirs = Tail(@)]
    IN IF Len(it.path) = 1 THEN SetCache(h, it)
       ELSE IF it.dirs[1] THEN NextLeaf(h, ClimbFromRight(h, it, parent))
       ELSE SetBuf(h, LeftMost(h, TurnRight(h, above)))

SetCacheForIncr(h, it) ==
    LET end == it.leafpos + h[Last(it.path)].size
        checked == Asserted(it, it.pos <= h[it.root].size)
    IN IF it.pos < end THEN SetBuf(h, checked)
       ELSE NextLeaf(h, Asserted(checked, it.pos = end))

Incr(h, it, n) ==
    LET left == it.buf.end - it.buf.at
        moved == [it EXCEPT !.pos = @ + n]
    IN IF it.buf = NoBuffer THEN moved
       ELSE IF left > n THEN [moved EXCEPT !.buf.at = @ + n]
       ELSE IF left = n THEN SetCacheForIncr(h, moved)
       ELSE Uncached(moved)

Decr(it, n) ==
    LET moved == [it EXCEPT !.pos = @ - n] IN
    IF it.buf = NoBuffer THEN moved
    ELSE IF it.buf.at >= n THEN [moved EXCEPT !.buf.at = @ - n]
    ELSE Uncached(moved)

\* *_M_buf_ptr, as a sequence: empty if there is no such character
CharAt(text, at) == IF at < Len(text) THEN << text[at + 1] >> ELSE << >>
Buffered(h, it) ==
    CASE it.buf.in = "leaf" -> CharAt(h[Last(it.path)].data, it.buf.at)
      [] it.buf.in = "cstr" -> CharAt(h[it.root].cstr, it.buf.at)
      [] it.buf.in = "tmp" -> CharAt(it.buf.text, it.buf.at)

-----------------------------------------------------------------------------
(* Reading a tree                                                          *)

\* A const iterator from the begin to the end of tree p, as in _S_compare
RECURSIVE ReadOn(_, _, _)
ReadOn(h, it, read) ==
    LET cached == IF it.buf = NoBuffer THEN SetCache(h, it) ELSE it IN
    IF it.pos = h[it.root].size THEN [text |-> read, ok |-> it.ok]
    ELSE ReadOn(h, Incr(h, cached, 1), read \o Buffered(h, cached))
ReadByIterator(h, p) == ReadOn(h, IteratorAt(Nil, TRUE, p, 0), << >>)

\* Only the flattened string of the root is used.
RECURSIVE FetchBelow(_, _, _)
FetchBelow(h, p, i) ==
    LET child == Child(h, p, i) IN
    IF h[p].tag = "concat" THEN FetchBelow(h, child[1], child[2]) ELSE Flatten(h, p)[i + 1]
Fetch(h, p, i) == IF h[p].cstr # << >> THEN h[p].cstr[i + 1] ELSE FetchBelow(h, p, i)

\* The characters from first to last - 1 that _S_apply_to_pieces hands on
RECURSIVE Pieces(_, _, _, _)
Pieces(h, p, first, last) ==
    LET left == h[p].left
        mid == h[left].size
    IN IF h[p].tag # "concat" THEN << SubSeq(Flatten(h, p), first + 1, last) >>
       ELSE (IF first < mid THEN Pieces(h, left, first, Min({mid, last})) ELSE << >>)
            \o (IF last > mid
                THEN Pieces(h, h[p].right, Max({mid, first}) - mid, last - mid) ELSE << >>)

\* find(c, start), with the size of the rope for npos: the consumer counts the
\* characters in front of the first c, and stops the pieces there.
CountTo(c, count, piece) ==
    IF count.found THEN count
    ELSE IF Contains(piece, c)
         THEN [found |-> TRUE, n |-> count.n + Min({i \in DOMAIN piece : piece[i] = c}) - 1]
    ELSE [count EXCEPT !.n = @ + Len(piece)]
Find(h, p, c, start) ==
    start + FoldLeft(LAMBDA count, piece : CountTo(c, count, piece),
                     [found |-> FALSE, n |-> 0], Pieces(h, p, start, h[p].size)).n

-----------------------------------------------------------------------------
(* The operations of iterators                                             *)

IteratorsInit == iter = [i \in Iterators |-> Nil]

\* _S_ref and _S_unref of a mutable iterator's root, and its new fields
HoldRoots(m) == heap' = m.heap /\ asserts' = m.asserts /\ sizes' = m.sizes /\ UNCHANGED tree
Set(i, it) == iter' = [iter EXCEPT ![i] = it]

\* const_begin() + p
ConstBegin(i, x, p) ==
    /\ iter[i] = Nil
    /\ Set(i, IteratorAt(x, TRUE, tree[x], p)) /\ UNCHANGED ropeVars

\* mutable_begin() + p: constructed from the rope's address.
MutableBegin(i, x, p) ==
    LET m == Ref(Start(0), tree[x])
        it == IteratorAt(x, FALSE, tree[x], p)
    IN /\ iter[i] = Nil
       /\ Set(i, IF tree[x] = Nil THEN it ELSE SetCache(m.heap, it))
       /\ HoldRoots(m)

\* _Rope_iterator(rope&, size_t)
MutableByReference(i, x, p) ==
    /\ iter[i] = Nil
    /\ Set(i, IteratorAt(x, FALSE, tree[x], p))
    /\ HoldRoots(Ref(Start(0), tree[x]))

Destroy(i) ==
    /\ iter[i] # Nil
    /\ Set(i, Nil)
    /\ IF iter[i].const THEN UNCHANGED ropeVars ELSE HoldRoots(Unref(Start(0), iter[i].root))

\* What is copied is a pointer: a buffer in the iterator itself is not copied
\* with it, so clients do not copy an iterator that has one.
Copyable(i) == iter[i] # Nil /\ iter[i].buf.in # "tmp"

\* Mutant: without a reference for the copy.
CopyUncounted(i, j) ==
    /\ iter[i] = Nil /\ Copyable(j)
    /\ Set(i, iter[j])
    /\ UNCHANGED ropeVars

\* The copy constructors
Copy(i, j) ==
    /\ iter[i] = Nil /\ Copyable(j)
    /\ Set(i, iter[j])
    /\ IF iter[j].const THEN UNCHANGED ropeVars ELSE HoldRoots(Ref(Start(0), iter[j].root))

\* _Rope_const_iterator(const _Rope_iterator&), while the root is the rope's tree
ConvertToConst(i, j) ==
    /\ iter[i] = Nil /\ Copyable(j) /\ ~ iter[j].const /\ iter[j].root = tree[iter[j].rope]
    /\ Set(i, [iter[j] EXCEPT !.const = TRUE]) /\ UNCHANGED ropeVars

AssignIterator(i, j) ==
    /\ i # j /\ iter[i] # Nil /\ Copyable(j) /\ iter[i].const = iter[j].const
    /\ Set(i, iter[j])
    /\ IF iter[j].const THEN UNCHANGED ropeVars
       ELSE HoldRoots(Unref(Ref(Start(0), iter[j].root), iter[i].root))

\* operator* of a const iterator
ConstDeref(i) ==
    /\ iter[i] # Nil /\ iter[i].const /\ iter[i].pos < Size(heap, iter[i].root)
    /\ iter[i].buf = NoBuffer
    /\ Set(i, SetCache(heap, iter[i])) /\ UNCHANGED ropeVars

\* Mutant: the buffer stays.
CheckRootOnly(i) ==
    LET it == iter[i] IN
    /\ it # Nil /\ ~ it.const /\ it.root # tree[it.rope]
    /\ Set(i, [it EXCEPT !.root = tree[it.rope]])
    /\ HoldRoots(Ref(Unref(Start(0), it.root), tree[it.rope]))

\* operator* of a mutable iterator: _M_check, and a proxy of the position
Check(i) ==
    LET it == iter[i] IN
    /\ it # Nil /\ ~ it.const /\ it.root # tree[it.rope]
    /\ Set(i, Uncached([it EXCEPT !.root = tree[it.rope]]))
    /\ HoldRoots(Ref(Unref(Start(0), it.root), tree[it.rope]))

\* Within the rope as it is now, which a mutable iterator may not have noticed.
Advance(i, n) ==
    /\ iter[i] # Nil /\ iter[i].pos + n <= Size(heap, tree[iter[i].rope])
    /\ Set(i, Incr(heap, iter[i], n)) /\ UNCHANGED ropeVars

Retreat(i, n) ==
    /\ iter[i] # Nil /\ n <= iter[i].pos
    /\ Set(i, Decr(iter[i], n)) /\ UNCHANGED ropeVars

\* Const iterators of the ropes xs are lost.
Invalidate(xs) ==
    iter' = [i \in Iterators |->
                IF iter[i] # Nil /\ iter[i].const /\ iter[i].rope \in xs THEN Nil ELSE iter[i]]

ChangeRope(x) ==
    /\ \/ Update(x, Texts, MaxLen)
       \/ \E p, q, r \in 0 .. Size(heap, tree[x]) : Rotate(x, p, q, r)
    /\ Invalidate({x})
SwapRopes(x, y) == Swap(x, y) /\ Invalidate({x, y})
FlattenRope(x) == CStr(x) /\ UNCHANGED iter

\* A client that deletes the string has no iterator in it.
DeleteString(x) ==
    /\ \A i \in Iterators :
         iter[i] # Nil => ~ (iter[i].buf.in = "cstr" /\ iter[i].root = tree[x])
    /\ DeleteCStr(x) /\ UNCHANGED iter

IteratorStep(i) ==
    \/ Destroy(i) \/ ConstDeref(i) \/ Check(i)
    \/ \E x \in Ropes : \E p \in 0 .. Size(heap, tree[x]) :
         ConstBegin(i, x, p) \/ MutableBegin(i, x, p) \/ MutableByReference(i, x, p)
    \/ \E j \in Iterators : Copy(i, j) \/ ConvertToConst(i, j) \/ AssignIterator(i, j)
    \/ \E n \in 1 .. MaxLen : Advance(i, n) \/ Retreat(i, n)

IteratorsNext ==
    \/ \E i \in Iterators : IteratorStep(i)
    \/ \E x \in Ropes :
         ChangeRope(x) \/ FlattenRope(x) \/ DeleteString(x) \/ \E y \in Ropes : SwapRopes(x, y)

IteratorsSpec == Init /\ IteratorsInit /\ [][IteratorsNext]_allVars

-----------------------------------------------------------------------------
(* Properties                                                              *)

Live == {i \in Iterators : iter[i] # Nil}

IteratorsTypeOK ==
    /\ TypeOK
    /\ \A i \in Live :
         /\ iter[i].root \in Nodes \union {Nil}
         /\ Len(iter[i].path) <= PathCacheLen /\ Len(iter[i].dirs) <= DirectionBits
         /\ Range(iter[i].path) \subseteq Nodes

\* Between calls every count is the number of pointers to the node from ropes,
\* from other nodes and from mutable iterators: nothing is lost or freed too
\* early, whichever allocation failed and wherever the exception went, and an
\* iterator whose rope got another tree still has its own.
CountsExact ==
    \A a \in Nodes :
        heap[a].refs = References(a)
                     + Cardinality({i \in Live : ~ iter[i].const /\ iter[i].root = a})

\* The flattened string of a node, whatever was changed in place below it
StringsAgree == \A a \in Nodes : heap[a].cstr # << >> => heap[a].cstr = Flatten(heap, a)

\* The buffers of iterators, however they moved, and whatever was done to the
\* ropes since
BuffersAgree ==
    \A i \in Live : iter[i].buf # NoBuffer =>
        /\ iter[i].buf.at < iter[i].buf.end
        /\ Buffered(heap, iter[i]) = CharAt(Flatten(heap, iter[i].root), iter[i].pos)

\* Walking over a tree with an iterator, fetching by position, and searching in
\* pieces
ReadersAgree ==
    \A x \in Ropes : tree[x] # Nil =>
        LET p == tree[x]
            text == Flatten(heap, p)
        IN /\ ReadByIterator(heap, p) = [text |-> text, ok |-> TRUE]
           /\ \A i \in 1 .. Len(text) : Fetch(heap, p, i - 1) = text[i]
           /\ \A c \in Chars : \A start \in 0 .. Len(text) - 1 :
                Find(heap, p, c, start) =
                    Min({i \in start + 1 .. Len(text) : text[i] = c} \union {Len(text) + 1}) - 1

\* However a tree is read, it is the same string: what nodes and iterators keep
\* of it, and every way to read it.
ReadsAgree == StringsAgree /\ BuffersAgree /\ ReadersAgree

\* The assertions of the code hold: those of _S_balance's forest, of lazy
\* substrings, of results that must not be shared, and of iterators.  Nor does
\* a call touch the count of a node that was freed.
AssertionsHold == asserts /\ \A i \in Live : iter[i].ok
=============================================================================
