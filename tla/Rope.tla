-------------------------------- MODULE Rope --------------------------------
(***************************************************************************)
(* The trees of stl_rope.h and ropeimpl.h and the operations of class rope *)
(* on them, for one thread and a basic character type: leaves, concate-    *)
(* nations, functions and lazy substrings with reference counts, which are *)
(* shared by ropes, changed in place when nobody shares them, and          *)
(* rebalanced when they get too deep.  Any allocation may fail.            *)
(*                                                                         *)
(* The functions of the code are operators on a record m, the program's    *)
(* memory while a call runs: the nodes, the pointer last returned, and     *)
(* whether bad_alloc was thrown.  After a throw the functions do nothing.  *)
(***************************************************************************)
EXTENDS Naturals, Sequences, FiniteSets, FiniteSetsExt, SequencesExt

CONSTANTS Ropes, Texts, Nil,
          CopyMax,         \* _S_copy_max, 23
          Granularity,     \* _S_alloc_granularity, 8
          LazyThreshold,   \* __lazy_threshold of _S_substring, 128
          BalanceDepth,    \* 20 in _S_tree_concat
          ShortSize,       \* 1000 in _S_tree_concat
          MaxDepth,        \* _S_max_rope_depth, 45
          FillThreshold,   \* __exponentiate_threshold of rope(n, c), 32
          MaxLen,          \* bound: length of a rope
          Chars,           \* the characters that clients pass
          ReplaceMayThrow  \* can allocation in replace_with_c_str fail?

VARIABLES heap,      \* the node, or FreedNode, at each address 1, 2, ...
          tree,      \* [rope -> _M_tree_ptr]
          asserts,   \* has every __stl_assert held, and was no freed node used?
          sizes      \* was every C string deallocated with its own size?

vars == << heap, tree, asserts, sizes >>

-----------------------------------------------------------------------------
(* Nodes                                                                   *)

Node(tag, size, depth, data, left, right, start) ==
    [tag |-> tag, refs |-> 1, size |-> size, depth |-> depth,
     balanced |-> tag # "concat", data |-> data,
     left |-> left, right |-> right, start |-> start,
     cstr |-> << >>,       \* the flattened string of a node that is no leaf
     eos |-> tag = "leaf"] \* is the string of a leaf terminated?

FreedNode == [Node("freed", 0, 0, << >>, Nil, Nil, 0) EXCEPT !.refs = 0]
LeafNode(text) == Node("leaf", Len(text), 0, text, Nil, Nil, 0)
FunctionNode(text) == Node("function", Len(text), 0, text, Nil, Nil, 0)
SubstringNode(base, start, len) == Node("substringfn", len, 0, << >>, base, Nil, start)
ConcatenationNode(h, l, r) ==
    Node("concat", h[l].size + h[r].size, Max({h[l].depth, h[r].depth}) + 1, << >>, l, r, 0)

\* The Fibonacci numbers of _S_min_len.
MinLen[i \in Nat] == IF i < 2 THEN i + 1 ELSE MinLen[i - 1] + MinLen[i - 2]
max_size == MinLen[MaxDepth - 1] - 1

\* A short tree that was rebalanced is not so deep that it is rebalanced again.
ASSUME RopeAssumption ==
    /\ {CopyMax, Granularity, MaxDepth, BalanceDepth, FillThreshold} \subseteq Nat \ {0}
    /\ {LazyThreshold, ShortSize, MaxLen} \subseteq Nat
    /\ ShortSize <= MinLen[BalanceDepth - 1] /\ BalanceDepth < MaxDepth
    /\ MaxLen <= max_size

RoundedUpSize(k) == ((k + 1 + Granularity - 1) \div Granularity) * Granularity
AllocatedCapacity(k) == RoundedUpSize(k) - 1

RECURSIVE Flatten(_, _)
Flatten(h, p) ==
    IF p = Nil THEN << >>
    ELSE CASE h[p].tag \in {"leaf", "function"} -> h[p].data
           [] h[p].tag = "concat" -> Flatten(h, h[p].left) \o Flatten(h, h[p].right)
           [] h[p].tag = "substringfn" ->
                SubSeq(Flatten(h, h[p].left), h[p].start + 1, h[p].start + h[p].size)

Size(h, p) == IF p = Nil THEN 0 ELSE h[p].size
Tag(m, p) == m.heap[p].tag
IsLeaf(m, p) == Tag(m, p) = "leaf"

-----------------------------------------------------------------------------
(* Memory                                                                  *)

NoForest == [i \in 0 .. MaxDepth |-> Nil]

\* A call in which the allocation after the first k fails; none makes that many.
Plenty == 1000
Start(k) == [heap |-> heap, ptr |-> Nil, threw |-> FALSE, fuel |-> k,
             forest |-> NoForest, parts |-> << >>, asserts |-> asserts, sizes |-> sizes]

Result(m, p) == [m EXCEPT !.ptr = p]
Throw(m) == [m EXCEPT !.threw = TRUE, !.ptr = Nil]
Expect(m, holds) == [m EXCEPT !.asserts = @ /\ holds]
ExpectUnshared(m) == IF m.threw THEN m ELSE Expect(m, m.heap[m.ptr].refs = 1)
ExpectFresh(m, p) == IF m.ptr = p THEN m ELSE ExpectUnshared(m)

New(m, node) ==
    LET a == Min({b \in 1 .. Len(m.heap) + 1 : b > Len(m.heap) \/ m.heap[b] = FreedNode}) IN
    IF m.threw \/ m.fuel = 0 THEN Throw(m)
    ELSE [m EXCEPT !.heap = SubSeq(@, 1, a - 1) \o << node >> \o SubSeq(@, a + 1, Len(@)),
                   !.fuel = @ - 1, !.ptr = a]

Delete(m, p) == [m EXCEPT !.heap[p] = FreedNode]

\* The count of a freed node is never touched.
Ref(m, p) ==
    IF p = Nil THEN m ELSE [Expect(m, m.heap[p].refs > 0) EXCEPT !.heap[p].refs = @ + 1]

\* Mutant: the string stays.
KeepCString(m, p) == m

\* _M_free_c_string: the size is computed from the node's.
FreeCString(m, p) ==
    LET s == m.heap[p].cstr IN
    IF s = << >> THEN m
    ELSE [m EXCEPT !.heap[p].cstr = << >>, !.sizes = @ /\ Len(s) = m.heap[p].size]

\* _S_unref with _M_free_tree
RECURSIVE Unref(_, _)
Unref(m, p) ==
    IF p = Nil THEN m
    ELSE IF m.heap[p].refs > 1 THEN [m EXCEPT !.heap[p].refs = @ - 1]
    ELSE Unref(Unref(Delete(FreeCString(Expect(m, m.heap[p].refs = 1), p), p),
                     m.heap[p].left), m.heap[p].right)

\* The end of the scope of self-destructing pointers.
Drop(m, ps) == FoldLeft(Unref, m, ps)

\* Mutant: nothing is dropped.
OnThrowNothing(m, ps) == m

\* __STL_UNWIND of functions that drop references
OnThrow(m, ps) == IF m.threw THEN Drop(m, ps) ELSE m

-----------------------------------------------------------------------------
(* Concatenation                                                           *)

RECURSIVE Concat(_, _, _), Balance(_, _)

\* __STL_ROPE_FROM_UNOWNED_CHAR_PTR
NewLeaf(m, text) == IF text = << >> THEN Result(m, Nil) ELSE New(m, LeafNode(text))

LeafConcatCharIter(m, r, text) == New(m, LeafNode(m.heap[r].data \o text))

\* Mutant: in place even if the leaf is shared.
DestrSharedLeafConcatCharIter(m, r, text) ==
    LET leaf == m.heap[r] IN
    IF AllocatedCapacity(leaf.size) < leaf.size + Len(text)
    THEN LeafConcatCharIter(m, r, text)
    ELSE Result([m EXCEPT !.heap[r] = [leaf EXCEPT !.data = @ \o text,
                                                   !.size = @ + Len(text), !.refs = @ + 1]], r)

\* In place if nobody shares the leaf and its block has room.
DestrLeafConcatCharIter(m, r, text) ==
    LET leaf == m.heap[r] IN
    IF leaf.refs > 1 \/ AllocatedCapacity(leaf.size) < leaf.size + Len(text)
    THEN LeafConcatCharIter(m, r, text)
    ELSE Result([m EXCEPT !.heap[r] = [leaf EXCEPT !.data = @ \o text, !.eos = TRUE,
                                                   !.size = @ + Len(text), !.refs = 2]], r)

Rebalanced(b, old) ==
    IF b.threw THEN Delete(b, old)
    ELSE Unref(Expect(b, b.ptr = old \/ {b.heap[old].refs, b.heap[b.ptr].refs} = {1}), old)

TooDeep(node) ==
    node.depth > BalanceDepth /\ (node.size < ShortSize \/ node.depth > MaxDepth)

BalanceIfTooDeep(c) ==
    IF c.threw \/ ~ TooDeep(c.heap[c.ptr]) THEN c ELSE Rebalanced(Balance(c, c.ptr), c.ptr)

\* Takes over the references to l and r, unless it throws.
TreeConcat(m, l, r) == BalanceIfTooDeep(New(m, ConcatenationNode(m.heap, l, r)))

\* _S_tree_concat in its callers' try block
JoinCounted(m, l, r) == OnThrow(TreeConcat(m, l, r), << l, r >>)

\* Mutant: without a reference for the new parent.
JoinResultUncounted(m, l) == IF m.threw THEN m ELSE JoinCounted(m, l, m.ptr)

\* The node that m returns is joined to l.
JoinResult(m, l) == IF m.threw THEN m ELSE JoinCounted(Ref(m, l), l, m.ptr)

\* The last leaf below p, when it is p or p's right child, if text fits in it.
ShortEnd(m, p, text) ==
    LET end == IF Tag(m, p) = "concat" THEN m.heap[p].right ELSE p IN
    IF IsLeaf(m, end) /\ m.heap[end].size + Len(text) <= CopyMax THEN end ELSE Nil

\* A copy of the last leaf with text appended, joined to what is left of it.
ConcatToEnd(m, p, end, text) ==
    IF end = p THEN LeafConcatCharIter(m, end, text)
    ELSE JoinResult(LeafConcatCharIter(m, end, text), m.heap[p].left)

ConcatCharIter(m, r, text) ==
    IF m.threw THEN m
    ELSE IF text = << >> THEN Result(Ref(m, r), r)
    ELSE IF r = Nil THEN NewLeaf(m, text)
    ELSE LET end == ShortEnd(m, r, text) IN
         IF end # Nil THEN ConcatToEnd(m, r, end, text) ELSE JoinResult(NewLeaf(m, text), r)

\* Mutant: r keeps its size.
GrownRightOnly(l, r, end, n) ==
    LET grown == IF l.ptr = end THEN [l EXCEPT !.heap[end].refs = 1] ELSE Unref(l, end)
        changed == [grown EXCEPT !.heap[r].refs = 2, !.heap[r].right = l.ptr]
    IN IF l.threw THEN l ELSE Result(FreeCString(changed, r), r)

\* The right leaf of r, which nobody shares, has grown or is replaced by l's result.
GrownRight(l, r, end, n) ==
    LET grown == IF l.ptr = end THEN [l EXCEPT !.heap[end].refs = 1] ELSE Unref(l, end)
        changed == [grown EXCEPT !.heap[r].refs = 2, !.heap[r].right = l.ptr,
                                 !.heap[r].size = @ + n]
    IN IF l.threw THEN l ELSE Result(FreeCString(changed, r), r)

DestrConcatCharIter(m, r, text) ==
    IF m.threw THEN m
    ELSE IF r = Nil THEN NewLeaf(m, text)
    ELSE IF m.heap[r].refs > 1 THEN ConcatCharIter(m, r, text)
    ELSE IF text = << >> THEN Result(Ref(m, r), r)
    ELSE LET end == ShortEnd(m, r, text) IN
         IF end = r THEN DestrLeafConcatCharIter(m, r, text)
         ELSE IF end # Nil
              THEN GrownRight(DestrLeafConcatCharIter(m, end, text), r, end, Len(text))
         ELSE JoinResult(NewLeaf(m, text), r)

Concat(m, l, r) ==
    IF m.threw THEN m
    ELSE IF l = Nil THEN Result(Ref(m, r), r)
    ELSE IF r = Nil THEN Result(Ref(m, l), l)
    ELSE LET end == ShortEnd(m, l, m.heap[r].data) IN
         IF IsLeaf(m, r) /\ end # Nil THEN ConcatToEnd(m, l, end, m.heap[r].data)
         ELSE JoinCounted(Ref(Ref(m, l), r), l, r)

-----------------------------------------------------------------------------
(* Rebalancing                                                             *)

IsBalanced(node) == node.size >= MinLen[node.depth]
IsAlmostBalanced(node) == node.depth = 0 \/ node.size >= MinLen[node.depth - 1]

SetBalanced(c) ==
    IF c.threw THEN c
    ELSE [c EXCEPT !.heap[c.ptr].balanced = @ \/ IsBalanced(c.heap[c.ptr])]

ConcatAndSetBalanced(m, l, r) == SetBalanced(Concat(m, l, r))

\* Mutant: forest[i] is not cleared.
AbsorbedAndKept(m, i, f, p) == IF m.threw THEN Unref(m, p) ELSE Drop(m, << f, p >>)

\* The tree f of forest[i] is in m's result now; an exception drops p, too.
Absorbed(m, i, f, p) ==
    IF m.threw THEN Unref(m, p) ELSE [Drop(m, << f, p >>) EXCEPT !.forest[i] = Nil]

\* forest[i] is put in front of m's result.
Absorb(m, i, Join(_, _, _)) ==
    IF m.threw \/ m.forest[i] = Nil THEN m
    ELSE Absorbed(Join(m, m.forest[i], m.ptr), i, m.forest[i], m.ptr)

AbsorbAll(m, n, Join(_, _, _)) ==
    FoldLeft(LAMBDA a, i : Absorb(a, i - 1, Join), m, [i \in 1 .. n |-> i])

RECURSIVE Place(_, _)
Placed(a, i, before) ==
    LET node == a.heap[a.ptr]
        checked == Expect(a, /\ before # Nil => IsAlmostBalanced(node)
                             /\ MinLen[i] <= node.size
                             /\ a.forest[i] = Nil)
    IN IF a.threw THEN a
       ELSE IF i = MaxDepth \/ node.size < MinLen[i + 1]
            THEN [checked EXCEPT !.forest[i] = a.ptr]
            ELSE Place(checked, i + 1)
Place(m, i) == Placed(Absorb(m, i, ConcatAndSetBalanced), i, m.forest[i])

\* c is r behind the trees that were too tiny.
PlaceInsertee(c, i, tiny, depth) ==
    IF c.threw THEN Unref(c, tiny)
    ELSE Place(Expect(Unref(c, tiny), /\ IsAlmostBalanced(c.heap[c.ptr])
                                      /\ c.heap[c.ptr].depth <= depth + 1), i)

Insert(m, i, r) ==
    IF m.threw THEN m
    ELSE PlaceInsertee(ConcatAndSetBalanced(m, m.ptr, r), i, m.ptr, m.heap[r].depth)

AddToBucket(m, i, r) == Insert(AbsorbAll(Result(m, Nil), i, ConcatAndSetBalanced), i, r)

AddLeafToForest(m, r) ==
    AddToBucket(m, Min({i \in 0 .. MaxDepth : m.heap[r].size < MinLen[i + 1]}), r)

RECURSIVE AddToForest(_, _)
AddToForest(m, r) ==
    IF m.threw THEN m
    ELSE IF m.heap[r].balanced THEN AddLeafToForest(m, r)
    ELSE AddToForest(AddToForest(Expect(m, Tag(m, r) = "concat"), m.heap[r].left),
                     m.heap[r].right)

\* "rope too long" is thrown outside of the try block: the result is lost.
EndBalance(m, outer) ==
    LET dropped == OnThrow(m, [j \in 1 .. MaxDepth + 1 |-> m.forest[j - 1]])
        fits == m.threw \/ m.heap[m.ptr].depth <= MaxDepth
    IN [IF fits THEN dropped ELSE Throw(m) EXCEPT !.forest = outer]

Balance(m, r) ==
    LET filled == AddToForest([m EXCEPT !.forest = NoForest], r) IN
    EndBalance(AbsorbAll(Result(filled, Nil), MaxDepth + 1, Concat), m.forest)

-----------------------------------------------------------------------------
(* Substrings and replacement                                              *)

\* A lazy substring keeps its base alive.
NewSubstring(m, base, start, len) ==
    LET n == New(m, SubstringNode(base, start, len)) IN
    IF n.threw THEN n
    ELSE Ref(Expect(n, len > 0 /\ start + len <= m.heap[base].size), base)

\* Of l and r, which are dropped at the end
ConcatOwned(m, l, r) == Drop(Concat(m, l, r), << l, r >>)

\* With a part of old in front of position p and one from q on: the result of Join.
RECURSIVE Substring(_, _, _, _)
JoinRight(b, left, Join(_, _, _)) == Join(b, left, b.ptr)
JoinLeft(a, old, q, end, Join(_, _, _)) == JoinRight(Substring(a, old, q, end), a.ptr, Join)

JoinHalves(m, l, r) == Drop(ExpectUnshared(Concat(m, l, r)), << l, r >>)

Substring(m, base, start, endp1) ==
    LET node == m.heap[base]
        end == Min({endp1, node.size})
        mid == m.heap[node.left].size
    IN IF m.threw \/ base = Nil THEN Result(m, Nil)
       ELSE IF endp1 >= node.size /\ start = 0 THEN Result(Ref(m, base), base)
       ELSE IF node.tag = "concat" THEN
            IF end <= mid THEN Substring(m, node.left, start, endp1)
            ELSE IF start >= mid THEN Substring(m, node.right, start - mid, end - mid)
            ELSE JoinLeft(Substring(m, node.left, start, mid), node.right, 0, endp1 - mid,
                          JoinHalves)
       ELSE IF start >= end THEN Result(m, Nil)
       ELSE IF end - start <= LazyThreshold
            THEN NewLeaf(m, SubSeq(Flatten(m.heap, base), start + 1, end))
       ELSE IF node.tag = "substringfn"
            THEN NewSubstring(m, node.left, start + node.start, end - start)
       ELSE NewSubstring(m, base, start, end - start)

\* The left and the right rest of old are joined, with what Fill adds to the left one.
Fill(f, left, right) == Drop(Concat(f, f.ptr, right), << left, right, f.ptr >>)
Around(m, old, p, q, Join(_, _, _)) ==
    JoinLeft(Substring(m, old, 0, p), old, q, Size(m.heap, old), Join)

ReplaceTree(m, old, pos1, pos2, r) ==
    IF old = Nil THEN Result(Ref(m, r), r)
    ELSE IF r = Nil THEN Around(m, old, pos1, pos2, ConcatOwned)
    ELSE Around(m, old, pos1, pos2, LAMBDA b, left, right : Fill(Concat(b, left, r), left, right))

InsertTree(m, old, pos, text) ==
    Around(m, old, pos, pos,
           LAMBDA b, left, right : Fill(ConcatCharIter(b, left, text), left, right))

\* power(base, n, _Rope_Concat_fn): x is doubled for each bit of n, and result
\* is what the bits so far stand for.  Both are owned.
RECURSIVE PowerOf(_, _, _, _)
PowerOf(m, x, result, n) ==
    LET doubled == Drop(Concat(m, x, x), << x >>)
        taken == IF result = Nil THEN Result(Ref(m, x), x)
                 ELSE Drop(Concat(m, result, x), << result >>)
    IN IF m.threw THEN Drop(m, << x, result >>)
       ELSE IF n = 0 THEN Unref(Result(m, result), x)
       ELSE IF n % 2 = 0 THEN PowerOf(doubled, doubled.ptr, result, n \div 2)
       ELSE PowerOf(taken, x, taken.ptr, n - 1)

Copies(n, c) == [i \in 1 .. n |-> c]
ExtendOwned(m, p) == ConcatOwned(m, m.ptr, p)

\* The remainder's leaf is made first and appended last.
Filled(m, n, c) ==
    LET rest == NewLeaf(m, Copies(n % FillThreshold, c))
        base == New(rest, LeafNode(Copies(FillThreshold, c)))
    IN IF n < FillThreshold THEN rest
       ELSE FoldLeft(ExtendOwned, PowerOf(base, base.ptr, Nil, n \div FillThreshold),
                     << rest.ptr >>)

\* A part of a rope, a rope of its own until the end of the call
CutPart(m, old, from, to) ==
    LET part == Substring(m, old, from, to) IN
    IF m.threw THEN m ELSE IF part.threw THEN Drop(part, m.parts)
    ELSE [part EXCEPT !.parts = Append(@, part.ptr)]

\* operator+=, until one of them throws: the rope keeps what it has by then.
Extend(m, p) ==
    LET c == Concat(m, m.ptr, p) IN
    IF m.threw THEN m ELSE IF c.threw THEN [c EXCEPT !.ptr = m.ptr] ELSE Unref(c, m.ptr)

\* The parts, in the given order, are put together as the rope's value.
Assembled(m, order) ==
    LET first == Result(Ref(m, m.parts[1]), m.parts[1])
        all == FoldLeft(LAMBDA a, j : Extend(a, a.parts[j]), first, order)
    IN IF m.threw THEN m ELSE [Drop(all, m.parts) EXCEPT !.threw = FALSE]

\* _Rope_rotate: prefix, suffix, and the two parts that change places
Rotated(m, old, first, middle, last) ==
    Assembled(FoldLeft(LAMBDA a, part : CutPart(a, old, part[1], part[2]), m,
                       << << 0, first >>, << last, Size(m.heap, old) >>,
                          << middle, last >>, << first, middle >> >>),
              << 3, 4, 2 >>)

Child(h, p, i) ==
    LET mid == h[h[p].left].size IN
    IF i >= mid THEN << h[p].right, i - mid >> ELSE << h[p].left, i >>

\* _S_fetch_ptr: are all the nodes above character i unshared, down to a leaf?
RECURSIVE CanWrite(_, _, _)
CanWrite(h, p, i) ==
    /\ h[p].refs = 1
    /\ \/ h[p].tag = "leaf"
       \/ h[p].tag = "concat" /\ LET c == Child(h, p, i) IN CanWrite(h, c[1], c[2])

\* Through that pointer, once the flattened strings on the way are thrown away.
RECURSIVE Write(_, _, _, _)
Write(m, p, i, c) ==
    LET child == Child(m.heap, p, i) IN
    IF IsLeaf(m, p) THEN [m EXCEPT !.heap[p].data[i + 1] = c]
    ELSE Write(FreeCString(m, p), child[1], child[2], c)

\* _Rope_char_ref_proxy::operator= when the character cannot be written in place
RebuildAround(m, old, i, c) ==
    Around(m, old, i, i + 1,
           LAMBDA b, left, right :
               Fill(ExpectFresh(DestrConcatCharIter(b, left, << c >>), left), left, right))

-----------------------------------------------------------------------------
(* The operations of class rope.  Each may fail at any allocation.         *)

Init ==
    /\ heap = << >>
    /\ tree = [x \in Ropes |-> Nil]
    /\ asserts = TRUE /\ sizes = TRUE

\* The call for rope x ends with m: its new tree replaces the old one, or, if
\* there was an exception, nothing.
Finish(x, m) ==
    LET done == IF m.threw THEN m ELSE Unref(m, tree[x]) IN
    /\ heap' = done.heap
    /\ tree' = IF m.threw THEN tree ELSE [tree EXCEPT ![x] = m.ptr]
    /\ asserts' = done.asserts /\ sizes' = done.sizes

\* It has all the allocations it needs, or one of them fails.
Call(x, Operation(_)) ==
    LET after == [k \in Nat |-> Operation(Start(k))]
        used == Plenty - after[Plenty].fuel
    IN /\ Size(after[Plenty].heap, after[Plenty].ptr) <= MaxLen
       /\ \E m \in {after[k] : k \in 0 .. used} : Finish(x, m)

Assign(x, y) == x # y /\ Call(x, LAMBDA m : Result(Ref(m, tree[y]), tree[y]))
Clear(x) == Call(x, LAMBDA m : Result(m, Nil))
Construct(x, text) == Call(x, LAMBDA m : NewLeaf(m, text))
ConstructFunction(x, text) == text # << >> /\ Call(x, LAMBDA m : New(m, FunctionNode(text)))
\* rope(_CharT): the terminator is not stored.
ConstructChar(x, c) ==
    Call(x, LAMBDA m : New(m, [LeafNode(<< c >>) EXCEPT !.eos = FALSE]))

ConstructFill(x, n, c) == n > 0 /\ Call(x, LAMBDA m : Filled(m, n, c))

\* append, push_back; an argument of append is no longer needed at the end.
AppendChars(x, text) == Call(x, LAMBDA m : DestrConcatCharIter(m, tree[x], text))
AppendRope(x, y) == Call(x, LAMBDA m : Concat(m, tree[x], tree[y]))
PushFront(x, c) ==
    Call(x, LAMBDA m : JoinRight(NewLeaf(m, << c >>), tree[x],
                                 LAMBDA a, t, l : Drop(Concat(a, l, t), << l >>)))

\* substr, pop_back, pop_front, with the result assigned to x
Substr(x, y, p, n) == Call(x, LAMBDA m : Substring(m, tree[y], p, p + n))

Replace(x, p, n, y) == Call(x, LAMBDA m : ReplaceTree(m, tree[x], p, p + n, tree[y]))
Erase(x, p, n) == Call(x, LAMBDA m : ReplaceTree(m, tree[x], p, p + n, Nil))
\* erase(p) erases as many characters as p + 1 says, for a size.
EraseOne(x, p) == Erase(x, p, p + 1)

InsertChars(x, p, text) == Call(x, LAMBDA m : InsertTree(m, tree[x], p, text))

\* In place, the tree stays the rope's: Finish drops one reference, so add one.
SetChar(x, p, c) ==
    Call(x, LAMBDA m :
        IF CanWrite(heap, tree[x], p)
        THEN Result(Ref(Write(m, tree[x], p, c), tree[x]), tree[x])
        ELSE RebuildAround(m, tree[x], p, c))

Rotate(x, first, middle, last) ==
    /\ first <= middle /\ middle <= last
    /\ Call(x, LAMBDA m : Rotated(m, tree[x], first, middle, last))

\* Neither tree is looked at.
Swap(x, y) ==
    /\ tree' = [tree EXCEPT ![x] = tree[y], ![y] = tree[x]]
    /\ UNCHANGED << heap, asserts, sizes >>

Rebalance(x) == tree[x] # Nil /\ Call(x, LAMBDA m : Balance(m, tree[x]))

Flattenable(x) == tree[x] # Nil /\ heap[tree[x]].tag # "leaf"

CStr(x) ==
    /\ Flattenable(x) /\ heap[tree[x]].cstr = << >>
    /\ heap' = [heap EXCEPT ![tree[x]].cstr = Flatten(heap, tree[x])]
    /\ UNCHANGED << tree, asserts, sizes >>

DeleteCStr(x) ==
    LET m == FreeCString(Start(0), tree[x]) IN
    /\ Flattenable(x) /\ heap[tree[x]].cstr # << >>
    /\ heap' = m.heap /\ sizes' = m.sizes
    /\ UNCHANGED << tree, asserts >>

\* The old tree is given up before the new leaf is allocated.
ReplaceWithCStr(x) ==
    /\ Flattenable(x)
    /\ \E k \in IF ReplaceMayThrow THEN {0, 1} ELSE {1} :
         LET n == New(Unref(Start(k), tree[x]), LeafNode(Flatten(heap, tree[x]))) IN
         /\ heap' = n.heap
         /\ tree' = IF n.threw THEN tree ELSE [tree EXCEPT ![x] = n.ptr]
         /\ sizes' = n.sizes /\ asserts' = n.asserts

\* The operations that give x another value, with texts of the client and fills of at
\* most longest characters.
Update(x, texts, longest) ==
    \/ Clear(x) \/ Rebalance(x) \/ ReplaceWithCStr(x)
    \/ \E y \in Ropes : Assign(x, y) \/ AppendRope(x, y)
    \/ \E text \in texts :
         \/ Construct(x, text) \/ ConstructFunction(x, text) \/ AppendChars(x, text)
         \/ \E p \in 0 .. Size(heap, tree[x]) : InsertChars(x, p, text)
    \/ \E c \in Chars :
         \/ ConstructChar(x, c) \/ PushFront(x, c)
         \/ \E n \in 1 .. longest : ConstructFill(x, n, c)
         \/ \E p \in 1 .. Size(heap, tree[x]) : SetChar(x, p - 1, c)
    \/ \E y \in Ropes : \E p, n \in 0 .. Size(heap, tree[y]) : Substr(x, y, p, n)
    \/ \E p \in 0 .. Size(heap, tree[x]) : \E n \in 0 .. Size(heap, tree[x]) - p :
         Erase(x, p, n) \/ \E y \in Ropes : Replace(x, p, n, y)
    \/ \E p \in 1 .. Size(heap, tree[x]) : EraseOne(x, p - 1)

Next ==
    \E x \in Ropes :
        \/ Update(x, Texts, MaxLen) \/ CStr(x) \/ DeleteCStr(x)
        \/ \E y \in Ropes : Swap(x, y)
        \/ \E p, q, r \in 0 .. Size(heap, tree[x]) : Rotate(x, p, q, r)

Spec == Init /\ [][Next]_vars

-----------------------------------------------------------------------------
(* Properties                                                              *)

Nodes == {a \in DOMAIN heap : heap[a] # FreedNode}

TypeOK ==
    /\ \A a \in Nodes :
         /\ heap[a].tag \in {"leaf", "concat", "function", "substringfn"}
         /\ heap[a].refs > 0 /\ heap[a].size > 0
         /\ {heap[a].left, heap[a].right} \subseteq Nodes \union {Nil}
    /\ \A x \in Ropes : tree[x] \in Nodes \union {Nil}
    /\ asserts \in BOOLEAN /\ sizes \in BOOLEAN

\* The pointers to node a from ropes and from other nodes
References(a) ==
    Cardinality({x \in Ropes : tree[x] = a})
      + Cardinality({b \in Nodes : heap[b].left = a})
      + Cardinality({b \in Nodes : heap[b].right = a})

\* Sizes and depths, which the nodes keep redundantly, are right although leaves
\* grow in place; a flag that says balanced is never wrong; no tree is deeper
\* than the arrays that are indexed by depth.
TreesConsistent ==
    \A a \in Nodes :
        LET node == heap[a] IN
        /\ node.size = Len(Flatten(heap, a))
        /\ node.tag = "concat" =>
             /\ node.size = heap[node.left].size + heap[node.right].size
             /\ node.depth = Max({heap[node.left].depth, heap[node.right].depth}) + 1
        /\ node.depth <= MaxDepth
        /\ node.balanced => IsBalanced(node)

\* Ropes are values: an operation changes its own rope only, as the operation
\* on strings does, or nothing at all.
Strings == INSTANCE AbstractStrings WITH string <- [x \in Ropes |-> Flatten(heap, tree[x])]
ImplementsStrings == Strings!StringsSpec

\* A C string is deallocated with the size it was allocated with.
SizesAgree == sizes

\* The string of a leaf, which c_str returns, is terminated.
LeavesTerminated == \A a \in Nodes : heap[a].eos \/ heap[a].tag # "leaf"
=============================================================================
