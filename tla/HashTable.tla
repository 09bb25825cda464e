----------------------------- MODULE HashTable ------------------------------
(***************************************************************************)
(* The hash tables of stl_hashtable.h, which hash_set, hash_map and their  *)
(* multi forms are made of.  A bucket is the sequence of the elements in    *)
(* its list of nodes.  Allocations fail, and so does the hash function     *)
(* while the nodes move to new buckets.                                    *)
(***************************************************************************)
EXTENDS Naturals, FiniteSets, SequencesExt, TLC

CONSTANTS Element,
          key,             \* [Element -> keys], what _ExtractKey gives
          hash,            \* [Element -> Nat], of the key
          Tables,
          Primes,          \* __stl_prime_list, ascending
          Null             \* the end of an iteration

VARIABLES table,           \* [Tables -> [buckets, nodes, count, dropped]]
          call             \* the last call

vars == << table, call >>

SameKey(e, f) == key[e] = key[f]
Fresh(n) == [b \in 1 .. n |-> << >>]

\* __stl_next_prime, with the last prime for what is beyond it
NextSize(n) ==
    IF \A i \in DOMAIN Primes : Primes[i] < n THEN Primes[Len(Primes)]
    ELSE Primes[CHOOSE i \in DOMAIN Primes :
                  Primes[i] >= n /\ \A j \in 1 .. i - 1 : Primes[j] < n]

\* nodes are the elements that have a node; dropped counts those that a resize
\* deleted without counting them, which no variable of the code does.
EmptyTable(n) == [buckets |-> Fresh(n), nodes |-> {}, count |-> 0, dropped |-> 0]

Init ==
    /\ table = [x \in Tables |-> EmptyTable(NextSize(1))]
    /\ call = [op |-> "construct", turn |-> 0]

-----------------------------------------------------------------------------
(* Operations on a table t *)

BucketOf(e, n) == (hash[e] % n) + 1
Bucket(t, e) == BucketOf(e, Len(t.buckets))
Chain(t, e) == t.buckets[Bucket(t, e)]

\* The nodes in the order in which a resize moves them.
InOrder(t) == FlattenSeq(t.buckets)

\* resize: the first k nodes have moved, each to the front of its new bucket.
Grows(t, hint) == hint > Len(t.buckets) /\ NextSize(hint) > Len(t.buckets)

MovedTo(moved, n) == [b \in 1 .. n |-> Reverse(SelectSeq(moved, LAMBDA e : BucketOf(e, n) = b))]

Resized(t, hint) ==
    IF Grows(t, hint) THEN [t EXCEPT !.buckets = MovedTo(InOrder(t), NextSize(hint))] ELSE t

\* The hash function throws after k nodes: those are deleted, but not uncounted.
ResizeFails(t, k) ==
    LET moved == ToSet(SubSeq(InOrder(t), 1, k)) IN
    [t EXCEPT !.buckets = [b \in DOMAIN @ |-> SelectSeq(@[b], LAMBDA e : e \notin moved)],
              !.nodes = @ \ moved, !.dropped = @ + k]

\* A new node becomes the first one of its bucket, or the one after position i.
Link(t, e, i) ==
    [t EXCEPT !.buckets[Bucket(t, e)] = InsertAt(@, i + 1, e),
              !.nodes = @ \union {e}, !.count = @ + 1]

FirstEqual(chain, e) == SelectInSeq(chain, LAMBDA f : SameKey(e, f))

InsertUniqueNoresize(t, e) == IF FirstEqual(Chain(t, e), e) = 0 THEN Link(t, e, 0) ELSE t
InsertEqualNoresize(t, e) == Link(t, e, FirstEqual(Chain(t, e), e))

\* Nodes of one bucket are unlinked, deleted and uncounted.
Delete(t, b, gone) ==
    [t EXCEPT !.buckets[b] = SelectSeq(@, LAMBDA e : e \notin gone),
              !.nodes = @ \ gone, !.count = @ - Cardinality(gone)]

EraseKey(t, e) ==
    Delete(t, Bucket(t, e), {f \in ToSet(Chain(t, e)) : SameKey(e, f)})

EraseNode(t, e) == Delete(t, Bucket(t, e), {e} \intersect ToSet(Chain(t, e)))

\* _M_erase_bucket: from first, or the front, up to last, or the end.
Place(chain, e) == SelectInSeq(chain, LAMBDA f : f = e)
EraseBucket(t, b, from, to) == Delete(t, b, ToSet(SubSeq(t.buckets[b], from, to)))

EraseFrom(t, first) == EraseBucket(t, Bucket(t, first), Place(Chain(t, first), first), Len(Chain(t, first)))
EraseUpTo(t, last) ==
    IF last = Null THEN t ELSE EraseBucket(t, Bucket(t, last), 1, Place(Chain(t, last), last) - 1)
EraseBetween(t, from, to) ==
    FoldLeftDomain(LAMBDA u, b : IF b \in from + 1 .. to - 1 THEN EraseBucket(u, b, 1, Len(u.buckets[b])) ELSE u,
                   t, t.buckets)

EndBucket(t, last) == IF last = Null THEN Len(t.buckets) + 1 ELSE Bucket(t, last)

EraseRange(t, first, last) ==
    IF first = last THEN t
    ELSE IF Bucket(t, first) = EndBucket(t, last)
    THEN EraseBucket(t, Bucket(t, first), Place(Chain(t, first), first), Place(Chain(t, first), last) - 1)
    ELSE EraseUpTo(EraseBetween(EraseFrom(t, first), Bucket(t, first), EndBucket(t, last)), last)

Cleared(t) == [EmptyTable(Len(t.buckets)) EXCEPT !.nodes = t.nodes \ ToSet(InOrder(t))]

\* operator=: clear, then _M_copy_from.  Its bucket vector is emptied first and is
\* left so if it cannot grow; when a node cannot be made, those made are deleted.
CopyWithoutBuckets(t) == [Cleared(t) EXCEPT !.buckets = << >>]
CopyFails(t, from) == [Cleared(t) EXCEPT !.buckets = Fresh(Len(from.buckets))]
Copied(t, from) ==
    [Cleared(t) EXCEPT !.buckets = from.buckets, !.nodes = @ \union ToSet(InOrder(from)),
                       !.count = from.count,
                       !.dropped = from.dropped]

\* operator++ and begin
FirstFrom(t, b) ==
    IF \A c \in b .. Len(t.buckets) : t.buckets[c] = << >> THEN Null
    ELSE t.buckets[CHOOSE c \in b .. Len(t.buckets) :
                     t.buckets[c] # << >> /\ \A d \in b .. c - 1 : t.buckets[d] = << >>][1]

Begin(t) == FirstFrom(t, 1)
Increment(t, e) ==
    IF Place(Chain(t, e), e) < Len(Chain(t, e)) THEN Chain(t, e)[Place(Chain(t, e), e) + 1]
    ELSE FirstFrom(t, Bucket(t, e) + 1)

\* Mutant: the next buckets are not looked at.
EqualEndOfBucket(t, e, i) ==
    LET chain == Chain(t, e)
        after == SelectInSubSeq(chain, i, Len(chain), LAMBDA f : ~SameKey(e, f))
    IN IF after = 0 THEN Null ELSE chain[after]

\* equal_range: from the first equal element to the first one after it that is not.
EqualEnd(t, e, i) ==
    LET chain == Chain(t, e)
        after == SelectInSubSeq(chain, i, Len(chain), LAMBDA f : ~SameKey(e, f))
    IN IF after = 0 THEN FirstFrom(t, Bucket(t, e) + 1) ELSE chain[after]

EqualRange(t, e) ==
    IF FirstEqual(Chain(t, e), e) = 0 THEN << Null, Null >>
    ELSE << Chain(t, e)[FirstEqual(Chain(t, e), e)], EqualEnd(t, e, FirstEqual(Chain(t, e), e)) >>

-----------------------------------------------------------------------------
(* Calls *)

\* The call c is made, and table x becomes t.
Return(x, t, c) ==
    table' = [table EXCEPT ![x] = t] /\ call' = c @@ [on |-> x, turn |-> 1 - call.turn]

Has(x) == table[x].buckets # << >>
Room(x) == Resized(table[x], table[x].count + 1)

\* insert_unique, insert_equal and find_or_insert grow the table first.
CallInsertUnique(x, e) ==
    Return(x, InsertUniqueNoresize(Room(x), e), [op |-> "insert_unique", element |-> e])
CallInsertEqual(x, e) ==
    Return(x, InsertEqualNoresize(Room(x), e), [op |-> "insert_equal", element |-> e])

\* Also the end of an insertion whose node cannot be made.
CallResize(x, hint) == Return(x, Resized(table[x], hint), [op |-> "resize"])

\* Only a call of the hash function can throw, when a node is about to move.
CallResizeThrows(x, hint, k) ==
    /\ Grows(table[x], hint) /\ k < Cardinality(table[x].nodes)
    /\ Return(x, ResizeFails(table[x], k),
              [op |-> "resize throws", elements |-> ToSet(SubSeq(InOrder(table[x]), 1, k))])

\* Range insertion resizes once and then inserts without resizing.
CallInsertNoresize(x, e) ==
    /\ Has(x)
    /\ \/ Return(x, InsertUniqueNoresize(table[x], e), [op |-> "insert_unique", element |-> e])
       \/ Return(x, InsertEqualNoresize(table[x], e), [op |-> "insert_equal", element |-> e])

\* In a table without buckets the remainder is undefined.
CallEraseKey(x, e) ==
    Has(x) /\ Return(x, EraseKey(table[x], e), [op |-> "erase_key", element |-> e])

CallErase(x, e) == Return(x, EraseNode(table[x], e), [op |-> "erase", elements |-> {e}])

CallEraseRange(x) ==
    LET order == InOrder(table[x]) \o << Null >> IN
    \E i, j \in DOMAIN order :
        /\ i <= j
        /\ Return(x, EraseRange(table[x], order[i], order[j]),
                  [op |-> "erase", elements |-> ToSet(SubSeq(order, i, j - 1))])

CallClear(x) == Return(x, Cleared(table[x]), [op |-> "clear"])

CallAssign(x, y) ==
    /\ x # y
    /\ \/ Return(x, Copied(table[x], table[y]), [op |-> "assign", from |-> y])
       \/ /\ Len(table[y].buckets) > Len(table[x].buckets)
          /\ Return(x, CopyWithoutBuckets(table[x]), [op |-> "assign throws"])
       \/ /\ table[y].nodes # {}
          /\ Return(x, CopyFails(table[x], table[y]), [op |-> "assign throws"])

CallSwap(x, y) ==
    /\ x # y
    /\ table' = [table EXCEPT ![x] = table[y], ![y] = table[x]]
    /\ call' = [op |-> "swap", on |-> x, from |-> y, turn |-> 1 - call.turn]

Next ==
    \E x \in Tables :
        \/ \E e \in Element \ table[x].nodes :
             CallInsertUnique(x, e) \/ CallInsertEqual(x, e) \/ CallInsertNoresize(x, e)
        \/ \E hint \in 1 .. Cardinality(Element) + 1 :
             \/ CallResize(x, hint)
             \/ \E k \in 0 .. Cardinality(Element) : CallResizeThrows(x, hint, k)
        \/ \E e \in Element : CallEraseKey(x, e)
        \/ \E e \in table[x].nodes : CallErase(x, e)
        \/ CallEraseRange(x) \/ CallClear(x)
        \/ \E y \in Tables : CallAssign(x, y) \/ CallSwap(x, y)

Spec == Init /\ [][Next]_vars

-----------------------------------------------------------------------------
(* Properties *)

TypeOK ==
    \A x \in Tables :
        /\ table[x].nodes \subseteq Element
        /\ ToSet(InOrder(table[x])) \subseteq Element
        /\ table[x].count \in Nat /\ table[x].dropped \in Nat

\* Every element is in the bucket of its hash value for the number of buckets
\* there is now, elements with equal keys are next to one another, and an
\* iteration passes every element once and ends.
WellFormed ==
    \A x \in Tables :
        LET t == table[x]
            order == InOrder(t) \o << Null >>
        IN /\ \A b \in DOMAIN t.buckets : \A i, j \in DOMAIN t.buckets[b] :
                LET e == t.buckets[b][i]  f == t.buckets[b][j] IN
                /\ Bucket(t, e) = b
                /\ SameKey(e, f) => \A k \in i .. j : SameKey(e, t.buckets[b][k])
           /\ Begin(t) = order[1]
           /\ \A i \in 1 .. Len(order) - 1 : Increment(t, order[i]) = order[i + 1]

\* Every node is in one bucket once.  The count is theirs, but for those that the
\* failed resizes dropped: whatever threw, nothing else is lost.
NothingLost ==
    \A x \in Tables :
        /\ ToSet(InOrder(table[x])) = table[x].nodes
        /\ Len(InOrder(table[x])) = Cardinality(table[x].nodes)
        /\ table[x].count = Cardinality(table[x].nodes) + table[x].dropped

\* equal_range is the elements with the key, and nothing else.
SearchesAgree ==
    \A x \in Tables : \A e \in Element :
        LET order == InOrder(table[x]) \o << Null >>
            range == EqualRange(table[x], e)
        IN Has(x) =>
             {order[i] : i \in Place(order, range[1]) .. Place(order, range[2]) - 1}
               = {f \in table[x].nodes : SameKey(e, f)}

\* The tables are the containers that their calls say.
Sets == INSTANCE AbstractSets WITH Containers <- Tables,
                                   content <- [x \in Tables |-> table[x].nodes]
ImplementsSets == Sets!SetsSpec
=============================================================================
