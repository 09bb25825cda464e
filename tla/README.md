# A verification development for the SGI STL sources

The repository is an annotated copy of the SGI Standard Template Library 3.3
(`src/SGI-STL V3.3/`), with small demonstration programs (`SGI-STL Test/`,
`My SGI_STL Test/`) and the beginning of a rewrite (`MTL V0.1/`). The library is
header only. What it contains that is worth a model is of three kinds:

* code that several threads enter: the spin lock, the two node allocators, the
  reference counts and the cached C string of `rope`;
* data structures with an invariant that every operation has to restore, also
  when an allocation or an element's copy constructor throws;
* algorithms whose result can be compared with a definition.

This file says what the system is made of, which module models which part, what
each run of TLC checks, what TLAPS proves, and what is left. File names without
a directory are in `src/SGI-STL V3.3/`.

## 1. Inventory

### How the parts interact

```
  clients
    |  calls                                   several threads
    v                                               |
  adaptors (stack, queue, priority_queue)           |
    v                                               v
  containers: tree, hashtable, vector, deque,     rope  (trees of shared nodes)
              list, slist, string, bits             |  reference counts, C string
    |  construct / destroy / uninitialized_*        |
    v                                               v
  elements (copies that throw)                _Refcount_Base, _Atomic_swap
    |  simple_alloc                                 |
    v                                               |
  __default_alloc_template  or  _Pthread_alloc_template
    |          \                     |
    |           _STL_auto_lock       |  pthread keys, mutex
    v                 v              v
  malloc_alloc     _STL_mutex_lock   malloc_alloc  ->  malloc, out-of-memory handler
```

There are no messages and no persistent state: parts interact by calls, by
exceptions that pass through the caller's handlers, and, between threads, by
the shared words listed below.

### Components

| component | state | operations | what is hard | what makes it correct |
|---|---|---|---|---|
| spin lock `_STL_mutex_lock` (`stl_threads.h:219-341`) | the lock word; two hints `__max`, `__last` shared by all locks | `_M_acquire_lock`, `_M_release_lock` | every access interleaves; the hints are unsynchronised; sleeping without a wake-up | one owner; a free lock with waiters is granted; bounded spins |
| node allocator `__default_alloc_template` over `malloc_alloc` (`stl_alloc.h`) | free lists, pool, heap size, the handler | `allocate`, `deallocate`, `reallocate`, `_S_refill`, `_S_chunk_alloc`, `_S_oom_malloc` | leftovers, larger lists searched when `malloc` fails, an exception in the middle, threads | each byte has one owner, none is lost, `bad_alloc` is the last resort, calls end |
| per-thread allocator `_Pthread_alloc_template` (`pthread_alloc`) | free lists per state, a stack of recycled states, thread-specific data, a shared pool | the same, and `_S_get_per_thread_state`, `_S_destructor` at thread exit | lock given up between two passes, states that outlive threads, blocks freed by another thread, `malloc_alloc` and `pthread_setspecific` failing | a state has at most one thread; each byte has one owner |
| shared rope nodes (`stl_rope.h`, `ropeimpl.h`, `_Refcount_Base` of `stl_threads.h`) | reference count, `_M_c_string` | copy, destroy, `c_str`, `delete_c_str` | two threads flatten at once; the swap that loses | count exact, node and strings freed once, none lost, a returned string stays valid |
| rope trees (`stl_rope.h`, `ropeimpl.h`) | a graph of leaves, concatenations, functions and substrings, shared by ropes | all of class `rope` | in-place growth of what nobody shares, lazy substrings, rebalancing, an allocation failing inside any of these | ropes are values, counts exact, redundant sizes and caches right, the code's own assertions |
| rope iterators (`stl_rope.h`, `ropeimpl.h:36-300`) | position, buffer, the lower end of the path and its directions, for mutable ones a counted root | `++`, `+=`, dereference, copy, conversion | a buffer and a path that outlive the tree they describe; two kinds of which one holds a count | what an iterator, `fetch`, `find` and the pieces of a tree read is the rope's string |
| red-black trees (`stl_tree.h`), `set`, `map`, `multiset`, `multimap` | linked nodes with colours, header, count | insert with and without hint, erase, range erase, copy, searches | rotations in mirrored cases, a copy that throws, hints | order, colours, ends, count; what the calls promise |
| hash tables (`stl_hashtable.h`), `hash_set`, `hash_map` | buckets of nodes, count | insert, erase, `resize`, copy, `equal_range` | moving nodes while the hash function throws | each node in the bucket of its key, equal keys adjacent |
| vectors (`stl_vector.h`) and elements (`stl_construct.h`, `stl_uninitialized.h`) | one block, its size | insert, erase, `resize`, `assign`, `reserve` | arguments inside the vector, copies that throw | exactly the cells before `_M_finish` are alive |
| deques (`stl_deque.h`) | map of nodes, two iterators | push, pop, insert, erase, `assign`, construct | map recentred or reallocated, shorter side moves, copies that throw | the class invariants of `stl_deque.h:36-60` |
| lists (`stl_list.h`, `stl_slist.h`) | linked nodes | insert, erase, `assign`, `splice`, `merge`, `sort`, `unique`, `remove`, `reverse` | nodes move between lists; comparisons, copies and allocations throw; arguments are elements | links agree, nothing lost, elements keep their nodes |
| bit vectors (`stl_bvector.h`), `bitset` | words of bits, iterators as word and offset | insert, erase, `resize`, shifts, searches, conversions | steps backwards, the unused bits of the last word | as for sequences; unused bits are 0 |
| strings (`string`) | a buffer with a terminator | insert, erase, `replace`, `reserve`, searches | the terminator crosses from raw into constructed memory; arguments from the string itself | as for sequences, and the terminator is there; searches find what the string has |
| `priority_queue` (`stl_queue.h`), `stack`, `queue` | a vector kept as a heap | push, pop | anything in it throws | a heap, the bag of what was pushed |
| algorithms that rearrange or search (`stl_algo.h`, `stl_heap.h`, parts of `stl_algobase.h`) | none; a client's heap, and whatever buffer `get_temporary_buffer` gives | sorts, heaps, merges, partitions, `rotate`, permutations, shuffles, `remove`, `unique`, searches, set operations | loops without a guard that rely on an earlier pass, limits on lengths and depths, buffers that are too small, an iterator category that selects another algorithm | results equal their definitions, no loop leaves its range, stable ones keep the order of equal elements |
| `stl_numeric.h`, comparisons of ranges (`stl_algobase.h:502-644`) | none | sums, differences, `power`, `mismatch`, lexicographical comparisons | results written over the arguments; ranges that end at once | results equal their definitions |
| `valarray` | elements | subsets by slice, gslice, mask and index; `shift`, `cshift`; arithmetic | carries of a gslice through several dimensions, negative distances | the indices of a subset, in order |
| temporary buffers (`stl_tempbuf.h`) | a buffer | get, give back | fewer elements than asked for | algorithms stay inside of it |
| other loops over elements, iterators, functors, traits, concept checks, `limits`, `stl_config.h` | none of their own | forwarding | settled by the compiler | out of scope, see section 7 |
| demonstration programs, the rewrite | none | print results | | not modelled |

`PROJECT.json` lists the components with their status and, under `hazards`, the
lines where a change would be hard to test, with the property that would notice
it or the reason why none does.

## 2. The modules

| module | role |
|---|---|
| `AbstractLock` | what a client of a lock sees: waiting threads, a holder |
| `MutexLock` | the spin lock |
| `AbstractAllocator` | blocks that clients hold and that never overlap |
| `NodeAlloc`, `NodeAllocProofs`, `MCNodeAlloc` | `__default_alloc_template` with `malloc_alloc`, its theorems, its instance |
| `PthreadAlloc`, `PthreadAllocProofs`, `MCPthreadAlloc` | `_Pthread_alloc_template`, its theorems, its instance |
| `Tilings` | what the proofs about both allocators need of numbers, free lists, and pieces of memory that tile chunks |
| `RopeSharing` | one rope node under several threads |
| `ThreadProofs` | the theorems about both: what words that threads share promise |
| `AbstractStrings` | strings that no operation on another one changes |
| `Rope`, `RopeIterators`, `MCRope` | rope trees; the iterators over them; the instances of both |
| `AbstractSets` | what sets, maps and their hashed counterparts promise |
| `AbstractSequences` | what sequence containers promise, exceptions included |
| `Elements`, `ElementsProofs` | raw memory, lifetimes, copies and allocations that throw; lemmas on what each of its operations does |
| `RbTree`, `HashTable`, `Vector`, `Deque` | the containers |
| `VectorProofs`, `DequeProofs` | the theorems about vectors and about deques |
| `AbstractLists` | what lists promise: of nodes, not only of values |
| `ListNodes`, `List`, `Slist` | lists, with sorting and merging |
| `BitVector`, `Bitset` | `vector<bool>` and `bitset` |
| `BasicString`, `BasicStringProofs`, `StringSearch` | `basic_string`: its buffer, the theorems about it; its searches and comparisons |
| `PriorityQueue` | `priority_queue` over the heaps of `Heaps` |
| `MCContainers` | the instances of all containers, composed into one run |
| `AbstractAlgorithms` | what each call that changes a range promises |
| `Heaps`, `Sorting`, `Merging`, `Rearranging`, `Searching` | the algorithms, as operators on sequences |
| `Numeric` | `stl_numeric.h`, comparisons of ranges, subsets and shifts of valarrays |
| `Algorithms`, `MCAlgorithms` | calls of them on one range, with a client's heap; the instance |

Names of the code are kept (`_S_free_list`, `__max`, `_M_ref_count`) where a
variable of the model is a variable of the code; `PROJECT.json` maps every
definition to its lines.

### MutexLock

Every access to a shared word is one action, in the order of
`_M_acquire_lock`: `TryOnce` (the swap of the fast path), `ReadMax`,
`ReadLast`, `SpinOn` and `SeesFree` (a pass of the spin loop that does not, or does, try the
swap), `SpinSwap`, `RecordLast`, `RecordMax`, `SpinExhausted`, `LowerMax`,
`SleepSwap`, `Sleep`; `ReleaseLock` is the store of `_M_release_lock`. `pc[t]`
is where thread `t` is; `__my_spin_max`, `__my_last_spins` and `__i` are the
locals. `_Atomic_swap` is atomic, as each of its implementations is meant to
be. The model is sequentially consistent.

### NodeAlloc

Memory is a range of byte addresses; `heap` is what `malloc` gave, `live` what
clients hold with the size they asked for. The node lock is a variable: what
runs with it held (`PopNode`, `RefillEmptyList`, `ServeFromPool`, `GetChunk`,
`TakeLargerNode`, `LinkNodes`) is divided into actions where the code calls another
function, because `malloc_alloc` is entered with the lock still held and the
out-of-memory handler may be changed by a thread that does not take it.
`malloc` gives the first fit or fails, by choice; the handler gives back a
block of `outside`. Sizes above `_MAX_BYTES` go straight to `malloc_alloc`.

### PthreadAlloc

`__free_list[s]` are the lists of per-thread state `s`; `specific[t]` is what
`pthread_getspecific` returns; `free_states` is the stack of recycled states. A
section that holds the mutex is one step, a thread's work on its own state is one step.
`_S_chunk_alloc` is two sections, since the code gives up the lock before its
second pass. `ThreadExit` runs `_S_destructor`, and a new thread of the same
name may begin at any time. `malloc_alloc` gives memory or throws.
`ThrowsWithLeftover` and `SetspecificFails` are switches for two failures, the
first of which breaks the allocator (section 5).

### RopeSharing

One node whose C string is not its data. `rope` is the set of threads that have
a rope with this node; counting is atomic (`_Refcount_Base`), `c_str` is
`CStr` (read the pointer), `Flatten` (allocate), `SwapIn` (`_Atomic_swap_ptr`)
and `FreeReplaced`; `delete_c_str`, which the documentation restricts, is called
by a thread with the only rope, in its two steps.

### Rope

The functions of the code are operators on a record `m`, the memory while a
call runs, and a call is one action, as only one thread is modelled. `Call(x,
Operation)` runs the operation with every number of allocations that succeed
before one fails; after the exception the functions do nothing, as the code
does, except in its handlers. Sharing decides what is changed in place
(`DestrConcatCharIter`, `Write`), `Balance` with its forest is
`_S_balance`. Asserted conditions set `asserts` to FALSE if they fail. The
constants keep the relations of the real ones: `ShortSize <= MinLen[BalanceDepth - 1]`
(1000 and 10946 in the code), `MaxLen <= max_size`. `rope(n, c)` builds a tree by
`power` (`PowerOf`); `Update` is what a client does to one rope, `Next` adds what two
ropes do together. `rotate` is three assignments of which each may throw: it is the one
call of which `AbstractStrings` does not promise that it then changes nothing.

### RopeIterators

`iter[i]` has the fields of the code: the rope (of a mutable iterator), `root`, `pos`, `leafpos`, `path`
(`_M_path_end` up to `_M_leaf_index`), `dirs` (`_M_path_directions`) and `buf`.
A pointer to characters is an offset into what it points to: a leaf, the flattened string
of the root, or the iterator's own `_M_tmp_buf`, whose characters are
kept, as they may become stale. `SetCache`, `SetCacheForIncr`, `SetBuf` and the increments are
the functions of `ropeimpl.h`; `Check` is `_M_check` of a mutable iterator, which
notices by the root that its rope has another tree. A mutable iterator counts
as a reference to its root (`References`), a const one does not, and ends when
its rope is changed (`Invalidate`), as nothing keeps its tree. Clients do not
copy an iterator whose buffer is its own, and do not delete a flattened string that an
iterator points into (section 5). `Fetch`, `Pieces` (`_S_apply_to_pieces`) and `Find` are
the ways to read a tree without an iterator.

### Elements, Vector, Deque

`m.mem` maps blocks to cells that are `Raw` or hold a value. Allocations and
copies use up `m.fuel`, and a call is tried with every amount: so an exception comes
from every point at which one can come. `m.bad` records an element constructed over
another, read, assigned to or destroyed where there is none, and memory that is given back with
elements in it. Arguments may be elements of the container that is called. `Vector` has
two blocks, the old one and the one that replaces it. `Deque` has the map (with
its size, which decides when it is reallocated), the nodes, `_M_start` and
`_M_finish` as distances from the start of the map; `Nodes` puts the nodes back in order
after a call, so that block numbers are no part of the state.

### RbTree and HashTable

A node has the name of the element that it holds, as the code never moves an element
from one node to another. Where `stl_tree.h` writes a case twice, for left and for
right, the side is a parameter. Copies stop at every node (`CopyTree`), hash
functions throw after every number of moves (`ResizeFails`), `_M_copy_from`
fails where the vector of buckets is reserved or in its loop.

### List, Slist

A memory `m` holds the links, and `m.data` what is in a node: nothing, raw memory or an element.
Every allocation, copy, assignment and comparison uses up `m.fuel`, and a call is tried with
every amount. `List` keeps both links of each node and the circle through a header; `Slist` one
link and a head. Transfers are the assignments of the code in their order, so that
the cases in which the position is next to the range, or in it, come from the
links themselves. `sort` uses local lists for its carry and counters, which
are destroyed with what they hold when a comparison throws. `AbstractLists` is about nodes, as iterators are:
`splice`, `merge`, `sort` and `reverse` move them, `insert` and `assign` leave those in place that are there.

### BitVector, Bitset, BasicString, StringSearch, PriorityQueue

A bit vector's iterator is a word and an offset, and `Up`, `Down` and `Plus` (`_M_bump_up`, `_M_bump_down`, `+=`)
carry from one to the other (`Plus` with the remainder that C gives a negative
number). Bits that nothing wrote are `Raw`. A bitset is words of `BitsPerWord` bits, of which the
last may be used in part; `FirstInWord` goes by bytes, as the lookup table of the code does. A
string is like a vector with one more element, the terminator, which the code constructs,
overwrites and destroys by hand; the constructor of a character may throw, its moves
do not. `InsertedMayThrow` is a switch for one of these constructors, the one at `string:1329`, from whose exception
the code does not recover (section 5): `ExtendByOne` sets `built`, which is `__new_finish`, when the code does. `StringSearch` models how `find` and its kin bound the range and what they make of an
algorithm's answer; the algorithm is the one of `Searching`. A
`priority_queue` is `Heaps` on a vector that is cleared when anything throws.

### Heaps, Sorting, Merging, Rearranging, Searching, Algorithms

An algorithm is an operator on a sequence and on the positions `first` and `last`, which are
the iterators of the code; a helper of the code is an operator of the same
name. Elements have a `key`, by which they compare, and an `id`, by which
stability is seen. The loops without a guard (`__unguarded_linear_insert`,
`__unguarded_partition`) return `bad` when nothing stops them inside of the range that they were
given, and a merge does when its buffer is shorter than what it copies there.

The limits of the code are constants: `Threshold` (`__stl_threshold`, 16),
`ChunkSize` (`__stl_chunk_size`, 7), `InplaceThreshold` (15, where
`__inplace_stable_sort` inserts). The depth limit of `__introsort_loop` is
`DepthFactors` times the logarithm: 2 in the code, and 0 and 1 as well so that
`partial_sort` takes over in a short range. `get_temporary_buffer` halves its
request while `malloc` fails, so a call is tried with each of `Halves`, no
buffer at all among them.

The state machine has one action per algorithm that changes a range. `range` is
the elements, `heap` the number of first elements that a client keeps as a heap,
as `priority_queue` does; `call` describes the last call for
`AbstractAlgorithms` and is left out of the states that TLC tells apart, as no
action reads it. What searches, set operations and samples return is not state:
`ResultsAgree` evaluates them on every range that calls lead to. `rotate`,
`partition` and `stable_partition` have an overload per iterator category and
are called with each. The overload of `__rotate` for random access iterators
(`stl_algo.h:892`) is chosen by no caller, as the tag that `rotate` passes is
that of a distance; it is modelled for its own sake, as `RotateRandom`.

`Numeric` has the algorithms of `stl_numeric.h`, which may write their results where
their arguments are, and the subsets of a valarray: `Incr` is `_Gslice_Iter::_M_incr`,
which carries from a dimension to the one before it.

## 3. The runs

Twelve runs; seven must pass, five show a disagreement (section 5). Each passing run's
instance makes every action happen.

| run | instance | states | what it shows |
|---|---|---|---|
| `mutex` | 2 threads, `__low_max` 1, `__high_max` 3, one sleep step | 3.7 thousand | mutual exclusion, bounds on hints and spins, the end of every spin, the abstract lock with its progress |
| `alloc` | `_ALIGN` 2, `_MAX_BYTES` 4, 2 nodes per refill, 25 bytes; one thread with sizes 1, 4 and 5, or two with 4 and 5 | 424 thousand | one owner for each byte, nothing lost, `bad_alloc` last, calls end |
| `pthread` | 2 threads, 2 states, sizes 1 and 4; 2 nodes per refill in 17 bytes, 1 in 13, and 1 in 11 with `pthread_setspecific` failing | 2.7 million | private states, one owner for each byte |
| `rope_sharing` | 3 threads, 4 strings | 19.5 thousand | count exact, strings and node freed once and in the end |
| `rope_tree` | `pair`: two ropes over at most 4 nodes; `deep`: one rope that grows to length 9 and is rebalanced; `lazy`: functions and their substrings; `walk`: an iterator over ropes of length 5; `copies`: two over length 3 | 101 thousand | counts, sizes, every way to read, assertions, and that ropes are values |
| `containers` | trees, hash tables, vectors, deques, lists, bit vectors and strings alone and in pairs, bitsets, a priority queue | 12.3 thousand | see below |
| `algorithms` | ranges of 5 elements in three patterns of equal keys, of 6 in one; limits 2, 2 and 3 | 3.6 thousand | see below |

**mutex.** `MutualExclusion` and `FreeMeansUnowned` are the lock. `SpinBounds`
is about the unsynchronised hints: no value is published that no spin could have
reached. `SpinStaysDisabled` is a trap that the constants allow: when half of the last
success exceeds the low limit and the limit is low, no spin looks at the lock any more and
only a spin could repair it. It is no error, since threads then sleep and
still get the lock. `SpinEnds` and `ImplementsLock` are the progress.

**alloc, pthread.** `Conservation` says that the bytes of the chunks are exactly those on
lists, in the pool, with clients or being linked; `NoOverlap` that none is in
two places. `ImplementsAllocator` compares the calls' effect on the clients with the
abstract allocator. `LastResort` says that memory which could serve a request
is used before `malloc_alloc` is asked for what it could not give.

**rope_sharing.** `NoStringLeaks` and `FreedOnce` hold whoever wins the swap.

**rope_tree.** `ImplementsStrings` is the refinement: a rope's string is
`Flatten` of its tree, and a call changes one rope as it does a string, or throws and changes
nothing. `CountsExact` finds a tree lost or dropped twice at any
point where an allocation fails. `TreesConsistent` is about what nodes keep redundantly and
what is updated in place. `ReadsAgree` says that each way to read gives the same characters: the flattened
string of a node below which a leaf grows, the buffer and the position of every
iterator (of its own root, which may no longer be its rope's), a new iterator that walks over all of the
rope, `fetch` of every position, and `find`, which goes by pieces. `AssertionsHold` includes the assertions of the iterators.

**containers.** The composition picks an instance at the beginning and runs it:
trees of up to 8 elements, of which two have equal keys, or two of up to 4 that are copied and swapped;
hash tables of up to 5 elements with buckets 2, 3, 5 and both
equal keys and equal hash values; vectors of up to 4 elements; deques
with nodes of one cell and up to 3 elements, of four cells and up to 7, and pairs of
deques with nodes of two. `WellFormed` is the invariant of each structure
(more than `__rb_verify` sees, and `stl_deque.h:36-60`), `NothingLost` that no
element or node is lost or misused wherever an exception comes from,
(in strings with `InsertedMayThrow = FALSE`: every copy of a character may throw but the one at `string:1329`),
`SearchesAgree` that searches find what iteration passes, `ImplementsSets` and
`ImplementsSequences` that calls do what they promise: what throws and
documents no effect has none.

Of the newer instances, lists have up to 5 elements, or 3 in two lists between which nodes move,
and their `ImplementsSequences` is the refinement of `AbstractLists`: stable sorts and merges, elements that keep their
node, and what may be left by a comparison that throws. `WellFormed` of a list is
that the links of both directions agree and that every node is in exactly one place; of a bit
vector that its positions are inside of its block and steps lead from each to each other; of a string that exactly the
characters and the terminator are alive; of a bitset that the unused bits are 0; of a queue that it is a heap.
Bitsets of 1, 4, 7 and 9 bits in words of 4 and bytes of 2 are shifted by every distance and
combined with their own shifts.

**algorithms.** `ImplementsAlgorithms` compares every call from every reachable
range with its promise, and what is outside of `[first, last)` with what it was
before. The promises are stated by elements and never by the way of the code: a
sort is a permutation of its part that is in order; `next_permutation` returns
the arrangement for which there is no other in between. `StaysInside` is the
argument that lets `sort` do without guards: the first `Threshold` elements are
sorted before the others are inserted, so the least one stops every loop, and
the pivot is a median, so an element on each side stops the partition.
`HeapKept` follows a heap through pushes and pops, `ResultsAgree` compares
searches, bounds, set operations, `partial_sort_copy` and the distribution of
shuffles and samples with definitions by sets and counting. It also compares sums and
differences, in place and apart, powers of an operation that does not commute, comparisons of
ranges with an order on words, and the indices of gslices, masks and shifts with arithmetic on positions,
for every gslice of two dimensions that fits and for one with a dimension more.

### Why the bounds are enough

* *mutex*: `__high_max` 3 lets the last success reach every relation to
  `__low_max` (half of it below, equal); a third thread adds no pair of
  steps that two do not have, and the theorems of section 4 hold for any number.
* *alloc*: two list indices, so that a request has a larger list to search and
  a remainder has a smaller one to go to; a growth that is no multiple of the alignment before it is rounded;
  memory for several chunks, so that `malloc` fails both before and after leftovers.
* *pthread*: two states, so that one can be recycled while the other is in use;
  memory in which two threads meet with a pool that was cut for the other one's size.
* *rope*: depth 8 with limits shifted down (balance at depth 6, short at 13), so that
  `_S_balance`'s forest has several occupied slots, an insertee that
  is concatenated from several of them, and an exception at each allocation.
  `FillThreshold` 2 lets `rope(n, c)` have both parts, the power and the rest.
* *rope iterators*: a path cache of 3 and 2 direction bits are less than the
  depth of the trees, so that the path is cut and is found again from the root; a buffer
  of 2 is shorter than the lazy leaves, so that its window moves to either side and
  is cut at the end. Length 5 gives trees in which an increment climbs over two nodes. Two
  iterators add what copies and conversions do with counts, for which length 3 is enough.
* *containers*: a tree of 8 nodes has black height 3, and all cases of
  `_Rb_tree_rebalance_for_erase` happen in it; tables go through all sizes up
  and down; a vector of 4 cells reallocates and
  does not; a deque of 3 one-cell nodes reallocates and recentres its map,
  one of 7 in four-cell nodes takes each branch of `_M_insert_aux` on both sides.
  5 elements in a list fill two of the counters of `sort` and the carry; with 3 counters
  they go up to the last. 5 bits in words of 2 let positions be at, before and after a
  boundary; a string of 4 in as many cells, and in fewer, takes each branch of
  `insert` and `replace`. 6 elements are a heap with a parent that has one child.
* *algorithms*: 5 elements exceed the scaled thresholds in both halves of a
  recursion; the calls lead to every arrangement of the elements, so each
  is an input of each algorithm, on the whole range and without its ends. Rotations by cycles need 6,
  where the length and the distance have the divisors 2 and 3 in common. All
  arithmetic on thresholds is comparison with a length, so that nothing depends
  on 16 rather than 2; `ChunkSize` 2 gives complete, incomplete and single runs.

### Fairness

* `MutexLock`: weak fairness of each thread's own steps in `_M_acquire_lock` and of its
  release. A sleeping thread wakes by the clock (`__nsec_sleep`), so it is scheduled
  like any other. Nothing is assumed about who wins a swap, and only
  the waiters as a group are promised progress.
* `NodeAlloc`: weak fairness of a thread that is inside the allocator. `malloc`
  may fail for ever; without a handler `_S_oom_malloc` throws, and every call of
  the handler gives up one block of finitely many.
* `RopeSharing`: weak fairness of a thread inside `c_str`, `delete_c_str` or
  the destructor. Clients need not do anything.

The other modules are sequential code and state safety only; their runs need no fairness.

## 4. The proofs

### ThreadProofs

*The spin lock*, for any set of threads and any limits with `0 < LowMax <= HighMax`
(`MutexAssumption`):

| theorem | statement |
|---|---|
| `TypeCorrect` | `Spec => []TypeOK` |
| `Exclusion` | `Spec => []MutualExclusion` |
| `FreeIffUnowned` | `Spec => []FreeMeansUnowned` |
| `SpinsBounded` | `Spec => []SpinBounds` |
| `SpinTrap` | `Spec => SpinStaysDisabled` |
| `RefinesLock` | `Spec => Abs!LockSafeSpec` |

*The argument.* Neither `MutualExclusion` nor `FreeMeansUnowned` is inductive by
itself: a swap that wins is exclusive only because a word that is 0 means that there is no
owner, and the word can be reset by the owner only because there is one. Their
conjunction `LockInv` is inductive (`LockInvInit`, `LockInvStep`). A step either
leaves the owners alone (`SameOwners`), or wins a swap (`SwapWon`), or releases, which are
the three cases of the proof. `SpinsBounded` is inductive given the types; `SpinTrap` needs the types and a case for
each control point that could read or write a hint. The refinement uses
`HolderIsOwner`: given `LockInv`, the `CHOOSE` of the mapping is the unique
owner; each step is then a request, a grant, both at once, a release or
a stutter (`StepSimulation`).

*The shared rope node*, for any finite set of threads and any strings (`RopeSharingAssumption`; finite, as the count is a
cardinality):

| theorem | statement |
|---|---|
| `RopeTypeCorrect` | `RopeSpec => []RopeTypeOK` |
| `CountExact` | `RopeSpec => []CountsRopes` |
| `StringsFreedOnce` | `RopeSpec => []FreedOnce` |
| `StringsOwned` | `RopeSpec => []NoStringLeaks` |
| `NoUseAfterFree` | `RopeSpec => [][node = "alive"]_ropeVars` |

*The argument.* `CountsRopes` says that the count is the number of ropes; that a decrement to 0 happens once
needs also that who is inside a call has a rope, that `delete_c_str` is called with the only one, and that
at most one thread is between the last decrement and the deallocation (`CountInv`). `FreedOnce` is not
inductive, because nothing in it says that the string that a thread is about to free is not somebody else's. The
strengthening `StringInv` gives every string that was allocated and not freed one owner: a thread that
has not swapped it in, a thread that took it out, or the node. The swap is where owners
change: whoever comes second takes out what the first put in.

### NodeAllocProofs

For any threads, sizes, alignment, numbers of nodes, growth, memory and blocks of the program
(`NodeAllocAssumption`):

| theorem | statement |
|---|---|
| `TypeCorrect` | `Spec => []TypeOK` |
| `OneOwner` | `Spec => []NoOverlap` |
| `NothingLost` | `Spec => []Conservation` |
| `BadAllocIsLast` | `Spec => []LastResort` |
| `Refinement` | `Spec => ImplementsAllocator` |
| `ChunksAreKept` | `Spec => [][Chunks \subseteq Chunks']_vars` |

*The argument.* A *place* is a piece of memory that says what it is: a node on a list, the pool, the
chunk from which a thread links nodes, a client's node. The centre of the inductive invariant `IInv` is
`PlacesInv`: the places tile the chunks. `NoOverlap` and `Conservation` are two halves of it, of which neither is
inductive, and a place has to carry its kind, since as mere
intervals a node that is on two lists would be one. The other parts say why a step moves
one place only: `ControlInv`, that the lock's holder is the thread at a locked
control point; `MovingInv`, that a block which `reallocate` will give back is given back by
nobody else; `ListsInv`, that no address is twice on a list; `PoolInv`, that the pool is made of whole units, so that
what is left of it has a list; `RefillInv`, that the list which is being refilled is empty, so that
linking nodes into it (an assignment, in the code) loses none, and that the pool and the larger lists are
empty when `malloc_alloc` is asked, which is `LastResort`; `HeapInv`, that what `malloc` gave is
apart. `SizeInv` counts the bytes of the chunks, which bounds `_S_heap_size`.

`Tilings` has the steps that tilings take. `Cut`: a place is replaced by places that tile
it. `Relabel`: a place goes from one owner to another. `Extend`: a chunk comes, with a place that is all of it. `Split` and
`CutRun`: a prefix of the pool, and a chunk that is linked as a run of equal nodes. Each action is
one or two of these. It also has what is needed of division and rounding (`UpBounds`, `SizeOfList`), since
the provers know little of products of variables, and what lists do to the set of their addresses (`PushFront`,
`PopFront`).

### PthreadAllocProofs

For any threads, states, sizes, alignment, numbers of nodes and memory (`PthreadAllocAssumption`). The first three hold
whatever fails; the others for `~ThrowsWithLeftover`:

| theorem | statement |
|---|---|
| `BaseInvariant` | `Spec => []BaseInv` |
| `TypeCorrect` | `Spec => []TypeOK` |
| `StatesPrivate` | `Spec => []StatesArePrivate` |
| `Invariant` | `~ThrowsWithLeftover` gives `Spec => []IInv` |
| `OneOwner` | `~ThrowsWithLeftover` gives `Spec => []NoOverlap` |
| `NothingLost` | `~ThrowsWithLeftover` gives `Spec => []Conservation` |
| `Refinement` | `~ThrowsWithLeftover` gives `Spec => ImplementsAllocator` |

The condition is that `malloc_alloc` does not throw after the rest of the pool was put on a list. It cannot be
dropped: the run `pthread_throw` shows the step after which two threads have the same bytes (section 5). The condition
appears in one place of the proof, the step in which `_S_chunk_alloc` throws (`ThrowSpace`).

*The argument.* There is no lock that is held from the search of a list to its refilling; what takes its place
is that states are private. So `BaseInv` comes first: `OwnersInv` (a state is with one thread, or on the
stack, or lost), and from it `ListsInv`, that the list which a thread refills stays empty in the steps of all
others, though the pool may change between its passes. `IInv` adds `SpaceInv`, the tiling, whose
places also carry the state or the thread that they belong to; there may be several
pieces in transit at once, one for each thread. A thread that exits, or whose `pthread_setspecific` fails, changes no place.

### ElementsProofs, VectorProofs

For any vectors and values, any bounds on what clients insert, and a `Raw` that is no value (`VectorParameters`):

| theorem | statement |
|---|---|
| `IInvHolds` | `Spec => []IInv` |
| `VectorTypeCorrect` | `Spec => []TypeOK` |
| `VectorsWellFormed` | `Spec => []WellFormed` |
| `VectorsLoseNothing` | `Spec => []NothingLost` |
| `VectorsImplementSequences` | `Spec => ImplementsSequences` |

The run `containers` checks the same four properties together with those of the other containers; a theorem about vectors is
therefore listed without a property of a run.

*The argument.* Between calls the state is simple: `IInv` is the types, `WellFormed` and `NothingLost`. It is inductive, but a
single step of the model is a whole call, with an exception anywhere in it, so the work is inside the step. It is done in
three layers.

1. `ElementsProofs` says of each operation on raw memory what it leaves, for any number of cells and any fuel: `Copied` for
   `uninitialized_copy` (all elements, or none and an exception), `Assigned` for `copy`, `copy_backward` and `fill` (after an exception
   some cells of the range have other values, and the same cells are raw as before), `Allocated` for `allocate`. None of them
   depends on vectors. Each requires that the cells are raw, or are not, as the operation assumes; that is how `bad` stays false.
2. Of each operation of the vector there is a lemma `...Does`: on a memory that holds `s` it ends with one that
   holds `t`, or it throws, and then the memory still holds `s` if the operation is strong, and else as many
   elements as lie between the lengths of `s` and `t`. In all cases `Plain` holds of it: the first cells and no others
   have elements, no block is left over, and nothing was misused. While the block is replaced `Moving` and `InNew` say the same
   of the two blocks. What `t` is to be is said by `Spliced`, element by element, so that a lemma on `SubSeq` and `\o` is needed once
   (`ReplacedAre`). The two insertions with room, for less elements than come after the position and for as many or more
   (`InsertFewDoes`, `InsertManyDoes`), are the longest: an element must have been copied before its cell gets another value.
3. Of each call there is a lemma `...Step`: it keeps `IInv` and is a step of `AbstractSequences`. All of them go through
   `FinishStep`. For the basic guarantee one has to know that after an exception there are only values of the old and of the intended
   content; the lemmas of layer 2 hold for every set of values, and here they are used with exactly that set (`Palette`).

`InsertFillStep`, `InsertStep`, `ResizeStep` and `AssignFillStep` also cover the calls whose argument is an element of the
vector itself: the value that is inserted is that which the element had when the call began (`ArgumentAre`).

### DequeProofs

For any deques and values, node sizes of at least 1, any bounds on what clients insert, and a `Raw` that is no value
(`DequeParameters`):

| theorem | statement |
|---|---|
| `IInvHolds` | `Spec => []IInv` |
| `DequeTypeCorrect` | `Spec => []TypeOK` |
| `DequesWellFormed` | `Spec => []WellFormed` |
| `DequesLoseNothing` | `Spec => []NothingLost` |
| `DequesImplementSequences` | `Spec => ImplementsSequences` |

As for vectors, the run `containers` checks these properties for all containers at once. The last theorem gives push and pop at
both ends, and every insertion there, the strong guarantee; it covers insertions that move the front half or the back half,
with few elements before the position or many, and arguments that are elements of the deque itself: in `push_front`,
`push_back` and `insert` any end of it, and in `assign(n, d[k])` one that is not among those that are erased before the argument is
read (`Survives`, `AssignFillStep`; section 5 has the other case).

*The argument* has the three layers of the vectors, and a layer between, because the memory of a deque is not a block but nodes that
come and go while elements are in others.

1. A *position* is a number over all nodes of the map; the element at `p` is in the node of slot `p \div buf` and is its cell
   `p % buf`. All that is needed of division is in the lemmas on positions, stated on products that are named
   (`ProductGrows`), as the provers cannot reason about products of variables.
2. `Mapped(m, F, R, lo, up)` says that the slots `[lo, up)` of the map point to nodes, each to one of its own, that no other slot
   points to any, and that no further node is allocated, the nodes `R` apart, which another map owns. With it "no node is lost" is
   a statement about each intermediate memory and not only about the end of a call. `Laid(m, ..., f, w)` adds that the
   elements from position `f` on are `w` and all other cells of the nodes are raw. There is one lemma for each thing that an operation
   can do to such a memory: nodes are created or destroyed at an end (and, when an allocation throws half-way, those of
   this call are given back: `_M_new_elements_at_front`), the map is moved or replaced, and so all positions with it
   (`ReallocateMap`), elements are built behind `w` or before it, assigned to, moved up or down through the nodes, or destroyed.
3. `Holds` is `Laid` from `_M_start` on, with `_M_finish` behind the last element; its nodes are exactly those from the first
   iterator's to the second's, where that of `_M_finish` is there even when it has no element. Half-way through an operation the
   nodes are more than that. Of each operation a lemma says that it `Does` what it should: it ends with a memory that holds
   `t`, or throws, and then the memory holds `s` if the operation is strong, and else elements as many as
   lie between the lengths of `s` and `t`. The constructors, the destructor and `operator=` need two
   maps in one memory, which is what `R` is for.
4. Of each call a lemma `...Step`, all through `FinishStep`: the call keeps `IInv` and is a step of `AbstractSequences`.
   As in `VectorProofs` the lemmas of layer 3 are used with the set of values that the call may leave (`Palette`). `IInv` has, beside
   types, `WellFormed` and `NothingLost`, that all deques have one node size, which makes `swap` a swap, and that no
   deque has more elements than its clients keep to, from which a call knows how many nodes there can be.

### BasicStringProofs

For any strings and characters, any first capacity, and a `Raw` that is no character and not the null (`StringParameters`):

| theorem | statement |
|---|---|
| `StringsHold` | `Spec => []IInv` |
| `StringTypeCorrect` | `Spec => []TypeOK` |
| `StringsWellFormed` | `Spec => []WellFormed` |
| `StringsLoseNothing` | `Spec => []NothingLost`, if `~ InsertedMayThrow` |
| `StringsImplementSequences` | `Spec => ImplementsSequences` |
| `StringSearchesAgree` | `Spec => []SearchesAgree` |

All but `StringsLoseNothing` hold for both values of `InsertedMayThrow`; with the other value it is false, as the run
`string_insert` shows, and `IInv` says no more than the code keeps: `bad => InsertedMayThrow`. The last one also needs positions that fit into `size_type` (`MaxLength <= Npos`), and an order in which no character is
before itself (`SearchParameters`).

*The argument* has the layers of the vectors. `IInv` is again what is true between calls: the characters and then the null are
in the first cells of the block and nothing is behind them. What is different is the null. `basic_string`
counts it out of its size, but constructs, moves and destroys it, and writes a character over it whenever a string grows in
place. Half-way through a call the block therefore holds neither the old string nor the new one, but for example the old characters, then
no null, then new ones that a constructor has built behind it. The proofs take the null for a character like the others:
`Filled(m, w)` says that the block holds the sequence `w` and no more, and a string `s` is the case of `w = Whole(s)`, `s`
with a null behind. Each step of an operation changes `w`
(`MoveFilled`, `BuildFilled` and their like: characters moved over others, built behind them, destroyed at the end), an exception
undoes what the step built, and only at its end has the operation to show that what is left is `Whole` of what it promised.

`Gives(r, t, u)` then says of a whole operation that the memory holds the string `t`, or, after an exception, `u`.
For those with the strong guarantee `u` is the string as it was; `replace` and `assign` only promise the basic one
(`Yields`): they assign first and insert or erase then, so that `u` may have some of the new characters.
The insertion of a single character has `MayGive` instead: `Gives` for the memory without its mark `bad`
(`Forgiven`), which is set only if `InsertedMayThrow`. So the theorems say of the exception at `string:1329` that it leaves
the string itself as it was, the characters left in the new block notwithstanding.
The calls have lemmas that end in a step of `AbstractSequences`. What `append` adds may be a part of the string itself, as the code
allows; for `insert`, `replace` and `assign` it is one of another string.

*Searches.* The lemmas on them hold for every string, pattern and position: the algorithm returns the end of its range, 0 for
a reverse one, or a place, and what the member makes of that is the first or the last place there is
(`FirstFound`, `LastFound`, `LastBaseFound`), the empty pattern at the end of the string included. A string must not be longer
than `Npos`; this is `Bounded`, which every call keeps because it is one of the calls on sequences and its clients keep to `MaxLength`
(`NextFits`, `BoundHolds`).

### What is only model-checked, and why

* Everything under fairness: `SpinEnds`, the liveness part of `ImplementsLock`, `AllocateEnds`, `EventuallyFreed`. The
  prover has no rule for `ENABLED`.
* `HashTable`, `Bitset` and `PriorityQueue`: nothing is proved about them. A table's chains are rebuilt by `SelectSeq` and
  `FlattenSeq` when it is resized or erased from, bits are moved by folds over the words, and the heaps of a
  `priority_queue` are recursive: the same obstacle as in the next item.
* `Rope`, `RopeIterators`, `RbTree`, the lists, `BitVector` and the algorithms: their operators are recursive, as the
  code is, or fold over sequences, and what such an operator computes needs an induction over data, which none of the installed
  provers can do.

## 5. Disagreements found

| run | what happens |
|---|---|
| `pthread_throw` | `pthread_alloc:287`: `malloc_alloc` throws after the rest of the pool was linked into a free list, but `_S_start_free` still points to it: the same bytes are handed out twice. |
| `rope_returned` | `ropeimpl.h:1501`: a second `c_str` at the same time deallocates the string that the first one returned. |
| `string_insert` | `string:1329`: a copy of a single new character that throws is not known to the handler, as `__new_finish` is still `__new_start`: the new block is given back with the characters before the position alive in it, though, by `string:83-84`, the base class exists to make an "exception-safe version of basic_string" easier to write. |
| `rope_sizes` | `ropeimpl.h:578`: a cached C string is deallocated with the size of the rope it has become. |
| `rope_char` | `stl_rope.h:1701`: the leaf of a rope made from one character lacks the terminator. |

The passing runs leave these steps out or tolerate them, by a named switch or a
property that does not speak of them, so that what else they check is not hidden:
`ThrowsWithLeftover`, `InsertedMayThrow`, `ReturnedStaysValid` (in its own run), and `SizesAgree`
and `LeavesTerminated` (in the runs of `CallsSpec`). `ReplaceMayThrow = FALSE`
leaves out an allocation in `replace_with_c_str` that, when it fails, keeps a pointer to a freed tree;
no comment says otherwise, so it is a hazard and no finding.

One more disagreement needs no run: `stl_rope.h:2189`, `erase(size_t)`, "Erase, single character",
passes `p + 1` to a variant that takes a length, and so erases `p + 1` characters. `EraseOne` in `Rope` does as the code does.

Other lines at which the code can go wrong and of which nothing in the repository says that it
should not, so that the modelled clients stay away from them:

| line | what happens |
|---|---|
| `stl_rope.h:956` | a copied iterator takes over the pointer into the buffer of the original, which may end or move on |
| `ropeimpl.h:1424` | `rope(0, c)` leaves the pointer to its tree unset |
| `ropeimpl.h:1182` | a rope longer than `max_size` makes the loop read `_S_min_len` past its end |
| `stl_hashtable.h:1026` | a table is without buckets after a failed copy |
| `stl_hashtable.h:838` | `erase(key)` goes on comparing with a key that may be the erased element's |
| `stl_deque.h:608` | `assign(n, d[k])` erases elements before it reads its argument |
| `stl_list.h:718`, `stl_slist.h:860` | `remove(l.front())` goes on comparing with an element that it erased (`CallRemove` takes a value of its own) |
| `stl_list.h:747`, `stl_slist.h:886` | a list that is merged with itself may never end |
| `stl_bvector.h:610` | `operator=` gives its block back before it allocates; the destructor does it again if that throws |
| `string:1622`, `string:1060` | `find` with a position near `npos`, and `compare` with a part of a longer string, reach beyond an array |
| `bitset:190`, `bitset:712` | a shift by more than the words have, and `test(_Nb)`, reach beyond the array |
| `valarray:1286`, `valarray:1754` | a gslice with a length of 0 never ends; `cshift` of an empty array divides by 0 |
| `valarray:190` | `x /= x[0]` divides the other elements by the new value |
| `stl_tempbuf.h:122` | a step of the iterator that throws before the buffer was asked for frees a pointer that was not set |

## 6. The plan

In order of importance; what is done is marked.

1. (done) Spin lock with proofs; node allocator; per-thread allocator.
2. (done) Shared rope nodes; rope trees.
3. (done) Red-black trees, hash tables, vectors, deques, against
   `AbstractSets` and `AbstractSequences`.
4. (done) Algorithms: heaps, sorts, merges, rearranging and searching, against
   `AbstractAlgorithms`, with the numeric ones and subsets of valarrays.
5. (done) Lists against `AbstractLists`, with `splice`, `merge` and `sort`
   that move nodes between containers.
6. (done) Strings, bit vectors, bitsets, `priority_queue`.
7. (done) Rope iterators, and the remaining calls of class `rope`.
8. (done) `ThreadProofs`, `NodeAllocProofs` and `PthreadAllocProofs`, with all of the safety properties that
   the runs of these components check, and both refinements of the abstract allocator.
9. (done) `ElementsProofs`, `VectorProofs`, `BasicStringProofs` and `DequeProofs`.
10. Left: theorems about the modules that section 4 lists as only model-checked, which need induction over data.

Composition: the containers share `Elements` and the abstract specifications; `NodeAlloc` and
`PthreadAlloc` share `AbstractAllocator`. The node lock of `NodeAlloc` is an
atomic test, which `MutexLock` implements by `RefinesLock`; the two
are not multiplied in one run.

## 7. What is not modelled, and why

* Weak memory: the release of the spin lock is a plain store which, as its
  comment says, may be reordered. The models are sequentially consistent.
* Out-of-memory handlers that call the allocator they serve
  (`stl_alloc.h:173`, `:533`): the lines show by themselves what follows.
* Block contents: `memcpy` in `reallocate`, characters beyond what tells strings apart.
* `debug_alloc`, `_SGI_SOURCE`'s memalign variant, garbage-collected ropes, rope I/O and
  `sequence_buffer`, and the order of ropes, which compares their characters.
* Element types whose destructors throw. Comparisons that throw are modelled in lists and
  in `priority_queue`, hash functions that throw in hash tables.
* Copies and comparisons that throw inside an algorithm: the range is then valid and
  unspecified, and the code has no handler but that of the temporary buffer.
* `for_each`, `transform`, `replace`, `generate` and the other loops that look at
  each element once (`copy` and `fill` are in `Elements`), and the specialisations of
  comparisons and fills for characters.
* `_Temporary_buffer` beyond the size that it gets, and `raw_storage_iterator`.
* Arithmetic on whole valarrays, one loop for each operator; their construction and `resize`.
* Input and output of strings and bitsets, insertion from input iterators.
* Iterator adaptors, functors, traits, concept checks, `limits`, `stl_config.h`: no
  state, or settled by the compiler. `stack` and `queue` forward each call.
* The demonstration programs, and the rewrite, which has traits and the
  first iterators and allocators only.
