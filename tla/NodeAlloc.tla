----------------------------- MODULE NodeAlloc ------------------------------
(***************************************************************************)
(* __default_alloc_template of stl_alloc.h, the node allocator behind      *)
(* every container, with malloc_alloc underneath it: free lists of nodes   *)
(* by size, a pool that the lists are refilled from, chunks that the pool  *)
(* is refilled from, the search of larger lists when malloc fails, and the *)
(* out-of-memory handler.  The chunks are never given back.                *)
(*                                                                         *)
(* Memory is byte addressed; address 0 is the null pointer.                *)
(***************************************************************************)
EXTENDS Naturals, Sequences, FiniteSets, FiniteSetsExt, Functions

CONSTANTS Threads, NoThread,
          _ALIGN,        \* 8 in the code
          _MAX_BYTES,    \* 128 in the code
          NObjs,         \* nodes asked for by _S_refill, 20 in the code
          GrowthDiv,     \* __heap_size >> 4 is a division by 16
          Sizes,         \* the sizes clients ask for, in bytes
          MemTop,        \* the last address malloc can hand out
          MaxHeld,       \* bound: blocks the clients hold at a time
          Outside        \* memory in use by others at the start, as blocks

ASSUME NodeAllocAssumption ==
    /\ NoThread \notin Threads
    /\ {_ALIGN, _MAX_BYTES, NObjs, GrowthDiv, MemTop, MaxHeld} \subseteq Nat \ {0}
    /\ _MAX_BYTES % _ALIGN = 0
    /\ Sizes \subseteq Nat \ {0}
    \* malloc handed the blocks of others out, too
    /\ \A b \in Outside :
         /\ b = [addr |-> b.addr, size |-> b.size]
         /\ b.addr \in Nat \ {0} /\ b.size \in Nat \ {0} /\ b.addr + b.size <= MemTop + 1
    /\ \A b, c \in Outside :
         b # c => b.addr + b.size <= c.addr \/ c.addr + c.size <= b.addr

VARIABLES _S_free_list,   \* [index -> sequence of node addresses], head first
          _S_start_free, _S_end_free, _S_heap_size,
          lock,           \* _S_node_allocator_lock: its holder
          oom_handler,    \* is __malloc_alloc_oom_handler set?
          heap,           \* the blocks malloc has handed out
          outside,        \* those of them that the rest of the program holds
          live,           \* the blocks clients hold, with the size they asked for
          pc,             \* where each thread is in the allocator
          n,              \* the size the thread asked for
          nobjs,          \* __nobjs of _S_refill and _S_chunk_alloc
          chunk,          \* __chunk of _S_refill
          moving          \* the block reallocate will give back, as a set

pool == << _S_start_free, _S_end_free, _S_heap_size >>
calls == << n, nobjs, chunk, moving >>
vars == << _S_free_list, pool, lock, oom_handler, heap, outside, live, pc, calls >>

Block(a, k) == [addr |-> a, size |-> k]
Span(b) == b.addr .. (b.addr + b.size - 1)
Apart(b, c) == b.addr + b.size <= c.addr \/ c.addr + c.size <= b.addr

RoundUp(k) == ((k + _ALIGN - 1) \div _ALIGN) * _ALIGN
FreelistIndex(k) == (k + _ALIGN - 1) \div _ALIGN - 1
Indices == 0 .. (_MAX_BYTES \div _ALIGN - 1)
NodeSize(i) == (i + 1) * _ALIGN

BytesLeft == _S_end_free - _S_start_free

Large(k) == k > _MAX_BYTES
\* the code that runs with the lock held
Locked == {"allocate", "chunk", "scavenge", "refill"}
\* the code of malloc_alloc, with the lock held exactly for small sizes
InMalloc == {"malloc", "oom", "handler"}
Labels == {"idle", "call", "release"} \union Locked \union InMalloc

HasLock(t) == pc[t] \in Locked \/ (pc[t] \in InMalloc /\ ~ Large(n[t]))

TypeOK ==
    /\ _S_free_list \in [Indices -> Seq(1 .. MemTop)]
    /\ _S_start_free \in 0 .. (MemTop + 1) /\ _S_end_free \in _S_start_free .. (MemTop + 1)
    /\ _S_heap_size \in 0 .. MemTop
    /\ lock \in Threads \union {NoThread}
    /\ oom_handler \in BOOLEAN
    /\ outside \subseteq heap
    /\ \A b \in live : b.addr \in 1 .. MemTop /\ b.size \in Sizes
    /\ pc \in [Threads -> Labels]
    /\ n \in [Threads -> Sizes \union {0}]
    /\ nobjs \in [Threads -> 0 .. NObjs]
    /\ chunk \in [Threads -> 0 .. MemTop]
    /\ \A t \in Threads : moving[t] \subseteq live /\ Cardinality(moving[t]) <= 1

Init ==
    /\ _S_free_list = [i \in Indices |-> << >>]
    /\ _S_start_free = 0 /\ _S_end_free = 0 /\ _S_heap_size = 0
    /\ lock = NoThread
    /\ oom_handler \in BOOLEAN
    /\ heap = Outside /\ outside = Outside
    /\ live = {}
    /\ pc = [t \in Threads |-> "idle"]
    /\ n = [t \in Threads |-> 0]
    /\ nobjs = [t \in Threads |-> 0]
    /\ chunk = [t \in Threads |-> 0]
    /\ moving = [t \in Threads |-> {}]

-----------------------------------------------------------------------------
(* malloc, free and realloc: first fit, aligned, and able to fail at any   *)
(* call.                                                                   *)

Fits(k, used) ==
    {a \in 1 .. MemTop : a % _ALIGN = 0 /\ a + k <= MemTop + 1
                         /\ \A b \in used : Apart(b, Block(a, k))}
FirstFit(k, used) == {Min(f) : f \in {Fits(k, used)} \ {{}}}

MallocGives(k, a) == heap' = heap \union {Block(a, k)}

Free(b) == heap' = heap \ {b}

-----------------------------------------------------------------------------
(* Helpers                                                                 *)

Goto(t, label) == pc' = [pc EXCEPT ![t] = label]

AcquireLock(t) == lock = NoThread /\ lock' = t

Push(i, a) == [_S_free_list EXCEPT ![i] = << a >> \o @]
Pop(i) == [_S_free_list EXCEPT ![i] = Tail(@)]

\* The return from allocate with block a: the lock is released by the
\* destructor, and reallocate goes on to give the old block back.
Return(t, a) ==
    /\ live' = live \union {Block(a, n[t])}
    /\ lock' = NoThread
    /\ Goto(t, IF moving[t] = {} THEN "idle" ELSE "release")
    /\ n' = [n EXCEPT ![t] = 0] /\ nobjs' = [nobjs EXCEPT ![t] = 0]
    /\ chunk' = [chunk EXCEPT ![t] = 0]
    /\ UNCHANGED moving

\* bad_alloc: the stack is unwound, the destructor releases the lock, and
\* reallocate's old block stays with its owner.
Throw(t) ==
    /\ lock' = IF Large(n[t]) THEN lock ELSE NoThread
    /\ Goto(t, "idle")
    /\ n' = [n EXCEPT ![t] = 0] /\ nobjs' = [nobjs EXCEPT ![t] = 0]
    /\ moving' = [moving EXCEPT ![t] = {}]
    /\ UNCHANGED << live, chunk >>

Idle(t) == pc[t] = "idle"

\* Blocks a client may still pass to the allocator.
Held == live \ UNION {moving[t] : t \in Threads}

-----------------------------------------------------------------------------
(* allocate and _S_refill                                                  *)

Allocate(t, k) ==
    /\ Idle(t) /\ Cardinality(live) < MaxHeld
    /\ Goto(t, IF Large(k) THEN "malloc" ELSE "call")
    /\ n' = [n EXCEPT ![t] = k]
    /\ UNCHANGED << _S_free_list, pool, lock, oom_handler, heap, outside, live,
                    nobjs, chunk, moving >>

\* Mutant of EnterAllocate: the lock is not waited for.
EnterUnlocked(t) ==
    /\ pc[t] = "call"
    /\ lock' = t
    /\ Goto(t, "allocate")
    /\ UNCHANGED << _S_free_list, pool, oom_handler, heap, outside, live, calls >>

EnterAllocate(t) ==
    /\ pc[t] = "call"
    /\ AcquireLock(t)
    /\ Goto(t, "allocate")
    /\ UNCHANGED << _S_free_list, pool, oom_handler, heap, outside, live, calls >>

PopNode(t) ==
    LET i == FreelistIndex(n[t]) IN
    /\ pc[t] = "allocate"
    /\ _S_free_list[i] # << >>
    /\ _S_free_list' = Pop(i)
    /\ Return(t, Head(_S_free_list[i]))
    /\ UNCHANGED << pool, oom_handler, heap, outside >>

RefillEmptyList(t) ==
    /\ pc[t] = "allocate"
    /\ _S_free_list[FreelistIndex(n[t])] = << >>
    /\ nobjs' = [nobjs EXCEPT ![t] = NObjs]
    /\ Goto(t, "chunk")
    /\ UNCHANGED << _S_free_list, pool, lock, oom_handler, heap, outside, live,
                    n, chunk, moving >>

\* The rest of _S_refill: the first node goes to the client, the others become
\* the list, whatever the list was.
LinkNodes(t) ==
    LET size == RoundUp(n[t])
        i == FreelistIndex(n[t])
    IN
    /\ pc[t] = "refill"
    /\ _S_free_list' = IF nobjs[t] = 1 THEN _S_free_list
                       ELSE [_S_free_list EXCEPT ![i] =
                               [j \in 1 .. nobjs[t] - 1 |-> chunk[t] + j * size]]
    /\ Return(t, chunk[t])
    /\ UNCHANGED << pool, oom_handler, heap, outside >>

-----------------------------------------------------------------------------
(* _S_chunk_alloc                                                          *)

\* Mutant of ServeFromPool: the number of nodes is rounded up.
ServeOneMore(t) ==
    LET size == RoundUp(n[t])
        served == Min({nobjs[t], (BytesLeft + size - 1) \div size})
    IN
    /\ pc[t] = "chunk"
    /\ BytesLeft >= size
    /\ nobjs' = [nobjs EXCEPT ![t] = served]
    /\ chunk' = [chunk EXCEPT ![t] = _S_start_free]
    /\ _S_start_free' = _S_start_free + served * size
    /\ Goto(t, "refill")
    /\ UNCHANGED << _S_free_list, _S_end_free, _S_heap_size, lock, oom_handler,
                    heap, outside, live, n, moving >>

\* The pool serves all the nodes asked for, or as many as it has.
ServeFromPool(t) ==
    LET size == RoundUp(n[t])
        served == Min({nobjs[t], BytesLeft \div size})
    IN
    /\ pc[t] = "chunk"
    /\ BytesLeft >= size
    /\ nobjs' = [nobjs EXCEPT ![t] = served]
    /\ chunk' = [chunk EXCEPT ![t] = _S_start_free]
    /\ _S_start_free' = _S_start_free + served * size
    /\ Goto(t, "refill")
    /\ UNCHANGED << _S_free_list, _S_end_free, _S_heap_size, lock, oom_handler,
                    heap, outside, live, n, moving >>

\* Mutant of BytesToGet: the growth is not rounded.
BytesToGetUnrounded(t) == 2 * RoundUp(n[t]) * nobjs[t] + _S_heap_size \div GrowthDiv

BytesToGet(t) ==
    2 * RoundUp(n[t]) * nobjs[t] + RoundUp(_S_heap_size \div GrowthDiv)

\* What is left of the pool is a node of a smaller list.
KeepLeftover ==
    _S_free_list' = IF BytesLeft > 0 THEN Push(FreelistIndex(BytesLeft), _S_start_free)
                    ELSE _S_free_list

NewPool(t, a) ==
    /\ _S_start_free' = a
    /\ _S_heap_size' = _S_heap_size + BytesToGet(t)
    /\ _S_end_free' = a + BytesToGet(t)
    /\ Goto(t, "chunk")

GetChunk(t) ==
    /\ pc[t] = "chunk"
    /\ BytesLeft < RoundUp(n[t])
    /\ KeepLeftover
    /\ \/ \E a \in FirstFit(BytesToGet(t), heap) :
            MallocGives(BytesToGet(t), a) /\ NewPool(t, a)
       \/ /\ _S_start_free' = 0
          /\ Goto(t, "scavenge")
          /\ UNCHANGED << _S_end_free, _S_heap_size, heap >>
    /\ UNCHANGED << lock, oom_handler, outside, live, calls >>

\* Mutant of Donors: the list of the largest nodes is not searched.
DonorsButLast(t) ==
    {i \in Indices : NodeSize(i) >= RoundUp(n[t]) /\ NodeSize(i) < _MAX_BYTES
                      /\ _S_free_list[i] # << >>}

Donors(t) == {i \in Indices : NodeSize(i) >= RoundUp(n[t]) /\ _S_free_list[i] # << >>}

\* The smallest larger node becomes the pool.
TakeLargerNode(t) ==
    LET i == Min(Donors(t)) IN
    /\ pc[t] = "scavenge"
    /\ Donors(t) # {}
    /\ _S_free_list' = Pop(i)
    /\ _S_start_free' = Head(_S_free_list[i])
    /\ _S_end_free' = Head(_S_free_list[i]) + NodeSize(i)
    /\ Goto(t, "chunk")
    /\ UNCHANGED << _S_heap_size, lock, oom_handler, heap, outside, live, calls >>

\* Mutant of AskMallocAlloc: the end of the pool stays as it was.
AskKeepingEnd(t) ==
    /\ pc[t] = "scavenge"
    /\ Donors(t) = {}
    /\ Goto(t, "malloc")
    /\ UNCHANGED << _S_free_list, pool, lock, oom_handler, heap, outside, live, calls >>

\* No larger node: the pool is emptied in case malloc_alloc throws.
AskMallocAlloc(t) ==
    /\ pc[t] = "scavenge"
    /\ Donors(t) = {}
    /\ _S_end_free' = 0
    /\ Goto(t, "malloc")
    /\ UNCHANGED << _S_free_list, _S_start_free, _S_heap_size, lock, oom_handler,
                    heap, outside, live, calls >>

-----------------------------------------------------------------------------
(* malloc_alloc: allocate and _S_oom_malloc                                *)

MallocSucceeds(t) ==
    /\ pc[t] = "malloc"
    /\ IF Large(n[t])
       THEN /\ \E a \in FirstFit(n[t], heap) :
                 /\ MallocGives(n[t], a)
                 /\ live' = live \union {Block(a, n[t])}
            /\ Goto(t, IF moving[t] = {} THEN "idle" ELSE "release")
            /\ n' = [n EXCEPT ![t] = 0]
            /\ UNCHANGED pool
       ELSE /\ \E a \in FirstFit(BytesToGet(t), heap) :
                 MallocGives(BytesToGet(t), a) /\ NewPool(t, a)
            /\ UNCHANGED << live, n >>
    /\ UNCHANGED << _S_free_list, lock, oom_handler, outside, nobjs, chunk, moving >>

MallocFails(t) ==
    /\ pc[t] = "malloc"
    /\ Goto(t, "oom")
    /\ UNCHANGED << _S_free_list, pool, lock, oom_handler, heap, outside, live, calls >>

\* Mutant of ReadHandler: without a handler malloc is simply tried again.
RetryForever(t) ==
    /\ pc[t] = "oom"
    /\ Goto(t, IF oom_handler THEN "handler" ELSE "malloc")
    /\ UNCHANGED << _S_free_list, pool, lock, oom_handler, heap, outside, live, calls >>

ReadHandler(t) ==
    /\ pc[t] = "oom"
    /\ IF oom_handler
       THEN Goto(t, "handler") /\ UNCHANGED << lock, live, calls >>
       ELSE Throw(t)
    /\ UNCHANGED << _S_free_list, pool, oom_handler, heap, outside >>

\* The handler gives memory of the program back, or gives up by removing
\* itself; when nothing is left to give back it has to give up.
RunHandler(t) ==
    /\ pc[t] = "handler"
    /\ \/ \E b \in outside :
            /\ Free(b)
            /\ outside' = outside \ {b}
            /\ UNCHANGED oom_handler
       \/ /\ oom_handler' = FALSE
          /\ UNCHANGED << heap, outside >>
    /\ Goto(t, "malloc")
    /\ UNCHANGED << _S_free_list, pool, lock, live, calls >>

-----------------------------------------------------------------------------
(* deallocate and reallocate                                               *)

GiveBack(b) ==
    /\ live' = live \ {b}
    /\ IF Large(b.size)
       THEN Free(b) /\ UNCHANGED << _S_free_list, lock >>
       ELSE /\ lock = NoThread
            /\ _S_free_list' = Push(FreelistIndex(b.size), b.addr)
            /\ UNCHANGED << lock, heap >>

Deallocate(t, b) ==
    /\ Idle(t)
    /\ b \in Held
    /\ GiveBack(b)
    /\ UNCHANGED << pool, oom_handler, outside, pc, calls >>

\* Two large sizes are left to realloc, which may fail and then keeps the block.
ReallocateLarge(t, b, k) ==
    /\ Idle(t)
    /\ b \in Held
    /\ Large(b.size) /\ Large(k)
    /\ \E a \in FirstFit(k, heap \ {b}) :
         /\ heap' = (heap \ {b}) \union {Block(a, k)}
         /\ live' = (live \ {b}) \union {Block(a, k)}
    /\ UNCHANGED << _S_free_list, pool, lock, oom_handler, outside, pc, calls >>

\* Mutant of SameNode: the sizes are rounded down.
SameNodeDown(j, k) == j \div _ALIGN = k \div _ALIGN

SameNode(j, k) == RoundUp(j) = RoundUp(k)

ReallocateInPlace(t, b, k) ==
    /\ Idle(t)
    /\ b \in Held
    /\ ~ (Large(b.size) /\ Large(k))
    /\ SameNode(b.size, k)
    /\ live' = (live \ {b}) \union {Block(b.addr, k)}
    /\ UNCHANGED << _S_free_list, pool, lock, oom_handler, heap, outside, pc, calls >>

ReallocateByCopy(t, b, k) ==
    /\ Idle(t)
    /\ b \in Held
    /\ ~ (Large(b.size) /\ Large(k))
    /\ ~ SameNode(b.size, k)
    /\ Goto(t, IF Large(k) THEN "malloc" ELSE "call")
    /\ n' = [n EXCEPT ![t] = k]
    /\ moving' = [moving EXCEPT ![t] = {b}]
    /\ UNCHANGED << _S_free_list, pool, lock, oom_handler, heap, outside, live,
                    nobjs, chunk >>

ReleaseOld(t) ==
    /\ pc[t] = "release"
    /\ \E b \in moving[t] : GiveBack(b)
    /\ moving' = [moving EXCEPT ![t] = {}]
    /\ Goto(t, "idle")
    /\ UNCHANGED << pool, oom_handler, outside, n, nobjs, chunk >>

\* __set_malloc_handler(0), by anybody at any time.  (Bound: a handler is set
\* before the first call or never.)
RemoveHandler ==
    /\ oom_handler /\ oom_handler' = FALSE
    /\ UNCHANGED << _S_free_list, pool, lock, heap, outside, live, pc, calls >>

-----------------------------------------------------------------------------
\* What a thread does once it is inside the allocator.
Work(t) ==
    \/ PopNode(t) \/ RefillEmptyList(t) \/ LinkNodes(t)
    \/ ServeFromPool(t) \/ GetChunk(t) \/ TakeLargerNode(t) \/ AskMallocAlloc(t)
    \/ MallocSucceeds(t) \/ MallocFails(t) \/ ReadHandler(t) \/ RunHandler(t)

Call(t) ==
    \/ \E k \in Sizes : Allocate(t, k)
    \/ \E b \in Held : Deallocate(t, b)
    \/ \E b \in Held, k \in Sizes :
         ReallocateLarge(t, b, k) \/ ReallocateInPlace(t, b, k) \/ ReallocateByCopy(t, b, k)

Next ==
    \/ \E t \in Threads : Call(t) \/ EnterAllocate(t) \/ Work(t) \/ ReleaseOld(t)
    \/ RemoveHandler

Spec == Init /\ [][Next]_vars

\* A thread that is inside the allocator runs on; malloc gives memory or not.
Fairness == \A t \in Threads : WF_vars(Work(t)) /\ WF_vars(ReleaseOld(t))

FairSpec == Spec /\ Fairness

-----------------------------------------------------------------------------
(* Properties                                                              *)


FreeNodes == UNION {{Block(_S_free_list[i][j], NodeSize(i)) : j \in DOMAIN _S_free_list[i]}
                      : i \in Indices}
Pool == IF _S_start_free # 0 /\ BytesLeft > 0 THEN {Block(_S_start_free, BytesLeft)} ELSE {}
\* the nodes of a chunk that _S_refill has taken and not linked yet
InTransit == {Block(chunk[t], nobjs[t] * RoundUp(n[t])) :
                t \in {u \in Threads : pc[u] = "refill"}}
ClientNodes == {Block(b.addr, RoundUp(b.size)) : b \in {c \in live : ~ Large(c.size)}}
LargeBlocks == {b \in live : Large(b.size)}
Pieces == FreeNodes \union Pool \union InTransit \union ClientNodes \union LargeBlocks

Bytes(blocks) == UNION {Span(b) : b \in blocks}
Chunks == heap \ (outside \union LargeBlocks)

\* Every byte has one owner: a node is on one free list, or in the pool, or with
\* one client, however nodes are cut from leftovers, larger nodes and chunks.
NoOverlap ==
    /\ \A b, c \in Pieces : b # c => Apart(b, c)
    /\ \A i \in Indices : IsInjective(_S_free_list[i])

\* No byte of a chunk is ever lost: each belongs to a free node, the pool, a
\* client, or the chunk that is being linked.
Conservation == Bytes(Chunks) = Bytes(Pieces \ LargeBlocks)

\* bad_alloc is the last resort: while malloc_alloc is asked for a chunk, no
\* node that could serve the request is free.
LastResort ==
    \A t \in Threads :
        pc[t] \in InMalloc /\ ~ Large(n[t]) =>
            /\ BytesLeft = 0
            /\ \A i \in Indices : NodeSize(i) >= n[t] => _S_free_list[i] = << >>

Inside(t) == pc[t] \in Locked \union InMalloc

\* Every call that got the lock, or does not need it, returns or throws: the
\* passes of _S_chunk_alloc and the retries of _S_oom_malloc come to an end.
AllocateEnds == \A t \in Threads : Inside(t) ~> ~ Inside(t)

\* The allocator gives its clients blocks that never share a byte.
Abs == INSTANCE AbstractAllocator
ImplementsAllocator == Abs!AllocSpec
=============================================================================
