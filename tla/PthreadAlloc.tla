---------------------------- MODULE PthreadAlloc ----------------------------
(***************************************************************************)
(* _Pthread_alloc_template of pthread_alloc: a node allocator whose free   *)
(* lists belong to per-thread states that outlive their threads and are    *)
(* recycled, and whose pool is shared under _S_chunk_allocator_lock.       *)
(*                                                                         *)
(* A section that holds the lock is one step, as is everything a thread    *)
(* does to its own state; malloc_alloc gives memory or throws.  A thread   *)
(* that exits is replaced by a new one of the same name.                   *)
(***************************************************************************)
EXTENDS Naturals, Sequences, FiniteSets, FiniteSetsExt, Functions

CONSTANTS Threads, NoState,
          _S_ALIGN,      \* 8 in the code
          _Max_size,     \* 128 by default
          NObjs,         \* nodes asked for by _M_refill, 128 in the code
          GrowthDiv,     \* _S_heap_size >> 4 is a division by 16
          Sizes,         \* the sizes clients ask for, in bytes
          MemTop,        \* the last address malloc can hand out
          MaxStates,     \* bound: per-thread states that `new' can make
          MaxHeld,       \* bound: blocks the clients hold at a time
          ThrowsWithLeftover, \* may malloc_alloc throw while the pool has a rest?
          SetspecificFails    \* may pthread_setspecific return ENOMEM?

ASSUME PthreadAllocAssumption ==
    /\ {_S_ALIGN, _Max_size, NObjs, GrowthDiv, MemTop, MaxStates, MaxHeld} \subseteq Nat \ {0}
    /\ _Max_size % _S_ALIGN = 0
    /\ Sizes \subseteq Nat \ {0}
    /\ NoState \notin 1 .. MaxStates
    /\ ThrowsWithLeftover \in BOOLEAN /\ SetspecificFails \in BOOLEAN

VARIABLES __free_list,    \* [state -> [index -> sequence of node addresses]]
          states,         \* how many states `new' has made: 1 .. states
          free_states,    \* _S_free_per_thread_states, a stack
          specific,       \* what each thread has stored under _S_key
          _S_key_initialized,
          _S_start_free, _S_end_free, _S_heap_size,
          heap,           \* the blocks malloc has handed out
          live,           \* the blocks clients hold, with the size they asked for
          pc, n, nobjs, chunk,
          old             \* the block that deallocate or reallocate gives back

pool == << _S_start_free, _S_end_free, _S_heap_size >>
owners == << states, free_states, specific, _S_key_initialized >>
calls == << n, nobjs, chunk, old >>
vars == << __free_list, owners, pool, heap, live, pc, calls >>

Block(a, k) == [addr |-> a, size |-> k]
Span(b) == b.addr .. (b.addr + b.size - 1)
Apart(b, c) == b.addr + b.size <= c.addr \/ c.addr + c.size <= b.addr

RoundUp(k) == ((k + _S_ALIGN - 1) \div _S_ALIGN) * _S_ALIGN
FreelistIndex(k) == (k + _S_ALIGN - 1) \div _S_ALIGN - 1
Indices == 0 .. (_Max_size \div _S_ALIGN - 1)
NodeSize(i) == (i + 1) * _S_ALIGN
Large(k) == k > _Max_size

States == 1 .. MaxStates
BytesLeft == _S_end_free - _S_start_free
EmptyLists == [i \in Indices |-> << >>]

TypeOK ==
    /\ __free_list \in [States -> [Indices -> Seq(1 .. MemTop)]]
    /\ states \in 0 .. MaxStates
    /\ free_states \in Seq(1 .. states)
    /\ specific \in [Threads -> (1 .. states) \union {NoState}]
    /\ _S_key_initialized \in BOOLEAN
    /\ _S_start_free \in 0 .. (MemTop + 1) /\ _S_end_free \in _S_start_free .. (MemTop + 1)
    /\ _S_heap_size \in 0 .. MemTop
    /\ \A b \in live : b.addr \in 1 .. MemTop /\ b.size \in Sizes
    /\ pc \in [Threads -> {"idle", "allocate", "deallocate", "newState", "refill", "link"}]
    /\ n \in [Threads -> Sizes \union {0}]
    /\ nobjs \in [Threads -> 0 .. NObjs]
    /\ chunk \in [Threads -> 0 .. MemTop]
    /\ \A t \in Threads : old[t] \subseteq live /\ Cardinality(old[t]) <= 1

Init ==
    /\ __free_list = [s \in States |-> EmptyLists]
    /\ states = 0 /\ free_states = << >>
    /\ specific = [t \in Threads |-> NoState]
    /\ _S_key_initialized = FALSE
    /\ _S_start_free = 0 /\ _S_end_free = 0 /\ _S_heap_size = 0
    /\ heap = {} /\ live = {}
    /\ pc = [t \in Threads |-> "idle"]
    /\ n = [t \in Threads |-> 0]
    /\ nobjs = [t \in Threads |-> 0]
    /\ chunk = [t \in Threads |-> 0]
    /\ old = [t \in Threads |-> {}]

-----------------------------------------------------------------------------
(* malloc and free: first fit and aligned                                  *)

Fits(k, used) ==
    {a \in 1 .. MemTop : a % _S_ALIGN = 0 /\ a + k <= MemTop + 1
                         /\ \A b \in used : Apart(b, Block(a, k))}
FirstFit(k, used) == {Min(f) : f \in {Fits(k, used)} \ {{}}}

MallocGives(k, a) == heap' = heap \union {Block(a, k)}

-----------------------------------------------------------------------------
(* Helpers                                                                 *)

Goto(t, label) == pc' = [pc EXCEPT ![t] = label]

Push(s, i, a) == [__free_list EXCEPT ![s][i] = << a >> \o @]

Held == live \ UNION {old[t] : t \in Threads}

EndCall(t) ==
    /\ n' = [n EXCEPT ![t] = 0] /\ nobjs' = [nobjs EXCEPT ![t] = 0]
    /\ chunk' = [chunk EXCEPT ![t] = 0]

\* allocate returns block a; reallocate then gives the old block back.
Return(t, a) ==
    /\ live' = live \union {Block(a, n[t])}
    /\ Goto(t, IF old[t] = {} THEN "idle" ELSE "deallocate")
    /\ EndCall(t)
    /\ UNCHANGED old

Throw(t) ==
    /\ Goto(t, "idle")
    /\ EndCall(t)
    /\ old' = [old EXCEPT ![t] = {}]
    /\ UNCHANGED live

\* The unlocked look at _S_key_initialized and at the thread's own value.
HasState(t) == _S_key_initialized /\ specific[t] # NoState

-----------------------------------------------------------------------------
(* Calls                                                                   *)

Allocate(t, k) ==
    /\ pc[t] = "idle" /\ Cardinality(live) < MaxHeld
    /\ ~ Large(k)
    /\ n' = [n EXCEPT ![t] = k]
    /\ Goto(t, "allocate")
    /\ UNCHANGED << __free_list, owners, pool, heap, live, nobjs, chunk, old >>

Deallocate(t, b) ==
    /\ pc[t] = "idle" /\ b \in Held
    /\ ~ Large(b.size)
    /\ old' = [old EXCEPT ![t] = {b}]
    /\ Goto(t, "deallocate")
    /\ UNCHANGED << __free_list, owners, pool, heap, live, n, nobjs, chunk >>

SameNode(j, k) == RoundUp(j) = RoundUp(k)

ReallocateInPlace(t, b, k) ==
    /\ pc[t] = "idle" /\ b \in Held
    /\ ~ Large(b.size) /\ ~ Large(k) /\ SameNode(b.size, k)
    /\ live' = (live \ {b}) \union {Block(b.addr, k)}
    /\ UNCHANGED << __free_list, owners, pool, heap, pc, calls >>

ReallocateByCopy(t, b, k) ==
    /\ pc[t] = "idle" /\ b \in Held
    /\ ~ Large(b.size) /\ ~ Large(k) /\ ~ SameNode(b.size, k)
    /\ n' = [n EXCEPT ![t] = k]
    /\ old' = [old EXCEPT ![t] = {b}]
    /\ Goto(t, "allocate")
    /\ UNCHANGED << __free_list, owners, pool, heap, live, nobjs, chunk >>

-----------------------------------------------------------------------------
(* Per-thread states                                                       *)

NeedState(t) ==
    /\ pc[t] \in {"allocate", "deallocate"} /\ ~ HasState(t)
    /\ Goto(t, "newState")
    /\ UNCHANGED << __free_list, owners, pool, heap, live, calls >>

\* Mutant of TakesState: the recycled state stays on the stack.
SharesState(s) ==
    IF free_states # << >>
    THEN s = Head(free_states) /\ UNCHANGED << states, free_states >>
    ELSE s = states + 1 /\ s \in States /\ states' = s /\ UNCHANGED free_states

\* _S_new_per_thread_state: a recycled state with its lists, or a new one.
TakesState(s) ==
    IF free_states # << >>
    THEN s = Head(free_states) /\ free_states' = Tail(free_states) /\ UNCHANGED states
    ELSE s = states + 1 /\ s \in States /\ states' = s /\ UNCHANGED free_states

\* What the thread was doing when it found that it has no state: it has a size
\* to allocate, or only a block to give back.
Purpose(t) == IF n[t] # 0 THEN "allocate" ELSE "deallocate"

\* _S_get_per_thread_state, under the lock
GetState(t) ==
    /\ pc[t] = "newState"
    /\ \E s \in States : TakesState(s) /\ specific' = [specific EXCEPT ![t] = s]
    /\ _S_key_initialized' = TRUE
    /\ Goto(t, Purpose(t))
    /\ UNCHANGED << __free_list, pool, heap, live, calls >>

\* pthread_key_create fails, or `new' does after it.
GetStateThrows(t) ==
    /\ pc[t] = "newState"
    /\ \/ ~ _S_key_initialized /\ UNCHANGED _S_key_initialized
       \/ free_states = << >> /\ _S_key_initialized' = TRUE
    /\ Throw(t)
    /\ UNCHANGED << __free_list, states, free_states, specific, pool, heap >>

\* pthread_setspecific fails: bad_alloc, and the state is not put back on the
\* stack: nobody will use it or its nodes again.
SetspecificThrows(t) ==
    /\ SetspecificFails
    /\ pc[t] = "newState"
    /\ \E s \in States : TakesState(s)
    /\ _S_key_initialized' = TRUE
    /\ Throw(t)
    /\ UNCHANGED << __free_list, specific, pool, heap >>

\* _S_destructor, under the lock, when a thread ends
ThreadExit(t) ==
    /\ pc[t] = "idle" /\ specific[t] # NoState
    /\ free_states' = << specific[t] >> \o free_states
    /\ specific' = [specific EXCEPT ![t] = NoState]
    /\ UNCHANGED << __free_list, states, _S_key_initialized, pool, heap, live, pc, calls >>

-----------------------------------------------------------------------------
(* allocate, deallocate and _M_refill on the thread's own lists            *)

PopNode(t) ==
    LET s == specific[t]
        i == FreelistIndex(n[t])
    IN
    /\ pc[t] = "allocate" /\ HasState(t)
    /\ __free_list[s][i] # << >>
    /\ __free_list' = [__free_list EXCEPT ![s][i] = Tail(@)]
    /\ Return(t, Head(__free_list[s][i]))
    /\ UNCHANGED << owners, pool, heap >>

RefillEmptyList(t) ==
    /\ pc[t] = "allocate" /\ HasState(t)
    /\ __free_list[specific[t]][FreelistIndex(n[t])] = << >>
    /\ nobjs' = [nobjs EXCEPT ![t] = NObjs]
    /\ Goto(t, "refill")
    /\ UNCHANGED << __free_list, owners, pool, heap, live, n, chunk, old >>

\* Mutant of LinkNodes: the client's node is linked too.
LinkAllNodes(t) ==
    LET size == RoundUp(n[t])
        i == FreelistIndex(n[t])
    IN
    /\ pc[t] = "link"
    /\ __free_list' = IF nobjs[t] = 1 THEN __free_list
                      ELSE [__free_list EXCEPT ![specific[t]][i] =
                              [j \in 1 .. nobjs[t] |-> chunk[t] + (j - 1) * size]]
    /\ Return(t, chunk[t])
    /\ UNCHANGED << owners, pool, heap >>

LinkNodes(t) ==
    LET size == RoundUp(n[t])
        i == FreelistIndex(n[t])
    IN
    /\ pc[t] = "link"
    /\ __free_list' = IF nobjs[t] = 1 THEN __free_list
                      ELSE [__free_list EXCEPT ![specific[t]][i] =
                              [j \in 1 .. nobjs[t] - 1 |-> chunk[t] + j * size]]
    /\ Return(t, chunk[t])
    /\ UNCHANGED << owners, pool, heap >>

\* Mutant of PushNode: the block goes to the list of the next larger size.
PushNodeWrongList(t) ==
    /\ pc[t] = "deallocate" /\ HasState(t)
    /\ \E b \in old[t] :
         /\ __free_list' = Push(specific[t], (b.size + _S_ALIGN - 1) \div _S_ALIGN % 2, b.addr)
         /\ live' = live \ {b}
    /\ old' = [old EXCEPT ![t] = {}]
    /\ Goto(t, "idle")
    /\ UNCHANGED << owners, pool, heap, n, nobjs, chunk >>

PushNode(t) ==
    /\ pc[t] = "deallocate" /\ HasState(t)
    /\ \E b \in old[t] :
         /\ __free_list' = Push(specific[t], FreelistIndex(b.size), b.addr)
         /\ live' = live \ {b}
    /\ old' = [old EXCEPT ![t] = {}]
    /\ Goto(t, "idle")
    /\ UNCHANGED << owners, pool, heap, n, nobjs, chunk >>

-----------------------------------------------------------------------------
(* _S_chunk_alloc: each pass takes the lock anew, so what one pass gets    *)
(* from malloc another thread may take before the next pass.               *)

ServeFromPool(t) ==
    LET size == RoundUp(n[t])
        served == Min({nobjs[t], BytesLeft \div size})
    IN
    /\ pc[t] = "refill"
    /\ BytesLeft >= size
    /\ nobjs' = [nobjs EXCEPT ![t] = served]
    /\ chunk' = [chunk EXCEPT ![t] = _S_start_free]
    /\ _S_start_free' = _S_start_free + served * size
    /\ Goto(t, "link")
    /\ UNCHANGED << __free_list, owners, _S_end_free, _S_heap_size, heap, live, n, old >>

BytesToGet(t) ==
    2 * RoundUp(n[t]) * nobjs[t] + RoundUp(_S_heap_size \div GrowthDiv)

\* Mutant of KeepLeftover: the rest of the pool is forgotten.
ForgetLeftover(t) == __free_list' = __free_list

\* The rest of the pool goes to a list of the calling thread.
KeepLeftover(t) ==
    __free_list' = IF BytesLeft > 0
                   THEN Push(specific[t], FreelistIndex(BytesLeft), _S_start_free)
                   ELSE __free_list

\* Mutant of GetChunk: the end of the pool is computed from the new heap size.
GetChunkTooLong(t) ==
    LET size == _S_heap_size + BytesToGet(t) IN
    /\ pc[t] = "refill"
    /\ BytesLeft < RoundUp(n[t])
    /\ KeepLeftover(t)
    /\ \E a \in FirstFit(BytesToGet(t), heap) :
         /\ MallocGives(BytesToGet(t), a)
         /\ _S_start_free' = a
         /\ _S_end_free' = a + BytesToGet(t) + RoundUp(size \div GrowthDiv)
    /\ _S_heap_size' = size
    /\ UNCHANGED << owners, live, pc, calls >>

GetChunk(t) ==
    /\ pc[t] = "refill"
    /\ BytesLeft < RoundUp(n[t])
    /\ KeepLeftover(t)
    /\ \E a \in FirstFit(BytesToGet(t), heap) :
         /\ MallocGives(BytesToGet(t), a)
         /\ _S_start_free' = a
         /\ _S_end_free' = a + BytesToGet(t)
    /\ _S_heap_size' = _S_heap_size + BytesToGet(t)
    /\ UNCHANGED << owners, live, pc, calls >>

\* malloc_alloc throws after the rest of the pool was put on a list; the pool
\* itself is left as it was.
GetChunkThrows(t) ==
    /\ pc[t] = "refill"
    /\ BytesLeft < RoundUp(n[t])
    /\ BytesLeft > 0 => ThrowsWithLeftover
    /\ KeepLeftover(t)
    /\ Throw(t)
    /\ UNCHANGED << owners, pool, heap >>

-----------------------------------------------------------------------------
Call(t) ==
    \/ \E k \in Sizes : Allocate(t, k)
    \/ \E b \in Held : Deallocate(t, b)
    \/ \E b \in Held, k \in Sizes : ReallocateInPlace(t, b, k) \/ ReallocateByCopy(t, b, k)

Work(t) ==
    \/ NeedState(t) \/ GetState(t) \/ GetStateThrows(t) \/ SetspecificThrows(t)
    \/ PopNode(t) \/ RefillEmptyList(t) \/ LinkNodes(t) \/ PushNode(t)
    \/ ServeFromPool(t) \/ GetChunk(t) \/ GetChunkThrows(t)

Next == \E t \in Threads : Call(t) \/ Work(t) \/ ThreadExit(t)

Spec == Init /\ [][Next]_vars

-----------------------------------------------------------------------------
(* Properties                                                              *)

FreeNodesOf(s) ==
    UNION {{Block(__free_list[s][i][j], NodeSize(i)) : j \in DOMAIN __free_list[s][i]}
             : i \in Indices}
FreeNodes == UNION {FreeNodesOf(s) : s \in States}
Pool == IF BytesLeft > 0 THEN {Block(_S_start_free, BytesLeft)} ELSE {}
InTransit == {Block(chunk[t], nobjs[t] * RoundUp(n[t])) :
                t \in {u \in Threads : pc[u] = "link"}}
ClientNodes == {Block(b.addr, RoundUp(b.size)) : b \in live}
Pieces == FreeNodes \union Pool \union InTransit \union ClientNodes

\* A node is on one list of one thread's state, or in the shared pool, or with
\* one client: threads that free each other's nodes, exit, and take over the
\* states of dead threads never come to own the same bytes.
NoOverlap ==
    /\ \A b, c \in Pieces : b # c => Apart(b, c)
    /\ \A s, r \in States : \A i \in Indices :
         /\ IsInjective(__free_list[s][i])
         /\ s # r => \A j \in DOMAIN __free_list[s][i] :
                       \A k \in DOMAIN __free_list[r][i] :
                           __free_list[s][i][j] # __free_list[r][i][k]

\* Every byte that malloc gave is still owned by somebody.
Conservation == UNION {Span(b) : b \in heap} = UNION {Span(b) : b \in Pieces}

\* The lists of a state are used without a lock: no two threads share a state,
\* and a state that waits to be recycled has no thread.
StatesArePrivate ==
    /\ \A t, u \in Threads : t # u /\ specific[t] # NoState => specific[t] # specific[u]
    /\ IsInjective(free_states)
    /\ \A j \in DOMAIN free_states : \A t \in Threads : specific[t] # free_states[j]

Abs == INSTANCE AbstractAllocator
ImplementsAllocator == Abs!AllocSpec
=============================================================================
