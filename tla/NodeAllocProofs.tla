--------------------------- MODULE NodeAllocProofs --------------------------
(***************************************************************************)
(* The node allocator, for any threads, sizes, alignment and memory: every *)
(* byte of every chunk has one owner, whatever malloc refuses, bad_alloc   *)
(* is the last resort, and clients never see two blocks that overlap.      *)
(* That calls end is left to TLC.                                          *)
(***************************************************************************)
EXTENDS NodeAlloc, Tilings

-----------------------------------------------------------------------------
(* The inductive invariant                                                 *)

Blocks == [addr : 1 .. MemTop, size : Sizes]
Chunk == [addr : 1 .. MemTop, size : Nat \ {0}]

\* What a small request of a thread may still need from _S_chunk_alloc.
Refilling == {"chunk", "scavenge", "refill"}
SmallInMalloc(t) == pc[t] \in InMalloc /\ ~ Large(n[t])

\* The control points against the lock and the local variables.
ControlInv ==
    /\ lock \in Threads \union {NoThread}
    /\ \A t \in Threads : lock = t <=> HasLock(t)
    /\ pc \in [Threads -> Labels]
    /\ n \in [Threads -> Sizes \union {0}]
    /\ nobjs \in [Threads -> 0 .. NObjs]
    /\ \A t \in Threads :
         /\ pc[t] \in Locked \union {"call"} => n[t] \in Sizes /\ ~ Large(n[t])
         /\ pc[t] \in InMalloc => n[t] \in Sizes
         /\ pc[t] \in Refilling \/ SmallInMalloc(t) => nobjs[t] # 0

\* A block that reallocate will give back is a client's, and nobody else's call
\* is about to give it back.
MovingInv ==
    /\ live \subseteq Blocks
    /\ moving \in [Threads -> SUBSET live]
    /\ \A t \in Threads : \A b, c \in moving[t] : b = c
    /\ \A t, u \in Threads : t # u => moving[t] \cap moving[u] = {}

\* The lists have addresses, each at most once.
ListsInv ==
    /\ _S_free_list \in [Indices -> Seq(1 .. MemTop)]
    /\ \A i \in Indices : IsInjective(_S_free_list[i])

\* The pool is made of whole units.
PoolInv ==
    /\ _S_start_free \in 0 .. MemTop + 1 /\ _S_end_free \in _S_start_free .. MemTop + 1
    /\ _S_start_free # 0 => MultipleOf(BytesLeft, _ALIGN)

\* Under the lock the list that is being refilled stays empty.  There is no
\* pool while larger nodes are searched, and neither pool nor larger nodes
\* while malloc_alloc is asked.
RefillInv ==
    /\ \A t \in Threads :
         /\ pc[t] \in Refilling \/ SmallInMalloc(t) =>
              _S_free_list[FreelistIndex(n[t])] = << >>
         /\ pc[t] = "scavenge" => _S_start_free = 0
         /\ SmallInMalloc(t) =>
              /\ _S_start_free = 0
              /\ \A i \in Indices : NodeSize(i) >= RoundUp(n[t]) => _S_free_list[i] = << >>
    /\ (\A t \in Threads : pc[t] # "scavenge") /\ _S_start_free = 0 => _S_end_free = 0

\* What malloc handed out: blocks of the program, large blocks of clients, and
\* the chunks that nodes are cut from.
HeapInv ==
    /\ heap \subseteq Chunk
    /\ \A b \in heap : b.addr + b.size <= MemTop + 1
    /\ \A b, c \in heap : b # c => Apart(b, c)
    /\ outside \subseteq heap
    /\ LargeBlocks \subseteq heap
    /\ outside \cap LargeBlocks = {}

\* A place is a piece that says what it is: for a client's node also the size
\* asked for, so that no two clients have the same place.
Place(kind, asked, a, k) == [kind |-> kind, asked |-> asked, addr |-> a, size |-> k]

FreePlace(i, a) == Place("free", i, a, NodeSize(i))
PlacesOn(i) == {FreePlace(i, a) : a \in Range(_S_free_list[i])}
FreePlaces == UNION {PlacesOn(i) : i \in Indices}

PoolPlace(a, k) == Place("pool", 0, a, k)
PoolPlaces == IF _S_start_free # 0 /\ BytesLeft > 0 THEN {PoolPlace(_S_start_free, BytesLeft)}
              ELSE {}

TransitPlace(a, k) == Place("transit", 0, a, k)
TransitPlaces == {TransitPlace(chunk[t], nobjs[t] * RoundUp(n[t])) :
                    t \in {u \in Threads : pc[u] = "refill"}}

ClientPlace(b) == Place("client", b.size, b.addr, RoundUp(b.size))
ClientPlaces == {ClientPlace(b) : b \in {c \in live : ~ Large(c.size)}}

Places == FreePlaces \union PoolPlaces \union TransitPlaces \union ClientPlaces

PlacesInv == Tiles(Places, Chunks)

\* _S_heap_size is the number of bytes of the chunks.
SizeInv ==
    /\ IsFiniteSet(Covered(Chunks))
    /\ _S_heap_size = Cardinality(Covered(Chunks))

MemoryInv == ListsInv /\ PoolInv /\ HeapInv /\ PlacesInv /\ SizeInv

IInv ==
    /\ ControlInv /\ MovingInv /\ RefillInv /\ MemoryInv
    /\ oom_handler \in BOOLEAN
    /\ chunk \in [Threads -> 0 .. MemTop]

-----------------------------------------------------------------------------
(* Sizes                                                                   *)

\* The types of the constants, in the form in which the proofs use them.
LEMMA Parameters ==
  /\ _ALIGN \in Nat \ {0} /\ _MAX_BYTES \in Nat \ {0} /\ NObjs \in Nat \ {0}
  /\ GrowthDiv \in Nat \ {0} /\ MemTop \in Nat \ {0} /\ Sizes \subseteq Nat \ {0}
  /\ NoThread \notin Threads
BY NodeAllocAssumption

(***************************************************************************)
(* _S_round_up and _S_freelist_index for the sizes that have a list: the   *)
(* node of the list has the rounded size, a multiple of the alignment.     *)
(***************************************************************************)
LEMMA SmallSizes ==
  ASSUME NEW k \in Nat \ {0}, ~ Large(k)
  PROVE  /\ RoundUp(k) \in Nat \ {0} /\ k <= RoundUp(k) /\ RoundUp(k) <= _MAX_BYTES
         /\ MultipleOf(RoundUp(k), _ALIGN)
         /\ FreelistIndex(k) \in Indices
         /\ NodeSize(FreelistIndex(k)) = RoundUp(k)
<1>1. /\ _ALIGN \in Nat \ {0} /\ _MAX_BYTES \in Nat
      /\ k <= _MAX_BYTES /\ _MAX_BYTES % _ALIGN = 0
  BY Parameters, NodeAllocAssumption DEF Large
<1>2. RoundUp(k) = Up(k, _ALIGN) * _ALIGN /\ FreelistIndex(k) = Up(k, _ALIGN) - 1
  BY DEF RoundUp, FreelistIndex, Up
<1>3. Indices = 0 .. (_MAX_BYTES \div _ALIGN - 1)
  BY DEF Indices
<1>4. IsListOf(Up(k, _ALIGN), k, _ALIGN, _MAX_BYTES)
  BY <1>1, SizeOfList
<1>5. QED
  BY <1>2, <1>3, <1>4 DEF NodeSize, IsListOf

(***************************************************************************)
(* A multiple of the alignment is its own rounded size, so what is left of *)
(* the pool fits its list exactly.                                         *)
(***************************************************************************)
LEMMA WholeSizes ==
  ASSUME NEW k \in Nat \ {0}, MultipleOf(k, _ALIGN)
  PROVE  RoundUp(k) = k
<1>1. PICK q \in Nat : k = q * _ALIGN
  BY DEF MultipleOf
<1>2. QED
  BY <1>1, Parameters, UpOfMultiple DEF Up, RoundUp

(***************************************************************************)
(* The node sizes: a node that is large enough for a size is large enough  *)
(* for the rounded size, and has at least the alignment's.                 *)
(***************************************************************************)
LEMMA NodeSizes ==
  ASSUME NEW i \in Indices
  PROVE  /\ NodeSize(i) \in Nat \ {0}
         /\ MultipleOf(NodeSize(i), _ALIGN)
         /\ \A k \in Nat \ {0} : k <= NodeSize(i) => RoundUp(k) <= NodeSize(i)
<1> USE Parameters
<1>1. i \in Nat /\ i + 1 \in Nat \ {0}
  BY DEF Indices
<1>2. NodeSize(i) \in Nat \ {0} /\ MultipleOf(NodeSize(i), _ALIGN)
  BY <1>1 DEF NodeSize, MultipleOf
<1>3. ASSUME NEW k \in Nat \ {0}, k <= NodeSize(i) PROVE RoundUp(k) <= NodeSize(i)
  <2>1. Up(k, _ALIGN) <= i + 1
    BY <1>1, <1>3, UpLeast DEF NodeSize
  <2>2. Up(k, _ALIGN) * _ALIGN <= (i + 1) * _ALIGN
    BY <2>1, <1>1, UpBounds, ProductOrder
  <2>3. QED
    BY <2>2 DEF NodeSize, RoundUp, Up
<1>4. QED
  BY <1>2, <1>3

(***************************************************************************)
(* What malloc gives lies in memory and is apart from all that is in use.  *)
(***************************************************************************)
LEMMA FirstFits ==
  ASSUME NEW k \in Nat, NEW used, NEW a \in FirstFit(k, used)
  PROVE  a \in 1 .. MemTop /\ a + k <= MemTop + 1 /\ \A b \in used : Apart(b, Block(a, k))
<1>1. Fits(k, used) # {} /\ a = Min(Fits(k, used))
  BY DEF FirstFit
<1>2. Fits(k, used) \subseteq Nat
  BY Parameters DEF Fits
<1>3. a \in Fits(k, used)
  BY <1>1, <1>2, MinExists
<1>4. QED
  BY <1>3 DEF Fits

(***************************************************************************)
(* How many nodes the pool serves: at least one, at most as many as were   *)
(* asked for, and no more than it has.                                     *)
(***************************************************************************)
Served(t) == Min({nobjs[t], BytesLeft \div RoundUp(n[t])})

\* From a pool with room for a node, the nodes that are served fit into it.
LEMMA ServedNodes ==
  ASSUME ControlInv, PoolInv, NEW t \in Threads, pc[t] = "chunk", BytesLeft >= RoundUp(n[t])
  PROVE  /\ Served(t) \in Nat \ {0} /\ Served(t) <= nobjs[t] /\ Served(t) <= NObjs
         /\ RoundUp(n[t]) \in Nat \ {0} /\ MultipleOf(RoundUp(n[t]), _ALIGN)
         /\ Served(t) * RoundUp(n[t]) \in Nat \ {0}
         /\ Served(t) * RoundUp(n[t]) <= BytesLeft
<1> DEFINE size == RoundUp(n[t])
<1>1. n[t] \in Nat \ {0} /\ ~ Large(n[t]) /\ nobjs[t] \in Nat \ {0} /\ nobjs[t] <= NObjs
  <2>1. n[t] \in Sizes /\ ~ Large(n[t])
    BY DEF ControlInv, Locked
  <2>2. nobjs[t] \in 0 .. NObjs /\ nobjs[t] # 0
    BY DEF ControlInv, Refilling
  <2>3. n[t] \in Nat \ {0}
    BY <2>1, Parameters
  <2>4. nobjs[t] \in Nat \ {0} /\ nobjs[t] <= NObjs
    BY <2>2, Parameters
  <2>5. QED
    BY <2>1, <2>3, <2>4
<1>2. size \in Nat \ {0} /\ MultipleOf(size, _ALIGN)
  BY <1>1, SmallSizes
<1>3. BytesLeft \in Nat /\ size <= BytesLeft
  BY <1>2, Parameters DEF PoolInv, BytesLeft
<1>4. Served(t) = Min({nobjs[t], BytesLeft \div size})
  BY DEF Served
<1> HIDE DEF size
<1>5. /\ Served(t) \in Nat \ {0} /\ Served(t) <= nobjs[t]
      /\ Served(t) * size \in Nat \ {0} /\ Served(t) * size <= BytesLeft
  BY <1>1, <1>2, <1>3, <1>4, ServedRun
<1>6. Served(t) <= NObjs
  BY <1>1, <1>5, Parameters
<1>7. QED
  BY <1>2, <1>5, <1>6 DEF size

(***************************************************************************)
(* A chunk is asked for in whole units, and at least one.                  *)
(***************************************************************************)
LEMMA WholeChunks ==
  ASSUME ControlInv, SizeInv, NEW t \in Threads, pc[t] = "chunk" \/ SmallInMalloc(t)
  PROVE  BytesToGet(t) \in Nat \ {0} /\ MultipleOf(BytesToGet(t), _ALIGN)
<1> DEFINE size == RoundUp(n[t])
<1>1. n[t] \in Nat \ {0} /\ ~ Large(n[t])
  <2>1. n[t] \in Sizes /\ ~ Large(n[t])
    BY DEF ControlInv, Locked, SmallInMalloc
  <2>2. QED
    BY <2>1, Parameters
<1>2. nobjs[t] \in Nat \ {0}
  <2>1. nobjs[t] \in 0 .. NObjs /\ nobjs[t] # 0
    BY DEF ControlInv, Refilling
  <2>2. QED
    BY <2>1, Parameters
<1>3. size \in Nat \ {0} /\ MultipleOf(size, _ALIGN)
  BY <1>1, SmallSizes
<1>4. _S_heap_size \in Nat
  BY FS_CardinalityType DEF SizeInv
<1>5. BytesToGet(t) = 2 * size * nobjs[t] + Up(_S_heap_size \div GrowthDiv, _ALIGN) * _ALIGN
  BY DEF BytesToGet, RoundUp, Up
<1> HIDE DEF size
<1>6. QED
  BY <1>2, <1>3, <1>4, <1>5, Parameters, WholeChunk

-----------------------------------------------------------------------------
(* Control                                                                 *)

\* Each action keeps the control points, the locals of its thread, and one
\* holder of the lock.
LEMMA ControlStep == IInv /\ [Next]_vars => ControlInv'
<1> SUFFICES ASSUME ControlInv, PoolInv, [Next]_vars PROVE ControlInv'
  BY DEF IInv, MemoryInv
<1> USE Parameters DEF ControlInv, Labels, Locked, InMalloc, Refilling, SmallInMalloc, HasLock,
                       Goto, calls
<1>1. ASSUME NEW t \in Threads, NEW k \in Sizes, Allocate(t, k) PROVE ControlInv'
  BY <1>1 DEF Allocate, Idle
<1>2. ASSUME NEW t \in Threads, EnterAllocate(t) PROVE ControlInv'
  BY <1>2 DEF EnterAllocate, AcquireLock
<1>3. ASSUME NEW t \in Threads, PopNode(t) PROVE ControlInv'
  BY <1>3 DEF PopNode, Return
<1>4. ASSUME NEW t \in Threads, RefillEmptyList(t) PROVE ControlInv'
  BY <1>4 DEF RefillEmptyList
<1>5. ASSUME NEW t \in Threads, LinkNodes(t) PROVE ControlInv'
  BY <1>5 DEF LinkNodes, Return
<1>6. ASSUME NEW t \in Threads, ServeFromPool(t) PROVE ControlInv'
  <2>1. Served(t) \in 0 .. NObjs /\ Served(t) # 0 /\ nobjs' = [nobjs EXCEPT ![t] = Served(t)]
    BY <1>6, ServedNodes DEF ServeFromPool, Served
  <2>2. QED
    BY <1>6, <2>1 DEF ServeFromPool
<1>7. ASSUME NEW t \in Threads, GetChunk(t) PROVE ControlInv'
  BY <1>7 DEF GetChunk, NewPool
<1>8. ASSUME NEW t \in Threads, TakeLargerNode(t) PROVE ControlInv'
  BY <1>8 DEF TakeLargerNode
<1>9. ASSUME NEW t \in Threads, AskMallocAlloc(t) PROVE ControlInv'
  BY <1>9 DEF AskMallocAlloc
<1>10. ASSUME NEW t \in Threads, MallocSucceeds(t) PROVE ControlInv'
  BY <1>10 DEF MallocSucceeds, NewPool
<1>11. ASSUME NEW t \in Threads, MallocFails(t) PROVE ControlInv'
  BY <1>11 DEF MallocFails
<1>12. ASSUME NEW t \in Threads, ReadHandler(t) PROVE ControlInv'
  BY <1>12 DEF ReadHandler, Throw
<1>13. ASSUME NEW t \in Threads, RunHandler(t) PROVE ControlInv'
  BY <1>13 DEF RunHandler
<1>14. ASSUME NEW t \in Threads, NEW b \in Held, NEW k \in Sizes, ReallocateByCopy(t, b, k)
       PROVE  ControlInv'
  BY <1>14 DEF ReallocateByCopy, Idle
<1>15. ASSUME NEW t \in Threads, ReleaseOld(t) PROVE ControlInv'
  BY <1>15 DEF ReleaseOld, GiveBack
<1>16. ASSUME UNCHANGED << lock, pc, n, nobjs >> PROVE ControlInv'
  BY <1>16
<1>17. QED
  <2>1. ASSUME NEW t \in Threads, NEW b \in Held, NEW k \in Sizes,
               Deallocate(t, b) \/ ReallocateLarge(t, b, k) \/ ReallocateInPlace(t, b, k)
        PROVE  ControlInv'
    BY <1>16, <2>1 DEF Deallocate, GiveBack, ReallocateLarge, ReallocateInPlace
  <2>2. ASSUME NEW t \in Threads, NEW b \in Held, Deallocate(t, b) PROVE ControlInv'
    BY <1>16, <2>2 DEF Deallocate, GiveBack
  <2>3. CASE RemoveHandler \/ UNCHANGED vars
    BY <1>16, <2>3 DEF RemoveHandler, vars
  <2>4. QED
    BY <1>1, <1>2, <1>3, <1>4, <1>5, <1>6, <1>7, <1>8, <1>9, <1>10, <1>11, <1>12, <1>13,
       <1>14, <1>15, <2>1, <2>2, <2>3 DEF Next, Call, Work

-----------------------------------------------------------------------------
(* Clients' blocks and the ones that reallocate moves                      *)

(***************************************************************************)
(* Places lie in the memory of malloc, so they do not start at the null    *)
(* pointer.                                                                *)
(***************************************************************************)
LEMMA PlacesInMemory ==
  ASSUME HeapInv, PlacesInv, NEW p \in Places
  PROVE  /\ p.addr \in 1 .. MemTop /\ p.size \in Nat \ {0} /\ p.addr + p.size <= MemTop + 1
         /\ \E c \in Chunks : Within(p, c)
<1>1. PICK c \in Chunks : Within(p, c)
  BY DEF PlacesInv, Tiles
<1>2. /\ c \in heap /\ c.addr \in 1 .. MemTop /\ c.size \in Nat \ {0}
      /\ c.addr + c.size <= MemTop + 1
  BY DEF HeapInv, Chunks, Chunk
<1>3. p.addr \in Nat /\ p.size \in Nat \ {0}
  BY DEF PlacesInv, Tiles, IsExtent
<1>4. QED
  BY <1>1, <1>2, <1>3, Parameters DEF Within

\* The chunk that is being linked begins inside of memory.
LEMMA RefillChunk ==
  ASSUME HeapInv, PlacesInv, NEW t \in Threads, pc[t] = "refill"
  PROVE  chunk[t] \in 1 .. MemTop
<1>1. TransitPlace(chunk[t], nobjs[t] * RoundUp(n[t])) \in Places
  BY DEF Places, TransitPlaces
<1>2. QED
  BY <1>1, PlacesInMemory DEF TransitPlace, Place

(***************************************************************************)
(* Only the thread that moves a block gives it back or exchanges it.       *)
(***************************************************************************)
LEMMA MovingStep == IInv /\ [Next]_vars => MovingInv'
<1> SUFFICES ASSUME IInv, [Next]_vars PROVE MovingInv'
  OBVIOUS
<1> USE Parameters DEF IInv, MemoryInv, MovingInv
\* A block is added, and the calls keep what they move.
<1>1. ASSUME NEW b \in Blocks, live' = live \union {b}, moving' = moving PROVE MovingInv'
  BY <1>1
<1>2. ASSUME NEW t \in Threads, NEW k \in Sizes, Allocate(t, k) PROVE MovingInv'
  BY <1>2 DEF Allocate
<1>3. ASSUME NEW t \in Threads, PopNode(t) PROVE MovingInv'
  <2> DEFINE i == FreelistIndex(n[t])
  <2>1. n[t] \in Sizes /\ ~ Large(n[t])
    BY <1>3 DEF PopNode, ControlInv, Locked
  <2>2. _S_free_list[i] \in Seq(1 .. MemTop) /\ IsInjective(_S_free_list[i])
        /\ _S_free_list[i] # << >>
    BY <1>3, <2>1, SmallSizes DEF PopNode, ListsInv
  <2>3. Head(_S_free_list[i]) \in 1 .. MemTop
    BY <2>2, PopFront
  <2>4. Block(Head(_S_free_list[i]), n[t]) \in Blocks
    BY <2>1, <2>3 DEF Block, Blocks
  <2>5. QED
    BY <1>1, <1>3, <2>4 DEF PopNode, Return
<1>4. ASSUME NEW t \in Threads, LinkNodes(t) PROVE MovingInv'
  <2>1. n[t] \in Sizes /\ chunk[t] \in 1 .. MemTop
    BY <1>4, RefillChunk DEF LinkNodes, ControlInv, Locked
  <2>2. Block(chunk[t], n[t]) \in Blocks
    BY <2>1 DEF Block, Blocks
  <2>3. QED
    BY <1>1, <1>4, <2>2 DEF LinkNodes, Return
<1>5. ASSUME NEW t \in Threads, MallocSucceeds(t) PROVE MovingInv'
  <2>1. CASE Large(n[t])
    <3>1. PICK a \in FirstFit(n[t], heap) : live' = live \union {Block(a, n[t])}
      BY <1>5, <2>1 DEF MallocSucceeds
    <3>2. n[t] \in Sizes
      BY <1>5 DEF MallocSucceeds, ControlInv, InMalloc
    <3>3. Block(a, n[t]) \in Blocks
      BY <3>2, FirstFits DEF Block, Blocks
    <3>4. QED
      BY <1>1, <1>5, <3>1, <3>3 DEF MallocSucceeds
  <2>2. CASE ~ Large(n[t])
    BY <1>5, <2>2 DEF MallocSucceeds
  <2>3. QED
    BY <2>1, <2>2
<1>6. ASSUME NEW t \in Threads, ReadHandler(t) PROVE MovingInv'
  BY <1>6 DEF ReadHandler, Throw, calls
<1>7. ASSUME NEW t \in Threads, NEW b \in Held, Deallocate(t, b) PROVE MovingInv'
  BY <1>7 DEF Deallocate, GiveBack, Held, calls
<1>8. ASSUME NEW t \in Threads, NEW b \in Held, NEW k \in Sizes, ReallocateLarge(t, b, k)
      PROVE  MovingInv'
  <2>1. PICK a \in FirstFit(k, heap \ {b}) : live' = (live \ {b}) \union {Block(a, k)}
    BY <1>8 DEF ReallocateLarge
  <2>2. Block(a, k) \in Blocks
    BY FirstFits DEF Block, Blocks
  <2>3. QED
    BY <1>8, <2>1, <2>2 DEF ReallocateLarge, Held, calls
<1>9. ASSUME NEW t \in Threads, NEW b \in Held, NEW k \in Sizes, ReallocateInPlace(t, b, k)
      PROVE  MovingInv'
  <2>1. Block(b.addr, k) \in Blocks
    BY DEF Held, Block, Blocks
  <2>2. QED
    BY <1>9, <2>1 DEF ReallocateInPlace, Held, calls
<1>10. ASSUME NEW t \in Threads, NEW b \in Held, NEW k \in Sizes, ReallocateByCopy(t, b, k)
       PROVE  MovingInv'
  BY <1>10 DEF ReallocateByCopy, Held
<1>11. ASSUME NEW t \in Threads, ReleaseOld(t) PROVE MovingInv'
  BY <1>11 DEF ReleaseOld, GiveBack
<1>12. ASSUME UNCHANGED << live, moving >> PROVE MovingInv'
  BY <1>12
<1>13. ASSUME NEW t \in Threads,
              EnterAllocate(t) \/ RefillEmptyList(t) \/ ServeFromPool(t) \/ GetChunk(t)
                \/ TakeLargerNode(t) \/ AskMallocAlloc(t) \/ MallocFails(t) \/ RunHandler(t)
                \/ RemoveHandler
       PROVE  MovingInv'
  BY <1>12, <1>13 DEF EnterAllocate, RefillEmptyList, ServeFromPool, GetChunk, TakeLargerNode,
                      AskMallocAlloc, MallocFails, RunHandler, RemoveHandler, calls
<1>14. QED
  <2>1. CASE RemoveHandler \/ UNCHANGED vars
    BY <1>12, <2>1 DEF RemoveHandler, vars, calls
  <2>2. QED
    BY <1>2, <1>3, <1>4, <1>5, <1>6, <1>7, <1>8, <1>9, <1>10, <1>11, <1>13, <2>1
       DEF Next, Call, Work

-----------------------------------------------------------------------------
(* Free lists and the places of their nodes                                *)

(***************************************************************************)
(* The head of a list is popped: its place is no longer a free one.        *)
(***************************************************************************)
LEMMA Popped ==
  ASSUME ListsInv, NEW i \in Indices, _S_free_list[i] # << >>, _S_free_list' = Pop(i)
  PROVE  /\ ListsInv'
         /\ Head(_S_free_list[i]) \in 1 .. MemTop
         /\ FreePlace(i, Head(_S_free_list[i])) \in FreePlaces
         /\ FreePlaces' = FreePlaces \ {FreePlace(i, Head(_S_free_list[i]))}
         /\ \A j \in Indices : j # i => _S_free_list'[j] = _S_free_list[j]
         /\ \A j \in Indices : _S_free_list[j] = << >> => _S_free_list'[j] = << >>
<1> DEFINE l == _S_free_list[i]
<1>1. /\ Head(l) \in 1 .. MemTop /\ Head(l) \in Range(l) /\ Tail(l) \in Seq(1 .. MemTop)
      /\ IsInjective(Tail(l)) /\ Range(Tail(l)) = Range(l) \ {Head(l)}
  <2>1. l \in Seq(1 .. MemTop) /\ IsInjective(l)
    BY DEF ListsInv
  <2>2. QED
    BY <2>1, PopFront
<1> HIDE DEF l
<1>2. /\ _S_free_list' = [_S_free_list EXCEPT ![i] = Tail(l)]
      /\ _S_free_list \in [Indices -> Seq(1 .. MemTop)]
      /\ \A j \in Indices : IsInjective(_S_free_list[j])
  BY DEF Pop, l, ListsInv
<1>3. _S_free_list'[i] = Tail(l) /\ \A j \in Indices : j # i => _S_free_list'[j] = _S_free_list[j]
  BY <1>2
<1>4. ListsInv'
  BY <1>1, <1>2, <1>3 DEF ListsInv
<1>5. FreePlace(i, Head(l)) \in FreePlaces
  BY <1>1 DEF FreePlaces, PlacesOn, l
<1>6. FreePlaces' = FreePlaces \ {FreePlace(i, Head(l))}
  <2>1. \A j \in Indices : j # i => PlacesOn(j)' = PlacesOn(j)
    BY <1>3 DEF PlacesOn
  <2>2. PlacesOn(i)' = PlacesOn(i) \ {FreePlace(i, Head(l))}
    BY <1>1, <1>3 DEF PlacesOn, FreePlace, Place, l
  <2>3. \A j \in Indices : j # i => FreePlace(i, Head(l)) \notin PlacesOn(j)
    BY DEF PlacesOn, FreePlace, Place
  <2>4. QED
    BY <2>1, <2>2, <2>3 DEF FreePlaces
<1>7. QED
  BY <1>1, <1>3, <1>4, <1>5, <1>6 DEF l

(***************************************************************************)
(* A node is pushed on a list that does not have it.                       *)
(***************************************************************************)
LEMMA Pushed ==
  ASSUME ListsInv, NEW i \in Indices, NEW a \in 1 .. MemTop, a \notin Range(_S_free_list[i]),
         _S_free_list' = Push(i, a)
  PROVE  /\ ListsInv'
         /\ FreePlaces' = FreePlaces \union {FreePlace(i, a)}
         /\ \A j \in Indices : j # i => _S_free_list'[j] = _S_free_list[j]
<1> DEFINE l == _S_free_list[i]
           r == << a >> \o l
<1>1. r \in Seq(1 .. MemTop) /\ IsInjective(r) /\ Range(r) = Range(l) \union {a}
  <2>1. l \in Seq(1 .. MemTop) /\ IsInjective(l)
    BY DEF ListsInv
  <2>2. QED
    BY <2>1, PushFront
<1>2. /\ _S_free_list' = [_S_free_list EXCEPT ![i] = r]
      /\ _S_free_list \in [Indices -> Seq(1 .. MemTop)]
      /\ \A j \in Indices : IsInjective(_S_free_list[j])
  BY DEF Push, ListsInv
<1> HIDE DEF r
<1>3. _S_free_list'[i] = r /\ \A j \in Indices : j # i => _S_free_list'[j] = _S_free_list[j]
  BY <1>2
<1>4. ListsInv'
  BY <1>1, <1>2, <1>3 DEF ListsInv
<1>5. FreePlaces' = FreePlaces \union {FreePlace(i, a)}
  <2>1. \A j \in Indices : j # i => PlacesOn(j)' = PlacesOn(j)
    BY <1>3 DEF PlacesOn
  <2>2. PlacesOn(i)' = PlacesOn(i) \union {FreePlace(i, a)}
    BY <1>1, <1>3 DEF PlacesOn, l
  <2>3. QED
    BY <2>1, <2>2 DEF FreePlaces
<1>6. QED
  BY <1>3, <1>4, <1>5

(***************************************************************************)
(* An empty list gets the nodes of a chunk that _S_refill cuts up.         *)
(***************************************************************************)
LEMMA Linked ==
  ASSUME ListsInv, NEW i \in Indices, _S_free_list[i] = << >>,
         NEW l \in Seq(1 .. MemTop), IsInjective(l), _S_free_list' = [_S_free_list EXCEPT ![i] = l]
  PROVE  /\ ListsInv'
         /\ \A q : q \in FreePlaces' <=> \/ q \in FreePlaces
                                       \/ \E j \in DOMAIN l : q = FreePlace(i, l[j])
<1>1. /\ _S_free_list'[i] = l
      /\ \A j \in Indices : j # i => _S_free_list'[j] = _S_free_list[j]
      /\ _S_free_list' \in [Indices -> Seq(1 .. MemTop)]
  BY DEF ListsInv
<1>2. ListsInv'
  BY <1>1 DEF ListsInv
<1>3. PlacesOn(i) = {}
  BY NoNodes DEF PlacesOn
<1>4. \A q : q \in PlacesOn(i)' <=> \E j \in DOMAIN l : q = FreePlace(i, l[j])
  BY <1>1 DEF PlacesOn, Range
<1>5. \A j \in Indices : j # i => PlacesOn(j)' = PlacesOn(j)
  BY <1>1 DEF PlacesOn
<1>6. FreePlaces' = FreePlaces \union PlacesOn(i)'
  BY <1>3, <1>5 DEF FreePlaces
<1>7. QED
  BY <1>2, <1>4, <1>6

-----------------------------------------------------------------------------
(* Refilling a list, under the lock                                        *)

(***************************************************************************)
(* Nobody else refills a list while a thread holds the lock, nor anybody   *)
(* while it is free.                                                       *)
(***************************************************************************)
LEMMA OneRefills ==
  ASSUME ControlInv, NEW t \in Threads, pc[t] \in Refilling \/ SmallInMalloc(t)
  PROVE  lock = t /\ \A u \in Threads : u # t => pc[u] \notin Locked /\ ~ SmallInMalloc(u)
BY Parameters DEF ControlInv, HasLock, Locked, Refilling, SmallInMalloc

(***************************************************************************)
(* What is left of the pool has a list, and not the one being refilled.    *)
(***************************************************************************)
LEMMA Leftover ==
  ASSUME ControlInv, PoolInv, RefillInv,
         NEW t \in Threads, pc[t] = "chunk", BytesLeft < RoundUp(n[t]), BytesLeft > 0
  PROVE  /\ _S_start_free \in 1 .. MemTop /\ BytesLeft \in Nat \ {0}
         /\ FreelistIndex(BytesLeft) \in Indices
         /\ NodeSize(FreelistIndex(BytesLeft)) = BytesLeft
         /\ FreelistIndex(BytesLeft) # FreelistIndex(n[t])
<1>1. n[t] \in Nat \ {0} /\ ~ Large(n[t])
  BY Parameters DEF ControlInv, Locked
<1>2. /\ RoundUp(n[t]) \in Nat \ {0} /\ RoundUp(n[t]) <= _MAX_BYTES
      /\ NodeSize(FreelistIndex(n[t])) = RoundUp(n[t])
  BY <1>1, SmallSizes
<1>3. BytesLeft \in Nat \ {0} /\ _S_start_free + BytesLeft = _S_end_free
  BY Parameters DEF PoolInv, BytesLeft
<1>4. \A u \in Threads : pc[u] # "scavenge"
  <2>1. \A u \in Threads : u # t => pc[u] \notin Locked
    BY OneRefills DEF Refilling
  <2>2. QED
    BY <2>1 DEF Locked
<1>5. _S_start_free # 0
  BY <1>3, <1>4 DEF RefillInv, PoolInv, BytesLeft
<1>6. ~ Large(BytesLeft)
  BY <1>2, <1>3, Parameters DEF Large
<1>7. MultipleOf(BytesLeft, _ALIGN)
  BY <1>5 DEF PoolInv
<1>8. /\ FreelistIndex(BytesLeft) \in Indices
      /\ NodeSize(FreelistIndex(BytesLeft)) = BytesLeft
  BY <1>3, <1>6, <1>7, SmallSizes, WholeSizes
<1>9. _S_start_free \in 1 .. MemTop
  BY <1>3, <1>5, Parameters DEF PoolInv
<1>10. QED
  BY <1>2, <1>3, <1>8, <1>9

\* Each action keeps what the refilling thread relies on: its list is empty
\* until it links nodes into it, and no other thread changes the lists.
LEMMA RefillStep == IInv /\ [Next]_vars => RefillInv'
<1> SUFFICES ASSUME IInv, [Next]_vars PROVE RefillInv'
  OBVIOUS
<1>c. /\ ControlInv /\ ListsInv /\ PoolInv /\ RefillInv /\ HeapInv /\ SizeInv
      /\ pc \in [Threads -> Labels] /\ n \in [Threads -> Sizes \union {0}]
  BY DEF IInv, MemoryInv, ControlInv
<1> DEFINE Holds(u) == pc[u] \in Refilling \/ SmallInMalloc(u)
\* Nobody starts or goes on to refill, and the lists of others stay empty.
<1>1. ASSUME UNCHANGED << _S_free_list, pool >>,
             \A u \in Threads : /\ pc'[u] \in Refilling => pc[u] \in Refilling
                                /\ SmallInMalloc(u)' => SmallInMalloc(u)
                                /\ pc'[u] \in Refilling \/ SmallInMalloc(u)' => n'[u] = n[u]
                                /\ pc'[u] = "scavenge" <=> pc[u] = "scavenge"
      PROVE  RefillInv'
  BY <1>1, <1>c DEF RefillInv, pool
<1>2. ASSUME NEW t \in Threads, NEW k \in Sizes, Allocate(t, k) PROVE RefillInv'
  BY <1>1, <1>2, <1>c DEF Allocate, Idle, Goto, Refilling, SmallInMalloc, InMalloc, Labels
<1>3. ASSUME NEW t \in Threads, EnterAllocate(t) PROVE RefillInv'
  BY <1>1, <1>3, <1>c DEF EnterAllocate, Goto, Refilling, SmallInMalloc, InMalloc, calls
<1>4. ASSUME NEW t \in Threads, MallocFails(t) PROVE RefillInv'
  BY <1>1, <1>4, <1>c DEF MallocFails, Goto, Refilling, SmallInMalloc, InMalloc, calls
<1>5. ASSUME NEW t \in Threads, ReadHandler(t) PROVE RefillInv'
  BY <1>1, <1>5, <1>c DEF ReadHandler, Throw, Goto, Refilling, SmallInMalloc, InMalloc, calls
<1>6. ASSUME NEW t \in Threads, RunHandler(t) PROVE RefillInv'
  BY <1>1, <1>6, <1>c DEF RunHandler, Goto, Refilling, SmallInMalloc, InMalloc, calls
<1>7. ASSUME NEW t \in Threads, NEW b \in Held, NEW k \in Sizes, ReallocateByCopy(t, b, k)
      PROVE  RefillInv'
  BY <1>1, <1>7, <1>c DEF ReallocateByCopy, Idle, Goto, Refilling, SmallInMalloc, InMalloc,
                          Labels
<1>8. ASSUME NEW t \in Threads, RefillEmptyList(t) PROVE RefillInv'
  <2>1. \A u \in Threads : u # t => pc[u] \notin Locked /\ ~ SmallInMalloc(u)
    BY <1>8, <1>c, Parameters DEF RefillEmptyList, ControlInv, HasLock, Locked, SmallInMalloc
  <2>2. \A u \in Threads : u # t => pc'[u] = pc[u] /\ n'[u] = n[u]
    BY <1>8, <1>c DEF RefillEmptyList, Goto
  <2>3. pc'[t] = "chunk" /\ n' = n /\ _S_free_list[FreelistIndex(n[t])] = << >>
    BY <1>8, <1>c DEF RefillEmptyList, Goto
  <2>4. _S_start_free = 0 => _S_end_free = 0
    BY <1>8, <1>c, <2>1 DEF RefillInv, Locked, RefillEmptyList
  <2>5. UNCHANGED << _S_free_list, pool >>
    BY <1>8 DEF RefillEmptyList
  <2>6. QED
    BY <2>1, <2>2, <2>3, <2>4, <2>5 DEF RefillInv, Refilling, SmallInMalloc, InMalloc, Locked, pool
\* The thread that holds the lock takes a step: nobody else refills.
<1>9. ASSUME NEW t \in Threads, lock = t,
             \A u \in Threads : u # t => pc'[u] = pc[u] /\ n'[u] = n[u],
             Holds(t)' => _S_free_list'[FreelistIndex(n'[t])] = << >>,
             pc'[t] = "scavenge" => _S_start_free' = 0,
             SmallInMalloc(t)' =>
               /\ _S_start_free' = 0
               /\ \A i \in Indices : NodeSize(i) >= RoundUp(n'[t]) => _S_free_list'[i] = << >>,
             pc'[t] # "scavenge" /\ _S_start_free' = 0 => _S_end_free' = 0
      PROVE  RefillInv'
  <2>1. \A u \in Threads : u # t => pc[u] \notin Locked /\ ~ SmallInMalloc(u)
    BY <1>9, <1>c, Parameters DEF ControlInv, HasLock, SmallInMalloc
  <2>2. \A u \in Threads : u # t => pc'[u] \notin Refilling /\ ~ SmallInMalloc(u)'
    BY <1>9, <2>1 DEF Locked, Refilling, SmallInMalloc
  <2>3. QED
    BY <1>9, <2>2 DEF RefillInv, Refilling
<1>10. ASSUME NEW t \in Threads, pc[t] \in Locked \/ SmallInMalloc(t)
       PROVE  lock = t /\ (pc[t] # "scavenge" /\ _S_start_free = 0 => _S_end_free = 0)
  <2>1. lock = t
    BY <1>10, <1>c DEF ControlInv, HasLock, SmallInMalloc
  <2>2. \A u \in Threads : u # t => pc[u] \notin Locked
    BY <2>1, <1>c, Parameters DEF ControlInv, HasLock
  <2>3. QED
    BY <2>1, <2>2, <1>c DEF RefillInv, Locked
<1>11. ASSUME NEW t \in Threads, PopNode(t) \/ LinkNodes(t) PROVE RefillInv'
  <2>1. /\ pc[t] \in {"allocate", "refill"} /\ UNCHANGED pool
        /\ pc'[t] \in {"idle", "release"}
        /\ \A u \in Threads : u # t => pc'[u] = pc[u] /\ n'[u] = n[u]
    BY <1>11, <1>c DEF PopNode, LinkNodes, Return, Goto
  <2>2. QED
    BY <2>1, <1>9, <1>10 DEF Locked, Refilling, SmallInMalloc, InMalloc, pool
<1>12. ASSUME NEW t \in Threads, ServeFromPool(t) PROVE RefillInv'
  <2>1. pc[t] = "chunk" /\ pc'[t] = "refill" /\ UNCHANGED << _S_free_list, n >>
        /\ \A u \in Threads : u # t => pc'[u] = pc[u]
    BY <1>12, <1>c DEF ServeFromPool, Goto
  <2>2. _S_start_free' # 0
    <3>1. _S_start_free' = _S_start_free + Served(t) * RoundUp(n[t])
      BY <1>12 DEF ServeFromPool, Served
    <3>2. Served(t) * RoundUp(n[t]) \in Nat \ {0}
      BY <1>12, <1>c, <2>1, ServedNodes DEF ServeFromPool
    <3>3. _S_start_free \in Nat
      BY <1>c DEF PoolInv
    <3>4. QED
      BY <3>1, <3>2, <3>3
  <2>3. QED
    BY <2>1, <2>2, <1>c, <1>9, <1>10 DEF RefillInv, Locked, Refilling, SmallInMalloc, InMalloc
<1>13. ASSUME NEW t \in Threads, GetChunk(t) PROVE RefillInv'
  <2>1. pc[t] = "chunk" /\ UNCHANGED n /\ \A u \in Threads : u # t => pc'[u] = pc[u]
    BY <1>13, <1>c DEF GetChunk, NewPool, Goto, calls
  <2>2. \/ pc'[t] = "scavenge" /\ _S_start_free' = 0
        \/ pc'[t] = "chunk" /\ _S_start_free' # 0
    <3>1. CASE pc'[t] = "scavenge" /\ _S_start_free' = 0
      BY <3>1
    <3>2. CASE \E a \in FirstFit(BytesToGet(t), heap) : NewPool(t, a)
      <4>1. PICK a \in FirstFit(BytesToGet(t), heap) : NewPool(t, a)
        BY <3>2
      <4>2. BytesToGet(t) \in Nat
        BY <2>1, <1>c, WholeChunks
      <4>3. a \in 1 .. MemTop
        BY <4>2, FirstFits
      <4>4. QED
        BY <4>1, <4>3, <1>c, Parameters DEF NewPool, Goto
    <3>3. QED
      BY <1>13, <3>1, <3>2, <1>c DEF GetChunk, Goto
  <2>3. _S_free_list'[FreelistIndex(n[t])] = << >>
    <3>1. _S_free_list[FreelistIndex(n[t])] = << >>
      BY <2>1, <1>c DEF RefillInv, Refilling
    <3>2. CASE BytesLeft > 0
      BY <1>13, <2>1, <3>1, <3>2, <1>c, Leftover DEF GetChunk, KeepLeftover, Push, ListsInv
    <3>3. QED
      BY <1>13, <3>1, <3>2 DEF GetChunk, KeepLeftover
  <2>4. QED
    BY <2>1, <2>2, <2>3, <1>9, <1>10 DEF Locked, SmallInMalloc, InMalloc
<1>14. ASSUME NEW t \in Threads, TakeLargerNode(t) PROVE RefillInv'
  <2> DEFINE i == Min(Donors(t))
  <2>1. pc[t] = "scavenge" /\ pc'[t] = "chunk" /\ UNCHANGED n
        /\ \A u \in Threads : u # t => pc'[u] = pc[u]
    BY <1>14, <1>c DEF TakeLargerNode, Goto, calls
  <2>2. i \in Indices /\ _S_free_list[i] # << >>
    <3>1. Donors(t) # {} /\ Donors(t) \subseteq Nat
      BY <1>14 DEF TakeLargerNode, Donors, Indices
    <3>2. i \in Donors(t)
      BY <3>1, MinExists
    <3>3. QED
      BY <3>2 DEF Donors
  <2>3. _S_free_list' = Pop(i) /\ _S_start_free' = Head(_S_free_list[i])
    BY <1>14 DEF TakeLargerNode
  <2> HIDE DEF i
  <2>4. /\ \A j \in Indices : _S_free_list[j] = << >> => _S_free_list'[j] = << >>
        /\ _S_start_free' \in 1 .. MemTop
    BY <2>2, <2>3, <1>c, Popped
  <2>5. n[t] \in Nat \ {0} /\ ~ Large(n[t])
    BY <2>1, <1>c, Parameters DEF ControlInv, Locked
  <2>6. _S_free_list'[FreelistIndex(n[t])] = << >>
    BY <2>1, <2>4, <2>5, <1>c, SmallSizes DEF RefillInv, Refilling
  <2>7. QED
    BY <2>1, <2>4, <2>6, <1>9, <1>10 DEF Locked, SmallInMalloc, InMalloc
<1>15. ASSUME NEW t \in Threads, AskMallocAlloc(t) PROVE RefillInv'
  <2>1. /\ pc[t] = "scavenge" /\ pc'[t] = "malloc" /\ UNCHANGED << n, _S_free_list >>
        /\ _S_start_free' = _S_start_free /\ _S_end_free' = 0 /\ Donors(t) = {}
        /\ \A u \in Threads : u # t => pc'[u] = pc[u]
    BY <1>15, <1>c DEF AskMallocAlloc, Goto, calls
  <2>2. \A i \in Indices : NodeSize(i) >= RoundUp(n[t]) => _S_free_list[i] = << >>
    BY <2>1 DEF Donors
  <2>3. QED
    BY <2>1, <2>2, <1>c, <1>9, <1>10 DEF RefillInv, Locked, Refilling
<1>16. ASSUME NEW t \in Threads, MallocSucceeds(t) PROVE RefillInv'
  <2>1. CASE Large(n[t])
    BY <1>1, <1>16, <2>1, <1>c DEF MallocSucceeds, Goto, Refilling, SmallInMalloc, InMalloc
  <2>2. CASE ~ Large(n[t])
    <3>1. /\ SmallInMalloc(t) /\ pc'[t] = "chunk" /\ UNCHANGED << n, _S_free_list >>
          /\ \A u \in Threads : u # t => pc'[u] = pc[u]
      BY <1>16, <2>2, <1>c DEF MallocSucceeds, NewPool, Goto, SmallInMalloc, InMalloc
    <3>2. _S_start_free' # 0
      <4>1. PICK a \in FirstFit(BytesToGet(t), heap) : NewPool(t, a)
        BY <1>16, <2>2 DEF MallocSucceeds
      <4>2. BytesToGet(t) \in Nat
        BY <3>1, <1>c, WholeChunks
      <4>3. a \in 1 .. MemTop
        BY <4>2, FirstFits
      <4>4. QED
        BY <4>1, <4>3, Parameters DEF NewPool
    <3>3. QED
      BY <3>1, <3>2, <1>c, <1>9, <1>10 DEF RefillInv, Locked, Refilling, SmallInMalloc, InMalloc
  <2>3. QED
    BY <2>1, <2>2
\* Giving a small block back waits for the lock.
<1>17. ASSUME NEW t \in Threads, NEW b \in live, GiveBack(b), UNCHANGED << pool, n >>,
              \A u \in Threads : u # t => pc'[u] = pc[u],
              pc[t] \in {"idle", "release"}, pc'[t] = "idle"
       PROVE  RefillInv'
  <2>1. CASE Large(b.size)
    BY <1>1, <1>17, <2>1, <1>c DEF GiveBack, Refilling, SmallInMalloc, InMalloc
  <2>2. CASE ~ Large(b.size)
    <3>1. \A u \in Threads : pc[u] \notin Locked /\ ~ SmallInMalloc(u)
      BY <1>17, <2>2, <1>c, Parameters DEF GiveBack, ControlInv, HasLock, SmallInMalloc
    <3>2. \A u \in Threads : pc'[u] \notin Locked /\ ~ SmallInMalloc(u)'
      BY <1>17, <3>1 DEF Locked, SmallInMalloc, InMalloc
    <3>3. _S_start_free = 0 => _S_end_free = 0
      BY <1>c, <3>1 DEF RefillInv, Locked
    <3>4. QED
      BY <3>2, <3>3, <1>17 DEF RefillInv, Locked, Refilling, pool
  <2>3. QED
    BY <2>1, <2>2
<1>18. ASSUME NEW t \in Threads, NEW b \in Held, Deallocate(t, b) PROVE RefillInv'
  BY <1>17, <1>18 DEF Deallocate, Idle, Held, calls
<1>19. ASSUME NEW t \in Threads, ReleaseOld(t) PROVE RefillInv'
  <2>1. PICK b \in moving[t] : GiveBack(b)
    BY <1>19 DEF ReleaseOld
  <2>2. b \in live
    BY DEF IInv, MovingInv
  <2>3. pc'[t] = "idle" /\ \A u \in Threads : u # t => pc'[u] = pc[u]
    BY <1>19, <1>c DEF ReleaseOld, Goto
  <2>4. QED
    BY <1>17, <1>19, <2>1, <2>2, <2>3 DEF ReleaseOld
<1>20. ASSUME UNCHANGED << _S_free_list, pool, pc, n >> PROVE RefillInv'
  BY <1>1, <1>20 DEF SmallInMalloc
<1>21. QED
  <2>1. ASSUME NEW t \in Threads, NEW b \in Held, NEW k \in Sizes,
               ReallocateLarge(t, b, k) \/ ReallocateInPlace(t, b, k)
        PROVE  RefillInv'
    BY <1>20, <2>1 DEF ReallocateLarge, ReallocateInPlace, calls
  <2>2. CASE RemoveHandler \/ UNCHANGED vars
    BY <1>20, <2>2 DEF RemoveHandler, vars, calls
  <2>3. QED
    BY <1>2, <1>3, <1>4, <1>5, <1>6, <1>7, <1>8, <1>11, <1>12, <1>13, <1>14, <1>15, <1>16,
       <1>18, <1>19, <2>1, <2>2 DEF Next, Call, Work

-----------------------------------------------------------------------------
(* Memory: the heap, its chunks, and the places that tile them             *)

(***************************************************************************)
(* The steps that touch no list, pool or block leave memory as it was.     *)
(***************************************************************************)
LEMMA SameTransit ==
  ASSUME NEW t \in Threads, pc[t] # "refill", pc'[t] # "refill",
         \A u \in Threads : u # t => /\ pc'[u] = pc[u] /\ n'[u] = n[u]
                                     /\ nobjs'[u] = nobjs[u] /\ chunk'[u] = chunk[u]
  PROVE  TransitPlaces' = TransitPlaces
<1> DEFINE R == {u \in Threads : pc[u] = "refill"}
<1>1. R' = R /\ t \notin R
  OBVIOUS
<1>2. \A u \in R : /\ chunk'[u] = chunk[u]
                   /\ nobjs'[u] * RoundUp(n'[u]) = nobjs[u] * RoundUp(n[u])
  BY <1>1
<1> HIDE DEF R
<1>3. {TransitPlace(chunk[u], nobjs[u] * RoundUp(n[u])) : u \in R}'
        = {TransitPlace(chunk[u], nobjs[u] * RoundUp(n[u])) : u \in R}
  BY <1>1, <1>2 DEF RoundUp
<1>4. QED
  BY <1>3 DEF TransitPlaces, R

\* The part of the invariant that is about memory is kept by a step that moves no byte.
LEMMA SameMemory ==
  ASSUME MemoryInv, UNCHANGED << _S_free_list, pool, heap, outside, live >>,
         TransitPlaces' = TransitPlaces
  PROVE  MemoryInv'
<1>1. /\ _S_start_free' = _S_start_free /\ _S_end_free' = _S_end_free
      /\ _S_heap_size' = _S_heap_size /\ BytesLeft' = BytesLeft
  BY DEF pool, BytesLeft
<1>2. FreePlaces' = FreePlaces /\ ClientPlaces' = ClientPlaces /\ PoolPlaces' = PoolPlaces
  BY <1>1 DEF FreePlaces, PlacesOn, ClientPlaces, PoolPlaces
<1>3. LargeBlocks' = LargeBlocks /\ Chunks' = Chunks
  BY DEF LargeBlocks, Chunks
<1>4. Places' = Places
  BY <1>2 DEF Places
<1>5. ListsInv' /\ PoolInv' /\ HeapInv' /\ PlacesInv' /\ SizeInv'
  BY <1>1, <1>3, <1>4 DEF MemoryInv, ListsInv, PoolInv, HeapInv, PlacesInv, SizeInv
<1>6. QED
  BY <1>5 DEF MemoryInv

(***************************************************************************)
(* The chunks are not touched, so their size is not either.                *)
(***************************************************************************)
LEMMA SameChunks ==
  ASSUME HeapInv, SizeInv, UNCHANGED << heap, outside, _S_heap_size >>,
         LargeBlocks' = LargeBlocks
  PROVE  HeapInv' /\ SizeInv' /\ Chunks' = Chunks
BY DEF HeapInv, SizeInv, Chunks

(***************************************************************************)
(* A block that malloc gives is apart from all others.                     *)
(***************************************************************************)
LEMMA NewBlock ==
  ASSUME HeapInv, NEW used, used \subseteq heap, NEW k \in Nat \ {0}, NEW a \in FirstFit(k, used)
  PROVE  /\ Block(a, k) \in Chunk /\ a + k <= MemTop + 1 /\ IsExtent(Block(a, k))
         /\ \A b \in used : Apart(b, Block(a, k)) /\ Disjoint(Block(a, k), b)
         /\ Block(a, k) \notin used
<1>1. a \in 1 .. MemTop /\ a + k <= MemTop + 1 /\ \A b \in used : Apart(b, Block(a, k))
  BY FirstFits
<1>2. a \in Nat \ {0} /\ Block(a, k) \in Chunk /\ IsExtent(Block(a, k))
  BY <1>1, Parameters DEF Block, Chunk, IsExtent
<1>3. \A b \in used : Disjoint(Block(a, k), b)
  BY <1>1 DEF Apart, Disjoint
<1>4. ~ Apart(Block(a, k), Block(a, k))
  BY <1>2 DEF Apart, Block
<1>5. QED
  BY <1>1, <1>2, <1>3, <1>4

\* What malloc gives is a new chunk apart from all others, and _S_heap_size
\* goes on counting their bytes.
LEMMA NewChunk ==
  ASSUME HeapInv, SizeInv, NEW k \in Nat \ {0}, NEW a \in FirstFit(k, heap),
         MallocGives(k, a), UNCHANGED << outside, live >>, _S_heap_size' = _S_heap_size + k
  PROVE  /\ HeapInv' /\ SizeInv'
         /\ IsExtent(Block(a, k)) /\ \A c \in Chunks : Disjoint(Block(a, k), c)
         /\ Chunks' = Chunks \union {Block(a, k)}
<1> DEFINE B == Block(a, k)
<1>1. /\ B \in Chunk /\ a + k <= MemTop + 1 /\ IsExtent(B)
      /\ \A b \in heap : Apart(b, B) /\ Disjoint(B, b)
      /\ B \notin heap
  BY NewBlock
<1>2. B.addr = a /\ B.size = k
  BY DEF Block
<1>3. LargeBlocks' = LargeBlocks /\ heap' = heap \union {B}
  BY DEF LargeBlocks, MallocGives
<1> HIDE DEF B
<1>4. HeapInv'
  BY <1>1, <1>2, <1>3 DEF HeapInv, Apart
<1>5. Chunks' = Chunks \union {B} /\ Chunks \subseteq heap
  BY <1>1, <1>3 DEF HeapInv, Chunks
<1>6. \A c \in Chunks : IsExtent(c) /\ Disjoint(B, c)
  BY <1>1, <1>5 DEF HeapInv, Chunk, IsExtent
<1>7. SizeInv'
  BY <1>1, <1>2, <1>5, <1>6, BytesAdded DEF SizeInv
<1>8. QED
  BY <1>1, <1>4, <1>5, <1>6, <1>7 DEF B

(***************************************************************************)
(* An address that belongs to a client, to the pool or to a chunk that is  *)
(* being linked is on no free list.                                        *)
(***************************************************************************)
LEMMA NotFree ==
  ASSUME PlacesInv, NEW p \in Places, p.kind # "free", NEW i \in Indices
  PROVE  p.addr \notin Range(_S_free_list[i])
<1> DEFINE q == FreePlace(i, p.addr)
<1> SUFFICES ASSUME p.addr \in Range(_S_free_list[i]) PROVE FALSE
  OBVIOUS
<1>1. q \in PlacesOn(i)
  BY DEF PlacesOn
<1>2. q \in Places
  BY <1>1 DEF FreePlaces, Places
<1>3. q.kind = "free" /\ q.addr = p.addr
  BY DEF FreePlace, Place
<1>4. Disjoint(p, q) /\ IsExtent(p) /\ IsExtent(q)
  BY <1>2, <1>3 DEF PlacesInv, Tiles
<1>5. QED
  BY <1>3, <1>4 DEF Disjoint, IsExtent

(***************************************************************************)
(* _S_free_list to client: the head of the list is popped.                 *)
(***************************************************************************)
LEMMA PopMemory ==
  ASSUME IInv, NEW t \in Threads, PopNode(t)
  PROVE  MemoryInv'
<1> DEFINE i == FreelistIndex(n[t])
           a == Head(_S_free_list[i])
           b == Block(a, n[t])
           p == FreePlace(i, a)
           q == ClientPlace(b)
<1>1. /\ ControlInv /\ ListsInv /\ PoolInv /\ HeapInv /\ PlacesInv /\ SizeInv
  BY DEF IInv, MemoryInv
<1>2. /\ pc[t] = "allocate" /\ _S_free_list[i] # << >> /\ _S_free_list' = Pop(i)
      /\ live' = live \union {b} /\ UNCHANGED << pool, heap, outside >>
      /\ pc'[t] # "refill"
      /\ \A u \in Threads : u # t => /\ pc'[u] = pc[u] /\ n'[u] = n[u]
                                     /\ nobjs'[u] = nobjs[u] /\ chunk'[u] = chunk[u]
  BY <1>1 DEF PopNode, Return, Goto, ControlInv, IInv
<1>3. n[t] \in Nat \ {0} /\ ~ Large(n[t])
  BY <1>1, <1>2, Parameters DEF ControlInv, Locked
<1>4. i \in Indices /\ NodeSize(i) = RoundUp(n[t])
  BY <1>3, SmallSizes
<1>5. b.addr = a /\ b.size = n[t]
  BY DEF Block
<1> HIDE DEF i, a
<1>6. ListsInv' /\ p \in FreePlaces /\ FreePlaces' = FreePlaces \ {p}
  BY <1>1, <1>2, <1>4, Popped DEF a
<1>7. TransitPlaces' = TransitPlaces
  BY <1>2, SameTransit
<1> HIDE DEF b
<1>8. LargeBlocks' = LargeBlocks /\ ClientPlaces' = ClientPlaces \union {q}
  BY <1>2, <1>3, <1>5 DEF LargeBlocks, ClientPlaces
<1>9. UNCHANGED << _S_start_free, _S_end_free, _S_heap_size, BytesLeft, PoolPlaces >>
  BY <1>2 DEF pool, BytesLeft, PoolPlaces
<1>10. PoolInv'
  BY <1>1, <1>9 DEF PoolInv
<1>11. HeapInv' /\ SizeInv' /\ Chunks' = Chunks
  BY <1>1, <1>2, <1>8, <1>9, SameChunks
<1>12. Places' = (Places \ {p}) \union {q}
  <2>1. p \notin PoolPlaces \union TransitPlaces \union ClientPlaces
    BY DEF p, PoolPlaces, TransitPlaces, ClientPlaces, FreePlace, PoolPlace, TransitPlace,
           ClientPlace, Place
  <2> HIDE DEF p, q
  <2>2. QED
    BY <2>1, <1>6, <1>7, <1>8, <1>9 DEF Places
<1>13. p \in Places /\ p.addr = q.addr /\ p.size = q.size
  BY <1>4, <1>5, <1>6 DEF Places, FreePlace, ClientPlace, Place
<1> HIDE DEF p, q
<1>14. PlacesInv'
  BY <1>1, <1>11, <1>12, <1>13, Relabel DEF PlacesInv
<1>15. QED
  BY <1>6, <1>10, <1>11, <1>14 DEF MemoryInv

(***************************************************************************)
(* The chunk of _S_refill is cut into the client's node and the new list.  *)
(***************************************************************************)
LEMMA LinkMemory ==
  ASSUME IInv, NEW t \in Threads, LinkNodes(t)
  PROVE  MemoryInv'
<1> DEFINE i == FreelistIndex(n[t])
           size == RoundUp(n[t])
           k == nobjs[t]
           c == chunk[t]
           b == Block(c, n[t])
           p == TransitPlace(c, k * size)
           f == [j \in 0 .. k - 1 |-> IF j = 0 THEN ClientPlace(b)
                                     ELSE FreePlace(i, c + j * size)]
<1>1. /\ ControlInv /\ ListsInv /\ PoolInv /\ HeapInv /\ PlacesInv /\ SizeInv /\ RefillInv
  BY DEF IInv, MemoryInv
<1>2. /\ pc[t] = "refill" /\ live' = live \union {b} /\ UNCHANGED << pool, heap, outside >>
      /\ _S_free_list' = IF k = 1 THEN _S_free_list
                         ELSE [_S_free_list EXCEPT ![i] = [j \in 1 .. k - 1 |-> c + j * size]]
      /\ pc'[t] # "refill" /\ \A u \in Threads : u # t => pc'[u] = pc[u]
  BY <1>1 DEF LinkNodes, Return, Goto, ControlInv
<1>3. n[t] \in Nat \ {0} /\ ~ Large(n[t]) /\ _S_free_list[i] = << >>
  <2>1. n[t] \in Sizes /\ ~ Large(n[t])
    BY <1>1, <1>2 DEF ControlInv, Locked
  <2>2. _S_free_list[i] = << >>
    BY <1>1, <1>2 DEF RefillInv, Refilling
  <2>3. QED
    BY <2>1, <2>2, Parameters
<1>4. k \in Nat \ {0}
  <2>1. k \in 0 .. NObjs /\ k # 0
    BY <1>1, <1>2 DEF ControlInv, Refilling
  <2>2. QED
    BY <2>1, Parameters
<1>5. i \in Indices /\ NodeSize(i) = size /\ size \in Nat \ {0}
  BY <1>3, SmallSizes
<1>6. b.addr = c /\ b.size = n[t]
  BY DEF Block
<1>7. /\ \A u \in Threads : u # t => pc[u] # "refill"
      /\ \A u \in Threads : pc'[u] # "refill"
  BY <1>1, <1>2, OneRefills DEF Refilling, Locked
<1>8. TransitPlaces = {p} /\ TransitPlaces' = {}
  BY <1>2, <1>7 DEF TransitPlaces
<1>9. p.addr = c /\ p.size = k * size
  BY DEF TransitPlace, Place
<1> HIDE DEF i, size, k, c, b
<1>10. p \in Places
  BY <1>8 DEF Places
<1>11. c \in 1 .. MemTop /\ c + k * size <= MemTop + 1
  BY <1>1, <1>9, <1>10, PlacesInMemory
<1>12. /\ ListsInv'
       /\ \A q : q \in FreePlaces' <=> \/ q \in FreePlaces
                                     \/ \E j \in 1 .. k - 1 : q = FreePlace(i, c + j * size)
  <2>1. CASE k = 1
    <3>1. FreePlaces' = FreePlaces /\ ListsInv'
      BY <1>1, <1>2, <2>1 DEF FreePlaces, PlacesOn, ListsInv
    <3>2. QED
      BY <3>1, <2>1
  <2>2. CASE k # 1
    <3> DEFINE l == [j \in 1 .. k - 1 |-> c + j * size]
    <3>1. _S_free_list' = [_S_free_list EXCEPT ![i] = l]
      BY <1>2, <2>2
    <3>2. l \in Seq(1 .. MemTop) /\ IsInjective(l)
      BY <1>4, <1>5, <1>11, Parameters, RunOfNodes
    <3>3. DOMAIN l = 1 .. k - 1 /\ \A j \in 1 .. k - 1 : l[j] = c + j * size
      OBVIOUS
    <3> HIDE DEF l
    <3>4. /\ ListsInv'
          /\ \A q : q \in FreePlaces' <=> \/ q \in FreePlaces
                                        \/ \E j \in DOMAIN l : q = FreePlace(i, l[j])
      BY <1>1, <1>3, <1>5, <3>1, <3>2, Linked
    <3>5. QED
      BY <3>3, <3>4
  <2>3. QED
    BY <2>1, <2>2
<1>13. LargeBlocks' = LargeBlocks /\ ClientPlaces' = ClientPlaces \union {ClientPlace(b)}
  BY <1>2, <1>3, <1>6 DEF LargeBlocks, ClientPlaces
<1>14. UNCHANGED << _S_start_free, _S_end_free, _S_heap_size, BytesLeft, PoolPlaces >>
  BY <1>2 DEF pool, BytesLeft, PoolPlaces
<1>15. PoolInv'
  BY <1>1, <1>14 DEF PoolInv
<1>16. HeapInv' /\ SizeInv' /\ Chunks' = Chunks
  BY <1>1, <1>2, <1>13, <1>14, SameChunks
<1>17. \A q : (\E j \in 0 .. k - 1 : q = f[j])
               <=> \/ q = ClientPlace(b)
                   \/ \E j \in 1 .. k - 1 : q = FreePlace(i, c + j * size)
  <2>1. \A j : j \in 0 .. k - 1 <=> j = 0 \/ j \in 1 .. k - 1
    BY <1>4
  <2>2. f[0] = ClientPlace(b) /\ \A j \in 1 .. k - 1 : f[j] = FreePlace(i, c + j * size)
    BY <1>4
  <2> HIDE DEF f
  <2>3. \A q : (\E j \in 0 .. k - 1 : q = f[j]) <=> q = f[0] \/ \E j \in 1 .. k - 1 : q = f[j]
    BY <2>1
  <2>4. QED
    BY <2>2, <2>3
<1>18. \A j \in 0 .. k - 1 : f[j].addr = p.addr + j * size /\ f[j].size = size
  <2>1. ClientPlace(b).addr = c + 0 * size /\ ClientPlace(b).size = size
    BY <1>6, <1>5, <1>11 DEF ClientPlace, Place, size
  <2>2. \A a : FreePlace(i, a).addr = a /\ FreePlace(i, a).size = size
    BY <1>5 DEF FreePlace, Place
  <2>3. QED
    BY <2>1, <2>2, <1>9
<1>19. p \notin PoolPlaces \union FreePlaces \union ClientPlaces
  <2>1. p.kind = "transit" /\ \A q \in PoolPlaces : q.kind = "pool"
    BY DEF p, PoolPlaces, PoolPlace, TransitPlace, Place
  <2>2. \A q \in FreePlaces : q.kind = "free"
    BY DEF FreePlaces, PlacesOn, FreePlace, Place
  <2>3. \A q \in ClientPlaces : q.kind = "client"
    BY DEF ClientPlaces, ClientPlace, Place
  <2>4. QED
    BY <2>1, <2>2, <2>3
<1> HIDE DEF p, f
<1>20. ASSUME NEW q
       PROVE  q \in Places' <=> q \in Places \ {p} \/ \E j \in 0 .. k - 1 : q = f[j]
  <2> DEFINE E == \E j \in 1 .. k - 1 : q = FreePlace(i, c + j * size)
             F == \E j \in 0 .. k - 1 : q = f[j]
  <2>1. q \in FreePlaces' <=> q \in FreePlaces \/ E
    BY <1>12
  <2>2. F <=> q = ClientPlace(b) \/ E
    BY <1>17
  <2> HIDE DEF E, F
  <2>3. q \in Places' <=> q \in Places \ {p} \/ F
    BY <2>1, <2>2, <1>8, <1>13, <1>14, <1>19 DEF Places
  <2>4. QED
    BY <2>3 DEF F
<1>21. PlacesInv'
  <2> DEFINE Q == Places'
  <2>1. Tiles(Places, Chunks)
    BY <1>1 DEF PlacesInv
  <2>2. \A q : q \in Q <=> q \in Places \ {p} \/ \E j \in 0 .. k - 1 : q = f[j]
    BY <1>20
  <2> HIDE DEF Q
  <2>3. CutsUp(Places, p, k, size, f, Q)
    BY <1>4, <1>5, <1>9, <1>18, <2>2 DEF CutsUp
  <2>4. Tiles(Q, Chunks)
    BY <1>10, <2>1, <2>3, CutRun
  <2>5. QED
    BY <2>4, <1>16 DEF PlacesInv, Q
<1>22. QED
  BY <1>12, <1>15, <1>16, <1>21 DEF MemoryInv

(***************************************************************************)
(* The pool gives a chunk to _S_refill.                                    *)
(***************************************************************************)
LEMMA ServeMemory ==
  ASSUME IInv, NEW t \in Threads, ServeFromPool(t)
  PROVE  MemoryInv' /\ _S_start_free \in 1 .. MemTop
<1> DEFINE size == RoundUp(n[t])
           used == Served(t) * size
           rest == BytesLeft - used
           p == PoolPlace(_S_start_free, BytesLeft)
           q == TransitPlace(_S_start_free, used)
           r == PoolPlace(_S_start_free + used, rest)
<1>1. /\ ControlInv /\ ListsInv /\ PoolInv /\ HeapInv /\ PlacesInv /\ SizeInv /\ RefillInv
  BY DEF IInv, MemoryInv
<1>2. /\ pc[t] = "chunk" /\ BytesLeft >= size /\ pc'[t] = "refill"
      /\ \A u \in Threads : u # t => pc'[u] = pc[u]
      /\ nobjs'[t] = Served(t) /\ n' = n /\ chunk'[t] = _S_start_free
      /\ _S_start_free' = _S_start_free + used /\ _S_end_free' = _S_end_free
      /\ UNCHANGED << _S_free_list, _S_heap_size, heap, outside, live >>
  BY <1>1 DEF ServeFromPool, Goto, ControlInv, IInv, Served
<1>3. /\ size \in Nat \ {0} /\ used \in Nat \ {0} /\ used <= BytesLeft
      /\ MultipleOf(used, _ALIGN)
  BY <1>1, <1>2, Parameters, ServedNodes, MultipleProduct
<1> HIDE DEF size, used
<1>4. /\ BytesLeft \in Nat \ {0} /\ rest \in Nat /\ _S_start_free + BytesLeft = _S_end_free
      /\ _S_start_free \in Nat /\ _S_end_free <= MemTop + 1
  BY <1>1, <1>3, Parameters DEF PoolInv, BytesLeft
<1>5. /\ \A u \in Threads : u # t => pc[u] # "refill"
      /\ \A u \in Threads : pc[u] # "scavenge"
  <2>1. \A u \in Threads : u # t => pc[u] \notin Locked
    BY <1>1, <1>2, OneRefills DEF Refilling
  <2>2. QED
    BY <2>1, <1>2 DEF Locked
<1>6. _S_start_free # 0 /\ _S_start_free \in 1 .. MemTop
  <2>1. _S_start_free # 0
    BY <1>1, <1>4, <1>5 DEF RefillInv, BytesLeft
  <2>2. QED
    BY <2>1, <1>4, Parameters
<1>7. _S_start_free' # 0 /\ BytesLeft' = rest /\ MultipleOf(rest, _ALIGN)
  <2>1. BytesLeft' = rest
    BY <1>2, <1>3, <1>4 DEF BytesLeft
  <2>2. MultipleOf(BytesLeft, _ALIGN)
    BY <1>1, <1>6 DEF PoolInv
  <2>3. MultipleOf(rest, _ALIGN)
    BY <2>2, <1>3, Parameters, MultipleSum
  <2>4. QED
    BY <2>1, <2>3, <1>2, <1>3, <1>4
<1>8. PoolInv'
  <2>1. _S_start_free' \in 0 .. MemTop + 1 /\ _S_end_free' \in _S_start_free' .. MemTop + 1
    BY <1>2, <1>3, <1>4, Parameters
  <2>2. QED
    BY <2>1, <1>7 DEF PoolInv
<1>9. PoolPlaces = {p} /\ PoolPlaces' = IF rest = 0 THEN {} ELSE {r}
  <2>1. PoolPlaces = {p}
    BY <1>4, <1>6 DEF PoolPlaces
  <2>2. rest > 0 <=> rest # 0
    BY <1>4
  <2>3. QED
    BY <2>1, <2>2, <1>2, <1>7 DEF PoolPlaces
<1>10. TransitPlaces = {} /\ TransitPlaces' = {q}
  <2>1. TransitPlaces = {}
    BY <1>2, <1>5 DEF TransitPlaces
  <2>2. \A u \in Threads : pc'[u] = "refill" <=> u = t
    BY <1>2, <1>5
  <2>3. RoundUp(n[t])' = size
    BY <1>2 DEF size, RoundUp
  <2>4. TransitPlaces' = {TransitPlace(chunk'[t], nobjs'[t] * RoundUp(n[t])')}
    BY <2>2 DEF TransitPlaces, RoundUp
  <2>5. QED
    BY <2>1, <2>3, <2>4, <1>2 DEF used
<1>11. ListsInv' /\ FreePlaces' = FreePlaces
  BY <1>1, <1>2 DEF ListsInv, FreePlaces, PlacesOn
<1>12. LargeBlocks' = LargeBlocks /\ ClientPlaces' = ClientPlaces
  BY <1>2 DEF LargeBlocks, ClientPlaces
<1>13. HeapInv' /\ SizeInv' /\ Chunks' = Chunks
  BY <1>1, <1>2, <1>12, SameChunks
<1>14. p \notin FreePlaces \union TransitPlaces \union ClientPlaces
  <2>1. p.kind = "pool" /\ \A x \in FreePlaces : x.kind = "free"
    BY DEF p, FreePlaces, PlacesOn, FreePlace, PoolPlace, Place
  <2>2. \A x \in ClientPlaces : x.kind = "client"
    BY DEF ClientPlaces, ClientPlace, Place
  <2>3. QED
    BY <2>1, <2>2, <1>10
<1>15. /\ p.addr = _S_start_free /\ p.size = BytesLeft
       /\ q.addr = _S_start_free /\ q.size = used
       /\ r.addr = _S_start_free + used /\ r.size = rest
  BY DEF PoolPlace, TransitPlace, Place
<1>16. p \in Places
  BY <1>9 DEF Places
<1>17. PlacesInv'
  <2>1. CASE rest = 0
    <3>1. p.size = q.size
      BY <2>1, <1>3, <1>4, <1>15
    <3> HIDE DEF p, q
    <3>2. Places' = (Places \ {p}) \union {q}
      BY <2>1, <1>9, <1>10, <1>11, <1>12, <1>14 DEF Places
    <3>3. QED
      BY <3>1, <3>2, <1>1, <1>13, <1>15, <1>16, Relabel DEF PlacesInv
  <2>2. CASE rest # 0
    <3>1. IsExtent(q) /\ IsExtent(r) /\ r.addr = q.addr + q.size /\ q.size + r.size = p.size
      BY <2>2, <1>3, <1>4, <1>15 DEF IsExtent
    <3> HIDE DEF p, q, r
    <3>2. Places' = (Places \ {p}) \union {q, r}
      BY <2>2, <1>9, <1>10, <1>11, <1>12, <1>14 DEF Places
    <3>3. q.addr = p.addr
      BY <1>15
    <3>4. QED
      BY <3>1, <3>2, <3>3, <1>1, <1>13, <1>16, Split DEF PlacesInv
  <2>3. QED
    BY <2>1, <2>2
<1>18. QED
  BY <1>6, <1>8, <1>11, <1>13, <1>17 DEF MemoryInv

(***************************************************************************)
(* What is left of the pool becomes a free node: the bytes of the chunks   *)
(* are all there without a pool.                                           *)
(***************************************************************************)
LEMMA LeftoverKept ==
  ASSUME IInv, NEW t \in Threads, pc[t] = "chunk", BytesLeft < RoundUp(n[t]), KeepLeftover
  PROVE  ListsInv' /\ Tiles(FreePlaces' \union TransitPlaces \union ClientPlaces, Chunks)
<1> DEFINE i == FreelistIndex(BytesLeft)
           p == PoolPlace(_S_start_free, BytesLeft)
           q == FreePlace(i, _S_start_free)
<1>1. /\ ControlInv /\ ListsInv /\ PoolInv /\ HeapInv /\ PlacesInv /\ RefillInv
  BY DEF IInv, MemoryInv
<1>2. CASE BytesLeft > 0
  <2>1. /\ _S_start_free \in 1 .. MemTop /\ BytesLeft \in Nat \ {0}
        /\ i \in Indices /\ NodeSize(i) = BytesLeft
    BY <1>1, <1>2, Leftover
  <2>2. PoolPlaces = {p}
    BY <1>2, <2>1 DEF PoolPlaces
  <2>3. p \in Places /\ p.kind = "pool" /\ p.addr = _S_start_free /\ p.size = BytesLeft
    BY <2>2 DEF Places, PoolPlace, Place
  <2>4. _S_start_free \notin Range(_S_free_list[i])
    BY <2>1, <2>3, <1>1, NotFree
  <2>5. _S_free_list' = Push(i, _S_start_free)
    BY <1>2 DEF KeepLeftover
  <2>6. q.addr = p.addr /\ q.size = p.size
    BY <2>1, <2>3 DEF FreePlace, Place
  <2> HIDE DEF i
  <2>7. ListsInv' /\ FreePlaces' = FreePlaces \union {q}
    BY <2>1, <2>4, <2>5, <1>1, Pushed
  <2>8. p \notin FreePlaces \union TransitPlaces \union ClientPlaces
    <3>1. \A x \in FreePlaces : x.kind = "free"
      BY DEF FreePlaces, PlacesOn, FreePlace, Place
    <3>2. \A x \in ClientPlaces : x.kind = "client"
      BY DEF ClientPlaces, ClientPlace, Place
    <3>3. \A x \in TransitPlaces : x.kind = "transit"
      BY DEF TransitPlaces, TransitPlace, Place
    <3>4. QED
      BY <2>3, <3>1, <3>2, <3>3
  <2> HIDE DEF p, q
  <2>9. FreePlaces' \union TransitPlaces \union ClientPlaces = (Places \ {p}) \union {q}
    BY <2>2, <2>7, <2>8 DEF Places
  <2>10. QED
    BY <2>3, <2>6, <2>7, <2>9, <1>1, Relabel DEF PlacesInv
<1>3. CASE ~ (BytesLeft > 0)
  <2>1. _S_free_list' = _S_free_list /\ PoolPlaces = {}
    BY <1>3 DEF KeepLeftover, PoolPlaces
  <2>2. ListsInv' /\ FreePlaces' = FreePlaces
    BY <2>1, <1>1 DEF ListsInv, FreePlaces, PlacesOn
  <2>3. FreePlaces' \union TransitPlaces \union ClientPlaces = Places
    BY <2>1, <2>2 DEF Places
  <2>4. QED
    BY <2>2, <2>3, <1>1 DEF PlacesInv
<1>4. QED
  BY <1>2, <1>3

(***************************************************************************)
(* malloc gives a chunk, and the pool is all of it.                        *)
(***************************************************************************)
LEMMA NewPoolMemory ==
  ASSUME IInv, NEW t \in Threads, pc[t] = "chunk" \/ SmallInMalloc(t),
         NEW a \in FirstFit(BytesToGet(t), heap), MallocGives(BytesToGet(t), a), NewPool(t, a),
         ListsInv', Tiles(FreePlaces' \union TransitPlaces \union ClientPlaces, Chunks),
         UNCHANGED << outside, live, n, nobjs, chunk >>
  PROVE  MemoryInv'
<1> DEFINE k == BytesToGet(t)
           B == Block(a, k)
           p == PoolPlace(a, k)
<1>1. ControlInv /\ HeapInv /\ SizeInv
  BY DEF IInv, MemoryInv
<1>2. k \in Nat \ {0} /\ MultipleOf(k, _ALIGN)
  BY <1>1, WholeChunks
<1>3. /\ _S_start_free' = a /\ _S_end_free' = a + k /\ _S_heap_size' = _S_heap_size + k
      /\ pc'[t] = "chunk" /\ \A u \in Threads : u # t => pc'[u] = pc[u]
  BY <1>1 DEF NewPool, Goto, ControlInv
<1>4. pc[t] # "refill"
  BY DEF SmallInMalloc, InMalloc
<1> HIDE DEF k
<1>5. a \in 1 .. MemTop /\ a + k <= MemTop + 1
  BY <1>2, FirstFits DEF k
<1>6. BytesLeft' = k
  BY <1>2, <1>3, <1>5 DEF BytesLeft
<1>7. PoolInv' /\ PoolPlaces' = {p}
  <2>1. _S_start_free' # 0 /\ BytesLeft' > 0
    BY <1>2, <1>3, <1>5, <1>6
  <2>2. _S_start_free' \in 0 .. MemTop + 1 /\ _S_end_free' \in _S_start_free' .. MemTop + 1
    BY <1>2, <1>3, <1>5, Parameters
  <2>3. QED
    BY <2>1, <2>2, <1>2, <1>3, <1>6 DEF PoolInv, PoolPlaces
<1>8. /\ HeapInv' /\ SizeInv' /\ IsExtent(B) /\ \A c \in Chunks : Disjoint(B, c)
      /\ Chunks' = Chunks \union {B}
  BY <1>1, <1>2, <1>3, NewChunk DEF k
<1>9. TransitPlaces' = TransitPlaces
  BY <1>3, <1>4, SameTransit
<1>10. ClientPlaces' = ClientPlaces
  BY DEF ClientPlaces
<1>11. p.addr = B.addr /\ p.size = B.size
  BY DEF PoolPlace, Place, Block
<1> HIDE DEF p, B
<1>12. Places' = (FreePlaces' \union TransitPlaces \union ClientPlaces) \union {p}
  BY <1>7, <1>9, <1>10 DEF Places
<1>13. PlacesInv'
  BY <1>8, <1>11, <1>12, Extend DEF PlacesInv
<1>14. QED
  BY <1>7, <1>8, <1>13 DEF MemoryInv

(***************************************************************************)
(* _S_chunk_alloc when the pool is short: malloc gives a new pool, or the  *)
(* larger lists are searched with no pool at all.                          *)
(***************************************************************************)
LEMMA GetMemory ==
  ASSUME IInv, NEW t \in Threads, GetChunk(t)
  PROVE  MemoryInv'
<1>1. /\ pc[t] = "chunk" /\ BytesLeft < RoundUp(n[t]) /\ KeepLeftover
      /\ UNCHANGED << outside, live, n, nobjs, chunk >>
  BY DEF GetChunk, calls
<1>2. ListsInv' /\ Tiles(FreePlaces' \union TransitPlaces \union ClientPlaces, Chunks)
  BY <1>1, LeftoverKept
<1>3. CASE \E a \in FirstFit(BytesToGet(t), heap) : MallocGives(BytesToGet(t), a) /\ NewPool(t, a)
  BY <1>1, <1>2, <1>3, NewPoolMemory
<1>4. CASE /\ _S_start_free' = 0 /\ Goto(t, "scavenge")
           /\ UNCHANGED << _S_end_free, _S_heap_size, heap >>
  <2>1. ControlInv /\ PoolInv /\ HeapInv /\ SizeInv
    BY DEF IInv, MemoryInv
  <2>2. pc'[t] = "scavenge" /\ \A u \in Threads : u # t => pc'[u] = pc[u]
    BY <2>1, <1>4 DEF Goto, ControlInv
  <2>3. TransitPlaces' = TransitPlaces
    BY <1>1, <2>2, SameTransit
  <2>4. ClientPlaces' = ClientPlaces /\ LargeBlocks' = LargeBlocks /\ PoolPlaces' = {}
    BY <1>1, <1>4 DEF ClientPlaces, LargeBlocks, PoolPlaces
  <2>5. HeapInv' /\ SizeInv' /\ Chunks' = Chunks
    BY <1>1, <1>4, <2>1, <2>4, SameChunks
  <2>6. PoolInv'
    BY <1>4, <2>1, Parameters DEF PoolInv
  <2>7. Places' = FreePlaces' \union TransitPlaces \union ClientPlaces
    BY <2>3, <2>4 DEF Places
  <2>8. QED
    BY <1>2, <2>5, <2>6, <2>7 DEF MemoryInv, PlacesInv
<1>5. QED
  BY <1>3, <1>4 DEF GetChunk

(***************************************************************************)
(* The smallest larger node becomes the pool.                              *)
(***************************************************************************)
LEMMA TakeMemory ==
  ASSUME IInv, NEW t \in Threads, TakeLargerNode(t)
  PROVE  MemoryInv'
<1> DEFINE i == Min(Donors(t))
           a == Head(_S_free_list[i])
           p == FreePlace(i, a)
           q == PoolPlace(a, NodeSize(i))
<1>1. ControlInv /\ ListsInv /\ PoolInv /\ HeapInv /\ PlacesInv /\ SizeInv /\ RefillInv
  BY DEF IInv, MemoryInv
<1>2. /\ pc[t] = "scavenge" /\ pc'[t] = "chunk" /\ \A u \in Threads : u # t => pc'[u] = pc[u]
      /\ _S_free_list' = Pop(i) /\ _S_start_free' = a /\ _S_end_free' = a + NodeSize(i)
      /\ UNCHANGED << n, nobjs, chunk, _S_heap_size, heap, outside, live >>
  BY <1>1 DEF TakeLargerNode, Goto, calls, ControlInv
<1>3. i \in Indices /\ _S_free_list[i] # << >>
  <2>1. Donors(t) # {} /\ Donors(t) \subseteq Nat
    BY DEF TakeLargerNode, Donors, Indices
  <2>2. i \in Donors(t)
    BY <2>1, MinExists
  <2>3. QED
    BY <2>2 DEF Donors
<1> HIDE DEF i
<1>4. NodeSize(i) \in Nat \ {0} /\ MultipleOf(NodeSize(i), _ALIGN)
  BY <1>3, NodeSizes
<1>5. /\ ListsInv' /\ a \in 1 .. MemTop
      /\ p \in FreePlaces /\ FreePlaces' = FreePlaces \ {p}
  BY <1>1, <1>2, <1>3, Popped
<1> HIDE DEF a
<1>6. p \in Places /\ p.addr = a /\ p.size = NodeSize(i) /\ q.addr = a /\ q.size = NodeSize(i)
  BY <1>5 DEF Places, FreePlace, PoolPlace, Place
<1>7. a + NodeSize(i) <= MemTop + 1
  BY <1>1, <1>6, PlacesInMemory
<1>8. PoolPlaces = {}
  BY <1>1, <1>2 DEF RefillInv, PoolPlaces
<1>9. BytesLeft' = NodeSize(i)
  BY <1>2, <1>4, <1>5 DEF BytesLeft
<1>10. PoolInv' /\ PoolPlaces' = {q}
  <2>1. _S_start_free' # 0 /\ BytesLeft' > 0
    BY <1>2, <1>4, <1>5, <1>9
  <2>2. _S_start_free' \in 0 .. MemTop + 1 /\ _S_end_free' \in _S_start_free' .. MemTop + 1
    BY <1>2, <1>4, <1>5, <1>7, Parameters
  <2>3. QED
    BY <2>1, <2>2, <1>2, <1>4, <1>9 DEF PoolInv, PoolPlaces
<1>11. TransitPlaces' = TransitPlaces
  BY <1>2, SameTransit
<1>12. LargeBlocks' = LargeBlocks /\ ClientPlaces' = ClientPlaces
  BY <1>2 DEF LargeBlocks, ClientPlaces
<1>13. HeapInv' /\ SizeInv' /\ Chunks' = Chunks
  BY <1>1, <1>2, <1>12, SameChunks
<1>14. p \notin TransitPlaces \union ClientPlaces
  BY DEF p, TransitPlaces, ClientPlaces, FreePlace, TransitPlace, ClientPlace, Place
<1> HIDE DEF p, q
<1>15. Places' = (Places \ {p}) \union {q}
  BY <1>5, <1>8, <1>10, <1>11, <1>12, <1>14 DEF Places
<1>16. PlacesInv'
  BY <1>1, <1>6, <1>13, <1>15, Relabel DEF PlacesInv
<1>17. QED
  BY <1>5, <1>10, <1>13, <1>16 DEF MemoryInv

(***************************************************************************)
(* There is no pool to lose when its end is reset.                         *)
(***************************************************************************)
LEMMA AskMemory ==
  ASSUME IInv, NEW t \in Threads, AskMallocAlloc(t)
  PROVE  MemoryInv'
<1>1. ControlInv /\ ListsInv /\ PoolInv /\ HeapInv /\ PlacesInv /\ SizeInv /\ RefillInv
  BY DEF IInv, MemoryInv
<1>2. /\ pc[t] = "scavenge" /\ pc'[t] = "malloc" /\ \A u \in Threads : u # t => pc'[u] = pc[u]
      /\ _S_end_free' = 0
      /\ UNCHANGED << _S_free_list, _S_start_free, _S_heap_size, heap, outside, live, n, nobjs,
                      chunk >>
  BY <1>1 DEF AskMallocAlloc, Goto, calls, ControlInv
<1>3. _S_start_free = 0
  BY <1>1, <1>2 DEF RefillInv
<1>4. PoolPlaces = {} /\ PoolPlaces' = {} /\ PoolInv'
  BY <1>1, <1>2, <1>3, Parameters DEF PoolPlaces, PoolInv
<1>5. TransitPlaces' = TransitPlaces
  BY <1>2, SameTransit
<1>6. ListsInv' /\ FreePlaces' = FreePlaces
  BY <1>1, <1>2 DEF ListsInv, FreePlaces, PlacesOn
<1>7. LargeBlocks' = LargeBlocks /\ ClientPlaces' = ClientPlaces
  BY <1>2 DEF LargeBlocks, ClientPlaces
<1>8. HeapInv' /\ SizeInv' /\ Chunks' = Chunks
  BY <1>1, <1>2, <1>7, SameChunks
<1>9. Places' = Places
  BY <1>4, <1>5, <1>6, <1>7 DEF Places
<1>10. QED
  BY <1>1, <1>4, <1>6, <1>8, <1>9 DEF MemoryInv, PlacesInv

(***************************************************************************)
(* A block that the client gets from malloc or realloc is no chunk.        *)
(***************************************************************************)
LEMMA LargeGiven ==
  ASSUME MemoryInv, NEW old \in SUBSET LargeBlocks, NEW k \in Sizes, Large(k),
         NEW a \in FirstFit(k, heap \ old),
         heap' = (heap \ old) \union {Block(a, k)}, live' = (live \ old) \union {Block(a, k)},
         UNCHANGED << _S_free_list, pool, outside >>, TransitPlaces' = TransitPlaces
  PROVE  MemoryInv'
<1> DEFINE B == Block(a, k)
<1>1. ListsInv /\ PoolInv /\ HeapInv /\ PlacesInv /\ SizeInv
  BY DEF MemoryInv
<1>2. k \in Nat \ {0}
  BY Parameters
<1>3. /\ B \in Chunk /\ a + k <= MemTop + 1
      /\ \A b \in heap \ old : Apart(b, B)
      /\ B \notin heap \ old
  BY <1>1, <1>2, NewBlock
<1>4. B.addr = a /\ B.size = k
  BY DEF Block
<1> HIDE DEF B
<1>5. LargeBlocks' = (LargeBlocks \ old) \union {B} /\ ClientPlaces' = ClientPlaces
  BY <1>4 DEF LargeBlocks, ClientPlaces, B
<1>6. heap' = (heap \ old) \union {B} /\ outside' = outside
  BY DEF B
<1>7. HeapInv'
  <2>1. heap' \subseteq Chunk /\ \A b \in heap' : b.addr + b.size <= MemTop + 1
    BY <1>1, <1>3, <1>4, <1>6 DEF HeapInv
  <2>2. \A b, c \in heap' : b # c => Apart(b, c)
    BY <1>1, <1>3, <1>6 DEF HeapInv, Apart
  <2>3. outside' \subseteq heap' /\ LargeBlocks' \subseteq heap'
    BY <1>1, <1>5, <1>6 DEF HeapInv
  <2>4. outside' \cap LargeBlocks' = {}
    BY <1>1, <1>3, <1>5, <1>6 DEF HeapInv
  <2>5. QED
    BY <2>1, <2>2, <2>3, <2>4 DEF HeapInv
<1>8. Chunks' = Chunks
  BY <1>1, <1>3, <1>5, <1>6 DEF HeapInv, Chunks
<1>9. /\ _S_start_free' = _S_start_free /\ _S_end_free' = _S_end_free
      /\ _S_heap_size' = _S_heap_size /\ BytesLeft' = BytesLeft
  BY DEF pool, BytesLeft
<1>10. FreePlaces' = FreePlaces /\ PoolPlaces' = PoolPlaces
  BY <1>9 DEF FreePlaces, PlacesOn, PoolPlaces
<1>11. Places' = Places
  BY <1>5, <1>10 DEF Places
<1>12. ListsInv' /\ PoolInv' /\ PlacesInv' /\ SizeInv'
  BY <1>1, <1>8, <1>9, <1>11 DEF ListsInv, PoolInv, PlacesInv, SizeInv
<1>13. QED
  BY <1>7, <1>12 DEF MemoryInv

(***************************************************************************)
(* malloc_alloc succeeds, for a large request or for the pool.             *)
(***************************************************************************)
LEMMA SucceedsMemory ==
  ASSUME IInv, NEW t \in Threads, MallocSucceeds(t)
  PROVE  MemoryInv'
<1>1. /\ ControlInv /\ ListsInv /\ PlacesInv /\ RefillInv /\ MemoryInv
      /\ pc \in [Threads -> Labels]
  BY DEF IInv, MemoryInv, ControlInv
<1>2. pc[t] = "malloc" /\ UNCHANGED << _S_free_list, outside, nobjs, chunk >>
  BY DEF MallocSucceeds
<1>3. CASE Large(n[t])
  <2>1. PICK a \in FirstFit(n[t], heap) :
          MallocGives(n[t], a) /\ live' = live \union {Block(a, n[t])}
    BY <1>3 DEF MallocSucceeds
  <2>2. /\ UNCHANGED pool /\ pc'[t] # "refill"
        /\ \A u \in Threads : u # t => pc'[u] = pc[u] /\ n'[u] = n[u]
    BY <1>1, <1>3 DEF MallocSucceeds, Goto, ControlInv
  <2>3. TransitPlaces' = TransitPlaces
    BY <1>2, <2>2, SameTransit
  <2>4. n[t] \in Sizes
    BY <1>1, <1>2 DEF ControlInv, InMalloc
  <2>5. heap \ {} = heap /\ live \ {} = live /\ {} \in SUBSET LargeBlocks
    OBVIOUS
  <2>6. QED
    BY <1>1, <1>2, <1>3, <2>1, <2>2, <2>3, <2>4, <2>5, LargeGiven DEF MallocGives
<1>4. CASE ~ Large(n[t])
  <2>1. PICK a \in FirstFit(BytesToGet(t), heap) :
          MallocGives(BytesToGet(t), a) /\ NewPool(t, a)
    BY <1>4 DEF MallocSucceeds
  <2>2. SmallInMalloc(t) /\ UNCHANGED << live, n >>
    BY <1>2, <1>4 DEF MallocSucceeds, SmallInMalloc, InMalloc
  <2>3. PoolPlaces = {}
    BY <1>1, <2>2 DEF RefillInv, PoolPlaces
  <2>4. ListsInv' /\ FreePlaces' = FreePlaces
    BY <1>1, <1>2 DEF ListsInv, FreePlaces, PlacesOn
  <2>5. FreePlaces' \union TransitPlaces \union ClientPlaces = Places
    BY <2>3, <2>4 DEF Places
  <2>6. Tiles(FreePlaces' \union TransitPlaces \union ClientPlaces, Chunks)
    BY <1>1, <2>5 DEF PlacesInv
  <2>7. QED
    BY <1>2, <2>1, <2>2, <2>4, <2>6, NewPoolMemory
<1>5. QED
  BY <1>3, <1>4

(***************************************************************************)
(* The handler gives a block of the program back to malloc.                *)
(***************************************************************************)
LEMMA HandlerMemory ==
  ASSUME IInv, NEW t \in Threads, RunHandler(t)
  PROVE  MemoryInv'
<1>1. /\ ListsInv /\ PoolInv /\ HeapInv /\ PlacesInv /\ SizeInv /\ MemoryInv
      /\ pc \in [Threads -> Labels]
  BY DEF IInv, MemoryInv, ControlInv
<1>2. /\ pc[t] = "handler" /\ pc'[t] = "malloc" /\ \A u \in Threads : u # t => pc'[u] = pc[u]
      /\ UNCHANGED << _S_free_list, pool, live, n, nobjs, chunk >>
  BY <1>1 DEF RunHandler, Goto, calls
<1>3. TransitPlaces' = TransitPlaces
  BY <1>2, SameTransit
<1>4. CASE UNCHANGED << heap, outside >>
  BY <1>1, <1>2, <1>3, <1>4, SameMemory
<1>5. ASSUME NEW b \in outside, heap' = heap \ {b}, outside' = outside \ {b} PROVE MemoryInv'
  <2>1. LargeBlocks' = LargeBlocks /\ ClientPlaces' = ClientPlaces
    BY <1>2 DEF LargeBlocks, ClientPlaces
  <2>2. HeapInv'
    BY <1>1, <1>5, <2>1 DEF HeapInv
  <2>3. Chunks' = Chunks
    BY <1>5, <2>1 DEF Chunks
  <2>4. /\ _S_start_free' = _S_start_free /\ _S_end_free' = _S_end_free
        /\ _S_heap_size' = _S_heap_size /\ BytesLeft' = BytesLeft
    BY <1>2 DEF pool, BytesLeft
  <2>5. FreePlaces' = FreePlaces /\ PoolPlaces' = PoolPlaces
    BY <1>2, <2>4 DEF FreePlaces, PlacesOn, PoolPlaces
  <2>6. Places' = Places
    BY <1>3, <2>1, <2>5 DEF Places
  <2>7. ListsInv' /\ PoolInv' /\ PlacesInv' /\ SizeInv'
    BY <1>1, <1>2, <2>3, <2>4, <2>6 DEF ListsInv, PoolInv, PlacesInv, SizeInv
  <2>8. QED
    BY <2>2, <2>7 DEF MemoryInv
<1>6. QED
  BY <1>4, <1>5 DEF RunHandler, Free

(***************************************************************************)
(* Client to _S_free_list, or to free(): a block is given back.            *)
(***************************************************************************)
LEMMA GiveBackMemory ==
  ASSUME MemoryInv, MovingInv, NEW b \in live, GiveBack(b),
         UNCHANGED << pool, outside >>, TransitPlaces' = TransitPlaces
  PROVE  MemoryInv'
<1>1. ListsInv /\ PoolInv /\ HeapInv /\ PlacesInv /\ SizeInv /\ live \subseteq Blocks
  BY DEF MemoryInv, MovingInv
<1>2. live' = live \ {b}
  BY DEF GiveBack
<1>3. /\ _S_start_free' = _S_start_free /\ _S_end_free' = _S_end_free
      /\ _S_heap_size' = _S_heap_size /\ BytesLeft' = BytesLeft /\ PoolPlaces' = PoolPlaces
  BY DEF pool, BytesLeft, PoolPlaces
<1>4. PoolInv'
  BY <1>1, <1>3 DEF PoolInv
<1>5. CASE Large(b.size)
  <2>1. heap' = heap \ {b} /\ _S_free_list' = _S_free_list
    BY <1>5 DEF GiveBack, Free
  <2>2. b \in LargeBlocks /\ LargeBlocks' = LargeBlocks \ {b} /\ ClientPlaces' = ClientPlaces
    BY <1>2, <1>5 DEF LargeBlocks, ClientPlaces
  <2>3. HeapInv'
    BY <1>1, <2>1, <2>2 DEF HeapInv
  <2>4. Chunks' = Chunks
    BY <2>1, <2>2 DEF Chunks
  <2>5. FreePlaces' = FreePlaces
    BY <2>1 DEF FreePlaces, PlacesOn
  <2>6. Places' = Places
    BY <1>3, <2>2, <2>5 DEF Places
  <2>7. ListsInv' /\ PlacesInv' /\ SizeInv'
    BY <1>1, <1>3, <2>1, <2>4, <2>6 DEF ListsInv, PlacesInv, SizeInv
  <2>8. QED
    BY <1>4, <2>3, <2>7 DEF MemoryInv
<1>6. CASE ~ Large(b.size)
  <2> DEFINE i == FreelistIndex(b.size)
             p == ClientPlace(b)
             q == FreePlace(i, b.addr)
  <2>1. /\ b.addr \in 1 .. MemTop /\ b.size \in Nat \ {0}
        /\ i \in Indices /\ NodeSize(i) = RoundUp(b.size)
    BY <1>1, <1>6, Parameters, SmallSizes DEF Blocks
  <2>2. _S_free_list' = Push(i, b.addr) /\ heap' = heap
    BY <1>6 DEF GiveBack
  <2>3. /\ p.kind = "client" /\ p.addr = b.addr /\ p.size = RoundUp(b.size)
        /\ q.addr = p.addr /\ q.size = p.size
    BY <2>1 DEF ClientPlace, FreePlace, Place
  <2>4. p \in ClientPlaces /\ p \in Places
    BY <1>6 DEF ClientPlaces, Places
  <2>5. b.addr \notin Range(_S_free_list[i])
    BY <1>1, <2>1, <2>3, <2>4, NotFree
  <2> HIDE DEF i
  <2>6. ListsInv' /\ FreePlaces' = FreePlaces \union {q}
    BY <1>1, <2>1, <2>2, <2>5, Pushed
  <2>7. LargeBlocks' = LargeBlocks
    BY <1>2, <1>6 DEF LargeBlocks
  <2>8. ClientPlaces' = ClientPlaces \ {p}
    <3>1. \A c \in live : ClientPlace(c) = p => c = b
      BY <1>1 DEF ClientPlace, Place, Blocks
    <3> HIDE DEF p
    <3>2. QED
      BY <1>2, <3>1 DEF ClientPlaces, p
  <2>9. HeapInv' /\ SizeInv' /\ Chunks' = Chunks
    BY <1>1, <1>3, <2>2, <2>7, SameChunks
  <2>10. p \notin FreePlaces \union PoolPlaces \union TransitPlaces
    <3>1. \A x \in FreePlaces : x.kind = "free"
      BY DEF FreePlaces, PlacesOn, FreePlace, Place
    <3>2. \A x \in PoolPlaces : x.kind = "pool"
      BY DEF PoolPlaces, PoolPlace, Place
    <3>3. \A x \in TransitPlaces : x.kind = "transit"
      BY DEF TransitPlaces, TransitPlace, Place
    <3>4. QED
      BY <2>3, <3>1, <3>2, <3>3
  <2> HIDE DEF p, q
  <2>11. Places' = (Places \ {p}) \union {q}
    BY <1>3, <2>6, <2>8, <2>10 DEF Places
  <2>12. PlacesInv'
    BY <1>1, <2>3, <2>4, <2>9, <2>11, Relabel DEF PlacesInv
  <2>13. QED
    BY <1>4, <2>6, <2>9, <2>12 DEF MemoryInv
<1>7. QED
  BY <1>5, <1>6

(***************************************************************************)
(* Sizes that round to the same node are both small, unless both are       *)
(* large.                                                                  *)
(***************************************************************************)
LEMMA SameNodeSmall ==
  ASSUME NEW j \in Nat \ {0}, NEW k \in Nat \ {0}, SameNode(j, k), ~ (Large(j) /\ Large(k))
  PROVE  ~ Large(j) /\ ~ Large(k)
<1>1. ASSUME NEW x \in Nat \ {0}, NEW y \in Nat \ {0}, RoundUp(x) = RoundUp(y), ~ Large(x)
      PROVE  ~ Large(y)
  <2>1. RoundUp(x) \in Nat /\ RoundUp(x) <= _MAX_BYTES
    BY <1>1, SmallSizes
  <2>2. y <= RoundUp(y)
    BY Parameters, UpBounds DEF RoundUp, Up
  <2>3. QED
    BY <1>1, <2>1, <2>2, Parameters DEF Large
<1>2. QED
  BY <1>1 DEF SameNode

(***************************************************************************)
(* reallocate within the same node.                                        *)
(***************************************************************************)
LEMMA InPlaceMemory ==
  ASSUME IInv, NEW t \in Threads, NEW b \in Held, NEW k \in Sizes, ReallocateInPlace(t, b, k)
  PROVE  MemoryInv'
<1> DEFINE c == Block(b.addr, k)
           p == ClientPlace(b)
           q == ClientPlace(c)
<1>1. /\ ListsInv /\ PoolInv /\ HeapInv /\ PlacesInv /\ SizeInv
      /\ live \subseteq Blocks /\ b \in live
  BY DEF IInv, MemoryInv, MovingInv, Held
<1>2. /\ live' = (live \ {b}) \union {c} /\ RoundUp(b.size) = RoundUp(k)
      /\ UNCHANGED << _S_free_list, pool, heap, outside, pc, calls >>
  BY DEF ReallocateInPlace, SameNode
<1>3. b.size \in Nat \ {0} /\ k \in Nat \ {0}
  BY <1>1, Parameters DEF Blocks
<1>4. ~ Large(b.size) /\ ~ Large(k)
  BY <1>3, SameNodeSmall DEF ReallocateInPlace
<1>5. c.addr = b.addr /\ c.size = k
  BY DEF Block
<1> HIDE DEF c
<1>6. LargeBlocks' = LargeBlocks
  BY <1>2, <1>4, <1>5 DEF LargeBlocks
<1>7. /\ _S_start_free' = _S_start_free /\ _S_end_free' = _S_end_free
      /\ _S_heap_size' = _S_heap_size /\ BytesLeft' = BytesLeft /\ PoolPlaces' = PoolPlaces
  BY <1>2 DEF pool, BytesLeft, PoolPlaces
<1>8. PoolInv' /\ ListsInv' /\ FreePlaces' = FreePlaces
  BY <1>1, <1>2, <1>7 DEF PoolInv, ListsInv, FreePlaces, PlacesOn
<1>9. TransitPlaces' = TransitPlaces
  BY <1>2 DEF calls, TransitPlaces, RoundUp
<1>10. HeapInv' /\ SizeInv' /\ Chunks' = Chunks
  BY <1>1, <1>2, <1>6, <1>7, SameChunks
<1>11. p \in ClientPlaces /\ p \in Places
  BY <1>1, <1>4 DEF ClientPlaces, Places
<1>12. p.kind = "client" /\ q.addr = p.addr /\ q.size = p.size
  BY <1>2, <1>5 DEF ClientPlace, Place
<1>13. ClientPlaces' = (ClientPlaces \ {p}) \union {q}
  <2>1. \A d \in live : ClientPlace(d) = p => d = b
    BY <1>1 DEF ClientPlace, Place, Blocks
  <2> HIDE DEF p, q
  <2>2. QED
    BY <1>2, <1>4, <1>5, <2>1 DEF ClientPlaces, p, q
<1>14. p \notin FreePlaces \union PoolPlaces \union TransitPlaces
  <2>1. \A x \in FreePlaces : x.kind = "free"
    BY DEF FreePlaces, PlacesOn, FreePlace, Place
  <2>2. \A x \in PoolPlaces : x.kind = "pool"
    BY DEF PoolPlaces, PoolPlace, Place
  <2>3. \A x \in TransitPlaces : x.kind = "transit"
    BY DEF TransitPlaces, TransitPlace, Place
  <2>4. QED
    BY <1>12, <2>1, <2>2, <2>3
<1> HIDE DEF p, q
<1>15. Places' = (Places \ {p}) \union {q}
  BY <1>7, <1>8, <1>9, <1>13, <1>14 DEF Places
<1>16. PlacesInv'
  BY <1>1, <1>10, <1>11, <1>12, <1>15, Relabel DEF PlacesInv
<1>17. QED
  BY <1>8, <1>10, <1>16 DEF MemoryInv

(***************************************************************************)
(* Every step keeps the lists, the pool and the places that tile the       *)
(* chunks.                                                                 *)
(***************************************************************************)
LEMMA MemoryStep == IInv /\ [Next]_vars => MemoryInv'
<1> SUFFICES ASSUME IInv, [Next]_vars PROVE MemoryInv'
  OBVIOUS
<1>c. /\ MemoryInv /\ MovingInv /\ live \subseteq Blocks /\ pc \in [Threads -> Labels]
      /\ moving \in [Threads -> SUBSET live]
  BY DEF IInv, ControlInv, MovingInv
\* A thread that links nothing, before and after, and works on no memory.
<1>1. ASSUME NEW t \in Threads, pc[t] # "refill", pc'[t] # "refill",
             \A u \in Threads : u # t => /\ pc'[u] = pc[u] /\ n'[u] = n[u]
                                         /\ nobjs'[u] = nobjs[u] /\ chunk'[u] = chunk[u],
             UNCHANGED << _S_free_list, pool, heap, outside, live >>
      PROVE  MemoryInv'
  BY <1>1, <1>c, SameTransit, SameMemory
<1>2. ASSUME NEW t \in Threads, NEW k \in Sizes, Allocate(t, k) PROVE MemoryInv'
  <2>1. n \in [Threads -> Sizes \union {0}]
    BY DEF IInv, ControlInv
  <2>2. QED
    BY <1>1, <1>2, <1>c, <2>1 DEF Allocate, Idle, Goto
<1>3. ASSUME NEW t \in Threads, EnterAllocate(t) PROVE MemoryInv'
  BY <1>1, <1>3, <1>c DEF EnterAllocate, Goto, calls
<1>4. ASSUME NEW t \in Threads, RefillEmptyList(t) PROVE MemoryInv'
  <2>1. nobjs \in [Threads -> 0 .. NObjs]
    BY DEF IInv, ControlInv
  <2>2. QED
    BY <1>1, <1>4, <1>c, <2>1 DEF RefillEmptyList, Goto
<1>5. ASSUME NEW t \in Threads, MallocFails(t) PROVE MemoryInv'
  BY <1>1, <1>5, <1>c DEF MallocFails, Goto, calls
<1>6. ASSUME NEW t \in Threads, ReadHandler(t) PROVE MemoryInv'
  <2>1. n \in [Threads -> Sizes \union {0}] /\ nobjs \in [Threads -> 0 .. NObjs]
    BY DEF IInv, ControlInv
  <2>2. QED
    BY <1>1, <1>6, <1>c, <2>1 DEF ReadHandler, Throw, Goto, calls
<1>7. ASSUME NEW t \in Threads, NEW b \in Held, NEW k \in Sizes, ReallocateByCopy(t, b, k)
      PROVE  MemoryInv'
  <2>1. n \in [Threads -> Sizes \union {0}]
    BY DEF IInv, ControlInv
  <2>2. QED
    BY <1>1, <1>7, <1>c, <2>1 DEF ReallocateByCopy, Idle, Goto
<1>8. ASSUME UNCHANGED << pc, n, nobjs, chunk >> PROVE TransitPlaces' = TransitPlaces
  BY <1>8 DEF TransitPlaces, RoundUp
<1>9. ASSUME NEW t \in Threads, NEW b \in Held, Deallocate(t, b) PROVE MemoryInv'
  <2>1. b \in live /\ GiveBack(b) /\ UNCHANGED << pool, outside, pc, n, nobjs, chunk >>
    BY <1>9 DEF Deallocate, Held, calls
  <2>2. QED
    BY <2>1, <1>8, <1>c, GiveBackMemory
<1>10. ASSUME NEW t \in Threads, ReleaseOld(t) PROVE MemoryInv'
  <2>1. PICK b \in moving[t] : GiveBack(b)
    BY <1>10 DEF ReleaseOld
  <2>2. b \in live
    BY <1>c
  <2>3. /\ pc[t] = "release" /\ pc'[t] = "idle" /\ \A u \in Threads : u # t => pc'[u] = pc[u]
        /\ UNCHANGED << n, nobjs, chunk, pool, outside >>
    BY <1>10, <1>c DEF ReleaseOld, Goto
  <2>4. TransitPlaces' = TransitPlaces
    BY <2>3, SameTransit
  <2>5. QED
    BY <2>1, <2>2, <2>3, <2>4, <1>c, GiveBackMemory
<1>11. ASSUME NEW t \in Threads, NEW b \in Held, NEW k \in Sizes, ReallocateLarge(t, b, k)
       PROVE  MemoryInv'
  <2>1. PICK a \in FirstFit(k, heap \ {b}) :
          /\ heap' = (heap \ {b}) \union {Block(a, k)}
          /\ live' = (live \ {b}) \union {Block(a, k)}
    BY <1>11 DEF ReallocateLarge
  <2>2. /\ Large(k) /\ {b} \in SUBSET LargeBlocks
        /\ UNCHANGED << _S_free_list, pool, outside, pc, n, nobjs, chunk >>
    BY <1>11 DEF ReallocateLarge, LargeBlocks, Held, calls
  <2>3. QED
    BY <2>1, <2>2, <1>8, <1>c, LargeGiven
<1>12. ASSUME UNCHANGED << _S_free_list, pool, heap, outside, live, pc, n, nobjs, chunk >>
       PROVE  MemoryInv'
  BY <1>8, <1>12, <1>c, SameMemory
<1>13. CASE RemoveHandler \/ UNCHANGED vars
  BY <1>12, <1>13 DEF RemoveHandler, vars, calls
<1>14. QED
  BY <1>2, <1>3, <1>4, <1>5, <1>6, <1>7, <1>9, <1>10, <1>11, <1>13, PopMemory, LinkMemory,
     ServeMemory, GetMemory, TakeMemory, AskMemory, SucceedsMemory, HandlerMemory, InPlaceMemory
     DEF Next, Call, Work

-----------------------------------------------------------------------------
(* The invariant                                                           *)

\* At first nothing is allocated and everything that is said of places holds.
LEMMA Initially == Init => IInv
<1> SUFFICES ASSUME Init PROVE IInv
  OBVIOUS
<1> USE Parameters
<1>1. ControlInv
  BY DEF Init, ControlInv, Labels, Locked, InMalloc, Refilling, SmallInMalloc, HasLock
<1>2. MovingInv
  BY DEF Init, MovingInv
<1>3. RefillInv
  <2>1. \A t \in Threads : pc[t] = "idle"
    BY DEF Init
  <2>2. _S_end_free = 0
    BY DEF Init
  <2>3. QED
    BY <2>1, <2>2 DEF RefillInv, Refilling, SmallInMalloc, InMalloc
<1>4. ListsInv
  <2>1. \A i \in Indices : _S_free_list[i] = << >>
    BY DEF Init
  <2>2. _S_free_list \in [Indices -> Seq(1 .. MemTop)]
    BY DEF Init
  <2>3. QED
    BY <2>1, <2>2, NoNodes DEF ListsInv
<1>5. PoolInv
  BY DEF Init, PoolInv
<1>6. LargeBlocks = {} /\ heap = Outside /\ outside = Outside
  BY DEF Init, LargeBlocks
<1>7. HeapInv
  <2>1. \A b \in Outside : b \in Chunk /\ b.addr + b.size <= MemTop + 1
    <3>1. ASSUME NEW b \in Outside PROVE b \in Chunk /\ b.addr + b.size <= MemTop + 1
      <4>1. /\ b = [addr |-> b.addr, size |-> b.size]
            /\ b.addr \in Nat \ {0} /\ b.size \in Nat \ {0} /\ b.addr + b.size <= MemTop + 1
        BY NodeAllocAssumption
      <4>2. b.addr \in 1 .. MemTop
        BY <4>1
      <4>3. QED
        BY <4>1, <4>2 DEF Chunk
    <3>2. QED
      BY <3>1
  <2>2. \A b, c \in Outside : b # c => Apart(b, c)
    BY NodeAllocAssumption DEF Apart
  <2>3. QED
    BY <2>1, <2>2, <1>6 DEF HeapInv
<1>8. Chunks = {}
  BY <1>6 DEF Chunks
<1>9. Places = {}
  <2>1. FreePlaces = {}
    <3>1. \A i \in Indices : PlacesOn(i) = {}
      BY NoNodes DEF Init, PlacesOn
    <3>2. QED
      BY <3>1 DEF FreePlaces
  <2>2. PoolPlaces = {} /\ TransitPlaces = {} /\ ClientPlaces = {}
    BY DEF Init, PoolPlaces, TransitPlaces, ClientPlaces
  <2>3. QED
    BY <2>1, <2>2 DEF Places
<1>10. PlacesInv
  BY <1>8, <1>9 DEF PlacesInv, Tiles
<1>11. SizeInv
  <2>1. Covered(Chunks) = {} /\ _S_heap_size = 0
    BY <1>8 DEF Covered, Init
  <2>2. QED
    BY <2>1, FS_EmptySet DEF SizeInv
<1>12. oom_handler \in BOOLEAN /\ chunk \in [Threads -> 0 .. MemTop]
  BY DEF Init
<1>13. QED
  BY <1>1, <1>2, <1>3, <1>4, <1>5, <1>7, <1>10, <1>11, <1>12 DEF IInv, MemoryInv

\* The handler stays a flag, and the local chunk an address, in every step.
LEMMA OtherStep ==
  IInv /\ [Next]_vars => oom_handler' \in BOOLEAN /\ chunk' \in [Threads -> 0 .. MemTop]
<1> SUFFICES ASSUME IInv, [Next]_vars
             PROVE  oom_handler' \in BOOLEAN /\ chunk' \in [Threads -> 0 .. MemTop]
  OBVIOUS
<1>c. oom_handler \in BOOLEAN /\ chunk \in [Threads -> 0 .. MemTop]
  BY DEF IInv
<1>1. ASSUME NEW t \in Threads, ServeFromPool(t)
      PROVE  oom_handler' \in BOOLEAN /\ chunk' \in [Threads -> 0 .. MemTop]
  <2>1. _S_start_free \in 0 .. MemTop
    BY <1>1, ServeMemory, Parameters
  <2>2. oom_handler' = oom_handler /\ chunk' = [chunk EXCEPT ![t] = _S_start_free]
    BY <1>1 DEF ServeFromPool
  <2>3. QED
    BY <2>1, <2>2, <1>c
<1>2. ASSUME NEW t \in Threads, PopNode(t) \/ LinkNodes(t)
      PROVE  oom_handler' \in BOOLEAN /\ chunk' \in [Threads -> 0 .. MemTop]
  BY <1>2, <1>c, Parameters DEF PopNode, LinkNodes, Return
<1>3. ASSUME oom_handler' \in BOOLEAN, chunk' = chunk
      PROVE  oom_handler' \in BOOLEAN /\ chunk' \in [Threads -> 0 .. MemTop]
  BY <1>3, <1>c
<1>4. ASSUME NEW t \in Threads, Call(t) \/ EnterAllocate(t) \/ ReleaseOld(t)
      PROVE  oom_handler' = oom_handler /\ chunk' = chunk
  BY <1>4 DEF Call, Allocate, Deallocate, ReallocateLarge, ReallocateInPlace, ReallocateByCopy,
              EnterAllocate, ReleaseOld, calls
<1>5. ASSUME NEW t \in Threads,
             RefillEmptyList(t) \/ GetChunk(t) \/ TakeLargerNode(t) \/ AskMallocAlloc(t)
               \/ MallocSucceeds(t) \/ MallocFails(t) \/ ReadHandler(t)
      PROVE  oom_handler' = oom_handler /\ chunk' = chunk
  BY <1>5 DEF RefillEmptyList, GetChunk, TakeLargerNode, AskMallocAlloc, MallocSucceeds,
              MallocFails, ReadHandler, Throw, calls
<1>6. ASSUME NEW t \in Threads, RunHandler(t)
      PROVE  oom_handler' \in BOOLEAN /\ chunk' = chunk
  BY <1>6, <1>c DEF RunHandler, calls
<1>7. CASE RemoveHandler \/ UNCHANGED vars
  BY <1>7, <1>c DEF RemoveHandler, vars, calls
<1>8. QED
  BY <1>1, <1>2, <1>3, <1>4, <1>5, <1>6, <1>7, <1>c DEF Next, Work

(***************************************************************************)
(* The inductive invariant holds in every state of the node allocator.     *)
(***************************************************************************)
THEOREM Invariant == Spec => []IInv
<1>1. IInv /\ [Next]_vars => IInv'
  BY ControlStep, MovingStep, RefillStep, MemoryStep, OtherStep DEF IInv
<1>2. QED
  BY Initially, <1>1, PTL DEF Spec

(***************************************************************************)
(* The variables of the free lists, the pool, the lock and the calls stay  *)
(* in their ranges; _S_heap_size never exceeds the memory there is.        *)
(***************************************************************************)
THEOREM TypeCorrect == Spec => []TypeOK
<1>1. ASSUME IInv PROVE TypeOK
  <2>1. ControlInv /\ MovingInv /\ ListsInv /\ PoolInv /\ HeapInv /\ SizeInv
    BY <1>1 DEF IInv, MemoryInv
  <2>2. _S_heap_size \in 0 .. MemTop
    <3>1. Covered(Chunks) \subseteq 1 .. MemTop
      <4>1. ASSUME NEW c \in Chunks PROVE Extent(c) \subseteq 1 .. MemTop
        <5>1. c.addr \in 1 .. MemTop /\ c.size \in Nat \ {0} /\ c.addr + c.size <= MemTop + 1
          BY <2>1 DEF HeapInv, Chunks, Chunk
        <5>2. QED
          BY <5>1, Parameters DEF Extent
      <4>2. QED
        BY <4>1 DEF Covered
    <3>2. IsFiniteSet(1 .. MemTop) /\ Cardinality(1 .. MemTop) = MemTop
      <4>1. 1 \in Int /\ MemTop \in Int /\ ~ (1 > MemTop)
        BY Parameters
      <4>2. Cardinality(1 .. MemTop) = MemTop - 1 + 1
        BY <4>1, FS_Interval, ZenonT(30)
      <4>3. QED
        BY <4>1, <4>2, FS_Interval
    <3>3. Cardinality(Covered(Chunks)) <= MemTop
      BY <3>1, <3>2, FS_Subset
    <3>4. Cardinality(Covered(Chunks)) \in Nat
      BY <2>1, FS_CardinalityType DEF SizeInv
    <3>5. QED
      BY <2>1, <3>3, <3>4, Parameters DEF SizeInv
  <2>3. \A t \in Threads : moving[t] \subseteq live /\ Cardinality(moving[t]) <= 1
    <3>1. SUFFICES ASSUME NEW t \in Threads PROVE Cardinality(moving[t]) <= 1
      BY <2>1 DEF MovingInv
    <3>2. CASE moving[t] = {}
      BY <3>2, FS_EmptySet
    <3>3. CASE moving[t] # {}
      <4>1. PICK b : moving[t] = {b}
        BY <3>3, <2>1 DEF MovingInv
      <4>2. Cardinality({b}) = 1
        BY FS_Singleton
      <4>3. QED
        BY <4>1, <4>2
    <3>4. QED
      BY <3>2, <3>3
  <2>4. _S_free_list \in [Indices -> Seq(1 .. MemTop)]
    BY <2>1 DEF ListsInv
  <2>5. _S_start_free \in 0 .. (MemTop + 1) /\ _S_end_free \in _S_start_free .. (MemTop + 1)
    BY <2>1 DEF PoolInv
  <2>6. /\ lock \in Threads \union {NoThread} /\ pc \in [Threads -> Labels]
        /\ n \in [Threads -> Sizes \union {0}] /\ nobjs \in [Threads -> 0 .. NObjs]
    BY <2>1 DEF ControlInv
  <2>7. \A b \in live : b.addr \in 1 .. MemTop /\ b.size \in Sizes
    BY <2>1 DEF MovingInv, Blocks
  <2>8. outside \subseteq heap
    BY <2>1 DEF HeapInv
  <2>9. QED
    BY <1>1, <2>2, <2>3, <2>4, <2>5, <2>6, <2>7, <2>8 DEF TypeOK, IInv
<1>2. QED
  BY Invariant, <1>1, PTL

(***************************************************************************)
(* The pieces that are cut from chunks are the places, without what they   *)
(* are called.                                                             *)
(***************************************************************************)
CutPieces == FreeNodes \union Pool \union InTransit \union ClientNodes

\* The sets that NoOverlap and Conservation speak of are those of the tiling.
LEMMA PiecesArePlaces ==
  ASSUME ListsInv
  PROVE  /\ \A b \in CutPieces : \E p \in Places : b = Block(p.addr, p.size)
         /\ \A p \in Places : Block(p.addr, p.size) \in CutPieces
<1>1. \A kind, asked, a, k : Place(kind, asked, a, k).addr = a /\ Place(kind, asked, a, k).size = k
  BY DEF Place
<1>2. ASSUME NEW i \in Indices
      PROVE  \A a : (\E j \in DOMAIN _S_free_list[i] : a = _S_free_list[i][j])
                      <=> a \in Range(_S_free_list[i])
  BY DEF Range
<1>3. ASSUME NEW b \in FreeNodes PROVE \E p \in FreePlaces : b = Block(p.addr, p.size)
  <2>a. PICK i \in Indices : \E j \in DOMAIN _S_free_list[i] :
               b = Block(_S_free_list[i][j], NodeSize(i))
    BY <1>3 DEF FreeNodes
  <2>1. PICK j \in DOMAIN _S_free_list[i] : b = Block(_S_free_list[i][j], NodeSize(i))
    BY <2>a
  <2> DEFINE p == FreePlace(i, _S_free_list[i][j])
  <2>2. p \in PlacesOn(i)
    BY <1>2, <2>1 DEF PlacesOn
  <2>3. p.addr = _S_free_list[i][j] /\ p.size = NodeSize(i)
    BY <1>1 DEF FreePlace
  <2> HIDE DEF p
  <2>4. p \in FreePlaces
    BY <2>2 DEF FreePlaces
  <2>5. QED
    BY <2>1, <2>3, <2>4
<1>4. ASSUME NEW p \in FreePlaces PROVE Block(p.addr, p.size) \in FreeNodes
  <2>1. PICK i \in Indices : p \in PlacesOn(i)
    BY DEF FreePlaces
  <2>2. PICK j \in DOMAIN _S_free_list[i] : p = FreePlace(i, _S_free_list[i][j])
    BY <1>2, <2>1 DEF PlacesOn
  <2>3. p.addr = _S_free_list[i][j] /\ p.size = NodeSize(i)
    BY <1>1, <2>2 DEF FreePlace
  <2>4. QED
    BY <2>1, <2>2, <2>3 DEF FreeNodes
<1>5. Pool = {Block(p.addr, p.size) : p \in PoolPlaces}
  BY <1>1 DEF Pool, PoolPlaces, PoolPlace
<1>6. \A t \in Threads :
        LET p == TransitPlace(chunk[t], nobjs[t] * RoundUp(n[t]))
        IN  Block(p.addr, p.size) = Block(chunk[t], nobjs[t] * RoundUp(n[t]))
  BY <1>1 DEF TransitPlace
<1>7. \A b : Block(ClientPlace(b).addr, ClientPlace(b).size) = Block(b.addr, RoundUp(b.size))
  BY <1>1 DEF ClientPlace
<1>8. ASSUME NEW b \in InTransit PROVE \E p \in TransitPlaces : b = Block(p.addr, p.size)
  <2>1. PICK t \in Threads : /\ pc[t] = "refill"
                             /\ b = Block(chunk[t], nobjs[t] * RoundUp(n[t]))
    BY DEF InTransit
  <2>2. TransitPlace(chunk[t], nobjs[t] * RoundUp(n[t])) \in TransitPlaces
    BY <2>1 DEF TransitPlaces
  <2>3. QED
    BY <2>1, <2>2, <1>6
<1>9. ASSUME NEW p \in TransitPlaces PROVE Block(p.addr, p.size) \in InTransit
  <2>1. PICK t \in Threads : /\ pc[t] = "refill"
                             /\ p = TransitPlace(chunk[t], nobjs[t] * RoundUp(n[t]))
    BY DEF TransitPlaces
  <2>2. Block(p.addr, p.size) = Block(chunk[t], nobjs[t] * RoundUp(n[t]))
    BY <2>1, <1>6
  <2>3. Block(chunk[t], nobjs[t] * RoundUp(n[t])) \in InTransit
    BY <2>1 DEF InTransit
  <2>4. QED
    BY <2>2, <2>3
<1>10. ASSUME NEW b \in ClientNodes PROVE \E p \in ClientPlaces : b = Block(p.addr, p.size)
  <2>1. PICK c \in live : ~ Large(c.size) /\ b = Block(c.addr, RoundUp(c.size))
    BY DEF ClientNodes
  <2>2. ClientPlace(c) \in ClientPlaces
    BY <2>1 DEF ClientPlaces
  <2>3. QED
    BY <2>1, <2>2, <1>7
<1>11. ASSUME NEW p \in ClientPlaces PROVE Block(p.addr, p.size) \in ClientNodes
  <2>1. PICK c \in live : ~ Large(c.size) /\ p = ClientPlace(c)
    BY DEF ClientPlaces
  <2>2. Block(c.addr, RoundUp(c.size)) \in ClientNodes
    BY <2>1 DEF ClientNodes
  <2>3. QED
    BY <2>1, <2>2, <1>7
<1>12. QED
  BY <1>3, <1>4, <1>5, <1>8, <1>9, <1>10, <1>11 DEF CutPieces, Places

(***************************************************************************)
(* Cut pieces lie in chunks, so no large block is one.                     *)
(***************************************************************************)
LEMMA CutPiecesApart ==
  ASSUME ListsInv, HeapInv, PlacesInv
  PROVE  /\ \A b \in CutPieces, c \in CutPieces : b # c => Apart(b, c)
         /\ \A b \in CutPieces, c \in LargeBlocks : Apart(b, c) /\ Apart(c, b) /\ b # c
<1>1. ASSUME NEW b \in CutPieces, NEW c \in CutPieces, b # c PROVE Apart(b, c)
  <2>1. PICK p \in Places : b = Block(p.addr, p.size)
    BY PiecesArePlaces
  <2>2. PICK q \in Places : c = Block(q.addr, q.size)
    BY PiecesArePlaces
  <2>3. Disjoint(p, q)
    BY <1>1, <2>1, <2>2 DEF PlacesInv, Tiles
  <2>4. QED
    BY <2>1, <2>2, <2>3 DEF Apart, Disjoint, Block
<1>2. ASSUME NEW b \in CutPieces, NEW c \in LargeBlocks
      PROVE  Apart(b, c) /\ Apart(c, b) /\ b # c
  <2>1. PICK p \in Places : b = Block(p.addr, p.size)
    BY PiecesArePlaces
  <2>2. PICK d \in Chunks : Within(p, d)
    BY DEF PlacesInv, Tiles
  <2>3. c \in heap /\ d \in heap /\ c # d
    BY DEF HeapInv, Chunks
  <2>4. Apart(c, d) /\ Apart(d, c)
    BY <2>3 DEF HeapInv
  <2>5. /\ c.addr \in Nat /\ c.size \in Nat \ {0} /\ d.addr \in Nat /\ d.size \in Nat \ {0}
        /\ p.addr \in Nat /\ p.size \in Nat \ {0}
    BY <2>3, <2>2, PlacesInMemory DEF HeapInv, Chunk
  <2>6. b.addr = p.addr /\ b.size = p.size
    BY <2>1 DEF Block
  <2>7. Apart(b, c) /\ Apart(c, b)
    BY <2>2, <2>4, <2>5, <2>6 DEF Apart, Within
  <2>8. b # c
    BY <2>5, <2>6, <2>7 DEF Apart
  <2>9. QED
    BY <2>7, <2>8
<1>3. QED
  BY <1>1, <1>2

(***************************************************************************)
(* Every byte has one owner, whoever allocates, gives back and exchanges   *)
(* blocks, and wherever malloc fails.                                      *)
(***************************************************************************)
THEOREM OneOwner == Spec => []NoOverlap
<1>1. ASSUME IInv PROVE NoOverlap
  <2>1. ListsInv /\ HeapInv /\ PlacesInv
    BY <1>1 DEF IInv, MemoryInv
  <2>2. ASSUME NEW b \in Pieces, NEW c \in Pieces, b # c PROVE Apart(b, c)
    <3>1. CASE b \in CutPieces /\ c \in CutPieces
      BY <2>1, <2>2, <3>1, CutPiecesApart
    <3>2. CASE b \in CutPieces /\ c \in LargeBlocks
      BY <2>1, <3>2, CutPiecesApart
    <3>3. CASE b \in LargeBlocks /\ c \in CutPieces
      BY <2>1, <3>3, CutPiecesApart
    <3>4. CASE b \in LargeBlocks /\ c \in LargeBlocks
      BY <2>1, <2>2, <3>4 DEF HeapInv
    <3>5. QED
      BY <3>1, <3>2, <3>3, <3>4 DEF Pieces, CutPieces
  <2>3. QED
    BY <2>1, <2>2 DEF NoOverlap, ListsInv
<1>2. QED
  BY Invariant, <1>1, PTL

(***************************************************************************)
(* No byte of a chunk is ever lost.                                        *)
(***************************************************************************)
THEOREM NothingLost == Spec => []Conservation
<1>1. ASSUME IInv PROVE Conservation
  <2>1. ListsInv /\ HeapInv /\ PlacesInv
    BY <1>1 DEF IInv, MemoryInv
  <2>2. Pieces \ LargeBlocks = CutPieces
    BY <2>1, CutPiecesApart DEF Pieces, CutPieces
  <2>3. \A p : Span(Block(p.addr, p.size)) = Extent(p)
    BY DEF Span, Block, Extent
  <2>4. ASSUME NEW x \in Bytes(Chunks) PROVE x \in Bytes(CutPieces)
    <3>1. PICK c \in Chunks : x \in Extent(c)
      BY <2>4 DEF Bytes, Span, Extent
    <3>2. PICK p \in Places : x \in Extent(p)
      BY <2>1, <3>1 DEF PlacesInv, Tiles
    <3>3. Block(p.addr, p.size) \in CutPieces
      BY <2>1, PiecesArePlaces
    <3>4. QED
      BY <2>3, <3>2, <3>3 DEF Bytes
  <2>5. ASSUME NEW x \in Bytes(CutPieces) PROVE x \in Bytes(Chunks)
    <3>1. PICK b \in CutPieces : x \in Span(b)
      BY <2>5 DEF Bytes
    <3>2. PICK p \in Places : b = Block(p.addr, p.size)
      BY <2>1, PiecesArePlaces
    <3>3. x \in Extent(p)
      BY <2>3, <3>1, <3>2
    <3>4. PICK c \in Chunks : Within(p, c)
      BY <2>1 DEF PlacesInv, Tiles
    <3>5. IsExtent(p) /\ IsExtent(c)
      BY <2>1 DEF PlacesInv, Tiles
    <3>6. x \in Span(c)
      BY <3>3, <3>4, <3>5 DEF Extent, Span, Within, IsExtent
    <3>7. QED
      BY <3>6 DEF Bytes
  <2>6. QED
    BY <2>2, <2>4, <2>5 DEF Conservation
<1>2. QED
  BY Invariant, <1>1, PTL

(***************************************************************************)
(* bad_alloc is the last resort of _S_chunk_alloc: when malloc_alloc is    *)
(* asked, and so when it throws, the pool and all the lists that could     *)
(* serve are empty.                                                        *)
(***************************************************************************)
THEOREM BadAllocIsLast == Spec => []LastResort
<1>1. ASSUME IInv PROVE LastResort
  <2>1. ControlInv /\ RefillInv
    BY <1>1 DEF IInv
  <2>2. SUFFICES ASSUME NEW t \in Threads, SmallInMalloc(t)
                 PROVE  /\ BytesLeft = 0
                        /\ \A i \in Indices : NodeSize(i) >= n[t] => _S_free_list[i] = << >>
    BY DEF LastResort, SmallInMalloc
  <2>3. n[t] \in Nat \ {0}
    BY <2>1, <2>2, Parameters DEF ControlInv, SmallInMalloc
  <2>4. \A u \in Threads : pc[u] # "scavenge"
    <3>1. \A u \in Threads : u # t => pc[u] \notin Locked
      BY <2>1, <2>2, OneRefills
    <3>2. QED
      BY <2>2, <3>1 DEF Locked, SmallInMalloc, InMalloc
  <2>5. _S_start_free = 0 /\ _S_end_free = 0
    BY <2>1, <2>2, <2>4 DEF RefillInv
  <2>6. ASSUME NEW i \in Indices, NodeSize(i) >= n[t] PROVE _S_free_list[i] = << >>
    <3>1. NodeSize(i) \in Nat /\ n[t] <= NodeSize(i)
      BY <2>3, <2>6, NodeSizes
    <3>2. RoundUp(n[t]) <= NodeSize(i) /\ RoundUp(n[t]) \in Nat
      BY <2>2, <2>3, <3>1, NodeSizes, SmallSizes DEF SmallInMalloc
    <3>3. NodeSize(i) >= RoundUp(n[t])
      BY <3>1, <3>2
    <3>4. QED
      BY <2>1, <2>2, <3>3 DEF RefillInv
  <2>7. QED
    BY <2>5, <2>6 DEF BytesLeft
<1>2. QED
  BY Invariant, <1>1, PTL

-----------------------------------------------------------------------------
(* What clients see                                                        *)

(***************************************************************************)
(* A client's block is no longer than its node or its block from malloc,   *)
(* so blocks are apart because their owners' places are.                   *)
(***************************************************************************)
ClientsApart == \A b, c \in live : b # c => Apart(b, c)

\* Under the invariant no byte is given to two clients.
LEMMA ClientsAreApart == IInv => ClientsApart
<1> SUFFICES ASSUME IInv, NEW b \in live, NEW c \in live, b # c PROVE Apart(b, c)
  BY DEF ClientsApart
<1>1. ListsInv /\ HeapInv /\ PlacesInv /\ live \subseteq Blocks
  BY DEF IInv, MemoryInv, MovingInv
<1>2. \A d \in live : d = Block(d.addr, d.size) /\ d.addr \in Nat /\ d.size \in Nat \ {0}
  <2>1. ASSUME NEW d \in live
        PROVE  d = Block(d.addr, d.size) /\ d.addr \in Nat /\ d.size \in Nat \ {0}
    <3>1. d \in Blocks
      BY <1>1
    <3>2. d = Block(d.addr, d.size) /\ d.addr \in 1 .. MemTop /\ d.size \in Sizes
      BY <3>1 DEF Blocks, Block
    <3>3. d.addr \in Nat
      BY <3>2, Parameters
    <3>4. d.size \in Nat \ {0}
      BY <3>2, Parameters
    <3>5. QED
      BY <3>2, <3>3, <3>4
  <2>2. QED
    BY <2>1
<1>3. \A d \in live : ~ Large(d.size) =>
         /\ ClientPlace(d) \in Places /\ ClientPlace(d).addr = d.addr
         /\ ClientPlace(d).asked = d.size /\ ClientPlace(d).size = RoundUp(d.size)
         /\ RoundUp(d.size) \in Nat /\ d.size <= RoundUp(d.size)
         /\ Block(d.addr, RoundUp(d.size)) \in CutPieces
  BY <1>2, SmallSizes DEF Places, ClientPlaces, ClientPlace, Place, CutPieces, ClientNodes
<1>4. CASE ~ Large(b.size) /\ ~ Large(c.size)
  <2>1. ClientPlace(b) # ClientPlace(c)
    BY <1>2, <1>3, <1>4
  <2>2. Disjoint(ClientPlace(b), ClientPlace(c))
    BY <2>1, <1>1, <1>3, <1>4 DEF PlacesInv, Tiles
  <2>3. QED
    BY <2>2, <1>2, <1>3, <1>4 DEF Disjoint, Apart
<1>5. ASSUME NEW d \in live, NEW e \in live, ~ Large(d.size), Large(e.size)
      PROVE  Apart(d, e) /\ Apart(e, d)
  <2>1. e \in LargeBlocks
    BY <1>5 DEF LargeBlocks
  <2>2. Apart(Block(d.addr, RoundUp(d.size)), e)
    BY <2>1, <1>1, <1>3, <1>5, CutPiecesApart
  <2>3. /\ d.addr \in Nat /\ d.size \in Nat /\ e.addr \in Nat /\ e.size \in Nat
        /\ RoundUp(d.size) \in Nat /\ d.size <= RoundUp(d.size)
    BY <1>2, <1>3, <1>5
  <2>4. QED
    BY <2>2, <2>3 DEF Apart, Block
<1>6. CASE Large(b.size) /\ Large(c.size)
  BY <1>1, <1>6 DEF HeapInv, LargeBlocks
<1>7. QED
  BY <1>4, <1>5, <1>6

(***************************************************************************)
(* A step gives a client one block, takes one back, exchanges one, or does *)
(* not change the blocks that are out.                                     *)
(***************************************************************************)
LEMMA LiveStep ==
  ASSUME IInv, [Next]_vars
  PROVE  \/ live' = live
         \/ \E b \in live' : live' = live \union {b}
         \/ \E b \in live : live' = live \ {b}
         \/ \E b \in live, c \in live' : live' = (live \ {b}) \union {c}
<1> DEFINE Changes == \/ live' = live
                      \/ \E b \in live' : live' = live \union {b}
                      \/ \E b \in live : live' = live \ {b}
                      \/ \E b \in live, c \in live' : live' = (live \ {b}) \union {c}
<1>c. moving \in [Threads -> SUBSET live]
  BY DEF IInv, MovingInv
<1>1. ASSUME NEW t \in Threads, PopNode(t) \/ LinkNodes(t) PROVE Changes
  <2>1. \E a : live' = live \union {Block(a, n[t])}
    BY <1>1 DEF PopNode, LinkNodes, Return
  <2>2. QED
    BY <2>1
<1>2. ASSUME NEW t \in Threads, MallocSucceeds(t) PROVE Changes
  BY <1>2 DEF MallocSucceeds
<1>3. ASSUME NEW t \in Threads, NEW b \in Held, Deallocate(t, b) PROVE Changes
  BY <1>3 DEF Deallocate, GiveBack, Held
<1>4. ASSUME NEW t \in Threads, ReleaseOld(t) PROVE Changes
  <2>1. PICK b \in moving[t] : live' = live \ {b}
    BY <1>4 DEF ReleaseOld, GiveBack
  <2>2. QED
    BY <2>1, <1>c
<1>5. ASSUME NEW t \in Threads, NEW b \in Held, NEW k \in Sizes, ReallocateLarge(t, b, k)
      PROVE  Changes
  <2>1. b \in live /\ \E c : live' = (live \ {b}) \union {c}
    BY <1>5 DEF ReallocateLarge, Held
  <2>2. QED
    BY <2>1
<1>6. ASSUME NEW t \in Threads, NEW b \in Held, NEW k \in Sizes, ReallocateInPlace(t, b, k)
      PROVE  Changes
  <2>1. b \in live /\ \E c : live' = (live \ {b}) \union {c}
    BY <1>6 DEF ReallocateInPlace, Held
  <2>2. QED
    BY <2>1
<1>7. ASSUME NEW t \in Threads, NEW b \in Held, NEW k \in Sizes, ReallocateByCopy(t, b, k)
      PROVE  Changes
  BY <1>7 DEF ReallocateByCopy
<1>8. ASSUME NEW t \in Threads, NEW k \in Sizes, Allocate(t, k) PROVE Changes
  BY <1>8 DEF Allocate
<1>9. ASSUME NEW t \in Threads,
             EnterAllocate(t) \/ RefillEmptyList(t) \/ ServeFromPool(t) \/ GetChunk(t)
               \/ TakeLargerNode(t) \/ AskMallocAlloc(t) \/ MallocFails(t) \/ ReadHandler(t)
               \/ RunHandler(t)
      PROVE  Changes
  BY <1>9 DEF EnterAllocate, RefillEmptyList, ServeFromPool, GetChunk, TakeLargerNode,
              AskMallocAlloc, MallocFails, ReadHandler, Throw, RunHandler
<1>10. CASE RemoveHandler \/ UNCHANGED vars
  BY <1>10 DEF RemoveHandler, vars
<1>11. QED
  BY <1>1, <1>2, <1>3, <1>4, <1>5, <1>6, <1>7, <1>8, <1>9, <1>10 DEF Next, Call, Work

(***************************************************************************)
(* The node allocator does what clients of alloc rely on: the blocks that  *)
(* it gives share no byte with those that are out.                         *)
(***************************************************************************)
THEOREM Refinement == Spec => ImplementsAllocator
<1>1. Init => Abs!AllocInit
  BY DEF Init, Abs!AllocInit
<1>2. IInv /\ IInv' /\ ClientsApart' /\ [Next]_vars => [Abs!AllocNext]_live
  <2> SUFFICES ASSUME IInv, IInv', ClientsApart', [Next]_vars, live' # live
               PROVE  Abs!AllocNext
    OBVIOUS
  <2>1. \A b \in live' : Abs!IsBlock(b)
    BY Parameters DEF IInv, MovingInv, Blocks, Abs!IsBlock
  <2>2. \A b, c \in live' : b # c => Abs!Apart(b, c)
    BY DEF ClientsApart, Apart, Abs!Apart
  <2>3. ASSUME NEW b \in live', live' = live \union {b} PROVE Abs!AllocNext
    <3>1. b \notin live
      BY <2>3
    <3>2. \A c \in live : Abs!Apart(b, c)
      BY <2>2, <2>3, <3>1
    <3>3. QED
      BY <2>1, <2>3, <3>2 DEF Abs!AllocNext, Abs!Give
  <2>4. ASSUME NEW b \in live, live' = live \ {b} PROVE Abs!AllocNext
    BY <2>4 DEF Abs!AllocNext, Abs!TakeBack
  <2>5. ASSUME NEW b \in live, NEW c \in live', live' = (live \ {b}) \union {c}
        PROVE  Abs!AllocNext
    <3>1. CASE c \in live \ {b}
      <4>1. live' = live \ {b}
        BY <2>5, <3>1
      <4>2. QED
        BY <2>4, <4>1
    <3>2. CASE c \notin live \ {b}
      <4>1. \A d \in live \ {b} : Abs!Apart(c, d)
        BY <2>2, <2>5, <3>2
      <4>2. QED
        BY <2>1, <2>5, <4>1 DEF Abs!AllocNext, Abs!Exchange
    <3>3. QED
      BY <3>1, <3>2
  <2>6. QED
    BY <2>3, <2>4, <2>5, LiveStep
<1>3. QED
  BY <1>1, <1>2, Invariant, ClientsAreApart, PTL DEF Spec, ImplementsAllocator, Abs!AllocSpec

(***************************************************************************)
(* The chunks are never given back to malloc, nor to anybody else.         *)
(***************************************************************************)
THEOREM ChunksAreKept == Spec => [][Chunks \subseteq Chunks']_vars
<1>1. IInv /\ [Next]_vars => Chunks \subseteq Chunks'
  <2> SUFFICES ASSUME IInv, [Next]_vars, NEW x \in Chunks PROVE x \in Chunks'
    OBVIOUS
  <2>c. /\ x \in heap /\ x \notin outside /\ x \notin LargeBlocks
        /\ HeapInv /\ ControlInv /\ SizeInv /\ MovingInv
    BY DEF Chunks, IInv, MemoryInv
  <2>1. ASSUME x \in heap', outside' \subseteq outside, NEW b, b # x,
               \A c \in live' : Large(c.size) => c \in LargeBlocks \/ c = b
        PROVE  x \in Chunks'
    BY <2>1, <2>c DEF Chunks, LargeBlocks
  <2>2. PICK b : b # x
    <3>1. {} # x \/ {{}} # x
      OBVIOUS
    <3>2. QED
      BY <3>1
  <2>3. ASSUME NEW t \in Threads, PopNode(t) \/ LinkNodes(t) PROVE x \in Chunks'
    <3>1. PICK a : live' = live \union {Block(a, n[t])}
      BY <2>3 DEF PopNode, LinkNodes, Return
    <3>2. ~ Large(n[t])
      BY <2>3, <2>c DEF PopNode, LinkNodes, ControlInv, Locked
    <3>3. UNCHANGED << heap, outside >>
      BY <2>3 DEF PopNode, LinkNodes
    <3>4. \A c \in live' : Large(c.size) => c \in LargeBlocks
      BY <3>1, <3>2 DEF LargeBlocks, Block
    <3>5. QED
      BY <3>3, <3>4, <2>1, <2>2, <2>c
  <2>4. ASSUME NEW t \in Threads, MallocSucceeds(t) PROVE x \in Chunks'
    <3>1. heap \subseteq heap' /\ outside' = outside
      BY <2>4 DEF MallocSucceeds, MallocGives
    <3>2. CASE Large(n[t])
      <4>1. PICK a \in FirstFit(n[t], heap) : live' = live \union {Block(a, n[t])}
        BY <2>4, <3>2 DEF MallocSucceeds
      <4>2. n[t] \in Nat \ {0}
        BY <2>4, <2>c, Parameters DEF MallocSucceeds, ControlInv, InMalloc
      <4>3. Block(a, n[t]) # x
        <5>1. Block(a, n[t]) \notin heap
          BY <4>1, <4>2, <2>c, NewBlock
        <5>2. QED
          BY <5>1, <2>c
      <4>4. \A c \in live' : Large(c.size) => c \in LargeBlocks \/ c = Block(a, n[t])
        BY <4>1 DEF LargeBlocks
      <4>5. QED
        BY <3>1, <4>3, <4>4, <2>1, <2>c
    <3>3. CASE ~ Large(n[t])
      <4>1. live' = live
        BY <2>4, <3>3 DEF MallocSucceeds
      <4>2. QED
        BY <3>1, <4>1, <2>1, <2>2, <2>c DEF LargeBlocks
    <3>4. QED
      BY <3>2, <3>3
  <2>5. ASSUME NEW d \in live, GiveBack(d), outside' = outside PROVE x \in Chunks'
    <3>1. live' = live \ {d} /\ (heap' = heap \/ (heap' = heap \ {d} /\ Large(d.size)))
      BY <2>5 DEF GiveBack, Free
    <3>2. x \in heap'
      BY <3>1, <2>c, <2>5 DEF LargeBlocks
    <3>3. QED
      BY <3>1, <3>2, <2>5, <2>1, <2>2 DEF LargeBlocks
  <2>6. ASSUME NEW t \in Threads, NEW d \in Held, Deallocate(t, d) PROVE x \in Chunks'
    BY <2>5, <2>6 DEF Deallocate, Held
  <2>7. ASSUME NEW t \in Threads, ReleaseOld(t) PROVE x \in Chunks'
    <3>1. PICK d \in moving[t] : GiveBack(d)
      BY <2>7 DEF ReleaseOld
    <3>2. d \in live /\ outside' = outside
      BY <2>7, <2>c DEF ReleaseOld, MovingInv
    <3>3. QED
      BY <3>1, <3>2, <2>5
  <2>8. ASSUME NEW t \in Threads, NEW d \in Held, NEW k \in Sizes, ReallocateLarge(t, d, k)
        PROVE  x \in Chunks'
    <3>1. PICK a \in FirstFit(k, heap \ {d}) :
            /\ heap' = (heap \ {d}) \union {Block(a, k)}
            /\ live' = (live \ {d}) \union {Block(a, k)}
      BY <2>8 DEF ReallocateLarge
    <3>2. d \in LargeBlocks /\ outside' = outside
      BY <2>8 DEF ReallocateLarge, Held, LargeBlocks
    <3>3. k \in Nat \ {0} /\ x \in heap \ {d}
      BY <3>2, <2>c, Parameters
    <3>4. Block(a, k) # x
      BY <3>3, <2>c, NewBlock
    <3>5. \A c \in live' : Large(c.size) => c \in LargeBlocks \/ c = Block(a, k)
      BY <3>1 DEF LargeBlocks
    <3>6. QED
      BY <3>1, <3>2, <3>3, <3>4, <3>5, <2>1
  <2>9. ASSUME NEW t \in Threads, NEW d \in Held, NEW k \in Sizes, ReallocateInPlace(t, d, k)
        PROVE  x \in Chunks'
    <3>1. d.size \in Nat \ {0} /\ k \in Nat \ {0}
      BY <2>c, Parameters DEF Held, MovingInv, Blocks
    <3>2. ~ Large(k)
      BY <2>9, <3>1, SameNodeSmall DEF ReallocateInPlace
    <3>3. live' = (live \ {d}) \union {Block(d.addr, k)} /\ UNCHANGED << heap, outside >>
      BY <2>9 DEF ReallocateInPlace
    <3>4. \A c \in live' : Large(c.size) => c \in LargeBlocks
      BY <3>2, <3>3 DEF LargeBlocks, Block
    <3>5. QED
      BY <3>3, <3>4, <2>1, <2>2, <2>c
  <2>10. ASSUME live' = live, heap \subseteq heap', outside' = outside PROVE x \in Chunks'
    BY <2>10, <2>1, <2>2, <2>c DEF LargeBlocks
  <2>11. ASSUME NEW t \in Threads, GetChunk(t) PROVE x \in Chunks'
    BY <2>10, <2>11 DEF GetChunk, MallocGives
  <2>12. ASSUME NEW t \in Threads, RunHandler(t) PROVE x \in Chunks'
    <3>1. /\ live' = live /\ outside' \subseteq outside
          /\ heap' = heap \/ \E d \in outside : heap' = heap \ {d}
      BY <2>12 DEF RunHandler, Free
    <3>2. QED
      BY <3>1, <2>1, <2>2, <2>c DEF LargeBlocks
  <2>13. ASSUME NEW t \in Threads, NEW k \in Sizes, Allocate(t, k) PROVE x \in Chunks'
    BY <2>10, <2>13 DEF Allocate
  <2>14. ASSUME NEW t \in Threads, NEW d \in Held, NEW k \in Sizes, ReallocateByCopy(t, d, k)
         PROVE  x \in Chunks'
    BY <2>10, <2>14 DEF ReallocateByCopy
  <2>15. ASSUME NEW t \in Threads,
                EnterAllocate(t) \/ RefillEmptyList(t) \/ ServeFromPool(t) \/ TakeLargerNode(t)
                  \/ AskMallocAlloc(t) \/ MallocFails(t) \/ ReadHandler(t)
         PROVE  x \in Chunks'
    BY <2>10, <2>15 DEF EnterAllocate, RefillEmptyList, ServeFromPool, TakeLargerNode,
                        AskMallocAlloc, MallocFails, ReadHandler, Throw
  <2>16. CASE RemoveHandler \/ UNCHANGED vars
    BY <2>10, <2>16 DEF RemoveHandler, vars
  <2>17. QED
    BY <2>3, <2>4, <2>6, <2>7, <2>8, <2>9, <2>11, <2>12, <2>13, <2>14, <2>15, <2>16
       DEF Next, Call, Work
<1>2. QED
  BY <1>1, Invariant, PTL DEF Spec
=============================================================================
