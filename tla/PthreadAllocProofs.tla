------------------------- MODULE PthreadAllocProofs -------------------------
(***************************************************************************)
(* The per-thread allocator, for any threads, sizes, alignment, memory and *)
(* number of states: no two threads share the lists of a state, whatever   *)
(* fails; and as long as malloc_alloc does not throw while the pool has a  *)
(* rest, every byte of every chunk has one owner and clients never see two *)
(* blocks that overlap.                                                    *)
(***************************************************************************)
EXTENDS PthreadAlloc, Tilings

-----------------------------------------------------------------------------
(* The inductive invariant                                                 *)

Small == {k \in Sizes : ~ Large(k)}
Blocks == [addr : 1 .. MemTop, size : Small]
Chunk == [addr : 1 .. MemTop, size : Nat \ {0}]
Labels == {"idle", "allocate", "deallocate", "newState", "refill", "link"}
Refilling == {"refill", "link"}

\* The states that were made are with one thread, or wait to be recycled, or
\* are lost; none is in two places.
OwnersInv ==
    /\ states \in 0 .. MaxStates
    /\ free_states \in Seq(1 .. states)
    /\ specific \in [Threads -> (1 .. states) \union {NoState}]
    /\ _S_key_initialized \in BOOLEAN
    /\ StatesArePrivate

\* The control points against the local variables: a thread that refills has a
\* state, a size and a number of nodes to ask for.
ControlInv ==
    /\ pc \in [Threads -> Labels]
    /\ n \in [Threads -> Small \union {0}]
    /\ nobjs \in [Threads -> 0 .. NObjs]
    /\ \A t \in Threads :
         /\ pc[t] \in {"allocate"} \union Refilling => n[t] # 0
         /\ pc[t] \in Refilling => nobjs[t] # 0 /\ HasState(t)

\* A block that a call will give back is a client's, and no other call is about
\* to give it back.
OldInv ==
    /\ live \subseteq Blocks
    /\ old \in [Threads -> SUBSET live]
    /\ \A t \in Threads : \A b, c \in old[t] : b = c
    /\ \A t, u \in Threads : t # u => old[t] \cap old[u] = {}

\* The lists have addresses, and the list that a thread refills stays empty,
\* because nobody else has the state it belongs to.
ListsInv ==
    /\ __free_list \in [States -> [Indices -> Seq(1 .. MemTop)]]
    /\ \A t \in Threads :
         pc[t] \in Refilling => __free_list[specific[t]][FreelistIndex(n[t])] = << >>

\* The pool is made of whole units.
PoolInv ==
    /\ _S_start_free \in 0 .. MemTop + 1 /\ _S_end_free \in _S_start_free .. MemTop + 1
    /\ _S_start_free = 0 => _S_end_free = 0
    /\ MultipleOf(BytesLeft, _S_ALIGN)

\* What malloc handed out, and how much that is.
HeapInv ==
    /\ heap \subseteq Chunk
    /\ \A b \in heap : b.addr + b.size <= MemTop + 1
    /\ \A b, c \in heap : b # c => Apart(b, c)
    /\ IsFiniteSet(Covered(heap))
    /\ _S_heap_size = Cardinality(Covered(heap))

\* Each thread links the nodes of its own piece of memory.
TransitInv ==
    /\ chunk \in [Threads -> 0 .. MemTop]
    /\ \A t \in Threads : pc[t] = "link" =>
         chunk[t] # 0 /\ chunk[t] + nobjs[t] * RoundUp(n[t]) <= MemTop + 1

\* This much holds whatever fails.
BaseInv == OwnersInv /\ ControlInv /\ OldInv /\ ListsInv /\ PoolInv /\ HeapInv /\ TransitInv

\* A place is a piece that says what it is, and whose: the state whose list it
\* is on, the thread that links it, the size that the client asked for.
Place(kind, who, asked, a, k) ==
    [kind |-> kind, who |-> who, asked |-> asked, addr |-> a, size |-> k]

FreePlace(s, i, a) == Place("free", s, i, a, NodeSize(i))
PlacesOn(s, i) == {FreePlace(s, i, a) : a \in Range(__free_list[s][i])}
PlacesOf(s) == UNION {PlacesOn(s, i) : i \in Indices}
FreePlaces == UNION {PlacesOf(s) : s \in States}

PoolPlace(a, k) == Place("pool", 0, 0, a, k)
PoolPlaces == IF BytesLeft > 0 THEN {PoolPlace(_S_start_free, BytesLeft)} ELSE {}

TransitPlace(t, a, k) == Place("transit", t, 0, a, k)
Transit(t) == TransitPlace(t, chunk[t], nobjs[t] * RoundUp(n[t]))
TransitPlaces == {Transit(t) : t \in {u \in Threads : pc[u] = "link"}}

ClientPlace(b) == Place("client", 0, b.size, b.addr, RoundUp(b.size))
ClientPlaces == {ClientPlace(b) : b \in live}

Places == FreePlaces \union PoolPlaces \union TransitPlaces \union ClientPlaces

\* The places tile the chunks, and no address is twice on a list.
SpaceInv ==
    /\ \A s \in States : \A i \in Indices : IsInjective(__free_list[s][i])
    /\ Tiles(Places, heap)

IInv == BaseInv /\ SpaceInv

-----------------------------------------------------------------------------
(* Sizes                                                                   *)

(***************************************************************************)
(* What the assumption says of the numbers.                                *)
(***************************************************************************)
LEMMA Parameters ==
  /\ _S_ALIGN \in Nat \ {0} /\ _Max_size \in Nat \ {0} /\ NObjs \in Nat \ {0}
  /\ GrowthDiv \in Nat \ {0} /\ MemTop \in Nat \ {0} /\ MaxStates \in Nat \ {0}
  /\ Sizes \subseteq Nat \ {0} /\ NoState \notin 1 .. MaxStates
BY PthreadAllocAssumption

(***************************************************************************)
(* _S_round_up and _S_freelist_index for the sizes that have a list: the   *)
(* node of the list has the rounded size, a multiple of the alignment.     *)
(***************************************************************************)
LEMMA SmallSizes ==
  ASSUME NEW k \in Nat \ {0}, ~ Large(k)
  PROVE  /\ RoundUp(k) \in Nat \ {0} /\ k <= RoundUp(k) /\ RoundUp(k) <= _Max_size
         /\ MultipleOf(RoundUp(k), _S_ALIGN)
         /\ FreelistIndex(k) \in Indices
         /\ NodeSize(FreelistIndex(k)) = RoundUp(k)
<1>1. /\ _S_ALIGN \in Nat \ {0} /\ _Max_size \in Nat
      /\ k <= _Max_size /\ _Max_size % _S_ALIGN = 0
  BY Parameters, PthreadAllocAssumption DEF Large
<1>2. RoundUp(k) = Up(k, _S_ALIGN) * _S_ALIGN /\ FreelistIndex(k) = Up(k, _S_ALIGN) - 1
  BY DEF RoundUp, FreelistIndex, Up
<1>3. Indices = 0 .. (_Max_size \div _S_ALIGN - 1)
  BY DEF Indices
<1>4. IsListOf(Up(k, _S_ALIGN), k, _S_ALIGN, _Max_size)
  BY <1>1, SizeOfList
<1>5. QED
  BY <1>2, <1>3, <1>4 DEF NodeSize, IsListOf

(***************************************************************************)
(* A multiple of the alignment is its own rounded size, so what is left of *)
(* the pool fits its list exactly.                                         *)
(***************************************************************************)
LEMMA WholeSizes ==
  ASSUME NEW k \in Nat \ {0}, MultipleOf(k, _S_ALIGN)
  PROVE  RoundUp(k) = k
<1>1. PICK q \in Nat : k = q * _S_ALIGN
  BY DEF MultipleOf
<1>2. QED
  BY <1>1, Parameters, UpOfMultiple DEF Up, RoundUp

(***************************************************************************)
(* What malloc gives lies in memory and is apart from all that is in use.  *)
(***************************************************************************)
LEMMA FirstFits ==
  ASSUME NEW k \in Nat, NEW used, NEW a \in FirstFit(k, used)
  PROVE  a \in 1 .. MemTop /\ a + k <= MemTop + 1 /\ \A b \in used : Apart(b, Block(a, k))
<1>1. Fits(k, used) # {} /\ a = Min(Fits(k, used))
  BY DEF FirstFit
<1>2. Fits(k, used) \subseteq Nat
  BY Parameters DEF Fits
<1>3. a \in Fits(k, used)
  BY <1>1, <1>2, MinExists
<1>4. QED
  BY <1>3 DEF Fits

(***************************************************************************)
(* The sizes of a thread that refills a list.                              *)
(***************************************************************************)
LEMMA RefillSizes ==
  ASSUME ControlInv, NEW t \in Threads, n[t] # 0
  PROVE  /\ n[t] \in Sizes /\ n[t] \in Nat \ {0} /\ ~ Large(n[t])
         /\ RoundUp(n[t]) \in Nat \ {0} /\ RoundUp(n[t]) <= _Max_size
         /\ n[t] <= RoundUp(n[t])
         /\ MultipleOf(RoundUp(n[t]), _S_ALIGN)
         /\ FreelistIndex(n[t]) \in Indices
         /\ NodeSize(FreelistIndex(n[t])) = RoundUp(n[t])
<1>1. n[t] \in Sizes /\ ~ Large(n[t])
  BY DEF ControlInv, Small
<1>2. n[t] \in Nat \ {0}
  BY <1>1, Parameters
<1>3. QED
  BY <1>1, <1>2, SmallSizes

(***************************************************************************)
(* How many nodes the pool serves: at least one, at most as many as were   *)
(* asked for, and no more than it has.                                     *)
(***************************************************************************)
Served(t) == Min({nobjs[t], BytesLeft \div RoundUp(n[t])})

\* From a pool with room for a node, the nodes that are served fit into it.
LEMMA ServedNodes ==
  ASSUME ControlInv, PoolInv, NEW t \in Threads, pc[t] = "refill", BytesLeft >= RoundUp(n[t])
  PROVE  /\ Served(t) \in Nat \ {0} /\ Served(t) <= NObjs
         /\ Served(t) * RoundUp(n[t]) \in Nat \ {0}
         /\ Served(t) * RoundUp(n[t]) <= BytesLeft
<1> DEFINE size == RoundUp(n[t])
<1>1. n[t] # 0 /\ nobjs[t] \in 0 .. NObjs /\ nobjs[t] # 0
  BY DEF ControlInv, Refilling
<1>2. nobjs[t] \in Nat \ {0} /\ nobjs[t] <= NObjs
  BY <1>1, Parameters
<1>3. size \in Nat \ {0}
  BY <1>1, RefillSizes
<1>4. BytesLeft \in Nat /\ size <= BytesLeft
  BY <1>3, Parameters DEF PoolInv, BytesLeft
<1>5. Served(t) = Min({nobjs[t], BytesLeft \div size})
  BY DEF Served
<1> HIDE DEF size
<1>6. /\ Served(t) \in Nat \ {0} /\ Served(t) <= nobjs[t]
      /\ Served(t) * size \in Nat \ {0} /\ Served(t) * size <= BytesLeft
  BY <1>2, <1>3, <1>4, <1>5, ServedRun
<1>7. Served(t) <= NObjs
  BY <1>2, <1>6, Parameters
<1>8. QED
  BY <1>6, <1>7 DEF size

(***************************************************************************)
(* A chunk is asked for in whole units, and at least one.                  *)
(***************************************************************************)
LEMMA WholeChunks ==
  ASSUME ControlInv, HeapInv, NEW t \in Threads, pc[t] = "refill"
  PROVE  BytesToGet(t) \in Nat \ {0} /\ MultipleOf(BytesToGet(t), _S_ALIGN)
<1> DEFINE size == RoundUp(n[t])
<1>1. n[t] # 0 /\ nobjs[t] \in 0 .. NObjs /\ nobjs[t] # 0
  BY DEF ControlInv, Refilling
<1>2. nobjs[t] \in Nat \ {0}
  BY <1>1, Parameters
<1>3. size \in Nat \ {0} /\ MultipleOf(size, _S_ALIGN)
  BY <1>1, RefillSizes
<1>4. _S_heap_size \in Nat
  BY FS_CardinalityType DEF HeapInv
<1>5. BytesToGet(t) = 2 * size * nobjs[t] + Up(_S_heap_size \div GrowthDiv, _S_ALIGN) * _S_ALIGN
  BY DEF BytesToGet, RoundUp, Up
<1> HIDE DEF size
<1>6. QED
  BY <1>2, <1>3, <1>4, <1>5, Parameters, WholeChunk

-----------------------------------------------------------------------------
(* Who has which state                                                     *)

(***************************************************************************)
(* A state that waits to be recycled has no thread.                        *)
(***************************************************************************)
LEMMA PrivateRange ==
  StatesArePrivate <=>
    /\ \A t, u \in Threads : t # u /\ specific[t] # NoState => specific[t] # specific[u]
    /\ IsInjective(free_states)
    /\ \A t \in Threads : specific[t] \notin Range(free_states)
BY DEF StatesArePrivate, Range

(***************************************************************************)
(* _S_new_per_thread_state gives a state that nobody has.                  *)
(***************************************************************************)
LEMMA Taken ==
  ASSUME OwnersInv, NEW s \in States, TakesState(s)
  PROVE  /\ states' \in 0 .. MaxStates /\ states <= states' /\ s \in 1 .. states'
         /\ free_states' \in Seq(1 .. states') /\ IsInjective(free_states')
         /\ Range(free_states') \subseteq Range(free_states) /\ s \notin Range(free_states')
         /\ \A t \in Threads : specific[t] # s
<1> USE Parameters
<1>1. /\ states \in 0 .. MaxStates /\ free_states \in Seq(1 .. states)
      /\ IsInjective(free_states)
      /\ \A t \in Threads : specific[t] \in (1 .. states) \union {NoState}
      /\ \A t \in Threads : specific[t] \notin Range(free_states)
  BY PrivateRange DEF OwnersInv
<1>2. CASE free_states # << >>
  <2>1. s = Head(free_states) /\ free_states' = Tail(free_states) /\ states' = states
    BY <1>2 DEF TakesState
  <2>2. /\ s \in 1 .. states /\ s \in Range(free_states)
        /\ free_states' \in Seq(1 .. states) /\ IsInjective(free_states')
        /\ Range(free_states') = Range(free_states) \ {s}
    BY <1>1, <1>2, <2>1, PopFront
  <2>3. QED
    BY <1>1, <2>1, <2>2
<1>3. CASE free_states = << >>
  <2>1. s = states + 1 /\ s \in 1 .. MaxStates /\ states' = s /\ free_states' = << >>
    BY <1>3 DEF TakesState, States
  <2>2. states' \in 0 .. MaxStates /\ states <= states' /\ s \in 1 .. states'
    BY <1>1, <2>1
  <2>3. \A t \in Threads : specific[t] # s
    BY <1>1, <2>1
  <2>4. free_states' \in Seq(1 .. states')
    BY <2>1
  <2>5. Range(free_states') = {} /\ IsInjective(free_states')
    BY <2>1, NoNodes
  <2>6. QED
    BY <2>2, <2>3, <2>4, <2>5
<1>4. QED
  BY <1>2, <1>3

(***************************************************************************)
(* States go from the stack, or from `new', to one thread, and from a      *)
(* thread that ends to the stack; when pthread_setspecific fails, to       *)
(* nobody.                                                                 *)
(***************************************************************************)
LEMMA OwnersStep == OwnersInv /\ ControlInv /\ [Next]_vars => OwnersInv'
<1> SUFFICES ASSUME OwnersInv, ControlInv, [Next]_vars PROVE OwnersInv'
  OBVIOUS
<1> USE Parameters
<1>c. /\ states \in 0 .. MaxStates /\ free_states \in Seq(1 .. states)
      /\ specific \in [Threads -> (1 .. states) \union {NoState}]
      /\ _S_key_initialized \in BOOLEAN
      /\ \A t, u \in Threads : t # u /\ specific[t] # NoState => specific[t] # specific[u]
      /\ IsInjective(free_states)
      /\ \A t \in Threads : specific[t] \notin Range(free_states)
  BY PrivateRange DEF OwnersInv
\* What is left to show of the states after a step.
<1>p. ASSUME states' \in 0 .. MaxStates, free_states' \in Seq(1 .. states'),
             specific' \in [Threads -> (1 .. states') \union {NoState}],
             _S_key_initialized' \in BOOLEAN, IsInjective(free_states'),
             \A t, u \in Threads : t # u /\ specific'[t] # NoState => specific'[t] # specific'[u],
             \A t \in Threads : specific'[t] \notin Range(free_states')
      PROVE  OwnersInv'
  BY <1>p DEF OwnersInv, StatesArePrivate, Range
<1>1. ASSUME NEW t \in Threads, GetState(t) PROVE OwnersInv'
  <2>1. PICK s \in States : TakesState(s) /\ specific' = [specific EXCEPT ![t] = s]
    BY <1>1 DEF GetState
  <2>2. /\ states' \in 0 .. MaxStates /\ states <= states' /\ s \in 1 .. states'
        /\ free_states' \in Seq(1 .. states') /\ IsInjective(free_states')
        /\ Range(free_states') \subseteq Range(free_states) /\ s \notin Range(free_states')
        /\ \A u \in Threads : specific[u] # s
    BY <2>1, Taken
  <2>3. specific'[t] = s /\ \A u \in Threads : u # t => specific'[u] = specific[u]
    BY <2>1, <1>c
  <2>4. specific' \in [Threads -> (1 .. states') \union {NoState}]
    BY <2>1, <2>2, <1>c
  <2>5. \A u, v \in Threads : u # v /\ specific'[u] # NoState => specific'[u] # specific'[v]
    BY <2>2, <2>3, <1>c
  <2>6. \A u \in Threads : specific'[u] \notin Range(free_states')
    BY <2>2, <2>3, <1>c
  <2>7. _S_key_initialized' \in BOOLEAN
    BY <1>1 DEF GetState
  <2>8. QED
    BY <1>p, <2>2, <2>4, <2>5, <2>6, <2>7
<1>2. ASSUME NEW t \in Threads, SetspecificThrows(t) PROVE OwnersInv'
  <2>1. PICK s \in States : TakesState(s)
    BY <1>2 DEF SetspecificThrows
  <2>2. /\ states' \in 0 .. MaxStates /\ states <= states'
        /\ free_states' \in Seq(1 .. states') /\ IsInjective(free_states')
        /\ Range(free_states') \subseteq Range(free_states)
    BY <2>1, Taken
  <2>3. specific' = specific /\ _S_key_initialized' \in BOOLEAN
    BY <1>2 DEF SetspecificThrows
  <2>4. specific' \in [Threads -> (1 .. states') \union {NoState}]
    BY <2>2, <2>3, <1>c
  <2>5. QED
    BY <1>p, <2>2, <2>3, <2>4, <1>c
<1>3. ASSUME NEW t \in Threads, ThreadExit(t) PROVE OwnersInv'
  <2>1. /\ specific[t] # NoState /\ free_states' = << specific[t] >> \o free_states
        /\ specific' = [specific EXCEPT ![t] = NoState]
        /\ UNCHANGED << states, _S_key_initialized >>
    BY <1>3 DEF ThreadExit
  <2>2. specific[t] \in 1 .. states /\ specific[t] \notin Range(free_states)
    BY <2>1, <1>c
  <2>3. /\ free_states' \in Seq(1 .. states) /\ IsInjective(free_states')
        /\ Range(free_states') = Range(free_states) \union {specific[t]}
    BY <2>1, <2>2, <1>c, PushFront
  <2>4. specific'[t] = NoState /\ \A u \in Threads : u # t => specific'[u] = specific[u]
    BY <2>1, <1>c
  <2>5. specific' \in [Threads -> (1 .. states') \union {NoState}]
    BY <2>1, <1>c
  <2>6. \A u, v \in Threads : u # v /\ specific'[u] # NoState => specific'[u] # specific'[v]
    <3>1. SUFFICES ASSUME NEW u \in Threads, NEW v \in Threads, u # v, specific'[u] # NoState
                   PROVE  specific'[u] # specific'[v]
      OBVIOUS
    <3>2. u # t /\ specific'[u] = specific[u]
      BY <3>1, <2>4
    <3>3. CASE v = t
      BY <3>1, <3>3, <2>4
    <3>4. CASE v # t
      BY <3>1, <3>2, <3>4, <2>4, <1>c
    <3>5. QED
      BY <3>3, <3>4
  <2>7. \A u \in Threads : specific'[u] \notin Range(free_states')
    <3>1. NoState \notin Range(free_states')
      <4>1. \A j \in DOMAIN free_states : free_states[j] \in 1 .. states
        BY <1>c
      <4>2. NoState \notin Range(free_states) /\ NoState # specific[t]
        BY <4>1, <2>2, <1>c DEF Range
      <4>3. QED
        BY <4>2, <2>3
    <3>2. ASSUME NEW u \in Threads, u # t PROVE specific'[u] \notin Range(free_states')
      BY <3>2, <2>1, <2>3, <2>4, <1>c
    <3>3. QED
      BY <3>1, <3>2, <2>4
  <2>8. QED
    BY <1>p, <2>1, <2>3, <2>5, <2>6, <2>7, <1>c
<1>4. ASSUME UNCHANGED << states, free_states, specific >>, _S_key_initialized' \in BOOLEAN
      PROVE  OwnersInv'
  BY <1>p, <1>4, <1>c
<1>5. ASSUME NEW t \in Threads, GetStateThrows(t) PROVE OwnersInv'
  BY <1>4, <1>5, <1>c DEF GetStateThrows
<1>6. ASSUME UNCHANGED owners PROVE OwnersInv'
  BY <1>4, <1>6, <1>c DEF owners
<1>7. ASSUME NEW t \in Threads, Call(t) PROVE OwnersInv'
  BY <1>6, <1>7 DEF Call, Allocate, Deallocate, ReallocateInPlace, ReallocateByCopy
<1>8. ASSUME NEW t \in Threads,
             NeedState(t) \/ PopNode(t) \/ RefillEmptyList(t) \/ LinkNodes(t) \/ PushNode(t)
               \/ ServeFromPool(t) \/ GetChunk(t) \/ GetChunkThrows(t)
      PROVE  OwnersInv'
  BY <1>6, <1>8 DEF NeedState, PopNode, RefillEmptyList, LinkNodes, PushNode, ServeFromPool,
                    GetChunk, GetChunkThrows, owners
<1>9. CASE UNCHANGED vars
  BY <1>6, <1>9 DEF vars
<1>10. QED
  BY <1>1, <1>2, <1>3, <1>5, <1>7, <1>8, <1>9 DEF Next, Work

-----------------------------------------------------------------------------
(* Control, and the blocks that calls give back                            *)

(***************************************************************************)
(* A thread refills a list only with a state, a size and nodes to ask for. *)
(***************************************************************************)
LEMMA ControlStep == BaseInv /\ [Next]_vars => ControlInv'
<1> SUFFICES ASSUME ControlInv, OwnersInv, PoolInv, [Next]_vars PROVE ControlInv'
  BY DEF BaseInv
<1> USE Parameters DEF ControlInv, Labels, Refilling, HasState, Goto
<1>s. /\ \A k \in Small : k # 0
      /\ \A k \in Sizes : ~ Large(k) => k \in Small
  BY DEF Small
<1>1. ASSUME NEW t \in Threads, NEW k \in Sizes, Allocate(t, k) PROVE ControlInv'
  BY <1>1, <1>s DEF Allocate, owners
<1>2. ASSUME NEW t \in Threads, NEW b \in Held, Deallocate(t, b) PROVE ControlInv'
  BY <1>2 DEF Deallocate, owners
<1>3. ASSUME NEW t \in Threads, NEW b \in Held, NEW k \in Sizes, ReallocateByCopy(t, b, k)
      PROVE  ControlInv'
  BY <1>3, <1>s DEF ReallocateByCopy, owners
<1>4. ASSUME NEW t \in Threads, NeedState(t) PROVE ControlInv'
  BY <1>4 DEF NeedState, owners, calls
<1>5. ASSUME NEW t \in Threads, GetState(t) PROVE ControlInv'
  <2>1. PICK s \in States : specific' = [specific EXCEPT ![t] = s]
    BY <1>5 DEF GetState
  <2>2. specific \in [Threads -> (1 .. states) \union {NoState}]
    BY DEF OwnersInv
  <2>3. /\ pc[t] = "newState" /\ _S_key_initialized' = TRUE
        /\ pc' = [pc EXCEPT ![t] = IF n[t] # 0 THEN "allocate" ELSE "deallocate"]
        /\ UNCHANGED << n, nobjs >>
    BY <1>5 DEF GetState, Purpose, calls
  <2>4. /\ pc'[t] \in {"allocate", "deallocate"} /\ (pc'[t] = "allocate" => n[t] # 0)
        /\ \A u \in Threads : u # t => pc'[u] = pc[u] /\ specific'[u] = specific[u]
        /\ pc' \in [Threads -> Labels]
    BY <2>1, <2>2, <2>3
  <2>5. QED
    BY <2>3, <2>4
\* A call ends, and its thread does nothing or gives a block back.
<1>e. ASSUME NEW t \in Threads, EndCall(t), UNCHANGED specific,
             _S_key_initialized' = _S_key_initialized \/ _S_key_initialized' = TRUE,
             \E l \in {"idle", "deallocate"} : pc' = [pc EXCEPT ![t] = l]
      PROVE  ControlInv'
  <2>1. PICK l \in {"idle", "deallocate"} : pc' = [pc EXCEPT ![t] = l]
    BY <1>e
  <2>2. /\ pc' \in [Threads -> Labels] /\ pc'[t] \in {"idle", "deallocate"}
        /\ \A u \in Threads : u # t => /\ pc'[u] = pc[u] /\ n'[u] = n[u] /\ nobjs'[u] = nobjs[u]
    BY <1>e, <2>1 DEF EndCall
  <2>3. n' \in [Threads -> Small \union {0}] /\ nobjs' \in [Threads -> 0 .. NObjs]
    BY <1>e DEF EndCall
  <2>4. \A u \in Threads : pc'[u] \in Refilling => pc[u] \in Refilling /\ u # t
    BY <2>2
  <2>5. _S_key_initialized => _S_key_initialized'
    BY <1>e
  <2>6. \A u \in Threads : pc'[u] \in Refilling => nobjs'[u] # 0 /\ HasState(u)'
    BY <2>2, <2>4, <2>5, <1>e
  <2>7. QED
    BY <2>2, <2>3, <2>6
<1>6. ASSUME NEW t \in Threads, GetStateThrows(t) \/ SetspecificThrows(t) PROVE ControlInv'
  BY <1>e, <1>6 DEF GetStateThrows, SetspecificThrows, Throw
<1>7. ASSUME NEW t \in Threads, ThreadExit(t) PROVE ControlInv'
  <2>1. specific \in [Threads -> (1 .. states) \union {NoState}]
    BY DEF OwnersInv
  <2>2. /\ UNCHANGED << pc, n, nobjs, _S_key_initialized >>
        /\ \A u \in Threads : pc[u] # "idle" => specific'[u] = specific[u]
    BY <1>7, <2>1 DEF ThreadExit, calls
  <2>3. QED
    BY <2>2
<1>8. ASSUME NEW t \in Threads, PopNode(t) \/ LinkNodes(t) PROVE ControlInv'
  BY <1>e, <1>8 DEF PopNode, LinkNodes, Return, owners
<1>9. ASSUME NEW t \in Threads, RefillEmptyList(t) PROVE ControlInv'
  BY <1>9 DEF RefillEmptyList, owners
<1>10. ASSUME NEW t \in Threads, PushNode(t) PROVE ControlInv'
  BY <1>10 DEF PushNode, owners
<1>11. ASSUME NEW t \in Threads, ServeFromPool(t) PROVE ControlInv'
  <2>1. Served(t) \in 0 .. NObjs /\ Served(t) # 0 /\ nobjs' = [nobjs EXCEPT ![t] = Served(t)]
    BY <1>11, ServedNodes DEF ServeFromPool, Served
  <2>2. QED
    BY <1>11, <2>1 DEF ServeFromPool, owners
<1>12. ASSUME NEW t \in Threads, GetChunkThrows(t) PROVE ControlInv'
  BY <1>e, <1>12 DEF GetChunkThrows, Throw, owners
<1>13. ASSUME UNCHANGED << owners, pc, n, nobjs >> PROVE ControlInv'
  BY <1>13 DEF owners
<1>14. ASSUME NEW t \in Threads, GetChunk(t) PROVE ControlInv'
  BY <1>13, <1>14 DEF GetChunk, calls
<1>15. ASSUME NEW t \in Threads, NEW b \in Held, NEW k \in Sizes, ReallocateInPlace(t, b, k)
       PROVE  ControlInv'
  BY <1>13, <1>15 DEF ReallocateInPlace, calls
<1>16. CASE UNCHANGED vars
  BY <1>13, <1>16 DEF vars, calls
<1>17. QED
  BY <1>1, <1>2, <1>3, <1>4, <1>5, <1>6, <1>7, <1>8, <1>9, <1>10, <1>11, <1>12, <1>14, <1>15,
     <1>16 DEF Next, Call, Work

(***************************************************************************)
(* The state and the list of a thread that works on its lists.             *)
(***************************************************************************)
LEMMA OwnList ==
  ASSUME OwnersInv, ControlInv, ListsInv, NEW t \in Threads, HasState(t)
  PROVE  /\ specific[t] \in States
         /\ __free_list[specific[t]] \in [Indices -> Seq(1 .. MemTop)]
         /\ \A u \in Threads : u # t => specific[u] # specific[t]
<1>1. specific[t] \in 1 .. states /\ states \in 0 .. MaxStates
  BY DEF OwnersInv, HasState
<1>2. specific[t] \in States
  BY <1>1, Parameters DEF States
<1>3. QED
  BY <1>2 DEF ListsInv, OwnersInv, StatesArePrivate, HasState

(***************************************************************************)
(* The block that allocate returns is a small one in the memory of malloc. *)
(***************************************************************************)
LEMMA GivenBlock ==
  ASSUME BaseInv, NEW t \in Threads
  PROVE  /\ PopNode(t) => Block(Head(__free_list[specific[t]][FreelistIndex(n[t])]), n[t]) \in Blocks
         /\ LinkNodes(t) => Block(chunk[t], n[t]) \in Blocks
<1>1. OwnersInv /\ ControlInv /\ ListsInv /\ TransitInv
  BY DEF BaseInv
<1>2. ASSUME NEW a \in 1 .. MemTop, n[t] # 0 PROVE Block(a, n[t]) \in Blocks
  <2>1. n[t] \in Sizes /\ ~ Large(n[t])
    BY <1>1, <1>2, RefillSizes
  <2>2. QED
    BY <2>1 DEF Block, Blocks, Small
<1>3. ASSUME PopNode(t)
      PROVE  Block(Head(__free_list[specific[t]][FreelistIndex(n[t])]), n[t]) \in Blocks
  <2> DEFINE l == __free_list[specific[t]][FreelistIndex(n[t])]
  <2>1. n[t] # 0 /\ HasState(t) /\ l # << >>
    BY <1>1, <1>3 DEF PopNode, ControlInv
  <2>2. l \in Seq(1 .. MemTop)
    BY <1>1, <2>1, OwnList, RefillSizes
  <2> HIDE DEF l
  <2>3. Head(l) \in 1 .. MemTop
    BY <2>1, <2>2, HeadTailProperties
  <2>4. QED
    BY <1>2, <2>1, <2>3 DEF l
<1>4. ASSUME LinkNodes(t) PROVE Block(chunk[t], n[t]) \in Blocks
  <2>1. n[t] # 0 /\ chunk[t] \in 0 .. MemTop /\ chunk[t] # 0
    BY <1>1, <1>4 DEF LinkNodes, ControlInv, TransitInv, Refilling
  <2>2. chunk[t] \in 1 .. MemTop
    BY <2>1, Parameters
  <2>3. QED
    BY <1>2, <2>1, <2>2
<1>5. QED
  BY <1>3, <1>4

(***************************************************************************)
(* Only the call that has a block to give back gives it back.              *)
(***************************************************************************)
LEMMA OldStep == BaseInv /\ [Next]_vars => OldInv'
<1> SUFFICES ASSUME BaseInv, OldInv, [Next]_vars PROVE OldInv'
  BY DEF BaseInv
<1> USE DEF OldInv
\* A block is added, and the calls keep what they give back.
<1>1. ASSUME NEW b \in Blocks, live' = live \union {b}, old' = old PROVE OldInv'
  BY <1>1
<1>2. ASSUME NEW t \in Threads, PopNode(t) \/ LinkNodes(t) PROVE OldInv'
  BY <1>1, <1>2, GivenBlock DEF PopNode, LinkNodes, Return
<1>3. ASSUME UNCHANGED << live, old >> PROVE OldInv'
  BY <1>3
<1>4. ASSUME NEW t \in Threads, NEW b \in Held, Deallocate(t, b) PROVE OldInv'
  BY <1>4 DEF Deallocate, Held
<1>5. ASSUME NEW t \in Threads, NEW b \in Held, NEW k \in Sizes, ReallocateByCopy(t, b, k)
      PROVE  OldInv'
  BY <1>5 DEF ReallocateByCopy, Held
<1>6. ASSUME NEW t \in Threads, NEW b \in Held, NEW k \in Sizes, ReallocateInPlace(t, b, k)
      PROVE  OldInv'
  <2>1. b \in live /\ \A u \in Threads : b \notin old[u]
    BY DEF Held
  <2>2. Block(b.addr, k) \in Blocks
    BY <1>6, <2>1 DEF ReallocateInPlace, Block, Blocks, Small
  <2>3. live' = (live \ {b}) \union {Block(b.addr, k)} /\ old' = old
    BY <1>6 DEF ReallocateInPlace, calls
  <2>4. QED
    BY <2>1, <2>2, <2>3
<1>7. ASSUME NEW t \in Threads, Throw(t) PROVE OldInv'
  BY <1>7 DEF Throw
<1>8. ASSUME NEW t \in Threads, PushNode(t) PROVE OldInv'
  <2>1. PICK b \in old[t] : live' = live \ {b}
    BY <1>8 DEF PushNode
  <2>2. old' = [old EXCEPT ![t] = {}] /\ \A u \in Threads : u # t => b \notin old[u]
    BY <1>8, <2>1 DEF PushNode
  <2>3. QED
    BY <2>1, <2>2
<1>9. ASSUME NEW t \in Threads,
             NeedState(t) \/ GetState(t) \/ RefillEmptyList(t) \/ ServeFromPool(t) \/ GetChunk(t)
               \/ ThreadExit(t)
      PROVE  OldInv'
  BY <1>3, <1>9 DEF NeedState, GetState, RefillEmptyList, ServeFromPool, GetChunk, ThreadExit,
                    calls
<1>10. ASSUME NEW t \in Threads, GetStateThrows(t) \/ SetspecificThrows(t) \/ GetChunkThrows(t)
       PROVE  OldInv'
  BY <1>7, <1>10 DEF GetStateThrows, SetspecificThrows, GetChunkThrows
<1>11. ASSUME NEW t \in Threads, NEW k \in Sizes, Allocate(t, k) PROVE OldInv'
  BY <1>3, <1>11 DEF Allocate
<1>12. CASE UNCHANGED vars
  BY <1>3, <1>12 DEF vars, calls
<1>13. QED
  BY <1>2, <1>4, <1>5, <1>6, <1>8, <1>9, <1>10, <1>11, <1>12 DEF Next, Call, Work

-----------------------------------------------------------------------------
(* Lists, pool and heap                                                    *)

(***************************************************************************)
(* What is left of the pool has a list, and not the one being refilled.    *)
(***************************************************************************)
LEMMA Leftover ==
  ASSUME ControlInv, PoolInv, NEW t \in Threads, pc[t] = "refill",
         BytesLeft < RoundUp(n[t]), BytesLeft > 0
  PROVE  /\ _S_start_free \in 1 .. MemTop /\ BytesLeft \in Nat \ {0}
         /\ FreelistIndex(BytesLeft) \in Indices
         /\ NodeSize(FreelistIndex(BytesLeft)) = BytesLeft
         /\ FreelistIndex(BytesLeft) # FreelistIndex(n[t])
<1>1. n[t] # 0
  BY DEF ControlInv, Refilling
<1>2. /\ RoundUp(n[t]) \in Nat \ {0} /\ RoundUp(n[t]) <= _Max_size
      /\ NodeSize(FreelistIndex(n[t])) = RoundUp(n[t])
  BY <1>1, RefillSizes
<1>3. BytesLeft \in Nat \ {0} /\ _S_start_free + BytesLeft = _S_end_free
  BY Parameters DEF PoolInv, BytesLeft
<1>4. _S_start_free # 0
  BY <1>3 DEF PoolInv, BytesLeft
<1>5. ~ Large(BytesLeft)
  BY <1>2, <1>3, Parameters DEF Large
<1>6. MultipleOf(BytesLeft, _S_ALIGN)
  BY DEF PoolInv
<1>7. /\ FreelistIndex(BytesLeft) \in Indices
      /\ NodeSize(FreelistIndex(BytesLeft)) = BytesLeft
  BY <1>3, <1>5, <1>6, SmallSizes, WholeSizes
<1>8. _S_start_free \in 1 .. MemTop
  BY <1>3, <1>4, Parameters DEF PoolInv
<1>9. QED
  BY <1>2, <1>3, <1>7, <1>8

(***************************************************************************)
(* One list of one state gets other nodes.                                 *)
(***************************************************************************)
OneListChanges(s, i, l) ==
    /\ __free_list' \in [States -> [Indices -> Seq(1 .. MemTop)]]
    /\ __free_list'[s][i] = l
    /\ \A j \in Indices : j # i => __free_list'[s][j] = __free_list[s][j]
    /\ \A r \in States : r # s => __free_list'[r] = __free_list[r]

\* An assignment to one list of one state leaves all others as they are.
LEMMA ListChange ==
  ASSUME ListsInv, NEW s \in States, NEW i \in Indices, NEW l \in Seq(1 .. MemTop),
         __free_list' = [__free_list EXCEPT ![s][i] = l]
  PROVE  OneListChanges(s, i, l)
<1> DEFINE f == [__free_list[s] EXCEPT ![i] = l]
<1>1. /\ __free_list \in [States -> [Indices -> Seq(1 .. MemTop)]]
      /\ __free_list[s] \in [Indices -> Seq(1 .. MemTop)]
  BY DEF ListsInv
<1>2. /\ f \in [Indices -> Seq(1 .. MemTop)] /\ f[i] = l
      /\ \A j \in Indices : j # i => f[j] = __free_list[s][j]
  BY <1>1
<1>3. __free_list' = [__free_list EXCEPT ![s] = f]
  OBVIOUS
<1> HIDE DEF f
<1>4. __free_list'[s] = f /\ \A r \in States : r # s => __free_list'[r] = __free_list[r]
  BY <1>1, <1>3
<1>5. __free_list' \in [States -> [Indices -> Seq(1 .. MemTop)]]
  BY <1>1, <1>2, <1>3
<1>6. QED
  BY <1>2, <1>4, <1>5 DEF OneListChanges

(***************************************************************************)
(* The lists that a step of a thread changes are those of its own state.   *)
(***************************************************************************)
LEMMA PopChange ==
  ASSUME BaseInv, NEW t \in Threads, PopNode(t)
  PROVE  /\ specific[t] \in States /\ FreelistIndex(n[t]) \in Indices
         /\ OneListChanges(specific[t], FreelistIndex(n[t]),
                           Tail(__free_list[specific[t]][FreelistIndex(n[t])]))
<1> DEFINE s == specific[t]
           i == FreelistIndex(n[t])
           l == __free_list[s][i]
<1>1. OwnersInv /\ ControlInv /\ ListsInv /\ n[t] # 0 /\ HasState(t) /\ l # << >>
  BY DEF BaseInv, PopNode, ControlInv
<1>2. s \in States /\ i \in Indices /\ l \in Seq(1 .. MemTop)
  BY <1>1, OwnList, RefillSizes
<1>3. __free_list' = [__free_list EXCEPT ![s][i] = Tail(l)]
  BY DEF PopNode
<1> HIDE DEF s, i, l
<1>4. Tail(l) \in Seq(1 .. MemTop)
  BY <1>1, <1>2, HeadTailProperties
<1>5. QED
  BY <1>1, <1>2, <1>3, <1>4, ListChange DEF s, i, l

\* deallocate puts a block of the thread in front of the list of its size.
LEMMA PushChange ==
  ASSUME BaseInv, NEW t \in Threads, PushNode(t)
  PROVE  \E b \in old[t] :
           /\ b \in live /\ live' = live \ {b}
           /\ specific[t] \in States /\ FreelistIndex(b.size) \in Indices
           /\ OneListChanges(specific[t], FreelistIndex(b.size),
                             << b.addr >> \o __free_list[specific[t]][FreelistIndex(b.size)])
<1>1. PICK b \in old[t] : /\ __free_list' = Push(specific[t], FreelistIndex(b.size), b.addr)
                          /\ live' = live \ {b}
  BY DEF PushNode
<1> DEFINE s == specific[t]
           i == FreelistIndex(b.size)
           l == __free_list[s][i]
<1>2. OwnersInv /\ ControlInv /\ ListsInv /\ HasState(t) /\ b \in live /\ b \in Blocks
  BY DEF BaseInv, PushNode, OldInv
<1>3. b.addr \in 1 .. MemTop /\ b.size \in Nat \ {0} /\ ~ Large(b.size)
  BY <1>2, Parameters DEF Blocks, Small
<1>4. s \in States /\ i \in Indices /\ l \in Seq(1 .. MemTop)
  BY <1>2, <1>3, OwnList, SmallSizes
<1>5. __free_list' = [__free_list EXCEPT ![s][i] = << b.addr >> \o l]
  BY <1>1 DEF Push
<1> HIDE DEF s, i, l
<1>6. << b.addr >> \o l \in Seq(1 .. MemTop)
  BY <1>3, <1>4
<1>7. OneListChanges(s, i, << b.addr >> \o l)
  BY <1>2, <1>4, <1>5, <1>6, ListChange
<1>8. QED
  BY <1>1, <1>2, <1>4, <1>7 DEF s, i, l

\* _S_chunk_alloc puts what is left of the pool in front of the list of its size.
LEMMA LeftoverChange ==
  ASSUME BaseInv, NEW t \in Threads, pc[t] = "refill", BytesLeft < RoundUp(n[t]), BytesLeft > 0,
         KeepLeftover(t)
  PROVE  /\ specific[t] \in States
         /\ OneListChanges(specific[t], FreelistIndex(BytesLeft),
                 << _S_start_free >> \o __free_list[specific[t]][FreelistIndex(BytesLeft)])
<1> DEFINE s == specific[t]
           i == FreelistIndex(BytesLeft)
           l == __free_list[s][i]
<1>1. OwnersInv /\ ControlInv /\ ListsInv /\ PoolInv /\ HasState(t)
  BY DEF BaseInv, ControlInv, Refilling
<1>2. _S_start_free \in 1 .. MemTop /\ i \in Indices
  BY <1>1, Leftover
<1>3. s \in States /\ l \in Seq(1 .. MemTop)
  BY <1>1, <1>2, OwnList
<1>4. __free_list' = [__free_list EXCEPT ![s][i] = << _S_start_free >> \o l]
  BY DEF KeepLeftover, Push
<1> HIDE DEF s, i, l
<1>5. << _S_start_free >> \o l \in Seq(1 .. MemTop)
  BY <1>2, <1>3
<1>6. QED
  BY <1>1, <1>2, <1>3, <1>4, <1>5, ListChange DEF s, i, l

\* _M_refill makes the nodes after the first one the list, which was empty.
LEMMA LinkChange ==
  ASSUME BaseInv, NEW t \in Threads, LinkNodes(t)
  PROVE  /\ specific[t] \in States /\ FreelistIndex(n[t]) \in Indices
         /\ chunk[t] \in 1 .. MemTop /\ nobjs[t] \in Nat \ {0}
         /\ chunk[t] + nobjs[t] * RoundUp(n[t]) <= MemTop + 1
         /\ __free_list[specific[t]][FreelistIndex(n[t])] = << >>
         /\ IF nobjs[t] = 1 THEN __free_list' = __free_list
            ELSE LET l == [j \in 1 .. nobjs[t] - 1 |-> chunk[t] + j * RoundUp(n[t])]
                 IN  IsInjective(l) /\ OneListChanges(specific[t], FreelistIndex(n[t]), l)
<1> DEFINE s == specific[t]
           i == FreelistIndex(n[t])
           c == chunk[t]
           k == nobjs[t]
           size == RoundUp(n[t])
<1>1. OwnersInv /\ ControlInv /\ ListsInv /\ TransitInv
  BY DEF BaseInv
<1>2. /\ pc[t] = "link" /\ n[t] # 0 /\ HasState(t) /\ k \in 0 .. NObjs /\ k # 0
      /\ __free_list' = IF k = 1 THEN __free_list
                        ELSE [__free_list EXCEPT ![s][i] = [j \in 1 .. k - 1 |-> c + j * size]]
  BY <1>1 DEF LinkNodes, ControlInv, Refilling
<1>3. s \in States /\ i \in Indices /\ size \in Nat \ {0}
  BY <1>1, <1>2, OwnList, RefillSizes
<1>4. c \in 0 .. MemTop /\ c # 0 /\ c + k * size <= MemTop + 1 /\ __free_list[s][i] = << >>
  BY <1>1, <1>2 DEF TransitInv, ListsInv, Refilling
<1>5. k \in Nat \ {0} /\ c \in 1 .. MemTop
  BY <1>2, <1>4, Parameters
<1> HIDE DEF s, i, c, k, size
<1>6. ASSUME k # 1
      PROVE  LET l == [j \in 1 .. k - 1 |-> c + j * size]
             IN  IsInjective(l) /\ OneListChanges(s, i, l)
  <2> DEFINE l == [j \in 1 .. k - 1 |-> c + j * size]
  <2>1. l \in Seq(1 .. MemTop) /\ IsInjective(l)
    BY <1>3, <1>4, <1>5, Parameters, RunOfNodes
  <2>2. __free_list' = [__free_list EXCEPT ![s][i] = l]
    BY <1>2, <1>6
  <2> HIDE DEF l
  <2>3. OneListChanges(s, i, l)
    BY <1>1, <1>3, <2>1, <2>2, ListChange
  <2>4. QED
    BY <2>1, <2>3 DEF l
<1>7. QED
  BY <1>2, <1>3, <1>4, <1>5, <1>6 DEF s, i, c, k, size

(***************************************************************************)
(* The list that is being refilled stays empty: nobody else has the state, *)
(* and the rest of the pool is a smaller node.                             *)
(***************************************************************************)
LEMMA ListsStep == BaseInv /\ [Next]_vars => ListsInv'
<1> SUFFICES ASSUME BaseInv, [Next]_vars PROVE ListsInv'
  OBVIOUS
<1>c. /\ OwnersInv /\ ControlInv /\ ListsInv /\ PoolInv
      /\ pc \in [Threads -> Labels] /\ n \in [Threads -> Small \union {0}]
      /\ specific \in [Threads -> (1 .. states) \union {NoState}]
      /\ \A u \in Threads : pc[u] \in Refilling => HasState(u)
  BY DEF BaseInv, ControlInv, OwnersInv
\* The lists stay as they are, and nobody starts to refill.
<1>1. ASSUME UNCHANGED __free_list,
             \A u \in Threads : pc'[u] \in Refilling =>
                                  /\ pc[u] \in Refilling
                                  /\ n'[u] = n[u] /\ specific'[u] = specific[u]
      PROVE  ListsInv'
  BY <1>1, <1>c DEF ListsInv
\* A thread changes a list of its own.
<1>2. ASSUME NEW t \in Threads, HasState(t), NEW i \in Indices, NEW l,
             OneListChanges(specific[t], i, l), specific' = specific,
             \A u \in Threads : u # t => pc'[u] = pc[u] /\ n'[u] = n[u],
             pc'[t] \in Refilling => /\ pc[t] \in Refilling /\ n'[t] = n[t]
                                     /\ FreelistIndex(n[t]) # i
      PROVE  ListsInv'
  <2>1. __free_list' \in [States -> [Indices -> Seq(1 .. MemTop)]]
    BY <1>2 DEF OneListChanges
  <2>2. ASSUME NEW u \in Threads, pc'[u] \in Refilling
        PROVE  __free_list'[specific[u]][FreelistIndex(n'[u])] = << >>
    <3>1. pc[u] \in Refilling /\ n'[u] = n[u]
      BY <2>2, <1>2
    <3>2. specific[u] \in States /\ n[u] # 0
      BY <3>1, <1>c, OwnList DEF ControlInv
    <3>3. __free_list[specific[u]][FreelistIndex(n[u])] = << >> /\ FreelistIndex(n[u]) \in Indices
      BY <3>1, <3>2, <1>c, RefillSizes DEF ListsInv
    <3>4. CASE u = t
      <4>1. \A j \in Indices : j # i =>
              __free_list'[specific[t]][j] = __free_list[specific[t]][j]
        BY <1>2 DEF OneListChanges
      <4>2. QED
        BY <3>1, <3>3, <3>4, <4>1, <2>2, <1>2
    <3>5. CASE u # t
      <4>1. specific[u] # specific[t]
        BY <3>5, <1>2, <1>c, OwnList
      <4>2. __free_list'[specific[u]] = __free_list[specific[u]]
        BY <3>2, <4>1, <1>2 DEF OneListChanges
      <4>3. QED
        BY <3>1, <3>3, <4>2
    <3>6. QED
      BY <3>4, <3>5
  <2>3. QED
    BY <2>1, <2>2, <1>2 DEF ListsInv
<1>3. ASSUME NEW t \in Threads, PopNode(t) PROVE ListsInv'
  <2>1. /\ FreelistIndex(n[t]) \in Indices
        /\ OneListChanges(specific[t], FreelistIndex(n[t]),
                          Tail(__free_list[specific[t]][FreelistIndex(n[t])]))
    BY <1>3, PopChange
  <2>2. /\ HasState(t) /\ specific' = specific /\ pc'[t] \notin Refilling
        /\ \A u \in Threads : u # t => pc'[u] = pc[u] /\ n'[u] = n[u]
    BY <1>3, <1>c DEF PopNode, Return, EndCall, Goto, Refilling, owners
  <2>3. QED
    BY <2>1, <2>2, <1>2
<1>4. ASSUME NEW t \in Threads, LinkNodes(t) PROVE ListsInv'
  <2>1. /\ specific' = specific /\ pc'[t] \notin Refilling
        /\ \A u \in Threads : u # t => pc'[u] = pc[u] /\ n'[u] = n[u]
    BY <1>4, <1>c DEF LinkNodes, Return, EndCall, Goto, Refilling, owners
  <2>2. CASE nobjs[t] = 1
    <3>1. __free_list' = __free_list
      BY <1>4, <2>2, LinkChange
    <3>2. QED
      BY <3>1, <2>1, <1>1
  <2>3. CASE nobjs[t] # 1
    <3>1. PICK l : OneListChanges(specific[t], FreelistIndex(n[t]), l)
      BY <1>4, <2>3, LinkChange
    <3>2. FreelistIndex(n[t]) \in Indices
      BY <1>4, LinkChange
    <3>3. HasState(t)
      BY <1>4, <1>c DEF LinkNodes, Refilling
    <3>4. QED
      BY <3>1, <3>2, <3>3, <2>1, <1>2
  <2>4. QED
    BY <2>2, <2>3
<1>5. ASSUME NEW t \in Threads, PushNode(t) PROVE ListsInv'
  <2>1. PICK b \in old[t] :
          /\ FreelistIndex(b.size) \in Indices
          /\ OneListChanges(specific[t], FreelistIndex(b.size),
                            << b.addr >> \o __free_list[specific[t]][FreelistIndex(b.size)])
    BY <1>5, PushChange
  <2>2. /\ HasState(t) /\ specific' = specific /\ pc'[t] \notin Refilling
        /\ \A u \in Threads : u # t => pc'[u] = pc[u] /\ n'[u] = n[u]
    BY <1>5, <1>c DEF PushNode, Goto, Refilling, owners
  <2>3. QED
    BY <2>1, <2>2, <1>2
<1>6. ASSUME NEW t \in Threads, pc[t] = "refill", BytesLeft < RoundUp(n[t]), KeepLeftover(t),
             specific' = specific,
             \A u \in Threads : u # t => pc'[u] = pc[u] /\ n'[u] = n[u],
             pc'[t] \in Refilling => n'[t] = n[t]
      PROVE  ListsInv'
  <2>1. pc[t] \in Refilling
    BY <1>6 DEF Refilling
  <2>2. CASE BytesLeft > 0
    <3>1. /\ FreelistIndex(BytesLeft) \in Indices
          /\ FreelistIndex(BytesLeft) # FreelistIndex(n[t])
      BY <1>6, <1>c, <2>2, Leftover
    <3>2. OneListChanges(specific[t], FreelistIndex(BytesLeft),
                 << _S_start_free >> \o __free_list[specific[t]][FreelistIndex(BytesLeft)])
      BY <1>6, <2>2, LeftoverChange
    <3>3. QED
      BY <3>1, <3>2, <2>1, <1>2, <1>6, <1>c
  <2>3. CASE ~ (BytesLeft > 0)
    <3>1. __free_list' = __free_list
      BY <1>6, <2>3 DEF KeepLeftover
    <3>2. QED
      BY <3>1, <2>1, <1>1, <1>6
  <2>4. QED
    BY <2>2, <2>3
<1>7. ASSUME NEW t \in Threads, GetChunk(t) PROVE ListsInv'
  BY <1>6, <1>7 DEF GetChunk, owners, calls
<1>8. ASSUME NEW t \in Threads, GetChunkThrows(t) PROVE ListsInv'
  BY <1>6, <1>8, <1>c DEF GetChunkThrows, Throw, EndCall, Goto, Refilling, owners
<1>9. ASSUME NEW t \in Threads, RefillEmptyList(t) PROVE ListsInv'
  <2>1. /\ __free_list' = __free_list /\ n' = n /\ specific' = specific
        /\ __free_list[specific[t]][FreelistIndex(n[t])] = << >>
        /\ \A u \in Threads : u # t => pc'[u] = pc[u]
    BY <1>9, <1>c DEF RefillEmptyList, Goto, owners
  <2>2. QED
    BY <2>1, <1>c DEF ListsInv
<1>10. ASSUME NEW t \in Threads, ServeFromPool(t) PROVE ListsInv'
  <2>1. /\ __free_list' = __free_list /\ n' = n /\ specific' = specific /\ pc[t] \in Refilling
        /\ \A u \in Threads : u # t => pc'[u] = pc[u]
    BY <1>10, <1>c DEF ServeFromPool, Goto, owners, Refilling
  <2>2. QED
    BY <2>1, <1>1
\* A thread that does not refill, before and after.
<1>11. ASSUME NEW t \in Threads, pc'[t] \notin Refilling, UNCHANGED __free_list,
              \A u \in Threads : u # t =>
                pc'[u] = pc[u] /\ n'[u] = n[u] /\ specific'[u] = specific[u]
       PROVE  ListsInv'
  BY <1>1, <1>11
<1>12. ASSUME NEW t \in Threads, NEW k \in Sizes, Allocate(t, k) PROVE ListsInv'
  BY <1>11, <1>12, <1>c DEF Allocate, Goto, Refilling, owners
<1>13. ASSUME NEW t \in Threads, NEW b \in Held, Deallocate(t, b) PROVE ListsInv'
  BY <1>11, <1>13, <1>c DEF Deallocate, Goto, Refilling, owners
<1>14. ASSUME NEW t \in Threads, NEW b \in Held, NEW k \in Sizes, ReallocateByCopy(t, b, k)
       PROVE  ListsInv'
  BY <1>11, <1>14, <1>c DEF ReallocateByCopy, Goto, Refilling, owners
<1>15. ASSUME NEW t \in Threads, NeedState(t) PROVE ListsInv'
  BY <1>11, <1>15, <1>c DEF NeedState, Goto, Refilling, owners, calls
<1>16. ASSUME NEW t \in Threads, GetState(t) PROVE ListsInv'
  BY <1>11, <1>16, <1>c DEF GetState, Purpose, Goto, Refilling, calls
<1>17. ASSUME NEW t \in Threads, GetStateThrows(t) \/ SetspecificThrows(t) PROVE ListsInv'
  BY <1>11, <1>17, <1>c DEF GetStateThrows, SetspecificThrows, Throw, EndCall, Goto, Refilling
<1>18. ASSUME NEW t \in Threads, ThreadExit(t) PROVE ListsInv'
  <2>1. /\ pc' = pc /\ n' = n /\ __free_list' = __free_list /\ pc[t] \notin Refilling
        /\ \A u \in Threads : u # t => specific'[u] = specific[u]
    BY <1>18, <1>c DEF ThreadExit, calls, Refilling
  <2>2. QED
    BY <2>1, <1>11
<1>19. ASSUME NEW t \in Threads, NEW b \in Held, NEW k \in Sizes, ReallocateInPlace(t, b, k)
       PROVE  ListsInv'
  BY <1>1, <1>19 DEF ReallocateInPlace, calls, owners
<1>20. CASE UNCHANGED vars
  BY <1>1, <1>20 DEF vars, calls, owners
<1>21. QED
  BY <1>3, <1>4, <1>5, <1>7, <1>8, <1>9, <1>10, <1>12, <1>13, <1>14, <1>15, <1>16, <1>17,
     <1>18, <1>19, <1>20 DEF Next, Call, Work

(***************************************************************************)
(* malloc gives a chunk of whole units that is apart from the others, and  *)
(* the pool is all of it.                                                  *)
(***************************************************************************)
GivesChunk(a, k) ==
    /\ k \in Nat \ {0} /\ MultipleOf(k, _S_ALIGN)
    /\ a \in 1 .. MemTop /\ a + k <= MemTop + 1
    /\ heap' = heap \union {Block(a, k)}
    /\ IsExtent(Block(a, k)) /\ \A c \in heap : IsExtent(c) /\ Disjoint(Block(a, k), c)
    /\ _S_start_free' = a /\ _S_end_free' = a + k /\ _S_heap_size' = _S_heap_size + k

\* The memory that malloc_alloc gives to _S_chunk_alloc is such a chunk.
LEMMA NewChunk ==
  ASSUME BaseInv, NEW t \in Threads, GetChunk(t)
  PROVE  \E a : GivesChunk(a, BytesToGet(t))
<1> DEFINE k == BytesToGet(t)
<1>1. PICK a \in FirstFit(k, heap) : MallocGives(k, a) /\ _S_start_free' = a /\ _S_end_free' = a + k
  BY DEF GetChunk
<1>2. ControlInv /\ HeapInv /\ pc[t] = "refill" /\ _S_heap_size' = _S_heap_size + k
  BY DEF BaseInv, GetChunk
<1>3. k \in Nat \ {0} /\ MultipleOf(k, _S_ALIGN)
  BY <1>2, WholeChunks
<1> HIDE DEF k
<1>4. a \in 1 .. MemTop /\ a + k <= MemTop + 1 /\ \A b \in heap : Apart(b, Block(a, k))
  BY <1>1, <1>3, FirstFits
<1>5. IsExtent(Block(a, k))
  BY <1>3, <1>4, Parameters DEF Block, IsExtent
<1>6. \A c \in heap : IsExtent(c)
  BY <1>2, Parameters DEF HeapInv, Chunk, IsExtent
<1>7. \A c \in heap : Disjoint(Block(a, k), c)
  BY <1>4 DEF Apart, Disjoint
<1>8. heap' = heap \union {Block(a, k)}
  BY <1>1 DEF MallocGives
<1>9. GivesChunk(a, k)
  BY <1>1, <1>2, <1>3, <1>4, <1>5, <1>6, <1>7, <1>8 DEF GivesChunk
<1>10. QED
  BY <1>9 DEF k

(***************************************************************************)
(* What the thread takes from the pool starts where the pool did.          *)
(***************************************************************************)
LEMMA ServedRest ==
  ASSUME BaseInv, NEW t \in Threads, ServeFromPool(t)
  PROVE  /\ Served(t) * RoundUp(n[t]) \in Nat \ {0} /\ Served(t) * RoundUp(n[t]) <= BytesLeft
         /\ BytesLeft \in Nat \ {0} /\ _S_start_free + BytesLeft = _S_end_free
         /\ _S_start_free \in 1 .. MemTop /\ _S_end_free <= MemTop + 1
         /\ _S_start_free' = _S_start_free + Served(t) * RoundUp(n[t])
         /\ _S_end_free' = _S_end_free
         /\ BytesLeft' = BytesLeft - Served(t) * RoundUp(n[t])
         /\ MultipleOf(BytesLeft', _S_ALIGN)
<1> DEFINE size == RoundUp(n[t])
           used == Served(t) * size
<1>1. ControlInv /\ PoolInv /\ pc[t] = "refill" /\ BytesLeft >= size /\ n[t] # 0
  BY DEF BaseInv, ServeFromPool, ControlInv, Refilling
<1>2. Served(t) \in Nat \ {0} /\ used \in Nat \ {0} /\ used <= BytesLeft
  BY <1>1, ServedNodes
<1>3. size \in Nat \ {0} /\ MultipleOf(size, _S_ALIGN)
  BY <1>1, RefillSizes
<1>4. MultipleOf(used, _S_ALIGN)
  BY <1>2, <1>3, Parameters, MultipleProduct
<1>5. _S_start_free' = _S_start_free + used /\ _S_end_free' = _S_end_free
  BY DEF ServeFromPool, Served
<1> HIDE DEF size, used
<1>6. /\ BytesLeft \in Nat \ {0} /\ _S_start_free + BytesLeft = _S_end_free
      /\ _S_start_free \in Nat /\ _S_end_free <= MemTop + 1
  BY <1>1, <1>2, Parameters DEF PoolInv, BytesLeft
<1>7. _S_start_free # 0
  BY <1>1, <1>6 DEF PoolInv, BytesLeft
<1>8. _S_start_free \in 1 .. MemTop
  BY <1>6, <1>7, Parameters
<1>9. BytesLeft' = BytesLeft - used
  BY <1>2, <1>5, <1>6 DEF BytesLeft
<1>10. MultipleOf(BytesLeft, _S_ALIGN)
  BY <1>1 DEF PoolInv
<1>11. MultipleOf(BytesLeft - used, _S_ALIGN)
  BY <1>2, <1>4, <1>10, Parameters, MultipleSum
<1>12. QED
  BY <1>2, <1>5, <1>6, <1>8, <1>9, <1>11 DEF size, used

(***************************************************************************)
(* The pool and the heap change only under the lock, when the pool serves  *)
(* and when malloc gives a chunk.                                          *)
(***************************************************************************)
LEMMA PoolStep == BaseInv /\ [Next]_vars => PoolInv' /\ HeapInv'
<1> SUFFICES ASSUME BaseInv, [Next]_vars PROVE PoolInv' /\ HeapInv'
  OBVIOUS
<1>c. PoolInv /\ HeapInv
  BY DEF BaseInv
<1>1. ASSUME UNCHANGED << pool, heap >> PROVE PoolInv' /\ HeapInv'
  BY <1>1, <1>c DEF PoolInv, HeapInv, pool, BytesLeft
<1>2. ASSUME NEW t \in Threads, ServeFromPool(t) PROVE PoolInv' /\ HeapInv'
  <2> DEFINE used == Served(t) * RoundUp(n[t])
  <2>1. /\ used \in Nat \ {0} /\ used <= BytesLeft
        /\ BytesLeft \in Nat \ {0} /\ _S_start_free + BytesLeft = _S_end_free
        /\ _S_start_free \in 1 .. MemTop /\ _S_end_free <= MemTop + 1
        /\ _S_start_free' = _S_start_free + used
        /\ _S_end_free' = _S_end_free
        /\ MultipleOf(BytesLeft', _S_ALIGN)
    BY <1>2, ServedRest
  <2> HIDE DEF used
  <2>2. _S_start_free' \in 0 .. MemTop + 1 /\ _S_end_free' \in _S_start_free' .. MemTop + 1
    BY <2>1, Parameters
  <2>3. _S_start_free' # 0
    BY <2>1
  <2>4. UNCHANGED << heap, _S_heap_size >>
    BY <1>2 DEF ServeFromPool
  <2>5. QED
    BY <2>1, <2>2, <2>3, <2>4, <1>c DEF PoolInv, HeapInv
<1>3. ASSUME NEW t \in Threads, GetChunk(t) PROVE PoolInv' /\ HeapInv'
  <2> DEFINE k == BytesToGet(t)
  <2>1. PICK a : GivesChunk(a, k)
    BY <1>3, NewChunk
  <2> HIDE DEF k
  <2> DEFINE B == Block(a, k)
  <2>2. /\ k \in Nat \ {0} /\ MultipleOf(k, _S_ALIGN)
        /\ a \in 1 .. MemTop /\ a + k <= MemTop + 1
        /\ heap' = heap \union {B}
        /\ IsExtent(B) /\ \A c \in heap : IsExtent(c) /\ Disjoint(B, c)
        /\ _S_start_free' = a /\ _S_end_free' = a + k /\ _S_heap_size' = _S_heap_size + k
    BY <2>1 DEF GivesChunk
  <2>3. BytesLeft' = k
    BY <2>2 DEF BytesLeft
  <2>4. _S_start_free' \in 0 .. MemTop + 1 /\ _S_end_free' \in _S_start_free' .. MemTop + 1
    BY <2>2, Parameters
  <2>5. PoolInv'
    BY <2>2, <2>3, <2>4 DEF PoolInv
  <2>6. B.addr = a /\ B.size = k /\ B \in Chunk
    BY <2>2 DEF Block, Chunk
  <2> HIDE DEF B
  <2>7. heap' \subseteq Chunk /\ \A b \in heap' : b.addr + b.size <= MemTop + 1
    BY <2>2, <2>6, <1>c DEF HeapInv
  <2>8. \A b, c \in heap' : b # c => Apart(b, c)
    BY <2>2, <1>c DEF HeapInv, Apart, Disjoint
  <2>9. /\ IsFiniteSet(Covered(heap'))
        /\ Cardinality(Covered(heap')) = Cardinality(Covered(heap)) + B.size
    BY <2>2, <1>c, BytesAdded DEF HeapInv
  <2>10. QED
    BY <2>2, <2>5, <2>6, <2>7, <2>8, <2>9, <1>c DEF HeapInv
<1>4. ASSUME NEW t \in Threads, Call(t) PROVE PoolInv' /\ HeapInv'
  BY <1>1, <1>4 DEF Call, Allocate, Deallocate, ReallocateInPlace, ReallocateByCopy
<1>5. ASSUME NEW t \in Threads,
             NeedState(t) \/ GetState(t) \/ GetStateThrows(t) \/ SetspecificThrows(t)
               \/ PopNode(t) \/ RefillEmptyList(t) \/ LinkNodes(t) \/ PushNode(t)
               \/ GetChunkThrows(t) \/ ThreadExit(t)
      PROVE  PoolInv' /\ HeapInv'
  BY <1>1, <1>5 DEF NeedState, GetState, GetStateThrows, SetspecificThrows, PopNode,
                    RefillEmptyList, LinkNodes, PushNode, GetChunkThrows, ThreadExit
<1>6. CASE UNCHANGED vars
  BY <1>1, <1>6 DEF vars
<1>7. QED
  BY <1>2, <1>3, <1>4, <1>5, <1>6 DEF Next, Work

(***************************************************************************)
(* The nodes that a thread links lie in memory.                            *)
(***************************************************************************)
LEMMA TransitStep == BaseInv /\ [Next]_vars => TransitInv'
<1> SUFFICES ASSUME BaseInv, [Next]_vars PROVE TransitInv'
  OBVIOUS
<1>c. /\ TransitInv /\ chunk \in [Threads -> 0 .. MemTop]
      /\ pc \in [Threads -> Labels] /\ n \in [Threads -> Small \union {0}]
      /\ nobjs \in [Threads -> 0 .. NObjs]
  BY DEF BaseInv, TransitInv, ControlInv
\* One thread's label and variables change, and it links nothing then.
<1>1. ASSUME NEW t \in Threads, pc'[t] # "link", chunk' \in [Threads -> 0 .. MemTop],
             \A u \in Threads : u # t => /\ pc'[u] = pc[u] /\ n'[u] = n[u]
                                         /\ nobjs'[u] = nobjs[u] /\ chunk'[u] = chunk[u]
      PROVE  TransitInv'
  <2>1. ASSUME NEW u \in Threads, pc'[u] = "link"
        PROVE  chunk'[u] # 0 /\ chunk'[u] + nobjs'[u] * RoundUp(n'[u]) <= MemTop + 1
    <3>1. /\ pc'[u] = pc[u] /\ n'[u] = n[u] /\ nobjs'[u] = nobjs[u] /\ chunk'[u] = chunk[u]
      BY <1>1, <2>1
    <3>2. chunk[u] # 0 /\ chunk[u] + nobjs[u] * RoundUp(n[u]) <= MemTop + 1
      BY <2>1, <3>1, <1>c DEF TransitInv
    <3>3. QED
      BY <3>1, <3>2
  <2>2. QED
    BY <2>1, <1>1 DEF TransitInv, RoundUp
<1>2. ASSUME NEW t \in Threads, EndCall(t), \E l \in {"idle", "deallocate"} : pc' = [pc EXCEPT ![t] = l]
      PROVE  TransitInv'
  <2>1. chunk' \in [Threads -> 0 .. MemTop]
    BY <1>2, <1>c, Parameters DEF EndCall
  <2>2. /\ pc'[t] # "link"
        /\ \A u \in Threads : u # t => /\ pc'[u] = pc[u] /\ n'[u] = n[u]
                                       /\ nobjs'[u] = nobjs[u] /\ chunk'[u] = chunk[u]
    BY <1>2, <1>c DEF EndCall
  <2>3. QED
    BY <1>1, <2>1, <2>2
<1>3. ASSUME NEW t \in Threads, PopNode(t) \/ LinkNodes(t) PROVE TransitInv'
  BY <1>2, <1>3 DEF PopNode, LinkNodes, Return, Goto
<1>4. ASSUME NEW t \in Threads, GetStateThrows(t) \/ SetspecificThrows(t) \/ GetChunkThrows(t)
      PROVE  TransitInv'
  BY <1>2, <1>4 DEF GetStateThrows, SetspecificThrows, GetChunkThrows, Throw, Goto
<1>5. ASSUME NEW t \in Threads, ServeFromPool(t) PROVE TransitInv'
  <2> DEFINE used == Served(t) * RoundUp(n[t])
  <2>1. /\ used \in Nat \ {0} /\ used <= BytesLeft
        /\ BytesLeft \in Nat \ {0} /\ _S_start_free + BytesLeft = _S_end_free
        /\ _S_start_free \in 1 .. MemTop /\ _S_end_free <= MemTop + 1
    BY <1>5, ServedRest
  <2>2. /\ chunk' = [chunk EXCEPT ![t] = _S_start_free] /\ n' = n
        /\ nobjs' = [nobjs EXCEPT ![t] = Served(t)] /\ pc' = [pc EXCEPT ![t] = "link"]
    BY <1>5 DEF ServeFromPool, Served, Goto
  <2>3. /\ chunk'[t] = _S_start_free /\ nobjs'[t] * RoundUp(n'[t]) = used
    BY <2>2, <1>c
  <2> HIDE DEF used
  <2>4. chunk'[t] # 0 /\ chunk'[t] + nobjs'[t] * RoundUp(n'[t]) <= MemTop + 1
    <3>1. _S_start_free + used <= MemTop + 1 /\ _S_start_free # 0
      BY <2>1, Parameters
    <3>2. QED
      BY <2>3, <3>1
  <2>5. chunk' \in [Threads -> 0 .. MemTop]
    BY <2>1, <2>2, <1>c, Parameters
  <2>6. ASSUME NEW u \in Threads, u # t, pc'[u] = "link"
        PROVE  chunk'[u] # 0 /\ chunk'[u] + nobjs'[u] * RoundUp(n'[u]) <= MemTop + 1
    <3>1. /\ pc[u] = "link" /\ n'[u] = n[u] /\ nobjs'[u] = nobjs[u] /\ chunk'[u] = chunk[u]
      BY <2>2, <2>6, <1>c
    <3>2. chunk[u] # 0 /\ chunk[u] + nobjs[u] * RoundUp(n[u]) <= MemTop + 1
      BY <3>1, <1>c DEF TransitInv
    <3>3. QED
      BY <3>1, <3>2
  <2>7. QED
    BY <2>4, <2>5, <2>6 DEF TransitInv, RoundUp
<1>6. ASSUME NEW t \in Threads, UNCHANGED chunk, pc'[t] # "link",
             \A u \in Threads : u # t => pc'[u] = pc[u] /\ n'[u] = n[u] /\ nobjs'[u] = nobjs[u]
      PROVE  TransitInv'
  BY <1>1, <1>6, <1>c
<1>7. ASSUME NEW t \in Threads, NEW k \in Sizes, Allocate(t, k) PROVE TransitInv'
  BY <1>6, <1>7, <1>c DEF Allocate, Goto
<1>8. ASSUME NEW t \in Threads, NEW b \in Held, Deallocate(t, b) PROVE TransitInv'
  BY <1>6, <1>8, <1>c DEF Deallocate, Goto
<1>9. ASSUME NEW t \in Threads, NEW b \in Held, NEW k \in Sizes, ReallocateByCopy(t, b, k)
      PROVE  TransitInv'
  BY <1>6, <1>9, <1>c DEF ReallocateByCopy, Goto
<1>10. ASSUME NEW t \in Threads, NeedState(t) PROVE TransitInv'
  BY <1>6, <1>10, <1>c DEF NeedState, Goto, calls
<1>11. ASSUME NEW t \in Threads, GetState(t) PROVE TransitInv'
  BY <1>6, <1>11, <1>c DEF GetState, Purpose, Goto, calls
<1>12. ASSUME NEW t \in Threads, RefillEmptyList(t) PROVE TransitInv'
  BY <1>6, <1>12, <1>c DEF RefillEmptyList, Goto
<1>13. ASSUME NEW t \in Threads, PushNode(t) PROVE TransitInv'
  BY <1>6, <1>13, <1>c DEF PushNode, Goto
<1>14. ASSUME UNCHANGED << chunk, pc, n, nobjs >> PROVE TransitInv'
  BY <1>14, <1>c DEF TransitInv, RoundUp
<1>15. ASSUME NEW t \in Threads, ThreadExit(t) \/ GetChunk(t) PROVE TransitInv'
  BY <1>14, <1>15 DEF ThreadExit, GetChunk, calls
<1>16. ASSUME NEW t \in Threads, NEW b \in Held, NEW k \in Sizes, ReallocateInPlace(t, b, k)
       PROVE  TransitInv'
  BY <1>14, <1>16 DEF ReallocateInPlace, calls
<1>17. CASE UNCHANGED vars
  BY <1>14, <1>17 DEF vars, calls
<1>18. QED
  BY <1>3, <1>4, <1>5, <1>7, <1>8, <1>9, <1>10, <1>11, <1>12, <1>13, <1>15, <1>16, <1>17
     DEF Next, Call, Work

-----------------------------------------------------------------------------
(* What holds whatever fails                                               *)

(***************************************************************************)
(* Nothing is made, given or held at the start.                            *)
(***************************************************************************)
LEMMA BaseInit == Init => BaseInv
<1> SUFFICES ASSUME Init PROVE BaseInv
  OBVIOUS
<1>1. OwnersInv
  <2>1. /\ states = 0 /\ free_states = << >> /\ specific = [t \in Threads |-> NoState]
        /\ _S_key_initialized = FALSE
    BY DEF Init
  <2>2. StatesArePrivate
    BY <2>1 DEF StatesArePrivate, IsInjective
  <2>3. free_states \in Seq(1 .. states) /\ states \in 0 .. MaxStates
    BY <2>1, Parameters
  <2>4. specific \in [Threads -> (1 .. states) \union {NoState}]
    BY <2>1
  <2>5. QED
    BY <2>1, <2>2, <2>3, <2>4 DEF OwnersInv
<1>2. ControlInv
  BY Parameters DEF Init, ControlInv, Labels, Refilling
<1>3. OldInv
  BY DEF Init, OldInv
<1>4. ListsInv
  <2>1. << >> \in Seq(1 .. MemTop)
    OBVIOUS
  <2>2. __free_list \in [States -> [Indices -> Seq(1 .. MemTop)]]
    BY <2>1 DEF Init, EmptyLists
  <2>3. QED
    BY <2>2 DEF Init, ListsInv, Refilling
<1>5. PoolInv
  <2>1. _S_start_free = 0 /\ _S_end_free = 0
    BY DEF Init
  <2>2. BytesLeft = 0 * _S_ALIGN
    BY <2>1, Parameters DEF BytesLeft
  <2>3. QED
    BY <2>1, <2>2, Parameters DEF PoolInv, MultipleOf
<1>6. HeapInv
  <2>1. Covered(heap) = {} /\ heap = {} /\ _S_heap_size = 0
    BY DEF Covered, Init
  <2>2. QED
    BY <2>1, FS_EmptySet DEF HeapInv
<1>7. TransitInv
  BY Parameters DEF Init, TransitInv
<1>8. QED
  BY <1>1, <1>2, <1>3, <1>4, <1>5, <1>6, <1>7 DEF BaseInv

(***************************************************************************)
(* Whatever fails: pthread_key_create, `new', pthread_setspecific, malloc. *)
(***************************************************************************)
THEOREM BaseInvariant == Spec => []BaseInv
<1>1. BaseInv /\ [Next]_vars => BaseInv'
  <2> SUFFICES ASSUME BaseInv, [Next]_vars PROVE BaseInv'
    OBVIOUS
  <2>1. OwnersInv /\ ControlInv
    BY DEF BaseInv
  <2>2. QED
    BY <2>1, OwnersStep, ControlStep, OldStep, ListsStep, PoolStep, TransitStep DEF BaseInv
<1>2. QED
  BY BaseInit, <1>1, PTL DEF Spec

(***************************************************************************)
(* The states, the lists, the pool and the variables of the calls stay in  *)
(* their ranges; _S_heap_size never exceeds the memory there is.           *)
(***************************************************************************)
THEOREM TypeCorrect == Spec => []TypeOK
<1>1. ASSUME BaseInv PROVE TypeOK
  <2>1. OwnersInv /\ ControlInv /\ OldInv /\ ListsInv /\ PoolInv /\ HeapInv /\ TransitInv
    BY <1>1 DEF BaseInv
  <2>2. _S_heap_size \in 0 .. MemTop
    <3>1. Covered(heap) \subseteq 1 .. MemTop
      <4>1. ASSUME NEW c \in heap PROVE Extent(c) \subseteq 1 .. MemTop
        <5>1. c.addr \in 1 .. MemTop /\ c.size \in Nat \ {0} /\ c.addr + c.size <= MemTop + 1
          BY <2>1 DEF HeapInv, Chunk
        <5>2. QED
          BY <5>1, Parameters DEF Extent
      <4>2. QED
        BY <4>1 DEF Covered
    <3>2. IsFiniteSet(1 .. MemTop) /\ Cardinality(1 .. MemTop) = MemTop
      <4>1. 1 \in Int /\ MemTop \in Int /\ ~ (1 > MemTop)
        BY Parameters
      <4>2. Cardinality(1 .. MemTop) = MemTop - 1 + 1
        BY <4>1, FS_Interval, ZenonT(30)
      <4>3. QED
        BY <4>1, <4>2, FS_Interval
    <3>3. Cardinality(Covered(heap)) <= MemTop
      BY <3>1, <3>2, FS_Subset
    <3>4. Cardinality(Covered(heap)) \in Nat
      BY <2>1, FS_CardinalityType DEF HeapInv
    <3>5. QED
      BY <2>1, <3>3, <3>4, Parameters DEF HeapInv
  <2>3. \A t \in Threads : old[t] \subseteq live /\ Cardinality(old[t]) <= 1
    <3>1. SUFFICES ASSUME NEW t \in Threads PROVE Cardinality(old[t]) <= 1
      BY <2>1 DEF OldInv
    <3>2. CASE old[t] = {}
      BY <3>2, FS_EmptySet
    <3>3. CASE old[t] # {}
      <4>1. \A b, c \in old[t] : b = c
        BY <2>1 DEF OldInv
      <4>2. PICK b : old[t] = {b}
        BY <3>3, <4>1
      <4>3. Cardinality({b}) = 1
        BY FS_Singleton
      <4>4. QED
        BY <4>2, <4>3
    <3>4. QED
      BY <3>2, <3>3
  <2>4. __free_list \in [States -> [Indices -> Seq(1 .. MemTop)]]
    BY <2>1 DEF ListsInv
  <2>5. _S_start_free \in 0 .. (MemTop + 1) /\ _S_end_free \in _S_start_free .. (MemTop + 1)
    BY <2>1 DEF PoolInv
  <2>6. /\ pc \in [Threads -> Labels] /\ n \in [Threads -> Sizes \union {0}]
        /\ nobjs \in [Threads -> 0 .. NObjs]
    BY <2>1 DEF ControlInv, Small
  <2>7. \A b \in live : b.addr \in 1 .. MemTop /\ b.size \in Sizes
    BY <2>1 DEF OldInv, Blocks, Small
  <2>8. chunk \in [Threads -> 0 .. MemTop]
    BY <2>1 DEF TransitInv
  <2>9. /\ states \in 0 .. MaxStates /\ free_states \in Seq(1 .. states)
        /\ specific \in [Threads -> (1 .. states) \union {NoState}]
        /\ _S_key_initialized \in BOOLEAN
    BY <2>1 DEF OwnersInv
  <2>10. QED
    BY <2>2, <2>3, <2>4, <2>5, <2>6, <2>7, <2>8, <2>9 DEF TypeOK, Labels
<1>2. QED
  BY BaseInvariant, <1>1, PTL

(***************************************************************************)
(* The lists of a state are used without a lock because one thread at most *)
(* has the state, however threads start, exit and fail.                    *)
(***************************************************************************)
THEOREM StatesPrivate == Spec => []StatesArePrivate
<1>1. BaseInv => StatesArePrivate
  BY DEF BaseInv, OwnersInv
<1>2. QED
  BY BaseInvariant, <1>1, PTL

-----------------------------------------------------------------------------
(* Places, and how steps change them                                       *)

(***************************************************************************)
(* What places are called, and where they are.                             *)
(***************************************************************************)
LEMMA PlaceNames ==
  /\ \A s, i, a : /\ FreePlace(s, i, a).kind = "free" /\ FreePlace(s, i, a).who = s
                  /\ FreePlace(s, i, a).asked = i
                  /\ FreePlace(s, i, a).addr = a /\ FreePlace(s, i, a).size = NodeSize(i)
  /\ \A a, k : /\ PoolPlace(a, k).kind = "pool"
               /\ PoolPlace(a, k).addr = a /\ PoolPlace(a, k).size = k
  /\ \A t, a, k : /\ TransitPlace(t, a, k).kind = "transit" /\ TransitPlace(t, a, k).who = t
                  /\ TransitPlace(t, a, k).addr = a /\ TransitPlace(t, a, k).size = k
  /\ \A b : /\ ClientPlace(b).kind = "client" /\ ClientPlace(b).asked = b.size
            /\ ClientPlace(b).addr = b.addr /\ ClientPlace(b).size = RoundUp(b.size)
BY DEF FreePlace, PoolPlace, TransitPlace, ClientPlace, Place

(***************************************************************************)
(* Each kind of place is a set of its own.                                 *)
(***************************************************************************)
LEMMA PlaceKinds ==
  /\ \A q \in FreePlaces : q.kind = "free"
  /\ \A q \in PoolPlaces : q.kind = "pool"
  /\ \A q \in TransitPlaces : q.kind = "transit"
  /\ \A q \in ClientPlaces : q.kind = "client"
<1>1. \A q \in FreePlaces : q.kind = "free"
  BY PlaceNames DEF FreePlaces, PlacesOf, PlacesOn
<1>2. \A q \in PoolPlaces : q.kind = "pool"
  BY PlaceNames DEF PoolPlaces
<1>3. \A q \in TransitPlaces : q.kind = "transit"
  BY PlaceNames DEF TransitPlaces, Transit
<1>4. \A q \in ClientPlaces : q.kind = "client"
  BY PlaceNames DEF ClientPlaces
<1>5. QED
  BY <1>1, <1>2, <1>3, <1>4

(***************************************************************************)
(* The free places are the nodes on the lists of all states.               *)
(***************************************************************************)
IsFree(q, f) ==
    \E r \in States : \E j \in Indices : \E a \in Range(f[r][j]) : q = FreePlace(r, j, a)

\* The free places, before and after a step, by state, list and address.
LEMMA FreeAre ==
  /\ \A q : q \in FreePlaces <=> IsFree(q, __free_list)
  /\ \A q : q \in FreePlaces' <=> IsFree(q, __free_list')
<1>1. \A q : q \in FreePlaces <=> IsFree(q, __free_list)
  BY DEF FreePlaces, PlacesOf, PlacesOn, IsFree
<1>2. \A q : q \in FreePlaces' <=> IsFree(q, __free_list')
  BY DEF FreePlaces, PlacesOf, PlacesOn, IsFree
<1>3. QED
  BY <1>1, <1>2

(***************************************************************************)
(* One list changes: the places on all others stay.                        *)
(***************************************************************************)
LEMMA FreeChange ==
  ASSUME NEW s \in States, NEW i \in Indices, NEW l, OneListChanges(s, i, l)
  PROVE  /\ \A q : q.who # s \/ q.asked # i => (q \in FreePlaces' <=> q \in FreePlaces)
         /\ \A a : FreePlace(s, i, a) \in FreePlaces <=> a \in Range(__free_list[s][i])
         /\ \A a : FreePlace(s, i, a) \in FreePlaces' <=> a \in Range(l)
         /\ \A q \in FreePlaces : q.who = s /\ q.asked = i => q = FreePlace(s, i, q.addr)
         /\ \A q \in FreePlaces' : q.who = s /\ q.asked = i => q = FreePlace(s, i, q.addr)
<1>1. /\ __free_list'[s][i] = l
      /\ \A r \in States : \A j \in Indices :
           r # s \/ j # i => __free_list'[r][j] = __free_list[r][j]
  BY DEF OneListChanges
<1>2. ASSUME NEW q, q.who # s \/ q.asked # i PROVE q \in FreePlaces' <=> q \in FreePlaces
  <2>1. IsFree(q, __free_list) => IsFree(q, __free_list')
    BY <1>1, <1>2, PlaceNames DEF IsFree
  <2>2. IsFree(q, __free_list') => IsFree(q, __free_list)
    BY <1>1, <1>2, PlaceNames DEF IsFree
  <2>3. QED
    BY <2>1, <2>2, FreeAre
<1>3. ASSUME NEW a PROVE FreePlace(s, i, a) \in FreePlaces <=> a \in Range(__free_list[s][i])
  BY FreeAre, PlaceNames DEF IsFree
<1>4. ASSUME NEW a PROVE FreePlace(s, i, a) \in FreePlaces' <=> a \in Range(l)
  BY <1>1, FreeAre, PlaceNames DEF IsFree
<1>5. ASSUME NEW q \in FreePlaces, q.who = s, q.asked = i PROVE q = FreePlace(s, i, q.addr)
  BY <1>5, FreeAre, PlaceNames DEF IsFree
<1>6. ASSUME NEW q \in FreePlaces', q.who = s, q.asked = i PROVE q = FreePlace(s, i, q.addr)
  BY <1>6, FreeAre, PlaceNames DEF IsFree
<1>7. QED
  BY <1>2, <1>3, <1>4, <1>5, <1>6

(***************************************************************************)
(* No list gets an address twice when the one that changes does not.       *)
(***************************************************************************)
NoneTwice == \A s \in States : \A i \in Indices : IsInjective(__free_list[s][i])

\* A list that is replaced by one without repetitions keeps NoneTwice.
LEMMA NoneTwiceChange ==
  ASSUME NoneTwice, NEW s \in States, NEW i \in Indices, NEW l, OneListChanges(s, i, l),
         IsInjective(l)
  PROVE  NoneTwice'
<1>1. /\ __free_list'[s][i] = l
      /\ \A j \in Indices : j # i => __free_list'[s][j] = __free_list[s][j]
      /\ \A r \in States : r # s => __free_list'[r] = __free_list[r]
  BY DEF OneListChanges
<1>2. ASSUME NEW r \in States, NEW j \in Indices PROVE IsInjective(__free_list'[r][j])
  <2>1. CASE r = s /\ j = i
    BY <1>1, <2>1
  <2>2. CASE r # s \/ j # i
    <3>1. __free_list'[r][j] = __free_list[r][j]
      BY <1>1, <2>2
    <3>2. QED
      BY <3>1 DEF NoneTwice
  <2>3. QED
    BY <2>1, <2>2
<1>3. QED
  BY <1>2 DEF NoneTwice

(***************************************************************************)
(* The head of a list is popped: its place is no longer a free one.        *)
(***************************************************************************)
LEMMA Popped ==
  ASSUME ListsInv, NoneTwice, NEW s \in States, NEW i \in Indices, __free_list[s][i] # << >>,
         OneListChanges(s, i, Tail(__free_list[s][i]))
  PROVE  /\ NoneTwice'
         /\ FreePlace(s, i, Head(__free_list[s][i])) \in FreePlaces
         /\ FreePlaces' = FreePlaces \ {FreePlace(s, i, Head(__free_list[s][i]))}
<1> DEFINE l == __free_list[s][i]
           p == FreePlace(s, i, Head(l))
<1>1. l \in Seq(1 .. MemTop) /\ IsInjective(l) /\ l # << >>
  BY DEF ListsInv, NoneTwice
<1>2. /\ Head(l) \in Range(l)
      /\ IsInjective(Tail(l)) /\ Range(Tail(l)) = Range(l) \ {Head(l)}
  <2> HIDE DEF l
  <2>1. QED
    BY <1>1, PopFront
<1>3. OneListChanges(s, i, Tail(l))
  OBVIOUS
<1>4. NoneTwice'
  BY <1>2, <1>3, NoneTwiceChange
<1>5. /\ \A q : q.who # s \/ q.asked # i => (q \in FreePlaces' <=> q \in FreePlaces)
      /\ \A a : FreePlace(s, i, a) \in FreePlaces <=> a \in Range(l)
      /\ \A a : FreePlace(s, i, a) \in FreePlaces' <=> a \in Range(Tail(l))
      /\ \A q \in FreePlaces : q.who = s /\ q.asked = i => q = FreePlace(s, i, q.addr)
      /\ \A q \in FreePlaces' : q.who = s /\ q.asked = i => q = FreePlace(s, i, q.addr)
  BY <1>3, FreeChange
<1> HIDE DEF l
<1>6. p \in FreePlaces /\ p.who = s /\ p.asked = i /\ p.addr = Head(l)
  BY <1>2, <1>5, PlaceNames
<1>7. ASSUME NEW q PROVE q \in FreePlaces' <=> q \in FreePlaces /\ q # p
  <2>1. CASE q.who # s \/ q.asked # i
    BY <2>1, <1>5, <1>6
  <2>2. CASE q = FreePlace(s, i, q.addr)
    <3>1. q # p <=> q.addr # Head(l)
      BY <2>2, <1>6
    <3>2. QED
      BY <2>2, <3>1, <1>2, <1>5
  <2>3. CASE q.who = s /\ q.asked = i /\ q # FreePlace(s, i, q.addr)
    BY <2>3, <1>5
  <2>4. QED
    BY <2>1, <2>2, <2>3
<1>8. FreePlaces' = FreePlaces \ {p}
  BY <1>7
<1>9. QED
  BY <1>4, <1>6, <1>8 DEF l

(***************************************************************************)
(* A node is pushed on a list that does not have it.                       *)
(***************************************************************************)
LEMMA Pushed ==
  ASSUME ListsInv, NoneTwice, NEW s \in States, NEW i \in Indices, NEW a \in 1 .. MemTop,
         a \notin Range(__free_list[s][i]), OneListChanges(s, i, << a >> \o __free_list[s][i])
  PROVE  NoneTwice' /\ FreePlaces' = FreePlaces \union {FreePlace(s, i, a)}
<1> DEFINE l == __free_list[s][i]
           r == << a >> \o l
           p == FreePlace(s, i, a)
<1>1. l \in Seq(1 .. MemTop) /\ IsInjective(l)
  BY DEF ListsInv, NoneTwice
<1>2. IsInjective(r) /\ Range(r) = Range(l) \union {a}
  <2> HIDE DEF l
  <2>1. QED
    BY <1>1, PushFront DEF l
<1>3. OneListChanges(s, i, r)
  OBVIOUS
<1> HIDE DEF r
<1>4. NoneTwice'
  BY <1>2, <1>3, NoneTwiceChange
<1>5. /\ \A q : q.who # s \/ q.asked # i => (q \in FreePlaces' <=> q \in FreePlaces)
      /\ \A b : FreePlace(s, i, b) \in FreePlaces <=> b \in Range(l)
      /\ \A b : FreePlace(s, i, b) \in FreePlaces' <=> b \in Range(r)
      /\ \A q \in FreePlaces : q.who = s /\ q.asked = i => q = FreePlace(s, i, q.addr)
      /\ \A q \in FreePlaces' : q.who = s /\ q.asked = i => q = FreePlace(s, i, q.addr)
  BY <1>3, FreeChange
<1> HIDE DEF l
<1>6. p \in FreePlaces' /\ p.who = s /\ p.asked = i /\ p.addr = a
  BY <1>2, <1>5, PlaceNames
<1>7. ASSUME NEW q PROVE q \in FreePlaces' <=> q \in FreePlaces \/ q = p
  <2>1. CASE q.who # s \/ q.asked # i
    BY <2>1, <1>5, <1>6
  <2>2. CASE q = FreePlace(s, i, q.addr)
    <3>1. q = p <=> q.addr = a
      BY <2>2, <1>6
    <3>2. QED
      BY <2>2, <3>1, <1>2, <1>5
  <2>3. CASE q.who = s /\ q.asked = i /\ q # FreePlace(s, i, q.addr)
    BY <2>3, <1>5, <1>6
  <2>4. QED
    BY <2>1, <2>2, <2>3
<1>8. QED
  BY <1>4, <1>7

(***************************************************************************)
(* An empty list gets the nodes that _M_refill links.                      *)
(***************************************************************************)
LEMMA Linked ==
  ASSUME NoneTwice, NEW s \in States, NEW i \in Indices, __free_list[s][i] = << >>,
         NEW l, IsInjective(l), OneListChanges(s, i, l)
  PROVE  /\ NoneTwice'
         /\ \A q : q \in FreePlaces' <=> \/ q \in FreePlaces
                                       \/ \E j \in DOMAIN l : q = FreePlace(s, i, l[j])
<1>1. NoneTwice'
  BY NoneTwiceChange
<1>2. /\ \A q : q.who # s \/ q.asked # i => (q \in FreePlaces' <=> q \in FreePlaces)
      /\ \A b : FreePlace(s, i, b) \in FreePlaces <=> b \in Range(__free_list[s][i])
      /\ \A b : FreePlace(s, i, b) \in FreePlaces' <=> b \in Range(l)
      /\ \A q \in FreePlaces : q.who = s /\ q.asked = i => q = FreePlace(s, i, q.addr)
      /\ \A q \in FreePlaces' : q.who = s /\ q.asked = i => q = FreePlace(s, i, q.addr)
  BY FreeChange
<1>3. \A b : b \notin Range(__free_list[s][i])
  BY NoNodes
<1>4. \A b : b \in Range(l) <=> \E j \in DOMAIN l : b = l[j]
  BY DEF Range
<1>5. ASSUME NEW q
      PROVE  q \in FreePlaces' <=> \/ q \in FreePlaces
                                   \/ \E j \in DOMAIN l : q = FreePlace(s, i, l[j])
  <2>1. CASE q.who # s \/ q.asked # i
    BY <2>1, <1>2, PlaceNames
  <2>2. CASE q = FreePlace(s, i, q.addr)
    <3>1. (\E j \in DOMAIN l : q = FreePlace(s, i, l[j])) <=> \E j \in DOMAIN l : q.addr = l[j]
      BY <2>2, PlaceNames
    <3>2. QED
      BY <2>2, <3>1, <1>2, <1>3, <1>4
  <2>3. CASE q.who = s /\ q.asked = i /\ q # FreePlace(s, i, q.addr)
    BY <2>3, <1>2, PlaceNames
  <2>4. QED
    BY <2>1, <2>2, <2>3
<1>6. QED
  BY <1>1, <1>5

(***************************************************************************)
(* One thread's variables change: the pieces that others link stay.        *)
(***************************************************************************)
OthersStay(t) ==
    \A u \in Threads : u # t => /\ pc'[u] = pc[u] /\ n'[u] = n[u]
                                /\ nobjs'[u] = nobjs[u] /\ chunk'[u] = chunk[u]

\* What is being linked changes only by what the thread t links.
LEMMA TransitChange ==
  ASSUME NEW t \in Threads, OthersStay(t)
  PROVE  \A q : q \in TransitPlaces' <=>
           \/ q \in TransitPlaces /\ q.who # t
           \/ pc'[t] = "link" /\ q = TransitPlace(t, chunk'[t], nobjs'[t] * RoundUp(n'[t]))
<1>1. \A q : q \in TransitPlaces <=>
        \E u \in Threads : pc[u] = "link" /\ q = TransitPlace(u, chunk[u], nobjs[u] * RoundUp(n[u]))
  BY DEF TransitPlaces, Transit
<1>2. \A q : q \in TransitPlaces' <=>
        \E u \in Threads : /\ pc'[u] = "link"
                           /\ q = TransitPlace(u, chunk'[u], nobjs'[u] * RoundUp(n'[u]))
  BY DEF TransitPlaces, Transit, RoundUp
<1>3. \A u \in Threads : u # t =>
        /\ pc'[u] = pc[u]
        /\ TransitPlace(u, chunk'[u], nobjs'[u] * RoundUp(n'[u]))
             = TransitPlace(u, chunk[u], nobjs[u] * RoundUp(n[u]))
  BY DEF OthersStay
<1>4. \A u, a, k : TransitPlace(u, a, k).who = u
  BY PlaceNames
<1>5. QED
  BY <1>1, <1>2, <1>3, <1>4

(***************************************************************************)
(* A thread that links nothing, before and after.                          *)
(***************************************************************************)
LEMMA SameTransit ==
  ASSUME NEW t \in Threads, OthersStay(t), pc[t] # "link", pc'[t] # "link"
  PROVE  TransitPlaces' = TransitPlaces
<1>1. \A q \in TransitPlaces : q.who # t
  BY PlaceNames DEF TransitPlaces, Transit
<1>2. QED
  BY <1>1, TransitChange

(***************************************************************************)
(* An address that belongs to a client, to the pool or to nodes that are   *)
(* being linked is on no list of any state.                                *)
(***************************************************************************)
LEMMA NotFree ==
  ASSUME SpaceInv, NEW p \in Places, p.kind # "free", NEW s \in States, NEW i \in Indices
  PROVE  p.addr \notin Range(__free_list[s][i])
<1> DEFINE q == FreePlace(s, i, p.addr)
<1> SUFFICES ASSUME p.addr \in Range(__free_list[s][i]) PROVE FALSE
  OBVIOUS
<1>1. q \in Places
  BY FreeAre DEF IsFree, Places
<1>2. q.kind = "free" /\ q.addr = p.addr
  BY PlaceNames
<1>3. Disjoint(p, q) /\ IsExtent(p) /\ IsExtent(q)
  BY <1>1, <1>2 DEF SpaceInv, Tiles
<1>4. QED
  BY <1>2, <1>3 DEF Disjoint, IsExtent

(***************************************************************************)
(* Two blocks of clients have two places.                                  *)
(***************************************************************************)
LEMMA OnePlaceEach ==
  ASSUME OldInv, NEW b \in live, NEW c \in live, ClientPlace(b) = ClientPlace(c)
  PROVE  b = c
<1>1. b \in Blocks /\ c \in Blocks
  BY DEF OldInv
<1>2. b.addr = c.addr /\ b.size = c.size
  BY PlaceNames
<1>3. QED
  BY <1>1, <1>2 DEF Blocks

-----------------------------------------------------------------------------
(* Who owns the bytes                                                      *)

(***************************************************************************)
(* The steps that change no list, pool, block or piece being linked.       *)
(***************************************************************************)
LEMMA SameSpace ==
  ASSUME SpaceInv, UNCHANGED << __free_list, pool, heap, live >>, TransitPlaces' = TransitPlaces
  PROVE  SpaceInv'
<1>1. /\ _S_start_free' = _S_start_free /\ BytesLeft' = BytesLeft
  BY DEF pool, BytesLeft
<1>2. FreePlaces' = FreePlaces
  BY FreeAre
<1>3. ClientPlaces' = ClientPlaces /\ PoolPlaces' = PoolPlaces
  BY <1>1 DEF ClientPlaces, PoolPlaces
<1>4. Places' = Places
  BY <1>2, <1>3 DEF Places
<1>5. QED
  BY <1>4 DEF SpaceInv

(***************************************************************************)
(* Free list to client: the head of the list is popped.                    *)
(***************************************************************************)
LEMMA PopSpace ==
  ASSUME IInv, NEW t \in Threads, PopNode(t)
  PROVE  SpaceInv'
<1> DEFINE s == specific[t]
           i == FreelistIndex(n[t])
           a == Head(__free_list[s][i])
           b == Block(a, n[t])
           p == FreePlace(s, i, a)
           q == ClientPlace(b)
<1>1. BaseInv /\ SpaceInv /\ ControlInv /\ ListsInv /\ NoneTwice
  BY DEF IInv, BaseInv, SpaceInv, NoneTwice
<1>2. s \in States /\ i \in Indices /\ OneListChanges(s, i, Tail(__free_list[s][i]))
  BY <1>1, PopChange
<1>3. /\ __free_list[s][i] # << >> /\ live' = live \union {b} /\ UNCHANGED << pool, heap >>
      /\ pc[t] # "link" /\ pc'[t] # "link" /\ OthersStay(t) /\ n[t] # 0
  BY <1>1 DEF PopNode, Return, EndCall, Goto, ControlInv, OthersStay
<1>4. NodeSize(i) = RoundUp(n[t])
  BY <1>1, <1>3, RefillSizes
<1>5. b.addr = a /\ b.size = n[t]
  BY DEF Block
<1> HIDE DEF s, i
<1>6. NoneTwice' /\ p \in FreePlaces /\ FreePlaces' = FreePlaces \ {p}
  BY <1>1, <1>2, <1>3, Popped
<1> HIDE DEF a, b
<1>7. TransitPlaces' = TransitPlaces
  BY <1>3, SameTransit
<1>8. ClientPlaces' = ClientPlaces \union {q}
  BY <1>3 DEF ClientPlaces
<1>9. PoolPlaces' = PoolPlaces
  BY <1>3 DEF pool, BytesLeft, PoolPlaces
<1>10. p.kind = "free" /\ p.addr = q.addr /\ p.size = q.size
  BY <1>4, <1>5, PlaceNames
<1>11. p \notin PoolPlaces \union TransitPlaces \union ClientPlaces
  BY <1>10, PlaceKinds
<1> HIDE DEF p, q
<1>12. Places' = (Places \ {p}) \union {q} /\ p \in Places
  BY <1>6, <1>7, <1>8, <1>9, <1>11 DEF Places
<1>13. Tiles(Places', heap')
  BY <1>1, <1>3, <1>10, <1>12, Relabel DEF SpaceInv
<1>14. QED
  BY <1>6, <1>13 DEF SpaceInv, NoneTwice

(***************************************************************************)
(* Client to free list: the node goes on a list of the thread that gives   *)
(* it back, whoever it was allocated by.                                   *)
(***************************************************************************)
LEMMA PushSpace ==
  ASSUME IInv, NEW t \in Threads, PushNode(t)
  PROVE  SpaceInv'
<1>1. BaseInv /\ SpaceInv /\ ControlInv /\ ListsInv /\ NoneTwice /\ OldInv
  BY DEF IInv, BaseInv, SpaceInv, NoneTwice
<1> DEFINE s == specific[t]
<1>2. PICK b \in old[t] :
        /\ b \in live /\ live' = live \ {b}
        /\ s \in States /\ FreelistIndex(b.size) \in Indices
        /\ OneListChanges(s, FreelistIndex(b.size),
                          << b.addr >> \o __free_list[s][FreelistIndex(b.size)])
  BY <1>1, PushChange
<1> DEFINE i == FreelistIndex(b.size)
           p == ClientPlace(b)
           q == FreePlace(s, i, b.addr)
<1>3. /\ UNCHANGED << pool, heap >> /\ pc[t] # "link" /\ pc'[t] # "link" /\ OthersStay(t)
  BY <1>1 DEF PushNode, Goto, ControlInv, OthersStay
<1>4. b.addr \in 1 .. MemTop /\ NodeSize(i) = RoundUp(b.size)
  <2>1. b.addr \in 1 .. MemTop /\ b.size \in Nat \ {0} /\ ~ Large(b.size)
    BY <1>1, <1>2, Parameters DEF OldInv, Blocks, Small
  <2>2. QED
    BY <2>1, SmallSizes
<1>5. i \in Indices /\ OneListChanges(s, i, << b.addr >> \o __free_list[s][i])
  BY <1>2
<1> HIDE DEF s, i
<1>6. p \in ClientPlaces /\ p \in Places
  BY <1>2 DEF ClientPlaces, Places
<1>7. p.kind = "client" /\ p.addr = b.addr /\ q.addr = p.addr /\ q.size = p.size
  BY <1>4, PlaceNames
<1>8. b.addr \notin Range(__free_list[s][i])
  BY <1>1, <1>2, <1>5, <1>6, <1>7, NotFree
<1>9. NoneTwice' /\ FreePlaces' = FreePlaces \union {q}
  BY <1>1, <1>2, <1>4, <1>5, <1>8, Pushed
<1>10. ClientPlaces' = ClientPlaces \ {p}
  <2>1. \A c \in live : ClientPlace(c) = p => c = b
    BY <1>1, <1>2, OnePlaceEach
  <2> HIDE DEF p
  <2>2. QED
    BY <1>2, <2>1 DEF ClientPlaces, p
<1>11. TransitPlaces' = TransitPlaces
  BY <1>3, SameTransit
<1>12. PoolPlaces' = PoolPlaces
  BY <1>3 DEF pool, BytesLeft, PoolPlaces
<1>13. p \notin FreePlaces \union PoolPlaces \union TransitPlaces
  BY <1>7, PlaceKinds
<1> HIDE DEF p, q
<1>14. Places' = (Places \ {p}) \union {q}
  BY <1>9, <1>10, <1>11, <1>12, <1>13 DEF Places
<1>15. Tiles(Places', heap')
  BY <1>1, <1>3, <1>6, <1>7, <1>14, Relabel DEF SpaceInv
<1>16. QED
  BY <1>9, <1>15 DEF SpaceInv, NoneTwice

(***************************************************************************)
(* The nodes of _M_refill: the client gets the first, the list the others. *)
(***************************************************************************)
LEMMA LinkSpace ==
  ASSUME IInv, NEW t \in Threads, LinkNodes(t)
  PROVE  SpaceInv'
<1> DEFINE s == specific[t]
           i == FreelistIndex(n[t])
           size == RoundUp(n[t])
           k == nobjs[t]
           c == chunk[t]
           b == Block(c, n[t])
           p == TransitPlace(t, c, k * size)
           f == [j \in 0 .. k - 1 |-> IF j = 0 THEN ClientPlace(b)
                                     ELSE FreePlace(s, i, c + j * size)]
           L(q) == \E j \in 1 .. k - 1 : q = FreePlace(s, i, c + j * size)
<1>1. BaseInv /\ SpaceInv /\ ControlInv /\ ListsInv /\ NoneTwice
  BY DEF IInv, BaseInv, SpaceInv, NoneTwice
<1>2. /\ pc[t] = "link" /\ live' = live \union {b} /\ UNCHANGED << pool, heap >>
      /\ pc'[t] # "link" /\ OthersStay(t) /\ n[t] # 0
  BY <1>1 DEF LinkNodes, Return, EndCall, Goto, ControlInv, OthersStay, Refilling
<1>3. /\ s \in States /\ i \in Indices /\ c \in 1 .. MemTop /\ k \in Nat \ {0}
      /\ __free_list[s][i] = << >>
      /\ IF k = 1 THEN __free_list' = __free_list
         ELSE LET l == [j \in 1 .. k - 1 |-> c + j * size]
              IN  IsInjective(l) /\ OneListChanges(s, i, l)
  BY <1>1, LinkChange
<1>4. NodeSize(i) = size /\ size \in Nat \ {0}
  BY <1>1, <1>2, RefillSizes
<1>5. b.addr = c /\ b.size = n[t] /\ RoundUp(n[t]) = size
  BY DEF Block
<1>6. p \in TransitPlaces /\ p \in Places
  BY <1>2 DEF TransitPlaces, Transit, Places
<1>7. \A q : q \in TransitPlaces' <=> q \in TransitPlaces /\ q # p
  <2>1. \A q : q \in TransitPlaces' <=> q \in TransitPlaces /\ q.who # t
    BY <1>2, TransitChange
  <2>2. \A q \in TransitPlaces : q.who = t => q = p
    BY PlaceNames DEF TransitPlaces, Transit
  <2>3. p.who = t
    BY PlaceNames
  <2> HIDE DEF p
  <2>4. QED
    BY <2>1, <2>2, <2>3
<1>8. p.kind = "transit" /\ p.addr = c /\ p.size = k * size
  BY PlaceNames
<1> HIDE DEF s, i, size, k, c, b
<1>9. NoneTwice' /\ \A q : q \in FreePlaces' <=> q \in FreePlaces \/ L(q)
  <2>1. CASE k = 1
    <3>1. __free_list' = __free_list
      BY <1>3, <2>1
    <3>2. FreePlaces' = FreePlaces /\ NoneTwice'
      BY <3>1, <1>1, FreeAre DEF NoneTwice
    <3>3. QED
      BY <3>2, <2>1
  <2>2. CASE k # 1
    <3> DEFINE l == [j \in 1 .. k - 1 |-> c + j * size]
    <3>1. IsInjective(l) /\ OneListChanges(s, i, l)
      BY <1>3, <2>2
    <3>2. DOMAIN l = 1 .. k - 1 /\ \A j \in 1 .. k - 1 : l[j] = c + j * size
      OBVIOUS
    <3> HIDE DEF l
    <3>3. /\ NoneTwice'
          /\ \A q : q \in FreePlaces' <=> \/ q \in FreePlaces
                                        \/ \E j \in DOMAIN l : q = FreePlace(s, i, l[j])
      BY <1>1, <1>3, <3>1, Linked
    <3>4. QED
      BY <3>2, <3>3
  <2>3. QED
    BY <2>1, <2>2
<1>10. ClientPlaces' = ClientPlaces \union {ClientPlace(b)}
  BY <1>2 DEF ClientPlaces
<1>11. PoolPlaces' = PoolPlaces
  BY <1>2 DEF pool, BytesLeft, PoolPlaces
<1>12. \A q : (\E j \in 0 .. k - 1 : q = f[j]) <=> q = ClientPlace(b) \/ L(q)
  <2>1. \A j : j \in 0 .. k - 1 <=> j = 0 \/ j \in 1 .. k - 1
    BY <1>3
  <2>2. f[0] = ClientPlace(b) /\ \A j \in 1 .. k - 1 : f[j] = FreePlace(s, i, c + j * size)
    BY <1>3
  <2> HIDE DEF f
  <2>3. \A q : (\E j \in 0 .. k - 1 : q = f[j]) <=> q = f[0] \/ \E j \in 1 .. k - 1 : q = f[j]
    BY <2>1
  <2>4. QED
    BY <2>2, <2>3
<1>13. \A j \in 0 .. k - 1 : f[j].addr = p.addr + j * size /\ f[j].size = size
  <2>1. ClientPlace(b).addr = c + 0 * size /\ ClientPlace(b).size = size
    BY <1>3, <1>4, <1>5, PlaceNames
  <2>2. \A a : FreePlace(s, i, a).addr = a /\ FreePlace(s, i, a).size = size
    BY <1>4, PlaceNames
  <2>3. QED
    BY <2>1, <2>2, <1>8
<1>14. p \notin PoolPlaces \union FreePlaces \union ClientPlaces
  BY <1>8, PlaceKinds
<1> HIDE DEF p, f, L
<1>15. ASSUME NEW q
       PROVE  q \in Places' <=> q \in Places \ {p} \/ \E j \in 0 .. k - 1 : q = f[j]
  <2> DEFINE F == \E j \in 0 .. k - 1 : q = f[j]
  <2>1. q \in FreePlaces' <=> q \in FreePlaces \/ L(q)
    BY <1>9
  <2>2. F <=> q = ClientPlace(b) \/ L(q)
    BY <1>12
  <2>3. q \in TransitPlaces' <=> q \in TransitPlaces /\ q # p
    BY <1>7
  <2> HIDE DEF F
  <2>4. q \in Places' <=> q \in Places \ {p} \/ F
    BY <2>1, <2>2, <2>3, <1>10, <1>11, <1>14 DEF Places
  <2>5. QED
    BY <2>4 DEF F
<1>16. Tiles(Places', heap')
  <2> DEFINE Q == Places'
  <2>1. Tiles(Places, heap) /\ heap' = heap
    BY <1>1, <1>2 DEF SpaceInv
  <2>2. \A q : q \in Q <=> q \in Places \ {p} \/ \E j \in 0 .. k - 1 : q = f[j]
    BY <1>15
  <2> HIDE DEF Q
  <2>3. CutsUp(Places, p, k, size, f, Q)
    BY <1>3, <1>4, <1>8, <1>13, <2>2 DEF CutsUp
  <2>4. Tiles(Q, heap)
    BY <1>6, <2>1, <2>3, CutRun
  <2>5. QED
    BY <2>1, <2>4 DEF Q
<1>17. QED
  BY <1>9, <1>16 DEF SpaceInv, NoneTwice

(***************************************************************************)
(* The pool gives a thread the nodes it asked for, or what it has.         *)
(***************************************************************************)
LEMMA ServeSpace ==
  ASSUME IInv, NEW t \in Threads, ServeFromPool(t)
  PROVE  SpaceInv'
<1> DEFINE used == Served(t) * RoundUp(n[t])
           rest == BytesLeft - used
           p == PoolPlace(_S_start_free, BytesLeft)
           q == TransitPlace(t, _S_start_free, used)
           r == PoolPlace(_S_start_free + used, rest)
<1>1. BaseInv /\ SpaceInv /\ ControlInv /\ TransitInv /\ NoneTwice
  BY DEF IInv, BaseInv, SpaceInv, NoneTwice
<1>2. /\ pc[t] = "refill" /\ pc'[t] = "link" /\ OthersStay(t)
      /\ nobjs'[t] = Served(t) /\ n' = n /\ chunk'[t] = _S_start_free
      /\ UNCHANGED << __free_list, heap, live >>
  BY <1>1 DEF ServeFromPool, Goto, ControlInv, TransitInv, Served, OthersStay
<1>3. /\ used \in Nat \ {0} /\ used <= BytesLeft
      /\ BytesLeft \in Nat \ {0} /\ _S_start_free + BytesLeft = _S_end_free
      /\ _S_start_free \in 1 .. MemTop
      /\ _S_start_free' = _S_start_free + used
      /\ BytesLeft' = rest
  BY <1>1, ServedRest
<1>4. nobjs'[t] * RoundUp(n'[t]) = used
  BY <1>2
<1> HIDE DEF used
<1>5. rest \in Nat
  BY <1>3
<1>6. PoolPlaces = {p}
  BY <1>3 DEF PoolPlaces
<1>7. PoolPlaces' = IF rest = 0 THEN {} ELSE {r}
  <2>1. rest > 0 <=> rest # 0
    BY <1>5
  <2>2. QED
    BY <2>1, <1>3 DEF PoolPlaces
<1>8. TransitPlaces' = TransitPlaces \union {q}
  <2>1. \A x : x \in TransitPlaces' <=> (x \in TransitPlaces /\ x.who # t) \/ x = q
    BY <1>2, <1>4, TransitChange
  <2>2. \A x \in TransitPlaces : x.who # t
    BY <1>2, PlaceNames DEF TransitPlaces, Transit
  <2> HIDE DEF q
  <2>3. QED
    BY <2>1, <2>2
<1>9. FreePlaces' = FreePlaces /\ NoneTwice'
  BY <1>1, <1>2, FreeAre DEF NoneTwice
<1>10. ClientPlaces' = ClientPlaces
  BY <1>2 DEF ClientPlaces
<1>11. /\ p.kind = "pool" /\ p.addr = _S_start_free /\ p.size = BytesLeft
       /\ q.addr = _S_start_free /\ q.size = used
       /\ r.addr = _S_start_free + used /\ r.size = rest
  BY PlaceNames
<1>12. p \notin FreePlaces \union TransitPlaces \union ClientPlaces /\ p \in Places
  BY <1>6, <1>11, PlaceKinds DEF Places
<1>13. Tiles(Places', heap')
  <2>1. CASE rest = 0
    <3>1. p.size = q.size
      BY <2>1, <1>3, <1>11
    <3> HIDE DEF p, q
    <3>2. Places' = (Places \ {p}) \union {q}
      BY <2>1, <1>6, <1>7, <1>8, <1>9, <1>10, <1>12 DEF Places
    <3>3. QED
      BY <3>1, <3>2, <1>1, <1>2, <1>11, <1>12, Relabel DEF SpaceInv
  <2>2. CASE rest # 0
    <3>1. IsExtent(q) /\ IsExtent(r) /\ r.addr = q.addr + q.size /\ q.size + r.size = p.size
      BY <2>2, <1>3, <1>5, <1>11 DEF IsExtent
    <3> HIDE DEF p, q, r
    <3>2. Places' = (Places \ {p}) \union {q, r}
      BY <2>2, <1>6, <1>7, <1>8, <1>9, <1>10, <1>12 DEF Places
    <3>3. q.addr = p.addr
      BY <1>11
    <3>4. QED
      BY <3>1, <3>2, <3>3, <1>1, <1>2, <1>12, Split DEF SpaceInv
  <2>3. QED
    BY <2>1, <2>2
<1>14. QED
  BY <1>9, <1>13 DEF SpaceInv, NoneTwice

(***************************************************************************)
(* What is left of the pool becomes a node of the calling thread: the      *)
(* bytes of the chunks are all there without a pool.                       *)
(***************************************************************************)
LEMMA LeftoverKept ==
  ASSUME IInv, NEW t \in Threads, pc[t] = "refill", BytesLeft < RoundUp(n[t]), KeepLeftover(t)
  PROVE  NoneTwice' /\ Tiles(FreePlaces' \union TransitPlaces \union ClientPlaces, heap)
<1> DEFINE s == specific[t]
           i == FreelistIndex(BytesLeft)
           p == PoolPlace(_S_start_free, BytesLeft)
           q == FreePlace(s, i, _S_start_free)
<1>1. BaseInv /\ SpaceInv /\ ControlInv /\ ListsInv /\ PoolInv /\ NoneTwice
  BY DEF IInv, BaseInv, SpaceInv, NoneTwice
<1>2. CASE BytesLeft > 0
  <2>1. /\ _S_start_free \in 1 .. MemTop /\ BytesLeft \in Nat \ {0}
        /\ i \in Indices /\ NodeSize(i) = BytesLeft
    BY <1>1, <1>2, Leftover
  <2>2. s \in States /\ OneListChanges(s, i, << _S_start_free >> \o __free_list[s][i])
    BY <1>1, <1>2, LeftoverChange
  <2>3. PoolPlaces = {p}
    BY <1>2 DEF PoolPlaces
  <2>4. p \in Places /\ p.kind = "pool" /\ p.addr = _S_start_free /\ p.size = BytesLeft
    BY <2>3, PlaceNames DEF Places
  <2>5. q.addr = p.addr /\ q.size = p.size
    BY <2>1, <2>4, PlaceNames
  <2> HIDE DEF s, i
  <2>6. _S_start_free \notin Range(__free_list[s][i])
    BY <2>1, <2>2, <2>4, <1>1, NotFree
  <2>7. NoneTwice' /\ FreePlaces' = FreePlaces \union {q}
    BY <2>1, <2>2, <2>6, <1>1, Pushed
  <2>8. p \notin FreePlaces \union TransitPlaces \union ClientPlaces
    BY <2>4, PlaceKinds
  <2> HIDE DEF p, q
  <2>9. FreePlaces' \union TransitPlaces \union ClientPlaces = (Places \ {p}) \union {q}
    BY <2>3, <2>7, <2>8 DEF Places
  <2>10. QED
    BY <2>4, <2>5, <2>7, <2>9, <1>1, Relabel DEF SpaceInv
<1>3. CASE ~ (BytesLeft > 0)
  <2>1. __free_list' = __free_list /\ PoolPlaces = {}
    BY <1>3 DEF KeepLeftover, PoolPlaces
  <2>2. FreePlaces' = FreePlaces /\ NoneTwice'
    BY <2>1, <1>1, FreeAre DEF NoneTwice
  <2>3. FreePlaces' \union TransitPlaces \union ClientPlaces = Places
    BY <2>1, <2>2 DEF Places
  <2>4. QED
    BY <2>2, <2>3, <1>1 DEF SpaceInv
<1>4. QED
  BY <1>2, <1>3

(***************************************************************************)
(* malloc gives a chunk, and the pool is all of it.                        *)
(***************************************************************************)
LEMMA GetSpace ==
  ASSUME IInv, NEW t \in Threads, GetChunk(t)
  PROVE  SpaceInv'
<1> DEFINE k == BytesToGet(t)
<1>1. BaseInv /\ pc[t] = "refill" /\ BytesLeft < RoundUp(n[t]) /\ KeepLeftover(t)
  BY DEF IInv, GetChunk
<1>2. PICK a : GivesChunk(a, k)
  BY <1>1, NewChunk
<1> HIDE DEF k
<1> DEFINE B == Block(a, k)
           p == PoolPlace(a, k)
<1>3. NoneTwice' /\ Tiles(FreePlaces' \union TransitPlaces \union ClientPlaces, heap)
  BY <1>1, LeftoverKept
<1>4. /\ k \in Nat \ {0} /\ a \in 1 .. MemTop
      /\ heap' = heap \union {B}
      /\ IsExtent(B) /\ \A c \in heap : Disjoint(B, c)
      /\ _S_start_free' = a /\ _S_end_free' = a + k
  BY <1>2 DEF GivesChunk
<1>5. BytesLeft' = k
  BY <1>4 DEF BytesLeft
<1>6. PoolPlaces' = {p}
  <2>1. k > 0
    BY <1>4
  <2>2. QED
    BY <2>1, <1>4, <1>5 DEF PoolPlaces
<1>7. OthersStay(t) /\ pc[t] # "link" /\ pc'[t] # "link" /\ live' = live
  BY <1>1 DEF GetChunk, OthersStay, calls
<1>8. TransitPlaces' = TransitPlaces
  BY <1>7, SameTransit
<1>9. ClientPlaces' = ClientPlaces
  BY <1>7 DEF ClientPlaces
<1>10. p.addr = B.addr /\ p.size = B.size
  BY PlaceNames DEF Block
<1> HIDE DEF p, B
<1>11. Places' = (FreePlaces' \union TransitPlaces \union ClientPlaces) \union {p}
  BY <1>6, <1>8, <1>9 DEF Places
<1>12. Tiles(Places', heap')
  BY <1>3, <1>4, <1>10, <1>11, Extend
<1>13. QED
  BY <1>3, <1>12 DEF SpaceInv, NoneTwice

(***************************************************************************)
(* malloc_alloc throws, and the pool had no rest.                          *)
(***************************************************************************)
LEMMA ThrowSpace ==
  ASSUME IInv, NEW t \in Threads, GetChunkThrows(t), ~ ThrowsWithLeftover
  PROVE  SpaceInv'
<1>1. SpaceInv /\ ControlInv
  BY DEF IInv, BaseInv
<1>2. __free_list' = __free_list
  BY DEF GetChunkThrows, KeepLeftover
<1>3. /\ UNCHANGED << pool, heap, live >>
      /\ OthersStay(t) /\ pc[t] # "link" /\ pc'[t] # "link"
  BY <1>1 DEF GetChunkThrows, Throw, EndCall, Goto, OthersStay, ControlInv
<1>4. QED
  BY <1>1, <1>2, <1>3, SameTransit, SameSpace

(***************************************************************************)
(* reallocate within the same node.                                        *)
(***************************************************************************)
LEMMA InPlaceSpace ==
  ASSUME IInv, NEW t \in Threads, NEW b \in Held, NEW k \in Sizes, ReallocateInPlace(t, b, k)
  PROVE  SpaceInv'
<1> DEFINE c == Block(b.addr, k)
           p == ClientPlace(b)
           q == ClientPlace(c)
<1>1. SpaceInv /\ OldInv /\ NoneTwice /\ b \in live
  BY DEF IInv, BaseInv, SpaceInv, NoneTwice, Held
<1>2. /\ live' = (live \ {b}) \union {c} /\ RoundUp(b.size) = RoundUp(k)
      /\ UNCHANGED << __free_list, pool, heap, pc, n, nobjs, chunk >>
  BY DEF ReallocateInPlace, SameNode, calls
<1>3. c.addr = b.addr /\ c.size = k
  BY DEF Block
<1> HIDE DEF c
<1>4. /\ _S_start_free' = _S_start_free /\ BytesLeft' = BytesLeft /\ PoolPlaces' = PoolPlaces
  BY <1>2 DEF pool, BytesLeft, PoolPlaces
<1>5. FreePlaces' = FreePlaces /\ NoneTwice'
  BY <1>1, <1>2, FreeAre DEF NoneTwice
<1>6. TransitPlaces' = TransitPlaces
  BY <1>2 DEF TransitPlaces, Transit, RoundUp
<1>7. p \in ClientPlaces /\ p \in Places
  BY <1>1 DEF ClientPlaces, Places
<1>8. p.kind = "client" /\ q.addr = p.addr /\ q.size = p.size
  BY <1>2, <1>3, PlaceNames
<1>9. ClientPlaces' = (ClientPlaces \ {p}) \union {q}
  <2>1. \A d \in live : ClientPlace(d) = p => d = b
    BY <1>1, OnePlaceEach
  <2> HIDE DEF p, q
  <2>2. QED
    BY <1>2, <2>1 DEF ClientPlaces, p, q
<1>10. p \notin FreePlaces \union PoolPlaces \union TransitPlaces
  BY <1>8, PlaceKinds
<1> HIDE DEF p, q
<1>11. Places' = (Places \ {p}) \union {q}
  BY <1>4, <1>5, <1>6, <1>9, <1>10 DEF Places
<1>12. Tiles(Places', heap')
  BY <1>1, <1>2, <1>7, <1>8, <1>11, Relabel DEF SpaceInv
<1>13. QED
  BY <1>5, <1>12 DEF SpaceInv, NoneTwice

(***************************************************************************)
(* Every step keeps the places that tile the chunks, when malloc_alloc     *)
(* does not throw while the pool has a rest.                               *)
(***************************************************************************)
LEMMA SpaceStep == ~ ThrowsWithLeftover /\ IInv /\ [Next]_vars => SpaceInv'
<1> SUFFICES ASSUME ~ ThrowsWithLeftover, IInv, [Next]_vars PROVE SpaceInv'
  OBVIOUS
<1>c. /\ SpaceInv /\ pc \in [Threads -> Labels] /\ n \in [Threads -> Small \union {0}]
      /\ nobjs \in [Threads -> 0 .. NObjs]
  BY DEF IInv, BaseInv, ControlInv
\* A thread that links nothing, before and after, and works on no memory.
<1>1. ASSUME NEW t \in Threads, OthersStay(t), pc[t] # "link", pc'[t] # "link",
             UNCHANGED << __free_list, pool, heap, live >>
      PROVE  SpaceInv'
  BY <1>1, <1>c, SameTransit, SameSpace
<1>2. ASSUME NEW t \in Threads, NEW k \in Sizes, Allocate(t, k) PROVE SpaceInv'
  BY <1>1, <1>2, <1>c DEF Allocate, Goto, OthersStay
<1>3. ASSUME NEW t \in Threads, NEW b \in Held, Deallocate(t, b) PROVE SpaceInv'
  BY <1>1, <1>3, <1>c DEF Deallocate, Goto, OthersStay
<1>4. ASSUME NEW t \in Threads, NEW b \in Held, NEW k \in Sizes, ReallocateByCopy(t, b, k)
      PROVE  SpaceInv'
  BY <1>1, <1>4, <1>c DEF ReallocateByCopy, Goto, OthersStay
<1>5. ASSUME NEW t \in Threads, NeedState(t) PROVE SpaceInv'
  BY <1>1, <1>5, <1>c DEF NeedState, Goto, OthersStay, calls
<1>6. ASSUME NEW t \in Threads, GetState(t) PROVE SpaceInv'
  <2>1. /\ pc[t] = "newState" /\ pc' = [pc EXCEPT ![t] = Purpose(t)]
        /\ UNCHANGED << __free_list, pool, heap, live, n, nobjs, chunk >>
    BY <1>6 DEF GetState, Goto, calls
  <2>2. Purpose(t) # "link"
    BY DEF Purpose
  <2>3. pc'[t] # "link" /\ OthersStay(t)
    BY <2>1, <2>2, <1>c DEF OthersStay
  <2>4. QED
    BY <1>1, <2>1, <2>3
<1>7. ASSUME NEW t \in Threads, GetStateThrows(t) \/ SetspecificThrows(t) PROVE SpaceInv'
  <2>1. pc[t] = "newState" /\ Throw(t) /\ UNCHANGED << __free_list, pool, heap, live >>
    BY <1>7 DEF GetStateThrows, SetspecificThrows, Throw
  <2>2. pc'[t] # "link" /\ OthersStay(t)
    BY <2>1, <1>c DEF Throw, EndCall, Goto, OthersStay
  <2>3. QED
    BY <1>1, <2>1, <2>2
<1>8. ASSUME NEW t \in Threads, RefillEmptyList(t) PROVE SpaceInv'
  BY <1>1, <1>8, <1>c DEF RefillEmptyList, Goto, OthersStay
<1>9. ASSUME NEW t \in Threads, ThreadExit(t) PROVE SpaceInv'
  BY <1>1, <1>9, <1>c DEF ThreadExit, OthersStay, calls
<1>10. CASE UNCHANGED vars
  <2>1. TransitPlaces' = TransitPlaces
    BY <1>10 DEF vars, calls, TransitPlaces, Transit, RoundUp
  <2>2. QED
    BY <2>1, <1>10, <1>c, SameSpace DEF vars
<1>11. QED
  BY <1>2, <1>3, <1>4, <1>5, <1>6, <1>7, <1>8, <1>9, <1>10, PopSpace, PushSpace, LinkSpace,
     ServeSpace, GetSpace, ThrowSpace, InPlaceSpace DEF Next, Call, Work

(***************************************************************************)
(* The inductive invariant of a per-thread allocator whose malloc_alloc    *)
(* does not throw while the pool has a rest.                               *)
(***************************************************************************)
THEOREM Invariant ==
  ASSUME ~ ThrowsWithLeftover
  PROVE  Spec => []IInv
<1>1. Init => SpaceInv
  <2> SUFFICES ASSUME Init PROVE SpaceInv
    OBVIOUS
  <2>1. \A s \in States : \A i \in Indices : __free_list[s][i] = << >>
    BY DEF Init, EmptyLists
  <2>2. NoneTwice
    BY <2>1, NoNodes DEF NoneTwice
  <2>3. FreePlaces = {}
    BY <2>1, NoNodes, FreeAre DEF IsFree
  <2>4. PoolPlaces = {} /\ TransitPlaces = {} /\ ClientPlaces = {}
    BY DEF Init, PoolPlaces, TransitPlaces, ClientPlaces, BytesLeft
  <2>5. Places = {} /\ heap = {}
    BY <2>3, <2>4 DEF Places, Init
  <2>6. QED
    BY <2>2, <2>5 DEF SpaceInv, Tiles, NoneTwice
<1>2. BaseInv /\ SpaceInv /\ [Next]_vars => SpaceInv'
  BY SpaceStep DEF IInv
<1>3. QED
  BY <1>1, <1>2, BaseInvariant, PTL DEF Spec, IInv

-----------------------------------------------------------------------------
(* What the invariant says of the pieces, and of the clients               *)

(***************************************************************************)
(* The pieces are the places, without what they are called.                *)
(***************************************************************************)
PieceOf(p) == Block(p.addr, p.size)

\* The pieces that NoOverlap and Conservation speak of are those of the tiling.
LEMMA PiecesArePlaces ==
  /\ \A b \in Pieces : \E p \in Places : b = PieceOf(p)
  /\ \A p \in Places : PieceOf(p) \in Pieces
<1>1. /\ \A s, i, a : PieceOf(FreePlace(s, i, a)) = Block(a, NodeSize(i))
      /\ \A a, k : PieceOf(PoolPlace(a, k)) = Block(a, k)
      /\ \A t, a, k : PieceOf(TransitPlace(t, a, k)) = Block(a, k)
      /\ \A b : PieceOf(ClientPlace(b)) = Block(b.addr, RoundUp(b.size))
  BY PlaceNames DEF PieceOf
<1>2. \A b : b \in FreeNodes <=>
        \E s \in States : \E i \in Indices : \E j \in DOMAIN __free_list[s][i] :
          b = Block(__free_list[s][i][j], NodeSize(i))
  BY DEF FreeNodes, FreeNodesOf
<1>3. \A b : b \in InTransit <=>
        \E t \in Threads : pc[t] = "link" /\ b = Block(chunk[t], nobjs[t] * RoundUp(n[t]))
  BY DEF InTransit
<1>4. \A q : q \in TransitPlaces <=>
        \E t \in Threads : pc[t] = "link" /\ q = TransitPlace(t, chunk[t], nobjs[t] * RoundUp(n[t]))
  BY DEF TransitPlaces, Transit
<1>5. ASSUME NEW b \in FreeNodes PROVE \E p \in FreePlaces : b = PieceOf(p)
  <2>1. PICK s \in States : \E i \in Indices : \E j \in DOMAIN __free_list[s][i] :
          b = Block(__free_list[s][i][j], NodeSize(i))
    BY <1>2
  <2>2. PICK i \in Indices : \E j \in DOMAIN __free_list[s][i] :
          b = Block(__free_list[s][i][j], NodeSize(i))
    BY <2>1
  <2>3. PICK a \in Range(__free_list[s][i]) : b = Block(a, NodeSize(i))
    BY <2>2 DEF Range
  <2>4. FreePlace(s, i, a) \in FreePlaces
    BY <2>3, FreeAre DEF IsFree
  <2>5. QED
    BY <1>1, <2>3, <2>4
<1>6. ASSUME NEW p \in FreePlaces PROVE PieceOf(p) \in FreeNodes
  <2>1. PICK s \in States : \E i \in Indices : \E a \in Range(__free_list[s][i]) :
          p = FreePlace(s, i, a)
    BY FreeAre DEF IsFree
  <2>2. PICK i \in Indices : \E a \in Range(__free_list[s][i]) : p = FreePlace(s, i, a)
    BY <2>1
  <2>3. PICK a \in Range(__free_list[s][i]) : p = FreePlace(s, i, a)
    BY <2>2
  <2>4. PICK j \in DOMAIN __free_list[s][i] : a = __free_list[s][i][j]
    BY DEF Range
  <2>5. PieceOf(p) = Block(__free_list[s][i][j], NodeSize(i))
    BY <1>1, <2>3, <2>4
  <2>6. QED
    BY <1>2, <2>5
<1>7. Pool = {PieceOf(p) : p \in PoolPlaces}
  BY <1>1 DEF Pool, PoolPlaces
<1>8. ASSUME NEW b \in InTransit PROVE \E p \in TransitPlaces : b = PieceOf(p)
  BY <1>1, <1>3, <1>4
<1>9. ASSUME NEW p \in TransitPlaces PROVE PieceOf(p) \in InTransit
  BY <1>1, <1>3, <1>4
<1>10. ASSUME NEW b \in ClientNodes PROVE \E p \in ClientPlaces : b = PieceOf(p)
  BY <1>1 DEF ClientNodes, ClientPlaces
<1>11. ASSUME NEW p \in ClientPlaces PROVE PieceOf(p) \in ClientNodes
  BY <1>1 DEF ClientNodes, ClientPlaces
<1>12. QED
  BY <1>5, <1>6, <1>7, <1>8, <1>9, <1>10, <1>11 DEF Pieces, Places

(***************************************************************************)
(* Every byte has one owner, though threads free each other's nodes, exit, *)
(* and take over the states of dead threads: no two pieces overlap, and no *)
(* address is on two lists.                                                *)
(***************************************************************************)
THEOREM OneOwner ==
  ASSUME ~ ThrowsWithLeftover
  PROVE  Spec => []NoOverlap
<1>1. ASSUME SpaceInv PROVE NoOverlap
  <2>1. \A p, q \in Places : p # q => Disjoint(p, q)
    BY <1>1 DEF SpaceInv, Tiles
  <2>2. \A p \in Places : IsExtent(p)
    BY <1>1 DEF SpaceInv, Tiles
  <2>3. ASSUME NEW b \in Pieces, NEW c \in Pieces, b # c PROVE Apart(b, c)
    <3>1. PICK p \in Places : b = PieceOf(p)
      BY PiecesArePlaces
    <3>2. PICK q \in Places : c = PieceOf(q)
      BY PiecesArePlaces
    <3>3. Disjoint(p, q)
      BY <2>1, <2>3, <3>1, <3>2
    <3>4. QED
      BY <3>1, <3>2, <3>3 DEF Apart, Disjoint, PieceOf, Block
  <2>4. ASSUME NEW s \in States, NEW r \in States, NEW i \in Indices, s # r,
               NEW a \in Range(__free_list[s][i])
        PROVE  a \notin Range(__free_list[r][i])
    <3> DEFINE p == FreePlace(s, i, a)
               q == FreePlace(r, i, a)
    <3> SUFFICES ASSUME a \in Range(__free_list[r][i]) PROVE FALSE
      OBVIOUS
    <3>1. p \in Places /\ q \in Places
      BY FreeAre DEF IsFree, Places
    <3>2. p # q /\ p.addr = q.addr
      BY <2>4, PlaceNames
    <3> HIDE DEF p, q
    <3>3. QED
      BY <2>1, <2>2, <3>1, <3>2 DEF Disjoint, IsExtent
  <2>5. \A s, r \in States : \A i \in Indices : IsInjective(__free_list[s][i])
    BY <1>1 DEF SpaceInv
  <2>6. \A s, r \in States : \A i \in Indices :
          s # r => \A j \in DOMAIN __free_list[s][i] : \A k \in DOMAIN __free_list[r][i] :
                     __free_list[s][i][j] # __free_list[r][i][k]
    BY <2>4 DEF Range
  <2>7. QED
    BY <2>3, <2>5, <2>6 DEF NoOverlap
<1>2. QED
  BY Invariant, <1>1, PTL DEF IInv

(***************************************************************************)
(* No byte of a chunk is ever lost, not even when a thread exits, or fails *)
(* to store the state that it got: the lists stay with the state.          *)
(***************************************************************************)
THEOREM NothingLost ==
  ASSUME ~ ThrowsWithLeftover
  PROVE  Spec => []Conservation
<1>1. ASSUME SpaceInv PROVE Conservation
  <2>1. \A p : Span(PieceOf(p)) = Extent(p)
    BY DEF PieceOf, Span, Block, Extent
  <2>2. \A c : Span(c) = Extent(c)
    BY DEF Span, Extent
  <2>3. ASSUME NEW x, NEW c \in heap, x \in Extent(c) PROVE \E b \in Pieces : x \in Span(b)
    <3>1. PICK p \in Places : x \in Extent(p)
      BY <1>1, <2>3 DEF SpaceInv, Tiles
    <3>2. PieceOf(p) \in Pieces
      BY PiecesArePlaces
    <3>3. QED
      BY <2>1, <3>1, <3>2
  <2>4. ASSUME NEW x, NEW b \in Pieces, x \in Span(b) PROVE \E c \in heap : x \in Extent(c)
    <3>1. PICK p \in Places : b = PieceOf(p)
      BY PiecesArePlaces
    <3>2. x \in Extent(p)
      BY <2>1, <2>4, <3>1
    <3>3. PICK c \in heap : Within(p, c)
      BY <1>1 DEF SpaceInv, Tiles
    <3>4. IsExtent(p) /\ IsExtent(c)
      BY <1>1 DEF SpaceInv, Tiles
    <3>5. x \in Extent(c)
      BY <3>2, <3>3, <3>4 DEF Extent, Within, IsExtent
    <3>6. QED
      BY <3>5
  <2>5. QED
    BY <2>2, <2>3, <2>4 DEF Conservation
<1>2. QED
  BY Invariant, <1>1, PTL DEF IInv

(***************************************************************************)
(* A client's block is no longer than its node, so blocks are apart        *)
(* because their nodes are.                                                *)
(***************************************************************************)
ClientsApart == \A b, c \in live : b # c => Apart(b, c)

\* Under the invariant no byte is given to two clients.
LEMMA ClientsAreApart == IInv => ClientsApart
<1> SUFFICES ASSUME IInv, NEW b \in live, NEW c \in live, b # c PROVE Apart(b, c)
  BY DEF ClientsApart
<1>1. OldInv /\ SpaceInv
  BY DEF IInv, BaseInv
<1>2. ASSUME NEW d \in live
      PROVE  /\ d.addr \in Nat /\ d.size \in Nat /\ ClientPlace(d) \in Places
             /\ ClientPlace(d).addr = d.addr /\ ClientPlace(d).size \in Nat
             /\ d.size <= ClientPlace(d).size
  <2>1. d.addr \in 1 .. MemTop /\ d.size \in Nat \ {0} /\ ~ Large(d.size)
    BY <1>1, Parameters DEF OldInv, Blocks, Small
  <2>2. RoundUp(d.size) \in Nat /\ d.size <= RoundUp(d.size)
    BY <2>1, SmallSizes
  <2>3. ClientPlace(d) \in Places
    BY DEF Places, ClientPlaces
  <2>4. QED
    BY <2>1, <2>2, <2>3, Parameters, PlaceNames
<1>3. ClientPlace(b) # ClientPlace(c)
  BY <1>1, OnePlaceEach
<1>4. Disjoint(ClientPlace(b), ClientPlace(c))
  BY <1>1, <1>2, <1>3 DEF SpaceInv, Tiles
<1>5. QED
  BY <1>2, <1>4 DEF Disjoint, Apart

(***************************************************************************)
(* A step gives a client one block, takes one back, exchanges one, or does *)
(* not change the blocks that are out.                                     *)
(***************************************************************************)
LEMMA LiveStep ==
  ASSUME IInv, [Next]_vars
  PROVE  \/ live' = live
         \/ \E b \in live' : live' = live \union {b}
         \/ \E b \in live : live' = live \ {b}
         \/ \E b \in live, c \in live' : live' = (live \ {b}) \union {c}
<1> DEFINE Changes == \/ live' = live
                      \/ \E b \in live' : live' = live \union {b}
                      \/ \E b \in live : live' = live \ {b}
                      \/ \E b \in live, c \in live' : live' = (live \ {b}) \union {c}
<1>1. ASSUME NEW t \in Threads, PopNode(t) \/ LinkNodes(t) PROVE Changes
  <2>1. \E a : live' = live \union {Block(a, n[t])}
    BY <1>1 DEF PopNode, LinkNodes, Return
  <2>2. QED
    BY <2>1
<1>2. ASSUME NEW t \in Threads, PushNode(t) PROVE Changes
  <2>1. PICK b \in old[t] : b \in live /\ live' = live \ {b}
    BY <1>2, PushChange DEF IInv
  <2>2. QED
    BY <2>1
<1>3. ASSUME NEW t \in Threads, NEW b \in Held, NEW k \in Sizes, ReallocateInPlace(t, b, k)
      PROVE  Changes
  <2>1. b \in live /\ \E c : live' = (live \ {b}) \union {c}
    BY <1>3 DEF ReallocateInPlace, Held
  <2>2. QED
    BY <2>1
<1>4. ASSUME live' = live PROVE Changes
  BY <1>4
<1>5. ASSUME NEW t \in Threads, NEW k \in Sizes, Allocate(t, k) PROVE Changes
  BY <1>4, <1>5 DEF Allocate
<1>6. ASSUME NEW t \in Threads, NEW b \in Held, Deallocate(t, b) PROVE Changes
  BY <1>4, <1>6 DEF Deallocate
<1>7. ASSUME NEW t \in Threads, NEW b \in Held, NEW k \in Sizes, ReallocateByCopy(t, b, k)
      PROVE  Changes
  BY <1>4, <1>7 DEF ReallocateByCopy
<1>8. ASSUME NEW t \in Threads,
             NeedState(t) \/ GetState(t) \/ GetStateThrows(t) \/ SetspecificThrows(t)
               \/ RefillEmptyList(t) \/ ServeFromPool(t) \/ GetChunk(t) \/ GetChunkThrows(t)
               \/ ThreadExit(t)
      PROVE  Changes
  BY <1>4, <1>8 DEF NeedState, GetState, GetStateThrows, SetspecificThrows, RefillEmptyList,
                    ServeFromPool, GetChunk, GetChunkThrows, Throw, ThreadExit
<1>9. CASE UNCHANGED vars
  BY <1>4, <1>9 DEF vars
<1>10. ASSUME NEW t \in Threads, Call(t) \/ Work(t) \/ ThreadExit(t) PROVE Changes
  <2>1. CASE Call(t)
    BY <2>1, <1>3, <1>5, <1>6, <1>7 DEF Call
  <2>2. CASE Work(t)
    BY <2>2, <1>1, <1>2, <1>8 DEF Work
  <2>3. QED
    BY <2>1, <2>2, <1>8, <1>10
<1>11. QED
  BY <1>9, <1>10 DEF Next

(***************************************************************************)
(* The per-thread allocator gives clients blocks that share no byte with   *)
(* those that are out, whichever threads they went through.                *)
(***************************************************************************)
THEOREM Refinement ==
  ASSUME ~ ThrowsWithLeftover
  PROVE  Spec => ImplementsAllocator
<1>1. Init => Abs!AllocInit
  BY DEF Init, Abs!AllocInit
<1>2. IInv /\ IInv' /\ ClientsApart' /\ [Next]_vars => [Abs!AllocNext]_live
  <2> SUFFICES ASSUME IInv, IInv', ClientsApart', [Next]_vars, live' # live
               PROVE  Abs!AllocNext
    OBVIOUS
  <2>1. \A b \in live' : Abs!IsBlock(b)
    <3>1. live' \subseteq Blocks
      BY DEF IInv, BaseInv, OldInv
    <3>2. QED
      BY <3>1, Parameters DEF Blocks, Small, Abs!IsBlock
  <2>2. \A b, c \in live' : b # c => Abs!Apart(b, c)
    BY DEF ClientsApart, Apart, Abs!Apart
  <2>3. ASSUME NEW b \in live', live' = live \union {b} PROVE Abs!AllocNext
    <3>1. b \notin live
      BY <2>3
    <3>2. \A c \in live : Abs!Apart(b, c)
      BY <2>2, <2>3, <3>1
    <3>3. QED
      BY <2>1, <2>3, <3>2 DEF Abs!AllocNext, Abs!Give
  <2>4. ASSUME NEW b \in live, live' = live \ {b} PROVE Abs!AllocNext
    BY <2>4 DEF Abs!AllocNext, Abs!TakeBack
  <2>5. ASSUME NEW b \in live, NEW c \in live', live' = (live \ {b}) \union {c}
        PROVE  Abs!AllocNext
    <3>1. CASE c \in live \ {b}
      <4>1. live' = live \ {b}
        BY <2>5, <3>1
      <4>2. QED
        BY <2>4, <4>1
    <3>2. CASE c \notin live \ {b}
      <4>1. \A d \in live \ {b} : Abs!Apart(c, d)
        BY <2>2, <2>5, <3>2
      <4>2. QED
        BY <2>1, <2>5, <4>1 DEF Abs!AllocNext, Abs!Exchange
    <3>3. QED
      BY <3>1, <3>2
  <2>6. QED
    BY <2>3, <2>4, <2>5, LiveStep
<1>3. QED
  BY <1>1, <1>2, Invariant, ClientsAreApart, PTL DEF Spec, ImplementsAllocator, Abs!AllocSpec
=============================================================================
