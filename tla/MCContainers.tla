---------------------------- MODULE MCContainers ----------------------------
(***************************************************************************)
(* Model-checking instances of the containers, of which Init picks one, with *)
(* either one container of the largest size or two that are copied and     *)
(* swapped.  The variables of the other kinds keep their initial values.   *)
(***************************************************************************)
EXTENDS Naturals, Sequences, FiniteSets

-----------------------------------------------------------------------------
(* Lists, vectors of bool, strings, bitsets and priority queues              *)

CONSTANTS a, b, Raw, Free, NullChar, MaxNodes, MaxElements, MaxListPair, Counters, ListPlenty,
          WordBit, MaxBits, MaxBitBlock, InitialCells, MaxLength, MaxStringCells, Npos, Plenty,
          BitsPerWord, CharBit, Sizes, Keys, MaxQueue, InsertedMayThrow

Pair == {1, 2}

\* The order that sort and merge are given
IsBefore(v, w) == v = a /\ w = b

VARIABLES nodes, listCall, snodes, slistCall, bits, bitsCall, string, stringCall,
          bitset, bitsetCall, queue, queueCall, bad, instance

DoublyLinked == INSTANCE List WITH memory <- nodes, call <- listCall, Lists <- Pair, Value <- {a, b},
                            Less <- IsBefore, Plenty <- ListPlenty
SinglyLinked == INSTANCE Slist WITH memory <- snodes, call <- slistCall, Lists <- Pair, Value <- {a, b},
                              Less <- IsBefore, Plenty <- ListPlenty
BitVectors == INSTANCE BitVector WITH call <- bitsCall, Vectors <- Pair
Strings == INSTANCE BasicString WITH call <- stringCall, Strings <- Pair, Value <- {a, b},
                                CharLess <- IsBefore
Bitsets == INSTANCE Bitset WITH call <- bitsetCall
Queues == INSTANCE PriorityQueue WITH call <- queueCall

lists == << nodes, listCall >>
slists == << snodes, slistCall >>
bitVectors == << bits, bitsCall >>
strings == << string, stringCall >>
bitsets == << bitset, bitsetCall >>
queues == << queue, queueCall >>
sequences == << lists, slists, bitVectors, strings, bitsets, queues >>
ListsView == << DoublyLinked!Shape, SinglyLinked!Shape, bits, string, bitset, queue >>

ListsInit ==
    /\ DoublyLinked!Init /\ SinglyLinked!Init /\ BitVectors!Init /\ Strings!Init
    /\ Bitsets!Init /\ Queues!Init /\ (instance # "bitset" => bitset.size = 1)

OneList(call) == call'.on = 1 /\ ("other" \in DOMAIN call' => call'.other = 1)
One(call) == call'.on = 1 /\ call'.op = "replace"

ListStep ==
    /\ instance \in {"list", "lists"} /\ DoublyLinked!Next
    /\ \/ instance = "list" /\ OneList(listCall)
       \/ instance = "lists" /\ DoublyLinked!Elements' <= MaxListPair

SlistStep ==
    /\ instance \in {"slist", "slists"} /\ SinglyLinked!Next
    /\ \/ instance = "slist" /\ OneList(slistCall)
       \/ instance = "slists" /\ SinglyLinked!Elements' <= MaxListPair

BitStep ==
    /\ instance \in {"bits", "bitpair"} /\ BitVectors!Next
    /\ \/ instance = "bits" /\ One(bitsCall)
       \/ /\ instance = "bitpair" /\ (BitVectors!Count(1) + BitVectors!Count(2))' <= MaxBitBlock
          /\ \A x \in Pair : Len(bits'[x].block) <= MaxBitBlock

StringStep ==
    /\ instance \in {"string", "strings"} /\ Strings!Next
    /\ \/ instance = "string" /\ One(stringCall)
       \/ instance = "strings" /\ \A x \in Pair : Len(string'[x].cells) <= MaxStringCells

ListsNext ==
    \/ ListStep /\ UNCHANGED << slists, bitVectors, strings, bitsets, queues >>
    \/ SlistStep /\ UNCHANGED << lists, bitVectors, strings, bitsets, queues >>
    \/ BitStep /\ UNCHANGED << lists, slists, strings, bitsets, queues >>
    \/ StringStep /\ UNCHANGED << lists, slists, bitVectors, bitsets, queues >>
    \/ /\ instance = "bitset" /\ Bitsets!Next
       /\ UNCHANGED << lists, slists, bitVectors, strings, queues, bad >>
    \/ /\ instance = "queue" /\ Queues!Next
       /\ UNCHANGED << lists, slists, bitVectors, strings, bitsets, bad >>

-----------------------------------------------------------------------------
(* Trees, hash tables, vectors and deques; all of them                       *)

CONSTANTS Header, Null, TreeElements, TableElements, MaxTreePair, MaxTablePair,
          MaxCells, MaxSize, InitialMapSize

\* The last two elements have equal keys.
TreeKey == [e \in TreeElements |-> IF e + 1 \in TreeElements THEN e ELSE e - 1]

\* The first two elements have equal keys, others equal hash values only.
TableKey == [e \in TableElements |-> IF e = 1 THEN 2 ELSE e]
TableHash == [e \in TableElements |-> IF e < 3 THEN 0 ELSE IF e = 5 THEN 4 ELSE e - 2]
SmallPrimes == << 2, 3, 5 >>

\* Deques whose nodes have one cell or four are alone, pairs have nodes of two.
\* Elements move whatever they are: one that differs from the others is enough.
DequeMax == << 3, 3, 0, 6 >>
SomeRanges == {<< >>, << a, b >>, << b, a >>}

VARIABLES tree, treeCall, table, tableCall, vector, vectorCall, deque, dequeCall

Trees == INSTANCE RbTree WITH call <- treeCall, Element <- TreeElements, key <- TreeKey,
                              Trees <- Pair
Tables == INSTANCE HashTable WITH call <- tableCall, Element <- TableElements, key <- TableKey,
                                  hash <- TableHash, Tables <- Pair, Primes <- SmallPrimes
Vectors == INSTANCE Vector WITH call <- vectorCall, Value <- {a, b}, Vectors <- Pair

Deques == INSTANCE Deque WITH call <- dequeCall, Value <- {a, b}, Deques <- Pair,
                              Ranges <- SomeRanges, BufSizes <- {1, 2, 4}, MaxSize <- DequeMax

vars == << tree, treeCall, table, tableCall, vector, vectorCall, deque, dequeCall,
           sequences, bad, instance >>
View == << tree, table, vector, deque, ListsView, bad, instance >>

MCInit ==
    /\ instance \in {"tree", "trees", "table", "tables", "vector", "vectors", "deque", "deques",
                    "list", "lists", "slist", "slists", "bits", "bitpair", "string", "strings",
                    "bitset", "queue"}
    /\ Trees!Init /\ Tables!Init /\ Vectors!Init /\ Deques!Init /\ ListsInit
    /\ deque[1].buf \in IF instance = "deque" THEN {1, 4} ELSE {2}

Alone(call) == call'.on = 1 /\ "from" \notin DOMAIN call'

TreeStep ==
    /\ instance \in {"tree", "trees"} /\ Trees!Next
    /\ \/ instance = "tree" /\ Alone(treeCall)
       \/ instance = "trees" /\ \A x \in Pair : Trees!Nodes(x)' \subseteq 1 .. MaxTreePair

\* A count that failed resizes have left too large is bounded, too.
TableStep ==
    /\ instance \in {"table", "tables"} /\ Tables!Next
    /\ \A x \in Pair : table'[x].count <= Cardinality(TableElements)
    /\ \/ instance = "table" /\ Alone(tableCall)
       \/ /\ instance = "tables"
          /\ \A x \in Pair : table'[x].nodes \subseteq 2 .. 4 /\ table'[x].count <= MaxTablePair

VectorStep ==
    /\ instance \in {"vector", "vectors"} /\ Vectors!Next
    /\ \/ instance = "vector" /\ vectorCall'.op = "replace" /\ vectorCall'.on = 1
       \/ /\ instance = "vectors" /\ \A x \in Pair : Len(vector'[x].cells) <= MaxCells
          /\ Len(vector'[1].cells) + Len(vector'[2].cells) <= MaxCells + 2

MostlyA == \A x \in Pair : Cardinality({p \in 1 .. Deques!Count(x) :
                                            Deques!Content(deque[x])[p] = b}) <= 1
PairFits == Deques!Count(1) + Deques!Count(2) <= 3 /\
            \A x \in Pair : Len(deque[x].map) = InitialMapSize

DequeStep ==
    /\ instance \in {"deque", "deques"} /\ Deques!Next /\ MostlyA'
    /\ \/ instance = "deque" /\ dequeCall'.op = "replace" /\ dequeCall'.on = 1
       \/ instance = "deques" /\ PairFits'

trees == << tree, treeCall >>
tables == << table, tableCall >>
vectors == << vector, vectorCall >>
deques == << deque, dequeCall >>

MCNext ==
    /\ UNCHANGED instance
    /\ \/ /\ UNCHANGED sequences
          /\ \/ TreeStep /\ UNCHANGED << tables, vectors, deques, bad >>
             \/ TableStep /\ UNCHANGED << trees, vectors, deques, bad >>
             \/ VectorStep /\ UNCHANGED << trees, tables, deques >>
             \/ DequeStep /\ UNCHANGED << trees, tables, vectors >>
       \/ ListsNext /\ UNCHANGED << trees, tables, vectors, deques >>

MCSpec == MCInit /\ [][MCNext]_vars

TypeOK ==
    /\ Trees!TypeOK /\ Tables!TypeOK /\ Vectors!TypeOK /\ Deques!TypeOK
    /\ DoublyLinked!TypeOK /\ SinglyLinked!TypeOK /\ BitVectors!TypeOK /\ Strings!TypeOK

WellFormed ==
    /\ Trees!WellFormed /\ Tables!WellFormed /\ Vectors!WellFormed /\ Deques!WellFormed
    /\ DoublyLinked!WellFormed /\ SinglyLinked!WellFormed /\ BitVectors!WellFormed /\ Strings!WellFormed
    /\ Bitsets!WellFormed /\ Queues!WellFormed

\* That nothing is misused is the same bad for the sequences.
NothingLost == Trees!NothingLost /\ Tables!NothingLost /\ Vectors!NothingLost /\ Deques!NothingLost
SearchesAgree ==
    Trees!SearchesAgree /\ Tables!SearchesAgree /\ Strings!SearchesAgree /\ Bitsets!SearchesAgree
ImplementsSets == Trees!ImplementsSets /\ Tables!ImplementsSets
ImplementsSequences ==
    /\ Vectors!ImplementsSequences /\ Deques!ImplementsSequences
    /\ BitVectors!ImplementsSequences /\ Strings!ImplementsSequences
    /\ Bitsets!ImplementsBits /\ Queues!ImplementsQueue
    /\ DoublyLinked!ImplementsLists /\ SinglyLinked!ImplementsLists
=============================================================================
