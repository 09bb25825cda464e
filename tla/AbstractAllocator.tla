------------------------- MODULE AbstractAllocator --------------------------
(***************************************************************************)
(* What a client of `alloc' relies on (stl_alloc.h): a block it is given   *)
(* shares no byte with any block that is still out, and stays where it is  *)
(* until it is given back or reallocated.                                  *)
(***************************************************************************)
EXTENDS Naturals

CONSTANT Sizes    \* the sizes clients ask for, in bytes

VARIABLE live     \* the blocks that are out, [addr, size] with the size asked for

Apart(b, c) == b.addr + b.size <= c.addr \/ c.addr + c.size <= b.addr

IsBlock(b) == b.addr \in Nat \ {0} /\ b.size \in Sizes

Give(b) ==
    /\ IsBlock(b)
    /\ \A c \in live : Apart(b, c)
    /\ live' = live \union {b}

TakeBack(b) ==
    /\ b \in live
    /\ live' = live \ {b}

\* reallocate in one step: in place, or moved by realloc
Exchange(b, c) ==
    /\ b \in live
    /\ IsBlock(c)
    /\ \A d \in live \ {b} : Apart(c, d)
    /\ live' = (live \ {b}) \union {c}

AllocInit == live = {}

AllocNext ==
    \/ \E b \in live' : Give(b)
    \/ \E b \in live : TakeBack(b)
    \/ \E b \in live, c \in live' : Exchange(b, c)

AllocSpec == AllocInit /\ [][AllocNext]_live
=============================================================================
