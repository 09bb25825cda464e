------------------------------ MODULE Elements ------------------------------
(***************************************************************************)
(* Raw memory and the lifetimes of the elements in it: what allocators,     *)
(* stl_construct.h, stl_uninitialized.h and the copying and filling of     *)
(* stl_algobase.h do to it.                                                *)
(*                                                                         *)
(* m.mem maps blocks to sequences of cells, a cell is Raw or the value of  *)
(* an element, and an address is << block, index >>.  An allocation and    *)
(* the copy or assignment of an element use up m.fuel, and throw when none *)
(* is left; after that, only handlers do anything.  m.bad records that an  *)
(* element was constructed over another one, read, assigned to or          *)
(* destroyed where there is none, or lost with its memory.                 *)
(***************************************************************************)
EXTENDS Naturals, Sequences

CONSTANT Raw

ValuesIn(s) == {s[i] : i \in DOMAIN s}
Smaller(i, j) == IF i < j THEN i ELSE j
Larger(i, j) == IF i < j THEN j ELSE i
First(s, n) == SubSeq(s, 1, Smaller(n, Len(s)))
Last(s, n) == SubSeq(s, Len(s) + 1 - Smaller(n, Len(s)), Len(s))

\* The addresses [from, to) of block b, counted from 0; n times v
Cells(b, from, to) == [j \in 1 .. to - from |-> << b, from + j >>]
Times(n, v) == [j \in 1 .. n |-> v]

Inside(m, a) == a[2] \in DOMAIN m.mem[a[1]]
Cell(m, a) == IF Inside(m, a) THEN m.mem[a[1]][a[2]] ELSE Raw
Read(m, at) == [j \in DOMAIN at |-> Cell(m, at[j])]

Store(m, values, at) ==
    [m EXCEPT !.mem = [b \in DOMAIN @ |-> [i \in DOMAIN @[b] |->
        IF \E j \in DOMAIN at : at[j] = << b, i >>
        THEN values[CHOOSE j \in DOMAIN at : at[j] = << b, i >>] ELSE @[b][i]]]]

Misused(m, misuse) == [m EXCEPT !.bad = @ \/ misuse]
Outside(m, at) == \E j \in DOMAIN at : ~Inside(m, at[j])

\* construct and destroy, of the elements at some addresses
Construct(m, values, at) ==
    Misused(Store(m, values, at), \/ Outside(m, at) \/ Raw \in ValuesIn(values)
                                  \/ ValuesIn(Read(m, at)) \ {Raw} # {})

Destroy(m, at) == Misused(Store(m, Times(Len(at), Raw), at), Raw \in ValuesIn(Read(m, at)))

Spend(m, n) == [m EXCEPT !.fuel = @ - Smaller(@, n), !.threw = n > m.fuel]

\* uninitialized_copy and uninitialized_fill_n: what was constructed is destroyed
\* if a constructor throws.
UninitializedCopy(m, values, at) ==
    IF m.threw THEN m
    ELSE IF Len(at) <= m.fuel THEN Spend(Construct(m, values, at), Len(at))
    ELSE Spend(Destroy(Construct(m, First(values, m.fuel), First(at, m.fuel)), First(at, m.fuel)),
               Len(at))

\* copy, copy_backward and fill: those assigned before an exception stay.  Where
\* source and target overlap, a cell is read before it is written.
Assign(m, values, at) ==
    Misused(Store(m, values, at), Raw \in ValuesIn(values) \union ValuesIn(Read(m, at)))

CopyForward(m, values, at) ==
    IF m.threw THEN m
    ELSE Spend(Assign(m, First(values, m.fuel), First(at, m.fuel)), Len(at))

CopyBackward(m, values, at) ==
    IF m.threw THEN m
    ELSE Spend(Assign(m, Last(values, m.fuel), Last(at, m.fuel)), Len(at))

\* allocate, and deallocate, which must not be given memory with elements in it
Allocate(m, b, n) ==
    IF m.threw THEN m
    ELSE IF m.fuel = 0 THEN Spend(m, 1)
    ELSE Spend([m EXCEPT !.mem[b] = Times(n, Raw)], 1)

Deallocate(m, b) ==
    Misused([m EXCEPT !.mem[b] = << >>], ValuesIn(m.mem[b]) \ {Raw} # {})
=============================================================================
