------------------------------ MODULE ListNodes ------------------------------
(***************************************************************************)
(* The nodes of list and slist: where they come from, the elements in them *)
(* and the comparisons that go over them.                                  *)
(*                                                                         *)
(* m.data maps a node to Free, Raw (it is allocated and holds no element)  *)
(* or the value of its element, m.next to its next node.  Every allocation, *)
(* copy, assignment and comparison uses up m.fuel, and throws when there is *)
(* none left.  m.node is the node allocated last.  m.bad records that a    *)
(* node or an element was misused.                                         *)
(***************************************************************************)
EXTENDS Naturals, Sequences, TLC

CONSTANTS Value, Lists,
          Less(_, _),      \* operator< or the comparison that sort and merge get
          MaxNodes,        \* bound on the nodes there are, sort's included
          Raw, Free,
          Plenty           \* more than any call allocates, copies and compares

Node == 1 .. MaxNodes
Nil == 0

Misused(m, misuse) == [m EXCEPT !.bad = @ \/ misuse]
Spend(m) == IF m.fuel = 0 THEN [m EXCEPT !.threw = TRUE] ELSE [m EXCEPT !.fuel = @ - 1]

FreeNode(m) == CHOOSE n \in Node : m.data[n] = Free /\ \A i \in 1 .. n - 1 : m.data[i] # Free

\* _M_get_node and _M_put_node; the links of a node that is free lead nowhere.
GetNode(m) ==
    LET spent == Spend(m)
        n == FreeNode(m) IN
    IF spent.threw THEN spent ELSE [spent EXCEPT !.data[n] = Raw, !.node = n]

PutNode(m, n) == Misused([m EXCEPT !.data[n] = Free, !.next[n] = Nil], m.data[n] # Raw)

Construct(m, n, value) ==
    Misused([m EXCEPT !.data[n] = value], m.data[n] # Raw \/ value \notin Value)

DestroyData(m, n) == Misused([m EXCEPT !.data[n] = Raw], m.data[n] \notin Value)

\* Mutant: the node is not put back when the copy throws.
CreateNodeLeaking(m, value) ==
    LET got == GetNode(m)
        copied == Spend(got) IN
    IF got.threw THEN got
    ELSE IF copied.threw THEN copied ELSE Construct(copied, got.node, value)

\* _M_create_node puts the node back when the copy throws.
CreateNode(m, value) ==
    LET got == GetNode(m)
        copied == Spend(got) IN
    IF got.threw THEN got
    ELSE IF copied.threw THEN PutNode(copied, got.node) ELSE Construct(copied, got.node, value)

AssignData(m, n, value) ==
    LET spent == Spend(m) IN
    IF spent.threw THEN spent
    ELSE Misused([spent EXCEPT !.data[n] = value], ~({m.data[n], value} \subseteq Value))

\* Reading the elements of two nodes to compare them, which may throw
Compare(m, n, k) == Misused(Spend(m), ~({m.data[n], m.data[k]} \subseteq Value))

\* An argument is a value of its own, or the node of an element.
Argument(m, arg) == IF arg \in Node THEN m.data[arg] ELSE arg

\* The nodes from n to where a chain ends, at most as many as there are
RECURSIVE ChainTo(_, _, _, _)
ChainTo(next, n, end, bound) ==
    IF n = end \/ n = Nil \/ bound = 0 THEN << >>
    ELSE << n >> \o ChainTo(next, next[n], end, bound - 1)

-----------------------------------------------------------------------------
(* What the calls promise *)

Replaces(from, to, values) == [op |-> "replace", from |-> from, to |-> to, values |-> values]
Moves(pos, y, from, to) == [op |-> "move", pos |-> pos, other |-> y, from |-> from, to |-> to]
Times(n, value) == [i \in 1 .. n |-> value]
=============================================================================
