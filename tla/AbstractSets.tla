---------------------------- MODULE AbstractSets ----------------------------
(***************************************************************************)
(* What set, multiset, map, multimap and their hashed counterparts promise: *)
(* the call that was made last determines what the container holds.  The   *)
(* elements are told apart even if their keys are equal.                   *)
(***************************************************************************)
EXTENDS Naturals

CONSTANTS Containers, Element,
          key          \* [Element -> keys]

VARIABLES content,     \* [Containers -> sets of elements]
          call         \* the last call: op, on and turn, and its arguments

SameKey(e) == {f \in Element : key[f] = key[e]}

\* What the container that is called holds afterwards.
Result(c, held) ==
    CASE c.op = "insert_unique" ->
           IF held \intersect SameKey(c.element) = {} THEN held \union {c.element} ELSE held
      [] c.op = "insert_equal" -> held \union {c.element}
      [] c.op = "erase_key" -> held \ SameKey(c.element)
      [] c.op \in {"erase", "resize throws"} -> held \ c.elements
      [] c.op = "clear" -> {}
      [] c.op = "resize" -> held
      [] c.op \in {"assign", "swap"} -> content[c.from]
      [] c.op = "assign throws" -> {}
      [] OTHER -> Element      \* not a call

SetsInit == content = [x \in Containers |-> {}] /\ call = [op |-> "construct", turn |-> 0]

\* The other containers keep what they hold, but for the other one of a swap.
SetsNext ==
    /\ call'.turn = 1 - call.turn
    /\ \A x \in Containers :
         content'[x] = IF x = call'.on THEN Result(call', content[x])
                       ELSE IF call'.op = "swap" /\ x = call'.from THEN content[call'.on]
                       ELSE content[x]

SetsSpec == SetsInit /\ [][SetsNext]_<< content, call >>
=============================================================================
