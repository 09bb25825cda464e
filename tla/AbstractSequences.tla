------------------------- MODULE AbstractSequences --------------------------
(***************************************************************************)
(* What the sequence containers promise.  A call replaces the values of     *)
(* one container from one position to another by given ones.  If it throws *)
(* and is strong, nothing has changed; if it is not, the container still   *)
(* holds values that were in it or were to come, and not more of them than *)
(* there were or would have been.                                          *)
(***************************************************************************)
EXTENDS Naturals, Sequences

CONSTANT Containers

VARIABLES content,     \* [Containers -> sequences of values]
          call         \* the last call: op, on, turn, and from, to, values, threw, strong

Values(s) == {s[i] : i \in DOMAIN s}

\* A call that replaces what is in [from, to), counted from 0, by values.
Replaced(s, c) == SubSeq(s, 1, c.from) \o c.values \o SubSeq(s, c.to + 1, Len(s))

\* The basic guarantee for a call that would have turned s into t
Basic(s, t, r) ==
    /\ Values(r) \subseteq Values(s) \union Values(t)
    /\ Len(r) <= Len(s) \/ Len(r) <= Len(t)
    /\ Len(r) >= Len(s) \/ Len(r) >= Len(t)

Effect(c, s, r) ==
    IF ~c.threw THEN r = Replaced(s, c)
    ELSE IF c.strong THEN r = s ELSE Basic(s, Replaced(s, c), r)

SequencesInit ==
    content = [x \in Containers |-> << >>] /\ call = [op |-> "construct", turn |-> 0]

SequencesNext ==
    /\ call'.turn = 1 - call.turn
    /\ \A x \in Containers :
         IF call'.op = "swap"
         THEN content'[x] = content[IF x = call'.on THEN call'.from
                                    ELSE IF x = call'.from THEN call'.on ELSE x]
         ELSE IF x = call'.on THEN call'.op = "replace" /\ Effect(call', content[x], content'[x])
         ELSE content'[x] = content[x]

SequencesSpec == SequencesInit /\ [][SequencesNext]_<< content, call >>
=============================================================================
