--------------------------- MODULE MCPthreadAlloc ---------------------------
(***************************************************************************)
(* Model-checking instances of PthreadAlloc, of which Init picks one:      *)
(* "nodes" asks malloc for two nodes at a time, "leftover" for one, so     *)
(* that pool remainders turn up within little memory, and in "failing",    *)
(* with less memory still, pthread_setspecific may fail.                   *)
(***************************************************************************)
EXTENDS PthreadAlloc, TLC

CONSTANTS t1, t2
TwoThreads == {t1, t2}
TwoSizes == {1, 4}
Symmetry == Permutations(TwoThreads)

VARIABLE instance

Leftover == INSTANCE PthreadAlloc WITH NObjs <- 1, MemTop <- 13
Failing == INSTANCE PthreadAlloc WITH NObjs <- 1, MemTop <- 11, SetspecificFails <- TRUE

MCInit == Init /\ instance \in {"nodes", "leftover", "failing"}

MCNext ==
    /\ \/ instance = "nodes" /\ Next
       \/ instance = "leftover" /\ Leftover!Next
       \/ instance = "failing" /\ Failing!Next
    /\ UNCHANGED instance

MCSpec == MCInit /\ [][MCNext]_<< vars, instance >>
=============================================================================
