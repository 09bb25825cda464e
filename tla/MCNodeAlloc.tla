---------------------------- MODULE MCNodeAlloc -----------------------------
(***************************************************************************)
(* Model-checking instance of NodeAlloc.  Init picks one of two kinds of   *)
(* clients: "one" thread that asks for all sizes, or "two" threads that    *)
(* ask for one node size and one large size and hold one block less.       *)
(***************************************************************************)
EXTENDS NodeAlloc

CONSTANTS t1, t2
TwoThreads == {t1, t2}
ThreeSizes == {1, 4, 5}
\* Memory that the rest of the program holds and the handler can give back.
SomeOutside == {[addr |-> 2, size |-> 6]}

VARIABLE clients

MCInit == Init /\ clients \in {"one", "two"}

\* What the clients ask for; once inside the allocator a thread is left alone.
Calls ==
    IF clients = "one" THEN pc'[t2] = "idle"
    ELSE /\ \A t \in TwoThreads : n'[t] # 1
         /\ \A b \in live' : b.size # 1
         /\ \A t \in TwoThreads : n[t] = 0 /\ n'[t] # 0 /\ moving'[t] = {} =>
                                 Cardinality(live) < MaxHeld - 1

MCNext == Next /\ Calls /\ UNCHANGED clients

MCSpec == MCInit /\ [][MCNext]_<< vars, clients >> /\ Fairness
=============================================================================
