---------------------------- MODULE AbstractLock ----------------------------
(***************************************************************************)
(* What a client of _STL_mutex_lock relies on (stl_threads.h): a thread    *)
(* asks for the lock, at most one thread at a time is granted it, only the *)
(* holder gives it back, and a free lock that somebody waits for is        *)
(* eventually granted to some waiter.  Nothing is promised about which     *)
(* waiter that is: the lock is not fair.                                   *)
(***************************************************************************)
CONSTANTS Threads, NoThread

VARIABLES waiting,  \* the threads that are inside _M_acquire_lock
          holder    \* the thread that was granted the lock, or NoThread

lockVars == << waiting, holder >>

LockInit == waiting = {} /\ holder = NoThread

Request(t) ==
    /\ t \notin waiting /\ holder # t
    /\ waiting' = waiting \union {t}
    /\ UNCHANGED holder

Grant(t) ==
    /\ t \in waiting /\ holder = NoThread
    /\ holder' = t
    /\ waiting' = waiting \ {t}

\* A request that meets a free lock is granted on the spot.
RequestAndGrant(t) ==
    /\ t \notin waiting /\ holder = NoThread
    /\ holder' = t
    /\ UNCHANGED waiting

GiveBack(t) ==
    /\ holder = t
    /\ holder' = NoThread
    /\ UNCHANGED waiting

LockNext ==
    \E t \in Threads : Request(t) \/ Grant(t) \/ RequestAndGrant(t) \/ GiveBack(t)

LockSafeSpec == LockInit /\ [][LockNext]_lockVars

\* Fair to the waiters as a group, not to each of them.
LockSpec == LockSafeSpec /\ WF_lockVars(\E t \in Threads : Grant(t))
=============================================================================
