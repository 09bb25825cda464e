----------------------------- MODULE MutexLock ------------------------------
(***************************************************************************)
(* _STL_mutex_lock of stl_threads.h in the configurations that build it    *)
(* from _Atomic_swap (SGI and Win32 threads): one swap on the fast path, a *)
(* bounded spin that is tuned by two unsynchronised hints shared by every  *)
(* lock of the program (_STL_mutex_spin<0>::__max and __last), and then a  *)
(* loop of swaps with growing sleeps in between.                           *)
(*                                                                         *)
(* Every access to a shared word is a step of its own.                     *)
(***************************************************************************)
EXTENDS Naturals

CONSTANTS Threads,   \* the threads that use the lock
          NoThread,  \* "nobody", for the refinement mapping
          LowMax,    \* __low_max, 30 in the code
          HighMax,   \* __high_max, 1000 in the code
          MaxSleep   \* where the sleep stops growing, 21 in the code (27 - 6)

ASSUME MutexAssumption ==
    /\ NoThread \notin Threads
    /\ LowMax \in Nat /\ HighMax \in Nat /\ MaxSleep \in Nat
    /\ 0 < LowMax /\ LowMax <= HighMax

VARIABLES _M_lock,     \* the lock word: 0 free, 1 taken
          __max,       \* _STL_mutex_spin<0>::__max, shared hint
          __last,      \* _STL_mutex_spin<0>::__last, shared hint
          pc,          \* where each thread is in _M_acquire_lock
          __my_spin_max, __my_last_spins, __i   \* locals of _M_acquire_lock

vars == << _M_lock, __max, __last, pc, __my_spin_max, __my_last_spins, __i >>
locals == << __my_spin_max, __my_last_spins, __i >>
hints == << __max, __last >>

\* Control points, in the order of the code.  At "recordLast" and "recordMax"
\* the thread already owns the lock and is publishing its hints.
Owning   == {"recordLast", "recordMax", "critical"}
Spinning == {"spinTest", "spinSwap"}
Waiting  == {"readMax", "readLast", "lowerMax", "sleepSwap", "sleep"} \union Spinning
Labels   == {"idle"} \union Waiting \union Owning

TypeOK ==
    /\ _M_lock \in {0, 1}
    /\ __max \in {LowMax, HighMax}
    /\ __last \in Nat
    /\ pc \in [Threads -> Labels]
    /\ __my_spin_max \in [Threads -> {LowMax, HighMax}]
    /\ __my_last_spins \in [Threads -> Nat]
    /\ __i \in [Threads -> Nat]

Init ==
    /\ _M_lock = 0
    /\ __max = LowMax
    /\ __last = 0
    /\ pc = [t \in Threads |-> "idle"]
    /\ __my_spin_max = [t \in Threads |-> LowMax]
    /\ __my_last_spins = [t \in Threads |-> 0]
    /\ __i = [t \in Threads |-> 0]

Goto(t, from, to) == pc[t] = from /\ pc' = [pc EXCEPT ![t] = to]

\* !_Atomic_swap(__lock, 1): the word becomes 1 whatever it was, and the
\* caller learns whether it was 0.
AtomicSwapWins == _M_lock = 0 /\ _M_lock' = 1
\* Mutant of AtomicSwapLoses: the swap stores 0.
SwapStoresZero == _M_lock = 1 /\ _M_lock' = 0
AtomicSwapLoses == _M_lock = 1 /\ _M_lock' = 1

-----------------------------------------------------------------------------
(* _M_acquire_lock                                                         *)

TryOnce(t) ==
    /\ \/ AtomicSwapWins /\ Goto(t, "idle", "critical")
       \/ AtomicSwapLoses /\ Goto(t, "idle", "readMax")
    /\ UNCHANGED << hints, locals >>

ReadMax(t) ==
    /\ Goto(t, "readMax", "readLast")
    /\ __my_spin_max' = [__my_spin_max EXCEPT ![t] = __max]
    /\ UNCHANGED << _M_lock, hints, __my_last_spins, __i >>

ReadLast(t) ==
    /\ Goto(t, "readLast", "spinTest")
    /\ __my_last_spins' = [__my_last_spins EXCEPT ![t] = __last]
    /\ __i' = [__i EXCEPT ![t] = 0]
    /\ UNCHANGED << _M_lock, hints, __my_spin_max >>

\* Mutants of SpinOn: the loop condition is <=; a turn that finds the lock taken
\* is not counted.
SpinOnOneMore(t) ==
    /\ Goto(t, "spinTest", "spinTest")
    /\ __i[t] <= __my_spin_max[t]
    /\ __i[t] < __my_last_spins[t] \div 2 \/ _M_lock # 0
    /\ __i' = [__i EXCEPT ![t] = @ + 1]
    /\ UNCHANGED << _M_lock, hints, __my_spin_max, __my_last_spins >>

SpinOnUncounted(t) ==
    /\ Goto(t, "spinTest", "spinTest")
    /\ __i[t] < __my_spin_max[t]
    /\ __i[t] < __my_last_spins[t] \div 2 \/ _M_lock # 0
    /\ __i' = [__i EXCEPT ![t] = IF _M_lock = 0 THEN @ + 1 ELSE @]
    /\ UNCHANGED << _M_lock, hints, __my_spin_max, __my_last_spins >>

\* One turn of the spin loop that does not try the swap: too early compared
\* with the last success, or the lock looks taken.
SpinOn(t) ==
    /\ Goto(t, "spinTest", "spinTest")
    /\ __i[t] < __my_spin_max[t]
    /\ __i[t] < __my_last_spins[t] \div 2 \/ _M_lock # 0
    /\ __i' = [__i EXCEPT ![t] = @ + 1]
    /\ UNCHANGED << _M_lock, hints, __my_spin_max, __my_last_spins >>

\* Mutant of SeesFree: the last success is not taken into account.
SeesFreeAtOnce(t) ==
    /\ Goto(t, "spinTest", "spinSwap")
    /\ __i[t] < __my_spin_max[t]
    /\ _M_lock = 0
    /\ UNCHANGED << _M_lock, hints, locals >>

SeesFree(t) ==
    /\ Goto(t, "spinTest", "spinSwap")
    /\ __i[t] < __my_spin_max[t]
    /\ __i[t] >= __my_last_spins[t] \div 2 /\ _M_lock = 0
    /\ UNCHANGED << _M_lock, hints, locals >>

\* Mutant of SpinSwap: the thread that saw the lock free takes it with a store.
SpinStore(t) ==
    /\ Goto(t, "spinSwap", "recordLast")
    /\ _M_lock' = 1
    /\ UNCHANGED << hints, locals >>

\* Between the look and the swap another thread may have taken the lock.
SpinSwap(t) ==
    /\ \/ /\ AtomicSwapWins /\ Goto(t, "spinSwap", "recordLast")
          /\ UNCHANGED __i
       \/ /\ AtomicSwapLoses /\ Goto(t, "spinSwap", "spinTest")
          /\ __i' = [__i EXCEPT ![t] = @ + 1]
    /\ UNCHANGED << hints, __my_spin_max, __my_last_spins >>

RecordLast(t) ==
    /\ Goto(t, "recordLast", "recordMax")
    /\ __last' = __i[t]
    /\ UNCHANGED << _M_lock, __max, locals >>

\* Mutant of RecordMax: the limit becomes the number of spins that worked.
RecordMaxFromSpins(t) ==
    /\ Goto(t, "recordMax", "critical")
    /\ __max' = __i[t]
    /\ UNCHANGED << _M_lock, __last, locals >>

RecordMax(t) ==
    /\ Goto(t, "recordMax", "critical")
    /\ __max' = HighMax
    /\ UNCHANGED << _M_lock, __last, locals >>

SpinExhausted(t) ==
    /\ Goto(t, "spinTest", "lowerMax")
    /\ __i[t] >= __my_spin_max[t]
    /\ UNCHANGED << _M_lock, hints, locals >>

LowerMax(t) ==
    /\ Goto(t, "lowerMax", "sleepSwap")
    /\ __max' = LowMax
    /\ __i' = [__i EXCEPT ![t] = 0]
    /\ UNCHANGED << _M_lock, __last, __my_spin_max, __my_last_spins >>

SleepSwap(t) ==
    /\ \/ AtomicSwapWins /\ Goto(t, "sleepSwap", "critical")
       \/ AtomicSwapLoses /\ Goto(t, "sleepSwap", "sleep")
    /\ UNCHANGED << hints, locals >>

\* _S_nsec_sleep: the exponent grows with __i and is capped, so __i itself is
\* kept only up to the cap.
Sleep(t) ==
    /\ Goto(t, "sleep", "sleepSwap")
    /\ __i' = [__i EXCEPT ![t] = IF @ < MaxSleep THEN @ + 1 ELSE @]
    /\ UNCHANGED << _M_lock, hints, __my_spin_max, __my_last_spins >>

-----------------------------------------------------------------------------
(* _M_release_lock: a plain store.  The locals died with _M_acquire_lock;  *)
(* they are put back to their initial values to keep the state small.      *)

\* Mutant of ReleaseLock: the store is missing.
ReleaseWithoutStore(t) ==
    /\ Goto(t, "critical", "idle")
    /\ __my_spin_max' = [__my_spin_max EXCEPT ![t] = LowMax]
    /\ __my_last_spins' = [__my_last_spins EXCEPT ![t] = 0]
    /\ __i' = [__i EXCEPT ![t] = 0]
    /\ UNCHANGED << _M_lock, hints >>

ReleaseLock(t) ==
    /\ Goto(t, "critical", "idle")
    /\ _M_lock' = 0
    /\ __my_spin_max' = [__my_spin_max EXCEPT ![t] = LowMax]
    /\ __my_last_spins' = [__my_last_spins EXCEPT ![t] = 0]
    /\ __i' = [__i EXCEPT ![t] = 0]
    /\ UNCHANGED hints

-----------------------------------------------------------------------------
\* What a thread does once it has asked for the lock.
AcquireStep(t) ==
    \/ ReadMax(t) \/ ReadLast(t)
    \/ SpinOn(t) \/ SeesFree(t) \/ SpinSwap(t) \/ SpinExhausted(t)
    \/ RecordLast(t) \/ RecordMax(t)
    \/ LowerMax(t) \/ SleepSwap(t) \/ Sleep(t)

Next == \E t \in Threads : TryOnce(t) \/ AcquireStep(t) \/ ReleaseLock(t)

Spec == Init /\ [][Next]_vars

(***************************************************************************)
(* The operating system runs every thread that is in the middle of an      *)
(* acquire, and a client that owns the lock gives it back.  Nobody has to  *)
(* ask for the lock.                                                       *)
(***************************************************************************)
Fairness == \A t \in Threads : WF_vars(AcquireStep(t)) /\ WF_vars(ReleaseLock(t))

FairSpec == Spec /\ Fairness

-----------------------------------------------------------------------------
(* Properties                                                              *)

Owners == {t \in Threads : pc[t] \in Owning}

\* No two threads are past _M_acquire_lock at once, although they learn that
\* the lock is free from separate reads and swaps of the same word.
MutualExclusion == \A t, u \in Owners : t = u

\* The word is 0 only when nobody owns the lock: no release can free a lock
\* that another thread has just won.
FreeMeansUnowned == _M_lock = 0 <=> Owners = {}

\* Every pass of the spin loop is bounded: whatever the other threads do to the
\* lock word and to the hints, a spinning thread gets the lock or goes to sleep.
SpinEnds ==
    \A t \in Threads :
        pc[t] \in Spinning ~> pc[t] \in Owning \union {"lowerMax"}

\* The hint is always a spin count that some thread could have reached, and no
\* thread spins longer than the limit it read, although hint and limit are
\* read and written without any synchronisation.
SpinBounds ==
    /\ __last < HighMax
    /\ \A t \in Threads :
         /\ pc[t] = "spinTest" => __i[t] <= __my_spin_max[t]
         /\ pc[t] \in {"spinSwap", "recordLast"} => __i[t] < __my_spin_max[t]

\* The two hints can reach values for which no spin looks at the lock at all
\* (the limit is low, half of the last success is above it), and every thread
\* that still spins read that limit.
SpinDisabled ==
    /\ __max = LowMax /\ __last \div 2 >= LowMax
    /\ \A t \in Threads :
         /\ pc[t] \in Spinning \union {"readLast"} => __my_spin_max[t] = LowMax
         /\ pc[t] \in Spinning => __my_last_spins[t] \div 2 >= LowMax
         /\ pc[t] \notin {"spinSwap", "recordLast", "recordMax"}

\* The hints are a trap: only a successful spin raises the limit or changes the
\* last success, so once no spin can succeed none ever will, for any lock of
\* the program.  Contended acquires then always fall through to sleeping.
SpinStaysDisabled == [][SpinDisabled => SpinDisabled']_vars

\* The abstract lock that the threads see.
Abs == INSTANCE AbstractLock
         WITH waiting <- {t \in Threads : pc[t] \in Waiting},
              holder  <- IF Owners = {} THEN NoThread
                         ELSE CHOOSE t \in Threads : pc[t] \in Owning

\* The spin lock is a lock: it grants, refuses and frees as the abstract one,
\* and a free lock with waiters is granted to one of them.
ImplementsLock == Abs!LockSpec
=============================================================================
