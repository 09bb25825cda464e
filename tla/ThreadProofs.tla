---------------------------- MODULE ThreadProofs ----------------------------
(***************************************************************************)
(* The words that threads share.                                           *)
(*                                                                         *)
(* The spin lock, for any set of threads and any spin limits: it excludes, *)
(* and its steps are steps of the abstract lock.  The shared rope node,    *)
(* for any finite set of threads and any strings: its count is exact, and  *)
(* every C string has one owner until it is freed once.  What depends on   *)
(* fairness, that spins end, that waiters get the lock, that the end of    *)
(* the last rope frees the node, is left to TLC.                           *)
(***************************************************************************)
EXTENDS MutexLock, RopeSharing, FiniteSetTheorems, TLAPS

-----------------------------------------------------------------------------
(* The spin lock                                                           *)

(***************************************************************************)
(* Every variable of stl_threads.h's lock keeps its type.                  *)
(***************************************************************************)
THEOREM TypeCorrect == Spec => []TypeOK
<1>1. Init => TypeOK
  BY MutexAssumption DEF Init, TypeOK, Labels
<1>2. TypeOK /\ [Next]_vars => TypeOK'
  <2> SUFFICES ASSUME TypeOK, [Next]_vars PROVE TypeOK'
    OBVIOUS
  <2> USE MutexAssumption DEF TypeOK, Labels, Waiting, Spinning, Owning, Goto, locals, hints
  <2>1. ASSUME NEW t \in Threads, TryOnce(t) PROVE TypeOK'
    BY <2>1 DEF TryOnce, AtomicSwapWins, AtomicSwapLoses
  <2>2. ASSUME NEW t \in Threads, ReadMax(t) PROVE TypeOK'
    BY <2>2 DEF ReadMax
  <2>3. ASSUME NEW t \in Threads, ReadLast(t) PROVE TypeOK'
    BY <2>3 DEF ReadLast
  <2>4. ASSUME NEW t \in Threads, SpinOn(t) PROVE TypeOK'
    BY <2>4 DEF SpinOn
  <2>5. ASSUME NEW t \in Threads, SeesFree(t) PROVE TypeOK'
    BY <2>5 DEF SeesFree
  <2>6. ASSUME NEW t \in Threads, SpinSwap(t) PROVE TypeOK'
    BY <2>6 DEF SpinSwap, AtomicSwapWins, AtomicSwapLoses
  <2>7. ASSUME NEW t \in Threads, SpinExhausted(t) PROVE TypeOK'
    BY <2>7 DEF SpinExhausted
  <2>8. ASSUME NEW t \in Threads, RecordLast(t) PROVE TypeOK'
    BY <2>8 DEF RecordLast
  <2>9. ASSUME NEW t \in Threads, RecordMax(t) PROVE TypeOK'
    BY <2>9 DEF RecordMax
  <2>10. ASSUME NEW t \in Threads, LowerMax(t) PROVE TypeOK'
    BY <2>10 DEF LowerMax
  <2>11. ASSUME NEW t \in Threads, SleepSwap(t) PROVE TypeOK'
    BY <2>11 DEF SleepSwap, AtomicSwapWins, AtomicSwapLoses
  <2>12. ASSUME NEW t \in Threads, Sleep(t) PROVE TypeOK'
    BY <2>12 DEF Sleep
  <2>13. ASSUME NEW t \in Threads, ReleaseLock(t) PROVE TypeOK'
    BY <2>13 DEF ReleaseLock
  <2>14. CASE UNCHANGED vars
    BY <2>14 DEF vars
  <2>15. QED
    BY <2>1, <2>2, <2>3, <2>4, <2>5, <2>6, <2>7, <2>8, <2>9, <2>10, <2>11, <2>12,
       <2>13, <2>14 DEF Next, AcquireStep
<1>3. QED
  BY <1>1, <1>2, PTL DEF Spec

-----------------------------------------------------------------------------
(***************************************************************************)
(* The lock word against the control points: one owner at most, and the    *)
(* word is 0 exactly when there is none.  Neither half is inductive alone: *)
(* a swap that wins adds an owner because the word was 0.                  *)
(***************************************************************************)
LockInv == MutualExclusion /\ FreeMeansUnowned

\* At first nobody owns the lock and its word is 0.
LEMMA LockInvInit == Init => LockInv
BY DEF Init, LockInv, MutualExclusion, FreeMeansUnowned, Owners, Owning

\* A step of t that leaves the word alone and neither enters nor leaves the
\* owning control points keeps LockInv.
LEMMA SameOwners ==
  ASSUME TypeOK, LockInv, Owners' = Owners, _M_lock' = _M_lock
  PROVE  LockInv'
BY DEF LockInv, MutualExclusion, FreeMeansUnowned

\* A won swap: there was no owner, now there is one.
LEMMA SwapWon ==
  ASSUME TypeOK, LockInv, NEW t \in Threads, NEW from, NEW to \in Owning,
         AtomicSwapWins, Goto(t, from, to)
  PROVE  LockInv'
<1>1. Owners = {}
  BY DEF LockInv, FreeMeansUnowned, AtomicSwapWins
<1>2. Owners' = {t}
  BY <1>1 DEF Owners, Goto, TypeOK
<1>3. QED
  BY <1>2 DEF LockInv, MutualExclusion, FreeMeansUnowned, AtomicSwapWins

\* Each access to a shared word keeps the lock exclusive and its word true.
LEMMA LockInvStep == TypeOK /\ LockInv /\ [Next]_vars => LockInv'
<1> SUFFICES ASSUME TypeOK, LockInv, [Next]_vars PROVE LockInv'
  OBVIOUS
<1> USE DEF Owning, Goto
<1>1. ASSUME NEW t \in Threads, TryOnce(t) PROVE LockInv'
  <2>1. CASE AtomicSwapWins
    BY <1>1, <2>1, SwapWon DEF TryOnce, AtomicSwapLoses, AtomicSwapWins
  <2>2. CASE AtomicSwapLoses
    <3>1. Owners' = Owners /\ _M_lock' = _M_lock
      BY <1>1, <2>2 DEF TryOnce, AtomicSwapLoses, AtomicSwapWins, Owners, TypeOK
    <3>2. QED
      BY <3>1, SameOwners
  <2>3. QED
    BY <1>1, <2>1, <2>2 DEF TryOnce
<1>2. ASSUME NEW t \in Threads, ReadMax(t) \/ ReadLast(t) \/ SpinOn(t) \/ SeesFree(t)
                                \/ SpinExhausted(t) \/ LowerMax(t) \/ Sleep(t)
      PROVE  LockInv'
  <2>1. Owners' = Owners /\ _M_lock' = _M_lock
    BY <1>2 DEF ReadMax, ReadLast, SpinOn, SeesFree, SpinExhausted, LowerMax, Sleep,
                Owners, TypeOK
  <2>2. QED
    BY <2>1, SameOwners
<1>3. ASSUME NEW t \in Threads, SpinSwap(t) PROVE LockInv'
  <2>1. CASE AtomicSwapWins
    BY <1>3, <2>1, SwapWon DEF SpinSwap, AtomicSwapLoses, AtomicSwapWins
  <2>2. CASE AtomicSwapLoses
    <3>1. Owners' = Owners /\ _M_lock' = _M_lock
      BY <1>3, <2>2 DEF SpinSwap, AtomicSwapLoses, AtomicSwapWins, Owners, TypeOK
    <3>2. QED
      BY <3>1, SameOwners
  <2>3. QED
    BY <1>3, <2>1, <2>2 DEF SpinSwap
<1>4. ASSUME NEW t \in Threads, SleepSwap(t) PROVE LockInv'
  <2>1. CASE AtomicSwapWins
    BY <1>4, <2>1, SwapWon DEF SleepSwap, AtomicSwapLoses, AtomicSwapWins
  <2>2. CASE AtomicSwapLoses
    <3>1. Owners' = Owners /\ _M_lock' = _M_lock
      BY <1>4, <2>2 DEF SleepSwap, AtomicSwapLoses, AtomicSwapWins, Owners, TypeOK
    <3>2. QED
      BY <3>1, SameOwners
  <2>3. QED
    BY <1>4, <2>1, <2>2 DEF SleepSwap
<1>5. ASSUME NEW t \in Threads, RecordLast(t) \/ RecordMax(t) PROVE LockInv'
  <2>1. Owners' = Owners /\ _M_lock' = _M_lock
    BY <1>5 DEF RecordLast, RecordMax, Owners, TypeOK
  <2>2. QED
    BY <2>1, SameOwners
<1>6. ASSUME NEW t \in Threads, ReleaseLock(t) PROVE LockInv'
  <2>1. t \in Owners
    BY <1>6 DEF ReleaseLock, Owners
  <2>2. Owners' = {}
    BY <1>6, <2>1 DEF ReleaseLock, Owners, TypeOK, LockInv, MutualExclusion
  <2>3. QED
    BY <1>6, <2>2 DEF ReleaseLock, LockInv, MutualExclusion, FreeMeansUnowned
<1>7. CASE UNCHANGED vars
  <2>1. Owners' = Owners /\ _M_lock' = _M_lock
    BY <1>7 DEF vars, Owners
  <2>2. QED
    BY <2>1, SameOwners
<1>8. QED
  BY <1>1, <1>2, <1>3, <1>4, <1>5, <1>6, <1>7 DEF Next, AcquireStep

(***************************************************************************)
(* No two threads leave _M_acquire_lock without a release in between.      *)
(***************************************************************************)
THEOREM Exclusion == Spec => []MutualExclusion
<1>1. LockInv => MutualExclusion
  BY DEF LockInv
<1>2. QED
  BY LockInvInit, LockInvStep, TypeCorrect, <1>1, PTL DEF Spec

(***************************************************************************)
(* The lock word is 0 exactly when no thread owns the lock.                *)
(***************************************************************************)
THEOREM FreeIffUnowned == Spec => []FreeMeansUnowned
<1>1. LockInv => FreeMeansUnowned
  BY DEF LockInv
<1>2. QED
  BY LockInvInit, LockInvStep, TypeCorrect, <1>1, PTL DEF Spec

-----------------------------------------------------------------------------
(***************************************************************************)
(* Spinning threads respect the limit they read, and the shared hint stays *)
(* below __high_max, for any interleaving of the unsynchronised accesses.  *)
(***************************************************************************)
THEOREM SpinsBounded == Spec => []SpinBounds
<1>1. Init => SpinBounds
  BY MutexAssumption DEF Init, SpinBounds
<1>2. TypeOK /\ SpinBounds /\ [Next]_vars => SpinBounds'
  <2> SUFFICES ASSUME TypeOK, SpinBounds, [Next]_vars PROVE SpinBounds'
    OBVIOUS
  <2> USE MutexAssumption DEF TypeOK, SpinBounds, Goto, locals, hints
  <2>1. ASSUME NEW t \in Threads, TryOnce(t) \/ SeesFree(t) \/ SpinExhausted(t) \/ SleepSwap(t)
        PROVE  SpinBounds'
    BY <2>1 DEF TryOnce, SeesFree, SpinExhausted, SleepSwap
  <2>2. ASSUME NEW t \in Threads, ReadMax(t) \/ ReadLast(t) PROVE SpinBounds'
    BY <2>2 DEF ReadMax, ReadLast
  <2>3. ASSUME NEW t \in Threads, SpinOn(t) PROVE SpinBounds'
    BY <2>3 DEF SpinOn
  <2>4. ASSUME NEW t \in Threads, SpinSwap(t) PROVE SpinBounds'
    BY <2>4 DEF SpinSwap
  <2>5. ASSUME NEW t \in Threads, RecordLast(t) PROVE SpinBounds'
    BY <2>5 DEF RecordLast
  <2>6. ASSUME NEW t \in Threads, RecordMax(t) PROVE SpinBounds'
    BY <2>6 DEF RecordMax
  <2>7. ASSUME NEW t \in Threads, LowerMax(t) \/ Sleep(t) \/ ReleaseLock(t) PROVE SpinBounds'
    BY <2>7 DEF LowerMax, Sleep, ReleaseLock
  <2>8. CASE UNCHANGED vars
    BY <2>8 DEF vars
  <2>9. QED
    BY <2>1, <2>2, <2>3, <2>4, <2>5, <2>6, <2>7, <2>8 DEF Next, AcquireStep
<1>3. QED
  BY <1>1, <1>2, TypeCorrect, PTL DEF Spec

(***************************************************************************)
(* The hints of _STL_mutex_spin are a trap: when no spin can succeed any   *)
(* more, no step of any thread makes one possible again.                   *)
(***************************************************************************)
THEOREM SpinTrap == Spec => SpinStaysDisabled
<1>1. TypeOK /\ [Next]_vars => [SpinDisabled => SpinDisabled']_vars
  <2> SUFFICES ASSUME TypeOK, Next, SpinDisabled PROVE SpinDisabled'
    OBVIOUS
  <2> USE MutexAssumption DEF TypeOK, SpinDisabled, Spinning, Goto, locals, hints
  <2>1. PICK t \in Threads : TryOnce(t) \/ AcquireStep(t) \/ ReleaseLock(t)
    BY DEF Next
  <2>2. CASE TryOnce(t) \/ ReadMax(t) \/ SpinExhausted(t) \/ SleepSwap(t)
    BY <2>2 DEF TryOnce, ReadMax, SpinExhausted, SleepSwap
  <2>3. CASE ReadLast(t)
    BY <2>3 DEF ReadLast
  <2>4. CASE SpinOn(t)
    BY <2>4 DEF SpinOn
  <2>5. CASE SeesFree(t)
    BY <2>5 DEF SeesFree
  <2>6. CASE SpinSwap(t) \/ RecordLast(t) \/ RecordMax(t)
    BY <2>6 DEF SpinSwap, RecordLast, RecordMax
  <2>7. CASE LowerMax(t) \/ Sleep(t) \/ ReleaseLock(t)
    BY <2>7 DEF LowerMax, Sleep, ReleaseLock
  <2>8. QED
    BY <2>1, <2>2, <2>3, <2>4, <2>5, <2>6, <2>7 DEF AcquireStep
<1>2. QED
  BY <1>1, TypeCorrect, PTL DEF Spec, SpinStaysDisabled

-----------------------------------------------------------------------------
(***************************************************************************)
(* Refinement.  Holder is the owner the mapping chooses; LockInv makes the *)
(* choice unique.                                                          *)
(***************************************************************************)
Holder  == IF Owners = {} THEN NoThread ELSE CHOOSE t \in Threads : pc[t] \in Owning
Waiters == {t \in Threads : pc[t] \in Waiting}

\* Given LockInv, the holder of the mapping is any thread that owns the lock.
LEMMA HolderIsOwner ==
  ASSUME LockInv, NEW t \in Owners
  PROVE  Holder = t
BY DEF LockInv, MutualExclusion, Holder, Owners

\* The same after a step.
LEMMA HolderIsOwnerNext ==
  ASSUME LockInv', NEW t \in Threads, t \in Owners'
  PROVE  Holder' = t
BY DEF LockInv, MutualExclusion, Holder, Owners

\* Steps inside _M_acquire_lock that do not change who waits and who owns.
LEMMA SameOwnersSameHolder ==
  ASSUME TypeOK, TypeOK', Owners' = Owners, LockInv, LockInv'
  PROVE  Holder' = Holder
<1>1. CASE Owners = {}
  BY <1>1 DEF Holder
<1>2. CASE Owners # {}
  <2>1. PICK t \in Owners : TRUE
    BY <1>2
  <2>2. t \in Threads
    BY DEF Owners
  <2>3. QED
    BY <2>1, <2>2, HolderIsOwner, HolderIsOwnerNext
<1>3. QED
  BY <1>1, <1>2

\* A swap that wins is a grant to a thread that waits, or both request and grant.
LEMMA WonSwapGrants ==
  ASSUME TypeOK, LockInv, LockInv', NEW t \in Threads, NEW from, NEW to \in Owning,
         from \in Waiting \union {"idle"},
         AtomicSwapWins, Goto(t, from, to)
  PROVE  Abs!Grant(t) \/ Abs!RequestAndGrant(t)
<1> USE DEF Owning, Waiting, Spinning, Goto, TypeOK, Labels
<1>1. Owners = {}
  BY DEF LockInv, FreeMeansUnowned, AtomicSwapWins
<1>2. t \in Owners'
  BY DEF Owners
<1>3. Holder = NoThread /\ Holder' = t
  BY <1>1, <1>2, HolderIsOwnerNext DEF Holder
<1>4. Waiters' = Waiters \ {t}
  BY DEF Waiters
<1>5. CASE from \in Waiting
  BY <1>3, <1>4, <1>5 DEF Abs!Grant, Holder, Waiters
<1>6. CASE from = "idle"
  <2>1. t \notin Waiters /\ Waiters' = Waiters
    BY <1>4, <1>6 DEF Waiters
  <2>2. QED
    BY <1>3, <2>1 DEF Abs!RequestAndGrant, Holder, Waiters
<1>7. QED
  BY <1>5, <1>6

\* Each step of the spin lock is a step of the abstract lock, or a stutter.
LEMMA StepSimulation ==
  TypeOK /\ TypeOK' /\ LockInv /\ LockInv' /\ [Next]_vars => [Abs!LockNext]_(Abs!lockVars)
<1> SUFFICES ASSUME TypeOK, TypeOK', LockInv, LockInv', [Next]_vars
             PROVE  [Abs!LockNext]_(Abs!lockVars)
  OBVIOUS
<1>stutter. ASSUME Owners' = Owners, Waiters' = Waiters
            PROVE  UNCHANGED Abs!lockVars
  BY <1>stutter, SameOwnersSameHolder DEF Abs!lockVars, Holder, Waiters
<1>1. ASSUME NEW t \in Threads, TryOnce(t) PROVE Abs!LockNext
  <2>1. CASE AtomicSwapWins /\ Goto(t, "idle", "critical")
    <3>1. Abs!Grant(t) \/ Abs!RequestAndGrant(t)
      BY <2>1, WonSwapGrants DEF Owning
    <3>2. QED
      BY <3>1 DEF Abs!LockNext
  <2>2. CASE AtomicSwapLoses /\ Goto(t, "idle", "readMax")
    <3> USE <2>2 DEF Goto, TypeOK, Owning, Waiting, Spinning
    <3>1. Owners' = Owners /\ t \notin Owners
      BY DEF Owners
    <3>2. Holder' = Holder
      BY <3>1, SameOwnersSameHolder
    <3>3. Holder # t
      BY <3>1, MutexAssumption DEF Holder, Owners
    <3>4. t \notin Waiters /\ Waiters' = Waiters \union {t}
      BY DEF Waiters
    <3>5. Abs!Request(t)
      BY <3>2, <3>3, <3>4 DEF Abs!Request, Holder, Waiters
    <3>6. QED
      BY <3>5 DEF Abs!LockNext
  <2>3. QED
    BY <1>1, <2>1, <2>2 DEF TryOnce
<1>2. ASSUME NEW t \in Threads, ReadMax(t) \/ ReadLast(t) \/ SpinOn(t) \/ SeesFree(t)
                                \/ SpinExhausted(t) \/ LowerMax(t) \/ Sleep(t)
                                \/ RecordLast(t) \/ RecordMax(t)
      PROVE  UNCHANGED Abs!lockVars
  <2>1. Owners' = Owners /\ Waiters' = Waiters
    BY <1>2 DEF ReadMax, ReadLast, SpinOn, SeesFree, SpinExhausted, LowerMax, Sleep,
                RecordLast, RecordMax, Owners, Waiters, Owning, Waiting, Spinning, Goto, TypeOK
  <2>2. QED
    BY <2>1, <1>stutter
<1>3. ASSUME NEW t \in Threads, SpinSwap(t) \/ SleepSwap(t)
      PROVE  Abs!LockNext \/ UNCHANGED Abs!lockVars
  <2>1. CASE \/ AtomicSwapWins /\ Goto(t, "spinSwap", "recordLast")
             \/ AtomicSwapWins /\ Goto(t, "sleepSwap", "critical")
    <3>1. Abs!Grant(t) \/ Abs!RequestAndGrant(t)
      BY <2>1, WonSwapGrants DEF Owning, Waiting, Spinning
    <3>2. QED
      BY <3>1 DEF Abs!LockNext
  <2>2. CASE \/ Goto(t, "spinSwap", "spinTest")
             \/ Goto(t, "sleepSwap", "sleep")
    <3>1. Owners' = Owners /\ Waiters' = Waiters
      BY <2>2 DEF Owners, Waiters, Owning, Waiting, Spinning, Goto, TypeOK
    <3>2. QED
      BY <3>1, <1>stutter
  <2>3. QED
    BY <1>3, <2>1, <2>2 DEF SpinSwap, SleepSwap
<1>4. ASSUME NEW t \in Threads, ReleaseLock(t) PROVE Abs!LockNext
  <2> USE <1>4 DEF ReleaseLock, Goto, Owning, Waiting, Spinning, TypeOK
  <2>1. t \in Owners
    BY DEF Owners
  <2>2. Holder = t
    BY <2>1, HolderIsOwner
  <2>3. Owners' = {}
    BY <2>1 DEF Owners, LockInv, MutualExclusion
  <2>4. Holder' = NoThread
    BY <2>3 DEF Holder
  <2>5. Waiters' = Waiters
    BY DEF Waiters
  <2>6. Abs!GiveBack(t)
    BY <2>2, <2>4, <2>5 DEF Abs!GiveBack, Holder, Waiters
  <2>7. QED
    BY <2>6 DEF Abs!LockNext
<1>5. CASE UNCHANGED vars
  <2>1. Owners' = Owners /\ Waiters' = Waiters
    BY <1>5 DEF vars, Owners, Waiters
  <2>2. QED
    BY <2>1, <1>stutter
<1>6. QED
  BY <1>1, <1>2, <1>3, <1>4, <1>5 DEF Next, AcquireStep

(***************************************************************************)
(* Every behaviour of the spin lock is a behaviour of the abstract lock.   *)
(***************************************************************************)
THEOREM RefinesLock == Spec => Abs!LockSafeSpec
<1>1. Init => Abs!LockInit
  BY DEF Init, Abs!LockInit, Owners, Owning, Waiting, Spinning
<1>2. QED
  BY <1>1, StepSimulation, LockInvInit, LockInvStep, TypeCorrect, PTL
     DEF Spec, Abs!LockSafeSpec

-----------------------------------------------------------------------------
(* The shared rope node: the inductive invariant                           *)

\* The calls that a thread makes through a rope of its own.
InCall == {"flatten", "swap", "replaced", "delete", "clear"}
Deleting == {"delete", "clear"}

\* The count against the ropes, and the ropes against the control points.
CountInv ==
    /\ _M_ref_count = Cardinality(rope)
    /\ node = "freed" => rope = {}
    /\ \A t \in Users : at[t] \in InCall => t \in rope
    /\ \A t \in Users : at[t] \in Deleting => rope = {t}
    /\ \A t \in Users : at[t] = "decremented" => node = "alive" /\ rope = {}
    /\ \A t, u \in Users : at[t] = "decremented" /\ at[u] = "decremented" => t = u

\* A thread has a new string between its allocation and the swap, and one that
\* it took out of the node between the swap and the deallocation.
PrivateInv ==
    \A t \in Users :
        /\ result[t] # Null <=> at[t] = "swap"
        /\ old[t] # Null <=> at[t] = "replaced"

\* A string has one owner: a thread's new string, a thread's replaced string,
\* or the node.
OneOwner ==
    /\ \A t, u \in Users :
         /\ result[t] # Null /\ result[t] = result[u] => t = u
         /\ old[t] # Null /\ old[t] = old[u] => t = u
         /\ result[t] # Null => result[t] # old[u]
    /\ \A t \in Users :
         /\ result[t] # Null => result[t] # _M_c_string
         /\ old[t] # Null => old[t] # _M_c_string

\* Owned strings were allocated and are not freed; the node's is freed only
\* with the node, or by delete_c_str just before it clears the pointer.
OwnedInv ==
    /\ \A t \in Users :
         /\ result[t] # Null => result[t] \in used /\ freed[result[t]] = 0
         /\ old[t] # Null => old[t] \in used /\ freed[old[t]] = 0
    /\ _M_c_string # Null =>
         /\ _M_c_string \in used
         /\ node = "alive" /\ (\A t \in Users : at[t] # "clear") =>
              freed[_M_c_string] = 0
         /\ (\E t \in Users : at[t] = "clear") => freed[_M_c_string] = 1

\* A string is freed at most once, and only after it was allocated.
FreedInv == \A s \in Strings : freed[s] <= 1 /\ (freed[s] > 0 => s \in used)

StringInv == PrivateInv /\ OneOwner /\ OwnedInv /\ FreedInv /\ NoStringLeaks

SharingInv == RopeTypeOK /\ CountInv /\ StringInv

(***************************************************************************)
(* The one rope of the initial state, and the node without a C string.     *)
(***************************************************************************)
LEMMA InitInv == RopeInit => SharingInv
<1> SUFFICES ASSUME RopeInit PROVE SharingInv
  OBVIOUS
<1>1. PICK t \in Users : rope = {t}
  BY DEF RopeInit
<1>2. Cardinality(rope) = 1 /\ Cardinality(Users) \in Nat /\ Cardinality(rope) <= Cardinality(Users)
  BY <1>1, RopeSharingAssumption, FS_Singleton, FS_CardinalityType, FS_Subset
<1>3. RopeTypeOK
  BY <1>1, <1>2 DEF RopeInit, RopeTypeOK, Stages
<1>4. CountInv
  BY <1>1, <1>2 DEF RopeInit, CountInv, InCall, Deleting
<1>5. StringInv
  BY DEF RopeInit, StringInv, PrivateInv, OneOwner, OwnedInv, FreedInv, NoStringLeaks
<1>6. QED
  BY <1>3, <1>4, <1>5 DEF SharingInv

(***************************************************************************)
(* How the number of ropes changes when one is copied or destroyed, which  *)
(* is what _M_incr and _M_decr keep up with.                               *)
(***************************************************************************)
LEMMA RopeCount ==
  ASSUME RopeTypeOK, NEW t \in Users
  PROVE  /\ IsFiniteSet(rope) /\ Cardinality(rope) \in Nat
         /\ Cardinality(rope) = 0 <=> rope = {}
         /\ t \notin rope => Cardinality(rope \union {t}) = Cardinality(rope) + 1
         /\ t \in rope => Cardinality(rope \ {t}) = Cardinality(rope) - 1
<1>1. IsFiniteSet(rope)
  BY RopeSharingAssumption, FS_Subset DEF RopeTypeOK
<1>2. QED
  BY <1>1, FS_CardinalityType, FS_EmptySet, FS_AddElement, FS_RemoveElement

-----------------------------------------------------------------------------
(* Types                                                                   *)

(***************************************************************************)
(* A step keeps the types; copying and destroying keep the count's bound.  *)
(***************************************************************************)
LEMMA TypeStep == SharingInv /\ [RopeNext]_ropeVars => RopeTypeOK'
<1> SUFFICES ASSUME SharingInv, [RopeNext]_ropeVars PROVE RopeTypeOK'
  OBVIOUS
<1> USE DEF SharingInv, RopeTypeOK, Stages, Advance, Deallocate, CanCall
\* The bound of the count: a set of ropes is no larger than the set of threads.
<1>1. /\ Cardinality(Users) \in Nat
      /\ \A R : R \subseteq Users =>
             Cardinality(R) \in Nat /\ Cardinality(R) <= Cardinality(Users)
  BY RopeSharingAssumption, FS_CardinalityType, FS_Subset
<1>2. ASSUME NEW t \in Users, NEW u \in Users, CopyRope(t, u) PROVE RopeTypeOK'
  <2>1. _M_ref_count' = Cardinality(rope') /\ rope' \subseteq Users
    BY <1>2, RopeCount DEF CopyRope, Incr, CountInv
  <2>2. QED
    BY <1>1, <1>2, <2>1 DEF CopyRope
<1>3. ASSUME NEW t \in Users, DropRope(t) PROVE RopeTypeOK'
  <2>1. _M_ref_count' = Cardinality(rope') /\ rope' \subseteq Users
    BY <1>3, RopeCount DEF DropRope, CountInv
  <2>2. QED
    BY <1>1, <1>3, <2>1 DEF DropRope
<1>4. ASSUME NEW t \in Users, FreeTree(t) PROVE RopeTypeOK'
  BY <1>4 DEF FreeTree
<1>5. ASSUME NEW t \in Users, CStr(t) PROVE RopeTypeOK'
  BY <1>5 DEF CStr
<1>6. ASSUME NEW t \in Users, Flatten(t) PROVE RopeTypeOK'
  BY <1>6 DEF Flatten
<1>7. ASSUME NEW t \in Users, SwapIn(t) PROVE RopeTypeOK'
  BY <1>7 DEF SwapIn
<1>8. ASSUME NEW t \in Users, FreeReplaced(t) PROVE RopeTypeOK'
  <2>1. old[t] \in Strings
    BY <1>8 DEF FreeReplaced, StringInv, PrivateInv
  <2>2. QED
    BY <1>8, <2>1 DEF FreeReplaced
<1>9. ASSUME NEW t \in Users, DeleteCStr(t) PROVE RopeTypeOK'
  BY <1>9 DEF DeleteCStr
<1>10. ASSUME NEW t \in Users, FreeCString(t) PROVE RopeTypeOK'
  BY <1>10 DEF FreeCString
<1>11. ASSUME NEW t \in Users, ClearCString(t) PROVE RopeTypeOK'
  BY <1>11 DEF ClearCString
<1>12. CASE UNCHANGED ropeVars
  BY <1>12 DEF ropeVars
<1>13. QED
  BY <1>2, <1>3, <1>4, <1>5, <1>6, <1>7, <1>8, <1>9, <1>10, <1>11, <1>12 DEF RopeNext, Finish

-----------------------------------------------------------------------------
(* The count                                                               *)

(***************************************************************************)
(* A step keeps the count equal to the number of ropes.                    *)
(***************************************************************************)
LEMMA CountStep == SharingInv /\ [RopeNext]_ropeVars => CountInv'
<1> SUFFICES ASSUME SharingInv, [RopeNext]_ropeVars PROVE CountInv'
  OBVIOUS
<1> USE DEF SharingInv, RopeTypeOK, Stages, CountInv, InCall, Deleting, Advance, CanCall
<1>1. ASSUME NEW t \in Users, NEW u \in Users, CopyRope(t, u) PROVE CountInv'
  <2>1. _M_ref_count' = Cardinality(rope')
    BY <1>1, RopeCount DEF CopyRope, Incr
  <2>2. QED
    BY <1>1, <2>1 DEF CopyRope
<1>2. ASSUME NEW t \in Users, DropRope(t) PROVE CountInv'
  <2>1. _M_ref_count' = Cardinality(rope')
    BY <1>2, RopeCount DEF DropRope
  <2>2. _M_ref_count = 1 <=> rope' = {}
    BY <1>2, <2>1, RopeCount, FS_RemoveElement, FS_EmptySet DEF DropRope
  <2>3. QED
    BY <1>2, <2>1, <2>2 DEF DropRope
<1>3. ASSUME NEW t \in Users, FreeTree(t) PROVE CountInv'
  BY <1>3 DEF FreeTree
<1>4. ASSUME NEW t \in Users,
             CStr(t) \/ Flatten(t) \/ SwapIn(t) \/ FreeReplaced(t)
               \/ DeleteCStr(t) \/ FreeCString(t) \/ ClearCString(t)
      PROVE  CountInv'
  <2>1. UNCHANGED << _M_ref_count, node, rope >>
    BY <1>4 DEF CStr, Flatten, SwapIn, FreeReplaced, DeleteCStr, FreeCString, ClearCString
  <2>2. \A u \in Users : u # t => at'[u] = at[u]
    BY <1>4 DEF CStr, Flatten, SwapIn, FreeReplaced, DeleteCStr, FreeCString, ClearCString
  <2>3. at'[t] \in InCall => t \in rope
    BY <1>4 DEF CStr, Flatten, SwapIn, FreeReplaced, DeleteCStr, FreeCString, ClearCString
  <2>4. at'[t] \in Deleting => rope = {t}
    BY <1>4 DEF CStr, Flatten, SwapIn, FreeReplaced, DeleteCStr, FreeCString, ClearCString
  <2>5. at'[t] # "decremented"
    BY <1>4 DEF CStr, Flatten, SwapIn, FreeReplaced, DeleteCStr, FreeCString, ClearCString
  <2>6. QED
    BY <2>1, <2>2, <2>3, <2>4, <2>5
<1>5. CASE UNCHANGED ropeVars
  BY <1>5 DEF ropeVars
<1>6. QED
  BY <1>1, <1>2, <1>3, <1>4, <1>5 DEF RopeNext, Finish

-----------------------------------------------------------------------------
(* The strings                                                             *)


(***************************************************************************)
(* Steps that touch no string and pass no control point at which a thread  *)
(* owns one keep the ownership of all strings.                             *)
(***************************************************************************)
LEMMA StringsUntouched ==
  ASSUME StringInv, UNCHANGED << _M_c_string, node, result, old, freed, used >>,
         \A t \in Users : \A l \in {"swap", "replaced", "clear"} :
             at'[t] = l <=> at[t] = l
  PROVE  StringInv'
BY DEF StringInv, PrivateInv, OneOwner, OwnedInv, FreedInv, NoStringLeaks

(***************************************************************************)
(* A step keeps one owner for every string that is not freed.              *)
(***************************************************************************)
LEMMA StringStep == SharingInv /\ [RopeNext]_ropeVars => StringInv'
<1> SUFFICES ASSUME SharingInv, [RopeNext]_ropeVars PROVE StringInv'
  OBVIOUS
<1> USE RopeSharingAssumption DEF SharingInv, RopeTypeOK, Stages, Advance, StringInv
<1>1. ASSUME NEW t \in Users,
             (\E u \in Users : CopyRope(t, u)) \/ DropRope(t) \/ CStr(t) \/ DeleteCStr(t)
      PROVE  StringInv'
  <2>1. UNCHANGED << _M_c_string, node, result, old, freed, used >>
    BY <1>1 DEF CopyRope, DropRope, CStr, DeleteCStr
  <2>2. \A u \in Users : \A l \in {"swap", "replaced", "clear"} : at'[u] = l <=> at[u] = l
    BY <1>1 DEF CopyRope, DropRope, CStr, DeleteCStr, CanCall
  <2>3. QED
    BY <2>1, <2>2, StringsUntouched
\* The node's string goes with the node; no other string is out, as no thread
\* has a rope.
<1>2. ASSUME NEW t \in Users, FreeTree(t) PROVE StringInv'
  <2> USE <1>2 DEF FreeTree, Deallocate
  <2>1. \A u \in Users : at[u] \notin InCall
    BY DEF CountInv
  <2>2. PrivateInv' /\ OneOwner'
    BY DEF PrivateInv, OneOwner
  <2>3. OwnedInv' /\ FreedInv'
    BY <2>1 DEF OwnedInv, PrivateInv, FreedInv, CountInv, InCall
  <2>4. NoStringLeaks'
    BY <2>1 DEF NoStringLeaks, PrivateInv, InCall
  <2>5. QED
    BY <2>2, <2>3, <2>4
\* The new string was never allocated before, so nobody owns it.
<1>3. ASSUME NEW t \in Users, Flatten(t) PROVE StringInv'
  <2>1. PICK s \in Strings \ used :
             result' = [result EXCEPT ![t] = s] /\ used' = used \union {s}
    BY <1>3 DEF Flatten
  <2> USE <1>3, <2>1 DEF Flatten
  <2>2. PrivateInv'
    BY DEF PrivateInv
  <2>3. OneOwner'
    BY DEF OneOwner, OwnedInv, PrivateInv
  <2>4. OwnedInv'
    <3>1. freed[s] = 0
      BY DEF FreedInv
    <3>2. \A u \in Users : at'[u] = "clear" <=> at[u] = "clear"
      OBVIOUS
    <3>3. QED
      BY <3>1, <3>2 DEF OwnedInv
  <2>5. FreedInv'
    BY DEF FreedInv
  <2>6. NoStringLeaks'
    BY DEF NoStringLeaks, PrivateInv
  <2>7. QED
    BY <2>2, <2>3, <2>4, <2>5, <2>6
\* Two strings change owners: the thread's goes to the node, the node's to the
\* thread.
<1>4. ASSUME NEW t \in Users, SwapIn(t) PROVE StringInv'
  <2> USE <1>4 DEF SwapIn
  <2>1. t \in rope /\ node = "alive" /\ (\A u \in Users : at[u] # "clear")
    BY DEF CountInv, InCall, Deleting
  <2>2. PrivateInv'
    BY DEF PrivateInv
  <2>3. OneOwner'
    BY DEF OneOwner, PrivateInv
  <2>4. OwnedInv' /\ FreedInv'
    BY <2>1 DEF OwnedInv, FreedInv, PrivateInv
  <2>5. NoStringLeaks'
    BY <2>1 DEF NoStringLeaks, PrivateInv
  <2>6. QED
    BY <2>2, <2>3, <2>4, <2>5
<1>5. ASSUME NEW t \in Users, FreeReplaced(t) PROVE StringInv'
  <2> USE <1>5 DEF FreeReplaced, Deallocate
  <2>1. old[t] \in Strings /\ freed[old[t]] = 0 /\ old[t] \in used
    BY DEF PrivateInv, OwnedInv
  <2>2. PrivateInv' /\ OneOwner'
    BY DEF PrivateInv, OneOwner
  <2>3. OwnedInv'
    BY <2>1 DEF OwnedInv, OneOwner, PrivateInv
  <2>4. FreedInv' /\ NoStringLeaks'
    BY <2>1 DEF FreedInv, NoStringLeaks
  <2>5. QED
    BY <2>2, <2>3, <2>4
\* delete_c_str runs alone: the only rope is its caller's.
<1>6. ASSUME NEW t \in Users, FreeCString(t) PROVE StringInv'
  <2> USE <1>6 DEF FreeCString, Deallocate
  <2>1. /\ node = "alive"
        /\ \A u \in Users : at[u] # "clear"
        /\ \A u \in Users : result[u] = Null /\ old[u] = Null
    BY DEF CountInv, PrivateInv, InCall, Deleting
  <2>2. PrivateInv' /\ OneOwner'
    BY DEF PrivateInv, OneOwner
  <2>3. OwnedInv' /\ FreedInv'
    BY <2>1 DEF OwnedInv, FreedInv
  <2>4. NoStringLeaks'
    BY DEF NoStringLeaks
  <2>5. QED
    BY <2>2, <2>3, <2>4
<1>7. ASSUME NEW t \in Users, ClearCString(t) PROVE StringInv'
  <2> USE <1>7 DEF ClearCString
  <2>1. PrivateInv' /\ OneOwner' /\ OwnedInv' /\ FreedInv'
    BY DEF PrivateInv, OneOwner, OwnedInv, FreedInv
  <2>2. NoStringLeaks'
    BY DEF NoStringLeaks, OwnedInv
  <2>3. QED
    BY <2>1, <2>2
<1>8. CASE UNCHANGED ropeVars
  BY <1>8, StringsUntouched DEF ropeVars
<1>9. QED
  BY <1>1, <1>2, <1>3, <1>4, <1>5, <1>6, <1>7, <1>8 DEF RopeNext, Finish

-----------------------------------------------------------------------------
(* The theorems                                                            *)

(***************************************************************************)
(* SharingInv is inductive: the steps of incrementing, swapping, deallocating    *)
(* and clearing keep count and owners right in every interleaving.         *)
(***************************************************************************)
THEOREM SharingInvariant == RopeSpec => []SharingInv
<1>1. SharingInv /\ [RopeNext]_ropeVars => SharingInv'
  BY TypeStep, CountStep, StringStep DEF SharingInv
<1>2. QED
  BY InitInv, <1>1, PTL DEF RopeSpec

(***************************************************************************)
(* The fields of the node and the threads' control points keep their       *)
(* types; the count stays between 0 and the number of threads.             *)
(***************************************************************************)
THEOREM RopeTypeCorrect == RopeSpec => []RopeTypeOK
BY SharingInvariant, PTL DEF SharingInv

(***************************************************************************)
(* The count is the number of ropes, and one thread alone takes it to 0.   *)
(***************************************************************************)
THEOREM CountExact == RopeSpec => []CountsRopes
<1>1. SharingInv => CountsRopes
  <2> SUFFICES ASSUME SharingInv PROVE CountsRopes
    OBVIOUS
  <2> DEFINE Last == {t \in Users : at[t] = "decremented"}
  <2>1. Cardinality(Last) <= 1
    <3>1. CASE Last = {}
      BY <3>1, FS_EmptySet
    <3>2. CASE Last # {}
      <4>1. PICK t : Last = {t}
        BY <3>2 DEF SharingInv, CountInv
      <4>2. Cardinality({t}) = 1
        BY FS_Singleton
      <4>3. QED
        BY <4>1, <4>2
    <3>3. QED
      BY <3>1, <3>2
  <2>2. QED
    BY <2>1 DEF SharingInv, CountInv, CountsRopes
<1>2. QED
  BY <1>1, SharingInvariant, PTL

(***************************************************************************)
(* No C string is deallocated twice, whoever wins the swap.                *)
(***************************************************************************)
THEOREM StringsFreedOnce == RopeSpec => []FreedOnce
<1>1. SharingInv => FreedOnce
  <2> SUFFICES ASSUME SharingInv PROVE FreedOnce
    OBVIOUS
  <2>1. ASSUME node = "alive", _M_c_string # Null, freed[_M_c_string] > 0
        PROVE  \E t \in Users : at[t] = "clear"
    <3>1. freed[_M_c_string] # 0
      BY <2>1
    <3>2. CASE \A t \in Users : at[t] # "clear"
      BY <2>1, <3>1, <3>2 DEF SharingInv, StringInv, OwnedInv
    <3>3. QED
      BY <3>2
  <2>2. QED
    BY <2>1 DEF SharingInv, StringInv, FreedInv, FreedOnce
<1>2. QED
  BY <1>1, SharingInvariant, PTL

(***************************************************************************)
(* Every C string that was allocated is freed or has an owner who will.    *)
(***************************************************************************)
THEOREM StringsOwned == RopeSpec => []NoStringLeaks
BY SharingInvariant, PTL DEF SharingInv, StringInv

(***************************************************************************)
(* Nobody touches a freed node: every step of every thread finds it alive, *)
(* because the thread has a rope, or is the one that dropped the last.     *)
(***************************************************************************)
THEOREM NoUseAfterFree == RopeSpec => [][node = "alive"]_ropeVars
<1>1. SharingInv /\ [RopeNext]_ropeVars => [node = "alive"]_ropeVars
  <2> SUFFICES ASSUME SharingInv, RopeNext PROVE node = "alive"
    OBVIOUS
  <2>1. PICK t \in Users : at[t] # "idle" \/ t \in rope
    BY DEF RopeNext, Finish, CopyRope, DropRope, CStr, DeleteCStr, FreeTree, Flatten, SwapIn,
           FreeReplaced, FreeCString, ClearCString, CanCall, Advance
  <2>2. QED
    BY <2>1 DEF SharingInv, RopeTypeOK, Stages, CountInv, InCall
<1>2. QED
  BY <1>1, SharingInvariant, PTL DEF RopeSpec
=============================================================================
