---------------------------- MODULE RopeSharing -----------------------------
(***************************************************************************)
(* Several threads whose ropes share one tree node (stl_rope.h,            *)
(* ropeimpl.h): the node's reference count, which every rope holds one of, *)
(* and its cached C string, which c_str() fills in lazily by an atomic     *)
(* swap and delete_c_str() throws away.  The node is one whose C string    *)
(* is not its data: a concatenation, a function, or a leaf of a character  *)
(* type without an end mark.                                               *)
(*                                                                         *)
(* The names differ from those of MutexLock, so that ThreadProofs extends  *)
(* both.                                                                   *)
(***************************************************************************)
EXTENDS Naturals, FiniteSets

CONSTANTS Users,       \* the threads
          Strings,     \* the C strings that c_str can allocate
          Null         \* the null pointer

ASSUME RopeSharingAssumption == IsFiniteSet(Users) /\ Null \notin Strings

VARIABLES _M_ref_count,  \* of the node
          _M_c_string,   \* of the node: a string or Null
          node,          \* "alive" or "freed"
          rope,          \* the threads that have a rope with this node
          at,            \* where each thread is in a call
          result,        \* __result in c_str: the new string
          old,           \* __old_c_string in c_str
          freed,         \* [string -> how often it was deallocated]
          used,          \* the strings that were ever allocated
          returned       \* [thread -> what the last c_str() of its rope returned]

ropeVars == << _M_ref_count, _M_c_string, node, rope, at, result, old, freed, used, returned >>

Stages == {"idle", "flatten", "swap", "replaced", "decremented", "delete", "clear"}

RopeTypeOK ==
    /\ _M_ref_count \in 0 .. Cardinality(Users)
    /\ _M_c_string \in Strings \union {Null}
    /\ node \in {"alive", "freed"}
    /\ rope \subseteq Users
    /\ at \in [Users -> Stages]
    /\ result \in [Users -> Strings \union {Null}]
    /\ old \in [Users -> Strings \union {Null}]
    /\ freed \in [Strings -> Nat]
    /\ used \subseteq Strings
    /\ returned \in [Users -> Strings \union {Null}]

\* One thread has built the rope.
RopeInit ==
    /\ \E t \in Users : rope = {t}
    /\ _M_ref_count = 1
    /\ _M_c_string = Null
    /\ node = "alive"
    /\ at = [t \in Users |-> "idle"]
    /\ result = [t \in Users |-> Null]
    /\ old = [t \in Users |-> Null]
    /\ freed = [s \in Strings |-> 0]
    /\ used = {}
    /\ returned = [t \in Users |-> Null]

CanCall(t) == t \in rope /\ at[t] = "idle"

Advance(t, from, to) == at[t] = from /\ at' = [at EXCEPT ![t] = to]

Deallocate(s) == freed' = [freed EXCEPT ![s] = @ + 1]

-----------------------------------------------------------------------------
(* Copying and destroying ropes                                            *)

\* Mutants of Incr: the copy does not count, or counts twice.
IncrMissing == UNCHANGED _M_ref_count
IncrTwice == _M_ref_count' = _M_ref_count + 2

\* _M_incr
Incr == _M_ref_count' = _M_ref_count + 1

\* A rope is copied for another thread, by the thread that owns the original.
CopyRope(t, u) ==
    /\ CanCall(t) /\ u \notin rope /\ at[u] = "idle"
    /\ Incr
    /\ rope' = rope \union {u}
    /\ UNCHANGED << _M_c_string, node, at, result, old, freed, used, returned >>

\* ~rope: _M_decr tells whether this was the last reference; old[t] is not
\* used by ~rope, and the outcome is remembered in the label.
DropRope(t) ==
    /\ CanCall(t)
    /\ rope' = rope \ {t}
    /\ _M_ref_count' = _M_ref_count - 1
    /\ at' = [at EXCEPT ![t] = IF _M_ref_count = 1 THEN "decremented" ELSE "idle"]
    /\ returned' = [returned EXCEPT ![t] = Null]
    /\ UNCHANGED << _M_c_string, node, result, old, freed, used >>

\* Mutant of FreeTree: the cached string is forgotten.
FreeTreeOnly(t) ==
    /\ Advance(t, "decremented", "idle")
    /\ node' = "freed"
    /\ UNCHANGED << _M_ref_count, _M_c_string, rope, result, old, freed, used, returned >>

\* _M_free_tree: the destructor deallocates the cached string.
FreeTree(t) ==
    /\ Advance(t, "decremented", "idle")
    /\ node' = "freed"
    /\ IF _M_c_string = Null THEN UNCHANGED freed ELSE Deallocate(_M_c_string)
    /\ UNCHANGED << _M_ref_count, _M_c_string, rope, result, old, used, returned >>

-----------------------------------------------------------------------------
(* c_str                                                                   *)

CStr(t) ==
    /\ CanCall(t)
    /\ IF _M_c_string # Null
       THEN returned' = [returned EXCEPT ![t] = _M_c_string] /\ UNCHANGED at
       ELSE Advance(t, "idle", "flatten") /\ UNCHANGED returned
    /\ UNCHANGED << _M_ref_count, _M_c_string, node, rope, result, old, freed, used >>

Flatten(t) ==
    /\ Advance(t, "flatten", "swap")
    /\ \E s \in Strings \ used :
         /\ result' = [result EXCEPT ![t] = s]
         /\ used' = used \union {s}
    /\ UNCHANGED << _M_ref_count, _M_c_string, node, rope, old, freed, returned >>

\* Mutant of SwapIn: a store instead of a swap.
StoreIn(t) ==
    /\ Advance(t, "swap", "idle")
    /\ _M_c_string' = result[t]
    /\ result' = [result EXCEPT ![t] = Null]
    /\ returned' = [returned EXCEPT ![t] = result[t]]
    /\ UNCHANGED << _M_ref_count, node, rope, old, freed, used >>

\* _Atomic_swap of the new string into the node.
SwapIn(t) ==
    /\ Advance(t, "swap", IF _M_c_string = Null THEN "idle" ELSE "replaced")
    /\ old' = [old EXCEPT ![t] = _M_c_string]
    /\ _M_c_string' = result[t]
    /\ result' = [result EXCEPT ![t] = Null]
    /\ returned' = [returned EXCEPT ![t] = result[t]]
    /\ UNCHANGED << _M_ref_count, node, rope, freed, used >>

\* "It must have been added in the interim": the string that was there goes.
FreeReplaced(t) ==
    /\ Advance(t, "replaced", "idle")
    /\ Deallocate(old[t])
    /\ old' = [old EXCEPT ![t] = Null]
    /\ UNCHANGED << _M_ref_count, _M_c_string, node, rope, result, used, returned >>

-----------------------------------------------------------------------------
(* delete_c_str: "it's hard to say when this is safe for multiple          *)
(* threads".  Only a thread that has the only rope calls it here.          *)

DeleteCStr(t) ==
    /\ CanCall(t) /\ rope = {t}
    /\ at' = [at EXCEPT ![t] = "delete"]
    /\ returned' = [returned EXCEPT ![t] = Null]
    /\ UNCHANGED << _M_ref_count, _M_c_string, node, rope, result, old, freed, used >>

FreeCString(t) ==
    /\ Advance(t, "delete", "clear")
    /\ IF _M_c_string = Null THEN UNCHANGED freed ELSE Deallocate(_M_c_string)
    /\ UNCHANGED << _M_ref_count, _M_c_string, node, rope, result, old, used, returned >>

\* Mutant of ClearCString: the pointer stays.
KeepCString(t) ==
    /\ Advance(t, "clear", "idle")
    /\ UNCHANGED << _M_ref_count, _M_c_string, node, rope, result, old, freed, used, returned >>

ClearCString(t) ==
    /\ Advance(t, "clear", "idle")
    /\ _M_c_string' = Null
    /\ UNCHANGED << _M_ref_count, node, rope, result, old, freed, used, returned >>

-----------------------------------------------------------------------------
Finish(t) ==
    \/ FreeTree(t) \/ Flatten(t) \/ SwapIn(t) \/ FreeReplaced(t)
    \/ FreeCString(t) \/ ClearCString(t)

RopeNext ==
    \E t \in Users :
        \/ \E u \in Users : CopyRope(t, u)
        \/ DropRope(t) \/ CStr(t) \/ DeleteCStr(t) \/ Finish(t)

RopeSpec == RopeInit /\ [][RopeNext]_ropeVars

FairRopeSpec == RopeSpec /\ \A t \in Users : WF_ropeVars(Finish(t))

-----------------------------------------------------------------------------
(* Properties                                                              *)

\* The count is what the ropes hold, so that whoever takes it to zero frees the
\* node, alone, while nobody else can reach it.
CountsRopes ==
    /\ _M_ref_count = Cardinality(rope)
    /\ node = "freed" => rope = {}
    /\ \A t \in Users : at[t] = "decremented" => node = "alive" /\ rope = {}
    /\ Cardinality({t \in Users : at[t] = "decremented"}) <= 1

\* No C string is deallocated twice, and the node never keeps a pointer to a
\* deallocated one except between the two steps of delete_c_str.
FreedOnce ==
    /\ \A s \in Strings : freed[s] <= 1
    /\ node = "alive" /\ _M_c_string # Null /\ freed[_M_c_string] > 0 =>
         \E t \in Users : at[t] = "clear"

\* A string that was allocated and not deallocated is on its way into the node
\* or out of it, or it is the node's.
NoStringLeaks ==
    \A s \in used :
        \/ freed[s] > 0
        \/ node = "alive" /\ _M_c_string = s
        \/ \E t \in Users : s \in {result[t], old[t]}

\* What c_str() returned can be read as long as the rope is neither destroyed
\* nor told to delete it: the memory is the node's.
ReturnedStaysValid == \A t \in rope : returned[t] # Null => freed[returned[t]] = 0

\* The node and its string are given back once the last rope is gone for good.
EventuallyFreed == (rope = {}) ~> (node = "freed" /\ \A s \in used : freed[s] = 1)
=============================================================================
