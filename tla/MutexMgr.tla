------------------------------ MODULE MutexMgr ------------------------------
(***************************************************************************)
(* A mutex of mutex_mgr.h and the threads that use it, on both platforms.  *)
(*                                                                         *)
(* "win" (src/src/pal/win/mutex_mgr_win.c): MUTEX_HANDLE names a kernel    *)
(* object.  Windows mutexes count how often their owner took them, and one *)
(* whose owner ends is handed on as abandoned, which is not WAIT_OBJECT_0: *)
(* the wrapper then reports a failure although the thread now owns it.     *)
(* CreateMutex(NULL, TRUE, NULL) makes the creating thread its owner.      *)
(*                                                                         *)
(* "posix" (src/src/pal/linux/mutex_mgr_posix.c): MUTEX_HANDLE is the      *)
(* pthread_mutex_t itself and is passed by value, so that lock, trylock,   *)
(* unlock and destroy work on a copy in their own frame, taken from the    *)
(* caller's variable, which after mutex_mgr_create stays unlocked.         *)
(*                                                                         *)
(* holds is what the callers believe: the locks reported as taken and not  *)
(* yet given back.                                                         *)
(***************************************************************************)
EXTENDS Naturals, Platform

CONSTANTS
    Creator,          \* the thread that calls mutex_mgr_create
    CreatorReleases,  \* the creator unlocks once for the ownership it got
    EndsHolding,      \* a thread may end without unlocking
    MaxHolds          \* bound on nested locks of one thread

ASSUME MutexAssumption ==
    /\ Creator \in Threads
    /\ NULL \notin Threads
    /\ CreatorReleases \in BOOLEAN
    /\ EndsHolding \in BOOLEAN
    /\ MaxHolds \in Nat

VARIABLES
    created,     \* the mutex exists
    owner,       \* owner of the object that MUTEX_HANDLE names or is; NULL: free
    depth,       \* how often the owner has it
    abandoned,   \* its last owner ended with it
    initial,     \* the creator still has the ownership CreateMutex gave it
    holds,       \* for each thread, successful locks less unlocks
    waiting,     \* the threads inside mutex_mgr_lock
    alive,       \* the threads that have not ended
    ret          \* for each thread, the result of its last call

object == <<owner, depth, abandoned>>
mutexVars == <<platform, created, object, initial, holds, waiting, alive, ret>>

MutexInit == /\ PlatformInit
             /\ created = FALSE
             /\ owner = NULL /\ depth = 0 /\ abandoned = FALSE
             /\ initial = FALSE
             /\ holds = [t \in Threads |-> 0]
             /\ waiting = {}
             /\ alive = Threads
             /\ ret = [t \in Threads |-> "none"]

Calls(t) == created /\ t \in alive \ waiting

-----------------------------------------------------------------------------

\* mutex_mgr_create
MutexCreate ==
    /\ ~created
    /\ Creator \in alive
    /\ \/ /\ created' = TRUE
          /\ IF platform = "win"
             THEN owner' = Creator /\ depth' = 1
             ELSE owner' = NULL /\ depth' = 0
          /\ initial' = (platform = "win")
          /\ abandoned' = FALSE
          /\ ret' = [ret EXCEPT ![Creator] = "ok"]
       \/ /\ ret' = [ret EXCEPT ![Creator] = "failed"]
          /\ UNCHANGED <<created, object, initial>>
    /\ UNCHANGED <<platform, holds, waiting, alive>>

\* The lock function succeeds for t: on posix on its own copy.
Granted(t) ==
    /\ holds' = [holds EXCEPT ![t] = @ + 1]
    /\ ret' = [ret EXCEPT ![t] = "ok"]

Refused(t) ==
    /\ ret' = [ret EXCEPT ![t] = "failed"]
    /\ UNCHANGED holds

\* The object can be taken by t at once; a posix copy always can.
Free(t) == platform = "posix" \/ owner \in {NULL, t}

\* WaitForSingleObject, or pthread_mutex_lock on the copy, comes back.
Take(t) ==
    \/ /\ platform = "posix"
       /\ Granted(t)
       /\ UNCHANGED object
    \/ /\ platform = "win"
       /\ owner' = t
       /\ depth' = depth + 1
       /\ abandoned' = FALSE
       /\ IF abandoned THEN Refused(t) ELSE Granted(t)

\* mutex_mgr_lock, its call and its return
Lock(t) ==
    /\ Calls(t)
    /\ holds[t] < MaxHolds
    /\ waiting' = waiting \cup {t}
    /\ UNCHANGED <<platform, created, object, initial, holds, alive, ret>>

LockReturn(t) ==
    /\ t \in waiting
    /\ Free(t)
    /\ Take(t)
    /\ waiting' = waiting \ {t}
    /\ UNCHANGED <<platform, created, initial, alive>>

\* mutex_mgr_trylock
TryLock(t) ==
    /\ Calls(t)
    /\ holds[t] < MaxHolds
    /\ IF Free(t) THEN Take(t) ELSE Refused(t) /\ UNCHANGED object
    /\ UNCHANGED <<platform, created, initial, waiting, alive>>

GiveBack_KeepsOwner(t) == depth' = depth - 1 /\ UNCHANGED owner
GiveBack_AtOnce(t) == owner' = NULL /\ depth' = 0

\* ReleaseMutex by the owner.
GiveBack(t) ==
    /\ depth' = depth - 1
    /\ owner' = IF depth = 1 THEN NULL ELSE owner

\* mutex_mgr_unlock by a thread that has locked, or by the creator for the
\* ownership it has from the start; on posix the copy is unlocked.
Unlock(t) ==
    /\ Calls(t)
    /\ \/ /\ holds[t] > 0
          /\ holds' = [holds EXCEPT ![t] = @ - 1]
          /\ UNCHANGED initial
       \/ /\ t = Creator /\ CreatorReleases /\ initial
          /\ initial' = FALSE
          /\ UNCHANGED holds
    /\ IF platform = "win" /\ owner = t
       THEN GiveBack(t)
       ELSE UNCHANGED <<owner, depth>>
    /\ ret' = [ret EXCEPT ![t] = IF platform = "win" /\ owner # t THEN "failed" ELSE "ok"]
    /\ UNCHANGED <<platform, created, abandoned, waiting, alive>>

\* mutex_mgr_destroy, when no thread uses the mutex
Destroy(t) ==
    /\ Calls(t)
    /\ waiting = {} /\ \A u \in Threads : holds[u] = 0
    /\ created' = FALSE
    /\ owner' = NULL /\ depth' = 0 /\ abandoned' = FALSE
    /\ initial' = FALSE
    /\ UNCHANGED <<platform, holds, waiting, alive, ret>>

\* A thread ends; Windows marks what it owned as abandoned.
End(t) ==
    /\ t \in alive \ waiting
    /\ EndsHolding \/ (holds[t] = 0 /\ ~(t = Creator /\ initial))
    /\ alive' = alive \ {t}
    /\ holds' = [holds EXCEPT ![t] = 0]
    /\ initial' = IF t = Creator THEN FALSE ELSE initial
    /\ IF platform = "win" /\ owner = t
       THEN owner' = NULL /\ depth' = 0 /\ abandoned' = TRUE
       ELSE UNCHANGED object
    /\ UNCHANGED <<platform, created, waiting, ret>>

MutexNext ==
    \/ MutexCreate
    \/ \E t \in Threads : \/ Lock(t) \/ LockReturn(t) \/ TryLock(t)
                          \/ Unlock(t) \/ Destroy(t) \/ End(t)

\* The platform wakes waiters in some fair order, and a thread that holds the
\* mutex gives it back instead of nesting locks for ever: the second is an
\* obligation of the callers.
MutexFairness ==
    \A t \in Threads : /\ SF_mutexVars(LockReturn(t))
                      /\ WF_mutexVars(Unlock(t))
                      /\ \A d \in 1 .. MaxHolds + 1 : SF_mutexVars(Unlock(t) /\ depth = d)

MutexSpec == MutexInit /\ [][MutexNext]_mutexVars /\ MutexFairness

-----------------------------------------------------------------------------
(* Properties *)

\* The type invariant, which MutualExclusion includes
MutexTypeOK ==
    /\ platform \in {"posix", "win"}
    /\ created \in BOOLEAN /\ abandoned \in BOOLEAN /\ initial \in BOOLEAN
    /\ owner \in Threads \cup {NULL}
    /\ depth \in Nat
    /\ holds \in [Threads -> Nat]
    /\ waiting \subseteq alive
    /\ alive \subseteq Threads
    /\ ret \in [Threads -> {"none", "ok", "failed"}]
    /\ (owner = NULL) <=> (depth = 0)

\* What a mutex is for, and what the one of Windows gives: no two threads at a
\* time were told that they have it.  (On posix each call locks its own copy.)
MutualExclusion ==
    /\ MutexTypeOK
    /\ platform = "win" => \A t, u \in Threads : holds[t] > 0 /\ holds[u] > 0 => t = u

\* mutex_mgr_lock returns in the end when the holders give the mutex back, and
\* none of them ends with it: the thread that gets an abandoned mutex is told
\* that it has not, and will never release it.
LockReturns ==
    []~abandoned => \A t \in Threads : t \in waiting ~> t \notin waiting

=============================================================================
