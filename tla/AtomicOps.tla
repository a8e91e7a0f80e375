------------------------------ MODULE AtomicOps ------------------------------
(***************************************************************************)
(* atomic_operations.h: threads that increment, decrement, add to and      *)
(* subtract from one shared integer and use the result.  "posix" is        *)
(* src/src/pal/linux/atomic_operations_linux.c, where the update is one    *)
(* atomic step and the result is a second, separate read of the integer;   *)
(* "win" is src/src/pal/win/atomic_operations_win.c, where the Interlocked *)
(* function gives the result of its own update.                            *)
(*                                                                         *)
(* The threads and the platform are those of ThreadMgr.  The integers have *)
(* w bits and wrap: a negative operand d is Mod - d.                       *)
(***************************************************************************)
EXTENDS ThreadMgr

CONSTANTS
    Operands,    \* what calls add: 1 increments, Mod - 1 decrements
    Start,       \* the integer before the first call
    Mod,         \* 2^w
    MaxCalls     \* bound: the calls of each thread

ASSUME AtomicOpsAssumption ==
    /\ Mod \in Nat \ {0}
    /\ Start \in 0 .. Mod - 1
    /\ Operands \subseteq 0 .. Mod - 1
    /\ MaxCalls \in Nat

VARIABLES
    value,       \* the shared integer
    updating,    \* the threads between their update and their read (posix)
    calls,       \* how many calls each thread has begun
    result,      \* what the last call of each thread returned
    since        \* what the integer was from the update of each thread's last call
                 \* until that call returned

atomics == <<value, updating, calls, result, since>>

AtomicInit == /\ value = Start
              /\ updating = {}
              /\ calls = [t \in Threads |-> 0]
              /\ result = [t \in Threads |-> Start]
              /\ since = [t \in Threads |-> {Start}]

-----------------------------------------------------------------------------

\* What the update of thread t leaves in the integer.
Updated(t, d) == (value + d) % Mod

Begin(t, d) ==
    /\ t \notin updating
    /\ calls[t] < MaxCalls
    /\ calls' = [calls EXCEPT ![t] = @ + 1]
    /\ value' = Updated(t, d)
    /\ since' = [u \in Threads |-> IF u = t THEN {value'}
                                  ELSE IF u \in updating THEN since[u] \cup {value'}
                                  ELSE since[u]]

\* posix: atomic_fetch_add_explicit or atomic_fetch_sub_explicit.  The order is
\* relaxed, which is enough for the one location.
FetchAdd(t, d) ==
    /\ platform = "posix"
    /\ Begin(t, d)
    /\ updating' = updating \cup {t}
    /\ UNCHANGED result

Read_Before(t) == result[t]

\* posix: what "result = *value" finds: updates of others may have come between.
Read(t) == value

Return(t) ==
    /\ platform = "posix"
    /\ t \in updating
    /\ result' = [result EXCEPT ![t] = Read(t)]
    /\ updating' = updating \ {t}
    /\ UNCHANGED <<value, calls, since>>

Answer_Fetched(t) == value
Answer(t) == value'

\* win: InterlockedIncrement, InterlockedDecrement and InterlockedAdd.
Interlocked(t, d) ==
    /\ platform = "win"
    /\ Begin(t, d)
    /\ result' = [result EXCEPT ![t] = Answer(t)]
    /\ UNCHANGED updating

Atomics(t) == Return(t) \/ \E d \in Operands : FetchAdd(t, d) \/ Interlocked(t, d)

-----------------------------------------------------------------------------
(* Properties *)

\* The type invariant, which ResultIsRecent includes
AtomicTypeOK ==
    /\ value \in 0 .. Mod - 1
    /\ updating \subseteq Threads
    /\ calls \in [Threads -> 0 .. MaxCalls]
    /\ result \in [Threads -> 0 .. Mod - 1]
    /\ since \in [Threads -> SUBSET (0 .. Mod - 1)]

\* When no call is in progress, some thread has been told the value the integer
\* has: so the last of several threads that count down to zero, or another that
\* was slower to look, learns that it is zero.
FinalValueSeen ==
    updating = {} /\ (\E t \in Threads : calls[t] > 0)
        => \E t \in Threads : calls[t] > 0 /\ result[t] = value

\* A call returns a value that the integer had after the update of the call and
\* before its return.  On Windows that is the value the update left; on Linux it
\* may contain updates of others, but is never older than the call's own.
ResultIsRecent ==
    /\ AtomicTypeOK
    /\ \A t \in Threads \ updating : result[t] \in since[t]

=============================================================================
