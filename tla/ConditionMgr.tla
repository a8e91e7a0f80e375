---------------------------- MODULE ConditionMgr ----------------------------
(***************************************************************************)
(* The waits of condition_mgr.h, on the clock of AlarmTimer.  Conditions   *)
(* and mutexes are passed by value on both platforms, so that a waiter     *)
(* sleeps on a condition in its own frame and a signal wakes the copy in   *)
(* the frame of the signaller, on which nobody sleeps: what ends a wait is *)
(* time (or a spurious wakeup), and time is what this module is about.     *)
(*                                                                         *)
(* "posix" (src/src/pal/linux/condition_mgr_posix.c) waits until the clock *)
(* of the system shows the deadline.  "win" (condition_mgr_win.c) turns it *)
(* into a number of milliseconds, here ticks, that then simply pass.  (It  *)
(* passes the HANDLE of the mutex as a critical section; what Windows does *)
(* with that is left out.)                                                 *)
(***************************************************************************)
EXTENDS AlarmTimer

CONSTANTS
    Deadlines,   \* what callers give as abstime, in ticks
    DwordMod     \* 2^32, the values of a DWORD

ASSUME ConditionAssumption ==
    /\ Deadlines \subseteq Nat
    /\ DwordMod \in Nat /\ DwordMod > Sub * Horizon + Sub

VARIABLES
    client,      \* what the behaviour is about: the "alarm" or a "condition"
    platform,    \* "posix" or "win", which the library was built for
    wait,        \* "none", "timed" or "wait": the function the waiter is in
    deadline,    \* its abstime
    called,      \* the clock at the call
    waited,      \* ticks since then
    lasts        \* win: the ticks it sleeps

waiter == <<wait, deadline, called, waited, lasts>>
allVars == <<vars, client, platform, waiter>>

INFINITE == DwordMod - 1

\* mutation: the fraction of abstime counts from the second that has begun
TimespecToMs_NextSecond(d) == (((d \div Sub) - Time - 1) * Sub + (d % Sub)) % DwordMod

\* mutation: the deadline does not arrive
TimespecToMs_Forever(d) == INFINITE

\* timespec_to_ms; "result < 0" never holds of a DWORD.
TimespecToMs(d) == (((d \div Sub) - Time) * Sub + (d % Sub)) % DwordMod

TimeInit == /\ Init
            /\ client \in {"alarm", "condition"}
            /\ platform \in {"posix", "win"}
            /\ wait = "none"
            /\ deadline = 0 /\ called = 0 /\ waited = 0 /\ lasts = 0

\* condition_mgr_timed_wait and condition_mgr_wait
TimedWait(d) ==
    /\ wait = "none"
    /\ wait' = "timed" /\ deadline' = d /\ called' = clock /\ waited' = 0
    /\ lasts' = IF platform = "win" THEN TimespecToMs(d) ELSE 0
    /\ UNCHANGED <<vars, platform>>

Wait ==
    /\ wait = "none"
    /\ wait' = "wait" /\ called' = clock /\ waited' = 0
    /\ lasts' = IF platform = "win" THEN INFINITE ELSE 0
    /\ UNCHANGED <<vars, platform, deadline>>

TimeIsUp ==
    IF platform = "posix" THEN wait = "timed" /\ clock >= deadline
    ELSE wait # "none" /\ lasts # INFINITE /\ waited >= lasts

\* The wait is over: it failed by time.
TimesOut ==
    /\ TimeIsUp
    /\ wait' = "none"
    /\ UNCHANGED <<vars, platform, deadline, called, waited, lasts>>

\* or it was woken spuriously.
Wakes ==
    /\ wait # "none"
    /\ wait' = "none"
    /\ UNCHANGED <<vars, platform, deadline, called, waited, lasts>>

\* Time passes for a waiter, and the clock is set back under it.
TickInWait ==
    /\ Tick
    /\ waited' = IF wait = "none" THEN waited ELSE waited + 1
    /\ UNCHANGED <<platform, wait, deadline, called, lasts>>

StepBackInWait == StepBack /\ UNCHANGED <<platform, waiter>>

TimeNext ==
    /\ \/ client = "alarm" /\ Next /\ UNCHANGED <<platform, waiter>>
       \/ /\ client = "condition"
          /\ \/ \E d \in Deadlines : TimedWait(d)
             \/ Wait \/ TimesOut \/ Wakes \/ TickInWait \/ StepBackInWait
    /\ UNCHANGED client

\* Time passes, and a wait ends when its time is up.
TimeSpec == /\ TimeInit /\ [][TimeNext]_allVars
            /\ WF_allVars(client = "condition" /\ TickInWait /\ UNCHANGED client)
            /\ WF_allVars(client = "condition" /\ TimesOut /\ UNCHANGED client)

-----------------------------------------------------------------------------

\* The deadline was not before the second in which the call was made.  One that
\* was becomes, as a DWORD, a sleep of 49 days or without an end.
Ahead == deadline >= Sub * (called \div Sub)

\* The type invariant, which SleepsUntilDeadline includes
TimeTypeOK ==
    /\ TypeOK
    /\ client \in {"alarm", "condition"} /\ platform \in {"posix", "win"}
    /\ wait \in {"none", "timed", "wait"}
    /\ deadline \in Deadlines \cup {0}
    /\ called \in Nat /\ waited \in Nat
    /\ lasts \in 0 .. DwordMod - 1

\* A sleep on Windows takes the time that was left until the deadline and, since
\* time(NULL) gives whole seconds, less than a second more (timespec_to_ms).
SleepsUntilDeadline ==
    /\ TimeTypeOK
    /\ platform = "win" /\ wait = "timed" /\ Ahead =>
          lasts >= deadline - called /\ lasts < deadline - called + Sub

\* No signal is needed for a timed wait to come back, on posix whatever its
\* deadline and on Windows when that lay ahead.
TimedWaitEnds ==
    \A p \in {"posix", "win"} :
        (wait = "timed" /\ platform = p /\ (p = "win" => Ahead)) ~> wait = "none"

=============================================================================
