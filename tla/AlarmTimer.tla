----------------------------- MODULE AlarmTimer -----------------------------
(***************************************************************************)
(* The alarm timer of src/src/alarm_timer.c: a duration and the time(NULL) *)
(* at which it began.  Time passes in ticks, Sub of them a second, and     *)
(* time(NULL) gives the second that has begun, so that what the timer      *)
(* compares may differ by almost a second from what has elapsed.           *)
(***************************************************************************)
EXTENDS Integers

CONSTANTS
    Sub,          \* ticks in a second
    Durations,    \* the values of expire_sec
    Horizon,      \* bound: the clock stops there
    MaxSkew       \* bound: how far the system's clock is set back in all, in ticks

ASSUME AlarmTimerAssumption ==
    /\ Sub \in Nat \ {0}
    /\ Durations \subseteq Nat
    /\ Horizon \in Nat /\ MaxSkew \in Nat

VARIABLES
    expire_sec, start_time,   \* ALARM_TIMER_INFO
    clock,                    \* the clock of the system, in ticks
    elapsed,                  \* ticks since the last start or reset
    skew,                     \* ticks the clock was set back since then
    running,                  \* the timer was started
    ret                       \* the answer alarm_timer_is_expired has just given

timer == <<expire_sec, start_time>>
vars == <<timer, clock, elapsed, skew, running, ret>>

Time == clock \div Sub

Init == /\ expire_sec = 0 /\ start_time = 0
        /\ clock \in 0 .. Horizon
        /\ elapsed = 0 /\ skew = 0
        /\ running = FALSE
        /\ ret = "none"

-----------------------------------------------------------------------------

\* alarm_timer_init
InitTimer ==
    /\ expire_sec' = 0 /\ start_time' = 0
    /\ running' = FALSE
    /\ elapsed' = 0 /\ skew' = 0
    /\ ret' = "none"
    /\ UNCHANGED clock

\* alarm_timer_start
Start(d) ==
    /\ expire_sec' = d
    /\ start_time' = Time
    /\ running' = TRUE
    /\ elapsed' = 0 /\ skew' = 0
    /\ ret' = "none"
    /\ UNCHANGED clock

\* The start_time of a timer that is reset.
StartOver == Time

\* alarm_timer_reset: the same duration again, from now on
Reset ==
    /\ start_time' = StartOver
    /\ elapsed' = 0 /\ skew' = 0
    /\ ret' = "none"
    /\ UNCHANGED <<expire_sec, clock, running>>

Expired_AtOnce == Time - start_time >= expire_sec
Expired_Doubled == Time - start_time > 2 * expire_sec
Expired == Time - start_time > expire_sec

\* alarm_timer_is_expired.  A difference below zero is converted to size_t, which
\* C leaves open: it may become larger than any duration, or zero.
IsExpired ==
    /\ IF Time >= start_time
       THEN ret' = IF Expired THEN "yes" ELSE "no"
       ELSE ret' \in {"yes", "no"}
    /\ UNCHANGED <<timer, clock, elapsed, skew, running>>

Tick ==
    /\ clock < Horizon
    /\ clock' = clock + 1
    /\ elapsed' = elapsed + 1
    /\ ret' = "none"
    /\ UNCHANGED <<timer, skew, running>>

\* The clock of the system is set back by a second.
StepBack ==
    /\ clock >= Sub
    /\ skew + Sub <= MaxSkew
    /\ clock' = clock - Sub
    /\ skew' = skew + Sub
    /\ ret' = "none"
    /\ UNCHANGED <<timer, elapsed, running>>

Next == \/ InitTimer \/ Reset \/ IsExpired \/ Tick \/ StepBack
        \/ \E d \in Durations : Start(d)

Spec == Init /\ [][Next]_vars

-----------------------------------------------------------------------------
(* Properties *)

TypeOK ==
    /\ expire_sec \in Durations \cup {0}
    /\ start_time \in Nat /\ clock \in Nat /\ elapsed \in Nat
    /\ running \in BOOLEAN /\ ret \in {"none", "yes", "no"}
    /\ skew \in 0 .. MaxSkew
    /\ running => start_time <= Time + (skew + Sub - 1) \div Sub

\* A timer that was started says that it is expired only when its seconds have
\* passed in full, although both ends are cut to whole seconds and the clock may
\* be set back meanwhile: the comparison is ">", alarm_timer.c:60.  The clock
\* must not be before the start: the conversion of a negative difference is open.
NeverEarly ==
    running /\ ret = "yes" /\ start_time <= Time => elapsed > Sub * expire_sec

\* And it says so at the latest one second after that, and the time the clock was
\* set back.
NeverLate ==
    running /\ ret = "no" => elapsed < Sub * (expire_sec + 1) + skew

=============================================================================
