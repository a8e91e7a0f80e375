------------------------------- MODULE Workers -------------------------------
(***************************************************************************)
(* The threads of ThreadMgr at work on the shared integer of AtomicOps: a  *)
(* start function makes atomic calls and returns when none is under way.   *)
(***************************************************************************)
EXTENDS AtomicOps

poolVars == <<vars, atomics>>

PoolInit == Init /\ AtomicInit

Create == \E f \in Funcs : InitThread(f) /\ UNCHANGED atomics
CreateFails == \E f \in Funcs : InitFails(f) /\ UNCHANGED atomics
Begins(t) == WorkerStart(t) /\ UNCHANGED atomics
Works(t) == ~ub /\ pc[t] = "running" /\ Atomics(t) /\ UNCHANGED vars
Ends(t) == t \notin updating /\ WorkerEnd(t) /\ UNCHANGED atomics
JoinCalled(a) == Join(a) /\ UNCHANGED atomics
Joined(a) == JoinReturn(a) /\ UNCHANGED atomics
Detached(a) == Detach(a) /\ UNCHANGED atomics

PoolNext ==
    \/ Create \/ CreateFails
    \/ \E t \in Threads : Begins(t) \/ Works(t) \/ Ends(t)
    \/ \E a \in Addresses : JoinCalled(a) \/ Joined(a) \/ Detached(a)

\* The scheduler runs every thread that is ready, and start functions return.
PoolFairness ==
    /\ \A t \in Threads : WF_poolVars(Begins(t)) /\ WF_poolVars(Works(t)) /\ WF_poolVars(Ends(t))
    /\ \A a \in Addresses : WF_poolVars(Joined(a))

PoolSpec == PoolInit /\ [][PoolNext]_poolVars /\ PoolFairness

=============================================================================
