---------------------------- MODULE ThreadProofs ----------------------------
(***************************************************************************)
(* Theorems about the threads of the platform layer, for any number of     *)
(* them: Workers, that is the threads and the atomic operations, for any   *)
(* number of addresses and calls too, and the mutex they may share,        *)
(* MutexMgr.                                                               *)
(*                                                                         *)
(* Callers detach a thread whenever they like: a worker that was not       *)
(* detached before it read its THREAD_MGR_INFO finds its own function      *)
(* there, whatever happens to the others.                                  *)
(*                                                                         *)
(* That a thread which believes to hold the Windows mutex owns it is not   *)
(* inductive: an unlock must not be the last one while the thread still    *)
(* counts on the object, so the invariant compares counts.  A thread's     *)
(* claim is what it may still unlock, the creator's first ownership        *)
(* included.                                                               *)
(***************************************************************************)
EXTENDS Workers, MutexMgr, TLAPS

-----------------------------------------------------------------------------
(* Every live THREAD_MGR_INFO is the one of the thread it was made for.        *)

\* A worker that has not read its structure yet, and was not detached, still has
\* it, with its own function in it: no other thread was created through the same
\* address.
InfoInv ==
    /\ WorkerCallsItsFunction
    /\ \A a \in live :
          /\ main_thread[a] \in Threads
          /\ pc[main_thread[a]] # "none"
          /\ thread_func[a] = wanted[main_thread[a]]
    /\ \A t \in Threads : pc[t] = "none" => ran[t] = NULL /\ t \notin early

LEMMA InfoInit == PoolInit => InfoInv
  BY ThreadMgrAssumption
  DEF PoolInit, Init, PlatformInit, InfoInv, WorkerCallsItsFunction, TypeOK

LEMMA InfoStep == InfoInv /\ [PoolNext]_poolVars => InfoInv'
<1> SUFFICES ASSUME InfoInv, [PoolNext]_poolVars PROVE InfoInv'
  OBVIOUS
<1> USE ThreadMgrAssumption DEF InfoInv, WorkerCallsItsFunction, TypeOK
<1>1. ASSUME NEW f \in Funcs, InitThread(f) PROVE InfoInv'
  <2> PICK a \in Addresses \ live, t \in Threads :
         /\ pc[t] = "none"
         /\ live' = live \cup {a}
         /\ thread_func' = [thread_func EXCEPT ![a] = f]
         /\ main_thread' = [main_thread EXCEPT ![a] = t]
         /\ held' = held \cup Returned(a)
         /\ pc' = [pc EXCEPT ![t] = "created"]
         /\ arg' = [arg EXCEPT ![t] = a]
         /\ wanted' = [wanted EXCEPT ![t] = f]
         /\ UNCHANGED <<platform, joining, ran, early, ub>>
    BY <1>1 DEF InitThread, AfterInit
  <2>1. Returned(a) \subseteq {a}
    BY DEF Returned
  <2>2. TypeOK'
    BY <2>1
  <2> QED
    BY <2>2
<1>2. ASSUME NEW t \in Threads, WorkerStart(t) PROVE InfoInv'
  <2>0. pc[t] = "created" /\ UNCHANGED <<info, held, joining, arg, wanted, early, platform>>
    BY <1>2 DEF WorkerStart
  <2>1. CASE arg[t] \in live
    <3>1. /\ ran' = [ran EXCEPT ![t] = thread_func[arg[t]]]
          /\ pc' = [pc EXCEPT ![t] = "running"]
          /\ ub' = ub /\ ~ub
      BY <1>2, <2>1 DEF WorkerStart
    <3>2. t \notin early => thread_func[arg[t]] = wanted[t]
      BY <2>0, <2>1
    <3>3. TypeOK'
      BY <2>0, <2>1, <3>1 DEF info
    <3> QED
      BY <2>0, <3>1, <3>2, <3>3 DEF info
  <2>2. CASE arg[t] \notin live
    <3>1. ub' = TRUE /\ UNCHANGED <<ran, pc>>
      BY <1>2, <2>2 DEF WorkerStart
    <3>2. t \in early
      BY <2>0, <2>2
    <3> QED
      BY <2>0, <3>1, <3>2 DEF info
  <2> QED
    BY <2>1, <2>2
<1>3. ASSUME NEW t \in Threads, WorkerEnd(t) PROVE InfoInv'
  BY <1>3 DEF WorkerEnd, info
<1>4. ASSUME NEW a \in Addresses, Join(a) PROVE InfoInv'
  BY <1>4 DEF Join, info, thread
<1>5. ASSUME NEW a \in Addresses, JoinReturn(a) PROVE InfoInv'
  BY <1>5 DEF JoinReturn, JoinFree, ThreadEnded, thread
<1>6. ASSUME NEW a \in Addresses, Detach(a) PROVE InfoInv'
  <2>1. early' = early \cup {t \in {main_thread[a]} : pc[t] = "created"}
    BY <1>6 DEF Detach, EarlyAfter
  <2>2. live' = live \ {a} /\ held' = held \ {a}
        /\ UNCHANGED <<platform, thread_func, main_thread, joining, thread, ub>>
    BY <1>6 DEF Detach
  <2>3. a \in live /\ main_thread[a] \in Threads
    BY <1>6 DEF Detach
  <2>4. TypeOK'
    BY <1>6, <2>1, <2>2, <2>3 DEF Detach, thread
  <2>5. \A t \in Threads \ early' : pc[t] = "created" => arg[t] # a
    BY <2>1, <2>3
  <2> QED
    BY <2>1, <2>2, <2>3, <2>4, <2>5 DEF thread
<1>7. ASSUME NEW f \in Funcs, InitFails(f) PROVE InfoInv'
  <2> PICK a \in Addresses \ live :
         /\ live' = (live \cup {a}) \ {a}
         /\ thread_func' = [thread_func EXCEPT ![a] = f]
    BY <1>7 DEF InitFails, AfterFailedCreate
  <2>1. live' = live /\ \A b \in live : thread_func'[b] = thread_func[b]
    OBVIOUS
  <2>2. UNCHANGED <<platform, main_thread, held, joining, thread, early, ub>>
    BY <1>7 DEF InitFails
  <2>3. TypeOK'
    BY <2>1, <2>2 DEF thread
  <2> QED
    BY <2>1, <2>2, <2>3 DEF thread
<1>8. ASSUME UNCHANGED vars PROVE InfoInv'
  BY <1>8 DEF vars, info, thread
<1> QED
  BY <1>1, <1>2, <1>3, <1>4, <1>5, <1>6, <1>7, <1>8
  DEF PoolNext, Create, CreateFails, Begins, Works, Ends, JoinCalled, Joined, Detached, poolVars

\* A worker reads a THREAD_MGR_INFO that is allocated and its own, and calls the
\* function it was created for, on both platforms (thread_worker_func), however
\* threads are created, joined with and detached around it: a worker that reads
\* freed memory or the function of another was itself detached before it read.
THEOREM WorkersCallTheirFunction == PoolSpec => []WorkerCallsItsFunction
<1>1. InfoInv => WorkerCallsItsFunction
  BY DEF InfoInv
<1> QED
  BY <1>1, InfoInit, InfoStep, PTL DEF PoolSpec

-----------------------------------------------------------------------------
(* Handles                                                                     *)

\* Besides, a handle is given up by the call that joins with it.
HandlesInv == NothingLeaked /\ held \cap joining = {}

\* On posix every THREAD_MGR_INFO in use belongs to a handle that is held or being
\* joined with, at whatever time callers detach: thread_mgr_join and
\* thread_mgr_detach give back exactly their own, and thread_mgr_init what it
\* allocated for a thread that could not be created.
THEOREM NoHandleLeaked == PoolSpec => []NothingLeaked
<1>1. PoolInit => HandlesInv
  BY DEF PoolInit, Init, PlatformInit, HandlesInv, NothingLeaked
<1>2. HandlesInv /\ [PoolNext]_poolVars => HandlesInv'
  <2> SUFFICES ASSUME HandlesInv, [PoolNext]_poolVars PROVE HandlesInv'
    OBVIOUS
  <2> USE DEF HandlesInv, NothingLeaked
  <2>1. ASSUME NEW f \in Funcs, InitThread(f) PROVE HandlesInv'
    <3> PICK a \in Addresses \ live :
           /\ live' = live \cup {a} /\ held' = held \cup Returned(a)
           /\ joining' = joining /\ platform' = platform
      BY <2>1 DEF InitThread, AfterInit
    <3>1. CASE platform = "posix"
      BY <3>1 DEF Returned
    <3>2. CASE platform # "posix"
      BY <3>2 DEF Returned
    <3> QED
      BY <3>1, <3>2
  <2>2. ASSUME NEW t \in Threads, WorkerStart(t) \/ WorkerEnd(t) PROVE HandlesInv'
    BY <2>2 DEF WorkerStart, WorkerEnd, info
  <2>3. ASSUME NEW a \in Addresses, Join(a) PROVE HandlesInv'
    BY <2>3 DEF Join, info
  <2>4. ASSUME NEW a \in Addresses, JoinReturn(a) PROVE HandlesInv'
    BY <2>4 DEF JoinReturn, JoinFree
  <2>5. ASSUME NEW a \in Addresses, Detach(a) PROVE HandlesInv'
    BY <2>5 DEF Detach
  <2>6. ASSUME NEW f \in Funcs, InitFails(f) PROVE HandlesInv'
    BY <2>6 DEF InitFails, AfterFailedCreate
  <2>7. ASSUME UNCHANGED vars PROVE HandlesInv'
    BY <2>7 DEF vars, info
  <2> QED
    BY <2>1, <2>2, <2>3, <2>4, <2>5, <2>6, <2>7
    DEF PoolNext, Create, CreateFails, Begins, Works, Ends, JoinCalled, Joined, Detached, poolVars
<1>3. HandlesInv => NothingLeaked
  BY DEF HandlesInv
<1> QED
  BY <1>1, <1>2, <1>3, PTL DEF PoolSpec

-----------------------------------------------------------------------------
(* The atomic operations                                                       *)

LEMMA AtomicsStep == [PoolNext]_poolVars => UNCHANGED atomics \/ \E t \in Threads : Atomics(t)
  BY DEF PoolNext, Create, CreateFails, Begins, Works, Ends, JoinCalled, Joined, Detached, poolVars

LEMMA UpdatedType ==
    ASSUME value \in 0 .. Mod - 1, NEW t \in Threads, NEW d \in Operands
    PROVE  Updated(t, d) \in 0 .. Mod - 1
<1>1. value + d \in Nat /\ Mod \in Nat \ {0}
  BY AtomicOpsAssumption
<1> QED
  BY <1>1 DEF Updated

\* While a call is between its update and its read, the integer is one of the
\* values it has had since the update.
RecentInv == ResultIsRecent /\ \A t \in updating : value \in since[t]

LEMMA RecentStep == RecentInv /\ [PoolNext]_poolVars => RecentInv'
<1> SUFFICES ASSUME RecentInv, [PoolNext]_poolVars PROVE RecentInv'
  OBVIOUS
<1> USE DEF RecentInv, ResultIsRecent, AtomicTypeOK
<1>1. ASSUME NEW t \in Threads, Return(t) PROVE RecentInv'
  BY <1>1 DEF Return, Read
<1>2. ASSUME NEW t \in Threads, NEW d \in Operands, Begin(t, d)
      PROVE  /\ value' \in 0 .. Mod - 1
             /\ calls' \in [Threads -> 0 .. MaxCalls]
             /\ since' \in [Threads -> SUBSET (0 .. Mod - 1)]
             /\ value' \in since'[t]
             /\ \A u \in updating : value' \in since'[u]
             /\ \A u \in Threads \ (updating \cup {t}) : since'[u] = since[u]
  <2>1. value' \in 0 .. Mod - 1
    BY <1>2, UpdatedType DEF Begin
  <2>2. calls' \in [Threads -> 0 .. MaxCalls]
    BY <1>2, AtomicOpsAssumption DEF Begin
  <2> QED
    BY <1>2, <2>1, <2>2 DEF Begin
<1>3. ASSUME NEW t \in Threads, NEW d \in Operands, FetchAdd(t, d) PROVE RecentInv'
  BY <1>2, <1>3 DEF FetchAdd
<1>4. ASSUME NEW t \in Threads, NEW d \in Operands, Interlocked(t, d) PROVE RecentInv'
  <2>1. t \notin updating
    BY <1>4 DEF Interlocked, Begin
  <2> QED
    BY <1>2, <1>4, <2>1 DEF Interlocked, Answer
<1>5. CASE UNCHANGED atomics
  BY <1>5 DEF atomics
<1> QED
  BY <1>1, <1>3, <1>4, <1>5, AtomicsStep DEF Atomics

\* What a call returns is a value the integer had between the call's own update
\* and its return, for any number of threads and any width (all six functions, on
\* both platforms).
THEOREM ResultsAreRecent == PoolSpec => []ResultIsRecent
<1>1. PoolInit => RecentInv
  BY AtomicOpsAssumption DEF PoolInit, AtomicInit, RecentInv, ResultIsRecent, AtomicTypeOK
<1>2. RecentInv => ResultIsRecent
  BY DEF RecentInv
<1> QED
  BY <1>1, <1>2, RecentStep, PTL DEF PoolSpec

\* The last thread to have updated the integer has returned its value, or is yet
\* to read it.
SomebodyKnows ==
    (\E t \in Threads : calls[t] > 0)
        => \E t \in Threads : calls[t] > 0 /\ (t \in updating \/ result[t] = value)

LEMMA SomebodyKnowsStep ==
    RecentInv /\ SomebodyKnows /\ [PoolNext]_poolVars => SomebodyKnows'
<1> SUFFICES ASSUME RecentInv, SomebodyKnows, [PoolNext]_poolVars PROVE SomebodyKnows'
  OBVIOUS
<1> USE DEF RecentInv, ResultIsRecent, AtomicTypeOK
<1>1. ASSUME NEW t \in Threads, Return(t) PROVE SomebodyKnows'
  <2>1. result'[t] = value' /\ calls' = calls /\ value' = value
    BY <1>1 DEF Return, Read
  <2>2. \A u \in Threads \ {t} : (u \in updating' <=> u \in updating) /\ result'[u] = result[u]
    BY <1>1 DEF Return
  <2> QED
    BY <2>1, <2>2 DEF SomebodyKnows
<1>2. ASSUME NEW t \in Threads, NEW d \in Operands, FetchAdd(t, d) \/ Interlocked(t, d)
      PROVE  SomebodyKnows'
  <2>1. calls'[t] > 0
    BY <1>2 DEF FetchAdd, Interlocked, Begin
  <2>2. t \in updating' \/ result'[t] = value'
    BY <1>2 DEF FetchAdd, Interlocked, Answer
  <2> QED
    BY <2>1, <2>2 DEF SomebodyKnows
<1>3. CASE UNCHANGED atomics
  BY <1>3 DEF atomics, SomebodyKnows
<1> QED
  BY <1>1, <1>2, <1>3, AtomicsStep DEF Atomics

\* When no call is under way, some thread has been told the value the integer has:
\* of threads that count down together one learns that zero was reached, though
\* on Linux each asks in a second step (atomic_operations_linux.c).
THEOREM FinalValueIsSeen == PoolSpec => []FinalValueSeen
<1>1. PoolInit => RecentInv /\ SomebodyKnows
  BY AtomicOpsAssumption
  DEF PoolInit, AtomicInit, RecentInv, ResultIsRecent, AtomicTypeOK, SomebodyKnows
<1>2. SomebodyKnows => FinalValueSeen
  BY DEF SomebodyKnows, FinalValueSeen
<1> QED
  BY <1>1, <1>2, RecentStep, SomebodyKnowsStep, PTL DEF PoolSpec

-----------------------------------------------------------------------------
(* The mutex                                                                   *)

Claim(t) == holds[t] + IF initial /\ t = Creator THEN 1 ELSE 0

ClaimsCovered ==
    \A t \in Threads : Claim(t) > 0 => owner = t /\ Claim(t) <= depth

NobodyBefore == ~created => waiting = {} /\ \A t \in Threads : Claim(t) = 0

MutexInv == MutexTypeOK /\ (platform = "win" => ClaimsCovered) /\ NobodyBefore

LEMMA MutexInvInit ==
    ASSUME MutexInit
    PROVE  MutexInv
  <1>1. created \in BOOLEAN /\ abandoned \in BOOLEAN /\ initial \in BOOLEAN
    BY Zenon DEF MutexInit, PlatformInit
  <1>2. MutexTypeOK
    BY MutexAssumption, <1>1 DEF MutexInit, PlatformInit, MutexTypeOK
  <1>3. ClaimsCovered /\ NobodyBefore
    BY MutexAssumption DEF MutexInit, ClaimsCovered, NobodyBefore, Claim
  <1> QED
    BY <1>2, <1>3 DEF MutexInv

\* The conjuncts of TypeOK that say a variable is Boolean.
Booleans == created \in BOOLEAN /\ abandoned \in BOOLEAN /\ initial \in BOOLEAN

LEMMA BooleanStep ==
    ASSUME Booleans, [MutexNext]_mutexVars
    PROVE  Booleans'
  <1>1. CASE MutexCreate
    BY <1>1, Zenon DEF Booleans, MutexCreate, object
  <1>2. ASSUME NEW t \in Threads, Take(t) PROVE abandoned' \in BOOLEAN
    BY <1>2, Zenon DEF Booleans, Take, object
  <1>3. ASSUME NEW t \in Threads, Lock(t) PROVE Booleans'
    BY <1>3, Zenon DEF Booleans, Lock, object
  <1>4. ASSUME NEW t \in Threads, LockReturn(t) PROVE Booleans'
    BY <1>2, <1>4, Zenon DEF Booleans, LockReturn
  <1>5. ASSUME NEW t \in Threads, TryLock(t) PROVE Booleans'
    BY <1>2, <1>5, Zenon DEF Booleans, TryLock, object
  <1>6. ASSUME NEW t \in Threads, Unlock(t) PROVE Booleans'
    BY <1>6, Zenon DEF Booleans, Unlock
  <1>7. ASSUME NEW t \in Threads, Destroy(t) PROVE Booleans'
    BY <1>7, Zenon DEF Booleans, Destroy
  <1>8. ASSUME NEW t \in Threads, End(t) PROVE Booleans'
    BY <1>8, Zenon DEF Booleans, End, object
  <1>9. CASE UNCHANGED mutexVars
    BY <1>9 DEF Booleans, mutexVars, object
  <1> QED
    BY <1>1, <1>3, <1>4, <1>5, <1>6, <1>7, <1>8, <1>9 DEF MutexNext

LEMMA PlatformStays == [MutexNext]_mutexVars => platform' = platform
  <1> SUFFICES ASSUME [MutexNext]_mutexVars PROVE platform' = platform
    OBVIOUS
  <1>1. CASE MutexCreate
    BY <1>1 DEF MutexCreate
  <1>2. ASSUME NEW t \in Threads, Lock(t) \/ LockReturn(t) \/ TryLock(t)
        PROVE  platform' = platform
    BY <1>2 DEF Lock, LockReturn, TryLock
  <1>3. ASSUME NEW t \in Threads, Unlock(t) \/ Destroy(t) \/ End(t)
        PROVE  platform' = platform
    BY <1>3 DEF Unlock, Destroy, End
  <1>4. CASE UNCHANGED mutexVars
    BY <1>4 DEF mutexVars
  <1> QED
    BY <1>1, <1>2, <1>3, <1>4 DEF MutexNext

LEMMA MutexTypeStep ==
    ASSUME MutexTypeOK, [MutexNext]_mutexVars
    PROVE  MutexTypeOK'
  <1>0. Booleans' /\ platform' \in {"posix", "win"}
    BY BooleanStep, PlatformStays DEF MutexTypeOK, Booleans
  <1>1. CASE MutexCreate
    BY MutexAssumption, <1>0, <1>1 DEF MutexTypeOK, Booleans, MutexCreate, object
  <1>2. ASSUME NEW t \in Threads, Lock(t) PROVE MutexTypeOK'
    BY <1>0, <1>2 DEF MutexTypeOK, Booleans, Lock, Calls, object
  <1>3. ASSUME NEW t \in Threads, Take(t) PROVE
            /\ (owner \in Threads \cup {NULL})'
            /\ (depth \in Nat)'
            /\ (holds \in [Threads -> Nat])'
            /\ (ret \in [Threads -> {"none", "ok", "failed"}])'
            /\ (owner = NULL <=> depth = 0)'
    BY MutexAssumption, <1>3 DEF MutexTypeOK, Take, Granted, Refused, object
  <1>4. ASSUME NEW t \in Threads, LockReturn(t) PROVE MutexTypeOK'
    BY <1>0, <1>3, <1>4 DEF MutexTypeOK, Booleans, LockReturn
  <1>5. ASSUME NEW t \in Threads, TryLock(t) PROVE MutexTypeOK'
    <2>1. CASE Free(t)
      BY <1>0, <1>3, <1>5, <2>1 DEF MutexTypeOK, Booleans, TryLock
    <2>2. CASE ~Free(t)
      BY <1>0, <1>5, <2>2 DEF MutexTypeOK, Booleans, TryLock, Refused, object
    <2> QED
      BY <2>1, <2>2
  <1>6. ASSUME NEW t \in Threads, Unlock(t) PROVE MutexTypeOK'
    <2>1. (owner \in Threads \cup {NULL} /\ depth \in Nat /\ (owner = NULL <=> depth = 0))'
      BY MutexAssumption, <1>6 DEF MutexTypeOK, Unlock, GiveBack
    <2>2. (holds \in [Threads -> Nat] /\ waiting \subseteq alive /\ alive \subseteq Threads)'
      BY <1>6 DEF MutexTypeOK, Unlock
    <2>3. (ret \in [Threads -> {"none", "ok", "failed"}])'
      BY <1>6 DEF MutexTypeOK, Unlock
    <2> QED
      BY <1>0, <2>1, <2>2, <2>3 DEF MutexTypeOK, Booleans
  <1>7. ASSUME NEW t \in Threads, Destroy(t) PROVE MutexTypeOK'
    BY <1>0, <1>7 DEF MutexTypeOK, Booleans, Destroy, Calls
  <1>8. ASSUME NEW t \in Threads, End(t) PROVE MutexTypeOK'
    <2>1. (owner \in Threads \cup {NULL} /\ depth \in Nat /\ (owner = NULL <=> depth = 0))'
      BY <1>8 DEF MutexTypeOK, End, object
    <2>2. (holds \in [Threads -> Nat] /\ waiting \subseteq alive /\ alive \subseteq Threads
           /\ ret \in [Threads -> {"none", "ok", "failed"}])'
      BY <1>8 DEF MutexTypeOK, End
    <2> QED
      BY <1>0, <2>1, <2>2 DEF MutexTypeOK, Booleans
  <1>9. CASE UNCHANGED mutexVars
    BY <1>9 DEF MutexTypeOK, mutexVars, object
  <1> QED
    BY <1>1, <1>2, <1>4, <1>5, <1>6, <1>7, <1>8, <1>9 DEF MutexNext

\* Types hold on both platforms, whatever the threads do.
THEOREM TypeCorrect == MutexSpec => []MutexTypeOK
  <1>1. MutexInit => MutexTypeOK
    BY MutexInvInit DEF MutexInv
  <1> QED
    BY <1>1, MutexTypeStep, PTL DEF MutexSpec

LEMMA ClaimsStep ==
    ASSUME platform = "win", MutexInv, [MutexNext]_mutexVars
    PROVE  ClaimsCovered'
  <1> USE DEF MutexInv
  <1>0. MutexTypeOK'
    BY MutexTypeStep
  <1>1. CASE MutexCreate
    <2>1. \A t \in Threads : holds[t] = 0 /\ ~(initial /\ t = Creator)
      BY <1>1 DEF MutexTypeOK, NobodyBefore, Claim, MutexCreate
    <2> QED
      BY MutexAssumption, <1>1, <2>1 DEF MutexTypeOK, ClaimsCovered, Claim, MutexCreate, object
  <1>2. ASSUME NEW t \in Threads, Lock(t) PROVE ClaimsCovered'
    BY <1>2 DEF MutexTypeOK, ClaimsCovered, Claim, Lock, object
  <1>3. ASSUME NEW t \in Threads, Take(t), Free(t), UNCHANGED initial PROVE ClaimsCovered'
    <2>1. \A u \in Threads \ {t} : ~(Claim(u) > 0)
      BY MutexAssumption, <1>3 DEF ClaimsCovered, Free
    <2>2. owner = NULL => Claim(t) = 0
      BY MutexAssumption DEF MutexTypeOK, ClaimsCovered, Claim
    <2>3. Claim(t) <= depth
      BY <2>2 DEF MutexTypeOK, ClaimsCovered, Claim
    <2>4. owner' = t /\ depth' = depth + 1
      BY <1>3 DEF Take
    <2>5. holds' = holds \/ holds' = [holds EXCEPT ![t] = @ + 1]
      BY <1>3 DEF Take, Granted, Refused
    <2>6. Claim(t)' <= depth'
      BY <1>3, <2>3, <2>4, <2>5 DEF MutexTypeOK, Claim
    <2>7. \A u \in Threads \ {t} : ~(Claim(u)' > 0)
      BY <1>3, <2>1, <2>5 DEF MutexTypeOK, Claim
    <2> QED
      BY <2>4, <2>6, <2>7 DEF ClaimsCovered
  <1>4. ASSUME NEW t \in Threads, LockReturn(t) PROVE ClaimsCovered'
    BY <1>3, <1>4 DEF LockReturn
  <1>5. ASSUME NEW t \in Threads, TryLock(t) PROVE ClaimsCovered'
    <2>1. CASE Free(t)
      BY <1>3, <1>5, <2>1 DEF TryLock
    <2>2. CASE ~Free(t)
      BY <1>5, <2>2 DEF ClaimsCovered, Claim, TryLock, Refused, object
    <2> QED
      BY <2>1, <2>2
  <1>6. ASSUME NEW t \in Threads, Unlock(t) PROVE ClaimsCovered'
    <2>1. Claim(t) > 0 /\ Claim(t)' = Claim(t) - 1
      BY MutexAssumption, <1>6 DEF MutexTypeOK, Claim, Unlock
    <2>2. owner = t /\ Claim(t) <= depth
      BY <2>1 DEF ClaimsCovered
    <2>3. depth' = depth - 1 /\ owner' = IF depth = 1 THEN NULL ELSE t
      BY <1>6, <2>2 DEF Unlock, GiveBack
    <2>4. \A u \in Threads \ {t} : Claim(u)' = Claim(u) /\ ~(Claim(u) > 0)
      BY <1>6, <2>2 DEF MutexTypeOK, ClaimsCovered, Claim, Unlock
    <2>5. Claim(t) \in Nat /\ depth \in Nat
      BY DEF MutexTypeOK, Claim
    <2> QED
      BY <2>1, <2>2, <2>3, <2>4, <2>5 DEF ClaimsCovered
  <1>7. ASSUME NEW t \in Threads, Destroy(t) PROVE ClaimsCovered'
    BY <1>7 DEF MutexTypeOK, ClaimsCovered, Claim, Destroy
  <1>8. ASSUME NEW t \in Threads, End(t) PROVE ClaimsCovered'
    <2>1. Claim(t)' = 0
      BY <1>8 DEF MutexTypeOK, Claim, End
    <2>2. \A u \in Threads \ {t} : Claim(u)' = Claim(u)
      BY <1>8 DEF MutexTypeOK, Claim, End
    <2>3. owner # t => owner' = owner /\ depth' = depth
      BY <1>8 DEF End, object
    <2> QED
      BY <2>1, <2>2, <2>3 DEF ClaimsCovered
  <1>9. CASE UNCHANGED mutexVars
    BY <1>9 DEF ClaimsCovered, Claim, mutexVars, object
  <1> QED
    BY <1>1, <1>2, <1>4, <1>5, <1>6, <1>7, <1>8, <1>9 DEF MutexNext

LEMMA BeforeStep ==
    ASSUME MutexInv, [MutexNext]_mutexVars
    PROVE  NobodyBefore'
  <1> USE DEF MutexInv, NobodyBefore
  <1>1. CASE MutexCreate
    BY <1>1 DEF Claim, MutexCreate, object
  <1>2. ASSUME NEW t \in Threads, Lock(t) \/ TryLock(t) \/ Unlock(t) \/ LockReturn(t)
        PROVE  created' = created /\ created
    BY <1>2 DEF Lock, TryLock, Unlock, LockReturn, Calls
  <1>3. ASSUME NEW t \in Threads, Destroy(t) PROVE NobodyBefore'
    BY <1>3 DEF MutexTypeOK, Claim, Destroy
  <1>4. ASSUME NEW t \in Threads, End(t) PROVE NobodyBefore'
    BY <1>4 DEF MutexTypeOK, Claim, End
  <1>5. CASE UNCHANGED mutexVars
    BY <1>5 DEF Claim, mutexVars, object
  <1> QED
    BY <1>1, <1>2, <1>3, <1>4, <1>5 DEF MutexNext

LEMMA MutexInvStep ==
    ASSUME MutexInv, [MutexNext]_mutexVars
    PROVE  MutexInv'
  <1>1. MutexTypeOK' /\ NobodyBefore'
    BY MutexTypeStep, BeforeStep DEF MutexInv
  <1>2. platform = "win" => ClaimsCovered'
    BY ClaimsStep
  <1> QED
    BY <1>1, <1>2, PlatformStays DEF MutexInv

LEMMA CoveredExcludes == MutexInv => MutualExclusion
  BY DEF MutexInv, MutexTypeOK, ClaimsCovered, Claim, MutualExclusion

\* On Windows never two threads at a time were told by mutex_mgr_lock or
\* mutex_mgr_trylock that they have the mutex.
THEOREM WinExcludes == MutexSpec => []MutualExclusion
  BY MutexInvStep, MutexInvInit, CoveredExcludes, PTL DEF MutexSpec

=============================================================================
