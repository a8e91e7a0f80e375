------------------------------ MODULE ThreadMgr ------------------------------
(***************************************************************************)
(* thread_mgr.h: threads started with a function and the THREAD_MGR_INFO   *)
(* through which the new thread finds it.  The creating thread and the     *)
(* worker run concurrently, and the worker reads the structure only when   *)
(* it gets to run, which may be after the creator has given it back to the *)
(* heap and the heap has handed it out again.                              *)
(*                                                                         *)
(* "posix" is src/src/pal/linux/thread_mgr_posix.c.  "win" is              *)
(* src/src/pal/win/thread_mgr_win.c, whose thread_mgr_init returns NULL    *)
(* always: the caller has no handle to join or detach with.                *)
(*                                                                         *)
(* Threads are those that the system can create, each used once.           *)
(***************************************************************************)
EXTENDS Naturals, Platform

CONSTANTS
    Addresses,   \* where a THREAD_MGR_INFO can be allocated
    Funcs        \* the start functions (with their parameter)

ASSUME ThreadMgrAssumption == NULL \notin Funcs \cup Threads \cup Addresses

VARIABLES
    live,        \* the THREAD_MGR_INFOs that are allocated
    thread_func, \* the function in each of them
    main_thread, \* the thread in each of them
    held,        \* the handles the callers have
    joining,     \* the handles a caller is inside thread_mgr_join with
    pc,          \* where each thread is
    arg,         \* the address thread_worker_func of a thread was given
    wanted,      \* the function the thread was created for
    ran,         \* the function it called
    early,       \* the threads that were detached before they had read theirs
    ub           \* a freed THREAD_MGR_INFO was read

info == <<live, thread_func, main_thread>>
thread == <<pc, arg, wanted, ran>>
vars == <<platform, info, held, joining, thread, early, ub>>

Init == /\ PlatformInit
        /\ live = {}
        /\ thread_func = [a \in Addresses |-> NULL]
        /\ main_thread = [a \in Addresses |-> NULL]
        /\ held = {} /\ joining = {}
        /\ pc = [t \in Threads |-> "none"]
        /\ arg = [t \in Threads |-> NULL]
        /\ wanted = [t \in Threads |-> NULL]
        /\ ran = [t \in Threads |-> NULL]
        /\ early = {}
        /\ ub = FALSE

-----------------------------------------------------------------------------

\* The allocated structures once thread_mgr_init is over with the one at a.
AfterInit_Freed(a) == live
AfterInit(a) == live \cup {a}

\* The handle that the caller gets: on Windows thread_mgr_init ends in return NULL.
Returned(a) == IF platform = "posix" THEN {a} ELSE {}

\* thread_mgr_init with start function f; when malloc fails nothing happened.
InitThread(f) ==
    /\ ~ub
    /\ \E a \in Addresses \ live, t \in Threads :
          /\ pc[t] = "none"
          /\ live' = AfterInit(a)
          /\ thread_func' = [thread_func EXCEPT ![a] = f]
          /\ main_thread' = [main_thread EXCEPT ![a] = t]
          /\ held' = held \cup Returned(a)
          /\ pc' = [pc EXCEPT ![t] = "created"]
          /\ arg' = [arg EXCEPT ![t] = a]
          /\ wanted' = [wanted EXCEPT ![t] = f]
    /\ UNCHANGED <<platform, joining, ran, early, ub>>

\* mutation: the structure is not freed
AfterFailedCreate_Leaks(a) == live \cup {a}

\* The allocated structures when pthread_create or CreateThread has failed.
AfterFailedCreate(a) == (live \cup {a}) \ {a}

\* thread_mgr_init with start function f for which there is no thread.
InitFails(f) ==
    /\ ~ub
    /\ \E a \in Addresses \ live :
          /\ live' = AfterFailedCreate(a)
          /\ thread_func' = [thread_func EXCEPT ![a] = f]
    /\ UNCHANGED <<platform, main_thread, held, joining, thread, early, ub>>

\* thread_worker_func reads the function from the structure and calls it ...
WorkerStart(t) ==
    /\ ~ub
    /\ pc[t] = "created"
    /\ IF arg[t] \in live
       THEN /\ ran' = [ran EXCEPT ![t] = thread_func[arg[t]]]
            /\ pc' = [pc EXCEPT ![t] = "running"]
            /\ UNCHANGED ub
       ELSE ub' = TRUE /\ UNCHANGED <<ran, pc>>
    /\ UNCHANGED <<platform, info, held, joining, arg, wanted, early>>

\* ... which returns.
WorkerEnd(t) ==
    /\ ~ub
    /\ pc[t] = "running"
    /\ pc' = [pc EXCEPT ![t] = "done"]
    /\ UNCHANGED <<platform, info, held, joining, arg, wanted, ran, early, ub>>

\* thread_mgr_join: the call, after which the handle is used up, ...
Join(a) ==
    /\ ~ub
    /\ a \in held
    /\ held' = held \ {a}
    /\ joining' = joining \cup {a}
    /\ UNCHANGED <<platform, info, thread, early, ub>>

ThreadEnded_OnlyRunning(a) == pc[main_thread[a]] = "running"

\* What pthread_join and WaitForSingleObject wait for.
ThreadEnded(a) == pc[main_thread[a]] = "done"

JoinFree(a) == live' = live \ {a}

\* ... and its return, with the structure freed.
JoinReturn(a) ==
    /\ ~ub
    /\ a \in joining
    /\ ThreadEnded(a)
    /\ JoinFree(a)
    /\ joining' = joining \ {a}
    /\ UNCHANGED <<platform, thread_func, main_thread, held, thread, early, ub>>

\* The threads detached early, once that of handle a is.
EarlyAfter(a) == early \cup {t \in {main_thread[a]} : pc[t] = "created"}

\* thread_mgr_detach, at any time; pthread_detach may fail, and then nothing is
\* freed and the caller still has the handle.
Detach(a) ==
    /\ ~ub
    /\ a \in held
    /\ held' = held \ {a}
    /\ live' = live \ {a}
    /\ early' = EarlyAfter(a)
    /\ UNCHANGED <<platform, thread_func, main_thread, joining, thread, ub>>

-----------------------------------------------------------------------------
(* Properties *)

\* The type invariant, which WorkerCallsItsFunction includes
TypeOK ==
    /\ platform \in {"posix", "win"}
    /\ live \subseteq Addresses
    /\ thread_func \in [Addresses -> Funcs \cup {NULL}]
    /\ main_thread \in [Addresses -> Threads \cup {NULL}]
    /\ pc \in [Threads -> {"none", "created", "running", "done"}]
    /\ arg \in [Threads -> Addresses \cup {NULL}]
    /\ wanted \in [Threads -> Funcs \cup {NULL}]
    /\ ran \in [Threads -> Funcs \cup {NULL}]
    /\ early \subseteq Threads
    /\ ub \in BOOLEAN
    /\ held \cup joining \subseteq live
    /\ held \cap joining = {}

\* A worker calls the function its creator asked for, and not whatever the heap
\* put where its structure was: until it has read it, its structure is neither freed
\* nor another's, whichever threads are joined, detached and created meanwhile.  Only
\* a worker that was itself detached before it read its structure may miss its
\* function or read freed memory.
WorkerCallsItsFunction ==
    /\ TypeOK
    /\ \A t \in Threads \ early :
          /\ pc[t] = "created" => arg[t] \in live /\ main_thread[arg[t]] = t
          /\ ran[t] \in {NULL, wanted[t]}
    /\ ub => \E t \in early : pc[t] = "created"

\* What thread_mgr_detach_succeed expects (thread_mgr_posix_ut.c:235): a thread may
\* be detached as soon as thread_mgr_init has returned, so that all workers, those
\* too, call the function they were created for.  It does not hold on posix.
DetachIsHarmless == ~ub /\ \A t \in Threads : ran[t] \in {NULL, wanted[t]}

\* On posix every structure belongs to a handle somebody can still join: joined
\* ones are given back, and by the join only, and so are those for which no thread
\* could be created.
NothingLeaked == platform = "posix" => live = held \cup joining

\* thread_mgr_join returns, once the function has, unless a worker that was detached
\* early has read freed memory.
JoinReturns == \A a \in Addresses : a \in joining ~> a \notin joining \/ ub

=============================================================================
