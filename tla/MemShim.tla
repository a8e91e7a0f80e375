------------------------------- MODULE MemShim -------------------------------
(***************************************************************************)
(* The counting allocator of src/src/sys_debug_shim.c, through which every *)
(* malloc, calloc, realloc and free of the library goes when it is built   *)
(* with USE_MEMORY_DEBUG_SHIM.  Between mem_shim_init and mem_shim_deinit  *)
(* it keeps an ALLOCATION for each block and counts; outside it passes the *)
(* calls on.  blocks is the real heap, the part of the environment the     *)
(* counts are about.                                                       *)
(***************************************************************************)
EXTENDS Naturals, SequencesExt

CONSTANTS
    Ptrs,        \* the addresses of blocks
    Sizes,       \* the sizes asked for
    SizeMod,     \* 2^w for the w bits of size_t
    MaxCount,    \* bound: no call that counts an allocation beyond this
    MaxRecords,  \* bound: no allocation when the list has so many
    Switches     \* which of "init", "deinit" and "reset" callers use while blocks
                 \* are in use; the others only when there is none

ASSUME MemShimAssumption ==
    /\ SizeMod \in Nat \ {0}
    /\ Sizes \subseteq 1 .. SizeMod - 1
    /\ MaxCount \in Nat /\ MaxRecords \in Nat
    /\ Switches \subseteq {"init", "deinit", "reset"}

VARIABLES
    head,        \* the ALLOCATIONs, the newest first
    totalSize, maxSize, g_allocations,
    gballocState,
    blocks,      \* the size of each block in use
    peak,        \* the most memory in use at any point since init or reset
    left         \* the ALLOCATIONs that were there at the last init

counts == <<totalSize, maxSize, g_allocations>>
vars == <<head, counts, gballocState, blocks, peak, left>>

Init == /\ head = <<>>
        /\ totalSize = 0 /\ maxSize = 0 /\ g_allocations = 0
        /\ gballocState = "NOT_INIT"
        /\ blocks = <<>>
        /\ peak = 0 /\ left = 0

-----------------------------------------------------------------------------

IsInit == gballocState = "INIT"

\* The bytes in use, each by its block and its place in it, and how many they are
Heap == UNION {{p} \X (1 .. blocks[p]) : p \in DOMAIN blocks}
Used == Cardinality(Heap)

MaxOf(a, b) == IF a < b THEN b ELSE a

\* blocks once p has size s, and once p is given back
With(p, s) == [q \in DOMAIN blocks \cup {p} |-> IF q = p THEN s ELSE blocks[q]]
Less(p) == [q \in DOMAIN blocks \ {p} |-> blocks[q]]

\* The position of the newest ALLOCATION of p, 0 when there is none.
Find(p) == SelectInSeq(head, LAMBDA a : a.ptr = p)

Record(p, s) == [ptr |-> p, size |-> s]

\* The ALLOCATIONs with one for a new block.
Track(p, s) == <<Record(p, s)>> \o head

\* What every successful allocation does to the counts, old being the size that
\* a block that is resized had.
Count_MaxFirst(s, old) ==
    /\ g_allocations' = g_allocations + 1
    /\ maxSize' = MaxOf(maxSize, totalSize)
    /\ totalSize' = (totalSize + SizeMod - old + s) % SizeMod

Count(s, old) ==
    /\ g_allocations' = g_allocations + 1
    /\ totalSize' = (totalSize + SizeMod - old + s) % SizeMod
    /\ maxSize' = MaxOf(maxSize, totalSize')

MayCall(switch) == switch \in Switches \/ blocks = <<>>

PeakGrows == peak' = MaxOf(peak, Used')

\* mem_shim_init
ShimInit ==
    /\ MayCall("init")
    /\ ~IsInit
    /\ gballocState' = "INIT"
    /\ totalSize' = 0 /\ maxSize' = 0 /\ g_allocations' = 0
    /\ peak' = Used
    /\ left' = Len(head)
    /\ UNCHANGED <<head, blocks>>

\* mem_shim_deinit
ShimDeinit ==
    /\ MayCall("deinit")
    /\ gballocState' = "NOT_INIT"
    /\ UNCHANGED <<head, counts, blocks, peak, left>>

\* mem_shim_reset
Reset ==
    /\ MayCall("reset")
    /\ IsInit
    /\ totalSize' = 0 /\ maxSize' = 0 /\ g_allocations' = 0
    /\ peak' = Used
    /\ UNCHANGED <<head, gballocState, blocks, left>>

\* mem_shim_malloc; when either allocation fails nothing is left of the other.
Malloc(p, s) ==
    /\ p \notin DOMAIN blocks
    /\ g_allocations < MaxCount
    /\ Len(head) < MaxRecords
    /\ Used + s < SizeMod
    /\ blocks' = With(p, s)
    /\ IF IsInit
       THEN head' = Track(p, s) /\ Count(s, 0)
       ELSE UNCHANGED <<head, counts>>
    /\ PeakGrows
    /\ UNCHANGED <<gballocState, left>>

\* mem_shim_calloc: a product that does not fit into size_t is refused.
Calloc(p, nmemb, s) == nmemb * s < SizeMod /\ Malloc(p, nmemb * s)

\* The ALLOCATIONs once block p is q of size s: the one of p is changed.
Retrack(p, q, s) == ReplaceAt(head, Find(p), Record(q, s))

\* mem_shim_realloc of a block in use, to where it was or elsewhere; with a NULL
\* pointer it is mem_shim_malloc.  A block the shim does not know is refused.
Realloc(p, q, s) ==
    /\ p \in DOMAIN blocks
    /\ q \notin DOMAIN blocks \ {p}
    /\ g_allocations < MaxCount
    /\ Used - blocks[p] + s < SizeMod
    /\ IsInit => Find(p) # 0
    /\ blocks' = [r \in (DOMAIN blocks \ {p}) \cup {q} |-> IF r = q THEN s ELSE blocks[r]]
    /\ IF IsInit
       THEN /\ head' = Retrack(p, q, s)
            /\ Count(s, head[Find(p)].size)
       ELSE UNCHANGED <<head, counts>>
    /\ PeakGrows
    /\ UNCHANGED <<gballocState, left>>

TotalAfterFree_Forgets(i) == totalSize

\* totalSize once the block of ALLOCATION i is gone, in the width of size_t.
TotalAfterFree(i) == (totalSize + SizeMod - head[i].size) % SizeMod

\* The ALLOCATIONs without the i-th.
Untrack_Keeps(i) == head
Untrack(i) == RemoveAt(head, i)

\* mem_shim_free: a block the shim does not know is not freed at all.
Free(p) ==
    /\ p \in DOMAIN blocks
    /\ IF ~IsInit
       THEN blocks' = Less(p) /\ UNCHANGED <<head, totalSize>>
       ELSE IF Find(p) = 0
            THEN UNCHANGED <<blocks, head, totalSize>>
            ELSE /\ blocks' = Less(p)
                 /\ totalSize' = TotalAfterFree(Find(p))
                 /\ head' = Untrack(Find(p))
    /\ UNCHANGED <<maxSize, g_allocations, gballocState, peak, left>>

Next ==
    \/ ShimInit \/ ShimDeinit \/ Reset
    \/ \E p \in Ptrs, s \in Sizes : Malloc(p, s) \/ \E n \in 1 .. 2 : Calloc(p, n, s)
    \/ \E p, q \in Ptrs, s \in Sizes : Realloc(p, q, s)
    \/ \E p \in Ptrs : Free(p)

Spec == Init /\ [][Next]_vars

\* mem_shim_get_current_memory, mem_shim_get_maximum_memory and
\* mem_shim_get_allocations
CurrentMemory == IF IsInit THEN totalSize ELSE SizeMod - 1
MaximumMemory == IF IsInit THEN maxSize ELSE SizeMod - 1
Allocations == IF IsInit THEN g_allocations ELSE 0

-----------------------------------------------------------------------------
(* Properties *)

\* The type invariant, which InUseIsTracked includes
TypeOK ==
    /\ \A i \in DOMAIN head : head[i] \in [ptr : Ptrs, size : 1 .. SizeMod - 1]
    /\ {totalSize, maxSize} \subseteq 0 .. SizeMod - 1
    /\ g_allocations \in 0 .. MaxCount
    /\ gballocState \in {"INIT", "NOT_INIT"}
    /\ DOMAIN blocks \subseteq Ptrs
    /\ Len(head) <= MaxRecords

\* Comment of sys_debug_shim.c:92: the total memory used is incremented by each
\* successful allocation (and goes down with each block freed), so that it is
\* the memory in use.
TotalIsMemoryUsed == IsInit => CurrentMemory = Used

\* Comment of sys_debug_shim.c:100: "The maximum total memory used shall be the
\* maximum of the total memory used at any point."
MaximumIsPeak == IsInit => MaximumMemory = peak

\* The size recorded for a block in use is its size: through reallocs that move
\* it, and with the ALLOCATIONs that a mem_shim_deinit leaves behind for blocks
\* freed outside, whose addresses the heap hands out again.  Besides, the list
\* holds only those left behind.
InUseIsTracked ==
    /\ TypeOK
    /\ IsInit =>
          /\ \A p \in DOMAIN blocks : Find(p) # 0 /\ head[Find(p)].size = blocks[p]
          /\ Len(head) = left + Cardinality(DOMAIN blocks)

=============================================================================
