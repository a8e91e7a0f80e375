-------------------------- MODULE ShimClientsProofs --------------------------
(***************************************************************************)
(* Theorems about the counting allocator and its clients, for any number   *)
(* of addresses, sizes and clients.  What is assumed of callers is that    *)
(* they call mem_shim_init and mem_shim_reset only when no block is in use *)
(* (Switches \subseteq {"deinit"}); they may call mem_shim_deinit at any   *)
(* time, with blocks in use that are freed behind the back of the shim.    *)
(***************************************************************************)
EXTENDS ShimClients, FiniteSetTheorems, SequenceTheorems, TLAPS

-----------------------------------------------------------------------------
(* Numbers and sequences                                                       *)

LEMMA LeastNat ==
    ASSUME NEW T \in SUBSET Nat, T # {}
    PROVE  \E n \in T : \A m \in T : n <= m
<1>1. \E n \in T : \A m \in T : ~ (<<m, n>> \in OpToRel(<, Nat))
  BY NatLessThanWellFounded, WFMin, Zenon
<1>2. ASSUME NEW n \in T, NEW m \in T, ~ (<<m, n>> \in OpToRel(<, Nat)) PROVE n <= m
  <2>1. ~ (m < n)
    BY <1>2 DEF OpToRel
  <2> QED
    BY <2>1
<1> QED
  BY <1>1, <1>2

\* What the least element of a set of numbers is.
LEMMA MinIsLeast ==
    ASSUME NEW T \in SUBSET Nat, NEW n \in T, \A m \in T : n <= m
    PROVE  Min(T) = n
<1>1. Min(T) \in T /\ \A m \in T : Min(T) <= m
  BY DEF Min
<1>2. n \in Nat /\ Min(T) \in Nat /\ Min(T) <= n /\ n <= Min(T)
  BY <1>1
<1> QED
  BY <1>2

\* A size that fits into size_t survives the detour over SizeMod.
LEMMA Wraps == ASSUME NEW m \in Nat \ {0}, NEW n \in 0 .. m - 1 PROVE (n + m) % m = n
  OBVIOUS

\* What RemoveAt leaves.
LEMMA RemoveAtIs ==
    ASSUME NEW S, NEW s \in Seq(S), NEW i \in 1 .. Len(s)
    PROVE  /\ RemoveAt(s, i) \in Seq(S)
           /\ Len(RemoveAt(s, i)) = Len(s) - 1
           /\ \A j \in 1 .. Len(s) - 1 :
                 RemoveAt(s, i)[j] = IF j < i THEN s[j] ELSE s[j + 1]
<1> DEFINE before == SubSeq(s, 1, i - 1)
           after == SubSeq(s, i + 1, Len(s))
<1>0. Len(s) \in Nat /\ \A j \in 1 .. Len(s) : s[j] \in S
  BY LenProperties, ElementOfSeq
<1>1. /\ before \in Seq(S) /\ Len(before) = i - 1
      /\ \A j \in 1 .. i - 1 : before[j] = s[j]
  BY <1>0, SubSeqProperties
<1>2. /\ after \in Seq(S) /\ Len(after) = Len(s) - i
      /\ \A j \in 1 .. Len(s) - i : after[j] = s[i + j]
  BY <1>0, SubSeqProperties
<1> HIDE DEF before, after
<1>3. /\ before \o after \in Seq(S)
      /\ Len(before \o after) = Len(s) - 1
      /\ \A j \in 1 .. Len(s) - 1 :
            (before \o after)[j] = IF j <= i - 1 THEN before[j] ELSE after[j - (i - 1)]
  <2>1. Len(before) + Len(after) = Len(s) - 1
    BY <1>0, <1>1, <1>2
  <2>2. /\ before \o after \in Seq(S)
        /\ Len(before \o after) = Len(before) + Len(after)
        /\ \A j \in 1 .. Len(before) + Len(after) : (before \o after)[j] =
              IF j <= Len(before) THEN before[j] ELSE after[j - Len(before)]
    BY <1>1, <1>2, ConcatProperties, Zenon
  <2> QED
    BY <1>1, <2>1, <2>2
<1>4. RemoveAt(s, i) = before \o after
  BY DEF RemoveAt, before, after
<1>5. ASSUME NEW j \in 1 .. Len(s) - 1
      PROVE  (before \o after)[j] = IF j < i THEN s[j] ELSE s[j + 1]
  <2>1. CASE j < i
    BY <1>0, <1>1, <1>3, <2>1
  <2>2. CASE ~ (j < i)
    <3>1. j - (i - 1) \in 1 .. Len(s) - i /\ i + (j - (i - 1)) = j + 1
      BY <1>0, <2>2
    <3> QED
      BY <1>0, <1>2, <1>3, <2>2, <3>1
  <2> QED
    BY <2>1, <2>2
<1> QED
  BY <1>3, <1>4, <1>5

-----------------------------------------------------------------------------
(* The bytes in use                                                            *)

\* The bytes of the blocks b.
BytesOf(b) == UNION {{p} \X (1 .. b[p]) : p \in DOMAIN b}

LEMMA UsedIs == Used = Cardinality(BytesOf(blocks)) /\ Heap = BytesOf(blocks)
  BY DEF Used, Heap, BytesOf

LEMMA BytesOfBlock ==
    ASSUME NEW p, NEW s \in Nat
    PROVE  IsFiniteSet({p} \X (1 .. s)) /\ Cardinality({p} \X (1 .. s)) = s
<1>1. IsFiniteSet(1 .. s) /\ Cardinality(1 .. s) = s
  BY FS_Interval
<1>2. IsFiniteSet({p}) /\ Cardinality({p}) = 1
  BY FS_Singleton
<1> QED
  BY <1>1, <1>2, FS_Product

LEMMA CardinalityWithBlock ==
    ASSUME NEW B, IsFiniteSet(B), NEW p, NEW s \in Nat, B \cap ({p} \X (1 .. s)) = {}
    PROVE  /\ IsFiniteSet(B \cup ({p} \X (1 .. s)))
           /\ Cardinality(B \cup ({p} \X (1 .. s))) = Cardinality(B) + s
<1> DEFINE new == {p} \X (1 .. s)
<1>1. IsFiniteSet(new) /\ Cardinality(new) = s
  BY BytesOfBlock
<1>2. Cardinality(B) \in Nat /\ Cardinality(B \cap new) = 0
  BY FS_CardinalityType, FS_EmptySet
<1> HIDE DEF new
<1>3. /\ IsFiniteSet(B \cup new)
      /\ Cardinality(B \cup new) = Cardinality(B) + s - 0
  BY <1>1, <1>2, FS_Union
<1> QED
  BY <1>2, <1>3 DEF new

\* A new block adds its size to the bytes in use.
LEMMA BytesWith ==
    ASSUME NEW b, NEW p, p \notin DOMAIN b, NEW s \in Nat, IsFiniteSet(BytesOf(b)),
           NEW c, c = [q \in DOMAIN b \cup {p} |-> IF q = p THEN s ELSE b[q]]
    PROVE  /\ IsFiniteSet(BytesOf(c))
           /\ Cardinality(BytesOf(c)) = Cardinality(BytesOf(b)) + s
<1>1. BytesOf(c) = BytesOf(b) \cup ({p} \X (1 .. s))
  BY DEF BytesOf
<1>2. BytesOf(b) \cap ({p} \X (1 .. s)) = {}
  BY DEF BytesOf
<1>3. /\ IsFiniteSet(BytesOf(b) \cup ({p} \X (1 .. s)))
      /\ Cardinality(BytesOf(b) \cup ({p} \X (1 .. s))) = Cardinality(BytesOf(b)) + s
  BY <1>2, CardinalityWithBlock
<1> QED
  BY <1>1, <1>3

\* A block that is given back takes its size from them.
LEMMA BytesLess ==
    ASSUME NEW b, NEW p \in DOMAIN b, b[p] \in Nat, IsFiniteSet(BytesOf(b)),
           NEW c, c = [q \in DOMAIN b \ {p} |-> b[q]]
    PROVE  /\ IsFiniteSet(BytesOf(c))
           /\ Cardinality(BytesOf(b)) = Cardinality(BytesOf(c)) + b[p]
<1>1. BytesOf(b) = BytesOf(c) \cup ({p} \X (1 .. b[p]))
  BY DEF BytesOf
<1>2. BytesOf(c) \cap ({p} \X (1 .. b[p])) = {}
  BY DEF BytesOf
<1>3. IsFiniteSet(BytesOf(c))
  BY <1>1, FS_Subset
<1>4. Cardinality(BytesOf(c) \cup ({p} \X (1 .. b[p]))) = Cardinality(BytesOf(c)) + b[p]
  BY <1>2, <1>3, CardinalityWithBlock
<1> QED
  BY <1>1, <1>3, <1>4

-----------------------------------------------------------------------------
(* The allocator                                                               *)

Allocation == [ptr : Ptrs, size : 1 .. SizeMod - 1]

\* The number of ALLOCATIONs made since the last mem_shim_init, which are the
\* first of the list.
Fresh == Len(head) - left

\* They are those of the blocks in use, one each; what is behind them is stale,
\* and an address in it may be in use again.
Tracked ==
    /\ Fresh \in Nat
    /\ \A i \in 1 .. Fresh :
          head[i].ptr \in DOMAIN blocks /\ head[i].size = blocks[head[i].ptr]
    /\ \A i, j \in 1 .. Fresh : head[i].ptr = head[j].ptr => i = j
    /\ \A p \in DOMAIN blocks : \E i \in 1 .. Fresh : head[i].ptr = p
    /\ Fresh = Cardinality(DOMAIN blocks)

HeapOK ==
    /\ DOMAIN blocks \subseteq Ptrs
    /\ IsFiniteSet(DOMAIN blocks)
    /\ \A p \in DOMAIN blocks : blocks[p] \in 1 .. SizeMod - 1
    /\ IsFiniteSet(BytesOf(blocks))
    /\ Used \in 0 .. SizeMod - 1

RecordsOK ==
    /\ head \in Seq(Allocation)
    /\ Len(head) <= MaxRecords
    /\ left \in Nat
    /\ gballocState \in {"INIT", "NOT_INIT"}
    /\ {totalSize, maxSize} \subseteq 0 .. SizeMod - 1
    /\ g_allocations \in 0 .. MaxCount

CountsOK == IsInit => Tracked /\ totalSize = Used /\ maxSize = peak

ShimInv == HeapOK /\ RecordsOK /\ CountsOK

USE MemShimAssumption

LEMMA NothingInUse ==
    ASSUME blocks = <<>>
    PROVE  /\ DOMAIN blocks = {} /\ BytesOf(blocks) = {} /\ Used = 0
           /\ IsFiniteSet(DOMAIN blocks) /\ IsFiniteSet(BytesOf(blocks))
           /\ Cardinality(DOMAIN blocks) = 0
<1>1. DOMAIN blocks = {}
  OBVIOUS
<1>2. BytesOf(blocks) = {}
  BY <1>1 DEF BytesOf
<1> QED
  BY <1>1, <1>2, FS_EmptySet, UsedIs

LEMMA ShimInvInit == Init => ShimInv
<1> SUFFICES ASSUME Init PROVE ShimInv
  OBVIOUS
<1>1. blocks = <<>> /\ head = <<>>
  BY DEF Init
<1>2. head \in Seq(Allocation) /\ Len(head) = 0
  BY <1>1, EmptySeq
<1> QED
  BY <1>1, <1>2, NothingInUse DEF Init, ShimInv, HeapOK, RecordsOK, CountsOK, IsInit

LEMMA HeadIs ==
    ASSUME RecordsOK
    PROVE  /\ Len(head) \in Nat /\ DOMAIN head = 1 .. Len(head)
           /\ \A i \in 1 .. Len(head) : head[i] \in Allocation
  BY LenProperties, ElementOfSeq DEF RecordsOK

\* The shim finds the ALLOCATION of every block in use, and it has its size.
LEMMA FindsTheBlock ==
    ASSUME ShimInv, IsInit, NEW p \in DOMAIN blocks
    PROVE  /\ Find(p) \in 1 .. Fresh
           /\ Find(p) \in 1 .. Len(head)
           /\ Find(p) # 0
           /\ head[Find(p)].ptr = p /\ head[Find(p)].size = blocks[p]
<1>0. /\ Tracked
      /\ \A i, j \in 1 .. Fresh : head[i].ptr = head[j].ptr => i = j
  BY DEF ShimInv, CountsOK, Tracked
<1>1. Len(head) \in Nat /\ Fresh \in Nat /\ Fresh <= Len(head)
  BY <1>0, HeadIs DEF ShimInv, RecordsOK, Fresh, Tracked
<1>2. PICK i \in 1 .. Fresh : head[i].ptr = p
  BY <1>0 DEF Tracked
<1> DEFINE I == {j \in 1 .. Len(head) : head[j].ptr = p}
<1>3. I \in SUBSET Nat /\ i \in I
  BY <1>1, <1>2
<1>4. \A j \in I : i <= j
  <2> SUFFICES ASSUME NEW j \in I, j < i PROVE FALSE
    BY <1>1
  <2>1. j \in 1 .. Fresh /\ head[j].ptr = p
    BY <1>1
  <2>2. i = j
    BY <1>0, <1>2, <2>1
  <2> QED
    BY <1>1, <2>2
<1>5. Min(I) = i
  BY <1>3, <1>4, MinIsLeast
<1>6. Find(p) = IF I # {} THEN Min(I) ELSE 0
  BY DEF Find, SelectInSeq
<1> HIDE DEF I
<1>7. Find(p) = i
  BY <1>3, <1>5, <1>6
<1> QED
  BY <1>0, <1>1, <1>2, <1>7 DEF Tracked

\* What the counts become where they are kept: old is part of what is in use.
LEMMA CountIs ==
    ASSUME totalSize = Used, maxSize = peak, totalSize \in 0 .. SizeMod - 1,
           maxSize \in 0 .. SizeMod - 1, g_allocations \in 0 .. MaxCount - 1,
           NEW s \in Nat, NEW old \in 0 .. totalSize, totalSize - old + s < SizeMod,
           Used' = totalSize - old + s, Count(s, old), PeakGrows
    PROVE  /\ totalSize' = Used' /\ maxSize' = peak'
           /\ {totalSize', maxSize'} \subseteq 0 .. SizeMod - 1
           /\ g_allocations' \in 0 .. MaxCount
<1>1. totalSize - old + s \in 0 .. SizeMod - 1
  OBVIOUS
<1>2. totalSize + SizeMod - old + s = (totalSize - old + s) + SizeMod
  OBVIOUS
<1>3. totalSize' = totalSize - old + s
  BY <1>1, <1>2, Wraps DEF Count
<1> QED
  BY <1>1, <1>3 DEF Count, PeakGrows, MaxOf

LEMMA MallocStep ==
    ASSUME ShimInv, NEW p \in Ptrs, NEW s \in Nat \ {0}, Malloc(p, s)
    PROVE  ShimInv'
<1> USE DEF ShimInv
<1>1. p \notin DOMAIN blocks /\ blocks' = With(p, s) /\ Used + s < SizeMod
  BY DEF Malloc
<1>2. DOMAIN blocks' = DOMAIN blocks \cup {p}
  BY <1>1 DEF With
<1>3. IsFiniteSet(BytesOf(blocks')) /\ Cardinality(BytesOf(blocks')) = Cardinality(BytesOf(blocks)) + s
  BY <1>1, BytesWith DEF With, HeapOK
<1>4. Used' = Used + s
  BY <1>3, UsedIs DEF Used, Heap, BytesOf
<1>5. /\ IsFiniteSet(DOMAIN blocks')
      /\ Cardinality(DOMAIN blocks) \in Nat
      /\ Cardinality(DOMAIN blocks') = Cardinality(DOMAIN blocks) + 1
  BY <1>1, <1>2, FS_AddElement, FS_CardinalityType DEF HeapOK
<1>6. HeapOK'
  BY <1>1, <1>2, <1>3, <1>4, <1>5 DEF HeapOK, With
<1>7. CASE ~IsInit
  BY <1>6, <1>7 DEF Malloc, RecordsOK, CountsOK, IsInit, counts
<1>8. CASE IsInit
  <2>1. head' = <<Record(p, s)>> \o head /\ Len(head) < MaxRecords /\ Count(s, 0) /\ PeakGrows
    BY <1>8 DEF Malloc, Track
  <2>2. Record(p, s) \in Allocation /\ Record(p, s).ptr = p /\ Record(p, s).size = s
    BY <1>1 DEF Record, Allocation, HeapOK
  <2> DEFINE new == <<Record(p, s)>>
  <2>3. new \in Seq(Allocation) /\ Len(new) = 1 /\ new[1] = Record(p, s)
    BY <2>2
  <2> HIDE DEF new
  <2>4. /\ head' \in Seq(Allocation)
        /\ Len(head') = 1 + Len(head)
        /\ \A i \in 1 .. 1 + Len(head) :
              head'[i] = IF i <= 1 THEN new[1] ELSE head[i - 1]
    <3>1. head' = new \o head /\ head \in Seq(Allocation)
      BY <2>1 DEF new, RecordsOK
    <3>2. /\ new \o head \in Seq(Allocation)
          /\ Len(new \o head) = Len(new) + Len(head)
          /\ \A i \in 1 .. Len(new) + Len(head) :
                (new \o head)[i] = IF i <= Len(new) THEN new[i] ELSE head[i - Len(new)]
      BY <2>3, <3>1, ConcatProperties, Zenon
    <3> QED
      BY <2>3, <3>1, <3>2, HeadIs
  <2>5. /\ totalSize' = Used' /\ maxSize' = peak'
        /\ {totalSize', maxSize'} \subseteq 0 .. SizeMod - 1
        /\ g_allocations' \in 0 .. MaxCount
    <3>1. totalSize = Used /\ maxSize = peak /\ g_allocations \in 0 .. MaxCount - 1
      BY <1>8 DEF CountsOK, RecordsOK, Malloc
    <3> QED
      BY <1>1, <1>4, <2>1, <3>1, CountIs DEF RecordsOK
  <2>6. RecordsOK'
    BY <2>1, <2>4, <2>5, HeadIs DEF RecordsOK, Malloc
  <2>7. Tracked /\ Len(head) \in Nat /\ left \in Nat
    BY <1>8, HeadIs DEF CountsOK, RecordsOK
  <2>8. Fresh' = Fresh + 1 /\ Fresh \in Nat /\ Fresh <= Len(head)
    BY <2>4, <2>7 DEF Fresh, Malloc, Tracked
  <2>9. /\ head'[1].ptr = p /\ head'[1].size = s
        /\ \A i \in 2 .. Fresh + 1 : i - 1 \in 1 .. Fresh /\ head'[i] = head[i - 1]
    BY <2>2, <2>3, <2>4, <2>7, <2>8
  <2>10. blocks'[p] = s /\ \A q \in DOMAIN blocks : q # p /\ blocks'[q] = blocks[q]
    BY <1>1 DEF With
  <2>11. Tracked'
    <3>1. \A i \in 2 .. Fresh + 1 :
             /\ head'[i].ptr \in DOMAIN blocks /\ head'[i].ptr # p
             /\ head'[i].size = blocks'[head'[i].ptr]
      <4> TAKE i \in 2 .. Fresh + 1
      <4>1. i - 1 \in 1 .. Fresh /\ head'[i] = head[i - 1]
        BY <2>9
      <4>2. head[i - 1].ptr \in DOMAIN blocks /\ head[i - 1].size = blocks[head[i - 1].ptr]
        BY <2>7, <4>1 DEF Tracked
      <4> QED
        BY <2>10, <4>1, <4>2
    <3>2. \A i, j \in 1 .. Fresh + 1 : head'[i].ptr = head'[j].ptr => i = j
      <4>1. ASSUME NEW i \in 2 .. Fresh + 1, NEW j \in 2 .. Fresh + 1,
                   head'[i].ptr = head'[j].ptr
            PROVE  i = j
        <5>1. i - 1 \in 1 .. Fresh /\ j - 1 \in 1 .. Fresh
              /\ head[i - 1].ptr = head[j - 1].ptr
          BY <2>9, <4>1
        <5>2. i - 1 = j - 1
          BY <2>7, <5>1 DEF Tracked
        <5> QED
          BY <5>2
      <4> QED
        BY <2>8, <2>9, <3>1, <4>1
    <3>3. \A q \in DOMAIN blocks' : \E i \in 1 .. Fresh + 1 : head'[i].ptr = q
      <4>1. ASSUME NEW q \in DOMAIN blocks PROVE \E i \in 1 .. Fresh + 1 : head'[i].ptr = q
        <5>1. PICK i \in 1 .. Fresh : head[i].ptr = q
          BY <2>7 DEF Tracked
        <5>2. i + 1 \in 2 .. Fresh + 1 /\ (i + 1) - 1 = i
          BY <2>8
        <5> QED
          BY <2>9, <5>1, <5>2
      <4> QED
        BY <1>2, <2>8, <2>9, <4>1
    <3>4. \A i \in 1 .. Fresh + 1 :
             head'[i].ptr \in DOMAIN blocks' /\ head'[i].size = blocks'[head'[i].ptr]
      BY <1>2, <2>8, <2>9, <2>10, <3>1
    <3> QED
      BY <1>5, <2>7, <2>8, <3>2, <3>3, <3>4 DEF Tracked
  <2> QED
    BY <1>6, <2>5, <2>6, <2>11 DEF CountsOK
<1> QED
  BY <1>7, <1>8

\* What the heap loses with block p.
LEMMA HeapWithout ==
    ASSUME HeapOK, NEW p \in DOMAIN blocks
    PROVE  /\ IsFiniteSet(BytesOf(Less(p)))
           /\ Used = Cardinality(BytesOf(Less(p))) + blocks[p]
           /\ Cardinality(BytesOf(Less(p))) \in Nat
           /\ DOMAIN Less(p) = DOMAIN blocks \ {p}
           /\ IsFiniteSet(DOMAIN blocks \ {p})
           /\ Cardinality(DOMAIN blocks) \in Nat
           /\ Cardinality(DOMAIN blocks \ {p}) = Cardinality(DOMAIN blocks) - 1
<1>1. /\ IsFiniteSet(BytesOf(Less(p)))
      /\ Cardinality(BytesOf(blocks)) = Cardinality(BytesOf(Less(p))) + blocks[p]
  <2>1. blocks[p] \in Nat /\ IsFiniteSet(BytesOf(blocks))
    BY DEF HeapOK
  <2> QED
    BY <2>1, BytesLess DEF Less
<1> QED
  BY <1>1, UsedIs, FS_CardinalityType, FS_RemoveElement DEF HeapOK, Less

LEMMA ReallocStep ==
    ASSUME ShimInv, NEW p \in Ptrs, NEW q \in Ptrs, NEW s \in Nat \ {0}, Realloc(p, q, s)
    PROVE  ShimInv'
<1> USE DEF ShimInv
<1>1. /\ p \in DOMAIN blocks /\ q \notin DOMAIN blocks \ {p}
      /\ Used - blocks[p] + s < SizeMod
      /\ blocks' = [r \in (DOMAIN blocks \ {p}) \cup {q} |-> IF r = q THEN s ELSE blocks[r]]
  BY DEF Realloc
<1>2. DOMAIN blocks' = (DOMAIN blocks \ {p}) \cup {q}
  BY <1>1
<1>3. /\ IsFiniteSet(BytesOf(blocks'))
      /\ Cardinality(BytesOf(blocks')) = Cardinality(BytesOf(Less(p))) + s
  <2>1. /\ q \notin DOMAIN Less(p) /\ IsFiniteSet(BytesOf(Less(p)))
        /\ blocks' = [r \in DOMAIN Less(p) \cup {q} |-> IF r = q THEN s ELSE Less(p)[r]]
    BY <1>1, HeapWithout DEF Less
  <2> QED
    BY <2>1, BytesWith
<1>4. /\ Used' = Used - blocks[p] + s
      /\ Used \in 0 .. SizeMod - 1 /\ blocks[p] \in 1 .. SizeMod - 1 /\ blocks[p] <= Used
  <2>1. Used' = Cardinality(BytesOf(blocks'))
    BY DEF Used, Heap, BytesOf
  <2>2. Used \in 0 .. SizeMod - 1 /\ blocks[p] \in 1 .. SizeMod - 1
    BY <1>1 DEF HeapOK
  <2>3. /\ Cardinality(BytesOf(Less(p))) \in Nat
        /\ Used = Cardinality(BytesOf(Less(p))) + blocks[p]
    BY <1>1, HeapWithout
  <2> QED
    BY <1>3, <2>1, <2>2, <2>3
<1>5. /\ IsFiniteSet(DOMAIN blocks')
      /\ Cardinality(DOMAIN blocks') = Cardinality(DOMAIN blocks)
  <2>1. /\ IsFiniteSet((DOMAIN blocks \ {p}) \cup {q})
        /\ Cardinality((DOMAIN blocks \ {p}) \cup {q}) = Cardinality(DOMAIN blocks \ {p}) + 1
    BY <1>1, HeapWithout, FS_AddElement
  <2> QED
    BY <1>1, <1>2, <2>1, HeapWithout
<1>6. HeapOK'
  <2>1. Used' \in 0 .. SizeMod - 1 /\ s \in 1 .. SizeMod - 1
    BY <1>1, <1>4
  <2> QED
    BY <1>1, <1>2, <1>3, <1>5, <2>1 DEF HeapOK
<1>7. CASE ~IsInit
  BY <1>6, <1>7 DEF Realloc, RecordsOK, CountsOK, IsInit, counts
<1>8. CASE IsInit
  <2> DEFINE at == Find(p)
  <2>1. /\ Tracked /\ totalSize = Used /\ maxSize = peak
        /\ at \in 1 .. Fresh /\ at \in 1 .. Len(head)
        /\ head[at].ptr = p /\ head[at].size = blocks[p]
        /\ Len(head) \in Nat /\ left \in Nat
    BY <1>1, <1>8, FindsTheBlock, HeadIs DEF CountsOK, RecordsOK
  <2>2. /\ head' = [head EXCEPT ![at] = Record(q, s)]
        /\ Count(s, blocks[p]) /\ PeakGrows
    BY <1>8, <2>1 DEF Realloc, Retrack, ReplaceAt
  <2>3. Record(q, s) \in Allocation /\ Record(q, s).ptr = q /\ Record(q, s).size = s
    BY <1>1, <1>4 DEF Record, Allocation
  <2> HIDE DEF at
  <2>4. /\ head' \in Seq(Allocation)
        /\ Len(head') = Len(head)
        /\ \A i \in 1 .. Len(head) : head'[i] = IF i = at THEN Record(q, s) ELSE head[i]
    BY <2>1, <2>2, <2>3, ExceptSeq DEF RecordsOK
  <2>5. /\ totalSize' = Used' /\ maxSize' = peak'
        /\ {totalSize', maxSize'} \subseteq 0 .. SizeMod - 1
        /\ g_allocations' \in 0 .. MaxCount
    <3>1. g_allocations \in 0 .. MaxCount - 1
      BY DEF RecordsOK, Realloc
    <3>2. blocks[p] \in 0 .. totalSize /\ totalSize - blocks[p] + s < SizeMod
          /\ Used' = totalSize - blocks[p] + s
      BY <1>1, <1>4, <2>1
    <3> QED
      BY <2>1, <2>2, <3>1, <3>2, CountIs DEF RecordsOK
  <2>6. RecordsOK'
    BY <2>4, <2>5 DEF RecordsOK, Realloc
  <2>7. Fresh' = Fresh /\ Fresh \in Nat /\ Fresh <= Len(head)
    BY <2>1, <2>4 DEF Fresh, Realloc, Tracked
  <2>8. /\ head'[at].ptr = q /\ head'[at].size = s
        /\ \A i \in 1 .. Fresh : i # at => head'[i] = head[i]
    BY <2>1, <2>3, <2>4, <2>7
  <2>9. blocks'[q] = s /\ \A r \in DOMAIN blocks \ {p} : r # q /\ blocks'[r] = blocks[r]
    BY <1>1
  <2>10. \A i \in 1 .. Fresh : i # at =>
            head'[i].ptr \in DOMAIN blocks \ {p} /\ head'[i].size = blocks[head'[i].ptr]
    BY <2>1, <2>8 DEF Tracked
  <2>11. Tracked'
    <3>1. \A i \in 1 .. Fresh :
             head'[i].ptr \in DOMAIN blocks' /\ head'[i].size = blocks'[head'[i].ptr]
      BY <1>2, <2>8, <2>9, <2>10
    <3>2. ASSUME NEW i \in 1 .. Fresh, NEW j \in 1 .. Fresh, head'[i].ptr = head'[j].ptr
          PROVE  i = j
      <4>1. CASE i = at \/ j = at
        BY <2>8, <2>9, <2>10, <3>2, <4>1
      <4>2. CASE i # at /\ j # at
        BY <2>1, <2>8, <3>2, <4>2 DEF Tracked
      <4> QED
        BY <4>1, <4>2
    <3>3. ASSUME NEW r \in DOMAIN blocks' PROVE \E i \in 1 .. Fresh : head'[i].ptr = r
      <4>1. CASE r = q
        BY <2>1, <2>8, <4>1
      <4>2. CASE r # q
        <5>1. r \in DOMAIN blocks /\ r # p
          BY <1>2, <4>2
        <5>2. PICK i \in 1 .. Fresh : head[i].ptr = r
          BY <2>1, <5>1 DEF Tracked
        <5>3. i # at
          BY <2>1, <5>1, <5>2
        <5> QED
          BY <2>8, <5>2, <5>3
      <4> QED
        BY <4>1, <4>2
    <3> QED
      BY <1>5, <2>1, <2>7, <3>1, <3>2, <3>3 DEF Tracked
  <2> QED
    BY <1>6, <2>5, <2>6, <2>11 DEF CountsOK
<1> QED
  BY <1>7, <1>8

\* A block in use that is given back is gone, whether the shim is in use or not.
LEMMA FreeStep ==
    ASSUME ShimInv, NEW p \in Ptrs, Free(p)
    PROVE  /\ ShimInv'
           /\ p \in DOMAIN blocks /\ blocks' = Less(p)
<1> USE DEF ShimInv
<1>1. p \in DOMAIN blocks
  BY DEF Free
<1>2. blocks' = Less(p) /\ (IsInit => Find(p) # 0)
  BY <1>1, FindsTheBlock DEF Free
<1>3. DOMAIN blocks' = DOMAIN blocks \ {p} /\ Cardinality(DOMAIN blocks') = Cardinality(DOMAIN blocks) - 1
  BY <1>1, <1>2, HeapWithout
<1>4. Used' = Used - blocks[p] /\ Used' \in 0 .. SizeMod - 1
      /\ Used \in 0 .. SizeMod - 1 /\ blocks[p] \in 1 .. SizeMod - 1
  <2>1. Used' = Cardinality(BytesOf(Less(p)))
    BY <1>2 DEF Used, Heap, BytesOf
  <2>2. Used \in 0 .. SizeMod - 1 /\ blocks[p] \in 1 .. SizeMod - 1
    BY <1>1 DEF HeapOK
  <2>3. /\ Cardinality(BytesOf(Less(p))) \in Nat
        /\ Used = Cardinality(BytesOf(Less(p))) + blocks[p]
    BY <1>1, HeapWithout
  <2> QED
    BY <2>1, <2>2, <2>3
<1>5. HeapOK'
  <2>1. IsFiniteSet(DOMAIN blocks') /\ IsFiniteSet(BytesOf(blocks'))
    BY <1>1, <1>2, HeapWithout
  <2>2. \A q \in DOMAIN blocks \ {p} : blocks'[q] = blocks[q]
    BY <1>2 DEF Less
  <2> QED
    BY <1>3, <1>4, <2>1, <2>2 DEF HeapOK
<1>6. CASE ~IsInit
  BY <1>1, <1>2, <1>5, <1>6 DEF Free, RecordsOK, CountsOK, IsInit
<1>7. CASE IsInit
  <2> DEFINE at == Find(p)
  <2>1. /\ Tracked /\ totalSize = Used /\ maxSize = peak
        /\ at \in 1 .. Fresh /\ at \in 1 .. Len(head)
        /\ head[at].ptr = p /\ head[at].size = blocks[p]
        /\ Len(head) \in Nat /\ left \in Nat
    BY <1>1, <1>7, FindsTheBlock, HeadIs DEF CountsOK, RecordsOK
  <2>2. head' = RemoveAt(head, at) /\ totalSize' = (totalSize + SizeMod - blocks[p]) % SizeMod
    BY <1>2, <1>7, <2>1 DEF Free, TotalAfterFree, Untrack
  <2> HIDE DEF at
  <2>3. /\ head' \in Seq(Allocation)
        /\ Len(head') = Len(head) - 1
        /\ \A i \in 1 .. Len(head) - 1 : head'[i] = IF i < at THEN head[i] ELSE head[i + 1]
    BY <2>1, <2>2, RemoveAtIs DEF RecordsOK
  <2>4. totalSize' = Used'
    <3>1. totalSize + SizeMod - blocks[p] = Used' + SizeMod
      BY <1>4, <2>1
    <3> QED
      BY <1>4, <2>2, <3>1, Wraps
  <2>5. RecordsOK'
    BY <1>4, <2>1, <2>3, <2>4 DEF RecordsOK, Free
  <2>6. Fresh' = Fresh - 1 /\ Fresh \in Nat \ {0} /\ Fresh <= Len(head)
    BY <2>1, <2>3 DEF Fresh, Free, Tracked
  <2> DEFINE old(i) == IF i < at THEN i ELSE i + 1
  <2>7. \A i \in 1 .. Fresh - 1 :
           old(i) \in 1 .. Fresh /\ old(i) # at /\ head'[i] = head[old(i)]
    BY <2>1, <2>3, <2>6
  <2>8. \A i \in 1 .. Fresh : i # at => \E j \in 1 .. Fresh - 1 : old(j) = i
    <3> TAKE i \in 1 .. Fresh
    <3>1. ASSUME i < at PROVE i \in 1 .. Fresh - 1 /\ old(i) = i
      BY <2>1, <2>6, <3>1
    <3>2. ASSUME i > at PROVE i - 1 \in 1 .. Fresh - 1 /\ old(i - 1) = i
      BY <2>1, <2>6, <3>2
    <3> QED
      BY <2>1, <3>1, <3>2
  <2>9. \A i, j \in 1 .. Fresh - 1 : old(i) = old(j) => i = j
    BY <2>1, <2>6
  <2> HIDE DEF old
  <2>10. \A q \in DOMAIN blocks \ {p} : blocks'[q] = blocks[q]
    BY <1>2 DEF Less
  <2>11. Tracked'
    <3>1. ASSUME NEW i \in 1 .. Fresh - 1
          PROVE  head'[i].ptr \in DOMAIN blocks' /\ head'[i].size = blocks'[head'[i].ptr]
      <4> PICK k \in 1 .. Fresh : k # at /\ head'[i] = head[k]
        BY <2>7
      <4>1. /\ head'[i].ptr \in DOMAIN blocks /\ head'[i].size = blocks[head'[i].ptr]
        BY <2>1 DEF Tracked
      <4>2. head'[i].ptr # p
        BY <2>1 DEF Tracked
      <4> QED
        BY <1>3, <2>10, <4>1, <4>2
    <3>2. ASSUME NEW i \in 1 .. Fresh - 1, NEW j \in 1 .. Fresh - 1, head'[i].ptr = head'[j].ptr
          PROVE  i = j
      <4>1. PICK k \in 1 .. Fresh : k = old(i) /\ head'[i] = head[k]
        BY <2>7
      <4>2. PICK l \in 1 .. Fresh : l = old(j) /\ head'[j] = head[l]
        BY <2>7
      <4>3. k = l
        BY <2>1, <3>2, <4>1, <4>2 DEF Tracked
      <4> QED
        BY <2>9, <4>1, <4>2, <4>3
    <3>3. ASSUME NEW q \in DOMAIN blocks' PROVE \E i \in 1 .. Fresh - 1 : head'[i].ptr = q
      <4>1. PICK i \in 1 .. Fresh : head[i].ptr = q
        BY <1>3, <2>1 DEF Tracked
      <4>2. i # at
        BY <1>3, <2>1, <4>1
      <4> QED
        BY <2>7, <2>8, <4>1, <4>2
    <3> QED
      BY <1>3, <2>1, <2>6, <3>1, <3>2, <3>3 DEF Tracked
  <2>12. maxSize' = maxSize /\ peak' = peak
    BY DEF Free
  <2> QED
    BY <1>1, <1>2, <1>5, <2>1, <2>4, <2>5, <2>11, <2>12 DEF CountsOK
<1> QED
  BY <1>6, <1>7

\* The caller switches the shim on, and its counts back, when nothing is in use.
LEMMA SwitchStep ==
    ASSUME Switches \subseteq {"deinit"}, ShimInv, ShimInit \/ ShimDeinit \/ Reset
    PROVE  ShimInv'
<1> USE DEF ShimInv
<1>1. blocks' = blocks /\ head' = head
  BY DEF ShimInit, ShimDeinit, Reset
<1>2. HeapOK' /\ Used' = Used
  BY <1>1 DEF HeapOK, Used, Heap, BytesOf
<1>3. CASE ShimDeinit
  BY <1>2, <1>3 DEF ShimDeinit, RecordsOK, CountsOK, IsInit, counts
<1>4. CASE ShimInit \/ Reset
  <2>1. blocks = <<>>
    BY <1>4 DEF ShimInit, Reset, MayCall
  <2>2. Len(head) \in Nat /\ Used = 0 /\ Cardinality(DOMAIN blocks) = 0 /\ DOMAIN blocks = {}
    BY <2>1, HeadIs, NothingInUse
  <2>3. RecordsOK'
    BY <1>1, <1>4, <2>2 DEF ShimInit, Reset, RecordsOK
  <2>4. totalSize' = Used' /\ maxSize' = peak'
    BY <1>2, <1>4, <2>2 DEF ShimInit, Reset
  <2>5. CASE ShimInit
    <3>1. Fresh' = 0
      BY <2>2, <2>5 DEF ShimInit, Fresh
    <3>2. Tracked'
      BY <1>1, <2>2, <3>1 DEF Tracked
    <3> QED
      BY <1>2, <2>3, <2>4, <3>2 DEF CountsOK
  <2>6. CASE Reset
    <3>1. Tracked'
      BY <1>1, <2>6 DEF Reset, Tracked, CountsOK, Fresh
    <3> QED
      BY <1>2, <2>3, <2>4, <3>1 DEF CountsOK
  <2> QED
    BY <1>4, <2>5, <2>6
<1> QED
  BY <1>3, <1>4

LEMMA ShimStutters == ASSUME ShimInv, UnchangedShim PROVE ShimInv'
  BY DEF ShimInv, UnchangedShim, HeapOK, RecordsOK, CountsOK, Tracked, Fresh, IsInit, Used,
     Heap, BytesOf, counts

-----------------------------------------------------------------------------
(* The allocator under its clients                                             *)

USE CrtAssumption, FileAssumption

\* What a step of the clients is for the allocator.
ShimAction ==
    \/ ShimInit \/ ShimDeinit \/ Reset \/ UnchangedShim
    \/ \E p \in Ptrs, s \in Nat \ {0} : Malloc(p, s)
    \/ \E p, q \in Ptrs, s \in Nat \ {0} : Realloc(p, q, s)
    \/ \E p \in Ptrs : Free(p)

LEMMA Products == ASSUME NEW n \in 1 .. 2, NEW s \in Sizes PROVE n * s \in Nat \ {0}
<1>1. s \in Nat \ {0} /\ n \in {1, 2}
  OBVIOUS
<1> QED
  BY <1>1

\* The variables of the clients
ClientsOK ==
    /\ app \subseteq Ptrs
    /\ target \in [Targets -> Ptrs \cup {NULL}]
    /\ written \in [Targets -> Nat]
    /\ clones \subseteq Targets
    /\ info \in Ptrs \cup {NoInfo}
    /\ Idle \/ /\ formatting.target \in Targets \ clones
               /\ target[formatting.target] \in Ptrs
               /\ formatting.from \in Nat /\ formatting.length \in Nat
    /\ \A t \in clones : target[t] \in Ptrs

LEMMA AllocIs ==
    ASSUME NEW t, NEW p \in Ptrs \cup {NULL}, NEW s \in Nat \ {0}, Alloc(t, p, s)
    PROVE  IF p = NULL THEN UnchangedShim ELSE p \in Ptrs /\ Malloc(p, s)
  BY DEF Alloc, UnchangedShim

LEMMA StepIsShimAction == ClientsOK /\ [ClientsNext]_allVars => ShimAction
<1> SUFFICES ASSUME ClientsOK, [ClientsNext]_allVars PROVE ShimAction
  OBVIOUS
<1>1. ASSUME Shim PROVE ShimAction
  BY <1>1 DEF Shim, ShimAction
<1>2. ASSUME AppAllocates PROVE ShimAction
  <2> PICK p \in Ptrs, s \in Sizes : Malloc(p, s) \/ \E n \in 1 .. 2 : Calloc(p, n, s)
    BY <1>2 DEF AppAllocates
  <2> QED
    BY Products DEF Calloc, ShimAction
<1>3. ASSUME AppResizes PROVE ShimAction
  BY <1>3 DEF AppResizes, ShimAction, ClientsOK
<1>4. ASSUME AppFrees PROVE ShimAction
  BY <1>4 DEF AppFrees, ShimAction, ClientsOK
<1>5. ASSUME NEW t \in Targets, NEW p \in Ptrs \cup {NULL}, NEW s \in Nat \ {0}, Alloc(t, p, s)
      PROVE  ShimAction
  BY <1>5, AllocIs DEF ShimAction
<1>6. ASSUME NEW t \in Targets, NEW p \in Ptrs \cup {NULL}, NEW n \in Lengths, NEW k \in Lengths,
             \/ CloneString(t, p, n) \/ CloneStringWithSize(t, p, n, k)
             \/ CloneStringWithFormat(t, p, n) \/ CloneStringWithSizeFormat(t, p, n, k)
      PROVE  ShimAction
  <2>1. n \in Nat /\ k \in Nat
    OBVIOUS
  <2>2. PICK s \in Nat \ {0} : Alloc(t, p, s)
    BY <1>6, <2>1
    DEF CloneString, CloneStringWithSize, CloneStringWithFormat, CloneStringWithSizeFormat, Format, CloneSize
  <2> QED
    BY <1>5, <2>2
<1>7. ASSUME FormatDone PROVE ShimAction
  BY <1>7 DEF FormatDone, ShimAction, UnchangedShim
<1>8. ASSUME FormatFails PROVE ShimAction
  BY <1>8 DEF FormatFails, ShimAction, ClientsOK
<1>9. ASSUME NEW t \in Targets, FreeClone(t) PROVE ShimAction
  BY <1>9 DEF FreeClone, ShimAction, ClientsOK
<1>10. ASSUME CrtNext PROVE ShimAction
  BY <1>6, <1>7, <1>8, <1>9, <1>10 DEF CrtNext
<1>11. ASSUME FileNext PROVE ShimAction
  <2>1. ASSUME NEW p \in Ptrs, NEW m \in Modes, Open(p, m) \/ OpenFails(p, m) PROVE ShimAction
    BY <2>1 DEF Open, OpenFails, ShimAction
  <2>2. ASSUME OpenFailed \/ Close PROVE ShimAction
    BY <2>2 DEF OpenFailed, Close, IsOpen, ShimAction, ClientsOK
  <2>3. ASSUME UnchangedShim PROVE ShimAction
    BY <2>3 DEF ShimAction
  <2> QED
    BY <1>11, <2>1, <2>2, <2>3 DEF FileNext, GetLength, Read, Write
<1>12. ASSUME UNCHANGED allVars PROVE ShimAction
  BY <1>12 DEF allVars, vars, UnchangedShim, ShimAction
<1> QED
  BY <1>1, <1>2, <1>3, <1>4, <1>10, <1>11, <1>12 DEF ClientsNext

LEMMA ShimActionStep ==
    ASSUME Switches \subseteq {"deinit"}, ShimInv, ShimAction
    PROVE  ShimInv'
  BY MallocStep, ReallocStep, FreeStep, SwitchStep, ShimStutters DEF ShimAction

-----------------------------------------------------------------------------
(* Owners                                                                      *)

\* The variables with a block: those with a clone, and the one being formatted.
Holders == clones \cup (IF Idle THEN {} ELSE {formatting.target})

\* The blocks in use are those of the application, of the holders and of the open
\* file; no two of them are the same, and no clone overruns its block.
Owned ==
    /\ DOMAIN blocks = app \cup CloneBlocks \cup InfoBlocks
    /\ app \cap CloneBlocks = {} /\ app \cap InfoBlocks = {} /\ CloneBlocks \cap InfoBlocks = {}
    /\ \A t, u \in Holders : target[t] = target[u] => t = u
    /\ \A t \in clones : written[t] <= blocks[target[t]]
    /\ ~Idle => blocks[target[formatting.target]] = formatting.from + formatting.length + 1

ClientsInv == ShimInv /\ ClientsOK /\ Owned

LEMMA CloneBlocksAre == CloneBlocks = {target[t] : t \in Holders}
  BY DEF CloneBlocks, Holders

LEMMA HoldersHold == ClientsOK => Holders \subseteq Targets /\ \A t \in Holders : target[t] \in Ptrs
  BY DEF ClientsOK, Holders

\* The blocks after each call of the allocator.
LEMMA AfterMalloc ==
    ASSUME NEW p, NEW s, Malloc(p, s)
    PROVE  /\ p \notin DOMAIN blocks /\ DOMAIN blocks' = DOMAIN blocks \cup {p}
           /\ blocks'[p] = s /\ \A q \in DOMAIN blocks : blocks'[q] = blocks[q]
  BY DEF Malloc, With

LEMMA AfterRealloc ==
    ASSUME NEW p, NEW q, NEW s, Realloc(p, q, s)
    PROVE  /\ p \in DOMAIN blocks /\ q \notin DOMAIN blocks \ {p}
           /\ DOMAIN blocks' = (DOMAIN blocks \ {p}) \cup {q}
           /\ \A r \in DOMAIN blocks \ {p} : blocks'[r] = blocks[r]
  BY DEF Realloc

LEMMA AfterFree ==
    ASSUME ShimInv, NEW p \in Ptrs, Free(p)
    PROVE  /\ p \in DOMAIN blocks /\ DOMAIN blocks' = DOMAIN blocks \ {p}
           /\ \A q \in DOMAIN blocks \ {p} : blocks'[q] = blocks[q]
  BY FreeStep DEF Less

LEMMA ClientsInvInit == ClientsInit => ClientsInv
<1> SUFFICES ASSUME ClientsInit PROVE ClientsInv
  OBVIOUS
<1>1. ShimInv /\ DOMAIN blocks = {}
  BY ShimInvInit, NothingInUse DEF ClientsInit, Init
<1>2. Idle /\ clones = {} /\ app = {} /\ info = NoInfo
  BY DEF ClientsInit, CrtInit, FileInit, Idle
<1>3. ClientsOK
  BY <1>2 DEF ClientsOK, ClientsInit, CrtInit
<1>4. Owned
  BY <1>1, <1>2 DEF Owned, Holders, CloneBlocks, InfoBlocks
<1> QED
  BY <1>1, <1>3, <1>4 DEF ClientsInv

\* The steps of the application
LEMMA AppStep ==
    ASSUME ClientsInv, AppAllocates \/ AppResizes \/ AppFrees
    PROVE  ClientsOK' /\ Owned'
<1> USE DEF ClientsInv
<1>1. /\ UNCHANGED <<target, clones, written, formatting, info>>
      /\ CloneBlocks' = CloneBlocks /\ InfoBlocks' = InfoBlocks
      /\ Holders' = Holders /\ Idle' = Idle
  BY DEF AppAllocates, AppResizes, AppFrees, crt, fileVars, CloneBlocks, InfoBlocks, Holders, Idle
<1>2. ASSUME app' \subseteq Ptrs,
             DOMAIN blocks' = app' \cup CloneBlocks \cup InfoBlocks,
             app' \cap CloneBlocks = {}, app' \cap InfoBlocks = {},
             \A q \in CloneBlocks : blocks'[q] = blocks[q]
      PROVE  ClientsOK' /\ Owned'
  <2>1. ClientsOK'
    BY <1>1, <1>2 DEF ClientsOK
  <2>2. \A t \in Holders : blocks'[target[t]] = blocks[target[t]]
    BY <1>2, CloneBlocksAre
  <2>3. clones \subseteq Holders /\ (~Idle => formatting.target \in Holders)
    BY DEF Holders
  <2>4. Owned'
    BY <1>1, <1>2, <2>2, <2>3 DEF Owned
  <2> QED
    BY <2>1, <2>4
<1>3. CASE AppAllocates
  <2>1. PICK p \in Ptrs, s \in Nat : Malloc(p, s) /\ app' = app \cup {p}
    <3> PICK p \in Ptrs, s \in Sizes :
           /\ Malloc(p, s) \/ \E n \in 1 .. 2 : Calloc(p, n, s)
           /\ app' = app \cup {p}
      BY <1>3 DEF AppAllocates
    <3> QED
      BY Products DEF Calloc
  <2>2. /\ p \notin DOMAIN blocks /\ DOMAIN blocks' = DOMAIN blocks \cup {p}
        /\ \A q \in DOMAIN blocks : blocks'[q] = blocks[q]
    BY <2>1, AfterMalloc
  <2> QED
    BY <1>2, <2>1, <2>2 DEF Owned, ClientsOK
<1>4. CASE AppResizes
  <2>1. PICK p \in app, q \in Ptrs, s \in Sizes :
           Realloc(p, q, s) /\ app' = (app \ {p}) \cup {q}
    BY <1>4 DEF AppResizes
  <2>2. /\ p \in DOMAIN blocks /\ q \notin DOMAIN blocks \ {p}
        /\ DOMAIN blocks' = (DOMAIN blocks \ {p}) \cup {q}
        /\ \A r \in DOMAIN blocks \ {p} : blocks'[r] = blocks[r]
    BY <2>1, AfterRealloc
  <2> QED
    BY <1>2, <2>1, <2>2 DEF Owned, ClientsOK
<1>5. CASE AppFrees
  <2>1. PICK p \in app : Free(p) /\ app' = app \ {p}
    BY <1>5 DEF AppFrees
  <2>2. /\ p \in DOMAIN blocks /\ DOMAIN blocks' = DOMAIN blocks \ {p}
        /\ \A q \in DOMAIN blocks \ {p} : blocks'[q] = blocks[q]
    BY <2>1, AfterFree DEF ClientsOK
  <2> QED
    BY <1>2, <2>1, <2>2 DEF Owned, ClientsOK
<1> QED
  BY <1>3, <1>4, <1>5

\* The steps of the file manager
LEMMA FileStep ==
    ASSUME ClientsInv, FileNext, UNCHANGED <<crt, app>>
    PROVE  ClientsOK' /\ Owned'
<1> USE DEF ClientsInv
<1>1. /\ UNCHANGED <<target, clones, written, formatting, app>>
      /\ CloneBlocks' = CloneBlocks /\ Holders' = Holders /\ Idle' = Idle
  BY DEF crt, CloneBlocks, Holders, Idle
<1>2. ASSUME info' \in Ptrs \cup {NoInfo},
             DOMAIN blocks' = app \cup CloneBlocks \cup InfoBlocks',
             app \cap InfoBlocks' = {}, CloneBlocks \cap InfoBlocks' = {},
             \A q \in CloneBlocks : blocks'[q] = blocks[q]
      PROVE  ClientsOK' /\ Owned'
  <2>1. ClientsOK'
    BY <1>1, <1>2 DEF ClientsOK
  <2>2. \A t \in Holders : blocks'[target[t]] = blocks[target[t]]
    BY <1>2, CloneBlocksAre
  <2>3. clones \subseteq Holders /\ (~Idle => formatting.target \in Holders)
    BY DEF Holders
  <2>4. Owned'
    BY <1>1, <1>2, <2>2, <2>3 DEF Owned
  <2> QED
    BY <2>1, <2>4
<1>3. ASSUME NEW p \in Ptrs, NEW m \in Modes, Open(p, m) \/ OpenFails(p, m)
      PROVE  ClientsOK' /\ Owned'
  <2>1. info = NoInfo /\ info' = p /\ Malloc(p, InfoSize)
    BY <1>3 DEF Open, OpenFails
  <2>2. InfoBlocks = {} /\ InfoBlocks' = {p}
    BY <2>1 DEF InfoBlocks
  <2>3. /\ p \notin DOMAIN blocks /\ DOMAIN blocks' = DOMAIN blocks \cup {p}
        /\ \A q \in DOMAIN blocks : blocks'[q] = blocks[q]
    BY <2>1, AfterMalloc
  <2> QED
    BY <1>2, <2>1, <2>2, <2>3 DEF Owned
<1>4. CASE OpenFailed \/ Close
  <2>1. info \in Ptrs /\ info' = NoInfo /\ Free(info)
    BY <1>4 DEF OpenFailed, Close, IsOpen, ClientsOK
  <2>2. InfoBlocks = {info} /\ InfoBlocks' = {}
    BY <2>1 DEF InfoBlocks
  <2>3. /\ DOMAIN blocks' = DOMAIN blocks \ {info}
        /\ \A q \in DOMAIN blocks \ {info} : blocks'[q] = blocks[q]
    BY <2>1, AfterFree
  <2> QED
    BY <1>2, <2>1, <2>2, <2>3 DEF Owned
<1>5. CASE UnchangedShim /\ UNCHANGED info
  <2>1. blocks' = blocks /\ InfoBlocks' = InfoBlocks /\ info' = info
    BY <1>5 DEF UnchangedShim, InfoBlocks
  <2> QED
    BY <1>2, <2>1 DEF Owned, ClientsOK
<1> QED
  BY <1>3, <1>4, <1>5 DEF FileNext, GetLength, Read, Write

\* The steps of the cloning of strings
LEMMA CrtStep ==
    ASSUME ClientsInv, CrtNext, UNCHANGED <<fileVars, app>>
    PROVE  ClientsOK' /\ Owned'
<1> USE DEF ClientsInv
<1>1. app' = app /\ info' = info /\ InfoBlocks' = InfoBlocks
  BY DEF fileVars, InfoBlocks
<1>2. /\ CloneBlocks' = {target'[t] : t \in Holders'}
      /\ Holders' = clones' \cup (IF Idle' THEN {} ELSE {formatting'.target})
  BY DEF CloneBlocks, Holders
\* A variable gets a block.
<1>3. ASSUME NEW t \in Targets \ clones, NEW p \in Ptrs, NEW s \in Nat \ {0},
             Idle, Malloc(p, s), target' = [target EXCEPT ![t] = p], Holders' = clones \cup {t}
      PROVE  /\ DOMAIN blocks' = app' \cup CloneBlocks' \cup InfoBlocks'
             /\ app' \cap CloneBlocks' = {} /\ app' \cap InfoBlocks' = {}
             /\ CloneBlocks' \cap InfoBlocks' = {}
             /\ \A u, w \in Holders' : target'[u] = target'[w] => u = w
             /\ blocks'[p] = s /\ target'[t] = p
             /\ \A u \in clones : target'[u] = target[u] /\ blocks'[target'[u]] = blocks[target[u]]
  <2>1. /\ p \notin DOMAIN blocks /\ DOMAIN blocks' = DOMAIN blocks \cup {p}
        /\ blocks'[p] = s /\ \A q \in DOMAIN blocks : blocks'[q] = blocks[q]
    BY <1>3, AfterMalloc
  <2>2. Holders = clones
    BY <1>3 DEF Holders
  <2>3. target'[t] = p /\ \A u \in clones : target'[u] = target[u]
    BY <1>3 DEF ClientsOK
  <2>4. CloneBlocks' = CloneBlocks \cup {p}
    BY <1>2, <1>3, <2>2, <2>3, CloneBlocksAre
  <2>5. \A u \in clones : target[u] \in DOMAIN blocks /\ target[u] # p
    BY <2>1, <2>2, CloneBlocksAre DEF Owned
  <2>6. \A u, w \in Holders' : target'[u] = target'[w] => u = w
    BY <1>3, <2>2, <2>3, <2>5 DEF Owned
  <2> QED
    BY <1>1, <2>1, <2>3, <2>4, <2>5, <2>6 DEF Owned
\* A variable gives its block back.
<1>4. ASSUME NEW t \in Holders, Free(target[t]), target' = target, Holders' = Holders \ {t}
      PROVE  /\ DOMAIN blocks' = app' \cup CloneBlocks' \cup InfoBlocks'
             /\ app' \cap CloneBlocks' = {} /\ app' \cap InfoBlocks' = {}
             /\ CloneBlocks' \cap InfoBlocks' = {}
             /\ \A u, w \in Holders' : target'[u] = target'[w] => u = w
             /\ \A u \in Holders' : blocks'[target[u]] = blocks[target[u]]
  <2>1. target[t] \in Ptrs
    BY HoldersHold
  <2>2. /\ target[t] \in DOMAIN blocks /\ DOMAIN blocks' = DOMAIN blocks \ {target[t]}
        /\ \A q \in DOMAIN blocks \ {target[t]} : blocks'[q] = blocks[q]
    BY <1>4, <2>1, AfterFree
  <2>3. \A u \in Holders' : target[u] \in DOMAIN blocks \ {target[t]}
    BY <1>4, CloneBlocksAre DEF Owned
  <2>4. CloneBlocks' = CloneBlocks \ {target[t]} /\ target[t] \in CloneBlocks
    <3>1. \A u \in Holders : target[u] = target[t] => u = t
      BY DEF Owned
    <3>2. CloneBlocks' = {target[u] : u \in Holders \ {t}}
      BY <1>2, <1>4
    <3> QED
      BY <3>1, <3>2, CloneBlocksAre
  <2> QED
    BY <1>1, <1>4, <2>2, <2>3, <2>4 DEF Owned
\* clone_string and clone_string_with_size
<1>5. ASSUME NEW t \in Targets, NEW p \in Ptrs \cup {NULL}, NEW s \in Nat \ {0},
             Alloc(t, p, s), Filled(t, p, s)
      PROVE  ClientsOK' /\ Owned'
  <2>1. /\ Idle /\ Idle' /\ formatting' = formatting /\ t \notin clones
        /\ target' = [target EXCEPT ![t] = p] /\ Holders = clones /\ Holders' = clones'
    BY <1>5 DEF Alloc, Filled, Idle, Holders
  <2>2. CASE p = NULL
    <3>1. clones' = clones /\ written' = written /\ blocks' = blocks
      BY <1>5, <2>2 DEF Alloc, Filled
    <3>2. \A u \in clones : target'[u] = target[u]
      BY <2>1 DEF ClientsOK
    <3>3. CloneBlocks' = CloneBlocks
      BY <1>2, <2>1, <3>1, <3>2, CloneBlocksAre
    <3>4. ClientsOK'
      BY <1>1, <2>1, <2>2, <3>1, <3>2 DEF ClientsOK
    <3> QED
      BY <1>1, <2>1, <3>1, <3>2, <3>3, <3>4 DEF Owned
  <2>3. CASE p # NULL
    <3>1. /\ p \in Ptrs /\ Malloc(p, s)
          /\ clones' = clones \cup {t} /\ written' = [written EXCEPT ![t] = s]
      BY <1>5, <2>3 DEF Alloc, Filled
    <3>2. /\ written'[t] = s /\ \A u \in clones : written'[u] = written[u]
          /\ written' \in [Targets -> Nat]
      BY <2>1, <3>1 DEF ClientsOK
    <3>3. ClientsOK'
      BY <1>1, <2>1, <3>1, <3>2 DEF ClientsOK
    <3>4. /\ DOMAIN blocks' = app' \cup CloneBlocks' \cup InfoBlocks'
          /\ app' \cap CloneBlocks' = {} /\ app' \cap InfoBlocks' = {}
          /\ CloneBlocks' \cap InfoBlocks' = {}
          /\ \A u, w \in Holders' : target'[u] = target'[w] => u = w
          /\ blocks'[p] = s /\ target'[t] = p
          /\ \A u \in clones : target'[u] = target[u] /\ blocks'[target'[u]] = blocks[target[u]]
      BY <1>3, <2>1, <3>1
    <3>5. \A u \in clones' : written'[u] <= blocks'[target'[u]]
      BY <3>1, <3>2, <3>4 DEF Owned
    <3> QED
      BY <2>1, <3>3, <3>4, <3>5 DEF Owned
  <2> QED
    BY <2>2, <2>3
\* clone_string_with_format and clone_string_with_size_format
<1>6. ASSUME NEW t \in Targets, NEW p \in Ptrs \cup {NULL}, NEW k \in Nat, NEW n \in Nat,
             Format(t, p, k, n)
      PROVE  ClientsOK' /\ Owned'
  <2>1. /\ Idle /\ t \notin clones /\ clones' = clones /\ written' = written /\ n > 0
        /\ target' = [target EXCEPT ![t] = p] /\ Holders = clones
        /\ Alloc(t, p, n + k + 1)
    BY <1>6 DEF Format, Alloc, Idle, Holders, CloneSize
  <2>2. CASE p = NULL
    <3>1. blocks' = blocks /\ Idle'
      BY <1>6, <2>1, <2>2 DEF Alloc, Format, Idle
    <3>2. Holders' = clones /\ \A u \in clones : target'[u] = target[u]
      BY <1>2, <2>1, <3>1 DEF ClientsOK
    <3>3. CloneBlocks' = CloneBlocks
      BY <1>2, <2>1, <3>2, CloneBlocksAre
    <3>4. ClientsOK'
      BY <1>1, <2>1, <2>2, <3>1, <3>2 DEF ClientsOK
    <3> QED
      BY <1>1, <2>1, <3>1, <3>2, <3>3, <3>4 DEF Owned
  <2>3. CASE p # NULL
    <3>1. /\ p \in Ptrs /\ Malloc(p, n + k + 1)
          /\ formatting' = [target |-> t, from |-> k, length |-> n]
      BY <1>6, <2>1, <2>3 DEF Alloc, Format
    <3>2. ~Idle' /\ formatting'.target = t /\ formatting'.from = k /\ formatting'.length = n
      BY <2>1, <3>1 DEF Idle, NoFormat
    <3>3. Holders' = clones \cup {t}
      BY <1>2, <2>1, <3>2
    <3>4. ClientsOK'
      BY <1>1, <2>1, <3>1, <3>2 DEF ClientsOK
    <3>5. n + k + 1 \in Nat \ {0} /\ n + k + 1 = k + n + 1
      OBVIOUS
    <3>6. /\ DOMAIN blocks' = app' \cup CloneBlocks' \cup InfoBlocks'
          /\ app' \cap CloneBlocks' = {} /\ app' \cap InfoBlocks' = {}
          /\ CloneBlocks' \cap InfoBlocks' = {}
          /\ \A u, w \in Holders' : target'[u] = target'[w] => u = w
          /\ blocks'[p] = n + k + 1 /\ target'[t] = p
          /\ \A u \in clones : target'[u] = target[u] /\ blocks'[target'[u]] = blocks[target[u]]
      BY <1>3, <2>1, <3>1, <3>3, <3>5
    <3>7. \A u \in clones' : written'[u] <= blocks'[target'[u]]
      BY <2>1, <3>6 DEF Owned
    <3> QED
      BY <3>2, <3>4, <3>5, <3>6, <3>7 DEF Owned
  <2> QED
    BY <2>2, <2>3
<1>7. CASE FormatDone
  <2> DEFINE t == formatting.target
  <2>1. /\ ~Idle /\ Idle' /\ clones' = clones \cup {t} /\ target' = target /\ blocks' = blocks
        /\ written' = [written EXCEPT ![t] = formatting.from + formatting.length + 1]
    BY <1>7 DEF FormatDone, Idle
  <2>2. Holders' = Holders /\ Holders = clones \cup {t}
    BY <1>2, <2>1 DEF Holders
  <2>3. CloneBlocks' = CloneBlocks
    BY <1>2, <2>1, <2>2, CloneBlocksAre
  <2>4. /\ t \in Targets \ clones /\ target[t] \in Ptrs
        /\ formatting.from + formatting.length + 1 \in Nat
    BY <2>1 DEF ClientsOK
  <2>5. /\ written'[t] = formatting.from + formatting.length + 1
        /\ \A u \in clones : written'[u] = written[u]
        /\ written' \in [Targets -> Nat]
    BY <2>1, <2>4 DEF ClientsOK
  <2>6. ClientsOK'
    BY <1>1, <2>1, <2>4, <2>5 DEF ClientsOK
  <2>7. \A u \in clones' : written'[u] <= blocks'[target'[u]]
    BY <2>1, <2>4, <2>5 DEF Owned
  <2> QED
    BY <1>1, <2>1, <2>2, <2>3, <2>6, <2>7 DEF Owned
<1>8. CASE FormatFails
  <2> DEFINE t == formatting.target
  <2>1. /\ ~Idle /\ Idle' /\ clones' = clones /\ target' = target /\ written' = written
        /\ Free(target[t])
    BY <1>8 DEF FormatFails, Idle
  <2>2. t \in Holders /\ t \notin clones /\ Holders' = Holders \ {t} /\ Holders' = clones
    BY <1>2, <2>1 DEF Holders, ClientsOK
  <2>3. ClientsOK'
    BY <1>1, <2>1 DEF ClientsOK
  <2> HIDE DEF t
  <2> QED
    BY <1>4, <2>1, <2>2, <2>3 DEF Owned
<1>9. ASSUME NEW t \in Targets, FreeClone(t) PROVE ClientsOK' /\ Owned'
  <2>1. /\ Idle /\ Idle' /\ t \in clones /\ clones' = clones \ {t} /\ target' = target
        /\ written' = [written EXCEPT ![t] = 0] /\ Free(target[t]) /\ formatting' = formatting
    BY <1>9 DEF FreeClone, Idle
  <2>2. t \in Holders /\ Holders' = Holders \ {t} /\ Holders' = clones'
    BY <1>2, <2>1 DEF Holders
  <2>3. written' \in [Targets -> Nat] /\ \A u \in clones' : written'[u] = written[u]
    BY <2>1 DEF ClientsOK
  <2>4. ClientsOK'
    BY <1>1, <2>1, <2>3 DEF ClientsOK
  <2> QED
    BY <1>4, <2>1, <2>2, <2>3, <2>4 DEF Owned
<1>10. ASSUME NEW t \in Targets, NEW p \in Ptrs \cup {NULL}, NEW n \in Lengths, NEW k \in Lengths,
             CloneString(t, p, n) \/ CloneStringWithSize(t, p, n, k)
      PROVE  ClientsOK' /\ Owned'
  <2>1. n \in Nat /\ k \in Nat
    OBVIOUS
  <2>2. PICK s \in Nat \ {0} : Alloc(t, p, s) /\ Filled(t, p, s)
    BY <1>10, <2>1 DEF CloneString, CloneStringWithSize, CloneSize
  <2> QED
    BY <1>5, <2>2
<1>11. ASSUME NEW t \in Targets, NEW p \in Ptrs \cup {NULL}, NEW n \in Lengths, NEW k \in Lengths,
             CloneStringWithFormat(t, p, n) \/ CloneStringWithSizeFormat(t, p, n, k)
      PROVE  ClientsOK' /\ Owned'
  <2>1. n \in Nat /\ k \in Nat
    OBVIOUS
  <2> QED
    BY <1>6, <1>11, <2>1 DEF CloneStringWithFormat, CloneStringWithSizeFormat
<1> QED
  BY <1>7, <1>8, <1>9, <1>10, <1>11 DEF CrtNext

LEMMA ClientsInvStep ==
    ASSUME Switches \subseteq {"deinit"}
    PROVE  ClientsInv /\ [ClientsNext]_allVars => ClientsInv'
<1> SUFFICES ASSUME ClientsInv, [ClientsNext]_allVars PROVE ClientsInv'
  OBVIOUS
<1>1. ShimInv'
  BY StepIsShimAction, ShimActionStep DEF ClientsInv
<1>2. ASSUME Shim \/ UNCHANGED allVars PROVE ClientsOK' /\ Owned'
  <2>1. UNCHANGED <<target, clones, written, formatting, info, app, blocks>>
    BY <1>2 DEF Shim, ShimInit, ShimDeinit, Reset, allVars, vars, crt, fileVars
  <2> QED
    BY <2>1 DEF ClientsInv, ClientsOK, Owned, Holders, CloneBlocks, InfoBlocks, Idle
<1>3. ClientsOK' /\ Owned'
  BY <1>2, AppStep, CrtStep, FileStep DEF ClientsNext
<1> QED
  BY <1>1, <1>3 DEF ClientsInv

\* mem_shim_get_current_memory is the memory in use, through every malloc, calloc,
\* realloc and free of any clients, also with ALLOCATIONs left behind by a
\* mem_shim_deinit (sys_debug_shim.c).
THEOREM TotalIsRight ==
    ASSUME Switches \subseteq {"deinit"}
    PROVE  ClientsSpec => []TotalIsMemoryUsed
<1>1. ClientsInv => TotalIsMemoryUsed
  BY DEF ClientsInv, ShimInv, CountsOK, TotalIsMemoryUsed, CurrentMemory
<1> QED
  BY <1>1, ClientsInvInit, ClientsInvStep, PTL DEF ClientsSpec

\* mem_shim_get_maximum_memory is the most memory in use at any point
\* (sys_debug_shim.c:100).
THEOREM MaximumIsRight ==
    ASSUME Switches \subseteq {"deinit"}
    PROVE  ClientsSpec => []MaximumIsPeak
<1>1. ClientsInv => MaximumIsPeak
  BY DEF ClientsInv, ShimInv, CountsOK, MaximumIsPeak, MaximumMemory
<1> QED
  BY <1>1, ClientsInvInit, ClientsInvStep, PTL DEF ClientsSpec

\* The shim finds every block in use under its address with its size, whatever
\* stale ALLOCATIONs of the same address are in its list, and keeps none of a block
\* that was freed while it was in use.
THEOREM TrackedRight ==
    ASSUME Switches \subseteq {"deinit"}
    PROVE  ClientsSpec => []InUseIsTracked
<1>1. ASSUME ClientsInv PROVE InUseIsTracked
  <2>1. TypeOK
    BY <1>1, HeadIs DEF ClientsInv, ShimInv, HeapOK, RecordsOK, TypeOK, Allocation
  <2>2. ASSUME IsInit, NEW p \in DOMAIN blocks
        PROVE  Find(p) # 0 /\ head[Find(p)].size = blocks[p]
    BY <1>1, <2>2, FindsTheBlock DEF ClientsInv
  <2>3. ASSUME IsInit PROVE Len(head) = left + Cardinality(DOMAIN blocks)
    BY <1>1, <2>3, HeadIs DEF ClientsInv, ShimInv, CountsOK, RecordsOK, Tracked, Fresh
  <2> QED
    BY <2>1, <2>2, <2>3 DEF InUseIsTracked
<1> QED
  BY <1>1, ClientsInvInit, ClientsInvStep, PTL DEF ClientsSpec

\* As many variables hold a clone or a block being formatted as there are blocks
\* of clones.
LEMMA AsManyHolders ==
    ASSUME ClientsInv
    PROVE  /\ IsFiniteSet(CloneBlocks) /\ IsFiniteSet(clones)
           /\ Cardinality(CloneBlocks) = Cardinality(clones) + (IF Idle THEN 0 ELSE 1)
<1>1. IsFiniteSet(CloneBlocks)
  BY FS_Subset DEF ClientsInv, ShimInv, HeapOK, Owned
<1> DEFINE f == [t \in Holders |-> target[t]]
<1>2. f \in Injection(Holders, CloneBlocks) /\ f \in Surjection(Holders, CloneBlocks)
  BY CloneBlocksAre DEF ClientsInv, Owned, Injection, IsInjective, Surjection
<1>3. IsFiniteSet(Holders) /\ Cardinality(Holders) = Cardinality(CloneBlocks)
  BY <1>1, <1>2, FS_Injection
<1>4. IsFiniteSet(clones) /\ Cardinality(clones) \in Nat
  BY <1>3, FS_Subset, FS_CardinalityType DEF Holders
<1>5. CASE Idle
  BY <1>1, <1>3, <1>4, <1>5 DEF Holders
<1>6. CASE ~Idle
  <2>1. Holders = clones \cup {formatting.target} /\ formatting.target \notin clones
    BY <1>6 DEF Holders, ClientsInv, ClientsOK
  <2> QED
    BY <1>1, <1>3, <1>4, <1>6, <2>1, FS_AddElement
<1> QED
  BY <1>5, <1>6

\* Whatever fails on the way, every block that is in use has exactly one owner
\* that will free it, and no clone is longer than its block (crt_extensions.c and
\* file_mgr.c over sys_debug_shim.c).
THEOREM OneOwnerEach ==
    ASSUME Switches \subseteq {"deinit"}
    PROVE  ClientsSpec => []EveryBlockHasItsOwner
<1>1. ASSUME ClientsInv PROVE EveryBlockHasItsOwner
  <2>1. /\ DOMAIN blocks = app \cup CloneBlocks \cup InfoBlocks
        /\ app \cap CloneBlocks = {} /\ (app \cup CloneBlocks) \cap InfoBlocks = {}
        /\ IsFiniteSet(DOMAIN blocks)
    BY <1>1 DEF ClientsInv, ShimInv, HeapOK, Owned
  <2>2. IsFiniteSet(app) /\ IsFiniteSet(CloneBlocks) /\ IsFiniteSet(InfoBlocks)
    BY <2>1, FS_Subset
  <2>3. /\ IsFiniteSet(app \cup CloneBlocks)
        /\ Cardinality(app \cup CloneBlocks) = Cardinality(app) + Cardinality(CloneBlocks) - Cardinality({})
    BY <2>1, <2>2, FS_Union
  <2>4. Cardinality(DOMAIN blocks)
            = Cardinality(app \cup CloneBlocks) + Cardinality(InfoBlocks) - Cardinality({})
    BY <2>1, <2>2, <2>3, FS_Union
  <2>5. /\ Cardinality({}) = 0 /\ Cardinality(app) \in Nat /\ Cardinality(InfoBlocks) \in Nat
        /\ Cardinality(CloneBlocks) \in Nat /\ Cardinality(clones) \in Nat
    BY <1>1, <2>2, FS_EmptySet, FS_CardinalityType, AsManyHolders
  <2>6. Cardinality(DOMAIN blocks) =
          Cardinality(app) + Cardinality(clones) + (IF Idle THEN 0 ELSE 1) + Cardinality(InfoBlocks)
    BY <1>1, <2>3, <2>4, <2>5, AsManyHolders
  <2> QED
    BY <1>1, <2>1, <2>6 DEF EveryBlockHasItsOwner, ClientsInv, Owned
<1> QED
  BY <1>1, ClientsInvInit, ClientsInvStep, PTL DEF ClientsSpec

-----------------------------------------------------------------------------
(* The file                                                                    *)

\* The stream is within the file, and at its beginning once it was measured, until
\* the next transfer.
FileInv ==
    /\ file \in Seq(Bytes \cup {1})
    /\ pos \in 0 .. Len(file)
    /\ measured \in Int
    /\ measured # -1 => measured = Len(file) /\ pos = 0

LEMMA FileInvInit == ClientsInit => FileInv
<1> SUFFICES ASSUME ClientsInit PROVE FileInv
  OBVIOUS
<1>1. pos = 0 /\ measured = -1 /\ file \in {<<1>>, <<>>}
  BY DEF ClientsInit, FileInit
<1>2. <<1>> \in Seq(Bytes \cup {1}) /\ Len(<<1>>) = 1
  OBVIOUS
<1>3. <<>> \in Seq(Bytes \cup {1}) /\ Len(<<>>) = 0
  BY EmptySeq
<1>4. file \in Seq(Bytes \cup {1}) /\ Len(file) \in Nat
  BY <1>1, <1>2, <1>3
<1> QED
  BY <1>1, <1>4 DEF FileInv

\* What a write does to the file.
LEMMA Written ==
    ASSUME FileInv, NEW n \in Nat, NEW b \in Bytes, Write(n, b)
    PROVE  LET at == IF Stream \in Appends THEN Len(file) ELSE pos
           IN  \/ file' = file /\ pos' = pos
               \/ /\ file' \in Seq(Bytes \cup {1}) /\ pos' = at + n
                  /\ Len(file') = MaxOf(Len(file), at + n)
                  /\ \A i \in 1 .. at : file'[i] = file[i]
<1> DEFINE at == IF Stream \in Appends THEN Len(file) ELSE pos
           len == MaxOf(Len(file), at + n)
<1>1. Len(file) \in Nat /\ at \in 0 .. Len(file) /\ len \in Nat /\ at <= len
  BY LenProperties DEF FileInv, MaxOf
<1>2. CASE Stream = "r"
  BY <1>2 DEF Write
<1>3. CASE Stream # "r"
  <2>1. file' = [i \in 1 .. len |-> IF i \in at + 1 .. at + n THEN b ELSE file[i]] /\ pos' = at + n
    BY <1>3 DEF Write
  <2>2. \A i \in 1 .. len : i \notin at + 1 .. at + n => file[i] \in Bytes \cup {1}
    <3> SUFFICES ASSUME NEW i \in 1 .. len, i \notin at + 1 .. at + n PROVE file[i] \in Bytes \cup {1}
      OBVIOUS
    <3>1. i \in 1 .. Len(file)
      BY <1>1 DEF MaxOf
    <3> QED
      BY <3>1, ElementOfSeq DEF FileInv
  <2> HIDE DEF at, len
  <2>3. file' \in [1 .. len -> Bytes \cup {1}]
    BY <2>1, <2>2
  <2>4. file' \in Seq(Bytes \cup {1}) /\ Len(file') = len
    BY <1>1, <2>1, <2>3
  <2>5. \A i \in 1 .. at : file'[i] = file[i]
    BY <1>1, <2>1
  <2> QED
    BY <2>1, <2>4, <2>5 DEF at, len
<1> QED
  BY <1>2, <1>3

LEMMA FileInvStep == FileInv /\ [ClientsNext]_allVars => FileInv'
<1> SUFFICES ASSUME FileInv, [ClientsNext]_allVars PROVE FileInv'
  OBVIOUS
<1>1. CASE UNCHANGED fileVars
  BY <1>1 DEF fileVars, FileInv
<1>2. ASSUME NEW p \in Ptrs, NEW m \in Modes, Open(p, m) PROVE FileInv'
  <2>1. pos' = 0 /\ measured' = -1 /\ file' \in {<<>>, file}
    BY <1>2 DEF Open
  <2>2. /\ file \in Seq(Bytes \cup {1}) /\ Len(file) \in Nat
        /\ <<>> \in Seq(Bytes \cup {1}) /\ Len(<<>>) = 0
    BY LenProperties, EmptySeq DEF FileInv
  <2>3. file' \in Seq(Bytes \cup {1}) /\ Len(file') \in Nat
    BY <2>1, <2>2
  <2> QED
    BY <2>1, <2>3 DEF FileInv
<1>3. ASSUME NEW p \in Ptrs, NEW m \in Modes, OpenFails(p, m) PROVE FileInv'
  BY <1>3 DEF OpenFails, FileInv
<1>4. CASE OpenFailed
  BY <1>4 DEF OpenFailed, FileInv
<1>5. CASE Close
  BY <1>5, LenProperties DEF Close, FileInv
<1>6. CASE GetLength
  BY <1>6, LenProperties DEF GetLength, FileInv
<1>7. ASSUME NEW n \in 1 .. MaxFile, Read(n) PROVE FileInv'
  <2>1. Len(file) \in Nat /\ n \in Nat
    BY LenProperties DEF FileInv
  <2> QED
    BY <1>7, <2>1 DEF Read, MaxOf, FileInv
<1>8. ASSUME NEW n \in 1 .. MaxFile, NEW b \in Bytes, Write(n, b) PROVE FileInv'
  <2>1. Len(file) \in Nat /\ n \in Nat /\ measured' = -1
    BY <1>8, LenProperties DEF FileInv, Write
  <2> QED
    BY <1>8, <2>1, Written DEF FileInv, MaxOf
<1> QED
  BY <1>1, <1>2, <1>3, <1>4, <1>5, <1>6, <1>7, <1>8
  DEF ClientsNext, FileNext, Shim, AppAllocates, AppResizes, AppFrees, allVars

\* file_mgr_get_length leaves the stream where reading so many bytes gives the
\* whole file, wherever it was and whatever happens in between (file_mgr.c).
THEOREM LengthThenReadGivesAll == ClientsSpec => LengthThenRead
<1>1. ASSUME FileInv, NEW n \in 1 .. MaxFile, Read(n), measured = n, Stream \in Reads
      PROVE  pos = 0 /\ pos' = Len(file)
  <2>1. Len(file) \in Nat /\ n \in Nat /\ n # -1
    BY <1>1, LenProperties DEF FileInv
  <2>2. pos = 0 /\ n = Len(file)
    BY <1>1, <2>1 DEF FileInv
  <2> QED
    BY <1>1, <2>1, <2>2 DEF Read
<1>2. FileInv /\ [ClientsNext]_allVars =>
        [\A n \in 1 .. MaxFile : Read(n) /\ measured = n /\ Stream \in Reads
            => pos = 0 /\ pos' = Len(file)]_allVars
  BY <1>1
<1> QED
  BY <1>2, FileInvInit, FileInvStep, PTL DEF ClientsSpec, LengthThenRead

LEMMA PrefixKept ==
    ASSUME NEW S, NEW s \in Seq(S), NEW t \in Seq(S), Len(s) <= Len(t),
           \A i \in 1 .. Len(s) : t[i] = s[i]
    PROVE  IsPrefix(s, t)
<1>1. Len(s) \in Nat /\ \A i \in 1 .. Len(s) : s[i] \in S /\ t[i] \in S
  BY LenProperties, ElementOfSeq
<1>2. /\ SubSeq(s, 1, Len(s)) \in Seq(S) /\ SubSeq(t, 1, Len(s)) \in Seq(S)
      /\ Len(SubSeq(s, 1, Len(s))) = Len(s) /\ Len(SubSeq(t, 1, Len(s))) = Len(s)
      /\ \A i \in 1 .. Len(s) : SubSeq(s, 1, Len(s))[i] = s[i] /\ SubSeq(t, 1, Len(s))[i] = t[i]
  BY <1>1, SubSeqProperties
<1>3. SubSeq(s, 1, Len(s)) = SubSeq(t, 1, Len(s))
  BY <1>2, SeqEqual
<1> QED
  BY <1>3 DEF IsPrefix

\* Nothing that is done with a file opened to append takes away from what it held
\* (get_file_mode and file_mgr_write).
THEOREM AppendingKeeps == ClientsSpec => AppendKeeps
<1> DEFINE Appending == mode' \in {"file_mode_append", "file_mode_read_append"}
<1>1. FileInv => IsPrefix(file, file)
  BY LenProperties DEF FileInv, IsPrefix
<1>2. ASSUME FileInv, ClientsNext, info' # NoInfo, Appending PROVE IsPrefix(file, file')
  <2>1. CASE file' = file
    BY <1>1, <1>2, <2>1
  <2>2. ASSUME NEW p \in Ptrs, NEW m \in Modes, Open(p, m) PROVE IsPrefix(file, file')
    <3>1. m \in {"file_mode_append", "file_mode_read_append"}
      BY <1>2, <2>2 DEF Open
    <3>2. GetFileMode(m) \in {"a", "a+"}
      BY <3>1 DEF GetFileMode
    <3> QED
      BY <2>1, <2>2, <3>2 DEF Open
  <2>3. ASSUME NEW n \in 1 .. MaxFile, NEW b \in Bytes, Write(n, b) PROVE IsPrefix(file, file')
    <3>1. Stream \in Appends
      <4>1. mode' = mode
        BY <2>3 DEF Write
      <4> QED
        BY <1>2, <4>1 DEF Stream, GetFileMode, Appends
    <3>2. n \in Nat /\ Len(file) \in Nat
      BY <1>2, LenProperties DEF FileInv
    <3>3. \/ file' = file
          \/ /\ file' \in Seq(Bytes \cup {1})
             /\ Len(file') = MaxOf(Len(file), Len(file) + n)
             /\ \A i \in 1 .. Len(file) : file'[i] = file[i]
      BY <1>2, <2>3, <3>1, <3>2, Written
    <3> QED
      BY <1>2, <2>1, <3>2, <3>3, PrefixKept DEF FileInv, MaxOf
  <2> QED
    BY <1>2, <2>1, <2>2, <2>3
    DEF ClientsNext, FileNext, Shim, AppAllocates, AppResizes, AppFrees, fileVars,
        OpenFails, OpenFailed, Close, GetLength, Read
<1>3. FileInv /\ [ClientsNext]_allVars =>
        [info' # NoInfo /\ Appending => IsPrefix(file, file')]_allVars
  BY <1>2
<1> QED
  BY <1>3, FileInvInit, FileInvStep, PTL DEF ClientsSpec, AppendKeeps

=============================================================================
