---------------------------- MODULE ItemMapProofs ----------------------------
(***************************************************************************)
(* The bookkeeping of item_map.c, for any keys, values and slots, and any  *)
(* hash function: item_len is the number of mappings in the chains, and    *)
(* the heap holds those and the handle.  A sum over all the slots is the   *)
(* number of places in their chains; a call adds or takes out one place,   *)
(* or all of them.                                                         *)
(***************************************************************************)
EXTENDS ItemMap, FiniteSetTheorems, SequenceTheorems, WellFoundedInduction, TLAPS

Mappings == [key : Keys, value : Values]

Results == Values \cup {NULL, "ok", "failed", "running"}
Replies == [of : Keys \cup {NULL}, is : Results]

AllMappings(c) == FoldFunction(LAMBDA chain, n : Len(chain) + n, 0, c)

\* The places of the mappings of the slots of S.
Places(c, S) == {p \in S \X Nat : p[2] \in 1 .. Len(c[p[1]])}

PlacesOf(c, s) == {s} \X (1 .. Len(c[s]))

LEMMA RepliesAre ==
    \A k \in Keys \cup {NULL} : \A r \in Results : [of |-> k, is |-> r] \in Replies
  BY DEF Replies

LEMMA ResultsAre ==
    Values \subseteq Results /\ NULL \in Results /\ {"ok", "failed", "running"} \subseteq Results
  BY DEF Results

-----------------------------------------------------------------------------
(* Counting                                                                    *)

LEMMA LeastOf ==
    ASSUME NEW T \in SUBSET Nat, T # {}
    PROVE  \E n \in T : \A m \in T : n <= m
<1>1. \E n \in T : \A m \in T : ~ (<<m, n>> \in OpToRel(<, Nat))
  BY NatLessThanWellFounded, WFMin, Zenon
<1>2. ASSUME NEW n \in T, NEW m \in T, ~ (<<m, n>> \in OpToRel(<, Nat)) PROVE n <= m
  <2>1. ~ (m < n)
    BY <1>2 DEF OpToRel
  <2> QED BY <2>1
<1> QED BY <1>1, <1>2

LEMMA PlacesOfIs ==
    ASSUME NEW c \in [Slots -> Seq(Mappings)], NEW s \in Slots
    PROVE  IsFiniteSet(PlacesOf(c, s)) /\ Cardinality(PlacesOf(c, s)) = Len(c[s])
<1>1. Len(c[s]) \in Nat
  OBVIOUS
<1>2. IsFiniteSet({s}) /\ Cardinality({s}) = 1
  BY FS_Singleton
<1>3. IsFiniteSet(1 .. Len(c[s])) /\ Cardinality(1 .. Len(c[s])) = Len(c[s])
  <2>1. \A n \in Nat : IsFiniteSet(1 .. n) /\ Cardinality(1 .. n) = n
    BY FS_Interval
  <2> QED BY <1>1, <2>1
<1>4. /\ IsFiniteSet(PlacesOf(c, s))
      /\ Cardinality(PlacesOf(c, s)) = Cardinality({s}) * Cardinality(1 .. Len(c[s]))
  BY <1>2, <1>3, FS_Product DEF PlacesOf
<1> QED BY <1>1, <1>2, <1>3, <1>4

LEMMA PlacesFinite ==
    ASSUME NEW c \in [Slots -> Seq(Mappings)], NEW S \in SUBSET Slots
    PROVE  IsFiniteSet(Places(c, S))
<1> DEFINE f == [s \in S |-> PlacesOf(c, s)]
           T == {PlacesOf(c, s) : s \in S}
<1>1. IsFiniteSet(S)
  BY ItemMapAssumption, FS_Subset
<1>2. f \in Surjection(S, T)
  BY DEF Surjection
<1>3. IsFiniteSet(T)
  <2> HIDE DEF f, T
  <2> QED BY <1>1, <1>2, FS_Surjection
<1>4. \A U \in T : IsFiniteSet(U)
  BY PlacesOfIs
<1>5. IsFiniteSet(UNION T)
  BY <1>3, <1>4, FS_UNION
<1>6. Places(c, S) \subseteq UNION T
  BY DEF Places, PlacesOf
<1> QED BY <1>5, <1>6, FS_Subset

\* One slot counted after the others.
LEMMA OneMoreSlot ==
    ASSUME NEW c \in [Slots -> Seq(Mappings)], NEW S \in SUBSET Slots, NEW s \in S
    PROVE  Cardinality(Places(c, S)) = Len(c[s]) + Cardinality(Places(c, S \ {s}))
<1> DEFINE rest == Places(c, S \ {s})
           own == PlacesOf(c, s)
<1>1. Places(c, S) = own \cup rest /\ own \cap rest = {}
  BY DEF Places, PlacesOf
<1>2. IsFiniteSet(rest) /\ IsFiniteSet(own) /\ Cardinality(own) = Len(c[s])
  BY PlacesFinite, PlacesOfIs
<1>3. Cardinality(rest) \in Nat /\ Len(c[s]) \in Nat /\ Cardinality({}) = 0
  BY <1>2, FS_CardinalityType, FS_EmptySet
<1> HIDE DEF rest, own
<1>4. Cardinality(own \cup rest) = Cardinality(own) + Cardinality(rest) - Cardinality(own \cap rest)
  BY <1>2, FS_Union
<1>5. Cardinality(own \cup rest) = Len(c[s]) + Cardinality(rest)
  <2>1. Cardinality(own \cap rest) = 0
    BY <1>1, <1>3
  <2> QED BY <1>2, <1>3, <1>4, <2>1
<1> QED BY <1>1, <1>5 DEF rest

\* The sum over the slots, in whatever order the fold takes them.
LEMMA AllMappingsIs ==
    ASSUME NEW c \in [Slots -> Seq(Mappings)]
    PROVE  AllMappings(c) = Cardinality(Places(c, Slots))
<1> DEFINE Chosen(S) == CHOOSE s \in S : TRUE
           Sum(iter) == [S \in SUBSET Slots |->
                            IF S = {} THEN 0 ELSE Len(c[Chosen(S)]) + iter[S \ {Chosen(S)}]]
           sum == CHOOSE iter : iter = Sum(iter)
           F == [S \in SUBSET Slots |-> Cardinality(Places(c, S))]
<1>1. AllMappings(c) = sum[Slots]
  BY DEF AllMappings, FoldFunction, FoldFunctionOnSet, MapThenFoldSet
<1>2. F = Sum(F)
  <2> SUFFICES ASSUME NEW S \in SUBSET Slots
               PROVE  F[S] = IF S = {} THEN 0 ELSE Len(c[Chosen(S)]) + F[S \ {Chosen(S)}]
    BY Zenon
  <2>1. CASE S = {}
    <3>1. Places(c, S) = {}
      BY <2>1 DEF Places
    <3> QED BY <2>1, <3>1, FS_EmptySet
  <2>2. CASE S # {}
    <3>1. Chosen(S) \in S
      BY <2>2
    <3> HIDE DEF Chosen
    <3>2. F[S] = Cardinality(Places(c, S))
          /\ F[S \ {Chosen(S)}] = Cardinality(Places(c, S \ {Chosen(S)}))
      OBVIOUS
    <3> QED BY <2>2, <3>1, <3>2, OneMoreSlot
  <2> QED BY <2>1, <2>2
<1>3. sum = Sum(sum)
  <2>1. \E iter : iter = Sum(iter)
    <3> HIDE DEF F, Sum
    <3> QED BY <1>2
  <2> HIDE DEF Sum
  <2> QED BY <2>1
<1>4. \A S \in SUBSET Slots :
         sum[S] = IF S = {} THEN 0 ELSE Len(c[Chosen(S)]) + sum[S \ {Chosen(S)}]
  <2> HIDE DEF sum
  <2> QED BY <1>3, Zenon
<1>5. \A S \in SUBSET Slots :
         F[S] = IF S = {} THEN 0 ELSE Len(c[Chosen(S)]) + F[S \ {Chosen(S)}]
  <2> HIDE DEF F
  <2> QED BY <1>2, Zenon
<1> HIDE DEF sum, F, Sum
<1>6. ASSUME NEW R \in SUBSET Slots, sum[R] # F[R] PROVE FALSE
  <2> DEFINE T == {n \in Nat : \E S \in SUBSET Slots : sum[S] # F[S] /\ Cardinality(S) = n}
  <2>1. \A S \in SUBSET Slots : IsFiniteSet(S) /\ Cardinality(S) \in Nat
    BY ItemMapAssumption, FS_Subset, FS_CardinalityType
  <2>2. PICK n \in T : \A m \in T : n <= m
    <3>1. T \in SUBSET Nat /\ Cardinality(R) \in T
      BY <1>6, <2>1
    <3> HIDE DEF T
    <3> QED BY <3>1, LeastOf
  <2>3. PICK S \in SUBSET Slots : sum[S] # F[S] /\ Cardinality(S) = n
    OBVIOUS
  <2>4. S # {} /\ S \ {Chosen(S)} \in SUBSET Slots
    BY <1>4, <1>5, <2>3
  <2>5. Chosen(S) \in S
    BY <2>4
  <2> HIDE DEF Chosen
  <2>6. Cardinality(S \ {Chosen(S)}) = n - 1 /\ n \in Nat
    BY <2>1, <2>3, <2>5, FS_RemoveElement
  <2>7. Cardinality(S \ {Chosen(S)}) \in Nat
    BY <2>1, <2>4
  <2>8. sum[S \ {Chosen(S)}] = F[S \ {Chosen(S)}]
    BY <2>2, <2>4, <2>6, <2>7
  <2>9. sum[S] = F[S]
    BY <1>4, <1>5, <2>4, <2>8
  <2> QED BY <2>3, <2>9
<1>7. sum[Slots] = F[Slots]
  BY <1>6
<1> QED BY <1>1, <1>7 DEF F

\* Another chain in one slot.
LEMMA ChangedChain ==
    ASSUME NEW c \in [Slots -> Seq(Mappings)], NEW s \in Slots, NEW chain \in Seq(Mappings),
           NEW d, d = [c EXCEPT ![s] = chain]
    PROVE  /\ d \in [Slots -> Seq(Mappings)]
           /\ AllMappings(d) = (AllMappings(c) - Len(c[s])) + Len(chain)
           /\ AllMappings(c) \in Nat /\ AllMappings(c) >= Len(c[s])
<1> DEFINE rest == Cardinality(Places(c, Slots \ {s}))
<1>1. d \in [Slots -> Seq(Mappings)] /\ d[s] = chain
  OBVIOUS
<1>2. Places(d, Slots \ {s}) = Places(c, Slots \ {s})
  BY DEF Places
<1>3. rest \in Nat /\ Len(c[s]) \in Nat /\ Len(chain) \in Nat
  BY PlacesFinite, FS_CardinalityType
<1>4. AllMappings(c) = Len(c[s]) + rest
  BY AllMappingsIs, OneMoreSlot
<1>5. AllMappings(d) = Len(chain) + rest
  <2>1. AllMappings(d) = Cardinality(Places(d, Slots))
    BY <1>1, AllMappingsIs
  <2>2. Cardinality(Places(d, Slots)) = Len(d[s]) + Cardinality(Places(d, Slots \ {s}))
    BY <1>1, OneMoreSlot
  <2> QED BY <1>1, <1>2, <2>1, <2>2
<1> HIDE DEF rest
<1>6. AllMappings(d) = (AllMappings(c) - Len(c[s])) + Len(chain)
  BY <1>3, <1>4, <1>5
<1>7. AllMappings(c) \in Nat /\ AllMappings(c) >= Len(c[s])
  BY <1>3, <1>4
<1> QED BY <1>1, <1>6, <1>7

LEMMA NoMappings == Empty \in [Slots -> Seq(Mappings)] /\ AllMappings(Empty) = 0
<1>1. Empty \in [Slots -> Seq(Mappings)] /\ \A s \in Slots : Len(Empty[s]) = 0
  BY DEF Empty
<1>2. Places(Empty, Slots) = {}
  BY <1>1 DEF Places
<1> QED BY <1>1, <1>2, AllMappingsIs, FS_EmptySet

LEMMA WithoutOne ==
    ASSUME NEW chain \in Seq(Mappings), NEW p \in 1 .. Len(chain)
    PROVE  RemoveAt(chain, p) \in Seq(Mappings) /\ Len(RemoveAt(chain, p)) = Len(chain) - 1
<1> DEFINE n == Len(chain)
           before == SubSeq(chain, 1, p - 1)
           after == SubSeq(chain, p + 1, n)
<1>1. n \in Nat /\ \A i \in 1 .. n : chain[i] \in Mappings
  BY ElementOfSeq
<1>2. before \in Seq(Mappings) /\ Len(before) = p - 1
  <2>1. \A i \in 1 .. p - 1 : chain[i] \in Mappings
    BY <1>1
  <2> QED BY <1>1, <2>1, SubSeqProperties
<1>3. after \in Seq(Mappings) /\ Len(after) = n - p
  <2>1. \A i \in p + 1 .. n : chain[i] \in Mappings
    BY <1>1
  <2> QED BY <1>1, <2>1, SubSeqProperties
<1> HIDE DEF before, after
<1>4. before \o after \in Seq(Mappings) /\ Len(before \o after) = Len(before) + Len(after)
  BY <1>2, <1>3, ConcatProperties
<1>5. Len(before \o after) = n - 1
  BY <1>1, <1>2, <1>3, <1>4
<1> QED BY <1>4, <1>5 DEF RemoveAt, before, after

-----------------------------------------------------------------------------
(* The invariant                                                               *)

\* The mappings of the chains, counted in item_len and in the heap.
Counted(mappings) ==
    /\ item_len = mappings
    /\ heap = MappingAllocations * mappings + IF open THEN HandleAllocations ELSE 0

\* Without a handle there is no mapping, and no removal is under way; one that
\* is concerns one of the keys.
MapInv ==
    /\ chains \in [Slots -> Seq(Mappings)]
    /\ item_len \in 0 .. MaxItems
    /\ open \in BOOLEAN
    /\ ~open => chains = Empty
    /\ removal \in [key : Keys \cup {NULL}, at : 0 .. 1]
    /\ removal # None => open /\ removal.key \in Keys /\ removal.at = 1
    /\ ret \in Replies
    /\ Counted(AllMappings(chains))

LEMMA MapInit == Init => MapInv
<1> SUFFICES ASSUME Init PROVE MapInv
  OBVIOUS
<1>1. chains \in [Slots -> Seq(Mappings)] /\ AllMappings(chains) = 0
  BY NoMappings DEF Init
<1>2. ret \in Replies
  BY RepliesAre, ResultsAre DEF Init
<1>3. Counted(AllMappings(chains))
  BY <1>1 DEF Init, Counted, MappingAllocations
<1>4. open \in BOOLEAN /\ chains = Empty /\ removal = None
  BY DEF Init
<1>6. removal \in [key : Keys \cup {NULL}, at : 0 .. 1]
  <2>1. None \in [key : Keys \cup {NULL}, at : 0 .. 1]
    BY DEF None
  <2> QED BY <1>4, <2>1
<1>5. item_len \in 0 .. MaxItems
  BY ItemMapAssumption DEF Init
<1> QED BY <1>1, <1>2, <1>3, <1>4, <1>5, <1>6 DEF MapInv

LEMMA UnlinkStep ==
    ASSUME MapInv, NEW s \in Slots, NEW p \in 1 .. Len(chains[s]), Unlink(s, p), open' = open
    PROVE  /\ chains' \in [Slots -> Seq(Mappings)]
           /\ item_len' \in 0 .. MaxItems
           /\ Counted(AllMappings(chains))'
<1> PICK c \in [Slots -> Seq(Mappings)] : c = chains
  BY DEF MapInv
<1> DEFINE chain == RemoveAt(c[s], p)
           d == [c EXCEPT ![s] = chain]
<1>1. c[s] \in Seq(Mappings) /\ Len(c[s]) \in Nat /\ p \in 1 .. Len(c[s])
  OBVIOUS
<1>2. chain \in Seq(Mappings) /\ Len(chain) = Len(c[s]) - 1
  BY <1>1, WithoutOne
<1> HIDE DEF chain
<1>3. /\ d \in [Slots -> Seq(Mappings)]
      /\ AllMappings(d) = (AllMappings(c) - Len(c[s])) + Len(chain)
      /\ AllMappings(c) \in Nat /\ AllMappings(c) >= Len(c[s])
  BY <1>2, ChangedChain
<1>4. chains' = d /\ heap' = heap - 3 /\ item_len' = item_len - 1
  BY DEF Unlink, MappingAllocations, chain
<1> HIDE DEF d
<1>5. AllMappings(d) = AllMappings(c) - 1 /\ AllMappings(c) >= 1
  BY <1>1, <1>2, <1>3
<1>6. item_len' \in 0 .. MaxItems
  <2>1. item_len = AllMappings(c) /\ item_len \in 0 .. MaxItems
    BY DEF MapInv, Counted
  <2> QED BY <1>3, <1>4, <1>5, <2>1, ItemMapAssumption
<1>7. item_len' = AllMappings(d)
      /\ heap' = MappingAllocations * AllMappings(d) + IF open THEN HandleAllocations ELSE 0
  <2>1. /\ item_len = AllMappings(c)
        /\ heap = MappingAllocations * AllMappings(c) + IF open THEN HandleAllocations ELSE 0
    BY DEF MapInv, Counted
  <2>2. PICK h \in Nat : h = IF open THEN HandleAllocations ELSE 0
    BY DEF HandleAllocations
  <2>3. heap' = MappingAllocations * AllMappings(d) + h
    BY <1>3, <1>4, <1>5, <2>1, <2>2 DEF MappingAllocations
  <2> QED BY <1>3, <1>4, <1>5, <2>1, <2>2, <2>3
<1> QED BY <1>3, <1>4, <1>6, <1>7 DEF Counted

LEMMA FoundIs ==
    ASSUME MapInv, NEW k \in Keys
    PROVE  Found(k) \in Values \cup {NULL}
<1> DEFINE chain == chains[SlotOf[k]]
           I == {i \in 1 .. Len(chain) : chain[i].key = k}
           p == IF I # {} THEN Min(I) ELSE 0
<1>1. chain \in Seq(Mappings)
  BY ItemMapAssumption DEF MapInv
<1> HIDE DEF chain
<1>2. \A i \in I : chain[i].value \in Values
  <2>1. \A i \in 1 .. Len(chain) : chain[i] \in Mappings
    BY <1>1, ElementOfSeq
  <2> QED BY <2>1 DEF Mappings
<1>3. I # {} => Min(I) \in I
  <2>1. Len(chain) \in Nat /\ I \in SUBSET Nat
    BY <1>1
  <2> HIDE DEF I
  <2> SUFFICES ASSUME I # {} PROVE Min(I) \in I
    OBVIOUS
  <2>2. \E x \in I : \A y \in I : x <= y
    BY <2>1, LeastOf
  <2> QED BY <2>2 DEF Min
<1>4. Found(k) = IF p = 0 THEN NULL ELSE chain[p].value
  BY DEF Found, SelectInSeq, chain
<1> QED BY <1>2, <1>3, <1>4

LEMMA MapStep == MapInv /\ [Next]_vars => MapInv'
<1> SUFFICES ASSUME MapInv, [Next]_vars PROVE MapInv'
  OBVIOUS
<1> USE ItemMapAssumption
<1>0. ASSUME UNCHANGED <<chains, item_len, open, heap>> PROVE Counted(AllMappings(chains))'
  BY <1>0 DEF MapInv, Counted
<1>1. ASSUME UNCHANGED <<chains, item_len, open, heap>>,
             UNCHANGED removal \/ removal' = None
             \/ (open /\ \E k \in Keys : removal' = [key |-> k, at |-> 1]),
             ret' \in Replies
      PROVE  MapInv'
  <2>1. Counted(AllMappings(chains))'
    BY <1>0, <1>1
  <2>2. /\ removal' \in [key : Keys \cup {NULL}, at : 0 .. 1]
        /\ removal' # None => open' /\ removal'.key \in Keys /\ removal'.at = 1
    BY <1>1 DEF MapInv, None
  <2> QED BY <1>1, <2>1, <2>2 DEF MapInv, Empty
<1>2. ASSUME chains' = Empty, item_len' = 0, open' \in BOOLEAN,
             heap' = IF open' THEN HandleAllocations ELSE 0,
             removal' # None => open', removal' = removal,
             ret' \in Replies
      PROVE  MapInv'
  <2>1. Empty \in [Slots -> Seq(Mappings)] /\ AllMappings(Empty) = 0 /\ Empty' = Empty
    BY NoMappings DEF Empty
  <2>2. Counted(AllMappings(chains))'
    BY <1>2, <2>1 DEF Counted, MappingAllocations, HandleAllocations
  <2> QED BY <1>2, <2>1, <2>2 DEF MapInv
<1>3. ASSUME Callable PROVE open /\ ClearedHeap = HandleAllocations
  <2>1. open /\ heap = MappingAllocations * AllMappings(chains) + HandleAllocations
    BY <1>3 DEF Callable, MapInv, Counted
  <2>2. AllMappings(chains) \in Nat
    BY DEF MapInv, Counted
  <2>3. ClearedHeap = heap - MappingAllocations * AllMappings(chains)
    BY DEF ClearedHeap, AllMappings
  <2> QED BY <2>1, <2>2, <2>3 DEF MappingAllocations, HandleAllocations
<1>4. CASE Create
  <2>1. AllMappings(chains) = 0 /\ ~open
    BY <1>4, NoMappings DEF Create, MapInv
  <2>2. heap = 0
    BY <2>1 DEF MapInv, Counted, MappingAllocations
  <2>3. /\ chains' = Empty /\ item_len' = 0 /\ removal' = removal /\ open' \in BOOLEAN
        /\ heap' = IF open' THEN HandleAllocations ELSE 0
        /\ ret' = [of |-> NULL, is |-> "ok"] \/ ret' = [of |-> NULL, is |-> "failed"]
    <3>1. open' \in BOOLEAN /\ heap' = IF open' THEN HandleAllocations ELSE 0
      <4>1. \/ open' = TRUE /\ heap' = heap + HandleAllocations
            \/ open' = FALSE /\ heap' = heap
        <5>1. \/ open' = TRUE /\ heap' = heap + HandleAllocations
              \/ open' = open /\ heap' = heap
          BY <1>4 DEF Create
        <5>2. open \in BOOLEAN
          BY DEF MapInv
        <5> QED BY <2>1, <5>1, <5>2
      <4>2. 0 + HandleAllocations = HandleAllocations
        BY DEF HandleAllocations
      <4> QED BY <2>2, <4>1, <4>2
    <3> QED BY <1>4, <3>1 DEF Create, Answer
  <2>4. ret' \in Replies
    BY <2>3, RepliesAre, ResultsAre
  <2> QED BY <1>2, <2>1, <2>3, <2>4 DEF MapInv
<1>5. CASE ClearAll
  <2>1. /\ chains' = Empty /\ item_len' = 0 /\ removal' = removal /\ open' = open /\ open
        /\ heap' = HandleAllocations /\ ret' = [of |-> NULL, is |-> "ok"]
    BY <1>3, <1>5 DEF ClearAll, Answer
  <2>2. ret' \in Replies
    BY <2>1, RepliesAre, ResultsAre
  <2> QED BY <1>2, <2>1, <2>2
<1>6. CASE Destroy
  <2>1. /\ chains' = Empty /\ item_len' = 0 /\ removal' = removal /\ removal = None /\ ~open'
        /\ open' \in BOOLEAN /\ heap' = 0 /\ ret' = ret
    <3>1. Callable /\ heap' = HandleAllocations - HandleAllocations
      BY <1>3, <1>6 DEF Destroy
    <3>2. heap' = 0
      BY <3>1 DEF HandleAllocations
    <3>3. open' = FALSE
      BY <1>6 DEF Destroy
    <3> QED BY <1>6, <3>1, <3>2, <3>3 DEF Destroy, Callable
  <2> QED BY <1>2, <2>1 DEF MapInv
<1>7. ASSUME NEW k \in Keys, NEW v \in Values, AddItem(k, v) PROVE MapInv'
  <2>0. Callable /\ open /\ removal' = removal /\ open' = open /\ removal = None
    BY <1>7 DEF AddItem, Callable
  <2>1. CASE ret' = [of |-> k, is |-> "failed"] /\ UNCHANGED <<chains, item_len>>
             /\ \E n \in 1 .. 3 : heap' = heap + LeftByFailure(n)
    <3>1. \A n \in 1 .. 3 : LeftByFailure(n) = 0
      BY DEF LeftByFailure
    <3>2. heap \in Nat
      BY <2>0 DEF MapInv, Counted, MappingAllocations, HandleAllocations
    <3>3. heap' = heap
      BY <2>1, <3>1, <3>2
    <3>4. ret' \in Replies
      BY <2>1, RepliesAre, ResultsAre
    <3> QED BY <1>1, <2>0, <2>1, <3>3, <3>4
  <2>2. CASE /\ chains' = [chains EXCEPT ![SlotOf[k]] = Append(@, [key |-> k, value |-> v])]
             /\ item_len' = item_len + 1
             /\ heap' = heap + MappingAllocations
             /\ ret' = [of |-> k, is |-> "ok"]
    <3> PICK c \in [Slots -> Seq(Mappings)] : c = chains
      BY DEF MapInv
    <3> PICK s \in Slots : s = SlotOf[k]
      OBVIOUS
    <3> DEFINE chain == Append(c[s], [key |-> k, value |-> v])
               d == [c EXCEPT ![s] = chain]
    <3>1. chain \in Seq(Mappings) /\ Len(chain) = Len(c[s]) + 1 /\ Len(c[s]) \in Nat
      <4>1. [key |-> k, value |-> v] \in Mappings /\ c[s] \in Seq(Mappings)
        BY DEF Mappings
      <4> QED BY <4>1, AppendProperties
    <3> HIDE DEF chain
    <3>2. /\ d \in [Slots -> Seq(Mappings)]
          /\ AllMappings(d) = (AllMappings(c) - Len(c[s])) + Len(chain)
          /\ AllMappings(c) \in Nat /\ AllMappings(c) >= Len(c[s])
      BY <3>1, ChangedChain
    <3>3. chains' = d
      BY <2>2 DEF chain
    <3> HIDE DEF d
    <3>4. AllMappings(d) = AllMappings(c) + 1
      BY <3>1, <3>2
    <3>5. Counted(AllMappings(d))'
      <4>1. /\ item_len = AllMappings(c)
            /\ heap = MappingAllocations * AllMappings(c) + HandleAllocations
        BY <2>0 DEF MapInv, Counted
      <4>2. item_len' = AllMappings(d)
            /\ heap' = MappingAllocations * AllMappings(d) + HandleAllocations
        BY <2>2, <3>2, <3>4, <4>1 DEF MappingAllocations, HandleAllocations
      <4> QED BY <2>0, <4>2 DEF Counted
    <3>6. item_len' \in 0 .. MaxItems
      BY <1>7, <2>2 DEF AddItem, MapInv
    <3>7. ret' \in Replies
      BY <2>2, RepliesAre, ResultsAre
    <3>8. chains' \in [Slots -> Seq(Mappings)] /\ Counted(AllMappings(chains))'
      BY <3>2, <3>3, <3>5 DEF Counted
    <3>9. /\ removal' \in [key : Keys \cup {NULL}, at : 0 .. 1] /\ removal' = None
          /\ open' \in BOOLEAN /\ open'
      BY <2>0 DEF MapInv
    <3> QED BY <3>6, <3>7, <3>8, <3>9 DEF MapInv
  <2> QED BY <1>7, <2>1, <2>2 DEF AddItem, Answer
<1>8. ASSUME NEW k \in Keys, GetItem(k) PROVE MapInv'
  <2>1. Found(k) \in Values \cup {NULL}
    BY FoundIs
  <2>2. ret' \in Replies
    BY <1>8, <2>1, RepliesAre, ResultsAre DEF GetItem, Answer
  <2> QED BY <1>1, <1>8, <2>2 DEF GetItem
<1>9. ASSUME NEW s \in Slots, NEW p \in 1 .. Len(chains[s]), Unlink(s, p),
             open, open' = open, removal' = removal,
             ret' \in Replies
      PROVE  MapInv'
  BY <1>9, UnlinkStep DEF MapInv
<1>10. ASSUME NEW k \in Keys, RemoveFirstOfSlot(k) PROVE MapInv'
  <2>1. /\ open /\ open' = open /\ removal' = removal
        /\ ret' \in Replies
    BY <1>10, RepliesAre, ResultsAre DEF RemoveFirstOfSlot, Callable, Answer
  <2>2. CASE chains[SlotOf[k]] = <<>>
    BY <1>1, <1>10, <2>1, <2>2 DEF RemoveFirstOfSlot
  <2>3. CASE chains[SlotOf[k]] # <<>>
    <3>1. SlotOf[k] \in Slots /\ 1 \in 1 .. Len(chains[SlotOf[k]])
      <4>1. SlotOf[k] \in Slots /\ chains[SlotOf[k]] \in Seq(Mappings)
        BY DEF MapInv
      <4> QED BY <2>3, <4>1, EmptySeq
    <3>2. Unlink(SlotOf[k], 1)
      BY <1>10, <2>3 DEF RemoveFirstOfSlot
    <3> QED BY <1>9, <2>1, <3>1, <3>2
  <2> QED BY <2>2, <2>3
<1>11. ASSUME NEW k \in Keys, RemoveFurther(k) PROVE MapInv'
  <2>1. ret' \in Replies
    BY <1>11, RepliesAre, ResultsAre DEF RemoveFurther, Answer
  <2> QED BY <1>1, <1>11, <2>1 DEF RemoveFurther, Callable
<1>12. CASE RemoveMatch
  <2>1. removal # None /\ removal.key \in Keys /\ removal.at = 1 /\ open
    BY <1>12 DEF RemoveMatch, Removing, MapInv
  <2>2. RemovalSlot \in Slots /\ 1 < Len(chains[RemovalSlot])
    BY <1>12, <2>1 DEF RemoveMatch, IteratorHasNext, RemovalSlot
  <2>3. 2 \in 1 .. Len(chains[RemovalSlot])
    BY <2>2 DEF MapInv
  <2>4. Unlink(RemovalSlot, 2) /\ UNCHANGED <<open, removal, ret>>
    BY <1>12, <2>1 DEF RemoveMatch
  <2>5. ret \in Replies
    BY DEF MapInv
  <2> QED BY <1>9, <2>1, <2>2, <2>3, <2>4, <2>5
<1>13. CASE RemoveReturn
  <2>1. removal.key \in Keys
    BY <1>13 DEF RemoveReturn, Removing, MapInv
  <2>2. ret' \in Replies
    BY <1>13, <2>1, RepliesAre, ResultsAre DEF RemoveReturn, Answer
  <2> QED BY <1>1, <1>13, <2>2 DEF RemoveReturn
<1>14. CASE RemoveMismatch \/ UNCHANGED vars
  <2>1. UNCHANGED <<chains, item_len, open, heap, removal, ret>>
    BY <1>14 DEF RemoveMismatch, vars
  <2> QED BY <1>1, <2>1 DEF MapInv
<1> QED
  BY <1>4, <1>5, <1>6, <1>7, <1>8, <1>10, <1>11, <1>12, <1>13, <1>14 DEF Next

\* item_map_size is the number of mappings in the chains, and the memory the map
\* holds is that of those mappings and of its handle, in the middle of a removal
\* too: whatever the hash function and whichever allocation fails, nothing leaks
\* and nothing is freed twice.
THEOREM MapAccountsForAll == Spec => []Accounting
<1>1. MapInv => Accounting
  <2> SUFFICES ASSUME MapInv PROVE Accounting
    OBVIOUS
  <2>1. AllMappings(chains) \in Nat
    BY DEF MapInv, Counted
  <2>2. heap \in Nat
    BY <2>1 DEF MapInv, Counted, MappingAllocations, HandleAllocations
  <2>3. TypeOK
    BY <2>2 DEF MapInv, TypeOK, Mappings, Replies, Results
  <2> QED BY <2>3 DEF MapInv, Counted, Accounting, AllMappings
<1> QED BY <1>1, MapInit, MapStep, PTL DEF Spec

=============================================================================
