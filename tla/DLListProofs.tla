---------------------------- MODULE DLListProofs ----------------------------
(***************************************************************************)
(* The links of dllist.c are well formed, and the lists are those of module *)
(* Rings, for any number of cells and lists.                               *)
(*                                                                         *)
(* TypeOK and LinksInverse are inductive only together with ListsSeparate: *)
(* a removal writes through fwd[e] and bk[e], which LinksInverse says are  *)
(* the neighbours of e and TypeOK says are in use, and only ListsSeparate  *)
(* shows that the cell dllist_remove_head takes out is not the head of     *)
(* another list.                                                           *)
(*                                                                         *)
(* That Rings is implemented needs in addition that each list is one ring  *)
(* (RingsInv): the sequence of cells met on the way around it witnesses    *)
(* what a walk from the anchor returns, and each call joins two such       *)
(* sequences or drops a cell from one.                                     *)
(***************************************************************************)
EXTENDS MCDLList, FiniteSetTheorems, SequenceTheorems, TLAPS

(* The inductive invariant. *)
WellLinked == TypeOK /\ LinksInverse /\ ListsSeparate

LEMMA InitWellLinked == Init => WellLinked
  BY DEF Init, WellLinked, TypeOK, LinksInverse, ListsSeparate, Ring, Anchor

LEMMA InitListHeadStep ==
    ASSUME WellLinked, NEW h \in Cells, InitListHead(h)
    PROVE  WellLinked'
  <1>1. TypeOK'
    BY NullAssumption DEF WellLinked, TypeOK, LinksInverse, ListsSeparate, Ring, Anchor, InitListHead
  <1>2. LinksInverse'
    BY NullAssumption DEF WellLinked, TypeOK, LinksInverse, ListsSeparate, Ring, Anchor, InitListHead
  <1>3. ListsSeparate'
    BY NullAssumption DEF WellLinked, TypeOK, LinksInverse, ListsSeparate, Ring, Anchor, InitListHead
  <1> QED
    BY <1>1, <1>2, <1>3 DEF WellLinked

LEMMA RemoveEntryStep ==
    ASSUME WellLinked, NEW e \in Cells, RemoveEntry(e)
    PROVE  WellLinked'
  <1>1. TypeOK'
    <2>1. /\ (fwd \in [Cells -> Cells \cup {NULL}])'
          /\ (bk \in [Cells -> Cells \cup {NULL}])'
          /\ (owner \in [Cells -> Cells \cup {NULL}])'
      BY DEF WellLinked, TypeOK, Ring, Anchor, RemoveEntry, LinksAfterRemoval, RemoveEntryResult
    <2>2. (ret \in Cells \cup BOOLEAN \cup {NULL})'
      BY Zenon DEF RemoveEntry, LinksAfterRemoval, RemoveEntryResult
    <2>3. \A c \in Ring' : {fwd'[c], bk'[c]} \subseteq Ring'
      BY NullAssumption DEF WellLinked, TypeOK, LinksInverse, ListsSeparate, Ring, Anchor, RemoveEntry, LinksAfterRemoval, RemoveEntryResult
    <2>4. \A c \in Ring' : owner'[c] \in Anchor'
      BY NullAssumption DEF WellLinked, TypeOK, LinksInverse, ListsSeparate, Ring, Anchor, RemoveEntry, LinksAfterRemoval, RemoveEntryResult
    <2> QED
      BY <2>1, <2>2, <2>3, <2>4 DEF TypeOK
  <1>2. LinksInverse'
    BY NullAssumption DEF WellLinked, TypeOK, LinksInverse, ListsSeparate, Ring, Anchor, RemoveEntry, LinksAfterRemoval, RemoveEntryResult
  <1>3. ListsSeparate'
    BY NullAssumption DEF WellLinked, TypeOK, LinksInverse, ListsSeparate, Ring, Anchor, RemoveEntry, LinksAfterRemoval, RemoveEntryResult
  <1> QED
    BY <1>1, <1>2, <1>3 DEF WellLinked

LEMMA RemoveHeadStep ==
    ASSUME WellLinked, NEW h \in Cells, RemoveHead(h)
    PROVE  WellLinked'
  <1>1. TypeOK'
    BY NullAssumption DEF WellLinked, TypeOK, LinksInverse, ListsSeparate, Ring, Anchor, RemoveHead
  <1>2. LinksInverse'
    BY NullAssumption DEF WellLinked, TypeOK, LinksInverse, ListsSeparate, Ring, Anchor, RemoveHead
  <1>3. ListsSeparate'
    BY NullAssumption DEF WellLinked, TypeOK, LinksInverse, ListsSeparate, Ring, Anchor, RemoveHead
  <1> QED
    BY <1>1, <1>2, <1>3 DEF WellLinked

LEMMA InsertTailStep ==
    ASSUME WellLinked, NEW h \in Cells, NEW e \in Cells, InsertTail(h, e)
    PROVE  WellLinked'
  <1>1. TypeOK'
    BY NullAssumption DEF WellLinked, TypeOK, LinksInverse, ListsSeparate, Ring, Anchor, InsertTail, LinkTail
  <1>2. LinksInverse'
    BY NullAssumption DEF WellLinked, TypeOK, LinksInverse, ListsSeparate, Ring, Anchor, InsertTail, LinkTail
  <1>3. ListsSeparate'
    BY NullAssumption DEF WellLinked, TypeOK, LinksInverse, ListsSeparate, Ring, Anchor, InsertTail, LinkTail
  <1> QED
    BY <1>1, <1>2, <1>3 DEF WellLinked

LEMMA InsertHeadStep ==
    ASSUME WellLinked, NEW h \in Cells, NEW e \in Cells, InsertHead(h, e)
    PROVE  WellLinked'
  <1>1. TypeOK'
    BY NullAssumption DEF WellLinked, TypeOK, LinksInverse, ListsSeparate, Ring, Anchor, InsertHead
  <1>2. LinksInverse'
    BY NullAssumption DEF WellLinked, TypeOK, LinksInverse, ListsSeparate, Ring, Anchor, InsertHead
  <1>3. ListsSeparate'
    BY NullAssumption DEF WellLinked, TypeOK, LinksInverse, ListsSeparate, Ring, Anchor, InsertHead
  <1> QED
    BY <1>1, <1>2, <1>3 DEF WellLinked

LEMMA AppendTailStep ==
    ASSUME WellLinked, NEW h \in Cells, NEW a \in Cells, AppendTail(h, a)
    PROVE  WellLinked'
  <1>1. TypeOK'
    BY NullAssumption DEF WellLinked, TypeOK, LinksInverse, ListsSeparate, Ring, Anchor, AppendTail, Splice
  <1>2. LinksInverse'
    BY NullAssumption DEF WellLinked, TypeOK, LinksInverse, ListsSeparate, Ring, Anchor, AppendTail, Splice
  <1>3. ListsSeparate'
    BY NullAssumption DEF WellLinked, TypeOK, LinksInverse, ListsSeparate, Ring, Anchor, AppendTail, Splice
  <1> QED
    BY <1>1, <1>2, <1>3 DEF WellLinked

\* Every call of dllist.c keeps the rings well linked.
LEMMA StepWellLinked == WellLinked /\ [Next]_vars => WellLinked'
  <1> SUFFICES ASSUME WellLinked, [Next]_vars PROVE WellLinked'
    OBVIOUS
  <1>1. ASSUME NEW h \in Cells, IsEmpty(h) PROVE WellLinked'
    BY <1>1 DEF WellLinked, TypeOK, LinksInverse, ListsSeparate, Ring, Anchor, IsEmpty
  <1>2. CASE UNCHANGED vars
    BY <1>2 DEF WellLinked, TypeOK, LinksInverse, ListsSeparate, Ring, Anchor, vars
  <1>3. CASE Next
    BY <1>1, <1>3, InitListHeadStep, RemoveEntryStep, RemoveHeadStep,
       InsertTailStep, InsertHeadStep, AppendTailStep DEF Next
  <1> QED
    BY <1>2, <1>3

\* In every reachable state both links of every cell in use point at cells in
\* use, are inverse to each other and stay in the list of the cell (all of
\* dllist.c).
THEOREM LinksCorrect == Spec => []RingsWellFormed
  <1>1. WellLinked => RingsWellFormed
    BY DEF WellLinked, RingsWellFormed
  <1> QED
    BY <1>1, InitWellLinked, StepWellLinked, PTL DEF Spec

\* dllist_remove_entry returns TRUE exactly when what is left is one cell linked
\* to itself (dllist.c:29).
THEOREM RemoveEntryAnswerCorrect == Spec => RemoveEntryAnswer
  <1>1. ASSUME WellLinked, NEW e \in Cells, RemoveEntry(e), fwd[e] # e
        PROVE  ret' <=> fwd'[fwd[e]] = fwd[e]
    <2>1. bk[e] # e /\ fwd[e] \in Cells /\ bk[e] \in Cells
      BY <1>1, NullAssumption DEF WellLinked, TypeOK, LinksInverse, Ring, RemoveEntry, LinksAfterRemoval, RemoveEntryResult
    <2>2. CASE fwd[e] = bk[e]
      <3>1. fwd'[fwd[e]] = fwd[e]
        BY <1>1, <2>1, <2>2 DEF WellLinked, TypeOK, Ring, RemoveEntry, LinksAfterRemoval, RemoveEntryResult
      <3>2. ret' = TRUE
        BY <1>1, <2>2 DEF RemoveEntry, LinksAfterRemoval, RemoveEntryResult
      <3> QED
        BY <3>1, <3>2
    <2>3. CASE fwd[e] # bk[e]
      <3>1. fwd'[fwd[e]] = fwd[fwd[e]]
        BY <1>1, <2>1, <2>3 DEF WellLinked, TypeOK, Ring, RemoveEntry, LinksAfterRemoval, RemoveEntryResult
      <3>2. fwd[fwd[e]] # fwd[e]
        BY <1>1, <2>1 DEF WellLinked, TypeOK, LinksInverse, Ring, RemoveEntry, LinksAfterRemoval, RemoveEntryResult
      <3>3. ret' = FALSE
        BY <1>1, <2>3 DEF RemoveEntry, LinksAfterRemoval, RemoveEntryResult
      <3> QED
        BY <3>1, <3>2, <3>3
    <2> QED
      BY <2>2, <2>3
  <1>2. WellLinked /\ [Next]_vars =>
          [\A e \in Cells : RemoveEntry(e) /\ fwd[e] # e =>
              (ret' <=> fwd'[fwd[e]] = fwd[e])]_vars
    BY <1>1
  <1> QED
    BY <1>2, InitWellLinked, StepWellLinked, PTL DEF Spec, RemoveEntryAnswer

-----------------------------------------------------------------------------
(* The rings as sequences                                                      *)

\* r goes once around the ring of anchor a along fwd, meeting its n other cells.
Ringed(a, r, n) ==
    /\ r[0] = a
    /\ \A i \in 0 .. n : fwd[r[i]] = IF i = n THEN a ELSE r[i + 1]
    /\ \A i, j \in 0 .. n : r[i] = r[j] => i = j
    /\ {c \in Cells : owner[c] = a} = {r[i] : i \in 0 .. n}

\* Every list is one ring: WellLinked allows a list to fall into several, of which
\* a walk from its anchor would meet only one.
RingsInv ==
    /\ WellLinked
    /\ \A a \in Anchor : \E n \in Nat : \E r \in [0 .. n -> Cells] : Ringed(a, r, n)

\* The cells behind the anchor.
Rest(r, n) == [i \in 1 .. n |-> r[i]]

LEMMA LeastNat ==
    ASSUME NEW T \in SUBSET Nat, T # {}
    PROVE  \E n \in T : \A m \in T : n <= m
<1>1. \E n \in T : \A m \in T : ~ (<<m, n>> \in OpToRel(<, Nat))
  BY NatLessThanWellFounded, WFMin, Zenon
<1>2. ASSUME NEW n \in T, NEW m \in T, ~ (<<m, n>> \in OpToRel(<, Nat)) PROVE n <= m
  <2>1. ~ (m < n)
    BY <1>2 DEF OpToRel
  <2> QED
    BY <2>1
<1> QED
  BY <1>1, <1>2

LEMMA MinIsLeast ==
    ASSUME NEW T \in SUBSET Nat, NEW n \in T, \A m \in T : n <= m
    PROVE  Min(T) = n
<1>1. Min(T) \in T /\ \A m \in T : Min(T) <= m
  BY DEF Min
<1>2. n \in Nat /\ Min(T) \in Nat /\ Min(T) <= n /\ n <= Min(T)
  BY <1>1
<1> QED
  BY <1>2

LEMMA RestIs ==
    ASSUME NEW n \in Nat, NEW r \in [0 .. n -> Cells]
    PROVE  /\ Rest(r, n) \in Seq(Cells) /\ Len(Rest(r, n)) = n
           /\ DOMAIN Rest(r, n) = 1 .. n /\ \A i \in 1 .. n : Rest(r, n)[i] = r[i]
  BY DEF Rest

\* A ring has at most as many cells as there are.
LEMMA FewerThanCells ==
    ASSUME NEW n \in Nat, NEW r \in [0 .. n -> Cells], \A i, j \in 0 .. n : r[i] = r[j] => i = j
    PROVE  n < Cardinality(Cells) /\ Cardinality(Cells) \in Nat
<1>1. r \in Injection(0 .. n, Cells)
  BY DEF Injection, IsInjective
<1>2. Cardinality(0 .. n) = n + 1
  BY FS_Interval
<1>3. Cardinality(0 .. n) <= Cardinality(Cells) /\ Cardinality(Cells) \in Nat
  BY <1>1, NullAssumption, FS_Injection, FS_CardinalityType
<1> QED
  BY <1>2, <1>3

\* The walk from the anchor meets the cells of the ring in order.
LEMMA WalkIs ==
    ASSUME NEW a \in Cells, NEW n \in Nat, NEW r \in [0 .. n -> Cells], Ringed(a, r, n)
    PROVE  /\ DOMAIN Walk(a) = 0 .. Cardinality(Cells)
           /\ \A k \in 0 .. Cardinality(Cells) :
                 Walk(a)[k] = IF k < n THEN r[k + 1] ELSE a
<1> DEFINE N == Cardinality(Cells)
           F == [k \in 0 .. N |-> IF k < n THEN r[k + 1] ELSE a]
           w == Walk(a)
<1>0. N \in Nat /\ n < N /\ NULL \notin Cells
  BY FewerThanCells, NullAssumption DEF Ringed
<1> HIDE DEF N
<1>1. F = [k \in 0 .. N |-> IF k = 0 THEN fwd[a]
                            ELSE IF F[k - 1] \in {a, NULL} THEN F[k - 1] ELSE fwd[F[k - 1]]]
  <2> SUFFICES ASSUME NEW k \in 0 .. N
               PROVE  F[k] = IF k = 0 THEN fwd[a]
                             ELSE IF F[k - 1] \in {a, NULL} THEN F[k - 1] ELSE fwd[F[k - 1]]
    OBVIOUS
  <2>1. CASE k = 0
    BY <1>0, <2>1 DEF Ringed
  <2>2. CASE k # 0 /\ k - 1 < n
    <3>1. k - 1 \in 0 .. N /\ F[k - 1] = r[k] /\ k \in 0 .. n
      BY <1>0, <2>2
    <3>2. fwd[r[k]] = IF k = n THEN a ELSE r[k + 1]
      BY <3>1 DEF Ringed
    <3>3. r[k] \notin {a, NULL}
      BY <1>0, <2>2, <3>1 DEF Ringed
    <3>4. F[k] = IF k = n THEN a ELSE r[k + 1]
      BY <3>1
    <3> HIDE DEF F
    <3> QED
      BY <2>2, <3>1, <3>2, <3>3, <3>4
  <2>3. CASE k # 0 /\ ~ (k - 1 < n)
    <3>1. k - 1 \in 0 .. N /\ F[k - 1] = a /\ F[k] = a
      BY <1>0, <2>3
    <3> QED
      BY <2>3, <3>1
  <2> QED
    BY <2>1, <2>2, <2>3
<1>2. w = [k \in 0 .. N |-> IF k = 0 THEN fwd[a]
                            ELSE IF w[k - 1] \in {a, NULL} THEN w[k - 1] ELSE fwd[w[k - 1]]]
  <2> HIDE DEF F
  <2> QED
    BY <1>1, Zenon DEF Walk, N
<1> HIDE DEF w
<1>3. ASSUME NEW k \in 0 .. N, w[k] # F[k] PROVE FALSE
  <2> DEFINE T == {m \in 0 .. N : w[m] # F[m]}
  <2>1. PICK m \in T : \A l \in T : m <= l
    <3>1. T \in SUBSET Nat /\ k \in T
      BY <1>0, <1>3
    <3> HIDE DEF T
    <3> QED
      BY <3>1, LeastNat
  <2>2. m # 0
    BY <1>1, <1>2, <2>1
  <2>3. m - 1 \in 0 .. N /\ w[m - 1] = F[m - 1]
    BY <1>0, <2>1, <2>2
  <2> HIDE DEF F
  <2> QED
    BY <1>1, <1>2, <2>1, <2>2, <2>3
<1>4. DOMAIN w = 0 .. N
  BY <1>2
<1> QED
  BY <1>3, <1>4 DEF N, w

\* What a caller sees of a ring.
LEMMA ContentIs ==
    ASSUME NEW a \in Cells, NEW n \in Nat, NEW r \in [0 .. n -> Cells], Ringed(a, r, n)
    PROVE  Content(a) = Rest(r, n)
<1> DEFINE N == Cardinality(Cells)
           B == {k \in DOMAIN Walk(a) : Walk(a)[k] = a} \cup {N}
<1>0. N \in Nat /\ n < N
  BY FewerThanCells DEF Ringed
<1>1. DOMAIN Walk(a) = 0 .. N /\ \A k \in 0 .. N : Walk(a)[k] = IF k < n THEN r[k + 1] ELSE a
  BY WalkIs
<1>2. B \in SUBSET Nat /\ n \in B
  BY <1>0, <1>1
<1>3. \A k \in B : n <= k
  <2> SUFFICES ASSUME NEW k \in 0 .. N, k < n, Walk(a)[k] = a PROVE FALSE
    BY <1>0, <1>1
  <2>1. r[k + 1] = r[0] /\ k + 1 \in 0 .. n
    BY <1>1 DEF Ringed
  <2> QED
    BY <2>1 DEF Ringed
<1>4. Min(B) = n
  <2> HIDE DEF B
  <2> QED
    BY <1>2, <1>3, MinIsLeast
<1>5. Content(a) = [i \in 1 .. n |-> Walk(a)[i - 1]]
  BY <1>4 DEF Content
<1>6. \A i \in 1 .. n : Walk(a)[i - 1] = r[i]
  BY <1>0, <1>1
<1> QED
  BY <1>5, <1>6 DEF Rest

\* The same of the next state.
LEMMA NextContentIs ==
    (\A a \in Cells : \A n \in Nat : \A r \in [0 .. n -> Cells] :
        Ringed(a, r, n) => Content(a) = Rest(r, n))'
<1>1. \A a \in Cells : \A n \in Nat : \A r \in [0 .. n -> Cells] :
          Ringed(a, r, n) => Content(a) = Rest(r, n)
  BY ContentIs
<1> QED BY <1>1, PTL

\* bk leads around the ring the other way.
LEMMA BackIs ==
    ASSUME WellLinked, NEW a \in Anchor, NEW n \in Nat, NEW r \in [0 .. n -> Cells], Ringed(a, r, n)
    PROVE  \A i \in 0 .. n : bk[r[i]] = IF i = 0 THEN r[n] ELSE r[i - 1]
<1>1. \A i \in 0 .. n : r[i] \in Ring
  <2>1. a # NULL
    BY NullAssumption DEF Anchor
  <2> QED BY <2>1 DEF Ringed, Ring
<1>2. CASE n = 0
  BY <1>1, <1>2 DEF Ringed, WellLinked, LinksInverse
<1>3. ASSUME NEW i \in 0 .. n, i # 0 PROVE bk[r[i]] = r[i - 1]
  <2>1. i - 1 \in 0 .. n /\ i - 1 # n /\ (i - 1) + 1 = i
    BY <1>3
  <2>2. fwd[r[i - 1]] = r[i]
    BY <2>1 DEF Ringed
  <2> QED BY <1>1, <2>1, <2>2 DEF WellLinked, LinksInverse
<1>4. bk[r[0]] = r[n]
  <2>1. n \in 0 .. n /\ fwd[r[n]] = r[0]
    BY DEF Ringed
  <2> QED BY <1>1, <2>1 DEF WellLinked, LinksInverse
<1> QED BY <1>3, <1>4

\* A list that a call leaves alone.
LEMMA SameRing ==
    ASSUME NEW a \in Cells, NEW n \in Nat, NEW r \in [0 .. n -> Cells], Ringed(a, r, n),
           \A c \in Cells : owner[c] = a => fwd'[c] = fwd[c],
           \A c \in Cells : owner'[c] = a <=> owner[c] = a
    PROVE  Ringed(a, r, n)' /\ Content(a)' = Content(a)
<1>1. \A i \in 0 .. n : r[i] \in Cells /\ owner[r[i]] = a
  BY DEF Ringed
<1>2. Ringed(a, r, n)'
  BY <1>1 DEF Ringed
<1> QED BY <1>2, ContentIs, NextContentIs

-----------------------------------------------------------------------------
(* Joining two rings and taking a cell out of one                              *)

\* The cells of r and then those of q.
Join(r, n, q, m) == [i \in 0 .. n + m + 1 |-> IF i <= n THEN r[i] ELSE q[i - (n + 1)]]

LEMMA JoinIs ==
    ASSUME NEW n \in Nat, NEW r \in [0 .. n -> Cells], NEW m \in Nat, NEW q \in [0 .. m -> Cells]
    PROVE  /\ Join(r, n, q, m) \in [0 .. n + m + 1 -> Cells]
           /\ \A i \in 0 .. n : Join(r, n, q, m)[i] = r[i]
           /\ \A i \in n + 1 .. n + m + 1 : Join(r, n, q, m)[i] = q[i - (n + 1)]
           /\ Rest(Join(r, n, q, m), n + m + 1) = Rest(r, n) \o <<q[0]>> \o Rest(q, m)
<1> DEFINE t == Join(r, n, q, m)
           u == Rest(r, n) \o <<q[0]>>
           v == u \o Rest(q, m)
<1>1. /\ t \in [0 .. n + m + 1 -> Cells]
      /\ \A i \in 0 .. n : t[i] = r[i]
      /\ \A i \in n + 1 .. n + m + 1 : t[i] = q[i - (n + 1)]
  <2>1. ASSUME NEW i \in 0 .. n + m + 1, ~(i <= n) PROVE i - (n + 1) \in 0 .. m
    BY <2>1
  <2> QED BY <2>1 DEF Join
<1> HIDE DEF t
<1>2. n + m + 1 \in Nat /\ q[0] \in Cells
  OBVIOUS
<1>3. /\ Rest(t, n + m + 1) \in Seq(Cells) /\ Len(Rest(t, n + m + 1)) = n + m + 1
      /\ \A i \in 1 .. n + m + 1 : Rest(t, n + m + 1)[i] = t[i]
  BY <1>1, <1>2, RestIs
<1>4. /\ Rest(r, n) \in Seq(Cells) /\ Len(Rest(r, n)) = n
      /\ \A i \in 1 .. n : Rest(r, n)[i] = r[i]
  BY RestIs
<1>5. /\ Rest(q, m) \in Seq(Cells) /\ Len(Rest(q, m)) = m
      /\ \A i \in 1 .. m : Rest(q, m)[i] = q[i]
  BY RestIs
<1>6. <<q[0]>> \in Seq(Cells) /\ Len(<<q[0]>>) = 1 /\ <<q[0]>>[1] = q[0]
  BY <1>2
<1>7. /\ u \in Seq(Cells) /\ Len(u) = n + 1
      /\ \A i \in 1 .. n + 1 : u[i] = IF i <= n THEN r[i] ELSE q[0]
  <2>1. /\ u \in Seq(Cells) /\ Len(u) = Len(Rest(r, n)) + Len(<<q[0]>>)
        /\ \A i \in 1 .. Len(Rest(r, n)) + Len(<<q[0]>>) :
              u[i] = IF i <= Len(Rest(r, n)) THEN Rest(r, n)[i] ELSE <<q[0]>>[i - Len(Rest(r, n))]
    BY <1>4, <1>6, ConcatProperties, Zenon
  <2> HIDE DEF u
  <2>2. ASSUME NEW i \in 1 .. n + 1 PROVE u[i] = IF i <= n THEN r[i] ELSE q[0]
    <3>1. i <= n => u[i] = r[i]
      BY <1>4, <1>6, <2>1
    <3>2. ~(i <= n) => i - n = 1 /\ u[i] = <<q[0]>>[i - n]
      BY <1>4, <1>6, <2>1
    <3> QED BY <1>6, <3>1, <3>2
  <2> QED BY <1>4, <1>6, <2>1, <2>2
<1> HIDE DEF u
<1>8. /\ v \in Seq(Cells) /\ Len(v) = n + m + 1
      /\ \A i \in 1 .. n + m + 1 : v[i] = t[i]
  <2>1. /\ v \in Seq(Cells) /\ Len(v) = Len(u) + Len(Rest(q, m))
        /\ \A i \in 1 .. Len(u) + Len(Rest(q, m)) :
              v[i] = IF i <= Len(u) THEN u[i] ELSE Rest(q, m)[i - Len(u)]
    BY <1>5, <1>7, ConcatProperties, Zenon
  <2> HIDE DEF v
  <2>2. ASSUME NEW i \in 1 .. n + m + 1 PROVE v[i] = t[i]
    <3>1. CASE i <= n
      BY <1>1, <1>5, <1>7, <2>1, <3>1
    <3>2. CASE i = n + 1
      <4>1. v[i] = q[0] /\ i - (n + 1) = 0 /\ i \in n + 1 .. n + m + 1
        BY <1>5, <1>7, <2>1, <3>2
      <4> QED BY <1>1, <4>1
    <3>3. CASE i > n + 1
      <4>1. i - (n + 1) \in 1 .. m /\ i \in n + 1 .. n + m + 1
        BY <3>3
      <4>2. v[i] = Rest(q, m)[i - (n + 1)]
        BY <1>5, <1>7, <2>1, <3>3
      <4> QED BY <1>1, <1>5, <4>1, <4>2
    <3> QED BY <3>1, <3>2, <3>3
  <2> QED BY <1>5, <1>7, <2>1, <2>2
<1> HIDE DEF v
<1>9. Rest(t, n + m + 1) = v
  <2>1. \A i \in 1 .. Len(Rest(t, n + m + 1)) : Rest(t, n + m + 1)[i] = v[i]
    BY <1>3, <1>8
  <2> QED BY <1>3, <1>8, <2>1, SeqEqual
<1> QED BY <1>1, <1>9 DEF t, u, v

\* A call that links the last cell of r to the first of q, and back, under head h.
Joins(h, r, n, q, m) ==
    /\ h \in Cells /\ n \in Nat /\ r \in [0 .. n -> Cells] /\ m \in Nat /\ q \in [0 .. m -> Cells]
    /\ r[0] = h
    /\ \A i, j \in 0 .. n : r[i] = r[j] => i = j
    /\ \A i, j \in 0 .. m : q[i] = q[j] => i = j
    /\ \A i \in 0 .. n, j \in 0 .. m : r[i] # q[j]
    /\ \A i \in 0 .. n : fwd'[r[i]] = IF i = n THEN q[0] ELSE r[i + 1]
    /\ \A i \in 0 .. m : fwd'[q[i]] = IF i = m THEN h ELSE q[i + 1]
    /\ \A c \in Cells : owner'[c] = h <=>
          (\E i \in 0 .. n : c = r[i]) \/ (\E i \in 0 .. m : c = q[i])

\* It makes one ring of both.
LEMMA JoinedRing ==
    ASSUME NEW h, NEW n, NEW r, NEW m, NEW q, Joins(h, r, n, q, m)
    PROVE  /\ \E k \in Nat : \E t \in [0 .. k -> Cells] : Ringed(h, t, k)'
           /\ Content(h)' = Rest(r, n) \o <<q[0]>> \o Rest(q, m)
<1> h \in Cells /\ n \in Nat /\ r \in [0 .. n -> Cells] /\ m \in Nat /\ q \in [0 .. m -> Cells]
  BY DEF Joins
<1>j. /\ Join(r, n, q, m) \in [0 .. n + m + 1 -> Cells]
      /\ \A i \in 0 .. n : Join(r, n, q, m)[i] = r[i]
      /\ \A i \in n + 1 .. n + m + 1 : Join(r, n, q, m)[i] = q[i - (n + 1)]
      /\ Rest(Join(r, n, q, m), n + m + 1) = Rest(r, n) \o <<q[0]>> \o Rest(q, m)
  <2>1. n \in Nat /\ m \in Nat /\ r \in [0 .. n -> Cells] /\ q \in [0 .. m -> Cells]
    OBVIOUS
  <2> QED BY ONLY JoinIs, <2>1, ZenonT(30)
<1> DEFINE t == Join(r, n, q, m)
           l == n + m + 1
<1>0. l \in Nat /\ \A i \in n + 1 .. l : i - (n + 1) \in 0 .. m
  OBVIOUS
<1>1. /\ t \in [0 .. l -> Cells]
      /\ \A i \in 0 .. n : t[i] = r[i]
      /\ \A i \in n + 1 .. l : t[i] = q[i - (n + 1)]
  BY <1>j
<1>r. Rest(t, l) = Rest(r, n) \o <<q[0]>> \o Rest(q, m)
  BY <1>j
<1> HIDE DEF t
<1> USE DEF Joins
<1>2. t[0] = h
  <2>1. 0 \in 0 .. n
    OBVIOUS
  <2> QED BY <1>1, <2>1
<1>3. ASSUME NEW i \in 0 .. l PROVE fwd'[t[i]] = IF i = l THEN h ELSE t[i + 1]
  <2>1. CASE i < n
    BY <1>1, <2>1
  <2>2. CASE i = n
    <3>1. i + 1 \in n + 1 .. l /\ (i + 1) - (n + 1) = 0 /\ i # l
      BY <2>2
    <3> QED BY <1>1, <2>2, <3>1
  <2>3. CASE i > n
    <3>1. i \in n + 1 .. l /\ i - (n + 1) \in 0 .. m
      BY <2>3
    <3>2. fwd'[t[i]] = IF i - (n + 1) = m THEN h ELSE q[(i - (n + 1)) + 1]
      BY <1>1, <3>1
    <3>3. i # l => i + 1 \in n + 1 .. l /\ (i + 1) - (n + 1) = (i - (n + 1)) + 1 /\ i - (n + 1) # m
      BY <2>3
    <3>4. i = l => i - (n + 1) = m
      OBVIOUS
    <3> QED BY <1>1, <3>2, <3>3, <3>4
  <2> QED BY <2>1, <2>2, <2>3
<1>4. \A i, j \in 0 .. l : t[i] = t[j] => i = j
  <2> SUFFICES ASSUME NEW i \in 0 .. l, NEW j \in 0 .. l, t[i] = t[j] PROVE i = j
    OBVIOUS
  <2>1. CASE i <= n /\ j <= n
    BY <1>1, <2>1
  <2>2. CASE i <= n /\ j > n
    BY <1>0, <1>1, <2>2
  <2>3. CASE i > n /\ j <= n
    BY <1>0, <1>1, <2>3
  <2>4. CASE i > n /\ j > n
    <3>1. i - (n + 1) \in 0 .. m /\ j - (n + 1) \in 0 .. m
      BY <2>4
    <3>2. q[i - (n + 1)] = q[j - (n + 1)]
      <4>1. i \in n + 1 .. l /\ j \in n + 1 .. l
        BY <2>4
      <4>2. t[i] = q[i - (n + 1)] /\ t[j] = q[j - (n + 1)]
        BY <1>1, <4>1
      <4> QED BY <4>2
    <3>3. i - (n + 1) = j - (n + 1)
      BY <3>1, <3>2
    <3> QED BY <3>3
  <2> QED BY <2>1, <2>2, <2>3, <2>4
<1>5. {c \in Cells : owner'[c] = h} = {t[i] : i \in 0 .. l}
  <2>1. ASSUME NEW i \in 0 .. m PROVE i + (n + 1) \in n + 1 .. l /\ t[i + (n + 1)] = q[i]
    <3>1. i + (n + 1) \in n + 1 .. l /\ (i + (n + 1)) - (n + 1) = i
      OBVIOUS
    <3> QED BY <1>1, <3>1
  <2>2. ASSUME NEW c \in Cells, owner'[c] = h PROVE \E i \in 0 .. l : c = t[i]
    <3>1. CASE \E i \in 0 .. n : c = r[i]
      BY <1>1, <3>1
    <3>2. CASE \E i \in 0 .. m : c = q[i]
      <4>1. PICK i \in 0 .. m : c = q[i]
        BY <3>2
      <4>2. i + (n + 1) \in 0 .. l /\ c = t[i + (n + 1)]
        BY <2>1, <4>1
      <4> QED BY <4>2
    <3> QED BY <2>2, <3>1, <3>2
  <2>3. ASSUME NEW i \in 0 .. l PROVE t[i] \in Cells /\ owner'[t[i]] = h
    <3>1. CASE i <= n
      BY <1>1, <3>1
    <3>2. CASE i > n
      BY <1>0, <1>1, <3>2
    <3> QED BY <3>1, <3>2
  <2>4. {c \in Cells : owner'[c] = h} \subseteq {t[i] : i \in 0 .. l}
    BY <2>2
  <2>5. {t[i] : i \in 0 .. l} \subseteq {c \in Cells : owner'[c] = h}
    BY <2>3
  <2> QED BY <2>4, <2>5
<1>6. Ringed(h, t, l)'
  BY <1>2, <1>3, <1>4, <1>5 DEF Ringed
<1>7. Content(h)' = Rest(t, l)
  BY <1>0, <1>1, <1>6, NextContentIs
<1> QED BY <1>0, <1>1, <1>r, <1>6, <1>7

\* The cells of r without the one at position p.
Drop(r, n, p) == [i \in 0 .. n - 1 |-> IF i < p THEN r[i] ELSE r[i + 1]]

\* A call that links the neighbours of the cell at p of r, leaving a list held by
\* h: p = 0 takes out the anchor, whose place r[1] takes.
Drops(h, r, n, p) ==
    /\ n \in Nat \ {0} /\ r \in [0 .. n -> Cells] /\ p \in 0 .. n
    /\ h = IF p = 0 THEN r[1] ELSE r[0]
    /\ \A i, j \in 0 .. n : r[i] = r[j] => i = j
    /\ \A i \in 0 .. n : i # p =>
          fwd'[r[i]] = IF i + 1 = p THEN (IF p = n THEN h ELSE r[p + 1])
                       ELSE IF i = n THEN h ELSE r[i + 1]
    /\ \A c \in Cells : owner'[c] = h <=> \E i \in 0 .. n : i # p /\ c = r[i]

LEMMA DroppedRing ==
    ASSUME NEW h, NEW r, NEW n, NEW p, Drops(h, r, n, p)
    PROVE  /\ \E k \in Nat : \E t \in [0 .. k -> Cells] : Ringed(h, t, k)'
           /\ h \in Cells /\ Content(h)' = Rest(Drop(r, n, p), n - 1)
<1> DEFINE t == Drop(r, n, p)
           at(i) == IF i < p THEN i ELSE i + 1
<1> n \in Nat \ {0} /\ r \in [0 .. n -> Cells] /\ p \in 0 .. n
  BY DEF Drops
<1>0. n - 1 \in Nat
  OBVIOUS
<1>1. \A i \in 0 .. n - 1 : at(i) \in 0 .. n /\ at(i) # p /\ t[i] = r[at(i)]
  BY DEF Drop
<1>2. t \in [0 .. n - 1 -> Cells]
  BY DEF Drop
<1> HIDE DEF t
<1> USE DEF Drops
<1>3. t[0] = h /\ h \in Cells
  <2>1. 0 \in 0 .. n - 1 /\ 1 \in 0 .. n
    OBVIOUS
  <2>2. t[0] = h
    BY <1>1, <2>1
  <2> QED BY <1>2, <2>1, <2>2
<1>4. ASSUME NEW i \in 0 .. n - 1 PROVE fwd'[t[i]] = IF i = n - 1 THEN h ELSE t[i + 1]
  <2>1. CASE i + 1 < p
    <3>1. i \in 0 .. n /\ i # p /\ i + 1 # p /\ i # n /\ i # n - 1 /\ i + 1 \in 0 .. n - 1
      BY <2>1
    <3>2. t[i] = r[i] /\ t[i + 1] = r[i + 1]
      BY <1>1, <2>1, <3>1
    <3> QED BY <3>1, <3>2
  <2>2. CASE i + 1 = p
    <3>1. i \in 0 .. n /\ i # p /\ t[i] = r[i]
      BY <1>1, <2>2
    <3>2. fwd'[t[i]] = IF p = n THEN h ELSE r[p + 1]
      BY <2>2, <3>1
    <3>3. p = n <=> i = n - 1
      BY <2>2
    <3>4. p # n => i + 1 \in 0 .. n - 1 /\ t[i + 1] = r[p + 1]
      BY <1>1, <2>2
    <3> QED BY <3>2, <3>3, <3>4
  <2>3. CASE i >= p
    <3>1. i + 1 \in 0 .. n /\ i + 1 # p /\ (i + 1) + 1 # p /\ t[i] = r[i + 1]
      BY <1>1, <2>3
    <3>2. fwd'[t[i]] = IF i + 1 = n THEN h ELSE r[(i + 1) + 1]
      BY <3>1
    <3>3. i # n - 1 => i + 1 \in 0 .. n - 1 /\ t[i + 1] = r[(i + 1) + 1]
      BY <1>1, <2>3
    <3>4. i = n - 1 <=> i + 1 = n
      OBVIOUS
    <3> QED BY <3>2, <3>3, <3>4
  <2> QED BY <2>1, <2>2, <2>3
<1>5. \A i, j \in 0 .. n - 1 : t[i] = t[j] => i = j
  <2> SUFFICES ASSUME NEW i \in 0 .. n - 1, NEW j \in 0 .. n - 1, t[i] = t[j] PROVE i = j
    OBVIOUS
  <2>1. at(i) = at(j)
    <3>1. at(i) \in 0 .. n /\ at(j) \in 0 .. n /\ r[at(i)] = r[at(j)]
      BY <1>1
    <3> HIDE DEF at
    <3> QED BY <3>1
  <2> QED BY <2>1
<1>6. \A j \in 0 .. n : j # p => \E i \in 0 .. n - 1 : t[i] = r[j]
  <2> SUFFICES ASSUME NEW j \in 0 .. n, j # p PROVE \E i \in 0 .. n - 1 : t[i] = r[j]
    OBVIOUS
  <2>1. CASE j < p
    <3>1. j \in 0 .. n - 1 /\ at(j) = j
      BY <2>1
    <3> QED BY <1>1, <3>1
  <2>2. CASE j > p
    <3>1. j - 1 \in 0 .. n - 1 /\ at(j - 1) = j
      BY <2>2
    <3>2. t[j - 1] = r[j]
      BY <1>1, <3>1
    <3> QED BY <3>1, <3>2
  <2> QED BY <2>1, <2>2
<1>7. {c \in Cells : owner'[c] = h} = {t[i] : i \in 0 .. n - 1}
  <2>1. ASSUME NEW c \in Cells, owner'[c] = h PROVE c \in {t[i] : i \in 0 .. n - 1}
    <3>1. PICK j \in 0 .. n : j # p /\ c = r[j]
      BY <2>1
    <3>2. PICK i \in 0 .. n - 1 : t[i] = r[j]
      BY <1>6, <3>1
    <3> QED BY <3>1, <3>2
  <2>2. ASSUME NEW i \in 0 .. n - 1 PROVE t[i] \in Cells /\ owner'[t[i]] = h
    <3> DEFINE j == at(i)
    <3>1. j \in 0 .. n /\ j # p /\ t[i] = r[j] /\ t[i] \in Cells
      BY <1>1, <1>2
    <3> HIDE DEF j
    <3>2. \E k \in 0 .. n : k # p /\ t[i] = r[k]
      BY <3>1
    <3> QED BY <3>1, <3>2
  <2>3. {c \in Cells : owner'[c] = h} \subseteq {t[i] : i \in 0 .. n - 1}
    BY <2>1
  <2>4. {t[i] : i \in 0 .. n - 1} \subseteq {c \in Cells : owner'[c] = h}
    BY <2>2
  <2> QED BY <2>3, <2>4
<1>8. Ringed(h, t, n - 1)'
  BY <1>3, <1>4, <1>5, <1>7 DEF Ringed
<1>9. Content(h)' = Rest(t, n - 1)
  BY <1>0, <1>2, <1>3, <1>8, NextContentIs
<1> QED BY <1>0, <1>2, <1>3, <1>8, <1>9 DEF t

\* What is left of the sequence of the others.
LEMMA DropIs ==
    ASSUME NEW n \in Nat \ {0}, NEW r \in [0 .. n -> Cells], NEW p \in 0 .. n
    PROVE  /\ p # 0 => Rest(Drop(r, n, p), n - 1) = R!RemoveAt(Rest(r, n), p)
           /\ p \in {0, 1} => Rest(Drop(r, n, p), n - 1) = Tail(Rest(r, n))
<1> DEFINE s == Rest(r, n)
           t == Rest(Drop(r, n, p), n - 1)
<1>0. n - 1 \in Nat /\ Drop(r, n, p) \in [0 .. n - 1 -> Cells]
  BY DEF Drop
<1>1. s \in Seq(Cells) /\ Len(s) = n /\ \A i \in 1 .. n : s[i] = r[i]
  BY RestIs
<1>2. t \in Seq(Cells) /\ Len(t) = n - 1 /\ \A i \in 1 .. n - 1 : t[i] = Drop(r, n, p)[i]
  BY <1>0, RestIs
<1>3. \A i \in 1 .. n - 1 : t[i] = IF i < p THEN s[i] ELSE s[i + 1]
  <2> SUFFICES ASSUME NEW i \in 1 .. n - 1 PROVE t[i] = IF i < p THEN s[i] ELSE s[i + 1]
    OBVIOUS
  <2>1. i \in 0 .. n - 1 /\ i \in 1 .. n /\ i + 1 \in 1 .. n
    OBVIOUS
  <2>2. Drop(r, n, p)[i] = IF i < p THEN r[i] ELSE r[i + 1]
    BY <2>1 DEF Drop
  <2>3. t[i] = Drop(r, n, p)[i] /\ s[i] = r[i] /\ s[i + 1] = r[i + 1]
    BY <1>1, <1>2, <2>1
  <2> QED BY <2>2, <2>3
<1> HIDE DEF s, t
<1>4. ASSUME p \in {0, 1} PROVE t = Tail(s)
  <2>1. s # <<>>
    BY <1>1
  <2>2. /\ Tail(s) \in Seq(Cells) /\ Len(Tail(s)) = n - 1
        /\ \A i \in 1 .. Len(Tail(s)) : Tail(s)[i] = s[i + 1]
    BY <1>1, <2>1, HeadTailProperties
  <2>3. \A i \in 1 .. Len(t) : t[i] = Tail(s)[i]
    BY <1>2, <1>3, <1>4, <2>2
  <2> QED BY <1>2, <2>2, <2>3, SeqEqual
<1>5. ASSUME p # 0 PROVE t = R!RemoveAt(s, p)
  <2>1. p \in 1 .. n
    BY <1>5
  <2> DEFINE before == SubSeq(s, 1, p - 1)
             after == SubSeq(s, p + 1, Len(s))
             u == before \o after
  <2>2. /\ before \in Seq(Cells) /\ Len(before) = p - 1
        /\ \A j \in 1 .. p - 1 : before[j] = s[j]
    <3>1. \A i \in 1 .. p - 1 : s[i] \in Cells
      BY <1>1, <2>1, ElementOfSeq
    <3> QED BY <2>1, <3>1, SubSeqProperties
  <2>3. /\ after \in Seq(Cells) /\ Len(after) = n - p
        /\ \A j \in 1 .. n - p : after[j] = s[p + j]
    <3>1. \A i \in p + 1 .. n : s[i] \in Cells
      BY <1>1, <2>1, ElementOfSeq
    <3> QED BY <1>1, <2>1, <3>1, SubSeqProperties
  <2> HIDE DEF before, after
  <2>4. /\ u \in Seq(Cells) /\ Len(u) = Len(before) + Len(after)
        /\ \A j \in 1 .. Len(before) + Len(after) :
              u[j] = IF j <= Len(before) THEN before[j] ELSE after[j - Len(before)]
    BY <2>2, <2>3, ConcatProperties, ZenonT(30)
  <2> HIDE DEF u
  <2>5. Len(u) = n - 1
    BY <2>1, <2>2, <2>3, <2>4
  <2>6. ASSUME NEW i \in 1 .. n - 1 PROVE t[i] = u[i]
    <3>0. i \in 1 .. Len(before) + Len(after) /\ Len(before) = p - 1
      BY <2>1, <2>2, <2>3
    <3>1. CASE i < p
      <4>1. i \in 1 .. p - 1 /\ i <= Len(before)
        BY <2>1, <3>0, <3>1
      <4>2. u[i] = before[i]
        BY <2>4, <3>0, <4>1
      <4> QED BY <1>3, <2>2, <3>1, <4>1, <4>2
    <3>2. CASE ~(i < p)
      <4>1. i - (p - 1) \in 1 .. n - p /\ p + (i - (p - 1)) = i + 1 /\ ~(i <= Len(before))
        BY <2>1, <3>0, <3>2
      <4>2. u[i] = after[i - (p - 1)]
        BY <2>4, <3>0, <4>1
      <4> QED BY <1>3, <2>3, <3>2, <4>1, <4>2
    <3> QED BY <3>1, <3>2
  <2>7. t = u
    BY <1>2, <2>4, <2>5, <2>6, SeqEqual
  <2> QED BY <2>7 DEF R!RemoveAt, u, before, after
<1> QED BY <1>4, <1>5 DEF s, t

-----------------------------------------------------------------------------
(* Every call of dllist.c is a step of Rings                                   *)

LEMMA ContentsAre ==
    /\ Contents = [a \in Anchor |-> Content(a)] /\ DOMAIN Contents = Anchor
    /\ \A a \in Anchor : Contents[a] = Content(a)
    /\ Contents' = [a \in Anchor' |-> Content(a)']
  BY DEF Contents

\* The ring of an anchor, its sequence, and the links of its cells.
Around(a, r, n) ==
    /\ Ringed(a, r, n) /\ r[0] = a
    /\ Contents[a] = Rest(r, n)
    /\ Contents[a] \in Seq(Cells) /\ Len(Contents[a]) = n
    /\ \A i \in 1 .. n : Contents[a][i] = r[i]
    /\ \A i \in 0 .. n : r[i] \in Ring /\ owner[r[i]] = a
    /\ \A i, j \in 0 .. n : r[i] = r[j] => i = j
    /\ \A i \in 0 .. n : fwd[r[i]] = IF i = n THEN a ELSE r[i + 1]
    /\ \A i \in 0 .. n : bk[r[i]] = IF i = 0 THEN r[n] ELSE r[i - 1]
    /\ bk[a] = r[n]
    /\ \A c \in Cells : owner[c] = a <=> \E i \in 0 .. n : c = r[i]

LEMMA RingOf ==
    ASSUME RingsInv, NEW a \in Anchor
    PROVE  \E n \in Nat : \E r \in [0 .. n -> Cells] : Around(a, r, n)
<1>1. PICK n \in Nat : \E r \in [0 .. n -> Cells] : Ringed(a, r, n)
  BY DEF RingsInv
<1>2. PICK r \in [0 .. n -> Cells] : Ringed(a, r, n)
  BY <1>1
<1>3. a \in Cells /\ a # NULL
  BY NullAssumption DEF Anchor
<1>4. Contents[a] = Rest(r, n)
  BY <1>2, <1>3, ContentIs, ContentsAre
<1>5. \A i \in 0 .. n : r[i] \in Ring /\ owner[r[i]] = a
  BY <1>2, <1>3 DEF Ringed, Ring
<1>6. \A i \in 0 .. n : bk[r[i]] = IF i = 0 THEN r[n] ELSE r[i - 1]
  BY <1>2, BackIs DEF RingsInv
<1>7. /\ Rest(r, n) \in Seq(Cells) /\ Len(Rest(r, n)) = n
      /\ \A i \in 1 .. n : Rest(r, n)[i] = r[i]
  BY RestIs
<1>8. \A c \in Cells : owner[c] = a <=> \E i \in 0 .. n : c = r[i]
  BY <1>2 DEF Ringed
<1>9. r[0] = a /\ bk[a] = r[n] /\ \A i \in 0 .. n : fwd[r[i]] = IF i = n THEN a ELSE r[i + 1]
  BY <1>2, <1>6 DEF Ringed
<1>10. \A i, j \in 0 .. n : r[i] = r[j] => i = j
  BY <1>2 DEF Ringed
<1>11. Around(a, r, n)
  BY <1>2, <1>4, <1>5, <1>6, <1>7, <1>8, <1>9, <1>10, Zenon DEF Around
<1> QED BY <1>11

\* The lists a call leaves alone.
LEMMA OtherRings ==
    ASSUME RingsInv, NEW a \in Anchor,
           \A c \in Cells : owner[c] = a => fwd'[c] = fwd[c],
           \A c \in Cells : owner'[c] = a <=> owner[c] = a
    PROVE  /\ Content(a)' = Contents[a]
           /\ \E n \in Nat : \E r \in [0 .. n -> Cells] : Ringed(a, r, n)'
<1>1. PICK n \in Nat : \E r \in [0 .. n -> Cells] : Ringed(a, r, n)
  BY DEF RingsInv
<1>2. PICK r \in [0 .. n -> Cells] : Ringed(a, r, n)
  BY <1>1
<1>3. a \in Cells
  BY DEF Anchor
<1>4. Ringed(a, r, n)' /\ Content(a)' = Content(a)
  BY <1>2, <1>3, SameRing
<1> QED BY <1>4, ContentsAre

\* The cells Rings takes for used are those in use.
LEMMA UsedIs ==
    ASSUME RingsInv
    PROVE  R!Anchors = Anchor /\ R!Used = Ring
<1>1. R!Anchors = Anchor
  BY ContentsAre DEF R!Anchors
<1>2. ASSUME NEW a \in Anchor
      PROVE  {a} \cup R!ToSet(Contents[a]) = {c \in Cells : owner[c] = a}
  <2>1. PICK n \in Nat : \E r \in [0 .. n -> Cells] : Around(a, r, n)
    BY RingOf
  <2>2. PICK r \in [0 .. n -> Cells] : Around(a, r, n)
    BY <2>1
  <2>3. R!ToSet(Contents[a]) = {r[i] : i \in 1 .. n}
    <3>1. Contents[a] = [i \in 1 .. n |-> r[i]]
      BY <2>2 DEF Around, Rest
    <3> QED BY <3>1 DEF R!ToSet
  <2>4. {a} \cup {r[i] : i \in 1 .. n} = {r[i] : i \in 0 .. n}
    <3>1. r[0] = a
      BY <2>2 DEF Around
    <3>2. \A i \in 0 .. n : i = 0 \/ i \in 1 .. n
      OBVIOUS
    <3>3. 0 \in 0 .. n /\ \A i \in 1 .. n : i \in 0 .. n
      OBVIOUS
    <3> QED BY <3>1, <3>2, <3>3
  <2>5. {c \in Cells : owner[c] = a} = {r[i] : i \in 0 .. n}
    BY <2>2 DEF Around, Ringed
  <2> QED BY <2>3, <2>4, <2>5
<1>3. ASSUME NEW c \in Ring PROVE c \in R!Used
  <2>1. owner[c] \in Anchor /\ c \in Cells
    BY DEF RingsInv, WellLinked, TypeOK, Ring
  <2>2. c \in {owner[c]} \cup R!ToSet(Contents[owner[c]])
    BY <1>2, <2>1
  <2> QED BY <1>1, <2>1, <2>2 DEF R!Used
<1>4. ASSUME NEW c \in R!Used PROVE c \in Ring
  <2>1. PICK a \in Anchor : c \in {a} \cup R!ToSet(Contents[a])
    BY <1>1 DEF R!Used
  <2>2. c \in Cells /\ owner[c] = a /\ a # NULL
    BY <1>2, <2>1, NullAssumption DEF Anchor
  <2> QED BY <2>2 DEF Ring
<1> QED BY <1>1, <1>3, <1>4

LEMMA InitListHeadIs ==
    ASSUME RingsInv, NEW h \in Cells, InitListHead(h)
    PROVE  RingsInv' /\ R!InitListHead(h)
<1>0. h # NULL /\ h \notin Ring /\ h \notin Anchor /\ WellLinked'
  BY InitListHeadStep, NullAssumption DEF RingsInv, InitListHead, Ring, Anchor
<1>1. Anchor' = Anchor \cup {h}
  BY <1>0 DEF RingsInv, WellLinked, TypeOK, InitListHead, Anchor, Ring
<1>2. ASSUME NEW a \in Anchor
      PROVE  /\ Content(a)' = Contents[a]
             /\ \E n \in Nat : \E r \in [0 .. n -> Cells] : Ringed(a, r, n)'
  <2>1. a # h /\ a # NULL
    BY <1>0, NullAssumption DEF Anchor
  <2>2. \A c \in Cells : owner[c] = a => fwd'[c] = fwd[c]
    BY <1>0, <2>1 DEF RingsInv, WellLinked, TypeOK, InitListHead, Ring
  <2>3. \A c \in Cells : owner'[c] = a <=> owner[c] = a
    BY <1>0, <2>1 DEF RingsInv, WellLinked, TypeOK, InitListHead, Ring
  <2> QED BY <2>2, <2>3, OtherRings
<1>3. Content(h)' = <<>> /\ \E n \in Nat : \E r \in [0 .. n -> Cells] : Ringed(h, r, n)'
  <2> DEFINE r == [i \in 0 .. 0 |-> h]
  <2>1. r \in [0 .. 0 -> Cells] /\ \A i \in 0 .. 0 : i = 0 /\ r[i] = h
    OBVIOUS
  <2> HIDE DEF r
  <2>2. fwd'[h] = h
    BY DEF RingsInv, WellLinked, TypeOK, InitListHead
  <2>3. \A c \in Cells : owner'[c] = h <=> c = h
    BY <1>0 DEF RingsInv, WellLinked, TypeOK, InitListHead, Ring
  <2>4. {c \in Cells : owner'[c] = h} = {r[i] : i \in 0 .. 0}
    BY <2>1, <2>3
  <2>5. Ringed(h, r, 0)'
    BY <2>1, <2>2, <2>4 DEF Ringed
  <2>6. Content(h)' = Rest(r, 0)
    BY <2>1, <2>5, NextContentIs
  <2>7. Rest(r, 0) = <<>>
    <3>1. Rest(r, 0) \in Seq(Cells) /\ Len(Rest(r, 0)) = 0
      BY <2>1, 0 \in Nat, RestIs, Zenon
    <3> QED BY <3>1
  <2> QED BY <2>1, <2>5, <2>6, <2>7
<1>4. RingsInv'
  BY <1>0, <1>1, <1>2, <1>3 DEF RingsInv
<1>5. Contents' = R!With(Contents, h, <<>>)
  BY <1>0, <1>1, <1>2, <1>3, ContentsAre DEF R!With
<1> QED BY <1>0, <1>4, <1>5, UsedIs DEF R!InitListHead, InitListHead

LEMMA IsEmptyIs ==
    ASSUME RingsInv, NEW h \in Cells, IsEmpty(h)
    PROVE  RingsInv' /\ R!IsEmpty(h)
<1>1. h \in Anchor /\ ret' = (fwd[h] = h)
  BY DEF IsEmpty
<1>2. WellLinked'
  BY StepWellLinked DEF RingsInv, Next
<1>3. Anchor' = Anchor
  BY DEF Anchor, IsEmpty
<1>4. ASSUME NEW a \in Anchor
      PROVE  /\ Content(a)' = Contents[a]
             /\ \E n \in Nat : \E r \in [0 .. n -> Cells] : Ringed(a, r, n)'
  BY OtherRings DEF IsEmpty
<1>5. RingsInv'
  BY <1>2, <1>3, <1>4 DEF RingsInv
<1>6. Contents' = Contents
  <2>1. \A a \in Anchor : Content(a)' = Content(a)
    BY <1>4, ContentsAre
  <2>2. [a \in Anchor' |-> Content(a)'] = [a \in Anchor |-> Content(a)]
    BY <1>3, <2>1
  <2> QED BY <2>2, ContentsAre, Zenon
<1>7. (fwd[h] = h) <=> (Contents[h] = <<>>)
  <2>1. PICK n \in Nat : \E r \in [0 .. n -> Cells] : Around(h, r, n)
    BY <1>1, RingOf
  <2>2. PICK r \in [0 .. n -> Cells] : Around(h, r, n)
    BY <2>1
  <2>3. fwd[r[0]] = (IF n = 0 THEN h ELSE r[1]) /\ r[0] = h /\ (n # 0 => r[1] # r[0])
    BY <2>2 DEF Around
  <2>4. Contents[h] \in Seq(Cells) /\ Len(Contents[h]) = n
    BY <2>2 DEF Around
  <2>5. (fwd[h] = h) <=> n = 0
    BY <2>3
  <2> QED BY <2>4, <2>5
<1>8. ret' = (Contents[h] = <<>>)
  BY <1>1, <1>7
<1> QED BY <1>1, <1>5, <1>6, <1>8, UsedIs DEF R!IsEmpty

LEMMA InsertTailIs ==
    ASSUME RingsInv, NEW h \in Cells, NEW e \in Cells, InsertTail(h, e)
    PROVE  RingsInv' /\ R!InsertTail(h, e)
<1>0. /\ h \in Anchor /\ e \notin Ring /\ owner[e] = NULL /\ h # e /\ h # NULL
      /\ WellLinked'
  BY InsertTailStep, NullAssumption DEF RingsInv, InsertTail, Ring, Anchor
<1>1. PICK n \in Nat : \E r \in [0 .. n -> Cells] : Around(h, r, n)
  BY <1>0, RingOf
<1>2. PICK r \in [0 .. n -> Cells] : Around(h, r, n)
  BY <1>1
<1> USE DEF Around
<1>3. /\ fwd' = [fwd EXCEPT ![e] = h, ![r[n]] = e]
      /\ owner' = [owner EXCEPT ![e] = h]
      /\ r[0] = h /\ r[n] # e /\ owner[r[n]] = h
      /\ fwd \in [Cells -> Cells \cup {NULL}]
      /\ owner \in [Cells -> Cells \cup {NULL}]
  <2>1. 0 \in 0 .. n /\ n \in 0 .. n /\ r[0] = h
    BY <1>2
  <2>2. bk[h] = r[n]
    BY <1>2, <2>1
  <2> QED BY <1>0, <1>2, <2>1, <2>2 DEF InsertTail, LinkTail, RingsInv, WellLinked, TypeOK
<1>4. Anchor' = Anchor
  <2>1. \A c \in Cells : owner'[c] = c <=> owner[c] = c
    BY <1>0, <1>3, NullAssumption
  <2> QED BY <2>1 DEF Anchor
<1>5. ASSUME NEW a \in Anchor, a # h
      PROVE  /\ Content(a)' = Contents[a]
             /\ \E k \in Nat : \E q \in [0 .. k -> Cells] : Ringed(a, q, k)'
  <2>1. a # NULL /\ a \in Cells
    BY NullAssumption DEF Anchor
  <2>2. \A c \in Cells : owner[c] = a => fwd'[c] = fwd[c]
    BY <1>0, <1>3, <1>5, <2>1
  <2>3. \A c \in Cells : owner'[c] = a <=> owner[c] = a
    BY <1>0, <1>3, <1>5, <2>1
  <2> QED BY <2>2, <2>3, OtherRings
<1>6. /\ \E k \in Nat : \E q \in [0 .. k -> Cells] : Ringed(h, q, k)'
      /\ Content(h)' = Append(Contents[h], e)
  <2> DEFINE m == 0
             q == [i \in 0 .. m |-> e]
  <2>0. m \in Nat /\ q \in [0 .. m -> Cells] /\ \A i \in 0 .. m : i = m /\ q[i] = e
    OBVIOUS
  <2>1. q[0] = e /\ Rest(q, m) = <<>>
    <3>1. Rest(q, m) \in Seq(Cells) /\ Len(Rest(q, m)) = 0
      BY <2>0, RestIs, Zenon
    <3> QED BY <3>1
  <2> HIDE DEF q, m
  <2>2. r[0] = h /\ \A i, j \in 0 .. n : r[i] = r[j] => i = j
    BY <1>2
  <2>3. \A i, j \in 0 .. m : q[i] = q[j] => i = j
    BY <2>0
  <2>4. \A i \in 0 .. n, j \in 0 .. m : r[i] # q[j]
    BY <1>0, <1>2, <2>0
  <2>5. \A i \in 0 .. n : fwd'[r[i]] = IF i = n THEN q[0] ELSE r[i + 1]
    <3> SUFFICES ASSUME NEW i \in 0 .. n PROVE fwd'[r[i]] = IF i = n THEN q[0] ELSE r[i + 1]
      OBVIOUS
    <3>1. r[i] # e /\ r[i] \in Cells /\ (r[i] = r[n] <=> i = n)
      BY <1>0, <1>2, <2>2
    <3>2. fwd[r[i]] = IF i = n THEN h ELSE r[i + 1]
      BY <1>2
    <3> QED BY <1>3, <2>1, <3>1, <3>2
  <2>6. \A i \in 0 .. m : fwd'[q[i]] = IF i = m THEN h ELSE q[i + 1]
    BY <1>3, <2>0
  <2>7. \A c \in Cells : owner'[c] = h <=>
              (\E i \in 0 .. n : c = r[i]) \/ (\E i \in 0 .. m : c = q[i])
    <3>1. \A c \in Cells : owner[c] = h <=> \E i \in 0 .. n : c = r[i]
      BY <1>2
    <3>2. \A c \in Cells : c = e <=> \E i \in 0 .. m : c = q[i]
      BY <2>0
    <3> QED BY <1>3, <3>1, <3>2
  <2>8. /\ \E k \in Nat : \E t \in [0 .. k -> Cells] : Ringed(h, t, k)'
        /\ Content(h)' = Rest(r, n) \o <<q[0]>> \o Rest(q, m)
    <3>1. h \in Cells /\ n \in Nat /\ r \in [0 .. n -> Cells]
      OBVIOUS
    <3>2. Joins(h, r, n, q, m)
      BY <2>0, <3>1, <2>2, <2>3, <2>4, <2>5, <2>6, <2>7, Zenon DEF Joins
    <3> QED BY <3>2, JoinedRing, SMT
  <2>9. Contents[h] \o <<e>> \o <<>> = Append(Contents[h], e)
    BY <1>2
  <2> QED BY <1>2, <2>1, <2>8, <2>9, Zenon
<1>7. RingsInv'
  BY <1>0, <1>4, <1>5, <1>6 DEF RingsInv
<1>8. Contents' = [Contents EXCEPT ![h] = Append(@, e)]
  <2>1. [a \in Anchor' |-> Content(a)'] = [Contents EXCEPT ![h] = Append(@, e)]
    BY <1>0, <1>4, <1>5, <1>6, ContentsAre
  <2> QED BY <2>1, ContentsAre
<1>9. ret' = ret
  BY DEF InsertTail
<1> QED BY <1>0, <1>7, <1>8, <1>9, UsedIs DEF R!InsertTail

LEMMA InsertHeadIs ==
    ASSUME RingsInv, NEW h \in Cells, NEW e \in Cells, InsertHead(h, e)
    PROVE  RingsInv' /\ R!InsertHead(h, e)
<1>0. /\ h \in Anchor /\ e \notin Ring /\ owner[e] = NULL /\ h # e /\ h # NULL
      /\ owner[h] = h /\ WellLinked'
  BY InsertHeadStep, NullAssumption DEF RingsInv, InsertHead, Ring, Anchor
<1>1. PICK n \in Nat : \E r \in [0 .. n -> Cells] : Around(h, r, n)
  BY <1>0, RingOf
<1>2. PICK r \in [0 .. n -> Cells] : Around(h, r, n)
  BY <1>1
<1> USE DEF Around
<1>3. /\ fwd' = [fwd EXCEPT ![e] = fwd[h], ![h] = e]
      /\ owner' = [owner EXCEPT ![e] = h]
      /\ r[0] = h
      /\ fwd \in [Cells -> Cells \cup {NULL}]
      /\ owner \in [Cells -> Cells \cup {NULL}]
  BY <1>2 DEF InsertHead, RingsInv, WellLinked, TypeOK
<1>4. Anchor' = Anchor
  <2>1. \A c \in Cells : owner'[c] = c <=> owner[c] = c
    BY <1>0, <1>3, NullAssumption
  <2> QED BY <2>1 DEF Anchor
<1>5. ASSUME NEW a \in Anchor, a # h
      PROVE  /\ Content(a)' = Contents[a]
             /\ \E k \in Nat : \E q \in [0 .. k -> Cells] : Ringed(a, q, k)'
  <2>1. a # NULL /\ a \in Cells
    BY NullAssumption DEF Anchor
  <2>2. \A c \in Cells : owner[c] = a => fwd'[c] = fwd[c]
    BY <1>0, <1>3, <1>5, <2>1
  <2>3. \A c \in Cells : owner'[c] = a <=> owner[c] = a
    BY <1>0, <1>3, <1>5, <2>1
  <2> QED BY <2>2, <2>3, OtherRings
<1>6. /\ \E k \in Nat : \E q \in [0 .. k -> Cells] : Ringed(h, q, k)'
      /\ Content(h)' = <<e>> \o Contents[h]
  <2> DEFINE m == 0
             u == [i \in 0 .. m |-> h]
             q == [i \in 0 .. n |-> IF i = 0 THEN e ELSE r[i]]
  <2>0. m \in Nat /\ u \in [0 .. m -> Cells] /\ \A i \in 0 .. m : i = m /\ u[i] = h
    OBVIOUS
  <2>1. u[0] = h /\ m = 0 /\ Rest(u, m) = <<>>
    <3>1. Rest(u, m) \in Seq(Cells) /\ Len(Rest(u, m)) = 0
      BY <2>0, RestIs, Zenon
    <3> QED BY <3>1
  <2>2. q \in [0 .. n -> Cells] /\ \A i \in 0 .. n : q[i] = IF i = 0 THEN e ELSE r[i]
    OBVIOUS
  <2>q. q[0] = e
    OBVIOUS
  <2>r. Rest(q, n) = Rest(r, n)
    BY DEF Rest
  <2> HIDE DEF q, u, m
  <2>3. \A i, j \in 0 .. n : r[i] = r[j] => i = j
    BY <1>2
  <2>4. \A i \in 0 .. n : r[i] # e /\ (i # 0 => r[i] # h)
    BY <1>0, <1>2, <1>3, <2>3
  <2>5. \A i, j \in 0 .. n : q[i] = q[j] => i = j
    BY <2>2, <2>3, <2>4
  <2>6. \A i, j \in 0 .. m : u[i] = u[j] => i = j
    BY <2>0
  <2>7. \A i \in 0 .. m, j \in 0 .. n : u[i] # q[j]
    BY <1>0, <2>0, <2>2, <2>4
  <2>8. \A i \in 0 .. m : fwd'[u[i]] = IF i = m THEN q[0] ELSE u[i + 1]
    BY <1>3, <2>0, <2>q
  <2>9. \A i \in 0 .. n : fwd'[q[i]] = IF i = n THEN h ELSE q[i + 1]
    <3> SUFFICES ASSUME NEW i \in 0 .. n PROVE fwd'[q[i]] = IF i = n THEN h ELSE q[i + 1]
      OBVIOUS
    <3>1. fwd[r[i]] = IF i = n THEN h ELSE r[i + 1]
      BY <1>2
    <3>2. i # n => i + 1 \in 0 .. n /\ q[i + 1] = r[i + 1]
      BY <2>2
    <3>3. CASE i = 0
      <4>1. fwd'[e] = fwd[h]
        BY <1>0, <1>3
      <4> QED BY <1>3, <2>q, <3>1, <3>2, <3>3, <4>1
    <3>4. CASE i # 0
      <4>1. q[i] = r[i] /\ r[i] # e /\ r[i] # h /\ r[i] \in Cells
        BY <2>2, <2>4, <3>4
      <4>2. fwd'[q[i]] = fwd[r[i]]
        BY <1>3, <4>1
      <4> QED BY <3>1, <3>2, <4>2
    <3> QED BY <3>3, <3>4
  <2>10. \A c \in Cells : owner'[c] = h <=>
              (\E i \in 0 .. m : c = u[i]) \/ (\E i \in 0 .. n : c = q[i])
    <3>1. \A c \in Cells : owner[c] = h <=> \E i \in 0 .. n : c = r[i]
      BY <1>2
    <3>2. \A c \in Cells : c = h <=> \E i \in 0 .. m : c = u[i]
      BY <2>0
    <3>3. \A c \in Cells : c = e \/ (\E i \in 0 .. n : i # 0 /\ c = r[i])
                              <=> \E i \in 0 .. n : c = q[i]
      BY <2>2, <2>q
    <3>4. \A c \in Cells : (\E i \in 0 .. n : c = r[i]) <=>
              c = h \/ \E i \in 0 .. n : i # 0 /\ c = r[i]
      BY <1>3
    <3>5. \A c \in Cells : owner'[c] = h <=> (c = e \/ owner[c] = h)
      BY <1>3
    <3> QED BY <3>1, <3>2, <3>3, <3>4, <3>5
  <2>11. /\ \E k \in Nat : \E t \in [0 .. k -> Cells] : Ringed(h, t, k)'
         /\ Content(h)' = Rest(u, m) \o <<q[0]>> \o Rest(q, n)
    <3>1. h \in Cells /\ n \in Nat /\ r \in [0 .. n -> Cells]
      OBVIOUS
    <3>2. Joins(h, u, m, q, n)
      BY <2>0, <2>2, <3>1, <2>1, <2>5, <2>6, <2>7, <2>8, <2>9, <2>10, Zenon DEF Joins
    <3> QED BY <3>2, JoinedRing, SMT
  <2>12. <<>> \o <<e>> = <<e>>
    OBVIOUS
  <2> QED BY <1>2, <2>1, <2>q, <2>r, <2>11, <2>12, Zenon
<1>7. RingsInv'
  BY <1>0, <1>4, <1>5, <1>6 DEF RingsInv
<1>8. Contents' = [Contents EXCEPT ![h] = <<e>> \o @]
  <2>1. [a \in Anchor' |-> Content(a)'] = [Contents EXCEPT ![h] = <<e>> \o @]
    BY <1>0, <1>4, <1>5, <1>6, ContentsAre
  <2> QED BY <2>1, ContentsAre
<1>9. ret' = ret
  BY DEF InsertHead
<1> QED BY <1>0, <1>7, <1>8, <1>9, UsedIs DEF R!InsertHead

LEMMA AppendTailIs ==
    ASSUME RingsInv, NEW h \in Cells, NEW b \in Cells, AppendTail(h, b)
    PROVE  RingsInv' /\ R!AppendTail(h, b)
<1>0. /\ h \in Anchor /\ b \in Anchor /\ h # b /\ h # NULL /\ b # NULL
      /\ owner[h] = h /\ owner[b] = b /\ WellLinked'
  BY AppendTailStep, NullAssumption DEF RingsInv, AppendTail, Anchor
<1>2. PICK n \in Nat : \E r \in [0 .. n -> Cells] : Around(h, r, n)
  BY <1>0, RingOf
<1>3. PICK r \in [0 .. n -> Cells] : Around(h, r, n)
  BY <1>2
<1>4. PICK m \in Nat : \E q \in [0 .. m -> Cells] : Around(b, q, m)
  BY <1>0, RingOf
<1>5. PICK q \in [0 .. m -> Cells] : Around(b, q, m)
  BY <1>4
<1> USE DEF Around
<1>6. /\ fwd' = [fwd EXCEPT ![r[n]] = b, ![q[m]] = h]
      /\ owner' = [c \in Cells |-> IF owner[c] = b THEN h ELSE owner[c]]
      /\ fwd \in [Cells -> Cells \cup {NULL}]
      /\ owner[r[n]] = h /\ owner[q[m]] = b /\ r[n] # q[m]
  BY <1>0, <1>3, <1>5 DEF AppendTail, Splice, RingsInv, WellLinked, TypeOK
<1>7. Anchor' = Anchor \ {b}
  BY <1>0, <1>6, NullAssumption DEF Anchor
<1>8. ASSUME NEW a \in Anchor, a # h, a # b
      PROVE  /\ Content(a)' = Contents[a]
             /\ \E k \in Nat : \E t \in [0 .. k -> Cells] : Ringed(a, t, k)'
  <2>1. \A c \in Cells : owner[c] = a => fwd'[c] = fwd[c]
    BY <1>0, <1>6, <1>8
  <2>2. \A c \in Cells : owner'[c] = a <=> owner[c] = a
    BY <1>0, <1>6, <1>8
  <2> QED BY <2>1, <2>2, OtherRings
<1>9. /\ \E k \in Nat : \E t \in [0 .. k -> Cells] : Ringed(h, t, k)'
      /\ Content(h)' = Contents[h] \o <<b>> \o Contents[b]
  <2>1. \A i, j \in 0 .. n : r[i] = r[j] => i = j
    BY <1>3
  <2>2. \A i, j \in 0 .. m : q[i] = q[j] => i = j
    BY <1>5
  <2>3. \A i \in 0 .. n, j \in 0 .. m : r[i] # q[j]
    <3>1. (\A i \in 0 .. n : owner[r[i]] = h) /\ \A j \in 0 .. m : owner[q[j]] = b
      BY <1>3, <1>5
    <3> QED BY <1>0, <3>1
  <2>4. \A i \in 0 .. n : fwd'[r[i]] = IF i = n THEN q[0] ELSE r[i + 1]
    <3> SUFFICES ASSUME NEW i \in 0 .. n PROVE fwd'[r[i]] = IF i = n THEN q[0] ELSE r[i + 1]
      OBVIOUS
    <3>1. r[i] # q[m] /\ r[i] \in Cells /\ (r[i] = r[n] <=> i = n)
      BY <2>1, <2>3
    <3>2. fwd[r[i]] = IF i = n THEN h ELSE r[i + 1]
      BY <1>3
    <3> QED BY <1>5, <1>6, <3>1, <3>2
  <2>5. \A i \in 0 .. m : fwd'[q[i]] = IF i = m THEN h ELSE q[i + 1]
    <3> SUFFICES ASSUME NEW i \in 0 .. m PROVE fwd'[q[i]] = IF i = m THEN h ELSE q[i + 1]
      OBVIOUS
    <3>1. q[i] # r[n] /\ q[i] \in Cells /\ (q[i] = q[m] <=> i = m)
      BY <2>2, <2>3
    <3>2. fwd[q[i]] = IF i = m THEN b ELSE q[i + 1]
      BY <1>5
    <3> QED BY <1>6, <3>1, <3>2
  <2>6. \A c \in Cells : owner'[c] = h <=>
              (\E i \in 0 .. n : c = r[i]) \/ (\E i \in 0 .. m : c = q[i])
    <3>1. \A c \in Cells : owner[c] = h <=> \E i \in 0 .. n : c = r[i]
      BY <1>3
    <3>2. \A c \in Cells : owner[c] = b <=> \E i \in 0 .. m : c = q[i]
      BY <1>5
    <3>3. \A c \in Cells : owner'[c] = h <=> owner[c] = h \/ owner[c] = b
      BY <1>6
    <3> QED BY <3>1, <3>2, <3>3
  <2>7. Joins(h, r, n, q, m)
    <3>1. h \in Cells /\ n \in Nat /\ m \in Nat /\ r \in [0 .. n -> Cells] /\ q \in [0 .. m -> Cells]
      OBVIOUS
    <3> QED BY <1>3, <2>1, <2>2, <2>3, <2>4, <2>5, <2>6, <3>1, Zenon DEF Joins
  <2>8. /\ \E k \in Nat : \E t \in [0 .. k -> Cells] : Ringed(h, t, k)'
        /\ Content(h)' = Rest(r, n) \o <<q[0]>> \o Rest(q, m)
    BY <2>7, JoinedRing, SMT
  <2> QED BY <1>3, <1>5, <2>8, Zenon
<1>10. RingsInv'
  BY <1>0, <1>7, <1>8, <1>9 DEF RingsInv
<1>11. Contents' = [a \in Anchor \ {b} |->
                       IF a = h THEN Contents[h] \o <<b>> \o Contents[b] ELSE Contents[a]]
  <2>1. [a \in Anchor' |-> Content(a)'] =
          [a \in Anchor \ {b} |-> IF a = h THEN Contents[h] \o <<b>> \o Contents[b] ELSE Contents[a]]
    BY <1>7, <1>8, <1>9
  <2> QED BY <2>1, ContentsAre, Zenon
<1>12. ret' = ret
  BY DEF AppendTail
<1> QED BY <1>0, <1>10, <1>11, <1>12, UsedIs DEF R!AppendTail

LEMMA RemoveHeadIs ==
    ASSUME RingsInv, NEW h \in Cells, RemoveHead(h)
    PROVE  RingsInv' /\ R!RemoveHead(h)
<1>0. h \in Anchor /\ h # NULL /\ owner[h] = h /\ WellLinked'
  BY RemoveHeadStep, NullAssumption DEF RingsInv, RemoveHead, Anchor
<1>1. PICK n \in Nat : \E r \in [0 .. n -> Cells] : Around(h, r, n)
  BY <1>0, RingOf
<1>2. PICK r \in [0 .. n -> Cells] : Around(h, r, n)
  BY <1>1
<1> USE DEF Around
<1>3. /\ fwd \in [Cells -> Cells \cup {NULL}]
      /\ owner \in [Cells -> Cells \cup {NULL}]
      /\ r[0] = h /\ fwd[h] = (IF n = 0 THEN h ELSE r[1])
  <2>1. 0 \in 0 .. n
    OBVIOUS
  <2> QED BY <1>2, <2>1 DEF RingsInv, WellLinked, TypeOK
<1>4. CASE n = 0
  <2>1. fwd' = fwd /\ owner' = owner /\ ret' = h
    BY <1>0, <1>3, <1>4 DEF RemoveHead
  <2>2. Anchor' = Anchor
    BY <2>1 DEF Anchor
  <2>3. ASSUME NEW a \in Anchor
        PROVE  /\ Content(a)' = Contents[a]
               /\ \E k \in Nat : \E q \in [0 .. k -> Cells] : Ringed(a, q, k)'
    BY <2>1, OtherRings
  <2>4. RingsInv'
    BY <1>0, <2>2, <2>3 DEF RingsInv
  <2>5. Contents' = Contents
    <3>1. \A a \in Anchor : Content(a)' = Content(a)
      BY <2>3, ContentsAre
    <3>2. [a \in Anchor' |-> Content(a)'] = [a \in Anchor |-> Content(a)]
      BY <2>2, <3>1
    <3> QED BY <3>2, ContentsAre, Zenon
  <2>6. Contents[h] = <<>>
    <3>1. Contents[h] \in Seq(Cells) /\ Len(Contents[h]) = 0
      BY <1>2, <1>4
    <3> QED BY <3>1
  <2> QED BY <1>0, <2>1, <2>4, <2>5, <2>6, UsedIs DEF R!RemoveHead
<1>5. CASE n # 0
  <2> DEFINE e == r[1]
  <2>0. n \in Nat \ {0} /\ 1 \in 0 .. n /\ 0 \in 0 .. n
    BY <1>5
  <2>1. /\ fwd' = [fwd EXCEPT ![h] = IF n = 1 THEN h ELSE r[2]]
        /\ ret' = e
        /\ owner' = [owner EXCEPT ![e] = NULL]
        /\ e # h /\ owner[e] = h /\ e \in Cells
    <3>1. fwd[h] = e /\ e # h /\ owner[e] = h
      BY <1>2, <1>3, <1>5, <2>0
    <3>2. fwd[e] = IF n = 1 THEN h ELSE r[2]
      BY <1>2, <2>0
    <3> QED BY <3>1, <3>2, <2>0 DEF RemoveHead
  <2>2. Anchor' = Anchor
    <3>1. \A c \in Cells : owner'[c] = c <=> owner[c] = c
      BY <1>3, <2>1, NullAssumption
    <3> QED BY <3>1 DEF Anchor
  <2>3. ASSUME NEW a \in Anchor, a # h
        PROVE  /\ Content(a)' = Contents[a]
               /\ \E k \in Nat : \E q \in [0 .. k -> Cells] : Ringed(a, q, k)'
    <3>1. a # NULL
      BY NullAssumption DEF Anchor
    <3>2. \A c \in Cells : owner[c] = a => fwd'[c] = fwd[c]
      BY <1>0, <1>3, <2>1, <2>3
    <3>3. \A c \in Cells : owner'[c] = a <=> owner[c] = a
      BY <1>3, <2>1, <2>3, <3>1
    <3> QED BY <3>2, <3>3, OtherRings
  <2>4. Drops(h, r, n, 1)
    <3>1. \A i, j \in 0 .. n : r[i] = r[j] => i = j
      BY <1>2
    <3>2. \A i \in 0 .. n : i # 1 =>
          fwd'[r[i]] = IF i + 1 = 1 THEN (IF 1 = n THEN h ELSE r[1 + 1])
                       ELSE IF i = n THEN h ELSE r[i + 1]
      <4> SUFFICES ASSUME NEW i \in 0 .. n, i # 1
                   PROVE  fwd'[r[i]] = IF i + 1 = 1 THEN (IF 1 = n THEN h ELSE r[1 + 1])
                                       ELSE IF i = n THEN h ELSE r[i + 1]
        OBVIOUS
      <4>1. CASE i = 0
        BY <1>3, <2>1, <4>1
      <4>2. CASE i # 0
        <5>1. r[i] # h /\ r[i] \in Cells /\ fwd[r[i]] = IF i = n THEN h ELSE r[i + 1]
          BY <1>2, <2>0, <4>2
        <5> QED BY <1>3, <2>1, <4>2, <5>1
      <4> QED BY <4>1, <4>2
    <3>3. \A c \in Cells : owner'[c] = h <=> \E i \in 0 .. n : i # 1 /\ c = r[i]
      <4>1. \A c \in Cells : owner[c] = h <=> \E i \in 0 .. n : c = r[i]
        BY <1>2
      <4>2. \A c \in Cells : owner'[c] = h <=> c # e /\ owner[c] = h
        BY <1>0, <1>3, <2>1
      <4>3. \A i \in 0 .. n : r[i] = e <=> i = 1
        BY <2>0, <3>1
      <4> QED BY <4>1, <4>2, <4>3
    <3> QED BY <1>3, <2>0, <3>1, <3>2, <3>3 DEF Drops
  <2>5. /\ \E k \in Nat : \E t \in [0 .. k -> Cells] : Ringed(h, t, k)'
        /\ Content(h)' = Rest(Drop(r, n, 1), n - 1)
    BY <2>4, DroppedRing, SMT
  <2>6. Rest(Drop(r, n, 1), n - 1) = Tail(Contents[h])
    <3>1. Contents[h] = Rest(r, n)
      BY <1>2
    <3>2. Rest(Drop(r, n, 1), n - 1) = Tail(Rest(r, n))
      BY <2>0, DropIs
    <3> QED BY <3>1, <3>2
  <2>7. RingsInv'
    BY <1>0, <2>2, <2>3, <2>5 DEF RingsInv
  <2>8. Contents' = [Contents EXCEPT ![h] = Tail(@)]
    <3>1. [a \in Anchor' |-> Content(a)'] = [Contents EXCEPT ![h] = Tail(@)]
      BY <1>0, <2>2, <2>3, <2>5, <2>6, ContentsAre
    <3> QED BY <3>1, ContentsAre
  <2>9. Contents[h] # <<>> /\ Head(Contents[h]) = e
    <3>1. Contents[h] \in Seq(Cells) /\ Len(Contents[h]) = n /\ Contents[h][1] = e
      BY <1>2, <2>0
    <3> QED BY <1>5, <3>1
  <2> QED BY <1>0, <2>1, <2>7, <2>8, <2>9, UsedIs DEF R!RemoveHead
<1> QED BY <1>4, <1>5

\* dllist_remove_entry on an entry behind the anchor.
LEMMA RemoveMemberIs ==
    ASSUME RingsInv, NEW e \in Cells, RemoveEntry(e), e \notin Anchor
    PROVE  RingsInv' /\ R!RemoveMember(owner[e], e)
<1>o. PICK h \in Anchor : h = owner[e]
  BY DEF RingsInv, WellLinked, TypeOK, RemoveEntry
<1>0. h \in Cells /\ h # NULL /\ e # h /\ owner[h] = h /\ WellLinked'
  BY <1>o, RemoveEntryStep, NullAssumption DEF RingsInv, Anchor
<1>1. PICK n \in Nat : \E r \in [0 .. n -> Cells] : Around(h, r, n)
  BY <1>0, RingOf
<1>2. PICK r \in [0 .. n -> Cells] : Around(h, r, n)
  BY <1>1
<1> USE DEF Around
<1>3. PICK p \in 0 .. n : e = r[p]
  BY <1>2, <1>o
<1>4. p # 0 /\ n \in Nat \ {0} /\ p \in 1 .. n /\ p - 1 \in 0 .. n /\ n \in 0 .. n /\ 0 \in 0 .. n
  BY <1>0, <1>2, <1>3
<1>5. /\ fwd \in [Cells -> Cells \cup {NULL}]
      /\ owner \in [Cells -> Cells \cup {NULL}]
      /\ fwd' = [fwd EXCEPT ![r[p - 1]] = IF p = n THEN h ELSE r[p + 1]]
      /\ owner' = [owner EXCEPT ![e] = NULL]
      /\ (ret' <=> n = 1) /\ ret' \in BOOLEAN
  <2>1. fwd[e] = (IF p = n THEN h ELSE r[p + 1]) /\ bk[e] = r[p - 1] /\ r[0] = h
    BY <1>2, <1>3, <1>4
  <2>2. fwd \in [Cells -> Cells \cup {NULL}] /\ owner \in [Cells -> Cells \cup {NULL}]
    BY DEF RingsInv, WellLinked, TypeOK
  <2>3. \A c \in Cells : owner[c] # e
    <3>1. e # NULL /\ \A c \in Ring : owner[c] \in Anchor
      BY NullAssumption DEF RingsInv, WellLinked, TypeOK
    <3> QED BY <3>1 DEF Ring
  <2>4. (fwd[e] = bk[e]) <=> n = 1
    <3>1. \A i, j \in 0 .. n : r[i] = r[j] => i = j
      BY <1>2
    <3>2. CASE p = n
      <4>1. fwd[e] = r[0] /\ bk[e] = r[p - 1]
        BY <2>1, <3>2
      <4>2. r[0] = r[p - 1] <=> p - 1 = 0
        BY <1>4, <3>1
      <4> QED BY <3>2, <4>1, <4>2
    <3>3. CASE p # n
      <4>1. fwd[e] = r[p + 1] /\ bk[e] = r[p - 1] /\ p + 1 \in 0 .. n
        BY <1>4, <2>1, <3>3
      <4>2. r[p + 1] # r[p - 1]
        BY <1>4, <3>1, <4>1
      <4> QED BY <1>4, <3>3, <4>1, <4>2
    <3> QED BY <3>2, <3>3
  <2>5. fwd' = [fwd EXCEPT ![r[p - 1]] = IF p = n THEN h ELSE r[p + 1]]
    BY <2>1 DEF RemoveEntry, LinksAfterRemoval
  <2>6. owner' = [owner EXCEPT ![e] = NULL]
    BY <2>2, <2>3 DEF RemoveEntry
  <2>7. (ret' <=> n = 1) /\ ret' \in BOOLEAN
    BY <2>4 DEF RemoveEntry, RemoveEntryResult
  <2> QED BY <2>2, <2>5, <2>6, <2>7
<1>6. Anchor' = Anchor
  <2>1. \A c \in Cells : owner'[c] = c <=> owner[c] = c
    BY <1>0, <1>o, <1>5, NullAssumption
  <2> QED BY <2>1 DEF Anchor
<1>7. ASSUME NEW a \in Anchor, a # h
      PROVE  /\ Content(a)' = Contents[a]
             /\ \E k \in Nat : \E q \in [0 .. k -> Cells] : Ringed(a, q, k)'
  <2>1. a # NULL
    BY NullAssumption DEF Anchor
  <2>2. owner[r[p - 1]] = h
    BY <1>2, <1>4
  <2>3. \A c \in Cells : owner[c] = a => fwd'[c] = fwd[c]
    BY <1>5, <1>7, <2>2
  <2>4. \A c \in Cells : owner'[c] = a <=> owner[c] = a
    BY <1>o, <1>5, <1>7, <2>1
  <2> QED BY <2>3, <2>4, OtherRings
<1>8. Drops(h, r, n, p)
  <2>1. r[0] = h /\ \A i, j \in 0 .. n : r[i] = r[j] => i = j
    BY <1>2
  <2>2. ASSUME NEW i \in 0 .. n, i # p
        PROVE  fwd'[r[i]] = IF i + 1 = p THEN (IF p = n THEN h ELSE r[p + 1])
                            ELSE IF i = n THEN h ELSE r[i + 1]
    <3>1. CASE i + 1 = p
      <4>1. i = p - 1
        BY <3>1
      <4> QED BY <1>4, <1>5, <3>1, <4>1
    <3>2. CASE i + 1 # p
      <4>1. r[i] # r[p - 1] /\ r[i] \in Cells
        BY <1>4, <2>1, <3>2
      <4>2. fwd[r[i]] = IF i = n THEN h ELSE r[i + 1]
        BY <1>2
      <4> QED BY <1>5, <3>2, <4>1, <4>2
    <3> QED BY <3>1, <3>2
  <2>3. \A c \in Cells : owner'[c] = h <=> \E i \in 0 .. n : i # p /\ c = r[i]
    <3>1. \A c \in Cells : owner[c] = h <=> \E i \in 0 .. n : c = r[i]
      BY <1>2
    <3>2. \A c \in Cells : owner'[c] = h <=> c # e /\ owner[c] = h
      BY <1>0, <1>5
    <3>3. \A i \in 0 .. n : r[i] = e <=> i = p
      BY <1>3, <2>1
    <3> QED BY <3>1, <3>2, <3>3
  <2> QED BY <1>4, <2>1, <2>2, <2>3 DEF Drops
<1>9. /\ \E k \in Nat : \E t \in [0 .. k -> Cells] : Ringed(h, t, k)'
      /\ Content(h)' = Rest(Drop(r, n, p), n - 1)
  BY <1>8, DroppedRing, SMT
<1>10. Rest(Drop(r, n, p), n - 1) = R!RemoveAt(Contents[h], p)
  BY <1>2, <1>4, DropIs
<1>11. RingsInv'
  BY <1>0, <1>6, <1>7, <1>9 DEF RingsInv
<1>12. Contents' = [Contents EXCEPT ![h] = R!RemoveAt(@, p)]
  <2>1. [a \in Anchor' |-> Content(a)'] = [Contents EXCEPT ![h] = R!RemoveAt(@, p)]
    BY <1>0, <1>6, <1>7, <1>9, <1>10, ContentsAre
  <2> QED BY <2>1, ContentsAre
<1>13. p \in DOMAIN Contents[h] /\ Contents[h][p] = e
  <2>1. Contents[h] \in Seq(Cells) /\ Len(Contents[h]) = n /\ Contents[h][p] = r[p]
    BY <1>2, <1>4
  <2> QED BY <1>3, <1>4, <2>1
<1>14. ret' = (Len(Contents[h]) = 1)
  BY <1>2, <1>5
<1> QED BY <1>0, <1>o, <1>11, <1>12, <1>13, <1>14, UsedIs DEF R!RemoveMember

\* dllist_remove_entry on an anchor: its first entry, if it has one, is the next.
LEMMA RemoveAnchorIs ==
    ASSUME RingsInv, NEW e \in Cells, RemoveEntry(e), e \in Anchor
    PROVE  RingsInv' /\ R!RemoveAnchor(e)
<1>0. owner[e] = e /\ e # NULL /\ WellLinked'
  BY RemoveEntryStep, NullAssumption DEF RingsInv, Anchor
<1>1. PICK n \in Nat : \E r \in [0 .. n -> Cells] : Around(e, r, n)
  BY RingOf
<1>2. PICK r \in [0 .. n -> Cells] : Around(e, r, n)
  BY <1>1
<1> USE DEF Around
<1>3. /\ fwd \in [Cells -> Cells \cup {NULL}]
      /\ owner \in [Cells -> Cells \cup {NULL}]
      /\ r[0] = e /\ fwd[e] = (IF n = 0 THEN e ELSE r[1]) /\ bk[e] = r[n]
      /\ owner[r[n]] = e
  <2>1. 0 \in 0 .. n /\ n \in 0 .. n
    OBVIOUS
  <2> QED BY <1>2, <2>1 DEF RingsInv, WellLinked, TypeOK
<1>4. CASE n = 0
  <2>1. /\ fwd' = fwd /\ ret' = TRUE
        /\ \A c \in Cells : owner[c] = e <=> c = e
    <3>1. \A i \in 0 .. n : i = 0
      BY <1>4
    <3>2. fwd[e] = e /\ bk[e] = e
      BY <1>3, <1>4
    <3>3. ret' = TRUE
      BY <3>2 DEF RemoveEntry, RemoveEntryResult
    <3>4. fwd' = fwd
      BY <1>3, <3>2 DEF RemoveEntry, LinksAfterRemoval
    <3>5. \A c \in Cells : owner[c] = e <=> \E i \in 0 .. n : c = r[i]
      BY <1>2
    <3>6. 0 \in 0 .. n /\ \A i \in 0 .. n : r[i] = e
      BY <1>3, <1>4
    <3> QED BY <3>3, <3>4, <3>5, <3>6
  <2>2. owner' = [owner EXCEPT ![e] = NULL]
    BY <1>3, <2>1 DEF RemoveEntry
  <2>3. Anchor' = Anchor \ {e}
    BY <1>0, <1>3, <2>2 DEF Anchor
  <2>4. ASSUME NEW a \in Anchor, a # e
        PROVE  /\ Content(a)' = Contents[a]
               /\ \E k \in Nat : \E q \in [0 .. k -> Cells] : Ringed(a, q, k)'
    <3>1. a # NULL
      BY NullAssumption DEF Anchor
    <3>2. \A c \in Cells : owner'[c] = a <=> owner[c] = a
      BY <1>0, <1>3, <2>2, <2>4, <3>1
    <3> QED BY <2>1, <3>2, OtherRings
  <2>5. RingsInv'
    BY <1>0, <2>3, <2>4 DEF RingsInv
  <2>6. Contents' = R!Without(e)
    <3>1. [a \in Anchor' |-> Content(a)'] = [a \in Anchor \ {e} |-> Contents[a]]
      BY <2>3, <2>4
    <3> QED BY <3>1, ContentsAre, UsedIs, Zenon DEF R!Without
  <2>7. Contents[e] = <<>> /\ Len(Contents[e]) <= 1
    <3>1. Contents[e] \in Seq(Cells) /\ Len(Contents[e]) = 0
      BY <1>2, <1>4
    <3> QED BY <3>1
  <2> QED BY <2>1, <2>5, <2>6, <2>7, UsedIs DEF R!RemoveAnchor
<1>5. CASE n # 0
  <2>0. n \in Nat \ {0} /\ 1 \in 0 .. n /\ 0 \in 0 .. n /\ n \in 0 .. n
    BY <1>5
  <2>1. PICK h \in Cells : h = r[1]
    BY <2>0
  <2>2. h # e /\ owner[h] = e /\ h # NULL /\ h \notin Anchor
    BY <1>2, <1>3, <2>0, <2>1, NullAssumption DEF Anchor
  <2>3. /\ fwd' = [fwd EXCEPT ![r[n]] = h]
        /\ owner' = [c \in Cells |-> IF c = e THEN NULL ELSE IF owner[c] = e THEN h ELSE owner[c]]
        /\ (ret' <=> n = 1) /\ ret' \in BOOLEAN
    <3>1. fwd[e] = h /\ fwd[e] # e
      BY <1>3, <1>5, <2>1, <2>2
    <3>2. (fwd[e] = bk[e]) <=> n = 1
      BY <1>2, <1>3, <2>0, <2>1, <3>1
    <3> QED BY <1>3, <3>1, <3>2 DEF RemoveEntry, LinksAfterRemoval, RemoveEntryResult
  <2>4. Anchor' = (Anchor \ {e}) \cup {h}
    <3>1. \A c \in Cells : owner'[c] = c <=> c = h \/ (c # e /\ owner[c] = c)
      BY <1>0, <2>2, <2>3, NullAssumption
    <3> QED BY <3>1 DEF Anchor
  <2>5. ASSUME NEW a \in Anchor, a # e
        PROVE  /\ Content(a)' = Contents[a]
               /\ \E k \in Nat : \E q \in [0 .. k -> Cells] : Ringed(a, q, k)'
    <3>1. a # NULL /\ a # h
      BY <2>2, NullAssumption DEF Anchor
    <3>2. \A c \in Cells : owner[c] = a => fwd'[c] = fwd[c]
      BY <1>3, <2>3, <2>5
    <3>3. \A c \in Cells : owner'[c] = a <=> owner[c] = a
      BY <1>0, <2>3, <2>5, <3>1
    <3> QED BY <3>2, <3>3, OtherRings
  <2>6. Drops(h, r, n, 0)
    <3>1. \A i, j \in 0 .. n : r[i] = r[j] => i = j
      BY <1>2
    <3>2. ASSUME NEW i \in 0 .. n, i # 0
          PROVE  fwd'[r[i]] = IF i + 1 = 0 THEN (IF 0 = n THEN h ELSE r[0 + 1])
                              ELSE IF i = n THEN h ELSE r[i + 1]
      <4>1. r[i] \in Cells /\ (r[i] = r[n] <=> i = n) /\ i + 1 # 0
        BY <2>0, <3>1
      <4>2. fwd[r[i]] = IF i = n THEN e ELSE r[i + 1]
        BY <1>2
      <4> QED BY <1>3, <2>3, <4>1, <4>2
    <3>3. \A c \in Cells : owner'[c] = h <=> \E i \in 0 .. n : i # 0 /\ c = r[i]
      <4>1. \A c \in Cells : owner[c] = e <=> \E i \in 0 .. n : c = r[i]
        BY <1>2
      <4>2. \A c \in Cells : owner[c] # h
        <5>1. \A c \in Ring : owner[c] \in Anchor
          BY DEF RingsInv, WellLinked, TypeOK
        <5> QED BY <2>2, <5>1 DEF Ring
      <4>3. \A c \in Cells : owner'[c] = h <=> c # e /\ owner[c] = e
        BY <2>2, <2>3, <4>2
      <4>4. \A i \in 0 .. n : r[i] = e <=> i = 0
        BY <1>3, <2>0, <3>1
      <4> QED BY <4>1, <4>3, <4>4
    <3> QED BY <2>0, <2>1, <3>1, <3>2, <3>3 DEF Drops
  <2>7. /\ \E k \in Nat : \E t \in [0 .. k -> Cells] : Ringed(h, t, k)'
        /\ Content(h)' = Rest(Drop(r, n, 0), n - 1)
    BY <2>6, DroppedRing, SMT
  <2>8. Content(h)' = Tail(Contents[e])
    <3>1. Contents[e] = Rest(r, n)
      BY <1>2
    <3>2. Rest(Drop(r, n, 0), n - 1) = Tail(Rest(r, n))
      BY <2>0, DropIs
    <3> QED BY <2>7, <3>1, <3>2
  <2>9. RingsInv'
    BY <1>0, <2>4, <2>5, <2>7 DEF RingsInv
  <2>10. Contents[e] # <<>> /\ Head(Contents[e]) = h /\ ret' = (Len(Contents[e]) <= 1)
    <3>1. 1 \in 1 .. n
      BY <2>0
    <3>2. Contents[e] \in Seq(Cells) /\ Len(Contents[e]) = n /\ Contents[e][1] = h
      BY <1>2, <2>1, <3>1
    <3> QED BY <1>5, <2>3, <3>2
  <2>11. Contents' = R!With(R!Without(e), h, Tail(Contents[e]))
    <3>1. DOMAIN R!Without(e) = Anchor \ {e} /\ \A a \in Anchor \ {e} : R!Without(e)[a] = Contents[a]
      BY UsedIs DEF R!Without
    <3>2. [a \in Anchor' |-> Content(a)']
            = [b \in (Anchor \ {e}) \cup {h} |-> IF b = h THEN Tail(Contents[e]) ELSE R!Without(e)[b]]
      BY <2>4, <2>5, <2>8, <3>1
    <3> QED BY <3>1, <3>2, ContentsAre, Zenon DEF R!With
  <2> QED BY <2>9, <2>10, <2>11, UsedIs DEF R!RemoveAnchor
<1> QED BY <1>4, <1>5

\* Initially there is no list.
LEMMA InitIs == Init => RingsInv /\ R!Init
<1> SUFFICES ASSUME Init PROVE RingsInv /\ R!Init
  OBVIOUS
<1>1. Anchor = {}
  BY NullAssumption DEF Init, Anchor
<1>2. Contents = <<>>
  BY <1>1 DEF Contents
<1> QED BY <1>1, <1>2, InitWellLinked DEF RingsInv, R!Init, Init

LEMMA StepIs == RingsInv /\ [Next]_vars => RingsInv' /\ [R!Next]_<<Contents, ret>>
<1> SUFFICES ASSUME RingsInv, [Next]_vars PROVE RingsInv' /\ [R!Next]_<<Contents, ret>>
  OBVIOUS
<1>1. CASE UNCHANGED vars
  <2>1. Anchor' = Anchor /\ ret' = ret
    BY <1>1 DEF vars, Anchor
  <2>2. ASSUME NEW a \in Anchor
        PROVE  /\ Content(a)' = Contents[a]
               /\ \E k \in Nat : \E q \in [0 .. k -> Cells] : Ringed(a, q, k)'
    BY <1>1, OtherRings DEF vars
  <2>3. WellLinked'
    BY <1>1, StepWellLinked DEF RingsInv
  <2>4. RingsInv'
    BY <2>1, <2>2, <2>3 DEF RingsInv
  <2>5. Contents' = Contents
    <3>1. \A a \in Anchor : Content(a)' = Content(a)
      BY <2>2, ContentsAre
    <3>2. [a \in Anchor' |-> Content(a)'] = [a \in Anchor |-> Content(a)]
      BY <2>1, <3>1
    <3> QED BY <3>2, ContentsAre, Zenon
  <2> QED BY <2>1, <2>4, <2>5
<1>2. ASSUME NEW h \in Cells, InitListHead(h) PROVE RingsInv' /\ R!Next
  BY <1>2, InitListHeadIs DEF R!Next
<1>3. ASSUME NEW h \in Cells, IsEmpty(h) PROVE RingsInv' /\ R!Next
  BY <1>3, IsEmptyIs DEF R!Next
<1>4. ASSUME NEW e \in Cells, RemoveEntry(e) PROVE RingsInv' /\ R!Next
  <2>1. CASE e \in Anchor
    BY <1>4, <2>1, RemoveAnchorIs DEF R!Next
  <2>2. CASE e \notin Anchor
    <3>1. owner[e] \in Cells
      BY <1>4 DEF RemoveEntry, RingsInv, WellLinked, TypeOK, Anchor
    <3> QED BY <1>4, <2>2, <3>1, RemoveMemberIs DEF R!Next
  <2> QED BY <2>1, <2>2
<1>5. ASSUME NEW h \in Cells, RemoveHead(h) PROVE RingsInv' /\ R!Next
  BY <1>5, RemoveHeadIs DEF R!Next
<1>6. ASSUME NEW h \in Cells, NEW e \in Cells, InsertTail(h, e) PROVE RingsInv' /\ R!Next
  BY <1>6, InsertTailIs DEF R!Next
<1>7. ASSUME NEW h \in Cells, NEW e \in Cells, InsertHead(h, e) PROVE RingsInv' /\ R!Next
  BY <1>7, InsertHeadIs DEF R!Next
<1>8. ASSUME NEW h \in Cells, NEW e \in Cells, AppendTail(h, e) PROVE RingsInv' /\ R!Next
  BY <1>8, AppendTailIs DEF R!Next
<1>9. CASE Next
  BY <1>2, <1>3, <1>4, <1>5, <1>6, <1>7, <1>8, <1>9, Zenon DEF Next
<1> QED BY <1>1, <1>9

\* What a caller meets on his walks along the links of dllist.c is exactly what the
\* list operations of module Rings produce, and every result is the one promised
\* there, for any number of cells and lists.
THEOREM LinksImplementLists == Spec => ImplementsRings
<1>1. RingsInv /\ [Next]_vars => [R!Next]_<<Contents, ret>>
  BY StepIs
<1>2. RingsInv /\ [Next]_vars => RingsInv'
  BY StepIs
<1> QED BY <1>1, <1>2, InitIs, PTL DEF Spec, ImplementsRings, R!Spec

=============================================================================
