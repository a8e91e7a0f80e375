--------------------------- MODULE ItemListProofs ---------------------------
(***************************************************************************)
(* Memory safety and bookkeeping of item_list.c, for any number of nodes   *)
(* and items, with a destroy_cb or without, for callers of the kind        *)
(* CarefulCaller: once the last of several nodes was removed they do not   *)
(* add before the list is empty, they do not add from the callback of a    *)
(* clear or destroy, and keep no iterator over a call that frees nodes.    *)
(*                                                                         *)
(* The invariant says that the nodes in use are those of one sequence      *)
(* without repetition, linked in its order from head to NULL, and, call by *)
(* call, which of them the call in progress is about to free.              *)
(***************************************************************************)
EXTENDS MCItemList, FiniteSetTheorems, SequenceTheorems, TLAPS

CarefulCaller ==
    /\ ~AddsAfterLast
    /\ CallbackAdds \subseteq {"remove"}
    /\ ~KeepsCursor

\* The nodes in use are the n nodes of s, linked in this order.
Listing(s, n) ==
    /\ head = IF n = 0 THEN NULL ELSE s[1]
    /\ \A i \in 1 .. n : next[s[i]] = IF i = n THEN NULL ELSE s[i + 1]
    /\ \A i, j \in 1 .. n : s[i] = s[j] => i = j
    /\ live = {s[i] : i \in 1 .. n}

\* The types, of the call in progress too.
FieldsInv ==
    /\ next \in [Nodes -> Nodes \cup {NULL}]
    /\ node_item \in [Nodes -> Items \cup {NULL}]
    /\ locally_allocated \in [Nodes -> BOOLEAN]
    /\ live \subseteq Nodes
    /\ \A m \in live : node_item[m] \in Items
    /\ head \in Nodes \cup {NULL} /\ tail \in Nodes \cup {NULL}
    /\ iter \in Nodes \cup {NULL} /\ cursor \in live \cup {NULL}
    /\ count \in Nat /\ count <= Cardinality(Nodes)
    /\ open \in BOOLEAN /\ cut \in BOOLEAN
    /\ fate \in [Items -> {"out", "in", "freed", "destroyed", "dropped"}]
    /\ ret \in [at : Nat, is : Items \cup {NULL, "failed"}]
    /\ call \in [op : {"none", "remove", "clear", "destroy"}, node : Nodes \cup {NULL},
                 link : Nodes \cup {NULL}, index : Nat]

\* item_list_remove_item is about to take out the p-th node of s.
Removes(s, p) == call.node = s[p] /\ call.link = IF p = 1 THEN NULL ELSE s[p - 1]

\* Where the call in progress stands.
CallInv(s, n) ==
    /\ call.op = "none" => call = Idle
    /\ call.op # "none" => cursor = NULL /\ open
    /\ ~open => n = 0
    /\ n = 0 => ~cut
    /\ call.op \in {"none", "remove"} =>
          /\ count = n /\ iter \in live \cup {NULL}
          /\ n > 0 => IF cut THEN tail \notin live ELSE tail = s[n]
    /\ call.op = "remove" => iter # call.node /\ \E p \in 1 .. n : Removes(s, p)
    /\ call.op \in {"clear", "destroy"} =>
          /\ call.index + n = count
          /\ call.node # NULL => n > 0 /\ call.node = head /\ call.link = next[head]

\* The items that are in the list are those of its nodes, each once, except for
\* the node whose item the call in progress has released.
FateInv(s, n) ==
    /\ \A x \in Items : fate[x] = "in" <=>
          \E i \in 1 .. n : s[i] # call.node /\ node_item[s[i]] = x
    /\ \A i, j \in 1 .. n :
          s[i] # call.node /\ s[j] # call.node /\ node_item[s[i]] = node_item[s[j]] => i = j

ListInv(s, n) == Listing(s, n) /\ CallInv(s, n) /\ FateInv(s, n)

SafeInv == ~ub /\ FieldsInv /\ \E n \in Nat : \E s \in [1 .. n -> Nodes] : ListInv(s, n)

-----------------------------------------------------------------------------
(* The walk along the links                                                    *)

LEMMA LeastNat ==
    ASSUME NEW T \in SUBSET Nat, T # {}
    PROVE  \E n \in T : \A m \in T : n <= m
<1>1. \E n \in T : \A m \in T : ~ (<<m, n>> \in OpToRel(<, Nat))
  BY NatLessThanWellFounded, WFMin, Zenon
<1>2. ASSUME NEW n \in T, NEW m \in T, ~ (<<m, n>> \in OpToRel(<, Nat)) PROVE n <= m
  <2>1. ~ (m < n)
    BY <1>2 DEF OpToRel
  <2> QED
    BY <2>1
<1> QED
  BY <1>1, <1>2

\* There are no more nodes in use than nodes.
LEMMA AsManyNodes ==
    ASSUME FieldsInv, NEW n \in Nat, NEW s \in [1 .. n -> Nodes], Listing(s, n)
    PROVE  n <= Cardinality(Nodes) /\ Cardinality(Nodes) \in Nat
<1>1. s \in Bijection(1 .. n, live)
  BY DEF Listing, Bijection, Injection, Surjection, IsInjective
<1>2. Cardinality(live) = n
  BY <1>1, FS_CountingElements DEF ExistsBijection
<1>3. Cardinality(live) <= Cardinality(Nodes) /\ Cardinality(Nodes) \in Nat
  BY ItemListAssumption, FS_Subset, FS_CardinalityType DEF FieldsInv
<1> QED
  BY <1>2, <1>3

\* NodeAt meets the nodes of the list in their order, and then only NULL.
LEMMA WalkIs ==
    ASSUME FieldsInv, NEW n \in Nat, NEW s \in [1 .. n -> Nodes], Listing(s, n)
    PROVE  /\ DOMAIN NodeAt = 0 .. Cardinality(Nodes)
           /\ \A k \in 0 .. Cardinality(Nodes) :
                 NodeAt[k] = IF k < n THEN s[k + 1] ELSE NULL
<1> DEFINE N == Cardinality(Nodes)
           F == [k \in 0 .. N |-> IF k < n THEN s[k + 1] ELSE NULL]
<1>0. N \in Nat /\ n <= N /\ NULL \notin live
  BY AsManyNodes, ItemListAssumption DEF FieldsInv
<1> HIDE DEF N
<1>1. F = [k \in 0 .. N |-> IF k = 0 THEN head
                            ELSE IF F[k - 1] \in live THEN next[F[k - 1]] ELSE NULL]
  <2> SUFFICES ASSUME NEW k \in 0 .. N
               PROVE  F[k] = IF k = 0 THEN head
                             ELSE IF F[k - 1] \in live THEN next[F[k - 1]] ELSE NULL
    BY Zenon
  <2>1. CASE k = 0
    BY <1>0, <2>1 DEF Listing
  <2>2. CASE k # 0 /\ k - 1 < n
    <3>1. k - 1 \in 0 .. N /\ F[k - 1] = s[k] /\ k \in 1 .. n
      BY <1>0, <2>2
    <3>2. s[k] \in live /\ next[s[k]] = IF k = n THEN NULL ELSE s[k + 1]
      BY <3>1 DEF Listing
    <3> QED
      BY <2>2, <3>1, <3>2
  <2>3. CASE k # 0 /\ ~ (k - 1 < n)
    <3>1. k - 1 \in 0 .. N /\ ~ (k < n)
      BY <1>0, <2>3
    <3>2. F[k] = NULL
      BY <3>1
    <3>3. F[k - 1] = NULL
      BY <2>3, <3>1
    <3> QED
      BY <1>0, <2>3, <3>1, <3>2, <3>3
  <2> QED
    BY <2>1, <2>2, <2>3
<1>2. NodeAt = [k \in 0 .. N |-> IF k = 0 THEN head
                  ELSE IF NodeAt[k - 1] \in live THEN next[NodeAt[k - 1]] ELSE NULL]
  <2> HIDE DEF F
  <2> QED
    BY <1>1 DEF NodeAt, N
<1>3. ASSUME NEW k \in 0 .. N, NodeAt[k] # F[k] PROVE FALSE
  <2> DEFINE T == {m \in 0 .. N : NodeAt[m] # F[m]}
  <2>1. PICK m \in T : \A l \in T : m <= l
    <3>1. T \in SUBSET Nat /\ k \in T
      BY <1>0, <1>3
    <3> HIDE DEF T
    <3> QED
      BY <3>1, LeastNat
  <2>2. m # 0
    BY <1>1, <1>2, <2>1
  <2>3. m - 1 \in 0 .. N /\ NodeAt[m - 1] = F[m - 1]
    BY <1>0, <2>1, <2>2
  <2> HIDE DEF F
  <2> QED
    BY <1>1, <1>2, <2>1, <2>2, <2>3
<1>4. DOMAIN NodeAt = 0 .. N
  BY <1>2
<1> QED
  BY <1>3, <1>4 DEF N

LEMMA ReachableIs ==
    ASSUME FieldsInv, NEW n \in Nat, NEW s \in [1 .. n -> Nodes], Listing(s, n), NEW k \in Nat
    PROVE  Reachable(k) <=> k < n
<1>0. Cardinality(Nodes) \in Nat /\ n <= Cardinality(Nodes) /\ NULL \notin live
  BY AsManyNodes, ItemListAssumption DEF FieldsInv
<1>1. ASSUME k < n PROVE Reachable(k)
  <2>1. k \in 0 .. Cardinality(Nodes)
    BY <1>0, <1>1
  <2>2. ASSUME NEW j \in 0 .. k PROVE NodeAt[j] \in live
    <3>1. j \in 0 .. Cardinality(Nodes) /\ j < n /\ j + 1 \in 1 .. n
      BY <1>0, <1>1
    <3>2. NodeAt[j] = s[j + 1]
      BY <3>1, WalkIs
    <3> QED
      BY <3>1, <3>2 DEF Listing
  <2> QED
    BY <2>1, <2>2, WalkIs DEF Reachable
<1>2. ASSUME Reachable(k) PROVE k < n
  <2>0. DOMAIN NodeAt = 0 .. Cardinality(Nodes)
    BY WalkIs
  <2>1. k \in 0 .. Cardinality(Nodes) /\ k \in 0 .. k
    BY <1>2, <2>0 DEF Reachable
  <2>2. NodeAt[k] \in live
    BY <1>2, <2>1 DEF Reachable
  <2> QED
    BY <1>0, <2>1, <2>2, WalkIs
<1> QED
  BY <1>1, <1>2

\* Chain is that sequence.
LEMMA ChainIs ==
    ASSUME FieldsInv, NEW n \in Nat, NEW s \in [1 .. n -> Nodes], Listing(s, n)
    PROVE  Chain = s /\ Len(Chain) = n /\ DOMAIN Chain = 1 .. n /\ InChain = live
<1>0. Cardinality(Nodes) \in Nat /\ n <= Cardinality(Nodes)
  BY AsManyNodes
<1>1. DOMAIN NodeAt = 0 .. Cardinality(Nodes)
  BY WalkIs
<1>2. {k \in DOMAIN NodeAt : \A j \in 0 .. k : NodeAt[j] \in live} = 0 .. n - 1
  <2>1. \A k \in 0 .. Cardinality(Nodes) : Reachable(k) <=> k < n
    BY <1>0, ReachableIs
  <2> QED
    BY <1>0, <1>1, <2>1 DEF Reachable
<1>3. Cardinality(0 .. n - 1) = n
  BY FS_Interval
<1>4. Chain = [k \in 1 .. n |-> NodeAt[k - 1]]
  BY <1>2, <1>3 DEF Chain
<1>5. \A k \in 1 .. n : NodeAt[k - 1] = s[k]
  BY <1>0, WalkIs
<1>6. Chain = s
  BY <1>4, <1>5
<1> QED
  BY <1>6 DEF InChain, Listing

-----------------------------------------------------------------------------
(* The invariant holds initially and through every step                        *)

LEMMA SafeInvInit == Init => SafeInv
<1> SUFFICES ASSUME Init PROVE SafeInv
  OBVIOUS
<1> USE ItemListAssumption DEF Init
<1>1. FieldsInv
  <2>1. Cardinality(Nodes) \in Nat
    BY FS_CardinalityType
  <2>2. 0 \in Nat /\ 0 <= Cardinality(Nodes)
    BY <2>1
  <2>3. call \in [op : {"none", "remove", "clear", "destroy"}, node : Nodes \cup {NULL},
                  link : Nodes \cup {NULL}, index : Nat]
    BY DEF Idle
  <2>4. ret \in [at : Nat, is : Items \cup {NULL, "failed"}]
    BY DEF Answer
  <2> QED
    BY <2>2, <2>3, <2>4 DEF FieldsInv
<1>2. [i \in 1 .. 0 |-> NULL] \in [1 .. 0 -> Nodes]
  OBVIOUS
<1>3. ListInv([i \in 1 .. 0 |-> NULL], 0)
  BY DEF ListInv, Listing, CallInv, FateInv, Idle
<1> QED
  BY <1>1, <1>2, <1>3 DEF SafeInv

\* A call that leaves the list and its nodes as they are.
LEMMA SameList ==
    ASSUME FieldsInv, NEW n \in Nat, NEW s \in [1 .. n -> Nodes], ListInv(s, n),
           ~ub', FieldsInv', UNCHANGED <<mem, head, tail, count, open, cut, call, fate>>,
           call = Idle \/ UNCHANGED <<iter, cursor>>, iter' \in {iter, head}
    PROVE  SafeInv'
<1>1. Listing(s, n)'
  BY DEF ListInv, Listing, mem
<1>2. FateInv(s, n)'
  BY DEF ListInv, FateInv, mem
<1>3. CallInv(s, n)'
  <2>1. CASE call = Idle
    <3>1. head \in live \cup {NULL}
      BY DEF ListInv, Listing
    <3>2. iter' \in live \cup {NULL}
      BY <2>1, <3>1 DEF ListInv, CallInv, Idle
    <3> QED
      BY <2>1, <3>2 DEF ListInv, CallInv, Idle, mem
  <2>2. CASE UNCHANGED <<iter, cursor>>
    BY <2>2 DEF ListInv, CallInv, Removes, mem
  <2> QED
    BY <2>1, <2>2
<1> QED
  BY <1>1, <1>2, <1>3 DEF SafeInv, ListInv

\* An addition puts a node with item x behind the others.
Longer(s, n, t, x) ==
    /\ Listing(t, n + 1)'
    /\ \A i \in 1 .. n : t[i] = s[i] /\ node_item'[s[i]] = node_item[s[i]]
    /\ node_item'[t[n + 1]] = x
    /\ cursor' = cursor /\ ret' = Answer(0, NULL)

LEMMA AddStep ==
    ASSUME CarefulCaller, ~ub, FieldsInv,
           NEW n \in Nat, NEW s \in [1 .. n -> Nodes], ListInv(s, n),
           NEW x \in Items, NEW flag \in BOOLEAN, MayAdd, fate[x] # "in",
           AddNewItem(x, flag)
    PROVE  SafeInv' /\ \E t \in [1 .. n + 1 -> Nodes] : Longer(s, n, t, x)
<1> USE ItemListAssumption
<1>0. call.op \in {"none", "remove"} /\ count = n /\ ~cut /\ (n > 0 => tail = s[n])
  <2>1. call.op \in {"none", "remove"}
    <3>1. call = Idle => call.op = "none"
      BY DEF Idle
    <3>2. MayAdd => call = Idle \/ call.op \in CallbackAdds
      BY DEF MayAdd
    <3> QED
      BY <3>1, <3>2 DEF CarefulCaller
  <2>2. ~cut
    BY DEF MayAdd, CarefulCaller
  <2> QED
    BY <2>1, <2>2 DEF ListInv, CallInv
<1>1. (head = NULL <=> n = 0) /\ (n > 0 => tail \in live) /\ live \subseteq Nodes /\ NULL \notin Nodes
  BY <1>0 DEF ListInv, Listing, FieldsInv
<1>2. PICK target \in Nodes \ live :
          /\ live' = live \cup {target}
          /\ node_item' = [node_item EXCEPT ![target] = x]
          /\ locally_allocated' = [locally_allocated EXCEPT ![target] = flag]
          /\ Link(target)
          /\ count' = count + 1
          /\ fate' = [fate EXCEPT ![x] = "in"]
          /\ ret' = Answer(0, NULL)
          /\ UNCHANGED <<iter, open, cursor, call, cut, ub>>
  BY <1>0, <1>1 DEF AddNewItem
<1> DEFINE t == [i \in 1 .. n + 1 |-> IF i = n + 1 THEN target ELSE s[i]]
<1>3. t \in [1 .. n + 1 -> Nodes] /\ t[n + 1] = target /\ \A i \in 1 .. n : t[i] = s[i]
  OBVIOUS
<1>4. \A i \in 1 .. n : s[i] \in live /\ s[i] # target
  BY <1>2 DEF ListInv, Listing
<1>5. /\ tail' = target
      /\ head' = IF n = 0 THEN target ELSE head
      /\ next' = [m \in Nodes |-> IF m = target THEN NULL
                               ELSE IF n > 0 /\ m = s[n] THEN target ELSE next[m]]
  BY <1>0, <1>1, <1>2 DEF Link, FieldsInv
<1> HIDE DEF t
<1>6. Listing(t, n + 1)'
  <2>1. head' = t[1]
    BY <1>3, <1>5 DEF ListInv, Listing
  <2>2. \A i, j \in 1 .. n + 1 : t[i] = t[j] => i = j
    BY <1>3, <1>4 DEF ListInv, Listing
  <2>3. live' = {t[i] : i \in 1 .. n + 1}
    BY <1>2, <1>3 DEF ListInv, Listing
  <2>4. ASSUME NEW i \in 1 .. n + 1
        PROVE  next'[t[i]] = IF i = n + 1 THEN NULL ELSE t[i + 1]
    <3>1. CASE i = n + 1
      BY <1>3, <1>5, <3>1
    <3>2. CASE i = n
      BY <1>3, <1>4, <1>5, <3>2
    <3>3. CASE i < n
      <4>1. i \in 1 .. n /\ n \in 1 .. n /\ i + 1 \in 1 .. n
        BY <3>3
      <4>2. s[i] # s[n] /\ s[i] # target
        BY <1>4, <3>3, <4>1 DEF ListInv, Listing
      <4>3. next[s[i]] = s[i + 1]
        BY <3>3, <4>1 DEF ListInv, Listing
      <4> QED
        BY <1>3, <1>5, <3>3, <4>1, <4>2, <4>3
    <3> QED
      BY <3>1, <3>2, <3>3
  <2> QED
    BY <2>1, <2>2, <2>3, <2>4 DEF Listing
<1>7. FieldsInv'
  <2>1. /\ next' \in [Nodes -> Nodes \cup {NULL}]
        /\ node_item' \in [Nodes -> Items \cup {NULL}]
        /\ locally_allocated' \in [Nodes -> BOOLEAN]
        /\ live' \subseteq Nodes /\ count' \in Nat
        /\ head' \in Nodes \cup {NULL} /\ tail' \in Nodes \cup {NULL}
        /\ fate' \in [Items -> {"out", "in", "freed", "destroyed", "dropped"}]
        /\ ret' \in [at : Nat, is : Items \cup {NULL, "failed"}]
    BY <1>1, <1>2, <1>5 DEF FieldsInv, Answer
  <2>2. \A m \in live' : node_item'[m] \in Items
    BY <1>2 DEF FieldsInv
  <2>3. Cardinality(live') <= Cardinality(Nodes) /\ Cardinality(live') = n + 1
    <3>1. t \in Bijection(1 .. n + 1, live')
      BY <1>3, <1>6 DEF Listing, Bijection, Injection, Surjection, IsInjective
    <3>2. Cardinality(live') = n + 1
      BY <3>1, FS_CountingElements DEF ExistsBijection
    <3> QED
      BY <2>1, <3>2, FS_Subset
  <2> QED
    BY <1>0, <1>2, <2>1, <2>2, <2>3 DEF FieldsInv
<1>8. FateInv(t, n + 1)'
  <2>1. call.node # target
    <3>1. call.op = "none" => call.node = NULL
      BY DEF ListInv, CallInv, Idle
    <3>2. call.op = "remove" => call.node \in live
      BY <1>4 DEF ListInv, CallInv, Removes
    <3> QED
      BY <1>0, <1>1, <3>1, <3>2
  <2>2. node_item'[target] = x /\ \A i \in 1 .. n : node_item'[s[i]] = node_item[s[i]]
    BY <1>2, <1>4 DEF FieldsInv
  <2>3. ASSUME NEW y \in Items
        PROVE  fate'[y] = "in" <=>
                  \E i \in 1 .. n + 1 : t[i] # call.node /\ node_item'[t[i]] = y
    <3>1. fate'[y] = "in" <=> y = x \/ fate[y] = "in"
      BY <1>2 DEF FieldsInv
    <3>2. fate[y] = "in" <=> \E i \in 1 .. n : s[i] # call.node /\ node_item[s[i]] = y
      BY DEF ListInv, FateInv
    <3>3. n + 1 \in 1 .. n + 1 /\ \A i \in 1 .. n + 1 : i = n + 1 \/ i \in 1 .. n
      OBVIOUS
    <3> QED
      BY <1>3, <2>1, <2>2, <3>1, <3>2, <3>3
  <2>4. ASSUME NEW i \in 1 .. n, s[i] # call.node PROVE node_item[s[i]] # x
    BY <2>4 DEF ListInv, FateInv
  <2>5. \A i, j \in 1 .. n + 1 :
            t[i] # call.node /\ t[j] # call.node /\ node_item'[t[i]] = node_item'[t[j]] => i = j
    <3> SUFFICES ASSUME NEW i \in 1 .. n + 1, NEW j \in 1 .. n + 1, t[i] # call.node,
                        t[j] # call.node, node_item'[t[i]] = node_item'[t[j]]
                 PROVE  i = j
      OBVIOUS
    <3>1. CASE i \in 1 .. n /\ j \in 1 .. n
      BY <1>3, <2>2, <3>1 DEF ListInv, FateInv
    <3>2. CASE i = n + 1 /\ j \in 1 .. n
      BY <1>3, <2>2, <2>4, <3>2
    <3>3. CASE i \in 1 .. n /\ j = n + 1
      BY <1>3, <2>2, <2>4, <3>3
    <3> QED
      BY <3>1, <3>2, <3>3
  <2> QED
    BY <1>2, <2>3, <2>5 DEF FateInv
<1>9. CallInv(t, n + 1)'
  <2>1. count' = n + 1 /\ tail' = t[n + 1] /\ iter' \in live' \cup {NULL}
    BY <1>0, <1>2, <1>3, <1>5 DEF ListInv, CallInv
  <2>2. open
    BY DEF MayAdd, Running
  <2>3. ASSUME call.op = "remove"
        PROVE  iter # call.node /\ \E p \in 1 .. n + 1 : Removes(t, p)
    <3>1. PICK p \in 1 .. n : Removes(s, p)
      BY <2>3 DEF ListInv, CallInv
    <3>2. p \in 1 .. n + 1 /\ (p # 1 => p - 1 \in 1 .. n)
      OBVIOUS
    <3>3. Removes(t, p)
      BY <1>3, <3>1, <3>2 DEF Removes
    <3> QED
      BY <2>3, <3>2, <3>3 DEF ListInv, CallInv
  <2> QED
    BY <1>0, <1>2, <2>1, <2>2, <2>3 DEF ListInv, CallInv, Removes, Idle
<1>10. Longer(s, n, t, x)
  BY <1>2, <1>3, <1>4, <1>6 DEF Longer, FieldsInv
<1> QED
  BY <1>2, <1>3, <1>6, <1>7, <1>8, <1>9, <1>10 DEF SafeInv, ListInv

\* Releasing the item of a node of the list takes it out of the items that are in.
LEMMA ReleaseStep ==
    ASSUME FieldsInv, NEW n \in Nat, NEW s \in [1 .. n -> Nodes], ListInv(s, n),
           call.node = NULL, NEW p \in 1 .. n, NEW flag \in BOOLEAN,
           fate' = Released(s[p], flag), call'.node = s[p],
           UNCHANGED <<mem, head>>
    PROVE  /\ FateInv(s, n)'
           /\ fate' \in [Items -> {"out", "in", "freed", "destroyed", "dropped"}]
<1> USE ItemListAssumption
<1> DEFINE x == node_item[s[p]]
<1>1. x \in Items /\ \A i \in 1 .. n : s[i] # NULL
  BY DEF ListInv, Listing, FieldsInv
<1>2. PICK f \in {"freed", "destroyed", "dropped"} : fate' = [fate EXCEPT ![x] = f]
  BY DEF Released
<1> HIDE DEF x
<1>3. fate' \in [Items -> {"out", "in", "freed", "destroyed", "dropped"}]
  BY <1>1, <1>2 DEF FieldsInv
<1>4. \A y \in Items : fate'[y] = "in" <=> fate[y] = "in" /\ y # x
  BY <1>1, <1>2 DEF FieldsInv
<1>5. \A i, j \in 1 .. n : node_item[s[i]] = node_item[s[j]] => i = j
  BY <1>1 DEF ListInv, FateInv
<1>6. \A i \in 1 .. n : s[i] # s[p] <=> node_item[s[i]] # x
  BY <1>5 DEF x
<1>7. ASSUME NEW y \in Items
      PROVE  fate'[y] = "in" <=> \E i \in 1 .. n : s[i] # s[p] /\ node_item[s[i]] = y
  BY <1>1, <1>4, <1>6 DEF ListInv, FateInv
<1>8. FateInv(s, n)'
  BY <1>5, <1>7 DEF FateInv, mem
<1> QED
  BY <1>3, <1>8

LEMMA RemoveStep ==
    ASSUME CarefulCaller, ~ub, FieldsInv,
           NEW n \in Nat, NEW s \in [1 .. n -> Nodes], ListInv(s, n),
           NEW k \in Nat, RemoveItem(k)
    PROVE  SafeInv'
<1> USE ItemListAssumption
<1>1. call = Idle /\ open /\ k < n /\ count = n
  BY DEF RemoveItem, Callable, Running, Idle, ListInv, CallInv
<1>2. Listing(s, n)
  BY DEF ListInv
<1>3. Reachable(k) /\ NodeAt[k] = s[k + 1] /\ (k # 0 => NodeAt[k - 1] = s[k])
  <2>1. n <= Cardinality(Nodes) /\ Cardinality(Nodes) \in Nat
    BY <1>2, AsManyNodes
  <2>2. k \in 0 .. Cardinality(Nodes) /\ (k # 0 => k - 1 \in 0 .. Cardinality(Nodes) /\ k - 1 < n)
    BY <1>1, <2>1
  <2>3. Reachable(k)
    BY <1>1, <1>2, ReachableIs
  <2>4. NodeAt[k] = s[k + 1]
    BY <1>1, <1>2, <2>2, WalkIs
  <2>5. ASSUME k # 0 PROVE NodeAt[k - 1] = s[k]
    BY <1>2, <2>2, <2>5, WalkIs
  <2> QED
    BY <2>3, <2>4, <2>5
<1> DEFINE p == k + 1
<1>4. p \in 1 .. n /\ p - 1 = k
  BY <1>1
<1>6. /\ iter' = IF iter = s[p] THEN next[s[p]] ELSE iter
      /\ fate' = Released(s[p], locally_allocated[head])
      /\ call' = [op |-> "remove", node |-> s[p], index |-> k,
                  link |-> IF k = 0 THEN NULL ELSE s[k]]
      /\ cursor' = NULL
      /\ UNCHANGED <<mem, head, tail, count, open, cut, ret, ub>>
  BY <1>3 DEF RemoveItem, IteratorAfter, CursorAfter, CarefulCaller
<1> HIDE DEF p
<1>7. s[p] \in live /\ s[p] \in Nodes /\ NULL \notin Nodes /\ head \in Nodes
  BY <1>4, <1>2 DEF Listing
<1>8. iter' \in live \cup {NULL} /\ iter' # s[p]
  <2>1. next[s[p]] = IF p = n THEN NULL ELSE s[p + 1]
    BY <1>2, <1>4 DEF Listing
  <2>2. next[s[p]] \in live \cup {NULL} /\ next[s[p]] # s[p]
    BY <1>2, <1>4, <1>7, <2>1 DEF Listing
  <2> QED
    BY <1>1, <1>6, <2>2 DEF ListInv, CallInv, Idle
<1>9. call.node = NULL /\ call'.node = s[p] /\ locally_allocated[head] \in BOOLEAN
  BY <1>1, <1>6, <1>7 DEF Idle, FieldsInv
<1>10. FateInv(s, n)' /\ fate' \in [Items -> {"out", "in", "freed", "destroyed", "dropped"}]
  BY <1>4, <1>6, <1>9, ReleaseStep
<1>11. Listing(s, n)'
  BY <1>2, <1>6 DEF Listing, mem
<1>12. FieldsInv'
  <2>1. live \subseteq Nodes /\ (k # 0 => k \in 1 .. n)
    BY <1>1 DEF FieldsInv
  <2>2. iter' \in Nodes \cup {NULL}
    BY <1>8, <2>1
  <2>3. call' \in [op : {"none", "remove", "clear", "destroy"}, node : Nodes \cup {NULL},
                   link : Nodes \cup {NULL}, index : Nat]
    BY <1>6, <1>7, <2>1
  <2> QED
    BY <1>6, <1>10, <2>2, <2>3 DEF FieldsInv, mem
<1>13. CallInv(s, n)'
  <2>1. call'.op = "remove" /\ Removes(s, p)'
    BY <1>4, <1>6 DEF Removes
  <2>2. n > 0 => IF cut THEN tail \notin live ELSE tail = s[n]
    BY <1>1 DEF ListInv, CallInv, Idle
  <2> QED
    BY <1>1, <1>4, <1>6, <1>8, <1>9, <2>1, <2>2 DEF CallInv, mem
<1> QED
  BY <1>6, <1>10, <1>11, <1>12, <1>13 DEF SafeInv, ListInv

\* The sequence of n nodes without its p-th.
Without(s, n, p) == [i \in 1 .. n - 1 |-> IF i < p THEN s[i] ELSE s[i + 1]]

\* Freeing the node whose item was released leaves the list without it.
LEMMA FreeStep ==
    ASSUME FieldsInv, NEW n \in Nat, NEW s \in [1 .. n -> Nodes], ListInv(s, n),
           NEW p \in 1 .. n, call.node = s[p],
           head' = IF p = 1 THEN next[s[p]] ELSE head,
           FreeNode(s[p], IF p = 1 THEN next ELSE [next EXCEPT ![s[p - 1]] = next[s[p]]]),
           call'.node = NULL, fate' = fate
    PROVE  /\ Without(s, n, p) \in [1 .. n - 1 -> Nodes]
           /\ Listing(Without(s, n, p), n - 1)'
           /\ FateInv(Without(s, n, p), n - 1)'
           /\ p < n => Without(s, n, p)[n - 1] = s[n]
           /\ next' \in [Nodes -> Nodes \cup {NULL}]
           /\ node_item' \in [Nodes -> Items \cup {NULL}]
           /\ locally_allocated' \in [Nodes -> BOOLEAN]
           /\ head' \in Nodes \cup {NULL}
           /\ live' \subseteq live /\ live' = live \ {s[p]}
           /\ \A m \in live' : node_item'[m] \in Items
<1> USE ItemListAssumption
<1> DEFINE t == Without(s, n, p)
<1>0. Listing(s, n) /\ live \subseteq Nodes /\ NULL \notin Nodes
  BY DEF ListInv, FieldsInv
<1>1. t \in [1 .. n - 1 -> Nodes]
  BY DEF Without
<1>2. /\ \A i \in 1 .. n - 1 : i < p => t[i] = s[i]
      /\ \A i \in 1 .. n - 1 : i >= p => t[i] = s[i + 1] /\ i + 1 \in 1 .. n
  BY DEF Without
<1> HIDE DEF t
<1>3. /\ live' = live \ {s[p]}
      /\ node_item' = [node_item EXCEPT ![s[p]] = NULL]
      /\ locally_allocated' = [locally_allocated EXCEPT ![s[p]] = FALSE]
  BY DEF FreeNode
<1>4. next' = [m \in Nodes |-> IF m = s[p] THEN NULL
                               ELSE IF p # 1 /\ m = s[p - 1] THEN next[s[p]] ELSE next[m]]
  <2>1. CASE p = 1
    BY <2>1 DEF FreeNode, FieldsInv
  <2>2. CASE p # 1
    BY <2>2 DEF FreeNode, FieldsInv
  <2> QED
    BY <2>1, <2>2
<1>5. \A i \in 1 .. n : s[i] \in live /\ (s[i] = s[p] <=> i = p)
  BY <1>0 DEF Listing
<1>6. \A i \in 1 .. n : next[s[i]] = IF i = n THEN NULL ELSE s[i + 1]
  BY <1>0 DEF Listing
<1>7. \A i \in 1 .. n - 1 : t[i] \in live /\ t[i] # s[p]
  BY <1>2, <1>5
<1>8. \A j \in 1 .. n : j # p => \E i \in 1 .. n - 1 : t[i] = s[j]
  <2> SUFFICES ASSUME NEW j \in 1 .. n, j # p PROVE \E i \in 1 .. n - 1 : t[i] = s[j]
    OBVIOUS
  <2>1. CASE j < p
    <3>1. j \in 1 .. n - 1 /\ t[j] = s[j]
      BY <1>2, <2>1
    <3> QED BY <3>1
  <2>2. CASE j > p
    <3>1. j - 1 \in 1 .. n - 1 /\ j - 1 >= p /\ (j - 1) + 1 = j
      BY <2>2
    <3>2. t[j - 1] = s[j]
      BY <1>2, <3>1
    <3> QED BY <3>1, <3>2
  <2> QED BY <2>1, <2>2
<1>9. \A i, j \in 1 .. n - 1 : t[i] = t[j] => i = j
  <2> SUFFICES ASSUME NEW i \in 1 .. n - 1, NEW j \in 1 .. n - 1, t[i] = t[j] PROVE i = j
    OBVIOUS
  <2> DEFINE a == IF i < p THEN i ELSE i + 1
             b == IF j < p THEN j ELSE j + 1
  <2>1. a \in 1 .. n /\ b \in 1 .. n /\ t[i] = s[a] /\ t[j] = s[b]
    BY <1>2
  <2>2. a = b
    <3> HIDE DEF a, b
    <3> QED BY <1>0, <2>1 DEF Listing
  <2> QED BY <2>2
<1>10. live' = {t[i] : i \in 1 .. n - 1}
  <2>1. \A m \in live' : \E j \in 1 .. n : j # p /\ m = s[j]
    BY <1>0, <1>3 DEF Listing
  <2> QED BY <1>3, <1>7, <1>8, <2>1
<1>11. head' = IF n - 1 = 0 THEN NULL ELSE t[1]
  <2>1. CASE p = 1
    <3>1. head' = IF n = 1 THEN NULL ELSE s[2]
      BY <1>6, <2>1
    <3>2. n # 1 => t[1] = s[2]
      BY <1>2, <2>1
    <3> QED BY <3>1, <3>2
  <2>2. CASE p # 1
    <3>1. n - 1 # 0 /\ 1 \in 1 .. n - 1 /\ 1 < p /\ head = s[1]
      BY <1>0, <2>2 DEF Listing
    <3> QED BY <1>2, <2>2, <3>1
  <2> QED BY <2>1, <2>2
<1>12. ASSUME NEW i \in 1 .. n - 1 PROVE next'[t[i]] = IF i = n - 1 THEN NULL ELSE t[i + 1]
  <2>1. t[i] \in Nodes /\ t[i] # s[p]
    BY <1>1, <1>7
  <2>2. CASE i < p - 1
    <3>1. i \in 1 .. n /\ i < p /\ i # n - 1 /\ i + 1 \in 1 .. n - 1 /\ i + 1 < p /\ p - 1 \in 1 .. n
      BY <2>2
    <3>2. t[i] = s[i] /\ t[i + 1] = s[i + 1] /\ s[i] # s[p - 1]
      BY <1>0, <1>2, <2>2, <3>1 DEF Listing
    <3> QED BY <1>4, <1>6, <2>1, <3>1, <3>2
  <2>3. CASE i = p - 1 /\ p = n
    <3>1. i \in 1 .. n /\ i < p /\ p # 1 /\ i = n - 1
      BY <2>3
    <3>2. t[i] = s[p - 1] /\ next[s[p]] = NULL
      BY <1>2, <1>6, <2>3, <3>1
    <3> QED BY <1>4, <2>1, <3>1, <3>2
  <2>5. CASE i = p - 1 /\ p < n
    <3>1. i \in 1 .. n /\ i < p /\ p # 1 /\ p < n /\ p \in 1 .. n - 1 /\ i # n - 1 /\ i + 1 = p
      BY <2>5
    <3>2. t[i] = s[p - 1] /\ t[p] = s[p + 1] /\ next[s[p]] = s[p + 1]
      BY <1>2, <1>6, <2>5, <3>1
    <3> QED BY <1>4, <2>1, <3>1, <3>2
  <2>4. CASE i >= p
    <3>1. t[i] = s[i + 1] /\ i + 1 \in 1 .. n
      BY <1>2, <2>4
    <3>2. p # 1 => s[i + 1] # s[p - 1]
      BY <1>0, <2>4, <3>1 DEF Listing
    <3>3. next'[t[i]] = IF i + 1 = n THEN NULL ELSE s[(i + 1) + 1]
      BY <1>4, <1>6, <2>1, <3>1, <3>2
    <3>4. i # n - 1 => t[i + 1] = s[(i + 1) + 1]
      BY <1>2, <2>4
    <3> QED BY <3>3, <3>4
  <2> QED BY <2>2, <2>3, <2>4, <2>5
<1>13. Listing(t, n - 1)'
  BY <1>9, <1>10, <1>11, <1>12 DEF Listing
<1>14. FateInv(t, n - 1)'
  <2>1. \A i \in 1 .. n - 1 : t[i] # NULL /\ node_item'[t[i]] = node_item[t[i]]
    BY <1>0, <1>3, <1>7 DEF FieldsInv
  <2>2. \A i \in 1 .. n - 1 : \E j \in 1 .. n : t[i] = s[j] /\ s[j] # call.node
    BY <1>2, <1>7
  <2>3. \A x \in Items : fate[x] = "in" <=> \E j \in 1 .. n : s[j] # call.node /\ node_item[s[j]] = x
    BY DEF ListInv, FateInv
  <2>4. \A j \in 1 .. n : s[j] # call.node => \E i \in 1 .. n - 1 : t[i] = s[j]
    BY <1>5, <1>8
  <2>5. ASSUME NEW x \in Items
        PROVE  fate[x] = "in" <=> \E i \in 1 .. n - 1 : node_item[t[i]] = x
    <3>1. ASSUME fate[x] = "in" PROVE \E i \in 1 .. n - 1 : node_item[t[i]] = x
      <4>1. PICK j \in 1 .. n : s[j] # call.node /\ node_item[s[j]] = x
        BY <2>3, <3>1
      <4>2. PICK i \in 1 .. n - 1 : t[i] = s[j]
        BY <2>4, <4>1
      <4> QED BY <4>1, <4>2
    <3>2. ASSUME NEW i \in 1 .. n - 1, node_item[t[i]] = x PROVE fate[x] = "in"
      BY <2>2, <2>3, <3>2
    <3> QED BY <3>1, <3>2
  <2>6. \A i, j \in 1 .. n - 1 : node_item[t[i]] = node_item[t[j]] => t[i] = t[j]
    BY <2>2 DEF ListInv, FateInv
  <2>7. \A i, j \in 1 .. n - 1 : node_item'[t[i]] = node_item'[t[j]] => i = j
    BY <1>9, <2>1, <2>6
  <2>8. \A x \in Items : fate'[x] = "in" <=>
            \E i \in 1 .. n - 1 : t[i] # call'.node /\ node_item'[t[i]] = x
    BY <2>1, <2>5
  <2> QED BY <2>7, <2>8 DEF FateInv
<1>15. p < n => t[n - 1] = s[n]
  BY <1>2
<1>16. /\ next' \in [Nodes -> Nodes \cup {NULL}]
       /\ node_item' \in [Nodes -> Items \cup {NULL}]
       /\ locally_allocated' \in [Nodes -> BOOLEAN]
       /\ \A m \in live' : node_item'[m] \in Items
  BY <1>0, <1>3, <1>4 DEF FieldsInv
<1>17. head' \in Nodes \cup {NULL}
  BY <1>1, <1>11
<1> QED
  BY <1>1, <1>3, <1>13, <1>14, <1>15, <1>16, <1>17 DEF t

\* The list without its p-th node.
Shorter(s, n, p) ==
    /\ Without(s, n, p) \in [1 .. n - 1 -> Nodes]
    /\ Listing(Without(s, n, p), n - 1)'
    /\ \A i \in 1 .. n - 1 : node_item'[Without(s, n, p)[i]] = node_item[Without(s, n, p)[i]]
    /\ cursor = NULL /\ cursor' = NULL /\ ret' = ret

LEMMA RemoveEndStep ==
    ASSUME ~ub, FieldsInv, NEW n \in Nat, NEW s \in [1 .. n -> Nodes], ListInv(s, n),
           RemoveItemEnd
    PROVE  SafeInv' /\ \E p \in 1 .. n : Shorter(s, n, p)
<1> USE ItemListAssumption
<1>1. /\ call.op = "remove" /\ open /\ count = n /\ cursor = NULL /\ iter # call.node
      /\ iter \in live \cup {NULL} /\ (n > 0 => IF cut THEN tail \notin live ELSE tail = s[n])
  BY DEF RemoveItemEnd, Running, ListInv, CallInv
<1>2. PICK p \in 1 .. n : Removes(s, p)
  BY <1>1 DEF ListInv, CallInv
<1>3. call.node = s[p] /\ (call.link = NULL <=> p = 1) /\ (p # 1 => call.link = s[p - 1])
  <2>1. p # 1 => p - 1 \in 1 .. n
    OBVIOUS
  <2>2. p # 1 => s[p - 1] \in Nodes
    BY <2>1
  <2> QED
    BY <1>2, <2>2 DEF Removes
<1>4. LinksWithout(s[p], call.link) =
          IF p = 1 THEN next ELSE [next EXCEPT ![s[p - 1]] = next[s[p]]]
  BY <1>3 DEF LinksWithout
<1>5. /\ head' = IF p = 1 THEN next[s[p]] ELSE head
      /\ FreeNode(s[p], IF p = 1 THEN next ELSE [next EXCEPT ![s[p - 1]] = next[s[p]]])
      /\ count' = n - 1 /\ call' = Idle /\ UNCHANGED <<tail, iter, open, cursor, fate, ret, ub>>
      /\ cut' = (head' # NULL /\ (cut \/ next[s[p]] = NULL))
  BY <1>1, <1>3, <1>4 DEF RemoveItemEnd
<1>6. call'.node = NULL /\ call'.op = "none"
  BY <1>5 DEF Idle
<1> DEFINE t == Without(s, n, p)
<1>7. /\ t \in [1 .. n - 1 -> Nodes]
      /\ Listing(t, n - 1)' /\ FateInv(t, n - 1)'
      /\ p < n => t[n - 1] = s[n]
      /\ next' \in [Nodes -> Nodes \cup {NULL}]
      /\ node_item' \in [Nodes -> Items \cup {NULL}]
      /\ locally_allocated' \in [Nodes -> BOOLEAN]
      /\ head' \in Nodes \cup {NULL}
      /\ live' \subseteq live /\ live' = live \ {s[p]}
      /\ \A m \in live' : node_item'[m] \in Items
  <2>1. /\ fate' = fate /\ call.node = s[p]
        /\ head' = IF p = 1 THEN next[s[p]] ELSE head
        /\ FreeNode(s[p], IF p = 1 THEN next ELSE [next EXCEPT ![s[p - 1]] = next[s[p]]])
    BY <1>3, <1>5
  <2> HIDE DEF t
  <2>3. /\ Without(s, n, p) \in [1 .. n - 1 -> Nodes]
        /\ Listing(Without(s, n, p), n - 1)'
        /\ FateInv(Without(s, n, p), n - 1)'
        /\ p < n => Without(s, n, p)[n - 1] = s[n]
        /\ next' \in [Nodes -> Nodes \cup {NULL}]
        /\ node_item' \in [Nodes -> Items \cup {NULL}]
        /\ locally_allocated' \in [Nodes -> BOOLEAN]
        /\ head' \in Nodes \cup {NULL}
        /\ live' \subseteq live /\ live' = live \ {s[p]}
        /\ \A m \in live' : node_item'[m] \in Items
    BY <1>6, <2>1, FreeStep, Zenon
  <2> QED BY <2>3, Zenon DEF t
<1> HIDE DEF t
<1>8. FieldsInv'
  <2>1. n - 1 \in Nat /\ n - 1 <= Cardinality(Nodes) /\ cursor' \in live' \cup {NULL}
    <3>1. Cardinality(Nodes) \in Nat
      BY FS_CardinalityType
    <3> QED BY <1>1, <1>5, <3>1 DEF FieldsInv
  <2>2. call' \in [op : {"none", "remove", "clear", "destroy"}, node : Nodes \cup {NULL},
                   link : Nodes \cup {NULL}, index : Nat]
    BY <1>5 DEF Idle
  <2> QED BY <1>5, <1>7, <2>1, <2>2 DEF FieldsInv
<1>9. CallInv(t, n - 1)'
  <2>0. n - 1 = 0 => head' = NULL
    BY <1>7 DEF Listing
  <2>1. ASSUME n - 1 > 0 PROVE IF cut' THEN tail' \notin live' ELSE tail' = t[n - 1]
    <3>0. head' # NULL
      <4>1. 1 \in 1 .. n - 1 /\ head' = t[1]
        BY <1>7, <2>1 DEF Listing
      <4> QED BY <1>7, <4>1
    <3>1. CASE p = n
      <4>1. cut'
        BY <1>5, <3>0, <3>1 DEF ListInv, Listing
      <4> QED BY <1>1, <1>5, <1>7, <3>1, <4>1
    <3>2. CASE p < n
      <4>1. next[s[p]] = s[p + 1] /\ p + 1 \in 1 .. n
        BY <3>2 DEF ListInv, Listing
      <4>2. cut' <=> cut
        BY <1>5, <3>0, <4>1 DEF FieldsInv
      <4> QED BY <1>1, <1>5, <1>7, <3>2, <4>2
    <3> QED BY <3>1, <3>2
  <2>2. iter' \in live' \cup {NULL}
    BY <1>1, <1>3, <1>5, <1>7
  <2> QED BY <1>1, <1>5, <1>6, <2>0, <2>1, <2>2 DEF CallInv
<1>10. n - 1 \in Nat
  OBVIOUS
<1>11. Shorter(s, n, p)
  <2>1. \A i \in 1 .. n - 1 : t[i] \in live' /\ t[i] # s[p]
    <3>1. live' = {t[i] : i \in 1 .. n - 1} /\ live' = live \ {s[p]}
      BY <1>7 DEF Listing
    <3> QED BY <3>1
  <2>2. \A i \in 1 .. n - 1 : node_item'[t[i]] = node_item[t[i]]
    BY <1>5, <1>7, <2>1 DEF FreeNode, FieldsInv
  <2>3. cursor = NULL /\ cursor' = NULL /\ ret' = ret
    BY <1>1, <1>5
  <2> QED BY <1>7, <2>2, <2>3, Zenon DEF Shorter, t
<1> QED BY <1>5, <1>7, <1>8, <1>9, <1>10, <1>11 DEF SafeInv, ListInv

LEMMA ClearStep ==
    ASSUME CarefulCaller, ~ub, FieldsInv,
           NEW n \in Nat, NEW s \in [1 .. n -> Nodes], ListInv(s, n),
           NEW op \in {"clear", "destroy"}, Clear(op)
    PROVE  SafeInv'
<1>1. /\ call = Idle /\ open /\ count = n
      /\ call' = [op |-> op, node |-> NULL, link |-> NULL, index |-> 0]
      /\ cursor' = NULL
      /\ UNCHANGED <<mem, info, fate, ret, ub>>
  BY DEF Clear, Callable, Running, CursorAfter, CarefulCaller, Idle, ListInv, CallInv
<1>2. Listing(s, n)'
  BY <1>1 DEF ListInv, Listing, mem, info
<1>3. FateInv(s, n)'
  BY <1>1 DEF ListInv, FateInv, mem, Idle
<1>4. CallInv(s, n)'
  BY <1>1 DEF ListInv, CallInv, info
<1>5. FieldsInv'
  BY <1>1 DEF FieldsInv, mem, info
<1> QED BY <1>1, <1>2, <1>3, <1>4, <1>5 DEF SafeInv, ListInv

LEMMA ClearItemStep ==
    ASSUME ~ub, FieldsInv, NEW n \in Nat, NEW s \in [1 .. n -> Nodes], ListInv(s, n),
           ClearItem
    PROVE  SafeInv'
<1> USE ItemListAssumption
<1>1. /\ call.op \in {"clear", "destroy"} /\ open /\ call.node = NULL
      /\ call.index + n = count /\ call.index < count /\ cursor = NULL
  BY DEF ClearItem, Clearing, Running, ListInv, CallInv
<1>2. n > 0 /\ call.index \in Nat
  BY <1>1 DEF FieldsInv
<1>3. head = s[1] /\ 1 \in 1 .. n /\ head \in live /\ head \in Nodes
  BY <1>2 DEF ListInv, Listing
<1>4. /\ fate' = Released(s[1], locally_allocated[head])
      /\ call' = [call EXCEPT !.node = head, !.link = next[head]]
      /\ UNCHANGED <<mem, info, cursor, ret, ub>>
  BY <1>3 DEF ClearItem
<1>5. /\ call'.op = call.op /\ call'.index = call.index
      /\ call'.node = head /\ call'.link = next[head]
      /\ call' \in [op : {"none", "remove", "clear", "destroy"}, node : Nodes \cup {NULL},
                   link : Nodes \cup {NULL}, index : Nat]
  BY <1>3, <1>4 DEF FieldsInv
<1>6. locally_allocated[head] \in BOOLEAN /\ UNCHANGED <<mem, head>>
  BY <1>3, <1>4 DEF FieldsInv, info
<1>7. FateInv(s, n)' /\ fate' \in [Items -> {"out", "in", "freed", "destroyed", "dropped"}]
  BY <1>1, <1>3, <1>4, <1>5, <1>6, ReleaseStep
<1>8. Listing(s, n)'
  BY <1>6 DEF ListInv, Listing, mem
<1>9. CallInv(s, n)'
  BY <1>1, <1>2, <1>4, <1>5 DEF CallInv, mem, info
<1>10. FieldsInv'
  BY <1>4, <1>5, <1>7 DEF FieldsInv, mem, info
<1> QED BY <1>4, <1>7, <1>8, <1>9, <1>10 DEF SafeInv, ListInv

LEMMA ClearItemEndStep ==
    ASSUME ~ub, FieldsInv, NEW n \in Nat, NEW s \in [1 .. n -> Nodes], ListInv(s, n),
           ClearItemEnd
    PROVE  SafeInv' /\ n > 0 /\ Shorter(s, n, 1)
<1> USE ItemListAssumption
<1>1. /\ call.op \in {"clear", "destroy"} /\ open /\ call.node # NULL /\ cursor = NULL
      /\ call.index + n = count /\ n > 0 /\ call.node = head /\ call.link = next[head]
  BY DEF ClearItemEnd, Clearing, Running, ListInv, CallInv
<1>2. head = s[1] /\ 1 \in 1 .. n /\ call.index \in Nat
  BY <1>1 DEF ListInv, Listing, FieldsInv
<1>3. /\ head' = next[s[1]]
      /\ FreeNode(s[1], next)
      /\ call' = [call EXCEPT !.node = NULL, !.link = NULL, !.index = @ + 1]
      /\ cut' = (cut /\ head' # NULL)
      /\ UNCHANGED <<tail, count, iter, open, cursor, fate, ret, ub>>
  BY <1>1, <1>2 DEF ClearItemEnd, NextTurn
<1>4. /\ call'.op = call.op /\ call'.index = call.index + 1 /\ call'.node = NULL
      /\ call' \in [op : {"none", "remove", "clear", "destroy"}, node : Nodes \cup {NULL},
                   link : Nodes \cup {NULL}, index : Nat]
  <2>1. call \in [op : {"none", "remove", "clear", "destroy"}, node : Nodes \cup {NULL},
                  link : Nodes \cup {NULL}, index : Nat]
    BY DEF FieldsInv
  <2>2. call' = [op |-> call.op, node |-> NULL, link |-> NULL, index |-> call.index + 1]
    BY <1>3, <2>1
  <2> QED BY <2>1, <2>2
<1> DEFINE t == Without(s, n, 1)
<1>5. /\ t \in [1 .. n - 1 -> Nodes]
      /\ Listing(t, n - 1)' /\ FateInv(t, n - 1)'
      /\ next' \in [Nodes -> Nodes \cup {NULL}]
      /\ node_item' \in [Nodes -> Items \cup {NULL}]
      /\ locally_allocated' \in [Nodes -> BOOLEAN]
      /\ head' \in Nodes \cup {NULL}
      /\ live' \subseteq live
      /\ \A m \in live' : node_item'[m] \in Items
  <2>1. /\ head' = IF 1 = 1 THEN next[s[1]] ELSE head
        /\ FreeNode(s[1], IF 1 = 1 THEN next ELSE [next EXCEPT ![s[1 - 1]] = next[s[1]]])
    BY <1>3
  <2>2. call.node = s[1] /\ fate' = fate
    BY <1>1, <1>2, <1>3
  <2> QED BY <1>2, <1>4, <2>1, <2>2, FreeStep
<1> HIDE DEF t
<1>6. FieldsInv'
  BY <1>1, <1>3, <1>4, <1>5 DEF FieldsInv
<1>7. CallInv(t, n - 1)'
  <2>1. n - 1 = 0 => ~cut'
    BY <1>3, <1>5 DEF Listing
  <2> QED BY <1>1, <1>2, <1>3, <1>4, <2>1 DEF CallInv
<1>8. n - 1 \in Nat
  BY <1>1
<1>9. Shorter(s, n, 1)
  <2>1. \A i \in 1 .. n - 1 : t[i] \in live' /\ t[i] # s[1]
    BY <1>3, <1>5 DEF Listing, FreeNode
  <2>2. \A i \in 1 .. n - 1 : node_item'[t[i]] = node_item[t[i]]
    BY <1>3, <1>5, <2>1 DEF FreeNode, FieldsInv
  <2>3. cursor = NULL /\ cursor' = NULL /\ ret' = ret
    BY <1>1, <1>3
  <2> QED BY <1>5, <2>2, <2>3, Zenon DEF Shorter, t
<1> QED BY <1>1, <1>3, <1>5, <1>6, <1>7, <1>8, <1>9 DEF SafeInv, ListInv

LEMMA ClearEndStep ==
    ASSUME ~ub, FieldsInv, NEW n \in Nat, NEW s \in [1 .. n -> Nodes], ListInv(s, n),
           ClearEnd
    PROVE  SafeInv'
<1> USE ItemListAssumption
<1>1. /\ call.op \in {"clear", "destroy"} /\ call.node = NULL /\ cursor = NULL
      /\ call.index + n = count /\ call.index >= count
  BY DEF ClearEnd, Clearing, ListInv, CallInv
<1>2. n = 0
  BY <1>1 DEF FieldsInv
<1>3. /\ count' = 0 /\ iter' = NULL /\ open' \in BOOLEAN /\ call' = Idle
      /\ UNCHANGED <<mem, head, tail, cursor, fate, cut, ret, ub>>
  BY DEF ClearEnd
<1>4. call'.op = "none" /\ call'.node = NULL /\ Cardinality(Nodes) \in Nat
  BY <1>3, FS_CardinalityType DEF Idle
<1>5. Listing(s, n)'
  BY <1>3 DEF ListInv, Listing, mem
<1>6. FateInv(s, n)'
  BY <1>1, <1>3, <1>4 DEF ListInv, FateInv, mem
<1>7. CallInv(s, n)'
  BY <1>2, <1>3, <1>4 DEF CallInv, ListInv
<1>8. FieldsInv'
  <2>1. call' \in [op : {"none", "remove", "clear", "destroy"}, node : Nodes \cup {NULL},
                   link : Nodes \cup {NULL}, index : Nat]
    BY <1>3 DEF Idle
  <2>2. 0 \in Nat /\ 0 <= Cardinality(Nodes)
    BY <1>4
  <2> QED BY <1>3, <2>1, <2>2 DEF FieldsInv, mem
<1> QED BY <1>3, <1>5, <1>6, <1>7, <1>8 DEF SafeInv, ListInv

LEMMA CreateStep ==
    ASSUME ~ub, FieldsInv, NEW n \in Nat, NEW s \in [1 .. n -> Nodes], ListInv(s, n), Create
    PROVE  SafeInv'
<1> USE ItemListAssumption
<1>1. ~open /\ n = 0 /\ call.op = "none" /\ call = Idle
  <2>1. ~open /\ n = 0 /\ ~(call.op # "none")
    BY DEF Create, ListInv, CallInv
  <2> QED BY <2>1 DEF ListInv, CallInv
<1>2. /\ open' = TRUE /\ head' = NULL /\ tail' = NULL /\ count' = 0 /\ iter' = NULL
      /\ UNCHANGED <<mem, cursor, call, fate, cut, ret, ub>>
  BY DEF Create
<1>3. Listing(s, n)'
  BY <1>1, <1>2 DEF ListInv, Listing, mem
<1>4. FateInv(s, n)'
  BY <1>1, <1>2 DEF ListInv, FateInv, mem
<1>5. CallInv(s, n)'
  BY <1>1, <1>2 DEF CallInv, ListInv
<1>6. FieldsInv'
  <2>1. 0 \in Nat /\ 0 <= Cardinality(Nodes)
    BY FS_CardinalityType
  <2> QED BY <1>2, <2>1 DEF FieldsInv, mem
<1> QED BY <1>2, <1>3, <1>4, <1>5, <1>6 DEF SafeInv, ListInv

LEMMA QueryStep ==
    ASSUME ~ub, FieldsInv, NEW n \in Nat, NEW s \in [1 .. n -> Nodes], ListInv(s, n),
           (\E x \in Items : AddFails(x)) \/ Iterator \/ GetNext \/ \E k \in Nat : GetItem(k)
    PROVE  SafeInv'
<1> USE ItemListAssumption
<1>0. Listing(s, n) /\ live \subseteq Nodes /\ head \in live \cup {NULL}
  BY DEF ListInv, Listing, FieldsInv
<1>1. CASE \E x \in Items : AddFails(x)
  <2>1. FieldsInv'
    BY <1>1 DEF AddFails, FieldsInv, Answer, mem, info
  <2> QED BY <1>1, <2>1, SameList DEF AddFails, info
<1>2. CASE Iterator
  <2>1. /\ call = Idle /\ UNCHANGED <<mem, head, tail, count, open, cut, call, fate, ret, ub>>
        /\ iter' \in {iter, head} /\ cursor' \in {NULL, head}
    BY <1>2 DEF Iterator, Callable
  <2>2. FieldsInv'
    BY <1>0, <2>1 DEF FieldsInv, mem
  <2> QED BY <2>1, <2>2, SameList
<1>3. CASE GetNext
  <2>1. /\ call = Idle /\ UNCHANGED <<mem, info, call, fate, ub>>
        /\ ret' = Answer(0, IF cursor = NULL THEN NULL ELSE node_item[cursor])
        /\ cursor' = IF cursor = NULL THEN NULL ELSE next[cursor]
    BY <1>3 DEF GetNext, Callable, FieldsInv
  <2>2. cursor' \in live \cup {NULL}
    BY <1>0, <2>1 DEF Listing, FieldsInv
  <2>3. ret' \in [at : Nat, is : Items \cup {NULL, "failed"}]
    BY <2>1 DEF FieldsInv, Answer
  <2>4. FieldsInv'
    BY <2>1, <2>2, <2>3 DEF FieldsInv, mem, info
  <2> QED BY <2>1, <2>4, SameList DEF info
<1>4. ASSUME NEW k \in Nat, GetItem(k) PROVE SafeInv'
  <2>1. call = Idle /\ count = n
    BY <1>4 DEF GetItem, Callable, Idle, ListInv, CallInv
  <2>2. k < n => Reachable(k)
    BY <1>0, ReachableIs
  <2>3. /\ ret' = Answer(k + 1, IF k < n THEN node_item[NodeAt[k]] ELSE NULL)
        /\ UNCHANGED <<mem, info, cursor, call, fate, ub>>
    BY <1>4, <2>1, <2>2 DEF GetItem
  <2>4. k < n => NodeAt[k] \in live
    BY <2>2 DEF Reachable
  <2>5. ret' \in [at : Nat, is : Items \cup {NULL, "failed"}]
    BY <2>3, <2>4 DEF FieldsInv, Answer
  <2>6. FieldsInv'
    BY <2>3, <2>5 DEF FieldsInv, mem, info
  <2> QED BY <2>1, <2>3, <2>6, SameList DEF info
<1> QED BY <1>1, <1>2, <1>3, <1>4

LEMMA SafeInvStep == CarefulCaller /\ SafeInv /\ [Next]_vars => SafeInv'
<1> SUFFICES ASSUME CarefulCaller, SafeInv, [Next]_vars PROVE SafeInv'
  OBVIOUS
<1>1. PICK n \in Nat : \E s \in [1 .. n -> Nodes] : ListInv(s, n)
  BY DEF SafeInv
<1>2. PICK s \in [1 .. n -> Nodes] : ListInv(s, n)
  BY <1>1
<1>3. ~ub /\ FieldsInv
  BY DEF SafeInv
<1>4. ASSUME NEW x \in Items, AddItem(x) \/ AddCopy(x) PROVE SafeInv'
  BY <1>2, <1>3, <1>4, AddStep DEF AddItem, AddCopy
<1>5. Cardinality(Nodes) \in Nat
  BY ItemListAssumption, FS_CardinalityType
<1>6. ASSUME NEW k \in 0 .. Cardinality(Nodes), RemoveItem(k) PROVE SafeInv'
  BY <1>2, <1>3, <1>5, <1>6, RemoveStep
<1>7. ASSUME NEW k \in 0 .. Cardinality(Nodes), GetItem(k) PROVE SafeInv'
  BY <1>2, <1>3, <1>5, <1>7, QueryStep
<1>8. CASE Create
  BY <1>2, <1>3, <1>8, CreateStep
<1>9. CASE RemoveItemEnd
  BY <1>2, <1>3, <1>9, RemoveEndStep
<1>10. CASE Clear("clear") \/ Clear("destroy")
  BY <1>2, <1>3, <1>10, ClearStep
<1>11. CASE ClearItem
  BY <1>2, <1>3, <1>11, ClearItemStep
<1>12. CASE ClearItemEnd
  BY <1>2, <1>3, <1>12, ClearItemEndStep
<1>13. CASE ClearEnd
  BY <1>2, <1>3, <1>13, ClearEndStep
<1>14. CASE (\E x \in Items : AddFails(x)) \/ Iterator \/ GetNext
  BY <1>2, <1>3, <1>14, QueryStep
<1>15. CASE UNCHANGED vars
  <2>1. UNCHANGED <<next, node_item, locally_allocated, live, head, tail, count, iter, open,
                    cut, cursor, call, fate, ret, ub>>
    BY <1>15 DEF vars, mem, info
  <2>2. ListInv(s, n)'
    BY <1>2, <2>1 DEF ListInv, Listing, CallInv, Removes, FateInv
  <2>3. FieldsInv'
    BY <1>3, <2>1 DEF FieldsInv
  <2> QED BY <1>3, <2>1, <2>2, <2>3 DEF SafeInv
<1> QED BY <1>4, <1>6, <1>7, <1>8, <1>9, <1>10, <1>11, <1>12, <1>13, <1>14, <1>15 DEF Next

LEMMA SafeInvariant == CarefulCaller => (Spec => []SafeInv)
<1> SUFFICES ASSUME CarefulCaller PROVE Spec => []SafeInv
  OBVIOUS
<1> QED BY SafeInvInit, SafeInvStep, PTL DEF Spec

-----------------------------------------------------------------------------
(* Theorems                                                                    *)

\* No careful caller makes item_list.c dereference NULL or a freed node, whatever
\* his callbacks add during a removal: the walk of item_list_remove_item stays on
\* the list, and tail_node and both iterators never point at a freed node when
\* they are followed.
THEOREM MemorySafe ==
    ASSUME CarefulCaller
    PROVE  Spec => []NoUndefinedBehaviour
<1>1. SafeInv => NoUndefinedBehaviour
  BY DEF SafeInv, NoUndefinedBehaviour
<1> QED BY <1>1, SafeInvariant, PTL

\* The memory of copies: as long as a destroy_cb takes what is not freed, the list
\* is to free the copies that are in it.
CopiesInv ==
    /\ copied \subseteq Copies
    /\ fate \in [Items -> {"out", "in", "freed", "destroyed", "dropped"}]
    /\ HasDestroy => copied = {x \in Copies : fate[x] = "in"}

LEMMA CopiesRelease ==
    ASSUME CopiesInv, NEW m, NEW flag,
           fate' = Released(m, flag), copied' = CopiedAfter(m, flag)
    PROVE  CopiesInv'
<1> USE ItemListAssumption
<1>1. PICK f \in {"freed", "destroyed", "dropped"} : fate' = [fate EXCEPT ![node_item[m]] = f]
  BY DEF Released
<1>2. copied' \subseteq copied /\ (HasDestroy => copied' = copied \ {node_item[m]})
  BY DEF CopiedAfter
<1>3. \A y \in Items : fate'[y] = IF y = node_item[m] THEN f ELSE fate[y]
  BY <1>1 DEF CopiesInv
<1>4. fate' \in [Items -> {"out", "in", "freed", "destroyed", "dropped"}]
  BY <1>1 DEF CopiesInv
<1>5. ASSUME HasDestroy PROVE copied' = {x \in Copies : fate'[x] = "in"}
  <2>1. copied = {x \in Copies : fate[x] = "in"} /\ Copies \subseteq Items
    BY <1>5 DEF CopiesInv, Items
  <2> QED BY <1>2, <1>3, <1>5, <2>1
<1> QED BY <1>2, <1>4, <1>5 DEF CopiesInv

LEMMA CopiesStep == CopiesInv /\ [Next]_vars => CopiesInv'
<1> SUFFICES ASSUME CopiesInv, [Next]_vars PROVE CopiesInv'
  OBVIOUS
<1> USE ItemListAssumption
<1>1. ASSUME UNCHANGED <<copied, fate>> PROVE CopiesInv'
  BY <1>1 DEF CopiesInv
<1>2. ASSUME NEW x \in Items, NEW flag \in BOOLEAN, flag <=> x \in Copies, AddNewItem(x, flag)
      PROVE  CopiesInv'
  <2>1. CASE UndefinedBehaviour
    BY <1>1, <2>1 DEF UndefinedBehaviour
  <2>2. CASE ~UndefinedBehaviour
    <3>1. /\ copied' = IF flag THEN copied \cup {x} ELSE copied
          /\ fate' = [fate EXCEPT ![x] = "in"]
      BY <1>2, <2>2 DEF AddNewItem
    <3> QED BY <1>2, <3>1 DEF CopiesInv, Items
  <2> QED BY <2>1, <2>2
<1>3. ASSUME NEW x \in Items, AddItem(x) \/ AddCopy(x) PROVE CopiesInv'
  BY <1>2, <1>3 DEF AddItem, AddCopy
<1>4. ASSUME NEW x \in Items, AddFails(x) PROVE CopiesInv'
  <2>1. fate' = fate /\ (copied' = copied \/ copied' = (copied \cup {x}) \ {x})
    BY <1>4 DEF AddFails, AfterNodeFailure
  <2>2. fate[x] # "in"
    BY <1>4 DEF AddFails
  <2> QED BY <2>1, <2>2 DEF CopiesInv
<1>5. ASSUME NEW k \in 0 .. Cardinality(Nodes), RemoveItem(k) PROVE CopiesInv'
  <2>1. CASE ~Reachable(k)
    BY <1>1, <1>5, <2>1 DEF RemoveItem, UndefinedBehaviour
  <2>2. CASE Reachable(k)
    BY <1>5, <2>2, CopiesRelease DEF RemoveItem
  <2> QED BY <2>1, <2>2
<1>6. CASE ClearItem
  <2>1. CASE head \notin live
    BY <1>1, <1>6, <2>1 DEF ClearItem, UndefinedBehaviour
  <2>2. CASE head \in live
    BY <1>6, <2>2, CopiesRelease DEF ClearItem
  <2> QED BY <2>1, <2>2
<1>7. CASE RemoveItemEnd \/ ClearItemEnd \/ ClearEnd
  BY <1>1, <1>7 DEF RemoveItemEnd, ClearItemEnd, ClearEnd
<1>8. CASE Create \/ Clear("clear") \/ Clear("destroy") \/ Iterator
  BY <1>1, <1>8 DEF Create, Clear, Iterator
<1>9. CASE GetNext \/ \E k \in 0 .. Cardinality(Nodes) : GetItem(k)
  BY <1>1, <1>9 DEF GetNext, GetItem, UndefinedBehaviour
<1>10. CASE UNCHANGED vars
  BY <1>1, <1>10 DEF vars
<1> QED BY <1>3, <1>4, <1>5, <1>6, <1>7, <1>8, <1>9, <1>10 DEF Next

LEMMA CopiesInvariant == Spec => []CopiesInv
<1>1. Init => CopiesInv
  BY DEF Init, CopiesInv, Items
<1> QED BY <1>1, CopiesStep, PTL DEF Spec

\* Between the calls of a careful caller the list holds exactly the items added
\* and not released, item_count is their number, no node is allocated outside of
\* it, and no copy: not when the node of an addition cannot be allocated either.
\* After item_list_destroy nothing is.  Without a destroy_cb a copy that is removed
\* behind an item of the caller is given to nobody (item_list.c:194), hence the
\* hypothesis.
THEOREM AllAccountedFor ==
    ASSUME CarefulCaller, HasDestroy
    PROVE  Spec => []NothingLost
<1>1. SafeInv /\ CopiesInv => NothingLost
  <2> SUFFICES ASSUME SafeInv, CopiesInv PROVE NothingLost
    OBVIOUS
  <2>1. PICK n \in Nat : \E s \in [1 .. n -> Nodes] : ListInv(s, n)
    BY DEF SafeInv
  <2>2. PICK s \in [1 .. n -> Nodes] : ListInv(s, n)
    BY <2>1
  <2>3. FieldsInv /\ Listing(s, n) /\ NULL \notin Nodes
    BY <2>2, ItemListAssumption DEF SafeInv, ListInv
  <2>4. Len(Chain) = n /\ InChain = live
    BY <2>3, ChainIs
  <2>5. ~(call.op # "none") => call.node = NULL
    BY <2>2 DEF ListInv, CallInv, Idle
  <2>6. ASSUME call.node = NULL
        PROVE  {i \in Items : fate[i] = "in"} = {node_item[m] : m \in live}
    <3>1. \A x \in Items : fate[x] = "in" <=> \E i \in 1 .. n : node_item[s[i]] = x
      BY <2>2, <2>3, <2>6 DEF ListInv, FateInv
    <3>2. \A x \in Items : fate[x] = "in" <=> \E m \in live : node_item[m] = x
      BY <2>3, <3>1 DEF Listing
    <3> QED BY <2>3, <3>2 DEF FieldsInv
  <2>7. ASSUME Callable
        PROVE  /\ {i \in Items : fate[i] = "in"} = {node_item[m] : m \in InChain}
               /\ live = InChain
               /\ copied = {node_item[m] : m \in InChain} \cap Copies
               /\ count = Len(Chain)
    <3>1. call.node = NULL /\ call.op = "none"
      BY <2>7 DEF Callable, Idle
    <3>2. count = n
      BY <2>2, <3>1 DEF ListInv, CallInv
    <3>3. copied = {i \in Items : fate[i] = "in"} \cap Copies
      BY DEF CopiesInv, Items
    <3> QED BY <2>4, <2>6, <3>1, <3>2, <3>3
  <2>8. ASSUME ~open PROVE live = {} /\ copied = {} /\ \A i \in Items : fate[i] # "in"
    <3>1. n = 0
      BY <2>2, <2>8 DEF ListInv, CallInv
    <3>2. live = {} /\ \A i \in Items : fate[i] # "in"
      BY <2>2, <2>3, <3>1 DEF ListInv, Listing, FateInv
    <3> QED BY <3>2 DEF CopiesInv, Items
  <2> QED BY <2>7, <2>8 DEF NothingLost
<1> QED BY <1>1, SafeInvariant, CopiesInvariant, PTL

\* For such a caller, whichever items he removes, tail_node is the last node or, after
\* the removal of the last of several, no node in use, and the iterator of the handle
\* is a node of the list, whenever a call may begin.
THEOREM HandleStaysConsistent ==
    ASSUME CarefulCaller
    PROVE  Spec => []HandleConsistent
<1>1. SafeInv /\ CopiesInv => HandleConsistent
  <2> SUFFICES ASSUME SafeInv, CopiesInv PROVE HandleConsistent
    OBVIOUS
  <2>1. PICK n \in Nat : \E s \in [1 .. n -> Nodes] : ListInv(s, n)
    BY DEF SafeInv
  <2>2. PICK s \in [1 .. n -> Nodes] : ListInv(s, n)
    BY <2>1
  <2>3. FieldsInv /\ Listing(s, n) /\ NULL \notin Nodes
    BY <2>2, ItemListAssumption DEF SafeInv, ListInv
  <2>4. Chain = s /\ Len(Chain) = n /\ InChain = live
    BY <2>3, ChainIs
  <2>5. ASSUME Callable
        PROVE  /\ head # NULL => IF cut THEN tail \notin live ELSE tail = Chain[Len(Chain)]
               /\ iter \in InChain \cup {NULL}
    <3>1. call.op = "none"
      BY <2>5 DEF Callable, Idle
    <3>2. head # NULL => n > 0
      BY <2>3 DEF Listing
    <3> QED BY <2>2, <2>4, <3>1, <3>2 DEF ListInv, CallInv
  <2>6. TypeOK
    <3>1. count \in 0 .. Cardinality(Nodes) + 1
      BY ItemListAssumption, FS_CardinalityType DEF SafeInv, FieldsInv
    <3> QED BY <2>3, <3>1 DEF TypeOK, FieldsInv, CopiesInv
  <2> QED BY <2>5, <2>6 DEF HandleConsistent
<1> QED BY <1>1, SafeInvariant, CopiesInvariant, PTL

-----------------------------------------------------------------------------
(* Every step is one of ItemQueue                                              *)

\* What ItemQueue sees of a list of the nodes of s.
Shown(s, n) ==
    /\ Content = [k \in 1 .. n |-> node_item[s[k]]]
    /\ cursor = NULL => Position(cursor) = 0
    /\ \A k \in 1 .. n : s[k] = cursor => Position(cursor) = k

LEMMA ShownIs ==
    ASSUME FieldsInv, NEW n \in Nat, NEW s \in [1 .. n -> Nodes], Listing(s, n)
    PROVE  Shown(s, n)
<1>1. Chain = s /\ DOMAIN Chain = 1 .. n /\ InChain = live
  BY ChainIs
<1>2. Content = [k \in 1 .. n |-> node_item[s[k]]]
  BY <1>1 DEF Content
<1>3. NULL \notin InChain
  BY <1>1, ItemListAssumption DEF FieldsInv
<1>4. cursor = NULL => Position(cursor) = 0
  BY <1>3 DEF Position
<1>5. ASSUME NEW k \in 1 .. n, s[k] = cursor PROVE Position(cursor) = k
  <2>1. cursor \in InChain /\ \A j \in 1 .. n : s[j] = cursor <=> j = k
    BY <1>1, <1>5 DEF Listing
  <2>2. Position(cursor) = CHOOSE j \in 1 .. n : s[j] = cursor
    BY <1>1, <2>1 DEF Position
  <2> QED BY <2>1, <2>2
<1> QED BY <1>2, <1>4, <1>5 DEF Shown

\* The same of the next state.
LEMMA NextShown ==
    (FieldsInv => \A n \in Nat : \A s \in [1 .. n -> Nodes] : Listing(s, n) => Shown(s, n))'
<1>1. FieldsInv => \A n \in Nat : \A s \in [1 .. n -> Nodes] : Listing(s, n) => Shown(s, n)
  BY ShownIs
<1> QED BY <1>1, PTL

\* A call that leaves the list and its items as they are.
LEMMA SameContent ==
    ASSUME FieldsInv, FieldsInv', NEW n \in Nat, NEW s \in [1 .. n -> Nodes], Listing(s, n),
           UNCHANGED <<mem, head>>
    PROVE  Shown(s, n) /\ Shown(s, n)' /\ Content' = Content
<1>1. Listing(s, n)'
  BY DEF Listing, mem
<1>2. Shown(s, n) /\ Shown(s, n)'
  BY <1>1, ShownIs, NextShown
<1>3. Content' = [k \in 1 .. n |-> node_item[s[k]]]
  BY <1>2 DEF Shown, mem
<1> QED BY <1>2, <1>3 DEF Shown

\* Where the iterator of the caller is.
LEMMA CursorIs ==
    ASSUME FieldsInv, NEW n \in Nat, NEW s \in [1 .. n -> Nodes], Listing(s, n)
    PROVE  (cursor = NULL /\ Position(cursor) = 0)
           \/ \E k \in 1 .. n : s[k] = cursor /\ Position(cursor) = k
<1>1. Shown(s, n)
  BY ShownIs
<1>2. cursor = NULL \/ \E k \in 1 .. n : s[k] = cursor
  BY DEF FieldsInv, Listing
<1> QED
  BY <1>1, <1>2 DEF Shown

LEMMA RemoveAtIs ==
    ASSUME NEW S, NEW c \in Seq(S), NEW p \in 1 .. Len(c)
    PROVE  Q!RemoveAt(c, p) = [i \in 1 .. Len(c) - 1 |-> IF i < p THEN c[i] ELSE c[i + 1]]
<1> DEFINE n == Len(c)
           before == SubSeq(c, 1, p - 1)
           after == SubSeq(c, p + 1, n)
           u == before \o after
           t == [i \in 1 .. n - 1 |-> IF i < p THEN c[i] ELSE c[i + 1]]
<1>0. n \in Nat /\ p \in 1 .. n /\ \A i \in 1 .. n : c[i] \in S
  BY ElementOfSeq
<1>1. t \in Seq(S) /\ Len(t) = n - 1 /\ \A i \in 1 .. n - 1 : t[i] = IF i < p THEN c[i] ELSE c[i + 1]
  <2>1. \A i \in 1 .. n - 1 : i \in 1 .. n /\ i + 1 \in 1 .. n
    BY <1>0
  <2> QED BY <1>0, <2>1
<1>2. /\ before \in Seq(S) /\ Len(before) = p - 1
      /\ \A j \in 1 .. p - 1 : before[j] = c[j]
  <2>1. \A i \in 1 .. p - 1 : c[i] \in S
    BY <1>0
  <2> QED BY <1>0, <2>1, SubSeqProperties
<1>3. /\ after \in Seq(S) /\ Len(after) = n - p
      /\ \A j \in 1 .. n - p : after[j] = c[p + j]
  <2>1. \A i \in p + 1 .. n : c[i] \in S
    BY <1>0
  <2> QED BY <1>0, <2>1, SubSeqProperties
<1> HIDE DEF before, after, t, n
<1>4. /\ u \in Seq(S) /\ Len(u) = Len(before) + Len(after)
      /\ \A j \in 1 .. Len(before) + Len(after) :
            u[j] = IF j <= Len(before) THEN before[j] ELSE after[j - Len(before)]
  BY <1>2, <1>3, ConcatProperties, ZenonT(30)
<1> HIDE DEF u
<1>5. Len(u) = n - 1
  BY <1>0, <1>2, <1>3, <1>4
<1>6. ASSUME NEW i \in 1 .. n - 1 PROVE t[i] = u[i]
  <2>1. i \in 1 .. Len(before) + Len(after) /\ Len(before) = p - 1
    BY <1>0, <1>2, <1>3
  <2>2. CASE i < p
    <3>1. i \in 1 .. p - 1 /\ i <= Len(before)
      BY <1>0, <2>1, <2>2
    <3>2. u[i] = before[i]
      BY <1>4, <2>1, <3>1
    <3> QED BY <1>1, <1>2, <2>2, <3>1, <3>2
  <2>3. CASE ~(i < p)
    <3>1. i - (p - 1) \in 1 .. n - p /\ p + (i - (p - 1)) = i + 1 /\ ~(i <= Len(before))
      BY <1>0, <2>1, <2>3
    <3>2. u[i] = after[i - (p - 1)]
      BY <1>4, <2>1, <3>1
    <3> QED BY <1>1, <1>3, <2>3, <3>1, <3>2
  <2> QED BY <2>2, <2>3
<1>7. t = u
  BY <1>1, <1>4, <1>5, <1>6, SeqEqual
<1> QED BY <1>7, Zenon DEF Q!RemoveAt, u, t, before, after, n

LEMMA AddIs ==
    ASSUME FieldsInv, FieldsInv', NEW n \in Nat, NEW s \in [1 .. n -> Nodes], Listing(s, n),
           NEW x \in Items, NEW t \in [1 .. n + 1 -> Nodes], Longer(s, n, t, x)
    PROVE  Q!Add(x)
<1>0. n + 1 \in Nat
  OBVIOUS
<1>1. Listing(t, n + 1)' /\ Shown(t, n + 1)' /\ Shown(s, n)
  BY <1>0, ShownIs, NextShown DEF Longer
<1>2. /\ \A i \in 1 .. n : t[i] = s[i] /\ node_item'[s[i]] = node_item[s[i]]
      /\ node_item'[t[n + 1]] = x /\ cursor' = cursor /\ ret' = Answer(0, NULL)
  BY DEF Longer
<1>3. Content' = Append(Content, x)
  <2>1. Content' = [k \in 1 .. n + 1 |-> node_item'[t[k]]]
    BY <1>1 DEF Shown
  <2>2. Content = [k \in 1 .. n |-> node_item[s[k]]]
    BY <1>1 DEF Shown
  <2>3. \A k \in 1 .. n : node_item[s[k]] \in Items
    BY DEF FieldsInv, Listing
  <2>4. Content \in Seq(Items) /\ Len(Content) = n /\ \A k \in 1 .. n : Content[k] = node_item[s[k]]
    BY <2>2, <2>3
  <2>5. Append(Content, x) = [k \in 1 .. n + 1 |-> IF k = n + 1 THEN x ELSE node_item[s[k]]]
    <3> DEFINE c == Content
               l == [k \in 1 .. n + 1 |-> IF k = n + 1 THEN x ELSE node_item[s[k]]]
    <3>1. l \in Seq(Items) /\ Len(l) = n + 1
      BY <2>3
    <3>2. c \in Seq(Items) /\ Len(c) = n
      BY <2>4
    <3> HIDE DEF c
    <3>3. /\ Append(c, x) \in Seq(Items) /\ Len(Append(c, x)) = n + 1
          /\ \A k \in 1 .. n : Append(c, x)[k] = c[k]
          /\ Append(c, x)[n + 1] = x
      BY <3>2, AppendProperties
    <3>4. \A k \in 1 .. n + 1 : Append(c, x)[k] = l[k]
      BY <2>4, <3>3 DEF c
    <3> HIDE DEF l
    <3>5. Append(c, x) = l
      BY <3>1, <3>3, <3>4, SeqEqual
    <3> QED BY <3>5 DEF c, l
  <2>6. \A k \in 1 .. n + 1 : node_item'[t[k]] = IF k = n + 1 THEN x ELSE node_item[s[k]]
    BY <1>2
  <2> QED BY <2>1, <2>5, <2>6
<1>4. Position(cursor)' = Position(cursor)
  <2>1. CASE cursor = NULL
    BY <1>1, <1>2, <2>1 DEF Shown
  <2>2. CASE cursor # NULL
    <3>1. PICK k \in 1 .. n : s[k] = cursor /\ Position(cursor) = k
      BY <2>2, CursorIs
    <3>2. k \in 1 .. n + 1 /\ t[k] = cursor'
      BY <1>2, <3>1
    <3> QED BY <1>1, <3>1, <3>2 DEF Shown
  <2> QED BY <2>1, <2>2
<1> QED BY <1>2, <1>3, <1>4 DEF Q!Add, Q!Answer, Answer

LEMMA TakeOutIs ==
    ASSUME FieldsInv, FieldsInv', NEW n \in Nat, NEW s \in [1 .. n -> Nodes], Listing(s, n),
           NEW p \in 1 .. n, Shorter(s, n, p)
    PROVE  Q!TakeOut(p) /\ p \in DOMAIN Content
<1> DEFINE t == Without(s, n, p)
<1>0. n - 1 \in Nat
  OBVIOUS
<1>1. /\ t \in [1 .. n - 1 -> Nodes] /\ Listing(t, n - 1)'
      /\ \A i \in 1 .. n - 1 : node_item'[t[i]] = node_item[t[i]]
      /\ cursor = NULL /\ cursor' = NULL /\ ret' = ret
  BY DEF Shorter
<1>t. \A i \in 1 .. n - 1 : t[i] = IF i < p THEN s[i] ELSE s[i + 1]
  BY DEF Without
<1> HIDE DEF t
<1>2. Shown(t, n - 1)' /\ Shown(s, n)
  BY <1>0, <1>1, ShownIs, NextShown
<1>3. Content = [k \in 1 .. n |-> node_item[s[k]]]
  BY <1>2 DEF Shown
<1>4. \A k \in 1 .. n : node_item[s[k]] \in Items
  BY DEF FieldsInv, Listing
<1>5. Content \in Seq(Items) /\ Len(Content) = n /\ \A k \in 1 .. n : Content[k] = node_item[s[k]]
  BY <1>3, <1>4
<1>6. Q!RemoveAt(Content, p) = [i \in 1 .. n - 1 |-> IF i < p THEN Content[i] ELSE Content[i + 1]]
  BY <1>5, RemoveAtIs
<1>7. Content' = [i \in 1 .. n - 1 |-> node_item'[t[i]]]
  BY <1>2 DEF Shown
<1>8. ASSUME NEW i \in 1 .. n - 1
      PROVE  node_item'[t[i]] = IF i < p THEN Content[i] ELSE Content[i + 1]
  <2>1. i \in 1 .. n /\ i + 1 \in 1 .. n
    OBVIOUS
  <2> QED BY <1>1, <1>t, <1>5, <2>1
<1>9. Content' = Q!RemoveAt(Content, p)
  BY <1>6, <1>7, <1>8
<1>10. Position(cursor) = 0 /\ Position(cursor)' = 0
  BY <1>1, <1>2 DEF Shown
<1> QED BY <1>1, <1>5, <1>9, <1>10 DEF Q!TakeOut

\* A call that leaves the list, its items and the iterator of the caller alone
\* is no step of the queue, or one that only answers.
LEMMA SameQueue ==
    ASSUME FieldsInv, FieldsInv', NEW n \in Nat, NEW s \in [1 .. n -> Nodes], Listing(s, n),
           UNCHANGED <<mem, head, cursor>>
    PROVE  UNCHANGED <<Content, Position(cursor)>>
<1>1. Shown(s, n) /\ Shown(s, n)' /\ Content' = Content
  BY SameContent
<1>2. Position(cursor)' = Position(cursor)
  <2>1. CASE cursor = NULL
    BY <1>1, <2>1 DEF Shown
  <2>2. CASE cursor # NULL
    <3>1. PICK k \in 1 .. n : s[k] = cursor /\ Position(cursor) = k
      BY <2>2, CursorIs
    <3> QED BY <1>1, <3>1 DEF Shown
  <2> QED BY <2>1, <2>2
<1> QED BY <1>1, <1>2

\* A removal or a clear begins: the iterator of the caller is gone.
LEMMA DropIteratorIs ==
    ASSUME FieldsInv, FieldsInv', NEW n \in Nat, NEW s \in [1 .. n -> Nodes], Listing(s, n),
           UNCHANGED <<mem, head, ret>>, cursor' = NULL
    PROVE  Q!DropIterator
  BY SameContent DEF Shown, Q!DropIterator

LEMMA CreateIs ==
    ASSUME FieldsInv, FieldsInv', NEW n \in Nat, NEW s \in [1 .. n -> Nodes], ListInv(s, n), Create
    PROVE  UNCHANGED <<Content, Position(cursor), ret>>
<1>1. n = 0 /\ UNCHANGED <<mem, cursor, ret>> /\ head' = NULL
  BY DEF Create, ListInv, CallInv
<1>2. Listing(s, n) /\ Listing(s, n)'
  BY <1>1 DEF ListInv, Listing, mem
<1>3. head = NULL
  BY <1>1, <1>2 DEF Listing
<1> QED BY <1>1, <1>2, <1>3, SameQueue

LEMMA GetItemIs ==
    ASSUME FieldsInv, FieldsInv', NEW n \in Nat, NEW s \in [1 .. n -> Nodes], ListInv(s, n),
           NEW k \in 0 .. Cardinality(Nodes), GetItem(k), ~ub'
    PROVE  Q!Get(ret'.at)
<1>0. Listing(s, n) /\ Cardinality(Nodes) \in Nat /\ call = Idle
  BY AsManyNodes DEF ListInv, GetItem, Callable
<1>1. count = n
  BY <1>0 DEF ListInv, CallInv, Idle
<1>2. /\ ret' = Answer(k + 1, IF k < n THEN node_item[NodeAt[k]] ELSE NULL)
      /\ UNCHANGED <<mem, info, cursor>>
  BY <1>1 DEF GetItem, UndefinedBehaviour
<1>3. UNCHANGED <<Content, Position(cursor)>>
  BY <1>0, <1>2, SameQueue DEF info
<1>4. Content = [i \in 1 .. n |-> node_item[s[i]]]
  BY <1>0, ShownIs DEF Shown
<1>5. k < n => NodeAt[k] = s[k + 1]
  BY <1>0, WalkIs
<1>6. k + 1 \in DOMAIN Content <=> k < n
  BY <1>0, <1>4
<1>7. ret' = Answer(k + 1, IF k + 1 \in DOMAIN Content THEN Content[k + 1] ELSE NULL)
  BY <1>2, <1>4, <1>5, <1>6
<1>8. ret'.at = k + 1
  BY <1>2 DEF Answer
<1> QED BY <1>3, <1>7, <1>8 DEF Q!Get, Q!Answer, Answer

LEMMA IteratorIs ==
    ASSUME FieldsInv, FieldsInv', NEW n \in Nat, NEW s \in [1 .. n -> Nodes], ListInv(s, n), Iterator
    PROVE  Q!Iterate
<1>0. Listing(s, n) /\ call = Idle
  BY DEF ListInv, Iterator, Callable
<1>1. count = n
  BY <1>0 DEF ListInv, CallInv, Idle
<1>2. cursor' = (IF n = 0 THEN NULL ELSE head) /\ UNCHANGED <<mem, head, ret>>
  BY <1>1 DEF Iterator
<1>3. Shown(s, n) /\ Shown(s, n)' /\ Content' = Content
  BY <1>0, <1>2, SameContent
<1>4. Content = <<>> <=> n = 0
  BY <1>3 DEF Shown
<1>5. CASE n = 0
  BY <1>2, <1>3, <1>4, <1>5 DEF Shown, Q!Iterate
<1>6. CASE n # 0
  <2>1. 1 \in 1 .. n /\ s[1] = cursor'
    BY <1>0, <1>2, <1>6 DEF Listing
  <2>2. Position(cursor)' = 1
    BY <1>3, <2>1 DEF Shown
  <2> QED BY <1>2, <1>3, <1>4, <1>6, <2>2 DEF Q!Iterate
<1> QED BY <1>5, <1>6

LEMMA GetNextIs ==
    ASSUME FieldsInv, FieldsInv', NEW n \in Nat, NEW s \in [1 .. n -> Nodes], Listing(s, n),
           GetNext, ~ub'
    PROVE  Q!GetNext
<1>1. /\ ret' = Answer(0, IF cursor = NULL THEN NULL ELSE node_item[cursor])
      /\ cursor' = IF cursor = NULL THEN NULL ELSE next[cursor]
      /\ UNCHANGED <<mem, head>>
  BY DEF GetNext, UndefinedBehaviour, info
<1>2. Shown(s, n) /\ Shown(s, n)' /\ Content' = Content
  BY <1>1, SameContent
<1>3. Content = [i \in 1 .. n |-> node_item[s[i]]] /\ Len(Content) = n
  BY <1>2 DEF Shown
<1>4. CASE cursor = NULL
  BY <1>1, <1>2, <1>4 DEF Shown, Q!GetNext, Q!Answer, Answer
<1>5. CASE cursor # NULL
  <2>1. PICK k \in 1 .. n : s[k] = cursor /\ Position(cursor) = k
    BY <1>5, CursorIs
  <2>2. ret' = Answer(0, Content[k])
    BY <1>1, <1>3, <1>5, <2>1
  <2>3. cursor' = IF k = n THEN NULL ELSE s[k + 1]
    BY <1>1, <1>5, <2>1 DEF Listing
  <2>4. Position(cursor)' = IF k = n THEN 0 ELSE k + 1
    <3>1. k # n => k + 1 \in 1 .. n
      OBVIOUS
    <3> QED BY <1>2, <2>3, <3>1 DEF Shown
  <2>5. k # 0
    OBVIOUS
  <2> QED BY <1>2, <1>3, <2>1, <2>2, <2>4, <2>5 DEF Q!GetNext, Q!Answer, Answer
<1> QED BY <1>4, <1>5

LEMMA QueueInit == Init => Q!Init
<1> SUFFICES ASSUME Init PROVE Q!Init
  OBVIOUS
<1>1. FieldsInv
  BY SafeInvInit DEF SafeInv
<1>2. PICK s : s \in [1 .. 0 -> Nodes]
  <2>1. [i \in 1 .. 0 |-> NULL] \in [1 .. 0 -> Nodes]
    OBVIOUS
  <2> QED BY <2>1
<1>3. Listing(s, 0)
  BY DEF Init, Listing
<1>4. Shown(s, 0)
  BY <1>1, <1>2, <1>3, ShownIs
<1>5. Content = <<>>
  BY <1>4 DEF Shown
<1> QED BY <1>4, <1>5 DEF Init, Shown, Q!Init, Q!Answer, Answer

LEMMA QueueStep ==
    ASSUME CarefulCaller, SafeInv, [Next]_vars
    PROVE  [Q!Next]_<<Content, Position(cursor), ret>>
<1> USE ItemListAssumption
<1>1. PICK n \in Nat : \E s \in [1 .. n -> Nodes] : ListInv(s, n)
  BY DEF SafeInv
<1>2. PICK s \in [1 .. n -> Nodes] : ListInv(s, n)
  BY <1>1
<1>3. ~ub /\ ~ub' /\ FieldsInv /\ FieldsInv' /\ Listing(s, n)
  BY <1>2, SafeInvStep DEF SafeInv, ListInv
<1>4. ASSUME UNCHANGED <<mem, head, cursor, ret>>
      PROVE  UNCHANGED <<Content, Position(cursor), ret>>
  BY <1>3, <1>4, SameQueue
<1>5. CASE Create
  BY <1>2, <1>3, <1>5, CreateIs
<1>6. ASSUME NEW x \in Items, AddItem(x) \/ AddCopy(x) PROVE Q!Next
  <2>1. PICK t \in [1 .. n + 1 -> Nodes] : Longer(s, n, t, x)
    BY <1>2, <1>3, <1>6, AddStep DEF AddItem, AddCopy
  <2>2. Q!Add(x)
    BY <1>3, <2>1, AddIs
  <2> QED BY <2>2 DEF Q!Next
<1>7. CASE \E x \in Items : AddFails(x)
  <2>1. UNCHANGED <<mem, head, cursor>> /\ ret' = Answer(0, "failed")
    BY <1>7 DEF AddFails, info
  <2>2. UNCHANGED <<Content, Position(cursor)>>
    BY <1>3, <2>1, SameQueue
  <2> QED BY <2>1, <2>2 DEF Q!Next, Q!Fails, Q!Answer, Answer
<1>8. ASSUME NEW k \in 0 .. Cardinality(Nodes), RemoveItem(k) PROVE Q!Next
  <2>1. UNCHANGED <<mem, head, ret>> /\ cursor' = NULL
    BY <1>3, <1>8 DEF RemoveItem, UndefinedBehaviour, CursorAfter, CarefulCaller
  <2> QED BY <1>3, <2>1, DropIteratorIs DEF Q!Next
<1>9. ASSUME NEW k \in 0 .. Cardinality(Nodes), GetItem(k) PROVE Q!Next
  BY <1>2, <1>3, <1>9, GetItemIs DEF Q!Next
<1>10. CASE RemoveItemEnd
  <2>1. PICK p \in 1 .. n : Shorter(s, n, p)
    BY <1>2, <1>3, <1>10, RemoveEndStep
  <2>2. Q!TakeOut(p) /\ p \in DOMAIN Content
    BY <1>3, <2>1, TakeOutIs
  <2> QED BY <2>2 DEF Q!Next
<1>11. ASSUME NEW op, Clear(op) PROVE Q!Next
  <2>1. UNCHANGED <<mem, head, ret>> /\ cursor' = NULL
    BY <1>11 DEF Clear, CursorAfter, CarefulCaller, info
  <2> QED BY <1>3, <2>1, DropIteratorIs DEF Q!Next
<1>12. CASE ClearItem
  <2>1. UNCHANGED <<mem, head, cursor, ret>>
    BY <1>3, <1>12 DEF ClearItem, UndefinedBehaviour, info
  <2> QED BY <1>4, <2>1
<1>13. CASE ClearItemEnd
  <2>1. 1 \in 1 .. n /\ Shorter(s, n, 1)
    BY <1>2, <1>3, <1>13, ClearItemEndStep
  <2>2. Q!TakeOut(1) /\ 1 \in DOMAIN Content
    BY <1>3, <2>1, TakeOutIs
  <2> QED BY <2>2 DEF Q!Next
<1>14. CASE ClearEnd
  BY <1>4, <1>14 DEF ClearEnd
<1>15. CASE Iterator
  BY <1>2, <1>3, <1>15, IteratorIs DEF Q!Next
<1>16. CASE GetNext
  BY <1>3, <1>16, GetNextIs DEF Q!Next
<1>17. CASE UNCHANGED vars
  BY <1>4, <1>17 DEF vars, info
<1> QED
  BY <1>5, <1>6, <1>7, <1>8, <1>9, <1>10, <1>11, <1>12, <1>13, <1>14, <1>15, <1>16, <1>17 DEF Next

\* For a careful caller the list is the queue of ItemQueue: an addition goes to the
\* end, also one made by the callback of a removal, a removal takes out the one
\* item it names, item_list_get_item answers from the position it was given, and
\* item_list_get_next hands out the items one after the other.
THEOREM QueueImplemented ==
    ASSUME CarefulCaller
    PROVE  Spec => ImplementsQueue
<1>1. SafeInv /\ [Next]_vars => [Q!Next]_<<Content, Position(cursor), ret>>
  BY QueueStep
<1> QED BY <1>1, QueueInit, SafeInvariant, PTL DEF Spec, ImplementsQueue, Q!Spec

=============================================================================
