------------------------------ MODULE ItemList ------------------------------
(***************************************************************************)
(* The singly linked list of src/src/item_list.c, at the level of its      *)
(* nodes: malloc hands out any address that is free, also the one freed    *)
(* last, and a node that was freed keeps being pointed at by whoever still *)
(* has its address.  Dereferencing NULL or a freed node sets ub, and the   *)
(* program stops there.                                                    *)
(*                                                                         *)
(* item_list_remove_item and clear_all_items call destroy_cb in the middle *)
(* of their work, so each is split there; while the callback runs it may   *)
(* call item_list_add_item (CallbackAdds).  Each item is added by one of   *)
(* the two kinds of call, and is in the list at most once at a time; an    *)
(* addition of a copy makes two allocations, and each of them may fail.    *)
(***************************************************************************)
EXTENDS Naturals, FiniteSets, Sequences

CONSTANTS
    Nodes,         \* the addresses of ITEM_NODEs
    NULL,
    References,    \* items the caller adds with item_list_add_item
    Copies,        \* items added with item_list_add_copy
    HasDestroy,    \* whether a destroy_cb was given to item_list_create
    AddsAfterLast, \* whether the caller adds to what is left of a list once he has
                   \* removed the last of several items
    CallbackAdds,  \* the calls whose destroy_cb adds an item: "remove", "clear", "destroy"
    KeepsCursor    \* whether the caller keeps its iterator over a removal or a clear

ASSUME ItemListAssumption ==
    /\ IsFiniteSet(Nodes)
    /\ NULL \notin Nodes \cup References \cup Copies
    /\ References \cap Copies = {}
    /\ HasDestroy \in BOOLEAN /\ KeepsCursor \in BOOLEAN /\ AddsAfterLast \in BOOLEAN
    /\ CallbackAdds \subseteq {"remove", "clear", "destroy"}

Items == References \cup Copies

VARIABLES
    next, node_item, locally_allocated,  \* the fields of each ITEM_NODE
    live,                                \* the nodes malloc has handed out
    copied,                              \* the copies whose memory the list is to free
    head, tail, count, iter,             \* ITEM_LIST_INFO
    open,                                \* the handle exists
    cursor,                              \* the caller's ITERATOR_HANDLE
    call,                                \* the call that is in progress
    fate,                                \* what became of each item
    cut,                                 \* the last of several items was removed, and
                                         \* the list has not been empty since
    ret,                                 \* the last answer, and the position asked for
    ub                                   \* undefined behaviour was reached

mem == <<next, node_item, locally_allocated, live>>
info == <<head, tail, count, iter, open, cut>>
vars == <<mem, copied, info, cursor, call, fate, ret, ub>>

\* An answer that concerns position k, counted from 1; 0: no given position.
Answer(k, result) == [at |-> k, is |-> result]

Idle == [op |-> "none", node |-> NULL, link |-> NULL, index |-> 0]

Init ==
    /\ next = [n \in Nodes |-> NULL]
    /\ node_item = [n \in Nodes |-> NULL]
    /\ locally_allocated = [n \in Nodes |-> FALSE]
    /\ live = {} /\ copied = {}
    /\ head = NULL /\ tail = NULL /\ count = 0 /\ iter = NULL
    /\ open = FALSE /\ cut = FALSE
    /\ cursor = NULL
    /\ call = Idle
    /\ fate = [i \in Items |-> "out"]
    /\ ret = Answer(0, NULL)
    /\ ub = FALSE

-----------------------------------------------------------------------------
(* Helpers *)

\* The nodes met by following next from the head, by number of steps; NULL from
\* the first dead end on.
NodeAt ==
    LET at[k \in 0 .. Cardinality(Nodes)] ==
            IF k = 0 THEN head ELSE IF at[k - 1] \in live THEN next[at[k - 1]] ELSE NULL
    IN  at

\* All the nodes dereferenced on the way to position k, and the one there, exist.
Reachable(k) == k \in DOMAIN NodeAt /\ \A j \in 0 .. k : NodeAt[j] \in live

UndefinedBehaviour == ub' = TRUE /\ UNCHANGED <<mem, copied, info, cursor, call, fate, ret>>

Running == ~ub /\ open
Callable == Running /\ call = Idle

\* The destroy_cb of a call in progress is running.
InCallback == call.op # "none" /\ call.node # NULL /\ fate[node_item[call.node]] = "destroyed"

\* What releasing the content of node n makes of it, n being a copy or not
\* according to the flag of the node the code looks at.
Released(n, flag) ==
    [fate EXCEPT ![node_item[n]] =
        IF flag THEN "freed" ELSE IF HasDestroy THEN "destroyed" ELSE "dropped"]

\* The memory of the copies once the content of node n is released: given back to
\* the heap, or with whoever has it from the destroy_cb, or lost.
CopiedAfter(n, flag) == IF flag \/ HasDestroy THEN copied \ {node_item[n]} ELSE copied

\* free of node n: what is left in it is never read, for that sets ub.
FreeNode(n, links) ==
    /\ live' = live \ {n}
    /\ next' = [links EXCEPT ![n] = NULL]
    /\ node_item' = [node_item EXCEPT ![n] = NULL]
    /\ locally_allocated' = [locally_allocated EXCEPT ![n] = FALSE]

\* The caller's iterator when a call that frees nodes begins.
CursorAfter == IF KeepsCursor THEN cursor ELSE NULL

-----------------------------------------------------------------------------
(* Creation and additions *)

\* item_list_create
Create ==
    /\ ~ub /\ ~open
    /\ open' = TRUE
    /\ head' = NULL /\ tail' = NULL /\ count' = 0 /\ iter' = NULL
    /\ UNCHANGED <<mem, copied, cursor, call, fate, cut, ret, ub>>

Link_ForgetsTail(target) ==
    IF head = NULL
    THEN /\ head' = target
         /\ next' = [next EXCEPT ![target] = NULL]
         /\ UNCHANGED tail
    ELSE /\ next' = [next EXCEPT ![tail] = target, ![target] = NULL]
         /\ tail' = next'[tail]
         /\ UNCHANGED head

\* The links add_new_item writes.  tail_node->next is written before those of
\* the new node, and tail_node is then read back through it: when malloc
\* returned the node tail_node still points at, that leaves tail_node NULL.
Link(target) ==
    IF head = NULL
    THEN /\ head' = target
         /\ tail' = target
         /\ next' = [next EXCEPT ![target] = NULL]
    ELSE /\ next' = [next EXCEPT ![tail] = target, ![target] = NULL]
         /\ tail' = next'[tail]
         /\ UNCHANGED head

\* add_new_item with a node from malloc.
AddNewItem(i, local_alloc) ==
    \E target \in Nodes \ live :
        IF head # NULL /\ tail \notin live \cup {target}
        THEN UndefinedBehaviour
        ELSE /\ live' = live \cup {target}
             /\ node_item' = [node_item EXCEPT ![target] = i]
             /\ locally_allocated' = [locally_allocated EXCEPT ![target] = local_alloc]
             /\ copied' = IF local_alloc THEN copied \cup {i} ELSE copied
             /\ Link(target)
             /\ count' = count + 1
             /\ fate' = [fate EXCEPT ![i] = "in"]
             /\ ret' = Answer(0, NULL)
             /\ UNCHANGED <<iter, open, cursor, call, cut, ub>>

MayAdd ==
    /\ Running
    /\ call = Idle \/ (InCallback /\ call.op \in CallbackAdds)
    /\ AddsAfterLast \/ ~cut

\* item_list_add_item and item_list_add_copy.
AddItem(i) == MayAdd /\ i \in References /\ fate[i] # "in" /\ AddNewItem(i, FALSE)

AddCopy(i) == MayAdd /\ i \in Copies /\ fate[i] # "in" /\ AddNewItem(i, TRUE)

\* mutation: the copy is not freed
AfterNodeFailure_Leaks(allocated, i) == allocated

\* add_new_item got no node: item_list_add_copy frees the copy it has made.
AfterNodeFailure(allocated, i) == allocated \ {i}

\* An addition that fails: the only malloc of item_list_add_item and the first of
\* item_list_add_copy give nothing, or the second does, when the copy is made.
AddFails(i) ==
    /\ MayAdd
    /\ fate[i] # "in"
    /\ \/ UNCHANGED copied
       \/ i \in Copies /\ copied' = AfterNodeFailure(copied \cup {i}, i)
    /\ ret' = Answer(0, "failed")
    /\ UNCHANGED <<mem, info, cursor, call, fate, ub>>

-----------------------------------------------------------------------------
(* Removal *)

IteratorAfter_Stays(rm_pos) == iter

\* The iterator of the handle moves on from a node that is removed.
IteratorAfter(rm_pos) == IF iter = rm_pos THEN next[rm_pos] ELSE iter

\* item_list_remove_item up to the release of the item.
RemoveItem(k) ==
    /\ Callable
    /\ k < count
    /\ IF ~Reachable(k)
       THEN UndefinedBehaviour
       ELSE LET rm_pos == NodeAt[k]
            IN  /\ iter' = IteratorAfter(rm_pos)
                /\ fate' = Released(rm_pos, locally_allocated[head])
                /\ copied' = CopiedAfter(rm_pos, locally_allocated[head])
                /\ call' = [op |-> "remove", node |-> rm_pos, index |-> k,
                            link |-> IF k = 0 THEN NULL ELSE NodeAt[k - 1]]
                /\ cursor' = CursorAfter
                /\ UNCHANGED <<mem, head, tail, count, open, cut, ret, ub>>

LinksWithout_CutsRest(rm_pos, prev_item) ==
    IF prev_item = NULL THEN next ELSE [next EXCEPT ![prev_item] = NULL]

\* The links once rm_pos is taken out behind prev_item.
LinksWithout(rm_pos, prev_item) ==
    IF prev_item = NULL THEN next ELSE [next EXCEPT ![prev_item] = next[rm_pos]]

\* ... and the rest of it.
RemoveItemEnd ==
    /\ Running
    /\ call.op = "remove"
    /\ head' = IF call.link = NULL THEN next[call.node] ELSE head
    /\ FreeNode(call.node, LinksWithout(call.node, call.link))
    /\ count' = count - 1
    /\ call' = Idle
    /\ cut' = (head' # NULL /\ (cut \/ next[call.node] = NULL))
    /\ UNCHANGED <<copied, tail, iter, open, cursor, fate, ret, ub>>

-----------------------------------------------------------------------------
(* Clearing and destroying *)

\* item_list_clear and item_list_destroy enter clear_all_items.
Clear(op) ==
    /\ Callable
    /\ call' = [Idle EXCEPT !.op = op]
    /\ cursor' = CursorAfter
    /\ UNCHANGED <<mem, copied, info, fate, ret, ub>>

Clearing == Running /\ call.op \in {"clear", "destroy"}

\* One turn of the loop up to the release: head_node->next is read before.
ClearItem ==
    /\ Clearing
    /\ call.node = NULL
    /\ call.index < count
    /\ IF head \notin live
       THEN UndefinedBehaviour
       ELSE /\ fate' = Released(head, locally_allocated[head])
            /\ copied' = CopiedAfter(head, locally_allocated[head])
            /\ call' = [call EXCEPT !.node = head, !.link = next[head]]
            /\ UNCHANGED <<mem, info, cursor, ret, ub>>

NextTurn_SameIndex == [call EXCEPT !.node = NULL, !.link = NULL]

NextTurn == [call EXCEPT !.node = NULL, !.link = NULL, !.index = @ + 1]

ClearItemEnd ==
    /\ Clearing
    /\ call.node # NULL
    /\ FreeNode(call.node, next)
    /\ head' = call.link
    /\ call' = NextTurn
    /\ cut' = (cut /\ head' # NULL)
    /\ UNCHANGED <<copied, tail, count, iter, open, cursor, fate, ret, ub>>

ClearEnd ==
    /\ Clearing
    /\ call.node = NULL
    /\ call.index >= count
    /\ count' = 0
    /\ iter' = NULL
    /\ open' = (call.op = "clear")
    /\ call' = Idle
    /\ UNCHANGED <<mem, copied, head, tail, cursor, fate, cut, ret, ub>>

-----------------------------------------------------------------------------
(* Queries *)

\* item_list_get_item; position 0 is also item_list_get_front, which does not
\* look at positions.
GetItem(k) ==
    /\ Callable
    /\ IF k < count /\ ~Reachable(k)
       THEN UndefinedBehaviour
       ELSE /\ ret' = Answer(k + 1, IF k < count THEN node_item[NodeAt[k]] ELSE NULL)
            /\ UNCHANGED <<mem, copied, info, cursor, call, fate, ub>>

\* item_list_iterator
Iterator ==
    /\ Callable
    /\ iter' = IF count = 0 THEN iter ELSE head
    /\ cursor' = IF count = 0 THEN NULL ELSE head
    /\ UNCHANGED <<mem, copied, head, tail, count, open, call, fate, cut, ret, ub>>

\* item_list_get_next: only the caller's iterator moves, not the one in the handle.
GetNext ==
    /\ Callable
    /\ IF cursor \notin live \cup {NULL}
       THEN UndefinedBehaviour
       ELSE /\ ret' = Answer(0, IF cursor = NULL THEN NULL ELSE node_item[cursor])
            /\ cursor' = IF cursor = NULL THEN NULL ELSE next[cursor]
            /\ UNCHANGED <<mem, copied, info, call, fate, ub>>

-----------------------------------------------------------------------------

Next ==
    \/ Create
    \/ \E i \in Items : AddItem(i) \/ AddCopy(i) \/ AddFails(i)
    \/ \E k \in 0 .. Cardinality(Nodes) : RemoveItem(k) \/ GetItem(k)
    \/ RemoveItemEnd
    \/ Clear("clear") \/ Clear("destroy")
    \/ ClearItem \/ ClearItemEnd \/ ClearEnd
    \/ Iterator \/ GetNext

\* A call that has begun goes on to its end; the caller owes nothing.
Finish == RemoveItemEnd \/ ClearItem \/ ClearItemEnd \/ ClearEnd

Spec == Init /\ [][Next]_vars /\ WF_vars(Finish)

-----------------------------------------------------------------------------
(* Properties *)

\* The items a walk from the head finds, in order.
Chain ==
    LET at  == NodeAt
        len == Cardinality({k \in DOMAIN at : \A j \in 0 .. k : at[j] \in live})
    IN  [k \in 1 .. len |-> at[k - 1]]

Content == [k \in DOMAIN Chain |-> node_item[Chain[k]]]

InChain == {Chain[k] : k \in DOMAIN Chain}

\* Types; a node in use never has a content that was not put there by an add,
\* and item_count is never decremented below zero.
TypeOK ==
    /\ live \subseteq Nodes
    /\ next \in [Nodes -> Nodes \cup {NULL}]
    /\ copied \subseteq Copies
    /\ \A n \in live : node_item[n] \in Items
    /\ locally_allocated \in [Nodes -> BOOLEAN]
    /\ {head, tail, iter, cursor} \subseteq Nodes \cup {NULL}
    /\ count \in 0 .. Cardinality(Nodes) + 1
    /\ cut \in BOOLEAN
    /\ fate \in [Items -> {"out", "in", "freed", "destroyed", "dropped"}]
    /\ ret \in [at : Nat, is : Items \cup {NULL, "failed"}]

\* No call reads or writes through NULL or a freed node: neither through the
\* walk, nor through tail_node, nor through an iterator in use.
NoUndefinedBehaviour == ~ub

\* An item that was added is handed to the destroy_cb and never freed, a copy is
\* freed (item_list.c:73-83), as the tests of item_list_remove_item expect
\* (item_list_ut.c:295 and :317).  It does not hold: a removal looks at the flag of
\* the head.
RightRelease ==
    /\ \A i \in References : fate[i] # "freed"
    /\ \A i \in Copies : fate[i] \notin {"destroyed", "dropped"}

\* Between calls the list holds exactly the items added and not yet released,
\* item_count of them; no node is allocated that the list has lost, and no copy,
\* whichever allocation of an addition failed and whoever a removal gave the copy
\* to.  After item_list_destroy nothing is allocated.
NothingLost ==
    /\ Callable => /\ {i \in Items : fate[i] = "in"} = {node_item[n] : n \in InChain}
                   /\ live = InChain
                   /\ copied = {node_item[n] : n \in InChain} \cap Copies
                   /\ count = Len(Chain)
    /\ ~ub /\ ~open => live = {} /\ copied = {} /\ \A i \in Items : fate[i] # "in"

\* Whenever the list is not empty, tail_node is its last node.  Once the last of
\* several was removed it is a node that is not in use, never one in the middle,
\* behind which an addition would cut the list off.  The iterator of the handle is one
\* of its nodes, also when its own node was removed.  And the handle, the nodes and
\* the ghost state are well typed at every step.
HandleConsistent ==
    /\ TypeOK
    /\ Callable => /\ head # NULL => IF cut THEN tail \notin live ELSE tail = Chain[Len(Chain)]
                   /\ iter \in InChain \cup {NULL}

\* Comment of item_list.c:59, "Set the tail node to the end": after an addition
\* tail_node is the node at the end of the list.
AddSetsTailToEnd ==
    [][count' = count + 1 => tail' # NULL /\ tail' = Chain'[Len(Chain')]]_vars

\* item_list_clear and item_list_destroy come to an end, however many items
\* there are, and so does item_list_remove_item.
CallsReturn == call.op # "none" ~> call = Idle

=============================================================================
