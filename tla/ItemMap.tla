------------------------------- MODULE ItemMap -------------------------------
(***************************************************************************)
(* The hash map of src/src/item_map.c.  A slot of value_array is the chain *)
(* of its KEY_VALUE_MAPPINGs, as a sequence: the code only ever reaches    *)
(* one by following next from value_array, and unlinks it before it is     *)
(* freed.  The map does not replace: an added key that is already there    *)
(* goes to the end of the chain.                                           *)
(*                                                                         *)
(* item_map_remove_item walks a chain whose first key differs one step at  *)
(* a time, so that whether the walk ends is a property of the model.       *)
(* heap counts the allocations the map holds, one by one where an          *)
(* allocation can fail.                                                    *)
(***************************************************************************)
EXTENDS Naturals, SequencesExt

CONSTANTS
    Keys, Values, NULL,
    Slots,           \* the indexes of value_array
    SlotOf,          \* hash_function(key) % max_slots, for each key
    MaxItems         \* bound: no addition to a map of this size

ASSUME ItemMapAssumption ==
    /\ IsFiniteSet(Slots)
    /\ SlotOf \in [Keys -> Slots]
    /\ NULL \notin Values
    /\ MaxItems \in Nat

VARIABLES
    chains,     \* value_array: the mappings of each slot, in chain order
    item_len,
    open,       \* the handle exists
    heap,       \* allocations made by the map and not freed
    removal,    \* the removal whose loop is running: key, and position of iterator
    ret         \* the last call: of which key, and what it answered

vars == <<chains, item_len, open, heap, removal, ret>>

None == [key |-> NULL, at |-> 0]

Empty == [s \in Slots |-> <<>>]

Answer(k, result) == ret' = [of |-> k, is |-> result]

Init == /\ chains = Empty
        /\ item_len = 0
        /\ open = FALSE
        /\ heap = 0
        /\ removal = None
        /\ ret = [of |-> NULL, is |-> "ok"]

-----------------------------------------------------------------------------

Callable == open /\ removal = None

\* A KEY_VALUE_MAPPING with its key and its value; and what an item_map handle
\* takes, the structure and value_array.
MappingAllocations == 3
HandleAllocations == 2

\* item_map_create; when the second allocation fails the first is freed again.
Create ==
    /\ ~open
    /\ \/ /\ open' = TRUE
          /\ heap' = heap + HandleAllocations
          /\ Answer(NULL, "ok")
       \/ /\ Answer(NULL, "failed")
          /\ UNCHANGED <<open, heap>>
    /\ chains' = Empty
    /\ item_len' = 0
    /\ UNCHANGED removal

\* What store_key_value_item leaves allocated when its n-th allocation fails:
\* the mapping, then its key, then its value; the earlier ones are freed.
LeftByFailure_LosesKey(n) == IF n = 3 THEN 1 ELSE 0

LeftByFailure(n) ==
    LET freed == CASE n = 1 -> 0 [] n = 2 -> 1 [] n = 3 -> 2
    IN  (n - 1) - freed

\* item_map_add_item
AddItem(k, v) ==
    /\ Callable
    /\ item_len < MaxItems
    /\ \/ /\ chains' = [chains EXCEPT ![SlotOf[k]] = Append(@, [key |-> k, value |-> v])]
          /\ item_len' = item_len + 1
          /\ heap' = heap + MappingAllocations
          /\ Answer(k, "ok")
       \/ /\ \E n \in 1 .. 3 : heap' = heap + LeftByFailure(n)
          /\ Answer(k, "failed")
          /\ UNCHANGED <<chains, item_len>>
    /\ UNCHANGED <<open, removal>>

\* The walk of item_map_get_item: the value of the first mapping of the chain
\* whose key is equal, NULL when the chain ends before.
Found_First(k) == IF chains[SlotOf[k]] = <<>> THEN NULL ELSE chains[SlotOf[k]][1].value

Found(k) ==
    LET chain == chains[SlotOf[k]]
        p     == SelectInSeq(chain, LAMBDA kv : kv.key = k)
    IN  IF p = 0 THEN NULL ELSE chain[p].value

GetItem(k) ==
    /\ Callable
    /\ Answer(k, Found(k))
    /\ UNCHANGED <<chains, item_len, open, heap, removal>>

-----------------------------------------------------------------------------
(* item_map_remove_item *)

\* The mapping at position p of slot s is freed and taken out of the chain.
Unlink(s, p) ==
    /\ chains' = [chains EXCEPT ![s] = RemoveAt(@, p)]
    /\ heap' = heap - MappingAllocations
    /\ item_len' = item_len - 1

\* The first mapping of the slot has the key, or there is none.
RemoveFirstOfSlot(k) ==
    /\ Callable
    /\ LET chain == chains[SlotOf[k]]
       IN  IF chain = <<>>
           THEN UNCHANGED <<chains, heap, item_len>>
           ELSE chain[1].key = k /\ Unlink(SlotOf[k], 1)
    /\ Answer(k, "ok")
    /\ UNCHANGED <<open, removal>>

\* It has another one: the loop starts with iterator at the first mapping.
RemoveFurther(k) ==
    LET chain == chains[SlotOf[k]]
    IN  /\ Callable
        /\ chain # <<>> /\ chain[1].key # k
        /\ removal' = [key |-> k, at |-> 1]
        /\ Answer(k, "running")
        /\ UNCHANGED <<chains, item_len, open, heap>>

Removing == removal # None
RemovalSlot == SlotOf[removal.key]
IteratorHasNext == removal.at < Len(chains[RemovalSlot])
NextMatches_LooksAtIterator == chains[RemovalSlot][removal.at].key = removal.key
NextMatches == chains[RemovalSlot][removal.at + 1].key = removal.key

\* One turn of the loop: a mapping that matches is taken out ...
RemoveMatch ==
    /\ Removing
    /\ IteratorHasNext
    /\ NextMatches
    /\ Unlink(RemovalSlot, removal.at + 1)
    /\ UNCHANGED <<open, removal, ret>>

\* ... and one that does not changes nothing: iterator stays where it is.
RemoveMismatch ==
    /\ Removing
    /\ IteratorHasNext
    /\ ~NextMatches
    /\ UNCHANGED vars

RemoveReturn ==
    /\ Removing
    /\ ~IteratorHasNext
    /\ removal' = None
    /\ Answer(removal.key, "ok")
    /\ UNCHANGED <<chains, item_len, open, heap>>

-----------------------------------------------------------------------------

\* clear_map: every mapping of every slot.  Each was stored by
\* store_key_value_item, which sets locally_alloc, so free_map_value frees its
\* value and never calls destroy_cb.
ClearedHeap == heap - MappingAllocations * FoldFunction(LAMBDA c, n : Len(c) + n, 0, chains)

\* item_map_clear_all
ClearAll ==
    /\ Callable
    /\ chains' = Empty
    /\ heap' = ClearedHeap
    /\ item_len' = 0
    /\ Answer(NULL, "ok")
    /\ UNCHANGED <<open, removal>>

\* item_map_destroy
Destroy ==
    /\ Callable
    /\ chains' = Empty
    /\ heap' = ClearedHeap - HandleAllocations
    /\ item_len' = 0
    /\ open' = FALSE
    /\ UNCHANGED <<removal, ret>>

Next ==
    \/ Create \/ ClearAll \/ Destroy
    \/ \E k \in Keys, v \in Values : AddItem(k, v)
    \/ \E k \in Keys : GetItem(k) \/ RemoveFirstOfSlot(k) \/ RemoveFurther(k)
    \/ RemoveMatch \/ RemoveMismatch \/ RemoveReturn

\* A removal that has begun goes on.
Spec == Init /\ [][Next]_vars /\ WF_vars(RemoveMatch \/ RemoveMismatch \/ RemoveReturn)

-----------------------------------------------------------------------------
(* Properties *)

TypeOK ==
    /\ chains \in [Slots -> Seq([key : Keys, value : Values])]
    /\ item_len \in 0 .. MaxItems
    /\ heap \in Nat
    /\ open \in BOOLEAN
    /\ removal \in [key : Keys \cup {NULL}, at : 0 .. 1]
    /\ ret \in [of : Keys \cup {NULL}, is : Values \cup {NULL, "ok", "failed", "running"}]

\* What item_map_size reports is the number of mappings in the chains, also in
\* the middle of a removal, and the heap holds exactly those and the handle:
\* neither a failed allocation, a removal, a clear nor a destroy leaks or frees
\* twice.
Accounting ==
    LET mappings == FoldFunction(LAMBDA c, n : Len(c) + n, 0, chains)
    IN  /\ TypeOK
        /\ item_len = mappings
        /\ heap = MappingAllocations * mappings + IF open THEN HandleAllocations ELSE 0

OnlyMatchesFollow ==
    \A p \in 2 .. Len(chains[RemovalSlot]) : chains[RemovalSlot][p].key = removal.key

\* item_map_remove_item returns when no other key than the removed one follows the
\* first mapping of the chain: the loop then unlinks one mapping after the other
\* behind iterator.  From other chains it does not return.
RemoveReturnsFromPureChain == Removing /\ OnlyMatchesFollow ~> ~Removing

=============================================================================
