------------------------------ MODULE ItemQueue ------------------------------
(***************************************************************************)
(* What item_list.h promises, without nodes: a sequence of items that grows *)
(* at its end, from which the item at a position is removed or looked at,   *)
(* and an iterator that goes through it, also while items are added.  A     *)
(* clear removes one item after the other.  ItemList implements it.         *)
(***************************************************************************)
EXTENDS Naturals, SequencesExt

CONSTANTS Items, NULL

VARIABLES content,   \* the items, in the order they were added
          pos,       \* the position the iterator of the caller is at; 0: none
          ret        \* the last answer, and the position asked for

Answer(k, result) == [at |-> k, is |-> result]

Init == content = <<>> /\ pos = 0 /\ ret = Answer(0, NULL)

Add(i) ==
    /\ content' = Append(content, i)
    /\ ret' = Answer(0, NULL)
    /\ UNCHANGED pos

Fails == ret' = Answer(0, "failed") /\ UNCHANGED <<content, pos>>

TakeOut(k) ==
    /\ pos = 0
    /\ content' = RemoveAt(content, k)
    /\ UNCHANGED <<pos, ret>>

Get(k) ==
    /\ ret' = Answer(k, IF k \in DOMAIN content THEN content[k] ELSE NULL)
    /\ UNCHANGED <<content, pos>>

Iterate ==
    /\ pos' = IF content = <<>> THEN 0 ELSE 1
    /\ UNCHANGED <<content, ret>>

GetNext ==
    /\ ret' = Answer(0, IF pos = 0 THEN NULL ELSE content[pos])
    /\ pos' = IF pos \in {0, Len(content)} THEN 0 ELSE pos + 1
    /\ UNCHANGED content

DropIterator == pos' = 0 /\ UNCHANGED <<content, ret>>

Next ==
    \/ \E i \in Items : Add(i)
    \/ \E k \in DOMAIN content : TakeOut(k)
    \/ Fails
    \/ Get(ret'.at)
    \/ Iterate \/ GetNext \/ DropIterator

Spec == Init /\ [][Next]_<<content, pos, ret>>

=============================================================================
