------------------------------ MODULE MCItemMap ------------------------------
(* ItemMap with a given hash function, and its implementation of Dictionary. *)
EXTENDS ItemMap, TLC

CONSTANTS k1, k2, k3, s1, s2

MCKeys == {k1, k2, k3}
MCSlots == {s1, s2}

\* Two keys share a slot, the third has one of its own.
MCSlotOf == k1 :> s1 @@ k2 :> s1 @@ k3 :> s2

D == INSTANCE Dictionary WITH
        content <- [k \in Keys |->
            LET chain == SelectSeq(chains[SlotOf[k]], LAMBDA kv : kv.key = k)
            IN  [p \in DOMAIN chain |-> chain[p].value]]

\* Keys that share a slot never touch each other: a lookup finds the oldest value
\* of its own key, and a removal takes out values of its own key only, the oldest
\* first, at whatever place of whatever chain they are.
ImplementsDictionary == D!Spec

=============================================================================
