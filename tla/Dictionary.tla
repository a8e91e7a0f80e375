----------------------------- MODULE Dictionary -----------------------------
(***************************************************************************)
(* What item_map.h promises, without hashing or chains: for each key the   *)
(* values added under it, oldest first, of which a lookup sees the oldest  *)
(* and a removal takes out the oldest.  Other keys are never concerned,    *)
(* whether or not they share a slot.  ItemMap implements it.               *)
(***************************************************************************)
EXTENDS Sequences

CONSTANTS Keys, Values, NULL

VARIABLES content, ret

Init == content = [k \in Keys |-> <<>>] /\ ret = [of |-> NULL, is |-> "ok"]

Put(k, v) ==
    /\ content' = [content EXCEPT ![k] = Append(@, v)]
    /\ ret' = [of |-> k, is |-> "ok"]

Lookup(k) ==
    /\ ret' = [of |-> k, is |-> IF content[k] = <<>> THEN NULL ELSE Head(content[k])]
    /\ UNCHANGED content

\* A removal of k takes out one value after the other, or none at all.
TakeOut(k) ==
    /\ content[k] # <<>>
    /\ content' = [content EXCEPT ![k] = Tail(@)]
    /\ ret' \in [of : {k}, is : {"ok", "running"}]

Answers ==
    /\ ret' \in [of : Keys \cup {NULL}, is : {"ok", "failed", "running"}]
    /\ UNCHANGED content

Clear ==
    /\ content' = [k \in Keys |-> <<>>]
    /\ ret' \in {ret, [of |-> NULL, is |-> "ok"]}

Next ==
    \/ \E k \in Keys : Lookup(k) \/ TakeOut(k) \/ \E v \in Values : Put(k, v)
    \/ Answers \/ Clear

Spec == Init /\ [][Next]_<<content, ret>>

=============================================================================
