----------------------------- MODULE MCItemList -----------------------------
(* ItemList on a few nodes and items, and its implementation of ItemQueue. *)
EXTENDS ItemList

\* Where node n is in the list; 0: nowhere.
Position(n) == IF n \in InChain THEN CHOOSE k \in DOMAIN Chain : Chain[k] = n ELSE 0

Q == INSTANCE ItemQueue WITH content <- Content, pos <- Position(cursor)

\* The list is a queue of items: additions go to the end, a removal takes out
\* one item and leaves the order of the others, a query answers from the position
\* it asks for, an iterator meets every item once, those added meanwhile too, and
\* no destroy_cb that adds an item disturbs any of it.
ImplementsQueue == Q!Spec

=============================================================================
