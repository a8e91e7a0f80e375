------------------------------ MODULE MCDLList ------------------------------
(* DLList on a small set of cells, and its implementation of Rings.        *)
EXTENDS DLList

R == INSTANCE Rings WITH content <- Contents

\* Walking the rings of dllist.c from their anchors, a caller sees exactly the
\* sequences the list operations of Rings produce: nothing is lost, duplicated,
\* reordered or moved to another list, and every result is the promised one.
ImplementsRings == R!Spec

=============================================================================
