------------------------------- MODULE DLList -------------------------------
(***************************************************************************)
(* The intrusive doubly linked list of src/src/dllist.c.                   *)
(*                                                                         *)
(* Every DLLIST_ENTRY is a cell with two links.  The library makes no      *)
(* difference between a list head and an entry: a list is a ring of cells  *)
(* and its head is the cell the caller keeps hold of, here an "anchor".    *)
(* dllist_remove_entry applied to a head leaves a ring without a head,     *)
(* which the caller holds by its first entry: that entry is the new        *)
(* anchor, and such a ring is what dllist_append_tail appends.             *)
(*                                                                         *)
(* fwd and bk are the memory; owner is what a correct caller knows, namely *)
(* in which list each cell is (NULL: in none), and it carries the          *)
(* preconditions the C functions do not test: only unused cells are        *)
(* inserted, only used ones removed.  A removed cell keeps its stale       *)
(* links, as it does in the code.                                          *)
(***************************************************************************)
EXTENDS Naturals, FiniteSetsExt

CONSTANTS Cells,   \* every DLLIST_ENTRY of the program, heads included
          NULL     \* the content of a link nobody has written yet

ASSUME NullAssumption == NULL \notin Cells /\ IsFiniteSet(Cells)

VARIABLES fwd,     \* fwd_link of each cell
          bk,      \* bk_link of each cell
          owner,   \* the anchor of the list each cell is in
          ret      \* the result of the last call that has one

vars == <<fwd, bk, owner, ret>>

\* The cells in use, and those by which the caller holds a list.
Ring == {c \in Cells : owner[c] # NULL}
Anchor == {c \in Cells : owner[c] = c}

Init == /\ fwd = [c \in Cells |-> NULL]
        /\ bk = [c \in Cells |-> NULL]
        /\ owner = [c \in Cells |-> NULL]
        /\ ret = NULL

-----------------------------------------------------------------------------

\* dllist_init_list_head: the cell becomes a ring of one.
InitListHead(h) ==
    /\ h \notin Ring
    /\ fwd' = [fwd EXCEPT ![h] = h]
    /\ bk' = [bk EXCEPT ![h] = h]
    /\ owner' = [owner EXCEPT ![h] = h]
    /\ UNCHANGED ret

\* dllist_is_empty
IsEmpty(h) ==
    /\ h \in Anchor
    /\ ret' = (fwd[h] = h)
    /\ UNCHANGED <<fwd, bk, owner>>

RemoveEntryResult_SelfLink(e) == fwd[e] = e

\* The value dllist_remove_entry returns.
RemoveEntryResult(e) == fwd[e] = bk[e]

LinksAfterRemoval_KeepsFwd(e) ==
    /\ bk' = [bk EXCEPT ![fwd[e]] = bk[e]]
    /\ UNCHANGED fwd

LinksAfterRemoval(e) ==
    /\ fwd' = [fwd EXCEPT ![bk[e]] = fwd[e]]
    /\ bk' = [bk EXCEPT ![fwd[e]] = bk[e]]

\* dllist_remove_entry on an entry, or on a head, whose first entry (if it has
\* one) then stands for the ring that is left.
RemoveEntry(e) ==
    LET heir == IF fwd[e] = e THEN NULL ELSE fwd[e]
    IN  /\ e \in Ring
        /\ LinksAfterRemoval(e)
        /\ ret' = RemoveEntryResult(e)
        /\ owner' = [c \in Cells |-> IF c = e THEN NULL
                                    ELSE IF owner[c] = e THEN heir ELSE owner[c]]

\* dllist_remove_head: returns the head itself, which stays a ring of one, when
\* the list is empty.
RemoveHead(h) ==
    LET entry == fwd[h]
        next  == fwd[entry]
    IN  /\ h \in Anchor
        /\ fwd' = [fwd EXCEPT ![h] = next]
        /\ bk' = [bk EXCEPT ![next] = h]
        /\ ret' = entry
        /\ owner' = IF entry = h THEN owner ELSE [owner EXCEPT ![entry] = NULL]

LinkTail(h, e) ==
    LET last == bk[h]
    IN  /\ fwd' = [fwd EXCEPT ![e] = h, ![last] = e]
        /\ bk' = [bk EXCEPT ![e] = last, ![h] = e]

\* dllist_insert_tail
InsertTail(h, e) ==
    /\ h \in Anchor
    /\ e \notin Ring
    /\ LinkTail(h, e)
    /\ owner' = [owner EXCEPT ![e] = h]
    /\ UNCHANGED ret

Splice_AsHead(h, a) ==
    /\ fwd' = [fwd EXCEPT ![bk[h]] = fwd[a], ![bk[a]] = h]
    /\ bk' = [bk EXCEPT ![h] = bk[a], ![fwd[a]] = bk[h]]

Splice(h, a) ==
    LET last  == bk[h]
        lastA == bk[a]
    IN  /\ fwd' = [fwd EXCEPT ![last] = a, ![lastA] = h]
        /\ bk' = [bk EXCEPT ![h] = lastA, ![a] = last]

\* dllist_append_tail: the ring held by a goes behind the last cell of the ring
\* of h; a is from then on an entry like any other.
AppendTail(h, a) ==
    /\ h \in Anchor
    /\ a \in Anchor
    /\ h # a
    /\ Splice(h, a)
    /\ owner' = [c \in Cells |-> IF owner[c] = a THEN h ELSE owner[c]]
    /\ UNCHANGED ret

\* dllist_insert_head
InsertHead(h, e) ==
    LET first == fwd[h]
    IN  /\ h \in Anchor
        /\ e \notin Ring
        /\ bk' = [bk EXCEPT ![e] = h, ![first] = e]
        /\ fwd' = [fwd EXCEPT ![e] = first, ![h] = e]
        /\ owner' = [owner EXCEPT ![e] = h]
        /\ UNCHANGED ret

Next ==
    \/ \E h \in Cells : InitListHead(h) \/ IsEmpty(h) \/ RemoveEntry(h) \/ RemoveHead(h)
    \/ \E h, e \in Cells : InsertTail(h, e) \/ InsertHead(h, e) \/ AppendTail(h, e)

Spec == Init /\ [][Next]_vars

-----------------------------------------------------------------------------

\* Types; the part that could go wrong is that a cell in use has both links
\* written and pointing at cells in use, never at a removed or a raw one.
TypeOK ==
    /\ fwd \in [Cells -> Cells \cup {NULL}]
    /\ bk \in [Cells -> Cells \cup {NULL}]
    /\ owner \in [Cells -> Cells \cup {NULL}]
    /\ ret \in Cells \cup BOOLEAN \cup {NULL}
    /\ \A c \in Ring : {fwd[c], bk[c]} \subseteq Ring /\ owner[c] \in Anchor

\* The two links are inverse to each other on every cell in use: going forward
\* and back (or back and forward) returns to the cell, whichever sequence of
\* inserts, removals and splices of dllist.c built the rings.
LinksInverse ==
    \A c \in Ring : bk[fwd[c]] = c /\ fwd[bk[c]] = c

\* Links never lead from one list into another: the neighbours of a cell are in
\* the list the caller put it in, through every splice and every removal.
ListsSeparate ==
    \A c \in Ring : owner[fwd[c]] = owner[c] /\ owner[bk[c]] = owner[c]

\* All together: the cells in use form disjoint doubly linked rings, one for each
\* list, and no link of theirs is unwritten or leads to a cell out of use.
RingsWellFormed == TypeOK /\ LinksInverse /\ ListsSeparate

\* The result of dllist_remove_entry is TRUE exactly when at most one cell is
\* left of the ring, which is then linked to itself.
RemoveEntryAnswer ==
    [][\A e \in Cells : RemoveEntry(e) /\ fwd[e] # e =>
          (ret' <=> fwd'[fwd[e]] = fwd[e])]_vars

-----------------------------------------------------------------------------
(* The rings as sequences: what a caller who walks a list from its anchor      *)
(* along fwd_link meets, for the implementation of module Rings.               *)

\* The n-th cell of the walk from c, which ends when it is back at c or meets a
\* raw link.
Walk(c) ==
    LET at[n \in 0 .. Cardinality(Cells)] ==
            IF n = 0 THEN fwd[c]
            ELSE IF at[n - 1] \in {c, NULL} THEN at[n - 1] ELSE fwd[at[n - 1]]
    IN  at

\* The cells of the ring of anchor a in order, without a itself.
Content(a) ==
    LET met == Walk(a)
        len == Min({n \in DOMAIN met : met[n] = a} \cup {Cardinality(Cells)})
    IN  [i \in 1 .. len |-> met[i - 1]]

Contents == [a \in Anchor |-> Content(a)]

=============================================================================
