-------------------------------- MODULE Rings --------------------------------
(***************************************************************************)
(* What dllist.h promises, without links: each list the caller holds is a  *)
(* sequence of entries.  content maps the cell by which a list is held     *)
(* (its head, or the first entry of a ring that lost its head) to the      *)
(* other cells of the list in order.  DLList implements this specification *)
(* with content <- Contents.                                               *)
(***************************************************************************)
EXTENDS Sequences, SequencesExt

CONSTANTS Cells, NULL

VARIABLES content, ret

Anchors == DOMAIN content

Used == Anchors \cup UNION {ToSet(content[a]) : a \in Anchors}

\* content without the list held by a; and lists with one more, s held by h.
Without(a) == [b \in Anchors \ {a} |-> content[b]]
With(lists, h, s) == [b \in DOMAIN lists \cup {h} |-> IF b = h THEN s ELSE lists[b]]

Init == content = <<>> /\ ret = NULL

InitListHead(h) ==
    /\ h \notin Used
    /\ content' = With(content, h, <<>>)
    /\ UNCHANGED ret

IsEmpty(h) ==
    /\ h \in Anchors
    /\ ret' = (content[h] = <<>>)
    /\ UNCHANGED content

\* TRUE when at most one cell of the list is left.
RemoveMember(a, e) ==
    /\ a \in Anchors
    /\ \E p \in DOMAIN content[a] :
          content[a][p] = e /\ content' = [content EXCEPT ![a] = RemoveAt(@, p)]
    /\ ret' = (Len(content[a]) = 1)

\* The first entry stands for what is left of the list.
RemoveAnchor(a) ==
    /\ a \in Anchors
    /\ content' = IF content[a] = <<>>
                  THEN Without(a)
                  ELSE With(Without(a), Head(content[a]), Tail(content[a]))
    /\ ret' = (Len(content[a]) <= 1)

RemoveHead(h) ==
    /\ h \in Anchors
    /\ IF content[h] = <<>>
       THEN ret' = h /\ UNCHANGED content
       ELSE /\ ret' = Head(content[h])
            /\ content' = [content EXCEPT ![h] = Tail(@)]

InsertTail(h, e) ==
    /\ h \in Anchors
    /\ e \notin Used
    /\ content' = [content EXCEPT ![h] = Append(@, e)]
    /\ UNCHANGED ret

InsertHead(h, e) ==
    /\ h \in Anchors
    /\ e \notin Used
    /\ content' = [content EXCEPT ![h] = <<e>> \o @]
    /\ UNCHANGED ret

AppendTail(h, a) ==
    /\ {h, a} \subseteq Anchors
    /\ h # a
    /\ content' = [b \in Anchors \ {a} |->
                      IF b = h THEN content[h] \o <<a>> \o content[a] ELSE content[b]]
    /\ UNCHANGED ret

Next ==
    \/ \E h \in Cells : InitListHead(h) \/ IsEmpty(h) \/ RemoveAnchor(h) \/ RemoveHead(h)
    \/ \E h, e \in Cells : \/ InsertTail(h, e) \/ InsertHead(h, e)
                           \/ AppendTail(h, e) \/ RemoveMember(h, e)

Spec == Init /\ [][Next]_<<content, ret>>

=============================================================================
