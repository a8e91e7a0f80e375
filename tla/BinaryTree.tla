----------------------------- MODULE BinaryTree -----------------------------
(***************************************************************************)
(* The binary tree of src/src/binary_tree.c.  Nothing changes the key of a *)
(* node and insertion refuses a key that is there, so a node is named by   *)
(* its key; data is what was stored under a key, named by it too.  The     *)
(* order of assignments to links is that of the code, since they go        *)
(* through the links that are being changed.                               *)
(*                                                                         *)
(* Several cases of the code do not leave a tree behind, or dereference    *)
(* NULL.  Each is modelled, and sets flaw to its name; no call is made of  *)
(* a tree that has a flaw.  What holds is stated for trees without one.    *)
(***************************************************************************)
EXTENDS Integers, FiniteSets

CONSTANTS Keys, NULL

ASSUME TreeAssumption == IsFiniteSet(Keys) /\ Keys \subseteq 0 .. 255 /\ NULL \notin Keys

VARIABLES
    node,       \* the NODE_INFO of each key
    root,       \* root_node
    items,
    live,       \* nodes allocated and not freed
    open,       \* the handle exists
    present,    \* history: the keys inserted and not removed since
    ret,        \* the last call that returned: of which key, and what it answered
    flaw        \* what has gone wrong, see above

vars == <<node, root, items, live, open, present, ret, flaw>>

Links == Keys \cup {NULL}

Blank == [parent |-> NULL, left |-> NULL, right |-> NULL,
          balance_factor |-> 0, height |-> 0, data |-> NULL]

Init == /\ node = [k \in Keys |-> Blank]
        /\ root = NULL
        /\ items = 0
        /\ live = {}
        /\ open = FALSE
        /\ present = {}
        /\ ret = [call |-> "none", of |-> NULL, is |-> "ok"]
        /\ flaw = "none"

Answer(c, k, result) == ret' = [call |-> c, of |-> k, is |-> result]

Callable == open /\ flaw = "none"

-----------------------------------------------------------------------------
(* Operators on the nodes m *)

Side(k, n) == IF k > n THEN "right" ELSE "left"

\* find_node: is there a node with key k, which is k itself?
FindNode(k) ==
    LET found[x \in Links] ==
            IF x \in {k, NULL} THEN x ELSE found[node[x][Side(k, x)]]
    IN  found[root] # NULL

Height(m, n) == IF n = NULL THEN 0 ELSE m[n].height

BalanceFactor(m, n) == Height(m, m[n].left) - Height(m, m[n].right)

\* rotate_right, of a node n with parent p and left child l.
RotateRight(m, n) ==
    LET p   == m[n].parent
        l   == m[n].left
        top == [m EXCEPT ![p].left = l, ![l].balance_factor = 0, ![l].parent = p,
                         ![p].balance_factor = @ + 1]
    IN  IF m[l].right = NULL
        THEN [top EXCEPT ![l].right = n, ![n].parent = l, ![n].left = NULL,
                         ![n].right = NULL, ![n].balance_factor = 0]
        ELSE [top EXCEPT ![n].left = m[l].right, ![n].right = NULL, ![l].right = n,
                         ![n].balance_factor = -1]

\* rotate_left.  n's parent is already r when the code asks for
\* node_info->parent->right->left, so that it looks at the left child of rr.
RotateLeft_KeepsParent(m, n) ==
    LET p == m[n].parent
        r == m[n].right
    IN  [m EXCEPT ![p].right = r, ![r].balance_factor = 0, ![r].parent = p, ![r].left = n,
                  ![n].right = NULL, ![n].height = m[r].height - 1, ![n].balance_factor = 0]

RotateLeft(m, n) ==
    LET p   == m[n].parent
        r   == m[n].right
        rr  == m[r].right
        top == [m EXCEPT ![p].right = r, ![r].balance_factor = 0, ![r].parent = p,
                         ![p].balance_factor = @ + 1, ![n].parent = r,
                         ![n].height = m[r].height - 1]
    IN  IF m[rr].left = NULL
        THEN [top EXCEPT ![r].left = n, ![n].right = NULL, ![n].left = NULL,
                         ![n].balance_factor = 0]
        ELSE [top EXCEPT ![n].right = m[m[r].left].right, ![n].left = NULL,
                         ![rr].left = n, ![n].balance_factor = 1]

\* The first half of the two double rotations: the inner grandchild x takes the
\* place of the child c, which becomes its child on the other side.
LiftInner(m, n, outer, inner) ==
    LET c == m[n][outer]
        x == m[c][inner]
    IN  [m EXCEPT ![x][outer] = c, ![c].height = @ - 1, ![c].parent = x, ![x].parent = n,
                  ![n][outer] = x, ![x].height = @ + 1, ![c][inner] = NULL]

-----------------------------------------------------------------------------
(* rebalance_if_neccessary *)

\* The rotation it chooses for n, as the side on which n is too heavy and the
\* side on which its child there is.
Heavy(m, n) ==
    LET b == m[n].balance_factor
        c(side, f) == m[m[n][side]].balance_factor = f
    IN  CASE b < -1 /\ c("right", -1) -> <<"right", "right">>
          [] b >  1 /\ c("left", 1)   -> <<"left", "left">>
          [] b < -1 /\ c("right", 1)  -> <<"right", "left">>
          [] b >  1 /\ c("left", -1)  -> <<"left", "right">>
          [] OTHER                    -> <<>>

Other(side) == IF side = "left" THEN "right" ELSE "left"

\* The nodes after the first half of a double rotation.
Prepared(m, n, h) == IF h[1] # h[2] /\ m[m[n][h[1]]][h[2]] # NULL
                     THEN LiftInner(m, n, h[1], h[2])
                     ELSE m

\* The rotation dereferences NULL: it needs a parent, and a grandchild on the side
\* it is chosen for unless it is rotate_right alone.
Crashes(m, n, h) ==
    LET p == Prepared(m, n, h)
        c == p[n][h[1]]
    IN  \/ m[n].parent = NULL
        \/ m[m[n][h[1]]][h[2]] = NULL /\ h # <<"left", "left">>
        \/ /\ h[1] = "right"
           /\ p[p[c].right].left # NULL /\ p[c].left = NULL

\* It leaves a tree behind with the same nodes: n hangs on the side of its parent
\* on which it is heavy itself, and no link that is overwritten leads to a node.
Keeps(m, n, h) ==
    LET p    == Prepared(m, n, h)
        s    == h[1]
        c    == p[n][s]
        lost == IF h[1] = h[2] THEN NULL ELSE m[c][s]
    IN  /\ m[m[n].parent][s] = n
        /\ p[n][Other(s)] = NULL
        /\ p[c][Other(s)] = NULL
        /\ s = "right" => p[p[c].right].left = NULL
        /\ lost = NULL

Rotate(m, n, h) ==
    LET p == Prepared(m, n, h)
    IN  IF h[1] = "right" THEN RotateLeft(p, n) ELSE RotateRight(p, n)

-----------------------------------------------------------------------------
(* insert_into_tree *)

\* The end of the call for node n: its balance, and perhaps a rotation.  s are the
\* nodes, the INSERT_NODE_TYPE and the flaw so far.
Settle(n, s) ==
    LET weighed == [s.m EXCEPT ![n].balance_factor = BalanceFactor(s.m, n)]
        h       == Heavy(weighed, n)
    IN  CASE h = <<>> -> [s EXCEPT !.m = weighed]
          [] h # <<>> /\ Crashes(weighed, n, h) -> [s EXCEPT !.m = weighed, !.flaw = "null"]
          [] OTHER -> [m       |-> Rotate(weighed, n, h),
                       outcome |-> "rebalance",
                       flaw    |-> IF s.flaw = "none" /\ ~Keeps(weighed, n, h)
                                   THEN "rotation" ELSE s.flaw]

\* The call for node n, when the call for its child on the way to k has returned s;
\* if it put k there, n links to it.  A height changes when the child has become
\* higher, on the right also when it has been rotated.
Climb(k, n, s) ==
    LET side    == Side(k, n)
        linked  == IF s.outcome = "inserted"
                   THEN [s.m EXCEPT ![n][side] = k, ![k].parent = n]
                   ELSE s.m
        child   == linked[n][side]
        higher  == \/ linked[n].height <= linked[child].height
                   \/ side = "right" /\ s.outcome = "rebalance"
        grown   == IF higher
                   THEN [linked EXCEPT ![n].height = linked[child].height + 1]
                   ELSE linked
        result  == IF s.outcome = "inserted" THEN "no_op" ELSE s.outcome
    IN  IF s.flaw = "null"
        THEN s
        ELSE Settle(n, [m |-> grown, outcome |-> result, flaw |-> s.flaw])

\* create_new_node, and the height that a leaf gets.
NewNode(k) == [Blank EXCEPT !.data = k, !.height = 1]

\* insert_into_tree for *target_node = x, when the key is new.
InsertInto(k) ==
    LET inserted[x \in Links] ==
            IF x = NULL
            THEN [m |-> [node EXCEPT ![k] = NewNode(k)], outcome |-> "inserted", flaw |-> "none"]
            ELSE Climb(k, x, inserted[node[x][Side(k, x)]])
    IN  inserted

\* binary_tree_insert, of a new key
Insert(k) ==
    LET s == InsertInto(k)[root]
    IN  /\ Callable
        /\ ~FindNode(k)
        /\ node' = s.m
        /\ root' = IF root = NULL THEN k ELSE root
        /\ flaw' = s.flaw
        /\ live' = live \cup {k}
        /\ IF s.flaw = "null"
           THEN UNCHANGED <<items, present, ret>>
           ELSE /\ items' = items + 1
                /\ present' = present \cup {k}
                /\ Answer("insert", k, "ok")
        /\ UNCHANGED open

\* It fails when the key is there, after freeing the new node, or without memory.
InsertFails(k) ==
    /\ Callable
    /\ Answer("insert", k, "failed")
    /\ UNCHANGED <<node, root, items, live, open, present, flaw>>

-----------------------------------------------------------------------------
(* remove_node: its cases.  The callback has the data before anything changes,  *)
(* and it is what the call answers here.                                        *)

Parent(k) == node[k].parent

\* The link of p that is changed: the left one if it leads to k, else the right.
LinkTo(p, k) == IF node[p].left = k THEN "left" ELSE "right"

\* The balance factor of the parent when its subtree on that side is one lower.
Lighter(b, side) == IF side = "left" THEN b - 1 ELSE b + 1

Freed(m, k) == [m EXCEPT ![k] = Blank]

\* The common part: the nodes are m when the node f has been freed.
Removed(k, m, f, how) ==
    /\ node' = Freed(m, f)
    /\ live' = live \ {f}
    /\ items' = items - 1
    /\ present' = present \ {k}
    /\ Answer("remove", k, node[k].data)
    /\ flaw' = how
    /\ UNCHANGED open

RemoveLeaf(k) ==
    LET p    == Parent(k)
        side == LinkTo(p, k)
    IN  /\ Callable /\ FindNode(k)
        /\ node[k].left = NULL /\ node[k].right = NULL
        /\ p # NULL
        /\ Removed(k, [node EXCEPT ![p][side] = NULL,
                                    ![p].balance_factor = Lighter(@, side)],
                   k, "none")
        /\ UNCHANGED root

\* The only child takes the place of the node.  A left child of a left child is
\* not told its new parent.
RemoveWithOneChild(k) ==
    \E s \in {"left", "right"} :
        LET p    == Parent(k)
            side == LinkTo(p, k)
            c    == node[k][s]
            told == s = "right" \/ side = "right"
        IN  /\ Callable /\ FindNode(k)
            /\ c # NULL /\ node[k][Other(s)] = NULL
            /\ p # NULL
            /\ Removed(k, [node EXCEPT ![p][side] = c,
                                        ![c].parent = IF told THEN p ELSE @,
                                        ![p].balance_factor = Lighter(@, side)],
                       k, IF told THEN "none" ELSE "parent")
            /\ UNCHANGED root

\* Both cases look at the links of the parent, which the root does not have.
RemoveRoot ==
    /\ Callable
    /\ root # NULL
    /\ node[root].left = NULL \/ node[root].right = NULL
    /\ flaw' = "null"
    /\ UNCHANGED <<node, root, items, live, open, present, ret>>

HasTwo(k) == Callable /\ FindNode(k) /\ node[k].left # NULL /\ node[k].right # NULL

\* Two children, of which the right one has a left one: the smallest node of the
\* right subtree gives its data and is freed.  The key stays.
RemoveForSuccessor(k) ==
    LET leftmost[x \in Keys] ==
            IF node[x].left = NULL THEN x ELSE leftmost[node[x].left]
        smallest == leftmost[node[k].right]
    IN  /\ HasTwo(k)
        /\ node[node[k].right].left # NULL
        /\ Removed(k, [node EXCEPT ![k].data = node[smallest].data,
                                    ![node[smallest].parent].left = NULL],
                   smallest, "successor")
        /\ UNCHANGED root

\* Otherwise the right child takes the place of the node: of the root ...
RemoveRootWithTwo_LosesLeft(k) ==
    LET r == node[k].right
    IN  /\ HasTwo(k)
        /\ node[r].left = NULL
        /\ Parent(k) = NULL
        /\ root' = r
        /\ Removed(k, [node EXCEPT ![r].parent = NULL], k, "none")

RemoveRootWithTwo(k) ==
    LET l  == node[k].left
        r  == node[k].right
        rr == node[r].right
        m  == IF rr = NULL THEN node
              ELSE [node EXCEPT ![rr].parent = node[r].parent, ![rr].height = node[r].height]
    IN  /\ HasTwo(k)
        /\ node[r].left = NULL
        /\ Parent(k) = NULL
        /\ root' = r
        /\ Removed(k, [m EXCEPT ![r].parent = NULL, ![r].height = node[k].height,
                                 ![r].left = l, ![l].parent = r],
                   k, IF rr = NULL THEN "none" ELSE "parent")

\* ... or of an inner node, whose left child is not told.
RemoveInnerWithTwo(k) ==
    LET p    == Parent(k)
        side == IF node[p].right = k THEN "right" ELSE "left"
        r    == node[k].right
    IN  /\ HasTwo(k)
        /\ node[r].left = NULL
        /\ p # NULL
        /\ Removed(k, [node EXCEPT ![p][side] = r,
                                    ![p].balance_factor = Lighter(@, Other(side)),
                                    ![r].parent = p, ![r].left = node[k].left,
                                    ![r].balance_factor = @ - 1],
                   k, "parent")
        /\ UNCHANGED root

RemoveFails(k) ==
    /\ Callable
    /\ ~FindNode(k)
    /\ Answer("remove", k, "failed")
    /\ UNCHANGED <<node, root, items, live, open, present, flaw>>

-----------------------------------------------------------------------------

\* binary_tree_create; without memory there is no handle.
Create ==
    /\ ~open
    /\ open' = TRUE
    /\ UNCHANGED <<node, root, items, live, present, ret, flaw>>

\* What clear_tree frees, and its caller after it.
Reachable ==
    LET under[x \in Links] ==
            IF x = NULL THEN {} ELSE {x} \cup under[node[x].left] \cup under[node[x].right]
    IN  under[root]

\* binary_tree_destroy and clear_tree, which free what the links lead to.
Destroy ==
    /\ Callable
    /\ node' = [k \in Keys |-> IF k \in Reachable THEN Blank ELSE node[k]]
    /\ live' = live \ Reachable
    /\ root' = NULL
    /\ items' = 0
    /\ open' = FALSE
    /\ present' = {}
    /\ Answer("destroy", NULL, "ok")
    /\ UNCHANGED flaw

\* binary_tree_find
Find(k) == IF FindNode(k) THEN node[k].data ELSE NULL

FindItem(k) ==
    /\ Callable
    /\ Answer("find", k, Find(k))
    /\ UNCHANGED <<node, root, items, live, open, present, flaw>>

\* binary_tree_height, which looks at the root without asking for one.
TreeHeight ==
    /\ Callable
    /\ IF root = NULL
       THEN flaw' = "null" /\ UNCHANGED ret
       ELSE Answer("height", NULL, node[root].height) /\ UNCHANGED flaw
    /\ UNCHANGED <<node, root, items, live, open, present>>

Next ==
    \/ Create \/ Destroy \/ RemoveRoot \/ TreeHeight
    \/ \E k \in Keys :
        \/ Insert(k) \/ InsertFails(k) \/ FindItem(k) \/ RemoveFails(k)
        \/ RemoveLeaf(k) \/ RemoveWithOneChild(k) \/ RemoveForSuccessor(k)
        \/ RemoveRootWithTwo(k) \/ RemoveInnerWithTwo(k)

Spec == Init /\ [][Next]_vars

-----------------------------------------------------------------------------
(* Properties *)

TypeOK ==
    LET N == Cardinality(Keys)
    IN  /\ node \in [Keys -> [parent : Links, left : Links, right : Links, data : Links,
                              balance_factor : Int, height : Nat]]
        /\ root \in Links
        /\ items \in 0 .. N
        /\ live \subseteq Keys /\ present \subseteq Keys
        /\ open \in BOOLEAN
        /\ ret.of \in Links
        /\ flaw \in {"none", "null", "rotation", "parent", "successor"}

Sound == flaw = "none"

\* Parent and child links stay each other's inverse and lead to nodes that are
\* allocated, through every order of insertions with their rotations and of
\* removals; a rotation and the next removal write through both.
LinksAgree ==
    /\ TypeOK
    /\ Sound =>
        /\ root # NULL => node[root].parent = NULL
        /\ \A n \in live, s \in {"left", "right"} :
               node[n][s] # NULL => node[n][s] \in live /\ node[node[n][s]].parent = n
        /\ \A n \in live \ {root} :
               LET p == node[n].parent
               IN  p \in live /\ n \in {node[p].left, node[p].right}

\* A lookup finds each key that was inserted and not removed, with its own data,
\* and no other key; binary_tree_item_count is their number, and exactly their
\* nodes are allocated.  Rotations and removals move whole subtrees, which must
\* stay on the side of their keys.
HoldsWhatIsPresent ==
    Sound =>
        /\ \A k \in Keys : Find(k) = IF k \in present THEN k ELSE NULL
        /\ items = Cardinality(present)
        /\ live = present

\* "Replace Node with smallest value in right subtree" (binary_tree.c:509): what
\* a removal has taken out is no longer found.  The key of a node with two
\* children stays, with the data of another, whose key is lost.
RemovedIsGone ==
    ret.call = "remove" /\ flaw # "null" => ~FindNode(ret.of)

=============================================================================
