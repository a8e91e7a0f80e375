-------------------------- MODULE BinaryTreeProofs --------------------------
(***************************************************************************)
(* The links and the content of BinaryTree.tla are right for every finite  *)
(* set of keys and every order of calls, as long as none of the defects    *)
(* that the model names has been met.                                      *)
(*                                                                         *)
(* The invariant is TreeInv: there is a function sub that gives each node  *)
(* the set of the nodes of its subtree, and with it the links are a tree.  *)
(* Most of what follows is about insertion, which goes down to a leaf and  *)
(* comes back up with a rotation anywhere: Returned says what the call of  *)
(* insert_into_tree for a node leaves behind, and TreeInduction is the     *)
(* induction on the links that the recursive functions of the model need.  *)
(***************************************************************************)
EXTENDS BinaryTree, FiniteSetTheorems, WellFoundedInduction, TLAPS

Fields == [parent : Links, left : Links, right : Links, data : Links,
           balance_factor : Int, height : Nat]
Nodes == [Keys -> Fields]

LEMMA KeysAreNat == Keys \subseteq Nat /\ Keys \subseteq Int /\ NULL \notin Keys
  BY TreeAssumption

-----------------------------------------------------------------------------
(* What a call may change.  m are the nodes, m0 those it started from: it has  *)
(* written to the nodes D, whose links stay among them, and to the links of p  *)
(* that lead to them.                                                          *)

Closed(m, D) == \A y \in D : {m[y].left, m[y].right} \subseteq D \cup {NULL}

Framed(m0, m, D, p) ==
    /\ m \in Nodes /\ D \subseteq Keys /\ p \in Links \ D
    /\ \A y \in Keys \ (D \cup {p}) : m[y] = m0[y]
    /\ p # NULL => /\ m[p].parent = m0[p].parent /\ m[p].data = m0[p].data
                   /\ m[p].left \in D \cup {m0[p].left} /\ m[p].right \in D \cup {m0[p].right}
    /\ Closed(m, D)

\* The assignments the code makes, each of one field of one node; what each of
\* them keeps is all that is needed of it.
SetLeft(m, y, v) == [m EXCEPT ![y].left = v]
SetRight(m, y, v) == [m EXCEPT ![y].right = v]
SetParent(m, y, v) == [m EXCEPT ![y].parent = v]
SetBalance(m, y, v) == [m EXCEPT ![y].balance_factor = v]
SetHeight(m, y, v) == [m EXCEPT ![y].height = v]

LEMMA SetLeftFramed ==
    \A m0, m, D, p, y, v :
        Framed(m0, m, D, p) /\ y \in D /\ v \in D \cup {NULL} => Framed(m0, SetLeft(m, y, v), D, p)
  BY DEF Framed, Closed, SetLeft, Nodes, Fields, Links

LEMMA SetLeftOfParentFramed ==
    \A m0, m, D, p, y, v :
        Framed(m0, m, D, p) /\ y \in Keys /\ y \in D \cup {p} /\ v \in D
        => Framed(m0, SetLeft(m, y, v), D, p)
  BY DEF Framed, Closed, SetLeft, Nodes, Fields, Links

LEMMA SetRightFramed ==
    \A m0, m, D, p, y, v :
        Framed(m0, m, D, p) /\ y \in D /\ v \in D \cup {NULL} => Framed(m0, SetRight(m, y, v), D, p)
  BY DEF Framed, Closed, SetRight, Nodes, Fields, Links

LEMMA SetRightOfParentFramed ==
    \A m0, m, D, p, y, v :
        Framed(m0, m, D, p) /\ y \in Keys /\ y \in D \cup {p} /\ v \in D
        => Framed(m0, SetRight(m, y, v), D, p)
  BY DEF Framed, Closed, SetRight, Nodes, Fields, Links

LEMMA SetParentFramed ==
    \A m0, m, D, p, y, v :
        Framed(m0, m, D, p) /\ y \in D /\ v \in Links => Framed(m0, SetParent(m, y, v), D, p)
  BY DEF Framed, Closed, SetParent, Nodes, Fields, Links

LEMMA SetBalanceFramed ==
    \A m0, m, D, p, y, v :
        Framed(m0, m, D, p) /\ y \in Keys /\ y \in D \cup {p} /\ v \in Int
        => Framed(m0, SetBalance(m, y, v), D, p)
  BY DEF Framed, Closed, SetBalance, Nodes, Fields, Links

LEMMA SetHeightFramed ==
    \A m0, m, D, p, y, v :
        Framed(m0, m, D, p) /\ y \in Keys /\ y \in D \cup {p} /\ v \in Nat
        => Framed(m0, SetHeight(m, y, v), D, p)
  BY DEF Framed, Closed, SetHeight, Nodes, Fields, Links

\* The assignments of the rotations, one after the other: those to the parent p
\* and the new topmost node, then those of the two cases.
RightTop(m, p, l) ==
    SetBalance(SetParent(SetBalance(SetLeft(m, p, l), l, 0), l, p), p, m[p].balance_factor + 1)

RightLeaf(m, n, l) ==
    SetBalance(SetRight(SetLeft(SetParent(SetRight(m, l, n), n, l), n, NULL), n, NULL), n, 0)

RightInner(m, n, l, x) == SetBalance(SetRight(SetRight(SetLeft(m, n, x), n, NULL), l, n), n, -1)

LeftTop(m, n, p, r, h) ==
    SetHeight(SetParent(SetBalance(SetParent(SetBalance(SetRight(m, p, r), r, 0), r, p),
                                   p, m[p].balance_factor + 1), n, r), n, h)

LeftLeaf(m, n, r) == SetBalance(SetLeft(SetRight(SetLeft(m, r, n), n, NULL), n, NULL), n, 0)

LeftInner(m, n, rr, x) == SetBalance(SetLeft(SetLeft(SetRight(m, n, x), n, NULL), rr, n), n, 1)

LiftRight(m, n, c, x, hc, hx) ==
    SetLeft(SetHeight(SetRight(SetParent(SetParent(SetHeight(SetRight(m, x, c),
            c, hc), c, x), x, n), n, x), x, hx), c, NULL)

LiftLeft(m, n, c, x, hc, hx) ==
    SetRight(SetHeight(SetLeft(SetParent(SetParent(SetHeight(SetLeft(m, x, c),
             c, hc), c, x), x, n), n, x), x, hx), c, NULL)

\* A rotation is its assignments, one after the other.
LEMMA RotateRightSteps ==
    ASSUME NEW m, NEW n
    PROVE  RotateRight(m, n) =
               LET p == m[n].parent
                   l == m[n].left
                   x == m[l].right
               IN  IF x = NULL THEN RightLeaf(RightTop(m, p, l), n, l)
                   ELSE RightInner(RightTop(m, p, l), n, l, x)
<1>1. CASE m[m[n].left].right = NULL
  BY <1>1 DEF RotateRight, RightTop, RightLeaf, SetBalance, SetLeft, SetRight, SetParent
<1>2. ASSUME m[m[n].left].right # NULL
      PROVE  RotateRight(m, n) = RightInner(RightTop(m, m[n].parent, m[n].left), n, m[n].left,
                                            m[m[n].left].right)
  BY <1>2 DEF RotateRight, RightTop, RightInner, SetBalance, SetLeft, SetRight, SetParent
<1> QED
  BY <1>1, <1>2

LEMMA RotateLeftSteps ==
    ASSUME NEW m, NEW n
    PROVE  RotateLeft(m, n) =
               LET p   == m[n].parent
                   r   == m[n].right
                   rr  == m[r].right
                   top == LeftTop(m, n, p, r, m[r].height - 1)
               IN  IF m[rr].left = NULL THEN LeftLeaf(top, n, r)
                   ELSE LeftInner(top, n, rr, m[m[r].left].right)
<1>1. CASE m[m[m[n].right].right].left = NULL
  BY <1>1 DEF RotateLeft, LeftTop, LeftLeaf, SetBalance, SetLeft, SetRight, SetParent, SetHeight
<1>2. ASSUME m[m[m[n].right].right].left # NULL
      PROVE  RotateLeft(m, n) =
                 LeftInner(LeftTop(m, n, m[n].parent, m[n].right, m[m[n].right].height - 1),
                           n, m[m[n].right].right, m[m[m[n].right].left].right)
  BY <1>2 DEF RotateLeft, LeftTop, LeftInner, SetBalance, SetLeft, SetRight, SetParent, SetHeight
<1> QED
  BY <1>1, <1>2

LEMMA LiftRightSteps ==
    ASSUME NEW m, NEW n
    PROVE  LiftInner(m, n, "right", "left") =
               LET c == m[n].right
                   x == m[c].left
               IN  LiftRight(m, n, c, x, m[c].height - 1, m[x].height + 1)
  BY DEF LiftInner, LiftRight, SetLeft, SetRight, SetParent, SetHeight

LEMMA LiftLeftSteps ==
    ASSUME NEW m, NEW n
    PROVE  LiftInner(m, n, "left", "right") =
               LET c == m[n].left
                   x == m[c].right
               IN  LiftLeft(m, n, c, x, m[c].height - 1, m[x].height + 1)
  BY DEF LiftInner, LiftLeft, SetLeft, SetRight, SetParent, SetHeight

\* Each of those sequences stays within the frame, when the nodes they write to are
\* in it.
LEMMA RightFramed ==
    ASSUME NEW m0, NEW m, NEW D, NEW p \in Keys, Framed(m0, m, D, p),
           NEW n \in D, NEW l \in D, NEW y \in D \cup {p}, NEW x \in D \cup {NULL}
    PROVE  /\ Framed(m0, RightTop(m, y, l), D, p)
           /\ Framed(m0, RightLeaf(m, n, l), D, p)
           /\ Framed(m0, RightInner(m, n, l, x), D, p)
<1>1. /\ {n, y, l} \subseteq Keys /\ {n, y, l} \subseteq Links /\ NULL \in Links
      /\ m[y].balance_factor + 1 \in Int
      /\ 0 \in Int /\ -1 \in Int /\ {n, l, NULL} \subseteq D \cup {NULL}
  BY DEF Framed, Nodes, Fields, Links
<1>2. Framed(m0, RightTop(m, y, l), D, p)
  BY <1>1, SetLeftOfParentFramed, SetBalanceFramed, SetParentFramed DEF RightTop
<1>3. Framed(m0, RightLeaf(m, n, l), D, p)
  BY <1>1, SetLeftFramed, SetRightFramed, SetBalanceFramed, SetParentFramed DEF RightLeaf
<1>4. Framed(m0, RightInner(m, n, l, x), D, p)
  BY <1>1, SetLeftFramed, SetRightFramed, SetBalanceFramed DEF RightInner
<1> QED
  BY <1>2, <1>3, <1>4

LEMMA LeftFramed ==
    ASSUME NEW m0, NEW m, NEW D, NEW p \in Keys, Framed(m0, m, D, p),
           NEW n \in D, NEW r \in D, NEW y \in D \cup {p}, NEW x \in D \cup {NULL}, NEW h \in Nat
    PROVE  /\ Framed(m0, LeftTop(m, n, y, r, h), D, p)
           /\ Framed(m0, LeftLeaf(m, n, r), D, p)
           /\ Framed(m0, LeftInner(m, n, r, x), D, p)
<1>1. /\ {n, y, r} \subseteq Keys /\ {n, y, r} \subseteq Links /\ NULL \in Links
      /\ m[y].balance_factor + 1 \in Int
      /\ 0 \in Int /\ 1 \in Int /\ {n, r, NULL} \subseteq D \cup {NULL}
  BY DEF Framed, Nodes, Fields, Links
<1>2. Framed(m0, LeftTop(m, n, y, r, h), D, p)
  BY <1>1, SetRightOfParentFramed, SetBalanceFramed, SetParentFramed, SetHeightFramed DEF LeftTop
<1>3. Framed(m0, LeftLeaf(m, n, r), D, p)
  BY <1>1, SetLeftFramed, SetRightFramed, SetBalanceFramed DEF LeftLeaf
<1>4. Framed(m0, LeftInner(m, n, r, x), D, p)
  BY <1>1, SetLeftFramed, SetRightFramed, SetBalanceFramed DEF LeftInner
<1> QED
  BY <1>2, <1>3, <1>4

LEMMA LiftFramed ==
    ASSUME NEW m0, NEW m, NEW D, NEW p \in Keys, Framed(m0, m, D, p),
           NEW n \in D, NEW c \in D, NEW x \in D, NEW hc \in Nat, NEW hx \in Nat
    PROVE  /\ Framed(m0, LiftRight(m, n, c, x, hc, hx), D, p)
           /\ Framed(m0, LiftLeft(m, n, c, x, hc, hx), D, p)
<1>1. /\ {n, c, x} \subseteq Links /\ {n, c, x} \subseteq Keys
      /\ {n, c, x, NULL} \subseteq D \cup {NULL}
  BY DEF Framed, Links
<1>2. Framed(m0, LiftRight(m, n, c, x, hc, hx), D, p)
  BY <1>1, SetLeftFramed, SetRightFramed, SetHeightFramed, SetParentFramed DEF LiftRight
<1>3. Framed(m0, LiftLeft(m, n, c, x, hc, hx), D, p)
  BY <1>1, SetLeftFramed, SetRightFramed, SetHeightFramed, SetParentFramed DEF LiftLeft
<1> QED
  BY <1>2, <1>3

\* The fields of the nodes of a frame, and where its links lead.
LEMMA FramedFields ==
    ASSUME NEW m0, NEW m, NEW D, NEW p, Framed(m0, m, D, p), NEW y \in D
    PROVE  /\ y \in Keys /\ m[y].left \in D \cup {NULL} /\ m[y].right \in D \cup {NULL}
           /\ m[y].parent \in Links /\ m[y].height \in Nat /\ m[y].balance_factor \in Int
  BY DEF Framed, Closed, Nodes, Fields, Links

\* So do the rotations of rotate_right and rotate_left, and the first halves of the
\* double ones.
LEMMA RotateRightFramed ==
    ASSUME NEW m0, NEW m, NEW D, NEW p \in Keys, Framed(m0, m, D, p),
           NEW n \in D, NEW l \in D, NEW y \in D \cup {p}, y = m[n].parent, l = m[n].left
    PROVE  Framed(m0, RotateRight(m, n), D, p)
<1>1. Framed(m0, RightTop(m, y, l), D, p) /\ m[l].right \in D \cup {NULL}
  BY RightFramed, FramedFields
<1>2. /\ Framed(m0, RightLeaf(RightTop(m, y, l), n, l), D, p)
      /\ Framed(m0, RightInner(RightTop(m, y, l), n, l, m[l].right), D, p)
  BY <1>1, RightFramed
<1> QED
  BY <1>2, RotateRightSteps

LEMMA RotateLeftFramed ==
    ASSUME NEW m0, NEW m, NEW D, NEW p \in Keys, Framed(m0, m, D, p),
           NEW n \in D, NEW r \in D, NEW y \in D \cup {p}, y = m[n].parent, r = m[n].right,
           m[r].height >= 1,
           NEW rr \in D, rr = m[r].right, m[rr].left # NULL => m[r].left # NULL
    PROVE  Framed(m0, RotateLeft(m, n), D, p)
<1> DEFINE top == LeftTop(m, n, y, r, m[r].height - 1)
<1>1. Framed(m0, top, D, p)
  <2>1. m[r].height - 1 \in Nat
    BY FramedFields
  <2> QED
    BY <2>1, LeftFramed
<1> HIDE DEF top
<1>2. CASE m[rr].left = NULL
  <2>1. Framed(m0, LeftLeaf(top, n, r), D, p)
    BY <1>1, LeftFramed
  <2> QED
    BY <1>2, <2>1, RotateLeftSteps DEF top
<1>3. CASE m[rr].left # NULL
  <2>1. m[r].left \in D
    BY <1>3, FramedFields
  <2>2. m[m[r].left].right \in D \cup {NULL}
    BY <2>1, FramedFields
  <2>3. Framed(m0, LeftInner(top, n, rr, m[m[r].left].right), D, p)
    BY <1>1, <2>2, LeftFramed
  <2> QED
    BY <1>3, <2>3, RotateLeftSteps DEF top
<1> QED
  BY <1>2, <1>3

LEMMA LiftRightFramed ==
    ASSUME NEW m0, NEW m, NEW D, NEW p \in Keys, Framed(m0, m, D, p),
           NEW n \in D, NEW c \in D, NEW x \in D, c = m[n].right, x = m[c].left, m[c].height >= 1
    PROVE  Framed(m0, LiftInner(m, n, "right", "left"), D, p)
<1>1. PICK hc \in Nat, hx \in Nat : hc = m[c].height - 1 /\ hx = m[x].height + 1
  <2>1. m[c].height - 1 \in Nat /\ m[x].height + 1 \in Nat
    BY FramedFields
  <2> QED
    BY <2>1
<1>2. Framed(m0, LiftRight(m, n, c, x, hc, hx), D, p)
  BY LiftFramed
<1>3. LiftInner(m, n, "right", "left") = LiftRight(m, n, c, x, hc, hx)
  BY <1>1, LiftRightSteps
<1> QED
  BY <1>2, <1>3

LEMMA LiftLeftFramed ==
    ASSUME NEW m0, NEW m, NEW D, NEW p \in Keys, Framed(m0, m, D, p),
           NEW n \in D, NEW c \in D, NEW x \in D, c = m[n].left, x = m[c].right, m[c].height >= 1
    PROVE  Framed(m0, LiftInner(m, n, "left", "right"), D, p)
<1>1. PICK hc \in Nat, hx \in Nat : hc = m[c].height - 1 /\ hx = m[x].height + 1
  <2>1. m[c].height - 1 \in Nat /\ m[x].height + 1 \in Nat
    BY FramedFields
  <2> QED
    BY <2>1
<1>2. Framed(m0, LiftLeft(m, n, c, x, hc, hx), D, p)
  BY LiftFramed
<1>3. LiftInner(m, n, "left", "right") = LiftLeft(m, n, c, x, hc, hx)
  BY <1>1, LiftLeftSteps
<1> QED
  BY <1>2, <1>3

\* What the choice of a rotation says of n and of its child on the heavy side.
LEMMA HeavyIs ==
    ASSUME NEW m \in Nodes, NEW n \in Keys, Heavy(m, n) # <<>>
    PROVE  \/ /\ Heavy(m, n) = <<"right", "right">>
              /\ m[n].balance_factor < -1 /\ m[m[n].right].balance_factor = -1
           \/ /\ Heavy(m, n) = <<"left", "left">>
              /\ m[n].balance_factor > 1 /\ m[m[n].left].balance_factor = 1
           \/ /\ Heavy(m, n) = <<"right", "left">>
              /\ m[n].balance_factor < -1 /\ m[m[n].right].balance_factor = 1
           \/ /\ Heavy(m, n) = <<"left", "right">>
              /\ m[n].balance_factor > 1 /\ m[m[n].left].balance_factor = -1
<1> DEFINE b == m[n].balance_factor
           cr == m[m[n].right].balance_factor
           cl == m[m[n].left].balance_factor
<1>1. b \in Int
  BY DEF Nodes, Fields
<1>2. Heavy(m, n) = CASE b < -1 /\ cr = -1 -> <<"right", "right">>
                      [] b >  1 /\ cl = 1   -> <<"left", "left">>
                      [] b < -1 /\ cr = 1  -> <<"right", "left">>
                      [] b >  1 /\ cl = -1  -> <<"left", "right">>
                      [] OTHER                    -> <<>>
  BY DEF Heavy
<1> HIDE DEF b, cr, cl
<1>3. CASE b < -1 /\ cr = -1
  BY <1>1, <1>2, <1>3 DEF b, cr
<1>4. CASE b > 1 /\ cl = 1
  BY <1>1, <1>2, <1>4 DEF b, cl
<1>5. CASE b < -1 /\ cr = 1
  BY <1>1, <1>2, <1>5 DEF b, cr
<1>6. CASE b > 1 /\ cl = -1
  BY <1>1, <1>2, <1>6 DEF b, cl
<1> QED
  BY <1>2, <1>3, <1>4, <1>5, <1>6

LEMMA HeavyChild ==
    ASSUME NEW m \in Nodes, NEW n \in Keys, m[n].balance_factor = BalanceFactor(m, n)
    PROVE  /\ m[n].balance_factor < -1 => m[n].right \in Keys /\ m[m[n].right].height >= 2
           /\ m[n].balance_factor > 1 => m[n].left \in Keys /\ m[m[n].left].height >= 2
<1>1. m[n] \in Fields /\ m[n].left \in Links /\ m[n].right \in Links
  BY DEF Nodes, Fields
<1>2. \A x \in Links : Height(m, x) \in Nat
                     /\ (Height(m, x) # 0 => x \in Keys /\ Height(m, x) = m[x].height)
  BY DEF Height, Nodes, Fields, Links
<1>3. BalanceFactor(m, n) = Height(m, m[n].left) - Height(m, m[n].right)
  BY DEF BalanceFactor
<1> QED
  BY <1>1, <1>2, <1>3

\* The links that the first half of a double rotation leaves for the second.
LEMMA LiftRightLinks ==
    ASSUME NEW m \in Nodes, NEW n \in Keys, NEW c \in Keys, NEW x \in Keys,
           c = m[n].right, x = m[c].left, m[c].height >= 1
    PROVE  LET q == LiftInner(m, n, "right", "left")
           IN  /\ q[n].right = x /\ q[x].right \in {c, x} /\ q[x].height >= 1
               /\ q[n].parent \in {m[n].parent, x, n}
<1> DEFINE hc == m[c].height - 1
           hx == m[x].height + 1
           a1 == SetHeight(SetRight(m, x, c), c, hc)
           a2 == SetParent(SetParent(a1, c, x), x, n)
           a3 == SetRight(a2, n, x)
           a4 == SetHeight(a3, x, hx)
<1>1. {n, c, x, NULL} \subseteq Links /\ hc \in Nat /\ hx \in Nat /\ hx >= 1
  BY DEF Links, Nodes, Fields
<1>2. LiftInner(m, n, "right", "left") = SetLeft(a4, c, NULL)
  BY LiftRightSteps DEF LiftRight
<1> HIDE DEF hc, hx
<1>3. a1 \in Nodes /\ a1[x].right = c /\ a1[n].parent = m[n].parent
  BY <1>1 DEF SetRight, SetHeight, Nodes, Fields
<1> HIDE DEF a1
<1>4. a2 \in Nodes /\ a2[x].right = c /\ a2[n].parent \in {m[n].parent, x, n}
  BY <1>1, <1>3 DEF SetParent, Nodes, Fields
<1> HIDE DEF a2
<1>5. /\ a3 \in Nodes /\ a3[n].right = x /\ a3[x].right \in {c, x}
      /\ a3[n].parent = a2[n].parent
  BY <1>1, <1>4 DEF SetRight, Nodes, Fields
<1> HIDE DEF a3
<1>6. /\ a4 \in Nodes /\ a4[n].right = x /\ a4[x].right \in {c, x}
      /\ a4[n].parent = a2[n].parent /\ a4[x].height = hx
  BY <1>1, <1>5 DEF SetHeight, Nodes, Fields
<1> HIDE DEF a4
<1> QED
  BY <1>1, <1>2, <1>4, <1>6 DEF SetLeft, Nodes, Fields

LEMMA LiftLeftLinks ==
    ASSUME NEW m \in Nodes, NEW n \in Keys, NEW c \in Keys, NEW x \in Keys,
           c = m[n].left, x = m[c].right, m[c].height >= 1
    PROVE  LET q == LiftInner(m, n, "left", "right")
           IN  q[n].left = x /\ q[n].parent \in {m[n].parent, x, n}
<1> DEFINE hc == m[c].height - 1
           hx == m[x].height + 1
           a1 == SetHeight(SetLeft(m, x, c), c, hc)
           a2 == SetParent(SetParent(a1, c, x), x, n)
           a3 == SetLeft(a2, n, x)
           a4 == SetHeight(a3, x, hx)
<1>1. {n, c, x, NULL} \subseteq Links /\ hc \in Nat /\ hx \in Nat
  BY DEF Links, Nodes, Fields
<1>2. LiftInner(m, n, "left", "right") = SetRight(a4, c, NULL)
  BY LiftLeftSteps DEF LiftLeft
<1> HIDE DEF hc, hx
<1>3. a1 \in Nodes /\ a1[n].parent = m[n].parent
  BY <1>1 DEF SetLeft, SetHeight, Nodes, Fields
<1> HIDE DEF a1
<1>4. a2 \in Nodes /\ a2[n].parent \in {m[n].parent, x, n}
  BY <1>1, <1>3 DEF SetParent, Nodes, Fields
<1> HIDE DEF a2
<1>5. a3 \in Nodes /\ a3[n].left = x /\ a3[n].parent = a2[n].parent
  BY <1>1, <1>4 DEF SetLeft, Nodes, Fields
<1> HIDE DEF a3
<1>6. a4 \in Nodes /\ a4[n].left = x /\ a4[n].parent = a2[n].parent
  BY <1>1, <1>5 DEF SetHeight, Nodes, Fields
<1> HIDE DEF a4
<1> QED
  BY <1>1, <1>2, <1>4, <1>6 DEF SetRight, Nodes, Fields

\* Whatever rotation is chosen, when it does not crash it stays within the frame.
LEMMA RotationFramed ==
    ASSUME NEW m0, NEW m, NEW D, NEW p \in Keys, Framed(m0, m, D, p), NEW n \in D, m[n].parent = p,
           m[n].balance_factor = BalanceFactor(m, n),
           NEW h, h = Heavy(m, n), h # <<>>, ~Crashes(m, n, h)
    PROVE  Framed(m0, Rotate(m, n, h), D, p)
<1>1. m \in Nodes /\ n \in Keys /\ D \subseteq Keys /\ NULL \notin D
  BY KeysAreNat DEF Framed
<1>2. CASE h = <<"right", "right">> /\ m[n].balance_factor < -1
  <2>1. PICK r \in D : r = m[n].right /\ m[r].height >= 1
    <3>1. m[n].right \in Keys /\ m[m[n].right].height >= 2
      BY <1>1, <1>2, HeavyChild
    <3>2. m[n].right \in D
      BY <1>1, <3>1, FramedFields, KeysAreNat
    <3> QED
      BY <3>1, <3>2, FramedFields
  <2>2. Prepared(m, n, h) = m /\ Rotate(m, n, h) = RotateLeft(m, n)
    BY <1>2 DEF Prepared, Rotate
  <2>3. m[r].right # NULL /\ (m[m[r].right].left # NULL => m[r].left # NULL)
    BY <1>2, <2>1, <2>2 DEF Crashes
  <2>4. m[r].right \in D
    BY <2>3, FramedFields
  <2> QED
    BY <2>1, <2>2, <2>3, <2>4, RotateLeftFramed
<1>3. CASE h = <<"left", "left">> /\ m[n].balance_factor > 1
  <2>1. m[n].left \in D
    BY <1>1, <1>3, HeavyChild, FramedFields, KeysAreNat
  <2>2. Rotate(m, n, h) = RotateRight(m, n)
    BY <1>3 DEF Prepared, Rotate
  <2> QED
    BY <2>1, <2>2, RotateRightFramed
<1>4. CASE h = <<"right", "left">> /\ m[n].balance_factor < -1
  <2> DEFINE q == LiftInner(m, n, "right", "left")
  <2>1. PICK c \in D : c = m[n].right /\ m[c].height >= 1
    <3>1. m[n].right \in Keys /\ m[m[n].right].height >= 2
      BY <1>1, <1>4, HeavyChild
    <3>2. m[n].right \in D
      BY <1>1, <3>1, FramedFields, KeysAreNat
    <3> QED
      BY <3>1, <3>2, FramedFields
  <2>2. m[c].left # NULL
    BY <1>4, <2>1 DEF Crashes
  <2>3. PICK x \in D : x = m[c].left
    BY <2>2, FramedFields
  <2>4. Prepared(m, n, h) = q /\ Rotate(m, n, h) = RotateLeft(q, n)
    BY <1>4, <2>1, <2>2 DEF Prepared, Rotate
  <2>5. Framed(m0, q, D, p)
    BY <2>1, <2>3, LiftRightFramed
  <2>6. /\ q[n].right = x /\ q[x].right \in {c, x} /\ q[x].height >= 1
        /\ q[n].parent \in {p, x, n}
    BY <1>1, <2>1, <2>3, LiftRightLinks
  <2>7. q[q[x].right].left # NULL => q[x].left # NULL
    BY <1>4, <2>4, <2>6 DEF Crashes
  <2> HIDE DEF q
  <2>8. q[x].right \in D /\ q[n].parent \in D \cup {p}
    BY <2>6
  <2>9. Framed(m0, RotateLeft(q, n), D, p)
    BY <2>5, <2>6, <2>7, <2>8, RotateLeftFramed
  <2> QED
    BY <2>4, <2>9
<1>5. CASE h = <<"left", "right">> /\ m[n].balance_factor > 1
  <2> DEFINE q == LiftInner(m, n, "left", "right")
  <2>1. PICK c \in D : c = m[n].left /\ m[c].height >= 1
    <3>1. m[n].left \in Keys /\ m[m[n].left].height >= 2
      BY <1>1, <1>5, HeavyChild
    <3>2. m[n].left \in D
      BY <1>1, <3>1, FramedFields, KeysAreNat
    <3> QED
      BY <3>1, <3>2, FramedFields
  <2>2. m[c].right # NULL
    BY <1>5, <2>1 DEF Crashes
  <2>3. PICK x \in D : x = m[c].right
    BY <2>2, FramedFields
  <2>4. Rotate(m, n, h) = RotateRight(q, n)
    BY <1>5, <2>1, <2>2 DEF Prepared, Rotate
  <2>5. Framed(m0, q, D, p)
    BY <2>1, <2>3, LiftLeftFramed
  <2>6. q[n].left = x /\ q[n].parent \in {p, x, n}
    BY <1>1, <2>1, <2>3, LiftLeftLinks
  <2> HIDE DEF q
  <2>7. Framed(m0, RotateRight(q, n), D, p)
    <3>1. q[n].parent \in D \cup {p}
      BY <2>6
    <3> QED
      BY <2>5, <2>6, <3>1, RotateRightFramed
  <2> QED
    BY <2>4, <2>7
<1> QED
  BY <1>1, <1>2, <1>3, <1>4, <1>5, HeavyIs

\* What each rotation does, link by link, in the cases in which it loses no node:
\* Ready is the case, Done what the nodes q are like afterwards.
RotateRightReady(m, n) ==
    LET p == m[n].parent
        l == m[n].left
    IN  /\ {p, l} \subseteq Keys
        /\ p # n /\ l # n /\ l # p /\ m[l].right = NULL

RotateRightDone(m, n, q) ==
    LET p == m[n].parent
        l == m[n].left
    IN  /\ \A y \in Keys \ {n, p, l} : q[y] = m[y]
        /\ q[n].parent = l /\ q[n].left = NULL /\ q[n].right = NULL /\ q[n].data = m[n].data
        /\ q[p].parent = m[p].parent /\ q[p].left = l /\ q[p].right = m[p].right
        /\ q[p].data = m[p].data
        /\ q[l].parent = p /\ q[l].left = m[l].left /\ q[l].right = n /\ q[l].data = m[l].data

LEMMA RotateRightIs ==
    ASSUME NEW m \in Nodes, NEW n \in Keys, RotateRightReady(m, n)
    PROVE  RotateRightDone(m, n, RotateRight(m, n))
<1> DEFINE q == RotateRight(m, n)
<1>1. PICK p, l \in Keys :
          p = m[n].parent /\ l = m[n].left /\ p # n /\ l # n /\ l # p /\ m[l].right = NULL
  BY DEF RotateRightReady
<1>2. m[n] \in Fields /\ m[p] \in Fields /\ m[l] \in Fields
  BY DEF Nodes
<1>3. \A y \in Keys \ {n, p, l} : q[y] = m[y]
  BY <1>1 DEF RotateRight, Nodes, Links
<1>4. q[n] = [m[n] EXCEPT !.parent = l, !.left = NULL, !.right = NULL, !.balance_factor = 0]
  BY <1>1 DEF RotateRight, Nodes, Links
<1>5. q[p] = [m[p] EXCEPT !.left = l, !.balance_factor = m[p].balance_factor + 1]
  BY <1>1 DEF RotateRight, Nodes, Links
<1>6. q[l] = [m[l] EXCEPT !.balance_factor = 0, !.parent = p, !.right = n]
  BY <1>1 DEF RotateRight, Nodes, Links
<1> HIDE DEF q
<1>7. q[n].parent = l /\ q[n].left = NULL /\ q[n].right = NULL /\ q[n].data = m[n].data
  BY <1>2, <1>4 DEF Fields
<1>8. q[p].parent = m[p].parent /\ q[p].left = l /\ q[p].right = m[p].right /\ q[p].data = m[p].data
  BY <1>2, <1>5 DEF Fields
<1>9. q[l].parent = p /\ q[l].left = m[l].left /\ q[l].right = n /\ q[l].data = m[l].data
  BY <1>2, <1>6 DEF Fields
<1> QED
  BY <1>1, <1>3, <1>7, <1>8, <1>9 DEF RotateRightDone, q

RotateLeftReady(m, n) ==
    LET p == m[n].parent
        r == m[n].right
    IN  /\ {p, r} \subseteq Keys
        /\ p # n /\ r # n /\ r # p /\ m[r].right \in Keys /\ m[m[r].right].left = NULL

RotateLeftDone(m, n, q) ==
    LET p == m[n].parent
        r == m[n].right
    IN  /\ \A y \in Keys \ {n, p, r} : q[y] = m[y]
        /\ q[n].parent = r /\ q[n].left = NULL /\ q[n].right = NULL /\ q[n].data = m[n].data
        /\ q[p].parent = m[p].parent /\ q[p].left = m[p].left /\ q[p].right = r
        /\ q[p].data = m[p].data
        /\ q[r].parent = p /\ q[r].left = n /\ q[r].right = m[r].right /\ q[r].data = m[r].data

LEMMA RotateLeftIs ==
    ASSUME NEW m \in Nodes, NEW n \in Keys, RotateLeftReady(m, n)
    PROVE  RotateLeftDone(m, n, RotateLeft(m, n))
<1> DEFINE q == RotateLeft(m, n)
<1>1. PICK p, r \in Keys :
          p = m[n].parent /\ r = m[n].right /\ p # n /\ r # n /\ r # p
         /\ m[r].right \in Keys /\ m[m[r].right].left = NULL
  BY DEF RotateLeftReady
<1>2. m[n] \in Fields /\ m[p] \in Fields /\ m[r] \in Fields
  BY DEF Nodes
<1>3. \A y \in Keys \ {n, p, r} : q[y] = m[y]
  BY <1>1 DEF RotateLeft, Nodes, Links
<1>4. q[n] = [m[n] EXCEPT !.parent = r, !.height = m[r].height - 1, !.right = NULL,
                            !.left = NULL, !.balance_factor = 0]
  BY <1>1 DEF RotateLeft, Nodes, Links
<1>5. q[p] = [m[p] EXCEPT !.right = r, !.balance_factor = m[p].balance_factor + 1]
  BY <1>1 DEF RotateLeft, Nodes, Links
<1>6. q[r] = [m[r] EXCEPT !.balance_factor = 0, !.parent = p, !.left = n]
  BY <1>1 DEF RotateLeft, Nodes, Links
<1> HIDE DEF q
<1>7. q[n].parent = r /\ q[n].left = NULL /\ q[n].right = NULL /\ q[n].data = m[n].data
  BY <1>2, <1>4 DEF Fields
<1>8. q[p].parent = m[p].parent /\ q[p].left = m[p].left /\ q[p].right = r /\ q[p].data = m[p].data
  BY <1>2, <1>5 DEF Fields
<1>9. q[r].parent = p /\ q[r].left = n /\ q[r].right = m[r].right /\ q[r].data = m[r].data
  BY <1>2, <1>6 DEF Fields
<1> QED
  BY <1>1, <1>3, <1>7, <1>8, <1>9 DEF RotateLeftDone, q

LiftLeftReady(m, n) ==
    LET c == m[n].left
        x == m[m[n].left].right
    IN  /\ {c, x} \subseteq Keys
        /\ n # c /\ n # x /\ c # x

LiftLeftDone(m, n, q) ==
    LET c == m[n].left
        x == m[m[n].left].right
    IN  /\ \A y \in Keys \ {n, c, x} : q[y] = m[y]
        /\ q[n].parent = m[n].parent /\ q[n].left = x /\ q[n].right = m[n].right
        /\ q[n].data = m[n].data
        /\ q[c].parent = x /\ q[c].left = m[c].left /\ q[c].right = NULL /\ q[c].data = m[c].data
        /\ q[x].parent = n /\ q[x].left = c /\ q[x].right = m[x].right /\ q[x].data = m[x].data

LEMMA LiftLeftIs ==
    ASSUME NEW m \in Nodes, NEW n \in Keys, LiftLeftReady(m, n)
    PROVE  LiftLeftDone(m, n, LiftInner(m, n, "left", "right"))
<1> DEFINE q == LiftInner(m, n, "left", "right")
<1>1. PICK c, x \in Keys :
          c = m[n].left /\ x = m[m[n].left].right /\ n # c /\ n # x /\ c # x
  BY DEF LiftLeftReady
<1>2. m[n] \in Fields /\ m[c] \in Fields /\ m[x] \in Fields
  BY DEF Nodes
<1>3. \A y \in Keys \ {n, c, x} : q[y] = m[y]
  BY <1>1 DEF LiftInner, Nodes, Links
<1>4. q[n] = [m[n] EXCEPT !.left = x]
  BY <1>1 DEF LiftInner, Nodes, Links
<1>5. q[c] = [m[c] EXCEPT !.height = m[c].height - 1, !.parent = x, !.right = NULL]
  BY <1>1 DEF LiftInner, Nodes, Links
<1>6. q[x] = [m[x] EXCEPT !.left = c, !.parent = n, !.height = m[x].height + 1]
  BY <1>1 DEF LiftInner, Nodes, Links
<1> HIDE DEF q
<1>7. q[n].parent = m[n].parent /\ q[n].left = x /\ q[n].right = m[n].right /\ q[n].data = m[n].data
  BY <1>2, <1>4 DEF Fields
<1>8. q[c].parent = x /\ q[c].left = m[c].left /\ q[c].right = NULL /\ q[c].data = m[c].data
  BY <1>2, <1>5 DEF Fields
<1>9. q[x].parent = n /\ q[x].left = c /\ q[x].right = m[x].right /\ q[x].data = m[x].data
  BY <1>2, <1>6 DEF Fields
<1> QED
  BY <1>1, <1>3, <1>7, <1>8, <1>9 DEF LiftLeftDone, q

LiftRightReady(m, n) ==
    LET c == m[n].right
        x == m[m[n].right].left
    IN  /\ {c, x} \subseteq Keys
        /\ n # c /\ n # x /\ c # x

LiftRightDone(m, n, q) ==
    LET c == m[n].right
        x == m[m[n].right].left
    IN  /\ \A y \in Keys \ {n, c, x} : q[y] = m[y]
        /\ q[n].parent = m[n].parent /\ q[n].left = m[n].left /\ q[n].right = x
        /\ q[n].data = m[n].data
        /\ q[c].parent = x /\ q[c].left = NULL /\ q[c].right = m[c].right /\ q[c].data = m[c].data
        /\ q[x].parent = n /\ q[x].left = m[x].left /\ q[x].right = c /\ q[x].data = m[x].data

LEMMA LiftRightIs ==
    ASSUME NEW m \in Nodes, NEW n \in Keys, LiftRightReady(m, n)
    PROVE  LiftRightDone(m, n, LiftInner(m, n, "right", "left"))
<1> DEFINE q == LiftInner(m, n, "right", "left")
<1>1. PICK c, x \in Keys :
          c = m[n].right /\ x = m[m[n].right].left /\ n # c /\ n # x /\ c # x
  BY DEF LiftRightReady
<1>2. m[n] \in Fields /\ m[c] \in Fields /\ m[x] \in Fields
  BY DEF Nodes
<1>3. \A y \in Keys \ {n, c, x} : q[y] = m[y]
  BY <1>1 DEF LiftInner, Nodes, Links
<1>4. q[n] = [m[n] EXCEPT !.right = x]
  BY <1>1 DEF LiftInner, Nodes, Links
<1>5. q[c] = [m[c] EXCEPT !.height = m[c].height - 1, !.parent = x, !.left = NULL]
  BY <1>1 DEF LiftInner, Nodes, Links
<1>6. q[x] = [m[x] EXCEPT !.right = c, !.parent = n, !.height = m[x].height + 1]
  BY <1>1 DEF LiftInner, Nodes, Links
<1> HIDE DEF q
<1>7. q[n].parent = m[n].parent /\ q[n].left = m[n].left /\ q[n].right = x /\ q[n].data = m[n].data
  BY <1>2, <1>4 DEF Fields
<1>8. q[c].parent = x /\ q[c].left = NULL /\ q[c].right = m[c].right /\ q[c].data = m[c].data
  BY <1>2, <1>5 DEF Fields
<1>9. q[x].parent = n /\ q[x].left = m[x].left /\ q[x].right = c /\ q[x].data = m[x].data
  BY <1>2, <1>6 DEF Fields
<1> QED
  BY <1>1, <1>3, <1>7, <1>8, <1>9 DEF LiftRightDone, q

-----------------------------------------------------------------------------
(* Trees.  D are the nodes of one, sub[n] those of the subtree of n: n itself, *)
(* and what is below its two links.                                            *)

Below(sub, x) == IF x = NULL THEN {} ELSE sub[x]

\* The node n of a tree: its links, its keys, and its data.
NodeOK(m, D, sub, n) ==
    /\ m[n].left \in D \cup {NULL} /\ m[n].right \in D \cup {NULL}
    /\ sub[n] = {n} \cup Below(sub, m[n].left) \cup Below(sub, m[n].right)
    /\ \A y \in Below(sub, m[n].left) : y < n
    /\ \A y \in Below(sub, m[n].right) : n < y
    /\ m[n].left # NULL => m[m[n].left].parent = n
    /\ m[n].right # NULL => m[m[n].right].parent = n
    /\ m[n].data = n

Shape(m, D, sub) ==
    /\ sub \in [D -> SUBSET D]
    /\ \A n \in D : NodeOK(m, D, sub, n)

\* Among the nodes T there is one with no other of T strictly below it, since the set
\* of keys is finite.
LEMMA SmallestSubtree ==
    ASSUME NEW D \in SUBSET Keys, NEW sub \in [D -> SUBSET D], NEW T \in SUBSET D, T # {}
    PROVE  \E x \in T : \A y \in T : sub[y] \subseteq sub[x] => sub[y] = sub[x]
<1> DEFINE U == {sub[x] : x \in T}
<1>1. IsFiniteSet(D)
  BY TreeAssumption, FS_Subset
<1>2. FiniteSubsetsOf(D) = SUBSET D
  BY <1>1, FS_FiniteSubsetsOfFinite
<1>3. IsWellFoundedOn(StrictSubsetOrdering(D), SUBSET D)
  BY <1>2, FS_StrictSubsetOrderingWellFounded
<1>4. U \subseteq SUBSET D /\ U # {}
  OBVIOUS
<1> HIDE DEF U
<1>5. \E u \in U : \A v \in U : ~ (<<v, u>> \in StrictSubsetOrdering(D))
  BY <1>3, <1>4, WFMin, Zenon
<1>6. PICK x \in T : \A y \in T : ~ (<<sub[y], sub[x]>> \in StrictSubsetOrdering(D))
  BY <1>5 DEF U
<1>7. ASSUME NEW y \in T, sub[y] \subseteq sub[x] PROVE sub[y] = sub[x]
  <2>1. <<sub[y], sub[x]>> \in (SUBSET D) \X (SUBSET D)
    OBVIOUS
  <2>2. ~ (<<sub[y], sub[x]>> \in StrictSubsetOrdering(D))
    BY <1>6
  <2> QED
    BY <1>7, <2>1, <2>2 DEF StrictSubsetOrdering
<1> QED
  BY <1>7

IsChild(m, n, c) == c \in Keys /\ (c = m[n].left \/ c = m[n].right)

\* A child is a node of the tree, and has one parent.
LEMMA ChildInTree ==
    ASSUME NEW m \in Nodes, NEW D \in SUBSET Keys, NEW sub, Shape(m, D, sub),
           NEW n \in D, NEW c, IsChild(m, n, c)
    PROVE  c \in D /\ m[c].parent = n
  BY KeysAreNat DEF IsChild, Shape, NodeOK

\* A child's subtree is a part of that of its parent, without the parent.
LEMMA ChildBelow ==
    ASSUME NEW m \in Nodes, NEW D \in SUBSET Keys, NEW sub, Shape(m, D, sub),
           NEW n \in D, NEW c, IsChild(m, n, c)
    PROVE  n \in sub[n] /\ c \in sub[c] /\ sub[c] \subseteq sub[n] /\ n \notin sub[c]
<1>0. c # NULL
  BY KeysAreNat DEF IsChild
<1>1. NodeOK(m, D, sub, n) /\ NodeOK(m, D, sub, c)
  BY ChildInTree DEF Shape
<1>2. c \in sub[c] /\ sub[c] = Below(sub, c)
  BY <1>0, <1>1 DEF NodeOK, Below
<1>3. \A y \in sub[c] : y # n
  BY <1>0, <1>1, <1>2, KeysAreNat DEF NodeOK, IsChild
<1> QED
  BY <1>0, <1>1, <1>2, <1>3 DEF NodeOK, IsChild

\* The nodes below a node lie below one of its children.
LEMMA BelowChild ==
    ASSUME NEW m \in Nodes, NEW D \in SUBSET Keys, NEW sub, Shape(m, D, sub),
           NEW n \in D, NEW y \in sub[n], y # n
    PROVE  \E c \in D : IsChild(m, n, c) /\ y \in sub[c]
  BY DEF Shape, NodeOK, Below, IsChild

\* Each node but the topmost one is a child of its parent.
LEMMA EveryNodeHasParent ==
    ASSUME NEW m \in Nodes, NEW D \in SUBSET Keys, NEW sub, Shape(m, D, sub),
           NEW t \in D, NEW y \in sub[t], y # t
    PROVE  m[y].parent \in D /\ IsChild(m, m[y].parent, y)
<1> DEFINE T == {x \in D : y \in sub[x] /\ x # y}
<1>1. t \in T /\ T \in SUBSET D /\ sub \in [D -> SUBSET D]
  BY DEF Shape
<1>2. PICK x \in T : \A z \in T : sub[z] \subseteq sub[x] => sub[z] = sub[x]
  <2> HIDE DEF T
  <2> QED
    BY <1>1, SmallestSubtree
<1>3. x \in D /\ y \in sub[x] /\ x # y
  OBVIOUS
<1>4. PICK c \in D : IsChild(m, x, c) /\ y \in sub[c]
  BY <1>3, BelowChild
<1>5. m[c].parent = x /\ sub[c] \subseteq sub[x] /\ x \in sub[x] /\ x \notin sub[c]
  BY <1>3, <1>4, ChildInTree, ChildBelow
<1>6. c = y
  <2>1. c \notin T
    BY <1>2, <1>5
  <2> QED
    BY <1>4, <2>1
<1> QED
  BY <1>3, <1>4, <1>5, <1>6, Zenon

\* The subtree of a node of a subtree is a part of it.
LEMMA SubtreesNest ==
    ASSUME NEW m \in Nodes, NEW D \in SUBSET Keys, NEW sub, Shape(m, D, sub),
           NEW x \in D, NEW y \in sub[x]
    PROVE  y \in D /\ sub[y] \subseteq sub[x]
<1> DEFINE T == {z \in D : \E w \in sub[z] : ~ (sub[w] \subseteq sub[z])}
<1>1. SUFFICES T = {}
  BY DEF Shape
<1>2. SUFFICES ASSUME T # {} PROVE FALSE
  OBVIOUS
<1>3. PICK z \in T : \A v \in T : sub[v] \subseteq sub[z] => sub[v] = sub[z]
  <2>1. T \in SUBSET D /\ sub \in [D -> SUBSET D]
    BY DEF Shape
  <2> HIDE DEF T
  <2> QED
    BY <1>2, <2>1, SmallestSubtree
<1>4. PICK w \in sub[z] : z \in D /\ ~ (sub[w] \subseteq sub[z])
  BY <1>3
<1>5. PICK c \in D : IsChild(m, z, c) /\ w \in sub[c]
  BY <1>4, BelowChild
<1>6. sub[c] \subseteq sub[z] /\ z \in sub[z] /\ z \notin sub[c]
  BY <1>4, <1>5, ChildBelow
<1>7. c \notin T
  BY <1>3, <1>6
<1>8. sub[w] \subseteq sub[c]
  BY <1>5, <1>7
<1> QED
  BY <1>4, <1>6, <1>8

\* Whether they are a tree depends on nothing but its own nodes: not on their
\* balance and heights, nor on the parent of the topmost one.
LEMMA SameShape ==
    ASSUME NEW m \in Nodes, NEW m2 \in Nodes, NEW D \in SUBSET Keys, NEW sub, Shape(m, D, sub),
           NEW t \in D, sub[t] = D,
           \A y \in D : /\ m2[y].left = m[y].left /\ m2[y].right = m[y].right
                        /\ m2[y].data = m[y].data
                        /\ y # t => m2[y].parent = m[y].parent
    PROVE  Shape(m2, D, sub)
<1>1. ASSUME NEW n \in D PROVE NodeOK(m2, D, sub, n)
  <2>1. NodeOK(m, D, sub, n)
    BY DEF Shape
  <2>2. ASSUME NEW c, IsChild(m, n, c) PROVE m2[c].parent = n
    <3>1. c \in D /\ m[c].parent = n
      BY <2>2, ChildInTree
    <3>2. n \notin sub[c]
      BY <2>2, ChildBelow
    <3> QED
      BY <3>1, <3>2
  <2> QED
    BY <2>1, <2>2 DEF NodeOK, IsChild
<1> QED
  BY <1>1 DEF Shape

\* A subtree is a tree.
LEMMA SubtreeShape ==
    ASSUME NEW m \in Nodes, NEW D \in SUBSET Keys, NEW sub, Shape(m, D, sub), NEW x \in D
    PROVE  Shape(m, sub[x], [y \in sub[x] |-> sub[y]])
<1>1. \A y \in sub[x] : y \in D /\ sub[y] \subseteq sub[x]
  BY SubtreesNest
<1>2. ASSUME NEW n \in sub[x] PROVE NodeOK(m, sub[x], [y \in sub[x] |-> sub[y]], n)
  <2>1. NodeOK(m, D, sub, n) /\ n \in D
    BY <1>1 DEF Shape
  <2>2. ASSUME NEW c, IsChild(m, n, c) PROVE c \in sub[x]
    <3>1. sub[c] \subseteq sub[n] /\ c \in sub[c]
      BY <2>1, <2>2, ChildBelow
    <3> QED
      BY <1>1, <3>1
  <2> QED
    BY <2>1, <2>2 DEF NodeOK, Below, IsChild
<1> QED
  BY <1>1, <1>2 DEF Shape

\* The nodes D are a tree below p, with t on top.
Hung(m, D, p, t) == t \in D /\ m[t].parent = p /\ \E sub : Shape(m, D, sub) /\ sub[t] = D

\* The four rotations of a tree that hangs below p leave one with the same nodes, which
\* hangs there on the side that the code writes to.
LEMMA RotateRR ==
    ASSUME NEW m \in Nodes, NEW D \in SUBSET Keys, NEW sub, Shape(m, D, sub),
           NEW n \in D, sub[n] = D, NEW p \in Keys \ D, m[n].parent = p,
           NEW r \in Keys, m[n].right = r, m[n].left = NULL,
           NEW rr \in Keys, m[r].right = rr, m[r].left = NULL, m[rr].left = NULL
    PROVE  LET q == RotateLeft(m, n)
           IN  Hung(q, D, p, r) /\ q[p].right = r /\ q[p].left = m[p].left
<1> DEFINE q == RotateLeft(m, n)
           sub2 == [y \in D |-> IF y = r THEN D ELSE IF y = n THEN {n} ELSE sub[y]]
<1>1. NULL \notin Keys /\ IsChild(m, n, r) /\ Shape(m, D, sub)
  BY KeysAreNat DEF IsChild
<1>2. r \in D /\ m[r].parent = n
  BY <1>1, ChildInTree
<1>3. n \in sub[n] /\ n \notin sub[r] /\ r \in sub[r]
  BY <1>1, <1>2, ChildBelow
<1>4. /\ NodeOK(m, D, sub, n) /\ NodeOK(m, D, sub, r)
      /\ D = {n} \cup sub[r] /\ sub[r] = {r} \cup Below(sub, rr)
      /\ n < r /\ \A y \in Below(sub, rr) : r < y
      /\ rr \in D \cup {NULL} /\ (rr # NULL => m[rr].parent = r)
  BY <1>1, <1>2, <1>3 DEF Shape, NodeOK, Below
<1>5. r # n /\ rr # n /\ rr # r /\ p # n /\ p # r
  <2>1. rr # r
    BY <1>1, <1>2, <1>3, <1>4
  <2>2. ASSUME rr = n PROVE FALSE
    <3>1. n \in sub[r]
      BY <1>1, <1>3, <1>4, <2>2 DEF Below
    <3> QED
      BY <1>3, <3>1
  <2> QED
    BY <1>2, <1>3, <2>1, <2>2
<1>6. RotateLeftDone(m, n, q)
  <2>1. RotateLeftReady(m, n)
    BY <1>5 DEF RotateLeftReady
  <2> QED
    BY <2>1, RotateLeftIs
<1> HIDE DEF q
<1>7. /\ \A y \in Keys \ {n, p, r} : q[y] = m[y]
      /\ q[p].right = r /\ q[p].left = m[p].left
      /\ q[r].left = n /\ q[r].right = rr /\ q[r].parent = p /\ q[r].data = m[r].data
      /\ q[n].left = NULL /\ q[n].right = NULL /\ q[n].parent = r /\ q[n].data = m[n].data
  BY <1>6 DEF RotateLeftDone
<1>8. Shape(q, D, sub2)
  <2>1. sub2 \in [D -> SUBSET D]
    BY DEF Shape
  <2>2. ASSUME NEW y \in D, y # r, y # n PROVE NodeOK(q, D, sub2, y)
    <3>1. NodeOK(m, D, sub, y) /\ q[y] = m[y] /\ sub2[y] = sub[y]
      BY <1>7, <2>2 DEF Shape
    <3>2. ASSUME NEW c, IsChild(m, y, c) PROVE c \in D /\ sub2[c] = sub[c] /\ q[c] = m[c]
      <4>1. c \in D /\ m[c].parent = y
        BY <3>2, ChildInTree
      <4>2. c # n /\ c # r
        BY <1>2, <2>2, <4>1
      <4> QED
        BY <1>7, <4>1, <4>2
    <3> HIDE DEF sub2
    <3> QED
      BY <3>1, <3>2 DEF NodeOK, Below, IsChild
  <2>3. NodeOK(q, D, sub2, r)
    <3>1. sub2[r] = D /\ sub2[n] = {n} /\ m[r].data = r
      BY <1>2, <1>4, <1>5 DEF NodeOK
    <3>2. rr # NULL => sub2[rr] = sub[rr] /\ q[rr].parent = r
      BY <1>4, <1>5, <1>7
    <3>3. Below(sub2, q[r].left) = {n} /\ Below(sub2, q[r].right) = Below(sub, rr)
      BY <1>1, <1>7, <3>1, <3>2 DEF Below
    <3> HIDE DEF sub2
    <3> QED
      BY <1>2, <1>4, <1>7, <3>1, <3>2, <3>3 DEF NodeOK
  <2>4. NodeOK(q, D, sub2, n)
    BY <1>1, <1>5, <1>7, <1>4 DEF NodeOK, Below
  <2> QED
    BY <2>1, <2>2, <2>3, <2>4 DEF Shape
<1>9. sub2[r] = D
  BY <1>2
<1> HIDE DEF sub2
<1> QED
  BY <1>2, <1>7, <1>8, <1>9 DEF Hung, q

LEMMA RotateLL ==
    ASSUME NEW m \in Nodes, NEW D \in SUBSET Keys, NEW sub, Shape(m, D, sub),
           NEW n \in D, sub[n] = D, NEW p \in Keys \ D, m[n].parent = p,
           NEW l \in Keys, m[n].left = l, m[n].right = NULL,
           NEW ll \in Links, m[l].left = ll, m[l].right = NULL
    PROVE  LET q == RotateRight(m, n)
           IN  Hung(q, D, p, l) /\ q[p].left = l /\ q[p].right = m[p].right
<1> DEFINE q == RotateRight(m, n)
           sub2 == [y \in D |-> IF y = l THEN D ELSE IF y = n THEN {n} ELSE sub[y]]
<1>1. NULL \notin Keys /\ IsChild(m, n, l) /\ Shape(m, D, sub)
  BY KeysAreNat DEF IsChild
<1>2. l \in D /\ m[l].parent = n
  BY <1>1, ChildInTree
<1>3. n \in sub[n] /\ n \notin sub[l] /\ l \in sub[l]
  BY <1>1, <1>2, ChildBelow
<1>4. /\ NodeOK(m, D, sub, n) /\ NodeOK(m, D, sub, l)
      /\ D = {n} \cup sub[l] /\ sub[l] = {l} \cup Below(sub, ll)
      /\ l < n /\ \A y \in Below(sub, ll) : y < l
      /\ ll \in D \cup {NULL} /\ (ll # NULL => m[ll].parent = l)
  BY <1>1, <1>2, <1>3 DEF Shape, NodeOK, Below
<1>5. l # n /\ ll # n /\ ll # l /\ p # n /\ p # l
  <2>1. ll # l
    BY <1>1, <1>2, <1>3, <1>4
  <2>2. ASSUME ll = n PROVE FALSE
    <3>1. n \in sub[l]
      BY <1>1, <1>3, <1>4, <2>2 DEF Below
    <3> QED
      BY <1>3, <3>1
  <2> QED
    BY <1>2, <1>3, <2>1, <2>2
<1>6. RotateRightDone(m, n, q)
  <2>1. RotateRightReady(m, n)
    BY <1>5 DEF RotateRightReady
  <2> QED
    BY <2>1, RotateRightIs
<1> HIDE DEF q
<1>7. /\ \A y \in Keys \ {n, p, l} : q[y] = m[y]
      /\ q[p].left = l /\ q[p].right = m[p].right
      /\ q[l].right = n /\ q[l].left = ll /\ q[l].parent = p /\ q[l].data = m[l].data
      /\ q[n].left = NULL /\ q[n].right = NULL /\ q[n].parent = l /\ q[n].data = m[n].data
  BY <1>6 DEF RotateRightDone
<1>8. Shape(q, D, sub2)
  <2>1. sub2 \in [D -> SUBSET D]
    BY DEF Shape
  <2>2. ASSUME NEW y \in D, y # l, y # n PROVE NodeOK(q, D, sub2, y)
    <3>1. NodeOK(m, D, sub, y) /\ q[y] = m[y] /\ sub2[y] = sub[y]
      BY <1>7, <2>2 DEF Shape
    <3>2. ASSUME NEW c, IsChild(m, y, c) PROVE c \in D /\ sub2[c] = sub[c] /\ q[c] = m[c]
      <4>1. c \in D /\ m[c].parent = y
        BY <3>2, ChildInTree
      <4>2. c # n /\ c # l
        BY <1>2, <2>2, <4>1
      <4> QED
        BY <1>7, <4>1, <4>2
    <3> HIDE DEF sub2
    <3> QED
      BY <3>1, <3>2 DEF NodeOK, Below, IsChild
  <2>3. NodeOK(q, D, sub2, l)
    <3>1. sub2[l] = D /\ sub2[n] = {n} /\ m[l].data = l
      BY <1>2, <1>4, <1>5 DEF NodeOK
    <3>2. ll # NULL => sub2[ll] = sub[ll] /\ q[ll].parent = l
      BY <1>4, <1>5, <1>7
    <3>3. Below(sub2, q[l].right) = {n} /\ Below(sub2, q[l].left) = Below(sub, ll)
      BY <1>1, <1>7, <3>1, <3>2 DEF Below
    <3> HIDE DEF sub2
    <3> QED
      BY <1>2, <1>4, <1>7, <3>1, <3>2, <3>3 DEF NodeOK
  <2>4. NodeOK(q, D, sub2, n)
    BY <1>1, <1>5, <1>7, <1>4 DEF NodeOK, Below
  <2> QED
    BY <2>1, <2>2, <2>3, <2>4 DEF Shape
<1>9. sub2[l] = D
  BY <1>2
<1> HIDE DEF sub2
<1> QED
  BY <1>2, <1>7, <1>8, <1>9 DEF Hung, q

LEMMA RotateRL ==
    ASSUME NEW m \in Nodes, NEW D \in SUBSET Keys, NEW sub, Shape(m, D, sub),
           NEW n \in D, sub[n] = D, NEW p \in Keys \ D, m[n].parent = p,
           NEW c \in Keys, m[n].right = c, m[n].left = NULL,
           NEW x \in Keys, m[c].left = x, m[x].left = NULL, m[x].right = NULL,
           LiftInner(m, n, "right", "left") \in Nodes
    PROVE  LET q == RotateLeft(LiftInner(m, n, "right", "left"), n)
           IN  Hung(q, D, p, x) /\ q[p].right = x /\ q[p].left = m[p].left
<1> DEFINE a == LiftInner(m, n, "right", "left")
           q == RotateLeft(a, n)
           cc == m[c].right
           sub2 == [y \in D |-> IF y = x THEN D ELSE IF y = n THEN {n} ELSE
                                IF y = c THEN {c} \cup Below(sub, cc) ELSE sub[y]]
<1>1. NULL \notin Keys /\ IsChild(m, n, c) /\ IsChild(m, c, x) /\ Shape(m, D, sub)
  BY KeysAreNat DEF IsChild
<1>2. c \in D /\ m[c].parent = n
  BY <1>1, ChildInTree
<1>3. x \in D /\ m[x].parent = c
  BY <1>1, <1>2, ChildInTree
<1>4. n \in sub[n] /\ n \notin sub[c] /\ c \in sub[c]
  BY <1>1, <1>2, ChildBelow
<1>5. x \in sub[x] /\ c \notin sub[x]
  <2>1. IsChild(m, c, x) /\ c \in D
    BY <1>1, <1>2
  <2>2. Shape(m, D, sub) /\ m \in Nodes /\ D \in SUBSET Keys
    OBVIOUS
  <2> HIDE DEF a, q, cc, sub2
  <2> QED
    BY ONLY <2>1, <2>2, ChildBelow
<1>6. /\ NodeOK(m, D, sub, n) /\ NodeOK(m, D, sub, c) /\ NodeOK(m, D, sub, x)
      /\ D = {n} \cup sub[c] /\ sub[c] = {c, x} \cup Below(sub, cc) /\ sub[x] = {x}
      /\ n < c /\ n < x /\ x < c
      /\ \A y \in Below(sub, cc) : c < y /\ y # x /\ y # n
      /\ cc \in D \cup {NULL} /\ (cc # NULL => m[cc].parent = c /\ cc \in Below(sub, cc))
  <2>1. NodeOK(m, D, sub, n) /\ NodeOK(m, D, sub, c) /\ NodeOK(m, D, sub, x)
    BY <1>1, <1>2, <1>3 DEF Shape
  <2>2. D = {n} \cup sub[c] /\ sub[x] = {x} /\ sub[c] = {c, x} \cup Below(sub, cc)
    <3>1. sub[x] = {x}
      BY <1>1, <2>1 DEF NodeOK, Below
    <3>2. D = {n} \cup sub[c]
      BY <1>1, <2>1 DEF NodeOK, Below
    <3>3. Below(sub, x) = {x}
      BY <1>1, <3>1 DEF Below
    <3>4. sub[c] = {c} \cup Below(sub, x) \cup Below(sub, cc)
      BY <2>1 DEF NodeOK
    <3> QED
      BY <3>1, <3>2, <3>3, <3>4
  <2>3. \A y \in sub[c] : n < y
    BY <1>1, <2>1 DEF NodeOK, Below
  <2>4. x < c /\ \A y \in Below(sub, cc) : c < y
    BY <1>1, <1>5, <2>1 DEF NodeOK, Below
  <2>5. \A y \in Below(sub, cc) : y # x /\ y # n
    <3>1. D \subseteq Int /\ Below(sub, cc) \subseteq D /\ {c, n, x} \subseteq D
      BY <1>2, <1>3, <2>2, KeysAreNat
    <3> QED
      BY <1>4, <2>2, <2>4, <3>1
  <2>6. cc \in D \cup {NULL} /\ (cc # NULL => m[cc].parent = c)
    BY <2>1 DEF NodeOK
  <2>7. cc # NULL => cc \in Below(sub, cc)
    <3>1. ASSUME cc # NULL PROVE cc \in sub[cc]
      BY <2>6, <3>1 DEF Shape, NodeOK
    <3> QED
      BY <3>1 DEF Below
  <2> QED
    BY <1>4, <1>5, <2>1, <2>2, <2>3, <2>4, <2>5, <2>6, <2>7
<1>7. /\ c # n /\ x # n /\ x # c /\ p # n /\ p # c /\ p # x
      /\ cc # n /\ cc # c /\ cc # x
  BY <1>2, <1>3, <1>4, <1>5, <1>6, <1>1
<1>8. LiftRightDone(m, n, a)
  <2>1. LiftRightReady(m, n)
    BY <1>7 DEF LiftRightReady
  <2> QED
    BY <2>1, LiftRightIs
<1> HIDE DEF a
<1>9. /\ \A y \in Keys \ {n, c, x} : a[y] = m[y]
      /\ a[n].parent = p /\ a[n].right = x /\ a[n].data = m[n].data
      /\ a[c].parent = x /\ a[c].left = NULL /\ a[c].right = cc /\ a[c].data = m[c].data
      /\ a[x].right = c /\ a[x].left = NULL /\ a[x].data = m[x].data
  BY <1>8 DEF LiftRightDone
<1>10. RotateLeftDone(a, n, q)
  <2>1. RotateLeftReady(a, n)
    BY <1>7, <1>9 DEF RotateLeftReady
  <2> QED
    BY <2>1, RotateLeftIs DEF a
<1> HIDE DEF q
<1>11. /\ \A y \in Keys \ {n, p, x} : q[y] = a[y]
       /\ q[p].right = x /\ q[p].left = a[p].left
       /\ q[x].left = n /\ q[x].right = c /\ q[x].parent = p /\ q[x].data = m[x].data
       /\ q[n].left = NULL /\ q[n].right = NULL /\ q[n].parent = x /\ q[n].data = m[n].data
  BY <1>9, <1>10 DEF RotateLeftDone
<1>12. /\ \A y \in D \ {n, c, x} : q[y] = m[y]
       /\ q[c].parent = x /\ q[c].left = NULL /\ q[c].right = cc /\ q[c].data = m[c].data
       /\ q[p].left = m[p].left
  <2>1. q[c] = a[c] /\ a[p] = m[p]
    BY <1>7, <1>9, <1>11
  <2>2. \A y \in D \ {n, c, x} : q[y] = a[y] /\ a[y] = m[y]
    BY <1>9, <1>11
  <2> QED
    BY <1>9, <1>11, <2>1, <2>2
<1> HIDE DEF cc
<1>13. Shape(q, D, sub2)
  <2>1. sub2 \in [D -> SUBSET D]
    <3>1. {n} \subseteq D /\ {c} \cup Below(sub, cc) \subseteq D
      BY <1>6
    <3> QED
      BY <3>1 DEF Shape
  <2>2. ASSUME NEW y \in D, y # n, y # c, y # x PROVE NodeOK(q, D, sub2, y)
    <3>1. NodeOK(m, D, sub, y) /\ q[y] = m[y] /\ sub2[y] = sub[y]
      BY <1>12, <2>2 DEF Shape
    <3>2. ASSUME NEW z, IsChild(m, y, z) PROVE z \in D /\ sub2[z] = sub[z] /\ q[z] = m[z]
      <4>1. z \in D /\ m[z].parent = y
        BY <3>2, ChildInTree
      <4>2. z # n /\ z # c /\ z # x
        BY <1>2, <1>3, <2>2, <4>1
      <4> QED
        BY <1>12, <4>1, <4>2
    <3> HIDE DEF sub2
    <3> QED
      BY <3>1, <3>2 DEF NodeOK, Below, IsChild
  <2>3. sub2[x] = D /\ sub2[n] = {n} /\ sub2[c] = {c} \cup Below(sub, cc)
    BY <1>2, <1>3, <1>7
  <2>4. cc # NULL => sub2[cc] = sub[cc] /\ q[cc].parent = c
    BY <1>6, <1>7, <1>12
  <2> HIDE DEF sub2
  <2>5. NodeOK(q, D, sub2, c)
    <3>1. Below(sub2, q[c].left) = {} /\ Below(sub2, q[c].right) = Below(sub, cc)
      BY <1>12, <2>4 DEF Below
    <3> QED
      BY <1>6, <1>12, <2>3, <2>4, <3>1 DEF NodeOK
  <2>6. NodeOK(q, D, sub2, x)
    <3>1. Below(sub2, q[x].left) = {n} /\ Below(sub2, q[x].right) = {c} \cup Below(sub, cc)
      BY <1>1, <1>2, <1>11, <2>3 DEF Below
    <3>2. \A y \in {c} \cup Below(sub, cc) : x < y
      <4>1. D \subseteq Int /\ Below(sub, cc) \subseteq D /\ {c, x} \subseteq D
        BY <1>2, <1>3, <1>6, KeysAreNat
      <4> QED
        BY <1>6, <4>1
    <3>3. D = {x} \cup {n} \cup ({c} \cup Below(sub, cc)) /\ m[x].data = x
      BY <1>6 DEF NodeOK
    <3> QED
      BY <1>2, <1>6, <1>11, <1>12, <2>3, <3>1, <3>2, <3>3 DEF NodeOK
  <2>7. NodeOK(q, D, sub2, n)
    BY <1>1, <1>6, <1>11, <2>3 DEF NodeOK, Below
  <2> QED
    BY <2>1, <2>2, <2>5, <2>6, <2>7 DEF Shape
<1>14. sub2[x] = D
  BY <1>3
<1> HIDE DEF sub2
<1> QED
  BY <1>3, <1>11, <1>12, <1>13, <1>14 DEF Hung, q, a

LEMMA RotateLR ==
    ASSUME NEW m \in Nodes, NEW D \in SUBSET Keys, NEW sub, Shape(m, D, sub),
           NEW n \in D, sub[n] = D, NEW p \in Keys \ D, m[n].parent = p,
           NEW c \in Keys, m[n].left = c, m[n].right = NULL,
           NEW x \in Keys, m[c].right = x, m[x].left = NULL, m[x].right = NULL,
           LiftInner(m, n, "left", "right") \in Nodes
    PROVE  LET q == RotateRight(LiftInner(m, n, "left", "right"), n)
           IN  Hung(q, D, p, x) /\ q[p].left = x /\ q[p].right = m[p].right
<1> DEFINE a == LiftInner(m, n, "left", "right")
           q == RotateRight(a, n)
           cc == m[c].left
           sub2 == [y \in D |-> IF y = x THEN D ELSE IF y = n THEN {n} ELSE
                                IF y = c THEN {c} \cup Below(sub, cc) ELSE sub[y]]
<1>1. NULL \notin Keys /\ IsChild(m, n, c) /\ IsChild(m, c, x) /\ Shape(m, D, sub)
  BY KeysAreNat DEF IsChild
<1>2. c \in D /\ m[c].parent = n
  BY <1>1, ChildInTree
<1>3. x \in D /\ m[x].parent = c
  BY <1>1, <1>2, ChildInTree
<1>4. n \in sub[n] /\ n \notin sub[c] /\ c \in sub[c]
  BY <1>1, <1>2, ChildBelow
<1>5. x \in sub[x] /\ c \notin sub[x]
  <2>1. IsChild(m, c, x) /\ c \in D
    BY <1>1, <1>2
  <2>2. Shape(m, D, sub) /\ m \in Nodes /\ D \in SUBSET Keys
    OBVIOUS
  <2> HIDE DEF a, q, cc, sub2
  <2> QED
    BY ONLY <2>1, <2>2, ChildBelow
<1>6. /\ NodeOK(m, D, sub, n) /\ NodeOK(m, D, sub, c) /\ NodeOK(m, D, sub, x)
      /\ D = {n} \cup sub[c] /\ sub[c] = {c, x} \cup Below(sub, cc) /\ sub[x] = {x}
      /\ c < n /\ x < n /\ c < x
      /\ \A y \in Below(sub, cc) : y < c /\ y # x /\ y # n
      /\ cc \in D \cup {NULL} /\ (cc # NULL => m[cc].parent = c /\ cc \in Below(sub, cc))
  <2>1. NodeOK(m, D, sub, n) /\ NodeOK(m, D, sub, c) /\ NodeOK(m, D, sub, x)
    BY <1>1, <1>2, <1>3 DEF Shape
  <2>2. D = {n} \cup sub[c] /\ sub[x] = {x} /\ sub[c] = {c, x} \cup Below(sub, cc)
    <3>1. sub[x] = {x}
      BY <1>1, <2>1 DEF NodeOK, Below
    <3>2. D = {n} \cup sub[c]
      BY <1>1, <2>1 DEF NodeOK, Below
    <3>3. Below(sub, x) = {x}
      BY <1>1, <3>1 DEF Below
    <3>4. sub[c] = {c} \cup Below(sub, x) \cup Below(sub, cc)
      BY <2>1 DEF NodeOK
    <3> QED
      BY <3>1, <3>2, <3>3, <3>4
  <2>3. \A y \in sub[c] : y < n
    BY <1>1, <2>1 DEF NodeOK, Below
  <2>4. c < x /\ \A y \in Below(sub, cc) : y < c
    BY <1>1, <1>5, <2>1 DEF NodeOK, Below
  <2>5. \A y \in Below(sub, cc) : y # x /\ y # n
    <3>1. D \subseteq Int /\ Below(sub, cc) \subseteq D /\ {c, n, x} \subseteq D
      BY <1>2, <1>3, <2>2, KeysAreNat
    <3> QED
      BY <1>4, <2>2, <2>4, <3>1
  <2>6. cc \in D \cup {NULL} /\ (cc # NULL => m[cc].parent = c)
    BY <2>1 DEF NodeOK
  <2>7. cc # NULL => cc \in Below(sub, cc)
    <3>1. ASSUME cc # NULL PROVE cc \in sub[cc]
      BY <2>6, <3>1 DEF Shape, NodeOK
    <3> QED
      BY <3>1 DEF Below
  <2> QED
    BY <1>4, <1>5, <2>1, <2>2, <2>3, <2>4, <2>5, <2>6, <2>7
<1>7. /\ c # n /\ x # n /\ x # c /\ p # n /\ p # c /\ p # x
      /\ cc # n /\ cc # c /\ cc # x
  BY <1>2, <1>3, <1>4, <1>5, <1>6, <1>1
<1>8. LiftLeftDone(m, n, a)
  <2>1. LiftLeftReady(m, n)
    BY <1>7 DEF LiftLeftReady
  <2> QED
    BY <2>1, LiftLeftIs
<1> HIDE DEF a
<1>9. /\ \A y \in Keys \ {n, c, x} : a[y] = m[y]
      /\ a[n].parent = p /\ a[n].left = x /\ a[n].data = m[n].data
      /\ a[c].parent = x /\ a[c].right = NULL /\ a[c].left = cc /\ a[c].data = m[c].data
      /\ a[x].left = c /\ a[x].right = NULL /\ a[x].data = m[x].data
  BY <1>8 DEF LiftLeftDone
<1>10. RotateRightDone(a, n, q)
  <2>1. RotateRightReady(a, n)
    BY <1>7, <1>9 DEF RotateRightReady
  <2> QED
    BY <2>1, RotateRightIs DEF a
<1> HIDE DEF q
<1>11. /\ \A y \in Keys \ {n, p, x} : q[y] = a[y]
       /\ q[p].left = x /\ q[p].right = a[p].right
       /\ q[x].right = n /\ q[x].left = c /\ q[x].parent = p /\ q[x].data = m[x].data
       /\ q[n].left = NULL /\ q[n].right = NULL /\ q[n].parent = x /\ q[n].data = m[n].data
  BY <1>9, <1>10 DEF RotateRightDone
<1>12. /\ \A y \in D \ {n, c, x} : q[y] = m[y]
       /\ q[c].parent = x /\ q[c].right = NULL /\ q[c].left = cc /\ q[c].data = m[c].data
       /\ q[p].right = m[p].right
  <2>1. q[c] = a[c] /\ a[p] = m[p]
    BY <1>7, <1>9, <1>11
  <2>2. \A y \in D \ {n, c, x} : q[y] = a[y] /\ a[y] = m[y]
    BY <1>9, <1>11
  <2> QED
    BY <1>9, <1>11, <2>1, <2>2
<1> HIDE DEF cc
<1>13. Shape(q, D, sub2)
  <2>1. sub2 \in [D -> SUBSET D]
    <3>1. {n} \subseteq D /\ {c} \cup Below(sub, cc) \subseteq D
      BY <1>6
    <3> QED
      BY <3>1 DEF Shape
  <2>2. ASSUME NEW y \in D, y # n, y # c, y # x PROVE NodeOK(q, D, sub2, y)
    <3>1. NodeOK(m, D, sub, y) /\ q[y] = m[y] /\ sub2[y] = sub[y]
      BY <1>12, <2>2 DEF Shape
    <3>2. ASSUME NEW z, IsChild(m, y, z) PROVE z \in D /\ sub2[z] = sub[z] /\ q[z] = m[z]
      <4>1. z \in D /\ m[z].parent = y
        BY <3>2, ChildInTree
      <4>2. z # n /\ z # c /\ z # x
        BY <1>2, <1>3, <2>2, <4>1
      <4> QED
        BY <1>12, <4>1, <4>2
    <3> HIDE DEF sub2
    <3> QED
      BY <3>1, <3>2 DEF NodeOK, Below, IsChild
  <2>3. sub2[x] = D /\ sub2[n] = {n} /\ sub2[c] = {c} \cup Below(sub, cc)
    BY <1>2, <1>3, <1>7
  <2>4. cc # NULL => sub2[cc] = sub[cc] /\ q[cc].parent = c
    BY <1>6, <1>7, <1>12
  <2> HIDE DEF sub2
  <2>5. NodeOK(q, D, sub2, c)
    <3>1. Below(sub2, q[c].right) = {} /\ Below(sub2, q[c].left) = Below(sub, cc)
      BY <1>12, <2>4 DEF Below
    <3> QED
      BY <1>6, <1>12, <2>3, <2>4, <3>1 DEF NodeOK
  <2>6. NodeOK(q, D, sub2, x)
    <3>1. Below(sub2, q[x].right) = {n} /\ Below(sub2, q[x].left) = {c} \cup Below(sub, cc)
      BY <1>1, <1>2, <1>11, <2>3 DEF Below
    <3>2. \A y \in {c} \cup Below(sub, cc) : y < x
      <4>1. D \subseteq Int /\ Below(sub, cc) \subseteq D /\ {c, x} \subseteq D
        BY <1>2, <1>3, <1>6, KeysAreNat
      <4> QED
        BY <1>6, <4>1
    <3>3. D = {x} \cup {n} \cup ({c} \cup Below(sub, cc)) /\ m[x].data = x
      BY <1>6 DEF NodeOK
    <3> QED
      BY <1>2, <1>6, <1>11, <1>12, <2>3, <3>1, <3>2, <3>3 DEF NodeOK
  <2>7. NodeOK(q, D, sub2, n)
    BY <1>1, <1>6, <1>11, <2>3 DEF NodeOK, Below
  <2> QED
    BY <2>1, <2>2, <2>5, <2>6, <2>7 DEF Shape
<1>14. sub2[x] = D
  BY <1>3
<1> HIDE DEF sub2
<1> QED
  BY <1>3, <1>11, <1>12, <1>13, <1>14 DEF Hung, q, a

\* With the nodes q, the tree D hangs where x hung below p with the nodes m.
Rehung(m, q, D, p, x) ==
    \E t, s : /\ Hung(q, D, p, t)
              /\ s \in {"left", "right"} /\ m[p][s] = x
              /\ q[p][s] = t /\ q[p][Other(s)] = m[p][Other(s)]

\* A child of a child is another node.
LEMMA GrandChild ==
    ASSUME NEW m \in Nodes, NEW D \in SUBSET Keys, NEW sub, Shape(m, D, sub),
           NEW n \in D, NEW c, IsChild(m, n, c), NEW x, IsChild(m, c, x)
    PROVE  c # n /\ x # c /\ x # n
<1>1. c \in D /\ x \in D /\ m[c].parent = n
  BY ChildInTree
<1>2. m[x].parent = c
  BY <1>1, ChildInTree
<1>3. c \in sub[c] /\ n \notin sub[c]
  BY ChildBelow
<1>4. x \in sub[x] /\ sub[x] \subseteq sub[c] /\ c \notin sub[x]
  BY <1>1, ChildBelow
<1> QED
  BY <1>1, <1>2, <1>3, <1>4

\* A rotation that Keeps leaves a tree of the same nodes in the same place.
LEMMA RotationKeeps ==
    ASSUME NEW m0, NEW m, NEW D, NEW p \in Keys, Framed(m0, m, D, p), NEW n \in D, m[n].parent = p,
           m[n].balance_factor = BalanceFactor(m, n),
           NEW h, h = Heavy(m, n), h # <<>>, ~Crashes(m, n, h), Keeps(m, n, h),
           NEW sub, Shape(m, D, sub), sub[n] = D
    PROVE  Rehung(m, Rotate(m, n, h), D, p, n)
<1>1. /\ m \in Nodes /\ D \in SUBSET Keys /\ p \in Keys \ D /\ n \in Keys
      /\ NULL \notin Keys
  BY KeysAreNat DEF Framed
<1>2. CASE h = <<"right", "right">> /\ m[n].balance_factor < -1
  <2>1. m[n].right \in Keys /\ m[m[n].right].height >= 2
    BY <1>1, <1>2, HeavyChild
  <2>2. PICK c \in Keys : c = m[n].right
    BY <2>1
  <2>3. m[c].right # NULL /\ m[p].right = n /\ Other("right") = "left"
    BY <1>2, <2>2 DEF Crashes, Keeps, Other
  <2>4. c \in D /\ m[c].right \in D
    <3>1. c \in D
      BY <1>1, <2>2, FramedFields
    <3> QED
      BY <2>3, <3>1, FramedFields
  <2>5. Prepared(m, n, h) = m /\ Rotate(m, n, h) = RotateLeft(m, n)
    BY <1>2 DEF Prepared, Rotate
  <2>6. m[n].left = NULL /\ m[c].left = NULL /\ m[m[c].right].left = NULL
    BY <1>2, <2>2, <2>3, <2>5 DEF Keeps
  <2>7. LET q == RotateLeft(m, n)
        IN  Hung(q, D, p, c) /\ q[p].right = c /\ q[p].left = m[p].left
    BY <1>1, <2>2, <2>4, <2>6, RotateRR DEF Links
  <2> QED
    BY <2>3, <2>5, <2>7 DEF Rehung
<1>3. CASE h = <<"left", "left">> /\ m[n].balance_factor > 1
  <2>1. m[n].left \in Keys /\ m[m[n].left].height >= 2
    BY <1>1, <1>3, HeavyChild
  <2>2. PICK c \in Keys : c = m[n].left
    BY <2>1
  <2>3. m[p].left = n /\ Other("left") = "right"
    BY <1>3, <2>2 DEF Keeps, Other
  <2>4. c \in D /\ m[c].left \in Links
    <3>1. c \in D
      BY <1>1, <2>2, FramedFields
    <3> QED
      BY <1>1, <3>1, FramedFields DEF Links
  <2>5. Prepared(m, n, h) = m /\ Rotate(m, n, h) = RotateRight(m, n)
    BY <1>3 DEF Prepared, Rotate
  <2>6. m[n].right = NULL /\ m[c].right = NULL
    BY <1>3, <2>2, <2>3, <2>5 DEF Keeps
  <2>7. LET q == RotateRight(m, n)
        IN  Hung(q, D, p, c) /\ q[p].left = c /\ q[p].right = m[p].right
    BY <1>1, <2>2, <2>4, <2>6, RotateLL DEF Links
  <2> QED
    BY <2>3, <2>5, <2>7 DEF Rehung
<1>4. CASE h = <<"right", "left">> /\ m[n].balance_factor < -1
  <2>1. m[n].right \in Keys /\ m[m[n].right].height >= 2
    BY <1>1, <1>4, HeavyChild
  <2>2. PICK c \in Keys : c = m[n].right
    BY <2>1
  <2>3. m[c].left # NULL /\ m[p].right = n /\ Other("right") = "left"
    BY <1>4, <2>2 DEF Crashes, Keeps, Other
  <2>4. c \in D /\ m[c].left \in D
    <3>1. c \in D
      BY <1>1, <2>2, FramedFields
    <3> QED
      BY <2>3, <3>1, FramedFields
  <2> DEFINE a == LiftInner(m, n, "right", "left")
  <2>5. PICK x \in D : x = m[c].left
    BY <2>4
  <2>6. Prepared(m, n, h) = a /\ Rotate(m, n, h) = RotateLeft(a, n)
    BY <1>4, <2>2, <2>3 DEF Prepared, Rotate
  <2>7. m[c].height >= 1
    BY <2>1, <2>2, <2>4, FramedFields
  <2>8. c # n /\ x # c /\ x # n
    <3>1. IsChild(m, n, c) /\ IsChild(m, c, x)
      BY <1>1, <2>2, <2>5 DEF IsChild
    <3> QED
      BY <1>1, <3>1, GrandChild
  <2>9. LiftRightDone(m, n, a)
    <3>1. LiftRightReady(m, n)
      BY <2>2, <2>5, <2>8, <1>1 DEF LiftRightReady
    <3> QED
      BY <1>1, <3>1, LiftRightIs
  <2>10. a \in Nodes
    <3>1. Framed(m0, a, D, p)
      BY <2>2, <2>4, <2>5, <2>7, LiftRightFramed
    <3> QED
      BY <3>1 DEF Framed
  <2>11. a[n].right = x /\ a[n].left = m[n].left /\ a[x].left = m[x].left
    BY <2>2, <2>5, <2>9 DEF LiftRightDone
  <2>12. m[n].left = NULL /\ m[x].left = NULL /\ m[x].right = NULL
    BY <1>4, <2>2, <2>3, <2>5, <2>6, <2>11 DEF Keeps
  <2>13. LET q == RotateLeft(a, n)
         IN  Hung(q, D, p, x) /\ q[p].right = x /\ q[p].left = m[p].left
    BY <1>1, <2>2, <2>4, <2>5, <2>10, <2>12, RotateRL
  <2> QED
    BY <2>3, <2>6, <2>13 DEF Rehung
<1>5. CASE h = <<"left", "right">> /\ m[n].balance_factor > 1
  <2>1. m[n].left \in Keys /\ m[m[n].left].height >= 2
    BY <1>1, <1>5, HeavyChild
  <2>2. PICK c \in Keys : c = m[n].left
    BY <2>1
  <2>3. m[c].right # NULL /\ m[p].left = n /\ Other("left") = "right"
    BY <1>5, <2>2 DEF Crashes, Keeps, Other
  <2>4. c \in D /\ m[c].right \in D
    <3>1. c \in D
      BY <1>1, <2>2, FramedFields
    <3> QED
      BY <2>3, <3>1, FramedFields
  <2> DEFINE a == LiftInner(m, n, "left", "right")
  <2>5. PICK x \in D : x = m[c].right
    BY <2>4
  <2>6. Prepared(m, n, h) = a /\ Rotate(m, n, h) = RotateRight(a, n)
    BY <1>5, <2>2, <2>3 DEF Prepared, Rotate
  <2>7. m[c].height >= 1
    BY <2>1, <2>2, <2>4, FramedFields
  <2>8. c # n /\ x # c /\ x # n
    <3>1. IsChild(m, n, c) /\ IsChild(m, c, x)
      BY <1>1, <2>2, <2>5 DEF IsChild
    <3> QED
      BY <1>1, <3>1, GrandChild
  <2>9. LiftLeftDone(m, n, a)
    <3>1. LiftLeftReady(m, n)
      BY <2>2, <2>5, <2>8, <1>1 DEF LiftLeftReady
    <3> QED
      BY <1>1, <3>1, LiftLeftIs
  <2>10. a \in Nodes
    <3>1. Framed(m0, a, D, p)
      BY <2>2, <2>4, <2>5, <2>7, LiftLeftFramed
    <3> QED
      BY <3>1 DEF Framed
  <2>11. a[n].left = x /\ a[n].right = m[n].right /\ a[x].right = m[x].right
    BY <2>2, <2>5, <2>9 DEF LiftLeftDone
  <2>12. m[n].right = NULL /\ m[x].left = NULL /\ m[x].right = NULL
    BY <1>5, <2>2, <2>3, <2>5, <2>6, <2>11 DEF Keeps
  <2>13. LET q == RotateRight(a, n)
         IN  Hung(q, D, p, x) /\ q[p].left = x /\ q[p].right = m[p].right
    BY <1>1, <2>2, <2>4, <2>5, <2>10, <2>12, RotateLR
  <2> QED
    BY <2>3, <2>6, <2>13 DEF Rehung
<1> QED
  BY <1>1, <1>2, <1>3, <1>4, <1>5, HeavyIs

\* What insert_into_tree returns for a node of the tree.
Results == [m : Nodes, outcome : {"no_op", "rebalance"}, flaw : {"none", "null", "rotation"}]

\* What the call for the node x has returned: its nodes are D, and p was its parent.
Placed(m0, q, D, p, x) == IF p = NULL THEN Hung(q, D, p, x) ELSE Rehung(m0, q, D, p, x)

Returned(m0, s, D, p, x) ==
    /\ s \in Results
    /\ s.flaw # "null" => Framed(m0, s.m, D, p)
    /\ s.flaw = "none" => Placed(m0, s.m, D, p, x)

\* Balance and heights do not matter to a tree.
LEMMA SameHung ==
    ASSUME NEW m \in Nodes, NEW m2 \in Nodes, NEW D \in SUBSET Keys, NEW p, NEW t,
           Hung(m, D, p, t), m2[t].parent = p,
           \A y \in D : /\ m2[y].left = m[y].left /\ m2[y].right = m[y].right
                        /\ m2[y].data = m[y].data /\ m2[y].parent = m[y].parent
    PROVE  Hung(m2, D, p, t)
<1>1. PICK sub : Shape(m, D, sub) /\ sub[t] = D /\ t \in D
  BY DEF Hung
<1>2. Shape(m2, D, sub)
  BY <1>1, SameShape
<1> QED
  BY <1>1, <1>2 DEF Hung

\* The end of the call: balance and rotation.
LEMMA SettleReturns ==
    ASSUME NEW m0, NEW D, NEW p, NEW n \in D, NEW s \in Results, s.flaw # "null",
           Framed(m0, s.m, D, p), s.m[n].parent = p, p # NULL => s.m[p] = m0[p],
           s.flaw = "none" => Hung(s.m, D, p, n),
           p # NULL => m0[p].left = n \/ m0[p].right = n
    PROVE  Returned(m0, Settle(n, s), D, p, n)
<1> DEFINE w == SetBalance(s.m, n, BalanceFactor(s.m, n))
           h == Heavy(w, n)
<1>1. Settle(n, s) = IF h = <<>> THEN [s EXCEPT !.m = w]
                     ELSE IF Crashes(w, n, h) THEN [s EXCEPT !.m = w, !.flaw = "null"]
                     ELSE [m |-> Rotate(w, n, h), outcome |-> "rebalance",
                           flaw |-> IF s.flaw = "none" /\ ~Keeps(w, n, h)
                                    THEN "rotation" ELSE s.flaw]
  BY DEF Settle, SetBalance
<1>2. s.m \in Nodes /\ n \in Keys /\ D \in SUBSET Keys /\ BalanceFactor(s.m, n) \in Int
  BY DEF Framed, Results, BalanceFactor, Height, Nodes, Fields, Links
<1>3. Framed(m0, w, D, p)
  BY <1>2, SetBalanceFramed
<1>4. /\ w \in Nodes /\ w[n].parent = p
      /\ \A y \in Keys : /\ w[y].left = s.m[y].left /\ w[y].right = s.m[y].right
                         /\ w[y].data = s.m[y].data /\ w[y].parent = s.m[y].parent
                         /\ w[y].height = s.m[y].height
      /\ \A y \in Keys \ {n} : w[y] = s.m[y]
      /\ w[n].balance_factor = BalanceFactor(s.m, n)
  BY <1>2 DEF SetBalance, Nodes, Fields
<1>5. w[n].balance_factor = BalanceFactor(w, n)
  <2>1. s.m[n].left \in Links /\ s.m[n].right \in Links
    BY <1>2 DEF Nodes, Fields
  <2> HIDE DEF w
  <2> QED
    BY <1>2, <1>4, <2>1 DEF BalanceFactor, Height, Links
<1> HIDE DEF w
<1>6. s.flaw = "none" => Hung(w, D, p, n)
  BY <1>2, <1>4, SameHung
<1>7. p # NULL => p \in Keys /\ p # n /\ w[p] = m0[p]
  BY <1>4, <1>3 DEF Framed, Links
<1> HIDE DEF h
<1>8. CASE h = <<>>
  <2>1. Settle(n, s) = [s EXCEPT !.m = w]
    BY <1>1, <1>8
  <2>2. Settle(n, s) \in Results /\ Settle(n, s).m = w /\ Settle(n, s).flaw = s.flaw
    BY <1>4, <2>1 DEF Results
  <2>3. ASSUME s.flaw = "none" PROVE Placed(m0, w, D, p, n)
    <3>1. CASE p = NULL
      BY <1>6, <2>3, <3>1 DEF Placed
    <3>2. CASE p # NULL
      BY <1>6, <1>7, <2>3, <3>2 DEF Placed, Rehung
    <3> QED
      BY <3>1, <3>2
  <2> QED
    BY <1>3, <2>2, <2>3 DEF Returned
<1>9. CASE h # <<>> /\ Crashes(w, n, h)
  <2>1. Settle(n, s) \in Results /\ Settle(n, s).flaw = "null"
    BY <1>1, <1>4, <1>9 DEF Results
  <2> QED
    BY <2>1 DEF Returned
<1>10. CASE h # <<>> /\ ~Crashes(w, n, h)
  <2> DEFINE q == Rotate(w, n, h)
             fl == IF s.flaw = "none" /\ ~Keeps(w, n, h) THEN "rotation" ELSE s.flaw
  <2>1. p \in Keys
    BY <1>4, <1>7, <1>10 DEF Crashes
  <2>2. Framed(m0, q, D, p)
    BY <1>3, <1>4, <1>5, <1>10, <2>1, RotationFramed DEF h
  <2>3. Settle(n, s) = [m |-> q, outcome |-> "rebalance", flaw |-> fl]
    BY <1>1, <1>10
  <2>4. fl \in {"none", "null", "rotation"} /\ fl # "null"
    BY DEF Results
  <2>5. ASSUME fl = "none" PROVE Placed(m0, q, D, p, n)
    <3>1. s.flaw = "none" /\ Keeps(w, n, h)
      BY <2>5
    <3>2. PICK sub : Shape(w, D, sub) /\ sub[n] = D
      BY <1>6, <3>1 DEF Hung
    <3>3. Rehung(w, q, D, p, n)
      BY <1>3, <1>4, <1>5, <1>10, <2>1, <3>1, <3>2, RotationKeeps DEF h
    <3>4. w[p] = m0[p] /\ p # NULL
      BY <1>7, <2>1, KeysAreNat
    <3> HIDE DEF q
    <3> QED
      BY <3>3, <3>4 DEF Placed, Rehung
  <2> HIDE DEF q, fl
  <2>6. Settle(n, s) \in Results /\ Settle(n, s).m = q /\ Settle(n, s).flaw = fl
    BY <2>2, <2>3, <2>4 DEF Results, Framed
  <2> QED
    BY <2>2, <2>5, <2>6 DEF Returned
<1> QED
  BY <1>8, <1>9, <1>10

\* What the call for the child c of n returned is within the tree of n, with the
\* new node k in it.
Grows(m0, L, sub, k, n, c) ==
    /\ m0 \in Nodes /\ L \in SUBSET Keys /\ Shape(m0, L, sub)
    /\ k \in Keys \ L /\ n \in L /\ c = m0[n][Side(k, n)]
    /\ m0[n].parent \in Links /\ m0[n].parent \notin sub[n] \cup {k}

\* The nodes and links of such a subtree.
LEMMA GrowsFacts ==
    ASSUME NEW m0, NEW L, NEW sub, NEW k, NEW n, NEW c, Grows(m0, L, sub, k, n, c)
    PROVE  /\ NodeOK(m0, L, sub, n) /\ n \in sub[n] /\ sub[n] \in SUBSET Keys /\ k # n
           /\ k \notin sub[n] /\ c \in L \cup {NULL}
           /\ Below(sub, c) \subseteq sub[n] /\ n \notin Below(sub, c)
           /\ \A y \in sub[n] : m0[y].left \in sub[n] \cup {NULL}
                              /\ m0[y].right \in sub[n] \cup {NULL}
<1>1. /\ m0 \in Nodes /\ L \in SUBSET Keys /\ Shape(m0, L, sub) /\ n \in L
      /\ k \in Keys \ L
  BY DEF Grows
<1>2. NodeOK(m0, L, sub, n) /\ n \in sub[n] /\ sub[n] \in SUBSET L
  BY <1>1 DEF Shape, NodeOK
<1>3. c = m0[n].left \/ c = m0[n].right
  BY DEF Grows, Side
<1>4. c \in L \cup {NULL} /\ Below(sub, c) \subseteq sub[n]
  BY <1>2, <1>3 DEF NodeOK
<1>5. n \notin Below(sub, c)
  <2>1. CASE c = NULL
    BY <2>1 DEF Below
  <2>2. CASE c # NULL
    <3>1. IsChild(m0, n, c)
      BY <1>1, <1>3, <1>4, <2>2 DEF IsChild
    <3>2. n \notin sub[c]
      BY <1>1, <3>1, ChildBelow
    <3> QED
      BY <2>2, <3>2 DEF Below
  <2> QED
    BY <2>1, <2>2
<1>6. ASSUME NEW y \in sub[n]
      PROVE  m0[y].left \in sub[n] \cup {NULL} /\ m0[y].right \in sub[n] \cup {NULL}
  <2>1. Shape(m0, sub[n], [z \in sub[n] |-> sub[z]])
    BY <1>1, SubtreeShape
  <2> QED
    BY <2>1 DEF Shape, NodeOK
<1> QED
  BY <1>1, <1>2, <1>4, <1>5, <1>6

\* The call below n writes neither the parent link of n nor the parent of n.
LEMMA ParentKept ==
    ASSUME NEW m0, NEW L, NEW sub, NEW k, NEW n, NEW c, Grows(m0, L, sub, k, n, c),
           NEW m, Framed(m0, m, Below(sub, c) \cup {k}, n)
    PROVE  /\ m[n].parent = m0[n].parent
           /\ m0[n].parent # NULL => m[m0[n].parent] = m0[m0[n].parent]
<1>1. n \in sub[n] /\ Below(sub, c) \subseteq sub[n]
  BY GrowsFacts
<1>2. n \in Keys /\ n # NULL /\ m0[n].parent \in Links \ (sub[n] \cup {k})
  BY KeysAreNat DEF Grows
<1>3. m[n].parent = m0[n].parent /\ \A y \in Keys \ (Below(sub, c) \cup {k, n}) : m[y] = m0[y]
  BY <1>2 DEF Framed
<1> QED
  BY <1>1, <1>2, <1>3 DEF Links

\* What is in the frame of the call for c is in that of the call for n.
LEMMA FrameUp ==
    ASSUME NEW m0, NEW L, NEW sub, NEW k, NEW n, NEW c, Grows(m0, L, sub, k, n, c),
           NEW m, Framed(m0, m, Below(sub, c) \cup {k}, n)
    PROVE  Framed(m0, m, sub[n] \cup {k}, m0[n].parent)
<1> DEFINE D1 == Below(sub, c) \cup {k}
           D == sub[n] \cup {k}
           p == m0[n].parent
<1>1. /\ n \in sub[n] /\ sub[n] \in SUBSET Keys /\ k # n /\ D1 \subseteq D
      /\ k \notin sub[n] /\ NodeOK(m0, L, sub, n)
      /\ \A y \in sub[n] : m0[y].left \in sub[n] \cup {NULL} /\ m0[y].right \in sub[n] \cup {NULL}
  BY GrowsFacts
<1>2. n \in Keys /\ n # NULL /\ k \in Keys /\ p \in Links \ D
  BY KeysAreNat DEF Grows
<1>3. /\ m \in Nodes /\ \A y \in Keys \ (D1 \cup {n}) : m[y] = m0[y]
      /\ m[n].parent = p
      /\ m[n].left \in D1 \cup {m0[n].left} /\ m[n].right \in D1 \cup {m0[n].right}
      /\ \A y \in D1 : {m[y].left, m[y].right} \subseteq D1 \cup {NULL}
  BY <1>2 DEF Framed, Closed
<1>4. p # NULL => m[p] = m0[p]
  BY <1>1, <1>2, <1>3 DEF Links
<1>5. \A y \in Keys \ (D \cup {p}) : m[y] = m0[y]
  BY <1>1, <1>3
<1>6. Closed(m, D)
  <2> SUFFICES ASSUME NEW y \in D PROVE {m[y].left, m[y].right} \subseteq D \cup {NULL}
    BY DEF Closed
  <2>1. CASE y \in D1
    BY <1>1, <1>3, <2>1
  <2>2. CASE y = n
    BY <1>1, <1>3, <2>2
  <2>3. CASE y \notin D1 /\ y # n
    <3>1. y \in sub[n] /\ y \in Keys
      BY <1>1, <2>3
    <3>2. m[y] = m0[y]
      BY <1>3, <2>3, <3>1
    <3> QED
      BY <1>1, <3>1, <3>2
  <2> QED
    BY <2>1, <2>2, <2>3
<1> QED
  BY <1>1, <1>2, <1>3, <1>4, <1>5, <1>6 DEF Framed

\* The tree that the call for c returned, hung on n on the side of k, makes a tree of n.
LEMMA Attach ==
    ASSUME NEW m0, NEW L, NEW sub, NEW k, NEW n, NEW c, Grows(m0, L, sub, k, n, c),
           NEW m, Framed(m0, m, Below(sub, c) \cup {k}, n),
           NEW t, Hung(m, Below(sub, c) \cup {k}, n, t),
           m[n][Side(k, n)] = t, m[n][Other(Side(k, n))] = m0[n][Other(Side(k, n))]
    PROVE  Hung(m, sub[n] \cup {k}, m0[n].parent, n)
<1> DEFINE D1 == Below(sub, c) \cup {k}
           D == sub[n] \cup {k}
           o == m0[n][Other(Side(k, n))]
<1>1. PICK sub1 : Shape(m, D1, sub1) /\ sub1[t] = D1 /\ t \in D1 /\ m[t].parent = n
  BY DEF Hung
<1> DEFINE sub2 == [y \in D |-> IF y = n THEN D ELSE IF y \in D1 THEN sub1[y] ELSE sub[y]]
<1>2. /\ n \in sub[n] /\ sub[n] \in SUBSET Keys /\ k # n /\ D1 \subseteq D
      /\ k \notin sub[n] /\ NodeOK(m0, L, sub, n) /\ n \notin D1
  BY GrowsFacts
<1>3. /\ n \in Keys /\ k \in Keys /\ NULL \notin Keys /\ n # NULL
      /\ m0 \in Nodes /\ L \in SUBSET Keys /\ Shape(m0, L, sub) /\ n \in L
  BY KeysAreNat DEF Grows
<1>4. /\ \A y \in Keys \ (D1 \cup {n}) : m[y] = m0[y]
      /\ m[n].parent = m0[n].parent /\ m[n].data = m0[n].data
  BY <1>3 DEF Framed
\* the two sides of n in the tree there was
<1>5. /\ Side(k, n) \in {"left", "right"}
      /\ Side(k, n) = "left" => c = m0[n].left /\ o = m0[n].right /\ k < n
      /\ Side(k, n) = "right" => c = m0[n].right /\ o = m0[n].left /\ n < k
  BY <1>2, <1>3, KeysAreNat DEF Side, Other, Grows
<1>6. /\ o \in L \cup {NULL} /\ (o # NULL => m0[o].parent = n)
      /\ sub[n] = {n} \cup Below(sub, c) \cup Below(sub, o)
      /\ Side(k, n) = "left" => (\A y \in D1 : y < n) /\ (\A y \in Below(sub, o) : n < y)
      /\ Side(k, n) = "right" => (\A y \in D1 : n < y) /\ (\A y \in Below(sub, o) : y < n)
      /\ m0[n].data = n
  BY <1>2, <1>5 DEF NodeOK
<1>7. Below(sub, o) \cap D1 = {} /\ n \notin Below(sub, o) /\ Below(sub, o) \subseteq D
  <2>1. D \subseteq Int /\ D1 \subseteq D
    BY <1>2, <1>3, KeysAreNat
  <2> QED
    BY <1>2, <1>5, <1>6, <2>1
<1>8. \A y \in Below(sub, o) : m[y] = m0[y]
  BY <1>2, <1>4, <1>7
<1>9. sub2 \in [D -> SUBSET D]
  <2>1. \A y \in D1 : sub1[y] \in SUBSET D
    BY <1>1, <1>2 DEF Shape
  <2>2. \A y \in sub[n] : sub[y] \in SUBSET D
    BY <1>3, SubtreesNest
  <2> QED
    BY <2>1, <2>2
<1>10. ASSUME NEW y \in D1 PROVE NodeOK(m, D, sub2, y)
  <2>1. NodeOK(m, D1, sub1, y)
    BY <1>1 DEF Shape
  <2>2. \A z \in D1 : z \in D /\ sub2[z] = sub1[z]
    BY <1>2
  <2> HIDE DEF sub2, D, D1
  <2>3. \A z \in D1 \cup {NULL} : Below(sub2, z) = Below(sub1, z)
    BY <2>2 DEF Below
  <2> QED
    BY <2>1, <2>2, <2>3 DEF NodeOK
<1>11. ASSUME NEW y \in Below(sub, o) PROVE NodeOK(m, D, sub2, y)
  <2>1. o # NULL /\ o \in L /\ sub[o] = Below(sub, o)
    BY <1>6, <1>11 DEF Below
  <2>2. Shape(m0, sub[o], [z \in sub[o] |-> sub[z]])
    BY <1>3, <2>1, SubtreeShape
  <2>3. NodeOK(m0, sub[o], [z \in sub[o] |-> sub[z]], y)
    BY <1>11, <2>1, <2>2 DEF Shape
  <2>4. \A z \in sub[o] : z \in D /\ sub2[z] = sub[z] /\ m[z] = m0[z]
    BY <1>7, <1>8, <2>1
  <2> DEFINE so == [z \in sub[o] |-> sub[z]]
  <2>5. \A z \in sub[o] : so[z] = sub2[z]
    BY <2>4
  <2>6. NodeOK(m0, sub[o], so, y) /\ y \in sub[o]
    BY <1>11, <2>1, <2>3
  <2> HIDE DEF sub2, D, so
  <2>7. \A z \in sub[o] \cup {NULL} : Below(sub2, z) = Below(so, z)
    BY <2>5 DEF Below
  <2> QED
    BY <2>4, <2>5, <2>6, <2>7 DEF NodeOK
<1>12. NodeOK(m, D, sub2, n)
  <2>1. Below(sub2, t) = D1 /\ t \in D
    BY <1>1, <1>2, <1>3 DEF Below
  <2>2. Below(sub2, o) = Below(sub, o) /\ o \in D \cup {NULL} /\ (o # NULL => m[o].parent = n)
    <3>1. CASE o = NULL
      BY <3>1 DEF Below
    <3>2. CASE o # NULL
      <4>1. o \in sub[o] /\ sub[o] = Below(sub, o)
        BY <1>3, <1>6, <3>2 DEF Shape, NodeOK, Below
      <4> QED
        BY <1>6, <1>7, <1>8, <4>1, <3>2 DEF Below
    <3> QED
      BY <3>1, <3>2
  <2>3. /\ sub2[n] = D /\ D = {n} \cup D1 \cup Below(sub, o)
    BY <1>2, <1>6
  <2>4. /\ Side(k, n) = "left" => m[n].left = t /\ m[n].right = o
        /\ Side(k, n) = "right" => m[n].right = t /\ m[n].left = o
    BY <1>5 DEF Other
  <2> HIDE DEF sub2, D, D1, o
  <2> QED
    BY <1>1, <1>4, <1>5, <1>6, <2>1, <2>2, <2>3, <2>4 DEF NodeOK
<1>13. Shape(m, D, sub2)
  <2>1. \A y \in D : y = n \/ y \in D1 \/ y \in Below(sub, o)
    BY <1>6
  <2> QED
    BY <1>9, <1>10, <1>11, <1>12, <2>1 DEF Shape
<1>14. sub2[n] = D /\ n \in D
  BY <1>2
<1> HIDE DEF sub2
<1> QED
  BY <1>4, <1>13, <1>14 DEF Hung

\* The state in which the call for n settles its balance: m are the nodes, with
\* the child linked, and "higher" says whether the height changes.
Raised(m, n, child, higher) == IF higher THEN SetHeight(m, n, m[child].height + 1) ELSE m

\* The end of the call for n, whatever has happened below it.
LEMMA RaisedSettles ==
    ASSUME NEW m0, NEW L, NEW sub, NEW k, NEW n, NEW c, Grows(m0, L, sub, k, n, c),
           NEW m, Framed(m0, m, Below(sub, c) \cup {k}, n),
           NEW child \in Below(sub, c) \cup {k}, NEW higher \in BOOLEAN,
           NEW fl \in {"none", "rotation"}, NEW outcome \in {"no_op", "rebalance"},
           fl = "none" => \E t :
               /\ Hung(m, Below(sub, c) \cup {k}, n, t)
               /\ m[n][Side(k, n)] = t
               /\ m[n][Other(Side(k, n))] = m0[n][Other(Side(k, n))],
           NEW p, p = m0[n].parent, p # NULL => IsChild(m0, p, n)
    PROVE  Returned(m0, Settle(n, [m |-> Raised(m, n, child, higher), outcome |-> outcome,
                               flaw |-> fl]),
                    sub[n] \cup {k}, p, n)
<1> DEFINE D == sub[n] \cup {k}
           g == Raised(m, n, child, higher)
           s == [m |-> g, outcome |-> outcome, flaw |-> fl]
<1>1. n \in D /\ child \in D /\ D \in SUBSET Keys /\ n \in Keys
  <2>1. n \in sub[n] /\ Below(sub, c) \subseteq sub[n] /\ sub[n] \in SUBSET Keys
    BY GrowsFacts
  <2>2. k \in Keys
    BY DEF Grows
  <2> QED
    BY <2>1, <2>2
<1>2. /\ Framed(m0, m, D, p) /\ m[n].parent = p
      /\ p # NULL => m[p] = m0[p]
  <2>1. Framed(m0, m, D, m0[n].parent)
    BY FrameUp
  <2>2. m[n].parent = m0[n].parent /\ (m0[n].parent # NULL => m[m0[n].parent] = m0[m0[n].parent])
    BY ParentKept
  <2> QED
    BY <2>1, <2>2
<1>3. fl = "none" => Hung(m, D, p, n)
  BY Attach
<1>4. m \in Nodes /\ m[child].height + 1 \in Nat
  <2>1. Framed(m0, m, D, p) /\ child \in D
    BY <1>1, <1>2
  <2>2. m[child].height \in Nat
    BY ONLY <2>1, FramedFields
  <2> QED
    BY <2>1, <2>2 DEF Framed
<1> HIDE DEF D
<1>5. Framed(m0, g, D, p)
  BY <1>1, <1>2, <1>4, SetHeightFramed DEF Raised
<1>6. /\ g \in Nodes /\ g[n].parent = p
      /\ \A y \in Keys : /\ g[y].left = m[y].left /\ g[y].right = m[y].right
                         /\ g[y].data = m[y].data /\ g[y].parent = m[y].parent
      /\ \A y \in Keys \ {n} : g[y] = m[y]
  BY <1>1, <1>2, <1>4 DEF Raised, SetHeight, Nodes, Fields
<1> HIDE DEF g
<1>7. p # NULL => g[p] = m0[p]
  BY <1>1, <1>2, <1>6 DEF Framed, Links
<1>8. fl = "none" => Hung(g, D, p, n)
  BY <1>1, <1>3, <1>4, <1>6, SameHung
<1>9. s \in Results /\ s.m = g /\ s.flaw = fl /\ fl # "null"
  BY <1>6 DEF Results
<1> HIDE DEF s
<1>10. Returned(m0, Settle(n, s), D, p, n)
  BY <1>1, <1>5, <1>6, <1>7, <1>8, <1>9, SettleReturns DEF IsChild
<1> QED
  BY <1>10 DEF s, g, D

\* The call for the child made the new node.
LEMMA ClimbFromNew ==
    ASSUME NEW m0, NEW L, NEW sub, NEW k, NEW n, Grows(m0, L, sub, k, n, NULL),
           NEW p, p = m0[n].parent, p # NULL => IsChild(m0, p, n)
    PROVE  Returned(m0, Climb(k, n, [m |-> [m0 EXCEPT ![k] = NewNode(k)],
                                     outcome |-> "inserted", flaw |-> "none"]),
                    sub[n] \cup {k}, p, n)
<1> DEFINE new == [m0 EXCEPT ![k] = NewNode(k)]
           side == Side(k, n)
           m == [new EXCEPT ![n][side] = k, ![k].parent = n]
           higher == m[n].height <= m[k].height
<1>1. /\ m0 \in Nodes /\ n \in Keys /\ k \in Keys /\ k # n /\ NULL \notin Keys
      /\ side \in {"left", "right"} /\ m0[n][side] = NULL
  BY GrowsFacts, KeysAreNat DEF Grows, Side
<1>2. /\ NewNode(k) \in Fields
      /\ NewNode(k).left = NULL /\ NewNode(k).right = NULL /\ NewNode(k).data = k
  <2>1. Blank \in Fields /\ Blank.left = NULL /\ Blank.right = NULL /\ k \in Links
    BY <1>1 DEF Blank, Fields, Links
  <2> QED
    BY <2>1 DEF NewNode, Fields
<1>3. new \in Nodes /\ new[k] = NewNode(k) /\ \A y \in Keys \ {k} : new[y] = m0[y]
  BY <1>1, <1>2 DEF Nodes
<1> HIDE DEF new
<1>4. /\ m \in Nodes
      /\ m[k] = [NewNode(k) EXCEPT !.parent = n]
      /\ m[n] = [m0[n] EXCEPT ![side] = k]
      /\ \A y \in Keys \ {k, n} : m[y] = m0[y]
  <2>1. CASE side = "left"
    BY <1>1, <1>2, <1>3, <2>1 DEF Nodes, Fields, Links
  <2>2. CASE side = "right"
    BY <1>1, <1>2, <1>3, <2>2 DEF Nodes, Fields, Links
  <2> QED
    BY <1>1, <2>1, <2>2
<1>5. m[n][side] = k
  BY <1>1, <1>4 DEF Nodes, Fields
<1>6. Climb(k, n, [m |-> new, outcome |-> "inserted", flaw |-> "none"]) =
          Settle(n, [m |-> Raised(m, n, k, higher), outcome |-> "no_op", flaw |-> "none"])
  BY <1>5 DEF Climb, Raised, SetHeight
<1> HIDE DEF m
<1>7. /\ m[k].parent = n /\ m[k].left = NULL /\ m[k].right = NULL /\ m[k].data = k
      /\ m[n].parent = m0[n].parent /\ m[n].data = m0[n].data
      /\ m[n][Other(side)] = m0[n][Other(side)]
      /\ m[n].left \in {k, m0[n].left} /\ m[n].right \in {k, m0[n].right}
  <2>1. m0[n] \in Fields
    BY <1>1 DEF Nodes
  <2>2. CASE side = "left"
    BY <1>2, <1>4, <2>1, <2>2 DEF Fields, Other
  <2>3. CASE side = "right"
    BY <1>2, <1>4, <2>1, <2>3 DEF Fields, Other
  <2> QED
    BY <1>1, <2>2, <2>3
<1>8. Framed(m0, m, {k}, n)
  BY <1>1, <1>4, <1>7 DEF Framed, Closed, Links
<1>9. Hung(m, {k}, n, k)
  <2> DEFINE one == [y \in {k} |-> {k}]
  <2>1. NodeOK(m, {k}, one, k)
    BY <1>7 DEF NodeOK, Below
  <2>2. Shape(m, {k}, one) /\ one[k] = {k}
    BY <2>1 DEF Shape
  <2> HIDE DEF one
  <2> QED
    BY <1>7, <2>2 DEF Hung
<1>10. Below(sub, NULL) \cup {k} = {k}
  BY DEF Below
<1> HIDE DEF higher
<1>11. higher \in BOOLEAN
  BY DEF higher
<1> QED
  <2>1. Returned(m0, Settle(n, [m |-> Raised(m, n, k, higher), outcome |-> "no_op",
                             flaw |-> "none"]),
                 sub[n] \cup {k}, p, n)
    <3>1. /\ Framed(m0, m, Below(sub, NULL) \cup {k}, n) /\ k \in Below(sub, NULL) \cup {k}
          /\ Hung(m, Below(sub, NULL) \cup {k}, n, k)
      BY <1>8, <1>9, <1>10
    <3>2. \E t : /\ Hung(m, Below(sub, NULL) \cup {k}, n, t) /\ m[n][side] = t
                 /\ m[n][Other(side)] = m0[n][Other(side)]
      BY <1>5, <1>7, <3>1
    <3> QED
      BY <1>11, <3>1, <3>2, RaisedSettles
  <2> QED
    BY <1>6, <2>1 DEF new

\* It returned from below.
LEMMA ClimbIs ==
    ASSUME NEW k, NEW n, NEW s, s.flaw # "null", s.outcome # "inserted"
    PROVE  \E higher \in BOOLEAN :
               Climb(k, n, s) = Settle(n, [m |-> Raised(s.m, n, s.m[n][Side(k, n)], higher),
                                           outcome |-> s.outcome, flaw |-> s.flaw])
<1> DEFINE child == s.m[n][Side(k, n)]
           lower == s.m[n].height <= s.m[child].height
           turned == Side(k, n) = "right" /\ s.outcome = "rebalance"
           result(h) == [m |-> Raised(s.m, n, child, h), outcome |-> s.outcome, flaw |-> s.flaw]
<1>1. ASSUME lower \/ turned PROVE Climb(k, n, s) = Settle(n, result(TRUE))
  BY <1>1 DEF Climb, Raised, SetHeight
<1>2. ASSUME ~lower, ~turned PROVE Climb(k, n, s) = Settle(n, result(FALSE))
  <2>1. turned = FALSE
    BY <1>2
  <2> QED
    BY <1>2, <2>1 DEF Climb, Raised
<1> HIDE DEF lower, turned
<1>3. Climb(k, n, s) = Settle(n, result(TRUE)) \/ Climb(k, n, s) = Settle(n, result(FALSE))
  BY <1>1, <1>2
<1> QED
  BY <1>3

\* So the call for n returns what it should when the one for its child has.
LEMMA ClimbFromChild ==
    ASSUME NEW m0, NEW L, NEW sub, NEW k, NEW n, NEW c \in L, Grows(m0, L, sub, k, n, c),
           NEW p, p = m0[n].parent, p # NULL => IsChild(m0, p, n),
           NEW s, Returned(m0, s, sub[c] \cup {k}, n, c)
    PROVE  Returned(m0, Climb(k, n, s), sub[n] \cup {k}, p, n)
<1> DEFINE D1 == Below(sub, c) \cup {k}
           side == Side(k, n)
           child == s.m[n][side]
<1>1. /\ n \in Keys /\ n # NULL /\ c # NULL /\ D1 = sub[c] \cup {k} /\ side \in {"left", "right"}
      /\ c = m0[n][side]
  BY KeysAreNat DEF Below, Grows, Side
<1>2. /\ s \in Results
      /\ s.flaw # "null" => Framed(m0, s.m, D1, n)
      /\ s.flaw = "none" => Rehung(m0, s.m, D1, n, c)
  BY <1>1 DEF Returned, Placed
<1>3. CASE s.flaw = "null"
  BY <1>2, <1>3 DEF Climb, Returned
<1>4. CASE s.flaw # "null"
  <2>1. s.outcome # "inserted"
    BY <1>2 DEF Results
  <2>2. child \in D1
    <3>1. s.m[n].left \in D1 \cup {m0[n].left} /\ s.m[n].right \in D1 \cup {m0[n].right}
      BY <1>1, <1>2, <1>4 DEF Framed
    <3>2. c \in sub[c]
      BY DEF Grows, Shape, NodeOK
    <3> QED
      BY <1>1, <3>1, <3>2
  <2>3. PICK higher \in BOOLEAN :
            Climb(k, n, s) = Settle(n, [m |-> Raised(s.m, n, child, higher),
                                        outcome |-> s.outcome, flaw |-> s.flaw])
    BY <1>4, <2>1, ClimbIs
  <2>4. ASSUME s.flaw = "none"
        PROVE  \E t : /\ Hung(s.m, D1, n, t)
                      /\ s.m[n][side] = t
                      /\ s.m[n][Other(side)] = m0[n][Other(side)]
    <3>1. PICK t, z : /\ Hung(s.m, D1, n, t)
                      /\ z \in {"left", "right"} /\ m0[n][z] = c
                      /\ s.m[n][z] = t /\ s.m[n][Other(z)] = m0[n][Other(z)]
      BY <1>2, <2>4 DEF Rehung
    <3>2. NodeOK(m0, L, sub, n) /\ c \in sub[c]
      BY DEF Grows, Shape, NodeOK
    <3>3. m0[n].left # m0[n].right
      <4>1. ASSUME m0[n].left = c, m0[n].right = c PROVE FALSE
        <5>1. c \in Int /\ n \in Int /\ c < n /\ n < c
          BY <1>1, <3>2, <4>1, KeysAreNat DEF NodeOK, Below, Grows
        <5> QED
          BY <5>1
      <4> QED
        BY <1>1, <4>1
    <3>4. z = side
      BY <1>1, <3>1, <3>3
    <3> QED
      BY <3>1, <3>4
  <2>5. s.flaw \in {"none", "rotation"} /\ s.outcome \in {"no_op", "rebalance"}
    BY <1>2, <1>4 DEF Results
  <2> HIDE DEF child
  <2>6. Returned(m0, Settle(n, [m |-> Raised(s.m, n, child, higher), outcome |-> s.outcome,
                                flaw |-> s.flaw]), sub[n] \cup {k}, p, n)
    BY <1>2, <1>4, <2>2, <2>4, <2>5, RaisedSettles
  <2> QED
    BY <2>3, <2>6
<1> QED
  BY <1>3, <1>4

-----------------------------------------------------------------------------
(* Recursion on the links of the tree there is.                                *)

\* The nodes of the state are the tree sub, and the others are blank.
Tree(sub) ==
    /\ node \in Nodes /\ live \in SUBSET Keys /\ Shape(node, live, sub)
    /\ \A y \in Keys \ live : node[y] = Blank

Children(x) == {node[x].left, node[x].right}

\* Induction on the links: what holds of NULL, and of a node when it holds of both of
\* its children, holds of every link.  It is stated of a set of sets of links.
LEMMA TreeInduction ==
    ASSUME NEW sub, Tree(sub), NEW U, {NULL} \in U,
           \A W \in SUBSET Links : \A x \in Keys \ W :
               NULL \in W /\ W \in U /\ Children(x) \subseteq W => W \cup {x} \in U
    PROVE  Links \in U
<1> DEFINE V == {Links \ W : W \in {X \in SUBSET Links : X \in U /\ NULL \in X}}
<1>1. IsFiniteSet(Links)
  BY TreeAssumption, FS_AddElement DEF Links
<1>2. FiniteSubsetsOf(Links) = SUBSET Links
  BY <1>1, FS_FiniteSubsetsOfFinite
<1>3. IsWellFoundedOn(StrictSubsetOrdering(Links), SUBSET Links)
  BY <1>2, FS_StrictSubsetOrderingWellFounded
<1>4. V \subseteq SUBSET Links /\ Links \ {NULL} \in V
  BY DEF Links
<1> HIDE DEF V
<1>5. \E v \in V : \A z \in V : ~ (<<z, v>> \in StrictSubsetOrdering(Links))
  <2>1. V # {}
    BY <1>4
  <2> QED
    BY <1>3, <1>4, <2>1, WFMin, Zenon
<1>6. PICK W \in SUBSET Links :
          /\ W \in U /\ NULL \in W
          /\ \A z \in V : ~ (<<z, Links \ W>> \in StrictSubsetOrdering(Links))
  BY <1>5 DEF V
<1>7. SUFFICES ASSUME W # Links PROVE FALSE
  BY <1>6
<1>8. \E x \in Keys \ W : Children(x) \subseteq W
  <2>1. CASE live \subseteq W
    <3>1. PICK x \in Keys \ W : x \notin live
      BY <1>6, <1>7, <2>1 DEF Links
    <3>2. Children(x) = {NULL}
      BY <3>1 DEF Tree, Children, Blank
    <3> QED
      BY <1>6, <3>2
  <2>2. CASE ~(live \subseteq W)
    <3> DEFINE T == live \ W
    <3>1. /\ node \in Nodes /\ live \in SUBSET Keys /\ Shape(node, live, sub)
          /\ sub \in [live -> SUBSET live]
      BY DEF Tree, Shape
    <3>2. T # {} /\ T \in SUBSET live
      BY <2>2
    <3>3. PICK x \in T : \A y \in T : sub[y] \subseteq sub[x] => sub[y] = sub[x]
      <4> HIDE DEF T
      <4> QED
        BY <3>1, <3>2, SmallestSubtree
    <3>4. ASSUME NEW c, IsChild(node, x, c) PROVE c \in W
      <4>1. x \in live
        OBVIOUS
      <4>2. c \in live
        BY <3>1, <3>4, <4>1, ChildInTree
      <4>3. sub[c] \subseteq sub[x] /\ x \in sub[x] /\ x \notin sub[c]
        BY <3>1, <3>4, <4>1, ChildBelow
      <4> QED
        BY <3>3, <4>2, <4>3
    <3>5. x \in Keys \ W /\ node[x].left \in Links /\ node[x].right \in Links
      BY <3>1 DEF Nodes, Fields
    <3> QED
      BY <1>6, <3>4, <3>5 DEF Children, IsChild, Links
  <2> QED
    BY <2>1, <2>2
<1>9. PICK x \in Keys \ W : Children(x) \subseteq W
  BY <1>8
<1>10. W \cup {x} \in U
  BY <1>6, <1>9
<1>11. Links \ (W \cup {x}) \in V
  BY <1>6, <1>10 DEF V, Links
<1>12. <<Links \ (W \cup {x}), Links \ W>> \in StrictSubsetOrdering(Links)
  BY <1>9 DEF StrictSubsetOrdering, Links
<1> QED
  BY <1>6, <1>11, <1>12

\* All fields that hold links hold links.
LEMMA TreeLinks ==
    ASSUME NEW sub, Tree(sub), NEW x \in Keys
    PROVE  /\ node[x].left \in Links /\ node[x].right \in Links /\ node[x].parent \in Links
           /\ \A k : node[x][Side(k, x)] \in Children(x)
  BY DEF Tree, Nodes, Fields, Side, Children

\* insert_into_tree
Leaf(k) == [m |-> [node EXCEPT ![k] = NewNode(k)], outcome |-> "inserted", flaw |-> "none"]

InsertedBy(f, k, W) ==
    f = [x \in W |-> IF x = NULL THEN Leaf(k) ELSE Climb(k, x, f[node[x][Side(k, x)]])]

\* The recursive function of InsertInto exists, which is what its equation takes.
LEMMA InsertIntoIs ==
    ASSUME NEW sub, Tree(sub), NEW k
    PROVE  InsertedBy(InsertInto(k), k, Links)
<1> DEFINE U == {W \in SUBSET Links : /\ \A x \in W \ {NULL} : Children(x) \subseteq W
                                     /\ \E f : InsertedBy(f, k, W)}
<1>1. {NULL} \in U
  <2>1. InsertedBy([x \in {NULL} |-> Leaf(k)], k, {NULL})
    BY DEF InsertedBy
  <2> QED
    BY <2>1 DEF Links
<1>2. ASSUME NEW W \in SUBSET Links, NEW x \in Keys \ W,
             W \in U, NULL \in W, Children(x) \subseteq W
      PROVE  W \cup {x} \in U
  <2>1. PICK f : InsertedBy(f, k, W)
    BY <1>2
  <2> DEFINE c == node[x][Side(k, x)]
             g == [y \in W \cup {x} |-> IF y = x THEN Climb(k, x, f[c]) ELSE f[y]]
  <2>2. c \in W /\ x # NULL
    BY <1>2, TreeLinks, KeysAreNat
  <2>3. \A y \in W \ {NULL} : node[y][Side(k, y)] \in W
    BY <1>2, TreeLinks DEF Links
  <2>4. \A y \in W : g[y] = IF y = NULL THEN Leaf(k) ELSE Climb(k, y, g[node[y][Side(k, y)]])
    <3>1. \A y \in W : g[y] = f[y]
      OBVIOUS
    <3>2. \A y \in W : f[y] = IF y = NULL THEN Leaf(k) ELSE Climb(k, y, f[node[y][Side(k, y)]])
      BY <2>1 DEF InsertedBy
    <3> HIDE DEF g
    <3> QED
      BY <2>3, <3>1, <3>2
  <2>5. g[x] = Climb(k, x, g[c])
    BY <1>2, <2>2
  <2>6. g = [y \in W \cup {x} |-> g[y]]
    OBVIOUS
  <2> HIDE DEF g
  <2>7. InsertedBy(g, k, W \cup {x})
    BY <2>2, <2>4, <2>5, <2>6 DEF InsertedBy
  <2>8. W \cup {x} \in SUBSET Links
    BY DEF Links
  <2> QED
    BY <1>2, <2>7, <2>8
<1>3. Links \in U
  <2> HIDE DEF U
  <2> QED
    BY <1>1, <1>2, TreeInduction
<1>4. PICK f : InsertedBy(f, k, Links)
  BY <1>3
<1>5. InsertInto(k) = CHOOSE g : InsertedBy(g, k, Links)
  BY DEF InsertInto, InsertedBy, Leaf
<1>6. InsertedBy(CHOOSE g : InsertedBy(g, k, Links), k, Links)
  BY <1>4
<1> QED
  BY <1>5, <1>6

\* The whole tree, with root on top.
TreeOf(sub) ==
    /\ Tree(sub)
    /\ IF root = NULL THEN live = {}
       ELSE root \in live /\ sub[root] = live /\ node[root].parent = NULL

\* The parts of Tree that are constant-level facts.
LEMMA TreeFacts ==
    ASSUME NEW sub, Tree(sub)
    PROVE  node \in Nodes /\ live \in SUBSET Keys /\ Shape(node, live, sub) /\ NULL \notin live
  BY KeysAreNat DEF Tree

\* Of the parent of a node.
LEMMA ParentOf ==
    ASSUME NEW sub, TreeOf(sub), NEW x \in live
    PROVE  IF x = root THEN node[x].parent = NULL
           ELSE /\ node[x].parent \in live /\ node[x].parent \notin sub[x]
                /\ IsChild(node, node[x].parent, x)
<1>1. /\ node \in Nodes /\ live \in SUBSET Keys /\ Shape(node, live, sub) /\ NULL \notin live
      /\ root \in live /\ sub[root] = live /\ node[root].parent = NULL
  BY TreeFacts DEF TreeOf
<1>2. ASSUME x # root PROVE node[x].parent \in live /\ IsChild(node, node[x].parent, x)
  BY <1>1, <1>2, EveryNodeHasParent
<1>3. ASSUME x # root PROVE node[x].parent \notin sub[x]
  <2>1. PICK p \in live : p = node[x].parent /\ IsChild(node, p, x)
    BY <1>2, <1>3
  <2>2. node \in Nodes /\ live \in SUBSET Keys /\ Shape(node, live, sub)
    BY <1>1
  <2>3. p \notin sub[x]
    BY ONLY <2>1, <2>2, ChildBelow
  <2> QED
    BY <2>1, <2>3
<1> QED
  BY <1>1, <1>2, <1>3

-----------------------------------------------------------------------------
(* find_node                                                                   *)

\* A key that is below x is below the child on its side.
LEMMA WayDown ==
    ASSUME NEW sub, Tree(sub), NEW k \in Keys, NEW x \in live, x # k
    PROVE  /\ node[x][Side(k, x)] \in live \cup {NULL}
           /\ k \in sub[x] <=> k \in Below(sub, node[x][Side(k, x)])
<1>1. node \in Nodes /\ live \in SUBSET Keys /\ NodeOK(node, live, sub, x)
  BY TreeFacts DEF Shape
<1>2. k \in Int /\ x \in Int
  BY <1>1, KeysAreNat
<1>3. CASE k > x
  <2>1. node[x][Side(k, x)] = node[x].right /\ k \notin Below(sub, node[x].left)
    BY <1>1, <1>2, <1>3 DEF Side, NodeOK
  <2> QED
    BY <1>1, <2>1 DEF NodeOK
<1>4. CASE ~(k > x)
  <2>1. node[x][Side(k, x)] = node[x].left /\ k \notin Below(sub, node[x].right)
    BY <1>1, <1>2, <1>4 DEF Side, NodeOK
  <2> QED
    BY <1>1, <2>1 DEF NodeOK
<1> QED
  BY <1>3, <1>4

FoundBy(f, k) ==
    f = [x \in Links |-> IF x \in {k, NULL} THEN x ELSE f[node[x][Side(k, x)]]]

\* find_node finds exactly the keys of the nodes.
LEMMA FindNodeIs ==
    ASSUME NEW sub, TreeOf(sub), NEW k \in Keys
    PROVE  FindNode(k) <=> k \in live
<1>1. Tree(sub) /\ k # NULL
  BY KeysAreNat DEF TreeOf
<1> DEFINE g == [x \in Links |-> IF x \in {k, NULL} THEN x
                                ELSE IF x \in live /\ k \in sub[x] THEN k ELSE NULL]
<1>2. FoundBy(g, k)
  <2> SUFFICES ASSUME NEW x \in Links, x \notin {k, NULL}
               PROVE  g[x] = g[node[x][Side(k, x)]]
    BY DEF FoundBy
  <2>1. CASE x \in live
    <3>1. /\ node[x][Side(k, x)] \in live \cup {NULL}
          /\ k \in sub[x] <=> k \in Below(sub, node[x][Side(k, x)])
      BY <1>1, <2>1, WayDown
    <3>2. CASE node[x][Side(k, x)] = NULL
      BY <2>1, <3>1, <3>2 DEF Below, Links
    <3>3. CASE node[x][Side(k, x)] = k
      <4>1. k \in live => k \in sub[k]
        BY <1>1 DEF Tree, Shape, NodeOK
      <4> QED
        BY <1>1, <2>1, <3>1, <3>3, <4>1 DEF Below, Links
    <3>4. CASE node[x][Side(k, x)] \notin {k, NULL}
      <4>1. node[x][Side(k, x)] \in Links
        BY <1>1, <3>1 DEF Tree, Links
      <4> QED
        BY <2>1, <3>1, <3>4, <4>1 DEF Below
    <3> QED
      BY <3>2, <3>3, <3>4
  <2>2. CASE x \notin live
    <3>1. node[x] = Blank
      BY <1>1, <2>2 DEF Tree, Links
    <3>2. node[x][Side(k, x)] = NULL
      BY <3>1 DEF Blank, Side
    <3> QED
      BY <2>2, <3>2 DEF Links
  <2> QED
    BY <2>1, <2>2
<1> DEFINE f == CHOOSE h : FoundBy(h, k)
<1>3. FoundBy(f, k)
  BY <1>2
<1>4. FindNode(k) <=> f[root] # NULL
  BY DEF FindNode, FoundBy
<1> HIDE DEF f
<1>5. Links \in {W \in SUBSET Links : \A x \in W \cap (live \cup {NULL}) : f[x] = g[x]}
  <2> DEFINE U == {W \in SUBSET Links : \A x \in W \cap (live \cup {NULL}) : f[x] = g[x]}
  <2> HIDE DEF g
  <2>1. \A x \in Links : /\ f[x] = IF x \in {k, NULL} THEN x ELSE f[node[x][Side(k, x)]]
                         /\ g[x] = IF x \in {k, NULL} THEN x ELSE g[node[x][Side(k, x)]]
    BY <1>2, <1>3 DEF FoundBy
  <2>2. {NULL} \in U
    BY <2>1 DEF Links
  <2>3. ASSUME NEW W \in SUBSET Links, NEW x \in Keys \ W,
             W \in U, NULL \in W, Children(x) \subseteq W
        PROVE  W \cup {x} \in U
    <3>1. ASSUME x \in live PROVE f[x] = g[x]
      <4>1. CASE x = k
        BY <2>1, <4>1 DEF Links
      <4>2. CASE x # k
        <5>1. node[x][Side(k, x)] \in W \cap (live \cup {NULL})
          BY <1>1, <2>3, <3>1, <4>2, WayDown, TreeLinks
        <5>2. f[node[x][Side(k, x)]] = g[node[x][Side(k, x)]]
          BY <2>3, <5>1
        <5> QED
          BY <2>1, <5>2, <4>2 DEF Links
      <4> QED
        BY <4>1, <4>2
    <3> QED
      BY <2>3, <3>1, KeysAreNat DEF Links
  <2> HIDE DEF U
  <2>4. Links \in U
    BY <1>1, <2>2, <2>3, TreeInduction
  <2> QED
    BY <2>4 DEF U
<1>6. CASE root = NULL
  BY <1>4, <1>5, <1>6 DEF TreeOf, Links
<1>7. CASE root # NULL
  <2>1. root \in live /\ root \in Links /\ f[root] = g[root] /\ sub[root] = live
    BY <1>5, <1>7 DEF TreeOf, Tree, Links
  <2> QED
    BY <1>1, <1>4, <1>7, <2>1
<1> QED
  BY <1>6, <1>7

-----------------------------------------------------------------------------
(* clear_tree                                                                  *)

ReachedBy(f) ==
    f = [x \in Links |-> IF x = NULL THEN {} ELSE {x} \cup f[node[x].left] \cup f[node[x].right]]

\* clear_tree frees every node.
LEMMA ReachableIs ==
    ASSUME NEW sub, TreeOf(sub)
    PROVE  Reachable = live
<1>1. Tree(sub) /\ node \in Nodes /\ Shape(node, live, sub) /\ live \in SUBSET Keys
  BY TreeFacts DEF TreeOf
<1> DEFINE g == [x \in Links |-> IF x = NULL THEN {} ELSE IF x \in live THEN sub[x] ELSE {x}]
<1>2. ReachedBy(g)
  <2> SUFFICES ASSUME NEW x \in Links, x # NULL
               PROVE  g[x] = {x} \cup g[node[x].left] \cup g[node[x].right]
    BY DEF ReachedBy
  <2>1. CASE x \in live
    <3>1. NodeOK(node, live, sub, x)
      BY <1>1, <2>1 DEF Shape
    <3>2. \A c \in live \cup {NULL} : g[c] = Below(sub, c)
      BY <1>1 DEF Below, Links
    <3> QED
      BY <2>1, <3>1, <3>2 DEF NodeOK
  <2>2. CASE x \notin live
    <3>1. node[x] = Blank
      BY <1>1, <2>2 DEF Tree, Links
    <3> QED
      BY <2>2, <3>1 DEF Blank, Links
  <2> QED
    BY <2>1, <2>2
<1> DEFINE f == CHOOSE h : ReachedBy(h)
<1>3. ReachedBy(f)
  BY <1>2
<1>4. Reachable = f[root]
  BY DEF Reachable, ReachedBy
<1> HIDE DEF f
<1>5. \A x \in Links : f[x] = g[x]
  <2> DEFINE U == {W \in SUBSET Links : \A x \in W : f[x] = g[x]}
  <2> HIDE DEF g
  <2>1. \A x \in Links :
            /\ f[x] = IF x = NULL THEN {} ELSE {x} \cup f[node[x].left] \cup f[node[x].right]
            /\ g[x] = IF x = NULL THEN {} ELSE {x} \cup g[node[x].left] \cup g[node[x].right]
    BY <1>2, <1>3 DEF ReachedBy
  <2>2. {NULL} \in U
    BY <2>1 DEF Links
  <2>3. ASSUME NEW W \in SUBSET Links, NEW x \in Keys \ W,
             W \in U, NULL \in W, Children(x) \subseteq W
        PROVE  W \cup {x} \in U
    <3>1. x \in Links /\ node[x].left \in W /\ node[x].right \in W
      BY <2>3 DEF Links, Children
    <3>2. f[x] = g[x]
      BY <2>1, <2>3, <3>1
    <3> QED
      BY <2>3, <3>1, <3>2
  <2> HIDE DEF U
  <2>4. Links \in U
    BY <1>1, <2>2, <2>3, TreeInduction
  <2> QED
    BY <2>4 DEF U
<1> QED
  BY <1>1, <1>4, <1>5 DEF TreeOf, Links

-----------------------------------------------------------------------------
(* the smallest node of a subtree                                              *)

LeftmostBy(f, W) == f = [x \in W |-> IF node[x].left = NULL THEN x ELSE f[node[x].left]]

Leftmost == CHOOSE f : LeftmostBy(f, Keys)

\* The walk down the left links of RemoveForSuccessor ends at a node.
LEMMA LeftmostIsNode ==
    ASSUME NEW sub, Tree(sub), NEW n \in Keys
    PROVE  Leftmost[n] \in Keys
<1> DEFINE U == {W \in SUBSET Links : /\ \A x \in W \ {NULL} : Children(x) \subseteq W
                                     /\ \E f : LeftmostBy(f, W \ {NULL}) /\ f \in [W \ {NULL} -> Keys]}
<1>0. NULL \notin Keys /\ Links \ {NULL} = Keys
  BY KeysAreNat DEF Links
<1>1. {NULL} \in U
  <2> DEFINE none == [x \in {} |-> x]
  <2>1. LeftmostBy(none, {NULL} \ {NULL}) /\ none \in [{NULL} \ {NULL} -> Keys]
    BY DEF LeftmostBy
  <2> HIDE DEF none
  <2> QED
    BY <2>1 DEF Links
<1>2. ASSUME NEW W \in SUBSET Links, NEW x \in Keys \ W,
             W \in U, NULL \in W, Children(x) \subseteq W
      PROVE  W \cup {x} \in U
  <2>1. PICK f : LeftmostBy(f, W \ {NULL}) /\ f \in [W \ {NULL} -> Keys]
    BY <1>2
  <2> DEFINE D == W \ {NULL}
             c == node[x].left
             g == [y \in D \cup {x} |-> IF y = x THEN IF c = NULL THEN x ELSE f[c] ELSE f[y]]
  <2>2. c \in W /\ x # NULL /\ (W \cup {x}) \ {NULL} = D \cup {x}
    BY <1>0, <1>2 DEF Children
  <2>3. \A y \in D : node[y].left \in W
    BY <1>2 DEF Children
  <2>4. \A y \in D : g[y] = IF node[y].left = NULL THEN y ELSE g[node[y].left]
    <3>1. \A y \in D : g[y] = f[y]
      BY <1>2
    <3>2. \A y \in D : f[y] = IF node[y].left = NULL THEN y ELSE f[node[y].left]
      BY <2>1 DEF LeftmostBy
    <3> HIDE DEF g
    <3> QED
      BY <2>3, <3>1, <3>2
  <2>5. g[x] = IF c = NULL THEN x ELSE g[c]
    BY <1>2, <2>2
  <2>6. g = [y \in D \cup {x} |-> g[y]]
    OBVIOUS
  <2>7. g \in [D \cup {x} -> Keys]
    BY <2>1, <2>2
  <2> HIDE DEF g
  <2>8. LeftmostBy(g, D \cup {x})
    BY <2>4, <2>5, <2>6 DEF LeftmostBy
  <2>9. W \cup {x} \in SUBSET Links
    BY DEF Links
  <2> QED
    BY <1>2, <2>2, <2>7, <2>8, <2>9
<1>3. Links \in U
  <2> HIDE DEF U
  <2> QED
    BY <1>1, <1>2, TreeInduction
<1>4. PICK f : LeftmostBy(f, Keys)
  BY <1>0, <1>3
<1>5. LeftmostBy(Leftmost, Keys)
  BY <1>4 DEF Leftmost
<1>6. Links \in {W \in SUBSET Links : \A x \in W \ {NULL} : Leftmost[x] \in Keys}
  <2> DEFINE V == {W \in SUBSET Links : \A x \in W \ {NULL} : Leftmost[x] \in Keys}
  <2>1. {NULL} \in V
    BY DEF Links
  <2>2. ASSUME NEW W \in SUBSET Links, NEW x \in Keys \ W,
             W \in V, NULL \in W, Children(x) \subseteq W
        PROVE  W \cup {x} \in V
    <3>1. Leftmost[x] = IF node[x].left = NULL THEN x ELSE Leftmost[node[x].left]
      BY <1>5 DEF LeftmostBy
    <3>2. Leftmost[x] \in Keys
      BY <2>2, <3>1 DEF Children
    <3> QED
      BY <2>2, <3>2 DEF Links
  <2> HIDE DEF V
  <2>3. Links \in V
    BY <2>1, <2>2, TreeInduction
  <2> QED
    BY <2>3 DEF V
<1> QED
  BY <1>0, <1>6

-----------------------------------------------------------------------------
(* What the call of insert_into_tree for a node of the tree returns.           *)

\* Each node of the tree is in the case of ClimbFromNew or ClimbFromChild.
LEMMA GrowsHere ==
    ASSUME NEW sub, TreeOf(sub), NEW k \in Keys \ live, NEW x \in live
    PROVE  /\ Grows(node, live, sub, k, x, node[x][Side(k, x)])
           /\ node[x].parent # NULL => IsChild(node, node[x].parent, x)
           /\ node[x][Side(k, x)] \in live \cup {NULL}
           /\ node[x][Side(k, x)] # NULL => node[node[x][Side(k, x)]].parent = x
<1>1. node \in Nodes /\ live \in SUBSET Keys /\ Shape(node, live, sub) /\ NULL \notin live
  BY TreeFacts DEF TreeOf
<1>2. IF x = root THEN node[x].parent = NULL
      ELSE /\ node[x].parent \in live /\ node[x].parent \notin sub[x]
           /\ IsChild(node, node[x].parent, x)
  BY ParentOf
<1>3. sub[x] \subseteq live /\ NodeOK(node, live, sub, x)
  BY <1>1 DEF Shape
<1>4. node[x].parent \in Links /\ node[x].parent \notin sub[x] \cup {k}
  BY <1>1, <1>2, <1>3, KeysAreNat DEF Links
<1> QED
  BY <1>1, <1>2, <1>3, <1>4 DEF Grows, Side, NodeOK

\* By induction on the links, every call of insert_into_tree returns as it should.
LEMMA InsertReturned ==
    ASSUME NEW sub, TreeOf(sub), NEW k \in Keys \ live
    PROVE  \A x \in live : Returned(node, InsertInto(k)[x], sub[x] \cup {k}, node[x].parent, x)
<1> DEFINE Good(x) == Returned(node, InsertInto(k)[x], sub[x] \cup {k}, node[x].parent, x)
           U == {W \in SUBSET Links : \A x \in W \cap live : Good(x)}
<1>1. Tree(sub) /\ NULL \notin live /\ live \in SUBSET Keys
  BY TreeFacts DEF TreeOf
<1>2. \A x \in Links : InsertInto(k)[x] =
          IF x = NULL THEN Leaf(k) ELSE Climb(k, x, InsertInto(k)[node[x][Side(k, x)]])
  <2> DEFINE f == InsertInto(k)
  <2>1. InsertedBy(f, k, Links)
    BY <1>1, InsertIntoIs
  <2> HIDE DEF f
  <2>2. \A x \in Links : f[x] = IF x = NULL THEN Leaf(k) ELSE Climb(k, x, f[node[x][Side(k, x)]])
    BY <2>1 DEF InsertedBy
  <2> QED
    BY <2>2 DEF f
<1>3. {NULL} \in U
  BY <1>1 DEF Links
<1>4. ASSUME NEW W \in SUBSET Links, NEW x \in Keys \ W,
             W \in U, NULL \in W, Children(x) \subseteq W
      PROVE  W \cup {x} \in U
  <2>1. ASSUME x \in live PROVE Good(x)
    <3> DEFINE c == node[x][Side(k, x)]
               p == node[x].parent
    <3>1. /\ Grows(node, live, sub, k, x, c)
          /\ p # NULL => IsChild(node, p, x)
          /\ c \in live \cup {NULL}
          /\ c # NULL => node[c].parent = x
      BY <2>1, GrowsHere
    <3>2. c \in W /\ x # NULL /\ x \in Links
      BY <1>1, <1>4, TreeLinks DEF Links
    <3>3. InsertInto(k)[x] = Climb(k, x, InsertInto(k)[c])
      BY <1>2, <3>2
    <3>4. CASE c = NULL
      <4>1. InsertInto(k)[c] = Leaf(k)
        BY <1>2, <3>4 DEF Links
      <4>2. Grows(node, live, sub, k, x, NULL)
        BY <3>1, <3>4
      <4> HIDE DEF c, p
      <4>3. Returned(node, Climb(k, x, Leaf(k)), sub[x] \cup {k}, p, x)
        BY <3>1, <4>2, ClimbFromNew DEF Leaf, p
      <4> QED
        BY <3>3, <4>1, <4>3 DEF p
    <3>5. CASE c # NULL
      <4>1. c \in live /\ node[c].parent = x
        BY <3>1, <3>5
      <4>2. Returned(node, InsertInto(k)[c], sub[c] \cup {k}, x, c)
        <5>1. Good(c)
          BY <1>4, <3>2, <4>1
        <5> QED
          BY <4>1, <5>1
      <4> DEFINE s == InsertInto(k)[c]
      <4>3. p = node[x].parent /\ Returned(node, s, sub[c] \cup {k}, x, c)
        BY <4>2
      <4> HIDE DEF c, s, p
      <4>4. Returned(node, Climb(k, x, s), sub[x] \cup {k}, p, x)
        BY ONLY <3>1, <4>1, <4>3, ClimbFromChild
      <4> QED
        BY <3>3, <4>4 DEF s, p
    <3> QED
      BY <3>4, <3>5
  <2>2. W \cup {x} \in SUBSET Links
    BY DEF Links
  <2> HIDE DEF Good
  <2> QED
    BY <1>4, <2>1, <2>2
<1>5. Links \in U
  <2> HIDE DEF U
  <2> QED
    BY <1>1, <1>3, <1>4, TreeInduction
<1> QED
  BY <1>1, <1>5 DEF Links

-----------------------------------------------------------------------------
(* A tree as the state holds it: the nodes m of the keys, of which L are       *)
(* allocated, with r on top.                                                   *)

Held(m, r, L, sub) ==
    /\ m \in Nodes /\ L \in SUBSET Keys /\ Shape(m, L, sub)
    /\ \A y \in Keys \ L : m[y] = Blank
    /\ IF r = NULL THEN L = {} ELSE r \in L /\ sub[r] = L /\ m[r].parent = NULL

HoldsTree(m, r, L) == \E sub : Held(m, r, L, sub)

\* The same of the state.
LEMMA TreeHeld == \A sub : TreeOf(sub) <=> Held(node, root, live, sub)
  BY DEF TreeOf, Tree, Held

\* No node is a tree.
LEMMA EmptyHeld == HoldsTree([k \in Keys |-> Blank], NULL, {})
<1>1. [k \in Keys |-> Blank] \in Nodes
  BY DEF Nodes, Fields, Blank, Links
<1> DEFINE none == [x \in {} |-> {}]
<1>2. Shape([k \in Keys |-> Blank], {}, none)
  BY DEF Shape
<1> HIDE DEF none
<1>3. Held([k \in Keys |-> Blank], NULL, {}, none)
  BY <1>1, <1>2 DEF Held
<1> QED
  BY <1>3 DEF HoldsTree

\* A node k that has a parent p is taken out, and c takes its place: nothing, or its
\* only child.  q are the nodes afterwards.
Spliced(m, q, L, k, p, side, c) ==
    /\ k \in L /\ p \in L /\ m[k].parent = p /\ side \in {"left", "right"} /\ m[p][side] = k
    /\ c \in L \cup {NULL}
    /\ c # NULL => m[c].parent = k /\ q[c].parent = p
    /\ q \in Nodes /\ q[k] = Blank
    /\ \A y \in Keys \ L : q[y] = m[y]
    /\ \A y \in L \ {k} : q[y].data = m[y].data
    /\ \A y \in L \ {k, p} : q[y].left = m[y].left /\ q[y].right = m[y].right
    /\ \A y \in L \ {k, c} : q[y].parent = m[y].parent
    /\ q[p][side] = c /\ q[p][Other(side)] = m[p][Other(side)]

\* What is left is a tree.
LEMMA SpliceHeld ==
    ASSUME NEW m, NEW r, NEW L, NEW sub, Held(m, r, L, sub), NEW k, k # r, NEW q, NEW p,
           NEW side, NEW c, Spliced(m, q, L, k, p, side, c), Below(sub, c) = sub[k] \ {k}
    PROVE  HoldsTree(q, r, L \ {k})
<1>0. /\ k \in L /\ p \in L /\ m[k].parent = p /\ side \in {"left", "right"} /\ m[p][side] = k
      /\ c \in L \cup {NULL} /\ (c # NULL => m[c].parent = k /\ q[c].parent = p)
      /\ q \in Nodes /\ q[k] = Blank
      /\ \A y \in Keys \ L : q[y] = m[y]
      /\ \A y \in L \ {k} : q[y].data = m[y].data
      /\ \A y \in L \ {k, p} : q[y].left = m[y].left /\ q[y].right = m[y].right
      /\ \A y \in L \ {k, c} : q[y].parent = m[y].parent
      /\ q[p][side] = c /\ q[p][Other(side)] = m[p][Other(side)]
  BY DEF Spliced
<1> DEFINE L2 == L \ {k}
           sub2 == [n \in L2 |-> sub[n] \ {k}]
<1>1. /\ m \in Nodes /\ L \in SUBSET Keys /\ Shape(m, L, sub) /\ NULL \notin L
      /\ r \in L /\ sub[r] = L /\ m[r].parent = NULL
  BY <1>0, KeysAreNat DEF Held
<1>2. IsChild(m, p, k) /\ p \notin sub[k] /\ p # k
  <2>1. IsChild(m, p, k)
    BY <1>0, <1>1 DEF IsChild
  <2>2. m \in Nodes /\ L \in SUBSET Keys /\ Shape(m, L, sub) /\ p \in L
    BY <1>0, <1>1
  <2>3. p \in sub[p] /\ k \in sub[k] /\ sub[k] \subseteq sub[p] /\ p \notin sub[k]
    BY ONLY <2>1, <2>2, ChildBelow
  <2> QED
    BY <1>0, <2>1, <2>3
<1>3. k \notin Below(sub, c) /\ c # k /\ (c # NULL => c # p /\ c \in L2)
  <2>1. c # NULL => c \in sub[c]
    BY <1>0, <1>1 DEF Shape, NodeOK
  <2> QED
    BY <1>0, <1>1, <1>2, <2>1 DEF Below
<1>4. \A x \in (L \cup {NULL}) \ {k} : Below(sub2, x) = Below(sub, x) \ {k}
  BY <1>0 DEF Below
<1>5. sub2 \in [L2 -> SUBSET L2]
  BY <1>0, <1>1 DEF Shape
<1> HIDE DEF sub2
\* a child other than k of a node other than k still has it for its parent
<1>6. ASSUME NEW n \in L2, NEW e, IsChild(m, n, e), e # k
      PROVE  e \in L2 /\ q[e].parent = n
  <2>1. e \in L /\ m[e].parent = n
    BY <1>0, <1>1, <1>6, ChildInTree
  <2>2. e # c
    BY <1>0, <1>1, <2>1
  <2> QED
    BY <1>0, <1>6, <2>1, <2>2
<1>7. ASSUME NEW n \in L2, n # p PROVE NodeOK(q, L2, sub2, n)
  <2>1. NodeOK(m, L, sub, n) /\ q[n].left = m[n].left /\ q[n].right = m[n].right
        /\ q[n].data = n /\ sub2[n] = sub[n] \ {k}
    BY <1>0, <1>1, <1>7 DEF Shape, NodeOK, sub2
  <2>2. m[n].left # k /\ m[n].right # k
    <3>1. ~ IsChild(m, n, k)
      BY <1>0, <1>1, <1>7, ChildInTree
    <3> QED
      BY <1>0, <1>1, <3>1 DEF IsChild
  <2>3. /\ m[n].left # NULL => q[m[n].left].parent = n
        /\ m[n].right # NULL => q[m[n].right].parent = n
    BY <1>0, <1>1, <1>6, <2>1, <2>2 DEF IsChild, NodeOK
  <2>4. /\ Below(sub2, m[n].left) = Below(sub, m[n].left) \ {k}
        /\ Below(sub2, m[n].right) = Below(sub, m[n].right) \ {k}
    BY <1>0, <1>4, <2>1, <2>2 DEF NodeOK
  <2> QED
    BY <1>0, <2>1, <2>2, <2>3, <2>4 DEF NodeOK
<1>8. NodeOK(q, L2, sub2, p)
  <2> DEFINE d == m[p][Other(side)]
  <2>1. NodeOK(m, L, sub, p) /\ q[p].data = p /\ sub2[p] = sub[p] \ {k} /\ p \in L2
    BY <1>0, <1>1, <1>2 DEF Shape, NodeOK, sub2
  <2>2. /\ side = "left" => m[p].left = k /\ m[p].right = d /\ q[p].left = c /\ q[p].right = d
        /\ side = "right" => m[p].right = k /\ m[p].left = d /\ q[p].right = c /\ q[p].left = d
    BY <1>0 DEF Other
  <2> HIDE DEF d
  <2>3. d \in L \cup {NULL} /\ d # k
    <3>1. Below(sub, k) = sub[k] /\ k \in sub[k] /\ k \in Int /\ p \in Int
      BY <1>0, <1>1, KeysAreNat DEF Below, Shape, NodeOK
    <3>2. CASE side = "left"
      BY <1>0, <2>1, <2>2, <3>1, <3>2 DEF NodeOK
    <3>3. CASE side = "right"
      BY <1>0, <2>1, <2>2, <3>1, <3>3 DEF NodeOK
    <3> QED
      BY <1>0, <3>2, <3>3
  <2>4. d # NULL => d \in L2 /\ q[d].parent = p
    BY <1>0, <1>1, <1>6, <2>1, <2>2, <2>3 DEF IsChild
  <2>5. Below(sub2, d) = Below(sub, d) \ {k} /\ Below(sub2, c) = sub[k] \ {k}
    BY <1>0, <1>3, <1>4, <2>3
  <2>6. Below(sub, k) = sub[k] /\ k \in sub[k]
    BY <1>0, <1>1 DEF Below, Shape, NodeOK
  <2>7. CASE side = "left"
    BY <1>0, <1>1, <1>2, <1>3, <2>1, <2>2, <2>3, <2>4, <2>5, <2>6, <2>7 DEF NodeOK
  <2>8. CASE side = "right"
    BY <1>0, <1>1, <1>2, <1>3, <2>1, <2>2, <2>3, <2>4, <2>5, <2>6, <2>8 DEF NodeOK
  <2> QED
    BY <1>0, <2>7, <2>8
<1>9. Shape(q, L2, sub2)
  BY <1>0, <1>5, <1>7, <1>8 DEF Shape
<1>10. r \in L2 /\ sub2[r] = L2 /\ q[r].parent = NULL /\ L2 \in SUBSET Keys /\ r # NULL
  BY <1>0, <1>1 DEF sub2
<1>11. \A y \in Keys \ L2 : q[y] = Blank
  BY <1>0 DEF Held
<1> QED
  BY <1>0, <1>9, <1>10, <1>11 DEF Held, HoldsTree

\* The root is taken out, and its right child, which is a leaf, takes its place
\* and its left child.
Replaced(m, q, L, k, l, r) ==
    /\ k \in L /\ l \in L /\ r \in L
    /\ m[k].left = l /\ m[k].right = r /\ m[r].left = NULL /\ m[r].right = NULL
    /\ q \in Nodes /\ q[k] = Blank
    /\ \A y \in Keys \ L : q[y] = m[y]
    /\ \A y \in L \ {k} : q[y].data = m[y].data
    /\ \A y \in L \ {k, r} : q[y].left = m[y].left /\ q[y].right = m[y].right
    /\ \A y \in L \ {k, r, l} : q[y].parent = m[y].parent
    /\ q[r].parent = NULL /\ q[r].left = l /\ q[r].right = NULL /\ q[l].parent = r

\* What is left is a tree with r on top.
LEMMA ReplaceRootHeld ==
    ASSUME NEW m, NEW k, NEW L, NEW sub, Held(m, k, L, sub), NEW q, NEW l, NEW r,
           Replaced(m, q, L, k, l, r)
    PROVE  HoldsTree(q, r, L \ {k})
<1>0. /\ k \in L /\ l \in L /\ r \in L
      /\ m[k].left = l /\ m[k].right = r /\ m[r].left = NULL /\ m[r].right = NULL
      /\ q \in Nodes /\ q[k] = Blank
      /\ \A y \in Keys \ L : q[y] = m[y]
      /\ \A y \in L \ {k} : q[y].data = m[y].data
      /\ \A y \in L \ {k, r} : q[y].left = m[y].left /\ q[y].right = m[y].right
      /\ \A y \in L \ {k, r, l} : q[y].parent = m[y].parent
      /\ q[r].parent = NULL /\ q[r].left = l /\ q[r].right = NULL /\ q[l].parent = r
  BY DEF Replaced
<1> DEFINE L2 == L \ {k}
           sub2 == [n \in L2 |-> IF n = r THEN L2 ELSE sub[n]]
<1>1. /\ m \in Nodes /\ L \in SUBSET Keys /\ Shape(m, L, sub) /\ NULL \notin L
      /\ sub[k] = L /\ m[k].parent = NULL
  BY <1>0, KeysAreNat DEF Held
<1>2. NodeOK(m, L, sub, k) /\ NodeOK(m, L, sub, r) /\ l # NULL /\ r # NULL
  BY <1>0, <1>1 DEF Shape
<1>3. /\ L = {k} \cup sub[l] \cup {r} /\ \A y \in sub[l] : y < k
      /\ k < r /\ m[l].parent = k /\ m[r].parent = k /\ l \in sub[l]
  BY <1>0, <1>1, <1>2 DEF NodeOK, Below, Shape
<1>4. r # k /\ r # l /\ r \notin sub[l] /\ k \notin sub[l] /\ l # k /\ \A y \in sub[l] : y < r
  <2>1. L \subseteq Int
    BY <1>0, <1>1, KeysAreNat
  <2>2. \A y \in sub[l] : y \in Int /\ y < k
    BY <1>0, <1>3, <2>1
  <2> QED
    BY <1>0, <1>3, <2>1, <2>2
<1>5. ASSUME NEW n \in L2 PROVE k \notin sub[n]
  <2>1. ASSUME k \in sub[n] PROVE m[k].parent \in L
    <3>1. m \in Nodes /\ L \in SUBSET Keys /\ Shape(m, L, sub) /\ n \in L /\ k \in sub[n] /\ k # n
      BY <1>0, <1>1, <2>1
    <3> QED
      BY ONLY <3>1, EveryNodeHasParent
  <2> QED
    BY <1>0, <1>1, <2>1
<1>6. sub2 \in [L2 -> SUBSET L2]
  BY <1>0, <1>1, <1>5 DEF Shape
<1> HIDE DEF sub2
<1>7. ASSUME NEW n \in L2, n # r PROVE NodeOK(q, L2, sub2, n)
  <2>1. NodeOK(m, L, sub, n) /\ q[n].left = m[n].left /\ q[n].right = m[n].right
        /\ q[n].data = n /\ sub2[n] = sub[n]
    BY <1>0, <1>1, <1>7 DEF Shape, NodeOK, sub2
  <2>2. ASSUME NEW e, IsChild(m, n, e) PROVE e \in L2 /\ e # r /\ q[e].parent = n
    <3>1. e \in L /\ m[e].parent = n
      BY <1>0, <1>1, <2>2, ChildInTree
    <3> QED
      BY <1>0, <1>1, <1>3, <1>7, <3>1
  <2>3. \A e \in L2 \cup {NULL} : e # r => Below(sub2, e) = Below(sub, e)
    BY <1>0 DEF Below, sub2
  <2>4. \A e \in {m[n].left, m[n].right} :
            /\ e \in L2 \cup {NULL} /\ Below(sub2, e) = Below(sub, e)
            /\ e # NULL => q[e].parent = n
    <3>1. ASSUME NEW e \in {m[n].left, m[n].right}, e # NULL PROVE IsChild(m, n, e)
      BY <1>0, <1>1, <2>1, <3>1 DEF IsChild, NodeOK
    <3>2. NULL # r
      BY <1>0, <1>2
    <3> QED
      BY <1>0, <2>2, <2>3, <3>1, <3>2
  <2> QED
    BY <1>0, <2>1, <2>4 DEF NodeOK
<1>8. NodeOK(q, L2, sub2, r)
  <2>1. Below(sub2, l) = sub[l] /\ Below(sub2, NULL) = {} /\ sub2[r] = L2 /\ l \in L2
    BY <1>0, <1>1, <1>2, <1>4 DEF Below, sub2
  <2>2. q[r].data = r
    BY <1>0, <1>2, <1>4 DEF NodeOK
  <2> QED
    BY <1>0, <1>3, <1>4, <2>1, <2>2 DEF NodeOK
<1>9. Shape(q, L2, sub2)
  BY <1>0, <1>6, <1>7, <1>8 DEF Shape
<1>10. r \in L2 /\ sub2[r] = L2 /\ L2 \in SUBSET Keys /\ r # NULL
  BY <1>0, <1>1, <1>2, <1>4 DEF sub2
<1>11. \A y \in Keys \ L2 : q[y] = Blank
  BY <1>0 DEF Held
<1> QED
  BY <1>0, <1>9, <1>10, <1>11 DEF Held, HoldsTree

-----------------------------------------------------------------------------
(* Insertion                                                                   *)

\* into an empty tree
LEMMA InsertFirst ==
    ASSUME NEW sub, TreeOf(sub), root = NULL, NEW k \in Keys
    PROVE  LET s == InsertInto(k)[root]
           IN  /\ s.m \in Nodes /\ s.flaw = "none"
               /\ HoldsTree(s.m, k, live \cup {k})
<1>1. node \in Nodes /\ live = {} /\ NULL \notin Keys /\ \A y \in Keys : node[y] = Blank
  BY TreeFacts, KeysAreNat DEF TreeOf, Tree
<1> DEFINE m == [node EXCEPT ![k] = NewNode(k)]
<1>2. InsertInto(k)[root] = Leaf(k)
  <2> DEFINE f == InsertInto(k)
  <2>1. InsertedBy(f, k, Links)
    BY InsertIntoIs DEF TreeOf
  <2> HIDE DEF f
  <2>2. f[NULL] = Leaf(k)
    BY <2>1 DEF InsertedBy, Links
  <2> QED
    BY <2>2 DEF f
<1>3. /\ NewNode(k) \in Fields /\ NewNode(k).parent = NULL
      /\ NewNode(k).left = NULL /\ NewNode(k).right = NULL /\ NewNode(k).data = k
  <2>1. Blank \in Fields /\ Blank.left = NULL /\ Blank.right = NULL
        /\ Blank.parent = NULL /\ k \in Links
    BY <1>1 DEF Blank, Fields, Links
  <2> QED
    BY <2>1 DEF NewNode, Fields
<1>4. m \in Nodes /\ m[k] = NewNode(k) /\ \A y \in Keys \ {k} : m[y] = Blank
  BY <1>1, <1>3 DEF Nodes
<1>5. Leaf(k).m = m /\ Leaf(k).flaw = "none"
  BY DEF Leaf
<1> HIDE DEF m
<1> DEFINE one == [y \in {k} |-> {k}]
<1>6. NodeOK(m, {k}, one, k)
  BY <1>3, <1>4 DEF NodeOK, Below
<1>7. Shape(m, {k}, one) /\ one[k] = {k}
  BY <1>6 DEF Shape
<1> HIDE DEF one
<1>8. Held(m, k, {k}, one)
  BY <1>1, <1>3, <1>4, <1>7 DEF Held
<1> QED
  BY <1>1, <1>2, <1>4, <1>5, <1>8 DEF HoldsTree

\* into a tree that has a root
LEMMA InsertNext ==
    ASSUME NEW sub, TreeOf(sub), root # NULL, NEW k \in Keys \ live
    PROVE  LET s == InsertInto(k)[root]
           IN  /\ s \in Results
               /\ s.flaw = "none" => HoldsTree(s.m, root, live \cup {k})
<1> DEFINE s == InsertInto(k)[root]
           D == live \cup {k}
<1>1. /\ root \in live /\ sub[root] = live /\ node[root].parent = NULL
      /\ live \in SUBSET Keys /\ \A y \in Keys \ live : node[y] = Blank
  BY DEF TreeOf, Tree
<1>2. Returned(node, s, D, NULL, root)
  <2>1. Returned(node, s, sub[root] \cup {k}, node[root].parent, root)
    BY <1>1, InsertReturned
  <2> HIDE DEF s
  <2> QED
    BY <1>1, <2>1
<1> HIDE DEF s
<1>3. s \in Results /\ (s.flaw = "none" => Framed(node, s.m, D, NULL) /\ Hung(s.m, D, NULL, root))
  BY <1>2 DEF Returned, Placed
<1>4. ASSUME s.flaw = "none" PROVE HoldsTree(s.m, root, D)
  <2>1. PICK sub2 : Shape(s.m, D, sub2) /\ sub2[root] = D
    BY <1>3, <1>4 DEF Hung
  <2>2. s.m[root].parent = NULL /\ root \in D
    BY <1>3, <1>4 DEF Hung
  <2>3. s.m \in Nodes /\ D \in SUBSET Keys /\ \A y \in Keys \ D : s.m[y] = Blank
    BY <1>1, <1>3, <1>4, KeysAreNat DEF Framed
  <2>4. Held(s.m, root, D, sub2)
    BY <2>1, <2>2, <2>3 DEF Held
  <2> QED
    BY <2>4 DEF HoldsTree
<1> QED
  BY <1>3, <1>4 DEF s

-----------------------------------------------------------------------------
(* The invariant                                                               *)

\* The invariant: while no defect has been met, the nodes are a tree of the keys that
\* are present, and items is their number.
TreeInv ==
    /\ TypeOK
    /\ Sound => /\ HoldsTree(node, root, live)
                /\ live = present
                /\ items = Cardinality(live)

\* The set of nodes is that of the type invariant.
LEMMA NodesIs ==
    Nodes = [Keys -> [parent : Links, left : Links, right : Links, data : Links,
                      balance_factor : Int, height : Nat]]
  BY DEF Nodes, Fields

\* items stays within bounds.
LEMMA Counting ==
    ASSUME NEW L \in SUBSET Keys, NEW k \in Keys
    PROVE  /\ Cardinality(Keys) \in Nat /\ Cardinality(L) \in 0 .. Cardinality(Keys)
           /\ k \notin L => /\ Cardinality(L \cup {k}) = Cardinality(L) + 1
                            /\ Cardinality(L) + 1 \in 0 .. Cardinality(Keys)
           /\ k \in L => /\ Cardinality(L \ {k}) = Cardinality(L) - 1
                         /\ Cardinality(L) - 1 \in 0 .. Cardinality(Keys)
<1>1. /\ IsFiniteSet(Keys) /\ IsFiniteSet(L)
      /\ Cardinality(L) \in Nat /\ Cardinality(Keys) \in Nat /\ Cardinality(L) <= Cardinality(Keys)
  BY TreeAssumption, FS_Subset, FS_CardinalityType
<1>2. ASSUME k \notin L
      PROVE  /\ Cardinality(L \cup {k}) = Cardinality(L) + 1
             /\ Cardinality(L \cup {k}) <= Cardinality(Keys)
  <2>1. Cardinality(L \cup {k}) = Cardinality(L) + 1
    BY <1>1, <1>2, FS_AddElement
  <2>2. L \cup {k} \in SUBSET Keys
    OBVIOUS
  <2>3. Cardinality(L \cup {k}) <= Cardinality(Keys)
    BY <1>1, <2>2, FS_Subset
  <2> QED
    BY <2>1, <2>3
<1>3. ASSUME k \in L PROVE Cardinality(L \ {k}) = Cardinality(L) - 1 /\ Cardinality(L) - 1 \in Nat
  <2>1. Cardinality(L \ {k}) = Cardinality(L) - 1 /\ IsFiniteSet(L \ {k})
    BY <1>1, <1>3, FS_RemoveElement
  <2>2. Cardinality(L \ {k}) \in Nat
    BY <2>1, FS_CardinalityType
  <2> QED
    BY <2>1, <2>2
<1> QED
  BY <1>1, <1>2, <1>3

\* What every call of a sound tree finds.
LEMMA SoundTree ==
    ASSUME TreeInv, Sound
    PROVE  /\ \E sub : TreeOf(sub)
           /\ node \in Nodes /\ live \in SUBSET Keys /\ live = present
           /\ items = Cardinality(live)
           /\ \A k \in Keys : FindNode(k) <=> k \in live
<1>1. PICK sub : TreeOf(sub)
  BY TreeHeld DEF TreeInv, HoldsTree
<1>2. \A k \in Keys : FindNode(k) <=> k \in live
  BY <1>1, FindNodeIs
<1>3. node \in Nodes /\ live \in SUBSET Keys
  BY <1>1, TreeFacts DEF TreeOf
<1> QED
  BY <1>1, <1>2, <1>3 DEF TreeInv

\* It holds at first, and every step keeps it.
LEMMA TreeInit == Init => TreeInv
<1> SUFFICES ASSUME Init PROVE TreeInv
  OBVIOUS
<1>1. node \in Nodes /\ HoldsTree(node, root, live)
  BY EmptyHeld DEF Init, HoldsTree, Held
<1>2. Cardinality({}) = 0 /\ 0 \in 0 .. Cardinality(Keys)
  BY TreeAssumption, FS_EmptySet, FS_CardinalityType
<1> QED
  BY <1>1, <1>2, NodesIs DEF Init, TreeInv, TypeOK, Links

\* binary_tree_insert
LEMMA TreeOnInsert ==
    ASSUME TreeInv, NEW k \in Keys, Insert(k)
    PROVE  TreeInv'
<1> DEFINE s == InsertInto(k)[root]
<1>1. Sound /\ k \notin live
  BY SoundTree DEF Insert, Callable, Sound
<1>2. PICK sub : TreeOf(sub)
  BY <1>1, SoundTree
<1>3. /\ live \in SUBSET Keys /\ live = present /\ items = Cardinality(live)
  BY <1>1, SoundTree
<1>4. /\ s.m \in Nodes /\ s.flaw \in {"none", "null", "rotation"}
      /\ s.flaw = "none" => HoldsTree(s.m, IF root = NULL THEN k ELSE root, live \cup {k})
  <2>1. CASE root = NULL
    BY <1>2, <2>1, InsertFirst
  <2>2. CASE root # NULL
    BY <1>1, <1>2, <2>2, InsertNext DEF Results
  <2> QED
    BY <2>1, <2>2
<1> HIDE DEF s
<1>5. /\ node' = s.m /\ root' = IF root = NULL THEN k ELSE root
      /\ flaw' = s.flaw /\ live' = live \cup {k} /\ open' = open
      /\ IF s.flaw = "null" THEN UNCHANGED <<items, present, ret>>
         ELSE items' = items + 1 /\ present' = present \cup {k} /\ ret'.of = k
  BY DEF Insert, Answer, s
<1>6. TypeOK'
  <2>1. items + 1 \in 0 .. Cardinality(Keys)
    BY <1>1, <1>3, Counting
  <2> QED
    BY <1>4, <1>5, <2>1, NodesIs DEF TreeInv, TypeOK, Links
<1>7. ASSUME Sound'
      PROVE  HoldsTree(node, root, live)' /\ (live = present)'
                          /\ (items = Cardinality(live))'
  <2>1. s.flaw = "none"
    BY <1>5, <1>7 DEF Sound
  <2>2. Cardinality(live \cup {k}) = Cardinality(live) + 1
    BY <1>1, <1>3, Counting
  <2>3. HoldsTree(node', root', live')
    BY <1>4, <1>5, <2>1
  <2>4. HoldsTree(node, root, live)'
    BY <2>3 DEF HoldsTree, Held, Shape, NodeOK, Below
  <2> QED
    BY <1>3, <1>5, <2>1, <2>2, <2>4
<1> QED
  BY <1>6, <1>7 DEF TreeInv

\* A removal that frees the node f of the key k: what it does to the counters, and
\* what is left to show of the nodes.
LEMMA TreeOnRemoved ==
    ASSUME TreeInv, Sound, NEW k \in Keys, NEW f \in Keys, NEW m \in Nodes, NEW how,
           Removed(k, m, f, how), live # {}, root' \in Links,
           how \in {"none", "parent", "successor"},
           how = "none" => f = k /\ k \in live /\ HoldsTree(Freed(m, k), root', live \ {k})
    PROVE  TreeInv'
<1>1. live \in SUBSET Keys /\ live = present /\ items = Cardinality(live)
  BY SoundTree
<1>2. Blank \in Fields
  BY DEF Blank, Fields, Links
<1>3. Freed(m, f) \in Nodes
  BY <1>2 DEF Freed, Nodes
<1>4. items - 1 \in 0 .. Cardinality(Keys)
  <2>1. PICK x \in live : x \in Keys
    BY <1>1
  <2> QED
    BY <1>1, <2>1, Counting
<1>5. /\ node' = Freed(m, f) /\ live' = live \ {f} /\ items' = items - 1
      /\ present' = present \ {k} /\ ret'.of = k /\ flaw' = how /\ open' = open
  BY DEF Removed, Answer
<1>6. TypeOK'
  BY <1>1, <1>3, <1>4, <1>5, NodesIs DEF TreeInv, TypeOK, Links
<1>7. ASSUME Sound'
      PROVE  HoldsTree(node, root, live)' /\ (live = present)'
                          /\ (items = Cardinality(live))'
  <2>1. how = "none"
    BY <1>5, <1>7 DEF Sound
  <2>2. f = k /\ Cardinality(live \ {k}) = Cardinality(live) - 1
    BY <1>1, <2>1, Counting
  <2>3. HoldsTree(node', root', live')
    BY <1>5, <2>1
  <2>4. HoldsTree(node, root, live)'
    BY <2>3 DEF HoldsTree, Held, Shape, NodeOK, Below
  <2> QED
    BY <1>1, <1>5, <2>2, <2>4
<1> QED
  BY <1>6, <1>7 DEF TreeInv

\* What a removal of k finds in the tree.
LEMMA RemovalFinds ==
    ASSUME TreeInv, NEW k \in Keys, Callable, FindNode(k)
    PROVE  /\ Sound /\ k \in live /\ live # {} /\ root \in Links /\ root # NULL
           /\ \E sub : /\ TreeOf(sub) /\ Held(node, root, live, sub) /\ NodeOK(node, live, sub, k)
           /\ node \in Nodes /\ node[k] \in Fields
           /\ Parent(k) = node[k].parent /\ Parent(k) \in Links
           /\ Parent(k) # NULL => /\ Parent(k) \in live /\ k # root
                                  /\ LinkTo(Parent(k), k) \in {"left", "right"}
                                  /\ node[Parent(k)][LinkTo(Parent(k), k)] = k
           /\ Parent(k) = NULL => k = root
<1>1. Sound
  BY DEF Callable, Sound
<1>2. PICK sub : TreeOf(sub)
  BY <1>1, SoundTree
<1>3. /\ node \in Nodes /\ live \in SUBSET Keys /\ k \in live
      /\ Held(node, root, live, sub) /\ NULL \notin Keys
  BY <1>1, <1>2, SoundTree, TreeHeld, KeysAreNat
<1>4. root \in live /\ node[root].parent = NULL /\ NodeOK(node, live, sub, k)
  BY <1>3 DEF Held, Shape
<1>5. IF k = root THEN node[k].parent = NULL
      ELSE node[k].parent \in live /\ IsChild(node, node[k].parent, k)
  BY <1>2, <1>3, ParentOf
<1>6. ASSUME k # root
      PROVE  /\ node[k].parent # NULL
             /\ LinkTo(Parent(k), k) \in {"left", "right"}
             /\ node[Parent(k)][LinkTo(Parent(k), k)] = k
  BY <1>3, <1>5, <1>6 DEF IsChild, LinkTo, Parent
<1>7. node[k] \in Fields /\ node[k].parent \in Links
  BY <1>3 DEF Nodes, Fields
<1> QED
  BY <1>1, <1>2, <1>3, <1>4, <1>5, <1>6, <1>7 DEF Parent, Links

\* remove_node, of a leaf
LEMMA TreeOnRemoveLeaf ==
    ASSUME TreeInv, NEW k \in Keys, RemoveLeaf(k)
    PROVE  TreeInv'
<1> DEFINE p == Parent(k)
           side == LinkTo(p, k)
           m == [node EXCEPT ![p][side] = NULL, ![p].balance_factor = Lighter(@, side)]
           q == Freed(m, k)
<1>1. /\ Callable /\ FindNode(k) /\ node[k].left = NULL /\ node[k].right = NULL
      /\ p # NULL /\ Removed(k, m, k, "none") /\ root' = root
  BY DEF RemoveLeaf
<1>2. /\ Sound /\ k \in live /\ live # {} /\ root \in Links /\ node \in Nodes
      /\ p = node[k].parent /\ p \in live /\ k # root
      /\ side \in {"left", "right"} /\ node[p][side] = k
  BY <1>1, RemovalFinds
<1>3. PICK sub : Held(node, root, live, sub) /\ NodeOK(node, live, sub, k)
  BY <1>1, RemovalFinds
<1>4. live \in SUBSET Keys /\ NULL \notin Keys /\ k \in Keys /\ p \in Keys
  BY <1>2, <1>3, KeysAreNat DEF Held
<1> HIDE DEF p, side
<1>5. /\ m \in Nodes /\ \A y \in Keys \ {p} : m[y] = node[y]
      /\ m[p][side] = NULL /\ m[p][Other(side)] = node[p][Other(side)]
      /\ m[p].parent = node[p].parent /\ m[p].data = node[p].data
  <2>1. node[p] \in Fields /\ Lighter(node[p].balance_factor, side) \in Int
    BY <1>2, <1>4 DEF Nodes, Fields, Lighter
  <2>2. CASE side = "left"
    BY <1>2, <1>4, <2>1, <2>2 DEF Nodes, Fields, Other, Links
  <2>3. CASE side = "right"
    BY <1>2, <1>4, <2>1, <2>3 DEF Nodes, Fields, Other, Links
  <2> QED
    BY <1>2, <2>2, <2>3
<1> HIDE DEF m
<1>6. k # p
  <2>1. /\ node \in Nodes /\ live \in SUBSET Keys /\ Shape(node, live, sub) /\ p \in live
        /\ IsChild(node, p, k)
    BY <1>2, <1>3, <1>4 DEF Held, IsChild
  <2>2. p \notin sub[k] /\ k \in sub[k]
    BY ONLY <2>1, ChildBelow
  <2> QED
    BY <2>2
<1>7. q \in Nodes /\ q[k] = Blank /\ \A y \in Keys \ {k} : q[y] = m[y]
  <2>1. Blank \in Fields
    BY DEF Blank, Fields, Links
  <2> QED
    BY <1>5, <2>1 DEF Freed, Nodes
<1>8. sub[k] = {k}
  BY <1>1, <1>3 DEF NodeOK, Below
<1> HIDE DEF q
<1>9. HoldsTree(q, root, live \ {k})
  <2>1. Below(sub, NULL) = sub[k] \ {k}
    BY <1>8 DEF Below
  <2>2. Spliced(node, q, live, k, p, side, NULL)
    BY <1>2, <1>4, <1>5, <1>6, <1>7 DEF Spliced
  <2>3. Held(node, root, live, sub) /\ k # root
    BY <1>2, <1>3
  <2> QED
    BY ONLY <2>1, <2>2, <2>3, SpliceHeld
<1>10. HoldsTree(Freed(m, k), root', live \ {k})
  BY <1>1, <1>9 DEF q
<1> QED
  BY <1>1, <1>2, <1>5, <1>10, TreeOnRemoved

\* k has the child c and no other.
OnlyLink(m, k, s, c) ==
    s \in {"left", "right"} /\ m[k][s] = c /\ c # NULL /\ m[k][Other(s)] = NULL

\* The subtree of an only child is all there is below its parent.
LEMMA OnlyChild ==
    ASSUME NEW m \in Nodes, NEW D \in SUBSET Keys, NEW sub, Shape(m, D, sub), NEW k \in D,
           NEW s, NEW c, OnlyLink(m, k, s, c)
    PROVE  IsChild(m, k, c) /\ Below(sub, c) = sub[k] \ {k}
<1>1. /\ NodeOK(m, D, sub, k) /\ NULL \notin Keys
      /\ s \in {"left", "right"} /\ m[k][s] = c /\ c # NULL /\ m[k][Other(s)] = NULL
  BY KeysAreNat DEF Shape, OnlyLink
<1>2. c \in D /\ IsChild(m, k, c)
  BY <1>1 DEF NodeOK, IsChild
<1>3. k \in sub[k] /\ c \in sub[c] /\ sub[c] \subseteq sub[k] /\ k \notin sub[c]
  BY <1>2, ChildBelow
<1>4. sub[k] = {k} \cup sub[c]
  BY <1>1, <1>2 DEF NodeOK, Below, Other
<1> QED
  BY <1>1, <1>2, <1>3, <1>4 DEF Below

\* A parent is neither its child nor a child of that.
LEMMA ThreeGenerations ==
    ASSUME NEW m \in Nodes, NEW D \in SUBSET Keys, NEW sub, Shape(m, D, sub),
           NEW p \in D, NEW k, IsChild(m, p, k), NEW c, IsChild(m, k, c)
    PROVE  p # k /\ p # c
<1>1. k \in D
  BY ChildInTree
<1>2. k \in sub[k] /\ p \notin sub[k]
  BY ChildBelow
<1>3. c \in sub[c] /\ sub[c] \subseteq sub[k]
  BY <1>1, ChildBelow
<1> QED
  BY <1>2, <1>3

\* remove_node, of a node with one child
LEMMA TreeOnRemoveWithOneChild ==
    ASSUME TreeInv, NEW k \in Keys, RemoveWithOneChild(k)
    PROVE  TreeInv'
<1> DEFINE p == Parent(k)
           side == LinkTo(p, k)
<1>1. PICK s \in {"left", "right"} :
          LET c    == node[k][s]
              told == s = "right" \/ side = "right"
          IN  /\ Callable /\ FindNode(k)
              /\ c # NULL /\ node[k][Other(s)] = NULL
              /\ p # NULL
              /\ Removed(k, [node EXCEPT ![p][side] = c,
                                          ![c].parent = IF told THEN p ELSE @,
                                          ![p].balance_factor = Lighter(@, side)],
                         k, IF told THEN "none" ELSE "parent")
              /\ UNCHANGED root
  BY Zenon DEF RemoveWithOneChild
<1> DEFINE c == node[k][s]
           told == s = "right" \/ side = "right"
           m == [node EXCEPT ![p][side] = c, ![c].parent = IF told THEN p ELSE @,
                             ![p].balance_factor = Lighter(@, side)]
           q == Freed(m, k)
           how == IF told THEN "none" ELSE "parent"
<1>2. /\ Callable /\ FindNode(k) /\ c # NULL /\ node[k][Other(s)] = NULL
      /\ p # NULL /\ Removed(k, m, k, how) /\ root' = root
  BY <1>1
<1>3. /\ Sound /\ k \in live /\ live # {} /\ root \in Links /\ node \in Nodes
      /\ p = node[k].parent /\ p \in live /\ k # root
      /\ side \in {"left", "right"} /\ node[p][side] = k
  BY <1>2, RemovalFinds
<1>4. PICK sub : Held(node, root, live, sub)
  BY <1>2, RemovalFinds
<1>5. Shape(node, live, sub) /\ live \in SUBSET Keys /\ NULL \notin Keys /\ p \in Keys
  BY <1>3, <1>4, KeysAreNat DEF Held
<1>6. /\ c \in live /\ c # k /\ node[c].parent = k /\ Below(sub, c) = sub[k] \ {k}
      /\ p # k /\ p # c
  <2>1. IsChild(node, p, k)
    BY <1>3 DEF IsChild
  <2>2. /\ node \in Nodes /\ live \in SUBSET Keys /\ Shape(node, live, sub) /\ k \in live
        /\ OnlyLink(node, k, s, c)
    BY <1>2, <1>3, <1>5 DEF OnlyLink
  <2> HIDE DEF c
  <2>3. IsChild(node, k, c)
    BY ONLY <2>2, OnlyChild
  <2>4. Below(sub, c) = sub[k] \ {k}
    BY ONLY <2>2, OnlyChild
  <2>5. c \in live /\ node[c].parent = k
    BY ONLY <2>2, <2>3, ChildInTree
  <2>6. k \in sub[k] /\ c \in sub[c] /\ sub[c] \subseteq sub[k] /\ k \notin sub[c]
    BY ONLY <2>2, <2>3, ChildBelow
  <2>7. p \in live
    BY <1>3
  <2>8. p # k /\ p # c
    BY ONLY <2>1, <2>2, <2>3, <2>7, ThreeGenerations
  <2> QED
    BY <2>4, <2>5, <2>6, <2>8
<1> HIDE DEF p, side, c
<1>7. /\ m \in Nodes /\ \A y \in Keys \ {p, c} : m[y] = node[y]
      /\ m[p][side] = c /\ m[p][Other(side)] = node[p][Other(side)]
      /\ m[p].parent = node[p].parent /\ m[p].data = node[p].data
      /\ m[c].parent = IF told THEN p ELSE node[c].parent
      /\ m[c].left = node[c].left /\ m[c].right = node[c].right /\ m[c].data = node[c].data
  <2> DEFINE v == IF told THEN p ELSE node[c].parent
             b == Lighter(node[p].balance_factor, side)
  <2>1. /\ node[p] \in Fields /\ node[c] \in Fields /\ v \in Links /\ b \in Int
        /\ c \in Keys /\ c \in Links
    BY <1>3, <1>5, <1>6 DEF Nodes, Fields, Lighter, Links
  <2>2. m = [node EXCEPT ![p][side] = c, ![c].parent = v, ![p].balance_factor = b]
    BY <1>3, <1>5, <1>6, <2>1 DEF Nodes, Fields
  <2> HIDE DEF m, v, b
  <2>3. /\ m \in Nodes /\ \A y \in Keys \ {p, c} : m[y] = node[y]
        /\ m[p][side] = c /\ m[p][Other(side)] = node[p][Other(side)]
        /\ m[p].parent = node[p].parent /\ m[p].data = node[p].data
        /\ m[c].parent = v
        /\ m[c].left = node[c].left /\ m[c].right = node[c].right /\ m[c].data = node[c].data
    <3>3. CASE side = "left"
      <4>1. m = [node EXCEPT ![p].left = c, ![c].parent = v, ![p].balance_factor = b]
        BY <2>2, <3>3
      <4>2. /\ m[p] = [node[p] EXCEPT !.left = c, !.balance_factor = b]
            /\ m[c] = [node[c] EXCEPT !.parent = v]
            /\ m \in Nodes /\ \A y \in Keys \ {p, c} : m[y] = node[y]
        BY <1>3, <1>5, <1>6, <2>1, <4>1 DEF Nodes, Fields
      <4> QED
        BY <1>3, <1>5, <1>6, <2>1, <3>3, <4>2 DEF Fields, Other
    <3>4. CASE side = "right"
      <4>1. m = [node EXCEPT ![p].right = c, ![c].parent = v, ![p].balance_factor = b]
        BY <2>2, <3>4
      <4>2. /\ m[p] = [node[p] EXCEPT !.right = c, !.balance_factor = b]
            /\ m[c] = [node[c] EXCEPT !.parent = v]
            /\ m \in Nodes /\ \A y \in Keys \ {p, c} : m[y] = node[y]
        BY <1>3, <1>5, <1>6, <2>1, <4>1 DEF Nodes, Fields
      <4> QED
        BY <1>3, <1>5, <1>6, <2>1, <3>4, <4>2 DEF Fields, Other
    <3> QED
      BY <1>3, <3>3, <3>4
  <2> QED
    BY <2>3 DEF v
<1> HIDE DEF m
<1>8. q \in Nodes /\ q[k] = Blank /\ \A y \in Keys \ {k} : q[y] = m[y]
  <2>1. Blank \in Fields
    BY DEF Blank, Fields, Links
  <2> QED
    BY <1>7, <2>1 DEF Freed, Nodes
<1> HIDE DEF q, told
<1>9. ASSUME told PROVE HoldsTree(q, root, live \ {k})
  <2>1. Spliced(node, q, live, k, p, side, c)
    <3>1. c \in Keys
      BY <1>5, <1>6
    <3>2. \A y \in live \ {k} : q[y].data = node[y].data
      BY <1>5, <1>7, <1>8
    <3>3. \A y \in live \ {k, p} : q[y].left = node[y].left /\ q[y].right = node[y].right
      BY <1>5, <1>7, <1>8
    <3>4. \A y \in live \ {k, c} : q[y].parent = node[y].parent
      BY <1>5, <1>7, <1>8
    <3>5. \A y \in Keys \ live : q[y] = node[y]
      BY <1>3, <1>5, <1>6, <1>7, <1>8
    <3>6. q[p][side] = c /\ q[p][Other(side)] = node[p][Other(side)] /\ q[c].parent = p
      BY <1>5, <1>6, <1>7, <1>8, <1>9, <3>1
    <3> QED
      BY <1>3, <1>6, <1>8, <3>2, <3>3, <3>4, <3>5, <3>6 DEF Spliced
  <2>2. Held(node, root, live, sub) /\ k # root /\ Below(sub, c) = sub[k] \ {k}
    BY <1>3, <1>4, <1>6
  <2> QED
    BY ONLY <2>1, <2>2, SpliceHeld
<1>10. how = "none" => HoldsTree(Freed(m, k), root', live \ {k})
  BY <1>2, <1>9 DEF q
<1>11. how \in {"none", "parent", "successor"}
  OBVIOUS
<1> HIDE DEF how
<1> QED
  BY <1>2, <1>3, <1>7, <1>10, <1>11, TreeOnRemoved

\* The fields of a node have their types.
LEMMA FieldsIn ==
    ASSUME NEW m \in Nodes, NEW y \in Keys
    PROVE  /\ m[y].left \in Links /\ m[y].right \in Links /\ m[y].parent \in Links
           /\ m[y].data \in Links /\ m[y].height \in Nat /\ m[y].balance_factor \in Int
  BY DEF Nodes, Fields

\* remove_node, of a node with two children, in its three cases.  Only the last of them
\* may leave a tree.
LEMMA TreeOnRemoveForSuccessor ==
    ASSUME TreeInv, NEW k \in Keys, RemoveForSuccessor(k)
    PROVE  TreeInv'
<1> DEFINE f == Leftmost[node[k].right]
           m == [node EXCEPT ![k].data = node[f].data, ![node[f].parent].left = NULL]
<1>1. /\ Callable /\ FindNode(k) /\ node[k].right # NULL
      /\ Removed(k, m, f, "successor") /\ root' = root
  BY DEF RemoveForSuccessor, HasTwo, Leftmost, LeftmostBy
<1>2. Sound /\ live # {} /\ root \in Links /\ node \in Nodes
  BY <1>1, RemovalFinds
<1>3. PICK sub : TreeOf(sub)
  BY <1>2, SoundTree
<1>4. node[k].right \in Keys
  BY <1>1, <1>2, FieldsIn DEF Links
<1>5. f \in Keys
  BY <1>3, <1>4, LeftmostIsNode DEF TreeOf
<1> HIDE DEF f
<1>6. m \in Nodes
  <2> DEFINE m1 == [node EXCEPT ![k].data = node[f].data]
             m2 == [m1 EXCEPT ![node[f].parent].left = NULL]
  <2>1. m1 \in Nodes
    BY <1>2, <1>5 DEF Nodes, Fields
  <2>2. m2 \in Nodes
    <3> HIDE DEF m1
    <3> QED
      BY <2>1 DEF Nodes, Fields, Links
  <2> QED
    BY <2>2
<1> HIDE DEF m
<1> QED
  BY <1>1, <1>2, <1>5, <1>6, TreeOnRemoved

LEMMA TreeOnRemoveInnerWithTwo ==
    ASSUME TreeInv, NEW k \in Keys, RemoveInnerWithTwo(k)
    PROVE  TreeInv'
<1> DEFINE p == Parent(k)
           side == IF node[p].right = k THEN "right" ELSE "left"
           r == node[k].right
           m == [node EXCEPT ![p][side] = r, ![p].balance_factor = Lighter(@, Other(side)),
                             ![r].parent = p, ![r].left = node[k].left,
                             ![r].balance_factor = @ - 1]
<1>1. Callable /\ FindNode(k) /\ r # NULL /\ p # NULL /\ Removed(k, m, k, "parent") /\ root' = root
  BY DEF RemoveInnerWithTwo, HasTwo
<1>2. Sound /\ live # {} /\ root \in Links /\ node \in Nodes /\ p \in Links
  BY <1>1, RemovalFinds
<1>3. r \in Keys /\ p \in Keys /\ node[k].left \in Links /\ r \in Links
  BY <1>1, <1>2, FieldsIn DEF Links
<1>4. side \in {"left", "right"}
  OBVIOUS
<1> HIDE DEF p, side, r
<1>5. m \in Nodes
  <2> DEFINE b == Lighter(node[p].balance_factor, Other(side))
  <2>1. m = [node EXCEPT ![p][side] = r, ![p].balance_factor = b, ![r].parent = p,
                         ![r].left = node[k].left, ![r].balance_factor = @ - 1]
    BY <1>2, <1>3, <1>4 DEF Nodes, Fields
  <2>2. b \in Int
    BY <1>2, <1>3 DEF Nodes, Fields, Lighter
  <2>3. CASE side = "left"
    <3>1. m = [node EXCEPT ![p].left = r, ![p].balance_factor = b, ![r].parent = p,
                           ![r].left = node[k].left, ![r].balance_factor = @ - 1]
      BY <2>1, <2>3
    <3> HIDE DEF m, b
    <3> QED
      BY <1>2, <1>3, <2>2, <3>1 DEF Nodes, Fields
  <2>4. CASE side = "right"
    <3>1. m = [node EXCEPT ![p].right = r, ![p].balance_factor = b, ![r].parent = p,
                           ![r].left = node[k].left, ![r].balance_factor = @ - 1]
      BY <2>1, <2>4
    <3> HIDE DEF m, b
    <3> QED
      BY <1>2, <1>3, <2>2, <3>1 DEF Nodes, Fields
  <2> QED
    BY <1>4, <2>3, <2>4
<1> HIDE DEF m
<1> QED
  BY <1>1, <1>2, <1>5, TreeOnRemoved

LEMMA TreeOnRemoveRootWithTwo ==
    ASSUME TreeInv, NEW k \in Keys, RemoveRootWithTwo(k)
    PROVE  TreeInv'
<1> DEFINE l == node[k].left
           r == node[k].right
           rr == node[r].right
           m1 == IF rr = NULL THEN node
                 ELSE [node EXCEPT ![rr].parent = node[r].parent, ![rr].height = node[r].height]
           m == [m1 EXCEPT ![r].parent = NULL, ![r].height = node[k].height,
                           ![r].left = l, ![l].parent = r]
           how == IF rr = NULL THEN "none" ELSE "parent"
           q == Freed(m, k)
<1>1. /\ Callable /\ FindNode(k) /\ l # NULL /\ r # NULL /\ node[r].left = NULL
      /\ Parent(k) = NULL /\ root' = r /\ Removed(k, m, k, how)
  BY DEF RemoveRootWithTwo, HasTwo
<1>2. Sound /\ live # {} /\ node \in Nodes /\ k = root /\ k \in live
  BY <1>1, RemovalFinds
<1>3. PICK sub : Held(node, root, live, sub) /\ NodeOK(node, live, sub, k)
  BY <1>1, RemovalFinds
<1>4. /\ l \in live /\ r \in live /\ live \in SUBSET Keys /\ NULL \notin Keys
      /\ l \in Keys /\ r \in Keys /\ rr \in Links /\ node[r].parent \in Links
      /\ node[r].height \in Nat /\ node[k].height \in Nat
  BY <1>1, <1>2, <1>3, FieldsIn, KeysAreNat DEF Held, NodeOK
<1>5. l # r /\ l # k /\ r # k
  <2>1. l \in sub[l] /\ r \in sub[r]
    BY <1>3, <1>4 DEF Held, Shape, NodeOK
  <2>2. l < k /\ k < r /\ l \in Int /\ k \in Int /\ r \in Int
    BY <1>1, <1>3, <1>4, <2>1, KeysAreNat DEF NodeOK, Below
  <2> QED
    BY <2>2
<1> HIDE DEF l, r, rr
<1>6. m1 \in Nodes
  BY <1>2, <1>4 DEF Nodes, Fields, Links
<1> HIDE DEF m1
<1>7. /\ m \in Nodes /\ \A y \in Keys \ {r, l} : m[y] = m1[y]
      /\ m[r].parent = NULL /\ m[r].left = l /\ m[r].right = m1[r].right /\ m[r].data = m1[r].data
      /\ m[l].parent = r /\ m[l].left = m1[l].left /\ m[l].right = m1[l].right
      /\ m[l].data = m1[l].data
  <2>1. m1[r] \in Fields /\ m1[l] \in Fields
    BY <1>4, <1>6 DEF Nodes
  <2>2. /\ m[r] = [m1[r] EXCEPT !.parent = NULL, !.height = node[k].height, !.left = l]
        /\ m[l] = [m1[l] EXCEPT !.parent = r] /\ \A y \in Keys \ {r, l} : m[y] = m1[y]
    BY <1>4, <1>5, <1>6 DEF Nodes
  <2>3. m = [y \in Keys |-> m[y]]
    BY <1>6 DEF Nodes
  <2> HIDE DEF m
  <2>4. m[r] \in Fields /\ m[l] \in Fields
    BY <1>4, <2>1, <2>2 DEF Fields, Links
  <2>5. m \in Nodes
    <3>1. \A y \in Keys : m[y] \in Fields
      BY <1>6, <2>2, <2>4 DEF Nodes
    <3> QED
      BY <2>3, <3>1 DEF Nodes
  <2> QED
    BY <2>1, <2>2, <2>5 DEF Fields
<1> HIDE DEF m
<1>8. q \in Nodes /\ q[k] = Blank /\ \A y \in Keys \ {k} : q[y] = m[y]
  <2>1. Blank \in Fields
    BY DEF Blank, Fields, Links
  <2> QED
    BY <1>7, <2>1 DEF Freed, Nodes
<1> HIDE DEF q
<1>9. ASSUME rr = NULL PROVE HoldsTree(q, r, live \ {k})
  <2>1. m1 = node
    BY <1>9 DEF m1
  <2>2. /\ \A y \in Keys \ live : q[y] = node[y]
        /\ \A y \in live \ {k} : q[y].data = node[y].data
        /\ \A y \in live \ {k, r} : q[y].left = node[y].left /\ q[y].right = node[y].right
        /\ \A y \in live \ {k, r, l} : q[y].parent = node[y].parent
        /\ q[r].parent = NULL /\ q[r].left = l /\ q[r].right = NULL /\ q[l].parent = r
    <3>1. \A y \in live : y \in Keys
      BY <1>4
    <3>2. \A y \in Keys \ live : y # k /\ y # r /\ y # l
      BY <1>2, <1>4
    <3>3. node[r].right = NULL
      BY <1>9 DEF rr
    <3> QED
      BY <1>4, <1>5, <1>7, <1>8, <2>1, <3>1, <3>2, <3>3
  <2>3. node[k].left = l /\ node[k].right = r /\ node[r].left = NULL /\ node[r].right = NULL
    BY <1>1, <1>9 DEF l, r, rr
  <2>4. Held(node, root, live, sub) /\ k = root
    BY <1>2, <1>3
  <2>5. Replaced(node, q, live, k, l, r)
    BY <1>2, <1>4, <1>8, <2>2, <2>3 DEF Replaced
  <2>6. Held(node, k, live, sub)
    BY <2>4
  <2> QED
    BY ONLY <2>5, <2>6, ReplaceRootHeld
<1>10. how = "none" => HoldsTree(Freed(m, k), root', live \ {k})
  BY <1>1, <1>9 DEF q
<1>11. how \in {"none", "parent", "successor"} /\ root' \in Links
  BY <1>1, <1>4 DEF Links
<1> HIDE DEF how
<1> QED
  BY <1>1, <1>2, <1>7, <1>10, <1>11, TreeOnRemoved

\* binary_tree_destroy
LEMMA TreeOnDestroy ==
    ASSUME TreeInv, Destroy
    PROVE  TreeInv'
<1>1. Sound
  BY DEF Destroy, Callable, Sound
<1>2. PICK sub : TreeOf(sub)
  BY <1>1, SoundTree
<1>3. Reachable = live
  BY <1>2, ReachableIs
<1>4. \A y \in Keys \ live : node[y] = Blank
  BY <1>2 DEF TreeOf, Tree
<1>5. /\ node' = [y \in Keys |-> IF y \in Reachable THEN Blank ELSE node[y]]
      /\ live' = live \ Reachable /\ root' = NULL /\ items' = 0 /\ present' = {}
      /\ open' = FALSE /\ ret'.of = NULL /\ flaw' = flaw
  BY DEF Destroy, Answer
<1>6. node' = [y \in Keys |-> Blank] /\ live' = {}
  BY <1>3, <1>4, <1>5
<1>7. HoldsTree(node, root, live)' /\ node' \in Nodes
  <2>1. HoldsTree(node', root', live')
    BY <1>5, <1>6, EmptyHeld
  <2> QED
    BY <2>1 DEF HoldsTree, Held, Shape, NodeOK, Below
<1>8. Cardinality({}) = 0 /\ 0 \in 0 .. Cardinality(Keys)
  BY TreeAssumption, FS_EmptySet, FS_CardinalityType
<1> QED
  BY <1>5, <1>6, <1>7, <1>8, NodesIs DEF TreeInv, TypeOK, Links

\* The other calls leave the nodes alone.
LEMMA TreeUntouched ==
    ASSUME TreeInv, UNCHANGED <<node, root, items, live, present>>, open' \in BOOLEAN,
           ret'.of \in Links, flaw' \in {flaw, "null"}
    PROVE  TreeInv'
<1>1. TypeOK'
  BY DEF TreeInv, TypeOK
<1>2. ASSUME Sound'
      PROVE  HoldsTree(node, root, live)' /\ (live = present)'
                          /\ (items = Cardinality(live))'
  <2>1. Sound
    BY <1>2 DEF Sound
  <2>2. HoldsTree(node', root', live')
    BY <2>1 DEF TreeInv
  <2> QED
    BY <2>1, <2>2 DEF TreeInv, HoldsTree, Held, Shape, NodeOK, Below
<1> QED
  BY <1>1, <1>2 DEF TreeInv

\* Every step keeps the invariant.
LEMMA TreeStep == TreeInv /\ [Next]_vars => TreeInv'
<1> SUFFICES ASSUME TreeInv, [Next]_vars PROVE TreeInv'
  OBVIOUS
<1>0. open \in BOOLEAN /\ ret.of \in Links /\ NULL \in Links /\ \A k \in Keys : k \in Links
  BY DEF TreeInv, TypeOK, Links
<1>1. CASE Create
  BY <1>0, <1>1, TreeUntouched DEF Create
<1>2. CASE Destroy
  BY <1>2, TreeOnDestroy
<1>3. CASE RemoveRoot
  BY <1>0, <1>3, TreeUntouched DEF RemoveRoot
<1>4. CASE TreeHeight
  BY <1>0, <1>4, TreeUntouched DEF TreeHeight, Answer
<1>5. ASSUME NEW k \in Keys, Insert(k) PROVE TreeInv'
  BY <1>5, TreeOnInsert
<1>6. ASSUME NEW k \in Keys, InsertFails(k) PROVE TreeInv'
  BY <1>0, <1>6, TreeUntouched DEF InsertFails, Answer
<1>7. ASSUME NEW k \in Keys, FindItem(k) PROVE TreeInv'
  BY <1>0, <1>7, TreeUntouched DEF FindItem, Answer
<1>8. ASSUME NEW k \in Keys, RemoveFails(k) PROVE TreeInv'
  BY <1>0, <1>8, TreeUntouched DEF RemoveFails, Answer
<1>9. ASSUME NEW k \in Keys, RemoveLeaf(k) PROVE TreeInv'
  BY <1>9, TreeOnRemoveLeaf
<1>10. ASSUME NEW k \in Keys, RemoveWithOneChild(k) PROVE TreeInv'
  BY <1>10, TreeOnRemoveWithOneChild
<1>11. ASSUME NEW k \in Keys, RemoveForSuccessor(k) PROVE TreeInv'
  BY <1>11, TreeOnRemoveForSuccessor
<1>12. ASSUME NEW k \in Keys, RemoveRootWithTwo(k) PROVE TreeInv'
  BY <1>12, TreeOnRemoveRootWithTwo
<1>13. ASSUME NEW k \in Keys, RemoveInnerWithTwo(k) PROVE TreeInv'
  BY <1>13, TreeOnRemoveInnerWithTwo
<1>14. CASE UNCHANGED vars
  BY <1>0, <1>14, TreeUntouched DEF vars
<1> QED
  BY <1>1, <1>2, <1>3, <1>4, <1>5, <1>6, <1>7, <1>8, <1>9, <1>10, <1>11, <1>12, <1>13, <1>14
     DEF Next

LEMMA TreeAlways == Spec => []TreeInv
  BY TreeInit, TreeStep, PTL DEF Spec

\* The invariant implies both properties.
LEMMA TreeLinksAgree == TreeInv => LinksAgree
<1> SUFFICES ASSUME TreeInv, Sound
             PROVE  /\ root # NULL => node[root].parent = NULL
                    /\ \A n \in live, s \in {"left", "right"} :
                           node[n][s] # NULL => node[n][s] \in live /\ node[node[n][s]].parent = n
                    /\ \A n \in live \ {root} :
                           LET p == node[n].parent
                           IN  p \in live /\ n \in {node[p].left, node[p].right}
  BY DEF LinksAgree, TreeInv
<1>1. PICK sub : TreeOf(sub)
  BY SoundTree
<1>2. root # NULL => node[root].parent = NULL
  BY <1>1 DEF TreeOf
<1>3. ASSUME NEW n \in live, NEW s \in {"left", "right"}, node[n][s] # NULL
      PROVE  node[n][s] \in live /\ node[node[n][s]].parent = n
  <2>1. NodeOK(node, live, sub, n)
    BY <1>1 DEF TreeOf, Tree, Shape
  <2> QED
    BY <1>3, <2>1 DEF NodeOK
<1>4. ASSUME NEW n \in live \ {root}
      PROVE  node[n].parent \in live
             /\ n \in {node[node[n].parent].left, node[node[n].parent].right}
  BY <1>1, <1>4, ParentOf DEF IsChild
<1> QED
  BY <1>2, <1>3, <1>4

LEMMA TreeHoldsPresent == TreeInv => HoldsWhatIsPresent
<1> SUFFICES ASSUME TreeInv, Sound
             PROVE  /\ \A k \in Keys : Find(k) = IF k \in present THEN k ELSE NULL
                    /\ items = Cardinality(present)
                    /\ live = present
  BY DEF HoldsWhatIsPresent
<1>1. PICK sub : TreeOf(sub)
  BY SoundTree
<1>2. live = present /\ items = Cardinality(live) /\ \A k \in Keys : FindNode(k) <=> k \in live
  BY SoundTree
<1>3. \A k \in live : node[k].data = k
  BY <1>1 DEF TreeOf, Tree, Shape, NodeOK
<1> QED
  BY <1>2, <1>3 DEF Find

\* For every finite set of keys and every order of insertions, with their rotations,
\* and removals: as long as none of the named defects was met, parent and child links
\* are each other's inverse and lead to allocated nodes only.
THEOREM TreeKeepsItsLinks == Spec => []LinksAgree
  BY TreeAlways, TreeLinksAgree, PTL

\* Likewise binary_tree_find finds each key that was inserted and not removed, with its
\* own data, and no other; the item count is their number and their nodes are allocated.
THEOREM TreeHoldsItsKeys == Spec => []HoldsWhatIsPresent
  BY TreeAlways, TreeHoldsPresent, PTL

=============================================================================
