-------------------------------- MODULE Avl --------------------------------
(***************************************************************************)
(* server/14/avl.cpp: the intrusive AVL tree of the sorted sets.  A tree   *)
(* is a function from nodes to their AVLNode; an operation takes one and   *)
(* gives the one the code leaves.  The pairs of mirrored functions         *)
(* (rot_left and rot_right, avl_fix_left and avl_fix_right) are one        *)
(* operator each, with the side as a parameter.                            *)
(***************************************************************************)
EXTENDS Integers, FiniteSets

CONSTANT NULL

New == [left |-> NULL, right |-> NULL, parent |-> NULL, depth |-> 1, cnt |-> 1]

Opp(d) == IF d = "left" THEN "right" ELSE "left"

Depth(t, n) == IF n = NULL THEN 0 ELSE t[n].depth
Cnt(t, n)   == IF n = NULL THEN 0 ELSE t[n].cnt

Higher(a, b) == IF a < b THEN b ELSE a

AvlUpdate(t, n) ==
  [t EXCEPT ![n].depth = 1 + Higher(Depth(t, t[n].left), Depth(t, t[n].right)),
            ![n].cnt   = 1 + Cnt(t, t[n].left) + Cnt(t, t[n].right)]

\* The link of p that holds n.
Side(t, p, n) == IF t[p].left = n THEN "left" ELSE "right"

SetParent(t, n, p) == IF n = NULL THEN t ELSE [t EXCEPT ![n].parent = p]

\* t with n hanging from p where old did
Replace(t, p, old, n) == [t EXCEPT ![p][Side(t, p, old)] = n]

Turned(t, n, d) ==
  LET m == t[n][Opp(d)]
      c == t[m][d]
  IN  [SetParent(t, c, n) EXCEPT ![n][Opp(d)] = c, ![n].parent = m,
                                 ![m][d] = n, ![m].parent = t[n].parent]

\* The subtree of n turned to side d; its other child is the new top.
Rot(t, n, d) == AvlUpdate(AvlUpdate(Turned(t, n, d), n), t[n][Opp(d)])

\* The d subtree of n is too deep.
FixSide(t, n, d) ==
  LET c == t[n][d]
      i == t[c][Opp(d)]
      u == IF Depth(t, t[c][d]) < Depth(t, i)
           THEN [Rot(t, c, d) EXCEPT ![n][d] = i] ELSE t
  IN  [tree |-> Rot(u, n, Opp(d)), top |-> u[n][d]]

\* One round of avl_fix: node n and the top of its subtree afterwards.
FixNode(t, n) ==
  LET u == AvlUpdate(t, n)
      l == Depth(u, u[n].left)
      r == Depth(u, u[n].right)
  IN  IF l = r + 2 THEN FixSide(u, n, "left")
      ELSE IF l + 2 = r THEN FixSide(u, n, "right")
      ELSE [tree |-> u, top |-> n]

\* One round of the loop of avl_fix, which is over when at is NULL.
Round(s) ==
  LET n == s.at
      p == s.tree[n].parent
      f == FixNode(s.tree, n)
  IN  IF n = NULL THEN s
      ELSE IF p = NULL THEN [tree |-> f.tree, at |-> NULL, root |-> f.top]
      ELSE [tree |-> [f.tree EXCEPT ![p][Side(s.tree, p, n)] = f.top], at |-> p, root |-> NULL]

\* The loop climbs, so it is over after as many rounds as there are nodes.
AvlFix(t, n) ==
  LET after[k \in 0..Cardinality(DOMAIN t)] ==
        IF k = 0 THEN [tree |-> t, at |-> n, root |-> NULL] ELSE Round(after[k - 1])
  IN  after[Cardinality(DOMAIN t)]

Leftmost(t, n) ==
  LET first[m \in DOMAIN t] == IF t[m].left = NULL THEN m ELSE first[t[m].left]
  IN  first[n]

\* No right subtree: the left one takes the node's place.
Splice(t, n) ==
  LET l == t[n].left
      p == t[n].parent
      u == SetParent(t, l, p)
  IN  IF p = NULL THEN [tree |-> u, root |-> l]
      ELSE AvlFix(Replace(u, p, n, l), p)

\* v sits where n was in t, the tree after deleting v
Seated(d, t, n, v) ==
  LET p == d.tree[n].parent
  IN  IF p = NULL THEN [tree |-> t, root |-> v]
      ELSE [tree |-> Replace(t, p, n, v), root |-> d.root]

TakePlace_LeftOnly(d, n, v) ==
  LET t == [d.tree EXCEPT ![v] = d.tree[n]]
  IN  Seated(d, SetParent(t, t[v].left, v), n, v)

\* v takes the fields of n, and the children and the parent learn of it.
TakePlace(d, n, v) ==
  LET t == [d.tree EXCEPT ![v] = d.tree[n]]
  IN  Seated(d, SetParent(SetParent(t, t[v].left, v), t[v].right, v), n, v)

AvlDel(t, n) ==
  LET del[m \in DOMAIN t] ==
        IF t[m].right = NULL THEN Splice(t, m)
        ELSE LET v == Leftmost(t, t[m].right) IN TakePlace(del[v], m, v)
  IN  del[n]

\* The node that many places after n, or before it; pos is where the loop is.
AvlOffset(t, n, offset) ==
  LET seek[at \in (DOMAIN t) \X Int] ==
        LET m == at[1]  pos == at[2]
            l == t[m].left  r == t[m].right  p == t[m].parent
        IN  IF offset = pos THEN m
            ELSE IF pos < offset /\ pos + Cnt(t, r) >= offset
                 THEN seek[<<r, pos + Cnt(t, t[r].left) + 1>>]
            ELSE IF pos > offset /\ pos - Cnt(t, l) <= offset
                 THEN seek[<<l, pos - (Cnt(t, t[l].right) + 1)>>]
            ELSE IF p = NULL THEN NULL
            ELSE IF t[p].right = m THEN seek[<<p, pos - (Cnt(t, l) + 1)>>]
            ELSE seek[<<p, pos + Cnt(t, r) + 1>>]
  IN  seek[<<n, 0>>]
=============================================================================
