----------------------------- MODULE ZSetProofs -----------------------------
(***************************************************************************)
(* What is proved of the sorted set for any names and scores: after any    *)
(* calls its AVL tree is a search tree of the names in the hash table with *)
(* sound depths, counts and parent links, it lists them by score and then  *)
(* by name, the calls are those of a map from names to scores, and a query *)
(* of any tuple, offset and limit answers what the sorted list answers.    *)
(***************************************************************************)
EXTENDS ZSet, StructureProofs, SequenceTheorems

Sides == {"left", "right"}

Kid(t, y, d) == t[y][d]

Par(t, y) == t[y].parent

AvlNode == [left : Name \cup {NULL}, right : Name \cup {NULL}, parent : Name \cup {NULL},
            depth : Nat, cnt : Nat]

Trees(X) == [X -> AvlNode]

SameKids(u, t, y) == \A e \in Sides : Kid(u, y, e) = Kid(t, y, e)

SameSize(u, t, y) == Depth(u, y) = Depth(t, y) /\ Cnt(u, y) = Cnt(t, y)

LEMMA Opposite ==
  ASSUME NEW d \in Sides
  PROVE  /\ Opp(d) \in Sides /\ Opp(d) # d /\ Opp(Opp(d)) = d
         /\ \A e \in Sides : e # d => e = Opp(d)
BY DEF Sides, Opp

LEMMA HigherNat ==
  ASSUME NEW i \in Nat, NEW j \in Nat
  PROVE  Higher(i, j) \in Nat /\ Higher(i, j) = Higher(j, i)
BY DEF Higher

-----------------------------------------------------------------------------
(* The fields of the nodes after the assignments of an operation *)

IsFun(t, X) == t = [y \in X |-> t[y]]

LEMMA PutNode ==
  ASSUME NEW X, NEW t, t = [y \in X |-> t[y]], NEW n \in X, NEW i
  PROVE  [t EXCEPT ![n] = i] = [y \in X |-> IF y = n THEN i ELSE t[y]]
OBVIOUS

LEMMA PutLeftParent ==
  ASSUME NEW X, NEW t, t = [y \in X |-> t[y]], NEW n \in X, NEW i, NEW j
  PROVE  [t EXCEPT ![n].left = i, ![n].parent = j]
           = [t EXCEPT ![n] = [t[n] EXCEPT !.left = i, !.parent = j]]
OBVIOUS

LEMMA PutRightParent ==
  ASSUME NEW X, NEW t, t = [y \in X |-> t[y]], NEW n \in X, NEW i, NEW j
  PROVE  [t EXCEPT ![n].right = i, ![n].parent = j]
           = [t EXCEPT ![n] = [t[n] EXCEPT !.right = i, !.parent = j]]
OBVIOUS

LEMMA PutSizes ==
  ASSUME NEW X, NEW t, t = [y \in X |-> t[y]], NEW n \in X, NEW i, NEW j
  PROVE  [t EXCEPT ![n].depth = i, ![n].cnt = j]
           = [t EXCEPT ![n] = [t[n] EXCEPT !.depth = i, !.cnt = j]]
OBVIOUS

TurnLeftPut(u, t, x, m, c, q, X) ==
  u = [y \in X |-> IF y = x THEN [t[x] EXCEPT !.right = c, !.parent = m]
                   ELSE IF y = m THEN [t[m] EXCEPT !.left = x, !.parent = q] ELSE t[y]]

LEMMA PutTurnLeft ==
  ASSUME NEW X, NEW t, IsFun(t, X), NEW x \in X, NEW m \in X, x # m, NEW c, NEW q, NEW u,
         u = [t EXCEPT ![x].right = c, ![x].parent = m, ![m].left = x, ![m].parent = q]
  PROVE  TurnLeftPut(u, t, x, m, c, q, X)
<1>. USE DEF IsFun, TurnLeftPut
<1>1. PICK v : v = [t EXCEPT ![x].right = c, ![x].parent = m]
  OBVIOUS
<1>2. v = [y \in X |-> IF y = x THEN [t[x] EXCEPT !.right = c, !.parent = m] ELSE t[y]]
  BY <1>1, PutRightParent, PutNode
<1>3. v = [y \in X |-> v[y]] /\ v[m] = t[m]
  BY <1>2
<1>4. [v EXCEPT ![m].left = x, ![m].parent = q] = [v EXCEPT ![m] = [t[m] EXCEPT !.left = x, !.parent = q]]
  BY <1>3, PutLeftParent
<1>5. @ = [y \in X |-> IF y = m THEN [t[m] EXCEPT !.left = x, !.parent = q] ELSE v[y]]
  BY <1>3, PutNode
<1>6. [t EXCEPT ![x].right = c, ![x].parent = m, ![m].left = x, ![m].parent = q]
        = [v EXCEPT ![m].left = x, ![m].parent = q]
  BY <1>1
<1>. QED
  BY <1>2, <1>4, <1>5, <1>6

TurnRightPut(u, t, x, m, c, q, X) ==
  u = [y \in X |-> IF y = x THEN [t[x] EXCEPT !.left = c, !.parent = m]
                   ELSE IF y = m THEN [t[m] EXCEPT !.right = x, !.parent = q] ELSE t[y]]

LEMMA PutTurnRight ==
  ASSUME NEW X, NEW t, IsFun(t, X), NEW x \in X, NEW m \in X, x # m, NEW c, NEW q, NEW u,
         u = [t EXCEPT ![x].left = c, ![x].parent = m, ![m].right = x, ![m].parent = q]
  PROVE  TurnRightPut(u, t, x, m, c, q, X)
<1>. USE DEF IsFun, TurnRightPut
<1>1. PICK v : v = [t EXCEPT ![x].left = c, ![x].parent = m]
  OBVIOUS
<1>2. v = [y \in X |-> IF y = x THEN [t[x] EXCEPT !.left = c, !.parent = m] ELSE t[y]]
  BY <1>1, PutLeftParent, PutNode
<1>3. v = [y \in X |-> v[y]] /\ v[m] = t[m]
  BY <1>2
<1>4. [v EXCEPT ![m].right = x, ![m].parent = q] = [v EXCEPT ![m] = [t[m] EXCEPT !.right = x, !.parent = q]]
  BY <1>3, PutRightParent
<1>5. @ = [y \in X |-> IF y = m THEN [t[m] EXCEPT !.right = x, !.parent = q] ELSE v[y]]
  BY <1>3, PutNode
<1>6. [t EXCEPT ![x].left = c, ![x].parent = m, ![m].right = x, ![m].parent = q]
        = [v EXCEPT ![m].right = x, ![m].parent = q]
  BY <1>1
<1>. QED
  BY <1>2, <1>4, <1>5, <1>6

\* What is known of a node of a tree.
LEMMA NodeType ==
  ASSUME NEW X, X \subseteq Name, NEW t \in Trees(X), NEW y \in X
  PROVE  /\ y # NULL
         /\ t[y] \in AvlNode
         /\ Kid(t, y, "left") = t[y].left /\ Kid(t, y, "right") = t[y].right
         /\ Par(t, y) = t[y].parent
         /\ Depth(t, y) = t[y].depth /\ Cnt(t, y) = t[y].cnt
         /\ Par(t, y) \in Name \cup {NULL} /\ Depth(t, y) \in Nat /\ Cnt(t, y) \in Nat
         /\ \A d \in Sides : Kid(t, y, d) \in Name \cup {NULL}
BY NameAssumption DEF Trees, AvlNode, Sides, Kid, Par, Depth, Cnt

LEMMA SizeType ==
  ASSUME NEW X, X \subseteq Name, NEW t \in Trees(X), NEW k \in X \cup {NULL}
  PROVE  Depth(t, k) \in Nat /\ Cnt(t, k) \in Nat /\ Depth(t, NULL) = 0 /\ Cnt(t, NULL) = 0
BY NodeType DEF Depth, Cnt

\* u is t with the sizes of n computed anew.
Updated(u, t, n, X) ==
  /\ u \in Trees(X)
  /\ \A y \in X : SameKids(u, t, y) /\ Par(u, y) = Par(t, y)
  /\ \A y \in X \ {n} : SameSize(u, t, y)
  /\ \A d \in Sides :
       /\ Depth(u, n) = 1 + Higher(Depth(t, Kid(t, n, d)), Depth(t, Kid(t, n, Opp(d))))
       /\ Cnt(u, n) = 1 + Cnt(t, Kid(t, n, d)) + Cnt(t, Kid(t, n, Opp(d)))

LEMMA UpdateFields ==
  ASSUME NEW X, X \subseteq Name, NEW t \in Trees(X), NEW n \in X,
         \A e \in Sides : Kid(t, n, e) \in X \cup {NULL}
  PROVE  Updated(AvlUpdate(t, n), t, n, X)
<1>1. PICK e : e = 1 + Higher(Depth(t, t[n].left), Depth(t, t[n].right))
  OBVIOUS
<1>2. PICK c : c = 1 + Cnt(t, t[n].left) + Cnt(t, t[n].right)
  OBVIOUS
<1>3. t[n].left \in X \cup {NULL} /\ t[n].right \in X \cup {NULL}
  BY NodeType DEF Sides
<1>4. /\ Depth(t, t[n].left) \in Nat /\ Depth(t, t[n].right) \in Nat
      /\ Cnt(t, t[n].left) \in Nat /\ Cnt(t, t[n].right) \in Nat
  BY <1>3, SizeType
<1>5. Higher(Depth(t, t[n].left), Depth(t, t[n].right)) \in Nat
  BY <1>4, HigherNat
<1>6. e \in Nat /\ c \in Nat
  BY <1>1, <1>2, <1>4, <1>5
<1>7. PICK u : u = AvlUpdate(t, n)
  OBVIOUS
<1>8. u = [t EXCEPT ![n].depth = e, ![n].cnt = c]
  BY <1>1, <1>2, <1>7 DEF AvlUpdate
<1>9. t = [y \in X |-> t[y]] /\ t[n] \in AvlNode
  BY DEF Trees
<1>10. u = [t EXCEPT ![n] = [t[n] EXCEPT !.depth = e, !.cnt = c]]
  BY <1>8, <1>9, PutSizes
<1>11. u = [y \in X |-> IF y = n THEN [t[n] EXCEPT !.depth = e, !.cnt = c] ELSE t[y]]
  BY <1>9, <1>10, PutNode
<1>12. [t[n] EXCEPT !.depth = e, !.cnt = c] \in AvlNode
  BY <1>6, <1>9 DEF AvlNode
<1>13. u \in Trees(X)
  BY <1>11, <1>12 DEF Trees
<1>14. /\ u[n].left = t[n].left /\ u[n].right = t[n].right /\ u[n].parent = t[n].parent
       /\ u[n].depth = e /\ u[n].cnt = c
  BY <1>9, <1>11 DEF AvlNode
<1>15. SameKids(u, t, n) /\ Par(u, n) = Par(t, n) /\ Depth(u, n) = e /\ Cnt(u, n) = c
  BY <1>13, <1>14, NodeType DEF SameKids, Sides
<1>16. ASSUME NEW y \in X \ {n}
       PROVE  SameKids(u, t, y) /\ Par(u, y) = Par(t, y) /\ SameSize(u, t, y)
  BY <1>11 DEF SameKids, Kid, Par, SameSize, Depth, Cnt
<1>17. ASSUME NEW d \in Sides
       PROVE  /\ e = 1 + Higher(Depth(t, Kid(t, n, d)), Depth(t, Kid(t, n, Opp(d))))
              /\ c = 1 + Cnt(t, Kid(t, n, d)) + Cnt(t, Kid(t, n, Opp(d)))
  <2>1. Kid(t, n, "left") = t[n].left /\ Kid(t, n, "right") = t[n].right
    BY NodeType
  <2>2. Higher(Depth(t, t[n].left), Depth(t, t[n].right)) = Higher(Depth(t, t[n].right), Depth(t, t[n].left))
    BY <1>4, HigherNat
  <2>3. CASE d = "left"
    BY <1>1, <1>2, <2>1, <2>3 DEF Opp
  <2>4. CASE d = "right"
    <3>1. c = 1 + Cnt(t, t[n].right) + Cnt(t, t[n].left)
      BY <1>2, <1>4
    <3>. QED
      BY <1>1, <2>1, <2>2, <2>4, <3>1 DEF Opp
  <2>. QED
    BY <2>3, <2>4 DEF Sides
<1>. QED
  BY <1>7, <1>13, <1>15, <1>16, <1>17 DEF Updated

\* u is t with p as the parent of k.
ParentSet(u, t, k, p, X) ==
  /\ u \in Trees(X)
  /\ \A y \in X : SameKids(u, t, y) /\ SameSize(u, t, y)
  /\ \A y \in X : Par(u, y) = IF y = k THEN p ELSE Par(t, y)

LEMMA SetParentFields ==
  ASSUME NEW X, X \subseteq Name, NEW t \in Trees(X), NEW k \in X \cup {NULL}, NEW p \in Name \cup {NULL}
  PROVE  ParentSet(SetParent(t, k, p), t, k, p, X)
<1>1. CASE k = NULL
  <2>1. SetParent(t, k, p) = t
    BY <1>1 DEF SetParent
  <2>. QED
    BY <1>1, <2>1, NodeType DEF ParentSet, SameKids, SameSize
<1>2. CASE k # NULL
  <2>1. PICK u : u = SetParent(t, k, p)
    OBVIOUS
  <2>2. t = [y \in X |-> t[y]] /\ k \in X
    BY <1>2 DEF Trees
  <2>3. u = [t EXCEPT ![k] = [t[k] EXCEPT !.parent = p]]
    BY <1>2, <2>1 DEF SetParent
  <2>4. u = [y \in X |-> IF y = k THEN [t[k] EXCEPT !.parent = p] ELSE t[y]]
    BY <2>2, <2>3, PutNode
  <2>5. t[k] \in AvlNode
    BY <2>2 DEF Trees
  <2>6. [t[k] EXCEPT !.parent = p] \in AvlNode
    BY <2>5 DEF AvlNode
  <2>7. u \in Trees(X)
    BY <2>4, <2>6 DEF Trees
  <2>8. /\ u[k].left = t[k].left /\ u[k].right = t[k].right /\ u[k].parent = p
        /\ u[k].depth = t[k].depth /\ u[k].cnt = t[k].cnt
    BY <2>2, <2>4, <2>5 DEF AvlNode
  <2>9. SameKids(u, t, k) /\ SameSize(u, t, k) /\ Par(u, k) = p
    BY <2>2, <2>7, <2>8, NodeType DEF SameKids, SameSize, Sides
  <2>10. ASSUME NEW y \in X \ {k}
         PROVE  SameKids(u, t, y) /\ SameSize(u, t, y) /\ Par(u, y) = Par(t, y)
    BY <2>4 DEF SameKids, SameSize, Kid, Par, Depth, Cnt
  <2>. QED
    BY <2>1, <2>7, <2>9, <2>10 DEF ParentSet
<1>. QED
  BY <1>1, <1>2

\* u is t with k as the d child of p.
KidSet(u, t, p, d, k, X) ==
  /\ u \in Trees(X)
  /\ \A y \in X : Par(u, y) = Par(t, y) /\ SameSize(u, t, y)
  /\ \A y \in X : y # p => SameKids(u, t, y)
  /\ Kid(u, p, d) = k /\ Kid(u, p, Opp(d)) = Kid(t, p, Opp(d))

LEMMA SetKidFields ==
  ASSUME NEW X, X \subseteq Name, NEW t \in Trees(X), NEW p \in X, NEW d \in Sides, NEW k \in Name \cup {NULL}
  PROVE  KidSet([t EXCEPT ![p][d] = k], t, p, d, k, X)
<1>1. PICK u : u = [t EXCEPT ![p][d] = k]
  OBVIOUS
<1>2. t = [y \in X |-> t[y]] /\ t[p] \in AvlNode
  BY DEF Trees
<1>3. PICK f : f = [t[p] EXCEPT ![d] = k]
  OBVIOUS
<1>4. u = [t EXCEPT ![p] = f]
  BY <1>1, <1>3
<1>5. u = [y \in X |-> IF y = p THEN f ELSE t[y]]
  BY <1>2, <1>4, PutNode
<1>6. /\ f \in AvlNode /\ f.parent = t[p].parent /\ f.depth = t[p].depth /\ f.cnt = t[p].cnt
      /\ f[d] = k /\ f[Opp(d)] = t[p][Opp(d)]
  <2>1. CASE d = "left"
    <3>1. f = [t[p] EXCEPT !.left = k]
      BY <1>3, <2>1
    <3>. QED
      BY <1>2, <2>1, <3>1 DEF AvlNode, Opp
  <2>2. CASE d = "right"
    <3>1. f = [t[p] EXCEPT !.right = k]
      BY <1>3, <2>2
    <3>. QED
      BY <1>2, <2>2, <3>1 DEF AvlNode, Opp
  <2>. QED
    BY <2>1, <2>2 DEF Sides
<1>7. u \in Trees(X)
  BY <1>5, <1>6 DEF Trees
<1>8. u[p] = f
  BY <1>5
<1>9. Par(u, p) = Par(t, p) /\ SameSize(u, t, p) /\ Kid(u, p, d) = k /\ Kid(u, p, Opp(d)) = Kid(t, p, Opp(d))
  BY <1>6, <1>7, <1>8, NodeType DEF SameSize, Kid
<1>10. ASSUME NEW y \in X \ {p}
       PROVE  SameKids(u, t, y) /\ SameSize(u, t, y) /\ Par(u, y) = Par(t, y)
  BY <1>5 DEF SameKids, SameSize, Kid, Par, Depth, Cnt
<1>. QED
  BY <1>1, <1>7, <1>9, <1>10 DEF KidSet

\* The subtree of x turned to side d, its sizes as they were.
TurnedTo(u, t, x, d, X) ==
  LET m == Kid(t, x, Opp(d))
      c == Kid(t, m, d)
  IN  /\ u \in Trees(X)
      /\ \A y \in X \ {x, m} : SameKids(u, t, y)
      /\ \A y \in X \ {x, m} : Par(u, y) = IF y = c THEN x ELSE Par(t, y)
      /\ \A y \in X : SameSize(u, t, y)
      /\ Kid(u, x, d) = Kid(t, x, d) /\ Kid(u, x, Opp(d)) = c /\ Par(u, x) = m
      /\ Kid(u, m, d) = x /\ Kid(u, m, Opp(d)) = Kid(t, m, Opp(d)) /\ Par(u, m) = Par(t, x)

LEMMA TurnedFields ==
  ASSUME NEW X, X \subseteq Name, NEW t \in Trees(X), NEW x \in X, NEW d \in Sides,
         NEW m \in X, m = Kid(t, x, Opp(d)), m # x,
         NEW c \in X \cup {NULL}, c = Kid(t, m, d), c # x, c # m
  PROVE  TurnedTo(Turned(t, x, d), t, x, d, X)
<1>1. PICK s : s = SetParent(t, c, x)
  OBVIOUS
<1>2. /\ s \in Trees(X)
      /\ \A y \in X : SameKids(s, t, y) /\ SameSize(s, t, y)
      /\ \A y \in X : Par(s, y) = IF y = c THEN x ELSE Par(t, y)
  <2>1. x \in Name \cup {NULL}
    OBVIOUS
  <2>2. ParentSet(s, t, c, x, X)
    BY <1>1, <2>1, SetParentFields
  <2>. QED
    BY <2>2 DEF ParentSet
<1>3. PICK q : q = Par(t, x) /\ q \in Name \cup {NULL}
  BY NodeType
<1>4. PICK u : u = Turned(t, x, d)
  OBVIOUS
<1>5. u = [s EXCEPT ![x][Opp(d)] = c, ![x].parent = m, ![m][d] = x, ![m].parent = q]
  BY <1>1, <1>3, <1>4 DEF Turned, Kid, Par
<1>6. x # m /\ IsFun(s, X) /\ s[x] \in AvlNode /\ s[m] \in AvlNode
  BY <1>2 DEF Trees, IsFun
<1>7. /\ u \in Trees(X)
      /\ \A y \in X \ {x, m} : u[y] = s[y]
      /\ u[x].depth = s[x].depth /\ u[x].cnt = s[x].cnt /\ u[m].depth = s[m].depth /\ u[m].cnt = s[m].cnt
      /\ u[x][d] = s[x][d] /\ u[x][Opp(d)] = c /\ u[x].parent = m
      /\ u[m][d] = x /\ u[m][Opp(d)] = s[m][Opp(d)] /\ u[m].parent = q
  <2>1. CASE d = "left"
    <3>1. Opp(d) = "right"
      BY <2>1 DEF Opp
    <3>2. u = [s EXCEPT ![x].right = c, ![x].parent = m, ![m].left = x, ![m].parent = q]
      BY <1>5, <2>1, <3>1
    <3>7. TurnLeftPut(u, s, x, m, c, q, X)
      BY ONLY <1>6, <3>2, PutTurnLeft, x \in X, m \in X
    <3>3. u = [y \in X |-> IF y = x THEN [s[x] EXCEPT !.right = c, !.parent = m]
                           ELSE IF y = m THEN [s[m] EXCEPT !.left = x, !.parent = q] ELSE s[y]]
      BY <3>7 DEF TurnLeftPut
    <3>4. [s[x] EXCEPT !.right = c, !.parent = m] \in AvlNode /\ [s[m] EXCEPT !.left = x, !.parent = q] \in AvlNode
      BY <1>3, <1>6 DEF AvlNode
    <3>5. u \in Trees(X) /\ \A y \in X \ {x, m} : u[y] = s[y]
      BY <1>2, <3>3, <3>4 DEF Trees
    <3>6. u[x] = [s[x] EXCEPT !.right = c, !.parent = m] /\ u[m] = [s[m] EXCEPT !.left = x, !.parent = q]
      BY <3>3
    <3>. QED
      BY <1>6, <2>1, <3>1, <3>5, <3>6 DEF AvlNode
  <2>2. CASE d = "right"
    <3>1. Opp(d) = "left"
      BY <2>2 DEF Opp
    <3>2. u = [s EXCEPT ![x].left = c, ![x].parent = m, ![m].right = x, ![m].parent = q]
      BY <1>5, <2>2, <3>1
    <3>7. TurnRightPut(u, s, x, m, c, q, X)
      BY ONLY <1>6, <3>2, PutTurnRight, x \in X, m \in X
    <3>3. u = [y \in X |-> IF y = x THEN [s[x] EXCEPT !.left = c, !.parent = m]
                           ELSE IF y = m THEN [s[m] EXCEPT !.right = x, !.parent = q] ELSE s[y]]
      BY <3>7 DEF TurnRightPut
    <3>4. [s[x] EXCEPT !.left = c, !.parent = m] \in AvlNode /\ [s[m] EXCEPT !.right = x, !.parent = q] \in AvlNode
      BY <1>3, <1>6 DEF AvlNode
    <3>5. u \in Trees(X) /\ \A y \in X \ {x, m} : u[y] = s[y]
      BY <1>2, <3>3, <3>4 DEF Trees
    <3>6. u[x] = [s[x] EXCEPT !.left = c, !.parent = m] /\ u[m] = [s[m] EXCEPT !.right = x, !.parent = q]
      BY <3>3
    <3>. QED
      BY <1>6, <2>2, <3>1, <3>5, <3>6 DEF AvlNode
  <2>. QED
    BY <2>1, <2>2 DEF Sides
<1>8. ASSUME NEW y \in X \ {x, m}
      PROVE  SameKids(u, t, y) /\ Par(u, y) = (IF y = c THEN x ELSE Par(t, y)) /\ SameSize(u, t, y)
  <2>1. SameKids(u, s, y) /\ Par(u, y) = Par(s, y) /\ SameSize(u, s, y)
    BY <1>7 DEF SameKids, SameSize, Kid, Par, Depth, Cnt
  <2>. QED
    BY <1>2, <2>1 DEF SameKids, SameSize
<1>9. Opp(d) \in Sides
  BY Opposite
<1>10. /\ SameSize(u, s, x) /\ SameSize(u, s, m)
       /\ Kid(u, x, d) = Kid(s, x, d) /\ Kid(u, x, Opp(d)) = c /\ Par(u, x) = m
       /\ Kid(u, m, d) = x /\ Kid(u, m, Opp(d)) = Kid(s, m, Opp(d)) /\ Par(u, m) = q
  <2>1. SameSize(u, s, x) /\ SameSize(u, s, m)
    BY <1>2, <1>7, NodeType DEF SameSize
  <2>. QED
    BY <1>7, <2>1 DEF Kid, Par
<1>11. SameSize(u, t, x) /\ SameSize(u, t, m) /\ Kid(s, x, d) = Kid(t, x, d) /\ Kid(s, m, Opp(d)) = Kid(t, m, Opp(d))
  BY <1>2, <1>9, <1>10 DEF SameSize, SameKids
<1>. QED
  <2>1. TurnedTo(u, t, x, d, X)
    BY <1>3, <1>7, <1>8, <1>10, <1>11 DEF TurnedTo
  <2>. QED
    BY <1>4, <2>1


\* x has the child m on the other side, whose d child is c; the subtrees that
\* a turn moves lie apart from both.
Turnable(t, x, m, c, d, X) ==
  /\ x \in X /\ m \in X /\ m # x /\ d \in Sides
  /\ m = Kid(t, x, Opp(d)) /\ c = Kid(t, m, d)
  /\ Kid(t, x, d) \in (X \ {x, m}) \cup {NULL}
  /\ c \in (X \ {x, m}) \cup {NULL}
  /\ Kid(t, m, Opp(d)) \in (X \ {x, m}) \cup {NULL}

\* u is t after Rot(t, x, d): m is on top, and nothing hangs from it yet.
RotTop(u, t, x, m, c, d, X) ==
  /\ u \in Trees(X)
  /\ \A y \in X \ {x, m} : SameKids(u, t, y) /\ SameSize(u, t, y)
  /\ \A y \in X \ {x, m} : Par(u, y) = IF y = c THEN x ELSE Par(t, y)
  /\ Kid(u, x, d) = Kid(t, x, d) /\ Kid(u, x, Opp(d)) = c /\ Par(u, x) = m
  /\ Kid(u, m, d) = x /\ Kid(u, m, Opp(d)) = Kid(t, m, Opp(d)) /\ Par(u, m) = Par(t, x)
  /\ Depth(u, x) = 1 + Higher(Depth(t, Kid(t, x, d)), Depth(t, c))
  /\ Cnt(u, x) = 1 + Cnt(t, Kid(t, x, d)) + Cnt(t, c)
  /\ Depth(u, m) = 1 + Higher(Depth(u, x), Depth(t, Kid(t, m, Opp(d))))
  /\ Cnt(u, m) = 1 + Cnt(u, x) + Cnt(t, Kid(t, m, Opp(d)))

LEMMA RotFields ==
  ASSUME NEW X, X \subseteq Name, NEW t \in Trees(X), NEW x, NEW m, NEW c, NEW d,
         Turnable(t, x, m, c, d, X)
  PROVE  RotTop(Rot(t, x, d), t, x, m, c, d, X)
<1>1. /\ x \in X /\ m \in X /\ m # x /\ d \in Sides
      /\ m = Kid(t, x, Opp(d)) /\ c = Kid(t, m, d)
      /\ c \in X \cup {NULL} /\ c # x /\ c # m
  BY NameAssumption DEF Turnable
<1>2. PICK v : v = Turned(t, x, d)
  OBVIOUS
<1>3. TurnedTo(v, t, x, d, X)
  BY <1>1, <1>2, TurnedFields
<1>4. /\ v \in Trees(X)
      /\ \A y \in X \ {x, m} : SameKids(v, t, y)
      /\ \A y \in X \ {x, m} : Par(v, y) = IF y = c THEN x ELSE Par(t, y)
      /\ \A y \in X : SameSize(v, t, y)
      /\ Kid(v, x, d) = Kid(t, x, d) /\ Kid(v, x, Opp(d)) = c /\ Par(v, x) = m
      /\ Kid(v, m, d) = x /\ Kid(v, m, Opp(d)) = Kid(t, m, Opp(d)) /\ Par(v, m) = Par(t, x)
  BY <1>1, <1>3 DEF TurnedTo
<1>5. PICK w : w = AvlUpdate(v, x)
  OBVIOUS
<1>6. Updated(w, v, x, X)
  <2>1. \A e \in Sides : Kid(v, x, e) \in X \cup {NULL}
    BY <1>1, <1>4, Opposite DEF Turnable
  <2>. QED
    BY <1>1, <1>4, <1>5, <2>1, UpdateFields
<1>7. /\ w \in Trees(X)
      /\ \A y \in X : SameKids(w, v, y) /\ Par(w, y) = Par(v, y)
      /\ \A y \in X \ {x} : SameSize(w, v, y)
      /\ Depth(w, x) = 1 + Higher(Depth(v, Kid(v, x, d)), Depth(v, Kid(v, x, Opp(d))))
      /\ Cnt(w, x) = 1 + Cnt(v, Kid(v, x, d)) + Cnt(v, Kid(v, x, Opp(d)))
  BY <1>1, <1>6 DEF Updated
<1>8. PICK u : u = AvlUpdate(w, m)
  OBVIOUS
<1>9. /\ Kid(w, m, d) = x /\ Kid(w, m, Opp(d)) = Kid(t, m, Opp(d))
      /\ Kid(w, x, d) = Kid(t, x, d) /\ Kid(w, x, Opp(d)) = c
  BY <1>1, <1>4, <1>7, Opposite DEF SameKids
<1>10. Updated(u, w, m, X)
  <2>1. \A e \in Sides : Kid(w, m, e) \in X \cup {NULL}
    BY <1>1, <1>9, Opposite DEF Turnable
  <2>. QED
    BY <1>1, <1>7, <1>8, <2>1, UpdateFields
<1>11. /\ u \in Trees(X)
       /\ \A y \in X : SameKids(u, w, y) /\ Par(u, y) = Par(w, y)
       /\ \A y \in X \ {m} : SameSize(u, w, y)
       /\ Depth(u, m) = 1 + Higher(Depth(w, x), Depth(w, Kid(t, m, Opp(d))))
       /\ Cnt(u, m) = 1 + Cnt(w, x) + Cnt(w, Kid(t, m, Opp(d)))
  BY <1>1, <1>9, <1>10 DEF Updated
<1>12. ASSUME NEW k \in (X \ {x, m}) \cup {NULL}
       PROVE  SameSize(v, t, k) /\ SameSize(w, t, k) /\ SameSize(u, t, k)
  <2>1. CASE k = NULL
    BY <2>1 DEF SameSize, Depth, Cnt
  <2>2. CASE k \in X \ {x, m}
    BY <1>4, <1>7, <1>11, <2>2 DEF SameSize
  <2>. QED
    BY <2>1, <2>2
<1>13. /\ Depth(w, x) = 1 + Higher(Depth(t, Kid(t, x, d)), Depth(t, c))
       /\ Cnt(w, x) = 1 + Cnt(t, Kid(t, x, d)) + Cnt(t, c)
  <2>1. SameSize(v, t, Kid(t, x, d)) /\ SameSize(v, t, c)
    BY <1>12 DEF Turnable
  <2>. QED
    BY <1>4, <1>7, <2>1 DEF SameSize
<1>14. SameSize(w, t, Kid(t, m, Opp(d)))
  BY <1>12 DEF Turnable
<1>15. Depth(u, x) = Depth(w, x) /\ Cnt(u, x) = Cnt(w, x)
  BY <1>1, <1>11 DEF SameSize
<1>16. ASSUME NEW y \in X \ {x, m}
       PROVE  SameKids(u, t, y) /\ SameSize(u, t, y) /\ Par(u, y) = IF y = c THEN x ELSE Par(t, y)
  <2>1. SameKids(u, t, y)
    BY <1>4, <1>7, <1>11 DEF SameKids
  <2>2. Par(u, y) = Par(v, y)
    BY <1>7, <1>11
  <2>. QED
    BY <1>4, <1>12, <2>1, <2>2
<1>17. /\ Kid(u, x, d) = Kid(t, x, d) /\ Kid(u, x, Opp(d)) = c /\ Par(u, x) = m
       /\ Kid(u, m, d) = x /\ Kid(u, m, Opp(d)) = Kid(t, m, Opp(d)) /\ Par(u, m) = Par(t, x)
  BY <1>1, <1>4, <1>7, <1>9, <1>11, Opposite DEF SameKids
<1>18. Depth(u, m) = 1 + Higher(Depth(u, x), Depth(t, Kid(t, m, Opp(d))))
       /\ Cnt(u, m) = 1 + Cnt(u, x) + Cnt(t, Kid(t, m, Opp(d)))
  BY <1>11, <1>14, <1>15 DEF SameSize
<1>19. RotTop(u, t, x, m, c, d, X)
  BY <1>11, <1>13, <1>15, <1>16, <1>17, <1>18 DEF RotTop
<1>20. u = Rot(t, x, d)
  BY <1>1, <1>2, <1>5, <1>8 DEF Rot, Kid
<1>. QED
  BY <1>19, <1>20

\* The same, and the link of D that held x now holds m.
Rotated(u, t, x, m, c, d, X, D) ==
  /\ u \in Trees(X)
  /\ \A y \in X \ {x, m} : SameSize(u, t, y)
  /\ \A y \in D \ {x, m}, e \in Sides : Kid(u, y, e) = IF Kid(t, y, e) = x THEN m ELSE Kid(t, y, e)
  /\ \A y \in X \ {x, m} : Par(u, y) = IF y = c THEN x ELSE Par(t, y)
  /\ Kid(u, x, d) = Kid(t, x, d) /\ Kid(u, x, Opp(d)) = c /\ Par(u, x) = m
  /\ Kid(u, m, d) = x /\ Kid(u, m, Opp(d)) = Kid(t, m, Opp(d)) /\ Par(u, m) = Par(t, x)
  /\ Depth(u, x) = 1 + Higher(Depth(t, Kid(t, x, d)), Depth(t, c))
  /\ Cnt(u, x) = 1 + Cnt(t, Kid(t, x, d)) + Cnt(t, c)
  /\ Depth(u, m) = 1 + Higher(Depth(u, x), Depth(t, Kid(t, m, Opp(d))))
  /\ Cnt(u, m) = 1 + Cnt(u, x) + Cnt(t, Kid(t, m, Opp(d)))

LEMMA RotLink ==
  ASSUME NEW X, X \subseteq Name, NEW t \in Trees(X), NEW x, NEW m, NEW c, NEW d, NEW v, NEW D \in SUBSET X,
         Turnable(t, x, m, c, d, X), RotTop(v, t, x, m, c, d, X),
         NEW p \in X \ {x, m}, NEW s \in Sides, Kid(t, p, s) = x,
         \A y \in D, e \in Sides : Kid(t, y, e) = x => y = p /\ e = s
  PROVE  Rotated([v EXCEPT ![p][s] = m], t, x, m, c, d, X, D)
<1>1. x \in X /\ m \in X /\ m # x /\ d \in Sides /\ m \in Name \cup {NULL} /\ Opp(d) \in Sides
  BY Opposite DEF Turnable
<1>2. PICK u : u = [v EXCEPT ![p][s] = m]
  OBVIOUS
<1>3. v \in Trees(X)
  BY DEF RotTop
<1>4. KidSet(u, v, p, s, m, X)
  BY <1>1, <1>2, <1>3, SetKidFields
<1>5. /\ u \in Trees(X)
      /\ \A y \in X : Par(u, y) = Par(v, y) /\ SameSize(u, v, y)
      /\ \A y \in X : y # p => SameKids(u, v, y)
      /\ Kid(u, p, s) = m /\ Kid(u, p, Opp(s)) = Kid(v, p, Opp(s))
  BY <1>4 DEF KidSet
<1>6. SameKids(u, v, x) /\ SameKids(u, v, m) /\ SameSize(u, v, x) /\ SameSize(u, v, m)
  BY <1>1, <1>5
<1>7. \A y \in X \ {x, m} : SameSize(u, t, y)
  BY <1>5 DEF RotTop, SameSize
<1>8. ASSUME NEW y \in D \ {x, m}, NEW e \in Sides
      PROVE  Kid(u, y, e) = IF Kid(t, y, e) = x THEN m ELSE Kid(t, y, e)
  <2>1. Kid(v, y, e) = Kid(t, y, e)
    BY DEF RotTop, SameKids
  <2>2. CASE y = p /\ e = s
    BY <1>5, <2>2
  <2>3. CASE y = p /\ e # s
    <3>1. e = Opp(s)
      BY <2>3, Opposite
    <3>. QED
      BY <1>5, <2>1, <2>3, <3>1
  <2>4. CASE y # p
    BY <1>5, <2>1, <2>4 DEF SameKids
  <2>. QED
    BY <2>2, <2>3, <2>4
<1>9. \A y \in X \ {x, m} : Par(u, y) = IF y = c THEN x ELSE Par(t, y)
  BY <1>5 DEF RotTop
<1>10. /\ Kid(u, x, d) = Kid(t, x, d) /\ Kid(u, x, Opp(d)) = c /\ Par(u, x) = m
       /\ Kid(u, m, d) = x /\ Kid(u, m, Opp(d)) = Kid(t, m, Opp(d)) /\ Par(u, m) = Par(t, x)
  BY <1>1, <1>5, <1>6 DEF RotTop, SameKids
<1>11. /\ Depth(u, x) = 1 + Higher(Depth(t, Kid(t, x, d)), Depth(t, c))
       /\ Cnt(u, x) = 1 + Cnt(t, Kid(t, x, d)) + Cnt(t, c)
       /\ Depth(u, m) = 1 + Higher(Depth(u, x), Depth(t, Kid(t, m, Opp(d))))
       /\ Cnt(u, m) = 1 + Cnt(u, x) + Cnt(t, Kid(t, m, Opp(d)))
  BY <1>6 DEF RotTop, SameSize
<1>12. Rotated(u, t, x, m, c, d, X, D)
  BY <1>5, <1>7, <1>8, <1>9, <1>10, <1>11 DEF Rotated
<1>. QED
  BY <1>2, <1>12

LEMMA RotNoLink ==
  ASSUME NEW X, X \subseteq Name, NEW t \in Trees(X), NEW x, NEW m, NEW c, NEW d, NEW v, NEW D \in SUBSET X,
         RotTop(v, t, x, m, c, d, X), \A y \in D, e \in Sides : Kid(t, y, e) # x
  PROVE  Rotated(v, t, x, m, c, d, X, D)
<1>1. \A y \in D \ {x, m}, e \in Sides : Kid(v, y, e) = IF Kid(t, y, e) = x THEN m ELSE Kid(t, y, e)
  BY DEF RotTop, SameKids
<1>. QED
  BY <1>1 DEF RotTop, Rotated

-----------------------------------------------------------------------------
(* Search trees *)

\* x is on side d of y.
On(R, x, y, d) == IF d = "left" THEN <<x, y>> \in R ELSE <<y, x>> \in R

Part(R, T, n, d) == {y \in T : On(R, y, n, d)}

StrictOrder(R, D) ==
  /\ \A x \in D : <<x, x>> \notin R
  /\ \A x, y, w \in D : <<x, y>> \in R /\ <<y, w>> \in R => <<x, w>> \in R
  /\ \A x, y \in D : x = y \/ <<x, y>> \in R \/ <<y, x>> \in R

Sub(sub, k) == IF k = NULL THEN {} ELSE sub[k]

\* The links of t make D a search tree under r, and sub[n] are the nodes of
\* the subtree of n.
Shape(t, R, D, r, sub) ==
  /\ sub \in [D -> SUBSET D]
  /\ \A n \in D : n \in sub[n]
  /\ \A n \in D, d \in Sides : Kid(t, n, d) \in D \cup {NULL}
  /\ \A n \in D, d \in Sides : Sub(sub, Kid(t, n, d)) = Part(R, sub[n], n, d)
  /\ \A n \in D, d \in Sides : Kid(t, n, d) # NULL => Par(t, Kid(t, n, d)) = n
  /\ \A n \in D : n # r => Par(t, n) \in D /\ \E d \in Sides : Kid(t, Par(t, n), d) = n
  /\ D = {} => r = NULL
  /\ D # {} => r \in D /\ sub[r] = D /\ Par(t, r) = NULL

LEMMA OrderSides ==
  ASSUME NEW R, NEW D, StrictOrder(R, D), NEW d \in Sides
  PROVE  /\ \A x \in D : ~On(R, x, x, d)
         /\ \A x, y \in D : On(R, x, y, d) <=> On(R, y, x, Opp(d))
         /\ \A x, y \in D : ~(On(R, x, y, d) /\ On(R, x, y, Opp(d)))
         /\ \A x, y \in D : x = y \/ On(R, x, y, d) \/ On(R, x, y, Opp(d))
         /\ \A x, y, w \in D : On(R, x, y, d) /\ On(R, y, w, d) => On(R, x, w, d)
<1>1. CASE d = "left"
  BY <1>1 DEF StrictOrder, On, Opp
<1>2. CASE d = "right"
  BY <1>2 DEF StrictOrder, On, Opp
<1>. QED
  BY <1>1, <1>2 DEF Sides

\* The subtree of a node is the node and the subtrees of its children.
LEMMA ShapeKid ==
  ASSUME NEW t, NEW R, NEW D, NULL \notin D, NEW r, NEW sub, StrictOrder(R, D), Shape(t, R, D, r, sub),
         NEW n \in D, NEW d \in Sides, NEW k, k = Kid(t, n, d), k # NULL
  PROVE  /\ k \in D /\ k # n /\ k # r /\ Par(t, k) = n /\ k \in sub[n] /\ n \notin sub[k]
         /\ sub[k] \subseteq sub[n]
         /\ sub[k] = Part(R, sub[n], n, d) /\ k \in sub[k]
         /\ Kid(t, n, Opp(d)) # k
<1>1. k \in D /\ Par(t, k) = n /\ sub[k] = Part(R, sub[n], n, d) /\ k \in sub[k]
  BY DEF Shape, Sub
<1>2. sub[k] \subseteq sub[n] /\ n \notin sub[k]
  BY <1>1, OrderSides DEF Part
<1>3. k # r
  BY <1>1 DEF Shape
<1>4. Kid(t, n, Opp(d)) # k
  <2>1. SUFFICES ASSUME Kid(t, n, Opp(d)) = k PROVE FALSE
    OBVIOUS
  <2>2. Opp(d) \in Sides
    BY Opposite
  <2>3. sub[k] = Part(R, sub[n], n, Opp(d))
    BY <2>1, <2>2 DEF Shape, Sub
  <2>4. On(R, k, n, d) /\ On(R, k, n, Opp(d))
    BY <1>1, <2>3 DEF Part
  <2>. QED
    BY <1>1, <2>4, OrderSides
<1>. QED
  BY <1>1, <1>2, <1>3, <1>4

\* A node hangs from its parent only, and on one side.
LEMMA ShapeLink ==
  ASSUME NEW t, NEW R, NEW D, NULL \notin D, NEW r, NEW sub, StrictOrder(R, D), Shape(t, R, D, r, sub),
         NEW x \in D, NEW p \in D, NEW s \in Sides, Kid(t, p, s) = x
  PROVE  \A y \in D, e \in Sides : Kid(t, y, e) = x => y = p /\ e = s
<1>1. SUFFICES ASSUME NEW y \in D, NEW e \in Sides, Kid(t, y, e) = x PROVE y = p /\ e = s
  OBVIOUS
<1>2. x # NULL /\ Par(t, x) = p /\ Par(t, x) = y
  BY <1>1 DEF Shape
<1>3. e = s
  <2>1. Kid(t, p, Opp(s)) # x
    BY <1>2, ShapeKid
  <2>. QED
    BY <1>1, <1>2, <2>1, Opposite
<1>. QED
  BY <1>2, <1>3

LEMMA ShapeTurnable ==
  ASSUME NEW X, NEW D \in SUBSET X, NEW t, NEW R, NULL \notin D, NEW r, NEW sub, StrictOrder(R, D),
         Shape(t, R, D, r, sub), NEW x \in D, NEW d \in Sides, NEW m, m = Kid(t, x, Opp(d)), m # NULL,
         NEW c, c = Kid(t, m, d)
  PROVE  Turnable(t, x, m, c, d, X) /\ Turnable(t, x, m, c, d, D)
<1>1. Opp(d) \in Sides /\ Opp(Opp(d)) = d
  BY Opposite
<1>2. m \in D /\ m # x /\ x \notin sub[m] /\ Kid(t, x, d) # m
  BY <1>1, ShapeKid
<1>3. Kid(t, x, d) \in (D \ {x, m}) \cup {NULL}
  BY <1>2, ShapeKid DEF Shape
<1>4. ASSUME NEW e \in Sides
      PROVE  Kid(t, m, e) \in (D \ {x, m}) \cup {NULL}
  BY <1>2, ShapeKid DEF Shape
<1>. QED
  BY <1>1, <1>2, <1>3, <1>4 DEF Turnable

\* The subtrees after the turn.
TurnedSub(R, D, sub, x, m, d) ==
  [y \in D |-> IF y = x THEN sub[x] \ ({m} \cup Part(R, sub[m], m, Opp(d)))
               ELSE IF y = m THEN sub[x] ELSE sub[y]]

LEMMA RotShape ==
  ASSUME NEW X, NEW D \in SUBSET X, NEW t, NEW R, NULL \notin D, NEW r, NEW sub, StrictOrder(R, D),
         Shape(t, R, D, r, sub), NEW x \in D, NEW m, NEW c, NEW d, Turnable(t, x, m, c, d, D),
         NEW u, Rotated(u, t, x, m, c, d, X, D)
  PROVE  Shape(u, R, D, IF x = r THEN m ELSE r, TurnedSub(R, D, sub, x, m, d))
<1> DEFINE e == Opp(d)
           A == sub[x]
           M == sub[m]
           S == A \ ({m} \cup Part(R, M, m, e))
           w == IF x = r THEN m ELSE r
<1>1. PICK z : z = TurnedSub(R, D, sub, x, m, d)
  OBVIOUS
<1>2. /\ m \in D /\ m # x /\ m # NULL /\ x # NULL /\ d \in Sides /\ e \in Sides /\ e # d /\ Opp(e) = d
      /\ Kid(t, x, e) = m /\ Kid(t, m, d) = c
      /\ Kid(t, x, d) \in (D \ {x, m}) \cup {NULL} /\ c \in (D \ {x, m}) \cup {NULL}
      /\ Kid(t, m, e) \in (D \ {x, m}) \cup {NULL}
      /\ \A f \in Sides : f = d \/ f = e
  BY Opposite DEF Turnable
<1>3. /\ A \subseteq D /\ M \subseteq A /\ x \in A /\ m \in M /\ x \notin M
      /\ M = Part(R, A, x, e) /\ Par(t, m) = x
  <2>1. PICK k : k = Kid(t, x, e) /\ k = m
    BY <1>2
  <2>2. /\ k \in D /\ k # x /\ Par(t, k) = x /\ x \notin sub[k]
        /\ sub[k] \subseteq sub[x] /\ sub[k] = Part(R, sub[x], x, e) /\ k \in sub[k]
    BY <1>2, <2>1, ShapeKid
  <2>3. A \subseteq D /\ x \in A
    BY DEF Shape
  <2>. QED
    BY <2>1, <2>2, <2>3
<1>4. /\ z \in [D -> SUBSET D]
      /\ z[x] = S /\ z[m] = A /\ \A y \in D \ {x, m} : z[y] = sub[y]
  <2>1. S \in SUBSET D /\ A \in SUBSET D
    BY <1>3
  <2>2. \A y \in D : sub[y] \in SUBSET D
    BY DEF Shape
  <2>. QED
    BY <1>1, <1>2, <2>1, <2>2 DEF TurnedSub
<1>5. x \in S
  BY <1>2, <1>3 DEF Part
<1>6. \A y \in D : y \in z[y]
  BY <1>2, <1>3, <1>4, <1>5 DEF Shape
<1> HIDE DEF e, A, M, S, w
<1>7. /\ \A y \in D \ {x, m}, f \in Sides : Kid(u, y, f) = IF Kid(t, y, f) = x THEN m ELSE Kid(t, y, f)
      /\ \A y \in D \ {x, m} : Par(u, y) = IF y = c THEN x ELSE Par(t, y)
      /\ Kid(u, x, d) = Kid(t, x, d) /\ Kid(u, x, e) = c /\ Par(u, x) = m
      /\ Kid(u, m, d) = x /\ Kid(u, m, e) = Kid(t, m, e) /\ Par(u, m) = Par(t, x)
  BY DEF Rotated, e
<1>8. \A y \in D, f \in Sides : Kid(u, y, f) \in D \cup {NULL}
  BY <1>2, <1>7 DEF Shape
<1>9. \A k \in (D \ {x, m}) \cup {NULL} : Sub(z, k) = Sub(sub, k)
  BY <1>2, <1>4 DEF Sub
<1>10. Sub(sub, m) = M /\ Sub(z, m) = A /\ Sub(z, x) = S
  BY <1>2, <1>4 DEF Sub, M
<1>11. /\ Part(R, A, x, d) = Sub(sub, Kid(t, x, d))
       /\ Part(R, M, m, d) = Sub(sub, c) /\ Part(R, M, m, e) = Sub(sub, Kid(t, m, e))
  BY <1>2 DEF Shape, A, M
<1>12. \A y \in D : (On(R, y, m, d) <=> On(R, m, y, e)) /\ (On(R, m, y, d) <=> On(R, y, m, e))
  BY <1>2, OrderSides
<1>13. On(R, x, m, d)
  BY <1>2, <1>3, <1>12, OrderSides DEF Part
<1>14. Part(R, S, x, d) = Part(R, A, x, d)
  <2>1. ASSUME NEW y \in A, On(R, y, x, d) PROVE y \in S
    BY <1>2, <1>3, <2>1, OrderSides DEF Part, S
  <2>. QED
    BY <2>1 DEF Part, S
<1>15. Part(R, S, x, e) = Part(R, M, m, d)
  <2>1. ASSUME NEW y \in S, On(R, y, x, e) PROVE y \in M /\ On(R, y, m, d)
    <3>1. y \in M /\ y # m /\ y \in D /\ ~On(R, y, m, e)
      BY <1>3, <2>1 DEF Part, S
    <3>. QED
      BY <1>2, <3>1, OrderSides
  <2>2. ASSUME NEW y \in M, On(R, y, m, d) PROVE y \in S /\ On(R, y, x, e)
    <3>1. y \in A /\ y \in D /\ On(R, y, x, e)
      BY <1>3, <2>2 DEF Part
    <3>2. y # m /\ ~On(R, y, m, e)
      BY <1>2, <2>2, <3>1, OrderSides
    <3>. QED
      BY <3>1, <3>2 DEF Part, S
  <2>. QED
    BY <2>1, <2>2 DEF Part
<1>16. Part(R, A, m, d) = S
  <2>1. ASSUME NEW y \in A, On(R, y, m, d) PROVE y \in S
    BY <1>2, <1>3, <2>1, OrderSides DEF Part, S
  <2>2. ASSUME NEW y \in S PROVE y \in A /\ On(R, y, m, d)
    <3>1. y \in A /\ y \in D /\ y # m /\ ~(y \in M /\ On(R, y, m, e))
      BY <1>3 DEF S, Part
    <3>2. CASE y \in M
      BY <1>2, <3>1, <3>2, OrderSides
    <3>3. CASE y \notin M
      <4>1. y = x \/ On(R, y, x, d)
        BY <1>2, <1>3, <3>1, <3>3, OrderSides DEF Part
      <4>. QED
        BY <1>2, <1>13, <3>1, <4>1, OrderSides
    <3>. QED
      BY <3>1, <3>2, <3>3
  <2>. QED
    BY <2>1, <2>2 DEF Part
<1>17. Part(R, A, m, e) = Part(R, M, m, e)
  <2>1. ASSUME NEW y \in A, On(R, y, m, e) PROVE y \in M
    <3>1. On(R, m, x, e) /\ y \in D
      BY <1>3 DEF Part
    <3>. QED
      BY <1>2, <1>3, <2>1, <3>1, OrderSides DEF Part
  <2>. QED
    BY <1>3, <2>1 DEF Part
<1>18. \A f \in Sides : Sub(z, Kid(u, x, f)) = Part(R, z[x], x, f)
  BY <1>2, <1>4, <1>7, <1>9, <1>11, <1>14, <1>15
<1>19. \A f \in Sides : Sub(z, Kid(u, m, f)) = Part(R, z[m], m, f)
  BY <1>2, <1>4, <1>7, <1>9, <1>10, <1>11, <1>16, <1>17
<1>20. ASSUME NEW y \in D \ {x, m}, NEW f \in Sides
       PROVE  Sub(z, Kid(u, y, f)) = Part(R, z[y], y, f)
  <2>1. Sub(sub, Kid(t, y, f)) = Part(R, z[y], y, f)
    BY <1>4 DEF Shape
  <2>2. Kid(t, y, f) # m /\ Kid(t, y, f) \in D \cup {NULL}
    BY <1>2, <1>3 DEF Shape
  <2>3. Sub(z, Kid(u, y, f)) = Sub(sub, Kid(t, y, f))
    <3>1. CASE Kid(t, y, f) = x
      BY <1>2, <1>7, <1>10, <3>1 DEF Sub, A
    <3>2. CASE Kid(t, y, f) # x
      BY <1>7, <1>9, <2>2, <3>2
    <3>. QED
      BY <3>1, <3>2
  <2>. QED
    BY <2>1, <2>3
<1>21. ASSUME NEW y \in D, NEW f \in Sides, Kid(u, y, f) # NULL
       PROVE  Par(u, Kid(u, y, f)) = y
  <2>1. CASE y = x
    <3>1. CASE f = d
      <4>1. Kid(t, x, d) \in D \ {x, m} /\ Par(t, Kid(t, x, d)) = x
        BY <1>2, <1>7, <1>21, <2>1, <3>1 DEF Shape
      <4>. QED
        BY <1>7, <2>1, <3>1, <4>1
    <3>2. CASE f = e
      <4>1. c \in D \ {x, m}
        BY <1>2, <1>7, <1>21, <2>1, <3>2
      <4>. QED
        BY <1>7, <2>1, <3>2, <4>1
    <3>. QED
      BY <1>2, <3>1, <3>2
  <2>2. CASE y = m
    <3>1. CASE f = d
      BY <1>7, <2>2, <3>1
    <3>2. CASE f = e
      <4>1. Kid(u, m, e) = Kid(t, m, e) /\ Kid(t, m, e) # NULL
        BY <1>7, <1>21, <2>2, <3>2
      <4>2. Par(t, Kid(t, m, e)) = m
        BY <1>2, <4>1 DEF Shape
      <4>3. Kid(t, m, Opp(e)) # Kid(t, m, e)
        <5>1. SUFFICES ASSUME Kid(t, m, e) = c PROVE FALSE
          BY <1>2
        <5>2. c \in D /\ c \in Sub(sub, c)
          BY <1>2, <4>1, <5>1 DEF Shape, Sub
        <5>3. On(R, c, m, d) /\ On(R, c, m, e)
          BY <1>11, <5>1, <5>2 DEF Part
        <5>. QED
          BY <1>2, <5>2, <5>3, OrderSides
      <4>4. Kid(t, m, e) # c /\ Kid(t, m, e) \in D \ {x, m}
        BY <1>2, <4>1, <4>3
      <4>. QED
        BY <1>7, <2>2, <3>2, <4>1, <4>2, <4>4
    <3>. QED
      BY <1>2, <3>1, <3>2
  <2>3. CASE y \in D \ {x, m}
    <3>1. CASE Kid(t, y, f) = x
      BY <1>2, <1>7, <2>3, <3>1 DEF Shape
    <3>2. CASE Kid(t, y, f) # x
      <4>1. Kid(u, y, f) = Kid(t, y, f) /\ Kid(t, y, f) # NULL
        BY <1>7, <1>21, <2>3, <3>2
      <4>2. Kid(t, y, f) \in D /\ Par(t, Kid(t, y, f)) = y
        BY <4>1 DEF Shape
      <4>3. Kid(t, y, f) # x /\ Kid(t, y, f) # m
        BY <1>3, <2>3, <3>2, <4>2
      <4>4. Kid(t, y, f) # c
        BY <1>2, <2>3, <4>1, <4>2 DEF Shape
      <4>. QED
        BY <1>7, <4>1, <4>2, <4>3, <4>4
    <3>. QED
      BY <3>1, <3>2
  <2>. QED
    BY <2>1, <2>2, <2>3
<1>22. ASSUME NEW y \in D, y # w
       PROVE  Par(u, y) \in D /\ \E f \in Sides : Kid(u, Par(u, y), f) = y
  <2>1. CASE y = x
    BY <1>2, <1>7, <2>1
  <2>2. CASE y = m
    <3>1. x # r
      BY <1>22, <2>2 DEF w
    <3>2. PICK f \in Sides : Par(t, x) \in D /\ Kid(t, Par(t, x), f) = x
      BY <3>1 DEF Shape
    <3>3. Par(t, x) # x
      BY <1>2, <3>2, ShapeKid
    <3>4. Par(t, x) # m
      BY <1>2, <3>2 DEF Turnable
    <3>. QED
      BY <1>7, <2>2, <3>2, <3>3, <3>4
  <2>3. CASE y = c
    BY <1>2, <1>7, <2>3
  <2>4. CASE y \notin {x, m, c}
    <3>1. y # r
      BY <1>22, <2>4 DEF w
    <3>2. PICK f \in Sides : Par(t, y) \in D /\ Kid(t, Par(t, y), f) = y
      BY <3>1 DEF Shape
    <3>3. Par(u, y) = Par(t, y)
      BY <1>7, <2>4
    <3>4. CASE Par(t, y) = x
      <4>1. f = d
        BY <1>2, <2>4, <3>2, <3>4
      <4>. QED
        BY <1>2, <1>7, <3>2, <3>3, <3>4, <4>1
    <3>5. CASE Par(t, y) = m
      <4>1. f = e
        BY <1>2, <2>4, <3>2, <3>5
      <4>. QED
        BY <1>2, <1>7, <3>2, <3>3, <3>5, <4>1
    <3>6. CASE Par(t, y) \notin {x, m}
      BY <1>7, <2>4, <3>2, <3>3, <3>6
    <3>. QED
      BY <3>4, <3>5, <3>6
  <2>. QED
    BY <2>1, <2>2, <2>3, <2>4
<1>23. w \in D /\ z[w] = D /\ Par(u, w) = NULL
  <2>1. r \in D /\ sub[r] = D /\ Par(t, r) = NULL
    BY DEF Shape
  <2>2. CASE x = r
    BY <1>2, <1>4, <1>7, <2>1, <2>2 DEF w, A
  <2>3. CASE x # r
    <3>1. r # m
      BY <1>2, <1>3, <2>1
    <3>2. r # c
      <4>1. c # NULL => Par(t, c) = m
        BY <1>2 DEF Shape
      <4>. QED
        BY <1>2, <2>1, <4>1
    <3>. QED
      BY <1>4, <1>7, <2>1, <2>3, <3>1, <3>2 DEF w
  <2>. QED
    BY <2>2, <2>3
<1>24. Shape(u, R, D, w, z)
  <2>1. \A y \in D, f \in Sides : Sub(z, Kid(u, y, f)) = Part(R, z[y], y, f)
    BY <1>18, <1>19, <1>20
  <2>2. D # {}
    OBVIOUS
  <2>. QED
    BY <1>4, <1>6, <1>8, <1>21, <1>22, <1>23, <2>1, <2>2 DEF Shape
<1>. QED
  BY <1>1, <1>24 DEF w

-----------------------------------------------------------------------------
(* Depths and counts *)

Close(i, j) == i <= j + 1 /\ j <= i + 1

\* The depth and cnt of n are those that its children give it, and it is
\* balanced.
SoundBy(t, n, d) ==
  /\ Depth(t, n) = 1 + Higher(Depth(t, Kid(t, n, d)), Depth(t, Kid(t, n, Opp(d))))
  /\ Cnt(t, n) = 1 + Cnt(t, Kid(t, n, d)) + Cnt(t, Kid(t, n, Opp(d)))
  /\ Close(Depth(t, Kid(t, n, d)), Depth(t, Kid(t, n, Opp(d))))

Sound(t, n) == \A d \in Sides : SoundBy(t, n, d)

\* The depth of n is that of a balanced node one of whose subtrees has since
\* become one higher or lower.
NearBy(t, n, d) ==
  \E i, j \in Nat :
    /\ Close(i, j) /\ Depth(t, n) = 1 + Higher(i, j)
    /\ Close(Depth(t, Kid(t, n, d)), i) /\ Depth(t, Kid(t, n, Opp(d))) = j

Near(t, n) == \E d \in Sides : NearBy(t, n, d)

LEMMA SoundSide ==
  ASSUME NEW X, X \subseteq Name, NEW t \in Trees(X), NEW n, \A e \in Sides : Kid(t, n, e) \in X \cup {NULL},
         NEW d \in Sides, SoundBy(t, n, d)
  PROVE  Sound(t, n)
<1>1. Opp(d) \in Sides /\ Opp(Opp(d)) = d /\ \A e \in Sides : e = d \/ e = Opp(d)
  BY Opposite
<1>2. /\ Depth(t, Kid(t, n, d)) \in Nat /\ Depth(t, Kid(t, n, Opp(d))) \in Nat
      /\ Cnt(t, Kid(t, n, d)) \in Nat /\ Cnt(t, Kid(t, n, Opp(d))) \in Nat
  BY <1>1, SizeType
<1>3. Higher(Depth(t, Kid(t, n, d)), Depth(t, Kid(t, n, Opp(d)))) = Higher(Depth(t, Kid(t, n, Opp(d))), Depth(t, Kid(t, n, d)))
  BY <1>2, HigherNat
<1>4. SoundBy(t, n, Opp(d))
  BY <1>1, <1>2, <1>3 DEF SoundBy, Close
<1>. QED
  BY <1>1, <1>4 DEF Sound

\* A node whose children are the same and have the same sizes as before.
LEMMA SoundSame ==
  ASSUME NEW t, NEW u, NEW n, SameKids(u, t, n), SameSize(u, t, n), Sound(t, n),
         \A e \in Sides : SameSize(u, t, Kid(t, n, e))
  PROVE  Sound(u, n)
<1>1. SUFFICES ASSUME NEW d \in Sides PROVE SoundBy(u, n, d)
  BY DEF Sound
<1>2. Opp(d) \in Sides
  BY Opposite
<1>3. /\ Kid(u, n, d) = Kid(t, n, d) /\ Kid(u, n, Opp(d)) = Kid(t, n, Opp(d))
      /\ SameSize(u, t, Kid(t, n, d)) /\ SameSize(u, t, Kid(t, n, Opp(d)))
  BY <1>2 DEF SameKids
<1>4. SoundBy(t, n, d)
  BY DEF Sound
<1>. QED
  BY <1>3, <1>4 DEF SoundBy, SameSize

LEMMA NullSize ==
  ASSUME NEW t, NEW u
  PROVE  SameSize(u, t, NULL) /\ Depth(t, NULL) = 0 /\ Cnt(t, NULL) = 0
BY DEF SameSize, Depth, Cnt

\* What a turn does to the sizes of the nodes, and to the node above.
RotSizes(u, t, x, m, c, d, D) ==
  /\ \A y \in D \ {x, m} : Sound(t, y) /\ (\A e \in Sides : Kid(t, y, e) # x) => Sound(u, y)
  /\ \A y \in D, s \in Sides : Kid(t, y, s) = x =>
       /\ y \notin {x, m} /\ Kid(u, y, s) = m /\ Kid(u, y, Opp(s)) = Kid(t, y, Opp(s))
       /\ SameSize(u, t, Kid(t, y, Opp(s))) /\ SameSize(u, t, y)
  /\ SameSize(u, t, Kid(t, x, d)) /\ SameSize(u, t, c) /\ SameSize(u, t, Kid(t, m, Opp(d)))

LEMMA RotSize ==
  ASSUME NEW X, NEW D \in SUBSET X, NEW t, NEW R, NULL \notin D, NEW r, NEW sub, StrictOrder(R, D),
         Shape(t, R, D, r, sub), NEW x \in D, NEW m, NEW c, NEW d, Turnable(t, x, m, c, d, D),
         NEW u, Rotated(u, t, x, m, c, d, X, D)
  PROVE  RotSizes(u, t, x, m, c, d, D)
<1>1. /\ m \in D /\ m # x /\ m # NULL /\ d \in Sides /\ Opp(d) \in Sides /\ m = Kid(t, x, Opp(d))
      /\ Kid(t, x, d) \in (D \ {x, m}) \cup {NULL} /\ c \in (D \ {x, m}) \cup {NULL}
      /\ Kid(t, m, Opp(d)) \in (D \ {x, m}) \cup {NULL} /\ c = Kid(t, m, d)
      /\ Par(t, m) = x
  BY Opposite DEF Turnable, Shape
<1>2. \A k \in (D \ {x, m}) \cup {NULL} : SameSize(u, t, k)
  BY NullSize DEF Rotated
<1>3. ASSUME NEW y \in D \ {x, m}, NEW e \in Sides
      PROVE  Kid(u, y, e) = IF Kid(t, y, e) = x THEN m ELSE Kid(t, y, e)
  BY DEF Rotated
<1>4. ASSUME NEW y \in D, y # x, NEW e \in Sides
      PROVE  Kid(t, y, e) \in D \cup {NULL} /\ Kid(t, y, e) # m
  BY <1>1, <1>4 DEF Shape
<1>5. ASSUME NEW y \in D \ {x, m}, Sound(t, y), \A e \in Sides : Kid(t, y, e) # x
      PROVE  Sound(u, y)
  <2>1. SameKids(u, t, y)
    BY <1>3, <1>5 DEF SameKids
  <2>2. \A e \in Sides : SameSize(u, t, Kid(t, y, e))
    BY <1>2, <1>4, <1>5
  <2>3. SameSize(u, t, y)
    BY <1>2
  <2>. QED
    BY <1>5, <2>1, <2>2, <2>3, SoundSame
<1>6. ASSUME NEW y \in D, NEW s \in Sides, Kid(t, y, s) = x
      PROVE  /\ y \notin {x, m} /\ Kid(u, y, s) = m /\ Kid(u, y, Opp(s)) = Kid(t, y, Opp(s))
             /\ SameSize(u, t, Kid(t, y, Opp(s))) /\ SameSize(u, t, y)
  <2>1. y # x
    <3>1. x # NULL
      OBVIOUS
    <3>. QED
      BY <1>6, <3>1, ShapeKid
  <2>2. y # m
    <3>1. s = d \/ s = Opp(d)
      BY <1>1, Opposite
    <3>. QED
      BY <1>1, <1>6, <3>1
  <2>3. Opp(s) \in Sides
    BY Opposite
  <2>4. Kid(t, y, Opp(s)) # x
    <3>1. \A z \in D, e \in Sides : Kid(t, z, e) = x => z = y /\ e = s
      BY <1>6, ShapeLink
    <3>2. Opp(s) # s
      BY Opposite
    <3>. QED
      BY <2>3, <3>1, <3>2
  <2>5. Kid(t, y, Opp(s)) \in (D \ {x, m}) \cup {NULL}
    BY <1>4, <2>1, <2>3, <2>4
  <2>. QED
    BY <1>2, <1>3, <1>6, <2>1, <2>2, <2>3, <2>4, <2>5
<1>7. SameSize(u, t, Kid(t, x, d)) /\ SameSize(u, t, c) /\ SameSize(u, t, Kid(t, m, Opp(d)))
  BY <1>1, <1>2
<1>. QED
  BY <1>5, <1>6, <1>7 DEF RotSizes

\* Where a node hangs, and on which side by the code's test.
LEMMA ParentOf ==
  ASSUME NEW X, X \subseteq Name, NEW D \in SUBSET X, NEW t \in Trees(X), NEW R, NULL \notin D, NEW r, NEW sub,
         StrictOrder(R, D), Shape(t, R, D, r, sub), NEW n \in D
  PROVE  /\ Par(t, n) = NULL <=> n = r
         /\ Par(t, n) # NULL => /\ Par(t, n) \in D /\ Par(t, n) # n /\ Par(t, n) \notin sub[n]
                                /\ Side(t, Par(t, n), n) \in Sides /\ Kid(t, Par(t, n), Side(t, Par(t, n), n)) = n
                                /\ n \in sub[Par(t, n)] /\ sub[n] \subseteq sub[Par(t, n)]
         /\ \A y \in D, e \in Sides : Kid(t, y, e) = n => y = Par(t, n) /\ e = Side(t, Par(t, n), n)
<1>1. Par(t, n) = NULL <=> n = r
  BY DEF Shape
<1>2. ASSUME NEW q, q = Par(t, n), q # NULL
      PROVE  /\ q \in D /\ q # n /\ q \notin sub[n]
             /\ Side(t, q, n) \in Sides /\ Kid(t, q, Side(t, q, n)) = n
             /\ n \in sub[q] /\ sub[n] \subseteq sub[q]
  <2>1. PICK e \in Sides : q \in D /\ Kid(t, q, e) = n
    BY <1>1, <1>2 DEF Shape
  <2>2. q # n /\ q \notin sub[n] /\ n \in sub[q] /\ sub[n] \subseteq sub[q]
    BY <2>1, ShapeKid
  <2>3. Kid(t, q, "left") = t[q].left /\ Kid(t, q, "right") = t[q].right /\ "left" \in Sides /\ "right" \in Sides
    BY <2>1, NodeType DEF Sides
  <2>4. Side(t, q, n) \in Sides /\ Kid(t, q, Side(t, q, n)) = n
    BY <2>1, <2>3 DEF Side, Sides
  <2>. QED
    BY <2>1, <2>2, <2>4
<1>3. ASSUME NEW y \in D, NEW e \in Sides, Kid(t, y, e) = n
      PROVE  y = Par(t, n) /\ e = Side(t, Par(t, n), n)
  <2>1. y = Par(t, n) /\ Par(t, n) # NULL
    BY <1>3 DEF Shape
  <2>2. Side(t, y, n) \in Sides /\ Kid(t, y, Side(t, y, n)) = n
    BY <1>2, <2>1
  <2>3. \A z \in D, f \in Sides : Kid(t, z, f) = n => z = y /\ f = Side(t, y, n)
    BY <2>2, ShapeLink
  <2>. QED
    BY <1>3, <2>1, <2>3
<1>. QED
  BY <1>1, <1>2, <1>3

\* The same links, the same tree.
LEMMA ShapeSame ==
  ASSUME NEW t, NEW u, NEW R, NEW D, NULL \notin D, NEW r, NEW sub, Shape(t, R, D, r, sub),
         \A y \in D : SameKids(u, t, y) /\ Par(u, y) = Par(t, y)
  PROVE  Shape(u, R, D, r, sub)
<1>1. \A y \in D, e \in Sides : Kid(u, y, e) = Kid(t, y, e)
  BY DEF SameKids
<1>2. \A y \in D, e \in Sides : Kid(u, y, e) \in D \cup {NULL}
  BY <1>1 DEF Shape
<1>3. \A y \in D, e \in Sides : Sub(sub, Kid(u, y, e)) = Part(R, sub[y], y, e)
  BY <1>1 DEF Shape
<1>4. \A y \in D, e \in Sides : Kid(u, y, e) # NULL => Par(u, Kid(u, y, e)) = y
  BY <1>1, <1>2 DEF Shape
<1>5. \A y \in D : y # r => Par(u, y) \in D /\ \E e \in Sides : Kid(u, Par(u, y), e) = y
  BY <1>1 DEF Shape
<1>6. D # {} => r \in D /\ sub[r] = D /\ Par(u, r) = NULL
  BY DEF Shape
<1>. QED
  BY <1>2, <1>3, <1>4, <1>5, <1>6 DEF Shape

\* Hangs top where n was, as avl_fix does at the end of a round.
Hung(v, t, n, top) ==
  IF Par(t, n) = NULL THEN v ELSE [v EXCEPT ![Par(t, n)][Side(t, Par(t, n), n)] = top]

LEMMA HangTop ==
  ASSUME NEW X, X \subseteq Name, NEW D \in SUBSET X, NEW t \in Trees(X), NEW R, NULL \notin D, NEW r, NEW sub,
         StrictOrder(R, D), Shape(t, R, D, r, sub), NEW n \in D, NEW m, NEW c, NEW e,
         Turnable(t, n, m, c, e, D), NEW v, RotTop(v, t, n, m, c, e, X)
  PROVE  Rotated(Hung(v, t, n, m), t, n, m, c, e, X, D)
<1>1. Turnable(t, n, m, c, e, X)
  BY DEF Turnable
<1>2. CASE Par(t, n) = NULL
  <2>1. \A y \in D, f \in Sides : Kid(t, y, f) # n
    BY <1>2, ParentOf
  <2>2. Rotated(v, t, n, m, c, e, X, D)
    BY <2>1, RotNoLink
  <2>. QED
    BY <1>2, <2>2 DEF Hung
<1>3. CASE Par(t, n) # NULL
  <2>1. PICK p : p = Par(t, n)
    OBVIOUS
  <2>2. PICK s : s = Side(t, p, n)
    OBVIOUS
  <2>3. /\ p \in D /\ p # n /\ s \in Sides /\ Kid(t, p, s) = n /\ n \in sub[p]
        /\ \A y \in D, f \in Sides : Kid(t, y, f) = n => y = p /\ f = s
    BY <1>3, <2>1, <2>2, ParentOf
  <2>4. p # m
    <3>1. m = Kid(t, n, Opp(e)) /\ m \in D /\ Opp(e) \in Sides
      BY Opposite DEF Turnable
    <3>2. n \notin sub[m]
      <4>1. PICK k : k = Kid(t, n, Opp(e)) /\ k = m
        BY <3>1
      <4>2. k # NULL
        BY <3>1, <4>1
      <4>. QED
        BY <3>1, <4>1, <4>2, ShapeKid
    <3>. QED
      BY <2>3, <3>2
  <2>5. p \in X \ {n, m}
    BY <2>3, <2>4
  <2>6. Rotated([v EXCEPT ![p][s] = m], t, n, m, c, e, X, D)
    BY <1>1, <2>3, <2>5, RotLink
  <2>. QED
    BY <1>3, <2>1, <2>2, <2>6 DEF Hung
<1>. QED
  BY <1>2, <1>3

LEMMA UpdateShape ==
  ASSUME NEW X, X \subseteq Name, NEW D \in SUBSET X, NEW t \in Trees(X), NEW R, NULL \notin D, NEW r, NEW sub,
         StrictOrder(R, D), Shape(t, R, D, r, sub), NEW n \in D, NEW u, Updated(u, t, n, X)
  PROVE  /\ Shape(u, R, D, r, sub)
         /\ \A y \in D \ {n} : SameSize(u, t, y)
         /\ \A y \in D \ {n} : Sound(t, y) /\ y # Par(t, n) => Sound(u, y)
<1>1. \A y \in D : SameKids(u, t, y) /\ Par(u, y) = Par(t, y)
  BY DEF Updated
<1>2. Shape(u, R, D, r, sub)
  BY <1>1, ShapeSame
<1>3. \A k \in (D \ {n}) \cup {NULL} : SameSize(u, t, k)
  BY NullSize DEF Updated
<1>4. ASSUME NEW y \in D \ {n}, Sound(t, y), y # Par(t, n)
      PROVE  Sound(u, y)
  <2>1. \A e \in Sides : Kid(t, y, e) # n
    BY <1>4, ParentOf
  <2>2. \A e \in Sides : Kid(t, y, e) \in D \cup {NULL}
    BY DEF Shape
  <2>3. \A e \in Sides : SameSize(u, t, Kid(t, y, e))
    BY <1>3, <2>1, <2>2
  <2>4. SameKids(u, t, y) /\ SameSize(u, t, y)
    BY <1>1, <1>3
  <2>. QED
    BY <1>4, <2>3, <2>4, SoundSame
<1>. QED
  BY <1>2, <1>3, <1>4

\* The numbers that a changed subtree of n can lead to.
LEMMA NearFacts ==
  ASSUME NEW X, X \subseteq Name, NEW t \in Trees(X), NEW n \in X, \A e \in Sides : Kid(t, n, e) \in X \cup {NULL},
         Near(t, n), NEW d \in Sides, NEW i, NEW j, NEW h,
         i = Depth(t, Kid(t, n, d)), j = Depth(t, Kid(t, n, Opp(d))), h = Depth(t, n)
  PROVE  /\ i \in Nat /\ j \in Nat /\ h \in Nat
         /\ i <= j + 2 /\ j <= i + 2 /\ Close(1 + Higher(i, j), h)
         /\ i = j + 2 => h = i \/ h = i + 1
<1>1. Opp(d) \in Sides /\ Opp(Opp(d)) = d /\ \A e \in Sides : e = d \/ e = Opp(d)
  BY Opposite
<1>2. i \in Nat /\ j \in Nat /\ h \in Nat
  BY <1>1, SizeType, NodeType
<1>3. PICK e \in Sides : NearBy(t, n, e)
  BY DEF Near
<1>4. CASE e = d
  <2>1. PICK p, q \in Nat : Close(p, q) /\ h = 1 + Higher(p, q) /\ Close(i, p) /\ j = q
    BY <1>3, <1>4 DEF NearBy
  <2>. QED
    BY <1>2, <2>1 DEF Close, Higher
<1>5. CASE e = Opp(d)
  <2>1. PICK p, q \in Nat : Close(p, q) /\ h = 1 + Higher(p, q) /\ Close(j, p) /\ i = q
    BY <1>1, <1>3, <1>5 DEF NearBy
  <2>. QED
    BY <1>2, <2>1 DEF Close, Higher
<1>. QED
  BY <1>1, <1>4, <1>5

\* The parent of a subtree whose height has changed by one at most.
LEMMA Above ==
  ASSUME NEW X, X \subseteq Name, NEW t \in Trees(X), NEW p \in X, \A e \in Sides : Kid(t, p, e) \in X \cup {NULL},
         Sound(t, p), NEW s \in Sides, NEW u, NEW top, Kid(u, p, s) = top,
         Kid(u, p, Opp(s)) = Kid(t, p, Opp(s)), SameSize(u, t, p), SameSize(u, t, Kid(t, p, Opp(s))),
         Close(Depth(u, top), Depth(t, Kid(t, p, s)))
  PROVE  Near(u, p)
<1>1. SoundBy(t, p, s) /\ Opp(s) \in Sides
  BY Opposite DEF Sound
<1>2. PICK i : i = Depth(t, Kid(t, p, s))
  OBVIOUS
<1>3. PICK j : j = Depth(t, Kid(t, p, Opp(s)))
  OBVIOUS
<1>4. i \in Nat /\ j \in Nat
  BY <1>1, <1>2, <1>3, SizeType
<1>5. Close(i, j) /\ Depth(u, p) = 1 + Higher(i, j)
  BY <1>1, <1>2, <1>3 DEF SoundBy, SameSize
<1>6. Close(Depth(u, Kid(u, p, s)), i) /\ Depth(u, Kid(u, p, Opp(s))) = j
  BY <1>2, <1>3 DEF SameSize
<1>7. NearBy(u, p, s)
  BY <1>4, <1>5, <1>6 DEF NearBy
<1>. QED
  BY <1>7 DEF Near

-----------------------------------------------------------------------------
(* A round of avl_fix *)

\* avl_fix is at n: all other nodes are sound.
Mending(t, R, D, r, sub, n, X) ==
  /\ X \subseteq Name /\ D \subseteq X /\ NULL \notin D
  /\ t \in Trees(X) /\ StrictOrder(R, D) /\ Shape(t, R, D, r, sub)
  /\ n \in D /\ Near(t, n) /\ \A y \in D \ {n} : Sound(t, y)

\* The round is over: the subtree of n is mended, what is left is its parent p.
Mended(u, top, p, R, D, r, sub, n, X) ==
  /\ u \in Trees(X)
  /\ \A y \in D : y # p => Sound(u, y)
  /\ p # NULL => Near(u, p)
  /\ \E z : Shape(u, R, D, IF n = r THEN top ELSE r, z) /\ (p # NULL => z[p] = sub[p])

LEMMA RoundBalanced ==
  ASSUME NEW X, NEW D, NEW t, NEW R, NEW r, NEW sub, NEW n, Mending(t, R, D, r, sub, n, X),
         NEW w, Updated(w, t, n, X), NEW d \in Sides,
         Close(Depth(t, Kid(t, n, d)), Depth(t, Kid(t, n, Opp(d))))
  PROVE  Mended(Hung(w, t, n, n), n, Par(t, n), R, D, r, sub, n, X)
<1> USE DEF Mending
<1>1. PICK u : u = Hung(w, t, n, n)
  OBVIOUS
<1>2. PICK p : p = Par(t, n)
  OBVIOUS
<1>3. /\ w \in Trees(X) /\ \A y \in X : SameKids(w, t, y) /\ Par(w, y) = Par(t, y)
      /\ \A y \in X \ {n} : SameSize(w, t, y)
      /\ \A e \in Sides : /\ Depth(w, n) = 1 + Higher(Depth(t, Kid(t, n, e)), Depth(t, Kid(t, n, Opp(e))))
                          /\ Cnt(w, n) = 1 + Cnt(t, Kid(t, n, e)) + Cnt(t, Kid(t, n, Opp(e)))
  BY DEF Updated
<1>4. u \in Trees(X) /\ \A y \in D : SameKids(u, w, y) /\ Par(u, y) = Par(w, y) /\ SameSize(u, w, y)
  <2>1. CASE p = NULL
    BY <1>1, <1>2, <1>3, <2>1 DEF Hung, SameKids, SameSize
  <2>2. CASE p # NULL
    <3>1. PICK s : s = Side(t, p, n)
      OBVIOUS
    <3>2. p \in D /\ p \in X /\ s \in Sides /\ Kid(t, p, s) = n /\ n \in Name \cup {NULL}
      BY <1>2, <2>2, <3>1, ParentOf
    <3>3. u = [w EXCEPT ![p][s] = n]
      BY <1>1, <1>2, <2>2, <3>1 DEF Hung
    <3>4. KidSet(u, w, p, s, n, X)
      BY ONLY <1>3, <3>2, <3>3, SetKidFields, X \subseteq Name
    <3>5. /\ u \in Trees(X)
          /\ \A y \in X : Par(u, y) = Par(w, y) /\ SameSize(u, w, y)
          /\ \A y \in X : y # p => SameKids(u, w, y)
          /\ Kid(u, p, s) = n /\ Kid(u, p, Opp(s)) = Kid(w, p, Opp(s))
      BY <3>4 DEF KidSet
    <3>6. Kid(w, p, s) = n
      BY <1>3, <3>2 DEF SameKids
    <3>7. SameKids(u, w, p)
      BY <3>2, <3>5, <3>6, Opposite DEF SameKids
    <3>. QED
      BY <3>5, <3>7
  <2>. QED
    BY <2>1, <2>2
<1>5. \A y \in D : SameKids(u, t, y) /\ Par(u, y) = Par(t, y)
  BY <1>3, <1>4 DEF SameKids
<1>6. \A y \in (D \ {n}) \cup {NULL} : SameSize(u, t, y)
  BY <1>3, <1>4, NullSize DEF SameSize
<1>7. Shape(u, R, D, r, sub)
  BY <1>5, ShapeSame
<1>8. \A y \in D, e \in Sides : Kid(t, y, e) \in D \cup {NULL} /\ Kid(t, n, e) # n
  <2>1. \A e \in Sides : Kid(t, n, e) # n
    <3>1. n # NULL
      OBVIOUS
    <3>. QED
      BY <3>1, ShapeKid
  <2>. QED
    BY <2>1 DEF Shape
<1>9. Opp(d) \in Sides
  BY Opposite
<1>10. Sound(u, n)
  <2>1. SameSize(u, w, n)
    BY <1>4
  <2>2. Kid(u, n, d) = Kid(t, n, d) /\ Kid(u, n, Opp(d)) = Kid(t, n, Opp(d))
    BY <1>5, <1>9 DEF SameKids
  <2>3. SameSize(u, t, Kid(t, n, d)) /\ SameSize(u, t, Kid(t, n, Opp(d)))
    BY <1>6, <1>8, <1>9
  <2>4. SoundBy(u, n, d)
    BY <1>3, <2>1, <2>2, <2>3 DEF SoundBy, SameSize
  <2>5. \A e \in Sides : Kid(u, n, e) \in X \cup {NULL}
    BY <1>5, <1>8 DEF SameKids
  <2>. QED
    BY <1>4, <2>4, <2>5, SoundSide
<1>11. ASSUME NEW y \in D, y # p
       PROVE  Sound(u, y)
  <2>1. CASE y = n
    BY <1>10, <2>1
  <2>2. CASE y # n
    <3>1. \A e \in Sides : Kid(t, y, e) # n
      BY <1>2, <1>11, ParentOf
    <3>2. \A e \in Sides : SameSize(u, t, Kid(t, y, e))
      BY <1>6, <1>8, <3>1
    <3>. QED
      BY <1>5, <1>6, <2>2, <3>2, SoundSame
  <2>. QED
    BY <2>1, <2>2
<1>12. ASSUME p # NULL PROVE Near(u, p)
  <2>1. PICK s : s = Side(t, p, n)
    OBVIOUS
  <2>2. /\ p \in D /\ p # n /\ s \in Sides /\ Kid(t, p, s) = n
        /\ \A y \in D, e \in Sides : Kid(t, y, e) = n => y = p /\ e = s
    <3>1. p \in D /\ p # n /\ s \in Sides /\ Kid(t, p, s) = n
      BY <1>2, <1>12, <2>1, ParentOf
    <3>2. \A y \in D, e \in Sides : Kid(t, y, e) = n => y = p /\ e = s
      BY <3>1, ShapeLink
    <3>. QED
      BY <3>1, <3>2
  <2>3. Opp(s) \in Sides /\ Opp(s) # s
    BY <2>2, Opposite
  <2>4. Kid(u, p, s) = n /\ Kid(u, p, Opp(s)) = Kid(t, p, Opp(s))
    BY <1>5, <2>2, <2>3 DEF SameKids
  <2>5. SameSize(u, t, p) /\ SameSize(u, t, Kid(t, p, Opp(s)))
    BY <1>6, <1>8, <2>2, <2>3
  <2>6. Close(Depth(u, n), Depth(t, n))
    <3>1. Close(1 + Higher(Depth(t, Kid(t, n, d)), Depth(t, Kid(t, n, Opp(d)))), Depth(t, n))
      BY <1>8, NearFacts
    <3>. QED
      BY <1>3, <1>4, <3>1 DEF SameSize
  <2>7. \A e \in Sides : Kid(t, p, e) \in X \cup {NULL}
    BY <1>8, <2>2
  <2>8. Sound(t, p)
    BY <2>2
  <2>. QED
    BY <2>2, <2>4, <2>5, <2>6, <2>7, <2>8, Above
<1>14. Shape(u, R, D, IF n = r THEN n ELSE r, sub)
  <2>1. CASE n = r
    BY <1>7, <2>1
  <2>2. CASE n # r
    BY <1>7, <2>2
  <2>. QED
    BY <2>1, <2>2
<1>15. Mended(u, n, p, R, D, r, sub, n, X)
  BY <1>4, <1>11, <1>12, <1>14 DEF Mended
<1>. QED
  BY <1>1, <1>2, <1>15

\* The tree w that the last turn of a round starts from: only n, the top m of
\* its deeper subtree and its parent p may be unsound.
Ready(w, t, R, D, r, sub, n, m, X) ==
  /\ w \in Trees(X)
  /\ Par(w, n) = Par(t, n)
  /\ \A y \in D \ {n, m} : y # Par(t, n) => Sound(w, y)
  /\ Par(t, n) # NULL => /\ SameKids(w, t, Par(t, n)) /\ SameSize(w, t, Par(t, n))
                         /\ \A e \in Sides : Kid(t, Par(t, n), e) # n => SameSize(w, t, Kid(t, Par(t, n), e))
  /\ \E z : Shape(w, R, D, r, z) /\ (Par(t, n) # NULL => z[Par(t, n)] = sub[Par(t, n)])

LEMMA LastTurn ==
  ASSUME NEW X, NEW D, NEW t, NEW R, NEW r, NEW sub, NEW n, Mending(t, R, D, r, sub, n, X),
         NEW w, NEW m, Ready(w, t, R, D, r, sub, n, m, X), NEW c, NEW e, Turnable(w, n, m, c, e, D),
         NEW h, h = 1 + Higher(Depth(w, Kid(w, n, e)), Depth(w, c)),
         Close(Depth(w, Kid(w, n, e)), Depth(w, c)), Close(h, Depth(w, Kid(w, m, Opp(e)))),
         Close(1 + Higher(h, Depth(w, Kid(w, m, Opp(e)))), Depth(t, n))
  PROVE  Mended(Hung(Rot(w, n, e), w, n, m), m, Par(t, n), R, D, r, sub, n, X)
<1>1. /\ X \subseteq Name /\ D \subseteq X /\ NULL \notin D
      /\ t \in Trees(X) /\ StrictOrder(R, D) /\ Shape(t, R, D, r, sub)
      /\ n \in D /\ Near(t, n) /\ \A y \in D \ {n} : Sound(t, y)
  BY DEF Mending
<1>2. PICK p : p = Par(t, n)
  OBVIOUS
<1>3. PICK z : Shape(w, R, D, r, z) /\ (p # NULL => z[p] = sub[p])
  BY <1>2 DEF Ready
<1>4. w \in Trees(X)
  BY DEF Ready
<1>5. PICK v : v = Rot(w, n, e)
  OBVIOUS
<1>6. Turnable(w, n, m, c, e, X)
  BY <1>1 DEF Turnable
<1>7. RotTop(v, w, n, m, c, e, X)
  BY <1>1, <1>4, <1>5, <1>6, RotFields
<1>8. PICK u : u = Hung(v, w, n, m)
  OBVIOUS
<1>9. Rotated(u, w, n, m, c, e, X, D)
  BY <1>1, <1>3, <1>4, <1>7, <1>8, HangTop
<1>10. PICK q : q = TurnedSub(R, D, z, n, m, e)
  OBVIOUS
<1>11. Shape(u, R, D, IF n = r THEN m ELSE r, q)
  BY <1>1, <1>3, <1>9, <1>10, RotShape
<1>12. RotSizes(u, w, n, m, c, e, D)
  BY <1>1, <1>3, <1>9, RotSize
<1>13. u \in Trees(X)
  BY <1>9 DEF Rotated
<1>14. /\ m \in D /\ m # n /\ e \in Sides /\ Opp(e) \in Sides /\ Opp(Opp(e)) = e
       /\ m = Kid(w, n, Opp(e)) /\ c = Kid(w, m, e)
  BY Opposite DEF Turnable
<1>15. \A y \in D, f \in Sides : Kid(u, y, f) \in X \cup {NULL}
  BY <1>1, <1>11 DEF Shape
<1>16. Sound(u, n)
  <2>1. SoundBy(u, n, e)
    BY <1>9, <1>12, <1>14 DEF SoundBy, Rotated, RotSizes, SameSize
  <2>. QED
    BY <1>1, <1>13, <1>14, <1>15, <2>1, SoundSide
<1>17. Depth(u, n) = h
  BY <1>9 DEF Rotated
<1>18. Sound(u, m)
  <2>1. SoundBy(u, m, e)
    BY <1>9, <1>12, <1>14, <1>17 DEF SoundBy, Rotated, RotSizes, SameSize
  <2>. QED
    BY <1>1, <1>13, <1>14, <1>15, <2>1, SoundSide
<1>19. ASSUME NEW y \in D \ {n, m}, y # p
       PROVE  Sound(u, y)
  <2>1. Sound(w, y)
    BY <1>2, <1>19 DEF Ready
  <2>2. Par(w, n) = p
    BY <1>2 DEF Ready
  <2>3. \A f \in Sides : Kid(w, y, f) # n
    BY <1>1, <1>3, <1>4, <1>19, <2>2, ParentOf
  <2>. QED
    BY <1>12, <2>1, <2>3 DEF RotSizes
<1>20. ASSUME p # NULL PROVE Near(u, p) /\ q[p] = sub[p]
  <2>1. PICK s : s = Side(t, p, n)
    OBVIOUS
  <2>2. p \in D /\ p # n /\ s \in Sides /\ Kid(t, p, s) = n
    BY <1>1, <1>2, <1>20, <2>1, ParentOf
  <2>3. Opp(s) \in Sides /\ Opp(s) # s
    BY <2>2, Opposite
  <2>4. Kid(w, p, s) = n /\ Kid(w, p, Opp(s)) = Kid(t, p, Opp(s)) /\ SameSize(w, t, p)
    BY <1>2, <1>20, <2>2, <2>3 DEF Ready, SameKids
  <2>5. /\ p \notin {n, m} /\ Kid(u, p, s) = m /\ Kid(u, p, Opp(s)) = Kid(w, p, Opp(s))
        /\ SameSize(u, w, Kid(w, p, Opp(s))) /\ SameSize(u, w, p)
    BY <1>12, <2>2, <2>4 DEF RotSizes
  <2>6. q[p] = sub[p]
    BY <1>3, <1>10, <1>20, <2>2, <2>5 DEF TurnedSub
  <2>7. Kid(t, p, Opp(s)) # n
    <3>1. \A y \in D, f \in Sides : Kid(t, y, f) = n => y = p /\ f = s
      BY <1>1, <2>2, ShapeLink
    <3>. QED
      BY <2>2, <2>3, <3>1
  <2>8. SameSize(w, t, Kid(t, p, Opp(s)))
    BY <1>2, <1>20, <2>3, <2>7 DEF Ready
  <2>9. SameSize(u, t, p) /\ SameSize(u, t, Kid(t, p, Opp(s)))
    BY <2>4, <2>5, <2>8 DEF SameSize
  <2>10. Depth(u, m) = 1 + Higher(h, Depth(w, Kid(w, m, Opp(e))))
    BY <1>9, <1>17 DEF Rotated
  <2>11. \A f \in Sides : Kid(t, p, f) \in X \cup {NULL}
    BY <1>1, <2>2 DEF Shape
  <2>12. Sound(t, p) /\ p \in X
    BY <1>1, <2>2
  <2>13. Kid(u, p, Opp(s)) = Kid(t, p, Opp(s)) /\ Close(Depth(u, m), Depth(t, Kid(t, p, s)))
    BY <2>2, <2>4, <2>5, <2>10
  <2>14. Near(u, p)
    BY <1>1, <2>2, <2>5, <2>9, <2>11, <2>12, <2>13, Above
  <2>. QED
    BY <2>6, <2>14
<1>21. Mended(u, m, p, R, D, r, sub, n, X)
  BY <1>11, <1>13, <1>16, <1>18, <1>19, <1>20 DEF Mended
<1>. QED
  BY <1>2, <1>5, <1>8, <1>21

\* Where to hang is the same in the tree at the start of the round.
LEMMA HungSame ==
  ASSUME NEW X, NEW D, NEW t, NEW R, NEW r, NEW sub, NEW n, Mending(t, R, D, r, sub, n, X),
         NEW w, NEW m, Ready(w, t, R, D, r, sub, n, m, X), NEW v, NEW k
  PROVE  Hung(v, w, n, k) = Hung(v, t, n, k)
<1>1. /\ X \subseteq Name /\ D \subseteq X /\ NULL \notin D
      /\ t \in Trees(X) /\ StrictOrder(R, D) /\ Shape(t, R, D, r, sub) /\ n \in D
  BY DEF Mending
<1>2. w \in Trees(X) /\ Par(w, n) = Par(t, n)
  BY DEF Ready
<1>3. CASE Par(t, n) = NULL
  BY <1>2, <1>3 DEF Hung
<1>4. CASE Par(t, n) # NULL
  <2>1. PICK p : p = Par(t, n)
    OBVIOUS
  <2>2. p \in X
    BY <1>1, <1>4, <2>1, ParentOf
  <2>3. SameKids(w, t, p)
    BY <1>4, <2>1 DEF Ready
  <2>4. w[p].left = t[p].left
    <3>1. Kid(w, p, "left") = w[p].left /\ Kid(t, p, "left") = t[p].left
      BY <1>1, <1>2, <2>2, NodeType
    <3>. QED
      BY <2>3, <3>1 DEF SameKids, Sides
  <2>5. Side(w, p, n) = Side(t, p, n)
    BY <2>4 DEF Side
  <2>. QED
    BY <1>2, <1>4, <2>1, <2>5 DEF Hung
<1>. QED
  BY <1>3, <1>4

\* What both cases of a too deep subtree of n start from.
Deep(w, t, R, D, r, sub, n, d, m, j, X) ==
  /\ Ready(w, t, R, D, r, sub, n, m, X)
  /\ d \in Sides /\ m = Kid(w, n, d) /\ m \in D /\ m # n /\ Sound(w, m)
  /\ j \in Nat /\ Depth(w, Kid(w, n, Opp(d))) = j /\ Depth(w, m) = j + 2
  /\ Depth(t, n) \in {j + 2, j + 3}
  /\ \A y \in D \ {n} : y # Par(t, n) => Sound(w, y)
  /\ \A y \in D : SameKids(w, t, y) /\ Par(w, y) = Par(t, y)
  /\ Shape(w, R, D, r, sub)

LEMMA DeepFacts ==
  ASSUME NEW X, NEW D, NEW t, NEW R, NEW r, NEW sub, NEW n, Mending(t, R, D, r, sub, n, X),
         NEW w, Updated(w, t, n, X), NEW d \in Sides,
         Depth(w, Kid(w, n, d)) = Depth(w, Kid(w, n, Opp(d))) + 2
  PROVE  Deep(w, t, R, D, r, sub, n, d, Kid(w, n, d), Depth(w, Kid(w, n, Opp(d))), X)
<1>1. /\ X \subseteq Name /\ D \subseteq X /\ NULL \notin D
      /\ t \in Trees(X) /\ StrictOrder(R, D) /\ Shape(t, R, D, r, sub)
      /\ n \in D /\ Near(t, n) /\ \A y \in D \ {n} : Sound(t, y)
  BY DEF Mending
<1>2. /\ Shape(w, R, D, r, sub) /\ \A y \in D \ {n} : SameSize(w, t, y)
      /\ \A y \in D \ {n} : y # Par(t, n) => Sound(w, y)
  BY <1>1, UpdateShape
<1>3. w \in Trees(X) /\ \A y \in D : SameKids(w, t, y) /\ Par(w, y) = Par(t, y)
  BY <1>1 DEF Updated
<1>4. \A k \in (D \ {n}) \cup {NULL} : SameSize(w, t, k)
  BY <1>2, NullSize
<1>5. \A y \in D, e \in Sides : Kid(t, y, e) \in D \cup {NULL} /\ Kid(w, y, e) = Kid(t, y, e)
  BY <1>1, <1>3 DEF Shape, SameKids
<1>6. Opp(d) \in Sides
  BY Opposite
<1>7. \A e \in Sides : Kid(t, n, e) # n
  <2>1. n # NULL
    BY <1>1
  <2>. QED
    BY <1>1, <2>1, ShapeKid
<1>8. PICK i : i = Depth(w, Kid(w, n, d))
  OBVIOUS
<1>9. PICK j : j = Depth(w, Kid(w, n, Opp(d)))
  OBVIOUS
<1>10. i = Depth(t, Kid(t, n, d)) /\ j = Depth(t, Kid(t, n, Opp(d)))
  BY <1>1, <1>4, <1>5, <1>6, <1>7, <1>8, <1>9 DEF SameSize
<1>11. i \in Nat /\ j \in Nat /\ i = j + 2 /\ Depth(t, n) \in {j + 2, j + 3}
  <2>1. \A e \in Sides : Kid(t, n, e) \in X \cup {NULL}
    BY <1>1, <1>5
  <2>2. n \in X
    BY <1>1
  <2>3. i \in Nat /\ j \in Nat /\ (i = j + 2 => Depth(t, n) = i \/ Depth(t, n) = i + 1)
    BY <1>1, <1>10, <2>1, <2>2, NearFacts
  <2>4. i = j + 2
    BY <1>8, <1>9
  <2>. QED
    BY <2>3, <2>4
<1>12. Kid(w, n, d) # NULL
  BY <1>8, <1>11, NullSize
<1>13. Kid(w, n, d) \in D /\ Kid(w, n, d) # n
  BY <1>1, <1>5, <1>7, <1>12
<1>14. ASSUME Par(t, n) # NULL
       PROVE  /\ Par(t, n) \in D /\ Par(t, n) # n /\ Par(t, n) # Kid(w, n, d)
  <2>1. Par(t, n) \in D /\ Par(t, n) # n /\ Par(t, n) \notin sub[n]
    BY <1>1, <1>14, ParentOf
  <2>2. Kid(w, n, d) \in sub[n]
    <3>1. PICK k : k = Kid(w, n, d) /\ k # NULL
      BY <1>12
    <3>2. k \in sub[n]
      BY <1>1, <1>2, <3>1, ShapeKid
    <3>. QED
      BY <3>1, <3>2
  <2>. QED
    BY <2>1, <2>2
<1>15. Sound(w, Kid(w, n, d))
  BY <1>1, <1>2, <1>13, <1>14
<1>16. Ready(w, t, R, D, r, sub, n, Kid(w, n, d), X)
  <2>1. ASSUME Par(t, n) # NULL
        PROVE  /\ SameKids(w, t, Par(t, n)) /\ SameSize(w, t, Par(t, n))
               /\ \A e \in Sides : Kid(t, Par(t, n), e) # n => SameSize(w, t, Kid(t, Par(t, n), e))
    BY <1>2, <1>3, <1>4, <1>5, <1>14, <2>1
  <2>. QED
    BY <1>1, <1>2, <1>3, <2>1 DEF Ready
<1>17. PICK m : m = Kid(w, n, d)
  OBVIOUS
<1>18. Depth(w, m) = j + 2
  BY <1>8, <1>11, <1>17
<1>19. Deep(w, t, R, D, r, sub, n, d, m, j, X)
  BY <1>2, <1>3, <1>9, <1>11, <1>13, <1>15, <1>16, <1>17, <1>18 DEF Deep
<1>. QED
  BY <1>9, <1>17, <1>19

LEMMA RoundSingle ==
  ASSUME NEW X, NEW D, NEW t, NEW R, NEW r, NEW sub, NEW n, Mending(t, R, D, r, sub, n, X),
         NEW w, NEW d, NEW m, NEW j, Deep(w, t, R, D, r, sub, n, d, m, j, X),
         ~(Depth(w, Kid(w, m, d)) < Depth(w, Kid(w, m, Opp(d))))
  PROVE  Mended(Hung(Rot(w, n, Opp(d)), t, n, m), m, Par(t, n), R, D, r, sub, n, X)
<1>1. /\ X \subseteq Name /\ D \subseteq X /\ NULL \notin D
      /\ t \in Trees(X) /\ StrictOrder(R, D) /\ Shape(t, R, D, r, sub) /\ n \in D
  BY DEF Mending
<1>2. /\ Ready(w, t, R, D, r, sub, n, m, X)
      /\ d \in Sides /\ m = Kid(w, n, d) /\ m \in D /\ m # n /\ Sound(w, m)
      /\ j \in Nat /\ Depth(w, Kid(w, n, Opp(d))) = j /\ Depth(w, m) = j + 2
      /\ Depth(t, n) \in {j + 2, j + 3} /\ Shape(w, R, D, r, sub)
  BY DEF Deep
<1>3. Opp(d) \in Sides /\ Opp(Opp(d)) = d
  BY <1>2, Opposite
<1>4. PICK e : e = Opp(d)
  OBVIOUS
<1>5. PICK c : c = Kid(w, m, e)
  OBVIOUS
<1>6. Turnable(w, n, m, c, e, D)
  BY <1>1, <1>2, <1>3, <1>4, <1>5, ShapeTurnable
<1>7. PICK i : i = Depth(w, Kid(w, m, d))
  OBVIOUS
<1>8. PICK k : k = Depth(w, c)
  OBVIOUS
<1>9. i \in Nat /\ k \in Nat
  <2>1. \A f \in Sides : Kid(w, m, f) \in X \cup {NULL}
    BY <1>1, <1>2 DEF Shape
  <2>2. w \in Trees(X)
    BY <1>2 DEF Ready
  <2>. QED
    BY <1>1, <1>2, <1>3, <1>4, <1>5, <1>7, <1>8, <2>1, <2>2, SizeType
<1>10. j + 2 = 1 + Higher(i, k) /\ Close(i, k) /\ ~(i < k)
  BY <1>2, <1>3, <1>4, <1>5, <1>7, <1>8 DEF Sound, SoundBy
<1>11. PICK h : h = 1 + Higher(j, k)
  OBVIOUS
<1>12. Close(j, k) /\ Close(h, i) /\ Close(1 + Higher(h, i), Depth(t, n))
  BY <1>2, <1>9, <1>10, <1>11 DEF Close, Higher
<1>13. Kid(w, m, Opp(e)) = Kid(w, m, d)
  BY <1>3, <1>4
<1>14. /\ h = 1 + Higher(Depth(w, Kid(w, n, e)), Depth(w, c))
       /\ Close(Depth(w, Kid(w, n, e)), Depth(w, c)) /\ Close(h, Depth(w, Kid(w, m, Opp(e))))
       /\ Close(1 + Higher(h, Depth(w, Kid(w, m, Opp(e)))), Depth(t, n))
  BY <1>2, <1>4, <1>7, <1>8, <1>11, <1>12, <1>13
<1>15. Mended(Hung(Rot(w, n, e), w, n, m), m, Par(t, n), R, D, r, sub, n, X)
  BY <1>2, <1>6, <1>14, LastTurn
<1>16. Hung(Rot(w, n, e), w, n, m) = Hung(Rot(w, n, e), t, n, m)
  BY <1>2, HungSame
<1>. QED
  BY <1>4, <1>15, <1>16

\* k hangs on side d of n.
Hangs(t, R, D, r, sub, n, d, k) ==
  /\ NULL \notin D /\ StrictOrder(R, D) /\ Shape(t, R, D, r, sub)
  /\ n \in D /\ k \in D /\ d \in Sides /\ Kid(t, n, d) = k

LEMMA KidOf ==
  ASSUME NEW t, NEW R, NEW D, NEW r, NEW sub, NEW n, NEW d, NEW k, Hangs(t, R, D, r, sub, n, d, k)
  PROVE  /\ k # n /\ k # r /\ Par(t, k) = n /\ k \in sub[n] /\ n \notin sub[k] /\ sub[k] \subseteq sub[n]
BY ShapeKid DEF Hangs

\* The first of the two turns.
Inside(w, m, n, d, k) == [Rot(w, m, d) EXCEPT ![n][d] = k]

LEMMA InnerTurn ==
  ASSUME NEW X, NEW D, NEW t, NEW R, NEW r, NEW sub, NEW n, Mending(t, R, D, r, sub, n, X),
         NEW w, NEW d, NEW m, NEW j, Deep(w, t, R, D, r, sub, n, d, m, j, X),
         NEW k, k = Kid(w, m, Opp(d)), Depth(w, Kid(w, m, d)) < Depth(w, k),
         NEW v, v = Inside(w, m, n, d, k)
  PROVE  /\ Ready(v, t, R, D, r, sub, n, k, X)
         /\ Kid(v, n, d) = k /\ k \in D /\ k # n
         /\ Depth(v, Kid(v, n, Opp(d))) = j
         /\ Depth(v, Kid(v, k, d)) = j + 1
         /\ Depth(v, Kid(v, k, Opp(d))) \in {j, j - 1} /\ Depth(v, Kid(v, k, Opp(d))) \in Nat
<1>1. /\ X \subseteq Name /\ D \subseteq X /\ NULL \notin D
      /\ t \in Trees(X) /\ StrictOrder(R, D) /\ Shape(t, R, D, r, sub) /\ n \in D
  BY DEF Mending
<1>2. /\ Ready(w, t, R, D, r, sub, n, m, X)
      /\ d \in Sides /\ m = Kid(w, n, d) /\ m \in D /\ m # n /\ Sound(w, m)
      /\ j \in Nat /\ Depth(w, Kid(w, n, Opp(d))) = j /\ Depth(w, m) = j + 2
      /\ \A y \in D \ {n} : y # Par(t, n) => Sound(w, y)
      /\ \A y \in D : SameKids(w, t, y) /\ Par(w, y) = Par(t, y)
      /\ Shape(w, R, D, r, sub)
  BY DEF Deep
<1>3. Opp(d) \in Sides /\ Opp(Opp(d)) = d /\ w \in Trees(X)
  BY <1>2, Opposite DEF Ready
<1>35. Hangs(w, R, D, r, sub, n, d, m)
  BY <1>1, <1>2 DEF Hangs
<1>4. PICK o : o = Depth(w, Kid(w, m, d))
  OBVIOUS
<1>5. PICK b : b = Depth(w, k)
  OBVIOUS
<1>6. /\ k \in D \cup {NULL} /\ Kid(w, m, d) \in D \cup {NULL}
      /\ k \in X \cup {NULL} /\ Kid(w, m, d) \in X \cup {NULL}
  BY <1>1, <1>2, <1>3 DEF Shape
<1>7. o \in Nat /\ b \in Nat
  BY <1>1, <1>3, <1>4, <1>5, <1>6, SizeType
<1>8. b = j + 1 /\ o = j
  <2>1. j + 2 = 1 + Higher(o, b) /\ Close(o, b)
    BY <1>2, <1>4, <1>5 DEF Sound, SoundBy
  <2>2. o < b
    BY <1>4, <1>5
  <2>. QED
    BY <1>2, <1>7, <2>1, <2>2 DEF Close, Higher
<1>9. k # NULL
  <2>1. b # 0
    BY <1>2, <1>8
  <2>. QED
    BY <1>5, <2>1, NullSize
<1>10. /\ k \in D /\ k # m /\ k # n /\ Par(w, k) = m /\ k \in sub[n]
  <2>1. k \in D /\ k # m /\ Par(w, k) = m /\ k \in sub[m]
    BY <1>1, <1>2, <1>3, <1>9, ShapeKid
  <2>2. n \notin sub[m] /\ sub[m] \subseteq sub[n]
    BY <1>35, KidOf
  <2>. QED
    BY <2>1, <2>2
<1>36. Hangs(w, R, D, r, sub, m, Opp(d), k)
  BY <1>1, <1>2, <1>3, <1>10 DEF Hangs
<1>11. PICK c : c = Kid(w, k, d)
  OBVIOUS
<1>12. Turnable(w, m, k, c, d, X) /\ Turnable(w, m, k, c, d, D)
  BY <1>1, <1>2, <1>9, <1>11, ShapeTurnable
<1>13. RotTop(Rot(w, m, d), w, m, k, c, d, X)
  BY <1>1, <1>3, <1>12, RotFields
<1>14. Rotated(v, w, m, k, c, d, X, D)
  <2>1. \A y \in D, f \in Sides : Kid(w, y, f) = m => y = n /\ f = d
    BY <1>1, <1>2, ShapeLink
  <2>2. n \in X \ {m, k} /\ Kid(w, n, d) = m
    BY <1>1, <1>2, <1>10
  <2>3. PICK x : x = Rot(w, m, d)
    OBVIOUS
  <2>4. RotTop(x, w, m, k, c, d, X)
    BY <1>13, <2>3
  <2>5. Rotated([x EXCEPT ![n][d] = k], w, m, k, c, d, X, D)
    BY ONLY <1>1, <1>2, <1>3, <1>12, <2>1, <2>2, <2>4, RotLink
  <2>. QED
    BY <2>3, <2>5 DEF Inside
<1>15. PICK z : z = TurnedSub(R, D, sub, m, k, d)
  OBVIOUS
<1>16. Shape(v, R, D, r, z)
  <2>1. m # r
    BY <1>35, KidOf
  <2>2. Shape(v, R, D, IF m = r THEN k ELSE r, z)
    BY <1>1, <1>2, <1>12, <1>14, <1>15, RotShape
  <2>. QED
    BY <2>1, <2>2
<1>17. RotSizes(v, w, m, k, c, d, D)
  BY <1>1, <1>2, <1>12, <1>14, RotSize
<1>18. v \in Trees(X)
  BY <1>14 DEF Rotated
<1>19. Par(v, n) = Par(t, n)
  <2>1. n # c
    <3>1. c # NULL => c \in sub[k] /\ sub[k] \subseteq sub[m] /\ n \notin sub[m]
      <4>1. n \notin sub[m]
        BY <1>35, KidOf
      <4>3. sub[k] \subseteq sub[m]
        BY <1>36, KidOf
      <4>4. ASSUME c # NULL PROVE c \in sub[k]
        <5>1. Hangs(w, R, D, r, sub, k, d, c)
          BY <1>1, <1>2, <1>10, <1>11, <4>4 DEF Hangs, Shape
        <5>. QED
          BY <5>1, KidOf
      <4>. QED
        BY <4>1, <4>3, <4>4
    <3>. QED
      BY <1>1, <3>1
  <2>2. n \in X \ {m, k}
    BY <1>1, <1>2, <1>10
  <2>3. Par(v, n) = Par(w, n)
    BY <1>14, <2>1, <2>2 DEF Rotated
  <2>. QED
    BY <1>1, <1>2, <2>3
<1>20. \A y \in X \ {m, k} : SameSize(v, w, y)
  BY <1>14 DEF Rotated
<1>21. \A y \in D \ {m, k}, f \in Sides : Kid(v, y, f) = IF Kid(w, y, f) = m THEN k ELSE Kid(w, y, f)
  BY <1>14 DEF Rotated
<1>22. /\ Kid(v, n, d) = k /\ Kid(v, n, Opp(d)) = Kid(w, n, Opp(d)) /\ SameSize(v, w, Kid(w, n, Opp(d)))
  BY <1>1, <1>2, <1>17 DEF RotSizes
<1>23. /\ Kid(v, m, d) = Kid(w, m, d) /\ Kid(v, m, Opp(d)) = c /\ Kid(v, k, d) = m /\ Kid(v, k, Opp(d)) = Kid(w, k, Opp(d))
       /\ Depth(v, m) = 1 + Higher(o, Depth(w, c))
       /\ Cnt(v, m) = 1 + Cnt(w, Kid(w, m, d)) + Cnt(w, c)
  BY <1>4, <1>14 DEF Rotated
<1>24. SameSize(v, w, Kid(w, m, d)) /\ SameSize(v, w, c) /\ SameSize(v, w, Kid(w, k, Opp(d)))
  BY <1>17 DEF RotSizes
<1>25. PICK g : g = Depth(w, c)
  OBVIOUS
<1>26. PICK i : i = Depth(w, Kid(w, k, Opp(d)))
  OBVIOUS
<1>27. /\ Par(t, n) # NULL => Par(t, n) \in D /\ Par(t, n) # n /\ Par(t, n) # m /\ Par(t, n) # k
  <2>1. ASSUME Par(t, n) # NULL
        PROVE  Par(t, n) \in D /\ Par(t, n) # n /\ Par(t, n) \notin sub[n]
    BY <1>1, <2>1, ParentOf
  <2>2. m \in sub[n]
    BY <1>35, KidOf
  <2>. QED
    BY <1>10, <2>1, <2>2
<1>28. g \in Nat /\ i \in Nat /\ b = 1 + Higher(g, i) /\ Close(g, i)
  <2>1. Sound(w, k)
    <3>1. k # Par(t, n)
      BY <1>9, <1>27
    <3>. QED
      BY <1>2, <1>10, <3>1
  <2>2. c \in X \cup {NULL} /\ Kid(w, k, Opp(d)) \in X \cup {NULL}
    BY <1>1, <1>2, <1>3, <1>10, <1>11 DEF Shape
  <2>3. g \in Nat /\ i \in Nat
    BY <1>1, <1>3, <1>25, <1>26, <2>2, SizeType
  <2>. QED
    BY <1>2, <1>5, <1>11, <1>25, <1>26, <2>1, <2>3 DEF Sound, SoundBy
<1>29. i \in {j, j - 1} /\ Close(o, g) /\ Depth(v, m) = j + 1
  BY <1>2, <1>7, <1>8, <1>23, <1>25, <1>28 DEF Close, Higher
<1>30. Sound(v, m)
  <2>1. SoundBy(v, m, d)
    BY <1>4, <1>23, <1>24, <1>25, <1>29 DEF SoundBy, SameSize
  <2>2. \A f \in Sides : Kid(v, m, f) \in X \cup {NULL}
    BY <1>1, <1>2, <1>16 DEF Shape
  <2>. QED
    BY <1>1, <1>2, <1>18, <2>1, <2>2, SoundSide
<1>31. ASSUME NEW y \in D \ {n, k}, y # Par(t, n)
       PROVE  Sound(v, y)
  <2>1. CASE y = m
    BY <1>30, <2>1
  <2>2. CASE y # m
    <3>1. \A f \in Sides : Kid(w, y, f) # m
      <4>1. \A z1 \in D, f \in Sides : Kid(w, z1, f) = m => z1 = n /\ f = d
        BY <1>1, <1>2, ShapeLink
      <4>. QED
        BY <4>1
    <3>2. Sound(w, y)
      BY <1>2, <1>31
    <3>. QED
      BY <1>17, <2>2, <3>1, <3>2 DEF RotSizes
  <2>. QED
    BY <2>1, <2>2
<1>32. ASSUME NEW p, p = Par(t, n), p # NULL
       PROVE  /\ SameKids(v, t, p) /\ SameSize(v, t, p) /\ z[p] = sub[p]
              /\ \A f \in Sides : Kid(t, p, f) # n => SameSize(v, t, Kid(t, p, f))
  <2>1. p \in D /\ p \notin {n, m, k}
    BY <1>27, <1>32
  <2>2. ASSUME NEW f \in Sides
        PROVE  Kid(w, p, f) = Kid(t, p, f) /\ Kid(w, p, f) \notin {m, k} /\ Kid(w, p, f) \in D \cup {NULL}
    <3>1. Kid(w, p, f) # m
      <4>1. \A y \in D, e \in Sides : Kid(w, y, e) = m => y = n /\ e = d
        BY <1>1, <1>2, ShapeLink
      <4>. QED
        BY <2>1, <4>1
    <3>2. Kid(w, p, f) # k
      BY <1>2, <1>9, <1>10, <2>1 DEF Shape
    <3>. QED
      BY <1>2, <2>1, <3>1, <3>2 DEF SameKids, Shape
  <2>3. SameKids(v, t, p)
    BY <1>21, <2>1, <2>2 DEF SameKids
  <2>4. SameSize(w, t, p) /\ \A e \in Sides : Kid(t, p, e) # n => SameSize(w, t, Kid(t, p, e))
    BY <1>2, <1>32 DEF Ready
  <2>5. SameSize(v, t, p)
    BY <1>1, <1>20, <2>1, <2>4 DEF SameSize
  <2>6. ASSUME NEW f \in Sides, Kid(t, p, f) # n
        PROVE  SameSize(v, t, Kid(t, p, f))
    <3>1. SameSize(v, w, Kid(t, p, f))
      BY <1>1, <1>20, <2>2, NullSize
    <3>. QED
      BY <2>4, <2>6, <3>1 DEF SameSize
  <2>7. z[p] = sub[p]
    BY <1>15, <2>1 DEF TurnedSub
  <2>. QED
    BY <2>3, <2>5, <2>6, <2>7
<1>33. Ready(v, t, R, D, r, sub, n, k, X)
  BY <1>16, <1>18, <1>19, <1>31, <1>32 DEF Ready
<1>34. /\ Depth(v, Kid(v, n, Opp(d))) = j /\ Depth(v, Kid(v, k, d)) = j + 1
       /\ Depth(v, Kid(v, k, Opp(d))) = i
  BY <1>2, <1>22, <1>23, <1>24, <1>26, <1>29 DEF SameSize
<1>. QED
  BY <1>10, <1>22, <1>28, <1>29, <1>33, <1>34

LEMMA RoundDouble ==
  ASSUME NEW X, NEW D, NEW t, NEW R, NEW r, NEW sub, NEW n, Mending(t, R, D, r, sub, n, X),
         NEW w, NEW d, NEW m, NEW j, Deep(w, t, R, D, r, sub, n, d, m, j, X),
         NEW k, k = Kid(w, m, Opp(d)), Depth(w, Kid(w, m, d)) < Depth(w, k),
         NEW v, v = Inside(w, m, n, d, k)
  PROVE  /\ Mended(Hung(Rot(v, n, Opp(d)), t, n, k), k, Par(t, n), R, D, r, sub, n, X)
         /\ Kid(v, n, d) = k
<1>1. /\ X \subseteq Name /\ D \subseteq X /\ NULL \notin D
      /\ t \in Trees(X) /\ StrictOrder(R, D) /\ Shape(t, R, D, r, sub) /\ n \in D
  BY DEF Mending
<1>2. d \in Sides /\ j \in Nat /\ Depth(t, n) \in {j + 2, j + 3}
  BY DEF Deep
<1>3. Opp(d) \in Sides /\ Opp(Opp(d)) = d
  BY <1>2, Opposite
<1>4. /\ Ready(v, t, R, D, r, sub, n, k, X)
      /\ Kid(v, n, d) = k /\ k \in D /\ k # n
      /\ Depth(v, Kid(v, n, Opp(d))) = j
      /\ Depth(v, Kid(v, k, d)) = j + 1
      /\ Depth(v, Kid(v, k, Opp(d))) \in {j, j - 1} /\ Depth(v, Kid(v, k, Opp(d))) \in Nat
  BY InnerTurn
<1>5. PICK e : e = Opp(d)
  OBVIOUS
<1>6. PICK c : c = Kid(v, k, e)
  OBVIOUS
<1>7. PICK z : Shape(v, R, D, r, z)
  BY <1>4 DEF Ready
<1>8. Turnable(v, n, k, c, e, D)
  <2>1. k = Kid(v, n, Opp(e)) /\ k # NULL /\ e \in Sides
    BY <1>1, <1>3, <1>4, <1>5
  <2>. QED
    BY ONLY <1>1, <1>6, <1>7, <2>1, ShapeTurnable
<1>9. PICK g : g = Depth(v, c)
  OBVIOUS
<1>10. PICK h : h = 1 + Higher(j, g)
  OBVIOUS
<1>11. g \in Nat /\ (g = j \/ g = j - 1)
  BY <1>4, <1>5, <1>6, <1>9
<1>12. h = j + 1 /\ Close(j, g) /\ Close(h, j + 1) /\ Close(1 + Higher(h, j + 1), Depth(t, n))
  BY <1>2, <1>10, <1>11 DEF Close, Higher
<1>13. /\ Depth(v, Kid(v, n, e)) = j /\ Depth(v, c) = g /\ Depth(v, Kid(v, k, Opp(e))) = j + 1
  BY <1>3, <1>4, <1>5, <1>9
<1>14. /\ h = 1 + Higher(Depth(v, Kid(v, n, e)), Depth(v, c))
       /\ Close(Depth(v, Kid(v, n, e)), Depth(v, c)) /\ Close(h, Depth(v, Kid(v, k, Opp(e))))
       /\ Close(1 + Higher(h, Depth(v, Kid(v, k, Opp(e)))), Depth(t, n))
  BY <1>10, <1>12, <1>13
<1>15. Mended(Hung(Rot(v, n, e), v, n, k), k, Par(t, n), R, D, r, sub, n, X)
  BY ONLY <1>4, <1>8, <1>14, LastTurn, Mending(t, R, D, r, sub, n, X)
<1>16. Hung(Rot(v, n, e), v, n, k) = Hung(Rot(v, n, e), t, n, k)
  BY <1>4, HungSame
<1>. QED
  BY <1>4, <1>5, <1>15, <1>16

\* FixSide mends the subtree of n when its d side is too deep.
LEMMA SideMends ==
  ASSUME NEW X, NEW D, NEW t, NEW R, NEW r, NEW sub, NEW n, Mending(t, R, D, r, sub, n, X),
         NEW w, NEW d, NEW m, NEW j, Deep(w, t, R, D, r, sub, n, d, m, j, X),
         NEW f, f = FixSide(w, n, d)
  PROVE  Mended(Hung(f.tree, t, n, f.top), f.top, Par(t, n), R, D, r, sub, n, X)
<1>1. m = Kid(w, n, d) /\ d \in Sides
  BY DEF Deep
<1>2. PICK k : k = Kid(w, m, Opp(d))
  OBVIOUS
<1>3. CASE Depth(w, Kid(w, m, d)) < Depth(w, k)
  <2>1. PICK v : v = Inside(w, m, n, d, k)
    OBVIOUS
  <2>2. /\ Mended(Hung(Rot(v, n, Opp(d)), t, n, k), k, Par(t, n), R, D, r, sub, n, X)
        /\ Kid(v, n, d) = k
    BY ONLY <1>2, <1>3, <2>1, RoundDouble, Mending(t, R, D, r, sub, n, X), Deep(w, t, R, D, r, sub, n, d, m, j, X)
  <2>3. f = [tree |-> Rot(v, n, Opp(d)), top |-> v[n][d]]
    BY <1>1, <1>2, <1>3, <2>1 DEF FixSide, Inside, Kid
  <2>4. f.tree = Rot(v, n, Opp(d)) /\ f.top = k
    BY <2>2, <2>3 DEF Kid
  <2>. QED
    BY <2>2, <2>4
<1>4. CASE ~(Depth(w, Kid(w, m, d)) < Depth(w, k))
  <2>1. Mended(Hung(Rot(w, n, Opp(d)), t, n, m), m, Par(t, n), R, D, r, sub, n, X)
    BY <1>2, <1>4, RoundSingle
  <2>2. f = [tree |-> Rot(w, n, Opp(d)), top |-> w[n][d]]
    BY <1>1, <1>2, <1>4 DEF FixSide, Kid
  <2>3. f.tree = Rot(w, n, Opp(d)) /\ f.top = m
    BY <1>1, <2>2 DEF Kid
  <2>. QED
    BY <2>1, <2>3
<1>. QED
  BY <1>3, <1>4

LEMMA NodeMends ==
  ASSUME NEW X, NEW D, NEW t, NEW R, NEW r, NEW sub, NEW n, Mending(t, R, D, r, sub, n, X),
         NEW f, f = FixNode(t, n)
  PROVE  Mended(Hung(f.tree, t, n, f.top), f.top, Par(t, n), R, D, r, sub, n, X)
<1>1. /\ X \subseteq Name /\ D \subseteq X /\ NULL \notin D
      /\ t \in Trees(X) /\ StrictOrder(R, D) /\ Shape(t, R, D, r, sub)
      /\ n \in D /\ Near(t, n)
  BY DEF Mending
<1>2. PICK w : w = AvlUpdate(t, n)
  OBVIOUS
<1>3. \A e \in Sides : Kid(t, n, e) \in D \cup {NULL} /\ Kid(t, n, e) \in X \cup {NULL}
  BY <1>1 DEF Shape
<1>4. Updated(w, t, n, X)
  <2>1. n \in X /\ \A e \in Sides : Kid(t, n, e) \in X \cup {NULL}
    BY <1>1, <1>3
  <2>. QED
    BY ONLY <1>1, <1>2, <2>1, UpdateFields
<1>5. w \in Trees(X) /\ SameKids(w, t, n) /\ n \in X
  BY <1>1, <1>4 DEF Updated
<1>6. /\ Kid(w, n, "left") = w[n].left /\ Kid(w, n, "right") = w[n].right
      /\ "left" \in Sides /\ "right" \in Sides /\ Opp("left") = "right" /\ Opp("right") = "left"
  BY <1>1, <1>5, NodeType DEF Sides, Opp
<1>7. PICK i : i = Depth(w, Kid(w, n, "left"))
  OBVIOUS
<1>8. PICK j : j = Depth(w, Kid(w, n, "right"))
  OBVIOUS
<1>9. f = IF i = j + 2 THEN FixSide(w, n, "left") ELSE IF i + 2 = j THEN FixSide(w, n, "right")
          ELSE [tree |-> w, top |-> n]
  BY <1>2, <1>6, <1>7, <1>8 DEF FixNode
<1>10. CASE i = j + 2
  <2>1. Deep(w, t, R, D, r, sub, n, "left", Kid(w, n, "left"), Depth(w, Kid(w, n, Opp("left"))), X)
    <3>1. Depth(w, Kid(w, n, "left")) = Depth(w, Kid(w, n, Opp("left"))) + 2
      BY <1>6, <1>7, <1>8, <1>10
    <3>. QED
      BY <1>4, <1>6, <3>1, DeepFacts
  <2>2. f = FixSide(w, n, "left")
    BY <1>9, <1>10
  <2>. QED
    BY ONLY <2>1, <2>2, SideMends, Mending(t, R, D, r, sub, n, X)
<1>11. CASE i # j + 2 /\ i + 2 = j
  <2>1. Deep(w, t, R, D, r, sub, n, "right", Kid(w, n, "right"), Depth(w, Kid(w, n, Opp("right"))), X)
    <3>1. Depth(w, Kid(w, n, "right")) = Depth(w, Kid(w, n, Opp("right"))) + 2
      BY <1>6, <1>7, <1>8, <1>11
    <3>. QED
      BY <1>4, <1>6, <3>1, DeepFacts
  <2>2. f = FixSide(w, n, "right")
    BY <1>9, <1>11
  <2>. QED
    BY ONLY <2>1, <2>2, SideMends, Mending(t, R, D, r, sub, n, X)
<1>12. CASE i # j + 2 /\ i + 2 # j
  <2>1. f = [tree |-> w, top |-> n]
    BY <1>9, <1>12
  <2>2. \A e \in Sides : Kid(t, n, e) # n
    <3>1. n # NULL
      BY <1>1
    <3>. QED
      BY <1>1, <3>1, ShapeKid
  <2>3. \A e \in Sides : SameSize(w, t, Kid(t, n, e)) /\ Kid(w, n, e) = Kid(t, n, e)
    BY <1>1, <1>3, <1>4, <1>5, <2>2, NullSize DEF Updated, SameKids
  <2>4. i = Depth(t, Kid(t, n, "left")) /\ j = Depth(t, Kid(t, n, "right"))
    BY <1>6, <1>7, <1>8, <2>3 DEF SameSize
  <2>5. i \in Nat /\ j \in Nat /\ i <= j + 2 /\ j <= i + 2
    <3>1. PICK h : h = Depth(t, n)
      OBVIOUS
    <3>2. j = Depth(t, Kid(t, n, Opp("left")))
      BY <1>6, <2>4
    <3>. QED
      BY ONLY <1>1, <1>3, <1>5, <1>6, <2>4, <3>1, <3>2, NearFacts
  <2>6. Close(Depth(t, Kid(t, n, "left")), Depth(t, Kid(t, n, Opp("left"))))
    BY <1>6, <1>12, <2>4, <2>5 DEF Close
  <2>7. Mended(Hung(w, t, n, n), n, Par(t, n), R, D, r, sub, n, X)
    BY <1>4, <1>6, <2>6, RoundBalanced
  <2>. QED
    BY <2>1, <2>7
<1>. QED
  BY <1>10, <1>11, <1>12

-----------------------------------------------------------------------------
(* avl_fix *)

\* The loop after some rounds: it is over, or only the node it is at is left,
\* whose subtree has more nodes than rounds have been made.
Climbing(s, k, R, D, X) ==
  /\ s.tree \in Trees(X)
  /\ s.at = NULL => /\ \E z : Shape(s.tree, R, D, s.root, z)
                    /\ \A y \in D : Sound(s.tree, y)
  /\ s.at # NULL => \E r, z : Mending(s.tree, R, D, r, z, s.at, X) /\ k < Cardinality(z[s.at])

LEMMA RoundClimbs ==
  ASSUME NEW X, IsFiniteSet(X), NEW D, D # {}, NEW R, NEW s, NEW k \in Nat, Climbing(s, k, R, D, X)
  PROVE  Climbing(Round(s), k + 1, R, D, X)
<1>1. CASE s.at = NULL
  <2>1. Round(s) = s
    BY <1>1 DEF Round
  <2>. QED
    BY <1>1, <2>1 DEF Climbing
<1>2. CASE s.at # NULL
  <2>1. PICK r, z : Mending(s.tree, R, D, r, z, s.at, X) /\ k < Cardinality(z[s.at])
    BY <1>2 DEF Climbing
  <2>2. PICK t : t = s.tree
    OBVIOUS
  <2>3. PICK n : n = s.at
    OBVIOUS
  <2>4. PICK f : f = FixNode(t, n)
    OBVIOUS
  <2>5. PICK p : p = Par(t, n)
    OBVIOUS
  <2>6. PICK u : u = Hung(f.tree, t, n, f.top)
    OBVIOUS
  <2>7. Mending(t, R, D, r, z, n, X)
    BY <2>1, <2>2, <2>3
  <2>8. Mended(u, f.top, p, R, D, r, z, n, X)
    BY ONLY <2>4, <2>5, <2>6, <2>7, NodeMends
  <2>9. /\ X \subseteq Name /\ D \subseteq X /\ NULL \notin D
        /\ t \in Trees(X) /\ StrictOrder(R, D) /\ Shape(t, R, D, r, z) /\ n \in D
    BY <2>7 DEF Mending
  <2>10. CASE p = NULL
    <3>1. Round(s) = [tree |-> f.tree, at |-> NULL, root |-> f.top] /\ u = f.tree
      BY <1>2, <2>2, <2>3, <2>4, <2>5, <2>6, <2>10 DEF Round, Par, Hung
    <3>2. n = r
      <4>1. Par(t, n) = NULL
        BY <2>5, <2>10
      <4>. QED
        BY ONLY <2>9, <4>1 DEF Shape
    <3>3. PICK q : Shape(u, R, D, f.top, q)
      BY <2>8, <3>2 DEF Mended
    <3>4. u \in Trees(X) /\ \A y \in D : Sound(u, y)
      BY <2>8, <2>9, <2>10 DEF Mended
    <3>. QED
      BY <3>1, <3>3, <3>4 DEF Climbing
  <2>11. CASE p # NULL
    <3>1. Round(s) = [tree |-> u, at |-> p, root |-> NULL]
      BY <1>2, <2>2, <2>3, <2>4, <2>5, <2>6, <2>11 DEF Round, Par, Hung
    <3>2. PICK q, top : Shape(u, R, D, top, q) /\ q[p] = z[p]
      BY <2>8, <2>11 DEF Mended
    <3>3. /\ p \in D /\ p \notin z[n] /\ z[n] \subseteq z[p] /\ n \in z[p]
      BY <2>5, <2>9, <2>11, ParentOf
    <3>4. u \in Trees(X) /\ Near(u, p) /\ \A y \in D \ {p} : Sound(u, y)
      BY <2>8, <2>11 DEF Mended
    <3>5. Mending(u, R, D, top, q, p, X)
      BY <2>9, <3>2, <3>3, <3>4 DEF Mending
    <3>6. k + 1 < Cardinality(q[p])
      <4>1. p \in z[p] /\ z[p] \subseteq X /\ z[n] \subseteq X
        BY <2>9, <3>3 DEF Shape
      <4>2. IsFiniteSet(z[p]) /\ IsFiniteSet(z[n])
        BY <4>1, FS_Subset
      <4>3. Cardinality(z[n]) < Cardinality(z[p])
        <5>1. Cardinality(z[n]) <= Cardinality(z[p]) /\ (Cardinality(z[n]) = Cardinality(z[p]) => z[n] = z[p])
          BY ONLY <3>3, <4>2, FS_Subset
        <5>2. z[n] # z[p]
          BY <3>3, <4>1
        <5>3. Cardinality(z[n]) \in Nat /\ Cardinality(z[p]) \in Nat
          BY <4>2, FS_CardinalityType
        <5>. QED
          BY ONLY <5>1, <5>2, <5>3
      <4>4. Cardinality(z[n]) \in Nat /\ Cardinality(z[p]) \in Nat
        BY <4>2, FS_CardinalityType
      <4>5. k < Cardinality(z[n])
        BY <2>1, <2>3
      <4>. QED
        BY <3>2, <4>3, <4>4, <4>5
    <3>7. PICK w : w = Round(s)
      OBVIOUS
    <3>8. w.tree = u /\ w.at = p /\ k + 1 < Cardinality(q[w.at]) /\ Mending(w.tree, R, D, top, q, w.at, X)
      BY <3>1, <3>5, <3>6, <3>7
    <3>9. Climbing(w, k + 1, R, D, X)
      BY ONLY <2>11, <3>4, <3>8 DEF Climbing
    <3>. QED
      BY <3>7, <3>9
  <2>. QED
    BY <2>10, <2>11
<1>. QED
  BY <1>1, <1>2

\* The loop of avl_fix as a recursive definition.
Loops(g, i, N) == g = [k \in 0..N |-> IF k = 0 THEN i ELSE Round(g[k - 1])]

LEMMA LoopExists ==
  ASSUME NEW i, NEW N \in Nat
  PROVE  \E g : Loops(g, i, N)
<1> DEFINE T == {K \in Nat : \E g : Loops(g, i, K)}
<1>1. ASSUME NEW K \in Nat, \A m \in 0..(K - 1) : m \in T PROVE K \in T
  <2>1. CASE K = 0
    <3> DEFINE h == [k \in 0..0 |-> i]
    <3>1. Loops(h, i, 0)
      BY DEF Loops
    <3>. QED
      BY <2>1, <3>1
  <2>2. CASE K # 0
    <3>1. K - 1 \in T
      BY <1>1, <2>2
    <3>2. PICK g : g = [k \in 0..(K - 1) |-> IF k = 0 THEN i ELSE Round(g[k - 1])]
      BY <3>1 DEF Loops
    <3> DEFINE h == [k \in 0..K |-> IF k = 0 THEN i ELSE Round(g[k - 1])]
    <3>3. \A k \in 0..(K - 1) : h[k] = g[k]
      BY <3>2
    <3>4. \A k \in 0..K : h[k] = IF k = 0 THEN i ELSE Round(h[k - 1])
      BY <3>3
    <3>5. Loops(h, i, K)
      BY <3>4 DEF Loops
    <3>. QED
      BY <3>5
  <2>. QED
    BY <2>1, <2>2
<1>2. \A K \in Nat : K \in T
  <2> HIDE DEF T
  <2>. QED
    BY <1>1, Induct
<1>. QED
  BY <1>2

\* f is a tree in which all nodes of D are in order and sound.
Fixed(f, R, D, X) ==
  /\ f.tree \in Trees(X)
  /\ \E z : Shape(f.tree, R, D, f.root, z)
  /\ \A y \in D : Sound(f.tree, y)

\* The loop ends in a mended tree if it is climbing after its first round.
LEMMA AvlFixEnds ==
  ASSUME NEW X, IsFiniteSet(X), NEW D, D # {}, D \subseteq X, NEW R, NEW t \in Trees(X), NEW n,
         NEW i, i = [tree |-> t, at |-> n, root |-> NULL], Climbing(Round(i), 1, R, D, X)
  PROVE  Fixed(AvlFix(t, n), R, D, X)
<1>3. PICK N : N = Cardinality(DOMAIN t)
  OBVIOUS
<1>4. DOMAIN t = X /\ N \in Nat /\ N = Cardinality(X) /\ N # 0
  BY <1>3, FS_CardinalityType, FS_EmptySet DEF Trees
<1>5. PICK g : g = CHOOSE h : Loops(h, i, N)
  OBVIOUS
<1>6. Loops(g, i, N)
  BY <1>4, <1>5, LoopExists
<1>7. AvlFix(t, n) = g[N]
  BY <1>3, <1>5 DEF AvlFix, Loops
<1> DEFINE T == {k \in Nat : k # 0 /\ k <= N => Climbing(g[k], k, R, D, X)}
<1>9. ASSUME NEW k \in Nat, \A m \in 0..(k - 1) : m \in T PROVE k \in T
  <2>1. SUFFICES ASSUME k # 0, k <= N PROVE Climbing(g[k], k, R, D, X)
    OBVIOUS
  <2>2. CASE k = 1
    <3>1. g[0] = i /\ g[1] = Round(g[0])
      BY <1>4, <1>6 DEF Loops
    <3>. QED
      BY <2>2, <3>1
  <2>3. CASE k # 1
    <3>1. k - 1 \in T /\ k - 1 \in Nat /\ k - 1 # 0
      BY <1>9, <2>1, <2>3
    <3>2. Climbing(g[k - 1], k - 1, R, D, X)
      BY <1>4, <2>1, <3>1
    <3>3. PICK s, j : s = g[k - 1] /\ j = k - 1
      OBVIOUS
    <3>4. Climbing(Round(s), j + 1, R, D, X)
      <4>1. Climbing(s, j, R, D, X) /\ j \in Nat
        BY <3>1, <3>2, <3>3
      <4>. QED
        BY ONLY <4>1, RoundClimbs, IsFiniteSet(X), D # {}
    <3>5. g[k] = Round(s) /\ j + 1 = k
      BY <1>4, <1>6, <2>1, <2>3, <3>3 DEF Loops
    <3>. QED
      BY <3>4, <3>5
  <2>. QED
    BY <2>2, <2>3
<1>10. \A k \in Nat : k \in T
  <2> HIDE DEF T
  <2>. QED
    BY <1>9, Induct
<1>11. Climbing(g[N], N, R, D, X)
  BY <1>4, <1>10
<1>12. g[N].at = NULL
  <2>1. SUFFICES ASSUME g[N].at # NULL PROVE FALSE
    OBVIOUS
  <2>2. PICK s : s = g[N]
    OBVIOUS
  <2>3. PICK q, z : Mending(s.tree, R, D, q, z, s.at, X) /\ N < Cardinality(z[s.at])
    BY <1>11, <2>1, <2>2 DEF Climbing
  <2>4. z[s.at] \subseteq X
    BY <2>3 DEF Mending, Shape
  <2>5. Cardinality(z[s.at]) <= N /\ Cardinality(z[s.at]) \in Nat
    BY <1>4, <2>4, FS_Subset, FS_CardinalityType
  <2>. QED
    BY <1>4, <2>3, <2>5
<1>13. PICK f : f = g[N]
  OBVIOUS
<1>14. Fixed(f, R, D, X)
  BY <1>11, <1>12, <1>13 DEF Climbing, Fixed
<1>. QED
  BY <1>7, <1>13, <1>14

\* avl_fix mends a tree in which only the node it starts at is not sound.
LEMMA AvlFixMends ==
  ASSUME NEW X, IsFiniteSet(X), NEW D, NEW R, NEW t, NEW r, NEW sub, NEW n, Mending(t, R, D, r, sub, n, X)
  PROVE  Fixed(AvlFix(t, n), R, D, X)
<1>1. /\ X \subseteq Name /\ D \subseteq X /\ NULL \notin D /\ t \in Trees(X)
      /\ Shape(t, R, D, r, sub) /\ n \in D
  BY DEF Mending
<1>2. PICK i : i = [tree |-> t, at |-> n, root |-> NULL]
  OBVIOUS
<1>3. Climbing(i, 0, R, D, X)
  <2>1. n \in sub[n] /\ sub[n] \subseteq D
    BY <1>1 DEF Shape
  <2>2. IsFiniteSet(sub[n])
    BY <1>1, <2>1, FS_Subset
  <2>3. 0 < Cardinality(sub[n])
    BY <2>1, <2>2, FS_EmptySet, FS_CardinalityType
  <2>4. i.tree = t /\ i.at = n /\ n # NULL
    BY <1>1, <1>2
  <2>. QED
    BY <1>1, <2>3, <2>4 DEF Climbing
<1>4. Climbing(Round(i), 0 + 1, R, D, X)
  <2>1. D # {} /\ 0 \in Nat
    BY <1>1
  <2>. QED
    BY ONLY <1>3, <2>1, RoundClimbs, IsFiniteSet(X)
<1>5. Climbing(Round(i), 1, R, D, X)
  BY <1>4
<1>. QED
  BY <1>1, <1>2, <1>5, AvlFixEnds

-----------------------------------------------------------------------------
(* Paths in a search tree *)

SearchTree(t, R, D, r, sub) ==
  IsFiniteSet(D) /\ NULL \notin D /\ StrictOrder(R, D) /\ Shape(t, R, D, r, sub)

\* The size of a subtree.
Weight(sub, y) == Cardinality(sub[y])

LEMMA SubSize ==
  ASSUME NEW t, NEW R, NEW D, NEW r, NEW sub, SearchTree(t, R, D, r, sub)
  PROVE  /\ \A y \in D : /\ sub[y] \subseteq D /\ y \in sub[y] /\ IsFiniteSet(sub[y])
                         /\ Weight(sub, y) \in Nat /\ Weight(sub, y) <= Cardinality(D) /\ Weight(sub, y) > 0
         /\ \A y, k \in D : sub[k] \subseteq sub[y] /\ sub[k] # sub[y] => Weight(sub, k) < Weight(sub, y)
<1>1. ASSUME NEW y \in D
      PROVE  /\ sub[y] \subseteq D /\ y \in sub[y] /\ IsFiniteSet(sub[y])
             /\ Weight(sub, y) \in Nat /\ Weight(sub, y) <= Cardinality(D) /\ Weight(sub, y) > 0
  <2>1. sub[y] \subseteq D /\ y \in sub[y]
    BY DEF SearchTree, Shape
  <2>2. IsFiniteSet(sub[y]) /\ Cardinality(sub[y]) <= Cardinality(D)
    BY <2>1, FS_Subset DEF SearchTree
  <2>3. Cardinality(sub[y]) \in Nat /\ Cardinality(sub[y]) # 0
    BY <2>1, <2>2, FS_CardinalityType, FS_EmptySet
  <2>. QED
    BY <2>1, <2>2, <2>3 DEF Weight
<1>2. ASSUME NEW y \in D, NEW k \in D, sub[k] \subseteq sub[y], sub[k] # sub[y]
      PROVE  Weight(sub, k) < Weight(sub, y)
  <2>1. /\ Cardinality(sub[k]) <= Cardinality(sub[y])
        /\ Cardinality(sub[y]) = Cardinality(sub[k]) => sub[y] = sub[k]
    BY <1>1, <1>2, FS_Subset
  <2>2. Weight(sub, k) \in Nat /\ Weight(sub, y) \in Nat
    BY <1>1
  <2>. QED
    BY <1>2, <2>1, <2>2 DEF Weight
<1>. QED
  BY <1>1, <1>2

\* k is a child of y, the root of a smaller subtree.
Below(t, R, D, r, sub, y, e, k) ==
  /\ k \in D /\ k # y /\ k # r /\ Par(t, k) = y /\ y \notin sub[k] /\ k \in sub[y]
  /\ sub[k] \subseteq sub[y] /\ Weight(sub, k) < Weight(sub, y)
  /\ sub[k] = Part(R, sub[y], y, e)

LEMMA KidBelow ==
  ASSUME NEW t, NEW R, NEW D, NEW r, NEW sub, SearchTree(t, R, D, r, sub),
         NEW y \in D, NEW e \in Sides, NEW k, k = Kid(t, y, e), k # NULL
  PROVE  Below(t, R, D, r, sub, y, e, k)
<1>1. NULL \notin D /\ StrictOrder(R, D) /\ Shape(t, R, D, r, sub)
  BY DEF SearchTree
<1>2. /\ k \in D /\ k # y /\ k # r /\ Par(t, k) = y /\ k \in sub[y] /\ y \notin sub[k]
      /\ sub[k] \subseteq sub[y] /\ sub[k] = Part(R, sub[y], y, e)
  BY <1>1, ShapeKid
<1>3. sub[k] # sub[y]
  BY <1>1, <1>2 DEF Shape
<1>4. Weight(sub, k) < Weight(sub, y)
  BY <1>2, <1>3, SubSize
<1>. QED
  BY <1>2, <1>4 DEF Below

\* A node of the subtree of y other than y is in that of a child.
LEMMA Toward ==
  ASSUME NEW t, NEW R, NEW D, NEW r, NEW sub, SearchTree(t, R, D, r, sub),
         NEW y \in D, NEW x \in sub[y], x # y
  PROVE  \E e \in Sides : /\ Kid(t, y, e) # NULL /\ x \in sub[Kid(t, y, e)] /\ On(R, x, y, e)
                          /\ Below(t, R, D, r, sub, y, e, Kid(t, y, e))
<1>1. NULL \notin D /\ StrictOrder(R, D) /\ Shape(t, R, D, r, sub) /\ x \in D
  BY SubSize DEF SearchTree
<1>2. PICK e \in Sides : On(R, x, y, e)
  <2>1. "left" \in Sides /\ Opp("left") \in Sides
    BY DEF Sides, Opp
  <2>2. On(R, x, y, "left") \/ On(R, x, y, Opp("left"))
    BY <1>1, <2>1, OrderSides
  <2>. QED
    BY <2>1, <2>2
<1>3. x \in Sub(sub, Kid(t, y, e))
  BY <1>1, <1>2 DEF Shape, Part
<1>4. Kid(t, y, e) # NULL /\ x \in sub[Kid(t, y, e)]
  BY <1>3 DEF Sub
<1>5. PICK k : k = Kid(t, y, e)
  OBVIOUS
<1>6. Below(t, R, D, r, sub, y, e, k)
  BY <1>4, <1>5, KidBelow
<1>. QED
  BY <1>2, <1>4, <1>5, <1>6

\* Subtrees are nested, and every node of a subtree but its root has its parent there.
Inner(t, D, sub, y) ==
  \A x \in sub[y] : /\ sub[x] \subseteq sub[y]
                    /\ x # y => Par(t, x) \in sub[y] /\ Par(t, x) \in D

LEMMA Nested ==
  ASSUME NEW t, NEW R, NEW D, NEW r, NEW sub, SearchTree(t, R, D, r, sub)
  PROVE  \A y \in D : Inner(t, D, sub, y)
<1> DEFINE T == {k \in Nat : \A y \in D : Weight(sub, y) = k => Inner(t, D, sub, y)}
<1>1. ASSUME NEW k \in Nat, \A j \in 0..(k - 1) : j \in T PROVE k \in T
  <2>1. SUFFICES ASSUME NEW y \in D, Weight(sub, y) = k, NEW x \in sub[y], x # y
                 PROVE  sub[x] \subseteq sub[y] /\ Par(t, x) \in sub[y] /\ Par(t, x) \in D
    BY DEF Inner
  <2>2. PICK e \in Sides : x \in sub[Kid(t, y, e)] /\ Below(t, R, D, r, sub, y, e, Kid(t, y, e))
    BY <2>1, Toward
  <2>3. PICK c : c = Kid(t, y, e)
    OBVIOUS
  <2>4. /\ c \in D /\ Par(t, c) = y /\ x \in sub[c] /\ sub[c] \subseteq sub[y]
        /\ Weight(sub, c) < k /\ Weight(sub, c) \in Nat /\ y \in sub[y]
    BY <2>1, <2>2, <2>3, SubSize DEF Below
  <2>5. Inner(t, D, sub, c)
    BY <1>1, <2>4
  <2>. QED
    BY <2>4, <2>5 DEF Inner
<1>2. \A k \in Nat : k \in T
  <2> HIDE DEF T
  <2>. QED
    BY <1>1, Induct
<1>. QED
  BY <1>2, SubSize

\* The nodes of a subtree are all on the same side of a node above it.
LEMMA SameSideOf ==
  ASSUME NEW t, NEW R, NEW D, NEW r, NEW sub, SearchTree(t, R, D, r, sub),
         NEW y \in D, NEW x \in sub[y], x # y, NEW c \in sub[x], NEW e \in Sides
  PROVE  On(R, x, y, e) <=> On(R, c, y, e)
<1>1. PICK d \in Sides : x \in sub[Kid(t, y, d)] /\ On(R, x, y, d) /\ Below(t, R, D, r, sub, y, d, Kid(t, y, d))
  BY Toward
<1>2. PICK k : k = Kid(t, y, d)
  OBVIOUS
<1>3. k \in D /\ x \in sub[k] /\ sub[k] = Part(R, sub[y], y, d)
  BY <1>1, <1>2 DEF Below
<1>4. sub[x] \subseteq sub[k]
  BY <1>3, Nested DEF Inner
<1>5. On(R, c, y, d) /\ On(R, x, y, d)
  BY <1>1, <1>3, <1>4 DEF Part
<1>6. x \in D /\ c \in D /\ StrictOrder(R, D)
  BY SubSize DEF SearchTree
<1>7. CASE e = d
  BY <1>5, <1>7
<1>8. CASE e # d
  <2>1. e = Opp(d)
    BY <1>8, Opposite
  <2>. QED
    BY <1>5, <1>6, <2>1, OrderSides
<1>. QED
  BY <1>7, <1>8

-----------------------------------------------------------------------------
(* A new leaf *)

\* n belongs in the empty place on side d of q.
LeafOf(t, R, D, sub, n, q, d) ==
  /\ q \in D /\ d \in Sides /\ Kid(t, q, d) = NULL /\ On(R, n, q, d)
  /\ \A y \in D : q \in sub[y] /\ y # q => \A e \in Sides : On(R, q, y, e) <=> On(R, n, y, e)

\* u is t with the leaf n there.
Linked(u, t, D, n, q, d) ==
  /\ \A y \in D : (y # q => SameKids(u, t, y)) /\ Par(u, y) = Par(t, y)
  /\ Kid(u, q, d) = n /\ Kid(u, q, Opp(d)) = Kid(t, q, Opp(d))
  /\ Par(u, n) = q /\ \A e \in Sides : Kid(u, n, e) = NULL

Grown(sub, D, n, q) ==
  [y \in D \cup {n} |-> IF y = n THEN {n} ELSE IF q \in sub[y] THEN sub[y] \cup {n} ELSE sub[y]]

LEMMA GrowShape ==
  ASSUME NEW t, NEW R, NEW D, NEW r, NEW sub, SearchTree(t, R, D, r, sub), NEW n, n \notin D, n # NULL,
         StrictOrder(R, D \cup {n}), NEW q, NEW d, LeafOf(t, R, D, sub, n, q, d),
         NEW u, Linked(u, t, D, n, q, d)
  PROVE  Shape(u, R, D \cup {n}, r, Grown(sub, D, n, q))
<1>1. NULL \notin D /\ StrictOrder(R, D) /\ Shape(t, R, D, r, sub)
  BY DEF SearchTree
<1>2. PICK E : E = D \cup {n}
  OBVIOUS
<1>3. PICK z : z = Grown(sub, D, n, q)
  OBVIOUS
<1>4. /\ z \in [E -> SUBSET E] /\ z[n] = {n} /\ n \in E /\ D \subseteq E
      /\ \A y \in D : z[y] = IF q \in sub[y] THEN sub[y] \cup {n} ELSE sub[y]
  <2>1. sub \in [D -> SUBSET D]
    BY <1>1 DEF Shape
  <2>. QED
    BY <1>2, <1>3, <2>1 DEF Grown
<1>5. q \in D /\ d \in Sides /\ Kid(t, q, d) = NULL /\ On(R, n, q, d) /\ Opp(d) \in Sides /\ Opp(d) # d
  BY Opposite DEF LeafOf
<1>6. \A y \in E : y \in z[y]
  BY <1>1, <1>2, <1>4 DEF Shape
<1>7. \A y \in D, e \in Sides : (y # q \/ e # d) => Kid(u, y, e) = Kid(t, y, e)
  <2>1. ASSUME NEW y \in D, NEW e \in Sides, y # q \/ e # d PROVE Kid(u, y, e) = Kid(t, y, e)
    <3>1. CASE y # q
      BY <3>1 DEF Linked, SameKids
    <3>2. CASE y = q
      <4>1. e = Opp(d)
        BY <1>5, <2>1, <3>2, Opposite
      <4>. QED
        BY <3>2, <4>1 DEF Linked
    <3>. QED
      BY <3>1, <3>2
  <2>. QED
    BY <2>1
<1>8. Kid(u, q, d) = n /\ \A e \in Sides : Kid(u, n, e) = NULL
  BY DEF Linked
<1>9. Par(u, n) = q /\ \A y \in D : Par(u, y) = Par(t, y)
  BY DEF Linked
<1>10. \A y \in E, e \in Sides : Kid(u, y, e) \in E \cup {NULL}
  BY <1>1, <1>2, <1>7, <1>8 DEF Shape
<1>11. ASSUME NEW y \in E, NEW e \in Sides
       PROVE  Sub(z, Kid(u, y, e)) = Part(R, z[y], y, e)
  <2>1. CASE y = n
    <3>1. ~On(R, n, n, e)
      BY <1>2, <1>4, OrderSides
    <3>. QED
      BY <1>4, <1>8, <2>1, <3>1 DEF Sub, Part
  <2>2. CASE y = q /\ e = d
    <3>1. Part(R, sub[q], q, d) = {}
      <4>1. Sub(sub, Kid(t, q, d)) = Part(R, sub[q], q, d)
        BY <1>1, <1>5 DEF Shape
      <4>. QED
        BY <1>5, <4>1 DEF Sub
    <3>2. z[q] = sub[q] \cup {n}
      BY <1>1, <1>4, <1>5 DEF Shape
    <3>3. Part(R, z[q], q, d) = {n}
      BY <1>5, <3>1, <3>2 DEF Part
    <3>. QED
      BY <1>4, <1>8, <2>2, <3>3 DEF Sub
  <2>3. CASE y \in D /\ (y # q \/ e # d)
    <3>1. PICK k : k = Kid(t, y, e)
      OBVIOUS
    <3>2. Kid(u, y, e) = k
      BY <1>7, <2>3, <3>1
    <3>3. Sub(sub, k) = Part(R, sub[y], y, e)
      BY <1>1, <2>3, <3>1 DEF Shape
    <3>4. k # NULL => Below(t, R, D, r, sub, y, e, k)
      BY <2>3, <3>1, KidBelow
    <3>5. k # NULL => k \in D /\ sub[k] \subseteq sub[y] /\ y \notin sub[k]
      BY <3>4 DEF Below
    <3>6. CASE q \notin sub[y]
      BY <1>4, <2>3, <3>2, <3>3, <3>5, <3>6 DEF Sub
    <3>7. CASE q \in sub[y] /\ ~On(R, n, y, e)
      <4>1. Part(R, z[y], y, e) = Part(R, sub[y], y, e)
        BY <1>4, <2>3, <3>7 DEF Part
      <4>2. k # NULL => q \notin sub[k]
        <5>1. ASSUME k # NULL, q \in sub[k] PROVE FALSE
          <6>1. q # y
            BY <3>5, <5>1
          <6>2. On(R, q, y, e)
            BY <3>3, <5>1 DEF Sub, Part
          <6>. QED
            BY <2>3, <3>7, <6>1, <6>2 DEF LeafOf
        <5>. QED
          BY <5>1
      <4>. QED
        BY <1>4, <3>2, <3>3, <3>5, <4>1, <4>2 DEF Sub
    <3>8. CASE q \in sub[y] /\ On(R, n, y, e)
      <4>1. y # q
        <5>1. ASSUME y = q PROVE FALSE
          <6>1. e = Opp(d)
            BY <1>5, <2>3, <5>1, Opposite
          <6>2. q \in E
            BY <1>4, <1>5
          <6>. QED
            BY <1>2, <1>4, <1>5, <3>8, <5>1, <6>1, <6>2, OrderSides
        <5>. QED
          BY <5>1
      <4>2. On(R, q, y, e)
        BY <2>3, <3>8, <4>1 DEF LeafOf
      <4>3. k # NULL /\ q \in sub[k]
        BY <3>3, <3>8, <4>2 DEF Sub, Part
      <4>4. z[k] = sub[k] \cup {n} /\ z[y] = sub[y] \cup {n}
        BY <1>4, <2>3, <3>5, <3>8, <4>3
      <4>5. Part(R, z[y], y, e) = Part(R, sub[y], y, e) \cup {n}
        BY <3>8, <4>4 DEF Part
      <4>. QED
        BY <3>2, <3>3, <4>3, <4>4, <4>5 DEF Sub
    <3>. QED
      BY <3>6, <3>7, <3>8
  <2>. QED
    BY <1>2, <2>1, <2>2, <2>3
<1>12. ASSUME NEW y \in E, NEW e \in Sides, Kid(u, y, e) # NULL
       PROVE  Par(u, Kid(u, y, e)) = y
  <2>1. y \in D
    BY <1>2, <1>8, <1>12
  <2>2. CASE y = q /\ e = d
    BY <1>8, <1>9, <2>2
  <2>3. CASE y # q \/ e # d
    <3>1. PICK k : k = Kid(t, y, e)
      OBVIOUS
    <3>2. Kid(u, y, e) = k /\ k # NULL
      BY <1>7, <1>12, <2>1, <2>3, <3>1
    <3>3. k \in D /\ Par(t, k) = y
      BY <1>1, <2>1, <3>1, <3>2 DEF Shape
    <3>. QED
      BY <1>9, <3>2, <3>3
  <2>. QED
    BY <2>2, <2>3
<1>13. ASSUME NEW y \in E, y # r
       PROVE  Par(u, y) \in E /\ \E e \in Sides : Kid(u, Par(u, y), e) = y
  <2>1. CASE y = n
    BY <1>4, <1>5, <1>8, <1>9, <2>1
  <2>2. CASE y \in D
    <3>1. PICK p : p = Par(t, y)
      OBVIOUS
    <3>2. PICK e \in Sides : p \in D /\ Kid(t, p, e) = y
      BY <1>1, <1>13, <2>2, <3>1 DEF Shape
    <3>3. p # q \/ e # d
      BY <1>1, <1>5, <2>2, <3>2
    <3>4. Kid(u, p, e) = y
      BY <1>7, <3>2, <3>3
    <3>5. Par(u, y) = p
      BY <1>9, <2>2, <3>1
    <3>. QED
      BY <1>4, <3>2, <3>4, <3>5
  <2>. QED
    BY <1>2, <2>1, <2>2
<1>14. r \in E /\ z[r] = E /\ Par(u, r) = NULL
  <2>1. r \in D /\ sub[r] = D /\ Par(t, r) = NULL
    BY <1>1, <1>5 DEF Shape
  <2>. QED
    BY <1>2, <1>4, <1>5, <1>9, <2>1
<1>15. Shape(u, R, E, r, z)
  BY <1>4, <1>6, <1>10, <1>11, <1>12, <1>13, <1>14 DEF Shape
<1>. QED
  BY <1>2, <1>3, <1>15

-----------------------------------------------------------------------------
(* tree_add *)

\* the order of the (score, name) tuples
Order(sc) == {p \in Name \X Name : Zless(sc, p[1], sc[p[2]], p[2])}

LEMMA OrderStrict ==
  ASSUME NEW D, D \subseteq Name, NEW sc, \A y \in D : sc[y] \in Int
  PROVE  StrictOrder(Order(sc), D)
<1>1. \A x, y \in D : <<x, y>> \in Order(sc) <=> IF sc[x] # sc[y] THEN sc[x] < sc[y] ELSE x < y
  BY DEF Order, Zless
<1>2. \A x \in D : x \in Nat /\ sc[x] \in Int
  BY NameAssumption
<1>. QED
  BY <1>1, <1>2 DEF StrictOrder

\* The way of n at cur.
Way(sc, n, cur) == IF Zless(sc, n, sc[cur], cur) THEN "left" ELSE "right"

Walks(h, t, sc, n) ==
  h = [cur \in DOMAIN t |-> IF t[cur][Way(sc, n, cur)] = NULL THEN <<cur, Way(sc, n, cur)>>
                            ELSE h[t[cur][Way(sc, n, cur)]]]

\* What tree_add starts from: n is not in the tree yet.
Adding(t, sc, R, D, r, sub, n) ==
  /\ D \cup {n} \subseteq Name /\ n \notin D /\ t \in Trees(D \cup {n})
  /\ R = Order(sc) /\ StrictOrder(R, D \cup {n}) /\ SearchTree(t, R, D, r, sub)
  /\ \A e \in Sides : Kid(t, n, e) = NULL

LEMMA WayFacts ==
  ASSUME NEW t, NEW sc, NEW R, NEW D, NEW r, NEW sub, NEW n, Adding(t, sc, R, D, r, sub, n),
         NEW cur \in D \cup {n}
  PROVE  /\ Way(sc, n, cur) \in Sides
         /\ t[cur][Way(sc, n, cur)] = Kid(t, cur, Way(sc, n, cur))
         /\ Kid(t, cur, Way(sc, n, cur)) \in D \cup {NULL}
         /\ cur # n => On(R, n, cur, Way(sc, n, cur))
<1>1. Way(sc, n, cur) \in Sides
  BY DEF Way, Sides
<1>2. t[cur][Way(sc, n, cur)] = Kid(t, cur, Way(sc, n, cur))
  BY DEF Kid
<1>3. Kid(t, cur, Way(sc, n, cur)) \in D \cup {NULL}
  BY <1>1 DEF Adding, SearchTree, Shape
<1>4. ASSUME cur # n PROVE On(R, n, cur, Way(sc, n, cur))
  <2>1. <<n, cur>> \in R <=> Zless(sc, n, sc[cur], cur)
    BY DEF Adding, Order
  <2>2. <<n, cur>> \in R \/ <<cur, n>> \in R
    BY <1>4 DEF Adding, StrictOrder
  <2>. QED
    BY <2>1, <2>2 DEF On, Way
<1>. QED
  BY <1>1, <1>2, <1>3, <1>4

LEMMA WalkExists ==
  ASSUME NEW t, NEW sc, NEW R, NEW D, NEW r, NEW sub, NEW n, Adding(t, sc, R, D, r, sub, n)
  PROVE  \E h : Walks(h, t, sc, n)
<1>1. PICK X : X = D \cup {n}
  OBVIOUS
<1>2. /\ SearchTree(t, R, D, r, sub) /\ DOMAIN t = X /\ X \subseteq Name /\ NULL \notin D
      /\ \A e \in Sides : Kid(t, n, e) = NULL
  BY <1>1 DEF Adding, Trees, SearchTree
<1>3. PICK m : m = [x \in X |-> IF x \in D THEN Weight(sub, x) ELSE 0]
  OBVIOUS
<1>4. PICK N : N = Cardinality(D)
  OBVIOUS
<1>5. N \in Nat /\ m \in [X -> 0..N]
  <2>1. N \in Nat
    BY <1>2, <1>4, FS_CardinalityType DEF SearchTree
  <2>2. \A x \in D : Weight(sub, x) \in 0..N
    BY <1>2, <1>4, <2>1, SubSize
  <2>. QED
    BY <1>3, <2>1, <2>2
<1>6. PICK V : V = X \X Sides
  OBVIOUS
<1>7. PICK go : go = {x \in X : Kid(t, x, Way(sc, n, x)) # NULL}
  OBVIOUS
<1>8. PICK nx : nx = [x \in X |-> Kid(t, x, Way(sc, n, x))]
  OBVIOUS
<1>9. PICK base : base = [x \in X |-> <<x, Way(sc, n, x)>>]
  OBVIOUS
<1>10. PICK G : G = [p \in X \X V |-> p[2]]
  OBVIOUS
<1>11. ASSUME NEW x \in go PROVE nx[x] \in X /\ m[nx[x]] < m[x]
  <2>1. PICK d, k : d = Way(sc, n, x) /\ k = Kid(t, x, d)
    OBVIOUS
  <2>2. x \in X /\ k # NULL /\ nx[x] = k
    BY <1>7, <1>8, <1>11, <2>1
  <2>3. d \in Sides /\ x \in D
    BY <1>1, <1>2, <2>1, <2>2, WayFacts
  <2>4. Below(t, R, D, r, sub, x, d, k)
    BY <1>2, <2>1, <2>2, <2>3, KidBelow
  <2>5. k \in D /\ Weight(sub, k) < Weight(sub, x)
    BY <2>4 DEF Below
  <2>. QED
    BY <1>1, <1>3, <2>2, <2>3, <2>5
<1>12. base \in [X -> V]
  BY <1>1, <1>6, <1>9, WayFacts
<1>13. Descends(X, V, go, nx, base, G, m, N)
  <2>1. G \in [X \X V -> V] /\ go \in SUBSET X
    BY <1>7, <1>10
  <2>. QED
    BY <1>5, <1>11, <1>12, <2>1 DEF Descends
<1>14. PICK h : Solves(h, X, V, go, nx, base, G)
  BY <1>13, Recursion
<1>15. h \in [X -> V] /\ h = [x \in X |-> IF x \in go THEN G[<<x, h[nx[x]]>>] ELSE base[x]]
  BY <1>14 DEF Solves
<1>16. \A x \in X : h[x] = IF t[x][Way(sc, n, x)] = NULL THEN <<x, Way(sc, n, x)>> ELSE h[t[x][Way(sc, n, x)]]
  <2>1. SUFFICES ASSUME NEW x \in X
                 PROVE  h[x] = IF t[x][Way(sc, n, x)] = NULL THEN <<x, Way(sc, n, x)>>
                               ELSE h[t[x][Way(sc, n, x)]]
    OBVIOUS
  <2>2. PICK k : k = Kid(t, x, Way(sc, n, x))
    OBVIOUS
  <2>3. k = t[x][Way(sc, n, x)]
    BY <2>2 DEF Kid
  <2>4. nx[x] = k /\ base[x] = <<x, Way(sc, n, x)>>
    BY <1>8, <1>9, <2>2
  <2>5. CASE k = NULL
    BY <1>7, <1>15, <2>2, <2>3, <2>4, <2>5
  <2>6. CASE k # NULL
    <3>1. x \in go /\ k \in X
      BY <1>7, <1>11, <2>2, <2>4, <2>6
    <3>2. h[k] \in V
      BY <1>15, <3>1
    <3>3. h[x] = G[<<x, h[k]>>]
      BY <1>15, <2>4, <3>1
    <3>4. G[<<x, h[k]>>] = h[k]
      BY <1>10, <3>2
    <3>. QED
      BY <2>3, <2>6, <3>3, <3>4
  <2>. QED
    BY <2>5, <2>6
<1>17. Walks(h, t, sc, n)
  BY <1>2, <1>15, <1>16 DEF Walks
<1>. QED
  BY <1>17

\* tree_add finds the place of n.
LEMMA DescendLeaf ==
  ASSUME NEW t, NEW sc, NEW R, NEW D, NEW r, NEW sub, NEW n, Adding(t, sc, R, D, r, sub, n), r \in D
  PROVE  \E q, d : Descend(t, sc, r, n) = <<q, d>> /\ LeafOf(t, R, D, sub, n, q, d)
<1>1. /\ SearchTree(t, R, D, r, sub) /\ DOMAIN t = D \cup {n} /\ n \notin D
      /\ NULL \notin D /\ StrictOrder(R, D \cup {n}) /\ Shape(t, R, D, r, sub)
  BY DEF Adding, Trees, SearchTree
<1>2. PICK h : h = CHOOSE g : Walks(g, t, sc, n)
  OBVIOUS
<1>3. Walks(h, t, sc, n)
  BY <1>2, WalkExists
<1>4. Descend(t, sc, r, n) = h[r]
  BY <1>2 DEF Descend, Walks, Way
<1> DEFINE Right(cur) == \A y \in D : cur \in sub[y] /\ y # cur => \A e \in Sides : On(R, cur, y, e) <=> On(R, n, y, e)
           Leads(cur) == \E q, d : h[cur] = <<q, d>> /\ LeafOf(t, R, D, sub, n, q, d)
           T == {k \in Nat : \A cur \in D : Weight(sub, cur) = k /\ Right(cur) => Leads(cur)}
<1>5. ASSUME NEW k \in Nat, \A j \in 0..(k - 1) : j \in T PROVE k \in T
  <2>1. SUFFICES ASSUME NEW cur \in D, Weight(sub, cur) = k, Right(cur) PROVE Leads(cur)
    OBVIOUS
  <2>2. PICK d, c : d = Way(sc, n, cur) /\ c = Kid(t, cur, d)
    OBVIOUS
  <2>3. d \in Sides /\ c = t[cur][d] /\ On(R, n, cur, d) /\ c \in D \cup {NULL}
    BY <1>1, <2>2, WayFacts
  <2>4. CASE c = NULL
    <3>1. h[cur] = <<cur, d>>
      BY <1>1, <1>3, <2>2, <2>3, <2>4 DEF Walks
    <3>2. LeafOf(t, R, D, sub, n, cur, d)
      BY <2>1, <2>2, <2>3, <2>4 DEF LeafOf
    <3>. QED
      BY <3>1, <3>2
  <2>5. CASE c # NULL
    <3>1. h[cur] = h[c]
      BY <1>1, <1>3, <2>2, <2>3, <2>5 DEF Walks
    <3>2. Below(t, R, D, r, sub, cur, d, c)
      BY <1>1, <2>2, <2>3, <2>5, KidBelow
    <3>3. /\ c \in D /\ Par(t, c) = cur /\ sub[c] = Part(R, sub[cur], cur, d) /\ c \in sub[c] /\ c \in sub[cur]
          /\ Weight(sub, c) < k /\ Weight(sub, c) \in Nat
      BY <1>1, <2>1, <3>2, SubSize DEF Below
    <3>4. ASSUME NEW y \in D, c \in sub[y], y # c, NEW e \in Sides
          PROVE  On(R, c, y, e) <=> On(R, n, y, e)
      <4>1. CASE y = cur
        <5>1. On(R, c, cur, d)
          BY <3>3 DEF Part
        <5>2. CASE e = d
          BY <2>3, <4>1, <5>1, <5>2
        <5>3. CASE e # d
          <6>1. e = Opp(d)
            BY <2>3, <5>3, Opposite
          <6>2. ~(On(R, c, cur, d) /\ On(R, c, cur, Opp(d))) /\ ~(On(R, n, cur, d) /\ On(R, n, cur, Opp(d)))
            BY <1>1, <2>3, <3>3, OrderSides
          <6>. QED
            BY <2>3, <4>1, <5>1, <6>1, <6>2
        <5>. QED
          BY <5>2, <5>3
      <4>2. CASE y # cur
        <5>1. cur \in sub[y]
          BY <1>1, <3>3, <3>4, Nested DEF Inner
        <5>2. On(R, cur, y, e) <=> On(R, c, y, e)
          BY <1>1, <3>3, <4>2, <5>1, SameSideOf
        <5>3. On(R, cur, y, e) <=> On(R, n, y, e)
          BY <2>1, <4>2, <5>1
        <5>. QED
          BY <5>2, <5>3
      <4>. QED
        BY <4>1, <4>2
    <3>5. Right(c)
      BY <3>4
    <3> HIDE DEF Right, Leads
    <3>6. Leads(c)
      <4>1. Weight(sub, c) \in T
        BY <1>5, <2>1, <3>3
      <4>. QED
        BY <3>3, <3>5, <4>1
    <3>. QED
      BY <3>1, <3>6 DEF Leads
  <2>. QED
    BY <2>3, <2>4, <2>5
<1>6. \A k \in Nat : k \in T
  <2> HIDE DEF T
  <2>. QED
    BY <1>5, Induct
<1>7. Right(r)
  <2>1. ASSUME NEW y \in D, r \in sub[y], y # r PROVE FALSE
    <3>1. Par(t, r) \in D /\ Par(t, r) = NULL
      <4>1. Par(t, r) \in D
        BY <1>1, <2>1, Nested DEF Inner
      <4>2. Par(t, r) = NULL
        BY <1>1 DEF Shape
      <4>. QED
        BY <4>1, <4>2
    <3>. QED
      BY <1>1, <3>1
  <2>. QED
    BY <2>1
<1> HIDE DEF Right, Leads
<1>8. Leads(r)
  <2>1. Weight(sub, r) \in Nat
    BY <1>1, SubSize
  <2>. QED
    BY <1>6, <1>7, <2>1
<1>. QED
  BY <1>4, <1>8 DEF Leads

\* Two trees with the same fields.
LEMMA TreeEqual ==
  ASSUME NEW X, X \subseteq Name, NEW t \in Trees(X), NEW u \in Trees(X),
         \A y \in X : SameKids(u, t, y) /\ Par(u, y) = Par(t, y) /\ SameSize(u, t, y)
  PROVE  u = t
<1>1. ASSUME NEW y \in X PROVE u[y] = t[y]
  <2>1. /\ u[y].left = t[y].left /\ u[y].right = t[y].right /\ u[y].parent = t[y].parent
        /\ u[y].depth = t[y].depth /\ u[y].cnt = t[y].cnt
    <3>1. Kid(u, y, "left") = Kid(t, y, "left") /\ Kid(u, y, "right") = Kid(t, y, "right")
      BY DEF SameKids, Sides
    <3>2. Par(u, y) = Par(t, y) /\ Depth(u, y) = Depth(t, y) /\ Cnt(u, y) = Cnt(t, y)
      BY DEF SameSize
    <3>. QED
      BY <3>1, <3>2, NodeType
  <2>2. u[y] \in AvlNode /\ t[y] \in AvlNode
    BY NodeType
  <2>. QED
    BY <2>1, <2>2 DEF AvlNode
<1>. QED
  BY <1>1 DEF Trees

\* The first round of avl_fix leaves a new leaf n below q as it is.
LEMMA LeafRound ==
  ASSUME NEW X, X \subseteq Name, NEW u \in Trees(X), NEW n \in X, NEW q \in X, Par(u, n) = q,
         \A e \in Sides : Kid(u, n, e) = NULL, Depth(u, n) = 1, Cnt(u, n) = 1,
         Side(u, q, n) \in Sides, Kid(u, q, Side(u, q, n)) = n,
         NEW i, i = [tree |-> u, at |-> n, root |-> NULL]
  PROVE  Round(i) = [tree |-> u, at |-> q, root |-> NULL]
<1>1. n # NULL /\ q # NULL /\ n \in Name
  BY NodeType
<1>2. PICK w : w = AvlUpdate(u, n)
  OBVIOUS
<1>3. Updated(w, u, n, X)
  BY <1>2, UpdateFields
<1>4. SameSize(w, u, n)
  <2>1. "left" \in Sides /\ Opp("left") \in Sides
    BY DEF Sides, Opp
  <2>2. /\ Depth(w, n) = 1 + Higher(Depth(u, NULL), Depth(u, NULL))
        /\ Cnt(w, n) = 1 + Cnt(u, NULL) + Cnt(u, NULL)
    BY <1>3, <2>1 DEF Updated
  <2>. QED
    BY <2>2, NullSize DEF SameSize, Higher
<1>5. w = u
  BY <1>3, <1>4, TreeEqual DEF Updated
<1>6. u[n].left = NULL /\ u[n].right = NULL /\ u[n].parent = q
  BY NodeType DEF Sides
<1>7. FixNode(u, n) = [tree |-> u, top |-> n]
  <2>1. Depth(w, w[n].left) = 0 /\ Depth(w, w[n].right) = 0
    BY <1>5, <1>6, NullSize
  <2>. QED
    BY <1>2, <1>5, <2>1 DEF FixNode
<1>8. PICK s : s = Side(u, q, n)
  OBVIOUS
<1>9. PICK v : v = [u EXCEPT ![q][s] = n]
  OBVIOUS
<1>10. v = u
  <2>1. KidSet(v, u, q, s, n, X)
    BY <1>1, <1>8, <1>9, SetKidFields
  <2>2. SameKids(v, u, q)
    BY <1>8, <2>1, Opposite DEF KidSet, SameKids
  <2>. QED
    BY <2>1, <2>2, TreeEqual DEF KidSet
<1>11. i.tree = u /\ i.at = n /\ i.tree[n].parent = q
  BY <1>6
<1>. QED
  BY <1>1, <1>7, <1>8, <1>9, <1>10, <1>11 DEF Round

LEMMA TreeAddFirst ==
  ASSUME NEW t, NEW sc, NEW R, NEW r, NEW sub, NEW n, Adding(t, sc, R, {}, r, sub, n), t[n] = New,
         NEW f, f = [tree |-> t, root |-> n]
  PROVE  Fixed(f, R, {n}, {n})
<1>1. t \in Trees({n}) /\ n \in Name /\ StrictOrder(R, {n}) /\ n # NULL
  BY NameAssumption DEF Adding
<1>2. Par(t, n) = NULL /\ Depth(t, n) = 1 /\ Cnt(t, n) = 1 /\ \A e \in Sides : Kid(t, n, e) = NULL
  BY <1>1 DEF New, Par, Depth, Cnt, Adding
<1>3. PICK z : z = [y \in {n} |-> {n}]
  OBVIOUS
<1>4. \A e \in Sides : Part(R, z[n], n, e) = {}
  BY <1>1, <1>3, OrderSides DEF Part
<1>5. Shape(t, R, {n}, n, z)
  BY <1>1, <1>2, <1>3, <1>4 DEF Shape, Sub
<1>6. Sound(t, n)
  <2>1. ASSUME NEW e \in Sides PROVE SoundBy(t, n, e)
    <3>1. Kid(t, n, e) = NULL /\ Kid(t, n, Opp(e)) = NULL
      BY <1>2, Opposite
    <3>. QED
      BY <1>2, <3>1, NullSize DEF SoundBy, Close, Higher
  <2>. QED
    BY <2>1 DEF Sound
<1>. QED
  BY <1>1, <1>5, <1>6 DEF Fixed

WithLeaf(t, n, q, d) == [t EXCEPT ![q][d] = n, ![n].parent = q]

LEMMA LinkedFields ==
  ASSUME NEW X, X \subseteq Name, NEW t \in Trees(X), NEW n \in X, NEW q \in X, q # n, NEW d \in Sides,
         NEW D, D \subseteq X, n \notin D, \A e \in Sides : Kid(t, n, e) = NULL,
         NEW u, u = WithLeaf(t, n, q, d)
  PROVE  /\ u \in Trees(X) /\ Linked(u, t, D, n, q, d)
         /\ \A y \in X : SameSize(u, t, y)
<1>1. PICK v : v = [t EXCEPT ![q][d] = n]
  OBVIOUS
<1>2. n \in Name /\ q \in Name /\ n # NULL
  BY NodeType
<1>3. KidSet(v, t, q, d, n, X)
  BY <1>1, <1>2, SetKidFields
<1>4. v \in Trees(X)
  BY <1>3 DEF KidSet
<1>5. ParentSet(SetParent(v, n, q), v, n, q, X)
  BY <1>2, <1>4, SetParentFields
<1>6. u = SetParent(v, n, q)
  BY <1>1, <1>2 DEF SetParent, WithLeaf
<1>7. /\ u \in Trees(X)
      /\ \A y \in X : SameKids(u, v, y) /\ SameSize(u, v, y)
      /\ \A y \in X : Par(u, y) = IF y = n THEN q ELSE Par(v, y)
  BY <1>5, <1>6 DEF ParentSet
<1>8. Opp(d) \in Sides
  BY Opposite
<1>9. \A y \in X : SameSize(u, t, y)
  BY <1>3, <1>7 DEF KidSet, SameSize
<1>10. \A y \in X : y # q => SameKids(u, t, y)
  BY <1>3, <1>7 DEF KidSet, SameKids
<1>11. Kid(u, q, d) = n /\ Kid(u, q, Opp(d)) = Kid(t, q, Opp(d))
  BY <1>3, <1>7, <1>8 DEF KidSet, SameKids
<1>12. \A e \in Sides : Kid(u, n, e) = NULL
  BY <1>10 DEF SameKids
<1>13. Par(u, n) = q /\ \A y \in D : Par(u, y) = Par(t, y)
  BY <1>3, <1>7 DEF KidSet
<1>. QED
  BY <1>7, <1>9, <1>10, <1>11, <1>12, <1>13 DEF Linked

\* tree_add makes a sound tree out of one.
LEMMA TreeAddGrows ==
  ASSUME NEW t, NEW sc, NEW R, NEW D, NEW r, NEW sub, NEW n, Adding(t, sc, R, D, r, sub, n), t[n] = New,
         \A y \in D : Sound(t, y)
  PROVE  Fixed(TreeAdd(t, r, sc, n), R, D \cup {n}, D \cup {n})
<1>1. PICK E : E = D \cup {n}
  OBVIOUS
<1>2. /\ SearchTree(t, R, D, r, sub) /\ E \subseteq Name /\ n \notin D /\ t \in Trees(E) /\ n \in E /\ D \subseteq E
      /\ NULL \notin D /\ StrictOrder(R, E) /\ Shape(t, R, D, r, sub) /\ IsFiniteSet(E) /\ n # NULL /\ NULL \notin E
      /\ \A e \in Sides : Kid(t, n, e) = NULL
  BY <1>1, NameAssumption, FS_AddElement DEF Adding, SearchTree
<1>3. CASE r = NULL
  <2>1. D = {}
    BY <1>2, <1>3 DEF Shape
  <2>2. TreeAdd(t, r, sc, n) = [tree |-> t, root |-> n]
    BY <1>3 DEF TreeAdd
  <2>3. Fixed([tree |-> t, root |-> n], R, {n}, {n})
    BY <2>1, TreeAddFirst
  <2>. QED
    BY <2>1, <2>2, <2>3
<1>4. CASE r # NULL
  <2>1. r \in D
    BY <1>2, <1>4 DEF Shape
  <2>2. PICK q, d : Descend(t, sc, r, n) = <<q, d>> /\ LeafOf(t, R, D, sub, n, q, d)
    BY <2>1, DescendLeaf
  <2>3. q \in D /\ d \in Sides /\ Kid(t, q, d) = NULL /\ q # n /\ q \in E /\ Opp(d) \in Sides
    BY <1>2, <2>2, Opposite DEF LeafOf
  <2>4. PICK u : u = WithLeaf(t, n, q, d)
    OBVIOUS
  <2>5. TreeAdd(t, r, sc, n) = AvlFix(u, n)
    BY <1>4, <2>2, <2>4 DEF TreeAdd, WithLeaf
  <2>6. /\ u \in Trees(E) /\ Linked(u, t, D, n, q, d)
        /\ \A y \in E : SameSize(u, t, y)
    BY ONLY <1>2, <2>3, <2>4, LinkedFields
  <2>7. PICK z : z = Grown(sub, D, n, q)
    OBVIOUS
  <2>8. Shape(u, R, E, r, z)
    BY <1>1, <1>2, <2>2, <2>6, <2>7, GrowShape
  <2>9. /\ Kid(u, q, d) = n /\ Kid(u, q, Opp(d)) = Kid(t, q, Opp(d)) /\ Par(u, n) = q
        /\ \A e \in Sides : Kid(u, n, e) = NULL
        /\ \A y \in D : y # q => SameKids(u, t, y)
    BY <2>6 DEF Linked
  <2>10. Depth(t, n) = 1 /\ Cnt(t, n) = 1 /\ Depth(u, n) = 1 /\ Cnt(u, n) = 1
    <3>1. Depth(t, n) = 1 /\ Cnt(t, n) = 1
      BY <1>2 DEF New, Depth, Cnt
    <3>. QED
      BY <1>2, <2>6, <3>1 DEF SameSize
  <2>11. PICK i : i = [tree |-> u, at |-> n, root |-> NULL]
    OBVIOUS
  <2>12. Round(i) = [tree |-> u, at |-> q, root |-> NULL]
    <3>1. Side(u, q, n) \in Sides /\ Kid(u, q, Side(u, q, n)) = n
      BY <1>2, <2>3, <2>6, <2>8, <2>9, ParentOf
    <3>. QED
      BY <1>2, <2>3, <2>6, <2>9, <2>10, <2>11, <3>1, LeafRound
  <2>13. \A k \in D \cup {NULL} : SameSize(u, t, k)
    BY <1>2, <2>6, NullSize
  <2>14. \A y \in D, e \in Sides : Kid(t, y, e) \in D \cup {NULL} /\ Kid(t, y, e) \in E \cup {NULL}
    BY <1>2 DEF Shape
  <2>15. ASSUME NEW y \in E \ {q} PROVE Sound(u, y)
    <3>1. CASE y = n
      <4>1. ASSUME NEW e \in Sides PROVE SoundBy(u, n, e)
        <5>1. Kid(u, n, e) = NULL /\ Kid(u, n, Opp(e)) = NULL
          BY <2>9, Opposite
        <5>. QED
          BY <2>10, <5>1, NullSize DEF SoundBy, Close, Higher
      <4>. QED
        BY <3>1, <4>1 DEF Sound
    <3>2. CASE y \in D
      BY <2>9, <2>13, <2>14, <2>15, <3>2, SoundSame
    <3>. QED
      BY <1>1, <3>1, <3>2
  <2>16. Near(u, q)
    <3>1. Close(Depth(u, n), Depth(t, Kid(t, q, d)))
      BY <2>3, <2>10, NullSize DEF Close
    <3>2. SameSize(u, t, q) /\ SameSize(u, t, Kid(t, q, Opp(d)))
      BY <2>3, <2>13, <2>14
    <3>. QED
      BY <1>2, <2>3, <2>9, <2>14, <3>1, <3>2, Above
  <2>17. Mending(u, R, E, r, z, q, E)
    BY <1>2, <2>3, <2>6, <2>8, <2>15, <2>16 DEF Mending
  <2>18. 1 < Cardinality(z[q])
    <3>1. SearchTree(u, R, E, r, z)
      BY <1>2, <2>8 DEF SearchTree
    <3>2. Below(u, R, E, r, z, q, d, n)
      BY <1>2, <2>3, <2>9, <3>1, KidBelow
    <3>3. Weight(z, n) < Weight(z, q) /\ Weight(z, n) > 0 /\ Weight(z, n) \in Nat /\ Weight(z, q) \in Nat
      BY <1>2, <2>3, <3>1, <3>2, SubSize DEF Below
    <3>. QED
      BY <3>3 DEF Weight
  <2>19. Climbing(Round(i), 1, R, E, E)
    <3>1. PICK w : w = Round(i)
      OBVIOUS
    <3>2. w.tree = u /\ w.at = q /\ q # NULL
      BY <1>2, <2>3, <2>12, <3>1
    <3>3. Climbing(w, 1, R, E, E)
      BY <2>6, <2>17, <2>18, <3>2 DEF Climbing
    <3>. QED
      BY <3>1, <3>3
  <2>20. Fixed(AvlFix(u, n), R, E, E)
    BY <1>2, <2>6, <2>11, <2>19, AvlFixEnds
  <2>. QED
    BY <1>1, <2>5, <2>20
<1>. QED
  BY <1>3, <1>4

-----------------------------------------------------------------------------
(* The successor of a node *)

\* The nodes of a subtree are all on the same side of a node outside it.
LEMMA Convex ==
  ASSUME NEW t, NEW R, NEW D, NEW r, NEW sub, SearchTree(t, R, D, r, sub),
         NEW m \in D, NEW y \in D, y \notin sub[m], NEW x \in sub[m], NEW d \in Sides
  PROVE  On(R, m, y, d) <=> On(R, x, y, d)
<1>1. StrictOrder(R, D) /\ x \in D /\ m \in sub[m] /\ Shape(t, R, D, r, sub)
  BY SubSize DEF SearchTree
<1> DEFINE Same == \A e \in Sides : On(R, m, y, e) <=> On(R, x, y, e)
           T == {k \in Nat : \A w \in D : Weight(sub, w) = k /\ m \in sub[w] /\ y \in sub[w] => Same}
<1>2. ASSUME NEW k \in Nat, \A j \in 0..(k - 1) : j \in T PROVE k \in T
  <2>1. SUFFICES ASSUME NEW w \in D, Weight(sub, w) = k, m \in sub[w], y \in sub[w] PROVE Same
    OBVIOUS
  <2>2. w # m
    BY <2>1
  <2>3. CASE w = y
    BY <2>1, <2>2, <2>3, SameSideOf
  <2>4. CASE w # y
    <3>1. PICK f \in Sides : /\ Kid(t, w, f) # NULL /\ m \in sub[Kid(t, w, f)] /\ On(R, m, w, f)
                             /\ Below(t, R, D, r, sub, w, f, Kid(t, w, f))
      BY <2>1, <2>2, Toward
    <3>2. PICK c : c = Kid(t, w, f)
      OBVIOUS
    <3>3. c \in D /\ m \in sub[c] /\ sub[c] = Part(R, sub[w], w, f) /\ Weight(sub, c) < k /\ Weight(sub, c) \in Nat
      BY <2>1, <3>1, <3>2, SubSize DEF Below
    <3>4. CASE On(R, y, w, f)
      <4>1. y \in sub[c]
        BY <2>1, <3>3, <3>4 DEF Part
      <4>2. Weight(sub, c) \in T
        BY <1>2, <3>3
      <4> HIDE DEF Same
      <4>. QED
        BY <3>3, <4>1, <4>2
    <3>5. CASE ~On(R, y, w, f)
      <4>1. On(R, x, w, f)
        BY <2>1, <2>2, <3>1, SameSideOf
      <4>2. On(R, y, w, Opp(f)) /\ Opp(f) \in Sides /\ Opp(Opp(f)) = f
        BY <1>1, <2>4, <3>5, Opposite, OrderSides
      <4>3. On(R, w, y, f)
        BY <1>1, <2>1, <4>2, OrderSides
      <4>4. On(R, m, y, f) /\ On(R, x, y, f)
        BY <1>1, <2>1, <3>1, <4>1, <4>3, OrderSides
      <4>5. ~On(R, m, y, Opp(f)) /\ ~On(R, x, y, Opp(f))
        BY <1>1, <4>4, OrderSides
      <4>. QED
        BY <4>4, <4>5, Opposite
    <3>. QED
      BY <3>4, <3>5
  <2>. QED
    BY <2>3, <2>4
<1>3. \A k \in Nat : k \in T
  <2> HIDE DEF T
  <2>. QED
    BY <1>2, Induct
<1>4. r \in D /\ sub[r] = D
  BY <1>1 DEF Shape
<1>5. Same
  <2>1. Weight(sub, r) \in T
    BY <1>3, <1>4, SubSize
  <2> HIDE DEF Same
  <2>. QED
    BY <1>1, <1>4, <2>1
<1>. QED
  BY <1>5

\* v is the first of the nodes S.
First(R, S, v) == v \in S /\ \A y \in S : y # v => <<v, y>> \in R

\* The recursive definition of the walk to the left.
Lefts(h, t) == h = [m \in DOMAIN t |-> IF t[m].left = NULL THEN m ELSE h[t[m].left]]

LEMMA LeftsExists ==
  ASSUME NEW R, NEW D, D \subseteq Name, NEW t \in Trees(D), NEW r, NEW sub, SearchTree(t, R, D, r, sub)
  PROVE  \E h : Lefts(h, t)
<1>1. DOMAIN t = D /\ IsFiniteSet(D) /\ NULL \notin D /\ "left" \in Sides
  BY DEF Trees, SearchTree, Sides
<1>2. PICK m : m = [x \in D |-> Weight(sub, x)]
  OBVIOUS
<1>3. PICK N : N = Cardinality(D)
  OBVIOUS
<1>4. N \in Nat /\ m \in [D -> 0..N]
  <2>1. N \in Nat
    BY <1>1, <1>3, FS_CardinalityType
  <2>2. \A x \in D : Weight(sub, x) \in 0..N
    BY <1>3, <2>1, SubSize
  <2>. QED
    BY <1>2, <2>1, <2>2
<1>5. PICK go : go = {x \in D : Kid(t, x, "left") # NULL}
  OBVIOUS
<1>6. PICK nx : nx = [x \in D |-> Kid(t, x, "left")]
  OBVIOUS
<1>7. PICK base : base = [x \in D |-> x]
  OBVIOUS
<1>8. PICK G : G = [p \in D \X D |-> p[2]]
  OBVIOUS
<1>9. ASSUME NEW x \in go PROVE nx[x] \in D /\ m[nx[x]] < m[x]
  <2>1. PICK k : k = Kid(t, x, "left")
    OBVIOUS
  <2>2. x \in D /\ k # NULL /\ nx[x] = k
    BY <1>5, <1>6, <1>9, <2>1
  <2>3. Below(t, R, D, r, sub, x, "left", k)
    BY <1>1, <2>1, <2>2, KidBelow
  <2>4. k \in D /\ Weight(sub, k) < Weight(sub, x)
    BY <2>3 DEF Below
  <2>. QED
    BY <1>2, <2>2, <2>4
<1>10. Descends(D, D, go, nx, base, G, m, N)
  <2>1. G \in [D \X D -> D] /\ go \in SUBSET D /\ base \in [D -> D]
    BY <1>5, <1>7, <1>8
  <2>. QED
    BY <1>4, <1>9, <2>1 DEF Descends
<1>11. PICK h : Solves(h, D, D, go, nx, base, G)
  BY <1>10, Recursion
<1>12. h \in [D -> D] /\ h = [x \in D |-> IF x \in go THEN G[<<x, h[nx[x]]>>] ELSE base[x]]
  BY <1>11 DEF Solves
<1>13. \A x \in D : h[x] = IF t[x].left = NULL THEN x ELSE h[t[x].left]
  <2>1. SUFFICES ASSUME NEW x \in D PROVE h[x] = IF t[x].left = NULL THEN x ELSE h[t[x].left]
    OBVIOUS
  <2>2. t[x].left = Kid(t, x, "left")
    BY NodeType
  <2>3. CASE x \in go
    <3>1. nx[x] \in D /\ h[nx[x]] \in D
      BY <1>9, <1>12, <2>3
    <3>2. G[<<x, h[nx[x]]>>] = h[nx[x]]
      BY <1>8, <3>1
    <3>. QED
      BY <1>5, <1>6, <1>12, <2>2, <2>3, <3>2
  <2>4. CASE x \notin go
    BY <1>5, <1>7, <1>12, <2>2, <2>4
  <2>. QED
    BY <2>3, <2>4
<1>14. Lefts(h, t)
  BY <1>1, <1>12, <1>13 DEF Lefts
<1>. QED
  BY <1>14

\* The leftmost node of a subtree is the first of its nodes.
LEMMA LeftmostFirst ==
  ASSUME NEW R, NEW D, D \subseteq Name, NEW t \in Trees(D), NEW r, NEW sub, SearchTree(t, R, D, r, sub),
         NEW n \in D
  PROVE  First(R, sub[n], Leftmost(t, n))
<1>1. DOMAIN t = D /\ NULL \notin D /\ "left" \in Sides /\ StrictOrder(R, D) /\ Shape(t, R, D, r, sub)
  BY DEF Trees, SearchTree, Sides
<1>2. PICK h : h = CHOOSE g : Lefts(g, t)
  OBVIOUS
<1>3. Lefts(h, t)
  BY <1>2, LeftsExists
<1>4. Leftmost(t, n) = h[n]
  BY <1>2 DEF Leftmost, Lefts
<1> DEFINE T == {k \in Nat : \A m \in D : Weight(sub, m) = k => First(R, sub[m], h[m])}
<1>5. ASSUME NEW k \in Nat, \A j \in 0..(k - 1) : j \in T PROVE k \in T
  <2>1. SUFFICES ASSUME NEW m \in D, Weight(sub, m) = k PROVE First(R, sub[m], h[m])
    OBVIOUS
  <2>2. PICK c : c = Kid(t, m, "left")
    OBVIOUS
  <2>3. t[m].left = c /\ sub[m] \subseteq D /\ m \in sub[m]
    BY <2>1, <2>2, NodeType, SubSize
  <2>4. Sub(sub, c) = Part(R, sub[m], m, "left")
    BY <1>1, <2>2 DEF Shape
  <2>5. CASE c = NULL
    <3>1. h[m] = m
      BY <1>1, <1>3, <2>3, <2>5 DEF Lefts
    <3>2. \A y \in sub[m] : y # m => <<m, y>> \in R
      BY <1>1, <2>3, <2>4, <2>5 DEF Part, Sub, On, StrictOrder
    <3>. QED
      BY <2>3, <3>1, <3>2 DEF First
  <2>6. CASE c # NULL
    <3>1. h[m] = h[c]
      BY <1>1, <1>3, <2>3, <2>6 DEF Lefts
    <3>2. Below(t, R, D, r, sub, m, "left", c)
      BY <1>1, <2>2, <2>6, KidBelow
    <3>3. c \in D /\ sub[c] \subseteq sub[m] /\ Weight(sub, c) < k /\ Weight(sub, c) \in Nat
      BY <2>1, <3>2, SubSize DEF Below
    <3>4. First(R, sub[c], h[c])
      BY <1>5, <2>1, <3>3
    <3>5. PICK v : v = h[c]
      OBVIOUS
    <3>6. v \in sub[c] /\ \A y \in sub[c] : y # v => <<v, y>> \in R
      BY <3>4, <3>5 DEF First
    <3>7. <<v, m>> \in R
      BY <2>4, <2>6, <3>6 DEF Part, Sub, On
    <3>8. ASSUME NEW y \in sub[m], y # v PROVE <<v, y>> \in R
      <4>1. CASE y \in sub[c]
        BY <3>6, <3>8, <4>1
      <4>2. CASE y \notin sub[c] /\ y # m
        <5>1. <<y, m>> \notin R
          BY <2>4, <2>6, <4>2 DEF Part, Sub, On
        <5>2. <<m, y>> \in R
          BY <1>1, <2>3, <4>2, <5>1 DEF StrictOrder
        <5>. QED
          BY <1>1, <2>3, <3>3, <3>6, <3>7, <5>2 DEF StrictOrder
      <4>. QED
        BY <3>7, <4>1, <4>2
    <3>9. First(R, sub[m], v)
      BY <3>3, <3>6, <3>8 DEF First
    <3>. QED
      BY <3>1, <3>5, <3>9
  <2>. QED
    BY <2>5, <2>6
<1>6. \A k \in Nat : k \in T
  <2> HIDE DEF T
  <2>. QED
    BY <1>5, Induct
<1>. QED
  BY <1>4, <1>6, SubSize

\* v can be where m is: every other node is on the same side of both.
StandsFor(R, D, m, v) ==
  \A y \in D : y # m /\ y # v => (<<y, m>> \in R <=> <<y, v>> \in R) /\ (<<m, y>> \in R <=> <<v, y>> \in R)

\* The node that AvlDel takes for a node with a right subtree.
LEMMA Successor ==
  ASSUME NEW R, NEW D, D \subseteq Name, NEW t \in Trees(D), NEW r, NEW sub, SearchTree(t, R, D, r, sub),
         NEW m \in D, NEW k, k = Kid(t, m, "right"), k # NULL, NEW v, v = Leftmost(t, k)
  PROVE  v \in D /\ v # m /\ Weight(sub, v) < Weight(sub, m) /\ StandsFor(R, D, m, v)
<1>1. "right" \in Sides /\ "left" \in Sides /\ StrictOrder(R, D) /\ sub[m] \subseteq D
  BY SubSize DEF SearchTree, Sides
<1>2. Below(t, R, D, r, sub, m, "right", k)
  BY <1>1, KidBelow
<1>3. k \in D /\ m \notin sub[k] /\ sub[k] \subseteq sub[m] /\ sub[k] = Part(R, sub[m], m, "right")
  BY <1>2 DEF Below
<1>4. First(R, sub[k], v)
  BY <1>3, LeftmostFirst
<1>5. v \in sub[k] /\ (\A y \in sub[k] : y # v => <<v, y>> \in R) /\ v \in D /\ v \in sub[m] /\ v # m
  BY <1>1, <1>3, <1>4 DEF First
<1>6. <<m, v>> \in R
  BY <1>3, <1>5 DEF Part, On
<1>7. Weight(sub, v) < Weight(sub, m)
  <2>1. sub[v] \subseteq sub[k]
    BY <1>3, <1>5, Nested DEF Inner
  <2>2. m \in sub[m]
    BY SubSize
  <2>. QED
    BY <1>3, <1>5, <2>1, <2>2, SubSize
<1>8. ASSUME NEW y \in D, y # m, y # v PROVE <<y, m>> \in R <=> <<y, v>> \in R
  <2>1. ASSUME <<y, m>> \in R PROVE <<y, v>> \in R
    BY <1>1, <1>5, <1>6, <2>1 DEF StrictOrder
  <2>2. ASSUME <<y, v>> \in R PROVE <<y, m>> \in R
    <3>1. CASE y \in sub[m]
      <4>1. SUFFICES ASSUME <<m, y>> \in R PROVE FALSE
        BY <1>1, <1>8 DEF StrictOrder
      <4>2. y \in sub[k]
        BY <1>3, <3>1, <4>1 DEF Part, On
      <4>3. <<v, y>> \in R
        BY <1>5, <1>8, <4>2
      <4>. QED
        BY <1>1, <1>5, <2>2, <4>3 DEF StrictOrder
    <3>2. CASE y \notin sub[m]
      <4>1. On(R, m, y, "right") <=> On(R, v, y, "right")
        BY <1>1, <1>5, <3>2, Convex
      <4>. QED
        BY <2>2, <4>1 DEF On
    <3>. QED
      BY <3>1, <3>2
  <2>. QED
    BY <2>1, <2>2
<1>9. ASSUME NEW y \in D, y # m, y # v PROVE <<m, y>> \in R <=> <<v, y>> \in R
  <2>1. /\ <<m, y>> \in R <=> <<y, m>> \notin R
        /\ <<v, y>> \in R <=> <<y, v>> \notin R
    BY <1>1, <1>5, <1>9 DEF StrictOrder
  <2>. QED
    BY <1>8, <1>9, <2>1
<1>10. StandsFor(R, D, m, v)
  BY <1>8, <1>9 DEF StandsFor
<1>. QED
  BY <1>5, <1>7, <1>10

-----------------------------------------------------------------------------
(* A node without a right subtree leaves *)

\* u is t with l in the place of n.
Spliced(u, t, D, n, l, p) ==
  \A y \in D \ {n} :
    /\ \A e \in Sides : Kid(u, y, e) = IF Kid(t, y, e) = n THEN l ELSE Kid(t, y, e)
    /\ Par(u, y) = IF y = l THEN p ELSE Par(t, y)

Cut(sub, D, n) == [y \in D \ {n} |-> sub[y] \ {n}]

LEMMA SpliceShape ==
  ASSUME NEW t, NEW R, NEW D, NEW r, NEW sub, SearchTree(t, R, D, r, sub), NEW n \in D,
         Kid(t, n, "right") = NULL, NEW l, l = Kid(t, n, "left"), NEW p, p = Par(t, n),
         NEW u, Spliced(u, t, D, n, l, p)
  PROVE  Shape(u, R, D \ {n}, IF n = r THEN l ELSE r, Cut(sub, D, n))
<1>1. NULL \notin D /\ StrictOrder(R, D) /\ Shape(t, R, D, r, sub) /\ "left" \in Sides /\ "right" \in Sides
  BY DEF SearchTree, Sides
<1>2. PICK E : E = D \ {n}
  OBVIOUS
<1>3. PICK z : z = Cut(sub, D, n)
  OBVIOUS
<1>4. PICK q : q = IF n = r THEN l ELSE r
  OBVIOUS
<1>5. z \in [E -> SUBSET E] /\ \A y \in E : z[y] = sub[y] \ {n}
  BY <1>1, <1>2, <1>3 DEF Shape, Cut
<1>6. l # NULL => Below(t, R, D, r, sub, n, "left", l)
  BY <1>1, KidBelow
<1>7. l # NULL => l \in E /\ n \notin sub[l]
  BY <1>2, <1>6 DEF Below
<1>8. sub[n] \ {n} = Sub(sub, l)
  <2>1. Part(R, sub[n], n, "right") = {}
    <3>1. Sub(sub, Kid(t, n, "right")) = Part(R, sub[n], n, "right")
      BY <1>1 DEF Shape
    <3>. QED
      BY <3>1 DEF Sub
  <2>2. Sub(sub, l) = Part(R, sub[n], n, "left")
    BY <1>1 DEF Shape
  <2>3. ASSUME NEW y \in sub[n], y # n PROVE On(R, y, n, "left")
    <3>1. y \in D /\ ~On(R, y, n, "right")
      BY <2>1, <2>3, SubSize DEF Part
    <3>. QED
      BY <1>1, <2>3, <3>1, OrderSides DEF Opp
  <2>4. n \notin Part(R, sub[n], n, "left")
    BY <1>1, OrderSides DEF Part
  <2>. QED
    BY <2>2, <2>3, <2>4 DEF Part
<1>9. Sub(z, l) = Sub(sub, l)
  BY <1>5, <1>7 DEF Sub
<1>10. ASSUME NEW y \in E, NEW e \in Sides
       PROVE  /\ Kid(u, y, e) \in E \cup {NULL} /\ Sub(z, Kid(u, y, e)) = Part(R, z[y], y, e)
              /\ Kid(u, y, e) # NULL => Par(u, Kid(u, y, e)) = y
  <2>1. PICK k : k = Kid(t, y, e)
    OBVIOUS
  <2>2. k \in D \cup {NULL} /\ Sub(sub, k) = Part(R, sub[y], y, e) /\ (k # NULL => Par(t, k) = y)
    BY <1>1, <1>2, <2>1 DEF Shape
  <2>3. Part(R, z[y], y, e) = Sub(sub, k) \ {n}
    BY <1>5, <2>2 DEF Part
  <2>4. CASE k = n
    <3>1. Kid(u, y, e) = l
      BY <1>2, <2>1, <2>4 DEF Spliced
    <3>2. p = y
      BY <1>1, <2>2, <2>4
    <3>3. Part(R, z[y], y, e) = Sub(sub, l)
      BY <1>1, <1>8, <2>3, <2>4 DEF Sub
    <3>4. l # NULL => Par(u, l) = y
      BY <1>2, <1>7, <3>2 DEF Spliced
    <3>. QED
      BY <1>7, <1>9, <3>1, <3>3, <3>4
  <2>5. CASE k # n
    <3>1. Kid(u, y, e) = k
      BY <1>2, <2>1, <2>5 DEF Spliced
    <3>2. k # NULL => k \in E
      BY <1>2, <2>2, <2>5
    <3>3. k # NULL => k # l
      <4>1. ASSUME k # NULL, k = l PROVE FALSE
        BY <1>2, <1>6, <2>2, <4>1 DEF Below
      <4>. QED
        BY <4>1
    <3>4. k # NULL => Par(u, k) = y
      BY <1>2, <2>2, <3>2, <3>3 DEF Spliced
    <3>. QED
      BY <1>5, <2>3, <3>1, <3>2, <3>4 DEF Sub
  <2>. QED
    BY <2>4, <2>5
<1>11. ASSUME NEW y \in E, y # q
       PROVE  Par(u, y) \in E /\ \E e \in Sides : Kid(u, Par(u, y), e) = y
  <2>1. CASE y = l
    <3>1. n # r /\ p \in D /\ p # n
      <4>1. n # r
        BY <1>4, <1>11, <2>1
      <4>2. PICK e \in Sides : p \in D /\ Kid(t, p, e) = n
        BY <1>1, <4>1 DEF Shape
      <4>3. n # NULL
        BY <1>1
      <4>4. Below(t, R, D, r, sub, p, e, n)
        BY <4>2, <4>3, KidBelow
      <4>. QED
        BY <4>1, <4>2, <4>4 DEF Below
    <3>2. PICK e \in Sides : Kid(t, p, e) = n
      BY <1>1, <3>1 DEF Shape
    <3>3. Kid(u, p, e) = l /\ Par(u, l) = p
      BY <1>2, <2>1, <3>1, <3>2 DEF Spliced
    <3>. QED
      BY <1>2, <2>1, <3>1, <3>3
  <2>2. CASE y # l
    <3>1. y \in D /\ y # n /\ y # r
      <4>1. y \in D /\ y # n
        BY <1>2
      <4>2. y # r
        BY <1>2, <1>4, <1>11
      <4>. QED
        BY <4>1, <4>2
    <3>2. PICK w : w = Par(t, y)
      OBVIOUS
    <3>3. PICK e \in Sides : w \in D /\ Kid(t, w, e) = y
      BY <1>1, <3>1, <3>2 DEF Shape
    <3>4. w # n
      <4>1. ASSUME w = n PROVE FALSE
        <5>1. e = "left" \/ e = "right"
          BY DEF Sides
        <5>. QED
          BY <1>1, <2>2, <3>1, <3>3, <4>1, <5>1
      <4>. QED
        BY <4>1
    <3>5. Kid(u, w, e) = y /\ Par(u, y) = w
      BY <1>2, <2>2, <3>1, <3>2, <3>3, <3>4 DEF Spliced
    <3>. QED
      BY <1>2, <3>3, <3>4, <3>5
  <2>. QED
    BY <2>1, <2>2
<1>12. \A y \in E : y \in z[y]
  BY <1>1, <1>2, <1>5 DEF Shape
<1>13. E = {} => q = NULL
  <2>1. ASSUME E = {} PROVE q = NULL
    <3>1. r \in D
      BY <1>1 DEF Shape
    <3>. QED
      BY <1>2, <1>4, <1>7, <2>1, <3>1
  <2>. QED
    BY <2>1
<1>14. ASSUME E # {} PROVE q \in E /\ z[q] = E /\ Par(u, q) = NULL
  <2>1. r \in D /\ sub[r] = D /\ Par(t, r) = NULL
    BY <1>1 DEF Shape
  <2>2. CASE n = r
    <3>1. Sub(sub, l) = E /\ l # NULL
      BY <1>2, <1>8, <1>14, <2>1, <2>2 DEF Sub
    <3>2. z[l] = E
      BY <1>7, <1>9, <3>1 DEF Sub
    <3>3. Par(u, l) = NULL
      BY <1>2, <1>7, <2>1, <2>2, <3>1 DEF Spliced
    <3>. QED
      BY <1>4, <1>7, <2>2, <3>1, <3>2, <3>3
  <2>3. CASE n # r
    <3>1. r # l
      BY <1>1, <1>6, <2>1 DEF Below
    <3>. QED
      BY <1>2, <1>4, <1>5, <2>1, <2>3, <3>1 DEF Spliced
  <2>. QED
    BY <2>2, <2>3
<1>15. Shape(u, R, E, q, z)
  BY <1>5, <1>10, <1>11, <1>12, <1>13, <1>14 DEF Shape
<1>. QED
  BY <1>2, <1>3, <1>4, <1>15

\* The fields after the assignments of Splice.
LEMMA SpliceFields ==
  ASSUME NEW D, D \subseteq Name, NEW t \in Trees(D), NEW R, NEW r, NEW sub, SearchTree(t, R, D, r, sub),
         NEW n \in D, NEW l, l = Kid(t, n, "left"), NEW p, p = Par(t, n),
         NEW s, s = SetParent(t, l, p),
         NEW u, u = IF p = NULL THEN s ELSE Replace(s, p, n, l)
  PROVE  u \in Trees(D) /\ Spliced(u, t, D, n, l, p) /\ \A y \in D : SameSize(u, t, y)
<1>1. NULL \notin D /\ StrictOrder(R, D) /\ Shape(t, R, D, r, sub) /\ "left" \in Sides
  BY DEF SearchTree, Sides
<1>2. l \in D \cup {NULL} /\ l \in Name \cup {NULL} /\ p \in Name \cup {NULL}
  BY <1>1, NodeType DEF Shape
<1>3. ParentSet(s, t, l, p, D)
  BY <1>2, SetParentFields
<1>4. /\ s \in Trees(D)
      /\ \A y \in D : SameKids(s, t, y) /\ SameSize(s, t, y)
      /\ \A y \in D : Par(s, y) = IF y = l THEN p ELSE Par(t, y)
  BY <1>3 DEF ParentSet
<1>5. \A y \in D, e \in Sides : Kid(s, y, e) = Kid(t, y, e)
  BY <1>4 DEF SameKids
<1>6. \A y \in D, e \in Sides : Kid(t, y, e) = n => y = p /\ e = Side(t, p, n)
  BY <1>1, ParentOf
<1>7. CASE p = NULL
  <2>1. \A y \in D, e \in Sides : Kid(t, y, e) # n
    BY <1>1, <1>6, <1>7
  <2>. QED
    BY <1>4, <1>5, <1>7, <2>1 DEF Spliced
<1>8. CASE p # NULL
  <2>1. PICK f : f = Side(t, p, n)
    OBVIOUS
  <2>2. p \in D /\ f \in Sides /\ Kid(t, p, f) = n
    BY <1>1, <1>8, <2>1, ParentOf
  <2>3. Side(s, p, n) = f
    <3>1. Kid(s, p, "left") = s[p].left /\ Kid(t, p, "left") = t[p].left
      BY <1>4, <2>2, NodeType
    <3>. QED
      BY <1>1, <1>5, <2>1, <2>2, <3>1 DEF Side
  <2>4. u = [s EXCEPT ![p][f] = l]
    BY <1>8, <2>3 DEF Replace
  <2>5. KidSet(u, s, p, f, l, D)
    BY <1>2, <1>4, <2>2, <2>4, SetKidFields
  <2>6. /\ u \in Trees(D)
        /\ \A y \in D : Par(u, y) = Par(s, y) /\ SameSize(u, s, y)
        /\ \A y \in D : y # p => SameKids(u, s, y)
        /\ Kid(u, p, f) = l /\ Kid(u, p, Opp(f)) = Kid(s, p, Opp(f))
    BY <2>5 DEF KidSet
  <2>7. ASSUME NEW y \in D, NEW e \in Sides
        PROVE  Kid(u, y, e) = IF Kid(t, y, e) = n THEN l ELSE Kid(t, y, e)
    <3>1. CASE y = p /\ e = f
      BY <2>2, <2>6, <3>1
    <3>2. CASE y = p /\ e # f
      <4>1. e = Opp(f)
        BY <2>2, <3>2, Opposite
      <4>2. Kid(t, y, e) # n
        BY <1>6, <2>1, <3>2
      <4>. QED
        BY <1>5, <2>6, <3>2, <4>1, <4>2
    <3>3. CASE y # p
      <4>1. Kid(t, y, e) # n
        BY <1>6, <3>3
      <4>2. Kid(u, y, e) = Kid(s, y, e)
        BY <2>6, <3>3 DEF SameKids
      <4>. QED
        BY <1>5, <4>1, <4>2
    <3>. QED
      BY <3>1, <3>2, <3>3
  <2>8. Spliced(u, t, D, n, l, p)
    BY <1>4, <2>6, <2>7 DEF Spliced
  <2>. QED
    BY <1>4, <2>6, <2>8 DEF SameSize
<1>. QED
  BY <1>7, <1>8

\* What the operations on a sound tree start from.
SoundTree(t, R, D, r, sub) ==
  /\ D \subseteq Name /\ t \in Trees(D) /\ SearchTree(t, R, D, r, sub) /\ \A y \in D : Sound(t, y)

LEMMA SpliceMends ==
  ASSUME NEW t, NEW R, NEW D, NEW r, NEW sub, SoundTree(t, R, D, r, sub), NEW n \in D,
         Kid(t, n, "right") = NULL
  PROVE  Fixed(Splice(t, n), R, D \ {n}, D)
<1>1. /\ D \subseteq Name /\ t \in Trees(D) /\ SearchTree(t, R, D, r, sub) /\ \A y \in D : Sound(t, y)
      /\ NULL \notin D /\ StrictOrder(R, D) /\ Shape(t, R, D, r, sub) /\ IsFiniteSet(D)
      /\ "left" \in Sides /\ Opp("left") = "right"
  BY DEF SoundTree, SearchTree, Sides, Opp
<1>2. PICK E : E = D \ {n}
  OBVIOUS
<1>3. PICK l : l = Kid(t, n, "left")
  OBVIOUS
<1>4. PICK p : p = Par(t, n)
  OBVIOUS
<1>5. PICK s : s = SetParent(t, l, p)
  OBVIOUS
<1>6. PICK u : u = IF p = NULL THEN s ELSE Replace(s, p, n, l)
  OBVIOUS
<1>7. Splice(t, n) = IF p = NULL THEN [tree |-> u, root |-> l] ELSE AvlFix(u, p)
  <2>1. t[n].left = l /\ t[n].parent = p
    BY <1>1, <1>3, <1>4, NodeType
  <2>. QED
    BY <1>5, <1>6, <2>1 DEF Splice
<1>8. u \in Trees(D) /\ Spliced(u, t, D, n, l, p) /\ \A y \in D : SameSize(u, t, y)
  BY ONLY <1>1, <1>3, <1>4, <1>5, <1>6, SpliceFields, n \in D
<1>9. PICK z : z = Cut(sub, D, n)
  OBVIOUS
<1>10. Shape(u, R, E, IF n = r THEN l ELSE r, z)
  BY <1>1, <1>2, <1>3, <1>4, <1>8, <1>9, SpliceShape
<1>11. StrictOrder(R, E) /\ NULL \notin E /\ E \subseteq D
  BY <1>1, <1>2 DEF StrictOrder
<1>12. \A k \in D \cup {NULL} : SameSize(u, t, k)
  BY <1>8, NullSize
<1>13. \A y \in D, e \in Sides : Kid(t, y, e) \in D \cup {NULL}
  BY <1>1 DEF Shape
<1>14. ASSUME NEW y \in E, y # p PROVE Sound(u, y)
  <2>1. \A e \in Sides : Kid(t, y, e) # n
    BY <1>1, <1>4, <1>11, <1>14, ParentOf
  <2>2. SameKids(u, t, y)
    BY <1>2, <1>8, <2>1 DEF Spliced, SameKids
  <2>. QED
    BY <1>1, <1>11, <1>12, <1>13, <2>2, SoundSame
<1>15. CASE p = NULL
  <2>1. n = r
    <3>1. Par(t, n) = NULL
      BY <1>4, <1>15
    <3>. QED
      BY ONLY <1>1, <3>1, n \in D DEF Shape
  <2>2. \A y \in E : Sound(u, y)
    BY <1>1, <1>11, <1>14, <1>15
  <2>3. PICK f : f = [tree |-> u, root |-> l]
    OBVIOUS
  <2>4. Fixed(f, R, E, D)
    BY <1>8, <1>10, <2>1, <2>2, <2>3 DEF Fixed
  <2>. QED
    BY <1>2, <1>7, <1>15, <2>3, <2>4
<1>16. CASE p # NULL
  <2>1. PICK f : f = Side(t, p, n)
    OBVIOUS
  <2>2. p \in D /\ f \in Sides /\ Kid(t, p, f) = n /\ p # n /\ p \in E /\ Opp(f) \in Sides /\ Opp(f) # f
    BY <1>1, <1>2, <1>4, <1>16, <2>1, ParentOf, Opposite
  <2>3. Kid(t, p, Opp(f)) # n
    <3>1. \A y \in D, e \in Sides : Kid(t, y, e) = n => y = p /\ e = f
      BY <1>1, <2>2, ShapeLink
    <3>. QED
      BY <2>2, <3>1
  <2>4. Kid(u, p, f) = l /\ Kid(u, p, Opp(f)) = Kid(t, p, Opp(f))
    BY <1>2, <1>8, <2>2, <2>3 DEF Spliced
  <2>5. Close(Depth(u, l), Depth(t, Kid(t, p, f)))
    <3>1. PICK i : i = Depth(t, l)
      OBVIOUS
    <3>2. l \in D \cup {NULL} /\ i \in Nat
      BY <1>1, <1>3, <1>13, <3>1, SizeType
    <3>3. SoundBy(t, n, "left")
      BY <1>1 DEF Sound
    <3>4. Depth(t, n) = 1 + Higher(i, 0)
      BY <1>1, <1>3, <3>1, <3>3, NullSize DEF SoundBy
    <3>5. Depth(u, l) = i
      BY <1>12, <3>1, <3>2 DEF SameSize
    <3>. QED
      BY <2>2, <3>2, <3>4, <3>5 DEF Close, Higher
  <2>6. SameSize(u, t, p) /\ SameSize(u, t, Kid(t, p, Opp(f)))
    BY <1>12, <1>13, <2>2
  <2>7. Sound(t, p) /\ \A e \in Sides : Kid(t, p, e) \in D \cup {NULL}
    BY <1>1, <1>13, <2>2
  <2>8. Near(u, p)
    BY <1>1, <2>2, <2>4, <2>5, <2>6, <2>7, Above
  <2>9. PICK q : q = IF n = r THEN l ELSE r
    OBVIOUS
  <2>10. Shape(u, R, E, q, z) /\ \A y \in E \ {p} : Sound(u, y)
    BY <1>10, <1>14, <2>9
  <2>11. Mending(u, R, E, q, z, p, D)
    BY <1>1, <1>8, <1>11, <2>2, <2>8, <2>10 DEF Mending
  <2>12. Fixed(AvlFix(u, p), R, E, D)
    BY <1>1, <2>11, AvlFixMends
  <2>. QED
    BY <1>2, <1>7, <1>16, <2>12
<1>. QED
  BY <1>15, <1>16

-----------------------------------------------------------------------------
(* The successor v takes the place of m *)

Back(m, v, x) == IF x = m THEN v ELSE x

\* u is t with v for m.
Renamed(u, t, E, m, v) ==
  \A y \in E :
    /\ \A e \in Sides : Kid(u, Back(m, v, y), e) = Back(m, v, Kid(t, y, e))
    /\ Par(u, Back(m, v, y)) = Back(m, v, Par(t, y))
    /\ Depth(u, Back(m, v, y)) = Depth(t, y) /\ Cnt(u, Back(m, v, y)) = Cnt(t, y)

SameOrder(R, E, m, v) ==
  \A x, y \in E, e \in Sides : On(R, x, y, e) <=> On(R, Back(m, v, x), Back(m, v, y), e)

\* The subtrees with v for m
Carried(z, F, m, v) == [y \in F |-> {x \in F : Back(v, m, x) \in z[Back(v, m, y)]}]

LEMMA BackFore ==
  ASSUME NEW E, NEW m \in E, NEW v, v \notin E, NEW F, F = (E \ {m}) \cup {v}
  PROVE  /\ \A y \in F : Back(v, m, y) \in E /\ Back(m, v, Back(v, m, y)) = y
         /\ \A y \in E : Back(m, v, y) \in F /\ Back(v, m, Back(m, v, y)) = y
BY DEF Back

LEMMA TakeShape ==
  ASSUME NEW t, NEW R, NEW E, NULL \notin E, NEW r, NEW z, Shape(t, R, E, r, z), NEW m \in E,
         NEW v, v \notin E, v # NULL, NEW u, Renamed(u, t, E, m, v), SameOrder(R, E, m, v),
         NEW F, F = (E \ {m}) \cup {v}
  PROVE  Shape(u, R, F, Back(m, v, r), Carried(z, F, m, v))
<1>1. \A y \in F : Back(v, m, y) \in E /\ Back(m, v, Back(v, m, y)) = y
  BY BackFore
<1>2. \A y \in E : Back(m, v, y) \in F /\ Back(v, m, Back(m, v, y)) = y
  BY DEF Back
<1>3. Back(m, v, NULL) = NULL /\ \A x \in E : Back(m, v, x) # NULL
  BY DEF Back
<1>4. PICK q : q = Carried(z, F, m, v)
  OBVIOUS
<1>5. q \in [F -> SUBSET F] /\ \A y \in F : q[y] = {x \in F : Back(v, m, x) \in z[Back(v, m, y)]}
  BY <1>4 DEF Carried
<1>6. \A y \in F : y \in q[y]
  BY <1>1, <1>5 DEF Shape
<1>7. ASSUME NEW y \in F, NEW e \in Sides
      PROVE  /\ Kid(u, y, e) \in F \cup {NULL} /\ Sub(q, Kid(u, y, e)) = Part(R, q[y], y, e)
             /\ Kid(u, y, e) # NULL => Par(u, Kid(u, y, e)) = y
  <2>1. PICK w : w = Back(v, m, y)
    OBVIOUS
  <2>2. w \in E /\ y = Back(m, v, w)
    BY <1>1, <2>1
  <2>3. PICK k : k = Kid(t, w, e)
    OBVIOUS
  <2>4. k \in E \cup {NULL} /\ Sub(z, k) = Part(R, z[w], w, e) /\ (k # NULL => Par(t, k) = w)
    BY <2>2, <2>3 DEF Shape
  <2>5. PICK c : c = Back(m, v, k)
    OBVIOUS
  <2>6. Kid(u, y, e) = c
    BY <2>2, <2>3, <2>5 DEF Renamed
  <2>7. CASE k = NULL
    <3>1. c = NULL /\ Sub(q, c) = {} /\ Part(R, z[w], w, e) = {}
      BY <1>3, <2>4, <2>5, <2>7 DEF Sub
    <3>2. ASSUME NEW x \in q[y], On(R, x, y, e) PROVE FALSE
      <4>1. Back(v, m, x) \in z[w] /\ Back(v, m, x) \in E /\ Back(m, v, Back(v, m, x)) = x
        BY <1>1, <1>5, <2>1, <3>2
      <4>2. On(R, Back(v, m, x), w, e)
        BY <2>2, <3>2, <4>1 DEF SameOrder
      <4>. QED
        BY <3>1, <4>1, <4>2 DEF Part
    <3>. QED
      BY <2>6, <3>1, <3>2 DEF Part
  <2>8. CASE k # NULL
    <3>1. k \in E /\ c \in F /\ Back(v, m, c) = k /\ c # NULL
      BY <1>2, <1>3, <2>4, <2>5, <2>8
    <3>2. z[k] = Part(R, z[w], w, e)
      BY <2>4, <2>8 DEF Sub
    <3>3. ASSUME NEW x \in F PROVE x \in q[c] <=> x \in Part(R, q[y], y, e)
      <4>1. PICK f : f = Back(v, m, x)
        OBVIOUS
      <4>2. f \in E /\ x = Back(m, v, f)
        BY <1>1, <4>1
      <4>3. x \in q[c] <=> f \in z[k]
        BY <1>5, <3>1, <4>1
      <4>4. x \in q[y] <=> f \in z[w]
        BY <1>5, <2>1, <4>1
      <4>5. On(R, x, y, e) <=> On(R, f, w, e)
        BY <2>2, <4>2 DEF SameOrder
      <4>. QED
        BY <3>2, <4>3, <4>4, <4>5 DEF Part
    <3>4. q[c] = Part(R, q[y], y, e)
      <4>1. q[c] \subseteq F /\ Part(R, q[y], y, e) \subseteq F
        BY <1>5, <3>1 DEF Part
      <4>. QED
        BY <3>3, <4>1
    <3>5. Par(u, c) = y
      BY <2>2, <2>4, <2>5, <2>8, <3>1 DEF Renamed
    <3>. QED
      BY <2>6, <3>1, <3>4, <3>5 DEF Sub
  <2>. QED
    BY <2>7, <2>8
<1>8. ASSUME NEW y \in F, y # Back(m, v, r)
      PROVE  Par(u, y) \in F /\ \E e \in Sides : Kid(u, Par(u, y), e) = y
  <2>1. PICK w : w = Back(v, m, y)
    OBVIOUS
  <2>2. w \in E /\ y = Back(m, v, w) /\ w # r
    BY <1>1, <1>8, <2>1
  <2>3. PICK e \in Sides : Par(t, w) \in E /\ Kid(t, Par(t, w), e) = w
    BY <2>2 DEF Shape
  <2>4. PICK p : p = Par(t, w)
    OBVIOUS
  <2>5. Par(u, y) = Back(m, v, p) /\ Back(m, v, p) \in F
    BY <1>2, <2>2, <2>3, <2>4 DEF Renamed
  <2>6. Kid(u, Back(m, v, p), e) = y
    BY <2>2, <2>3, <2>4 DEF Renamed
  <2>. QED
    BY <2>5, <2>6
<1>9. r \in E /\ z[r] = E /\ Par(t, r) = NULL
  BY DEF Shape
<1>10. PICK s : s = Back(m, v, r)
  OBVIOUS
<1>11. s \in F /\ Back(v, m, s) = r
  BY <1>2, <1>9, <1>10
<1>12. q[s] = F
  <2>1. \A x \in F : x \in q[s]
    BY <1>1, <1>5, <1>9, <1>11
  <2>. QED
    BY <1>5, <1>11, <2>1
<1>13. Par(u, s) = NULL
  BY <1>3, <1>9, <1>10 DEF Renamed
<1>14. Shape(u, R, F, s, q)
  BY <1>5, <1>6, <1>7, <1>8, <1>10, <1>11, <1>12, <1>13 DEF Shape
<1>. QED
  BY <1>4, <1>10, <1>14

\* What TakePlace starts from: f is the tree without v.
Taking(f, R, E, z, m, v, X) ==
  /\ X \subseteq Name /\ E \subseteq X /\ m \in E /\ v \in X /\ v \notin E
  /\ f.tree \in Trees(X) /\ StrictOrder(R, E) /\ Shape(f.tree, R, E, f.root, z)

LEMMA TakeFields ==
  ASSUME NEW f, NEW R, NEW E, NEW z, NEW m, NEW v, NEW X, Taking(f, R, E, z, m, v, X),
         NEW t, t = f.tree, NEW g, g = TakePlace(f, m, v)
  PROVE  g.tree \in Trees(X) /\ Renamed(g.tree, t, E, m, v) /\ g.root = Back(m, v, f.root)
<1>1. /\ X \subseteq Name /\ E \subseteq X /\ m \in E /\ v \in X /\ v \notin E /\ m # v /\ m \in X
      /\ t \in Trees(X) /\ StrictOrder(R, E) /\ Shape(t, R, E, f.root, z)
      /\ NULL \notin E /\ v # NULL /\ v \in Name /\ "left" \in Sides /\ "right" \in Sides
  BY NameAssumption DEF Taking, Sides
<1>2. PICK o : o = [t EXCEPT ![v] = t[m]]
  OBVIOUS
<1>3. o \in Trees(X) /\ o[v] = t[m] /\ \A y \in X : y # v => o[y] = t[y]
  BY <1>1, <1>2 DEF Trees
<1>4. /\ \A e \in Sides : Kid(o, v, e) = Kid(t, m, e)
      /\ Par(o, v) = Par(t, m) /\ Depth(o, v) = Depth(t, m) /\ Cnt(o, v) = Cnt(t, m)
  BY <1>1, <1>3 DEF Kid, Par, Depth, Cnt
<1>5. \A y \in E : SameKids(o, t, y) /\ Par(o, y) = Par(t, y) /\ SameSize(o, t, y)
  BY <1>1, <1>3 DEF SameKids, SameSize, Kid, Par, Depth, Cnt
<1>6. PICK l, k : l = Kid(t, m, "left") /\ k = Kid(t, m, "right")
  OBVIOUS
<1>7. o[v].left = l /\ o[v].right = k
  BY <1>1, <1>3, <1>6, NodeType
<1>8. /\ l \in E \cup {NULL} /\ k \in E \cup {NULL}
      /\ l \in X \cup {NULL} /\ k \in X \cup {NULL} /\ l # v /\ k # v
  BY <1>1, <1>6 DEF Shape
<1>9. PICK b : b = SetParent(o, l, v)
  OBVIOUS
<1>10. ParentSet(b, o, l, v, X)
  BY <1>1, <1>3, <1>8, <1>9, SetParentFields
<1>11. /\ b \in Trees(X)
       /\ \A y \in X : SameKids(b, o, y) /\ SameSize(b, o, y)
       /\ \A y \in X : Par(b, y) = IF y = l THEN v ELSE Par(o, y)
  BY <1>10 DEF ParentSet
<1>12. PICK c : c = SetParent(b, k, v)
  OBVIOUS
<1>13. ParentSet(c, b, k, v, X)
  BY <1>1, <1>8, <1>11, <1>12, SetParentFields
<1>14. /\ c \in Trees(X)
       /\ \A y \in X : SameKids(c, b, y) /\ SameSize(c, b, y)
       /\ \A y \in X : Par(c, y) = IF y = k THEN v ELSE Par(b, y)
  BY <1>13 DEF ParentSet
<1>15. \A y \in X : /\ SameKids(c, o, y) /\ SameSize(c, o, y)
                    /\ Par(c, y) = IF y = k \/ y = l THEN v ELSE Par(o, y)
  BY <1>11, <1>14 DEF SameKids, SameSize
<1>16. PICK p : p = Par(t, m)
  OBVIOUS
<1>17. PICK u : u = IF p = NULL THEN c ELSE Replace(c, p, m, v)
  OBVIOUS
<1>18. g = [tree |-> u, root |-> IF p = NULL THEN v ELSE f.root]
  <2>1. t[m].parent = p
    BY <1>1, <1>16, NodeType
  <2>. QED
    BY <1>2, <1>7, <1>9, <1>12, <1>17, <2>1 DEF TakePlace, Seated
<1>19. /\ p = NULL <=> m = f.root
       /\ \A y \in E, e \in Sides : Kid(t, y, e) = m => y = p /\ e = Side(t, p, m)
       /\ p # m
  <2>1. p = NULL => m = f.root
    BY ONLY <1>1, <1>16 DEF Shape
  <2>2. m = f.root => p = NULL
    BY ONLY <1>1, <1>16 DEF Shape
  <2>3. \A y \in E, e \in Sides : Kid(t, y, e) = m => y = p /\ e = Side(t, p, m)
    BY <1>1, <1>16, ParentOf
  <2>4. p # m
    BY <1>1, <1>16, ParentOf
  <2>. QED
    BY <2>1, <2>2, <2>3, <2>4
<1>20. /\ u \in Trees(X)
       /\ \A y \in X : Par(u, y) = Par(c, y) /\ SameSize(u, c, y)
       /\ \A y \in E, e \in Sides : y # m => Kid(u, y, e) = IF Kid(t, y, e) = m THEN v ELSE Kid(t, y, e)
       /\ \A e \in Sides : Kid(u, v, e) = Kid(c, v, e)
  <2>1. \A y \in E, e \in Sides : Kid(c, y, e) = Kid(t, y, e)
    BY <1>1, <1>5, <1>15 DEF SameKids
  <2>2. CASE p = NULL
    <3>1. \A y \in E, e \in Sides : Kid(t, y, e) # m
      BY <1>1, <1>19, <2>2
    <3>. QED
      BY <1>14, <1>17, <2>1, <2>2, <3>1 DEF SameSize
  <2>3. CASE p # NULL
    <3>1. PICK s : s = Side(t, p, m)
      OBVIOUS
    <3>2. p \in E /\ s \in Sides /\ Kid(t, p, s) = m
      BY <1>1, <1>16, <2>3, <3>1, ParentOf
    <3>3. p \in X /\ p # v
      BY <1>1, <3>2
    <3>4. Side(c, p, m) = s
      <4>1. Kid(c, p, "left") = c[p].left /\ Kid(t, p, "left") = t[p].left
        BY <1>1, <1>14, <3>3, NodeType
      <4>. QED
        BY <1>1, <2>1, <3>1, <3>2, <4>1 DEF Side
    <3>5. u = [c EXCEPT ![p][s] = v]
      BY <1>17, <2>3, <3>4 DEF Replace
    <3>6. KidSet(u, c, p, s, v, X)
      BY <1>1, <1>14, <3>2, <3>3, <3>5, SetKidFields
    <3>7. /\ u \in Trees(X)
          /\ \A y \in X : Par(u, y) = Par(c, y) /\ SameSize(u, c, y)
          /\ \A y \in X : y # p => SameKids(u, c, y)
          /\ Kid(u, p, s) = v /\ Kid(u, p, Opp(s)) = Kid(c, p, Opp(s))
      BY <3>6 DEF KidSet
    <3>8. ASSUME NEW y \in E, NEW e \in Sides, y # m
          PROVE  Kid(u, y, e) = IF Kid(t, y, e) = m THEN v ELSE Kid(t, y, e)
      <4>1. CASE y = p /\ e = s
        BY <3>2, <3>7, <4>1
      <4>2. CASE y = p /\ e # s
        <5>1. e = Opp(s)
          BY <3>2, <4>2, Opposite
        <5>2. Kid(t, y, e) # m
          BY <1>19, <3>1, <4>2
        <5>. QED
          BY <2>1, <3>7, <4>2, <5>1, <5>2
      <4>3. CASE y # p
        <5>1. Kid(t, y, e) # m
          BY <1>19, <4>3
        <5>2. Kid(u, y, e) = Kid(c, y, e)
          BY <1>1, <3>7, <4>3 DEF SameKids
        <5>. QED
          BY <2>1, <5>1, <5>2
      <4>. QED
        BY <4>1, <4>2, <4>3
    <3>9. \A e \in Sides : Kid(u, v, e) = Kid(c, v, e)
      BY <1>1, <3>3, <3>7 DEF SameKids
    <3>. QED
      BY <3>7, <3>8, <3>9
  <2>. QED
    BY <2>2, <2>3
<1>21. ASSUME NEW y \in E
       PROVE  (y = k \/ y = l) <=> Par(t, y) = m
  <2>1. (y = k \/ y = l) => Par(t, y) = m
    BY <1>1, <1>6 DEF Shape
  <2>2. ASSUME Par(t, y) = m PROVE y = k \/ y = l
    <3>1. y # f.root
      BY <1>1, <2>2 DEF Shape
    <3>2. \E e \in Sides : Kid(t, m, e) = y
      BY <1>1, <2>2, <3>1 DEF Shape
    <3>. QED
      BY <1>6, <3>2 DEF Sides
  <2>. QED
    BY <2>1, <2>2
<1>22. ASSUME NEW y \in E
       PROVE  /\ \A e \in Sides : Kid(u, Back(m, v, y), e) = Back(m, v, Kid(t, y, e))
              /\ Par(u, Back(m, v, y)) = Back(m, v, Par(t, y))
              /\ Depth(u, Back(m, v, y)) = Depth(t, y) /\ Cnt(u, Back(m, v, y)) = Cnt(t, y)
  <2>1. CASE y = m
    <3>1. Back(m, v, y) = v /\ Back(m, v, Par(t, y)) = p
      BY <1>16, <1>19, <2>1 DEF Back
    <3>2. ASSUME NEW e \in Sides PROVE Kid(u, v, e) = Back(m, v, Kid(t, m, e))
      <4>1. Kid(t, m, e) # m
        BY <1>1, <1>19
      <4>2. Kid(u, v, e) = Kid(t, m, e)
        BY <1>1, <1>4, <1>15, <1>20 DEF SameKids
      <4>. QED
        BY <4>1, <4>2 DEF Back
    <3>3. Par(u, v) = p
      BY <1>1, <1>4, <1>8, <1>15, <1>16, <1>20
    <3>4. Depth(u, v) = Depth(t, m) /\ Cnt(u, v) = Cnt(t, m)
      BY <1>1, <1>4, <1>15, <1>20 DEF SameSize
    <3>. QED
      BY <2>1, <3>1, <3>2, <3>3, <3>4
  <2>2. CASE y # m
    <3>1. Back(m, v, y) = y /\ y \in X
      BY <1>1, <2>2 DEF Back
    <3>2. Par(u, y) = Back(m, v, Par(t, y))
      BY <1>5, <1>15, <1>20, <1>21, <3>1 DEF Back
    <3>3. Depth(u, y) = Depth(t, y) /\ Cnt(u, y) = Cnt(t, y)
      BY <1>5, <1>15, <1>20, <3>1 DEF SameSize
    <3>. QED
      BY <1>20, <2>2, <3>1, <3>2, <3>3 DEF Back
  <2>. QED
    BY <2>1, <2>2
<1>23. Renamed(u, t, E, m, v)
  BY <1>22 DEF Renamed
<1>24. g.root = Back(m, v, f.root)
  BY <1>18, <1>19 DEF Back
<1>. QED
  BY <1>18, <1>20, <1>23, <1>24

LEMMA StandsOrder ==
  ASSUME NEW R, NEW D, NEW m \in D, NEW v \in D, m # v, StandsFor(R, D, m, v), StrictOrder(R, D)
  PROVE  SameOrder(R, D \ {v}, m, v)
BY DEF StandsFor, SameOrder, StrictOrder, On, Back

\* TakePlace keeps a tree sound.
LEMMA TakePlaceFixed ==
  ASSUME NEW R, NEW D, D \subseteq Name, NEW m \in D, NEW v \in D, m # v, StandsFor(R, D, m, v),
         StrictOrder(R, D), NEW f, Fixed(f, R, D \ {v}, D)
  PROVE  Fixed(TakePlace(f, m, v), R, D \ {m}, D)
<1>1. PICK E : E = D \ {v}
  OBVIOUS
<1>2. PICK t : t = f.tree
  OBVIOUS
<1>3. PICK z : Shape(t, R, E, f.root, z)
  BY <1>1, <1>2 DEF Fixed
<1>4. t \in Trees(D) /\ \A y \in E : Sound(t, y)
  BY <1>1, <1>2 DEF Fixed
<1>5. /\ StrictOrder(R, E) /\ E \subseteq D /\ m \in E /\ v \notin E /\ NULL \notin E /\ v # NULL
      /\ D \ {m} = (E \ {m}) \cup {v}
  <2>1. StrictOrder(R, E)
    BY <1>1 DEF StrictOrder
  <2>. QED
    BY ONLY <1>1, <2>1, NameAssumption, D \subseteq Name, m \in D, v \in D, m # v
<1>6. Taking(f, R, E, z, m, v, D)
  BY <1>2, <1>3, <1>4, <1>5 DEF Taking
<1>7. PICK g : g = TakePlace(f, m, v)
  OBVIOUS
<1>8. g.tree \in Trees(D) /\ Renamed(g.tree, t, E, m, v) /\ g.root = Back(m, v, f.root)
  BY <1>2, <1>6, <1>7, TakeFields
<1>9. PICK u : u = g.tree
  OBVIOUS
<1>10. PICK F : F = D \ {m}
  OBVIOUS
<1>11. Renamed(u, t, E, m, v) /\ u \in Trees(D) /\ SameOrder(R, E, m, v) /\ F = (E \ {m}) \cup {v}
  BY <1>1, <1>5, <1>8, <1>9, <1>10, StandsOrder
<1>12. Shape(u, R, F, g.root, Carried(z, F, m, v))
  BY <1>3, <1>5, <1>8, <1>11, TakeShape
<1>13. ASSUME NEW y \in F PROVE Sound(u, y)
  <2>1. PICK w : w = Back(v, m, y)
    OBVIOUS
  <2>2. w \in E /\ y = Back(m, v, w)
    BY <1>5, <1>11, <2>1, BackFore
  <2>3. ASSUME NEW e \in Sides
        PROVE  Depth(u, Kid(u, y, e)) = Depth(t, Kid(t, w, e)) /\ Cnt(u, Kid(u, y, e)) = Cnt(t, Kid(t, w, e))
    <3>1. PICK k : k = Kid(t, w, e)
      OBVIOUS
    <3>2. k \in E \cup {NULL} /\ Kid(u, y, e) = Back(m, v, k)
      BY <1>3, <1>11, <2>2, <3>1 DEF Shape, Renamed
    <3>3. CASE k = NULL
      <4>1. Back(m, v, k) = NULL
        BY <1>5, <3>3 DEF Back
      <4>. QED
        BY <3>1, <3>2, <3>3, <4>1, NullSize
    <3>4. CASE k \in E
      BY <1>11, <3>1, <3>2, <3>4 DEF Renamed
    <3>. QED
      BY <3>2, <3>3, <3>4
  <2>4. Depth(u, y) = Depth(t, w) /\ Cnt(u, y) = Cnt(t, w)
    BY <1>11, <2>2 DEF Renamed
  <2>5. ASSUME NEW e \in Sides PROVE SoundBy(u, y, e)
    <3>1. SoundBy(t, w, e) /\ Opp(e) \in Sides
      BY <1>4, <2>2, Opposite DEF Sound
    <3>. QED
      BY <2>3, <2>4, <3>1 DEF SoundBy
  <2>. QED
    BY <2>5 DEF Sound
<1>14. Fixed(g, R, F, D)
  BY <1>9, <1>11, <1>12, <1>13 DEF Fixed
<1>. QED
  BY <1>7, <1>10, <1>14

-----------------------------------------------------------------------------
(* avl_del *)

\* The node that AvlDel deletes in the place of m.
Substitute(t, m) == Leftmost(t, t[m].right)

\* One step of the recursive definition.
DelStep(h, t, m) == IF t[m].right = NULL THEN Splice(t, m) ELSE TakePlace(h[Substitute(t, m)], m, Substitute(t, m))

Dels(h, t) == h = [m \in DOMAIN t |-> DelStep(h, t, m)]

LEMMA DelSmaller ==
  ASSUME NEW t, NEW R, NEW D, NEW r, NEW sub, SoundTree(t, R, D, r, sub), NEW m \in D, t[m].right # NULL,
         NEW v, v = Substitute(t, m)
  PROVE  v \in D /\ v # m /\ Weight(sub, v) < Weight(sub, m) /\ StandsFor(R, D, m, v)
<1>1. D \subseteq Name /\ t \in Trees(D) /\ SearchTree(t, R, D, r, sub)
  BY DEF SoundTree
<1>2. PICK k : k = Kid(t, m, "right")
  OBVIOUS
<1>3. t[m].right = k /\ k # NULL /\ v = Leftmost(t, k)
  BY <1>1, <1>2, NodeType DEF Substitute
<1>. QED
  BY ONLY <1>1, <1>2, <1>3, Successor, m \in D

LEMMA DelExists ==
  ASSUME NEW t, NEW R, NEW D, NEW r, NEW sub, SoundTree(t, R, D, r, sub)
  PROVE  \E h : Dels(h, t)
<1>1. SearchTree(t, R, D, r, sub) /\ DOMAIN t = D /\ IsFiniteSet(D)
  BY DEF SoundTree, Trees, SearchTree
<1> DEFINE T == {k \in Nat : \E g : \A m \in D : Weight(sub, m) <= k => g[m] = DelStep(g, t, m)}
<1>2. ASSUME NEW k \in Nat, \A j \in 0..(k - 1) : j \in T PROVE k \in T
  <2>1. PICK g : \A m \in D : Weight(sub, m) < k => g[m] = DelStep(g, t, m)
    <3>1. CASE k = 0
      BY <1>1, <3>1, SubSize
    <3>2. CASE k # 0
      <4>1. k - 1 \in T
        BY <1>2, <3>2
      <4>2. PICK g : \A m \in D : Weight(sub, m) <= k - 1 => g[m] = DelStep(g, t, m)
        BY <4>1
      <4>3. \A m \in D : Weight(sub, m) < k => Weight(sub, m) <= k - 1
        BY <1>1, SubSize
      <4>. QED
        BY <4>2, <4>3
    <3>. QED
      BY <3>1, <3>2
  <2>2. PICK h : h = [m \in D |-> DelStep(g, t, m)]
    OBVIOUS
  <2>3. ASSUME NEW m \in D, Weight(sub, m) < k PROVE h[m] = g[m]
    BY <2>1, <2>2, <2>3
  <2>4. ASSUME NEW m \in D, Weight(sub, m) <= k PROVE h[m] = DelStep(h, t, m)
    <3>1. h[m] = DelStep(g, t, m)
      BY <2>2
    <3>2. CASE t[m].right = NULL
      BY <3>1, <3>2 DEF DelStep
    <3>3. CASE t[m].right # NULL
      <4>1. PICK v : v = Substitute(t, m)
        OBVIOUS
      <4>2. v \in D /\ Weight(sub, v) < Weight(sub, m)
        BY <3>3, <4>1, DelSmaller
      <4>3. h[v] = g[v]
        <5>1. Weight(sub, v) \in Nat /\ Weight(sub, m) \in Nat
          BY <1>1, <4>2, SubSize
        <5>2. Weight(sub, v) < k
          BY <2>4, <4>2, <5>1
        <5>. QED
          BY <2>3, <4>2, <5>2
      <4>. QED
        BY <3>1, <3>3, <4>1, <4>3 DEF DelStep
    <3>. QED
      BY <3>2, <3>3
  <2>. QED
    BY <2>4
<1>3. \A k \in Nat : k \in T
  <2> HIDE DEF T
  <2>. QED
    BY <1>2, Induct
<1>4. Cardinality(D) \in Nat /\ \A m \in D : Weight(sub, m) <= Cardinality(D)
  BY <1>1, SubSize, FS_CardinalityType
<1>5. PICK g : \A m \in D : Weight(sub, m) <= Cardinality(D) => g[m] = DelStep(g, t, m)
  BY <1>3, <1>4
<1>6. PICK h : h = [m \in D |-> g[m]]
  OBVIOUS
<1>7. ASSUME NEW m \in D PROVE h[m] = DelStep(h, t, m)
  <2>1. h[m] = DelStep(g, t, m)
    BY <1>4, <1>5, <1>6
  <2>2. t[m].right # NULL => Substitute(t, m) \in D
    BY DelSmaller
  <2>. QED
    BY <1>6, <2>1, <2>2 DEF DelStep
<1>8. Dels(h, t)
  BY <1>1, <1>6, <1>7 DEF Dels
<1>. QED
  BY <1>8

\* avl_del leaves a sound tree without the node.
LEMMA AvlDelFixed ==
  ASSUME NEW t, NEW R, NEW D, NEW r, NEW sub, SoundTree(t, R, D, r, sub), NEW n \in D
  PROVE  Fixed(AvlDel(t, n), R, D \ {n}, D)
<1>1. /\ SearchTree(t, R, D, r, sub) /\ DOMAIN t = D /\ StrictOrder(R, D) /\ D \subseteq Name /\ t \in Trees(D)
  BY DEF SoundTree, Trees, SearchTree
<1>2. PICK h : h = CHOOSE g : Dels(g, t)
  OBVIOUS
<1>3. Dels(h, t)
  BY <1>2, DelExists
<1>4. AvlDel(t, n) = h[n]
  BY <1>2 DEF AvlDel, Dels, DelStep, Substitute
<1> DEFINE T == {k \in Nat : \A m \in D : Weight(sub, m) = k => Fixed(h[m], R, D \ {m}, D)}
<1>5. ASSUME NEW k \in Nat, \A j \in 0..(k - 1) : j \in T PROVE k \in T
  <2>1. SUFFICES ASSUME NEW m \in D, Weight(sub, m) = k PROVE Fixed(h[m], R, D \ {m}, D)
    OBVIOUS
  <2>2. h[m] = DelStep(h, t, m)
    BY <1>1, <1>3 DEF Dels
  <2>3. CASE t[m].right = NULL
    <3>1. Kid(t, m, "right") = NULL
      BY <1>1, <2>3, NodeType
    <3>2. h[m] = Splice(t, m)
      BY <2>2, <2>3 DEF DelStep
    <3>. QED
      BY <3>1, <3>2, SpliceMends
  <2>4. CASE t[m].right # NULL
    <3>1. PICK v : v = Substitute(t, m)
      OBVIOUS
    <3>2. v \in D /\ v # m /\ Weight(sub, v) < k /\ StandsFor(R, D, m, v)
      BY <2>1, <2>4, <3>1, DelSmaller
    <3>3. Weight(sub, v) \in 0..(k - 1)
      BY <1>1, <3>2, SubSize
    <3>4. Fixed(h[v], R, D \ {v}, D)
      BY <1>5, <3>2, <3>3
    <3>5. PICK f : f = h[v]
      OBVIOUS
    <3>6. Fixed(TakePlace(f, m, v), R, D \ {m}, D)
      BY <1>1, <3>2, <3>4, <3>5, TakePlaceFixed
    <3>7. h[m] = TakePlace(f, m, v)
      BY <2>2, <2>4, <3>1, <3>5 DEF DelStep
    <3>. QED
      BY <3>6, <3>7
  <2>. QED
    BY <2>3, <2>4
<1>6. \A k \in Nat : k \in T
  <2> HIDE DEF T
  <2>. QED
    BY <1>5, Induct
<1>7. Weight(sub, n) \in Nat
  BY <1>1, SubSize
<1>. QED
  BY <1>4, <1>6, <1>7

-----------------------------------------------------------------------------
(* The invariant *)

\* The tree of a record f is a sound search tree of D and has no other nodes.
\* The nodes of D are the names in the table, in the order of their tuples.
ZSetInv ==
  /\ hmap \subseteq Name /\ IsFiniteSet(hmap)
  /\ score \in [hmap -> Scores]
  /\ changed \in BOOLEAN
  /\ Fixed([tree |-> tree, root |-> root], Order(score), hmap, hmap)

\* What Fixed says depends on the nodes of D only, and on their order.
LEMMA FixedSame ==
  ASSUME NEW X, NEW Y, NEW D, D \subseteq X, D \subseteq Y, NULL \notin D, NEW R, NEW Q,
         \A x, y \in D : <<x, y>> \in R <=> <<x, y>> \in Q,
         NEW f, Fixed(f, R, D, X), NEW g, g.tree \in Trees(Y), g.root = f.root,
         \A y \in D : g.tree[y] = f.tree[y]
  PROVE  Fixed(g, Q, D, Y)
<1>1. PICK t, u, r : t = f.tree /\ u = g.tree /\ r = f.root
  OBVIOUS
<1>2. PICK z : Shape(t, R, D, r, z)
  BY <1>1 DEF Fixed
<1>3. \A y \in D : Sound(t, y)
  BY <1>1 DEF Fixed
<1>4. \A y \in D : SameKids(u, t, y) /\ Par(u, y) = Par(t, y) /\ SameSize(u, t, y)
  BY <1>1 DEF SameKids, SameSize, Kid, Par, Depth, Cnt
<1>5. Shape(u, R, D, r, z)
  BY <1>2, <1>4, ShapeSame
<1>6. \A x, y \in D, d \in Sides : On(R, x, y, d) <=> On(Q, x, y, d)
  BY DEF On
<1>7. \A y \in D, d \in Sides : Part(R, z[y], y, d) = Part(Q, z[y], y, d)
  <2>1. \A y \in D : z[y] \subseteq D
    BY <1>2 DEF Shape
  <2>. QED
    BY <1>6, <2>1 DEF Part
<1>8. Shape(u, Q, D, r, z)
  BY <1>5, <1>7 DEF Shape
<1>9. ASSUME NEW y \in D PROVE Sound(u, y)
  <2>1. \A e \in Sides : Kid(t, y, e) \in D \cup {NULL}
    BY <1>2 DEF Shape
  <2>2. \A e \in Sides : SameSize(u, t, Kid(t, y, e))
    BY <1>4, <2>1, NullSize
  <2>. QED
    BY <1>3, <1>4, <2>2, SoundSame
<1>. QED
  BY <1>1, <1>8, <1>9 DEF Fixed

\* Every tree of the invariant is one that the operations start from.
LEMMA FixedSound ==
  ASSUME NEW D, D \subseteq Name, IsFiniteSet(D), NEW R, StrictOrder(R, D), NEW f, Fixed(f, R, D, D)
  PROVE  \E z : SoundTree(f.tree, R, D, f.root, z)
<1>1. PICK z : Shape(f.tree, R, D, f.root, z)
  BY DEF Fixed
<1>2. NULL \notin D
  BY NameAssumption
<1>. QED
  BY <1>1, <1>2 DEF SoundTree, SearchTree, Fixed

\* znode_new and tree_add
LEMMA NodeAdded ==
  ASSUME NEW D, D \subseteq Name, IsFiniteSet(D), NEW n \in Name, n \notin D, NEW X, X \cup {n} = D \cup {n},
         NEW R, NEW sc, \A y \in D \cup {n} : sc[y] \in Int,
         \A x, y \in D : <<x, y>> \in R <=> <<x, y>> \in Order(sc),
         NEW f, Fixed(f, R, D, X)
  PROVE  Fixed(TreeAdd(Put(f.tree, n, New), f.root, sc, n), Order(sc), D \cup {n}, D \cup {n})
<1>1. PICK E : E = D \cup {n}
  OBVIOUS
<1>2. PICK t : t = Put(f.tree, n, New)
  OBVIOUS
<1>3. PICK Q : Q = Order(sc)
  OBVIOUS
<1>4. PICK r : r = f.root
  OBVIOUS
<1>5. E \subseteq Name /\ NULL \notin E /\ D \subseteq E /\ n \in E /\ D \subseteq X
  <2>1. D \subseteq X
    BY ONLY X \cup {n} = D \cup {n}, n \notin D
  <2>2. E \subseteq Name /\ NULL \notin E
    BY ONLY <1>1, NameAssumption, D \subseteq Name, n \in Name
  <2>. QED
    BY <1>1, <2>1, <2>2
<1>6. StrictOrder(Q, E) /\ StrictOrder(Q, D)
  BY <1>1, <1>3, <1>5, OrderStrict
<1>7. t = [y \in E |-> IF y = n THEN New ELSE f.tree[y]] /\ f.tree \in [X -> AvlNode]
  BY <1>1, <1>2 DEF Put, Fixed, Trees
<1>8. New \in AvlNode
  BY DEF New, AvlNode
<1>9. t \in Trees(E) /\ t[n] = New /\ \A y \in D : t[y] = f.tree[y]
  BY <1>1, <1>5, <1>7, <1>8 DEF Trees
<1>10. PICK g : g = [tree |-> t, root |-> r]
  OBVIOUS
<1>11. g.tree = t /\ g.root = r
  BY <1>10
<1>12. Fixed(g, Q, D, E)
  BY <1>3, <1>4, <1>5, <1>9, <1>11, FixedSame
<1>13. PICK z : Shape(t, Q, D, r, z)
  BY <1>11, <1>12 DEF Fixed
<1>14. \A y \in D : Sound(t, y)
  BY <1>11, <1>12 DEF Fixed
<1>15. \A e \in Sides : Kid(t, n, e) = NULL
  BY <1>9 DEF New, Kid, Sides
<1>16. Adding(t, sc, Q, D, r, z, n)
  BY <1>1, <1>3, <1>5, <1>6, <1>9, <1>13, <1>15 DEF Adding, SearchTree
<1>17. Fixed(TreeAdd(t, r, sc, n), Q, E, E)
  BY <1>1, <1>9, <1>14, <1>16, TreeAddGrows
<1>. QED
  BY <1>1, <1>2, <1>3, <1>4, <1>17

LEMMA ZSetInit_Inv == ZSetInit => ZSetInv
<1> SUFFICES ASSUME ZSetInit PROVE ZSetInv
  OBVIOUS
<1>1. hmap = {} /\ root = NULL /\ changed = FALSE /\ score \in [{} -> Scores] /\ tree \in Trees({})
  BY DEF ZSetInit, Trees
<1>2. PICK z : z = [n \in {} |-> {}]
  OBVIOUS
<1>3. PICK R : R = Order(score)
  OBVIOUS
<1>4. Shape(tree, R, {}, NULL, z)
  BY <1>2 DEF Shape
<1>5. Fixed([tree |-> tree, root |-> NULL], R, {}, {})
  BY <1>1, <1>4 DEF Fixed
<1>. QED
  BY <1>1, <1>3, <1>5, FS_EmptySet DEF ZSetInv

\* What is left after zset_pop's or zset_update's avl_del.
LEMMA NodeGone ==
  ASSUME ZSetInv, NEW n \in hmap
  PROVE  Fixed(AvlDel(tree, n), Order(score), hmap \ {n}, hmap)
<1>1. PICK f : f = [tree |-> tree, root |-> root]
  OBVIOUS
<1>2. \A y \in hmap : score[y] \in Int
  BY NameAssumption DEF ZSetInv
<1>3. StrictOrder(Order(score), hmap)
  BY <1>2, OrderStrict DEF ZSetInv
<1>4. PICK z : SoundTree(f.tree, Order(score), hmap, f.root, z)
  BY <1>1, <1>3, FixedSound DEF ZSetInv
<1>. QED
  BY <1>1, <1>4, AvlDelFixed

LEMMA SameOrders ==
  ASSUME NEW D, NEW sc, NEW su, \A y \in D : su[y] = sc[y]
  PROVE  \A x, y \in D : <<x, y>> \in Order(sc) <=> <<x, y>> \in Order(su)
BY DEF Order, Zless

\* A tree is there if a name is.
LEMMA HasName == ZSetInv => \A n : Has(n) <=> n \in hmap
<1> SUFFICES ASSUME ZSetInv, NEW n, n \in hmap PROVE root # NULL
  BY DEF Has
<1>1. PICK f : f = [tree |-> tree, root |-> root]
  OBVIOUS
<1>2. PICK z : Shape(f.tree, Order(score), hmap, f.root, z)
  BY <1>1 DEF ZSetInv, Fixed
<1>3. root \in hmap
  BY <1>1, <1>2 DEF Shape
<1>. QED
  BY <1>3, NameAssumption DEF ZSetInv

LEMMA Pop_Inv ==
  ASSUME ZSetInv, NEW n \in Name, ZSetPop(n)
  PROVE  ZSetInv'
<1>1. CASE ~Has(n)
  BY <1>1 DEF ZSetPop, ZSetInv
<1>2. CASE Has(n)
  <2>1. PICK f : f = AvlDel(tree, n)
    OBVIOUS
  <2>2. PICK D : D = hmap \ {n}
    OBVIOUS
  <2>3. /\ hmap' = D /\ tree' = Restrict(f.tree, DOMAIN tree \ {n}) /\ root' = f.root
        /\ score' = Restrict(score, DOMAIN score \ {n}) /\ changed' = TRUE
    BY <1>2, <2>1, <2>2 DEF ZSetPop
  <2>4. n \in hmap /\ hmap \subseteq Name /\ IsFiniteSet(hmap) /\ score \in [hmap -> Scores] /\ DOMAIN tree = hmap
    BY <1>2, HasName DEF ZSetInv, Fixed, Trees
  <2>5. Fixed(f, Order(score), D, hmap)
    BY <2>1, <2>2, <2>4, NodeGone
  <2>6. score' = [y \in D |-> score[y]] /\ tree' = [y \in D |-> f.tree[y]]
    BY <2>2, <2>3, <2>4 DEF Restrict
  <2>7. f.tree \in [hmap -> AvlNode]
    BY <2>5 DEF Fixed, Trees
  <2>8. tree' \in Trees(D) /\ \A y \in D : tree'[y] = f.tree[y]
    BY <2>2, <2>6, <2>7 DEF Trees
  <2>9. score' \in [D -> Scores] /\ \A y \in D : score'[y] = score[y]
    BY <2>2, <2>4, <2>6
  <2>10. PICK g : g = [tree |-> tree', root |-> root']
    OBVIOUS
  <2>11. g.tree = tree' /\ g.root = f.root /\ NULL \notin D /\ D \subseteq hmap
    BY <2>2, <2>3, <2>4, <2>10, NameAssumption
  <2>12. PICK R, Q : R = Order(score) /\ Q = Order(score')
    OBVIOUS
  <2>13. \A x, y \in D : <<x, y>> \in R <=> <<x, y>> \in Q
    BY <2>9, <2>12, SameOrders
  <2>14. Fixed(g, Q, D, D)
    BY <2>5, <2>8, <2>11, <2>12, <2>13, FixedSame
  <2>15. IsFiniteSet(D)
    BY <2>2, <2>4, FS_Subset
  <2>. QED
    BY <2>2, <2>3, <2>4, <2>9, <2>10, <2>12, <2>14, <2>15 DEF ZSetInv
<1>. QED
  BY <1>1, <1>2

LEMMA Add_Inv ==
  ASSUME ZSetInv, NEW n \in Name, NEW s \in Scores, ZSetAdd(n, s)
  PROVE  ZSetInv'
<1>1. /\ hmap \subseteq Name /\ IsFiniteSet(hmap) /\ score \in [hmap -> Scores]
      /\ Fixed([tree |-> tree, root |-> root], Order(score), hmap, hmap)
  BY DEF ZSetInv
<1>2. CASE Has(n) /\ score[n] = s
  BY <1>2 DEF ZSetAdd, ZSetUpdate, ZSetInv
<1>3. CASE Has(n) /\ score[n] # s
  <2>1. PICK f : f = AvlDel(tree, n)
    OBVIOUS
  <2>2. PICK h : h = TreeAdd(Put(f.tree, n, New), f.root, score', n)
    OBVIOUS
  <2>3. hmap' = hmap /\ score' = Put(score, n, s) /\ tree' = h.tree /\ root' = h.root /\ changed' = FALSE
    BY <1>3, <2>1, <2>2 DEF ZSetAdd, ZSetUpdate, Becomes
  <2>4. n \in hmap
    BY <1>3, HasName
  <2>5. PICK D : D = hmap \ {n}
    OBVIOUS
  <2>6. Fixed(f, Order(score), D, hmap)
    BY <2>1, <2>4, <2>5, NodeGone
  <2>7. D \subseteq Name /\ IsFiniteSet(D) /\ n \notin D /\ hmap \cup {n} = D \cup {n} /\ D \cup {n} = hmap
    BY <1>1, <2>4, <2>5, FS_Subset
  <2>8. score' \in [hmap -> Scores] /\ \A y \in D : score'[y] = score[y]
    BY <1>1, <2>3, <2>4, <2>5 DEF Put
  <2>9. \A y \in D \cup {n} : score'[y] \in Int
    BY <2>7, <2>8, NameAssumption
  <2>10. \A x, y \in D : <<x, y>> \in Order(score) <=> <<x, y>> \in Order(score')
    BY <2>8, SameOrders
  <2>11. Fixed(h, Order(score'), hmap, hmap)
    BY <2>2, <2>6, <2>7, <2>9, <2>10, NodeAdded
  <2>12. [tree |-> tree', root |-> root'] = [tree |-> h.tree, root |-> h.root]
    BY <2>3
  <2>13. Fixed([tree |-> tree', root |-> root'], Order(score'), hmap', hmap')
    BY <2>3, <2>11 DEF Fixed
  <2>. QED
    BY <1>1, <2>3, <2>8, <2>13 DEF ZSetInv
<1>4. CASE ~Has(n)
  <2>1. PICK f : f = [tree |-> tree, root |-> root]
    OBVIOUS
  <2>2. PICK h : h = TreeAdd(Put(f.tree, n, New), f.root, score', n)
    OBVIOUS
  <2>3. hmap' = hmap \cup {n} /\ score' = Put(score, n, s) /\ tree' = h.tree /\ root' = h.root /\ changed' = TRUE
    BY <1>4, <2>1, <2>2 DEF ZSetAdd, Becomes
  <2>4. n \notin hmap
    BY <1>4, HasName
  <2>5. score' \in [hmap \cup {n} -> Scores] /\ \A y \in hmap : score'[y] = score[y]
    BY <1>1, <2>3, <2>4 DEF Put
  <2>6. \A y \in hmap \cup {n} : score'[y] \in Int
    BY <2>5, NameAssumption
  <2>7. \A x, y \in hmap : <<x, y>> \in Order(score) <=> <<x, y>> \in Order(score')
    BY <2>5, SameOrders
  <2>8. Fixed(f, Order(score), hmap, hmap)
    BY <1>1, <2>1
  <2>9. Fixed(h, Order(score'), hmap \cup {n}, hmap \cup {n})
    BY <1>1, <2>2, <2>4, <2>6, <2>7, <2>8, NodeAdded
  <2>10. Fixed([tree |-> tree', root |-> root'], Order(score'), hmap', hmap')
    BY <2>3, <2>9 DEF Fixed
  <2>11. IsFiniteSet(hmap \cup {n})
    BY <1>1, FS_AddElement
  <2>. QED
    BY <1>1, <2>3, <2>5, <2>10, <2>11 DEF ZSetInv
<1>. QED
  BY <1>2, <1>3, <1>4

LEMMA ZSetNext_Inv == ZSetInv /\ [ZSetNext]_zsetVars => ZSetInv'
<1> SUFFICES ASSUME ZSetInv, [ZSetNext]_zsetVars PROVE ZSetInv'
  OBVIOUS
<1>1. CASE UNCHANGED zsetVars
  BY <1>1 DEF zsetVars, ZSetInv
<1>2. ASSUME NEW n \in Name, ZSetPop(n) PROVE ZSetInv'
  BY <1>2, Pop_Inv
<1>3. ASSUME NEW n \in Name, NEW s \in Scores, ZSetAdd(n, s) PROVE ZSetInv'
  BY <1>3, Add_Inv
<1>. QED
  BY <1>1, <1>2, <1>3 DEF ZSetNext

\* After any calls the tree is a sound search tree of the names in the table,
\* in all fields that the code keeps.
THEOREM ZSetInvariant == ZSetSpec => []ZSetInv
  BY ZSetInit_Inv, ZSetNext_Inv, PTL DEF ZSetSpec

-----------------------------------------------------------------------------
(* The nodes of a tree, left to right *)

\* A recursive definition over both subtrees has a solution.
Recurs(h, t, D, V, i, G) ==
  /\ h \in [D \cup {NULL} -> V] /\ h[NULL] = i
  /\ \A m \in D : h[m] = G[<<h[Kid(t, m, "left")], m, h[Kid(t, m, "right")]>>]

LEMMA TreeRecursion ==
  ASSUME NEW t, NEW R, NEW D, NEW r, NEW sub, SearchTree(t, R, D, r, sub),
         NEW V, NEW i \in V, NEW G \in [V \X D \X V -> V]
  PROVE  \E h : Recurs(h, t, D, V, i, G)
<1>1. PICK P : P = D \cup {NULL}
  OBVIOUS
<1>2. /\ NULL \notin D /\ "left" \in Sides /\ "right" \in Sides
      /\ \A m \in D, e \in Sides : Kid(t, m, e) \in P
      /\ \A m \in D, e \in Sides : Kid(t, m, e) # NULL =>
            Kid(t, m, e) \in D /\ Weight(sub, Kid(t, m, e)) < Weight(sub, m)
  <2>1. NULL \notin D /\ "left" \in Sides /\ "right" \in Sides
    BY DEF SearchTree, Sides
  <2>2. \A m \in D, e \in Sides : Kid(t, m, e) \in P
    BY <1>1 DEF SearchTree, Shape
  <2>3. ASSUME NEW m \in D, NEW e \in Sides, Kid(t, m, e) # NULL
        PROVE  Kid(t, m, e) \in D /\ Weight(sub, Kid(t, m, e)) < Weight(sub, m)
    <3>1. PICK k : k = Kid(t, m, e)
      OBVIOUS
    <3>2. Below(t, R, D, r, sub, m, e, k)
      BY <2>3, <3>1, KidBelow
    <3>. QED
      BY <3>1, <3>2 DEF Below
  <2>. QED
    BY <2>1, <2>2, <2>3
<1> DEFINE Step(g, m) == G[<<g[Kid(t, m, "left")], m, g[Kid(t, m, "right")]>>]
           T == {k \in Nat : \E g \in [P -> V] : g[NULL] = i /\ \A m \in D : Weight(sub, m) <= k => g[m] = Step(g, m)}
<1>3. ASSUME NEW k \in Nat, \A j \in 0..(k - 1) : j \in T PROVE k \in T
  <2>1. PICK g \in [P -> V] : g[NULL] = i /\ \A m \in D : Weight(sub, m) < k => g[m] = Step(g, m)
    <3>1. CASE k = 0
      <4>1. \A m \in D : ~(Weight(sub, m) < k)
        BY <3>1, SubSize
      <4>2. [x \in P |-> i] \in [P -> V] /\ [x \in P |-> i][NULL] = i
        BY <1>1
      <4>. QED
        BY <4>1, <4>2
    <3>2. CASE k # 0
      <4>1. k - 1 \in T
        BY <1>3, <3>2
      <4>2. PICK g \in [P -> V] : g[NULL] = i /\ \A m \in D : Weight(sub, m) <= k - 1 => g[m] = Step(g, m)
        BY <4>1
      <4>3. \A m \in D : Weight(sub, m) < k => Weight(sub, m) <= k - 1
        BY SubSize
      <4>. QED
        BY <4>2, <4>3
    <3>. QED
      BY <3>1, <3>2
  <2>2. PICK h : h = [x \in P |-> IF x = NULL THEN i ELSE Step(g, x)]
    OBVIOUS
  <2>3. h \in [P -> V] /\ h[NULL] = i /\ \A m \in D : h[m] = Step(g, m)
    <3>1. \A m \in D : Step(g, m) \in V
      BY <1>2
    <3> HIDE DEF Step
    <3>. QED
      BY <1>1, <1>2, <2>2, <3>1
  <2>4. ASSUME NEW x \in P, x # NULL => Weight(sub, x) < k PROVE h[x] = g[x]
    <3> HIDE DEF Step
    <3>. QED
      BY <1>1, <2>1, <2>3, <2>4
  <2>5. ASSUME NEW m \in D, Weight(sub, m) <= k PROVE h[m] = Step(h, m)
    <3>1. ASSUME NEW e \in Sides PROVE h[Kid(t, m, e)] = g[Kid(t, m, e)]
      <4>1. PICK c : c = Kid(t, m, e)
        OBVIOUS
      <4>2. c \in P /\ (c # NULL => c \in D /\ Weight(sub, c) < Weight(sub, m))
        BY <1>2, <4>1
      <4>3. c # NULL => Weight(sub, c) < k
        <5>1. ASSUME c # NULL PROVE Weight(sub, c) < k
          <6>1. Weight(sub, c) \in Nat /\ Weight(sub, m) \in Nat /\ Weight(sub, c) < Weight(sub, m)
            BY <4>2, <5>1, SubSize
          <6>. QED
            BY <2>5, <6>1
        <5>. QED
          BY <5>1
      <4>. QED
        BY <2>4, <4>1, <4>2, <4>3
    <3>2. Step(h, m) = Step(g, m)
      BY <1>2, <3>1
    <3> HIDE DEF Step
    <3>. QED
      BY <2>3, <3>2
  <2> HIDE DEF Step
  <2>. QED
    BY <2>3, <2>5
<1>4. \A k \in Nat : k \in T
  <2> HIDE DEF T
  <2>. QED
    BY <1>3, Induct
<1>5. Cardinality(D) \in Nat /\ \A m \in D : Weight(sub, m) <= Cardinality(D)
  BY SubSize, FS_CardinalityType DEF SearchTree
<1>6. PICK g \in [P -> V] : g[NULL] = i /\ \A m \in D : Weight(sub, m) <= Cardinality(D) => g[m] = Step(g, m)
  <2> HIDE DEF Step
  <2>. QED
    BY <1>4, <1>5
<1>. QED
  BY <1>1, <1>5, <1>6 DEF Recurs

\* Two listings with an element between them
LEMMA ListingJoin ==
  ASSUME NEW R, NEW A1, NEW A2, NEW m, NEW S, S = A1 \cup {m} \cup A2,
         NEW s1, NEW s2, Listing(s1, R, A1), Listing(s2, R, A2),
         \A x \in A1 : <<x, m>> \in R, \A x \in A2 : <<m, x>> \in R,
         \A x \in A1, y \in A2 : <<x, y>> \in R
  PROVE  Listing(s1 \o <<m>> \o s2, R, S) /\ Len(s1 \o <<m>> \o s2) = Len(s1) + 1 + Len(s2)
<1>1. /\ s1 \in Seq(A1) /\ s2 \in Seq(A2)
      /\ \A x, y \in 1..Len(s1) : x < y => <<s1[x], s1[y]>> \in R
      /\ \A x, y \in 1..Len(s2) : x < y => <<s2[x], s2[y]>> \in R
      /\ \A n \in A1 : \E x \in 1..Len(s1) : s1[x] = n
      /\ \A n \in A2 : \E x \in 1..Len(s2) : s2[x] = n
  BY DEF Listing
<1>2. PICK N, K : N = Len(s1) /\ K = Len(s2)
  OBVIOUS
<1>3. N \in Nat /\ K \in Nat
  BY <1>1, <1>2
<1>4. PICK s : s = s1 \o <<m>> \o s2
  OBVIOUS
<1>5. /\ s \in Seq(S) /\ Len(s) = N + 1 + K
      /\ \A x \in 1..N : s[x] = s1[x]
      /\ s[N + 1] = m
      /\ \A x \in (N + 2)..(N + 1 + K) : s[x] = s2[x - N - 1]
  <2>1. s1 \in Seq(S) /\ s2 \in Seq(S) /\ <<m>> \in Seq(S)
    BY <1>1
  <2>2. PICK w : w = s1 \o <<m>>
    OBVIOUS
  <2>3. w \in Seq(S) /\ Len(w) = N + 1 /\ w[N + 1] = m /\ \A x \in 1..N : w[x] = s1[x]
    BY <1>2, <1>3, <2>1, <2>2
  <2>4. s = w \o s2
    BY <1>4, <2>2
  <2>5. s \in Seq(S) /\ Len(s) = N + 1 + K
    <3>1. w \in Seq(S) /\ s2 \in Seq(S) /\ s = w \o s2
      BY <2>1, <2>3, <2>4
    <3>2. s \in Seq(S)
      BY ONLY <3>1
    <3>3. Len(s) = Len(w) + Len(s2)
      BY ONLY <3>1
    <3>. QED
      BY <1>2, <1>3, <2>3, <3>2, <3>3
  <2>6. \A x \in 1..(N + 1) : s[x] = w[x]
    BY <1>2, <1>3, <2>1, <2>3, <2>4
  <2>7. \A x \in (N + 2)..(N + 1 + K) : s[x] = s2[x - N - 1]
    BY <1>2, <1>3, <2>1, <2>3, <2>4
  <2>. QED
    BY <1>3, <2>3, <2>5, <2>6, <2>7
<1>6. /\ \A x \in 1..N : s1[x] \in A1
      /\ \A x \in 1..K : s2[x] \in A2
  BY <1>1, <1>2
<1>7. ASSUME NEW x \in 1..Len(s), NEW y \in 1..Len(s), x < y PROVE <<s[x], s[y]>> \in R
  <2>1. CASE y <= N
    <3>1. x \in 1..N /\ y \in 1..N
      BY <1>3, <1>7, <2>1
    <3>2. <<s1[x], s1[y]>> \in R
      BY <1>1, <1>2, <1>7, <3>1
    <3>. QED
      BY <1>5, <3>1, <3>2
  <2>2. CASE y = N + 1
    <3>1. x \in 1..N
      BY <1>3, <1>7, <2>2
    <3>. QED
      BY <1>5, <1>6, <2>2, <3>1
  <2>3. CASE y > N + 1
    <3>1. y \in (N + 2)..(N + 1 + K) /\ y - N - 1 \in 1..K
      BY <1>3, <1>5, <2>3
    <3>2. s[y] = s2[y - N - 1] /\ s2[y - N - 1] \in A2
      BY <1>5, <1>6, <3>1
    <3>3. CASE x <= N
      <4>1. x \in 1..N
        BY <1>3, <3>3
      <4>. QED
        BY <1>5, <1>6, <3>2, <4>1
    <3>4. CASE x = N + 1
      BY <1>5, <3>2, <3>4
    <3>5. CASE x > N + 1
      <4>1. x \in (N + 2)..(N + 1 + K) /\ x - N - 1 \in 1..K /\ x - N - 1 < y - N - 1
        BY <1>3, <1>5, <1>7, <3>5
      <4>. QED
        BY <1>1, <1>2, <1>5, <3>1, <3>2, <4>1
    <3>. QED
      BY <1>3, <3>3, <3>4, <3>5
  <2>. QED
    BY <1>3, <2>1, <2>2, <2>3
<1>8. ASSUME NEW n \in S PROVE \E x \in 1..Len(s) : s[x] = n
  <2>1. CASE n \in A1
    <3>1. PICK x \in 1..N : s1[x] = n
      BY <1>1, <1>2, <2>1
    <3>. QED
      BY <1>3, <1>5, <3>1
  <2>2. CASE n = m
    BY <1>3, <1>5, <2>2
  <2>3. CASE n \in A2
    <3>1. PICK x \in 1..K : s2[x] = n
      BY <1>1, <1>2, <2>3
    <3>2. x + N + 1 \in (N + 2)..(N + 1 + K) /\ x + N + 1 \in 1..Len(s) /\ (x + N + 1) - N - 1 = x
      BY <1>3, <1>5
    <3>3. s[x + N + 1] = n
      BY <1>5, <3>1, <3>2
    <3>. QED
      BY <3>2, <3>3
  <2>. QED
    BY <2>1, <2>2, <2>3
<1>9. Listing(s, R, S)
  BY <1>5, <1>7, <1>8 DEF Listing
<1>. QED
  BY <1>2, <1>4, <1>5, <1>9

\* The recursive definitions of the list and the height of a subtree.
Spells(h, t, D) ==
  h = [m \in D \cup {NULL} |-> IF m = NULL THEN <<>> ELSE h[t[m].left] \o <<m>> \o h[t[m].right]]

Heights(h, t, D) ==
  h = [m \in D \cup {NULL} |-> IF m = NULL THEN 0 ELSE 1 + Higher(h[t[m].left], h[t[m].right])]

LEMMA ListsExist ==
  ASSUME NEW t, NEW R, NEW D, NEW r, NEW sub, SoundTree(t, R, D, r, sub)
  PROVE  (\E h : Spells(h, t, D)) /\ (\E h : Heights(h, t, D))
<1>1. SearchTree(t, R, D, r, sub) /\ D \subseteq Name /\ t \in Trees(D) /\ NULL \notin D
  BY DEF SoundTree, SearchTree
<1>2. \A m \in D : Kid(t, m, "left") = t[m].left /\ Kid(t, m, "right") = t[m].right
  BY <1>1, NodeType
<1>3. \A m \in D : t[m].left \in D \cup {NULL} /\ t[m].right \in D \cup {NULL}
  BY <1>1, <1>2 DEF SearchTree, Shape, Sides
<1>4. \E h : Spells(h, t, D)
  <2>1. PICK V : V = Seq(D)
    OBVIOUS
  <2>2. PICK G : G = [p \in V \X D \X V |-> p[1] \o <<p[2]>> \o p[3]]
    OBVIOUS
  <2>3. \A s1, s2 \in Seq(D), m \in D : s1 \o <<m>> \o s2 \in Seq(D)
    OBVIOUS
  <2>4. <<>> \in V /\ G \in [V \X D \X V -> V]
    BY <2>1, <2>2, <2>3
  <2>9. PICK h : Recurs(h, t, D, V, <<>>, G)
    BY <1>1, <2>4, TreeRecursion
  <2>5. /\ h \in [D \cup {NULL} -> V] /\ h[NULL] = <<>>
        /\ \A m \in D : h[m] = G[<<h[Kid(t, m, "left")], m, h[Kid(t, m, "right")]>>]
    BY <2>9 DEF Recurs
  <2>6. ASSUME NEW m \in D PROVE h[m] = h[t[m].left] \o <<m>> \o h[t[m].right]
    <3>1. h[t[m].left] \in V /\ h[t[m].right] \in V
      BY <1>3, <2>5
    <3>2. h[m] = G[<<h[t[m].left], m, h[t[m].right]>>]
      BY <1>2, <2>5
    <3>. QED
      BY <2>2, <3>1, <3>2
  <2>7. Spells(h, t, D)
    BY <1>1, <2>5, <2>6 DEF Spells
  <2>. QED
    BY <2>7
<1>5. \E h : Heights(h, t, D)
  <2>1. PICK G : G = [p \in Nat \X D \X Nat |-> 1 + Higher(p[1], p[3])]
    OBVIOUS
  <2>2. G \in [Nat \X D \X Nat -> Nat]
    <3>1. \A i, j \in Nat : 1 + Higher(i, j) \in Nat
      BY HigherNat
    <3>. QED
      BY <2>1, <3>1
  <2>9. PICK h : Recurs(h, t, D, Nat, 0, G)
    BY <1>1, <2>2, TreeRecursion
  <2>3. /\ h \in [D \cup {NULL} -> Nat] /\ h[NULL] = 0
        /\ \A m \in D : h[m] = G[<<h[Kid(t, m, "left")], m, h[Kid(t, m, "right")]>>]
    BY <2>9 DEF Recurs
  <2>4. ASSUME NEW m \in D PROVE h[m] = 1 + Higher(h[t[m].left], h[t[m].right])
    <3>1. h[t[m].left] \in Nat /\ h[t[m].right] \in Nat
      BY <1>3, <2>3
    <3>2. h[m] = G[<<h[t[m].left], m, h[t[m].right]>>]
      BY <1>2, <2>3
    <3>. QED
      BY <2>1, <3>1, <3>2
  <2>5. Heights(h, t, D)
    BY <1>1, <2>3, <2>4 DEF Heights
  <2>. QED
    BY <2>5
<1>. QED
  BY <1>4, <1>5

\* What InOrder and Height return at every node of a sound tree.
Measured(h, g, t, R, D, sub) ==
  /\ h[NULL] = <<>> /\ g[NULL] = 0
  /\ \A m \in D : Listing(h[m], R, sub[m]) /\ Len(h[m]) = Cnt(t, m) /\ g[m] = Depth(t, m)

LEMMA TreeMeasured ==
  ASSUME NEW t, NEW R, NEW D, NEW r, NEW sub, SoundTree(t, R, D, r, sub),
         NEW h, Spells(h, t, D), NEW g, Heights(g, t, D)
  PROVE  Measured(h, g, t, R, D, sub)
<1>1. /\ SearchTree(t, R, D, r, sub) /\ D \subseteq Name /\ t \in Trees(D) /\ NULL \notin D /\ StrictOrder(R, D)
      /\ Shape(t, R, D, r, sub) /\ \A m \in D : Sound(t, m)
      /\ "left" \in Sides /\ "right" \in Sides /\ Opp("left") = "right"
  BY DEF SoundTree, SearchTree, Sides, Opp
<1>2. h[NULL] = <<>> /\ g[NULL] = 0
  BY DEF Spells, Heights
<1> DEFINE Fits(m) == Listing(h[m], R, sub[m]) /\ Len(h[m]) = Cnt(t, m) /\ g[m] = Depth(t, m)
           T == {k \in Nat : \A m \in D : Weight(sub, m) = k => Fits(m)}
<1>3. ASSUME NEW k \in Nat, \A j \in 0..(k - 1) : j \in T PROVE k \in T
  <2>1. SUFFICES ASSUME NEW m \in D, Weight(sub, m) = k PROVE Fits(m)
    OBVIOUS
  <2>2. ASSUME NEW e \in Sides, NEW c, c = Kid(t, m, e)
        PROVE  /\ Listing(h[c], R, Part(R, sub[m], m, e))
               /\ Len(h[c]) = Cnt(t, c) /\ g[c] = Depth(t, c)
    <3>1. Sub(sub, c) = Part(R, sub[m], m, e)
      BY <1>1, <2>2 DEF Shape
    <3>2. CASE c = NULL
      <4>1. Part(R, sub[m], m, e) = {}
        BY <3>1, <3>2 DEF Sub
      <4>2. Listing(<<>>, R, {})
        BY DEF Listing
      <4>. QED
        BY <1>2, <3>2, <4>1, <4>2, NullSize
    <3>3. CASE c # NULL
      <4>1. Below(t, R, D, r, sub, m, e, c)
        BY <1>1, <2>2, <3>3, KidBelow
      <4>2. c \in D /\ Weight(sub, c) < k /\ Weight(sub, c) \in Nat /\ sub[c] = Part(R, sub[m], m, e)
        BY <1>1, <2>1, <4>1, SubSize DEF Below
      <4>3. Weight(sub, c) \in T
        BY <1>3, <4>2
      <4>4. Fits(c)
        <5> HIDE DEF Fits
        <5>. QED
          BY <4>2, <4>3
      <4>. QED
        BY <4>2, <4>4
    <3>. QED
      BY <3>2, <3>3
  <2>3. PICK c, o : c = Kid(t, m, "left") /\ o = Kid(t, m, "right")
    OBVIOUS
  <2>4. t[m].left = c /\ t[m].right = o
    BY <1>1, <2>3, NodeType
  <2>5. h[m] = h[c] \o <<m>> \o h[o] /\ g[m] = 1 + Higher(g[c], g[o])
    BY <1>1, <2>4 DEF Spells, Heights
  <2>6. PICK A1, A2 : A1 = Part(R, sub[m], m, "left") /\ A2 = Part(R, sub[m], m, "right")
    OBVIOUS
  <2>7. /\ Listing(h[c], R, A1) /\ Len(h[c]) = Cnt(t, c) /\ g[c] = Depth(t, c)
        /\ Listing(h[o], R, A2) /\ Len(h[o]) = Cnt(t, o) /\ g[o] = Depth(t, o)
    BY <1>1, <2>2, <2>3, <2>6
  <2>8. sub[m] \subseteq D /\ m \in sub[m]
    BY <1>1, SubSize
  <2>9. /\ \A x \in A1 : <<x, m>> \in R /\ x \in D
        /\ \A x \in A2 : <<m, x>> \in R /\ x \in D
    BY <2>6, <2>8 DEF Part, On
  <2>10. \A x \in A1, y \in A2 : <<x, y>> \in R
    BY <1>1, <2>9 DEF StrictOrder
  <2>11. sub[m] = A1 \cup {m} \cup A2
    <3>1. \A x \in sub[m] : x = m \/ <<x, m>> \in R \/ <<m, x>> \in R
      BY <1>1, <2>8 DEF StrictOrder
    <3>2. A1 = {x \in sub[m] : <<x, m>> \in R} /\ A2 = {x \in sub[m] : <<m, x>> \in R}
      BY <2>6 DEF Part, On
    <3>. QED
      BY <2>8, <3>1, <3>2
  <2>12. Listing(h[m], R, sub[m]) /\ Len(h[m]) = Len(h[c]) + 1 + Len(h[o])
    <3>1. PICK s1, s2, S, q : s1 = h[c] /\ s2 = h[o] /\ S = sub[m] /\ q = s1 \o <<m>> \o s2
      OBVIOUS
    <3>2. /\ Listing(s1, R, A1) /\ Listing(s2, R, A2) /\ S = A1 \cup {m} \cup A2
          /\ \A x \in A1 : <<x, m>> \in R
          /\ \A x \in A2 : <<m, x>> \in R
          /\ \A x \in A1, y \in A2 : <<x, y>> \in R
      BY <2>7, <2>9, <2>10, <2>11, <3>1
    <3>3. Listing(s1 \o <<m>> \o s2, R, S) /\ Len(s1 \o <<m>> \o s2) = Len(s1) + 1 + Len(s2)
      BY ONLY <3>2, ListingJoin
    <3>. QED
      BY <2>5, <3>1, <3>3
  <2>13. SoundBy(t, m, "left")
    BY <1>1 DEF Sound
  <2>14. Depth(t, m) = 1 + Higher(Depth(t, c), Depth(t, o)) /\ Cnt(t, m) = 1 + Cnt(t, c) + Cnt(t, o)
    BY <1>1, <2>3, <2>13 DEF SoundBy
  <2>15. Cnt(t, c) \in Nat /\ Cnt(t, o) \in Nat
    <3>1. c \in D \cup {NULL} /\ o \in D \cup {NULL}
      BY <1>1, <2>3 DEF Shape
    <3>. QED
      BY <1>1, <3>1, SizeType
  <2>16. g[m] = Depth(t, m)
    BY <2>5, <2>7, <2>14
  <2>17. Len(h[m]) = Cnt(t, m)
    BY <2>7, <2>12, <2>14, <2>15
  <2>. QED
    BY <2>12, <2>16, <2>17
<1>4. \A k \in Nat : k \in T
  <2> HIDE DEF T
  <2>. QED
    BY <1>3, Induct
<1>5. \A m \in D : Fits(m)
  <2> HIDE DEF Fits
  <2>. QED
    BY <1>1, <1>4, SubSize
<1>. QED
  BY <1>2, <1>5 DEF Measured

-----------------------------------------------------------------------------
(* What a read of the tree gives *)

\* The first i elements of a listing are i elements.
LEMMA ListingCount ==
  ASSUME NEW R, NEW D, StrictOrder(R, D), NEW s, Listing(s, R, D)
  PROVE  /\ \A i \in 0..Len(s) : Cardinality({s[j] : j \in 1..i}) = i
         /\ \A i, j \in 1..Len(s) : <<s[i], s[j]>> \in R <=> i < j
         /\ Cardinality(D) = Len(s)
<1>1. /\ s \in Seq(D) /\ Len(s) \in Nat
      /\ \A x, y \in 1..Len(s) : x < y => <<s[x], s[y]>> \in R
      /\ \A n \in D : \E x \in 1..Len(s) : s[x] = n
      /\ \A x \in 1..Len(s) : s[x] \in D
  BY DEF Listing
<1>2. ASSUME NEW i \in 1..Len(s), NEW j \in 1..Len(s) PROVE <<s[i], s[j]>> \in R <=> i < j
  <2>1. s[i] \in D /\ s[j] \in D /\ (i < j => <<s[i], s[j]>> \in R) /\ (j < i => <<s[j], s[i]>> \in R)
    BY <1>1
  <2>2. i < j \/ i = j \/ j < i
    BY <1>1
  <2>3. ~(i < j /\ (i = j \/ j < i))
    BY <1>1
  <2>. QED
    BY <2>1, <2>2, <2>3 DEF StrictOrder
<1>3. ASSUME NEW i \in 0..Len(s) PROVE Cardinality({s[j] : j \in 1..i}) = i
  <2>1. PICK S : S = {s[j] : j \in 1..i}
    OBVIOUS
  <2>2. PICK f : f = [j \in 1..i |-> s[j]]
    OBVIOUS
  <2>3. \A j \in 1..i : j \in 1..Len(s)
    BY <1>1
  <2>4. ASSUME NEW j \in 1..i, NEW k \in 1..i, s[j] = s[k] PROVE j = k
    <3>1. j \in 1..Len(s) /\ k \in 1..Len(s) /\ <<s[j], s[j]>> \notin R
      BY <1>1, <2>3 DEF StrictOrder
    <3>2. ~(j < k) /\ ~(k < j)
      BY <1>2, <2>4, <3>1
    <3>. QED
      BY <1>1, <3>1, <3>2
  <2>5. f \in Bijection(1..i, S)
    BY <2>1, <2>2, <2>4 DEF Bijection, Injection, Surjection, IsInjective
  <2>6. ExistsBijection(1..i, S) /\ i \in Nat
    BY <1>1, <2>5 DEF ExistsBijection
  <2>. QED
    BY <2>1, <2>6, FS_CountingElements
<1>4. Cardinality(D) = Len(s)
  <2>1. \A n \in D : n \in {s[j] : j \in 1..Len(s)}
    BY <1>1
  <2>2. \A n \in {s[j] : j \in 1..Len(s)} : n \in D
    BY <1>1
  <2>3. D = {s[j] : j \in 1..Len(s)}
    BY <2>1, <2>2
  <2>4. PICK N : N = Len(s)
    OBVIOUS
  <2>5. N \in 0..N /\ Cardinality({s[j] : j \in 1..N}) = N
    BY <1>1, <1>3, <2>4
  <2>. QED
    BY <2>3, <2>4, <2>5
<1>. QED
  BY <1>2, <1>3, <1>4

\* A listing by the tuples is the list that the specification gives.
LEMMA ListingOrdered ==
  ASSUME NEW D, D \subseteq Name, NEW sc, \A y \in D : sc[y] \in Int,
         NEW s, Listing(s, Order(sc), D), NEW m, m = [n \in D |-> sc[n]]
  PROVE  s = Promise!Ordered(m)
<1>0. \A S : Promise!Cardinality(S) = Cardinality(S)
  BY DEF Promise!Cardinality, Cardinality
<1>1. PICK R : R = Order(sc)
  OBVIOUS
<1>2. StrictOrder(R, D) /\ Listing(s, R, D)
  BY <1>1, OrderStrict
<1>3. /\ \A i \in 0..Len(s) : Cardinality({s[j] : j \in 1..i}) = i
      /\ \A i, j \in 1..Len(s) : <<s[i], s[j]>> \in R <=> i < j
      /\ Cardinality(D) = Len(s)
  BY <1>2, ListingCount
<1>4. /\ s \in Seq(D) /\ Len(s) \in Nat
      /\ \A n \in D : \E x \in 1..Len(s) : s[x] = n
      /\ \A x \in 1..Len(s) : s[x] \in D
  <2>1. s \in Seq(D) /\ \A n \in D : \E x \in 1..Len(s) : s[x] = n
    BY ONLY <1>2 DEF Listing
  <2>2. Len(s) \in Nat
    BY ONLY <2>1
  <2>3. \A x \in 1..Len(s) : s[x] \in D
    BY ONLY <2>1
  <2>. QED
    BY <2>1, <2>2, <2>3
<1>5. \A k, n \in D : Promise!Less(m[k], k, m[n], n) <=> <<k, n>> \in R
  <2>1. \A k \in D : m[k] = sc[k] /\ sc[k] \in Int /\ k \in Name /\ k \in Nat
    BY NameAssumption
  <2>. QED
    BY <1>1, <2>1 DEF Promise!Less, Order, Zless
<1>6. DOMAIN m = D
  OBVIOUS
<1>7. ASSUME NEW i \in 1..Len(s)
      PROVE  s[i] = CHOOSE n \in DOMAIN m : Promise!Cardinality({k \in DOMAIN m : Promise!Less(m[k], k, m[n], n)}) = i - 1
  <2> DEFINE C(n) == Promise!Cardinality({k \in DOMAIN m : Promise!Less(m[k], k, m[n], n)})
  <2>1. ASSUME NEW j \in 1..Len(s) PROVE C(s[j]) = j - 1
    <3>1. {k \in D : Promise!Less(m[k], k, m[s[j]], s[j])} = {k \in D : <<k, s[j]>> \in R}
      BY <1>4, <1>5
    <3>2. {k \in D : <<k, s[j]>> \in R} = {s[l] : l \in 1..(j - 1)}
      <4>1. ASSUME NEW k \in D, <<k, s[j]>> \in R PROVE k \in {s[l] : l \in 1..(j - 1)}
        <5>1. PICK x \in 1..Len(s) : s[x] = k
          BY <1>4
        <5>2. x < j
          BY <1>3, <4>1, <5>1
        <5>3. x \in 1..(j - 1)
          BY <1>4, <5>2
        <5>. QED
          BY <5>1, <5>3
      <4>2. ASSUME NEW l \in 1..(j - 1) PROVE s[l] \in D /\ <<s[l], s[j]>> \in R
        <5>1. l \in 1..Len(s) /\ l < j
          BY <1>4
        <5>. QED
          BY <1>3, <1>4, <5>1
      <4>. QED
        BY <4>1, <4>2
    <3>3. j - 1 \in 0..Len(s)
      BY <1>4
    <3>. QED
      BY <1>0, <1>3, <1>6, <3>1, <3>2, <3>3
  <2>2. ASSUME NEW n \in D, C(n) = i - 1 PROVE n = s[i]
    <3>1. PICK j \in 1..Len(s) : s[j] = n
      BY <1>4
    <3>2. C(n) = j - 1
      BY <2>1, <3>1
    <3> HIDE DEF C
    <3>. QED
      BY <1>4, <2>2, <3>1, <3>2
  <2>3. s[i] \in D /\ C(s[i]) = i - 1
    BY <1>4, <2>1
  <2> HIDE DEF C
  <2>4. s[i] = CHOOSE n \in DOMAIN m : C(n) = i - 1
    BY <1>6, <2>2, <2>3
  <2>. QED
    BY <2>4 DEF C
<1>8. s = [i \in 1..Len(s) |-> s[i]]
  BY <1>4
<1>9. Promise!Ordered(m) = [i \in 1..Len(s) |->
         CHOOSE n \in DOMAIN m : Promise!Cardinality({k \in DOMAIN m : Promise!Less(m[k], k, m[n], n)}) = i - 1]
  <2>1. PICK N : N = Len(s)
    OBVIOUS
  <2>2. Promise!Cardinality(DOMAIN m) = N
    BY <1>0, <1>3, <1>6, <2>1
  <2>3. Promise!Ordered(m) = [i \in 1..N |->
         CHOOSE n \in DOMAIN m : Promise!Cardinality({k \in DOMAIN m : Promise!Less(m[k], k, m[n], n)}) = i - 1]
    BY ONLY <2>2 DEF Promise!Ordered
  <2>. QED
    BY <2>1, <2>3
<1>. QED
  BY <1>7, <1>8, <1>9

\* The loops that InOrder and Height stand for, and what they give.
LEMMA TreeRead ==
  ASSUME ZSetInv
  PROVE  \E sub, h, g : /\ SoundTree(tree, Order(score), hmap, root, sub)
                        /\ Measured(h, g, tree, Order(score), hmap, sub)
                        /\ \A n : InOrder(n) = h[n] /\ Height(n) = g[n]
<1>1. PICK f : f = [tree |-> tree, root |-> root]
  OBVIOUS
<1>2. f.tree = tree /\ f.root = root
  BY <1>1
<1>3. PICK R : R = Order(score)
  OBVIOUS
<1>4. hmap \subseteq Name /\ IsFiniteSet(hmap) /\ StrictOrder(R, hmap) /\ Fixed(f, R, hmap, hmap)
  <2>1. \A y \in hmap : score[y] \in Int
    BY NameAssumption DEF ZSetInv
  <2>. QED
    BY <1>1, <1>3, <2>1, OrderStrict DEF ZSetInv
<1>5. PICK sub : SoundTree(tree, R, hmap, root, sub)
  <2>1. \E z : SoundTree(f.tree, R, hmap, f.root, z)
    BY <1>4, FixedSound
  <2>. QED
    BY <1>2, <2>1
<1>6. DOMAIN tree = hmap
  BY <1>2, <1>4 DEF Fixed, Trees
<1>7. PICK h : h = CHOOSE l : Spells(l, tree, DOMAIN tree)
  OBVIOUS
<1>8. PICK g : g = CHOOSE l : Heights(l, tree, DOMAIN tree)
  OBVIOUS
<1>9. Spells(h, tree, DOMAIN tree) /\ Heights(g, tree, DOMAIN tree)
  BY <1>5, <1>6, <1>7, <1>8, ListsExist
<1>10. \A n : InOrder(n) = h[n]
  BY <1>7 DEF InOrder, Spells, Places
<1>11. \A n : Height(n) = g[n]
  BY <1>8 DEF Height, Heights, Places
<1>12. Measured(h, g, tree, R, hmap, sub)
  BY <1>5, <1>6, <1>9, TreeMeasured
<1>. QED
  BY <1>3, <1>5, <1>10, <1>11, <1>12

\* The list of the tree has the names of the table in the order of their tuples.
LEMMA RootLists ==
  ASSUME ZSetInv
  PROVE  Listing(InOrder(root), Order(score), hmap)
<1>1. PICK R : R = Order(score)
  OBVIOUS
<1>2. PICK sub, h, g : /\ SoundTree(tree, R, hmap, root, sub)
                       /\ Measured(h, g, tree, R, hmap, sub)
                       /\ \A n : InOrder(n) = h[n] /\ Height(n) = g[n]
  BY <1>1, TreeRead
<1>3. Shape(tree, R, hmap, root, sub)
  BY <1>2 DEF SoundTree, SearchTree
<1>4. CASE hmap = {}
  <2>1. root = NULL /\ h[root] = <<>>
    BY <1>2, <1>3, <1>4 DEF Shape, Measured
  <2>2. Listing(<<>>, R, {})
    BY DEF Listing
  <2>. QED
    BY <1>1, <1>2, <1>4, <2>1, <2>2
<1>5. CASE hmap # {}
  <2>1. root \in hmap /\ sub[root] = hmap
    BY <1>3, <1>5 DEF Shape
  <2>2. Listing(h[root], R, hmap)
    BY <1>2, <2>1 DEF Measured
  <2>. QED
    BY <1>1, <1>2, <2>2
<1>. QED
  BY <1>4, <1>5

LEMMA Inv_InOrderSorted == ZSetInv => InOrderSorted
<1> SUFFICES ASSUME ZSetInv PROVE InOrderSorted
  OBVIOUS
<1>1. PICK s, m : s = InOrder(root) /\ m = [n \in hmap |-> score[n]]
  OBVIOUS
<1>2. Listing(s, Order(score), hmap)
  BY <1>1, RootLists
<1>3. hmap \subseteq Name /\ \A y \in hmap : score[y] \in Int
  BY NameAssumption DEF ZSetInv
<1>4. s = Promise!Ordered(m)
  BY <1>1, <1>2, <1>3, ListingOrdered
<1>. QED
  BY <1>1, <1>4 DEF InOrderSorted

LEMMA Inv_TreeShape == ZSetInv => TreeShape
<1> SUFFICES ASSUME ZSetInv PROVE TreeShape
  OBVIOUS
<1>1. PICK R : R = Order(score)
  OBVIOUS
<1>2. PICK sub, h, g : /\ SoundTree(tree, R, hmap, root, sub)
                       /\ Measured(h, g, tree, R, hmap, sub)
                       /\ \A n : InOrder(n) = h[n] /\ Height(n) = g[n]
  BY <1>1, TreeRead
<1>3. /\ hmap \subseteq Name /\ tree \in Trees(hmap) /\ NULL \notin hmap
      /\ Shape(tree, R, hmap, root, sub) /\ \A n \in hmap : Sound(tree, n)
      /\ "left" \in Sides /\ Opp("left") = "right"
  BY <1>2 DEF SoundTree, SearchTree, Sides, Opp
<1>4. \A n \in hmap \cup {NULL} : Height(n) = Depth(tree, n) /\ Depth(tree, n) \in Nat
  <2>1. \A n \in hmap : g[n] = Depth(tree, n)
    BY <1>2 DEF Measured
  <2>2. g[NULL] = 0
    BY <1>2 DEF Measured
  <2>. QED
    BY <1>2, <1>3, <2>1, <2>2, SizeType
<1>5. ASSUME NEW n \in hmap
      PROVE  /\ Height(tree[n].left) - Height(tree[n].right) \in -1..1
             /\ tree[n].depth = Height(n)
             /\ tree[n].cnt = Len(InOrder(n))
  <2>1. /\ Kid(tree, n, "left") = tree[n].left /\ Kid(tree, n, "right") = tree[n].right
        /\ Depth(tree, n) = tree[n].depth /\ Cnt(tree, n) = tree[n].cnt
    BY <1>3, NodeType
  <2>2. tree[n].left \in hmap \cup {NULL} /\ tree[n].right \in hmap \cup {NULL}
    BY <1>3, <2>1 DEF Shape, Sides
  <2>3. SoundBy(tree, n, "left")
    BY <1>3 DEF Sound
  <2>4. Close(Depth(tree, tree[n].left), Depth(tree, tree[n].right))
    BY <1>3, <2>1, <2>3 DEF SoundBy
  <2>5. Height(tree[n].left) - Height(tree[n].right) \in -1..1
    BY <1>4, <2>2, <2>4 DEF Close
  <2>6. Len(InOrder(n)) = Cnt(tree, n)
    BY <1>2 DEF Measured
  <2>. QED
    BY <1>4, <2>1, <2>5, <2>6
<1>6. Balanced
  BY <1>5 DEF Balanced
<1>7. ParentLinks
  <2>1. root # NULL => tree[root].parent = NULL
    BY <1>3, NodeType DEF Shape
  <2>2. ASSUME NEW n \in hmap, NEW d \in {"left", "right"}, tree[n][d] # NULL
        PROVE  tree[tree[n][d]].parent = n
    <3>1. d \in Sides /\ Kid(tree, n, d) = tree[n][d]
      BY DEF Sides, Kid
    <3>2. Par(tree, Kid(tree, n, d)) = n
      BY <1>3, <2>2, <3>1 DEF Shape
    <3>. QED
      BY <3>1, <3>2 DEF Par
  <2>. QED
    BY <2>1, <2>2 DEF ParentLinks
<1>. QED
  BY <1>6, <1>7 DEF TreeShape

\* The tree of the sorted set lists the names of the hash table, each once, by
\* score and then by name, after any calls (zset_add, zset_update, zset_pop).
THEOREM SortedByTuple == ZSetSpec => []InOrderSorted
  BY ZSetInvariant, Inv_InOrderSorted, PTL

\* avl_fix, avl_del and avl_offset's fields: after any calls the tree is
\* balanced, depth and cnt are those of the subtrees, and the parent links
\* mirror the child links.
THEOREM ShapeKept == ZSetSpec => []TreeShape
  BY ZSetInvariant, Inv_TreeShape, PTL

-----------------------------------------------------------------------------
(* The refinement *)

\* the map that the tree stands for
Shown == [n \in ToSet(InOrder(root)) |-> score[n]]

LEMMA Inv_Shown == ZSetInv => Shown = score /\ DOMAIN score = hmap
<1> SUFFICES ASSUME ZSetInv PROVE Shown = score /\ DOMAIN score = hmap
  OBVIOUS
<1>1. PICK s : s = InOrder(root)
  OBVIOUS
<1>2. Listing(s, Order(score), hmap)
  BY <1>1, RootLists
<1>3. ToSet(s) = hmap
  <2>1. s \in Seq(hmap) /\ DOMAIN s = 1..Len(s) /\ \A n \in hmap : \E x \in 1..Len(s) : s[x] = n
    BY <1>2 DEF Listing
  <2>2. \A x \in 1..Len(s) : s[x] \in hmap
    BY <2>1
  <2>3. ToSet(s) = {s[x] : x \in 1..Len(s)}
    BY <2>1 DEF ToSet
  <2>4. \A n : n \in ToSet(s) <=> n \in hmap
    BY ONLY <2>1, <2>2, <2>3
  <2>. QED
    BY <2>4
<1>4. DOMAIN score = hmap /\ score = [n \in hmap |-> score[n]]
  BY DEF ZSetInv
<1>. QED
  BY <1>1, <1>3, <1>4 DEF Shown

Reads == Shown = score /\ DOMAIN score = hmap

LEMMA Init_Promise == ZSetInit => Promise!SSInit
<1> SUFFICES ASSUME ZSetInit PROVE Promise!SSInit
  OBVIOUS
<1>1. ZSetInv
  BY ZSetInit_Inv
<1>2. Shown = score
  BY <1>1, Inv_Shown
<1>3. score = [n \in {} |-> 0] /\ changed = FALSE
  BY DEF ZSetInit
<1>4. score = <<>>
  BY <1>3
<1>. QED
  BY <1>2, <1>3, <1>4 DEF Promise!SSInit, Shown

LEMMA Pop_Promise ==
  ASSUME ZSetInv, Reads, Reads', NEW n \in Name, ZSetPop(n)
  PROVE  Promise!SSPop(n)
<1>1. DOMAIN score = hmap /\ score = [y \in hmap |-> score[y]]
  BY DEF ZSetInv
<1>2. CASE ~Has(n)
  <2>1. n \notin hmap
    BY <1>2, HasName
  <2>2. score' = score /\ changed' = FALSE
    BY <1>2 DEF ZSetPop
  <2>3. score' = Restrict(score, DOMAIN score \ {n})
    BY <1>1, <2>1, <2>2 DEF Restrict
  <2>4. Shown' = Restrict(Shown, DOMAIN Shown \ {n}) /\ changed' = (n \in DOMAIN Shown)
    <3>1. Shown = score /\ Shown' = score' /\ DOMAIN score = hmap
      BY DEF Reads
    <3>2. Shown' = Restrict(Shown, DOMAIN Shown \ {n})
      BY ONLY <2>3, <3>1
    <3>3. changed' = (n \in DOMAIN Shown)
      <4>1. (n \in DOMAIN Shown) = FALSE
        BY ONLY <2>1, <3>1
      <4>. QED
        BY ONLY <2>2, <4>1
    <3>. QED
      BY <3>2, <3>3
  <2>. QED
    BY <2>4 DEF Promise!SSPop, Shown, Promise!Restrict, Restrict
<1>3. CASE Has(n)
  <2>1. n \in hmap
    BY <1>3, HasName
  <2>2. score' = Restrict(score, DOMAIN score \ {n}) /\ changed' = TRUE
    BY <1>3 DEF ZSetPop
  <2>3. Shown' = Restrict(Shown, DOMAIN Shown \ {n}) /\ changed' = (n \in DOMAIN Shown)
    BY <1>1, <2>1, <2>2 DEF Reads
  <2>. QED
    BY <2>3 DEF Promise!SSPop, Shown, Promise!Restrict, Restrict
<1>. QED
  BY <1>2, <1>3

LEMMA Add_Promise ==
  ASSUME ZSetInv, Reads, Reads', NEW n \in Name, NEW s \in Scores, ZSetAdd(n, s)
  PROVE  Promise!SSAdd(n, s)
<1>1. DOMAIN score = hmap /\ score = [y \in hmap |-> score[y]]
  BY DEF ZSetInv
<1>2. score' = Put(score, n, s) /\ changed' = (n \notin hmap)
  <2>1. CASE Has(n)
    <3>1. n \in hmap /\ changed' = FALSE
      BY <2>1, HasName DEF ZSetAdd
    <3>2. CASE score[n] = s
      <4>1. score' = score
        BY <2>1, <3>2 DEF ZSetAdd, ZSetUpdate
      <4>2. score = Put(score, n, s)
        BY <1>1, <3>1, <3>2 DEF Put
      <4>. QED
        BY <3>1, <4>1, <4>2
    <3>3. CASE score[n] # s
      BY <2>1, <3>1, <3>3 DEF ZSetAdd, ZSetUpdate
    <3>. QED
      BY <3>2, <3>3
  <2>2. CASE ~Has(n)
    BY <2>2, HasName DEF ZSetAdd
  <2>. QED
    BY <2>1, <2>2
<1>3. /\ Shown' = [m \in DOMAIN Shown \cup {n} |-> IF m = n THEN s ELSE Shown[m]]
      /\ changed' = (n \notin DOMAIN Shown)
  BY <1>1, <1>2 DEF Reads, Put
<1>. QED
  BY <1>3 DEF Promise!SSAdd, Shown

LEMMA Next_Promise ==
  ASSUME ZSetInv, Reads, Reads', [ZSetNext]_zsetVars
  PROVE  [Promise!SSNext]_(Promise!ssVars)
<1>1. CASE UNCHANGED zsetVars
  <2>1. score' = score /\ changed' = changed
    BY <1>1 DEF zsetVars
  <2>2. Shown' = Shown
    BY <2>1 DEF Reads
  <2>. QED
    BY <2>1, <2>2 DEF Promise!ssVars, Shown
<1>2. ASSUME NEW n \in Name, ZSetPop(n) PROVE Promise!SSNext
  BY <1>2, Pop_Promise DEF Promise!SSNext
<1>3. ASSUME NEW n \in Name, NEW s \in Scores, ZSetAdd(n, s) PROVE Promise!SSNext
  BY <1>3, Add_Promise DEF Promise!SSNext
<1>. QED
  BY <1>1, <1>2, <1>3 DEF ZSetNext

\* zadd, zadd of another score and zrem are the steps of a map from names to
\* scores, whatever rotations, substitutions and reinsertions they take.
THEOREM SortedSetImplemented == ZSetSpec => ImplementsSortedSet
<1>1. ZSetInv => Reads
  BY Inv_Shown DEF Reads
<1>2. ZSetInv /\ Reads /\ Reads' /\ [ZSetNext]_zsetVars => [Promise!SSNext]_(Promise!ssVars)
  BY Next_Promise
<1>. QED
  BY <1>1, <1>2, ZSetInvariant, Init_Promise, PTL DEF ZSetSpec, ImplementsSortedSet, Promise!SSSpec

-----------------------------------------------------------------------------
(* The queries: places in the order *)

\* rk is the place of each node in the listing q.
Placing(q, rk, R, D) ==
  /\ q \in Seq(D) /\ Len(q) \in Nat
  /\ rk \in [D -> 1..Len(q)]
  /\ \A x \in D : q[rk[x]] = x
  /\ \A i \in 1..Len(q) : q[i] \in D /\ rk[q[i]] = i
  /\ \A x, y \in D : <<x, y>> \in R <=> rk[x] < rk[y]

LEMMA PlacingExists ==
  ASSUME NEW R, NEW D, StrictOrder(R, D), NEW q, Listing(q, R, D)
  PROVE  \E rk : Placing(q, rk, R, D)
<1>1. /\ q \in Seq(D) /\ Len(q) \in Nat
      /\ \A n \in D : \E x \in 1..Len(q) : q[x] = n
      /\ \A x \in 1..Len(q) : q[x] \in D
  BY DEF Listing
<1>2. \A i, j \in 1..Len(q) : <<q[i], q[j]>> \in R <=> i < j
  BY ListingCount
<1>3. PICK rk : rk = [x \in D |-> CHOOSE i \in 1..Len(q) : q[i] = x]
  OBVIOUS
<1>4. ASSUME NEW x \in D PROVE rk[x] \in 1..Len(q) /\ q[rk[x]] = x
  BY <1>1, <1>3
<1>5. rk \in [D -> 1..Len(q)]
  BY <1>3, <1>4
<1>6. \A x, y \in D : <<x, y>> \in R <=> rk[x] < rk[y]
  <2>1. ASSUME NEW x \in D, NEW y \in D PROVE <<x, y>> \in R <=> rk[x] < rk[y]
    <3>1. PICK i, j : i = rk[x] /\ j = rk[y]
      OBVIOUS
    <3>2. i \in 1..Len(q) /\ j \in 1..Len(q) /\ q[i] = x /\ q[j] = y
      BY <1>4, <3>1
    <3>. QED
      BY <1>2, <3>1, <3>2
  <2>. QED
    BY <2>1
<1>7. ASSUME NEW i \in 1..Len(q) PROVE q[i] \in D /\ rk[q[i]] = i
  <2>1. PICK x : x = q[i]
    OBVIOUS
  <2>2. PICK j : j = rk[x]
    OBVIOUS
  <2>3. x \in D /\ j \in 1..Len(q) /\ q[j] = x
    BY <1>1, <1>4, <2>1, <2>2
  <2>4. ~(i < j) /\ ~(j < i)
    <3>1. <<x, x>> \notin R
      BY <2>3 DEF StrictOrder
    <3>. QED
      BY <1>2, <2>1, <2>3, <3>1
  <2>. QED
    BY <1>1, <2>1, <2>2, <2>3, <2>4
<1>. QED
  BY <1>1, <1>4, <1>5, <1>6, <1>7 DEF Placing

\* A set of numbers that reaches up to k - 1, or down to k + 1, without a gap.
LEMMA UpClosed ==
  ASSUME NEW k \in Nat, NEW I, I \subseteq 1..(k - 1), \A i \in I : \A j \in i..(k - 1) : j \in I
  PROVE  Cardinality(I) \in Nat /\ k - Cardinality(I) >= (IF k = 0 THEN 0 ELSE 1) /\ I = (k - Cardinality(I))..(k - 1)
<1>1. CASE I = {}
  BY <1>1, FS_EmptySet
<1>2. CASE I # {}
  <2> DEFINE T == {j \in Nat : j \notin I}
  <2>1. PICK i \in I : \A j \in I : i <= j
    <3>1. SUFFICES ASSUME \A i \in I : \E j \in I : j < i PROVE FALSE
      <4>1. \A i, j \in I : ~(j < i) => i <= j
        OBVIOUS
      <4>. QED
        BY <4>1
    <3>2. ASSUME NEW j \in Nat, \A i \in 0..(j - 1) : i \in T PROVE j \in T
      <4>1. SUFFICES ASSUME j \in I PROVE FALSE
        OBVIOUS
      <4>2. PICK i \in I : i < j
        BY <3>1, <4>1
      <4>3. i \in 0..(j - 1)
        BY <4>2
      <4>. QED
        BY <3>2, <4>3
    <3>3. \A j \in Nat : j \in T
      <4> HIDE DEF T
      <4>. QED
        BY <3>2, Induct
    <3>4. PICK i : i \in I
      BY <1>2
    <3>5. i \in Nat
      BY <3>4
    <3>6. i \in T
      <4> HIDE DEF T
      <4>. QED
        BY <3>3, <3>5
    <3>. QED
      BY <3>4, <3>6
  <2>2. i \in 1..(k - 1) /\ i \in Int /\ k - 1 \in Int
    BY <2>1
  <2>3. I = i..(k - 1)
    <3>1. \A j \in I : j \in i..(k - 1)
      BY <2>1, <2>2
    <3>. QED
      BY <3>1
  <2>4. Cardinality(I) = (k - 1) - i + 1
    BY <2>2, <2>3, FS_Interval
  <2>. QED
    BY <2>2, <2>3, <2>4
<1>. QED
  BY <1>1, <1>2

LEMMA DownClosed ==
  ASSUME NEW k \in Nat, NEW N \in Nat, k <= N, NEW I, I \subseteq (k + 1)..N,
         \A i \in I : \A j \in (k + 1)..i : j \in I
  PROVE  Cardinality(I) \in Nat /\ k + Cardinality(I) <= N /\ I = (k + 1)..(k + Cardinality(I))
<1>1. PICK J : J = {j \in 1..(N - k) : N + 1 - j \in I}
  OBVIOUS
<1>2. PICK p : p = N - k + 1
  OBVIOUS
<1>3. p \in Nat /\ p # 0 /\ J \subseteq 1..(p - 1)
  BY <1>1, <1>2
<1>4. ASSUME NEW i \in J, NEW j \in i..(p - 1) PROVE j \in J
  <2>1. i \in Int /\ N + 1 - i \in I /\ j \in 1..(N - k)
    BY <1>1, <1>2, <1>3
  <2>2. N + 1 - j \in (k + 1)..(N + 1 - i)
    BY <1>2, <2>1
  <2>. QED
    BY <1>1, <2>1, <2>2
<1>5. Cardinality(J) \in Nat /\ p - Cardinality(J) >= 1 /\ J = (p - Cardinality(J))..(p - 1)
  BY <1>3, <1>4, UpClosed
<1>6. PICK c : c = Cardinality(J)
  OBVIOUS
<1>7. c \in Nat /\ c <= N - k /\ J = (N - k + 1 - c)..(N - k)
  BY <1>2, <1>5, <1>6
<1>8. \A i \in I : i \in (k + 1)..(k + c)
  <2>1. ASSUME NEW i \in I PROVE i \in (k + 1)..(k + c)
    <3>1. i \in (k + 1)..N /\ N + 1 - i \in 1..(N - k) /\ N + 1 - (N + 1 - i) = i
      OBVIOUS
    <3>2. N + 1 - i \in J
      BY <1>1, <3>1
    <3>. QED
      BY <1>7, <3>1, <3>2
  <2>. QED
    BY <2>1
<1>9. \A i \in (k + 1)..(k + c) : i \in I
  <2>1. ASSUME NEW i \in (k + 1)..(k + c) PROVE i \in I
    <3>1. N + 1 - i \in J /\ N + 1 - (N + 1 - i) = i
      BY <1>7
    <3>. QED
      BY <1>1, <3>1
  <2>. QED
    BY <2>1
<1>10. I = (k + 1)..(k + c)
  BY <1>8, <1>9
<1>11. Cardinality(I) = c
  <2>1. PICK i, j : i = k + 1 /\ j = k + c
    OBVIOUS
  <2>2. i \in Int /\ j \in Int
    BY <1>7, <2>1
  <2>3. Cardinality(i..j) = IF i > j THEN 0 ELSE j - i + 1
    BY ONLY <2>2, FS_Interval
  <2>4. (IF i > j THEN 0 ELSE j - i + 1) = c
    BY <1>7, <2>1
  <2>. QED
    BY <1>10, <2>1, <2>3, <2>4
<1>. QED
  BY <1>7, <1>10, <1>11

\* As many places as nodes.
LEMMA PlaceCount ==
  ASSUME NEW q, NEW rk, NEW R, NEW D, Placing(q, rk, R, D), NEW A, A \subseteq D,
         NEW I, I = {i \in 1..Len(q) : q[i] \in A}
  PROVE  Cardinality(I) = Cardinality(A)
<1>1. /\ Len(q) \in Nat /\ rk \in [D -> 1..Len(q)] /\ \A x \in D : q[rk[x]] = x
      /\ \A i \in 1..Len(q) : q[i] \in D /\ rk[q[i]] = i
  BY DEF Placing
<1>2. PICK f : f = [i \in I |-> q[i]]
  OBVIOUS
<1>3. f \in [I -> A]
  BY <1>2
<1>4. \A i, j \in I : f[i] = f[j] => i = j
  BY <1>1, <1>2
<1>5. \A x \in A : \E i \in I : f[i] = x
  <2>1. ASSUME NEW x \in A PROVE rk[x] \in I /\ f[rk[x]] = x
    <3>1. rk[x] \in 1..Len(q) /\ q[rk[x]] = x
      BY <1>1
    <3>. QED
      BY <1>2, <3>1
  <2>. QED
    BY <2>1
<1>6. f \in Bijection(I, A)
  BY <1>3, <1>4, <1>5 DEF Bijection, Injection, Surjection, IsInjective
<1>7. ExistsBijection(I, A)
  BY <1>6 DEF ExistsBijection
<1>8. IsFiniteSet(I)
  <2>1. IsFiniteSet(1..Len(q))
    BY <1>1, FS_Interval
  <2>2. I \subseteq 1..Len(q)
    OBVIOUS
  <2>. QED
    BY <2>1, <2>2, FS_Subset
<1>. QED
  BY <1>7, <1>8, FS_Bijection

\* cnt is the number of nodes of the subtree.
LEMMA CntIsSize ==
  ASSUME NEW t, NEW R, NEW D, NEW r, NEW sub, SoundTree(t, R, D, r, sub)
  PROVE  \A c \in D \cup {NULL} : Cnt(t, c) = Cardinality(Sub(sub, c)) /\ Cnt(t, c) \in Nat
<1>1. SearchTree(t, R, D, r, sub) /\ D \subseteq Name /\ t \in Trees(D) /\ NULL \notin D /\ StrictOrder(R, D)
  BY DEF SoundTree, SearchTree
<1>2. PICK h, g : Spells(h, t, D) /\ Heights(g, t, D)
  BY ListsExist
<1>3. Measured(h, g, t, R, D, sub)
  BY <1>2, TreeMeasured
<1>4. ASSUME NEW m \in D PROVE Cnt(t, m) = Cardinality(sub[m])
  <2>1. PICK s, A : s = h[m] /\ A = sub[m]
    OBVIOUS
  <2>2. Listing(s, R, A) /\ Len(s) = Cnt(t, m)
    BY <1>3, <2>1 DEF Measured
  <2>3. A \subseteq D
    BY <1>1, <2>1, SubSize
  <2>4. StrictOrder(R, A)
    BY <1>1, <2>3 DEF StrictOrder
  <2>. QED
    BY <2>1, <2>2, <2>4, ListingCount
<1>5. \A c \in D \cup {NULL} : Cnt(t, c) \in Nat
  BY <1>1, SizeType
<1>6. \A m \in D : Sub(sub, m) = sub[m]
  BY <1>1 DEF Sub
<1>7. Sub(sub, NULL) = {} /\ Cnt(t, NULL) = 0
  BY DEF Sub, Cnt
<1>. QED
  BY <1>4, <1>5, <1>6, <1>7, FS_EmptySet

\* The subtree of m has the places from Low to High.
Low(t, rk, m) == rk[m] - Cnt(t, Kid(t, m, "left"))

High(t, rk, m) == rk[m] + Cnt(t, Kid(t, m, "right"))

Span(t, sub, q, rk, m) ==
  /\ rk[m] \in 1..Len(q)
  /\ Low(t, rk, m) \in 1..rk[m] /\ High(t, rk, m) \in rk[m]..Len(q)
  /\ \A i \in 1..Len(q) : q[i] \in sub[m] <=> Low(t, rk, m) <= i /\ i <= High(t, rk, m)

LEMMA SpanOf ==
  ASSUME NEW t, NEW R, NEW D, NEW r, NEW sub, SoundTree(t, R, D, r, sub),
         NEW q, NEW rk, Placing(q, rk, R, D), NEW m \in D
  PROVE  Span(t, sub, q, rk, m)
<1>1. /\ SearchTree(t, R, D, r, sub) /\ StrictOrder(R, D) /\ Shape(t, R, D, r, sub)
      /\ "left" \in Sides /\ "right" \in Sides
  BY DEF SoundTree, SearchTree, Sides
<1>2. PICK N : N = Len(q)
  OBVIOUS
<1>3. /\ N \in Nat /\ \A x \in D : q[rk[x]] = x /\ rk[x] \in 1..N
      /\ \A i \in 1..N : q[i] \in D /\ rk[q[i]] = i
      /\ \A x, y \in D : <<x, y>> \in R <=> rk[x] < rk[y]
  BY <1>2 DEF Placing
<1>4. PICK k : k = rk[m]
  OBVIOUS
<1>5. k \in 1..N /\ q[k] = m /\ k \in Nat
  BY <1>3, <1>4
<1>6. PICK A, A1, A2 : A = sub[m] /\ A1 = Part(R, A, m, "left") /\ A2 = Part(R, A, m, "right")
  OBVIOUS
<1>7. PICK l, u : l = Cnt(t, Kid(t, m, "left")) /\ u = Cnt(t, Kid(t, m, "right"))
  OBVIOUS
<1>8. A \subseteq D /\ m \in A
  BY <1>1, <1>6, SubSize
<1>9. /\ A1 = {x \in A : <<x, m>> \in R} /\ A2 = {x \in A : <<m, x>> \in R}
      /\ A1 \subseteq D /\ A2 \subseteq D
  BY <1>6, <1>8 DEF Part, On
<1>10. l = Cardinality(A1) /\ u = Cardinality(A2) /\ l \in Nat /\ u \in Nat
  <2>1. Sub(sub, Kid(t, m, "left")) = A1 /\ Sub(sub, Kid(t, m, "right")) = A2
    BY <1>1, <1>6 DEF Shape
  <2>2. Kid(t, m, "left") \in D \cup {NULL} /\ Kid(t, m, "right") \in D \cup {NULL}
    BY <1>1 DEF Shape
  <2>. QED
    BY <1>7, <2>1, <2>2, CntIsSize
<1>11. ASSUME NEW i \in 1..N, NEW j \in 1..N, q[i] \in A, (i <= j /\ j <= k) \/ (k <= j /\ j <= i)
       PROVE  q[j] \in A
  <2>1. SUFFICES ASSUME q[j] \notin A PROVE FALSE
    OBVIOUS
  <2>2. PICK x, y : x = q[i] /\ y = q[j]
    OBVIOUS
  <2>3. x \in A /\ x \in D /\ y \in D /\ y \notin A /\ rk[x] = i /\ rk[y] = j /\ i # j /\ j # k
    BY <1>3, <1>4, <1>5, <1>8, <1>11, <2>1, <2>2
  <2>4. On(R, m, y, "left") <=> On(R, x, y, "left")
    BY <1>1, <1>6, <2>3, Convex
  <2>5. <<m, y>> \in R <=> <<x, y>> \in R
    BY <2>4 DEF On
  <2>6. k < j <=> i < j
    BY <1>3, <1>4, <2>3, <2>5
  <2>. QED
    BY <1>5, <1>11, <2>3, <2>6
<1>12. PICK I1, I2 : I1 = {i \in 1..Len(q) : q[i] \in A1} /\ I2 = {i \in 1..Len(q) : q[i] \in A2}
  OBVIOUS
<1>13. Cardinality(I1) = l /\ Cardinality(I2) = u
  <2>1. I1 = {i \in 1..Len(q) : q[i] \in A1} /\ I2 = {i \in 1..Len(q) : q[i] \in A2} /\ A1 \subseteq D /\ A2 \subseteq D
    BY <1>9, <1>12
  <2>2. Cardinality(I1) = Cardinality(A1)
    BY <2>1, PlaceCount
  <2>3. Cardinality(I2) = Cardinality(A2)
    BY <2>1, PlaceCount
  <2>. QED
    BY <1>10, <2>2, <2>3
<1>14. I1 \subseteq 1..N /\ I2 \subseteq 1..N
  BY <1>2, <1>12
<1>15. \A i \in 1..N : /\ i \in I1 <=> q[i] \in A /\ i < k
                       /\ i \in I2 <=> q[i] \in A /\ k < i
  BY <1>2, <1>3, <1>4, <1>9, <1>12
<1>16. k - l >= 1 /\ I1 = (k - l)..(k - 1)
  <2>1. I1 \subseteq 1..(k - 1)
    BY <1>2, <1>3, <1>5, <1>12, <1>15
  <2>2. ASSUME NEW i \in I1, NEW j \in i..(k - 1) PROVE j \in I1
    <3>1. i \in 1..N /\ q[i] \in A /\ i < k
      BY <1>15, <1>14
    <3>2. j \in 1..N /\ i <= j /\ j <= k /\ j < k
      BY <1>3, <1>5, <3>1
    <3>3. q[j] \in A
      BY <1>11, <3>1, <3>2
    <3>. QED
      BY <1>15, <3>2, <3>3
  <2>3. PICK c : c = Cardinality(I1)
    OBVIOUS
  <2>4. c \in Nat /\ k - c >= (IF k = 0 THEN 0 ELSE 1) /\ I1 = (k - c)..(k - 1)
    BY <1>5, <2>1, <2>2, <2>3, UpClosed
  <2>. QED
    BY <1>5, <1>13, <2>3, <2>4
<1>17. k + u <= N /\ I2 = (k + 1)..(k + u)
  <2>1. I2 \subseteq (k + 1)..N
    BY <1>2, <1>3, <1>5, <1>12, <1>15
  <2>2. ASSUME NEW i \in I2, NEW j \in (k + 1)..i PROVE j \in I2
    <3>1. i \in 1..N /\ q[i] \in A /\ k < i
      BY <1>15, <1>14
    <3>2. j \in 1..N /\ j <= i /\ k <= j /\ k < j
      BY <1>3, <1>5, <3>1
    <3>3. q[j] \in A
      BY <1>11, <3>1, <3>2
    <3>. QED
      BY <1>15, <3>2, <3>3
  <2>3. PICK c : c = Cardinality(I2)
    OBVIOUS
  <2>4. k <= N
    BY <1>3, <1>5
  <2>5. c \in Nat /\ k + c <= N /\ I2 = (k + 1)..(k + c)
    BY <1>3, <1>5, <2>1, <2>2, <2>3, <2>4, DownClosed
  <2>. QED
    BY <1>13, <2>3, <2>5
<1>18. ASSUME NEW i \in 1..N PROVE q[i] \in A <=> k - l <= i /\ i <= k + u
  <2>1. CASE i < k
    BY <1>5, <1>10, <1>15, <1>16, <2>1
  <2>2. CASE i = k
    BY <1>5, <1>8, <1>10, <2>2
  <2>3. CASE k < i
    BY <1>5, <1>10, <1>15, <1>17, <2>3
  <2>. QED
    BY <1>5, <2>1, <2>2, <2>3
<1>19. Low(t, rk, m) = k - l /\ High(t, rk, m) = k + u
  BY <1>4, <1>7 DEF Low, High
<1>20. k - l \in 1..k /\ k + u \in k..N
  BY <1>5, <1>10, <1>16, <1>17
<1>. QED
  BY <1>2, <1>4, <1>5, <1>6, <1>18, <1>19, <1>20 DEF Span

LEMMA RightSpan ==
  ASSUME NEW t, NEW R, NEW D, NEW r, NEW sub, SoundTree(t, R, D, r, sub),
         NEW q, NEW rk, Placing(q, rk, R, D), NEW m \in D, NEW c, c = Kid(t, m, "right"), c # NULL
  PROVE  /\ c \in D /\ Weight(sub, c) < Weight(sub, m) /\ Par(t, c) = m
         /\ Low(t, rk, c) = rk[m] + 1 /\ High(t, rk, c) = High(t, rk, m)
<1>1. SearchTree(t, R, D, r, sub) /\ "right" \in Sides
  BY DEF SoundTree, Sides
<1>2. Below(t, R, D, r, sub, m, "right", c)
  BY <1>1, KidBelow
<1>3. c \in D /\ Weight(sub, c) < Weight(sub, m) /\ Par(t, c) = m /\ c \in sub[m] /\ sub[c] = Part(R, sub[m], m, "right")
  BY <1>2 DEF Below
<1>4. PICK N, k, j : N = Len(q) /\ k = rk[m] /\ j = rk[c]
  OBVIOUS
<1>5. PICK l, u, l2, u2 : /\ l = Low(t, rk, m) /\ u = High(t, rk, m)
                          /\ l2 = Low(t, rk, c) /\ u2 = High(t, rk, c)
  OBVIOUS
<1>6. /\ N \in Nat /\ k \in 1..N /\ l \in 1..k /\ u \in k..N
      /\ \A i \in 1..N : q[i] \in sub[m] <=> l <= i /\ i <= u
  <2>1. N \in Nat
    BY <1>4 DEF Placing
  <2>2. Span(t, sub, q, rk, m)
    BY SpanOf
  <2>. QED
    BY <1>4, <1>5, <2>1, <2>2 DEF Span
<1>7. /\ j \in 1..N /\ l2 \in 1..j /\ u2 \in j..N
      /\ \A i \in 1..N : q[i] \in sub[c] <=> l2 <= i /\ i <= u2
  BY <1>3, <1>4, <1>5, SpanOf DEF Span
<1>8. ASSUME NEW i \in 1..N PROVE q[i] \in sub[c] <=> k < i /\ i <= u
  <2>1. q[i] \in sub[c] <=> q[i] \in sub[m] /\ <<m, q[i]>> \in R
    BY <1>3 DEF Part, On
  <2>2. q[i] \in D /\ rk[q[i]] = i
    BY <1>4 DEF Placing
  <2>3. <<m, q[i]>> \in R <=> k < i
    BY <1>4, <2>2 DEF Placing
  <2>. QED
    BY <1>6, <2>1, <2>3
<1>9. \A i \in 1..N : (k < i /\ i <= u) <=> (l2 <= i /\ i <= u2)
  BY <1>7, <1>8
<1>10. l2 = k + 1 /\ u2 = u
  <2>1. l2 \in 1..N /\ l2 <= u2 /\ u2 \in 1..N
    BY <1>6, <1>7
  <2>2. k < l2 /\ u2 <= u
    BY <1>6, <1>9, <2>1
  <2>3. k + 1 \in 1..N /\ k + 1 <= u /\ u \in 1..N /\ k < u
    BY <1>6, <1>9, <2>1, <2>2
  <2>4. l2 <= k + 1 /\ u <= u2
    BY <1>6, <1>9, <2>3
  <2>. QED
    BY <1>6, <1>7, <2>2, <2>4
<1>. QED
  BY <1>3, <1>4, <1>5, <1>10

LEMMA LeftSpan ==
  ASSUME NEW t, NEW R, NEW D, NEW r, NEW sub, SoundTree(t, R, D, r, sub),
         NEW q, NEW rk, Placing(q, rk, R, D), NEW m \in D, NEW c, c = Kid(t, m, "left"), c # NULL
  PROVE  /\ c \in D /\ Weight(sub, c) < Weight(sub, m) /\ Par(t, c) = m
         /\ High(t, rk, c) = rk[m] - 1 /\ Low(t, rk, c) = Low(t, rk, m)
<1>1. SearchTree(t, R, D, r, sub) /\ "left" \in Sides
  BY DEF SoundTree, Sides
<1>2. Below(t, R, D, r, sub, m, "left", c)
  BY <1>1, KidBelow
<1>3. c \in D /\ Weight(sub, c) < Weight(sub, m) /\ Par(t, c) = m /\ c \in sub[m] /\ sub[c] = Part(R, sub[m], m, "left")
  BY <1>2 DEF Below
<1>4. PICK N, k, j : N = Len(q) /\ k = rk[m] /\ j = rk[c]
  OBVIOUS
<1>5. PICK l, u, l2, u2 : /\ l = Low(t, rk, m) /\ u = High(t, rk, m)
                          /\ l2 = Low(t, rk, c) /\ u2 = High(t, rk, c)
  OBVIOUS
<1>6. /\ N \in Nat /\ k \in 1..N /\ l \in 1..k /\ u \in k..N
      /\ \A i \in 1..N : q[i] \in sub[m] <=> l <= i /\ i <= u
  <2>1. N \in Nat
    BY <1>4 DEF Placing
  <2>2. Span(t, sub, q, rk, m)
    BY SpanOf
  <2>. QED
    BY <1>4, <1>5, <2>1, <2>2 DEF Span
<1>7. /\ j \in 1..N /\ l2 \in 1..j /\ u2 \in j..N
      /\ \A i \in 1..N : q[i] \in sub[c] <=> l2 <= i /\ i <= u2
  BY <1>3, <1>4, <1>5, SpanOf DEF Span
<1>8. ASSUME NEW i \in 1..N PROVE q[i] \in sub[c] <=> i < k /\ l <= i
  <2>1. q[i] \in sub[c] <=> q[i] \in sub[m] /\ <<q[i], m>> \in R
    BY <1>3 DEF Part, On
  <2>2. q[i] \in D /\ rk[q[i]] = i
    BY <1>4 DEF Placing
  <2>3. <<q[i], m>> \in R <=> i < k
    BY <1>4, <2>2 DEF Placing
  <2>. QED
    BY <1>6, <2>1, <2>3
<1>9. \A i \in 1..N : (i < k /\ l <= i) <=> (l2 <= i /\ i <= u2)
  BY <1>7, <1>8
<1>10. u2 = k - 1 /\ l2 = l
  <2>1. l2 \in 1..N /\ l2 <= u2 /\ u2 \in 1..N
    BY <1>6, <1>7
  <2>2. u2 < k /\ l <= l2
    BY <1>6, <1>9, <2>1
  <2>3. k - 1 \in 1..N /\ l <= k - 1 /\ l \in 1..N /\ l < k
    BY <1>6, <1>9, <2>1, <2>2
  <2>4. k - 1 <= u2 /\ l2 <= l
    BY <1>6, <1>9, <2>3
  <2>. QED
    BY <1>6, <1>7, <2>2, <2>4
<1>. QED
  BY <1>3, <1>4, <1>5, <1>10

LEMMA RootSpan ==
  ASSUME NEW t, NEW R, NEW D, NEW r, NEW sub, SoundTree(t, R, D, r, sub),
         NEW q, NEW rk, Placing(q, rk, R, D), D # {}
  PROVE  r \in D /\ Low(t, rk, r) = 1 /\ High(t, rk, r) = Len(q) /\ Par(t, r) = NULL
<1>1. r \in D /\ sub[r] = D /\ Par(t, r) = NULL
  BY DEF SoundTree, SearchTree, Shape
<1>2. PICK N, k, l, u : N = Len(q) /\ k = rk[r] /\ l = Low(t, rk, r) /\ u = High(t, rk, r)
  OBVIOUS
<1>3. /\ N \in Nat /\ k \in 1..N /\ l \in 1..k /\ u \in k..N
      /\ \A i \in 1..N : q[i] \in sub[r] <=> l <= i /\ i <= u
  <2>1. N \in Nat
    BY <1>2 DEF Placing
  <2>2. Span(t, sub, q, rk, r)
    BY <1>1, SpanOf
  <2>. QED
    BY <1>2, <2>1, <2>2 DEF Span
<1>4. \A i \in 1..N : l <= i /\ i <= u
  BY <1>1, <1>2, <1>3 DEF Placing
<1>5. l <= 1 /\ N <= u
  BY <1>3, <1>4
<1>. QED
  BY <1>1, <1>2, <1>3, <1>5

\* A node without parent is the root, and another one is a child of its parent.
LEMMA UpOf ==
  ASSUME NEW t, NEW R, NEW D, NEW r, NEW sub, SoundTree(t, R, D, r, sub), NEW m \in D
  PROVE  /\ Par(t, m) = NULL => m = r
         /\ Par(t, m) # NULL => Par(t, m) \in D /\ \E d \in Sides : Kid(t, Par(t, m), d) = m
<1>1. Shape(t, R, D, r, sub) /\ NULL \notin D
  BY DEF SoundTree, SearchTree
<1>2. ASSUME m # r PROVE Par(t, m) # NULL
  BY <1>1, <1>2 DEF Shape
<1>3. ASSUME Par(t, m) # NULL PROVE m # r
  BY <1>1, <1>3 DEF Shape
<1>4. ASSUME m # r PROVE Par(t, m) \in D /\ \E d \in Sides : Kid(t, Par(t, m), d) = m
  BY <1>1, <1>4 DEF Shape
<1>. QED
  BY <1>2, <1>3, <1>4

-----------------------------------------------------------------------------
(* avl_offset *)

\* One round of its loop, and the loop.
SeekStep(f, t, offset, m, pos) ==
  IF offset = pos THEN m
  ELSE IF pos < offset /\ pos + Cnt(t, t[m].right) >= offset
       THEN f[<<t[m].right, pos + Cnt(t, t[t[m].right].left) + 1>>]
  ELSE IF pos > offset /\ pos - Cnt(t, t[m].left) <= offset
       THEN f[<<t[m].left, pos - (Cnt(t, t[t[m].left].right) + 1)>>]
  ELSE IF t[m].parent = NULL THEN NULL
  ELSE IF t[t[m].parent].right = m THEN f[<<t[m].parent, pos - (Cnt(t, t[m].left) + 1)>>]
  ELSE f[<<t[m].parent, pos + Cnt(t, t[m].right) + 1>>]

Seeks(f, t, offset) ==
  f = [at \in (DOMAIN t) \X Int |-> SeekStep(f, t, offset, at[1], at[2])]

\* How far the loop is at m from the node at place T: it climbs until the
\* subtree has the place, and then descends.
Away(t, sub, rk, D, T, m) ==
  IF Low(t, rk, m) <= T /\ T <= High(t, rk, m) THEN Weight(sub, m)
  ELSE 2 * Cardinality(D) + 1 - Weight(sub, m)

\* A round goes from m and pos to c and p, for the same place.
Moves(t, sub, rk, D, offset, m, pos, c, p) ==
  /\ c \in D /\ p \in Int
  /\ \A f : SeekStep(f, t, offset, m, pos) = f[<<c, p>>]
  /\ rk[c] + offset - p = rk[m] + offset - pos
  /\ Away(t, sub, rk, D, rk[m] + offset - pos, c) < Away(t, sub, rk, D, rk[m] + offset - pos, m)

\* The loop is over at m.
Stays(t, q, rk, offset, m, pos) ==
  \/ (\A f : SeekStep(f, t, offset, m, pos) = m) /\ offset = pos
  \/ (\A f : SeekStep(f, t, offset, m, pos) = NULL) /\ rk[m] + offset - pos \notin 1..Len(q)

LEMMA SeekMoves ==
  ASSUME NEW t, NEW R, NEW D, NEW r, NEW sub, SoundTree(t, R, D, r, sub),
         NEW q, NEW rk, Placing(q, rk, R, D), NEW offset \in Int, NEW m \in D, NEW pos \in Int
  PROVE  /\ Away(t, sub, rk, D, rk[m] + offset - pos, m) \in Nat
         /\ \/ Stays(t, q, rk, offset, m, pos)
            \/ \E c, p : Moves(t, sub, rk, D, offset, m, pos, c, p)
<1>1. /\ SearchTree(t, R, D, r, sub) /\ D \subseteq Name /\ t \in Trees(D) /\ NULL \notin D
      /\ Shape(t, R, D, r, sub) /\ Cardinality(D) \in Nat
  BY FS_CardinalityType DEF SoundTree, SearchTree
<1>2. PICK C, N, k, T, w : C = Cardinality(D) /\ N = Len(q) /\ k = rk[m] /\ T = k + offset - pos /\ w = Weight(sub, m)
  OBVIOUS
<1>3. PICK l, u : l = Low(t, rk, m) /\ u = High(t, rk, m)
  OBVIOUS
<1>4. PICK x, y, p : x = Kid(t, m, "left") /\ y = Kid(t, m, "right") /\ p = Par(t, m)
  OBVIOUS
<1>5. t[m].left = x /\ t[m].right = y /\ t[m].parent = p
  BY <1>1, <1>4, NodeType
<1>6. x \in D \cup {NULL} /\ y \in D \cup {NULL}
  BY <1>1, <1>4 DEF Shape, Sides
<1>7. PICK cl, cr : cl = Cnt(t, x) /\ cr = Cnt(t, y)
  OBVIOUS
<1>8. cl \in Nat /\ cr \in Nat /\ Cnt(t, NULL) = 0
  BY <1>1, <1>6, <1>7, SizeType
<1>9. l = k - cl /\ u = k + cr
  BY <1>2, <1>3, <1>4, <1>7 DEF Low, High
<1>10. N \in Nat /\ k \in 1..N /\ l \in 1..k /\ u \in k..N
  <2>1. N \in Nat
    BY <1>2 DEF Placing
  <2>2. Span(t, sub, q, rk, m)
    BY SpanOf
  <2>. QED
    BY <1>2, <1>3, <2>1, <2>2 DEF Span
<1>11. T \in Int /\ C \in Nat /\ w \in Nat /\ w > 0 /\ w <= C
  BY <1>1, <1>2, <1>10, SubSize
<1>12. Away(t, sub, rk, D, T, m) = IF l <= T /\ T <= u THEN w ELSE 2 * C + 1 - w
  BY <1>2, <1>3 DEF Away
<1>13. CASE offset = pos
  <2>1. \A f : SeekStep(f, t, offset, m, pos) = m
    BY <1>13 DEF SeekStep
  <2>. QED
    BY <1>2, <1>11, <1>12, <1>13, <2>1 DEF Stays
<1>14. CASE pos < offset /\ pos + cr >= offset
  <2>1. y # NULL /\ l <= T /\ T <= u /\ k + 1 <= T /\ offset # pos
    <3>1. y # NULL
      <4>1. cr # 0
        BY <1>8, <1>14
      <4>. QED
        BY <1>7, <1>8, <4>1
    <3>2. T = k + offset - pos
      BY <1>2
    <3>. QED
      BY ONLY <1>8, <1>9, <1>10, <1>14, <3>1, <3>2, offset \in Int, pos \in Int
  <2>2. /\ y \in D /\ Weight(sub, y) < w
        /\ Low(t, rk, y) = k + 1 /\ High(t, rk, y) = u
    BY <1>2, <1>3, <1>4, <2>1, RightSpan
  <2>3. PICK z : z = Cnt(t, t[y].left)
    OBVIOUS
  <2>4. Kid(t, y, "left") = t[y].left
    BY <1>1, <2>2, NodeType
  <2>5. z \in Nat /\ rk[y] = k + 1 + z
    <3>1. Kid(t, y, "left") \in D \cup {NULL}
      BY <1>1, <2>2 DEF Shape, Sides
    <3>2. z \in Nat
      BY <1>1, <2>3, <2>4, <3>1, SizeType
    <3>3. rk[y] \in Nat
      <4>1. Span(t, sub, q, rk, y)
        BY <2>2, SpanOf
      <4>. QED
        BY <4>1 DEF Span
    <3>4. rk[y] - z = k + 1
      BY <2>2, <2>3, <2>4 DEF Low
    <3>5. PICK j : j = rk[y]
      OBVIOUS
    <3>. QED
      BY <1>10, <3>2, <3>3, <3>4, <3>5
  <2>6. \A f : SeekStep(f, t, offset, m, pos) = f[<<y, pos + z + 1>>]
    BY <1>5, <1>7, <1>14, <2>1, <2>3 DEF SeekStep
  <2>7. Away(t, sub, rk, D, T, y) = Weight(sub, y)
    BY <2>1, <2>2 DEF Away
  <2>8. Away(t, sub, rk, D, T, m) = w
    BY <1>12, <2>1
  <2>9. pos + z + 1 \in Int /\ rk[y] + offset - (pos + z + 1) = k + offset - pos
    BY <1>10, <2>5
  <2>10. Moves(t, sub, rk, D, offset, m, pos, y, pos + z + 1)
    BY <1>2, <2>2, <2>6, <2>7, <2>8, <2>9 DEF Moves
  <2>. QED
    BY <1>2, <1>11, <2>8, <2>10
<1>15. CASE pos > offset /\ pos - cl <= offset
  <2>1. x # NULL /\ l <= T /\ T <= u /\ T <= k - 1 /\ ~(pos < offset) /\ offset # pos
    <3>1. x # NULL
      <4>1. cl # 0
        BY <1>8, <1>15
      <4>. QED
        BY <1>7, <1>8, <4>1
    <3>2. T = k + offset - pos
      BY <1>2
    <3>. QED
      BY ONLY <1>8, <1>9, <1>10, <1>15, <3>1, <3>2, offset \in Int, pos \in Int
  <2>2. /\ x \in D /\ Weight(sub, x) < w
        /\ High(t, rk, x) = k - 1 /\ Low(t, rk, x) = l
    BY <1>2, <1>3, <1>4, <2>1, LeftSpan
  <2>3. PICK z : z = Cnt(t, t[x].right)
    OBVIOUS
  <2>4. Kid(t, x, "right") = t[x].right
    BY <1>1, <2>2, NodeType
  <2>5. z \in Nat /\ rk[x] = k - 1 - z
    <3>1. Kid(t, x, "right") \in D \cup {NULL}
      BY <1>1, <2>2 DEF Shape, Sides
    <3>2. z \in Nat
      BY <1>1, <2>3, <2>4, <3>1, SizeType
    <3>3. rk[x] \in Nat
      <4>1. Span(t, sub, q, rk, x)
        BY <2>2, SpanOf
      <4>. QED
        BY <4>1 DEF Span
    <3>4. rk[x] + z = k - 1
      BY <2>2, <2>3, <2>4 DEF High
    <3>. QED
      BY <1>10, <3>2, <3>3, <3>4
  <2>6. \A f : SeekStep(f, t, offset, m, pos) = f[<<x, pos - (z + 1)>>]
    BY <1>5, <1>7, <1>15, <2>1, <2>3 DEF SeekStep
  <2>7. Away(t, sub, rk, D, T, x) = Weight(sub, x)
    BY <2>1, <2>2 DEF Away
  <2>8. Away(t, sub, rk, D, T, m) = w
    BY <1>12, <2>1
  <2>9. pos - (z + 1) \in Int /\ rk[x] + offset - (pos - (z + 1)) = k + offset - pos
    BY <1>10, <2>5
  <2>10. Moves(t, sub, rk, D, offset, m, pos, x, pos - (z + 1))
    BY <1>2, <2>2, <2>6, <2>7, <2>8, <2>9 DEF Moves
  <2>. QED
    BY <1>2, <1>11, <2>8, <2>10
<1>16. CASE /\ offset # pos
            /\ ~(pos < offset /\ pos + cr >= offset)
            /\ ~(pos > offset /\ pos - cl <= offset)
  <2>1. ~(l <= T /\ T <= u)
    <3>1. T = k + offset - pos
      BY <1>2
    <3>. QED
      BY ONLY <1>8, <1>9, <1>10, <1>16, <3>1, offset \in Int, pos \in Int
  <2>2. Away(t, sub, rk, D, T, m) = 2 * C + 1 - w /\ 2 * C + 1 - w \in Nat
    BY <1>11, <1>12, <2>1
  <2>3. CASE p = NULL
    <3>1. m = r
      <4>1. Par(t, m) = NULL
        BY <1>4, <2>3
      <4>. QED
        BY ONLY <4>1, SoundTree(t, R, D, r, sub), m \in D, UpOf
    <3>2. l = 1 /\ u = N
      <4>1. D # {}
        OBVIOUS
      <4>2. Low(t, rk, r) = 1 /\ High(t, rk, r) = Len(q)
        BY ONLY <4>1, SoundTree(t, R, D, r, sub), Placing(q, rk, R, D), RootSpan
      <4>. QED
        BY <1>2, <1>3, <3>1, <4>2
    <3>3. T \notin 1..N
      BY <1>11, <2>1, <3>2
    <3>4. \A f : SeekStep(f, t, offset, m, pos) = NULL
      BY <1>5, <1>7, <1>16, <2>3 DEF SeekStep
    <3>. QED
      BY <1>2, <2>2, <3>3, <3>4 DEF Stays
  <2>4. CASE p # NULL
    <3>1. p \in D /\ \E d \in Sides : Kid(t, p, d) = m
      BY <1>4, <2>4, UpOf
    <3>2. Kid(t, p, "right") = t[p].right /\ Kid(t, p, "left") = t[p].left
      BY <1>1, <3>1, NodeType
    <3>3. m # NULL
      BY <1>1
    <3>4. Weight(sub, p) \in Nat /\ Weight(sub, p) <= C /\ rk[p] \in Nat
      <4>1. Span(t, sub, q, rk, p)
        BY <3>1, SpanOf
      <4>. QED
        BY <1>1, <1>2, <3>1, <4>1, SubSize DEF Span
    <3>5. ASSUME w < Weight(sub, p) PROVE Away(t, sub, rk, D, T, p) < Away(t, sub, rk, D, T, m)
      <4>1. PICK v : v = Weight(sub, p)
        OBVIOUS
      <4>2. Away(t, sub, rk, D, T, p) = v \/ Away(t, sub, rk, D, T, p) = 2 * C + 1 - v
        BY <1>2, <4>1 DEF Away
      <4>. QED
        BY <1>11, <2>2, <3>4, <3>5, <4>1, <4>2
    <3>6. CASE t[p].right = m
      <4>1. Kid(t, p, "right") = m
        BY <3>2, <3>6
      <4>2. w < Weight(sub, p) /\ l = rk[p] + 1
        <5>1. p \in D
          BY <3>1
        <5>2. Weight(sub, m) < Weight(sub, p) /\ Low(t, rk, m) = rk[p] + 1
          BY ONLY <3>3, <4>1, <5>1, SoundTree(t, R, D, r, sub), Placing(q, rk, R, D), RightSpan
        <5>. QED
          BY <1>2, <1>3, <5>2
      <4>3. \A f : SeekStep(f, t, offset, m, pos) = f[<<p, pos - (cl + 1)>>]
        BY <1>5, <1>7, <1>16, <2>4, <3>6 DEF SeekStep
      <4>4. pos - (cl + 1) \in Int /\ rk[p] + offset - (pos - (cl + 1)) = k + offset - pos
        BY <1>8, <1>9, <1>10, <3>4, <4>2
      <4>5. Moves(t, sub, rk, D, offset, m, pos, p, pos - (cl + 1))
        BY <1>2, <3>1, <3>5, <4>2, <4>3, <4>4 DEF Moves
      <4>. QED
        BY <1>2, <2>2, <4>5
    <3>7. CASE t[p].right # m
      <4>1. Kid(t, p, "left") = m
        BY <3>1, <3>2, <3>7 DEF Sides
      <4>2. w < Weight(sub, p) /\ u = rk[p] - 1
        <5>1. p \in D
          BY <3>1
        <5>2. Weight(sub, m) < Weight(sub, p) /\ High(t, rk, m) = rk[p] - 1
          BY ONLY <3>3, <4>1, <5>1, SoundTree(t, R, D, r, sub), Placing(q, rk, R, D), LeftSpan
        <5>. QED
          BY <1>2, <1>3, <5>2
      <4>3. \A f : SeekStep(f, t, offset, m, pos) = f[<<p, pos + cr + 1>>]
        BY <1>5, <1>7, <1>16, <2>4, <3>7 DEF SeekStep
      <4>4. pos + cr + 1 \in Int /\ rk[p] + offset - (pos + cr + 1) = k + offset - pos
        BY <1>8, <1>9, <1>10, <3>4, <4>2
      <4>5. Moves(t, sub, rk, D, offset, m, pos, p, pos + cr + 1)
        BY <1>2, <3>1, <3>5, <4>2, <4>3, <4>4 DEF Moves
      <4>. QED
        BY <1>2, <2>2, <4>5
    <3>. QED
      BY <3>6, <3>7
  <2>. QED
    BY <2>3, <2>4
<1>. QED
  BY <1>13, <1>14, <1>15, <1>16

\* The node that the loop looks for, if there is one.
Sought(q, rk, offset, m, pos) ==
  IF rk[m] + offset - pos \in 1..Len(q) THEN q[rk[m] + offset - pos] ELSE NULL

LEMMA SeekOver ==
  ASSUME NEW t, NEW R, NEW D, NEW q, NEW rk, Placing(q, rk, R, D), NEW offset \in Int, NEW m \in D,
         NEW pos \in Int, Stays(t, q, rk, offset, m, pos), NEW f
  PROVE  SeekStep(f, t, offset, m, pos) = Sought(q, rk, offset, m, pos)
<1>1. CASE (\A g : SeekStep(g, t, offset, m, pos) = m) /\ offset = pos
  <2>1. PICK k : k = rk[m]
    OBVIOUS
  <2>2. k \in 1..Len(q) /\ q[k] = m /\ Len(q) \in Nat
    BY <2>1 DEF Placing
  <2>3. k + offset - pos = k
    BY <1>1, <2>2
  <2>4. Sought(q, rk, offset, m, pos) = m
    BY <2>1, <2>2, <2>3 DEF Sought
  <2>. QED
    BY <1>1, <2>4
<1>2. CASE (\A g : SeekStep(g, t, offset, m, pos) = NULL) /\ rk[m] + offset - pos \notin 1..Len(q)
  BY <1>2 DEF Sought
<1>. QED
  BY <1>1, <1>2 DEF Stays

LEMMA SeeksExist ==
  ASSUME NEW t, NEW R, NEW D, NEW r, NEW sub, SoundTree(t, R, D, r, sub),
         NEW q, NEW rk, Placing(q, rk, R, D), NEW offset \in Int
  PROVE  \E f : Seeks(f, t, offset)
<1>1. DOMAIN t = D
  BY DEF SoundTree, Trees
<1>2. PICK g : g = [at \in D \X Int |-> Sought(q, rk, offset, at[1], at[2])]
  OBVIOUS
<1>3. \A m \in D, pos \in Int : g[<<m, pos>>] = Sought(q, rk, offset, m, pos)
  BY <1>2
<1>4. ASSUME NEW m \in D, NEW pos \in Int
      PROVE  SeekStep(g, t, offset, m, pos) = Sought(q, rk, offset, m, pos)
  <2>1. CASE Stays(t, q, rk, offset, m, pos)
    BY <2>1, SeekOver
  <2>2. CASE \E c, p : Moves(t, sub, rk, D, offset, m, pos, c, p)
    <3>1. PICK c, p : Moves(t, sub, rk, D, offset, m, pos, c, p)
      BY <2>2
    <3>2. c \in D /\ p \in Int /\ SeekStep(g, t, offset, m, pos) = g[<<c, p>>] /\ rk[c] + offset - p = rk[m] + offset - pos
      BY <3>1 DEF Moves
    <3>3. g[<<c, p>>] = Sought(q, rk, offset, c, p)
      BY <1>3, <3>2
    <3>. QED
      BY <3>2, <3>3 DEF Sought
  <2>. QED
    BY <2>1, <2>2, SeekMoves
<1>5. g = [at \in D \X Int |-> SeekStep(g, t, offset, at[1], at[2])]
  BY <1>2, <1>4
<1>. QED
  BY <1>1, <1>5 DEF Seeks

LEMMA SeekGives ==
  ASSUME NEW t, NEW R, NEW D, NEW r, NEW sub, SoundTree(t, R, D, r, sub),
         NEW q, NEW rk, Placing(q, rk, R, D), NEW offset \in Int, NEW f, Seeks(f, t, offset)
  PROVE  \A m \in D, pos \in Int : f[<<m, pos>>] = Sought(q, rk, offset, m, pos)
<1>1. DOMAIN t = D
  BY DEF SoundTree, Trees
<1>2. \A m \in D, pos \in Int : f[<<m, pos>>] = SeekStep(f, t, offset, m, pos)
  <2>1. \A at \in D \X Int : f[at] = SeekStep(f, t, offset, at[1], at[2])
    <3>1. PICK g : g = [at \in D \X Int |-> SeekStep(f, t, offset, at[1], at[2])]
      OBVIOUS
    <3>2. \A at \in D \X Int : g[at] = SeekStep(f, t, offset, at[1], at[2])
      BY <3>1
    <3>3. f = g
      BY <1>1, <3>1 DEF Seeks
    <3>. QED
      BY <3>2, <3>3
  <2>2. ASSUME NEW m \in D, NEW pos \in Int PROVE f[<<m, pos>>] = SeekStep(f, t, offset, m, pos)
    <3>1. PICK at : at = <<m, pos>>
      OBVIOUS
    <3>2. at \in D \X Int /\ at[1] = m /\ at[2] = pos
      BY <3>1
    <3>. QED
      BY <2>1, <3>1, <3>2
  <2>. QED
    BY <2>2
<1> DEFINE Far(m, pos) == Away(t, sub, rk, D, rk[m] + offset - pos, m)
           T == {k \in Nat : \A m \in D, pos \in Int : Far(m, pos) = k => f[<<m, pos>>] = Sought(q, rk, offset, m, pos)}
<1>3. \A m \in D, pos \in Int : Far(m, pos) \in Nat
  BY SeekMoves
<1>4. ASSUME NEW k \in Nat, \A j \in 0..(k - 1) : j \in T PROVE k \in T
  <2>1. SUFFICES ASSUME NEW m \in D, NEW pos \in Int, Far(m, pos) = k
                 PROVE  f[<<m, pos>>] = Sought(q, rk, offset, m, pos)
    OBVIOUS
  <2>2. CASE Stays(t, q, rk, offset, m, pos)
    <3>1. SeekStep(f, t, offset, m, pos) = Sought(q, rk, offset, m, pos)
      BY <2>2, SeekOver
    <3>. QED
      BY <1>2, <3>1
  <2>3. CASE \E c, p : Moves(t, sub, rk, D, offset, m, pos, c, p)
    <3>1. PICK c, p : Moves(t, sub, rk, D, offset, m, pos, c, p)
      BY <2>3
    <3>2. c \in D /\ p \in Int /\ SeekStep(f, t, offset, m, pos) = f[<<c, p>>] /\ rk[c] + offset - p = rk[m] + offset - pos
      BY <3>1 DEF Moves
    <3>3. Far(c, p) < k
      BY <2>1, <3>1, <3>2 DEF Moves
    <3>4. Far(c, p) \in 0..(k - 1)
      <4> HIDE DEF Far
      <4>1. Far(c, p) \in Nat
        BY <1>3, <3>2
      <4>. QED
        BY <3>3, <4>1
    <3>5. f[<<c, p>>] = Sought(q, rk, offset, c, p)
      <4>1. Far(c, p) \in T
        BY <1>4, <3>4
      <4> HIDE DEF Far
      <4>. QED
        BY <3>2, <4>1
    <3>6. Sought(q, rk, offset, c, p) = Sought(q, rk, offset, m, pos)
      BY <3>2 DEF Sought
    <3>. QED
      BY <1>2, <3>2, <3>5, <3>6
  <2>. QED
    BY <2>2, <2>3, SeekMoves
<1>5. \A k \in Nat : k \in T
  <2> HIDE DEF T
  <2>. QED
    BY <1>4, Induct
<1>. QED
  <2> HIDE DEF Far
  <2>. QED
    BY <1>3, <1>5

\* avl_offset from a node gives the one that many places away.
LEMMA OffsetGives ==
  ASSUME NEW t, NEW R, NEW D, NEW r, NEW sub, SoundTree(t, R, D, r, sub),
         NEW q, NEW rk, Placing(q, rk, R, D), NEW offset \in Int, NEW m \in D
  PROVE  AvlOffset(t, m, offset) = IF rk[m] + offset \in 1..Len(q) THEN q[rk[m] + offset] ELSE NULL
<1>1. PICK f : f = CHOOSE g : Seeks(g, t, offset)
  OBVIOUS
<1>2. Seeks(f, t, offset)
  BY <1>1, SeeksExist
<1>3. AvlOffset(t, m, offset) = f[<<m, 0>>]
  BY <1>1 DEF AvlOffset, Seeks, SeekStep
<1>4. f[<<m, 0>>] = Sought(q, rk, offset, m, 0)
  BY <1>2, SeekGives
<1>5. rk[m] + offset - 0 = rk[m] + offset
  <2>1. PICK k : k = rk[m]
    OBVIOUS
  <2>2. k \in 1..Len(q)
    BY <2>1 DEF Placing
  <2>. QED
    BY <2>1, <2>2
<1>. QED
  BY <1>3, <1>4, <1>5 DEF Sought

-----------------------------------------------------------------------------
(* zset_query's walk *)

\* The tree, its listing and the places in it.
Served(sub, q, rk) ==
  SoundTree(tree, Order(score), hmap, root, sub) /\ Placing(q, rk, Order(score), hmap)

\* The first low nodes are those below the tuple (s, n).
Cuts(q, s, n, low) ==
  low \in 0..Len(q) /\ \A i \in 1..Len(q) : Zless(score, q[i], s, n) <=> i <= low

BoundStep(f, s, n, cur, found) ==
  IF cur = NULL THEN found
  ELSE IF Zless(score, cur, s, n) THEN f[<<tree[cur].right, found>>]
  ELSE f[<<tree[cur].left, cur>>]

Bounds(f, s, n) == f = [at \in Places \X Places |-> BoundStep(f, s, n, at[1], at[2])]

\* What the walk finds under cur: the first node there that is not below.
Bounded(q, rk, low, cur, found) ==
  IF cur = NULL THEN found
  ELSE IF High(tree, rk, cur) <= low THEN found
  ELSE q[IF Low(tree, rk, cur) > low THEN Low(tree, rk, cur) ELSE low + 1]

\* The walks of the subtrees of m return what they should.
Under(f, sub, q, rk, low, m) ==
  /\ \A found : f[<<NULL, found>>] = Bounded(q, rk, low, NULL, found) \/ found \notin Places
  /\ \A c \in hmap, found \in Places :
       Weight(sub, c) < Weight(sub, m) => f[<<c, found>>] = Bounded(q, rk, low, c, found)

LEMMA BoundStepGives ==
  ASSUME NEW sub, NEW q, NEW rk, Served(sub, q, rk), NEW s, NEW n, NEW low, Cuts(q, s, n, low),
         NEW m \in hmap, NEW found \in Places, NEW f, Under(f, sub, q, rk, low, m)
  PROVE  BoundStep(f, s, n, m, found) = Bounded(q, rk, low, m, found)
<1>1. PICK R : R = Order(score)
  OBVIOUS
<1>2. /\ SoundTree(tree, R, hmap, root, sub) /\ Placing(q, rk, R, hmap)
      /\ tree \in Trees(hmap) /\ hmap \subseteq Name /\ NULL \notin hmap /\ DOMAIN tree = hmap
      /\ Shape(tree, R, hmap, root, sub) /\ "left" \in Sides /\ "right" \in Sides
  BY <1>1 DEF Served, SoundTree, SearchTree, Sides, Trees
<1>3. PICK N, k, l, u : N = Len(q) /\ k = rk[m] /\ l = Low(tree, rk, m) /\ u = High(tree, rk, m)
  OBVIOUS
<1>4. N \in Nat /\ k \in 1..N /\ l \in 1..k /\ u \in k..N /\ q[k] = m
  <2>1. N \in Nat /\ q[k] = m
    BY <1>2, <1>3 DEF Placing
  <2>2. Span(tree, sub, q, rk, m)
    BY <1>2, SpanOf
  <2>. QED
    BY <1>3, <2>1, <2>2 DEF Span
<1>5. low \in 0..N /\ (Zless(score, m, s, n) <=> k <= low)
  BY <1>3, <1>4 DEF Cuts
<1>6. PICK x, y : x = Kid(tree, m, "left") /\ y = Kid(tree, m, "right")
  OBVIOUS
<1>7. /\ tree[m].left = x /\ tree[m].right = y /\ m # NULL /\ m \in Places
      /\ x \in hmap \cup {NULL} /\ y \in hmap \cup {NULL} /\ Places = hmap \cup {NULL}
  <2>1. tree[m].left = x /\ tree[m].right = y
    BY <1>2, <1>6, NodeType
  <2>. QED
    BY <1>2, <1>6, <2>1 DEF Shape, Places
<1>8. Bounded(q, rk, low, m, found) = IF u <= low THEN found ELSE q[IF l > low THEN l ELSE low + 1]
  BY <1>3, <1>7 DEF Bounded
<1>9. CASE k <= low
  <2>1. BoundStep(f, s, n, m, found) = f[<<y, found>>]
    BY <1>5, <1>7, <1>9 DEF BoundStep
  <2>2. CASE y = NULL
    <3>1. f[<<y, found>>] = found
      BY <1>7, <2>2 DEF Under, Bounded
    <3>2. u = k
      <4>1. Cnt(tree, NULL) = 0
        BY DEF Cnt
      <4>. QED
        BY <1>3, <1>4, <1>6, <2>2, <4>1 DEF High
    <3>. QED
      BY <1>4, <1>5, <1>8, <1>9, <2>1, <3>1, <3>2
  <2>3. CASE y # NULL
    <3>1. y \in hmap /\ Weight(sub, y) < Weight(sub, m) /\ Low(tree, rk, y) = k + 1 /\ High(tree, rk, y) = u
      BY <1>2, <1>3, <1>6, <2>3, RightSpan
    <3>2. f[<<y, found>>] = Bounded(q, rk, low, y, found)
      BY <3>1 DEF Under
    <3>3. Bounded(q, rk, low, y, found) = IF u <= low THEN found ELSE q[IF k + 1 > low THEN k + 1 ELSE low + 1]
      BY <2>3, <3>1 DEF Bounded
    <3>4. ~(l > low)
      BY <1>4, <1>5, <1>9
    <3>5. k + 1 > low => k + 1 = low + 1
      BY <1>4, <1>5, <1>9
    <3>. QED
      BY <1>8, <2>1, <3>2, <3>3, <3>4, <3>5
  <2>. QED
    BY <2>2, <2>3
<1>10. CASE ~(k <= low)
  <2>1. BoundStep(f, s, n, m, found) = f[<<x, m>>]
    BY <1>5, <1>7, <1>10 DEF BoundStep
  <2>2. ~(u <= low)
    BY <1>4, <1>5, <1>10
  <2>3. CASE x = NULL
    <3>1. f[<<x, m>>] = m
      BY <1>7, <2>3 DEF Under, Bounded
    <3>2. l = k
      <4>1. Cnt(tree, NULL) = 0
        BY DEF Cnt
      <4>. QED
        BY <1>3, <1>4, <1>6, <2>3, <4>1 DEF Low
    <3>3. l > low
      BY <1>4, <1>5, <1>10, <3>2
    <3>. QED
      BY <1>4, <1>8, <2>1, <2>2, <3>1, <3>2, <3>3
  <2>4. CASE x # NULL
    <3>1. x \in hmap /\ Weight(sub, x) < Weight(sub, m) /\ High(tree, rk, x) = k - 1 /\ Low(tree, rk, x) = l
      BY <1>2, <1>3, <1>6, <2>4, LeftSpan
    <3>2. f[<<x, m>>] = Bounded(q, rk, low, x, m)
      BY <1>7, <3>1 DEF Under
    <3>3. Bounded(q, rk, low, x, m) = IF k - 1 <= low THEN m ELSE q[IF l > low THEN l ELSE low + 1]
      BY <2>4, <3>1 DEF Bounded
    <3>4. CASE k - 1 <= low
      <4>1. k = low + 1
        BY <1>4, <1>5, <1>10, <3>4
      <4>2. Span(tree, sub, q, rk, x)
        BY <1>2, <3>1, SpanOf
      <4>3. l <= k - 1
        BY <3>1, <4>2 DEF Span
      <4>4. ~(l > low)
        BY <1>4, <1>5, <4>1, <4>3
      <4>. QED
        BY <1>4, <1>8, <2>1, <2>2, <3>2, <3>3, <3>4, <4>1, <4>4
    <3>5. CASE ~(k - 1 <= low)
      BY <1>8, <2>1, <2>2, <3>2, <3>3, <3>5
    <3>. QED
      BY <3>4, <3>5
  <2>. QED
    BY <2>3, <2>4
<1>. QED
  BY <1>9, <1>10

\* The walk is defined, and finds that node under every node.
LEMMA BoundsGive ==
  ASSUME NEW sub, NEW q, NEW rk, Served(sub, q, rk), NEW s, NEW n, NEW low, Cuts(q, s, n, low)
  PROVE  /\ \E f : Bounds(f, s, n)
         /\ \A f : Bounds(f, s, n) =>
              \A cur \in Places, found \in Places : f[<<cur, found>>] = Bounded(q, rk, low, cur, found)
<1>1. SearchTree(tree, Order(score), hmap, root, sub) /\ DOMAIN tree = hmap /\ Places = hmap \cup {NULL} /\ NULL \notin hmap
  BY DEF Served, SoundTree, SearchTree, Trees, Places
<1>2. \E f : Bounds(f, s, n)
  <2>1. PICK g : g = [at \in Places \X Places |-> Bounded(q, rk, low, at[1], at[2])]
    OBVIOUS
  <2>2. \A cur \in Places, found \in Places : g[<<cur, found>>] = Bounded(q, rk, low, cur, found)
    BY <2>1
  <2>3. ASSUME NEW cur \in Places, NEW found \in Places
        PROVE  BoundStep(g, s, n, cur, found) = Bounded(q, rk, low, cur, found)
    <3>1. CASE cur = NULL
      BY <3>1 DEF BoundStep, Bounded
    <3>2. CASE cur # NULL
      <4>1. Under(g, sub, q, rk, low, cur)
        BY <1>1, <2>2 DEF Under
      <4>2. cur \in hmap
        BY <1>1, <3>2
      <4>. QED
        BY <4>1, <4>2, BoundStepGives
    <3>. QED
      BY <3>1, <3>2
  <2>4. g = [at \in Places \X Places |-> BoundStep(g, s, n, at[1], at[2])]
    BY <2>1, <2>3
  <2>. QED
    BY <2>4 DEF Bounds
<1>3. ASSUME NEW f, Bounds(f, s, n)
      PROVE  \A cur \in Places, found \in Places : f[<<cur, found>>] = Bounded(q, rk, low, cur, found)
  <2>1. ASSUME NEW cur \in Places, NEW found \in Places
        PROVE  f[<<cur, found>>] = BoundStep(f, s, n, cur, found)
    <3>1. PICK g : g = [at \in Places \X Places |-> BoundStep(f, s, n, at[1], at[2])]
      OBVIOUS
    <3>2. f = g
      BY <1>3, <3>1 DEF Bounds
    <3>3. \A at \in Places \X Places : g[at] = BoundStep(f, s, n, at[1], at[2])
      BY <3>1
    <3>4. PICK at : at = <<cur, found>>
      OBVIOUS
    <3>5. at \in Places \X Places /\ at[1] = cur /\ at[2] = found
      BY <3>4
    <3>. QED
      BY <3>2, <3>3, <3>4, <3>5
  <2>2. \A found \in Places : f[<<NULL, found>>] = Bounded(q, rk, low, NULL, found)
    <3>1. NULL \in Places
      BY <1>1
    <3>. QED
      BY <2>1, <3>1 DEF BoundStep, Bounded
  <2> DEFINE T == {k \in Nat : \A m \in hmap : Weight(sub, m) = k =>
                       \A found \in Places : f[<<m, found>>] = Bounded(q, rk, low, m, found)}
  <2>3. ASSUME NEW k \in Nat, \A j \in 0..(k - 1) : j \in T PROVE k \in T
    <3>1. SUFFICES ASSUME NEW m \in hmap, Weight(sub, m) = k, NEW found \in Places
                   PROVE  f[<<m, found>>] = Bounded(q, rk, low, m, found)
      OBVIOUS
    <3>2. ASSUME NEW c \in hmap, NEW e \in Places, Weight(sub, c) < Weight(sub, m)
          PROVE  f[<<c, e>>] = Bounded(q, rk, low, c, e)
      <4>1. Weight(sub, c) \in Nat
        BY <1>1, SubSize
      <4>2. Weight(sub, c) \in 0..(k - 1)
        BY <3>1, <3>2, <4>1
      <4>. QED
        BY <2>3, <4>2
    <3>3. Under(f, sub, q, rk, low, m)
      BY <2>2, <3>2 DEF Under
    <3>4. BoundStep(f, s, n, m, found) = Bounded(q, rk, low, m, found)
      BY <3>3, BoundStepGives
    <3>5. m \in Places
      BY <1>1
    <3>. QED
      BY <2>1, <3>4, <3>5
  <2>4. \A k \in Nat : k \in T
    <3> HIDE DEF T
    <3>. QED
      BY <2>3, Induct
  <2>5. \A m \in hmap, found \in Places : f[<<m, found>>] = Bounded(q, rk, low, m, found)
    <3>1. \A m \in hmap : Weight(sub, m) \in Nat
      BY <1>1, SubSize
    <3>. QED
      BY <2>4, <3>1
  <2>. QED
    BY <1>1, <2>2, <2>5
<1>. QED
  BY <1>2, <1>3

\* zset_query's loop ends at the first node that is not below the tuple.
LEMMA LowerBoundGives ==
  ASSUME NEW sub, NEW q, NEW rk, Served(sub, q, rk), NEW s, NEW n, NEW low, Cuts(q, s, n, low)
  PROVE  LowerBound(s, n) = IF low = Len(q) THEN NULL ELSE q[low + 1]
<1>1. PICK f : f = CHOOSE g : Bounds(g, s, n)
  OBVIOUS
<1>2. Bounds(f, s, n)
  BY <1>1, BoundsGive
<1>3. LowerBound(s, n) = f[<<root, NULL>>]
  BY <1>1 DEF LowerBound, Bounds, BoundStep
<1>4. /\ SoundTree(tree, Order(score), hmap, root, sub) /\ Placing(q, rk, Order(score), hmap)
      /\ DOMAIN tree = hmap /\ Places = hmap \cup {NULL} /\ NULL \notin hmap
      /\ Shape(tree, Order(score), hmap, root, sub)
  BY DEF Served, SoundTree, SearchTree, Trees, Places
<1>5. root \in Places /\ NULL \in Places
  BY <1>4 DEF Shape
<1>6. f[<<root, NULL>>] = Bounded(q, rk, low, root, NULL)
  BY <1>2, <1>5, BoundsGive
<1>7. PICK N : N = Len(q)
  OBVIOUS
<1>8. N \in Nat /\ low \in 0..N
  BY <1>4, <1>7 DEF Placing, Cuts
<1>9. CASE hmap = {}
  <2>1. root = NULL
    BY <1>4, <1>9 DEF Shape
  <2>2. N = 0
    <3>1. \A i \in 1..N : q[i] \in {}
      BY <1>4, <1>7, <1>9 DEF Placing
    <3>. QED
      BY <1>8, <3>1
  <2>. QED
    BY <1>3, <1>6, <1>7, <1>8, <2>1, <2>2 DEF Bounded
<1>10. CASE hmap # {}
  <2>1. root \in hmap /\ Low(tree, rk, root) = 1 /\ High(tree, rk, root) = N
    BY <1>4, <1>7, <1>10, RootSpan
  <2>2. Bounded(q, rk, low, root, NULL) = IF N <= low THEN NULL ELSE q[IF 1 > low THEN 1 ELSE low + 1]
    BY <1>4, <2>1 DEF Bounded
  <2>3. N <= low <=> low = N
    BY <1>8
  <2>4. 1 > low => low + 1 = 1
    BY <1>8
  <2>. QED
    BY <1>3, <1>6, <1>7, <2>2, <2>3, <2>4
<1>. QED
  BY <1>9, <1>10

-----------------------------------------------------------------------------
(* do_zquery's loop *)

EmitStep(f, limit, cur, items) ==
  IF cur = NULL \/ items >= limit THEN <<>>
  ELSE <<cur>> \o f[<<AvlOffset(tree, cur, 1), items + 2>>]

Emits(f, limit) == f = [at \in Places \X Nat |-> EmitStep(f, limit, at[1], at[2])]

\* The place of the last tuple if k items may be added from place i on.
Upto(N, i, k) == IF i + (k + 1) \div 2 - 1 < N THEN i + (k + 1) \div 2 - 1 ELSE N

Emitted(q, rk, limit, cur, items) ==
  IF cur = NULL \/ items >= limit THEN <<>>
  ELSE SubSeq(q, rk[cur], Upto(Len(q), rk[cur], limit - items))

LEMMA Halves ==
  ASSUME NEW k \in Nat, k > 0
  PROVE  /\ (k + 1) \div 2 \in Nat /\ (k + 1) \div 2 >= 1
         /\ k <= 2 => (k + 1) \div 2 = 1
         /\ k > 2 => (k - 2 + 1) \div 2 = (k + 1) \div 2 - 1
OBVIOUS

LEMMA UptoFacts ==
  ASSUME NEW N \in Nat, NEW i \in 1..N, NEW k \in Nat, k > 0
  PROVE  /\ Upto(N, i, k) \in i..N
         /\ i = N \/ k <= 2 => Upto(N, i, k) = i
         /\ i < N /\ k > 2 => Upto(N, i + 1, k - 2) = Upto(N, i, k) /\ Upto(N, i, k) \in (i + 1)..N
<1>1. PICK h : h = (k + 1) \div 2
  OBVIOUS
<1>2. h \in Nat /\ h >= 1 /\ (k <= 2 => h = 1)
  BY <1>1, Halves
<1>3. Upto(N, i, k) = IF i + h - 1 < N THEN i + h - 1 ELSE N
  BY <1>1 DEF Upto
<1>4. k > 2 => h >= 2 /\ Upto(N, i + 1, k - 2) = IF i + 1 + (h - 1) - 1 < N THEN i + 1 + (h - 1) - 1 ELSE N
  <2>1. k > 2 => (k - 2 + 1) \div 2 = h - 1
    BY <1>1, Halves
  <2>2. k > 2 => h >= 2
    BY <1>1
  <2>. QED
    BY <2>1, <2>2 DEF Upto
<1>. QED
  BY <1>2, <1>3, <1>4

LEMMA HeadOf ==
  ASSUME NEW S, NEW q \in Seq(S), NEW i \in 1..Len(q), NEW j \in i..Len(q)
  PROVE  <<q[i]>> \o SubSeq(q, i + 1, j) = SubSeq(q, i, j)
<1>1. PICK u, v, w : u = <<q[i]>> /\ v = SubSeq(q, i + 1, j) /\ w = SubSeq(q, i, j)
  OBVIOUS
<1>2. Len(q) \in Nat /\ i \in Nat /\ j \in Nat /\ i >= 1 /\ i <= j /\ j <= Len(q)
  OBVIOUS
<1>3. /\ v \in Seq(S) /\ Len(v) = j - i /\ \A k \in 1..(j - i) : v[k] = q[i + k]
  BY <1>1, <1>2
<1>4. /\ w \in Seq(S) /\ Len(w) = j - i + 1 /\ \A k \in 1..(j - i + 1) : w[k] = q[i + k - 1]
  BY <1>1, <1>2
<1>5. u \in Seq(S) /\ Len(u) = 1 /\ u[1] = q[i]
  BY <1>1
<1>6. /\ u \o v \in Seq(S) /\ Len(u \o v) = j - i + 1
      /\ (u \o v)[1] = q[i] /\ \A k \in 2..(j - i + 1) : (u \o v)[k] = v[k - 1]
  <2>1. PICK d : d = j - i
    OBVIOUS
  <2>2. d \in Nat /\ Len(v) = d
    BY <1>2, <1>3, <2>1
  <2>3. u \in Seq(S) /\ v \in Seq(S) /\ Len(u) = 1
    BY <1>3, <1>5
  <2>4. PICK z : z = u \o v
    OBVIOUS
  <2>5. /\ z \in Seq(S) /\ Len(z) = Len(u) + Len(v)
        /\ \A k \in 1..(Len(u) + Len(v)) : z[k] = IF k <= Len(u) THEN u[k] ELSE v[k - Len(u)]
    BY ONLY <2>3, <2>4, ConcatProperties
  <2>6. z[1] = u[1]
    BY <2>2, <2>3, <2>5
  <2>7. ASSUME NEW k \in 2..(d + 1) PROVE z[k] = v[k - 1]
    BY <2>2, <2>3, <2>5
  <2>. QED
    BY <1>5, <2>1, <2>2, <2>3, <2>4, <2>5, <2>6, <2>7
<1>7. ASSUME NEW k \in 1..(j - i + 1) PROVE (u \o v)[k] = w[k]
  <2>1. CASE k = 1
    <3>1. w[1] = q[i + 1 - 1] /\ i + 1 - 1 = i
      BY <1>2, <1>4
    <3>. QED
      BY <1>6, <2>1, <3>1
  <2>2. CASE k # 1
    <3>1. k - 1 \in 1..(j - i) /\ i + (k - 1) = i + k - 1
      BY <1>2, <2>2
    <3>2. (u \o v)[k] = v[k - 1]
      <4>1. k \in 2..(j - i + 1)
        BY <1>2, <2>2
      <4>. QED
        BY <1>6, <4>1
    <3>. QED
      BY <1>3, <1>4, <3>1, <3>2
  <2>. QED
    BY <2>1, <2>2
<1>8. PICK z : z = u \o v
  OBVIOUS
<1>9. z \in Seq(S) /\ Len(z) = j - i + 1 /\ \A k \in 1..(j - i + 1) : z[k] = w[k]
  BY <1>6, <1>7, <1>8
<1>10. z = w
  BY ONLY <1>2, <1>4, <1>9
<1>. QED
  BY <1>1, <1>8, <1>10

LEMMA EmitStepGives ==
  ASSUME NEW sub, NEW q, NEW rk, Served(sub, q, rk), NEW limit \in Nat,
         NEW cur \in Places, NEW items \in Nat, NEW f,
         \A c \in Places : f[<<c, items + 2>>] = Emitted(q, rk, limit, c, items + 2)
  PROVE  EmitStep(f, limit, cur, items) = Emitted(q, rk, limit, cur, items)
<1>1. CASE cur = NULL \/ items >= limit
  BY <1>1 DEF EmitStep, Emitted
<1>2. CASE ~(cur = NULL \/ items >= limit)
  <2>1. PICK R : R = Order(score)
    OBVIOUS
  <2>2. /\ SoundTree(tree, R, hmap, root, sub) /\ Placing(q, rk, R, hmap) /\ Places = hmap \cup {NULL}
        /\ cur \in hmap /\ NULL \notin hmap
    BY <1>2, <2>1 DEF Served, SoundTree, SearchTree, Trees, Places
  <2>3. PICK N, i, k, c : N = Len(q) /\ i = rk[cur] /\ k = limit - items /\ c = AvlOffset(tree, cur, 1)
    OBVIOUS
  <2>4. N \in Nat /\ i \in 1..N /\ q[i] = cur /\ k \in Nat /\ k > 0 /\ q \in Seq(hmap)
    BY <1>2, <2>2, <2>3 DEF Placing
  <2>5. c = IF i + 1 \in 1..N THEN q[i + 1] ELSE NULL
    BY <2>2, <2>3, OffsetGives
  <2>6. EmitStep(f, limit, cur, items) = <<cur>> \o f[<<c, items + 2>>]
    BY <1>2, <2>3 DEF EmitStep
  <2>7. PICK j : j = Upto(N, i, k)
    OBVIOUS
  <2>8. Emitted(q, rk, limit, cur, items) = SubSeq(q, i, j)
    BY <1>2, <2>3, <2>7 DEF Emitted
  <2>9. /\ j \in i..N
        /\ i = N \/ k <= 2 => j = i
        /\ i < N /\ k > 2 => Upto(N, i + 1, k - 2) = j /\ j \in (i + 1)..N
    <3>1. /\ Upto(N, i, k) \in i..N
          /\ i = N \/ k <= 2 => Upto(N, i, k) = i
          /\ i < N /\ k > 2 => Upto(N, i + 1, k - 2) = Upto(N, i, k) /\ Upto(N, i, k) \in (i + 1)..N
      BY ONLY <2>4, UptoFacts
    <3>. QED
      BY ONLY <2>7, <3>1
  <2>10. <<cur>> \o SubSeq(q, i + 1, j) = SubSeq(q, i, j)
    BY <2>3, <2>4, <2>9, HeadOf
  <2>11. f[<<c, items + 2>>] = SubSeq(q, i + 1, j)
    <3>1. CASE i = N \/ k <= 2
      <4>1. c \in Places /\ (c = NULL \/ items + 2 >= limit)
        <5>1. c \in Places
          <6>1. CASE i + 1 \in 1..N
            BY <2>2, <2>3, <2>5, <6>1 DEF Placing
          <6>2. CASE i + 1 \notin 1..N
            BY <2>2, <2>5, <6>2
          <6>. QED
            BY <6>1, <6>2
        <5>2. i = N => c = NULL
          BY <2>4, <2>5
        <5>3. k <= 2 => items + 2 >= limit
          BY <2>3
        <5>. QED
          BY <3>1, <5>1, <5>2, <5>3
      <4>2. f[<<c, items + 2>>] = <<>>
        BY <4>1 DEF Emitted
      <4>3. SubSeq(q, i + 1, j) = <<>>
        <5>1. j = i
          BY <2>9, <3>1
        <5>. QED
          BY <2>3, <2>4, <5>1
      <4>. QED
        BY <4>2, <4>3
    <3>2. CASE ~(i = N \/ k <= 2)
      <4>1. i + 1 \in 1..N /\ i < N /\ k > 2
        BY <2>4, <3>2
      <4>2. c = q[i + 1] /\ c \in hmap /\ rk[c] = i + 1
        BY <2>2, <2>3, <2>5, <4>1 DEF Placing
      <4>3. ~(c = NULL \/ items + 2 >= limit) /\ limit - (items + 2) = k - 2
        BY <2>2, <2>3, <4>1, <4>2
      <4>4. f[<<c, items + 2>>] = SubSeq(q, i + 1, Upto(N, i + 1, k - 2))
        BY <2>2, <2>3, <4>2, <4>3 DEF Emitted
      <4>. QED
        BY <2>9, <4>1, <4>4
    <3>. QED
      BY <3>1, <3>2
  <2>. QED
    BY <2>6, <2>8, <2>10, <2>11
<1>. QED
  BY <1>1, <1>2

LEMMA EmitGives ==
  ASSUME NEW sub, NEW q, NEW rk, Served(sub, q, rk), NEW limit \in Nat, NEW n \in Places
  PROVE  Emit(n, limit) = Emitted(q, rk, limit, n, 0)
<1>1. \E f : Emits(f, limit)
  <2>1. PICK g : g = [at \in Places \X Nat |-> Emitted(q, rk, limit, at[1], at[2])]
    OBVIOUS
  <2>2. \A c \in Places, items \in Nat : g[<<c, items>>] = Emitted(q, rk, limit, c, items)
    BY <2>1
  <2>3. ASSUME NEW cur \in Places, NEW items \in Nat
        PROVE  EmitStep(g, limit, cur, items) = Emitted(q, rk, limit, cur, items)
    <3>1. \A c \in Places : g[<<c, items + 2>>] = Emitted(q, rk, limit, c, items + 2)
      BY <2>2
    <3>. QED
      BY <3>1, EmitStepGives
  <2>4. g = [at \in Places \X Nat |-> EmitStep(g, limit, at[1], at[2])]
    BY <2>1, <2>3
  <2>. QED
    BY <2>4 DEF Emits
<1>2. PICK f : f = CHOOSE g : Emits(g, limit)
  OBVIOUS
<1>3. Emits(f, limit)
  BY <1>1, <1>2
<1>4. Emit(n, limit) = f[<<n, 0>>]
  BY <1>2 DEF Emit, Emits, EmitStep
<1>5. ASSUME NEW cur \in Places, NEW items \in Nat
      PROVE  f[<<cur, items>>] = EmitStep(f, limit, cur, items)
  <2>1. PICK g : g = [at \in Places \X Nat |-> EmitStep(f, limit, at[1], at[2])]
    OBVIOUS
  <2>2. f = g
    BY <1>3, <2>1 DEF Emits
  <2>3. \A at \in Places \X Nat : g[at] = EmitStep(f, limit, at[1], at[2])
    BY <2>1
  <2>4. PICK at : at = <<cur, items>>
    OBVIOUS
  <2>5. at \in Places \X Nat /\ at[1] = cur /\ at[2] = items
    BY <2>4
  <2>. QED
    BY <2>2, <2>3, <2>4, <2>5
<1>6. \A cur \in Places, items \in Nat :
         items >= limit => f[<<cur, items>>] = Emitted(q, rk, limit, cur, items)
  BY <1>5 DEF EmitStep, Emitted
<1> DEFINE T == {k \in Nat : \A items \in Nat : limit - items = k =>
                     \A cur \in Places : f[<<cur, items>>] = Emitted(q, rk, limit, cur, items)}
<1>7. ASSUME NEW k \in Nat, \A j \in 0..(k - 1) : j \in T PROVE k \in T
  <2>1. SUFFICES ASSUME NEW items \in Nat, limit - items = k, NEW cur \in Places
                 PROVE  f[<<cur, items>>] = Emitted(q, rk, limit, cur, items)
    OBVIOUS
  <2>2. ASSUME NEW c \in Places PROVE f[<<c, items + 2>>] = Emitted(q, rk, limit, c, items + 2)
    <3>1. CASE items + 2 >= limit
      BY <1>6, <3>1
    <3>2. CASE ~(items + 2 >= limit)
      <4>1. limit - (items + 2) \in 0..(k - 1) /\ items + 2 \in Nat
        BY <2>1, <3>2
      <4>. QED
        BY <1>7, <4>1
    <3>. QED
      BY <3>1, <3>2
  <2>3. EmitStep(f, limit, cur, items) = Emitted(q, rk, limit, cur, items)
    BY <2>2, EmitStepGives
  <2>. QED
    BY <1>5, <2>3
<1>8. \A k \in Nat : k \in T
  <2> HIDE DEF T
  <2>. QED
    BY <1>7, Induct
<1>9. f[<<n, 0>>] = Emitted(q, rk, limit, n, 0)
  <2>1. limit - 0 \in Nat
    OBVIOUS
  <2>. QED
    BY <1>8, <2>1
<1>. QED
  BY <1>4, <1>9

-----------------------------------------------------------------------------
(* The queries *)

\* The places of a list whose tuples are below an argument.
SmallerPlaces(q, s, n) == {i \in 1..Len(q) : Zless(score, q[i], s, n)}

\* The nodes below a tuple come first.
LEMMA CutExists ==
  ASSUME NEW D, D \subseteq Name, \A y \in D : score[y] \in Int,
         NEW q, NEW rk, Placing(q, rk, Order(score), D), NEW s \in Int, NEW n \in Int
  PROVE  \E low : /\ Cuts(q, s, n, low)
                  /\ low = Cardinality(SmallerPlaces(q, s, n))
<1>1. PICK N : N = Len(q)
  OBVIOUS
<1>2. /\ N \in Nat /\ \A i \in 1..N : q[i] \in D /\ rk[q[i]] = i
      /\ \A x, y \in D : <<x, y>> \in Order(score) <=> rk[x] < rk[y]
  BY <1>1 DEF Placing
<1>3. PICK I : I = {i \in 1..N : Zless(score, q[i], s, n)}
  OBVIOUS
<1>4. ASSUME NEW i \in I, NEW j \in (0 + 1)..i PROVE j \in I
  <2>1. i \in 1..N /\ j \in 1..N /\ j <= i /\ Zless(score, q[i], s, n)
    BY <1>2, <1>3
  <2>2. CASE j = i
    BY <2>2
  <2>3. CASE j # i
    <3>1. j < i
      BY <1>2, <2>1, <2>3
    <3>2. PICK x, y : x = q[j] /\ y = q[i]
      OBVIOUS
    <3>3. x \in D /\ y \in D /\ rk[x] = j /\ rk[y] = i
      BY <1>2, <2>1, <3>2
    <3>4. <<x, y>> \in Order(score)
      BY <1>2, <3>1, <3>3
    <3>5. Zless(score, x, score[y], y) /\ Zless(score, y, s, n)
      BY <2>1, <3>2, <3>4 DEF Order
    <3>6. x \in Nat /\ y \in Nat /\ score[x] \in Int /\ score[y] \in Int
      BY <3>3, NameAssumption
    <3>7. Zless(score, x, s, n)
      BY <3>5, <3>6 DEF Zless
    <3>. QED
      BY <1>3, <2>1, <3>2, <3>7
  <2>. QED
    BY <2>2, <2>3
<1>5. PICK c : c = Cardinality(I)
  OBVIOUS
<1>6. c \in Nat /\ 0 + c <= N /\ I = (0 + 1)..(0 + c)
  <2>1. I \subseteq (0 + 1)..N
    BY <1>3
  <2>2. 0 \in Nat /\ 0 <= N
    BY <1>2
  <2>. QED
    BY <1>2, <1>4, <1>5, <2>1, <2>2, DownClosed
<1>7. \A i \in 1..N : Zless(score, q[i], s, n) <=> i <= c
  <2>1. \A i \in 1..N : i \in I <=> i <= c
    BY <1>2, <1>6
  <2>. QED
    BY <1>3, <2>1
<1>8. c \in 0..N
  BY <1>2, <1>6
<1>. QED
  BY <1>1, <1>3, <1>5, <1>7, <1>8 DEF Cuts, SmallerPlaces

\* Every query of any tuple, with any offset and limit.
LEMMA QueryAnswers ==
  ASSUME ZSetInv, NEW s \in Int, NEW n \in Int, NEW offset \in Int, NEW limit \in Nat,
         NEW m, m = [k \in hmap |-> score[k]]
  PROVE  DoZquery(s, n, offset, limit) = Promise!SSQuery(m, s, n, offset, limit)
<1>1. PICK R : R = Order(score)
  OBVIOUS
<1>2. PICK sub : SoundTree(tree, R, hmap, root, sub)
  BY <1>1, TreeRead
<1>3. PICK q : q = InOrder(root)
  OBVIOUS
<1>4. Listing(q, R, hmap) /\ StrictOrder(R, hmap)
  BY <1>1, <1>2, <1>3, RootLists DEF SoundTree, SearchTree
<1>5. PICK rk : Placing(q, rk, R, hmap)
  BY <1>4, PlacingExists
<1>6. Served(sub, q, rk)
  BY <1>1, <1>2, <1>5 DEF Served
<1>7. hmap \subseteq Name /\ \A y \in hmap : score[y] \in Int /\ y \in Int
  <2>1. hmap \subseteq Name /\ score \in [hmap -> Scores]
    BY DEF ZSetInv
  <2>2. \A y \in Name : y \in Int
    BY NameAssumption
  <2>3. \A y \in Scores : y \in Int
    BY NameAssumption
  <2>. QED
    BY <2>1, <2>2, <2>3
<1>8. q = Promise!Ordered(m)
  BY <1>1, <1>4, <1>7, ListingOrdered
<1>9. PICK low : Cuts(q, s, n, low) /\ low = Cardinality(SmallerPlaces(q, s, n))
  <2>1. Placing(q, rk, Order(score), hmap)
    BY <1>1, <1>5
  <2>2. hmap \subseteq Name /\ \A y \in hmap : score[y] \in Int
    BY <1>7
  <2>3. \E low : /\ Cuts(q, s, n, low)
                 /\ low = Cardinality(SmallerPlaces(q, s, n))
    BY <2>1, <2>2, CutExists
  <2>. QED
    BY <2>3
<1>10. PICK N : N = Len(q)
  OBVIOUS
<1>11. /\ N \in Nat /\ low \in 0..N /\ q \in Seq(hmap)
       /\ \A i \in 1..N : q[i] \in hmap /\ rk[q[i]] = i
  BY <1>5, <1>9, <1>10 DEF Placing, Cuts
<1>12. Places = hmap \cup {NULL} /\ NULL \notin hmap
  BY <1>2 DEF SoundTree, SearchTree, Trees, Places
<1>13. Promise!Cardinality({i \in DOMAIN q : Promise!Less(m[q[i]], q[i], s, n)}) = low
  <2>1. \A i \in 1..N : Promise!Less(m[q[i]], q[i], s, n) <=> Zless(score, q[i], s, n)
    <3>1. ASSUME NEW x \in hmap PROVE Promise!Less(m[x], x, s, n) <=> Zless(score, x, s, n)
      <4>1. m[x] = score[x] /\ score[x] \in Int /\ x \in Int
        BY <1>7
      <4>. QED
        BY <4>1 DEF Promise!Less, Zless
    <3>. QED
      BY <1>11, <3>1
  <2>2. DOMAIN q = 1..N
    BY <1>10, <1>11
  <2>3. PICK I, J : /\ I = {i \in 1..N : Zless(score, q[i], s, n)}
                    /\ J = {i \in DOMAIN q : Promise!Less(m[q[i]], q[i], s, n)}
    OBVIOUS
  <2>4. I = J
    BY <2>1, <2>2, <2>3
  <2>5. \A S : Promise!Cardinality(S) = Cardinality(S)
    BY DEF Promise!Cardinality, Cardinality
  <2>. QED
    BY <1>9, <1>10, <2>3, <2>4, <2>5 DEF SmallerPlaces
<1>14. PICK from, count : from = low + 1 + offset /\ count = (limit + 1) \div 2
  OBVIOUS
<1>15. Promise!SSQuery(m, s, n, offset, limit) =
         IF low = N \/ from < 1 \/ limit <= 0 THEN <<>>
         ELSE SubSeq(q, from, IF from + count - 1 < N THEN from + count - 1 ELSE N)
  BY <1>8, <1>10, <1>13, <1>14 DEF Promise!SSQuery
<1>16. from \in Int
  BY <1>11, <1>14
<1>17. CASE limit <= 0
  BY <1>15, <1>17 DEF DoZquery
<1>18. CASE ~(limit <= 0)
  <2>1. DoZquery(s, n, offset, limit) = Emit(ZSetQuery(s, n, offset), limit)
    BY <1>18 DEF DoZquery
  <2>2. limit > 0 /\ ~(0 >= limit) /\ limit - 0 = limit /\ count >= 1 /\ count \in Nat
    BY <1>14, <1>18, Halves
  <2>3. Emit(NULL, limit) = <<>>
    <3>1. NULL \in Places
      BY <1>12
    <3>. QED
      BY <1>6, <3>1, EmitGives DEF Emitted
  <2>4. LowerBound(s, n) = IF low = N THEN NULL ELSE q[low + 1]
    BY <1>6, <1>9, <1>10, LowerBoundGives
  <2>5. CASE low = N
    <3>1. ZSetQuery(s, n, offset) = NULL
      BY <2>4, <2>5 DEF ZSetQuery
    <3>. QED
      BY <1>15, <2>1, <2>3, <2>5, <3>1
  <2>6. CASE low # N
    <3>1. low + 1 \in 1..N
      BY <1>11, <2>6
    <3>2. PICK x : x = q[low + 1]
      OBVIOUS
    <3>3. x \in hmap /\ rk[x] = low + 1 /\ x # NULL /\ LowerBound(s, n) = x
      BY <1>11, <1>12, <2>4, <2>6, <3>1, <3>2
    <3>4. ZSetQuery(s, n, offset) = AvlOffset(tree, x, offset)
      BY <3>3 DEF ZSetQuery
    <3>5. AvlOffset(tree, x, offset) = IF from \in 1..N THEN q[from] ELSE NULL
      <4>1. AvlOffset(tree, x, offset) = IF rk[x] + offset \in 1..Len(q) THEN q[rk[x] + offset] ELSE NULL
        BY <1>2, <1>5, <3>3, OffsetGives
      <4>. QED
        BY <1>10, <1>14, <3>3, <4>1
    <3>6. CASE from \in 1..N
      <4>1. PICK y : y = q[from]
        OBVIOUS
      <4>2. y \in hmap /\ rk[y] = from /\ y \in Places /\ y # NULL
        BY <1>11, <1>12, <3>6, <4>1
      <4>3. Emit(y, limit) = SubSeq(q, from, Upto(N, from, limit))
        <5>1. Emit(y, limit) = Emitted(q, rk, limit, y, 0)
          BY <1>6, <4>2, EmitGives
        <5>. QED
          BY <1>10, <2>2, <4>2, <5>1 DEF Emitted
      <4>4. Upto(N, from, limit) = IF from + count - 1 < N THEN from + count - 1 ELSE N
        BY <1>14 DEF Upto
      <4>5. ~(from < 1)
        BY <3>6
      <4>. QED
        BY <1>15, <1>18, <2>1, <2>6, <3>4, <3>5, <3>6, <4>1, <4>3, <4>4, <4>5
    <3>7. CASE from < 1
      <4>1. from \notin 1..N
        BY <1>16, <3>7
      <4>. QED
        BY <1>15, <2>1, <2>3, <3>4, <3>5, <3>7, <4>1
    <3>8. CASE from > N
      <4>1. from \notin 1..N /\ ~(from < 1) /\ ~(from + count - 1 < N)
        BY <1>11, <1>16, <2>2, <3>8
      <4>2. SubSeq(q, from, N) = <<>>
        BY <1>11, <1>16, <3>8
      <4>. QED
        BY <1>15, <1>18, <2>1, <2>3, <2>6, <3>4, <3>5, <4>1, <4>2
    <3>. QED
      BY <1>11, <1>16, <3>6, <3>7, <3>8
  <2>. QED
    BY <2>5, <2>6
<1>. QED
  BY <1>17, <1>18

LEMMA Inv_QueriesAnswer == ZSetInv => QueriesAnswer
<1> SUFFICES ASSUME ZSetInv, NEW s \in Scores, NEW n \in Name \cup {0}, NEW offset \in Offsets, NEW limit \in Limits
             PROVE  DoZquery(s, n, offset, limit) = Promise!SSQuery([k \in hmap |-> score[k]], s, n, offset, limit)
  BY DEF QueriesAnswer
<1>1. s \in Int /\ n \in Int /\ limit \in Nat
  BY NameAssumption DEF Limits
<1>2. offset \in Int
  BY DEF Offsets
<1>. QED
  BY <1>1, <1>2, QueryAnswers

\* zquery's answer is that of the sorted list of the tuples: the walk down to
\* the first tuple not below the argument, avl_offset's climb and descent by
\* cnt, and the loop that avl_offset drives give what the order gives.
THEOREM QueriesExact == ZSetSpec => []QueriesAnswer
  BY ZSetInvariant, Inv_QueriesAnswer, PTL
=============================================================================
