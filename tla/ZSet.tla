-------------------------------- MODULE ZSet --------------------------------
(***************************************************************************)
(* server/14/zset.cpp: a sorted set is a hash table of its ZNodes by name  *)
(* and an AVL tree of the same ZNodes by (score, name).  The hash table    *)
(* here is the set of names HashTable shows it to be.  A ZNode stands for  *)
(* its name, names are numbers ordered as memcmp orders them, and scores   *)
(* are any ordered values: str2dbl lets no NaN in.                         *)
(***************************************************************************)
EXTENDS Avl, Sequences, FiniteSets, SequencesExt, Functions

CONSTANTS Name, Scores

ASSUME NameAssumption == Name \subseteq Nat /\ Scores \subseteq Int /\ NULL \notin Name

VARIABLES tree,     \* the AVLNode of each ZNode
          root,     \* zset->tree
          hmap,     \* the names in zset->hmap
          score,    \* ZNode.score
          changed   \* did the last call add or remove a name

zsetVars == <<tree, root, hmap, score, changed>>

ZSetInit == /\ tree = [n \in {} |-> New] /\ root = NULL
            /\ hmap = {}
            /\ score = [n \in {} |-> 0]
            /\ changed = FALSE

Put(f, n, x) == [m \in DOMAIN f \cup {n} |-> IF m = n THEN x ELSE f[m]]

\* zless: is ZNode m below the tuple (s, n)?
Zless_ScoreOnly(sc, m, s, n) == sc[m] < s

Zless(sc, m, s, n) == IF sc[m] # s THEN sc[m] < s ELSE m < n

\* the leaf position that tree_add walks to from r: a node and a side
Descend(t, sc, r, n) ==
  LET leaf[cur \in DOMAIN t] ==
        LET d == IF Zless(sc, n, sc[cur], cur) THEN "left" ELSE "right"
        IN  IF t[cur][d] = NULL THEN <<cur, d>> ELSE leaf[t[cur][d]]
  IN  leaf[r]

\* t has an initialised node for n
TreeAdd(t, r, sc, n) ==
  IF r = NULL THEN [tree |-> t, root |-> n]
  ELSE LET at == Descend(t, sc, r, n)
       IN  AvlFix([t EXCEPT ![at[1]][at[2]] = n, ![n].parent = at[1]], n)

Becomes(f) == tree' = f.tree /\ root' = f.root

\* zset_lookup and zset_pop answer NULL without a tree
Has(n) == root # NULL /\ n \in hmap

ZSetUpdate_InPlace(n, s) == /\ score' = Put(score, n, s)
                            /\ UNCHANGED <<tree, root>>

\* Mutant of ZSetUpdate: the node is not put into the tree again.
ZSetUpdate_Lost(n, s) ==
  LET f == AvlDel(tree, n)
  IN  /\ score' = Put(score, n, s)
      /\ Becomes([tree |-> Put(f.tree, n, New), root |-> f.root])

\* zset_update: out of the tree and in again
ZSetUpdate(n, s) ==
  IF score[n] = s THEN UNCHANGED <<tree, root, score>>
  ELSE LET f == AvlDel(tree, n)
       IN  /\ score' = Put(score, n, s)
           /\ Becomes(TreeAdd(Put(f.tree, n, New), f.root, score', n))

ZSetAdd(n, s) ==
  \/ /\ Has(n)
     /\ ZSetUpdate(n, s)
     /\ changed' = FALSE
     /\ UNCHANGED hmap
  \/ /\ ~Has(n)
     /\ hmap' = hmap \cup {n}
     /\ score' = Put(score, n, s)
     /\ Becomes(TreeAdd(Put(tree, n, New), root, score', n))
     /\ changed' = TRUE

\* zset_pop, and do_zrem's znode_del
ZSetPop(n) ==
  \/ ~Has(n) /\ changed' = FALSE /\ UNCHANGED <<tree, root, hmap, score>>
  \/ /\ Has(n)
     /\ hmap' = hmap \ {n}
     /\ LET f == AvlDel(tree, n)
        IN  tree' = Restrict(f.tree, DOMAIN tree \ {n}) /\ root' = f.root
     /\ score' = Restrict(score, DOMAIN score \ {n})
     /\ changed' = TRUE

ZSetNext == \E n \in Name : ZSetPop(n) \/ \E s \in Scores : ZSetAdd(n, s)

ZSetSpec == ZSetInit /\ [][ZSetNext]_zsetVars
-----------------------------------------------------------------------------
(* zquery does not change the set *)

Places == DOMAIN tree \cup {NULL}

\* the loop of zset_query: the first node that is not below (s, n)
LowerBound(s, n) ==
  LET bound[at \in Places \X Places] ==
        LET cur == at[1]  found == at[2]
        IN  IF cur = NULL THEN found
            ELSE IF Zless(score, cur, s, n) THEN bound[<<tree[cur].right, found>>]
            ELSE bound[<<tree[cur].left, cur>>]
  IN  bound[<<root, NULL>>]

ZSetQuery(s, n, offset) ==
  LET found == LowerBound(s, n)
  IN  IF found = NULL THEN NULL ELSE AvlOffset(tree, found, offset)

\* do_zquery's loop: items counts the elements of the array so far
Emit(n, limit) ==
  LET from[at \in Places \X Nat] ==
        LET cur == at[1]  items == at[2]
        IN  IF cur = NULL \/ items >= limit THEN <<>>
            ELSE <<cur>> \o from[<<AvlOffset(tree, cur, 1), items + 2>>]
  IN  from[<<n, 0>>]

DoZquery(s, n, offset, limit) ==
  IF limit <= 0 THEN <<>> ELSE Emit(ZSetQuery(s, n, offset), limit)
-----------------------------------------------------------------------------
\* the tree under n, left to right, and its height
InOrder(n) ==
  LET list[m \in Places] == IF m = NULL THEN <<>>
                            ELSE list[tree[m].left] \o <<m>> \o list[tree[m].right]
  IN  list[n]

Height(n) ==
  LET height[m \in Places] == IF m = NULL THEN 0
                              ELSE 1 + Higher(height[tree[m].left], height[tree[m].right])
  IN  height[n]

Promise == INSTANCE SortedSet WITH Score <- Scores, ret <- changed,
                                   z <- [n \in ToSet(InOrder(root)) |-> score[n]]

\* The tree holds exactly the ZNodes of the hash table, each once, ordered by
\* score and then name: tree_dispose frees every ZNode and none twice, and
\* zset_query may search.
InOrderSorted == InOrder(root) = Promise!Ordered([n \in hmap |-> score[n]])

\* Every node is balanced and its depth and cnt are those of its subtree, after
\* inserts, deletions of inner nodes and changes of score: avl_offset computes
\* positions with cnt, and avl_fix decides with depth.
Balanced == \A n \in hmap :
              LET l == Height(tree[n].left)  r == Height(tree[n].right)
              IN  /\ l - r \in -1..1
                  /\ tree[n].depth = Height(n)
                  /\ tree[n].cnt = Len(InOrder(n))

\* Parent pointers mirror the child links and the root has none.
ParentLinks == /\ root # NULL => tree[root].parent = NULL
               /\ \A n \in hmap, d \in {"left", "right"} :
                    tree[n][d] # NULL => tree[tree[n][d]].parent = n

\* The tree has the shape of an AVL tree, in all its redundant fields.
TreeShape == Balanced /\ ParentLinks

\* Additions, changes of score and removals are those of a map from names to
\* scores, and their replies as well.
ImplementsSortedSet == Promise!SSSpec

\* Offsets that leave the set at either end.
Offsets == -(Cardinality(hmap) + 1)..(Cardinality(hmap) + 1)

Limits == 0..3

\* A range query gives the tuples that the order of the set gives: it starts at
\* the first tuple that is not below the argument, moves by any offset in
\* either direction, and stops at the limit or the end.
QueriesAnswer ==
  \A s \in Scores, n \in Name \cup {0}, offset \in Offsets, limit \in Limits :
    DoZquery(s, n, offset, limit) = Promise!SSQuery([m \in hmap |-> score[m]], s, n, offset, limit)
=============================================================================
