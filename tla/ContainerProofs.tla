-------------------------- MODULE ContainerProofs --------------------------
(***************************************************************************)
(* What is proved of the containers that other parts are built from: the   *)
(* two skip lists and the hash table.  Each level of a skip list is a line *)
(* of nodes in order, and the list is a bag to its callers; the sizes of   *)
(* the hash table agree with its chains, the rehash is over before the     *)
(* next one is due, and its calls answer as on a plain set.  The walks     *)
(* along the links are recursive functions; the induction that they need   *)
(* is that of StructureProofs, and so are the lemmas on sequences.         *)
(***************************************************************************)
EXTENDS StructureProofs, LcSkipList, SkipList, HashTable, FiniteSetTheorems

-----------------------------------------------------------------------------
(* The skip list of LC-sliplist.cpp.  Erasing mixes the levels of equal     *)
(* numbers, so the order of the nodes is not that of their numbers alone:   *)
(* there is an order P of all nodes, also those on no level, in which every *)
(* link goes forward (Forward).  In it level i links a set L[i] of nodes    *)
(* (Line), and these sets are nested (Good).  A walk ends since what is     *)
(* left in front of it shrinks (Reach).                                     *)

\* where a link can start
Spots == NodeAddr \cup {Dummy}

\* P orders the elements of S.
StrictOrder(P, S) ==
  /\ \A m \in S : <<m, m>> \notin P
  /\ \A m, n, o \in S : <<m, n>> \in P /\ <<n, o>> \in P => <<m, o>> \in P
  /\ \A m, n \in S : m # n => <<m, n>> \in P \/ <<n, m>> \in P

\* is n after q, if q is the head or a node
After(P, q, n) == q = Dummy \/ <<q, n>> \in P

\* Level i of the links x is the set S in the order P.
Line(x, P, S, i) ==
  /\ \A q \in S \cup {Dummy} : x[q][i] \in S \cup {Nil}
  /\ \A q \in S \cup {Dummy} : \A n \in S :
        After(P, q, n) => x[q][i] # Nil /\ (n = x[q][i] \/ <<x[q][i], n>> \in P)
  /\ \A n \in S : \E q \in S \cup {Dummy} : x[q][i] = n

\* All links go forward, those of nodes that are on no level any more as well.
Forward(v, x, P) ==
  /\ v \in [NodeAddr -> Int]
  /\ x \in [Spots -> [LcLevels -> NodeAddr \cup {Nil}]]
  /\ P \subseteq NodeAddr \X NodeAddr
  /\ StrictOrder(P, NodeAddr)
  /\ \A m, n \in NodeAddr : <<m, n>> \in P => v[m] <= v[n]
  /\ \A q \in NodeAddr : \A i \in LcLevels : x[q][i] # Nil => <<q, x[q][i]>> \in P

\* The links x are those of a list with values v in the order P, level i of
\* which has the nodes L[i], and cl levels are in use.
Good(v, x, cl, P, L) ==
  /\ Forward(v, x, P)
  /\ cl \in 0..MAX_LEVEL
  /\ L \in [LcLevels -> SUBSET NodeAddr]
  /\ \A i \in LcLevels : Line(x, P, L[i], i)
  /\ \A i, j \in LcLevels : j <= i => L[i] \subseteq L[j]
  /\ \A i \in LcLevels : i >= cl => L[i] = {}
  /\ \A i \in 1..(cl - 1) : L[i] # {}
  /\ \A n \in L[0] : v[n] \in Numbers

\* The inductive invariant.
LcInv == found \in BOOLEAN /\ \E P, L : Good(val, next, currentLevel, P, L)

\* the nodes in front of which q is
Left(P, q) == IF q = Dummy THEN NodeAddr ELSE {n \in NodeAddr : <<q, n>> \in P}

\* how far a walk from q may still go
Reach(P, q) == Cardinality(Left(P, q)) + (IF q = Dummy THEN 1 ELSE 0)

\* A walk that goes forward gets closer to the end.
LEMMA Reaches ==
  ASSUME NEW P, StrictOrder(P, NodeAddr)
  PROVE  /\ Cardinality(NodeAddr) \in Nat
         /\ \A q \in Spots : Reach(P, q) \in 0..(Cardinality(NodeAddr) + 1)
         /\ \A q \in Spots : \A n \in NodeAddr : After(P, q, n) => Reach(P, n) < Reach(P, q)
<1> USE NodeAddrAssumption
<1>1. \A q \in Spots : Left(P, q) \in SUBSET NodeAddr
  BY DEF Left
<1>2. Cardinality(NodeAddr) \in Nat
  BY FS_CardinalityType
<1>3. ASSUME NEW q \in Spots
      PROVE  /\ Cardinality(Left(P, q)) \in 0..Cardinality(NodeAddr)
             /\ IsFiniteSet(Left(P, q))
  <2>1. IsFiniteSet(Left(P, q)) /\ Cardinality(Left(P, q)) <= Cardinality(NodeAddr)
    BY <1>1, FS_Subset
  <2>2. Cardinality(Left(P, q)) \in Nat
    BY <2>1, FS_CardinalityType
  <2>. QED
    BY <1>2, <2>1, <2>2
<1>4. ASSUME NEW q \in Spots PROVE Reach(P, q) \in 0..(Cardinality(NodeAddr) + 1)
  BY <1>2, <1>3 DEF Reach
<1>5. ASSUME NEW q \in NodeAddr, NEW n \in NodeAddr, <<q, n>> \in P PROVE Reach(P, n) < Reach(P, q)
  <2>1. Left(P, n) \in SUBSET Left(P, q) /\ n \in Left(P, q) /\ n \notin Left(P, n)
    BY <1>5 DEF Left, StrictOrder
  <2>2. Cardinality(Left(P, n)) <= Cardinality(Left(P, q)) /\ Cardinality(Left(P, n)) # Cardinality(Left(P, q))
    <3>1. q \in Spots /\ n \in Spots
      BY DEF Spots
    <3>. QED
      BY <1>3, <2>1, <3>1, FS_Subset
  <2>3. q \in Spots /\ n \in Spots /\ q # Dummy /\ n # Dummy
    BY DEF Spots
  <2>. QED
    BY <1>2, <1>3, <2>2, <2>3 DEF Reach
<1>6. ASSUME NEW n \in NodeAddr PROVE Reach(P, n) < Reach(P, Dummy)
  <2>1. n \in Spots /\ n # Dummy /\ Dummy \in Spots
    BY DEF Spots
  <2>2. Reach(P, n) = Cardinality(Left(P, n)) + 0 /\ Reach(P, Dummy) = Cardinality(NodeAddr) + 1
    BY <2>1 DEF Reach, Left
  <2>3. Cardinality(Left(P, n)) \in 0..Cardinality(NodeAddr)
    BY <1>3, <2>1
  <2>. QED
    BY <1>2, <2>2, <2>3
<1>. QED
  BY <1>2, <1>4, <1>5, <1>6 DEF After, Spots

\* w is where the walk on level i stops: the last place before num
Stop(v, x, S, i, num, w) ==
  /\ w \in S \cup {Dummy}
  /\ w # Dummy => v[w] < num
  /\ x[w][i] # Nil => v[x[w][i]] >= num

\* The inner loop ends at the last node before num, if it starts before num.
LEMMA WalkStops ==
  ASSUME NEW P, Forward(val, next, P), NEW i \in LcLevels, NEW num \in Int, NEW p \in Spots
  PROVE  /\ LcWalk(p, i, num) \in Spots
         /\ \A S \in SUBSET NodeAddr :
               Line(next, P, S, i) /\ p \in S \cup {Dummy} /\ (p # Dummy => val[p] < num) =>
                  Stop(val, next, S, i, num, LcWalk(p, i, num))
<1> USE NodeAddrAssumption
<1>1. PICK D : D = Spots
  OBVIOUS
<1>2. PICK x : x = next
  OBVIOUS
<1>3. PICK v : v = val
  OBVIOUS
<1>4. PICK nx : nx = [q \in D |-> x[q][i]]
  OBVIOUS
<1>5. PICK go : go = {q \in D : ~(nx[q] = Nil \/ v[nx[q]] >= num)}
  OBVIOUS
<1>6. PICK base : base = [q \in D |-> q]
  OBVIOUS
<1>7. PICK G : G = [y \in D \X D |-> y[2]]
  OBVIOUS
<1>8. PICK m : m = [q \in D |-> Reach(P, q)]
  OBVIOUS
<1>9. PICK N : N = Cardinality(NodeAddr) + 1
  OBVIOUS
<1>10. /\ v \in [NodeAddr -> Int] /\ x \in [D -> [LcLevels -> NodeAddr \cup {Nil}]]
       /\ \A q \in NodeAddr : x[q][i] # Nil => <<q, x[q][i]>> \in P
       /\ StrictOrder(P, NodeAddr)
  BY <1>1, <1>2, <1>3 DEF Forward
<1>11. \A q \in D : nx[q] \in NodeAddr \cup {Nil}
  BY <1>4, <1>10
<1>12. \A q \in go : nx[q] \in NodeAddr /\ nx[q] \in D /\ m[nx[q]] < m[q]
  <2>1. ASSUME NEW q \in go PROVE nx[q] \in NodeAddr /\ nx[q] \in D /\ m[nx[q]] < m[q]
    <3>1. q \in D /\ nx[q] \in NodeAddr /\ nx[q] \in D
      BY <1>1, <1>5, <1>11 DEF Spots
    <3>2. After(P, q, nx[q])
      BY <1>1, <1>4, <1>10, <3>1 DEF After, Spots
    <3>3. Reach(P, nx[q]) < Reach(P, q)
      BY <1>1, <1>10, <3>1, <3>2, Reaches
    <3>. QED
      BY <1>8, <3>1, <3>3
  <2>. QED
    BY <2>1
<1>13. Descends(D, D, go, nx, base, G, m, N)
  <2>1. N \in Nat /\ m \in [D -> 0..N]
    BY <1>1, <1>8, <1>9, <1>10, Reaches
  <2>2. G \in [D \X D -> D]
    BY <1>7
  <2>. QED
    BY <1>5, <1>6, <1>12, <2>1, <2>2 DEF Descends
<1>14. PICK h : Solves(h, D, D, go, nx, base, G)
  BY <1>13, Recursion
<1> DEFINE Eqn(g) == g = [q \in Spots |-> IF Stops(next[q][i], num) THEN q ELSE g[next[q][i]]]
<1>15. h \in [D -> D] /\ h = [q \in D |-> IF q \in go THEN h[nx[q]] ELSE q]
  <2>1. h \in [D -> D] /\ h = [q \in D |-> IF q \in go THEN G[<<q, h[nx[q]]>>] ELSE base[q]]
    BY <1>14 DEF Solves
  <2>2. \A q \in go : G[<<q, h[nx[q]]>>] = h[nx[q]]
    BY <1>5, <1>7, <1>12, <2>1
  <2>3. \A q \in D : base[q] = q
    BY <1>6
  <2>. QED
    BY <2>1, <2>2, <2>3
<1>16. \A q \in D : /\ next[q][i] = nx[q]
                    /\ Stops(next[q][i], num) <=> q \notin go
  BY <1>2, <1>3, <1>4, <1>5 DEF Stops
<1>17. Eqn(h)
  <2>1. h = [q \in Spots |-> IF Stops(next[q][i], num) THEN q ELSE h[next[q][i]]]
    BY <1>1, <1>15, <1>16
  <2>. QED
    BY <2>1
<1>18. PICK g : g = CHOOSE f : Eqn(f)
  OBVIOUS
<1>19. g = [q \in D |-> IF q \in go THEN g[nx[q]] ELSE q]
  <2>1. Eqn(g)
    BY <1>17, <1>18
  <2>. QED
    BY <1>1, <1>16, <2>1
<1>20. LcWalk(p, i, num) = g[p]
  BY <1>18 DEF LcWalk, Spots
<1> DEFINE Fine(q) == /\ g[q] \in D
                      /\ \A S \in SUBSET NodeAddr :
                           Line(x, P, S, i) /\ q \in S \cup {Dummy} /\ (q # Dummy => v[q] < num) =>
                              Stop(v, x, S, i, num, g[q])
           T == {k \in Nat : \A q \in D : k = m[q] => Fine(q)}
<1>21. ASSUME NEW q \in D, q \notin go PROVE Fine(q)
  <2>1. g[q] = q /\ (nx[q] = Nil \/ v[nx[q]] >= num) /\ nx[q] = x[q][i]
    BY <1>4, <1>5, <1>19, <1>21
  <2>. QED
    BY <2>1 DEF Stop
<1>22. ASSUME NEW q \in go, Fine(nx[q]) PROVE Fine(q)
  <2>1. q \in D /\ g[q] = g[nx[q]] /\ nx[q] = x[q][i] /\ nx[q] \in NodeAddr /\ ~(v[nx[q]] >= num)
    BY <1>4, <1>5, <1>12, <1>19
  <2>2. v[nx[q]] < num
    BY <1>10, <2>1
  <2>3. ASSUME NEW S \in SUBSET NodeAddr, Line(x, P, S, i), q \in S \cup {Dummy}
        PROVE  nx[q] \in S \cup {Dummy}
    BY <2>1, <2>3 DEF Line
  <2>. QED
    BY <1>22, <2>1, <2>2, <2>3
<1>23. \A k \in Nat : (\A j \in 0..(k - 1) : j \in T) => k \in T
  <2> SUFFICES ASSUME NEW k \in Nat, \A j \in 0..(k - 1) : j \in T, NEW q \in D, k = m[q]
               PROVE  Fine(q)
    OBVIOUS
  <2>1. CASE q \in go
    <3>1. nx[q] \in D /\ m[nx[q]] < m[q] /\ m[nx[q]] \in Nat
      BY <1>12, <1>13, <2>1 DEF Descends
    <3>2. m[nx[q]] \in T
      <4>1. m[nx[q]] \in 0..(k - 1)
        BY <3>1
      <4>. QED
        BY <4>1
    <3>3. Fine(nx[q])
      BY <3>1, <3>2
    <3>. QED
      BY <1>22, <2>1, <3>3
  <2>. QED
    BY <1>21, <2>1
<1>24. \A q \in D : Fine(q)
  <2>1. \A k \in Nat : k \in T
    <3> HIDE DEF T
    <3>. QED
      BY <1>23, Induct
  <2>2. \A q \in D : m[q] \in Nat
    BY <1>13 DEF Descends
  <2>. QED
    BY <2>1, <2>2
<1>. QED
  BY <1>1, <1>2, <1>3, <1>20, <1>24

\* up is the last place before num on every level
Ups(v, x, L, num, up) ==
  /\ up \in [LcLevels -> Spots]
  /\ \A i \in LcLevels : Stop(v, x, L[i], i, num, up[i])

\* The predecessors that add, search and erase find are those before num.
LEMMA UpStops ==
  ASSUME NEW P, NEW L, Good(val, next, currentLevel, P, L), NEW num \in Int
  PROVE  Ups(val, next, L, num, Update(num))
<1> USE NodeAddrAssumption, LcAssumption
<1>1. PICK cl : cl = currentLevel
  OBVIOUS
<1>2. PICK D : D = LcLevels
  OBVIOUS
<1>3. PICK V : V = Spots
  OBVIOUS
<1>4. PICK G : G = [y \in D \X V |-> LcWalk(y[2], y[1], num)]
  OBVIOUS
<1>5. PICK go : go = {i \in D : i < cl - 1}
  OBVIOUS
<1>6. PICK nx : nx = [i \in D |-> i + 1]
  OBVIOUS
<1>7. PICK base : base = [i \in D |-> IF i >= cl THEN Dummy ELSE G[<<i, Dummy>>]]
  OBVIOUS
<1>8. PICK m : m = [i \in D |-> MAX_LEVEL - i]
  OBVIOUS
<1>9. Forward(val, next, P) /\ cl \in 0..MAX_LEVEL /\ D = 0..(MAX_LEVEL - 1) /\ Dummy \in V /\ MAX_LEVEL \in Nat
  BY <1>1, <1>2, <1>3 DEF Good, Spots, LcLevels
<1>10. Descends(D, V, go, nx, base, G, m, MAX_LEVEL)
  <2>1. G \in [D \X V -> V]
    <3>1. ASSUME NEW i \in D, NEW w \in V PROVE LcWalk(w, i, num) \in V
      BY <1>2, <1>3, <1>9, WalkStops
    <3>. QED
      BY <1>4, <3>1
  <2>2. base \in [D -> V]
    BY <1>7, <1>9, <2>1
  <2>3. m \in [D -> 0..MAX_LEVEL]
    BY <1>8, <1>9
  <2>4. \A i \in go : nx[i] \in D /\ m[nx[i]] < m[i]
    BY <1>5, <1>6, <1>8, <1>9
  <2>. QED
    BY <1>5, <1>9, <2>1, <2>2, <2>3, <2>4 DEF Descends
<1>11. PICK h : Solves(h, D, V, go, nx, base, G)
  BY <1>10, Recursion
<1> DEFINE Eqn(g) == g = [i \in LcLevels |->
             IF i >= currentLevel THEN Dummy
             ELSE LcWalk(IF i = currentLevel - 1 THEN Dummy ELSE g[i + 1], i, num)]
           Val(g, i) == IF i >= cl THEN Dummy ELSE LcWalk(IF i = cl - 1 THEN Dummy ELSE g[i + 1], i, num)
<1>12. Eqn(h)
  <2>1. h \in [D -> V] /\ h = [i \in D |-> IF i \in go THEN G[<<i, h[nx[i]]>>] ELSE base[i]]
    BY <1>11 DEF Solves
  <2>2. ASSUME NEW i \in D, i \in go PROVE G[<<i, h[nx[i]]>>] = Val(h, i)
    <3>1. nx[i] = i + 1 /\ i + 1 \in D /\ ~(i >= cl) /\ i # cl - 1
      BY <1>5, <1>6, <1>9, <2>2
    <3>2. h[i + 1] \in V
      BY <2>1, <3>1
    <3>. QED
      BY <1>4, <3>1, <3>2
  <2>3. ASSUME NEW i \in D, i \notin go PROVE base[i] = Val(h, i)
    <3>1. CASE i >= cl
      BY <1>7, <3>1
    <3>2. CASE ~(i >= cl)
      <4>1. i = cl - 1
        BY <1>5, <1>9, <2>3, <3>2
      <4>2. G[<<i, Dummy>>] = LcWalk(Dummy, i, num)
        BY <1>4, <1>9
      <4>. QED
        BY <1>7, <3>2, <4>1, <4>2
    <3>. QED
      BY <3>1, <3>2
  <2>4. h = [i \in D |-> Val(h, i)]
    <3> HIDE DEF Val
    <3>. QED
      BY <2>1, <2>2, <2>3
  <2>. QED
    BY <1>1, <1>2, <2>4
<1>13. PICK g : g = CHOOSE f : Eqn(f)
  OBVIOUS
<1>14. Update(num) = g
  BY <1>13 DEF Update
<1>15. Eqn(g)
  <2> HIDE DEF Eqn
  <2>. QED
    BY <1>12, <1>13
<1>16. \A i \in D : g[i] = Val(g, i)
  BY <1>1, <1>2, <1>15
<1> HIDE DEF Eqn
<1> DEFINE Fine(i) == g[i] \in V /\ Stop(val, next, L[i], i, num, g[i])
           T == {k \in Nat : \A i \in D : k = m[i] => Fine(i)}
<1>17. ASSUME NEW i \in D, NEW w \in V, w \in L[i] \cup {Dummy}, w # Dummy => val[w] < num,
              g[i] = LcWalk(w, i, num)
       PROVE  Fine(i)
  <2>1. L[i] \in SUBSET NodeAddr /\ Line(next, P, L[i], i)
    BY <1>2 DEF Good
  <2>. QED
    BY <1>2, <1>3, <1>9, <1>17, <2>1, WalkStops
<1>18. ASSUME NEW i \in D, i \notin go PROVE Fine(i)
  <2>1. CASE i >= cl
    <3>1. g[i] = Dummy
      BY <1>16, <2>1
    <3>2. L[i] = {} /\ Line(next, P, L[i], i)
      BY <1>1, <1>2, <2>1 DEF Good
    <3>3. next[Dummy][i] = Nil
      BY <3>2 DEF Line
    <3>. QED
      BY <1>9, <3>1, <3>3 DEF Stop
  <2>2. CASE ~(i >= cl)
    <3>1. i = cl - 1
      BY <1>5, <1>9, <1>18, <2>2
    <3>2. g[i] = LcWalk(Dummy, i, num)
      BY <1>16, <2>2, <3>1
    <3>. QED
      BY <1>9, <1>17, <3>2
  <2>. QED
    BY <2>1, <2>2
<1>19. ASSUME NEW i \in go, Fine(i + 1) PROVE Fine(i)
  <2>1. i \in D /\ i + 1 \in D /\ ~(i >= cl) /\ i # cl - 1
    BY <1>5, <1>9
  <2>2. g[i] = LcWalk(g[i + 1], i, num)
    BY <1>16, <2>1
  <2>3. g[i + 1] \in V /\ g[i + 1] \in L[i + 1] \cup {Dummy} /\ (g[i + 1] # Dummy => val[g[i + 1]] < num)
    BY <1>19 DEF Stop
  <2>4. L[i + 1] \subseteq L[i]
    <3>1. i <= i + 1
      BY <1>9, <2>1
    <3>. QED
      BY <1>2, <2>1, <3>1 DEF Good
  <2>. QED
    BY <1>17, <2>1, <2>2, <2>3, <2>4
<1>20. \A k \in Nat : (\A j \in 0..(k - 1) : j \in T) => k \in T
  <2> SUFFICES ASSUME NEW k \in Nat, \A j \in 0..(k - 1) : j \in T, NEW i \in D, k = m[i]
               PROVE  Fine(i)
    OBVIOUS
  <2>1. CASE i \in go
    <3>1. i + 1 \in D /\ m[i + 1] \in 0..(k - 1)
      BY <1>5, <1>8, <1>9, <2>1
    <3>2. Fine(i + 1)
      BY <3>1
    <3>. QED
      BY <1>19, <2>1, <3>2
  <2>. QED
    BY <1>18, <2>1
<1>21. \A i \in D : Fine(i)
  <2>1. \A k \in Nat : k \in T
    <3> HIDE DEF T
    <3>. QED
      BY <1>20, Induct
  <2>2. \A i \in D : m[i] \in Nat
    BY <1>10 DEF Descends
  <2>. QED
    BY <2>1, <2>2
<1>22. g \in [D -> V]
  BY <1>1, <1>2, <1>15, <1>21 DEF Eqn
<1>. QED
  BY <1>2, <1>3, <1>14, <1>21, <1>22 DEF Ups

\* the order with new in front of the nodes that are not below num
AddOrder(v, P, new, num) ==
  {e \in NodeAddr \X NodeAddr : IF e[1] = new THEN e[2] # new /\ v[e[2]] >= num
                                ELSE IF e[2] = new THEN v[e[1]] < num ELSE e \in P}

\* the links of add
Added(x, up, new, height) ==
  [q \in Spots |-> [i \in LcLevels |->
     IF i >= height THEN IF q = new THEN Nil ELSE x[q][i]
     ELSE IF q = new THEN x[up[i]][i]
     ELSE IF q = up[i] THEN new ELSE x[q][i]]]

\* After add all links go forward in the order with the new node.
LEMMA AddForward ==
  ASSUME NEW v, NEW x, NEW P, Forward(v, x, P), NEW num \in Int, NEW new \in NodeAddr,
         \A q \in Spots, i \in LcLevels : x[q][i] # new,
         NEW up \in [LcLevels -> Spots],
         \A i \in LcLevels : up[i] # Dummy => v[up[i]] < num,
         \A i \in LcLevels : x[up[i]][i] # Nil => v[x[up[i]][i]] >= num,
         NEW height \in Int
  PROVE  Forward([v EXCEPT ![new] = num], Added(x, up, new, height), AddOrder(v, P, new, num))
<1> DEFINE v2 == [v EXCEPT ![new] = num]
           x2 == Added(x, up, new, height)
           P2 == AddOrder(v, P, new, num)
<1> USE NodeAddrAssumption
<1>1. /\ v \in [NodeAddr -> Int] /\ x \in [Spots -> [LcLevels -> NodeAddr \cup {Nil}]]
      /\ P \subseteq NodeAddr \X NodeAddr
      /\ \A q \in NodeAddr : \A i \in LcLevels : x[q][i] # Nil => <<q, x[q][i]>> \in P
      /\ \A m, n \in NodeAddr : <<m, n>> \in P => v[m] <= v[n]
  BY DEF Forward
<1>2. \A m, n \in NodeAddr : <<m, n>> \in P2 <=> IF m = new THEN n # new /\ v[n] >= num
                                                 ELSE IF n = new THEN v[m] < num ELSE <<m, n>> \in P
  BY DEF AddOrder
<1>3. P2 \subseteq NodeAddr \X NodeAddr
  BY DEF AddOrder
<1>4. v2 \in [NodeAddr -> Int] /\ v2[new] = num /\ \A n \in NodeAddr : n # new => v2[n] = v[n]
  BY <1>1
<1>5. \A q \in Spots, i \in LcLevels :
         x2[q][i] = IF i >= height THEN IF q = new THEN Nil ELSE x[q][i]
                    ELSE IF q = new THEN x[up[i]][i]
                    ELSE IF q = up[i] THEN new ELSE x[q][i]
  BY DEF Added
<1>6. x2 \in [Spots -> [LcLevels -> NodeAddr \cup {Nil}]]
  BY <1>1 DEF Added
<1> HIDE DEF v2, x2, P2
<1>7. StrictOrder(P2, NodeAddr)
  <2>1. \A m \in NodeAddr : <<m, m>> \notin P2
    BY <1>1, <1>2 DEF Forward, StrictOrder
  <2>2. \A m, n \in NodeAddr : m # n => <<m, n>> \in P2 \/ <<n, m>> \in P2
    <3>1. \A m, n \in NodeAddr : m # n => <<m, n>> \in P \/ <<n, m>> \in P
      BY DEF Forward, StrictOrder
    <3>2. \A n \in NodeAddr : v[n] < num \/ v[n] >= num
      BY <1>1
    <3>. QED
      BY <1>2, <3>1, <3>2
  <2>3. ASSUME NEW m \in NodeAddr, NEW n \in NodeAddr, NEW o \in NodeAddr,
               <<m, n>> \in P2, <<n, o>> \in P2
        PROVE  <<m, o>> \in P2
    <3>1. v[m] \in Int /\ v[n] \in Int /\ v[o] \in Int
      BY <1>1
    <3>2. CASE m = new
      <4>1. n # new /\ v[n] >= num /\ o # new /\ <<n, o>> \in P
        BY <1>2, <2>3, <3>1, <3>2
      <4>2. v[n] <= v[o]
        BY <1>1, <4>1
      <4>. QED
        BY <1>2, <3>1, <3>2, <4>1, <4>2
    <3>3. CASE n = new
      <4>1. v[m] < num /\ o # new /\ v[o] >= num /\ m # new
        BY <1>2, <2>3, <3>3
      <4>2. m # o
        BY <3>1, <4>1
      <4>3. <<m, o>> \in P \/ <<o, m>> \in P
        BY <4>2 DEF Forward, StrictOrder
      <4>4. <<o, m>> \notin P
        BY <1>1, <3>1, <4>1
      <4>. QED
        BY <1>2, <4>1, <4>3, <4>4
    <3>4. CASE o = new /\ m # new /\ n # new
      <4>1. <<m, n>> \in P /\ v[n] < num
        BY <1>2, <2>3, <3>4
      <4>2. v[m] <= v[n]
        BY <1>1, <4>1
      <4>. QED
        BY <1>2, <3>1, <3>4, <4>1, <4>2
    <3>5. CASE o # new /\ m # new /\ n # new
      <4>1. <<m, n>> \in P /\ <<n, o>> \in P
        BY <1>2, <2>3, <3>5
      <4>2. <<m, o>> \in P
        BY <4>1 DEF Forward, StrictOrder
      <4>. QED
        BY <1>2, <3>5, <4>2
    <3>. QED
      BY <3>2, <3>3, <3>4, <3>5
  <2>. QED
    BY <2>1, <2>2, <2>3 DEF StrictOrder
<1>8. ASSUME NEW m \in NodeAddr, NEW n \in NodeAddr, <<m, n>> \in P2 PROVE v2[m] <= v2[n]
  <2>1. v[m] \in Int /\ v[n] \in Int
    BY <1>1
  <2>2. CASE m = new
    <3>1. n # new /\ v[n] >= num
      BY <1>2, <1>8, <2>2
    <3>. QED
      BY <1>4, <2>1, <2>2, <3>1
  <2>3. CASE m # new /\ n = new
    <3>1. v[m] < num
      BY <1>2, <1>8, <2>3
    <3>. QED
      BY <1>4, <2>1, <2>3, <3>1
  <2>4. CASE m # new /\ n # new
    <3>1. <<m, n>> \in P
      BY <1>2, <1>8, <2>4
    <3>. QED
      BY <1>1, <1>4, <2>4, <3>1
  <2>. QED
    BY <2>2, <2>3, <2>4
<1>9. ASSUME NEW q \in NodeAddr, NEW i \in LcLevels, x2[q][i] # Nil PROVE <<q, x2[q][i]>> \in P2
  <2>1. q \in Spots /\ up[i] \in Spots /\ x[up[i]][i] \in NodeAddr \cup {Nil} /\ x[q][i] \in NodeAddr \cup {Nil}
    BY <1>1 DEF Spots
  <2>2. x[up[i]][i] # new /\ x[q][i] # new
    BY <2>1
  <2>3. CASE q = new
    <3>1. x2[q][i] = x[up[i]][i] /\ x[up[i]][i] # Nil
      BY <1>5, <1>9, <2>1, <2>3
    <3>. QED
      BY <1>2, <2>1, <2>2, <2>3, <3>1
  <2>4. CASE q # new /\ x2[q][i] = new
    <3>1. q = up[i] /\ q # Dummy
      BY <1>5, <2>1, <2>2, <2>4
    <3>2. v[q] < num
      BY <3>1
    <3>. QED
      BY <1>2, <2>4, <3>2
  <2>5. CASE q # new /\ x2[q][i] # new
    <3>1. x2[q][i] = x[q][i]
      BY <1>5, <2>1, <2>5
    <3>2. <<q, x[q][i]>> \in P
      BY <1>1, <1>9, <3>1
    <3>. QED
      BY <1>2, <1>9, <2>1, <2>5, <3>1, <3>2
  <2>. QED
    BY <2>3, <2>4, <2>5
<1>10. Forward(v2, x2, P2)
  BY <1>3, <1>4, <1>6, <1>7, <1>8, <1>9 DEF Forward
<1>. QED
  BY <1>10 DEF v2, x2, P2

\* new is linked in front of the first node that is not below num
LEMMA AddLine ==
  ASSUME NEW v, NEW x, NEW P, Forward(v, x, P), NEW num \in Int, NEW new \in NodeAddr,
         \A q \in Spots, i \in LcLevels : x[q][i] # new,
         NEW i \in LcLevels, NEW S \in SUBSET NodeAddr, Line(x, P, S, i),
         NEW up \in [LcLevels -> Spots], Stop(v, x, S, i, num, up[i]),
         NEW height \in Int, i < height
  PROVE  Line(Added(x, up, new, height), AddOrder(v, P, new, num), S \cup {new}, i)
<1> DEFINE x2 == Added(x, up, new, height)
           P2 == AddOrder(v, P, new, num)
           u == up[i]
           S2 == S \cup {new}
<1> USE NodeAddrAssumption
<1>1. /\ v \in [NodeAddr -> Int] /\ x \in [Spots -> [LcLevels -> NodeAddr \cup {Nil}]]
      /\ P \subseteq NodeAddr \X NodeAddr
      /\ \A m, n \in NodeAddr : <<m, n>> \in P => v[m] <= v[n]
      /\ \A m, n \in NodeAddr : m # n => <<m, n>> \in P \/ <<n, m>> \in P
  BY DEF Forward, StrictOrder
<1>2. \A m, n \in NodeAddr : <<m, n>> \in P2 <=> IF m = new THEN n # new /\ v[n] >= num
                                                 ELSE IF n = new THEN v[m] < num ELSE <<m, n>> \in P
  BY DEF AddOrder
<1>3. \A q \in Spots : x2[q][i] = IF q = new THEN x[u][i] ELSE IF q = u THEN new ELSE x[q][i]
  <2>1. i \in Int /\ ~(i >= height)
    BY DEF LcLevels
  <2>. QED
    BY <2>1 DEF Added
<1>4. /\ u \in S \cup {Dummy} /\ (u # Dummy => v[u] < num)
      /\ x[u][i] # Nil => v[x[u][i]] >= num
      /\ u \in Spots
  BY DEF Stop
<1>5. /\ \A q \in S \cup {Dummy} : x[q][i] \in S \cup {Nil}
      /\ \A q \in S \cup {Dummy} : \A n \in S :
            After(P, q, n) => x[q][i] # Nil /\ (n = x[q][i] \/ <<x[q][i], n>> \in P)
      /\ \A n \in S : \E q \in S \cup {Dummy} : x[q][i] = n
  BY DEF Line
<1>6. \A q \in Spots : x[q][i] # new
  OBVIOUS
<1>7. S \cup {Dummy} \subseteq Spots /\ S2 \cup {Dummy} \subseteq Spots
  BY DEF Spots
<1>8. new \notin S /\ u # new
  BY <1>4, <1>5, <1>6, <1>7
<1> HIDE DEF x2, P2, u
<1>9. ASSUME NEW q \in S2 \cup {Dummy} PROVE x2[q][i] \in S2 \cup {Nil}
  BY <1>3, <1>4, <1>5, <1>7
<1>10. ASSUME NEW n \in S2 PROVE \E q \in S2 \cup {Dummy} : x2[q][i] = n
  <2>1. CASE n = new
    <3>1. x2[u][i] = new
      BY <1>3, <1>4, <1>8
    <3>. QED
      BY <1>4, <2>1, <3>1
  <2>2. CASE n # new
    <3>1. PICK q \in S \cup {Dummy} : x[q][i] = n
      BY <1>5, <2>2
    <3>2. CASE q = u
      <4>1. x2[new][i] = n
        BY <1>3, <1>7, <3>1, <3>2
      <4>. QED
        BY <4>1
    <3>3. CASE q # u
      <4>1. q # new
        BY <1>8
      <4>2. x2[q][i] = n
        BY <1>3, <1>7, <3>1, <3>3, <4>1
      <4>. QED
        BY <4>2
    <3>. QED
      BY <3>2, <3>3
  <2>. QED
    BY <2>1, <2>2
<1>11. ASSUME NEW q \in S2 \cup {Dummy}, NEW n \in S2, After(P2, q, n)
       PROVE  x2[q][i] # Nil /\ (n = x2[q][i] \/ <<x2[q][i], n>> \in P2)
  <2>1. CASE q = new
    <3>1. n \in S /\ n # new /\ v[n] >= num
      BY <1>2, <1>11, <2>1 DEF After
    <3>2. After(P, u, n)
      <4>1. CASE u = Dummy
        BY <4>1 DEF After
      <4>2. CASE u # Dummy
        <5>1. u \in NodeAddr /\ v[u] < num /\ v[n] \in Int /\ v[u] \in Int
          BY <1>1, <1>4, <3>1, <4>2
        <5>2. ~(v[n] <= v[u]) /\ u # n
          BY <3>1, <5>1
        <5>. QED
          BY <1>1, <3>1, <5>1, <5>2 DEF After
      <4>. QED
        BY <4>1, <4>2
    <3>3. x[u][i] # Nil /\ (n = x[u][i] \/ <<x[u][i], n>> \in P)
      BY <1>4, <1>5, <3>1, <3>2
    <3>4. x2[q][i] = x[u][i] /\ x[u][i] \in S /\ x[u][i] # new
      BY <1>3, <1>4, <1>5, <1>6, <1>7, <2>1, <3>3
    <3>. QED
      BY <1>2, <3>1, <3>3, <3>4
  <2>2. CASE q = u
    <3>1. x2[q][i] = new
      BY <1>3, <1>4, <1>8, <2>2
    <3>2. CASE n # new
      <4>1. n \in S /\ After(P, u, n)
        BY <1>2, <1>4, <1>8, <1>11, <2>2, <3>2 DEF After
      <4>2. x[u][i] # Nil /\ (n = x[u][i] \/ <<x[u][i], n>> \in P) /\ x[u][i] \in S
        BY <1>4, <1>5, <4>1
      <4>3. v[x[u][i]] >= num /\ v[x[u][i]] <= v[n]
        BY <1>1, <1>4, <4>1, <4>2
      <4>4. v[n] >= num
        <5>1. v[x[u][i]] \in Int /\ v[n] \in Int
          BY <1>1, <4>1, <4>2
        <5>. QED
          BY <4>3, <5>1
      <4>. QED
        BY <1>2, <3>1, <3>2, <4>1, <4>4
    <3>. QED
      BY <3>1, <3>2
  <2>3. CASE q # new /\ q # u
    <3>1. x2[q][i] = x[q][i] /\ q \in S \cup {Dummy} /\ x[q][i] # new
      BY <1>3, <1>6, <1>7, <2>3
    <3>2. CASE n # new
      <4>1. n \in S /\ After(P, q, n)
        BY <1>2, <1>11, <2>3, <3>2 DEF After
      <4>2. x[q][i] # Nil /\ (n = x[q][i] \/ <<x[q][i], n>> \in P) /\ x[q][i] \in S
        BY <1>5, <3>1, <4>1
      <4>. QED
        BY <1>2, <3>1, <3>2, <4>1, <4>2
    <3>3. CASE n = new
      <4>1. q = Dummy \/ (q \in S /\ v[q] < num)
        BY <1>2, <1>11, <2>3, <3>1, <3>3 DEF After
      <4>2. ASSUME u = Dummy \/ (q # Dummy /\ <<u, q>> \in P) PROVE FALSE
        <5>1. q \in S /\ v[q] < num /\ After(P, u, q)
          BY <2>3, <4>1, <4>2 DEF After
        <5>2. x[u][i] # Nil /\ (q = x[u][i] \/ <<x[u][i], q>> \in P) /\ x[u][i] \in S
          BY <1>4, <1>5, <5>1
        <5>3. v[x[u][i]] >= num /\ v[x[u][i]] <= v[q] /\ v[x[u][i]] \in Int /\ v[q] \in Int
          BY <1>1, <1>4, <5>1, <5>2
        <5>. QED
          BY <5>1, <5>3
      <4>3. u \in S /\ After(P, q, u)
        BY <1>1, <1>4, <2>3, <3>1, <4>2 DEF After
      <4>4. x[q][i] # Nil /\ (u = x[q][i] \/ <<x[q][i], u>> \in P) /\ x[q][i] \in S
        BY <1>5, <3>1, <4>3
      <4>5. v[x[q][i]] <= v[u] /\ v[u] < num /\ v[x[q][i]] \in Int /\ v[u] \in Int
        BY <1>1, <1>4, <4>3, <4>4
      <4>6. v[x[q][i]] < num
        BY <4>5
      <4>. QED
        BY <1>2, <3>1, <3>3, <4>4, <4>6
    <3>. QED
      BY <3>2, <3>3
  <2>. QED
    BY <2>1, <2>2, <2>3
<1>12. Line(x2, P2, S2, i)
  BY <1>9, <1>10, <1>11 DEF Line
<1>. QED
  BY <1>12 DEF x2, P2

\* levels above the new node keep their links
LEMMA AddAbove ==
  ASSUME NEW v, NEW x, NEW P, Forward(v, x, P), NEW num \in Int, NEW new \in NodeAddr,
         \A q \in Spots, i \in LcLevels : x[q][i] # new,
         NEW i \in LcLevels, NEW S \in SUBSET NodeAddr, Line(x, P, S, i),
         NEW up \in [LcLevels -> Spots],
         NEW height \in Int, i >= height
  PROVE  Line(Added(x, up, new, height), AddOrder(v, P, new, num), S, i)
<1> DEFINE x2 == Added(x, up, new, height)
           P2 == AddOrder(v, P, new, num)
<1> USE NodeAddrAssumption
<1>1. \A m, n \in NodeAddr \ {new} : <<m, n>> \in P2 <=> <<m, n>> \in P
  BY DEF AddOrder
<1>2. \A q \in S \cup {Dummy} : q \in Spots
  BY DEF Spots
<1>3. new \notin S
  BY <1>2 DEF Line
<1>4. \A q \in S \cup {Dummy} : x2[q][i] = x[q][i]
  BY <1>2, <1>3 DEF Added
<1> HIDE DEF x2, P2
<1>5. \A q \in S \cup {Dummy}, n \in S : After(P2, q, n) <=> After(P, q, n)
  BY <1>1, <1>3 DEF After
<1>6. Line(x2, P2, S, i)
  <2>1. \A q \in S \cup {Dummy} : x2[q][i] \in S \cup {Nil}
    BY <1>4 DEF Line
  <2>2. ASSUME NEW q \in S \cup {Dummy}, NEW n \in S, After(P2, q, n)
        PROVE  x2[q][i] # Nil /\ (n = x2[q][i] \/ <<x2[q][i], n>> \in P2)
    <3>1. x[q][i] # Nil /\ (n = x[q][i] \/ <<x[q][i], n>> \in P) /\ x[q][i] \in S \cup {Nil}
      BY <1>5, <2>2 DEF Line
    <3>. QED
      BY <1>1, <1>3, <1>4, <3>1
  <2>3. \A n \in S : \E q \in S \cup {Dummy} : x2[q][i] = n
    BY <1>4 DEF Line
  <2>. QED
    BY <2>1, <2>2, <2>3 DEF Line
<1>. QED
  BY <1>6 DEF x2, P2

\* What LcAdd makes of a list with Good.
AddKeeps(v, x, cl, P, L, num, new, up, height) ==
  Good([v EXCEPT ![new] = num], Added(x, up, new, height),
       IF height > cl THEN height ELSE cl, AddOrder(v, P, new, num),
       [i \in LcLevels |-> IF i < height THEN L[i] \cup {new} ELSE L[i]])

\* add keeps the list good: the new node is on the levels below its height.
LEMMA AddGood ==
  ASSUME NEW v, NEW x, NEW cl, NEW P, NEW L, Good(v, x, cl, P, L), NEW num \in Numbers,
         NEW new \in NodeAddr, \A q \in Spots, i \in LcLevels : x[q][i] # new,
         NEW up, Ups(v, x, L, num, up), NEW height \in 1..MAX_LEVEL
  PROVE  AddKeeps(v, x, cl, P, L, num, new, up, height)
<1> SUFFICES Good([v EXCEPT ![new] = num], Added(x, up, new, height),
                  IF height > cl THEN height ELSE cl, AddOrder(v, P, new, num),
                  [i \in LcLevels |-> IF i < height THEN L[i] \cup {new} ELSE L[i]])
  BY DEF AddKeeps
<1> DEFINE v2 == [v EXCEPT ![new] = num]
           x2 == Added(x, up, new, height)
           P2 == AddOrder(v, P, new, num)
           c2 == IF height > cl THEN height ELSE cl
           L2 == [i \in LcLevels |-> IF i < height THEN L[i] \cup {new} ELSE L[i]]
<1> USE LcAssumption
<1>1. num \in Int /\ height \in Int /\ MAX_LEVEL \in Nat \ {0} /\ cl \in 0..MAX_LEVEL
  BY DEF Good
<1>2. up \in [LcLevels -> Spots] /\ \A i \in LcLevels : Stop(v, x, L[i], i, num, up[i])
  BY DEF Ups
<1>3. Forward(v, x, P) /\ \A i \in LcLevels : L[i] \in SUBSET NodeAddr /\ Line(x, P, L[i], i)
  BY DEF Good
<1>4. Forward(v2, x2, P2)
  <2>1. \A i \in LcLevels : /\ up[i] # Dummy => v[up[i]] < num
                            /\ x[up[i]][i] # Nil => v[x[up[i]][i]] >= num
    BY <1>2 DEF Stop
  <2>. QED
    BY <1>1, <1>2, <1>3, <2>1, AddForward
<1>5. \A i \in LcLevels : L2[i] = IF i < height THEN L[i] \cup {new} ELSE L[i]
  OBVIOUS
<1>6. L2 \in [LcLevels -> SUBSET NodeAddr]
  BY <1>3
<1>7. ASSUME NEW i \in LcLevels PROVE Line(x2, P2, L2[i], i)
  <2>1. CASE i < height
    <3>1. Line(x2, P2, L[i] \cup {new}, i)
      BY <1>1, <1>2, <1>3, <2>1, AddLine
    <3>. QED
      BY <1>5, <2>1, <3>1
  <2>2. CASE ~(i < height)
    <3>1. i >= height
      BY <1>1, <2>2 DEF LcLevels
    <3>2. Line(x2, P2, L[i], i)
      BY <1>1, <1>2, <1>3, <3>1, AddAbove
    <3>. QED
      BY <1>5, <2>2, <3>2
  <2>. QED
    BY <2>1, <2>2
<1>8. v2 \in [NodeAddr -> Int] /\ v2[new] = num /\ \A n \in NodeAddr : n # new => v2[n] = v[n]
  BY <1>1, <1>3 DEF Forward
<1> HIDE DEF v2, x2, P2, L2
<1>9. \A i, j \in LcLevels : j <= i => L2[i] \subseteq L2[j]
  <2>1. ASSUME NEW i \in LcLevels, NEW j \in LcLevels, j <= i PROVE L2[i] \subseteq L2[j]
    <3>1. L[i] \subseteq L[j] /\ (i < height => j < height)
      BY <1>1, <2>1 DEF Good, LcLevels
    <3>. QED
      BY <1>5, <3>1
  <2>. QED
    BY <2>1
<1>10. \A i \in LcLevels : i >= c2 => L2[i] = {}
  <2>1. ASSUME NEW i \in LcLevels, i >= c2 PROVE L2[i] = {}
    <3>1. i >= cl /\ ~(i < height)
      BY <1>1, <2>1 DEF LcLevels
    <3>. QED
      BY <1>5, <3>1 DEF Good
  <2>. QED
    BY <2>1
<1>11. \A i \in 1..(c2 - 1) : L2[i] # {}
  <2>1. ASSUME NEW i \in 1..(c2 - 1) PROVE L2[i] # {}
    <3>1. i \in LcLevels /\ (i < height \/ i \in 1..(cl - 1))
      BY <1>1 DEF LcLevels
    <3>2. CASE i < height
      BY <1>5, <3>1, <3>2
    <3>3. CASE ~(i < height)
      <4>1. L2[i] = L[i] /\ i \in 1..(cl - 1)
        BY <1>5, <3>1, <3>3
      <4>. QED
        BY <4>1 DEF Good
    <3>. QED
      BY <3>2, <3>3
  <2>. QED
    BY <2>1
<1>12. \A n \in L2[0] : v2[n] \in Numbers
  <2>1. 0 \in LcLevels
    BY <1>1 DEF LcLevels
  <2>2. \A n \in L2[0] : n = new \/ n \in L[0]
    BY <1>5, <2>1
  <2>3. \A n \in L[0] : n \in NodeAddr /\ v[n] \in Numbers
    BY <1>3, <2>1 DEF Good
  <2>. QED
    BY <1>8, <2>2, <2>3
<1>13. c2 \in 0..MAX_LEVEL
  BY <1>1
<1>14. Good(v2, x2, c2, P2, L2)
  BY <1>4, <1>6, <1>7, <1>9, <1>10, <1>11, <1>12, <1>13 DEF Good
<1>. QED
  BY <1>14 DEF v2, x2, P2, L2

\* the links of erase, before nodes that nothing refers to are forgotten
Cut(v, x, cl, num, up) ==
  [q \in Spots |-> [i \in LcLevels |->
     IF i < cl /\ q = up[i] /\ x[q][i] # Nil /\ v[x[q][i]] = num
     THEN x[x[q][i]][i] ELSE x[q][i]]]

\* the links after erase, with those of unreachable nodes forgotten
Kept(y) ==
  [q \in Spots |-> IF q = Dummy \/ \E r \in Spots, i \in LcLevels : y[r][i] = q
                   THEN y[q] ELSE [i \in LcLevels |-> Nil]]

\* After erase all links still go forward.
LEMMA CutForward ==
  ASSUME NEW v, NEW x, NEW P, Forward(v, x, P), NEW cl, NEW num,
         NEW up \in [LcLevels -> Spots]
  PROVE  Forward(v, Cut(v, x, cl, num, up), P) /\ Forward(v, Kept(Cut(v, x, cl, num, up)), P)
<1> DEFINE y == Cut(v, x, cl, num, up)
           z == Kept(y)
<1> USE NodeAddrAssumption
<1>1. /\ x \in [Spots -> [LcLevels -> NodeAddr \cup {Nil}]]
      /\ P \subseteq NodeAddr \X NodeAddr
      /\ \A m, n, o \in NodeAddr : <<m, n>> \in P /\ <<n, o>> \in P => <<m, o>> \in P
      /\ \A q \in NodeAddr : \A i \in LcLevels : x[q][i] # Nil => <<q, x[q][i]>> \in P
  BY DEF Forward, StrictOrder
<1>2. \A q \in Spots, i \in LcLevels :
        y[q][i] = IF i < cl /\ q = up[i] /\ x[q][i] # Nil /\ v[x[q][i]] = num
                  THEN x[x[q][i]][i] ELSE x[q][i]
  BY DEF Cut
<1>3. \A q \in Spots, i \in LcLevels : y[q][i] \in NodeAddr \cup {Nil}
  BY <1>1, <1>2 DEF Spots
<1>4. y \in [Spots -> [LcLevels -> NodeAddr \cup {Nil}]]
  <2>1. y = [q \in Spots |-> [i \in LcLevels |-> y[q][i]]]
    BY DEF Cut
  <2>. QED
    BY <1>3, <2>1
<1>5. ASSUME NEW q \in NodeAddr, NEW i \in LcLevels, y[q][i] # Nil PROVE <<q, y[q][i]>> \in P
  <2>1. q \in Spots /\ x[q][i] \in NodeAddr \cup {Nil}
    BY <1>1 DEF Spots
  <2>2. CASE y[q][i] = x[q][i]
    BY <1>1, <1>5, <2>2
  <2>3. CASE y[q][i] # x[q][i]
    <3>1. x[q][i] # Nil /\ y[q][i] = x[x[q][i]][i]
      BY <1>2, <2>1, <2>3
    <3>2. <<q, x[q][i]>> \in P /\ <<x[q][i], y[q][i]>> \in P /\ y[q][i] \in NodeAddr
      BY <1>1, <1>3, <1>5, <2>1, <3>1
    <3>. QED
      BY <1>1, <2>1, <3>1, <3>2
  <2>. QED
    BY <2>2, <2>3
<1> HIDE DEF y
<1>6. \A q \in Spots, i \in LcLevels : z[q][i] = y[q][i] \/ z[q][i] = Nil
  BY DEF Kept
<1>7. z \in [Spots -> [LcLevels -> NodeAddr \cup {Nil}]]
  BY <1>4 DEF Kept
<1>8. Forward(v, y, P)
  BY <1>4, <1>5 DEF Forward
<1> HIDE DEF z
<1>9. ASSUME NEW q \in NodeAddr, NEW i \in LcLevels, z[q][i] # Nil PROVE <<q, z[q][i]>> \in P
  <2>1. q \in Spots
    BY DEF Spots
  <2>. QED
    BY <1>5, <1>6, <1>9, <2>1
<1>10. Forward(v, z, P)
  BY <1>7, <1>9 DEF Forward
<1>. QED
  BY <1>8, <1>10 DEF y, z

\* the node that erase takes out of a level, if there is one
Hit(v, x, num, up, i) == IF x[up[i]][i] # Nil /\ v[x[up[i]][i]] = num THEN {x[up[i]][i]} ELSE {}

\* erase takes out of a level its first node with num, and nothing else.
LEMMA CutLine ==
  ASSUME NEW v, NEW x, NEW P, Forward(v, x, P), NEW cl, NEW num \in Int,
         NEW i \in LcLevels, NEW S \in SUBSET NodeAddr, Line(x, P, S, i),
         NEW up \in [LcLevels -> Spots], Stop(v, x, S, i, num, up[i]),
         ~(i < cl) => S = {}
  PROVE  Line(Cut(v, x, cl, num, up), P, S \ Hit(v, x, num, up, i), i)
<1> DEFINE y == Cut(v, x, cl, num, up)
           u == up[i]
           S2 == S \ Hit(v, x, num, up, i)
<1> USE NodeAddrAssumption
<1>1. /\ x \in [Spots -> [LcLevels -> NodeAddr \cup {Nil}]]
      /\ \A m \in NodeAddr : <<m, m>> \notin P
      /\ \A m, n, o \in NodeAddr : <<m, n>> \in P /\ <<n, o>> \in P => <<m, o>> \in P
      /\ \A m, n \in NodeAddr : m # n => <<m, n>> \in P \/ <<n, m>> \in P
      /\ \A q \in NodeAddr : x[q][i] # Nil => <<q, x[q][i]>> \in P
  BY DEF Forward, StrictOrder
<1>2. /\ \A q \in S \cup {Dummy} : x[q][i] \in S \cup {Nil}
      /\ \A q \in S \cup {Dummy} : \A n \in S :
            After(P, q, n) => x[q][i] # Nil /\ (n = x[q][i] \/ <<x[q][i], n>> \in P)
      /\ \A n \in S : \E q \in S \cup {Dummy} : x[q][i] = n
  BY DEF Line
<1>3. u \in S \cup {Dummy} /\ u \in Spots
  BY DEF Stop
<1>4. \A q \in S \cup {Dummy} : q \in Spots
  BY DEF Spots
<1>5. CASE x[u][i] # Nil /\ v[x[u][i]] = num
  <2> DEFINE f == x[u][i]
  <2>1. f \in S /\ f \in NodeAddr /\ f # Dummy /\ i < cl /\ S2 = S \ {f} /\ f # Nil
    BY <1>2, <1>3, <1>5 DEF Hit
  <2>2. \A q \in S \cup {Dummy} : y[q][i] = IF q = u THEN x[f][i] ELSE x[q][i]
    BY <1>4, <1>5, <2>1 DEF Cut
  <2>3. x[f][i] \in S \cup {Nil} /\ x[f][i] # f /\ f # u
    <3>1. x[f][i] \in S \cup {Nil} /\ x[f][i] # f
      BY <1>1, <1>2, <2>1
    <3>2. f # u
      BY <1>1, <2>1, <3>1
    <3>. QED
      BY <3>1, <3>2
  <2> HIDE DEF y, S2
  <2>4. ASSUME NEW q \in S \cup {Dummy}, q # u PROVE x[q][i] # f
    <3>1. CASE After(P, q, u) /\ u \in S
      <4>1. x[q][i] # Nil /\ (u = x[q][i] \/ <<x[q][i], u>> \in P)
        BY <1>2, <3>1
      <4>2. <<u, f>> \in P
        BY <1>1, <2>1, <3>1
      <4>3. ASSUME <<f, u>> \in P PROVE FALSE
        <5>1. <<f, f>> \in P
          BY <1>1, <2>1, <3>1, <4>2, <4>3
        <5>. QED
          BY <1>1, <2>1, <5>1
      <4>. QED
        BY <2>3, <4>1, <4>3
    <3>2. CASE After(P, u, q) /\ q \in S
      <4>1. q = f \/ <<f, q>> \in P
        BY <1>2, <1>3, <3>2
      <4>2. ASSUME x[q][i] = f PROVE FALSE
        <5>1. <<q, f>> \in P
          BY <1>1, <2>1, <3>2, <4>2
        <5>2. <<f, f>> \in P
          BY <1>1, <2>1, <3>2, <4>1, <5>1
        <5>. QED
          BY <1>1, <2>1, <5>2
      <4>. QED
        BY <4>2
    <3>3. (After(P, q, u) /\ u \in S) \/ (After(P, u, q) /\ q \in S)
      BY <1>1, <1>3, <2>4 DEF After
    <3>. QED
      BY <3>1, <3>2, <3>3
  <2>5. ASSUME NEW q \in S2 \cup {Dummy} PROVE y[q][i] \in S2 \cup {Nil}
    <3>1. q \in S \cup {Dummy}
      BY <2>1
    <3>. QED
      BY <1>2, <2>1, <2>2, <2>3, <2>4, <3>1
  <2>6. ASSUME NEW n \in S2 PROVE \E q \in S2 \cup {Dummy} : y[q][i] = n
    <3>1. PICK q \in S \cup {Dummy} : x[q][i] = n
      BY <1>2, <2>1
    <3>2. CASE q = f
      <4>1. y[u][i] = n
        BY <1>3, <2>2, <3>1, <3>2
      <4>2. u \in S2 \cup {Dummy}
        BY <1>3, <2>1, <2>3
      <4>. QED
        BY <4>1, <4>2
    <3>3. CASE q # f
      <4>1. q # u
        BY <2>1, <3>1
      <4>2. y[q][i] = n /\ q \in S2 \cup {Dummy}
        BY <2>1, <2>2, <3>1, <3>3, <4>1
      <4>. QED
        BY <4>2
    <3>. QED
      BY <3>2, <3>3
  <2>7. ASSUME NEW q \in S2 \cup {Dummy}, NEW n \in S2, After(P, q, n)
        PROVE  y[q][i] # Nil /\ (n = y[q][i] \/ <<y[q][i], n>> \in P)
    <3>1. q \in S \cup {Dummy} /\ n \in S /\ n # f
      BY <2>1
    <3>2. x[q][i] # Nil /\ (n = x[q][i] \/ <<x[q][i], n>> \in P)
      BY <1>2, <2>7, <3>1
    <3>3. CASE q = u
      <4>1. After(P, f, n)
        BY <3>1, <3>2, <3>3 DEF After
      <4>. QED
        BY <1>2, <2>1, <2>2, <3>1, <3>3, <4>1
    <3>. QED
      BY <2>2, <3>1, <3>2, <3>3
  <2>. QED
    BY <2>5, <2>6, <2>7 DEF Line, y, S2
<1>6. CASE ~(x[u][i] # Nil /\ v[x[u][i]] = num)
  <2>1. S2 = S
    BY <1>6 DEF Hit
  <2>2. \A q \in S \cup {Dummy} : y[q][i] = x[q][i]
    BY <1>4, <1>6 DEF Cut
  <2> HIDE DEF y, S2
  <2>. QED
    BY <1>2, <2>1, <2>2 DEF Line, y, S2
<1>. QED
  BY <1>5, <1>6

\* erase keeps the list good: the node it takes from a level is the first with
\* num there, hence on every level above that has it, and is taken there too.
LEMMA EraseGood ==
  ASSUME NEW v, NEW x, NEW cl, NEW P, NEW L, Good(v, x, cl, P, L), NEW num \in Int,
         NEW up, Ups(v, x, L, num, up), NEW y, y = Cut(v, x, cl, num, up)
  PROVE  Good(v, Kept(y), cl - Cardinality({i \in 0..(cl - 1) : y[Dummy][i] = Nil}), P,
              [i \in LcLevels |-> L[i] \ Hit(v, x, num, up, i)])
<1> DEFINE z == Kept(y)
           E == {i \in 0..(cl - 1) : y[Dummy][i] = Nil}
           c2 == cl - Cardinality(E)
           H(i) == Hit(v, x, num, up, i)
           L2 == [i \in LcLevels |-> L[i] \ H(i)]
<1> USE LcAssumption, NodeAddrAssumption
<1>1. MAX_LEVEL \in Nat \ {0} /\ cl \in 0..MAX_LEVEL /\ LcLevels = 0..(MAX_LEVEL - 1)
  BY DEF Good, LcLevels
<1>2. up \in [LcLevels -> Spots] /\ \A i \in LcLevels : Stop(v, x, L[i], i, num, up[i])
  BY DEF Ups
<1>3. Forward(v, x, P) /\ \A i \in LcLevels : L[i] \in SUBSET NodeAddr /\ Line(x, P, L[i], i)
  BY DEF Good
<1>4. /\ x \in [Spots -> [LcLevels -> NodeAddr \cup {Nil}]]
      /\ v \in [NodeAddr -> Int]
      /\ \A m \in NodeAddr : <<m, m>> \notin P
      /\ \A m, n, o \in NodeAddr : <<m, n>> \in P /\ <<n, o>> \in P => <<m, o>> \in P
      /\ \A m, n \in NodeAddr : m # n => <<m, n>> \in P \/ <<n, m>> \in P
      /\ \A m, n \in NodeAddr : <<m, n>> \in P => v[m] <= v[n]
  BY <1>3 DEF Forward, StrictOrder
<1>5. Forward(v, z, P)
  BY <1>2, <1>3, CutForward
<1>6. \A i \in LcLevels : L2[i] = L[i] \ H(i)
  OBVIOUS
<1>7. L2 \in [LcLevels -> SUBSET NodeAddr]
  BY <1>3
<1> HIDE DEF H, L2, z
<1>8. ASSUME NEW i \in LcLevels PROVE Line(y, P, L2[i], i)
  <2>1. ~(i < cl) => L[i] = {}
    <3>1. ~(i < cl) => i >= cl
      BY <1>1
    <3>. QED
      BY <3>1 DEF Good
  <2>2. Line(y, P, L[i] \ Hit(v, x, num, up, i), i)
    BY <1>2, <1>3, <2>1, CutLine
  <2>. QED
    BY <1>6, <2>2 DEF H
<1>9. ASSUME NEW i \in LcLevels PROVE Line(z, P, L2[i], i)
  <2>1. ASSUME NEW q \in L2[i] \cup {Dummy} PROVE z[q] = y[q]
    <3>1. L2[i] \cup {Dummy} \subseteq Spots
      BY <1>7 DEF Spots
    <3>2. q = Dummy \/ \E r \in Spots : y[r][i] = q
      BY <1>8, <3>1 DEF Line
    <3>. QED
      BY <3>1, <3>2 DEF Kept, z
  <2>. QED
    BY <1>8, <2>1 DEF Line
<1>10. ASSUME NEW i \in LcLevels, NEW j \in LcLevels, j <= i PROVE L2[i] \subseteq L2[j]
  <2>1. L[i] \subseteq L[j]
    BY <1>10 DEF Good
  <2>2. ASSUME NEW n \in L[i], n \in H(j) PROVE n \in H(i)
    <3> DEFINE f == x[up[i]][i]
    <3>1. n = x[up[j]][j] /\ v[n] = num /\ n \in NodeAddr /\ n \in L[j]
      BY <1>3, <2>1, <2>2 DEF H, Hit
    <3>2. After(P, up[i], n)
      <4>1. CASE up[i] = Dummy
        BY <4>1 DEF After
      <4>2. CASE up[i] # Dummy
        <5>1. up[i] \in NodeAddr /\ v[up[i]] < num /\ v[up[i]] \in Int
          BY <1>2, <1>4, <4>2 DEF Spots, Stop
        <5>2. up[i] # n /\ ~(v[n] <= v[up[i]])
          BY <3>1, <5>1
        <5>3. <<n, up[i]>> \notin P
          BY <1>4, <3>1, <5>1, <5>2
        <5>. QED
          BY <1>4, <3>1, <5>1, <5>2, <5>3 DEF After
      <4>. QED
        BY <4>1, <4>2
    <3>3. f # Nil /\ (n = f \/ <<f, n>> \in P) /\ f \in L[i]
      <4>1. up[i] \in L[i] \cup {Dummy}
        BY <1>2 DEF Stop
      <4>. QED
        BY <1>3, <3>2, <4>1 DEF Line
    <3>4. f \in NodeAddr /\ f \in L[j] /\ v[f] >= num /\ v[f] \in Int
      BY <1>2, <1>3, <1>4, <2>1, <3>3 DEF Stop
    <3>5. After(P, up[j], f)
      <4>1. CASE up[j] = Dummy
        BY <4>1 DEF After
      <4>2. CASE up[j] # Dummy
        <5>1. up[j] \in NodeAddr /\ v[up[j]] < num /\ v[up[j]] \in Int
          BY <1>2, <1>4, <4>2 DEF Spots, Stop
        <5>2. up[j] # f /\ ~(v[f] <= v[up[j]])
          BY <3>4, <5>1
        <5>3. <<f, up[j]>> \notin P
          BY <1>4, <3>4, <5>1, <5>2
        <5>. QED
          BY <1>4, <3>4, <5>1, <5>2, <5>3 DEF After
      <4>. QED
        BY <4>1, <4>2
    <3>6. f = n \/ <<n, f>> \in P
      <4>1. up[j] \in L[j] \cup {Dummy}
        BY <1>2 DEF Stop
      <4>. QED
        BY <1>3, <3>1, <3>4, <3>5, <4>1 DEF Line
    <3>7. f = n
      <4>1. ASSUME f # n PROVE FALSE
        <5>1. <<f, n>> \in P /\ <<n, f>> \in P
          BY <3>3, <3>6, <4>1
        <5>2. <<f, f>> \in P
          BY <1>4, <3>1, <3>4, <5>1
        <5>. QED
          BY <1>4, <3>4, <5>2
      <4>. QED
        BY <4>1
    <3>. QED
      BY <3>1, <3>3, <3>7 DEF H, Hit
  <2>. QED
    BY <1>6, <2>1, <2>2
<1>11. \A i \in 0..(cl - 1) : i \in LcLevels /\ (i \in E <=> L2[i] = {})
  <2>1. ASSUME NEW i \in 0..(cl - 1) PROVE i \in LcLevels /\ (y[Dummy][i] = Nil <=> L2[i] = {})
    <3>1. i \in LcLevels
      BY <1>1
    <3>2. \A n \in L2[i] : After(P, Dummy, n)
      BY DEF After
    <3>. QED
      BY <1>8, <3>1, <3>2 DEF Line
  <2>. QED
    BY <2>1
<1> HIDE DEF E
<1>12. c2 \in 0..cl /\ E = c2..(cl - 1)
  <2>1. CASE E = {}
    <3>1. Cardinality(E) = 0
      BY <2>1, FS_EmptySet
    <3>. QED
      BY <1>1, <2>1, <3>1
  <2>2. CASE E # {}
    <3>1. E \in SUBSET (0..(cl - 1)) /\ E \in SUBSET Nat
      BY DEF E
    <3>2. PICK k \in E : \A i \in E : k <= i
      BY <2>2, <3>1, LeastNat
    <3>3. k \in 0..(cl - 1) /\ L2[k] = {}
      <4>1. k \in 0..(cl - 1)
        BY <3>1, <3>2
      <4>. QED
        BY <1>11, <3>2, <4>1
    <3>4. ASSUME NEW i \in k..(cl - 1) PROVE i \in E
      <4>1. i \in 0..(cl - 1) /\ k <= i
        BY <3>3
      <4>2. L2[i] \subseteq L2[k]
        BY <1>10, <1>11, <3>3, <4>1
      <4>. QED
        BY <1>11, <3>3, <4>1, <4>2
    <3>5. E = k..(cl - 1)
      <4>1. ASSUME NEW i \in E PROVE i \in k..(cl - 1)
        <5>1. i \in 0..(cl - 1) /\ k <= i
          BY <3>1, <3>2
        <5>. QED
          BY <1>1, <3>3, <5>1
      <4>. QED
        BY <3>4, <4>1
    <3>6. Cardinality(E) = cl - k
      <4>1. k \in Int /\ cl - 1 \in Int /\ ~(k > cl - 1) /\ (cl - 1) - k + 1 = cl - k
        BY <1>1, <3>3
      <4>2. Cardinality(k..(cl - 1)) = (cl - 1) - k + 1
        BY <4>1, FS_Interval
      <4>. QED
        BY <3>5, <4>1, <4>2
    <3>. QED
      BY <1>1, <3>3, <3>5, <3>6
  <2>. QED
    BY <2>1, <2>2
<1> HIDE DEF c2
<1>13. \A i \in LcLevels : i >= c2 => L2[i] = {}
  <2>1. ASSUME NEW i \in LcLevels, i >= c2 PROVE L2[i] = {}
    <3>1. CASE i < cl
      <4>1. i \in 0..(cl - 1) /\ i \in E
        BY <1>1, <1>12, <2>1, <3>1
      <4>. QED
        BY <1>11, <4>1
    <3>2. CASE ~(i < cl)
      <4>1. i >= cl
        BY <1>1, <3>2
      <4>2. L[i] = {}
        BY <4>1 DEF Good
      <4>. QED
        BY <1>6, <4>2
    <3>. QED
      BY <3>1, <3>2
  <2>. QED
    BY <2>1
<1>14. \A i \in 1..(c2 - 1) : L2[i] # {}
  <2>1. ASSUME NEW i \in 1..(c2 - 1) PROVE i \in 0..(cl - 1) /\ i \notin E
    BY <1>1, <1>12
  <2>. QED
    BY <1>11, <2>1
<1>15. \A n \in L2[0] : v[n] \in Numbers
  <2>1. 0 \in LcLevels
    BY <1>1
  <2>. QED
    BY <1>6, <2>1 DEF Good
<1>16. c2 \in 0..MAX_LEVEL
  BY <1>1, <1>12
<1>17. Good(v, z, c2, P, L2)
  BY <1>5, <1>7, <1>9, <1>10, <1>13, <1>14, <1>15, <1>16 DEF Good
<1>. QED
  BY <1>17 DEF z, c2, E, L2, H

\* Finitely many nodes have some order.
LEMMA Ordering ==
  \E P \in SUBSET (NodeAddr \X NodeAddr) : StrictOrder(P, NodeAddr)
<1> USE NodeAddrAssumption
<1> DEFINE I == 1..Cardinality(NodeAddr)
<1>1. Bijection(I, NodeAddr) # {}
  BY FS_CardinalityType DEF ExistsBijection
<1>2. PICK f \in [I -> NodeAddr] : \A n \in NodeAddr : \E i \in I : f[i] = n
  BY <1>1 DEF Bijection, Surjection
<1> DEFINE at == [n \in NodeAddr |-> CHOOSE i \in I : f[i] = n]
           P == {e \in NodeAddr \X NodeAddr : at[e[1]] < at[e[2]]}
<1>3. \A n \in NodeAddr : at[n] \in I /\ f[at[n]] = n
  BY <1>2
<1>4. \A n \in NodeAddr : at[n] \in Int
  BY <1>3
<1>5. \A m, n \in NodeAddr : m # n => at[m] # at[n]
  BY <1>3
<1> HIDE DEF at
<1>6. \A m, n \in NodeAddr : <<m, n>> \in P <=> at[m] < at[n]
  OBVIOUS
<1> HIDE DEF P
<1>7. StrictOrder(P, NodeAddr)
  BY <1>4, <1>5, <1>6 DEF StrictOrder
<1>8. P \in SUBSET (NodeAddr \X NodeAddr)
  BY DEF P
<1>. QED
  BY <1>7, <1>8

\* The new list is good, for an order of the nodes and no node on any level.
LEMMA InitStep ==
  ASSUME LcInit
  PROVE  \E P : Good(val, next, currentLevel, P, [i \in LcLevels |-> {}])
<1> USE LcAssumption, NodeAddrAssumption
<1>1. LcLevels = 0..(MAX_LEVEL - 1) /\ MAX_LEVEL \in Nat \ {0} /\ 0 \in LcLevels
  BY DEF LcLevels
<1>2. PICK P \in SUBSET (NodeAddr \X NodeAddr) : StrictOrder(P, NodeAddr)
  BY Ordering
<1>3. /\ val = [n \in NodeAddr |-> -1] /\ next = [n \in Spots |-> [i \in LcLevels |-> Nil]]
      /\ currentLevel = 1 /\ found = FALSE
  BY DEF LcInit, Spots
<1>4. Forward(val, next, P)
  <2>1. val \in [NodeAddr -> Int] /\ next \in [Spots -> [LcLevels -> NodeAddr \cup {Nil}]]
    BY <1>3
  <2>2. \A m \in NodeAddr : val[m] = -1
    BY <1>3
  <2>3. \A q \in NodeAddr, i \in LcLevels : next[q][i] = Nil
    BY <1>3 DEF Spots
  <2>. QED
    BY <1>2, <2>1, <2>2, <2>3 DEF Forward
<1> DEFINE L == [i \in LcLevels |-> {}]
<1>5. ASSUME NEW i \in LcLevels PROVE Line(next, P, L[i], i)
  <2>1. L[i] = {} /\ next[Dummy][i] = Nil
    BY <1>3 DEF Spots
  <2>. QED
    BY <2>1 DEF Line
<1>6. \A i \in LcLevels : L[i] = {}
  OBVIOUS
<1>7. L \in [LcLevels -> SUBSET NodeAddr]
  OBVIOUS
<1> HIDE DEF L
<1>8. Good(val, next, currentLevel, P, L)
  BY <1>1, <1>3, <1>4, <1>5, <1>6, <1>7 DEF Good
<1>. QED
  BY <1>8 DEF L

\* one node is added to the nodes of the levels below h
AddsOne(P, L, num, h) ==
  \E new \in NodeAddr :
      /\ new \notin L[0]
      /\ val' = [val EXCEPT ![new] = num]
      /\ found' = TRUE
      /\ Good(val', next', currentLevel', AddOrder(val, P, new, num),
              [i \in LcLevels |-> IF i < h THEN L[i] \cup {new} ELSE L[i]])

\* LcAdd adds one node.
LEMMA AddStep ==
  ASSUME NEW P, NEW L, Good(val, next, currentLevel, P, L),
         NEW num \in Numbers, NEW h \in 1..MAX_LEVEL, LcAdd(num, h)
  PROVE  AddsOne(P, L, num, h)
<1> SUFFICES \E new \in NodeAddr :
           /\ new \notin L[0]
           /\ val' = [val EXCEPT ![new] = num]
           /\ found' = TRUE
           /\ Good(val', next', currentLevel', AddOrder(val, P, new, num),
                   [i \in LcLevels |-> IF i < h THEN L[i] \cup {new} ELSE L[i]])
  BY DEF AddsOne
<1>1. PICK up : up = Update(num)
  OBVIOUS
<1>2. Ups(val, next, L, num, up)
  BY <1>1, UpStops, LcAssumption
<1>3. \E new \in Fresh :
        /\ val' = [val EXCEPT ![new] = num]
        /\ next' = LinkIn(up, new, h)
        /\ currentLevel' = IF h > currentLevel THEN h ELSE currentLevel
        /\ found' = TRUE
  BY <1>1 DEF LcAdd
<1>4. \A new : LinkIn(up, new, h) = Added(next, up, new, h)
  BY DEF LinkIn, Added, Spots
<1>5. PICK new \in Fresh :
        /\ val' = [val EXCEPT ![new] = num]
        /\ next' = Added(next, up, new, h)
        /\ currentLevel' = IF h > currentLevel THEN h ELSE currentLevel
        /\ found' = TRUE
  BY <1>3, <1>4
<1> USE LcAssumption, NodeAddrAssumption
<1>6. new \in NodeAddr /\ \A q \in Spots, i \in LcLevels : next[q][i] # new
  BY <1>5 DEF Fresh, Spots
<1>7. PICK v, x, cl : v = val /\ x = next /\ cl = currentLevel
  OBVIOUS
<1>8. PICK P2, L2 : P2 = AddOrder(v, P, new, num)
                    /\ L2 = [i \in LcLevels |-> IF i < h THEN L[i] \cup {new} ELSE L[i]]
  OBVIOUS
<1>9. Good([v EXCEPT ![new] = num], Added(x, up, new, h), IF h > cl THEN h ELSE cl, P2, L2)
  <2>1. Good(v, x, cl, P, L) /\ Ups(v, x, L, num, up)
    BY <1>2, <1>7
  <2>2. \A q \in Spots, i \in LcLevels : x[q][i] # new
    BY <1>6, <1>7
  <2>3. AddKeeps(v, x, cl, P, L, num, new, up, h)
    BY <1>6, <2>1, <2>2, AddGood
  <2>. QED
    BY <1>8, <2>3 DEF AddKeeps
<1>10. Good(val', next', currentLevel', P2, L2)
  BY <1>5, <1>7, <1>9
<1>11. new \notin L[0]
  <2>1. 0 \in LcLevels
    BY DEF LcLevels
  <2>2. Line(next, P, L[0], 0) /\ L[0] \cup {Dummy} \subseteq Spots
    BY <2>1 DEF Good, Spots
  <2>. QED
    BY <1>6, <2>1, <2>2 DEF Line
<1>. QED
  BY <1>5, <1>6, <1>7, <1>8, <1>10, <1>11

\* LcErase takes one node with num out of each level that has one.
LEMMA EraseStep ==
  ASSUME NEW P, NEW L, Good(val, next, currentLevel, P, L), NEW num \in Numbers, LcErase(num)
  PROVE  \E up :
           /\ Ups(val, next, L, num, up)
           /\ val' = val /\ found' = Is(next[up[0]][0], num)
           /\ IF found' THEN Good(val', next', currentLevel', P,
                                  [i \in LcLevels |-> L[i] \ Hit(val, next, num, up, i)])
              ELSE UNCHANGED <<next, currentLevel>>
<1> USE LcAssumption, NodeAddrAssumption
<1>1. PICK up : up = Update(num)
  OBVIOUS
<1>2. Ups(val, next, L, num, up)
  BY <1>1, UpStops
<1>3. PICK v, x, cl : v = val /\ x = next /\ cl = currentLevel
  OBVIOUS
<1>4. PICK y : y = Cut(v, x, cl, num, up)
  OBVIOUS
<1>5. Unlink(up, num) = y
  BY <1>3, <1>4 DEF Unlink, Cut, Is, Spots
<1>6. Forget(y) = Kept(y)
  <2>1. DOMAIN y = Spots
    BY <1>4 DEF Cut
  <2>. QED
    BY <2>1 DEF Forget, Kept
<1>7. PICK hit : hit = Is(next[up[0]][0], num)
  OBVIOUS
<1>8. hit \in BOOLEAN
  BY <1>7 DEF Is
<1>9. /\ found' = hit /\ val' = val
      /\ \/ hit /\ next' = Kept(y) /\ currentLevel' = currentLevel - Cardinality(Emptied(y))
         \/ ~hit /\ UNCHANGED <<next, currentLevel>>
  BY <1>1, <1>5, <1>6, <1>7 DEF LcErase
<1>10. ASSUME hit
       PROVE  Good(val', next', currentLevel', P, [i \in LcLevels |-> L[i] \ Hit(val, next, num, up, i)])
  <2>1. Emptied(y) = {i \in 0..(cl - 1) : y[Dummy][i] = Nil}
    BY <1>3 DEF Emptied
  <2>2. PICK L2 : L2 = [i \in LcLevels |-> L[i] \ Hit(v, x, num, up, i)]
    OBVIOUS
  <2>3. num \in Int
    OBVIOUS
  <2>4. Good(v, Kept(y), cl - Cardinality({i \in 0..(cl - 1) : y[Dummy][i] = Nil}), P, L2)
    BY <1>2, <1>3, <1>4, <2>2, <2>3, EraseGood
  <2>5. Good(val', next', currentLevel', P, L2)
    BY <1>3, <1>9, <1>10, <2>1, <2>4
  <2>. QED
    BY <1>3, <2>2, <2>5
<1>. QED
  BY <1>2, <1>7, <1>8, <1>9, <1>10

\* The new list satisfies the invariant.
LEMMA LcInit_Inv ==
  ASSUME LcInit
  PROVE  LcInv
<1>1. found \in BOOLEAN
  BY DEF LcInit
<1>. QED
  BY <1>1, InitStep DEF LcInv

\* search, add and erase keep the invariant.
LEMMA LcNext_Inv ==
  ASSUME LcInv, [LcNext]_lcVars
  PROVE  LcInv'
<1>1. PICK P, L : Good(val, next, currentLevel, P, L)
  BY DEF LcInv
<1>2. found \in BOOLEAN
  BY DEF LcInv
<1>3. ASSUME NEW num \in Numbers, LcSearch(num) PROVE LcInv'
  BY <1>1, <1>3 DEF LcInv, LcSearch
<1>4. ASSUME NEW num \in Numbers, NEW h \in 1..MAX_LEVEL, LcAdd(num, h) PROVE LcInv'
  BY <1>1, <1>4, AddStep DEF LcInv, AddsOne
<1>5. ASSUME NEW num \in Numbers, LcErase(num) PROVE LcInv'
  <2>1. PICK up :
           /\ val' = val /\ found' = Is(next[up[0]][0], num)
           /\ IF found' THEN Good(val', next', currentLevel', P,
                                  [i \in LcLevels |-> L[i] \ Hit(val, next, num, up, i)])
              ELSE UNCHANGED <<next, currentLevel>>
    BY <1>1, <1>5, EraseStep
  <2>2. found' \in BOOLEAN
    BY <2>1 DEF Is
  <2>3. CASE found'
    BY <2>1, <2>2, <2>3 DEF LcInv
  <2>4. CASE ~found'
    <3>1. UNCHANGED <<val, next, currentLevel>>
      BY <2>1, <2>4
    <3>. QED
      BY <1>1, <2>2, <3>1 DEF LcInv
  <2>. QED
    BY <2>3, <2>4
<1>6. CASE UNCHANGED lcVars
  BY <1>1, <1>2, <1>6 DEF LcInv, lcVars
<1>. QED
  BY <1>3, <1>4, <1>5, <1>6 DEF LcNext

\* the nodes of S from n on
From(P, S, n) == {n} \cup {o \in S : <<n, o>> \in P}

\* A listing with an earlier element in front.
LEMMA ListingCons ==
  ASSUME NEW P, NEW T, NEW s, Listing(s, P, T), NEW n, \A o \in T : <<n, o>> \in P
  PROVE  Listing(<<n>> \o s, P, {n} \cup T)
<1> DEFINE t == <<n>> \o s
           N == Len(s)
<1>1. PICK R : R = {n} \cup T
  OBVIOUS
<1>2. /\ s \in Seq(T) /\ N \in Nat
      /\ \A u, w \in 1..N : u < w => <<s[u], s[w]>> \in P
      /\ \A m \in T : \E u \in 1..N : s[u] = m
  BY DEF Listing
<1>3. s \in Seq(R) /\ n \in R
  BY <1>1, <1>2
<1>4. t \in Seq(R) /\ Len(t) = N + 1 /\ t[1] = n /\ \A i \in 2..(N + 1) : t[i] = s[i - 1]
  BY <1>3, ConsElements
<1>5. \A i \in 1..N : s[i] \in T
  BY <1>2
<1> HIDE DEF t, N
<1>6. ASSUME NEW u \in 1..(N + 1), NEW w \in 1..(N + 1), u < w PROVE <<t[u], t[w]>> \in P
  <2>1. w \in 2..(N + 1) /\ w - 1 \in 1..N
    BY <1>2, <1>6
  <2>2. CASE u = 1
    <3>1. t[u] = n /\ t[w] = s[w - 1] /\ s[w - 1] \in T
      BY <1>4, <1>5, <2>1, <2>2
    <3>. QED
      BY <3>1
  <2>3. CASE u # 1
    <3>1. u \in 2..(N + 1) /\ u - 1 \in 1..N /\ u - 1 < w - 1
      BY <1>2, <1>6, <2>3
    <3>2. t[u] = s[u - 1] /\ t[w] = s[w - 1]
      BY <1>4, <2>1, <3>1
    <3>. QED
      BY <1>2, <2>1, <3>1, <3>2
  <2>. QED
    BY <2>2, <2>3
<1>7. ASSUME NEW m \in R PROVE \E u \in 1..(N + 1) : t[u] = m
  <2>1. CASE m = n
    <3>1. 1 \in 1..(N + 1)
      BY <1>2
    <3>. QED
      BY <1>4, <2>1, <3>1
  <2>2. CASE m \in T
    <3>1. PICK i \in 1..N : s[i] = m
      BY <1>2, <2>2
    <3>2. i + 1 \in 2..(N + 1) /\ i + 1 \in 1..(N + 1) /\ (i + 1) - 1 = i
      BY <1>2
    <3>3. t[i + 1] = m
      BY <1>4, <3>1, <3>2
    <3>. QED
      BY <3>2, <3>3
  <2>. QED
    BY <1>1, <2>1, <2>2
<1>8. Listing(t, P, R)
  BY <1>4, <1>6, <1>7 DEF Listing
<1>. QED
  BY <1>1, <1>8 DEF t

\* the order of the nodes is the order of their list
LEMMA ChainLists ==
  ASSUME NEW P, Forward(val, next, P), NEW i \in LcLevels, NEW S \in SUBSET NodeAddr,
         Line(next, P, S, i)
  PROVE  Listing(LcChain(i), P, S)
<1> USE NodeAddrAssumption
<1>1. PICK D : D = NodeAddr \cup {Nil}
  OBVIOUS
<1>2. PICK x : x = next
  OBVIOUS
<1>3. PICK nx : nx = [n \in D |-> x[n][i]]
  OBVIOUS
<1>4. PICK base : base = [n \in D |-> <<>>]
  OBVIOUS
<1>5. PICK V : V = Seq(D)
  OBVIOUS
<1>6. PICK G : G = [y \in D \X V |-> <<y[1]>> \o y[2]]
  OBVIOUS
<1>7. PICK m : m = [n \in D |-> IF n = Nil THEN 0 ELSE Reach(P, n) + 1]
  OBVIOUS
<1>8. PICK N : N = Cardinality(NodeAddr) + 2
  OBVIOUS
<1>9. /\ x \in [Spots -> [LcLevels -> NodeAddr \cup {Nil}]]
      /\ \A q \in NodeAddr : x[q][i] # Nil => <<q, x[q][i]>> \in P
      /\ StrictOrder(P, NodeAddr)
  BY <1>2 DEF Forward
<1>10. \A n \in NodeAddr : n \in Spots /\ n # Dummy /\ n \in D /\ n # Nil /\ nx[n] \in NodeAddr \cup {Nil} /\ nx[n] \in D
  BY <1>1, <1>3, <1>9 DEF Spots
<1>11. N \in Nat /\ m \in [D -> 0..N]
  <2>1. Cardinality(NodeAddr) \in Nat /\ \A q \in Spots : Reach(P, q) \in 0..(Cardinality(NodeAddr) + 1)
    BY <1>9, Reaches
  <2>2. ASSUME NEW n \in D PROVE (IF n = Nil THEN 0 ELSE Reach(P, n) + 1) \in 0..N
    <3>1. CASE n = Nil
      BY <1>8, <2>1, <3>1
    <3>2. CASE n # Nil
      <4>1. n \in Spots
        BY <1>1, <1>10, <3>2
      <4>2. Reach(P, n) \in 0..(Cardinality(NodeAddr) + 1)
        BY <2>1, <4>1
      <4>. QED
        BY <1>8, <2>1, <3>2, <4>2
    <3>. QED
      BY <3>1, <3>2
  <2>. QED
    BY <1>7, <1>8, <2>1, <2>2
<1>12. \A n \in NodeAddr : m[nx[n]] < m[n]
  <2>1. ASSUME NEW n \in NodeAddr PROVE m[nx[n]] < m[n]
    <3>1. m[n] = Reach(P, n) + 1 /\ m[nx[n]] = IF nx[n] = Nil THEN 0 ELSE Reach(P, nx[n]) + 1
      BY <1>7, <1>10
    <3>2. Cardinality(NodeAddr) \in Nat /\ Reach(P, n) \in 0..(Cardinality(NodeAddr) + 1)
      BY <1>9, <1>10, Reaches
    <3>3. CASE nx[n] = Nil
      BY <3>1, <3>2, <3>3
    <3>4. CASE nx[n] # Nil
      <4>1. nx[n] \in NodeAddr /\ nx[n] \in Spots /\ After(P, n, nx[n])
        BY <1>3, <1>9, <1>10, <3>4 DEF After
      <4>2. Reach(P, nx[n]) < Reach(P, n) /\ Reach(P, nx[n]) \in 0..(Cardinality(NodeAddr) + 1)
        BY <1>9, <1>10, <4>1, Reaches
      <4>. QED
        BY <3>1, <3>2, <3>4, <4>2
    <3>. QED
      BY <3>3, <3>4
  <2>. QED
    BY <2>1
<1>13. G \in [D \X V -> V]
  <2>1. ASSUME NEW n \in D, NEW s \in V PROVE <<n>> \o s \in V
    BY <1>5, <2>1
  <2>. QED
    BY <1>6, <2>1
<1>14. Descends(D, V, NodeAddr, nx, base, G, m, N)
  <2>1. base \in [D -> V]
    BY <1>4, <1>5
  <2>2. NodeAddr \in SUBSET D
    BY <1>1
  <2>. QED
    BY <1>10, <1>11, <1>12, <1>13, <2>1, <2>2 DEF Descends
<1>15. PICK h : Solves(h, D, V, NodeAddr, nx, base, G)
  BY <1>14, Recursion
<1> DEFINE Eqn(g) == g = [n \in NodeAddr \cup {Nil} |-> IF n = Nil THEN <<>> ELSE <<n>> \o g[next[n][i]]]
<1>16. Eqn(h)
  <2>1. h \in [D -> V] /\ h = [n \in D |-> IF n \in NodeAddr THEN G[<<n, h[nx[n]]>>] ELSE base[n]]
    BY <1>15 DEF Solves
  <2>2. ASSUME NEW n \in NodeAddr PROVE G[<<n, h[nx[n]]>>] = <<n>> \o h[next[n][i]]
    <3>1. nx[n] = next[n][i] /\ n \in D /\ h[nx[n]] \in V
      BY <1>2, <1>3, <1>10, <2>1
    <3>. QED
      BY <1>6, <3>1
  <2>3. h = [n \in D |-> IF n = Nil THEN <<>> ELSE <<n>> \o h[next[n][i]]]
    <3>1. \A n \in D : n \in NodeAddr <=> n # Nil
      BY <1>1
    <3>. QED
      BY <1>4, <2>1, <2>2, <3>1
  <2>. QED
    BY <1>1, <2>3
<1>17. PICK g : g = CHOOSE f : Eqn(f)
  OBVIOUS
<1>18. LcChain(i) = g[next[Dummy][i]]
  BY <1>17 DEF LcChain
<1>19. Eqn(g)
  <2> HIDE DEF Eqn
  <2>. QED
    BY <1>16, <1>17
<1>20. g[Nil] = <<>> /\ \A n \in NodeAddr : g[n] = <<n>> \o g[nx[n]]
  <2>1. \A n \in D : g[n] = IF n = Nil THEN <<>> ELSE <<n>> \o g[next[n][i]]
    BY <1>1, <1>19
  <2>2. \A n \in NodeAddr : nx[n] = next[n][i]
    BY <1>2, <1>3, <1>10
  <2>. QED
    BY <1>1, <1>10, <2>1, <2>2
<1> HIDE DEF Eqn
<1>21. /\ \A q \in S \cup {Dummy} : x[q][i] \in S \cup {Nil}
       /\ \A q \in S \cup {Dummy} : \A n \in S :
             After(P, q, n) => x[q][i] # Nil /\ (n = x[q][i] \/ <<x[q][i], n>> \in P)
  BY <1>2 DEF Line
<1>22. \A k, n, o \in NodeAddr : <<k, n>> \in P /\ <<n, o>> \in P => <<k, o>> \in P
  BY <1>9 DEF StrictOrder
<1> DEFINE Fine(n) == Listing(g[n], P, From(P, S, n))
           T == {k \in Nat : \A n \in S : k = m[n] => Fine(n)}
<1>23. ASSUME NEW n \in S, nx[n] \in S => Fine(nx[n]) PROVE Fine(n)
  <2>1. nx[n] = x[n][i] /\ n \in NodeAddr /\ nx[n] \in S \cup {Nil} /\ n # Dummy
    BY <1>1, <1>3, <1>10, <1>21
  <2>2. \A o \in S : <<n, o>> \in P => nx[n] # Nil /\ (o = nx[n] \/ <<nx[n], o>> \in P)
    BY <1>21, <2>1 DEF After
  <2>3. CASE nx[n] = Nil
    <3>1. \A o \in S : <<n, o>> \notin P
      BY <2>2, <2>3
    <3>2. From(P, S, n) = {n}
      BY <3>1 DEF From
    <3>3. g[n] = <<n>> \o <<>>
      BY <1>20, <2>1, <2>3
    <3>4. Listing(<<>>, P, {})
      BY DEF Listing
    <3>5. Listing(<<n>> \o <<>>, P, {n} \cup {})
      BY <3>4, ListingCons
    <3>. QED
      BY <3>2, <3>3, <3>5
  <2>4. CASE nx[n] \in S
    <3>1. Listing(g[nx[n]], P, From(P, S, nx[n])) /\ nx[n] \in NodeAddr
      BY <1>23, <2>4
    <3>2. <<n, nx[n]>> \in P
      BY <1>9, <1>10, <2>1, <2>4
    <3>3. \A o \in From(P, S, nx[n]) : o \in S /\ <<n, o>> \in P
      BY <1>22, <2>1, <2>4, <3>1, <3>2 DEF From
    <3>4. From(P, S, n) = {n} \cup From(P, S, nx[n])
      BY <2>2, <3>3 DEF From
    <3>5. Listing(<<n>> \o g[nx[n]], P, {n} \cup From(P, S, nx[n]))
      BY <3>1, <3>3, ListingCons
    <3>. QED
      BY <1>20, <2>1, <3>4, <3>5
  <2>. QED
    BY <2>1, <2>3, <2>4
<1>24. \A k \in Nat : (\A j \in 0..(k - 1) : j \in T) => k \in T
  <2> SUFFICES ASSUME NEW k \in Nat, \A j \in 0..(k - 1) : j \in T, NEW n \in S, k = m[n]
               PROVE  Fine(n)
    OBVIOUS
  <2>1. ASSUME nx[n] \in S PROVE Fine(nx[n])
    <3>1. m[nx[n]] \in 0..(k - 1)
      <4>1. n \in NodeAddr /\ nx[n] \in D
        BY <1>10
      <4>. QED
        BY <1>11, <1>12, <4>1
    <3>2. m[nx[n]] \in T
      BY <3>1
    <3>. QED
      BY <2>1, <3>2
  <2>. QED
    BY <1>23, <2>1
<1>25. \A n \in S : Fine(n)
  <2>1. \A k \in Nat : k \in T
    <3> HIDE DEF T
    <3>. QED
      BY <1>24, Induct
  <2>2. \A n \in S : m[n] \in Nat
    BY <1>10, <1>11
  <2>. QED
    BY <2>1, <2>2
<1>26. next[Dummy][i] = x[Dummy][i] /\ x[Dummy][i] \in S \cup {Nil} /\ \A o \in S : After(P, Dummy, o)
  BY <1>2, <1>21 DEF After
<1>27. CASE x[Dummy][i] = Nil
  <2>1. S = {}
    BY <1>21, <1>26, <1>27
  <2>2. Listing(<<>>, P, {})
    BY DEF Listing
  <2>. QED
    BY <1>18, <1>20, <1>26, <1>27, <2>1, <2>2
<1>28. CASE x[Dummy][i] \in S
  <2>1. From(P, S, x[Dummy][i]) = S
    BY <1>21, <1>26, <1>28 DEF From
  <2>. QED
    BY <1>18, <1>25, <1>26, <1>28, <2>1
<1>. QED
  BY <1>26, <1>27, <1>28

\* LcChain(i) lists L[i].
LEMMA ChainGood ==
  ASSUME NEW P, NEW L, Good(val, next, currentLevel, P, L), NEW i \in LcLevels
  PROVE  Listing(LcChain(i), P, L[i]) /\ On(i) = L[i]
<1>1. Listing(LcChain(i), P, L[i])
  BY ChainLists DEF Good
<1>2. PICK c : c = LcChain(i)
  OBVIOUS
<1>3. c \in Seq(L[i]) /\ \A n \in L[i] : \E g \in 1..Len(c) : c[g] = n
  BY <1>1, <1>2 DEF Listing
<1>4. DOMAIN c = 1..Len(c) /\ \A g \in 1..Len(c) : c[g] \in L[i]
  BY <1>3
<1>5. {c[p] : p \in DOMAIN c} = L[i]
  BY <1>3, <1>4
<1>. QED
  BY <1>1, <1>2, <1>5 DEF On

\* The invariant implies LevelsNested.
LEMMA InvNested ==
  LcInv => LevelsNested
<1> USE LcAssumption
<1> SUFFICES ASSUME NEW P, NEW L, Good(val, next, currentLevel, P, L) PROVE LevelsNested
  BY DEF LcInv
<1>2. MAX_LEVEL \in Nat \ {0} /\ currentLevel \in 0..MAX_LEVEL /\ LcLevels = 0..(MAX_LEVEL - 1)
  BY DEF Good, LcLevels
<1>3. ASSUME NEW i \in LcLevels, next[Dummy][i] # Nil PROVE i < currentLevel
  <2>1. L[i] # {}
    BY <1>3 DEF Good, Line
  <2>2. ~(i >= currentLevel)
    BY <2>1 DEF Good
  <2>. QED
    BY <1>2, <2>2
<1>4. ASSUME NEW i \in 1..(currentLevel - 1) PROVE On(i) # {} /\ On(i) \subseteq On(i - 1)
  <2>1. i \in LcLevels /\ i - 1 \in LcLevels /\ i - 1 <= i
    BY <1>2
  <2>2. On(i) = L[i] /\ On(i - 1) = L[i - 1]
    BY <2>1, ChainGood
  <2>3. L[i] # {} /\ L[i] \subseteq L[i - 1]
    BY <2>1 DEF Good
  <2>. QED
    BY <2>2, <2>3
<1>. QED
  BY <1>3, <1>4 DEF LevelsNested

\* of the nodes of a level that are not below num, the one behind update is first
LEMMA FirstNotBelow ==
  ASSUME NEW v, NEW x, NEW P, Forward(v, x, P), NEW num \in Int,
         NEW i \in LcLevels, NEW S \in SUBSET NodeAddr, Line(x, P, S, i),
         NEW w, Stop(v, x, S, i, num, w)
  PROVE  \A n \in S : v[n] >= num => /\ x[w][i] \in S /\ v[x[w][i]] >= num
                                     /\ n = x[w][i] \/ <<x[w][i], n>> \in P
<1> USE NodeAddrAssumption
<1> SUFFICES ASSUME NEW n \in S, v[n] >= num
             PROVE  /\ x[w][i] \in S /\ v[x[w][i]] >= num
                    /\ n = x[w][i] \/ <<x[w][i], n>> \in P
  OBVIOUS
<1>1. /\ v \in [NodeAddr -> Int]
      /\ \A k, m \in NodeAddr : <<k, m>> \in P => v[k] <= v[m]
      /\ \A k, m \in NodeAddr : k # m => <<k, m>> \in P \/ <<m, k>> \in P
  BY DEF Forward, StrictOrder
<1>2. w \in S \cup {Dummy} /\ (w # Dummy => v[w] < num) /\ (x[w][i] # Nil => v[x[w][i]] >= num)
  BY DEF Stop
<1>3. After(P, w, n)
  <2>1. CASE w = Dummy
    BY <2>1 DEF After
  <2>2. CASE w # Dummy
    <3>1. w \in NodeAddr /\ v[w] < num /\ v[w] \in Int /\ v[n] \in Int /\ n \in NodeAddr
      BY <1>1, <1>2, <2>2
    <3>2. w # n /\ ~(v[n] <= v[w])
      BY <3>1
    <3>3. <<n, w>> \notin P
      BY <1>1, <3>1, <3>2
    <3>. QED
      BY <1>1, <3>1, <3>2, <3>3 DEF After
  <2>. QED
    BY <2>1, <2>2
<1>. QED
  BY <1>2, <1>3 DEF Line

\* c lists level 0, s has its numbers, and num goes to place k
Placed(c, s, P, S, num, k) ==
  /\ Listing(c, P, S) /\ s \in Seq(Int) /\ Len(s) = Len(c) /\ Len(c) \in Nat
  /\ \A i \in 1..Len(c) : c[i] \in NodeAddr /\ s[i] = val[c[i]]
  /\ k \in 1..(Len(c) + 1)
  /\ \A i \in 1..Len(c) : s[i] < num <=> i < k

\* The place of num in the bag is that in the list.
LEMMA BagPlace ==
  ASSUME NEW P, NEW L, Good(val, next, currentLevel, P, L), NEW num \in Int,
         NEW c, c = LcChain(0), NEW s, s = [p \in DOMAIN c |-> val[c[p]]]
  PROVE  Placed(c, s, P, L[0], num, LcBag!Place(num))
<1>1. 0 \in LcLevels
  BY LcAssumption DEF LcLevels
<1>2. Listing(c, P, L[0]) /\ L[0] \in SUBSET NodeAddr
  BY <1>1, ChainGood DEF Good
<1>3. c \in Seq(NodeAddr) /\ Len(c) \in Nat /\ DOMAIN c = 1..Len(c)
  <2>1. c \in Seq(L[0])
    BY <1>2 DEF Listing
  <2>. QED
    BY <1>2, <2>1
<1>4. PICK v : v = val
  OBVIOUS
<1>5. v \in [NodeAddr -> Int] /\ \A m, n \in NodeAddr : <<m, n>> \in P => v[m] <= v[n]
  BY <1>4 DEF Good, Forward
<1>6. \A i \in 1..Len(c) : c[i] \in NodeAddr /\ s[i] = v[c[i]] /\ s[i] \in Int
  BY <1>3, <1>4, <1>5
<1>7. s \in Seq(Int) /\ Len(s) = Len(c)
  <2>1. s = [p \in 1..Len(c) |-> v[c[p]]]
    BY <1>3, <1>4
  <2>2. s \in [1..Len(c) -> Int]
    BY <1>6, <2>1
  <2>. QED
    BY <1>3, <2>2
<1>8. \A i, j \in 1..Len(c) : i < j /\ s[j] < num => s[i] < num
  <2>1. ASSUME NEW i \in 1..Len(c), NEW j \in 1..Len(c), i < j, s[j] < num PROVE s[i] < num
    <3>1. <<c[i], c[j]>> \in P
      BY <1>2, <2>1 DEF Listing
    <3>2. v[c[i]] <= v[c[j]]
      BY <1>5, <1>6, <3>1
    <3>3. s[i] = v[c[i]] /\ s[j] = v[c[j]] /\ s[i] \in Int /\ s[j] \in Int
      BY <1>6
    <3>. QED
      BY <2>1, <3>2, <3>3
  <2>. QED
    BY <2>1
<1> DEFINE B == {i \in 1..Len(c) : s[i] < num}
           Fits(p) == \A i \in 1..Len(c) : i \in B <=> i < p
<1>9. \E p \in 1..(Len(c) + 1) : Fits(p)
  <2>1. \A i, j \in 1..Len(c) : i < j /\ j \in B => i \in B
    BY <1>8
  <2> HIDE DEF B
  <2>. QED
    BY <1>3, <2>1, SplitPlace
<1>10. LcBag!Place(num) = CHOOSE p \in 1..(Len(c) + 1) : Fits(p)
  <2>1. DOMAIN s = 1..Len(c)
    BY <1>7
  <2>2. LcBag!Place(num) = CHOOSE p \in 1..(Len(s) + 1) :
           \A i \in DOMAIN s : i \in {j \in DOMAIN s : s[j] < num} <=> i < p
    BY DEF LcBag!Place, LcBag!Below
  <2>. QED
    BY <1>7, <2>1, <2>2
<1>11. LcBag!Place(num) \in 1..(Len(c) + 1) /\ Fits(LcBag!Place(num))
  <2> HIDE DEF Fits
  <2>. QED
    BY <1>9, <1>10
<1>. QED
  BY <1>2, <1>3, <1>4, <1>6, <1>7, <1>11 DEF Placed

\* The bag has num if it is behind update on level 0, and then only is it
\* behind update on any level.
LEMMA BagPresent ==
  ASSUME NEW P, NEW L, Good(val, next, currentLevel, P, L), NEW num \in Int,
         NEW up, Ups(val, next, L, num, up)
  PROVE  /\ LcBag!Present(num) <=> Is(next[up[0]][0], num)
         /\ \A i \in LcLevels : Is(next[up[i]][i], num) => Is(next[up[0]][0], num)
         /\ Is(next[up[0]][0], num) => next[up[0]][0] \in L[0]
         /\ currentLevel = 0 => ~Is(next[up[0]][0], num)
<1> USE LcAssumption, NodeAddrAssumption
<1>1. 0 \in LcLevels /\ \A i \in LcLevels : i >= 0
  BY DEF LcLevels
<1>2. PICK c : c = LcChain(0)
  OBVIOUS
<1>3. PICK s : s = [p \in DOMAIN c |-> val[c[p]]]
  OBVIOUS
<1>4. PICK v, x : v = val /\ x = next
  OBVIOUS
<1>5. /\ Listing(c, P, L[0]) /\ DOMAIN s = 1..Len(c)
      /\ \A i \in 1..Len(c) : c[i] \in NodeAddr /\ s[i] = v[c[i]]
  <2>1. Placed(c, s, P, L[0], num, LcBag!Place(num))
    BY <1>2, <1>3, BagPlace
  <2>. QED
    BY <1>4, <2>1 DEF Placed
<1>6. \A n : n \in L[0] <=> \E g \in 1..Len(c) : c[g] = n
  <2>1. c \in Seq(L[0]) /\ \A n \in L[0] : \E g \in 1..Len(c) : c[g] = n
    BY <1>5 DEF Listing
  <2>2. \A g \in 1..Len(c) : c[g] \in L[0]
    BY <2>1
  <2>. QED
    BY <2>1, <2>2
<1>7. LcBag!Present(num) <=> \E n \in L[0] : v[n] = num
  <2>1. LcBag!Present(num) <=> \E i \in DOMAIN s : s[i] = num
    BY <1>2, <1>3 DEF LcBag!Present
  <2>. QED
    BY <1>5, <1>6, <2>1
<1>8. /\ v \in [NodeAddr -> Int] /\ Forward(v, x, P)
      /\ \A m, n \in NodeAddr : <<m, n>> \in P => v[m] <= v[n]
      /\ \A i \in LcLevels : L[i] \in SUBSET NodeAddr /\ L[i] \subseteq L[0] /\ Line(x, P, L[i], i)
                             /\ Stop(v, x, L[i], i, num, up[i])
  BY <1>1, <1>4 DEF Good, Forward, Ups
<1>9. ASSUME NEW n \in L[0], v[n] = num PROVE Is(x[up[0]][0], num)
  <2>1. n \in NodeAddr /\ v[n] >= num
    BY <1>1, <1>8, <1>9
  <2>2. /\ x[up[0]][0] \in L[0] /\ v[x[up[0]][0]] >= num
        /\ n = x[up[0]][0] \/ <<x[up[0]][0], n>> \in P
    BY <1>1, <1>8, <2>1, FirstNotBelow
  <2>3. x[up[0]][0] \in NodeAddr /\ x[up[0]][0] # Nil
    BY <1>1, <1>8, <2>2
  <2>4. v[x[up[0]][0]] = num
    <3>1. v[x[up[0]][0]] <= num \/ n = x[up[0]][0]
      BY <1>8, <1>9, <2>1, <2>2, <2>3
    <3>2. v[x[up[0]][0]] \in Int
      BY <1>8, <2>3
    <3>. QED
      BY <1>9, <2>2, <3>1, <3>2
  <2>. QED
    BY <1>4, <2>3, <2>4 DEF Is
<1>10. ASSUME NEW i \in LcLevels, Is(x[up[i]][i], num) PROVE x[up[i]][i] \in L[0] /\ v[x[up[i]][i]] = num
  BY <1>4, <1>8, <1>10 DEF Is, Line, Stop
<1>11. currentLevel = 0 => L[0] = {}
  <2>1. currentLevel = 0 => 0 >= currentLevel
    OBVIOUS
  <2>. QED
    BY <1>1, <2>1 DEF Good
<1>. QED
  BY <1>1, <1>4, <1>7, <1>9, <1>10, <1>11

-----------------------------------------------------------------------------
(* The list as a bag: level 0 has every node, and two listings of one set   *)
(* in one order are the same sequence (ListingUnique), so that what add and *)
(* erase do to L[0] and P determines what they do to the numbers.           *)

\* the numbers of the list, as OrderedBag sees them
LcSeq == [p \in DOMAIN LcChain(0) |-> val[LcChain(0)[p]]]

\* Level 0 lists its nodes.
ChainsListed ==
  \A P, L : Good(val, next, currentLevel, P, L) => Listing(LcChain(0), P, L[0])

\* As ChainsListed has no parameters it holds of the next state too.
LEMMA ChainsAreListed ==
  ChainsListed
<1>1. 0 \in LcLevels
  BY LcAssumption DEF LcLevels
<1>. QED
  BY <1>1, ChainGood DEF ChainsListed

\* The new list is the empty bag.
LEMMA InitBag ==
  ASSUME LcInit
  PROVE  LcBag!OBInit
<1> USE LcAssumption
<1>1. PICK L : L = [i \in LcLevels |-> {}]
  OBVIOUS
<1>2. PICK P : Good(val, next, currentLevel, P, L)
  BY <1>1, InitStep
<1>3. 0 \in LcLevels /\ L[0] = {}
  BY <1>1 DEF LcLevels
<1>4. PICK c : c = LcChain(0)
  OBVIOUS
<1>5. Listing(c, P, {})
  BY <1>2, <1>3, <1>4, ChainGood
<1>6. c = <<>>
  BY <1>5 DEF Listing
<1>7. LcSeq = <<>>
  BY <1>4, <1>6 DEF LcSeq
<1>8. found = FALSE
  BY DEF LcInit
<1>. QED
  BY <1>7, <1>8 DEF LcBag!OBInit, LcSeq

\* search finds what the bag has.
LEMMA SearchFinds ==
  ASSUME NEW P, NEW L, Good(val, next, currentLevel, P, L), NEW num \in Numbers, LcSearch(num)
  PROVE  LcBag!Find(num)
<1> USE LcAssumption
<1>1. PICK up : up = Update(num)
  OBVIOUS
<1>2. Ups(val, next, L, num, up)
  BY <1>1, UpStops
<1>3. /\ LcBag!Present(num) <=> Is(next[up[0]][0], num)
      /\ \A i \in LcLevels : Is(next[up[i]][i], num) => Is(next[up[0]][0], num)
      /\ currentLevel = 0 => ~Is(next[up[0]][0], num)
  BY <1>2, BagPresent
<1>4. currentLevel \in 0..MAX_LEVEL /\ MAX_LEVEL \in Nat \ {0} /\ LcLevels = 0..(MAX_LEVEL - 1)
  BY DEF Good, LcLevels
<1>5. found' = \E i \in 0..(currentLevel - 1) : Is(next[up[i]][i], num)
  BY <1>1 DEF LcSearch
<1>6. (\E i \in 0..(currentLevel - 1) : Is(next[up[i]][i], num)) <=> LcBag!Present(num)
  <2>1. ASSUME NEW i \in 0..(currentLevel - 1), Is(next[up[i]][i], num) PROVE LcBag!Present(num)
    <3>1. i \in LcLevels
      BY <1>4
    <3>. QED
      BY <1>3, <2>1, <3>1
  <2>2. ASSUME LcBag!Present(num) PROVE \E i \in 0..(currentLevel - 1) : Is(next[up[i]][i], num)
    <3>1. 0 \in 0..(currentLevel - 1)
      BY <1>3, <1>4, <2>2
    <3>. QED
      BY <1>3, <2>2, <3>1
  <2>. QED
    BY <2>1, <2>2
<1>7. found' = LcBag!Present(num)
  <2>1. LcBag!Present(num) \in BOOLEAN
    BY DEF LcBag!Present
  <2>. QED
    BY <1>5, <1>6, <2>1
<1>8. LcSeq' = LcSeq
  BY DEF LcSearch, LcSeq, LcChain
<1>. QED
  BY <1>7, <1>8 DEF LcBag!Find, LcSeq

\* add puts num in its place in the bag.
LEMMA AddPuts ==
  ASSUME NEW P, NEW L, Good(val, next, currentLevel, P, L),
         NEW num \in Numbers, NEW h \in 1..MAX_LEVEL, LcAdd(num, h)
  PROVE  LcBag!Put(num)
<1>1. PICK new \in NodeAddr :
           /\ new \notin L[0]
           /\ val' = [val EXCEPT ![new] = num]
           /\ found' = TRUE
           /\ Good(val', next', currentLevel', AddOrder(val, P, new, num),
                   [i \in LcLevels |-> IF i < h THEN L[i] \cup {new} ELSE L[i]])
  <2>1. \E new \in NodeAddr :
           /\ new \notin L[0]
           /\ val' = [val EXCEPT ![new] = num]
           /\ found' = TRUE
           /\ Good(val', next', currentLevel', AddOrder(val, P, new, num),
                   [i \in LcLevels |-> IF i < h THEN L[i] \cup {new} ELSE L[i]])
    <3>1. AddsOne(P, L, num, h)
      BY AddStep
    <3>. QED
      BY <3>1 DEF AddsOne
  <2>. QED
    BY <2>1
<1> USE LcAssumption
<1>2. PICK c, s : c = LcChain(0) /\ s = [p \in DOMAIN c |-> val[c[p]]]
  OBVIOUS
<1>3. PICK k : k = LcBag!Place(num)
  OBVIOUS
<1>4. PICK v : v = val
  OBVIOUS
<1>5. PICK P2, L2 : /\ P2 = AddOrder(v, P, new, num)
                    /\ L2 = [i \in LcLevels |-> IF i < h THEN L[i] \cup {new} ELSE L[i]]
  OBVIOUS
<1>6. PICK c2, v2 : c2 = LcChain(0)' /\ v2 = val'
  OBVIOUS
<1>7. 0 \in LcLevels /\ L2[0] = L[0] \cup {new} /\ num \in Int
  BY <1>5 DEF LcLevels
<1>8. /\ Listing(c, P, L[0]) /\ s \in Seq(Int) /\ Len(s) = Len(c) /\ Len(c) \in Nat
      /\ \A i \in 1..Len(c) : c[i] \in NodeAddr /\ s[i] = v[c[i]]
      /\ k \in 1..(Len(c) + 1)
      /\ \A i \in 1..Len(c) : s[i] < num <=> i < k
  <2>1. Placed(c, s, P, L[0], num, k)
    BY <1>2, <1>3, <1>7, BagPlace
  <2>. QED
    BY <1>4, <2>1 DEF Placed
<1>9. v \in [NodeAddr -> Int] /\ v2 = [v EXCEPT ![new] = num] /\ L[0] \in SUBSET NodeAddr
  BY <1>1, <1>4, <1>6, <1>7 DEF Good, Forward
<1>10. Good(val', next', currentLevel', P2, L2)
  BY <1>1, <1>4, <1>5
<1>11. Listing(c2, P2, L2[0])
  <2>1. ChainsListed'
    BY ChainsAreListed, PTL
  <2>. QED
    BY <1>6, <1>10, <2>1 DEF ChainsListed
<1>12. \A m, n \in L2[0] : ~(<<m, n>> \in P2 /\ <<n, m>> \in P2)
  <2>1. L2[0] \in SUBSET NodeAddr
    BY <1>7, <1>9
  <2>2. StrictOrder(P2, NodeAddr)
    BY <1>10 DEF Good, Forward
  <2>. QED
    BY <2>1, <2>2 DEF StrictOrder
<1>13. c2 = With(c, k, new)
  <2>1. \A m, n \in L[0] : <<m, n>> \in P => <<m, n>> \in P2
    BY <1>1, <1>5, <1>9 DEF AddOrder
  <2>2. ASSUME NEW i \in 1..Len(c)
        PROVE  IF i < k THEN <<c[i], new>> \in P2 ELSE <<new, c[i]>> \in P2
    <3>1. c[i] \in NodeAddr /\ c[i] # new /\ v[c[i]] \in Int
      <4>1. c \in Seq(L[0])
        BY <1>8 DEF Listing
      <4>2. c[i] \in L[0]
        BY <4>1
      <4>. QED
        BY <1>1, <1>9, <4>2
    <3>2. i < k <=> v[c[i]] < num
      BY <1>8
    <3>3. i < k => <<c[i], new>> \in P2
      BY <1>5, <3>1, <3>2 DEF AddOrder
    <3>4. ~(i < k) => v[c[i]] >= num
      BY <1>7, <3>1, <3>2
    <3>5. ~(i < k) => <<new, c[i]>> \in P2
      BY <1>5, <3>1, <3>4 DEF AddOrder
    <3>. QED
      BY <3>3, <3>5
  <2>3. Listing(With(c, k, new), P2, L[0] \cup {new})
    BY <1>8, <2>1, <2>2, ListingWith
  <2>. QED
    BY <1>7, <1>11, <1>12, <2>3, ListingUnique
<1>14. [p \in DOMAIN c2 |-> v2[c2[p]]] = With(s, k, num)
  <2>1. PICK t, N : t = With(s, k, num) /\ N = Len(c)
    OBVIOUS
  <2>2. /\ t \in Seq(Int) /\ Len(t) = Len(c) + 1
        /\ \A i \in 1..(Len(c) + 1) : t[i] = IF i < k THEN s[i] ELSE IF i = k THEN num ELSE s[i - 1]
    <3>1. k \in 1..(Len(s) + 1) /\ s \in Seq(Int) /\ Len(s) = Len(c)
      BY <1>8
    <3>2. PICK R : R = Int
      OBVIOUS
    <3>3. num \in R /\ s \in Seq(R)
      BY <1>7, <3>1, <3>2
    <3>4. /\ With(s, k, num) \in Seq(R) /\ Len(With(s, k, num)) = Len(s) + 1
          /\ \A i \in 1..(Len(s) + 1) :
               With(s, k, num)[i] = IF i < k THEN s[i] ELSE IF i = k THEN num ELSE s[i - 1]
      BY <3>1, <3>3, WithElements DEF AddsAt
    <3>. QED
      BY <2>1, <3>1, <3>2, <3>4
  <2>3. c \in Seq(NodeAddr)
    <3>1. c \in Seq(L[0])
      BY <1>8 DEF Listing
    <3>. QED
      BY <1>9, <3>1
  <2>4. /\ c2 \in Seq(NodeAddr) /\ Len(c2) = Len(c) + 1
        /\ \A i \in 1..(Len(c) + 1) : c2[i] = IF i < k THEN c[i] ELSE IF i = k THEN new ELSE c[i - 1]
    <3>1. k \in 1..(Len(c) + 1) /\ new \in NodeAddr
      BY <1>8
    <3>2. PICK R : R = NodeAddr
      OBVIOUS
    <3>3. new \in R /\ c \in Seq(R)
      BY <2>3, <3>1, <3>2
    <3>4. /\ With(c, k, new) \in Seq(R) /\ Len(With(c, k, new)) = Len(c) + 1
          /\ \A i \in 1..(Len(c) + 1) :
               With(c, k, new)[i] = IF i < k THEN c[i] ELSE IF i = k THEN new ELSE c[i - 1]
      BY <3>1, <3>3, WithElements DEF AddsAt
    <3>. QED
      BY <1>13, <3>2, <3>4
  <2>5. DOMAIN c2 = 1..(Len(c) + 1)
    BY <2>4
  <2>6. \A i \in 1..Len(c) : v2[c[i]] = s[i]
    <3>1. c \in Seq(L[0])
      BY <1>8 DEF Listing
    <3>2. \A i \in 1..Len(c) : c[i] \in L[0]
      BY <3>1
    <3>. QED
      BY <1>1, <1>8, <1>9, <3>2
  <2>7. ASSUME NEW i \in 1..(Len(c) + 1) PROVE v2[c2[i]] = t[i]
    <3>1. CASE i < k
      <4>1. i \in 1..Len(c)
        BY <1>8, <3>1
      <4>. QED
        BY <2>2, <2>4, <2>6, <3>1, <4>1
    <3>2. CASE i = k
      BY <1>9, <2>2, <2>4, <3>2
    <3>3. CASE i > k
      <4>1. i - 1 \in 1..Len(c) /\ ~(i < k) /\ i # k
        BY <1>8, <3>3
      <4>. QED
        BY <2>2, <2>4, <2>6, <4>1
    <3>. QED
      BY <1>8, <3>1, <3>2, <3>3
  <2>8. t = [i \in 1..(Len(c) + 1) |-> t[i]]
    BY <2>2
  <2>. QED
    BY <2>1, <2>5, <2>7, <2>8
<1>15. LcSeq' = With(LcSeq, k, num)
  BY <1>2, <1>6, <1>14 DEF LcSeq
<1>. QED
  BY <1>1, <1>3, <1>15 DEF LcBag!Put, LcSeq, With

\* erase takes the first num from the bag, if there is one.
LEMMA EraseTakes ==
  ASSUME NEW P, NEW L, Good(val, next, currentLevel, P, L), NEW num \in Numbers, LcErase(num)
  PROVE  LcBag!Take(num)
<1> USE LcAssumption
<1>1. PICK up :
           /\ Ups(val, next, L, num, up)
           /\ val' = val /\ found' = Is(next[up[0]][0], num)
           /\ IF found' THEN Good(val', next', currentLevel', P,
                                  [i \in LcLevels |-> L[i] \ Hit(val, next, num, up, i)])
              ELSE UNCHANGED <<next, currentLevel>>
  BY EraseStep
<1>2. num \in Int /\ 0 \in LcLevels
  BY DEF LcLevels
<1>3. found' = LcBag!Present(num)
  <2>1. LcBag!Present(num) <=> Is(next[up[0]][0], num)
    BY <1>1, <1>2, BagPresent
  <2>2. LcBag!Present(num) \in BOOLEAN /\ Is(next[up[0]][0], num) \in BOOLEAN
    BY DEF LcBag!Present, Is
  <2>. QED
    BY <1>1, <2>1, <2>2
<1>4. CASE ~found'
  <2>1. next' = next /\ val' = val
    BY <1>1, <1>4
  <2>2. LcSeq' = LcSeq
    BY <2>1 DEF LcSeq, LcChain
  <2>. QED
    BY <1>3, <1>4, <2>2 DEF LcBag!Take, LcSeq
<1>5. CASE found'
  <2>1. PICK c, s : c = LcChain(0) /\ s = [p \in DOMAIN c |-> val[c[p]]]
    OBVIOUS
  <2>2. PICK k : k = LcBag!Place(num)
    OBVIOUS
  <2>3. PICK v, x : v = val /\ x = next
    OBVIOUS
  <2>4. PICK c2 : c2 = LcChain(0)'
    OBVIOUS
  <2>5. /\ Listing(c, P, L[0]) /\ s \in Seq(Int) /\ Len(s) = Len(c) /\ Len(c) \in Nat
        /\ \A i \in 1..Len(c) : c[i] \in NodeAddr /\ s[i] = v[c[i]]
        /\ k \in 1..(Len(c) + 1)
        /\ \A i \in 1..Len(c) : s[i] < num <=> i < k
    <3>1. Placed(c, s, P, L[0], num, k)
      BY <1>2, <2>1, <2>2, BagPlace
    <3>. QED
      BY <2>3, <3>1 DEF Placed
  <2>6. /\ v \in [NodeAddr -> Int] /\ Forward(v, x, P) /\ L[0] \in SUBSET NodeAddr
        /\ Line(x, P, L[0], 0) /\ Stop(v, x, L[0], 0, num, up[0])
        /\ \A m, n \in NodeAddr : ~(<<m, n>> \in P /\ <<n, m>> \in P)
    BY <1>1, <1>2, <2>3 DEF Good, Forward, Ups, StrictOrder
  <2> DEFINE f == x[up[0]][0]
  <2>7. f \in L[0] /\ v[f] = num /\ f # Nil
    BY <1>1, <1>2, <1>5, <2>3, BagPresent DEF Is
  <2>8. k \in 1..Len(c) /\ c[k] = f
    <3>1. PICK g \in 1..Len(c) : c[g] = f
      BY <2>5, <2>7 DEF Listing
    <3>2. ~(g < k) /\ k \in 1..Len(c)
      <4>1. s[g] = num
        BY <2>5, <2>7, <3>1
      <4>2. ~(g < k)
        BY <1>2, <2>5, <4>1
      <4>. QED
        BY <2>5, <4>2
    <3>3. ASSUME k # g PROVE FALSE
      <4>1. <<c[k], f>> \in P
        BY <2>5, <3>1, <3>2, <3>3 DEF Listing
      <4>2. c \in Seq(L[0])
        BY <2>5 DEF Listing
      <4>3. c[k] \in L[0] /\ v[c[k]] >= num
        <5>1. c[k] \in L[0] /\ ~(s[k] < num) /\ s[k] = v[c[k]]
          BY <2>5, <3>2, <4>2
        <5>2. v[c[k]] \in Int
          BY <2>6, <5>1
        <5>. QED
          BY <1>2, <5>1, <5>2
      <4>4. c[k] = f \/ <<f, c[k]>> \in P
        BY <1>2, <2>6, <4>3, FirstNotBelow
      <4>. QED
        BY <2>6, <2>7, <4>1, <4>3, <4>4
    <3>. QED
      BY <3>1, <3>2, <3>3
  <2>9. Good(val', next', currentLevel', P, [i \in LcLevels |-> L[i] \ Hit(v, x, num, up, i)])
    BY <1>1, <1>5, <2>3
  <2>10. Listing(c2, P, L[0] \ {f})
    <3>1. ChainsListed'
      BY ChainsAreListed, PTL
    <3>2. PICK L2 : L2 = [i \in LcLevels |-> L[i] \ Hit(v, x, num, up, i)]
      OBVIOUS
    <3>3. L2[0] = L[0] \ {f}
      BY <1>2, <2>7, <3>2 DEF Hit
    <3>. QED
      <4>1. Good(val', next', currentLevel', P, L2)
        BY <2>9, <3>2
      <4>. QED
        BY <2>4, <3>1, <3>3, <4>1 DEF ChainsListed
  <2> HIDE DEF f
  <2>11. c2 = Without(c, k)
    <3>1. Listing(Without(c, k), P, L[0] \ {f})
      <4>1. \A m \in L[0] : <<m, m>> \notin P
        BY <2>6
      <4>2. Listing(Without(c, k), P, L[0] \ {c[k]})
        BY <2>5, <2>8, <4>1, ListingWithout
      <4>. QED
        BY <2>8, <4>2
    <3>2. \A m, n \in L[0] \ {f} : ~(<<m, n>> \in P /\ <<n, m>> \in P)
      BY <2>6
    <3>. QED
      BY <2>10, <3>1, <3>2, ListingUnique
  <2>12. [p \in DOMAIN c2 |-> v[c2[p]]] = Without(s, k)
    <3>1. PICK t : t = Without(s, k)
      OBVIOUS
    <3>2. /\ t \in Seq(Int) /\ Len(t) = Len(c) - 1
          /\ \A i \in 1..(Len(c) - 1) : t[i] = IF i < k THEN s[i] ELSE s[i + 1]
      <4>1. k \in 1..Len(s) /\ s \in Seq(Int) /\ Len(s) = Len(c)
        BY <2>5, <2>8
      <4>. QED
        BY <3>1, <4>1, WithoutElements DEF TakesAt
    <3>3. c \in Seq(NodeAddr)
      <4>1. c \in Seq(L[0])
        BY <2>5 DEF Listing
      <4>. QED
        BY <2>6, <4>1
    <3>4. /\ c2 \in Seq(NodeAddr) /\ Len(c2) = Len(c) - 1
          /\ \A i \in 1..(Len(c) - 1) : c2[i] = IF i < k THEN c[i] ELSE c[i + 1]
      BY <2>8, <2>11, <3>3, WithoutElements DEF TakesAt
    <3>5. DOMAIN c2 = 1..(Len(c) - 1)
      BY <3>4
    <3>6. ASSUME NEW i \in 1..(Len(c) - 1) PROVE v[c2[i]] = t[i]
      <4>1. i \in 1..Len(c) /\ i + 1 \in 1..Len(c)
        BY <2>5
      <4>2. v[c[i]] = s[i] /\ v[c[i + 1]] = s[i + 1]
        BY <2>5, <4>1
      <4>. QED
        BY <3>2, <3>4, <4>2
    <3>7. t = [i \in 1..(Len(c) - 1) |-> t[i]]
      BY <3>2
    <3>. QED
      BY <3>1, <3>5, <3>6, <3>7
  <2>13. LcSeq' = Without(LcSeq, k)
    BY <1>1, <2>1, <2>3, <2>4, <2>12 DEF LcSeq
  <2>. QED
    BY <1>3, <1>5, <2>2, <2>13 DEF LcBag!Take, LcSeq, Without
<1>6. found' \in BOOLEAN
  BY <1>1 DEF Is
<1>. QED
  BY <1>4, <1>5, <1>6

\* Every step is one of the bag or leaves it unchanged.
LEMMA LcStep ==
  ASSUME LcInv, [LcNext]_lcVars
  PROVE  [LcBag!OBNext]_(LcBag!obVars)
<1>1. PICK P, L : Good(val, next, currentLevel, P, L)
  BY DEF LcInv
<1>2. ASSUME NEW num \in Numbers, LcSearch(num) PROVE LcBag!OBNext
  BY <1>1, <1>2, SearchFinds DEF LcBag!OBNext
<1>3. ASSUME NEW num \in Numbers, NEW h \in 1..MAX_LEVEL, LcAdd(num, h) PROVE LcBag!OBNext
  BY <1>1, <1>3, AddPuts DEF LcBag!OBNext
<1>4. ASSUME NEW num \in Numbers, LcErase(num) PROVE LcBag!OBNext
  BY <1>1, <1>4, EraseTakes DEF LcBag!OBNext
<1>5. ASSUME UNCHANGED lcVars PROVE UNCHANGED LcBag!obVars
  <2>1. LcSeq' = LcSeq /\ found' = found
    BY <1>5 DEF LcSeq, LcChain, lcVars
  <2>. QED
    BY <2>1 DEF LcBag!obVars, LcSeq
<1>. QED
  BY <1>2, <1>3, <1>4, <1>5 DEF LcNext

\* The invariant holds in every state, for any nodes, numbers and number of
\* levels (LC-sliplist.cpp:34-124).
THEOREM LcInvariant == LcSpec => []LcInv
<1>1. LcInit => LcInv
  BY LcInit_Inv
<1>2. LcInv /\ [LcNext]_lcVars => LcInv'
  BY LcNext_Inv
<1>. QED
  BY <1>1, <1>2, PTL DEF LcSpec

\* No level in use is empty but the lowest, every level in use is within
\* currentLevel, and each level's nodes are on the level below.
THEOREM LcKeepsLevels == LcSpec => []LevelsNested
  BY LcInvariant, InvNested, PTL

\* The list implements a bag of numbers in order: search, add and erase do
\* what they would do without levels.
THEOREM LcIsBag == LcSpec => LcSkipListIsBag
<1>1. LcInit => LcBag!OBInit
  BY InitBag
<1>2. LcInv /\ [LcNext]_lcVars => [LcBag!OBNext]_(LcBag!obVars)
  BY LcStep
<1>. QED
  BY <1>1, <1>2, LcInvariant, PTL DEF LcSpec, LcSkipListIsBag, LcBag!OBSpec

-----------------------------------------------------------------------------
(* The skip list of skiplist.cpp.  zsl->level stays 1, so only level 0 is   *)
(* read: it links the nodes in the order of a sequence c (Threads), which   *)
(* the walks of the code are shown to follow.  What stands above level 0,   *)
(* links to freed nodes among it, is left open.                             *)

\* the p-th node, counting the header
At(c, p) == IF p = 0 THEN Header ELSE c[p]

\* r is a node of zslCreateNode.
Fields(r) == r = zslCreateNode(r.score, r.obj, r.backward, r.level)

\* what OrderedBag has for a node
Pair(nd, n) == <<nd[n].score, nd[n].obj>>

\* level 0 of the nodes nd links the sequence c
Threads(nd, c) ==
  /\ c \in Seq(Addr)
  /\ \A p, q \in 1..Len(c) : p # q => c[p] # c[q]
  /\ DOMAIN nd = {At(c, p) : p \in 0..Len(c)}
  /\ nd = [n \in DOMAIN nd |-> nd[n]]
  /\ \A p \in 0..Len(c) :
       /\ Fields(nd[At(c, p)])
       /\ DOMAIN nd[At(c, p)].level \in SUBSET (0..(MaxLevel - 1))
       /\ 0 \in DOMAIN nd[At(c, p)].level
       /\ nd[At(c, p)].level[0] = IF p = Len(c) THEN [forward |-> NoNode, span |-> 0]
                                  ELSE [forward |-> c[p + 1], span |-> 1]
  /\ \A p \in 1..Len(c) :
       /\ nd[c[p]].score \in Score /\ nd[c[p]].obj \in Obj
       /\ nd[c[p]].backward = IF p = 1 THEN NoNode ELSE c[p - 1]
  /\ \A p, q \in 1..Len(c) : p < q => LtElement(Pair(nd, c[p]), Pair(nd, c[q]))

\* The list is c, with its tail and its length, and searches use one level.
IsList(nd, z, c) ==
  /\ Threads(nd, c)
  /\ z = [tail |-> IF Len(c) = 0 THEN NoNode ELSE c[Len(c)], length |-> Len(c), level |-> 1]

\* The inductive invariant: there is no list and no node, or the nodes are
\* those of a sequence.
ZslInv ==
  \/ zsl = NoNode /\ node = <<>>
  \/ zsl # NoNode /\ \E c : IsList(node, zsl, c)

\* q nodes of c are before (s, o), and the others are not
Splits(nd, c, s, o, q) ==
  /\ q \in 0..Len(c)
  /\ \A p \in 1..Len(c) : LtElement(Pair(nd, c[p]), <<s, o>>) <=> p <= q

\* The nodes before (s, o) are the first ones, as c is in order.
LEMMA SplitExists ==
  ASSUME NEW nd, NEW c, Threads(nd, c), NEW s \in Int, NEW o \in Int
  PROVE  \E q : Splits(nd, c, s, o, q)
<1> USE ZslAssumption
<1>1. c \in Seq(Addr) /\ Len(c) \in Nat
  BY DEF Threads
<1>2. PICK N : N = Len(c)
  OBVIOUS
<1>3. PICK B : B = {p \in 1..N : LtElement(Pair(nd, c[p]), <<s, o>>)}
  OBVIOUS
<1>4. ASSUME NEW i \in 1..N, NEW j \in 1..N, i < j /\ j \in B PROVE i \in B
  <2>1. LtElement(Pair(nd, c[i]), Pair(nd, c[j])) /\ LtElement(Pair(nd, c[j]), <<s, o>>)
    BY <1>2, <1>3, <1>4 DEF Threads
  <2>2. /\ nd[c[i]].score \in Int /\ nd[c[i]].obj \in Int
        /\ nd[c[j]].score \in Int /\ nd[c[j]].obj \in Int
    BY <1>2 DEF Threads
  <2>3. LtElement(Pair(nd, c[i]), <<s, o>>)
    BY <2>1, <2>2 DEF LtElement, Pair
  <2>. QED
    BY <1>3, <2>3
<1>5. PICK p \in 1..(N + 1) : \A i \in 1..N : i \in B <=> i < p
  BY <1>1, <1>2, <1>4, SplitPlace
<1>6. PICK q : q = p - 1
  OBVIOUS
<1>7. q \in 0..N /\ \A i \in 1..N : i \in B <=> i <= q
  BY <1>1, <1>2, <1>5, <1>6
<1>8. \A i \in 1..N : i \in B <=> LtElement(Pair(nd, c[i]), <<s, o>>)
  BY <1>3
<1>. QED
  BY <1>2, <1>7, <1>8 DEF Splits

\* every allocated node has one place
LEMMA Places ==
  ASSUME NEW nd, NEW c, Threads(nd, c)
  PROVE  \E pos : /\ pos \in [DOMAIN nd -> 0..Len(c)]
                  /\ \A n \in DOMAIN nd : At(c, pos[n]) = n
                  /\ \A p \in 0..Len(c) : At(c, p) \in DOMAIN nd /\ pos[At(c, p)] = p
<1> USE ZslAssumption
<1>1. PICK pos : pos = [n \in DOMAIN nd |-> CHOOSE p \in 0..Len(c) : At(c, p) = n]
  OBVIOUS
<1>2. DOMAIN nd = {At(c, p) : p \in 0..Len(c)} /\ c \in Seq(Addr) /\ Len(c) \in Nat
  BY DEF Threads
<1>3. \A n \in DOMAIN nd : pos[n] \in 0..Len(c) /\ At(c, pos[n]) = n
  BY <1>1, <1>2
<1>4. ASSUME NEW p \in 0..Len(c), NEW q \in 0..Len(c), At(c, p) = At(c, q) PROVE p = q
  <2>1. \A i \in 1..Len(c) : c[i] \in Addr
    BY <1>2
  <2>2. \A i, j \in 1..Len(c) : i # j => c[i] # c[j]
    BY DEF Threads
  <2>3. CASE p = 0
    BY <1>2, <1>4, <2>1, <2>3 DEF At
  <2>4. CASE q = 0
    BY <1>2, <1>4, <2>1, <2>4 DEF At
  <2>5. CASE p # 0 /\ q # 0
    <3>1. p \in 1..Len(c) /\ q \in 1..Len(c)
      BY <1>2, <2>5
    <3>. QED
      BY <1>4, <2>2, <2>5, <3>1 DEF At
  <2>. QED
    BY <2>3, <2>4, <2>5
<1>5. \A p \in 0..Len(c) : At(c, p) \in DOMAIN nd /\ pos[At(c, p)] = p
  BY <1>2, <1>3, <1>4
<1>6. pos \in [DOMAIN nd -> 0..Len(c)]
  BY <1>1, <1>3
<1>. QED
  BY <1>3, <1>5, <1>6

\* the links of level 0, place by place
LEMMA Links ==
  ASSUME NEW nd, NEW c, Threads(nd, c), NEW p \in 0..Len(c)
  PROVE  /\ Len(c) \in Nat /\ At(c, p) \in DOMAIN nd
         /\ p = Len(c) => nd[At(c, p)].level[0].forward = NoNode /\ nd[At(c, p)].level[0].span = 0
         /\ p < Len(c) => /\ p + 1 \in 1..Len(c) /\ c[p + 1] \in Addr /\ c[p + 1] # NoNode
                          /\ nd[At(c, p)].level[0].forward = At(c, p + 1) /\ At(c, p + 1) = c[p + 1]
                          /\ nd[At(c, p)].level[0].span = 1
<1> USE ZslAssumption
<1>1. c \in Seq(Addr) /\ Len(c) \in Nat /\ DOMAIN nd = {At(c, k) : k \in 0..Len(c)}
  BY DEF Threads
<1>2. nd[At(c, p)].level[0] = IF p = Len(c) THEN [forward |-> NoNode, span |-> 0]
                              ELSE [forward |-> c[p + 1], span |-> 1]
  BY DEF Threads
<1>3. At(c, p) \in DOMAIN nd
  BY <1>1
<1>4. ASSUME p < Len(c) PROVE p + 1 \in 1..Len(c) /\ c[p + 1] \in Addr /\ c[p + 1] # NoNode /\ At(c, p + 1) = c[p + 1]
  <2>1. p + 1 \in 1..Len(c) /\ p + 1 # 0
    BY <1>1, <1>4
  <2>. QED
    BY <1>1, <2>1 DEF At
<1>5. ASSUME p < Len(c) PROVE nd[At(c, p)].level[0] = [forward |-> c[p + 1], span |-> 1]
  BY <1>1, <1>2, <1>5
<1>. QED
  BY <1>1, <1>2, <1>3, <1>4, <1>5

\* The inner loop stops behind the nodes that are before (s, o), and has
\* counted them.
LEMMA WalkPlace ==
  ASSUME NEW c, Threads(node, c), NEW s \in Int, NEW o \in Int, NEW q, Splits(node, c, s, o, q)
  PROVE  Walk(Header, 0, s, o) = [at |-> At(c, q), rank |-> q]
<1> USE ZslAssumption
<1>1. PICK D, N : D = DOMAIN node /\ N = Len(c)
  OBVIOUS
<1>2. PICK nx : nx = [y \in D |-> node[y].level[0].forward]
  OBVIOUS
<1>3. PICK sp : sp = [y \in D |-> node[y].level[0].span]
  OBVIOUS
<1>4. PICK stop : stop = {y \in D : nx[y] = NoNode \/ ~Before(nx[y], s, o)}
  OBVIOUS
<1>5. PICK pos : /\ pos \in [D -> 0..N]
                 /\ \A n \in D : At(c, pos[n]) = n
                 /\ \A p \in 0..N : At(c, p) \in D /\ pos[At(c, p)] = p
  BY <1>1, Places
<1>6. N \in Nat /\ q \in 0..N
  <2>1. 0 \in 0..Len(c)
    BY DEF Threads
  <2>. QED
    BY <1>1, <2>1, Links DEF Splits
<1>7. \A y \in D : pos[y] \in 0..N /\ (y \in stop <=> pos[y] >= q)
  <2> SUFFICES ASSUME NEW y \in D PROVE pos[y] \in 0..N /\ (y \in stop <=> pos[y] >= q)
    OBVIOUS
  <2>1. PICK p : p = pos[y]
    OBVIOUS
  <2>2. p \in 0..N /\ At(c, p) = y /\ nx[y] = node[At(c, p)].level[0].forward
    BY <1>2, <1>5, <2>1
  <2>3. CASE p = N
    <3>1. nx[y] = NoNode
      BY <1>1, <2>2, <2>3, Links
    <3>. QED
      BY <1>4, <1>6, <2>1, <2>2, <2>3, <3>1
  <2>4. CASE p < N
    <3>1. nx[y] = c[p + 1] /\ nx[y] # NoNode /\ p + 1 \in 1..N
      BY <1>1, <2>2, <2>4, Links
    <3>2. LtElement(Pair(node, c[p + 1]), <<s, o>>) <=> p + 1 <= q
      BY <1>1, <3>1 DEF Splits
    <3>3. Before(nx[y], s, o) <=> p + 1 <= q
      BY <3>1, <3>2 DEF Before, LtElement, Pair
    <3>. QED
      BY <1>4, <1>6, <2>1, <2>2, <3>1, <3>3
  <2>. QED
    BY <1>6, <2>2, <2>3, <2>4
<1>8. \A y \in D : pos[y] < q => nx[y] = At(c, pos[y] + 1) /\ nx[y] \in D /\ pos[nx[y]] = pos[y] + 1 /\ sp[y] = 1
  <2> SUFFICES ASSUME NEW y \in D, pos[y] < q
               PROVE nx[y] = At(c, pos[y] + 1) /\ nx[y] \in D /\ pos[nx[y]] = pos[y] + 1 /\ sp[y] = 1
    OBVIOUS
  <2>1. PICK p : p = pos[y]
    OBVIOUS
  <2>2. p \in 0..N /\ At(c, p) = y /\ p < N /\ p + 1 \in 0..N
    BY <1>5, <1>6, <2>1
  <2>3. nx[y] = node[At(c, p)].level[0].forward /\ sp[y] = node[At(c, p)].level[0].span
    BY <1>2, <1>3, <2>2
  <2>4. nx[y] = At(c, p + 1) /\ sp[y] = 1
    BY <1>1, <2>2, <2>3, Links
  <2>. QED
    BY <1>5, <2>1, <2>2, <2>4
<1> DEFINE Eqn(g) == g = [y \in DOMAIN node |->
                LET link == node[y].level[0] IN
                IF link.forward = NoNode \/ ~Before(link.forward, s, o) THEN [at |-> y, rank |-> 0]
                ELSE LET f == g[link.forward] IN [at |-> f.at, rank |-> f.rank + link.span]]
<1>9. \A g : Eqn(g) <=> g = [y \in D |-> IF pos[y] >= q THEN [at |-> y, rank |-> 0]
                              ELSE [at |-> g[nx[y]].at, rank |-> g[nx[y]].rank + sp[y]]]
  <2>1. \A y \in D : /\ node[y].level[0].forward = nx[y] /\ node[y].level[0].span = sp[y]
                     /\ (nx[y] = NoNode \/ ~Before(nx[y], s, o)) <=> pos[y] >= q
    BY <1>2, <1>3, <1>4, <1>7
  <2>. QED
    BY <1>1, <2>1
<1>10. PICK g : g = CHOOSE f : Eqn(f)
  OBVIOUS
<1>11. Walk(Header, 0, s, o) = g[Header]
  BY <1>10 DEF Walk
<1>12. \E h : Eqn(h)
  <2>1. PICK h : h = [y \in D |-> IF pos[y] >= q THEN [at |-> y, rank |-> 0]
                                  ELSE [at |-> At(c, q), rank |-> q - pos[y]]]
    OBVIOUS
  <2>2. ASSUME NEW y \in D, ~(pos[y] >= q)
        PROVE  h[y] = [at |-> h[nx[y]].at, rank |-> h[nx[y]].rank + sp[y]]
    <3>1. pos[y] \in 0..N /\ pos[y] < q
      BY <1>6, <1>7, <2>2
    <3>2. nx[y] = At(c, pos[y] + 1) /\ nx[y] \in D /\ pos[nx[y]] = pos[y] + 1 /\ sp[y] = 1
      BY <1>8, <3>1
    <3>3. h[y] = [at |-> At(c, q), rank |-> q - pos[y]]
      BY <2>1, <2>2
    <3>4. CASE pos[y] + 1 = q
      <4>1. h[nx[y]] = [at |-> At(c, q), rank |-> 0] /\ q - pos[y] = 0 + 1
        BY <1>6, <2>1, <3>1, <3>2, <3>4
      <4>. QED
        BY <3>2, <3>3, <4>1
    <3>5. CASE pos[y] + 1 # q
      <4>1. ~(pos[nx[y]] >= q)
        BY <1>6, <3>1, <3>2, <3>5
      <4>2. h[nx[y]] = [at |-> At(c, q), rank |-> q - (pos[y] + 1)]
        BY <2>1, <3>2, <4>1
      <4>3. q - (pos[y] + 1) + 1 = q - pos[y]
        BY <1>6, <3>1
      <4>. QED
        BY <3>2, <3>3, <4>2, <4>3
    <3>. QED
      BY <3>4, <3>5
  <2>3. h = [y \in D |-> IF pos[y] >= q THEN [at |-> y, rank |-> 0]
                         ELSE [at |-> h[nx[y]].at, rank |-> h[nx[y]].rank + sp[y]]]
    BY <2>1, <2>2
  <2>. QED
    BY <1>9, <2>3
<1>13. Eqn(g)
  <2> HIDE DEF Eqn
  <2>. QED
    BY <1>10, <1>12
<1>14. \A y \in D : g[y] = IF pos[y] >= q THEN [at |-> y, rank |-> 0]
                           ELSE [at |-> g[nx[y]].at, rank |-> g[nx[y]].rank + sp[y]]
  <2> HIDE DEF Eqn
  <2>1. g = [y \in D |-> IF pos[y] >= q THEN [at |-> y, rank |-> 0]
                         ELSE [at |-> g[nx[y]].at, rank |-> g[nx[y]].rank + sp[y]]]
    BY <1>9, <1>13
  <2>. QED
    BY <2>1
<1> HIDE DEF Eqn
<1> DEFINE T == {k \in Nat : \A y \in D : pos[y] <= q /\ k = q - pos[y] => g[y] = [at |-> At(c, q), rank |-> k]}
<1>15. \A k \in Nat : (\A j \in 0..(k - 1) : j \in T) => k \in T
  <2> SUFFICES ASSUME NEW k \in Nat, \A j \in 0..(k - 1) : j \in T,
                      NEW y \in D, pos[y] <= q, k = q - pos[y]
               PROVE  g[y] = [at |-> At(c, q), rank |-> k]
    OBVIOUS
  <2>1. pos[y] \in 0..N /\ q \in 0..N /\ N \in Nat
    BY <1>6, <1>7
  <2>2. CASE k = 0
    <3>1. pos[y] = q
      BY <2>1, <2>2
    <3>2. y = At(c, q) /\ g[y] = [at |-> y, rank |-> 0]
      BY <1>5, <1>14, <2>1, <3>1
    <3>. QED
      BY <2>2, <3>2
  <2>3. CASE k # 0
    <3>1. pos[y] < q /\ ~(pos[y] >= q)
      BY <2>1, <2>3
    <3>2. nx[y] \in D /\ pos[nx[y]] = pos[y] + 1 /\ sp[y] = 1
      BY <1>8, <3>1
    <3>3. k - 1 \in 0..(k - 1) /\ pos[nx[y]] <= q /\ k - 1 = q - pos[nx[y]]
      BY <2>1, <3>1, <3>2
    <3>4. k - 1 \in T
      BY <3>3
    <3>5. g[nx[y]] = [at |-> At(c, q), rank |-> k - 1]
      BY <3>2, <3>3, <3>4
    <3>6. g[y] = [at |-> g[nx[y]].at, rank |-> g[nx[y]].rank + 1]
      BY <1>14, <3>1, <3>2
    <3>7. (k - 1) + 1 = k
      OBVIOUS
    <3>. QED
      BY <3>5, <3>6, <3>7
  <2>. QED
    BY <2>2, <2>3
<1>16. \A k \in Nat : k \in T
  <2> HIDE DEF T
  <2>. QED
    BY <1>15, Induct
<1>17. At(c, 0) = Header /\ 0 \in 0..N
  BY <1>6 DEF At
<1>18. Header \in D /\ pos[Header] = 0
  BY <1>5, <1>17
<1>19. q \in T /\ q \in Nat /\ pos[Header] <= q /\ q = q - pos[Header]
  BY <1>6, <1>16, <1>18
<1>. QED
  BY <1>11, <1>18, <1>19

\* With one level in use, the search is one walk from the header.
LEMMA SearchPlace ==
  ASSUME NEW c, IsList(node, zsl, c), NEW s \in Int, NEW o \in Int, NEW q, Splits(node, c, s, o, q)
  PROVE  Search(s, o)[0] = [at |-> At(c, q), rank |-> q]
<1> USE ZslAssumption
<1>1. PICK w : w = Walk(Header, 0, s, o)
  OBVIOUS
<1>2. w = [at |-> At(c, q), rank |-> q] /\ q \in Int
  <2>1. Threads(node, c) /\ q \in 0..Len(c)
    BY DEF IsList, Splits
  <2>. QED
    BY <1>1, <2>1, WalkPlace
<1>3. zsl.level = 1
  BY DEF IsList
<1> DEFINE Entry(g, i) ==
        IF i > zsl.level - 1 THEN [at |-> Header, rank |-> 0]
        ELSE LET from == IF i = zsl.level - 1 THEN [at |-> Header, rank |-> 0] ELSE g[i + 1]
                 stop == Walk(from.at, i, s, o)
             IN  [at |-> stop.at, rank |-> from.rank + stop.rank]
           Eqn(g) == g = [i \in 0..(MaxLevel - 1) |-> Entry(g, i)]
<1>4. PICK h : h = [i \in 0..(MaxLevel - 1) |-> IF i > 0 THEN [at |-> Header, rank |-> 0]
                                               ELSE [at |-> w.at, rank |-> 0 + w.rank]]
  OBVIOUS
<1>5. \A g : Eqn(g) <=> g = h
  <2>1. zsl.level - 1 = 0
    BY <1>3
  <2>2. \A i \in 0..(MaxLevel - 1) : ~(i > 0) => i = 0
    OBVIOUS
  <2>3. ASSUME NEW g, NEW i \in 0..(MaxLevel - 1)
        PROVE  Entry(g, i) = IF i > 0 THEN [at |-> Header, rank |-> 0]
                             ELSE [at |-> w.at, rank |-> 0 + w.rank]
    <3>1. CASE i > 0
      BY <2>1, <3>1
    <3>2. CASE ~(i > 0)
      <4>1. i = 0 /\ i = zsl.level - 1 /\ ~(i > zsl.level - 1)
        BY <2>1, <2>2, <3>2
      <4>2. PICK f : f = [at |-> Header, rank |-> 0]
        OBVIOUS
      <4>3. f.at = Header /\ f.rank = 0
        BY <4>2
      <4>4. Walk(f.at, i, s, o) = w
        BY <1>1, <4>1, <4>3
      <4>. QED
        BY <3>2, <4>1, <4>2, <4>3, <4>4
    <3>. QED
      BY <3>1, <3>2
  <2> HIDE DEF Entry
  <2>. QED
    BY <1>4, <2>3
<1>6. Search(s, o) = (CHOOSE g : Eqn(g))
  BY DEF Search
<1>7. Search(s, o) = h
  <2> HIDE DEF Eqn
  <2>. QED
    BY <1>5, <1>6
<1>8. 0 \in 0..(MaxLevel - 1) /\ 0 + q = q
  BY <1>2
<1>. QED
  BY <1>2, <1>4, <1>7, <1>8

\* the nodes from place p on
Suffix(c, p) == [i \in 1..(Len(c) - p + 1) |-> At(c, p + i - 1)]

\* The nodes from a place on are that node and those behind it.
LEMMA SuffixCons ==
  ASSUME NEW c \in Seq(Addr), NEW p \in 0..Len(c)
  PROVE  /\ Len(c) \in Nat /\ Suffix(c, p + 1) \in Seq(Addr)
         /\ <<At(c, p)>> \o Suffix(c, p + 1) = Suffix(c, p)
<1>1. PICK N : N = Len(c)
  OBVIOUS
<1>2. N \in Nat /\ p \in 0..N /\ \A k \in 1..N : c[k] \in Addr
  BY <1>1
<1>3. PICK t : t = Suffix(c, p + 1)
  OBVIOUS
<1>4. t = [i \in 1..(N - p) |-> c[p + i]]
  <2>1. (N - (p + 1)) + 1 = N - p
    BY <1>2
  <2>2. \A i \in 1..(N - p) : (p + 1) + i - 1 = p + i /\ p + i # 0
    BY <1>2
  <2>. QED
    BY <1>1, <1>3, <2>1, <2>2 DEF Suffix, At
<1>5. t \in Seq(Addr) /\ Len(t) = N - p
  <2>1. \A i \in 1..(N - p) : p + i \in 1..N
    BY <1>2
  <2>2. N - p \in Nat
    BY <1>2
  <2>. QED
    BY <1>2, <1>4, <2>1, <2>2
<1>6. PICK V, n : V = Addr \cup {At(c, p)} /\ n = At(c, p)
  OBVIOUS
<1>7. t \in Seq(V) /\ n \in V
  BY <1>5, <1>6
<1>8. /\ <<n>> \o t \in Seq(V) /\ Len(<<n>> \o t) = Len(t) + 1 /\ (<<n>> \o t)[1] = n
      /\ \A i \in 2..(Len(t) + 1) : (<<n>> \o t)[i] = t[i - 1]
  BY <1>7, ConsElements
<1>9. \A i \in 1..(N - p + 1) : (<<n>> \o t)[i] = At(c, p + i - 1)
  <2> SUFFICES ASSUME NEW i \in 1..(N - p + 1) PROVE (<<n>> \o t)[i] = At(c, p + i - 1)
    OBVIOUS
  <2>1. CASE i = 1
    <3>1. p + i - 1 = p
      BY <1>2, <2>1
    <3>. QED
      BY <1>6, <1>8, <2>1, <3>1
  <2>2. CASE i # 1
    <3>1. i \in 2..(Len(t) + 1) /\ i - 1 \in 1..(N - p) /\ p + (i - 1) = p + i - 1 /\ p + i - 1 # 0
      BY <1>2, <1>5, <2>2
    <3>2. (<<n>> \o t)[i] = c[p + (i - 1)]
      BY <1>4, <1>8, <3>1
    <3>. QED
      BY <3>1, <3>2 DEF At
  <2>. QED
    BY <2>1, <2>2
<1>10. <<n>> \o t = [i \in 1..(N - p + 1) |-> (<<n>> \o t)[i]]
  <2>1. Len(<<n>> \o t) = N - p + 1
    BY <1>2, <1>5, <1>8
  <2>. QED
    BY <1>8, <2>1
<1>. QED
  BY <1>1, <1>2, <1>3, <1>5, <1>6, <1>9, <1>10 DEF Suffix

\* Following the links of level 0 gives c.
LEMMA ChainIs ==
  ASSUME NEW c, Threads(node, c)
  PROVE  Chain(0) = c /\ Reached(0) = {c[p] : p \in 1..Len(c)}
<1> USE ZslAssumption
<1>1. PICK D, N : D = DOMAIN node /\ N = Len(c)
  OBVIOUS
<1>2. PICK nx : nx = [y \in D |-> node[y].level[0].forward]
  OBVIOUS
<1>3. PICK pos : /\ pos \in [D -> 0..N]
                 /\ \A n \in D : At(c, pos[n]) = n
                 /\ \A p \in 0..N : At(c, p) \in D /\ pos[At(c, p)] = p
  BY <1>1, Places
<1>4. N \in Nat /\ c \in Seq(Addr) /\ D = {At(c, p) : p \in 0..N} /\ NoNode \notin D
  <2>1. N \in Nat /\ c \in Seq(Addr) /\ D = {At(c, p) : p \in 0..N}
    BY <1>1 DEF Threads
  <2>2. ASSUME NEW p \in 0..N PROVE At(c, p) \in Addr \cup {Header}
    <3>1. p = 0 \/ p \in 1..N
      BY <2>1
    <3>2. \A k \in 1..N : c[k] \in Addr
      BY <1>1, <2>1
    <3>. QED
      BY <3>1, <3>2 DEF At
  <2>. QED
    BY <2>1, <2>2
<1>5. \A y \in D : IF pos[y] = N THEN nx[y] = NoNode
                   ELSE nx[y] = At(c, pos[y] + 1) /\ nx[y] \in D /\ pos[nx[y]] = pos[y] + 1
  <2> SUFFICES ASSUME NEW y \in D
               PROVE  IF pos[y] = N THEN nx[y] = NoNode
                      ELSE nx[y] = At(c, pos[y] + 1) /\ nx[y] \in D /\ pos[nx[y]] = pos[y] + 1
    OBVIOUS
  <2>1. PICK p : p = pos[y]
    OBVIOUS
  <2>2. p \in 0..N /\ At(c, p) = y /\ nx[y] = node[At(c, p)].level[0].forward
    BY <1>2, <1>3, <2>1
  <2>3. CASE p = N
    <3>1. nx[y] = NoNode
      BY <1>1, <2>2, <2>3, Links
    <3>. QED
      BY <2>1, <2>3, <3>1
  <2>4. CASE p < N
    <3>1. nx[y] = At(c, p + 1) /\ p + 1 \in 0..N /\ p # N
      BY <1>1, <1>4, <2>2, <2>4, Links
    <3>. QED
      BY <1>3, <2>1, <3>1
  <2>. QED
    BY <1>4, <2>2, <2>3, <2>4
<1> DEFINE Eqn(g) == g = [n \in (DOMAIN node) \cup {NoNode} |->
                IF n = NoNode THEN <<>> ELSE <<n>> \o g[node[n].level[0].forward]]
<1>6. \A g : Eqn(g) <=> g = [n \in D \cup {NoNode} |-> IF n = NoNode THEN <<>> ELSE <<n>> \o g[nx[n]]]
  <2>1. \A n \in D : node[n].level[0].forward = nx[n]
    BY <1>2
  <2>. QED
    BY <1>1, <1>4, <2>1
<1>7. PICK g : g = CHOOSE f : Eqn(f)
  OBVIOUS
<1>8. Chain(0) = g[node[Header].level[0].forward]
  BY <1>7 DEF Chain
<1>9. \A p \in 0..N : <<At(c, p)>> \o Suffix(c, p + 1) = Suffix(c, p)
  BY <1>1, <1>4, SuffixCons
<1>10. Suffix(c, N + 1) = <<>> /\ Suffix(c, 1) = c
  <2>1. (N - (N + 1)) + 1 = 0 /\ (N - 1) + 1 = N
    BY <1>4
  <2>2. Suffix(c, N + 1) = [i \in 1..0 |-> At(c, (N + 1) + i - 1)]
    BY <1>1, <2>1 DEF Suffix
  <2>3. Suffix(c, 1) = [i \in 1..N |-> At(c, 1 + i - 1)]
    BY <1>1, <2>1 DEF Suffix
  <2>4. \A i \in 1..N : 1 + i - 1 = i /\ At(c, i) = c[i]
    BY <1>4 DEF At
  <2>5. c = [i \in 1..N |-> c[i]]
    BY <1>1, <1>4
  <2>6. Suffix(c, 1) = c
    BY <2>3, <2>4, <2>5
  <2>7. Suffix(c, N + 1) = <<>>
    BY <2>2
  <2>. QED
    BY <2>6, <2>7
<1>11. \E h : Eqn(h)
  <2>1. PICK h : h = [n \in D \cup {NoNode} |-> IF n = NoNode THEN <<>> ELSE Suffix(c, pos[n])]
    OBVIOUS
  <2>2. ASSUME NEW n \in D PROVE h[n] = <<n>> \o h[nx[n]]
    <3>1. PICK p : p = pos[n]
      OBVIOUS
    <3>2. p \in 0..N /\ At(c, p) = n /\ n # NoNode /\ h[n] = Suffix(c, p)
      BY <1>3, <1>4, <2>1, <3>1
    <3>3. h[nx[n]] = Suffix(c, p + 1)
      <4>1. CASE p = N
        BY <1>5, <1>10, <2>1, <3>1, <4>1
      <4>2. CASE p # N
        BY <1>4, <1>5, <2>1, <3>1, <4>2
      <4>. QED
        BY <4>1, <4>2
    <3>. QED
      BY <1>9, <3>2, <3>3
  <2>3. h = [n \in D \cup {NoNode} |-> IF n = NoNode THEN <<>> ELSE <<n>> \o h[nx[n]]]
    BY <1>4, <2>1, <2>2
  <2>. QED
    BY <1>6, <2>3
<1>12. Eqn(g)
  <2> HIDE DEF Eqn
  <2>. QED
    BY <1>7, <1>11
<1>13. g[NoNode] = <<>> /\ \A n \in D : g[n] = <<n>> \o g[nx[n]]
  <2> HIDE DEF Eqn
  <2>1. g = [n \in D \cup {NoNode} |-> IF n = NoNode THEN <<>> ELSE <<n>> \o g[nx[n]]]
    BY <1>6, <1>12
  <2>. QED
    BY <1>4, <2>1
<1> HIDE DEF Eqn
<1> DEFINE T == {k \in Nat : \A n \in D : k = N - pos[n] => g[n] = Suffix(c, pos[n])}
<1>14. \A k \in Nat : (\A j \in 0..(k - 1) : j \in T) => k \in T
  <2> SUFFICES ASSUME NEW k \in Nat, \A j \in 0..(k - 1) : j \in T, NEW n \in D, k = N - pos[n]
               PROVE  g[n] = Suffix(c, pos[n])
    OBVIOUS
  <2>1. PICK p : p = pos[n]
    OBVIOUS
  <2>2. p \in 0..N /\ At(c, p) = n /\ k = N - p
    BY <1>3, <2>1
  <2>3. g[nx[n]] = Suffix(c, p + 1)
    <3>1. CASE p = N
      BY <1>5, <1>10, <1>13, <2>1, <3>1
    <3>2. CASE p # N
      <4>1. nx[n] \in D /\ pos[nx[n]] = p + 1
        BY <1>5, <2>1, <3>2
      <4>2. k - 1 \in 0..(k - 1) /\ k - 1 = N - pos[nx[n]]
        BY <1>4, <2>2, <3>2, <4>1
      <4>3. k - 1 \in T
        BY <4>2
      <4>. QED
        BY <4>1, <4>2, <4>3
    <3>. QED
      BY <3>1, <3>2
  <2>. QED
    BY <1>9, <1>13, <2>1, <2>2, <2>3
<1>15. \A k \in Nat : k \in T
  <2> HIDE DEF T
  <2>. QED
    BY <1>14, Induct
<1>16. \A n \in D : g[n] = Suffix(c, pos[n])
  <2> SUFFICES ASSUME NEW n \in D PROVE g[n] = Suffix(c, pos[n])
    OBVIOUS
  <2>1. N - pos[n] \in Nat
    BY <1>3, <1>4
  <2>2. N - pos[n] \in T
    BY <1>15, <2>1
  <2>. QED
    BY <2>2
<1>17. Header \in D /\ pos[Header] = 0
  <2>1. At(c, 0) = Header /\ 0 \in 0..N
    BY <1>4 DEF At
  <2>. QED
    BY <1>3, <2>1
<1>18. Chain(0) = g[nx[Header]]
  BY <1>2, <1>8, <1>17
<1>19. Chain(0) = c
  <2>1. CASE N = 0
    <3>1. nx[Header] = NoNode
      BY <1>5, <1>17, <2>1
    <3>. QED
      BY <1>10, <1>13, <1>18, <2>1, <3>1
  <2>2. CASE N # 0
    <3>1. nx[Header] \in D /\ pos[nx[Header]] = 0 + 1
      BY <1>5, <1>17, <2>2
    <3>2. g[nx[Header]] = Suffix(c, 1)
      BY <1>16, <3>1
    <3>. QED
      BY <1>10, <1>18, <3>2
  <2>. QED
    BY <2>1, <2>2
<1>20. DOMAIN c = 1..Len(c)
  BY <1>4
<1>. QED
  BY <1>19, <1>20 DEF Reached

\* nd2 is nd with the node x behind the q-th
PutBehind(nd, nd2, c, q, x, s, o) ==
  /\ DOMAIN nd2 = DOMAIN nd \cup {x} /\ nd2 = [n \in DOMAIN nd2 |-> nd2[n]]
  /\ \A n \in DOMAIN nd :
       /\ Fields(nd2[n]) /\ Pair(nd2, n) = Pair(nd, n)
       /\ DOMAIN nd2[n].level = DOMAIN nd[n].level
       /\ nd2[n].level[0] = IF n = At(c, q) THEN [forward |-> x, span |-> 1] ELSE nd[n].level[0]
       /\ nd2[n].backward = IF n = nd[At(c, q)].level[0].forward THEN x ELSE nd[n].backward
  /\ Fields(nd2[x]) /\ Pair(nd2, x) = <<s, o>>
  /\ DOMAIN nd2[x].level \in SUBSET (0..(MaxLevel - 1)) /\ 0 \in DOMAIN nd2[x].level
  /\ nd2[x].level[0] = nd[At(c, q)].level[0]
  /\ nd2[x].backward = IF q = 0 THEN NoNode ELSE c[q]

\* d is c with x behind the q-th
HasBehind(c, q, x, d) ==
  /\ d \in Seq(Addr) /\ Len(d) = Len(c) + 1
  /\ \A p \in 1..(Len(c) + 1) : d[p] = IF p <= q THEN c[p] ELSE IF p = q + 1 THEN x ELSE c[p - 1]
  /\ \A p \in 0..(Len(c) + 1) :
       At(d, p) = IF p <= q THEN At(c, p) ELSE IF p = q + 1 THEN x ELSE At(c, p - 1)

\* Putting x behind the q-th node moves the later ones by a place.
LEMMA WithAt ==
  ASSUME NEW c \in Seq(Addr), NEW q \in 0..Len(c), NEW x \in Addr
  PROVE  HasBehind(c, q, x, With(c, q + 1, x))
<1>0. PICK d : d = With(c, q + 1, x)
  OBVIOUS
<1>1. PICK V, k : V = Addr /\ k = q + 1
  OBVIOUS
<1>2. c \in Seq(V) /\ x \in V /\ k \in 1..(Len(c) + 1) /\ Len(c) \in Nat
  BY <1>1
<1>3. /\ With(c, k, x) \in Seq(V) /\ Len(With(c, k, x)) = Len(c) + 1
      /\ \A i \in 1..(Len(c) + 1) :
           With(c, k, x)[i] = IF i < k THEN c[i] ELSE IF i = k THEN x ELSE c[i - 1]
  <2>1. PICK R : R = V
    OBVIOUS
  <2>2. c \in Seq(R) /\ x \in R /\ k \in 1..(Len(c) + 1)
    BY <1>2, <2>1
  <2>3. AddsAt(c, k, x, R)
    BY <2>2, WithElements
  <2>. QED
    BY <2>1, <2>3 DEF AddsAt
<1>4. \A p \in 1..(Len(c) + 1) : d[p] = IF p <= q THEN c[p] ELSE IF p = q + 1 THEN x ELSE c[p - 1]
  <2>1. \A p \in 1..(Len(c) + 1) : (p < k <=> p <= q) /\ (p = k <=> p = q + 1)
    BY <1>1, <1>2
  <2>. QED
    BY <1>0, <1>1, <1>3, <2>1
<1>5. ASSUME NEW p \in 0..(Len(c) + 1)
      PROVE  At(d, p) = IF p <= q THEN At(c, p) ELSE IF p = q + 1 THEN x ELSE At(c, p - 1)
  <2>1. CASE p = 0
    BY <1>2, <2>1 DEF At
  <2>2. CASE p # 0
    <3>1. p \in 1..(Len(c) + 1) /\ (~(p <= q) /\ p # q + 1 => p - 1 # 0)
      BY <1>2, <2>2
    <3>. QED
      BY <1>4, <2>2, <3>1 DEF At
  <2>. QED
    BY <2>1, <2>2
<1>. QED
  BY <1>0, <1>1, <1>3, <1>4, <1>5 DEF HasBehind

\* What zslInsert writes on level 0 links c with the new node in its place.
LEMMA ThreadsWith ==
  ASSUME NEW nd, NEW c, Threads(nd, c), NEW s \in Score, NEW o \in Obj,
         NEW q, Splits(nd, c, s, o, q), \A p \in 1..Len(c) : Pair(nd, c[p]) # <<s, o>>,
         NEW x \in Addr, x \notin DOMAIN nd, NEW nd2, PutBehind(nd, nd2, c, q, x, s, o)
  PROVE  Threads(nd2, With(c, q + 1, x))
<1> USE ZslAssumption
<1>1. PICK N : N = Len(c)
  OBVIOUS
<1>2. PICK d : d = With(c, q + 1, x)
  OBVIOUS
<1>3. c \in Seq(Addr) /\ N \in Nat /\ q \in 0..N
  BY <1>1 DEF Threads, Splits
<1>4. /\ d \in Seq(Addr) /\ Len(d) = N + 1
      /\ \A p \in 1..(N + 1) : d[p] = IF p <= q THEN c[p] ELSE IF p = q + 1 THEN x ELSE c[p - 1]
      /\ \A p \in 0..(N + 1) :
           At(d, p) = IF p <= q THEN At(c, p) ELSE IF p = q + 1 THEN x ELSE At(c, p - 1)
  <2>1. q \in 0..Len(c)
    BY <1>1, <1>3
  <2>2. HasBehind(c, q, x, d)
    BY <1>2, <1>3, <2>1, WithAt
  <2>. QED
    BY <1>1, <2>2 DEF HasBehind
<1>5. PICK pos : /\ pos \in [DOMAIN nd -> 0..N]
                 /\ \A n \in DOMAIN nd : At(c, pos[n]) = n
                 /\ \A p \in 0..N : At(c, p) \in DOMAIN nd /\ pos[At(c, p)] = p
  BY <1>1, Places
<1>6. \A p \in 1..N : c[p] = At(c, p) /\ c[p] \in DOMAIN nd /\ c[p] # x /\ pos[c[p]] = p
  <2>1. \A p \in 1..N : p # 0 /\ p \in 0..N
    OBVIOUS
  <2>. QED
    BY <1>5, <2>1 DEF At
<1>7. \A p, r \in 1..(N + 1) : p # r => d[p] # d[r]
  <2> SUFFICES ASSUME NEW p \in 1..(N + 1), NEW r \in 1..(N + 1), p # r, d[p] = d[r] PROVE FALSE
    OBVIOUS
  <2>1. \A i \in 1..(N + 1) : /\ i <= q => i \in 1..N
                              /\ ~(i <= q) /\ i # q + 1 => i - 1 \in 1..N
    BY <1>3
  <2>2. \A i \in 1..(N + 1) : /\ i <= q => d[i] # x /\ pos[d[i]] = i
                              /\ i = q + 1 => d[i] = x
                              /\ ~(i <= q) /\ i # q + 1 => d[i] # x /\ pos[d[i]] = i - 1
    <3>1. \A i \in 1..(N + 1) : i = q + 1 => ~(i <= q)
      BY <1>3
    <3>. QED
      BY <1>4, <1>6, <2>1, <3>1
  <2>3. CASE d[p] = x
    <3>1. p = q + 1 /\ r = q + 1
      BY <2>2, <2>3
    <3>. QED
      BY <3>1
  <2>4. CASE d[p] # x
    <3>1. PICK i : i = pos[d[p]]
      OBVIOUS
    <3>2. p # q + 1 /\ r # q + 1
      BY <2>2, <2>4
    <3>3. (p <= q => i = p) /\ (~(p <= q) => i = p - 1) /\ (r <= q => i = r) /\ (~(r <= q) => i = r - 1)
      BY <2>2, <3>1, <3>2
    <3>. QED
      BY <1>3, <3>2, <3>3
  <2>. QED
    BY <2>3, <2>4
<1>8. DOMAIN nd2 = {At(d, p) : p \in 0..(N + 1)}
  <2>1. DOMAIN nd = {At(c, p) : p \in 0..N} /\ DOMAIN nd2 = DOMAIN nd \cup {x}
    BY <1>1 DEF Threads, PutBehind
  <2>2. ASSUME NEW p \in 0..N PROVE \E r \in 0..(N + 1) : At(d, r) = At(c, p)
    <3>1. CASE p <= q
      <4>1. p \in 0..(N + 1)
        BY <1>3
      <4>. QED
        BY <1>4, <3>1, <4>1
    <3>2. CASE p > q
      <4>1. p + 1 \in 0..(N + 1) /\ ~(p + 1 <= q) /\ p + 1 # q + 1 /\ (p + 1) - 1 = p
        BY <1>3, <3>2
      <4>. QED
        BY <1>4, <4>1
    <3>. QED
      BY <1>3, <3>1, <3>2
  <2>3. q + 1 \in 0..(N + 1) /\ At(d, q + 1) = x
    BY <1>3, <1>4
  <2>4. ASSUME NEW r \in 0..(N + 1) PROVE At(d, r) \in DOMAIN nd \cup {x}
    <3>1. r <= q => r \in 0..N
      BY <1>3
    <3>2. ~(r <= q) /\ r # q + 1 => r - 1 \in 0..N
      BY <1>3
    <3>. QED
      BY <1>4, <1>5, <3>1, <3>2
  <2>. QED
    BY <2>1, <2>2, <2>3, <2>4
<1>9. ASSUME NEW p \in 0..(N + 1)
      PROVE  /\ Fields(nd2[At(d, p)])
             /\ DOMAIN nd2[At(d, p)].level \in SUBSET (0..(MaxLevel - 1))
             /\ 0 \in DOMAIN nd2[At(d, p)].level
  <2>1. At(d, p) \in DOMAIN nd \cup {x}
    BY <1>8 DEF PutBehind
  <2>2. CASE At(d, p) = x
    BY <2>2 DEF PutBehind
  <2>3. CASE At(d, p) \in DOMAIN nd
    <3>1. PICK r \in 0..N : At(d, p) = At(c, r)
      BY <1>5, <2>3
    <3>. QED
      BY <1>1, <2>3, <3>1 DEF PutBehind, Threads
  <2>. QED
    BY <2>1, <2>2, <2>3
<1>10. ASSUME NEW p \in 0..(N + 1)
       PROVE  nd2[At(d, p)].level[0] = IF p = N + 1 THEN [forward |-> NoNode, span |-> 0]
                                       ELSE [forward |-> d[p + 1], span |-> 1]
  <2>1. \A r \in 0..N : nd[At(c, r)].level[0] = IF r = N THEN [forward |-> NoNode, span |-> 0]
                                                ELSE [forward |-> c[r + 1], span |-> 1]
    BY <1>1 DEF Threads
  <2>2. \A r \in 0..N : nd2[At(c, r)].level[0] = IF r = q THEN [forward |-> x, span |-> 1]
                                                 ELSE nd[At(c, r)].level[0]
    <3>1. \A r \in 0..N : At(c, r) = At(c, q) <=> r = q
      BY <1>3, <1>5
    <3>. QED
      BY <1>5, <3>1 DEF PutBehind
  <2>3. CASE p < q
    <3>1. /\ At(d, p) = At(c, p) /\ p \in 0..N /\ p # q /\ p # N /\ p # N + 1
          /\ p + 1 \in 1..(N + 1) /\ p + 1 <= q
      BY <1>3, <1>4, <2>3
    <3>2. d[p + 1] = c[p + 1]
      BY <1>4, <3>1
    <3>. QED
      BY <2>1, <2>2, <3>1, <3>2
  <2>4. CASE p = q
    <3>1. At(d, p) = At(c, q) /\ p # N + 1 /\ p + 1 \in 1..(N + 1)
      BY <1>3, <1>4, <2>4
    <3>2. d[p + 1] = x
      BY <1>3, <1>4, <2>4, <3>1
    <3>. QED
      BY <1>3, <2>2, <2>4, <3>1, <3>2
  <2>5. CASE p = q + 1
    <3>1. At(d, p) = x /\ nd2[x].level[0] = nd[At(c, q)].level[0] /\ (p = N + 1 <=> q = N)
      BY <1>3, <1>4, <2>5 DEF PutBehind
    <3>2. ASSUME q # N PROVE d[p + 1] = c[q + 1]
      <4>1. PICK r : r = p + 1
        OBVIOUS
      <4>2. r \in 1..(N + 1) /\ ~(r <= q) /\ r # q + 1 /\ r - 1 = q + 1
        BY <1>3, <2>5, <3>2, <4>1
      <4>3. d[r] = c[r - 1]
        BY <1>4, <4>2
      <4>. QED
        BY <4>1, <4>2, <4>3
    <3>. QED
      BY <1>3, <2>1, <3>1, <3>2
  <2>6. CASE p > q + 1
    <3>1. p - 1 \in 0..N /\ p - 1 # q /\ (p - 1 = N <=> p = N + 1) /\ ~(p <= q) /\ p # q + 1 /\ (p - 1) + 1 = p
      BY <1>3, <2>6
    <3>2. At(d, p) = At(c, p - 1)
      BY <1>4, <3>1
    <3>3. ASSUME p # N + 1 PROVE d[p + 1] = c[p]
      <4>1. p + 1 \in 1..(N + 1) /\ ~(p + 1 <= q) /\ p + 1 # q + 1 /\ (p + 1) - 1 = p
        BY <1>3, <2>6, <3>3
      <4>. QED
        BY <1>4, <4>1
    <3>4. nd2[At(c, p - 1)].level[0] = nd[At(c, p - 1)].level[0]
      BY <2>2, <3>1
    <3>5. nd[At(c, p - 1)].level[0] = IF p = N + 1 THEN [forward |-> NoNode, span |-> 0]
                                      ELSE [forward |-> c[p], span |-> 1]
      BY <2>1, <3>1
    <3>. QED
      BY <3>2, <3>3, <3>4, <3>5
  <2>. QED
    BY <1>3, <2>3, <2>4, <2>5, <2>6
<1>11. \A p \in 1..(N + 1) : Pair(nd2, d[p]) = IF p <= q THEN Pair(nd, c[p])
                                              ELSE IF p = q + 1 THEN <<s, o>> ELSE Pair(nd, c[p - 1])
  <2>1. \A p \in 1..(N + 1) : /\ p <= q => p \in 1..N
                              /\ ~(p <= q) /\ p # q + 1 => p - 1 \in 1..N
    BY <1>3
  <2>. QED
    BY <1>4, <1>6, <2>1 DEF PutBehind
<1>12. \A p \in 1..N : nd[c[p]].score \in Score /\ nd[c[p]].obj \in Obj
  BY <1>1 DEF Threads
<1>13. ASSUME NEW p \in 1..(N + 1) PROVE nd2[d[p]].score \in Score /\ nd2[d[p]].obj \in Obj
  <2>1. \A i \in 1..N : Pair(nd, c[i]) \in Score \X Obj
    BY <1>12 DEF Pair
  <2>2. Pair(nd2, d[p]) \in Score \X Obj
    <3>1. p <= q => p \in 1..N
      BY <1>3
    <3>2. ~(p <= q) /\ p # q + 1 => p - 1 \in 1..N
      BY <1>3
    <3>. QED
      BY <1>11, <2>1, <3>1, <3>2
  <2>. QED
    BY <2>2 DEF Pair
<1>14. ASSUME NEW p \in 1..(N + 1), NEW r \in 1..(N + 1), p < r
       PROVE  LtElement(Pair(nd2, d[p]), Pair(nd2, d[r]))
  <2>1. \A i, j \in 1..N : i < j => LtElement(Pair(nd, c[i]), Pair(nd, c[j]))
    BY <1>1 DEF Threads
  <2>2. \A i \in 1..N : i <= q => LtElement(Pair(nd, c[i]), <<s, o>>)
    BY <1>1 DEF Splits
  <2>3. ASSUME NEW i \in 1..N, ~(i <= q) PROVE LtElement(<<s, o>>, Pair(nd, c[i]))
    <3>1. ~LtElement(Pair(nd, c[i]), <<s, o>>) /\ Pair(nd, c[i]) # <<s, o>>
      BY <1>1, <2>3 DEF Splits
    <3>2. nd[c[i]].score \in Int /\ nd[c[i]].obj \in Int /\ s \in Int /\ o \in Int
      BY <1>12
    <3>. QED
      BY <3>1, <3>2 DEF LtElement, Pair
  <2>4. CASE r <= q
    <3>1. p \in 1..N /\ r \in 1..N /\ p <= q
      BY <1>3, <1>14, <2>4
    <3>. QED
      BY <1>11, <1>14, <2>1, <2>4, <3>1
  <2>5. CASE r = q + 1
    <3>1. p \in 1..N /\ p <= q /\ ~(r <= q)
      BY <1>3, <1>14, <2>5
    <3>. QED
      BY <1>11, <2>2, <2>5, <3>1
  <2>6. CASE r > q + 1
    <3>1. r - 1 \in 1..N /\ ~(r <= q) /\ r # q + 1 /\ ~(r - 1 <= q)
      BY <1>3, <2>6
    <3>2. Pair(nd2, d[r]) = Pair(nd, c[r - 1])
      BY <1>11, <3>1
    <3>3. CASE p <= q
      <4>1. p \in 1..N /\ p < r - 1
        BY <1>3, <2>6, <3>3
      <4>. QED
        BY <1>11, <2>1, <3>1, <3>2, <3>3, <4>1
    <3>4. CASE p = q + 1
      <4>1. ~(p <= q)
        BY <1>3, <3>4
      <4>. QED
        BY <1>11, <2>3, <3>1, <3>2, <3>4, <4>1
    <3>5. CASE p > q + 1
      <4>1. p - 1 \in 1..N /\ ~(p <= q) /\ p # q + 1 /\ p - 1 < r - 1
        BY <1>3, <1>14, <3>5
      <4>. QED
        BY <1>11, <2>1, <3>1, <3>2, <4>1
    <3>. QED
      BY <1>3, <3>3, <3>4, <3>5
  <2>. QED
    BY <1>3, <2>4, <2>5, <2>6
<1>15. ASSUME NEW p \in 1..(N + 1) PROVE nd2[d[p]].backward = IF p = 1 THEN NoNode ELSE d[p - 1]
  <2>1. PICK f : f = nd[At(c, q)].level[0].forward
    OBVIOUS
  <2>2. \A r \in 1..N : c[r] = f <=> r = q + 1
    <3>1. f = IF q = N THEN NoNode ELSE c[q + 1]
      <4>1. nd[At(c, q)].level[0] = IF q = N THEN [forward |-> NoNode, span |-> 0]
                                    ELSE [forward |-> c[q + 1], span |-> 1]
        BY <1>1, <1>3 DEF Threads
      <4>. QED
        BY <2>1, <4>1
    <3>2. \A r \in 1..N : c[r] # NoNode
      BY <1>1, <1>3
    <3>3. q # N => q + 1 \in 1..N
      BY <1>3
    <3>4. \A r \in 1..N : \A t \in 1..N : c[r] = c[t] => r = t
      BY <1>6
    <3>5. \A r \in 1..N : q = N => r # q + 1
      BY <1>3
    <3>. QED
      BY <3>1, <3>2, <3>3, <3>4, <3>5
  <2>3. \A r \in 1..N : nd2[c[r]].backward = IF r = q + 1 THEN x ELSE nd[c[r]].backward
    BY <1>6, <2>1, <2>2 DEF PutBehind
  <2>4. \A r \in 1..N : nd[c[r]].backward = IF r = 1 THEN NoNode ELSE c[r - 1]
    BY <1>1 DEF Threads
  <2>5. CASE p <= q
    <3>1. p \in 1..N /\ p # q + 1 /\ (p # 1 => p - 1 \in 1..(N + 1) /\ p - 1 <= q)
      BY <1>3, <2>5
    <3>2. d[p] = c[p] /\ (p # 1 => d[p - 1] = c[p - 1])
      BY <1>4, <2>5, <3>1
    <3>. QED
      BY <2>3, <2>4, <3>1, <3>2
  <2>6. CASE p = q + 1
    <3>1. d[p] = x /\ nd2[x].backward = IF q = 0 THEN NoNode ELSE c[q]
      BY <1>3, <1>4, <2>6 DEF PutBehind
    <3>2. (p = 1 <=> q = 0) /\ p - 1 = q /\ (q # 0 => q \in 1..(N + 1) /\ q <= q)
      BY <1>3, <2>6
    <3>3. q # 0 => d[q] = c[q]
      BY <1>4, <3>2
    <3>. QED
      BY <3>1, <3>2, <3>3
  <2>7. CASE p > q + 1
    <3>1. p - 1 \in 1..N /\ ~(p <= q) /\ p # q + 1 /\ p # 1
      BY <1>3, <2>7
    <3>2. d[p] = c[p - 1]
      BY <1>4, <3>1
    <3>3. CASE p - 1 = q + 1
      <4>1. d[p - 1] = x
        <5>1. p - 1 \in 1..(N + 1) /\ ~(p - 1 <= q)
          BY <1>3, <3>1, <3>3
        <5>. QED
          BY <1>4, <3>3, <5>1
      <4>. QED
        BY <2>3, <3>1, <3>2, <3>3, <4>1
    <3>4. CASE p - 1 # q + 1
      <4>1. p - 1 \in 1..(N + 1) /\ ~(p - 1 <= q) /\ p - 1 # 1
        BY <1>3, <2>7, <3>1, <3>4
      <4>2. d[p - 1] = c[(p - 1) - 1]
        BY <1>4, <3>4, <4>1
      <4>. QED
        BY <2>3, <2>4, <3>1, <3>2, <3>4, <4>1, <4>2
    <3>. QED
      BY <3>3, <3>4
  <2>. QED
    BY <1>3, <2>5, <2>6, <2>7
<1>16. nd2 = [n \in DOMAIN nd2 |-> nd2[n]]
  BY DEF PutBehind
<1>17. PICK M : M = Len(d)
  OBVIOUS
<1>18. M = N + 1
  BY <1>4, <1>17
<1>19. /\ \A p, r \in 1..M : p # r => d[p] # d[r]
       /\ DOMAIN nd2 = {At(d, p) : p \in 0..M}
  BY <1>7, <1>8, <1>18
<1>20. \A p \in 0..M :
         /\ Fields(nd2[At(d, p)])
         /\ DOMAIN nd2[At(d, p)].level \in SUBSET (0..(MaxLevel - 1))
         /\ 0 \in DOMAIN nd2[At(d, p)].level
         /\ nd2[At(d, p)].level[0] = IF p = M THEN [forward |-> NoNode, span |-> 0]
                                     ELSE [forward |-> d[p + 1], span |-> 1]
  BY <1>9, <1>10, <1>18
<1>21. \A p \in 1..M : /\ nd2[d[p]].score \in Score /\ nd2[d[p]].obj \in Obj
                       /\ nd2[d[p]].backward = IF p = 1 THEN NoNode ELSE d[p - 1]
  BY <1>13, <1>15, <1>18
<1>22. \A p, r \in 1..M : p < r => LtElement(Pair(nd2, d[p]), Pair(nd2, d[r]))
  BY <1>14, <1>18
<1>23. d \in Seq(Addr)
  BY <1>4
<1>24. Threads(nd2, d)
  BY <1>16, <1>17, <1>19, <1>20, <1>21, <1>22, <1>23 DEF Threads
<1>. QED
  BY <1>2, <1>24

\* Writing the links and the backward pointer of a node keeps the rest.
LEMMA NodeExcept ==
  ASSUME NEW r, Fields(r), NEW l, NEW b
  PROVE  [r EXCEPT !.level = l, !.backward = b] = zslCreateNode(r.score, r.obj, b, l)
<1>1. r = [score |-> r.score, obj |-> r.obj, backward |-> r.backward, level |-> r.level]
  BY DEF Fields, zslCreateNode
<1>2. PICK t : t = [x \in DOMAIN r |-> IF x = "backward" THEN b ELSE IF x = "level" THEN l ELSE r[x]]
  OBVIOUS
<1>3. [r EXCEPT !.level = l, !.backward = b] = t
  BY <1>1, <1>2
<1>4. [score |-> r.score, obj |-> r.obj, backward |-> b, level |-> l] = t
  BY <1>1, <1>2
<1>. QED
  BY <1>3, <1>4 DEF zslCreateNode

\* What zslCreateNode sets is what the node has.
LEMMA NodeFields ==
  ASSUME NEW s, NEW o, NEW b, NEW l
  PROVE  /\ Fields(zslCreateNode(s, o, b, l)) /\ zslCreateNode(s, o, b, l).score = s
         /\ zslCreateNode(s, o, b, l).obj = o /\ zslCreateNode(s, o, b, l).backward = b
         /\ zslCreateNode(s, o, b, l).level = l
BY DEF Fields, zslCreateNode

\* the links of level 0 after an insertion
LinksPut(K, c, q, x, height) ==
  /\ DOMAIN K = DOMAIN node \cup {x}
  /\ DOMAIN K[x] = 0..(height - 1) /\ K[x][0] = node[At(c, q)].level[0]
  /\ \A n \in DOMAIN node :
       /\ DOMAIN K[n] = DOMAIN node[n].level
       /\ K[n][0] = IF n = At(c, q) THEN [forward |-> x, span |-> 1] ELSE node[n].level[0]

\* zslInsert gives the new node the link of the one in front of it, span
\* included, and makes that one's link lead to the new node over one place.
LEMMA InsertLinks ==
  ASSUME NEW c, Threads(node, c), zsl.level = 1, NEW q \in 0..Len(c),
         NEW path, path[0] = [at |-> At(c, q), rank |-> q],
         NEW height \in 1..MaxLevel, NEW x, x \notin DOMAIN node,
         NEW K, K = LinksAfterInsert(x, path, height)
  PROVE  LinksPut(K, c, q, x, height)
<1> USE ZslAssumption
<1>1. PICK D, old : D = DOMAIN node /\ old = node[At(c, q)].level[0]
  OBVIOUS
<1>i. PICK f, sp : f = old.forward /\ sp = old.span
  OBVIOUS
<1>2. old = [forward |-> f, span |-> sp] /\ sp \in Int
  <2>1. old = IF q = Len(c) THEN [forward |-> NoNode, span |-> 0] ELSE [forward |-> c[q + 1], span |-> 1]
    BY <1>1 DEF Threads
  <2>. QED
    BY <1>i, <2>1
<1>3. /\ path[0].at = At(c, q) /\ path[0].rank = q /\ 0 < zsl.level /\ q - q = 0 /\ 0 + 1 = 1
      /\ 0 < height /\ 0 \in 0..(height - 1) /\ sp - 0 = sp
  <2>1. q \in Int
    OBVIOUS
  <2>. QED
    BY <1>2, <2>1
<1>4. DOMAIN K = D \cup {x}
  BY <1>1 DEF LinksAfterInsert
<1> DEFINE Put(i) == [forward |-> node[path[i].at].level[i].forward,
                      span |-> (IF i < zsl.level THEN node[path[i].at].level[i].span ELSE zsl.length)
                               - (path[0].rank - path[i].rank)]
           Old(i)  == node[path[i].at].level[i]
           Place(n, i) == IF path[i].at # n THEN node[n].level[i]
                  ELSE IF i < height THEN [forward |-> x, span |-> (path[0].rank - path[i].rank) + 1]
                  ELSE IF i < zsl.level THEN [Old(i) EXCEPT !.span = @ + 1]
                  ELSE Old(i)
<1>5. K[x] = [i \in 0..(height - 1) |-> Put(i)]
  BY DEF LinksAfterInsert
<1>6. \A n \in D : K[n] = [i \in Levels(n) |-> Place(n, i)]
  BY <1>1 DEF LinksAfterInsert
<1>7. Put(0) = old
  <2>1. node[path[0].at].level[0] = old
    BY <1>1, <1>3
  <2>2. Put(0) = [forward |-> old.forward, span |-> old.span - 0]
    BY <1>3, <2>1
  <2>. QED
    BY <1>2, <1>3, <2>2
<1>8. ASSUME NEW n \in D PROVE Place(n, 0) = IF n = At(c, q) THEN [forward |-> x, span |-> 1] ELSE node[n].level[0]
  BY <1>3
<1> HIDE DEF Put, Place
<1>9. K[x][0] = old /\ DOMAIN K[x] = 0..(height - 1)
  BY <1>3, <1>5, <1>7
<1>10. ASSUME NEW n \in D
       PROVE  DOMAIN K[n] = DOMAIN node[n].level /\ K[n][0] = Place(n, 0)
  <2>1. \A p \in 0..Len(c) : 0 \in DOMAIN node[At(c, p)].level
    BY DEF Threads
  <2>2. \E p \in 0..Len(c) : At(c, p) = n
    BY <1>1 DEF Threads
  <2>3. 0 \in DOMAIN node[n].level
    BY <2>1, <2>2
  <2>. QED
    BY <1>6, <2>3 DEF Levels
<1>. QED
  BY <1>1, <1>4, <1>8, <1>9, <1>10 DEF LinksPut

\* zslInsert puts one node behind those before (s, o).
LEMMA InsertStep ==
  ASSUME NEW c, IsList(node, zsl, c), NEW s \in Score, NEW o \in Obj, NEW x \in Addr,
         NEW height \in 1..MaxLevel, zslInsert(x, s, o, height),
         NEW q, Splits(node, c, s, o, q)
  PROVE  /\ PutBehind(node, node', c, q, x, s, o)
         /\ \A p \in 1..Len(c) : Pair(node, c[p]) # <<s, o>>
         /\ IsList(node', zsl', With(c, q + 1, x)) /\ ret' = TRUE
<1> USE ZslAssumption
<1>1. PICK D, N, K, path : /\ D = DOMAIN node /\ N = Len(c) /\ path = Search(s, o)
                           /\ K = LinksAfterInsert(x, path, height)
  OBVIOUS
<1>2. PICK after : after = K[x][0].forward
  OBVIOUS
<1>3. Threads(node, c) /\ zsl.level = 1 /\ zsl.length = N
  BY <1>1 DEF IsList
<1>4. N \in Nat /\ q \in 0..N /\ c \in Seq(Addr)
  BY <1>1, <1>3 DEF Splits, Threads
<1>5. path[0] = [at |-> At(c, q), rank |-> q]
  BY <1>1, SearchPlace
<1>6. x \notin D /\ Absent(o)
  BY <1>1 DEF zslInsert
<1>7. LinksPut(K, c, q, x, height)
  BY <1>1, <1>3, <1>4, <1>5, <1>6, InsertLinks
<1>8. /\ node' = [n \in D \cup {x} |->
                    IF n = x
                    THEN zslCreateNode(s, o, IF path[0].at = Header THEN NoNode ELSE path[0].at, K[n])
                    ELSE [node[n] EXCEPT !.level = K[n], !.backward = Backward(n, after, x)]]
      /\ zsl' = [zsl EXCEPT !.tail = IF after = NoNode THEN x ELSE @, !.length = @ + 1]
      /\ ret' = TRUE
  <2>1. DOMAIN K = D \cup {x}
    BY <1>1, <1>7 DEF LinksPut
  <2>. QED
    BY <1>1, <1>2, <2>1 DEF zslInsert, Inserted
<1>9. PICK front : front = IF q = 0 THEN NoNode ELSE c[q]
  OBVIOUS
<1>10. node'[x] = zslCreateNode(s, o, front, K[x])
  <2>1. path[0].at = At(c, q)
    BY <1>5
  <2>2. At(c, q) = Header <=> q = 0
    <3>1. q # 0 => q \in 1..N
      BY <1>4
    <3>2. \A p \in 1..N : c[p] \in Addr
      BY <1>1, <1>4
    <3>. QED
      BY <3>1, <3>2 DEF At
  <2>3. (IF path[0].at = Header THEN NoNode ELSE path[0].at) = front
    BY <1>9, <2>1, <2>2 DEF At
  <2>. QED
    BY <1>8, <2>3
<1>11. \A n \in D : Fields(node[n])
  BY <1>1, <1>3 DEF Threads
<1>12. ASSUME NEW n \in D
       PROVE  node'[n] = zslCreateNode(node[n].score, node[n].obj, Backward(n, after, x), K[n])
  <2>1. node'[n] = [node[n] EXCEPT !.level = K[n], !.backward = Backward(n, after, x)]
    BY <1>6, <1>8
  <2>2. PICK r, l, b : r = node[n] /\ l = K[n] /\ b = Backward(n, after, x)
    OBVIOUS
  <2>3. [r EXCEPT !.level = l, !.backward = b] = zslCreateNode(r.score, r.obj, b, l)
    BY <1>11, <2>2, NodeExcept
  <2>. QED
    BY <2>1, <2>2, <2>3
<1>13. after = node[At(c, q)].level[0].forward
  BY <1>2, <1>7 DEF LinksPut
<1>14. PICK nd, nd2 : nd = node /\ nd2 = node'
  OBVIOUS
<1>15. ASSUME NEW n \in D
       PROVE  /\ Fields(nd2[n]) /\ Pair(nd2, n) = Pair(nd, n)
              /\ DOMAIN nd2[n].level = DOMAIN nd[n].level
              /\ nd2[n].level[0] = IF n = At(c, q) THEN [forward |-> x, span |-> 1] ELSE nd[n].level[0]
              /\ nd2[n].backward = IF n = nd[At(c, q)].level[0].forward THEN x ELSE nd[n].backward
  <2>1. PICK b, l : b = Backward(n, after, x) /\ l = K[n]
    OBVIOUS
  <2>2. nd2[n] = zslCreateNode(nd[n].score, nd[n].obj, b, l)
    BY <1>12, <1>14, <2>1
  <2>3. Fields(nd2[n]) /\ nd2[n].score = nd[n].score /\ nd2[n].obj = nd[n].obj /\ nd2[n].backward = b /\ nd2[n].level = l
    BY <2>2, NodeFields
  <2>4. /\ DOMAIN l = DOMAIN nd[n].level
        /\ l[0] = IF n = At(c, q) THEN [forward |-> x, span |-> 1] ELSE nd[n].level[0]
    BY <1>1, <1>7, <1>14, <2>1 DEF LinksPut
  <2>5. b = IF n = nd[At(c, q)].level[0].forward THEN x ELSE nd[n].backward
    BY <1>13, <1>14, <2>1 DEF Backward
  <2>. QED
    BY <2>3, <2>4, <2>5 DEF Pair
<1>16. /\ Fields(nd2[x]) /\ Pair(nd2, x) = <<s, o>>
       /\ DOMAIN nd2[x].level \in SUBSET (0..(MaxLevel - 1)) /\ 0 \in DOMAIN nd2[x].level
       /\ nd2[x].level[0] = nd[At(c, q)].level[0]
       /\ nd2[x].backward = IF q = 0 THEN NoNode ELSE c[q]
  <2>1. PICK l : l = K[x]
    OBVIOUS
  <2>2. nd2[x] = zslCreateNode(s, o, front, l)
    BY <1>10, <1>14, <2>1
  <2>3. Fields(nd2[x]) /\ nd2[x].score = s /\ nd2[x].obj = o /\ nd2[x].backward = front /\ nd2[x].level = l
    BY <2>2, NodeFields
  <2>4. DOMAIN l = 0..(height - 1) /\ l[0] = nd[At(c, q)].level[0]
    BY <1>7, <1>14, <2>1 DEF LinksPut
  <2>5. 0 \in 0..(height - 1) /\ 0..(height - 1) \in SUBSET (0..(MaxLevel - 1))
    OBVIOUS
  <2>. QED
    BY <1>9, <2>3, <2>4, <2>5 DEF Pair
<1>17. DOMAIN nd2 = DOMAIN nd \cup {x} /\ nd2 = [n \in DOMAIN nd2 |-> nd2[n]]
  BY <1>1, <1>8, <1>14
<1>18. PutBehind(nd, nd2, c, q, x, s, o)
  BY <1>1, <1>14, <1>15, <1>16, <1>17 DEF PutBehind
<1>19. \A p \in 1..Len(c) : Pair(nd, c[p]) # <<s, o>>
  <2>1. Reached(0) = {c[p] : p \in 1..Len(c)}
    BY <1>3, ChainIs
  <2>. QED
    BY <1>6, <1>14, <2>1 DEF Absent, Pair
<1>20. Threads(nd, c) /\ Splits(nd, c, s, o, q) /\ x \notin DOMAIN nd
  BY <1>1, <1>3, <1>6, <1>14
<1>21. Threads(nd2, With(c, q + 1, x))
  BY <1>18, <1>19, <1>20, ThreadsWith
<1>22. PICK d : d = With(c, q + 1, x)
  OBVIOUS
<1>23. HasBehind(c, q, x, d)
  <2>1. q \in 0..Len(c)
    BY <1>1, <1>4
  <2>. QED
    BY <1>4, <1>22, <2>1, WithAt
<1>24. zsl' = [tail |-> IF after = NoNode THEN x ELSE zsl.tail, length |-> N + 1, level |-> 1]
  <2>1. PICK t : zsl = [tail |-> t, length |-> N, level |-> 1] /\ t = zsl.tail
    BY <1>1 DEF IsList
  <2>. QED
    BY <1>8, <2>1
<1>25. (IF after = NoNode THEN x ELSE zsl.tail) = d[N + 1] /\ Len(d) = N + 1
  <2>1. /\ Len(d) = N + 1
        /\ \A p \in 1..(N + 1) : d[p] = IF p <= q THEN c[p] ELSE IF p = q + 1 THEN x ELSE c[p - 1]
    BY <1>1, <1>23 DEF HasBehind
  <2>2. CASE q = N
    <3>1. after = NoNode
      BY <1>1, <1>3, <1>4, <1>13, <2>2, Links
    <3>2. N + 1 \in 1..(N + 1) /\ ~(N + 1 <= q) /\ N + 1 = q + 1
      BY <1>4, <2>2
    <3>. QED
      BY <2>1, <3>1, <3>2
  <2>3. CASE q < N
    <3>1. after # NoNode
      <4>1. PICK r : r = At(c, q)
        OBVIOUS
      <4>2. node[At(c, q)].level[0].forward = At(c, q + 1) /\ At(c, q + 1) = c[q + 1] /\ c[q + 1] # NoNode
        BY <1>1, <1>3, <1>4, <2>3, Links
      <4>. QED
        BY <1>13, <4>2
    <3>2. N + 1 \in 1..(N + 1) /\ ~(N + 1 <= q) /\ N + 1 # q + 1 /\ (N + 1) - 1 = N /\ N # 0
      BY <1>4, <2>3
    <3>3. zsl.tail = c[N]
      BY <1>1, <3>2 DEF IsList
    <3>. QED
      BY <2>1, <3>1, <3>2, <3>3
  <2>. QED
    BY <1>4, <2>2, <2>3
<1>26. IsList(node', zsl', d)
  <2>1. Len(d) # 0
    BY <1>4, <1>25
  <2>2. Threads(node', d)
    BY <1>14, <1>21, <1>22
  <2>. QED
    BY <1>24, <1>25, <2>1, <2>2 DEF IsList
<1>. QED
  BY <1>8, <1>14, <1>18, <1>19, <1>22, <1>26

\* nd2 is nd without the k-th node
TakenOut(nd, nd2, c, k) ==
  /\ DOMAIN nd2 = DOMAIN nd \ {c[k]} /\ nd2 = [n \in DOMAIN nd2 |-> nd2[n]]
  /\ \A n \in DOMAIN nd \ {c[k]} :
       /\ Fields(nd2[n]) /\ Pair(nd2, n) = Pair(nd, n)
       /\ DOMAIN nd2[n].level = DOMAIN nd[n].level
       /\ nd2[n].level[0] = IF n = At(c, k - 1) THEN nd[c[k]].level[0] ELSE nd[n].level[0]
       /\ nd2[n].backward = IF n = nd[c[k]].level[0].forward THEN nd[c[k]].backward ELSE nd[n].backward

\* d is c without the k-th
LacksAt(c, k, d) ==
  /\ d \in Seq(Addr) /\ Len(d) = Len(c) - 1
  /\ \A p \in 1..(Len(c) - 1) : d[p] = IF p < k THEN c[p] ELSE c[p + 1]
  /\ \A p \in 0..(Len(c) - 1) : At(d, p) = IF p < k THEN At(c, p) ELSE At(c, p + 1)

\* Taking the k-th node out moves the later ones by a place.
LEMMA WithoutAt ==
  ASSUME NEW c \in Seq(Addr), NEW k \in 1..Len(c)
  PROVE  LacksAt(c, k, Without(c, k))
<1>1. PICK d : d = Without(c, k)
  OBVIOUS
<1>2. PICK R : R = Addr
  OBVIOUS
<1>3. c \in Seq(R) /\ k \in 1..Len(c) /\ Len(c) \in Nat
  BY <1>2
<1>4. TakesAt(c, k, R)
  BY <1>3, WithoutElements
<1>5. d \in Seq(Addr) /\ Len(d) = Len(c) - 1 /\ \A p \in 1..(Len(c) - 1) : d[p] = IF p < k THEN c[p] ELSE c[p + 1]
  BY <1>1, <1>2, <1>4 DEF TakesAt
<1>6. ASSUME NEW p \in 0..(Len(c) - 1) PROVE At(d, p) = IF p < k THEN At(c, p) ELSE At(c, p + 1)
  <2>1. CASE p = 0
    BY <1>3, <2>1 DEF At
  <2>2. CASE p # 0
    <3>1. p \in 1..(Len(c) - 1) /\ p + 1 # 0
      BY <1>3, <2>2
    <3>. QED
      BY <1>5, <2>2, <3>1 DEF At
  <2>. QED
    BY <2>1, <2>2
<1>. QED
  BY <1>1, <1>5, <1>6 DEF LacksAt

\* What zslDeleteNode writes on level 0 links c without the deleted node.
LEMMA ThreadsWithout ==
  ASSUME NEW nd, NEW c, Threads(nd, c), NEW k \in 1..Len(c),
         NEW nd2, TakenOut(nd, nd2, c, k)
  PROVE  Threads(nd2, Without(c, k))
<1> USE ZslAssumption
<1>1. PICK N, M, d, x : N = Len(c) /\ M = N - 1 /\ d = Without(c, k) /\ x = c[k]
  OBVIOUS
<1>2. c \in Seq(Addr) /\ N \in Nat /\ k \in 1..N /\ M \in Nat /\ M + 1 = N
  BY <1>1 DEF Threads
<1>3. /\ d \in Seq(Addr) /\ Len(d) = M
      /\ \A p \in 1..M : d[p] = IF p < k THEN c[p] ELSE c[p + 1]
      /\ \A p \in 0..M : At(d, p) = IF p < k THEN At(c, p) ELSE At(c, p + 1)
  <2>1. LacksAt(c, k, d)
    BY <1>1, <1>2, WithoutAt
  <2>. QED
    BY <1>1, <2>1 DEF LacksAt
<1>4. PICK pos : /\ pos \in [DOMAIN nd -> 0..N]
                 /\ \A n \in DOMAIN nd : At(c, pos[n]) = n
                 /\ \A p \in 0..N : At(c, p) \in DOMAIN nd /\ pos[At(c, p)] = p
  BY <1>1, Places
<1>5. \A p \in 1..N : c[p] = At(c, p) /\ c[p] \in DOMAIN nd /\ pos[c[p]] = p /\ (c[p] = x <=> p = k)
  <2>1. \A p \in 1..N : p # 0 /\ p \in 0..N
    OBVIOUS
  <2>2. \A p \in 1..N : c[p] = At(c, p) /\ c[p] \in DOMAIN nd /\ pos[c[p]] = p
    BY <1>4, <2>1 DEF At
  <2>. QED
    BY <1>1, <1>2, <2>2
<1>6. \A p \in 0..N : At(c, p) = x <=> p = k
  <2>1. x = At(c, k) /\ k \in 0..N
    BY <1>1, <1>2, <1>5
  <2>. QED
    BY <1>4, <2>1
<1>7. \A p \in 1..M : /\ p < k => p \in 1..N
                      /\ ~(p < k) => p + 1 \in 1..N
  BY <1>2
<1>8. \A p, r \in 1..M : p # r => d[p] # d[r]
  <2> SUFFICES ASSUME NEW p \in 1..M, NEW r \in 1..M, p # r, d[p] = d[r] PROVE FALSE
    OBVIOUS
  <2>1. \A i \in 1..M : pos[d[i]] = IF i < k THEN i ELSE i + 1
    BY <1>3, <1>5, <1>7
  <2>2. pos[d[p]] = pos[d[r]]
    BY <2>1
  <2>. QED
    BY <1>2, <2>1, <2>2
<1>9. DOMAIN nd2 = {At(d, p) : p \in 0..M} /\ \A p \in 0..M : At(d, p) \in DOMAIN nd \ {x}
  <2>1. DOMAIN nd = {At(c, p) : p \in 0..N} /\ DOMAIN nd2 = DOMAIN nd \ {x}
    BY <1>1 DEF Threads, TakenOut
  <2>2. ASSUME NEW p \in 0..N, p # k PROVE \E r \in 0..M : At(d, r) = At(c, p)
    <3>1. CASE p < k
      <4>1. p \in 0..M
        BY <1>2, <3>1
      <4>. QED
        BY <1>3, <3>1, <4>1
    <3>2. CASE p > k
      <4>1. p - 1 \in 0..M /\ ~(p - 1 < k) /\ (p - 1) + 1 = p
        BY <1>2, <3>2
      <4>. QED
        BY <1>3, <4>1
    <3>. QED
      BY <1>2, <2>2, <3>1, <3>2
  <2>3. ASSUME NEW r \in 0..M PROVE At(d, r) \in DOMAIN nd \ {x}
    <3>1. CASE r < k
      <4>1. r \in 0..N /\ r # k
        BY <1>2, <3>1
      <4>. QED
        BY <1>3, <1>4, <1>6, <3>1, <4>1
    <3>2. CASE ~(r < k)
      <4>1. r + 1 \in 0..N /\ r + 1 # k
        BY <1>2, <3>2
      <4>. QED
        BY <1>3, <1>4, <1>6, <3>2, <4>1
    <3>. QED
      BY <3>1, <3>2
  <2>4. ASSUME NEW n \in DOMAIN nd \ {x} PROVE \E r \in 0..M : At(d, r) = n
    <3>1. PICK p : p = pos[n]
      OBVIOUS
    <3>2. p \in 0..N /\ At(c, p) = n /\ p # k
      BY <1>4, <1>6, <3>1
    <3>. QED
      BY <2>2, <3>2
  <2>5. PICK A : A = DOMAIN nd \ {x}
    OBVIOUS
  <2>6. (\A r \in 0..M : At(d, r) \in A) /\ \A n \in A : \E r \in 0..M : At(d, r) = n
    BY <2>3, <2>4, <2>5
  <2>7. A = {At(d, p) : p \in 0..M}
    BY <2>6
  <2>. QED
    BY <2>1, <2>3, <2>5, <2>7
<1>10. \A n \in DOMAIN nd \ {x} :
         /\ Fields(nd2[n]) /\ Pair(nd2, n) = Pair(nd, n)
         /\ DOMAIN nd2[n].level = DOMAIN nd[n].level
         /\ nd2[n].level[0] = IF n = At(c, k - 1) THEN nd[x].level[0] ELSE nd[n].level[0]
         /\ nd2[n].backward = IF n = nd[x].level[0].forward THEN nd[x].backward ELSE nd[n].backward
  BY <1>1 DEF TakenOut
<1>11. ASSUME NEW p \in 0..M
       PROVE  /\ Fields(nd2[At(d, p)])
              /\ DOMAIN nd2[At(d, p)].level \in SUBSET (0..(MaxLevel - 1))
              /\ 0 \in DOMAIN nd2[At(d, p)].level
  <2>1. PICK n : n = At(d, p)
    OBVIOUS
  <2>2. n \in DOMAIN nd \ {x}
    BY <1>9, <2>1
  <2>3. PICK r \in 0..N : n = At(c, r)
    BY <1>4, <2>2
  <2>4. DOMAIN nd[n].level \in SUBSET (0..(MaxLevel - 1)) /\ 0 \in DOMAIN nd[n].level
    BY <1>1, <2>3 DEF Threads
  <2>. QED
    BY <1>10, <2>1, <2>2, <2>4
<1>12. \A r \in 0..N : nd[At(c, r)].level[0] = IF r = N THEN [forward |-> NoNode, span |-> 0]
                                              ELSE [forward |-> c[r + 1], span |-> 1]
  BY <1>1 DEF Threads
<1>13. ASSUME NEW p \in 0..M
       PROVE  nd2[At(d, p)].level[0] = IF p = M THEN [forward |-> NoNode, span |-> 0]
                                       ELSE [forward |-> d[p + 1], span |-> 1]
  <2>1. ASSUME NEW r \in 0..N, r # k
        PROVE  nd2[At(c, r)].level[0] = IF r = k - 1 THEN nd[x].level[0] ELSE nd[At(c, r)].level[0]
    <3>1. At(c, r) \in DOMAIN nd \ {x}
      BY <1>4, <1>6, <2>1
    <3>2. At(c, r) = At(c, k - 1) <=> r = k - 1
      <4>1. k - 1 \in 0..N
        BY <1>2
      <4>. QED
        BY <1>4, <2>1, <4>1
    <3>. QED
      BY <1>10, <3>1, <3>2
  <2>2. CASE p < k - 1
    <3>1. p \in 0..N /\ p # k /\ p # k - 1 /\ p < k /\ p # N /\ p # M /\ p + 1 \in 1..M /\ p + 1 < k
      BY <1>2, <2>2
    <3>2. At(d, p) = At(c, p) /\ d[p + 1] = c[p + 1]
      BY <1>3, <3>1
    <3>. QED
      BY <1>12, <2>1, <3>1, <3>2
  <2>3. CASE p = k - 1
    <3>1. p \in 0..N /\ p # k /\ p < k /\ k \in 0..N /\ (k = N <=> p = M)
      BY <1>2, <2>3
    <3>2. At(d, p) = At(c, p) /\ x = At(c, k)
      BY <1>2, <1>3, <1>6, <3>1
    <3>3. p # M => d[p + 1] = c[k + 1]
      <4>1. ASSUME p # M PROVE p + 1 = k /\ p + 1 \in 1..M /\ ~(p + 1 < k)
        BY <1>2, <2>3, <4>1
      <4>. QED
        BY <1>3, <4>1
    <3>4. nd2[At(d, p)].level[0] = nd[At(c, k)].level[0]
      BY <2>1, <2>3, <3>1, <3>2
    <3>. QED
      BY <1>12, <3>1, <3>3, <3>4
  <2>4. CASE p >= k
    <3>1. p + 1 \in 0..N /\ p + 1 # k /\ p + 1 # k - 1 /\ ~(p < k) /\ (p + 1 = N <=> p = M)
      BY <1>2, <2>4
    <3>2. At(d, p) = At(c, p + 1)
      BY <1>3, <3>1
    <3>3. p # M => d[p + 1] = c[(p + 1) + 1]
      <4>1. ASSUME p # M PROVE p + 1 \in 1..M /\ ~(p + 1 < k)
        BY <1>2, <2>4, <4>1
      <4>. QED
        BY <1>3, <4>1
    <3>. QED
      BY <1>12, <2>1, <3>1, <3>2, <3>3
  <2>. QED
    BY <1>2, <2>2, <2>3, <2>4
<1>14. \A p \in 1..M : Pair(nd2, d[p]) = IF p < k THEN Pair(nd, c[p]) ELSE Pair(nd, c[p + 1])
  <2> SUFFICES ASSUME NEW p \in 1..M
               PROVE  Pair(nd2, d[p]) = IF p < k THEN Pair(nd, c[p]) ELSE Pair(nd, c[p + 1])
    OBVIOUS
  <2>1. d[p] \in DOMAIN nd \ {x}
    <3>1. p < k => p # k
      BY <1>2
    <3>2. ~(p < k) => p + 1 # k
      BY <1>2
    <3>. QED
      BY <1>3, <1>5, <1>7, <3>1, <3>2
  <2>. QED
    BY <1>3, <1>10, <2>1
<1>15. \A p \in 1..N : nd[c[p]].score \in Score /\ nd[c[p]].obj \in Obj
  BY <1>1 DEF Threads
<1>16. ASSUME NEW p \in 1..M PROVE nd2[d[p]].score \in Score /\ nd2[d[p]].obj \in Obj
  <2>1. \A i \in 1..N : Pair(nd, c[i]) \in Score \X Obj
    BY <1>15 DEF Pair
  <2>2. Pair(nd2, d[p]) \in Score \X Obj
    BY <1>7, <1>14, <2>1
  <2>. QED
    BY <2>2 DEF Pair
<1>17. ASSUME NEW p \in 1..M, NEW r \in 1..M, p < r PROVE LtElement(Pair(nd2, d[p]), Pair(nd2, d[r]))
  <2>1. \A i, j \in 1..N : i < j => LtElement(Pair(nd, c[i]), Pair(nd, c[j]))
    BY <1>1 DEF Threads
  <2>2. CASE r < k
    <3>1. p < k /\ p \in 1..N /\ r \in 1..N
      BY <1>2, <1>17, <2>2
    <3>. QED
      BY <1>14, <1>17, <2>1, <2>2, <3>1
  <2>3. CASE p < k /\ ~(r < k)
    <3>1. p \in 1..N /\ r + 1 \in 1..N /\ p < r + 1
      BY <1>2, <1>17, <2>3
    <3>. QED
      BY <1>14, <2>1, <2>3, <3>1
  <2>4. CASE ~(p < k)
    <3>1. ~(r < k) /\ p + 1 \in 1..N /\ r + 1 \in 1..N /\ p + 1 < r + 1
      BY <1>2, <1>17, <2>4
    <3>. QED
      BY <1>14, <2>1, <2>4, <3>1
  <2>. QED
    BY <2>2, <2>3, <2>4
<1>18. ASSUME NEW p \in 1..M PROVE nd2[d[p]].backward = IF p = 1 THEN NoNode ELSE d[p - 1]
  <2>1. PICK f : f = nd[x].level[0].forward
    OBVIOUS
  <2>2. \A r \in 1..N : c[r] = f <=> r = k + 1
    <3>1. f = IF k = N THEN NoNode ELSE c[k + 1]
      <4>1. x = At(c, k) /\ k \in 0..N
        BY <1>2, <1>6
      <4>2. nd[x].level[0] = IF k = N THEN [forward |-> NoNode, span |-> 0]
                             ELSE [forward |-> c[k + 1], span |-> 1]
        BY <1>12, <4>1
      <4>. QED
        BY <2>1, <4>2
    <3>2. \A r \in 1..N : c[r] # NoNode
      BY <1>1, <1>2
    <3>3. k # N => k + 1 \in 1..N
      BY <1>2
    <3>4. \A r \in 1..N : \A t \in 1..N : c[r] = c[t] => r = t
      BY <1>5
    <3>5. \A r \in 1..N : k = N => r # k + 1
      BY <1>2
    <3>. QED
      BY <3>1, <3>2, <3>3, <3>4, <3>5
  <2>3. \A r \in 1..N : nd[c[r]].backward = IF r = 1 THEN NoNode ELSE c[r - 1]
    BY <1>1 DEF Threads
  <2>4. \A r \in 1..N : r # k => nd2[c[r]].backward = IF r = k + 1 THEN nd[x].backward ELSE nd[c[r]].backward
    BY <1>5, <1>10, <2>1, <2>2
  <2>5. CASE p < k
    <3>1. p \in 1..N /\ p # k /\ p # k + 1 /\ (p # 1 => p - 1 \in 1..M /\ p - 1 < k)
      BY <1>2, <2>5
    <3>2. d[p] = c[p] /\ (p # 1 => d[p - 1] = c[p - 1])
      BY <1>3, <2>5, <3>1
    <3>. QED
      BY <2>3, <2>4, <3>1, <3>2
  <2>6. CASE p = k
    <3>1. p + 1 \in 1..N /\ p + 1 # k /\ p + 1 = k + 1 /\ ~(p < k)
      BY <1>2, <2>6
    <3>2. d[p] = c[p + 1] /\ nd2[c[p + 1]].backward = nd[x].backward
      BY <1>3, <2>4, <3>1
    <3>3. nd[x].backward = IF k = 1 THEN NoNode ELSE c[k - 1]
      BY <1>1, <1>2, <2>3
    <3>4. k # 1 => d[k - 1] = c[k - 1]
      <4>1. ASSUME k # 1 PROVE k - 1 \in 1..M /\ k - 1 < k
        BY <1>2, <4>1
      <4>. QED
        BY <1>3, <4>1
    <3>. QED
      BY <2>6, <3>2, <3>3, <3>4
  <2>7. CASE p > k
    <3>1. /\ p + 1 \in 1..N /\ p + 1 # k /\ p + 1 # k + 1 /\ ~(p < k) /\ p # 1 /\ p + 1 # 1
          /\ p - 1 \in 1..M /\ ~(p - 1 < k) /\ (p - 1) + 1 = p /\ (p + 1) - 1 = p
      BY <1>2, <2>7
    <3>2. d[p] = c[p + 1] /\ d[p - 1] = c[p]
      BY <1>3, <3>1
    <3>. QED
      BY <2>3, <2>4, <3>1, <3>2
  <2>. QED
    BY <1>2, <2>5, <2>6, <2>7
<1>19. nd2 = [n \in DOMAIN nd2 |-> nd2[n]]
  BY DEF TakenOut
<1>20. PICK L : L = Len(d)
  OBVIOUS
<1>21. /\ \A p, r \in 1..L : p # r => d[p] # d[r]
       /\ DOMAIN nd2 = {At(d, p) : p \in 0..L}
  BY <1>3, <1>8, <1>9, <1>20
<1>22. \A p \in 0..L :
         /\ Fields(nd2[At(d, p)])
         /\ DOMAIN nd2[At(d, p)].level \in SUBSET (0..(MaxLevel - 1))
         /\ 0 \in DOMAIN nd2[At(d, p)].level
         /\ nd2[At(d, p)].level[0] = IF p = L THEN [forward |-> NoNode, span |-> 0]
                                     ELSE [forward |-> d[p + 1], span |-> 1]
  BY <1>3, <1>11, <1>13, <1>20
<1>23. \A p \in 1..L : /\ nd2[d[p]].score \in Score /\ nd2[d[p]].obj \in Obj
                       /\ nd2[d[p]].backward = IF p = 1 THEN NoNode ELSE d[p - 1]
  BY <1>3, <1>16, <1>18, <1>20
<1>24. \A p, r \in 1..L : p < r => LtElement(Pair(nd2, d[p]), Pair(nd2, d[r]))
  BY <1>3, <1>17, <1>20
<1>25. Threads(nd2, d)
  BY <1>3, <1>19, <1>20, <1>21, <1>22, <1>23, <1>24 DEF Threads
<1>. QED
  BY <1>1, <1>25

\* the links of level 0 after a deletion
LinksCut(K, c, k) ==
  /\ DOMAIN K = DOMAIN node
  /\ \A n \in DOMAIN node :
       /\ DOMAIN K[n] = DOMAIN node[n].level
       /\ K[n][0] = IF n = At(c, k - 1) THEN node[c[k]].level[0] ELSE node[n].level[0]

\* zslDeleteNode gives the node in front the link of the deleted one: the
\* spans 1 and n become 1 + n - 1.
LEMMA DeleteLinks ==
  ASSUME NEW c, Threads(node, c), zsl.level = 1, NEW k \in 1..Len(c),
         NEW path, path[0] = [at |-> At(c, k - 1), rank |-> k - 1],
         NEW K, K = LinksAfterDelete(c[k], path)
  PROVE  LinksCut(K, c, k)
<1> USE ZslAssumption
<1>1. PICK D, x, old : D = DOMAIN node /\ x = c[k] /\ old = node[x].level[0]
  OBVIOUS
<1>2. PICK f, sp : f = old.forward /\ sp = old.span
  OBVIOUS
<1>3. c \in Seq(Addr) /\ Len(c) \in Nat /\ k \in 0..Len(c) /\ k - 1 \in 0..Len(c) /\ k - 1 # Len(c) /\ (k - 1) + 1 = k
  BY DEF Threads
<1>4. \A p \in 0..Len(c) : node[At(c, p)].level[0] = IF p = Len(c) THEN [forward |-> NoNode, span |-> 0]
                                                    ELSE [forward |-> c[p + 1], span |-> 1]
  BY DEF Threads
<1>5. At(c, k) = x
  BY <1>1 DEF At
<1>6. old = [forward |-> f, span |-> sp] /\ sp \in Int
  <2>1. old = IF k = Len(c) THEN [forward |-> NoNode, span |-> 0] ELSE [forward |-> c[k + 1], span |-> 1]
    BY <1>1, <1>3, <1>4, <1>5
  <2>. QED
    BY <1>2, <2>1
<1>7. node[At(c, k - 1)].level[0] = [forward |-> x, span |-> 1]
  BY <1>1, <1>3, <1>4
<1>8. path[0].at = At(c, k - 1) /\ 0 < zsl.level
  OBVIOUS
<1> DEFINE CutAt(n, i) == IF i < zsl.level /\ path[i].at = n
                  THEN IF node[n].level[i].forward = x
                       THEN [forward |-> node[x].level[i].forward,
                             span |-> Merged(node[n].level[i].span, node[x].level[i].span)]
                       ELSE [node[n].level[i] EXCEPT !.span = @ - 1]
                  ELSE node[n].level[i]
<1>9. DOMAIN K = D /\ \A n \in D : K[n] = [i \in Levels(n) |-> CutAt(n, i)]
  BY <1>1 DEF LinksAfterDelete
<1>10. ASSUME NEW n \in D PROVE CutAt(n, 0) = IF n = At(c, k - 1) THEN old ELSE node[n].level[0]
  <2>1. CASE n = At(c, k - 1)
    <3>1. node[n].level[0].forward = x /\ node[n].level[0].span = 1
      BY <1>7, <2>1
    <3>2. Merged(1, sp) = sp
      BY <1>6 DEF Merged
    <3>3. CutAt(n, 0) = [forward |-> f, span |-> Merged(1, sp)]
      BY <1>1, <1>2, <1>8, <2>1, <3>1
    <3>. QED
      BY <1>6, <2>1, <3>2, <3>3
  <2>2. CASE n # At(c, k - 1)
    BY <1>8, <2>2
  <2>. QED
    BY <2>1, <2>2
<1> HIDE DEF CutAt
<1>11. ASSUME NEW n \in D
       PROVE  DOMAIN K[n] = DOMAIN node[n].level /\ K[n][0] = CutAt(n, 0)
  <2>1. \A p \in 0..Len(c) : 0 \in DOMAIN node[At(c, p)].level
    BY DEF Threads
  <2>2. \E p \in 0..Len(c) : At(c, p) = n
    BY <1>1 DEF Threads
  <2>3. 0 \in DOMAIN node[n].level
    BY <2>1, <2>2
  <2>. QED
    BY <1>9, <2>3 DEF Levels
<1>. QED
  BY <1>1, <1>9, <1>10, <1>11 DEF LinksCut

\* One level stays one level.
LEMMA LoweredOne ==
  ASSUME NEW header
  PROVE  Lowered(header, 1) = 1
<1> DEFINE Eqn(low) == low = [l \in 1..1 |-> IF l > 1 /\ header[l - 1].forward = NoNode THEN low[l - 1] ELSE l]
<1>1. PICK h : h = [l \in 1..1 |-> l]
  OBVIOUS
<1>2. \A low : Eqn(low) <=> low = h
  <2>1. \A l \in 1..1 : ~(l > 1)
    OBVIOUS
  <2>. QED
    BY <1>1, <2>1
<1>3. Lowered(header, 1) = (CHOOSE low : Eqn(low))[1]
  BY DEF Lowered
<1> HIDE DEF Eqn
<1>4. (CHOOSE low : Eqn(low)) = h
  BY <1>2
<1>5. h[1] = 1
  BY <1>1
<1>. QED
  BY <1>3, <1>4, <1>5

\* what a deletion finds and does
Deletes(c, s, o, q) ==
  \/ /\ q + 1 \in 1..Len(c) /\ Pair(node, c[q + 1]) = <<s, o>>
     /\ TakenOut(node, node', c, q + 1) /\ IsList(node', zsl', Without(c, q + 1))
     /\ ret' = TRUE
  \/ /\ \A p \in 1..Len(c) : Pair(node, c[p]) # <<s, o>>
     /\ UNCHANGED <<node, zsl>> /\ ret' = FALSE

\* zslDelete removes the node with the pair, or finds that there is none.
LEMMA DeleteStep ==
  ASSUME NEW c, IsList(node, zsl, c), NEW s \in Score, NEW o \in Obj, zslDelete(s, o),
         NEW q, Splits(node, c, s, o, q)
  PROVE  Deletes(c, s, o, q)
<1> USE ZslAssumption
<1>1. PICK D, N, path, k : D = DOMAIN node /\ N = Len(c) /\ path = Search(s, o) /\ k = q + 1
  OBVIOUS
<1>2. PICK x : x = node[path[0].at].level[0].forward
  OBVIOUS
<1>3. Threads(node, c) /\ zsl.level = 1 /\ zsl.length = N
  BY <1>1 DEF IsList
<1>4. N \in Nat /\ q \in 0..N /\ c \in Seq(Addr) /\ q = k - 1
  BY <1>1, <1>3 DEF Splits, Threads
<1>5. path[0] = [at |-> At(c, q), rank |-> q]
  BY <1>1, SearchPlace
<1>6. x = node[At(c, q)].level[0].forward
  BY <1>2, <1>5
<1> DEFINE IsThere == x # NoNode /\ node[x].score = s /\ node[x].obj = o
<1>7. ret' = IsThere
  BY <1>1, <1>2 DEF zslDelete
<1>8. IsThere => zslDeleteNode(x, path)
  BY <1>1, <1>2 DEF zslDelete
<1>9. ~IsThere => UNCHANGED <<node, zsl>>
  BY <1>1, <1>2 DEF zslDelete
<1>10. CASE ~IsThere
  <2>1. ASSUME NEW p \in 1..N, Pair(node, c[p]) = <<s, o>> PROVE FALSE
    <3>1. s \in Int /\ o \in Int
      OBVIOUS
    <3>2. ~LtElement(Pair(node, c[p]), <<s, o>>)
      BY <2>1, <3>1 DEF LtElement
    <3>3. ~(p <= q)
      BY <1>1, <3>2 DEF Splits
    <3>4. q < N /\ k \in 1..N /\ k = q + 1
      BY <1>1, <1>4, <3>3
    <3>5. x = c[k] /\ x # NoNode
      BY <1>1, <1>3, <1>4, <1>6, <3>4, Links
    <3>6. CASE p = k
      BY <1>10, <2>1, <3>5, <3>6 DEF Pair
    <3>7. CASE p # k
      <4>1. k < p /\ ~(k <= q)
        BY <1>4, <3>3, <3>4, <3>7
      <4>2. LtElement(Pair(node, c[k]), Pair(node, c[p]))
        BY <1>1, <1>3, <3>4, <4>1 DEF Threads
      <4>. QED
        BY <1>1, <2>1, <3>4, <4>1, <4>2 DEF Splits
    <3>. QED
      BY <3>6, <3>7
  <2>. QED
    BY <1>1, <1>7, <1>9, <1>10, <2>1 DEF Deletes
<1>11. CASE IsThere
  <2>1. q < N
    <3>1. CASE q = N
      <4>1. x = NoNode
        BY <1>1, <1>3, <1>4, <1>6, <3>1, Links
      <4>. QED
        BY <1>11, <4>1
    <3>. QED
      BY <1>4, <3>1
  <2>2. k \in 1..N /\ x = c[k] /\ x # NoNode
    <3>1. k \in 1..N
      BY <1>1, <1>4, <2>1
    <3>. QED
      BY <1>1, <1>3, <1>4, <1>6, <2>1, Links
  <2>3. Pair(node, c[k]) = <<s, o>>
    BY <1>11, <2>2 DEF Pair
  <2>4. PICK K, after : K = LinksAfterDelete(x, path) /\ after = node[x].level[0].forward
    OBVIOUS
  <2>5. LinksCut(K, c, k)
    <3>1. path[0] = [at |-> At(c, k - 1), rank |-> k - 1] /\ k \in 1..Len(c)
      BY <1>1, <1>4, <1>5, <2>2
    <3>. QED
      BY <1>3, <2>2, <2>4, <3>1, DeleteLinks
  <2>6. /\ node' = [n \in D \ {x} |->
                      [node[n] EXCEPT !.level = K[n], !.backward = Backward(n, after, node[x].backward)]]
        /\ zsl' = [tail |-> IF after = NoNode THEN node[x].backward ELSE zsl.tail,
                   length |-> zsl.length - 1,
                   level |-> Lowered(K[Header], zsl.level)]
    BY <1>1, <1>8, <1>11, <2>4 DEF zslDeleteNode
  <2>7. ASSUME NEW n \in D \ {x}
        PROVE  node'[n] = zslCreateNode(node[n].score, node[n].obj, Backward(n, after, node[x].backward), K[n])
    <3>1. node'[n] = [node[n] EXCEPT !.level = K[n], !.backward = Backward(n, after, node[x].backward)]
      BY <2>6
    <3>2. PICK r, l, b : r = node[n] /\ l = K[n] /\ b = Backward(n, after, node[x].backward)
      OBVIOUS
    <3>3. Fields(r)
      BY <1>1, <1>3, <3>2 DEF Threads
    <3>4. [r EXCEPT !.level = l, !.backward = b] = zslCreateNode(r.score, r.obj, b, l)
      BY <3>3, NodeExcept
    <3>. QED
      BY <3>1, <3>2, <3>4
  <2>8. PICK nd, nd2 : nd = node /\ nd2 = node'
    OBVIOUS
  <2>9. ASSUME NEW n \in D \ {x}
        PROVE  /\ Fields(nd2[n]) /\ Pair(nd2, n) = Pair(nd, n)
               /\ DOMAIN nd2[n].level = DOMAIN nd[n].level
               /\ nd2[n].level[0] = IF n = At(c, k - 1) THEN nd[c[k]].level[0] ELSE nd[n].level[0]
               /\ nd2[n].backward = IF n = nd[c[k]].level[0].forward THEN nd[c[k]].backward ELSE nd[n].backward
    <3>1. PICK b, l : b = Backward(n, after, node[x].backward) /\ l = K[n]
      OBVIOUS
    <3>2. nd2[n] = zslCreateNode(nd[n].score, nd[n].obj, b, l)
      BY <2>7, <2>8, <3>1
    <3>3. Fields(nd2[n]) /\ nd2[n].score = nd[n].score /\ nd2[n].obj = nd[n].obj /\ nd2[n].backward = b /\ nd2[n].level = l
      BY <3>2, NodeFields
    <3>4. /\ DOMAIN l = DOMAIN nd[n].level
          /\ l[0] = IF n = At(c, k - 1) THEN nd[c[k]].level[0] ELSE nd[n].level[0]
      BY <1>1, <2>5, <2>8, <3>1 DEF LinksCut
    <3>5. b = IF n = nd[c[k]].level[0].forward THEN nd[c[k]].backward ELSE nd[n].backward
      BY <2>2, <2>4, <2>8, <3>1 DEF Backward
    <3>. QED
      BY <3>3, <3>4, <3>5 DEF Pair
  <2>10. TakenOut(nd, nd2, c, k)
    <3>1. DOMAIN nd2 = DOMAIN nd \ {c[k]} /\ nd2 = [n \in DOMAIN nd2 |-> nd2[n]]
      BY <1>1, <2>2, <2>6, <2>8
    <3>2. D \ {x} = DOMAIN nd \ {c[k]}
      BY <1>1, <2>2, <2>8
    <3>. QED
      BY <2>9, <3>1, <3>2 DEF TakenOut
  <2>11. Threads(nd, c) /\ k \in 1..Len(c)
    BY <1>1, <1>3, <2>2, <2>8
  <2>12. PICK d : d = Without(c, k)
    OBVIOUS
  <2>13. Threads(nd2, d)
    BY <2>10, <2>11, <2>12, ThreadsWithout
  <2>14. Len(d) = N - 1 /\ \A p \in 1..(N - 1) : d[p] = IF p < k THEN c[p] ELSE c[p + 1]
    <3>1. LacksAt(c, k, d)
      BY <1>4, <2>11, <2>12, WithoutAt
    <3>. QED
      BY <1>1, <3>1 DEF LacksAt
  <2>15. Lowered(K[Header], zsl.level) = 1
    BY <1>3, LoweredOne
  <2>16. (IF after = NoNode THEN node[x].backward ELSE zsl.tail) = (IF N - 1 = 0 THEN NoNode ELSE d[N - 1])
    <3>1. x = At(c, k) /\ k \in 0..N
      BY <2>2 DEF At
    <3>2. CASE k = N
      <4>1. after = NoNode
        BY <1>1, <1>3, <2>4, <3>1, <3>2, Links
      <4>2. node[x].backward = IF k = 1 THEN NoNode ELSE c[k - 1]
        BY <1>1, <1>3, <2>2 DEF Threads
      <4>3. k # 1 => d[N - 1] = c[k - 1]
        <5>1. ASSUME k # 1 PROVE N - 1 \in 1..(N - 1) /\ N - 1 < k /\ N - 1 = k - 1
          BY <1>4, <2>2, <3>2, <5>1
        <5>. QED
          BY <2>14, <5>1
      <4>4. k = 1 <=> N - 1 = 0
        BY <1>4, <3>2
      <4>. QED
        BY <4>1, <4>2, <4>3, <4>4
    <3>3. CASE k < N
      <4>1. after # NoNode
        <5>1. node[At(c, k)].level[0].forward = At(c, k + 1) /\ At(c, k + 1) = c[k + 1] /\ c[k + 1] # NoNode
          BY <1>1, <1>3, <3>1, <3>3, Links
        <5>. QED
          BY <2>4, <3>1, <5>1
      <4>2. N - 1 # 0 /\ N # 0 /\ N - 1 \in 1..(N - 1) /\ ~(N - 1 < k) /\ (N - 1) + 1 = N
        BY <1>4, <2>2, <3>3
      <4>3. d[N - 1] = c[N] /\ zsl.tail = c[N]
        BY <1>1, <2>14, <4>2 DEF IsList
      <4>. QED
        BY <4>1, <4>2, <4>3
    <3>. QED
      BY <1>4, <2>2, <3>2, <3>3
  <2>17. IsList(node', zsl', d)
    <3>1. zsl' = [tail |-> IF N - 1 = 0 THEN NoNode ELSE d[N - 1], length |-> N - 1, level |-> 1]
      BY <1>3, <2>6, <2>15, <2>16
    <3>. QED
      BY <2>8, <2>13, <2>14, <3>1 DEF IsList
  <2>. QED
    BY <1>1, <1>7, <1>11, <2>2, <2>3, <2>8, <2>10, <2>12, <2>17 DEF Deletes
<1>. QED
  BY <1>10, <1>11

\* A list is not NoNode.
LEMMA ListThere ==
  ASSUME NEW nd, NEW z, NEW c, IsList(nd, z, c)
  PROVE  z # NoNode
<1> USE ZslAssumption
<1>1. c \in Seq(Addr) /\ Len(c) \in Nat
  BY DEF IsList, Threads
<1>2. PICK t : t = IF Len(c) = 0 THEN NoNode ELSE c[Len(c)]
  OBVIOUS
<1>3. t \in Addr \cup {NoNode}
  <2>1. Len(c) # 0 => Len(c) \in 1..Len(c)
    BY <1>1
  <2>. QED
    BY <1>1, <1>2, <2>1
<1>4. z = [tail |-> t, length |-> Len(c), level |-> 1]
  BY <1>2 DEF IsList
<1>5. z \in [tail : Addr \cup {NoNode}, length : Nat, level : 1..MaxLevel]
  BY <1>1, <1>3, <1>4
<1>. QED
  BY <1>5

\* zslCreate makes the empty list.
LEMMA CreateStep ==
  ASSUME zslCreate
  PROVE  IsList(node', zsl', <<>>)
<1> USE ZslAssumption
<1>1. PICK lv, h : /\ lv = [i \in 0..(MaxLevel - 1) |-> [forward |-> NoNode, span |-> 0]]
                   /\ h = zslCreateNode(0, NoNode, NoNode, lv)
  OBVIOUS
<1>2. PICK nd : nd = node'
  OBVIOUS
<1>3. nd = [n \in {Header} |-> h] /\ zsl' = [tail |-> NoNode, length |-> 0, level |-> 1]
  BY <1>1, <1>2 DEF zslCreate
<1>4. Fields(h) /\ h.level = lv
  BY <1>1, NodeFields
<1>5. 0 \in 0..(MaxLevel - 1) /\ DOMAIN lv = 0..(MaxLevel - 1) /\ lv[0] = [forward |-> NoNode, span |-> 0]
  BY <1>1
<1>6. PICK c : c = <<>>
  OBVIOUS
<1>7. c \in Seq(Addr) /\ Len(c) = 0
  BY <1>6
<1>8. \A p \in 0..0 : At(c, p) = Header
  BY DEF At
<1>9. DOMAIN nd = {Header} /\ nd[Header] = h /\ nd = [n \in DOMAIN nd |-> nd[n]]
  BY <1>3
<1>10. {At(c, p) : p \in 0..Len(c)} = {Header}
  BY <1>7, <1>8
<1>11. \A p \in 0..Len(c) : At(c, p) = Header /\ p = Len(c)
  BY <1>7, <1>8
<1>12. Threads(nd, c)
  BY <1>4, <1>5, <1>7, <1>9, <1>10, <1>11 DEF Threads
<1>. QED
  BY <1>2, <1>3, <1>6, <1>7, <1>12 DEF IsList

\* Level 0 reaches every node but the header.
LEMMA AllReached ==
  ASSUME NEW c, Threads(node, c)
  PROVE  DOMAIN node = {Header} \cup Reached(0)
<1>1. Reached(0) = {c[p] : p \in 1..Len(c)}
  BY ChainIs
<1>2. DOMAIN node = {At(c, p) : p \in 0..Len(c)} /\ Len(c) \in Nat
  BY DEF Threads
<1>3. ASSUME NEW p \in 0..Len(c) PROVE At(c, p) \in {Header} \cup {c[r] : r \in 1..Len(c)}
  <2>1. p = 0 \/ p \in 1..Len(c)
    BY <1>2
  <2>. QED
    BY <2>1 DEF At
<1>4. \A p \in 1..Len(c) : c[p] = At(c, p) /\ p \in 0..Len(c)
  BY DEF At
<1>5. Header = At(c, 0) /\ 0 \in 0..Len(c)
  BY <1>2 DEF At
<1>. QED
  BY <1>1, <1>2, <1>3, <1>4, <1>5

\* zslFree frees every node.
LEMMA FreeStep ==
  ASSUME ZslInv, zslFree
  PROVE  zsl' = NoNode /\ node' = <<>>
<1>1. PICK c : IsList(node, zsl, c)
  BY DEF ZslInv, zslFree
<1>2. DOMAIN node = {Header} \cup Reached(0)
  BY <1>1, AllReached DEF IsList
<1>3. DOMAIN node \ ({Header} \cup Reached(0)) = {}
  BY <1>2
<1>. QED
  BY <1>3 DEF zslFree

\* Every operation keeps the invariant.
LEMMA ZslStep ==
  ASSUME ZslInv, [ZslNext]_slVars
  PROVE  ZslInv'
<1> USE ZslAssumption
<1>1. ASSUME NEW c, IsList(node', zsl', c) PROVE ZslInv'
  <2>1. PICK nd, z : nd = node' /\ z = zsl'
    OBVIOUS
  <2>2. z # NoNode
    BY <1>1, <2>1, ListThere
  <2>. QED
    BY <1>1, <2>1, <2>2 DEF ZslInv
<1>2. CASE zslCreate
  <2>1. IsList(node', zsl', <<>>)
    BY <1>2, CreateStep
  <2>. QED
    BY <1>1, <2>1
<1>3. CASE zslFree
  BY <1>3, FreeStep DEF ZslInv
<1>4. ASSUME NEW s \in Score, NEW o \in Obj, zsl # NoNode, zslDelete(s, o) PROVE ZslInv'
  <2>1. PICK c : IsList(node, zsl, c)
    BY <1>4 DEF ZslInv
  <2>2. PICK q : Splits(node, c, s, o, q)
    <3>1. PICK nd : nd = node
      OBVIOUS
    <3>2. Threads(nd, c) /\ s \in Int /\ o \in Int
      BY <2>1, <3>1 DEF IsList
    <3>. QED
      BY <3>1, <3>2, SplitExists
  <2>3. Deletes(c, s, o, q)
    BY <1>4, <2>1, <2>2, DeleteStep
  <2>4. CASE IsList(node', zsl', Without(c, q + 1))
    BY <1>1, <2>4
  <2>5. CASE UNCHANGED <<node, zsl>>
    BY <2>5 DEF ZslInv
  <2>. QED
    BY <2>3, <2>4, <2>5 DEF Deletes
<1>5. ASSUME NEW s \in Score, NEW o \in Obj, NEW x \in Addr, NEW h \in 1..MaxLevel, zslInsert(x, s, o, h)
      PROVE  ZslInv'
  <2>1. PICK c : IsList(node, zsl, c)
    BY <1>5 DEF ZslInv, zslInsert
  <2>2. PICK q : Splits(node, c, s, o, q)
    <3>1. PICK nd : nd = node
      OBVIOUS
    <3>2. Threads(nd, c) /\ s \in Int /\ o \in Int
      BY <2>1, <3>1 DEF IsList
    <3>. QED
      BY <3>1, <3>2, SplitExists
  <2>3. IsList(node', zsl', With(c, q + 1, x))
    BY <1>5, <2>1, <2>2, InsertStep
  <2>. QED
    BY <1>1, <2>3
<1>6. CASE UNCHANGED slVars
  BY <1>6 DEF ZslInv, slVars
<1>. QED
  BY <1>2, <1>3, <1>4, <1>5, <1>6 DEF ZslNext

\* With no list the invariant holds.
LEMMA ZslStart ==
  ASSUME ZslInit
  PROVE  ZslInv
BY DEF ZslInit, ZslInv

\* The invariant holds in every state, for any addresses, scores, objects and
\* ZSKIPLIST_MAXLEVEL (skiplist.cpp:53-244).
THEOREM ZslInvariant ==
  ZslSpec => []ZslInv
<1>1. ZslInit => ZslInv
  BY ZslStart
<1>2. ZslInv /\ [ZslNext]_slVars => ZslInv'
  BY ZslStep
<1>. QED
  BY <1>1, <1>2, PTL DEF ZslSpec

\* The rank of a node is its place.
LEMMA RankOf ==
  ASSUME NEW c, Threads(node, c), NEW p \in 0..Len(c)
  PROVE  Rank(At(c, p)) = p
<1> USE ZslAssumption
<1>1. Chain(0) = c
  BY ChainIs
<1>2. c \in Seq(Addr) /\ Len(c) \in Nat /\ DOMAIN c = 1..Len(c)
  BY DEF Threads
<1>3. CASE p = 0
  BY <1>3 DEF At, Rank
<1>4. CASE p # 0
  <2>1. p \in 1..Len(c) /\ At(c, p) = c[p] /\ c[p] # Header
    <3>1. p \in 1..Len(c)
      BY <1>2, <1>4
    <3>. QED
      BY <1>2, <1>4, <3>1 DEF At
  <2>2. \A r \in DOMAIN c : c[r] = c[p] <=> r = p
    BY <1>2, <2>1 DEF Threads
  <2>3. Rank(c[p]) = CHOOSE r \in DOMAIN c : c[r] = c[p]
    BY <1>1, <2>1 DEF Rank
  <2>4. (CHOOSE r \in DOMAIN c : c[r] = c[p]) = p
    BY <1>2, <2>1, <2>2
  <2>. QED
    BY <2>1, <2>3, <2>4
<1>. QED
  BY <1>3, <1>4

\* The invariant gives backward pointers, tail and length.
LEMMA ListLinked ==
  ASSUME NEW c, IsList(node, zsl, c)
  PROVE  LinkedBothWays
<1>1. Threads(node, c) /\ Chain(0) = c /\ DOMAIN node = {Header} \cup Reached(0)
  BY ChainIs, AllReached DEF IsList
<1>2. zsl # NoNode
  <2>1. PICK nd, z : nd = node /\ z = zsl
    OBVIOUS
  <2>2. z # NoNode
    BY <2>1, ListThere
  <2>. QED
    BY <2>1, <2>2
<1>3. /\ zsl.length = Len(c) /\ zsl.tail = IF Len(c) = 0 THEN NoNode ELSE c[Len(c)]
      /\ \A p \in 1..Len(c) : node[c[p]].backward = IF p = 1 THEN NoNode ELSE c[p - 1]
  BY <1>1 DEF IsList, Threads
<1>. QED
  BY <1>1, <1>2, <1>3 DEF LinkedBothWays

\* The invariant gives the spans.
LEMMA ListSpans ==
  ASSUME NEW c, IsList(node, zsl, c)
  PROVE  SpansAreRanks
<1> USE ZslAssumption
<1>1. Threads(node, c) /\ zsl.level = 1 /\ zsl.length = Len(c) /\ Len(c) \in Nat
  <2>1. Threads(node, c) /\ zsl.level = 1 /\ zsl.length = Len(c)
    BY DEF IsList
  <2>2. c \in Seq(Addr)
    BY <2>1 DEF Threads
  <2>. QED
    BY <2>1, <2>2
<1>2. Reached(0) = {c[p] : p \in 1..Len(c)}
  BY <1>1, ChainIs
<1>3. ASSUME NEW n \in DOMAIN node, NEW i \in Levels(n), i < zsl.level
      PROVE  IF node[n].level[i].forward = NoNode THEN node[n].level[i].span = zsl.length - Rank(n)
             ELSE /\ node[n].level[i].forward \in Reached(0)
                  /\ node[n].level[i].span = Rank(node[n].level[i].forward) - Rank(n)
  <2>1. PICK p \in 0..Len(c) : n = At(c, p)
    BY <1>1 DEF Threads
  <2>2. i = 0
    <3>1. DOMAIN node[At(c, p)].level \in SUBSET (0..(MaxLevel - 1))
      BY <1>1 DEF Threads
    <3>2. i \in 0..(MaxLevel - 1)
      BY <2>1, <3>1 DEF Levels
    <3>. QED
      BY <1>1, <1>3, <3>2
  <2>3. Rank(n) = p
    BY <1>1, <2>1, RankOf
  <2>4. CASE p = Len(c)
    <3>1. node[At(c, p)].level[0].forward = NoNode /\ node[At(c, p)].level[0].span = 0
      BY <1>1, <2>4, Links
    <3>. QED
      BY <1>1, <2>1, <2>2, <2>3, <2>4, <3>1
  <2>5. CASE p < Len(c)
    <3>1. /\ p + 1 \in 1..Len(c) /\ c[p + 1] # NoNode /\ At(c, p + 1) = c[p + 1]
          /\ node[At(c, p)].level[0].forward = At(c, p + 1) /\ node[At(c, p)].level[0].span = 1
      BY <1>1, <2>5, Links
    <3>2. p + 1 \in 0..Len(c) /\ (p + 1) - p = 1
      BY <1>1, <2>5
    <3>3. Rank(At(c, p + 1)) = p + 1
      BY <1>1, <3>2, RankOf
    <3>4. c[p + 1] \in Reached(0)
      BY <1>2, <3>1
    <3>. QED
      BY <2>1, <2>2, <2>3, <3>1, <3>2, <3>3, <3>4
  <2>. QED
    BY <1>1, <2>4, <2>5
<1>. QED
  BY <1>3 DEF SpansAreRanks

\* The invariant implies SkipListShape.
LEMMA InvShape ==
  ZslInv => SkipListShape
<1>1. CASE zsl = NoNode /\ node = <<>>
  BY <1>1 DEF SkipListShape, LinkedBothWays, SpansAreRanks
<1>2. ASSUME NEW c, IsList(node, zsl, c) PROVE SkipListShape
  BY <1>2, ListLinked, ListSpans DEF SkipListShape
<1>. QED
  BY <1>1, <1>2 DEF ZslInv

\* Walking back from the tail always meets the nodes of level 0 in reverse,
\* no node is lost, and the sum of the spans on the way to a node is its rank.
THEOREM ZslKeepsShape ==
  ZslSpec => []SkipListShape
BY ZslInvariant, InvShape, PTL

-----------------------------------------------------------------------------
(* That list as a bag: the pairs of the sequence c change as OrderedBag     *)
(* says, at the place where the search stops.                               *)

\* the pairs of the list, as ZslBag has them
ZslPairs == IF zsl = NoNode THEN <<>>
            ELSE [p \in DOMAIN Chain(0) |-> <<node[Chain(0)[p]].score, node[Chain(0)[p]].obj>>]

\* the pairs of the nodes of c
PairsOf(nd, c) == [p \in 1..Len(c) |-> Pair(nd, c[p])]

\* Level 0 gives the sequence that the nodes link.
ThreadsAreChains == \A c : Threads(node, c) => Chain(0) = c

\* As ThreadsAreChains has no parameters it holds of the next state too.
LEMMA ThreadsChained ==
  ThreadsAreChains
BY ChainIs DEF ThreadsAreChains

\* The pairs of c are a sequence as long as c.
LEMMA PairsAre ==
  ASSUME NEW nd, NEW c, Threads(nd, c)
  PROVE  /\ c \in Seq(Addr) /\ Len(c) \in Nat /\ DOMAIN c = 1..Len(c)
         /\ PairsOf(nd, c) \in Seq(Score \X Obj) /\ Len(PairsOf(nd, c)) = Len(c)
<1>1. c \in Seq(Addr)
  BY DEF Threads
<1>2. PICK N : N = Len(c)
  OBVIOUS
<1>3. N \in Nat /\ DOMAIN c = 1..N
  BY <1>1, <1>2
<1>4. \A p \in 1..N : Pair(nd, c[p]) \in Score \X Obj
  BY <1>2 DEF Threads, Pair
<1>5. PICK f : f = PairsOf(nd, c)
  OBVIOUS
<1>6. f \in [1..N -> Score \X Obj]
  BY <1>2, <1>4, <1>5 DEF PairsOf
<1>7. f \in Seq(Score \X Obj) /\ Len(f) = N
  BY <1>3, <1>6
<1>. QED
  BY <1>1, <1>2, <1>3, <1>5, <1>7

\* The bag has the pairs of c.
LEMMA ListPairs ==
  ASSUME NEW c, IsList(node, zsl, c)
  PROVE  ZslPairs = PairsOf(node, c)
<1>1. Threads(node, c) /\ Chain(0) = c
  BY ChainIs DEF IsList
<1>2. zsl # NoNode
  <2>1. PICK nd, z : nd = node /\ z = zsl
    OBVIOUS
  <2>2. z # NoNode
    BY <2>1, ListThere
  <2>. QED
    BY <2>1, <2>2
<1>3. DOMAIN c = 1..Len(c)
  <2>1. PICK nd : nd = node
    OBVIOUS
  <2>. QED
    BY <1>1, <2>1, PairsAre
<1>. QED
  BY <1>1, <1>2, <1>3 DEF ZslPairs, PairsOf, Pair

\* So it has after a step.
LEMMA ListPairsNext ==
  ASSUME NEW c, IsList(node', zsl', c)
  PROVE  ZslPairs' = PairsOf(node', c)
<1>1. PICK nd, z : nd = node' /\ z = zsl'
  OBVIOUS
<1>2. Threads(nd, c) /\ z # NoNode
  BY <1>1, ListThere DEF IsList
<1>3. DOMAIN c = 1..Len(c)
  BY <1>2, PairsAre
<1>4. Chain(0)' = c
  <2>1. ThreadsAreChains'
    BY ThreadsChained, PTL
  <2>. QED
    BY <1>1, <1>2, <2>1 DEF ThreadsAreChains
<1>. QED
  BY <1>1, <1>2, <1>3, <1>4 DEF ZslPairs, PairsOf, Pair

\* the place of a pair is behind those before it
LEMMA PairPlace ==
  ASSUME NEW c, IsList(node, zsl, c), NEW s \in Score, NEW o \in Obj,
         NEW q, q = ZslBag!Place(<<s, o>>) - 1
  PROVE  Splits(node, c, s, o, q) /\ ZslBag!Place(<<s, o>>) = q + 1
<1> USE ZslAssumption
<1>1. PICK nd, N, t : nd = node /\ N = Len(c) /\ t = PairsOf(node, c)
  OBVIOUS
<1>2. Threads(nd, c) /\ ZslPairs = t
  BY <1>1, ListPairs DEF IsList
<1>3. N \in Nat /\ Len(t) = N /\ DOMAIN t = 1..N /\ \A p \in 1..N : t[p] = Pair(nd, c[p])
  <2>1. Len(t) = N /\ N \in Nat
    BY <1>1, <1>2, PairsAre
  <2>. QED
    BY <1>1, <2>1 DEF PairsOf
<1> DEFINE Fits(p) == \A i \in DOMAIN t : i \in {j \in DOMAIN t : LtElement(t[j], <<s, o>>)} <=> i < p
<1>4. ZslBag!Place(<<s, o>>) = CHOOSE p \in 1..(Len(t) + 1) : Fits(p)
  BY <1>2 DEF ZslBag!Place, ZslBag!Below, ZslPairs
<1>5. \E p \in 1..(Len(t) + 1) : Fits(p)
  <2>1. PICK r : Splits(nd, c, s, o, r)
    BY <1>2, SplitExists
  <2>2. r \in 0..N /\ \A p \in 1..N : LtElement(t[p], <<s, o>>) <=> p <= r
    BY <1>1, <1>3, <2>1 DEF Splits
  <2>3. r + 1 \in 1..(Len(t) + 1) /\ \A i \in 1..N : i <= r <=> i < r + 1
    BY <1>3, <2>2
  <2>4. Fits(r + 1)
    BY <1>3, <2>2, <2>3
  <2>. QED
    BY <2>3, <2>4
<1>6. PICK k : k = ZslBag!Place(<<s, o>>)
  OBVIOUS
<1>7. k \in 1..(N + 1) /\ Fits(k)
  <2> HIDE DEF Fits
  <2>. QED
    BY <1>3, <1>4, <1>5, <1>6
<1>8. q \in 0..N /\ k = q + 1 /\ \A i \in 1..N : i < k <=> i <= q
  <2> HIDE DEF Fits
  <2>1. N \in Nat /\ k \in 1..(N + 1)
    BY <1>3, <1>7
  <2>2. q = k - 1
    BY <1>6
  <2>. QED
    BY <2>1, <2>2
<1>9. \A i \in 1..N : LtElement(t[i], <<s, o>>) <=> i < k
  BY <1>3, <1>7
<1>. QED
  BY <1>1, <1>3, <1>6, <1>8, <1>9 DEF Splits

\* The nodes of c are allocated.
LEMMA NodesThere ==
  ASSUME NEW nd, NEW c, Threads(nd, c)
  PROVE  \A p \in 1..Len(c) : c[p] \in DOMAIN nd
<1>1. DOMAIN nd = {At(c, p) : p \in 0..Len(c)}
  BY DEF Threads
<1>2. \A p \in 1..Len(c) : p \in 0..Len(c) /\ At(c, p) = c[p]
  BY DEF At
<1>. QED
  BY <1>1, <1>2

\* A node put behind the q-th puts its pair behind the q-th.
LEMMA PairsWith ==
  ASSUME NEW nd, NEW c, Threads(nd, c), NEW s \in Score, NEW o \in Obj, NEW q \in 0..Len(c),
         NEW x \in Addr, x \notin DOMAIN nd, NEW nd2, PutBehind(nd, nd2, c, q, x, s, o)
  PROVE  PairsOf(nd2, With(c, q + 1, x)) = With(PairsOf(nd, c), q + 1, <<s, o>>)
<1>1. PICK N, t, d, k, e, R : /\ N = Len(c) /\ t = PairsOf(nd, c) /\ d = With(c, q + 1, x)
                              /\ k = q + 1 /\ e = <<s, o>> /\ R = Score \X Obj
  OBVIOUS
<1>2. c \in Seq(Addr) /\ N \in Nat /\ t \in Seq(R) /\ Len(t) = N /\ e \in R
  BY <1>1, PairsAre
<1>3. q \in 0..N /\ k \in 1..(Len(t) + 1)
  BY <1>1, <1>2
<1>4. AddsAt(t, k, e, R)
  BY <1>2, <1>3, WithElements
<1>5. PICK u : u = With(t, k, e)
  OBVIOUS
<1>6. /\ u \in Seq(R) /\ Len(u) = N + 1
      /\ \A i \in 1..(N + 1) : u[i] = IF i < k THEN t[i] ELSE IF i = k THEN e ELSE t[i - 1]
  BY <1>2, <1>4, <1>5 DEF AddsAt
<1>7. /\ Len(d) = N + 1
      /\ \A p \in 1..(N + 1) : d[p] = IF p <= q THEN c[p] ELSE IF p = q + 1 THEN x ELSE c[p - 1]
  <2>1. HasBehind(c, q, x, d)
    BY <1>1, <1>2, WithAt
  <2>. QED
    BY <1>1, <2>1 DEF HasBehind
<1>8. \A p \in 1..N : Pair(nd2, c[p]) = t[p]
  <2>1. \A p \in 1..N : c[p] \in DOMAIN nd /\ t[p] = Pair(nd, c[p])
    BY <1>1, NodesThere DEF PairsOf
  <2>. QED
    BY <2>1 DEF PutBehind
<1>9. Pair(nd2, x) = e
  BY <1>1 DEF PutBehind
<1>10. ASSUME NEW i \in 1..(N + 1) PROVE Pair(nd2, d[i]) = u[i]
  <2>1. CASE i <= q
    <3>1. i \in 1..N /\ i < k
      BY <1>1, <1>2, <1>3, <2>1
    <3>. QED
      BY <1>6, <1>7, <1>8, <2>1, <3>1
  <2>2. CASE i = q + 1
    <3>1. ~(i <= q) /\ ~(i < k) /\ i = k
      BY <1>1, <1>3, <2>2
    <3>. QED
      BY <1>6, <1>7, <1>9, <2>2, <3>1
  <2>3. CASE i > q + 1
    <3>1. i - 1 \in 1..N /\ ~(i <= q) /\ i # q + 1 /\ ~(i < k) /\ i # k
      BY <1>1, <1>2, <1>3, <2>3
    <3>. QED
      BY <1>6, <1>7, <1>8, <3>1
  <2>. QED
    BY <1>3, <2>1, <2>2, <2>3
<1>11. PairsOf(nd2, d) = [i \in 1..(N + 1) |-> u[i]]
  BY <1>7, <1>10 DEF PairsOf
<1>12. u = [i \in 1..(N + 1) |-> u[i]]
  BY <1>6
<1>. QED
  BY <1>1, <1>5, <1>11, <1>12

\* Taking the k-th node out takes the k-th pair out.
LEMMA PairsWithout ==
  ASSUME NEW nd, NEW c, Threads(nd, c), NEW k \in 1..Len(c),
         NEW nd2, TakenOut(nd, nd2, c, k)
  PROVE  PairsOf(nd2, Without(c, k)) = Without(PairsOf(nd, c), k)
<1>1. PICK N, t, d, R : /\ N = Len(c) /\ t = PairsOf(nd, c) /\ d = Without(c, k)
                        /\ R = Score \X Obj
  OBVIOUS
<1>2. c \in Seq(Addr) /\ N \in Nat /\ t \in Seq(R) /\ Len(t) = N /\ k \in 1..N
  BY <1>1, PairsAre
<1>3. k \in 1..Len(t)
  BY <1>2
<1>4. TakesAt(t, k, R)
  BY <1>2, <1>3, WithoutElements
<1>5. PICK u : u = Without(t, k)
  OBVIOUS
<1>6. /\ u \in Seq(R) /\ Len(u) = N - 1
      /\ \A i \in 1..(N - 1) : u[i] = IF i < k THEN t[i] ELSE t[i + 1]
  BY <1>2, <1>4, <1>5 DEF TakesAt
<1>7. /\ Len(d) = N - 1
      /\ \A p \in 1..(N - 1) : d[p] = IF p < k THEN c[p] ELSE c[p + 1]
  <2>1. LacksAt(c, k, d)
    BY <1>1, <1>2, WithoutAt
  <2>. QED
    BY <1>1, <2>1 DEF LacksAt
<1>8. \A p \in 1..N : p # k => Pair(nd2, c[p]) = t[p]
  <2>1. \A p \in 1..N : c[p] \in DOMAIN nd /\ t[p] = Pair(nd, c[p])
    BY <1>1, NodesThere DEF PairsOf
  <2>2. \A p \in 1..N : p # k => c[p] # c[k]
    BY <1>1, <1>2 DEF Threads
  <2>. QED
    BY <2>1, <2>2 DEF TakenOut
<1>9. ASSUME NEW i \in 1..(N - 1) PROVE Pair(nd2, d[i]) = u[i]
  <2>1. CASE i < k
    <3>1. i \in 1..N /\ i # k
      BY <1>2, <2>1
    <3>. QED
      BY <1>6, <1>7, <1>8, <2>1, <3>1
  <2>2. CASE ~(i < k)
    <3>1. i + 1 \in 1..N /\ i + 1 # k
      BY <1>2, <2>2
    <3>. QED
      BY <1>6, <1>7, <1>8, <2>2, <3>1
  <2>. QED
    BY <2>1, <2>2
<1>10. PairsOf(nd2, d) = [i \in 1..(N - 1) |-> u[i]]
  BY <1>7, <1>9 DEF PairsOf
<1>11. u = [i \in 1..(N - 1) |-> u[i]]
  BY <1>6
<1>. QED
  BY <1>1, <1>5, <1>10, <1>11

\* zslInsert puts the pair in its place in the bag.
LEMMA InsertPuts ==
  ASSUME ZslInv, NEW s \in Score, NEW o \in Obj, NEW x \in Addr, NEW height \in 1..MaxLevel,
         zslInsert(x, s, o, height)
  PROVE  ZslBag!Put(<<s, o>>)
<1>1. PICK c : IsList(node, zsl, c)
  BY DEF ZslInv, zslInsert
<1>2. PICK q : q = ZslBag!Place(<<s, o>>) - 1
  OBVIOUS
<1>3. Splits(node, c, s, o, q) /\ ZslBag!Place(<<s, o>>) = q + 1
  BY <1>1, <1>2, PairPlace
<1>4. PICK nd, nd2, d, t : nd = node /\ nd2 = node' /\ d = With(c, q + 1, x) /\ t = PairsOf(node, c)
  OBVIOUS
<1>5. /\ PutBehind(nd, nd2, c, q, x, s, o)
      /\ \A p \in 1..Len(c) : Pair(nd, c[p]) # <<s, o>>
      /\ IsList(node', zsl', d) /\ ret' = TRUE
  BY <1>1, <1>3, <1>4, InsertStep
<1>6. Threads(nd, c) /\ q \in 0..Len(c) /\ x \notin DOMAIN nd
  BY <1>1, <1>3, <1>4 DEF IsList, Splits, zslInsert
<1>7. ZslPairs = t /\ ZslPairs' = PairsOf(nd2, d)
  BY <1>1, <1>4, <1>5, ListPairs, ListPairsNext
<1>8. PairsOf(nd2, d) = With(t, q + 1, <<s, o>>)
  BY <1>4, <1>5, <1>6, PairsWith
<1>9. ~ZslBag!Present(<<s, o>>)
  <2>1. Len(t) = Len(c) /\ DOMAIN t = 1..Len(c)
    BY <1>4, <1>6, PairsAre DEF PairsOf
  <2>2. \A p \in 1..Len(c) : t[p] = Pair(nd, c[p])
    BY <1>4 DEF PairsOf
  <2>3. ZslBag!Present(<<s, o>>) <=> \E i \in DOMAIN t : t[i] = <<s, o>>
    BY <1>7 DEF ZslBag!Present, ZslPairs
  <2>. QED
    BY <1>5, <2>1, <2>2, <2>3
<1>. QED
  BY <1>3, <1>5, <1>7, <1>8, <1>9 DEF ZslBag!Put, ZslPairs, With

\* zslDelete takes the pair from the bag, if it is there.
LEMMA DeleteTakes ==
  ASSUME ZslInv, NEW s \in Score, NEW o \in Obj, zsl # NoNode, zslDelete(s, o)
  PROVE  ZslBag!Take(<<s, o>>)
<1>1. PICK c : IsList(node, zsl, c)
  BY DEF ZslInv
<1>2. PICK q : q = ZslBag!Place(<<s, o>>) - 1
  OBVIOUS
<1>3. Splits(node, c, s, o, q) /\ ZslBag!Place(<<s, o>>) = q + 1
  BY <1>1, <1>2, PairPlace
<1>4. Deletes(c, s, o, q)
  BY <1>1, <1>3, DeleteStep
<1>5. PICK nd, nd2, d, t : nd = node /\ nd2 = node' /\ d = Without(c, q + 1) /\ t = PairsOf(node, c)
  OBVIOUS
<1>6. Threads(nd, c) /\ ZslPairs = t
  BY <1>1, <1>5, ListPairs DEF IsList
<1>7. ZslBag!Present(<<s, o>>) <=> \E p \in 1..Len(c) : Pair(nd, c[p]) = <<s, o>>
  <2>1. DOMAIN t = 1..Len(c) /\ \A p \in 1..Len(c) : t[p] = Pair(nd, c[p])
    BY <1>5 DEF PairsOf
  <2>2. ZslBag!Present(<<s, o>>) <=> \E i \in DOMAIN t : t[i] = <<s, o>>
    BY <1>6 DEF ZslBag!Present, ZslPairs
  <2>. QED
    BY <2>1, <2>2
<1>8. ZslBag!Present(<<s, o>>) \in BOOLEAN
  BY DEF ZslBag!Present
<1>9. CASE /\ q + 1 \in 1..Len(c) /\ Pair(node, c[q + 1]) = <<s, o>>
           /\ TakenOut(node, node', c, q + 1) /\ IsList(node', zsl', Without(c, q + 1))
           /\ ret' = TRUE
  <2>1. ZslBag!Present(<<s, o>>)
    BY <1>5, <1>7, <1>9
  <2>2. ZslPairs' = PairsOf(nd2, d)
    BY <1>5, <1>9, ListPairsNext
  <2>3. TakenOut(nd, nd2, c, q + 1)
    BY <1>5, <1>9
  <2>4. PairsOf(nd2, d) = Without(t, q + 1)
    <3>1. PICK k : k = q + 1
      OBVIOUS
    <3>2. k \in 1..Len(c) /\ TakenOut(nd, nd2, c, k)
      BY <1>9, <2>3, <3>1
    <3>3. PairsOf(nd2, Without(c, k)) = Without(PairsOf(nd, c), k)
      BY <1>6, <3>2, PairsWithout
    <3>. QED
      BY <1>5, <3>1, <3>3
  <2>. QED
    BY <1>3, <1>6, <1>8, <1>9, <2>1, <2>2, <2>4 DEF ZslBag!Take, ZslPairs, Without
<1>10. CASE /\ \A p \in 1..Len(c) : Pair(node, c[p]) # <<s, o>>
            /\ UNCHANGED <<node, zsl>> /\ ret' = FALSE
  <2>1. ~ZslBag!Present(<<s, o>>)
    BY <1>5, <1>7, <1>10
  <2>2. ZslPairs' = ZslPairs
    BY <1>10 DEF ZslPairs, Chain
  <2>. QED
    BY <1>8, <1>10, <2>1, <2>2 DEF ZslBag!Take, ZslPairs
<1>. QED
  BY <1>4, <1>9, <1>10 DEF Deletes

\* Every step is one of the bag or leaves it unchanged.
LEMMA ZslBagStep ==
  ASSUME ZslInv, [ZslNext]_slVars
  PROVE  [ZslBag!OBNext]_(ZslBag!obVars)
<1>1. CASE zslCreate
  <2>1. IsList(node', zsl', <<>>)
    BY <1>1, CreateStep
  <2>2. ZslPairs' = PairsOf(node', <<>>)
    BY <2>1, ListPairsNext
  <2>3. \A nd : PairsOf(nd, <<>>) = <<>>
    BY DEF PairsOf
  <2>4. ZslPairs' = <<>> /\ ret' = FALSE
    BY <1>1, <2>2, <2>3 DEF zslCreate
  <2>. QED
    BY <2>4 DEF ZslBag!OBNext, ZslBag!Drop, ZslPairs
<1>2. CASE zslFree
  <2>1. ZslPairs' = <<>> /\ ret' = FALSE
    BY <1>2, FreeStep DEF ZslPairs, zslFree
  <2>. QED
    BY <2>1 DEF ZslBag!OBNext, ZslBag!Drop, ZslPairs
<1>3. ASSUME NEW s \in Score, NEW o \in Obj, zsl # NoNode, zslDelete(s, o) PROVE ZslBag!OBNext
  <2>1. ZslBag!Take(<<s, o>>) /\ <<s, o>> \in Score \X Obj
    BY <1>3, DeleteTakes
  <2>. QED
    BY <2>1 DEF ZslBag!OBNext
<1>4. ASSUME NEW s \in Score, NEW o \in Obj, NEW x \in Addr, NEW h \in 1..MaxLevel, zslInsert(x, s, o, h)
      PROVE  ZslBag!OBNext
  <2>1. ZslBag!Put(<<s, o>>) /\ <<s, o>> \in Score \X Obj
    BY <1>4, InsertPuts
  <2>. QED
    BY <2>1 DEF ZslBag!OBNext
<1>5. CASE UNCHANGED slVars
  <2>1. ZslPairs' = ZslPairs /\ ret' = ret
    BY <1>5 DEF slVars, ZslPairs, Chain
  <2>. QED
    BY <2>1 DEF ZslBag!obVars, ZslPairs
<1>. QED
  BY <1>1, <1>2, <1>3, <1>4, <1>5 DEF ZslNext

\* No list is the empty bag.
LEMMA ZslBagStart ==
  ASSUME ZslInit
  PROVE  ZslBag!OBInit
BY DEF ZslInit, ZslBag!OBInit

\* The skip list implements a bag of (score, object) pairs in order: an
\* insertion goes to its place and a deletion takes the pair it names or nothing.
THEOREM ZslIsBag ==
  ZslSpec => SkipListIsBag
<1>1. ZslInit => ZslBag!OBInit
  BY ZslBagStart
<1>2. ZslInv /\ [ZslNext]_slVars => [ZslBag!OBNext]_(ZslBag!obVars)
  BY ZslBagStep
<1>. QED
  BY <1>1, <1>2, ZslInvariant, PTL DEF ZslSpec, SkipListIsBag, ZslBag!OBSpec

-----------------------------------------------------------------------------
(* The hash table, for any keys and hash values, any first capacity, load   *)
(* factor and amount of work per call: its sizes agree with its chains, the *)
(* rehash never scans past the end of ht2, it is over before the next one   *)
(* is due, and the calls answer as on a plain set.                          *)

\* Every node is in the chain its hash value selects.
InChains(h) == \A p \in 0..(h.cap - 1) : \A k \in h.at[p] : Pos(h, k) = p

GoodTab(h) == TabOK(h) /\ InChains(h) /\ IsFiniteSet(Nodes(h)) /\ Counted(h)

\* hm_help_resizing has emptied the buckets of ht2 it has passed.
Passed == \A p \in 0..(ht2.cap - 1) : p < resizing_pos => ht2.at[p] = {}

\* Every node left in ht2 will be moved once and every insert is followed by
\* at least one move, so twice ht2's nodes count against the load of ht1.
Debt == ht1.size + 2 * ht2.size

Load ==
  /\ ht2.cap # 0 => ht1.cap # 0
  /\ call.op = "insert" => ht1.cap # 0
  /\ ht1.cap # 0 =>
       /\ \/ Debt < MaxLoad * ht1.cap
          \/ /\ call.op = "insert" /\ call.nwork = 0 /\ ht2.cap # 0 /\ ht2.size > 0
             /\ Debt <= MaxLoad * ht1.cap
       /\ call = Idle /\ ht2.cap # 0 /\ ht2.size = 0 => Debt + 2 <= MaxLoad * ht1.cap

\* The node a caller is about to insert is in neither table.
Missed == \A k \in Key : last = Done("lookup", k, FALSE) => k \notin Nodes(ht1) \cup Nodes(ht2)

Inv == /\ TypeOK
       /\ GoodTab(ht1) /\ GoodTab(ht2) /\ Nodes(ht1) \cap Nodes(ht2) = {}
       /\ Passed
       /\ Load
       /\ Missed
-----------------------------------------------------------------------------
(* One table *)

LEMMA InitGood ==
  ASSUME NEW n \in Nat
  PROVE  GoodTab(HInit(n)) /\ Nodes(HInit(n)) = {} /\ HInit(n).cap = n /\ HInit(n).size = 0
<1>1. TabOK(HInit(n))
  BY DEF TabOK, HInit
<1>2. InChains(HInit(n))
  BY DEF InChains, HInit
<1>3. Nodes(HInit(n)) = {}
  BY DEF Nodes, HInit
<1>. QED
  BY <1>1, <1>2, <1>3, FS_EmptySet DEF GoodTab, Counted, HInit

LEMMA NullGood == GoodTab(Null) /\ Nodes(Null) = {} /\ Null.cap = 0 /\ Null.size = 0
  BY InitGood DEF Null

LEMMA PosRange ==
  ASSUME NEW h, NEW k \in Key, h.cap \in Nat, h.cap # 0
  PROVE  Pos(h, k) \in 0..(h.cap - 1)
<1>1. Hash[k] \in Nat
  BY HashAssumption
<1>. QED
  BY <1>1 DEF Pos

LEMMA InsertGood ==
  ASSUME NEW h, GoodTab(h), h.cap # 0, NEW k \in Key, k \notin Nodes(h)
  PROVE  /\ GoodTab(HInsert(h, k))
         /\ Nodes(HInsert(h, k)) = Nodes(h) \cup {k}
         /\ HInsert(h, k).cap = h.cap
         /\ HInsert(h, k).size = h.size + 1
<1>. DEFINE g == HInsert(h, k)  q == Pos(h, k)
<1>1. q \in 0..(h.cap - 1)
  BY PosRange DEF GoodTab, TabOK
<1>2. /\ g.cap = h.cap /\ g.size = h.size + 1
      /\ g.at = [h.at EXCEPT ![q] = @ \cup {k}]
      /\ g = [cap |-> g.cap, size |-> g.size, at |-> g.at]
  BY DEF HInsert, Linked
<1>3. TabOK(g)
  BY <1>1, <1>2 DEF GoodTab, TabOK
<1>4. \A p \in 0..(h.cap - 1) : g.at[p] = IF p = q THEN h.at[p] \cup {k} ELSE h.at[p]
  BY <1>1, <1>2 DEF GoodTab, TabOK
<1>5. Nodes(g) = Nodes(h) \cup {k}
  <2>1. h.at[q] \subseteq Nodes(h) /\ k \in g.at[q] /\ g.at[q] \subseteq Nodes(g)
    BY <1>1, <1>2, <1>4 DEF Nodes
  <2>2. Nodes(g) \subseteq Nodes(h) \cup {k}
    BY <1>2, <1>4 DEF Nodes
  <2>3. Nodes(h) \subseteq Nodes(g)
    BY <1>2, <1>4 DEF Nodes
  <2>. QED
    BY <2>1, <2>2, <2>3
<1>6. InChains(g)
  BY <1>2, <1>4 DEF GoodTab, InChains, Pos
<1>7. IsFiniteSet(Nodes(g)) /\ Cardinality(Nodes(g)) = Cardinality(Nodes(h)) + 1
  BY <1>5, FS_AddElement DEF GoodTab
<1>. QED
  BY <1>2, <1>3, <1>5, <1>6, <1>7 DEF GoodTab, Counted

LEMMA SizeZero ==
  ASSUME NEW h, GoodTab(h)
  PROVE  h.size = 0 <=> Nodes(h) = {}
  BY FS_EmptySet DEF GoodTab, Counted

LEMMA DetachGood ==
  ASSUME NEW h, GoodTab(h), NEW p \in 0..(h.cap - 1), NEW k \in h.at[p]
  PROVE  /\ GoodTab(HDetach(h, p, k))
         /\ Nodes(HDetach(h, p, k)) = Nodes(h) \ {k}
         /\ HDetach(h, p, k).cap = h.cap
         /\ HDetach(h, p, k).size = h.size - 1
         /\ h.size > 0
         /\ k \in Nodes(h) /\ k \in Key
         /\ \A i \in 0..(h.cap - 1) : HDetach(h, p, k).at[i] \subseteq h.at[i]
<1>. DEFINE g == HDetach(h, p, k)
<1>1. /\ g.cap = h.cap /\ g.size = h.size - 1
      /\ g.at = [h.at EXCEPT ![p] = @ \ {k}]
      /\ g = [cap |-> g.cap, size |-> g.size, at |-> g.at]
  BY DEF HDetach, Unlinked
<1>2. k \in Nodes(h) /\ k \in Key
  BY DEF GoodTab, TabOK, Nodes
<1>3. h.size \in Nat /\ h.size # 0
  BY <1>2, SizeZero DEF GoodTab, TabOK
<1>4. TabOK(g)
  BY <1>1, <1>3 DEF GoodTab, TabOK
<1>5. \A i \in 0..(h.cap - 1) : g.at[i] = IF i = p THEN h.at[i] \ {k} ELSE h.at[i]
  BY <1>1 DEF GoodTab, TabOK
<1>6. \A i \in 0..(h.cap - 1) : i # p => k \notin h.at[i]
  BY DEF GoodTab, InChains
<1>7. Nodes(g) = Nodes(h) \ {k}
  BY <1>1, <1>5, <1>6 DEF Nodes
<1>8. InChains(g)
  BY <1>1, <1>5 DEF GoodTab, InChains, Pos
<1>9. IsFiniteSet(Nodes(g)) /\ Cardinality(Nodes(g)) = Cardinality(Nodes(h)) - 1
  BY <1>2, <1>7, FS_RemoveElement DEF GoodTab
<1>. QED
  BY <1>1, <1>2, <1>3, <1>4, <1>5, <1>7, <1>8, <1>9 DEF GoodTab, Counted

\* Looking in one chain finds exactly the nodes of the table.
LEMMA LookupIff ==
  ASSUME NEW h, GoodTab(h), NEW k \in Key
  PROVE  /\ HLookup(h, k) <=> k \in Nodes(h)
         /\ HLookup(h, k) => Pos(h, k) \in 0..(h.cap - 1) /\ k \in h.at[Pos(h, k)]
<1>1. CASE h.cap = 0
  BY <1>1 DEF HLookup, Nodes
<1>2. CASE h.cap # 0
  <2>1. Pos(h, k) \in 0..(h.cap - 1)
    BY <1>2, PosRange DEF GoodTab, TabOK
  <2>. QED
    BY <1>2, <2>1 DEF HLookup, Nodes, GoodTab, InChains
<1>. QED
  BY <1>1, <1>2
-----------------------------------------------------------------------------
(* Arithmetic of the load *)

LEMMA Capacity ==
  ASSUME NEW c \in Nat, c # 0, NEW s \in Nat
  PROVE  /\ s \div c >= MaxLoad <=> s >= MaxLoad * c
         /\ MaxLoad * (2 * c) = 2 * (MaxLoad * c)
         /\ MaxLoad * c \in Nat /\ MaxLoad * c >= 1
<1>1. MaxLoad \in Nat /\ MaxLoad >= 1
  BY SizeAssumption
<1>2. MaxLoad * c \in Nat /\ MaxLoad * c >= 1
  BY <1>1, Z3
<1>3. MaxLoad * (2 * c) = 2 * (MaxLoad * c)
  BY <1>1, Z3
<1>4. s \div c >= MaxLoad => s >= MaxLoad * c
  BY <1>1, Z3
<1>5. s >= MaxLoad * c => s \div c >= MaxLoad
  BY <1>1, Z3
<1>. QED
  BY <1>2, <1>3, <1>4, <1>5

-----------------------------------------------------------------------------
(* The invariant *)

\* What a call leaves as ht2 when it returns has the same nodes.
LEMMA FreedGood ==
  ASSUME GoodTab(ht2)
  PROVE  /\ GoodTab(Ht2) /\ Nodes(Ht2) = Nodes(ht2) /\ Ht2.size = ht2.size
         /\ Ht2.cap \in {0, ht2.cap} /\ (Ht2.size = 0 => Ht2.cap = 0)
         /\ Ht2.cap # 0 => Ht2 = ht2
<1>1. CASE ht2.size = 0
  BY <1>1, NullGood, SizeZero DEF Ht2
<1>2. CASE ht2.size # 0
  BY <1>2 DEF Ht2
<1>. QED
  BY <1>1, <1>2

\* Debt is at its limit only before the first move of an insert.
LEMMA HelpedLoad ==
  ASSUME Inv, Helped
  PROVE  /\ ht1.cap # 0 => Debt < MaxLoad * ht1.cap
         /\ ht2.size > 0 => call.nwork = Work
<1>1. Work > 0 /\ Work \in Nat /\ call.nwork \in Nat /\ call.nwork <= Work /\ ht2.size \in Nat
  BY SizeAssumption DEF Inv, TypeOK, TabOK, CallOK, Idle, Helped
<1>2. ht2.cap = 0 => ht2.size = 0
  BY SizeZero DEF Inv, Nodes
<1>3. ht2.size > 0 => call.nwork = Work
  BY <1>1, <1>2 DEF Helped, Helping
<1>. QED
  BY <1>1, <1>3 DEF Inv, Load

LEMMA InitInv == Init => Inv
<1>. SUFFICES ASSUME Init PROVE Inv
  OBVIOUS
<1>1. TypeOK /\ GoodTab(ht1) /\ GoodTab(ht2) /\ Nodes(ht1) \cap Nodes(ht2) = {}
  BY NullGood DEF Init, TypeOK, CallOK, GoodTab
<1>2. Passed /\ Load /\ Missed
  BY NullGood DEF Init, Passed, Load, Missed, Idle, Done
<1>. QED
  BY <1>1, <1>2 DEF Inv

\* An insert links its node into ht1, which may then become ht2.
LEMMA InsertInv ==
  ASSUME Inv, NEW k \in Key, Insert(k)
  PROVE  Inv' /\ Nodes(ht1)' \cup Nodes(ht2)' = Nodes(ht1) \cup Nodes(ht2) \cup {k}
<1>. DEFINE t == IF ht1.cap = 0 THEN HInit(InitCap) ELSE ht1
            h == HInsert(t, k)
<1>1. k \notin Nodes(ht1) /\ k \notin Nodes(ht2)
  BY DEF Inv, Missed, Insert
<1>2. ht1.cap = 0 => Nodes(ht1) = {} /\ ht1.size = 0
  BY SizeZero DEF Inv, Nodes
<1>3. GoodTab(t) /\ t.cap \in Nat /\ t.cap # 0 /\ Nodes(t) = Nodes(ht1) /\ t.size = ht1.size
  BY <1>2, InitGood, SizeAssumption DEF Inv, GoodTab, TabOK
<1>4. GoodTab(h) /\ Nodes(h) = Nodes(ht1) \cup {k} /\ h.cap = t.cap /\ h.size = ht1.size + 1
  BY <1>1, <1>3, InsertGood
<1>5. /\ call = Idle /\ call' = [op |-> "insert", key |-> k, nwork |-> 0]
      /\ last' = Done("insert", k, TRUE)
      /\ \/ Overloaded(h) /\ StartResizing(h)
         \/ ~Overloaded(h) /\ ht1' = h /\ UNCHANGED <<ht2, resizing_pos>>
  BY DEF Insert
<1>6. /\ h.size \div h.cap >= MaxLoad <=> h.size >= MaxLoad * h.cap
      /\ MaxLoad * (2 * h.cap) = 2 * (MaxLoad * h.cap)
      /\ MaxLoad * h.cap \in Nat /\ MaxLoad * h.cap >= 1
  BY <1>3, <1>4, Capacity DEF GoodTab, TabOK
<1>7. ht1.size \in Nat /\ ht2.size \in Nat
  BY DEF Inv, GoodTab, TabOK
<1>8. ht2.cap = 0 => Nodes(ht2) = {} /\ ht2.size = 0
  BY SizeZero DEF Inv, Nodes
<1>9. ht1.cap = 0 => ht2.cap = 0
  BY DEF Inv, Load
<1>10. ht1.size + 2 * ht2.size < MaxLoad * h.cap
  BY <1>2, <1>3, <1>4, <1>5, <1>6, <1>7, <1>8, <1>9 DEF Inv, Load, Debt, Idle
<1>11. CallOK' /\ Missed'
  BY <1>5, SizeAssumption DEF CallOK, Missed, Done
<1>12. CASE Overloaded(h) /\ StartResizing(h)
  <2>1. ht2' = h /\ ht1' = HInit(2 * h.cap) /\ resizing_pos' = 0 /\ ht2.cap = 0
    BY <1>12 DEF Overloaded, StartResizing
  <2>2. GoodTab(ht1') /\ Nodes(ht1') = {} /\ ht1'.cap = 2 * h.cap /\ ht1'.size = 0
    BY <2>1, <1>3, <1>4, InitGood
  <2>3. h.size >= MaxLoad * h.cap
    BY <1>6, <1>12 DEF Overloaded
  <2>4. h.size = MaxLoad * h.cap
    BY <2>1, <2>3, <1>4, <1>6, <1>7, <1>8, <1>10
  <2>5. ht1'.size + 2 * ht2'.size <= MaxLoad * ht1'.cap
    BY <2>1, <2>2, <2>4, <1>6, <1>4, <1>3
  <2>6. Load'
    BY <2>1, <2>2, <2>4, <2>5, <1>3, <1>4, <1>5, <1>6 DEF Load, Debt, Idle
  <2>7. Passed'
    BY <2>1, <1>4, <1>3 DEF Passed
  <2>8. TypeOK' /\ GoodTab(ht1)' /\ GoodTab(ht2)' /\ (Nodes(ht1) \cap Nodes(ht2) = {})'
    BY <2>1, <2>2, <1>4, <1>11 DEF TypeOK, GoodTab
  <2>9. Inv'
    BY <2>6, <2>7, <2>8, <1>11 DEF Inv
  <2>. QED
    BY <2>1, <2>2, <2>9, <1>4, <1>8
<1>13. CASE ~Overloaded(h) /\ ht1' = h /\ UNCHANGED <<ht2, resizing_pos>>
  <2>1. ht1'.cap # 0 /\ ht1'.size = ht1.size + 1 /\ ht2' = ht2
    BY <1>3, <1>4, <1>13
  <2>2. ht2.cap = 0 => h.size < MaxLoad * h.cap
    BY <1>4, <1>6, <1>7, <1>13 DEF Overloaded
  <2>3. ht2.size > 0 => ht2.cap # 0
    BY <1>7, <1>8
  <2>4. ht2.cap # 0 /\ ht2.size = 0 => ht1.size + 2 <= MaxLoad * h.cap
    <3>1. ht2.cap # 0 => h.cap = ht1.cap
      BY <1>4, <1>9
    <3>. QED
      BY <3>1, <1>5, <1>7, <1>9 DEF Inv, Load, Debt
  <2>5. Load'
    <3>1. CASE ht2.cap = 0
      BY <3>1, <2>1, <2>2, <1>5, <1>7, <1>8, <1>13 DEF Load, Debt, Idle
    <3>2. CASE ht2.cap # 0 /\ ht2.size = 0
      BY <3>2, <2>1, <2>4, <1>5, <1>6, <1>7, <1>13 DEF Load, Debt, Idle
    <3>3. CASE ht2.cap # 0 /\ ht2.size > 0
      BY <3>3, <2>1, <1>10, <1>5, <1>6, <1>7, <1>13 DEF Load, Debt, Idle
    <3>. QED
      BY <3>1, <3>2, <3>3, <1>7
  <2>6. Passed'
    BY <1>13 DEF Passed, Inv
  <2>7. TypeOK' /\ GoodTab(ht1)' /\ GoodTab(ht2)' /\ (Nodes(ht1) \cap Nodes(ht2) = {})'
    BY <1>1, <1>4, <1>11, <1>13 DEF TypeOK, GoodTab, Inv
  <2>8. Inv'
    BY <2>5, <2>6, <2>7, <1>11 DEF Inv
  <2>. QED
    BY <2>8, <1>4, <1>13
<1>. QED
  BY <1>5, <1>12, <1>13

LEMMA BeginInv ==
  ASSUME Inv, NEW op \in {"lookup", "pop"}, NEW k \in Key, Begin(op, k)
  PROVE  Inv'
<1>1. TypeOK' /\ GoodTab(ht1)' /\ GoodTab(ht2)' /\ (Nodes(ht1) \cap Nodes(ht2) = {})' /\ Passed'
  BY SizeAssumption DEF Begin, Inv, TypeOK, CallOK, Passed
<1>2. Load' /\ Missed'
  BY DEF Begin, Inv, Load, Debt, Missed, Idle
<1>. QED
  BY <1>1, <1>2 DEF Inv

LEMMA SkipInv == ASSUME Inv, Skip PROVE Inv'
<1>1. TypeOK' /\ GoodTab(ht1)' /\ GoodTab(ht2)' /\ (Nodes(ht1) \cap Nodes(ht2) = {})'
  BY DEF Skip, Inv, TypeOK, CallOK
<1>2. Passed'
  BY DEF Skip, Inv, Passed, TypeOK
<1>3. Load' /\ Missed'
  BY DEF Skip, Inv, Load, Debt, Missed
<1>. QED
  BY <1>1, <1>2, <1>3 DEF Inv

\* There is a node left, so it is in a bucket the scan has not passed.
LEMMA ScanFinds ==
  ASSUME Inv, Helping
  PROVE  resizing_pos \in 0..(ht2.cap - 1)
<1>1. GoodTab(ht2) /\ ht2.size # 0
  BY DEF Helping, Inv, GoodTab, TabOK
<1>2. PICK p \in 0..(ht2.cap - 1) : ht2.at[p] # {}
  BY <1>1, SizeZero DEF Nodes
<1>3. resizing_pos <= p
  BY <1>2 DEF Inv, Passed, TypeOK
<1>. QED
  BY <1>2, <1>3 DEF Inv, TypeOK, TabOK

LEMMA MoveInv ==
  ASSUME Inv, Move
  PROVE  Inv' /\ Nodes(ht1)' \cup Nodes(ht2)' = Nodes(ht1) \cup Nodes(ht2)
<1>1. PICK k \in ht2.at[resizing_pos] :
        ht2' = HDetach(ht2, resizing_pos, k) /\ ht1' = HInsert(ht1, k)
  BY DEF Move
<1>2. Helping /\ call' = [call EXCEPT !.nwork = @ + 1] /\ UNCHANGED <<resizing_pos, last>>
  BY DEF Move
<1>3. resizing_pos \in 0..(ht2.cap - 1)
  BY <1>2, ScanFinds
<1>4. /\ GoodTab(ht2)' /\ Nodes(ht2)' = Nodes(ht2) \ {k}
      /\ ht2'.cap = ht2.cap /\ ht2'.size = ht2.size - 1 /\ ht2.size > 0
      /\ k \in Nodes(ht2) /\ k \in Key
      /\ \A i \in 0..(ht2.cap - 1) : ht2'.at[i] \subseteq ht2.at[i]
  BY <1>1, <1>3, DetachGood DEF Inv
<1>5. ht2.cap # 0 /\ ht1.cap # 0 /\ k \notin Nodes(ht1) /\ GoodTab(ht1)
  BY <1>2, <1>4 DEF Inv, Load, Helping
<1>6. /\ GoodTab(ht1)' /\ Nodes(ht1)' = Nodes(ht1) \cup {k}
      /\ ht1'.cap = ht1.cap /\ ht1'.size = ht1.size + 1
  BY <1>1, <1>4, <1>5, InsertGood
<1>7. /\ call # Idle /\ call.op \in {"lookup", "insert", "pop"} /\ call.key \in Key
      /\ call.nwork \in Nat /\ call.nwork < Work
      /\ call = [op |-> call.op, key |-> call.key, nwork |-> call.nwork]
  BY <1>2, SizeAssumption DEF Helping, Inv, TypeOK, CallOK
<1>8. call' = [op |-> call.op, key |-> call.key, nwork |-> call.nwork + 1] /\ call' # Idle
  <2>1. call' = [op |-> call.op, key |-> call.key, nwork |-> call.nwork + 1]
    BY <1>2, <1>7
  <2>. QED
    BY <2>1, <1>7 DEF Idle
<1>9. CallOK'
  BY <1>7, <1>8, SizeAssumption DEF CallOK
<1>10. TypeOK' /\ (Nodes(ht1) \cap Nodes(ht2) = {})'
  BY <1>2, <1>4, <1>6, <1>9 DEF TypeOK, GoodTab, Inv
<1>11. Passed'
  BY <1>2, <1>4 DEF Inv, Passed
<1>12. Load'
  <2>1. ht1.size \in Nat /\ ht2.size \in Nat /\ MaxLoad * ht1.cap \in Nat
    BY <1>5, Capacity DEF Inv, GoodTab, TabOK
  <2>2. ht1.size + 2 * ht2.size <= MaxLoad * ht1.cap
    BY <2>1, <1>5 DEF Inv, Load, Debt
  <2>3. ht1'.size + 2 * ht2'.size < MaxLoad * ht1'.cap
    BY <2>1, <2>2, <1>4, <1>6
  <2>. QED
    BY <2>3, <1>4, <1>5, <1>6, <1>8 DEF Load, Debt
<1>13. Nodes(ht1)' \cup Nodes(ht2)' = Nodes(ht1) \cup Nodes(ht2)
  BY <1>4, <1>6
<1>14. Missed'
  BY <1>2, <1>13 DEF Inv, Missed
<1>. QED
  BY <1>4, <1>6, <1>10, <1>11, <1>12, <1>13, <1>14 DEF Inv

\* Freeing an empty ht2 at the end of a call.
LEMMA EndInv ==
  ASSUME Inv, Helped, ht1' = ht1, ht2' = Ht2, call' = Idle, UNCHANGED resizing_pos
  PROVE  (TypeOK /\ GoodTab(ht1) /\ GoodTab(ht2) /\ Nodes(ht1) \cap Nodes(ht2) = {} /\ Passed /\ Load)'
<1>1. GoodTab(ht2)' /\ Nodes(ht2)' = Nodes(ht2) /\ ht2'.size = ht2.size
      /\ ht2'.cap \in {0, ht2.cap} /\ (ht2'.size = 0 => ht2'.cap = 0)
      /\ (ht2'.cap # 0 => ht2' = ht2)
  BY FreedGood DEF Inv
<1>2. TypeOK' /\ GoodTab(ht1)' /\ (Nodes(ht1) \cap Nodes(ht2) = {})'
  BY <1>1 DEF Inv, TypeOK, CallOK, GoodTab
<1>3. Passed'
  BY <1>1 DEF Inv, Passed
<1>4. Load'
  BY <1>1, HelpedLoad DEF Inv, Load, Debt, Idle
<1>. QED
  BY <1>1, <1>2, <1>3, <1>4

LEMMA EndLookupInv == ASSUME Inv, EndLookup PROVE Inv'
<1>1. /\ Helped /\ ht1' = ht1 /\ ht2' = Ht2 /\ call' = Idle /\ UNCHANGED resizing_pos
      /\ last' = Done("lookup", call.key, HLookup(ht1, call.key) \/ HLookup(Ht2, call.key))
  BY DEF EndLookup
<1>2. call.key \in Key
  BY DEF EndLookup, Helped, Inv, TypeOK, CallOK
<1>3. GoodTab(Ht2) /\ Nodes(Ht2) = Nodes(ht2)
  BY FreedGood DEF Inv
<1>4. /\ HLookup(ht1, call.key) <=> call.key \in Nodes(ht1)
      /\ HLookup(Ht2, call.key) <=> call.key \in Nodes(ht2)
  BY <1>2, <1>3, LookupIff DEF Inv
<1>5. Missed'
  BY <1>1, <1>3, <1>4 DEF Missed, Done
<1>. QED
  BY <1>1, <1>5, EndInv DEF Inv

LEMMA EndInsertInv == ASSUME Inv, EndInsert PROVE Inv'
<1>1. Helped /\ ht1' = ht1 /\ ht2' = Ht2 /\ call' = Idle /\ UNCHANGED <<resizing_pos, last>>
  BY DEF EndInsert
<1>2. Nodes(Ht2) = Nodes(ht2)
  BY FreedGood DEF Inv
<1>3. Missed'
  BY <1>1, <1>2 DEF Inv, Missed
<1>. QED
  BY <1>1, <1>3, EndInv DEF Inv

\* A pop takes the node out of the table that has it.
LEMMA EndPopInv ==
  ASSUME Inv, EndPop
  PROVE  /\ Inv'
         /\ Nodes(ht1)' \cup Nodes(ht2)' = (Nodes(ht1) \cup Nodes(ht2)) \ {call.key}
<1>. DEFINE k == call.key
<1>1. /\ Helped /\ call' = Idle /\ UNCHANGED resizing_pos /\ Popped(k)
      /\ last' = Done("pop", k, HLookup(ht1, k) \/ HLookup(Ht2, k))
  BY DEF EndPop
<1>2. k \in Key
  BY DEF EndPop, Helped, Inv, TypeOK, CallOK
<1>3. /\ GoodTab(Ht2) /\ Nodes(Ht2) = Nodes(ht2) /\ Ht2.size = ht2.size
      /\ Ht2.cap \in {0, ht2.cap} /\ (Ht2.size = 0 => Ht2.cap = 0)
      /\ (Ht2.cap # 0 => Ht2 = ht2)
  BY FreedGood DEF Inv
<1>4. HLookup(ht1, k) <=> k \in Nodes(ht1)
  BY <1>2, LookupIff DEF Inv
<1>5. HLookup(Ht2, k) <=> k \in Nodes(ht2)
  BY <1>2, <1>3, LookupIff
<1>6. GoodTab(ht1) /\ GoodTab(ht2) /\ Nodes(ht1) \cap Nodes(ht2) = {}
  BY DEF Inv
<1>7. Missed'
  BY <1>1 DEF Missed, Done
<1>8. /\ ht1.size \in Nat /\ ht2.size \in Nat
      /\ ht1.cap # 0 => ht1.size + 2 * ht2.size < MaxLoad * ht1.cap
      /\ ht1.cap # 0 => MaxLoad * ht1.cap \in Nat
      /\ ht2.cap # 0 => ht1.cap # 0
      /\ call'.op # "insert"
  <2>1. ht1.cap # 0 => MaxLoad * ht1.cap \in Nat
    BY Capacity DEF Inv, GoodTab, TabOK
  <2>. QED
    BY <2>1, <1>1, HelpedLoad DEF Inv, GoodTab, TabOK, Load, Debt, Idle
<1>9. CASE HLookup(ht1, k) /\ ht1' = HDetach(ht1, Pos(ht1, k), k) /\ ht2' = Ht2
  <2>1. Pos(ht1, k) \in 0..(ht1.cap - 1) /\ k \in ht1.at[Pos(ht1, k)]
    BY <1>2, <1>6, <1>9, LookupIff
  <2>2. /\ GoodTab(ht1)' /\ Nodes(ht1)' = Nodes(ht1) \ {k}
        /\ ht1'.cap = ht1.cap /\ ht1'.size = ht1.size - 1
    BY <2>1, <1>6, <1>9, DetachGood
  <2>3. k \notin Nodes(ht2)
    BY <1>4, <1>6, <1>9
  <2>4. TypeOK' /\ GoodTab(ht1)' /\ GoodTab(ht2)' /\ (Nodes(ht1) \cap Nodes(ht2) = {})'
    BY <2>2, <1>1, <1>3, <1>6, <1>9 DEF Inv, TypeOK, CallOK, GoodTab
  <2>5. Passed'
    BY <1>1, <1>3, <1>9 DEF Inv, Passed
  <2>6. Load'
    BY <2>2, <1>3, <1>8, <1>9 DEF Load, Debt
  <2>. QED
    BY <2>2, <2>3, <2>4, <2>5, <2>6, <1>3, <1>7, <1>9 DEF Inv
<1>10. CASE /\ ~HLookup(ht1, k) /\ HLookup(Ht2, k)
            /\ ht2' = HDetach(Ht2, Pos(Ht2, k), k) /\ UNCHANGED ht1
  <2>1. Ht2.cap # 0 /\ Ht2 = ht2
    BY <1>3, <1>10 DEF HLookup
  <2>2. Pos(ht2, k) \in 0..(ht2.cap - 1) /\ k \in ht2.at[Pos(ht2, k)]
    BY <2>1, <1>2, <1>6, <1>10, LookupIff
  <2>3. /\ GoodTab(ht2)' /\ Nodes(ht2)' = Nodes(ht2) \ {k} /\ ht2.size > 0
        /\ ht2'.cap = ht2.cap /\ ht2'.size = ht2.size - 1
        /\ \A i \in 0..(ht2.cap - 1) : ht2'.at[i] \subseteq ht2.at[i]
    BY <2>1, <2>2, <1>6, <1>10, DetachGood
  <2>4. TypeOK' /\ GoodTab(ht1)' /\ GoodTab(ht2)' /\ (Nodes(ht1) \cap Nodes(ht2) = {})'
    BY <2>3, <1>1, <1>6, <1>10 DEF Inv, TypeOK, CallOK, GoodTab
  <2>5. Passed'
    BY <2>3, <1>1 DEF Inv, Passed
  <2>6. Load'
    BY <2>1, <2>3, <1>8, <1>10 DEF Load, Debt
  <2>7. k \notin Nodes(ht1)
    BY <1>4, <1>10
  <2>. QED
    BY <2>3, <2>4, <2>5, <2>6, <2>7, <1>7, <1>10 DEF Inv
<1>11. CASE ~HLookup(ht1, k) /\ ~HLookup(Ht2, k) /\ ht2' = Ht2 /\ UNCHANGED ht1
  <2>1. k \notin Nodes(ht1) \cup Nodes(ht2)
    BY <1>4, <1>5, <1>11
  <2>2. (TypeOK /\ GoodTab(ht1) /\ GoodTab(ht2) /\ Nodes(ht1) \cap Nodes(ht2) = {} /\ Passed /\ Load)'
    BY <1>1, <1>11, EndInv
  <2>. QED
    BY <2>1, <2>2, <1>3, <1>7, <1>11 DEF Inv
<1>. QED
  BY <1>1, <1>9, <1>10, <1>11 DEF Popped

LEMMA KeysInv == ASSUME Inv, Keys PROVE Inv'
<1>1. last' = [op |-> "keys", size |-> HmSize, body |-> Scan(ht1) \cup Scan(ht2)]
      /\ UNCHANGED <<ht1, ht2, resizing_pos, call>>
  BY DEF Keys
<1>2. Missed'
  BY <1>1 DEF Missed, Done
<1>. QED
  BY <1>1, <1>2 DEF Inv, TypeOK, CallOK, Passed, Load, Debt

LEMMA DestroyInv == ASSUME Inv, Destroy PROVE Inv'
<1>1. /\ ht1' = Null /\ ht2' = Null /\ resizing_pos' = 0
      /\ call = Idle /\ call' = Idle /\ last' = [op |-> "destroy"]
  BY DEF Destroy
<1>2. (TypeOK /\ GoodTab(ht1) /\ GoodTab(ht2) /\ Nodes(ht1) \cap Nodes(ht2) = {} /\ Passed)'
  BY <1>1, NullGood DEF TypeOK, CallOK, GoodTab, Passed
<1>3. Load' /\ Missed'
  BY <1>1, NullGood DEF Load, Missed, Idle, Done
<1>. QED
  BY <1>2, <1>3 DEF Inv

LEMMA NextInv == Inv /\ [Next]_vars => Inv'
<1>. SUFFICES ASSUME Inv, [Next]_vars PROVE Inv'
  OBVIOUS
<1>1. CASE \E k \in Key : Begin("lookup", k) \/ Begin("pop", k) \/ Insert(k)
  BY <1>1, BeginInv, InsertInv
<1>2. CASE Skip
  BY <1>2, SkipInv
<1>3. CASE Move
  BY <1>3, MoveInv
<1>4. CASE EndLookup \/ EndInsert \/ EndPop
  BY <1>4, EndLookupInv, EndInsertInv, EndPopInv
<1>5. CASE Keys \/ Destroy
  BY <1>5, KeysInv, DestroyInv
<1>6. CASE UNCHANGED vars
  BY <1>6 DEF vars, Inv, TypeOK, CallOK, Passed, Load, Debt, Missed
<1>. QED
  BY <1>1, <1>2, <1>3, <1>4, <1>5, <1>6 DEF Next, Finish

LEMMA InvHolds == Spec => []Inv
  BY InitInv, NextInv, PTL DEF Spec
-----------------------------------------------------------------------------
(* The calls as operations on a set *)

LEMMA InitMaps == Init => Plain!SInit
<1>. SUFFICES ASSUME Init PROVE Plain!SInit
  OBVIOUS
<1>. QED
  BY NullGood DEF Init, Plain!SInit

\* hm_size counts the nodes, and keys lists them all.
LEMMA KeysMaps == ASSUME Inv, Keys PROVE Plain!List
<1>. DEFINE all == Nodes(ht1) \cup Nodes(ht2)
<1>1. HmSize = Cardinality(all)
  <2>1. Cardinality(Nodes(ht1) \cap Nodes(ht2)) = 0
    BY FS_EmptySet DEF Inv
  <2>2. Cardinality(all) = Cardinality(Nodes(ht1)) + Cardinality(Nodes(ht2))
                           - Cardinality(Nodes(ht1) \cap Nodes(ht2))
    BY FS_Union DEF Inv, GoodTab
  <2>. QED
    BY <2>1, <2>2 DEF HmSize, Inv, GoodTab, Counted, TabOK
<1>2. Scan(ht1) = Nodes(ht1) /\ Scan(ht2) = Nodes(ht2)
  BY SizeZero DEF Scan, Inv
<1>3. last' = [op |-> "keys", size |-> HmSize, body |-> Scan(ht1) \cup Scan(ht2)]
      /\ ht1' = ht1 /\ ht2' = ht2
  BY DEF Keys
<1>4. last' = [op |-> "keys", size |-> Cardinality(all), body |-> all]
  BY <1>1, <1>2, <1>3
<1>. QED
  BY <1>3, <1>4 DEF Plain!List, Plain!Cardinality, Cardinality

LEMMA NextMaps == Inv /\ [Next]_vars => [Plain!SNext]_(Plain!setVars)
<1>. SUFFICES ASSUME Inv, [Next]_vars PROVE [Plain!SNext]_(Plain!setVars)
  OBVIOUS
<1>. DEFINE all == Nodes(ht1) \cup Nodes(ht2)
<1>1. CASE \E k \in Key : Begin("lookup", k) \/ Begin("pop", k)
  BY <1>1 DEF Begin, Plain!setVars
<1>2. CASE \E k \in Key : Insert(k)
  <2>1. PICK k \in Key : Insert(k)
    BY <1>2
  <2>2. /\ last = Done("lookup", k, FALSE) /\ last' = Done("insert", k, TRUE)
        /\ k \notin all /\ all' = all \cup {k}
    BY <2>1, InsertInv DEF Insert, Inv, Missed
  <2>3. Plain!Add(k)
    BY <2>2 DEF Plain!Add, Plain!Call, Done
  <2>. QED
    BY <2>3 DEF Plain!SNext
<1>3. CASE Skip
  BY <1>3 DEF Skip, Plain!setVars
<1>4. CASE Move
  BY <1>4, MoveInv DEF Move, Plain!setVars
<1>5. CASE EndLookup
  <2>. DEFINE k == call.key
  <2>1. k \in Key
    BY <1>5 DEF EndLookup, Helped, Inv, TypeOK, CallOK
  <2>2. GoodTab(Ht2) /\ Nodes(Ht2) = Nodes(ht2)
    BY FreedGood DEF Inv
  <2>3. HLookup(ht1, k) <=> k \in Nodes(ht1)
    BY <2>1, LookupIff DEF Inv
  <2>4. HLookup(Ht2, k) <=> k \in Nodes(ht2)
    BY <2>1, <2>2, LookupIff
  <2>5. last' = Done("lookup", k, HLookup(ht1, k) \/ HLookup(Ht2, k)) /\ ht1' = ht1 /\ ht2' = Ht2
    BY <1>5 DEF EndLookup
  <2>6. (HLookup(ht1, k) \/ HLookup(Ht2, k)) = (k \in all)
    BY <2>3, <2>4
  <2>7. all' = all /\ last' = Done("lookup", k, k \in all)
    BY <2>2, <2>5, <2>6
  <2>8. Plain!Look(k)
    BY <2>7 DEF Plain!Look, Plain!Call, Done
  <2>. QED
    BY <2>1, <2>8 DEF Plain!SNext
<1>6. CASE EndInsert
  <2>1. ht1' = ht1 /\ ht2' = Ht2 /\ UNCHANGED last
    BY <1>6 DEF EndInsert
  <2>2. Nodes(Ht2) = Nodes(ht2)
    BY FreedGood DEF Inv
  <2>. QED
    BY <2>1, <2>2 DEF Plain!setVars
<1>7. CASE EndPop
  <2>. DEFINE k == call.key
  <2>1. k \in Key
    BY <1>7 DEF EndPop, Helped, Inv, TypeOK, CallOK
  <2>2. GoodTab(Ht2) /\ Nodes(Ht2) = Nodes(ht2)
    BY FreedGood DEF Inv
  <2>3. HLookup(ht1, k) <=> k \in Nodes(ht1)
    BY <2>1, LookupIff DEF Inv
  <2>4. HLookup(Ht2, k) <=> k \in Nodes(ht2)
    BY <2>1, <2>2, LookupIff
  <2>5. last' = Done("pop", k, HLookup(ht1, k) \/ HLookup(Ht2, k)) /\ all' = all \ {k}
    BY <1>7, EndPopInv DEF EndPop
  <2>6. (HLookup(ht1, k) \/ HLookup(Ht2, k)) = (k \in all)
    BY <2>3, <2>4
  <2>7. Plain!Remove(k)
    BY <2>5, <2>6 DEF Plain!Remove, Plain!Call, Done
  <2>. QED
    BY <2>1, <2>7 DEF Plain!SNext
<1>8. CASE Keys
  BY <1>8, KeysMaps DEF Plain!SNext
<1>9. CASE Destroy
  BY <1>9, NullGood DEF Destroy, Plain!Clear, Plain!SNext
<1>10. CASE UNCHANGED vars
  BY <1>10 DEF vars, Plain!setVars
<1>. QED
  BY <1>1, <1>2, <1>3, <1>4, <1>5, <1>6, <1>7, <1>8, <1>9, <1>10 DEF Next, Finish
-----------------------------------------------------------------------------
(* The theorems *)

\* Every table, position and call keeps its type, and no size goes below zero.
THEOREM TypesHold == Spec => []TypeOK
  BY InvHolds, PTL DEF Inv

\* hm_size and the end of the rehash rest on sizes that agree with the chains,
\* and on no key having two nodes.
THEOREM Sizes == Spec => []SizesAgree
<1>1. Inv => SizesAgree
  BY DEF Inv, GoodTab, SizesAgree
<1>. QED
  BY <1>1, InvHolds, PTL

\* The unbounded scan of hm_help_resizing stays inside ht2.
THEOREM Scans == Spec => []ScanInBounds
<1>1. Inv => ScanInBounds
  BY ScanFinds DEF ScanInBounds, Inv, TypeOK, TabOK
<1>. QED
  BY <1>1, InvHolds, PTL

\* A rehash is over before ht1 is full, for any positive load factor and
\* amount of work: the chains stay short.
THEOREM Loads == Spec => []LoadBounded
<1>1. Inv => LoadBounded
  <2>. SUFFICES ASSUME Inv, call = Idle, ht1.cap # 0 PROVE HmSize < MaxLoad * ht1.cap
    BY DEF LoadBounded
  <2>1. ht1.size \in Nat /\ ht2.size \in Nat /\ MaxLoad * ht1.cap \in Nat
    BY Capacity DEF Inv, GoodTab, TabOK
  <2>2. ht1.size + 2 * ht2.size < MaxLoad * ht1.cap
    BY DEF Inv, Load, Debt, Idle
  <2>. QED
    BY <2>1, <2>2 DEF HmSize
<1>. QED
  BY <1>1, InvHolds, PTL

\* A map in any state of its rehash is a plain set of nodes to its callers.
THEOREM Refines == Spec => ImplementsNodeSet
  BY InvHolds, InitMaps, NextMaps, PTL DEF Spec, ImplementsNodeSet, Plain!SSpec
=============================================================================
