----------------------------- MODULE SkipList -----------------------------
(***************************************************************************)
(* skiplist.cpp: the skip list of Redis' sorted sets, retyped.  Nodes are  *)
(* ordered by (score, obj) and linked forward on a random number of        *)
(* levels, each link with its span; backward pointers, the tail and the    *)
(* length are kept on the side.                                            *)
(*                                                                         *)
(* zsl->level says how many levels a search uses.  zslInsert links a node  *)
(* on all its levels and leaves zsl->level as it is.  Links above it are   *)
(* never read and not updated by a deletion, so they may refer to a freed  *)
(* node; an address is allocated again once it is free.                    *)
(***************************************************************************)
EXTENDS Integers, Sequences, FiniteSets

CONSTANTS Addr,     \* the addresses of nodes
          Header,   \* zsl->header
          NoNode,   \* NULL
          Obj,      \* the objects, numbers in the order of the strings
          Score,
          MaxLevel  \* ZSKIPLIST_MAXLEVEL (32)

ASSUME ZslAssumption == /\ Header \notin Addr /\ NoNode \notin Addr \cup {Header}
                        /\ Obj \subseteq Int /\ Score \subseteq Int
                        /\ MaxLevel \in Nat \ {0}
                        \* no list lies at the null pointer
                        /\ NoNode \notin [tail : Addr \cup {NoNode}, length : Nat, level : 1..MaxLevel]

VARIABLES node,      \* the allocated nodes
          zsl,       \* zskiplist: tail, length and level, or NoNode
          ret        \* did the last call add or delete a node

slVars == <<node, zsl, ret>>

Levels(n) == DOMAIN node[n].level

\* zslCreateNode, with the fields that its caller fills in
zslCreateNode(s, o, back, level) == [score |-> s, obj |-> o, backward |-> back, level |-> level]

ZslInit == node = [n \in {} |-> NoNode] /\ zsl = NoNode /\ ret = FALSE

zslCreate ==
  /\ zsl = NoNode
  /\ zsl' = [tail |-> NoNode, length |-> 0, level |-> 1]
  /\ node' = [n \in {Header} |->
                zslCreateNode(0, NoNode, NoNode, [i \in 0..(MaxLevel - 1) |-> [forward |-> NoNode, span |-> 0]])]
  /\ ret' = FALSE

Before_Score(n, s, o) == node[n].score < s

Before(n, s, o) == \/ node[n].score < s
                   \/ node[n].score = s /\ node[n].obj < o

\* where the inner loop stops on level i when it starts at x, and the sum of
\* the spans it passes
Walk(x, i, s, o) ==
  LET go[y \in DOMAIN node] ==
        LET link == node[y].level[i] IN
        IF link.forward = NoNode \/ ~Before(link.forward, s, o) THEN [at |-> y, rank |-> 0]
        ELSE LET f == go[link.forward] IN [at |-> f.at, rank |-> f.rank + link.span]
  IN  go[x]

\* update and rank on the levels a search uses, and on those above the header
Search(s, o) ==
  LET top == zsl.level - 1
      path[i \in 0..(MaxLevel - 1)] ==
        IF i > top THEN [at |-> Header, rank |-> 0]
        ELSE LET from == IF i = top THEN [at |-> Header, rank |-> 0] ELSE path[i + 1]
                 stop == Walk(from.at, i, s, o)
             IN  [at |-> stop.at, rank |-> from.rank + stop.rank]
  IN  path

\* the nodes of level i in their order
Chain(i) ==
  LET from[n \in (DOMAIN node) \cup {NoNode}] ==
        IF n = NoNode THEN <<>> ELSE <<n>> \o from[node[n].level[i].forward]
  IN  from[node[Header].level[i].forward]

Reached(i) == {Chain(i)[p] : p \in DOMAIN Chain(i)}

\* the caller tests whether the object is there already (skiplist.cpp:149)
Absent(o) == \A n \in Reached(0) : node[n].obj # o

LinksAfterInsert(x, path, height) ==
  LET Gap(i)  == path[0].rank - path[i].rank
      Old(i)  == node[path[i].at].level[i]
      Span(i) == IF i < zsl.level THEN Old(i).span ELSE zsl.length
      new     == [i \in 0..(height - 1) |-> [forward |-> Old(i).forward,
                                             span |-> Span(i) - Gap(i)]]
      At(n, i) == IF path[i].at # n THEN node[n].level[i]
                  ELSE IF i < height THEN [forward |-> x, span |-> Gap(i) + 1]
                  ELSE IF i < zsl.level THEN [Old(i) EXCEPT !.span = @ + 1]
                  ELSE Old(i)
  IN  [n \in DOMAIN node \cup {x} |->
         IF n = x THEN new ELSE [i \in Levels(n) |-> At(n, i)]]

Backward_Kept(n, next, prev) == node[n].backward

\* the backward pointers when prev becomes the one before next
Backward(n, next, prev) == IF n = next THEN prev ELSE node[n].backward

Inserted(x, s, o, height) ==
  LET path  == Search(s, o)
      links == LinksAfterInsert(x, path, height)
      next  == links[x][0].forward
  IN  /\ node' = [n \in DOMAIN links |->
                    IF n = x
                    THEN zslCreateNode(s, o, IF path[0].at = Header THEN NoNode ELSE path[0].at, links[n])
                    ELSE [node[n] EXCEPT !.level = links[n],
                                         !.backward = Backward(n, next, x)]]
      /\ zsl' = [zsl EXCEPT !.tail = IF next = NoNode THEN x ELSE @, !.length = @ + 1]
      /\ ret' = TRUE

\* zslInsert, with any result of zslRandomLevel
zslInsert(x, s, o, height) == /\ zsl # NoNode /\ x \notin DOMAIN node
                              /\ Absent(o)
                              /\ Inserted(x, s, o, height)

Merged_Sum(span1, span2) == span1 + span2

\* two gaps become one, with one node less
Merged(span1, span2) == span1 + span2 - 1

LinksAfterDelete(x, path) ==
  LET At(n, i) == IF i < zsl.level /\ path[i].at = n
                  THEN IF node[n].level[i].forward = x
                       THEN [forward |-> node[x].level[i].forward,
                             span |-> Merged(node[n].level[i].span, node[x].level[i].span)]
                       ELSE [node[n].level[i] EXCEPT !.span = @ - 1]
                  ELSE node[n].level[i]
  IN  [n \in DOMAIN node |-> [i \in Levels(n) |-> At(n, i)]]

\* the while loop that gives up empty levels
Lowered(header, level) ==
  LET low[l \in 1..level] == IF l > 1 /\ header[l - 1].forward = NoNode THEN low[l - 1] ELSE l
  IN  low[level]

\* zslDeleteNode and zslFreeNode
zslDeleteNode(x, path) ==
  LET links == LinksAfterDelete(x, path)
      next  == node[x].level[0].forward
  IN  /\ node' = [n \in DOMAIN node \ {x} |->
                    [node[n] EXCEPT !.level = links[n],
                                    !.backward = Backward(n, next, node[x].backward)]]
      /\ zsl' = [tail |-> IF next = NoNode THEN node[x].backward ELSE zsl.tail,
                 length |-> zsl.length - 1,
                 level |-> Lowered(links[Header], zsl.level)]

zslDelete(s, o) ==
  LET path == Search(s, o)
      x == node[path[0].at].level[0].forward
      hit == x # NoNode /\ node[x].score = s /\ node[x].obj = o
  IN  /\ ret' = hit
      /\ \/ hit /\ zslDeleteNode(x, path)
         \/ ~hit /\ UNCHANGED <<node, zsl>>

\* zslFree: the header and the nodes of level 0
zslFree == /\ zsl # NoNode
           /\ node' = [n \in DOMAIN node \ ({Header} \cup Reached(0)) |-> node[n]]
           /\ zsl' = NoNode
           /\ ret' = FALSE

ZslNext == \/ zslCreate \/ zslFree
           \/ \E s \in Score, o \in Obj :
                \/ zsl # NoNode /\ zslDelete(s, o)
                \/ \E x \in Addr, h \in 1..MaxLevel : zslInsert(x, s, o, h)

ZslSpec == ZslInit /\ [][ZslNext]_slVars
-----------------------------------------------------------------------------
\* The backward pointers and the tail give level 0 in reverse, length is its
\* length, and no node is allocated that level 0 does not reach: zslFree frees
\* all of them, and a reverse walk meets each (skiplist.cpp:84, 181-186, 205).
LinkedBothWays ==
  IF zsl = NoNode THEN node = <<>>
  ELSE LET c == Chain(0)
           n == Len(c)
       IN  /\ zsl.length = n
           /\ zsl.tail = (IF n = 0 THEN NoNode ELSE c[n])
           /\ \A p \in 1..n : node[c[p]].backward = (IF p = 1 THEN NoNode ELSE c[p - 1])
           /\ DOMAIN node = {Header} \cup Reached(0)

Rank(n) == IF n = Header THEN 0 ELSE CHOOSE p \in DOMAIN Chain(0) : Chain(0)[p] = n

\* On every level a search uses, a link leads to a live node and its span is
\* the number of places it moves by; the last one's span is what is left of
\* the list: the sum of spans is the rank (skiplist.cpp:21-24, 168-178).
SpansAreRanks ==
  zsl # NoNode =>
    \A n \in DOMAIN node : \A i \in Levels(n) :
      i < zsl.level =>
        LET link == node[n].level[i] IN
        IF link.forward = NoNode THEN link.span = zsl.length - Rank(n)
        ELSE link.forward \in Reached(0) /\ link.span = Rank(link.forward) - Rank(n)

\* Both: the links in the two directions agree, and the spans count places.
SkipListShape == LinkedBothWays /\ SpansAreRanks

\* zsl->level is "the number of levels of the node with the most levels (not
\* counting the header)" (skiplist.cpp:37): searches use the levels there are.
LevelIsMax ==
  zsl # NoNode => \A n \in Reached(0) : Cardinality(Levels(n)) <= zsl.level

LtElement(d, e) == d[1] < e[1] \/ (d[1] = e[1] /\ d[2] < e[2])

ZslBag == INSTANCE OrderedBag WITH
  Element <- Score \X Obj, Lt <- LtElement, Unique <- TRUE, res <- ret,
  seq <- IF zsl = NoNode THEN <<>>
         ELSE [p \in DOMAIN Chain(0) |-> <<node[Chain(0)[p]].score, node[Chain(0)[p]].obj>>]

\* The skip list is a sequence in the order of (score, obj): an insertion goes
\* to its place and a deletion takes the pair it names or nothing.
SkipListIsBag == ZslBag!OBSpec
=============================================================================
