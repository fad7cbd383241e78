---------------------------- MODULE LcSkipList ----------------------------
(***************************************************************************)
(* The skip list of LC-sliplist.cpp: numbers with repetitions, linked on a *)
(* random number of levels, without spans and without back pointers.       *)
(* Among equal numbers erase takes the first one of every level, which     *)
(* need not be the same node: the levels of two nodes are then mixed.      *)
(*                                                                         *)
(* erase does not free what it unlinks.  As nobody can reach such a node   *)
(* again, its name stands for fresh memory from then on.                   *)
(***************************************************************************)
EXTENDS Integers, Sequences, FiniteSets

CONSTANTS NodeAddr,  \* the Node objects
          Dummy,     \* the dummy node
          Nil,       \* nullptr
          Numbers,   \* the values added, searched for and erased
          MAX_LEVEL  \* the most levels of a node (32)

ASSUME NodeAddrAssumption == /\ IsFiniteSet(NodeAddr)
                             /\ Dummy \notin NodeAddr /\ Nil \notin NodeAddr \cup {Dummy}
ASSUME LcAssumption == Numbers \subseteq Int /\ MAX_LEVEL \in Nat \ {0}

VARIABLES val,          \* Node.val
          next,         \* Node.next
          currentLevel,
          found         \* what the last call returned, TRUE for add

lcVars == <<val, next, currentLevel, found>>

LcLevels == 0..(MAX_LEVEL - 1)

LcInit == /\ val = [n \in NodeAddr |-> -1]
          /\ next = [n \in NodeAddr \cup {Dummy} |-> [i \in LcLevels |-> Nil]]
          /\ currentLevel = 1
          /\ found = FALSE

Stops_Equal(n, num) == n = Nil \/ val[n] > num

\* does the inner loop stop in front of n?
Stops(n, num) == n = Nil \/ val[n] >= num

\* where the inner loop stops on level i when it starts at p
LcWalk(p, i, num) ==
  LET go[q \in NodeAddr \cup {Dummy}] ==
        IF Stops(next[q][i], num) THEN q ELSE go[next[q][i]]
  IN  go[p]

\* update: the predecessor on each level below top, the head above
Update(num) ==
  LET pred[i \in LcLevels] ==
        IF i >= currentLevel THEN Dummy
        ELSE LcWalk(IF i = currentLevel - 1 THEN Dummy ELSE pred[i + 1], i, num)
  IN  pred

Is(n, num) == n # Nil /\ val[n] = num

LcSearch(num) ==
  /\ found' = \E i \in 0..(currentLevel - 1) : Is(next[Update(num)[i]][i], num)
  /\ UNCHANGED <<val, next, currentLevel>>

\* neither linked on any level nor about to be
Fresh == {n \in NodeAddr : \A q \in NodeAddr \cup {Dummy}, i \in LcLevels : next[q][i] # n}

LinkIn(up, new, height) ==
  [q \in NodeAddr \cup {Dummy} |-> [i \in LcLevels |->
     IF i >= height THEN IF q = new THEN Nil ELSE next[q][i]
     ELSE IF q = new THEN next[up[i]][i]
     ELSE IF q = up[i] THEN new ELSE next[q][i]]]

LcAdd(num, height) ==
  \E new \in Fresh :
    /\ val' = [val EXCEPT ![new] = num]
    /\ next' = LinkIn(Update(num), new, height)
    /\ currentLevel' = IF height > currentLevel THEN height ELSE currentLevel
    /\ found' = TRUE

\* the levels below currentLevel that are empty in nx
Emptied_Top(nx) == {i \in {currentLevel - 1} : nx[Dummy][i] = Nil}

Emptied(nx) == {i \in 0..(currentLevel - 1) : nx[Dummy][i] = Nil}

Unlink(up, num) ==
  [q \in NodeAddr \cup {Dummy} |-> [i \in LcLevels |->
     IF i < currentLevel /\ q = up[i] /\ Is(next[q][i], num)
     THEN next[next[q][i]][i] ELSE next[q][i]]]

\* a node that nothing refers to any more is as good as a new one
Forget(nx) ==
  [q \in DOMAIN nx |-> IF q = Dummy \/ \E r \in DOMAIN nx, i \in LcLevels : nx[r][i] = q
                       THEN nx[q] ELSE [i \in LcLevels |-> Nil]]

LcErase(num) ==
  LET up == Update(num)
      hit == Is(next[up[0]][0], num)
      nx == Unlink(up, num)
  IN  /\ found' = hit
      /\ \/ /\ hit
            /\ next' = Forget(nx)
            /\ currentLevel' = currentLevel - Cardinality(Emptied(nx))
         \/ ~hit /\ UNCHANGED <<next, currentLevel>>
      /\ UNCHANGED val

LcNext == \E num \in Numbers :
            \/ LcSearch(num) \/ LcErase(num)
            \/ \E h \in 1..MAX_LEVEL : LcAdd(num, h)

LcSpec == LcInit /\ [][LcNext]_lcVars
-----------------------------------------------------------------------------
\* the nodes of level i in their order
LcChain(i) ==
  LET from[n \in NodeAddr \cup {Nil}] == IF n = Nil THEN <<>> ELSE <<n>> \o from[next[n][i]]
  IN  from[next[Dummy][i]]

On(i) == {LcChain(i)[p] : p \in DOMAIN LcChain(i)}

\* currentLevel is the number of levels that have nodes (one for a new list),
\* and each level's nodes are on the level below, although erase mixes the
\* levels of equal nodes: a walk that goes down never leaves the list, and
\* no level in use is out of its reach (LC-sliplist.cpp:45, 97, 116).
LevelsNested ==
  /\ \A i \in LcLevels : (next[Dummy][i] # Nil) => i < currentLevel
  /\ \A i \in 1..(currentLevel - 1) : On(i) # {} /\ On(i) \subseteq On(i - 1)

LcBag == INSTANCE OrderedBag WITH
  Element <- Numbers, Lt <- <, Unique <- FALSE,
  seq <- [p \in DOMAIN LcChain(0) |-> val[LcChain(0)[p]]], res <- found

\* The list is a bag of numbers in order: add, search and erase change it and
\* answer as if there were no levels.
LcSkipListIsBag == LcBag!OBSpec
=============================================================================
