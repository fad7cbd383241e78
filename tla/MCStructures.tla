--------------------------- MODULE MCStructures ---------------------------
(***************************************************************************)
(* The data structures of the server and the two skip lists, in one run: a *)
(* behaviour picks a structure and then makes any calls of it.             *)
(***************************************************************************)
EXTENDS HashTable, TtlHeap, ZSet, LcSkipList, SkipList, TLC

CONSTANTS e1, e2, e3, e4, e5, e6, n1, n2, n3, n4

VARIABLE which  \* the structure

(* Five keys with hash values that collide in tables of two, four and      *)
(* eight buckets, two of them equal: the table is rehashed twice, the      *)
(* second time from the four buckets of the first.                         *)
KeySet == 1..5

Hcode == [k \in KeySet |-> CASE k = 1 -> 7 [] k = 2 -> 0 [] k = 3 -> 2
                             [] k = 4 -> 7 [] k = 5 -> 4]

(* Six entries: in a heap of six, removing an item of the left subtree puts *)
(* there an item of the right subtree, which may have to move up.           *)
EntrySet == {e1, e2, e3, e4, e5, e6}

Times == 1..4

(* Three nodes with heights that differ, and four for the list in which    *)
(* numbers repeat.                                                         *)
ZslNodes == {n1, n2, n3}

Objs == 1..3

ZslScores == 1..2

(* Four names and three scores for the sorted set.                         *)
Names == 1..4

TupleScores == 1..3

LcNodes == {n1, n2, n3, n4}

Nums == 1..2

Symm == Permutations({n1, n2, n3, n4})

(* The heap up to the names of its entries: of each entry, what refers to  *)
(* it and what it refers to.                                               *)
Role(e) == <<{p \in DOMAIN a : a[p].ref = e}, idx[e], taken = e>>

UpToEntries ==
  <<which, vars, zsetVars, slVars, lcVars, size, [p \in DOMAIN a |-> a[p].val],
    [r \in {Role(e) : e \in EntrySet} |-> Cardinality({e \in EntrySet : Role(e) = r})]>>

MCInit == /\ which \in {"hash", "heap", "zset", "skip", "lc"}
          /\ Init /\ HeapInit /\ ZSetInit /\ ZslInit /\ LcInit

MCNext ==
  /\ UNCHANGED which
  /\ \/ /\ which = "hash" /\ Next
        /\ UNCHANGED <<heapVars, zsetVars, slVars, lcVars>>
     \/ /\ which = "heap" /\ HeapNext
        /\ UNCHANGED <<vars, zsetVars, slVars, lcVars>>
     \/ /\ which = "zset" /\ ZSetNext
        /\ UNCHANGED <<vars, heapVars, slVars, lcVars>>
     \/ /\ which = "skip" /\ ZslNext
        /\ UNCHANGED <<vars, heapVars, zsetVars, lcVars>>
     \/ /\ which = "lc" /\ LcNext
        /\ UNCHANGED <<vars, heapVars, zsetVars, slVars>>

MCSpec == MCInit /\ [][MCNext]_<<which, vars, heapVars, zsetVars, slVars, lcVars>>
=============================================================================
