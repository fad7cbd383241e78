----------------------------- MODULE SortedSet -----------------------------
(***************************************************************************)
(* What a sorted set promises (the commands zadd, zrem, zscore and zquery  *)
(* of server/14): a map from names to scores, read in the order of the     *)
(* (score, name) tuples.                                                   *)
(***************************************************************************)
EXTENDS Integers, Sequences, FiniteSets, Functions

CONSTANTS Name, Score

VARIABLES z,        \* the scores of the names in the set
          ret       \* did the last call add or remove a name

ssVars == <<z, ret>>

\* the order of the tuples
Less(s1, n1, s2, n2) == s1 < s2 \/ (s1 = s2 /\ n1 < n2)

\* the names of m in that order: the i-th has i - 1 before it
Ordered(m) == [i \in 1..Cardinality(DOMAIN m) |->
                 CHOOSE n \in DOMAIN m :
                   Cardinality({k \in DOMAIN m : Less(m[k], k, m[n], n)}) = i - 1]

SSInit == z = <<>> /\ ret = FALSE

SSAdd(n, s) == /\ z' = [m \in DOMAIN z \cup {n} |-> IF m = n THEN s ELSE z[m]]
               /\ ret' = (n \notin DOMAIN z)

SSPop(n) == /\ z' = Restrict(z, DOMAIN z \ {n})
            /\ ret' = (n \in DOMAIN z)

SSNext == \E n \in Name : SSPop(n) \/ \E s \in Score : SSAdd(n, s)

SSSpec == SSInit /\ [][SSNext]_ssVars

\* zquery: at most limit items, two to a tuple, from the tuple that is offset
\* places after the first one not below (s, n); nothing if there is no such.
SSQuery(m, s, n, offset, limit) ==
  LET seq == Ordered(m)
      low == Cardinality({i \in DOMAIN seq : Less(m[seq[i]], seq[i], s, n)})
      from == low + 1 + offset
      count == (limit + 1) \div 2
  IN  IF low = Len(seq) \/ from < 1 \/ limit <= 0 THEN <<>>
      ELSE SubSeq(seq, from, IF from + count - 1 < Len(seq) THEN from + count - 1 ELSE Len(seq))
=============================================================================
