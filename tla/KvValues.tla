------------------------------ MODULE KvValues ------------------------------
(***************************************************************************)
(* The data that server/14/14_server.cpp stores and the replies its        *)
(* commands produce, shared by the key space and by its abstraction.       *)
(***************************************************************************)
EXTENDS Integers, FiniteSets, Functions

CONSTANTS Keys,     \* Entry.key
          Vals,     \* Entry.val of a T_STR entry
          Names,    \* names in a sorted set
          Scores,   \* their scores
          Ttls,     \* arguments of pexpire, in milliseconds
          MS,       \* clock ticks in a millisecond (1000 in the code)
          Wrap      \* 2^64: deadlines are of type uint64_t

ASSUME TtlAssumption == /\ Ttls \subseteq Int
                        /\ MS \in Nat \ {0}
                        /\ Wrap \in Nat \ {0}

Str(v)  == [type |-> "str", val |-> v]
ZSet(z) == [type |-> "zset", zset |-> z]

\* What an Entry can hold: a string, or a map from names to scores.
Value == {Str(v) : v \in Vals}
            \cup {ZSet(z) : z \in UNION {[N -> Scores] : N \in SUBSET Names}}

\* Replies, by the SER_ tag they start with.
Nil    == <<"nil">>
Err(c) == <<"err", c>>
Num(n) == <<"int", n>>
Dbl(s) == <<"dbl", s>>
Text(v) == <<"str", v>>
Arr(S) == <<"arr", S>>

\* zset_add on a map, and the reply of do_zadd: 1 when the name is new.
ZAdd(z, n, s) == [m \in DOMAIN z \cup {n} |-> IF m = n THEN s ELSE z[m]]
ZAdded(z, n)  == Num(IF n \in DOMAIN z THEN 0 ELSE 1)

\* zset_pop on a map, and the reply of do_zrem.
ZPop(z, n)    == Restrict(z, DOMAIN z \ {n})
ZPopped(z, n) == Num(IF n \in DOMAIN z THEN 1 ELSE 0)

ZScore(z, n)  == IF n \in DOMAIN z THEN Dbl(z[n]) ELSE Nil

\* entry_set_ttl: the addition and the multiplication wrap around.
Deadline(now, ms) == (now + ms * MS) % Wrap

\* do_ttl: whole milliseconds left, and never less than 0.
Remaining(deadline, now) ==
    IF deadline > now THEN (deadline - now) \div MS ELSE 0
=============================================================================
