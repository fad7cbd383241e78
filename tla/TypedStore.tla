----------------------------- MODULE TypedStore -----------------------------
(***************************************************************************)
(* What the commands of server/11 promise to somebody at the prompt of its *)
(* client: a map from keys to strings and to sorted sets, and to every     *)
(* command the reply that this map gives, as a value, or the error that it *)
(* is too big.  Neither trees nor bytes exist here.                        *)
(***************************************************************************)
EXTENDS Integers, Sequences, FiniteSets, Functions, FiniteSetsExt

CONSTANTS Commands,  \* command lines: sequences of words
          Bytes,     \* the length of each word
          Lex,       \* where each word is in the order of memcmp and length
          AsDouble,  \* the words str2dbl accepts, and their values
          AsInt,     \* the words str2int accepts, and their values
          KMaxMsg    \* k_max_msg

VARIABLES kv,     \* the keys and their strings (<<word>>) or sorted sets (functions)
          asked,  \* the command line that waits for its reply, or <<"none">>
          told    \* what the latest command has printed

tsVars == <<kv, asked, told>>

Nil == <<"nil">>
Err(e) == <<"err", e>>
Number(n) == <<"int", n>>
Double(x) == <<"dbl", x>>
Str(w) == <<"str", w>>
Arr(s) == <<"arr", s>>

ErrSize(msg) == 9 + Bytes[msg]

ScalarSize(v) == CASE v[1] = "nil" -> 1
                   [] v[1] = "err" -> ErrSize(v[2])
                   [] v[1] = "str" -> 5 + Bytes[v[2]]
                   [] v[1] \in {"int", "dbl"} -> 9

ValueSize(v) == IF v[1] # "arr" THEN ScalarSize(v)
                ELSE 5 + SumFunction([i \in DOMAIN v[2] |-> ScalarSize(v[2][i])])

IsZset(m, k) == k \in DOMAIN m /\ m[k][1] = "zset"
IsText(m, k) == k \in DOMAIN m /\ m[k][1] = "str"

Below(s, n, t, l) == s < t \/ (s = t /\ Lex[n] < Lex[l])

\* At most limit items, two to a tuple, from the tuple that is offset places
\* after the first one not below (s, n); nothing if there is no such tuple.
Query(z, s, n, offset, limit) ==
  LET low == Cardinality({l \in DOMAIN z : Below(z[l], l, s, n)})
      rank == [l \in DOMAIN z |-> Cardinality({i \in DOMAIN z : Below(z[i], i, z[l], l)})]
      from == low + offset
      hits == IF low = Cardinality(DOMAIN z) \/ from < 0 THEN {}
              ELSE {l \in DOMAIN z : rank[l] >= from /\ 2 * (rank[l] - from) < limit}
      name(i) == CHOOSE l \in hits : rank[l] = from + i
  IN  [i \in 1..(2 * Cardinality(hits)) |->
         IF i % 2 = 1 THEN Str(name(i \div 2)) ELSE Double(z[name(i \div 2 - 1)])]

Is(c, word, n) == Len(c) = n /\ c[1] = word

Known(c) == \/ Is(c, "keys", 1) \/ Is(c, "get", 2) \/ Is(c, "set", 3) \/ Is(c, "del", 2)
            \/ Is(c, "zadd", 4) \/ Is(c, "zrem", 3) \/ Is(c, "zscore", 3) \/ Is(c, "zquery", 6)

\* What m answers to c, up to the order of keys.
Replies(m, c) ==
  LET none == c[2] \notin DOMAIN m
      zset == m[c[2]][2]
      wrong == Err("expect zset")
  IN  CASE ~Known(c) -> {Err("Unknown cmd")}
        [] Is(c, "keys", 1) ->
             {Arr([i \in 1..Cardinality(DOMAIN m) |-> Str(o[i])]) :
                o \in Bijection(1..Cardinality(DOMAIN m), DOMAIN m)}
        [] Is(c, "get", 2) -> {IF none THEN Nil
                               ELSE IF IsText(m, c[2]) THEN Str(m[c[2]][2])
                               ELSE Err("expect string type")}
        [] Is(c, "set", 3) -> {IF IsZset(m, c[2]) THEN Err("expect string type") ELSE Nil}
        [] Is(c, "del", 2) -> {Number(IF none THEN 0 ELSE 1)}
        [] Is(c, "zadd", 4) -> {IF c[3] \notin DOMAIN AsDouble THEN Err("expect fp number")
                                ELSE IF IsText(m, c[2]) THEN wrong
                                ELSE Number(IF none THEN 1 ELSE IF c[4] \in DOMAIN zset THEN 0 ELSE 1)}
        [] Is(c, "zrem", 3) -> {IF none THEN Nil ELSE IF IsText(m, c[2]) THEN wrong
                                ELSE Number(IF c[3] \in DOMAIN zset THEN 1 ELSE 0)}
        [] Is(c, "zscore", 3) -> {IF none THEN Nil ELSE IF IsText(m, c[2]) THEN wrong
                                  ELSE IF c[3] \in DOMAIN zset THEN Double(zset[c[3]]) ELSE Nil}
        [] Is(c, "zquery", 6) -> {IF c[3] \notin DOMAIN AsDouble THEN Err("expect fp number")
                                  ELSE IF {c[5], c[6]} \ DOMAIN AsInt # {} THEN Err("expect int")
                                  ELSE IF none THEN Arr(<<>>)
                                  ELSE IF IsText(m, c[2]) THEN wrong
                                  ELSE Arr(Query(zset, AsDouble[c[3]], c[4], AsInt[c[5]], AsInt[c[6]]))}

With(f, k, x) == [i \in DOMAIN f \cup {k} |-> IF i = k THEN x ELSE f[i]]
Without(f, k) == Restrict(f, DOMAIN f \ {k})

\* The map after c.
Updated(m, c) ==
  CASE Is(c, "set", 3) /\ ~IsZset(m, c[2]) -> With(m, c[2], <<"str", c[3]>>)
    [] Is(c, "del", 2) -> Without(m, c[2])
    [] Is(c, "zadd", 4) /\ c[3] \in DOMAIN AsDouble /\ ~IsText(m, c[2]) ->
         With(m, c[2], <<"zset", With(IF IsZset(m, c[2]) THEN m[c[2]][2] ELSE <<>>,
                                      c[4], AsDouble[c[3]])>>)
    [] Is(c, "zrem", 3) /\ IsZset(m, c[2]) -> With(m, c[2], <<"zset", Without(m[c[2]][2], c[3])>>)
    [] OTHER -> m

Nothing == <<"none">>
TooBig == Err("response is too big")

TSInit == kv = <<>> /\ asked = Nothing /\ told = Nothing

RequestSize(c) == 4 + SumFunction([i \in DOMAIN c |-> 4 + Bytes[c[i]]])

TSAsk == /\ asked = Nothing
         /\ \E c \in Commands : RequestSize(c) <= KMaxMsg /\ asked' = <<"cmd", c>>
         /\ told' = Nothing
         /\ UNCHANGED kv

TSAnswer == /\ asked[1] = "cmd"
            /\ \E v \in Replies(kv, asked[2]) :
                 told' = IF 4 + ValueSize(v) > KMaxMsg THEN TooBig ELSE v
            /\ kv' = Updated(kv, asked[2])
            /\ asked' = Nothing

\* a command that does not fit into a request is not sent
TSRefuse == /\ asked = Nothing
            /\ \E c \in Commands : RequestSize(c) > KMaxMsg
            /\ told' = Nothing
            /\ UNCHANGED <<kv, asked>>

\* some other program sends what is not a request, and is cut off
TSJunk == /\ asked = Nothing
          /\ asked' = <<"junk">> /\ told' = Nothing
          /\ UNCHANGED kv

TSCutOff == /\ asked = <<"junk">>
            /\ told' = Nothing /\ asked' = Nothing
            /\ UNCHANGED kv

TSNext == TSAsk \/ TSAnswer \/ TSRefuse \/ TSJunk \/ TSCutOff

TSSpec == TSInit /\ [][TSNext]_tsVars
=============================================================================
