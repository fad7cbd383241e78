------------------------------ MODULE KvStore ------------------------------
(***************************************************************************)
(* What the commands of server/14 promise a client: a map from keys to     *)
(* typed values, some of them with a deadline, where a key vanishes by del *)
(* or by expiry and never otherwise.  Entries, the hash table, the heap    *)
(* and the threads that free memory do not exist at this level.            *)
(* It is also the key space of server/13, the stage before the thread      *)
(* pool, whose entry_del frees the entry before the command returns: a     *)
(* deletion is one step there, and server/14 must not show the difference. *)
(***************************************************************************)
EXTENDS KvValues

VARIABLES kv,       \* the keys that exist and their values
          ttl,      \* the keys that expire and their deadlines
          now,      \* the monotonic clock
          reply     \* the reply to the last command

kvVars == <<kv, ttl, now, reply>>

KInit == kv = <<>> /\ ttl = <<>> /\ now = 0 /\ reply = Nil

Exists(k)    == k \in DOMAIN kv
IsOf(k, type) == Exists(k) /\ kv[k].type = type

\* A command answers r and changes nothing.
Answer(r) == reply' = r /\ UNCHANGED <<kv, ttl, now>>

\* Key k gets the value x and keeps its deadline.
Store(k, x) == /\ kv' = [i \in DOMAIN kv \cup {k} |-> IF i = k THEN x ELSE kv[i]]
               /\ UNCHANGED <<ttl, now>>

Vanish(k) == /\ kv' = Restrict(kv, DOMAIN kv \ {k})
             /\ ttl' = Restrict(ttl, DOMAIN ttl \ {k})
             /\ UNCHANGED now

KGet(k) == \/ ~Exists(k) /\ Answer(Nil)
           \/ IsOf(k, "zset") /\ Answer(Err("type"))
           \/ IsOf(k, "str") /\ Answer(Text(kv[k].val))

KSet(k, v) == \/ IsOf(k, "zset") /\ Answer(Err("type"))
              \/ /\ ~IsOf(k, "zset")
                 /\ Store(k, Str(v))
                 /\ reply' = Nil

KDel(k) == \/ ~Exists(k) /\ Answer(Num(0))
           \/ Exists(k) /\ Vanish(k) /\ reply' = Num(1)

KKeys == Answer(Arr(DOMAIN kv))

KExpire(k, ms) ==
    \/ ~Exists(k) /\ Answer(Num(0))
    \/ /\ Exists(k)
       /\ ttl' = IF ms < 0 THEN Restrict(ttl, DOMAIN ttl \ {k})
                 ELSE [i \in DOMAIN ttl \cup {k} |-> IF i = k THEN Deadline(now, ms) ELSE ttl[i]]
       /\ reply' = Num(1)
       /\ UNCHANGED <<kv, now>>

KTtl(k) == \/ ~Exists(k) /\ Answer(Num(-2))
           \/ Exists(k) /\ k \notin DOMAIN ttl /\ Answer(Num(-1))
           \/ k \in DOMAIN ttl /\ Answer(Num(Remaining(ttl[k], now)))

KZadd(k, n, s) ==
    \/ IsOf(k, "str") /\ Answer(Err("type"))
    \/ /\ ~IsOf(k, "str")
       /\ LET z == IF Exists(k) THEN kv[k].zset ELSE <<>>
          IN Store(k, ZSet(ZAdd(z, n, s))) /\ reply' = ZAdded(z, n)

KZrem(k, n) == \/ ~Exists(k) /\ Answer(Nil)
               \/ IsOf(k, "str") /\ Answer(Err("type"))
               \/ /\ IsOf(k, "zset")
                  /\ Store(k, ZSet(ZPop(kv[k].zset, n)))
                  /\ reply' = ZPopped(kv[k].zset, n)

KZscore(k, n) == \/ ~Exists(k) /\ Answer(Nil)
                 \/ IsOf(k, "str") /\ Answer(Err("type"))
                 \/ IsOf(k, "zset") /\ Answer(ZScore(kv[k].zset, n))

KReject == \E c \in {"unknown", "arg"} : Answer(Err(c))

\* A key expires in the last millisecond before its deadline or later, and
\* no key expires before one with an earlier deadline.
KTimeout(k) == /\ k \in DOMAIN ttl
               /\ ttl[k] < now + MS
               /\ \A i \in DOMAIN ttl : ttl[k] <= ttl[i]
               /\ Vanish(k)
               /\ UNCHANGED reply

KTick == now' = now + 1 /\ UNCHANGED <<kv, ttl, reply>>

KNext == \/ \E k \in Keys :
              \/ KGet(k) \/ KDel(k) \/ KTtl(k) \/ KTimeout(k)
              \/ \E v \in Vals : KSet(k, v)
              \/ \E ms \in Ttls : KExpire(k, ms)
              \/ \E n \in Names : \/ KZrem(k, n) \/ KZscore(k, n)
                                  \/ \E s \in Scores : KZadd(k, n, s)
         \/ KKeys \/ KReject \/ KTick

KSpec == KInit /\ [][KNext]_kvVars
=============================================================================
