--------------------------- MODULE KeyspaceProofs ---------------------------
(***************************************************************************)
(* Memory safety of the key space for any keys, entries and values: who    *)
(* owns an Entry, and what the TTL heap may refer to.  The two invariants  *)
(* need each other, and the link between the program counter of the event  *)
(* loop and the entry it is deleting.  On them rests the refinement of     *)
(* KvStore: an address names one key, and what is freed names none.        *)
(***************************************************************************)
EXTENDS Keyspace, TLAPS

\* entry_del is in progress exactly when it has an argument.
DoomedWhileDeleting == (doomed # None) <=> pc \in {"clear", "dispose"}

\* The limit of process_timers was read from the clock, which only advances.
LimitRead == limit <= now + MS

Inv == TypeOK /\ OneOwner /\ HeapRefsLive /\ DoomedWhileDeleting /\ LimitRead

-----------------------------------------------------------------------------
(* What the operations on values return *)

LEMMA StrType == ASSUME NEW v \in Vals PROVE Str(v) \in Value
  BY DEF Value

\* Adding a name to a sorted set, or to an empty one, gives a sorted set.
LEMMA ZAddType ==
  ASSUME NEW N \in SUBSET Names, NEW z \in [N -> Scores],
         NEW n \in Names, NEW s \in Scores
  PROVE  ZSet(ZAdd(z, n, s)) \in Value
<1>1. N \cup {n} \in SUBSET Names
  OBVIOUS
<1>2. ZAdd(z, n, s) \in [N \cup {n} -> Scores]
  BY DEF ZAdd
<1>. QED
  BY <1>1, <1>2 DEF Value

LEMMA ZPopType ==
  ASSUME NEW N \in SUBSET Names, NEW z \in [N -> Scores], NEW n
  PROVE  ZSet(ZPop(z, n)) \in Value
<1>1. N \ {n} \in SUBSET Names
  OBVIOUS
<1>2. ZPop(z, n) \in [N \ {n} -> Scores]
  BY DEF ZPop, Restrict
<1>. QED
  BY <1>1, <1>2 DEF Value

\* A value of type zset is one of the sorted sets.
LEMMA ZSetValue ==
  ASSUME NEW x \in Value, x.type = "zset"
  PROVE  \E N \in SUBSET Names : x.zset \in [N -> Scores]
  BY DEF Value, Str, ZSet

\* A deadline is a natural number, however the sum wraps.
LEMMA TtlNat ==
  ASSUME NEW t \in Nat, NEW ms \in Int
  PROVE  Deadline(t, ms) \in Nat
<1>1. MS \in Int /\ Wrap \in Int /\ Wrap > 0
  BY TtlAssumption
<1>2. ms * MS \in Int
  BY <1>1
<1>3. t + ms * MS \in Int
  BY <1>2
<1>. QED
  BY <1>1, <1>3 DEF Deadline

-----------------------------------------------------------------------------

LEMMA InitInv == Init => Inv
  BY EntryAssumption, TtlAssumption
  DEF Init, Inv, TypeOK, OneOwner, HeapRefsLive, DoomedWhileDeleting, LimitRead,
      Reachable, Live

\* A step that leaves the memory and the deletion in progress alone.
LEMMA SameMemory ==
  ASSUME Inv, TypeOK', LimitRead', UNCHANGED <<data, pc, doomed>>
  PROVE  Inv'
  BY DEF Inv, OneOwner, HeapRefsLive, DoomedWhileDeleting, Reachable, Live, data

LEMMA AnswerInv == ASSUME Inv, NEW r, Answer(r) PROVE Inv'
  BY SameMemory DEF Answer, Inv, TypeOK, LimitRead, data, local

\* hm_insert of a new object.
LEMMA InsertInv ==
  ASSUME Inv, NEW k \in Keys, NEW x \in Value, pc = "io", ~Found(k), Insert(k, x)
  PROVE  Inv'
<1> USE EntryAssumption
<1>1. PICK e \in Entries : /\ obj[e] = None
                           /\ obj' = [obj EXCEPT ![e] = x]
                           /\ db' = [db EXCEPT ![k] = e]
                           /\ UNCHANGED <<heap, handed, local, now>>
  BY DEF Insert
<1>2. TypeOK' /\ LimitRead'
  BY <1>1 DEF Inv, TypeOK, LimitRead, local
<1>3. e \notin Reachable /\ e \notin handed /\ e # doomed
  BY <1>1 DEF Inv, OneOwner, Live
<1>4. Reachable' = Reachable \cup {e}
  BY <1>1 DEF Inv, TypeOK, Found, Reachable
<1>5. Live' = Live \cup {e}
  BY <1>1 DEF Inv, TypeOK, Live
<1>6. \A i, l \in Keys : db'[i] = db'[l] /\ db'[i] # None => i = l
  BY <1>1, <1>3 DEF Inv, TypeOK, OneOwner, Reachable
<1>7. OneOwner'
  BY <1>1, <1>3, <1>4, <1>5, <1>6 DEF Inv, OneOwner, local
<1>8. HeapRefsLive' /\ DoomedWhileDeleting'
  BY <1>1, <1>4 DEF Inv, HeapRefsLive, DoomedWhileDeleting, local
<1>. QED
  BY <1>2, <1>7, <1>8 DEF Inv

\* An assignment to the content of an entry that db refers to.
LEMMA OverwriteInv ==
  ASSUME Inv, NEW k \in Keys, NEW x \in Value, pc = "io", Found(k), Overwrite(k, x)
  PROVE  Inv'
<1> USE EntryAssumption
<1>1. db[k] \in Entries /\ obj[db[k]] # None
  BY DEF Inv, TypeOK, OneOwner, Found, Reachable, Live
<1>2. TypeOK' /\ LimitRead'
  BY <1>1 DEF Inv, TypeOK, LimitRead, Overwrite, local
<1>3. Live' = Live
  BY <1>1 DEF Overwrite, Inv, TypeOK, Live
<1>. QED
  BY <1>2, <1>3 DEF Overwrite, Inv, OneOwner, HeapRefsLive, DoomedWhileDeleting,
     Reachable, local

\* entry_set_ttl on an entry of the key space.
LEMMA SetTtlType ==
  ASSUME TypeOK, NEW e \in Entries, NEW ms \in Int, EntrySetTtl(e, ms)
  PROVE  /\ DOMAIN heap' \subseteq Entries /\ \A i \in DOMAIN heap' : heap'[i] \in Nat
         /\ DOMAIN heap' \subseteq DOMAIN heap \cup {e}
         /\ ms < 0 => DOMAIN heap' = DOMAIN heap \ {e}
<1>1. CASE ms < 0
  BY <1>1 DEF EntrySetTtl, Restrict, TypeOK
<1>2. CASE ~(ms < 0)
  <2>1. Deadline(now, ms) \in Nat
    BY TtlNat DEF TypeOK
  <2>. QED
    BY <1>2, <2>1 DEF EntrySetTtl, TypeOK
<1>. QED
  BY <1>1, <1>2

LEMMA DetachInv ==
  ASSUME Inv, NEW k \in Keys, NEW caller \in {"io", "timers"},
         pc \in {"io", "timers"}, Found(k), Detach(k, caller), UNCHANGED <<limit, nworks>>
  PROVE  Inv'
<1> USE EntryAssumption DEF Detach
<1>1. TypeOK' /\ LimitRead'
  BY DEF Inv, TypeOK, LimitRead
<1>2. doomed = None /\ db[k] \in Entries
  BY DEF Inv, TypeOK, DoomedWhileDeleting, Found
<1>3. Reachable' = Reachable \ {db[k]} /\ db[k] \in Reachable
  BY DEF Inv, TypeOK, OneOwner, Found, Reachable
<1>4. OneOwner'
  <2>1. \A i, l \in Keys : db'[i] = db'[l] /\ db'[i] # None => i = l
    BY DEF Inv, TypeOK, OneOwner
  <2>2. Live' = Live
    BY DEF Live
  <2>. QED
    BY <1>2, <1>3, <2>1, <2>2 DEF Inv, OneOwner
<1>5. HeapRefsLive' /\ DoomedWhileDeleting'
  BY <1>2, <1>3 DEF Inv, HeapRefsLive, DoomedWhileDeleting
<1>. QED
  BY <1>1, <1>4, <1>5 DEF Inv

\* Commands that store a value.
LEMMA DoSetInv == ASSUME Inv, NEW k \in Keys, NEW v \in Vals, DoSet(k, v) PROVE Inv'
<1>1. CASE Holds(k, "zset") /\ Answer(Err("type"))
  BY <1>1, AnswerInv
<1>2. CASE pc = "io" /\ ~Found(k) /\ Insert(k, Str(v))
  BY <1>2, StrType, InsertInv
<1>3. CASE pc = "io" /\ Holds(k, "str") /\ Overwrite(k, Str(v))
  BY <1>3, StrType, OverwriteInv DEF Holds
<1>. QED
  BY <1>1, <1>2, <1>3 DEF DoSet

LEMMA Content ==
  ASSUME Inv, NEW k \in Keys, Found(k)
  PROVE  db[k] \in Entries /\ obj[db[k]] \in Value
  BY DEF Inv, TypeOK, OneOwner, Found, Reachable, Live

LEMMA DoZaddInv ==
  ASSUME Inv, NEW k \in Keys, NEW n \in Names, NEW s \in Scores, DoZadd(k, n, s)
  PROVE  Inv'
<1>1. CASE Holds(k, "str") /\ Answer(Err("type"))
  BY <1>1, AnswerInv
<1>2. CASE pc = "io" /\ ~Found(k) /\ Insert(k, ZSet(ZAdd([m \in {} |-> s], n, s)))
  <2>1. [m \in {} |-> s] \in [{} -> Scores] /\ {} \in SUBSET Names
    OBVIOUS
  <2>2. ZSet(ZAdd([m \in {} |-> s], n, s)) \in Value
    BY <2>1, ZAddType
  <2>. QED
    BY <1>2, <2>2, InsertInv
<1>3. CASE pc = "io" /\ Holds(k, "zset") /\ Overwrite(k, ZSet(ZAdd(obj[db[k]].zset, n, s)))
  <2>1. PICK N \in SUBSET Names : obj[db[k]].zset \in [N -> Scores]
    BY <1>3, Content, ZSetValue DEF Holds
  <2>2. ZSet(ZAdd(obj[db[k]].zset, n, s)) \in Value
    BY <2>1, ZAddType
  <2>. QED
    BY <1>3, <2>2, OverwriteInv DEF Holds
<1>. QED
  BY <1>1, <1>2, <1>3 DEF DoZadd

LEMMA DoZremInv ==
  ASSUME Inv, NEW k \in Keys, NEW n \in Names, DoZrem(k, n)
  PROVE  Inv'
<1>1. CASE ExpectZset(k)
  BY <1>1, AnswerInv DEF ExpectZset
<1>2. CASE pc = "io" /\ Holds(k, "zset") /\ Overwrite(k, ZSet(ZPop(obj[db[k]].zset, n)))
  <2>1. PICK N \in SUBSET Names : obj[db[k]].zset \in [N -> Scores]
    BY <1>2, Content, ZSetValue DEF Holds
  <2>2. ZSet(ZPop(obj[db[k]].zset, n)) \in Value
    BY <2>1, ZPopType
  <2>. QED
    BY <1>2, <2>2, OverwriteInv DEF Holds
<1>. QED
  BY <1>1, <1>2 DEF DoZrem

LEMMA DoExpireInv ==
  ASSUME Inv, NEW k \in Keys, NEW ms \in Ttls, DoExpire(k, ms)
  PROVE  Inv'
<1>1. CASE ~Found(k) /\ Answer(Num(0))
  BY <1>1, AnswerInv
<1>2. CASE /\ Found(k) /\ pc = "io" /\ EntrySetTtl(db[k], ms)
           /\ UNCHANGED <<db, obj, handed, local, now>>
  <2>1. db[k] \in Entries /\ db[k] \in Reachable /\ ms \in Int
    BY <1>2, Content, TtlAssumption DEF Found, Reachable
  <2>2. /\ DOMAIN heap' \subseteq Entries /\ \A i \in DOMAIN heap' : heap'[i] \in Nat
        /\ DOMAIN heap' \subseteq DOMAIN heap \cup {db[k]}
    BY <1>2, <2>1, SetTtlType DEF Inv
  <2>3. TypeOK' /\ LimitRead'
    BY <1>2, <2>2 DEF Inv, TypeOK, LimitRead, local
  <2>4. OneOwner' /\ HeapRefsLive' /\ DoomedWhileDeleting'
    BY <1>2, <2>1, <2>2 DEF Inv, OneOwner, HeapRefsLive, DoomedWhileDeleting,
       Reachable, Live, local
  <2>. QED
    BY <2>3, <2>4 DEF Inv
<1>. QED
  BY <1>1, <1>2 DEF DoExpire

LEMMA CommandInv == ASSUME Inv, NEW k \in Keys, Command(k) PROVE Inv'
<1>1. CASE DoGet(k) \/ DoTtl(k)
  BY <1>1, AnswerInv DEF DoGet, DoTtl
<1>2. CASE DoDel(k)
  BY <1>2, AnswerInv, DetachInv DEF DoDel
<1>3. ASSUME NEW n \in Names, DoZscore(k, n) PROVE Inv'
  BY <1>3, AnswerInv DEF DoZscore, ExpectZset
<1>. QED
  BY <1>1, <1>2, <1>3, DoSetInv, DoExpireInv, DoZremInv, DoZaddInv DEF Command

-----------------------------------------------------------------------------
(* process_timers, entry_del and the workers *)

\* The TTL of the entry that is being deleted is cleared.
LEMMA ClearTtlInv == ASSUME Inv, ClearTtl PROVE Inv'
<1> USE EntryAssumption DEF ClearTtl
<1>1. doomed \in Entries
  BY DEF Inv, TypeOK, DoomedWhileDeleting
<1>2. /\ DOMAIN heap' \subseteq Entries /\ \A i \in DOMAIN heap' : heap'[i] \in Nat
      /\ DOMAIN heap' = DOMAIN heap \ {doomed}
  BY <1>1, SetTtlType DEF Inv
<1>3. TypeOK' /\ LimitRead'
  BY <1>2 DEF Inv, TypeOK, LimitRead
<1>4. OneOwner' /\ HeapRefsLive' /\ DoomedWhileDeleting'
  BY <1>2 DEF Inv, OneOwner, HeapRefsLive, DoomedWhileDeleting, Reachable, Live
<1>. QED
  BY <1>3, <1>4 DEF Inv

\* The ownership of the entry passes to the pool, or ends.
LEMMA DisposeInv == ASSUME Inv, Dispose PROVE Inv'
<1> USE EntryAssumption DEF Dispose
<1>1. doomed \in Entries /\ doomed \notin Reachable /\ doomed \notin handed
  BY DEF Inv, TypeOK, OneOwner, DoomedWhileDeleting
<1>2. doomed' = None /\ pc' \in {"io", "timers"} /\ UNCHANGED <<db, heap>>
  BY DEF Return, Leave
<1>3. limit' \in {0, limit} /\ nworks' \in {0, nworks, nworks + 1} /\ UNCHANGED <<ret, now>>
  BY DEF Return, Leave
<1>4. /\ handed' \subseteq Entries
      /\ obj' \in [Entries -> Value \cup {None}]
  BY <1>1 DEF Inv, TypeOK
<1>5. TypeOK' /\ LimitRead'
  <2>1. LimitRead'
    BY <1>3, TtlAssumption DEF Inv, TypeOK, LimitRead
  <2>2. limit' \in Nat /\ nworks' \in Nat
    BY <1>3 DEF Inv, TypeOK
  <2>. QED
    BY <1>2, <1>3, <1>4, <2>1, <2>2 DEF Inv, TypeOK
<1>6. Live' = Reachable \cup handed'
  <2>1. CASE handed' = handed \cup {doomed} /\ UNCHANGED obj
    BY <1>1, <2>1 DEF Inv, OneOwner, Live
  <2>2. CASE obj' = [obj EXCEPT ![doomed] = None] /\ UNCHANGED handed
    BY <1>1, <2>2 DEF Inv, TypeOK, OneOwner, Live
  <2>. QED
    BY <2>1, <2>2
<1>7. Reachable' = Reachable /\ Reachable' \cap handed' = {} /\ None \notin handed'
  BY <1>1, <1>2, <1>4 DEF Inv, OneOwner, Reachable
<1>8. OneOwner' /\ HeapRefsLive' /\ DoomedWhileDeleting'
  BY <1>2, <1>6, <1>7 DEF Inv, OneOwner, HeapRefsLive, DoomedWhileDeleting, Reachable
<1>. QED
  BY <1>5, <1>8 DEF Inv

LEMMA EntryDelAsyncInv == ASSUME Inv, NEW e \in Entries, EntryDelAsync(e) PROVE Inv'
<1> USE EntryAssumption DEF EntryDelAsync
<1>1. TypeOK' /\ LimitRead'
  BY DEF Inv, TypeOK, LimitRead, local
<1>2. Live' = Live \ {e}
  BY DEF Inv, TypeOK, Live
<1>3. OneOwner' /\ HeapRefsLive' /\ DoomedWhileDeleting'
  BY <1>2 DEF Inv, OneOwner, HeapRefsLive, DoomedWhileDeleting, Reachable, local
<1>. QED
  BY <1>1, <1>3 DEF Inv

LEMMA PopDueInv == ASSUME Inv, PopDue PROVE Inv'
<1>1. PICK k \in Keys : db[k] \in Due /\ Detach(k, "timers")
  BY DEF PopDue
<1>2. Found(k)
  BY <1>1, EntryAssumption DEF Due, Roots, Inv, TypeOK, Found
<1>. QED
  BY <1>1, <1>2, DetachInv DEF PopDue

LEMMA StartTimersInv == ASSUME Inv, StartTimers PROVE Inv'
<1> USE TtlAssumption DEF StartTimers
<1>1. TypeOK' /\ LimitRead'
  BY DEF Inv, TypeOK, LimitRead, data
<1>2. OneOwner' /\ HeapRefsLive' /\ DoomedWhileDeleting'
  BY DEF Inv, OneOwner, HeapRefsLive, DoomedWhileDeleting, Reachable, Live, data
<1>. QED
  BY <1>1, <1>2 DEF Inv

LEMMA EndTimersInv == ASSUME Inv, EndTimers PROVE Inv'
<1> USE TtlAssumption DEF EndTimers, Leave
<1>1. TypeOK' /\ LimitRead'
  BY DEF Inv, TypeOK, LimitRead, data
<1>2. OneOwner' /\ HeapRefsLive' /\ DoomedWhileDeleting'
  BY DEF Inv, OneOwner, HeapRefsLive, DoomedWhileDeleting, Reachable, Live, data
<1>. QED
  BY <1>1, <1>2 DEF Inv

LEMMA TickInv == ASSUME Inv, Tick PROVE Inv'
<1>1. TypeOK' /\ LimitRead'
  BY TtlAssumption DEF Tick, Inv, TypeOK, LimitRead, data, local
<1>. QED
  BY <1>1, SameMemory DEF Tick, local, data

LEMMA NextInv == Inv /\ [Next]_vars => Inv'
<1> SUFFICES ASSUME Inv, [Next]_vars PROVE Inv'
  OBVIOUS
<1>1. CASE DoKeys \/ Reject
  BY <1>1, AnswerInv DEF DoKeys, Reject
<1>2. CASE UNCHANGED vars
  BY <1>2, SameMemory DEF vars, data, Inv, TypeOK, LimitRead
<1>. QED
  BY <1>1, <1>2, CommandInv, StartTimersInv, PopDueInv, EndTimersInv, ClearTtlInv,
     DisposeInv, EntryDelAsyncInv, TickInv DEF Next, Timers

LEMMA InvHolds == Spec => []Inv
  BY InitInv, NextInv, PTL DEF Spec

-----------------------------------------------------------------------------
(* The key space implements KvStore *)

\* The keys with a deadline, and the reply, as a client of the map sees them.
Timed == {k \in Present : db[k] \in DOMAIN heap}

ReplySeen == IF pc \in {"clear", "dispose"} /\ ret = "io" THEN Num(1) ELSE reply

LEMMA InitMaps == Init => Abstract!KInit
<1> SUFFICES ASSUME Init PROVE Abstract!KInit
  OBVIOUS
<1>1. Present = {} /\ Timed = {}
  BY DEF Init, Present, Found, Timed
<1>2. [k \in Present |-> obj[db[k]]] = <<>> /\ [k \in Timed |-> heap[db[k]]] = <<>>
  BY <1>1
<1>. QED
  BY <1>2 DEF Init, Abstract!KInit, Timed, Nil, Abstract!Nil

\* The keys, their values and their deadlines, seen from the abstraction.
LEMMA KeysSeen ==
  ASSUME NEW k \in Keys
  PROVE  /\ Abstract!Exists(k) <=> Found(k)
         /\ \A type : Abstract!IsOf(k, type) <=> Holds(k, type)
  BY DEF Abstract!Exists, Abstract!IsOf, Holds, Present

LEMMA AnswerMaps ==
  ASSUME NEW r, Answer(r)
  PROVE  Abstract!Answer(r)
  BY DEF Answer, Abstract!Answer, Present, Found, data, local

\* A new entry is the new value of a key without deadline.
LEMMA InsertMaps ==
  ASSUME Inv, NEW k \in Keys, NEW x, pc = "io", ~Found(k), Insert(k, x)
  PROVE  Abstract!Store(k, x)
<1> USE EntryAssumption
<1>1. PICK e \in Entries : /\ obj[e] = None
                           /\ obj' = [obj EXCEPT ![e] = x]
                           /\ db' = [db EXCEPT ![k] = e]
                           /\ UNCHANGED <<heap, handed, local, now>>
  BY DEF Insert
<1>2. e \notin Reachable /\ e \notin DOMAIN heap
  BY <1>1 DEF Inv, OneOwner, HeapRefsLive, Live
<1>3. Present' = Present \cup {k} /\ k \notin Present
  BY <1>1 DEF Present, Found, Inv, TypeOK
<1>4. \A i \in Present : /\ db'[i] = db[i] /\ db[i] \in Reachable
                         /\ obj'[db'[i]] = obj[db[i]]
  BY <1>1, <1>2 DEF Present, Found, Reachable, Inv, TypeOK
<1>5. db'[k] = e /\ obj'[e] = x
  BY <1>1 DEF Inv, TypeOK
<1>6. Timed' = Timed
  BY <1>1, <1>2, <1>3, <1>4, <1>5 DEF Timed
<1>7. [i \in Present |-> obj[db[i]]]' =
         [i \in Present \cup {k} |-> IF i = k THEN x ELSE [j \in Present |-> obj[db[j]]][i]]
  BY <1>3, <1>4, <1>5
<1>8. [i \in Timed |-> heap[db[i]]]' = [i \in Timed |-> heap[db[i]]]
  BY <1>1, <1>4, <1>6 DEF Timed
<1>. QED
  BY <1>1, <1>7, <1>8 DEF Abstract!Store, Timed

LEMMA OverwriteMaps ==
  ASSUME Inv, NEW k \in Keys, NEW x, pc = "io", Found(k), Overwrite(k, x)
  PROVE  Abstract!Store(k, x)
<1> USE EntryAssumption DEF Overwrite
<1>1. Present' = Present /\ Present \cup {k} = Present /\ Timed' = Timed
  BY DEF Present, Found, Timed
<1>2. \A i \in Present : obj'[db[i]] = IF i = k THEN x ELSE obj[db[i]]
  BY DEF Present, Found, Inv, TypeOK, OneOwner
<1>3. [i \in Present |-> obj[db[i]]]' =
         [i \in Present \cup {k} |-> IF i = k THEN x ELSE [j \in Present |-> obj[db[j]]][i]]
  BY <1>1, <1>2
<1>4. [i \in Timed |-> heap[db[i]]]' = [i \in Timed |-> heap[db[i]]]
  BY <1>1
<1>. QED
  BY <1>3, <1>4 DEF Abstract!Store, Timed

\* Both levels compute with the same values and replies.
LEMMA SameValues ==
  /\ Abstract!Nil = Nil
  /\ \A v : Abstract!Err(v) = Err(v) /\ Abstract!Num(v) = Num(v) /\ Abstract!Text(v) = Text(v)
            /\ Abstract!Arr(v) = Arr(v) /\ Abstract!Str(v) = Str(v) /\ Abstract!ZSet(v) = ZSet(v)
  /\ \A z, n, s : Abstract!ZAdd(z, n, s) = ZAdd(z, n, s)
  /\ \A z, n : /\ Abstract!ZAdded(z, n) = ZAdded(z, n) /\ Abstract!ZPop(z, n) = ZPop(z, n)
               /\ Abstract!ZPopped(z, n) = ZPopped(z, n) /\ Abstract!ZScore(z, n) = ZScore(z, n)
               /\ Abstract!Deadline(z, n) = Deadline(z, n)
               /\ Abstract!Remaining(z, n) = Remaining(z, n)
<1>1. /\ Abstract!Nil = Nil
      /\ \A v : Abstract!Err(v) = Err(v) /\ Abstract!Num(v) = Num(v) /\ Abstract!Text(v) = Text(v)
                /\ Abstract!Arr(v) = Arr(v) /\ Abstract!Str(v) = Str(v) /\ Abstract!ZSet(v) = ZSet(v)
  BY DEF Abstract!Nil, Nil, Abstract!Err, Err, Abstract!Num, Num, Abstract!Text, Text,
     Abstract!Arr, Arr, Abstract!Str, Str, Abstract!ZSet, ZSet
<1>2. \A z, n, s : Abstract!ZAdd(z, n, s) = ZAdd(z, n, s)
  BY DEF Abstract!ZAdd, ZAdd
<1>3. \A z, n : Abstract!ZAdded(z, n) = ZAdded(z, n) /\ Abstract!ZPopped(z, n) = ZPopped(z, n)
  BY DEF Abstract!ZAdded, ZAdded, Abstract!ZPopped, ZPopped, Abstract!Num, Num
<1>4. \A z, n : Abstract!ZPop(z, n) = ZPop(z, n)
  BY DEF Abstract!ZPop, ZPop, Abstract!Restrict, Restrict
<1>5. \A z, n : Abstract!ZScore(z, n) = ZScore(z, n)
  BY DEF Abstract!ZScore, ZScore, Abstract!Dbl, Dbl, Abstract!Nil, Nil
<1>6. \A z, n : Abstract!Deadline(z, n) = Deadline(z, n)
  BY DEF Abstract!Deadline, Deadline
<1>7. \A z, n : Abstract!Remaining(z, n) = Remaining(z, n)
  BY DEF Abstract!Remaining, Remaining
<1>. QED
  BY <1>1, <1>2, <1>3, <1>4, <1>5, <1>6, <1>7

\* A string is not a sorted set.
LEMMA TypeSeen ==
  ASSUME Inv, NEW k \in Keys
  PROVE  /\ Found(k) <=> Holds(k, "str") \/ Holds(k, "zset")
         /\ ~(Holds(k, "str") /\ Holds(k, "zset"))
         /\ Found(k) => k \in Present /\ [i \in Present |-> obj[db[i]]][k] = obj[db[k]]
<1>1. \A x \in Value : x.type \in {"str", "zset"}
  BY DEF Value, Str, ZSet
<1>2. Found(k) => obj[db[k]].type \in {"str", "zset"}
  BY <1>1, Content
<1>3. Found(k) => k \in Present
  BY DEF Present
<1>. QED
  BY <1>2, <1>3 DEF Holds

LEMMA GetMaps == ASSUME NEW k \in Keys, DoGet(k) PROVE Abstract!KGet(k)
  BY KeysSeen, AnswerMaps, SameValues DEF DoGet, Abstract!KGet, Holds, Present

LEMMA SetMaps ==
  ASSUME Inv, NEW k \in Keys, NEW v \in Vals, DoSet(k, v)
  PROVE  Abstract!KSet(k, v)
<1>1. CASE Holds(k, "zset") /\ Answer(Err("type"))
  BY <1>1, KeysSeen, AnswerMaps, SameValues DEF Abstract!KSet
<1>2. CASE pc = "io" /\ ~Found(k) /\ Insert(k, Str(v)) /\ reply' = Nil
  <2>1. Abstract!Store(k, Str(v)) /\ pc' = "io"
    BY <1>2, InsertMaps DEF Insert, local
  <2>. QED
    BY <1>2, <2>1, KeysSeen, SameValues DEF Abstract!KSet, Holds
<1>3. CASE pc = "io" /\ Holds(k, "str") /\ Overwrite(k, Str(v)) /\ reply' = Nil
  <2>1. Abstract!Store(k, Str(v)) /\ pc' = "io"
    BY <1>3, OverwriteMaps DEF Overwrite, local, Holds
  <2>. QED
    BY <1>3, <2>1, KeysSeen, TypeSeen, SameValues DEF Abstract!KSet
<1>. QED
  BY <1>1, <1>2, <1>3 DEF DoSet

\* pexpire changes the deadline of its key and of no other one.
LEMMA ExpireMaps ==
  ASSUME Inv, NEW k \in Keys, NEW ms \in Ttls, DoExpire(k, ms)
  PROVE  Abstract!KExpire(k, ms)
<1> USE EntryAssumption
<1>1. CASE ~Found(k) /\ Answer(Num(0))
  BY <1>1, KeysSeen, AnswerMaps, SameValues DEF Abstract!KExpire
<1>2. CASE /\ pc = "io" /\ Found(k) /\ EntrySetTtl(db[k], ms) /\ reply' = Num(1)
           /\ UNCHANGED <<db, obj, handed, local, now>>
  <2>1. Present' = Present /\ k \in Present /\ UNCHANGED <<db, obj, now, pc>>
    BY <1>2 DEF Present, Found, local
  <2>2. \A i \in Present : db[i] = db[k] => i = k
    BY <1>2 DEF Present, Found, Inv, OneOwner
  <2>3. [i \in Present |-> obj[db[i]]]' = [i \in Present |-> obj[db[i]]]
    BY <2>1
  <2>4. CASE ms < 0
    <3>1. heap' = [e \in DOMAIN heap \ {db[k]} |-> heap[e]]
      BY <1>2, <2>4 DEF EntrySetTtl, Restrict
    <3>2. Timed' = Timed \ {k}
      BY <2>1, <2>2, <3>1 DEF Timed
    <3>3. \A i \in Timed' : heap'[db'[i]] = heap[db[i]] /\ i \in Timed
      BY <2>1, <2>2, <3>1, <3>2 DEF Timed
    <3>4. [i \in Timed |-> heap[db[i]]]' = [i \in Timed \ {k} |-> [j \in Timed |-> heap[db[j]]][i]]
      BY <3>2, <3>3
    <3>5. [i \in Timed |-> heap[db[i]]]' = Restrict([j \in Timed |-> heap[db[j]]], Timed \ {k})
      BY <3>4 DEF Restrict
    <3>. QED
      BY <1>2, <2>1, <2>3, <2>4, <3>5, KeysSeen, SameValues
      DEF Abstract!KExpire, Timed, Abstract!Restrict, Restrict
  <2>5. CASE ~(ms < 0)
    <3>1. heap' = [e \in DOMAIN heap \cup {db[k]} |->
                     IF e = db[k] THEN Deadline(now, ms) ELSE heap[e]]
      BY <1>2, <2>5 DEF EntrySetTtl
    <3>2. Timed' = Timed \cup {k}
      BY <2>1, <2>2, <3>1 DEF Timed
    <3>3. \A i \in Timed' : heap'[db'[i]] = IF i = k THEN Deadline(now, ms) ELSE heap[db[i]]
      BY <2>1, <2>2, <3>1, <3>2 DEF Timed
    <3>4. [i \in Timed |-> heap[db[i]]]' =
             [i \in Timed \cup {k} |-> IF i = k THEN Deadline(now, ms)
                                       ELSE [j \in Timed |-> heap[db[j]]][i]]
      BY <3>2, <3>3
    <3>. QED
      BY <1>2, <2>1, <2>3, <2>5, <3>4, KeysSeen, SameValues DEF Abstract!KExpire, Timed
  <2>. QED
    BY <2>4, <2>5
<1>. QED
  BY <1>1, <1>2 DEF DoExpire

LEMMA TtlMaps == ASSUME NEW k \in Keys, DoTtl(k) PROVE Abstract!KTtl(k)
<1>1. CASE Found(k) /\ db[k] \in DOMAIN heap /\ Answer(Num(Remaining(heap[db[k]], now)))
  <2>1. k \in Timed /\ [i \in Timed |-> heap[db[i]]][k] = heap[db[k]]
    BY <1>1 DEF Timed, Present
  <2>. QED
    BY <1>1, <2>1, AnswerMaps, SameValues DEF Abstract!KTtl, Timed
<1>. QED
  BY <1>1, KeysSeen, AnswerMaps, SameValues DEF DoTtl, Abstract!KTtl, Present

LEMMA ZaddMaps ==
  ASSUME Inv, NEW k \in Keys, NEW n \in Names, NEW s \in Scores, DoZadd(k, n, s)
  PROVE  Abstract!KZadd(k, n, s)
<1>1. CASE Holds(k, "str") /\ Answer(Err("type"))
  BY <1>1, KeysSeen, AnswerMaps, SameValues DEF Abstract!KZadd
<1>2. CASE /\ pc = "io" /\ ~Found(k) /\ reply' = Num(1)
           /\ Insert(k, ZSet(ZAdd([m \in {} |-> s], n, s)))
  <2>1. [m \in {} |-> s] = <<>> /\ ZAdded(<<>>, n) = Num(1)
    <3>1. [m \in {} |-> s] = <<>>
      OBVIOUS
    <3>2. n \notin DOMAIN [m \in {} |-> s]
      OBVIOUS
    <3>. QED
      BY <3>1, <3>2 DEF ZAdded
  <2>2. Abstract!Store(k, ZSet(ZAdd(<<>>, n, s))) /\ pc' = "io"
    BY <1>2, <2>1, InsertMaps DEF Insert, local
  <2>3. ~Abstract!Exists(k) /\ ~Abstract!IsOf(k, "str")
    BY <1>2, KeysSeen DEF Holds
  <2>4. /\ Abstract!ZSet(Abstract!ZAdd(<<>>, n, s)) = ZSet(ZAdd(<<>>, n, s))
        /\ Abstract!ZAdded(<<>>, n) = Num(1)
    BY <2>1, SameValues
  <2>5. ReplySeen' = Num(1)
    BY <1>2, <2>2 DEF ReplySeen
  <2>. QED
    BY <2>2, <2>3, <2>4, <2>5, SameValues DEF Abstract!KZadd, Abstract!Store, ReplySeen
<1>3. CASE /\ pc = "io" /\ Holds(k, "zset") /\ reply' = ZAdded(obj[db[k]].zset, n)
           /\ Overwrite(k, ZSet(ZAdd(obj[db[k]].zset, n, s)))
  <2>1. PICK z : z = obj[db[k]].zset
    OBVIOUS
  <2>2. Found(k) /\ pc' = "io" /\ Overwrite(k, ZSet(ZAdd(z, n, s)))
    BY <1>3, <2>1 DEF Overwrite, local, Holds
  <2>3. Abstract!Store(k, ZSet(ZAdd(z, n, s)))
    BY <1>3, <2>2, OverwriteMaps
  <2>4. Abstract!Exists(k) /\ ~Abstract!IsOf(k, "str")
    BY <1>3, <2>2, KeysSeen, TypeSeen
  <2>5. [i \in Present |-> obj[db[i]]][k].zset = z
    BY <2>1, <2>2, TypeSeen
  <2>6. /\ Abstract!ZSet(Abstract!ZAdd(z, n, s)) = ZSet(ZAdd(z, n, s))
        /\ Abstract!ZAdded(z, n) = ZAdded(z, n)
    BY SameValues
  <2>7. ReplySeen' = ZAdded(z, n)
    BY <1>3, <2>1, <2>2 DEF ZAdded, ReplySeen
  <2>. QED
    BY <2>3, <2>4, <2>5, <2>6, <2>7, SameValues
    DEF Abstract!KZadd, Abstract!Store, ReplySeen
<1>. QED
  BY <1>1, <1>2, <1>3 DEF DoZadd

LEMMA ZremMaps ==
  ASSUME Inv, NEW k \in Keys, NEW n \in Names, DoZrem(k, n)
  PROVE  Abstract!KZrem(k, n)
<1>1. CASE ExpectZset(k)
  BY <1>1, KeysSeen, AnswerMaps, SameValues DEF ExpectZset, Abstract!KZrem
<1>2. CASE /\ pc = "io" /\ Holds(k, "zset") /\ reply' = ZPopped(obj[db[k]].zset, n)
           /\ Overwrite(k, ZSet(ZPop(obj[db[k]].zset, n)))
  <2>1. PICK z : z = obj[db[k]].zset
    OBVIOUS
  <2>2. Found(k) /\ pc' = "io" /\ Overwrite(k, ZSet(ZPop(z, n)))
    BY <1>2, <2>1 DEF Overwrite, local, Holds
  <2>3. Abstract!Store(k, ZSet(ZPop(z, n)))
    BY <1>2, <2>2, OverwriteMaps
  <2>4. Abstract!IsOf(k, "zset")
    BY <1>2, KeysSeen
  <2>5. [i \in Present |-> obj[db[i]]][k].zset = z
    BY <2>1, <2>2, TypeSeen
  <2>6. /\ Abstract!ZSet(Abstract!ZPop(z, n)) = ZSet(ZPop(z, n))
        /\ Abstract!ZPopped(z, n) = ZPopped(z, n)
    BY SameValues
  <2>7. ReplySeen' = ZPopped(z, n)
    BY <1>2, <2>1, <2>2 DEF ZPopped, ReplySeen
  <2>. QED
    BY <2>3, <2>4, <2>5, <2>6, <2>7, SameValues
    DEF Abstract!KZrem, Abstract!Store, ReplySeen
<1>. QED
  BY <1>1, <1>2 DEF DoZrem

LEMMA ZscoreMaps ==
  ASSUME Inv, NEW k \in Keys, NEW n \in Names, DoZscore(k, n)
  PROVE  Abstract!KZscore(k, n)
<1>1. CASE ExpectZset(k)
  BY <1>1, KeysSeen, AnswerMaps, SameValues DEF ExpectZset, Abstract!KZscore
<1>2. CASE Holds(k, "zset") /\ Answer(ZScore(obj[db[k]].zset, n))
  BY <1>2, KeysSeen, TypeSeen, AnswerMaps, SameValues DEF Abstract!KZscore, Holds
<1>. QED
  BY <1>1, <1>2 DEF DoZscore

\* A key vanishes with its deadline when its entry is detached.
LEMMA DetachMaps ==
  ASSUME Inv, NEW k \in Keys, Found(k), NEW caller, Detach(k, caller)
  PROVE  Abstract!Vanish(k)
<1> USE EntryAssumption DEF Detach
<1>1. Present' = Present \ {k} /\ Timed' = Timed \ {k}
  BY DEF Present, Found, Timed, Inv, TypeOK
<1>2. \A i \in Present \ {k} : db'[i] = db[i]
  BY DEF Present, Inv, TypeOK
<1>3. [i \in Present |-> obj[db[i]]]' = Restrict([i \in Present |-> obj[db[i]]], Present \ {k})
  BY <1>1, <1>2 DEF Restrict
<1>4. [i \in Timed |-> heap[db[i]]]' = Restrict([i \in Timed |-> heap[db[i]]], Timed \ {k})
  BY <1>1, <1>2 DEF Restrict, Timed
<1>. QED
  BY <1>3, <1>4 DEF Abstract!Vanish, Timed, Abstract!Restrict, Restrict

\* A step that keeps the keys, the contents of their entries and their
\* deadlines is not seen by a client.
LEMMA Unseen ==
  ASSUME UNCHANGED <<db, now>>,
         \A k \in Present : /\ obj'[db[k]] = obj[db[k]]
                            /\ db[k] \in DOMAIN heap' <=> db[k] \in DOMAIN heap
                            /\ db[k] \in DOMAIN heap => heap'[db[k]] = heap[db[k]],
         UNCHANGED ReplySeen
  PROVE  UNCHANGED Abstract!kvVars
<1>1. Present' = Present /\ Timed' = Timed
  BY DEF Present, Found, Timed
<1>2. [i \in Present |-> obj[db[i]]]' = [i \in Present |-> obj[db[i]]]
  BY <1>1
<1>3. [i \in Timed |-> heap[db[i]]]' = [i \in Timed |-> heap[db[i]]]
  BY <1>1 DEF Timed
<1>. QED
  BY <1>2, <1>3, SameValues DEF Abstract!kvVars, Timed, ReplySeen

LEMMA ClearTtlMaps == ASSUME Inv, ClearTtl PROVE UNCHANGED Abstract!kvVars
<1>1. heap' = [e \in DOMAIN heap \ {doomed} |-> heap[e]]
  BY DEF ClearTtl, EntrySetTtl, Restrict
<1>2. \A k \in Present : db[k] # doomed
  BY EntryAssumption DEF Inv, OneOwner, Present, Found, Reachable
<1>. QED
  BY <1>1, <1>2, Unseen DEF ClearTtl, ReplySeen

LEMMA DisposeMaps == ASSUME Inv, Dispose PROVE UNCHANGED Abstract!kvVars
<1>1. \A k \in Present : db[k] # doomed /\ db[k] \in Entries
  BY DEF Inv, TypeOK, OneOwner, Present, Found, Reachable
<1>2. \A k \in Present : obj'[db[k]] = obj[db[k]]
  BY <1>1 DEF Dispose, Inv, TypeOK
<1>3. UNCHANGED ReplySeen
  BY DEF Dispose, Return, Leave, ReplySeen
<1>4. UNCHANGED <<db, heap, now>>
  BY DEF Dispose, Return
<1>. QED
  BY <1>2, <1>3, <1>4, Unseen

LEMMA EntryDelAsyncMaps ==
  ASSUME Inv, NEW e \in Entries, EntryDelAsync(e)
  PROVE  UNCHANGED Abstract!kvVars
<1>1. \A k \in Present : db[k] # e /\ db[k] \in Entries
  BY DEF EntryDelAsync, Inv, TypeOK, OneOwner, Present, Found, Reachable
<1>2. \A k \in Present : obj'[db[k]] = obj[db[k]]
  BY <1>1 DEF EntryDelAsync, Inv, TypeOK
<1>. QED
  BY <1>2, Unseen DEF EntryDelAsync, local, ReplySeen

LEMMA DelMaps == ASSUME Inv, NEW k \in Keys, DoDel(k) PROVE Abstract!KDel(k)
<1>1. CASE ~Found(k) /\ Answer(Num(0))
  BY <1>1, KeysSeen, AnswerMaps, SameValues DEF Abstract!KDel
<1>2. CASE pc = "io" /\ Found(k) /\ Detach(k, "io")
  BY <1>2, KeysSeen, DetachMaps, SameValues DEF Abstract!KDel, Detach
<1>. QED
  BY <1>1, <1>2 DEF DoDel

\* The entry that process_timers detaches belongs to the key that is due.
LEMMA PopDueMaps == ASSUME Inv, PopDue PROVE \E k \in Keys : Abstract!KTimeout(k)
<1>1. PICK k \in Keys : db[k] \in Due /\ Detach(k, "timers")
  BY DEF PopDue
<1>2. Found(k) /\ k \in Timed
  BY <1>1, EntryAssumption DEF Due, Roots, Inv, TypeOK, Found, Present, Timed
<1>3. heap[db[k]] < now + MS
  <2>1. heap[db[k]] \in Nat /\ heap[db[k]] < limit
    BY <1>1 DEF Due, Roots, Inv, TypeOK
  <2>. QED
    BY <2>1, TtlAssumption DEF Inv, TypeOK, LimitRead
<1>4. \A i \in Timed : heap[db[k]] <= heap[db[i]]
  BY <1>1 DEF Due, Roots, Timed
<1>5. Abstract!Vanish(k)
  BY <1>1, <1>2, DetachMaps
<1>6. UNCHANGED ReplySeen
  BY <1>1 DEF PopDue, Detach, ReplySeen
<1>. QED
  BY <1>2, <1>3, <1>4, <1>5, <1>6, SameValues
  DEF Abstract!KTimeout, Timed, ReplySeen

LEMMA TickMaps == ASSUME Tick PROVE Abstract!KTick
  BY SameValues DEF Tick, Abstract!KTick, data, local, Present, Found

LEMMA KeysMaps == ASSUME DoKeys PROVE Abstract!KKeys
  BY AnswerMaps, SameValues DEF DoKeys, Abstract!KKeys, Present

LEMMA RejectMaps == ASSUME Reject PROVE Abstract!KReject
  BY AnswerMaps, SameValues DEF Reject, Abstract!KReject

LEMMA RoundMaps ==
  ASSUME StartTimers \/ EndTimers \/ UNCHANGED vars
  PROVE  UNCHANGED Abstract!kvVars
<1>1. UNCHANGED <<db, heap, obj, now>>
  BY DEF StartTimers, EndTimers, data, vars
<1>2. UNCHANGED ReplySeen
  BY DEF StartTimers, EndTimers, Leave, vars, ReplySeen
<1>. QED
  BY <1>1, <1>2, Unseen

LEMMA CommandMaps == ASSUME Inv, NEW k \in Keys, Command(k) PROVE Abstract!KNext
  BY GetMaps, SetMaps, DelMaps, TtlMaps, ExpireMaps, ZaddMaps, ZremMaps, ZscoreMaps
  DEF Command, Abstract!KNext

LEMMA NextMaps == Inv /\ [Next]_vars => [Abstract!KNext]_(Abstract!kvVars)
<1> SUFFICES ASSUME Inv, [Next]_vars PROVE Abstract!KNext \/ UNCHANGED Abstract!kvVars
  OBVIOUS
<1>1. CASE DoKeys \/ Reject \/ Tick
  BY <1>1, KeysMaps, RejectMaps, TickMaps DEF Abstract!KNext
<1>2. CASE PopDue
  BY <1>2, PopDueMaps DEF Abstract!KNext
<1>3. ASSUME NEW k \in Keys, Command(k) PROVE Abstract!KNext
  BY <1>3, CommandMaps
<1>. QED
  BY <1>1, <1>2, <1>3, RoundMaps, ClearTtlMaps, DisposeMaps, EntryDelAsyncMaps
  DEF Next, Timers

-----------------------------------------------------------------------------
(* The theorems *)

\* The key space, the heap and the entries keep their types.
THEOREM TypesHold == Spec => []TypeOK
  BY InvHolds, PTL DEF Inv

\* Every Entry has one owner and is freed by it: nothing is leaked, freed
\* twice, or freed by a worker while a command can still find it.
THEOREM Ownership == Spec => []OneOwner
  BY InvHolds, PTL DEF Inv

\* The TTL heap never refers to an entry that was freed or handed over.
THEOREM HeapSafety == Spec => []HeapRefsLive
  BY InvHolds, PTL DEF Inv

\* Only process_timers detaches an entry outside commands, the earliest one
\* first and none before the last millisecond of its TTL.
THEOREM Expiry == Spec => ExpireEarliestFirst
<1>1. ASSUME Inv, [Next]_vars, NEW e \in Entries, pc = "timers",
             e \in Reachable, e \notin Reachable'
      PROVE  /\ e \in DOMAIN heap /\ heap[e] < now + MS
             /\ \A i \in DOMAIN heap : heap[e] <= heap[i]
  <2>1. db' # db
    BY <1>1 DEF Reachable
  <2>2. PopDue
    BY <1>1, <2>1 DEF Next, Timers, Command, DoGet, DoTtl, DoSet, DoExpire, DoDel, DoZadd,
       DoZrem, DoZscore, ExpectZset, Answer, DoKeys, Reject, StartTimers, EndTimers,
       ClearTtl, Dispose, EntryDelAsync, Tick, data, vars
  <2>3. PICK k \in Keys : db[k] \in Due /\ Detach(k, "timers")
    BY <2>2 DEF PopDue
  <2>4. e = db[k]
    BY <1>1, <2>3 DEF Detach, Inv, TypeOK, Reachable
  <2>5. e \in DOMAIN heap /\ heap[e] < limit /\ \A i \in DOMAIN heap : heap[e] <= heap[i]
    BY <2>3, <2>4 DEF Due, Roots
  <2>6. heap[e] \in Nat /\ limit \in Nat /\ limit <= now + MS /\ now + MS \in Nat
    BY <1>1, <2>5, TtlAssumption DEF Inv, TypeOK, LimitRead
  <2>. QED
    BY <2>5, <2>6
<1>2. Inv /\ [Next]_vars =>
         \A e \in Entries :
            (pc = "timers" /\ e \in Reachable /\ e \notin Reachable') =>
                /\ e \in DOMAIN heap /\ heap[e] < now + MS
                /\ \A i \in DOMAIN heap : heap[e] <= heap[i]
  BY <1>1
<1>. QED
  BY <1>2, InvHolds, PTL DEF Spec, ExpireEarliestFirst

\* The hash map, the entries, the heap, the three steps of a deletion and the
\* worker threads together behave as the map of KvStore: every command and
\* every expiry is one step of it, and the other steps are not seen.
THEOREM Refines == Spec => ImplementsKvStore
<1>1. Init => Abstract!KInit
  BY InitMaps
<1>. QED
  BY <1>1, NextMaps, InvHolds, PTL DEF Spec, ImplementsKvStore, Abstract!KSpec
=============================================================================
