------------------------------ MODULE Keyspace ------------------------------
(***************************************************************************)
(* The key space of server/14/14_server.cpp: the hash map g_data.db, the   *)
(* TTL heap g_data.heap, the Entry objects both point to, and the large    *)
(* entries that were handed to the thread pool for destruction.            *)
(*                                                                         *)
(* The event loop (thread Main) alternates between executing commands      *)
(* ("io") and process_timers ("timers").  Deleting an entry takes three    *)
(* steps of the event loop -- detach it from db, remove it from the heap,  *)
(* free it or hand it over -- while the workers run.  The map and the heap *)
(* are used through what they promise (modules HashTable and TtlHeap), the *)
(* pool through what it promises (module JobQueue).                        *)
(***************************************************************************)
EXTENDS KvValues

CONSTANTS Entries,  \* the addresses an Entry can be allocated at
          None,     \* a null pointer, a freed object
          Large,    \* k_large_container_size
          MaxWorks, \* k_max_works
          MaxTime   \* bound: the clock stops there

ASSUME EntryAssumption == None \notin Entries /\ None \notin Value

ASSUME LimitAssumption == Large \in Nat /\ MaxWorks \in Nat /\ MaxTime \in Nat

VARIABLES db,       \* g_data.db: the entry each key maps to, or None
          heap,     \* g_data.heap: the entries with a TTL and their deadlines
          obj,      \* the content of every allocated entry, None when freed
          handed,   \* entries given to thread_pool_queue and not yet destroyed
          pc,       \* where the event loop is
          doomed,   \* the argument of entry_del in progress, or None
          ret,      \* where entry_del returns to
          limit,    \* now_us of process_timers
          nworks,   \* TTLs handled by this call of process_timers
          now,      \* get_monotonic_usec()
          reply     \* the last reply

vars == <<db, heap, obj, handed, pc, doomed, ret, limit, nworks, now, reply>>

data  == <<db, heap, obj, handed>>
local == <<pc, doomed, ret, limit, nworks>>

Init == /\ db = [k \in Keys |-> None]
        /\ heap = [e \in {} |-> 0]
        /\ obj = [e \in Entries |-> None]
        /\ handed = {}
        /\ pc = "io" /\ doomed = None /\ ret = "io"
        /\ limit = 0 /\ nworks = 0
        /\ now = 0
        /\ reply = Nil

\* hm_lookup, and the test of the entry's type that follows it.
Found(k)     == db[k] # None
Holds(k, type) == Found(k) /\ obj[db[k]].type = type

-----------------------------------------------------------------------------
(* Commands, each executed by one call of do_request *)

Answer(r) == pc = "io" /\ reply' = r /\ UNCHANGED <<data, local, now>>

\* new Entry and hm_insert; the allocator may return any free address.
Insert(k, x) == \E e \in Entries :
                   /\ obj[e] = None
                   /\ obj' = [obj EXCEPT ![e] = x]
                   /\ db' = [db EXCEPT ![k] = e]
                   /\ UNCHANGED <<heap, handed, local, now>>

Overwrite(k, x) == /\ obj' = [obj EXCEPT ![db[k]] = x]
                   /\ UNCHANGED <<db, heap, handed, local, now>>

\* Mutant of DoSet: the type of the existing entry is not looked at.
DoSet_NoType(k, v) == /\ pc = "io"
                      /\ \/ ~Found(k) /\ Insert(k, Str(v))
                         \/ Found(k) /\ Overwrite(k, Str(v))
                      /\ reply' = Nil

DoSet(k, v) == \/ Holds(k, "zset") /\ Answer(Err("type"))
               \/ /\ pc = "io"
                  /\ \/ ~Found(k) /\ Insert(k, Str(v))
                     \/ Holds(k, "str") /\ Overwrite(k, Str(v))
                  /\ reply' = Nil

DoGet(k) == \/ ~Found(k) /\ Answer(Nil)
            \/ Holds(k, "zset") /\ Answer(Err("type"))
            \/ Holds(k, "str") /\ Answer(Text(obj[db[k]].val))

\* entry_set_ttl: a negative TTL takes the entry off the heap.
EntrySetTtl(e, ms) ==
    heap' = IF ms < 0 THEN Restrict(heap, DOMAIN heap \ {e})
            ELSE [i \in DOMAIN heap \cup {e} |-> IF i = e THEN Deadline(now, ms) ELSE heap[i]]

DoExpire(k, ms) ==
    \/ ~Found(k) /\ Answer(Num(0))
    \/ /\ pc = "io"
       /\ Found(k)
       /\ EntrySetTtl(db[k], ms)
       /\ reply' = Num(1)
       /\ UNCHANGED <<db, obj, handed, local, now>>

DoTtl(k) == \/ ~Found(k) /\ Answer(Num(-2))
            \/ Found(k) /\ db[k] \notin DOMAIN heap /\ Answer(Num(-1))
            \/ /\ Found(k) /\ db[k] \in DOMAIN heap
               /\ Answer(Num(Remaining(heap[db[k]], now)))

DoKeys == Answer(Arr({k \in Keys : Found(k)}))

DoZadd(k, n, s) ==
    \/ Holds(k, "str") /\ Answer(Err("type"))
    \/ /\ pc = "io"
       /\ \/ /\ ~Found(k)
             /\ Insert(k, ZSet(ZAdd([m \in {} |-> s], n, s)))
             /\ reply' = Num(1)
          \/ /\ Holds(k, "zset")
             /\ Overwrite(k, ZSet(ZAdd(obj[db[k]].zset, n, s)))
             /\ reply' = ZAdded(obj[db[k]].zset, n)

\* expect_zset: a missing key is nil, a string is an error.
ExpectZset(k) == \/ ~Found(k) /\ Answer(Nil)
                 \/ Holds(k, "str") /\ Answer(Err("type"))

DoZrem(k, n) == \/ ExpectZset(k)
                \/ /\ pc = "io"
                   /\ Holds(k, "zset")
                   /\ Overwrite(k, ZSet(ZPop(obj[db[k]].zset, n)))
                   /\ reply' = ZPopped(obj[db[k]].zset, n)

DoZscore(k, n) == \/ ExpectZset(k)
                  \/ Holds(k, "zset") /\ Answer(ZScore(obj[db[k]].zset, n))

\* A request with an unknown name or with arguments that do not parse.
Reject == \E c \in {"unknown", "arg"} : Answer(Err(c))

\* hm_pop and the call of entry_del on the entry it returns.
Detach(k, caller) == /\ db' = [db EXCEPT ![k] = None]
                     /\ doomed' = db[k]
                     /\ ret' = caller
                     /\ pc' = "clear"
                     /\ UNCHANGED <<heap, obj, handed, now, reply>>

DoDel(k) == \/ ~Found(k) /\ Answer(Num(0))
            \/ /\ pc = "io"
               /\ Found(k)
               /\ Detach(k, "io")
               /\ UNCHANGED <<limit, nworks>>

-----------------------------------------------------------------------------
(* process_timers *)

\* The clock is read once, with a slack of one millisecond.
StartTimers == /\ pc = "io"
               /\ pc' = "timers"
               /\ limit' = now + MS
               /\ UNCHANGED <<data, doomed, ret, nworks, now, reply>>

\* Mutant of Roots: a new deadline does not move its item, any may be the root.
Roots_Any == DOMAIN heap

\* The entries heap[0] may be: a tie is broken by the shape of the heap.
Roots == {e \in DOMAIN heap : \A i \in DOMAIN heap : heap[e] <= heap[i]}

Due == {e \in Roots : heap[e] < limit}

\* Mutant of PopDue: the entry is deleted but stays in the hash map.
PopDue_NoPop == /\ pc = "timers"
                /\ \E k \in Keys : /\ db[k] \in Due
                                   /\ doomed' = db[k]
                /\ ret' = "timers"
                /\ pc' = "clear"
                /\ UNCHANGED <<data, now, reply, limit, nworks>>

\* One round of the TTL loop: hm_pop finds the entry by its address.
PopDue == /\ pc = "timers"
          /\ \E k \in Keys : db[k] \in Due /\ Detach(k, "timers")
          /\ UNCHANGED <<limit, nworks>>

\* The locals of process_timers go out of scope.
Leave == pc' = "io" /\ limit' = 0 /\ nworks' = 0

EndTimers == /\ pc = "timers"
             /\ Due = {}
             /\ Leave
             /\ UNCHANGED <<data, doomed, ret, now, reply>>

-----------------------------------------------------------------------------
(* entry_del *)

\* Mutant of ClearTtl: the TTL of an entry that is deleted by del stays.
ClearTtl_TimersOnly == /\ pc = "clear"
                       /\ IF ret = "timers" THEN EntrySetTtl(doomed, -1)
                          ELSE UNCHANGED heap
                       /\ pc' = "dispose"
                       /\ UNCHANGED <<db, obj, handed, doomed, ret, limit, nworks, now, reply>>

ClearTtl == /\ pc = "clear"
            /\ EntrySetTtl(doomed, -1)
            /\ pc' = "dispose"
            /\ UNCHANGED <<db, obj, handed, doomed, ret, limit, nworks, now, reply>>

TooBig(x) == x.type = "zset" /\ Cardinality(DOMAIN x.zset) > Large

\* The loop of process_timers goes on unless MaxWorks TTLs were handled
\* before this one (nworks++ >= k_max_works).
Return == /\ doomed' = None
          /\ \/ /\ ret = "io"
                /\ pc' = "io"
                /\ reply' = Num(1)
                /\ UNCHANGED <<limit, nworks>>
             \/ /\ ret = "timers"
                /\ nworks < MaxWorks
                /\ pc' = "timers"
                /\ nworks' = nworks + 1
                /\ UNCHANGED <<limit, reply>>
             \/ /\ ret = "timers"
                /\ nworks >= MaxWorks
                /\ Leave
                /\ UNCHANGED reply
          /\ UNCHANGED <<ret, now>>

Dispose == /\ pc = "dispose"
           /\ \/ /\ TooBig(obj[doomed])
                 /\ handed' = handed \cup {doomed}
                 /\ UNCHANGED obj
              \/ /\ ~TooBig(obj[doomed])
                 /\ obj' = [obj EXCEPT ![doomed] = None]
                 /\ UNCHANGED handed
           /\ UNCHANGED <<db, heap>>
           /\ Return

\* A worker runs entry_destroy on an entry of the queue.
EntryDelAsync(e) == /\ e \in handed
                    /\ handed' = handed \ {e}
                    /\ obj' = [obj EXCEPT ![e] = None]
                    /\ UNCHANGED <<db, heap, local, now, reply>>

Tick == /\ now < MaxTime
        /\ now' = now + 1
        /\ UNCHANGED <<data, local, reply>>

-----------------------------------------------------------------------------

Command(k) == \/ DoGet(k) \/ DoDel(k) \/ DoTtl(k)
              \/ \E v \in Vals : DoSet(k, v)
              \/ \E ms \in Ttls : DoExpire(k, ms)
              \/ \E n \in Names : \/ DoZrem(k, n) \/ DoZscore(k, n)
                                  \/ \E s \in Scores : DoZadd(k, n, s)

Timers == PopDue \/ EndTimers \/ ClearTtl \/ Dispose

Next == \/ \E k \in Keys : Command(k)
        \/ DoKeys \/ Reject
        \/ StartTimers \/ Timers
        \/ \E e \in Entries : EntryDelAsync(e)
        \/ Tick

Spec == Init /\ [][Next]_vars

\* main() calls process_timers once per iteration, after a finite number of
\* commands: strong, because a del makes the loop leave "io" for a while.
FairSpec == /\ Spec
            /\ SF_vars(StartTimers)
            /\ WF_vars(Timers)
            /\ WF_vars(Tick)

-----------------------------------------------------------------------------

\* Types of the key space, the heap and the objects.
TypeOK == /\ db \in [Keys -> Entries \cup {None}]
          /\ DOMAIN heap \subseteq Entries /\ \A e \in DOMAIN heap : heap[e] \in Nat
          /\ obj \in [Entries -> Value \cup {None}]
          /\ handed \subseteq Entries
          /\ pc \in {"io", "timers", "clear", "dispose"}
          /\ doomed \in Entries \cup {None}
          /\ ret \in {"io", "timers"}
          /\ limit \in Nat /\ nworks \in Nat /\ now \in Nat

Reachable == {db[k] : k \in Keys} \ {None}

Live == {e \in Entries : obj[e] # None}

\* Each allocated entry has one owner -- the key space, the deletion in
\* progress or the thread pool -- and each owner's entries are allocated: no
\* entry is leaked, freed twice, or freed by a worker while db still has it.
OneOwner ==
    /\ \A k, l \in Keys : db[k] = db[l] /\ db[k] # None => k = l
    /\ Reachable \cap handed = {}
    /\ doomed \notin Reachable \cup handed
    /\ Live = Reachable \cup handed \cup ({doomed} \ {None})

\* The heap refers to entries of the key space and, until its TTL is cleared,
\* to the one being deleted, so container_of(heap[0].ref) is never dangling
\* and the assertion after hm_pop in process_timers holds.
HeapRefsLive ==
    DOMAIN heap \subseteq Reachable \cup (IF pc = "clear" THEN {doomed} ELSE {})

\* A timer round detaches the entry with the earliest deadline, and only when
\* that deadline is at most a millisecond away.
ExpireEarliestFirst ==
    [][\A e \in Entries :
          (pc = "timers" /\ e \in Reachable /\ e \notin Reachable') =>
              /\ e \in DOMAIN heap /\ heap[e] < now + MS
              /\ \A i \in DOMAIN heap : heap[e] <= heap[i]]_vars

Overdue(e) == e \in Reachable /\ e \in DOMAIN heap /\ heap[e] < now

\* Another key gets in front of an overdue one, by a new TTL.  As deadlines are
\* not before the clock, it takes a TTL that wraps (14_server.cpp:302).
Undercut(e) == /\ Overdue(e)
               /\ \E i \in DOMAIN heap' \ {e} :
                    /\ i \notin DOMAIN heap \/ heap[i] > heap[e]
                    /\ heap'[i] <= heap[e]

\* A key does not outlive its deadline for ever -- it expires, is deleted or gets
\* a new TTL -- although a pass of process_timers ends after k_max_works + 1 keys
\* (14_server.cpp:795) and clients create keys that are due meanwhile; unless
\* they keep putting deadlines before its own.
OverdueExpires == \A e \in Entries : \/ Overdue(e) ~> ~Overdue(e)
                                     \/ []<><<Undercut(e)>>_vars

-----------------------------------------------------------------------------
(* The key space implements the map of KvStore.  A deletion takes effect at *)
(* hm_pop; its reply, written when entry_del returns, is anticipated.       *)

Present == {k \in Keys : Found(k)}

Abstract == INSTANCE KvStore WITH
    kv    <- [k \in Present |-> obj[db[k]]],
    ttl   <- [k \in {i \in Present : db[i] \in DOMAIN heap} |-> heap[db[k]]],
    reply <- IF pc \in {"clear", "dispose"} /\ ret = "io" THEN Num(1) ELSE reply

ImplementsKvStore == Abstract!KSpec
=============================================================================
