# Verification of my-own-redis

The repository is a Redis-like server written step by step: a blocking echo
server (stage 04), an event loop (06), a key-value server (07 to 09), an AVL tree
(10), sorted sets and a typed protocol (11), idle timers (12), TTLs (13) and a
thread pool (14). `src/server/14` is the whole program and is modelled in full.
Of the earlier stages the project models what stage 14 no longer has: the
blocking server with its client, the clients that pipeline against the key-value
server, and the typed protocol seen from the prompt of its client. The programs
that stand beside the stages are modelled too: the echo server with epoll, and
two skip lists. All paths below are under `src/`; `14_server.cpp` is
`src/server/14/14_server.cpp`.

The project has TLA+ modules, TLC configurations, and proofs checked by TLAPS.
`PROJECT.json` links each definition to the lines it models and each hazard of
the code to the properties that watch it.

## 1. The system

| Component | State | Operations | Interacts with |
|---|---|---|---|
| Event loop (`main`) | `fd2conn`, `idle_list`, `poll_args` | rounds of poll, `connection_io`, `process_timers`, `accept_new_conn` | calls everything below, from one thread |
| Connection (`Conn`) | `state`, `rbuf`, `wbuf`, `idle_start` | `try_fill_buffer`, `try_one_request`, `try_flush_buffer` | socket of the client; calls `do_request` |
| Commands and key space | `g_data.db`, `g_data.heap`, the `Entry` objects | get, set, del, keys, pexpire, pttl, zadd, zrem, zscore, zquery | hash table, heap, sorted sets, thread pool |
| Hash table (`hashtable.cpp`) | `ht1`, `ht2`, `resizing_pos` | lookup, insert, pop, scan, destroy | used by the key space and by each sorted set |
| TTL heap (`heap.cpp`) | array of `HeapItem`, `heap_idx` of each `Entry` | `heap_update` | `entry_set_ttl`, `process_timers` |
| Sorted set (`zset.cpp`, `avl.cpp`) | AVL tree and hash table over the same `ZNode`s | add, update, pop, query, offset | value of an entry |
| Thread pool (`thread_pool.cpp`) | deque, mutex, condition variable, workers | `thread_pool_queue`, `worker` | event loop posts, workers destroy entries |
| Epoll echo server | `Conn` with `rbuf_remain`, what `epfd` was asked to report | `try_fill_buffer`, `try_one_request`, `try_flush_buffer` | socket of the client |
| Blocking server and client (04) | `connfd`; what is left of a `read_full` or `write_all` | `one_request`, `query`, `accept` | each other, over two byte streams |
| Event loop server and clients (06, 07) | `fd2conn`, `rbuf`, `wbuf`, `g_map` | a round of `poll`, `connection_io`; all `send_req`, then all `read_res` | several clients, one map |
| Typed protocol (11) | `g_data.db`, a request or a response | `parse_req`, `do_request`, the `out_` functions; `send_req`, `on_response` | the client of stage 11 |
| Skip list of Redis (`skiplist.cpp`) | nodes with levels, spans and `backward`; `zsl` | create, insert, delete, free | nothing |
| Skip list (`LC-sliplist.cpp`) | nodes, `currentLevel` | add, search, erase | nothing |

### What is hard, and what makes each part correct

* **Thread pool.** Workers and the event loop meet at a mutex and a condition
  variable with spurious wakeups and stolen work. Correct: each accepted job
  runs exactly once, in the order of acceptance, and no worker sleeps on work.
* **Key space.** Deleting a large sorted set continues in another thread while
  commands run. TTLs point to entries through `container_of`. Correct: every
  entry has one owner, the heap never refers to a freed entry, TTLs fire in
  order and all of them fire, and the client sees a map with deadlines.
* **TTL heap.** Every move of an item must be written to another object.
  Correct: heap order and back references, whatever is removed.
* **Connection.** The byte streams may be cut anywhere, in both directions, and
  a response can block. Correct: requests are parsed at their boundaries,
  responses go out whole and in order, the assertions hold, and every request
  is answered.
* **Epoll echo server.** The responses of one read are gathered, and its
  buffers are moved after the flush. Correct: the echo is the stream of the
  requests, buffers suffice, assertions hold, every request is answered.
* **Event loop.** fds and `Conn` addresses are reused, the list of idle
  connections must stay ordered, and a 64-bit deadline becomes an `int`
  timeout. Correct: the tables agree, the timeout neither oversleeps nor spins,
  and the timers close no connection that poll has found ready within the idle
  timeout.
* **Hash table.** Each call does part of a rehash. Correct: it answers as a set
  in every intermediate state, the unbounded scan stays in the table, and a
  rehash is over before the next is due.
* **Sorted set.** Rotations with parent pointers, deletion of inner nodes,
  subtree sizes. Correct: order, balance, links, and the answers of range
  queries with offsets of either sign.
* **Blocking server.** One process at a time is served, both sides block, and
  the streams are cut anywhere. Correct: both streams stay at the boundaries of
  messages, and nobody waits for ever if every other process lets go.
* **Event loop server with its clients.** A client may write everything before
  it reads, a full socket blocks a response, and requests of several clients
  meet at one map. Correct: the clients together see one map, and a client whose
  replies the kernel can hold is answered.
* **Typed protocol.** The array of `zquery` gets its length after its items,
  and a reply that is too big must be replaced. Correct: the client prints the
  value the key space gives.
* **Skip lists.** Spans, backward pointers, the tail and the number of levels in
  use change with every insertion and deletion, whatever heights are drawn.
  Correct: spans are distances in rank, the links agree in both directions, and
  the list is the sorted sequence of its elements.

### How the parts are put together

Each component is modelled with what it uses replaced by what that promises,
and a module of its own shows that it keeps the promise:

```
 EventLoop --- Connection           KvStore  <= Keyspace
 (one round)   (one connection)     (a map)     |  uses
                                                +-- NodeSet   <= HashTable
                                                +-- TtlMap    <= TtlHeap
                                                +-- SortedSet <= ZSet (Avl)
                                                +-- JobQueue  <= ThreadPool

 KvService  <= PollServer (several clients)     OrderedBag <= SkipList
 TypedStore <= Protocol   (prompt to prompt)    OrderedBag <= LcSkipList
```

`A <= B` reads "B implements A", and is a PROPERTY of a run of B. `Keyspace`
does not INSTANCE the four abstractions: it uses the map, the deadlines, the
sorted sets and the set of handed-over entries they stand for.

## 2. The modules

### ThreadPool, JobQueue (`thread_pool.cpp`)

One action per call another thread can observe. `Lock`, `Wait`, `Take`,
`Unlock` and `DoWork` are the loop of `worker`; `Wait` releases `mu` and blocks
in one step, as `pthread_cond_wait` does. `QLock`, `Push`, `Signal` and
`QUnlock` are `thread_pool_queue`, `Post` the call. The wait set of `not_empty`
is the threads at `"blocked"`; `SpuriousWakeup` takes one out and `Signal` any
non-empty subset. `w` is the local `Work` of a thread, `ran` counts executions.
`JobQueue` is the promise: accepted, taken in order, finished.

### KvValues, KvStore, Keyspace (`14_server.cpp` 149-552, 784-800)

`KvValues` has what both levels share: values, the operations on a sorted set as
a map from names to scores, replies, and deadlines with the wrap of the 64-bit
sum. `KvStore` is what a client is promised: a map, a map of deadlines, and one
action per command. It is also the program of stage 13, where nothing is
destroyed asynchronously, and its definitions are mapped to stage 13.

`Keyspace` is stage 14: `db` maps keys to addresses, `obj` holds the objects,
`heap` the deadlines by address, `handed` the entries given to the pool. A
command is one action, a call of `do_request`. `entry_del` is three: `Detach`,
`ClearTtl`, `Dispose`; the workers' `EntryDelAsync` can come between any two
steps. `process_timers` is `StartTimers` (reads the clock), `PopDue` for each
TTL, and `EndTimers`. An address can be allocated again as soon as it is freed.
`zquery` changes no state and is in `ZSet`.

### TtlHeap, TtlMap (`heap.cpp`, `14_server.cpp` 280-305, 789-796)

The array, and `heap_idx` of every entry. `heap_up` and `heap_down` move items
along a path; `UpPath` and `DownPath` compute it, `Rotate` moves the items on it
and `Written` is the set of positions written back. The branches of
`entry_set_ttl` are `Arm` and `Disarm`; the last item that replaces the removed
one is sifted as in the code. `TtlMap` is the map of deadlines. The paths are
recursive functions, not RECURSIVE operators, so that they can be proved about;
likewise the walks of `LcSkipList` and the operations of `Avl` and `ZSet`.

### Connection (`14_server.cpp` 576-732)

One action per system call of a connection and per turn of its loops. Bytes are
counted and not stored: a script gives where each request of the client ends,
whether `parse_req` accepts it, and the size of its reply. `lo` and `hi` delimit
`rbuf` in the client's stream, so `memmove` is an assignment to `lo`. `pc`
distinguishes the two callers of `state_res`: `connection_io` (`"flush"`) and
`try_one_request` (`"flush_req"`), since what follows differs. The client sends
any number of bytes at a time, reads at any time, and may go away.

### EpollServer (`06server_epoll_exercise.cpp` 46-324)

One action per system call of a connection and per turn of the two loops of
`try_fill_buffer`. As a response is its request, a byte is its place in the
client's stream, in `rbuf`, `wbuf` and on the wire. `start`, `size` and `remain`
delimit `rbuf` and what is not parsed of it; `rbuf_remain`, which `accept` leaves
uninitialised, is assigned before it is read. `pc` distinguishes the three callers
of `state_res`: a request that needs room (`"make_room"`, line 136), the end of a
read (`"flush"`, 193) and `connection_io` (`"resume"`). `Wake` is an event: bytes
or the end of the stream, and nothing else, as 103 registers `EPOLLIN`. In the
middle of a message any bytes stand for a length prefix, of which `LenAt` takes
one that is refused.

### BlockingServer (`server/04/04server.cpp`, `client/04client.cpp`)

Both programs, with one action per system call: `CWrite`, `CRead`, `SRead` and
`SWrite` move any number of bytes, up to `Room` in flight in each direction.
`cleft` and `sleft` are what is left of `read_full` or `write_all`. A byte is its
place in a message (`rpos`, `cpos`); `Prefix` is the length that four bytes give,
which is the sender's if they are its prefix and any number if they are not. So
nothing in the model keeps the streams aligned but the counting of the code.
`Clients` run `04client.cpp`; `Peers` are other processes, which may send a
message that is too long or die at any step (`Close`). Who has connected waits in
`backlog`.

### KvMap, KvService, PollServer (`server/06`, `server/07`, `client/06client.cpp`)

`KvMap` has the requests of stage 07 and their replies as functions of the map.
`PollServer` is `main` with several connections: `Poll`, `Pick` (a ready fd),
`Fill`, `Parse`, `Flush` (from `try_one_request` or from `connection_io`) and
`EndRound` with `accept`. A client is `main` of `06client.cpp`: all
`send_req`, then all `read_res`, with the requests of stage 07 (whose own client
is the case of one request); those in `Mortal` may be killed. Messages are sent,
read and written whole, at most `room` in each direction in the kernel and `RBuf`
in `rbuf`; `Connection` and `BlockingServer` have them cut. `KvService` is what
clients are promised: one map, requests answered one at a time.

### Protocol, TypedStore (`server/11/11_server.cpp`, `client/11_client.cpp`)

A message is a sequence of fields with widths, so the limits on sizes are those
of the code. `Encode` is `send_req`, `ParseReq` `parse_req`; the `Out` operators
write fields, `Pack` replaces a reply that is too big, and `OnResponse` decodes
with the recursion of the client, as a function. The commands are those of
`do_request`; a sorted set is the sequence of its tuples. `SendJunk` sends a
message with a wrong count of words. `TypedStore` is the promise: command lines
in, values out.

### SkipList, LcSkipList, OrderedBag (`skiplist.cpp`, `LC-sliplist.cpp`)

Each call is one action; `Search` (`Walk` on each level) computes `update` and
`rank`, or the predecessors. The height of a new node is any. Addresses are
allocated again: the links above `zsl.level`, which nothing reads, may dangle.
`OrderedBag` is the promise of both: a sorted sequence.

### EventLoop, Activity (`14_server.cpp` 75-147, 714-885)

A round is `Build`, `PollReturn`, a call of `connection_io` for each ready fd,
`StartTimers`, `CloseIdle` for each idle connection, `ExpireKeys`, and `Accept` or
`NoAccept`.
Time passes between any two steps (`Tick`), except inside `process_timers` after
it has read the clock, where it would have no effect. `TimerMs` and `AsInt` are
the conversions of the timeout. `UInt` is the wrap of 32 bits, `MS` the ticks of
a millisecond.

A call of `connection_io` is `ConnectionIo`, which reads the clock and moves the
connection to the end of the idle list, any number of `Request`s, each of which
changes the TTL of a key, and `Served` (the connection waits for bytes or to send
them) or `Ended`. `serving` is the connection in between, and time passes there too:
nothing bounds `while (try_fill_buffer)` (679). `seen` is a history: when poll last
reported a connection as ready. `Activity` extends the module with another
one, `active`: when a connection last moved bytes (`Transfer`).

### HashTable, NodeSet (`hashtable.cpp`, `14_server.cpp` 401-423)

A call is its entry (`BeginLookup`, `BeginPop`, `Insert`), one step per round of
`hm_help_resizing` (`Skip` an empty bucket, `Move` a node) and its end. Chains
are sets: no caller sees their order. `Keys` is `do_keys`, which scans both
tables and announces `hm_size` first. `NodeSet` is the promise.

### Avl, ZSet, SortedSet (`avl.cpp`, `zset.cpp`, `14_server.cpp` 431-552)

`Avl` has the functions of `avl.cpp` as operators on a tree, a function from
nodes to records with parent, left, right, depth and cnt. Mirrored functions
are one operator with the side as a parameter. The loop of `avl_fix` is as many
rounds as there are nodes: it climbs, and a round after its end changes nothing. `ZSet` has `zset_add`,
`zset_pop` and `zset_query` on it, and `do_zquery`. `SortedSet` is the map from
names to scores and what each query answers.

### MC modules

`MCStructures` and `MCServers` extend or instantiate independent modules and put them into one run: `which` is
chosen at the start, and a behaviour is a behaviour of that module, the others
standing still.

## 3. What TLC checks

| Run | Distinct states | What it shows |
|---|---|---|
| `keys` | 404,898 | `OneOwner`, `HeapRefsLive`, `OverdueExpires`, and the key space implements `KvStore` |
| `conn` | 11,889 | `AssertsHold`, `Framing`, and `WaitingServed` for clients that do not pipeline |
| `conn_pipeline` | | a violation of `AllServed`, of clients that do: section 6 for this and the other violations |
| `epoll_refused` | | a violation of `AssertsHold` |
| `epoll_blocked` | | a violation of `AllServed` |
| `skip_level` | | a violation of `LevelIsMax` |
| `epoll_echo` | 20,594 | `EchoInOrder`, `BuffersSuffice` |
| `event_loop` | 8,467,402 | `TablesAgree`, `PolledLive`, `NoneOverdue`, `NoOversleep`, `NoSpin`, `ReadyKept` |
| `event_loop_active` | | a violation of `ActiveKept` |
| `zset_tree` | 109,522 | `InOrderSorted`, `TreeShape` |
| `structures` | 78,432 | hash table: `SizesAgree`, `ScanInBounds`, `LoadBounded`, and it implements `NodeSet`; TTL heap: `HeapShape`, and it implements `TtlMap`; sorted set: `QueriesAnswer`, and it implements `SortedSet`; skip lists: `SkipListShape`, `LevelsNested`, and both implement `OrderedBag` |
| `servers` | 136,491 | thread pool: `AtMostOnce`, `WorkConserving`, `EveryJobRuns`, and it implements `JobQueue`; blocking: `HalfDuplex`, `EveryoneServed`; event loop: `AnsweredIfRoom`, and it implements `KvService`; protocol: it implements `TypedStore` |

The run `event_loop` also checks `TypeOK`; the type invariants of the other
modules with proofs are part of the invariants proved. `MutualExclusion`, `Aligned`,
`ExpireEarliestFirst` and `NotCut` are in no run, as they are proved. Each property
of a run has a mutant in `PROJECT.json`, a plausible bug that violates it under
the same bounds.

### Bounds, and why they are enough

* `servers`, thread pool: three jobs and three workers, which are a waiter, a thief that takes
  the job the waiter was woken for, and one that is busy. `MaxSpurious` bounds
  spurious wakeups.
* `keys`: two keys and two addresses, so that one is destroyed while the other is
  in use, and is then reused, by either key. A sorted set is large
  (`Large = 0`) unless `zrem` has emptied it. The clock stops at `MaxTime = 3`; a
  millisecond has two ticks, so that deadlines fall inside one. With
  `Wrap = 16` a TTL of 7 ms (14 ticks) wraps, from tick 2 on, to a deadline one
  millisecond in the past; a TTL of 0 gives a key that expires in the next pass. One
  TTL is handled per pass (`MaxWorks = 0`), so that an overdue key is left for the
  next one, and a wrapped deadline can be put in front of it. A client that does so
  for ever keeps the overdue key alive: `OverdueExpires` excludes it by its second
  disjunct, infinitely many `Undercut`s of that key, and TLC violates the
  property without that disjunct. With more addresses or names the safety properties are proved.
* `conn_*`: the real sizes are 4 and 4096 and only their order matters, so the
  length prefix has 2 bytes (it can be cut), messages up to 4, and the socket
  takes 3 bytes. The scripts have requests of every length including empty and
  maximal, a reply too big, a malformed request and one too long.
* `epoll_*`: the same sizes. Three empty requests fill `rbuf` and `wbuf`, a
  maximal one fills either, and the third script has a message too long.
* `event_loop`: two fds and two addresses, each reused. `UInt = 8` makes TTLs of
  5 and 9 ms stand for those that become negative or wrap. `Idle = 2` ms, and
  the clock stops at tick 6, past the first idle deadline.
* `structures`, the hash table: one move per call and a load factor of one make a rehash last
  over several calls, and five keys reach the second rehash, from a table that
  a rehash made. The hash values collide in each of the three table sizes.
* `zset_tree`: twelve nodes are the fewest for which one deletion rotates twice
  on its way to the root. One score is enough as names order the tuples.
* `structures`, the TTL heap: six items are the fewest with which the last item, put
  in the place of the removed one, must move up. Four deadlines give ties and
  order. Entries are interchangeable (`VIEW UpToEntries`: a state is what refers
  to each entry and what it refers to).
* `structures`, `zquery`: four names and three scores; offsets from below the first
  to past the last tuple and limits of either parity, with equal and different
  scores.
* `structures`, the skip lists: three nodes of different heights leave
  links above `zsl->level` that refer to freed and reused addresses, which no call may
  look at (`zsl->level` stays 1, section 6, so the spans merged and split are
  those of level 0); four in the list with repetitions, so that equal numbers of different heights stand
  beside others. Addresses are interchangeable (`SYMMETRY Symm`, no liveness).
* `servers`, blocking: a client with two queries and another process, messages of
  length 0 to 2 against a limit of 1, so that one is empty, one maximal and one
  too long; two bytes in flight, less than any message, cut the prefix of two
  bytes and make writes block.
* `servers`, event loop: two clients with two requests each meet in every order; the
  three scripts set and read, clear and ask for nothing known, and end in a message that
  is refused. The kernel holds one message or two: a client that writes
  everything before it reads blocks, or does not.
* `servers`, protocol: two keys, one of which can be a sorted set of two names. With
  43 bytes for a message a reply with both names is too big, and so is one
  request. Every command meets every key space that commands can make of these.

`CHECK_DEADLOCK FALSE` is stated for the pool, which is idle when every job of
the instance has run, for a connection that is closed or has been served, and for servers whose
clients are all done.

### Fairness

* *Pool.* Weak fairness of each thread: a started thread is scheduled and the
  job function returns. The call itself is not fair, nobody has to delete a
  key. Strong fairness for the lock is not needed.
* *Key space.* `process_timers` is called in every round of the loop, after
  finitely many commands: strong fairness of `StartTimers`, as a `del` takes the
  loop away from where it may start, and weak fairness of its steps. The
  clock advances. No command is fair, and neither are the workers: that every job
  runs is `EveryJobRuns` of the pool.
* *Blocking server.* Weak fairness of the server process and of each client of
  `Clients` that has connected. Neither connecting nor the other processes are
  fair: `EveryoneServed` assumes that they let go of their connections, since
  the server has no timeout.
* *Event loop server.* Weak fairness of the server process and of each client
  outside `Mortal` that has connected.
* *Connection, epoll server.* Weak fairness of the server, since `poll` (`epoll_wait`) reports a ready fd and
  the loop serves every reported fd, and of the client's reads while it is
  connected. Sending is not fair.

## 4. What is proved

The proofs are for every value of the constants, under the named assumptions
beside them. Each goes by an inductive invariant: `Inv`, with `InitInv`, `NextInv`
(one step or lemma per action) and `InvHolds`; in the modules that prove two
systems the names have a prefix (`BInv`, `PInv` and `PoolInv`, `LcInv` and `ZslInv`). The
assumptions are evaluated by TLC in the runs.

* **`ServersProofs`, thread pool** - `PoolTypes`, `Exclusion`, `RunOnce`,
  `NoLostWakeup`, `PoolImplementsJobQueue`. `PoolInv` adds to types and mutual
  exclusion what each thread's `Work` holds at each program point: without it a job
  could be in hand and in the deque. `AtMostOnce` and `WorkConserving` are inductive
  relative to it; the second counts awake workers (`AwakeFinite`, `WakeMore`). The
  refinement maps the deque to the pending jobs; each step is a step of `JobQueue`
  or a stutter. Assumed: threads are distinct from null, workers are finitely many.
* **`KeyspaceProofs`** - `TypesHold`, `Ownership`, `HeapSafety`, `Expiry`, `Refines`. The
  invariant is `OneOwner` and `HeapRefsLive` together, with the fact that a
  deletion is in progress exactly when it has an argument, and that the limit
  of `process_timers` was read from the clock (`LimitRead`). Neither of the two
  is inductive alone: a heap reference is good because its entry is owned by the
  key space, and an entry may be freed because the heap does not refer to it.
  `Refines` is that the key space implements `KvStore`. It needs the invariant at
  every step: a new entry must not be an address the heap still has (the key
  would be born with a deadline), an overwrite must change one key only, and
  what `Dispose` and a worker free must be the value of no key.
* **`ConnectionProofs`** - `TypesHold`, `Assertions`, `Alignment`,
  `ResponseFraming`. The invariant is alignment, framing, `Control`
  (program counter, `state` and `wbuf` agree) and `Room` (`rbuf` is full only
  when it is about to be parsed). The room rests on the alignment: a full buffer
  that starts at a request boundary holds a whole request or a length that is
  refused. Assumed: the prefix and messages have positive sizes, an error reply
  fits, requests follow each other in the stream.
* **`EpollServerProofs`** - `Buffers`, `Echoes`. The invariant is that parsing is
  at the end of a request (`Aligned`), `Control`, and the room in either buffer:
  before a read `wbuf` is empty, and from then on `wbuf` and what is not parsed of
  `rbuf` together are no larger than one buffer, even if no flush writes anything.
  `Stream`, the order of the bytes, is inductive relative to it. Assumed: the
  prefix has a positive size, requests follow each other in the stream.
* **`ContainerProofs`, hash table** - `TypesHold`, `Sizes`, `Scans`, `Loads`, `Refines`. The
  invariant says that every node is in the chain of its hash value, that the
  passed buckets of `ht2` are empty, that a key whose lookup missed is in
  neither table, and bounds `Debt = ht1.size + 2 * ht2.size`: each node of `ht2`
  is moved once and each insert is followed by a move, so `Debt` stays below
  the load at which the next rehash is due. `Refines` proves that the table, in
  any state of its rehash, is a plain set. Assumed: capacities, load factor and
  work per call are positive.
* **`EventLoopProofs`** - `Types`, `SameConnections`, `NeverStale`, `HeadSuffices`,
  `WakesInTime`, `NeverSpins`, `ReportsCount`: all properties of the run. To what
  the run states `Inv` adds `Snapshot` (what is in `poll_args` is in `fd2conn` from
  `poll` on), `Service` (who is served, and in which phase), `Clocks` (`idle_start` is
  not in the future, and is at or after the last report of poll, unless that report
  is still to be served, which is over before the timers run: `Fresh`), `Sorted` (the idle list is in the order of `idle_start`) and `Awake` (a round
  that a timer has started has that timer due in every phase). `Sorted` makes the
  head of the list the first deadline (`HeadFirst`), which both `NoneOverdue` and
  `NoOversleep` rest on: a deadline at most `Idle` ms away survives both
  conversions (`TimeoutFits`). Assumed: fds are numbers, `Idle` is positive and
  twice `Idle` fits in 32 bits, there are finitely many keys.
* **`ServersProofs`, blocking server** - `Lockstep`, `NeverCut`. The invariant counts bytes: each
  open connection is `Idle`, `Asking` (what is in flight and what the server has
  read make up what the client has written) or `Answering` (the same for the
  reply). From the count follows that four bytes read as a prefix are one, so
  that the server never sees a length nobody sent. Assumed: the prefix, the
  reply and the room have positive sizes, the reply is not too long, clients and
  peers are different processes.
* **`ServersProofs`, event loop server** - `Implements`: the server with its clients implements
  `KvService`, for any clients, scripts and buffers. What is pending of a client
  is `rbuf` and what is on the way; its answers are what it has read, what is on
  the way, and `wbuf`. The invariant says that `wbuf` is empty outside
  `STATE_RES` (otherwise a response would be overwritten), which phase serves
  which state, and that the backlog has no connection.
* **`StructureProofs`, TTL heap** - `HeapInvariant`, `HeapKeepsShape`,
  `HeapImplementsTtlMap`, for any entries and deadlines. `Climbs` and `Sifts` say
  what path `heap_up` and `heap_down` take (`UpPathClimbs`, `DownPathSifts`): no
  position twice, and where it ends. Before the items are moved the heap is in
  order but for one item (`HeapBut`), and `heap_idx` is right but for that item
  and the entry removed (`RefsBut`). Moving the items of the path restores the
  order (`ClimbOrders`, `SiftOrders`), and writing their positions the references
  (`RefsFollow`). `UpdateKeeps` puts this together for `heap_update`, which also
  sifts the last item after it has filled a hole anywhere in the heap. Assumed: deadlines are integers.
* **`ContainerProofs`, skip list of `LC-sliplist.cpp`** - `LcInvariant`,
  `LcKeepsLevels`, `LcIsBag`, for any nodes, numbers and `MAX_LEVEL`. `erase` takes
  the first of several equal numbers on each level, which need not be the same node,
  so the numbers do not say in which order nodes stand. The invariant says that
  some order of all nodes exists, also of those on no level, in which every link
  goes forward (`Forward`); in it level `i` links a set `L[i]` (`Line`), the sets
  are nested, and empty from `currentLevel` on (`Good`). A walk ends as every link
  shortens what is left (`Reaches`), at the last node before the number (`WalkStops`,
  `UpStops`). `add` puts the new node before all that are not less (`AddOrder`). For
  `erase` the nesting survives since the node it takes from a level is the first
  of those that are not less than the number (`FirstNotBelow`): being first there, it
  is first on every level above that has it, and is taken from these too. As two listings of a set in one order are the same
  sequence (`ListingUnique`), what happens to the order and to `L[0]` determines what
  happens to the bag. Assumed: nodes are finitely many and are neither the dummy nor
  null, there is at least one level, numbers are integers.
* **`ContainerProofs`, skip list of `skiplist.cpp`** - `ZslInvariant`,
  `ZslKeepsShape`, `ZslIsBag`, for any addresses, objects, scores and number of
  levels. The invariant gives a sequence `c` of the allocated nodes, in the order of
  score and object, and says what it determines (`Threads`, `IsList`): the links and
  spans of level 0, the backward pointers, the tail, the length, and that
  `zsl->level` is 1. Of the links above level 0 it says nothing, as they may refer to
  freed nodes, or to others allocated at their address since; the proof is that no
  call looks at them. A search stops at the node that splits `c` at
  the pair it looks for, with the number of nodes before as its rank (`WalkPlace`,
  `SearchPlace`). `zslInsert` and `zslDelete` put `x` into `c` and take the node out
  (`ThreadsWith`, `ThreadsWithout`), where `backward` of what follows and the span
  that is split or merged must come out right; `zslFree` reaches all nodes
  (`AllReached`). The chain that the properties read off the links is `c`
  (`ChainIs`), which gives the shape and the refinement of `OrderedBag`
  (`PairPlace`, `InsertPuts`, `DeleteTakes`). Assumed: header, null and the addresses of
  nodes differ, a list is not null, objects and scores are integers.
* **`ZSetProofs`** - `ZSetInvariant`, `SortedByTuple`, `ShapeKept`,
  `SortedSetImplemented`, `QueriesExact`, for any names and scores. `ZSetInv` says
  that the tree is `Fixed`. It has a `Shape`: a function `sub` gives the
  descendants of each node; those of the root are the names in the hash table,
  those of a node are split between its children by the order of the tuples, and
  each child names its parent. Each node is `Sound`: depth and cnt are what its
  children's give, and these differ in depth by at most one. `InOrder` and
  `Height`, which the properties read off the tree, follow by induction on the
  sizes of these sets (`RootLists`), and there is only one listing in order
  (`ListingOrdered`).
  While `avl_fix` climbs, one node is not sound (`Mending`): its fields are those of
  a balanced node one of whose subtrees has since become one higher or lower
  (`Near`). A round mends its subtree, with one rotation or two, and leaves
  its parent `Near` (`Mended`); the loop ends since each round is at a larger
  subtree (`RoundClimbs`). For an inner node `avl_del` does this for the
  successor, which then takes the node's place with the fields that the node
  has by then. The queries need the place of a
  node in the listing (`Placing`) and the places its subtree spans, which cnt
  gives (`Span`): each step of `avl_offset` knows the place it is at (`SeekMoves`,
  `OffsetGives`), the search stops at the first tuple not below the argument
  (`LowerBoundGives`, `CutExists`), and the loop of `do_zquery` emits the places from
  there (`EmitGives`). The lemma behind `QueriesExact` is for any offset and limit
  (`QueryAnswers`). Assumed: names are numbers, scores are integers, null is no name.

The induction that heap, lists and tree need is not taken from the library, whose
theorems quantify over operators. `Induct` is a statement about sets of numbers, derived
from the well-foundedness of strict inclusion among finite sets; `Recursion`
says that a recursive definition whose calls get smaller has a solution, so that
`CHOOSE`, which a recursive function stands for, finds one.

## 5. Model-checked only

* Liveness (`EveryJobRuns`, `OverdueExpires`, `WaitingServed`, `EveryoneServed`,
  `AnsweredIfRoom`): fairness is beyond the prover.
* `ImplementsTypedStore`: no proof has been written. `Protocol` uses recursive
  functions, so what is proved of such functions in `StructureProofs` applies
  (section 8).

## 6. Findings

`conn_pipeline`: **requests behind a blocked response are not looked at again.**
`try_one_request` is called only after a read (`14_server.cpp:672`, with the
comment "Try to process requests one by one. Why is there a loop? Please read
the explanation of "pipelining"."). When a response blocks while `rbuf` holds
more complete requests, the next event finishes it in `state_res` (line 710) and
the connection goes back to `STATE_REQ` and `POLLIN`. If the client has sent
everything it had to send and waits, nothing parses what is in `rbuf`: the
client gets no answer, until its idle timer closes the connection. `WaitingServed` in
`conn` says that clients that wait for each reply are not affected.

`epoll_refused`: **a message that is too long does not end the connection, and
ends the server.** `try_one_request` sets `STATE_END`, "mark the connection for
deletion" (`06server_epoll_exercise.cpp:51`, 122), and returns to
`try_fill_buffer`, which sets `STATE_RES` (192); the flush then sets `STATE_REQ`.
The message stays at the start of `rbuf`, each read appends to it, and when `rbuf`
is full `assert(conn->rbuf_size < sizeof(conn->rbuf))` fails (156). `BuffersSuffice`
says, and `Buffers` proves, that this is the only way for it to fail.

`epoll_blocked`: **a response that blocks is not finished.** `README.md:27` writes
an event loop with "while should_write_to(fd): write_until_EAGAIN(fd)".
A connection is registered when it is accepted, in `STATE_REQ` and hence for
`EPOLLIN` (103), and never again. After an `EAGAIN` from `write` only more bytes
from the client, or its end, wake the server; a client that waits for the rest
of its response waits forever.

`skip_level`: **the number of levels never grows.** `skiplist.cpp:37` says of
`zsl->level` that it is the number of levels of the node with the most levels,
and line 60 that it starts at 1 and may grow on insertion. `zslInsert`
(153-161) prepares `update` and `rank` for the new levels and does not assign
`zsl->level`. It stays 1: every search walks the lowest level, and what is linked
above is not read, and not unlinked by a deletion. `SkipListShape` and
`SkipListIsBag` show that the list is correct all the same, as the links in use
are.

`event_loop_active`: **a connection in use can be closed as idle.** Connections are
closed so that none is held without use (`README.md:331`), and the server reports
"removing idle connection" (`14_server.cpp:783`). `connection_io` "update[s] the idle
timer" (715) once, before it moves any bytes, and then reads and answers for as long as
the client sends (679). After a call that took the idle timeout, `process_timers` of the same round closes a connection that moved
bytes a moment ago. What holds is `ReadyKept`: none that poll has reported as ready
within the idle timeout is closed.

## 7. Not modelled

* Stages 08 and 09: their connections are those of 07, the hash table is that of
  14, and the replies of 09 are those of 11. The loops of 12 and 13 are that of 14
  without TTLs, and without the pool. The AVL tree of stage 10 is the first
  version of the one modelled. Modelling them again would repeat modules under
  other names.
* The echo of stage 06 and the connections of 11: `PollServer` and `Connection` have
  the same state machine.
* The table of connections of the epoll server, and `accept` in it: connections
  share nothing but that table.
* A bound on turns and rounds: `while (try_fill_buffer)` (`14_server.cpp:679`) is bounded by
  nothing but the client's pauses, and a failed `accept` (880) makes a round that
  does nothing. Nothing in the repository bounds either. In `EventLoop` both take
  any time; `ReadyKept` and `ActiveKept` say what that does to idle timers.
* Signals: `SIGPIPE` in `write`, `EINTR` in `poll`. Failing allocations of
  entries, for which `new` throws and ends the server.
* Conversions of numbers (`strtod`, `strtoll`, `snprintf`): words have values.
* `client/press_test.cpp`, which repeats exchanges and measures; `src/test`, programs of
  a few lines without state to speak of; the notes.

## 8. Order of work, and what could follow

The modules were written from the inside out: first what stage 14 rests on
(thread pool, heap, hash table, tree) with the abstraction of each, then the key
space on the abstractions, connections and the event loop, then the programs
beside and before stage 14. What could follow:

1. `EventLoop` with several copies of `Connection` in place of a step with any
   result, for what a slow connection does to the others.
2. A `SkipList` whose insertion raises `zsl->level`, as its comments ask for:
   `LevelIsMax` would then be checked as an invariant.
