----------------------------- MODULE EventLoop -----------------------------
(***************************************************************************)
(* The event loop of server/14/14_server.cpp: main, accept_new_conn,       *)
(* conn_done, next_timer_ms, process_timers, and what connection_io does   *)
(* to the list of idle connections.  One round is                          *)
(*     build poll_args - poll - connection_io* - process_timers - accept.  *)
(* The bytes of a connection are module Connection's, the key space is     *)
(* Keyspace's: here a request may only arm or drop the TTL of a key.  A    *)
(* call of connection_io reads the clock, then goes on for as long as the  *)
(* connection has bytes to move and requests to execute.                   *)
(*                                                                         *)
(* Time is counted in ticks, MS to the millisecond of poll().  It advances *)
(* between any two steps.  The kernel gives a connection the lowest free   *)
(* fd, reports any set of ready fds, and wakes poll at its timeout or      *)
(* later.  A local variable of main or process_timers is reset when its    *)
(* last use is past: poll_args, the timeout and now_us do not outlive it.  *)
(***************************************************************************)
EXTENDS Integers, Sequences, FiniteSets, Functions

CONSTANTS Conns,    \* addresses malloc gives to a struct Conn
          Fds,      \* fds of connections
          Keys,     \* keys that may have a TTL
          TtlMs,    \* the TTLs clients ask for, in ms
          Idle,     \* k_idle_timeout_ms (5000)
          MaxWorks, \* k_max_works (2000)
          MS,       \* ticks in a millisecond (1000)
          UInt,     \* 2^32, the range of next_timer_ms
          MaxTime,  \* bound of the clock
          None

ASSUME FdAssumption == Fds \subseteq Nat /\ None \notin Conns
ASSUME KeyAssumption == IsFiniteSet(Keys)
ASSUME TimeAssumption ==
  /\ MS \in Nat \ {0} /\ MaxWorks \in Nat /\ TtlMs \subseteq Nat
  /\ UInt \in Nat /\ Idle \in Nat \ {0} /\ 2 * Idle < UInt /\ MaxTime \in Nat

VARIABLES pc,         \* phase of the round
          now,        \* get_monotonic_usec
          fd2conn,    \* g_data.fd2conn
          conn,       \* the allocated Conns
          idle_list,  \* g_data.idle_list, oldest first
          heap,       \* deadline of the keys that have a TTL
          poll_args,  \* the fds polled, and the Conn each was for
          revents,    \* those that are ready and still to be served
          listening,  \* revents of the listening fd
          wake,       \* when poll times out, or -1
          serving,    \* the argument of connection_io, or None
          limit,      \* now_us of process_timers
          seen,       \* history: when poll last found each connection ready
          slept       \* history: this round ended a sleep for a timer

vars == <<pc, now, fd2conn, conn, idle_list, heap, poll_args, revents,
          listening, wake, serving, limit, seen, slept>>

tables == <<fd2conn, conn, idle_list, seen>>

polled == <<poll_args, revents, listening, wake, serving>>
-----------------------------------------------------------------------------
Init == /\ pc = "build" /\ now = 0
        /\ fd2conn = [f \in Fds |-> None]
        /\ conn = [c \in {} |-> None]
        /\ idle_list = <<>>
        /\ heap = [k \in {} |-> 0]
        /\ poll_args = [f \in {} |-> None] /\ revents = {} /\ listening = FALSE
        /\ wake = -1 /\ serving = None /\ limit = 0
        /\ seen = [c \in {} |-> 0]
        /\ slept = "no"

After_TimersFirst(p) ==
  CASE p = "build" -> "poll" [] p = "poll" -> "timers" [] p = "timers" -> "idle"
    [] p = "idle" -> "ttl" [] p = "ttl" -> "io" [] p = "io" -> "accept"
    [] p = "accept" -> "build"

\* what main does after each phase of a round
After(p) == CASE p = "build" -> "poll" [] p = "poll" -> "io" [] p = "io" -> "timers"
              [] p = "timers" -> "idle" [] p = "idle" -> "ttl" [] p = "ttl" -> "accept"
              [] p = "accept" -> "build"

Minimum(S) == CHOOSE x \in S : \A y \in S : x <= y

IdleDeadline(c) == conn[c].idle_start + Idle * MS

\* next_us: the head of the idle list or the root of the heap
NextTimer == Minimum((IF idle_list = <<>> THEN {} ELSE {IdleDeadline(Head(idle_list))})
                     \cup {heap[k] : k \in DOMAIN heap})

NoTimer == idle_list = <<>> /\ DOMAIN heap = {}

\* whole milliseconds until the next timer, as a uint32_t
TimerMs == IF NextTimer <= now THEN 0 ELSE ((NextTimer - now) \div MS) % UInt

\* poll takes it as an int, and waits for ever when that is negative
AsInt(ms) == IF 2 * ms < UInt THEN ms ELSE -1

WakeAt_RoundUp == IF NoTimer THEN now ELSE
                  IF AsInt(TimerMs) < 0 THEN -1 ELSE now + (AsInt(TimerMs) + 1) * MS

\* the value for no timer "doesn't matter": poll may return at any time later
WakeAt == IF NoTimer THEN now ELSE
          IF AsInt(TimerMs) < 0 THEN -1 ELSE now + AsInt(TimerMs) * MS

Watched == {f \in Fds : fd2conn[f] # None}

Build == /\ pc = "build"
         /\ poll_args' = Restrict(fd2conn, Watched)
         /\ wake' = WakeAt
         /\ slept' = IF NoTimer \/ (NextTimer - now) \div MS >= UInt THEN "no" ELSE "timer"
         /\ pc' = After(pc)
         /\ UNCHANGED <<now, tables, heap, revents, listening, serving, limit>>

\* poll returns: some fds are ready, or the timeout is over
PollReturn ==
  /\ pc = "poll"
  /\ \E ready \in SUBSET DOMAIN poll_args, l \in BOOLEAN :
       /\ revents' = ready /\ listening' = l
       /\ seen' = [c \in DOMAIN seen |->
                     IF \E f \in ready : poll_args[f] = c THEN now ELSE seen[c]]
       /\ IF ready = {} /\ ~l
          THEN wake # -1 /\ now >= wake /\ UNCHANGED slept
          ELSE slept' = "no"
  /\ wake' = -1
  /\ pc' = After(pc)
  /\ UNCHANGED <<now, fd2conn, conn, idle_list, heap, poll_args, serving, limit>>

\* dlist_detach
Detached(c) == LET i == CHOOSE j \in DOMAIN idle_list : idle_list[j] = c
               IN  SubSeq(idle_list, 1, i - 1) \o SubSeq(idle_list, i + 1, Len(idle_list))

ConnDone_NoDetach(c) == /\ fd2conn' = [fd2conn EXCEPT ![conn[c].fd] = None]
                        /\ UNCHANGED idle_list
                        /\ conn' = Restrict(conn, DOMAIN conn \ {c})
                        /\ seen' = Restrict(seen, DOMAIN seen \ {c})

\* conn_done
ConnDone(c) == /\ fd2conn' = [fd2conn EXCEPT ![conn[c].fd] = None]
               /\ idle_list' = Detached(c)
               /\ conn' = Restrict(conn, DOMAIN conn \ {c})
               /\ seen' = Restrict(seen, DOMAIN seen \ {c})

Touch_NoMove(c) == /\ conn' = [conn EXCEPT ![c].idle_start = now]
                   /\ UNCHANGED idle_list

Touch_NoDetach(c) == /\ conn' = [conn EXCEPT ![c].idle_start = now]
                     /\ idle_list' = Append(idle_list, c)

\* the connection goes to the end of the idle list
Touch(c) == /\ conn' = [conn EXCEPT ![c].idle_start = now]
            /\ idle_list' = Append(Detached(c), c)

\* the call of connection_io for the next ready fd; poll_args is in the order
\* of the fds
ConnectionIo == /\ pc = "io" /\ serving = None /\ revents # {}
                /\ LET f == Minimum(revents) IN
                     /\ serving' = fd2conn[f]
                     /\ revents' = revents \ {f}
                     /\ Touch(fd2conn[f])
                /\ UNCHANGED <<pc, now, fd2conn, heap, poll_args, listening, wake,
                               limit, seen, slept>>

\* one request: it may arm or drop the TTL of a key
Request == /\ serving # None /\ conn[serving].state = "req"
           /\ \/ \E k \in Keys, ms \in TtlMs :
                   heap' = [i \in DOMAIN heap \cup {k} |->
                              IF i = k THEN now + ms * MS ELSE heap[i]]
              \/ \E k \in DOMAIN heap : heap' = Restrict(heap, DOMAIN heap \ {k})
           /\ UNCHANGED <<pc, now, tables, polled, limit, slept>>

\* connection_io returns: the connection waits for bytes or to send them
Served == /\ serving # None
          /\ \E s \in {"req", "res"} : conn' = [conn EXCEPT ![serving].state = s]
          /\ serving' = None
          /\ UNCHANGED <<pc, now, fd2conn, idle_list, seen, heap, poll_args, revents,
                         listening, wake, limit, slept>>

\* connection_io returns in STATE_END
Ended == /\ serving # None
         /\ ConnDone(serving)
         /\ serving' = None
         /\ UNCHANGED <<pc, now, heap, poll_args, revents, listening, wake, limit, slept>>

IoDone == /\ pc = "io" /\ serving = None /\ revents = {}
          /\ poll_args' = [f \in {} |-> None]
          /\ pc' = After(pc)
          /\ UNCHANGED <<now, tables, heap, revents, listening, wake, serving, limit, slept>>

StartTimers_NoSlack == /\ pc = "timers"
                       /\ limit' = now
                       /\ pc' = After(pc)
                       /\ UNCHANGED <<now, tables, heap, polled, slept>>

\* process_timers reads the clock
StartTimers == /\ pc = "timers"
               /\ limit' = now + MS
               /\ pc' = After(pc)
               /\ UNCHANGED <<now, tables, heap, polled, slept>>

Overdue == idle_list # <<>> /\ IdleDeadline(Head(idle_list)) < limit

\* one round of the loop over the idle list
CloseIdle == /\ pc = "idle" /\ Overdue
             /\ ConnDone(Head(idle_list))
             /\ slept' = "no"
             /\ UNCHANGED <<pc, now, heap, polled, limit>>

IdleDone == /\ pc = "idle" /\ ~Overdue
            /\ pc' = After(pc)
            /\ UNCHANGED <<now, tables, heap, polled, limit, slept>>

Due == {k \in DOMAIN heap : heap[k] < limit}

\* the TTL loop: the earliest keys that are due, at most MaxWorks + 1 of them
ExpireKeys ==
  /\ pc = "ttl"
  /\ \E D \in SUBSET Due :
       /\ Cardinality(D) = Minimum({Cardinality(Due), MaxWorks + 1})
       /\ \A d \in D, k \in Due \ D : heap[d] <= heap[k]
       /\ heap' = Restrict(heap, DOMAIN heap \ D)
       /\ slept' = IF D = {} THEN slept ELSE "no"
  /\ limit' = 0
  /\ pc' = After(pc)
  /\ UNCHANGED <<now, tables, polled>>

FreeFds == {f \in Fds : fd2conn[f] = None}

\* accept_new_conn with a client in the backlog
Accept == /\ pc = "accept" /\ listening
          /\ FreeFds # {}
          /\ LET f == Minimum(FreeFds) IN
               \E c \in Conns \ DOMAIN conn :
                 /\ fd2conn' = [fd2conn EXCEPT ![f] = c]
                 /\ conn' = [d \in DOMAIN conn \cup {c} |->
                               IF d = c THEN [fd |-> f, state |-> "req", idle_start |-> now]
                                        ELSE conn[d]]
                 /\ idle_list' = Append(idle_list, c)
                 /\ seen' = [d \in DOMAIN conn \cup {c} |-> IF d = c THEN now ELSE seen[d]]
          /\ listening' = FALSE
          /\ pc' = After(pc)
          /\ UNCHANGED <<now, heap, poll_args, revents, wake, serving, limit, slept>>

\* nobody to accept, or accept or malloc failed
NoAccept == /\ pc = "accept"
            /\ listening' = FALSE
            /\ pc' = After(pc)
            /\ UNCHANGED <<now, tables, heap, poll_args, revents, wake, serving, limit, slept>>

\* in the phases that read the clock
Tick == /\ now < MaxTime /\ pc \notin {"idle", "ttl"}
        /\ now' = now + 1
        /\ UNCHANGED <<pc, tables, heap, polled, limit, slept>>

Next == \/ Build \/ PollReturn
        \/ ConnectionIo \/ Request \/ Served \/ Ended \/ IoDone
        \/ StartTimers \/ CloseIdle \/ IdleDone \/ ExpireKeys
        \/ Accept \/ NoAccept
        \/ Tick

Spec == Init /\ [][Next]_vars
-----------------------------------------------------------------------------
\* Types; a Conn is in the idle list once.
TypeOK == /\ pc \in {"build", "poll", "io", "timers", "idle", "ttl", "accept"}
          /\ now \in 0..MaxTime /\ limit \in 0..(MaxTime + MS) /\ wake \in Int
          /\ fd2conn \in [Fds -> Conns \cup {None}]
          /\ DOMAIN conn \subseteq Conns
          /\ \A c \in DOMAIN conn : conn[c] \in [fd : Fds, state : {"req", "res"},
                                                 idle_start : 0..MaxTime]
          /\ idle_list \in Seq(Conns)
          /\ \A i, j \in DOMAIN idle_list : idle_list[i] = idle_list[j] => i = j
          /\ DOMAIN heap \subseteq Keys /\ \A k \in DOMAIN heap : heap[k] \in Nat
          /\ DOMAIN poll_args \subseteq Fds /\ revents \subseteq DOMAIN poll_args /\ listening \in BOOLEAN
          /\ serving \in Conns \cup {None}
          /\ DOMAIN seen = DOMAIN conn /\ slept \in {"no", "timer"}

\* fd2conn, the idle list and the allocated Conns are the same connections:
\* process_timers frees from the list what main finds through fd2conn.
TablesAgree ==
  /\ \A f \in Fds : fd2conn[f] # None =>
        fd2conn[f] \in DOMAIN conn /\ conn[fd2conn[f]].fd = f
  /\ \A c \in DOMAIN conn : fd2conn[conn[c].fd] = c
  /\ Range(idle_list) = DOMAIN conn

\* The connection that main looks up for a polled fd (14_server.cpp:865) is
\* there, and is the one that was polled: nothing was closed or accepted
\* between the snapshot in poll_args and its use.
PolledLive == \A f \in revents : pc = "io" => fd2conn[f] # None /\ fd2conn[f] = poll_args[f]

\* After process_timers no connection is left whose time was up when it read
\* the clock, although it looks at the head of the idle list only
\* (14_server.cpp:776-781): every activity moves a connection to the end.
NoneOverdue == pc = "ttl" => \A c \in DOMAIN conn : IdleDeadline(c) >= limit

\* With a connection open, poll wakes no later than the first deadline of any
\* connection or key, although the timeout is cut to 32 bits and to an int.
NoOversleep == pc = "poll" /\ DOMAIN conn # {} =>
                 /\ wake # -1
                 /\ \A c \in DOMAIN conn : wake <= IdleDeadline(c) \/ IdleDeadline(c) < now
                 /\ \A k \in DOMAIN heap : wake <= heap[k] \/ heap[k] < now

\* A sleep that ends at its timeout handles the timer it was for: the loop does
\* not spin through the last millisecond (14_server.cpp:771).
NoSpin == pc = "accept" => slept = "no"

\* The timers close a connection only when it is longer than the idle timeout,
\* less a millisecond, that poll has last found it ready: one that is ready in
\* this round counts from the return of poll on, however long the connections
\* before it are served.
ReadyKept == [][\A c \in DOMAIN conn \ DOMAIN conn' :
                  c # serving => seen[c] + Idle * MS < now + MS]_vars
=============================================================================
