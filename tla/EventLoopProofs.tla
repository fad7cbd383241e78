-------------------------- MODULE EventLoopProofs --------------------------
(***************************************************************************)
(* The connection tables, the snapshot main polls, the idle list and the   *)
(* timeout of poll, for any number of connections, fds and keys, any TTLs  *)
(* and any clock.  The idle list is in the order of idle_start, so its     *)
(* head is its earliest deadline; what poll sleeps for is then the first   *)
(* deadline of all, less the part of a millisecond that process_timers     *)
(* allows itself.                                                          *)
(***************************************************************************)
EXTENDS EventLoop, WellFoundedInduction, FiniteSetTheorems, SequenceTheorems, TLAPS

\* The connections polled are those of fd2conn until they are served.
Snapshot == /\ pc = "poll" => \A f \in DOMAIN poll_args : fd2conn[f] # None /\ fd2conn[f] = poll_args[f]
            /\ PolledLive
            /\ pc # "io" => revents = {}

\* The connection being served is allocated, and was ready once.
Service == serving # None => /\ pc = "io" /\ serving \in DOMAIN conn
                             /\ conn[serving].fd \notin revents

\* The idle timer of a connection runs from its last report by poll or later,
\* unless that report is still to be served.
Fresh(c) == /\ conn[c].idle_start <= now /\ seen[c] \in Nat /\ seen[c] <= now
            /\ conn[c].fd \notin revents => seen[c] <= conn[c].idle_start

\* The clock of each connection, and what process_timers read of the clock.
Clocks == /\ \A c \in DOMAIN conn : Fresh(c)
          /\ pc \in {"idle", "ttl"} => limit <= now + MS

\* The idle list is in the order of the last activity.
Sorted == \A i, j \in DOMAIN idle_list :
            i < j => conn[idle_list[i]].idle_start <= conn[idle_list[j]].idle_start

Timers == (IF idle_list = <<>> THEN {} ELSE {IdleDeadline(Head(idle_list))})
            \cup {heap[k] : k \in DOMAIN heap}

\* A round that a timer has woken finds it due.
Awake == slept = "timer" =>
           /\ pc \notin {"build", "accept"}
           /\ pc = "poll" /\ wake # -1 => \E d \in Timers : d < wake + MS
           /\ pc \in {"io", "timers"} => /\ revents = {} /\ serving = None
                                         /\ \E d \in Timers : d < now + MS
           /\ pc = "idle" => \E d \in Timers : d < limit
           /\ pc = "ttl" => Due # {}

Inv == /\ TypeOK /\ TablesAgree /\ Snapshot /\ Service /\ Clocks /\ Sorted
       /\ NoneOverdue /\ NoOversleep /\ Awake
-----------------------------------------------------------------------------
(* arithmetic *)

LEMMA MinimumIsLeast ==
  ASSUME NEW S, S \subseteq Nat, S # {}
  PROVE  Minimum(S) \in S /\ \A y \in S : Minimum(S) <= y
<1>1. PICK x \in S : \A y \in S : ~(<<y, x>> \in OpToRel(<, Nat))
  BY WFMin, NatLessThanWellFounded, Zenon
<1>2. \A y \in S : ~(<<y, x>> \in Nat \X Nat /\ y < x)
  BY <1>1, Zenon DEF OpToRel
<1>3. x \in Nat /\ \A y \in S : y \in Nat
  OBVIOUS
<1>4. \A y \in S : x <= y
  <2>. SUFFICES ASSUME NEW y \in S
                PROVE  x <= y
    OBVIOUS
  <2>1. x \in Nat /\ y \in Nat
    BY <1>3
  <2>2. <<y, x>> \in Nat \X Nat
    BY <2>1, Zenon
  <2>3. ~(y < x)
    BY <1>2, <2>2, Zenon
  <2>. QED BY <2>1, <2>3
<1>. QED BY <1>4 DEF Minimum

LEMMA Products ==
  /\ MS \in Nat /\ MS >= 1 /\ Idle \in Nat /\ UInt \in Nat /\ 2 * Idle < UInt
  /\ MaxWorks \in Nat /\ MaxTime \in Nat /\ Idle * MS \in Nat
  /\ \A ms \in TtlMs : ms * MS \in Nat
<1>1. MS \in Nat /\ Idle \in Nat /\ TtlMs \subseteq Nat
  BY TimeAssumption
<1>2. \A a, b \in Nat : a * b \in Nat
  OBVIOUS
<1>. QED BY <1>1, <1>2, TimeAssumption

LEMMA Monotone ==
  ASSUME NEW x \in Nat, NEW y \in Nat, NEW z \in Nat, x <= y
  PROVE  x * z \in Nat /\ y * z \in Nat /\ x * z <= y * z
<1>1. (y - x) \in Nat /\ (y - x) * z \in Nat /\ x * z \in Nat
  OBVIOUS
<1>2. (y - x) * z = y * z - x * z
  OBVIOUS
<1>3. y * z \in Nat
  OBVIOUS
<1>. QED BY <1>1, <1>2, <1>3

LEMMA Division ==
  ASSUME NEW a \in Nat
  PROVE  /\ a \div MS \in Nat
         /\ (a \div MS) * MS <= a /\ a < (a \div MS) * MS + MS
         /\ a <= Idle * MS => a \div MS <= Idle
<1>1. MS \in Nat /\ MS > 0 /\ Idle \in Nat
  BY Products
<1>. DEFINE q == a \div MS
<1>2. q \in Nat /\ q * MS <= a /\ a < q * MS + MS
  BY <1>1
<1>. HIDE DEF q
<1>3. ASSUME a <= Idle * MS, q > Idle
      PROVE  FALSE
  <2>1. (q - Idle) \in Nat /\ q - Idle >= 1
    BY <1>1, <1>2, <1>3
  <2>2. (q - Idle) * MS >= 1 * MS
    BY <1>1, <2>1
  <2>3. (q - Idle) * MS = q * MS - Idle * MS
    BY <1>1, <1>2
  <2>. QED BY <1>1, <1>2, <1>3, <2>2, <2>3
<1>4. a <= Idle * MS => q <= Idle
  BY <1>1, <1>2, <1>3
<1>. QED BY <1>2, <1>4 DEF q

LEMMA ConnFacts ==
  ASSUME TypeOK, NEW c \in DOMAIN conn
  PROVE  /\ c \in Conns /\ conn[c].fd \in Fds /\ conn[c].state \in {"req", "res"}
         /\ conn[c].idle_start \in Nat /\ conn[c].idle_start <= MaxTime
         /\ IdleDeadline(c) = conn[c].idle_start + Idle * MS /\ IdleDeadline(c) \in Nat
<1>1. conn[c] \in [fd : Fds, state : {"req", "res"}, idle_start : 0..MaxTime] /\ c \in Conns
  BY DEF TypeOK
<1>2. conn[c].idle_start \in 0..MaxTime /\ conn[c].fd \in Fds /\ conn[c].state \in {"req", "res"}
  BY <1>1
<1>. QED BY <1>1, <1>2, Products DEF IdleDeadline

LEMMA ListFacts ==
  ASSUME TypeOK
  PROVE  /\ idle_list \in Seq(Conns) /\ Len(idle_list) \in Nat
         /\ DOMAIN idle_list = 1..Len(idle_list)
         /\ \A i \in DOMAIN idle_list : idle_list[i] \in Range(idle_list)
         /\ idle_list # <<>> => Head(idle_list) = idle_list[1] /\ 1 \in DOMAIN idle_list
<1>1. idle_list \in Seq(Conns)
  BY DEF TypeOK
<1>2. idle_list # <<>> => Len(idle_list) >= 1
  BY <1>1, EmptySeq
<1>. QED BY <1>1, <1>2, LenProperties DEF Range

\* The timers are numbers; the next one is the least of them.
LEMMA NextIsLeast ==
  ASSUME TypeOK, TablesAgree
  PROVE  /\ NoTimer <=> Timers = {}
         /\ Timers \subseteq Nat
         /\ Timers # {} => NextTimer \in Timers /\ \A d \in Timers : NextTimer <= d
<1>1. Timers \subseteq Nat
  <2>1. idle_list # <<>> => Head(idle_list) \in DOMAIN conn
    BY ListFacts DEF TablesAgree
  <2>2. idle_list # <<>> => IdleDeadline(Head(idle_list)) \in Nat
    BY <2>1, ConnFacts
  <2>. QED BY <2>2 DEF Timers, TypeOK
<1>2. NoTimer <=> Timers = {}
  BY DEF NoTimer, Timers
<1>3. NextTimer = Minimum(Timers)
  BY DEF NextTimer, Timers
<1>. QED BY <1>1, <1>2, <1>3, MinimumIsLeast

\* The head of the idle list has the earliest deadline of the connections.
LEMMA HeadFirst ==
  ASSUME TypeOK, TablesAgree, Sorted, NEW c \in DOMAIN conn
  PROVE  /\ idle_list # <<>> /\ Head(idle_list) \in DOMAIN conn
         /\ IdleDeadline(Head(idle_list)) <= IdleDeadline(c)
         /\ IdleDeadline(Head(idle_list)) \in Timers
<1>1. PICK i \in DOMAIN idle_list : idle_list[i] = c
  BY DEF TablesAgree, Range
<1>2. idle_list # <<>>
  BY <1>1, ListFacts
<1>3. Head(idle_list) = idle_list[1] /\ 1 \in DOMAIN idle_list /\ Head(idle_list) \in DOMAIN conn
  BY <1>2, ListFacts DEF TablesAgree
<1>4. conn[Head(idle_list)].idle_start <= conn[c].idle_start
  <2>1. CASE i = 1
    BY <1>1, <1>3, <2>1, ConnFacts
  <2>2. CASE i # 1
    BY <1>1, <1>3, <2>2, ListFacts DEF Sorted
  <2>. QED BY <2>1, <2>2
<1>5. IdleDeadline(Head(idle_list)) <= IdleDeadline(c)
  BY <1>3, <1>4, ConnFacts, Products
<1>. QED BY <1>2, <1>3, <1>5 DEF Timers

-----------------------------------------------------------------------------
(* the idle list *)

\* dlist_detach takes out one connection and keeps the order of the others.
LEMMA DetachFacts ==
  ASSUME TypeOK, NEW c \in Range(idle_list)
  PROVE  /\ Detached(c) \in Seq(Conns) /\ Len(Detached(c)) \in Nat
         /\ DOMAIN Detached(c) = 1..Len(Detached(c))
         /\ Range(Detached(c)) = Range(idle_list) \ {c}
         /\ \E p \in 1..Len(idle_list) :
              /\ idle_list[p] = c /\ Len(Detached(c)) = Len(idle_list) - 1
              /\ \A i \in 1..Len(Detached(c)) :
                   Detached(c)[i] = IF i < p THEN idle_list[i] ELSE idle_list[i + 1]
<1>. DEFINE p == CHOOSE j \in DOMAIN idle_list : idle_list[j] = c
            a == SubSeq(idle_list, 1, p - 1)
            b == SubSeq(idle_list, p + 1, Len(idle_list))
            n == Len(idle_list)
<1>1. p \in DOMAIN idle_list /\ idle_list[p] = c
  BY DEF Range
<1>2. /\ n \in Nat /\ p \in 1..n /\ DOMAIN idle_list = 1..n
      /\ \A i \in 1..n : idle_list[i] \in Conns
  BY <1>1, ListFacts, ElementOfSeq
<1>. HIDE DEF p
<1>3. /\ a \in Seq(Conns) /\ Len(a) = p - 1
      /\ \A i \in 1..(p - 1) : a[i] = idle_list[i]
  <2>1. p - 1 \in Int /\ \A i \in 1..(p - 1) : idle_list[i] \in Conns
    BY <1>2
  <2>2. /\ a \in Seq(Conns) /\ Len(a) = IF 1 <= p - 1 THEN p - 1 - 1 + 1 ELSE 0
        /\ \A i \in 1..(p - 1 - 1 + 1) : a[i] = idle_list[1 + i - 1]
    BY <2>1, SubSeqProperties
  <2>. QED BY <1>2, <2>2
<1>4. /\ b \in Seq(Conns) /\ Len(b) = n - p
      /\ \A i \in 1..(n - p) : b[i] = idle_list[p + i]
  <2>1. p + 1 \in Int /\ n \in Int /\ \A i \in (p + 1)..n : idle_list[i] \in Conns
    BY <1>2
  <2>2. /\ b \in Seq(Conns) /\ Len(b) = IF p + 1 <= n THEN n - (p + 1) + 1 ELSE 0
        /\ \A i \in 1..(n - (p + 1) + 1) : b[i] = idle_list[(p + 1) + i - 1]
    BY <2>1, SubSeqProperties
  <2>3. n - (p + 1) + 1 = n - p /\ (p + 1 <= n \/ n - p = 0)
    <3>1. \A x \in Nat : \A y \in 1..x : x - (y + 1) + 1 = x - y /\ (y + 1 <= x \/ x - y = 0)
      OBVIOUS
    <3>. QED BY <1>2, <3>1, Zenon
  <2>4. \A i \in 1..(n - p) : i \in Int /\ (p + 1) + i - 1 = p + i
    BY <1>2
  <2>5. Len(b) = n - p
    BY <2>2, <2>3
  <2>6. \A i \in 1..(n - p) : b[i] = idle_list[(p + 1) + i - 1]
    BY <2>2, <2>3
  <2>. QED BY <2>2, <2>4, <2>5, <2>6
<1>5. Detached(c) = a \o b
  BY DEF Detached, p
<1>. HIDE DEF a, b
<1>6. /\ Detached(c) \in Seq(Conns) /\ Len(Detached(c)) = n - 1
      /\ \A i \in 1..(n - 1) : Detached(c)[i] = IF i <= p - 1 THEN a[i] ELSE b[i - (p - 1)]
  <2>1. /\ a \o b \in Seq(Conns) /\ Len(a \o b) = Len(a) + Len(b)
        /\ \A i \in 1..(Len(a) + Len(b)) : (a \o b)[i] = IF i <= Len(a) THEN a[i] ELSE b[i - Len(a)]
    BY <1>3, <1>4, ConcatProperties
  <2>. QED BY <1>2, <1>3, <1>4, <1>5, <2>1
<1>7. \A i \in 1..(n - 1) : Detached(c)[i] = IF i < p THEN idle_list[i] ELSE idle_list[i + 1]
  <2>. SUFFICES ASSUME NEW i \in 1..(n - 1)
                PROVE  Detached(c)[i] = IF i < p THEN idle_list[i] ELSE idle_list[i + 1]
    OBVIOUS
  <2>1. CASE i < p
    BY <1>2, <1>3, <1>6, <2>1
  <2>2. CASE ~(i < p)
    <3>1. i - (p - 1) \in 1..(n - p) /\ p + (i - (p - 1)) = i + 1
      BY <1>2, <2>2
    <3>. QED BY <1>2, <1>4, <1>6, <2>2, <3>1
  <2>. QED BY <2>1, <2>2
<1>8. DOMAIN Detached(c) = 1..(n - 1)
  BY <1>6, LenProperties
<1>9. Range(Detached(c)) = Range(idle_list) \ {c}
  <2>1. ASSUME NEW i \in 1..(n - 1) PROVE Detached(c)[i] \in Range(idle_list) \ {c}
    <3>1. i + 1 \in 1..n /\ i \in 1..n
      BY <1>2
    <3>2. \A j \in 1..n : j # p => idle_list[j] # c
      BY <1>1, <1>2 DEF TypeOK
    <3>. QED BY <1>2, <1>7, <3>1, <3>2 DEF Range
  <2>2. ASSUME NEW j \in 1..n, j # p PROVE \E i \in 1..(n - 1) : Detached(c)[i] = idle_list[j]
    <3>1. CASE j < p
      BY <1>2, <1>7, <3>1
    <3>2. CASE j > p
      <4>1. j - 1 \in 1..(n - 1) /\ ~(j - 1 < p) /\ (j - 1) + 1 = j
        BY <1>2, <3>2
      <4>. QED BY <1>7, <4>1
    <3>. QED BY <1>2, <2>2, <3>1, <3>2
  <2>3. ASSUME NEW x \in Range(Detached(c)) PROVE x \in Range(idle_list) \ {c}
    <3>1. PICK i \in 1..(n - 1) : Detached(c)[i] = x
      BY <1>8 DEF Range
    <3>. QED BY <2>1, <3>1
  <2>4. ASSUME NEW x \in Range(idle_list), x # c PROVE x \in Range(Detached(c))
    <3>1. PICK j \in 1..n : idle_list[j] = x
      BY <1>2 DEF Range
    <3>2. j # p
      BY <1>1, <2>4, <3>1
    <3>3. PICK i \in 1..(n - 1) : Detached(c)[i] = x
      BY <2>2, <3>1, <3>2
    <3>. QED BY <1>8, <3>3 DEF Range
  <2>. QED BY <2>3, <2>4
<1>. QED BY <1>1, <1>2, <1>6, <1>7, <1>8, <1>9


LEMMA DetachOrder ==
  ASSUME TypeOK, Sorted, NEW c \in Range(idle_list)
  PROVE  \A i, j \in DOMAIN Detached(c) :
           /\ Detached(c)[i] = Detached(c)[j] => i = j
           /\ i < j => conn[Detached(c)[i]].idle_start <= conn[Detached(c)[j]].idle_start
<1>1. PICK p \in 1..Len(idle_list) :
         /\ idle_list[p] = c /\ Len(Detached(c)) = Len(idle_list) - 1
         /\ \A i \in 1..Len(Detached(c)) :
              Detached(c)[i] = IF i < p THEN idle_list[i] ELSE idle_list[i + 1]
  BY DetachFacts
<1>. DEFINE m == Len(idle_list) - 1
            at(i) == IF i < p THEN i ELSE i + 1
<1>2. DOMAIN Detached(c) = 1..m /\ m + 1 = Len(idle_list) /\ m \in Int
  BY <1>1, DetachFacts, ListFacts
<1>3. \A i \in 1..m : at(i) \in DOMAIN idle_list /\ Detached(c)[i] = idle_list[at(i)]
  <2>1. \A i \in 1..m : Detached(c)[i] = idle_list[at(i)]
    BY <1>1
  <2>2. \A i \in 1..m : at(i) \in 1..Len(idle_list)
    BY <1>2
  <2>. QED BY <2>1, <2>2, ListFacts
<1>4. \A i, j \in 1..m : i < j <=> at(i) < at(j)
  BY <1>2
<1>. HIDE DEF at, m
<1>5. ASSUME NEW i \in 1..m, NEW j \in 1..m, Detached(c)[i] = Detached(c)[j]
      PROVE  i = j
  <2>1. at(i) = at(j)
    BY <1>3, <1>5 DEF TypeOK
  <2>2. at(i) \in Int
    BY <1>3, ListFacts
  <2>. QED BY <1>2, <1>4, <2>1, <2>2
<1>6. ASSUME NEW i \in 1..m, NEW j \in 1..m, i < j
      PROVE  conn[Detached(c)[i]].idle_start <= conn[Detached(c)[j]].idle_start
  BY <1>3, <1>4, <1>6 DEF Sorted
<1>. QED BY <1>2, <1>5, <1>6

\* A connection put at the end of a list.
LEMMA AppendFacts ==
  ASSUME NEW l \in Seq(Conns), NEW c \in Conns
  PROVE  /\ Append(l, c) \in Seq(Conns) /\ Len(l) \in Nat /\ DOMAIN l = 1..Len(l)
         /\ DOMAIN Append(l, c) = 1..(Len(l) + 1)
         /\ Append(l, c)[Len(l) + 1] = c
         /\ \A i \in 1..Len(l) : Append(l, c)[i] = l[i]
         /\ Range(Append(l, c)) = Range(l) \cup {c}
<1>1. /\ Append(l, c) \in Seq(Conns) /\ Len(l) \in Nat /\ DOMAIN l = 1..Len(l)
      /\ DOMAIN Append(l, c) = 1..(Len(l) + 1)
      /\ Append(l, c)[Len(l) + 1] = c
      /\ \A i \in 1..Len(l) : Append(l, c)[i] = l[i]
  BY AppendProperties, LenProperties
<1>2. ASSUME NEW x \in Range(Append(l, c)) PROVE x \in Range(l) \cup {c}
  <2>1. PICK i \in 1..(Len(l) + 1) : Append(l, c)[i] = x
    BY <1>1 DEF Range
  <2>2. CASE i = Len(l) + 1
    BY <1>1, <2>1, <2>2
  <2>3. CASE i # Len(l) + 1
    <3>1. i \in 1..Len(l)
      BY <1>1, <2>3
    <3>. QED BY <1>1, <2>1, <3>1 DEF Range
  <2>. QED BY <2>2, <2>3
<1>3. ASSUME NEW x \in Range(l) PROVE x \in Range(Append(l, c))
  <2>1. PICK i \in 1..Len(l) : l[i] = x
    BY <1>1 DEF Range
  <2>2. i \in 1..(Len(l) + 1)
    BY <1>1
  <2>. QED BY <1>1, <2>1, <2>2 DEF Range
<1>4. c \in Range(Append(l, c))
  <2>1. Len(l) + 1 \in 1..(Len(l) + 1)
    BY <1>1
  <2>. QED BY <1>1, <2>1 DEF Range
<1>. QED BY <1>1, <1>2, <1>3, <1>4

-----------------------------------------------------------------------------
(* the tables after each change *)

\* TypeOK, the conjuncts about the tables and the others
TableTypes == /\ fd2conn \in [Fds -> Conns \cup {None}]
              /\ DOMAIN conn \subseteq Conns
              /\ \A c \in DOMAIN conn : conn[c] \in [fd : Fds, state : {"req", "res"},
                                                     idle_start : 0..MaxTime]
              /\ idle_list \in Seq(Conns)
              /\ \A i, j \in DOMAIN idle_list : idle_list[i] = idle_list[j] => i = j
              /\ DOMAIN seen = DOMAIN conn

PhaseTypes == /\ pc \in {"build", "poll", "io", "timers", "idle", "ttl", "accept"}
              /\ now \in 0..MaxTime /\ limit \in 0..(MaxTime + MS) /\ wake \in Int
              /\ DOMAIN heap \subseteq Keys /\ \A k \in DOMAIN heap : heap[k] \in Nat
              /\ DOMAIN poll_args \subseteq Fds /\ revents \subseteq DOMAIN poll_args
              /\ serving \in Conns \cup {None}
              /\ listening \in BOOLEAN /\ slept \in {"no", "timer"}

\* A step that leaves the tables alone keeps what relates them.
LEMMA Unmoved ==
  ASSUME Inv, UNCHANGED <<fd2conn, conn, idle_list>>, DOMAIN seen' = DOMAIN seen
  PROVE  TableTypes' /\ TablesAgree' /\ Sorted'
<1>1. fd2conn' = fd2conn /\ conn' = conn /\ idle_list' = idle_list /\ DOMAIN seen' = DOMAIN seen
  OBVIOUS
<1>2. TableTypes'
  BY <1>1 DEF Inv, TypeOK, TableTypes
<1>3. TablesAgree'
  BY <1>1 DEF Inv, TablesAgree
<1>4. Sorted'
  BY <1>1 DEF Inv, Sorted
<1>. QED BY <1>2, <1>3, <1>4

LEMMA Untouched ==
  ASSUME Inv, UNCHANGED tables
  PROVE  TableTypes' /\ TablesAgree' /\ Sorted'
<1>1. UNCHANGED <<fd2conn, conn, idle_list>> /\ DOMAIN seen' = DOMAIN seen
  BY DEF tables
<1>. QED BY <1>1, Unmoved

\* Closing a connection takes it out of every table.
LEMMA DoneKeeps ==
  ASSUME Inv, NEW c \in DOMAIN conn, ConnDone(c)
  PROVE  /\ TableTypes' /\ TablesAgree' /\ Sorted'
         /\ DOMAIN conn' = DOMAIN conn \ {c}
         /\ \A d \in DOMAIN conn' : conn'[d] = conn[d] /\ seen'[d] = seen[d]
         /\ \A f \in Fds : f # conn[c].fd => fd2conn'[f] = fd2conn[f]
<1>. USE DEF Inv
<1>1. c \in Range(idle_list) /\ conn[c].fd \in Fds
  BY ConnFacts DEF TablesAgree
<1>2. /\ DOMAIN conn' = DOMAIN conn \ {c}
      /\ \A d \in DOMAIN conn' : conn'[d] = conn[d]
  BY DEF ConnDone, Restrict
<1>3. /\ DOMAIN seen' = DOMAIN conn'
      /\ \A d \in DOMAIN conn' : seen'[d] = seen[d]
  BY <1>2 DEF ConnDone, Restrict, TypeOK
<1>4. /\ fd2conn' \in [Fds -> Conns \cup {None}]
      /\ fd2conn'[conn[c].fd] = None
      /\ \A f \in Fds : f # conn[c].fd => fd2conn'[f] = fd2conn[f]
  BY <1>1 DEF ConnDone, TypeOK
<1>5. idle_list' = Detached(c)
  BY DEF ConnDone
<1>6. /\ idle_list' \in Seq(Conns) /\ Range(idle_list') = DOMAIN conn'
      /\ \A i, j \in DOMAIN idle_list' :
           /\ idle_list'[i] = idle_list'[j] => i = j
           /\ i < j => conn[idle_list'[i]].idle_start <= conn[idle_list'[j]].idle_start
      /\ \A i \in DOMAIN idle_list' : idle_list'[i] \in DOMAIN conn'
  <2>1. Range(idle_list') = DOMAIN conn'
    BY <1>1, <1>2, <1>5, DetachFacts DEF TablesAgree
  <2>2. \A i \in DOMAIN idle_list' : idle_list'[i] \in Range(idle_list')
    BY DEF Range
  <2>. QED BY <1>1, <1>5, <2>1, <2>2, DetachFacts, DetachOrder
<1>7. TableTypes'
  BY <1>2, <1>3, <1>4, <1>6 DEF TableTypes, TypeOK
<1>8. TablesAgree'
  <2>1. \A f \in Fds : fd2conn'[f] # None =>
           fd2conn'[f] \in DOMAIN conn' /\ conn'[fd2conn'[f]].fd = f
    BY <1>2, <1>4 DEF TablesAgree
  <2>2. \A d \in DOMAIN conn' : fd2conn'[conn'[d].fd] = d
    <3>. SUFFICES ASSUME NEW d \in DOMAIN conn'
                  PROVE  fd2conn'[conn'[d].fd] = d
      OBVIOUS
    <3>1. d \in DOMAIN conn /\ d # c /\ conn'[d] = conn[d]
      BY <1>2
    <3>2. fd2conn[conn[d].fd] = d /\ fd2conn[conn[c].fd] = c /\ conn[d].fd \in Fds
      BY <3>1, ConnFacts DEF TablesAgree
    <3>. QED BY <1>4, <3>1, <3>2
  <2>. QED BY <1>6, <2>1, <2>2 DEF TablesAgree
<1>9. Sorted'
  BY <1>2, <1>6 DEF Sorted
<1>. QED BY <1>2, <1>3, <1>4, <1>7, <1>8, <1>9

\* Serving a connection moves it to the end of the list.
LEMMA TouchKeeps ==
  ASSUME Inv, NEW c \in DOMAIN conn, Touch(c), UNCHANGED <<fd2conn, seen>>
  PROVE  /\ TableTypes' /\ TablesAgree' /\ Sorted'
         /\ DOMAIN conn' = DOMAIN conn
         /\ conn'[c].idle_start = now /\ conn'[c].fd = conn[c].fd
         /\ \A d \in DOMAIN conn \ {c} : conn'[d] = conn[d]
<1>. USE DEF Inv
<1>1. c \in Range(idle_list) /\ conn[c].fd \in Fds /\ c \in Conns
  BY ConnFacts DEF TablesAgree
<1>2. /\ DOMAIN conn' = DOMAIN conn
      /\ conn'[c] = [conn[c] EXCEPT !.idle_start = now]
      /\ \A d \in DOMAIN conn \ {c} : conn'[d] = conn[d]
  BY DEF Touch
<1>3. /\ conn'[c] \in [fd : Fds, state : {"req", "res"}, idle_start : 0..MaxTime]
      /\ conn'[c].fd = conn[c].fd /\ conn'[c].idle_start = now
  <2>1. conn[c] \in [fd : Fds, state : {"req", "res"}, idle_start : 0..MaxTime] /\ now \in 0..MaxTime
    BY DEF TypeOK
  <2>. QED BY <1>2, <2>1
<1>4. DOMAIN seen' = DOMAIN conn'
  BY <1>2 DEF TypeOK
<1>. DEFINE l == Detached(c)
            n == Len(l)
<1>5. /\ l \in Seq(Conns) /\ Range(l) = DOMAIN conn \ {c}
      /\ \A i \in DOMAIN l : l[i] \in DOMAIN conn \ {c}
      /\ \A i, j \in DOMAIN l :
           /\ l[i] = l[j] => i = j
           /\ i < j => conn[l[i]].idle_start <= conn[l[j]].idle_start
  <2>1. \A i \in DOMAIN l : l[i] \in Range(l)
    BY DEF Range
  <2>. QED BY <1>1, <2>1, DetachFacts, DetachOrder DEF TablesAgree
<1>6. idle_list' = Append(l, c)
  BY DEF Touch
<1>. HIDE DEF l
<1>7. /\ idle_list' \in Seq(Conns) /\ n \in Nat /\ DOMAIN l = 1..n
      /\ DOMAIN idle_list' = 1..(n + 1)
      /\ idle_list'[n + 1] = c /\ \A i \in 1..n : idle_list'[i] = l[i]
      /\ Range(idle_list') = DOMAIN conn
  <2>1. Range(idle_list') = Range(l) \cup {c}
    BY <1>1, <1>5, <1>6, AppendFacts
  <2>2. Range(l) \cup {c} = DOMAIN conn
    BY <1>5
  <2>3. /\ idle_list' \in Seq(Conns) /\ n \in Nat /\ DOMAIN l = 1..n
        /\ DOMAIN idle_list' = 1..(n + 1)
        /\ idle_list'[n + 1] = c /\ \A i \in 1..n : idle_list'[i] = l[i]
    BY <1>1, <1>5, <1>6, AppendFacts
  <2>. QED BY <2>1, <2>2, <2>3
<1>. HIDE DEF n
<1>8. \A i \in 1..(n + 1) : i = n + 1 \/ i \in 1..n
  BY <1>7
<1>9. \A i, j \in 1..(n + 1) : idle_list'[i] = idle_list'[j] => i = j
  BY <1>5, <1>7, <1>8
<1>10. \A i, j \in 1..(n + 1) :
         i < j => conn'[idle_list'[i]].idle_start <= conn'[idle_list'[j]].idle_start
  <2>. SUFFICES ASSUME NEW i \in 1..(n + 1), NEW j \in 1..(n + 1), i < j
                PROVE  conn'[idle_list'[i]].idle_start <= conn'[idle_list'[j]].idle_start
    OBVIOUS
  <2>1. i \in 1..n /\ idle_list'[i] = l[i] /\ l[i] \in DOMAIN conn \ {c} /\ conn'[l[i]] = conn[l[i]]
    BY <1>2, <1>5, <1>7
  <2>2. CASE j = n + 1
    <3>1. conn[l[i]].idle_start <= now
      BY <2>1 DEF Clocks, Fresh
    <3>. QED BY <1>3, <1>7, <2>1, <2>2, <3>1
  <2>3. CASE j \in 1..n
    BY <1>2, <1>5, <1>7, <2>1, <2>3
  <2>. QED BY <1>8, <2>2, <2>3
<1>11. TableTypes'
  BY <1>2, <1>3, <1>4, <1>7, <1>9 DEF TableTypes, TypeOK
<1>12. TablesAgree'
  <2>1. \A d \in DOMAIN conn : conn'[d].fd = conn[d].fd
    BY <1>2, <1>3
  <2>2. \A f \in Fds : fd2conn'[f] # None =>
           fd2conn'[f] \in DOMAIN conn' /\ conn'[fd2conn'[f]].fd = f
    BY <1>2, <2>1 DEF TablesAgree
  <2>3. \A d \in DOMAIN conn' : fd2conn'[conn'[d].fd] = d
    BY <1>2, <2>1 DEF TablesAgree
  <2>. QED BY <1>2, <1>7, <2>2, <2>3 DEF TablesAgree
<1>13. Sorted'
  BY <1>7, <1>10 DEF Sorted
<1>. QED BY <1>2, <1>3, <1>11, <1>12, <1>13

\* The state of a connection is in no table.
LEMMA StateKeeps ==
  ASSUME Inv, NEW c \in DOMAIN conn, NEW s \in {"req", "res"},
         conn' = [conn EXCEPT ![c].state = s], UNCHANGED <<fd2conn, idle_list, seen>>
  PROVE  /\ TableTypes' /\ TablesAgree' /\ Sorted'
         /\ DOMAIN conn' = DOMAIN conn
         /\ \A d \in DOMAIN conn : conn'[d].fd = conn[d].fd /\ conn'[d].idle_start = conn[d].idle_start
<1>. USE DEF Inv
<1>1. /\ DOMAIN conn' = DOMAIN conn
      /\ conn'[c] = [conn[c] EXCEPT !.state = s]
      /\ \A d \in DOMAIN conn \ {c} : conn'[d] = conn[d]
  OBVIOUS
<1>2. \A d \in DOMAIN conn : conn[d] \in [fd : Fds, state : {"req", "res"}, idle_start : 0..MaxTime]
  BY DEF TypeOK
<1>3. /\ conn'[c] \in [fd : Fds, state : {"req", "res"}, idle_start : 0..MaxTime]
      /\ conn'[c].fd = conn[c].fd /\ conn'[c].idle_start = conn[c].idle_start
  BY <1>1, <1>2
<1>4. \A d \in DOMAIN conn :
        /\ conn'[d] \in [fd : Fds, state : {"req", "res"}, idle_start : 0..MaxTime]
        /\ conn'[d].fd = conn[d].fd /\ conn'[d].idle_start = conn[d].idle_start
  BY <1>1, <1>2, <1>3
<1>5. TableTypes'
  BY <1>1, <1>4 DEF TableTypes, TypeOK
<1>6. TablesAgree'
  BY <1>1, <1>4 DEF TablesAgree
<1>7. Sorted'
  <2>1. \A i \in DOMAIN idle_list : idle_list[i] \in DOMAIN conn
    BY DEF TablesAgree, Range
  <2>. QED BY <1>4, <2>1 DEF Sorted
<1>. QED BY <1>1, <1>4, <1>5, <1>6, <1>7

\* A new connection goes to the end of the list.
LEMMA AcceptKeeps ==
  ASSUME Inv, Accept
  PROVE  /\ TableTypes' /\ TablesAgree' /\ Sorted'
         /\ \A d \in DOMAIN conn' : /\ conn'[d].idle_start <= now
                                     /\ seen'[d] \in Nat /\ seen'[d] <= now
                                     /\ seen'[d] <= conn'[d].idle_start
<1>. USE DEF Inv
<1>. DEFINE f == Minimum(FreeFds)
<1>1. PICK c \in Conns \ DOMAIN conn :
        /\ fd2conn' = [fd2conn EXCEPT ![f] = c]
        /\ conn' = [d \in DOMAIN conn \cup {c} |->
                      IF d = c THEN [fd |-> f, state |-> "req", idle_start |-> now] ELSE conn[d]]
        /\ idle_list' = Append(idle_list, c)
        /\ seen' = [d \in DOMAIN conn \cup {c} |-> IF d = c THEN now ELSE seen[d]]
  BY DEF Accept
<1>2. f \in Fds /\ fd2conn[f] = None
  <2>1. FreeFds \subseteq Nat /\ FreeFds # {}
    BY FdAssumption DEF FreeFds, Accept
  <2>2. f \in FreeFds
    BY <2>1, MinimumIsLeast
  <2>. QED BY <2>2 DEF FreeFds
<1>. HIDE DEF f
<1>3. /\ DOMAIN conn' = DOMAIN conn \cup {c}
      /\ conn'[c] = [fd |-> f, state |-> "req", idle_start |-> now] /\ seen'[c] = now
      /\ \A d \in DOMAIN conn : d # c /\ conn'[d] = conn[d] /\ seen'[d] = seen[d]
      /\ DOMAIN seen' = DOMAIN conn'
  BY <1>1
<1>4. now \in 0..MaxTime /\ conn'[c].idle_start = now /\ conn'[c].fd = f
      /\ conn'[c] \in [fd : Fds, state : {"req", "res"}, idle_start : 0..MaxTime]
  BY <1>2, <1>3 DEF TypeOK
<1>. DEFINE n == Len(idle_list)
<1>5. /\ idle_list' \in Seq(Conns) /\ n \in Nat /\ DOMAIN idle_list = 1..n
      /\ DOMAIN idle_list' = 1..(n + 1)
      /\ idle_list'[n + 1] = c /\ \A i \in 1..n : idle_list'[i] = idle_list[i]
      /\ Range(idle_list') = DOMAIN conn'
  <2>1. idle_list \in Seq(Conns) /\ Range(idle_list) = DOMAIN conn
    BY DEF TypeOK, TablesAgree
  <2>2. Range(idle_list') = Range(idle_list) \cup {c}
    BY <1>1, <2>1, AppendFacts
  <2>3. Range(idle_list) \cup {c} = DOMAIN conn'
    BY <1>3, <2>1
  <2>4. /\ idle_list' \in Seq(Conns) /\ n \in Nat /\ DOMAIN idle_list = 1..n
        /\ DOMAIN idle_list' = 1..(n + 1)
        /\ idle_list'[n + 1] = c /\ \A i \in 1..n : idle_list'[i] = idle_list[i]
    BY <1>1, <2>1, AppendFacts
  <2>. QED BY <2>2, <2>3, <2>4
<1>. HIDE DEF n
<1>6. \A i \in 1..(n + 1) : i = n + 1 \/ i \in 1..n
  BY <1>5
<1>7. \A i \in 1..n : idle_list[i] \in DOMAIN conn
  BY <1>5 DEF TablesAgree, Range
<1>8. \A i, j \in 1..(n + 1) : idle_list'[i] = idle_list'[j] => i = j
  BY <1>5, <1>6, <1>7 DEF TypeOK
<1>9. \A i, j \in 1..(n + 1) :
         i < j => conn'[idle_list'[i]].idle_start <= conn'[idle_list'[j]].idle_start
  <2>. SUFFICES ASSUME NEW i \in 1..(n + 1), NEW j \in 1..(n + 1), i < j
                PROVE  conn'[idle_list'[i]].idle_start <= conn'[idle_list'[j]].idle_start
    OBVIOUS
  <2>1. i \in 1..n /\ idle_list'[i] = idle_list[i] /\ idle_list[i] \in DOMAIN conn
    BY <1>5, <1>7
  <2>2. conn'[idle_list[i]] = conn[idle_list[i]]
    BY <1>3, <2>1
  <2>3. CASE j = n + 1
    <3>1. conn[idle_list[i]].idle_start <= now
      BY <2>1 DEF Clocks, Fresh
    <3>. QED BY <1>4, <1>5, <2>1, <2>2, <2>3, <3>1
  <2>4. CASE j \in 1..n
    <3>1. idle_list'[j] = idle_list[j] /\ idle_list[j] \in DOMAIN conn
      BY <1>5, <1>7, <2>4
    <3>2. conn'[idle_list[j]] = conn[idle_list[j]]
      BY <1>3, <3>1
    <3>. QED BY <1>5, <2>1, <2>2, <2>4, <3>1, <3>2 DEF Sorted
  <2>. QED BY <1>6, <2>3, <2>4
<1>10. fd2conn' \in [Fds -> Conns \cup {None}] /\ fd2conn'[f] = c
       /\ \A g \in Fds \ {f} : fd2conn'[g] = fd2conn[g]
  BY <1>1, <1>2 DEF TypeOK
<1>11. TableTypes'
  <2>1. DOMAIN conn' \subseteq Conns
    BY <1>3 DEF TypeOK
  <2>2. \A d \in DOMAIN conn' : conn'[d] \in [fd : Fds, state : {"req", "res"},
                                              idle_start : 0..MaxTime]
    BY <1>3, <1>4 DEF TypeOK
  <2>. QED BY <1>3, <1>5, <1>8, <1>10, <2>1, <2>2 DEF TableTypes
<1>12. TablesAgree'
  <2>1. ASSUME NEW g \in Fds, fd2conn'[g] # None
        PROVE  fd2conn'[g] \in DOMAIN conn' /\ conn'[fd2conn'[g]].fd = g
    <3>1. CASE g = f
      BY <1>3, <1>4, <1>10, <3>1
    <3>2. CASE g # f
      <4>1. fd2conn[g] # None /\ fd2conn'[g] = fd2conn[g]
        BY <1>10, <2>1, <3>2
      <4>. QED BY <1>3, <4>1 DEF TablesAgree
    <3>. QED BY <3>1, <3>2
  <2>2. ASSUME NEW d \in DOMAIN conn' PROVE fd2conn'[conn'[d].fd] = d
    <3>1. CASE d = c
      BY <1>4, <1>10, <3>1
    <3>2. CASE d # c
      <4>1. d \in DOMAIN conn /\ conn'[d] = conn[d]
        BY <1>3, <3>2
      <4>2. fd2conn[conn[d].fd] = d /\ conn[d].fd \in Fds /\ d # None
        BY <4>1, ConnFacts, FdAssumption DEF TablesAgree
      <4>. QED BY <1>2, <1>10, <4>1, <4>2
    <3>. QED BY <3>1, <3>2
  <2>. QED BY <1>5, <2>1, <2>2 DEF TablesAgree
<1>13. Sorted'
  BY <1>5, <1>9 DEF Sorted
<1>14. \A d \in DOMAIN conn' : /\ conn'[d].idle_start <= now
                               /\ seen'[d] \in Nat /\ seen'[d] <= now
                               /\ seen'[d] <= conn'[d].idle_start
  <2>1. revents = {} /\ now \in Nat
    BY DEF Accept, Snapshot, TypeOK
  <2>2. \A d \in DOMAIN conn : /\ conn[d].idle_start <= now
                               /\ seen[d] \in Nat /\ seen[d] <= now
                               /\ seen[d] <= conn[d].idle_start
    BY <2>1 DEF Clocks, Fresh
  <2>. QED BY <1>3, <1>4, <2>1, <2>2
<1>. QED BY <1>11, <1>12, <1>13, <1>14
-----------------------------------------------------------------------------
(* the timers after a step that leaves the connections and the keys alone *)

LEMMA TimersOf ==
  ASSUME UNCHANGED <<conn, idle_list, heap>>
  PROVE  /\ Timers' = Timers /\ DOMAIN conn' = DOMAIN conn /\ DOMAIN heap' = DOMAIN heap
         /\ \A c \in DOMAIN conn : IdleDeadline(c)' = IdleDeadline(c)
         /\ \A k \in DOMAIN heap : heap'[k] = heap[k]
BY DEF Timers, IdleDeadline

LEMMA SameTimers ==
  ASSUME UNCHANGED <<tables, heap>>
  PROVE  /\ Timers' = Timers /\ DOMAIN conn' = DOMAIN conn /\ DOMAIN heap' = DOMAIN heap
         /\ \A c \in DOMAIN conn : IdleDeadline(c)' = IdleDeadline(c)
         /\ \A k \in DOMAIN heap : heap'[k] = heap[k]
BY TimersOf DEF tables

LEMMA SameClocks ==
  ASSUME Inv, UNCHANGED <<tables, revents>>, now' \in Int, now' >= now
  PROVE  \A c \in DOMAIN conn' : Fresh(c)'
<1>1. /\ conn' = conn /\ seen' = seen /\ revents' = revents
      /\ now \in Int
  BY DEF tables, Inv, TypeOK
<1>. SUFFICES ASSUME NEW c \in DOMAIN conn
              PROVE  /\ conn[c].idle_start <= now' /\ seen[c] \in Nat /\ seen[c] <= now'
                     /\ conn[c].fd \notin revents => seen[c] <= conn[c].idle_start
  BY <1>1 DEF Fresh
<1>2. /\ conn[c].idle_start \in Nat /\ conn[c].idle_start <= now
      /\ seen[c] \in Nat /\ seen[c] <= now
      /\ conn[c].fd \notin revents => seen[c] <= conn[c].idle_start
  BY ConnFacts DEF Inv, Clocks, Fresh
<1>. QED BY <1>1, <1>2

\* Nobody is served outside the io phase.
LEMMA NotServing ==
  ASSUME Inv, pc # "io"
  PROVE  serving = None
BY DEF Inv, Service
-----------------------------------------------------------------------------
(* the initial state and the steps *)

LEMMA InitInv == Init => Inv
<1>. SUFFICES ASSUME Init PROVE Inv
  OBVIOUS
<1>. USE DEF Init
<1>1. TypeOK
  <2>1. 0 \in 0..MaxTime /\ 0 \in 0..(MaxTime + MS)
    BY Products
  <2>2. idle_list \in Seq(Conns) /\ DOMAIN idle_list = {}
    BY EmptySeq
  <2>3. TableTypes
    BY <2>1, <2>2 DEF TableTypes
  <2>4. DOMAIN heap = {} /\ DOMAIN poll_args = {} /\ revents = {} /\ wake \in Int
    OBVIOUS
  <2>5. PhaseTypes
    BY <2>1, <2>4 DEF PhaseTypes
  <2>. QED BY <2>3, <2>5 DEF TypeOK, TableTypes, PhaseTypes
<1>2. TablesAgree
  <2>1. Range(idle_list) = {}
    BY EmptySeq DEF Range
  <2>. QED BY <2>1 DEF TablesAgree
<1>3. Snapshot /\ Service /\ Clocks /\ NoneOverdue /\ NoOversleep /\ Awake
  BY DEF Snapshot, PolledLive, Service, Clocks, NoneOverdue, NoOversleep, Awake
<1>4. Sorted
  BY EmptySeq DEF Sorted
<1>. QED BY <1>1, <1>2, <1>3, <1>4 DEF Inv

\* The timeout of poll: no later than any timer, and less than a millisecond
\* before the first when it is not cut.
LEMMA TimeoutFits ==
  ASSUME Inv, ~NoTimer
  PROVE  /\ WakeAt \in Int
         /\ WakeAt # -1 => NextTimer < now \/ WakeAt <= NextTimer
         /\ DOMAIN conn # {} => WakeAt # -1
         /\ WakeAt # -1 /\ (NextTimer - now) \div MS < UInt => NextTimer < WakeAt + MS
<1>. USE DEF Inv
<1>1. NextTimer \in Nat /\ NextTimer \in Timers /\ \A d \in Timers : NextTimer <= d
  BY NextIsLeast
<1>2. now \in Nat /\ MS \in Nat /\ MS >= 1 /\ UInt \in Nat /\ Idle \in Nat /\ 2 * Idle < UInt
  BY Products DEF TypeOK
<1>3. CASE NextTimer <= now
  <2>1. TimerMs = 0 /\ AsInt(0) = 0
    BY <1>2, <1>3 DEF TimerMs, AsInt
  <2>2. WakeAt = now
    BY <1>2, <2>1 DEF WakeAt
  <2>. QED BY <1>1, <1>2, <1>3, <2>2
<1>4. CASE NextTimer > now
  <2>. DEFINE a == NextTimer - now
              q == a \div MS
  <2>1. a \in Nat
    BY <1>1, <1>2, <1>4
  <2>2. q \in Nat /\ q * MS <= a /\ a < q * MS + MS /\ (a <= Idle * MS => q <= Idle)
    BY <2>1, Division
  <2>3. TimerMs = q % UInt
    BY <1>1, <1>2, <1>4 DEF TimerMs
  <2>4. q % UInt \in Nat /\ q % UInt <= q /\ (q < UInt => q % UInt = q)
    <3>1. UInt > 0
      BY <1>2
    <3>2. q \in Nat
      BY <2>2
    <3>. HIDE DEF q
    <3>. QED BY <1>2, <3>1, <3>2
  <2>5. NextTimer = now + a
    BY <1>1, <1>2
  <2>. HIDE DEF q, a
  <2>. DEFINE r == q % UInt
  <2>6. AsInt(r) = r \/ (AsInt(r) = -1 /\ 2 * r >= UInt)
    BY <1>2, <2>4 DEF AsInt
  <2>7. r * MS \in Nat /\ r * MS <= a
    <3>1. r \in Nat /\ q \in Nat /\ r <= q /\ MS \in Nat
      BY <1>2, <2>2, <2>4
    <3>2. r * MS \in Nat /\ q * MS \in Nat /\ r * MS <= q * MS
      <4>. HIDE DEF r
      <4>. QED BY <3>1, Monotone
    <3>. QED BY <2>1, <2>2, <3>2
  <2>8. WakeAt = IF AsInt(r) < 0 THEN -1 ELSE now + AsInt(r) * MS
    BY <2>3 DEF WakeAt
  <2>9. AsInt(r) < 0 <=> AsInt(r) = -1
    BY <2>4, <2>6
  <2>10. (WakeAt = -1 /\ 2 * r >= UInt) \/ WakeAt = now + r * MS
    BY <2>4, <2>6, <2>8
  <2>. HIDE DEF r
  <2>11. WakeAt \in Int /\ (WakeAt # -1 => WakeAt <= NextTimer)
    BY <1>2, <2>1, <2>5, <2>7, <2>10
  <2>12. DOMAIN conn # {} => WakeAt # -1
    <3>. SUFFICES ASSUME NEW c \in DOMAIN conn PROVE WakeAt # -1
      OBVIOUS
    <3>1. /\ IdleDeadline(Head(idle_list)) \in Timers
          /\ IdleDeadline(Head(idle_list)) <= IdleDeadline(c)
          /\ IdleDeadline(Head(idle_list)) \in Nat
      BY HeadFirst, ConnFacts
    <3>2. IdleDeadline(c) \in Nat /\ IdleDeadline(c) <= now + Idle * MS
      BY <1>2, ConnFacts, Products DEF Clocks, Fresh
    <3>3. a <= Idle * MS
      BY <1>1, <1>2, <2>1, <2>5, <3>1, <3>2, Products
    <3>4. q <= Idle
      BY <2>2, <3>3
    <3>5. r = q /\ 2 * r < UInt
      BY <1>2, <2>2, <2>4, <3>4 DEF r
    <3>. QED BY <1>2, <2>2, <2>7, <2>10, <3>5
  <2>13. WakeAt # -1 /\ q < UInt => NextTimer < WakeAt + MS
    <3>. SUFFICES ASSUME WakeAt # -1, q < UInt PROVE NextTimer < WakeAt + MS
      OBVIOUS
    <3>1. r = q
      BY <2>4 DEF r
    <3>. QED BY <1>2, <2>1, <2>2, <2>5, <2>7, <2>10, <3>1
  <2>. QED BY <2>11, <2>12, <2>13 DEF q, a
<1>. QED BY <1>1, <1>2, <1>3, <1>4

LEMMA BuildKeeps == ASSUME Inv, Build PROVE Inv'
<1>. USE DEF Inv
<1>1. UNCHANGED <<tables, heap>> /\ UNCHANGED tables /\ UNCHANGED <<now, heap, revents, listening, serving, limit>>
      /\ fd2conn' = fd2conn /\ pc = "build" /\ pc' = "poll"
      /\ poll_args' = Restrict(fd2conn, Watched) /\ wake' = WakeAt
  BY DEF Build, After, tables
<1>2. DOMAIN poll_args' = Watched /\ \A f \in Watched : poll_args'[f] = fd2conn[f]
  BY <1>1 DEF Restrict, Watched, TypeOK
<1>3. revents' = {}
  BY <1>1 DEF Snapshot
<1>4. wake' \in Int
  BY <1>1, TimeoutFits DEF WakeAt, TypeOK
<1>5. TypeOK'
  <2>1. PhaseTypes'
    <3>1. Watched \subseteq Fds
      BY DEF Watched
    <3>2. slept' \in {"no", "timer"}
      BY DEF Build
    <3>. QED BY <1>1, <1>2, <1>3, <1>4, <3>1, <3>2 DEF PhaseTypes, TypeOK
  <2>2. TableTypes'
    BY <1>1, Untouched
  <2>. QED BY <2>1, <2>2 DEF TypeOK, PhaseTypes, TableTypes
<1>6. TablesAgree' /\ Sorted'
  BY <1>1, Untouched
<1>7. Snapshot' /\ Service'
  BY <1>1, <1>2, <1>3, NotServing DEF Snapshot, PolledLive, Watched, Service
<1>8. Clocks'
  BY <1>1, SameClocks DEF Clocks, TypeOK
<1>9. NoneOverdue'
  BY <1>1 DEF NoneOverdue
<1>10. NoOversleep'
  <2>. SUFFICES ASSUME NEW x \in DOMAIN conn
                PROVE  /\ wake' # -1
                       /\ \A c \in DOMAIN conn : wake' <= IdleDeadline(c) \/ IdleDeadline(c) < now
                       /\ \A k \in DOMAIN heap : wake' <= heap[k] \/ heap[k] < now
    BY <1>1, SameTimers DEF NoOversleep
  <2>1. IdleDeadline(Head(idle_list)) \in Timers /\ Timers # {}
    BY HeadFirst
  <2>2. ~NoTimer
    BY <2>1, NextIsLeast
  <2>3. wake' # -1 /\ wake' \in Int /\ (NextTimer < now \/ wake' <= NextTimer)
    BY <1>1, <2>2, TimeoutFits
  <2>4. NextTimer \in Nat /\ now \in Nat /\ \A d \in Timers : NextTimer <= d /\ d \in Nat
    BY <2>1, NextIsLeast DEF TypeOK
  <2>5. wake' <= NextTimer \/ wake' = now
    <3>1. CASE NextTimer <= now
      <4>1. TimerMs = 0 /\ AsInt(0) = 0
        BY <3>1, Products DEF TimerMs, AsInt
      <4>2. WakeAt = now + 0 * MS
        BY <2>2, <4>1 DEF WakeAt
      <4>. QED BY <1>1, <2>4, <4>2, Products
    <3>2. CASE NextTimer > now
      BY <2>3, <2>4, <3>2
    <3>. QED BY <2>4, <3>1, <3>2
  <2>6. \A c \in DOMAIN conn : wake' <= IdleDeadline(c) \/ IdleDeadline(c) < now
    <3>. SUFFICES ASSUME NEW c \in DOMAIN conn
                  PROVE  wake' <= IdleDeadline(c) \/ IdleDeadline(c) < now
      OBVIOUS
    <3>1. IdleDeadline(Head(idle_list)) <= IdleDeadline(c) /\ IdleDeadline(c) \in Nat
          /\ IdleDeadline(Head(idle_list)) \in Timers
      BY HeadFirst, ConnFacts
    <3>2. NextTimer <= IdleDeadline(c)
      BY <2>4, <3>1
    <3>. QED BY <2>3, <2>4, <2>5, <3>1, <3>2
  <2>7. \A k \in DOMAIN heap : heap[k] \in Timers
    BY DEF Timers
  <2>8. \A k \in DOMAIN heap : wake' <= heap[k] \/ heap[k] < now
    BY <2>3, <2>4, <2>5, <2>7
  <2>. QED BY <2>3, <2>6, <2>8
<1>11. Awake'
  <2>. SUFFICES ASSUME slept' = "timer"
                PROVE  wake' # -1 => \E d \in Timers : d < wake' + MS
    BY <1>1, SameTimers DEF Awake
  <2>1. ~NoTimer /\ ~((NextTimer - now) \div MS >= UInt)
    BY DEF Build
  <2>2. NextTimer \in Timers /\ NextTimer \in Nat /\ now \in Nat
    BY <2>1, NextIsLeast DEF TypeOK
  <2>3. (NextTimer - now) \div MS < UInt
    <3>1. \A x \in Int : x \div MS \in Int
      BY Products
    <3>2. (NextTimer - now) \div MS \in Int
      BY <2>2, <3>1
    <3>. QED BY <2>1, <3>2, Products
  <2>. QED BY <1>1, <2>1, <2>2, <2>3, TimeoutFits
<1>. QED BY <1>5, <1>6, <1>7, <1>8, <1>9, <1>10, <1>11

LEMMA PollReturnKeeps == ASSUME Inv, PollReturn PROVE Inv'
<1>. USE DEF Inv
<1>1. /\ UNCHANGED <<now, heap, poll_args, serving, limit, fd2conn, conn, idle_list>>
      /\ pc = "poll" /\ pc' = "io" /\ wake' = -1 /\ serving = None /\ revents = {}
  BY NotServing DEF PollReturn, After, Snapshot
<1>2. PICK ready \in SUBSET DOMAIN poll_args, l \in BOOLEAN :
        /\ revents' = ready /\ listening' = l
        /\ seen' = [c \in DOMAIN seen |->
                      IF \E f \in ready : poll_args[f] = c THEN now ELSE seen[c]]
        /\ IF ready = {} /\ ~l
           THEN wake # -1 /\ now >= wake /\ UNCHANGED slept
           ELSE slept' = "no"
  BY DEF PollReturn
<1>3. TypeOK'
  <2>1. slept' \in {"no", "timer"}
    BY <1>2 DEF TypeOK
  <2>2. wake' \in Int
    BY <1>1
  <2>3. PhaseTypes'
    BY <1>1, <1>2, <2>1, <2>2 DEF PhaseTypes, TypeOK
  <2>. QED BY <1>1, <1>2, <2>3, Unmoved DEF TypeOK, PhaseTypes, TableTypes
<1>4. TablesAgree' /\ Sorted'
  BY <1>1, <1>2, Unmoved
<1>5. Snapshot' /\ Service'
  <2>1. \A f \in revents' : fd2conn'[f] # None /\ fd2conn'[f] = poll_args'[f]
    BY <1>1, <1>2 DEF Snapshot
  <2>. QED BY <1>1, <2>1 DEF Snapshot, PolledLive, Service
<1>6. Clocks'
  <2>. SUFFICES ASSUME NEW c \in DOMAIN conn PROVE Fresh(c)'
    BY <1>1 DEF Clocks
  <2>1. /\ conn[c].idle_start <= now /\ seen[c] \in Nat /\ seen[c] <= now
        /\ seen[c] <= conn[c].idle_start /\ now \in Nat
    BY <1>1 DEF Clocks, Fresh, TypeOK
  <2>2. c \in DOMAIN seen
    BY DEF TypeOK
  <2>3. (seen'[c] = now /\ now <= now) \/ seen'[c] = seen[c]
    BY <1>2, <2>1, <2>2
  <2>4. ASSUME conn[c].fd \notin ready PROVE seen'[c] = seen[c]
    <3>1. \A f \in ready : f \in DOMAIN poll_args
      OBVIOUS
    <3>2. \A f \in ready : poll_args[f] # c
      BY <1>1, <2>4, <3>1 DEF Snapshot, TablesAgree, TypeOK
    <3>. QED BY <1>2, <2>2, <3>2
  <2>. QED BY <1>1, <1>2, <2>1, <2>3, <2>4 DEF Fresh
<1>7. NoneOverdue' /\ NoOversleep'
  BY <1>1 DEF NoneOverdue, NoOversleep
<1>8. Awake'
  <2>. SUFFICES ASSUME slept' = "timer"
                PROVE  revents' = {} /\ \E d \in Timers : d < now + MS
    BY <1>1, TimersOf DEF Awake
  <2>1. revents' = {} /\ wake # -1 /\ now >= wake /\ slept = "timer"
    BY <1>2
  <2>2. PICK d \in Timers : d < wake + MS
    BY <1>1, <2>1 DEF Awake
  <2>3. d \in Nat /\ wake \in Int /\ now \in Int
    BY NextIsLeast DEF TypeOK
  <2>4. d < now + MS
    BY <2>1, <2>2, <2>3, Products
  <2>. QED BY <2>1, <2>4
<1>. QED BY <1>3, <1>4, <1>5, <1>6, <1>7, <1>8

LEMMA ConnectionIoKeeps == ASSUME Inv, ConnectionIo PROVE Inv'
<1>. USE DEF Inv
<1>. DEFINE f == Minimum(revents)
            c == fd2conn[f]
<1>1. /\ UNCHANGED <<pc, now, fd2conn, heap, poll_args, listening, wake, limit, seen, slept>>
      /\ pc = "io" /\ serving = None /\ revents # {}
      /\ serving' = c /\ revents' = revents \ {f} /\ Touch(c)
  BY DEF ConnectionIo
<1>2. f \in revents /\ revents \subseteq Fds /\ f \in Fds
  <2>1. revents \subseteq Nat /\ revents \subseteq Fds
    BY FdAssumption DEF TypeOK
  <2>. QED BY <1>1, <2>1, MinimumIsLeast
<1>3. c \in DOMAIN conn /\ conn[c].fd = f /\ c \in Conns
  <2>1. fd2conn[f] # None
    BY <1>1, <1>2 DEF Snapshot, PolledLive
  <2>. QED BY <1>2, <2>1, ConnFacts DEF TablesAgree
<1>. HIDE DEF f, c
<1>4. /\ TableTypes' /\ TablesAgree' /\ Sorted'
      /\ DOMAIN conn' = DOMAIN conn
      /\ conn'[c].idle_start = now /\ conn'[c].fd = f
      /\ \A d \in DOMAIN conn \ {c} : conn'[d] = conn[d]
  BY <1>1, <1>3, TouchKeeps
<1>5. TypeOK'
  <2>1. PhaseTypes'
    BY <1>1, <1>3 DEF PhaseTypes, TypeOK
  <2>. QED BY <1>4, <2>1 DEF TypeOK, PhaseTypes, TableTypes
<1>6. Snapshot'
  BY <1>1 DEF Snapshot, PolledLive
<1>7. Service'
  BY <1>1, <1>3, <1>4 DEF Service
<1>8. Clocks'
  <2>. SUFFICES ASSUME NEW d \in DOMAIN conn PROVE Fresh(d)'
    BY <1>1, <1>4 DEF Clocks
  <2>1. /\ conn[d].idle_start <= now /\ seen[d] \in Nat /\ seen[d] <= now
        /\ conn[d].fd \notin revents => seen[d] <= conn[d].idle_start
        /\ now \in Nat
    BY DEF Clocks, Fresh, TypeOK
  <2>2. CASE d = c
    BY <1>1, <1>4, <2>1, <2>2 DEF Fresh
  <2>3. CASE d # c
    <3>1. conn[d].fd # f
      BY <1>3, <2>3 DEF TablesAgree
    <3>. QED BY <1>1, <1>4, <2>1, <2>3, <3>1 DEF Fresh
  <2>. QED BY <2>2, <2>3
<1>9. NoneOverdue' /\ NoOversleep'
  BY <1>1 DEF NoneOverdue, NoOversleep
<1>10. Awake'
  BY <1>1 DEF Awake
<1>. QED BY <1>4, <1>5, <1>6, <1>7, <1>8, <1>9, <1>10

\* A request leaves numbers in the heap.
LEMMA RequestKeeps == ASSUME Inv, Request PROVE Inv'
<1>. USE DEF Inv
<1>1. /\ UNCHANGED tables
      /\ UNCHANGED <<pc, now, poll_args, revents, listening, wake, serving, limit, slept>>
      /\ serving # None /\ pc = "io" /\ UNCHANGED <<fd2conn, conn>>
  BY DEF Request, polled, tables, Service
<1>2. DOMAIN heap' \subseteq Keys /\ \A k \in DOMAIN heap' : heap'[k] \in Nat
  <2>1. DOMAIN heap \subseteq Keys /\ (\A k \in DOMAIN heap : heap[k] \in Nat) /\ now \in Nat
    BY DEF TypeOK
  <2>2. ASSUME NEW k \in Keys, NEW ms \in TtlMs,
               heap' = [i \in DOMAIN heap \cup {k} |-> IF i = k THEN now + ms * MS ELSE heap[i]]
        PROVE  DOMAIN heap' \subseteq Keys /\ \A i \in DOMAIN heap' : heap'[i] \in Nat
    <3>1. now + ms * MS \in Nat
      BY <2>1, Products
    <3>. QED BY <2>1, <2>2, <3>1
  <2>3. ASSUME NEW k \in DOMAIN heap, heap' = Restrict(heap, DOMAIN heap \ {k})
        PROVE  DOMAIN heap' \subseteq Keys /\ \A i \in DOMAIN heap' : heap'[i] \in Nat
    BY <2>1, <2>3 DEF Restrict
  <2>. QED BY <2>2, <2>3 DEF Request
<1>3. TypeOK'
  <2>1. PhaseTypes'
    BY <1>1, <1>2 DEF PhaseTypes, TypeOK
  <2>. QED BY <1>1, <2>1, Untouched DEF TypeOK, PhaseTypes, TableTypes
<1>4. TablesAgree' /\ Sorted'
  BY <1>1, Untouched
<1>5. Snapshot' /\ Service'
  BY <1>1 DEF Snapshot, PolledLive, Service
<1>6. Clocks'
  BY <1>1, SameClocks DEF Clocks, TypeOK
<1>7. NoneOverdue' /\ NoOversleep' /\ Awake'
  BY <1>1 DEF NoneOverdue, NoOversleep, Awake
<1>. QED BY <1>3, <1>4, <1>5, <1>6, <1>7

LEMMA ServedKeeps == ASSUME Inv, Served PROVE Inv'
<1>. USE DEF Inv
<1>1. /\ UNCHANGED <<pc, now, fd2conn, idle_list, seen, heap, poll_args, revents, listening,
                     wake, limit, slept>>
      /\ serving # None /\ serving' = None /\ pc = "io" /\ serving \in DOMAIN conn
  BY DEF Served, Service
<1>2. PICK s \in {"req", "res"} : conn' = [conn EXCEPT ![serving].state = s]
  BY DEF Served
<1>3. /\ TableTypes' /\ TablesAgree' /\ Sorted'
      /\ DOMAIN conn' = DOMAIN conn
      /\ \A d \in DOMAIN conn : conn'[d].fd = conn[d].fd /\ conn'[d].idle_start = conn[d].idle_start
  BY <1>1, <1>2, StateKeeps
<1>4. TypeOK'
  <2>1. PhaseTypes'
    BY <1>1 DEF PhaseTypes, TypeOK
  <2>. QED BY <1>3, <2>1 DEF TypeOK, PhaseTypes, TableTypes
<1>5. Snapshot' /\ Service'
  BY <1>1 DEF Snapshot, PolledLive, Service
<1>6. Clocks'
  BY <1>1, <1>3 DEF Clocks, Fresh
<1>7. NoneOverdue' /\ NoOversleep' /\ Awake'
  BY <1>1 DEF NoneOverdue, NoOversleep, Awake
<1>. QED BY <1>3, <1>4, <1>5, <1>6, <1>7

LEMMA EndedKeeps == ASSUME Inv, Ended PROVE Inv'
<1>. USE DEF Inv
<1>1. /\ UNCHANGED <<pc, now, heap, poll_args, revents, listening, wake, limit, slept>>
      /\ serving # None /\ serving' = None /\ ConnDone(serving)
      /\ pc = "io" /\ serving \in DOMAIN conn /\ conn[serving].fd \notin revents
  BY DEF Ended, Service
<1>2. /\ TableTypes' /\ TablesAgree' /\ Sorted'
      /\ DOMAIN conn' = DOMAIN conn \ {serving}
      /\ \A d \in DOMAIN conn' : conn'[d] = conn[d] /\ seen'[d] = seen[d]
      /\ \A f \in Fds : f # conn[serving].fd => fd2conn'[f] = fd2conn[f]
  BY <1>1, DoneKeeps
<1>3. TypeOK'
  <2>1. PhaseTypes'
    BY <1>1 DEF PhaseTypes, TypeOK
  <2>. QED BY <1>2, <2>1 DEF TypeOK, PhaseTypes, TableTypes
<1>4. Snapshot' /\ Service'
  <2>1. \A f \in revents : f \in Fds /\ f # conn[serving].fd
    BY <1>1 DEF TypeOK
  <2>2. \A f \in revents : fd2conn'[f] # None /\ fd2conn'[f] = poll_args[f]
    BY <1>1, <1>2, <2>1 DEF Snapshot, PolledLive
  <2>. QED BY <1>1, <2>2 DEF Snapshot, PolledLive, Service
<1>5. Clocks'
  BY <1>1, <1>2 DEF Clocks, Fresh
<1>6. NoneOverdue' /\ NoOversleep' /\ Awake'
  BY <1>1 DEF NoneOverdue, NoOversleep, Awake
<1>. QED BY <1>2, <1>3, <1>4, <1>5, <1>6

LEMMA IoDoneKeeps == ASSUME Inv, IoDone PROVE Inv'
<1>. USE DEF Inv
<1>1. /\ UNCHANGED <<tables, heap>> /\ UNCHANGED tables
      /\ UNCHANGED <<now, heap, revents, listening, wake, serving, limit, slept>>
      /\ pc = "io" /\ pc' = "timers" /\ revents = {} /\ serving = None /\ DOMAIN poll_args' = {}
  BY DEF IoDone, After
<1>2. TypeOK'
  <2>1. PhaseTypes'
    BY <1>1 DEF PhaseTypes, TypeOK
  <2>. QED BY <1>1, <2>1, Untouched DEF TypeOK, PhaseTypes, TableTypes
<1>3. TablesAgree' /\ Sorted'
  BY <1>1, Untouched
<1>4. Snapshot' /\ Service'
  BY <1>1 DEF Snapshot, PolledLive, Service
<1>5. Clocks'
  BY <1>1, SameClocks DEF Clocks, TypeOK
<1>6. NoneOverdue' /\ NoOversleep'
  BY <1>1 DEF NoneOverdue, NoOversleep
<1>7. Awake'
  BY <1>1, SameTimers DEF Awake
<1>. QED BY <1>2, <1>3, <1>4, <1>5, <1>6, <1>7

LEMMA StartTimersKeeps == ASSUME Inv, StartTimers PROVE Inv'
<1>. USE DEF Inv
<1>1. /\ UNCHANGED <<tables, heap>> /\ UNCHANGED tables
      /\ UNCHANGED <<now, heap, poll_args, revents, listening, wake, serving, slept>>
      /\ pc = "timers" /\ pc' = "idle" /\ limit' = now + MS
  BY DEF StartTimers, After, polled
<1>2. TypeOK'
  <2>1. limit' \in 0..(MaxTime + MS)
    BY <1>1, Products DEF TypeOK
  <2>2. PhaseTypes'
    BY <1>1, <2>1 DEF PhaseTypes, TypeOK
  <2>. QED BY <1>1, <2>2, Untouched DEF TypeOK, PhaseTypes, TableTypes
<1>3. TablesAgree' /\ Sorted'
  BY <1>1, Untouched
<1>4. Snapshot' /\ Service'
  BY <1>1, NotServing DEF Snapshot, PolledLive, Service
<1>5. Clocks'
  <2>1. limit' <= now' + MS
    BY <1>1, Products DEF TypeOK
  <2>. QED BY <1>1, <2>1, SameClocks DEF Clocks, TypeOK
<1>6. NoneOverdue' /\ NoOversleep'
  BY <1>1 DEF NoneOverdue, NoOversleep
<1>7. Awake'
  BY <1>1, SameTimers DEF Awake
<1>. QED BY <1>2, <1>3, <1>4, <1>5, <1>6, <1>7

LEMMA CloseIdleKeeps == ASSUME Inv, CloseIdle PROVE Inv'
<1>. USE DEF Inv
<1>. DEFINE c == Head(idle_list)
<1>1. /\ UNCHANGED <<pc, now, heap, poll_args, revents, listening, wake, serving, limit>>
      /\ pc = "idle" /\ slept' = "no" /\ ConnDone(c) /\ idle_list # <<>>
  BY DEF CloseIdle, polled, Overdue
<1>2. c \in DOMAIN conn
  BY <1>1, ListFacts DEF TablesAgree
<1>. HIDE DEF c
<1>3. /\ TableTypes' /\ TablesAgree' /\ Sorted'
      /\ DOMAIN conn' = DOMAIN conn \ {c}
      /\ \A d \in DOMAIN conn' : conn'[d] = conn[d] /\ seen'[d] = seen[d]
  BY <1>1, <1>2, DoneKeeps
<1>4. TypeOK'
  <2>1. PhaseTypes'
    BY <1>1 DEF PhaseTypes, TypeOK
  <2>. QED BY <1>3, <2>1 DEF TypeOK, PhaseTypes, TableTypes
<1>5. Snapshot' /\ Service'
  BY <1>1, NotServing DEF Snapshot, PolledLive, Service
<1>6. Clocks'
  BY <1>1, <1>3 DEF Clocks, Fresh
<1>7. NoneOverdue' /\ NoOversleep' /\ Awake'
  BY <1>1 DEF NoneOverdue, NoOversleep, Awake
<1>. QED BY <1>3, <1>4, <1>5, <1>6, <1>7

\* The head of the idle list is not overdue, so no connection is; and the
\* timer that woke poll, if one did, is a key's.
LEMMA IdleDoneKeeps == ASSUME Inv, IdleDone PROVE Inv'
<1>. USE DEF Inv
<1>1. /\ UNCHANGED <<tables, heap>> /\ UNCHANGED tables
      /\ UNCHANGED <<now, heap, poll_args, revents, listening, wake, serving, limit, slept>>
      /\ pc = "idle" /\ pc' = "ttl" /\ ~Overdue
  BY DEF IdleDone, After, polled
<1>2. TypeOK'
  <2>1. PhaseTypes'
    BY <1>1 DEF PhaseTypes, TypeOK
  <2>. QED BY <1>1, <2>1, Untouched DEF TypeOK, PhaseTypes, TableTypes
<1>3. TablesAgree' /\ Sorted'
  BY <1>1, Untouched
<1>4. Snapshot' /\ Service'
  BY <1>1, NotServing DEF Snapshot, PolledLive, Service
<1>5. Clocks'
  <2>1. pc' \in {"idle", "ttl"} => limit' <= now' + MS
    BY <1>1 DEF Clocks
  <2>. QED BY <1>1, <2>1, SameClocks DEF Clocks, TypeOK
<1>6. NoneOverdue'
  <2>1. ASSUME NEW c \in DOMAIN conn PROVE IdleDeadline(c) >= limit
    <3>1. /\ idle_list # <<>> /\ Head(idle_list) \in DOMAIN conn
          /\ IdleDeadline(Head(idle_list)) <= IdleDeadline(c)
      BY HeadFirst
    <3>2. ~(IdleDeadline(Head(idle_list)) < limit)
      BY <1>1, <3>1 DEF Overdue
    <3>3. IdleDeadline(Head(idle_list)) \in Nat /\ IdleDeadline(c) \in Nat /\ limit \in Nat
      BY <3>1, ConnFacts, Products DEF TypeOK
    <3>. QED BY <3>1, <3>2, <3>3
  <2>. QED BY <1>1, <2>1, SameTimers DEF NoneOverdue
<1>7. NoOversleep'
  BY <1>1 DEF NoOversleep
<1>8. Awake'
  <2>. SUFFICES ASSUME slept = "timer"
                PROVE  Due # {}
    BY <1>1 DEF Awake, Due
  <2>1. PICK d \in Timers : d < limit
    BY <1>1 DEF Awake
  <2>2. ~(idle_list # <<>> /\ d = IdleDeadline(Head(idle_list)))
    BY <1>1, <2>1 DEF Overdue
  <2>3. \E k \in DOMAIN heap : d = heap[k]
    BY <2>2 DEF Timers
  <2>. QED BY <2>1, <2>3 DEF Due
<1>. QED BY <1>2, <1>3, <1>4, <1>5, <1>6, <1>7, <1>8

LEMMA ExpireKeysKeeps == ASSUME Inv, ExpireKeys PROVE Inv'
<1>. USE DEF Inv
<1>1. /\ UNCHANGED tables
      /\ UNCHANGED <<now, poll_args, revents, listening, wake, serving>>
      /\ pc = "ttl" /\ pc' = "accept" /\ limit' = 0
  BY DEF ExpireKeys, After, polled
<1>2. PICK D \in SUBSET Due :
        /\ Cardinality(D) = Minimum({Cardinality(Due), MaxWorks + 1})
        /\ heap' = Restrict(heap, DOMAIN heap \ D)
        /\ slept' = IF D = {} THEN slept ELSE "no"
  BY DEF ExpireKeys
<1>3. TypeOK'
  <2>1. DOMAIN heap' \subseteq Keys /\ \A k \in DOMAIN heap' : heap'[k] \in Nat
    BY <1>2 DEF Restrict, TypeOK
  <2>2. slept' \in {"no", "timer"} /\ limit' \in 0..(MaxTime + MS)
    BY <1>1, <1>2, Products DEF TypeOK
  <2>3. PhaseTypes'
    BY <1>1, <2>1, <2>2 DEF PhaseTypes, TypeOK
  <2>. QED BY <1>1, <2>3, Untouched DEF TypeOK, PhaseTypes, TableTypes
<1>4. TablesAgree' /\ Sorted'
  BY <1>1, Untouched
<1>5. Snapshot' /\ Service'
  BY <1>1, NotServing DEF Snapshot, PolledLive, Service
<1>6. Clocks'
  BY <1>1, SameClocks DEF Clocks, TypeOK
<1>7. NoneOverdue' /\ NoOversleep'
  BY <1>1 DEF NoneOverdue, NoOversleep
<1>8. slept' = "no"
  <2>. SUFFICES ASSUME slept = "timer"
                PROVE  D # {}
    BY <1>2 DEF TypeOK
  <2>1. Due # {} /\ IsFiniteSet(Due)
    <3>1. Due \subseteq Keys
      BY DEF Due, TypeOK
    <3>. QED BY <1>1, <3>1, KeyAssumption, FS_Subset DEF Awake
  <2>2. Cardinality(Due) \in Nat /\ Cardinality(Due) # 0
    BY <2>1, FS_CardinalityType, FS_EmptySet
  <2>3. MaxWorks + 1 \in Nat /\ MaxWorks + 1 # 0
    BY Products
  <2>4. Minimum({Cardinality(Due), MaxWorks + 1}) \in {Cardinality(Due), MaxWorks + 1}
    BY <2>2, <2>3, MinimumIsLeast
  <2>5. Cardinality(D) # 0
    BY <1>2, <2>2, <2>3, <2>4
  <2>. QED BY <2>5, FS_EmptySet
<1>9. Awake'
  BY <1>8 DEF Awake
<1>. QED BY <1>3, <1>4, <1>5, <1>6, <1>7, <1>9

LEMMA AcceptKeepsInv == ASSUME Inv, Accept PROVE Inv'
<1>. USE DEF Inv
<1>1. /\ UNCHANGED <<now, heap, poll_args, revents, wake, serving, limit, slept>>
      /\ pc = "accept" /\ pc' = "build" /\ listening' = FALSE
  BY DEF Accept, After, polled
<1>2. TableTypes' /\ TablesAgree' /\ Sorted'
  BY AcceptKeeps
<1>3. TypeOK'
  <2>1. PhaseTypes'
    BY <1>1 DEF PhaseTypes, TypeOK
  <2>. QED BY <1>2, <2>1 DEF TypeOK, PhaseTypes, TableTypes
<1>4. Snapshot' /\ Service'
  BY <1>1, NotServing DEF Snapshot, PolledLive, Service
<1>5. Clocks'
  BY <1>1, AcceptKeeps DEF Clocks, Fresh
<1>6. NoneOverdue' /\ NoOversleep'
  BY <1>1 DEF NoneOverdue, NoOversleep
<1>7. Awake'
  BY <1>1 DEF Awake
<1>. QED BY <1>2, <1>3, <1>4, <1>5, <1>6, <1>7

LEMMA NoAcceptKeeps == ASSUME Inv, NoAccept PROVE Inv'
<1>. USE DEF Inv
<1>1. /\ UNCHANGED tables
      /\ UNCHANGED <<now, heap, poll_args, revents, wake, serving, limit, slept>>
      /\ pc = "accept" /\ pc' = "build" /\ listening' = FALSE
  BY DEF NoAccept, After, polled
<1>2. TypeOK'
  <2>1. PhaseTypes'
    BY <1>1 DEF PhaseTypes, TypeOK
  <2>. QED BY <1>1, <2>1, Untouched DEF TypeOK, PhaseTypes, TableTypes
<1>3. TablesAgree' /\ Sorted'
  BY <1>1, Untouched
<1>4. Snapshot' /\ Service'
  BY <1>1, NotServing DEF Snapshot, PolledLive, Service
<1>5. Clocks'
  BY <1>1, SameClocks DEF Clocks, TypeOK
<1>6. NoneOverdue' /\ NoOversleep' /\ Awake'
  BY <1>1 DEF NoneOverdue, NoOversleep, Awake
<1>. QED BY <1>2, <1>3, <1>4, <1>5, <1>6

\* Time passes: what is before the clock stays before it.
LEMMA TickKeeps == ASSUME Inv, Tick PROVE Inv'
<1>. USE DEF Inv
<1>1. /\ UNCHANGED <<tables, heap>> /\ UNCHANGED tables
      /\ UNCHANGED <<pc, heap, poll_args, revents, listening, wake, serving, limit, slept, fd2conn>>
      /\ now' = now + 1 /\ now < MaxTime /\ pc \notin {"idle", "ttl"}
  BY DEF Tick, polled, tables
<1>2. now \in Nat /\ now' \in 0..MaxTime /\ now' >= now /\ now' \in Int
  BY <1>1, Products DEF TypeOK
<1>3. TypeOK'
  <2>1. PhaseTypes'
    BY <1>1, <1>2 DEF PhaseTypes, TypeOK
  <2>. QED BY <1>1, <2>1, Untouched DEF TypeOK, PhaseTypes, TableTypes
<1>4. TablesAgree' /\ Sorted'
  BY <1>1, Untouched
<1>5. Snapshot' /\ Service'
  BY <1>1 DEF Snapshot, PolledLive, Service, tables
<1>6. Clocks'
  BY <1>1, <1>2, SameClocks DEF Clocks
<1>7. NoneOverdue'
  BY <1>1 DEF NoneOverdue
<1>8. NoOversleep'
  <2>. SUFFICES ASSUME pc = "poll", DOMAIN conn # {}
                PROVE  /\ wake # -1
                       /\ \A c \in DOMAIN conn : wake <= IdleDeadline(c) \/ IdleDeadline(c) < now'
                       /\ \A k \in DOMAIN heap : wake <= heap[k] \/ heap[k] < now'
    BY <1>1, SameTimers DEF NoOversleep
  <2>1. \A c \in DOMAIN conn : IdleDeadline(c) \in Nat
    BY ConnFacts
  <2>2. \A k \in DOMAIN heap : heap[k] \in Nat
    BY DEF TypeOK
  <2>3. \A c \in DOMAIN conn : wake <= IdleDeadline(c) \/ IdleDeadline(c) < now'
    BY <1>1, <1>2, <2>1 DEF NoOversleep
  <2>4. \A k \in DOMAIN heap : wake <= heap[k] \/ heap[k] < now'
    BY <1>1, <1>2, <2>2 DEF NoOversleep
  <2>. QED BY <2>3, <2>4 DEF NoOversleep
<1>9. Awake'
  <2>1. ASSUME NEW d \in Timers, d < now + MS PROVE d < now' + MS
    BY <1>1, <1>2, <2>1, NextIsLeast, Products
  <2>. QED BY <1>1, <2>1, SameTimers DEF Awake
<1>. QED BY <1>3, <1>4, <1>5, <1>6, <1>7, <1>8, <1>9

LEMMA NextInv == Inv /\ [Next]_vars => Inv'
<1>. SUFFICES ASSUME Inv, [Next]_vars PROVE Inv'
  OBVIOUS
<1>1. CASE Build
  BY <1>1, BuildKeeps
<1>2. CASE PollReturn
  BY <1>2, PollReturnKeeps
<1>3. CASE ConnectionIo
  BY <1>3, ConnectionIoKeeps
<1>13. CASE Request
  BY <1>13, RequestKeeps
<1>14. CASE Served
  BY <1>14, ServedKeeps
<1>15. CASE Ended
  BY <1>15, EndedKeeps
<1>4. CASE IoDone
  BY <1>4, IoDoneKeeps
<1>5. CASE StartTimers
  BY <1>5, StartTimersKeeps
<1>6. CASE CloseIdle
  BY <1>6, CloseIdleKeeps
<1>7. CASE IdleDone
  BY <1>7, IdleDoneKeeps
<1>8. CASE ExpireKeys
  BY <1>8, ExpireKeysKeeps
<1>9. CASE Accept
  BY <1>9, AcceptKeepsInv
<1>10. CASE NoAccept
  BY <1>10, NoAcceptKeeps
<1>11. CASE Tick
  BY <1>11, TickKeeps
<1>12. CASE UNCHANGED vars
  <2>1. /\ UNCHANGED <<tables, heap>> /\ UNCHANGED tables /\ UNCHANGED <<fd2conn, conn, idle_list, seen>>
        /\ UNCHANGED <<pc, now, heap, poll_args, revents, listening, wake, serving, limit, slept>>
    BY <1>12 DEF vars, tables
  <2>2. TypeOK'
    BY <2>1 DEF Inv, TypeOK
  <2>3. TablesAgree' /\ Sorted'
    BY <2>1, Untouched
  <2>4. Snapshot' /\ Service' /\ Clocks'
    BY <2>1 DEF Inv, Snapshot, PolledLive, Service, Clocks, Fresh
  <2>5. NoneOverdue' /\ NoOversleep'
    BY <2>1, SameTimers DEF Inv, NoneOverdue, NoOversleep
  <2>6. Awake'
    BY <2>1, SameTimers DEF Inv, Awake, Due
  <2>. QED BY <2>2, <2>3, <2>4, <2>5, <2>6 DEF Inv
<1>. QED BY <1>1, <1>2, <1>3, <1>4, <1>5, <1>6, <1>7, <1>8, <1>9, <1>10, <1>11, <1>12,
         <1>13, <1>14, <1>15 DEF Next

LEMMA InvHolds == Spec => []Inv
<1>1. Init => Inv
  BY InitInv
<1>2. Inv /\ [Next]_vars => Inv'
  BY NextInv
<1>. QED BY <1>1, <1>2, PTL DEF Spec
-----------------------------------------------------------------------------
\* The types; a Conn is in the idle list once.
THEOREM Types == Spec => []TypeOK
<1>1. Inv => TypeOK
  BY DEF Inv
<1>. QED BY <1>1, InvHolds, PTL

\* fd2conn, the idle list and the allocated Conns are the same connections in
\* every phase, whatever closes or opens one (conn_done, accept_new_conn).
THEOREM SameConnections == Spec => []TablesAgree
<1>1. Inv => TablesAgree
  BY DEF Inv
<1>. QED BY <1>1, InvHolds, PTL

\* main never uses a stale entry of poll_args: the connection it finds for a
\* ready fd is the one it polled.
THEOREM NeverStale == Spec => []PolledLive
<1>1. Inv => PolledLive
  BY DEF Inv, Snapshot
<1>. QED BY <1>1, InvHolds, PTL

\* process_timers, which stops at the first head that is not overdue, leaves
\* no overdue connection behind.
THEOREM HeadSuffices == Spec => []NoneOverdue
<1>1. Inv => NoneOverdue
  BY DEF Inv
<1>. QED BY <1>1, InvHolds, PTL

\* With a connection open, the timeout next_timer_ms returns, cut to a uint32_t
\* and to an int, is never negative and never past a deadline.
THEOREM WakesInTime == Spec => []NoOversleep
<1>1. Inv => NoOversleep
  BY DEF Inv
<1>. QED BY <1>1, InvHolds, PTL

\* A round that poll's timeout has started closes a connection or expires a
\* key: the millisecond process_timers allows makes up for the rounding down.
THEOREM NeverSpins == Spec => []NoSpin
<1>1. Inv => NoSpin
  BY DEF Inv, Awake, NoSpin, TypeOK
<1>. QED BY <1>1, InvHolds, PTL

\* The timers close a connection only when poll has not reported it for the idle
\* timeout, less a millisecond: process_timers comes after every connection that
\* is ready was served, and the timer then runs from the report or later.
THEOREM ReportsCount == Spec => ReadyKept
<1>1. ASSUME Inv, [Next]_vars
      PROVE  [\A c \in DOMAIN conn \ DOMAIN conn' :
                c # serving => seen[c] + Idle * MS < now + MS]_vars
  <2>. SUFFICES ASSUME Next, NEW c \in DOMAIN conn \ DOMAIN conn', c # serving
                PROVE  seen[c] + Idle * MS < now + MS
    BY <1>1
  <2>1. CASE CloseIdle
    <3>1. ConnDone(Head(idle_list)) /\ Overdue /\ pc = "idle"
      BY <2>1 DEF CloseIdle
    <3>2. DOMAIN conn' = DOMAIN conn \ {Head(idle_list)}
      BY <3>1 DEF ConnDone, Restrict
    <3>3. c = Head(idle_list) /\ IdleDeadline(c) < limit
      BY <3>1, <3>2 DEF Overdue
    <3>4. revents = {} /\ Fresh(c) /\ limit <= now + MS
      BY <1>1, <3>1 DEF Inv, Clocks, Snapshot
    <3>5. seen[c] \in Nat /\ seen[c] <= conn[c].idle_start
      BY <3>4 DEF Fresh
    <3>6. /\ IdleDeadline(c) = conn[c].idle_start + Idle * MS /\ conn[c].idle_start \in Nat
          /\ limit \in Int /\ now \in Int /\ MS \in Nat /\ Idle * MS \in Nat
      BY <1>1, ConnFacts, Products DEF Inv, TypeOK
    <3>. QED BY <3>3, <3>4, <3>5, <3>6
  <2>2. CASE Ended
    <3>1. DOMAIN conn' = DOMAIN conn \ {serving}
      BY <2>2 DEF Ended, ConnDone, Restrict
    <3>. QED BY <3>1
  <2>3. CASE DOMAIN conn \subseteq DOMAIN conn'
    BY <2>3
  <2>4. Accept \/ ConnectionIo \/ Served => DOMAIN conn \subseteq DOMAIN conn'
    BY DEF Accept, ConnectionIo, Touch, Served
  <2>5. CASE UNCHANGED conn
    BY <2>5
  <2>. QED BY <2>1, <2>2, <2>3, <2>4, <2>5
           DEF Next, Build, PollReturn, Request, IoDone, StartTimers, IdleDone, ExpireKeys,
               NoAccept, Tick, tables
<1>. QED BY <1>1, InvHolds, PTL DEF Spec, ReadyKept
=============================================================================
