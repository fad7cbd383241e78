----------------------------- MODULE MCServers -----------------------------
(***************************************************************************)
(* The earlier servers with their clients, and the thread pool, in one     *)
(* run: a behaviour picks the blocking server of stage 04, the event loop  *)
(* server of stages 06 and 07, the typed protocol of stage 11, or the pool *)
(* of stage 14.                                                            *)
(***************************************************************************)
EXTENDS BlockingServer, PollServer, Protocol, ThreadPool

CONSTANTS c1, c2, p1,              \* processes
          t1, t2, t3, j1, j2, j3   \* threads and jobs

VARIABLE which  \* the server, or the pool

(* Scripts that write a key and read it, clear it and ask for nothing the  *)
(* server knows, or end in a message it refuses: two clients with two      *)
(* requests each meet in every order, and the kernel holds one message or  *)
(* all of them.                                                            *)
R(op, v) == [op |-> op, key |-> 1, val |-> v]

ScriptSet == {<<R("set", 1), R("get", 1)>>, <<R("del", 1), R("unknown", 1)>>,
              <<R("set", 2), R("bad", 1)>>}

(* Two keys, one of which can be a sorted set of two names whose lengths   *)
(* differ: with 43 bytes for a message a reply with both names is too big, *)
(* and so is a request for zquery with the longer name and an offset.      *)
NameSet == {"a", "bbbbbb"}

CommandSet ==
  {<<"keys">>, <<>>, <<"get">>}
    \cup {<<op, k>> : op \in {"get", "del"}, k \in {"k", "kk"}}
    \cup {<<"set", k, "y">> : k \in {"k", "kk"}}
    \cup {<<"zadd", "k", s, n>> : s \in {"", "1"}, n \in NameSet}
    \cup {<<"zadd", "k", "x", "a">>}
    \cup {<<op, "k", n>> : op \in {"zrem", "zscore"}, n \in NameSet}
    \cup {<<"zquery", "k", s, n, o, l>> :
            s \in {"", "1"}, n \in {"", "bbbbbb"}, o \in {"", "1", "-1"}, l \in {"2", "4"}}
    \cup {<<"zquery", "k", s, "", "", l>> : s \in {"1", "x"}, l \in {"-1", "x"}}

Messages == {"Unknown cmd", "response is too big", "expect string type", "expect zset",
             "expect fp number", "expect int"}

Words == {c[i] : <<c, i>> \in {d \in CommandSet \X (1..6) : d[2] <= Len(d[1])}}

WordLengths == [s \in Words \cup Messages |-> Len(s)]

Order == [s \in {"", "a", "bbbbbb"} |-> Len(s)]

(* strtod and strtoll accept the empty string, as 0 *)
Integrals == [s \in {"", "1", "2", "4", "-1"} |->
                CASE s = "" -> 0 [] s = "1" -> 1 [] s = "2" -> 2 [] s = "4" -> 4 [] s = "-1" -> -1]

(* Three workers and three jobs: enough for a worker to steal the job that *)
(* another one was woken for, while a third is busy or asleep.             *)
WorkerSet == {t1, t2, t3}

JobSet == {j1, j2, j3}

MCInit == /\ which \in {"blocking", "poll", "typed", "pool"}
          /\ BInit /\ PInit /\ TInit /\ Init
          \* one choice for the inputs of the servers that stand still
          /\ which # "blocking" => len = [c \in Procs |-> 0]
          /\ which # "poll" => room = 1 /\ script = [c \in Users |-> <<R("set", 1), R("get", 1)>>]

MCNext == /\ UNCHANGED which
          /\ \/ which = "blocking" /\ BNext /\ UNCHANGED <<pVars, tVars, vars>>
             \/ which = "poll" /\ PNext /\ UNCHANGED <<bVars, tVars, vars>>
             \/ which = "typed" /\ TNext /\ UNCHANGED <<bVars, pVars, vars>>
             \/ which = "pool" /\ Next /\ UNCHANGED <<bVars, pVars, tVars>>

\* the fairness of FairSpec, while the pool runs
PoolFairness == /\ WF_vars(which = "pool" /\ Producer)
                /\ \A t \in Workers : WF_vars(which = "pool" /\ Worker(t))

MCSpec == /\ MCInit /\ [][MCNext]_<<which, bVars, pVars, tVars, vars>>
          /\ BFairness /\ PFairness /\ PoolFairness
=============================================================================
