-------------------------- MODULE BlockingServer --------------------------
(***************************************************************************)
(* server/04/04server.cpp with client/04client.cpp: the server takes one   *)
(* connection and answers its requests until the client leaves, with       *)
(* system calls that block; whoever else has connected waits in the        *)
(* backlog.  The client asks NQueries times and waits for each reply.      *)
(*                                                                         *)
(* The kernel keeps a bounded number of bytes for either direction of a    *)
(* connection.  A byte stands for its place in a message: rpos says which  *)
(* byte of a request the server reads next, and cpos which byte of a reply *)
(* the client reads next.  Each read and write moves any number of bytes.  *)
(***************************************************************************)
EXTENDS Integers, Sequences

CONSTANTS Clients,   \* processes that run 04client.cpp
          Peers,     \* other processes: do not check their messages, may die
          NoClient,  \* the server has no connection
          Header,    \* bytes of the length prefix (4)
          KMaxMsg04,   \* k_max_msg (4096)
          Lengths,   \* the lengths of messages
          ReplyLen,     \* strlen("world")
          NQueries,  \* calls of query in main
          Room       \* bytes the kernel keeps for one direction

Procs == Clients \cup Peers

ASSUME BProcAssumption == NoClient \notin Procs /\ Clients \cap Peers = {}
ASSUME BSizeAssumption == /\ Header \in Nat \ {0} /\ ReplyLen \in Nat \ {0}
                          /\ KMaxMsg04 \in Nat /\ ReplyLen <= KMaxMsg04
                          /\ Lengths \subseteq Nat /\ NQueries \in Nat
                          /\ Room \in Nat \ {0}

VARIABLES len,      \* the length of the messages of each client
          cpc,      \* where a client is: start, query, write, head, body, done
          asked,    \* its calls of query so far
          cleft,    \* what is left of its read_full or write_all
          cpos,     \* the next byte it reads is this one of a reply
          up,       \* bytes in flight to the server
          down,     \* bytes in flight to the client
          rpos,     \* the next byte the server reads is this one of a request
          closed,   \* has the server closed the connection
          backlog,  \* connected and not accepted
          spc,      \* where the server is: accept, head, body, reply
          cur,      \* the client of connfd
          sleft     \* what is left of its read_full or write_all

bVars == <<len, cpc, asked, cleft, cpos, up, down, rpos, closed, backlog, spc, cur, sleft>>
clientVars == <<cpc, asked, cleft, cpos>>
serverVars == <<spc, cur, sleft, closed>>

BInit == /\ len \in [Procs -> Lengths]
         /\ cpc = [c \in Procs |-> "start"]
         /\ asked = [c \in Procs |-> 0]
         /\ cleft = [c \in Procs |-> 0]
         /\ cpos = [c \in Procs |-> 0]
         /\ up = [c \in Procs |-> 0]
         /\ down = [c \in Procs |-> 0]
         /\ rpos = [c \in Procs |-> 0]
         /\ closed = [c \in Procs |-> FALSE]
         /\ backlog = <<>>
         /\ spc = "accept" /\ cur = NoClient /\ sleft = 0

Request(c) == Header + len[c]

Answer == Header + ReplyLen

\* n bytes further in a stream of messages of size m
Advance(pos, n, m) == IF pos + n >= m THEN pos + n - m ELSE pos + n

\* The length that a prefix which ends before byte pos gives, when messages
\* of this stream are m bytes long: theirs, or whatever the bytes are.
Prefix(pos, m, n) == IF pos = Advance(0, Header, m) THEN {n} ELSE 0..(KMaxMsg04 + 1)
-----------------------------------------------------------------------------
(* the client *)

Connect(c) == /\ cpc[c] = "start"
              /\ cpc' = [cpc EXCEPT ![c] = "query"]
              /\ backlog' = Append(backlog, c)
              /\ UNCHANGED <<len, asked, cleft, cpos, up, down, rpos, serverVars>>

\* query is called: its check of the length, and the message to send
Query(c) == /\ cpc[c] = "query" /\ asked[c] < NQueries
            /\ len[c] <= KMaxMsg04 \/ c \in Peers
            /\ cpc' = [cpc EXCEPT ![c] = "write"]
            /\ asked' = [asked EXCEPT ![c] = @ + 1]
            /\ cleft' = [cleft EXCEPT ![c] = Request(c)]
            /\ UNCHANGED <<len, cpos, up, down, rpos, backlog, serverVars>>

\* L_DONE: after the last query, or one that returned an error
Close(c) == /\ \/ cpc[c] = "query" /\ asked[c] = NQueries
               \/ cpc[c] = "query" /\ len[c] > KMaxMsg04 /\ c \notin Peers
               \/ cpc[c] \in {"write", "head", "body"} /\ closed[c]
               \/ c \in Peers /\ cpc[c] \notin {"start", "done"}
            /\ cpc' = [cpc EXCEPT ![c] = "done"]
            /\ UNCHANGED <<len, asked, cleft, cpos, up, down, rpos, backlog, serverVars>>

\* one write of write_all
CWrite(c) ==
  /\ cpc[c] = "write" /\ ~closed[c]
  /\ \E n \in 1..cleft[c] :
       /\ up[c] + n <= Room
       /\ up' = [up EXCEPT ![c] = @ + n]
       /\ \/ /\ n = cleft[c]
             /\ cpc' = [cpc EXCEPT ![c] = "head"]
             /\ cleft' = [cleft EXCEPT ![c] = Header]
          \/ /\ n < cleft[c]
             /\ cleft' = [cleft EXCEPT ![c] = @ - n]
             /\ UNCHANGED cpc
  /\ UNCHANGED <<len, asked, cpos, down, rpos, backlog, serverVars>>

\* one read of read_full, and what follows when it was the last one; a reply
\* that is too long ends the client
CRead(c) ==
  /\ cpc[c] \in {"head", "body"}
  /\ \E n \in 1..cleft[c] :
       /\ n <= down[c]
       /\ down' = [down EXCEPT ![c] = @ - n]
       /\ cpos' = [cpos EXCEPT ![c] = Advance(@, n, Answer)]
       /\ \/ /\ n < cleft[c]
             /\ cleft' = [cleft EXCEPT ![c] = @ - n]
             /\ UNCHANGED cpc
          \/ /\ n = cleft[c] /\ cpc[c] = "head"
             /\ \E l \in Prefix(cpos'[c], Answer, ReplyLen) :
                  /\ cpc' = [cpc EXCEPT ![c] = IF l > KMaxMsg04 THEN "done"
                                              ELSE IF l = 0 THEN "query" ELSE "body"]
                  /\ cleft' = [cleft EXCEPT ![c] = l]
          \/ /\ n = cleft[c] /\ cpc[c] = "body"
             /\ cpc' = [cpc EXCEPT ![c] = "query"]
             /\ cleft' = [cleft EXCEPT ![c] = 0]
  /\ UNCHANGED <<len, asked, up, rpos, backlog, serverVars>>
-----------------------------------------------------------------------------
(* the server *)

Accept == /\ spc = "accept" /\ backlog # <<>>
          /\ cur' = Head(backlog)
          /\ backlog' = Tail(backlog)
          /\ spc' = "head" /\ sleft' = Header
          /\ UNCHANGED <<len, clientVars, up, down, rpos, closed>>

\* main leaves its inner loop and closes connfd
HangUp == /\ closed' = [closed EXCEPT ![cur] = TRUE]
          /\ spc' = "accept" /\ cur' = NoClient /\ sleft' = 0

ToReply_Sizeof == /\ spc' = "reply" /\ sleft' = Answer + 1
                  /\ UNCHANGED <<cur, closed>>

\* one_request has the whole message: strlen(reply) bytes answer it
ToReply == /\ spc' = "reply" /\ sleft' = Answer
           /\ UNCHANGED <<cur, closed>>

\* one_request's check
TooLong(l) == l > KMaxMsg04

\* one read of read_full, and what one_request does after the last one
SRead ==
  /\ spc \in {"head", "body"}
  /\ \E n \in 1..sleft :
       /\ n <= up[cur]
       /\ up' = [up EXCEPT ![cur] = @ - n]
       /\ rpos' = [rpos EXCEPT ![cur] = Advance(@, n, Request(cur))]
       /\ \/ /\ n < sleft
             /\ sleft' = sleft - n
             /\ UNCHANGED <<spc, cur, closed>>
          \/ /\ n = sleft /\ spc = "head"
             /\ \E l \in Prefix(rpos'[cur], Request(cur), len[cur]) :
                  \/ TooLong(l) /\ HangUp
                  \/ ~TooLong(l) /\ l = 0 /\ ToReply
                  \/ /\ ~TooLong(l) /\ l > 0
                     /\ spc' = "body" /\ sleft' = l
                     /\ UNCHANGED <<cur, closed>>
          \/ n = sleft /\ spc = "body" /\ ToReply
  /\ UNCHANGED <<len, clientVars, down, backlog>>

\* one write of write_all; the kernel takes bytes for a client that has left
SWrite ==
  /\ spc = "reply"
  /\ \E n \in 1..sleft :
       /\ down[cur] + n <= Room
       /\ down' = [down EXCEPT ![cur] = @ + n]
       /\ \/ /\ n < sleft
             /\ sleft' = sleft - n
             /\ UNCHANGED spc
          \/ /\ n = sleft
             /\ spc' = "head" /\ sleft' = Header
  /\ UNCHANGED <<len, clientVars, up, rpos, backlog, cur, closed>>

Gone_AtHeader == /\ spc = "head" /\ cpc[cur] = "done"
                 /\ HangUp
                 /\ UNCHANGED <<len, clientVars, up, down, rpos, backlog>>

\* read gives 0 or an error, or write an error: the client has left
Gone == /\ spc # "accept" /\ cpc[cur] = "done"
        /\ HangUp
        /\ UNCHANGED <<len, clientVars, up, down, rpos, backlog>>

ClientStep(c) == Query(c) \/ Close(c) \/ CWrite(c) \/ CRead(c)

ServerStep == Accept \/ SRead \/ SWrite \/ Gone

BNext == ServerStep \/ \E c \in Procs : Connect(c) \/ ClientStep(c)

BFairness == /\ WF_bVars(ServerStep)
             /\ \A c \in Clients : WF_bVars(ClientStep(c))

BSpec == BInit /\ [][BNext]_bVars /\ BFairness
-----------------------------------------------------------------------------
BTypeOK ==
  /\ len \in [Procs -> Lengths]
  /\ cpc \in [Procs -> {"start", "query", "write", "head", "body", "done"}]
  /\ asked \in [Procs -> Nat] /\ cleft \in [Procs -> Nat] /\ cpos \in [Procs -> Nat]
  /\ up \in [Procs -> Nat] /\ down \in [Procs -> Nat] /\ rpos \in [Procs -> Nat]
  /\ closed \in [Procs -> BOOLEAN]
  /\ backlog \in Seq(Procs)
  /\ spc \in {"accept", "head", "body", "reply"}
  /\ cur \in Procs \cup {NoClient} /\ sleft \in Nat

\* A client and the server never both have bytes in flight to each other, and
\* at the start of a query every byte sent to it has been read: read_full
\* and write_all, on either side, keep both streams at the boundaries of
\* messages, whatever the kernel cuts, so no reply is taken for another one
\* and nobody writes to somebody who is writing to him.
HalfDuplex ==
  \A c \in Procs :
    cpc[c] # "done" /\ ~closed[c] =>
      /\ up[c] = 0 \/ down[c] = 0
      /\ cpc[c] = "query" => up[c] = 0 /\ down[c] = 0 /\ rpos[c] = 0 /\ cpos[c] = 0

\* The server closes no connection of a client that is not done with it.
NotCut == \A c \in Clients : closed[c] => cpc[c] = "done"

\* If every other process lets go of its connection, each client gets all its
\* replies (or refuses its own message): nobody waits in the backlog for ever.
EveryoneServed ==
  (\A p \in Peers : <>[](cpc[p] \in {"start", "done"})) =>
    \A c \in Clients :
      cpc[c] = "query" ~> cpc[c] = "done" /\ (asked[c] = NQueries \/ len[c] > KMaxMsg04)
=============================================================================
