---------------------------- MODULE PollServer ----------------------------
(***************************************************************************)
(* The event loop server of stages 06 and 07 with its clients, put         *)
(* together: several connections, the loop of main around them, g_map, and *)
(* client/06client.cpp, which sends all its requests before it reads a     *)
(* reply (client/07_client.cpp is the case of one request).                *)
(*                                                                         *)
(* A message is sent, read and written as a whole: Connection has them cut *)
(* anywhere.  Here the question is what several clients see of one map,    *)
(* and who waits for whom.  The kernel holds at most room messages in each *)
(* direction of a connection, and rbuf RBuf of them.  Which ready fd comes *)
(* first is left open: EventLoop has the fds.                              *)
(***************************************************************************)
EXTENDS KvMap, Sequences, FiniteSets

CONSTANTS Users,    \* the clients
          Mortal,   \* those that may be killed
          Scripts,  \* what a client may want to send: sequences of requests
          Rooms,    \* what the kernel may hold, in messages
          RBuf,     \* what rbuf holds, in messages
          Nobody    \* no connection is served

ASSUME PUserAssumption == Nobody \notin Users /\ Mortal \subseteq Users
ASSUME PSizeAssumption == /\ Scripts \subseteq Seq(Requests)
                          /\ Rooms \subseteq Nat \ {0} /\ RBuf \in Nat \ {0}

VARIABLES room,      \* what the kernel holds in this behaviour
          script,    \* the requests of each client
          upc,       \* where a client is: start, send, recv, done
          nsent,     \* how many requests it has written
          got,       \* the replies it has read
          inq, outq, \* messages in the kernel, to and from the server
          waiting,   \* connected and not accepted
          state,     \* Conn.state, "none" before and "closed" after it exists
          rbuf,      \* the requests in Conn.rbuf
          wbuf,      \* the response in Conn.wbuf, if any
          g_map,
          ppc,       \* where the loop is: poll, pick, fill, parse, flush, resume
          ready,     \* the connections that poll reported and are not served yet
          listening, \* has poll reported the listening fd
          at         \* the connection in connection_io

userVars == <<upc, nsent, got>>
connVars == <<state, rbuf, wbuf, g_map>>
loopVars == <<ppc, ready, listening, at>>
pVars == <<room, script, userVars, inq, outq, waiting, connVars, loopVars>>

Empty == [c \in Users |-> <<>>]

PInit == /\ room \in Rooms
         /\ script \in [Users -> Scripts]
         /\ upc = [c \in Users |-> "start"]
         /\ nsent = [c \in Users |-> 0]
         /\ got = Empty /\ inq = Empty /\ outq = Empty /\ waiting = <<>>
         /\ state = [c \in Users |-> "none"]
         /\ rbuf = Empty /\ wbuf = Empty /\ g_map = EmptyMap
         /\ ppc = "poll" /\ ready = {} /\ listening = FALSE /\ at = Nobody
-----------------------------------------------------------------------------
(* a client *)

UConnect(c) == /\ upc[c] = "start"
               /\ upc' = [upc EXCEPT ![c] = "send"]
               /\ waiting' = Append(waiting, c)
               /\ UNCHANGED <<room, script, nsent, got, inq, outq, connVars, loopVars>>

USend(c) == /\ upc[c] = "send" /\ nsent[c] < Len(script[c])
            /\ state[c] # "closed"
            /\ Len(inq[c]) < room
            /\ inq' = [inq EXCEPT ![c] = Append(@, script[c][nsent[c] + 1])]
            /\ nsent' = [nsent EXCEPT ![c] = @ + 1]
            /\ UNCHANGED <<room, script, upc, got, outq, waiting, connVars, loopVars>>

\* the second loop of main begins
USent(c) == /\ upc[c] = "send" /\ nsent[c] = Len(script[c])
            /\ upc' = [upc EXCEPT ![c] = "recv"]
            /\ UNCHANGED <<room, script, nsent, got, inq, outq, waiting, connVars, loopVars>>

URecv(c) == /\ upc[c] = "recv" /\ Len(got[c]) < Len(script[c])
            /\ outq[c] # <<>>
            /\ got' = [got EXCEPT ![c] = Append(@, Head(outq[c]))]
            /\ outq' = [outq EXCEPT ![c] = Tail(@)]
            /\ UNCHANGED <<room, script, upc, nsent, inq, waiting, connVars, loopVars>>

\* L_DONE: all replies are there, or the server has closed the connection
UClose(c) == /\ \/ upc[c] = "recv" /\ Len(got[c]) = Len(script[c])
                \/ upc[c] = "send" /\ state[c] = "closed"
                \/ upc[c] = "recv" /\ state[c] = "closed" /\ outq[c] = <<>>
                \/ c \in Mortal /\ upc[c] \in {"send", "recv"}
             /\ upc' = [upc EXCEPT ![c] = "done"]
             /\ UNCHANGED <<room, script, nsent, got, inq, outq, waiting, connVars, loopVars>>

Gone07(c) == upc[c] = "done"
-----------------------------------------------------------------------------
(* main *)

Readable(c) == inq[c] # <<>> \/ Gone07(c)

Writable(c) == Len(outq[c]) < room \/ Gone07(c)

ReadyFds == {c \in Users : \/ state[c] = "REQ" /\ Readable(c)
                           \/ state[c] = "RES" /\ Writable(c)}

\* a round that only waits is left out
Poll == /\ ppc = "poll"
        /\ ReadyFds # {} \/ waiting # <<>>
        /\ ppc' = "pick"
        /\ ready' = ReadyFds
        /\ listening' = (waiting # <<>>)
        /\ UNCHANGED <<room, script, userVars, inq, outq, waiting, connVars, at>>

\* connection_io
Pick(c) == /\ ppc = "pick" /\ c \in ready
           /\ ready' = ready \ {c}
           /\ at' = c
           /\ ppc' = IF state[c] = "REQ" THEN "fill" ELSE "resume"
           /\ UNCHANGED <<room, script, userVars, inq, outq, waiting, connVars, listening>>

\* the end of a round, with accept_new_conn
EndRound == /\ ppc = "pick" /\ ready = {}
            /\ ppc' = "poll"
            /\ \/ /\ listening
                  /\ waiting' = Tail(waiting)
                  /\ state' = [state EXCEPT ![Head(waiting)] = "REQ"]
                  /\ listening' = FALSE
               \/ ~listening /\ UNCHANGED <<waiting, state, listening>>
            /\ UNCHANGED <<room, script, userVars, inq, outq, rbuf, wbuf, g_map, ready, at>>

\* connection_io returns, with Conn.state = s; main destroys a connection at
\* STATE_END and the fd is free
Return(s) == /\ state' = [state EXCEPT ![at] = IF s = "END" THEN "closed" ELSE s]
             /\ ppc' = "pick" /\ at' = Nobody
-----------------------------------------------------------------------------
(* a connection *)

Least(m, n) == IF m < n THEN m ELSE n

\* the read of try_fill_buffer: requests, EAGAIN, or the end of the stream
Fill ==
  /\ ppc = "fill"
  /\ \/ /\ inq[at] # <<>>
        /\ LET n == Least(Len(inq[at]), RBuf - Len(rbuf[at])) IN
             /\ rbuf' = [rbuf EXCEPT ![at] = @ \o SubSeq(inq[at], 1, n)]
             /\ inq' = [inq EXCEPT ![at] = SubSeq(@, n + 1, Len(@))]
        /\ ppc' = "parse"
        /\ UNCHANGED <<state, at>>
     \/ /\ inq[at] = <<>> /\ ~Gone07(at)
        /\ Return("REQ")
        /\ UNCHANGED <<inq, rbuf>>
     \/ /\ Gone07(at)
        /\ Return("END")
        /\ UNCHANGED <<inq, rbuf>>
  /\ UNCHANGED <<room, script, userVars, outq, waiting, wbuf, g_map, ready, listening>>

\* the memmove of try_one_request; its mutant forgets what follows the request
Consume_All == rbuf' = [rbuf EXCEPT ![at] = <<>>]

Consume == rbuf' = [rbuf EXCEPT ![at] = Tail(@)]

\* a turn of the loop over try_one_request, up to its call of state_res
Parse ==
  /\ ppc = "parse"
  /\ \/ /\ rbuf[at] = <<>>
        /\ ppc' = "fill"
        /\ UNCHANGED <<state, rbuf, wbuf, g_map, at>>
     \/ /\ rbuf[at] # <<>> /\ Head(rbuf[at]).op = "bad"
        /\ Return("END")
        /\ UNCHANGED <<rbuf, wbuf, g_map>>
     \/ /\ rbuf[at] # <<>> /\ Head(rbuf[at]).op # "bad"
        /\ g_map' = After(g_map, Head(rbuf[at]))
        /\ wbuf' = [wbuf EXCEPT ![at] = <<ReplyTo(g_map, Head(rbuf[at]))>>]
        /\ Consume
        /\ state' = [state EXCEPT ![at] = "RES"]
        /\ ppc' = "flush"
        /\ UNCHANGED at
  /\ UNCHANGED <<room, script, userVars, inq, outq, waiting, ready, listening>>

\* try_one_request returns TRUE: the loop over it goes on, which the mutant
\* has no loop for
GoOn_Once == /\ state' = [state EXCEPT ![at] = "REQ"]
             /\ ppc' = "fill"
             /\ UNCHANGED at

GoOn == /\ state' = [state EXCEPT ![at] = "REQ"]
        /\ ppc' = "parse"
        /\ UNCHANGED at

\* state_res, called by try_one_request ("flush") or connection_io ("resume")
Flush ==
  /\ ppc \in {"flush", "resume"}
  /\ \/ /\ Len(outq[at]) < room
        /\ outq' = [outq EXCEPT ![at] = @ \o wbuf[at]]
        /\ wbuf' = [wbuf EXCEPT ![at] = <<>>]
        /\ \/ ppc = "flush" /\ GoOn
           \/ ppc = "resume" /\ Return("REQ")
     \/ /\ Len(outq[at]) = room /\ ~Gone07(at)
        /\ Return("RES")
        /\ UNCHANGED <<outq, wbuf>>
     \/ /\ Gone07(at)
        /\ Return("END")
        /\ UNCHANGED <<outq, wbuf>>
  /\ UNCHANGED <<room, script, userVars, inq, waiting, rbuf, g_map, ready, listening>>

PServer == Poll \/ (\E c \in Users : Pick(c)) \/ EndRound \/ Fill \/ Parse \/ Flush

PUser(c) == USend(c) \/ USent(c) \/ URecv(c) \/ UClose(c)

PNext == PServer \/ \E c \in Users : UConnect(c) \/ PUser(c)

PFairness == /\ WF_pVars(PServer)
             /\ \A c \in Users \ Mortal : WF_pVars(PUser(c))

PSpec == PInit /\ [][PNext]_pVars /\ PFairness
-----------------------------------------------------------------------------
\* what the server has not executed of what c has sent
Pending(c) == IF state[c] = "closed" THEN <<>> ELSE rbuf[c] \o inq[c]

\* what c has been answered: read, on its way, or in wbuf
Answers(c) == IF Gone07(c) THEN <<>> ELSE got[c] \o outq[c] \o wbuf[c]

Svc == INSTANCE KvService WITH
  map <- g_map,
  pending <- [c \in Users |-> Pending(c)],
  answers <- [c \in Users |-> Answers(c)],
  left <- [c \in Users |-> Gone07(c)]

\* However the loop interleaves the connections and wherever a response
\* blocks, the clients together see one map: each request is executed once, in
\* the order of its connection, its reply is the reply from the map at that
\* moment, and the replies reach their client complete and in order.
ImplementsKvService == Svc!KSpec

Good(c) == \A i \in DOMAIN script[c] : script[c][i].op # "bad"

\* A client whose replies the kernel can hold gets every reply, although it
\* sends everything before it reads anything: what the server leaves in rbuf
\* never waits for the client, and the client never waits for the server.
AnsweredIfRoom ==
  \A c \in Users \ Mortal :
    upc[c] = "send" /\ Good(c) /\ Len(script[c]) <= room
      ~> Len(got[c]) = Len(script[c])
=============================================================================
