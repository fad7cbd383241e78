---------------------------- MODULE EpollServer ----------------------------
(***************************************************************************)
(* One connection of the epoll echo server, 06server_epoll_exercise.cpp.   *)
(* It gathers the responses to all requests of one read in wbuf, flushes   *)
(* them together, and moves what is left in rbuf once per read.  The       *)
(* connection is registered for EPOLLIN when it is accepted and for no     *)
(* other event afterwards.                                                 *)
(*                                                                         *)
(* The response to a request is the request, so that a byte, in rbuf, in   *)
(* wbuf or on its way back, is its place in the stream of requests.        *)
(***************************************************************************)
EXTENDS Integers, Sequences

CONSTANTS Header,     \* bytes of a length prefix
          KMaxMsg,    \* k_max_msg
          SndCap,     \* bytes of responses the kernel takes from the server
          Scripts,    \* the requests of a client: how many, and where each ends
          Pipelining  \* may the client send before it has read the replies?

ASSUME SizeAssumption == /\ Header \in Nat \ {0} /\ KMaxMsg \in Nat
                         /\ SndCap \in Nat \ {0} /\ Pipelining \in BOOLEAN

ASSUME ScriptAssumption ==
    \A s \in Scripts :
        /\ s.n \in Nat
        /\ s.end \in [0..s.n -> Nat] /\ s.end[0] = 0
        /\ \A i, j \in 0..s.n : i < j => s.end[j] >= s.end[i] + Header

VARIABLES script,   \* the requests of this client
          csent,    \* bytes of them in the socket so far
          hangup,   \* has the client closed its end
          unread,   \* bytes of responses the client has not read
          wire,     \* the bytes given to write()
          start,    \* the byte of the stream before rbuf[0]
          size,     \* rbuf_size
          remain,   \* rbuf_remain: the bytes at the end of rbuf not yet parsed
          state,    \* Conn.state
          wbuf,     \* wbuf[0 .. wbuf_size - 1]
          wsent,    \* wbuf_sent
          pc        \* the next system call, or the code between two

client == <<script, csent, hangup>>
rbuf   == <<start, size, remain>>
vars   == <<client, unread, wire, rbuf, state, wbuf, wsent, pc>>

Cap == Header + KMaxMsg   \* of rbuf and of wbuf

Init == /\ script \in Scripts
        /\ csent = 0 /\ hangup = FALSE
        /\ unread = 0 /\ wire = <<>>
        /\ start = 0 /\ size = 0 /\ remain = 0
        /\ state = "REQ"
        /\ wbuf = <<>> /\ wsent = 0
        /\ pc = "wait"

-----------------------------------------------------------------------------
(* The client *)

MaySend == \/ Pipelining
           \/ csent \notin {script.end[i] : i \in 0..script.n}
           \/ unread = 0 /\ Len(wire) = csent

ClientSend == /\ ~hangup /\ MaySend
              /\ csent < script.end[script.n]
              /\ csent' = csent + 1
              /\ UNCHANGED <<script, hangup, unread, wire, rbuf, state, wbuf, wsent, pc>>

ClientRead == /\ ~hangup /\ unread > 0
              /\ unread' = unread - 1
              /\ UNCHANGED <<client, wire, rbuf, state, wbuf, wsent, pc>>

ClientClose == /\ ~hangup /\ hangup' = TRUE
               /\ UNCHANGED <<script, csent, unread, wire, rbuf, state, wbuf, wsent, pc>>

-----------------------------------------------------------------------------
(* epoll_wait, and try_fill_buffer up to the parsing *)

Received == start + size

\* Mutant of Wake: a connection with a response to send reads all the same.
Wake_ReadAlways == /\ pc = "wait"
                   /\ csent > Received \/ hangup
                   /\ pc' = "fill"
                   /\ UNCHANGED <<client, unread, wire, rbuf, state, wbuf, wsent>>

\* Bytes or the end of the stream wait in the socket: connection_io.
Wake == /\ pc = "wait"
        /\ csent > Received \/ hangup
        /\ pc' = IF state = "REQ" THEN "fill" ELSE "resume"
        /\ UNCHANGED <<client, unread, wire, rbuf, state, wbuf, wsent>>

Fill == /\ pc = "fill" /\ size < Cap
        /\ \E n \in 1..Cap - size : Received + n <= csent /\ size' = size + n
        /\ remain' = size'
        /\ pc' = "parse"
        /\ UNCHANGED <<client, unread, wire, start, state, wbuf, wsent>>

\* assert(conn->rbuf_size < sizeof(conn->rbuf))
FillAborts == /\ pc = "fill" /\ size = Cap
              /\ pc' = "aborted"
              /\ UNCHANGED <<client, unread, wire, rbuf, state, wbuf, wsent>>

FillAgain == /\ pc = "fill" /\ size < Cap
             /\ csent = Received /\ ~hangup
             /\ pc' = "wait"
             /\ UNCHANGED <<client, unread, wire, rbuf, state, wbuf, wsent>>

\* End of file, or an error after the client is gone.
FillEnd == /\ pc = "fill" /\ size < Cap /\ hangup
           /\ state' = "END" /\ pc' = "closed"
           /\ UNCHANGED <<client, unread, wire, rbuf, wbuf, wsent>>

-----------------------------------------------------------------------------
(* try_one_request *)

Parsed == start + size - remain

\* The length prefix at a byte of the stream; in the middle of a request it is
\* some bytes of its text, for which a length that is refused stands.
LenAt(p) == IF \E i \in 1..script.n : script.end[i - 1] = p
            THEN LET i == CHOOSE j \in 1..script.n : script.end[j - 1] = p
                 IN  script.end[i] - p - Header
            ELSE KMaxMsg + 1

HasPrefix == remain >= Header
TooLong   == HasPrefix /\ LenAt(Parsed) > KMaxMsg
Whole     == HasPrefix /\ ~TooLong /\ Header + LenAt(Parsed) <= remain

ParseTooLong == /\ pc = "parse" /\ TooLong
                /\ state' = "END" /\ pc' = "batch"
                /\ UNCHANGED <<client, unread, wire, rbuf, wbuf, wsent>>

ParseMore == /\ pc = "parse" /\ ~TooLong /\ ~Whole
             /\ pc' = "batch"
             /\ UNCHANGED <<client, unread, wire, rbuf, state, wbuf, wsent>>

\* A whole request; the responses are flushed first if its own does not fit.
Request == /\ pc = "parse" /\ Whole
           /\ IF Len(wbuf) + Header + LenAt(Parsed) >= Cap
              THEN state' = "RES" /\ pc' = "make_room"
              ELSE pc' = "echo" /\ UNCHANGED state
           /\ UNCHANGED <<client, unread, wire, rbuf, wbuf, wsent>>

\* The response is copied to the end of wbuf.
Echo == /\ pc = "echo"
        /\ LET n == Header + LenAt(Parsed)
           IN  /\ wbuf' = wbuf \o [i \in 1..n |-> Parsed + i]
               /\ remain' = remain - n
        /\ pc' = IF state = "REQ" THEN "parse" ELSE "batch"
        /\ UNCHANGED <<client, unread, wire, start, size, state, wsent>>

-----------------------------------------------------------------------------
(* The rest of try_fill_buffer, and try_flush_buffer *)

BatchDone == /\ pc = "batch"
             /\ state' = "RES" /\ pc' = "flush"
             /\ UNCHANGED <<client, unread, wire, rbuf, wbuf, wsent>>

\* Mutant of Compact: the rest of rbuf is not moved.
Compact_NoMove == /\ pc = "compact"
                  /\ size' = remain
                  /\ start' = start
                  /\ pc' = CASE state = "REQ" -> "fill" [] state = "RES" -> "wait"
                             [] state = "END" -> "closed"
                  /\ UNCHANGED <<client, unread, wire, remain, state, wbuf, wsent>>

\* What is left in rbuf is moved to its start, and state_req or main goes on.
Compact == /\ pc = "compact"
           /\ size' = remain
           /\ start' = Parsed
           /\ pc' = CASE state = "REQ" -> "fill" [] state = "RES" -> "wait"
                      [] state = "END" -> "closed"
           /\ UNCHANGED <<client, unread, wire, remain, state, wbuf, wsent>>

\* Where each call of state_res returns to, in state s.
After(s) == CASE pc = "make_room" -> "echo"
              [] pc = "flush"     -> "compact"
              [] pc = "resume"    -> IF s = "END" THEN "closed" ELSE "wait"

Flushing == pc \in {"make_room", "flush", "resume"}

\* write() takes n bytes; it is called, and takes none, if wbuf is empty too.
Flush == /\ Flushing
         /\ \E n \in 0..Len(wbuf) - wsent :
              /\ n = 0 => wsent = Len(wbuf)
              /\ unread + n <= SndCap
              /\ unread' = unread + n
              /\ wire' = wire \o SubSeq(wbuf, wsent + 1, wsent + n)
              /\ IF wsent + n = Len(wbuf)
                 THEN wbuf' = <<>> /\ wsent' = 0 /\ state' = "REQ" /\ pc' = After("REQ")
                 ELSE wsent' = wsent + n /\ UNCHANGED <<wbuf, state, pc>>
         /\ UNCHANGED <<client, rbuf>>

\* EAGAIN
FlushAgain == /\ Flushing /\ wsent < Len(wbuf) /\ unread = SndCap
              /\ pc' = After(state)
              /\ UNCHANGED <<client, unread, wire, rbuf, state, wbuf, wsent>>

FlushEnd == /\ Flushing /\ hangup
            /\ state' = "END" /\ pc' = After("END")
            /\ UNCHANGED <<client, unread, wire, rbuf, wbuf, wsent>>

-----------------------------------------------------------------------------

Server == \/ Wake \/ Fill \/ FillAborts \/ FillAgain \/ FillEnd
          \/ ParseTooLong \/ ParseMore \/ Request \/ Echo
          \/ BatchDone \/ Compact \/ Flush \/ FlushAgain \/ FlushEnd

Next == Server \/ ClientSend \/ ClientRead \/ ClientClose

Spec == Init /\ [][Next]_vars

\* epoll_wait reports what is registered and main serves it; a client that
\* stays connected reads its replies.
FairSpec == Spec /\ WF_vars(Server) /\ WF_vars(ClientRead)

-----------------------------------------------------------------------------

\* However requests and responses are cut, batched and blocked, every byte of
\* the requests parsed so far is either written or waits in wbuf, once and in
\* the order of the stream (lines 139-143, 195-199).
EchoInOrder == wire \o SubSeq(wbuf, wsent + 1, Len(wbuf)) = [i \in 1..Parsed |-> i]

\* assert(conn->rbuf_size < sizeof(conn->rbuf)), line 156.
AssertsHold == pc # "aborted"

\* wbuf has room for every response that is copied to it, whatever the flush
\* before the copy wrote (lines 133-140), and rbuf has room for every read of
\* a client whose messages are not too long (line 156).
BuffersSuffice ==
    /\ pc = "echo" => Len(wbuf) + Header + LenAt(Parsed) <= Cap
    /\ pc = "aborted" => \E i \in 1..script.n :
                             script.end[i] > script.end[i - 1] + Header + KMaxMsg

\* A request that arrived is answered, unless the connection ends: README.md:27
\* "while should_write_to(fd): write_until_EAGAIN(fd)".
Unserved == \E i \in 1..script.n : csent >= script.end[i] /\ Len(wire) < script.end[i]

AllServed == Unserved ~> (~Unserved \/ state = "END" \/ hangup)
=============================================================================
