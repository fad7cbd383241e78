----------------------------- MODULE Connection -----------------------------
(***************************************************************************)
(* One client connection of server/14/14_server.cpp, from the bytes in the *)
(* socket to the bytes of the responses: state_req, try_fill_buffer,       *)
(* try_one_request, state_res and try_flush_buffer, with one action per    *)
(* system call.  The client and the kernel run between any two of them.    *)
(*                                                                         *)
(* Bytes are counted, not stored.  A script says where each request of the *)
(* client ends in its stream, whether parse_req accepts it, and how long   *)
(* the reply do_request gives is.  rbuf holds the bytes of the stream from *)
(* position lo to position hi.                                             *)
(***************************************************************************)
EXTENDS Integers

CONSTANTS Header,       \* bytes of a length prefix (4 in the code)
          KMaxMsg,      \* k_max_msg
          ErrSize,      \* size of the ERR_2BIG reply
          SndCap,       \* bytes the kernel buffers for the client
          Scripts       \* what a client may send: [n, end, ok, out, pipelines]

ASSUME SizeAssumption ==
    /\ Header \in Nat \ {0} /\ KMaxMsg \in Nat /\ SndCap \in Nat \ {0}
    /\ ErrSize \in Nat /\ Header + ErrSize <= KMaxMsg

ASSUME ScriptAssumption ==
    \A s \in Scripts :
        /\ s.n \in Nat
        /\ s.end \in [0..s.n -> Nat] /\ s.end[0] = 0
        /\ \A i, j \in 0..s.n : i < j => s.end[j] >= s.end[i] + Header
        /\ s.ok \in [1..s.n -> BOOLEAN]
        /\ s.out \in [1..s.n -> Nat]
        /\ s.pipelines \in BOOLEAN

VARIABLES script,   \* the requests of this client
          csent,    \* bytes of them in the socket so far
          hangup,   \* has the client closed its end
          unread,   \* bytes of responses in the kernel
          lo, hi,   \* rbuf: hi - lo is rbuf_size
          state,    \* Conn.state
          wsize,    \* Conn.wbuf_size
          wsent,    \* Conn.wbuf_sent
          done,     \* requests executed
          written,  \* bytes of the response to each request given to write()
          pc        \* the next system call or test for this connection

client == <<script, csent, hangup>>
rbuf   == <<lo, hi>>
wbuf   == <<wsize, wsent>>
vars   == <<client, unread, rbuf, state, wbuf, done, written, pc>>

RbufCap == Header + KMaxMsg

Init == /\ script \in Scripts
        /\ csent = 0 /\ hangup = FALSE /\ unread = 0
        /\ lo = 0 /\ hi = 0
        /\ state = "REQ"
        /\ wsize = 0 /\ wsent = 0
        /\ done = 0
        /\ written = [i \in 1..script.n |-> 0]
        /\ pc = "poll"

\* The value of the length prefix found at a position of the stream: what a
\* request starts with, or too large a number in the middle of one.
LenAt(p) == IF \E i \in 1..script.n : script.end[i - 1] = p
            THEN LET i == CHOOSE j \in 1..script.n : script.end[j - 1] = p
                 IN  script.end[i] - p - Header
            ELSE KMaxMsg + 1

\* The reply to request i, replaced when it does not fit.
OutSize(i) == IF Header + script.out[i] > KMaxMsg THEN ErrSize ELSE script.out[i]

RespSize(i) == Header + OutSize(i)

-----------------------------------------------------------------------------
(* The client *)

\* It may start a request before the earlier ones are answered only if it
\* pipelines, and always goes on with a request it has started.
MaySend == \/ script.pipelines
           \/ csent \notin {script.end[i] : i \in 0..script.n}
           \/ /\ unread = 0
              /\ \A i \in 1..script.n : script.end[i] <= csent => written[i] = RespSize(i)

ClientSend == /\ ~hangup
              /\ csent < script.end[script.n]
              /\ MaySend
              /\ csent' = csent + 1
              /\ UNCHANGED <<script, hangup, unread, rbuf, state, wbuf, done, written, pc>>

ClientRead == /\ ~hangup
              /\ unread > 0
              /\ unread' = unread - 1
              /\ UNCHANGED <<client, rbuf, state, wbuf, done, written, pc>>

ClientClose == /\ ~hangup
               /\ hangup' = TRUE
               /\ UNCHANGED <<script, csent, unread, rbuf, state, wbuf, done, written, pc>>

-----------------------------------------------------------------------------
(* The event loop and connection_io *)

\* Mutant of Wake: poll is asked for POLLIN in every state.
Wake_ReadOnly == /\ pc = "poll"
                 /\ csent > hi \/ hangup
                 /\ pc' = IF state = "REQ" THEN "fill" ELSE "flush"
                 /\ UNCHANGED <<client, unread, rbuf, state, wbuf, done, written>>

\* poll() reports the connection: readable in STATE_REQ, writable in
\* STATE_RES, or in error.
Wake == /\ pc = "poll"
        /\ \/ state = "REQ" /\ (csent > hi \/ hangup) /\ pc' = "fill"
           \/ state = "RES" /\ (unread < SndCap \/ hangup) /\ pc' = "flush"
        /\ UNCHANGED <<client, unread, rbuf, state, wbuf, done, written>>

\* Back in main(): a connection in STATE_END is destroyed.
End == state' = "END" /\ pc' = "closed"

\* try_fill_buffer reads some of what has arrived, as much as rbuf can take.
Fill == /\ pc = "fill"
        /\ \E n \in 1..RbufCap - (hi - lo) :
              /\ hi + n <= csent
              /\ hi' = hi + n
        /\ pc' = "parse"
        /\ UNCHANGED <<client, unread, lo, state, wbuf, done, written>>

\* EAGAIN: the loop of state_req ends.
FillAgain == /\ pc = "fill"
             /\ csent = hi /\ ~hangup
             /\ pc' = "poll"
             /\ UNCHANGED <<client, unread, rbuf, state, wbuf, done, written>>

\* End of file, or an error after the client is gone.
FillEnd == /\ pc = "fill"
           /\ hangup
           /\ End
           /\ UNCHANGED <<client, unread, rbuf, wbuf, done, written>>

\* try_one_request, not enough data: try_fill_buffer returns true.
ParseMore == /\ pc = "parse"
             /\ \/ hi - lo < Header
                \/ LenAt(lo) <= KMaxMsg /\ Header + LenAt(lo) > hi - lo
             /\ pc' = "fill"
             /\ UNCHANGED <<client, unread, rbuf, state, wbuf, done, written>>

\* Mutant of Complete: the length prefix is not counted.
Complete_Short == hi - lo >= Header /\ LenAt(lo) <= hi - lo

\* A whole request is in rbuf.
Complete == hi - lo >= Header /\ Header + LenAt(lo) <= hi - lo

\* "too long", or "bad req" from parse_req.
ParseEnd == /\ pc = "parse"
            /\ hi - lo >= Header
            /\ \/ LenAt(lo) > KMaxMsg
               \/ Complete /\ ~script.ok[done + 1]
            /\ End
            /\ UNCHANGED <<client, unread, rbuf, wbuf, done, written>>

\* The request is removed from rbuf, and the rest moved to its start.
Consume == lo' = lo + Header + LenAt(lo) /\ UNCHANGED hi

\* The request is executed, its response put into wbuf at offset 0.
Execute == /\ pc = "parse"
           /\ LenAt(lo) <= KMaxMsg /\ Complete
           /\ script.ok[done + 1]
           /\ done' = done + 1
           /\ wsize' = RespSize(done')
           /\ Consume
           /\ state' = "RES"
           /\ pc' = "flush_req"
           /\ UNCHANGED <<client, unread, wsent, written>>

\* Mutant of Blocked: try_one_request goes on although the response is not out.
Blocked_GoOn == pc' = IF pc = "flush_req" THEN "parse" ELSE "poll"

\* try_flush_buffer stops before the response is out: neither loop goes on.
Blocked == pc' = "poll"

\* The whole response is out.
Sent == wsent' = 0 /\ wsize' = 0

\* write() takes some bytes; "flush" is called by connection_io, "flush_req"
\* by try_one_request, whose caller then looks for another request.
Flush == /\ pc \in {"flush", "flush_req"}
         /\ \E n \in 1..wsize - wsent :
               /\ unread + n <= SndCap
               /\ unread' = unread + n
               /\ written' = [written EXCEPT ![done] = @ + n]
               /\ \/ /\ wsent + n < wsize
                     /\ wsent' = wsent + n
                     /\ UNCHANGED <<wsize, state, pc>>
                  \/ /\ wsent + n = wsize
                     /\ Sent
                     /\ state' = "REQ"
                     /\ pc' = IF pc = "flush" THEN "poll" ELSE "parse"
         /\ UNCHANGED <<client, rbuf, done>>

FlushAgain == /\ pc \in {"flush", "flush_req"}
              /\ unread = SndCap
              /\ Blocked
              /\ UNCHANGED <<client, unread, rbuf, state, wbuf, done, written>>

FlushEnd == /\ pc \in {"flush", "flush_req"}
            /\ hangup
            /\ End
            /\ UNCHANGED <<client, unread, rbuf, wbuf, done, written>>

-----------------------------------------------------------------------------

Server == \/ Wake \/ Fill \/ FillAgain \/ FillEnd
          \/ ParseMore \/ ParseEnd \/ Execute
          \/ Flush \/ FlushAgain \/ FlushEnd

Next == Server \/ ClientSend \/ ClientRead \/ ClientClose

Spec == Init /\ [][Next]_vars

\* The event loop serves a connection that poll reports, and a client that
\* stays connected reads its responses.  It need not send anything more.
FairSpec == Spec /\ WF_vars(Server) /\ WF_vars(ClientRead)

-----------------------------------------------------------------------------

\* Types of the connection's state.
TypeOK == /\ script \in Scripts
          /\ csent \in Nat /\ hangup \in BOOLEAN /\ unread \in Nat
          /\ lo \in Nat /\ hi \in Nat
          /\ state \in {"REQ", "RES", "END"}
          /\ wsize \in 0..RbufCap /\ wsent \in Nat
          /\ done \in 0..script.n
          /\ written \in [1..script.n -> Nat]
          /\ pc \in {"poll", "fill", "parse", "flush", "flush_req", "closed"}

\* The assertions of try_fill_buffer and try_flush_buffer hold: there is room
\* to read whenever read() is called, after any backlog of blocked responses.
AssertsHold == /\ pc = "fill" => hi - lo < RbufCap
               /\ lo <= hi /\ hi - lo <= RbufCap
               /\ wsent <= wsize

\* rbuf starts with the first byte of the request after those executed,
\* however the requests were cut into reads.
Aligned == lo = script.end[done]

\* The responses leave in the order of the requests, each whole before the
\* next one begins, and no byte of a blocked response is sent twice or lost.
Framing == \A i \in 1..script.n :
              written[i] = IF i > done THEN 0
                           ELSE IF i = done /\ wsize > 0 THEN wsent
                           ELSE RespSize(i)

\* Every request that arrived completely is answered, unless the connection
\* ends: server/14/14_server.cpp:672 "Try to process requests one by one."
Unserved == \E i \in 1..script.n : csent >= script.end[i] /\ written[i] < RespSize(i)

AllServed == Unserved ~> (~Unserved \/ state = "END" \/ hangup)

\* A client that waits for each reply before it sends the next request gets
\* every reply, also one that blocked (lines 710, 851).
WaitingServed ==
    Unserved /\ ~script.pipelines ~> (~Unserved \/ state = "END" \/ hangup)
=============================================================================
