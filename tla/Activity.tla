------------------------------ MODULE Activity ------------------------------
(***************************************************************************)
(* The event loop of server/14/14_server.cpp with a history of the bytes   *)
(* that connections move.  connection_io reads the clock once, before it   *)
(* moves any: this module is for what follows from that.                   *)
(***************************************************************************)
EXTENDS EventLoop

VARIABLE active  \* history: when each connection last moved bytes

activityVars == <<vars, active>>

AInit == Init /\ active = [c \in {} |-> 0]

\* a step of the loop; a connection counts from its accept
Step == /\ Next
        /\ active' = [c \in DOMAIN conn' |-> IF c \in DOMAIN conn THEN active[c] ELSE now]

\* a read of try_fill_buffer or a write of try_flush_buffer that moves bytes
Transfer == /\ serving # None
            /\ active' = [active EXCEPT ![serving] = now]
            /\ UNCHANGED vars

ASpec == AInit /\ [][Step \/ Transfer]_activityVars
-----------------------------------------------------------------------------
\* The idle timer is for connections that nobody uses ("removing idle
\* connection", 14_server.cpp:783): the timers close none that moved bytes
\* within the idle timeout, less a millisecond.
ActiveKept == [][\A c \in DOMAIN conn \ DOMAIN conn' :
                   c # serving => active[c] + Idle * MS < now + MS]_activityVars
=============================================================================
