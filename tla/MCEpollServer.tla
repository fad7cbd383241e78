--------------------------- MODULE MCEpollServer ---------------------------
(* A length prefix of two bytes, messages of at most four, and a socket    *)
(* that takes three bytes of responses.  Short requests, three of which    *)
(* fill rbuf and wbuf; maximal ones; one that is too long.                 *)
EXTENDS EpollServer

Script(len) ==
    LET end[i \in 0..Len(len)] == IF i = 0 THEN 0 ELSE end[i - 1] + Header + len[i]
    IN  [n |-> Len(len), end |-> end]

Good == {Script(<<0, 0, 0, 1>>), Script(<<4, 1, 4>>)}
Refused == {Script(<<1, 5, 0>>)}

AllScripts == Good \cup Refused
=============================================================================
