---------------------------- MODULE MCConnection ----------------------------
(* A two-byte length prefix, so that it can be cut in the middle, messages  *)
(* of at most four bytes, and room for three bytes of responses, so that a  *)
(* response can block after none, some or all of its bytes.  The requests   *)
(* have every length from empty to the maximum; one reply is too big; a     *)
(* request is malformed or too long.                                        *)
EXTENDS Connection

Script(end, ok, out) ==
    {[n |-> 3, end |-> [i \in 0..3 |-> IF i = 0 THEN 0 ELSE end[i]], ok |-> ok, out |-> out,
      pipelines |-> p] : p \in BOOLEAN}

ScriptSet == UNION {Script(<<3, 9, 11>>, <<TRUE, TRUE, TRUE>>, <<1, 5, 2>>),
                    Script(<<2, 6, 9>>, <<TRUE, FALSE, TRUE>>, <<2, 1, 1>>),
                    Script(<<4, 7, 14>>, <<TRUE, TRUE, TRUE>>, <<1, 2, 1>>)}
=============================================================================
