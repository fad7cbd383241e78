------------------------------- MODULE KvMap -------------------------------
(***************************************************************************)
(* The requests of server/07/07_server.cpp and their replies, as functions *)
(* of g_map: a map from keys to values.  "bad" is a message that parse_req *)
(* refuses, or that is longer than k_max_msg; "unknown" has no handler.    *)
(***************************************************************************)
EXTENDS Naturals

CONSTANTS Keys07, Vals07

Requests == [op : {"get", "set", "del", "unknown", "bad"}, key : Keys07, val : Vals07]

EmptyMap == [k \in {} |-> 0]

\* do_get
DoGet07(m, k) == IF k \in DOMAIN m THEN [code |-> "RES_OK", val |-> m[k]]
               ELSE [code |-> "RES_NX"]

\* do_set
DoSet07(m, k, v) == [i \in DOMAIN m \cup {k} |-> IF i = k THEN v ELSE m[i]]

\* do_del
DoDel07(m, k) == [i \in DOMAIN m \ {k} |-> m[i]]

\* do_request: the reply to r, and the map after it; set and del answer with
\* the code alone
ReplyTo(m, r) == CASE r.op = "get" -> DoGet07(m, r.key)
                   [] r.op \in {"set", "del"} -> [code |-> "RES_OK"]
                   [] r.op \in {"unknown", "bad"} -> [code |-> "RES_ERR"]

After(m, r) == CASE r.op = "set" -> DoSet07(m, r.key, r.val)
                 [] r.op = "del" -> DoDel07(m, r.key)
                 [] r.op \in {"get", "unknown", "bad"} -> m
=============================================================================
