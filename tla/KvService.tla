----------------------------- MODULE KvService -----------------------------
(***************************************************************************)
(* What the key-value server of stage 07 promises to its clients: one map, *)
(* and each client's requests answered from it one at a time, in the order *)
(* in which they were sent.                                                *)
(***************************************************************************)
EXTENDS KvMap, Sequences

CONSTANTS Users

VARIABLES map,       \* g_map
          pending,   \* the requests of each client that are not answered
          answers,   \* the replies to each client since it has connected
          left       \* has the client gone away

kvVars == <<map, pending, answers, left>>

KInit == /\ map = EmptyMap
         /\ pending = [c \in Users |-> <<>>]
         /\ answers = [c \in Users |-> <<>>]
         /\ left = [c \in Users |-> FALSE]

KAsk(c, r) == /\ pending' = [pending EXCEPT ![c] = Append(@, r)]
              /\ UNCHANGED <<map, answers, left>>

KAnswer(c) == /\ pending[c] # <<>>
              /\ LET r == Head(pending[c]) IN
                   /\ r.op # "bad"
                   /\ map' = After(map, r)
                   /\ answers' = IF left[c] THEN answers
                                 ELSE [answers EXCEPT ![c] = Append(@, ReplyTo(map, r))]
              /\ pending' = [pending EXCEPT ![c] = Tail(@)]
              /\ UNCHANGED left

\* requests are dropped only after a malformed one or for a client that left
KDrop(c) == /\ left[c] \/ (pending[c] # <<>> /\ Head(pending[c]).op = "bad")
            /\ pending' = [pending EXCEPT ![c] = <<>>]
            /\ UNCHANGED <<map, answers, left>>

KLeave(c) == /\ left' = [left EXCEPT ![c] = TRUE]
             /\ answers' = [answers EXCEPT ![c] = <<>>]
             /\ UNCHANGED <<map, pending>>

KNext == \E c \in Users : \/ \E r \in Requests : KAsk(c, r)
                          \/ KAnswer(c) \/ KDrop(c) \/ KLeave(c)

KSpec == KInit /\ [][KNext]_kvVars
=============================================================================
