------------------------------ MODULE NodeSet ------------------------------
(***************************************************************************)
(* What the users of hashtable.cpp rely on: a set of nodes, at most one    *)
(* for a key, whatever the state of a rehash.  A caller inserts a node     *)
(* only when the lookup just before missed (14_server.cpp:266-277,         *)
(* 432-447; zset.cpp:78-86).                                               *)
(***************************************************************************)
EXTENDS Naturals, FiniteSets

CONSTANTS Key

VARIABLES nodes,    \* the keys of the nodes in the map
          last      \* the last finished call and what it returned

setVars == <<nodes, last>>

Call(op, k, r) == [op |-> op, key |-> k, res |-> r]

SInit == nodes = {} /\ last = [op |-> "none"]

Look(k) == last' = Call("lookup", k, k \in nodes) /\ UNCHANGED nodes

Add(k) == /\ last = Call("lookup", k, FALSE)
          /\ k \notin nodes
          /\ nodes' = nodes \cup {k}
          /\ last' = Call("insert", k, TRUE)

Remove(k) == /\ nodes' = nodes \ {k}
             /\ last' = Call("pop", k, k \in nodes)

\* keys: the array header is hm_size, the elements are what h_scan visits
List == /\ last' = [op |-> "keys", size |-> Cardinality(nodes), body |-> nodes]
        /\ UNCHANGED nodes

Clear == nodes' = {} /\ last' = [op |-> "destroy"]

SNext == (\E k \in Key : Look(k) \/ Add(k) \/ Remove(k)) \/ List \/ Clear

SSpec == SInit /\ [][SNext]_setVars
=============================================================================
