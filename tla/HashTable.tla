----------------------------- MODULE HashTable -----------------------------
(***************************************************************************)
(* server/14/hashtable.cpp: the map behind the key space and the sorted    *)
(* sets.  It rehashes progressively: a full table becomes ht2 and every    *)
(* later call moves at most k_resizing_work of its nodes to ht1, so a node *)
(* may be in either table, and calls of every kind fall between two moves. *)
(*                                                                         *)
(* A call is several steps: its entry, one step per round of the loop of   *)
(* hm_help_resizing, and its end.  The server has one thread here, so      *)
(* calls do not overlap.  A node stands for its key: the key space holds   *)
(* one entry for a key, and a second node with the key of a present one    *)
(* would make a table's size disagree with its chains.  A chain is a set:  *)
(* no caller sees its order.                                               *)
(***************************************************************************)
EXTENDS Integers, FiniteSets

CONSTANTS Key,      \* the keys
          Hash,     \* their hcode
          InitCap,  \* buckets of the first table (4)
          MaxLoad,  \* k_max_load_factor (8)
          Work      \* k_resizing_work (128)

ASSUME HashAssumption == Hash \in [Key -> Nat]
ASSUME SizeAssumption == /\ InitCap \in Nat \ {0}
                         /\ MaxLoad \in Nat \ {0}
                         /\ Work \in Nat \ {0}

VARIABLES ht1, ht2,        \* HTab: cap is mask + 1, or 0 for tab == NULL
          resizing_pos,    \* bucket of ht2 the rehash has reached
          call,            \* the call in progress, with its nwork, or Idle
          last             \* the last finished call and what it returned

vars == <<ht1, ht2, resizing_pos, call, last>>

Idle == [op |-> "none", nwork |-> 0]

Done(op, k, r) == [op |-> op, key |-> k, res |-> r]
-----------------------------------------------------------------------------
(* One table.  hcode & mask is a remainder: the capacity is a power of two. *)

HInit(n) == [cap |-> n, size |-> 0, at |-> [p \in 0..(n - 1) |-> {}]]

Null == HInit(0)

Pos(h, k) == Hash[k] % h.cap

Linked(h, k, n) == [cap |-> h.cap, size |-> n,
                    at |-> [h.at EXCEPT ![Pos(h, k)] = @ \cup {k}]]

HInsert(h, k) == Linked(h, k, h.size + 1)

HLookup(h, k) == h.cap # 0 /\ k \in h.at[Pos(h, k)]

Unlinked(h, p, k, n) == [cap |-> h.cap, size |-> n,
                         at |-> [h.at EXCEPT ![p] = @ \ {k}]]

HDetach_KeepSize(h, p, k) == Unlinked(h, p, k, h.size)

HDetach(h, p, k) == Unlinked(h, p, k, h.size - 1)

Nodes(h) == UNION {h.at[p] : p \in 0..(h.cap - 1)}

\* h_scan of do_keys
Scan(h) == IF h.size = 0 THEN {} ELSE Nodes(h)
-----------------------------------------------------------------------------
(* The calls. *)

Init == /\ ht1 = Null /\ ht2 = Null
        /\ resizing_pos = 0
        /\ call = Idle
        /\ last = [op |-> "none"]

\* hm_lookup or hm_pop is entered
Begin(op, k) == /\ call = Idle
                /\ call' = [op |-> op, key |-> k, nwork |-> 0]
                /\ UNCHANGED <<ht1, ht2, resizing_pos, last>>

Overloaded(h) == ht2.cap = 0 /\ h.size \div h.cap >= MaxLoad

StartResizing_KeepPos(h) == /\ ht2' = h
                            /\ ht1' = HInit(2 * h.cap)
                            /\ UNCHANGED resizing_pos

StartResizing_SameSize(h) == /\ ht2' = h
                             /\ ht1' = HInit(h.cap)
                             /\ resizing_pos' = 0

\* hm_start_resizing: the table h becomes ht2
StartResizing(h) == /\ ht2' = h
                    /\ ht1' = HInit(2 * h.cap)
                    /\ resizing_pos' = 0

\* hm_insert up to its call of hm_help_resizing
Insert(k) ==
  LET h == HInsert(IF ht1.cap = 0 THEN HInit(InitCap) ELSE ht1, k)
  IN  /\ call = Idle
      /\ last = Done("lookup", k, FALSE)
      /\ \/ Overloaded(h) /\ StartResizing(h)
         \/ ~Overloaded(h) /\ ht1' = h /\ UNCHANGED <<ht2, resizing_pos>>
      /\ call' = [op |-> "insert", key |-> k, nwork |-> 0]
      /\ last' = Done("insert", k, TRUE)

\* the loop condition of hm_help_resizing
Helping == call # Idle /\ ht2.cap # 0 /\ call.nwork < Work /\ ht2.size > 0

Skip == /\ Helping
        /\ ht2.at[resizing_pos] = {}
        /\ resizing_pos' = resizing_pos + 1
        /\ UNCHANGED <<ht1, ht2, call, last>>

Move == /\ Helping
        /\ \E k \in ht2.at[resizing_pos] :
             /\ ht2' = HDetach(ht2, resizing_pos, k)
             /\ ht1' = HInsert(ht1, k)
        /\ call' = [call EXCEPT !.nwork = @ + 1]
        /\ UNCHANGED <<resizing_pos, last>>

Helped == call # Idle /\ ~Helping

\* ht2 when hm_help_resizing returns
Ht2 == IF ht2.size = 0 THEN Null ELSE ht2

EndLookup_NewOnly == /\ Helped /\ call.op = "lookup"
                     /\ last' = Done("lookup", call.key, HLookup(ht1, call.key))
                     /\ ht2' = Ht2
                     /\ call' = Idle
                     /\ UNCHANGED <<ht1, resizing_pos>>

EndLookup == /\ Helped /\ call.op = "lookup"
             /\ last' = Done("lookup", call.key,
                             HLookup(ht1, call.key) \/ HLookup(Ht2, call.key))
             /\ ht2' = Ht2
             /\ call' = Idle
             /\ UNCHANGED <<ht1, resizing_pos>>

EndInsert == /\ Helped /\ call.op = "insert"
             /\ ht2' = Ht2
             /\ call' = Idle
             /\ UNCHANGED <<ht1, resizing_pos, last>>

Popped(k) ==
  \/ /\ HLookup(ht1, k)
     /\ ht1' = HDetach(ht1, Pos(ht1, k), k)
     /\ ht2' = Ht2
  \/ /\ ~HLookup(ht1, k) /\ HLookup(Ht2, k)
     /\ ht2' = HDetach(Ht2, Pos(Ht2, k), k)
     /\ UNCHANGED ht1
  \/ /\ ~HLookup(ht1, k) /\ ~HLookup(Ht2, k)
     /\ ht2' = Ht2
     /\ UNCHANGED ht1

EndPop == /\ Helped /\ call.op = "pop"
          /\ Popped(call.key)
          /\ last' = Done("pop", call.key,
                          HLookup(ht1, call.key) \/ HLookup(Ht2, call.key))
          /\ call' = Idle
          /\ UNCHANGED resizing_pos

HmSize == ht1.size + ht2.size

\* do_keys: hm_size, then both tables; it does not help the rehash
Keys == /\ call = Idle
        /\ last' = [op |-> "keys", size |-> HmSize, body |-> Scan(ht1) \cup Scan(ht2)]
        /\ UNCHANGED <<ht1, ht2, resizing_pos, call>>

\* hm_destroy
Destroy == /\ call = Idle
           /\ ht1' = Null /\ ht2' = Null /\ resizing_pos' = 0
           /\ last' = [op |-> "destroy"]
           /\ UNCHANGED call

Finish == EndLookup \/ EndInsert \/ EndPop

Next == \/ \E k \in Key : Begin("lookup", k) \/ Begin("pop", k) \/ Insert(k)
        \/ Skip \/ Move \/ Finish
        \/ Keys \/ Destroy

Spec == Init /\ [][Next]_vars
-----------------------------------------------------------------------------
TabOK(h) == /\ h.cap \in Nat /\ h.size \in Nat
            /\ h.at \in [0..(h.cap - 1) -> SUBSET Key]
            /\ h = [cap |-> h.cap, size |-> h.size, at |-> h.at]

CallOK == \/ call = Idle
          \/ /\ call.op \in {"lookup", "insert", "pop"}
             /\ call.key \in Key /\ call.nwork \in 0..Work
             /\ call = [op |-> call.op, key |-> call.key, nwork |-> call.nwork]

\* The types of the tables and of the call in progress (hashtable.h); a size
\* never goes below zero, which as a size_t would be a huge number.
TypeOK == TabOK(ht1) /\ TabOK(ht2) /\ resizing_pos \in Nat /\ CallOK

Counted(h) == h.size = Cardinality(Nodes(h))

\* size is the number of nodes of the chains in each table and no key has a
\* node in both: hm_help_resizing stops, and frees ht2, on size alone
\* (hashtable.cpp:61, 73), and keys announces hm_size elements.
SizesAgree == Counted(ht1) /\ Counted(ht2) /\ Nodes(ht1) \cap Nodes(ht2) = {}

\* The scan for the next node to move has no bound of its own
\* (hashtable.cpp:61-67): it must meet the last node of ht2 before its end.
ScanInBounds == Helping => resizing_pos < ht2.cap

\* The rehash is finished before the next one is due: between calls the map
\* never holds MaxLoad nodes per bucket of ht1, whatever calls are made
\* meanwhile, so a new rehash never has to wait for ht2 (hashtable.cpp:107).
LoadBounded == call = Idle /\ ht1.cap # 0 => HmSize < MaxLoad * ht1.cap

Plain == INSTANCE NodeSet WITH nodes <- Nodes(ht1) \cup Nodes(ht2)

\* Lookups, pops, inserts and keys answer as on a plain set of nodes, a rehash
\* in progress or not: a node is found in whichever table it is, and it is
\* found once.
ImplementsNodeSet == Plain!SSpec
=============================================================================
