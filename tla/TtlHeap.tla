------------------------------ MODULE TtlHeap ------------------------------
(***************************************************************************)
(* The array heap of server/14/heap.cpp as entry_set_ttl uses it: every    *)
(* item refers to the heap_idx of its Entry, and every move of an item     *)
(* must write its new position there.                                      *)
(*                                                                         *)
(* heap_up and heap_down move items along a path of the tree; Path is that *)
(* path, and Rotate moves the items on it by one place and writes the      *)
(* positions back.                                                         *)
(***************************************************************************)
EXTENDS Integers, Sequences, Functions

CONSTANTS Entries,      \* the Entry objects
          Deadlines,    \* the values of HeapItem.val
          None          \* no Entry

ASSUME DeadlineAssumption == Deadlines \subseteq Int

VARIABLES a,    \* g_data.heap: [val, ref] at the positions 0 .. size - 1
          size, \* g_data.heap.size()
          idx,  \* Entry.heap_idx, -1 for an entry that is not in the heap
          taken \* the last ent of process_timers

heapVars == <<a, size, idx, taken>>

HeapInit == /\ a = [p \in {} |-> 0]
            /\ size = 0
            /\ idx = [e \in Entries |-> -1]
            /\ taken = None

heap_parent(i) == (i + 1) \div 2 - 1
heap_left(i)   == i * 2 + 1
heap_right(i)  == i * 2 + 2

-----------------------------------------------------------------------------
(* heap_up, heap_down and heap_update on an array b of n items *)

\* The positions heap_up visits: up while the parent is later than b[pos].
UpPath(b, pos) ==
    LET climb[p \in 0..pos] ==
            IF p > 0 /\ b[heap_parent(p)].val > b[pos].val
            THEN <<p>> \o climb[heap_parent(p)] ELSE <<p>>
    IN  climb[pos]

\* The kid heap_down swaps with: earlier than t, the earlier of the two, and
\* the left one when they are equal.  Empty when it stops at p.
Kids(b, n, t, p) ==
    LET kids == {c \in {heap_left(p), heap_right(p)} : c < n /\ b[c].val < t}
    IN  {c \in kids : \A d \in kids \ {c} : \/ b[c].val < b[d].val
                                            \/ b[c].val = b[d].val /\ c < d}

DownPath(b, n, pos) ==
    LET sift[p \in pos..n - 1] ==
            LET next == Kids(b, n, b[pos].val, p)
            IN  IF next = {} THEN <<p>>
                ELSE <<p>> \o sift[CHOOSE c \in next : TRUE]
    IN  sift[pos]

\* Mutant of Path: heap_update only ever moves an item down.
Path_DownOnly(b, n, pos) == DownPath(b, n, pos)

Path(b, n, pos) ==
    IF pos > 0 /\ b[heap_parent(pos)].val > b[pos].val THEN UpPath(b, pos)
    ELSE DownPath(b, n, pos)

\* The items after the moves: each position of the path takes the item of
\* the next one, the last one the item the path started from.
Rotate(b, path) ==
    [p \in DOMAIN b |->
        IF \E i \in DOMAIN path : path[i] = p
        THEN LET i == CHOOSE j \in DOMAIN path : path[j] = p
             IN  b[path[IF i < Len(path) THEN i + 1 ELSE 1]]
        ELSE b[p]]

\* The positions at which *a[pos].ref = pos is executed.
Written(b, path) == {path[i] : i \in DOMAIN path}

\* heap_update(b, pos, n), run with the heap_idx values ix.
HeapUpdate(b, n, pos, ix) ==
    LET path == Path(b, n, pos)
        c    == Rotate(b, path)
    IN  /\ a' = c
        /\ idx' = [e \in Entries |->
                     IF \E p \in Written(b, path) : c[p].ref = e
                     THEN CHOOSE p \in Written(b, path) : c[p].ref = e
                     ELSE ix[e]]

-----------------------------------------------------------------------------
(* entry_set_ttl *)

\* ttl_ms >= 0: the item of the entry, new or not, gets the deadline d.
SetTtl(e, d) ==
    LET pos == IF idx[e] = -1 THEN size ELSE idx[e]
        item == [val |-> d, ref |-> e]
    IN  /\ size' = IF idx[e] = -1 THEN size + 1 ELSE size
        /\ HeapUpdate([p \in DOMAIN a \cup {pos} |-> IF p = pos THEN item ELSE a[p]],
                      size', pos, idx)
        /\ UNCHANGED taken

\* ttl_ms < 0: the last item replaces the one of the entry, whose heap_idx
\* becomes -1 (heap_update does not write it: its item is gone).
Erase(e) ==
    /\ idx[e] # -1
    /\ size' = size - 1
    /\ LET pos == idx[e]
           b == [p \in 0..size - 2 |-> IF p = pos THEN a[size - 1] ELSE a[p]]
           ix == [idx EXCEPT ![e] = -1]
       IN  IF pos < size - 1 THEN HeapUpdate(b, size - 1, pos, ix)
           ELSE a' = b /\ idx' = ix

ClearTtl(e) == Erase(e) /\ UNCHANGED taken

\* Mutant of TakeRoot: the entry of the last item is taken.
TakeRoot_Back == size > 0 /\ Erase(a[size - 1].ref) /\ taken' = a[size - 1].ref

\* process_timers: the entry of the root is deleted, and its TTL cleared.
TakeRoot == size > 0 /\ Erase(a[0].ref) /\ taken' = a[0].ref

HeapNext == \/ \E e \in Entries : ClearTtl(e) \/ \E d \in Deadlines : SetTtl(e, d)
            \/ TakeRoot

HeapSpec == HeapInit /\ [][HeapNext]_heapVars

-----------------------------------------------------------------------------

\* No item is earlier than its parent.
HeapOrder == \A i \in 1..size - 1 : a[heap_parent(i)].val <= a[i].val

\* heap_idx and the items refer to each other: do_ttl and entry_set_ttl find
\* the item of their entry, and process_timers the entry of the root.
BackRefs == /\ \A i \in 0..size - 1 : idx[a[i].ref] = i
            /\ \A e \in Entries : idx[e] # -1 => idx[e] < size /\ a[idx[e]].ref = e

\* Both hold after every call: the parts of a move are never seen apart.
HeapShape == HeapOrder /\ BackRefs

\* The heap implements the map of deadlines, and its root is the earliest:
\* no update, removal or move loses or changes the TTL of another entry.
Abstract == INSTANCE TtlMap WITH
    dl <- [e \in {i \in Entries : idx[i] # -1} |-> a[idx[e]].val]

ImplementsTtlMap == Abstract!MSpec
=============================================================================
