------------------------------- MODULE TtlMap -------------------------------
(***************************************************************************)
(* What server/14 uses its TTL heap for: a map from entries to deadlines   *)
(* whose earliest element can be taken.                                    *)
(***************************************************************************)
EXTENDS Naturals, Functions

CONSTANTS Entries, Deadlines, None

VARIABLES dl,       \* the entries with a TTL and their deadlines
          taken     \* the entry whose expiry was handled last, or None

mapVars == <<dl, taken>>

MInit == dl = [e \in {} |-> 0] /\ taken = None

Remove(e) == dl' = Restrict(dl, DOMAIN dl \ {e})

Arm(e, d) == /\ dl' = [i \in DOMAIN dl \cup {e} |-> IF i = e THEN d ELSE dl[i]]
             /\ UNCHANGED taken

Disarm(e) == Remove(e) /\ UNCHANGED taken

TakeEarliest == \E e \in DOMAIN dl : /\ \A i \in DOMAIN dl : dl[e] <= dl[i]
                                     /\ Remove(e)
                                     /\ taken' = e

MNext == \/ \E e \in Entries : Disarm(e) \/ \E d \in Deadlines : Arm(e, d)
         \/ TakeEarliest

MSpec == MInit /\ [][MNext]_mapVars
=============================================================================
