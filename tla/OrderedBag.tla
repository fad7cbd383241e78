---------------------------- MODULE OrderedBag ----------------------------
(***************************************************************************)
(* What both skip lists promise (skiplist.cpp, LC-sliplist.cpp): a         *)
(* sequence kept in order, to which elements are added and from which one  *)
(* equal element is taken.                                                 *)
(***************************************************************************)
EXTENDS Naturals, Sequences

CONSTANTS Element,    \* what can be put in
          Lt(_, _),   \* the order of the elements
          Unique      \* does the caller add only elements that are not there

VARIABLES seq,        \* the elements in order
          res         \* what the last call returned

obVars == <<seq, res>>

Below(e) == {i \in DOMAIN seq : Lt(seq[i], e)}

Present(e) == \E i \in DOMAIN seq : seq[i] = e

\* the place of the first element that is not below e
Place(e) == CHOOSE p \in 1..(Len(seq) + 1) :
              \A i \in DOMAIN seq : i \in Below(e) <=> i < p

OBInit == seq = <<>> /\ res = FALSE

Put(e) == /\ Unique => ~Present(e)
          /\ seq' = SubSeq(seq, 1, Place(e) - 1) \o <<e>> \o SubSeq(seq, Place(e), Len(seq))
          /\ res' = TRUE

Take(e) == /\ seq' = IF Present(e)
                     THEN SubSeq(seq, 1, Place(e) - 1) \o SubSeq(seq, Place(e) + 1, Len(seq))
                     ELSE seq
           /\ res' = Present(e)

Find(e) == res' = Present(e) /\ UNCHANGED seq

Drop == seq' = <<>> /\ res' = FALSE

OBNext == (\E e \in Element : Put(e) \/ Take(e) \/ Find(e)) \/ Drop

OBSpec == OBInit /\ [][OBNext]_obVars
=============================================================================
