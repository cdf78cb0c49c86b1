----------------------------- MODULE SlotStack -----------------------------
(***************************************************************************)
(* What the code that walks allocateditems relies on: the lent items form  *)
(* a stack with the newest loan on top, returning one leaves the order of  *)
(* the others alone, and the item returned last is lent next.  The order   *)
(* of delivery of buffered messages (rmw_take finds the first buffer of    *)
(* its owner on such a walk) is a consequence.                             *)
(***************************************************************************)
EXTENDS Naturals, SequencesExt

CONSTANTS
  StaticSeq,     (* the items of the static array, in the order in which   *)
                 (* an untouched pool lends them                           *)
  DynamicItem    (* the items the heap can provide                         *)

VARIABLES
  lent,          (* the walk from allocateditems                           *)
  spare          (* the walk from freeitems                                *)

stackVars == << lent, spare >>

Init ==
  /\ lent = << >>
  /\ spare = StaticSeq

Get ==
  /\ spare # << >>
  /\ lent' = << Head(spare) >> \o lent
  /\ spare' = Tail(spare)

GetDynamic ==
  /\ spare = << >>
  /\ \E item \in DynamicItem \ ToSet(lent) : lent' = << item >> \o lent
  /\ spare' = spare

Put ==
  \E k \in DOMAIN lent :
    /\ lent' = RemoveAt(lent, k)
    /\ spare' = IF lent[k] \in DynamicItem THEN spare
                ELSE << lent[k] >> \o spare

Next == Get \/ GetDynamic \/ Put

Spec == Init /\ [][Next]_stackVars
=============================================================================
