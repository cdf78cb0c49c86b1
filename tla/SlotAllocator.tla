--------------------------- MODULE SlotAllocator ---------------------------
(***************************************************************************)
(* What a caller of get_memory and put_memory relies on, without a word on *)
(* lists or pointers: the pool lends every item to at most one holder,     *)
(* refuses only when all static items are lent, and creates an item only   *)
(* then.                                                                   *)
(***************************************************************************)
EXTENDS Naturals

CONSTANTS
  StaticItem,    (* the items of the static array                          *)
  DynamicItem,   (* the items the heap can provide, {} without dynamic     *)
                 (* allocations                                            *)
  None           (* the answer "no memory"                                 *)

VARIABLES
  held,          (* the items lent to callers                              *)
  answer         (* what the last get_memory returned                      *)

allocVars == << held, answer >>

Init ==
  /\ held = {}
  /\ answer = None

Lend(item) ==
  /\ held' = held \cup {item}
  /\ answer' = item

GetStatic == \E item \in StaticItem \ held : Lend(item)

GetDynamic ==
  /\ StaticItem \subseteq held
  /\ \E item \in DynamicItem \ held : Lend(item)

Refuse ==
  /\ StaticItem \subseteq held
  /\ DynamicItem = {}
  /\ answer' = None
  /\ held' = held

Return ==
  /\ \E item \in held : held' = held \ {item}
  /\ answer' = answer

Next == GetStatic \/ GetDynamic \/ Refuse \/ Return

Spec == Init /\ [][Next]_allocVars
=============================================================================
