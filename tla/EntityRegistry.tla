--------------------------- MODULE EntityRegistry ---------------------------
(***************************************************************************)
(* What the application may expect of the creation and destruction of      *)
(* nodes and entities, with no pools, lists, handles or topics: a set of   *)
(* nodes and the entities that stand under them.  Calls come one at a      *)
(* time, and only the destruction of a node shows its steps: it takes the  *)
(* entities of that node one by one, no others, then the node itself.      *)
(***************************************************************************)

CONSTANTS
  NodeId,    (* the nodes that can ever be    *)
  EntityId   (* the entities that can ever be *)

VARIABLES
  nodes,    (* the nodes that are                                        *)
  owner,    (* of each entity that is: its node                          *)
  closing   (* the node under destruction: a set of at most one          *)

registry == << nodes, owner, closing >>

Entities == DOMAIN owner

Init ==
  /\ nodes = {}
  /\ owner = [x \in {} |-> x]
  /\ closing = {}

AddNode(n) ==
  /\ closing = {}
  /\ n \notin nodes
  /\ nodes' = nodes \cup {n}
  /\ UNCHANGED << owner, closing >>

AddEntity(x, n) ==
  /\ closing = {}
  /\ n \in nodes
  /\ x \notin Entities
  /\ owner' = [y \in Entities \cup {x} |-> IF y = x THEN n ELSE owner[y]]
  /\ UNCHANGED << nodes, closing >>

(* By the application or, during the destruction of a node, of that node. *)
RemoveEntity(x) ==
  /\ x \in Entities
  /\ closing = {} \/ owner[x] \in closing
  /\ owner' = [y \in Entities \ {x} |-> owner[y]]
  /\ UNCHANGED << nodes, closing >>

CloseNode(n) ==
  /\ closing = {}
  /\ n \in nodes
  /\ closing' = {n}
  /\ UNCHANGED << nodes, owner >>

(* The node goes last: none of its entities is left. *)
RemoveNode(n) ==
  /\ closing = {n}
  /\ \A x \in Entities : owner[x] # n
  /\ nodes' = nodes \ {n}
  /\ closing' = {}
  /\ UNCHANGED owner

Next ==
  \/ \E n \in NodeId : AddNode(n) \/ CloseNode(n) \/ RemoveNode(n)
  \/ \E x \in EntityId, n \in NodeId : AddEntity(x, n)
  \/ \E x \in EntityId : RemoveEntity(x)

Spec == Init /\ [][Next]_registry
=============================================================================
