----------------------------- MODULE MCContexts -----------------------------
(***************************************************************************)
(* Graph messages for model checking ContextSession.                       *)
(***************************************************************************)
EXTENDS ContextSession, TLC

LOCAL Entity(node, kind, name, type) ==
  [node |-> node, kind |-> kind, name |-> name, types |-> << type >>]

(* A message with a topic that has publishers in two nodes and a           *)
(* subscriber of another type, and a service of the same name; and one     *)
(* that does not deserialize.                                              *)
TwoNodes ==
  [sound    |-> TRUE,
   entities |-> << Entity("talker", "publisher", "chatter", "T"),
                   Entity("talker", "server", "chatter", "S"),
                   Entity("listener", "subscriber", "chatter", "U"),
                   Entity("listener", "publisher", "chatter", "T"),
                   Entity("listener", "client", "chatter", "S") >>]

Messages == {TwoNodes, [sound |-> FALSE, entities |-> << >>]}

(* The contexts are alike. *)
ContextSymmetry == Permutations(Context)
=============================================================================
