----------------------- MODULE ContextSessionProofs -----------------------
(***************************************************************************)
(* Proofs about ContextSession, for any number of contexts, session slots, *)
(* nodes and graph messages.                                               *)
(***************************************************************************)
EXTENDS ContextSession, GraphInfoProofs

(***************************************************************************)
(* Type correctness: every pointer of a context or a node is null or a     *)
(* slot, and every field keeps its range.                                  *)
(***************************************************************************)
THEOREM SessionTyping == Spec => []TypeOK
<1>1. Init => TypeOK
  BY SessionAssumption DEF Init, TypeOK, Slot, NodeSlot, Node, Unused,
     NoMessage
<1>2. TypeOK /\ [Next]_vars => TypeOK'
  <2> SUFFICES ASSUME TypeOK, [Next]_vars PROVE TypeOK'
    OBVIOUS
  <2> USE SessionAssumption DEF TypeOK
  <2>1. ASSUME NEW c \in Context, NEW s \in Slot,
               NEW fail \in FailPoint \cup {"none"}, RmwInit(c, s, fail)
        PROVE  TypeOK'
    <3>1. impl' \in [Context -> Slot \cup {NULL}] /\ sessions' \subseteq Slot
      BY <2>1 DEF RmwInit, InitSession
    <3>2. context_impl' \in [Slot -> [transport : {"open", "closed"},
                                      runs : BOOLEAN,
                                      id_participant : 0..MaxParticipant]]
      BY <2>1 DEF RmwInit, InitSession
    <3>3. graph_info' \in [Slot ->
            [initialized : BOOLEAN, has_changed : BOOLEAN, guard : BOOLEAN,
             buffer : [to : Context, message : GraphMessage]
                        \cup {NoMessage}]]
      <4> DEFINE Info == [initialized : BOOLEAN, has_changed : BOOLEAN,
                          guard : BOOLEAN,
                          buffer : [to : Context, message : GraphMessage]
                                     \cup {NoMessage}]
                 g    == IF fail \in {"none", "graph"}
                         THEN GraphInit(graph_info[s]) ELSE graph_info[s]
                 new  == [g EXCEPT !.guard = FALSE]
      <4>1. graph_info \in [Slot -> Info]
        OBVIOUS
      <4>2. g \in Info
        <5>1. graph_info[s] \in Info
          BY <4>1
        <5> QED
          BY <5>1 DEF GraphInit
      <4>3. new \in Info
        <5> HIDE DEF g
        <5> QED
          BY <4>2
      <4>4. graph_info' = [graph_info EXCEPT ![s] = new]
        BY <2>1 DEF RmwInit
      <4>5. graph_info' \in [Slot -> Info]
        <5> HIDE DEF Info, new
        <5> QED
          BY <4>1, <4>3, <4>4
      <4> QED
        BY <4>5
    <3>4. participants' \in [Context -> SUBSET (0..MaxParticipant)]
      BY <2>1 DEF RmwInit
    <3> QED
      BY <2>1, <3>1, <3>2, <3>3, <3>4 DEF RmwInit
  <2>2. ASSUME NEW c \in Context, RmwContextFini(c)
        PROVE  TypeOK'
    <3>1. impl[c] \in Slot
      BY <2>2 DEF RmwContextFini
    <3>2. nodes' \in [NodeSlot -> Node \cup {Unused}]
      BY <2>2 DEF RmwContextFini, Destroyed
    <3>3. context_impl' \in [Slot -> [transport : {"open", "closed"},
                                      runs : BOOLEAN,
                                      id_participant : 0..MaxParticipant]]
      <4> DEFINE Session == [transport : {"open", "closed"}, runs : BOOLEAN,
                             id_participant : 0..MaxParticipant]
                 new == [context_impl[impl[c]] EXCEPT !.transport = "closed",
                                                      !.runs = FALSE]
      <4>1. context_impl \in [Slot -> Session]
        OBVIOUS
      <4>2. new \in Session
        <5>1. context_impl[impl[c]] \in Session
          BY <3>1, <4>1
        <5> QED
          BY <5>1
      <4>3. context_impl' = [context_impl EXCEPT ![impl[c]] = new]
        BY <2>2, <3>1 DEF RmwContextFini
      <4>4. context_impl' \in [Slot -> Session]
        <5> HIDE DEF Session, new
        <5> QED
          BY <3>1, <4>1, <4>2, <4>3
      <4> QED
        BY <4>4
    <3> QED
      BY <2>2, <3>1, <3>2, <3>3 DEF RmwContextFini, FiniSession, graph
  <2>3. ASSUME NEW c \in Context, NEW n \in NodeSlot,
               NEW confirmed \in BOOLEAN, CreateNode(c, n, confirmed)
        PROVE  TypeOK'
    <3>1. impl[c] \in Slot
      BY <2>3 DEF CreateNode
    <3>2. /\ NextParticipant(impl[c]) \in 0..MaxParticipant
          /\ context_impl[impl[c]].id_participant + 1 \in 0..MaxParticipant
      BY <2>3, <3>1 DEF CreateNode, NextParticipant
    <3>3. nodes' \in [NodeSlot -> Node \cup {Unused}]
      BY <2>3, <3>1, <3>2 DEF CreateNode, Node
    <3>4. participants' \in [Context -> SUBSET (0..MaxParticipant)]
      BY <2>3, <3>2 DEF CreateNode
    <3>5. context_impl' \in [Slot -> [transport : {"open", "closed"},
                                      runs : BOOLEAN,
                                      id_participant : 0..MaxParticipant]]
      BY <2>3, <3>1, <3>2 DEF CreateNode
    <3> QED
      BY <2>3, <3>3, <3>4, <3>5 DEF CreateNode, pool, graph
  <2>4. ASSUME NEW c \in Context, NEW n \in NodeSlot, DestroyNode(c, n)
        PROVE  TypeOK'
    <3>1. nodes' \in [NodeSlot -> Node \cup {Unused}]
      BY <2>4 DEF DestroyNode
    <3>2. participants' \in [Context -> SUBSET (0..MaxParticipant)]
      BY <2>4 DEF DestroyNode
    <3> QED
      BY <2>4, <3>1, <3>2 DEF DestroyNode, pool, graph
  <2>5. ASSUME NEW c \in Context, NEW message \in GraphMessage,
               OnTopicGraph(c, message)
        PROVE  TypeOK'
    <3>1. impl[c] \in Slot
      BY <2>5 DEF OnTopicGraph
    <3>2. graph_info' \in [Slot ->
            [initialized : BOOLEAN, has_changed : BOOLEAN, guard : BOOLEAN,
             buffer : [to : Context, message : GraphMessage]
                        \cup {NoMessage}]]
      <4> DEFINE Info == [initialized : BOOLEAN, has_changed : BOOLEAN,
                          guard : BOOLEAN,
                          buffer : [to : Context, message : GraphMessage]
                                     \cup {NoMessage}]
                 new == GraphArrives(graph_info[impl[c]], c, message)
      <4>1. graph_info \in [Slot -> Info] /\ graph_info[impl[c]] \in Info
        BY <3>1
      <4>2. new \in Info
        BY <4>1 DEF GraphArrives
      <4>3. graph_info' = [graph_info EXCEPT ![impl[c]] = new]
        BY <2>5, <3>1 DEF OnTopicGraph
      <4>4. graph_info' \in [Slot -> Info]
        <5> HIDE DEF Info, new
        <5> QED
          BY <3>1, <4>1, <4>2, <4>3
      <4> QED
        BY <4>4
    <3> QED
      BY <2>5, <3>1, <3>2 DEF OnTopicGraph, pool
  <2>6. ASSUME NEW n \in NodeSlot, GetGraphGuardCondition(n)
        PROVE  TypeOK'
    <3>1. nodes[n].context \in Slot
      BY <2>6 DEF GetGraphGuardCondition, Node
    <3> QED
      BY <2>6, <3>1 DEF GetGraphGuardCondition, pool
  <2>7. ASSUME NEW waited \in SUBSET Slot, WaitGraph(waited)
        PROVE  TypeOK'
    <3>1. graph_info' \in [Slot ->
            [initialized : BOOLEAN, has_changed : BOOLEAN, guard : BOOLEAN,
             buffer : [to : Context, message : GraphMessage]
                        \cup {NoMessage}]]
      <4> DEFINE Info == [initialized : BOOLEAN, has_changed : BOOLEAN,
                          guard : BOOLEAN,
                          buffer : [to : Context, message : GraphMessage]
                                     \cup {NoMessage}]
                 changed == {s \in waited : graph_info[s].has_changed}
                 Read(s) == [graph_info[s] EXCEPT !.has_changed = FALSE]
      <4>1. \A s \in Slot : graph_info[s] \in Info
        OBVIOUS
      <4>2. \A s \in Slot : Read(s) \in Info
        BY <4>1
      <4>3. graph_info' = [s \in Slot |-> IF s \in changed THEN Read(s)
                                                          ELSE graph_info[s]]
        BY <2>7 DEF WaitGraph
      <4>4. graph_info' \in [Slot -> Info]
        <5> HIDE DEF Info, Read, changed
        <5> QED
          BY <4>1, <4>2, <4>3
      <4> QED
        BY <4>4
    <3> QED
      BY <2>7, <3>1 DEF WaitGraph, pool
  <2>8. ASSUME NEW n \in NodeSlot, QueryGraph(n)
        PROVE  TypeOK'
    BY <2>8 DEF QueryGraph, pool
  <2>9. CASE LinkChanges
    BY <2>9 DEF LinkChanges, pool, graph
  <2>10. CASE UNCHANGED vars
    BY <2>10 DEF vars, pool, graph
  <2> QED
    BY <2>1, <2>2, <2>3, <2>4, <2>5, <2>6, <2>7, <2>8, <2>9, <2>10 DEF Next
<1> QED
  BY <1>1, <1>2, PTL DEF Spec

-----------------------------------------------------------------------------
(* Only rmw_init and rmw_context_fini change which slot is whose. *)
LEMMA PoolChanges ==
  ASSUME [Next]_vars
  PROVE  \/ \E c \in Context, s \in Slot, fail \in FailPoint \cup {"none"} :
              RmwInit(c, s, fail)
         \/ \E c \in Context : RmwContextFini(c)
         \/ UNCHANGED pool
  BY DEF Next, vars, CreateNode, DestroyNode, OnTopicGraph,
     GetGraphGuardCondition, WaitGraph, QueryGraph, LinkChanges

(* The actions that change the slots, the sessions, or the nodes and their *)
(* participants.                                                           *)
LEMMA NodeChanges ==
  ASSUME [Next]_vars
  PROVE  \/ \E c \in Context, s \in Slot, fail \in FailPoint \cup {"none"} :
              RmwInit(c, s, fail)
         \/ \E c \in Context : RmwContextFini(c)
         \/ \E c \in Context, n \in NodeSlot, confirmed \in BOOLEAN :
              CreateNode(c, n, confirmed)
         \/ \E c \in Context, n \in NodeSlot : DestroyNode(c, n)
         \/ UNCHANGED << pool, context_impl, nodes, participants >>
  BY DEF Next, vars, OnTopicGraph, GetGraphGuardCondition, WaitGraph,
     QueryGraph, LinkChanges

(* The actions that change the slots, the sessions or what is known of the *)
(* graph.                                                                  *)
LEMMA GraphChanges ==
  ASSUME [Next]_vars
  PROVE  \/ \E c \in Context, s \in Slot, fail \in FailPoint \cup {"none"} :
              RmwInit(c, s, fail)
         \/ \E c \in Context : RmwContextFini(c)
         \/ \E c \in Context, n \in NodeSlot, confirmed \in BOOLEAN :
              CreateNode(c, n, confirmed)
         \/ \E c \in Context, message \in GraphMessage :
              OnTopicGraph(c, message)
         \/ \E n \in NodeSlot : GetGraphGuardCondition(n)
         \/ \E waited \in SUBSET Slot : WaitGraph(waited)
         \/ UNCHANGED << pool, context_impl, graph_info >>
  BY DEF Next, vars, graph, DestroyNode, QueryGraph, LinkChanges

(***************************************************************************)
(* The session slots are accounted for after every failure of rmw_init:    *)
(* the pool's allocated items are the slots of the contexts, one each.     *)
(***************************************************************************)
THEOREM NoSlotLeaks == Spec => []SlotsAccounted
<1>1. Init => SlotsAccounted
  BY DEF Init, SlotsAccounted
<1>2. TypeOK /\ SlotsAccounted /\ [Next]_vars => SlotsAccounted'
  <2> SUFFICES ASSUME TypeOK, SlotsAccounted, [Next]_vars
               PROVE  SlotsAccounted'
    OBVIOUS
  <2>1. ASSUME NEW c \in Context, NEW s \in Slot,
               NEW fail \in FailPoint \cup {"none"}, RmwInit(c, s, fail)
        PROVE  SlotsAccounted'
    <3>1. /\ impl[c] = NULL /\ s \notin sessions /\ s # NULL
          /\ impl' = [impl EXCEPT ![c] = s]
          /\ sessions' = sessions \cup {s}
      BY <2>1, SessionAssumption DEF RmwInit, InitSession, Slot, NULL
    <3>2. \A d \in Context : impl'[d] = IF d = c THEN s ELSE impl[d]
      BY <3>1 DEF TypeOK
    <3>3. \A d \in Context : impl[d] # s
      BY <3>1 DEF SlotsAccounted
    <3>4. sessions' = {impl'[d] : d \in Context} \ {NULL}
      BY <3>1, <3>2 DEF SlotsAccounted
    <3>5. \A d, e \in Context : impl'[d] = impl'[e] => d = e \/ impl'[d] = NULL
      BY <3>2, <3>3 DEF SlotsAccounted
    <3> QED
      BY <3>4, <3>5 DEF SlotsAccounted
  <2>2. ASSUME NEW c \in Context, RmwContextFini(c)
        PROVE  SlotsAccounted'
    <3>1. /\ impl[c] # NULL
          /\ impl' = [impl EXCEPT ![c] = NULL]
          /\ sessions' = sessions \ {impl[c]}
      BY <2>2 DEF RmwContextFini, FiniSession
    <3>2. \A d \in Context : impl'[d] = IF d = c THEN NULL ELSE impl[d]
      BY <3>1 DEF TypeOK
    <3>3. \A d \in Context : impl[d] = impl[c] => d = c
      BY <3>1 DEF SlotsAccounted
    <3>4. sessions' = {impl'[d] : d \in Context} \ {NULL}
      BY <3>1, <3>2, <3>3 DEF SlotsAccounted
    <3>5. \A d, e \in Context : impl'[d] = impl'[e] => d = e \/ impl'[d] = NULL
      BY <3>2 DEF SlotsAccounted
    <3> QED
      BY <3>4, <3>5 DEF SlotsAccounted
  <2>3. CASE UNCHANGED pool
    BY <2>3 DEF SlotsAccounted, pool
  <2> QED
    BY <2>1, <2>2, <2>3, PoolChanges
<1> QED
  BY <1>1, <1>2, SessionTyping, PTL DEF Spec

-----------------------------------------------------------------------------
(***************************************************************************)
(* No node outlives its session: whatever the agent confirms, and whatever *)
(* becomes of the slot, the context of a living node has it and runs.      *)
(***************************************************************************)
THEOREM NoNodeOutlivesSession == Spec => []NodesHaveSession
<1> DEFINE Inv == TypeOK /\ SlotsAccounted
<1>1. Init => NodesHaveSession
  BY DEF Init, NodesHaveSession
<1>2. Inv /\ NodesHaveSession /\ [Next]_vars => NodesHaveSession'
  <2> SUFFICES ASSUME TypeOK, SlotsAccounted, NodesHaveSession, [Next]_vars,
                      NEW n \in NodeSlot, nodes'[n] # Unused
               PROVE  \E c \in Context :
                        impl'[c] = nodes'[n].context /\ c \notin Failed'
    BY DEF NodesHaveSession
  <2> USE DEF TypeOK
  <2>1. ASSUME NEW c \in Context, NEW s \in Slot,
               NEW fail \in FailPoint \cup {"none"}, RmwInit(c, s, fail)
        PROVE  \E d \in Context :
                 impl'[d] = nodes'[n].context /\ d \notin Failed'
    <3>1. nodes' = nodes
      BY <2>1 DEF RmwInit
    <3>2. PICK d \in Context : impl[d] = nodes[n].context /\ d \notin Failed
      BY <3>1 DEF NodesHaveSession
    <3>3. impl[d] \in Slot
      BY <3>1, <3>2 DEF Node, Unused
    <3>4. impl[d] # NULL
      BY <3>3, SessionAssumption DEF Slot, NULL
    <3>5. impl[d] \in sessions
      BY <3>4 DEF SlotsAccounted
    <3>6. d # c /\ impl[d] # s
      BY <2>1, <3>4, <3>5 DEF RmwInit
    <3>7. impl'[d] = impl[d] /\ context_impl'[impl[d]] = context_impl[impl[d]]
      BY <2>1, <3>3, <3>6 DEF RmwInit, InitSession
    <3> QED
      BY <3>1, <3>2, <3>4, <3>7 DEF Failed
  <2>2. ASSUME NEW c \in Context, RmwContextFini(c)
        PROVE  \E d \in Context :
                 impl'[d] = nodes'[n].context /\ d \notin Failed'
    <3>1. nodes[n].context # impl[c] /\ nodes'[n] = nodes[n]
      BY <2>2 DEF RmwContextFini, Destroyed
    <3>2. PICK d \in Context : impl[d] = nodes[n].context /\ d \notin Failed
      BY <3>1 DEF NodesHaveSession
    <3>3. d # c /\ impl[d] # impl[c]
      BY <3>1, <3>2
    <3>4. impl[d] \in Slot
      BY <3>1, <3>2 DEF Node, Unused
    <3>5. impl[d] # NULL
      BY <3>4, SessionAssumption DEF Slot, NULL
    <3>6. impl'[d] = impl[d] /\ context_impl'[impl[d]] = context_impl[impl[d]]
      BY <2>2, <3>3, <3>4 DEF RmwContextFini
    <3> QED
      BY <3>1, <3>2, <3>5, <3>6 DEF Failed
  <2>3. ASSUME NEW c \in Context, NEW m \in NodeSlot,
               NEW confirmed \in BOOLEAN, CreateNode(c, m, confirmed)
        PROVE  \E d \in Context :
                 impl'[d] = nodes'[n].context /\ d \notin Failed'
    <3>1. /\ impl' = impl /\ impl[c] # NULL /\ impl[c] \in Slot
          /\ c \notin Failed
      BY <2>3 DEF CreateNode, pool
    <3>2. \A s \in Slot : context_impl'[s].runs = context_impl[s].runs
      BY <2>3, <3>1 DEF CreateNode
    <3>3. \A d \in Context : impl[d] # NULL => impl[d] \in Slot
      OBVIOUS
    <3>4. Failed' = Failed
      BY <3>1, <3>2, <3>3 DEF Failed
    <3>5. CASE nodes'[n] = nodes[n]
      BY <3>1, <3>4, <3>5 DEF NodesHaveSession
    <3>6. CASE nodes'[n].context = impl[c]
      BY <3>1, <3>4, <3>6
    <3> QED
      BY <2>3, <3>5, <3>6 DEF CreateNode
  <2>4. ASSUME NEW c \in Context, NEW m \in NodeSlot, DestroyNode(c, m)
        PROVE  \E d \in Context :
                 impl'[d] = nodes'[n].context /\ d \notin Failed'
    <3>1. impl' = impl /\ context_impl' = context_impl
      BY <2>4 DEF DestroyNode, pool
    <3>2. nodes'[n] = nodes[n]
      BY <2>4 DEF DestroyNode
    <3> QED
      BY <3>1, <3>2 DEF NodesHaveSession, Failed
  <2>5. CASE UNCHANGED << pool, context_impl, nodes >>
    BY <2>5 DEF NodesHaveSession, Failed, pool
  <2> QED
    BY <2>1, <2>2, <2>3, <2>4, <2>5, NodeChanges
<1> QED
  BY <1>1, <1>2, SessionTyping, NoSlotLeaks, PTL DEF Spec

-----------------------------------------------------------------------------
(* What LiveOnAgent needs to be inductive: the participant of a node was   *)
(* counted in its session.                                                 *)
IdsCounted ==
  /\ \A s \in Slot : context_impl[s].runs => context_impl[s].id_participant > 0
  /\ \A n \in NodeSlot :
       nodes[n] # Unused =>
         nodes[n].participant_id
           < context_impl[nodes[n].context].id_participant

LEMMA IdsAreCounted == Spec => []IdsCounted
<1> DEFINE Inv == TypeOK /\ SlotsAccounted /\ NodesHaveSession
<1>1. Init => IdsCounted
  BY DEF Init, IdsCounted
<1>2. Inv /\ IdsCounted /\ [Next]_vars => IdsCounted'
  <2> SUFFICES ASSUME TypeOK, SlotsAccounted, NodesHaveSession, IdsCounted,
                      [Next]_vars
               PROVE  IdsCounted'
    OBVIOUS
  <2> USE DEF TypeOK
  <2>0. \A n \in NodeSlot : nodes[n] # Unused =>
          nodes[n] \in Node /\ nodes[n].context \in Slot
    BY DEF Node
  <2>1. ASSUME NEW c \in Context, NEW s \in Slot,
               NEW fail \in FailPoint \cup {"none"}, RmwInit(c, s, fail)
        PROVE  IdsCounted'
    <3>1. nodes' = nodes
      BY <2>1 DEF RmwInit
    <3>2. \A n \in NodeSlot : nodes[n] # Unused => nodes[n].context # s
      <4> SUFFICES ASSUME NEW n \in NodeSlot, nodes[n] # Unused
                   PROVE  nodes[n].context # s
        OBVIOUS
      <4>1. nodes[n].context # NULL
        BY <2>0, SessionAssumption DEF Slot, NULL
      <4>2. nodes[n].context \in sessions
        BY <4>1 DEF NodesHaveSession, SlotsAccounted
      <4> QED
        BY <2>1, <4>2 DEF RmwInit
    <3>3. \A t \in Slot : t # s => context_impl'[t] = context_impl[t]
      BY <2>1 DEF RmwInit, InitSession
    <3>4. context_impl'[s].runs => context_impl'[s].id_participant > 0
      <4>1. /\ context_impl'[s].runs => fail = "none"
            /\ fail = "none" => context_impl'[s].id_participant = 1
        BY <2>1 DEF RmwInit, InitSession
      <4> QED
        BY <4>1
    <3> QED
      BY <2>0, <3>1, <3>2, <3>3, <3>4 DEF IdsCounted
  <2>2. ASSUME NEW c \in Context, RmwContextFini(c)
        PROVE  IdsCounted'
    <3>1. impl[c] \in Slot
      BY <2>2 DEF RmwContextFini
    <3>2. \A s \in Slot :
            /\ context_impl'[s].id_participant = context_impl[s].id_participant
            /\ context_impl'[s].runs => context_impl[s].runs
      BY <2>2, <3>1 DEF RmwContextFini
    <3>3. \A n \in NodeSlot : nodes'[n] # Unused => nodes'[n] = nodes[n]
      BY <2>2 DEF RmwContextFini, Destroyed
    <3> QED
      BY <2>0, <3>2, <3>3 DEF IdsCounted
  <2>3. ASSUME NEW c \in Context, NEW m \in NodeSlot,
               NEW confirmed \in BOOLEAN, CreateNode(c, m, confirmed)
        PROVE  IdsCounted'
    <3>1. impl[c] \in Slot /\ context_impl[impl[c]].id_participant \in Nat
      BY <2>3, SessionAssumption DEF CreateNode
    <3>2. \A s \in Slot :
            /\ context_impl'[s].runs = context_impl[s].runs
            /\ context_impl'[s].id_participant
                 = IF s = impl[c] THEN context_impl[s].id_participant + 1
                                  ELSE context_impl[s].id_participant
      BY <2>3, <3>1 DEF CreateNode
    <3>3. \A s \in Slot : context_impl[s].id_participant \in Nat
      BY SessionAssumption
    <3>4. ASSUME NEW n \in NodeSlot, nodes'[n] # Unused
          PROVE  nodes'[n].participant_id
                   < context_impl'[nodes'[n].context].id_participant
      <4>1. CASE nodes'[n] = nodes[n]
        <5>1. /\ nodes[n].context \in Slot /\ nodes[n].participant_id \in Nat
              /\ nodes[n].participant_id
                   < context_impl[nodes[n].context].id_participant
          BY <2>0, <3>4, <4>1, SessionAssumption DEF IdsCounted, Node
        <5> QED
          BY <3>2, <3>3, <4>1, <5>1
      <4>2. CASE nodes'[n] = [context |-> impl[c],
                     participant_id |-> context_impl[impl[c]].id_participant]
        <5>1. /\ nodes'[n].context = impl[c]
              /\ nodes'[n].participant_id
                   = context_impl[impl[c]].id_participant
          BY <4>2
        <5> QED
          BY <3>1, <3>2, <5>1
      <4> QED
        BY <2>3, <4>1, <4>2 DEF CreateNode, NextParticipant
    <3>5. \A s \in Slot :
            context_impl'[s].runs => context_impl'[s].id_participant > 0
      BY <3>2, <3>3 DEF IdsCounted
    <3> QED
      BY <3>4, <3>5 DEF IdsCounted
  <2>4. ASSUME NEW c \in Context, NEW m \in NodeSlot, DestroyNode(c, m)
        PROVE  IdsCounted'
    BY <2>4 DEF DestroyNode, IdsCounted
  <2>5. CASE UNCHANGED << context_impl, nodes >>
    BY <2>5 DEF IdsCounted
  <2> QED
    BY <2>1, <2>2, <2>3, <2>4, <2>5, NodeChanges
<1> QED
  BY <1>1, <1>2, SessionTyping, NoSlotLeaks, NoNodeOutlivesSession, PTL
  DEF Spec

(***************************************************************************)
(* The participant of a living node is on the agent and is its own: a      *)
(* creation that was not confirmed used up its id, so a node created later *)
(* cannot get the id of a participant that the agent may hold.             *)
(***************************************************************************)
THEOREM ParticipantsDistinct == Spec => []LiveOnAgent
<1> DEFINE Inv == TypeOK /\ SlotsAccounted /\ NodesHaveSession /\ IdsCounted
<1>1. Init => LiveOnAgent
  BY DEF Init, LiveOnAgent
<1>2. Inv /\ LiveOnAgent /\ [Next]_vars => LiveOnAgent'
  <2> SUFFICES ASSUME TypeOK, SlotsAccounted, NodesHaveSession, IdsCounted,
                      LiveOnAgent, [Next]_vars
               PROVE  LiveOnAgent'
    OBVIOUS
  <2> USE DEF TypeOK
  <2>0. \A n \in NodeSlot : nodes[n] # Unused =>
          /\ nodes[n] \in Node /\ nodes[n].context \in Slot
          /\ nodes[n].context # NULL
    BY SessionAssumption DEF Node, Slot, NULL
  <2>1. ASSUME NEW c \in Context, NEW s \in Slot,
               NEW fail \in FailPoint \cup {"none"}, RmwInit(c, s, fail)
        PROVE  LiveOnAgent'
    <3>1. /\ nodes' = nodes
          /\ \A d \in Context : impl'[d] = IF d = c THEN s ELSE impl[d]
          /\ \A d \in Context : d # c => participants'[d] = participants[d]
      BY <2>1 DEF RmwInit, InitSession
    <3>2. \A n \in NodeSlot : nodes[n] # Unused => nodes[n].context # s
      <4> SUFFICES ASSUME NEW n \in NodeSlot, nodes[n] # Unused
                   PROVE  nodes[n].context # s
        OBVIOUS
      <4>1. nodes[n].context \in sessions
        BY <2>0 DEF NodesHaveSession, SlotsAccounted
      <4> QED
        BY <2>1, <4>1 DEF RmwInit
    <3> QED
      BY <3>1, <3>2 DEF LiveOnAgent
  <2>2. ASSUME NEW c \in Context, RmwContextFini(c)
        PROVE  LiveOnAgent'
    <3>1. /\ impl'[c] = NULL
          /\ \A d \in Context :
               d # c => /\ impl'[d] = impl[d]
                        /\ participants'[d] = participants[d]
      BY <2>2 DEF RmwContextFini
    <3>2. \A n \in NodeSlot : nodes'[n] # Unused => nodes'[n] = nodes[n]
      BY <2>2 DEF RmwContextFini, Destroyed
    <3> QED
      BY <2>0, <3>1, <3>2 DEF LiveOnAgent
  <2>3. ASSUME NEW c \in Context, NEW m \in NodeSlot,
               NEW confirmed \in BOOLEAN, CreateNode(c, m, confirmed)
        PROVE  LiveOnAgent'
    <3> DEFINE id == context_impl[impl[c]].id_participant
    <3>1. /\ impl' = impl /\ impl[c] \in Slot /\ c \notin Failed
          /\ impl[c] # NULL
      BY <2>3 DEF CreateNode, pool
    <3>2. id \in Nat /\ id > 0
      BY <3>1, SessionAssumption DEF IdsCounted, Failed
    <3>3. \A n \in NodeSlot :
            nodes[n] # Unused /\ nodes[n].context = impl[c]
              => /\ nodes[n].participant_id \in Nat
                 /\ nodes[n].participant_id < id
      BY <2>0, SessionAssumption DEF IdsCounted, Node
    <3>4. \A d \in Context : participants[d] \subseteq participants'[d]
      BY <2>3 DEF CreateNode
    <3>5. \A d \in Context : impl[d] = impl[c] => d = c
      BY <3>1 DEF SlotsAccounted
    <3>6. CASE nodes' = nodes
      BY <3>1, <3>4, <3>6 DEF LiveOnAgent
    <3>7. CASE confirmed
      <4>1. /\ nodes[m] = Unused
            /\ nodes' = [nodes EXCEPT ![m] = [context |-> impl[c],
                                              participant_id |-> id]]
        BY <2>3, <3>7 DEF CreateNode, NextParticipant
      <4>2. id \in participants'[c] \ {0}
        <5>1. link = TRUE /\ confirmed = TRUE
          BY <2>3, <3>7 DEF CreateNode
        <5>2. participants' = [participants EXCEPT ![c] = @ \cup {id}]
          BY <2>3, <5>1 DEF CreateNode, NextParticipant
        <5> QED
          BY <3>2, <5>2
      <4>3. nodes'[m].context = impl[c] /\ nodes'[m].participant_id = id
        BY <4>1
      <4>4. \A n \in NodeSlot : n # m => nodes'[n] = nodes[n]
        BY <4>1
      <4>5. ASSUME NEW n \in NodeSlot, NEW d \in Context,
                   nodes'[n] # Unused, impl'[d] = nodes'[n].context
            PROVE  nodes'[n].participant_id \in participants'[d] \ {0}
        <5>1. CASE n = m
          BY <3>1, <3>5, <4>2, <4>3, <4>5, <5>1
        <5>2. CASE n # m
          BY <3>1, <3>4, <4>4, <4>5, <5>2 DEF LiveOnAgent
        <5> QED
          BY <5>1, <5>2
      <4>6. \A n \in NodeSlot : n # m /\ nodes[n] # Unused =>
              nodes'[n] # nodes'[m]
        <5> SUFFICES ASSUME NEW n \in NodeSlot, n # m, nodes[n] # Unused,
                            nodes[n] = nodes'[m]
                     PROVE  FALSE
          BY <4>4
        <5>1. nodes[n].context = impl[c] /\ nodes[n].participant_id = id
          BY <4>3
        <5> QED
          BY <3>2, <3>3, <5>1
      <4>7. nodes'[m] # Unused
        <5>1. Unused.context = NULL
          BY DEF Unused
        <5> QED
          BY <3>1, <4>3, <5>1
      <4>8. ASSUME NEW n \in NodeSlot, NEW o \in NodeSlot,
                   nodes'[n] = nodes'[o]
            PROVE  n = o \/ nodes'[n] = Unused
        <5>1. CASE n = m \/ o = m
          BY <4>4, <4>6, <4>7, <4>8, <5>1
        <5>2. CASE n # m /\ o # m
          BY <4>4, <4>8, <5>2 DEF LiveOnAgent
        <5> QED
          BY <5>1, <5>2
      <4> QED
        BY <4>5, <4>8 DEF LiveOnAgent
    <3> QED
      BY <2>3, <3>6, <3>7 DEF CreateNode
  <2>4. ASSUME NEW c \in Context, NEW m \in NodeSlot, DestroyNode(c, m)
        PROVE  LiveOnAgent'
    <3>1. /\ impl' = impl /\ nodes[m].context = impl[c] /\ impl[c] # NULL
          /\ nodes' = [nodes EXCEPT ![m] = Unused]
      BY <2>4 DEF DestroyNode, pool
    <3>2. /\ \A d \in Context : d # c => participants'[d] = participants[d]
          /\ participants[c] \ {nodes[m].participant_id}
               \subseteq participants'[c]
      BY <2>4 DEF DestroyNode
    <3>3. nodes[m] # Unused
      BY <3>1 DEF Unused
    <3>4. \A n \in NodeSlot : n # m => nodes'[n] = nodes[n]
      BY <3>1
    <3>5. nodes'[m] = Unused
      BY <3>1
    <3>6. ASSUME NEW n \in NodeSlot, NEW d \in Context,
                 nodes'[n] # Unused, impl'[d] = nodes'[n].context
          PROVE  nodes'[n].participant_id \in participants'[d] \ {0}
      <4>1. /\ n # m /\ nodes'[n] = nodes[n]
            /\ nodes[n].participant_id \in participants[d] \ {0}
        BY <3>1, <3>4, <3>5, <3>6 DEF LiveOnAgent
      <4>2. CASE d # c
        BY <3>2, <4>1, <4>2
      <4>3. CASE d = c
        <5>1. nodes[n] # nodes[m]
          BY <3>3, <4>1 DEF LiveOnAgent
        <5>2. nodes[n] \in Node /\ nodes[m] \in Node
          BY <3>3, <3>6, <4>1
        <5>3. nodes[n].context = nodes[m].context
          BY <3>1, <3>6, <4>1, <4>3
        <5>4. nodes[n].participant_id # nodes[m].participant_id
          BY <5>1, <5>2, <5>3 DEF Node
        <5> QED
          BY <3>2, <4>1, <4>3, <5>4
      <4> QED
        BY <4>2, <4>3
    <3>7. \A n, o \in NodeSlot :
            nodes'[n] = nodes'[o] => n = o \/ nodes'[n] = Unused
      BY <3>4, <3>5 DEF LiveOnAgent
    <3> QED
      BY <3>6, <3>7 DEF LiveOnAgent
  <2>5. CASE UNCHANGED << pool, nodes, participants >>
    BY <2>5 DEF LiveOnAgent, pool
  <2> QED
    BY <2>1, <2>2, <2>3, <2>4, <2>5, NodeChanges
<1> QED
  BY <1>1, <1>2, SessionTyping, NoSlotLeaks, NoNodeOutlivesSession,
     IdsAreCounted, PTL DEF Spec

-----------------------------------------------------------------------------
(***************************************************************************)
(* What a graph query reads came in the session that runs now: a slot that *)
(* goes from one context to another brings no graph of the old one along.  *)
(***************************************************************************)
THEOREM NoStaleGraph == Spec => []GraphOfThisSession
<1> DEFINE Inv == TypeOK /\ SlotsAccounted
<1>1. Init => GraphOfThisSession
  BY DEF Init, GraphOfThisSession
<1>2. Inv /\ GraphOfThisSession /\ [Next]_vars => GraphOfThisSession'
  <2> SUFFICES ASSUME TypeOK, SlotsAccounted, GraphOfThisSession,
                      [Next]_vars, NEW d \in Context, impl'[d] # NULL,
                      d \notin Failed', graph_info'[impl'[d]].initialized
               PROVE  graph_info'[impl'[d]].buffer.to = d
    BY DEF GraphOfThisSession
  <2> USE DEF TypeOK
  <2>1. ASSUME NEW c \in Context, NEW s \in Slot,
               NEW fail \in FailPoint \cup {"none"}, RmwInit(c, s, fail)
        PROVE  graph_info'[impl'[d]].buffer.to = d
    <3>1. CASE d = c
      <4>1. impl'[d] = s
        BY <2>1, <3>1 DEF RmwInit, InitSession
      <4>2. context_impl'[s].runs => fail = "none"
        BY <2>1 DEF RmwInit, InitSession
      <4>3. fail = "none"
        BY <4>1, <4>2 DEF Failed
      <4>4. graph_info'[s].initialized = FALSE
        BY <2>1, <4>3 DEF RmwInit, GraphInit
      <4> QED
        BY <4>1, <4>4
    <3>2. CASE d # c
      <4>1. impl'[d] = impl[d] /\ impl[d] \in Slot
        BY <2>1, <3>2 DEF RmwInit, InitSession
      <4>2. impl[d] # s
        BY <2>1, <4>1 DEF RmwInit, SlotsAccounted
      <4>3. /\ graph_info'[impl[d]] = graph_info[impl[d]]
            /\ context_impl'[impl[d]] = context_impl[impl[d]]
        BY <2>1, <4>1, <4>2 DEF RmwInit, InitSession
      <4> QED
        BY <4>1, <4>3 DEF GraphOfThisSession, Failed
    <3> QED
      BY <3>1, <3>2
  <2>2. ASSUME NEW c \in Context, RmwContextFini(c)
        PROVE  graph_info'[impl'[d]].buffer.to = d
    <3>1. d # c /\ impl'[d] = impl[d]
      BY <2>2 DEF RmwContextFini
    <3>2. impl[d] \in Slot /\ impl[d] # impl[c]
      BY <3>1 DEF SlotsAccounted
    <3>3. /\ graph_info' = graph_info
          /\ context_impl'[impl[d]] = context_impl[impl[d]]
      BY <2>2, <3>2 DEF RmwContextFini, graph
    <3> QED
      BY <3>1, <3>3 DEF GraphOfThisSession, Failed
  <2>3. ASSUME NEW c \in Context, NEW message \in GraphMessage,
               OnTopicGraph(c, message)
        PROVE  graph_info'[impl'[d]].buffer.to = d
    <3>1. /\ impl' = impl /\ context_impl' = context_impl
          /\ impl[c] \in Slot /\ impl[d] \in Slot
      BY <2>3 DEF OnTopicGraph, pool
    <3>2. CASE impl[d] = impl[c]
      <4>1. d = c
        BY <3>1, <3>2 DEF SlotsAccounted
      <4> QED
        BY <2>3, <3>1, <4>1 DEF OnTopicGraph, GraphArrives
    <3>3. CASE impl[d] # impl[c]
      <4>1. graph_info'[impl[d]] = graph_info[impl[d]]
        BY <2>3, <3>1, <3>3 DEF OnTopicGraph
      <4> QED
        BY <3>1, <4>1 DEF GraphOfThisSession, Failed
    <3> QED
      BY <3>2, <3>3
  <2>4. ASSUME /\ impl' = impl
               /\ \A s \in Slot :
                    /\ context_impl'[s].runs = context_impl[s].runs
                    /\ graph_info'[s].initialized = graph_info[s].initialized
                    /\ graph_info'[s].buffer = graph_info[s].buffer
        PROVE  graph_info'[impl'[d]].buffer.to = d
    <3>1. impl[d] \in Slot
      BY <2>4
    <3> QED
      BY <2>4, <3>1 DEF GraphOfThisSession, Failed
  <2>5. ASSUME NEW c \in Context, NEW n \in NodeSlot,
               NEW confirmed \in BOOLEAN, CreateNode(c, n, confirmed)
        PROVE  graph_info'[impl'[d]].buffer.to = d
    <3>1. impl[c] \in Slot
      BY <2>5 DEF CreateNode
    <3> QED
      BY <2>4, <2>5, <3>1 DEF CreateNode, pool, graph
  <2>6. ASSUME NEW n \in NodeSlot, GetGraphGuardCondition(n)
        PROVE  graph_info'[impl'[d]].buffer.to = d
    <3>1. nodes[n].context \in Slot
      BY <2>6 DEF GetGraphGuardCondition, Node
    <3> QED
      BY <2>4, <2>6, <3>1 DEF GetGraphGuardCondition, pool
  <2>7. ASSUME NEW waited \in SUBSET Slot, WaitGraph(waited)
        PROVE  graph_info'[impl'[d]].buffer.to = d
    BY <2>4, <2>7 DEF WaitGraph, pool
  <2>8. CASE UNCHANGED << pool, context_impl, graph_info >>
    BY <2>4, <2>8 DEF pool
  <2> QED
    BY <2>1, <2>2, <2>3, <2>5, <2>6, <2>7, <2>8, GraphChanges
<1> QED
  BY <1>1, <1>2, SessionTyping, NoSlotLeaks, PTL DEF Spec

(***************************************************************************)
(* A graph change is announced: between the message and the query that     *)
(* reads it, the flag is set or rmw_wait has reported it.                  *)
(***************************************************************************)
THEOREM GraphChangeAnnounced == Spec => []ChangeNotMissed
<1>1. Init => ChangeNotMissed
  BY DEF Init, ChangeNotMissed
<1>2. TypeOK /\ ChangeNotMissed /\ [Next]_vars => ChangeNotMissed'
  <2> SUFFICES ASSUME TypeOK, ChangeNotMissed, [Next]_vars,
                      NEW s \in unread'
               PROVE  graph_info'[s].has_changed \/ s \in notified'
    BY DEF ChangeNotMissed
  <2> USE DEF TypeOK
  <2>1. ASSUME NEW c \in Context, NEW t \in Slot,
               NEW fail \in FailPoint \cup {"none"}, RmwInit(c, t, fail)
        PROVE  graph_info'[s].has_changed \/ s \in notified'
    <3>1. s # t /\ s \in unread /\ s \in Slot
      BY <2>1 DEF RmwInit
    <3>2. graph_info'[s] = graph_info[s]
      BY <2>1, <3>1 DEF RmwInit
    <3> QED
      BY <2>1, <3>1, <3>2 DEF RmwInit, ChangeNotMissed
  <2>2. ASSUME NEW c \in Context, NEW message \in GraphMessage,
               OnTopicGraph(c, message)
        PROVE  graph_info'[s].has_changed \/ s \in notified'
    <3>1. impl[c] \in Slot
      BY <2>2 DEF OnTopicGraph
    <3>2. CASE s = impl[c]
      BY <2>2, <3>1, <3>2 DEF OnTopicGraph, GraphArrives
    <3>3. CASE s # impl[c]
      <4>1. s \in unread /\ s \in Slot /\ notified' = notified
        BY <2>2, <3>3 DEF OnTopicGraph
      <4>2. graph_info'[s] = graph_info[s]
        BY <2>2, <3>1, <3>3, <4>1 DEF OnTopicGraph
      <4> QED
        BY <4>1, <4>2 DEF ChangeNotMissed
    <3> QED
      BY <3>2, <3>3
  <2>3. ASSUME NEW n \in NodeSlot, GetGraphGuardCondition(n)
        PROVE  graph_info'[s].has_changed \/ s \in notified'
    <3>1. nodes[n].context \in Slot /\ s \in unread /\ s \in Slot
      BY <2>3 DEF GetGraphGuardCondition, Node
    <3>2. graph_info'[s].has_changed = graph_info[s].has_changed
      BY <2>3, <3>1 DEF GetGraphGuardCondition
    <3> QED
      BY <2>3, <3>1, <3>2 DEF GetGraphGuardCondition, ChangeNotMissed
  <2>4. ASSUME NEW waited \in SUBSET Slot, WaitGraph(waited)
        PROVE  graph_info'[s].has_changed \/ s \in notified'
    <3> DEFINE changed == {t \in waited : graph_info[t].has_changed}
    <3>1. /\ s \in unread /\ s \in Slot /\ notified' = notified \cup changed
          /\ s \notin changed => graph_info'[s] = graph_info[s]
      BY <2>4 DEF WaitGraph
    <3> QED
      BY <3>1 DEF ChangeNotMissed
  <2>5. ASSUME NEW n \in NodeSlot, QueryGraph(n)
        PROVE  graph_info'[s].has_changed \/ s \in notified'
    BY <2>5 DEF QueryGraph, ChangeNotMissed
  <2>6. CASE UNCHANGED graph
    BY <2>6 DEF graph, ChangeNotMissed
  <2> QED
    BY <2>1, <2>2, <2>3, <2>4, <2>5, <2>6 DEF Next, vars, RmwContextFini,
       CreateNode, DestroyNode, LinkChanges
<1> QED
  BY <1>1, <1>2, SessionTyping, PTL DEF Spec

-----------------------------------------------------------------------------
(* The transport of a session that runs is open. *)
RunsOverTransport ==
  \A s \in Slot : context_impl[s].runs => context_impl[s].transport = "open"

LEMMA SessionsHaveTransport == Spec => []RunsOverTransport
<1>1. Init => RunsOverTransport
  BY DEF Init, RunsOverTransport
<1>2. TypeOK /\ RunsOverTransport /\ [Next]_vars => RunsOverTransport'
  <2> SUFFICES ASSUME TypeOK, RunsOverTransport, [Next]_vars,
                      NEW s \in Slot, context_impl'[s].runs
               PROVE  context_impl'[s].transport = "open"
    BY DEF RunsOverTransport
  <2> USE DEF TypeOK
  <2>1. ASSUME NEW c \in Context, NEW t \in Slot,
               NEW fail \in FailPoint \cup {"none"}, RmwInit(c, t, fail)
        PROVE  context_impl'[s].transport = "open"
    <3>1. CASE s = t
      <4>1. /\ context_impl'[t].runs => fail = "none"
            /\ fail = "none" => context_impl'[t].transport = "open"
        BY <2>1 DEF RmwInit, InitSession
      <4> QED
        BY <3>1, <4>1
    <3>2. CASE s # t
      BY <2>1, <3>2 DEF RmwInit, InitSession, RunsOverTransport
    <3> QED
      BY <3>1, <3>2
  <2>2. ASSUME NEW c \in Context, RmwContextFini(c)
        PROVE  context_impl'[s].transport = "open"
    <3>1. impl[c] \in Slot
      BY <2>2 DEF RmwContextFini
    <3>2. s # impl[c] /\ context_impl'[s] = context_impl[s]
      BY <2>2, <3>1 DEF RmwContextFini
    <3> QED
      BY <3>2 DEF RunsOverTransport
  <2>3. ASSUME NEW c \in Context, NEW n \in NodeSlot,
               NEW confirmed \in BOOLEAN, CreateNode(c, n, confirmed)
        PROVE  context_impl'[s].transport = "open"
    <3>1. /\ impl[c] \in Slot
          /\ context_impl' =
               [context_impl EXCEPT ![impl[c]].id_participant = @ + 1]
      BY <2>3 DEF CreateNode
    <3>2. CASE s # impl[c]
      BY <3>1, <3>2 DEF RunsOverTransport
    <3>3. CASE s = impl[c]
      <4>1. context_impl'[s] =
              [context_impl[s] EXCEPT !.id_participant = @ + 1]
        BY <3>1, <3>3
      <4>2. context_impl[s] \in [transport : {"open", "closed"},
                                 runs : BOOLEAN,
                                 id_participant : 0..MaxParticipant]
        OBVIOUS
      <4> HIDE DEF TypeOK
      <4>3. context_impl'[s].runs => context_impl[s].runs
        BY <4>1, <4>2
      <4>4. context_impl'[s].transport = context_impl[s].transport
        BY <4>1, <4>2
      <4> QED
        BY <4>3, <4>4 DEF RunsOverTransport
    <3> QED
      BY <3>2, <3>3
  <2>4. CASE UNCHANGED context_impl
    BY <2>4 DEF RunsOverTransport
  <2> QED
    BY <2>1, <2>2, <2>3, <2>4, NodeChanges DEF DestroyNode
<1> QED
  BY <1>1, <1>2, SessionTyping, PTL DEF Spec

(***************************************************************************)
(* For an application that calls rmw_context_fini right after an rmw_init  *)
(* that failed, rmw_uros_ping_agent tells the truth.  (The run agent_ping  *)
(* shows that without this assumption it does not.)                        *)
(***************************************************************************)
THEOREM CarefulPing == ASSUME CarefulApp PROVE Spec => []PingTrue
<1>1. TypeOK /\ SlotsAccounted /\ RunsOverTransport => PingTrue
  <2> SUFFICES ASSUME TypeOK, SlotsAccounted, RunsOverTransport, Failed = {}
               PROVE  PingAnswers = link
    BY CarefulApp DEF PingTrue, GoesOn
  <2>1. CASE sessions = {}
    BY <2>1 DEF PingAnswers
  <2>2. CASE sessions # {}
    <3>1. PICK s \in sessions : TRUE
      BY <2>2
    <3>2. PICK c \in Context : impl[c] = s /\ impl[c] # NULL
      BY <3>1 DEF SlotsAccounted
    <3>3. context_impl[s].runs
      BY <3>2 DEF Failed
    <3>4. context_impl[s].transport = "open"
      BY <3>1, <3>3 DEF RunsOverTransport, TypeOK
    <3>5. (\E t \in sessions : link /\ context_impl[t].transport = "open")
            <=> link
      BY <3>1, <3>4
    <3>6. PingAnswers <=> link
      BY <2>2, <3>5 DEF PingAnswers
    <3> QED
      BY <2>2, <3>6 DEF PingAnswers, TypeOK
  <2> QED
    BY <2>1, <2>2
<1> QED
  BY <1>1, SessionTyping, NoSlotLeaks, SessionsHaveTransport, PTL

-----------------------------------------------------------------------------
(* A step that changes nothing but the context c and the slot s, which no  *)
(* other context has.                                                      *)
ChangesOnly(c, s) ==
  /\ \A d \in Context : impl[d] = s => d = c
  /\ \A d \in Context : d # c =>
       impl'[d] = impl[d] /\ participants'[d] = participants[d]
  /\ \A r \in Slot : r # s =>
       context_impl'[r] = context_impl[r] /\ graph_info'[r] = graph_info[r]
  /\ \A n \in NodeSlot :
       \/ nodes'[n] = nodes[n]
       \/ nodes[n].context \in {NULL, s} /\ nodes'[n].context \in {NULL, s}

LEMMA OthersKept ==
  ASSUME TypeOK, NEW c \in Context, NEW s \in Slot, ChangesOnly(c, s)
  PROVE  \A d \in Context : d # c => Kept(d)
<1> SUFFICES ASSUME NEW d \in Context, d # c PROVE Kept(d)
  OBVIOUS
<1>1. impl[d] \in Slot \cup {NULL} /\ impl[d] # s
  BY DEF TypeOK, ChangesOnly
<1>2. ASSUME impl[d] # NULL, NEW n \in NodeSlot,
             impl[d] \in {nodes[n].context, nodes'[n].context}
      PROVE  nodes'[n] = nodes[n]
  BY <1>1, <1>2 DEF ChangesOnly
<1>3. impl[d] # NULL =>
        /\ context_impl'[impl[d]] = context_impl[impl[d]]
        /\ graph_info'[impl[d]] = graph_info[impl[d]]
  BY <1>1 DEF ChangesOnly
<1>4. impl'[d] = impl[d] /\ participants'[d] = participants[d]
  BY DEF ChangesOnly
<1> QED
  BY <1>2, <1>3, <1>4 DEF Kept

(***************************************************************************)
(* Two contexts never change in one step, for any number of contexts,      *)
(* sessions and nodes, whether or not the application is careful.          *)
(***************************************************************************)
THEOREM ContextsStayApart == Spec => ContextsApart
<1>1. TypeOK /\ SlotsAccounted /\ [Next]_vars
        => [\A c, d \in Context : c = d \/ Kept(c) \/ Kept(d)]_vars
  <2> SUFFICES ASSUME TypeOK, SlotsAccounted, Next
               PROVE  \A c, d \in Context : c = d \/ Kept(c) \/ Kept(d)
    OBVIOUS
  <2>1. ASSUME NEW c \in Context, \A d \in Context : d # c => Kept(d)
        PROVE  \A e, d \in Context : e = d \/ Kept(e) \/ Kept(d)
    BY <2>1
  <2>2. ASSUME NEW s, s # NULL, NEW c \in Context, impl[c] = s
        PROVE  s \in Slot /\ \A d \in Context : impl[d] = s => d = c
    BY <2>2 DEF TypeOK, SlotsAccounted
  <2>3. ASSUME NEW c \in Context, NEW s \in Slot,
               NEW fail \in FailPoint \cup {"none"}, RmwInit(c, s, fail)
        PROVE  \A d \in Context : d # c => Kept(d)
    <3>1. \A d \in Context : impl[d] # s
      BY <2>3 DEF RmwInit, SlotsAccounted, Slot, NULL
    <3>2. /\ \A d \in Context : d # c =>
               impl'[d] = impl[d] /\ participants'[d] = participants[d]
          /\ \A r \in Slot : r # s => context_impl'[r] = context_impl[r]
          /\ \A r \in Slot : r # s => graph_info'[r] = graph_info[r]
          /\ nodes' = nodes
      BY <2>3 DEF RmwInit, InitSession, TypeOK
    <3>4. ChangesOnly(c, s)
      BY <3>1, <3>2 DEF ChangesOnly
    <3> QED
      BY <3>4, OthersKept
  <2>4. ASSUME NEW c \in Context, RmwContextFini(c)
        PROVE  \A d \in Context : d # c => Kept(d)
    <3> DEFINE s == impl[c]
    <3>1. s \in Slot /\ \A d \in Context : impl[d] = s => d = c
      BY <2>2, <2>4 DEF RmwContextFini
    <3>2. /\ \A d \in Context : d # c =>
               impl'[d] = impl[d] /\ participants'[d] = participants[d]
          /\ \A r \in Slot : r # s => context_impl'[r] = context_impl[r]
          /\ graph_info' = graph_info
      BY <2>4, <3>1 DEF RmwContextFini, TypeOK, graph
    <3>3. \A n \in NodeSlot :
            \/ nodes'[n] = nodes[n]
            \/ nodes[n].context = s /\ nodes'[n].context = NULL
      BY <2>4 DEF RmwContextFini, Destroyed, Unused
    <3>4. ChangesOnly(c, s)
      BY <3>1, <3>2, <3>3 DEF ChangesOnly
    <3> QED
      BY <3>1, <3>4, OthersKept
  <2>5. ASSUME NEW c \in Context, NEW n \in NodeSlot,
               NEW confirmed \in BOOLEAN, CreateNode(c, n, confirmed)
        PROVE  \A d \in Context : d # c => Kept(d)
    <3> DEFINE s == impl[c]
    <3>1. s \in Slot /\ \A d \in Context : impl[d] = s => d = c
      BY <2>2, <2>5 DEF CreateNode
    <3>2. /\ \A d \in Context : d # c =>
               impl'[d] = impl[d] /\ participants'[d] = participants[d]
          /\ \A r \in Slot : r # s => context_impl'[r] = context_impl[r]
          /\ graph_info' = graph_info
      BY <2>5, <3>1 DEF CreateNode, TypeOK, graph, pool
    <3>3. \A m \in NodeSlot :
            \/ nodes'[m] = nodes[m]
            \/ nodes[m].context = NULL /\ nodes'[m].context = s
      BY <2>5 DEF CreateNode, TypeOK, Unused
    <3>4. ChangesOnly(c, s)
      BY <3>1, <3>2, <3>3 DEF ChangesOnly
    <3> QED
      BY <3>1, <3>4, OthersKept
  <2>6. ASSUME NEW c \in Context, NEW n \in NodeSlot, DestroyNode(c, n)
        PROVE  \A d \in Context : d # c => Kept(d)
    <3> DEFINE s == impl[c]
    <3>1. s \in Slot /\ \A d \in Context : impl[d] = s => d = c
      BY <2>2, <2>6 DEF DestroyNode
    <3>2. /\ \A d \in Context : d # c =>
               impl'[d] = impl[d] /\ participants'[d] = participants[d]
          /\ context_impl' = context_impl /\ graph_info' = graph_info
      BY <2>6, <3>1 DEF DestroyNode, TypeOK, graph, pool
    <3>3. \A m \in NodeSlot :
            \/ nodes'[m] = nodes[m]
            \/ nodes[m].context = s /\ nodes'[m].context = NULL
      BY <2>6 DEF DestroyNode, TypeOK, Unused
    <3>4. ChangesOnly(c, s)
      BY <3>1, <3>2, <3>3 DEF ChangesOnly
    <3> QED
      BY <3>1, <3>4, OthersKept
  <2>7. ASSUME NEW c \in Context, NEW message \in GraphMessage,
               OnTopicGraph(c, message)
        PROVE  \A d \in Context : d # c => Kept(d)
    <3> DEFINE s == impl[c]
    <3>1. s \in Slot /\ \A d \in Context : impl[d] = s => d = c
      BY <2>2, <2>7 DEF OnTopicGraph
    <3>2. /\ UNCHANGED << impl, participants, context_impl, nodes >>
          /\ \A r \in Slot : r # s => graph_info'[r] = graph_info[r]
      BY <2>7, <3>1 DEF OnTopicGraph, TypeOK, pool
    <3>4. ChangesOnly(c, s)
      BY <3>1, <3>2 DEF ChangesOnly
    <3> QED
      BY <3>1, <3>4, OthersKept
  <2>8. ASSUME NEW n \in NodeSlot, GetGraphGuardCondition(n)
        PROVE  \A e, d \in Context : e = d \/ Kept(e) \/ Kept(d)
    <3> DEFINE s == nodes[n].context
    <3>1. s \in Slot
      BY <2>8 DEF GetGraphGuardCondition, TypeOK, Node
    <3>2. /\ UNCHANGED << impl, participants, context_impl, nodes >>
          /\ \A r \in Slot : r # s => graph_info'[r] = graph_info[r]
      BY <2>8, <3>1 DEF GetGraphGuardCondition, TypeOK, pool
    <3>3. \A d \in Context : impl[d] # s => Kept(d)
      BY <3>2 DEF Kept, TypeOK
    <3>4. \A e, d \in Context : impl[e] = s /\ impl[d] = s => e = d
      BY <3>1 DEF SlotsAccounted, Slot, NULL
    <3> QED
      BY <3>3, <3>4
  <2>9. ASSUME NEW waited \in SUBSET Slot, WaitGraph(waited)
        PROVE  \A d \in Context : Kept(d)
    <3> DEFINE changed == {s \in waited : graph_info[s].has_changed}
    <3>1. /\ UNCHANGED << impl, participants, context_impl, nodes >>
          /\ graph_info' = [s \in Slot |->
               IF s \in changed
               THEN [graph_info[s] EXCEPT !.has_changed = FALSE]
               ELSE graph_info[s]]
      BY <2>9 DEF WaitGraph, pool
    <3>2. ASSUME NEW s \in Slot
          PROVE  /\ graph_info'[s].initialized = graph_info[s].initialized
                 /\ graph_info'[s].buffer = graph_info[s].buffer
                 /\ graph_info'[s].guard = graph_info[s].guard
      BY <3>1
    <3> QED
      BY <3>1, <3>2 DEF Kept, TypeOK
  <2>10. CASE UNCHANGED << impl, participants, context_impl, nodes,
                           graph_info >>
    BY <2>10 DEF Kept
  <2>11. ASSUME NEW n \in NodeSlot, QueryGraph(n)
         PROVE  UNCHANGED << impl, participants, context_impl, nodes,
                             graph_info >>
    BY <2>11 DEF QueryGraph, pool
  <2>12. LinkChanges => UNCHANGED << impl, participants, context_impl, nodes,
                                     graph_info >>
    BY DEF LinkChanges, pool, graph
  <2> QED
    BY <2>1, <2>3, <2>4, <2>5, <2>6, <2>7, <2>8, <2>9, <2>10, <2>11, <2>12
    DEF Next
<1> QED
  BY <1>1, SessionTyping, NoSlotLeaks, PTL DEF Spec, ContextsApart

-----------------------------------------------------------------------------
(* A slot whose graph_info is initialized holds a graph message. *)
BufferFilled ==
  \A s \in Slot :
    graph_info[s].initialized => graph_info[s].buffer.message \in GraphMessage

LEMMA MessagesArrived == Spec => []BufferFilled
<1>1. Init => BufferFilled
  BY DEF Init, BufferFilled
<1>2. TypeOK /\ BufferFilled /\ [Next]_vars => BufferFilled'
  <2> SUFFICES ASSUME TypeOK, BufferFilled, [Next]_vars,
                      NEW r \in Slot, graph_info'[r].initialized
               PROVE  graph_info'[r].buffer.message \in GraphMessage
    BY DEF BufferFilled
  <2> USE DEF TypeOK
  <2>1. ASSUME graph_info'[r].initialized = graph_info[r].initialized,
               graph_info'[r].buffer = graph_info[r].buffer
        PROVE  graph_info'[r].buffer.message \in GraphMessage
    BY <2>1 DEF BufferFilled
  <2>2. ASSUME NEW c \in Context, NEW s \in Slot,
               NEW fail \in FailPoint \cup {"none"}, RmwInit(c, s, fail)
        PROVE  graph_info'[r].buffer.message \in GraphMessage
    <3>1. CASE r = s
      <4>1. fail \notin {"none", "graph"}
        BY <2>2, <3>1 DEF RmwInit, GraphInit
      <4>2. graph_info' = [graph_info EXCEPT ![s] =
                             [graph_info[s] EXCEPT !.guard = FALSE]]
        BY <2>2, <4>1 DEF RmwInit
      <4>3. graph_info'[s] = [graph_info[s] EXCEPT !.guard = FALSE]
        BY <4>2
      <4>4. /\ graph_info'[s].initialized = graph_info[s].initialized
            /\ graph_info'[s].buffer = graph_info[s].buffer
        BY <4>3
      <4> QED
        BY <2>1, <3>1, <4>4
    <3>2. CASE r # s
      BY <2>1, <2>2, <3>2 DEF RmwInit
    <3> QED
      BY <3>1, <3>2
  <2>3. ASSUME NEW c \in Context, RmwContextFini(c)
        PROVE  graph_info'[r].buffer.message \in GraphMessage
    BY <2>1, <2>3 DEF RmwContextFini, graph
  <2>4. ASSUME NEW c \in Context, NEW n \in NodeSlot,
               NEW confirmed \in BOOLEAN, CreateNode(c, n, confirmed)
        PROVE  graph_info'[r].buffer.message \in GraphMessage
    BY <2>1, <2>4 DEF CreateNode, graph
  <2>5. ASSUME NEW c \in Context, NEW message \in GraphMessage,
               OnTopicGraph(c, message)
        PROVE  graph_info'[r].buffer.message \in GraphMessage
    <3>1. impl[c] \in Slot
      BY <2>5 DEF OnTopicGraph
    <3>2. CASE r = impl[c]
      BY <2>5, <3>1, <3>2 DEF OnTopicGraph, GraphArrives
    <3>3. CASE r # impl[c]
      BY <2>1, <2>5, <3>1, <3>3 DEF OnTopicGraph
    <3> QED
      BY <3>2, <3>3
  <2>6. ASSUME NEW n \in NodeSlot, GetGraphGuardCondition(n)
        PROVE  graph_info'[r].buffer.message \in GraphMessage
    <3>1. nodes[n].context \in Slot
      BY <2>6 DEF GetGraphGuardCondition, Node
    <3>2. graph_info' = [graph_info EXCEPT ![nodes[n].context].guard = TRUE]
      BY <2>6 DEF GetGraphGuardCondition
    <3>3. /\ graph_info'[r].initialized = graph_info[r].initialized
          /\ graph_info'[r].buffer = graph_info[r].buffer
      <4>1. CASE r = nodes[n].context
        <5>1. graph_info'[r] = [graph_info[r] EXCEPT !.guard = TRUE]
          BY <3>2, <4>1
        <5> QED
          BY <5>1
      <4>2. CASE r # nodes[n].context
        BY <3>2, <4>2
      <4> QED
        BY <4>1, <4>2
    <3> QED
      BY <2>1, <3>3
  <2>7. ASSUME NEW waited \in SUBSET Slot, WaitGraph(waited)
        PROVE  graph_info'[r].buffer.message \in GraphMessage
    BY <2>1, <2>7 DEF WaitGraph
  <2>8. CASE UNCHANGED << pool, context_impl, graph_info >>
    BY <2>1, <2>8
  <2> QED
    BY <2>2, <2>3, <2>4, <2>5, <2>6, <2>7, <2>8, GraphChanges
<1> QED
  BY <1>1, <1>2, SessionTyping, PTL DEF Spec

(***************************************************************************)
(* The queries of the ROS graph agree about what is in the buffer, and not *)
(* only for the messages of an instance: a name listed is counted, a name  *)
(* counted is listed once, with the types of one of its endpoints.         *)
(***************************************************************************)
THEOREM QueriesConsistent == Spec => []QueriesAgree
<1>1. BufferFilled => QueriesAgree
  <2> SUFFICES ASSUME BufferFilled, NEW s \in Slot, graph_info[s].initialized
               PROVE  LET message == graph_info[s].buffer.message
                      IN  /\ ListAgrees(message, TopicNamesAndTypes(message),
                                        {"publisher", "subscriber"})
                          /\ ListAgrees(message,
                                        ServiceNamesAndTypes(message),
                                        {"server", "client"})
    BY DEF QueriesAgree
  <2>1. graph_info[s].buffer.message \in GraphData
    BY GraphAssumption DEF BufferFilled
  <2> QED
    BY <2>1, ListsAgree DEF TopicNamesAndTypes, ServiceNamesAndTypes
<1> QED
  BY <1>1, MessagesArrived, PTL

=============================================================================
