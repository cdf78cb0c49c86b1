--------------------------- MODULE ContextSession ---------------------------
(***************************************************************************)
(* Contexts and their XRCE sessions: rmw_init with each of its failures,   *)
(* rmw_context_fini and rmw_shutdown, the nodes of a context, the ping of  *)
(* the agent, and the graph information that a session keeps.              *)
(*                                                                         *)
(* One application thread calls the functions one after another, so a call *)
(* is one step.  The agent and the link to it are external: a request that *)
(* is not confirmed may have been carried out or not.  The pools of        *)
(* sessions and of nodes are SlotAllocator's sets, which memory.c          *)
(* implements; what the walks do here does not depend on their order.      *)
(***************************************************************************)
EXTENDS GraphInfo, FiniteSets

CONSTANTS
  Context,       (* the rmw_context_t objects of the application           *)
  MaxSessions,   (* RMW_UXRCE_MAX_SESSIONS                                 *)
  MaxNodes,      (* RMW_UXRCE_MAX_NODES                                    *)
  GraphMessage,  (* the graph messages the agent may send                  *)
  CarefulApp,    (* whether the application calls rmw_context_fini right   *)
                 (* after an rmw_init that failed, as rcl does             *)
  MaxParticipant (* bound: ids of participants in one session              *)

ASSUME SessionAssumption ==
  /\ MaxSessions \in Nat \ {0}
  /\ MaxNodes \in Nat
  /\ MaxParticipant \in Nat \ {0}
  /\ CarefulApp \in BOOLEAN

ASSUME GraphAssumption == GraphMessage \subseteq GraphData

Slot == 1..MaxSessions
NULL == 0

Node == [context : Slot, participant_id : 0..MaxParticipant]
Unused == [context |-> NULL]
NodeSlot == 1..MaxNodes

(* The places where rmw_init fails once it has a slot. *)
FailPoint == {"transport", "session", "graph"}

VARIABLES
  impl,          (* context->impl of each context: a slot or NULL          *)
  sessions,      (* the items allocated in session_memory                  *)
  context_impl,  (* of each slot: whether the transport is open, whether   *)
                 (* the XRCE session runs, and the counter id_participant  *)
  nodes,         (* of each node slot: Unused, or the session slot that is *)
                 (* the node's context and its participant                 *)
  graph_info,    (* of each slot: initialized, has_changed, the message in *)
                 (* micro_buffer with the context it was sent to, and      *)
                 (* whether graph_guard_condition.data is set              *)
  participants,  (* what the agent holds for the session of each context   *)
  link,          (* whether the agent can be reached                       *)
  unread,        (* slots with a graph message that no query has read      *)
  notified       (* slots whose guard condition rmw_wait reported, without *)
                 (* a query since                                          *)

pool  == << impl, sessions >>
graph == << graph_info, unread, notified >>
vars  == << pool, context_impl, nodes, graph, participants, link >>

NoMessage == [to |-> NULL]

Init ==
  /\ impl = [c \in Context |-> NULL]
  /\ sessions = {}
  /\ context_impl = [s \in Slot |->
       [transport |-> "closed", runs |-> FALSE, id_participant |-> 0]]
  /\ nodes = [n \in NodeSlot |-> Unused]
  /\ graph_info = [s \in Slot |->
       [initialized |-> FALSE, has_changed |-> FALSE, buffer |-> NoMessage,
        guard |-> FALSE]]
  /\ participants = [c \in Context |-> {}]
  /\ link = TRUE
  /\ unread = {}
  /\ notified = {}

(* The contexts whose rmw_init failed and left them a slot. *)
Failed == {c \in Context : impl[c] # NULL /\ ~context_impl[impl[c]].runs}

(* The application goes on to another call. *)
GoesOn == CarefulApp => Failed = {}

-----------------------------------------------------------------------------
(* GraphInit with a mistake: what the slot's last session left stays. *)
GraphInitKeeps(info) == [info EXCEPT !.has_changed = FALSE]

(* rmw_graph_init resets graph_info; the graph's entities, which it then   *)
(* creates, are confirmed or not (the failure "graph").                    *)
GraphInit(info) == [info EXCEPT !.initialized = FALSE, !.has_changed = FALSE]

(* InitSession with a mistake: a session that the agent refuses keeps its  *)
(* transport, and the slot is not the context's.                           *)
InitSessionNoSlot(c, s, fail) ==
  /\ impl' = IF fail = "none" THEN [impl EXCEPT ![c] = s] ELSE impl
  /\ context_impl' = [context_impl EXCEPT ![s] =
       [transport |-> IF fail = "transport" THEN "closed" ELSE "open",
        runs |-> fail = "none",
        id_participant |-> IF fail \in {"none", "graph"} THEN 1 ELSE 0]]

(* What rmw_init assigns in the slot s, up to the step that fails.  The    *)
(* transport is closed again when the agent does not answer, and stays     *)
(* open when rmw_graph_init fails; the slot stays the context's in every   *)
(* case.  The graph takes the first participant.                           *)
InitSession(c, s, fail) ==
  /\ impl' = [impl EXCEPT ![c] = s]
  /\ context_impl' = [context_impl EXCEPT ![s] =
       [transport |-> IF fail \in {"transport", "session"} THEN "closed"
                                                           ELSE "open",
        runs |-> fail = "none",
        id_participant |-> IF fail \in {"none", "graph"} THEN 1 ELSE 0]]

(* rmw_init on a context without a session, s = get_memory(...).  With no  *)
(* free slot it answers an error and leaves the context as it was.         *)
RmwInit(c, s, fail) ==
  /\ GoesOn
  /\ impl[c] = NULL
  /\ s \notin sessions
  /\ ~link => fail \in {"transport", "session"}
  /\ sessions' = sessions \cup {s}
  /\ InitSession(c, s, fail)
  /\ graph_info' =
       [graph_info EXCEPT ![s] =
          [(IF fail \in {"none", "graph"} THEN GraphInit(@) ELSE @)
             EXCEPT !.guard = FALSE]]
  /\ unread' = unread \ {s}
  /\ notified' = notified \ {s}
  /\ participants' = [participants EXCEPT ![c] =
                         IF fail = "none" THEN {0} ELSE @]
  /\ UNCHANGED << nodes, link >>

-----------------------------------------------------------------------------
(* Destroyed with a mistake: the loop ends at the first node of the        *)
(* context, as if its destruction had answered an error.                   *)
DestroyedStops(s) ==
  IF \E n \in NodeSlot : nodes[n].context = s
  THEN [nodes EXCEPT ![CHOOSE n \in NodeSlot : nodes[n].context = s] = Unused]
  ELSE nodes

(* Destroyed with a mistake: the nodes stay, without a context. *)
DestroyedContext(s) ==
  [n \in NodeSlot |-> IF nodes[n].context = s
                      THEN [nodes[n] EXCEPT !.context = NULL] ELSE nodes[n]]

(* Destroyed with a mistake: the loop does not compare the context. *)
DestroyedAll(s) == [n \in NodeSlot |-> Unused]

(* What the loop of rmw_context_fini comes to: whatever each               *)
(* rmw_destroy_node answers, all nodes of the session are gone.  The loop  *)
(* reads the next item before it destroys; the turns of its walk over the  *)
(* list that it takes apart are not modelled.                              *)
Destroyed(s) ==
  [n \in NodeSlot |-> IF nodes[n].context = s THEN Unused ELSE nodes[n]]

(* FiniSession with a mistake: a failed session's slot is not put. *)
FiniSessionKeepsFailed(s) ==
  sessions' = IF context_impl[s].runs THEN sessions \ {s} ELSE sessions

(* rmw_uxrce_fini_session_memory. *)
FiniSession(s) == sessions' = sessions \ {s}

(* rmw_context_fini, which rmw_shutdown calls, on a context with a slot:   *)
(* whatever the agent confirms, the memory is given back.  (What the agent *)
(* still holds for a session that ended is not followed.)                  *)
RmwContextFini(c) ==
  /\ impl[c] # NULL
  /\ CarefulApp => Failed \subseteq {c}
  /\ nodes' = Destroyed(impl[c])
  /\ FiniSession(impl[c])
  /\ context_impl' = [context_impl EXCEPT
       ![impl[c]].transport = "closed", ![impl[c]].runs = FALSE]
  /\ impl' = [impl EXCEPT ![c] = NULL]
  /\ participants' = [participants EXCEPT ![c] = {}]
  /\ UNCHANGED << graph, link >>

-----------------------------------------------------------------------------
(* NextParticipant with a mistake: the ids of the nodes start at zero. *)
NextParticipantZero(s) == context_impl[s].id_participant - 1

(* id_participant++ *)
NextParticipant(s) == context_impl[s].id_participant

(* create_node, n = get_memory(...).  A participant that is not confirmed  *)
(* costs an id, the slot is put back, and the agent may hold the           *)
(* participant nevertheless.                                               *)
CreateNode(c, n, confirmed) ==
  /\ GoesOn
  /\ impl[c] # NULL /\ c \notin Failed
  /\ nodes[n] = Unused
  /\ context_impl[impl[c]].id_participant < MaxParticipant
  /\ confirmed => link
  /\ LET id == NextParticipant(impl[c])
     IN  /\ nodes' = IF confirmed
                     THEN [nodes EXCEPT ![n] =
                             [context |-> impl[c], participant_id |-> id]]
                     ELSE nodes
         /\ \E arrived \in {confirmed, link} :
              participants' = [participants EXCEPT ![c] =
                                 IF arrived THEN @ \cup {id} ELSE @]
  /\ context_impl' = [context_impl EXCEPT ![impl[c]].id_participant = @ + 1]
  /\ UNCHANGED << pool, graph, link >>

(* rmw_destroy_node: the slot is put whether or not the agent confirms.    *)
(* (The node's entities are EntityLifecycle's.)                            *)
DestroyNode(c, n) ==
  /\ GoesOn
  /\ impl[c] # NULL
  /\ nodes[n].context = impl[c]
  /\ \E arrived \in {FALSE, link} :
       participants' = [participants EXCEPT ![c] =
         IF arrived THEN @ \ {nodes[n].participant_id} ELSE @]
  /\ nodes' = [nodes EXCEPT ![n] = Unused]
  /\ UNCHANGED << pool, context_impl, graph, link >>

-----------------------------------------------------------------------------
(* GraphArrives with a mistake: only the first message is a change. *)
GraphArrivesOnce(info, c, message) ==
  [info EXCEPT !.buffer = [to |-> c, message |-> message],
               !.has_changed = @ \/ ~info.initialized,
               !.initialized = TRUE]

(* The graph branch of on_topic: the last message is overwritten. *)
GraphArrives(info, c, message) ==
  [info EXCEPT !.buffer = [to |-> c, message |-> message],
               !.has_changed = TRUE,
               !.initialized = TRUE]

(* A graph message arrives while the session runs. *)
OnTopicGraph(c, message) ==
  /\ GoesOn
  /\ link
  /\ impl[c] # NULL /\ c \notin Failed
  /\ graph_info' = [graph_info EXCEPT ![impl[c]] =
                      GraphArrives(@, c, message)]
  /\ unread' = unread \cup {impl[c]}
  /\ UNCHANGED << pool, context_impl, nodes, notified, participants, link >>

(* rmw_node_get_graph_guard_condition. *)
GetGraphGuardCondition(n) ==
  /\ GoesOn
  /\ nodes[n] # Unused
  /\ graph_info' = [graph_info EXCEPT ![nodes[n].context].guard = TRUE]
  /\ UNCHANGED << pool, context_impl, nodes, unread, notified, participants,
                  link >>

(* rmw_wait on the guard conditions of some sessions, after the sessions   *)
(* ran: those whose flag is set are reported and cleared.                  *)
WaitGraph(waited) ==
  /\ GoesOn
  /\ \A s \in waited : graph_info[s].guard
  /\ LET changed == {s \in waited : graph_info[s].has_changed}
     IN  /\ changed # {}
         /\ graph_info' = [s \in Slot |->
              IF s \in changed
              THEN [graph_info[s] EXCEPT !.has_changed = FALSE]
              ELSE graph_info[s]]
         /\ notified' = notified \cup changed
  /\ UNCHANGED << pool, context_impl, nodes, unread, participants, link >>

(* A graph query through a node: it reads micro_buffer, and changes        *)
(* nothing but what the application knows.                                 *)
QueryGraph(n) ==
  /\ GoesOn
  /\ nodes[n] # Unused
  /\ graph_info[nodes[n].context].initialized
  /\ unread' = unread \ {nodes[n].context}
  /\ notified' = notified \ {nodes[n].context}
  /\ UNCHANGED << pool, context_impl, nodes, graph_info, participants, link >>

-----------------------------------------------------------------------------
(* What rmw_uros_ping_agent answers: over a transport opened for the ping  *)
(* when no slot is allocated, and otherwise over the allocated ones until  *)
(* one answers.  Over a closed transport no answer comes.                  *)
PingAnswers ==
  IF sessions = {}
  THEN link
  ELSE \E s \in sessions : link /\ context_impl[s].transport = "open"

(* The link to the agent breaks or comes back. *)
LinkChanges ==
  /\ link' = ~link
  /\ UNCHANGED << pool, context_impl, nodes, graph, participants >>

Next ==
  \/ \E c \in Context, s \in Slot, fail \in FailPoint \cup {"none"} :
       RmwInit(c, s, fail)
  \/ \E c \in Context : RmwContextFini(c)
  \/ \E c \in Context, n \in NodeSlot, confirmed \in BOOLEAN :
       CreateNode(c, n, confirmed)
  \/ \E c \in Context, n \in NodeSlot : DestroyNode(c, n)
  \/ \E c \in Context, message \in GraphMessage : OnTopicGraph(c, message)
  \/ \E n \in NodeSlot : GetGraphGuardCondition(n)
  \/ \E waited \in SUBSET Slot : WaitGraph(waited)
  \/ \E n \in NodeSlot : QueryGraph(n)
  \/ LinkChanges

Spec == Init /\ [][Next]_vars

-----------------------------------------------------------------------------
TypeOK ==
  /\ impl \in [Context -> Slot \cup {NULL}]
  /\ sessions \subseteq Slot
  /\ context_impl \in [Slot -> [transport : {"open", "closed"},
                                runs : BOOLEAN,
                                id_participant : 0..MaxParticipant]]
  /\ nodes \in [NodeSlot -> Node \cup {Unused}]
  /\ graph_info \in [Slot ->
       [initialized : BOOLEAN, has_changed : BOOLEAN, guard : BOOLEAN,
        buffer : [to : Context, message : GraphMessage] \cup {NoMessage}]]
  /\ participants \in [Context -> SUBSET (0..MaxParticipant)]
  /\ link \in BOOLEAN
  /\ unread \subseteq Slot
  /\ notified \subseteq Slot

(***************************************************************************)
(* A slot is allocated if and only if it is the impl of a context, and of  *)
(* one context only, after every failure of rmw_init too: none is lost     *)
(* (then a later rmw_init would answer "Not available session memory       *)
(* node") and none is shared.                                              *)
(***************************************************************************)
SlotsAccounted ==
  /\ sessions = {impl[c] : c \in Context} \ {NULL}
  /\ \A c, d \in Context : impl[c] = impl[d] => c = d \/ impl[c] = NULL

(***************************************************************************)
(* Every node belongs to a context whose session runs: rmw_context_fini    *)
(* leaves no node behind, even when the agent confirms nothing, so that no *)
(* node's context pointer refers to a slot that was put or is another's.   *)
(***************************************************************************)
NodesHaveSession ==
  \A n \in NodeSlot :
    nodes[n] # Unused =>
      \E c \in Context : impl[c] = nodes[n].context /\ c \notin Failed

(***************************************************************************)
(* The participant of every living node is on the agent, and no other      *)
(* node's: ids are not given twice in a session (create_node counts the    *)
(* attempts, the graph takes one), so a late or a lost deletion of one     *)
(* node never takes another's.                                             *)
(***************************************************************************)
LiveOnAgent ==
  /\ \A n \in NodeSlot, c \in Context :
       nodes[n] # Unused /\ impl[c] = nodes[n].context =>
         nodes[n].participant_id \in participants[c] \ {0}
  /\ \A m, n \in NodeSlot :
       nodes[m] = nodes[n] => m = n \/ nodes[m] = Unused

(* What a step leaves to a context: its slot, its session, its nodes, what *)
(* the agent holds for it, and its graph but for the flag, which one       *)
(* rmw_wait may clear for several contexts.                                *)
Kept(c) ==
  /\ impl'[c] = impl[c]
  /\ participants'[c] = participants[c]
  /\ impl[c] # NULL =>
       /\ context_impl'[impl[c]] = context_impl[impl[c]]
       /\ \A n \in NodeSlot :
            impl[c] \in {nodes[n].context, nodes'[n].context}
              => nodes'[n] = nodes[n]
       /\ graph_info'[impl[c]].initialized = graph_info[impl[c]].initialized
       /\ graph_info'[impl[c]].buffer = graph_info[impl[c]].buffer
       /\ graph_info'[impl[c]].guard = graph_info[impl[c]].guard

(***************************************************************************)
(* No call for one context, rmw_init that fails half way and               *)
(* rmw_context_fini included, touches anything of another: two contexts    *)
(* never change in one step, although all their sessions, nodes and graphs *)
(* are in the same pools.                                                  *)
(***************************************************************************)
ContextsApart ==
  [][\A c, d \in Context : c = d \/ Kept(c) \/ Kept(d)]_vars

(***************************************************************************)
(* The graph that the queries read came in the session that the slot       *)
(* carries now, not in one that had the slot before.                       *)
(***************************************************************************)
GraphOfThisSession ==
  \A c \in Context :
    impl[c] # NULL /\ c \notin Failed /\ graph_info[impl[c]].initialized
      => graph_info[impl[c]].buffer.to = c

(***************************************************************************)
(* While a graph message waits that no query has read, the flag behind the *)
(* guard condition is set or rmw_wait has reported it since the last query *)
(* (on_topic, rmw_wait and rmw_node_get_graph_guard_condition share the    *)
(* flag).                                                                  *)
(***************************************************************************)
ChangeNotMissed ==
  \A s \in unread : graph_info[s].has_changed \/ s \in notified

(* The topic and service lists, the counts and the endpoints that the      *)
(* application reads from the last message agree (see ListAgrees).         *)
QueriesAgree ==
  \A s \in Slot :
    graph_info[s].initialized =>
      LET message == graph_info[s].buffer.message
      IN  message.sound =>
            /\ ListAgrees(message, TopicNamesAndTypes(message),
                          {"publisher", "subscriber"})
            /\ ListAgrees(message, ServiceNamesAndTypes(message),
                          {"server", "client"})

(***************************************************************************)
(* ping.h: "RMW_RET_OK If micro-ROS Agent is available", "RMW_RET_ERROR If *)
(* micro-ROS Agent is not available", also when no context is initialized: *)
(* whenever the application may ping.                                      *)
(***************************************************************************)
PingTrue == GoesOn => PingAnswers = link
=============================================================================
