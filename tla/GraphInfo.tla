------------------------------ MODULE GraphInfo ------------------------------
(***************************************************************************)
(* The queries of the ROS graph (build option RMW_UXRCE_GRAPH) over the    *)
(* last graph message that the agent sent, as rmw_graph_fill_data_from_    *)
(* buffer reads it out of graph_info->micro_buffer.                        *)
(*                                                                         *)
(* The queries run through the entities of all nodes in two nested loops.  *)
(* A message is therefore [sound, entities]: sound says that every field   *)
(* deserializes, entities are in the order of these loops, each with the   *)
(* name of its node.  (A node without entities is in rmw_get_node_names    *)
(* only.)  Copies of names and types are complete here: the bound that the *)
(* code gives to snprintf, the field `capacity` of a string array of       *)
(* rcutils, is taken for large enough.                                     *)
(***************************************************************************)
EXTENDS Naturals, Sequences, FiniteSets

GraphKind == {"publisher", "subscriber", "server", "client"}

(* What is read for one entity; the code takes types.data[0] for granted. *)
GraphEntity ==
  [node  : STRING,
   kind  : GraphKind,
   name  : STRING,
   types : Seq(STRING) \ {<< >>}]

(* What can be read out of micro_buffer. *)
GraphData == [sound : BOOLEAN, entities : Seq(GraphEntity)]

(* The places in the message of the entities that match. *)
OfTopic(message, kind, name) ==
  {i \in DOMAIN message.entities : /\ message.entities[i].kind = kind
                                   /\ message.entities[i].name = name}

(* __rmw_count_entities. *)
CountEntities(message, kind, name) ==
  Cardinality(OfTopic(message, kind, name))

(* __rmw_get_endpoint_info_by_topic: the node of each endpoint, and the    *)
(* first of its types.                                                     *)
EndpointInfo(message, kind, name) ==
  [i \in OfTopic(message, kind, name) |->
     [node_name  |-> message.entities[i].node,
      topic_type |-> Head(message.entities[i].types)]]

(* Include with a mistake: a name is listed for every entity. *)
IncludeRepeated(list, entity, kinds) ==
  IF entity.kind \notin kinds
  THEN list
  ELSE Append(list, [name |-> entity.name, types |-> entity.types])

(* One turn of the loop below: the list with an entity, unless it is there *)
(* ("Do not include in the list if it already exists").                    *)
Include(list, entity, kinds) ==
  IF \/ entity.kind \notin kinds
     \/ \E k \in DOMAIN list : list[k].name = entity.name
  THEN list
  ELSE Append(list, [name |-> entity.name, types |-> entity.types])

(* The loop of rmw_get_topic_names_and_types and of                        *)
(* rmw_get_service_names_and_types: a name is listed once, with the types  *)
(* of the first entity that has it.                                        *)
NamesAndTypes(message, kinds) ==
  LET after[n \in 0..Len(message.entities)] ==
        IF n = 0 THEN << >>
        ELSE Include(after[n - 1], message.entities[n], kinds)
  IN  after[Len(message.entities)]

TopicNamesAndTypes(message) ==
  NamesAndTypes(message, {"publisher", "subscriber"})

ServiceNamesAndTypes(message) ==
  NamesAndTypes(message, {"server", "client"})

(***************************************************************************)
(* The queries agree about a message: a name of an entity, or in the list, *)
(* is listed exactly once if and only if an entity of those kinds is       *)
(* counted, and the types listed are those of an endpoint.                 *)
(***************************************************************************)
ListAgrees(message, list, kinds) ==
  \A name \in {message.entities[i].name : i \in DOMAIN message.entities}
                \cup {list[k].name : k \in DOMAIN list} :
    LET at == {k \in DOMAIN list : list[k].name = name}
    IN  /\ at # {} <=> \E kind \in kinds :
                         CountEntities(message, kind, name) > 0
        /\ \A j, k \in at : j = k
        /\ \A k \in at : \E kind \in kinds :
             \E i \in OfTopic(message, kind, name) :
               EndpointInfo(message, kind, name)[i].topic_type
                 = Head(list[k].types)
=============================================================================
