-------------------------- MODULE EntityLifecycle --------------------------
(***************************************************************************)
(* Creation and destruction of nodes, publishers, subscriptions, services  *)
(* and clients over their static pools, with every place where a creation  *)
(* fails part way.                                                         *)
(*                                                                         *)
(* One application thread calls the rmw functions one after another, so a  *)
(* call is one step, except for rmw_destroy_node, which destroys one       *)
(* entity after another while it walks along lists that these very         *)
(* destructions change.  What the agent answers while a call waits in      *)
(* run_xrce_session is the fail parameter of the creation operators (a     *)
(* destruction gives its memory back whatever the agent answers).  The     *)
(* messages that arrive meanwhile are InputHistory's.                      *)
(***************************************************************************)
EXTENDS MemPool, Integers, SequencesExt, FiniteSets

CONSTANTS
  MaxOf,       (* the size of each pool: [PoolName -> Nat]                 *)
  FailPoints   (* the steps at which a creation may fail                   *)

Kind     == {"publisher", "subscription", "service", "client"}
PoolName == Kind \cup {"node", "topic"}

(* "typesupport" and the requests to the agent, by the entity they create. *)
FailPoint == {"participant", "typesupport", "topic", "publisher",
              "datawriter", "subscriber", "datareader", "replier",
              "requester"}

ASSUME MaxAssumption  == MaxOf \in [PoolName -> Nat]
ASSUME FailAssumption == FailPoints \subseteq FailPoint

VARIABLES
  rmw,  (* the static memory and the objects the application holds, a      *)
        (* record:                                                         *)
        (*   pool        the pool of each name                             *)
        (*   owner_node  of an entity's slot: the slot of its node         *)
        (*   topic       of a publisher's or subscription's slot: the slot *)
        (*               of its topic                                      *)
        (*   topic_owner of a topic's slot: the slot of its node           *)
        (*   rmw_handle  of a slot: NULL, Dangling, or the object it       *)
        (*               points to, named by the slot that is its data     *)
        (*   objects     of a slot: how many rmw objects of the            *)
        (*               application have it as their data                 *)
  walk  (* NoWalk, or the rmw_destroy_node under way: its node, the lists  *)
        (* that are not done, and the item that the first is at            *)

NoWalk == << >>

Slot(name) == 1..MaxOf[name]

(* The address of an rmw object that was freed. *)
Dangling == -1

Init ==
  /\ rmw = [pool        |-> [name \in PoolName |->
                              IF MaxOf[name] = 0 THEN EmptyPool({})
                              ELSE InitMemory(MaxOf[name], Slot(name))],
            owner_node  |-> [kind \in Kind |-> [e \in Slot(kind) |-> NULL]],
            topic       |-> [kind \in Kind |-> [e \in Slot(kind) |-> NULL]],
            topic_owner |-> [t \in Slot("topic") |-> NULL],
            rmw_handle  |-> [name \in PoolName |->
                              [e \in Slot(name) |-> NULL]],
            objects     |-> [name \in PoolName |->
                              [e \in Slot(name) |-> 0]]]
  /\ walk = NoWalk

Allocated(s, name) == AllocatedItems(s.pool[name], MaxOf[name] + 1)
Free(s, name)      == FreeItems(s.pool[name], MaxOf[name] + 1)

-----------------------------------------------------------------------------
(* The pieces of the handlers, each from state to state.                   *)

GetSlot(s, name) == GetMemory(s.pool[name], NULL).item

Get(s, name) == [s EXCEPT !.pool[name] = GetMemory(@, NULL).pool]
Put(s, name, e) == [s EXCEPT !.pool[name] = PutMemory(@, e)]

(* The rmw object with data e is freed: all pointers to it dangle. *)
FreeObject(s, name, e) ==
  [s EXCEPT !.rmw_handle[name] =
     [f \in Slot(name) |-> IF @[f] = e THEN Dangling ELSE @[f]]]

(* FiniMemory with a mistake: the slot is not put. *)
FiniMemoryKeepsSlot(s, name, e) ==
  FreeObject([s EXCEPT !.rmw_handle[name][e] = NULL], name, e)

(* rmw_uxrce_fini_..._memory of an object whose data is the slot e. *)
FiniMemory(s, name, e) ==
  Put(FreeObject([s EXCEPT !.rmw_handle[name][e] = NULL], name, e), name, e)

(* The same function when the object's data is still NULL: the object is   *)
(* freed and the slot's rmw_handle keeps its address.                      *)
FiniWithoutData(s, name, e) == FreeObject(s, name, e)

FiniTopicMemory(s, t) ==
  [Put(s, "topic", t) EXCEPT !.topic_owner[t] = NULL]

(* CreateTopic with a mistake: a refused topic keeps its slot. *)
CreateTopicKeepsSlot(s, n, fail) ==
  LET t      == GetSlot(s, "topic")
      owned  == [Get(s, "topic") EXCEPT !.topic_owner[t] = n]
  IN  IF t = NULL         THEN [topic |-> NULL, s |-> s]
      ELSE IF fail = "topic"
                          THEN [topic |-> NULL, s |-> owned]
                          ELSE [topic |-> t, s |-> owned]

(* create_topic: the topic's slot (NULL when it failed) and the state. *)
CreateTopic(s, n, fail) ==
  LET t      == GetSlot(s, "topic")
      owned  == [Get(s, "topic") EXCEPT !.topic_owner[t] = n]
  IN  IF t = NULL         THEN [topic |-> NULL, s |-> s]
      ELSE IF fail = "topic"
                          THEN [topic |-> NULL,
                                s     |-> FiniTopicMemory(owned, t)]
                          ELSE [topic |-> t, s |-> owned]

(* DestroyTopic with a mistake: the topic is deleted on the agent only. *)
DestroyTopicKeepsSlot(s, t) ==
  IF s.topic_owner[t] # NULL THEN [s EXCEPT !.topic_owner[t] = NULL] ELSE s

(* destroy_topic. *)
DestroyTopic(s, t) ==
  IF s.topic_owner[t] # NULL THEN FiniTopicMemory(s, t) ELSE s

(***************************************************************************)
(* The slot e = get_memory(...) with its first fields set.  The new rmw    *)
(* object may be at an address that was freed: reused are the slots whose  *)
(* dangling rmw_handle points to it now.  (Only objects of one kind share  *)
(* addresses here.)                                                        *)
(***************************************************************************)
NewEntity(s, kind, n, reused) ==
  LET e == GetSlot(s, kind)
  IN  [Get(s, kind) EXCEPT
         !.rmw_handle[kind] = [f \in Slot(kind) |->
                                 IF f = e \/ f \in reused THEN e ELSE @[f]],
         !.owner_node[kind][e] = n]

GiveObject(s, name, e) == [s EXCEPT !.objects[name][e] = @ + 1]

-----------------------------------------------------------------------------
(* CreateNode with a mistake: the slot is put before the fini function. *)
CreateNodeTwoPuts(s, fail) ==
  LET n  == GetSlot(s, "node")
      s1 == [Get(s, "node") EXCEPT !.rmw_handle["node"][n] = n]
  IN  IF n = NULL                  THEN s
      ELSE IF fail = "participant"
           THEN FiniMemory(Put(s1, "node", n), "node", n)
           ELSE GiveObject(s1, "node", n)

(* CreateNode with a mistake: data is assigned after the request. *)
CreateNodeLateData(s, fail) ==
  LET n  == GetSlot(s, "node")
      s1 == [Get(s, "node") EXCEPT !.rmw_handle["node"][n] = n]
  IN  IF n = NULL                 THEN s
      ELSE IF fail = "participant" THEN FiniWithoutData(s1, "node", n)
                                   ELSE GiveObject(s1, "node", n)

(* create_node. *)
CreateNode(s, fail) ==
  LET n  == GetSlot(s, "node")
      s1 == [Get(s, "node") EXCEPT !.rmw_handle["node"][n] = n]
  IN  IF n = NULL                 THEN s
      ELSE IF fail = "participant" THEN FiniMemory(s1, "node", n)
                                   ELSE GiveObject(s1, "node", n)

(* rmw_create_publisher.  From the request of the publisher on, a failure  *)
(* puts the slot; from the assignment of rmw_publisher->data on, the fini  *)
(* function at the label fail puts it as well.                             *)
CreatePublisher(s, n, fail, reused) ==
  LET e  == GetSlot(s, "publisher")
      s1 == NewEntity(s, "publisher", n, reused)
      t  == CreateTopic(s1, n, fail)
      s2 == [t.s EXCEPT !.topic["publisher"][e] = t.topic]
  IN  CASE e = NULL             -> s
        [] e # NULL /\ fail = "typesupport" ->
             FiniWithoutData(s1, "publisher", e)
        [] e # NULL /\ fail # "typesupport" /\ t.topic = NULL ->
             FiniWithoutData(s2, "publisher", e)
        [] OTHER ->
             CASE fail = "publisher" ->
                    FiniWithoutData(Put(s2, "publisher", e), "publisher", e)
               [] fail = "datawriter" ->
                    FiniMemory(Put(s2, "publisher", e), "publisher", e)
               [] OTHER -> GiveObject(s2, "publisher", e)

(* rmw_create_subscription.  data is assigned last: a failed request puts  *)
(* the slot once.                                                          *)
CreateSubscription(s, n, fail, reused) ==
  LET e  == GetSlot(s, "subscription")
      s1 == NewEntity(s, "subscription", n, reused)
      t  == CreateTopic(s1, n, fail)
      s2 == [t.s EXCEPT !.topic["subscription"][e] = t.topic]
  IN  CASE e = NULL             -> s
        [] e # NULL /\ fail = "typesupport" ->
             FiniWithoutData(s1, "subscription", e)
        [] e # NULL /\ fail # "typesupport" /\ t.topic = NULL ->
             FiniWithoutData(s2, "subscription", e)
        [] OTHER ->
             IF fail \in {"subscriber", "datareader"}
             THEN FiniWithoutData(Put(s2, "subscription", e),
                                  "subscription", e)
             ELSE GiveObject(s2, "subscription", e)

(* rmw_create_service and rmw_create_client: data is assigned before the   *)
(* request.                                                                *)
CreateEndpoint(s, kind, n, fail, request, reused) ==
  LET e  == GetSlot(s, kind)
      s1 == NewEntity(s, kind, n, reused)
  IN  IF e = NULL                  THEN s
      ELSE IF fail = "typesupport" THEN FiniWithoutData(s1, kind, e)
      ELSE IF fail = request       THEN FiniMemory(Put(s1, kind, e), kind, e)
                                   ELSE GiveObject(s1, kind, e)

Create(s, kind, n, fail, reused) ==
  CASE kind = "publisher"    -> CreatePublisher(s, n, fail, reused)
    [] kind = "subscription" -> CreateSubscription(s, n, fail, reused)
    [] kind = "service"      -> CreateEndpoint(s, kind, n, fail,
                                               "replier", reused)
    [] kind = "client"       -> CreateEndpoint(s, kind, n, fail,
                                               "requester", reused)

-----------------------------------------------------------------------------
(* DestroyEntity with a mistake: a subscription keeps its topic. *)
DestroyEntityKeepsTopic(s, kind, e) ==
  LET s1 == IF kind = "publisher"
            THEN DestroyTopic(s, s.topic[kind][e])
            ELSE s
  IN  [FiniMemory(s1, kind, e) EXCEPT !.objects[kind][e] = @ - 1]

(* rmw_destroy_publisher, _subscription, _service and _client. *)
DestroyEntity(s, kind, e) ==
  LET s1 == IF kind \in {"publisher", "subscription"}
            THEN DestroyTopic(s, s.topic[kind][e])
            ELSE s
  IN  [FiniMemory(s1, kind, e) EXCEPT !.objects[kind][e] = @ - 1]

(* DestroyOwned with a mistake: the owner is not compared. *)
DestroyOwnedByAnyone(s, kind, e, n) ==
  IF s.rmw_handle[kind][e] \in Slot(kind)
  THEN DestroyEntity(s, kind, s.rmw_handle[kind][e])
  ELSE s

(* rmw_destroy_node at one item: if its entity names n as its owner, the   *)
(* object at its rmw_handle is destroyed.  A null or freed one is refused  *)
(* (its implementation_identifier was cleared before it was freed).        *)
DestroyOwned(s, kind, e, n) ==
  IF s.owner_node[kind][e] = n /\ s.rmw_handle[kind][e] \in Slot(kind)
  THEN DestroyEntity(s, kind, s.rmw_handle[kind][e])
  ELSE s

(* OwnedKinds with a mistake: the clients are forgotten. *)
OwnedKindsNotClients == << "publisher", "subscription", "service" >>

(* The lists that rmw_destroy_node goes along, in this order. *)
OwnedKinds == << "publisher", "subscription", "service", "client" >>

(* NextOf with a mistake: next is read after the destruction. *)
NextOfLate(before, after, kind, e) == after.pool[kind].next[e]

(* item = item->next, before the destruction. *)
NextOf(before, after, kind, e) == before.pool[kind].next[e]

(* The end of rmw_destroy_node: the node's own memory. *)
FiniNode(s, n) ==
  [FiniMemory(s, "node", n) EXCEPT !.objects["node"][n] = @ - 1]

-----------------------------------------------------------------------------
Live(name) == {e \in Slot(name) : rmw.objects[name][e] > 0}

Fails == FailPoints \cup {"none"}

Stale(kind) == {e \in Slot(kind) : rmw.rmw_handle[kind][e] = Dangling}

RmwCreateNode ==
  /\ walk = NoWalk
  /\ \E fail \in Fails : rmw' = CreateNode(rmw, fail)
  /\ UNCHANGED walk

RmwCreate(kind) ==
  /\ walk = NoWalk
  /\ \E n \in Live("node"), fail \in Fails, reused \in SUBSET Stale(kind) :
       rmw' = Create(rmw, kind, n, fail, reused)
  /\ UNCHANGED walk

RmwDestroy(kind) ==
  /\ walk = NoWalk
  /\ \E e \in Live(kind) : rmw' = DestroyEntity(rmw, kind, e)
  /\ UNCHANGED walk

(* rmw_destroy_node walks along the allocated list of each kind. *)
RmwDestroyNode ==
  /\ walk = NoWalk
  /\ \E n \in Live("node") :
       walk' = [node  |-> n,
                lists |-> OwnedKinds,
                item  |-> rmw.pool[Head(OwnedKinds)].allocateditems]
  /\ UNCHANGED rmw

(* One turn of its while loop. *)
DestroyNodeVisit ==
  /\ walk # NoWalk
  /\ walk.item # NULL
  /\ rmw' = DestroyOwned(rmw, Head(walk.lists), walk.item, walk.node)
  /\ walk' = [walk EXCEPT
                !.item = NextOf(rmw, rmw', Head(walk.lists), walk.item)]

(* The end of one list and the head of the next. *)
DestroyNodeNextList ==
  /\ walk # NoWalk
  /\ walk.item = NULL
  /\ Tail(walk.lists) # << >>
  /\ walk' = [walk EXCEPT
                !.lists = Tail(@),
                !.item  = rmw.pool[Head(Tail(walk.lists))].allocateditems]
  /\ UNCHANGED rmw

(* The end of the last list: the participant and the node's memory. *)
DestroyNodeEnd ==
  /\ walk # NoWalk
  /\ walk.item = NULL
  /\ Tail(walk.lists) = << >>
  /\ rmw' = FiniNode(rmw, walk.node)
  /\ walk' = NoWalk

Next ==
  \/ RmwCreateNode
  \/ RmwCreate("publisher")
  \/ RmwCreate("subscription")
  \/ RmwCreate("service")
  \/ RmwCreate("client")
  \/ RmwDestroy("publisher")
  \/ RmwDestroy("subscription")
  \/ RmwDestroy("service")
  \/ RmwDestroy("client")
  \/ RmwDestroyNode
  \/ DestroyNodeVisit
  \/ DestroyNodeNextList
  \/ DestroyNodeEnd

vars == << rmw, walk >>

Spec == Init /\ [][Next]_vars

-----------------------------------------------------------------------------
TypeOK ==
  /\ \A name \in PoolName : rmw.pool[name] \in Pools(Slot(name))
  /\ \A kind \in Kind : \A e \in Slot(kind) :
       /\ rmw.owner_node[kind][e] \in Slot("node") \cup {NULL}
       /\ rmw.topic[kind][e] \in Slot("topic") \cup {NULL}
  /\ rmw.topic_owner \in [Slot("topic") -> Slot("node") \cup {NULL}]
  /\ \A name \in PoolName :
       /\ rmw.rmw_handle[name] \in
            [Slot(name) -> Slot(name) \cup {NULL, Dangling}]
       /\ rmw.objects[name] \in [Slot(name) -> Nat]
  /\ \/ walk = NoWalk
     \/ /\ walk.node \in Slot("node")
        /\ \E k \in 1..Len(OwnedKinds) :
             /\ walk.lists = SubSeq(OwnedKinds, k, Len(OwnedKinds))
             /\ walk.item \in Slot(OwnedKinds[k]) \cup {NULL}

Entity == {name \in PoolName : name # "topic"}

(***************************************************************************)
(* Two objects of the application never stand on the same slot, and no     *)
(* object stands on a slot that the pool would lend again (memory.c,       *)
(* put_memory: "Gets item from allocated pool", "Puts item in free pool":  *)
(* the item put is an allocated one).                                      *)
(***************************************************************************)
SlotExclusive ==
  \A name \in Entity : \A e \in Slot(name) :
    /\ rmw.objects[name][e] <= 1
    /\ rmw.objects[name][e] = 1 => e \notin ToSet(Free(rmw, name))

(***************************************************************************)
(* Between calls the allocated list of each pool of entities carries the   *)
(* slots of the application's objects, and the free list all the others: a *)
(* creation that fails gives its slot back.                                *)
(***************************************************************************)
NoSlotLost ==
  \A name \in Entity :
    /\ ToSet(Allocated(rmw, name)) = Live(name)
    /\ ToSet(Free(rmw, name)) = Slot(name) \ Live(name)

(***************************************************************************)
(* The rmw_handle of every allocated slot points to its own object, and    *)
(* that object is alive, as rmw_destroy_node assumes when it passes it to  *)
(* rmw_destroy_publisher.                                                  *)
(***************************************************************************)
HandlesAlive ==
  \A name \in Entity :
    \A e \in ToSet(Allocated(rmw, name)) : rmw.rmw_handle[name][e] = e

(***************************************************************************)
(* Every publisher and subscription has a topic of its own, owned by its   *)
(* node, and every topic taken from the pool belongs to one of them.       *)
(***************************************************************************)
WithTopic == ({"publisher"} \X Live("publisher"))
               \cup ({"subscription"} \X Live("subscription"))

TopicOf(x) == rmw.topic[x[1]][x[2]]

TopicsOwned ==
  /\ \A x \in WithTopic :
       rmw.topic_owner[TopicOf(x)] = rmw.owner_node[x[1]][x[2]]
  /\ \A x, y \in WithTopic : TopicOf(x) = TopicOf(y) => x = y
  /\ ToSet(Allocated(rmw, "topic")) = {TopicOf(x) : x \in WithTopic}

(* No entity outlives its node (rmw_destroy_node reaches all of them). *)
NoOrphan ==
  \A kind \in Kind : \A e \in Live(kind) :
    rmw.owner_node[kind][e] \in Live("node")

(***************************************************************************)
(* README: the MAX values are the maximum number of entities for an        *)
(* application.  Below that number a creation whose every step succeeds    *)
(* does create the entity, whatever was created, refused and destroyed     *)
(* before.                                                                 *)
(***************************************************************************)
CreationAvailable ==
  \A kind \in Kind, n \in Live("node") :
    Cardinality(Live(kind)) < MaxOf[kind] =>
      \E e \in Slot(kind) \ Live(kind) :
        Create(rmw, kind, n, "none", {}).objects[kind][e] = 1

(* The entities that a step takes away or changes. *)
Survives(kind, e) ==
  /\ rmw'.objects[kind][e] = rmw.objects[kind][e]
  /\ rmw'.owner_node[kind][e] = rmw.owner_node[kind][e]
  /\ rmw'.topic[kind][e] = rmw.topic[kind][e]

LiveEntities == UNION {{kind} \X Live(kind) : kind \in Kind}

LostEntities == {x \in LiveEntities : ~ Survives(x[1], x[2])}

LosesItsOwn ==
  /\ \A x, y \in LostEntities : x = y
  /\ \/ LostEntities = {}
     \/ LiveEntities' = LiveEntities \ LostEntities
  /\ \/ Live("node") \subseteq Live("node")'
     \/ /\ LostEntities = {}
        /\ walk # NoWalk /\ Live("node")' = Live("node") \ {walk.node}
  /\ walk # NoWalk =>
       \A x \in LostEntities : rmw.owner_node[x[1]][x[2]] = walk.node

(***************************************************************************)
(* A call on one object leaves every other one as it was: an entity goes   *)
(* only when it is destroyed, or in the destruction of the node that it    *)
(* names as its owner, and what stays keeps its node and its topic.        *)
(***************************************************************************)
OthersSurvive == [][LosesItsOwn]_vars

-----------------------------------------------------------------------------
(***************************************************************************)
(* The calls implement the registry of nodes and entities of               *)
(* EntityRegistry: behind the pools, the lists, the handles and the topics *)
(* a creation that succeeds adds one object, a destruction takes one, and  *)
(* rmw_destroy_node takes all that its node owns, nothing else, then the   *)
(* node.  A call that is refused leaves no trace that the application      *)
(* could see.                                                              *)
(***************************************************************************)
OwnerOf == [x \in LiveEntities |-> rmw.owner_node[x[1]][x[2]]]

Registry == INSTANCE EntityRegistry
  WITH NodeId   <- Slot("node"),
       EntityId <- UNION {{kind} \X Slot(kind) : kind \in Kind},
       nodes    <- Live("node"),
       owner    <- OwnerOf,
       closing  <- IF walk = NoWalk THEN {} ELSE {walk.node}

ImplementsRegistry == Registry!Spec

=============================================================================
