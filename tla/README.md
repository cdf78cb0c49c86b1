# Verification of rmw_microxrcedds

TLA+ models, TLC runs and TLAPS proofs about `rmw_microxrcedds_c`, the ROS 2
middleware layer that runs on a microcontroller over the Micro XRCE-DDS client
library. Paths below are relative to `src/rmw_microxrcedds_c/src/` unless they
say otherwise.

## The system

An application calls the `rmw_*` functions. Nothing here has a thread of its
own: the network is read only while a *session runs*, that is inside
`rmw_wait`, inside the creations and destructions that wait for the agent's
confirmation (`run_xrce_session`), and inside the reliable `rmw_publish`,
`rmw_send_request` and `rmw_send_response`. While it runs, the client library
calls `on_topic`, `on_request` and `on_reply`.

All memory is static. Every kind of object lives in an array, and a pool
(`rmw_uxrce_mempool_t`) threads its elements on a free and an allocated list.
The allocated lists are also the only index of the system: callbacks, takes
and the destruction of a node find things by walking them.

| component | state | operations | hard behaviour | what makes it correct |
| --- | --- | --- | --- | --- |
| memory pools (`memory.c`, `types.c`) | two linked lists for each pool, mark of dynamic items | `get_memory`, `put_memory`, `has_memory`, `RMW_INIT_MEMORY` | pointer surgery, pool at its limit, dynamic items | lists stay threaded, acyclic and complete; an item is lent to one holder; refusal only when all are lent |
| entity lifecycle (`rmw_node.c`, `rmw_publisher.c`, `rmw_subscription.c`, `rmw_service.c`, `rmw_client.c`, `rmw_microxrcedds_topic.c`, `types.c`) | slots, their owner node, topic, `rmw_handle` | create and destroy of each kind, cascade of `rmw_destroy_node` | creations that fail part way, walks of a list that is being changed | a slot carries one object; nothing leaks; no entity outlives its node; nobody else's entity is touched |
| input history (`callbacks.c`, `rmw_take.c`, `rmw_request.c`, `rmw_response.c`) | buffers with an owner, the ids the callbacks compare | `on_topic`, `on_request`, `on_reply`, the takes | messages inside creations and destructions, full history, slots used again, lost deletions, several sessions | a message reaches its reader, once, in the order the walk defines |
| wait (`rmw_wait.c`, guard conditions) | the sets passed by the caller | `rmw_wait`, `rmw_trigger_guard_condition` | timeout arithmetic, sessions one after another | readiness is reported if and only if there is something to take |
| context and session (`rmw_init.c`, transports) | session pool, id counters, streams | `rmw_init`, `rmw_context_fini`, `rmw_shutdown` | initialisation that fails part way, repeated shutdown | a session slot is given back; the pools survive a second `rmw_init` |
| session runs (`utils.c`) | streams of the client library | `run_xrce_session` | timeout of a confirmation that arrives later | the caller learns whether its request was confirmed |
| requests and responses | sequence number, sample identity | `rmw_send_request`, `rmw_take_request`, `rmw_send_response`, `rmw_take_response` | unconfirmed delivery, widths | the response carries the identity of its request |
| publishing (`rmw_publish.c`) | output streams | `rmw_publish`, continuous serialization | full stream, unconfirmed delivery | a published message is flushed or confirmed |
| multithreaded build | mutex of each pool | all of the above | find and put without a lock between | a buffer is put by the one who found it |
| graph (`rmw_graph.c` and its readers) | last graph message, `has_changed` | `on_topic`, the graph queries | overwritten before it is read, slots used again | a change is announced; the queries agree and tell of the session that runs |
| names and profiles (`utils.c`) | none | formatting | truncation | a truncated name is refused |
| micro-ROS API (`rmw_microros/`), stubs | transport parameters | setters, ping, time | ping while an initialisation has failed | the ping tells whether the agent is there |

Components interact through the pools only: a creation takes a slot that a
callback sees at once, a take and a callback share the history, the
destruction of a node walks the pools of four other kinds.

## The modules

| module | what it is |
| --- | --- |
| `MemPool` | operators: a pool as a record, every function of `memory.c` as a map from the pool before to the pool after, in the order of its pointer writes |
| `MemPoolClients` | one pool and callers that put only what they hold; invariants |
| `SlotAllocator`, `SlotStack` | what a pool promises: a set of lent items; two stacks |
| `MCMemPool` | instance for TLC; `InitMemory` against the loop of `RMW_INIT_MEMORY` |
| `MemPoolProofs` | theorems about `MemPoolClients` |
| `SequenceLemmas` | lemmas about sequences: `RemoveAt`, least numbers, distinct members |
| `PoolLemmas` | lemmas about the operators of `MemPool`: what a get and a put do to the two lists and to their walks |
| `ElementPool` | how the entity code uses a pool with dynamic allocations |
| `EntityRegistry` | what the creations and destructions promise: a set of nodes and the entities under them |
| `EntityLifecycle`, `MCEntities` | creation and destruction of all entities over six pools of `MemPool` |
| `EntityLifecycleProofs` | theorems about `EntityLifecycle` |
| `InputHistory`, `MCHistory` | callbacks, buffers and takes |
| `InputHistoryProofs` | theorems about `InputHistory` |
| `GraphInfo` | operators: what the graph queries make of the last graph message |
| `GraphInfoProofs` | lemmas and a theorem about what these queries find |
| `ContextSession`, `MCContexts` | `rmw_init`, `rmw_context_fini`, nodes, ping, and what a session knows of the graph |
| `ContextSessionProofs` | theorems about `ContextSession` |
| `WaitTime` | operators: the timeout arithmetic of `rmw_wait`, with the widths of its types as constants |
| `Exchange`, `MCExchange` | requests, responses, publications, guard conditions and `rmw_wait`, step by step |
| `ExchangeProofs` | theorems about `Exchange` |

Each module takes over what another one has shown: `EntityLifecycle` calls the
operators of `MemPool`; `InputHistory` and `Exchange` use pools as the walks of
`SlotStack`, `ContextSession` as the sets of `SlotAllocator`, both of which
`MemPoolClients` implements; `ContextSession` calls `GraphInfo` and `Exchange`
calls `WaitTime`.

**Memory pools.** A pointer is a number and NULL is 0. `UnlinkItem`, `PushFree`
and `TakeFree` are the pieces of `put_memory` and `get_memory`; `Write` is
`if (p) p->field = v`. They are total, so `EntityLifecycle` can call them as
the code does also when a caller breaks the contract and the lists become
loops. `Walk` cuts a list after a bounded number of items for that reason.
Each function holds the pool's mutex throughout, so a call is one step.

**Entity lifecycle.** One thread calls, so a call is one step, except
`rmw_destroy_node`, whose walks are what the interesting properties are about:
`walk` holds the lists that are left and the item that is next, and
`DestroyNodeVisit` is one turn of the loop. The code reads `item->next` before
it destroys (`NextOf`), and the item it remembers may be one that another
destruction has taken off the list, if a handle led to it. `rmw` is one record,
and the operators map it step by step through the handlers, so that a failing
creation is the prefix of the successful one plus the clean-up that the code
does there. `FailPoints` says at which steps a creation may fail:
missing type support, a topic or another request that the agent does not
confirm. The pool of each kind is a full `MemPool` record. `rmw_handle` matters because `rmw_destroy_node` follows
it: it is NULL, `Dangling`, or the slot of the object it points to. The fini
functions clear `implementation_identifier` before they free the object, so a
dangling handle is refused by `rmw_destroy_*`; that read of freed memory is
undefined, and the other outcome that an ordinary heap produces is modelled:
a new object of the same kind may get the freed address (`reused`), and the
old handle then reaches it.

**Input history.** The pools of readers and of buffers are the sequences that
their walks give, newest first; `ImplementsStack` of the pool run is what
justifies this. A creation is split where the session runs: before the id is
assigned (the slot still has its last user's id), and for subscriptions also
after. A destruction is split the same way. `OnData` is one callback; between
calls it stands for `rmw_wait`. The agent is external: it sends data for a
reader from the request for data until a deletion takes effect, which may be
late or never. A history slot holds who owns it and which message it is; the
agent numbers all its messages (`sent`). A take finds the buffer with the
least position on the walk that its reader owns; `rmw_take_sequence` is a loop
of takes, one `TakeNext` each.

**Contexts and the graph.** One thread calls, so a call is one step.
`RmwInit(c, s, fail)` is `rmw_init` up to the step that fails: the transport
does not open, the agent refuses the session, the graph's entities are not
confirmed. What the code leaves behind differs for each (`InitSession`): the
slot stays the context's, the transport is closed or left open.
`RmwContextFini` destroys the nodes of the slot, whatever the agent answers.
`CarefulApp` says how the application reacts to a failed `rmw_init`: rcl calls
`rmw_context_fini` next, and the runs show both. `participants` is what the
agent holds: a creation or deletion that was not confirmed may have been carried
out (`arrived`); for sessions that ended this is not followed. `graph_info` is
the graph branch of `on_topic`, the guard condition that `rmw_wait` clears, and
the buffer that all queries deserialize again. `GraphInfo` walks a message as
the queries do: a topic list in `rmw_topic_names_and_types.c`, a service list,
counts and endpoints; `ListAgrees` compares them with each other. All queries
run through the nodes and, inside, through the entities of each, so a message is
the sequence of the entities in that order. `Include` is one turn of the loop.

**Exchange.** Two threads: the executor, which makes the calls, and another that
only triggers guard conditions, as a timer or an interrupt does. `call` is the
place of the executor: `confirm` is `uxr_run_session_until_confirm_delivery`
in a reliable send, `flush` is `flush_session` inside
`uxr_prepare_output_stream_fragmented`, and `run`, `check`, `guards`, `clear`
are the parts of `rmw_wait`: sessions in turn, the entities, the read of a
guard's flag, and its clearing as a step of its own. A callback (`OnData`) comes
whenever the session of the clients and services runs; it may find no free
buffer, or fail to copy (`gone`), and a `Take` may find a payload that does not
deserialize (`NotTaken`). `RmwWait` takes the
timeout through `WaitTime`: seconds and milliseconds with the overflow checks,
division as floats, the conversion to `uint64_t` and the argument of type
`int`. A conversion that C leaves undefined has both outcomes that compilers
give (`AsWord`). `HeaderOf` and `SampleIdentityOf` are the two conversions of a
request's identity, with the signed bytes of `writer_guid` and the two words of
the sequence number. The agent numbers the requests of each client and finds the
client by the identity in a response; a message on a best effort stream may be
lost; messages overtake each other freely. Initially one function of
`Workload` is chosen, which says how much each client and publisher sends and
whether each guard condition may be triggered (any number of times).

## The runs

| run | configuration | result |
| --- | --- | --- |
| `pool` | 4 static items, 1 dynamic | holds: lists threaded, acyclic (`RanksExist`), complete (`NoItemLost`), marks right, implements `SlotAllocator` and `SlotStack` |
| `dynamic_elements` | 1 static element, 1 dynamic | violated: `AnswerHasElement` |
| `entities` | 2 nodes, 2 publishers, 1 subscription, 1 client, 3 topics; only the participant's creation fails | holds: nothing leaks, handles point to living objects, nobody else's entities are touched; implements `EntityRegistry` |
| `failures` | 2 nodes, 2 publishers, 2 services, 2 topics; participant, type support and topic may fail | `SlotExclusive`, `TopicsOwned`, `NoOrphan` hold |
| `double_put` | 1 node, 2 services; replier may fail | violated: `SlotExclusive` |
| `creation_leak` | 1 node, 2 subscriptions; topic may fail | violated: `CreationAvailable` |
| `history` | 2 subscription slots, 3 subscriptions in turn, 1 service, 2 buffers, 3 messages, 1 session | holds |
| `stale_delivery` | 1 subscription slot, 2 subscriptions in turn | violated: `RightReader` |
| `cross_session` | 2 sessions, a subscription in each | violated: `AddresseeOwns` |
| `contexts` | 2 contexts, 2 session slots, 2 nodes, 2 graph messages, a link that breaks; failures finished by the application | holds: slots, nodes, participants, graph and ping consistent; no call touches two contexts (`ContextsApart`) |
| `agent_ping` | 1 context, 1 slot; failures not finished | violated: `PingTrue` |
| `exchange` | 2 clients (one reliable), 1 service, 1 publisher, 1 guard condition, 2 sessions, 2 buffers, stream of 2; fairness | holds: replies match, no request is dropped silently or answered twice (`NeitherLostNorDoubled`), waits answer truly and in time, no trigger is lost; every trigger is reported and every request answered |

Bounds. Four static items are enough to put the head, an item in the middle
and the end of a list while the other list is empty, has one item or more; the
dynamic item adds the mark. In `entities` two nodes share a pool of two
publishers, so each list can hold both owners in both orders, the client stands
on the last list that `rmw_destroy_node` walks, and the topics are exactly as
many as publishers and subscriptions need, so one lost topic shows. In
`failures` a pool of two has a leaked slot before or behind a live one on
the list that `rmw_destroy_node` walks, and its handle may point to that one;
services are created in another way than publishers. What `failures` checks
holds in `entities` as well, by the theorems, and is not repeated there;
`EntityRegistry` implies `NoOrphan`. Larger pools are the matter of the proofs.
In `history` two slots and three subscriptions give a slot that is used again while the other is in use; three
messages overflow two buffers; the service has the same id as the first
subscription. `MaxCreated` and `MaxSent` bound the model, not the code.
Deadlock is not checked for the history runs, which stop when these bounds are used
up, nor for `dynamic_elements`, which stops when its heap is used up.

In `contexts` there are as many slots as contexts, so that a lost one shows, and
two nodes can be of one session or of two. Three participant ids leave two for
nodes, so a node can follow one whose deletion was lost. One graph message has a
topic with publishers in two nodes and a subscriber of another type, and a
service of the same name as the topic; the other one does not deserialize.
`GraphAssumption` says that both are messages in the sense of `GraphInfo`. The
contexts are interchangeable (`SYMMETRY`); the run states no liveness, and
`ContextsApart`, which is about single steps, does not tell contexts apart.

In `exchange` the clients differ in the key of their writer only, whose kind is a
byte above 127; `LowRange = 2` stands for 2^32 and makes the second request of a
client use the high word. Two buffers overflow with three messages; a stream of
two is full after two sends without confirmation. The session of the entities
is the second that `rmw_wait` runs. The workloads are one message from each
sender together with triggers, and three requests alone; both at once only
multiply the states. `uint64_t` has 12 bits there, `int` 5, the mantissa of
`float` 3 and a second 10 milliseconds: the timeouts are a poll, one that is
rounded, and one that overflows to `INT_MAX`. `SharesFit`, an assumption that
TLC evaluates, goes through all timeouts up to `INT_MAX` divided by two to four
sessions, and for one session through those up to the last one that a float can
carry without reaching the limit of `int`; `AskedInTime` says the same of the
timeouts of the run.

**The wait that does not end.** With one session, the default, a timeout that
float makes 2^31 (`INT_MAX`, which every overflow becomes at `rmw_wait.c:44`,
`:51` and `:57`, and the few below it) is a negative `int` at `:81`: the session
waits without a limit. `WaitInTime` does not hold there, and `SharesInTime`, the
hypothesis of its theorem, is false there; `MCExchange` keeps the case as the
assumption `OverflowOfOneSession`, which TLC evaluates. `RunEnds` gives a run
with a negative share no limit, so such a wait violates the property where it
occurs. A wait without a timeout is not limited by `WaitInTime` at all; that it
polls with two sessions, and may with one, is the assumption `NoTimeoutPolls`.

### Fairness

`FairSpec` of `Exchange` assumes, and the code or its environment justifies:

* `WF(Executor)`: the executor keeps calling `rmw_wait` and takes what is ready,
  as an rclc executor that spins does, and the calls return. Waits in the code
  have a timeout; the one that may not end, `uxr_run_session_until_data` with a
  negative share, ends with the data (`RunEnds`).
* `SF(RmwSendResponse)`: a service that took a request answers it, when the
  stream has room again and again. Weak fairness would not do, as the executor
  is busy elsewhere in between.
* `WF(AgentTakes)`: a message that is on its way and not lost arrives. `Lose`
  is not fair, but always possible on a best effort stream.
* `SF(OnData)`: what the agent holds for the session is delivered in one of the
  runs; the session does not run between the calls, hence strong fairness.

Sending and triggering are not fair: nobody has to. `TriggerReported` and
`RequestAnswered` are of the form `[]<>`: with a workload that ends, "no request
stays open for ever" is what a `~>` for each request would say, and it is one
formula instead of one for each request. Two limits: `TriggerReported` is about
waits with a timeout, as a trigger does not end `uxr_run_session_until_data`;
and a request counts as given up, in `RequestAnswered` as in
`NeitherLostNorDoubled`, once one of its messages was lost, found no free buffer,
could not be copied into it (`callbacks.c:129`, `:174`) or did not deserialize
when it was taken (`rmw_request.c:120`, `rmw_response.c:121`).

### What the violated properties show

* **`double_put`**. From the assignment of `data` on, a failed request puts the
  slot at the place of failure (`rmw_service.c:151`, `rmw_client.c:151`,
  `rmw_publisher.c:227`) and again in the fini function. The item is then its
  own successor on the free list, and the next two creations get the same slot.
* **`creation_leak`**. A creation that fails before `data` is assigned
  (`rmw_subscription.c:136`, and the type support of every kind) never puts
  its slot, which also keeps the address of the freed object. `OthersSurvive`
  is not among the properties of `failures` for this reason: with the address
  used again, destroying one node destroys a publisher of the other.
* **`dynamic_elements`**. The `mem` field that the fini functions put is not the
  item that `get_memory` allocated. After one release the pool answers an item
  without data, and the dynamic branch of `put_memory` is never reached. The
  pool runs check the pool itself with callers that return the item they got.
* **`stale_delivery`**. Buffers belong to a slot and survive its reader; the id
  survives too, until the next creation overwrites it. The next subscription
  in the slot takes messages of the previous one. `NotFromSuccessor` and
  `AddresseeOwns` say what remains true.
* **`cross_session`**. Ids are numbered in each session, lists are shared, and the
  callbacks ignore their session. With the default of one session, started once,
  `AddresseeOwns` holds (`history`).
* **`agent_ping`**. A failed `rmw_init` leaves its slot on the list that
  `rmw_uros_ping_agent` takes for the usable sessions. An application that waits
  for the agent by pinging, after a first `rmw_init` that found none, is told
  for ever that the agent is absent, unless it finishes the context first.
  `CarefulPing` proves that this is the only way.

## The proofs

`MemPoolProofs` proves for every `Size > 0` and `HeapSize`:

* `Typing`, `ListsStayThreaded`, `DynamicStaysMarked`: the invariants `TypeOK`,
  `ListsThreaded` and `DynamicMarked` of `MemPoolClients`;
* `PoolImplementsAllocator`: every behaviour of the pool is a behaviour of
  `SlotAllocator`;
* `NothingLost` (`NoItemLost`): the walks along the two lists find every item once;
* `PoolImplementsStack`: every behaviour of the pool is one of `SlotStack`, which
  is what the other models take a pool for;
* `WalksEnd` (`RanksExist`): the items can be ranked by `0..(Size + HeapSize)` so
  that both lists descend, so no list has a cycle.

The inductive invariant is `PoolInv`: the three invariants and `Acyclic(Nat)`.
Threading alone is not inductive enough for the refinement: a pool whose spare
items form a ring with `freeitems = NULL` is threaded, and would refuse while
items are spare. `Acyclic` adds a rank that grows towards the head, which
excludes rings; a put or a get gives the moved item a rank above all others.
The lemmas come in three layers: about a threaded set and a head
(`UnlinkThreaded`, `PushThreaded`, `FrameThreaded` and the same for ranks),
about the three pieces of `memory.c` (`UnlinkItemSound`, `PushFreeSound`,
`TakeFreeSound`), and about the steps (`NextPoolInv`). The walks come on top, in
`PoolLemmas`: a walk is a recursive function, and what it finds is shown
without an induction theorem, by taking the least number at which it would
fail (`LeastNumber`) or the item of the least rank that it would miss. The only
assumption is `SizeAssumption`. The run `pool` checks `PoolInv` on an instance,
with ranks up to the number of items (`RanksExist`). That bound is not inductive,
as every put and get adds a rank above the others; `WalksEnd` gets it from the
walks: the rank of an item is the number of items behind it on its list
(`ChainRanks`), and a walk is no longer than what it visits (`VisitsLength`).

`EntityLifecycleProofs` proves, for any sizes of the six pools (`MaxAssumption`
and the size of the topic pool where it matters), what the runs `entities` and
`failures` check. Three classes of failures matter, and the two violation runs
show that none can be left out of the hypotheses:

* `NoTwicePut`, no creation fails where the code puts the slot twice
  (`double_put` shows what happens otherwise): `Typing` (`TypeOK`), `Exclusive`
  (`SlotExclusive`), `NodeOutlives` (`NoOrphan`).
* `TopicsKept`, only the participant, the type support or the topic fails (a
  later failure forgets the topic): `TopicsPaired` (`TopicsOwned`).
* `NothingLeaks`, only the participant fails (`creation_leak` shows what a topic
  that fails costs) and there are as many topics as publishers and
  subscriptions, which is the default of `config.h.in:54`: `SlotsCounted`
  (`NoSlotLost`), `HandlesPoint` (`HandlesAlive`), `Available`
  (`CreationAvailable`) and the action property `OthersKept` (`OthersSurvive`).

The inductive invariant is `IInv`. `Orderly`: each pool is sound with the items of
its walk (`Healthy`, from `PoolLemmas`), and objects and handles match (`Right`):
a slot with an object is allocated and points to itself, and no handle points
to a slot without an object. `Owned`: the node of a living entity lives.
`OnWalk`: no living entity of the node that is being destroyed stands on a list
that is done, or before the item that is next. `Behind` is the part that was
not obvious. The destruction at an item may, through a reused handle of a leaked
slot, take another item off the list; if that were the remembered next one, the
walk would go on along the free list and miss the rest. It is not, because a slot
whose handle was reused is older than the one that got the address, and the
allocated list has the newest first: a handle points to its own slot or to one
nearer to the head, where the walk has been. With `NothingLeaks` come
`TopicsRight` (topics and their users correspond one to one) and `Full` (every
allocated slot has its object); that the topics suffice is a comparison of
cardinalities. `TopicsRight` also needs that two users never share a topic, which
is where a failure after the topic would break it.

`LifecycleImplementsRegistry` (`ImplementsRegistry`) puts these together, for
`NothingLeaks`: under the mapping that forgets pools, lists, handles and topics,
every call is a step or a stutter of `EntityRegistry`. A creation that succeeds
adds one object under a node that lives (`RegistryEntity`, from what `Creates`
says of each kind), a destruction takes one (`RegistryTake`), a turn of
`rmw_destroy_node` takes nothing or one entity of that node (`RegistryVisit`), and
the node goes when none of its entities is left (`RegistryNodeGone`, from
`OnWalk`). `NothingLeaks` cannot be dropped: when type support or topics fail
too, a leaked slot keeps a handle whose address a publisher of another node may
get, and the destruction of the leaked slot's node then takes that publisher
away, which no step of the registry does; TLC finds this with the failures of
the run `failures`.

`InputHistoryProofs` proves, for any readers, sizes of the pools and number of
messages, every property of the run `history`:

* `HistoryTyping` (`TypeOK`), `Delivery` (`DeliveredOnce`) and the action property
  `Waiting` (`OthersWait`), for any number of sessions, from `HistoryInv`.
* `Addressed` (`AddresseeOwns`), `Reached` (`WouldReach`) and `NoMessageFromLater`
  (`NotFromSuccessor`) for one session (`OneSession`); `cross_session` shows that
  two are too many. One session means one ever: an `rmw_init` after an
  `rmw_context_fini` starts the ids again (`rmw_init.c:196-203`), while freed
  slots keep theirs, and counts as a second session. They need that an id is in one slot only (`IdsUnique`), that
  nothing was sent to a reader that is still being created (`AllIssued`), and
  that the ids of a slot only grow, so that what its buffers hold is for its
  reader or an earlier one (`BuffersOfSlot`).

`ContextSessionProofs` proves, for any number of contexts, slots, nodes, graph
messages and participants (`SessionAssumption`, `GraphAssumption`), every property
of the run `contexts`:

* `SessionTyping` (`TypeOK`) and `NoSlotLeaks` (`SlotsAccounted`) are inductive as
  they stand, the second with the first.
* `NoNodeOutlivesSession` (`NodesHaveSession`) rests on `NoSlotLeaks`: a slot that
  `rmw_init` is lent is nobody's, so no node can refer to it.
* `ParticipantsDistinct` (`LiveOnAgent`) needs `IdsCounted`: the ids of a session's
  nodes are below its counter. Without it a node could have the id that the
  next creation uses.
* `NoStaleGraph` (`GraphOfThisSession`) uses that no two contexts share a slot;
  `GraphChangeAnnounced` (`ChangeNotMissed`) is inductive with the types.
* `CarefulPing` (`PingTrue`) assumes `CarefulApp` and needs that the transport of a
  session that runs is open (`RunsOverTransport`).
* `ContextsStayApart` (`ContextsApart`) is an action property: of two contexts, at
  least one keeps its slot, session, nodes, participants and graph in every
  step. It rests on `NoSlotLeaks` (an action on a slot is one on at most one
  context, `OthersKept`), and on nodes being found by the address of the slot.
* `QueriesConsistent` (`QueriesAgree`) needs that an initialized `graph_info` holds
  a graph message (`MessagesArrived`), and then the theorem of
  `GraphInfoProofs` about every message.

`GraphInfoProofs` proves `ListsAgree`: for a message with any number of entities
and any kinds asked for, a name is listed exactly once if and only if it is
counted, and its types are those of an endpoint. The loop keeps `Lists`: every
entry is from an entity that was seen, every entity seen of those kinds is
listed, and no name twice (`IncludeLists` for one turn). The loop itself is a
recursive function; that it exists (`ListingExists`) and keeps `Lists`
(`ListingLists`) is shown by taking the least number at which it would not, as
the induction theorems of the library cannot be used here. `CountedWhenThere`
connects a count with the set it counts.

`ExchangeProofs` proves, for any clients, services, publishers, guards, workload,
number of sessions and buffers, depth of the stream and range of the low word
(`ExchangeAssumption`: the kinds of entities are disjoint, writer guids differ
and their kind is a byte):

* `TriggersKept` (`NoTriggerLost`), from `TriggerNoted`: the guard whose flag is
  about to be cleared is among those that the wait reports, so a trigger between
  the read and the clearing is reported with the first.
* `PublishedArrives` (`PublishTrue`), from `SentOnTheWay`: while `rmw_publish` waits,
  its message is on the stream or has arrived; a reliable one is not lost.
* `RepliesMatch` (`ReplyToItsRequest`), from `RequestsKnown`: at every place that a
  request passes (stream, agent, buffer, header, response, buffer), the request
  and the number it was sent with belong together. It rests on
  `RoutesDistinct`, that the agent's identities are never given twice
  (`RouteAdded` counts), and on `HeaderRoundTrip`, that packing an identity into
  a header and unpacking it gives the identity (`NumberOfWords` for the two
  words, signed bytes for the kind). `RemoveAtProperties` and
  `FirstOwnedExists` say what taking a buffer off the walk leaves.
* `RequestsAccounted` (`NeitherLostNorDoubled`), from `PlacesCounted`: a request that
  was sent is in exactly one of the five places that hold requests and
  responses, once, or `gone` and in none. Each action moves it from one place to
  the next, gives it up, or is about another request (`StaysInPlace`); which of
  these holds depends on `RequestsDistinct`, that no request is sent twice, and
  on `RequestsKnown`, by which a header or a response is that of its request.
  For the buffers a place is a position on the walk, which changes with every
  message that comes in or goes (`BuffersPushed`, `BuffersTaken`).
* `WaitAnswersTruly` (`AnswerTrue`), from `WaitKnows`: after the last session ran,
  the entities found are exactly those that own a buffer.
* `WaitsEndInTime` (`WaitInTime`), from `ShareTaken`: each session that ran took at
  most its share. That no share is negative and that they add up is the hypothesis
  `SharesInTime` about the timeouts that are asked for: it is the arithmetic of
  `WaitTime`, powers and rounding, that TLC evaluates on narrow types
  (`SharesFit`, `AskedInTime`) and the provers cannot do. It excludes one session
  with a timeout that float makes 2^31, whose wait need not end (see the runs).
* `Typing` (`TypeOK`), from `RequestsKnown`, `SentTyped` and `PlacesTyped`: what is
  left to send is a part of a workload, so all that travels is one of it.

`CallShape` says what fields `call` has at each place; the prover needs it to
know that an `EXCEPT` leaves the place alone.

Every invariant and every action property that a passing run checks, and the
three refinements, are stated by a theorem. Only model-checked: the liveness
properties `TriggerReported` and `RequestAnswered` (fairness and `ENABLED` are out of
the prover's reach) and the arithmetic of `WaitTime` (powers and rounding), which
TLC evaluates as an assumption. What `ElementPool` shows is a violation, as are
`RightReader` and the other properties of the violation runs.

## Not modelled

* Heap exhaustion of the host (`rmw_allocate` answering NULL), wrong arguments.
* The `refs` creation mode, whose profile builders add failure points of their
  own (`rmw_node.c:84` leaves the node's slot allocated there).
* Reads of freed objects beyond the two outcomes above, and addresses shared
  between objects of different kinds.
* The multithreaded build: it is off by default, and the locks of sessions and
  streams are taken inside the client library, which is not part of this
  repository. With it, nothing in `rmw_take.c` is locked between finding a
  buffer and putting it, and a buffer is on the allocated list before
  `callbacks.c` writes its owner; `PROJECT.json` keeps both as hazards. The
  models say nothing about this build, apart from `MemPool`, whose functions
  hold the mutex throughout.
* A second `rmw_shutdown` or `rmw_context_fini` of one context, which follows a
  null pointer; rcl calls it once.
* What the agent keeps for a session that ended without its confirmation.
* The fragments, acknowledgements and repetitions of the streams, and the
  numbers of messages in them, which wrap at 2^16: they are the client
  library's. Continuous serialization, which hands the buffer to a callback of
  the application, and time synchronisation.
* `exchange` waits with timeouts that end. Not in a run: a wait without a timeout
  (`WaitTime` has the shares it gets: 0 with two sessions, 0 or -1 with one, by
  an undefined conversion), one session with an overflow (`OverflowOfOneSession`
  above), and a wait without a session, which divides by zero.
* A second session in `InputHistory` after the first was finished: the ids that
  start again meet the ids left in freed slots, as those of `cross_session` do.
* The turns of `rmw_context_fini`'s loop over the list of nodes, from which each
  turn takes the node it is at (`Destroyed` is what the loop comes to);
  `rmw_destroy_node`, whose loops are alike, is modelled turn by turn.
* The failure after which a topic's slot is lost (`rmw_subscription.c:161`, the
  subscriber or the datareader is not confirmed): `TopicsKept` excludes it from
  `TopicsPaired`, and no passing run has it.
* How long one busy reader keeps the buffers of the history from the others:
  `WouldReach` is about a history with a free buffer.
* The lock in the dynamic branch of `put_memory` (`memory.c:93-98`), which returns
  without unlocking: no caller puts a dynamic item (`dynamic_elements`), so the
  branch is not reached.
* The result of `cdr_serialize` in `rmw_send_request` and `rmw_send_response`, which
  the code ignores too, and the width of the sequence id, 16 bits in the code.
* `rmw_node_names.c`, which copies names, and `rmw_node_info_and_types.c`, which
  with `RMW_UXRCE_GRAPH` does not compile (a comma is missing in line 138): there
  is no program to model. The field `capacity` that it gives to `snprintf` is also in
  `rmw_topic_names_and_types.c:119` and `rmw_service_names_and_types.c:116`; it is
  rcutils', which is not part of this repository, and `GraphInfo` takes it for a
  bound that is large enough.
* Names and profiles (`utils.c`) format strings and keep no state; the stubs
  answer constants; the options of `rmw_microros/` are setters.

## Plan

The modules follow the hazards of `PROJECT.json`; those that have no property yet
carry the reason in their note. What is left:

1. What holds for entities when the datareader's request fails, which forgets a
   topic and no slot twice: a bound on the topics that are lost.
2. `InputHistory` in the multithreaded build, with find and put as separate steps of
   two takers and a callback, once the client library's locks are available
   as a reference.
3. The `refs` creation mode in `EntityLifecycle`.
