---------------------------- MODULE InputHistory ----------------------------
(***************************************************************************)
(* The input history: messages that the agent sends are copied by the      *)
(* session's callbacks into buffers of one pool, static_buffer_memory,     *)
(* that all subscriptions, services and clients share, and wait there for  *)
(* rmw_take, rmw_take_request or rmw_take_response.                        *)
(*                                                                         *)
(* The callbacks run whenever a session runs: inside rmw_wait, and inside  *)
(* the creations and destructions that wait for the agent.  The first is   *)
(* modelled by OnData between calls, the others by OnData while a call is  *)
(* under way.  A reader is a subscription, a service or a client.  The     *)
(* pools are their walks, newest loan first: MCMemPool shows that memory.c *)
(* keeps two such stacks.                                                  *)
(***************************************************************************)
EXTENDS Naturals, SequencesExt, FiniteSets

CONSTANTS
  MaxOf,        (* the size of the pools of readers: [Kind -> Nat]         *)
  MaxHistory,   (* RMW_UXRCE_MAX_HISTORY                                   *)
  Session,      (* the XRCE sessions of the application's contexts, each   *)
                (* started once                                            *)
  MaxCreated,   (* bound: readers created in one session: [Kind -> Nat]    *)
  MaxSent       (* bound: messages the agent sends                         *)

Kind == {"subscription", "service", "client"}

ASSUME HistoryAssumption ==
  /\ MaxOf \in [Kind -> Nat]
  /\ MaxHistory \in Nat \ {0}
  /\ MaxCreated \in [Kind -> Nat]
  /\ MaxSent \in Nat

Slot(kind) == 1..MaxOf[kind]

(* A reader as the agent knows it.  The id is the one that the callback    *)
(* for its kind compares: datareader_id, or the id of the request for data *)
(* (service_data_resquest, client_data_request).                           *)
Reader ==
  UNION {[kind : {kind}, session : Session, id : 1..MaxCreated[kind]] :
           kind \in Kind}

NoReader == [kind |-> "none"]

Message == [to : Reader, n : 1..MaxSent]

VARIABLES
  items,           (* the walk from allocateditems, for each kind          *)
  freeitems,       (* the walk from freeitems, for each kind               *)
  data_id,         (* the id field of each slot; a put leaves it           *)
  user,            (* the reader whose rmw object the application holds    *)
                   (* with this slot as its data                           *)
  call,            (* the call under way: << >>, a creation                *)
                   (* << what, kind, session >>, about the newest slot,    *)
                   (* << "destroy", kind, slot >>, or the loop of          *)
                   (* rmw_take_sequence, << "take", slot, left >>          *)
  static_buffers,  (* the walk from static_buffer_memory.allocateditems,   *)
                   (* a sequence of [owner, message]                       *)
  created,         (* the counters id_datareader, ... of each session      *)
  served,          (* the readers the agent sends data for                 *)
  sent,            (* how many messages the agent sent                     *)
  taken            (* the messages taken, with the reader that took them   *)

pools == << items, freeitems, data_id, user, call, created >>
agent == << served, sent >>
vars  == << pools, agent, static_buffers, taken >>

Init ==
  /\ items = [kind \in Kind |-> << >>]
  /\ freeitems = [kind \in Kind |->
                    [k \in Slot(kind) |-> MaxOf[kind] + 1 - k]]
  /\ data_id = [kind \in Kind |-> [e \in Slot(kind) |-> 0]]
  /\ user = [kind \in Kind |-> [e \in Slot(kind) |-> NoReader]]
  /\ call = << >>
  /\ static_buffers = << >>
  /\ created = [session \in Session |-> [kind \in Kind |-> 0]]
  /\ served = {}
  /\ sent = 0
  /\ taken = {}

-----------------------------------------------------------------------------
(* Creation.  The slot is taken with the id of its last user, and the      *)
(* session runs (topic and subscriber, or replier, or requester).          *)
CreateBegin(kind, session) ==
  /\ call = << >>
  /\ created[session][kind] < MaxCreated[kind]
  /\ freeitems[kind] # << >>
  /\ items' = [items EXCEPT ![kind] = << Head(freeitems[kind]) >> \o @]
  /\ freeitems' = [freeitems EXCEPT ![kind] = Tail(@)]
  /\ call' = << "create", kind, session >>
  /\ UNCHANGED << data_id, user, created, agent, static_buffers, taken >>

(* A new id, in the slot of the creation under way.  The counters start    *)
(* with the session and only grow: an rmw_init that follows an             *)
(* rmw_context_fini would start them again, which is not modelled.         *)
NewId(kind, session) ==
  LET id == created[session][kind] + 1
  IN  /\ created' = [created EXCEPT ![session][kind] = id]
      /\ data_id' = [data_id EXCEPT ![kind][Head(items[kind])] = id]

(* rmw_create_subscription goes on to the datareader: its id is in the     *)
(* slot while the session runs for it.                                     *)
CreateDatareader(session) ==
  /\ call = << "create", "subscription", session >>
  /\ NewId("subscription", session)
  /\ call' = << "datareader", "subscription", session >>
  /\ UNCHANGED << items, freeitems, user, agent, static_buffers, taken >>

(* The agent does not confirm the subscriber or the datareader: the slot   *)
(* is put.  (What else a failed creation does is EntityLifecycle's.)       *)
CreateFail(session) ==
  /\ call \in {<< what, "subscription", session >> :
                 what \in {"create", "datareader"}}
  /\ LET e == Head(items["subscription"])
     IN  /\ items' = [items EXCEPT !["subscription"] = Tail(@)]
         /\ freeitems' = [freeitems EXCEPT !["subscription"] = << e >> \o @]
  /\ call' = << >>
  /\ UNCHANGED << data_id, user, created, agent, static_buffers, taken >>

(* The application holds the new reader; the agent was asked for its data. *)
Hold(kind, session, id) ==
  LET r == [kind |-> kind, session |-> session, id |-> id]
  IN  /\ user' = [user EXCEPT ![kind][Head(items[kind])] = r]
      /\ served' = served \cup {r}

CreateDone(session) ==
  /\ call = << "datareader", "subscription", session >>
  /\ Hold("subscription", session, created[session]["subscription"])
  /\ call' = << >>
  /\ UNCHANGED << items, freeitems, data_id, created, sent, static_buffers,
                  taken >>

(* rmw_create_service, rmw_create_client: the id is that of the request    *)
(* for data, the last step of the creation.                                *)
CreateEndpointDone(kind, session) ==
  /\ kind # "subscription"
  /\ call = << "create", kind, session >>
  /\ NewId(kind, session)
  /\ Hold(kind, session, created[session][kind] + 1)
  /\ call' = << >>
  /\ UNCHANGED << items, freeitems, sent, static_buffers, taken >>

-----------------------------------------------------------------------------
(* Destruction: the session runs while the slot is still allocated.        *)
DestroyBegin(kind, e) ==
  /\ call = << >>
  /\ user[kind][e] # NoReader
  /\ user' = [user EXCEPT ![kind][e] = NoReader]
  /\ call' = << "destroy", kind, e >>
  /\ UNCHANGED << items, freeitems, data_id, created, agent, static_buffers,
                  taken >>

(* The fini function, after the agent confirmed or the time ran out.  It   *)
(* leaves static_buffers as they are.                                      *)
DestroyEnd(kind, e) ==
  /\ call = << "destroy", kind, e >>
  /\ \E k \in DOMAIN items[kind] :
       /\ items[kind][k] = e
       /\ items' = [items EXCEPT ![kind] = RemoveAt(@, k)]
  /\ freeitems' = [freeitems EXCEPT ![kind] = << e >> \o @]
  /\ call' = << >>
  /\ UNCHANGED << data_id, user, created, agent, static_buffers, taken >>

(* The readers that live: created and not destroyed. *)
Held == {r \in Reader : \E e \in Slot(r.kind) : user[r.kind][e] = r}

(* The agent carries out a deletion: at any time after it was asked, or    *)
(* never, when the request is lost.                                        *)
AgentStops(r) ==
  /\ r \in served \ Held
  /\ served' = served \ {r}
  /\ UNCHANGED << pools, sent, static_buffers, taken >>

-----------------------------------------------------------------------------
(* Matching with a mistake: the types of the ids are compared only. *)
MatchingTypeOnly(kind, id) == DOMAIN items[kind]

(* Matching with a mistake: only the newest reader is looked at. *)
MatchingHeadOnly(kind, id) ==
  {k \in DOMAIN items[kind] : k = 1 /\ data_id[kind][items[kind][k]] = id}

(* The places on the walk of the slots of that kind whose id is the        *)
(* message's.  The session is not compared.                                *)
Matching(kind, id) ==
  {k \in DOMAIN items[kind] : data_id[kind][items[kind][k]] = id}

(* BufferData with a mistake: get_memory's answer is not tested. *)
BufferDataUntested(kind, id, message) ==
  IF Matching(kind, id) # {}
  THEN << [owner   |-> << kind, items[kind][Min(Matching(kind, id))] >>,
           message |-> message] >> \o static_buffers
  ELSE static_buffers

(* get_memory for the first match, if any; without a free buffer the       *)
(* message is dropped.                                                     *)
BufferData(kind, id, message) ==
  IF Matching(kind, id) # {} /\ Len(static_buffers) < MaxHistory
  THEN << [owner   |-> << kind, items[kind][Min(Matching(kind, id))] >>,
           message |-> message] >> \o static_buffers
  ELSE static_buffers

(* rmw_take_sequence is under way: it runs no session. *)
Taking == call # << >> /\ call[1] = "take"

(* on_topic, on_request and on_reply, in a session that runs: between the  *)
(* calls (in rmw_wait), in a creation or in a destruction.  copied: as     *)
(* many bytes as announced were there to read (otherwise the buffer is put *)
(* at once).                                                               *)
OnData(r) ==
  /\ r \in served
  /\ ~ Taking
  /\ sent < MaxSent
  /\ sent' = sent + 1
  /\ \E copied \in BOOLEAN :
       static_buffers' =
         IF copied
         THEN BufferData(r.kind, r.id, [to |-> r, n |-> sent + 1])
         ELSE static_buffers
  /\ UNCHANGED << pools, served, taken >>

-----------------------------------------------------------------------------
(* OwnedBy with a mistake: the owner is not compared. *)
OwnedByAnyone(buffers, owner) == DOMAIN buffers

(* OwnedBy with a mistake: the search goes on to the last match. *)
OwnedByLast(buffers, owner) ==
  {k \in DOMAIN buffers :
     /\ buffers[k].owner = owner
     /\ \A j \in DOMAIN buffers : buffers[j].owner = owner => j <= k}

(* The places of an owner's buffers on the walk:                           *)
(* rmw_uxrce_find_static_input_buffer_by_owner answers the first.          *)
OwnedBy(buffers, owner) == {k \in DOMAIN buffers : buffers[k].owner = owner}

(* PutBuffer with a mistake: the buffer stays allocated. *)
PutBufferNot(buffers, k) == buffers

(* put_memory on the buffer at one place of the walk. *)
PutBuffer(buffers, k) == RemoveAt(buffers, k)

(* rmw_take_with_info, rmw_take_request and rmw_take_response find a       *)
(* buffer and put it.  One that does not deserialize is put as well and    *)
(* lost.                                                                   *)
TakeFirst(kind, e, deserialized) ==
  LET own == OwnedBy(static_buffers, << kind, e >>)
      k   == Min(own)
  IN  /\ own # {}
      /\ taken' = IF deserialized
                  THEN taken \cup {[by      |-> user[kind][e],
                                    message |-> static_buffers[k].message]}
                  ELSE taken
      /\ static_buffers' = PutBuffer(static_buffers, k)

(* A take, which is the first of rmw_take_sequence when count > 1. *)
Take(kind, e, count) ==
  /\ call = << >>
  /\ user[kind][e] # NoReader
  /\ count > 1 => kind = "subscription"
  /\ \E deserialized \in BOOLEAN :
       /\ TakeFirst(kind, e, deserialized)
       /\ call' = IF deserialized /\ count > 1
                  THEN << "take", e, count - 1 >> ELSE << >>
  /\ UNCHANGED << items, freeitems, data_id, user, created, agent >>

(* The loop of rmw_take_sequence goes on until count are taken, none is    *)
(* left, or one does not deserialize.                                      *)
TakeNext(e, left) ==
  /\ call = << "take", e, left >>
  /\ \/ \E deserialized \in BOOLEAN :
          /\ TakeFirst("subscription", e, deserialized)
          /\ call' = IF deserialized /\ left > 1
                     THEN << "take", e, left - 1 >> ELSE << >>
     \/ /\ OwnedBy(static_buffers, << "subscription", e >>) = {}
        /\ call' = << >>
        /\ UNCHANGED << static_buffers, taken >>
  /\ UNCHANGED << items, freeitems, data_id, user, created, agent >>

Next ==
  \/ \E kind \in Kind, session \in Session : CreateBegin(kind, session)
  \/ \E session \in Session : CreateDatareader(session)
  \/ \E session \in Session : CreateFail(session)
  \/ \E session \in Session : CreateDone(session)
  \/ \E kind \in Kind, session \in Session : CreateEndpointDone(kind, session)
  \/ \E kind \in Kind : \E e \in Slot(kind) : DestroyBegin(kind, e)
  \/ \E kind \in Kind : \E e \in Slot(kind) : DestroyEnd(kind, e)
  \/ \E r \in served : AgentStops(r)
  \/ \E r \in served : OnData(r)
  \/ \E kind \in Kind : \E e \in Slot(kind), count \in 1..MaxHistory :
       Take(kind, e, count)
  \/ \E e \in Slot("subscription"), left \in 1..MaxHistory :
       TakeNext(e, left)

Spec == Init /\ [][Next]_vars

-----------------------------------------------------------------------------
Owner == UNION {{kind} \X Slot(kind) : kind \in Kind}

Call ==
  {<< >>} \cup ({"create"} \X Kind \X Session)
          \cup ({"datareader"} \X {"subscription"} \X Session)
          \cup {<< "destroy", o[1], o[2] >> : o \in Owner}
          \cup ({"take"} \X Slot("subscription") \X (1..MaxHistory))

TypeOK ==
  /\ \A kind \in Kind :
       /\ items[kind] \in Seq(Slot(kind))
       /\ freeitems[kind] \in Seq(Slot(kind))
       /\ data_id[kind] \in [Slot(kind) -> 0..MaxCreated[kind]]
       /\ user[kind] \in [Slot(kind) -> Reader \cup {NoReader}]
  /\ call \in Call
  /\ static_buffers \in Seq([owner : Owner, message : Message])
  /\ Len(static_buffers) <= MaxHistory
  /\ served \subseteq Reader
  /\ sent \in 0..MaxSent
  /\ taken \subseteq [by : Reader, message : Message]

(***************************************************************************)
(* A message is in one buffer or taken by one reader, never both and never *)
(* twice: rmw_take puts the very buffer it read.                           *)
(***************************************************************************)
DeliveredOnce ==
  /\ \A j, k \in DOMAIN static_buffers :
       static_buffers[j].message = static_buffers[k].message => j = k
  /\ \A t, u \in taken : t.message = u.message => t = u
  /\ \A t \in taken, k \in DOMAIN static_buffers :
       static_buffers[k].message # t.message

(***************************************************************************)
(* A message for a reader that lives is in the buffers of that reader,     *)
(* whatever ids the slots of others still hold and whichever creation or   *)
(* destruction was under way when it came (the match in callbacks.c).      *)
(* This, like the next two, needs that there is one session ever: the ids  *)
(* of a second one are those of the first again.                           *)
(***************************************************************************)
AddresseeOwns ==
  \A k \in DOMAIN static_buffers :
    LET b == static_buffers[k]
    IN  b.message.to \in Held => user[b.owner[1]][b.owner[2]] = b.message.to

(***************************************************************************)
(* While a buffer is free, the next message of every living reader would   *)
(* reach it: no other reader of any age shadows it on the walk, and no     *)
(* buffer is lost out of the pool.                                         *)
(***************************************************************************)
WouldReach ==
  \A r \in Held :
    Len(static_buffers) < MaxHistory =>
      LET after == BufferData(r.kind, r.id, [to |-> r, n |-> 0])
      IN  /\ Len(after) = Len(static_buffers) + 1
          /\ user[r.kind][Head(after).owner[2]] = r

(***************************************************************************)
(* A reader takes its own messages or those of a predecessor that is gone, *)
(* never one of a reader that came later.                                  *)
(***************************************************************************)
NotFromSuccessor ==
  \A t \in taken :
    /\ t.message.to.kind = t.by.kind
    /\ t.message.to.id <= t.by.id

(* On the walk w, buffer a comes before buffer b: it is newer. *)
Newer(w, a, b) ==
  \E j, k \in DOMAIN w : j < k /\ w[j] = a /\ w[k] = b

Stayed  == ToSet(static_buffers) \cap ToSet(static_buffers')
Arrived == ToSet(static_buffers') \ ToSet(static_buffers)
Left    == ToSet(static_buffers) \ ToSet(static_buffers')

(***************************************************************************)
(* A step touches the messages of one owner only, there it adds one that   *)
(* is newer than all or takes newer ones before older ones, and what       *)
(* waits keeps its order and its owner, whoever else takes or receives.    *)
(***************************************************************************)
OthersWait ==
  [][ /\ \A a, b \in Stayed :
           Newer(static_buffers', a, b) <=> Newer(static_buffers, a, b)
      /\ \A a \in Arrived, b \in Stayed : Newer(static_buffers', a, b)
      /\ \A a \in Left, b \in Stayed :
           a.owner = b.owner => Newer(static_buffers, a, b)
      /\ \A a, b \in Arrived \cup Left : a.owner = b.owner
    ]_static_buffers

(* rmw_take.c, "Find first related item in static buffer memory pool": the *)
(* message that a reader takes was sent to that reader.                    *)
RightReader == \A t \in taken : t.message.to = t.by
=============================================================================
