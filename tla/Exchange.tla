------------------------------ MODULE Exchange ------------------------------
(***************************************************************************)
(* Requests, responses and publications, from one application through the  *)
(* agent and back to it, and rmw_wait, which brings in what arrives.       *)
(*                                                                         *)
(* One thread, the executor, calls the rmw functions; another may trigger  *)
(* guard conditions at any time.  The session runs inside rmw_wait and     *)
(* inside the functions that send on a reliable stream, and only then do   *)
(* the callbacks put messages into static_buffers, which are the walk from *)
(* static_buffer_memory.allocateditems as in InputHistory.  All clients    *)
(* and services live in one session, so the callbacks tell them apart.     *)
(* The agent and the network are external.                                 *)
(***************************************************************************)
EXTENDS WaitTime, SequencesExt, FiniteSets

CONSTANTS
  Client, Service, Publisher, Guard,
  ServiceOf,     (* the service that each client calls                     *)
  Reliable,      (* the entities whose output stream is reliable           *)
  Guid,          (* the writer guid of each client, given by the agent:    *)
                 (* [entityKind, entityKey, guidPrefix]                    *)
  LowRange,      (* 2^32: how many values the low word of a sequence       *)
                 (* number has                                             *)
  Sessions,      (* how many sessions the application's contexts have      *)
  Home,          (* the place of the clients' and services' session on     *)
                 (* the walk of session_memory                             *)
  MaxHistory,    (* RMW_UXRCE_MAX_HISTORY                                  *)
  MaxStream,     (* RMW_UXRCE_STREAM_HISTORY_OUTPUT                        *)
  Asked,         (* the timeouts that the application waits with           *)
  Workload       (* bound: how many messages each client and publisher     *)
                 (* sends, and whether (1 or 0) each guard condition is    *)
                 (* triggered; a set of such functions                     *)

ASSUME ExchangeAssumption ==
  /\ Client \cap Service = {} /\ Publisher \cap (Client \cup Service) = {}
  /\ Guard \cap (Client \cup Service) = {}
  /\ ServiceOf \in [Client -> Service]
  /\ Reliable \subseteq Client \cup Service \cup Publisher
  /\ Guid \in [Client -> [entityKind : 0..255, entityKey : Nat,
                           guidPrefix : Nat]]
  /\ \A c, d \in Client : Guid[c] = Guid[d] => c = d
  /\ LowRange \in Nat \ {0}
  /\ Sessions \in Nat \ {0} /\ Home \in 1..Sessions
  /\ MaxHistory \in Nat \ {0} /\ MaxStream \in Nat \ {0}
  /\ Workload \subseteq [Client \cup Publisher \cup Guard -> Nat]

Entity == Client \cup Service

(* What a request or a publication says: its sender, and how many messages *)
(* of the sender were left.  A response says which request it answers.     *)
Sent(senders) == UNION {{<< e, n >> : n \in 1..w[e]} :
                          e \in senders, w \in Workload}
Request == Sent(Client)
Publication == Sent(Publisher)

VARIABLES
  call,            (* where the executor is: [at |-> "app"] between calls, *)
                   (*   "confirm" in a send that waits for confirmation,   *)
                   (*   "flush" in a publish that waits for room,          *)
                   (*   "run", "check", "guards", "clear" inside rmw_wait  *)
  left,            (* how much of the workload is left                     *)
  last_request,    (* the session's counter of request ids                 *)
  output,          (* messages on their way to the agent                   *)
  routed,          (* requests the agent knows: identity, client, id       *)
  to_device,       (* messages the agent has for the callbacks             *)
  static_buffers,  (* the input history: [owner, related, body]            *)
  requested,       (* what the application knows of the requests it sent:  *)
                   (* [client, sequence_id, request]                       *)
  headers,         (* requests taken and not answered:                     *)
                   (* [service, header, request]                           *)
  answers,         (* responses taken: [client, sequence_id, request]      *)
  gone,            (* requests of which a message was lost, was dropped or *)
                   (* did not deserialize                                  *)
  published,       (* publications that rmw_publish answered OK for        *)
  delivered,       (* publications that the agent has                      *)
  flag,            (* hasTriggered of each guard condition                 *)
  pending,         (* guard conditions triggered and not reported since    *)
  ready,           (* what the last rmw_wait reported and was not taken    *)
  result           (* the answer of the last call if it was rmw_wait       *)

sending == << left, last_request, requested, published >>
agent   == << output, routed, to_device, delivered, gone >>
guards  == << flag, pending >>
taking  == << static_buffers, headers, answers >>
vars    == << call, sending, agent, guards, taking, ready, result >>

App == [at |-> "app"]

Init ==
  /\ call = App
  /\ left \in Workload
  /\ last_request = 0
  /\ output = {}
  /\ routed = {}
  /\ to_device = {}
  /\ static_buffers = << >>
  /\ requested = {}
  /\ headers = {}
  /\ answers = {}
  /\ gone = {}
  /\ published = {}
  /\ delivered = {}
  /\ flag = [g \in Guard |-> FALSE]
  /\ pending = {}
  /\ ready = {}
  /\ result = "none"

-----------------------------------------------------------------------------
(* Identities.                                                             *)

(* Signed with a mistake: the byte is copied as it is. *)
SignedNot(b) == b

(* A uint8_t as an int8_t, and back. *)
Signed(b) == IF b > 127 THEN b - 256 ELSE b
Unsigned(b) == b % 256

(* HeaderOf with a mistake: the entity key is left out of the guid. *)
HeaderOfNoKey(sample_id) ==
  [sequence_number |-> sample_id.high * LowRange + sample_id.low,
   writer_guid     |-> << Signed(sample_id.guid.entityKind), 0,
                          sample_id.guid.guidPrefix >>]

(* rmw_take_request: SampleIdentity to rmw_request_id_t. *)
HeaderOf(sample_id) ==
  [sequence_number |-> sample_id.high * LowRange + sample_id.low,
   writer_guid     |-> << Signed(sample_id.guid.entityKind),
                          sample_id.guid.entityKey,
                          sample_id.guid.guidPrefix >>]

(* rmw_send_response: rmw_request_id_t to SampleIdentity. *)
SampleIdentityOf(header) ==
  [high |-> header.sequence_number \div LowRange,
   low  |-> header.sequence_number % LowRange,
   guid |-> [entityKind |-> Unsigned(header.writer_guid[1]),
             entityKey  |-> header.writer_guid[2],
             guidPrefix |-> header.writer_guid[3]]]

-----------------------------------------------------------------------------
(* Sending: uxr_prepare_output_stream gives the message an id, or fails    *)
(* when the reliable stream is full (then rmw_send_request and             *)
(* rmw_send_response answer an error and nothing changes).                 *)
Room(e) ==
  e \in Reliable =>
    Cardinality({m \in output : m.from \in Reliable}) < MaxStream

(* The message goes out; a function that sent on a reliable stream runs    *)
(* the session until all of the stream is confirmed.                       *)
Send(e, message) ==
  /\ Room(e)
  /\ last_request' = last_request + 1
  /\ output' = output \cup {message}
  /\ call' = IF e \in Reliable THEN [at |-> "confirm", sent |-> message]
             ELSE App
  /\ result' = "none"

(* rmw_send_request.  *sequence_id is the id of the message in the stream, *)
(* which has 16 bits in the code and does not wrap here.                   *)
RmwSendRequest(c) ==
  /\ call = App
  /\ left[c] > 0
  /\ LET id      == last_request + 1
         request == << c, left[c] >>
     IN  /\ Send(c, [from |-> c, id |-> id, body |-> request])
         /\ requested' = requested \cup
              {[client |-> c, sequence_id |-> id, request |-> request]}
  /\ left' = [left EXCEPT ![c] = @ - 1]
  /\ UNCHANGED << published, routed, to_device, delivered, gone, guards,
                  taking, ready >>

(* rmw_send_response to a request that was taken. *)
RmwSendResponse(h) ==
  /\ call = App
  /\ h \in headers
  /\ Send(h.service, [from |-> h.service, id |-> last_request + 1,
                      sample_id |-> SampleIdentityOf(h.header),
                      body |-> h.request])
  /\ headers' = headers \ {h}
  /\ UNCHANGED << left, requested, published, routed, to_device, delivered,
                  gone, guards, static_buffers, answers, ready >>

(* WrittenOk with a mistake: the confirmation is not asked for. *)
WrittenOkAlways(message, confirmed) == TRUE

(* What rmw_publish makes of the confirmation. *)
WrittenOk(message, confirmed) == confirmed

(* The message is written.  On a best effort stream the answer is known at *)
(* once.                                                                   *)
Publish(p) ==
  LET publication == << p, left[p] >>
  IN  /\ Send(p, [from |-> p, id |-> last_request + 1, body |-> publication])
      /\ published' = IF p \in Reliable THEN published
                      ELSE published \cup {publication}
      /\ left' = [left EXCEPT ![p] = @ - 1]

(* rmw_publish.  When the reliable stream is full, it tries again with     *)
(* uxr_prepare_output_stream_fragmented, which calls flush_session.        *)
RmwPublish(p) ==
  /\ call = App
  /\ left[p] > 0
  /\ \/ Publish(p)
     \/ /\ ~Room(p)
        /\ call' = [at |-> "flush", publisher |-> p]
        /\ result' = "none"
        /\ UNCHANGED << left, last_request, output, published >>
  /\ UNCHANGED << requested, routed, to_device, delivered, gone, guards,
                  taking, ready >>

(* flush_session returns: there is room now, or rmw_publish answers an     *)
(* error.                                                                  *)
FlushEnds ==
  /\ call.at = "flush"
  /\ \/ Publish(call.publisher)
     \/ /\ call' = App
        /\ UNCHANGED << left, last_request, output, published, result >>
  /\ UNCHANGED << requested, routed, to_device, delivered, gone, guards,
                  taking, ready >>

(* uxr_run_session_until_confirm_delivery returns, because everything on   *)
(* the reliable streams is confirmed or because the time is over.          *)
(* rmw_send_request and rmw_send_response answer OK in both cases.         *)
ConfirmEnds ==
  /\ call.at = "confirm"
  /\ \E confirmed \in BOOLEAN :
       /\ confirmed => \A m \in output : m.from \notin Reliable
       /\ published' =
            IF call.sent.from \in Publisher /\ WrittenOk(call.sent, confirmed)
            THEN published \cup {call.sent.body} ELSE published
  /\ call' = App
  /\ UNCHANGED << left, last_request, requested, agent, guards, taking,
                  ready, result >>

-----------------------------------------------------------------------------
(* The agent.                                                              *)

(* It takes a message from the network.  It numbers the requests of each   *)
(* client, and finds the client and the id that a response goes back to by *)
(* its identity.                                                           *)
AgentTakes(m) ==
  /\ m \in output
  /\ output' = output \ {m}
  /\ \/ /\ m.from \in Client
        /\ LET n  == Cardinality({r \in routed : r.client = m.from}) + 1
               id == [high |-> n \div LowRange, low |-> n % LowRange,
                      guid |-> Guid[m.from]]
           IN  /\ routed' = routed \cup {[sample_id |-> id, client |-> m.from,
                                          id |-> m.id]}
               /\ to_device' = to_device \cup
                    {[to |-> ServiceOf[m.from], related |-> id,
                      body |-> m.body]}
        /\ UNCHANGED delivered
     \/ /\ m.from \in Service
        /\ to_device' = to_device \cup
             {[to |-> r.client, related |-> r.id, body |-> m.body] :
                r \in {q \in routed : q.sample_id = m.sample_id}}
        /\ UNCHANGED << routed, delivered >>
     \/ /\ m.from \in Publisher
        /\ delivered' = delivered \cup {m.body}
        /\ UNCHANGED << routed, to_device >>
  /\ UNCHANGED << call, sending, gone, guards, taking, ready, result >>

(* A message on a best effort stream is lost. *)
Lose(m) ==
  /\ m \in output
  /\ m.from \notin Reliable
  /\ output' = output \ {m}
  /\ gone' = gone \cup {m.body}
  /\ UNCHANGED << call, sending, routed, to_device, delivered, guards, taking,
                  ready, result >>

(* The session of the clients and services runs. *)
Running ==
  \/ call.at \in {"confirm", "flush"}
  \/ call.at = "run" /\ call.session = Home

(* get_memory of static_buffer_memory finds a buffer. *)
FreeBuffer == Len(static_buffers) < MaxHistory

(* on_request or on_reply: the message goes to a buffer of its own.  It is *)
(* dropped when none is free; and when the copy into the buffer fails, the *)
(* buffer is put back.                                                     *)
OnData(m) ==
  /\ Running
  /\ m \in to_device
  /\ to_device' = to_device \ {m}
  /\ \/ /\ FreeBuffer
        /\ static_buffers' = << [owner |-> m.to, related |-> m.related,
                                 body |-> m.body] >> \o static_buffers
        /\ UNCHANGED gone
     \/ /\ gone' = gone \cup {m.body}
        /\ UNCHANGED static_buffers
  /\ call' = IF call.at = "run" THEN [call EXCEPT !.data = TRUE] ELSE call
  /\ UNCHANGED << sending, output, routed, delivered, guards, headers, answers,
                  ready, result >>

-----------------------------------------------------------------------------
(* rmw_wait.                                                               *)

(* Shares with a mistake: every session gets the whole timeout. *)
SharesWhole(t) == {Timeout(t)}

(* What each session may get of the timeout. *)
Shares(t) == PerSession(Timeout(t), Sessions)

(* It starts to run the sessions, one after another.  The executor waits   *)
(* again when it took all that was ready.                                  *)
RmwWait(t) ==
  /\ call = App
  /\ ready = {}
  /\ \E share \in Shares(t) :
       call' = [at |-> "run", session |-> 1, asked |-> t, share |-> share,
                elapsed |-> 0, data |-> FALSE]
  /\ result' = "none"
  /\ UNCHANGED << sending, agent, guards, taking, ready >>

(* The longest time that uxr_run_session_until_data takes: a negative      *)
(* share, whatever it is, is no limit.                                     *)
LongestRun(share) == IF share < 0 THEN Infinite ELSE share

(* uxr_run_session_until_data returns: data came, early or late, or the    *)
(* share is used up, which a negative one never is.                        *)
RunEnds ==
  /\ call.at = "run"
  /\ \E spent \in {0, LongestRun(call.share)} :
       /\ spent = call.share \/ call.data
       /\ call' = IF call.session < Sessions
                  THEN [call EXCEPT !.session = @ + 1, !.data = FALSE,
                                    !.elapsed = @ + spent]
                  ELSE [at |-> "check", asked |-> call.asked,
                        elapsed |-> call.elapsed + spent]
  /\ UNCHANGED << sending, agent, guards, taking, ready, result >>

(* HasBuffer with a mistake: only the first buffer of the walk is looked   *)
(* at.                                                                     *)
HasBufferHead(e) ==
  static_buffers # << >> /\ static_buffers[1].owner = e

(* rmw_uxrce_find_static_input_buffer_by_owner finds one. *)
HasBuffer(e) == \E k \in DOMAIN static_buffers : static_buffers[k].owner = e

(* The loops over services, clients and subscriptions: entries without a   *)
(* buffer become NULL.  Nothing runs between them.                         *)
CheckEntities ==
  /\ call.at = "check"
  /\ call' = [at |-> "guards", left |-> Guard,
              found |-> {e \in Entity : HasBuffer(e)}]
  /\ UNCHANGED << sending, agent, guards, taking, ready, result >>

(* GuardRead with a mistake: the flag is cleared also when it was not set. *)
GuardReadClears(g) ==
  [at |-> "clear", guard |-> g, left |-> call.left \ {g},
   found |-> IF flag[g] THEN call.found \cup {g} ELSE call.found]

(* The flag of a guard condition is read, and cleared in a step of its own *)
(* if it was set.                                                          *)
GuardRead(g) ==
  IF flag[g]
  THEN [at |-> "clear", guard |-> g, left |-> call.left \ {g},
        found |-> call.found \cup {g}]
  ELSE [call EXCEPT !.left = @ \ {g}]

CheckGuard(g) ==
  /\ call.at = "guards"
  /\ g \in call.left
  /\ call' = GuardRead(g)
  /\ UNCHANGED << sending, agent, guards, taking, ready, result >>

ClearGuard ==
  /\ call.at = "clear"
  /\ flag' = [flag EXCEPT ![call.guard] = FALSE]
  /\ pending' = pending \ call.found
  /\ call' = [at |-> "guards", left |-> call.left, found |-> call.found]
  /\ UNCHANGED << sending, agent, taking, ready, result >>

WaitReturns ==
  /\ call.at = "guards"
  /\ call.left = {}
  /\ ready' = call.found \cap Entity
  /\ result' = IF call.found # {} THEN "ok" ELSE "timeout"
  /\ call' = App
  /\ UNCHANGED << sending, agent, guards, taking >>

(* rmw_trigger_guard_condition, from another thread. *)
TriggerGuardCondition(g) ==
  /\ left[g] > 0
  /\ flag' = [flag EXCEPT ![g] = TRUE]
  /\ pending' = pending \cup {g}
  /\ UNCHANGED << call, sending, agent, taking, ready, result >>

-----------------------------------------------------------------------------
(* FirstOwned with a mistake: the owner's type is compared, not the owner. *)
FirstOwnedOfKind(e) ==
  CHOOSE k \in DOMAIN static_buffers :
    static_buffers[k].owner \in Client <=> e \in Client

(* The first buffer of the walk that the entity owns. *)
FirstOwned(e) ==
  CHOOSE k \in DOMAIN static_buffers :
    /\ static_buffers[k].owner = e
    /\ \A j \in 1..(k - 1) : static_buffers[j].owner # e

(* What taking a buffer gives: the header of a request, or the response    *)
(* with its sequence number.                                               *)
Taken(e, b) ==
  \/ /\ e \in Service
     /\ headers' = headers \cup
          {[service |-> e, header |-> HeaderOf(b.related),
            request |-> b.body]}
     /\ UNCHANGED << answers, gone >>
  \/ /\ e \in Client
     /\ answers' = answers \cup
          {[client |-> e, sequence_id |-> b.related, request |-> b.body]}
     /\ UNCHANGED << headers, gone >>

(* The payload does not deserialize: taken is false, the answer is an      *)
(* error, and the message is gone.                                         *)
NotTaken(b) ==
  /\ gone' = gone \cup {b.body}
  /\ UNCHANGED << headers, answers >>

(* rmw_take_request or rmw_take_response, on an entity that rmw_wait       *)
(* reported: the buffer is put back in either case.                        *)
Take(e) ==
  /\ call = App
  /\ e \in ready
  /\ HasBuffer(e)
  /\ LET b == static_buffers[FirstOwned(e)]
     IN  Taken(e, b) \/ NotTaken(b)
  /\ static_buffers' = RemoveAt(static_buffers, FirstOwned(e))
  /\ ready' = ready \ {e}
  /\ result' = "none"
  /\ UNCHANGED << call, sending, output, routed, to_device, delivered,
                  guards >>

Executor ==
  \/ \E t \in Asked : RmwWait(t)
  \/ RunEnds
  \/ CheckEntities
  \/ \E g \in Guard : CheckGuard(g)
  \/ ClearGuard
  \/ WaitReturns
  \/ ConfirmEnds
  \/ FlushEnds
  \/ \E e \in Entity : Take(e)

Next ==
  \/ Executor
  \/ \E c \in Client : RmwSendRequest(c)
  \/ \E h \in headers : RmwSendResponse(h)
  \/ \E p \in Publisher : RmwPublish(p)
  \/ \E m \in output : AgentTakes(m) \/ Lose(m)
  \/ \E m \in to_device : OnData(m)
  \/ \E g \in Guard : TriggerGuardCondition(g)

Spec == Init /\ [][Next]_vars

(***************************************************************************)
(* The executor keeps calling, and what it calls returns; it answers the   *)
(* requests that it took; a message on the network is lost or arrives; and *)
(* what the agent has for a session that runs again and again arrives in   *)
(* one of the runs.  Nobody has to send or to trigger anything.            *)
(***************************************************************************)
Fairness ==
  /\ WF_vars(Executor)
  /\ SF_vars(\E h \in headers : RmwSendResponse(h))
  /\ WF_vars(\E m \in output : AgentTakes(m))
  /\ SF_vars(\E m \in to_device : OnData(m))

FairSpec == Spec /\ Fairness

-----------------------------------------------------------------------------
TypeOK ==
  /\ call.at \in
       {"app", "confirm", "flush", "run", "check", "guards", "clear"}
  /\ left \in [Client \cup Publisher \cup Guard -> Nat]
  /\ last_request \in Nat
  /\ routed \subseteq [sample_id : [high : Nat, low : 0..(LowRange - 1),
                                    guid : {Guid[c] : c \in Client}],
                       client : Client, id : Nat]
  /\ \A m \in to_device : m.to \in Entity /\ m.body \in Request
  /\ \A k \in DOMAIN static_buffers :
       /\ static_buffers[k].owner \in Entity
       /\ static_buffers[k].body \in Request
  /\ Len(static_buffers) <= MaxHistory
  /\ \A h \in headers :
       /\ h.service \in Service /\ h.request \in Request
       /\ h.header.writer_guid[1] \in -128..127
  /\ \A a \in answers : a.client \in Client /\ a.request \in Request
  /\ published \subseteq Publication /\ delivered \subseteq Publication
  /\ flag \in [Guard -> BOOLEAN]
  /\ pending \subseteq Guard
  /\ ready \subseteq Entity

(***************************************************************************)
(* A trigger is not lost: until a wait has taken note of it, the flag is   *)
(* set, although rmw_wait reads the flag and clears it in two steps and    *)
(* the other thread may trigger between them.                              *)
(***************************************************************************)
NoTriggerLost == \A g \in pending : flag[g]

(***************************************************************************)
(* What rmw_wait reports can be taken, and while its answer is a timeout   *)
(* nothing waits in the buffers: a callback that ran inside an earlier     *)
(* send, or in any of the sessions, is not overlooked.                     *)
(***************************************************************************)
AnswerTrue ==
  /\ \A e \in ready : HasBuffer(e)
  /\ result = "timeout" => static_buffers = << >>

(* A timeout in milliseconds, and what float may add to it by rounding.    *)
Longest(t) == Timeout(t) + Timeout(t) \div 2^(MantissaBits - 1)

(***************************************************************************)
(* A wait with a timeout lasts no longer than it was asked to, up to the   *)
(* rounding of float: the sessions that run one after another share the    *)
(* time, and none of them waits without a limit.  It does not hold for one *)
(* session and a timeout so near to INT_MAX, or above it, that float makes *)
(* it 2^31: the int that the session gets is negative then.  A wait        *)
(* without a timeout (NULL) is not limited.                                *)
(***************************************************************************)
WaitInTime ==
  call.at \in {"run", "check"} =>
    call.asked = NoTimeout \/ call.elapsed <= Longest(call.asked)

(* What the arithmetic of WaitTime has to give for that: no session's      *)
(* share is negative, and the shares add up to no more.                    *)
SharesInTime ==
  \A t \in Asked \ {NoTimeout} :
    /\ Longest(t) \in Nat
    /\ \A share \in PerSession(Timeout(t), Sessions) :
         share \in Nat /\ Sessions * share <= Longest(t)

(***************************************************************************)
(* A response that a client takes with a sequence number answers the       *)
(* request that rmw_send_request gave this number, however the requests    *)
(* and responses of all clients were interleaved: the numbers pass through *)
(* the union static_buffer->related, the header and the agent.             *)
(***************************************************************************)
ReplyToItsRequest ==
  \A a \in answers :
    \E r \in requested :
      /\ r.client = a.client
      /\ r.sequence_id = a.sequence_id
      /\ r.request = a.request

(* Where a request is on its way: a message or a buffer that carries it,   *)
(* the header kept for its response, or the response that its client took  *)
(* with its sequence number.                                               *)
Traces(r) ==
  ({"output"} \X {m \in output : m.body = r.request}) \cup
  ({"input"} \X {m \in to_device : m.body = r.request}) \cup
  ({"buffer"} \X {k \in DOMAIN static_buffers :
                    static_buffers[k].body = r.request}) \cup
  ({"header"} \X {h \in headers : h.request = r.request}) \cup
  ({"answer"} \X (answers \cap {r}))

(***************************************************************************)
(* From rmw_send_request to rmw_take_response a request is in one place    *)
(* only, and in none once a message of it was lost, found no free buffer,  *)
(* could not be copied into it, or did not deserialize when it was taken:  *)
(* it is not taken twice, no second response comes for it, and no other    *)
(* step of the callbacks or of the rmw functions drops it or hands it to   *)
(* another client.                                                         *)
(***************************************************************************)
NeitherLostNorDoubled ==
  \A r \in requested :
    IF r.request \in gone THEN Traces(r) = {}
    ELSE \E trace \in Traces(r) : Traces(r) = {trace}

(* When rmw_publish answers OK on a reliable stream, the agent has the     *)
(* message.                                                                *)
PublishTrue ==
  \A m \in published : m[1] \in Reliable => m \in delivered

(* A trigger is reported, however the waits and the other calls of the     *)
(* executor are interleaved with it: no guard stays pending for ever.      *)
(* This is so for waits with a timeout only, since a trigger does not end  *)
(* uxr_run_session_until_data: without one the wait goes on until data     *)
(* comes.                                                                  *)
TriggerReported == \A g \in Guard : []<>(g \notin pending)

(***************************************************************************)
(* Every request that rmw_send_request took is answered with its sequence  *)
(* number, also when the confirmation timed out, unless one of its         *)
(* messages was lost on a best effort stream, found no free buffer, could  *)
(* not be copied into it, or did not deserialize when it was taken: no     *)
(* request of the finite workload stays open for ever.                     *)
(***************************************************************************)
RequestAnswered ==
  []<>(\A r \in requested :
         r.request \in gone \/ \E a \in answers : a.request = r.request)
=============================================================================
