--------------------------- MODULE ExchangeProofs ---------------------------
(***************************************************************************)
(* Proofs about Exchange, for any application, workload, number of         *)
(* sessions and size of the input history and of the streams.              *)
(***************************************************************************)
EXTENDS Exchange, SequenceLemmas, FiniteSetTheorems

(* What the executor keeps at each place, so that an EXCEPT on call leaves *)
(* it where it is.                                                         *)
CallShape ==
  \/ call = App
  \/ \E m : call = [at |-> "confirm", sent |-> m]
  \/ \E p \in Publisher : call = [at |-> "flush", publisher |-> p]
  \/ \E i, t, share, spent, data :
       call = [at |-> "run", session |-> i, asked |-> t, share |-> share,
               elapsed |-> spent, data |-> data]
  \/ \E t, spent : call = [at |-> "check", asked |-> t, elapsed |-> spent]
  \/ \E rest, found : call = [at |-> "guards", left |-> rest, found |-> found]
  \/ \E g, rest, found : call = [at |-> "clear", guard |-> g, left |-> rest,
                                 found |-> found]

LEMMA CallsAreShaped == Spec => []CallShape
<1>1. Init => CallShape
  BY DEF Init, CallShape
<1>2. CallShape /\ [Next]_vars => CallShape'
  <2> SUFFICES ASSUME CallShape, [Next]_vars PROVE CallShape'
    OBVIOUS
  <2>1. CASE call' = call
    BY <2>1 DEF CallShape
  <2>2. CASE call' = App
    BY <2>2 DEF CallShape
  <2>3. ASSUME NEW e, NEW m, Send(e, m) PROVE CallShape'
    BY <2>3 DEF Send, CallShape
  <2>4. ASSUME NEW p \in Publisher, RmwPublish(p) PROVE CallShape'
    BY <2>3, <2>4 DEF RmwPublish, Publish, CallShape
  <2>5. CASE FlushEnds
    BY <2>2, <2>3, <2>5 DEF FlushEnds, Publish
  <2>6. ASSUME NEW m \in to_device, OnData(m) PROVE CallShape'
    <3>1. CASE call.at = "run"
      <4>1. PICK i, t, share, spent, data :
              call = [at |-> "run", session |-> i, asked |-> t,
                      share |-> share, elapsed |-> spent, data |-> data]
        BY <3>1 DEF CallShape, App
      <4>2. call' = [call EXCEPT !.data = TRUE]
        BY <2>6, <3>1 DEF OnData
      <4>3. call' = [at |-> "run", session |-> i, asked |-> t,
                     share |-> share, elapsed |-> spent, data |-> TRUE]
        BY <4>1, <4>2
      <4> QED
        BY <4>3 DEF CallShape
    <3>2. CASE call.at # "run"
      BY <2>1, <2>6, <3>2 DEF OnData
    <3> QED
      BY <3>1, <3>2
  <2>7. ASSUME NEW t, RmwWait(t) PROVE CallShape'
    BY <2>7 DEF RmwWait, CallShape
  <2>8. CASE RunEnds
    <3>1. PICK i, t, share, spent, data :
            call = [at |-> "run", session |-> i, asked |-> t,
                    share |-> share, elapsed |-> spent, data |-> data]
      BY <2>8 DEF RunEnds, CallShape, App
    <3>2. PICK more :
            call' = IF call.session < Sessions
                    THEN [call EXCEPT !.session = @ + 1, !.data = FALSE,
                                      !.elapsed = @ + more]
                    ELSE [at |-> "check", asked |-> call.asked,
                          elapsed |-> call.elapsed + more]
      BY <2>8 DEF RunEnds
    <3>3. CASE call.session < Sessions
      <4>1. call' = [at |-> "run", session |-> i + 1, asked |-> t,
                     share |-> share, elapsed |-> spent + more,
                     data |-> FALSE]
        BY <3>1, <3>2, <3>3
      <4> QED
        BY <4>1 DEF CallShape
    <3>4. CASE ~(call.session < Sessions)
      BY <3>2, <3>4 DEF CallShape
    <3> QED
      BY <3>3, <3>4
  <2>9. CASE CheckEntities
    BY <2>9 DEF CheckEntities, CallShape
  <2>10. ASSUME NEW g \in Guard, CheckGuard(g) PROVE CallShape'
    <3>1. PICK rest, found :
            call = [at |-> "guards", left |-> rest, found |-> found]
      BY <2>10 DEF CheckGuard, CallShape, App
    <3>2. CASE flag[g]
      BY <2>10, <3>2 DEF CheckGuard, GuardRead, CallShape
    <3>3. CASE ~flag[g]
      <4>1. call' = [at |-> "guards", left |-> rest \ {g}, found |-> found]
        BY <2>10, <3>1, <3>3 DEF CheckGuard, GuardRead
      <4> QED
        BY <4>1 DEF CallShape
    <3> QED
      BY <3>2, <3>3
  <2>11. CASE ClearGuard
    BY <2>11 DEF ClearGuard, CallShape
  <2> QED
    BY <2>1, <2>2, <2>3, <2>4, <2>5, <2>6, <2>7, <2>8, <2>9, <2>10, <2>11
    DEF Next, Executor, vars, RmwSendRequest, RmwSendResponse, ConfirmEnds,
        WaitReturns, Take, AgentTakes, Lose, TriggerGuardCondition
<1> QED
  BY <1>1, <1>2, PTL DEF Spec

-----------------------------------------------------------------------------
(* What NoTriggerLost needs to be inductive: the guard condition whose     *)
(* flag rmw_wait is about to clear is among those it reports.              *)
TriggerNoted ==
  /\ flag \in [Guard -> BOOLEAN]
  /\ pending \subseteq Guard
  /\ call.at = "clear" => call.guard \in call.found \cap Guard
  /\ NoTriggerLost

(* A step that leaves the guards alone, and is not about to clear a flag   *)
(* unless it was before.                                                   *)
LEMMA GuardsUntouched ==
  ASSUME CallShape, [Next]_vars
  PROVE  \/ \E g \in Guard : CheckGuard(g)
         \/ ClearGuard
         \/ \E g \in Guard : TriggerGuardCondition(g)
         \/ UNCHANGED guards /\ (call' = call \/ call'.at # "clear")
<1> DEFINE Untouched == /\ UNCHANGED guards
                        /\ call' = call \/ call'.at # "clear"
<1>1. ASSUME NEW e, NEW m, Send(e, m) PROVE call'.at # "clear"
  BY <1>1 DEF Send, App
<1>2. ASSUME NEW p \in Publisher, RmwPublish(p) PROVE Untouched
  BY <1>1, <1>2 DEF RmwPublish, Publish
<1>3. CASE FlushEnds
  BY <1>1, <1>3 DEF FlushEnds, Publish, App
<1>4. ASSUME NEW m \in to_device, OnData(m) PROVE Untouched
  <2>1. CASE call.at = "run"
    <3>1. PICK i, t, share, spent, data :
            call = [at |-> "run", session |-> i, asked |-> t,
                    share |-> share, elapsed |-> spent, data |-> data]
      BY <2>1 DEF CallShape, App
    <3>2. call' = [call EXCEPT !.data = TRUE]
      BY <1>4, <2>1 DEF OnData
    <3>3. call'.at = "run"
      BY <3>1, <3>2
    <3> QED
      BY <1>4, <3>3 DEF OnData
  <2>2. CASE call.at # "run"
    BY <1>4, <2>2 DEF OnData
  <2> QED
    BY <2>1, <2>2
<1>5. CASE RunEnds
  <2>1. PICK i, t, share, spent, data :
          call = [at |-> "run", session |-> i, asked |-> t,
                  share |-> share, elapsed |-> spent, data |-> data]
    BY <1>5 DEF RunEnds, CallShape, App
  <2>2. PICK more :
          call' = IF call.session < Sessions
                  THEN [call EXCEPT !.session = @ + 1, !.data = FALSE,
                                    !.elapsed = @ + more]
                  ELSE [at |-> "check", asked |-> call.asked,
                        elapsed |-> call.elapsed + more]
    BY <1>5 DEF RunEnds
  <2>3. call'.at # "clear"
    BY <2>1, <2>2
  <2> QED
    BY <1>5, <2>3 DEF RunEnds
<1>6. ASSUME NEW e \in Entity, Take(e) PROVE Untouched
  BY <1>6 DEF Take
<1>7. ASSUME NEW t \in Asked, RmwWait(t) PROVE Untouched
  BY <1>7 DEF RmwWait, agent
<1>8. CASE WaitReturns \/ ConfirmEnds \/ CheckEntities
  BY <1>8 DEF WaitReturns, ConfirmEnds, CheckEntities, App
<1>9. ASSUME NEW c \in Client, RmwSendRequest(c) PROVE Untouched
  BY <1>1, <1>9 DEF RmwSendRequest
<1>10. ASSUME NEW h \in headers, RmwSendResponse(h) PROVE Untouched
  BY <1>1, <1>10 DEF RmwSendResponse
<1>11. ASSUME NEW m \in output, AgentTakes(m) \/ Lose(m) PROVE Untouched
  BY <1>11 DEF AgentTakes, Lose
<1>12. CASE UNCHANGED vars
  BY <1>12 DEF vars
<1> QED
  BY <1>2, <1>3, <1>4, <1>5, <1>6, <1>7, <1>8, <1>9, <1>10, <1>11, <1>12
  DEF Next, Executor, FlushEnds

(***************************************************************************)
(* No trigger is lost, however the other thread's triggers fall between    *)
(* the reads and the clearings of rmw_wait, for any number of guards.      *)
(***************************************************************************)
THEOREM TriggersKept == Spec => []NoTriggerLost
<1>1. Init => TriggerNoted
  BY DEF Init, TriggerNoted, NoTriggerLost, App
<1>2. CallShape /\ TriggerNoted /\ [Next]_vars => TriggerNoted'
  <2> SUFFICES ASSUME CallShape, TriggerNoted, [Next]_vars
               PROVE  TriggerNoted'
    OBVIOUS
  <2>1. ASSUME NEW g \in Guard, CheckGuard(g) PROVE TriggerNoted'
    <3>1. UNCHANGED guards
      BY <2>1 DEF CheckGuard
    <3>2. CASE flag[g]
      BY <2>1, <3>1, <3>2
      DEF CheckGuard, GuardRead, TriggerNoted, NoTriggerLost, guards
    <3>3. CASE ~flag[g]
      <4>1. PICK rest, found :
              call = [at |-> "guards", left |-> rest, found |-> found]
        BY <2>1 DEF CheckGuard, CallShape, App
      <4>2. call' = [at |-> "guards", left |-> rest \ {g}, found |-> found]
        BY <2>1, <3>3, <4>1 DEF CheckGuard, GuardRead
      <4> QED
        BY <3>1, <4>2 DEF TriggerNoted, NoTriggerLost, guards
    <3> QED
      BY <3>2, <3>3
  <2>2. CASE ClearGuard
    <3>1. call'.at = "guards"
      BY <2>2 DEF ClearGuard
    <3>2. /\ flag' = [flag EXCEPT ![call.guard] = FALSE]
          /\ pending' = pending \ call.found
          /\ call.guard \in call.found
      BY <2>2 DEF ClearGuard, TriggerNoted
    <3> QED
      BY <3>1, <3>2 DEF TriggerNoted, NoTriggerLost
  <2>3. ASSUME NEW g \in Guard, TriggerGuardCondition(g)
        PROVE  TriggerNoted'
    BY <2>3 DEF TriggerGuardCondition, TriggerNoted, NoTriggerLost
  <2>4. CASE UNCHANGED guards /\ (call' = call \/ call'.at # "clear")
    BY <2>4 DEF TriggerNoted, NoTriggerLost, guards
  <2> QED
    BY <2>1, <2>2, <2>3, <2>4, GuardsUntouched
<1>3. TriggerNoted => NoTriggerLost
  BY DEF TriggerNoted
<1> QED
  BY <1>1, <1>2, <1>3, CallsAreShaped, PTL DEF Spec

-----------------------------------------------------------------------------
(* What PublishTrue needs to be inductive: while rmw_publish waits for the *)
(* confirmation, its message is on the stream or has arrived.              *)
SentOnTheWay ==
  /\ call.at = "confirm" =>
       /\ call.sent.from \in Reliable
       /\ call.sent \in output \/ call.sent.from \notin Publisher
                               \/ call.sent.body \in delivered
  /\ PublishTrue

(* A step that neither sends, ends a send nor takes from the network.      *)
LEMMA StreamUntouched ==
  ASSUME CallShape, [Next]_vars
  PROVE  \/ \E c \in Client : RmwSendRequest(c)
         \/ \E h \in headers : RmwSendResponse(h)
         \/ \E p \in Publisher : RmwPublish(p)
         \/ FlushEnds
         \/ ConfirmEnds
         \/ \E m \in output : AgentTakes(m) \/ Lose(m)
         \/ /\ UNCHANGED << output, published, delivered >>
            /\ call' = call \/ call'.at # "confirm"
<1> DEFINE Untouched == /\ UNCHANGED << output, published, delivered >>
                        /\ call' = call \/ call'.at # "confirm"
<1>1. ASSUME NEW m \in to_device, OnData(m) PROVE Untouched
  <2>1. CASE call.at = "run"
    <3>1. PICK i, t, share, spent, data :
            call = [at |-> "run", session |-> i, asked |-> t,
                    share |-> share, elapsed |-> spent, data |-> data]
      BY <2>1 DEF CallShape, App
    <3>2. call' = [call EXCEPT !.data = TRUE]
      BY <1>1, <2>1 DEF OnData
    <3>3. call'.at = "run"
      BY <3>1, <3>2
    <3> QED
      BY <1>1, <3>3 DEF OnData, sending
  <2>2. CASE call.at # "run"
    BY <1>1, <2>2 DEF OnData, sending
  <2> QED
    BY <2>1, <2>2
<1>2. CASE RunEnds
  <2>1. PICK i, t, share, spent, data :
          call = [at |-> "run", session |-> i, asked |-> t,
                  share |-> share, elapsed |-> spent, data |-> data]
    BY <1>2 DEF RunEnds, CallShape, App
  <2>2. PICK more :
          call' = IF call.session < Sessions
                  THEN [call EXCEPT !.session = @ + 1, !.data = FALSE,
                                    !.elapsed = @ + more]
                  ELSE [at |-> "check", asked |-> call.asked,
                        elapsed |-> call.elapsed + more]
    BY <1>2 DEF RunEnds
  <2>3. call'.at # "confirm"
    BY <2>1, <2>2
  <2> QED
    BY <1>2, <2>3 DEF RunEnds, sending, agent
<1>3. ASSUME NEW g \in Guard, CheckGuard(g) PROVE Untouched
  <2>1. PICK rest, found :
          call = [at |-> "guards", left |-> rest, found |-> found]
    BY <1>3 DEF CheckGuard, CallShape, App
  <2>2. call'.at # "confirm"
    BY <1>3, <2>1 DEF CheckGuard, GuardRead
  <2> QED
    BY <1>3, <2>2 DEF CheckGuard, sending, agent
<1>4. ASSUME NEW t \in Asked, RmwWait(t) PROVE Untouched
  BY <1>4 DEF RmwWait, sending, agent
<1>5. CASE CheckEntities \/ ClearGuard \/ WaitReturns
  BY <1>5 DEF CheckEntities, ClearGuard, WaitReturns, App, sending, agent
<1>6. ASSUME NEW e \in Entity, Take(e) PROVE Untouched
  BY <1>6 DEF Take, sending, agent
<1>7. ASSUME NEW g \in Guard, TriggerGuardCondition(g) PROVE Untouched
  BY <1>7 DEF TriggerGuardCondition, sending, agent
<1>8. CASE UNCHANGED vars
  BY <1>8 DEF vars, sending, agent
<1> QED
  BY <1>1, <1>2, <1>3, <1>4, <1>5, <1>6, <1>7, <1>8 DEF Next, Executor

(***************************************************************************)
(* An OK of rmw_publish on a reliable stream is true, for any depth of the *)
(* stream and whatever else is on it.                                      *)
(***************************************************************************)
THEOREM PublishedArrives == Spec => []PublishTrue
<1>1. Init => SentOnTheWay
  BY DEF Init, SentOnTheWay, PublishTrue, App
<1>2. CallShape /\ SentOnTheWay /\ [Next]_vars => SentOnTheWay'
  <2> SUFFICES ASSUME CallShape, SentOnTheWay, [Next]_vars
               PROVE  SentOnTheWay'
    OBVIOUS
  <2>1. ASSUME NEW e, NEW m, m.from = e, Send(e, m)
        PROVE  call'.at = "confirm" =>
                 call'.sent.from \in Reliable /\ call'.sent \in output'
    BY <2>1 DEF Send, App
  <2>2. ASSUME NEW c \in Client, RmwSendRequest(c) PROVE SentOnTheWay'
    BY <2>1, <2>2 DEF RmwSendRequest, SentOnTheWay, PublishTrue
  <2>3. ASSUME NEW h \in headers, RmwSendResponse(h) PROVE SentOnTheWay'
    BY <2>1, <2>3 DEF RmwSendResponse, SentOnTheWay, PublishTrue
  <2>4. ASSUME NEW p, Publish(p), delivered' = delivered
        PROVE  SentOnTheWay'
    <3>1. published' \subseteq published \cup {<< p, left[p] >>}
      BY <2>4 DEF Publish
    <3>2. p \in Reliable => published' = published
      BY <2>4 DEF Publish
    <3>3. PublishTrue'
      BY <2>4, <3>1, <3>2 DEF SentOnTheWay, PublishTrue
    <3> QED
      BY <2>1, <2>4, <3>3 DEF Publish, SentOnTheWay
  <2>5. ASSUME NEW p \in Publisher, RmwPublish(p) PROVE SentOnTheWay'
    <3>1. CASE Publish(p)
      BY <2>4, <2>5, <3>1 DEF RmwPublish
    <3>2. CASE ~Publish(p)
      BY <2>5, <3>2 DEF RmwPublish, SentOnTheWay, PublishTrue
    <3> QED
      BY <3>1, <3>2
  <2>6. CASE FlushEnds
    <3>1. CASE Publish(call.publisher)
      BY <2>4, <2>6, <3>1 DEF FlushEnds
    <3>2. CASE ~Publish(call.publisher)
      BY <2>6, <3>2 DEF FlushEnds, SentOnTheWay, PublishTrue, App
    <3> QED
      BY <3>1, <3>2
  <2>7. CASE ConfirmEnds
    <3>1. PICK confirmed \in BOOLEAN :
            /\ confirmed => \A m \in output : m.from \notin Reliable
            /\ published' =
                 IF /\ call.sent.from \in Publisher
                    /\ WrittenOk(call.sent, confirmed)
                 THEN published \cup {call.sent.body} ELSE published
      BY <2>7 DEF ConfirmEnds
    <3>2. call' = App /\ delivered' = delivered
      BY <2>7 DEF ConfirmEnds, agent
    <3>3. /\ call.sent.from \in Reliable
          /\ call.sent \in output \/ call.sent.from \notin Publisher
                                  \/ call.sent.body \in delivered
      BY <2>7 DEF ConfirmEnds, SentOnTheWay
    <3>4. published' # published => call.sent.body \in delivered
      BY <3>1, <3>3 DEF WrittenOk
    <3>5. published' \subseteq published \cup {call.sent.body}
      BY <3>1
    <3> QED
      BY <3>2, <3>4, <3>5 DEF SentOnTheWay, PublishTrue, App
  <2>8. ASSUME NEW m \in output, AgentTakes(m) PROVE SentOnTheWay'
    <3>1. /\ call' = call /\ published' = published
          /\ output' = output \ {m} /\ delivered \subseteq delivered'
      BY <2>8 DEF AgentTakes, sending
    <3>2. m.from \in Publisher => m.body \in delivered'
      BY <2>8, ExchangeAssumption DEF AgentTakes
    <3> QED
      BY <3>1, <3>2 DEF SentOnTheWay, PublishTrue
  <2>9. ASSUME NEW m \in output, Lose(m) PROVE SentOnTheWay'
    BY <2>9 DEF Lose, sending, SentOnTheWay, PublishTrue
  <2>10. CASE /\ UNCHANGED << output, published, delivered >>
              /\ call' = call \/ call'.at # "confirm"
    BY <2>10 DEF SentOnTheWay, PublishTrue
  <2> QED
    BY <2>2, <2>3, <2>5, <2>6, <2>7, <2>8, <2>9, <2>10, StreamUntouched
<1>3. SentOnTheWay => PublishTrue
  BY DEF SentOnTheWay
<1> QED
  BY <1>1, <1>2, <1>3, CallsAreShaped, PTL DEF Spec

-----------------------------------------------------------------------------
(* The number behind the two words of a SampleIdentity. *)
NumberOf(id) == id.high * LowRange + id.low

Identity == [high : Nat, low : 0..(LowRange - 1),
             guid : {Guid[c] : c \in Client}]

(* Cutting a number into a high and a low word and putting it together     *)
(* again gives the number.                                                 *)
LEMMA WordsOfNumber ==
  ASSUME NEW n \in Nat
  PROVE  /\ n \div LowRange \in Nat /\ n % LowRange \in 0..(LowRange - 1)
         /\ (n \div LowRange) * LowRange + (n % LowRange) = n
  BY ExchangeAssumption

(* And the other way round. *)
LEMMA NumberOfWords ==
  ASSUME NEW h \in Nat, NEW l \in 0..(LowRange - 1)
  PROVE  /\ h * LowRange + l \in Nat
         /\ (h * LowRange + l) \div LowRange = h
         /\ (h * LowRange + l) % LowRange = l
<1>1. LowRange \in Nat \ {0}
  BY ExchangeAssumption
<1> DEFINE n == h * LowRange + l
<1>2. n \in Nat
  BY <1>1
<1>3. \E d \in Nat : \E r \in 0..(LowRange - 1) :
        /\ d = n \div LowRange /\ r = n % LowRange
        /\ d * LowRange + r = n
  BY <1>2, WordsOfNumber
<1>4. PICK d \in Nat, r \in 0..(LowRange - 1) :
        /\ d = n \div LowRange /\ r = n % LowRange
        /\ d * LowRange + r = h * LowRange + l
  BY <1>3
<1>5. (d - h) * LowRange = l - r
  BY <1>1, <1>4
<1>6. ~(d - h >= 1)
  <2>1. d - h >= 1 => (d - h) * LowRange >= LowRange
    BY <1>1
  <2> QED
    BY <1>1, <1>5, <2>1
<1>7. ~(d - h <= -1)
  <2>1. d - h <= -1 => (d - h) * LowRange <= -LowRange
    BY <1>1
  <2> QED
    BY <1>1, <1>5, <2>1
<1>8. d = h
  BY <1>6, <1>7
<1>9. r = l
  BY <1>4, <1>8, <1>1
<1> QED
  BY <1>2, <1>4, <1>8, <1>9

(* The header of a request leads back to the identity it was made of. *)
LEMMA HeaderRoundTrip ==
  ASSUME NEW id \in Identity
  PROVE  SampleIdentityOf(HeaderOf(id)) = id
<1>1. /\ id.high \in Nat /\ id.low \in 0..(LowRange - 1)
      /\ id.guid \in [entityKind : 0..255, entityKey : Nat, guidPrefix : Nat]
      /\ id = [high |-> id.high, low |-> id.low, guid |-> id.guid]
  BY ExchangeAssumption DEF Identity
<1>2. \A b \in 0..255 : Unsigned(Signed(b)) = b
  BY DEF Unsigned, Signed
<1>3. SampleIdentityOf(HeaderOf(id)).guid = id.guid
  BY <1>1, <1>2 DEF SampleIdentityOf, HeaderOf
<1>4. /\ SampleIdentityOf(HeaderOf(id)).high = id.high
      /\ SampleIdentityOf(HeaderOf(id)).low = id.low
  BY <1>1, NumberOfWords DEF SampleIdentityOf, HeaderOf
<1> QED
  BY <1>1, <1>3, <1>4 DEF SampleIdentityOf

-----------------------------------------------------------------------------
(* The walk finds a buffer that the entity owns, the first, if it has one. *)
LEMMA FirstOwnedExists ==
  ASSUME NEW S, static_buffers \in Seq(S), NEW e, HasBuffer(e)
  PROVE  /\ FirstOwned(e) \in 1..Len(static_buffers)
         /\ static_buffers[FirstOwned(e)].owner = e
<1> DEFINE T == {k \in DOMAIN static_buffers : static_buffers[k].owner = e}
<1>1. T \in SUBSET Nat /\ T # {}
  BY DEF HasBuffer
<1>2. PICK k \in T : \A j \in T : k <= j
  <2> HIDE DEF T
  <2> QED
    BY <1>1, LeastNumber
<1>3. \A j \in 1..(k - 1) : static_buffers[j].owner # e
  BY <1>2
<1>4. k \in DOMAIN static_buffers /\ static_buffers[k].owner = e
  OBVIOUS
<1>5. /\ FirstOwned(e) \in DOMAIN static_buffers
      /\ static_buffers[FirstOwned(e)].owner = e
  BY <1>3, <1>4 DEF FirstOwned
<1> QED
  BY <1>5

-----------------------------------------------------------------------------
(* The client sent this request with this sequence number. *)
Asks(c, id, request) ==
  [client |-> c, sequence_id |-> id, request |-> request] \in requested

(* The identity is the one that the agent gave to this request. *)
About(sample_id, request) ==
  \E r \in routed :
    r.sample_id = sample_id /\ Asks(r.client, r.id, request)

(* What a message that came from the agent, or its buffer, refers to. *)
Fits(e, related, request) ==
  /\ e \in Entity
  /\ e \in Service => About(related, request)
  /\ e \in Client => Asks(e, related, request)

OfClient(c) == {r \in routed : r.client = c}

(* The agent's numbering: no identity is given twice, as the last number   *)
(* of each client is the number of its requests so far.                    *)
RoutesDistinct ==
  /\ IsFiniteSet(routed)
  /\ \A r \in routed :
       /\ r.client \in Client
       /\ r.sample_id \in Identity /\ r.sample_id.guid = Guid[r.client]
       /\ NumberOf(r.sample_id) <= Cardinality(OfClient(r.client))
  /\ \A q, r \in routed : q.sample_id = r.sample_id => q = r

(* What ReplyToItsRequest needs to be inductive: the request behind a      *)
(* message is known at every place it passes through.                      *)
OutputKnown ==
  \A m \in output :
    /\ m.from \in Client => Asks(m.from, m.id, m.body)
    /\ m.from \in Service => About(m.sample_id, m.body)

InputKnown == \A m \in to_device : Fits(m.to, m.related, m.body)

BuffersKnown ==
  /\ \E S : static_buffers \in Seq(S)
  /\ \A k \in 1..Len(static_buffers) :
       Fits(static_buffers[k].owner, static_buffers[k].related,
            static_buffers[k].body)

HeadersKnown ==
  \A h \in headers :
    /\ h.service \in Service
    /\ \E r \in routed :
         h.header = HeaderOf(r.sample_id) /\ Asks(r.client, r.id, h.request)

AnswersKnown == \A a \in answers : Asks(a.client, a.sequence_id, a.request)

RequestsKnown == /\ RoutesDistinct /\ OutputKnown /\ InputKnown
                 /\ BuffersKnown /\ HeadersKnown /\ AnswersKnown

messages == << requested, routed, output, to_device, taking >>

(* A publication may go out; nothing else happens to the messages. *)
Publishes ==
  /\ UNCHANGED << requested, routed, to_device, taking >>
  /\ \A m \in output' \ output : m.from \in Publisher

LEMMA MessageSteps ==
  ASSUME CallShape, [Next]_vars
  PROVE  \/ \E c \in Client : RmwSendRequest(c)
         \/ \E h \in headers : RmwSendResponse(h)
         \/ Publishes
         \/ \E m \in output : AgentTakes(m)
         \/ \E m \in to_device : OnData(m)
         \/ \E e \in Entity : Take(e)
<1>1. ASSUME NEW p \in Publisher, Publish(p)
      PROVE  \A m \in output' \ output : m.from \in Publisher
  BY <1>1 DEF Publish, Send
<1>2. ASSUME NEW p \in Publisher, RmwPublish(p) PROVE Publishes
  BY <1>1, <1>2 DEF RmwPublish, Publishes
<1>3. CASE FlushEnds
  <2>1. call.publisher \in Publisher
    BY <1>3 DEF FlushEnds, CallShape, App
  <2> QED
    BY <1>1, <1>3, <2>1 DEF FlushEnds, Publishes
<1>4. ASSUME NEW m \in output, Lose(m) PROVE Publishes
  BY <1>4 DEF Lose, Publishes, sending
<1>5. CASE UNCHANGED messages
  BY <1>5 DEF Publishes, messages
<1> QED
  BY <1>2, <1>3, <1>4, <1>5
  DEF Next, Executor, vars, sending, agent, messages, RmwWait, RunEnds,
      CheckEntities, CheckGuard, ClearGuard, WaitReturns, ConfirmEnds,
      TriggerGuardCondition

(* What is known stays known. *)
LEMMA KnownGrows ==
  ASSUME requested \subseteq requested', routed \subseteq routed'
  PROVE  /\ \A c, id, request : Asks(c, id, request) => Asks(c, id, request)'
         /\ \A id, request : About(id, request) => About(id, request)'
         /\ \A e, id, request : Fits(e, id, request) => Fits(e, id, request)'
  BY DEF Asks, About, Fits

(* The agent's next number is new. *)
LEMMA RouteAdded ==
  ASSUME RoutesDistinct, NEW c \in Client, NEW i,
         NEW n, n = Cardinality(OfClient(c)) + 1,
         NEW id, id = [high |-> n \div LowRange, low |-> n % LowRange,
                       guid |-> Guid[c]],
         routed' = routed \cup {[sample_id |-> id, client |-> c, id |-> i]}
  PROVE  RoutesDistinct'
<1> DEFINE new == [sample_id |-> id, client |-> c, id |-> i]
<1>1. IsFiniteSet(routed) /\ \A d : OfClient(d) \in SUBSET routed
  BY DEF RoutesDistinct, OfClient
<1>2. \A d : IsFiniteSet(OfClient(d)) /\ Cardinality(OfClient(d)) \in Nat
  BY <1>1, FS_Subset, FS_CardinalityType
<1>3. n \in Nat
  BY <1>2
<1>4. id \in Identity /\ id.guid = Guid[c] /\ NumberOf(id) = n
  BY <1>3, WordsOfNumber DEF Identity, NumberOf
<1>5. \A r \in routed : r.sample_id # id
  <2> SUFFICES ASSUME NEW r \in routed, r.sample_id = id PROVE FALSE
    OBVIOUS
  <2>1. r.client \in Client /\ Guid[r.client] = Guid[c]
    BY <1>4 DEF RoutesDistinct
  <2>2. r.client = c
    BY <2>1, ExchangeAssumption
  <2>3. n <= Cardinality(OfClient(c))
    BY <1>4, <2>2 DEF RoutesDistinct
  <2> QED
    BY <1>2, <2>3
<1>6. OfClient(c)' = OfClient(c) \cup {new} /\ new \notin OfClient(c)
  BY <1>5 DEF OfClient
<1>7. Cardinality(OfClient(c)') = n
  BY <1>2, <1>6, FS_AddElement
<1>8. \A d : d # c => OfClient(d)' = OfClient(d)
  BY DEF OfClient
<1>9. IsFiniteSet(routed')
  BY <1>1, FS_AddElement
<1>10. ASSUME NEW r \in routed'
       PROVE  /\ r.client \in Client
              /\ r.sample_id \in Identity /\ r.sample_id.guid = Guid[r.client]
              /\ NumberOf(r.sample_id) <= Cardinality(OfClient(r.client)')
  <2>1. CASE r = new
    BY <1>3, <1>4, <1>7, <2>1
  <2>2. CASE r \in routed
    <3>1. /\ r.client \in Client
          /\ r.sample_id \in Identity /\ r.sample_id.guid = Guid[r.client]
          /\ NumberOf(r.sample_id) <= Cardinality(OfClient(r.client))
      BY <2>2 DEF RoutesDistinct
    <3>2. CASE r.client = c
      <4>1. NumberOf(r.sample_id) \in Nat
        <5> DEFINE sid == r.sample_id
        <5>1. sid.high \in Nat /\ sid.low \in Nat /\ LowRange \in Nat
          BY <3>1, ExchangeAssumption DEF Identity
        <5> HIDE DEF sid
        <5>2. sid.high * LowRange + sid.low \in Nat
          BY <5>1
        <5> QED
          BY <5>2 DEF NumberOf, sid
      <4>2. Cardinality(OfClient(c)) \in Nat
        BY <1>2
      <4>3. NumberOf(r.sample_id) <= n
        BY <3>1, <3>2, <4>1, <4>2
      <4> QED
        BY <1>7, <3>1, <3>2, <4>3
    <3>3. CASE r.client # c
      <4>1. OfClient(r.client)' = OfClient(r.client)
        BY <1>8, <3>3
      <4> QED
        BY <3>1, <4>1
    <3> QED
      BY <3>2, <3>3
  <2> QED
    BY <2>1, <2>2
<1>11. ASSUME NEW q \in routed', NEW r \in routed', q.sample_id = r.sample_id
       PROVE  q = r
  BY <1>5, <1>11 DEF RoutesDistinct
<1> QED
  BY <1>9, <1>10, <1>11 DEF RoutesDistinct, NumberOf

LEMMA RequestsStayKnown == Spec => []RequestsKnown
<1>1. Init => RequestsKnown
  <2> SUFFICES ASSUME Init PROVE RequestsKnown
    OBVIOUS
  <2>1. RoutesDistinct
    BY FS_EmptySet DEF Init, RoutesDistinct
  <2>2. static_buffers \in Seq({}) /\ Len(static_buffers) = 0
    BY DEF Init
  <2> QED
    BY <2>1, <2>2 DEF Init, RequestsKnown, OutputKnown, InputKnown,
       BuffersKnown, HeadersKnown, AnswersKnown
<1>2. CallShape /\ RequestsKnown /\ [Next]_vars => RequestsKnown'
  <2> SUFFICES ASSUME CallShape, RequestsKnown, [Next]_vars
               PROVE  RequestsKnown'
    OBVIOUS
  <2>1. ASSUME NEW c \in Client, RmwSendRequest(c)
        PROVE  RequestsKnown'
    <3>0. PICK id, request :
            id = last_request + 1 /\ request = << c, left[c] >>
      OBVIOUS
    <3> DEFINE new == [from |-> c, id |-> id, body |-> request]
    <3>1. /\ output' = output \cup {new}
          /\ requested' = requested \cup
               {[client |-> c, sequence_id |-> id, request |-> request]}
          /\ UNCHANGED << routed, to_device, taking >>
      BY <2>1, <3>0 DEF RmwSendRequest, Send
    <3>2. /\ \A d, i, r : Asks(d, i, r) => Asks(d, i, r)'
          /\ \A i, r : About(i, r) => About(i, r)'
          /\ \A e, i, r : Fits(e, i, r) => Fits(e, i, r)'
      BY <3>1, KnownGrows
    <3>3. Asks(new.from, new.id, new.body)' /\ new.from \notin Service
      BY <3>1, ExchangeAssumption DEF Asks
    <3>4. OutputKnown'
      BY <3>1, <3>2, <3>3 DEF RequestsKnown, OutputKnown
    <3>5. RoutesDistinct'
      BY <3>1 DEF RequestsKnown, RoutesDistinct, OfClient
    <3>6. InputKnown'
      BY <3>1, <3>2 DEF RequestsKnown, InputKnown
    <3>7. BuffersKnown'
      BY <3>1, <3>2 DEF RequestsKnown, BuffersKnown, taking
    <3>8. HeadersKnown'
      BY <3>1, <3>2 DEF RequestsKnown, HeadersKnown, taking
    <3>9. AnswersKnown'
      BY <3>1, <3>2 DEF RequestsKnown, AnswersKnown, taking
    <3> QED
      BY <3>4, <3>5, <3>6, <3>7, <3>8, <3>9 DEF RequestsKnown
  <2>2. ASSUME UNCHANGED << requested, routed >>
        PROVE  /\ \A d, i, r : Asks(d, i, r)' = Asks(d, i, r)
               /\ \A i, r : About(i, r)' = About(i, r)
               /\ \A e, i, r : Fits(e, i, r)' = Fits(e, i, r)
               /\ RoutesDistinct'
    <3>1. RoutesDistinct'
      BY <2>2 DEF RequestsKnown, RoutesDistinct, OfClient
    <3> QED
      BY <2>2, <3>1 DEF Asks, About, Fits
  <2>3. ASSUME NEW h \in headers, RmwSendResponse(h)
        PROVE  RequestsKnown'
    <3>1. /\ output' = output \cup
               {[from |-> h.service, id |-> last_request + 1,
                 sample_id |-> SampleIdentityOf(h.header),
                 body |-> h.request]}
          /\ headers' = headers \ {h}
          /\ UNCHANGED << requested, routed, to_device, static_buffers,
                          answers >>
      BY <2>3 DEF RmwSendResponse, Send
    <3>2. PICK r \in routed :
            h.header = HeaderOf(r.sample_id) /\ Asks(r.client, r.id, h.request)
      BY DEF RequestsKnown, HeadersKnown
    <3>3. SampleIdentityOf(h.header) = r.sample_id
      BY <3>2, HeaderRoundTrip DEF RequestsKnown, RoutesDistinct
    <3>4. h.service \in Service /\ h.service \notin Client
      BY ExchangeAssumption DEF RequestsKnown, HeadersKnown
    <3>5. About(SampleIdentityOf(h.header), h.request)
      BY <3>2, <3>3 DEF About
    <3>6. OutputKnown'
      BY <2>2, <3>1, <3>4, <3>5 DEF RequestsKnown, OutputKnown
    <3>7. InputKnown' /\ AnswersKnown'
      BY <2>2, <3>1 DEF RequestsKnown, InputKnown, AnswersKnown
    <3>8. BuffersKnown'
      BY <2>2, <3>1 DEF RequestsKnown, BuffersKnown
    <3>9. HeadersKnown'
      BY <2>2, <3>1 DEF RequestsKnown, HeadersKnown
    <3> QED
      BY <2>2, <3>1, <3>6, <3>7, <3>8, <3>9 DEF RequestsKnown
  <2>4. CASE Publishes
    <3>1. OutputKnown'
      BY <2>2, <2>4, ExchangeAssumption
      DEF Publishes, RequestsKnown, OutputKnown
    <3>2. InputKnown' /\ AnswersKnown' /\ HeadersKnown' /\ BuffersKnown'
      BY <2>2, <2>4 DEF Publishes, RequestsKnown, InputKnown, AnswersKnown,
         HeadersKnown, BuffersKnown, taking
    <3> QED
      BY <2>2, <2>4, <3>1, <3>2 DEF Publishes, RequestsKnown
  <2>5. ASSUME NEW m \in output, AgentTakes(m)
        PROVE  RequestsKnown'
    <3>1. /\ output' = output \ {m}
          /\ UNCHANGED << requested, taking >>
      BY <2>5 DEF AgentTakes, sending
    <3>2. CASE m.from \in Client
      <4>0. PICK n, id : /\ n = Cardinality(OfClient(m.from)) + 1
                         /\ id = [high |-> n \div LowRange,
                                  low |-> n % LowRange, guid |-> Guid[m.from]]
        OBVIOUS
      <4> DEFINE new == [sample_id |-> id, client |-> m.from, id |-> m.id]
                 in  == [to |-> ServiceOf[m.from], related |-> id,
                         body |-> m.body]
      <4>1. /\ routed' = routed \cup {new}
            /\ to_device' = to_device \cup {in}
        BY <2>5, <3>2, <4>0, ExchangeAssumption DEF AgentTakes, OfClient
      <4>2. RoutesDistinct'
        BY <3>2, <4>0, <4>1, RouteAdded DEF RequestsKnown
      <4>3. /\ \A d, i, r : Asks(d, i, r) => Asks(d, i, r)'
            /\ \A i, r : About(i, r) => About(i, r)'
            /\ \A e, i, r : Fits(e, i, r) => Fits(e, i, r)'
        BY <3>1, <4>1, KnownGrows
      <4>4. Asks(m.from, m.id, m.body)'
        BY <3>2, <4>3 DEF RequestsKnown, OutputKnown
      <4>5. About(id, m.body)'
        <5>1. new \in routed' /\ new.sample_id = id
          BY <4>1
        <5>2. Asks(new.client, new.id, m.body)'
          BY <4>4
        <5> QED
          BY <5>1, <5>2 DEF About
      <4>6. ServiceOf[m.from] \in Service /\ ServiceOf[m.from] \notin Client
        BY <3>2, ExchangeAssumption
      <4>7. Fits(in.to, in.related, in.body)'
        BY <4>5, <4>6 DEF Fits, Entity
      <4>8. OutputKnown'
        BY <3>1, <4>3 DEF RequestsKnown, OutputKnown
      <4>9. InputKnown'
        BY <4>1, <4>3, <4>7 DEF RequestsKnown, InputKnown
      <4>10. BuffersKnown'
        BY <3>1, <4>3 DEF RequestsKnown, BuffersKnown, taking
      <4>11. HeadersKnown'
        BY <3>1, <4>1, <4>3 DEF RequestsKnown, HeadersKnown, taking
      <4>12. AnswersKnown'
        BY <3>1, <4>3 DEF RequestsKnown, AnswersKnown, taking
      <4> QED
        BY <4>2, <4>8, <4>9, <4>10, <4>11, <4>12 DEF RequestsKnown
    <3>3. CASE m.from \notin Client
      <4>1. routed' = routed
        BY <2>5, <3>3 DEF AgentTakes
      <4>2. ASSUME NEW new \in to_device' \ to_device
            PROVE  Fits(new.to, new.related, new.body)
        <5>1. m.from \in Service
          BY <2>5, <3>3, <4>2 DEF AgentTakes
        <5>2. PICK q \in routed :
                q.sample_id = m.sample_id
                  /\ new = [to |-> q.client, related |-> q.id, body |-> m.body]
          BY <2>5, <3>3, <4>2 DEF AgentTakes
        <5>3. PICK r \in routed :
                r.sample_id = m.sample_id /\ Asks(r.client, r.id, m.body)
          BY <5>1 DEF RequestsKnown, OutputKnown, About
        <5>4. q = r /\ q.client \in Client /\ q.client \notin Service
          BY <5>2, <5>3, ExchangeAssumption DEF RequestsKnown, RoutesDistinct
        <5> QED
          BY <5>2, <5>3, <5>4 DEF Fits, Entity
      <4>3. InputKnown'
        BY <2>2, <3>1, <4>1, <4>2 DEF RequestsKnown, InputKnown
      <4>4. OutputKnown'
        BY <2>2, <3>1, <4>1 DEF RequestsKnown, OutputKnown
      <4>5. BuffersKnown' /\ HeadersKnown' /\ AnswersKnown'
        BY <2>2, <3>1, <4>1 DEF RequestsKnown, BuffersKnown, HeadersKnown,
           AnswersKnown, taking
      <4> QED
        BY <2>2, <3>1, <4>1, <4>3, <4>4, <4>5 DEF RequestsKnown
    <3> QED
      BY <3>2, <3>3
  <2>6. ASSUME NEW m \in to_device, OnData(m)
        PROVE  RequestsKnown'
    <3> DEFINE b == [owner |-> m.to, related |-> m.related, body |-> m.body]
    <3>1. /\ UNCHANGED << requested, routed, output, headers, answers >>
          /\ to_device' = to_device \ {m}
          /\ static_buffers' = << b >> \o static_buffers
               \/ static_buffers' = static_buffers
      BY <2>6 DEF OnData, sending
    <3>2. OutputKnown' /\ InputKnown' /\ HeadersKnown' /\ AnswersKnown'
      BY <2>2, <3>1 DEF RequestsKnown, OutputKnown, InputKnown, HeadersKnown,
         AnswersKnown
    <3>3. BuffersKnown'
      <4>1. PICK S : static_buffers \in Seq(S)
        BY DEF RequestsKnown, BuffersKnown
      <4>2. CASE static_buffers' = static_buffers
        BY <2>2, <3>1, <4>2 DEF RequestsKnown, BuffersKnown
      <4>3. CASE static_buffers' = << b >> \o static_buffers
        <5> DEFINE Both == S \cup {b}
        <5>1. << b >> \in Seq(Both) /\ Len(<< b >>) = 1 /\ << b >>[1] = b
          OBVIOUS
        <5>2. static_buffers \in Seq(Both)
          BY <4>1
        <5> HIDE DEF Both
        <5>3. /\ static_buffers' \in Seq(Both)
              /\ Len(static_buffers') = 1 + Len(static_buffers)
              /\ \A i \in 1..(1 + Len(static_buffers)) : static_buffers'[i] =
                   IF i <= 1 THEN << b >>[i] ELSE static_buffers[i - 1]
          BY <4>3, <5>1, <5>2, ConcatProperties
        <5>4. Fits(b.owner, b.related, b.body)
          BY DEF RequestsKnown, InputKnown
        <5>5. ASSUME NEW i \in 1..Len(static_buffers')
              PROVE  Fits(static_buffers'[i].owner, static_buffers'[i].related,
                          static_buffers'[i].body)
          <6>1. CASE i = 1
            BY <5>1, <5>3, <5>4, <6>1
          <6>2. CASE i # 1
            <7>1. i - 1 \in 1..Len(static_buffers)
              BY <5>2, <5>3, <5>5, <6>2
            <7>2. static_buffers'[i] = static_buffers[i - 1]
              BY <5>2, <5>3, <5>5, <6>2
            <7> QED
              BY <7>1, <7>2 DEF RequestsKnown, BuffersKnown
          <6> QED
            BY <6>1, <6>2
        <5> QED
          BY <2>2, <3>1, <5>3, <5>5 DEF BuffersKnown
      <4> QED
        BY <3>1, <4>2, <4>3
    <3> QED
      BY <2>2, <3>1, <3>2, <3>3 DEF RequestsKnown
  <2>7. ASSUME NEW e \in Entity, Take(e)
        PROVE  RequestsKnown'
    <3> DEFINE b == static_buffers[FirstOwned(e)]
    <3>1. UNCHANGED << requested, routed, output, to_device >>
      BY <2>7 DEF Take, sending
    <3>2. PICK S : static_buffers \in Seq(S)
      BY DEF RequestsKnown, BuffersKnown
    <3>3. FirstOwned(e) \in 1..Len(static_buffers) /\ b.owner = e
      BY <2>7, <3>2, FirstOwnedExists DEF Take
    <3>4. Fits(e, b.related, b.body)
      BY <3>3 DEF RequestsKnown, BuffersKnown
    <3>5. OutputKnown' /\ InputKnown'
      BY <2>2, <3>1 DEF RequestsKnown, OutputKnown, InputKnown
    <3>6. BuffersKnown'
      <4>1. static_buffers' = RemoveAt(static_buffers, FirstOwned(e))
        BY <2>7 DEF Take
      <4>2. /\ static_buffers' \in Seq(S)
            /\ Len(static_buffers') = Len(static_buffers) - 1
            /\ \A j \in 1..(Len(static_buffers) - 1) : static_buffers'[j] =
                 IF j < FirstOwned(e) THEN static_buffers[j]
                                      ELSE static_buffers[j + 1]
        BY <3>2, <3>3, <4>1, RemoveAtProperties
      <4>3. ASSUME NEW j \in 1..Len(static_buffers')
            PROVE  \E k \in 1..Len(static_buffers) :
                     static_buffers'[j] = static_buffers[k]
        <5>1. /\ j \in 1..(Len(static_buffers) - 1)
              /\ j \in 1..Len(static_buffers)
              /\ j + 1 \in 1..Len(static_buffers)
          BY <3>2, <4>2, <4>3
        <5> QED
          BY <4>2, <5>1
      <4> QED
        BY <2>2, <3>1, <4>2, <4>3 DEF RequestsKnown, BuffersKnown
    <3>7. HeadersKnown'
      <4>1. headers' \subseteq headers \cup
              {[service |-> e, header |-> HeaderOf(b.related),
                request |-> b.body]}
        BY <2>7 DEF Take, Taken, NotTaken
      <4>2. e \notin Service => headers' = headers
        BY <2>7 DEF Take, Taken, NotTaken
      <4>3. e \in Service =>
              \E r \in routed : /\ HeaderOf(b.related) = HeaderOf(r.sample_id)
                                /\ Asks(r.client, r.id, b.body)
        BY <3>4 DEF Fits, About
      <4> QED
        BY <2>2, <3>1, <4>1, <4>2, <4>3 DEF RequestsKnown, HeadersKnown
    <3>8. AnswersKnown'
      <4>1. answers' \subseteq answers \cup
              {[client |-> e, sequence_id |-> b.related, request |-> b.body]}
        BY <2>7 DEF Take, Taken, NotTaken
      <4>2. e \notin Client => answers' = answers
        BY <2>7 DEF Take, Taken, NotTaken
      <4>3. e \in Client => Asks(e, b.related, b.body)
        BY <3>4 DEF Fits
      <4> QED
        BY <2>2, <3>1, <4>1, <4>2, <4>3 DEF RequestsKnown, AnswersKnown
    <3> QED
      BY <2>2, <3>1, <3>5, <3>6, <3>7, <3>8 DEF RequestsKnown
  <2> QED
    BY <2>1, <2>3, <2>4, <2>5, <2>6, <2>7, MessageSteps
<1> QED
  BY <1>1, <1>2, CallsAreShaped, PTL DEF Spec

(***************************************************************************)
(* Every response that a client takes with a sequence number answers the   *)
(* request that was sent with this number: for any number of clients,      *)
(* services, sessions and messages, any reordering and loss, and any       *)
(* number of values of the low word.                                       *)
(***************************************************************************)
THEOREM RepliesMatch == Spec => []ReplyToItsRequest
<1>1. RequestsKnown => ReplyToItsRequest
  <2> SUFFICES ASSUME RequestsKnown, NEW a \in answers
               PROVE  \E r \in requested :
                        /\ r.client = a.client
                        /\ r.sequence_id = a.sequence_id
                        /\ r.request = a.request
    BY DEF ReplyToItsRequest
  <2> DEFINE r == [client |-> a.client, sequence_id |-> a.sequence_id,
                   request |-> a.request]
  <2>1. r \in requested
    BY DEF RequestsKnown, AnswersKnown, Asks
  <2> QED
    BY <2>1
<1> QED
  BY <1>1, RequestsStayKnown, PTL

-----------------------------------------------------------------------------
(* What AnswerTrue needs to be inductive: inside rmw_wait, after the last  *)
(* session ran, the entities found are those that own a buffer.            *)
WaitKnows ==
  /\ call.at \in {"guards", "clear"} =>
       call.found \cap Entity = {e \in Entity : HasBuffer(e)}
  /\ AnswerTrue
  /\ result = "timeout" => call = App

(* A step that neither puts nor takes a buffer, and is not in the last     *)
(* part of rmw_wait.                                                       *)
LEMMA WaitUntouched ==
  ASSUME CallShape, [Next]_vars
  PROVE  \/ \E m \in to_device : OnData(m)
         \/ \E e \in Entity : Take(e)
         \/ CheckEntities \/ WaitReturns \/ ClearGuard
         \/ \E g \in Guard : CheckGuard(g)
         \/ /\ UNCHANGED << static_buffers, ready >>
            /\ \/ UNCHANGED << call, result >>
               \/ /\ call'.at \notin {"guards", "clear"}
                  /\ \/ result' = "none"
                     \/ call # App /\ result' = result
<1> DEFINE Untouched == /\ UNCHANGED << static_buffers, ready >>
                        /\ \/ UNCHANGED << call, result >>
                           \/ /\ call'.at \notin {"guards", "clear"}
                              /\ \/ result' = "none"
                                 \/ call # App /\ result' = result
<1>1. ASSUME NEW e, NEW m, Send(e, m)
      PROVE  call'.at \notin {"guards", "clear"} /\ result' = "none"
  BY <1>1 DEF Send, App
<1>2. ASSUME NEW c \in Client, RmwSendRequest(c) PROVE Untouched
  BY <1>1, <1>2 DEF RmwSendRequest, taking
<1>3. ASSUME NEW h \in headers, RmwSendResponse(h) PROVE Untouched
  BY <1>1, <1>3 DEF RmwSendResponse
<1>4. ASSUME NEW p \in Publisher, RmwPublish(p) PROVE Untouched
  BY <1>1, <1>4 DEF RmwPublish, Publish, taking
<1>5. CASE FlushEnds
  BY <1>1, <1>5 DEF FlushEnds, Publish, taking, App
<1>6. CASE ConfirmEnds
  BY <1>6 DEF ConfirmEnds, taking, App
<1>7. ASSUME NEW m \in output, AgentTakes(m) \/ Lose(m) PROVE Untouched
  BY <1>7 DEF AgentTakes, Lose, taking
<1>8. ASSUME NEW g \in Guard, TriggerGuardCondition(g) PROVE Untouched
  BY <1>8 DEF TriggerGuardCondition, taking
<1>9. ASSUME NEW t \in Asked, RmwWait(t) PROVE Untouched
  BY <1>9 DEF RmwWait, taking
<1>10. CASE RunEnds
  <2>1. PICK i, t, share, spent, data :
          call = [at |-> "run", session |-> i, asked |-> t,
                  share |-> share, elapsed |-> spent, data |-> data]
    BY <1>10 DEF RunEnds, CallShape, App
  <2>2. PICK more :
          call' = IF call.session < Sessions
                  THEN [call EXCEPT !.session = @ + 1, !.data = FALSE,
                                    !.elapsed = @ + more]
                  ELSE [at |-> "check", asked |-> call.asked,
                        elapsed |-> call.elapsed + more]
    BY <1>10 DEF RunEnds
  <2>3. call'.at \notin {"guards", "clear"} /\ call # App
    BY <2>1, <2>2 DEF App
  <2> QED
    BY <1>10, <2>3 DEF RunEnds, taking
<1>11. CASE UNCHANGED vars
  BY <1>11 DEF vars, taking
<1> QED
  BY <1>2, <1>3, <1>4, <1>5, <1>6, <1>7, <1>8, <1>9, <1>10, <1>11
  DEF Next, Executor

(***************************************************************************)
(* What rmw_wait answers is true: what it reports can be taken, and a      *)
(* timeout means that nothing waits, for any number of sessions and        *)
(* buffers.                                                                *)
(***************************************************************************)
THEOREM WaitAnswersTruly == Spec => []AnswerTrue
<1>1. Init => WaitKnows
  BY DEF Init, WaitKnows, AnswerTrue, App
<1>2. CallShape /\ BuffersKnown /\ WaitKnows /\ [Next]_vars => WaitKnows'
  <2> SUFFICES ASSUME CallShape, BuffersKnown, WaitKnows, [Next]_vars
               PROVE  WaitKnows'
    OBVIOUS
  <2>1. PICK S : static_buffers \in Seq(S)
    BY DEF BuffersKnown
  <2>2. ASSUME NEW m \in to_device, OnData(m) PROVE WaitKnows'
    <3>1. UNCHANGED << ready, result >> /\ result # "timeout"
      BY <2>2 DEF OnData, Running, WaitKnows, App
    <3>2. call'.at \notin {"guards", "clear"}
      <4>1. CASE call.at = "run"
        <5>1. PICK i, t, share, spent, data :
                call = [at |-> "run", session |-> i, asked |-> t,
                        share |-> share, elapsed |-> spent, data |-> data]
          BY <4>1 DEF CallShape, App
        <5>2. call' = [call EXCEPT !.data = TRUE]
          BY <2>2, <4>1 DEF OnData
        <5> QED
          BY <5>1, <5>2
      <4>2. CASE call.at # "run"
        BY <2>2, <4>2 DEF OnData, Running
      <4> QED
        BY <4>1, <4>2
    <3>3. ASSUME NEW e, HasBuffer(e) PROVE HasBuffer(e)'
      <4> DEFINE b == [owner |-> m.to, related |-> m.related, body |-> m.body]
                 Both == S \cup {b}
      <4>1. PICK k \in 1..Len(static_buffers) : static_buffers[k].owner = e
        BY <2>1, <3>3 DEF HasBuffer
      <4>2. CASE static_buffers' = static_buffers
        BY <3>3, <4>2 DEF HasBuffer
      <4>3. CASE static_buffers' = << b >> \o static_buffers
        <5>1. << b >> \in Seq(Both) /\ Len(<< b >>) = 1
          OBVIOUS
        <5>2. static_buffers \in Seq(Both)
          BY <2>1
        <5> HIDE DEF b, Both
        <5>3. /\ static_buffers' \in Seq(Both)
              /\ Len(static_buffers') = 1 + Len(static_buffers)
              /\ \A i \in 1..(1 + Len(static_buffers)) : static_buffers'[i] =
                   IF i <= 1 THEN << b >>[i] ELSE static_buffers[i - 1]
          BY <4>3, <5>1, <5>2, ConcatProperties
        <5>4. k + 1 \in 1..Len(static_buffers') /\ ~(k + 1 <= 1)
          BY <2>1, <4>1, <5>3
        <5>5. static_buffers'[k + 1] = static_buffers[k]
          BY <2>1, <4>1, <5>3, <5>4
        <5>6. DOMAIN static_buffers' = 1..Len(static_buffers')
          BY <5>3
        <5> QED
          BY <4>1, <5>4, <5>5, <5>6 DEF HasBuffer
      <4> QED
        BY <2>2, <4>2, <4>3 DEF OnData
    <3> QED
      BY <3>1, <3>2, <3>3 DEF WaitKnows, AnswerTrue
  <2>3. ASSUME NEW e \in Entity, Take(e) PROVE WaitKnows'
    <3> DEFINE f == FirstOwned(e)
    <3>1. /\ call = App /\ call' = call /\ result' = "none"
          /\ ready' = ready \ {e}
          /\ static_buffers' = RemoveAt(static_buffers, f)
      BY <2>3 DEF Take
    <3>2. f \in 1..Len(static_buffers) /\ static_buffers[f].owner = e
      BY <2>1, <2>3, FirstOwnedExists DEF Take
    <3>3. /\ static_buffers' \in Seq(S)
          /\ Len(static_buffers') = Len(static_buffers) - 1
          /\ \A j \in 1..(Len(static_buffers) - 1) : static_buffers'[j] =
               IF j < f THEN static_buffers[j] ELSE static_buffers[j + 1]
      BY <2>1, <3>1, <3>2, RemoveAtProperties
    <3> HIDE DEF f
    <3>4. ASSUME NEW d \in ready, d # e PROVE HasBuffer(d)'
      <4>1. PICK k \in 1..Len(static_buffers) : static_buffers[k].owner = d
        BY <2>1 DEF WaitKnows, AnswerTrue, HasBuffer
      <4>2. k # f
        BY <3>2, <3>4, <4>1
      <4>3. DOMAIN static_buffers' = 1..(Len(static_buffers) - 1)
        BY <3>3
      <4>4. CASE k < f
        <5>1. k \in 1..(Len(static_buffers) - 1)
          BY <2>1, <3>2, <4>4
        <5>2. static_buffers'[k] = static_buffers[k]
          BY <3>3, <4>4, <5>1
        <5> QED
          BY <4>1, <4>3, <5>1, <5>2 DEF HasBuffer
      <4>5. CASE k > f
        <5>1. /\ k - 1 \in 1..(Len(static_buffers) - 1)
              /\ ~(k - 1 < f) /\ (k - 1) + 1 = k
          BY <2>1, <3>2, <4>5
        <5>2. static_buffers'[k - 1] = static_buffers[k]
          BY <3>3, <5>1
        <5> QED
          BY <4>1, <4>3, <5>1, <5>2 DEF HasBuffer
      <4> QED
        BY <2>1, <3>2, <4>2, <4>4, <4>5
    <3> QED
      BY <3>1, <3>4 DEF WaitKnows, AnswerTrue, App
  <2>4. CASE CheckEntities
    BY <2>4 DEF CheckEntities, taking, WaitKnows, AnswerTrue, HasBuffer, App
  <2>5. CASE WaitReturns
    <3>1. /\ call.found \cap Entity = {e \in Entity : HasBuffer(e)}
          /\ call' = App /\ static_buffers' = static_buffers
          /\ ready' = call.found \cap Entity
          /\ result' = IF call.found # {} THEN "ok" ELSE "timeout"
      BY <2>5 DEF WaitReturns, WaitKnows, taking
    <3>2. \A e \in ready' : HasBuffer(e)'
      BY <3>1 DEF HasBuffer
    <3>3. result' = "timeout" => static_buffers' = << >>
      <4> SUFFICES ASSUME result' = "timeout" PROVE static_buffers = << >>
        BY <3>1
      <4>1. \A e \in Entity : ~HasBuffer(e)
        BY <3>1
      <4>2. \A k \in 1..Len(static_buffers) :
              static_buffers[k].owner \in Entity
        BY DEF BuffersKnown, Fits
      <4>3. Len(static_buffers) = 0
        <5> SUFFICES ASSUME Len(static_buffers) # 0 PROVE FALSE
          OBVIOUS
        <5>1. 1 \in 1..Len(static_buffers) /\ 1 \in DOMAIN static_buffers
          BY <2>1
        <5> QED
          BY <4>1, <4>2, <5>1 DEF HasBuffer
      <4> QED
        BY <2>1, <4>3, EmptySeq
    <3> QED
      BY <3>1, <3>2, <3>3 DEF WaitKnows, AnswerTrue, App
  <2>6. CASE ClearGuard
    BY <2>6 DEF ClearGuard, taking, WaitKnows, AnswerTrue, HasBuffer, App
  <2>7. ASSUME NEW g \in Guard, CheckGuard(g) PROVE WaitKnows'
    <3>1. /\ UNCHANGED << static_buffers, ready, result >> /\ call # App
          /\ call.at = "guards"
      BY <2>7 DEF CheckGuard, taking, App
    <3>2. PICK rest, found :
            call = [at |-> "guards", left |-> rest, found |-> found]
      BY <2>7 DEF CheckGuard, CallShape, App
    <3>3. g \notin Entity
      BY ExchangeAssumption DEF Entity
    <3>4. call'.found = call.found \cup {g} \/ call'.found = call.found
      BY <2>7, <3>2 DEF CheckGuard, GuardRead
    <3>5. call'.found \cap Entity = call.found \cap Entity
      BY <3>3, <3>4
    <3> QED
      BY <3>1, <3>5 DEF WaitKnows, AnswerTrue, HasBuffer
  <2>8. CASE /\ UNCHANGED << static_buffers, ready >>
             /\ \/ UNCHANGED << call, result >>
                \/ /\ call'.at \notin {"guards", "clear"}
                   /\ \/ result' = "none"
                      \/ call # App /\ result' = result
    BY <2>8 DEF WaitKnows, AnswerTrue, HasBuffer
  <2> QED
    BY <2>2, <2>3, <2>4, <2>5, <2>6, <2>7, <2>8, WaitUntouched
<1>3. WaitKnows => AnswerTrue
  BY DEF WaitKnows
<1>4. RequestsKnown => BuffersKnown
  BY DEF RequestsKnown
<1> QED
  BY <1>1, <1>2, <1>3, <1>4, CallsAreShaped, RequestsStayKnown, PTL DEF Spec

-----------------------------------------------------------------------------
(* What TypeOK needs to be inductive, beside RequestsKnown: what is left   *)
(* is a part of a workload, so that every message sent is one of it.       *)
WorkLeft ==
  /\ left \in [Client \cup Publisher \cup Guard -> Nat]
  /\ \E w \in Workload : \A e \in Client \cup Publisher : left[e] <= w[e]

SentTyped ==
  /\ WorkLeft
  /\ last_request \in Nat
  /\ \A r \in requested :
       r.client \in Client /\ r.sequence_id \in Nat /\ r.request \in Request
  /\ \A m \in output : m.from \in Publisher => m.body \in Publication
  /\ call.at = "confirm" /\ call.sent.from \in Publisher =>
       call.sent.body \in Publication
  /\ call.at = "flush" => left[call.publisher] > 0
  /\ published \subseteq Publication /\ delivered \subseteq Publication

Routes == [sample_id : Identity, client : Client, id : Nat]

PlacesTyped ==
  /\ routed \subseteq Routes
  /\ Len(static_buffers) <= MaxHistory
  /\ flag \in [Guard -> BOOLEAN]
  /\ pending \subseteq Guard
  /\ ready \subseteq Entity

(* The next message of a sender is one of the workload, and so is what     *)
(* then is left.                                                           *)
LEMMA NextOfWorkload ==
  ASSUME WorkLeft, NEW e \in Client \cup Publisher, left[e] > 0
  PROVE  /\ e \in Client => << e, left[e] >> \in Request
         /\ e \in Publisher => << e, left[e] >> \in Publication
         /\ left' = [left EXCEPT ![e] = @ - 1] => WorkLeft'
<1>1. PICK w \in Workload : \A d \in Client \cup Publisher : left[d] <= w[d]
  BY DEF WorkLeft
<1>2. /\ w \in [Client \cup Publisher \cup Guard -> Nat]
      /\ left \in [Client \cup Publisher \cup Guard -> Nat]
  BY ExchangeAssumption DEF WorkLeft
<1>3. left[e] \in 1..w[e]
  BY <1>1, <1>2
<1>4. ASSUME NEW senders, e \in senders
      PROVE  << e, left[e] >> \in Sent(senders)
  <2> DEFINE Of(d, v) == {<< d, n >> : n \in 1..v[d]}
  <2>1. << e, left[e] >> \in Of(e, w)
    BY <1>3
  <2>2. Of(e, w) \in {Of(d, v) : d \in senders, v \in Workload}
    <3> HIDE DEF Of
    <3> QED
      BY <1>4
  <2>3. << e, left[e] >>
          \in UNION {Of(d, v) : d \in senders, v \in Workload}
    <3> HIDE DEF Of
    <3> QED
      BY <2>1, <2>2
  <2> QED
    BY <2>3 DEF Sent
<1>5. ASSUME left' = [left EXCEPT ![e] = @ - 1] PROVE WorkLeft'
  <2>1. /\ left[e] - 1 \in Nat
        /\ left' \in [Client \cup Publisher \cup Guard -> Nat]
    BY <1>2, <1>5
  <2>2. \A d \in Client \cup Publisher : left'[d] <= w[d]
    BY <1>1, <1>2, <1>5
  <2> QED
    BY <2>1, <2>2 DEF WorkLeft
<1> QED
  BY <1>4, <1>5 DEF Request, Publication

LEMMA SentStaysTyped == Spec => []SentTyped
<1>1. Init => SentTyped
  <2> SUFFICES ASSUME Init PROVE SentTyped
    OBVIOUS
  <2>1. /\ left \in Workload
        /\ left \in [Client \cup Publisher \cup Guard -> Nat]
    BY ExchangeAssumption DEF Init
  <2>2. \A e \in Client \cup Publisher : left[e] <= left[e]
    BY <2>1
  <2>3. WorkLeft
    BY <2>1, <2>2 DEF WorkLeft
  <2> QED
    BY <2>3 DEF Init, SentTyped, App
<1>2. CallShape /\ RequestsKnown /\ SentTyped /\ [Next]_vars => SentTyped'
  <2> SUFFICES ASSUME CallShape, RequestsKnown, SentTyped, [Next]_vars
               PROVE  SentTyped'
    OBVIOUS
  <2>1. Publisher \cap (Client \cup Service) = {}
    BY ExchangeAssumption
  <2>2. ASSUME NEW e, NEW m, m.from = e, Send(e, m),
               e \in Publisher => m.body \in Publication
        PROVE  /\ last_request' \in Nat
               /\ \A o \in output' :
                    o.from \in Publisher => o.body \in Publication
               /\ call'.at = "confirm" /\ call'.sent.from \in Publisher =>
                    call'.sent.body \in Publication
               /\ call'.at # "flush"
    BY <2>2 DEF Send, SentTyped, App
  <2>3. ASSUME NEW c \in Client, RmwSendRequest(c) PROVE SentTyped'
    <3> DEFINE id      == last_request + 1
               request == << c, left[c] >>
               new     == [from |-> c, id |-> id, body |-> request]
    <3>1. /\ left[c] > 0 /\ left' = [left EXCEPT ![c] = @ - 1]
          /\ Send(c, new)
          /\ requested' = requested \cup
               {[client |-> c, sequence_id |-> id, request |-> request]}
          /\ UNCHANGED << published, delivered >>
      BY <2>3 DEF RmwSendRequest
    <3>2. request \in Request /\ WorkLeft'
      BY <3>1, NextOfWorkload DEF SentTyped
    <3>3. id \in Nat
      BY DEF SentTyped
    <3>4. new.from = c /\ c \notin Publisher
      BY <2>1
    <3> HIDE DEF id, request, new
    <3>5. \A r \in requested' :
            /\ r.client \in Client /\ r.sequence_id \in Nat
            /\ r.request \in Request
      BY <3>1, <3>2, <3>3 DEF SentTyped
    <3> QED
      BY <2>2, <3>1, <3>2, <3>4, <3>5 DEF SentTyped
  <2>4. ASSUME NEW h \in headers, RmwSendResponse(h) PROVE SentTyped'
    <3> DEFINE new == [from |-> h.service, id |-> last_request + 1,
                       sample_id |-> SampleIdentityOf(h.header),
                       body |-> h.request]
    <3>1. /\ Send(h.service, new)
          /\ UNCHANGED << left, requested, published, delivered >>
      BY <2>4 DEF RmwSendResponse
    <3>2. h.service \in Service
      BY DEF RequestsKnown, HeadersKnown
    <3>3. new.from = h.service /\ h.service \notin Publisher
      BY <2>1, <3>2
    <3> HIDE DEF new
    <3> QED
      BY <2>2, <3>1, <3>3 DEF SentTyped, WorkLeft
  <2>5. ASSUME NEW p \in Publisher, left[p] > 0, Publish(p),
               UNCHANGED << requested, delivered >>
        PROVE  SentTyped'
    <3> DEFINE publication == << p, left[p] >>
               new == [from |-> p, id |-> last_request + 1,
                       body |-> publication]
    <3>1. /\ Send(p, new) /\ left' = [left EXCEPT ![p] = @ - 1]
          /\ published' \subseteq published \cup {publication}
      BY <2>5 DEF Publish
    <3>2. publication \in Publication /\ WorkLeft'
      BY <2>5, <3>1, NextOfWorkload DEF SentTyped
    <3>3. new.from = p /\ new.body = publication
      OBVIOUS
    <3> HIDE DEF publication, new
    <3> QED
      BY <2>2, <2>5, <3>1, <3>2, <3>3 DEF SentTyped
  <2>6. ASSUME NEW p \in Publisher, RmwPublish(p) PROVE SentTyped'
    <3>1. CASE Publish(p)
      BY <2>5, <2>6, <3>1 DEF RmwPublish
    <3>2. CASE ~Publish(p)
      <4>1. /\ call' = [at |-> "flush", publisher |-> p] /\ left[p] > 0
            /\ UNCHANGED << left, last_request, output, published, requested,
                            delivered >>
        BY <2>6, <3>2 DEF RmwPublish
      <4> QED
        BY <4>1 DEF SentTyped, WorkLeft
    <3> QED
      BY <3>1, <3>2
  <2>7. CASE FlushEnds
    <3>1. call.publisher \in Publisher /\ left[call.publisher] > 0
      BY <2>7 DEF FlushEnds, CallShape, App, SentTyped
    <3>2. CASE Publish(call.publisher)
      BY <2>5, <2>7, <3>1, <3>2 DEF FlushEnds
    <3>3. CASE ~Publish(call.publisher)
      BY <2>7, <3>3 DEF FlushEnds, SentTyped, WorkLeft, App
    <3> QED
      BY <3>2, <3>3
  <2>8. CASE ConfirmEnds
    <3>1. published' \subseteq Publication
      BY <2>8 DEF ConfirmEnds, SentTyped
    <3> QED
      BY <2>8, <3>1 DEF ConfirmEnds, SentTyped, WorkLeft, App, sending, agent
  <2>9. ASSUME NEW m \in output, AgentTakes(m) \/ Lose(m) PROVE SentTyped'
    <3>1. delivered' \subseteq Publication
      BY <2>9 DEF AgentTakes, Lose, SentTyped
    <3>2. output' \subseteq output /\ UNCHANGED << call, sending >>
      BY <2>9 DEF AgentTakes, Lose
    <3> QED
      BY <3>1, <3>2 DEF SentTyped, WorkLeft, sending
  <2>10. ASSUME UNCHANGED << sending, output, delivered >>,
                \/ UNCHANGED call
                \/ call'.at \notin {"confirm", "flush"}
         PROVE  SentTyped'
    BY <2>10 DEF SentTyped, WorkLeft, sending
  <2>11. ASSUME NEW m \in to_device, OnData(m) PROVE SentTyped'
    <3>1. CASE call.at = "run"
      <4>1. PICK i, t, share, spent, data :
              call = [at |-> "run", session |-> i, asked |-> t,
                      share |-> share, elapsed |-> spent, data |-> data]
        BY <3>1 DEF CallShape, App
      <4>2. call' = [call EXCEPT !.data = TRUE]
        BY <2>11, <3>1 DEF OnData
      <4>3. call'.at = "run"
        BY <4>1, <4>2
      <4> QED
        BY <2>10, <2>11, <4>3 DEF OnData
    <3>2. CASE call.at # "run"
      BY <2>10, <2>11, <3>2 DEF OnData
    <3> QED
      BY <3>1, <3>2
  <2>12. CASE RunEnds
    <3>1. PICK i, t, share, spent, data :
            call = [at |-> "run", session |-> i, asked |-> t,
                    share |-> share, elapsed |-> spent, data |-> data]
      BY <2>12 DEF RunEnds, CallShape, App
    <3>2. PICK more :
            call' = IF call.session < Sessions
                    THEN [call EXCEPT !.session = @ + 1, !.data = FALSE,
                                      !.elapsed = @ + more]
                    ELSE [at |-> "check", asked |-> call.asked,
                          elapsed |-> call.elapsed + more]
      BY <2>12 DEF RunEnds
    <3>3. call'.at \notin {"confirm", "flush"}
      BY <3>1, <3>2
    <3> QED
      BY <2>10, <2>12, <3>3 DEF RunEnds, agent
  <2>13. ASSUME NEW g \in Guard, CheckGuard(g) PROVE SentTyped'
    <3>1. PICK rest, found :
            call = [at |-> "guards", left |-> rest, found |-> found]
      BY <2>13 DEF CheckGuard, CallShape, App
    <3>2. call'.at \notin {"confirm", "flush"}
      BY <2>13, <3>1 DEF CheckGuard, GuardRead
    <3> QED
      BY <2>10, <2>13, <3>2 DEF CheckGuard, agent
  <2>14. ASSUME NEW t \in Asked, RmwWait(t) PROVE SentTyped'
    BY <2>10, <2>14 DEF RmwWait, agent
  <2>15. CASE CheckEntities \/ ClearGuard \/ WaitReturns
    BY <2>10, <2>15 DEF CheckEntities, ClearGuard, WaitReturns, agent, App
  <2>16. ASSUME NEW e \in Entity, Take(e) PROVE SentTyped'
    BY <2>10, <2>16 DEF Take, agent
  <2>17. ASSUME NEW g \in Guard, TriggerGuardCondition(g) PROVE SentTyped'
    BY <2>10, <2>17 DEF TriggerGuardCondition, agent
  <2>18. CASE UNCHANGED vars
    BY <2>10, <2>18 DEF vars, agent
  <2> QED
    BY <2>3, <2>4, <2>6, <2>7, <2>8, <2>9, <2>11, <2>12, <2>13, <2>14, <2>15,
       <2>16, <2>17, <2>18
    DEF Next, Executor
<1> QED
  BY <1>1, <1>2, CallsAreShaped, RequestsStayKnown, PTL DEF Spec

(* An entity that found a buffer free leaves the walk within its limit,    *)
(* and the agent numbers its requests within their type.                   *)
LEMMA PlacesStayTyped == Spec => []PlacesTyped
<1>1. Init => PlacesTyped
  BY ExchangeAssumption DEF Init, PlacesTyped
<1>2. CallShape /\ RequestsKnown /\ SentTyped /\ PlacesTyped /\ [Next]_vars
        => PlacesTyped'
  <2> SUFFICES ASSUME CallShape, RequestsKnown, SentTyped, PlacesTyped,
                      [Next]_vars
               PROVE  PlacesTyped'
    OBVIOUS
  <2>1. PICK S : static_buffers \in Seq(S)
    BY DEF RequestsKnown, BuffersKnown
  <2>2. ASSUME UNCHANGED << routed, static_buffers, ready, guards >>
        PROVE  PlacesTyped'
    BY <2>2 DEF PlacesTyped, guards
  <2>3. ASSUME NEW m \in output, AgentTakes(m) PROVE PlacesTyped'
    <3>1. CASE routed' = routed
      BY <2>2, <2>3, <3>1 DEF AgentTakes, taking
    <3>2. CASE routed' # routed
      <4> DEFINE n   == Cardinality(OfClient(m.from)) + 1
                 id  == [high |-> n \div LowRange, low |-> n % LowRange,
                         guid |-> Guid[m.from]]
                 new == [sample_id |-> id, client |-> m.from, id |-> m.id]
      <4>1. m.from \in Client /\ routed' = routed \cup {new}
        BY <2>3, <3>2 DEF AgentTakes, OfClient
      <4>2. m.id \in Nat
        BY <4>1 DEF SentTyped, RequestsKnown, OutputKnown, Asks
      <4>3. IsFiniteSet(OfClient(m.from))
        BY FS_Subset DEF RequestsKnown, RoutesDistinct, OfClient
      <4>4. n \in Nat
        BY <4>3, FS_CardinalityType
      <4>5. id \in Identity
        <5> HIDE DEF n
        <5>1. n \div LowRange \in Nat /\ n % LowRange \in 0..(LowRange - 1)
          BY <4>4, WordsOfNumber
        <5> QED
          BY <4>1, <5>1 DEF Identity
      <4>6. new \in Routes
        <5> HIDE DEF id
        <5> QED
          BY <4>1, <4>2, <4>5 DEF Routes
      <4> QED
        BY <2>3, <4>1, <4>6 DEF AgentTakes, PlacesTyped, taking, guards
    <3> QED
      BY <3>1, <3>2
  <2>4. ASSUME NEW m \in to_device, OnData(m) PROVE PlacesTyped'
    <3> DEFINE b == [owner |-> m.to, related |-> m.related, body |-> m.body]
    <3>1. CASE static_buffers' = static_buffers
      BY <2>2, <2>4, <3>1 DEF OnData
    <3>2. CASE static_buffers' # static_buffers
      <4>1. /\ static_buffers' = << b >> \o static_buffers
            /\ Len(static_buffers) < MaxHistory
        BY <2>4, <3>2 DEF OnData, FreeBuffer
      <4>2. /\ static_buffers \in Seq(S \cup {b})
            /\ << b >> \in Seq(S \cup {b}) /\ Len(<< b >>) = 1
        BY <2>1
      <4> HIDE DEF b
      <4>3. Len(static_buffers') = 1 + Len(static_buffers)
        BY <4>1, <4>2, ConcatProperties
      <4>4. Len(static_buffers') <= MaxHistory
        BY <2>1, <4>1, <4>3, ExchangeAssumption
      <4> QED
        BY <2>4, <4>4 DEF OnData, PlacesTyped, guards
    <3> QED
      BY <3>1, <3>2
  <2>5. ASSUME NEW e \in Entity, Take(e) PROVE PlacesTyped'
    <3>1. FirstOwned(e) \in 1..Len(static_buffers)
      BY <2>1, <2>5, FirstOwnedExists DEF Take
    <3>2. Len(static_buffers') = Len(static_buffers) - 1
      BY <2>1, <2>5, <3>1, RemoveAtProperties DEF Take
    <3>3. Len(static_buffers') <= MaxHistory
      BY <2>1, <3>2, ExchangeAssumption DEF PlacesTyped
    <3> QED
      BY <2>5, <3>3 DEF Take, PlacesTyped, agent, guards
  <2>6. CASE ClearGuard
    BY <2>6 DEF ClearGuard, PlacesTyped, agent, taking
  <2>7. CASE WaitReturns
    BY <2>7 DEF WaitReturns, PlacesTyped, agent, taking, guards
  <2>8. ASSUME NEW g \in Guard, TriggerGuardCondition(g) PROVE PlacesTyped'
    BY <2>8 DEF TriggerGuardCondition, PlacesTyped, agent, taking
  <2>9. CASE \/ \E c \in Client : RmwSendRequest(c)
             \/ \E h \in headers : RmwSendResponse(h)
             \/ \E p \in Publisher : RmwPublish(p)
             \/ FlushEnds \/ ConfirmEnds \/ RunEnds \/ CheckEntities
             \/ \E m \in output : Lose(m)
             \/ \E t \in Asked : RmwWait(t)
             \/ \E g \in Guard : CheckGuard(g)
             \/ UNCHANGED vars
    <3>1. UNCHANGED << routed, static_buffers, ready, guards >>
      BY <2>9 DEF RmwSendRequest, RmwSendResponse, RmwPublish, FlushEnds,
         ConfirmEnds, RunEnds, CheckEntities, Lose, RmwWait, CheckGuard, vars,
         agent, taking
    <3> QED
      BY <2>2, <3>1
  <2> QED
    BY <2>3, <2>4, <2>5, <2>6, <2>7, <2>8, <2>9 DEF Next, Executor
<1> QED
  BY <1>1, <1>2, CallsAreShaped, RequestsStayKnown, SentStaysTyped, PTL
  DEF Spec

(* The parts make up the type invariant. *)
LEMMA TypesFollow ==
  ASSUME CallShape, RequestsKnown, SentTyped, PlacesTyped
  PROVE  TypeOK
<1>1. \A c, id, request : Asks(c, id, request) => request \in Request
  BY DEF SentTyped, Asks
<1>2. \A e, id, request :
        Fits(e, id, request) => e \in Entity /\ request \in Request
  BY <1>1 DEF Fits, About, Entity
<1>3. call.at \in
        {"app", "confirm", "flush", "run", "check", "guards", "clear"}
  BY DEF CallShape, App
<1>4. routed \subseteq [sample_id : [high : Nat, low : 0..(LowRange - 1),
                                     guid : {Guid[c] : c \in Client}],
                        client : Client, id : Nat]
  BY DEF PlacesTyped, Routes, Identity
<1>5. \A m \in to_device : m.to \in Entity /\ m.body \in Request
  BY <1>2 DEF RequestsKnown, InputKnown
<1>6. \A k \in DOMAIN static_buffers :
        /\ static_buffers[k].owner \in Entity
        /\ static_buffers[k].body \in Request
  BY <1>2 DEF RequestsKnown, BuffersKnown
<1>7. ASSUME NEW h \in headers
      PROVE  /\ h.service \in Service /\ h.request \in Request
             /\ h.header.writer_guid[1] \in -128..127
  <2>1. PICK r \in routed :
          h.header = HeaderOf(r.sample_id) /\ Asks(r.client, r.id, h.request)
    BY DEF RequestsKnown, HeadersKnown
  <2>2. r.sample_id.guid.entityKind \in 0..255
    BY ExchangeAssumption DEF RequestsKnown, RoutesDistinct
  <2>3. Signed(r.sample_id.guid.entityKind) \in -128..127
    BY <2>2 DEF Signed
  <2>4. h.header.writer_guid[1] = Signed(r.sample_id.guid.entityKind)
    BY <2>1 DEF HeaderOf
  <2> QED
    BY <1>1, <2>1, <2>3, <2>4 DEF RequestsKnown, HeadersKnown
<1>8. ASSUME NEW a \in answers
      PROVE  a.client \in Client /\ a.request \in Request
  BY <1>1 DEF RequestsKnown, AnswersKnown, Asks, SentTyped
<1> QED
  BY <1>3, <1>4, <1>5, <1>6, <1>7, <1>8
  DEF TypeOK, SentTyped, WorkLeft, PlacesTyped

(***************************************************************************)
(* The types of the variables: the walk of the buffers within its limit,   *)
(* identities within their widths, everything sent a part of the workload. *)
(***************************************************************************)
THEOREM Typing == Spec => []TypeOK
BY TypesFollow, CallsAreShaped, RequestsStayKnown, SentStaysTyped,
   PlacesStayTyped, PTL

-----------------------------------------------------------------------------
(* What WaitInTime needs to be inductive: in a wait with a timeout, each   *)
(* session that ran took no more than its share.                           *)
ShareTaken ==
  /\ call.at = "run" =>
       /\ call.session \in 1..Sessions
       /\ call.asked \in Asked /\ call.share \in Shares(call.asked)
       /\ call.asked # NoTimeout =>
            /\ call.elapsed \in Nat
            /\ call.elapsed <= (call.session - 1) * call.share
  /\ call.at = "check" =>
       call.asked = NoTimeout \/ call.elapsed <= Longest(call.asked)

(* The shares of the first i sessions, for i at most the number of them.   *)
LEMMA SharesAddUp ==
  ASSUME NEW n \in Nat, NEW i \in 1..n, NEW share \in Nat, NEW total \in Nat,
         n * share <= total, NEW spent \in Nat,
         spent <= (i - 1) * share,
         NEW more \in {0, share}
  PROVE  /\ spent + more <= i * share
         /\ spent + more <= total
<1>1. (i - 1) * share = i * share - share /\ share <= i * share
  <2>1. (i - 1) * share = i * share - share
    OBVIOUS
  <2>2. (i - 1) * share >= 0
    OBVIOUS
  <2> QED
    BY <2>1, <2>2
<1>2. i * share <= n * share
  <2>1. (n - i) * share >= 0
    OBVIOUS
  <2>2. (n - i) * share = n * share - i * share
    OBVIOUS
  <2> QED
    BY <2>1, <2>2
<1> DEFINE a == (i - 1) * share
           b == i * share
           c == n * share
<1>3. a \in Int /\ b \in Int /\ c \in Int
  OBVIOUS
<1> HIDE DEF a, b, c
<1>4. a = b - share /\ share <= b /\ b <= c /\ c <= total
      /\ spent <= a
  BY <1>1, <1>2 DEF a, b, c
<1>5. spent + more <= b /\ spent + more <= total
  BY <1>3, <1>4
<1> QED
  BY <1>5 DEF b

(***************************************************************************)
(* A wait with a timeout lasts no longer than asked, however many sessions *)
(* there are and whichever of them have data, early or late, wherever the  *)
(* arithmetic gives shares that are not negative and add up to no more:    *)
(* that is, not for one session and a timeout that float makes 2^31, where *)
(* SharesInTime is false and the wait need not end.                        *)
(***************************************************************************)
THEOREM WaitsEndInTime == ASSUME SharesInTime PROVE Spec => []WaitInTime
<1>1. Init => ShareTaken
  BY DEF Init, ShareTaken, App
<1>2. CallShape /\ ShareTaken /\ [Next]_vars => ShareTaken'
  <2> SUFFICES ASSUME CallShape, ShareTaken, [Next]_vars PROVE ShareTaken'
    OBVIOUS
  <2>1. CASE call' = call
    BY <2>1 DEF ShareTaken
  <2>2. CASE call'.at \notin {"run", "check"}
    BY <2>2 DEF ShareTaken
  <2>3. ASSUME NEW m \in to_device, OnData(m), call.at = "run"
        PROVE  ShareTaken'
    <3>1. PICK i, t, share, spent, data :
            call = [at |-> "run", session |-> i, asked |-> t,
                    share |-> share, elapsed |-> spent, data |-> data]
      BY <2>3 DEF CallShape, App
    <3>2. call' = [call EXCEPT !.data = TRUE]
      BY <2>3 DEF OnData
    <3>3. /\ call'.at = "run" /\ call'.session = i /\ call'.asked = t
          /\ call'.share = share /\ call'.elapsed = spent
      BY <3>1, <3>2
    <3> QED
      BY <3>1, <3>3 DEF ShareTaken
  <2>4. ASSUME NEW t \in Asked, RmwWait(t) PROVE ShareTaken'
    <3>1. PICK share \in Shares(t) :
            call' = [at |-> "run", session |-> 1, asked |-> t,
                     share |-> share, elapsed |-> 0, data |-> FALSE]
      BY <2>4 DEF RmwWait
    <3>2. /\ call'.at = "run" /\ call'.session = 1 /\ call'.asked = t
          /\ call'.share = share /\ call'.elapsed = 0
      BY <3>1
    <3>3. t # NoTimeout => 0 <= (1 - 1) * share
      BY DEF SharesInTime, Shares
    <3> QED
      BY <3>2, <3>3, ExchangeAssumption DEF ShareTaken
  <2>5. CASE RunEnds
    <3>1. PICK i, t, share, spent, data :
            call = [at |-> "run", session |-> i, asked |-> t,
                    share |-> share, elapsed |-> spent, data |-> data]
      BY <2>5 DEF RunEnds, CallShape, App
    <3>2. PICK more \in {0, LongestRun(share)} :
            call' = IF i < Sessions
                    THEN [call EXCEPT !.session = @ + 1, !.data = FALSE,
                                      !.elapsed = @ + more]
                    ELSE [at |-> "check", asked |-> t,
                          elapsed |-> spent + more]
      BY <2>5, <3>1 DEF RunEnds
    <3>3. /\ i \in 1..Sessions /\ t \in Asked /\ share \in Shares(t)
          /\ t # NoTimeout => spent \in Nat /\ spent <= (i - 1) * share
      BY <3>1 DEF ShareTaken
    <3>4. t # NoTimeout =>
            /\ spent + more \in Nat
            /\ spent + more <= i * share
            /\ spent + more <= Longest(t)
      <4> SUFFICES ASSUME t # NoTimeout
                   PROVE  /\ spent + more \in Nat
                          /\ spent + more <= i * share
                          /\ spent + more <= Longest(t)
        OBVIOUS
      <4>1. /\ share \in Nat /\ Longest(t) \in Nat
            /\ Sessions * share <= Longest(t)
        BY <3>3 DEF SharesInTime, Shares
      <4>2. more \in {0, share}
        BY <3>2, <4>1 DEF LongestRun
      <4> QED
        BY <3>3, <4>1, <4>2, SharesAddUp, ExchangeAssumption
    <3>5. CASE i < Sessions
      <4>1. call' = [at |-> "run", session |-> i + 1, asked |-> t,
                     share |-> share, elapsed |-> spent + more,
                     data |-> FALSE]
        BY <3>1, <3>2, <3>5
      <4>2. i + 1 \in 1..Sessions /\ (i + 1) - 1 = i
        BY <3>3, <3>5, ExchangeAssumption
      <4> QED
        BY <3>3, <3>4, <4>1, <4>2 DEF ShareTaken
    <3>6. CASE ~(i < Sessions)
      BY <3>2, <3>4, <3>6 DEF ShareTaken
    <3> QED
      BY <3>5, <3>6
  <2>6. ASSUME NEW e, NEW m, Send(e, m) PROVE call'.at \notin {"run", "check"}
    BY <2>6 DEF Send, App
  <2>7. ASSUME NEW p \in Publisher, RmwPublish(p) PROVE ShareTaken'
    BY <2>2, <2>6, <2>7 DEF RmwPublish, Publish
  <2>8. CASE FlushEnds
    BY <2>2, <2>6, <2>8 DEF FlushEnds, Publish, App
  <2>9. ASSUME NEW g \in Guard, CheckGuard(g) PROVE ShareTaken'
    <3>1. PICK rest, found :
            call = [at |-> "guards", left |-> rest, found |-> found]
      BY <2>9 DEF CheckGuard, CallShape, App
    <3>2. call'.at \notin {"run", "check"}
      BY <2>9, <3>1 DEF CheckGuard, GuardRead
    <3> QED
      BY <2>2, <3>2
  <2>10. ASSUME NEW m \in to_device, OnData(m) PROVE ShareTaken'
    BY <2>1, <2>3, <2>10 DEF OnData
  <2>11. CASE \/ \E c \in Client : RmwSendRequest(c)
              \/ \E h \in headers : RmwSendResponse(h)
    BY <2>2, <2>6, <2>11 DEF RmwSendRequest, RmwSendResponse
  <2>12. CASE ConfirmEnds \/ CheckEntities \/ ClearGuard \/ WaitReturns
    BY <2>2, <2>12 DEF ConfirmEnds, CheckEntities, ClearGuard, WaitReturns, App
  <2>13. CASE \/ \E e \in Entity : Take(e)
              \/ \E m \in output : AgentTakes(m) \/ Lose(m)
              \/ \E g \in Guard : TriggerGuardCondition(g)
              \/ UNCHANGED vars
    BY <2>1, <2>13 DEF Take, AgentTakes, Lose, TriggerGuardCondition, vars
  <2> QED
    BY <2>4, <2>5, <2>7, <2>8, <2>9, <2>10, <2>11, <2>12, <2>13
    DEF Next, Executor
<1>3. CallShape /\ ShareTaken => WaitInTime
  <2> SUFFICES ASSUME ShareTaken, call.at = "run", call.asked # NoTimeout
               PROVE  call.elapsed <= Longest(call.asked)
    BY DEF WaitInTime, ShareTaken
  <2> DEFINE i == call.session
             share == call.share
             spent == call.elapsed
             n == Sessions
             total == Longest(call.asked)
  <2>1. /\ n \in Nat /\ i \in 1..n /\ share \in Nat /\ total \in Nat
        /\ spent \in Nat /\ spent <= (i - 1) * share
        /\ n * share <= total
    BY ExchangeAssumption DEF ShareTaken, SharesInTime, Shares
  <2> HIDE DEF i, share, spent, n, total
  <2>2. spent + 0 <= total
    BY <2>1, SharesAddUp
  <2>3. spent <= total
    BY <2>1, <2>2
  <2> QED
    BY <2>3 DEF spent, total
<1> QED
  BY <1>1, <1>2, <1>3, CallsAreShaped, PTL DEF Spec

-----------------------------------------------------------------------------
(* The request is one that rmw_send_request took. *)
IsRequested(b) == \E r \in requested : r.request = b

(* A client's requests are told apart by what was left of its workload,    *)
(* and nothing else is ever on its way, taken or gone.                     *)
RequestsDistinct ==
  /\ \A r \in requested :
       \E n \in Nat : r.request = << r.client, n >> /\ left[r.client] < n
  /\ \A q, r \in requested : q.request = r.request => q = r
  /\ answers \subseteq requested
  /\ \A m \in output : m.from \in Client \cup Service \cup Publisher
  /\ \A b \in gone : IsRequested(b) \/ b \in Publication

(* A publication may go out; nothing happens to the requests. *)
OnlyPublishes ==
  /\ UNCHANGED << requested, routed, to_device, taking, gone >>
  /\ output \subseteq output'
  /\ \A m \in output' \ output :
       m.from \in Publisher /\ m.body \in Publication
  /\ \A c \in Client : left'[c] = left[c]

LEMMA TraceSteps ==
  ASSUME CallShape, SentTyped, [Next]_vars
  PROVE  \/ \E c \in Client : RmwSendRequest(c)
         \/ \E h \in headers : RmwSendResponse(h)
         \/ OnlyPublishes
         \/ \E m \in output : AgentTakes(m)
         \/ \E m \in output : Lose(m)
         \/ \E m \in to_device : OnData(m)
         \/ \E e \in Entity : Take(e)
<1>1. ASSUME NEW p \in Publisher, Publish(p), left[p] > 0,
             UNCHANGED << requested, routed, to_device, taking, gone >>
      PROVE  OnlyPublishes
  <2>1. << p, left[p] >> \in Publication
    BY <1>1, NextOfWorkload DEF SentTyped
  <2>2. /\ output' = output \cup
             {[from |-> p, id |-> last_request + 1, body |-> << p, left[p] >>]}
        /\ left' = [left EXCEPT ![p] = @ - 1]
    BY <1>1 DEF Publish, Send
  <2>3. \A c \in Client : left'[c] = left[c]
    BY <2>2, ExchangeAssumption DEF SentTyped, WorkLeft
  <2> QED
    BY <1>1, <2>1, <2>2, <2>3 DEF OnlyPublishes
<1>2. ASSUME NEW p \in Publisher, RmwPublish(p) PROVE OnlyPublishes
  <2>1. /\ left[p] > 0
        /\ UNCHANGED << requested, routed, to_device, taking, gone >>
    BY <1>2 DEF RmwPublish
  <2>2. CASE Publish(p)
    BY <1>1, <2>1, <2>2
  <2>3. CASE ~Publish(p)
    BY <1>2, <2>1, <2>3 DEF RmwPublish, OnlyPublishes
  <2> QED
    BY <2>2, <2>3
<1>3. CASE FlushEnds
  <2>1. call.publisher \in Publisher /\ left[call.publisher] > 0
    BY <1>3 DEF FlushEnds, CallShape, App, SentTyped
  <2>2. UNCHANGED << requested, routed, to_device, taking, gone >>
    BY <1>3 DEF FlushEnds
  <2>3. CASE Publish(call.publisher)
    BY <1>1, <2>1, <2>2, <2>3
  <2>4. CASE ~Publish(call.publisher)
    BY <1>3, <2>2, <2>4 DEF FlushEnds, OnlyPublishes
  <2> QED
    BY <2>3, <2>4
<1>4. CASE UNCHANGED << messages, gone, left >>
  BY <1>4 DEF OnlyPublishes, messages
<1>5. ASSUME NEW g \in Guard, TriggerGuardCondition(g)
      PROVE  UNCHANGED << messages, gone, left >>
  BY <1>5 DEF TriggerGuardCondition, messages, sending, agent
<1> QED
  BY <1>2, <1>3, <1>4, <1>5
  DEF Next, Executor, vars, sending, agent, messages, RmwWait, RunEnds,
      CheckEntities, CheckGuard, ClearGuard, WaitReturns, ConfirmEnds

(* What is in a buffer, with the agent, or kept for an answer, was asked.  *)
LEMMA BodiesRequested ==
  ASSUME RequestsKnown
  PROVE  /\ \A m \in output :
              m.from \in Client \cup Service => IsRequested(m.body)
         /\ \A m \in to_device : IsRequested(m.body)
         /\ \A k \in DOMAIN static_buffers :
              IsRequested(static_buffers[k].body)
         /\ \A h \in headers : IsRequested(h.request)
         /\ \A a \in answers : IsRequested(a.request)
<1>1. \A c, id, b : Asks(c, id, b) => IsRequested(b)
  BY DEF Asks, IsRequested
<1>2. \A id, b : About(id, b) => IsRequested(b)
  BY <1>1 DEF About
<1>3. \A e, id, b : Fits(e, id, b) => IsRequested(b)
  BY <1>1, <1>2 DEF Fits, Entity
<1>4. DOMAIN static_buffers = 1..Len(static_buffers)
  BY DEF RequestsKnown, BuffersKnown
<1> QED
  BY <1>1, <1>2, <1>3, <1>4
  DEF RequestsKnown, OutputKnown, InputKnown, BuffersKnown, HeadersKnown,
      AnswersKnown

LEMMA RequestsStayDistinct == Spec => []RequestsDistinct
<1>1. Init => RequestsDistinct
  BY DEF Init, RequestsDistinct
<1>2. /\ CallShape /\ RequestsKnown /\ SentTyped
      /\ RequestsDistinct /\ [Next]_vars
      => RequestsDistinct'
  <2> SUFFICES ASSUME CallShape, RequestsKnown, SentTyped,
                      RequestsDistinct, [Next]_vars
               PROVE  RequestsDistinct'
    OBVIOUS
  <2>1. ASSUME requested' = requested,
               \A c \in Client : left'[c] = left[c],
               answers' \subseteq requested,
               \A m \in output' \ output :
                 m.from \in Client \cup Service \cup Publisher,
               \A b \in gone' \ gone : IsRequested(b) \/ b \in Publication
        PROVE  RequestsDistinct'
    <3>1. \A r \in requested : r.client \in Client
      BY DEF SentTyped
    <3>2. \A b : IsRequested(b)' = IsRequested(b)
      BY <2>1 DEF IsRequested
    <3> QED
      BY <2>1, <3>1, <3>2 DEF RequestsDistinct
  <2>2. ASSUME NEW c \in Client, RmwSendRequest(c) PROVE RequestsDistinct'
    <3> DEFINE b == << c, left[c] >>
               new == [client |-> c, sequence_id |-> last_request + 1,
                       request |-> b]
    <3>1. /\ left' = [left EXCEPT ![c] = @ - 1] /\ left[c] > 0
          /\ requested' = requested \cup {new}
          /\ output' = output \cup
               {[from |-> c, id |-> last_request + 1, body |-> b]}
          /\ UNCHANGED << answers, gone >>
      BY <2>2 DEF RmwSendRequest, Send, taking
    <3>2. left[c] \in Nat /\ left'[c] < left[c]
          /\ \A d \in Client : d # c => left'[d] = left[d]
      BY <3>1 DEF SentTyped, WorkLeft
    <3>3. \A r \in requested : r.request # b /\ r.client \in Client
      BY <3>2 DEF RequestsDistinct, SentTyped
    <3>4. ASSUME NEW r \in requested
          PROVE  \E n \in Nat :
                   r.request = << r.client, n >> /\ left'[r.client] < n
      <4>1. PICK n \in Nat : r.request = << r.client, n >>
                               /\ left[r.client] < n
        BY DEF RequestsDistinct
      <4>2. left'[r.client] < n
        <5>1. left'[r.client] \in Int /\ left[r.client] \in Nat
              /\ left'[r.client] <= left[r.client]
          BY <3>1, <3>2, <3>3 DEF SentTyped, WorkLeft
        <5> QED
          BY <4>1, <5>1
      <4> QED
        BY <4>1, <4>2
    <3>5. \A d : IsRequested(d) => IsRequested(d)'
      BY <3>1 DEF IsRequested
    <3>6. \A r \in requested' :
            \E n \in Nat : r.request = << r.client, n >>
                             /\ left'[r.client] < n
      BY <3>1, <3>2, <3>4
    <3>7. \A q, r \in requested' : q.request = r.request => q = r
      BY <3>1, <3>3 DEF RequestsDistinct
    <3> QED
      BY <3>1, <3>5, <3>6, <3>7 DEF RequestsDistinct
  <2>3. ASSUME NEW h \in headers, RmwSendResponse(h) PROVE RequestsDistinct'
    <3>1. /\ output' = output \cup
               {[from |-> h.service, id |-> last_request + 1,
                 sample_id |-> SampleIdentityOf(h.header),
                 body |-> h.request]}
          /\ UNCHANGED << requested, left, answers, gone >>
      BY <2>3 DEF RmwSendResponse, Send
    <3>2. h.service \in Service
      BY DEF RequestsKnown, HeadersKnown
    <3> QED
      BY <2>1, <3>1, <3>2 DEF RequestsDistinct
  <2>4. CASE OnlyPublishes
    BY <2>1, <2>4 DEF OnlyPublishes, taking, RequestsDistinct
  <2>5. ASSUME NEW m \in output, AgentTakes(m) PROVE RequestsDistinct'
    BY <2>1, <2>5 DEF AgentTakes, sending, taking, RequestsDistinct
  <2>6. ASSUME NEW m \in output, Lose(m) PROVE RequestsDistinct'
    <3>1. IsRequested(m.body) \/ m.body \in Publication
      BY BodiesRequested DEF RequestsDistinct, SentTyped
    <3> QED
      BY <2>1, <2>6, <3>1 DEF Lose, sending, taking, RequestsDistinct
  <2>7. ASSUME NEW m \in to_device, OnData(m) PROVE RequestsDistinct'
    <3>1. IsRequested(m.body)
      BY BodiesRequested
    <3>2. /\ UNCHANGED << requested, left, answers, output >>
          /\ gone' \subseteq gone \cup {m.body}
      BY <2>7 DEF OnData, sending
    <3> QED
      BY <2>1, <3>1, <3>2 DEF RequestsDistinct
  <2>8. ASSUME NEW e \in Entity, Take(e) PROVE RequestsDistinct'
    <3> DEFINE f == static_buffers[FirstOwned(e)]
    <3>1. PICK S : static_buffers \in Seq(S)
      BY DEF RequestsKnown, BuffersKnown
    <3>2. FirstOwned(e) \in 1..Len(static_buffers) /\ f.owner = e
      BY <2>8, <3>1, FirstOwnedExists DEF Take
    <3>3. e \in Client => Asks(e, f.related, f.body)
      BY <3>2 DEF RequestsKnown, BuffersKnown, Fits
    <3>4. /\ UNCHANGED << requested, left, output >>
          /\ gone' \subseteq gone \cup {f.body}
          /\ answers' = answers
               \/ /\ e \in Client
                  /\ answers' = answers \cup
                       {[client |-> e, sequence_id |-> f.related,
                         request |-> f.body]}
      BY <2>8 DEF Take, Taken, NotTaken, sending
    <3>5. answers' \subseteq requested
      BY <3>3, <3>4 DEF Asks, RequestsDistinct
    <3>6. IsRequested(f.body)
      BY <3>2, BodiesRequested
    <3> HIDE DEF f
    <3> QED
      BY <2>1, <3>4, <3>5, <3>6 DEF RequestsDistinct
  <2> QED
    BY <2>2, <2>3, <2>4, <2>5, <2>6, <2>7, <2>8, TraceSteps
<1> QED
  BY <1>1, <1>2, CallsAreShaped, RequestsStayKnown, SentStaysTyped, PTL
  DEF Spec

-----------------------------------------------------------------------------
(* Where the request b is on its way (see Traces). *)
OutputOf(b)  == {m \in output : m.body = b}
InputOf(b)   == {m \in to_device : m.body = b}
BuffersOf(b) == {k \in DOMAIN static_buffers : static_buffers[k].body = b}
HeadersOf(b) == {h \in headers : h.request = b}
AnswersOf(b) == {a \in answers : a.request = b}

Single(S) == \E x : S = {x}

(* One of five sets has one member and the others have none. *)
OneOf(O, I, B, H, A) ==
  \/ Single(O) /\ I = {} /\ B = {} /\ H = {} /\ A = {}
  \/ O = {} /\ Single(I) /\ B = {} /\ H = {} /\ A = {}
  \/ O = {} /\ I = {} /\ Single(B) /\ H = {} /\ A = {}
  \/ O = {} /\ I = {} /\ B = {} /\ Single(H) /\ A = {}
  \/ O = {} /\ I = {} /\ B = {} /\ H = {} /\ Single(A)

NowhereFound(b) ==
  /\ OutputOf(b) = {} /\ InputOf(b) = {} /\ BuffersOf(b) = {}
  /\ HeadersOf(b) = {} /\ AnswersOf(b) = {}

OnceFound(b) ==
  OneOf(OutputOf(b), InputOf(b), BuffersOf(b), HeadersOf(b), AnswersOf(b))

(* What NeitherLostNorDoubled says, place by place. *)
InOnePlace(b) == IF b \in gone THEN NowhereFound(b) ELSE OnceFound(b)

PlacesCounted == \A r \in requested : InOnePlace(r.request)

(* A request that is found in one place is found in no other. *)
LEMMA FoundThere ==
  ASSUME NEW b, InOnePlace(b)
  PROVE  /\ \A m \in OutputOf(b) :
              /\ b \notin gone /\ OutputOf(b) = {m} /\ InputOf(b) = {}
              /\ BuffersOf(b) = {} /\ HeadersOf(b) = {} /\ AnswersOf(b) = {}
         /\ \A m \in InputOf(b) :
              /\ b \notin gone /\ OutputOf(b) = {} /\ InputOf(b) = {m}
              /\ BuffersOf(b) = {} /\ HeadersOf(b) = {} /\ AnswersOf(b) = {}
         /\ \A k \in BuffersOf(b) :
              /\ b \notin gone /\ OutputOf(b) = {} /\ InputOf(b) = {}
              /\ BuffersOf(b) = {k} /\ HeadersOf(b) = {} /\ AnswersOf(b) = {}
         /\ \A h \in HeadersOf(b) :
              /\ b \notin gone /\ OutputOf(b) = {} /\ InputOf(b) = {}
              /\ BuffersOf(b) = {} /\ HeadersOf(b) = {h} /\ AnswersOf(b) = {}
<1> DEFINE O == OutputOf(b)
           I == InputOf(b)
           B == BuffersOf(b)
           H == HeadersOf(b)
           A == AnswersOf(b)
<1>1. \/ b \in gone /\ O = {} /\ I = {} /\ B = {} /\ H = {} /\ A = {}
      \/ b \notin gone /\ OneOf(O, I, B, H, A)
  BY DEF InOnePlace, NowhereFound, OnceFound
<1> HIDE DEF O, I, B, H, A
<1>2. /\ \A m \in O : /\ b \notin gone /\ O = {m} /\ I = {}
                      /\ B = {} /\ H = {} /\ A = {}
      /\ \A m \in I : /\ b \notin gone /\ O = {} /\ I = {m}
                      /\ B = {} /\ H = {} /\ A = {}
      /\ \A m \in B : /\ b \notin gone /\ O = {} /\ I = {}
                      /\ B = {m} /\ H = {} /\ A = {}
      /\ \A m \in H : /\ b \notin gone /\ O = {} /\ I = {}
                      /\ B = {} /\ H = {m} /\ A = {}
  BY <1>1 DEF OneOf, Single
<1> QED
  BY <1>2 DEF O, I, B, H, A

(* A request that is where it was, in any number of buffers pushed on. *)
LEMMA StaysInPlace ==
  ASSUME NEW b, InOnePlace(b), b \in gone' <=> b \in gone,
         OutputOf(b)' = OutputOf(b), InputOf(b)' = InputOf(b),
         HeadersOf(b)' = HeadersOf(b), AnswersOf(b)' = AnswersOf(b),
         BuffersOf(b) = {} => BuffersOf(b)' = {},
         \A k : BuffersOf(b) = {k} => Single(BuffersOf(b)')
  PROVE  InOnePlace(b)'
<1> DEFINE O == OutputOf(b)
           I == InputOf(b)
           B == BuffersOf(b)
           H == HeadersOf(b)
           A == AnswersOf(b)
           C == BuffersOf(b)'
<1>1. /\ IF b \in gone THEN O = {} /\ I = {} /\ B = {} /\ H = {} /\ A = {}
         ELSE OneOf(O, I, B, H, A)
      /\ B = {} => C = {}
      /\ Single(B) => Single(C)
  BY DEF InOnePlace, NowhereFound, OnceFound, Single
<1> HIDE DEF O, I, B, H, A, C
<1>2. IF b \in gone THEN O = {} /\ I = {} /\ C = {} /\ H = {} /\ A = {}
      ELSE OneOf(O, I, C, H, A)
  BY <1>1 DEF OneOf
<1> QED
  BY <1>2 DEF O, I, H, A, C, InOnePlace, NowhereFound, OnceFound

(* The buffers of a request when one more is put before them. *)
LEMMA BuffersPushed ==
  ASSUME NEW S, static_buffers \in Seq(S), NEW x, NEW b,
         static_buffers' = << x >> \o static_buffers
  PROVE  BuffersOf(b)' =
           (IF x.body = b THEN {1} ELSE {}) \cup {k + 1 : k \in BuffersOf(b)}
<1> DEFINE n == Len(static_buffers)
           T == S \cup {x}
<1>1. static_buffers \in Seq(T) /\ x \in T /\ n \in Nat
  BY SeqOfMore
<1> HIDE DEF T
<1>2. /\ static_buffers' \in Seq(T)
      /\ Len(static_buffers') = n + 1
      /\ static_buffers'[1] = x
      /\ \A j \in 1..n : static_buffers'[j + 1] = static_buffers[j]
  BY <1>1, ConsProperties
<1>3. DOMAIN static_buffers' = 1..(n + 1) /\ DOMAIN static_buffers = 1..n
  BY <1>1, <1>2
<1>4. \A k \in 1..(n + 1) :
        \/ k = 1
        \/ k - 1 \in 1..n /\ (k - 1) + 1 = k
  BY <1>1
<1>5. ASSUME NEW k \in 1..(n + 1), static_buffers'[k].body = b
      PROVE  \/ k = 1 /\ x.body = b
             \/ k - 1 \in BuffersOf(b) /\ (k - 1) + 1 = k
  BY <1>2, <1>3, <1>4, <1>5 DEF BuffersOf
<1>6. ASSUME NEW k \in BuffersOf(b) PROVE k + 1 \in BuffersOf(b)'
  <2>1. k \in 1..n /\ static_buffers[k].body = b
    BY <1>3 DEF BuffersOf
  <2>2. k + 1 \in 1..(n + 1)
    BY <1>1, <2>1
  <2> QED
    BY <1>2, <1>3, <2>1, <2>2 DEF BuffersOf
<1>7. x.body = b => 1 \in BuffersOf(b)'
  <2>1. 1 \in 1..(n + 1)
    BY <1>1
  <2> QED
    BY <1>2, <1>3, <2>1 DEF BuffersOf
<1>8. BuffersOf(b)' = {k \in 1..(n + 1) : static_buffers'[k].body = b}
  BY <1>3 DEF BuffersOf
<1> QED
  BY <1>5, <1>6, <1>7, <1>8

(* The buffers of a request when one is taken out. *)
LEMMA BuffersTaken ==
  ASSUME NEW S, static_buffers \in Seq(S), NEW f \in 1..Len(static_buffers),
         NEW b, static_buffers' = RemoveAt(static_buffers, f)
  PROVE  BuffersOf(b)' =
           {IF k < f THEN k ELSE k - 1 : k \in BuffersOf(b) \ {f}}
<1> DEFINE n == Len(static_buffers)
<1>1. /\ n \in Nat /\ f \in 1..n
      /\ Len(static_buffers') = n - 1 /\ static_buffers' \in Seq(S)
      /\ \A j \in 1..(n - 1) : static_buffers'[j] =
           IF j < f THEN static_buffers[j] ELSE static_buffers[j + 1]
  <2> DEFINE v == RemoveAt(static_buffers, f)
  <2>1. /\ v \in Seq(S) /\ Len(v) = n - 1
        /\ \A j \in 1..(n - 1) :
             v[j] = IF j < f THEN static_buffers[j] ELSE static_buffers[j + 1]
    BY RemoveAtProperties
  <2>2. static_buffers' = v /\ n \in Nat
    OBVIOUS
  <2> HIDE DEF v
  <2> QED
    BY <2>1, <2>2
<1>2. DOMAIN static_buffers' = 1..(n - 1) /\ DOMAIN static_buffers = 1..n
  BY <1>1
<1> HIDE DEF n
<1>3. BuffersOf(b)' = {k \in 1..(n - 1) : static_buffers'[k].body = b}
  BY <1>2 DEF BuffersOf
<1>4. BuffersOf(b) = {k \in 1..n : static_buffers[k].body = b}
  BY <1>2 DEF BuffersOf
<1>5. ASSUME NEW j \in 1..(n - 1), static_buffers'[j].body = b
      PROVE  \E k \in BuffersOf(b) \ {f} : j = IF k < f THEN k ELSE k - 1
  <2>1. CASE j < f
    <3>1. j \in 1..n /\ j # f
      BY <1>1, <2>1
    <3>2. j \in BuffersOf(b)
      BY <1>1, <1>4, <1>5, <2>1, <3>1
    <3> QED
      BY <2>1, <3>1, <3>2
  <2>2. CASE ~(j < f)
    <3>1. j + 1 \in 1..n /\ j + 1 # f /\ ~(j + 1 < f) /\ (j + 1) - 1 = j
      BY <1>1, <2>2
    <3>2. j + 1 \in BuffersOf(b)
      BY <1>1, <1>4, <1>5, <2>2, <3>1
    <3> QED
      BY <3>1, <3>2
  <2> QED
    BY <2>1, <2>2
<1>6. ASSUME NEW k \in BuffersOf(b) \ {f}
      PROVE  (IF k < f THEN k ELSE k - 1) \in BuffersOf(b)'
  <2>1. k \in 1..n /\ k # f /\ static_buffers[k].body = b
    BY <1>4, <1>6
  <2>2. CASE k < f
    <3>1. k \in 1..(n - 1)
      BY <1>1, <2>1, <2>2
    <3> QED
      BY <1>1, <1>3, <2>1, <2>2, <3>1
  <2>3. CASE ~(k < f)
    <3>1. k - 1 \in 1..(n - 1) /\ ~(k - 1 < f) /\ (k - 1) + 1 = k
      BY <1>1, <2>1, <2>3
    <3>2. static_buffers'[k - 1] = static_buffers[k]
      BY <1>1, <3>1
    <3> QED
      BY <1>3, <2>1, <2>3, <3>1, <3>2
  <2> QED
    BY <2>2, <2>3
<1> QED
  BY <1>3, <1>5, <1>6

(* What a client sends is not a publication. *)
LEMMA NoPublication ==
  ASSUME NEW c \in Client, NEW n
  PROVE  << c, n >> \notin Publication
<1> SUFFICES ASSUME << c, n >> \in Publication PROVE FALSE
  OBVIOUS
<1> DEFINE Of(p, w) == {<< p, k >> : k \in 1..w[p]}
<1>1. Publication = UNION {Of(p, w) : p \in Publisher, w \in Workload}
  BY DEF Publication, Sent
<1> HIDE DEF Of
<1>2. PICK p \in Publisher, w \in Workload : << c, n >> \in Of(p, w)
  BY <1>1
<1>3. c = p
  BY <1>2 DEF Of
<1> QED
  BY <1>3, ExchangeAssumption

(* No message, buffer or header of a request exists before it is sent. *)
LEMMA NewIsNowhere ==
  ASSUME RequestsKnown, SentTyped, RequestsDistinct,
         NEW c \in Client, left[c] > 0
  PROVE  /\ NowhereFound(<< c, left[c] >>)
         /\ << c, left[c] >> \notin gone
         /\ \A r \in requested : r.request # << c, left[c] >>
<1> DEFINE b == << c, left[c] >>
<1>1. \A r \in requested : r.request # b
  BY DEF RequestsDistinct, SentTyped, WorkLeft
<1>2. ~IsRequested(b)
  BY <1>1 DEF IsRequested
<1>3. b \notin Publication
  BY NoPublication
<1> HIDE DEF b
<1>4. OutputOf(b) = {}
  BY <1>2, <1>3, BodiesRequested DEF OutputOf, RequestsDistinct, SentTyped
<1>5. InputOf(b) = {} /\ HeadersOf(b) = {} /\ AnswersOf(b) = {}
  BY <1>2, BodiesRequested DEF InputOf, HeadersOf, AnswersOf
<1>6. BuffersOf(b) = {}
  BY <1>2, BodiesRequested DEF BuffersOf
<1>7. b \notin gone
  BY <1>2, <1>3 DEF RequestsDistinct
<1> QED
  BY <1>1, <1>4, <1>5, <1>6, <1>7 DEF NowhereFound, b

LEMMA PlacesStayCounted == Spec => []PlacesCounted
<1>1. Init => PlacesCounted
  BY DEF Init, PlacesCounted
<1>2. /\ CallShape /\ RequestsKnown /\ SentTyped /\ RequestsDistinct
      /\ PlacesCounted /\ [Next]_vars
      => PlacesCounted'
  <2> SUFFICES ASSUME CallShape, RequestsKnown, SentTyped, RequestsDistinct,
                      PlacesCounted, [Next]_vars
               PROVE  PlacesCounted'
    OBVIOUS
  <2>1. ASSUME NEW r \in requested
        PROVE  InOnePlace(r.request) /\ r.request \notin Publication
    <3>1. PICK n \in Nat : r.request = << r.client, n >>
      BY DEF RequestsDistinct
    <3>2. r.client \in Client
      BY DEF SentTyped
    <3> QED
      BY <3>1, <3>2, NoPublication DEF PlacesCounted
  <2>2. ASSUME NEW c \in Client, RmwSendRequest(c) PROVE PlacesCounted'
    <3>0. PICK b : b = << c, left[c] >>
      OBVIOUS
    <3> DEFINE new == [from |-> c, id |-> last_request + 1, body |-> b]
    <3>1. /\ output' = output \cup {new} /\ left[c] > 0
          /\ requested' = requested \cup
               {[client |-> c, sequence_id |-> last_request + 1,
                 request |-> b]}
          /\ UNCHANGED << to_device, static_buffers, headers, answers, gone >>
      BY <2>2, <3>0 DEF RmwSendRequest, Send, taking
    <3>2. /\ NowhereFound(b) /\ b \notin gone
          /\ \A r \in requested : r.request # b
      BY <3>0, <3>1, NewIsNowhere
    <3>3. InOnePlace(b)'
      <4>1. OutputOf(b)' = {new}
        BY <3>1, <3>2 DEF NowhereFound, OutputOf
      <4>2. /\ InputOf(b)' = {} /\ BuffersOf(b)' = {}
            /\ HeadersOf(b)' = {} /\ AnswersOf(b)' = {}
        BY <3>1, <3>2
        DEF NowhereFound, InputOf, BuffersOf, HeadersOf, AnswersOf
      <4> HIDE DEF new
      <4> QED
        BY <3>1, <3>2, <4>1, <4>2 DEF InOnePlace, OnceFound, OneOf, Single
    <3>4. ASSUME NEW r \in requested PROVE InOnePlace(r.request)'
      <4>0. PICK d : d = r.request
        OBVIOUS
      <4>1. InOnePlace(d) /\ d # b
        BY <2>1, <3>2, <4>0
      <4>2. /\ OutputOf(d)' = OutputOf(d) /\ InputOf(d)' = InputOf(d)
            /\ HeadersOf(d)' = HeadersOf(d) /\ AnswersOf(d)' = AnswersOf(d)
            /\ BuffersOf(d)' = BuffersOf(d)
        BY <3>1, <4>1
        DEF OutputOf, InputOf, HeadersOf, AnswersOf, BuffersOf
      <4>3. InOnePlace(d)'
        BY <3>1, <4>1, <4>2, StaysInPlace DEF Single
      <4> QED
        BY <4>0, <4>3
    <3> QED
      BY <3>1, <3>3, <3>4 DEF PlacesCounted
  <2>3. ASSUME NEW h \in headers, RmwSendResponse(h) PROVE PlacesCounted'
    <3>0. PICK new : new = [from |-> h.service, id |-> last_request + 1,
                            sample_id |-> SampleIdentityOf(h.header),
                            body |-> h.request]
      OBVIOUS
    <3>1. /\ output' = output \cup {new} /\ headers' = headers \ {h}
          /\ new.body = h.request
          /\ UNCHANGED << requested, to_device, static_buffers, answers,
                          gone >>
      BY <2>3, <3>0 DEF RmwSendResponse, Send
    <3>2. ASSUME NEW r \in requested PROVE InOnePlace(r.request)'
      <4>0. PICK d : d = r.request
        OBVIOUS
      <4>1. InOnePlace(d)
        BY <2>1, <4>0
      <4>2. /\ InputOf(d)' = InputOf(d) /\ AnswersOf(d)' = AnswersOf(d)
            /\ BuffersOf(d)' = BuffersOf(d)
        BY <3>1 DEF InputOf, AnswersOf, BuffersOf
      <4>3. CASE d = h.request
        <5>1. h \in HeadersOf(d)
          BY <4>3 DEF HeadersOf
        <5>2. /\ d \notin gone /\ OutputOf(d) = {} /\ InputOf(d) = {}
              /\ BuffersOf(d) = {} /\ HeadersOf(d) = {h} /\ AnswersOf(d) = {}
          BY <4>1, <5>1, FoundThere
        <5>3. OutputOf(d)' = {new}
          BY <3>1, <4>3, <5>2 DEF OutputOf
        <5>4. HeadersOf(d)' = {}
          BY <3>1, <5>2 DEF HeadersOf
        <5> QED
          BY <3>1, <4>0, <4>2, <5>2, <5>3, <5>4
          DEF InOnePlace, OnceFound, OneOf, Single
      <4>4. CASE d # h.request
        <5>1. OutputOf(d)' = OutputOf(d) /\ HeadersOf(d)' = HeadersOf(d)
          BY <3>1, <4>4 DEF OutputOf, HeadersOf
        <5>2. InOnePlace(d)'
          BY <3>1, <4>1, <4>2, <5>1, StaysInPlace DEF Single
        <5> QED
          BY <4>0, <5>2
      <4> QED
        BY <4>3, <4>4
    <3> QED
      BY <3>1, <3>2 DEF PlacesCounted
  <2>4. CASE OnlyPublishes
    <3>1. ASSUME NEW r \in requested PROVE InOnePlace(r.request)'
      <4>0. PICK d : d = r.request
        OBVIOUS
      <4>1. InOnePlace(d) /\ d \notin Publication
        BY <2>1, <4>0
      <4>2. OutputOf(d)' = OutputOf(d)
        BY <2>4, <4>1 DEF OnlyPublishes, OutputOf
      <4>3. /\ InputOf(d)' = InputOf(d) /\ HeadersOf(d)' = HeadersOf(d)
            /\ AnswersOf(d)' = AnswersOf(d) /\ BuffersOf(d)' = BuffersOf(d)
            /\ gone' = gone
        BY <2>4 DEF OnlyPublishes, taking, InputOf, HeadersOf, AnswersOf,
           BuffersOf
      <4>4. InOnePlace(d)'
        BY <4>1, <4>2, <4>3, StaysInPlace DEF Single
      <4> QED
        BY <4>0, <4>4
    <3> QED
      BY <2>4, <3>1 DEF OnlyPublishes, PlacesCounted
  <2>5. ASSUME NEW m \in output, AgentTakes(m) PROVE PlacesCounted'
    <3>1. /\ output' = output \ {m}
          /\ UNCHANGED << requested, static_buffers, headers, answers, gone >>
      BY <2>5 DEF AgentTakes, sending, taking
    <3>2. /\ \A d : d # m.body => InputOf(d)' = InputOf(d)
          /\ IsRequested(m.body) /\ InputOf(m.body) = {} =>
               Single(InputOf(m.body)')
      <4>1. CASE m.from \in Client
        <5>1. PICK id : to_device' = to_device \cup
                {[to |-> ServiceOf[m.from], related |-> id, body |-> m.body]}
          BY <2>5, <4>1, ExchangeAssumption DEF AgentTakes
        <5>2. PICK new : new.body = m.body
                           /\ to_device' = to_device \cup {new}
          BY <5>1
        <5>3. \A d : d # m.body => InputOf(d)' = InputOf(d)
          BY <5>2 DEF InputOf
        <5>4. InputOf(m.body) = {} => InputOf(m.body)' = {new}
          BY <5>2 DEF InputOf
        <5> QED
          BY <5>3, <5>4 DEF Single
      <4>2. CASE m.from \in Service
        <5> DEFINE Reply(r) == [to |-> r.client, related |-> r.id,
                                body |-> m.body]
        <5>1. to_device' = to_device \cup
                {Reply(r) : r \in {q \in routed : q.sample_id = m.sample_id}}
          BY <2>5, <4>2, ExchangeAssumption DEF AgentTakes
        <5>2. PICK r \in routed :
                r.sample_id = m.sample_id /\ Asks(r.client, r.id, m.body)
          BY <4>2 DEF RequestsKnown, OutputKnown, About
        <5>3. {q \in routed : q.sample_id = m.sample_id} = {r}
          BY <5>2 DEF RequestsKnown, RoutesDistinct
        <5>4. to_device' = to_device \cup {Reply(r)}
          <6> HIDE DEF Reply
          <6> QED
            BY <5>1, <5>3
        <5>5. Reply(r).body = m.body
          OBVIOUS
        <5> HIDE DEF Reply
        <5> QED
          BY <5>4, <5>5 DEF InputOf, Single
      <4>3. CASE m.from \in Publisher
        <5>1. to_device' = to_device
          BY <2>5, <4>3, ExchangeAssumption DEF AgentTakes
        <5>2. ~IsRequested(m.body)
          BY <2>1, <4>3 DEF SentTyped, IsRequested
        <5> QED
          BY <5>1, <5>2 DEF InputOf
      <4> QED
        BY <4>1, <4>2, <4>3 DEF RequestsDistinct
    <3>3. ASSUME NEW r \in requested PROVE InOnePlace(r.request)'
      <4>0. PICK d : d = r.request
        OBVIOUS
      <4>1. InOnePlace(d) /\ IsRequested(d)
        BY <2>1, <4>0 DEF IsRequested
      <4>2. /\ HeadersOf(d)' = HeadersOf(d) /\ AnswersOf(d)' = AnswersOf(d)
            /\ BuffersOf(d)' = BuffersOf(d)
        BY <3>1 DEF HeadersOf, AnswersOf, BuffersOf
      <4>3. CASE d = m.body
        <5>1. m \in OutputOf(d)
          BY <4>3 DEF OutputOf
        <5>2. /\ d \notin gone /\ OutputOf(d) = {m} /\ InputOf(d) = {}
              /\ BuffersOf(d) = {} /\ HeadersOf(d) = {} /\ AnswersOf(d) = {}
          BY <4>1, <5>1, FoundThere
        <5>3. OutputOf(d)' = {} /\ Single(InputOf(d)')
          BY <3>1, <3>2, <4>1, <4>3, <5>2 DEF OutputOf
        <5> QED
          BY <3>1, <4>0, <4>2, <5>2, <5>3 DEF InOnePlace, OnceFound, OneOf
      <4>4. CASE d # m.body
        <5>1. OutputOf(d)' = OutputOf(d) /\ InputOf(d)' = InputOf(d)
          BY <3>1, <3>2, <4>4 DEF OutputOf
        <5>2. InOnePlace(d)'
          BY <3>1, <4>1, <4>2, <5>1, StaysInPlace DEF Single
        <5> QED
          BY <4>0, <5>2
      <4> QED
        BY <4>3, <4>4
    <3> QED
      BY <3>1, <3>3 DEF PlacesCounted
  <2>6. ASSUME NEW m \in output, Lose(m) PROVE PlacesCounted'
    <3>1. /\ output' = output \ {m} /\ gone' = gone \cup {m.body}
          /\ UNCHANGED << requested, to_device, static_buffers, headers,
                          answers >>
      BY <2>6 DEF Lose, sending, taking
    <3>2. ASSUME NEW r \in requested PROVE InOnePlace(r.request)'
      <4>0. PICK d : d = r.request
        OBVIOUS
      <4>1. InOnePlace(d)
        BY <2>1, <4>0
      <4>2. /\ HeadersOf(d)' = HeadersOf(d) /\ AnswersOf(d)' = AnswersOf(d)
            /\ BuffersOf(d)' = BuffersOf(d) /\ InputOf(d)' = InputOf(d)
        BY <3>1 DEF HeadersOf, AnswersOf, BuffersOf, InputOf
      <4>3. CASE d = m.body
        <5>1. m \in OutputOf(d)
          BY <4>3 DEF OutputOf
        <5>2. /\ d \notin gone /\ OutputOf(d) = {m} /\ InputOf(d) = {}
              /\ BuffersOf(d) = {} /\ HeadersOf(d) = {} /\ AnswersOf(d) = {}
          BY <4>1, <5>1, FoundThere
        <5>3. OutputOf(d)' = {} /\ d \in gone'
          BY <3>1, <4>3, <5>2 DEF OutputOf
        <5> QED
          BY <4>0, <4>2, <5>2, <5>3 DEF InOnePlace, NowhereFound
      <4>4. CASE d # m.body
        <5>1. OutputOf(d)' = OutputOf(d)
          BY <3>1, <4>4 DEF OutputOf
        <5>2. d \in gone' <=> d \in gone
          BY <3>1, <4>4
        <5>3. InOnePlace(d)'
          BY <4>1, <4>2, <5>1, <5>2, StaysInPlace DEF Single
        <5> QED
          BY <4>0, <5>3
      <4> QED
        BY <4>3, <4>4
    <3> QED
      BY <3>1, <3>2 DEF PlacesCounted
  <2>7. ASSUME NEW m \in to_device, OnData(m) PROVE PlacesCounted'
    <3>0. PICK x : x = [owner |-> m.to, related |-> m.related, body |-> m.body]
      OBVIOUS
    <3>1. /\ to_device' = to_device \ {m} /\ x.body = m.body
          /\ \/ /\ static_buffers' = << x >> \o static_buffers
                /\ gone' = gone
             \/ /\ gone' = gone \cup {m.body}
                /\ static_buffers' = static_buffers
          /\ UNCHANGED << requested, output, headers, answers >>
      BY <2>7, <3>0 DEF OnData, sending
    <3>2. PICK S : static_buffers \in Seq(S)
      BY DEF RequestsKnown, BuffersKnown
    <3>3. ASSUME NEW d
          PROVE  \/ /\ gone' = gone
                    /\ BuffersOf(d)' = (IF m.body = d THEN {1} ELSE {})
                                         \cup {k + 1 : k \in BuffersOf(d)}
                 \/ /\ gone' = gone \cup {m.body}
                    /\ BuffersOf(d)' = BuffersOf(d)
      <4>1. CASE static_buffers' = << x >> \o static_buffers /\ gone' = gone
        BY <3>1, <3>2, <4>1, BuffersPushed
      <4>2. CASE static_buffers' = static_buffers /\ gone' = gone \cup {m.body}
        BY <4>2 DEF BuffersOf
      <4> QED
        BY <3>1, <4>1, <4>2
    <3>4. ASSUME NEW r \in requested PROVE InOnePlace(r.request)'
      <4>0. PICK d : d = r.request
        OBVIOUS
      <4>1. InOnePlace(d)
        BY <2>1, <4>0
      <4>2. /\ HeadersOf(d)' = HeadersOf(d) /\ AnswersOf(d)' = AnswersOf(d)
            /\ OutputOf(d)' = OutputOf(d)
        BY <3>1 DEF HeadersOf, AnswersOf, OutputOf
      <4>3. CASE d = m.body
        <5>1. m \in InputOf(d)
          BY <4>3 DEF InputOf
        <5>2. /\ d \notin gone /\ OutputOf(d) = {} /\ InputOf(d) = {m}
              /\ BuffersOf(d) = {} /\ HeadersOf(d) = {} /\ AnswersOf(d) = {}
          BY <4>1, <5>1, FoundThere
        <5>3. InputOf(d)' = {}
          BY <3>1, <5>2 DEF InputOf
        <5>4. \/ d \notin gone' /\ BuffersOf(d)' = {1}
              \/ d \in gone' /\ BuffersOf(d)' = {}
          BY <3>3, <4>3, <5>2
        <5> QED
          BY <4>0, <4>2, <5>2, <5>3, <5>4
          DEF InOnePlace, NowhereFound, OnceFound, OneOf, Single
      <4>4. CASE d # m.body
        <5>1. InputOf(d)' = InputOf(d)
          BY <3>1, <4>4 DEF InputOf
        <5>2. d \in gone' <=> d \in gone
          BY <3>1, <4>4
        <5>3. \/ BuffersOf(d)' = {k + 1 : k \in BuffersOf(d)}
              \/ BuffersOf(d)' = BuffersOf(d)
          BY <3>3, <4>4
        <5>4. BuffersOf(d) = {} => BuffersOf(d)' = {}
          BY <5>3
        <5>5. ASSUME NEW k, BuffersOf(d) = {k} PROVE Single(BuffersOf(d)')
          <6>1. BuffersOf(d)' = {k + 1} \/ BuffersOf(d)' = {k}
            BY <5>3, <5>5
          <6> QED
            BY <6>1 DEF Single
        <5>6. InOnePlace(d)'
          BY <4>1, <4>2, <5>1, <5>2, <5>4, <5>5, StaysInPlace
        <5> QED
          BY <4>0, <5>6
      <4> QED
        BY <4>3, <4>4
    <3> QED
      BY <3>1, <3>4 DEF PlacesCounted
  <2>8. ASSUME NEW e \in Entity, Take(e) PROVE PlacesCounted'
    <3>0. PICK f, b : f = FirstOwned(e) /\ b = static_buffers[f].body
      OBVIOUS
    <3>1. PICK S : static_buffers \in Seq(S)
      BY DEF RequestsKnown, BuffersKnown
    <3>2. f \in 1..Len(static_buffers) /\ f \in DOMAIN static_buffers
      BY <2>8, <3>0, <3>1, FirstOwnedExists DEF Take
    <3>3. /\ static_buffers' = RemoveAt(static_buffers, f)
          /\ UNCHANGED << requested, output, to_device >>
          /\ \/ /\ \E x : headers' = headers \cup {x} /\ x.request = b
                /\ answers' = answers /\ gone' = gone
             \/ /\ \E x : answers' = answers \cup {x} /\ x.request = b
                /\ headers' = headers /\ gone' = gone
             \/ /\ gone' = gone \cup {b}
                /\ headers' = headers /\ answers' = answers
      <4> DEFINE h == [service |-> e,
                       header |-> HeaderOf(static_buffers[f].related),
                       request |-> b]
                 a == [client |-> e, sequence_id |-> static_buffers[f].related,
                       request |-> b]
      <4>1. \/ /\ headers' = headers \cup {h}
               /\ answers' = answers /\ gone' = gone
            \/ /\ answers' = answers \cup {a}
               /\ headers' = headers /\ gone' = gone
            \/ /\ gone' = gone \cup {b}
               /\ headers' = headers /\ answers' = answers
        BY <2>8, <3>0 DEF Take, Taken, NotTaken
      <4>2. h.request = b /\ a.request = b
        OBVIOUS
      <4>3. /\ static_buffers' = RemoveAt(static_buffers, f)
            /\ UNCHANGED << requested, output, to_device >>
        BY <2>8, <3>0 DEF Take, sending
      <4> HIDE DEF h, a
      <4> QED
        BY <4>1, <4>2, <4>3
    <3>4. \A d : BuffersOf(d)' =
                   {IF k < f THEN k ELSE k - 1 : k \in BuffersOf(d) \ {f}}
      BY <3>1, <3>2, <3>3, BuffersTaken
    <3>5. ASSUME NEW r \in requested PROVE InOnePlace(r.request)'
      <4>0. PICK d : d = r.request
        OBVIOUS
      <4>1. InOnePlace(d)
        BY <2>1, <4>0
      <4>2. InputOf(d)' = InputOf(d) /\ OutputOf(d)' = OutputOf(d)
        BY <3>3 DEF InputOf, OutputOf
      <4>3. CASE d = b
        <5>1. f \in BuffersOf(d)
          BY <3>0, <3>2, <4>3 DEF BuffersOf
        <5>2. /\ d \notin gone /\ OutputOf(d) = {} /\ InputOf(d) = {}
              /\ BuffersOf(d) = {f} /\ HeadersOf(d) = {} /\ AnswersOf(d) = {}
          BY <4>1, <5>1, FoundThere
        <5>3. BuffersOf(d)' = {}
          BY <3>4, <5>2
        <5>4. \/ /\ d \notin gone'
                 /\ Single(HeadersOf(d)') /\ AnswersOf(d)' = {}
              \/ /\ d \notin gone'
                 /\ HeadersOf(d)' = {} /\ Single(AnswersOf(d)')
              \/ d \in gone' /\ HeadersOf(d)' = {} /\ AnswersOf(d)' = {}
          BY <3>3, <4>3, <5>2 DEF HeadersOf, AnswersOf, Single
        <5> QED
          BY <4>0, <4>2, <5>2, <5>3, <5>4
          DEF InOnePlace, NowhereFound, OnceFound, OneOf
      <4>4. CASE d # b
        <5>1. HeadersOf(d)' = HeadersOf(d) /\ AnswersOf(d)' = AnswersOf(d)
          BY <3>3, <4>4 DEF HeadersOf, AnswersOf
        <5>2. BuffersOf(d) \ {f} = BuffersOf(d)
          BY <3>0, <4>4 DEF BuffersOf
        <5>3. BuffersOf(d)' =
                {IF k < f THEN k ELSE k - 1 : k \in BuffersOf(d)}
          BY <3>4, <5>2
        <5>4. BuffersOf(d) = {} => BuffersOf(d)' = {}
          BY <5>3
        <5>5. ASSUME NEW k, BuffersOf(d) = {k} PROVE Single(BuffersOf(d)')
          <6>1. BuffersOf(d)' = {IF k < f THEN k ELSE k - 1}
            BY <5>3, <5>5
          <6> QED
            BY <6>1 DEF Single
        <5>6. d \in gone' <=> d \in gone
          BY <3>3, <4>4
        <5>7. InOnePlace(d)'
          BY <4>1, <4>2, <5>1, <5>4, <5>5, <5>6, StaysInPlace
        <5> QED
          BY <4>0, <5>7
      <4> QED
        BY <4>3, <4>4
    <3> QED
      BY <3>3, <3>5 DEF PlacesCounted
  <2> QED
    BY <2>2, <2>3, <2>4, <2>5, <2>6, <2>7, <2>8, TraceSteps
<1> QED
  BY <1>1, <1>2, CallsAreShaped, RequestsStayKnown, SentStaysTyped,
     RequestsStayDistinct, PTL DEF Spec

(***************************************************************************)
(* A request is in one place from rmw_send_request to rmw_take_response,   *)
(* or it is gone and in none: for any number of clients, services and      *)
(* messages, any reordering and loss, and any sizes of the input history   *)
(* and of the streams.                                                     *)
(***************************************************************************)
THEOREM RequestsAccounted == Spec => []NeitherLostNorDoubled
<1>1. RequestsDistinct /\ PlacesCounted => NeitherLostNorDoubled
  <2> SUFFICES ASSUME RequestsDistinct, PlacesCounted, NEW r \in requested
               PROVE  IF r.request \in gone THEN Traces(r) = {}
                      ELSE \E trace \in Traces(r) : Traces(r) = {trace}
    BY DEF NeitherLostNorDoubled
  <2> DEFINE b == r.request
             O == OutputOf(b)
             I == InputOf(b)
             B == BuffersOf(b)
             H == HeadersOf(b)
             A == AnswersOf(b)
  <2>1. A = answers \cap {r}
    BY DEF AnswersOf, RequestsDistinct
  <2>2. Traces(r) = ({"output"} \X O) \cup ({"input"} \X I) \cup
                    ({"buffer"} \X B) \cup ({"header"} \X H) \cup
                    ({"answer"} \X A)
    BY <2>1 DEF Traces, OutputOf, InputOf, BuffersOf, HeadersOf
  <2>3. IF b \in gone THEN O = {} /\ I = {} /\ B = {} /\ H = {} /\ A = {}
        ELSE OneOf(O, I, B, H, A)
    BY DEF PlacesCounted, InOnePlace, NowhereFound, OnceFound
  <2> HIDE DEF O, I, B, H, A
  <2>4. ASSUME NEW P, NEW x, NEW place, P = {x}
        PROVE  {place} \X P = {<< place, x >>}
    BY <2>4
  <2>5. \A place : {place} \X {} = {}
    OBVIOUS
  <2>6. CASE b \in gone
    BY <2>2, <2>3, <2>5, <2>6
  <2>7. CASE b \notin gone
    <3>1. OneOf(O, I, B, H, A)
      BY <2>3, <2>7
    <3>2. PICK x : Traces(r) = {x}
      <4> DEFINE In(place, P) == {place} \X P
      <4>1. /\ \A place : In(place, {}) = {}
            /\ \A place, P, y : P = {y} => In(place, P) = {<< place, y >>}
        BY <2>4, <2>5
      <4>2. Traces(r) = In("output", O) \cup In("input", I) \cup
                        In("buffer", B) \cup In("header", H) \cup
                        In("answer", A)
        BY <2>2
      <4> HIDE DEF In
      <4>3. \/ Traces(r) = In("output", O) /\ Single(O)
            \/ Traces(r) = In("input", I) /\ Single(I)
            \/ Traces(r) = In("buffer", B) /\ Single(B)
            \/ Traces(r) = In("header", H) /\ Single(H)
            \/ Traces(r) = In("answer", A) /\ Single(A)
        BY <3>1, <4>1, <4>2 DEF OneOf
      <4>4. ASSUME NEW place, NEW P, Traces(r) = In(place, P), Single(P)
            PROVE  \E x : Traces(r) = {x}
        <5>1. PICK y : P = {y}
          BY <4>4 DEF Single
        <5>2. Traces(r) = {<< place, y >>}
          BY <4>1, <4>4, <5>1
        <5> QED
          BY <5>2
      <4> QED
        BY <4>3, <4>4
    <3>3. \E trace \in Traces(r) : Traces(r) = {trace}
      <4> HIDE DEF b
      <4> QED
        BY <3>2
    <3> QED
      BY <2>7, <3>3
  <2> QED
    BY <2>6, <2>7
<1> QED
  BY <1>1, RequestsStayDistinct, PlacesStayCounted, PTL

=============================================================================
